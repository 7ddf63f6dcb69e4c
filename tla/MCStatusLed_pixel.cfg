CONSTANTS
    TickRate <- Rate
    RENDER_PERIOD_MS <- RenderPeriod
    BLIP_MS <- BlipTime
    DEBUG_HOLD_MS <- DebugHold
    ERROR_BLINK_MS <- ErrorBlink
    Blinks <- One
    NoLimit <- Six
    Tasks = {t1, t2}
    FrameTicks <- One
SPECIFICATION Spec
CHECK_DEADLOCK FALSE
INVARIANTS
    TypeOK
    FatalOwnsPixel
    EventsShown
