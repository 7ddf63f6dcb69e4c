---------------------------- MODULE MCStatusLed ----------------------------
(* Model values for StatusLed: the firmware's tick rate and render period;  *)
(* the holds are as short as they may be for every event to be seen.       *)
EXTENDS StatusLed

Rate == 100
RenderPeriod == 20
BlipTime == 50
DebugHold == 50
ErrorBlink == 10
One == 1
Six == 6
=============================================================================
