CONSTANTS
    FAT_CLUSTERS <- Eight
    FAT_SECTORS_PER_CLUSTER <- Two
    FAT_SECTOR_SIZE <- Eight
    FAT_ROOT_SECTORS <- Two
    FAT_ROOT_ENTRY_SIZE <- Two
    MSC_README_SIZE <- Five
    PinoutSizes <- Pinouts
    MaxSectors <- Three
    MaxWrites <- Three
SPECIFICATION Spec
INVARIANTS
    TypeOK
    FilesReadable
    SessionOfCommand
