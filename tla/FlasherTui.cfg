\* Two flashes, the second perhaps of another disk, and a visit to the shell.
SPECIFICATION FairSpec
CONSTANTS
    stick = stick
    large = large
    small = small
    Disk <- ThreeDisks
    Usb <- Sticks
    Size <- Sizes
    Chunks = 2
    MaxFlashes = 2
    MaxShells = 1
INVARIANTS
    ScreenIsTrue
    OnlyTheConfirmedDiskIsWritten
    OneWriterAtATime
PROPERTIES
    FlashEnds
