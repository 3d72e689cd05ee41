\* An effect is uploaded, played and stopped while the HID thread drains.
SPECIFICATION FairSpec
CONSTANTS
    a = a
    Button = {}
    MaxEffects = 1
    MaxQueue = 2
    MaxEvents = 2
    MaxCalls = 3
PROPERTY StopSilences
CHECK_DEADLOCK FALSE
