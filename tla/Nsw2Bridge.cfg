\* One button and two effects; games and the player act three times.
SPECIFICATION FairSpec
CONSTANTS
    a = a
    Button <- OneButton
    MaxEffects = 2
    MaxQueue = 2
    MaxEvents = 2
    MaxCalls = 3
INVARIANTS
    EffectsAgree
    MotorObeys
PROPERTIES
    InputArrives
    BothEnd
CHECK_DEADLOCK FALSE
