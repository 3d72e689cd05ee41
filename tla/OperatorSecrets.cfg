\* A boot, an edit session or a second collector beside it, a power cut and a
\* rotated credential.
SPECIFICATION Spec
CONSTANTS
    oidc = oidc
    eab = eab
    a = a
    b = b
    Secret <- TwoSecrets
    Order <- TwoInOrder
    Presence <- Unproven
    Value <- TwoValues
    MaxStarts = 2
    MaxCuts = 1
    MaxRotations = 1
SYMMETRY ValueSymmetry
INVARIANTS
    ReleasedMeansProven
    AskedForAReason
    BlockedIsHonest
    NeverHalfWritten
PROPERTIES
    OnlyProvenIsWritten
\* The system rests when nobody starts another run.
CHECK_DEADLOCK FALSE
