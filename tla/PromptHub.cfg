\* Two operators at two terminals, two prompts, fairly scheduled: what an answer
\* may mean, and that one arrives.
SPECIFICATION FairSpec
CONSTANTS
    c1 = c1
    c2 = c2
    Client <- TwoClients
    Keys <- MixedKeys
    MaxPrompts = 2
    MaxKeys <- FewKeys
    WireCap = 1
INVARIANTS
    AnswersMeanTheirPrompt
    NothingHalfTypedIsTaken
    NewestSnapshotIsOnItsWay
PROPERTIES
    AnswersArrive
\* The daemon exits and everyone leaves.
CHECK_DEADLOCK FALSE
