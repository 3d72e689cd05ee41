SPECIFICATION Spec
CONSTANTS
  d1 = d1
  d2 = d2
  d3 = d3
  strong = strong
  weak = weak
  Disk <- ThreeDisks
  NoDisk = NoDisk
  Pass <- Passes
  NoPass = NoPass
  Weak <- WeakPasses
  MaxVersion = 2
  FaultyProbe <- NoDisks
  LateDisk <- ThreeDisks
  TooSmall <- NoDisks
  StablePolls = 1
  MaxPolls = 2
INVARIANTS
  LatestDataSurvives
  CompleteMeansCopied
  RunsOnLatestData
  NeverUnencryptedAgain
PROPERTIES
  NothingPreciousIsWritten
  ImplementsVarData
SYMMETRY DiskSymmetry
