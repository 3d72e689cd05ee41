SPECIFICATION FairSpec
CONSTANTS
  d1 = d1
  d2 = d2
  d3 = d3
  strong = strong
  weak = weak
  Disk <- TwoDisks
  NoDisk = NoDisk
  Pass <- Passes
  NoPass = NoPass
  Weak <- WeakPasses
  MaxVersion = 2
  FaultyProbe <- NoDisks
  LateDisk <- TwoDisks
  TooSmall <- SmallDisk
  StablePolls = 2
  MaxPolls = 4
PROPERTIES
  EveryBootDecides
