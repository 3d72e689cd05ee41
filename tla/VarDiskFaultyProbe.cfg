SPECIFICATION Spec
CONSTANTS
  d1 = d1
  d2 = d2
  d3 = d3
  strong = strong
  weak = weak
  Disk <- TwoDisks
  NoDisk = NoDisk
  Pass <- Passes
  NoPass = NoPass
  Weak <- WeakPasses
  MaxVersion = 2
  FaultyProbe <- TwoDisks
  LateDisk <- NoDisks
  TooSmall <- NoDisks
  StablePolls = 1
  MaxPolls = 2
PROPERTIES
  NothingPreciousIsWritten
