SPECIFICATION GrowthSpec
CONSTANTS
  Threshold = 1
  Slack = 1
  MaxSize = 6
INVARIANTS
  LayersNest
  GrowthCloses
