SPECIFICATION FairSpec
CONSTANTS
  v1 = v1
  v2 = v2
  v3 = v3
  p1 = p1
  p2 = p2
  Paths = {p1, p2}
  Local = local
  None = none
  Schedule <- Upgrades
  MaxCrashes = 0
PROPERTY
  SucceedsAgain
