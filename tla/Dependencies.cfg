SPECIFICATION FairSpec
CONSTANTS
  flagship = flagship
  outreach = outreach
  x = x
  y = y
  z = z
  v = v
  Services <- GraphServices
  Flagship = flagship
  Outreach = outreach
  Worlds <- AllWorlds
  ProvisionTarget = ""
INVARIANTS
  TypeOK
  FindsExactly
  CorrectUnlessOutage
PROPERTIES
  WalkEnds
