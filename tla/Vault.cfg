SPECIFICATION Spec
CONSTANTS
  l1 = l1
  l2 = l2
  g = g
  Procs = {l1, l2, g}
  JobsOf <- TheJobs
  Mounts <- TheMounts
  Secrets <- TheSecrets
  Contents <- TheContents
  HasLookup = TRUE
  Length <- Lengths
  MaxRetries = 1
  SecretUses = 2
  MaxFaults = 2
  MaxEvents = 1
  Gone = gone
INVARIANTS
  TypeOK
  TokenFileWhole
  LoginServesLaterGets
  PrintsTheSecret
  SurvivesOutages
SYMMETRY Alike
CHECK_DEADLOCK FALSE
