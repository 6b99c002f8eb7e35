SPECIFICATION LSpec
CONSTANTS
  MayStop = FALSE
  MaySudoFail = FALSE
INVARIANT
  CleanupKills
