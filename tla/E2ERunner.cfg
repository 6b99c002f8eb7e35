\* The runner really may stop: runLocalizer blocks in Connect once the server
\* is gone.  RunEnds says that nothing else keeps a run from ending.
CHECK_DEADLOCK FALSE
SPECIFICATION FairSpec
CONSTANTS
  MayStop = TRUE
  MaySudoFail = TRUE
INVARIANTS
  TypeOK
  PhasesInOrder
  ExitTruthful
  LocalizerDiscipline
PROPERTIES
  RunEnds
