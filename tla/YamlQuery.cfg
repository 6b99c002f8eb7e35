SPECIFICATION Spec
CHECK_DEADLOCK FALSE
CONSTANTS
  Jobs <- MCJobs
  Files <- QueryFiles
  Filters <- QueryFilters
  Alphabet <- Keys
INVARIANTS
  TypeOK
  PrintsWhatWasEmitted
  FileOrderKept
  RoundtripIsLocal
  CommandLineHonoured
PROPERTIES
  ObjectsNeverChange
