SPECIFICATION Spec
CONSTANTS
    Rules <- MCRules
    Worlds <- AllWorlds
    MaxLines = 3
INVARIANTS
    TypeOK
    ReportsExactly
    DeletingUnusedIsSafe
    DiffIsExact
