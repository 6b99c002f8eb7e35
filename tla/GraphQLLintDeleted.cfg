SPECIFICATION Spec
CONSTANTS
    Rules <- MCRules
    Worlds <- DiffWorlds
    MaxLines = 3
INVARIANT
    DiffOnlyNew
