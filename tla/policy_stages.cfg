SPECIFICATION Spec
CONSTANTS
    Commands <- MCCommands
    Scopes = {s1, s2}
    Floor <- MCFloor
    Extensions <- MCExtensions
    Bases <- MCBases
    Nested <- MCNested
    Shell <- MCShell
    Interpreters <- MCInterpreters
    LongFlags <- MCLongFlags
    MaxNestDepth = 2
INVARIANTS KeyNamesOneClass VerdictOfTheWords
PROPERTIES DenyIsFinal AllowlistStays
CHECK_DEADLOCK FALSE
