CONSTANTS
    c1 = c1  c2 = c2
    Others <- MCOthers2
    Codes = {0}
    NoCode = NoCode
    MaxRuns = 3
    MaxFailures = 1
    MaxExecs = 2
    MaxNested = 2
CHECK_DEADLOCK FALSE
SPECIFICATION LiveSpec
INVARIANT ExecReturnsCode
PROPERTIES StartTakesEffect ExitEndsRun
