SPECIFICATION Spec
CONSTANTS
    Parsed <- ParseProgram
    Formatted <- Source
    Checked <- CheckSource
    Files <- RangeFiles
    Keys <- MCKeys
    MaxItems = 4
    MaxRounds = 2
PROPERTY FormatKeepsTree
CHECK_DEADLOCK FALSE
