SPECIFICATION Spec
CONSTANTS
    Parsed <- ParseProgram
    Formatted <- Source
    Checked <- CheckSource
    Files <- MCFiles
    Keys <- MCKeys
    MaxItems = 4
    MaxRounds = 2
INVARIANTS ParsesBack NoHoles
PROPERTIES FormatKeepsTree FormatSettles FormattedPassesCheck
CHECK_DEADLOCK FALSE
