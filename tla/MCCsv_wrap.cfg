CONSTANTS
    Files <- MCFiles
    Limits <- MCWideLimits
    CsvChoices <- MCCsvChoices
    Packets <- MCPackets
    MaxLoads = 2
SPECIFICATION Spec
INVARIANT LoggerMatchesLoad
