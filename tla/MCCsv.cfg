CONSTANTS
    Files <- MCFiles
    Limits <- MCLimits
    CsvChoices <- MCCsvChoices
    Packets <- MCPackets
    MaxLoads = 2
SPECIFICATION Spec
INVARIANT LoggerMatchesLoad
