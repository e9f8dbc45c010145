\* An RFC 1939 session, whole commands and replies per packet.
CONSTANTS
    AuthCmds <- MCAuthCmds
    TransCmds <- MCTransCmds
    Greetings <- MCGreetings
    Eols <- MCBothEols
    MaxCommands = 6
    Segmentation = "none"
    ServiceModes = {TRUE, FALSE}
    MaxPipeline = 1
SPECIFICATION SessionSpec
INVARIANTS
    TypeOK
    ServiceReportedOnce
    Pop3sOnlyAfterStls
    NoFailOnPop3Server
PROPERTIES
    VerdictsRefined
    UserEventuallyReported
    ServiceEventuallyDecided
    ClientEventuallyDecided
    RepliesCorrelated
