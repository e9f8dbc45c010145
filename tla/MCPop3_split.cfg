\* Violation run: NoFailOnPop3Server.
CONSTANTS
    AuthCmds <- MCAuthCmds
    TransCmds <- MCTransCmds
    Greetings <- MCGreetings
    Eols <- MCEols
    MaxCommands = 5
    Segmentation = "lines"
    ServiceModes = {TRUE, FALSE}
    MaxPipeline = 1
SPECIFICATION SessionSpec
INVARIANT NoFailOnPop3Server
