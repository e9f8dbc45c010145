\* Violation run: UserIsLoginName.
CONSTANTS
    AuthCmds <- MCAuthCmds
    TransCmds <- MCTransCmds
    Greetings <- MCGreetings
    Eols <- MCEols
    MaxCommands = 5
    Segmentation = "none"
    ServiceModes = {TRUE, FALSE}
    MaxPipeline = 1
SPECIFICATION SessionSpec
INVARIANT UserIsLoginName
