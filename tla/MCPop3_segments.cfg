\* Client commands cut anywhere into packets (spec.md P7).
CONSTANTS
    AuthCmds <- MCPlainAuthCmds
    TransCmds <- MCPlainTransCmds
    Greetings <- MCGreetings
    Eols <- MCEols
    MaxCommands = 4
    Segmentation = "any"
    ServiceModes = {FALSE}
    MaxPipeline = 1
SPECIFICATION SessionSpec
INVARIANT Pop3CommandsRecognised
