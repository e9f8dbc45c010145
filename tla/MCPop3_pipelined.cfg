\* A client that pipelines two commands (RFC 2449), whole packets (spec.md P2, P3).
CONSTANTS
    AuthCmds <- MCAuthCmds
    TransCmds <- MCTransCmds
    Greetings <- MCGreetings
    Eols <- MCEols
    MaxCommands = 3
    Segmentation = "none"
    ServiceModes = {TRUE, FALSE}
    MaxPipeline = 2
SPECIFICATION SessionSpec
PROPERTY RepliesCorrelated
