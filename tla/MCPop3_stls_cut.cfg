\* CAPA and a refused STLS, both byte streams cut anywhere (spec.md P2, P7).
CONSTANTS
    AuthCmds <- MCStlsCapaCmds
    TransCmds <- MCSaslTransCmds
    Greetings <- MCGreetings
    Eols <- MCEols
    MaxCommands = 4
    Segmentation = "any"
    ServiceModes = {TRUE, FALSE}
    MaxPipeline = 1
SPECIFICATION SessionSpec
INVARIANT Pop3sOnlyAfterStls
