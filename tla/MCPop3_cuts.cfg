\* Client and server byte streams cut into packets anywhere, with SASL and
\* STLS logins: one-byte packets reach the parsers.
CONSTANTS
    AuthCmds <- MCCutsAuthCmds
    TransCmds <- MCSaslTransCmds
    Greetings <- MCGreetings
    Eols <- MCEols
    MaxCommands = 4
    Segmentation = "any"
    ServiceModes = {TRUE, FALSE}
    MaxPipeline = 1
SPECIFICATION SessionSpec
INVARIANTS
    ServiceReportedOnce
    Pop3sOnlyAfterStls
PROPERTIES
    VerdictsRefined
