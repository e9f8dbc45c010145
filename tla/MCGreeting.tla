----------------------------- MODULE MCGreeting -----------------------------
(***************************************************************************)
(* The greeting extraction of pop3_server_validate applied to the greeting *)
(* of spec.md P6, as the service detector sees it: the line from "+OK" up *)
(* to line_end (the CR is part of it, the LF is not).                      *)
(***************************************************************************)
EXTENDS Pop3Greeting

VARIABLE pd

P6Line ==
    <<"+OK", SP, "Post.Office", SP, "v", "3.5.3", SP, "release", SP, "223",
      SP, "with", SP, "Rutger", SP, "version", SP, "1.0", CR>>

NoGreetingData == [vendor |-> NoVendor, version |-> "", subtype |-> <<>>]

Init == pd = ScanGreeting(NoGreetingData, P6Line)
Next == UNCHANGED pd

(***************************************************************************)
(* spec.md P6: this greeting yields vendor "Post.Office", version          *)
(* "3.5.3 release 223" and the one subtype {service "Rutger", version      *)
(* "1.0"}.                                                                 *)
(***************************************************************************)
P6Greeting ==
    /\ pd.vendor = VEN_PO
    /\ pd.version = "3.5.3 release 223"
    /\ pd.subtype = <<[service |-> "Rutger", version |-> "1.0"]>>
=============================================================================
