---------------------------- MODULE Pop3Verdicts ----------------------------
(***************************************************************************)
(* What the two POP3 detectors promise the AppId framework about a flow,   *)
(* stated without any parsing: the client verdict and the service verdict. *)
(*                                                                         *)
(*   client:  "unknown" until the client detector decides; "POP3" after a  *)
(*            transaction command; "POP3S" once an STLS is accepted, which *)
(*            may override "POP3"; "notPOP3" when a command matches no     *)
(*            pattern.  No verdict is taken back or replaced otherwise.    *)
(*   service: "unknown" until the service detector reports "POP3" or       *)
(*            "POP3S", or fails the flow ("failed").  It is decided once,  *)
(*            and "POP3S" only together with or after the client "POP3S".  *)
(***************************************************************************)
VARIABLES client, service

ClientVerdicts  == {"unknown", "POP3", "POP3S", "notPOP3"}
ServiceVerdicts == {"unknown", "POP3", "POP3S", "failed"}

Init == client = "unknown" /\ service = "unknown"

ClientNext ==
    \/ client' = client
    \/ client = "unknown" /\ client' \in {"POP3", "notPOP3"}
    \/ client \in {"unknown", "POP3"} /\ client' = "POP3S"

ServiceNext ==
    \/ service' = service
    \/ service = "unknown" /\ service' \in {"POP3", "failed"}
    \/ service = "unknown" /\ service' = "POP3S" /\ client' = "POP3S"

Next == ClientNext /\ ServiceNext

Spec == Init /\ [][Next]_<<client, service>>

TypeOK == client \in ClientVerdicts /\ service \in ServiceVerdicts
=============================================================================
