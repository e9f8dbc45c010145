---------------------------- MODULE Pop3Session ----------------------------
(***************************************************************************)
(* One POP3 TCP session observed by AppId: an RFC 1939 client and server   *)
(* that exchange one command and one reply at a time, the two byte streams *)
(* between them cut into packets, and the framework delivering each packet *)
(* to the POP3 detectors (module Pop3Detector) as AppId does:              *)
(*   - client packets go to the client detector while it has neither        *)
(*     returned a verdict nor had the client detected;                      *)
(*   - server packets go to the service detector while it is in progress,  *)
(*     or after its SUCCESS while APPID_SESSION_CONTINUE is set; otherwise *)
(*     to the client detector if it asked for them                          *)
(*     (APPID_SESSION_CLIENT_GETS_SERVER_PACKETS);                          *)
(*   - at session teardown the flow data is freed (pop3_free_state).        *)
(* Whether the service detector is engaged on the session at all is        *)
(* decided by port/pattern selection outside this code; it is a            *)
(* nondeterministic choice (svcOn).                                        *)
(***************************************************************************)
EXTENDS Integers, Sequences, SequencesExt, FiniteSets, Pop3Detector

CONSTANTS
    Greetings,     \* greeting lines the server may send (tokens, with CRLF)
    AuthCmds,      \* commands the client may send before login: [verb, args]
    TransCmds,     \* commands the client may send after login
    Eols,          \* line ends the client uses: <<CR, LF>> and/or <<LF>>
    MaxCommands,   \* bound on the commands one session sends
    Segmentation,  \* "none": a packet is a whole reply or command;
                   \* "lines": packets are cut at line ends; "any": anywhere
    ServiceModes,  \* possible values of svcOn
    MaxPipeline    \* commands a client may have awaiting replies (1: none)

ASSUME MaxCommands \in Nat /\ Segmentation \in {"none", "lines", "any"}
ASSUME ServiceModes \subseteq BOOLEAN /\ ServiceModes # {}
ASSUME MaxPipeline \in Nat \ {0}

VARIABLES
    phase,     \* the POP3 state both ends agree on
    pending,   \* the commands awaiting replies, oldest first: [cmd, len]
    c2s,       \* bytes the client sent that AppId has not yet seen
    s2c,       \* bytes the server sent that AppId has not yet seen
    sent,      \* commands sent so far
    answered,  \* the command the server answered last, and its answer (ghost)
    stlsOk,    \* the server has accepted STLS (ghost)
    svcOn,     \* the service detector runs on this session
    replies    \* complete server responses sent, greeting included (ghost)

envVars == <<phase, pending, c2s, s2c, sent, answered, stlsOk, svcOn, replies>>
vars == <<detVars, envVars>>

NoCmd == [verb |-> "none", args |-> <<>>]
Phases == {"connect", "auth", "sasl", "trans", "tls", "tls_hello",
           "tls_done", "quit", "gone"}

\* The bytes of a command line: VERB[ SP args]eol.
Line(cmd, eol) ==
    <<cmd.verb>> \o (IF cmd.args = <<>> THEN <<>> ELSE <<SP>> \o cmd.args) \o eol

\* RFC 1939 / 2449: the replies that carry a dot-terminated body.
MultiLine(cmd) ==
    \/ cmd.verb \in {"CAPA", "RETR", "TOP"}
    \/ cmd.verb \in {"LIST", "UIDL"} /\ cmd.args = <<>>

\* Verb of the last command the server accepted.
lastOk == IF answered.ok THEN answered.cmd.verb ELSE "none"

Status(ok) == <<IF ok THEN "+OK" ELSE "-ERR", CR, LF>>
Body == <<"text", CR, LF, ".", CR, LF>>
SaslChallenge == <<"+", SP, CR, LF>>
SaslResponse == [verb |-> "dGVzdA", args |-> <<>>]   \* a base64 line

Reply(cmd, ok) ==
    CASE cmd.verb = "AUTH" /\ ok -> SaslChallenge
      [] ok /\ MultiLine(cmd)   -> Status(ok) \o Body
      [] OTHER                  -> Status(ok)

\* The phase after the server's reply to cmd.
PhaseAfter(cmd, ok) ==
    CASE cmd.verb = "QUIT"                       -> "quit"
      [] ~ok /\ phase \in {"auth", "sasl"}       -> "auth"
      [] ~ok                                     -> phase
      [] cmd.verb = "STLS"                       -> "tls"
      [] cmd.verb = "AUTH"                       -> "sasl"
      [] cmd.verb \in {"PASS", "APOP"} \/ phase = "sasl" -> "trans"
      [] OTHER                                   -> phase

\* Where a stream may be cut into the next packet.
Cuts(stream) ==
    CASE Segmentation = "none"  -> {Len(stream)}
      [] Segmentation = "lines" -> {k \in 1..Len(stream) : stream[k] = LF}
                                    \cup {Len(stream)}
      [] OTHER                  -> 1..Len(stream)

Quiet == c2s = <<>> /\ s2c = <<>> /\ pending = <<>>

ClientCallable == clientRet = "INPROCESS" /\ CLIENT_DETECTED \notin flags
ServiceCallable ==
    /\ svcOn
    /\ \/ serviceRet = "INPROCESS"
       \/ serviceRet = "SUCCESS" /\ CONTINUE \in flags

SessionInit ==
    /\ Init
    /\ phase = "connect" /\ pending = <<>> /\ c2s = <<>> /\ s2c = <<>>
    /\ sent = 0 /\ answered = [cmd |-> NoCmd, ok |-> FALSE] /\ stlsOk = FALSE
    /\ svcOn \in ServiceModes
    /\ replies = 0

-----------------------------------------------------------------------------
(* The peers. *)

ServerGreet ==
    /\ phase = "connect"
    /\ \E g \in Greetings : s2c' = g
    /\ phase' = "auth" /\ replies' = 1
    /\ UNCHANGED <<pending, c2s, sent, answered, stlsOk, svcOn>>
    /\ UNCHANGED detVars

(***************************************************************************)
(* The client sends its next command once the previous reply has arrived  *)
(* or, pipelining (RFC 2449), while earlier commands await their replies.  *)
(* No command follows STLS, AUTH or QUIT before their reply (RFC 2595,     *)
(* 5034), and PASS follows a USER, accepted or still awaiting its reply.  *)
(***************************************************************************)
Awaited(verbs) == \E i \in 1..Len(pending) : pending[i].cmd.verb \in verbs

ClientSend ==
    /\ phase \in {"auth", "trans", "sasl"}
    /\ Len(pending) < MaxPipeline /\ sent < MaxCommands
    /\ pending = <<>> => s2c = <<>>
    /\ ~Awaited({"STLS", "AUTH", "QUIT"})
    /\ \E eol \in Eols, cmd \in CASE phase = "auth"  -> AuthCmds
                                 [] phase = "trans" -> TransCmds
                                 [] OTHER           -> {SaslResponse} :
          /\ cmd.verb = "PASS" =>
                IF pending = <<>> THEN lastOk = "USER"
                ELSE Last(pending).cmd.verb = "USER"
          /\ c2s' = c2s \o Line(cmd, eol)
          /\ pending' = Append(pending, [cmd |-> cmd, len |-> Len(Line(cmd, eol))])
    /\ sent' = sent + 1
    /\ UNCHANGED <<phase, s2c, answered, stlsOk, svcOn, replies>>
    /\ UNCHANGED detVars

(***************************************************************************)
(* The server has read the whole of the oldest command (the bytes left in *)
(* c2s belong to later ones) and answers it.  PASS succeeds only after an *)
(* accepted USER.                                                          *)
(***************************************************************************)
Unread == FoldSeq(LAMBDA p, n : p.len + n, 0, Tail(pending))

ServerReply ==
    /\ pending # <<>> /\ Len(c2s) <= Unread
    /\ LET cmd == Head(pending).cmd IN
       \E ok \in CASE cmd.verb = "QUIT"                     -> {TRUE}
                    [] cmd.verb = "PASS" /\ lastOk # "USER" -> {FALSE}
                    [] OTHER                                -> BOOLEAN :
          /\ s2c' = s2c \o Reply(cmd, ok)
          /\ phase' = PhaseAfter(cmd, ok)
          /\ answered' = [cmd |-> cmd, ok |-> ok]
          /\ stlsOk' = (stlsOk \/ (ok /\ cmd.verb = "STLS"))
          /\ replies' = replies + (IF cmd.verb = "AUTH" THEN 0 ELSE 1)
    /\ pending' = Tail(pending)
    /\ UNCHANGED <<c2s, sent, svcOn>>
    /\ UNCHANGED detVars

\* After an accepted STLS the client starts TLS and the server answers.
ClientHello ==
    /\ phase = "tls" /\ s2c = <<>>
    /\ c2s' = <<BIN>> /\ phase' = "tls_hello"
    /\ UNCHANGED <<pending, s2c, sent, answered, stlsOk, svcOn, replies>>
    /\ UNCHANGED detVars

ServerHello ==
    /\ phase = "tls_hello" /\ c2s = <<>>
    /\ s2c' = <<BIN>> /\ phase' = "tls_done"
    /\ UNCHANGED <<pending, c2s, sent, answered, stlsOk, svcOn, replies>>
    /\ UNCHANGED detVars

-----------------------------------------------------------------------------
(* AppId. *)

DeliverClient ==
    /\ c2s # <<>>
    /\ \E k \in Cuts(c2s) :
          /\ c2s' = Drop(c2s, k)
          /\ IF ClientCallable THEN ClientValidateInitiator(SubSeq(c2s, 1, k))
             ELSE UNCHANGED detVars
    /\ UNCHANGED <<phase, pending, s2c, sent, answered, stlsOk, svcOn, replies>>

DeliverServer ==
    /\ s2c # <<>>
    /\ \E k \in Cuts(s2c) :
          LET pkt == SubSeq(s2c, 1, k) IN
          /\ s2c' = Drop(s2c, k)
          /\ CASE ServiceCallable -> ServiceValidate(pkt)
               [] ClientCallable /\ CGSP \in flags ->
                     ClientValidateResponder(pkt)
               [] OTHER -> UNCHANGED detVars
    /\ UNCHANGED <<phase, pending, c2s, sent, answered, stlsOk, svcOn, replies>>

\* The session ends (FIN, RST or idle timeout) with nothing in flight.
Teardown ==
    /\ phase # "gone" /\ Quiet
    /\ IF allocated THEN FreeState ELSE UNCHANGED detVars
    /\ phase' = "gone"
    /\ UNCHANGED <<pending, c2s, s2c, sent, answered, stlsOk, svcOn, replies>>

\* The session is over; nothing happens any more.
Finished == phase = "gone" /\ UNCHANGED vars

SessionNext ==
    \/ ServerGreet \/ ClientSend \/ ServerReply \/ ClientHello \/ ServerHello
    \/ DeliverClient \/ DeliverServer \/ Teardown \/ Finished

(***************************************************************************)
(* The network delivers what was sent, the server answers every command   *)
(* and the session is eventually torn down.  The client itself may stop   *)
(* sending at any point, so ClientSend is not fair.                       *)
(*                                                                         *)
(* Weak fairness of the two delivery steps is written out: a delivery can *)
(* always be taken when its stream is not empty (k = Len(stream) is a     *)
(* cut and every detector branch has a successor), so ENABLED of each is  *)
(* exactly "the stream is not empty".                                      *)
(***************************************************************************)
WFDeliverClient == <>[](c2s # <<>>) => []<><<DeliverClient>>_vars
WFDeliverServer == <>[](s2c # <<>>) => []<><<DeliverServer>>_vars

Fairness ==
    /\ WF_vars(ServerGreet) /\ WF_vars(ServerReply)
    /\ WF_vars(ClientHello) /\ WF_vars(ServerHello)
    /\ WFDeliverClient /\ WFDeliverServer
    /\ WF_vars(Teardown)

SessionSpec == SessionInit /\ [][SessionNext]_vars /\ Fairness

-----------------------------------------------------------------------------
(* Properties. *)

ReportsOf(call) == {i \in 1..Len(reports) : reports[i].call = call}

(***************************************************************************)
(* Refinement mapping onto Pop3Verdicts.  The client verdict is the app of *)
(* the last add_app call, or "notPOP3" once the client detector returned   *)
(* SUCCESS without one; the service verdict is the last add_service or     *)
(* fail_service call.                                                      *)
(***************************************************************************)
LastOf(calls) ==
    LET is == {i \in 1..Len(reports) : reports[i].call \in calls}
    IN  IF is = {} THEN 0 ELSE Max(is)

ClientVerdict ==
    LET i == LastOf({"add_app"}) IN
    CASE i > 0                   -> reports[i].app
      [] clientRet = "SUCCESS"   -> "notPOP3"
      [] OTHER                   -> "unknown"

ServiceVerdict ==
    LET i == LastOf({"add_service", "fail_service"}) IN
    CASE i = 0                                  -> "unknown"
      [] reports[i].call = "fail_service"       -> "failed"
      [] OTHER                                  -> reports[i].app

Verdicts == INSTANCE Pop3Verdicts
              WITH client <- ClientVerdict, service <- ServiceVerdict

(***************************************************************************)
(* The session implements Pop3Verdicts: whatever packets the detectors see *)
(* and in whatever order the two of them run, a verdict published through  *)
(* add_app, add_service or fail_service is never taken back, the service   *)
(* is decided once, and POP3S is only an upgrade after an accepted STLS.   *)
(* About the framework calls of both validate functions and of             *)
(* pop3_server_validate.                                                   *)
(***************************************************************************)
VerdictsRefined == Verdicts!Spec

(***************************************************************************)
(* Pop3ServiceDetector::validate reports the service at most once per      *)
(* session, and add_service_consume_subtype takes the subtype list over:  *)
(* once the service is reported the flow no longer holds a subtype, so     *)
(* pop3_free_state cannot free a list the framework now owns.              *)
(***************************************************************************)
ServiceReportedOnce ==
    /\ Cardinality(ReportsOf("add_service")) <= 1
    /\ allocated /\ SERVICE_DETECTED \in flags => dd.server.subtype = <<>>

(***************************************************************************)
(* POP3S is claimed (APPID_SESSION_ENCRYPTED set by pop3_server_validate,  *)
(* add_app(APP_ID_POP3S), add_service(APP_ID_POP3S)) only once the server  *)
(* has accepted an STLS command: the STLS_CMD client state must not        *)
(* outlive a refused STLS or arise from another command.                   *)
(***************************************************************************)
Pop3sOnlyAfterStls ==
    /\ ENCRYPTED \in flags => stlsOk
    /\ \A i \in 1..Len(reports) : reports[i].app = "POP3S" => stlsOk

(***************************************************************************)
(* The service detector fails a session (fail_service) only on bytes that *)
(* are not POP3: here, the TLS records after an accepted STLS.  Every      *)
(* reply of an RFC 1939 server, whatever packets it arrives in, must parse *)
(* (spec.md P7: splitting the stream must not change the calls made).     *)
(***************************************************************************)
NoFailOnPop3Server == ReportsOf("fail_service") # {} => stlsOk

(***************************************************************************)
(* A user name the client parser captured is eventually reported by       *)
(* add_user, once the server's answer to the login has been parsed: the   *)
(* answer must reach a parser (service detector or client detector with   *)
(* CLIENT_GETS_SERVER_PACKETS) while fd->username is set.                  *)
(***************************************************************************)
CapturableNames ==
    UNION {{SubSeq(c.args, 1, k) : k \in 1..Len(c.args)} : c \in AuthCmds}

UserEventuallyReported ==
    \A u \in CapturableNames :
        (allocated /\ dd.client.username = u)
            ~> \E i \in ReportsOf("add_user") : reports[i].user = u

(***************************************************************************)
(* Once the server has sent POP3_COUNT_THRESHOLD complete responses on a   *)
(* session the service detector runs on, Pop3ServiceDetector::validate     *)
(* eventually gives its verdict (add_service_consume_subtype or            *)
(* fail_service): pop3_server_validate must count (pd->count) every        *)
(* response, a multi-line one at its ".\r\n" terminator included.  Stated *)
(* for replies that each arrive in one packet; a terminator cut across    *)
(* packets is not counted (:537) and is left to the hazard list.           *)
(***************************************************************************)
ServiceEventuallyDecided ==
    (svcOn /\ replies >= POP3_COUNT_THRESHOLD)
        ~> ReportsOf("add_service") \cup ReportsOf("fail_service") # {}

(***************************************************************************)
(* A client that sends a command in the transaction phase eventually has  *)
(* a verdict from Pop3ClientDetector::validate: add_app (POP3 or POP3S),   *)
(* or APPID_SUCCESS with no app after a pattern miss.  The detector must   *)
(* not stop being called (CLIENT_DETECTED, a SUCCESS return) without      *)
(* giving one.                                                             *)
(***************************************************************************)
ClientEventuallyDecided ==
    (phase = "trans" /\ pending # <<>>) ~> ClientVerdict # "unknown"

(***************************************************************************)
(* An STLS command the server accepted is eventually recognised: the      *)
(* client parser enters STLS_CMD on it and pop3_server_validate sets      *)
(* APPID_SESSION_ENCRYPTED on the "+OK".                                   *)
(***************************************************************************)
StlsEventuallyEncrypted == stlsOk ~> ENCRYPTED \in flags
(***************************************************************************)
(* pop3_server_validate correlates each status line with the command it  *)
(* answers.  add_user reports a name taken from that command, with the    *)
(* line's answer as its success flag (spec.md P3).  add_app(POP3S) is     *)
(* made only on the acceptance of STLS (spec.md P2, scenario 3).  The     *)
(* parser reads fd->username and the client state as the client parser   *)
(* left them; a reply swallowed or arriving after later commands were     *)
(* parsed must not be taken for the answer to them.                       *)
(***************************************************************************)
NewReports == SubSeq(reports', Len(reports) + 1, Len(reports'))

RepliesCorrelated ==
    [][\A i \in 1..Len(NewReports) :
          /\ NewReports[i].call = "add_user" =>
                /\ NewReports[i].success = answered.ok
                /\ IsPrefix(NewReports[i].user, answered.cmd.args)
          /\ NewReports[i].call = "add_app" /\ NewReports[i].app = "POP3S" =>
                answered.cmd.verb = "STLS" /\ answered.ok]_vars

(***************************************************************************)
(* spec.md P3 and section 3: the user name reported by add_user is the one *)
(* the client gave in USER or APOP, never its password.                    *)
(***************************************************************************)
LoginNames ==
    {<<c.args[1]>> : c \in {c2 \in AuthCmds : c2.verb \in {"USER", "APOP"}}}

UserIsLoginName ==
    \A i \in ReportsOf("add_user") : reports[i].user \in LoginNames

(***************************************************************************)
(* spec.md 4.1: a pattern miss means the client speaks something other    *)
(* than POP3.  A client sending only POP3 commands of the pattern table    *)
(* must therefore never take that exit (Pop3ClientDetector::validate      *)
(* returning APPID_SUCCESS with no app).                                   *)
(***************************************************************************)
Pop3CommandsRecognised == clientRet = "INPROCESS"
=============================================================================
