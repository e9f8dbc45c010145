---------------------------- MODULE Pop3Detector ----------------------------
(***************************************************************************)
(* The POP3 client and service detectors of detector_pop3.cc acting on one *)
(* flow: the per-flow record POP3DetectorData shared by both, the session  *)
(* flags they read and write, and the calls they make into the framework.  *)
(*                                                                         *)
(* One action per entry point:                                             *)
(*   ClientValidateInitiator  Pop3ClientDetector::validate, client bytes   *)
(*   ClientValidateResponder  Pop3ClientDetector::validate, server bytes   *)
(*   ServiceValidate          Pop3ServiceDetector::validate, server bytes  *)
(*   FreeState                pop3_free_state at session teardown          *)
(* Each takes the whole payload of one packet and does everything the      *)
(* handler does with it, loops over commands and lines included.           *)
(*                                                                         *)
(* The framework calls (add_app, add_user, add_service_consume_subtype,    *)
(* fail_service) are appended to `reports`.  The flags the framework sets  *)
(* inside them are the ones the code's comments name: add_app sets         *)
(* CLIENT_DETECTED, add_service_consume_subtype sets SERVICE_DETECTED.     *)
(***************************************************************************)
EXTENDS Integers, Sequences, SequencesExt, Pop3Lines, Pop3Patterns,
        Pop3Greeting

VARIABLES
    dd,          \* POP3DetectorData attached to the session (data_get)
    allocated,   \* data_get(asd) != nullptr
    flags,       \* the session flags the detectors use
    reports,     \* the framework calls made so far, in order
    clientRet,   \* last value returned by Pop3ClientDetector::validate
    serviceRet,  \* last value returned by Pop3ServiceDetector::validate
    eocPastEnd   \* what the build reads at eoc[29] (rigid)

detVars == <<dd, allocated, flags, reports, clientRet, serviceRet, eocPastEnd>>

CGSP             == "CLIENT_GETS_SERVER_PACKETS"
CLIENT_DETECTED  == "CLIENT_DETECTED"
SERVICE_DETECTED == "SERVICE_DETECTED"
CONTINUE         == "CONTINUE"
ENCRYPTED        == "ENCRYPTED"
SessionFlags == {CGSP, CLIENT_DETECTED, SERVICE_DETECTED, CONTINUE, ENCRYPTED}

POP3_COUNT_THRESHOLD == 4

POP3_OK   == "+OK"
POP3_ERR  == "-ERR"
POP3_TERM == <<".", CR, LF>>

\* char username[((255 - (sizeof(USER) - 1)) - 2) + 1]; p_end = username + 248
USERNAME_ROOM == 248

NoUser == <<>>   \* fd->username == nullptr (a stored name is never empty)

ClientStates == {"AUTH", "TRANS", "STLS_CMD"}
ServerStates == {"CONNECT", "RESPONSE", "CONTINUE"}

(***************************************************************************)
(* snort_calloc(sizeof(POP3DetectorData)) and the two fields both          *)
(* validate functions set on a new record (they are the zero values).      *)
(***************************************************************************)
FreshFlow ==
    [client |-> [username |-> NoUser, state |-> "AUTH", set_flags |-> FALSE,
                 detected |-> FALSE, got_user |-> FALSE],
     server |-> [state |-> "CONNECT", count |-> 0, vendor |-> NoVendor,
                 version |-> "", subtype |-> <<>>, error |-> FALSE],
     need_continue |-> FALSE]

Report(call, app) ==
    [call |-> call, app |-> app, user |-> NoUser, success |-> FALSE,
     vendor |-> NoVendor, version |-> "", subtype |-> <<>>]
UserReport(name, ok) == [Report("add_user", "POP3") EXCEPT !.user = name,
                                                           !.success = ok]

-----------------------------------------------------------------------------
(***************************************************************************)
(* Client parser (Pop3ClientDetector::validate, lines 603-749).            *)
(***************************************************************************)

(***************************************************************************)
(* The user-name loop of case PATTERN_APOP / PATTERN_USER: copy bytes of   *)
(* [A-Za-z0-9.@_-] except after a backtick, stop at CR, LF or SP (store    *)
(* the name if it is not empty) or at any other byte (store nothing).  The *)
(* loop also ends, storing nothing, at the end of the payload or when the  *)
(* buffer is full (room = 0).  s is where the loop stopped.                *)
(***************************************************************************)
RECURSIVE ScanUser(_, _, _, _)
ScanUser(s, name, tick, room) ==
    IF s = <<>> \/ room = 0 THEN [s |-> s, user |-> NoUser]
    ELSE LET t == Head(s) IN
         CASE IsNameRun(t) /\ ~tick /\ ByteLen(t) >= room ->
                  [s |-> s, user |-> NoUser]
           [] IsNameRun(t) /\ ~tick ->
                  ScanUser(Tail(s), Append(name, t), tick, room - ByteLen(t))
           [] IsNameRun(t) -> ScanUser(Tail(s), name, tick, room)
           [] t = TICK -> ScanUser(Tail(s), name, TRUE, room)
           [] t \in {CR, LF, SP} -> [s |-> s, user |-> name]
           [] OTHER -> [s |-> s, user |-> NoUser]

\* if (!eoc[pattern_index]) skip to end of line
SkipArgs(pattern_index, s, pastEnd) ==
    IF EocAt(pattern_index, pastEnd) THEN s ELSE SkipToEol(s)

(***************************************************************************)
(* case POP3_CLIENT_STATE_AUTH: switch (pattern_index).                    *)
(***************************************************************************)
AuthCommand(c, pattern_index, s, pastEnd) ==
    CASE pattern_index \in {PATTERN_STLSEOC, PATTERN_STLSEOC2} ->
            [c |-> [c EXCEPT !.state = "STLS_CMD"], s |-> SkipCrlf(s)]
      [] pattern_index \in {PATTERN_APOP, PATTERN_USER} ->
            LET u == ScanUser(s, <<>>, FALSE, USERNAME_ROOM) IN
            [c |-> [c EXCEPT !.username = IF u.user # NoUser THEN u.user ELSE @,
                             !.state = IF pattern_index = PATTERN_APOP
                                       THEN "TRANS" ELSE @],
             s |-> SkipCrlf(SkipToEol(u.s))]
      [] pattern_index = PATTERN_AUTH ->
            [c |-> [c EXCEPT !.state = "TRANS"], s |-> SkipCrlf(SkipToEol(s))]
      [] pattern_index \in {PATTERN_AUTHEOC, PATTERN_AUTHEOC2,
                            PATTERN_AUTHEOC3, PATTERN_AUTHEOC4} ->
            [c |-> c, s |-> SkipCrlf(s)]
      [] pattern_index = PATTERN_PASS /\ c.got_user ->
            [c |-> [c EXCEPT !.state = "TRANS"], s |-> SkipCrlf(SkipToEol(s))]
      [] OTHER ->
            [c |-> c, s |-> SkipCrlf(SkipArgs(pattern_index, s, pastEnd))]

(***************************************************************************)
(* One matched command: the switch on fd->state.  STLS_CMD falls back to   *)
(* AUTH and is handled as AUTH; in TRANS a pattern_index of at least       *)
(* PATTERN_POP3_OTHER reports POP3 (add_app) and sets fd->detected.        *)
(***************************************************************************)
ClientCommand(c, pattern_index, s, pastEnd) ==
    LET c1 == IF c.state = "STLS_CMD" THEN [c EXCEPT !.state = "AUTH"] ELSE c
        found == pattern_index >= PATTERN_POP3_OTHER
    IN  IF c1.state = "AUTH"
        THEN LET a == AuthCommand(c1, pattern_index, s, pastEnd)
             IN  [c |-> a.c, s |-> a.s, app |-> FALSE]
        ELSE [c |-> IF found THEN [c1 EXCEPT !.detected = TRUE] ELSE c1,
              s |-> SkipCrlf(SkipArgs(pattern_index, s, pastEnd)),
              app |-> found]

(***************************************************************************)
(* while ((length = (end - s))): match, dispatch, repeat.  apps counts the *)
(* add_app(POP3) calls; nomatch is the early return when no pattern is     *)
(* anchored at s.                                                          *)
(***************************************************************************)
\* Mutant: a pattern miss ends the loop without the early return's verdict.
RECURSIVE ClientLoopMissIgnored(_, _, _, _)
ClientLoopMissIgnored(c, s, apps, pastEnd) ==
    IF s = <<>> THEN [c |-> c, apps |-> apps, nomatch |-> FALSE]
    ELSE LET pattern_index == MatchIndex(s) IN
         IF pattern_index = 0 THEN [c |-> c, apps |-> apps, nomatch |-> FALSE]
         ELSE LET r == ClientCommand(c, pattern_index,
                         Drop(s, Len(pop3_client_patterns[pattern_index])),
                         pastEnd)
              IN  ClientLoopMissIgnored(r.c, r.s,
                                        apps + (IF r.app THEN 1 ELSE 0), pastEnd)

RECURSIVE ClientLoop(_, _, _, _)
ClientLoop(c, s, apps, pastEnd) ==
    IF s = <<>> THEN [c |-> c, apps |-> apps, nomatch |-> FALSE]
    ELSE LET pattern_index == MatchIndex(s) IN
         IF pattern_index = 0 THEN [c |-> c, apps |-> apps, nomatch |-> TRUE]
         ELSE LET r == ClientCommand(c, pattern_index,
                         Drop(s, Len(pop3_client_patterns[pattern_index])),
                         pastEnd)
              IN  ClientLoop(r.c, r.s, apps + (IF r.app THEN 1 ELSE 0), pastEnd)

-----------------------------------------------------------------------------
(***************************************************************************)
(* Server parser (pop3_server_validate).  Returns the new record, flags    *)
(* and framework calls, and the return code rc (0 or -1).                  *)
(***************************************************************************)
Result(d, f, rep, rc) == [d |-> d, f |-> f, rep |-> rep, rc |-> rc]

\* Mutant: the "-ERR" answer to STLS leaves the client in STLS_CMD.
StlsReplyNoRevert(d, f, err) ==
    IF err THEN Result(d, f, <<>>, 0)
    ELSE Result(d, (f \cup {ENCRYPTED, CLIENT_DETECTED}) \ {CGSP},
                <<Report("add_app", "POP3S")>>, 0)

(***************************************************************************)
(* The answer to STLS: "-ERR" falls back to AUTH; "+OK" marks the session  *)
(* encrypted, stops server packets to the client detector and reports     *)
(* POP3S (add_app sets CLIENT_DETECTED).                                   *)
(***************************************************************************)
StlsReply(d, f, err) ==
    IF err THEN Result([d EXCEPT !.client.state = "AUTH"], f, <<>>, 0)
    ELSE Result(d, (f \cup {ENCRYPTED, CLIENT_DETECTED}) \ {CGSP},
                <<Report("add_app", "POP3S")>>, 0)

\* Mutant: a refused login keeps fd->username.
CorrelateKeepRefused(d, f, err) ==
    IF d.client.state = "STLS_CMD" THEN StlsReply(d, f, err)
    ELSE IF d.client.username # NoUser
    THEN IF err
         THEN Result(d, f, <<UserReport(d.client.username, FALSE)>>, 0)
         ELSE Result([d EXCEPT !.client.username = NoUser,
                               !.need_continue = FALSE,
                               !.client.got_user = TRUE],
                     (f \ {CGSP}) \cup (IF d.client.detected
                                        THEN {CLIENT_DETECTED} ELSE {}),
                     <<UserReport(d.client.username, TRUE)>>, 0)
    ELSE Result(d, f, <<>>, 0)

(***************************************************************************)
(* The correlation of a status line with the client's last command.        *)
(***************************************************************************)
Correlate(d, f, err) ==
    IF d.client.state = "STLS_CMD" THEN StlsReply(d, f, err)
    ELSE IF d.client.username # NoUser
    THEN IF err
         THEN Result([d EXCEPT !.client.username = NoUser], f,
                     <<UserReport(d.client.username, FALSE)>>, 0)
         ELSE Result([d EXCEPT !.client.username = NoUser,
                               !.need_continue = FALSE,
                               !.client.got_user = TRUE],
                     (f \ {CGSP}) \cup (IF d.client.detected
                                        THEN {CLIENT_DETECTED} ELSE {}),
                     <<UserReport(d.client.username, TRUE)>>, 0)
    ELSE Result(d, f, <<>>, 0)

(***************************************************************************)
(* case POP3_STATE_CONTINUE: consume lines until the payload ends; a       *)
(* payload remainder of exactly ".\r\n" ends the multi-line response.      *)
(***************************************************************************)
\* Mutant: the terminating ".\r\n" does not count the response.
EndOfMultiLineNoCount(pd) == [pd EXCEPT !.state = "RESPONSE"]

\* The payload ends in ".\r\n": count the response, expect a new one.
EndOfMultiLine(pd) == [pd EXCEPT !.count = @ + 1, !.state = "RESPONSE"]

RECURSIVE ContinueLines(_, _)
ContinueLines(pd, data) ==
    IF data = <<>> THEN [pd |-> pd, rc |-> 0]
    ELSE IF data = POP3_TERM
    THEN [pd |-> EndOfMultiLine(pd), rc |-> 0]
    ELSE LET cl == pop3_check_line(data) IN
         IF cl.rc < 0 THEN [pd |-> pd, rc |-> -1]
         ELSE ContinueLines(pd, cl.rest)

ContinueFrom(d, f, rep, data) ==
    LET r == ContinueLines(d.server, data)
    IN  Result([d EXCEPT !.server = r.pd], f, rep, r.rc)

(***************************************************************************)
(* A status line "+OK ..." or "-ERR ..." at the start of data, in state    *)
(* RESPONSE; begin is set only for the greeting (state was CONNECT).       *)
(***************************************************************************)
StatusLine(d, f, data, server, greeting) ==
    LET err == data[1] = POP3_ERR
        begin == greeting /\ ~err
        d1 == [d EXCEPT !.server.error = err]
        cl == pop3_check_line(Tail(data))
        c == Correlate(d1, f, err)
        \* begin .. line_end, line_end = &data[-1] after the line
        line == SubSeq(data, 1, Len(data) - Len(cl.rest) - 1)
        d2 == IF server /\ begin
              THEN [c.d EXCEPT !.server = ScanGreeting(@, line)] ELSE c.d
    IN  IF cl.rc < 0 THEN Result(d1, f, <<>>, -1)
        ELSE IF cl.rest = <<>>
        THEN Result([d2 EXCEPT !.server.count = @ + 1], c.f, c.rep, 0)
        ELSE ContinueFrom([d2 EXCEPT !.server.state = "CONTINUE"],
                          c.f, c.rep, cl.rest)

\* Mutant: the length check compares with sizeof(POP3_ERR) off by one.
TooShortOffByOne(data) == PayloadSize(data) <= ByteLen(POP3_ERR) + 1

\* if (size < sizeof(POP3_ERR)) return -1;  sizeof counts the NUL.
TooShort(data) == PayloadSize(data) < ByteLen(POP3_ERR) + 1

(***************************************************************************)
(* data[1] of a one-byte payload is the byte after it: undefined, so any  *)
(* byte the buffer may hold there.  pastEnd is that byte.                 *)
(***************************************************************************)
PastEndBytes == {SP, JUNK}
SecondByte(data, pastEnd) == IF Len(data) >= 2 THEN data[2] ELSE pastEnd

\* Mutant: the length check runs before the "+ " test.
IsContinuationAfterSize(greeting, data, pastEnd) ==
    /\ ~TooShort(data)
    /\ ~greeting /\ data[1] = "+" /\ SecondByte(data, pastEnd) = SP

\* if (!begin && data[0] == '+' && data[1] == ' '): a SASL continuation,
\* tested before the length check.
IsContinuation(greeting, data, pastEnd) ==
    ~greeting /\ data[1] = "+" /\ SecondByte(data, pastEnd) = SP

pop3_server_validate(d, f, data, server, pastEnd) ==
    LET greeting == d.server.state = "CONNECT"
        d1 == [d EXCEPT !.server.state = IF greeting THEN "RESPONSE" ELSE @]
    IN  CASE d.server.state = "CONTINUE" ->
                ContinueFrom(d, f, <<>>, data)
          [] IsContinuation(greeting, data, pastEnd) ->
                LET cl == pop3_check_line(Drop(data, 2))
                IN  Result(d1, f, <<>>,
                           IF cl.rc # 0 \/ cl.rest # <<>> THEN -1 ELSE 0)
          [] TooShort(data) \/ data[1] \notin {POP3_OK, POP3_ERR} ->
                Result(d1, f, <<>>, -1)
          [] OTHER -> StatusLine(d1, f, data, server, greeting)

-----------------------------------------------------------------------------
(***************************************************************************)
(* The entry points.                                                       *)
(***************************************************************************)
CurrentFlow == IF allocated THEN dd ELSE FreshFlow

\* Mutant: the first client call does not ask for continued service calls.
ClientSetFlagsNoContinue(d) ==
    IF d.client.set_flags THEN d ELSE [d EXCEPT !.client.set_flags = TRUE]

\* if (!fd->set_flags) { need_continue = 1; set_flags = 1; set CGSP }
ClientSetFlags(d) ==
    IF d.client.set_flags THEN d
    ELSE [d EXCEPT !.need_continue = TRUE, !.client.set_flags = TRUE]
ClientSetFlagsSession(d, f) == IF d.client.set_flags THEN f ELSE f \cup {CGSP}

Init ==
    /\ dd = FreshFlow
    /\ allocated = FALSE
    /\ flags = {}
    /\ reports = <<>>
    /\ clientRet = "INPROCESS"
    /\ serviceRet = "INPROCESS"
    /\ eocPastEnd \in BOOLEAN

(***************************************************************************)
(* Pop3ClientDetector::validate with args.dir = APP_ID_FROM_INITIATOR.     *)
(***************************************************************************)
ClientValidateInitiator(data) ==
    LET d1 == ClientSetFlags(CurrentFlow)
        f1 == ClientSetFlagsSession(CurrentFlow, flags)
    IN  /\ data # <<>>
        /\ \E r \in {ClientLoop(d1.client, data, 0, eocPastEnd)} :
              /\ dd' = [d1 EXCEPT !.client = r.c,
                                  !.need_continue = IF r.nomatch THEN FALSE ELSE @]
              /\ flags' = f1 \cup (IF r.nomatch \/ r.apps > 0
                                   THEN {CLIENT_DETECTED} ELSE {})
              /\ reports' = reports \o [i \in 1..r.apps |-> Report("add_app", "POP3")]
              /\ clientRet' = IF r.nomatch THEN "SUCCESS" ELSE "INPROCESS"
        /\ allocated' = TRUE
        /\ UNCHANGED <<serviceRet, eocPastEnd>>

(***************************************************************************)
(* Pop3ClientDetector::validate with args.dir = APP_ID_FROM_RESPONDER: the *)
(* server parser without vendor extraction; on a parse failure the client *)
(* stops asking for server packets.                                        *)
(***************************************************************************)
ClientValidateResponder(data) ==
    LET d1 == ClientSetFlags(CurrentFlow)
        f1 == ClientSetFlagsSession(CurrentFlow, flags)
    IN  /\ data # <<>>
        /\ \E b \in PastEndBytes :
           \E r \in {pop3_server_validate(d1, f1, data, FALSE, b)} :
              /\ dd' = r.d
              /\ flags' = IF r.rc # 0 THEN r.f \ {CGSP} ELSE r.f
              /\ reports' = reports \o r.rep
        /\ allocated' = TRUE
        /\ clientRet' = "INPROCESS"
        /\ UNCHANGED <<serviceRet, eocPastEnd>>

\* Mutant: the subtype list stays on the flow after it was handed over.
ConsumeSubtypeKeep(d) == d

\* pd->subtype = nullptr after add_service_consume_subtype took the list.
ConsumeSubtype(d) == [d EXCEPT !.server.subtype = <<>>]

\* add_service_consume_subtype(asd, pkt, dir, app, vendor, version, subtype)
ServiceReport(app, pd) ==
    [Report("add_service", app) EXCEPT !.vendor = pd.vendor,
                                       !.version = pd.version,
                                       !.subtype = pd.subtype]

\* Mutant: fail_service is called on a parse error even after the service
\* was reported.
ServiceFailsDetected(f) == TRUE

\* else if (!asd->get_session_flags(APPID_SESSION_SERVICE_DETECTED))
ServiceFails(f) == SERVICE_DETECTED \notin f

(***************************************************************************)
(* Pop3ServiceDetector::validate on a server payload.                      *)
(***************************************************************************)
ServiceValidate(data) ==
    LET d0 == CurrentFlow
        f1 == flags \ {CGSP}
        f2 == IF d0.need_continue THEN f1 \cup {CONTINUE} ELSE f1 \ {CONTINUE}
    IN  /\ data # <<>>
        /\ allocated' = TRUE
        /\ UNCHANGED <<clientRet, eocPastEnd>>
        /\ IF ~d0.need_continue /\ SERVICE_DETECTED \in f2
           THEN /\ dd' = d0 /\ flags' = f2 /\ UNCHANGED reports
                /\ serviceRet' = "SUCCESS"
           ELSE \E b \in PastEndBytes :
               \E r \in {pop3_server_validate(d0, f2, data, TRUE, b)} :
                  LET pd == r.d.server
                      app == IF r.d.client.state = "STLS_CMD"
                             THEN "POP3S" ELSE "POP3"
                  IN
                  CASE r.rc = 0 /\ pd.count >= POP3_COUNT_THRESHOLD
                                /\ SERVICE_DETECTED \notin r.f ->
                          /\ dd' = ConsumeSubtype(r.d)
                          /\ flags' = r.f \cup {SERVICE_DETECTED}
                          /\ reports' = reports \o r.rep
                                           \o <<ServiceReport(app, pd)>>
                          /\ serviceRet' = "SUCCESS"
                    [] r.rc = 0 ->
                          /\ dd' = r.d /\ flags' = r.f
                          /\ reports' = reports \o r.rep
                          /\ serviceRet' = "INPROCESS"
                    [] ServiceFails(r.f) ->
                          /\ dd' = r.d /\ flags' = r.f
                          /\ reports' = reports \o r.rep
                                           \o <<Report("fail_service", "none")>>
                          /\ serviceRet' = "NOMATCH"
                    [] OTHER ->
                          /\ dd' = r.d /\ flags' = r.f \ {CONTINUE}
                          /\ reports' = reports \o r.rep
                          /\ serviceRet' = "SUCCESS"

(***************************************************************************)
(* pop3_free_state: the session drops the record; the subtype list and    *)
(* the user name still held by it are released with it.                   *)
(***************************************************************************)
FreeState ==
    /\ allocated
    /\ allocated' = FALSE
    /\ dd' = FreshFlow
    /\ UNCHANGED <<flags, reports, clientRet, serviceRet, eocPastEnd>>
-----------------------------------------------------------------------------
Tokens == Seq(STRING)
ShortStrings(n) == {str \in STRING : Len(str) <= n}
ReportCalls == {"add_app", "add_user", "add_service", "fail_service"}
Vendors == {NoVendor, VEN_CPPOP, VEN_CC, VEN_IM, VEN_PO}

(***************************************************************************)
(* The shapes the flow record, the flags and the framework calls can take, *)
(* with the fixed buffers as bounds: pd->version holds at most             *)
(* MAX_VERSION_SIZE - 1 bytes and a NUL, the user-name buffer at most      *)
(* USERNAME_ROOM - 1 bytes and a NUL.                                      *)
(***************************************************************************)
TypeOK ==
    /\ PayloadSize(dd.client.username) < USERNAME_ROOM
    /\ dd.client \in [username : Tokens, state : ClientStates,
                      set_flags : BOOLEAN, detected : BOOLEAN,
                      got_user : BOOLEAN]
    /\ dd.server \in [state : ServerStates, count : Nat, vendor : Vendors,
                      version : ShortStrings(MAX_VERSION_SIZE - 1),
                      subtype : Seq([service : STRING, version : STRING]),
                      error : BOOLEAN]
    /\ dd.need_continue \in BOOLEAN
    /\ allocated \in BOOLEAN
    /\ flags \subseteq SessionFlags
    /\ \A i \in 1..Len(reports) :
          /\ reports[i].call \in ReportCalls
          /\ reports[i].app \in {"POP3", "POP3S", "none"}
          /\ reports[i].user \in Tokens
          /\ reports[i].vendor \in Vendors
    /\ clientRet \in {"INPROCESS", "SUCCESS"}
    /\ serviceRet \in {"INPROCESS", "SUCCESS", "NOMATCH"}
    /\ eocPastEnd \in BOOLEAN
=============================================================================
