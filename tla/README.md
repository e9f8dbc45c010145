# TLA+ models of the snort3 POP3 application detector

This directory holds TLA+ models of code in `src/`, and TLC configurations that check them.
Most of the work models the POP3 client and service detectors of AppId
(`src/src/network_inspectors/appid/detector_plugins/detector_pop3.cc`).
The CSV alert logger (`src/src/loggers/alert_csv.cc`) is modelled too: its configuration module, and which column each field fills.

## 1. The system

### 1.1 Parts and how they interact

| Part | Code | State it owns |
|---|---|---|
| Command recogniser | `pop3_client_patterns`, `eoc`, `Client_App_Pattern_Index`, `do_custom_init`, `pop3_pattern_match` (lines 51-227) | none at run time: tables plus the Aho-Corasick matcher |
| Client parser | `Pop3ClientDetector::validate` (552-751) | `ClientPOP3Data`: username, state AUTH/TRANS/STLS_CMD, set_flags, detected, got_user |
| Server parser | `pop3_server_validate` (277-550), `pop3_check_line` (256-275) | `ServicePOP3Data`: state CONNECT/RESPONSE/CONTINUE, count, vendor, version[64], subtype list, error |
| Greeting scan | the `if (server && begin)` block (376-525) | vendor, version, subtype |
| Service detector | `Pop3ServiceDetector::validate` (787-867) | session flags, calls add_service / fail_service |
| Flow lifetime | `data_add` in both validates, `pop3_free_state` (229-254) | the `POP3DetectorData` attached to the session |
| CSV logger config | `CsvModule::begin/set/end` (alert_csv.cc 102-137) | csvargs, file, limit, units |
| CSV alert output | `CsvLogger` constructor, `open`, `close`, `alert`, `csv_range` (alert_csv.cc 55-62, 161-399) | the fields, the thread-local `csv_log` |

The CSV parts interact through a configuration load:

- The framework calls `begin`, then `set` once for each key the table gives, then `end`.
- A `csv` value passes the framework's PT_MULTI check only if every word is an alternative of `csv_range`. A refused value abandons the load.
- `csv_ctor` builds a `CsvLogger` from the module.
- Each packet thread calls `open`, then `alert` for each event, then `close`.
- The same `CsvModule` object serves every reload, so whatever `end` leaves behind is what the next `begin` starts from.

The two POP3 detectors share one `POP3DetectorData` for each flow, and they coordinate through session flags:

- The first client call sets `need_continue` and `CLIENT_GETS_SERVER_PACKETS` (CGSP).
- While CGSP is set, the framework also hands server packets to the client detector. That detector runs the server parser without the vendor scan, so it can learn the login verdict.
- Every service call clears CGSP. It sets `CONTINUE` while `need_continue` holds.
- A successful login clears `need_continue` and CGSP.
- `add_app` sets `CLIENT_DETECTED`; `add_service_consume_subtype` sets `SERVICE_DETECTED`. After that the framework stops calling the detector concerned.

The client parser decides three things:

- POP3: a transaction command seen in TRANS leads to `add_app(POP3)`.
- POP3S: an STLS command answered with `+OK` leads to `add_app(POP3S)` and sets `ENCRYPTED`.
- Not POP3: a command that matches no pattern makes the client return SUCCESS with no app.

The captured user name is reported with `add_user` when the server answers the login.

### 1.2 Hazards

These are what is hard to test here. PROJECT.json lists each one at its line.

- **Index shift.**
  - `pattern_index` is the 1-based matcher id, but the `switch` labels are the 0-based enum (:629). Every command therefore runs the case of its predecessor in the table.
  - `eoc[pattern_index]` (:719, :742) reads the next command's flag. For the last pattern it reads one past the array.
- **State committed before the server answers.**
  - APOP, PASS and AUTH move the client to TRANS when they are parsed (:680, :692, :709).
  - A refused login is never undone.
- **Segmentation.**
  - The CONTINUE state (multi-line body) is entered only when the body shares a packet with its status line (:526).
- **Two detectors on one record.**
  - The service call clears CGSP (:825), and `need_continue` decides whether it keeps being called.
  - As a result, the login verdict may reach no parser.
- **Thresholds and bounds.**
  - The response count must reach 4 (:841).
  - The version buffer stops at 63 bytes (:303, :446).
  - The user-name buffer stops at 248 bytes (:645-650).
- **Ownership.**
  - The subtype list is handed to the framework and must be cleared (:847). Otherwise `pop3_free_state` frees it again.
- **CSV.**
  - `limit *= 1024` in a loop can overflow (alert_csv.cc:133-134).
  - `end` leaves `units` at `(unsigned) -1`. Only `begin` resetting it keeps a reload from running the loop 2^32 - 1 times (:126, :133).
  - `csv_range` lacks a separator between `icmp_seq` and `tcp_flags` (:60-61).
  - `set` leaks its `SnortStrdup` copy of `csv` on every load (:108).
- **Matching and segmentation of client commands.**
  - The matcher keeps the pattern that ends first (:221).
  - The client parser matches each packet on its own, with no reassembly (:609).
- **Reads past the payload and verdicts that must come.**
  - For a one-byte server payload, `data[1]` at :311 reads the byte after it.
  - `pop3_check_line` fails a line whose CR ends a packet (:264).
  - A pattern miss (:616) and a login answered `+OK` after `add_app` (:372) set CLIENT_DETECTED, after which the client detector is not called again. By then it must have given its verdict.
  - Any parse failure in the client detector's server parse clears CGSP for good (:595). This includes a status line cut below 5 bytes, after which the login's answer may reach no parser.
  - The multi-line terminator is recognised only as the last three bytes of a packet (:537).
- **Replies correlated with the wrong command.**
  - A status line is matched with the client parser's state and user name as they are when the line is parsed (:338, :356), not with the command the line answers.
  - Commands pipelined in one packet are all parsed before the first reply arrives.
  - `size < sizeof(POP3_ERR)` counts the NUL, so a bare `+OK\r\n` sits exactly at the 5-byte bound (:320).

## 2. Modules

| Module | Models | Kind |
|---|---|---|
| `Pop3Lines` | the token abstraction of payloads; `pop3_check_line`; the skip loops of the client parser | operators |
| `Pop3Patterns` | the pattern and eoc tables, the enum, `longest_pattern`, the anchored matcher | operators |
| `Pop3Greeting` | the vendor/version/subtype scan of the greeting | operators |
| `Pop3Detector` | both detectors and `pop3_free_state`: variables, Init, one action per entry point | state machine |
| `Pop3Session` | a POP3 client, a POP3 server, the network between them, and the framework's dispatch rule around `Pop3Detector` | state machine (environment) |
| `MCPop3` | the constants for TLC: commands, greetings | MC module |
| `MCGreeting` | a single evaluation of the greeting scan on the spec.md P6 line | MC module |
| `Pop3Verdicts` | the abstract specification: each detector's verdict only moves forward (unknown to POP3, POP3S, not POP3 or failed) | abstract spec |
| `CsvLogger` | `CsvModule` and `CsvLogger`: configuration loads, the constructor, open, alert, close | state machine |
| `MCCsv` | files, limits, field choices and packets for TLC | MC module |

### 2.1 Data abstraction

A payload is a sequence of **tokens** (`Pop3Lines`).

- A token stands for a run of bytes that every loop of the parser treats alike:
  - a command word such as `"USER"`;
  - a run of user-name characters such as `"alice"`;
  - one of CR, LF or SP;
  - `"+OK"` or `"-ERR"`;
  - one byte of a class the code tests for: TICK (the backtick), JUNK (a printable byte outside the user-name alphabet), BIN (non-printable).
- Token boundaries sit where the code compares bytes, so each comparison in the code becomes a comparison of tokens.
- `ByteLen` and `PayloadSize` give the byte lengths where the code compares sizes: `size < sizeof(POP3_ERR)` and the user-name buffer.
- Versions that the greeting scan copies are real TLA+ strings, cut at `MAX_VERSION_SIZE - 1`.

### 2.2 Correspondence (Pop3Detector)

Variables:

- `dd`: the `POP3DetectorData` record.
- `allocated`: whether `data_get` returns a record.
- `flags`: the five session flags used.
- `reports`: the framework calls made, in order.
- `clientRet` and `serviceRet`: the last return values.
- `eocPastEnd`: the byte the build reads at `eoc[29]`. This is undefined behaviour, so it is chosen in Init and never changes.
- The byte after a one-byte server payload, which `data[1]` reads at :311, is chosen on each call from `PastEndBytes` (a space or not). `SecondByte` gives it to `IsContinuation`. That memory is the packet buffer, so its content varies from packet to packet.

Each action models one whole call, including its loops:

- `ClientValidateInitiator`: lines 552-751, with the command loop as the recursive `ClientLoop`.
- `ClientValidateResponder`: 586-596.
- `ServiceValidate`: 787-867.
- `FreeState`: 229-254.

The handlers are pure operators that return `[d, f, rep, rc]`. The actions bind that result with `\E r \in {...}`.

### 2.3 The environment (Pop3Session)

This module is not code of this repository. It models the framework behaviour the detectors rely on, and an RFC 1939 peer pair:

- **Server.** It greets, then answers each command with `+OK` or `-ERR`. The answer is multi-line for CAPA, LIST and RETR. QUIT is always `+OK`.
- **Client.** It sends commands from `AuthCmds` (AUTHORIZATION), then from `TransCmds` after a successful login. PASS is sent only after USER, whether that USER was accepted or is still waiting for its answer.
  - `pending` holds the commands sent and not yet answered, with their byte lengths. `MaxPipeline` bounds it. With 1 the client waits for each reply. With more it pipelines (RFC 2449 PIPELINING), but never past STLS, AUTH or QUIT, whose answers change the connection.
  - The server answers the head of `pending` once the detectors have read that command, i.e. once `c2s` holds no more than the bytes of the later commands (`Unread`).
  - `answered` is a ghost variable: the command the last reply answered and whether it was `+OK`. `RepliesCorrelated` compares the reports of one step with it. After `+OK` to STLS both sides send TLS bytes (BIN).
- **Network.** There is one FIFO per direction. `Segmentation` decides how a message is cut into packets:
  - `"none"`: one packet per message;
  - `"lines"`: one packet per line;
  - `"any"`: any cut.
- **Dispatch.**
  - A client packet reaches the client detector while it returns INPROCESS and CLIENT_DETECTED is unset.
  - A server packet reaches the service detector if `svcOn` and that detector is undecided (INPROCESS, or SUCCESS with CONTINUE). Otherwise it reaches the client detector, if CGSP is set.
  - `svcOn` is the framework's choice of whether the port/pattern dispatch engaged this service detector at all.
- **Teardown.** When both queues are empty, the session is freed.

### 2.4 Refinement (Pop3Session to Pop3Verdicts)

`Pop3Verdicts` says only what a consumer of the detectors may rely on:

- The client verdict goes from unknown to POP3 or not POP3, and from unknown or POP3 to POP3S.
- The service verdict goes from unknown to POP3 or failed once. POP3S is reached only together with the client's POP3S.

`Pop3Session` maps onto it:

- `ClientVerdict` is the app of the last add_app. Failing that, it is "notPOP3" once the client returned SUCCESS, and "unknown" otherwise.
- `ServiceVerdict` is the last add_service or fail_service.

`VerdictsRefined == Verdicts!Spec` is checked as a PROPERTY of the pop3_session run. It fails if a detector reports twice with different outcomes. It also fails if the service is failed after being detected, which is what `ServiceFails` (:852) prevents.

### 2.5 Correspondence (CsvLogger)

- `mod` is the `CsvModule` object: file, csvargs, limit, units.
  - `limit` is an `unsigned long`. TLC integers are 32-bit, so it is held as the set of its 1-bits.
  - Multiplying by 1024 adds 10 to every position and drops those past 63. This gives `% 2^64` exactly.
  - `units` after `end` is `UINT_MAX`. From there the loop runs 2^32 - 1 times, which shifts every bit out, so `Widen` returns `{}`.
- Init: `limit` and `units` are not initialised by the constructor, so Init chooses them over the model's limits and units.
- Actions:
  - `Begin`, `Set(name, value)` and `End` are the three `CsvModule` methods.
  - `Refuse(value)` is the framework rejecting a `csv` value. A refused first load ends the process (`Exited`).
  - `Construct` is `csv_ctor`.
  - `Open`, `Alert` and `Close` are the logger's methods.
- `alert()` is abstracted to which column each configured field fills (`Row`). That is the field dispatch and the guards on event, IP, Ethernet, UDP, TCP and ICMP headers. The printed text is left out.
- `asked` and `built` record what the load asked for, with the documented default for each key it left out.

## 3. Runs

| Run | cfg | Expect | What it shows |
|---|---|---|---|
| pop3_session | MCPop3.cfg | pass | see below |
| password_reported_as_user | MCPop3_user.cfg | violation of `UserIsLoginName` | USER alice / PASS pw reports `pw` through add_user: `USER ` runs case PATTERN_PASS and is skipped, while `PASS ` runs case PATTERN_APOP and captures its argument. |
| stls_after_refused_login | MCPop3_stls.cfg | violation of `StlsEventuallyEncrypted` | A refused APOP leaves the client in TRANS. The next AUTHORIZATION command is taken as a transaction command and client detection ends, so an accepted STLS is never seen. |
| split_multiline_reply | MCPop3_split.cfg (`Segmentation = "lines"`) | violation of `NoFailOnPop3Server` | A CAPA body arriving in its own packets is parsed as status lines, and fail_service is called. |
| greeting_p6 | MCGreeting.cfg | violation of `P6Greeting` | `Post.Office v3.5.3 release 223 with Rutger version 1.0\r\n` gives subtype Rutger with no version, because the scan wants a space after `1.0`. |
| pop3_cuts | MCPop3_cuts.cfg (`Segmentation = "any"`) | pass (`ServiceReportedOnce`, `Pop3sOnlyAfterStls`, `VerdictsRefined`) | Both streams are cut anywhere, including one-byte packets and the `+` of a SASL challenge alone, with either byte after it. Whatever the cuts, no verdict is taken back, POP3S follows an accepted STLS, and the subtype list is handed over once. |
| client_command_split | MCPop3_segments.cfg (`Segmentation = "any"`) | violation of `Pop3CommandsRecognised` | A packet holding only `USER` misses every pattern, and the client is declared not POP3. spec.md P7 says packet boundaries do not matter. |
| stls_refusal_swallowed | MCPop3_stls_cut.cfg (`Segmentation = "any"`) | violation of `Pop3sOnlyAfterStls` | See below. |
| pipelined_login_misreported | MCPop3_pipelined.cfg (`MaxPipeline = 2`) | violation of `RepliesCorrelated` | See below. |
| csv_config | MCCsv.cfg | pass (`LoggerMatchesLoad`) | Over two loads with any subset of keys in any order, each logger gets the file, fields and byte limit its load asked for. This includes a reload that leaves `units` out. |
| csv_limit_wraps | MCCsv_wrap.cfg | violation of `LoggerMatchesLoad` | A limit with bit 34 set and units G asks for 2^64 bytes or more. The product wraps to 0, and 0 means unlimited. |
| csv_fields_unselectable | MCCsv_fields.cfg | violation of `FieldsConfigurable` | A configuration naming `tcp_flags`, a field alert() prints, is refused: `csv_range` only offers `icmp_seqtcp_flags`. |

stls_refusal_swallowed is a new finding. It takes two cuts:

1. The server's CAPA body arrives as `+OK\r\ntext\r\n.` and then `\r\n`. The CONTINUE state ends only when `.\r\n` is exactly the last three bytes of a packet (:537), so the parser stays in CONTINUE.
2. The client sends STLS and the server refuses it with `-ERR`. The parser reads the `-ERR` as body text, so the client is never reverted from STLS_CMD (:340).
3. The client's next CAPA is cut after `CAPA`. It misses every pattern, and client detection ends with the state still STLS_CMD.
4. The next `+OK`, here to USER, makes `pop3_server_validate` set ENCRYPTED and call `add_app(POP3S)`.

spec.md P2 and scenario 3 say a refused STLS reverts to AUTH and assigns no POP3S.

pipelined_login_misreported is also a new finding (8 states). The client sends `USER alice\r\nPASS pw\r\n` in one packet:

1. The client parser reads both commands. Through the index shift, `PASS ` captures `pw` and moves the client to TRANS.
2. The server's `+OK` answers USER. `pop3_server_validate` reads the client as it now is (:356) and calls `add_user(pw, success)`. That report is the answer to USER, not to the login.
3. The same mechanism with `USER alice` and `STLS` pipelined reports POP3S on the `+OK` to USER.

spec.md P3 ties the reported outcome to the server's answer to the login. Its non-goals exclude pipelined extensions "beyond what the pattern set recognizes". USER, PASS and STLS are in the pattern set, and the client loop (:603) parses every command of a payload, so the code takes these commands pipelined.

The passing run pop3_session checks these properties:

- `TypeOK`: the version stays within 63 bytes (the Cubic Circle greeting carries a 69-byte version) and the user name stays within 247 bytes.
- `ServiceReportedOnce`: add_service happens at most once, and once the service is detected the flow no longer holds the subtype list it handed over.
- `Pop3sOnlyAfterStls`: ENCRYPTED and every POP3S report follow an STLS the server accepted.
- `NoFailOnPop3Server`: a real POP3 server, with whole replies per packet, is never failed.
- `UserEventuallyReported` (liveness): a captured user name is eventually reported.
- `VerdictsRefined`: the session implements `Pop3Verdicts` (section 2.4).
- `UserEventuallyReported` covers the two passwords too, so a name replaced at :668 before it is reported would break it. No replacement occurs: only `PASS ` reaches that case (the index shift), that case moves the client to TRANS, and nothing leaves TRANS.
- `ServiceEventuallyDecided` (liveness): once the service detector has seen 4 replies, it eventually reports or fails the service. Every reply here arrives in one packet, so a multi-line reply's terminator is always the packet's last three bytes. A terminator cut across packets is not counted (:537), and this property is not asked of that case.
- `ClientEventuallyDecided` (liveness): a client that sends a command in the transaction phase eventually gets a verdict from the client detector, either add_app or SUCCESS with no app.
- `RepliesCorrelated` (action property): every add_user reports the outcome of the reply just read and a name that is a prefix of that command's argument, and every POP3S report is made on the `+OK` to STLS. In pop3_session, which does not pipeline, it holds. This includes the refused PASS, after which the parser must drop the name (:362).

Each of these properties has a mutant of the code it is about (PROJECT.json "mutants"), and TLC finds each mutant violating it:

- `Bounded` keeps 64 bytes.
- `ConsumeSubtype` does not clear the list.
- `StlsReply` does not revert on `-ERR`.
- `TooShort` is off by one.
- `ClientSetFlags` does not set `need_continue`.
- The `.\r\n` terminator is not counted.
- `ServiceFails` ignores SERVICE_DETECTED, which breaks `VerdictsRefined`.
- `IsContinuation` also requires the size check, which breaks `NoFailOnPop3Server` once AUTH PLAIN is answered with `+ `.
- `ClientLoop` ends on a pattern miss without the early return's verdict, which breaks `ClientEventuallyDecided`.
- `Correlate` keeps the user name after `-ERR`, so the next reply reports it again. This breaks `RepliesCorrelated`.
- In pop3_cuts, the `ConsumeSubtype`, `StlsReply` and `ServiceFails` mutants break its three properties.
- `CsvModuleBegin` does not reset `units`, which breaks `LoggerMatchesLoad` in csv_config.

### Bounds

- **MaxCommands = 6** in pop3_session. This is enough for login (USER/PASS, APOP or AUTH PLAIN with its response), then STLS or CAPA, then two transaction commands. Those are the sequences behind every finding, and the 4 replies the service threshold needs (greeting + 3).
- **Commands.**
  - `USER alice`, `PASS pw`, `PASS pw2`, `APOP alice <digest>`, `AUTH PLAIN`, `STLS`, `CAPA`, `QUIT`, `STAT`, `LIST`, `RETR 1`.
  - Each is sent with CRLF or with a bare LF.
  - Together they hit every arm of the client-state switch: USER, PASS, APOP, AUTH, the AUTH variants, STLS and default, plus the TRANS arm with and without eoc.
  - Through `CAPA\n` they also reach the read of `eoc[29]`.
- **MaxPipeline = 1** in every run except pipelined_login_misreported. That run uses 2, with 3 commands, CRLF only and whole packets: the smallest instance in which two commands share a packet before the first reply.
- **Greetings.** A plain one, a Post.Office one with release and subtype, and a Cubic Circle one whose version exceeds the buffer.
- **eoc[29].** Both values are explored.
- **pop3_cuts.**
  - USER, AUTH PLAIN, STLS and QUIT, then STAT and QUIT, with 4 commands, any cut and both `svcOn` values.
  - A cut after the `+` of the challenge gives the one-byte packet.
  - A Post.Office greeting followed by 3 replies reaches the service threshold.
- **client_command_split.** 4 commands with any cut. The shortest violating trace needs only one cut.
- **stls_refusal_swallowed.** CAPA, STLS and USER with 4 commands and any cut. The shortest trace needs two cuts and four commands.
- **CSV.**
  - Two loads (`MaxLoads = 2`), so a reload follows a first load.
  - Limits `{}` (0), `{3}` (8) and `{0,20}`.
  - All four units. With G the largest ideal limit bit is 50, below 64, so csv_config has no wrap. MCCsv_wrap adds `{34}`, which does wrap.
  - Field choices: the default, one plain list, and the two lists that name `icmp_seq` / `tcp_flags`.
  - Packets: TCP with an event, ICMP without one, and a non-IP packet, so every branch of `Printed` fires.

### Fairness

The passing run assumes weak fairness of:

- the server's greeting and replies;
- the TLS hello of each side;
- teardown;
- delivery of packets in each direction.

TCP delivers what was sent, and a server that is up answers, so these hold for the sessions the detectors are meant for. The CSV runs check only invariants and assume no fairness. The client's choice of its next command has no fairness: the client may stop, as a real one may. The delivery fairness is written out as `WFDeliverClient` / `WFDeliverServer`. They are the definition of WF over the two delivery actions, stated on the queues (a queue that stays non-empty).

## 4. Not modelled, and why

- **Detector constructors and registration.** These fill static tables once at start-up.
- **A challenge coalesced with more data.** The `+ ` branch (:311) fails a challenge followed by more bytes in the same packet. An RFC server sends nothing after a challenge before the client answers, so no run sends one, and it is not listed as a hazard.
- **Pipelining in the passing runs.** Pipelining is modelled (`MaxPipeline`), but only pipelined_login_misreported uses it. Under pipelining, `ClientEventuallyDecided` as worded fails for a harmless reason: an APOP pipelined during login is still waiting for its reply when the phase becomes trans. The `eoc[29]` case of a command pipelined after `CAPA\n` (:718) is not explored either. The username replacement at :668 stays unreachable as built (section 3), so it is not listed as a hazard.
- **`RETR 1` after `STAT`.** `RETR ` reads `eoc` of `STAT\r\n`, so its argument is matched as a command. A run showed that this misses and declares the client not POP3. It was given up to keep the run count, and it is kept as the :718 hazard.
- **`NoFailOnPop3Server` under any cut.** pop3_cuts reaches the parse failures that cuts cause, such as a CR ending a packet (:264) or a status line shorter than 5 bytes. spec.md places packet reassembly outside this code, and split_multiline_reply already records the dependence on packet boundaries, so no run asks this property under any cut.
- **The printed text of CSV columns.** Address, number and timestamp formatting is left out. `Row` keeps only which field fills which column.
- **The `csvargs` leak (:108).** It is listed as a hazard. It shows on the one line that makes it, and a run would only restate that line.
- **`csv_log` not cleared by `close` (:181).** The framework pairs every close with an open on the same thread, so no second close can be reached. It is therefore not listed as a hazard.
- **Liveness of the client verdict under cuts.** `ClientEventuallyDecided` is not checked in pop3_cuts. There, the transaction phase is reached only through `AUTH PLAIN`, whose argument always misses, so the verdict is given before the antecedent holds.
- **`UserEventuallyReported` under cuts.** With PASS added to the pop3_cuts commands, TLC finds it violated in 22 states:
  1. With `svcOn` FALSE, the server refuses STLS, and its `-ERR` arrives without its CRLF.
  2. The 4-byte packet fails the size check (:320), so the client detector clears CGSP (:595).
  3. The `+OK` to the later PASS reaches no parser, and `pw` is never reported.

  All 12 runs the project allows are taken, so this is recorded as the :595 hazard, not as a run.
- **The longest-prefix rule of the matcher (:221).** Sitting 2 checked `MatchIndex` against a reference longest-prefix matcher (spec.md section 2) and found the shortest pattern wins. The run was given up for stls_refusal_swallowed, because the divergence changes no verdict today. Matched as themselves, `AUTH \r\n` and `AUTH \n` would run shifted cases, and `AUTH \n` would wrongly enter STLS_CMD. Matched as `AUTH `, they run the no-op case. The hazard is kept in PROJECT.json.
- **`loggers.cc`.** This is a static table.
- **`detector_kerberos.h`.** This holds declarations only.

## 5. Plan

Done:

- Sitting 1:
  - the token model;
  - the POP3 detectors and the session environment;
  - the runs pop3_session, password_reported_as_user, retr_argument_misses (since removed), stls_after_refused_login, split_multiline_reply and greeting_p6.
- Sitting 2:
  - `CsvLogger` and its three runs;
  - `Pop3Verdicts` and the refinement;
  - the client_command_split run;
  - a matcher_longest run, replaced later (see section 4).
- Sitting 3:
  - the byte read past a one-byte payload;
  - the pop3_cuts run;
  - `ClientEventuallyDecided`;
  - AUTH PLAIN, a second password and bare-LF line ends in pop3_session (MaxCommands 6);
  - :668 shown unreachable;
  - the stls_refusal_swallowed finding.
- Sitting 4:
  - the pipelined client (`MaxPipeline`, `pending`, `Unread`) and the `answered` ghost;
  - `RepliesCorrelated` with its mutant;
  - the pipelined_login_misreported finding;
  - `POP3_OK`, `POP3_ERR` and `POP3_TERM` as named constants, and `TooShort` stated through `sizeof(POP3_ERR)`;
  - the :320, :338 and :356 hazards.
- Sitting 5 (review):
  - `ServiceEventuallyDecided` restated for whole replies;
  - `ClientEventuallyDecided` dropped from pop3_cuts, where it held only because the verdict came first;
  - the csv_limit_wraps wording (a limit of 2^34 in G);
  - the :668, :311 (coalesced challenge) and alert_csv :181 hazards removed, since they do not arise from the code as it is driven;
  - the :595 hazard added, with the violation described above;
  - line fixes in the map.

Next:

1. **Reference check of the greeting scan.** Compare `ScanGreeting` with a reference over bounded greetings.
2. **Pipelining in a passing run.** Reword `ClientEventuallyDecided` so that it holds with `pending`, then check it with `MaxPipeline = 2`.
3. **Larger cut instances.** Run pop3_cuts with more commands, within the 5-minute budget.
