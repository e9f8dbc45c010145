----------------------------- MODULE CsvLogger -----------------------------
(***************************************************************************)
(* The alert_csv logger of src/loggers/alert_csv.cc: the configuration     *)
(* module CsvModule (begin / set / end, run once per configuration load),  *)
(* the CsvLogger built from it, its open / close and its alert().          *)
(*                                                                         *)
(* Data abstraction.  unsigned long is 64 bits wide (LP64).  TLC integers  *)
(* are 32 bits, so a 64-bit value is the SET OF ITS 1-BIT POSITIONS:       *)
(* multiplying by 1024 adds 10 to every position and the product keeps the *)
(* positions below 64, which is exactly multiplication modulo 2^64.  A     *)
(* csv value is the sequence of its whitespace-separated words, which is   *)
(* what mSplit(csvargs, " \n\t") hands the logger.  An alert row is the    *)
(* sequence of its columns: the name of the field printed ("" when the     *)
(* field prints nothing), the protocol name for "proto".                   *)
(***************************************************************************)
EXTENDS Integers, Sequences, SequencesExt, FiniteSets

CONSTANTS
    Files,       \* values of the "file" parameter
    Limits,      \* values of "limit", as bit-position sets (0..62: a long)
    CsvChoices,  \* values of "csv", as word sequences
    Packets,     \* the packets alerts are raised on (decoder output)
    MaxLoads     \* configuration loads (start-up and reloads)

VARIABLES
    mod,        \* the CsvModule fields file, csvargs, limit, units
    phase,      \* "idle", "parse" (between begin and end), "ended"
    setNames,   \* parameters set() has been called with in this load
    asked,      \* the values this load asked for (defaults where unset)
    logger,     \* the CsvLogger built from the module, or NoLogger
    built,      \* the values asked for by the load that built logger
    csvLog,     \* the csv_log TextLog: [file, limit], or NoLog
    opened,     \* the logger is between open() and close()
    row,        \* the last line alert() wrote
    loads,      \* configuration loads begun
    refused     \* "csv" values a load was refused for

vars == <<mod, phase, setNames, asked, logger, built, csvLog, opened, row,
          loads, refused>>

WORD_BITS  == 64   \* unsigned long
KILO_SHIFT == 10   \* 1024 = 2^10
UINT_MAX   == -1   \* (unsigned) 0 - 1 = 2^32 - 1, past TLC's integers

NoLogger == [file |-> "none", limit |-> {}, args |-> <<>>]
NoLog    == [file |-> "none", limit |-> {}]

(***************************************************************************)
(* csv_range: the alternatives of the "csv" parameter, separated by " | ". *)
(* The literal on line 60 has no " | " at its end, so C's concatenation of *)
(* adjacent literals makes "icmp_seq" and "tcp_flags" one alternative.     *)
(***************************************************************************)
csv_range ==
    << "timestamp", "gid", "sid", "rev", "msg", "proto",
       "src_addr", "dst_addr", "src_port", "dst_port",
       "eth_src", "eth_dst", "eth_type", "eth_len",
       "ttl", "tos", "id", "ip_len", "dgm_len",
       "icmp_type", "icmp_code", "icmp_id", "icmp_seq" \o "tcp_flags",
       "tcp_seq", "tcp_ack", "tcp_len", "tcp_win",
       "udp_len" >>

csv_deflt ==
    <<"timestamp", "gid", "sid", "rev", "src_addr", "src_port", "dst_addr",
      "dst_port">>

\* "units": PT_ENUM "B | K | M | G" hands set() the index of the choice.
Units == 0..3

Params == {"file", "csv", "limit", "units"}

-----------------------------------------------------------------------------
(***************************************************************************)
(* CsvModule.                                                              *)
(***************************************************************************)

\* CsvModule::begin with `units = 0` left out: units keeps its last value.
CsvModuleBeginKeepUnits(m) ==
    [m EXCEPT !.file = "stdout", !.limit = {}, !.csvargs = csv_deflt]

\* CsvModule::begin: the defaults.
CsvModuleBegin(m) ==
    [m EXCEPT !.file = "stdout", !.limit = {}, !.units = 0,
              !.csvargs = csv_deflt]

\* CsvModule::set: one parameter.
CsvModuleSet(m, name, value) ==
    CASE name = "file"  -> [m EXCEPT !.file = value]
      [] name = "csv"   -> [m EXCEPT !.csvargs = value]
      [] name = "limit" -> [m EXCEPT !.limit = value]
      [] name = "units" -> [m EXCEPT !.units = value]

\* limit *= 1024, modulo 2^WORD_BITS.
Times1024(l) == {i + KILO_SHIFT : i \in {j \in l : j + KILO_SHIFT < WORD_BITS}}

RECURSIVE Widen(_, _)
Widen(l, n) == IF n = 0 THEN l ELSE Widen(Times1024(l), n - 1)

(***************************************************************************)
(* CsvModule::end: while ( units-- ) limit *= 1024;  The loop runs units   *)
(* times and leaves units at (unsigned) -1.  Starting from UINT_MAX it     *)
(* runs 2^32 - 1 times, which shifts every bit out of a 64-bit word.       *)
(***************************************************************************)
CsvModuleEnd(m) ==
    [m EXCEPT !.limit = IF m.units = UINT_MAX THEN {} ELSE Widen(@, m.units),
              !.units = UINT_MAX]

\* CsvLogger::CsvLogger(CsvModule*): copies file and limit, splits csvargs.
CsvLoggerCtor(m) == [file |-> m.file, limit |-> m.limit, args |-> m.csvargs]

-----------------------------------------------------------------------------
(***************************************************************************)
(* CsvLogger::alert: one column per configured field, in order.  A packet  *)
(* is a record of what the decoder found: event, a valid IP header, the IP *)
(* protocol, and the Ethernet, UDP, TCP and ICMP headers.                  *)
(***************************************************************************)
EventFields == {"gid", "sid", "rev"}
IpFields    == {"src_addr", "dst_addr", "ttl", "tos", "id", "ip_len",
                "dgm_len"}
PortFields  == {"src_port", "dst_port"}
EthFields   == {"eth_src", "eth_dst", "eth_type", "eth_len"}
IcmpFields  == {"icmp_type", "icmp_code", "icmp_id", "icmp_seq"}
TcpFields   == {"tcp_seq", "tcp_ack", "tcp_len", "tcp_win", "tcp_flags"}

\* The names the strcasecmp chain of alert() compares with.
AlertFields == {"timestamp", "msg", "proto", "udp_len"} \cup EventFields
               \cup IpFields \cup PortFields \cup EthFields \cup IcmpFields
               \cup TcpFields

\* Whether the branch for field f prints anything for packet p.
Printed(f, p) ==
    CASE f \in {"timestamp", "msg"} -> TRUE
      [] f \in EventFields -> p.event
      [] f = "proto"       -> p.ip /\ p.proto \in {"UDP", "TCP", "ICMP"}
      [] f \in PortFields  -> p.ip /\ p.proto \in {"UDP", "TCP"}
      [] f \in IpFields    -> p.ip
      [] f \in EthFields   -> p.eh
      [] f = "udp_len"     -> p.udph
      [] f \in IcmpFields  -> p.icmph
      [] f \in TcpFields   -> p.tcph
      [] OTHER             -> FALSE

Column(f, p) == IF ~Printed(f, p) THEN "" ELSE IF f = "proto" THEN p.proto ELSE f

Row(args, p) == [i \in 1..Len(args) |-> Column(args[i], p)]

-----------------------------------------------------------------------------
(***************************************************************************)
(* The defaults csv_params documents for each parameter.                   *)
(***************************************************************************)
ParamDefaults ==
    [file |-> "stdout", csv |-> csv_deflt, limit |-> {}, units |-> 0]

\* The values the framework may hand set(): a "csv" value passes the
\* PT_MULTI check only if every word is an alternative of csv_range.
Values(name) ==
    CASE name = "file"  -> Files
      [] name = "csv"   -> {c \in CsvChoices : ToSet(c) \subseteq ToSet(csv_range)}
      [] name = "limit" -> Limits
      [] name = "units" -> Units

(***************************************************************************)
(* new CsvModule (mod_ctor): the strings are empty, limit and units are    *)
(* not initialised; begin() runs before they are read.                     *)
(***************************************************************************)
Init ==
    /\ mod \in {[file |-> "", csvargs |-> <<>>, limit |-> l, units |-> u] :
                    l \in Limits, u \in Units}
    /\ phase = "idle"
    /\ setNames = {}
    /\ asked = ParamDefaults
    /\ logger = NoLogger
    /\ built = ParamDefaults
    /\ csvLog = NoLog
    /\ opened = FALSE
    /\ row = <<>>
    /\ loads = 0
    /\ refused = {}

\* The framework starts the alert_csv table of a configuration.
Begin ==
    /\ phase = "idle"
    /\ loads < MaxLoads
    /\ mod' = CsvModuleBegin(mod)
    /\ phase' = "parse"
    /\ setNames' = {}
    /\ asked' = ParamDefaults
    /\ loads' = loads + 1
    /\ UNCHANGED <<logger, built, csvLog, opened, row, refused>>

\* One key of the table; values were validated against csv_params.
Set(name, value) ==
    /\ phase = "parse"
    /\ name \notin setNames
    /\ mod' = CsvModuleSet(mod, name, value)
    /\ setNames' = setNames \cup {name}
    /\ asked' = [asked EXCEPT ![name] = value]
    /\ UNCHANGED <<phase, logger, built, csvLog, opened, row, loads, refused>>

(***************************************************************************)
(* A "csv" value with a word outside csv_range fails the framework's       *)
(* PT_MULTI check: set() is not called and the load is abandoned, the      *)
(* module keeping what begin() and the earlier keys gave it.  A reload     *)
(* leaves the running logger in place; the first load ends the process.   *)
(***************************************************************************)
Refuse(value) ==
    /\ phase = "parse"
    /\ ~(ToSet(value) \subseteq ToSet(csv_range))
    /\ refused' = refused \cup {value}
    /\ phase' = IF logger = NoLogger THEN "exited" ELSE "idle"
    /\ UNCHANGED <<mod, setNames, asked, logger, built, csvLog, opened, row,
                   loads>>

End ==
    /\ phase = "parse"
    /\ mod' = CsvModuleEnd(mod)
    /\ phase' = "ended"
    /\ UNCHANGED <<setNames, asked, logger, built, csvLog, opened, row, loads, refused>>

\* csv_ctor: the new logger replaces the previous one, which is closed.
Construct ==
    /\ phase = "ended"
    /\ ~opened
    /\ logger' = CsvLoggerCtor(mod)
    /\ built' = asked
    /\ phase' = "idle"
    /\ UNCHANGED <<mod, setNames, asked, csvLog, opened, row, loads, refused>>

\* CsvLogger::open: csv_log = TextLog_Init(file, LOG_BUFFER, limit).
Open ==
    /\ logger # NoLogger
    /\ ~opened
    /\ csvLog' = [file |-> logger.file, limit |-> logger.limit]
    /\ opened' = TRUE
    /\ UNCHANGED <<mod, phase, setNames, asked, logger, built, row, loads, refused>>

Alert ==
    /\ opened
    /\ \E p \in Packets : row' = Row(logger.args, p)
    /\ UNCHANGED <<mod, phase, setNames, asked, logger, built, csvLog, opened,
                   loads, refused>>

\* CsvLogger::close: TextLog_Term(csv_log); the pointer is not cleared.
Close ==
    /\ opened
    /\ opened' = FALSE
    /\ UNCHANGED <<mod, phase, setNames, asked, logger, built, csvLog, row,
                   loads, refused>>

\* The process has exited on a refused configuration.
Exited ==
    /\ phase = "exited"
    /\ UNCHANGED vars

Next ==
    \/ Begin
    \/ \E name \in Params : \E value \in Values(name) : Set(name, value)
    \/ \E value \in CsvChoices : Refuse(value)
    \/ End
    \/ Construct
    \/ Open
    \/ Alert
    \/ Close
    \/ Exited

Spec == Init /\ [][Next]_vars

-----------------------------------------------------------------------------
\* The byte limit a load asks for: limit * 1024^units, without wrapping.
IdealLimit(l, u) == {i + KILO_SHIFT * u : i \in l}

(***************************************************************************)
(* The logger a configuration load builds writes to the file, selects the  *)
(* fields and applies the byte limit that load asked for, the documented   *)
(* default standing for every key it left out -- across reloads, where     *)
(* CsvModule keeps its fields from the previous load and end() has left    *)
(* units at (unsigned) -1.  About CsvModule::begin/set/end and the         *)
(* CsvLogger constructor.                                                  *)
(***************************************************************************)
LoggerMatchesLoad ==
    logger # NoLogger =>
        /\ logger.file = built.file
        /\ logger.args = built.csv
        /\ logger.limit = IdealLimit(built.limit, built.units)

(***************************************************************************)
(* No configuration is refused for naming fields that alert() prints: a   *)
(* "csv" value made only of such fields passes the check (spec.md section *)
(* 9(a)).  About csv_range against the field names of the strcasecmp      *)
(* chain in CsvLogger::alert.                                              *)
(***************************************************************************)
FieldsConfigurable == \A c \in refused : ~(ToSet(c) \subseteq AlertFields)
=============================================================================
