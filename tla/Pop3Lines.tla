----------------------------- MODULE Pop3Lines -----------------------------
(***************************************************************************)
(* The byte streams that detector_pop3.cc parses, and the helpers both of  *)
(* its parsers use to walk them.                                           *)
(*                                                                         *)
(* A payload is a sequence of TOKENS.  A token stands for a run of bytes   *)
(* that every loop of the parsers treats alike: a command word ("USER"),   *)
(* a run of user-name characters ("alice"), one of the framing bytes CR,   *)
(* LF and SP, the status words "+OK" and "-ERR", or a single byte of a     *)
(* class the code tests for (the backtick, a printable byte outside the    *)
(* user-name alphabet, a non-printable byte).  Token boundaries are placed *)
(* where the code compares bytes, so every comparison of the code is a     *)
(* comparison of tokens here.                                              *)
(***************************************************************************)
EXTENDS Integers, Sequences, SequencesExt

CR   == "CR"     \* 0x0D
LF   == "LF"     \* 0x0A
SP   == "SP"     \* 0x20
TICK == "TICK"   \* the backtick byte; the user-name scanner drops text after
JUNK == ":"      \* a printable byte outside [A-Za-z0-9.@_-]
BIN  == "BIN"    \* a byte isprint() rejects (binary data, a TLS record)

\* Tokens that are not runs of user-name characters [A-Za-z0-9.@_-].  The
\* server-only tokens are listed too ("-ERR" is made of user-name bytes but
\* never occurs in a client payload).
NonNameTokens == {CR, LF, SP, TICK, JUNK, BIN, "+OK", "-ERR", "+", "]",
                  "'s v"}

IsNameRun(t) == t \notin NonNameTokens

\* Number of bytes a token stands for.
ByteLen(t) == IF t \in {CR, LF, SP, TICK, BIN} THEN 1 ELSE Len(t)

RECURSIVE PayloadSize(_)
PayloadSize(d) == IF d = <<>> THEN 0 ELSE ByteLen(Head(d)) + PayloadSize(Tail(d))

\* The suffix of s that starts at its first token satisfying P.
DropUntil(s, P(_)) ==
    LET i == SelectInSeq(s, P) IN IF i = 0 THEN <<>> ELSE SubSeq(s, i, Len(s))

Drop(s, n) == SubSeq(s, n + 1, Len(s))

(***************************************************************************)
(* for (; (s < end) && *s != '\r' && *s != '\n'; s++);                      *)
(***************************************************************************)
SkipToEol(s) == DropUntil(s, LAMBDA t : t \in {CR, LF})

(***************************************************************************)
(* for (; (s < end) && ( *s == '\r' || *s == '\n'); s++);                    *)
(***************************************************************************)
SkipCrlf(s) == DropUntil(s, LAMBDA t : t \notin {CR, LF})

(***************************************************************************)
(* pop3_check_line: consume one line of printable bytes ending in CRLF.    *)
(* rc = 0: the line ended in CRLF and rest is what follows it;             *)
(* rc = 1: the payload ended first (rest = <<>>);                          *)
(* rc = -1: a non-printable byte (LF included) came first, or CR was not   *)
(* followed by LF.  isprint() rejects LF, so a bare LF line is malformed.  *)
(***************************************************************************)
RECURSIVE pop3_check_line(_)
pop3_check_line(d) ==
    IF d = <<>> THEN [rc |-> 1, rest |-> d]
    ELSE IF Head(d) = CR
         THEN IF Len(d) > 1 /\ d[2] = LF
              THEN [rc |-> 0, rest |-> Drop(d, 2)]
              ELSE [rc |-> -1, rest |-> Tail(d)]
    ELSE IF Head(d) \in {LF, BIN}
         THEN [rc |-> -1, rest |-> d]
    ELSE pop3_check_line(Tail(d))
=============================================================================
