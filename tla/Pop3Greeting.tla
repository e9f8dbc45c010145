---------------------------- MODULE Pop3Greeting ----------------------------
(***************************************************************************)
(* The vendor / version / subtype extraction that pop3_server_validate     *)
(* runs over the server greeting (the block after "if (server && begin)"). *)
(* The greeting line is a token sequence (module Pop3Lines) whose tokens   *)
(* split the bytes where the code compares them: the vendor markers, the   *)
(* letter "v", the words "release", "with", "version", the "'s v" marker   *)
(* and "]" are tokens of their own.  Copied versions are byte strings.     *)
(***************************************************************************)
EXTENDS Integers, Sequences, SequencesExt, Pop3Lines

MAX_VERSION_SIZE == 64

VEN_CPPOP == "cppop"
VEN_CC    == "Cubic Circle"
VEN_IM    == "InterMail"
VEN_PO    == "Post.Office"
VER_CC    == "'s v"
NoVendor  == ""            \* pd->vendor == nullptr
NoVersion == "<null>"      \* sub->version == nullptr

\* The bytes a run of tokens stands for (the backtick is written as a
\* one-byte stand-in: a TLA+ string cannot hold it).
ByteStr(t) == CASE t = SP -> " " [] t = CR -> "\r" [] t = LF -> "\n"
                [] t = TICK -> "'" [] OTHER -> t
ToBytes(s) == FoldLeft(LAMBDA acc, t : acc \o ByteStr(t), "", s)

\* Mutant: the copy loops stop at version + MAX_VERSION_SIZE, leaving no
\* room for the terminating NUL.
BoundedOffByOne(str) ==
    IF Len(str) > MAX_VERSION_SIZE THEN SubSeq(str, 1, MAX_VERSION_SIZE)
    ELSE str

\* The copy loops stop writing at v_end = version + MAX_VERSION_SIZE - 1.
Bounded(str) ==
    IF Len(str) > MAX_VERSION_SIZE - 1 THEN SubSeq(str, 1, MAX_VERSION_SIZE - 1)
    ELSE str

\* Bytes of line[from .. to - 1], as copied into pd->version.
Copy(line, from, to) == Bounded(ToBytes(SubSeq(line, from, to - 1)))

\* Index of the first tok in line[i ..], or Len(line) + 1 (line_end).
FirstFrom(line, i, tok) ==
    LET j == IF i > Len(line) THEN 0
             ELSE SelectInSubSeq(line, i, Len(line), LAMBDA t : t = tok)
    IN  IF j = 0 THEN Len(line) + 1 ELSE j

\* memcmp(p, pat, sizeof(pat) - 1) == 0 with the length check before it.
HasAt(line, i, pat) ==
    /\ i + Len(pat) - 1 <= Len(line)
    /\ SubSeq(line, i, i + Len(pat) - 1) = pat

\* service_strstr(begin, len, marker): index just past the first marker.
After(line, marker) == FirstFrom(line, 1, marker) + 1
Has(line, marker) == FirstFrom(line, 1, marker) <= Len(line)

(***************************************************************************)
(* "cppop": if followed by ' ', the version is what lies before ']'; it is *)
(* cleared when the line ends first.                                       *)
(***************************************************************************)
Cppop(pd, line) ==
    LET p == After(line, VEN_CPPOP)
        stop == FirstFrom(line, p + 1, "]")
    IN  IF p <= Len(line) /\ line[p] = SP
        THEN [pd EXCEPT !.vendor = VEN_CPPOP,
                        !.version = IF stop <= Len(line)
                                    THEN Copy(line, p + 1, stop) ELSE ""]
        ELSE [pd EXCEPT !.vendor = VEN_CPPOP]

(***************************************************************************)
(* "Cubic Circle": if followed by "'s v", the version runs to the next     *)
(* space; it is cleared when the line ends first.                          *)
(***************************************************************************)
CubicCircle(pd, line) ==
    LET p == After(line, VEN_CC)
        stop == FirstFrom(line, p + 1, SP)
    IN  IF HasAt(line, p, <<VER_CC>>)
        THEN [pd EXCEPT !.vendor = VEN_CC,
                        !.version = IF stop <= Len(line)
                                    THEN Copy(line, p + 1, stop) ELSE ""]
        ELSE [pd EXCEPT !.vendor = VEN_CC]

(***************************************************************************)
(* "Post.Office v<ver>[ release <rel>[ with <svc>[ version <sv>]]]": each  *)
(* part is taken only when a space follows it inside the line (the goto    *)
(* ven_ver_done exits).  A subtype is pushed on the front of pd->subtype.  *)
(***************************************************************************)
PostOffice(pd, line) ==
    LET p   == After(line, VEN_PO)
        ver == p + 2
        pv  == FirstFrom(line, ver, SP)            \* end of <ver>
        rel == pv + 3
        p2  == FirstFrom(line, rel, SP)            \* end of <rel>
        s   == p2 + 3
        ps  == FirstFrom(line, s, SP)              \* end of <svc>
        sv  == ps + 3
        psv == FirstFrom(line, sv, SP)             \* end of <sv>
        hasVer == HasAt(line, p, <<SP, "v">>) /\ pv # ver /\ pv <= Len(line)
        hasRel == HasAt(line, pv, <<SP, "release", SP>>)
                  /\ p2 <= Len(line) /\ p2 # rel
        hasSub == HasAt(line, p2, <<SP, "with", SP>>)
                  /\ ps # s /\ ps <= Len(line)
        hasSubVer == sv <= Len(line) /\ HasAt(line, ps, <<SP, "version", SP>>)
                     /\ psv # sv /\ psv <= Len(line)
        sub == [service |-> ToBytes(SubSeq(line, s, ps - 1)),
                version |-> IF hasSubVer THEN ToBytes(SubSeq(line, sv, psv - 1))
                            ELSE NoVersion]
    IN  [pd EXCEPT !.vendor  = VEN_PO,
                   !.version = CASE ~hasVer -> @
                                 [] ~hasRel -> Copy(line, ver, pv)
                                 [] OTHER   -> Copy(line, ver, p2),
                   !.subtype = IF hasVer /\ hasRel /\ hasSub
                               THEN <<sub>> \o @ ELSE @]

(***************************************************************************)
(* The whole block: the first marker found, in this priority order.        *)
(***************************************************************************)
ScanGreeting(pd, line) ==
    CASE Has(line, VEN_CPPOP) -> Cppop(pd, line)
      [] Has(line, VEN_CC)    -> CubicCircle(pd, line)
      [] Has(line, VEN_IM)    -> [pd EXCEPT !.vendor = VEN_IM]
      [] Has(line, VEN_PO)    -> PostOffice(pd, line)
      [] OTHER                -> pd
=============================================================================
