---------------------------- MODULE Pop3Patterns ----------------------------
(***************************************************************************)
(* The client command recogniser of detector_pop3.cc: the pattern table    *)
(* pop3_client_patterns, the parallel table eoc, the indices the client    *)
(* parser switches on (enum Client_App_Pattern_Index) and the anchored     *)
(* multi-pattern search (do_custom_init, pop3_pattern_match, find_all).    *)
(***************************************************************************)
EXTENDS Integers, Sequences, SequencesExt, Pop3Lines

(***************************************************************************)
(* pop3_client_patterns, in table order.  do_custom_init adds entry k of   *)
(* the table to the matcher with id cooked_idx = k, starting at 1, and     *)
(* pop3_pattern_match hands that id back as pattern_index: a matched       *)
(* command's pattern_index is its 1-based position in this sequence.       *)
(***************************************************************************)
pop3_client_patterns ==
    << <<"USER", SP>>, <<"PASS", SP>>, <<"APOP", SP>>, <<"AUTH", SP>>,
       <<"AUTH", CR, LF>>, <<"AUTH", LF>>, <<"AUTH", SP, CR, LF>>,
       <<"AUTH", SP, LF>>, <<"STLS", CR, LF>>, <<"STLS", LF>>,
       <<"DELE", SP>>, <<"LIST", SP>>, <<"LIST", CR, LF>>, <<"LIST", LF>>,
       <<"NOOP", CR, LF>>, <<"NOOP", LF>>, <<"QUIT", CR, LF>>,
       <<"QUIT", LF>>, <<"RETR", SP>>, <<"STAT", CR, LF>>, <<"STAT", LF>>,
       <<"RSET", CR, LF>>, <<"RSET", LF>>, <<"TOP", SP>>, <<"UIDL", SP>>,
       <<"UIDL", CR, LF>>, <<"UIDL", LF>>, <<"CAPA", CR, LF>>,
       <<"CAPA", LF>> >>

NumPatterns == Len(pop3_client_patterns)

(***************************************************************************)
(* std::array<bool, 29> eoc.  C's eoc[i] is eoc[i + 1] here.               *)
(***************************************************************************)
eoc == << FALSE, FALSE, FALSE, FALSE, TRUE, TRUE, TRUE, TRUE, TRUE,
          TRUE, FALSE, FALSE, TRUE, TRUE, TRUE, TRUE, TRUE, TRUE, FALSE,
          TRUE, TRUE, TRUE, TRUE, FALSE, FALSE, TRUE, TRUE, TRUE, TRUE >>

(***************************************************************************)
(* The parser reads eoc[pattern_index].  pattern_index runs 1..29, so the  *)
(* read of index 29 is one past the array: undefined behaviour, modelled   *)
(* as the byte the build happens to place there (pastEnd).                 *)
(***************************************************************************)
EocAt(pattern_index, pastEnd) ==
    IF pattern_index < Len(eoc) THEN eoc[pattern_index + 1] ELSE pastEnd

(***************************************************************************)
(* enum Client_App_Pattern_Index: the case labels of the client parser.    *)
(* It starts at 0, while pattern_index starts at 1.                        *)
(***************************************************************************)
PATTERN_USER       == 0
PATTERN_PASS       == 1
PATTERN_APOP       == 2
PATTERN_AUTH       == 3
PATTERN_AUTHEOC    == 4
PATTERN_AUTHEOC2   == 5
PATTERN_AUTHEOC3   == 6
PATTERN_AUTHEOC4   == 7
PATTERN_STLSEOC    == 8
PATTERN_STLSEOC2   == 9
PATTERN_POP3_OTHER == 10

(***************************************************************************)
(* do_custom_init: longest_pattern, the width of the search window.        *)
(***************************************************************************)
longest_pattern ==
    LET lens == {Len(pop3_client_patterns[k]) : k \in 1..NumPatterns}
    IN  CHOOSE m \in lens : \A l \in lens : l <= m

(***************************************************************************)
(* cmd_matcher->find_all over the window with pop3_pattern_match as the    *)
(* callback.  The Aho-Corasick search reports matches in the order their   *)
(* last byte is reached; the callback accepts a match only when it ends    *)
(* at the pattern's own length (the pattern sits at offset 0) and stops    *)
(* the search by returning 1.  The first accepted match is therefore the   *)
(* SHORTEST pattern that is a prefix of the window; 0 if there is none.    *)
(***************************************************************************)
Anchored(s) ==
    LET window == SubSeq(s, 1, IF Len(s) > longest_pattern
                               THEN longest_pattern ELSE Len(s))
    IN  {k \in 1..NumPatterns : IsPrefix(pop3_client_patterns[k], window)}

MatchIndex(s) ==
    IF Anchored(s) = {} THEN 0
    ELSE CHOOSE k \in Anchored(s) :
           \A j \in Anchored(s) :
              Len(pop3_client_patterns[k]) <= Len(pop3_client_patterns[j])
=============================================================================
