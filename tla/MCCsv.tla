------------------------------- MODULE MCCsv -------------------------------
(***************************************************************************)
(* Constants for checking CsvLogger: two output files, field lists that    *)
(* the parameter check accepts and two it rejects, limits as bit-position  *)
(* sets, and packets of the kinds alert() tells apart.                     *)
(***************************************************************************)
EXTENDS CsvLogger

MCFiles == {"stdout", "alert.csv"}

\* 8 B, 2^20 + 1 B.  Times 1024^3 they stay below 2^64.
MCLimits == {{}, {3}, {0, 20}}

\* {34} is a limit of 2^34; asked for in G units (2^30) it is 2^64 bytes.
MCWideLimits == MCLimits \cup {{34}}

MCCsvChoices ==
    { csv_deflt,
      <<"msg", "proto", "src_port", "dst_port">>,
      <<"icmp_type", "icmp_seq">>,
      <<"tcp_flags">> }

Pkt(ev, ip, pr, eh) ==
    [event |-> ev, ip |-> ip, proto |-> pr, eh |-> eh,
     udph |-> pr = "UDP", tcph |-> pr = "TCP", icmph |-> pr = "ICMP"]

MCPackets ==
    { Pkt(TRUE, TRUE, "TCP", TRUE),       \* a rule alert on TCP
      Pkt(FALSE, TRUE, "ICMP", TRUE),     \* a decoder alert on ICMP
      Pkt(TRUE, FALSE, "none", TRUE) }    \* no IP layer (ARP)
=============================================================================
