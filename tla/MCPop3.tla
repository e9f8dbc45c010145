------------------------------- MODULE MCPop3 -------------------------------
(***************************************************************************)
(* Models of Pop3Session for TLC: the commands a client may send and the   *)
(* greetings a server may send.  Names and passwords are single tokens.    *)
(***************************************************************************)
EXTENDS Pop3Session

C(verb, args) == [verb |-> verb, args |-> args]

\* RFC 1939 clients: USER/PASS, APOP, SASL PLAIN (RFC 5034), STLS
\* (RFC 2595), CAPA (RFC 2449).  Two passwords, so that a user name
\* replaced before it is reported would be lost to add_user.
MCAuthCmds ==
    {C("USER", <<"alice">>), C("PASS", <<"pw">>), C("PASS", <<"pw2">>),
     C("APOP", <<"alice", SP, "c4c9334bac560ecc979e58001b3e22fb">>),
     C("AUTH", <<"PLAIN">>), C("STLS", <<>>), C("CAPA", <<>>),
     C("QUIT", <<>>)}

MCTransCmds == {C("STAT", <<>>), C("LIST", <<>>), C("RETR", <<"1">>),
                C("QUIT", <<>>)}

GreetPlain == <<"+OK", SP, "POP3", SP, "server", SP, "ready", CR, LF>>
\* "+OK Post.Office v3.5.3 release 223 with Rutger version 1.0\\r\\n"
GreetPostOffice ==
    <<"+OK", SP, "Post.Office", SP, "v", "3.5.3", SP, "release", SP, "223",
      SP, "with", SP, "Rutger", SP, "version", SP, "1.0", CR, LF>>

\* "+OK Cubic Circle's v" followed by a 70-byte version and " ready\r\n"
GreetCubicCircle ==
    <<"+OK", SP, "Cubic Circle", "'s v",
      "1.31.0000000000000000000000000000000000000000000000000000000000000000",
      SP, "ready", CR, LF>>

\* Logins that end with a one-line reply ("+ " challenge, STLS answer).
MCCutsAuthCmds ==
    {C("USER", <<"alice">>), C("AUTH", <<"PLAIN">>), C("STLS", <<>>),
     C("QUIT", <<>>)}

\* A refused STLS around CAPA, whose reply has a dot-terminated body.
MCStlsCapaCmds == {C("CAPA", <<>>), C("STLS", <<>>), C("USER", <<"alice">>)}

MCSaslTransCmds == {C("STAT", <<>>), C("QUIT", <<>>)}

\* Commands the client parser handles without a pattern miss when each
\* arrives whole.
MCPlainAuthCmds ==
    {C("USER", <<"alice">>), C("PASS", <<"pw">>), C("CAPA", <<>>),
     C("QUIT", <<>>)}

MCPlainTransCmds == {C("STAT", <<>>), C("LIST", <<>>), C("QUIT", <<>>)}

MCGreetings == {GreetPlain, GreetPostOffice, GreetCubicCircle}
MCEols == {<<CR, LF>>}
\* Clients that end lines with a bare LF too (the "...\n" patterns).
MCBothEols == {<<CR, LF>>, <<LF>>}
=============================================================================
