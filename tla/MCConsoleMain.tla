---------------------------- MODULE MCConsoleMain ----------------------------
(***************************************************************************)
(* Command lines over one username, one password, one port, the protocols *)
(* tcp and udp (not a choice) and three client-ids; file lines of every   *)
(* kind, up to two, setting a username, two passwords, a port or a port   *)
(* int() refuses, or an option the parser does not know.                  *)
(***************************************************************************)
EXTENDS ConsoleMain

\* Client-ids: 'a', 'a:1' (port offset 1), 'b:x' (no offset), ':2'.
MCExts == {<<"a">>, <<"a", "1">>, <<"b", "x">>, <<"", "2">>}

MCCmdLines == [username : {None, "u1"}, password : {None, "p1"},
               api_port : {None, "9100"}, api_proto : {None, "tcp", "udp"},
               name : {None, <<"a">>, <<"a", "1">>}]

MCFileLines ==
    [kind : {"blank", "noEq", "emptyField"}]
    \cup [kind : {"pair"}, field : {"username"}, value : {"u1", ""}]
    \cup [kind : {"pair"}, field : {"password"}, value : {"p2", ""}]
    \cup [kind : {"pair"}, field : {"api_port"}, value : {"9100", "x"}]
    \cup [kind : {"pair"}, field : {"bogus"}, value : {"v"}]

MCEndpointCode == [APC_ENDPOINT_PATH |-> 1, APC_LOG_ENDPOINT_PATH |-> 2]

\* No APC, two, one without --client-id, one with it last, or one APC
\* started with each client-id.
CONSTANTS NoApc, TwoApcs, NoClientId, ClientIdLast

MCScanCases == {NoApc, TwoApcs, NoClientId, ClientIdLast} \cup MCExts

====
