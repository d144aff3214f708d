---------------------------- MODULE ConsoleMain ----------------------------
(***************************************************************************)
(* main() of the APC console (bin/apc_console.py) and the helpers it takes *)
(* from commonUtils.py: MainCmdArgParser.parse_args (the command line over *)
(* the configuration file conf/console.conf over the defaults), the       *)
(* ApiEndpointBuilder that turns the APC's client-id into its endpoints,  *)
(* the psutil scan for the one running APC, and the dispatch to --cmd, -f *)
(* or the interactive loop, ending in log_console.close().                *)
(*                                                                         *)
(* Of the options, the model keeps those the endpoint and the layering    *)
(* depend on: username and password (a username on the command line      *)
(* drops the file's password), --api-port, --api-proto and -n.  A         *)
(* configuration-file line is abstracted to what the parser tells apart:  *)
(* empty once the '#' comment is cut, without '=', with an empty field, or *)
(* a field and a value.  A command is abstracted to how it ends; the      *)
(* commands themselves are ApcConsole's.                                  *)
(***************************************************************************)
EXTENDS Naturals, Sequences, SequencesExt

CONSTANTS
    None,           \* Python's None: an option left out
    CmdLines,       \* the command lines to try: records of option words
    FileLines,      \* configuration-file lines, abstracted
    MaxLines,       \* bound on the lines of the configuration file
    Exts,           \* client-ids, as the parts split(':') gives
    EndpointCode,   \* Enum_RpcEndpoints.to_int of each endpoint name
    ScanCases,      \* what the psutil scan can find
    MaxCmds,        \* bound on commands run
    NoErr

Opts == {"username", "password", "api_port", "api_proto", "name"}

\* MainCmdArgParser's defaults (DEFAULT_PORT, DEFAULT_PROTO; None else).
Default == [username |-> None, password |-> None, api_port |-> "9000",
            api_proto |-> "IPC", name |-> None]

\* --api-proto's choices, and str.upper() on them.
ProtoUpper == ("tcp" :> "TCP") @@ ("TCP" :> "TCP") @@ ("ipc" :> "IPC") @@ ("IPC" :> "IPC")

\* int() of the words the model uses for numbers; other words raise.
IntOf == ("9000" :> 9000) @@ ("9100" :> 9100) @@ ("0" :> 0) @@ ("1" :> 1) @@ ("2" :> 2)

(***************************************************************************)
(* parse_args().                                                           *)
(***************************************************************************)

\* parseFieldAndValue(): ValueError without '=' or with nothing before it.
parseFieldAndValue(l) ==
    IF l.kind \in {"noEq", "emptyField"} THEN [err |-> "valueError"]
    ELSE [err |-> NoErr, field |-> l.field, value |-> l.value]

\* The loop over the configuration file: skip an empty line; an exception
\* of parseFieldAndValue ends parse_args; an empty value sets errmsg and
\* returns None; the file's password is skipped when the command line has
\* a username; the rest becomes '--field value' in fileArgs.
RECURSIVE ConfigLoop(_, _, _)

\* Mutant: the file's password is kept although the command line has a
\* username.
ConfigLoop_keepPassword(lines, userOver, fileArgs) ==
    IF lines = <<>> THEN [err |-> NoErr, fileArgs |-> fileArgs]
    ELSE LET l == Head(lines)
         IN  CASE l.kind = "blank"               -> ConfigLoop(Tail(lines), userOver, fileArgs)
               [] parseFieldAndValue(l).err # NoErr -> [err |-> "valueError"]
               [] l.value = ""                    -> [err |-> "errmsg"]
               [] OTHER -> ConfigLoop(Tail(lines), userOver, Append(fileArgs, l))

ConfigLoop(lines, userOver, fileArgs) ==
    IF lines = <<>> THEN [err |-> NoErr, fileArgs |-> fileArgs]
    ELSE LET l == Head(lines)
             rest == Tail(lines)
         IN  CASE l.kind = "blank"               -> ConfigLoop(rest, userOver, fileArgs)
               [] parseFieldAndValue(l).err # NoErr -> [err |-> "valueError"]
               [] l.value = ""                    -> [err |-> "errmsg"]
               [] userOver /\ l.field = "password" -> ConfigLoop(rest, userOver, fileArgs)
               [] OTHER -> ConfigLoop(rest, userOver, Append(fileArgs, l))

\* ArgumentParser.parse_args(fileArgs): an unknown option is a usage error;
\* otherwise each option holds its last value, or its default.
ParseFileArgs(fileArgs) ==
    IF \E i \in DOMAIN fileArgs : fileArgs[i].field \notin Opts
    THEN [err |-> "usage"]
    ELSE [err |-> NoErr,
          ns |-> FoldLeft(LAMBDA ns, l : [ns EXCEPT ![l.field] = l.value], Default, fileArgs)]

\* ArgumentParser.parse_args(None, ns): what the command line gives
\* replaces the namespace's value; the rest is kept.
Overlay(ns, cmd) == [o \in Opts |-> IF cmd[o] # None THEN cmd[o] ELSE ns[o]]

Upper(ns) == [ns EXCEPT !.api_proto = ProtoUpper[@]]

\* The whole of parse_args(): the command line is parsed first (an invalid
\* --api-proto is a usage error); a configuration file named with -c must
\* exist, the default one may be missing.
parse_args(cmd, lines, named, exists) ==
    IF cmd.api_proto \notin DOMAIN ProtoUpper \cup {None} THEN [err |-> "usage"]
    ELSE IF ~exists
    THEN IF named THEN [err |-> "errmsg"]
         ELSE [err |-> NoErr, args |-> Upper(Overlay(Default, cmd))]
    ELSE LET loop == ConfigLoop(lines, cmd.username # None, <<>>)
             file == ParseFileArgs(loop.fileArgs)
         IN  IF loop.err # NoErr THEN [err |-> loop.err]
             ELSE IF file.err # NoErr THEN [err |-> file.err]
             ELSE [err |-> NoErr, args |-> Upper(Overlay(file.ns, cmd))]

(***************************************************************************)
(* ApiEndpointBuilder.                                                     *)
(***************************************************************************)

\* An endpoint, abstracted to what decides where it leads: a TCP port
\* ('tcp://*:p' and 'tcp://host:p' meet there), or the IPC file, named
\* by the endpoint code and the '_name' getIPCpath inserts.
TcpAt(p) == [proto |-> "TCP", port |-> p]

\* Mutant: the '_' and the name are inserted even for an empty name.
IpcAt_emptyName(code, ipcName) == [proto |-> "IPC", code |-> code, suffix |-> ipcName]

IpcAt(code, ipcName) == [proto |-> "IPC", code |-> code,
                         suffix |-> IF ipcName = "" THEN None ELSE ipcName]

\* getServerEndpoint(name, ext): a part after ':' is a port offset when
\* int() takes it, and the part before it names the IPC file.
getServerEndpoint(b, epName, ext) ==
    LET ipcName == ext[1]
        off == IF Len(ext) > 1 /\ ext[2] \in DOMAIN IntOf THEN IntOf[ext[2]] ELSE 0
        code == EndpointCode[epName]
    IN  IF b.proto = "TCP" THEN TcpAt(b.port_base + code + off) ELSE IpcAt(code, ipcName)

getClientEndpoint_noOffset(b, epName, ext) ==
    LET code == EndpointCode[epName]
    IN  IF b.proto = "TCP" THEN TcpAt(b.port_base + code) ELSE IpcAt(code, ext[1])

\* getClientEndpoint(name, ext): the same split, with the host in place
\* of '*'.
getClientEndpoint(b, epName, ext) ==
    LET ipcName == ext[1]
        portOffset == IF Len(ext) > 1 /\ ext[2] \in DOMAIN IntOf
                      THEN IntOf[ext[2]] ELSE 0
    IN  IF b.proto = "TCP"
        THEN TcpAt(b.port_base + EndpointCode[epName] + portOffset)
        ELSE IpcAt(EndpointCode[epName], ipcName)

(***************************************************************************)
(* main().                                                                 *)
(***************************************************************************)

Modes == {"cmd", "file", "interactive"}

VARIABLES
    phase,      \* "start", "parsed", "ready", a mode, "closed", "raised", "exited"
    inp,        \* what parse_args read: command line and file, or None
    res,        \* what parse_args returned or raised, or None
    builder,    \* the ApiEndpointBuilder's proto and port_base, or None
    target,     \* the client-id of the APC the console connects to, or None
    endpoints,  \* APC_ENDPOINT and APC_LOG_ENDPOINT, or None
    ncmds       \* commands run

vars == <<phase, inp, res, builder, target, endpoints, ncmds>>

Inputs == [cmd : CmdLines, lines : UNION {[1..k -> FileLines] : k \in 0..MaxLines},
           named : BOOLEAN, exists : BOOLEAN]

Endpoint == [proto : {"TCP"}, port : Nat] \cup
            [proto : {"IPC"}, code : Nat, suffix : ({e[1] : e \in Exts} \ {""}) \cup {None}]

TypeOK ==
    /\ phase \in {"start", "parsed", "ready", "closed", "raised", "exited"} \cup Modes
    /\ inp \in Inputs \cup {None}
    /\ builder \in [proto : {"TCP", "IPC"}, port_base : Nat] \cup {None}
    /\ target \in Exts \cup {None}
    /\ endpoints \in [rpc : Endpoint, log : Endpoint] \cup {None}
    /\ ncmds \in 0..MaxCmds

Init ==
    /\ phase = "start"
    /\ inp = None /\ res = None /\ builder = None /\ target = None
    /\ endpoints = None
    /\ ncmds = 0

\* parser.parse_args(), on a command line and a configuration file that
\* exists (or not) and was named with -c (or not).
parseArgs ==
    /\ phase = "start"
    /\ \E i \in Inputs :
         /\ ~i.exists => i.lines = <<>>
         /\ inp' = i
         /\ res' = parse_args(i.cmd, i.lines, i.named, i.exists)
    /\ phase' = "parsed"
    /\ UNCHANGED <<builder, target, endpoints, ncmds>>

\* From `if not args` to the endpoints: an error of parse_args ends main
\* (errmsg with exit(1), a usage error with exit(2), ValueError through
\* main); int(args.api_port) may raise; -n names the APC, else the psutil
\* scan must find exactly one 'apc' process with '--client-id' followed by
\* a value (the IndexError of '--client-id' last is not caught).
connect ==
    /\ phase = "parsed"
    /\ inp' = None
    /\ UNCHANGED ncmds
    /\ IF res.err # NoErr \/ res.args.api_port \notin DOMAIN IntOf
       THEN /\ phase' = "exited"
            /\ UNCHANGED <<res, builder, target, endpoints>>
       ELSE LET b == [proto |-> res.args.api_proto, port_base |-> IntOf[res.args.api_port]]
            IN  \E t \in IF res.args.name # None THEN {res.args.name} ELSE ScanCases :
                  IF t \in Exts
                  THEN /\ phase' = "ready"
                       /\ builder' = b
                       /\ target' = t
                       /\ endpoints' = [rpc |-> getClientEndpoint(b, "APC_ENDPOINT_PATH", t),
                                        log |-> getClientEndpoint(b, "APC_LOG_ENDPOINT_PATH", t)]
                       /\ res' = None
                  ELSE /\ phase' = "exited"
                       /\ UNCHANGED <<res, builder, target, endpoints>>

\* The dispatch: --cmd, else -f (an IOError of open() is printed, then the
\* listener closed), else cmdloop().
dispatch ==
    /\ phase = "ready"
    /\ \E m \in Modes \cup {"noFile"} :
         phase' = IF m = "noFile" THEN "closed" ELSE m
    /\ UNCHANGED <<inp, res, builder, target, endpoints, ncmds>>

\* One command, ending normally, with True (quit, exit, logout) or with an
\* exception.  --cmd runs one and closes; -f ignores the True and lets an
\* exception out of main, past log_console.close(); in cmdloop() True ends
\* the loop, while the override of cmdloop catches an exception, prints it
\* and enters cmdloop again, so the session goes on.
runCmd ==
    /\ phase \in Modes
    /\ ncmds < MaxCmds
    /\ ncmds' = ncmds + 1
    /\ \E o \in {"ok", "quit", "raise"} :
         phase' = CASE o = "raise" /\ phase \in {"cmd", "file"} -> "raised"
                    [] phase = "cmd"                             -> "closed"
                    [] phase = "interactive" /\ o = "quit"      -> "closed"
                    [] OTHER                                     -> phase
    /\ UNCHANGED <<inp, res, builder, target, endpoints>>

\* The end of the -f file: fd.close() and log_console.close().
endOfFile ==
    /\ phase = "file"
    /\ phase' = "closed"
    /\ UNCHANGED <<inp, res, builder, target, endpoints, ncmds>>

Next == parseArgs \/ connect \/ dispatch \/ runCmd \/ endOfFile

Spec == Init /\ [][Next]_vars

(***************************************************************************)
(* Properties.                                                             *)
(***************************************************************************)

\* What parse_args promises, written per option: the command line wins;
\* then the file's last line for the option, except the file's password
\* when the command line has a username; then the default.  It fails on
\* an invalid --api-proto, a missing -c file, or at the file's first bad
\* line, and only then on an unknown option.
LastInFile(lines, o) ==
    LET is == {i \in DOMAIN lines : lines[i].kind = "pair" /\ lines[i].field = o}
    IN  IF is = {} THEN None ELSE lines[Max(is)].value

FirstBad(lines) ==
    LET bad == {i \in DOMAIN lines : lines[i].kind \in {"noEq", "emptyField"}
                                      \/ (lines[i].kind = "pair" /\ lines[i].value = "")}
    IN  IF bad = {} THEN 0 ELSE Min(bad)

Layered(i, o) ==
    CASE i.cmd[o] # None                                  -> i.cmd[o]
      [] o = "password" /\ i.cmd.username # None          -> Default[o]
      [] i.exists /\ LastInFile(i.lines, o) # None        -> LastInFile(i.lines, o)
      [] OTHER                                            -> Default[o]

ExpectedParse(i) ==
    LET fb == FirstBad(i.lines)
    IN  CASE i.cmd.api_proto \notin DOMAIN ProtoUpper \cup {None} -> [err |-> "usage"]
          [] ~i.exists /\ i.named                               -> [err |-> "errmsg"]
          [] fb # 0 /\ i.lines[fb].kind # "pair"               -> [err |-> "valueError"]
          [] fb # 0                                             -> [err |-> "errmsg"]
          [] \E k \in DOMAIN i.lines : i.lines[k].kind = "pair" /\ i.lines[k].field \notin Opts
                                                                -> [err |-> "usage"]
          [] OTHER -> [err |-> NoErr, args |-> Upper([o \in Opts |-> Layered(i, o)])]

ParseArgsLayering == phase = "parsed" => res = ExpectedParse(inp)

\* The console talks to the APC it chose: its RPC and log endpoints are
\* those the APC with that client-id binds with getServerEndpoint, over
\* TCP and IPC alike, whatever form the client-id has.
ConnectsToChosenApc ==
    phase \notin {"start", "parsed", "exited"} =>
        /\ endpoints.rpc = getServerEndpoint(builder, "APC_ENDPOINT_PATH", target)
        /\ endpoints.log = getServerEndpoint(builder, "APC_LOG_ENDPOINT_PATH", target)

====
