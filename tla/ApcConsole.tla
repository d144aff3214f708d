----------------------------- MODULE ApcConsole -----------------------------
(***************************************************************************)
(* The APC console (bin/apc_console.py): the CommandLineHandler commands,  *)
(* each one console line, run one after another by cmd.Cmd on the console  *)
(* thread, with the ApcClient (client/apcClient.py) calls they make and     *)
(* the LogConsole (listener/logconsole.py) they ask for notification types. *)
(*                                                                         *)
(* A command is one step: it is sequential code, and every RPC in it is a   *)
(* blocking send_msg whose outcome, modelled in RpcClient, is chosen here   *)
(* from Outcomes ("protocol" standing for every other exception send() and  *)
(* send_msg() raise).  The APC is the environment: the values it reports    *)
(* change between commands.  What is printed is left out; the module keeps  *)
(* what a property tells apart: the request the command sent, how it ended, *)
(* and the InfoDict and StatsDict values shown.                             *)
(***************************************************************************)
EXTENDS Naturals, FiniteSets

CONSTANTS
    ServerLoggers,  \* the loggers GET_LOGGERS of the APC would return
    OtherWord,      \* a word that names nothing
    InfoFieldsAP,   \* InfoDict keys filled from APInfoResp
    InfoFieldsAPC,  \* InfoDict keys filled from APCInfoResp
    Vals,           \* values the APC may report for an InfoDict key
    Counters,       \* StatsDict counters
    MaxCount,       \* bound on a counter's value
    FullReplies,    \* TRUE: every reply lists every field (ListFields)
    ParamWords,     \* words typed after "get ap" / "set ap", lower-cased
    ValueWords,     \* words typed as the value of "set ap"
    MaxCmds,        \* bound on console commands
    MaxChanges,     \* bound on changes of the APC's values
    Unknown,        \* InfoDict's initial 'Unknown'
    NoReq, NoSnap

ASSUME FullReplies \in BOOLEAN /\ InfoFieldsAP \cap InfoFieldsAPC = {}

InfoFields == InfoFieldsAP \cup InfoFieldsAPC

Outcomes == {"ok", "rpcError", "timeout", "protocol"}

\* What a raw send() hands back: frames 2.. of the reply (cmd, result
\* code, payload), of which there may be 1 to 3; n = 0 when it raises.
RawReplies == [n : 0..3, rc : {0, 1}]

(***************************************************************************)
(* The client's tables (apcClient.py).  An entry's operations are written  *)
(* ('get') in the code, a string, not a tuple; 'get' in 'get' and 'set' in  *)
(* 'get' give the same answers as set membership.                          *)
(***************************************************************************)
APParameters ==
    [macaddr |-> {"get"}, jkey |-> {"set"}, netid |-> {"get"},
     txpwr |-> {"get", "set"}, apinfo |-> {"get"}, time |-> {"get"},
     appInfo |-> {"get"}, clksrc |-> {"get", "set"}, apstatus |-> {"get"}]

APCParameters == {"managerhost", "managerport", "clientid", "gpsstate"}

\* _LOGLEVEL's names, after "L_" + name and upper().
LogLevels == {"fatal", "err", "warn", "info", "debug", "trace"}

\* The value words: "dec" a short even-length decimal ("12"), "big" a
\* decimal over 255 ("300"), "hex16" 32 hex digits, "junk" anything else.
\* gen_payload: struct.pack('B', int(v)) for clksrc and txpwr; v.decode('hex')
\* for jkey.  The result is the payload's kind, or "error" for the exception.
gen_payload(p, v) ==
    IF p = "jkey"
    THEN CASE v = "hex16" -> "key16"
           [] v = "dec"   -> "key1"
           [] OTHER       -> "error"
    ELSE IF v = "dec" THEN "byte" ELSE "error"

Req(cmd, param, op, payload) == [cmd |-> cmd, param |-> param, op |-> op, payload |-> payload]

(***************************************************************************)
(* 'x'.find(cmd) == 0 for a non-empty cmd: cmd is a prefix of x; and       *)
(* cmd in ('ap'): cmd is a substring of "ap".                              *)
(***************************************************************************)
PrefixesOf == [ap |-> {"a", "ap"},
               manager |-> {"m", "ma", "man", "mana", "manag", "manage", "manager"},
               clear |-> {"c", "cl", "cle", "clea", "clear"}]
SubstringsOfAp == {"a", "p", "ap"}

VARIABLES
    running,        \* cmdloop() has not returned
    ncmds,          \* commands run
    infoDisp,       \* InfoDict[k][2] for each key
    statsDisp,      \* StatsDict[g][c][2] for each counter
    srvInfo,        \* what the APC and AP would report now
    srvStats,       \* the APC's counters now
    changes,        \* changes of the APC's values so far
    out             \* the last command: its name, argument, request, result

vars == <<running, ncmds, infoDisp, statsDisp, srvInfo, srvStats, changes, out>>

Out(c, a, rq, rs) == [cmd |-> c, arg |-> a, req |-> rq, res |-> rs, seen |-> NoSnap, before |-> NoSnap]

TypeOK ==
    /\ running \in BOOLEAN /\ ncmds \in 0..MaxCmds /\ changes \in 0..MaxChanges
    /\ infoDisp \in [InfoFields -> Vals \cup {Unknown}]
    /\ statsDisp \in [Counters -> 0..MaxCount]
    /\ srvInfo \in [InfoFields -> Vals] /\ srvStats \in [Counters -> 0..MaxCount]
    /\ out = NoReq \/ out.res \in STRING

Init ==
    /\ running = TRUE
    /\ ncmds = 0
    /\ infoDisp = [f \in InfoFields |-> Unknown]
    /\ statsDisp = [c \in Counters |-> 0]
    /\ srvInfo \in [InfoFields -> Vals]
    /\ srvStats \in [Counters -> 0..MaxCount]
    /\ changes = 0
    /\ out = NoReq

\* Every command: the session runs, under the bound; the APC unchanged.
Command ==
    /\ running /\ ncmds < MaxCmds
    /\ ncmds' = ncmds + 1
    /\ UNCHANGED <<srvInfo, changes>>

(***************************************************************************)
(* Notification commands.  The console's one listener is the LogConsole.   *)
(* Its getNotifTypes() calls loadNotifTypes() while loggers is empty, which *)
(* calls self.rpcClient.send_secure_msg: ApcClient has no such method, the *)
(* AttributeError is caught and printed, and loggers stays [].  So every    *)
(* findListener() returns '' and every loop over getNotifTypes() is empty;  *)
(* the branches that register a type or start the listener thread are never *)
(* reached from this console.                                              *)
(***************************************************************************)
getNotifTypes == {}

findListener(t) == IF t \in getNotifTypes THEN "logListener" ELSE ""

\* do_trace <t|all> <on|off>.
do_trace(t, sw) ==
    /\ Command
    /\ out' = Out("trace", <<t, sw>>, NoReq,
                  CASE sw \notin {"on", "off"} -> "invalidArgs"
                    [] t = "all"               -> "done"
                    [] findListener(t) = ""    -> "notFound"
                    [] OTHER                   -> "traced")
    /\ UNCHANGED <<running, infoDisp, statsDisp, srvStats>>

\* do_subscribe [t|ALL]: nothing to subscribe to; an empty argument lists
\* the (empty) types of each listener.
do_subscribe(t) ==
    /\ Command
    /\ out' = Out("subscribe", t, NoReq,
                  CASE t = "ALL"              -> "done"
                    [] t = ""                 -> "listed"
                    [] findListener(t) = ""   -> "notFound"
                    [] OTHER                  -> "subscribed")
    /\ UNCHANGED <<running, infoDisp, statsDisp, srvStats>>

\* do_unsubscribe <t|ALL> and do_stop: unsubscribeAllListeners unregisters
\* nothing, and stopListener finds the listener not running.
do_unsubscribe(t) ==
    /\ Command
    /\ out' = Out("unsubscribe", t, NoReq,
                  IF t = "ALL" \/ findListener(t) # "" THEN "done" ELSE "notFound")
    /\ UNCHANGED <<running, infoDisp, statsDisp, srvStats>>

do_stop ==
    /\ Command
    /\ out' = Out("stop", "", NoReq, "done")
    /\ UNCHANGED <<running, infoDisp, statsDisp, srvStats>>

(***************************************************************************)
(* Logger and log level commands (LOG_RPC_SERVICE).                        *)
(***************************************************************************)

\* What do_logger does with a raw send() result.  With a name, an exception
\* of send() is swallowed, but struct.unpack of resp[1] and FromString of
\* resp[2] are outside any try: a reply without those frames raises out
\* of the do_ method to the override of cmdloop(), which prints it and
\* enters cmdloop() again ("raised": the session goes on).  Without a name,
\* getAllLoggers and the unpacking of its result are inside a try that
\* returns quietly.
LoggerResult(name, r) ==
    CASE r.n = 0                    -> "failed"
      [] name = ""                  -> IF r.n = 3 /\ r.rc = 0 THEN "shown" ELSE "failed"
      [] r.n = 1                    -> "raised"
      [] r.rc = 0 /\ r.n = 2        -> "raised"
      [] OTHER                      -> "shown"

\* do_logger [name]: GET_LOG_LEVEL for a name, GET_LOGGERS without one.
do_logger(name) ==
    /\ Command
    /\ \E r \in RawReplies :
         out' = Out("logger", name,
                    Req(IF name = "" THEN "GET_LOGGERS" ELSE "GET_LOG_LEVEL", name, "-", "-"),
                    LoggerResult(name, r))
    /\ UNCHANGED <<running, infoDisp, statsDisp, srvStats>>

\* do_set loglevel <logger> <level> -> setLogLevel: an unknown level name
\* is a KeyError, caught before anything is sent; TimeoutError and RpcError
\* are caught in setLogLevel, anything else in do_set.
setLogLevel(name, lvl) ==
    /\ Command
    /\ IF lvl \notin LogLevels
       THEN out' = Out("setLogLevel", <<name, lvl>>, NoReq, "invalidName")
       ELSE \E o \in Outcomes :
              out' = Out("setLogLevel", <<name, lvl>>, Req("SET_LOG_LEVEL", name, "-", lvl), o)
    /\ UNCHANGED <<running, infoDisp, statsDisp, srvStats>>

(***************************************************************************)
(* AP and APC parameters (APC_RPC_SERVICE).                                *)
(***************************************************************************)

\* do_get ap <p> -> rpcAP_API_getParameter(p): an unknown name sends
\* nothing; a name without 'get' prints "Unsupported operation" and still
\* sends AP_API getParameter, with an empty payload.  Exceptions of
\* send_msg, and of decoding the response, are caught in do_get.
rpcAP_API_getParameter(p) ==
    /\ Command
    /\ IF p \notin DOMAIN APParameters
       THEN out' = Out("getAp", p, NoReq, "unrecognized")
       ELSE \E o \in Outcomes :
              out' = Out("getAp", p,
                         Req("AP_API", p, "get", IF "get" \in APParameters[p] THEN "id" ELSE "empty"), o)
    /\ UNCHANGED <<running, infoDisp, statsDisp, srvStats>>

\* do_set ap <p> <v> -> rpcAP_API_setParameter([p, v]): for a settable p
\* gen_payload's exception reaches do_set before anything is sent (its
\* empty-payload return is the macaddr branch, never taken: macaddr is not
\* settable); a p without 'set' prints "Unsupported operation" and sends
\* setParameter with an empty payload.
rpcAP_API_setParameter(p, v) ==
    /\ Command
    /\ CASE p \notin DOMAIN APParameters ->
              out' = Out("setAp", <<p, v>>, NoReq, "unrecognized")
         [] "set" \in APParameters[p] /\ gen_payload(p, v) = "error" ->
              out' = Out("setAp", <<p, v>>, NoReq, "badValue")
         [] OTHER ->
              \E o \in Outcomes :
                 out' = Out("setAp", <<p, v>>,
                            Req("AP_API", p, "set",
                                IF "set" \in APParameters[p] THEN gen_payload(p, v) ELSE "empty"), o)
    /\ UNCHANGED <<running, infoDisp, statsDisp, srvStats>>

\* do_get apc <p> -> rpcAPC_getParameter(p): GET_APC_INFO for a known name.
rpcAPC_getParameter(p) ==
    /\ Command
    /\ IF p \notin APCParameters
       THEN out' = Out("getApc", p, NoReq, "unrecognized")
       ELSE \E o \in Outcomes : out' = Out("getApc", p, Req("GET_APC_INFO", p, "-", "-"), o)
    /\ UNCHANGED <<running, infoDisp, statsDisp, srvStats>>

\* rpcResetAP: send_msg(AP_RESET) with no request body and no reply class.
rpcResetAP == Req("AP_RESET", "-", "-", "-")

\* do_reset <w> -> rpcResetAP when w.lower() in ('ap'), a substring test.
do_reset(w) ==
    /\ Command
    /\ IF w \notin SubstringsOfAp
       THEN out' = Out("reset", w, NoReq, "invalidArgs")
       ELSE \E o \in Outcomes : out' = Out("reset", w, rpcResetAP, o)
    /\ UNCHANGED <<running, infoDisp, statsDisp, srvStats>>

\* do_set <ap|loglevel> <a> <b>: three words, the first lower-cased, picks
\* setLogLevel or rpcAP_API_setParameter; any other first word is invalid.
do_set(kind, a, b) ==
    CASE kind = "loglevel" -> setLogLevel(a, b)
      [] kind = "ap"       -> rpcAP_API_setParameter(a, b)
      [] OTHER -> /\ Command
                  /\ out' = Out("set", <<kind, a, b>>, NoReq, "invalidArgs")
                  /\ UNCHANGED <<running, infoDisp, statsDisp, srvStats>>

\* do_get <ap|apc> <p>: the same for rpcAP_API_getParameter and
\* rpcAPC_getParameter.
do_get(kind, p) ==
    CASE kind = "ap"  -> rpcAP_API_getParameter(p)
      [] kind = "apc" -> rpcAPC_getParameter(p)
      [] OTHER -> /\ Command
                  /\ out' = Out("get", <<kind, p>>, NoReq, "invalidArgs")
                  /\ UNCHANGED <<running, infoDisp, statsDisp, srvStats>>

(***************************************************************************)
(* Statistics and information.                                             *)
(***************************************************************************)

\* The fields a reply lists: all of them, or, when the APC leaves fields
\* unset, any subset (ListFields and pb2dict skip unset fields).
Present(F) == IF FullReplies THEN {F} ELSE SUBSET F

\* The counters a stats reply lists: all, or at least every non-zero one
\* (a field left at its default 0 is not listed).
ListedCounters == IF FullReplies THEN {Counters}
                  ELSE {S \in SUBSET Counters : \A c \in Counters \ S : srvStats[c] = 0}

\* getStats(arg): GET_APC_STATS; every counter the reply lists is stored
\* in StatsDict, whichever group is then printed.
getStats(arg) ==
    \E o \in Outcomes, listed \in ListedCounters :
       /\ statsDisp' = IF o = "ok" THEN [c \in Counters |-> IF c \in listed THEN srvStats[c] ELSE statsDisp[c]]
                       ELSE statsDisp
       /\ out' = [Out("stats", arg, Req("GET_APC_STATS", "-", "-", "-"), o)
                    EXCEPT !.seen = srvStats, !.before = statsDisp]
       /\ UNCHANGED srvStats

\* clearStats: CLEAR_APC_STATS.  The APC zeroes its counters when it gets
\* the request: after an answer, and perhaps when the answer never came.
clearStats ==
    \E o \in Outcomes :
       /\ srvStats' \in IF o \in {"ok"} THEN {[c \in Counters |-> 0]}
                        ELSE IF o = "rpcError" THEN {srvStats}
                        ELSE {srvStats, [c \in Counters |-> 0]}
       /\ out' = Out("stats", "clear", Req("CLEAR_APC_STATS", "-", "-", "-"), o)
       /\ UNCHANGED statsDisp

\* do_stats [w]: no word shows all groups; otherwise the first of 'ap',
\* 'manager', 'clear' that w is a prefix of.
do_stats(w) ==
    /\ Command
    /\ CASE w = ""                    -> getStats("all")
         [] w \in PrefixesOf["ap"]      -> getStats("ap")
         [] w \in PrefixesOf["manager"] -> getStats("manager")
         [] w \in PrefixesOf["clear"]   -> clearStats
         [] OTHER -> /\ out' = Out("stats", w, NoReq, "invalidArgs")
                     /\ UNCHANGED <<statsDisp, srvStats>>
    /\ UNCHANGED <<running, infoDisp>>

\* Mutant: each reply's fields stored as soon as it arrives.
info_eachReply ==
    /\ Command
    /\ \E o1, o2 \in Outcomes, pAP \in Present(InfoFieldsAP), pAPC \in Present(InfoFieldsAPC) :
         LET got == (IF o1 = "ok" THEN pAP ELSE {}) \cup (IF o1 = "ok" /\ o2 = "ok" THEN pAPC ELSE {})
         IN  /\ infoDisp' = [f \in InfoFields |-> IF f \in got THEN srvInfo[f] ELSE infoDisp[f]]
             /\ out' = [Out("info", "", Req("GET_APC_INFO", "-", "-", "-"),
                            IF o1 = "ok" THEN o2 ELSE o1)
                          EXCEPT !.seen = srvInfo, !.before = infoDisp]
    /\ UNCHANGED <<running, statsDisp, srvStats>>

\* do_info -> info(): GET_AP_INFO, then GET_APC_INFO, each reply's fields
\* merged into a local dict; an exception of either call is re-raised and
\* caught in do_info.  Only after both answers is InfoDict updated, for the
\* keys the dict holds.
info ==
    /\ Command
    /\ \E o1, o2 \in Outcomes, pAP \in Present(InfoFieldsAP), pAPC \in Present(InfoFieldsAPC) :
         LET ok  == o1 = "ok" /\ o2 = "ok"
             got == pAP \cup pAPC
         IN  /\ infoDisp' = IF ok THEN [f \in InfoFields |-> IF f \in got THEN srvInfo[f] ELSE infoDisp[f]]
                            ELSE infoDisp
             /\ out' = [Out("info", "", Req(IF o1 = "ok" THEN "GET_APC_INFO" ELSE "GET_AP_INFO", "-", "-", "-"),
                            IF o1 = "ok" THEN o2 ELSE o1)
                          EXCEPT !.seen = srvInfo, !.before = infoDisp]
    /\ UNCHANGED <<running, statsDisp, srvStats>>

\* do_quit, do_exit, do_logout: the do_ method returns True and cmdloop()
\* returns (logout first runs unsubscribeAllListeners, a no-op here).
do_quit ==
    /\ running
    /\ running' = FALSE
    /\ out' = Out("quit", "", NoReq, "done")
    /\ UNCHANGED <<ncmds, infoDisp, statsDisp, srvInfo, srvStats, changes>>

(***************************************************************************)
(* The APC: between commands, an InfoDict value or a counter changes.      *)
(***************************************************************************)
apcChange ==
    /\ changes < MaxChanges
    /\ changes' = changes + 1
    /\ \/ \E f \in InfoFields, v \in Vals : srvInfo' = [srvInfo EXCEPT ![f] = v] /\ UNCHANGED srvStats
       \/ \E c \in Counters : srvStats[c] < MaxCount /\ srvStats' = [srvStats EXCEPT ![c] = @ + 1]
                              /\ UNCHANGED srvInfo
    /\ UNCHANGED <<running, ncmds, infoDisp, statsDisp, out>>

LoggerWords == ServerLoggers \cup {OtherWord}

Next ==
    \/ \E t \in LoggerWords \cup {"all"}, sw \in {"on", "off", OtherWord} : do_trace(t, sw)
    \/ \E t \in LoggerWords \cup {"ALL", ""} : do_subscribe(t)
    \/ \E t \in LoggerWords \cup {"ALL"} : do_unsubscribe(t)
    \/ do_stop
    \/ \E name \in LoggerWords \cup {""} : do_logger(name)
    \/ \E name \in LoggerWords, lvl \in {"debug", OtherWord} : do_set("loglevel", name, lvl)
    \/ \E p \in ParamWords, v \in ValueWords : do_set("ap", p, v)
    \/ do_set(OtherWord, OtherWord, OtherWord)
    \/ \E p \in ParamWords : do_get("ap", p)
    \/ \E p \in APCParameters \cup {OtherWord} : do_get("apc", p)
    \/ do_get(OtherWord, OtherWord)
    \/ \E w \in {"", "a", "ap", "m", "c", "clear", OtherWord} : do_stats(w)
    \/ \E w \in {"ap", "p", "apc"} : do_reset(w)
    \/ info
    \/ do_quit
    \/ apcChange

Spec == Init /\ [][Next]_vars

(***************************************************************************)
(* Properties, over the last command.                                      *)
(***************************************************************************)

\* info and stats show what the APC reported: after a successful command
\* every shown InfoDict (StatsDict) value is the APC's value at that
\* command or InfoDict's 'Unknown', and after a failed one nothing shown
\* has changed -- no value from an earlier command, or from half of a
\* failed one, is on screen.
DisplayShowsLatest ==
    out # NoReq /\ out.seen # NoSnap =>
        LET disp == IF out.cmd = "info" THEN infoDisp ELSE statsDisp
        IN  IF out.res = "ok" THEN \A k \in DOMAIN disp : disp[k] \in {out.seen[k], Unknown}
            ELSE disp = out.before

====
