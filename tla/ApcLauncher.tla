---------------------------- MODULE ApcLauncher ----------------------------
(***************************************************************************)
(* apc_launcher.py: wait for NTP sync, then exec the APC.  main() polls    *)
(* "ntpq -c rv" every POLL_INTERVAL seconds until its output holds          *)
(* "sync_ntp", until ntpq cannot be run (OSError: "NTP is not installed"),  *)
(* or until NTP_TIMEOUT seconds have been waited, then start_apc() replaces *)
(* the process with the APC by execv.  SIGTERM before that exits.           *)
(*                                                                         *)
(* ntpq is the environment: each run prints output with or without          *)
(* "sync_ntp", or nothing (ntpd not answering), and maybe an error on        *)
(* stderr; Popen raises OSError when ntpq is not installed and, when         *)
(* TransientOSError holds, for a failed fork of an installed one.           *)
(***************************************************************************)
EXTENDS Naturals

CONSTANTS
    NTP_TIMEOUT,        \* seconds
    POLL_INTERVAL,      \* seconds
    Errs,               \* texts ntpq may print on stderr
    TransientOSError,   \* Popen may fail although ntpq is installed
    NoErr               \* the initial last_err, 0: unequal to every text

ASSUME POLL_INTERVAL \in Nat \ {0} /\ TransientOSError \in BOOLEAN /\ NoErr \notin Errs \cup {""}

\* What ntpq's stdout holds: nothing, text without "sync_ntp", or with it.
Outputs == {"empty", "unsynced", "synced"}

VARIABLES
    pc,             \* "loop" (while test), "sleep", "start" (start_apc), "apc", "exited"
    total_wait,     \* main's total_wait
    ntpq,           \* ntpq is installed
    status,         \* what the last read_ntp_sync returned: "none" (None) or an output
    last_err        \* read_ntp_sync.last_err (NoErr before any error)

vars == <<pc, total_wait, ntpq, status, last_err>>

TypeOK ==
    /\ pc \in {"loop", "sleep", "start", "apc", "exited"}
    /\ total_wait \in Nat /\ ntpq \in BOOLEAN
    /\ status \in {"init", "none"} \cup Outputs
    /\ last_err \in Errs \cup {NoErr}

Init ==
    /\ pc = "loop"
    /\ total_wait = 0
    /\ ntpq \in BOOLEAN
    /\ status = "init"
    /\ last_err = NoErr

\* while total_wait < NTP_TIMEOUT: the loop ends by timing out.
loopExit ==
    /\ pc = "loop" /\ total_wait >= NTP_TIMEOUT
    /\ pc' = "start"
    /\ UNCHANGED <<total_wait, ntpq, status, last_err>>

\* The results of one read_ntp_sync: None after an OSError, otherwise the
\* output, with the stderr text ("" for none).
Reads == (IF ~ntpq \/ TransientOSError THEN {[out |-> "none", err |-> ""]} ELSE {})
         \cup (IF ntpq THEN [out : Outputs, err : Errs \cup {""}] ELSE {})

\* Mutant: read_ntp_sync.last_err = output, the wrong variable remembered.
LogErr_output(r) ==
    IF r.err # "" /\ r.err # last_err
    THEN last_err' = r.out
    ELSE UNCHANGED last_err

\* read_ntp_sync: a non-empty stderr text is logged when it differs from
\* last_err, and becomes last_err.
LogErr(r) ==
    IF r.err # "" /\ r.err # last_err
    THEN last_err' = r.err
    ELSE UNCHANGED last_err

readNtp ==
    /\ pc = "loop" /\ total_wait < NTP_TIMEOUT
    /\ \E r \in Reads :
         /\ status' = r.out
         /\ LogErr(r)
         /\ pc' = IF r.out \in {"none", "synced"} THEN "start" ELSE "sleep"
    /\ UNCHANGED <<total_wait, ntpq>>

\* Mutant: the increment of total_wait forgotten.
sleepStep_noIncrement ==
    /\ pc = "sleep"
    /\ pc' = "loop"
    /\ UNCHANGED <<total_wait, ntpq, status, last_err>>

\* time.sleep(POLL_INTERVAL); total_wait += POLL_INTERVAL.
sleepStep ==
    /\ pc = "sleep"
    /\ total_wait' = total_wait + POLL_INTERVAL
    /\ pc' = "loop"
    /\ UNCHANGED <<ntpq, status, last_err>>

\* start_apc: execv replaces the process, or raises OSError (no APC binary
\* at APC_HOME/bin/apc), which ends the script.
startApc ==
    /\ pc = "start"
    /\ pc' \in {"apc", "exited"}
    /\ UNCHANGED <<total_wait, ntpq, status, last_err>>

\* SIGTERM before the exec: signal_term_handler calls sys.exit().
sigterm ==
    /\ pc \in {"loop", "sleep", "start"}
    /\ pc' = "exited"
    /\ UNCHANGED <<total_wait, ntpq, status, last_err>>

Launcher == loopExit \/ readNtp \/ sleepStep \/ startApc

Next == Launcher \/ sigterm

\* One thread; time.sleep and ntpq return.  A SIGTERM need not come.
Spec == Init /\ [][Next]_vars /\ WF_vars(Launcher)

(***************************************************************************)
(* Properties.                                                             *)
(***************************************************************************)

LauncherTerminates == <>(pc \in {"apc", "exited"})

====
