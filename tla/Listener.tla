------------------------------ MODULE Listener ------------------------------
(***************************************************************************)
(* The notification listener of pyvoyager (listener/listener.py) with the  *)
(* LogConsole variant (listener/logconsole.py) as driven by the console    *)
(* (bin/apc_console.py).                                                    *)
(*                                                                          *)
(* Three kinds of thread share one Listener object:                         *)
(*   - the console thread, which runs one CLI command at a time            *)
(*     (subscribe, trace, unsubscribe, stop, quit);                         *)
(*   - receive threads, each executing Listener.run: poll the SUB socket,  *)
(*     push frames into inpQueue, apply the overflow policy;               *)
(*   - reader threads, each executing Listener.queueReader: pop inpQueue,  *)
(*     purge the inbox, call LogConsole.processNotif.                       *)
(* run() starts its own queueReader, so thread r of Runs is a pair: the    *)
(* receive loop rpc[r] and the reader qpc[r] it started.  A second pair    *)
(* exists only when the console starts run() while an earlier one is      *)
(* still alive; Runs bounds how many times that can happen.                *)
(*                                                                          *)
(* The console commands are modelled for a caller whose getNotifTypes()    *)
(* returns Types.  The shipped LogConsole never learns a logger            *)
(* (loadNotifTypes calls the undefined send_secure_msg), so from           *)
(* apc_console.py subscribe and trace stop at "not found" and start no     *)
(* run(): what this module finds in the receive and reader threads is      *)
(* latent there, and real for any caller with a working loader.            *)
(*                                                                          *)
(* A step is one Python statement or a group of statements with no        *)
(* blocking call and no access to state another thread writes in between.*)
(***************************************************************************)
EXTENDS Naturals, Sequences, FiniteSets, Functions, TLC

CONSTANTS
  Types,          \* logger names the LogConsole handles (getNotifTypes)
  INBOX_SIZE,     \* Listener.INBOX_SIZE (100 in the code)
  inpq_max_size,  \* hard limit of inpQueue (1000 by default)
  inpq_threshold, \* soft limit of inpQueue (100 by default)
  Runs,           \* ids of the run()/queueReader() thread pairs that may be started
  MaxMsgs,        \* bound: notifications the publisher sends
  MaxCmds,        \* bound: console commands
  Malformed,      \* may the publisher send frames that fail to deserialize?
  QueueEnd,       \* the Listener.QueueEnd sentinel (model value)
  NoMsg           \* "reader holds no frame" (model value)

ASSUME /\ Types # {} /\ Runs # {}
       /\ INBOX_SIZE \in Nat \ {0}
       /\ inpq_threshold \in Nat \ {0} /\ inpq_max_size \in Nat \ {0}
       /\ MaxMsgs \in Nat /\ MaxCmds \in Nat
       /\ Malformed \in BOOLEAN

(* A notification as the listener sees it: the logger name (frame 0), the *)
(* severity test of processNotif (logLevel <= loglevel_filter) and whether *)
(* frame 1 parses as a LogEvent.  id is the publication order (a history   *)
(* field, not part of the frames).                                          *)
Msg == [id : 1..MaxMsgs, type : Types, severe : BOOLEAN, ok : BOOLEAN]

VARIABLES
  alive,        \* the process has not called os._exit (fatalQueueError)
  fRun,         \* Listener.fRun
  filters,      \* Listener.filters: subscribed logger names
  trace_filter, \* Listener.trace_filter
  INBOX,        \* Listener.INBOX: a function from logger name to records
  base_msgId,   \* Listener.base_msgId
  connected,    \* Listener.listener is not None (the SUB socket exists)
  closed,       \* the SUB socket was closed by Listener.close
  quit,         \* the console has run its last command (main() called close)
  sock,         \* frames received by the SUB socket, not yet read
  inpQueue,     \* Listener.inpQueue contents (frames and QueueEnd)
  unfinished,   \* inpQueue.unfinished_tasks (put minus task_done)
  rpc,          \* program counter of each run() thread
  qpc,          \* program counter of each queueReader() thread
  held,         \* the frame each reader is handling
  published,    \* bound counter and id source of notifications
  cmds          \* bound counter of console commands

vars == <<alive, fRun, filters, trace_filter, INBOX, base_msgId, connected,
          closed, quit, sock, inpQueue, unfinished, rpc, qpc, held, published,
          cmds>>

RunPC    == {"idle", "start", "loop", "poll", "thresh", "clrTrace", "clrFilters", "end", "join",
             "tjoin", "done"}
ReaderPC == {"idle", "get", "purge", "process", "done"}

-----------------------------------------------------------------------------
(* Listener bookkeeping, as functions of the current state.                 *)

(* registerNotifType: add to filters and create an empty inbox entry.      *)
RegisteredInbox(t) == IF t \in DOMAIN INBOX THEN INBOX ELSE INBOX @@ (t :> <<>>)

(* stop(): INBOX = {}; fRun = False.                                        *)
EmptyInbox == [t \in {} |-> <<>>]

(* Mutation: the inbox entry is left to processNotif to create.           *)
registerNotifType_noInbox(t) ==
  /\ filters' = filters \cup {t}
  /\ INBOX' = INBOX

(* registerNotifType(t) (idempotent).                                      *)
registerNotifType(t) ==
  /\ filters' = filters \cup {t}
  /\ INBOX' = RegisteredInbox(t)

(* unregisterNotifType(t) for a t in filters: remove it from filters, then *)
(* `del INBOX[t]`, which raises KeyError when the entry is gone: the inbox *)
(* after the del, and whether it raised.                                   *)
unregisterNotifType(t) ==
  [raised |-> t \notin DOMAIN INBOX, inbox |-> Restrict(INBOX, DOMAIN INBOX \ {t})]

(* stopListener: stop() only when isRunning(); the inbox after it.  Its    *)
(* fRun is FALSE either way.                                                *)
stopListener(inbox) == IF fRun THEN EmptyInbox ELSE inbox

(* subscribeToSpecificNotifType / subscribeListener: start a thread on      *)
(* run() when isRunning() is False.  A pair of Runs that was never used is *)
(* taken; when none is left the command is outside the model's bound.      *)
StartRunIfStopped ==
  IF fRun THEN UNCHANGED rpc
  ELSE \E r \in Runs : /\ rpc[r] = "idle"
                       /\ rpc' = [rpc EXCEPT ![r] = "start"]

ConsoleStep == alive /\ ~quit /\ cmds < MaxCmds /\ cmds' = cmds + 1

-----------------------------------------------------------------------------
(* Console commands (apc_console.CommandLineHandler).                       *)

(* subscribe <t>: the setLogLevel RPC it makes first only changes what the *)
(* server publishes, which the publisher's free choice already covers.     *)
subscribeToSpecificNotifType(t) ==
  /\ ConsoleStep
  /\ registerNotifType(t)
  /\ StartRunIfStopped
  /\ UNCHANGED <<alive, fRun, trace_filter, base_msgId, connected, closed, quit, sock,
                 inpQueue, unfinished, qpc, held, published>>

(* trace <t> on: subscribeListener(t), then enableTrace(t).                 *)
traceOn(t) ==
  /\ ConsoleStep
  /\ registerNotifType(t)
  /\ StartRunIfStopped
  /\ trace_filter' = trace_filter \cup {t}
  /\ UNCHANGED <<alive, fRun, base_msgId, connected, closed, quit, sock,
                 inpQueue, unfinished, qpc, held, published>>

(* trace <t> off: disableTrace(t); a KeyError for an untraced t is ignored. *)
traceOff(t) ==
  /\ ConsoleStep
  /\ trace_filter' = trace_filter \ {t}
  /\ UNCHANGED <<alive, fRun, filters, INBOX, base_msgId, connected, closed, quit, sock,
                 inpQueue, unfinished, rpc, qpc, held, published>>

(* trace all on: enableTraceAll (no subscription, no thread start);       *)
(* trace all off: disableTrace() with no name empties the trace set.       *)
traceAll(on) ==
  /\ ConsoleStep
  /\ trace_filter' = IF on THEN Types ELSE {}
  /\ UNCHANGED <<alive, fRun, filters, INBOX, base_msgId, connected, closed, quit, sock,
                 inpQueue, unfinished, rpc, qpc, held, published>>

(* unsubscribe <t> for a registered t: unregisterNotifType removes t from *)
(* filters, then `del INBOX[t]`, which raises KeyError when the entry is   *)
(* gone; the exception skips the stop.  Otherwise, if no filter is left,   *)
(* stopListener calls stop() when the listener is running.  For t not in  *)
(* filters the command only prints an error and changes nothing.           *)
unsubscribe(t) ==
  LET del   == unregisterNotifType(t)
      stops == ~del.raised /\ filters = {t}
  IN /\ ConsoleStep
     /\ t \in filters
     /\ filters' = filters \ {t}
     /\ INBOX' = IF stops THEN stopListener(del.inbox) ELSE del.inbox
     /\ fRun' = (fRun /\ ~stops)
     /\ UNCHANGED <<alive, trace_filter, base_msgId, connected, closed, quit, sock,
                    inpQueue, unfinished, rpc, qpc, held, published>>

(* stop / unsubscribe all: unsubscribeAllListeners unregisters every type  *)
(* (KeyErrors ignored), leaving filters empty, then stops a running        *)
(* listener.                                                                *)
unsubscribeAllListeners ==
  /\ ConsoleStep
  /\ filters' = {}
  /\ INBOX' = stopListener(Restrict(INBOX, DOMAIN INBOX \ filters))
  /\ fRun' = FALSE
  /\ UNCHANGED <<alive, trace_filter, base_msgId, connected, closed, quit, sock,
                 inpQueue, unfinished, rpc, qpc, held, published>>

(* quit: main() ends with log_console.close(): stop(), then the SUB socket *)
(* is closed if it was ever created.  No command follows.                   *)
close ==
  /\ ConsoleStep
  /\ INBOX' = EmptyInbox
  /\ fRun' = FALSE
  /\ closed' = connected
  /\ quit' = TRUE
  /\ UNCHANGED <<alive, filters, trace_filter, base_msgId, connected, sock,
                 inpQueue, unfinished, rpc, qpc, held, published>>

-----------------------------------------------------------------------------
(* The publisher (the APC's log endpoint).  A SUB socket only receives     *)
(* while it exists; frames sent before _connect are not seen by anyone.    *)
(* zmq's receive high-water mark (1000) is beyond MaxMsgs.                 *)
Publish(t, sev, ok) ==
  /\ alive /\ connected /\ ~closed
  /\ published < MaxMsgs
  /\ ok \/ Malformed
  /\ published' = published + 1
  /\ sock' = Append(sock, [id |-> published + 1, type |-> t, severe |-> sev, ok |-> ok])
  /\ UNCHANGED <<alive, fRun, filters, trace_filter, INBOX, base_msgId, connected,
                 closed, quit, inpQueue, unfinished, rpc, qpc, held, cmds>>

-----------------------------------------------------------------------------
(* Listener.run, executed by thread r.                                     *)

Put(q, x) == q' = Append(q, x) /\ unfinished' = unfinished + 1

(* _connect() creates the SUB socket only if there is none; fRun = True;   *)
(* the queueReader thread is started.                                       *)
runStart(r) ==
  /\ alive /\ rpc[r] = "start"
  /\ connected' = TRUE
  /\ fRun' = TRUE
  /\ rpc' = [rpc EXCEPT ![r] = "loop"]
  /\ qpc' = [qpc EXCEPT ![r] = "get"]
  /\ UNCHANGED <<alive, filters, trace_filter, INBOX, base_msgId, closed, quit, sock,
                 inpQueue, unfinished, held, published, cmds>>

(* while self.fRun:                                                         *)
runLoop(r) ==
  /\ alive /\ rpc[r] = "loop"
  /\ rpc' = [rpc EXCEPT ![r] = IF fRun THEN "poll" ELSE "end"]
  /\ UNCHANGED <<alive, fRun, filters, trace_filter, INBOX, base_msgId, connected,
                 closed, quit, sock, inpQueue, unfinished, qpc, held, published, cmds>>

(* Mutation: the hard-limit test written `qsize() > inpq_max_size`.       *)
runPoll_gt(r) ==
  /\ alive /\ rpc[r] = "poll" /\ ~closed
  /\ sock # <<>>
  /\ IF ~fRun
       THEN /\ rpc' = [rpc EXCEPT ![r] = "loop"]
            /\ UNCHANGED <<alive, sock, inpQueue, unfinished>>
       ELSE /\ sock' = Tail(sock)
            /\ IF Len(inpQueue) > inpq_max_size
                 THEN /\ alive' = FALSE
                      /\ UNCHANGED <<rpc, inpQueue, unfinished>>
                 ELSE /\ alive' = TRUE
                      /\ Put(inpQueue, Head(sock))
                      /\ rpc' = [rpc EXCEPT ![r] = "thresh"]
  /\ UNCHANGED <<fRun, filters, trace_filter, INBOX, base_msgId, connected,
                 closed, quit, qpc, held, published, cmds>>

(* poller.poll() (no timeout: it returns only when a frame is ready); then *)
(* if fRun is still set, recv_multipart and the hard limit: a full queue   *)
(* is fatalQueueError, os._exit(1); otherwise put.  If fRun is clear the   *)
(* frame stays in the socket and the loop test runs again.                  *)
runPoll(r) ==
  /\ alive /\ rpc[r] = "poll" /\ ~closed
  /\ sock # <<>>
  /\ IF ~fRun
       THEN /\ rpc' = [rpc EXCEPT ![r] = "loop"]
            /\ UNCHANGED <<alive, sock, inpQueue, unfinished>>
       ELSE /\ sock' = Tail(sock)
            /\ IF Len(inpQueue) >= inpq_max_size
                 THEN /\ alive' = FALSE
                      /\ UNCHANGED <<rpc, inpQueue, unfinished>>
                 ELSE /\ alive' = TRUE
                      /\ Put(inpQueue, Head(sock))
                      /\ rpc' = [rpc EXCEPT ![r] = "thresh"]
  /\ UNCHANGED <<fRun, filters, trace_filter, INBOX, base_msgId, connected,
                 closed, quit, qpc, held, published, cmds>>

(* poll on a socket closed by Listener.close raises ZMQError; it is only  *)
(* reported (fatalZMQError) and the loop goes on.                           *)
runPollError(r) ==
  /\ alive /\ rpc[r] = "poll" /\ closed
  /\ rpc' = [rpc EXCEPT ![r] = "loop"]
  /\ UNCHANGED <<alive, fRun, filters, trace_filter, INBOX, base_msgId, connected,
                 closed, quit, sock, inpQueue, unfinished, qpc, held, published, cmds>>

(* Soft limit, when qsize() >= inpq_threshold: limitQueueError, if either *)
(* subscription set is non-empty, prints the error with the subscribed    *)
(* names (getSubscribedNotifs is filters), then sets trace_filter and     *)
(* filters to new empty sets, one statement each.  The print is I/O and   *)
(* lets the console thread run between the report and the clears.         *)
limitQueueError(r) ==
  /\ alive /\ rpc[r] = "thresh"
  /\ IF Len(inpQueue) >= inpq_threshold /\ (trace_filter # {} \/ filters # {})
       THEN rpc' = [rpc EXCEPT ![r] = "clrTrace"]
       ELSE rpc' = [rpc EXCEPT ![r] = "loop"]
  /\ UNCHANGED <<alive, fRun, filters, trace_filter, INBOX, base_msgId, connected, closed,
                 quit, sock, inpQueue, unfinished, qpc, held, published, cmds>>

(* self.trace_filter = set()                                                *)
limitClearTrace(r) ==
  /\ alive /\ rpc[r] = "clrTrace"
  /\ trace_filter' = {}
  /\ rpc' = [rpc EXCEPT ![r] = "clrFilters"]
  /\ UNCHANGED <<alive, fRun, filters, INBOX, base_msgId, connected, closed, quit, sock,
                 inpQueue, unfinished, qpc, held, published, cmds>>

(* self.filters = set(), then back to the loop test.                        *)
limitClearFilters(r) ==
  /\ alive /\ rpc[r] = "clrFilters"
  /\ filters' = {}
  /\ rpc' = [rpc EXCEPT ![r] = "loop"]
  /\ UNCHANGED <<alive, fRun, trace_filter, INBOX, base_msgId, connected, closed, quit, sock,
                 inpQueue, unfinished, qpc, held, published, cmds>>

(* After the loop: put QueueEnd, inpQueue.join() (wait until every put has *)
(* had its task_done), t.join() (wait for this run's reader).              *)
runPutEnd(r) ==
  /\ alive /\ rpc[r] = "end"
  /\ Put(inpQueue, QueueEnd)
  /\ rpc' = [rpc EXCEPT ![r] = "join"]
  /\ UNCHANGED <<alive, fRun, filters, trace_filter, INBOX, base_msgId, connected,
                 closed, quit, sock, qpc, held, published, cmds>>

runJoinQueue(r) ==
  /\ alive /\ rpc[r] = "join"
  /\ unfinished = 0
  /\ rpc' = [rpc EXCEPT ![r] = "tjoin"]
  /\ UNCHANGED <<alive, fRun, filters, trace_filter, INBOX, base_msgId, connected,
                 closed, quit, sock, inpQueue, unfinished, qpc, held, published, cmds>>

runJoinReader(r) ==
  /\ alive /\ rpc[r] = "tjoin"
  /\ qpc[r] = "done"
  /\ rpc' = [rpc EXCEPT ![r] = "done"]
  /\ UNCHANGED <<alive, fRun, filters, trace_filter, INBOX, base_msgId, connected,
                 closed, quit, sock, inpQueue, unfinished, qpc, held, published, cmds>>

-----------------------------------------------------------------------------
(* Listener.queueReader and handleNotif, executed by reader r.             *)

(* Mutation: QueueEnd breaks the loop without task_done.                   *)
readerGet_noTaskDoneOnEnd(r) ==
  LET m == Head(inpQueue) IN
  /\ alive /\ qpc[r] = "get"
  /\ inpQueue # <<>>
  /\ inpQueue' = Tail(inpQueue)
  /\ IF m = QueueEnd \/ ~fRun
       THEN /\ unfinished' = IF m = QueueEnd THEN unfinished ELSE unfinished - 1
            /\ qpc' = [qpc EXCEPT ![r] = IF m = QueueEnd THEN "done" ELSE "get"]
            /\ UNCHANGED held
       ELSE /\ qpc' = [qpc EXCEPT ![r] = "purge"]
            /\ held' = [held EXCEPT ![r] = m]
            /\ UNCHANGED unfinished
  /\ UNCHANGED <<alive, fRun, filters, trace_filter, INBOX, base_msgId, connected,
                 closed, quit, sock, rpc, published, cmds>>

(* Mutation: inpQueue built as a LifoQueue.                                *)
readerGet_lifo(r) ==
  LET m == inpQueue[Len(inpQueue)] IN
  /\ alive /\ qpc[r] = "get"
  /\ inpQueue # <<>>
  /\ inpQueue' = SubSeq(inpQueue, 1, Len(inpQueue) - 1)
  /\ IF m = QueueEnd \/ ~fRun
       THEN /\ unfinished' = unfinished - 1
            /\ qpc' = [qpc EXCEPT ![r] = IF m = QueueEnd THEN "done" ELSE "get"]
            /\ UNCHANGED held
       ELSE /\ qpc' = [qpc EXCEPT ![r] = "purge"]
            /\ held' = [held EXCEPT ![r] = m]
            /\ UNCHANGED unfinished
  /\ UNCHANGED <<alive, fRun, filters, trace_filter, INBOX, base_msgId, connected,
                 closed, quit, sock, rpc, published, cmds>>

(* input_msg = inpQueue.get() (blocks while empty).  QueueEnd: task_done   *)
(* and exit.  Otherwise the frame is handled only if fRun is set; a frame  *)
(* skipped is task_done at once.                                            *)
readerGet(r) ==
  LET m == Head(inpQueue) IN
  /\ alive /\ qpc[r] = "get"
  /\ inpQueue # <<>>
  /\ inpQueue' = Tail(inpQueue)
  /\ IF m = QueueEnd \/ ~fRun
       THEN /\ unfinished' = unfinished - 1
            /\ qpc' = [qpc EXCEPT ![r] = IF m = QueueEnd THEN "done" ELSE "get"]
            /\ UNCHANGED held
       ELSE /\ qpc' = [qpc EXCEPT ![r] = "purge"]
            /\ held' = [held EXCEPT ![r] = m]
            /\ UNCHANGED unfinished
  /\ UNCHANGED <<alive, fRun, filters, trace_filter, INBOX, base_msgId, connected,
                 closed, quit, sock, rpc, published, cmds>>

(* Mutation: the purge test written `len(...) > INBOX_SIZE`.               *)
purgeInbox_whenOver(r) ==
  LET t == held[r].type IN
  /\ alive /\ qpc[r] = "purge"
  /\ IF t \in DOMAIN INBOX /\ Len(INBOX[t]) > INBOX_SIZE
       THEN /\ INBOX' = [INBOX EXCEPT ![t] = Tail(@)]
            /\ base_msgId' = base_msgId + 1
       ELSE UNCHANGED <<INBOX, base_msgId>>
  /\ qpc' = [qpc EXCEPT ![r] = "process"]
  /\ UNCHANGED <<alive, fRun, filters, trace_filter, connected, closed, quit, sock,
                 inpQueue, unfinished, rpc, held, published, cmds>>

(* purgeInbox(notif_id): if the type's entry holds INBOX_SIZE records, drop *)
(* the oldest and count it in base_msgId.  (deserialize_notifid of the     *)
(* LogConsole returns frame 0 and cannot fail.)                              *)
purgeInbox(r) ==
  LET t == held[r].type IN
  /\ alive /\ qpc[r] = "purge"
  /\ IF t \in DOMAIN INBOX /\ Len(INBOX[t]) = INBOX_SIZE
       THEN /\ INBOX' = [INBOX EXCEPT ![t] = Tail(@)]
            /\ base_msgId' = base_msgId + 1
       ELSE UNCHANGED <<INBOX, base_msgId>>
  /\ qpc' = [qpc EXCEPT ![r] = "process"]
  /\ UNCHANGED <<alive, fRun, filters, trace_filter, connected, closed, quit, sock,
                 inpQueue, unfinished, rpc, held, published, cmds>>

(* Mutation: task_done called both in handleNotif and in queueReader.     *)
processNotif_doubleTaskDone(r) ==
  LET m    == held[r]
      t    == m.type
      keep == m.ok /\ (t \in filters \/ m.severe)
  IN
  /\ alive /\ qpc[r] = "process"
  /\ INBOX' = IF ~keep THEN INBOX
               ELSE [x \in DOMAIN INBOX \cup {t} |->
                       IF x = t THEN Append(IF t \in DOMAIN INBOX THEN INBOX[t] ELSE <<>>, m)
                       ELSE INBOX[x]]
  /\ unfinished' = unfinished - 2
  /\ qpc' = [qpc EXCEPT ![r] = "get"]
  /\ held' = [held EXCEPT ![r] = NoMsg]
  /\ UNCHANGED <<alive, fRun, filters, trace_filter, base_msgId, connected, closed, quit,
                 sock, inpQueue, rpc, published, cmds>>

(* LogConsole.processNotif: a frame that does not parse raises, and        *)
(* handleNotif only reports it.  A record is kept when its type is         *)
(* subscribed or it is severe, in an entry created on demand; the trace    *)
(* callback only prints.  Then task_done.                                   *)
processNotif(r) ==
  LET m    == held[r]
      t    == m.type
      keep == m.ok /\ (t \in filters \/ m.severe)
  IN
  /\ alive /\ qpc[r] = "process"
  /\ INBOX' = IF ~keep THEN INBOX
               ELSE [x \in DOMAIN INBOX \cup {t} |->
                       IF x = t THEN Append(IF t \in DOMAIN INBOX THEN INBOX[t] ELSE <<>>, m)
                       ELSE INBOX[x]]
  /\ unfinished' = unfinished - 1
  /\ qpc' = [qpc EXCEPT ![r] = "get"]
  /\ held' = [held EXCEPT ![r] = NoMsg]
  /\ UNCHANGED <<alive, fRun, filters, trace_filter, base_msgId, connected, closed, quit,
                 sock, inpQueue, rpc, published, cmds>>

-----------------------------------------------------------------------------

Init ==
  /\ alive = TRUE
  /\ fRun = FALSE
  /\ filters = {}
  /\ trace_filter = {}
  /\ INBOX = EmptyInbox
  /\ base_msgId = 0
  /\ connected = FALSE
  /\ closed = FALSE
  /\ quit = FALSE
  /\ sock = <<>>
  /\ inpQueue = <<>>
  /\ unfinished = 0
  /\ rpc = [r \in Runs |-> "idle"]
  /\ qpc = [r \in Runs |-> "idle"]
  /\ held = [r \in Runs |-> NoMsg]
  /\ published = 0
  /\ cmds = 0

Console ==
  \/ \E t \in Types : subscribeToSpecificNotifType(t)
  \/ \E t \in Types : traceOn(t)
  \/ \E t \in Types : traceOff(t)
  \/ \E on \in BOOLEAN : traceAll(on)
  \/ \E t \in Types : unsubscribe(t)
  \/ unsubscribeAllListeners
  \/ close

RunThread(r) ==
  \/ runStart(r) \/ runLoop(r) \/ runPoll(r) \/ runPollError(r)
  \/ limitQueueError(r) \/ limitClearTrace(r) \/ limitClearFilters(r)
  \/ runPutEnd(r) \/ runJoinQueue(r) \/ runJoinReader(r)

ReaderThread(r) == readerGet(r) \/ purgeInbox(r) \/ processNotif(r)

Next ==
  \/ Console
  \/ \E t \in Types, sev \in BOOLEAN, ok \in BOOLEAN : Publish(t, sev, ok)
  \/ \E r \in Runs : RunThread(r) \/ ReaderThread(r)

(* The threads of the process are scheduled fairly by the interpreter; the *)
(* user and the publisher are not obliged to do anything.                   *)
Fairness == \A r \in Runs : WF_vars(RunThread(r)) /\ WF_vars(ReaderThread(r))

Spec == Init /\ [][Next]_vars /\ Fairness

-----------------------------------------------------------------------------
(* Properties.                                                              *)

TypeOK ==
  /\ alive \in BOOLEAN /\ fRun \in BOOLEAN /\ connected \in BOOLEAN
  /\ closed \in BOOLEAN /\ quit \in BOOLEAN
  /\ filters \subseteq Types /\ trace_filter \subseteq Types
  /\ DOMAIN INBOX \subseteq Types
  /\ \A t \in DOMAIN INBOX : INBOX[t] \in Seq(Msg)
  /\ base_msgId \in Nat
  /\ sock \in Seq(Msg)
  /\ inpQueue \in Seq(Msg \cup {QueueEnd})
  /\ unfinished \in Nat
  /\ rpc \in [Runs -> RunPC] /\ qpc \in [Runs -> ReaderPC]
  /\ held \in [Runs -> Msg \cup {NoMsg}]
  /\ published \in 0..MaxMsgs /\ cmds \in 0..MaxCmds

(* purgeInbox keeps every inbox entry within INBOX_SIZE records: it drops  *)
(* the oldest record exactly when the entry is full, before processNotif   *)
(* appends.  The test is `== INBOX_SIZE`, so once an entry is over the     *)
(* limit it is never purged again.                                          *)
InboxBounded == \A t \in DOMAIN INBOX : Len(INBOX[t]) <= INBOX_SIZE

(* Each inbox entry lists its records in the order the publisher sent      *)
(* them: the SUB socket, run() and inpQueue are FIFO and the reader        *)
(* appends in the order it pops.                                            *)
InboxInArrivalOrder ==
  \A t \in DOMAIN INBOX : \A i \in 1..(Len(INBOX[t]) - 1) :
    INBOX[t][i].id < INBOX[t][i + 1].id

(* run() never lets inpQueue hold more than inpq_max_size frames: a frame  *)
(* that would exceed it ends the process (fatalQueueError) instead.        *)
QueueWithinHardLimit ==
  Len(SelectSeq(inpQueue, LAMBDA x : x # QueueEnd)) <= inpq_max_size

(* A run() that has left its loop finishes: the queue drains, its reader   *)
(* meets QueueEnd and both joins return (unless the process exited).       *)
RunTerminates ==
  \A r \in Runs : rpc[r] = "end" ~> (rpc[r] = "done" \/ ~alive)

(* unregisterNotifType never meets a subscribed logger without its inbox   *)
(* entry, so the KeyError that makes do_unsubscribe skip stopListener     *)
(* cannot happen: every subscribed logger keeps its entry through soft     *)
(* overflows, stop() by another command, readers that recreate entries    *)
(* and unsubscribe all, until quit's close() clears the inbox.            *)
SubscribedHaveInbox == ~quit => filters \subseteq DOMAIN INBOX

=============================================================================
