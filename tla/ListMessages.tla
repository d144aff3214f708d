---------------------------- MODULE ListMessages ----------------------------
(***************************************************************************)
(* Listener.parseArgs and Listener.listMessages (listener.py): the history  *)
(* query over one notification type's INBOX.  Both are pure functions of   *)
(* the arguments, the INBOX entry and base_msgId, and are written here as  *)
(* operators; the loop of listMessages, with its continue and break, is a  *)
(* RECURSIVE operator.                                                     *)
(*                                                                         *)
(* The driver delivers notifications of one subscribed type (purgeInbox,   *)
(* then the append of processNotif) and, between deliveries, calls         *)
(* listMessages with every argument list.  Records are their delivery     *)
(* number, so a record's absolute index is the record itself.             *)
(***************************************************************************)
EXTENDS Integers, Sequences

CONSTANTS
    INBOX_SIZE,     \* Listener.INBOX_SIZE
    PageSize,       \* Listener.NUM_LINES_X_PAGE
    Ints,           \* integers an argument may spell
    NotInt,         \* an argument that int() rejects
    MaxDeliveries,  \* bound on deliveries
    QueryTypes,     \* types listMessages is asked about
    PrintFlags,     \* values of the fPrint argument callers pass
    Registered,     \* the registered type (in self.INBOX)
    NoRet

ASSUME Registered \in QueryTypes /\ NotInt \notin Ints /\ PrintFlags \subseteq BOOLEAN

\* args[0].upper(): the four keywords, and any other word.
Modes == {"ALL", "LAST", "PAGE", "RANGE", "OTHER"}
Word  == Ints \cup {NotInt}

\* The argument lists of a console line: none, a mode, a mode and one or
\* two words.  (Longer lists take the same branches as three words.)
Args == {<<>>} \cup {<<m>> : m \in Modes}
                \cup {<<m, x>> : m \in Modes, x \in Word}
                \cup {<<m, x, y>> : m \in Modes, x \in Word, y \in Word}

Min2(a, b) == IF a <= b THEN a ELSE b
Max2(a, b) == IF a >= b THEN a ELSE b

(***************************************************************************)
(* parseArgs: [first, last) of the loop, or the exception it raises.      *)
(***************************************************************************)
Ok(f, l, m) == [err |-> "none", first |-> f, last |-> l, mode |-> m]
Raise(e)    == [err |-> e, first |-> 0, last |-> 0, mode |-> "OTHER"]

parseArgs(args, n) ==
    IF args = <<>> THEN Raise("IndexError")            \* args[0]
    ELSE LET m == args[1] IN
    CASE m = "ALL"   -> IF Len(args) # 1 THEN Raise("ValueError") ELSE Ok(0, n, m)
      [] m = "LAST"  -> IF Len(args) # 2 THEN Raise("ValueError")
                        ELSE IF args[2] \notin Ints THEN Raise("IndexError")  \* bare except
                        ELSE IF args[2] <= n THEN Ok(n - args[2], n, m)
                        ELSE Ok(0, n, m)
      [] m = "PAGE"  -> IF Len(args) # 2 THEN Raise("ValueError")
                        ELSE IF args[2] \notin Ints THEN Raise("ValueError")
                        ELSE IF args[2] <= 0 THEN Raise("IndexError")
                        ELSE Ok((args[2] - 1) * PageSize, Min2(args[2] * PageSize, n), m)
      [] m = "RANGE" -> IF Len(args) # 3 THEN Raise("ValueError")
                        ELSE IF {args[2], args[3]} \subseteq Ints
                             THEN Ok(args[2] - 1, args[3], m)
                             ELSE Raise("ValueError")
      [] OTHER       -> Raise("ValueError")

(***************************************************************************)
(* listMessages.                                                           *)
(***************************************************************************)

\* Python's s[q]: negative q counts from the end; anything else outside the
\* list raises IndexError.
PyIndexOk(s, q) == -Len(s) <= q /\ q < Len(s)
PyIndex(s, q)   == IF q >= 0 THEN s[q + 1] ELSE s[Len(s) + q + 1]

\* for i in range(first, last).  With fPrint and RANGE, queueIndex is
\* rangeIndex - base_msgId: skipped (continue) below the inbox, loop left
\* (break) at its end.  Otherwise queueIndex is i, uncorrected.
RECURSIVE listLoop(_, _, _, _, _, _, _, _)
listLoop(inbox, base, mode, fPrint, i, last, rangeIndex, out) ==
    IF i >= last THEN [exc |-> "none", msgs |-> out]
    ELSE IF fPrint /\ mode = "RANGE"
    THEN LET q == rangeIndex - base IN
         IF q < 0 THEN listLoop(inbox, base, mode, fPrint, i + 1, last, rangeIndex + 1, out)
         ELSE IF q >= Len(inbox) THEN [exc |-> "none", msgs |-> out]
         ELSE listLoop(inbox, base, mode, fPrint, i + 1, last, rangeIndex + 1,
                       Append(out, inbox[q + 1]))
    ELSE IF ~PyIndexOk(inbox, i) THEN [exc |-> "IndexError", msgs |-> out]
    ELSE listLoop(inbox, base, mode, fPrint, i + 1, last, rangeIndex,
                  Append(out, PyIndex(inbox, i)))

\* The (rc, msgs) returned, or the exception that escapes.  A type with no
\* INBOX entry raises KeyError, whose handler reads the unbound name exc.
RcOf == [IndexError |-> 1, ValueError |-> 2]

listMessages(args, present, inbox, base, fPrint) ==
    LET p == parseArgs(args, Len(inbox)) IN
    CASE ~present                 -> [exc |-> "UnboundLocalError", rc |-> 0, msgs |-> <<>>]
      [] inbox = <<>> /\ fPrint   -> [exc |-> "none", rc |-> 0, msgs |-> <<>>]
      [] p.err # "none"           -> [exc |-> "none", rc |-> RcOf[p.err], msgs |-> <<>>]
      [] OTHER -> LET r == listLoop(inbox, base, p.mode, fPrint, p.first, p.last, p.first, <<>>)
                  IN  [exc |-> r.exc, rc |-> 0, msgs |-> r.msgs]

(***************************************************************************)
(* The driver.                                                             *)
(***************************************************************************)
VARIABLES
    inbox,          \* self.INBOX[Registered]
    base_msgId,     \* self.base_msgId
    delivered,      \* notifications of the type delivered so far
    ret             \* the last listMessages call: its inputs and result

vars == <<inbox, base_msgId, delivered, ret>>

Call == [args : Args, type : QueryTypes, fPrint : PrintFlags]

TypeOK ==
    /\ inbox \in Seq(0..MaxDeliveries - 1) /\ Len(inbox) <= INBOX_SIZE
    /\ base_msgId \in Nat /\ delivered \in 0..MaxDeliveries
    /\ ret \in {NoRet} \cup [call : Call, inbox : Seq(Nat), base : Nat,
                             res : [exc : {"none", "IndexError", "UnboundLocalError"},
                                    rc : {0, 1, 2}, msgs : Seq(Nat)]]

Init ==
    /\ inbox = <<>>
    /\ base_msgId = 0
    /\ delivered = 0
    /\ ret = NoRet

\* Mutant: purgeInbox evicts without counting the eviction.
deliver_noBase ==
    /\ delivered < MaxDeliveries
    /\ LET kept == IF Len(inbox) = INBOX_SIZE THEN Tail(inbox) ELSE inbox
       IN  inbox' = Append(kept, delivered)
    /\ delivered' = delivered + 1
    /\ UNCHANGED <<base_msgId, ret>>

\* Mutant: purgeInbox tests `len(...) > INBOX_SIZE`.
deliver_purgeOver ==
    /\ delivered < MaxDeliveries
    /\ LET kept == IF Len(inbox) > INBOX_SIZE THEN Tail(inbox) ELSE inbox
       IN  inbox' = Append(kept, delivered)
    /\ base_msgId' = IF Len(inbox) > INBOX_SIZE THEN base_msgId + 1 ELSE base_msgId
    /\ delivered' = delivered + 1
    /\ UNCHANGED ret

\* handleNotif: purgeInbox drops the oldest record of a full inbox and
\* counts it in base_msgId; processNotif appends the new record.
deliver ==
    /\ delivered < MaxDeliveries
    /\ LET kept == IF Len(inbox) = INBOX_SIZE THEN Tail(inbox) ELSE inbox
       IN  inbox' = Append(kept, delivered)
    /\ base_msgId' = IF Len(inbox) = INBOX_SIZE THEN base_msgId + 1 ELSE base_msgId
    /\ delivered' = delivered + 1
    /\ UNCHANGED ret

query(c) ==
    /\ ret' = [call |-> c, inbox |-> inbox, base |-> base_msgId,
               res |-> listMessages(c.args, c.type = Registered, inbox, base_msgId, c.fPrint)]
    /\ UNCHANGED <<inbox, base_msgId, delivered>>

Next == deliver \/ \E c \in Call : query(c)

Spec == Init /\ [][Next]_vars

(***************************************************************************)
(* What spec.md (4.2, 7, 8) says a history query returns, over absolute    *)
(* indices: records are their absolute index.                              *)
(***************************************************************************)
Valid(args) ==
    \/ args = <<"ALL">>
    \/ Len(args) = 2 /\ args[1] = "LAST" /\ args[2] \in Ints
    \/ Len(args) = 2 /\ args[1] = "PAGE" /\ args[2] \in Ints /\ args[2] >= 1
    \/ Len(args) = 3 /\ args[1] = "RANGE" /\ {args[2], args[3]} \subseteq Ints

SpecList(args, s) ==
    LET n == Len(s) IN
    CASE ~Valid(args)      -> <<>>
      [] args[1] = "ALL"   -> s
      [] args[1] = "LAST"  -> SubSeq(s, n - Max2(0, Min2(args[2], n)) + 1, n)
      [] args[1] = "PAGE"  -> SubSeq(s, (args[2] - 1) * PageSize + 1, Min2(args[2] * PageSize, n))
      [] args[1] = "RANGE" -> SelectSeq(s, LAMBDA d : args[2] - 1 <= d /\ d <= args[3] - 1)

(***************************************************************************)
(* Properties.                                                             *)
(***************************************************************************)

\* Every listMessages call returns instead of raising, a well-formed query
\* succeeds, and what a successful call returns is what the spec says: the
\* whole inbox, the most recent n, page k, or the records whose absolute
\* index lies in a..b, with evicted indices skipped and none past the tail.
ListMessagesMeetsSpec ==
    ret # NoRet =>
        LET r == ret.res IN
        /\ r.exc = "none"
        /\ r.rc = 0 => r.msgs = SpecList(ret.call.args, ret.inbox)
        /\ Valid(ret.call.args) /\ ret.call.type = Registered => r.rc = 0

=============================================================================
