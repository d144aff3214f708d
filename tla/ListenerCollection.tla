------------------------- MODULE ListenerCollection -------------------------
(***************************************************************************)
(* ListenerCollection (listener.py): the registry from a process name to  *)
(* the list of (listener, listener type) pairs it hosts, and its lookups.  *)
(*                                                                         *)
(* listenerDict is a Python 2 dict: values() visits the process names in  *)
(* an order fixed by their string hashes, not by insertion, so each scan  *)
(* over all processes picks any order of the keys.  added is a history   *)
(* variable: every (process, listener, type) added, in order.             *)
(***************************************************************************)
EXTENDS Naturals, Sequences, SequencesExt

CONSTANTS
    Owners,         \* process names
    Listeners,      \* listener objects
    Tags,           \* ListenerType values
    NotifTypes,     \* notification type names
    TypesOf,        \* TypesOf[l]: what listener l.getNotifTypes() returns
    MaxAdds,        \* bound on addListeners calls
    None

ASSUME TypesOf \in [Listeners -> SUBSET NotifTypes] /\ None \notin Owners \cup Listeners

Pair == Listeners \X Tags

VARIABLES
    listenerDict,   \* self.listenerDict: process name -> list of pairs
      added,          \* history: <<process, listener, type>> in order of adding
    ret             \* the last lookup: operation, arguments, result

vars == <<listenerDict, added, ret>>

Keys == DOMAIN listenerDict

\* The lists addListeners is given: empty, or one pair.
ListArgs == {<<>>} \cup {<<p>> : p \in Pair}

TypeOK ==
    /\ Keys \subseteq Owners
    /\ \A o \in Keys : listenerDict[o] \in Seq(Pair)
    /\ added \in Seq(Owners \X Listeners \X Tags) /\ Len(added) <= MaxAdds
    /\ ret = None \/ ret.exc \in {"none", "KeyError"}

Init ==
    /\ listenerDict = <<>>          \* dict(): the empty function
    /\ added = <<>>
    /\ ret = None

\* Mutant: assignment instead of +=, the owner's earlier listeners lost.
addListeners_replace(o, ls) ==
    /\ Len(added) < MaxAdds
    /\ listenerDict' = (o :> ls) @@ listenerDict
    /\ added' = added \o [i \in DOMAIN ls |-> <<o, ls[i][1], ls[i][2]>>]
    /\ UNCHANGED ret

\* Mutant: listenerDict[o].append(listeners), the list nested as one item.
addListeners_append(o, ls) ==
    /\ Len(added) < MaxAdds
    /\ listenerDict' = IF o \in Keys THEN [listenerDict EXCEPT ![o] = Append(@, ls)]
                       ELSE (o :> <<ls>>) @@ listenerDict
    /\ added' = added \o [i \in DOMAIN ls |-> <<o, ls[i][1], ls[i][2]>>]
    /\ UNCHANGED ret

\* addListeners: create the owner's list if absent, then append.
addListeners(o, ls) ==
    /\ Len(added) < MaxAdds
    /\ listenerDict' = IF o \in Keys THEN [listenerDict EXCEPT ![o] = @ \o ls]
                       ELSE (o :> ls) @@ listenerDict
    /\ added' = added \o [i \in DOMAIN ls |-> <<o, ls[i][1], ls[i][2]>>]
    /\ UNCHANGED ret

\* Mutant: the loop keeps going and returns the last match.
getListener_last(t, list) ==
    LET j == SelectLastInSeq(list, LAMBDA p : t \in TypesOf[p[1]])
    IN  IF j = 0 THEN None ELSE list[j][1]

\* getListener: the first listener of the list that provides type t.
getListener(t, list) ==
    LET j == SelectInSeq(list, LAMBDA p : t \in TypesOf[p[1]])
    IN  IF j = 0 THEN None ELSE list[j][1]

\* Every order in which values() may visit the keys.
ValuesOrders == SetToSeqs(Keys)

\* A lookup's record; nAdded marks how much history it saw.
Lookup(op, args, res, exc) == [op |-> op, args |-> args, res |-> res, exc |-> exc,
                               nAdded |-> Len(added)]

\* getListenerByNotifType(t): the first owner, in values() order, whose
\* list has a listener for t.
getListenerByNotifTypeAll(t) ==
    /\ \E ord \in ValuesOrders :
         LET j == SelectInSeq(ord, LAMBDA o : getListener(t, listenerDict[o]) # None)
         IN  ret' = Lookup("byType", <<t, None>>,
                           IF j = 0 THEN None ELSE getListener(t, listenerDict[ord[j]]), "none")
    /\ UNCHANGED <<listenerDict, added>>

\* getListenerByNotifType(t, o): self.listenerDict[o] raises KeyError for
\* a process name never added.
getListenerByNotifTypeOf(t, o) ==
    /\ ret' = IF o \in Keys THEN Lookup("byType", <<t, o>>, getListener(t, listenerDict[o]), "none")
              ELSE Lookup("byType", <<t, o>>, None, "KeyError")
    /\ UNCHANGED <<listenerDict, added>>

\* getListenerType(l): the type of the first pair holding l, scanning in
\* values() order.
getListenerType(l) ==
    /\ \E ord \in ValuesOrders :
         LET flat == FlattenSeq([i \in DOMAIN ord |-> listenerDict[ord[i]]])
             j    == SelectInSeq(flat, LAMBDA p : p[1] = l)
         IN  ret' = Lookup("type", <<l>>, IF j = 0 THEN None ELSE flat[j][2], "none")
    /\ UNCHANGED <<listenerDict, added>>

\* getAllListeners: every listener of every list, in values() order.
getAllListeners ==
    /\ \E ord \in ValuesOrders :
         LET flat == FlattenSeq([i \in DOMAIN ord |-> listenerDict[ord[i]]])
         IN  ret' = Lookup("all", <<>>, [i \in DOMAIN flat |-> flat[i][1]], "none")
    /\ UNCHANGED <<listenerDict, added>>

\* getListenerByProcess(o, tag): the owner's listeners, of type tag when
\* one is given; KeyError for an unknown process name.
getListenerByProcess(o, tag) ==
    /\ ret' = IF o \notin Keys THEN Lookup("byProcess", <<o, tag>>, None, "KeyError")
              ELSE LET sel == IF tag = None THEN listenerDict[o]
                              ELSE SelectSeq(listenerDict[o], LAMBDA p : p[2] = tag)
                   IN  Lookup("byProcess", <<o, tag>>, [i \in DOMAIN sel |-> sel[i][1]], "none")
    /\ UNCHANGED <<listenerDict, added>>

Next ==
    \/ \E o \in Owners, ls \in ListArgs : addListeners(o, ls)
    \/ \E t \in NotifTypes : getListenerByNotifTypeAll(t)
    \/ \E t \in NotifTypes, o \in Owners : getListenerByNotifTypeOf(t, o)
    \/ \E l \in Listeners : getListenerType(l)
    \/ getAllListeners
    \/ \E o \in Owners, tag \in Tags \cup {None} : getListenerByProcess(o, tag)

Spec == Init /\ [][Next]_vars

(***************************************************************************)
(* Properties, stated over the history of addListeners calls.             *)
(***************************************************************************)

\* What spec.md 4.3 says a lookup returns: the first listener providing t,
\* scanning the owners in insertion order and each owner's list in order.
FirstProvider(t, adds) ==
    LET j == SelectInSeq(adds, LAMBDA a : t \in TypesOf[a[2]])
    IN  IF j = 0 THEN None ELSE adds[j][2]

\* The addListeners history as the last lookup saw it.
Seen   == SubSeq(added, 1, ret.nAdded)

AddsOf(o) == SelectSeq(Seen, LAMBDA a : a[1] = o)

\* A lookup of type t in one process's list returns the first listener
\* added to that process, over all its addListeners calls, that provides t.
OwnerLookupFindsFirst ==
    ret # None /\ ret.op = "byType" /\ ret.args[2] # None /\ ret.exc = "none" =>
        ret.res = FirstProvider(ret.args[1], AddsOf(ret.args[2]))

\* getAllListeners returns every listener ever added, as often as added.
AllListenersComplete ==
    ret # None /\ ret.op = "all" =>
        ToBag(ret.res) = ToBag([i \in DOMAIN Seen |-> Seen[i][2]])

=============================================================================
