------------------------------ MODULE RpcCall ------------------------------
(***************************************************************************)
(* What a synchronous RPC client promises its caller, without sockets,     *)
(* pollers or servers: a call is either refused at once, or it is pending  *)
(* until it returns.  A return either raises an error (timeout, protocol,  *)
(* transport) or hands back a reply, and a reply handed back is the        *)
(* server's answer to the pending command, nothing else.                   *)
(***************************************************************************)
CONSTANTS
    Cmds,           \* command identifiers the caller may send
    NoCmd           \* no call pending / no answer

VARIABLES
    pending,        \* the command whose call has not returned, or NoCmd
    last            \* what the last call returned or raised

vars == <<pending, last>>

\* Outcomes that carry the server's answer (send_msg returns a value, or
\* raises RpcError with the server's result code) and those that do not.
AnswerKinds == {"ok", "rpcError"}
ErrorKinds  == {"timeout", "protocol", "indexError", "zmqError"}

Result == [cmd : Cmds \cup {NoCmd}, kind : AnswerKinds \cup ErrorKinds \cup {"none"},
           answer : Cmds \cup {NoCmd}]

NoResult == [cmd |-> NoCmd, kind |-> "none", answer |-> NoCmd]

TypeOK ==
    /\ pending \in Cmds \cup {NoCmd}
    /\ last \in Result

Init ==
    /\ pending = NoCmd
    /\ last = NoResult

\* The caller issues command c; it blocks until Return.
Call(c) ==
    /\ pending = NoCmd
    /\ pending' = c
    /\ UNCHANGED last

\* The call is refused before anything is sent.
Refuse(c) ==
    /\ pending = NoCmd
    /\ \E k \in ErrorKinds : last' = [cmd |-> c, kind |-> k, answer |-> NoCmd]
    /\ UNCHANGED pending

\* The pending call returns: an answer to exactly this command, or an error.
Return ==
    /\ pending # NoCmd
    /\ \/ \E k \in AnswerKinds : last' = [cmd |-> pending, kind |-> k, answer |-> pending]
       \/ \E k \in ErrorKinds : last' = [cmd |-> pending, kind |-> k, answer |-> NoCmd]
    /\ pending' = NoCmd

Next == (\E c \in Cmds : Call(c) \/ Refuse(c)) \/ Return

\* Safety only: a caller may stop calling; whether a pending call returns
\* is checked separately on the implementation.
Spec == Init /\ [][Next]_vars

=============================================================================
