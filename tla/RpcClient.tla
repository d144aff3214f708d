----------------------------- MODULE RpcClient -----------------------------
(***************************************************************************)
(* BaseRpcClient (baserpcclient.py): one caller thread doing synchronous   *)
(* RPCs over a zmq REQ socket.  send() sends, polls the client's poller    *)
(* for TIMEOUT, then either receives and validates the reply or closes the *)
(* socket, connects a new one (registered with the same poller, the old    *)
(* one never unregistered) and raises TimeoutError.  send_msg() turns the  *)
(* reply's result code into a value or RpcError.                           *)
(*                                                                         *)
(* The server and the network are the environment: requests are answered  *)
(* in order, late, or never, and a reply may be malformed.  Sockets are    *)
(* numbered by generation: socket g is the one made by the g-th connect(). *)
(***************************************************************************)
EXTENDS Naturals, Sequences

CONSTANTS
    CmdIds,         \* command identifiers (the cmd byte)
    Services,       \* service names a request may address
    MaxCalls,       \* bound on the caller's calls
    Identity,       \* TRUE when the client is built with an identity string
    StdinCases,     \* whether file descriptor 0 has input during polls: cases to check
    NoCmd

ASSUME MaxCalls \in Nat \ {0} /\ Identity \in BOOLEAN /\ StdinCases \subseteq BOOLEAN /\ StdinCases # {}

\* A call can time out at most once, so MaxCalls + 1 sockets are enough.
MaxConns == MaxCalls + 1
Gens == 1..MaxConns

\* What the caller asks for: the cmd byte and the service frame.
Requests == [cmd : CmdIds, svc : Services]

\* A reply, abstracted to what send() and send_msg() look at: the envelope
\* (fewer than 3 frames, a wrong protocol frame, or fine), the service frame,
\* the echoed cmd, how many frames it has, and whether the result code is 0.
Reply == [env : {"ok", "short", "badProto"}, svc : Services, cmd : CmdIds,
          parts : 3..5, rc : {0, 1}]

VARIABLES
    cpc,            \* caller: "idle", "poll" (in poll()) or "recv" (in recv_multipart())
    call,           \* the request of the call in progress, or NoCmd
    calls,          \* calls made so far
    server,         \* generation of self.server
    sockSt,         \* REQ state of each socket: "none", "ready", "awaiting", "closed"
    registered,     \* sockets registered with self.server_poller
    pipe,           \* replies queued at each socket, not yet received
    srvQ,           \* requests the server has received and not answered
    last,           \* what the last send_msg returned or raised
    stdinReadable   \* TRUE when standard input has input during every poll

vars == <<cpc, call, calls, server, sockSt, registered, pipe, srvQ, last, stdinReadable>>

Abs == INSTANCE RpcCall WITH Cmds <- Requests,
                            pending <- IF cpc = "idle" THEN NoCmd ELSE call

TypeOK ==
    /\ cpc \in {"idle", "poll", "recv"}
    /\ call \in Requests \cup {NoCmd}
    /\ calls \in 0..MaxCalls
    /\ server \in Gens
    /\ sockSt \in [Gens -> {"none", "ready", "awaiting", "closed"}]
    /\ registered \subseteq Gens
    /\ pipe \in [Gens -> Seq(Reply)]
    /\ srvQ \in Seq([peer : Gens, req : Requests])
    /\ last \in Abs!Result
    /\ stdinReadable \in StdinCases

Init ==
    /\ cpc = "idle"
    /\ call = NoCmd
    /\ calls = 0
    /\ server = 1
    /\ sockSt = [g \in Gens |-> IF g = 1 THEN "ready" ELSE "none"]
    /\ registered = {1}
    /\ pipe = [g \in Gens |-> <<>>]
    /\ srvQ = <<>>
    /\ last = Abs!NoResult
    /\ stdinReadable \in StdinCases

(***************************************************************************)
(* The caller.                                                             *)
(***************************************************************************)

\* send(): build the frames and send_multipart() on self.server.  A REQ
\* socket still waiting for a reply would refuse the send (EFSM), which
\* ClientUsableWhenIdle shows never happens.
send(rq) ==
    /\ cpc = "idle"
    /\ calls < MaxCalls
    /\ sockSt[server] = "ready"
    /\ calls' = calls + 1
    /\ sockSt' = [sockSt EXCEPT ![server] = "awaiting"]
    /\ srvQ' = Append(srvQ, [peer |-> server, req |-> rq])
    /\ cpc' = "poll"
    /\ call' = rq
    /\ UNCHANGED <<server, registered, pipe, last>>

\* A closed socket stays in the poller.  Its poll item has a NULL socket
\* handle, which zmq_poll reads as file descriptor 0, so it is ready
\* whenever standard input is.
StaleReady ==
    stdinReadable /\ \E g \in registered : sockSt[g] = "closed"

\* poll(TIMEOUT) returns because a reply is waiting on the current socket.
pollReturns ==
    /\ cpc = "poll"
    /\ pipe[server] # <<>>
    /\ cpc' = "recv"
    /\ UNCHANGED <<call, calls, server, sockSt, registered, pipe, srvQ, last>>

\* poll(TIMEOUT) returns because a stale poll item is ready; send() then
\* calls the blocking recv_multipart() on the current socket all the same.
pollStale ==
    /\ cpc = "poll"
    /\ StaleReady
    /\ cpc' = "recv"
    /\ UNCHANGED <<call, calls, server, sockSt, registered, pipe, srvQ, last>>

\* Mutants of the timeout branch.
timeout_noTimer == FALSE

timeout_noReconnect ==
    /\ cpc = "poll"
    /\ pipe[server] = <<>>
    /\ ~StaleReady
    /\ last' = [cmd |-> call, kind |-> "timeout", answer |-> NoCmd]
    /\ cpc' = "idle"
    /\ call' = NoCmd
    /\ UNCHANGED <<calls, server, sockSt, registered, pipe, srvQ>>

timeout_doubleConnect ==
    /\ cpc = "poll"
    /\ pipe[server] = <<>>
    /\ ~StaleReady
    /\ server < MaxConns
    /\ sockSt' = [sockSt EXCEPT ![server] = "closed", ![server + 1] = "ready",
                                 ![server + 2] = "ready"]
    /\ pipe' = [pipe EXCEPT ![server] = <<>>]
    /\ registered' = registered \cup {server + 1, server + 2}
    /\ server' = server + 2
    /\ last' = [cmd |-> call, kind |-> "timeout", answer |-> NoCmd]
    /\ cpc' = "idle"
    /\ call' = NoCmd
    /\ UNCHANGED <<calls, srvQ>>

\* Nothing became ready within TIMEOUT: close() (disconnect, close; queued
\* replies are discarded), connect() a new socket and register it with the
\* same poller, raise TimeoutError.
timeout ==
    /\ cpc = "poll"
    /\ pipe[server] = <<>>
    /\ ~StaleReady
    /\ server < MaxConns
    /\ sockSt' = [sockSt EXCEPT ![server] = "closed", ![server + 1] = "ready"]
    /\ pipe' = [pipe EXCEPT ![server] = <<>>]
    /\ registered' = registered \cup {server + 1}
    /\ server' = server + 1
    /\ last' = [cmd |-> call, kind |-> "timeout", answer |-> NoCmd]
    /\ cpc' = "idle"
    /\ call' = NoCmd
    /\ UNCHANGED <<calls, srvQ>>

\* send(), after recv_multipart(): the checks on the reply envelope.
ValidEnvelope_noService(rq, r) == r.env = "ok"

ValidEnvelope(rq, r) == r.env = "ok" /\ r.svc = rq.svc

\* send_msg(): what it makes of a well-formed envelope.  Frames 2.. are
\* cmd, result code, payload; rpc_resp[1] or rpc_resp[2] may be missing.
SendMsgKind(r) ==
    CASE r.parts = 3                -> "indexError"
      [] r.parts = 4 /\ r.rc = 0    -> "indexError"
      [] r.rc = 0                   -> "ok"
      [] OTHER                      -> "rpcError"

\* What the call returns or raises for reply r.  The echoed cmd is not
\* compared with the request (the assert in send_msg is commented out):
\* the caller gets the answer to whatever request r answers.
Outcome(rq, r) ==
    IF ValidEnvelope(rq, r)
    THEN LET k == SendMsgKind(r)
         IN  [cmd |-> rq, kind |-> k,
              answer |-> IF k \in Abs!AnswerKinds THEN [cmd |-> r.cmd, svc |-> r.svc]
                                                  ELSE NoCmd]
    ELSE [cmd |-> rq, kind |-> "protocol", answer |-> NoCmd]

\* recv_multipart() on self.server, blocking until a reply is queued; the
\* REQ socket is ready to send again; send() and send_msg() return or raise.
recvReply ==
    /\ cpc = "recv"
    /\ pipe[server] # <<>>
    /\ pipe' = [pipe EXCEPT ![server] = Tail(@)]
    /\ sockSt' = [sockSt EXCEPT ![server] = "ready"]
    /\ last' = Outcome(call, Head(pipe[server]))
    /\ cpc' = "idle"
    /\ call' = NoCmd
    /\ UNCHANGED <<calls, server, registered, srvQ>>

(***************************************************************************)
(* The server and the network.                                             *)
(***************************************************************************)

\* Where a reply to a request from socket g is routed: without an identity
\* the server's ROUTER knows only that connection, gone once g is closed;
\* with one, the identity names whichever socket is connected now.
Dest(g) == IF Identity THEN server ELSE g

Replies(rq) ==
    {r \in Reply : r.cmd = rq.cmd /\ (r.env # "ok" => r.parts = 5 /\ r.rc = 0)}

\* The server answers its oldest request, possibly late or malformed.  A
\* reply for a closed socket is dropped.
serverReply ==
    /\ srvQ # <<>>
    /\ LET m == Head(srvQ)
           d == Dest(m.peer)
       IN  /\ \E r \in Replies(m.req) :
                 pipe' = IF sockSt[d] = "closed" THEN pipe
                         ELSE [pipe EXCEPT ![d] = Append(@, r)]
    /\ srvQ' = Tail(srvQ)
    /\ UNCHANGED <<cpc, call, calls, server, sockSt, registered, last>>

Caller ==
    \/ \E rq \in Requests : send(rq)
    \/ pollReturns \/ pollStale \/ timeout \/ recvReply

\* Whether standard input is readable is the user's business: one case per
\* behaviour, fixed throughout it.
Next == (Caller \/ serverReply) /\ UNCHANGED stdinReadable

\* The caller's thread is scheduled fairly, and poll(TIMEOUT) returns after
\* TIMEOUT at the latest; the server owes nothing.
Fairness == WF_vars((pollReturns \/ pollStale \/ timeout \/ recvReply) /\ UNCHANGED stdinReadable)

Spec == Init /\ [][Next]_vars /\ Fairness

(***************************************************************************)
(* Properties.                                                             *)
(***************************************************************************)

\* Whenever no call is in progress, self.server is a REQ socket ready to
\* send and every other socket ever made is closed: a timeout leaves the
\* client usable, and no later send() fails with EFSM.
ClientUsableWhenIdle ==
    cpc = "idle" =>
        /\ sockSt[server] = "ready"
        /\ \A g \in Gens \ {server} : sockSt[g] \in {"none", "closed"}

\* send_msg() refines RpcCall: every call returns the answer to its own
\* request (same cmd, same service) or raises.
RefinesRpcCall == Abs!Spec

\* Every send() returns or raises: the 10 s poll bounds the wait even when
\* the server never answers.
SendReturns == cpc # "idle" ~> cpc = "idle"

\* The same, for the behaviours in which standard input stays idle (the
\* console waiting for a reply while the user does not type ahead).
SendReturnsWhileStdinIdle == ~stdinReadable => SendReturns

====
