---- MODULE Proxy ----
(***************************************************************************)
(* A local proxy server of internal/proxy, SOCKS5 or HTTP, and what its    *)
(* handlers leave to the tunnels: the accept loop, the handshake, Stop and *)
(* its WaitGroup, Manager.Forward as the handler sees it, and the two      *)
(* copies of Tunnel.Forward, which may outlive the call they serve.        *)
(*                                                                         *)
(* There are three kinds of connections.  "socks" and "connect" are handed *)
(* to Forward as they are.  A "plain" HTTP request is served through one   *)
(* end of a net.Pipe, while a goroutine forwards the other end.            *)
(*                                                                         *)
(* Bytes are abstracted: what matters is which reads and writes can end.   *)
(* Deadlines and timers are steps that fairness makes happen.              *)
(***************************************************************************)
EXTENDS Integers, FiniteSets

CONSTANT Conns      \* slots for connections; a slot is used again

ASSUME ConnsAssumption == IsFiniteSet(Conns)

VARIABLES
    mode,       \* the type given to NewProxy
    listener,   \* "new", "failed", "open" or "closed"
    closed,     \* the field of that name
    ctxDone,    \* has the context given to Start ended?
    acceptor,   \* where the accept loop is
    wg,         \* the counter of the WaitGroup
    stop,       \* where each call of Stop is
    handler,    \* where the handler of each connection is
    link        \* the connection and its relay

serverVars == <<mode, listener, closed, ctxDone>>
vars == <<mode, listener, closed, ctxDone, acceptor, wg, stop, handler, link>>

-----------------------------------------------------------------------------

\* Stop is called by the timer panel and by the goroutine of the context.
Stoppers == {"panel", "ctx"}

KindsOf(m) == IF m = "socks5" THEN {"socks"} ELSE {"connect", "plain"}

\* The handlers that Stop waits for; a "closing" one has called wg.Done.
Counted == {"handshake", "serve"}

\* fwd:    Manager.Forward: not called, looking for a pool, waiting for the
\*         relay or the 30 s timer, returned.
\* relay:  the goroutine of Manager.Forward: dialling, both copies running,
\*         only the one up to the target, only the one down to the client.
\* local:  is the connection given to Forward open?
\* client: "done" has sent all it will; "stuck" does not read.
\* target: has the target (or the ssh connection) ended its direction?
Links ==
    [kind : {"socks", "connect", "plain"},
     fwd : {"none", "scan", "wait", "returned"},
     relay : {"none", "dial", "both", "up", "down"},
     local : {"open", "closed"},
     client : {"open", "done", "stuck", "gone"},
     target : {"open", "ended"}]

Fresh(k) ==
    [kind |-> k, fwd |-> "none", relay |-> "none", local |-> "open",
     client |-> "open", target |-> "open"]

Init ==
    /\ mode \in {"socks5", "http"}
    /\ listener = "new"
    /\ closed = FALSE
    /\ ctxDone = FALSE
    /\ acceptor = "none"
    /\ wg = 0
    /\ stop = [s \in Stoppers |-> "idle"]
    /\ handler = [c \in Conns |-> "none"]
    /\ link = [c \in Conns |-> Fresh("socks")]

Plain(c) == link[c].kind = "plain"

\* Nothing of the slot's last connection is left.
Free(c) ==
    /\ handler[c] = "none"
    /\ link[c].fwd \in {"none", "returned"}
    /\ link[c].relay = "none"

-----------------------------------------------------------------------------
(* The server.                                                             *)

Start ==
    /\ listener = "new"
    /\ \/ /\ listener' = "open"
          /\ acceptor' = "top"
          /\ wg' = wg + 1
       \/ /\ listener' = "failed"
          /\ UNCHANGED <<acceptor, wg>>
    /\ UNCHANGED <<mode, closed, ctxDone, stop, handler, link>>

EndContext ==
    /\ ~ ctxDone
    /\ ctxDone' = TRUE
    /\ UNCHANGED <<mode, listener, closed, acceptor, wg, stop, handler, link>>

AcceptorEnds ==
    /\ acceptor' = "ended"
    /\ wg' = wg - 1
    /\ UNCHANGED <<serverVars, stop, handler, link>>

\* The top of the loop looks at the context.
LoopTop ==
    /\ acceptor = "top"
    /\ \/ ctxDone /\ AcceptorEnds
       \/ /\ ~ ctxDone
          /\ acceptor' = "accept"
          /\ UNCHANGED <<serverVars, wg, stop, handler, link>>

\* Mutant: an error of Accept never ends the loop.
AcceptFailsRetries ==
    /\ acceptor = "accept"
    /\ acceptor' = "top"
    /\ UNCHANGED <<serverVars, wg, stop, handler, link>>

\* Accept fails: always once the listener is closed, and now and then before.
AcceptFails ==
    /\ acceptor = "accept"
    /\ \/ closed /\ AcceptorEnds
       \/ /\ ~ closed
          /\ acceptor' = "top"
          /\ UNCHANGED <<serverVars, wg, stop, handler, link>>

\* Mutant: the handler is not counted before it runs.
AcceptUncounted(c, k) ==
    /\ acceptor = "accept"
    /\ listener = "open"
    /\ k \in KindsOf(mode)
    /\ Free(c)
    /\ acceptor' = "top"
    /\ handler' = [handler EXCEPT ![c] = "handshake"]
    /\ link' = [link EXCEPT ![c] = Fresh(k)]
    /\ UNCHANGED <<serverVars, wg, stop>>

\* A connection is accepted and counted, and its handler starts.
Accept(c, k) ==
    /\ acceptor = "accept"
    /\ listener = "open"
    /\ k \in KindsOf(mode)
    /\ Free(c)
    /\ acceptor' = "top"
    /\ wg' = wg + 1
    /\ handler' = [handler EXCEPT ![c] = "handshake"]
    /\ link' = [link EXCEPT ![c] = Fresh(k)]
    /\ UNCHANGED <<serverVars, stop>>

\* The panel calls Stop once Start has returned; the goroutine of the context
\* exists if Start succeeded.
StopCalled(s) ==
    /\ stop[s] = "idle"
    /\ listener # "new"
    /\ s = "ctx" => listener # "failed" /\ ctxDone
    /\ closed' = TRUE
    /\ stop' = [stop EXCEPT ![s] = "flagged"]
    /\ UNCHANGED <<mode, listener, ctxDone, acceptor, wg, handler, link>>

StopListening(s) ==
    /\ stop[s] = "flagged"
    /\ listener' = IF listener = "open" THEN "closed" ELSE listener
    /\ stop' = [stop EXCEPT ![s] = "wait"]
    /\ UNCHANGED <<mode, closed, ctxDone, acceptor, wg, handler, link>>

StopReturns(s) ==
    /\ stop[s] = "wait"
    /\ wg = 0
    /\ stop' = [stop EXCEPT ![s] = "done"]
    /\ UNCHANGED <<serverVars, acceptor, wg, handler, link>>

-----------------------------------------------------------------------------
(* The handler of a connection.                                            *)

\* wg.Done comes first, the connection is closed after it.  A plain handler
\* has closed its end of the pipe before.
HandlerDone(c) ==
    /\ handler' = [handler EXCEPT ![c] = "closing"]
    /\ wg' = wg - 1

\* Bad input, a client that left, or the deadline of 10 s.
HandshakeFails(c) ==
    /\ handler[c] = "handshake"
    /\ HandlerDone(c)
    /\ UNCHANGED <<serverVars, acceptor, stop, link>>

\* The request is read (HTTP goes on with what it has when the deadline cuts
\* the headers short) and, for a tunnel, answered before anything is dialled.
BeginForward(c) ==
    /\ handler[c] = "handshake"
    /\ handler' = [handler EXCEPT ![c] = "serve"]
    /\ link' = [link EXCEPT ![c].fwd = "scan"]
    /\ UNCHANGED <<serverVars, acceptor, wg, stop>>

\* A tunnel's handler goes on when Forward returns.
TunnelServed(c) ==
    /\ handler[c] = "serve"
    /\ ~ Plain(c)
    /\ link[c].fwd = "returned"
    /\ HandlerDone(c)
    /\ UNCHANGED <<serverVars, acceptor, stop, link>>

\* A plain handler copies the response until the pipe is closed or the client
\* is gone, and closes its end of the pipe.
PlainServed(c) ==
    /\ handler[c] = "serve"
    /\ Plain(c)
    /\ \/ link[c].local = "closed" /\ link[c].client # "stuck"
       \/ link[c].client = "gone"
    /\ link' = [link EXCEPT ![c].local = "closed"]
    /\ HandlerDone(c)
    /\ UNCHANGED <<serverVars, acceptor, stop>>

\* Mutant: the connection is not closed when its handler ends.
CloseConnForgotten(c) ==
    /\ handler[c] = "closing"
    /\ handler' = [handler EXCEPT ![c] = "none"]
    /\ UNCHANGED <<serverVars, acceptor, wg, stop, link>>

CloseConn(c) ==
    /\ handler[c] = "closing"
    /\ handler' = [handler EXCEPT ![c] = "none"]
    /\ link' = [link EXCEPT ![c].local = "closed"]
    /\ UNCHANGED <<serverVars, acceptor, wg, stop>>

-----------------------------------------------------------------------------
(* Manager.Forward.  When it returns for a plain request, its goroutine    *)
(* closes its end of the pipe (deferred in dialThroughTunnel).             *)

Returned(l) ==
    [l EXCEPT !.fwd = "returned",
              !.local = IF l.kind = "plain" THEN "closed" ELSE @]

Forwarding(c, next) ==
    /\ link' = [link EXCEPT ![c] = next]
    /\ UNCHANGED <<serverVars, acceptor, wg, stop, handler>>

\* Blocked or denied: the connection is closed; no tunnel: it is not.
Refused(c) ==
    /\ link[c].fwd = "scan"
    /\ \E l \in {"closed", link[c].local} :
          Forwarding(c, Returned([link[c] EXCEPT !.local = l]))

StartRelay(c) ==
    /\ link[c].fwd = "scan"
    /\ Forwarding(c, [link[c] EXCEPT !.fwd = "wait", !.relay = "dial"])

RelayAnswers(c) ==
    /\ link[c].fwd = "wait"
    /\ link[c].relay = "none"
    /\ Forwarding(c, Returned(link[c]))

\* Mutant: when the timer fires the wait starts again.
ForwardTimesOutRetries(c) ==
    /\ link[c].fwd = "wait"
    /\ Forwarding(c, link[c])

\* After 30 s Forward returns; its goroutine goes on.
ForwardTimesOut(c) ==
    /\ link[c].fwd = "wait"
    /\ link[c].relay # "none"
    /\ Forwarding(c, Returned(link[c]))

-----------------------------------------------------------------------------
(* Tunnel.Forward: the dial of at most 15 s and the two copies.            *)

DialEnds(c) ==
    /\ link[c].relay = "dial"
    /\ \E r \in {"none", "both"} : Forwarding(c, [link[c] EXCEPT !.relay = r])

\* Nothing more can be read from the connection given to Forward.
LocalEnded(c) ==
    \/ link[c].local = "closed"
    \/ ~ Plain(c) /\ link[c].client \in {"done", "gone"}

WithoutUp(l) == [l EXCEPT !.relay = IF @ = "both" THEN "down" ELSE "none"]

WithoutDown(l) == [l EXCEPT !.relay = IF @ = "both" THEN "up" ELSE "none"]

\* The copy to the target ends with its source.  CloseWrite is for a
\* *net.TCPConn, which an ssh channel is not: the target is not told.
UpEnds(c) ==
    /\ link[c].relay \in {"both", "up"}
    /\ LocalEnded(c)
    /\ Forwarding(c, WithoutUp(link[c]))

\* A write to a target that has ended fails, when the client sends.
UpWriteFails(c) ==
    /\ link[c].relay \in {"both", "up"}
    /\ link[c].target = "ended"
    /\ Forwarding(c, WithoutUp(link[c]))

\* The copy to the client ends with its source, unless it is held up in a
\* write to a client that does not read.
DownEnds(c) ==
    /\ link[c].relay \in {"both", "down"}
    /\ link[c].target = "ended"
    /\ link[c].client # "stuck" \/ link[c].local = "closed"
    /\ Forwarding(c, WithoutDown(link[c]))

\* A write to a connection that is closed fails, when the target sends.
DownWriteFails(c) ==
    /\ link[c].relay \in {"both", "down"}
    /\ link[c].local = "closed" \/ (~ Plain(c) /\ link[c].client = "gone")
    /\ Forwarding(c, WithoutDown(link[c]))

-----------------------------------------------------------------------------
(* The clients and the targets, which may do as they like.                 *)

ClientActs(c) ==
    /\ handler[c] \in Counted
    /\ \/ /\ link[c].client = "open"
          /\ \E a \in {"done", "stuck"} : Forwarding(c, [link[c] EXCEPT !.client = a])
       \/ /\ link[c].client # "gone"
          /\ Forwarding(c, [link[c] EXCEPT !.client = "gone"])
       \/ /\ link[c].client = "stuck"
          /\ Forwarding(c, [link[c] EXCEPT !.client = "open"])

TargetEnds(c) ==
    /\ link[c].relay \in {"both", "up", "down"}
    /\ link[c].target = "open"
    /\ Forwarding(c, [link[c] EXCEPT !.target = "ended"])

Server ==
    \/ LoopTop \/ AcceptFails
    \/ \E s \in Stoppers : StopListening(s) \/ StopReturns(s)

Handler(c) ==
    \/ HandshakeFails(c) \/ BeginForward(c)
    \/ TunnelServed(c) \/ PlainServed(c) \/ CloseConn(c)

Relay(c) ==
    \/ Refused(c) \/ StartRelay(c) \/ RelayAnswers(c) \/ ForwardTimesOut(c)
    \/ DialEnds(c) \/ UpEnds(c) \/ DownEnds(c)

Environment(c) ==
    \/ UpWriteFails(c) \/ DownWriteFails(c) \/ ClientActs(c) \/ TargetEnds(c)
    \/ \E k \in KindsOf(mode) : Accept(c, k)

Next ==
    \/ Start \/ EndContext \/ Server
    \/ \E s \in Stoppers : StopCalled(s)
    \/ \E c \in Conns : Handler(c) \/ Relay(c) \/ Environment(c)

SafetySpec == Init /\ [][Next]_vars

\* Goroutines that can go on do; deadlines, timers and dials end.  The copy up
\* and the copy down are goroutines of their own.  Nothing is asked of clients,
\* targets and users.
Fairness ==
    /\ WF_vars(LoopTop)
    /\ WF_vars(AcceptFails /\ listener = "closed")
    /\ \A s \in Stoppers : WF_vars(StopListening(s)) /\ WF_vars(StopReturns(s))
    /\ \A c \in Conns :
          /\ WF_vars(HandshakeFails(c) \/ BeginForward(c))
          /\ WF_vars(TunnelServed(c))
          /\ WF_vars(PlainServed(c) /\ link[c].local = "closed")
          /\ WF_vars(CloseConn(c))
          /\ WF_vars(Refused(c) \/ StartRelay(c))
          /\ WF_vars(RelayAnswers(c) \/ ForwardTimesOut(c))
          /\ WF_vars(DialEnds(c))
          /\ WF_vars(UpEnds(c))
          /\ WF_vars(DownEnds(c))

Spec == SafetySpec /\ Fairness

-----------------------------------------------------------------------------
(* Properties.                                                             *)

\* Every variable has a value of its type.
TypeOK ==
    /\ mode \in {"socks5", "http"}
    /\ listener \in {"new", "failed", "open", "closed"}
    /\ closed \in BOOLEAN
    /\ ctxDone \in BOOLEAN
    /\ acceptor \in {"none", "top", "accept", "ended"}
    /\ wg \in Int
    /\ stop \in [Stoppers -> {"idle", "flagged", "wait", "done"}]
    /\ handler \in [Conns -> {"none", "handshake", "serve", "closing"}]
    /\ link \in [Conns -> Links]

\* When a Stop has returned, the accept loop has ended and no handler serves a
\* client, nor will one again: wg.Wait (socks5_proxy.go:258) counts them all,
\* although connections are accepted while Stop runs.
HandlersAwaited ==
    (\E s \in Stoppers : stop[s] = "done") =>
        /\ acceptor \in {"none", "ended"}
        /\ \A c \in Conns : handler[c] \notin Counted

\* The rules of sync.WaitGroup are kept: the counter does not become negative,
\* and it is not raised from zero while a Stop waits (socks5_proxy.go:72, 100,
\* 258).
WaitGroupRespected ==
    [][/\ wg' >= 0
       /\ wg = 0 /\ wg' > 0 => \A s \in Stoppers : stop[s] # "wait"]_vars

\* A relay that outlives the handler of its connection, after the 30 s of
\* Forward, works for a connection that is closed: it can take nothing more
\* from a client, and what it writes to one fails (manager.go:206).
RelayIsCutOff ==
    \A c \in Conns :
        handler[c] = "none" /\ link[c].relay # "none" => link[c].local = "closed"

\* The handlers Stop waits for wait for nothing but Forward, which returns
\* within its timeout, or have nothing to wait for; only a client of a plain
\* request that does not read holds one up (http_proxy.go:118, socks5_proxy.go:258).
HandlersGoOn ==
    \A c \in Conns : handler[c] = "serve" =>
        \/ link[c].fwd \in {"scan", "wait"}
        \/ link[c].fwd = "returned" /\ (Plain(c) => link[c].local = "closed")

\* The relays of a connection wind down: one is started at most, and a copy
\* that has ended is not started again before the slot has a new connection.
Winding ==
    [none |-> {}, dial |-> {"none", "both"}, both |-> {"up", "down"},
     up |-> {"none"}, down |-> {"none"}]

RelayWindsDown ==
    [][\A c \in Conns :
        LET old == link[c].relay
            new == link'[c].relay
        IN  old # new =>
              \/ new \in Winding[old]
              \/ old = "none" /\ new = "dial" /\ link[c].fwd = "scan" /\ link'[c].fwd = "wait"]_vars

\* A Stop that waits returns, unless a client of a plain request does not read
\* what its handler writes: http_proxy.go:118 sets a deadline for reads only.
StopEnds ==
    \A s \in Stoppers :
        stop[s] = "wait" ~>
            \/ stop[s] = "done"
            \/ \E c \in Conns : Plain(c) /\ handler[c] = "serve" /\ link[c].client = "stuck"

\* When the target has ended, both copies end, although the one that reads
\* from the client is not told (tunnel.go:270) and, for a plain request, waits
\* for a pipe whose other end waits for it.
TargetEndsRelay ==
    \A c \in Conns :
        (link[c].relay # "none" /\ link[c].target = "ended") ~> (link[c].relay = "none")

\* Once Forward has returned, nothing more is sent to the target: the copy that
\* its goroutine still runs after the timeout (manager.go:206) ends.
UplinkEnds ==
    \A c \in Conns :
        link[c].fwd = "returned" ~> (link[c].relay \in {"none", "dial", "down"})

====
