---- MODULE ProxyProofs ----
(***************************************************************************)
(* Proofs about Proxy, for every number of connections: when Stop has      *)
(* returned, nobody serves a client any more.                              *)
(*                                                                         *)
(* The argument: the WaitGroup counts the accept loop and every handler    *)
(* that has not called Done, so it is zero only when there are none; and   *)
(* Stop waits after it has closed the listener, so none can follow.        *)
(***************************************************************************)
EXTENDS Proxy, FiniteSetTheorems, TLAPS

\* The connections whose handler has not called wg.Done.
Serving == {c \in Conns : handler[c] \in Counted}

Accepting == acceptor \in {"top", "accept"}

WgCounts == wg = Cardinality(Serving) + (IF Accepting THEN 1 ELSE 0)

\* Before Start there is no accept loop, and nobody calls Stop.
NewIsIdle ==
    listener = "new" =>
        /\ acceptor = "none"
        /\ \A s \in Stoppers : stop[s] = "idle"

\* A Stop that waits has closed the listener.
StopsClosed == \A s \in Stoppers : stop[s] \in {"wait", "done"} => listener # "open"

IInv ==
    /\ TypeOK
    /\ WgCounts
    /\ NewIsIdle
    /\ StopsClosed
    /\ HandlersAwaited

USE ConnsAssumption DEF serverVars, Counted

-----------------------------------------------------------------------------
(* What the counter counts.                                                *)

LEMMA ServingFinite == IsFiniteSet(Serving) /\ Cardinality(Serving) \in Nat
<1>1. Serving \subseteq Conns
  BY DEF Serving
<1>2. QED
  BY <1>1, FS_Subset, FS_CardinalityType

LEMMA OneMoreServes ==
  ASSUME NEW c \in Conns, c \notin Serving, Serving' = Serving \cup {c}
  PROVE  Cardinality(Serving') = Cardinality(Serving) + 1
BY ServingFinite, FS_AddElement, Zenon

LEMMA OneLessServes ==
  ASSUME NEW c \in Serving, Serving' = Serving \ {c}
  PROVE  Cardinality(Serving') = Cardinality(Serving) - 1
BY ServingFinite, FS_RemoveElement, Zenon

\* At zero there is neither an accept loop nor a handler to wait for.
LEMMA ZeroMeansNobody ==
  ASSUME WgCounts, wg = 0
  PROVE  ~ Accepting /\ Serving = {}
<1>1. Cardinality(Serving) = 0 /\ ~ Accepting
  BY ServingFinite DEF WgCounts
<1>2. QED
  BY <1>1, ServingFinite, FS_EmptySet

-----------------------------------------------------------------------------
(* The steps.                                                              *)

LEMMA InitInv == Init => IInv
<1> SUFFICES ASSUME Init PROVE IInv
  OBVIOUS
<1>1. Serving = {} /\ ~ Accepting
  BY DEF Init, Serving, Accepting
<1>2. WgCounts
  BY <1>1, FS_EmptySet DEF Init, WgCounts
<1>3. TypeOK
  <2>1. Fresh("socks") \in Links
    BY DEF Fresh, Links
  <2>2. link \in [Conns -> Links]
    BY <2>1 DEF Init
  <2>3. handler \in [Conns -> {"none", "handshake", "serve", "closing"}]
    BY DEF Init
  <2>4. stop \in [Stoppers -> {"idle", "flagged", "wait", "done"}]
    BY DEF Init
  <2>5. /\ mode \in {"socks5", "http"}
        /\ listener = "new"
        /\ acceptor = "none"
        /\ wg \in Int
    BY DEF Init
  <2>6. closed \in BOOLEAN /\ ctxDone \in BOOLEAN
    BY DEF Init
  <2>7. QED
    BY <2>2, <2>3, <2>4, <2>5, <2>6 DEF TypeOK
<1>4. QED
  BY <1>2, <1>3 DEF Init, IInv, NewIsIdle, StopsClosed, HandlersAwaited

\* A step of the relay or of the two ends changes the link of a connection
\* only.
LEMMA ForwardingInv ==
  ASSUME IInv, NEW c \in Conns, NEW l \in Links, Forwarding(c, l)
  PROVE  IInv'
<1> USE DEF IInv
<1>1. TypeOK'
  BY DEF Forwarding, TypeOK
<1>2. WgCounts'
  <2>1. Serving' = Serving
    BY DEF Forwarding, Serving
  <2>2. QED
    BY <2>1 DEF Forwarding, WgCounts, Accepting
<1>3. QED
  BY <1>1, <1>2 DEF Forwarding, NewIsIdle, StopsClosed, HandlersAwaited

LEMMA RelayInv ==
  ASSUME IInv, NEW c \in Conns,
         Relay(c) \/ UpWriteFails(c) \/ DownWriteFails(c) \/ ClientActs(c) \/ TargetEnds(c)
  PROVE  IInv'
<1>1. link[c] \in Links
  BY DEF IInv, TypeOK
<1>2. \E l \in Links : Forwarding(c, l)
  <2>1. CASE Refused(c)
    <3>1. PICK x \in {"closed", link[c].local} :
              Forwarding(c, Returned([link[c] EXCEPT !.local = x]))
      BY <2>1 DEF Refused
    <3>2. Returned([link[c] EXCEPT !.local = x]) \in Links
      BY <1>1, <3>1 DEF Returned, Links
    <3>3. QED
      BY <3>1, <3>2
  <2>2. CASE StartRelay(c)
    <3>1. [link[c] EXCEPT !.fwd = "wait", !.relay = "dial"] \in Links
      BY <1>1 DEF Links
    <3>2. QED
      BY <3>1, <2>2 DEF StartRelay
  <2>3. CASE RelayAnswers(c) \/ ForwardTimesOut(c)
    <3>1. Returned(link[c]) \in Links
      BY <1>1 DEF Returned, Links
    <3>2. QED
      BY <3>1, <2>3 DEF RelayAnswers, ForwardTimesOut
  <2>4. CASE DialEnds(c)
    <3>1. \A r \in {"none", "both"} : [link[c] EXCEPT !.relay = r] \in Links
      BY <1>1 DEF Links
    <3>2. QED
      BY <3>1, <2>4 DEF DialEnds
  <2>5. CASE UpEnds(c) \/ UpWriteFails(c)
    <3>1. WithoutUp(link[c]) \in Links
      BY <1>1 DEF WithoutUp, Links
    <3>2. QED
      BY <3>1, <2>5 DEF UpEnds, UpWriteFails
  <2>6. CASE DownEnds(c) \/ DownWriteFails(c)
    <3>1. WithoutDown(link[c]) \in Links
      BY <1>1 DEF WithoutDown, Links
    <3>2. QED
      BY <3>1, <2>6 DEF DownEnds, DownWriteFails
  <2>7. CASE ClientActs(c)
    <3>1. \A a \in {"done", "stuck", "gone", "open"} : [link[c] EXCEPT !.client = a] \in Links
      BY <1>1 DEF Links
    <3>2. QED
      BY <3>1, <2>7 DEF ClientActs
  <2>8. CASE TargetEnds(c)
    <3>1. [link[c] EXCEPT !.target = "ended"] \in Links
      BY <1>1 DEF Links
    <3>2. QED
      BY <3>1, <2>8 DEF TargetEnds
  <2>9. QED
    BY <2>1, <2>2, <2>3, <2>4, <2>5, <2>6, <2>7, <2>8 DEF Relay
<1>3. QED
  BY <1>2, ForwardingInv

LEMMA AcceptInv ==
  ASSUME IInv, NEW c \in Conns, NEW k \in KindsOf(mode), Accept(c, k)
  PROVE  IInv'
<1> USE DEF IInv
<1>1. TypeOK'
  <2>1. Fresh(k) \in Links
    BY DEF Fresh, Links, KindsOf
  <2>2. wg' \in Int
    BY DEF Accept, TypeOK
  <2>3. QED
    BY <2>1, <2>2 DEF Accept, TypeOK
<1>2. WgCounts'
  <2>1. c \notin Serving /\ Serving' = Serving \cup {c}
    BY DEF Accept, Free, Serving, TypeOK
  <2>2. Accepting /\ Accepting'
    BY DEF Accept, Accepting
  <2>3. QED
    BY <2>1, <2>2, OneMoreServes, ServingFinite DEF Accept, WgCounts
<1>3. \A s \in Stoppers : stop[s] # "done"
  BY DEF Accept, StopsClosed
<1>4. QED
  BY <1>1, <1>2, <1>3 DEF Accept, NewIsIdle, StopsClosed, HandlersAwaited

\* The handler calls wg.Done, whatever becomes of the link.
LEMMA HandlerDoneInv ==
  ASSUME IInv, NEW c \in Serving, HandlerDone(c), NEW l \in Links,
         link' = [link EXCEPT ![c] = l] \/ link' = link,
         UNCHANGED <<serverVars, acceptor, stop>>
  PROVE  IInv'
<1> USE DEF IInv
<1>0. c \in Conns
  BY DEF Serving
<1>1. TypeOK'
  BY <1>0 DEF HandlerDone, TypeOK
<1>2. WgCounts'
  <2>1. Serving' = Serving \ {c}
    BY <1>0 DEF HandlerDone, Serving, TypeOK
  <2>2. Cardinality(Serving') = Cardinality(Serving) - 1
    BY <2>1, OneLessServes
  <2>3. (Accepting' <=> Accepting) /\ wg' = wg - 1
    BY DEF HandlerDone, Accepting
  <2>4. QED
    BY <2>2, <2>3, ServingFinite DEF WgCounts
<1>3. HandlersAwaited'
  BY <1>0 DEF HandlerDone, HandlersAwaited, TypeOK
<1>4. QED
  BY <1>1, <1>2, <1>3 DEF NewIsIdle, StopsClosed

LEMMA HandlerInv ==
  ASSUME IInv, NEW c \in Conns, Handler(c)
  PROVE  IInv'
<1>1. link[c] \in Links
  BY DEF IInv, TypeOK
<1>2. CASE HandshakeFails(c) \/ TunnelServed(c)
  BY <1>1, <1>2, HandlerDoneInv DEF HandshakeFails, TunnelServed, Serving
<1>3. CASE PlainServed(c)
  <2>1. [link[c] EXCEPT !.local = "closed"] \in Links
    BY <1>1 DEF Links
  <2>2. QED
    BY <1>3, <2>1, HandlerDoneInv DEF PlainServed, Serving
<1>4. CASE BeginForward(c)
  <2>1. [link[c] EXCEPT !.fwd = "scan"] \in Links
    BY <1>1 DEF Links
  <2>2. TypeOK'
    BY <1>4, <2>1 DEF BeginForward, IInv, TypeOK
  <2>3. Serving' = Serving
    BY <1>4 DEF BeginForward, Serving, IInv, TypeOK
  <2>4. WgCounts'
    BY <1>4, <2>3 DEF BeginForward, IInv, WgCounts, Accepting
  <2>5. HandlersAwaited'
    BY <1>4 DEF BeginForward, IInv, HandlersAwaited, TypeOK
  <2>6. QED
    BY <1>4, <2>2, <2>4, <2>5 DEF BeginForward, IInv, NewIsIdle, StopsClosed
<1>5. CASE CloseConn(c)
  <2>1. [link[c] EXCEPT !.local = "closed"] \in Links
    BY <1>1 DEF Links
  <2>2. TypeOK'
    BY <1>5, <2>1 DEF CloseConn, IInv, TypeOK
  <2>3. Serving' = Serving
    BY <1>5 DEF CloseConn, Serving, IInv, TypeOK
  <2>4. WgCounts'
    BY <1>5, <2>3 DEF CloseConn, IInv, WgCounts, Accepting
  <2>5. HandlersAwaited'
    BY <1>5 DEF CloseConn, IInv, HandlersAwaited, TypeOK
  <2>6. QED
    BY <1>5, <2>2, <2>4, <2>5 DEF CloseConn, IInv, NewIsIdle, StopsClosed
<1>6. QED
  BY <1>2, <1>3, <1>4, <1>5, Handler(c) DEF Handler

LEMMA StartInv == IInv /\ Start => IInv'
<1> SUFFICES ASSUME IInv, Start PROVE IInv'
  OBVIOUS
<1> USE DEF IInv
<1>1. TypeOK'
  BY DEF Start, TypeOK
<1>2. Serving' = Serving /\ ~ Accepting
  BY DEF Start, Serving, Accepting, NewIsIdle
<1>3. WgCounts'
  BY <1>2, ServingFinite DEF Start, WgCounts, Accepting, NewIsIdle
<1>4. QED
  BY <1>1, <1>3 DEF Start, NewIsIdle, StopsClosed, HandlersAwaited

\* The accept loop goes round or ends.
LEMMA AcceptorInv == IInv /\ (LoopTop \/ AcceptFails) => IInv'
<1> SUFFICES ASSUME IInv, LoopTop \/ AcceptFails PROVE IInv'
  OBVIOUS
<1> USE DEF IInv
<1>1. Accepting /\ UNCHANGED <<serverVars, stop, handler, link>>
  BY DEF LoopTop, AcceptFails, AcceptorEnds, Accepting
<1>2. \/ acceptor' = "ended" /\ wg' = wg - 1
      \/ acceptor' \in {"top", "accept"} /\ wg' = wg
  BY DEF LoopTop, AcceptFails, AcceptorEnds
<1>3. TypeOK'
  BY <1>1, <1>2 DEF TypeOK
<1>4. Serving' = Serving
  BY <1>1 DEF Serving
<1>5. WgCounts'
  BY <1>1, <1>2, <1>4, ServingFinite DEF WgCounts, Accepting
<1>6. QED
  BY <1>1, <1>2, <1>3, <1>5 DEF NewIsIdle, StopsClosed, HandlersAwaited, Accepting

LEMMA StopInv ==
  ASSUME IInv, NEW s \in Stoppers, StopCalled(s) \/ StopListening(s)
  PROVE  IInv'
<1> USE DEF IInv
<1>1. Serving' = Serving /\ (Accepting' <=> Accepting) /\ wg' = wg
  BY DEF StopCalled, StopListening, Serving, Accepting
<1>2. WgCounts'
  BY <1>1 DEF WgCounts
<1>3. TypeOK'
  BY DEF StopCalled, StopListening, TypeOK
<1>4. StopsClosed'
  BY DEF StopCalled, StopListening, StopsClosed, TypeOK
<1>5. \A t \in Stoppers : stop'[t] = "done" => stop[t] = "done"
  BY DEF StopCalled, StopListening, TypeOK
<1>6. HandlersAwaited'
  BY <1>5 DEF StopCalled, StopListening, HandlersAwaited
<1>7. listener' # "new"
  BY DEF StopCalled, StopListening, NewIsIdle
<1>8. QED
  BY <1>2, <1>3, <1>4, <1>6, <1>7 DEF NewIsIdle

LEMMA StopReturnsInv ==
  ASSUME IInv, NEW s \in Stoppers, StopReturns(s)
  PROVE  IInv'
<1> USE DEF IInv
<1>1. ~ Accepting /\ Serving = {}
  BY ZeroMeansNobody DEF StopReturns
<1>2. HandlersAwaited'
  BY <1>1 DEF StopReturns, HandlersAwaited, Accepting, Serving, TypeOK
<1>3. WgCounts'
  <2>1. Serving' = Serving /\ (Accepting' <=> Accepting) /\ wg' = wg
    BY DEF StopReturns, Serving, Accepting
  <2>2. QED
    BY <2>1 DEF WgCounts
<1>4. TypeOK'
  BY DEF StopReturns, TypeOK
<1>5. StopsClosed'
  BY DEF StopReturns, StopsClosed, TypeOK
<1>6. listener' # "new"
  BY DEF StopReturns, NewIsIdle
<1>7. QED
  BY <1>2, <1>3, <1>4, <1>5, <1>6 DEF NewIsIdle

LEMMA OtherInv == IInv /\ (EndContext \/ UNCHANGED vars) => IInv'
<1> SUFFICES ASSUME IInv, EndContext \/ UNCHANGED vars PROVE IInv'
  OBVIOUS
<1> USE DEF IInv, EndContext, vars
<1>1. Serving' = Serving /\ (Accepting' <=> Accepting) /\ wg' = wg
  BY DEF Serving, Accepting
<1>2. WgCounts'
  BY <1>1 DEF WgCounts
<1>3. TypeOK'
  BY DEF TypeOK
<1>4. QED
  BY <1>2, <1>3 DEF NewIsIdle, StopsClosed, HandlersAwaited

LEMMA NextInv == IInv /\ [Next]_vars => IInv'
<1> SUFFICES ASSUME IInv, [Next]_vars PROVE IInv'
  OBVIOUS
<1>1. CASE Start \/ EndContext \/ UNCHANGED vars
  BY <1>1, StartInv, OtherInv
<1>2. CASE Server
  BY <1>2, AcceptorInv, StopInv, StopReturnsInv DEF Server
<1>3. ASSUME NEW s \in Stoppers, StopCalled(s) PROVE IInv'
  BY <1>3, StopInv
<1>4. ASSUME NEW c \in Conns, Handler(c) \/ Relay(c) \/ Environment(c) PROVE IInv'
  BY <1>4, HandlerInv, RelayInv, AcceptInv DEF Environment
<1>5. QED
  BY <1>1, <1>2, <1>3, <1>4 DEF Next

\* The WaitGroup of a proxy server counts its accept loop and its handlers
\* (socks5_proxy.go:54, 92).
THEOREM Invariance == SafetySpec => []IInv
<1>1. QED
  BY InitInv, NextInv, PTL DEF SafetySpec

\* The variables keep their types, for every number of connections.
THEOREM TypeCorrect == SafetySpec => []TypeOK
<1>1. IInv => TypeOK
  BY DEF IInv
<1>2. QED
  BY <1>1, Invariance, PTL

\* When a Stop has returned, nobody accepts or serves a client, nor will
\* (socks5_proxy.go:249-260).
THEOREM StopAwaitsHandlers == SafetySpec => []HandlersAwaited
<1>1. IInv => HandlersAwaited
  BY DEF IInv
<1>2. QED
  BY <1>1, Invariance, PTL

-----------------------------------------------------------------------------
(* The rules of the WaitGroup.                                             *)

\* Only Start and Accept raise the counter: nobody has called Stop yet, or the
\* accept loop is counted already.
LEMMA Raises ==
  ASSUME IInv, [Next]_vars, wg' > wg
  PROVE  (listener = "new" /\ Start) \/ Accepting
<1>0. wg \in Int
  BY DEF IInv, TypeOK
<1>1. CASE Start
  BY <1>1 DEF Start
<1>2. CASE EndContext \/ UNCHANGED vars
  BY <1>0, <1>2 DEF EndContext, vars
<1>3. CASE Server
  BY <1>0, <1>3 DEF Server, LoopTop, AcceptFails, AcceptorEnds, StopListening, StopReturns
<1>4. ASSUME NEW s \in Stoppers, StopCalled(s) PROVE FALSE
  BY <1>0, <1>4 DEF StopCalled
<1>5. ASSUME NEW c \in Conns, Handler(c) PROVE FALSE
  BY <1>0, <1>5 DEF Handler, HandshakeFails, BeginForward, TunnelServed, PlainServed,
                    CloseConn, HandlerDone
<1>6. ASSUME NEW c \in Conns, Relay(c) PROVE FALSE
  BY <1>0, <1>6 DEF Relay, Refused, StartRelay, RelayAnswers, ForwardTimesOut, DialEnds,
                    UpEnds, DownEnds, Forwarding
<1>7. ASSUME NEW c \in Conns, Environment(c) PROVE Accepting
  BY <1>0, <1>7 DEF Environment, UpWriteFails, DownWriteFails, ClientActs, TargetEnds,
                    Accept, Forwarding, Accepting
<1>8. QED
  BY <1>1, <1>2, <1>3, <1>4, <1>5, <1>6, <1>7 DEF Next

\* The counter does not become negative, and it is not raised from zero while
\* a Stop waits for it (socks5_proxy.go:54, 72, 92, 258).
THEOREM WaitGroupKept == SafetySpec => WaitGroupRespected
<1>1. ASSUME IInv, IInv', [Next]_vars
      PROVE  /\ wg' >= 0
             /\ wg = 0 /\ wg' > 0 => \A s \in Stoppers : stop[s] # "wait"
  <2>1. wg' >= 0
    <3>1. Serving' \subseteq Conns
      BY DEF Serving
    <3>2. Cardinality(Serving') \in Nat
      BY <3>1, FS_Subset, FS_CardinalityType
    <3>3. wg' = Cardinality(Serving') + (IF Accepting' THEN 1 ELSE 0)
      BY <1>1 DEF IInv, WgCounts
    <3>4. QED
      BY <3>2, <3>3
  <2>2. ASSUME wg = 0, wg' > 0 PROVE \A s \in Stoppers : stop[s] # "wait"
    <3>1. ~ Accepting
      BY <1>1, <2>2, ZeroMeansNobody DEF IInv
    <3>2. listener = "new"
      BY <1>1, <2>2, <3>1, Raises
    <3>3. QED
      BY <1>1, <3>2 DEF IInv, NewIsIdle
  <2>3. QED
    BY <2>1, <2>2
<1>2. IInv /\ IInv' /\ [Next]_vars =>
        [/\ wg' >= 0
         /\ wg = 0 /\ wg' > 0 => \A s \in Stoppers : stop[s] # "wait"]_vars
  BY <1>1
<1>3. QED
  BY <1>2, Invariance, PTL DEF SafetySpec, WaitGroupRespected

-----------------------------------------------------------------------------
(* A connection and its relay.                                             *)

\* How far a handler is says how far its Forward and its relay are, and no
\* relay runs before Forward has started it.
Settled(h, l) ==
    /\ h = "handshake" => l.fwd = "none"
    /\ h = "serve" =>
          \/ l.fwd \in {"scan", "wait"}
          \/ l.fwd = "returned" /\ (l.kind = "plain" => l.local = "closed")
    /\ h = "none" => l.local = "closed" \/ (l.relay = "none" /\ l.fwd = "none")
    /\ l.fwd \in {"none", "scan"} => l.relay = "none"

LinksSettled == \A c \in Conns : Settled(handler[c], link[c])

\* What a step of a relay may do with it.
Winds(l, m) ==
    l.relay # m.relay =>
        \/ m.relay \in Winding[l.relay]
        \/ l.relay = "none" /\ m.relay = "dial" /\ l.fwd = "scan" /\ m.fwd = "wait"

\* What Forward leaves when it returns.
LEMMA ReturnedSettles ==
  ASSUME NEW h, NEW l \in Links, Settled(h, l), l.fwd \in {"scan", "wait"}
  PROVE  /\ Returned(l) \in Links
         /\ Settled(h, Returned(l))
         /\ Returned(l).relay = l.relay
<1> DEFINE m == Returned(l)
<1>1. m \in Links
  BY DEF Returned, Links
<1>2. /\ m.fwd = "returned"
      /\ m.kind = l.kind
      /\ m.relay = l.relay
      /\ m.local = IF m.kind = "plain" THEN "closed" ELSE l.local
  BY DEF Returned, Links
<1> HIDE DEF m
<1>3. Settled(h, m)
  BY <1>2 DEF Settled
<1>4. QED
  BY <1>1, <1>2, <1>3 DEF m

\* A step of the relay or of the two ends.
LEMMA RelayWinds ==
  ASSUME TypeOK, LinksSettled, NEW c \in Conns,
         Relay(c) \/ UpWriteFails(c) \/ DownWriteFails(c) \/ ClientActs(c) \/ TargetEnds(c)
  PROVE  \E m \in Links : Forwarding(c, m) /\ Settled(handler[c], m) /\ Winds(link[c], m)
<1>0. link[c] \in Links /\ Settled(handler[c], link[c])
  BY DEF TypeOK, LinksSettled
<1> USE <1>0 DEF Links, Settled, Winds, Winding
<1>1. CASE Refused(c)
  <2>1. PICK x \in {"closed", link[c].local} :
            Forwarding(c, Returned([link[c] EXCEPT !.local = x]))
    BY <1>1 DEF Refused
  <2> DEFINE l == [link[c] EXCEPT !.local = x]
  <2>2. l \in Links /\ l.fwd = "scan" /\ l.relay = link[c].relay /\ Settled(handler[c], l)
    BY <1>1, <2>1 DEF Refused
  <2> HIDE DEF l
  <2>3. /\ Returned(l) \in Links
        /\ Settled(handler[c], Returned(l))
        /\ Returned(l).relay = link[c].relay
    BY <2>2, ReturnedSettles
  <2>4. QED
    BY <2>1, <2>3 DEF l
<1>2. CASE StartRelay(c)
  <2> DEFINE m == [link[c] EXCEPT !.fwd = "wait", !.relay = "dial"]
  <2>1. link[c].fwd = "scan" /\ Forwarding(c, m)
    BY <1>2 DEF StartRelay
  <2>2. /\ m \in Links
        /\ m.fwd = "wait" /\ m.relay = "dial"
        /\ m.local = link[c].local
    OBVIOUS
  <2> HIDE DEF m
  <2>3. Settled(handler[c], m) /\ Winds(link[c], m)
    BY <2>1, <2>2
  <2>4. QED
    BY <2>1, <2>2, <2>3
<1>3. CASE RelayAnswers(c) \/ ForwardTimesOut(c)
  <2>1. Forwarding(c, Returned(link[c])) /\ link[c].fwd = "wait"
    BY <1>3 DEF RelayAnswers, ForwardTimesOut
  <2>2. /\ Returned(link[c]) \in Links
        /\ Settled(handler[c], Returned(link[c]))
        /\ Returned(link[c]).relay = link[c].relay
    BY <2>1, ReturnedSettles
  <2>3. QED
    BY <2>1, <2>2
<1>4. CASE DialEnds(c)
  BY <1>4 DEF DialEnds
<1>5. CASE UpEnds(c) \/ UpWriteFails(c)
  BY <1>5 DEF UpEnds, UpWriteFails, WithoutUp
<1>6. CASE DownEnds(c) \/ DownWriteFails(c)
  BY <1>6 DEF DownEnds, DownWriteFails, WithoutDown
<1>7. CASE ClientActs(c)
  BY <1>7 DEF ClientActs
<1>8. CASE TargetEnds(c)
  BY <1>8 DEF TargetEnds
<1>9. QED
  BY <1>1, <1>2, <1>3, <1>4, <1>5, <1>6, <1>7, <1>8 DEF Relay

\* A step changes the handler and the link of one connection at most, from one
\* settled pair to another.
LEMMA LinkStep ==
  ASSUME TypeOK, LinksSettled, [Next]_vars, NEW d \in Conns
  PROVE  Settled(handler'[d], link'[d]) /\ Winds(link[d], link'[d])
<1>0. link[d] \in Links /\ Settled(handler[d], link[d])
  BY DEF TypeOK, LinksSettled
<1>1. CASE UNCHANGED <<handler, link>>
  BY <1>0, <1>1 DEF Winds
<1>2. ASSUME NEW c \in Conns,
             Relay(c) \/ UpWriteFails(c) \/ DownWriteFails(c) \/ ClientActs(c) \/ TargetEnds(c)
      PROVE  Settled(handler'[d], link'[d]) /\ Winds(link[d], link'[d])
  <2>1. PICK m \in Links : Forwarding(c, m) /\ Settled(handler[c], m) /\ Winds(link[c], m)
    BY <1>2, RelayWinds
  <2>2. handler' = handler /\ link' = [link EXCEPT ![c] = m]
    BY <2>1 DEF Forwarding
  <2>3. link'[d] = IF d = c THEN m ELSE link[d]
    BY <2>2 DEF TypeOK
  <2>4. QED
    BY <1>0, <2>1, <2>2, <2>3 DEF Winds
<1>3. ASSUME NEW c \in Conns, NEW k \in KindsOf(mode), Accept(c, k)
      PROVE  Settled(handler'[d], link'[d]) /\ Winds(link[d], link'[d])
  <2>1. handler' = [handler EXCEPT ![c] = "handshake"] /\ link' = [link EXCEPT ![c] = Fresh(k)]
    BY <1>3 DEF Accept
  <2>2. link[c].relay = "none"
    BY <1>3 DEF Accept, Free
  <2>3. Settled("handshake", Fresh(k)) /\ Winds(link[c], Fresh(k))
    BY <2>2 DEF Settled, Winds, Fresh
  <2>4. handler'[d] = (IF d = c THEN "handshake" ELSE handler[d])
        /\ link'[d] = (IF d = c THEN Fresh(k) ELSE link[d])
    BY <2>1 DEF TypeOK
  <2>5. QED
    BY <1>0, <2>3, <2>4 DEF Winds
<1>4. ASSUME NEW c \in Conns, Handler(c)
      PROVE  Settled(handler'[d], link'[d]) /\ Winds(link[d], link'[d])
  <2>0. link[c] \in Links /\ Settled(handler[c], link[c])
    BY DEF TypeOK, LinksSettled
  <2>1. CASE HandshakeFails(c) \/ TunnelServed(c)
    <3>1. handler' = [handler EXCEPT ![c] = "closing"] /\ link' = link
      BY <2>1 DEF HandshakeFails, TunnelServed, HandlerDone
    <3>2. QED
      BY <1>0, <3>1 DEF TypeOK, Settled, Winds
  <2>2. CASE PlainServed(c)
    <3>1. /\ handler' = [handler EXCEPT ![c] = "closing"]
          /\ link' = [link EXCEPT ![c].local = "closed"]
      BY <2>2 DEF PlainServed, HandlerDone
    <3>2. QED
      BY <1>0, <3>1 DEF TypeOK, Settled, Winds, Links
  <2>3. CASE BeginForward(c)
    <3>1. /\ handler[c] = "handshake"
          /\ handler' = [handler EXCEPT ![c] = "serve"]
          /\ link' = [link EXCEPT ![c].fwd = "scan"]
      BY <2>3 DEF BeginForward
    <3>2. QED
      BY <1>0, <2>0, <3>1 DEF TypeOK, Settled, Winds, Links
  <2>4. CASE CloseConn(c)
    <3>1. /\ handler' = [handler EXCEPT ![c] = "none"]
          /\ link' = [link EXCEPT ![c].local = "closed"]
      BY <2>4 DEF CloseConn
    <3>2. QED
      BY <1>0, <3>1 DEF TypeOK, Settled, Winds, Links
  <2>5. QED
    BY <1>4, <2>1, <2>2, <2>3, <2>4 DEF Handler
<1>5. CASE Start \/ EndContext \/ UNCHANGED vars
  BY <1>1, <1>5 DEF Start, EndContext, vars
<1>6. CASE Server
  <2>1. UNCHANGED <<handler, link>>
    BY <1>6 DEF Server, LoopTop, AcceptFails, AcceptorEnds, StopListening, StopReturns
  <2>2. QED
    BY <1>1, <2>1
<1>7. ASSUME NEW s \in Stoppers, StopCalled(s)
      PROVE  Settled(handler'[d], link'[d]) /\ Winds(link[d], link'[d])
  BY <1>1, <1>7 DEF StopCalled
<1>8. QED
  BY <1>2, <1>3, <1>4, <1>5, <1>6, <1>7 DEF Next, Environment

\* How far a handler is and how far its relay is always agree
\* (socks5_proxy.go:99-108, manager.go:191-210).
THEOREM LinksStaySettled == SafetySpec => []LinksSettled
<1>1. Init => LinksSettled
  BY DEF Init, LinksSettled, Settled, Fresh
<1>2. TypeOK /\ LinksSettled /\ [Next]_vars => LinksSettled'
  BY LinkStep DEF LinksSettled
<1>3. QED
  BY <1>1, <1>2, TypeCorrect, PTL DEF SafetySpec

\* A relay that outlives its handler works for a connection that is closed
\* (manager.go:206).
THEOREM RelaysAreCutOff == SafetySpec => []RelayIsCutOff
<1>1. TypeOK /\ LinksSettled => RelayIsCutOff
  BY DEF TypeOK, LinksSettled, Settled, RelayIsCutOff
<1>2. QED
  BY <1>1, TypeCorrect, LinksStaySettled, PTL

\* A handler that serves waits for a Forward that looks for a tunnel or has its
\* timer running, or can end: the safety half of StopEnds (http_proxy.go:118).
THEOREM HandlersNeverStall == SafetySpec => []HandlersGoOn
<1>1. LinksSettled => HandlersGoOn
  BY DEF LinksSettled, Settled, HandlersGoOn, Plain
<1>2. QED
  BY <1>1, LinksStaySettled, PTL

\* A relay is started once by its Forward, and each of its steps is towards its
\* end: the safety half of TargetEndsRelay and UplinkEnds (tunnel.go:248-276).
THEOREM RelaysWindDown == SafetySpec => RelayWindsDown
<1>1. TypeOK /\ LinksSettled /\ [Next]_vars =>
        \A c \in Conns :
            LET old == link[c].relay
                new == link'[c].relay
            IN  old # new =>
                  \/ new \in Winding[old]
                  \/ old = "none" /\ new = "dial" /\ link[c].fwd = "scan" /\ link'[c].fwd = "wait"
  BY LinkStep DEF Winds
<1>2. QED
  BY <1>1, TypeCorrect, LinksStaySettled, PTL DEF SafetySpec, RelayWindsDown

====
