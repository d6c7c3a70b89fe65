---- MODULE TunnelProofs ----
(***************************************************************************)
(* Proofs about Tunnel, for every set of callers and clients: its types,   *)
(* its safety invariants, and that it implements TunnelLink.               *)
(*                                                                         *)
(* The invariants of Tunnel are not inductive.  What makes them so is the  *)
(* mutex: exactly the Connect that dials holds mu, no client is installed  *)
(* while it does, and what a dial has opened is known to nobody else until *)
(* Install.  IInv says that.                                               *)
(***************************************************************************)
EXTENDS Tunnel, TLAPS

\* Callers only call Connect; monitors never are where callers wait.
StagesSplit ==
    /\ \A p \in Callers : pc[p] \in {"out", "lock", "dial"}
    /\ \A k \in Clients : pc[k] # "out"

\* Exactly the Connect that dials holds t.mu, and the tunnel has no client.
MutexHeld ==
    /\ \A p \in Connectors : pc[p] = "dial" <=> mu = p
    /\ mu # None => client = None

\* The client of a dial is fresh: open or dead, without goroutines.
DialledFresh ==
    \A p \in Connectors : dialled[p] # None =>
        /\ pc[p] = "dial"
        /\ conn[dialled[p]] \in {"open", "dead"}
        /\ pc[dialled[p]] = "none"

\* A client that was not handed to a Connect has no goroutines.
NotStarted ==
    \A k \in Clients : conn[k] = "unused" => pc[k] = "none"

\* The client of the tunnel is not closed, and its monitor was started.
ClientLive == client # None => conn[client] \in {"open", "dead"} /\ pc[client] # "none"

\* A monitor that will count another attempt has not had them all.
TriesLeft ==
    \A k \in Clients : pc[k] \in InReconnect \ {"close"} => tries[k] < MaxAttempts

\* A monitor and its keepAlive start together and end only when cancelled.
WatchersRun ==
    \A k \in Clients :
        /\ pc[k] # "none" => kpc[k] # "none"
        /\ pc[k] = "done" \/ kpc[k] = "done" => cancelled

IInv ==
    /\ TypeOK
    /\ StagesSplit
    /\ MutexHeld
    /\ DialledFresh
    /\ NotStarted
    /\ ClientLive
    /\ TriesLeft
    /\ WatchersRun
    /\ FlagHasOwner

-----------------------------------------------------------------------------
(* Every action preserves the invariant.                                   *)

USE CallersAssumption, NoneAssumption, MaxAttemptsAssumption, MaxAbandonedAssumption
    DEF Connectors, Goto, lock, dialing, monitor, keeper, stop,
        ConnStates, Stages, KeeperStages, InReconnect

LEMMA InitInv == Init => IInv
<1> SUFFICES ASSUME Init PROVE IInv
  OBVIOUS
<1>1. TypeOK
  <2>1. 0 \in 0..MaxAttempts /\ 0 \in 0..MaxAbandoned
    OBVIOUS
  <2>2. pc \in [Connectors -> Stages]
    BY DEF Init
  <2>3. QED
    BY <2>1, <2>2 DEF Init, TypeOK
<1>2. StagesSplit
  BY DEF Init, StagesSplit
<1>3. MutexHeld
  BY DEF Init, MutexHeld
<1>4. DialledFresh
  BY DEF Init, DialledFresh
<1>5. NotStarted
  BY DEF Init, NotStarted
<1>6. ClientLive
  BY DEF Init, ClientLive
<1>7. TriesLeft
  BY DEF Init, TriesLeft
<1>8. WatchersRun
  BY DEF Init, WatchersRun
<1>9. FlagHasOwner
  BY DEF Init, FlagHasOwner
<1>10. QED
  BY <1>1, <1>2, <1>3, <1>4, <1>5, <1>6, <1>7, <1>8, <1>9 DEF IInv

LEMMA EnterConnectInv ==
  ASSUME IInv, NEW p \in Connectors, EnterConnect(p)
  PROVE  IInv'
<1>1. TypeOK'
  BY DEF IInv, TypeOK, EnterConnect, Returned
<1>2. StagesSplit'
  BY DEF IInv, TypeOK, StagesSplit, EnterConnect, Returned
<1>3. MutexHeld'
  BY DEF IInv, TypeOK, MutexHeld, EnterConnect, Returned
<1>4. DialledFresh'
  BY DEF IInv, TypeOK, DialledFresh, EnterConnect, Returned
<1>5. NotStarted'
  BY DEF IInv, TypeOK, NotStarted, EnterConnect, Returned
<1>6. ClientLive'
  BY DEF IInv, TypeOK, ClientLive, EnterConnect, Returned
<1>7. TriesLeft'
  BY DEF IInv, TypeOK, StagesSplit, MutexHeld, TriesLeft, EnterConnect, Returned
<1>8. WatchersRun'
  BY DEF IInv, TypeOK, WatchersRun, EnterConnect, Returned
<1>9. FlagHasOwner'
  BY DEF IInv, TypeOK, FlagHasOwner, EnterConnect, Returned
<1>10. QED
  BY <1>1, <1>2, <1>3, <1>4, <1>5, <1>6, <1>7, <1>8, <1>9 DEF IInv

LEMMA AlreadyConnectedInv ==
  ASSUME IInv, NEW p \in Connectors, AlreadyConnected(p)
  PROVE  IInv'
<1>1. TypeOK'
  BY DEF IInv, TypeOK, AlreadyConnected, Returned
<1>2. StagesSplit'
  BY DEF IInv, TypeOK, StagesSplit, AlreadyConnected, Returned
<1>3. MutexHeld'
  BY DEF IInv, TypeOK, MutexHeld, AlreadyConnected, Returned
<1>4. DialledFresh'
  BY DEF IInv, TypeOK, DialledFresh, AlreadyConnected, Returned
<1>5. NotStarted'
  BY DEF IInv, TypeOK, NotStarted, AlreadyConnected, Returned
<1>6. ClientLive'
  BY DEF IInv, TypeOK, ClientLive, AlreadyConnected, Returned
<1>7. TriesLeft'
  BY DEF IInv, TypeOK, TriesLeft, AlreadyConnected, Returned
<1>8. WatchersRun'
  BY DEF IInv, TypeOK, WatchersRun, AlreadyConnected, Returned
<1>9. FlagHasOwner'
  BY DEF IInv, TypeOK, FlagHasOwner, AlreadyConnected, Returned
<1>10. QED
  BY <1>1, <1>2, <1>3, <1>4, <1>5, <1>6, <1>7, <1>8, <1>9 DEF IInv

LEMMA StartDialInv ==
  ASSUME IInv, NEW p \in Connectors, StartDial(p)
  PROVE  IInv'
<1>1. TypeOK'
  BY DEF IInv, TypeOK, StartDial
<1>2. StagesSplit'
  BY DEF IInv, TypeOK, StagesSplit, StartDial
<1>3. MutexHeld'
  BY DEF IInv, TypeOK, MutexHeld, StartDial
<1>4. DialledFresh'
  BY DEF IInv, TypeOK, DialledFresh, StartDial
<1>5. NotStarted'
  BY DEF IInv, TypeOK, NotStarted, StartDial
<1>6. ClientLive'
  BY DEF IInv, TypeOK, ClientLive, StartDial
<1>7. TriesLeft'
  BY DEF IInv, TypeOK, TriesLeft, StartDial
<1>8. WatchersRun'
  BY DEF IInv, TypeOK, WatchersRun, StartDial
<1>9. FlagHasOwner'
  BY DEF IInv, TypeOK, FlagHasOwner, StartDial
<1>10. QED
  BY <1>1, <1>2, <1>3, <1>4, <1>5, <1>6, <1>7, <1>8, <1>9 DEF IInv

LEMMA DialOpensInv ==
  ASSUME IInv, NEW p \in Connectors, DialOpens(p)
  PROVE  IInv'
<1>1. TypeOK'
  BY DEF IInv, TypeOK, DialOpens
<1>2. StagesSplit'
  BY DEF IInv, TypeOK, StagesSplit, DialOpens
<1>3. MutexHeld'
  BY DEF IInv, TypeOK, MutexHeld, DialOpens
<1>4. DialledFresh'
  BY DEF IInv, TypeOK, StagesSplit, MutexHeld, DialledFresh, NotStarted, ClientLive, DialOpens
<1>5. NotStarted'
  BY DEF IInv, TypeOK, NotStarted, DialOpens
<1>6. ClientLive'
  BY DEF IInv, TypeOK, ClientLive, DialOpens
<1>7. TriesLeft'
  BY DEF IInv, TypeOK, TriesLeft, DialOpens
<1>8. WatchersRun'
  BY DEF IInv, TypeOK, WatchersRun, DialOpens
<1>9. FlagHasOwner'
  BY DEF IInv, TypeOK, FlagHasOwner, DialOpens
<1>10. QED
  BY <1>1, <1>2, <1>3, <1>4, <1>5, <1>6, <1>7, <1>8, <1>9 DEF IInv

LEMMA DialFailsInv ==
  ASSUME IInv, NEW p \in Connectors, DialFails(p)
  PROVE  IInv'
<1>1. TypeOK'
  BY DEF IInv, TypeOK, DialFails, Returned, Leave
<1>2. StagesSplit'
  BY DEF IInv, TypeOK, StagesSplit, DialFails, Returned, Leave
<1>3. MutexHeld'
  BY DEF IInv, TypeOK, MutexHeld, DialFails, Returned, Leave
<1>4. DialledFresh'
  BY DEF IInv, TypeOK, DialledFresh, DialFails, Returned, Leave
<1>5. NotStarted'
  BY DEF IInv, TypeOK, NotStarted, DialFails, Returned, Leave
<1>6. ClientLive'
  BY DEF IInv, TypeOK, ClientLive, DialFails, Returned, Leave
<1>7. TriesLeft'
  BY DEF IInv, TypeOK, TriesLeft, DialFails, Returned, Leave
<1>8. WatchersRun'
  BY DEF IInv, TypeOK, WatchersRun, DialFails, Returned, Leave
<1>9. FlagHasOwner'
  BY DEF IInv, TypeOK, FlagHasOwner, DialFails, Returned, Leave
<1>10. QED
  BY <1>1, <1>2, <1>3, <1>4, <1>5, <1>6, <1>7, <1>8, <1>9 DEF IInv

LEMMA InstallInv ==
  ASSUME IInv, NEW p \in Connectors, Install(p)
  PROVE  IInv'
<1>1. TypeOK'
  BY DEF IInv, TypeOK, Install, Returned, Leave
<1>2. StagesSplit'
  BY DEF IInv, TypeOK, StagesSplit, Install, Returned, Leave
<1>3. MutexHeld'
  BY DEF IInv, TypeOK, MutexHeld, Install, Returned, Leave
<1>4. DialledFresh'
  BY DEF IInv, TypeOK, StagesSplit, MutexHeld, DialledFresh, Install, Returned, Leave
<1>5. NotStarted'
  BY DEF IInv, TypeOK, StagesSplit, MutexHeld, DialledFresh, NotStarted, Install, Returned, Leave
<1>6. ClientLive'
  BY DEF IInv, TypeOK, StagesSplit, MutexHeld, DialledFresh, ClientLive, Install, Returned, Leave
<1>7. TriesLeft'
  BY DEF IInv, TypeOK, TriesLeft, Install, Returned, Leave
<1>8. WatchersRun'
  BY DEF IInv, TypeOK, WatchersRun, Install, Returned, Leave
<1>9. FlagHasOwner'
  BY DEF IInv, TypeOK, FlagHasOwner, Install, Returned, Leave
<1>10. QED
  BY <1>1, <1>2, <1>3, <1>4, <1>5, <1>6, <1>7, <1>8, <1>9 DEF IInv

LEMMA AbandonDialInv ==
  ASSUME IInv, NEW p \in Connectors, AbandonDial(p)
  PROVE  IInv'
<1>1. TypeOK'
  <2>1. abandoned' \in 0..MaxAbandoned
    BY DEF IInv, TypeOK, AbandonDial
  <2>2. QED
    BY <2>1 DEF IInv, TypeOK, AbandonDial, Returned, Leave
<1>2. StagesSplit'
  BY DEF IInv, TypeOK, StagesSplit, AbandonDial, Returned, Leave
<1>3. MutexHeld'
  BY DEF IInv, TypeOK, MutexHeld, AbandonDial, Returned, Leave
<1>4. DialledFresh'
  BY DEF IInv, TypeOK, DialledFresh, AbandonDial, Returned, Leave
<1>5. NotStarted'
  BY DEF IInv, TypeOK, NotStarted, AbandonDial, Returned, Leave
<1>6. ClientLive'
  BY DEF IInv, TypeOK, ClientLive, AbandonDial, Returned, Leave
<1>7. TriesLeft'
  BY DEF IInv, TypeOK, TriesLeft, AbandonDial, Returned, Leave
<1>8. WatchersRun'
  BY DEF IInv, TypeOK, WatchersRun, AbandonDial, Returned, Leave
<1>9. FlagHasOwner'
  BY DEF IInv, TypeOK, FlagHasOwner, AbandonDial, Returned, Leave
<1>10. QED
  BY <1>1, <1>2, <1>3, <1>4, <1>5, <1>6, <1>7, <1>8, <1>9 DEF IInv

LEMMA RejectDialInv ==
  ASSUME IInv, NEW p \in Connectors, RejectDial(p)
  PROVE  IInv'
<1>1. TypeOK'
  <2>1. conn' \in [Clients -> ConnStates]
    BY DEF IInv, TypeOK, RejectDial
  <2>2. QED
    BY <2>1 DEF IInv, TypeOK, RejectDial, Returned, Leave
<1>2. StagesSplit'
  BY DEF IInv, TypeOK, StagesSplit, RejectDial, Returned, Leave
<1>3. MutexHeld'
  BY DEF IInv, TypeOK, MutexHeld, RejectDial, Returned, Leave
<1>4. DialledFresh'
  BY DEF IInv, TypeOK, StagesSplit, MutexHeld, DialledFresh, RejectDial, Returned, Leave
<1>5. NotStarted'
  BY DEF IInv, TypeOK, StagesSplit, MutexHeld, DialledFresh, NotStarted, RejectDial, Returned, Leave
<1>6. ClientLive'
  BY DEF IInv, TypeOK, StagesSplit, MutexHeld, ClientLive, RejectDial, Returned, Leave
<1>7. TriesLeft'
  BY DEF IInv, TypeOK, TriesLeft, RejectDial, Returned, Leave
<1>8. WatchersRun'
  BY DEF IInv, TypeOK, WatchersRun, RejectDial, Returned, Leave
<1>9. FlagHasOwner'
  BY DEF IInv, TypeOK, FlagHasOwner, RejectDial, Returned, Leave
<1>10. QED
  BY <1>1, <1>2, <1>3, <1>4, <1>5, <1>6, <1>7, <1>8, <1>9 DEF IInv

LEMMA LateDialInv ==
  ASSUME IInv, LateDial
  PROVE  IInv'
<1>1. TypeOK'
  BY DEF IInv, TypeOK, LateDial
<1>2. StagesSplit'
  BY DEF IInv, TypeOK, StagesSplit, LateDial
<1>3. MutexHeld'
  BY DEF IInv, TypeOK, MutexHeld, LateDial
<1>4. DialledFresh'
  BY DEF IInv, TypeOK, DialledFresh, LateDial
<1>5. NotStarted'
  BY DEF IInv, TypeOK, NotStarted, LateDial
<1>6. ClientLive'
  BY DEF IInv, TypeOK, ClientLive, LateDial
<1>7. TriesLeft'
  BY DEF IInv, TypeOK, TriesLeft, LateDial
<1>8. WatchersRun'
  BY DEF IInv, TypeOK, WatchersRun, LateDial
<1>9. FlagHasOwner'
  BY DEF IInv, TypeOK, FlagHasOwner, LateDial
<1>10. QED
  BY <1>1, <1>2, <1>3, <1>4, <1>5, <1>6, <1>7, <1>8, <1>9 DEF IInv

LEMMA MonitorExitInv ==
  ASSUME IInv, NEW k \in Clients, MonitorExit(k)
  PROVE  IInv'
<1>1. TypeOK'
  BY DEF IInv, TypeOK, MonitorExit
<1>2. StagesSplit'
  BY DEF IInv, TypeOK, StagesSplit, MonitorExit
<1>3. MutexHeld'
  BY DEF IInv, TypeOK, MutexHeld, MonitorExit
<1>4. DialledFresh'
  BY DEF IInv, TypeOK, DialledFresh, MonitorExit
<1>5. NotStarted'
  BY DEF IInv, TypeOK, NotStarted, MonitorExit
<1>6. ClientLive'
  BY DEF IInv, TypeOK, ClientLive, MonitorExit
<1>7. TriesLeft'
  BY DEF IInv, TypeOK, TriesLeft, MonitorExit
<1>8. WatchersRun'
  BY DEF IInv, TypeOK, WatchersRun, MonitorExit
<1>9. FlagHasOwner'
  BY DEF IInv, TypeOK, FlagHasOwner, MonitorExit
<1>10. QED
  BY <1>1, <1>2, <1>3, <1>4, <1>5, <1>6, <1>7, <1>8, <1>9 DEF IInv

LEMMA MonitorTickInv ==
  ASSUME IInv, NEW k \in Clients, MonitorTick(k)
  PROVE  IInv'
<1>1. TypeOK'
  BY DEF IInv, TypeOK, MonitorTick
<1>2. StagesSplit'
  BY DEF IInv, TypeOK, StagesSplit, MonitorTick
<1>3. MutexHeld'
  BY DEF IInv, TypeOK, MutexHeld, MonitorTick
<1>4. DialledFresh'
  BY DEF IInv, TypeOK, DialledFresh, MonitorTick
<1>5. NotStarted'
  BY DEF IInv, TypeOK, NotStarted, MonitorTick
<1>6. ClientLive'
  BY DEF IInv, TypeOK, ClientLive, MonitorTick
<1>7. TriesLeft'
  BY DEF IInv, TypeOK, TriesLeft, MonitorTick
<1>8. WatchersRun'
  BY DEF IInv, TypeOK, WatchersRun, MonitorTick
<1>9. FlagHasOwner'
  BY DEF IInv, TypeOK, FlagHasOwner, MonitorTick
<1>10. QED
  BY <1>1, <1>2, <1>3, <1>4, <1>5, <1>6, <1>7, <1>8, <1>9 DEF IInv

LEMMA MonitorReadInv ==
  ASSUME IInv, NEW k \in Clients, MonitorRead(k)
  PROVE  IInv'
<1>1. TypeOK'
  BY DEF IInv, TypeOK, MonitorRead
<1>2. StagesSplit'
  BY DEF IInv, TypeOK, StagesSplit, MonitorRead
<1>3. MutexHeld'
  BY DEF IInv, TypeOK, MutexHeld, MonitorRead
<1>4. DialledFresh'
  BY DEF IInv, TypeOK, DialledFresh, MonitorRead
<1>5. NotStarted'
  BY DEF IInv, TypeOK, NotStarted, MonitorRead
<1>6. ClientLive'
  BY DEF IInv, TypeOK, ClientLive, MonitorRead
<1>7. TriesLeft'
  BY DEF IInv, TypeOK, TriesLeft, MonitorRead
<1>8. WatchersRun'
  BY DEF IInv, TypeOK, WatchersRun, MonitorRead
<1>9. FlagHasOwner'
  BY DEF IInv, TypeOK, FlagHasOwner, MonitorRead
<1>10. QED
  BY <1>1, <1>2, <1>3, <1>4, <1>5, <1>6, <1>7, <1>8, <1>9 DEF IInv

LEMMA MonitorProbeInv ==
  ASSUME IInv, NEW k \in Clients, MonitorProbe(k)
  PROVE  IInv'
<1>1. TypeOK'
  BY DEF IInv, TypeOK, MonitorProbe
<1>2. StagesSplit'
  BY DEF IInv, TypeOK, StagesSplit, MonitorProbe
<1>3. MutexHeld'
  BY DEF IInv, TypeOK, MutexHeld, MonitorProbe
<1>4. DialledFresh'
  BY DEF IInv, TypeOK, DialledFresh, MonitorProbe
<1>5. NotStarted'
  BY DEF IInv, TypeOK, NotStarted, MonitorProbe
<1>6. ClientLive'
  BY DEF IInv, TypeOK, ClientLive, MonitorProbe
<1>7. TriesLeft'
  BY DEF IInv, TypeOK, TriesLeft, MonitorProbe
<1>8. WatchersRun'
  BY DEF IInv, TypeOK, WatchersRun, MonitorProbe
<1>9. FlagHasOwner'
  BY DEF IInv, TypeOK, FlagHasOwner, MonitorProbe
<1>10. QED
  BY <1>1, <1>2, <1>3, <1>4, <1>5, <1>6, <1>7, <1>8, <1>9 DEF IInv

LEMMA ClaimReconnectInv ==
  ASSUME IInv, NEW k \in Clients, ClaimReconnect(k)
  PROVE  IInv'
<1>1. TypeOK'
  BY DEF IInv, TypeOK, ClaimReconnect
<1>2. StagesSplit'
  BY DEF IInv, TypeOK, StagesSplit, ClaimReconnect
<1>3. MutexHeld'
  BY DEF IInv, TypeOK, MutexHeld, ClaimReconnect
<1>4. DialledFresh'
  BY DEF IInv, TypeOK, DialledFresh, ClaimReconnect
<1>5. NotStarted'
  BY DEF IInv, TypeOK, NotStarted, ClaimReconnect
<1>6. ClientLive'
  BY DEF IInv, TypeOK, ClientLive, ClaimReconnect
<1>7. TriesLeft'
  BY DEF IInv, TypeOK, TriesLeft, ClaimReconnect
<1>8. WatchersRun'
  BY DEF IInv, TypeOK, WatchersRun, ClaimReconnect
<1>9. FlagHasOwner'
  BY DEF IInv, TypeOK, FlagHasOwner, ClaimReconnect
<1>10. QED
  BY <1>1, <1>2, <1>3, <1>4, <1>5, <1>6, <1>7, <1>8, <1>9 DEF IInv

LEMMA CloseForReconnectInv ==
  ASSUME IInv, NEW k \in Clients, CloseForReconnect(k)
  PROVE  IInv'
<1>1. TypeOK'
  BY DEF IInv, TypeOK, CloseForReconnect, CloseClient
<1>2. StagesSplit'
  BY DEF IInv, TypeOK, StagesSplit, CloseForReconnect, CloseClient
<1>3. MutexHeld'
  BY DEF IInv, TypeOK, MutexHeld, CloseForReconnect, CloseClient
<1>4. DialledFresh'
  BY DEF IInv, TypeOK, StagesSplit, MutexHeld, DialledFresh, CloseForReconnect, CloseClient
<1>5. NotStarted'
  BY DEF IInv, TypeOK, NotStarted, CloseForReconnect, CloseClient
<1>6. ClientLive'
  BY DEF IInv, TypeOK, ClientLive, CloseForReconnect, CloseClient
<1>7. TriesLeft'
  BY DEF IInv, TypeOK, TriesLeft, CloseForReconnect, CloseClient
<1>8. WatchersRun'
  BY DEF IInv, TypeOK, WatchersRun, CloseForReconnect, CloseClient
<1>9. FlagHasOwner'
  BY DEF IInv, TypeOK, FlagHasOwner, CloseForReconnect, CloseClient
<1>10. QED
  BY <1>1, <1>2, <1>3, <1>4, <1>5, <1>6, <1>7, <1>8, <1>9 DEF IInv

LEMMA NextAttemptInv ==
  ASSUME IInv, NEW k \in Clients, NextAttempt(k)
  PROVE  IInv'
<1>1. TypeOK'
  <2>1. tries' \in [Clients -> 0..MaxAttempts]
    BY DEF IInv, TypeOK, TriesLeft, NextAttempt
  <2>2. QED
    BY <2>1 DEF IInv, TypeOK, NextAttempt
<1>2. StagesSplit'
  BY DEF IInv, TypeOK, StagesSplit, NextAttempt
<1>3. MutexHeld'
  BY DEF IInv, TypeOK, MutexHeld, NextAttempt
<1>4. DialledFresh'
  BY DEF IInv, TypeOK, DialledFresh, NextAttempt
<1>5. NotStarted'
  BY DEF IInv, TypeOK, NotStarted, NextAttempt
<1>6. ClientLive'
  BY DEF IInv, TypeOK, ClientLive, NextAttempt
<1>7. TriesLeft'
  BY DEF IInv, TypeOK, TriesLeft, NextAttempt
<1>8. WatchersRun'
  BY DEF IInv, TypeOK, WatchersRun, NextAttempt
<1>9. FlagHasOwner'
  <2>1. CASE tries[k] + 1 < MaxAttempts
    BY <2>1 DEF IInv, TypeOK, StagesSplit, FlagHasOwner, NextAttempt
  <2>2. CASE ~ (tries[k] + 1 < MaxAttempts)
    BY <2>2 DEF FlagHasOwner, NextAttempt
  <2>3. QED
    BY <2>1, <2>2
<1>10. QED
  BY <1>1, <1>2, <1>3, <1>4, <1>5, <1>6, <1>7, <1>8, <1>9 DEF IInv

LEMMA ReconnectedInv ==
  ASSUME IInv, NEW k \in Clients, Reconnected(k)
  PROVE  IInv'
<1>1. TypeOK'
  BY DEF IInv, TypeOK, Reconnected
<1>2. StagesSplit'
  BY DEF IInv, TypeOK, StagesSplit, Reconnected
<1>3. MutexHeld'
  BY DEF IInv, TypeOK, MutexHeld, Reconnected
<1>4. DialledFresh'
  BY DEF IInv, TypeOK, DialledFresh, Reconnected
<1>5. NotStarted'
  BY DEF IInv, TypeOK, NotStarted, Reconnected
<1>6. ClientLive'
  BY DEF IInv, TypeOK, ClientLive, Reconnected
<1>7. TriesLeft'
  BY DEF IInv, TypeOK, TriesLeft, Reconnected
<1>8. WatchersRun'
  BY DEF IInv, TypeOK, WatchersRun, Reconnected
<1>9. FlagHasOwner'
  BY DEF IInv, TypeOK, FlagHasOwner, Reconnected
<1>10. QED
  BY <1>1, <1>2, <1>3, <1>4, <1>5, <1>6, <1>7, <1>8, <1>9 DEF IInv

LEMMA KeeperExitInv ==
  ASSUME IInv, NEW k \in Clients, KeeperExit(k)
  PROVE  IInv'
<1>1. TypeOK'
  BY DEF IInv, TypeOK, KeeperExit, KeeperGoto
<1>2. StagesSplit'
  BY DEF IInv, TypeOK, StagesSplit, KeeperExit, KeeperGoto
<1>3. MutexHeld'
  BY DEF IInv, TypeOK, MutexHeld, KeeperExit, KeeperGoto
<1>4. DialledFresh'
  BY DEF IInv, TypeOK, DialledFresh, KeeperExit, KeeperGoto
<1>5. NotStarted'
  BY DEF IInv, TypeOK, NotStarted, KeeperExit, KeeperGoto
<1>6. ClientLive'
  BY DEF IInv, TypeOK, ClientLive, KeeperExit, KeeperGoto
<1>7. TriesLeft'
  BY DEF IInv, TypeOK, TriesLeft, KeeperExit, KeeperGoto
<1>8. WatchersRun'
  BY DEF IInv, TypeOK, WatchersRun, KeeperExit, KeeperGoto
<1>9. FlagHasOwner'
  BY DEF IInv, TypeOK, FlagHasOwner, KeeperExit, KeeperGoto
<1>10. QED
  BY <1>1, <1>2, <1>3, <1>4, <1>5, <1>6, <1>7, <1>8, <1>9 DEF IInv

LEMMA KeeperTickInv ==
  ASSUME IInv, NEW k \in Clients, KeeperTick(k)
  PROVE  IInv'
<1>1. TypeOK'
  BY DEF IInv, TypeOK, KeeperTick, KeeperGoto
<1>2. StagesSplit'
  BY DEF IInv, TypeOK, StagesSplit, KeeperTick, KeeperGoto
<1>3. MutexHeld'
  BY DEF IInv, TypeOK, MutexHeld, KeeperTick, KeeperGoto
<1>4. DialledFresh'
  BY DEF IInv, TypeOK, DialledFresh, KeeperTick, KeeperGoto
<1>5. NotStarted'
  BY DEF IInv, TypeOK, NotStarted, KeeperTick, KeeperGoto
<1>6. ClientLive'
  BY DEF IInv, TypeOK, ClientLive, KeeperTick, KeeperGoto
<1>7. TriesLeft'
  BY DEF IInv, TypeOK, TriesLeft, KeeperTick, KeeperGoto
<1>8. WatchersRun'
  BY DEF IInv, TypeOK, WatchersRun, KeeperTick, KeeperGoto
<1>9. FlagHasOwner'
  BY DEF IInv, TypeOK, FlagHasOwner, KeeperTick, KeeperGoto
<1>10. QED
  BY <1>1, <1>2, <1>3, <1>4, <1>5, <1>6, <1>7, <1>8, <1>9 DEF IInv

LEMMA KeeperReadInv ==
  ASSUME IInv, NEW k \in Clients, KeeperRead(k)
  PROVE  IInv'
<1>1. TypeOK'
  BY DEF IInv, TypeOK, KeeperRead, KeeperGoto
<1>2. StagesSplit'
  BY DEF IInv, TypeOK, StagesSplit, KeeperRead, KeeperGoto
<1>3. MutexHeld'
  BY DEF IInv, TypeOK, MutexHeld, KeeperRead, KeeperGoto
<1>4. DialledFresh'
  BY DEF IInv, TypeOK, DialledFresh, KeeperRead, KeeperGoto
<1>5. NotStarted'
  BY DEF IInv, TypeOK, NotStarted, KeeperRead, KeeperGoto
<1>6. ClientLive'
  BY DEF IInv, TypeOK, ClientLive, KeeperRead, KeeperGoto
<1>7. TriesLeft'
  BY DEF IInv, TypeOK, TriesLeft, KeeperRead, KeeperGoto
<1>8. WatchersRun'
  BY DEF IInv, TypeOK, WatchersRun, KeeperRead, KeeperGoto
<1>9. FlagHasOwner'
  BY DEF IInv, TypeOK, FlagHasOwner, KeeperRead, KeeperGoto
<1>10. QED
  BY <1>1, <1>2, <1>3, <1>4, <1>5, <1>6, <1>7, <1>8, <1>9 DEF IInv

LEMMA KeeperProbeInv ==
  ASSUME IInv, NEW k \in Clients, KeeperProbe(k)
  PROVE  IInv'
<1>1. TypeOK'
  BY DEF IInv, TypeOK, KeeperProbe, KeeperGoto
<1>2. StagesSplit'
  BY DEF IInv, TypeOK, StagesSplit, KeeperProbe, KeeperGoto
<1>3. MutexHeld'
  BY DEF IInv, TypeOK, MutexHeld, KeeperProbe, KeeperGoto
<1>4. DialledFresh'
  BY DEF IInv, TypeOK, DialledFresh, KeeperProbe, KeeperGoto
<1>5. NotStarted'
  BY DEF IInv, TypeOK, NotStarted, KeeperProbe, KeeperGoto
<1>6. ClientLive'
  BY DEF IInv, TypeOK, ClientLive, KeeperProbe, KeeperGoto
<1>7. TriesLeft'
  BY DEF IInv, TypeOK, TriesLeft, KeeperProbe, KeeperGoto
<1>8. WatchersRun'
  BY DEF IInv, TypeOK, WatchersRun, KeeperProbe, KeeperGoto
<1>9. FlagHasOwner'
  BY DEF IInv, TypeOK, FlagHasOwner, KeeperProbe, KeeperGoto
<1>10. QED
  BY <1>1, <1>2, <1>3, <1>4, <1>5, <1>6, <1>7, <1>8, <1>9 DEF IInv

LEMMA KeeperCloseInv ==
  ASSUME IInv, NEW k \in Clients, KeeperClose(k)
  PROVE  IInv'
<1>1. TypeOK'
  BY DEF IInv, TypeOK, KeeperClose, CloseClient, KeeperGoto
<1>2. StagesSplit'
  BY DEF IInv, TypeOK, StagesSplit, KeeperClose, CloseClient, KeeperGoto
<1>3. MutexHeld'
  BY DEF IInv, TypeOK, MutexHeld, KeeperClose, CloseClient, KeeperGoto
<1>4. DialledFresh'
  BY DEF IInv, TypeOK, StagesSplit, MutexHeld, DialledFresh, KeeperClose, CloseClient, KeeperGoto
<1>5. NotStarted'
  BY DEF IInv, TypeOK, NotStarted, KeeperClose, CloseClient, KeeperGoto
<1>6. ClientLive'
  BY DEF IInv, TypeOK, ClientLive, KeeperClose, CloseClient, KeeperGoto
<1>7. TriesLeft'
  BY DEF IInv, TypeOK, TriesLeft, KeeperClose, CloseClient, KeeperGoto
<1>8. WatchersRun'
  BY DEF IInv, TypeOK, WatchersRun, KeeperClose, CloseClient, KeeperGoto
<1>9. FlagHasOwner'
  BY DEF IInv, TypeOK, FlagHasOwner, KeeperClose, CloseClient, KeeperGoto
<1>10. QED
  BY <1>1, <1>2, <1>3, <1>4, <1>5, <1>6, <1>7, <1>8, <1>9 DEF IInv

LEMMA ConnectionDiesInv ==
  ASSUME IInv, NEW k \in Clients, ConnectionDies(k)
  PROVE  IInv'
<1>1. TypeOK'
  BY DEF IInv, TypeOK, ConnectionDies
<1>2. StagesSplit'
  BY DEF IInv, TypeOK, StagesSplit, ConnectionDies
<1>3. MutexHeld'
  BY DEF IInv, TypeOK, MutexHeld, ConnectionDies
<1>4. DialledFresh'
  BY DEF IInv, TypeOK, DialledFresh, ConnectionDies
<1>5. NotStarted'
  BY DEF IInv, TypeOK, NotStarted, ConnectionDies
<1>6. ClientLive'
  BY DEF IInv, TypeOK, ClientLive, ConnectionDies
<1>7. TriesLeft'
  BY DEF IInv, TypeOK, TriesLeft, ConnectionDies
<1>8. WatchersRun'
  BY DEF IInv, TypeOK, WatchersRun, ConnectionDies
<1>9. FlagHasOwner'
  BY DEF IInv, TypeOK, FlagHasOwner, ConnectionDies
<1>10. QED
  BY <1>1, <1>2, <1>3, <1>4, <1>5, <1>6, <1>7, <1>8, <1>9 DEF IInv

LEMMA CallDisconnectInv ==
  ASSUME IInv, CallDisconnect
  PROVE  IInv'
<1>1. TypeOK'
  BY DEF IInv, TypeOK, CallDisconnect
<1>2. StagesSplit'
  BY DEF IInv, TypeOK, StagesSplit, CallDisconnect
<1>3. MutexHeld'
  BY DEF IInv, TypeOK, MutexHeld, CallDisconnect
<1>4. DialledFresh'
  BY DEF IInv, TypeOK, DialledFresh, CallDisconnect
<1>5. NotStarted'
  BY DEF IInv, TypeOK, NotStarted, CallDisconnect
<1>6. ClientLive'
  BY DEF IInv, TypeOK, ClientLive, CallDisconnect
<1>7. TriesLeft'
  BY DEF IInv, TypeOK, TriesLeft, CallDisconnect
<1>8. WatchersRun'
  BY DEF IInv, TypeOK, WatchersRun, CallDisconnect
<1>9. FlagHasOwner'
  BY DEF IInv, TypeOK, FlagHasOwner, CallDisconnect
<1>10. QED
  BY <1>1, <1>2, <1>3, <1>4, <1>5, <1>6, <1>7, <1>8, <1>9 DEF IInv

LEMMA DisconnectInv ==
  ASSUME IInv, Disconnect
  PROVE  IInv'
<1>1. TypeOK'
  BY DEF IInv, TypeOK, Disconnect, CloseClient
<1>2. StagesSplit'
  BY DEF IInv, TypeOK, StagesSplit, Disconnect, CloseClient
<1>3. MutexHeld'
  BY DEF IInv, TypeOK, MutexHeld, Disconnect, CloseClient
<1>4. DialledFresh'
  BY DEF IInv, TypeOK, StagesSplit, MutexHeld, DialledFresh, Disconnect, CloseClient
<1>5. NotStarted'
  BY DEF IInv, TypeOK, NotStarted, Disconnect, CloseClient
<1>6. ClientLive'
  BY DEF IInv, TypeOK, ClientLive, Disconnect, CloseClient
<1>7. TriesLeft'
  BY DEF IInv, TypeOK, TriesLeft, Disconnect, CloseClient
<1>8. WatchersRun'
  BY DEF IInv, TypeOK, WatchersRun, Disconnect, CloseClient
<1>9. FlagHasOwner'
  BY DEF IInv, TypeOK, FlagHasOwner, Disconnect, CloseClient
<1>10. QED
  BY <1>1, <1>2, <1>3, <1>4, <1>5, <1>6, <1>7, <1>8, <1>9 DEF IInv

LEMMA StepInv == IInv /\ [Next]_vars => IInv'
<1> SUFFICES ASSUME IInv, [Next]_vars PROVE IInv'
  OBVIOUS
<1>1. ASSUME NEW p \in Connectors, Connect(p) PROVE IInv'
  BY <1>1, EnterConnectInv, AlreadyConnectedInv, StartDialInv, DialOpensInv,
     DialFailsInv, InstallInv, AbandonDialInv, RejectDialInv
     DEF Connect, TakeLock, DialEnds
<1>2. ASSUME NEW k \in Clients, MonitorConnection(k) PROVE IInv'
  BY <1>2, MonitorExitInv, MonitorTickInv, MonitorReadInv, MonitorProbeInv,
     ClaimReconnectInv, CloseForReconnectInv, NextAttemptInv, ReconnectedInv
     DEF MonitorConnection
<1>3. ASSUME NEW k \in Clients, KeepAlive(k) PROVE IInv'
  BY <1>3, KeeperExitInv, KeeperTickInv, KeeperReadInv, KeeperProbeInv, KeeperCloseInv
     DEF KeepAlive
<1>4. CASE UNCHANGED vars
  BY <1>4 DEF vars, IInv, TypeOK, StagesSplit, MutexHeld, DialledFresh, NotStarted,
     ClientLive, TriesLeft, WatchersRun, FlagHasOwner
<1>5. QED
  BY <1>1, <1>2, <1>3, <1>4, LateDialInv, ConnectionDiesInv, CallDisconnectInv,
     DisconnectInv DEF Next

\* IInv holds in every reachable state.
THEOREM Invariance == SafetySpec => []IInv
  BY InitInv, StepInv, PTL DEF SafetySpec

-----------------------------------------------------------------------------
(* What the invariant implies.                                             *)

\* Every variable of the tunnel keeps its type.
THEOREM TypeCorrect == SafetySpec => []TypeOK
<1>1. IInv => TypeOK
  BY DEF IInv
<1>2. QED
  BY <1>1, Invariance, PTL

\* t.mu serialises the dials of all callers and monitors.
THEOREM DialsSerialised == SafetySpec => []OneDial
<1>1. IInv => OneDial
  BY DEF IInv, MutexHeld, OneDial
<1>2. QED
  BY <1>1, Invariance, PTL

\* The reconnecting flag is never stuck (tunnel.go:58-59, 146-149).
THEOREM FlagNeverStuck == SafetySpec => []FlagHasOwner
<1>1. IInv => FlagHasOwner
  BY DEF IInv
<1>2. QED
  BY <1>1, Invariance, PTL

\* A forward never gets a client that somebody has closed.
THEOREM ClientUsable == SafetySpec => []ClientNotClosed
<1>1. IInv => ClientNotClosed
  BY DEF IInv, ClientLive, ClientNotClosed
<1>2. QED
  BY <1>1, Invariance, PTL

\* The client is watched by its monitor and keepAlive until Disconnect.
THEOREM ClientWatched == SafetySpec => []ClientIsWatched
<1>1. IInv => ClientIsWatched
  BY DEF IInv, TypeOK, ClientLive, WatchersRun, ClientIsWatched
<1>2. QED
  BY <1>1, Invariance, PTL

-----------------------------------------------------------------------------
(* Who lets go of a connection.                                            *)

\* The connection k is kept, closed, or given up by a Connect that times out.
Accounted(k) ==
    /\ Held(k) /\ ~ Held(k)' => conn'[k] = "closed" \/ GivesUpOn(k)
    /\ conn[k] = "unused" /\ conn'[k] # "unused" => Held(k)' \/ abandoned' < abandoned

LEMMA QuietAccounted ==
  ASSUME NEW k \in Clients, UNCHANGED <<client, conn, dialled>>
  PROVE  Accounted(k)
BY DEF Accounted, Held

LEMMA CloseAccounted ==
  ASSUME IInv, NEW k \in Clients, CloseClient, UNCHANGED dialled
  PROVE  Accounted(k)
<1>1. conn[k] = "unused" => conn'[k] = "unused"
  BY DEF CloseClient, IInv, TypeOK, ClientLive
<1>2. Held(k) /\ ~ Held(k)' => conn'[k] = "closed"
  BY DEF CloseClient, IInv, TypeOK, Held
<1>3. QED
  BY <1>1, <1>2 DEF Accounted

LEMMA ConnectAccounted ==
  ASSUME IInv, NEW p \in Connectors, Connect(p), NEW k \in Clients
  PROVE  Accounted(k)
<1>1. CASE DialOpens(p)
  <2>1. PICK j \in Clients : /\ conn[j] = "unused" /\ conn' = [conn EXCEPT ![j] = "open"]
                             /\ dialled' = [dialled EXCEPT ![p] = j]
    BY <1>1 DEF DialOpens
  <2>2. client' = client /\ dialled[p] = None
    BY <1>1 DEF DialOpens
  <2>3. Held(k) => Held(k)'
    BY <2>1, <2>2 DEF Held, IInv, TypeOK
  <2>4. conn[k] = "unused" /\ conn'[k] # "unused" => Held(k)'
    BY <2>1 DEF Held, IInv, TypeOK
  <2>5. QED
    BY <2>3, <2>4 DEF Accounted
<1>2. CASE Install(p)
  <2>1. client = None /\ dialled' = [dialled EXCEPT ![p] = None]
        /\ client' = dialled[p] /\ conn' = conn
    BY <1>2 DEF Install, IInv, MutexHeld
  <2>2. Held(k) => Held(k)'
    BY <2>1 DEF Held, IInv, TypeOK
  <2>3. QED
    BY <2>1, <2>2 DEF Accounted
<1>3. CASE RejectDial(p)
  <2>0. dialled[p] \in Clients /\ conn[dialled[p]] # "unused"
    BY <1>3 DEF RejectDial, IInv, TypeOK, DialledFresh
  <2>1. /\ client' = client /\ dialled' = [dialled EXCEPT ![p] = None]
        /\ pc' = [pc EXCEPT ![p] = Returned(p, "failed")]
        /\ conn' = conn \/ conn' = [conn EXCEPT ![dialled[p]] = "closed"]
    BY <1>3, <2>0 DEF RejectDial
  <2>2. Held(k) /\ ~ Held(k)' => GivesUpOn(k)
    BY <2>1 DEF Held, GivesUpOn, IInv, TypeOK
  <2>3. conn[k] = "unused" => conn'[k] = "unused"
    BY <2>0, <2>1 DEF IInv, TypeOK
  <2>4. QED
    BY <2>2, <2>3 DEF Accounted
<1>4. CASE EnterConnect(p) \/ TakeLock(p) \/ DialFails(p) \/ AbandonDial(p)
  BY <1>4, QuietAccounted DEF EnterConnect, TakeLock, AlreadyConnected, StartDial,
     DialFails, AbandonDial
<1>5. QED
  BY <1>1, <1>2, <1>3, <1>4 DEF Connect, DialEnds

LEMMA StepAccounted ==
  ASSUME IInv, [Next]_vars, NEW k \in Clients
  PROVE  Accounted(k)
<1>1. CASE LateDial
  <2>1. /\ UNCHANGED <<client, dialled>> /\ abandoned' = abandoned - 1
        /\ abandoned \in Nat
    BY <1>1 DEF LateDial, IInv, TypeOK
  <2>2. abandoned' < abandoned
    BY <2>1
  <2>3. QED
    BY <2>1, <2>2 DEF Accounted, Held
<1>2. ASSUME NEW j \in Clients, MonitorConnection(j) PROVE Accounted(k)
  <2>1. CASE CloseForReconnect(j)
    BY <2>1, CloseAccounted DEF CloseForReconnect
  <2>2. CASE ~ CloseForReconnect(j)
    BY <1>2, <2>2, QuietAccounted DEF MonitorConnection, MonitorExit, MonitorTick, MonitorRead,
       MonitorProbe, ClaimReconnect, NextAttempt, Reconnected
  <2>3. QED
    BY <2>1, <2>2
<1>3. ASSUME NEW j \in Clients, KeepAlive(j) PROVE Accounted(k)
  <2>1. CASE KeeperClose(j)
    BY <2>1, CloseAccounted DEF KeeperClose
  <2>2. CASE ~ KeeperClose(j)
    BY <1>3, <2>2, QuietAccounted DEF KeepAlive, KeeperExit, KeeperTick, KeeperRead, KeeperProbe
  <2>3. QED
    BY <2>1, <2>2
<1>4. ASSUME NEW j \in Clients, ConnectionDies(j) PROVE Accounted(k)
  BY <1>4 DEF ConnectionDies, Accounted, Held, IInv, TypeOK
<1>5. CASE Disconnect
  BY <1>5, CloseAccounted DEF Disconnect
<1>6. CASE CallDisconnect \/ UNCHANGED vars
  BY <1>6, QuietAccounted DEF CallDisconnect, vars
<1>7. QED
  BY <1>1, <1>2, <1>3, <1>4, <1>5, <1>6, ConnectAccounted DEF Next

\* An open connection is left without an owner only by a Connect that times out
\* (tunnel.go:83-90): every other step that lets go of one closes it, and no
\* client is overwritten (lines 54, 98, 151-156, 211-217, 302-313).
THEOREM NoConnectionLost == SafetySpec => OnlyTimeoutsLeak
<1>1. IInv /\ [Next]_vars => \A k \in Clients : Accounted(k)
  BY StepAccounted
<1>2. (\A k \in Clients : Accounted(k)) =>
        \A k \in Clients :
          /\ Held(k) /\ ~ Held(k)' => conn'[k] = "closed" \/ GivesUpOn(k)
          /\ conn[k] = "unused" /\ conn'[k] # "unused" => Held(k)' \/ abandoned' < abandoned
  BY DEF Accounted
<1>3. QED
  BY <1>1, <1>2, Invariance, PTL DEF SafetySpec, OnlyTimeoutsLeak

-----------------------------------------------------------------------------
(* The tunnel implements TunnelLink.                                       *)

LEMMA InitLink == Init => Link!Init
  BY DEF Init, Link!Init, Retired

\* Installing the client of a dial offers a client that was never offered.
LEMMA InstallEstablishes ==
  ASSUME IInv, NEW p \in Connectors, Install(p)
  PROVE  Link!Next
<1> DEFINE k == dialled[p]
<1>1. k \in Clients /\ pc[k] = "none" /\ conn[k] # "closed"
  BY DEF Install, IInv, TypeOK, DialledFresh
<1>2. client = None
  BY DEF Install, IInv, MutexHeld
<1>3. Retired' = Retired
  <2>1. ASSUME NEW j \in Clients
        PROVE  pc'[j] # "none" /\ conn'[j] = "closed" <=> pc[j] # "none" /\ conn[j] = "closed"
    <3>1. CASE j = k
      BY <3>1, <1>1 DEF Install
    <3>2. CASE j # k
      BY <3>2, <1>1 DEF Install, IInv, TypeOK, Returned
    <3>3. QED
      BY <3>1, <3>2
  <2>2. QED
    BY <2>1 DEF Retired
<1>4. k \notin Retired
  BY <1>1 DEF Retired
<1>5. Link!Establish(k)
  BY <1>2, <1>3, <1>4 DEF Link!Establish, Install
<1>6. QED
  BY <1>1, <1>5 DEF Link!Next

\* CloseClient takes the client out and closes it: a drop if there is one.
LEMMA CloseDrops ==
  ASSUME IInv, CloseClient,
         \A k \in Clients : (pc'[k] = "none") <=> (pc[k] = "none")
  PROVE  Link!Drop \/ UNCHANGED Link!vars
<1>1. CASE client = None
  BY <1>1 DEF CloseClient, Retired, Link!vars
<1>2. CASE client # None
  <2>1. client \in Clients /\ pc[client] # "none"
    BY <1>2 DEF IInv, TypeOK, ClientLive
  <2>2. conn' = [conn EXCEPT ![client] = "closed"]
    BY <1>2 DEF CloseClient
  <2>3. Retired' = Retired \cup {client}
    BY <2>1, <2>2 DEF Retired, IInv, TypeOK
  <2>4. QED
    BY <1>2, <2>3 DEF Link!Drop, CloseClient
<1>3. QED
  BY <1>1, <1>2

\* A step that keeps the client, starts no monitor and closes no connection
\* of a client that was offered is invisible.
LEMMA Invisible ==
  ASSUME client' = client,
         \A k \in Clients : (pc'[k] # "none" /\ conn'[k] = "closed")
                               <=> (pc[k] # "none" /\ conn[k] = "closed")
  PROVE  UNCHANGED Link!vars
  BY DEF Retired, Link!vars

LEMMA StepLink == IInv /\ [Next]_vars => [Link!Next]_(Link!vars)
<1> SUFFICES ASSUME IInv, [Next]_vars PROVE [Link!Next]_(Link!vars)
  OBVIOUS
<1>1. ASSUME NEW p \in Connectors, Connect(p) PROVE [Link!Next]_(Link!vars)
  <2>1. CASE EnterConnect(p) \/ TakeLock(p)
    BY <2>1, Invisible DEF IInv, TypeOK, StagesSplit, EnterConnect, TakeLock,
       AlreadyConnected, StartDial, Returned
  <2>2. CASE DialOpens(p)
    BY <2>2, Invisible DEF IInv, TypeOK, NotStarted, DialOpens
  <2>3. CASE DialFails(p) \/ AbandonDial(p)
    BY <2>3, Invisible DEF IInv, TypeOK, StagesSplit, DialFails, AbandonDial, Returned, Leave
  <2>4. CASE Install(p)
    BY <2>4, InstallEstablishes
  <2>5. CASE RejectDial(p)
    <3>1. dialled[p] \in Clients /\ pc[dialled[p]] = "none" /\ p # dialled[p]
      BY <2>5 DEF RejectDial, IInv, TypeOK, DialledFresh
    <3>2. QED
      BY <2>5, <3>1, Invisible DEF IInv, TypeOK, RejectDial, Returned
  <2>6. QED
    BY <1>1, <2>1, <2>2, <2>3, <2>4, <2>5 DEF Connect, DialEnds
<1>2. CASE LateDial
  BY <1>2, Invisible DEF IInv, TypeOK, NotStarted, LateDial
<1>3. ASSUME NEW k \in Clients, MonitorConnection(k) PROVE [Link!Next]_(Link!vars)
  <2>1. CASE CloseForReconnect(k)
    BY <2>1, CloseDrops DEF IInv, TypeOK, CloseForReconnect, Link!Next
  <2>2. CASE MonitorExit(k) \/ MonitorTick(k) \/ MonitorRead(k) \/ MonitorProbe(k)
    BY <2>2, Invisible DEF IInv, TypeOK, MonitorExit, MonitorTick, MonitorRead, MonitorProbe
  <2>3. CASE ClaimReconnect(k) \/ NextAttempt(k) \/ Reconnected(k)
    BY <2>3, Invisible DEF IInv, TypeOK, ClaimReconnect, NextAttempt, Reconnected
  <2>4. QED
    BY <1>3, <2>1, <2>2, <2>3 DEF MonitorConnection
<1>4. ASSUME NEW k \in Clients, KeepAlive(k) PROVE [Link!Next]_(Link!vars)
  <2>1. CASE KeeperClose(k)
    BY <2>1, CloseDrops DEF KeeperClose, Link!Next
  <2>2. CASE KeeperExit(k) \/ KeeperTick(k) \/ KeeperRead(k) \/ KeeperProbe(k)
    BY <2>2, Invisible DEF KeeperExit, KeeperTick, KeeperRead, KeeperProbe
  <2>3. QED
    BY <1>4, <2>1, <2>2 DEF KeepAlive
<1>5. ASSUME NEW k \in Clients, ConnectionDies(k) PROVE [Link!Next]_(Link!vars)
  BY <1>5, Invisible DEF IInv, TypeOK, ConnectionDies
<1>6. CASE CallDisconnect
  BY <1>6, Invisible DEF CallDisconnect
<1>7. CASE Disconnect
  BY <1>7, CloseDrops DEF Disconnect, Link!Next
<1>8. CASE UNCHANGED vars
  BY <1>8, Invisible DEF vars
<1>9. QED
  BY <1>1, <1>2, <1>3, <1>4, <1>5, <1>6, <1>7, <1>8 DEF Next

\* One client at a time, closed in the step that takes it out, never again.
THEOREM ImplementsLink == SafetySpec => LinkSpec
  BY InitLink, StepLink, Invariance, PTL DEF SafetySpec, LinkSpec, Link!Spec

-----------------------------------------------------------------------------
(* A reconnect ends.                                                       *)

\* StepsLeft as a function of the stage and of the attempts of a monitor.
Left(stage, t) ==
    CASE stage = "close" -> 4 * MaxAttempts + 1
      [] stage = "attempt" -> 4 * (MaxAttempts - t)
      [] stage = "lock" -> 4 * (MaxAttempts - t) - 1
      [] stage = "dial" -> 4 * (MaxAttempts - t) - 2
      [] stage \in {"failed", "restored"} -> 4 * (MaxAttempts - t) - 3
      [] OTHER -> 0

LEMMA StepsLeftIsLeft ==
  ASSUME NEW k \in Clients
  PROVE  StepsLeft(k) = Left(pc[k], tries[k]) /\ StepsLeft(k)' = Left(pc'[k], tries'[k])
BY DEF StepsLeft, Left

\* Where a monitor in reconnect may go next, and with how many attempts.
Advances(stage, t, stage2, t2) ==
    \/ stage = "close" /\ stage2 = "attempt" /\ t2 = 0
    \/ stage = "attempt" /\ stage2 \in {"lock", "failed"} /\ t2 = t
    \/ stage = "lock" /\ stage2 \in {"dial", "restored"} /\ t2 = t
    \/ stage = "dial" /\ stage2 \in {"failed", "restored"} /\ t2 = t
    \/ stage = "failed" /\ stage2 \in {"attempt", "wait"} /\ t2 = t + 1
    \/ stage = "restored" /\ stage2 = "wait" /\ t2 = t

LEMMA AdvanceIsNearer ==
  ASSUME NEW stage, NEW t \in 0..MaxAttempts, NEW stage2, NEW t2,
         stage # "close" => t < MaxAttempts,
         Advances(stage, t, stage2, t2)
  PROVE  Left(stage2, t2) < Left(stage, t)
<1>1. CASE stage = "close"
  BY <1>1 DEF Advances, Left
<1>2. CASE stage = "attempt"
  BY <1>2 DEF Advances, Left
<1>3. CASE stage = "lock"
  BY <1>3 DEF Advances, Left
<1>4. CASE stage = "dial"
  BY <1>4 DEF Advances, Left
<1>5. CASE stage = "failed"
  BY <1>5 DEF Advances, Left
<1>6. CASE stage = "restored"
  BY <1>6 DEF Advances, Left
<1>7. QED
  BY <1>1, <1>2, <1>3, <1>4, <1>5, <1>6 DEF Advances

\* A monitor in reconnect stays where it is or advances, whatever step the
\* tunnel takes.
LEMMA ReconnectAdvances ==
  ASSUME IInv, [Next]_vars, NEW k \in Clients, pc[k] \in InReconnect
  PROVE  \/ pc'[k] = pc[k] /\ tries'[k] = tries[k]
         \/ Advances(pc[k], tries[k], pc'[k], tries'[k])
<1> USE DEF IInv, TypeOK
<1>1. ASSUME NEW p \in Connectors, Connect(p)
      PROVE  \/ pc'[k] = pc[k] /\ tries'[k] = tries[k]
             \/ Advances(pc[k], tries[k], pc'[k], tries'[k])
  <2>0. tries' = tries
    BY <1>1 DEF Connect, EnterConnect, TakeLock, AlreadyConnected, StartDial, DialOpens,
                DialEnds, DialFails, Install, AbandonDial, RejectDial
  <2>1. CASE EnterConnect(p)
    BY <2>0, <2>1 DEF EnterConnect, Returned, Advances
  <2>2. CASE TakeLock(p)
    BY <2>0, <2>2 DEF TakeLock, AlreadyConnected, StartDial, Returned, Advances
  <2>3. CASE DialOpens(p)
    BY <2>0, <2>3 DEF DialOpens
  <2>4. CASE DialFails(p) \/ AbandonDial(p) \/ RejectDial(p)
    BY <2>0, <2>4 DEF DialFails, AbandonDial, RejectDial, Returned, Advances
  <2>5. CASE Install(p)
    <3>1. dialled[p] # k
      BY <2>5 DEF Install, DialledFresh
    <3>2. QED
      BY <2>0, <2>5, <3>1 DEF Install, Returned, Advances
  <2>6. QED
    BY <1>1, <2>1, <2>2, <2>3, <2>4, <2>5 DEF Connect, DialEnds
<1>2. ASSUME NEW j \in Clients, MonitorConnection(j)
      PROVE  \/ pc'[k] = pc[k] /\ tries'[k] = tries[k]
             \/ Advances(pc[k], tries[k], pc'[k], tries'[k])
  <2>1. CASE MonitorExit(j) \/ MonitorTick(j) \/ MonitorRead(j) \/ MonitorProbe(j) \/ ClaimReconnect(j)
    BY <2>1 DEF MonitorExit, MonitorTick, MonitorRead, MonitorProbe, ClaimReconnect
  <2>2. CASE CloseForReconnect(j)
    BY <2>2 DEF CloseForReconnect, Advances
  <2>3. CASE NextAttempt(j)
    BY <2>3 DEF NextAttempt, Advances
  <2>4. CASE Reconnected(j)
    BY <2>4 DEF Reconnected, Advances
  <2>5. QED
    BY <1>2, <2>1, <2>2, <2>3, <2>4 DEF MonitorConnection
<1>3. CASE UNCHANGED <<pc, tries>>
  BY <1>3
<1>4. ASSUME NEW j \in Clients, KeepAlive(j) \/ ConnectionDies(j) PROVE UNCHANGED <<pc, tries>>
  BY <1>4 DEF KeepAlive, KeeperExit, KeeperTick, KeeperRead, KeeperProbe, KeeperClose,
              ConnectionDies
<1>5. CASE LateDial \/ CallDisconnect \/ Disconnect \/ UNCHANGED vars
  BY <1>3, <1>5 DEF LateDial, CallDisconnect, Disconnect, vars
<1>6. QED
  BY <1>1, <1>2, <1>3, <1>4, <1>5 DEF Next

\* A reconnect gets nearer to its end with each step of its monitor: it calls
\* Connect at most MaxAttempts times (tunnel.go:163-190).
THEOREM ReconnectEnds == SafetySpec => ReconnectSettles
<1>1. ASSUME IInv, [Next]_vars, NEW k \in Clients, pc[k] \in InReconnect
      PROVE  \/ pc'[k] = pc[k] /\ StepsLeft(k)' = StepsLeft(k)
             \/ StepsLeft(k)' < StepsLeft(k)
  <2>1. CASE pc'[k] = pc[k] /\ tries'[k] = tries[k]
    BY <2>1, StepsLeftIsLeft
  <2>2. CASE Advances(pc[k], tries[k], pc'[k], tries'[k])
    <3>1. tries[k] \in 0..MaxAttempts /\ (pc[k] # "close" => tries[k] < MaxAttempts)
      BY <1>1 DEF IInv, TypeOK, TriesLeft
    <3>2. Left(pc'[k], tries'[k]) < Left(pc[k], tries[k])
      BY <2>2, <3>1, AdvanceIsNearer
    <3>3. QED
      BY <3>2, StepsLeftIsLeft
  <2>3. QED
    BY <1>1, <2>1, <2>2, ReconnectAdvances
<1>2. IInv /\ [Next]_vars =>
        \A k \in Clients : pc[k] \in InReconnect =>
            \/ pc'[k] = pc[k] /\ StepsLeft(k)' = StepsLeft(k)
            \/ StepsLeft(k)' < StepsLeft(k)
  BY <1>1
<1>3. QED
  BY <1>2, Invariance, PTL DEF SafetySpec, ReconnectSettles

-----------------------------------------------------------------------------
(* A reconnect that is left alone.                                         *)

\* Its own flag turns away each Connect of reconnect.
TurnedAway(k) ==
    pc[k] \in InReconnect => reconnecting /\ pc[k] \in {"close", "attempt", "failed"}

LEMMA AloneIsTurnedAway ==
  ASSUME NEW k \in Clients, IInv, Alone(k), TurnedAway(k), [Next]_vars
  PROVE  TurnedAway(k)'
<1> USE DEF IInv, TypeOK
<1>1. ASSUME NEW p \in Connectors, Connect(p) PROVE TurnedAway(k)'
  <2>1. CASE EnterConnect(p)
    <3>1. CASE p = k
      BY <2>1, <3>1 DEF EnterConnect, Returned, StagesSplit, TurnedAway
    <3>2. CASE p # k
      BY <2>1, <3>2 DEF EnterConnect, TurnedAway
    <3>3. QED
      BY <3>1, <3>2
  <2>2. CASE TakeLock(p)
    BY <2>2 DEF TakeLock, AlreadyConnected, StartDial, Returned, TurnedAway
  <2>3. CASE DialOpens(p)
    BY <2>3 DEF DialOpens, TurnedAway
  <2>4. CASE DialFails(p) \/ AbandonDial(p) \/ RejectDial(p)
    BY <2>4 DEF DialFails, AbandonDial, RejectDial, Leave, Returned, TurnedAway, Alone
  <2>5. CASE Install(p)
    BY <2>5 DEF Install, Leave, Returned, TurnedAway, Alone
  <2>6. QED
    BY <1>1, <2>1, <2>2, <2>3, <2>4, <2>5 DEF Connect, DialEnds
<1>2. ASSUME NEW j \in Clients, MonitorConnection(j) PROVE TurnedAway(k)'
  <2>1. CASE MonitorExit(j) \/ MonitorTick(j) \/ MonitorRead(j) \/ MonitorProbe(j)
    BY <2>1 DEF MonitorExit, MonitorTick, MonitorRead, MonitorProbe, TurnedAway
  <2>2. CASE ClaimReconnect(j) \/ CloseForReconnect(j)
    BY <2>2 DEF ClaimReconnect, CloseForReconnect, TurnedAway
  <2>3. CASE NextAttempt(j)
    BY <2>3 DEF NextAttempt, TurnedAway, Alone
  <2>4. CASE Reconnected(j)
    BY <2>4 DEF Reconnected, TurnedAway, Alone
  <2>5. QED
    BY <1>2, <2>1, <2>2, <2>3, <2>4 DEF MonitorConnection
<1>3. ASSUME NEW j \in Clients, KeepAlive(j) \/ ConnectionDies(j) PROVE TurnedAway(k)'
  BY <1>3 DEF KeepAlive, KeeperExit, KeeperTick, KeeperRead, KeeperProbe, KeeperClose,
              ConnectionDies, TurnedAway
<1>4. CASE LateDial \/ CallDisconnect \/ Disconnect \/ UNCHANGED vars
  BY <1>4 DEF LateDial, CallDisconnect, Disconnect, vars, TurnedAway
<1>5. QED
  BY <1>1, <1>2, <1>3, <1>4 DEF Next

\* A monitor whose reconnect is never joined by another Connect or reconnect
\* never gets as far as a dial: it sets the flag that its own calls of Connect
\* look at first (tunnel.go:146 and 47), so only the deferred Store(false) of
\* somebody else, a caller of Connect or another monitor, lets it through.
THEOREM OwnFlagTurnsAway ==
  ASSUME NEW k \in Clients
  PROVE  SafetySpec /\ []Alone(k) => []~ GetsThrough(k)
<1>1. Init => TurnedAway(k)
  BY DEF Init, TurnedAway
<1>2. IInv /\ Alone(k) /\ TurnedAway(k) /\ [Next]_vars => TurnedAway(k)'
  BY AloneIsTurnedAway
<1>3. TurnedAway(k) => ~ GetsThrough(k)
  BY DEF TurnedAway, GetsThrough
<1>4. QED
  BY <1>1, <1>2, <1>3, Invariance, PTL DEF SafetySpec
====
