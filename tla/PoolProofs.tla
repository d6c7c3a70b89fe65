---- MODULE PoolProofs ----
(***************************************************************************)
(* Proofs about Pool, for every number of tunnels and of retries: no       *)
(* goroutine outlives the call that waits for it, the reconnections stay   *)
(* within their slots, and the pool implements PoolLife.                   *)
(*                                                                         *)
(* The argument: Start and the rounds of the monitor exclude each other    *)
(* and both wait for their goroutines, so the stage of a goroutine tells   *)
(* for whom it works; and a tunnel has joined exactly when the goroutine   *)
(* of Start has ended without an error.                                    *)
(***************************************************************************)
EXTENDS Pool, FiniteSetTheorems, TLAPS

Connecting == {"call", "dial", "sleep"}

\* Goroutines of Start neither wait for slots nor go missing; workers neither
\* join nor send errors; before Start there is nothing.
StagesFit ==
    /\ Starting => \A t \in Tunnels : pc[t] \notin {"none", "slot"}
    /\ ~ Starting => \A t \in Tunnels : pc[t] \notin {"join", "error"}

\* The monitor runs once Start has succeeded.
MonitorFits == monitor = "off" <=> start # "ok"

\* The pool is stopped only after Start has returned.
StopFits ==
    /\ poolDone <=> stop # "out"
    /\ poolDone => start \in {"ok", "failed"}

\* Whoever may go on has a retry left.
TriesFit ==
    \A t \in Tunnels :
        /\ pc[t] \in Connecting \cup {"slot", "join"} => tries[t] < MaxRetries
        /\ pc[t] = "none" => tries[t] = 0

\* A round looks at a tunnel once, and between rounds there are no goroutines.
TodoFits ==
    /\ ~ Starting /\ monitor \notin {"scan", "join"} =>
        \A t \in Tunnels : pc[t] = "none"
    /\ monitor = "scan" => \A t \in todo : pc[t] = "none"

\* The tunnels of the pool: those whose goroutine has ended, and after a
\* successful Start all of them.
JoinedEnded ==
    /\ start = "out" => members = {}
    /\ Starting => \A t \in Tunnels : t \in members <=> pc[t] = "ended"
    /\ start = "ok" => members = Tunnels

\* Others find the pool only after its Start has succeeded.
ReadersFit == start # "ok" => \A r \in Readers : asks[r] = {}

IInv ==
    /\ TypeOK
    /\ StagesFit
    /\ MonitorFits
    /\ StopFits
    /\ TriesFit
    /\ TodoFits
    /\ JoinedEnded
    /\ ReadersFit
    /\ GoroutineIsAwaited
    /\ SlotsBounded

USE TunnelsAssumption, MaxRetriesAssumption
    DEF Stages, Returned, Connecting, Goto, Starting, contexts, monitorVars, stopVars, others

-----------------------------------------------------------------------------
(* The slots.                                                              *)

LEMMA SlotsFinite == IsFiniteSet(HasSlot) /\ Cardinality(HasSlot) \in Nat
<1>1. HasSlot \subseteq Tunnels
  BY DEF HasSlot
<1>2. QED
  BY <1>1, FS_Subset, FS_CardinalityType

\* A step after which nobody has a slot who had none keeps the bound.
LEMMA FewerSlots ==
  ASSUME SlotsBounded, start' = start, HasSlot' \subseteq HasSlot
  PROVE  SlotsBounded'
<1>1. Cardinality(HasSlot') <= Cardinality(HasSlot) /\ Cardinality(HasSlot') \in Nat
  BY SlotsFinite, FS_Subset, FS_CardinalityType
<1>2. QED
  BY <1>1, SlotsFinite DEF SlotsBounded

\* One goroutine more takes a slot only while one is free.
LEMMA OneMoreSlot ==
  ASSUME NEW t \in Tunnels, HasSlot' \subseteq HasSlot \cup {t},
         Cardinality(HasSlot) < MaxRetries
  PROVE  SlotsBounded'
<1>1. /\ IsFiniteSet(HasSlot \cup {t})
      /\ Cardinality(HasSlot \cup {t}) <= Cardinality(HasSlot) + 1
      /\ Cardinality(HasSlot \cup {t}) \in Nat
  <2>1. /\ IsFiniteSet(HasSlot \cup {t})
        /\ Cardinality(HasSlot \cup {t}) =
              IF t \in HasSlot THEN Cardinality(HasSlot) ELSE Cardinality(HasSlot) + 1
    BY SlotsFinite, FS_AddElement, Zenon
  <2>2. QED
    BY <2>1, SlotsFinite
<1>2. Cardinality(HasSlot') <= Cardinality(HasSlot \cup {t}) /\ Cardinality(HasSlot') \in Nat
  BY <1>1, FS_Subset, FS_CardinalityType
<1>3. QED
  BY <1>1, <1>2, SlotsFinite DEF SlotsBounded

\* Where nobody connects, no slot is taken.
LEMMA NoSlots ==
  ASSUME \A t \in Tunnels : pc'[t] \notin Connecting
  PROVE  SlotsBounded'
<1>1. HasSlot' = {}
  BY DEF HasSlot
<1>2. QED
  BY <1>1, FS_EmptySet DEF SlotsBounded

-----------------------------------------------------------------------------

LEMMA InitInv == Init => IInv
<1> SUFFICES ASSUME Init PROVE IInv
  OBVIOUS
<1>1. HasSlot = {}
  BY DEF Init, HasSlot
<1>2. SlotsBounded
  BY <1>1, FS_EmptySet DEF SlotsBounded
<1>3. TypeOK
  <2>1. 0 \in 0..MaxRetries
    OBVIOUS
  <2>2. pc \in [Tunnels -> Stages]
    BY DEF Init
  <2>3. tries \in [Tunnels -> 0..MaxRetries]
    BY <2>1 DEF Init
  <2>4. up \in [Tunnels -> BOOLEAN]
    BY DEF Init
  <2>5. asks \in [Readers -> SUBSET Tunnels]
    BY DEF Init
  <2>6. QED
    BY <2>2, <2>3, <2>4, <2>5 DEF Init, TypeOK
<1>4. StagesFit /\ MonitorFits /\ StopFits /\ TriesFit
  BY DEF Init, StagesFit, MonitorFits, StopFits, TriesFit
<1>5. TodoFits /\ JoinedEnded /\ ReadersFit /\ GoroutineIsAwaited
  BY DEF Init, TodoFits, JoinedEnded, ReadersFit, GoroutineIsAwaited
<1>6. QED
  BY <1>2, <1>3, <1>4, <1>5 DEF IInv

(* Connect.                                                                *)

LEMMA ConnectRefusedInv ==
  ASSUME IInv, NEW t \in Tunnels, ConnectRefused(t)
  PROVE  IInv'
<1>1. SlotsBounded'
  <2>1. HasSlot' \subseteq HasSlot /\ start' = start
    BY DEF IInv, TypeOK, HasSlot, ConnectRefused
  <2>2. QED
    BY <2>1, FewerSlots DEF IInv
<1>2. QED
  BY <1>1 DEF IInv, ConnectRefused, TypeOK, StagesFit, MonitorFits, StopFits, TriesFit, TodoFits,
     JoinedEnded, ReadersFit, GoroutineIsAwaited

LEMMA ConnectLockedInv ==
  ASSUME IInv, NEW t \in Tunnels, ConnectLocked(t)
  PROVE  IInv'
<1>1. SlotsBounded'
  <2>1. HasSlot' \subseteq HasSlot /\ start' = start
    BY DEF IInv, TypeOK, HasSlot, ConnectLocked
  <2>2. QED
    BY <2>1, FewerSlots DEF IInv
<1>2. QED
  BY <1>1 DEF IInv, ConnectLocked, TypeOK, StagesFit, MonitorFits, StopFits, TriesFit, TodoFits,
     JoinedEnded, ReadersFit, GoroutineIsAwaited

LEMMA DialSucceedsInv ==
  ASSUME IInv, NEW t \in Tunnels, DialSucceeds(t)
  PROVE  IInv'
<1>1. SlotsBounded'
  <2>1. HasSlot' \subseteq HasSlot /\ start' = start
    BY DEF IInv, TypeOK, HasSlot, DialSucceeds
  <2>2. QED
    BY <2>1, FewerSlots DEF IInv
<1>2. QED
  BY <1>1 DEF IInv, DialSucceeds, TypeOK, StagesFit, MonitorFits, StopFits, TriesFit, TodoFits,
     JoinedEnded, ReadersFit, GoroutineIsAwaited

LEMMA DialFailsInv ==
  ASSUME IInv, NEW t \in Tunnels, DialFails(t)
  PROVE  IInv'
<1>1. SlotsBounded'
  <2>1. HasSlot' \subseteq HasSlot /\ start' = start
    BY DEF IInv, TypeOK, HasSlot, DialFails
  <2>2. QED
    BY <2>1, FewerSlots DEF IInv
<1>2. QED
  BY <1>1 DEF IInv, DialFails, TypeOK, StagesFit, MonitorFits, StopFits, TriesFit, TodoFits,
     JoinedEnded, ReadersFit, GoroutineIsAwaited

(* Start.                                                                  *)

LEMMA StartRefusedInv ==
  ASSUME IInv, StartRefused
  PROVE  IInv'
<1>1. SlotsBounded'
  <2>1. \A u \in Tunnels : pc'[u] \notin Connecting
    BY DEF IInv, StartRefused, TodoFits, MonitorFits
  <2>2. QED
    BY <2>1, NoSlots
<1>2. QED
  BY <1>1 DEF IInv, StartRefused, TypeOK, StagesFit, MonitorFits, StopFits, TriesFit, TodoFits,
     JoinedEnded, ReadersFit, GoroutineIsAwaited

LEMMA CallStartInv ==
  ASSUME IInv, CallStart
  PROVE  IInv'
<1>1. SlotsBounded'
  BY DEF SlotsBounded, CallStart
<1>2. QED
  BY <1>1 DEF IInv, CallStart, TypeOK, StagesFit, MonitorFits, StopFits, TriesFit, TodoFits,
     JoinedEnded, ReadersFit, GoroutineIsAwaited

LEMMA StartRetriesInv ==
  ASSUME IInv, NEW t \in Tunnels, StartRetries(t)
  PROVE  IInv'
<1>1. SlotsBounded'
  <2>1. HasSlot' \subseteq HasSlot /\ start' = start
    BY DEF IInv, TypeOK, HasSlot, StartRetries
  <2>2. QED
    BY <2>1, FewerSlots DEF IInv
<1>2. QED
  BY <1>1 DEF IInv, StartRetries, TypeOK, StagesFit, MonitorFits, StopFits, TriesFit, TodoFits,
     JoinedEnded, ReadersFit, GoroutineIsAwaited

LEMMA JoinInv ==
  ASSUME IInv, NEW t \in Tunnels, Join(t)
  PROVE  IInv'
<1>1. SlotsBounded'
  <2>1. HasSlot' \subseteq HasSlot /\ start' = start
    BY DEF IInv, TypeOK, HasSlot, Join
  <2>2. QED
    BY <2>1, FewerSlots DEF IInv
<1>2. QED
  BY <1>1 DEF IInv, Join, TypeOK, StagesFit, MonitorFits, StopFits, TriesFit, TodoFits,
     JoinedEnded, ReadersFit, GoroutineIsAwaited

LEMMA StartReturnsInv ==
  ASSUME IInv, StartReturns
  PROVE  IInv'
<1>1. SlotsBounded'
  <2>1. \A u \in Tunnels : pc'[u] \notin Connecting
    BY DEF IInv, TypeOK, StartReturns
  <2>2. QED
    BY <2>1, NoSlots
<1>2. JoinedEnded'
  <2>1. CASE \E t \in Tunnels : pc[t] = "error"
    BY <2>1 DEF IInv, TypeOK, StartReturns, JoinedEnded
  <2>2. CASE ~ \E t \in Tunnels : pc[t] = "error"
    <3>1. members = Tunnels
      BY <2>2 DEF IInv, TypeOK, StartReturns, StagesFit, JoinedEnded
    <3>2. QED
      BY <2>2, <3>1 DEF StartReturns, JoinedEnded
  <2>3. QED
    BY <2>1, <2>2
<1>3. TypeOK'
  BY DEF IInv, StartReturns, TypeOK
<1>4. QED
  BY <1>1, <1>2, <1>3 DEF IInv, StartReturns, TypeOK, StagesFit, MonitorFits, StopFits, TriesFit, TodoFits,
     JoinedEnded, ReadersFit, GoroutineIsAwaited

(* The monitor and its workers.                                            *)

LEMMA MonitorExitsInv ==
  ASSUME IInv, MonitorExits
  PROVE  IInv'
<1>1. SlotsBounded'
  <2>1. HasSlot' \subseteq HasSlot /\ start' = start
    BY DEF IInv, TypeOK, HasSlot, MonitorExits
  <2>2. QED
    BY <2>1, FewerSlots DEF IInv
<1>2. QED
  BY <1>1 DEF IInv, MonitorExits, TypeOK, StagesFit, MonitorFits, StopFits, TriesFit, TodoFits,
     JoinedEnded, ReadersFit, GoroutineIsAwaited

LEMMA BeginRoundInv ==
  ASSUME IInv, BeginRound
  PROVE  IInv'
<1>1. SlotsBounded'
  <2>1. HasSlot' \subseteq HasSlot /\ start' = start
    BY DEF IInv, TypeOK, HasSlot, BeginRound
  <2>2. QED
    BY <2>1, FewerSlots DEF IInv
<1>2. QED
  BY <1>1 DEF IInv, BeginRound, TypeOK, StagesFit, MonitorFits, StopFits, TriesFit, TodoFits,
     JoinedEnded, ReadersFit, GoroutineIsAwaited

LEMMA LookAtInv ==
  ASSUME IInv, NEW t \in Tunnels, LookAt(t)
  PROVE  IInv'
<1>1. SlotsBounded'
  <2>1. HasSlot' \subseteq HasSlot /\ start' = start
    BY DEF IInv, TypeOK, HasSlot, LookAt
  <2>2. QED
    BY <2>1, FewerSlots DEF IInv
<1>2. QED
  BY <1>1 DEF IInv, LookAt, TypeOK, StagesFit, MonitorFits, StopFits, TriesFit, TodoFits,
     JoinedEnded, ReadersFit, GoroutineIsAwaited

LEMMA AwaitWorkersInv ==
  ASSUME IInv, AwaitWorkers
  PROVE  IInv'
<1>1. SlotsBounded'
  <2>1. HasSlot' \subseteq HasSlot /\ start' = start
    BY DEF IInv, TypeOK, HasSlot, AwaitWorkers
  <2>2. QED
    BY <2>1, FewerSlots DEF IInv
<1>2. QED
  BY <1>1 DEF IInv, AwaitWorkers, TypeOK, StagesFit, MonitorFits, StopFits, TriesFit, TodoFits,
     JoinedEnded, ReadersFit, GoroutineIsAwaited

LEMMA TakeSlotInv ==
  ASSUME IInv, NEW t \in Tunnels, TakeSlot(t)
  PROVE  IInv'
<1>1. SlotsBounded'
  <2>1. HasSlot' \subseteq HasSlot \cup {t} /\ Cardinality(HasSlot) < MaxRetries
    BY DEF IInv, TypeOK, HasSlot, TakeSlot
  <2>2. QED
    BY <2>1, OneMoreSlot
<1>2. QED
  BY <1>1 DEF IInv, TakeSlot, TypeOK, StagesFit, MonitorFits, StopFits, TriesFit, TodoFits,
     JoinedEnded, ReadersFit, GoroutineIsAwaited

LEMMA WorkerRetriesInv ==
  ASSUME IInv, NEW t \in Tunnels, WorkerRetries(t)
  PROVE  IInv'
<1>1. SlotsBounded'
  <2>1. HasSlot' \subseteq HasSlot /\ start' = start
    BY DEF IInv, TypeOK, HasSlot, WorkerRetries
  <2>2. QED
    BY <2>1, FewerSlots DEF IInv
<1>2. QED
  BY <1>1 DEF IInv, WorkerRetries, TypeOK, StagesFit, MonitorFits, StopFits, TriesFit, TodoFits,
     JoinedEnded, ReadersFit, GoroutineIsAwaited

LEMMA EndRoundInv ==
  ASSUME IInv, EndRound
  PROVE  IInv'
<1>1. SlotsBounded'
  <2>1. \A u \in Tunnels : pc'[u] \notin Connecting
    BY DEF IInv, TypeOK, EndRound
  <2>2. QED
    BY <2>1, NoSlots
<1>2. QED
  BY <1>1 DEF IInv, EndRound, TypeOK, StagesFit, MonitorFits, StopFits, TriesFit, TodoFits,
     JoinedEnded, ReadersFit, GoroutineIsAwaited

LEMMA ReportInv ==
  ASSUME IInv, ReportAgain \/ EndReport \/ \E t \in Tunnels : ReportOn(t)
  PROVE  IInv'
<1>1. SlotsBounded'
  <2>1. HasSlot' \subseteq HasSlot /\ start' = start
    BY DEF HasSlot, ReportAgain, EndReport, ReportOn
  <2>2. QED
    BY <2>1, FewerSlots DEF IInv
<1>2. UNCHANGED <<start, pc, tries, members, up, contexts, stopVars, others>>
  BY DEF ReportAgain, EndReport, ReportOn
<1>3. /\ monitor \in {"update", "updated", "log"}
      /\ monitor' \in {"update", "updated", "log", "wait"}
      /\ todo' \subseteq Tunnels
  BY DEF IInv, TypeOK, ReportAgain, EndReport, ReportOn, Reporting
<1>4. QED
  BY <1>1, <1>2, <1>3 DEF IInv, TypeOK, StagesFit, MonitorFits, StopFits, TriesFit, TodoFits,
     JoinedEnded, ReadersFit, GoroutineIsAwaited

(* The readers.                                                            *)

LEMMA ReadInv ==
  ASSUME IInv, NEW r \in Readers, CallRead(r) \/ \E t \in Tunnels : AskTunnel(r, t)
  PROVE  IInv'
<1>1. SlotsBounded'
  <2>1. HasSlot' \subseteq HasSlot /\ start' = start
    BY DEF HasSlot, CallRead, AskTunnel
  <2>2. QED
    BY <2>1, FewerSlots DEF IInv
<1>2. /\ asks' \in [Readers -> SUBSET Tunnels]
      /\ ReadersFit'
  BY DEF IInv, TypeOK, ReadersFit, CallRead, AskTunnel
<1>3. UNCHANGED <<start, pc, tries, members, up, contexts, monitorVars, stopVars, redial>>
  BY DEF CallRead, AskTunnel
<1>4. QED
  BY <1>1, <1>2, <1>3 DEF IInv, TypeOK, StagesFit, MonitorFits, StopFits, TriesFit, TodoFits,
     JoinedEnded, GoroutineIsAwaited

(* Stop, the context and the tunnels.                                      *)

LEMMA CallStopInv ==
  ASSUME IInv, CallStop
  PROVE  IInv'
<1>1. SlotsBounded'
  <2>1. HasSlot' \subseteq HasSlot /\ start' = start
    BY DEF IInv, TypeOK, HasSlot, CallStop
  <2>2. QED
    BY <2>1, FewerSlots DEF IInv
<1>2. QED
  BY <1>1 DEF IInv, CallStop, TypeOK, StagesFit, MonitorFits, StopFits, TriesFit, TodoFits,
     JoinedEnded, ReadersFit, GoroutineIsAwaited

LEMMA StopInv ==
  ASSUME IInv, StopLocks \/ StopReturns
  PROVE  IInv'
<1>1. SlotsBounded'
  <2>1. HasSlot' \subseteq HasSlot /\ start' = start
    BY DEF IInv, TypeOK, HasSlot, StopLocks, StopReturns
  <2>2. QED
    BY <2>1, FewerSlots DEF IInv
<1>2. QED
  BY <1>1 DEF IInv, StopLocks, StopReturns, TypeOK, StagesFit, MonitorFits, StopFits, TriesFit, TodoFits,
     JoinedEnded, ReadersFit, GoroutineIsAwaited

LEMMA CloseTunnelInv ==
  ASSUME IInv, NEW t \in Tunnels, CloseTunnel(t)
  PROVE  IInv'
<1>1. SlotsBounded'
  <2>1. HasSlot' \subseteq HasSlot /\ start' = start
    BY DEF IInv, TypeOK, HasSlot, CloseTunnel
  <2>2. QED
    BY <2>1, FewerSlots DEF IInv
<1>2. QED
  BY <1>1 DEF IInv, CloseTunnel, TypeOK, StagesFit, MonitorFits, StopFits, TriesFit, TodoFits,
     JoinedEnded, ReadersFit, GoroutineIsAwaited

LEMMA CancelContextInv ==
  ASSUME IInv, CancelContext
  PROVE  IInv'
<1>1. SlotsBounded'
  <2>1. HasSlot' \subseteq HasSlot /\ start' = start
    BY DEF IInv, TypeOK, HasSlot, CancelContext
  <2>2. QED
    BY <2>1, FewerSlots DEF IInv
<1>2. QED
  BY <1>1 DEF IInv, CancelContext, TypeOK, StagesFit, MonitorFits, StopFits, TriesFit, TodoFits,
     JoinedEnded, ReadersFit, GoroutineIsAwaited

LEMMA GoesDownInv ==
  ASSUME IInv, NEW t \in Tunnels, GoesDown(t)
  PROVE  IInv'
<1>1. SlotsBounded'
  <2>1. HasSlot' \subseteq HasSlot /\ start' = start
    BY DEF IInv, TypeOK, HasSlot, GoesDown
  <2>2. QED
    BY <2>1, FewerSlots DEF IInv
<1>2. QED
  BY <1>1 DEF IInv, GoesDown, TypeOK, StagesFit, MonitorFits, StopFits, TriesFit, TodoFits,
     JoinedEnded, ReadersFit, GoroutineIsAwaited

LEMMA OwnDialInv ==
  ASSUME IInv, NEW t \in Tunnels, OwnDialBegins(t) \/ OwnDialEnds(t)
  PROVE  IInv'
<1>1. SlotsBounded'
  <2>1. HasSlot' \subseteq HasSlot /\ start' = start
    BY DEF IInv, TypeOK, HasSlot, OwnDialBegins, OwnDialEnds
  <2>2. QED
    BY <2>1, FewerSlots DEF IInv
<1>2. QED
  BY <1>1 DEF IInv, OwnDialBegins, OwnDialEnds, TypeOK, StagesFit, MonitorFits, StopFits, TriesFit, TodoFits,
     JoinedEnded, ReadersFit, GoroutineIsAwaited

-----------------------------------------------------------------------------

LEMMA StutterInv == ASSUME IInv, UNCHANGED vars PROVE IInv'
<1>1. SlotsBounded'
  BY FewerSlots DEF IInv, vars, HasSlot
<1>2. QED
  BY <1>1 DEF IInv, vars, TypeOK, StagesFit, MonitorFits, StopFits, TriesFit, TodoFits,
              JoinedEnded, ReadersFit, GoroutineIsAwaited

LEMMA NextInv == IInv /\ [Next]_vars => IInv'
<1> SUFFICES ASSUME IInv, [Next]_vars PROVE IInv'
  OBVIOUS
<1>1. CASE UNCHANGED vars
  BY <1>1, StutterInv
<1>2. ASSUME NEW t \in Tunnels, Goroutine(t) PROVE IInv'
  BY <1>2, ConnectRefusedInv, ConnectLockedInv, DialSucceedsInv, DialFailsInv,
     StartRetriesInv, JoinInv, TakeSlotInv, WorkerRetriesInv DEF Goroutine
<1>3. ASSUME NEW t \in Tunnels, GoesDown(t) \/ OwnDialBegins(t) \/ OwnDialEnds(t) PROVE IInv'
  BY <1>3, GoesDownInv, OwnDialInv
<1>4. CASE StartRefused \/ CallStart \/ StartReturns \/ CancelContext
  BY <1>4, StartRefusedInv, CallStartInv, StartReturnsInv, CancelContextInv
<1>5. CASE MonitorExits \/ BeginRound \/ Scan
  BY <1>5, MonitorExitsInv, BeginRoundInv, LookAtInv, AwaitWorkersInv, EndRoundInv,
     ReportInv DEF Scan
<1>6. CASE CallStop \/ Stop
  BY <1>6, CallStopInv, StopInv, CloseTunnelInv DEF Stop
<1>7. ASSUME NEW r \in Readers, CallRead(r) \/ \E t \in Tunnels : AskTunnel(r, t)
      PROVE  IInv'
  BY <1>7, ReadInv
<1>8. QED
  BY <1>1, <1>2, <1>3, <1>4, <1>5, <1>6, <1>7 DEF Next

\* Start, the monitor's rounds and Stop keep out of each other's goroutines
\* (pool.go:115, 283).
THEOREM Invariance == SafetySpec => []IInv
<1>1. QED
  BY InitInv, NextInv, PTL DEF SafetySpec

\* The variables keep their types, for every value of the constants.
THEOREM TypeCorrect == SafetySpec => []TypeOK
<1>1. IInv => TypeOK
  BY DEF IInv
<1>2. QED
  BY <1>1, Invariance, PTL

\* A tunnel has one goroutine of the pool at a time, and somebody waits for it
\* (pool.go:115, 283).
THEOREM GoroutinesAwaited == SafetySpec => []GoroutineIsAwaited
<1>1. IInv => GoroutineIsAwaited
  BY DEF IInv
<1>2. QED
  BY <1>1, Invariance, PTL

\* The workers stay within the slots of the channel (pool.go:231).
THEOREM ReconnectionsBounded == SafetySpec => []SlotsBounded
<1>1. IInv => SlotsBounded
  BY DEF IInv
<1>2. QED
  BY <1>1, Invariance, PTL

-----------------------------------------------------------------------------
(* Refinement.                                                             *)

LEMMA InitLife == Init => PL!Init
BY DEF Init, PL!Init, Life

LEMMA NextLife == IInv /\ [Next]_vars => [PL!Next]_(PL!vars)
<1> SUFFICES ASSUME IInv, [Next]_vars PROVE [PL!Next]_(PL!vars)
  OBVIOUS
<1> USE DEF IInv, TypeOK, Life, PL!vars
<1>1. CASE CallStart
  <2>1. PL!Begin
    BY <1>1 DEF CallStart, StopFits, PL!Begin
  <2>2. QED
    BY <2>1 DEF PL!Next
<1>2. ASSUME NEW t \in Tunnels, Join(t) PROVE PL!Next
  <2>1. PL!Join(t)
    BY <1>2 DEF Join, StagesFit, StopFits, JoinedEnded, PL!Join
  <2>2. QED
    BY <2>1 DEF PL!Next
<1>3. CASE StartReturns
  <2>1. CASE \E t \in Tunnels : pc[t] = "error"
    <3>1. members # Tunnels
      BY <1>3, <2>1 DEF StartReturns, JoinedEnded
    <3>2. PL!Fail
      BY <1>3, <2>1, <3>1 DEF StartReturns, StopFits, PL!Fail
    <3>3. QED
      BY <3>2 DEF PL!Next
  <2>2. CASE ~ \E t \in Tunnels : pc[t] = "error"
    <3>1. members = Tunnels
      BY <1>3, <2>2 DEF StartReturns, StagesFit, JoinedEnded
    <3>2. PL!Succeed
      BY <1>3, <2>2, <3>1 DEF StartReturns, StopFits, PL!Succeed
    <3>3. QED
      BY <3>2 DEF PL!Next
  <2>3. QED
    BY <2>1, <2>2
<1>4. CASE CallStop
  <2>1. PL!Stop
    BY <1>4 DEF CallStop, StopFits, PL!Stop
  <2>2. QED
    BY <2>1 DEF PL!Next
<1>5. ASSUME NEW t \in Tunnels, Goroutine(t), ~ Join(t) PROVE UNCHANGED PL!vars
  BY <1>5 DEF Goroutine, ConnectRefused, ConnectLocked, DialSucceeds, DialFails,
              StartRetries, TakeSlot, WorkerRetries
<1>6. ASSUME NEW t \in Tunnels, GoesDown(t) \/ OwnDialBegins(t) \/ OwnDialEnds(t) PROVE UNCHANGED PL!vars
  BY <1>6 DEF GoesDown, OwnDialBegins, OwnDialEnds
<1>7. CASE MonitorExits \/ BeginRound \/ Scan
  BY <1>7 DEF MonitorExits, BeginRound, Scan, LookAt, AwaitWorkers, EndRound,
     ReportAgain, ReportOn, EndReport
<1>8. CASE Stop \/ CancelContext \/ UNCHANGED vars
  BY <1>8 DEF Stop, StopLocks, StopReturns, CloseTunnel, CancelContext, vars
<1>9. CASE StartRefused
  <2>1. PL!Refuse
    BY <1>9 DEF StartRefused, StopFits, PL!Refuse
  <2>2. QED
    BY <2>1 DEF PL!Next
<1>10. ASSUME NEW r \in Readers, CallRead(r) \/ \E t \in Tunnels : AskTunnel(r, t)
       PROVE  UNCHANGED PL!vars
  BY <1>10 DEF CallRead, AskTunnel
<1>11. QED
  BY <1>1, <1>2, <1>3, <1>4, <1>5, <1>6, <1>7, <1>8, <1>9, <1>10 DEF Next

\* A pool behaves as PoolLife: Start succeeds exactly when every tunnel has
\* joined, and a stopped pool stays stopped (pool.go:51-133, 160-169).
THEOREM ImplementsLife == SafetySpec => LifeSpec
<1>1. QED
  BY Invariance, InitLife, NextLife, PTL DEF SafetySpec, LifeSpec, PL!Spec

-----------------------------------------------------------------------------
(* Progress of the goroutines.                                             *)

\* The bound of StepsLeft, stage by stage.
LEMMA StepsLeftAt ==
  ASSUME IInv, NEW t \in Tunnels
  PROVE  /\ tries[t] \in Nat
         /\ pc[t] \in Returned => StepsLeft(t) = 0
         /\ pc[t] = "slot" => StepsLeft(t) = 3 * MaxRetries + 1
         /\ pc[t] = "call" => StepsLeft(t) = 3 * (MaxRetries - tries[t])
         /\ pc[t] = "dial" => StepsLeft(t) = 3 * (MaxRetries - tries[t]) - 1
         /\ pc[t] \in {"sleep", "join"} => StepsLeft(t) = 3 * (MaxRetries - tries[t]) - 2
         /\ pc[t] \notin Returned => tries[t] < MaxRetries
BY DEF IInv, TypeOK, TriesFit, StepsLeft

\* A step of the goroutine of t brings it nearer to its return.
LEMMA OwnStepSettles ==
  ASSUME IInv, IInv', NEW t \in Tunnels, Goroutine(t), pc[t] \notin Returned
  PROVE  StepsLeft(t)' < StepsLeft(t)
<1> USE StepsLeftAt DEF IInv, TypeOK
<1>1. CASE ConnectRefused(t) \/ ConnectLocked(t) \/ DialSucceeds(t) \/ DialFails(t)
  <2>1. tries' = tries
    BY <1>1 DEF ConnectRefused, ConnectLocked, DialSucceeds, DialFails
  <2>2. /\ pc'[t] \notin {"none", "slot", "call"}
        /\ pc[t] \in {"call", "dial"}
        /\ pc[t] = "dial" => pc'[t] # "dial"
    BY <1>1 DEF ConnectRefused, ConnectLocked, DialSucceeds, DialFails
  <2>3. QED
    BY <1>1, <2>1, <2>2 DEF StepsLeft
<1>2. CASE StartRetries(t) \/ WorkerRetries(t)
  <2>1. pc[t] = "sleep"
    BY <1>2 DEF StartRetries, WorkerRetries
  <2>2. \/ pc'[t] \in {"error", "ended"}
        \/ pc'[t] = "call" /\ tries'[t] = tries[t] + 1
    BY <1>2 DEF StartRetries, WorkerRetries
  <2>3. QED
    BY <2>1, <2>2 DEF StepsLeft
<1>3. CASE Join(t)
  BY <1>3 DEF Join, StepsLeft
<1>4. CASE TakeSlot(t)
  <2>1. pc[t] = "slot" /\ pc'[t] \in {"ended", "call"} /\ tries'[t] = tries[t]
    BY <1>4 DEF TakeSlot
  <2>2. QED
    BY <2>1 DEF StepsLeft
<1>5. QED
  BY <1>1, <1>2, <1>3, <1>4 DEF Goroutine

\* Nobody else touches it.
LEMMA OtherStepsKeep ==
  ASSUME IInv, [Next]_vars, NEW t \in Tunnels, ~ Goroutine(t), pc[t] \notin Returned
  PROVE  pc'[t] = pc[t] /\ tries'[t] = tries[t]
<1> USE DEF IInv, TypeOK
<1>1. CASE StartRefused \/ CallStart \/ StartReturns \/ CancelContext
  BY <1>1 DEF StartRefused, CallStart, StartReturns, CancelContext, TodoFits, MonitorFits
<1>2. ASSUME NEW u \in Tunnels, Goroutine(u) PROVE pc'[t] = pc[t] /\ tries'[t] = tries[t]
  BY <1>2 DEF Goroutine, ConnectRefused, ConnectLocked, DialSucceeds, DialFails,
              StartRetries, Join, TakeSlot, WorkerRetries
<1>3. ASSUME NEW u \in Tunnels, GoesDown(u) \/ OwnDialBegins(u) \/ OwnDialEnds(u)
      PROVE  pc'[t] = pc[t] /\ tries'[t] = tries[t]
  BY <1>3 DEF GoesDown, OwnDialBegins, OwnDialEnds
<1>4. CASE MonitorExits \/ BeginRound \/ Scan
  BY <1>4 DEF MonitorExits, BeginRound, Scan, LookAt, AwaitWorkers, EndRound, ReportAgain,
     ReportOn, EndReport, TodoFits
<1>5. CASE CallStop \/ Stop \/ UNCHANGED vars
  BY <1>5 DEF CallStop, Stop, StopLocks, StopReturns, CloseTunnel, vars
<1>6. ASSUME NEW r \in Readers, CallRead(r) \/ \E u \in Tunnels : AskTunnel(r, u)
      PROVE  pc'[t] = pc[t] /\ tries'[t] = tries[t]
  BY <1>6 DEF CallRead, AskTunnel
<1>7. QED
  BY <1>1, <1>2, <1>3, <1>4, <1>5, <1>6 DEF Next

\* However often tunnels come and go and contexts end, Start and the rounds of
\* the monitor wait for a bounded number of steps of each goroutine: a bound of
\* 3 * MaxRetries + 1 that falls with each (pool.go:82, 252).
THEOREM GoroutinesReturn == SafetySpec => GoroutinesSettle
<1>1. ASSUME IInv, IInv', [Next]_vars, NEW t \in Tunnels, pc[t] \notin Returned
      PROVE  \/ pc'[t] = pc[t] /\ StepsLeft(t)' = StepsLeft(t)
             \/ StepsLeft(t)' < StepsLeft(t)
  <2>1. CASE Goroutine(t)
    BY <1>1, <2>1, OwnStepSettles
  <2>2. CASE ~ Goroutine(t)
    BY <1>1, <2>2, OtherStepsKeep DEF StepsLeft
  <2>3. QED
    BY <2>1, <2>2
<1>2. IInv /\ IInv' /\ [Next]_vars =>
        [\A t \in Tunnels : pc[t] \notin Returned =>
            \/ pc'[t] = pc[t] /\ StepsLeft(t)' = StepsLeft(t)
            \/ StepsLeft(t)' < StepsLeft(t)]_vars
  BY <1>1
<1>3. QED
  BY <1>2, Invariance, PTL DEF SafetySpec, GoroutinesSettle

\* Those who wait for goroutines always wait for one that can go on: a free
\* slot, or one that is taken by a goroutine that waits for nobody.
THEOREM GoroutinesNeverAllWait == SafetySpec => []SomeoneGoesOn
<1>1. ASSUME IInv, NEW t \in Tunnels, pc[t] \notin Returned
      PROVE  \E u \in Tunnels : CanGoOn(u)
  <2>1. CASE pc[t] \in Connecting
    BY <2>1 DEF CanGoOn
  <2>2. CASE pc[t] = "join"
    <3>1. Starting
      BY <1>1, <2>2 DEF IInv, StagesFit
    <3>2. PoolFree
      BY <1>1, <3>1 DEF IInv, StopFits, MonitorFits, ReadersFit, PoolFree, Reporting
    <3>3. QED
      BY <2>2, <3>2 DEF CanGoOn
  <2>3. CASE pc[t] = "slot"
    <3>1. CASE Cardinality(HasSlot) < MaxRetries
      BY <2>3, <3>1 DEF CanGoOn
    <3>2. CASE ~ (Cardinality(HasSlot) < MaxRetries)
      <4>1. HasSlot # {}
        BY <3>2, SlotsFinite, FS_EmptySet
      <4>2. PICK u \in Tunnels : pc[u] \in Connecting
        BY <4>1 DEF HasSlot
      <4>3. QED
        BY <4>2 DEF CanGoOn
    <3>3. QED
      BY <3>1, <3>2
  <2>4. QED
    BY <1>1, <2>1, <2>2, <2>3 DEF IInv, TypeOK
<1>2. IInv => SomeoneGoesOn
  BY <1>1 DEF SomeoneGoesOn
<1>3. QED
  BY <1>2, Invariance, PTL

\* Once the context given to Start has ended, the workers of a running pool
\* come to Connect neither from their slots nor from a backoff; the end of
\* p.ctx does not keep them, which the run pool_cleanup shows (pool.go:255).
THEOREM WorkersHeedContext == SafetySpec => EndedContextHolds
<1>1. ASSUME IInv, [Next]_vars, start = "ok", ctxDone
      PROVE  Calling' \subseteq Calling
  <2> USE <1>1 DEF IInv, TypeOK, Calling
  <2>1. ASSUME NEW t \in Tunnels, Goroutine(t) PROVE Calling' \subseteq Calling
    BY <2>1 DEF Goroutine, ConnectRefused, ConnectLocked, DialSucceeds, DialFails,
                StartRetries, Join, TakeSlot, WorkerRetries
  <2>2. CASE MonitorExits \/ BeginRound \/ Scan
    BY <2>2 DEF MonitorExits, BeginRound, Scan, LookAt, AwaitWorkers, EndRound,
       ReportAgain, ReportOn, EndReport
  <2>3. CASE UNCHANGED pc
    BY <2>3
  <2>4. CASE StartRefused \/ CallStart \/ StartReturns
    BY <2>4 DEF StartRefused, CallStart, StartReturns
  <2>5. ASSUME NEW r \in Readers, CallRead(r) \/ \E u \in Tunnels : AskTunnel(r, u)
        PROVE  UNCHANGED pc
    BY <2>5 DEF CallRead, AskTunnel
  <2>6. QED
    BY <2>1, <2>2, <2>3, <2>4, <2>5 DEF Next, CancelContext, GoesDown, OwnDialBegins,
       OwnDialEnds, CallStop, Stop, StopLocks, StopReturns, CloseTunnel, vars
<1>2. IInv /\ [Next]_vars =>
        [start = "ok" /\ ctxDone => Calling' \subseteq Calling]_vars
  BY <1>1
<1>3. QED
  BY <1>2, Invariance, PTL DEF SafetySpec, EndedContextHolds

-----------------------------------------------------------------------------
(* Division with remainder, and the round robin of GetTunnel.              *)

LEMMA Division ==
  ASSUME NEW x \in Int, NEW n \in Nat \ {0}
  PROVE  \E q \in Int, r \in 0..(n - 1) : r = x % n /\ x = n * q + r
<1>1. x = n * (x \div n) + (x % n) /\ x \div n \in Int /\ x % n \in 0..(n - 1)
  OBVIOUS
<1>2. QED
  BY <1>1

\* A number has one remainder.
LEMMA RemainderUnique ==
  ASSUME NEW n \in Nat \ {0}, NEW q \in Int, NEW d \in Int,
         NEW r \in 0..(n - 1), NEW m \in 0..(n - 1), n * q + r = n * d + m
  PROVE  r = m
<1>1. PICK k \in Int : k = q - d
  OBVIOUS
<1>2. n * k = m - r
  <2>1. n * (q - d) = n * q - n * d
    OBVIOUS
  <2>2. PICK a, b \in Int : a = n * q /\ b = n * d
    OBVIOUS
  <2>3. QED
    BY <1>1, <2>1, <2>2
<1>3. k >= 1 => n * k >= n
  OBVIOUS
<1>4. k <= -1 => n * k <= - n
  OBVIOUS
<1>5. k = 0
  BY <1>2, <1>3, <1>4
<1>6. n * k = 0
  BY <1>5
<1>7. QED
  BY <1>2, <1>6

LEMMA RemainderOf ==
  ASSUME NEW n \in Nat \ {0}, NEW q \in Int, NEW r \in 0..(n - 1)
  PROVE  (n * q + r) % n = r
<1>1. PICK x \in Int : x = n * q + r
  OBVIOUS
<1>2. PICK d \in Int, m \in 0..(n - 1) : m = x % n /\ x = n * d + m
  BY Division, Zenon
<1>3. n * q + r = n * d + m
  BY <1>1, <1>2, Zenon
<1>4. r = m
  BY <1>3, RemainderUnique, Zenon
<1>5. QED
  BY <1>1, <1>2, <1>4, Zenon

\* Counting on from any number, n steps reach every remainder.
LEMMA EveryRemainder ==
  ASSUME NEW n \in Nat \ {0}, NEW first \in Int, NEW k \in 0..(n - 1)
  PROVE  \E a \in 0..(n - 1) : (first + a) % n = k
<1>1. PICK x \in Int : x = k - first
  OBVIOUS
<1>2. PICK q \in Int, a \in 0..(n - 1) : a = x % n /\ x = n * q + a
  BY Division, Zenon
<1>3. PICK p \in Int : p = n * q
  OBVIOUS
<1>4. n * (- q) = - p /\ - q \in Int
  BY <1>3
<1>5. first + a = n * (- q) + k
  <2>1. x = p + a
    BY <1>2, <1>3, Zenon
  <2>2. QED
    BY <1>1, <1>4, <2>1
<1>6. (n * (- q) + k) % n = k
  BY <1>4, RemainderOf, Zenon
<1>7. QED
  BY <1>5, <1>6, Zenon

\* Where the wrap of the counter is not felt: before it, and when the number
\* of tunnels divides the number of its values.
LEMMA WrapUnfelt ==
  ASSUME NEW n \in Nat \ {0}, NEW x \in Nat, x < Width \/ Width % n = 0
  PROVE  (x % Width) % n = x % n
<1> USE WidthAssumption
<1>1. CASE x < Width
  <2>1. x = Width * 0 + x /\ x \in 0..(Width - 1)
    BY <1>1
  <2>2. x % Width = x
    BY <2>1, RemainderOf
  <2>3. QED
    BY <2>2
<1>2. CASE Width % n = 0
  <2>1. PICK e \in Int, y \in 0..(Width - 1) : y = x % Width /\ x = Width * e + y
    <3>1. x \in Int
      OBVIOUS
    <3>2. QED
      BY <3>1, Division, Zenon
  <2>2. PICK w \in Int : Width = n * w
    <3>1. PICK w \in Int, r \in 0..(n - 1) : r = Width % n /\ Width = n * w + r
      <4>1. Width \in Int
        OBVIOUS
      <4>2. QED
        BY <4>1, Division, Zenon
    <3>2. r = 0
      BY <1>2, <3>1
    <3>3. PICK c \in Int : c = n * w
      OBVIOUS
    <3>4. Width = c + r
      BY <3>1, <3>3
    <3>5. QED
      BY <3>2, <3>3, <3>4
  <2>3. PICK f \in Int, r \in 0..(n - 1) : r = x % n /\ x = n * f + r
    <3>1. x \in Int
      OBVIOUS
    <3>2. QED
      BY <3>1, Division, Zenon
  <2>4. PICK g \in Int : g = w * e
    OBVIOUS
  <2>5. Width * e = n * g
    BY <2>2, <2>4
  <2>6. n * (f - g) = n * f - n * g
    OBVIOUS
  <2>7. PICK a, b \in Int : a = n * f /\ b = n * g
    OBVIOUS
  <2>8. y = n * (f - g) + r
    <3>1. x = b + y
      BY <2>1, <2>5, <2>7
    <3>2. x = a + r
      BY <2>3, <2>7
    <3>3. n * (f - g) = a - b
      BY <2>6, <2>7
    <3>4. QED
      BY <3>1, <3>2, <3>3
  <2>9. y % n = r
    BY <2>8, RemainderOf
  <2>10. QED
    BY <2>1, <2>3, <2>9
<1>3. QED
  BY <1>1, <1>2

\* Where an int holds every value of the counter, GetTunnel asks the tunnel
\* at the remainder, and never one outside of p.tunnels (pool.go:184).
LEMMA IndexIsRemainder ==
  ASSUME IntMax >= Width - 1, NEW n \in Nat \ {0}, NEW first \in Nat, NEW a \in Nat
  PROVE  /\ TunnelIndex(first, a, n) = ((first + a) % Width) % n
         /\ TunnelIndex(first, a, n) \in 0..(n - 1)
<1>1. PICK x \in 0..(Width - 1) : x = (first + a) % Width
  BY WidthAssumption, Division
<1>2. ToInt(x) = x
  BY <1>1, WidthAssumption, IntMaxAssumption DEF ToInt
<1>3. TunnelIndex(first, a, n) = x % n
  BY <1>1, <1>2, WidthAssumption DEF TunnelIndex, Rem
<1>4. x % n \in 0..(n - 1)
  BY <1>1, Division, WidthAssumption
<1>5. QED
  BY <1>1, <1>3, <1>4

\* One call of GetTunnel asks every tunnel of the pool before it gives up,
\* unless its attempts cross the wrap of the counter and the number of tunnels
\* does not divide 2^32; on a platform whose int is wider than 32 bits
\* (pool.go:180-184).
THEOREM ScanAsksEveryTunnel ==
  ASSUME IntMax >= Width - 1, NEW n \in Nat \ {0}, NEW first \in 0..(Width - 1),
         first + n <= Width \/ Width % n = 0
  PROVE  Asked(first, n) = 0..(n - 1)
<1>1. ASSUME NEW a \in 0..(n - 1)
      PROVE  TunnelIndex(first, a, n) = (first + a) % n /\ TunnelIndex(first, a, n) \in 0..(n - 1)
  <2>1. first + a \in Nat /\ (first + a < Width \/ Width % n = 0)
    BY WidthAssumption
  <2>2. first \in Nat /\ a \in Nat
    BY WidthAssumption
  <2>3. ((first + a) % Width) % n = (first + a) % n
    BY <2>1, WrapUnfelt, Zenon
  <2>4. /\ TunnelIndex(first, a, n) = ((first + a) % Width) % n
        /\ TunnelIndex(first, a, n) \in 0..(n - 1)
    BY <2>2, IndexIsRemainder, Zenon
  <2>5. QED
    BY <2>3, <2>4, Zenon
<1>2. ASSUME NEW k \in 0..(n - 1) PROVE k \in Asked(first, n)
  <2>1. first \in Int
    BY WidthAssumption
  <2>2. PICK a \in 0..(n - 1) : (first + a) % n = k
    BY <2>1, EveryRemainder, Zenon
  <2>3. QED
    BY <1>1, <2>2, Zenon DEF Asked
<1>3. QED
  BY <1>1, <1>2 DEF Asked
====
