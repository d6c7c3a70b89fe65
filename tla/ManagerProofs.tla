---- MODULE ManagerProofs ----
(***************************************************************************)
(* Proofs about Manager, for every number of servers, pools, callers and   *)
(* connections: only running pools are offered, no pool is lost, and a     *)
(* scan reads one state of the table.                                      *)
(*                                                                         *)
(* The argument: a pool with tunnels has exactly one owner at a time: the  *)
(* Start that made it, then the table, then the goroutine that stops it.   *)
(* Each step that takes it from one owner hands it to the next, because    *)
(* the table changes only under the lock.                                  *)
(***************************************************************************)
EXTENDS Manager, TLAPS

\* What a caller in each stage holds in its hands.
Holds(c) ==
    /\ pc[c] \in {"out", "stop", "stopAll"} => new[c] = None
    /\ pc[c] \in {"check", "starting", "cleanup", "insert", "watch"} =>
        new[c] \in Pools /\ arg[c] \in Servers
    /\ pc[c] = "stop" => arg[c] \in Servers
    /\ pc[c] = "check" => life[new[c]] = "new"
    /\ pc[c] = "starting" => life[new[c]] = "starting"
    /\ pc[c] = "insert" => life[new[c]] = "running"
    /\ pc[c] = "cleanup" => life[new[c]] \in {"running", "failed"}
    /\ pc[c] = "watch" => life[new[c]] \in {"running", "stopped"}
    /\ pc[c] \in {"starting", "cleanup", "insert", "watch"} => server[new[c]] = arg[c]
    /\ pc[c] \in {"starting", "cleanup", "insert"} =>
        new[c] \notin stopping /\ \A s \in Servers : pools[s] # new[c]

CallersHold == \A c \in Callers : Holds(c)

\* No two callers hold the same pool.
HeldOnce == \A c, d \in Callers : c # d /\ new[c] = new[d] => new[c] = None

\* A pool is stopped once, and only after its Start has succeeded.
StoppingRuns == \A p \in stopping : life[p] = "running"

\* The goroutine that waits for a context knows its server.
WatchersKnow == \A p \in Pools : watcher[p] # "none" => server[p] \in Servers /\ life[p] # "new"

IInv ==
    /\ TypeOK
    /\ CallersHold
    /\ HeldOnce
    /\ StoppingRuns
    /\ WatchersKnow
    /\ OfferedIsRunning
    /\ NoPoolLost
    /\ ScanIsConsistent

USE NoneAssumption DEF Stages, Lives, Goto, Return, Offered, poolVars, callVars, scanVars

-----------------------------------------------------------------------------

LEMMA InitInv == Init => IInv
BY DEF Init, IInv, TypeOK, CallersHold, Holds, HeldOnce, StoppingRuns, WatchersKnow,
       OfferedIsRunning, NoPoolLost, ScanIsConsistent

(* Steps that leave the table alone.                                       *)

LEMMA CallStartInv ==
  ASSUME IInv, NEW c \in Callers, NEW s \in Servers, CallStart(c, s)
  PROVE  IInv'
BY DEF IInv, CallStart, TypeOK, CallersHold, Holds, HeldOnce, StoppingRuns, WatchersKnow,
       OfferedIsRunning, NoPoolLost, ScanIsConsistent

LEMMA AlreadyExistsInv ==
  ASSUME IInv, NEW c \in Callers, AlreadyExists(c)
  PROVE  IInv'
BY DEF IInv, AlreadyExists, TypeOK, CallersHold, Holds, HeldOnce, StoppingRuns, WatchersKnow,
       OfferedIsRunning, NoPoolLost, ScanIsConsistent

LEMMA CreatePoolInv ==
  ASSUME IInv, NEW c \in Callers, CreatePool(c)
  PROVE  IInv'
BY DEF IInv, CreatePool, TypeOK, CallersHold, Holds, HeldOnce, StoppingRuns, WatchersKnow,
       OfferedIsRunning, NoPoolLost, ScanIsConsistent

LEMMA PoolStartedInv ==
  ASSUME IInv, NEW c \in Callers, PoolStarted(c)
  PROVE  IInv'
BY DEF IInv, PoolStarted, TypeOK, CallersHold, Holds, HeldOnce, StoppingRuns, WatchersKnow,
       OfferedIsRunning, NoPoolLost, ScanIsConsistent

LEMMA CleanupInv ==
  ASSUME IInv, NEW c \in Callers, Cleanup(c)
  PROVE  IInv'
BY DEF IInv, Cleanup, TypeOK, CallersHold, Holds, HeldOnce, StoppingRuns, WatchersKnow,
       OfferedIsRunning, NoPoolLost, ScanIsConsistent

LEMMA WatchInv ==
  ASSUME IInv, NEW c \in Callers, Watch(c)
  PROVE  IInv'
BY DEF IInv, Watch, TypeOK, CallersHold, Holds, HeldOnce, StoppingRuns, WatchersKnow,
       OfferedIsRunning, NoPoolLost, ScanIsConsistent

LEMMA CallStopInv ==
  ASSUME IInv, NEW c \in Callers, NEW s \in Servers, CallStop(c, s)
  PROVE  IInv'
BY DEF IInv, CallStop, TypeOK, CallersHold, Holds, HeldOnce, StoppingRuns, WatchersKnow,
       OfferedIsRunning, NoPoolLost, ScanIsConsistent

LEMMA CallStopAllInv ==
  ASSUME IInv, NEW c \in Callers, CallStopAll(c)
  PROVE  IInv'
BY DEF IInv, CallStopAll, TypeOK, CallersHold, Holds, HeldOnce, StoppingRuns, WatchersKnow,
       OfferedIsRunning, NoPoolLost, ScanIsConsistent

LEMMA PoolStopsInv ==
  ASSUME IInv, NEW p \in Pools, PoolStops(p)
  PROVE  IInv'
BY DEF IInv, PoolStops, TypeOK, CallersHold, Holds, HeldOnce, StoppingRuns, WatchersKnow,
       OfferedIsRunning, NoPoolLost, ScanIsConsistent

LEMMA CancelContextInv ==
  ASSUME IInv, NEW p \in Pools, CancelContext(p)
  PROVE  IInv'
BY DEF IInv, CancelContext, TypeOK, CallersHold, Holds, HeldOnce, StoppingRuns, WatchersKnow,
       OfferedIsRunning, NoPoolLost, ScanIsConsistent

LEMMA WatcherWakesInv ==
  ASSUME IInv, NEW p \in Pools, WatcherWakes(p)
  PROVE  IInv'
BY DEF IInv, WatcherWakes, TypeOK, CallersHold, Holds, HeldOnce, StoppingRuns, WatchersKnow,
       OfferedIsRunning, NoPoolLost, ScanIsConsistent

LEMMA ScanInv ==
  ASSUME IInv, NEW f \in Conns, CallForward(f) \/ ScanRuns(f)
  PROVE  IInv'
BY DEF IInv, CallForward, ScanRuns, BeginScan, EndScan, AskPool, TypeOK, CallersHold,
       Holds, HeldOnce, StoppingRuns, WatchersKnow, OfferedIsRunning, NoPoolLost, ScanIsConsistent

LEMMA DialInv ==
  ASSUME IInv, NEW p \in Pools, DialBegins(p) \/ DialEnds(p)
  PROVE  IInv'
BY DEF IInv, DialBegins, DialEnds, TypeOK, CallersHold, Holds, HeldOnce, StoppingRuns,
       WatchersKnow, OfferedIsRunning, NoPoolLost, ScanIsConsistent

(* Steps that change the table.  They wait until no scan is under way.     *)

\* The pool passes from the caller to the table, or to its Cleanup.
LEMMA InsertInv ==
  ASSUME IInv, NEW c \in Callers, Insert(c)
  PROVE  IInv'
<1> USE DEF IInv, Insert
<1>1. TypeOK'
  BY DEF TypeOK, CallersHold, Holds
<1>2. CallersHold'
  BY DEF TypeOK, CallersHold, Holds, HeldOnce, OfferedIsRunning, StoppingRuns
<1>3. HeldOnce'
  BY DEF TypeOK, HeldOnce
<1>4. StoppingRuns'
  BY DEF TypeOK, StoppingRuns, OfferedIsRunning
<1>5. WatchersKnow'
  BY DEF TypeOK, WatchersKnow
<1>6. OfferedIsRunning'
  BY DEF TypeOK, OfferedIsRunning, CallersHold, Holds, HeldOnce
<1>7. NoPoolLost'
  BY DEF TypeOK, NoPoolLost, CallersHold, Holds, HeldOnce
<1>8. ScanIsConsistent'
  BY DEF TypeOK, ScanIsConsistent, NoReader
<1> QED
  BY <1>1, <1>2, <1>3, <1>4, <1>5, <1>6, <1>7, <1>8

\* The pool of that name passes from the table to a goroutine.
LEMMA StopServerInv ==
  ASSUME IInv, NEW c \in Callers, StopServer(c)
  PROVE  IInv'
<1> USE DEF IInv, StopServer, Take
<1>1. TypeOK'
  BY DEF TypeOK, CallersHold, Holds
<1>2. CallersHold'
  BY DEF TypeOK, CallersHold, Holds, HeldOnce, OfferedIsRunning, StoppingRuns
<1>3. HeldOnce'
  BY DEF TypeOK, HeldOnce
<1>4. StoppingRuns'
  BY DEF TypeOK, StoppingRuns, OfferedIsRunning, CallersHold, Holds
<1>5. WatchersKnow'
  BY DEF TypeOK, WatchersKnow
<1>6. OfferedIsRunning'
  BY DEF TypeOK, OfferedIsRunning, CallersHold, Holds, HeldOnce
<1>7. NoPoolLost'
  BY DEF TypeOK, NoPoolLost, CallersHold, Holds, HeldOnce
<1>8. ScanIsConsistent'
  BY DEF TypeOK, ScanIsConsistent, NoReader
<1> QED
  BY <1>1, <1>2, <1>3, <1>4, <1>5, <1>6, <1>7, <1>8

\* Every pool of the table passes to a goroutine.
LEMMA StopAllInv ==
  ASSUME IInv, NEW c \in Callers, StopAll(c)
  PROVE  IInv'
<1> USE DEF IInv, StopAll
<1>1. TypeOK'
  BY DEF TypeOK
<1>2. CallersHold'
  BY DEF TypeOK, CallersHold, Holds, HeldOnce, OfferedIsRunning, StoppingRuns
<1>3. HeldOnce'
  BY DEF TypeOK, HeldOnce
<1>4. StoppingRuns'
  BY DEF TypeOK, StoppingRuns, OfferedIsRunning
<1>5. WatchersKnow'
  BY DEF TypeOK, WatchersKnow
<1>6. OfferedIsRunning'
  BY DEF TypeOK, OfferedIsRunning, CallersHold, Holds, HeldOnce
<1>7. NoPoolLost'
  BY DEF TypeOK, NoPoolLost, CallersHold, Holds, HeldOnce
<1>8. ScanIsConsistent'
  BY DEF TypeOK, ScanIsConsistent, NoReader
<1> QED
  BY <1>1, <1>2, <1>3, <1>4, <1>5, <1>6, <1>7, <1>8

\* As in Stop, by the name of the server the context was for.
LEMMA WatcherStopsInv ==
  ASSUME IInv, NEW p \in Pools, WatcherStops(p)
  PROVE  IInv'
<1> USE DEF IInv, WatcherStops, Take
<1>1. TypeOK'
  BY DEF TypeOK, WatchersKnow
<1>2. CallersHold'
  BY DEF TypeOK, CallersHold, Holds, OfferedIsRunning, StoppingRuns, WatchersKnow
<1>3. HeldOnce'
  BY DEF TypeOK, HeldOnce
<1>4. StoppingRuns'
  BY DEF TypeOK, StoppingRuns, OfferedIsRunning, WatchersKnow
<1>5. WatchersKnow'
  BY DEF TypeOK, WatchersKnow
<1>6. OfferedIsRunning'
  BY DEF TypeOK, OfferedIsRunning, CallersHold, Holds, HeldOnce, WatchersKnow
<1>7. NoPoolLost'
  BY DEF TypeOK, NoPoolLost, CallersHold, Holds, HeldOnce, WatchersKnow
<1>8. ScanIsConsistent'
  BY DEF TypeOK, ScanIsConsistent, NoReader
<1> QED
  BY <1>1, <1>2, <1>3, <1>4, <1>5, <1>6, <1>7, <1>8

-----------------------------------------------------------------------------

LEMMA StutterInv == IInv /\ UNCHANGED vars => IInv'
BY DEF IInv, vars, TypeOK, CallersHold, Holds, HeldOnce, StoppingRuns, WatchersKnow,
       OfferedIsRunning, NoPoolLost, ScanIsConsistent

LEMMA NextInv == IInv /\ [Next]_vars => IInv'
<1> SUFFICES ASSUME IInv, [Next]_vars PROVE IInv'
  OBVIOUS
<1>1. CASE UNCHANGED vars
  BY <1>1, StutterInv
<1>2. ASSUME NEW c \in Callers, Call(c) PROVE IInv'
  BY <1>2, CallStartInv, CallStopInv, CallStopAllInv DEF Call
<1>3. ASSUME NEW c \in Callers, CallerRuns(c) PROVE IInv'
  BY <1>3, AlreadyExistsInv, CreatePoolInv, PoolStartedInv, CleanupInv, InsertInv,
     WatchInv, StopServerInv, StopAllInv DEF CallerRuns
<1>4. ASSUME NEW f \in Conns, CallForward(f) \/ ScanRuns(f) PROVE IInv'
  BY <1>4, ScanInv
<1>5. ASSUME NEW p \in Pools, PoolStops(p) \/ CancelContext(p) \/ WatcherRuns(p)
             PROVE IInv'
  BY <1>5, PoolStopsInv, CancelContextInv, WatcherWakesInv, WatcherStopsInv DEF WatcherRuns
<1>6. ASSUME NEW p \in Pools, DialBegins(p) \/ DialEnds(p) PROVE IInv'
  BY <1>6, DialInv
<1>7. QED
  BY <1>1, <1>2, <1>3, <1>4, <1>5, <1>6 DEF Next

\* Each pool with tunnels has one owner, whatever the callers, contexts and
\* connections do (manager.go:33-119).
THEOREM Invariance == SafetySpec => []IInv
<1>1. QED
  BY InitInv, NextInv, PTL DEF SafetySpec

\* The variables keep their types, for every value of the constants.
THEOREM TypeCorrect == SafetySpec => []TypeOK
<1>1. IInv => TypeOK
  BY DEF IInv
<1>2. QED
  BY <1>1, Invariance, PTL

\* Forward is offered only pools whose Start has succeeded and that nobody has
\* begun to stop (manager.go:51, 67, 82-86, 100-105).
THEOREM OnlyRunningOffered == SafetySpec => []OfferedIsRunning
<1>1. IInv => OfferedIsRunning
  BY DEF IInv
<1>2. QED
  BY <1>1, Invariance, PTL

\* A pool with connections is always in reach of somebody who stops it
\* (manager.go:54, 60-65, 90-94).
THEOREM PoolsInReach == SafetySpec => []NoPoolLost
<1>1. IInv => NoPoolLost
  BY DEF IInv
<1>2. QED
  BY <1>1, Invariance, PTL

\* A scan never asks a pool that has left the table (manager.go:153-166).
THEOREM ScansConsistent == SafetySpec => []ScanIsConsistent
<1>1. IInv => ScanIsConsistent
  BY DEF IInv
<1>2. QED
  BY <1>1, Invariance, PTL

-----------------------------------------------------------------------------
(* The order of a pool's life, causes and watchers.                        *)

\* The Manager calls the operations of a pool in the order Pool is made for
\* (manager.go:51, 54, 64, 86, 104).
THEOREM LivesInOrder == SafetySpec => LifeInOrder
<1>1. ASSUME IInv, [Next]_vars, NEW p \in Pools, life'[p] # life[p]
      PROVE  <<life[p], life'[p]>> \in LifeOrder
  <2> USE DEF IInv, TypeOK, LifeOrder
  <2>1. ASSUME NEW c \in Callers, CallerRuns(c)
        PROVE  <<life[p], life'[p]>> \in LifeOrder
    BY <1>1, <2>1 DEF CallerRuns, AlreadyExists, CreatePool, PoolStarted, Cleanup, Insert,
       Watch, StopServer, StopAll, CallersHold, Holds
  <2>2. ASSUME NEW q \in Pools, PoolStops(q)
        PROVE  <<life[p], life'[p]>> \in LifeOrder
    BY <1>1, <2>2 DEF PoolStops, StoppingRuns
  <2>3. QED
    BY <1>1, <2>1, <2>2 DEF Next, Call, CallStart, CallStop, CallStopAll, CallForward, ScanRuns,
       BeginScan, EndScan, AskPool, CancelContext, WatcherRuns, WatcherWakes, WatcherStops,
       DialBegins, DialEnds, vars
<1>2. IInv /\ [Next]_vars =>
        [\A p \in Pools : life'[p] # life[p] => <<life[p], life'[p]>> \in LifeOrder]_vars
  BY <1>1
<1>3. QED
  BY <1>2, Invariance, PTL DEF SafetySpec, LifeInOrder

\* A goroutine that waited for a context has been woken by its end, and it
\* exists only once the Start that made the pool has nothing left to do.
WatchersFit ==
    \A p \in Pools :
        /\ watcher[p] = "lock" => ctxDone[p]
        /\ watcher[p] # "none" => \A c \in Callers : new[c] # p

LEMMA WatchersFitStep ==
  ASSUME IInv, WatchersFit, [Next]_vars
  PROVE  WatchersFit'
<1> USE DEF IInv, TypeOK, WatchersFit
<1>1. ASSUME NEW c \in Callers, NEW s \in Servers, CallStart(c, s) PROVE WatchersFit'
  BY <1>1 DEF CallStart, WatchersKnow
<1>2. ASSUME NEW c \in Callers, Watch(c) PROVE WatchersFit'
  BY <1>2 DEF Watch, CallersHold, Holds, HeldOnce
<1>3. ASSUME NEW c \in Callers, CallerRuns(c), ~ Watch(c) PROVE WatchersFit'
  BY <1>3 DEF CallerRuns, AlreadyExists, CreatePool, PoolStarted, Cleanup, Insert,
     StopServer, StopAll
<1>4. ASSUME NEW p \in Pools, PoolStops(p) \/ CancelContext(p) \/ WatcherRuns(p)
      PROVE  WatchersFit'
  BY <1>4 DEF PoolStops, CancelContext, WatcherRuns, WatcherWakes, WatcherStops
<1>5. CASE UNCHANGED <<watcher, ctxDone, new>>
  BY <1>5
<1>6. QED
  BY <1>1, <1>2, <1>3, <1>4, <1>5 DEF Next, Call, CallStop, CallStopAll, CallForward, ScanRuns,
     BeginScan, EndScan, AskPool, DialBegins, DialEnds, vars

LEMMA WatchersFitAlways == SafetySpec => []WatchersFit
<1>1. Init => WatchersFit
  BY DEF Init, WatchersFit
<1>2. QED
  BY <1>1, WatchersFitStep, Invariance, PTL DEF SafetySpec

\* No server loses its pool for the context of another one, to an insertion or
\* to a call that was for another server (manager.go:74, 83, 100).
THEOREM RemovalsHaveCause == SafetySpec => RemovalHasCause
<1> DEFINE Cause(s) ==
      /\ pools'[s] = None
      /\ \/ \E c \in Callers : pc[c] = "stopAll" \/ (pc[c] = "stop" /\ arg[c] = s)
         \/ \E p \in Pools : server[p] = s /\ ctxDone[p]
<1>1. ASSUME IInv, WatchersFit, [Next]_vars, NEW s \in Servers,
             pools[s] # None, pools'[s] # pools[s]
      PROVE  Cause(s)
  <2> USE DEF IInv, TypeOK
  <2>1. ASSUME NEW c \in Callers, CallerRuns(c) PROVE Cause(s)
    BY <1>1, <2>1 DEF CallerRuns, AlreadyExists, CreatePool, PoolStarted, Cleanup, Insert,
       Watch, StopServer, StopAll, Take
  <2>2. ASSUME NEW p \in Pools, WatcherStops(p) PROVE Cause(s)
    <3>1. server[p] = s /\ pools'[s] = None
      BY <1>1, <2>2 DEF WatcherStops, Take
    <3>2. ctxDone[p]
      BY <1>1, <2>2 DEF WatcherStops, WatchersFit
    <3>3. QED
      BY <3>1, <3>2
  <2>3. QED
    BY <1>1, <2>1, <2>2 DEF Next, Call, CallStart, CallStop, CallStopAll, CallForward, ScanRuns,
       BeginScan, EndScan, AskPool, PoolStops, CancelContext, WatcherRuns, WatcherWakes,
       DialBegins, DialEnds, vars
<1>2. IInv /\ WatchersFit /\ [Next]_vars =>
        [\A s \in Servers : pools[s] # None /\ pools'[s] # pools[s] => Cause(s)]_vars
  BY <1>1
<1>3. QED
  BY <1>2, Invariance, WatchersFitAlways, PTL DEF SafetySpec, RemovalHasCause

LEMMA WatchedStep ==
  ASSUME IInv, WatchersFit, RunningIsWatched, [Next]_vars
  PROVE  RunningIsWatched'
<1> USE DEF IInv, TypeOK, RunningIsWatched
<1>1. ASSUME NEW c \in Callers, CallerRuns(c) PROVE RunningIsWatched'
  <2>1. CASE AlreadyExists(c) \/ CreatePool(c)
    BY <2>1 DEF AlreadyExists, CreatePool
  <2>2. CASE PoolStarted(c)
    BY <2>2 DEF PoolStarted, CallersHold, Holds
  <2>3. CASE Cleanup(c)
    BY <2>3 DEF Cleanup, CallersHold, Holds
  <2>4. CASE Insert(c)
    BY <2>4 DEF Insert
  <2>5. CASE Watch(c)
    BY <2>5 DEF Watch, CallersHold, Holds
  <2>6. CASE StopServer(c) \/ StopAll(c)
    BY <2>6 DEF StopServer, StopAll, Take
  <2>7. QED
    BY <1>1, <2>1, <2>2, <2>3, <2>4, <2>5, <2>6 DEF CallerRuns
<1>2. ASSUME NEW c \in Callers, Call(c) PROVE RunningIsWatched'
  BY <1>2 DEF Call, CallStart, CallStop, CallStopAll
<1>3. ASSUME NEW p \in Pools, WatcherStops(p) PROVE RunningIsWatched'
  <2>1. ASSUME life[p] = "running", p \notin stopping PROVE p \in stopping'
    <3>1. PICK s \in Servers : pools[s] = p
      BY <1>3, <2>1 DEF NoPoolLost, WatchersFit, WatcherStops
    <3>2. server[p] = s
      BY <3>1 DEF OfferedIsRunning
    <3>3. QED
      BY <1>3, <3>1, <3>2 DEF WatcherStops, Take
  <2>2. stopping \subseteq stopping'
    BY <1>3 DEF WatcherStops, Take
  <2>3. QED
    BY <1>3, <2>1, <2>2 DEF WatcherStops
<1>4. ASSUME NEW p \in Pools, PoolStops(p) PROVE RunningIsWatched'
  BY <1>4 DEF PoolStops
<1>5. ASSUME NEW p \in Pools, WatcherWakes(p) PROVE RunningIsWatched'
  BY <1>5 DEF WatcherWakes
<1>6. CASE UNCHANGED <<life, stopping, watcher, new, pc>>
  BY <1>6
<1>7. QED
  BY <1>1, <1>2, <1>3, <1>4, <1>5, <1>6 DEF Next, WatcherRuns, CancelContext, CallForward,
     ScanRuns, BeginScan, EndScan, AskPool, DialBegins, DialEnds, vars

\* At every moment from the success of pool.Start on, the end of the context
\* finds somebody who stops the pool (manager.go:54-75): the safety behind
\* StopTakesEffect.
THEOREM RunningPoolsWatched == SafetySpec => []RunningIsWatched
<1>1. Init => RunningIsWatched
  BY DEF Init, RunningIsWatched
<1>2. QED
  BY <1>1, WatchedStep, WatchersFitAlways, Invariance, PTL DEF SafetySpec

-----------------------------------------------------------------------------
(* Refinement.                                                             *)

LEMMA InitRegistry == Init => Reg!Init
BY DEF Init, Reg!Init, Gone

\* Taking a server out of the table withdraws its pool.
LEMMA TakeWithdraws ==
  ASSUME IInv, NEW s \in Servers, Take(s), life' = life
  PROVE  Reg!Withdraw({s})
<1>1. pools' = [t \in Servers |-> IF t \in {s} THEN None ELSE pools[t]]
  BY DEF IInv, TypeOK, Take
<1>2. Gone' = Gone \cup {p \in Pools : \E t \in {s} : pools[t] = p}
  BY DEF IInv, TypeOK, Take, Gone
<1>3. QED
  BY <1>1, <1>2 DEF Reg!Withdraw

LEMMA NextRegistry == IInv /\ [Next]_vars => [Reg!Next]_(Reg!vars)
<1> SUFFICES ASSUME IInv, [Next]_vars PROVE [Reg!Next]_(Reg!vars)
  OBVIOUS
<1> USE DEF IInv, TypeOK, Reg!vars
<1>1. ASSUME NEW c \in Callers, PoolStarted(c) PROVE [Reg!Next]_(Reg!vars)
  <2>1. /\ new[c] \in Pools /\ life[new[c]] = "starting"
        /\ new[c] \notin stopping /\ \A s \in Servers : pools[s] # new[c]
    BY <1>1 DEF PoolStarted, CallersHold, Holds
  <2>2. CASE life' = [life EXCEPT ![new[c]] = "running"]
    BY <1>1, <2>1, <2>2 DEF PoolStarted, Gone
  <2>3. CASE life' = [life EXCEPT ![new[c]] = "failed"]
    <3>1. Gone' = Gone \cup {new[c]} /\ new[c] \notin Gone
      BY <1>1, <2>1, <2>3 DEF PoolStarted, Gone
    <3>2. Reg!Discard(new[c])
      BY <1>1, <2>1, <3>1 DEF PoolStarted, Reg!Discard, Reg!Offered
    <3>3. QED
      BY <2>1, <3>2 DEF Reg!Next
  <2>4. QED
    BY <1>1, <2>2, <2>3 DEF PoolStarted
<1>2. ASSUME NEW c \in Callers, Cleanup(c) PROVE [Reg!Next]_(Reg!vars)
  <2>1. /\ new[c] \in Pools /\ life[new[c]] \in {"running", "failed"}
        /\ new[c] \notin stopping /\ \A s \in Servers : pools[s] # new[c]
    BY <1>2 DEF Cleanup, CallersHold, Holds
  <2>2. Gone' = Gone \cup {new[c]}
    BY <1>2, <2>1 DEF Cleanup, Gone
  <2>3. CASE life[new[c]] = "failed"
    BY <1>2, <2>1, <2>2, <2>3 DEF Cleanup, Gone
  <2>4. CASE life[new[c]] = "running"
    <3>1. new[c] \notin Gone
      BY <2>1, <2>4 DEF Gone
    <3>2. Reg!Discard(new[c])
      BY <1>2, <2>1, <2>2, <3>1 DEF Cleanup, Reg!Discard, Reg!Offered
    <3>3. QED
      BY <2>1, <3>2 DEF Reg!Next
  <2>5. QED
    BY <2>1, <2>3, <2>4
<1>3. ASSUME NEW c \in Callers, Insert(c) PROVE [Reg!Next]_(Reg!vars)
  <2>1. /\ new[c] \in Pools /\ arg[c] \in Servers /\ life[new[c]] = "running"
        /\ new[c] \notin stopping /\ \A s \in Servers : pools[s] # new[c]
    BY <1>3 DEF Insert, CallersHold, Holds
  <2>2. Gone' = Gone
    BY <1>3 DEF Insert, Gone
  <2>3. CASE pools[arg[c]] = None
    <3>1. Reg!Offer(arg[c], new[c])
      BY <1>3, <2>1, <2>2, <2>3 DEF Insert, Gone, Reg!Offer, Reg!Offered
    <3>2. QED
      BY <2>1, <3>1 DEF Reg!Next
  <2>4. CASE pools[arg[c]] # None
    BY <1>3, <2>2, <2>4 DEF Insert
  <2>5. QED
    BY <2>3, <2>4
<1>4. ASSUME NEW c \in Callers, StopServer(c) PROVE [Reg!Next]_(Reg!vars)
  <2>1. arg[c] \in Servers /\ Take(arg[c]) /\ life' = life
    BY <1>4 DEF StopServer, CallersHold, Holds
  <2>2. Reg!Withdraw({arg[c]}) /\ {arg[c]} \in SUBSET Servers
    BY <2>1, TakeWithdraws
  <2>3. QED
    BY <2>2 DEF Reg!Next
<1>5. ASSUME NEW c \in Callers, StopAll(c) PROVE [Reg!Next]_(Reg!vars)
  <2>1. pools' = [s \in Servers |-> IF s \in Servers THEN None ELSE pools[s]]
    BY <1>5 DEF StopAll
  <2>2. Gone' = Gone \cup {p \in Pools : \E s \in Servers : pools[s] = p}
    BY <1>5 DEF StopAll, Gone
  <2>3. Reg!Withdraw(Servers) /\ Servers \in SUBSET Servers
    BY <2>1, <2>2 DEF Reg!Withdraw
  <2>4. QED
    BY <2>3 DEF Reg!Next
<1>6. ASSUME NEW p \in Pools, WatcherStops(p) PROVE [Reg!Next]_(Reg!vars)
  <2>1. server[p] \in Servers /\ Take(server[p]) /\ life' = life
    BY <1>6 DEF WatcherStops, WatchersKnow
  <2>2. Reg!Withdraw({server[p]}) /\ {server[p]} \in SUBSET Servers
    BY <2>1, TakeWithdraws
  <2>3. QED
    BY <2>2 DEF Reg!Next
<1>7. ASSUME NEW p \in Pools, PoolStops(p) PROVE UNCHANGED Reg!vars
  BY <1>7 DEF PoolStops, Gone
<1>8. ASSUME NEW c \in Callers, AlreadyExists(c) \/ CreatePool(c) \/ Watch(c)
      PROVE  UNCHANGED Reg!vars
  BY <1>8 DEF AlreadyExists, CreatePool, Watch, Gone, CallersHold, Holds
<1>9. CASE UNCHANGED <<pools, life, stopping>>
  BY <1>9 DEF Gone
<1>10. QED
  BY <1>1, <1>2, <1>3, <1>4, <1>5, <1>6, <1>7, <1>8, <1>9 DEF Next, Call, CallStart, CallStop,
     CallStopAll, CallerRuns, WatcherRuns, WatcherWakes, CancelContext, CallForward, ScanRuns,
     BeginScan, EndScan, AskPool, DialBegins, DialEnds, vars

\* The Manager implements Registry: whatever Starts, Stops, contexts and scans
\* do at the same time, a server has one pool at a time and a pool one stretch
\* of being offered, which ends before it is stopped (manager.go:60-67, 82-86,
\* 100-105).
THEOREM ImplementsRegistry == SafetySpec => RegistrySpec
<1>1. QED
  BY Invariance, InitRegistry, NextRegistry, PTL DEF SafetySpec, RegistrySpec, Reg!Spec
====
