---- MODULE Manager ----
(***************************************************************************)
(* The Manager of internal/tunnel/manager.go: the table of the pools that  *)
(* are offered to Forward, the callers that start and stop servers, the    *)
(* goroutine that waits for the context of each Start, and the scans of    *)
(* Forward, which keep the table locked while they ask the pools.          *)
(*                                                                         *)
(* A pool is what PoolLife promises: its Start either succeeds or fails,   *)
(* and a stopped pool stays stopped (Pool shows that it does).  What can   *)
(* be felt outside of it is that a dial of one of its tunnels keeps        *)
(* whoever asks or stops the pool waiting (Tunnel shows that a dial ends). *)
(*                                                                         *)
(* m.mu is a sync.RWMutex: it is given to a writer when there is no reader *)
(* and to a reader when no writer waits.  A writer's critical section does *)
(* not block and is one action; a scan reads for as long as it takes.      *)
(*                                                                         *)
(* Abstracted: which tunnel a pool returns and which pool Forward selects  *)
(* (nothing in the Manager changes with it), the read-only GetStats,       *)
(* GetPool and HasPool, the WaitGroup (StopAll waits for it in a goroutine *)
(* that does nothing afterwards), and the renaming of a server while its   *)
(* pool runs.                                                              *)
(***************************************************************************)
EXTENDS FiniteSets, Naturals

CONSTANTS
    Servers,    \* names of servers, the keys of m.pools
    Pools,      \* the ConnectionPools the calls of Start may create
    Callers,    \* goroutines that call Start, Stop and StopAll
    Conns,      \* goroutines in Forward
    None        \* nil

ASSUME NoneAssumption == None \notin Servers \cup Pools

VARIABLES
    pools,      \* m.pools
    life,       \* where each pool is in its life
    server,     \* the server each pool was made for
    ctxDone,    \* the contexts of the Start calls that are done, by pool
    watcher,    \* the goroutine that waits for that context
    stopping,   \* pools whose Stop was started in a goroutine
    dialling,   \* pools with a tunnel whose lock is held by a dial
    pc,         \* where each caller is
    arg,        \* the server it was called with
    new,        \* the pool its Start has made
    fpc,        \* where each connection is in Forward's scan
    unasked     \* the pools its scan has not asked

vars == <<pools, life, server, ctxDone, watcher, stopping, dialling,
          pc, arg, new, fpc, unasked>>

poolVars == <<life, server, ctxDone>>
callVars == <<pc, arg, new>>
scanVars == <<fpc, unasked>>

-----------------------------------------------------------------------------
(* "out"       the caller is not in the Manager                            *)
(* "check"     in Start, about to look for a pool of that name             *)
(* "starting"  in pool.Start                                               *)
(* "cleanup"   in pool.Stop of a pool it will not use                      *)
(* "insert"    waiting for m.mu to add its pool                            *)
(* "watch"     about to start the goroutine that waits for the context     *)
(* "stop"      in Stop, waiting for m.mu                                   *)
(* "stopAll"   in StopAll, waiting for m.mu                                *)

Stages == {"out", "check", "starting", "cleanup", "insert", "watch", "stop", "stopAll"}

Lives == {"new", "starting", "running", "failed", "stopped"}

Init ==
    /\ pools = [s \in Servers |-> None]
    /\ life = [p \in Pools |-> "new"]
    /\ server = [p \in Pools |-> None]
    /\ ctxDone = [p \in Pools |-> FALSE]
    /\ watcher = [p \in Pools |-> "none"]
    /\ stopping = {}
    /\ dialling = {}
    /\ pc = [c \in Callers |-> "out"]
    /\ arg = [c \in Callers |-> None]
    /\ new = [c \in Callers |-> None]
    /\ fpc = [f \in Conns |-> "out"]
    /\ unasked = [f \in Conns |-> {}]

Offered == {p \in Pools : \E s \in Servers : pools[s] = p}

\* m.mu as a writer and as a reader find it.
NoReader == \A f \in Conns : fpc[f] # "scan"

NoWriter ==
    /\ \A c \in Callers : pc[c] \notin {"insert", "stop", "stopAll"}
    /\ \A p \in Pools : watcher[p] # "lock"

Goto(c, stage) == pc' = [pc EXCEPT ![c] = stage]

Return(c) ==
    /\ Goto(c, "out")
    /\ arg' = [arg EXCEPT ![c] = None]
    /\ new' = [new EXCEPT ![c] = None]

-----------------------------------------------------------------------------
(* Start.                                                                  *)

CallStart(c, s) ==
    /\ pc[c] = "out"
    /\ Goto(c, "check")
    /\ arg' = [arg EXCEPT ![c] = s]
    /\ \E p \in Pools :
        /\ life[p] = "new" /\ \A d \in Callers : new[d] # p
        /\ new' = [new EXCEPT ![c] = p]
    /\ UNCHANGED <<pools, poolVars, watcher, stopping, dialling, scanVars>>

AlreadyExists(c) ==
    /\ pc[c] = "check"
    /\ NoWriter
    /\ pools[arg[c]] # None
    /\ Return(c)
    /\ UNCHANGED <<pools, poolVars, watcher, stopping, dialling, scanVars>>

\* No pool of that name: one is made, and its Start is called.
CreatePool(c) ==
    /\ pc[c] = "check"
    /\ NoWriter
    /\ pools[arg[c]] = None
    /\ server' = [server EXCEPT ![new[c]] = arg[c]]
    /\ life' = [life EXCEPT ![new[c]] = "starting"]
    /\ Goto(c, "starting")
    /\ UNCHANGED <<pools, ctxDone, watcher, stopping, dialling, arg, new, scanVars>>

PoolStarted(c) ==
    /\ pc[c] = "starting"
    /\ \/ life' = [life EXCEPT ![new[c]] = "running"] /\ Goto(c, "insert")
       \/ life' = [life EXCEPT ![new[c]] = "failed"] /\ Goto(c, "cleanup")
    /\ UNCHANGED <<pools, server, ctxDone, watcher, stopping, dialling,
                   arg, new, scanVars>>

\* pool.Stop, in the goroutine of the caller.
Cleanup(c) ==
    /\ pc[c] = "cleanup"
    /\ new[c] \notin dialling
    /\ life' = [life EXCEPT ![new[c]] = "stopped"]
    /\ Return(c)
    /\ UNCHANGED <<pools, server, ctxDone, watcher, stopping, dialling, scanVars>>

\* Mutant: no second look at the table once the pool has started.
InsertUnchecked(c) ==
    /\ pc[c] = "insert"
    /\ NoReader
    /\ pools' = [pools EXCEPT ![arg[c]] = new[c]]
    /\ Goto(c, "watch")
    /\ UNCHANGED <<poolVars, watcher, stopping, dialling, arg, new, scanVars>>

\* The double check: another Start may have added a pool of that name.
Insert(c) ==
    /\ pc[c] = "insert"
    /\ NoReader
    /\ IF pools[arg[c]] = None
       THEN pools' = [pools EXCEPT ![arg[c]] = new[c]] /\ Goto(c, "watch")
       ELSE pools' = pools /\ Goto(c, "cleanup")
    /\ UNCHANGED <<poolVars, watcher, stopping, dialling, arg, new, scanVars>>

\* After the table was unlocked.
Watch(c) ==
    /\ pc[c] = "watch"
    /\ watcher' = [watcher EXCEPT ![new[c]] = "wait"]
    /\ Return(c)
    /\ UNCHANGED <<pools, poolVars, stopping, dialling, scanVars>>

-----------------------------------------------------------------------------
(* Stop and StopAll.                                                       *)

CallStop(c, s) ==
    /\ pc[c] = "out"
    /\ Goto(c, "stop")
    /\ arg' = [arg EXCEPT ![c] = s]
    /\ UNCHANGED <<pools, poolVars, watcher, stopping, dialling, new, scanVars>>

\* Mutant: the entry stays in the table until its pool has stopped.
TakeKeepsEntry(s) ==
    /\ pools' = pools
    /\ stopping' = stopping \cup ({pools[s]} \ {None})

\* Mutant: the entry is deleted and its pool forgotten.
TakeForgets(s) ==
    /\ pools' = [pools EXCEPT ![s] = None]
    /\ stopping' = stopping

\* Stop deletes the entry and leaves its pool to a goroutine.
Take(s) ==
    /\ pools' = [pools EXCEPT ![s] = None]
    /\ stopping' = stopping \cup ({pools[s]} \ {None})

\* Mutant: the table is changed without m.mu.
StopServerUnlocked(c) ==
    /\ pc[c] = "stop"
    /\ Take(arg[c])
    /\ Return(c)
    /\ UNCHANGED <<poolVars, watcher, dialling, scanVars>>

StopServer(c) ==
    /\ pc[c] = "stop"
    /\ NoReader
    /\ Take(arg[c])
    /\ Return(c)
    /\ UNCHANGED <<poolVars, watcher, dialling, scanVars>>

CallStopAll(c) ==
    /\ pc[c] = "out"
    /\ Goto(c, "stopAll")
    /\ UNCHANGED <<pools, poolVars, watcher, stopping, dialling, arg, new, scanVars>>

StopAll(c) ==
    /\ pc[c] = "stopAll"
    /\ NoReader
    /\ pools' = [s \in Servers |-> None]
    /\ stopping' = stopping \cup Offered
    /\ Return(c)
    /\ UNCHANGED <<poolVars, watcher, dialling, scanVars>>

\* The goroutine that Stop or StopAll started runs pool.Stop.
PoolStops(p) ==
    /\ p \in stopping
    /\ p \notin dialling
    /\ life' = [life EXCEPT ![p] = "stopped"]
    /\ stopping' = stopping \ {p}
    /\ UNCHANGED <<pools, server, ctxDone, watcher, dialling, callVars, scanVars>>

-----------------------------------------------------------------------------
(* Contexts and their goroutines.                                          *)

CancelContext(p) ==
    /\ life[p] # "new" /\ ~ ctxDone[p]
    /\ ctxDone' = [ctxDone EXCEPT ![p] = TRUE]
    /\ UNCHANGED <<pools, life, server, watcher, stopping, dialling,
                   callVars, scanVars>>

WatcherWakes(p) ==
    /\ watcher[p] = "wait"
    /\ ctxDone[p]
    /\ watcher' = [watcher EXCEPT ![p] = "lock"]
    /\ UNCHANGED <<pools, poolVars, stopping, dialling, callVars, scanVars>>

\* m.Stop(server.Name) stops the pool that has the name now, maybe a later one.
WatcherStops(p) ==
    /\ watcher[p] = "lock"
    /\ NoReader
    /\ Take(server[p])
    /\ watcher' = [watcher EXCEPT ![p] = "done"]
    /\ UNCHANGED <<poolVars, dialling, callVars, scanVars>>

-----------------------------------------------------------------------------
(* Forward's scan, and the dials it may have to wait for.                  *)

CallForward(f) ==
    /\ fpc[f] = "out"
    /\ fpc' = [fpc EXCEPT ![f] = "lock"]
    /\ UNCHANGED <<pools, poolVars, watcher, stopping, dialling, callVars, unasked>>

\* With an empty table Forward returns at once.
BeginScan(f) ==
    /\ fpc[f] = "lock"
    /\ NoWriter
    /\ fpc' = [fpc EXCEPT ![f] = IF Offered = {} THEN "out" ELSE "scan"]
    /\ unasked' = [unasked EXCEPT ![f] = Offered]
    /\ UNCHANGED <<pools, poolVars, watcher, stopping, dialling, callVars>>

\* pool.GetTunnel and tunnel.IsConnected wait for the pool's and the tunnel's lock.
AskPool(f, p) ==
    /\ fpc[f] = "scan"
    /\ p \in unasked[f]
    /\ p \notin dialling
    /\ unasked' = [unasked EXCEPT ![f] = @ \ {p}]
    /\ UNCHANGED <<pools, poolVars, watcher, stopping, dialling, callVars, fpc>>

\* Mutant: a scan that has found no tunnel starts over with m.mu held.
EndScanRetries(f) ==
    /\ fpc[f] = "scan"
    /\ unasked[f] = {}
    /\ unasked' = [unasked EXCEPT ![f] = Offered]
    /\ UNCHANGED <<pools, poolVars, watcher, stopping, dialling, callVars, fpc>>

\* m.mu is given back; the rest of Forward is in Forwarding.
EndScan(f) ==
    /\ fpc[f] = "scan"
    /\ unasked[f] = {}
    /\ fpc' = [fpc EXCEPT ![f] = "out"]
    /\ UNCHANGED <<pools, poolVars, watcher, stopping, dialling, callVars, unasked>>

DialBegins(p) ==
    /\ life[p] \in {"running", "failed"}
    /\ p \notin dialling
    /\ dialling' = dialling \cup {p}
    /\ UNCHANGED <<pools, poolVars, watcher, stopping, callVars, scanVars>>

DialEnds(p) ==
    /\ p \in dialling
    /\ dialling' = dialling \ {p}
    /\ UNCHANGED <<pools, poolVars, watcher, stopping, callVars, scanVars>>

-----------------------------------------------------------------------------

Call(c) == CallStopAll(c) \/ \E s \in Servers : CallStart(c, s) \/ CallStop(c, s)

CallerRuns(c) ==
    \/ AlreadyExists(c) \/ CreatePool(c) \/ PoolStarted(c) \/ Cleanup(c)
    \/ Insert(c) \/ Watch(c) \/ StopServer(c) \/ StopAll(c)

ScanRuns(f) == BeginScan(f) \/ EndScan(f) \/ \E p \in Pools : AskPool(f, p)

WatcherRuns(p) == WatcherWakes(p) \/ WatcherStops(p)

Next ==
    \/ \E c \in Callers : Call(c) \/ CallerRuns(c)
    \/ \E f \in Conns : CallForward(f) \/ ScanRuns(f)
    \/ \E p \in Pools :
        \/ PoolStops(p) \/ CancelContext(p) \/ WatcherRuns(p)
        \/ DialBegins(p) \/ DialEnds(p)

SafetySpec == Init /\ [][Next]_vars

\* Goroutines go on, and a lock that is given back again and again is handed
\* to each of those who wait for it (sync.RWMutex), hence strong fairness.
\* pool.Start and pool.Stop return and dials end (Pool, Tunnel).  Nobody has
\* to call, no context has to end and no dial has to begin.
Fairness ==
    /\ \A c \in Callers : SF_vars(CallerRuns(c))
    /\ \A f \in Conns : SF_vars(ScanRuns(f))
    /\ \A p \in Pools : SF_vars(PoolStops(p)) /\ SF_vars(WatcherRuns(p)) /\ WF_vars(DialEnds(p))

Spec == SafetySpec /\ Fairness

-----------------------------------------------------------------------------
(* Properties.                                                             *)

\* Every variable has its type.
TypeOK ==
    /\ pools \in [Servers -> Pools \cup {None}]
    /\ life \in [Pools -> Lives]
    /\ server \in [Pools -> Servers \cup {None}]
    /\ ctxDone \in [Pools -> BOOLEAN]
    /\ watcher \in [Pools -> {"none", "wait", "lock", "done"}]
    /\ stopping \subseteq Pools
    /\ dialling \subseteq Pools
    /\ pc \in [Callers -> Stages]
    /\ arg \in [Callers -> Servers \cup {None}]
    /\ new \in [Callers -> Pools \cup {None}]
    /\ fpc \in [Conns -> {"out", "lock", "scan"}]
    /\ unasked \in [Conns -> SUBSET Pools]

\* A pool in the table was made for the name it has there, its Start has
\* succeeded and nobody has begun to stop it: Forward is never offered a pool
\* that is going down (manager.go:51, 67, 82-86, 100-105).
OfferedIsRunning ==
    \A s \in Servers : pools[s] # None =>
        /\ server[pools[s]] = s
        /\ life[pools[s]] = "running"
        /\ pools[s] \notin stopping

\* A pool with tunnels that may be connected is in the table, being stopped,
\* or in the hands of the Start that made it: no connections are left open
\* that no Stop can reach (manager.go:54, 60-65).
NoPoolLost ==
    \A p \in Pools : life[p] \in {"running", "failed"} =>
        \/ p \in Offered
        \/ p \in stopping
        \/ \E c \in Callers : new[c] = p /\ pc[c] \in {"insert", "cleanup"}

\* The pools a scan has yet to ask are still in the table: the scan reads one
\* state of it, however long the dials of one pool keep it (manager.go:153-166).
ScanIsConsistent == \A f \in Conns : fpc[f] = "scan" => unasked[f] \subseteq Offered

\* What Pool takes for granted of its owner: Start is called once, and Stop at
\* most once and only when Start has returned (manager.go:51, 54, 64, 86, 104).
LifeOrder ==
    {<<"new", "starting">>, <<"starting", "running">>, <<"starting", "failed">>,
     <<"running", "stopped">>, <<"failed", "stopped">>}

LifeInOrder ==
    [][\A p \in Pools : life'[p] # life[p] => <<life[p], life'[p]>> \in LifeOrder]_vars

\* A server that is in the table loses its pool only to a Stop of its name, to
\* StopAll, or to the end of a context that was given to a Start of its name,
\* and it is then free for a new pool (manager.go:74, 83, 100).
RemovalHasCause ==
    [][\A s \in Servers : pools[s] # None /\ pools'[s] # pools[s] =>
         /\ pools'[s] = None
         /\ \/ \E c \in Callers : pc[c] = "stopAll" \/ (pc[c] = "stop" /\ arg[c] = s)
            \/ \E p \in Pools : server[p] = s /\ ctxDone[p]]_vars

\* A pool that runs is being stopped, or somebody waits for the end of its
\* context, or the Start that made it will see to that: however Start, Stop and
\* contexts overtake each other, no end of a context is missed (manager.go:54-75).
RunningIsWatched ==
    \A p \in Pools : life[p] = "running" =>
        \/ p \in stopping
        \/ watcher[p] \in {"wait", "lock"}
        \/ \E c \in Callers : new[c] = p /\ pc[c] \in {"insert", "cleanup", "watch"}

\* Start, Stop and StopAll return, although they wait for scans that wait for
\* dials, and new connections keep coming (manager.go:58, 82, 99).
CallsReturn == \A c \in Callers : pc[c] # "out" ~> pc[c] = "out"

\* Somebody wants pool p to stop: a Stop or StopAll has begun while it is in
\* the table, or the context given to its Start has ended.
Unwanted(p) ==
    \/ ctxDone[p] /\ life[p] = "running"
    \/ \E c \in Callers, s \in Servers :
          pools[s] = p /\ (pc[c] = "stopAll" \/ (pc[c] = "stop" /\ arg[c] = s))

\* A pool that is unwanted is really stopped, whoever gets m.mu first, and at
\* whatever point of Start its context ends (manager.go:71-75, 82, 99).
StopTakesEffect == \A p \in Pools : Unwanted(p) ~> life[p] = "stopped"

-----------------------------------------------------------------------------
(* Refinement.                                                             *)

\* Pools that will not be offered any more.
Gone == {p \in Pools : p \in stopping \/ life[p] \in {"failed", "stopped"}}

Reg == INSTANCE Registry WITH table <- pools, gone <- Gone

\* The Manager is a Registry: a server has one pool at a time, and a pool has
\* one time of being offered, under one name, which is over when somebody has
\* begun to stop it (manager.go:60-67, 82-86, 100-105).
RegistrySpec == Reg!Spec
====
