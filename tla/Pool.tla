---- MODULE Pool ----
(***************************************************************************)
(* One ConnectionPool of internal/tunnel/pool.go: the goroutines Start     *)
(* runs to bring its tunnels up, the monitor that looks for tunnels that   *)
(* went down and runs one worker for each, the readers of the list of      *)
(* tunnels (GetTunnel, GetStats), and Stop.                                *)
(*                                                                         *)
(* A tunnel is what TunnelLink offers, with the lock a dial holds: it is   *)
(* up when it has a client; its keepAlive may drop the client and its own  *)
(* reconnect may dial for a new one (both are in Tunnel).  Start's         *)
(* goroutines and the workers step from call to call; a Connect that dials *)
(* holds the tunnel's lock t.mu until it returns, and who asks a tunnel    *)
(* whether it is connected waits for that lock, the readers and Stop with  *)
(* the pool's lock p.mu in hand.                                           *)
(*                                                                         *)
(* Abstracted: the order of p.tunnels (GetTunnel's business, below), the   *)
(* length of the backoff, what the statistics say and the log.  The        *)
(* Manager stops a pool only after its Start has returned, and lets others *)
(* see it only if that succeeded (manager.go:51-64 and 67).                *)
(***************************************************************************)
EXTENDS FiniteSets, Integers

CONSTANTS
    Tunnels,        \* the tunnels of the server (Config.Connections of them)
    MaxRetries,     \* Config.MaxRetries; the edit dialog makes it positive
    Readers,        \* the goroutines that call GetTunnel and GetStats
    Width,          \* 2^32, the values of the counter roundRobin
    IntMax          \* the largest int of the platform

ASSUME TunnelsAssumption == IsFiniteSet(Tunnels)
ASSUME MaxRetriesAssumption == MaxRetries \in Nat \ {0}
ASSUME WidthAssumption == Width \in Nat \ {0}
ASSUME IntMaxAssumption == IntMax \in Nat /\ Width <= 2 * (IntMax + 1)

VARIABLES
    start,      \* "out", "running", "ok" or "failed": the call of Start
    pc,         \* where the goroutine in charge of each tunnel is
    tries,      \* how often it has called Connect in vain
    members,    \* p.tunnels
    up,         \* which tunnels have a client
    redial,     \* the tunnels whose own reconnect is dialling
    asks,       \* the tunnels each reader has yet to ask; none: it is not in
                \* GetTunnel or GetStats
    ctxDone,    \* the context given to Start is done
    poolDone,   \* p.ctx is done
    monitor,    \* where monitorConnections is
    todo,       \* the tunnels its round, or its GetStats, has not looked at
    stop,       \* "out", "lock", "closing" or "ended": the call of Stop
    toClose     \* the tunnels Stop has not disconnected yet

vars == <<start, pc, tries, members, up, redial, asks, ctxDone, poolDone,
          monitor, todo, stop, toClose>>

contexts == <<ctxDone, poolDone>>
monitorVars == <<monitor, todo>>
stopVars == <<stop, toClose>>
others == <<redial, asks>>

-----------------------------------------------------------------------------
(* A tunnel has one goroutine of the pool in charge of it at a time: the   *)
(* one Start runs for it, or the worker of the monitor's current round.    *)
(*                                                                         *)
(* "none"     none                                                         *)
(* "slot"     a worker waiting for a reconnection slot                     *)
(* "call"     about to call Connect, or in it and waiting for t.mu         *)
(* "dial"     in Connect, holding the tunnel's lock                        *)
(* "sleep"    Connect has failed, backing off                              *)
(* "join"     Connect has succeeded, about to append to p.tunnels          *)
(* "ended"    returned                                                     *)
(* "error"    returned after sending an error to Start                     *)

Stages == {"none", "slot", "call", "dial", "sleep", "join", "ended", "error"}

Returned == {"none", "ended", "error"}

\* Mutant: a worker does not give its slot back.
HasSlotKept == {t \in Tunnels : pc[t] \in {"call", "dial", "sleep", "ended"}}

\* The workers with an element in reconnectCh.
HasSlot == {t \in Tunnels : pc[t] \in {"call", "dial", "sleep"}}

Init ==
    /\ start = "out"
    /\ pc = [t \in Tunnels |-> "none"]
    /\ tries = [t \in Tunnels |-> 0]
    /\ members = {}
    /\ up = [t \in Tunnels |-> FALSE]
    /\ redial = {}
    /\ asks = [r \in Readers |-> {}]
    /\ ctxDone = FALSE
    /\ poolDone = FALSE
    /\ monitor = "off"
    /\ todo = {}
    /\ stop = "out"
    /\ toClose = {}

Goto(t, stage) == pc' = [pc EXCEPT ![t] = stage]

\* p.mu.RLock: a Lock that is held or waited for keeps new readers out.
PoolReadable == stop \notin {"lock", "closing"}

\* The monitor is in GetStats.
Reporting == monitor \in {"update", "log"}

\* p.mu.Lock: no reader is in.
PoolFree == stop # "closing" /\ ~ Reporting /\ \A r \in Readers : asks[r] = {}

\* t.mu is free: only a Connect that dials keeps it across steps.
TunnelUnlocked(t) == pc[t] # "dial" /\ t \notin redial

Starting == start = "running"

-----------------------------------------------------------------------------
(* Connect, as its callers see it.                                         *)

\* A tunnel that is reconnecting on its own refuses; during Start none is.
ConnectRefused(t) ==
    /\ pc[t] = "call"
    /\ ~ Starting
    /\ Goto(t, "sleep")
    /\ UNCHANGED <<start, tries, members, up, contexts, monitorVars, stopVars, others>>

ConnectLocked(t) ==
    /\ pc[t] = "call"
    /\ TunnelUnlocked(t)
    /\ Goto(t, IF ~ up[t] THEN "dial" ELSE IF Starting THEN "join" ELSE "ended")
    /\ UNCHANGED <<start, tries, members, up, contexts, monitorVars, stopVars, others>>

\* Connect does not look at t.ctx: it also revives a tunnel that was disconnected.
DialSucceeds(t) ==
    /\ pc[t] = "dial"
    /\ up' = [up EXCEPT ![t] = TRUE]
    /\ Goto(t, IF Starting THEN "join" ELSE "ended")
    /\ UNCHANGED <<start, tries, members, contexts, monitorVars, stopVars, others>>

DialFails(t) ==
    /\ pc[t] = "dial"
    /\ Goto(t, "sleep")
    /\ UNCHANGED <<start, tries, members, up, contexts, monitorVars, stopVars, others>>

-----------------------------------------------------------------------------
(* Start.                                                                  *)

\* strconv.Atoi refuses the port.
StartRefused ==
    /\ start = "out"
    /\ start' = "failed"
    /\ UNCHANGED <<pc, tries, members, up, contexts, monitorVars, stopVars, others>>

CallStart ==
    /\ start = "out"
    /\ start' = "running"
    /\ pc' = [t \in Tunnels |-> "call"]
    /\ UNCHANGED <<tries, members, up, contexts, monitorVars, stopVars, others>>

\* Mutant: the attempts are not counted.
StartRetriesForever(t) ==
    /\ Starting
    /\ pc[t] = "sleep"
    /\ Goto(t, IF ctxDone THEN "error" ELSE "call")
    /\ UNCHANGED <<start, tries, members, up, contexts, monitorVars, stopVars, others>>

\* After a failed Connect: give up with the context, or back off and go on.
StartRetries(t) ==
    /\ Starting
    /\ pc[t] = "sleep"
    /\ \/ ctxDone /\ Goto(t, "error") /\ tries' = tries
       \/ /\ tries' = [tries EXCEPT ![t] = @ + 1]
          /\ Goto(t, IF tries[t] + 1 < MaxRetries THEN "call" ELSE "error")
    /\ UNCHANGED <<start, members, up, contexts, monitorVars, stopVars, others>>

Join(t) ==
    /\ pc[t] = "join"
    /\ PoolFree
    /\ members' = members \cup {t}
    /\ Goto(t, "ended")
    /\ UNCHANGED <<start, tries, up, contexts, monitorVars, stopVars, others>>

\* Mutant: the pool starts with the tunnels that came up, unless none did.
StartReturnsPartial ==
    /\ Starting
    /\ \A t \in Tunnels : pc[t] \in Returned
    /\ IF members = {}
       THEN start' = "failed" /\ monitor' = monitor
       ELSE start' = "ok" /\ monitor' = "wait"
    /\ pc' = [t \in Tunnels |-> "none"]
    /\ tries' = [t \in Tunnels |-> 0]
    /\ UNCHANGED <<members, up, contexts, todo, stopVars, others>>

\* Every goroutine has returned and its error, if any, is in the channel.
StartReturns ==
    /\ Starting
    /\ \A t \in Tunnels : pc[t] \in Returned
    /\ IF \E t \in Tunnels : pc[t] = "error"
       THEN start' = "failed" /\ monitor' = monitor
       ELSE start' = "ok" /\ monitor' = "wait"
    /\ pc' = [t \in Tunnels |-> "none"]
    /\ tries' = [t \in Tunnels |-> 0]
    /\ UNCHANGED <<members, up, contexts, todo, stopVars, others>>

-----------------------------------------------------------------------------
(* monitorConnections and checkAndReconnectConcurrent.                     *)

MonitorExits ==
    /\ monitor = "wait"
    /\ ctxDone \/ poolDone
    /\ monitor' = "ended"
    /\ UNCHANGED <<start, pc, tries, members, up, contexts, todo, stopVars, others>>

\* The ticker fires; the list of tunnels is copied.
BeginRound ==
    /\ monitor = "wait"
    /\ PoolReadable
    /\ monitor' = "scan"
    /\ todo' = members
    /\ UNCHANGED <<start, pc, tries, members, up, contexts, stopVars, others>>

\* Mutant: the test of IsConnected is inverted.
LookAtInverted(t) ==
    /\ monitor = "scan"
    /\ t \in todo
    /\ TunnelUnlocked(t)
    /\ todo' = todo \ {t}
    /\ Goto(t, IF up[t] THEN "slot" ELSE "none")
    /\ UNCHANGED <<start, tries, members, up, contexts, monitor, stopVars, others>>

\* IsConnected waits for the tunnel's lock; a tunnel that is down gets a worker.
LookAt(t) ==
    /\ monitor = "scan"
    /\ t \in todo
    /\ TunnelUnlocked(t)
    /\ todo' = todo \ {t}
    /\ Goto(t, IF up[t] THEN "none" ELSE "slot")
    /\ UNCHANGED <<start, tries, members, up, contexts, monitor, stopVars, others>>

AwaitWorkers ==
    /\ monitor = "scan"
    /\ todo = {}
    /\ monitor' = "join"
    /\ UNCHANGED <<start, pc, tries, members, up, contexts, todo, stopVars, others>>

TakeSlot(t) ==
    /\ pc[t] = "slot"
    /\ Cardinality(HasSlot) < MaxRetries
    /\ Goto(t, IF ctxDone THEN "ended" ELSE "call")
    /\ UNCHANGED <<start, tries, members, up, contexts, monitorVars, stopVars, others>>

\* The context given to Start is looked at before each call, p.ctx is not.
WorkerRetries(t) ==
    /\ ~ Starting
    /\ pc[t] = "sleep"
    /\ tries' = [tries EXCEPT ![t] = @ + 1]
    /\ Goto(t, IF tries[t] + 1 < MaxRetries /\ ~ ctxDone THEN "call" ELSE "ended")
    /\ UNCHANGED <<start, members, up, contexts, monitorVars, stopVars, others>>

\* Mutant: the round does not wait for its workers.
EndRoundEarly ==
    /\ monitor = "join"
    /\ PoolReadable
    /\ monitor' = "update"
    /\ todo' = members
    /\ pc' = [t \in Tunnels |-> IF pc[t] \in Returned THEN "none" ELSE pc[t]]
    /\ tries' = [t \in Tunnels |-> 0]
    /\ UNCHANGED <<start, members, up, contexts, stopVars, others>>

\* wg.Wait returns, and GetStats takes p.mu.
EndRound ==
    /\ monitor = "join"
    /\ \A t \in Tunnels : pc[t] \in Returned
    /\ PoolReadable
    /\ monitor' = "update"
    /\ todo' = members
    /\ pc' = [t \in Tunnels |-> "none"]
    /\ tries' = [t \in Tunnels |-> 0]
    /\ UNCHANGED <<start, members, up, contexts, stopVars, others>>

\* Back from the round, the monitor calls GetStats a second time.
ReportAgain ==
    /\ monitor = "updated"
    /\ PoolReadable
    /\ monitor' = "log"
    /\ todo' = members
    /\ UNCHANGED <<start, pc, tries, members, up, contexts, stopVars, others>>

ReportOn(t) ==
    /\ Reporting
    /\ t \in todo
    /\ TunnelUnlocked(t)
    /\ todo' = todo \ {t}
    /\ UNCHANGED <<start, pc, tries, members, up, contexts, monitor, stopVars, others>>

EndReport ==
    /\ Reporting
    /\ todo = {}
    /\ monitor' = IF monitor = "update" THEN "updated" ELSE "wait"
    /\ UNCHANGED <<start, pc, tries, members, up, contexts, todo, stopVars, others>>

-----------------------------------------------------------------------------
(* GetTunnel and GetStats, called by others (Manager.Forward, on pools it  *)
(* has found in the Manager's map: perhaps before they were stopped).      *)

CallRead(r) ==
    /\ start = "ok"
    /\ asks[r] = {}
    /\ PoolReadable
    /\ asks' = [asks EXCEPT ![r] = members]
    /\ UNCHANGED <<start, pc, tries, members, up, contexts, monitorVars, stopVars, redial>>

\* GetStats asks every tunnel, GetTunnel stops at one that is connected.
AskTunnel(r, t) ==
    /\ t \in asks[r]
    /\ TunnelUnlocked(t)
    /\ \/ asks' = [asks EXCEPT ![r] = @ \ {t}]
       \/ up[t] /\ asks' = [asks EXCEPT ![r] = {}]
    /\ UNCHANGED <<start, pc, tries, members, up, contexts, monitorVars, stopVars, redial>>

-----------------------------------------------------------------------------
(* Stop, the context and the tunnels' own goroutines.                      *)

\* p.cancel and the call of p.mu.Lock.
CallStop ==
    /\ start \in {"ok", "failed"}
    /\ stop = "out"
    /\ stop' = "lock"
    /\ poolDone' = TRUE
    /\ UNCHANGED <<start, pc, tries, members, up, ctxDone, monitorVars, toClose, others>>

\* The readers that were in have left.
StopLocks ==
    /\ stop = "lock"
    /\ PoolFree
    /\ stop' = "closing"
    /\ toClose' = members
    /\ UNCHANGED <<start, pc, tries, members, up, contexts, monitorVars, others>>

\* Disconnect waits for the tunnel's lock.
CloseTunnel(t) ==
    /\ stop = "closing"
    /\ t \in toClose
    /\ TunnelUnlocked(t)
    /\ up' = [up EXCEPT ![t] = FALSE]
    /\ toClose' = toClose \ {t}
    /\ UNCHANGED <<start, pc, tries, members, contexts, monitorVars, stop, others>>

\* Mutant: Stop waits for the monitor while it holds p.mu.
StopReturnsAfterMonitor ==
    /\ stop = "closing"
    /\ toClose = {}
    /\ monitor \in {"off", "ended"}
    /\ stop' = "ended"
    /\ UNCHANGED <<start, pc, tries, members, up, contexts, monitorVars, toClose, others>>

StopReturns ==
    /\ stop = "closing"
    /\ toClose = {}
    /\ stop' = "ended"
    /\ UNCHANGED <<start, pc, tries, members, up, contexts, monitorVars, toClose, others>>

CancelContext ==
    /\ ~ ctxDone
    /\ ctxDone' = TRUE
    /\ UNCHANGED <<start, pc, tries, members, up, poolDone, monitorVars, stopVars, others>>

\* keepAlive or reconnect drops a dead client.
GoesDown(t) ==
    /\ up[t]
    /\ TunnelUnlocked(t)
    /\ up' = [up EXCEPT ![t] = FALSE]
    /\ UNCHANGED <<start, pc, tries, members, contexts, monitorVars, stopVars, others>>

\* The tunnel's own reconnect dials, with t.mu locked, even after Disconnect
\* (see Tunnel: reconnect does not look at t.ctx either).
OwnDialBegins(t) ==
    /\ t \in members
    /\ ~ up[t]
    /\ TunnelUnlocked(t)
    /\ redial' = redial \cup {t}
    /\ UNCHANGED <<start, pc, tries, members, up, asks, contexts, monitorVars, stopVars>>

\* Within 30 s it has a new client or gives up.
OwnDialEnds(t) ==
    /\ t \in redial
    /\ redial' = redial \ {t}
    /\ \E client \in BOOLEAN : up' = [up EXCEPT ![t] = client]
    /\ UNCHANGED <<start, pc, tries, members, asks, contexts, monitorVars, stopVars>>

-----------------------------------------------------------------------------
(* GetTunnel asks the tunnels one by one, from where the counter stands,   *)
(* for one that is connected (the Manager may get any such tunnel).        *)

\* int(x), for a uint32 x: negative where the int is as narrow.
ToInt(x) == IF x <= IntMax THEN x ELSE x - Width

\* Go's remainder has the sign of i.
Rem(i, n) == IF i >= 0 THEN i % n ELSE - ((- i) % n)

\* The tunnel GetTunnel asks in an attempt, of n tunnels, when the counter was
\* at first.
TunnelIndex(first, attempt, n) == Rem(ToInt((first + attempt) % Width), n)

\* All that it asks before it gives up.
Asked(first, n) == {TunnelIndex(first, a, n) : a \in 0..(n - 1)}

-----------------------------------------------------------------------------

Goroutine(t) ==
    \/ ConnectRefused(t) \/ ConnectLocked(t) \/ DialSucceeds(t) \/ DialFails(t)
    \/ StartRetries(t) \/ Join(t) \/ TakeSlot(t) \/ WorkerRetries(t)

Scan ==
    \/ \E t \in Tunnels : LookAt(t) \/ ReportOn(t)
    \/ AwaitWorkers \/ EndRound \/ ReportAgain \/ EndReport

Stop == StopLocks \/ StopReturns \/ \E t \in Tunnels : CloseTunnel(t)

Next ==
    \/ StartRefused \/ CallStart \/ StartReturns
    \/ \E t \in Tunnels : Goroutine(t) \/ GoesDown(t) \/ OwnDialBegins(t) \/ OwnDialEnds(t)
    \/ \E r \in Readers : CallRead(r) \/ \E t \in Tunnels : AskTunnel(r, t)
    \/ MonitorExits \/ BeginRound \/ Scan
    \/ CallStop \/ Stop
    \/ CancelContext

SafetySpec == Init /\ [][Next]_vars

\* Goroutines go on: a dial ends within 30 s and a backoff within 10 s, p.mu
\* and t.mu are handed to whoever waits, a worker that waits for a slot gets
\* one in its turn (all strong, for the locks and slots are taken and given
\* back), the ticker ticks, and a select whose contexts stay done takes them.
\* Nobody has to stop the pool, cancel the context, read the list of tunnels,
\* lose a connection or dial on its own.
Fairness ==
    /\ WF_vars(StartReturns)
    /\ \A t \in Tunnels : SF_vars(Goroutine(t)) /\ WF_vars(OwnDialEnds(t))
    /\ \A r \in Readers : SF_vars(\E t \in Tunnels : AskTunnel(r, t))
    /\ SF_vars(MonitorExits) /\ SF_vars(BeginRound) /\ SF_vars(Scan)
    /\ SF_vars(Stop)

Spec == SafetySpec /\ Fairness

-----------------------------------------------------------------------------
(* Properties.                                                             *)

\* Every variable has its type.
TypeOK ==
    /\ start \in {"out", "running", "ok", "failed"}
    /\ pc \in [Tunnels -> Stages]
    /\ tries \in [Tunnels -> 0..MaxRetries]
    /\ members \subseteq Tunnels
    /\ up \in [Tunnels -> BOOLEAN]
    /\ redial \subseteq Tunnels
    /\ asks \in [Readers -> SUBSET Tunnels]
    /\ ctxDone \in BOOLEAN
    /\ poolDone \in BOOLEAN
    /\ monitor \in {"off", "wait", "scan", "join", "update", "updated", "log", "ended"}
    /\ todo \subseteq Tunnels
    /\ stop \in {"out", "lock", "closing", "ended"}
    /\ toClose \subseteq Tunnels

\* No goroutine outlives the call it works for: while a tunnel has one, either
\* Start or a round of the monitor waits for it, so two of them never call
\* Connect on one tunnel (pool.go:115, 283).
GoroutineIsAwaited ==
    \A t \in Tunnels : pc[t] \notin Returned =>
        IF Starting THEN monitor = "off" ELSE monitor \in {"scan", "join"}

\* "Limit concurrent reconnections" (pool.go:231): no more workers connect at
\* a time than the channel has slots.
SlotsBounded == ~ Starting => Cardinality(HasSlot) <= MaxRetries

\* An upper bound of the steps the goroutine in charge of t has yet to take.
StepsLeft(t) ==
    CASE pc[t] \in Returned -> 0
      [] pc[t] = "slot" -> 3 * MaxRetries + 1
      [] pc[t] = "call" -> 3 * (MaxRetries - tries[t])
      [] pc[t] = "dial" -> 3 * (MaxRetries - tries[t]) - 1
      [] OTHER -> 3 * (MaxRetries - tries[t]) - 2

\* A goroutine that Start or a round waits for gets nearer to its return with
\* each step it takes, and nobody takes it back: contexts that end, tunnels
\* that come and go, Stop and the other goroutines (pool.go:82, 252).
GoroutinesSettle ==
    [][\A t \in Tunnels : pc[t] \notin Returned =>
         \/ pc'[t] = pc[t] /\ StepsLeft(t)' = StepsLeft(t)
         \/ StepsLeft(t)' < StepsLeft(t)]_vars

\* The goroutine of t waits neither for a slot nor for p.mu.
CanGoOn(t) ==
    /\ pc[t] \notin Returned
    /\ pc[t] = "slot" => Cardinality(HasSlot) < MaxRetries
    /\ pc[t] = "join" => PoolFree

\* Whoever waits for goroutines, there is one among them that can go on: the
\* workers never all wait for slots, and no goroutine of Start waits for a
\* Stop (pool.go:101, 115, 242, 283).
SomeoneGoesOn ==
    (\E t \in Tunnels : pc[t] \notin Returned) => \E t \in Tunnels : CanGoOn(t)

\* Those for which Connect is about to be called, or has not returned.
Calling == {t \in Tunnels : pc[t] \in {"call", "dial"}}

\* Once the context given to Start has ended, no worker comes to Connect any
\* more, from the slots or from a backoff; after Stop alone they do
\* (StoppedIsNotReconnected, pool.go:255).
EndedContextHolds ==
    [][start = "ok" /\ ctxDone => Calling' \subseteq Calling]_vars

\* Start returns, whatever its dials do (pool.go:82, 115).
StartEnds == []<>(start # "running")

\* Stop returns, although it waits for readers that wait for tunnels' locks,
\* and then for every tunnel's lock itself, with p.mu held (pool.go:160-168).
StopEnds == []<>(stop \in {"out", "ended"})

\* The monitor goroutine ends after Stop (pool.go:144), even if a round was
\* waiting for its workers and they for slots.
MonitorEnds == []<>(poolDone => monitor \in {"off", "ended"})

\* A tunnel of a running pool that is down gets a worker, or comes back.
DownIsNoticed ==
    \A t \in Tunnels :
        []<>(t \in members /\ start = "ok" =>
                 up[t] \/ pc[t] # "none" \/ poolDone \/ ctxDone)

\* "Clean up the new pool since we won't be using it" (manager.go:63): when
\* Stop has returned, the pool's workers connect no tunnel any more.
StoppedIsNotReconnected ==
    [][\A t \in Tunnels : stop = "ended" /\ pc[t] = "dial" => up'[t] = up[t]]_vars

-----------------------------------------------------------------------------
(* Refinement.                                                             *)

Life ==
    IF poolDone THEN "stopped"
    ELSE CASE start = "out" -> "new"
           [] start = "running" -> "starting"
           [] start = "ok" -> "running"
           [] start = "failed" -> "failed"

PL == INSTANCE PoolLife WITH life <- Life

\* Start succeeds exactly when every tunnel has joined, the list of tunnels
\* does not change afterwards, and a stopped pool stays stopped.
LifeSpec == PL!Spec
====
