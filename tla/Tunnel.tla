---- MODULE Tunnel ----
(***************************************************************************)
(* One SSH tunnel of internal/tunnel/tunnel.go and the goroutines that     *)
(* fight over it.                                                          *)
(*                                                                         *)
(* Callers are the pool's goroutines that call Connect (pool.go:85, 258)   *)
(* and may call it again at any time.  Every successful Connect installs a *)
(* new ssh.Client and starts one more monitorConnection and one more       *)
(* keepAlive goroutine, so both are named by the client they came with.    *)
(* Each goroutine advances one lock operation, atomic operation or         *)
(* blocking call at a time.                                                *)
(*                                                                         *)
(* t.mu is held across several steps only by Connect, which keeps it while *)
(* it dials; every other critical section is one action that waits for mu  *)
(* to be free.  Connect takes mu and sets reconnecting in one action, and  *)
(* clears reconnecting and gives mu back in one action (its two defers):   *)
(* no other goroutine can tell the two apart, since it either waits for mu *)
(* or looks at reconnecting without it.                                    *)
(*                                                                         *)
(* Abstracted: lastError, lastUsed, the statistics and the log; the backoff*)
(* sleeps and tickers are steps that may come at any time.                 *)
(***************************************************************************)
EXTENDS Naturals

CONSTANTS
    Callers,        \* goroutines of the pool that call Connect
    Clients,        \* the ssh.Clients the dials may return, each once
    MaxAttempts,    \* maxAttempts of reconnect
    MaxAbandoned,   \* bound on the dials that outlive their Connect
    None            \* nil

ASSUME CallersAssumption == Callers \cap Clients = {}
ASSUME NoneAssumption == None \notin Callers \cup Clients
ASSUME MaxAttemptsAssumption == MaxAttempts \in Nat \ {0}
ASSUME MaxAbandonedAssumption == MaxAbandoned \in Nat

VARIABLES
    mu,             \* the Connect that holds t.mu, or None
    client,         \* t.client
    reconnecting,   \* t.reconnecting
    cancelled,      \* t.ctx is done
    conn,           \* the state of each ssh.Client's connection
    pc,             \* where each caller and each monitor is
    dialled,        \* the client a dial has opened for the Connect it runs in
    abandoned,      \* how many dials run on after their Connect timed out
    tries,          \* attempts of each monitor's reconnect
    probed,         \* the client each monitor sent its request to
    kpc,            \* where each keepAlive goroutine is
    kprobed,        \* the client each keepAlive sent its request to
    stopping        \* is a Disconnect waiting for t.mu?

lock == <<mu, client, reconnecting>>
dialing == <<dialled, abandoned>>
monitor == <<tries, probed>>
keeper == <<kpc, kprobed>>
stop == <<cancelled, stopping>>

vars == <<mu, client, reconnecting, cancelled, conn, pc, dialled, abandoned,
          tries, probed, kpc, kprobed, stopping>>

-----------------------------------------------------------------------------
(* Connect runs in a caller or in the reconnect of a monitor.              *)

Connectors == Callers \cup Clients

\* A connection is opened by a dial, may die, and is closed by Close.
ConnStates == {"unused", "open", "dead", "closed"}

\* out      a caller that is not in Connect
\* none     a monitor that was not started
\* wait     a monitor in its select
\* read     a monitor about to read t.client
\* probe    a monitor whose SendRequest is under way
\* claim    a monitor whose check failed, about to enter reconnect
\* close    in reconnect, about to close the client
\* attempt  in reconnect, about to call Connect
\* lock     in Connect, past the reconnecting check, waiting for t.mu
\* dial     in Connect, holding t.mu, waiting for the dial or the timeout
\* restored / failed   a monitor whose Connect has returned
\* done     a monitor that has returned
Stages == {"out", "none", "wait", "read", "probe", "claim", "close", "attempt",
           "lock", "dial", "restored", "failed", "done"}

\* From the successful CompareAndSwap to the deferred Store(false).
InReconnect == {"close", "attempt", "lock", "dial", "restored", "failed"}

KeeperStages == {"none", "wait", "read", "probe", "close", "done"}

Init ==
    /\ mu = None
    /\ client = None
    /\ reconnecting = FALSE
    /\ cancelled = FALSE
    /\ conn = [k \in Clients |-> "unused"]
    /\ pc = [p \in Connectors |-> IF p \in Callers THEN "out" ELSE "none"]
    /\ dialled = [p \in Connectors |-> None]
    /\ abandoned = 0
    /\ tries = [k \in Clients |-> 0]
    /\ probed = [k \in Clients |-> None]
    /\ kpc = [k \in Clients |-> "none"]
    /\ kprobed = [k \in Clients |-> None]
    /\ stopping = FALSE

Goto(p, stage) == pc' = [pc EXCEPT ![p] = stage]

\* Where a goroutine goes on when its Connect returns.
Returned(p, result) == IF p \in Callers THEN "out" ELSE result

\* Mutant: t.client is closed and not set to nil.
CloseClientKeepsIt ==
    /\ client' = client
    /\ conn' = IF client = None THEN conn ELSE [conn EXCEPT ![client] = "closed"]

\* t.client.Close(); t.client = nil, if there is one.
CloseClient ==
    /\ client' = None
    /\ conn' = IF client = None THEN conn ELSE [conn EXCEPT ![client] = "closed"]

-----------------------------------------------------------------------------
(* Connect.                                                                *)

\* The check of reconnecting, before any lock is taken.
EnterConnect(p) ==
    /\ pc[p] \in {"out", "attempt"}
    /\ Goto(p, IF reconnecting THEN Returned(p, "failed") ELSE "lock")
    /\ UNCHANGED <<lock, conn, dialing, monitor, keeper, stop>>

\* There already is a client: Connect returns nil.
AlreadyConnected(p) ==
    /\ pc[p] = "lock"
    /\ mu = None
    /\ client # None
    /\ Goto(p, Returned(p, "restored"))
    /\ UNCHANGED <<lock, conn, dialing, monitor, keeper, stop>>

\* Mutant: the client is not looked at again once the lock is taken.
StartDialUnchecked(p) ==
    /\ pc[p] = "lock"
    /\ mu = None
    /\ mu' = p
    /\ reconnecting' = TRUE
    /\ Goto(p, "dial")
    /\ UNCHANGED <<client, conn, dialing, monitor, keeper, stop>>

StartDial(p) ==
    /\ pc[p] = "lock"
    /\ mu = None
    /\ client = None
    /\ mu' = p
    /\ reconnecting' = TRUE
    /\ Goto(p, "dial")
    /\ UNCHANGED <<client, conn, dialing, monitor, keeper, stop>>

\* The deferred Store(false) and Unlock.
Leave == mu' = None /\ reconnecting' = FALSE

\* The dial goroutine has a client and closes done.
DialOpens(p) ==
    /\ pc[p] = "dial"
    /\ dialled[p] = None
    /\ \E k \in Clients :
        /\ conn[k] = "unused"
        /\ conn' = [conn EXCEPT ![k] = "open"]
        /\ dialled' = [dialled EXCEPT ![p] = k]
    /\ UNCHANGED <<lock, pc, abandoned, monitor, keeper, stop>>

\* Mutant: the error path gives back the flag and keeps the lock.
DialFailsKeepsLock(p) ==
    /\ pc[p] = "dial"
    /\ dialled[p] = None
    /\ reconnecting' = FALSE
    /\ Goto(p, Returned(p, "failed"))
    /\ UNCHANGED <<mu, client, conn, dialing, monitor, keeper, stop>>

DialFails(p) ==
    /\ pc[p] = "dial"
    /\ dialled[p] = None
    /\ Leave
    /\ Goto(p, Returned(p, "failed"))
    /\ UNCHANGED <<client, conn, dialing, monitor, keeper, stop>>

\* Mutant: only the first client's keepAlive is started.
InstallWithoutKeeper(p) ==
    /\ pc[p] = "dial"
    /\ dialled[p] # None
    /\ client' = dialled[p]
    /\ Leave
    /\ pc' = [pc EXCEPT ![p] = Returned(p, "restored"), ![dialled[p]] = "wait"]
    /\ kpc' = IF \E k \in Clients : kpc[k] # "none"
              THEN kpc ELSE [kpc EXCEPT ![dialled[p]] = "wait"]
    /\ dialled' = [dialled EXCEPT ![p] = None]
    /\ UNCHANGED <<conn, abandoned, monitor, kprobed, stop>>

\* Connect succeeds and starts the goroutines of the new client.
Install(p) ==
    /\ pc[p] = "dial"
    /\ dialled[p] # None
    /\ client' = dialled[p]
    /\ Leave
    /\ pc' = [pc EXCEPT ![p] = Returned(p, "restored"), ![dialled[p]] = "wait"]
    /\ kpc' = [kpc EXCEPT ![dialled[p]] = "wait"]
    /\ dialled' = [dialled EXCEPT ![p] = None]
    /\ UNCHANGED <<conn, abandoned, monitor, kprobed, stop>>

\* The timeout wins while the dial is still running: the dial is abandoned.
AbandonDial(p) ==
    /\ pc[p] = "dial"
    /\ dialled[p] = None
    /\ abandoned' = IF abandoned < MaxAbandoned THEN abandoned + 1 ELSE abandoned
    /\ Leave
    /\ Goto(p, Returned(p, "failed"))
    /\ UNCHANGED <<client, conn, dialled, monitor, keeper, stop>>

\* Mutant: the timeout branch returns without its deferred Store(false).
RejectDialKeepsFlag(p) ==
    /\ pc[p] = "dial"
    /\ dialled[p] # None
    /\ conn' = [conn EXCEPT ![dialled[p]] = "closed"]
    /\ dialled' = [dialled EXCEPT ![p] = None]
    /\ mu' = None
    /\ Goto(p, Returned(p, "failed"))
    /\ UNCHANGED <<client, reconnecting, abandoned, monitor, keeper, stop>>

\* The timeout wins although the dial has ended.  client is read without
\* synchronisation with the goroutine that wrote it (lines 80 and 85): the
\* read sees the client and closes it, or sees nil and leaves it open.
RejectDial(p) ==
    /\ pc[p] = "dial"
    /\ dialled[p] # None
    /\ \E seen \in {dialled[p], None} :
        conn' = IF seen = None THEN conn ELSE [conn EXCEPT ![seen] = "closed"]
    /\ dialled' = [dialled EXCEPT ![p] = None]
    /\ Leave
    /\ Goto(p, Returned(p, "failed"))
    /\ UNCHANGED <<client, abandoned, monitor, keeper, stop>>

\* An abandoned dial ends, with a client that no one will close or without.
LateDial ==
    /\ abandoned > 0
    /\ abandoned' = abandoned - 1
    /\ \/ conn' = conn
       \/ \E k \in Clients :
            conn[k] = "unused" /\ conn' = [conn EXCEPT ![k] = "open"]
    /\ UNCHANGED <<lock, pc, dialled, monitor, keeper, stop>>

-----------------------------------------------------------------------------
(* monitorConnection, checkConnection and reconnect.                       *)

\* Mutant: a break leaves the select and not the loop.
MonitorExitContinues(k) ==
    /\ pc[k] = "wait"
    /\ cancelled
    /\ Goto(k, "wait")
    /\ UNCHANGED <<lock, conn, dialing, monitor, keeper, stop>>

MonitorExit(k) ==
    /\ pc[k] = "wait"
    /\ cancelled
    /\ Goto(k, "done")
    /\ UNCHANGED <<lock, conn, dialing, monitor, keeper, stop>>

MonitorTick(k) ==
    /\ pc[k] = "wait"
    /\ Goto(k, "read")
    /\ UNCHANGED <<lock, conn, dialing, monitor, keeper, stop>>

MonitorRead(k) ==
    /\ pc[k] = "read"
    /\ mu = None
    /\ Goto(k, IF client = None THEN "claim" ELSE "probe")
    /\ probed' = [probed EXCEPT ![k] = client]
    /\ UNCHANGED <<lock, conn, dialing, tries, keeper, stop>>

MonitorProbe(k) ==
    /\ pc[k] = "probe"
    /\ Goto(k, IF conn[probed[k]] = "open" THEN "wait" ELSE "claim")
    /\ probed' = [probed EXCEPT ![k] = None]
    /\ UNCHANGED <<lock, conn, dialing, tries, keeper, stop>>

\* The CompareAndSwap at the start of reconnect.
ClaimReconnect(k) ==
    /\ pc[k] = "claim"
    /\ Goto(k, IF reconnecting THEN "wait" ELSE "close")
    /\ reconnecting' = TRUE
    /\ UNCHANGED <<mu, client, conn, dialing, monitor, keeper, stop>>

CloseForReconnect(k) ==
    /\ pc[k] = "close"
    /\ mu = None
    /\ CloseClient
    /\ Goto(k, "attempt")
    /\ tries' = [tries EXCEPT ![k] = 0]
    /\ UNCHANGED <<mu, reconnecting, dialing, probed, keeper, stop>>

\* Connect has failed: sleep and call it again, or give up.
NextAttempt(k) ==
    /\ pc[k] = "failed"
    /\ tries' = [tries EXCEPT ![k] = @ + 1]
    /\ IF tries[k] + 1 < MaxAttempts
       THEN Goto(k, "attempt") /\ reconnecting' = reconnecting
       ELSE Goto(k, "wait") /\ reconnecting' = FALSE
    /\ UNCHANGED <<mu, client, conn, dialing, probed, keeper, stop>>

Reconnected(k) ==
    /\ pc[k] = "restored"
    /\ reconnecting' = FALSE
    /\ Goto(k, "wait")
    /\ UNCHANGED <<mu, client, conn, dialing, monitor, keeper, stop>>

-----------------------------------------------------------------------------
(* keepAlive.                                                              *)

KeeperGoto(k, stage) == kpc' = [kpc EXCEPT ![k] = stage]

KeeperExit(k) ==
    /\ kpc[k] = "wait"
    /\ cancelled
    /\ KeeperGoto(k, "done")
    /\ UNCHANGED <<lock, conn, pc, dialing, monitor, kprobed, stop>>

KeeperTick(k) ==
    /\ kpc[k] = "wait"
    /\ KeeperGoto(k, "read")
    /\ UNCHANGED <<lock, conn, pc, dialing, monitor, kprobed, stop>>

KeeperRead(k) ==
    /\ kpc[k] = "read"
    /\ mu = None
    /\ KeeperGoto(k, IF client = None THEN "wait" ELSE "probe")
    /\ kprobed' = [kprobed EXCEPT ![k] = client]
    /\ UNCHANGED <<lock, conn, pc, dialing, monitor, stop>>

KeeperProbe(k) ==
    /\ kpc[k] = "probe"
    /\ KeeperGoto(k, IF conn[kprobed[k]] = "open" THEN "wait" ELSE "close")
    /\ kprobed' = [kprobed EXCEPT ![k] = None]
    /\ UNCHANGED <<lock, conn, pc, dialing, monitor, stop>>

\* Mutant: the client is closed but stays in the tunnel.
KeeperCloseKeepsClient(k) ==
    /\ kpc[k] = "close"
    /\ mu = None
    /\ conn' = IF client = None THEN conn ELSE [conn EXCEPT ![client] = "closed"]
    /\ KeeperGoto(k, "wait")
    /\ UNCHANGED <<lock, pc, dialing, monitor, kprobed, stop>>

\* Closes the client the tunnel has now, not the one that failed to answer.
KeeperClose(k) ==
    /\ kpc[k] = "close"
    /\ mu = None
    /\ CloseClient
    /\ KeeperGoto(k, "wait")
    /\ UNCHANGED <<mu, reconnecting, pc, dialing, monitor, kprobed, stop>>

-----------------------------------------------------------------------------
(* Disconnect, and the network.                                            *)

CallDisconnect ==
    /\ ~ stopping
    /\ stopping' = TRUE
    /\ UNCHANGED <<lock, cancelled, conn, pc, dialing, monitor, keeper>>

Disconnect ==
    /\ stopping
    /\ mu = None
    /\ stopping' = FALSE
    /\ cancelled' = TRUE
    /\ CloseClient
    /\ UNCHANGED <<mu, reconnecting, pc, dialing, monitor, keeper>>

ConnectionDies(k) ==
    /\ conn[k] = "open"
    /\ conn' = [conn EXCEPT ![k] = "dead"]
    /\ UNCHANGED <<lock, pc, dialing, monitor, keeper, stop>>

-----------------------------------------------------------------------------
(* The specification.                                                      *)

\* The select of Connect at lines 83-96.
DialEnds(p) == DialFails(p) \/ Install(p) \/ AbandonDial(p) \/ RejectDial(p)

TakeLock(p) == AlreadyConnected(p) \/ StartDial(p)

Connect(p) == EnterConnect(p) \/ TakeLock(p) \/ DialOpens(p) \/ DialEnds(p)

MonitorConnection(k) ==
    \/ MonitorExit(k) \/ MonitorTick(k) \/ MonitorRead(k) \/ MonitorProbe(k)
    \/ ClaimReconnect(k) \/ CloseForReconnect(k)
    \/ NextAttempt(k) \/ Reconnected(k)

KeepAlive(k) ==
    \/ KeeperExit(k) \/ KeeperTick(k) \/ KeeperRead(k) \/ KeeperProbe(k)
    \/ KeeperClose(k)

Next ==
    \/ \E p \in Connectors : Connect(p)
    \/ LateDial
    \/ \E k \in Clients : MonitorConnection(k) \/ KeepAlive(k) \/ ConnectionDies(k)
    \/ CallDisconnect
    \/ Disconnect

SafetySpec == Init /\ [][Next]_vars

\* The steps a goroutine takes on its own once it is past its select or has
\* been called.
ConnectRuns(p) == TakeLock(p) \/ DialEnds(p)

MonitorRuns(k) ==
    \/ MonitorTick(k) \/ MonitorRead(k) \/ MonitorProbe(k) \/ ClaimReconnect(k)
    \/ CloseForReconnect(k) \/ EnterConnect(k) \/ ConnectRuns(k)
    \/ NextAttempt(k) \/ Reconnected(k)

KeeperRuns(k) ==
    KeeperTick(k) \/ KeeperRead(k) \/ KeeperProbe(k) \/ KeeperClose(k)

\* A goroutine goes on.  sync.RWMutex hands a lock that is given back again
\* and again to each goroutine that waits for it, hence strong fairness; a
\* select whose ctx.Done is ready time and again takes it in the end.  The
\* 30 s timeout ends every dial, tickers tick, and SendRequest returns: the
\* server answers or the connection fails.  No caller has to call, no dial
\* has to succeed and no user has to disconnect.
Fairness ==
    /\ \A p \in Callers : SF_vars(ConnectRuns(p))
    /\ \A k \in Clients :
        /\ SF_vars(MonitorRuns(k)) /\ SF_vars(MonitorExit(k))
        /\ SF_vars(KeeperRuns(k)) /\ SF_vars(KeeperExit(k))
    /\ SF_vars(Disconnect)

Spec == SafetySpec /\ Fairness

-----------------------------------------------------------------------------
(* Properties.                                                             *)

\* Every variable has its type.
TypeOK ==
    /\ mu \in Connectors \cup {None}
    /\ client \in Clients \cup {None}
    /\ reconnecting \in BOOLEAN
    /\ cancelled \in BOOLEAN
    /\ conn \in [Clients -> ConnStates]
    /\ pc \in [Connectors -> Stages]
    /\ dialled \in [Connectors -> Clients \cup {None}]
    /\ abandoned \in 0..MaxAbandoned
    /\ tries \in [Clients -> 0..MaxAttempts]
    /\ probed \in [Clients -> Clients \cup {None}]
    /\ kpc \in [Clients -> KeeperStages]
    /\ kprobed \in [Clients -> Clients \cup {None}]
    /\ stopping \in BOOLEAN

\* A tunnel never has two dials under way whose clients both count, however
\* many callers and monitors got past the reconnecting check (line 47) before
\* one of them set it: t.mu serialises them, and the dial starts without a
\* client (line 54).
OneDial ==
    \A p, q \in Connectors :
        pc[p] = "dial" /\ pc[q] = "dial" => p = q /\ client = None

\* The reconnecting flag is never left set with nobody who will clear it.
\* Connect and reconnect both set it and both clear it, each also the flag
\* of the other (lines 58-59, 146-149); a flag that stays set would make
\* every later Connect fail with "tunnel is already reconnecting".
FlagHasOwner ==
    reconnecting =>
        \/ \E p \in Connectors : pc[p] = "dial"
        \/ \E k \in Clients : pc[k] \in InReconnect

\* The tunnel never keeps a client that somebody has closed: a forward that
\* reads t.client gets a connection that is open, or that has died and will
\* be noticed (lines 151-156, 211-217, 302-313).
ClientNotClosed == client # None => conn[client] \in {"open", "dead"}

\* The tunnel, or a Connect that has not returned, will close connection k.
Held(k) == client = k \/ \E p \in Connectors : dialled[p] = k

\* The Connect that opened connection k returns its error.
GivesUpOn(k) == \E p \in Connectors : dialled[p] = k /\ pc'[p] = Returned(p, "failed")

\* Whoever lets go of a connection closes it in the same step, and nobody
\* replaces a client that is in use; a connection stays open without an owner
\* only when a Connect times out, because it reads its client too early
\* (lines 83-90) or because its dial ends after it has returned.
OnlyTimeoutsLeak ==
    [][\A k \in Clients :
         /\ Held(k) /\ ~ Held(k)' => conn'[k] = "closed" \/ GivesUpOn(k)
         /\ conn[k] = "unused" /\ conn'[k] # "unused"
                => Held(k)' \/ abandoned' < abandoned]_vars

\* A client is served by its own monitor and keepAlive from the moment it is
\* installed, until the tunnel is disconnected for good.
ClientIsWatched ==
    client # None /\ ~ cancelled =>
        pc[client] \notin {"none", "done"} /\ kpc[client] \notin {"none", "done"}

\* While monitor k is in reconnect, nobody else is in Connect or in reconnect.
Alone(k) == pc[k] \in InReconnect => \A q \in Connectors \ {k} : pc[q] \notin InReconnect

\* The reconnect of monitor k gets as far as a lock, a dial or a success.
GetsThrough(k) == pc[k] \in {"lock", "dial", "restored"}

\* An upper bound of the steps monitor k has yet to take in reconnect.
StepsLeft(k) ==
    CASE pc[k] = "close" -> 4 * MaxAttempts + 1
      [] pc[k] = "attempt" -> 4 * (MaxAttempts - tries[k])
      [] pc[k] = "lock" -> 4 * (MaxAttempts - tries[k]) - 1
      [] pc[k] = "dial" -> 4 * (MaxAttempts - tries[k]) - 2
      [] pc[k] \in {"failed", "restored"} -> 4 * (MaxAttempts - tries[k]) - 3
      [] OTHER -> 0

\* A monitor in reconnect gets nearer to its end with each step it takes, and
\* nobody takes it back: whoever else dials, closes or disconnects meanwhile,
\* it calls Connect at most MaxAttempts times (tunnel.go:163-190).
ReconnectSettles ==
    [][\A k \in Clients : pc[k] \in InReconnect =>
         \/ pc'[k] = pc[k] /\ StepsLeft(k)' = StepsLeft(k)
         \/ StepsLeft(k)' < StepsLeft(k)]_vars

\* Every Connect returns, however its dial ends and whoever holds t.mu.
ConnectReturns ==
    \A p \in Connectors : pc[p] \in {"lock", "dial"} ~> pc[p] \notin {"lock", "dial"}

\* Disconnect gets t.mu although dials hold it for up to 30 s each.
DisconnectReturns == stopping ~> ~ stopping

\* A client whose connection has died is taken out of the tunnel, by its
\* keepAlive or by a reconnect, unless the tunnel was disconnected.
DeadIsDropped ==
    \A k \in Clients :
        client = k /\ conn[k] = "dead" ~> client # k \/ cancelled

\* Once the tunnel is disconnected, every monitor and keepAlive goroutine that
\* was ever started returns.
GoroutinesReturn ==
    \A k \in Clients :
        cancelled ~> pc[k] \in {"none", "done"} /\ kpc[k] \in {"none", "done"}

-----------------------------------------------------------------------------
(* Refinement.                                                             *)

\* The clients that were installed once and are closed.
Retired == {k \in Clients : pc[k] # "none" /\ conn[k] = "closed"}

Link == INSTANCE TunnelLink WITH link <- client, retired <- Retired

\* Whatever its goroutines do, the tunnel behaves like TunnelLink: one client
\* at a time, closed in the very step that takes it out, and never put back
\* (lines 54, 98, 151-156, 211-217, 302-313).
LinkSpec == Link!Spec
====
