# Xengate: a TLA+ model of the tunnel manager

Xengate is a desktop program that opens SSH tunnels to a set of servers and
offers them to the local network as SOCKS5 and HTTP proxies, with a blocklist
and daily time limits per client address. This directory holds TLA+ modules for
its concurrent core (`internal/tunnel`), the local proxies, the window with its
configuration file and the application's settings, the TLC configurations that
check them on small instances, and TLAPS proofs of their safety properties for
every value of the constants. Source paths below are relative to `src/`, and a
bare `tunnel.go`, `pool.go`, `manager.go`, `access_control.go` or
`block_list.go` is the one in `internal/tunnel/`. The repository has no tests,
and its only document besides code comments is `pkg/graceful/README.md`.

## 1. Inventory

| Part | State | Operations | Interacts with |
|---|---|---|---|
| Tunnel (`tunnel.go`) | ssh client, `mu`, `reconnecting` flag, context | Connect, monitorConnection, reconnect, keepAlive, Forward, Disconnect | called by ConnectionPool; every Connect that succeeds starts two goroutines |
| ConnectionPool (`pool.go`) | list of tunnels, `mu`, round robin counter, context | Start, monitorConnections with its workers, Stop, GetTunnel, Forward | owns tunnels; owned by Manager |
| Manager (`manager.go`) | map of pools, `mu`, WaitGroup | Start, Stop, StopAll, Forward, blocklist wrappers | called by the UI and the proxies |
| AccessControl (`access_control.go`) | rules, index by address, usage status, one mutex | Add/Update/Delete/ResetRule, daily reset, StartSession, EndSession | called by Forward, edited by the rules tab |
| IPBlocklist (`block_list.go`) | set of addresses | Add, Remove, IsBlocked | called by Forward, edited by the blocklist tab |
| SOCKS5 and HTTP proxies (`internal/proxy`) | listener, closed flag, WaitGroup | Start, accept loop, handshake, Stop | call Manager.Forward per connection; started by the panel |
| TUN interface (`internal/proxy/tuntap.go`) | network configuration of the host | Start, Stop | not created by the window (`ui/mainwindow.go:259`) |
| Rules tab, blocklist tab (`ui/`) | table shown, autosave flag | load, add, edit, delete, save | AccessControl, IPBlocklist, configuration store |
| Connection list, edit dialog (`ui/`) | connections with a status | run, stop, edit, remove | Manager.Start/Stop by name, configuration store |
| Main window, timer panel (`ui/`) | proxies, running flag | start and stop everything, Quit | Manager, proxies |
| Configuration store (`internal/common`, `internal/storage`) | `config.json` | LoadConfig, SaveConfig | every tab loads, changes and saves the whole file |
| Application config (`backend/`) | `config.toml`, `writeLock` | writer goroutine, SaveConfigFile, Shutdown | main, the dialogs |
| Start at system startup (`pkg/startup`, settings dialog) | an entry of the desktop session | Enable, Disable, IsEnabled | check box of the settings dialog |
| Graceful shutdown (`pkg/graceful`) | callbacks, signal channels | AddCallback, WaitShutdown | imported by nothing |

What is hard here: goroutines of several generations share one tunnel; its lock
is held through dials of up to 30 s while everybody else waits for it; stops
race starts and reconnections; a session is checked when it starts and charged
when it ends, while other connections of the same address, resets and edits
come in between; proxies are stopped while they accept, and relays outlive the
call that started them; five dialogs and tabs, one after the other, write one
file, which a crash or a write that fails can cut; two writers of the settings
skip each other. `PROJECT.json` lists these
hazards line by line.

What makes each part correct:

* Tunnel: one dial at a time, a flag that is always cleared, a client that is
  never closed and kept, no connection without owner (but for what a timed out
  Connect leaves), goroutines that end.
* Pool: Start is all or nothing, nobody waits for ever, no goroutine outlives
  the call that waits for it, reconnections stay within their slots.
* Manager: only running pools are offered, no pool is out of reach of a Stop,
  calls return although they share a lock with scans that wait for dials.
* AccessControl and Forward: the index never dangles, charges grow with the
  clock, the recorded overdraft is bounded, every session is ended, every call
  returns.
* Proxies and relays: Stop waits for exactly the handlers that serve and
  returns; a relay that outlives its call ends.
* Window and `config.json`: as long as reads and writes succeed, what is shown
  and enforced is what a restart loads, and no tab overwrites another's part; a
  pool stays in reach of the list.
* Settings: the exit's configuration stays in the file; the start-up check box
  tells the truth.

## 2. Modules

| Module | Models | Extends / instantiates |
|---|---|---|
| `TunnelLink` | abstract: a tunnel has one client at a time and never takes one back | |
| `Tunnel` | `tunnel.go` without Forward (in `Proxy`) | INSTANCE `TunnelLink` (refinement) |
| `PoolLife` | abstract: a pool starts completely or fails, and stays stopped | |
| `Pool` | `pool.go`: Start, monitor and workers, Stop, GetTunnel and GetStats | INSTANCE `PoolLife` (refinement) |
| `Registry` | abstract: a server has one pool at a time, a pool is offered once | |
| `Manager` | `manager.go`: Start, Stop, StopAll, the scan of Forward | INSTANCE `Registry` (refinement); relies on what `PoolLife` promises |
| `AccessControl` | `access_control.go` and the edits of `ui/rule_tab.go` | |
| `Forwarding` | `Manager.Forward` with the blocklist | EXTENDS `AccessControl` |
| `Proxy` | `socks5_proxy.go`, `http_proxy.go`, `Manager.Forward` as its caller sees it, `Tunnel.Forward` | |
| `Desktop` | connection list, edit dialog, panel, rules and blocklist tabs, `config_manager.go`, `storage.go` | |
| `Settings` | `backend/app.go`, `backend/config.go`, `main.go`, settings dialog, `startup.go` | |
| `MC*` | constants and symmetry for TLC | |
| `*Proofs` | TLAPS proofs | EXTENDS its component |

**Correspondence.** A variable is a field or the program counter of a set of
goroutines; an action is a whole operation when that runs under one lock
(AccessControl, `Take` in Manager), and otherwise the part of a function from
one lock operation, atomic operation or blocking call to the next. A definition
whose name begins with that of an action and says what goes wrong, under a
comment that begins with "Mutant", is that action with a plausible bug; no
specification uses it, and it serves to show that a property can fail.

* `Tunnel`. Callers are the pool's goroutines; monitors and keepAlives are named
  by the client they were started with. `mu` is the Connect that holds t.mu
  through its dial; other critical sections are one action. The race between
  lines 80 and 85 (client is read without synchronisation) is a choice between
  the two values the read can see: what was dialled is closed or stays open. A
  dial that outlives its Connect is counted in `abandoned` and may still open a
  connection.
* `Pool`. The tunnels are reduced to up or down and to the lock that a dial
  holds: one of the pool's goroutines (`pc` is "dial") or the tunnel's own
  reconnect (`redial`), which may come at any time, also after Disconnect, since
  reconnect does not look at t.ctx. `tries` counts failed calls of Connect.
  `asks` are calls of GetTunnel and GetStats, which keep p.mu for reading while
  they wait for tunnels, and the monitor calls GetStats twice a round; p.mu is a
  sync.RWMutex, so a Stop that waits for it keeps new readers out. `TunnelIndex`
  is the round robin index of GetTunnel with the width of its counter (uint32)
  and of the platform's int, and `Asked` all that one call asks before it gives
  up.
* `Manager`. `pc` is the stage of a call of Start, Stop or StopAll; `watcher`
  is the goroutine that waits for the context given to Start; `stopping` are the
  goroutines that run pool.Stop. A writer's critical section is one action; a
  scan keeps the read lock and waits for pools in `dialling`. For `Registry`, the
  table is `pools`, and the pools that were given up are those that have failed,
  have stopped or are in `stopping`.
  sync.RWMutex is modelled by its rule: no new reader while a writer waits.
* `AccessControl`. Maps are total functions with null records. Every operation
  runs under ac.mu and is one action. `now` is the wall clock in ticks.
* `Forwarding`. A connection moves from check to start, scan, forward and end;
  the two long steps are bounded by `ScanTime` (an assumption on how long the
  scan waits for locks) and `ForwardTime` (the 30 s of `manager.go:191`). The
  rest takes less than a tick. A client is a member of `Peers`; `Host` is the
  address it has, and `Cut` what `manager.go:130` makes of its RemoteAddr by
  splitting it at a colon: "pipe" for a plain HTTP request, which comes through a
  `net.Pipe`, and "[" for IPv6. Blocklist and rules see the cut address only. The
  tabs act at any moment. `edited` is a history variable: the rules that were
  edited while a session of theirs ran, until they are settled (no session,
  nothing used, as after a reset).
* `Proxy`. `wg` is the WaitGroup; `handler` is where the goroutine of each
  connection is, `link[c].fwd` where its call of Manager.Forward, `link[c].relay`
  which of the two copies of Tunnel.Forward run. A handler calls wg.Done before
  it closes its connection, so a "closing" one is not waited for. A plain HTTP
  request is forwarded through a `net.Pipe`, whose far end `local` stands for;
  the other kinds hand the client's connection to Forward. Bytes are abstracted
  to which reads and writes can end: `client` and `target` are what the two ends
  do, freely. Slots of connections are used again once nothing is left of the
  last one.
* `Desktop`. The toolkit runs all callbacks on one goroutine, one at a time, so
  nothing interleaves between them: a callback is one action up to its
  SaveConfig. The write is an action of its own, so that the program may die
  before, in the middle of (`Torn`) or after it. `disk` says whether reads and
  writes succeed: while it is "failing", LoadConfig yields an empty configuration
  and WriteFile leaves the file as it was or truncated (`storage.go:90-96`); the
  callback then ends, with or without a message, what it has changed in memory
  stays, and the edit dialog stays open (`dialog`). The error of Close, which the
  code ignores, is left out. LoadConfig reads a torn file as an empty
  configuration. A connection is its ID, its name and its status, a rule its ID
  and a text (all that the form edits); the lists are sets, since IDs in the file
  are unique (proved). `pools` are the names the Manager has pools for.
* `Settings`. `stage` is where each of the two writers (the toolkit's thread and
  the goroutine of startConfigWriter) is in SaveConfigFile; `main` is where the
  thread is on its way out: after the event loop it calls Shutdown twice, one
  call after the other (`main.go:81, 110`). os.WriteFile, whose error is ignored
  (`config.go:115`), is assumed to succeed unless the program dies in it. The
  writer goroutine selects once, not in a loop. It reads the configuration
  without a lock: what it marshals while the window can change it is any value.
  `calling` is the call the check box is about to make; a call that fails sets
  the box back, whose handler makes the opposite call.

## 3. Runs

| Run | Instance | Shows |
|---|---|---|
| `access_table` | 2 rules, 2 addresses, limits 0 and 2, 3 ticks | the index never dangles, every rule has a status, charges grow no faster than the clock |
| `access_unindexed` | 2 rules, 1 address | **violation**: an address loses its restriction (below) |
| `forward` | 2 connections, 1 host that comes in directly or through a pipe, 1 rule, 3 ticks, session of 2 | every session has a connection; recorded charge and overdraft are bounded; Forward returns; a blocked host is drained |
| `forward_denied` | 2 connections, 1 address | **violation**: a denial within the limit (below) |
| `tunnel_safety` | 2 callers, 2 clients, 2 attempts, 1 abandoned dial | five safety properties and the refinement of `TunnelLink` |
| `tunnel_live` | 2 callers, 1 client | Connect, Disconnect and the goroutines end; a dead client is dropped |
| `pool` | 2 tunnels, 1 retry and slot, 1 reader | no goroutine outlives its caller; refinement of `PoolLife`; Start, Stop and the monitor end; a tunnel that is down is noticed |
| `pool_cleanup` | 1 tunnel | **violation**: a tunnel is connected after Stop (below) |
| `manager` | 1 server, 2 pools, 2 callers, 1 scan, 2 watchers | refinement of `Registry`; no pool is lost, scans are consistent; calls return, stops and ended contexts take effect |
| `proxy` | 1 connection slot, both modes, 2 callers of Stop | Stop awaits the handlers and returns; copies that outlive Forward end |
| `desktop` | 2 IDs, 2 names, 1 rule with 2 texts, 1 address | while reads and writes succeed, list, blocklist and rules agree with the file; pools leave reach only with their name |
| `settings` | 3 configurations | the exit's configuration stays; the check box tells the truth |

**Bounds.** Two callers and two clients make each race of a tunnel possible: an
old monitor and keepAlive beside new ones, a caller past the flag check while
another dials. `MaxAttempts = 2` has a first and a last attempt. Two tunnels
with one slot make a worker wait for the other's, and a reader and the monitor
hold up Stop, and Stop them, through both tunnels' locks. `MaxRetries` is the
number of slots and of attempts at once, so a run with fewer slots than two
tunnels has no second attempt; the states of three tunnels with two retries are
too many for the liveness properties. That every attempt brings a goroutine
nearer to its end is proved for every `MaxRetries` (GoroutinesSettle). Two pools
let two Starts of one server overlap, so that one of them cleans up, and a pool
follow another. Two rules and two addresses let rules share an address and move.
`MaxTime` and `MaxAbandoned` bound counters; the clock of `Forwarding` stops at
`MaxTime` but its timers go on, so that no call is stuck at the bound. One
connection slot is enough for the proxy, since connections meet only in the
WaitGroup, and `ProxyProofs` covers any number of them there. Two IDs and two
names let entries be renamed, moved onto each other and share a name; three
configurations let the default, what the writer goroutine has marshalled and
what the user set last differ. `tunnel_live` has one generation of goroutines
and `manager` one scan of Forward: the liveness of several, or of scans that
keep coming, is not checked.

A run with liveness properties uses no symmetry and a smaller instance than its
invariants alone would allow; those invariants are theorems, for every size.
Type invariants, the bound of a pool's reconnections (`SlotsBounded`), that only
running pools are offered (`OfferedIsRunning`) and the properties marked with a
star in section 4 are theorems, and no run spends time on them. `MCPool` also has
TLC evaluate `WrapMaySkip`, a case in which one call of GetTunnel skips a tunnel.

In `forward` rules and blocklist change at any moment. A rule that is edited in
the middle of a session is where the bounds end: the rule that was charged at the
start need not be the one found at the end, a session can be left without a
connection, and the time it runs is charged later. The three bounds are therefore
stated for the rules that are not in `edited`; Forward's return and the drain of
a blocked host are not limited so. OverdraftBounded is about the time that is
recorded: a refused connection ends the session of the one that is being served
(`manager.go:147`), so that more may be served than is recorded.

The contexts that the window gives to Start never end (`ui/mainwindow.go:245,
276`), so what `manager` and `pool` say of ended contexts is about the interface
of the Manager, not about something the window does.

`pool` and `proxy` have no deadlock check, since a stopped pool and a stopped
server stop for good.

**Fairness.** Goroutines that can go on do. Where a step waits for a lock, a
slot or a select with several ready cases, fairness is strong, since Go hands
a mutex to each waiter and chooses fairly between ready cases. Dials end (30 s,
15 s for a channel), deadlines and timers fire (10 s for a handshake, 30 s for
Forward), tickers tick, requests are answered or fail with the connection. The
two copies of a relay are goroutines with a fairness of their own. No fairness is
put on users, clients and targets, on the network, on the start of a dial or on
the end of a context. `Desktop` and `Settings` are checked for safety only: the
toolkit's thread does what the user asks, and nothing else must happen.

**What the violations show.**

* `access_unindexed`. rulesByIP keeps one rule per address, the one added last,
  and DeleteRule removes the entry without looking which rule it names
  (`access_control.go:169`). In the trace r1 and r2 are added for one address and
  r1, the earlier, is deleted: the entry, which named r2, is gone, and
  StartSession finds "No rule means no restriction" (`access_control.go:227`)
  although r2 is in the table. Deleting r2, or giving either of them another
  address (`access_control.go:152`), leaves the other unenforced just so.
* `forward_denied`. A second connection of a restricted address is refused while
  the first is open, with the message "access denied for %s (time limit
  exceeded)" (`manager.go:148`), since StartSession also returns false when a
  session is running (`access_control.go:235`). The refused connection then ends
  the session of the first.
* `pool_cleanup`. A worker of a monitor round looks only at the context given to
  Start (`pool.go:255`), and Connect does not look at t.ctx, so a tunnel may be
  connected after Stop has disconnected it and returned; `manager.go:63` calls
  this "Clean up the new pool since we won't be using it".

**Observations without a run.** What the models take from the code as it is, and
a maintainer may want to know:

* Stop is meant "to avoid blocking GUI" (`manager.go:90`), but waits for `m.mu`,
  which a scan holds while it waits for dials; `manager` shows that it returns,
  after the dial. The Wait of StopAll (`manager.go:114`) counts the goroutines
  that wait for contexts, not those that stop pools. The panel waits in
  Stop of both proxies on the toolkit's thread, for up to 30 s and, as `StopEnds`
  of `Proxy` says, without bound while the client of a plain HTTP request does
  not read.
* Forward takes for the client's address what precedes the first colon of the
  RemoteAddr of the connection it is given. For a plain HTTP request that is
  "pipe" and for an IPv6 client "[", so rules and blocklist do not reach them by
  their address (`BlockedIsDrained` is stated for the others).
* A torn `config.json` reads as an empty configuration, and the next save writes
  one part into it; the others are lost. The same happens when a read fails and
  the write after it does not. `OnlyOwnPart` says that nothing but a crash or a
  read or write that fails does that. The rules tab ignores the error of a save
  (`ui/rule_tab.go:322, 377`), and the others leave in memory what they could not
  save. An empty `config.toml` reads as the defaults; only a
  malformed one is copied first.
* Deleting a rule is not saved, also with Auto Save on. The panel does not save
  the statuses it sets, so a dialog that reloads the list shows them stopped
  while their pools run; after a restart statuses are loaded though no pool runs.
* A connection that is removed or renamed leaves its pool running under a name no
  button has (`OrphansLostTheirName` says that this is the only way). Names
  need not be unique, and an ID is a hash of host and port without a separator.
* reconnect sets the flag at which its own calls of Connect turn back
  (`tunnel.go:146, 47`). Alone it never dials (theorem `OwnFlagTurnsAway`): it
  drops the client, and the pool's monitor brings the tunnel up again, unless a
  Connect that ends meanwhile clears the flag.
* The counter of the round robin is a uint32. Every call of GetTunnel asks every
  tunnel, unless its attempts cross 2^32 (theorem `ScanAsksEveryTunnel`); on the
  32-bit build (`Makefile:52`) `int` makes the counter negative after 2^31 calls,
  and the index with it (`pool.go:184`), which the theorem excludes.
* Escape closes the settings dialog without a save. `lastWrittenCfg` is set also
  when the write was skipped. Quit in the tray's menu calls a nil `proxyCancel`.
  If Enable and Disable both keep failing, the check box's handler and SetChecked
  call each other without end.

## 4. Proofs

The theorems are proved by TLAPS for all values of the constants under the named
assumptions of the modules: finite sets where cardinalities are used, positive
retry counts, special values different from all others, a width for the counter.
They are of four forms: an invariant (`Spec => []P`), an action property, a
refinement, and a property under a condition (`Spec /\ []H => []P`), which says
that a violation found by a run has no other cause than the one shown. `Spec` is
`SafetySpec` where the component has fairness too; ACSpec for the rule table.
A star marks a property that no run checks.

| Module | Theorems | Inductive invariant: why it is needed |
|---|---|---|
| `TunnelProofs` | the safety properties of `tunnel_safety` (OnlyTimeoutsLeak among them), TypeOK*, `ImplementsLink`, ReconnectSettles*, `OwnFlagTurnsAway`* | adds that the lock is held exactly by a dialling Connect without a client, that a dialled connection is fresh and not started, and that retries are left; without it nothing excludes a second dial. For the last: a monitor in reconnect that is alone finds the flag set (`TurnedAway`) |
| `PoolProofs` | GoroutineIsAwaited, SlotsBounded*, TypeOK*, `ImplementsLife`, GoroutinesSettle*, SomeoneGoesOn*, EndedContextHolds*, `ScanAsksEveryTunnel`* | adds for whom a goroutine works in each stage, that it has a retry left, and that a tunnel has joined exactly when its goroutine of Start has ended |
| `ManagerProofs` | NoPoolLost, ScanIsConsistent, OfferedIsRunning*, TypeOK*, `ImplementsRegistry`, LifeInOrder*, RemovalHasCause*, RunningIsWatched* | adds what each caller holds, that no two hold the same pool, that a pool in a stopping goroutine runs, and that a goroutine that stops by name woke from a context that has ended (`WatchersFit`) |
| `AccessControlProofs` | ACTypeOK*, IndexSound, StatusForEveryRule, ChargedByTheClock, UnindexedWasShared*, `UnrestrictedWithoutSharing`* | the first three are inductive with the bound of a charge by the clock (`ChargedTimeIsReal`) |
| `ForwardingProofs` | SessionHasConnection, NoOvercharge, OverdraftBounded, TypeOK*, RefusedBesideAnother*, `ForwardingImplementsTable`*, `TableHoldsInTraffic`*, `UnrestrictedInTraffic`*, with edits at any moment | for the rules that are not in `edited`: a running session is owned by a connection and is no older than that connection has waited; a reset splits the charge at the reset time. For the refinement: connections that are under way have an address |
| `ProxyProofs` | HandlersAwaited, TypeOK*, WaitGroupRespected*, RelayIsCutOff*, HandlersGoOn*, RelayWindsDown* | the counter equals the accept loop plus the handlers that have not called Done, and a Stop that waits has closed the listener; so zero means nobody, and nobody can follow. For the last three: how far a handler, its Forward and its copies are agree (`LinksSettled`) |
| `DesktopProofs` | ListMatchesFile, BlockedMatchesFile, OnlyOwnPart, RulesAutoSaved, OrphansLostTheirName, TypeOK*, `AutoSaveSuffices`*, `KeptNamesKeepPools`* | what is about to be written differs from the file in one part, unless reads fail; while `disk` is "sound" memory and file agree; IDs are unique in the file and, unless a reload is due, in the list, so that removing an entry and removing its ID are the same |
| `SettingsProofs` | SavedOnExit, CheckShowsEntry, TypeOK*, ExitLeavesWholeFile* | the lock is held by at most one writer; the thread's bytes are the configuration; once the last save has written, the ticker can write only the same; a call of the box is pending or the box agrees. For the last: whoever finds the lock taken leaves the file to a writer that has yet to write (`WholeAfterSave`) |

**The other side of the violations.** Each of the three runs that find a
violation has a theorem that says what else would be needed, so that a repair can
be judged:

* `access_unindexed`: an update or a deletion takes a restriction away only when
  another rule named the same address (UnindexedWasShared), and without two such
  rules an address that is unrestricted has no rule (`UnrestrictedWithoutSharing`;
  in traffic, `UnrestrictedInTraffic`). A table that refuses a second rule for an
  address would be right.
* `forward_denied`: a connection refused within its limit has another of its
  address beside it that is being served, or its rule was edited under a session
  (RefusedBesideAnother). Without such an edit no session is left over from a
  connection that has gone.
* `pool_cleanup`: once the context given to Start has ended no worker comes to
  Connect that was not in it, from the slots or from a backoff
  (EndedContextHolds). If Stop ended a context that the workers look at, they
  would stop coming.

In the window, `AutoSaveSuffices` says that Auto Save, if it stays on, leaves no
rule or edit unsaved as long as reads and writes succeed, and RulesAutoSaved that
only deletions, and edits with Auto Save off, are undone by a restart;
`KeptNamesKeepPools` that as long as no name leaves the list every pool has its
button. `OwnFlagTurnsAway` says for a reconnect that no other Connect or
reconnect joins that it never reaches a dial.

**The safety half of liveness.** What a liveness property needs besides fairness
is proved where it is the hard part: that a goroutine of Start, of a round or of
reconnect gets nearer to its end with each step, whatever others do
(GoroutinesSettle, ReconnectSettles, with a bound in MaxRetries and MaxAttempts);
that among the goroutines somebody waits for one can go on (SomeoneGoesOn); that
a handler that serves waits only for what a timer ends, and a relay's steps all
lead to its end (HandlersGoOn, RelayWindsDown); that the end of a running pool's
context finds somebody who sees it (RunningIsWatched).

**Composition.** `Manager` relies on what `PoolLife` says of a pool, which `Pool`
is proved to implement; `Pool` takes for granted that it is started once and
stopped at most once, after its Start has returned, which is proved of the
Manager (LifeInOrder). `Pool` relies on a tunnel having one client that comes and
goes, which `Tunnel` is proved to do (`TunnelLink`). `Forwarding` is proved to be
a behaviour of the rule table, so what is proved of the table alone holds in
traffic (`TableHoldsInTraffic`), also with edits at any time. `Proxy` takes of
Manager.Forward that it refuses, starts a relay and returns after at most 30 s of
it, which `forward` checks; `Desktop` takes of the Manager that a name has one pool,
that Stop removes it and that Start adds one or fails, which is what `Registry`
says. That dials and stops end, on which the fairness of `Manager` and `Pool`
rests, is checked in `tunnel_live` and `pool`.

**Only model-checked.** The fifteen liveness properties of the runs: they rest on
fairness and ENABLED, for which the installed prover has no rules.

## 5. Not modelled

* TUN interface (`internal/proxy/tuntap.go`). The window does not create it
  (`ui/mainwindow.go:259` is commented out), and its set-up cannot get past its
  first iptables rule, which is built with an argument too many
  (`tuntap.go:72, 177`); half of the file is commented out. What would be worth
  stating is a roll-back of a set-up that fails, which the code does not have.
* `pkg/graceful`: nothing imports it.
* The counter of the round robin as state: `Manager` lets a pool answer with any
  connected tunnel, so which one is asked first makes no difference to it.
* Login and master password: one dialog and a hash.
* Monitor tab, ping and about dialogs, themes, layouts, resources, logging: they
  read state or draw it.
* The bytes that are relayed, target addresses and protocol messages, statistics,
  fields of a connection other than address, name and status, cache and log files
  of the application; a second instance of the program.
