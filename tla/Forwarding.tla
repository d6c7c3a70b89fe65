---- MODULE Forwarding ----
(***************************************************************************)
(* Manager.Forward of internal/tunnel/manager.go: what happens to one      *)
(* proxied connection between the moment the proxy hands it over and the   *)
(* moment Forward returns, with the blocklist and the rule table it        *)
(* consults, while other connections of the same address do the same.      *)
(*                                                                         *)
(* Each connection is a goroutine.  It holds no lock between two calls,    *)
(* so every call it makes (IsIPBlocked, StartSession, the pool scan, the   *)
(* forward itself, EndSession) is an action of its own, and the rules tab  *)
(* and the blocklist tab may act between any two of them.                  *)
(*                                                                         *)
(* The choice of a pool and the copying of bytes are reduced to their      *)
(* outcome.  Two steps may take long: the pool scan, which waits for the   *)
(* locks of tunnels that are dialling, takes at most ScanTime, and the     *)
(* forward, which line 191 bounds by 30 s, at most ForwardTime.  The other *)
(* steps take less than a tick.                                            *)
(***************************************************************************)
EXTENDS AccessControl

CONSTANTS
    Conns,          \* the connections (goroutines in Forward)
    ScanTime,       \* ticks the pool scan may wait for tunnel locks
    ForwardTime,    \* ticks of the 30 s timeout
    Peers,          \* the kinds of client: an address and the way it comes in
    Host,           \* the address each of them really has
    Cut             \* what line 130 makes of its RemoteAddr

ASSUME ScanTimeAssumption == ScanTime \in Nat
ASSUME ForwardTimeAssumption == ForwardTime \in Nat
ASSUME PeersAssumption ==
    None \notin Peers /\ Host \in [Peers -> IPs] /\ Cut \in [Peers -> IPs]

VARIABLES
    blocked,    \* the keys of IPBlocklist.blocked
    pc,         \* where each connection is in Forward
    peer,       \* the client of each connection
    left,       \* ticks before the step a connection waits in must end
    edited      \* history: the rules edited under a running session

fwdVars == <<rules, rulesByIP, status, now, blocked, pc, peer, left, edited>>

connVars == <<pc, peer, left>>

-----------------------------------------------------------------------------
(* "idle"     the proxy holds no such connection                           *)
(* "check"    about to ask the blocklist                                   *)
(* "start"    about to start a session                                     *)
(* "denied"   closed, about to end the session of its address              *)
(* "scan"     admitted, looking for a pool with a connected tunnel         *)
(* "forward"  waiting for the pool's Forward or for the timeout            *)
(* "end"      about to run the deferred EndSession                         *)

Stages == {"idle", "check", "start", "denied", "scan", "forward", "end"}

\* Between a granted StartSession and the deferred EndSession.
Serving == {"scan", "forward", "end"}

\* The addresses the user enters in the blocklist.
Addresses == {Host[p] : p \in Peers}

\* The RemoteAddr of localConn up to its first ":" (line 130): the address
\* of an IPv4 client, but "pipe" for a plain HTTP request, which reaches
\* Forward through a net.Pipe, and "[" for an IPv6 client.
ClientIP(c) == Cut[peer[c]]

Init ==
    /\ ACInit
    /\ blocked = {}
    /\ pc = [c \in Conns |-> "idle"]
    /\ peer = [c \in Conns |-> None]
    /\ left = [c \in Conns |-> 0]
    /\ edited = {}

Goto(c, stage) == pc' = [pc EXCEPT ![c] = stage]

\* Forward returns and the goroutine's locals are gone.
Return(c) ==
    /\ Goto(c, "idle")
    /\ peer' = [peer EXCEPT ![c] = None]
    /\ left' = [left EXCEPT ![c] = 0]

-----------------------------------------------------------------------------
(* One connection.                                                         *)

\* The proxy calls Forward with a connection of a client.
Accept(c, p) ==
    /\ pc[c] = "idle"
    /\ Goto(c, "check")
    /\ peer' = [peer EXCEPT ![c] = p]
    /\ UNCHANGED <<acVars, blocked, left, edited>>

\* Mutant: the blocklist is consulted and its answer ignored.
CheckBlocklistIgnored(c) ==
    /\ pc[c] = "check"
    /\ Goto(c, "start")
    /\ UNCHANGED <<acVars, blocked, peer, left, edited>>

CheckBlocklist(c) ==
    /\ pc[c] = "check"
    /\ IF ClientIP(c) \in blocked
       THEN Return(c)
       ELSE Goto(c, "start") /\ UNCHANGED <<peer, left>>
    /\ UNCHANGED <<acVars, blocked, edited>>

BeginSession(c) ==
    /\ pc[c] = "start"
    /\ StartSession(ClientIP(c))
    /\ Goto(c, IF Granted(ClientIP(c)) THEN "scan" ELSE "denied")
    /\ left' = IF Granted(ClientIP(c)) THEN [left EXCEPT ![c] = ScanTime] ELSE left
    /\ UNCHANGED <<blocked, peer, edited>>

\* The denied connection ends the session of its address (line 147), which
\* is the session of another connection of that address if it has one.
EndAfterDenial(c) ==
    /\ pc[c] = "denied"
    /\ EndSession(ClientIP(c))
    /\ Return(c)
    /\ UNCHANGED <<blocked, edited>>

\* No pool, or no pool with a connected tunnel: Forward returns an error.
NoPool(c) ==
    /\ pc[c] = "scan"
    /\ Goto(c, "end")
    /\ UNCHANGED <<acVars, blocked, peer, left, edited>>

SelectPool(c) ==
    /\ pc[c] = "scan"
    /\ Goto(c, "forward")
    /\ left' = [left EXCEPT ![c] = ForwardTime]
    /\ UNCHANGED <<acVars, blocked, peer, edited>>

\* The pool's Forward returned before the timeout, with or without an error.
ForwardDone(c) ==
    /\ pc[c] = "forward"
    /\ Goto(c, "end")
    /\ UNCHANGED <<acVars, blocked, peer, left, edited>>

\* Mutant: when the timer fires the wait starts again.
ForwardTimesOutRetries(c) ==
    /\ pc[c] = "forward"
    /\ left[c] = 0
    /\ left' = [left EXCEPT ![c] = ForwardTime]
    /\ UNCHANGED <<acVars, blocked, pc, peer, edited>>

ForwardTimesOut(c) ==
    /\ pc[c] = "forward"
    /\ left[c] = 0
    /\ Goto(c, "end")
    /\ UNCHANGED <<acVars, blocked, peer, left, edited>>

\* Mutant: the deferred EndSession is missing.
EndOnReturnForgotten(c) ==
    /\ pc[c] = "end"
    /\ Return(c)
    /\ UNCHANGED <<acVars, blocked, edited>>

EndOnReturn(c) ==
    /\ pc[c] = "end"
    /\ EndSession(ClientIP(c))
    /\ Return(c)
    /\ UNCHANGED <<blocked, edited>>

Conn(c) ==
    \/ CheckBlocklist(c)
    \/ BeginSession(c)
    \/ EndAfterDenial(c)
    \/ NoPool(c)
    \/ SelectPool(c)
    \/ ForwardTimesOut(c)
    \/ EndOnReturn(c)

-----------------------------------------------------------------------------
(* The user and the clock.                                                 *)

BlockIP(ip) ==
    /\ blocked' = blocked \cup {ip}
    /\ UNCHANGED <<acVars, connVars, edited>>

UnblockIP(ip) ==
    /\ blocked' = blocked \ {ip}
    /\ UNCHANGED <<acVars, connVars, edited>>

\* An edit changes the rule, or who owns its address, under a session.
Touched(id) ==
    /\ status[id].activeSince # Never
    /\ \/ rules'[id] # rules[id]
       \/ rulesByIP'[rules[id].ip] # rulesByIP[rules[id].ip]

\* No session and nothing used: what an edit left behind is gone.
Settled(id) == status'[id].activeSince = Never /\ status'[id].used = 0

\* The rules tab edits at any moment, also under a running session.
EditRulesTab ==
    /\ EditRules
    /\ edited' = {id \in RuleIds : ~ Settled(id) /\ (id \in edited \/ Touched(id))}
    /\ UNCHANGED <<blocked, connVars>>

ResetUsage ==
    /\ DailyReset \/ \E id \in RuleIds : ResetRule(id)
    /\ edited' = {id \in edited : ~ Settled(id)}
    /\ UNCHANGED <<blocked, connVars>>

\* Time cannot pass a step that is due: the deferred EndSession, or a wait
\* that has used up its ticks.
Due(c) == pc[c] = "end" \/ (pc[c] \in {"scan", "forward"} /\ left[c] = 0)

Waiting(c) == pc[c] \in {"scan", "forward"}

\* The clock stops at MaxTime; the timers run on.
TimePasses ==
    /\ \A c \in Conns : ~ Due(c)
    /\ now' = IF now < MaxTime THEN now + 1 ELSE now
    /\ left' = [c \in Conns |-> IF Waiting(c) THEN left[c] - 1 ELSE left[c]]
    /\ UNCHANGED <<rules, rulesByIP, status, blocked, pc, peer, edited>>

Next ==
    \/ \E c \in Conns : Conn(c) \/ ForwardDone(c) \/ \E p \in Peers : Accept(c, p)
    \/ \E ip \in Addresses : BlockIP(ip) \/ UnblockIP(ip)
    \/ EditRulesTab
    \/ ResetUsage
    \/ TimePasses

\* Nothing obliges a client to connect, a relay to finish or a user to act.
\* A goroutine that can run does.  Time passes however often a step that is
\* due holds it up for a moment, hence the strong fairness.
Fairness ==
    /\ \A c \in Conns : WF_fwdVars(Conn(c))
    /\ SF_fwdVars(TimePasses)

SafetySpec == Init /\ [][Next]_fwdVars

Spec == SafetySpec /\ Fairness

-----------------------------------------------------------------------------
(* Properties.                                                             *)

SessionTime == ScanTime + ForwardTime

\* The variables of Forwarding have their types, and so has the table.
TypeOK ==
    /\ ACTypeOK
    /\ blocked \subseteq IPs
    /\ pc \in [Conns -> Stages]
    /\ peer \in [Conns -> Peers \cup {None}]
    /\ left \in [Conns -> 0..(ScanTime + ForwardTime)]
    /\ edited \subseteq RuleIds

\* A session that is running belongs to a connection that is being served and
\* will end it, whoever else of its address is refused meanwhile
\* (manager.go:142-151); only a rule that was edited under a session, and not
\* reset since, may have one that nobody will end.
SessionHasConnection ==
    \A id \in RuleIds \ edited :
        status[id].activeSince # Never =>
            \E c \in Conns : pc[c] \in Serving /\ ClientIP(c) = rules[id].ip

\* However many connections an address opens and closes, the usage recorded
\* for its rule passes the daily limit by less than the longest single
\* session: the check before the session (access_control.go:236) and the
\* charge after it are far apart.  This bounds what is recorded, not the time
\* served (a refused connection ends the session of the one that is being
\* served, manager.go:147), and not what a rule is charged that was edited
\* under a session.
OverdraftBounded ==
    [][\A id \in RuleIds \ edited :
        status'[id].used > status[id].used
            => status'[id].used < rules[id].limit + SessionTime]_fwdVars

\* No rule is charged for more time than has passed since its usage was last
\* reset, up to the one session that was running then: dailyResetWorker
\* leaves ActiveSince alone (access_control.go:103-108).  A rule that was
\* edited under a session is excepted until its next reset.
NoOvercharge ==
    \A id \in RuleIds \ edited : Exists(id) =>
        status[id].used <= now - status[id].resetTime + SessionTime

\* Forward returns for every connection it was called for, whatever the
\* remote end does: the 30 s timeout (manager.go:191) bounds the only wait
\* that depends on it.
ForwardReturns ==
    \A c \in Conns : []<>(pc[c] = "idle")

\* A client whose address stays on the blocklist is eventually not served any
\* more, although a connection that passed the check before is never cut off
\* (manager.go:133), except where line 130 takes something else for its
\* address: over plain HTTP and over IPv6 the blocklist does not reach it.
BlockedIsDrained ==
    \A p \in {q \in Peers : Cut[q] = Host[q]} :
        <>[](Host[p] \in blocked) =>
            <>[](\A c \in Conns : pc[c] \in Serving => peer[c] # p)

\* A connection that is refused within the limit of its address has another
\* one of the same address beside it, which is being served: nobody is refused
\* for a session that its own past connection left open (access_control.go:235),
\* unless the rule was edited under that session.
RefusedBesideAnother ==
    [][\A c \in Conns :
        pc[c] = "start" /\ pc'[c] = "denied" =>
            \/ LimitExceeded(rulesByIP[ClientIP(c)])
            \/ rulesByIP[ClientIP(c)] \in edited
            \/ \E d \in Conns \ {c} :
                  pc[d] \in Serving /\ ClientIP(d) = ClientIP(c)]_fwdVars

\* "access denied (time limit exceeded)" (manager.go:145 and 148): a
\* connection is denied only when the rule of its address is used up.
DeniedMeansLimitExceeded ==
    [][\A c \in Conns :
        pc[c] = "start" /\ pc'[c] = "denied"
            => LimitExceeded(rulesByIP[ClientIP(c)])]_fwdVars
====
