---- MODULE AccessControl ----
(***************************************************************************)
(* The daily-limit table of internal/tunnel/access_control.go.             *)
(*                                                                         *)
(* AccessControl keeps three Go maps under one mutex: rules by rule ID,    *)
(* the ID of the rule that currently owns an IP, and the usage status by   *)
(* rule ID.  Every exported operation runs from start to end under         *)
(* ac.mu, so each is one action.  A map is a total function here: a key    *)
(* that is not in the map has the null record.                             *)
(*                                                                         *)
(* Abstracted: title, description, creation dates and LastAccess (shown    *)
(* to the user, read by no decision), and SaveRules, whose body is         *)
(* commented out and returns nil.  Times are ticks of one clock.           *)
(***************************************************************************)
EXTENDS Integers

CONSTANTS
    RuleIds,    \* rule identifiers that generateUUID or config.json may give
    IPs,        \* client addresses a rule may name
    Limits,     \* the daily limits a user enters, in ticks
    MaxTime,    \* bound on the clock
    None        \* the absent key or value

ASSUME NoneAssumption == None \notin RuleIds /\ None \notin IPs
ASSUME LimitsAssumption == Limits \subseteq Int
ASSUME MaxTimeAssumption == MaxTime \in Nat

VARIABLES
    rules,      \* ac.rules
    rulesByIP,  \* ac.rulesByIP
    status,     \* ac.status
    now         \* the wall clock

acVars == <<rules, rulesByIP, status, now>>

-----------------------------------------------------------------------------
(* Types.  ActiveSince is a pointer in the code; Never is its nil.         *)

Never == -1

Rule == [ip : IPs, master : BOOLEAN, limit : Limits]

NoRule == [ip |-> None, master |-> FALSE, limit |-> 0]

Status == [used : Nat, blocked : BOOLEAN, activeSince : Nat \cup {Never},
           resetTime : Nat]

NoStatus == [used |-> 0, blocked |-> FALSE, activeSince |-> Never,
             resetTime |-> Never]

\* What AddRule stores for a rule: nothing used, not blocked, no session.
FreshStatus == [used |-> 0, blocked |-> FALSE, activeSince |-> Never,
                resetTime |-> now]

Exists(id) == rules[id] # NoRule

-----------------------------------------------------------------------------
(* getRuleByIPLocked: the rule that owns an IP, through the index.         *)

RuleOf(ip) == IF rulesByIP[ip] = None THEN NoRule ELSE rules[rulesByIP[ip]]

Unrestricted(ip) == RuleOf(ip) = NoRule \/ RuleOf(ip).master

LimitExceeded(id) ==
    status[id].blocked \/ status[id].used >= rules[id].limit

\* Mutant: the usage is not compared with the limit.
GrantedIgnoresLimit(ip) ==
    Unrestricted(ip) \/ status[rulesByIP[ip]].activeSince = Never

\* StartSession returns true exactly when this holds.
Granted(ip) ==
    \/ Unrestricted(ip)
    \/ /\ status[rulesByIP[ip]].activeSince = Never
       /\ ~ LimitExceeded(rulesByIP[ip])

-----------------------------------------------------------------------------
(* The operations.                                                         *)

ACInit ==
    /\ rules = [id \in RuleIds |-> NoRule]
    /\ rulesByIP = [ip \in IPs |-> None]
    /\ status = [id \in RuleIds |-> NoStatus]
    /\ now = 0

AddRule(id, rule) ==
    /\ rules' = [rules EXCEPT ![id] = rule]
    /\ rulesByIP' = [rulesByIP EXCEPT ![rule.ip] = id]
    /\ status' = [status EXCEPT ![id] = FreshStatus]
    /\ now' = now

\* Mutant: the address the rule had before the update stays indexed.
UpdateRuleKeepsOldIP(id, rule) ==
    /\ Exists(id)
    /\ rules' = [rules EXCEPT ![id] = rule]
    /\ rulesByIP' = [rulesByIP EXCEPT ![rule.ip] = id]
    /\ UNCHANGED <<status, now>>

\* The status survives an update: a user who changes a limit keeps the usage.
UpdateRule(id, rule) ==
    /\ Exists(id)
    /\ rules' = [rules EXCEPT ![id] = rule]
    /\ rulesByIP' = [rulesByIP EXCEPT ![rules[id].ip] = None, ![rule.ip] = id]
    /\ UNCHANGED <<status, now>>

\* Mutant: the status of the deleted rule stays behind.
DeleteRuleKeepsStatus(id) ==
    /\ Exists(id)
    /\ rulesByIP' = [rulesByIP EXCEPT ![rules[id].ip] = None]
    /\ rules' = [rules EXCEPT ![id] = NoRule]
    /\ UNCHANGED <<status, now>>

DeleteRule(id) ==
    /\ Exists(id)
    /\ rulesByIP' = [rulesByIP EXCEPT ![rules[id].ip] = None]
    /\ rules' = [rules EXCEPT ![id] = NoRule]
    /\ status' = [status EXCEPT ![id] = NoStatus]
    /\ now' = now

ResetRule(id) ==
    /\ status[id] # NoStatus
    /\ status' = [status EXCEPT ![id] = FreshStatus]
    /\ UNCHANGED <<rules, rulesByIP, now>>

\* The body of dailyResetWorker's loop; a running session keeps ActiveSince.
DailyReset ==
    /\ status' = [id \in RuleIds |->
                    IF Exists(id) /\ ~ rules[id].master
                    THEN [status[id] EXCEPT !.used = 0, !.blocked = FALSE,
                                            !.resetTime = now]
                    ELSE status[id]]
    /\ UNCHANGED <<rules, rulesByIP, now>>

StartSession(ip) ==
    /\ status' = IF Granted(ip) /\ ~ Unrestricted(ip)
                 THEN [status EXCEPT ![rulesByIP[ip]].activeSince = now]
                 ELSE status
    /\ UNCHANGED <<rules, rulesByIP, now>>

\* Mutant: the session is charged but stays open, and is charged again.
ChargedTwice(id) ==
    [status[id] EXCEPT !.used = @ + (now - status[id].activeSince)]

\* The status after a session that runs now is charged to rule id.
Charged(id) ==
    LET total == status[id].used + (now - status[id].activeSince)
    IN [status[id] EXCEPT !.used = total,
                          !.activeSince = Never,
                          !.blocked = @ \/ total >= rules[id].limit]

EndSession(ip) ==
    /\ status' = IF Unrestricted(ip) \/ status[rulesByIP[ip]].activeSince = Never
                 THEN status
                 ELSE [status EXCEPT ![rulesByIP[ip]] = Charged(rulesByIP[ip])]
    /\ UNCHANGED <<rules, rulesByIP, now>>

Tick ==
    /\ now < MaxTime
    /\ now' = now + 1
    /\ UNCHANGED <<rules, rulesByIP, status>>

\* The rules tab: a new rule has an unused ID (a fresh UUID, or an ID from
\* config.json, where every rule has its own).
EditRules ==
    \/ \E id \in RuleIds, rule \in Rule : ~ Exists(id) /\ AddRule(id, rule)
    \/ \E id \in RuleIds, rule \in Rule : UpdateRule(id, rule)
    \/ \E id \in RuleIds : DeleteRule(id)

ACNext ==
    \/ EditRules
    \/ \E id \in RuleIds : ResetRule(id)
    \/ DailyReset
    \/ \E ip \in IPs : StartSession(ip) \/ EndSession(ip)
    \/ Tick

ACSpec == ACInit /\ [][ACNext]_acVars

-----------------------------------------------------------------------------
(* Properties.                                                             *)

\* Every variable has its type; resetTime is a time once the rule exists.
ACTypeOK ==
    /\ rules \in [RuleIds -> Rule \cup {NoRule}]
    /\ rulesByIP \in [IPs -> RuleIds \cup {None}]
    /\ status \in [RuleIds -> Status \cup {NoStatus}]
    /\ now \in 0..MaxTime

\* The index never points at a rule that was deleted or moved to another
\* address (access_control.go:36): whatever is added, updated and deleted in
\* whatever order, an IP is charged to a rule that names it.
IndexSound ==
    \A ip \in IPs : rulesByIP[ip] # None =>
        /\ Exists(rulesByIP[ip])
        /\ rules[rulesByIP[ip]].ip = ip

\* A rule has a status and a status has a rule: StartSession and EndSession
\* dereference the status without a nil check (access_control.go:235,254).
StatusForEveryRule ==
    \A id \in RuleIds : Exists(id) <=> status[id] # NoStatus

\* The time a rule is charged for, the running session included.
Bill(id) ==
    status[id].used +
        (IF status[id].activeSince = Never THEN 0 ELSE now - status[id].activeSince)

\* Between any two moments the bill of a rule grows by no more than the time
\* that passes between them, in any order of sessions, edits and resets: no
\* time is charged twice, and after a user's reset, which leaves a bill of 0,
\* none is charged from before it (access_control.go:179-189, 237, 256-258).
\* The daily reset leaves a running session its bill (access_control.go:101).
ChargedByTheClock ==
    [][\A id \in RuleIds : Bill(id)' <= Bill(id) + (now' - now)]_acVars

\* No two rules name one address.
OneRulePerIP ==
    \A a, b \in RuleIds :
        Exists(a) /\ Exists(b) /\ rules[a].ip = rules[b].ip => a = b

\* An address that a rule still names drops out of the index only when two
\* rules named it: what an update or a deletion takes away is then the entry
\* of the other one (access_control.go:152, 169).
UnindexedWasShared ==
    [][\A ip \in IPs :
         (/\ RuleOf(ip) # NoRule
          /\ RuleOf(ip)' = NoRule
          /\ \E id \in RuleIds : rules'[id] # NoRule /\ rules'[id].ip = ip)
            => \E a, b \in RuleIds :
                  /\ a # b
                  /\ Exists(a) /\ rules[a].ip = ip
                  /\ Exists(b) /\ rules[b].ip = ip]_acVars

\* "No rule means no restriction" (access_control.go:227): an address is
\* unrestricted only if no rule names it.
UnrestrictedMeansNoRule ==
    \A ip \in IPs : RuleOf(ip) = NoRule =>
        \A id \in RuleIds : Exists(id) => rules[id].ip # ip
====
