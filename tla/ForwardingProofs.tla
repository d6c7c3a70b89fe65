---- MODULE ForwardingProofs ----
(***************************************************************************)
(* Proofs about Forwarding, for every number of connections, rules and     *)
(* addresses and every timeout, and for edits at any moment: the sessions  *)
(* of a rule that was not edited under a session belong to connections     *)
(* that are being served, and what such a rule is charged is bounded.      *)
(*                                                                         *)
(* The argument: a session that runs is owned by a connection between its  *)
(* StartSession and its EndSession, and has run no longer than that        *)
(* connection has waited.  Whoever ends it early (another connection of    *)
(* the address that was denied) only makes the charge smaller.  An edit    *)
(* under a session may take the owner away; "edited" holds the rule then   *)
(* until its usage is reset.                                               *)
(***************************************************************************)
EXTENDS Forwarding, AccessControlProofs

\* The ticks a connection has waited since its session was granted, at most.
Spent(c) ==
    IF pc[c] = "scan" THEN ScanTime - left[c]
    ELSE IF pc[c] = "forward" THEN SessionTime - left[c]
    ELSE SessionTime

Owns(c, id) ==
    /\ pc[c] \in Serving
    /\ rulesByIP[ClientIP(c)] = id
    /\ now - status[id].activeSince <= Spent(c)

\* A session that runs belongs to a restricted rule that was not used up when
\* it started, and to a connection that is being served.
SessionsOwned ==
    \A id \in RuleIds \ edited : status[id].activeSince # Never =>
        /\ Exists(id)
        /\ ~ rules[id].master
        /\ status[id].used < rules[id].limit
        /\ \E c \in Conns : Owns(c, id)

\* What has been charged since the last reset, when a session that started
\* before the reset may still be running.
ChargeBounded(id) ==
    LET since == status[id].activeSince
        reset == status[id].resetTime
    IN IF since = Never
       THEN status[id].used <= now - reset + SessionTime
       ELSE IF since >= reset
       THEN status[id].used <= since - reset + SessionTime
       ELSE status[id].used = 0

ChargesBounded ==
    \A id \in RuleIds : Exists(id) =>
        /\ status[id].resetTime <= now
        /\ id \notin edited => ChargeBounded(id)

\* A connection that is being handled has an address and a live timer.
ConnsOK ==
    \A c \in Conns :
        /\ pc[c] # "idle" => peer[c] \in Peers
        /\ pc[c] = "scan" => left[c] <= ScanTime
        /\ pc[c] = "forward" => left[c] <= ForwardTime

FwdInv ==
    /\ TypeOK
    /\ TableOK
    /\ ConnsOK
    /\ SessionsOwned
    /\ ChargesBounded

USE NoneAssumption, LimitsAssumption, MaxTimeAssumption,
    ScanTimeAssumption, ForwardTimeAssumption, PeersAssumption

-----------------------------------------------------------------------------
(* What the operations of the table do to the status of a rule.            *)

LEMMA StatusFields ==
  ASSUME TableOK, NEW id \in RuleIds
  PROVE  /\ now \in Nat
         /\ status[id].used \in Nat
         /\ status[id].activeSince \in Nat \cup {Never}
         /\ status[id].activeSince <= now
         /\ Exists(id) => status[id] \in Status /\ status[id].resetTime \in Nat
         /\ Exists(id) => rules[id].limit \in Int /\ rules[id] \in Rule
<1>1. now \in Nat
  BY DEF TableOK, ACTypeOK
<1>2. status[id].used \in Nat /\ status[id].activeSince \in Nat \cup {Never}
  BY DEF TableOK, ACTypeOK, Status, NoStatus
<1>3. status[id].activeSince <= now
  BY DEF TableOK, ChargedTimeIsReal
<1>4. ASSUME Exists(id)
      PROVE  status[id] \in Status /\ status[id].resetTime \in Nat
  BY <1>4 DEF TableOK, ACTypeOK, StatusForEveryRule, Status
<1>5. ASSUME Exists(id)
      PROVE  rules[id].limit \in Int /\ rules[id] \in Rule
  BY <1>5 DEF TableOK, ACTypeOK, Exists, Rule
<1>6. QED
  BY <1>1, <1>2, <1>3, <1>4, <1>5

\* StartSession opens a session of the rule it grants, and nothing else.
LEMMA StartSessionEffect ==
  ASSUME TableOK, NEW ip \in IPs, StartSession(ip), NEW id \in RuleIds
  PROVE  \/ status'[id] = status[id]
         \/ /\ Granted(ip) /\ ~ Unrestricted(ip) /\ id = rulesByIP[ip]
            /\ Exists(id) /\ ~ rules[id].master
            /\ status[id].activeSince = Never
            /\ status[id].used < rules[id].limit
            /\ status'[id].activeSince = now
            /\ status'[id].used = status[id].used
            /\ status'[id].resetTime = status[id].resetTime
<1>1. CASE Granted(ip) /\ ~ Unrestricted(ip) /\ id = rulesByIP[ip]
  <2>1. Exists(id) /\ ~ rules[id].master
    BY <1>1 DEF Unrestricted, RuleOf, Exists, TableOK, IndexSound
  <2>2. /\ status[id].activeSince = Never
        /\ ~ (status[id].used >= rules[id].limit)
    BY <1>1 DEF Granted, LimitExceeded
  <2>3. status[id].used < rules[id].limit
    BY <2>1, <2>2, StatusFields
  <2>4. status'[id] = [status[id] EXCEPT !.activeSince = now]
    BY <1>1 DEF StartSession, TableOK, ACTypeOK
  <2>5. status[id] \in Status
    BY <2>1, StatusFields
  <2>6. /\ status'[id].activeSince = now
        /\ status'[id].used = status[id].used
        /\ status'[id].resetTime = status[id].resetTime
    BY <2>4, <2>5 DEF Status
  <2>7. QED
    BY <1>1, <2>1, <2>2, <2>3, <2>6
<1>2. CASE Granted(ip) /\ ~ Unrestricted(ip) /\ id # rulesByIP[ip]
  BY <1>2, RestrictedHasStatus DEF StartSession, TableOK, ACTypeOK
<1>3. CASE ~ (Granted(ip) /\ ~ Unrestricted(ip))
  BY <1>3 DEF StartSession
<1>4. QED
  BY <1>1, <1>2, <1>3

\* EndSession charges the session that runs for the address, and nothing else.
LEMMA EndSessionEffect ==
  ASSUME TableOK, NEW ip \in IPs, EndSession(ip), NEW id \in RuleIds
  PROVE  \/ /\ status'[id] = status[id]
            /\ Unrestricted(ip) \/ id # rulesByIP[ip] \/ status[id].activeSince = Never
         \/ /\ ~ Unrestricted(ip) /\ id = rulesByIP[ip]
            /\ status[id].activeSince # Never
            /\ status'[id].activeSince = Never
            /\ status'[id].used = status[id].used + (now - status[id].activeSince)
            /\ status'[id].resetTime = status[id].resetTime
<1>1. CASE ~ Unrestricted(ip) /\ id = rulesByIP[ip] /\ status[id].activeSince # Never
  <2>1. status[id] \in Status
    BY <1>1, RestrictedHasStatus
  <2>2. status'[id] = Charged(id)
    BY <1>1 DEF EndSession, TableOK, ACTypeOK
  <2>3. QED
    BY <1>1, <2>1, <2>2, ChargedStatus
<1>2. CASE Unrestricted(ip) \/ status[rulesByIP[ip]].activeSince = Never
  BY <1>2 DEF EndSession
<1>3. CASE ~ Unrestricted(ip) /\ id # rulesByIP[ip]
  BY <1>3, RestrictedHasStatus DEF EndSession, TableOK, ACTypeOK
<1>4. QED
  BY <1>1, <1>2, <1>3

\* A reset empties the usage; the daily one leaves a running session alone.
LEMMA ResetEffect ==
  ASSUME TableOK, DailyReset \/ (\E j \in RuleIds : ResetRule(j)), NEW id \in RuleIds
  PROVE  \/ status'[id] = status[id]
         \/ /\ status'[id].used = 0
            /\ status'[id].resetTime = now
            /\ \/ status'[id].activeSince = Never
               \/ Exists(id) /\ status'[id].activeSince = status[id].activeSince
<1>1. ASSUME DailyReset, Exists(id), ~ rules[id].master
      PROVE  /\ status'[id].used = 0
             /\ status'[id].resetTime = now
             /\ status'[id].activeSince = status[id].activeSince
  <2>1. status[id] \in Status
    BY <1>1, StatusFields
  <2>2. status'[id] = [status[id] EXCEPT !.used = 0, !.blocked = FALSE, !.resetTime = now]
    BY <1>1 DEF DailyReset
  <2>3. QED
    BY <2>1, <2>2 DEF Status
<1>2. ASSUME DailyReset, ~ (Exists(id) /\ ~ rules[id].master)
      PROVE  status'[id] = status[id]
  BY <1>2 DEF DailyReset
<1>3. ASSUME NEW j \in RuleIds, ResetRule(j), j = id
      PROVE  status'[id].used = 0 /\ status'[id].resetTime = now
                /\ status'[id].activeSince = Never
  BY <1>3 DEF ResetRule, TableOK, ACTypeOK, FreshStatus
<1>4. ASSUME NEW j \in RuleIds, ResetRule(j), j # id
      PROVE  status'[id] = status[id]
  BY <1>4 DEF ResetRule, TableOK, ACTypeOK
<1>5. QED
  BY <1>1, <1>2, <1>3, <1>4

\* An edit changes no status but that of a rule it creates or deletes.
LEMMA EditEffect ==
  ASSUME TableOK, EditRules, NEW id \in RuleIds
  PROVE  \/ status'[id] = status[id] /\ (Exists(id)' => Exists(id))
         \/ /\ status'[id].used = 0
            /\ status'[id].activeSince = Never
            /\ Exists(id)' => status'[id].resetTime = now
<1>1. ASSUME NEW j \in RuleIds, NEW rule \in Rule, AddRule(j, rule)
      PROVE  IF j = id THEN status'[id] = FreshStatus
             ELSE status'[id] = status[id] /\ rules'[id] = rules[id]
  BY <1>1 DEF AddRule, TableOK, ACTypeOK
<1>2. ASSUME NEW j \in RuleIds, NEW rule \in Rule, UpdateRule(j, rule)
      PROVE  status'[id] = status[id] /\ (Exists(id)' => Exists(id))
  BY <1>2 DEF UpdateRule, TableOK, ACTypeOK, Exists
<1>3. ASSUME NEW j \in RuleIds, DeleteRule(j)
      PROVE  IF j = id THEN status'[id] = NoStatus /\ ~ Exists(id)'
             ELSE status'[id] = status[id] /\ rules'[id] = rules[id]
  BY <1>3 DEF DeleteRule, TableOK, ACTypeOK, Exists
<1>4. QED
  BY <1>1, <1>2, <1>3 DEF EditRules, FreshStatus, NoStatus, Exists

-----------------------------------------------------------------------------
(* How the session invariants survive a step.                              *)

LEMMA SpentInt ==
  ASSUME TypeOK, NEW c \in Conns
  PROVE  Spent(c) \in Int /\ SessionTime \in Nat /\ left[c] \in Nat
<1>1. left[c] \in Nat
  BY DEF TypeOK
<1>2. QED
  BY <1>1 DEF Spent, SessionTime

\* A connection that is being handled has an address.
LEMMA ClientIPOK ==
  ASSUME ConnsOK, NEW c \in Conns, pc[c] # "idle"
  PROVE  ClientIP(c) \in IPs
BY DEF ConnsOK, ClientIP

\* A step that only moves connections keeps the owners if it ends no service
\* and shortens nobody's time.
LEMMA OwnersKept ==
  ASSUME SessionsOwned, UNCHANGED <<acVars, edited>>,
         \A c \in Conns : pc[c] \in Serving =>
            pc'[c] \in Serving /\ peer'[c] = peer[c] /\ Spent(c) <= Spent(c)',
         \A c \in Conns : Spent(c) \in Int /\ Spent(c)' \in Int,
         TableOK
  PROVE  SessionsOwned'
<1> SUFFICES ASSUME NEW id \in RuleIds \ edited, status[id].activeSince # Never
             PROVE  /\ Exists(id)' /\ ~ rules'[id].master
                    /\ status'[id].used < rules'[id].limit
                    /\ \E c \in Conns : Owns(c, id)'
  BY DEF SessionsOwned, acVars
<1>1. PICK c \in Conns : Owns(c, id)
  BY DEF SessionsOwned
<1>2. now - status[id].activeSince \in Int
  BY StatusFields DEF Never
<1>3. Owns(c, id)'
  BY <1>1, <1>2 DEF Owns, ClientIP, acVars
<1>4. QED
  BY <1>3 DEF SessionsOwned, acVars, Exists

LEMMA ChargesKept ==
  ASSUME ChargesBounded, UNCHANGED <<acVars, edited>>
  PROVE  ChargesBounded'
  BY DEF ChargesBounded, ChargeBounded, acVars, Exists

\* A running session has run for less than the longest service.
LEMMA SessionIsShort ==
  ASSUME FwdInv, NEW id \in RuleIds \ edited, status[id].activeSince # Never
  PROVE  now - status[id].activeSince <= SessionTime
<1>1. PICK d \in Conns : Owns(d, id)
  BY DEF FwdInv, SessionsOwned
<1>2. Spent(d) <= SessionTime
  <2>1. left[d] \in Nat
    BY DEF FwdInv, TypeOK
  <2>2. QED
    BY <2>1 DEF Spent, SessionTime
<1>3. Spent(d) \in Int /\ SessionTime \in Int
  BY SpentInt DEF FwdInv
<1>4. now - status[id].activeSince \in Int
  BY StatusFields DEF FwdInv, Never
<1>5. QED
  BY <1>1, <1>2, <1>3, <1>4 DEF Owns

\* EndSession on return or after a denial: the session of the address ends,
\* if one runs; every other session keeps its owner.
LEMMA EndSessionInv ==
  ASSUME FwdInv, NEW c \in Conns, pc[c] # "idle", EndSession(ClientIP(c)), Return(c),
         edited' = edited
  PROVE  SessionsOwned' /\ ChargesBounded'
<1>1. ClientIP(c) \in IPs
  BY ClientIPOK DEF FwdInv
<1>2. TableOK
  BY DEF FwdInv
<1>3. UNCHANGED <<rules, rulesByIP, now>>
  BY DEF EndSession
<1>4. SessionsOwned'
  <2> SUFFICES ASSUME NEW id \in RuleIds \ edited', status'[id].activeSince # Never
               PROVE  /\ Exists(id)' /\ ~ rules'[id].master
                      /\ status'[id].used < rules'[id].limit
                      /\ \E d \in Conns : Owns(d, id)'
    BY DEF SessionsOwned
  <2>1. /\ status'[id] = status[id]
        /\ Unrestricted(ClientIP(c)) \/ id # rulesByIP[ClientIP(c)]
    BY <1>1, <1>2, EndSessionEffect
  <2>2. Exists(id) /\ ~ rules[id].master /\ status[id].used < rules[id].limit
    BY <2>1 DEF FwdInv, SessionsOwned
  <2>3. PICK d \in Conns : Owns(d, id)
    BY <2>1 DEF FwdInv, SessionsOwned
  <2>4. d # c
    <3>1. SUFFICES ASSUME d = c PROVE FALSE
      OBVIOUS
    <3>2. rulesByIP[ClientIP(c)] = id
      BY <2>3, <3>1 DEF Owns
    <3>3. ~ Unrestricted(ClientIP(c))
      BY <2>2, <3>2 DEF Unrestricted, RuleOf, Exists
    <3>4. QED
      BY <2>1, <3>2, <3>3
  <2>5. pc'[d] = pc[d] /\ peer'[d] = peer[d] /\ left'[d] = left[d]
    BY <2>4 DEF Return, Goto, FwdInv, TypeOK
  <2>6. Owns(d, id)'
    BY <1>3, <2>1, <2>3, <2>5 DEF Owns, ClientIP, Spent
  <2>7. QED
    BY <1>3, <2>1, <2>2, <2>6 DEF Exists
<1>5. ChargesBounded'
  <2> SUFFICES ASSUME NEW id \in RuleIds, Exists(id)
               PROVE  /\ status'[id].resetTime <= now
                      /\ id \notin edited => ChargeBounded(id)'
    BY <1>3 DEF ChargesBounded, Exists
  <2> status[id].resetTime <= now
    BY DEF FwdInv, ChargesBounded
  <2>1. CASE status'[id] = status[id]
    BY <1>3, <2>1 DEF FwdInv, ChargesBounded, ChargeBounded
  <2>2. CASE /\ status[id].activeSince # Never
             /\ status'[id].activeSince = Never
             /\ status'[id].used = status[id].used + (now - status[id].activeSince)
             /\ status'[id].resetTime = status[id].resetTime
    <3>1. /\ now \in Nat /\ status[id].used \in Nat
          /\ status[id].activeSince \in Nat /\ status[id].resetTime \in Nat
      BY <1>2, <2>2, StatusFields
    <3>2. ASSUME id \notin edited PROVE ChargeBounded(id)'
      <4>1. now - status[id].activeSince <= SessionTime
        BY <2>2, <3>2, SessionIsShort
      <4>2. ChargeBounded(id) /\ SessionTime \in Nat
        BY <3>2 DEF FwdInv, ChargesBounded, SessionTime
      <4>3. QED
        BY <1>3, <2>2, <3>1, <4>1, <4>2 DEF ChargeBounded
    <3>3. QED
      BY <2>2, <3>2
  <2>3. QED
    BY <1>1, <1>2, <2>1, <2>2, EndSessionEffect
<1>6. QED
  BY <1>4, <1>5

-----------------------------------------------------------------------------
(* Every step preserves the invariant.                                     *)

\* The steps of a connection that leave the table and the sessions alone.
LEMMA ConnOnlyInv ==
  ASSUME FwdInv, UNCHANGED <<acVars, edited>>, TypeOK', ConnsOK',
         \A c \in Conns : pc[c] \in Serving =>
            pc'[c] \in Serving /\ peer'[c] = peer[c] /\ Spent(c) <= Spent(c)'
  PROVE  FwdInv'
<1>1. TableOK'
  BY StatusStepTable DEF FwdInv, TableOK, ACTypeOK, ChargedTimeIsReal, Bill, acVars
<1>2. \A c \in Conns : Spent(c) \in Int
  BY SpentInt DEF FwdInv
<1>3. ASSUME NEW c \in Conns PROVE Spent(c)' \in Int
  <2>1. left'[c] \in Nat
    BY DEF TypeOK
  <2>2. QED
    BY <2>1 DEF Spent, SessionTime
<1>4. SessionsOwned'
  BY <1>2, <1>3, OwnersKept DEF FwdInv
<1>5. ChargesBounded'
  BY ChargesKept DEF FwdInv
<1>6. QED
  BY <1>1, <1>4, <1>5 DEF FwdInv

LEMMA AcceptInv ==
  ASSUME FwdInv, NEW c \in Conns, NEW p \in Peers, Accept(c, p)
  PROVE  FwdInv'
<1>1. /\ pc \in [Conns -> Stages] /\ peer \in [Conns -> Peers \cup {None}]
      /\ pc' = [pc EXCEPT ![c] = "check"] /\ peer' = [peer EXCEPT ![c] = p]
      /\ UNCHANGED <<acVars, blocked, left, edited>>
  BY DEF FwdInv, TypeOK, Accept, Goto
<1>2. TypeOK'
  BY <1>1 DEF FwdInv, TypeOK, ACTypeOK, acVars, Stages
<1>3. ConnsOK'
  BY <1>1 DEF FwdInv, ConnsOK
<1>4. ASSUME NEW d \in Conns, pc[d] \in Serving
      PROVE  pc'[d] \in Serving /\ peer'[d] = peer[d] /\ Spent(d) <= Spent(d)'
  <2>1. d # c
    BY <1>4 DEF Accept, Serving
  <2>2. Spent(d) \in Int
    BY SpentInt DEF FwdInv
  <2>3. pc'[d] = pc[d] /\ peer'[d] = peer[d] /\ left'[d] = left[d]
    BY <1>1, <2>1
  <2>4. QED
    BY <1>4, <2>2, <2>3 DEF Spent
<1>5. QED
  BY <1>1, <1>2, <1>3, <1>4, ConnOnlyInv

LEMMA CheckBlocklistInv ==
  ASSUME FwdInv, NEW c \in Conns, CheckBlocklist(c)
  PROVE  FwdInv'
<1>1. /\ pc \in [Conns -> Stages] /\ peer \in [Conns -> Peers \cup {None}]
      /\ left \in [Conns -> 0..(ScanTime + ForwardTime)]
      /\ UNCHANGED <<acVars, blocked, edited>>
  BY DEF FwdInv, TypeOK, CheckBlocklist
<1>2. \/ /\ pc' = [pc EXCEPT ![c] = "idle"] /\ peer' = [peer EXCEPT ![c] = None]
         /\ left' = [left EXCEPT ![c] = 0]
      \/ pc' = [pc EXCEPT ![c] = "start"] /\ UNCHANGED <<peer, left>>
  BY DEF CheckBlocklist, Goto, Return
<1>3. TypeOK'
  BY <1>1, <1>2 DEF FwdInv, TypeOK, ACTypeOK, acVars, Stages
<1>4. ConnsOK'
  BY <1>1, <1>2 DEF FwdInv, ConnsOK, CheckBlocklist
<1>5. ASSUME NEW d \in Conns, pc[d] \in Serving
      PROVE  pc'[d] \in Serving /\ peer'[d] = peer[d] /\ Spent(d) <= Spent(d)'
  <2>1. d # c
    BY <1>5 DEF CheckBlocklist, Serving
  <2>2. Spent(d) \in Int
    BY SpentInt DEF FwdInv
  <2>3. pc'[d] = pc[d] /\ peer'[d] = peer[d] /\ left'[d] = left[d]
    BY <1>1, <1>2, <2>1
  <2>4. QED
    BY <1>5, <2>2, <2>3 DEF Spent
<1>6. QED
  BY <1>1, <1>3, <1>4, <1>5, ConnOnlyInv

\* From the scan or the forward a connection goes on without a shorter claim
\* to the time it has been served.
LEMMA ServingStepInv ==
  ASSUME FwdInv, NEW c \in Conns,
         NoPool(c) \/ SelectPool(c) \/ ForwardDone(c) \/ ForwardTimesOut(c)
  PROVE  FwdInv'
<1>1. /\ pc \in [Conns -> Stages]
      /\ left \in [Conns -> 0..(ScanTime + ForwardTime)]
      /\ UNCHANGED <<acVars, blocked, peer, edited>>
  BY DEF FwdInv, TypeOK, NoPool, SelectPool, ForwardDone, ForwardTimesOut
<1>2. \/ /\ pc[c] \in {"scan", "forward"}
         /\ pc' = [pc EXCEPT ![c] = "end"] /\ left' = left
      \/ /\ pc[c] = "scan"
         /\ pc' = [pc EXCEPT ![c] = "forward"] /\ left' = [left EXCEPT ![c] = ForwardTime]
  BY DEF NoPool, SelectPool, ForwardDone, ForwardTimesOut, Goto
<1>3. TypeOK'
  <2>1. pc' \in [Conns -> Stages]
    BY <1>1, <1>2 DEF Stages
  <2>2. left' \in [Conns -> 0..(ScanTime + ForwardTime)]
    BY <1>1, <1>2
  <2>3. QED
    BY <1>1, <2>1, <2>2 DEF FwdInv, TypeOK, ACTypeOK, acVars
<1>4. ConnsOK'
  BY <1>1, <1>2 DEF FwdInv, ConnsOK
<1>5. ASSUME NEW d \in Conns, pc[d] \in Serving
      PROVE  pc'[d] \in Serving /\ peer'[d] = peer[d] /\ Spent(d) <= Spent(d)'
  <2>1. pc'[d] \in Serving /\ peer'[d] = peer[d]
    BY <1>1, <1>2, <1>5 DEF Serving
  <2>2. CASE d # c
    <3>1. Spent(d) \in Int
      BY SpentInt DEF FwdInv
    <3>2. pc'[d] = pc[d] /\ left'[d] = left[d]
      BY <1>1, <1>2, <2>2
    <3>3. QED
      BY <2>1, <3>1, <3>2 DEF Spent
  <2>3. CASE d = c
    <3>1. left[c] \in Nat
      BY <1>1
    <3>2. \/ pc[c] \in {"scan", "forward"} /\ pc'[c] = "end"
          \/ pc[c] = "scan" /\ pc'[c] = "forward" /\ left'[c] = ForwardTime
      BY <1>1, <1>2
    <3>3. Spent(c) <= Spent(c)'
      BY <3>1, <3>2 DEF Spent, SessionTime
    <3>4. QED
      BY <2>1, <2>3, <3>3
  <2>4. QED
    BY <2>2, <2>3
<1>6. QED
  BY <1>1, <1>3, <1>4, <1>5, ConnOnlyInv

LEMMA BlocklistInv ==
  ASSUME FwdInv, NEW ip \in Addresses, BlockIP(ip) \/ UnblockIP(ip)
  PROVE  FwdInv'
<1>1. UNCHANGED <<acVars, pc, peer, left, edited>> /\ (blocked \subseteq IPs)'
  BY DEF FwdInv, TypeOK, BlockIP, UnblockIP, connVars, Addresses
<1>2. TypeOK' /\ ConnsOK'
  BY <1>1 DEF FwdInv, TypeOK, ACTypeOK, acVars, ConnsOK
<1>3. \A c \in Conns : Spent(c) \in Int /\ Spent(c)' = Spent(c)
  BY <1>1, SpentInt DEF FwdInv, Spent
<1>4. QED
  BY <1>1, <1>2, <1>3, ConnOnlyInv

\* The other connections of an address do not notice that one begins.
LEMMA BeginSessionInv ==
  ASSUME FwdInv, NEW c \in Conns, BeginSession(c)
  PROVE  FwdInv'
<1>1. /\ pc \in [Conns -> Stages]
      /\ left \in [Conns -> 0..(ScanTime + ForwardTime)]
      /\ pc[c] = "start" /\ ClientIP(c) \in IPs
      /\ UNCHANGED <<rules, rulesByIP, now, blocked, peer, edited>>
  BY ClientIPOK DEF FwdInv, TypeOK, BeginSession, StartSession
<1>2. TableOK'
  BY <1>1, StartSessionTable DEF FwdInv, BeginSession
<1>3. \/ /\ Granted(ClientIP(c)) /\ pc' = [pc EXCEPT ![c] = "scan"]
         /\ left' = [left EXCEPT ![c] = ScanTime]
      \/ /\ ~ Granted(ClientIP(c)) /\ pc' = [pc EXCEPT ![c] = "denied"] /\ left' = left
  BY DEF BeginSession, Goto
<1>4. TypeOK'
  <2>1. pc' \in [Conns -> Stages]
    BY <1>1, <1>3 DEF Stages
  <2>2. left' \in [Conns -> 0..(ScanTime + ForwardTime)]
    BY <1>1, <1>3
  <2>3. QED
    BY <1>1, <1>2, <2>1, <2>2 DEF FwdInv, TypeOK, TableOK
<1>5. ConnsOK'
  BY <1>1, <1>3 DEF FwdInv, ConnsOK
<1>6. SessionsOwned'
  <2> SUFFICES ASSUME NEW id \in RuleIds \ edited', status'[id].activeSince # Never
               PROVE  /\ Exists(id)' /\ ~ rules'[id].master
                      /\ status'[id].used < rules'[id].limit
                      /\ \E d \in Conns : Owns(d, id)'
    BY DEF SessionsOwned
  <2>1. CASE status'[id] = status[id]
    <3>1. PICK d \in Conns : Owns(d, id)
      BY <1>1, <2>1 DEF FwdInv, SessionsOwned
    <3>2. d # c
      BY <1>1, <3>1 DEF Owns, Serving
    <3>3. pc'[d] = pc[d] /\ left'[d] = left[d] /\ peer'[d] = peer[d]
      BY <1>1, <1>3, <3>2
    <3>4. Owns(d, id)'
      BY <1>1, <2>1, <3>1, <3>3 DEF Owns, ClientIP, Spent
    <3>5. QED
      BY <1>1, <2>1, <3>4 DEF FwdInv, SessionsOwned, Exists
  <2>2. CASE /\ Granted(ClientIP(c)) /\ id = rulesByIP[ClientIP(c)]
             /\ Exists(id) /\ ~ rules[id].master
             /\ status[id].used < rules[id].limit
             /\ status'[id].activeSince = now
             /\ status'[id].used = status[id].used
    <3>1. pc'[c] = "scan" /\ left'[c] = ScanTime
      BY <1>1, <1>3, <2>2
    <3>2. now \in Nat
      BY StatusFields DEF FwdInv
    <3>3. now - now <= ScanTime - ScanTime
      BY <3>2
    <3>4. Owns(c, id)'
      BY <1>1, <2>2, <3>1, <3>3 DEF Owns, ClientIP, Spent, Serving
    <3>5. QED
      BY <1>1, <2>2, <3>4 DEF Exists
  <2>3. QED
    BY <1>1, <2>1, <2>2, StartSessionEffect DEF FwdInv, BeginSession
<1>7. ChargesBounded'
  <2> SUFFICES ASSUME NEW id \in RuleIds, Exists(id)
               PROVE  /\ status'[id].resetTime <= now
                      /\ id \notin edited => ChargeBounded(id)'
    BY <1>1 DEF ChargesBounded, Exists
  <2>1. /\ status[id].resetTime <= now
        /\ id \notin edited => ChargeBounded(id)
    BY DEF FwdInv, ChargesBounded
  <2>2. CASE status'[id] = status[id]
    BY <1>1, <2>1, <2>2 DEF ChargeBounded
  <2>3. CASE /\ status[id].activeSince = Never
             /\ status'[id].activeSince = now
             /\ status'[id].used = status[id].used
             /\ status'[id].resetTime = status[id].resetTime
    BY <1>1, <2>1, <2>3 DEF ChargeBounded
  <2>4. QED
    BY <1>1, <2>2, <2>3, StartSessionEffect DEF FwdInv, BeginSession
<1>8. QED
  BY <1>2, <1>4, <1>5, <1>6, <1>7 DEF FwdInv

LEMMA EndInv ==
  ASSUME FwdInv, NEW c \in Conns, EndAfterDenial(c) \/ EndOnReturn(c)
  PROVE  FwdInv'
<1>1. /\ pc[c] # "idle" /\ ClientIP(c) \in IPs
      /\ EndSession(ClientIP(c)) /\ Return(c) /\ UNCHANGED <<blocked, edited>>
  BY ClientIPOK DEF FwdInv, EndAfterDenial, EndOnReturn
<1>2. TableOK'
  BY <1>1, EndSessionTable DEF FwdInv
<1>3. TypeOK'
  <2>1. pc' \in [Conns -> Stages] /\ peer' \in [Conns -> Peers \cup {None}]
    BY <1>1 DEF Return, Goto, FwdInv, TypeOK, Stages
  <2>2. left' \in [Conns -> 0..(ScanTime + ForwardTime)]
    BY <1>1 DEF Return, FwdInv, TypeOK
  <2>3. QED
    BY <1>1, <1>2, <2>1, <2>2 DEF FwdInv, TypeOK, TableOK
<1>4. ConnsOK'
  BY <1>1 DEF Return, Goto, FwdInv, TypeOK, ConnsOK
<1>5. QED
  BY <1>1, <1>2, <1>3, <1>4, EndSessionInv DEF FwdInv

\* An edit leaves alone the sessions and the charges of the rules that it does
\* not put into "edited"; those it takes out have nothing left to bound.
LEMMA EditRulesTabInv ==
  ASSUME FwdInv, EditRulesTab
  PROVE  FwdInv'
<1>1. /\ EditRules /\ UNCHANGED <<blocked, pc, peer, left>>
      /\ edited' = {id \in RuleIds : ~ Settled(id) /\ (id \in edited \/ Touched(id))}
  BY DEF EditRulesTab, connVars
<1>2. TableOK'
  BY <1>1, EditRulesTable DEF FwdInv
<1>3. TypeOK' /\ ConnsOK'
  BY <1>1, <1>2 DEF FwdInv, TypeOK, TableOK, ConnsOK
<1>4. now' = now /\ now \in Nat
  BY <1>1, StatusFields DEF FwdInv, TypeOK, ACTypeOK, EditRules, AddRule, UpdateRule, DeleteRule
<1>5. SessionsOwned'
  <2> SUFFICES ASSUME NEW id \in RuleIds \ edited', status'[id].activeSince # Never
               PROVE  /\ Exists(id)' /\ ~ rules'[id].master
                      /\ status'[id].used < rules'[id].limit
                      /\ \E c \in Conns : Owns(c, id)'
    BY DEF SessionsOwned
  <2>1. status'[id] = status[id]
    BY <1>1, EditEffect DEF FwdInv
  <2>2. id \notin edited /\ ~ Touched(id)
    BY <1>1 DEF Settled
  <2>3. PICK c \in Conns : Owns(c, id)
    BY <2>1, <2>2 DEF FwdInv, SessionsOwned
  <2>4. rules'[id] = rules[id] /\ rulesByIP'[rules[id].ip] = rulesByIP[rules[id].ip]
    BY <2>1, <2>2 DEF Touched
  <2>5. ClientIP(c) \in IPs
    BY <2>3, ClientIPOK DEF FwdInv, Owns, Serving
  <2>6. rules[id].ip = ClientIP(c)
    BY <2>3, <2>5 DEF FwdInv, TableOK, IndexSound, Owns
  <2>7. ClientIP(c)' = ClientIP(c) /\ Spent(c)' = Spent(c)
    BY <1>1 DEF ClientIP, Spent
  <2>8. Owns(c, id)'
    BY <1>1, <1>4, <2>1, <2>3, <2>4, <2>6, <2>7 DEF Owns
  <2>9. QED
    BY <2>1, <2>2, <2>4, <2>8 DEF FwdInv, SessionsOwned, Exists
<1>6. ChargesBounded'
  <2> SUFFICES ASSUME NEW id \in RuleIds, Exists(id)'
               PROVE  /\ status'[id].resetTime <= now
                      /\ id \notin edited' => ChargeBounded(id)'
    BY <1>4 DEF ChargesBounded
  <2>1. CASE status'[id] = status[id] /\ Exists(id)
    <3>1. /\ status[id].resetTime <= now
          /\ id \notin edited => ChargeBounded(id)
      BY <2>1 DEF FwdInv, ChargesBounded
    <3>2. CASE id \notin edited
      BY <1>4, <2>1, <3>1, <3>2 DEF ChargeBounded
    <3>3. CASE id \in edited /\ Settled(id)
      <4>1. SessionTime \in Nat /\ status[id].resetTime \in Nat
        BY <2>1, StatusFields DEF FwdInv, SessionTime
      <4>2. QED
        BY <1>4, <2>1, <3>1, <3>3, <4>1 DEF ChargeBounded, Settled
    <3>4. QED
      BY <1>1, <2>1, <3>1, <3>2, <3>3
  <2>2. CASE /\ status'[id].used = 0
             /\ status'[id].activeSince = Never
             /\ status'[id].resetTime = now
    <3>1. SessionTime \in Nat
      BY DEF SessionTime
    <3>2. QED
      BY <1>4, <2>2, <3>1 DEF ChargeBounded
  <2>3. QED
    BY <1>1, <2>1, <2>2, EditEffect DEF FwdInv
<1>7. QED
  BY <1>2, <1>3, <1>5, <1>6 DEF FwdInv

LEMMA ResetUsageInv ==
  ASSUME FwdInv, ResetUsage
  PROVE  FwdInv'
<1>1. /\ DailyReset \/ \E j \in RuleIds : ResetRule(j)
      /\ UNCHANGED <<rules, rulesByIP, now, blocked, pc, peer, left>>
      /\ edited' = {id \in edited : ~ Settled(id)}
  BY DEF ResetUsage, DailyReset, ResetRule, connVars
<1>2. TableOK'
  BY <1>1, DailyResetTable, ResetRuleTable DEF FwdInv
<1>3. TypeOK' /\ ConnsOK'
  BY <1>1, <1>2 DEF FwdInv, TypeOK, TableOK, ConnsOK
<1>4. SessionsOwned'
  <2> SUFFICES ASSUME NEW id \in RuleIds \ edited', status'[id].activeSince # Never
               PROVE  /\ Exists(id)' /\ ~ rules'[id].master
                      /\ status'[id].used < rules'[id].limit
                      /\ \E d \in Conns : Owns(d, id)'
    BY DEF SessionsOwned
  <2>1. status'[id].activeSince = status[id].activeSince
        /\ (status'[id].used = status[id].used \/ status'[id].used = 0)
    BY <1>1, ResetEffect DEF FwdInv
  <2> id \notin edited
    BY <1>1 DEF Settled
  <2>2. /\ Exists(id) /\ ~ rules[id].master /\ status[id].used < rules[id].limit
        /\ \E d \in Conns : Owns(d, id)
    BY <2>1 DEF FwdInv, SessionsOwned
  <2>3. status[id].used \in Nat /\ rules[id].limit \in Int
    BY <2>2, StatusFields DEF FwdInv
  <2>4. status'[id].used < rules[id].limit
    BY <2>1, <2>2, <2>3
  <2>5. \E d \in Conns : Owns(d, id)'
    BY <1>1, <2>1, <2>2 DEF Owns, ClientIP, Spent
  <2>6. QED
    BY <1>1, <2>2, <2>4, <2>5 DEF Exists
<1>5. ChargesBounded'
  <2> SUFFICES ASSUME NEW id \in RuleIds, Exists(id)
               PROVE  /\ status'[id].resetTime <= now
                      /\ id \notin edited' => ChargeBounded(id)'
    BY <1>1 DEF ChargesBounded, Exists
  <2>1. /\ status[id].resetTime <= now
        /\ id \notin edited => ChargeBounded(id)
    BY DEF FwdInv, ChargesBounded
  <2>2. /\ now \in Nat /\ SessionTime \in Nat
        /\ status[id].resetTime \in Nat
        /\ status[id].activeSince \in Nat \cup {Never}
    BY StatusFields DEF FwdInv, SessionTime
  <2>3. CASE status'[id] = status[id] /\ id \notin edited
    BY <1>1, <2>1, <2>3 DEF ChargeBounded
  <2>4. CASE status'[id] = status[id] /\ id \in edited
    BY <1>1, <2>1, <2>2, <2>4 DEF ChargeBounded, Settled
  <2>5. CASE /\ status'[id].used = 0
             /\ status'[id].resetTime = now
             /\ \/ status'[id].activeSince = Never
                \/ status'[id].activeSince = status[id].activeSince
    BY <1>1, <2>2, <2>5 DEF ChargeBounded, Never
  <2>6. QED
    BY <1>1, <2>3, <2>4, <2>5, ResetEffect DEF FwdInv
<1>6. QED
  BY <1>2, <1>3, <1>4, <1>5 DEF FwdInv

\* When the clock advances, every connection that is served has waited a tick.
LEMMA TimePassesInv ==
  ASSUME FwdInv, TimePasses
  PROVE  FwdInv'
<1>1. /\ UNCHANGED <<rules, rulesByIP, status, blocked, pc, peer, edited>>
      /\ now \in Nat /\ MaxTime \in Nat
      /\ now' = now \/ (now' = now + 1 /\ now < MaxTime)
      /\ now <= MaxTime
  BY DEF TimePasses, FwdInv, TypeOK, ACTypeOK
<1>2. TableOK'
  BY <1>1, TimeTable DEF FwdInv
<1>3. ASSUME NEW c \in Conns
      PROVE  /\ left[c] \in 0..(ScanTime + ForwardTime)
             /\ left'[c] \in 0..(ScanTime + ForwardTime)
             /\ pc[c] \in {"scan", "forward"} => left'[c] = left[c] - 1
             /\ pc[c] # "end"
  <2>1. left[c] \in 0..(ScanTime + ForwardTime)
    BY DEF FwdInv, TypeOK
  <2>2. left'[c] = IF pc[c] \in {"scan", "forward"} THEN left[c] - 1 ELSE left[c]
    BY DEF TimePasses, Waiting
  <2>3. pc[c] # "end" /\ ~ (pc[c] \in {"scan", "forward"} /\ left[c] = 0)
    BY DEF TimePasses, Due
  <2>4. QED
    BY <2>1, <2>2, <2>3
<1>4. TypeOK'
  <2>1. left' \in [Conns -> 0..(ScanTime + ForwardTime)]
    BY <1>3 DEF TimePasses
  <2>2. QED
    BY <1>1, <1>2, <2>1 DEF FwdInv, TypeOK, TableOK
<1>5. ConnsOK'
  BY <1>1, <1>3 DEF FwdInv, ConnsOK
<1>6. SessionsOwned'
  <2> SUFFICES ASSUME NEW id \in RuleIds \ edited, status[id].activeSince # Never
               PROVE  /\ Exists(id)' /\ ~ rules'[id].master
                      /\ status'[id].used < rules'[id].limit
                      /\ \E d \in Conns : Owns(d, id)'
    BY <1>1 DEF SessionsOwned
  <2>1. PICK d \in Conns : Owns(d, id)
    BY DEF FwdInv, SessionsOwned
  <2>2. now - status[id].activeSince <= Spent(d) /\ status[id].activeSince \in Nat
    BY <2>1, StatusFields DEF FwdInv, Owns
  <2>3. pc[d] \in {"scan", "forward"}
    BY <1>3, <2>1 DEF Owns, Serving
  <2>4. Spent(d) \in Int /\ Spent(d)' = Spent(d) + 1
    BY <1>1, <1>3, <2>3 DEF Spent, SessionTime
  <2>5. now' - status[id].activeSince <= Spent(d)'
    BY <1>1, <2>2, <2>4
  <2>6. Owns(d, id)'
    BY <1>1, <2>1, <2>5 DEF Owns, ClientIP
  <2>7. QED
    BY <1>1, <2>6 DEF FwdInv, SessionsOwned, Exists
<1>7. ChargesBounded'
  <2> SUFFICES ASSUME NEW id \in RuleIds, Exists(id)
               PROVE  /\ status[id].resetTime <= now'
                      /\ id \notin edited => ChargeBounded(id)'
    BY <1>1 DEF ChargesBounded, Exists
  <2>1. /\ status[id].resetTime <= now
        /\ id \notin edited => ChargeBounded(id)
    BY DEF FwdInv, ChargesBounded
  <2>2. /\ status[id].used \in Nat /\ status[id].resetTime \in Nat
        /\ status[id].activeSince \in Nat \cup {Never}
        /\ SessionTime \in Nat
    BY StatusFields DEF FwdInv, SessionTime
  <2>3. QED
    BY <1>1, <2>1, <2>2 DEF ChargeBounded, Never
<1>8. QED
  BY <1>2, <1>4, <1>5, <1>6, <1>7 DEF FwdInv

-----------------------------------------------------------------------------
(* The theorems.                                                           *)

LEMMA FwdInit == Init => FwdInv
<1> SUFFICES ASSUME Init PROVE FwdInv
  OBVIOUS
<1>1. TableOK
  BY InitTable DEF Init
<1>2. TypeOK
  BY <1>1 DEF Init, TypeOK, TableOK, Stages
<1>3. ConnsOK
  BY DEF Init, ConnsOK
<1>4. SessionsOwned /\ ChargesBounded
  <2>1. \A id \in RuleIds : status[id].activeSince = Never /\ ~ Exists(id)
    BY DEF Init, ACInit, NoStatus, Exists
  <2>2. QED
    BY <2>1 DEF SessionsOwned, ChargesBounded
<1>5. QED
  BY <1>1, <1>2, <1>3, <1>4 DEF FwdInv

LEMMA FwdStep ==
  ASSUME FwdInv, [Next]_fwdVars
  PROVE  FwdInv'
<1>1. ASSUME NEW c \in Conns, Conn(c) \/ ForwardDone(c) \/ \E p \in Peers : Accept(c, p)
      PROVE  FwdInv'
  <2>1. CASE \E p \in Peers : Accept(c, p)
    BY <2>1, AcceptInv
  <2>2. CASE CheckBlocklist(c)
    BY <2>2, CheckBlocklistInv
  <2>3. CASE BeginSession(c)
    BY <2>3, BeginSessionInv
  <2>4. CASE NoPool(c) \/ SelectPool(c) \/ ForwardDone(c) \/ ForwardTimesOut(c)
    BY <2>4, ServingStepInv
  <2>5. CASE EndAfterDenial(c) \/ EndOnReturn(c)
    BY <2>5, EndInv
  <2>6. QED
    BY <1>1, <2>1, <2>2, <2>3, <2>4, <2>5 DEF Conn
<1>2. CASE \E ip \in Addresses : BlockIP(ip) \/ UnblockIP(ip)
  BY <1>2, BlocklistInv
<1>3. CASE EditRulesTab
  BY <1>3, EditRulesTabInv
<1>4. CASE ResetUsage
  BY <1>4, ResetUsageInv
<1>5. CASE TimePasses
  BY <1>5, TimePassesInv
<1>6. CASE UNCHANGED fwdVars
  <2>1. UNCHANGED <<acVars, blocked, pc, peer, left, edited>>
    BY <1>6 DEF fwdVars, acVars
  <2>2. TypeOK' /\ ConnsOK'
    BY <2>1 DEF FwdInv, TypeOK, ACTypeOK, acVars, ConnsOK
  <2>3. \A c \in Conns : Spent(c) \in Int /\ Spent(c)' = Spent(c)
    BY <2>1, SpentInt DEF FwdInv, Spent
  <2>4. QED
    BY <2>1, <2>2, <2>3, ConnOnlyInv
<1>7. QED
  BY <1>1, <1>2, <1>3, <1>4, <1>5, <1>6 DEF Next

\* The inductive invariant; rules are edited at any moment.
THEOREM ForwardInvariance ==
  SafetySpec => []FwdInv
<1>1. FwdInv /\ [Next]_fwdVars => FwdInv'
  BY FwdStep
<1>2. QED
  BY <1>1, FwdInit, PTL DEF SafetySpec

\* The variables of Forwarding and of the table keep their types.
THEOREM ForwardTypeCorrect ==
  SafetySpec => []TypeOK
<1>1. FwdInv => TypeOK
  BY DEF FwdInv
<1>2. QED
  BY <1>1, ForwardInvariance, PTL

\* A session that runs has a connection that will end it (manager.go:142-151),
\* unless its rule was edited under a session.
THEOREM SessionsEnd == SafetySpec => []SessionHasConnection
<1>1. FwdInv => SessionHasConnection
  <2> SUFFICES ASSUME FwdInv, NEW id \in RuleIds \ edited,
                      status[id].activeSince # Never
               PROVE  \E c \in Conns : pc[c] \in Serving /\ ClientIP(c) = rules[id].ip
    BY DEF SessionHasConnection
  <2>1. PICK c \in Conns : Owns(c, id)
    BY DEF FwdInv, SessionsOwned
  <2>2. ClientIP(c) \in IPs
    BY <2>1, ClientIPOK DEF FwdInv, Owns, Serving
  <2>3. QED
    BY <2>1, <2>2 DEF FwdInv, TableOK, IndexSound, Owns
<1>2. QED
  BY <1>1, ForwardInvariance, PTL

\* The usage recorded for a rule never exceeds the time since its last reset by
\* more than one session, unless the rule was edited under a session.
THEOREM ChargesBoundedSinceReset ==
  SafetySpec => []NoOvercharge
<1>1. FwdInv => NoOvercharge
  <2> SUFFICES ASSUME FwdInv, NEW id \in RuleIds \ edited, Exists(id)
               PROVE  status[id].used <= now - status[id].resetTime + SessionTime
    BY DEF NoOvercharge
  <2>1. ChargeBounded(id) /\ status[id].resetTime <= now
    BY DEF FwdInv, ChargesBounded
  <2>2. /\ now \in Nat /\ status[id].used \in Nat /\ status[id].resetTime \in Nat
        /\ status[id].activeSince \in Nat \cup {Never} /\ SessionTime \in Nat
        /\ status[id].activeSince <= now
    BY StatusFields DEF FwdInv, SessionTime
  <2>3. QED
    BY <2>1, <2>2 DEF ChargeBounded, Never
<1>2. QED
  BY <1>1, ForwardInvariance, PTL

\* The recorded usage overdraws a daily limit by less than one session, whatever
\* the number of connections, unless the rule was edited under a session.
THEOREM OverdraftIsBounded ==
  SafetySpec => OverdraftBounded
<1> DEFINE NoOverdraft(id) ==
      status'[id].used > status[id].used
        => status'[id].used < rules[id].limit + SessionTime
<1>1. ASSUME FwdInv, [Next]_fwdVars, NEW id \in RuleIds \ edited
      PROVE  NoOverdraft(id)
  <2>1. TableOK /\ status[id].used \in Nat
    BY <1>1, StatusFields DEF FwdInv
  <2>2. ASSUME NEW ip \in IPs, EndSession(ip) PROVE NoOverdraft(id)
    <3>1. CASE status'[id] = status[id]
      BY <2>1, <3>1
    <3>2. CASE /\ status[id].activeSince # Never
               /\ status'[id].used = status[id].used + (now - status[id].activeSince)
      <4>1. now - status[id].activeSince <= SessionTime
        BY <1>1, <3>2, SessionIsShort
      <4>2. Exists(id) /\ status[id].used < rules[id].limit
        BY <1>1, <3>2 DEF FwdInv, SessionsOwned
      <4>3. /\ now \in Nat /\ status[id].activeSince \in Nat
            /\ rules[id].limit \in Int /\ SessionTime \in Nat
        BY <2>1, <3>2, <4>2, StatusFields DEF SessionTime
      <4>4. QED
        BY <2>1, <3>2, <4>1, <4>2, <4>3
    <3>3. QED
      BY <2>1, <2>2, <3>1, <3>2, EndSessionEffect
  <2>3. ASSUME NEW ip \in IPs, StartSession(ip) PROVE NoOverdraft(id)
    <3>1. status'[id].used = status[id].used
      BY <2>1, <2>3, StartSessionEffect
    <3>2. QED
      BY <2>1, <3>1
  <2>4. ASSUME DailyReset \/ \E j \in RuleIds : ResetRule(j) PROVE NoOverdraft(id)
    <3>1. status'[id].used = status[id].used \/ status'[id].used = 0
      BY <2>1, <2>4, ResetEffect
    <3>2. QED
      BY <2>1, <3>1
  <2>5. ASSUME EditRules PROVE NoOverdraft(id)
    <3>1. status'[id].used = status[id].used \/ status'[id].used = 0
      BY <2>1, <2>5, EditEffect
    <3>2. QED
      BY <2>1, <3>1
  <2>6. ASSUME status' = status PROVE NoOverdraft(id)
    BY <2>1, <2>6
  <2>7. ASSUME NEW c \in Conns, Conn(c) \/ ForwardDone(c) \/ \E p \in Peers : Accept(c, p)
        PROVE  NoOverdraft(id)
    <3>1. CASE BeginSession(c)
      <4>1. ClientIP(c) \in IPs /\ StartSession(ClientIP(c))
        BY <1>1, <3>1, ClientIPOK DEF FwdInv, BeginSession
      <4>2. QED
        BY <2>3, <4>1
    <3>2. CASE EndAfterDenial(c) \/ EndOnReturn(c)
      <4>1. ClientIP(c) \in IPs /\ EndSession(ClientIP(c))
        BY <1>1, <3>2, ClientIPOK DEF FwdInv, EndAfterDenial, EndOnReturn
      <4>2. QED
        BY <2>2, <4>1
    <3>3. CASE ~ (BeginSession(c) \/ EndAfterDenial(c) \/ EndOnReturn(c))
      <4>1. status' = status
        BY <2>7, <3>3 DEF Conn, Accept, CheckBlocklist, NoPool, SelectPool,
             ForwardDone, ForwardTimesOut, acVars
      <4>2. QED
        BY <2>6, <4>1
    <3>4. QED
      BY <3>1, <3>2, <3>3
  <2>8. CASE EditRulesTab
    BY <2>5, <2>8 DEF EditRulesTab
  <2>9. CASE ResetUsage
    BY <2>4, <2>9 DEF ResetUsage
  <2>10. CASE \/ \E ip \in Addresses : BlockIP(ip) \/ UnblockIP(ip)
              \/ TimePasses
              \/ UNCHANGED fwdVars
    BY <2>6, <2>10 DEF BlockIP, UnblockIP, TimePasses, acVars, fwdVars
  <2>11. QED
    BY <1>1, <2>7, <2>8, <2>9, <2>10 DEF Next
<1>2. FwdInv /\ [Next]_fwdVars
        => [\A id \in RuleIds \ edited : NoOverdraft(id)]_fwdVars
  BY <1>1
<1>3. QED
  BY <1>2, ForwardInvariance, PTL DEF SafetySpec, OverdraftBounded

\* A connection that is refused within its limit has another one beside it
\* that is being served (access_control.go:235), or a rule that was edited under
\* a session and not reset since.
THEOREM RefusedOnlyBesideAnother ==
  SafetySpec => RefusedBesideAnother
<1> DEFINE Refused(c) == pc[c] = "start" /\ pc'[c] = "denied"
           Reason(c) == \/ LimitExceeded(rulesByIP[ClientIP(c)])
                        \/ rulesByIP[ClientIP(c)] \in edited
                        \/ \E d \in Conns \ {c} : pc[d] \in Serving /\ ClientIP(d) = ClientIP(c)
<1>1. ASSUME FwdInv, [Next]_fwdVars, NEW c \in Conns, Refused(c)
      PROVE  Reason(c)
  <2> DEFINE ip == ClientIP(c)
             id == rulesByIP[ip]
  <2>1. ip \in IPs /\ TableOK
    BY <1>1, ClientIPOK DEF FwdInv
  <2>2. BeginSession(c)
    <3>1. pc \in [Conns -> Stages]
      BY <1>1 DEF FwdInv, TypeOK
    <3>2. PICK d \in Conns : Conn(d) \/ ForwardDone(d) \/ \E p \in Peers : Accept(d, p)
      BY <1>1 DEF Next, BlockIP, UnblockIP, EditRulesTab, ResetUsage, TimePasses,
           connVars, fwdVars
    <3>3. d = c
      BY <1>1, <3>1, <3>2 DEF Conn, CheckBlocklist, BeginSession, EndAfterDenial, NoPool,
           SelectPool, ForwardTimesOut, EndOnReturn, ForwardDone, Accept, Goto, Return
    <3>4. QED
      BY <1>1, <3>1, <3>2, <3>3 DEF Conn, CheckBlocklist, EndAfterDenial, NoPool,
           SelectPool, ForwardTimesOut, EndOnReturn, ForwardDone, Accept, Goto, Return
  <2>3. ~ Granted(ip)
    BY <1>1, <2>2 DEF BeginSession, Goto, FwdInv, TypeOK
  <2>4. ~ Unrestricted(ip) /\ (status[id].activeSince # Never \/ LimitExceeded(id))
    BY <2>3 DEF Granted
  <2>5. CASE status[id].activeSince # Never /\ id \notin edited
    <3>1. id \in RuleIds /\ rules[id].ip = ip
      BY <2>1, <2>4, RestrictedHasStatus
    <3>2. PICK d \in Conns : Owns(d, id)
      BY <1>1, <2>5, <3>1 DEF FwdInv, SessionsOwned
    <3>3. pc[d] \in Serving /\ ClientIP(d) \in IPs
      BY <1>1, <3>2, ClientIPOK DEF FwdInv, Owns, Serving
    <3>4. rules[rulesByIP[ClientIP(d)]].ip = ClientIP(d)
      BY <2>1, <3>1, <3>2, <3>3 DEF TableOK, IndexSound, Owns
    <3>5. ClientIP(d) = ip /\ d # c
      BY <1>1, <3>1, <3>2, <3>3, <3>4 DEF Owns, Serving
    <3>6. QED
      BY <3>3, <3>5
  <2>6. QED
    BY <2>4, <2>5
<1>2. FwdInv /\ [Next]_fwdVars => [\A c \in Conns : Refused(c) => Reason(c)]_fwdVars
  BY <1>1
<1>3. QED
  BY <1>2, ForwardInvariance, PTL DEF SafetySpec, RefusedBesideAnother

-----------------------------------------------------------------------------
(* What holds of every rule, also of one that is edited under a session:   *)
(* the table sees nothing but its own operations, in some order.           *)

\* A connection that is being handled has a client.
Addressed ==
    /\ pc \in [Conns -> Stages]
    /\ peer \in [Conns -> Peers \cup {None}]
    /\ \A c \in Conns : pc[c] # "idle" => peer[c] \in Peers

\* Every step of Forward, of the tabs and of the clock is one operation of the
\* table, or none.
LEMMA ForwardStepOfTable ==
  ASSUME Addressed, [Next]_fwdVars
  PROVE  [ACNext]_acVars
<1>1. ASSUME NEW c \in Conns, Conn(c) \/ ForwardDone(c) \/ \E p \in Peers : Accept(c, p)
      PROVE  [ACNext]_acVars
  <2>1. CASE BeginSession(c)
    BY <2>1 DEF BeginSession, Addressed, ClientIP, ACNext
  <2>2. CASE EndAfterDenial(c) \/ EndOnReturn(c)
    BY <2>2 DEF EndAfterDenial, EndOnReturn, Addressed, ClientIP, ACNext
  <2>3. CASE ~ (BeginSession(c) \/ EndAfterDenial(c) \/ EndOnReturn(c))
    BY <1>1, <2>3 DEF Conn, Accept, CheckBlocklist, NoPool, SelectPool, ForwardDone,
         ForwardTimesOut
  <2>4. QED
    BY <2>1, <2>2, <2>3
<1>2. CASE \E ip \in Addresses : BlockIP(ip) \/ UnblockIP(ip)
  BY <1>2 DEF BlockIP, UnblockIP
<1>3. CASE EditRulesTab
  BY <1>3 DEF EditRulesTab, ACNext
<1>4. CASE ResetUsage
  BY <1>4 DEF ResetUsage, ACNext
<1>5. CASE TimePasses
  BY <1>5 DEF TimePasses, ACNext, Tick, acVars
<1>6. CASE UNCHANGED fwdVars
  BY <1>6 DEF fwdVars, acVars
<1>7. QED
  BY <1>1, <1>2, <1>3, <1>4, <1>5, <1>6 DEF Next

LEMMA AddressedStep ==
  ASSUME Addressed, [Next]_fwdVars
  PROVE  Addressed'
<1>1. ASSUME NEW c \in Conns, Conn(c) \/ ForwardDone(c) \/ \E p \in Peers : Accept(c, p)
      PROVE  Addressed'
  BY <1>1 DEF Addressed, Conn, CheckBlocklist, BeginSession, EndAfterDenial, NoPool,
       SelectPool, ForwardTimesOut, EndOnReturn, ForwardDone, Accept, Goto, Return, Stages
<1>2. CASE UNCHANGED <<pc, peer>>
  BY <1>2 DEF Addressed
<1>3. QED
  BY <1>1, <1>2 DEF Next, BlockIP, UnblockIP, EditRulesTab, ResetUsage, TimePasses,
       connVars, fwdVars

\* Forwarding implements the specification of its table: whatever the
\* interleaving of the connections, the tabs, the resets and the clock, each
\* call is one operation, under ac.mu.
THEOREM ForwardingImplementsTable == SafetySpec => ACSpec
<1>1. Init => ACInit /\ Addressed
  BY DEF Init, Addressed, Stages
<1>2. QED
  BY <1>1, ForwardStepOfTable, AddressedStep, PTL DEF SafetySpec, ACSpec

\* Edits under sessions break none of what the table promises: the index does
\* not dangle, the status is never nil and no rule is charged for more time than
\* passes.
THEOREM TableHoldsInTraffic ==
  SafetySpec => [](IndexSound /\ StatusForEveryRule) /\ ChargedByTheClock
  BY ForwardingImplementsTable, IndexNeverDangles, StatusNeverNil, ChargesAreReal, PTL

\* In traffic too, an address that has a rule is served without restriction
\* only if two rules name it.
THEOREM UnrestrictedInTraffic ==
  SafetySpec /\ []OneRulePerIP => []UnrestrictedMeansNoRule
  BY ForwardingImplementsTable, UnrestrictedWithoutSharing, PTL
====
