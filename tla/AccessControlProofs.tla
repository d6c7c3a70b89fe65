---- MODULE AccessControlProofs ----
(***************************************************************************)
(* Proofs about AccessControl, for every set of rules, addresses and       *)
(* limits: the table stays well formed under any sequence of operations,   *)
(* and never charges more time than passes.  The lemmas are stated for the *)
(* operations, so that they can be cited where the operations are steps of *)
(* a larger specification.                                                 *)
(***************************************************************************)
EXTENDS AccessControl, TLAPS

\* No rule is charged for more time than there has been.
ChargedTimeIsReal ==
    \A id \in RuleIds : status[id].activeSince <= now /\ Bill(id) <= now

\* The table is well formed: it is what every operation relies on.
TableOK == ACTypeOK /\ IndexSound /\ StatusForEveryRule /\ ChargedTimeIsReal

USE NoneAssumption, LimitsAssumption, MaxTimeAssumption DEF Bill

-----------------------------------------------------------------------------
(* Absent entries.                                                         *)

LEMMA NullsApart == NoRule \notin Rule /\ NoStatus \notin Status
<1>1. NoRule.ip = None
  BY DEF NoRule
<1>2. \A r \in Rule : r.ip \in IPs
  BY DEF Rule
<1>3. NoStatus.resetTime = Never
  BY DEF NoStatus
<1>4. \A s \in Status : s.resetTime \in Nat
  BY DEF Status
<1>5. QED
  BY <1>1, <1>2, <1>3, <1>4 DEF Never

\* The address of a restricted client leads to a rule and its status.
LEMMA RestrictedHasStatus ==
  ASSUME TableOK, NEW ip \in IPs, ~ Unrestricted(ip)
  PROVE  /\ rulesByIP[ip] \in RuleIds
         /\ rules[rulesByIP[ip]] \in Rule
         /\ rules[rulesByIP[ip]].ip = ip
         /\ status[rulesByIP[ip]] \in Status
<1>1. rulesByIP[ip] \in RuleIds
  BY DEF TableOK, ACTypeOK, Unrestricted, RuleOf
<1>2. Exists(rulesByIP[ip]) /\ rules[rulesByIP[ip]].ip = ip
  BY <1>1 DEF TableOK, IndexSound
<1>3. QED
  BY <1>1, <1>2 DEF TableOK, ACTypeOK, StatusForEveryRule, Exists

LEMMA FreshStatusType ==
  ASSUME ACTypeOK
  PROVE  FreshStatus \in Status /\ FreshStatus # NoStatus
<1>1. FreshStatus \in Status
  BY DEF ACTypeOK, FreshStatus, Status, Never
<1>2. QED
  BY <1>1, NullsApart

-----------------------------------------------------------------------------
(* The operations keep the table well formed.                              *)

LEMMA InitTable == ACInit => TableOK
<1> SUFFICES ASSUME ACInit PROVE TableOK
  OBVIOUS
<1>1. ACTypeOK
  BY DEF ACInit, ACTypeOK
<1>2. IndexSound
  BY DEF ACInit, IndexSound
<1>3. StatusForEveryRule
  BY DEF ACInit, StatusForEveryRule, Exists
<1>4. ChargedTimeIsReal
  <2>1. \A id \in RuleIds : status[id].used = 0 /\ status[id].activeSince = Never
    BY DEF ACInit, NoStatus
  <2>2. now = 0 /\ Never <= 0
    BY DEF ACInit, Never
  <2>3. SUFFICES ASSUME NEW id \in RuleIds
                 PROVE  /\ status[id].activeSince <= now
                        /\ status[id].used + (IF status[id].activeSince = Never
                             THEN 0 ELSE now - status[id].activeSince) <= now
    BY DEF ChargedTimeIsReal
  <2>4. status[id].activeSince <= now
    BY <2>1, <2>2
  <2>5. QED
    BY <2>1, <2>2, <2>4
<1>5. QED
  BY <1>1, <1>2, <1>3, <1>4 DEF TableOK

LEMMA AddRuleTable ==
  ASSUME TableOK, NEW id \in RuleIds, NEW rule \in Rule, ~ Exists(id), AddRule(id, rule)
  PROVE  TableOK'
<1>1. rule.ip \in IPs /\ rule # NoRule
  BY NullsApart DEF Rule
<1>2. ACTypeOK'
  BY <1>1, FreshStatusType DEF TableOK, ACTypeOK, AddRule
<1>3. IndexSound'
  BY <1>1 DEF TableOK, ACTypeOK, IndexSound, AddRule, Exists
<1>4. StatusForEveryRule'
  BY <1>1, FreshStatusType DEF TableOK, ACTypeOK, StatusForEveryRule, AddRule, Exists
<1>5. ChargedTimeIsReal'
  BY DEF TableOK, ACTypeOK, ChargedTimeIsReal, AddRule, FreshStatus, Never
<1>6. QED
  BY <1>2, <1>3, <1>4, <1>5 DEF TableOK

LEMMA UpdateRuleTable ==
  ASSUME TableOK, NEW id \in RuleIds, NEW rule \in Rule, UpdateRule(id, rule)
  PROVE  TableOK'
<1>1. rule.ip \in IPs /\ rule # NoRule
  BY NullsApart DEF Rule
<1>2. rules[id] \in Rule /\ rules[id].ip \in IPs
  BY DEF TableOK, ACTypeOK, UpdateRule, Exists, Rule
<1>3. ACTypeOK'
  BY <1>1, <1>2 DEF TableOK, ACTypeOK, UpdateRule
<1>4. IndexSound'
  BY <1>1, <1>2 DEF TableOK, ACTypeOK, IndexSound, UpdateRule, Exists
<1>5. StatusForEveryRule'
  BY <1>1 DEF TableOK, ACTypeOK, StatusForEveryRule, UpdateRule, Exists
<1>6. ChargedTimeIsReal'
  BY DEF TableOK, ChargedTimeIsReal, UpdateRule
<1>7. QED
  BY <1>3, <1>4, <1>5, <1>6 DEF TableOK

LEMMA DeleteRuleTable ==
  ASSUME TableOK, NEW id \in RuleIds, DeleteRule(id)
  PROVE  TableOK'
<1>1. rules[id] \in Rule /\ rules[id].ip \in IPs
  BY DEF TableOK, ACTypeOK, DeleteRule, Exists, Rule
<1>2. ACTypeOK'
  BY DEF TableOK, ACTypeOK, DeleteRule
<1>3. IndexSound'
  BY <1>1 DEF TableOK, ACTypeOK, IndexSound, DeleteRule, Exists
<1>4. StatusForEveryRule'
  BY DEF TableOK, ACTypeOK, StatusForEveryRule, DeleteRule, Exists
<1>5. ChargedTimeIsReal'
  BY DEF TableOK, ACTypeOK, ChargedTimeIsReal, DeleteRule, NoStatus, Never
<1>6. QED
  BY <1>2, <1>3, <1>4, <1>5 DEF TableOK

\* The operations below change the status of rules that exist and nothing else.
LEMMA StatusStepTable ==
  ASSUME TableOK, UNCHANGED <<rules, rulesByIP>>, now' \in 0..MaxTime,
         status' \in [RuleIds -> Status \cup {NoStatus}],
         \A id \in RuleIds : status'[id] = NoStatus <=> status[id] = NoStatus,
         ChargedTimeIsReal'
  PROVE  TableOK'
<1>1. ACTypeOK'
  BY DEF TableOK, ACTypeOK
<1>2. IndexSound'
  BY DEF TableOK, IndexSound, Exists
<1>3. StatusForEveryRule'
  BY DEF TableOK, StatusForEveryRule, Exists
<1>4. QED
  BY <1>1, <1>2, <1>3 DEF TableOK

LEMMA ResetRuleTable ==
  ASSUME TableOK, NEW id \in RuleIds, ResetRule(id)
  PROVE  TableOK'
<1>1. FreshStatus \in Status /\ FreshStatus # NoStatus
  BY FreshStatusType DEF TableOK
<1>2. status' \in [RuleIds -> Status \cup {NoStatus}]
  BY <1>1 DEF TableOK, ACTypeOK, ResetRule
<1>3. \A j \in RuleIds : status'[j] = NoStatus <=> status[j] = NoStatus
  BY <1>1 DEF TableOK, ACTypeOK, ResetRule
<1>4. ChargedTimeIsReal'
  BY DEF TableOK, ACTypeOK, ChargedTimeIsReal, ResetRule, FreshStatus, Never
<1>5. QED
  BY <1>2, <1>3, <1>4, StatusStepTable DEF ResetRule, TableOK, ACTypeOK

LEMMA DailyResetTable ==
  ASSUME TableOK, DailyReset
  PROVE  TableOK'
<1>1. ASSUME NEW id \in RuleIds, Exists(id)
      PROVE  [status[id] EXCEPT !.used = 0, !.blocked = FALSE, !.resetTime = now] \in Status
  <2>1. status[id] \in Status
    BY <1>1 DEF TableOK, ACTypeOK, StatusForEveryRule
  <2>2. now \in Nat
    BY DEF TableOK, ACTypeOK
  <2>3. QED
    BY <2>1, <2>2 DEF Status
<1>2. status' \in [RuleIds -> Status \cup {NoStatus}]
  BY <1>1 DEF TableOK, ACTypeOK, DailyReset
<1>3. \A id \in RuleIds : status'[id] = NoStatus <=> status[id] = NoStatus
  BY <1>1, NullsApart DEF TableOK, StatusForEveryRule, DailyReset
<1>4. ChargedTimeIsReal'
  <2>1. ASSUME NEW id \in RuleIds, Exists(id), ~ rules[id].master
        PROVE  /\ status'[id].used = 0
               /\ status'[id].activeSince = status[id].activeSince
    <3>1. status[id] \in Status
      BY <2>1 DEF TableOK, ACTypeOK, StatusForEveryRule
    <3>2. QED
      BY <2>1, <3>1 DEF DailyReset, Status
  <2>2. ASSUME NEW id \in RuleIds
        PROVE  status[id].activeSince \in Nat \cup {Never} /\ status[id].used \in Nat
    BY DEF TableOK, ACTypeOK, Status, NoStatus
  <2>3. ASSUME NEW id \in RuleIds, ~ (Exists(id) /\ ~ rules[id].master)
        PROVE  status'[id] = status[id]
    BY <2>3 DEF DailyReset
  <2>4. now' = now
    BY DEF DailyReset
  <2>5. now \in Nat
    BY DEF TableOK, ACTypeOK
  <2>6. QED
    BY <2>1, <2>2, <2>3, <2>4, <2>5 DEF TableOK, ChargedTimeIsReal, Never
<1>5. QED
  BY <1>2, <1>3, <1>4, StatusStepTable DEF DailyReset, TableOK, ACTypeOK

LEMMA StartSessionTable ==
  ASSUME TableOK, NEW ip \in IPs, StartSession(ip)
  PROVE  TableOK'
<1> DEFINE id == rulesByIP[ip]
<1>1. CASE Granted(ip) /\ ~ Unrestricted(ip)
  <2>1. id \in RuleIds /\ status[id] \in Status
    BY <1>1, RestrictedHasStatus
  <2>2. [status[id] EXCEPT !.activeSince = now] \in Status
    BY <2>1 DEF Status, TableOK, ACTypeOK
  <2>3. status' = [status EXCEPT ![id] = [status[id] EXCEPT !.activeSince = now]]
    BY <1>1 DEF StartSession
  <2>4. status' \in [RuleIds -> Status \cup {NoStatus}]
    BY <2>2, <2>3 DEF TableOK, ACTypeOK
  <2>5. \A j \in RuleIds : status'[j] = NoStatus <=> status[j] = NoStatus
    BY <2>1, <2>2, <2>3, NullsApart DEF TableOK, ACTypeOK
  <2>6. status[id].used <= now /\ status[id].activeSince = Never
    BY <1>1, <2>1 DEF Granted, TableOK, ChargedTimeIsReal, Status
  <2>7. ChargedTimeIsReal'
    BY <2>1, <2>3, <2>6 DEF TableOK, ACTypeOK, ChargedTimeIsReal, StartSession, Status
  <2>8. QED
    BY <2>4, <2>5, <2>7, StatusStepTable DEF StartSession, TableOK, ACTypeOK
<1>2. CASE ~ (Granted(ip) /\ ~ Unrestricted(ip))
  BY <1>2, StatusStepTable DEF StartSession, TableOK, ACTypeOK, ChargedTimeIsReal
<1>3. QED
  BY <1>1, <1>2

\* Charging a session that runs adds the time it has run, and no more.
LEMMA ChargedStatus ==
  ASSUME TableOK, NEW id \in RuleIds, status[id] \in Status,
         status[id].activeSince # Never
  PROVE  /\ Charged(id) \in Status
         /\ Charged(id).activeSince = Never
         /\ Charged(id).used = status[id].used + (now - status[id].activeSince)
         /\ Charged(id).resetTime = status[id].resetTime
         /\ Charged(id).used <= now
<1> DEFINE total == status[id].used + (now - status[id].activeSince)
<1>1. /\ status[id].used \in Nat
      /\ status[id].activeSince \in Nat
      /\ status[id].blocked \in BOOLEAN
      /\ status[id].resetTime \in Nat
      /\ now \in Nat
  BY DEF Status, TableOK, ACTypeOK
<1>2. total \in Nat /\ total <= now
  BY <1>1 DEF TableOK, ChargedTimeIsReal
<1>3. Charged(id) = [status[id] EXCEPT !.used = total, !.activeSince = Never,
                       !.blocked = @ \/ total >= rules[id].limit]
  BY DEF Charged
<1>4. (status[id].blocked \/ total >= rules[id].limit) \in BOOLEAN
  OBVIOUS
<1> HIDE DEF total
<1>5. QED
  BY <1>1, <1>2, <1>3, <1>4 DEF Status, total

LEMMA EndSessionTable ==
  ASSUME TableOK, NEW ip \in IPs, EndSession(ip)
  PROVE  TableOK'
<1> DEFINE id == rulesByIP[ip]
<1>1. CASE ~ Unrestricted(ip) /\ status[id].activeSince # Never
  <2>1. id \in RuleIds /\ status[id] \in Status
    BY <1>1, RestrictedHasStatus
  <2>2. /\ Charged(id) \in Status
        /\ Charged(id).activeSince = Never
        /\ Charged(id).used <= now
    BY <1>1, <2>1, ChargedStatus
  <2>3. status' = [status EXCEPT ![id] = Charged(id)]
    BY <1>1 DEF EndSession
  <2>4. status' \in [RuleIds -> Status \cup {NoStatus}]
    BY <2>2, <2>3 DEF TableOK, ACTypeOK
  <2>5. \A j \in RuleIds : status'[j] = NoStatus <=> status[j] = NoStatus
    BY <2>1, <2>2, <2>3, NullsApart DEF TableOK, ACTypeOK
  <2>6. ChargedTimeIsReal'
    <3>1. ASSUME NEW j \in RuleIds, j # id PROVE status'[j] = status[j]
      BY <2>3, <3>1 DEF TableOK, ACTypeOK
    <3>2. status'[id] = Charged(id) /\ Charged(id).used \in Nat
      BY <2>1, <2>2, <2>3 DEF TableOK, ACTypeOK, Status
    <3>3. now' = now /\ now \in Nat
      BY DEF EndSession, TableOK, ACTypeOK
    <3>4. QED
      BY <2>2, <3>1, <3>2, <3>3 DEF TableOK, ChargedTimeIsReal, Never
  <2>7. QED
    BY <2>4, <2>5, <2>6, StatusStepTable DEF EndSession, TableOK, ACTypeOK
<1>2. CASE ~ (~ Unrestricted(ip) /\ status[id].activeSince # Never)
  BY <1>2, StatusStepTable DEF EndSession, TableOK, ACTypeOK, ChargedTimeIsReal
<1>3. QED
  BY <1>1, <1>2

\* Time passes: a session that runs has run for longer.
LEMMA TimeTable ==
  ASSUME TableOK, UNCHANGED <<rules, rulesByIP, status>>, now' \in now..MaxTime
  PROVE  TableOK'
<1>1. now' \in 0..MaxTime
  BY DEF TableOK, ACTypeOK
<1>2. ASSUME NEW id \in RuleIds
      PROVE  status[id].activeSince \in Nat \cup {Never} /\ status[id].used \in Nat
  BY DEF TableOK, ACTypeOK, Status, NoStatus
<1>3. ChargedTimeIsReal'
  BY <1>1, <1>2 DEF TableOK, ACTypeOK, ChargedTimeIsReal, Never
<1>4. QED
  BY <1>1, <1>3, StatusStepTable DEF TableOK, ACTypeOK

LEMMA EditRulesTable == TableOK /\ EditRules => TableOK'
  BY AddRuleTable, UpdateRuleTable, DeleteRuleTable DEF EditRules

-----------------------------------------------------------------------------
(* The theorems.                                                           *)

\* Any sequence of edits, resets and sessions leaves the table well formed.
THEOREM TableInvariance == ACSpec => []TableOK
<1>1. TableOK /\ [ACNext]_acVars => TableOK'
  <2> SUFFICES ASSUME TableOK, [ACNext]_acVars PROVE TableOK'
    OBVIOUS
  <2>1. CASE EditRules
    BY <2>1, EditRulesTable
  <2>2. CASE \E id \in RuleIds : ResetRule(id)
    BY <2>2, ResetRuleTable
  <2>3. CASE DailyReset
    BY <2>3, DailyResetTable
  <2>4. CASE \E ip \in IPs : StartSession(ip) \/ EndSession(ip)
    BY <2>4, StartSessionTable, EndSessionTable
  <2>5. CASE Tick
    <3>1. now' \in now..MaxTime
      BY <2>5 DEF Tick, TableOK, ACTypeOK
    <3>2. QED
      BY <2>5, <3>1, TimeTable DEF Tick
  <2>6. CASE UNCHANGED acVars
    BY <2>6, StatusStepTable DEF acVars, TableOK, ACTypeOK, ChargedTimeIsReal
  <2>7. QED
    BY <2>1, <2>2, <2>3, <2>4, <2>5, <2>6 DEF ACNext
<1>2. QED
  BY <1>1, InitTable, PTL DEF ACSpec

\* The maps keep their types (access_control.go:33-41).
THEOREM TableTypeCorrect == ACSpec => []ACTypeOK
<1>1. TableOK => ACTypeOK
  BY DEF TableOK
<1>2. QED
  BY <1>1, TableInvariance, PTL

\* The index leads only to rules that exist and name the address.
THEOREM IndexNeverDangles == ACSpec => []IndexSound
<1>1. TableOK => IndexSound
  BY DEF TableOK
<1>2. QED
  BY <1>1, TableInvariance, PTL

\* The status that StartSession and EndSession dereference is never nil.
THEOREM StatusNeverNil == ACSpec => []StatusForEveryRule
<1>1. TableOK => StatusForEveryRule
  BY DEF TableOK
<1>2. QED
  BY <1>1, TableInvariance, PTL

LEMMA BillType ==
  ASSUME TableOK, NEW id \in RuleIds
  PROVE  /\ Bill(id) \in Nat /\ now \in Nat
         /\ status[id].activeSince \in Nat \cup {Never} /\ status[id].used \in Nat
<1>1. status[id].activeSince \in Nat \cup {Never} /\ status[id].used \in Nat /\ now \in Nat
  BY DEF TableOK, ACTypeOK, Status, NoStatus
<1>2. QED
  BY <1>1 DEF TableOK, ChargedTimeIsReal, Never

\* A rule whose status a step empties or keeps is billed for no more.
LEMMA BillOf ==
  ASSUME TableOK, now' = now, NEW id \in RuleIds,
         \/ status'[id].used = 0 /\ status'[id].activeSince \in {Never, status[id].activeSince}
         \/ status'[id].used = status[id].used
              /\ status'[id].activeSince = status[id].activeSince
         \/ status'[id].used = status[id].used /\ status'[id].activeSince = now
         \/ status'[id].used = Bill(id) /\ status'[id].activeSince = Never
  PROVE  Bill(id)' <= Bill(id) + (now' - now)
<1>1. status[id].activeSince <= now
  BY DEF TableOK, ChargedTimeIsReal
<1>2. QED
  BY <1>1, BillType DEF Never

LEMMA BillStep ==
  ASSUME TableOK, [ACNext]_acVars, NEW id \in RuleIds
  PROVE  Bill(id)' <= Bill(id) + (now' - now)
<1>1. CASE EditRules
  <2>1. ASSUME NEW j \in RuleIds, NEW rule \in Rule, AddRule(j, rule)
        PROVE  Bill(id)' <= Bill(id) + (now' - now)
    <3>1. CASE j = id
      BY <2>1, <3>1, BillOf DEF AddRule, TableOK, ACTypeOK, FreshStatus
    <3>2. CASE j # id
      BY <2>1, <3>2, BillOf DEF AddRule, TableOK, ACTypeOK
    <3>3. QED
      BY <3>1, <3>2
  <2>2. ASSUME NEW j \in RuleIds, NEW rule \in Rule, UpdateRule(j, rule)
        PROVE  Bill(id)' <= Bill(id) + (now' - now)
    BY <2>2, BillOf DEF UpdateRule
  <2>3. ASSUME NEW j \in RuleIds, DeleteRule(j)
        PROVE  Bill(id)' <= Bill(id) + (now' - now)
    <3>1. CASE j = id
      BY <2>3, <3>1, BillOf DEF DeleteRule, TableOK, ACTypeOK, NoStatus
    <3>2. CASE j # id
      BY <2>3, <3>2, BillOf DEF DeleteRule, TableOK, ACTypeOK
    <3>3. QED
      BY <3>1, <3>2
  <2>4. QED
    BY <1>1, <2>1, <2>2, <2>3 DEF EditRules
<1>2. ASSUME NEW j \in RuleIds, ResetRule(j)
      PROVE  Bill(id)' <= Bill(id) + (now' - now)
  <2>1. CASE j = id
    BY <1>2, <2>1, BillOf DEF ResetRule, TableOK, ACTypeOK, FreshStatus
  <2>2. CASE j # id
    BY <1>2, <2>2, BillOf DEF ResetRule, TableOK, ACTypeOK
  <2>3. QED
    BY <2>1, <2>2
<1>3. CASE DailyReset
  <2>1. CASE Exists(id) /\ ~ rules[id].master
    <3>1. status[id] \in Status
      BY <2>1 DEF TableOK, ACTypeOK, StatusForEveryRule
    <3>2. status'[id].used = 0 /\ status'[id].activeSince = status[id].activeSince
      BY <1>3, <2>1, <3>1 DEF DailyReset, Status
    <3>3. QED
      BY <1>3, <3>2, BillOf DEF DailyReset
  <2>2. CASE ~ (Exists(id) /\ ~ rules[id].master)
    BY <1>3, <2>2, BillOf DEF DailyReset
  <2>3. QED
    BY <2>1, <2>2
<1>4. ASSUME NEW ip \in IPs, StartSession(ip)
      PROVE  Bill(id)' <= Bill(id) + (now' - now)
  <2>1. CASE Granted(ip) /\ ~ Unrestricted(ip) /\ rulesByIP[ip] = id
    <3>1. status[id] \in Status
      BY <2>1, RestrictedHasStatus
    <3>2. status'[id].used = status[id].used /\ status'[id].activeSince = now
      BY <1>4, <2>1, <3>1 DEF StartSession, TableOK, ACTypeOK, Status
    <3>3. QED
      BY <1>4, <3>2, BillOf DEF StartSession
  <2>2. CASE ~ (Granted(ip) /\ ~ Unrestricted(ip) /\ rulesByIP[ip] = id)
    BY <1>4, <2>2, BillOf DEF StartSession, TableOK, ACTypeOK
  <2>3. QED
    BY <2>1, <2>2
<1>5. ASSUME NEW ip \in IPs, EndSession(ip)
      PROVE  Bill(id)' <= Bill(id) + (now' - now)
  <2>1. CASE ~ Unrestricted(ip) /\ status[rulesByIP[ip]].activeSince # Never /\ rulesByIP[ip] = id
    <3>1. status[id] \in Status
      BY <2>1, RestrictedHasStatus
    <3>2. Charged(id).used = Bill(id) /\ Charged(id).activeSince = Never
      BY <2>1, <3>1, ChargedStatus
    <3>3. status'[id] = Charged(id)
      BY <1>5, <2>1 DEF EndSession, TableOK, ACTypeOK
    <3>4. QED
      BY <1>5, <3>2, <3>3, BillOf DEF EndSession
  <2>2. CASE ~ (~ Unrestricted(ip) /\ status[rulesByIP[ip]].activeSince # Never /\ rulesByIP[ip] = id)
    BY <1>5, <2>2, BillOf DEF EndSession, TableOK, ACTypeOK
  <2>3. QED
    BY <2>1, <2>2
<1>6. CASE Tick
  BY <1>6, BillType DEF Tick
<1>7. CASE UNCHANGED acVars
  BY <1>7, BillOf DEF acVars
<1>8. QED
  BY <1>1, <1>2, <1>3, <1>4, <1>5, <1>6, <1>7 DEF ACNext

\* No step charges a rule for more time than passes in it; so over any time a
\* rule is charged for no more than that time, and after a user's reset for no
\* more than the time since (access_control.go:179-189, 256-258).
THEOREM ChargesAreReal == ACSpec => ChargedByTheClock
<1>1. TableOK /\ [ACNext]_acVars =>
        [\A id \in RuleIds : Bill(id)' <= Bill(id) + (now' - now)]_acVars
  BY BillStep
<1>2. QED
  BY <1>1, TableInvariance, PTL DEF ACSpec, ChargedByTheClock

-----------------------------------------------------------------------------
(* Addresses that share a rule, or a rule that shares its address.         *)

\* The three edits change the table as follows; nothing else changes it.
LEMMA EditShape ==
  ASSUME TableOK, EditRules
  PROVE  \E id \in RuleIds :
           /\ rules' \in [RuleIds -> Rule \cup {NoRule}]
           /\ \A j \in RuleIds \ {id} : rules'[j] = rules[j]
           /\ \A ip \in IPs : rulesByIP'[ip] =
                IF rules'[id] # NoRule /\ rules'[id].ip = ip THEN id
                ELSE IF Exists(id) /\ rules[id].ip = ip THEN None
                ELSE rulesByIP[ip]
<1>1. ASSUME NEW id \in RuleIds, NEW rule \in Rule, ~ Exists(id), AddRule(id, rule)
      PROVE  /\ rules' \in [RuleIds -> Rule \cup {NoRule}]
             /\ \A j \in RuleIds \ {id} : rules'[j] = rules[j]
             /\ \A ip \in IPs : rulesByIP'[ip] =
                  IF rules'[id] # NoRule /\ rules'[id].ip = ip THEN id
                  ELSE IF Exists(id) /\ rules[id].ip = ip THEN None
                  ELSE rulesByIP[ip]
  <2>1. rules'[id] = rule /\ rule # NoRule
    BY <1>1, NullsApart DEF AddRule, TableOK, ACTypeOK
  <2>2. QED
    BY <1>1, <2>1 DEF AddRule, TableOK, ACTypeOK
<1>2. ASSUME NEW id \in RuleIds, NEW rule \in Rule, UpdateRule(id, rule)
      PROVE  /\ rules' \in [RuleIds -> Rule \cup {NoRule}]
             /\ \A j \in RuleIds \ {id} : rules'[j] = rules[j]
             /\ \A ip \in IPs : rulesByIP'[ip] =
                  IF rules'[id] # NoRule /\ rules'[id].ip = ip THEN id
                  ELSE IF Exists(id) /\ rules[id].ip = ip THEN None
                  ELSE rulesByIP[ip]
  <2>1. rules'[id] = rule /\ rule # NoRule
    BY <1>2, NullsApart DEF UpdateRule, TableOK, ACTypeOK
  <2>2. rule.ip \in IPs /\ rules[id].ip \in IPs
    BY <1>2 DEF UpdateRule, Exists, TableOK, ACTypeOK, Rule
  <2>3. QED
    BY <1>2, <2>1, <2>2 DEF UpdateRule, TableOK, ACTypeOK
<1>3. ASSUME NEW id \in RuleIds, DeleteRule(id)
      PROVE  /\ rules' \in [RuleIds -> Rule \cup {NoRule}]
             /\ \A j \in RuleIds \ {id} : rules'[j] = rules[j]
             /\ \A ip \in IPs : rulesByIP'[ip] =
                  IF rules'[id] # NoRule /\ rules'[id].ip = ip THEN id
                  ELSE IF Exists(id) /\ rules[id].ip = ip THEN None
                  ELSE rulesByIP[ip]
  <2>1. rules'[id] = NoRule
    BY <1>3 DEF DeleteRule, TableOK, ACTypeOK
  <2>2. QED
    BY <1>3, <2>1 DEF DeleteRule, TableOK, ACTypeOK
<1>4. QED
  BY <1>1, <1>2, <1>3 DEF EditRules

\* An address that has a rule in the index, and no rule there after a step,
\* has a rule that names it on both sides only if two rules named it.
LEMMA UnindexedStep ==
  ASSUME TableOK, [ACNext]_acVars, NEW ip \in IPs,
         RuleOf(ip) # NoRule, RuleOf(ip)' = NoRule,
         NEW b \in RuleIds, rules'[b] # NoRule, rules'[b].ip = ip
  PROVE  \E a, c \in RuleIds :
           /\ a # c
           /\ Exists(a) /\ rules[a].ip = ip
           /\ Exists(c) /\ rules[c].ip = ip
<1> DEFINE a == rulesByIP[ip]
<1>1. a \in RuleIds /\ Exists(a) /\ rules[a].ip = ip
  BY DEF RuleOf, TableOK, ACTypeOK, IndexSound, Exists
<1>2. EditRules
  BY DEF ACNext, acVars, RuleOf, ResetRule, DailyReset, StartSession, EndSession, Tick
<1>3. PICK id \in RuleIds :
        /\ \A j \in RuleIds \ {id} : rules'[j] = rules[j]
        /\ \A i \in IPs : rulesByIP'[i] =
             IF rules'[id] # NoRule /\ rules'[id].ip = i THEN id
             ELSE IF Exists(id) /\ rules[id].ip = i THEN None
             ELSE rulesByIP[i]
  BY <1>2, EditShape
<1>4. ~ (rules'[id] # NoRule /\ rules'[id].ip = ip)
  BY <1>3 DEF RuleOf
<1>5. b # id /\ Exists(b) /\ rules[b].ip = ip
  BY <1>3, <1>4 DEF Exists
<1>6. Exists(id) /\ rules[id].ip = ip
  <2>1. SUFFICES ASSUME ~ (Exists(id) /\ rules[id].ip = ip) PROVE FALSE
    OBVIOUS
  <2>2. a # id /\ rulesByIP'[ip] = a
    BY <1>1, <1>3, <1>4, <2>1
  <2>3. rules'[a] = rules[a]
    BY <1>1, <1>3, <2>2
  <2>4. QED
    BY <1>1, <2>2, <2>3 DEF RuleOf, Exists
<1>7. QED
  BY <1>5, <1>6

\* A rule that comes to name an address gets the entry of that address.
LEMMA NamedIsIndexed ==
  ASSUME TableOK, [ACNext]_acVars, NEW ip \in IPs,
         NEW b \in RuleIds, rules'[b] # NoRule, rules'[b].ip = ip,
         ~ (Exists(b) /\ rules[b].ip = ip)
  PROVE  RuleOf(ip)' # NoRule
<1>1. EditRules
  BY DEF ACNext, acVars, Exists, ResetRule, DailyReset, StartSession, EndSession, Tick
<1>2. PICK id \in RuleIds :
        /\ \A j \in RuleIds \ {id} : rules'[j] = rules[j]
        /\ \A i \in IPs : rulesByIP'[i] =
             IF rules'[id] # NoRule /\ rules'[id].ip = i THEN id
             ELSE IF Exists(id) /\ rules[id].ip = i THEN None
             ELSE rulesByIP[i]
  BY <1>1, EditShape
<1>3. b = id
  BY <1>2 DEF Exists
<1>4. rulesByIP'[ip] = b
  BY <1>2, <1>3
<1>5. QED
  BY <1>4 DEF RuleOf

\* An update or a deletion leaves a rule without its entry in the index only
\* if another rule named the same address (access_control.go:152, 169).
THEOREM UnindexedRulesWereShared == ACSpec => UnindexedWasShared
<1>1. TableOK /\ [ACNext]_acVars =>
        [\A ip \in IPs :
           (/\ RuleOf(ip) # NoRule
            /\ RuleOf(ip)' = NoRule
            /\ \E id \in RuleIds : rules'[id] # NoRule /\ rules'[id].ip = ip)
              => \E a, b \in RuleIds :
                    /\ a # b
                    /\ Exists(a) /\ rules[a].ip = ip
                    /\ Exists(b) /\ rules[b].ip = ip]_acVars
  BY UnindexedStep
<1>2. QED
  BY <1>1, TableInvariance, PTL DEF ACSpec, UnindexedWasShared

\* The comment "No rule means no restriction" (access_control.go:227) is right
\* for every table in which no two rules name one address: the run
\* access_unindexed needs two that do.
THEOREM UnrestrictedWithoutSharing ==
  ACSpec /\ []OneRulePerIP => []UnrestrictedMeansNoRule
<1>1. ACInit => UnrestrictedMeansNoRule
  BY DEF ACInit, UnrestrictedMeansNoRule, Exists
<1>2. TableOK /\ OneRulePerIP /\ UnrestrictedMeansNoRule /\ [ACNext]_acVars
        => UnrestrictedMeansNoRule'
  <2>1. SUFFICES ASSUME TableOK, OneRulePerIP, UnrestrictedMeansNoRule, [ACNext]_acVars,
                        NEW ip \in IPs, RuleOf(ip)' = NoRule,
                        NEW b \in RuleIds, rules'[b] # NoRule, rules'[b].ip = ip
                 PROVE  FALSE
    BY DEF UnrestrictedMeansNoRule, Exists
  <2>2. Exists(b) /\ rules[b].ip = ip
    BY <2>1, NamedIsIndexed
  <2>3. RuleOf(ip) # NoRule
    BY <2>1, <2>2 DEF UnrestrictedMeansNoRule
  <2>4. PICK a, c \in RuleIds : /\ a # c
                                /\ Exists(a) /\ rules[a].ip = ip
                                /\ Exists(c) /\ rules[c].ip = ip
    BY <2>1, <2>3, UnindexedStep
  <2>5. QED
    BY <2>1, <2>4 DEF OneRulePerIP
<1>3. QED
  BY <1>1, <1>2, TableInvariance, PTL DEF ACSpec
====
