---- MODULE Registry ----
(***************************************************************************)
(* What the Manager promises to those who forward through its pools: a     *)
(* server has one pool at a time, a pool is offered for one server and for *)
(* one stretch of time, and is not offered again once it is given up.      *)
(* Locks, Starts that race, contexts and scans are left to Manager, which  *)
(* implements this specification.                                          *)
(***************************************************************************)
CONSTANTS
    Servers,    \* names of servers
    Pools,      \* the pools there may be
    None        \* no pool

VARIABLES
    table,      \* the pool that is offered for each server
    gone        \* the pools that were given up

vars == <<table, gone>>

Init == table = [s \in Servers |-> None] /\ gone = {}

Offered == {p \in Pools : \E s \in Servers : table[s] = p}

Offer(s, p) ==
    /\ table[s] = None
    /\ p \notin gone \cup Offered
    /\ table' = [table EXCEPT ![s] = p]
    /\ gone' = gone

\* The pools of some servers are taken out of the table and given up.
Withdraw(S) ==
    /\ table' = [s \in Servers |-> IF s \in S THEN None ELSE table[s]]
    /\ gone' = gone \cup {p \in Pools : \E s \in S : table[s] = p}

\* A pool that is not in the table is given up.
Discard(p) ==
    /\ p \notin gone \cup Offered
    /\ gone' = gone \cup {p}
    /\ table' = table

Next ==
    \/ \E s \in Servers, p \in Pools : Offer(s, p)
    \/ \E S \in SUBSET Servers : Withdraw(S)
    \/ \E p \in Pools : Discard(p)

Spec == Init /\ [][Next]_vars
====
