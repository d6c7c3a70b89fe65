---- MODULE PoolLife ----
(***************************************************************************)
(* What a connection pool promises to the Manager that owns it: Start      *)
(* either brings up every tunnel the server is configured for or reports   *)
(* an error, its members do not change once it has returned, and a pool    *)
(* that was stopped is never started again.  Pool implements this          *)
(* specification.                                                          *)
(***************************************************************************)
CONSTANT Tunnels    \* the tunnels the server is configured for

VARIABLES
    life,       \* "new", "starting", "running", "failed" or "stopped"
    members     \* the tunnels a Forward may choose from

vars == <<life, members>>

Init == life = "new" /\ members = {}

Begin == life = "new" /\ life' = "starting" /\ members' = members

Refuse == life = "new" /\ life' = "failed" /\ members' = members

Join(t) ==
    /\ life = "starting"
    /\ t \notin members
    /\ members' = members \cup {t}
    /\ life' = life

Succeed == life = "starting" /\ members = Tunnels /\ life' = "running" /\ members' = members

Fail == life = "starting" /\ members # Tunnels /\ life' = "failed" /\ members' = members

Stop == life \in {"running", "failed"} /\ life' = "stopped" /\ members' = members

Next == Begin \/ Refuse \/ Succeed \/ Fail \/ Stop \/ \E t \in Tunnels : Join(t)

Spec == Init /\ [][Next]_vars
====
