---- MODULE MCAccessControl ----
(* AccessControl for TLC: two rules that may name the same address.        *)
EXTENDS AccessControl, TLC

MCLimits == {0, 2}

\* Rule IDs are interchangeable, and so are addresses.
Symmetry == Permutations(RuleIds) \cup Permutations(IPs)

====
