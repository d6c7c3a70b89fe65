---- MODULE MCDesktop ----
(* Desktop for TLC.  IDs, names, rules and their texts are interchangeable. *)
EXTENDS Desktop, TLC

Symmetry == Permutations(Ids) \cup Permutations(Names) \cup Permutations(RuleIds)
                \cup Permutations(Texts)

====
