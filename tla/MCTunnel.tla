---- MODULE MCTunnel ----
(* Tunnel for TLC.  In a safety run callers are interchangeable, and so    *)
(* are clients.                                                            *)
EXTENDS Tunnel, TLC

Symmetry == Permutations(Callers) \cup Permutations(Clients)
====
