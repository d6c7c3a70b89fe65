---- MODULE MCForwarding ----
(* Forwarding for TLC: every rule has the same limit, and one host comes in *)
(* directly or, with plain HTTP, through a pipe.                             *)
EXTENDS Forwarding

CONSTANTS ip1, pipe, direct

MCLimits == {1}

MCHost == [p \in Peers |-> ip1]

MCCut == [p \in Peers |-> IF p = direct THEN ip1 ELSE pipe]
====
