---- MODULE MCProxy ----
(* Proxy for TLC: connection slots are model values.                       *)
EXTENDS Proxy

====
