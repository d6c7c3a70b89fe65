---- MODULE MCManager ----
(* Manager for TLC: servers, pools, callers and connections are model      *)
(* values.                                                                 *)
EXTENDS Manager
====
