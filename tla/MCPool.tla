---- MODULE MCPool ----
(* Pool for TLC: tunnels are model values, and the counter roundRobin has  *)
(* Width values.                                                           *)
EXTENDS Pool

\* The theorem ScanAsksEveryTunnel needs its condition: where a scan crosses
\* the wrap of the counter and the number of tunnels does not divide Width,
\* it may leave a tunnel out (pool.go:184).
ASSUME WrapMaySkip ==
    \E first \in 0..(Width - 1), n \in 1..7 : Asked(first, n) # 0..(n - 1)
====
