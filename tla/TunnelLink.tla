---- MODULE TunnelLink ----
(***************************************************************************)
(* What a tunnel promises to those who forward through it: it offers one   *)
(* ssh.Client at a time, drops it and closes it in one step, and never     *)
(* offers a client again that it has dropped.  Locks, dials, monitors and  *)
(* keepalives are left to Tunnel, which implements this specification.     *)
(***************************************************************************)
CONSTANTS
    Clients,    \* the ssh.Clients a tunnel may have
    None        \* nil

VARIABLES
    link,       \* the client a Forward would get (t.client)
    retired     \* the clients that were offered once and are closed now

vars == <<link, retired>>

Init == link = None /\ retired = {}

Establish(k) ==
    /\ link = None
    /\ k \notin retired
    /\ link' = k
    /\ retired' = retired

Drop ==
    /\ link # None
    /\ link' = None
    /\ retired' = retired \cup {link}

Next == Drop \/ \E k \in Clients : Establish(k)

Spec == Init /\ [][Next]_vars
====
