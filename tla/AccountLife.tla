----------------------------- MODULE AccountLife -----------------------------
(***************************************************************************)
(* What the users table promises to the rest of the system: an account is  *)
(* opened once, may be closed once, and is never opened again.  Tasks and  *)
(* access rights are modelled against this life cycle.                     *)
(***************************************************************************)
CONSTANT Users
VARIABLE state

Init == state = [u \in Users |-> "absent"]

Open(u)  == state[u] = "absent" /\ state' = [state EXCEPT ![u] = "active"]
Close(u) == state[u] = "active" /\ state' = [state EXCEPT ![u] = "deleted"]

Next == \E u \in Users : Open(u) \/ Close(u)

Spec == Init /\ [][Next]_state
=============================================================================
