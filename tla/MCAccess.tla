------------------------------ MODULE MCAccess -------------------------------
(***************************************************************************)
(* A small instance of Access: a founder, a second account, a role that is *)
(* not active.                                                             *)
(***************************************************************************)
EXTENDS AccessInvariant, TLC

CONSTANTS p1, p2, ada, ben, admin, member, retired

ProcSymmetry == Permutations(Procs)

Plain(op) == [op |-> op, user |-> Nil, label |-> Nil, right |-> TRUE]
Login(u)  == [Plain("login") EXCEPT !.user = u]
Manage(op, u, label) == [Plain(op) EXCEPT !.user = u, !.label = label]

(* ADMIN wanders between two accounts; and every refusal.                  *)
RoleCalls == {Login(ada), [Login(ada) EXCEPT !.right = FALSE], Login(ben), Plain("me"),
              Manage("grant", ben, admin), Manage("revoke", ada, admin),
              Manage("grant", ben, retired), Manage("grant", Bad, admin)}
=============================================================================
