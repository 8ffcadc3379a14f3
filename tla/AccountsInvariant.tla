-------------------------- MODULE AccountsInvariant --------------------------
(***************************************************************************)
(* The inductive invariant of Accounts: what holds of the table and of the *)
(* requests at every statement, and makes addresses and ids unique.        *)
(***************************************************************************)
EXTENDS Accounts

(* What a request knows at its labels.                                     *)
JobShape ==
  \A p \in Procs :
    /\ pc[p] \in {"lookup", "insert"} =>
         job[p].call.email \in Emails /\ job[p].call.password \in Passwords
    /\ pc[p] \in {"check", "write"} => ~job[p].row.deleted
    /\ pc[p] = "check" => job[p].call.email \in Emails

(* The id of an account being registered belongs to no row yet and to no   *)
(* other registration.                                                     *)
Registering(p) == pc[p] \in {"lookup", "insert"}
IdsFresh ==
  /\ \A id \in UserIds : users[id] # NoRow => id <= issued
  /\ \A p \in Procs : Registering(p) => job[p].id <= issued /\ users[job[p].id] = NoRow
  /\ \A p, q \in Procs : p # q /\ Registering(p) /\ Registering(q) => job[p].id # job[q].id

(* The conjunction that every step preserves: a new row neither replaces   *)
(* one nor shares its id, and a row written back was live when read.       *)
IInv == TypeOK /\ JobShape /\ IdsFresh /\ EmailsUnique
=============================================================================
