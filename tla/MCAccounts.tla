----------------------------- MODULE MCAccounts ------------------------------
(***************************************************************************)
(* Small instances of Accounts: two addresses that fit, one that does not, *)
(* and the calls that make them meet.                                      *)
(***************************************************************************)
EXTENDS AccountsInvariant, TLC

CONSTANTS p1, p2, p3, ann, bob, long, old, new

ProcSymmetry == Permutations(Procs)

MkRegister(email, password) ==
  [op |-> "register", id |-> Bad, email |-> email, password |-> password,
   caller |-> Nil, admin |-> FALSE]
MkUpdate(id, email, password, caller) ==
  [op |-> "update", id |-> id, email |-> email, password |-> password,
   caller |-> caller, admin |-> FALSE]
MkRemove(id, caller, admin) ==
  [op |-> "remove", id |-> id, email |-> Nil, password |-> Nil,
   caller |-> caller, admin |-> admin]

(* Accounts 1 and 2 compete for two addresses and are deleted.             *)
RaceCalls == {MkRegister(ann, old), MkRegister(bob, old),
              MkUpdate(1, bob, Nil, 1), MkUpdate(1, Nil, new, 1), MkUpdate(2, ann, Nil, 2),
              MkRemove(1, 2, TRUE), MkRemove(2, 2, FALSE)}

(* Every other outcome of the validation and of the guard.                 *)
InvalidCalls == {MkRegister(long, old), MkRegister(Bad, old), MkRegister(bob, Bad),
                 MkUpdate(1, long, Nil, 1), MkUpdate(1, Bad, new, 1), MkUpdate(1, bob, Bad, 1),
                 MkUpdate(1, Nil, Nil, 1), MkUpdate(1, bob, Nil, 2), MkUpdate(Bad, bob, Nil, 1),
                 MkRemove(1, 2, FALSE)}

AccountCalls == RaceCalls \cup InvalidCalls
=============================================================================
