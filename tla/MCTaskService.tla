---------------------------- MODULE MCTaskService ----------------------------
(***************************************************************************)
(* Small instances of TaskService: the constants no cfg file can write,    *)
(* and the workloads the runs substitute for Calls.                        *)
(***************************************************************************)
EXTENDS TaskInvariant, TLC

CONSTANTS p1, p2, p3, k1, k2, lock, u1, u2, text, text2, done

(* The two keys collide in hashtext().                                     *)
MCHashText == [k \in Keys |-> lock]
MCSkew == 1

ProcSymmetry == Permutations(Procs)

Untouched == [title |-> Nil, description |-> Nil, status |-> Nil]
With(title, status) == [title |-> title, description |-> Nil, status |-> status]

MkCreate(key, patch) ==
  [op |-> "create", id |-> Bad, key |-> key, patch |-> patch, user |-> Nil]
MkUpdate(id, patch) ==
  [op |-> "update", id |-> id, key |-> Bad, patch |-> patch, user |-> Nil]
MkAssign(id, user) ==
  [op |-> "assign", id |-> id, key |-> Bad, patch |-> Untouched, user |-> user]
MkDelete(id) ==
  [op |-> "delete", id |-> id, key |-> Bad, patch |-> Untouched, user |-> Nil]

(* Idempotent creates that race, replay, collide in the lock and expire,   *)
(* with deletes of the first task; a key that is not a UUID.               *)
CreateCalls == {MkCreate(k1, With(text, Nil)), MkCreate(k2, With(text, done)),
                MkCreate(Bad, With(text, Nil)), MkDelete(1)}

(* Every validation outcome.                                               *)
InvalidCalls == {MkCreate(k1, With(text, Nil)), MkCreate(k1, With(text, Bad)),
                 MkCreate(k1, With(Nil, Nil)),
                 MkUpdate(1, With(text2, Bad)), MkUpdate(1, With(Bad, Nil)),
                 MkUpdate(1, Untouched), MkUpdate(Bad, With(text2, Nil)),
                 MkAssign(1, Bad), MkAssign(2, u1), MkAssign(1, u1), MkDelete(2)}

(* Calls of every kind, with two keys and one task.                        *)
WriteCalls == {MkCreate(k1, With(text, Nil)), MkCreate(k2, With(text, Nil)),
               MkUpdate(1, With(text2, Nil)),
               MkAssign(1, u1), MkAssign(1, Nil), MkDelete(1)}

(* Both at once.                                                           *)
EveryCall == InvalidCalls \cup WriteCalls
=============================================================================
