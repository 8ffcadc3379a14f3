------------------------------ MODULE MCTestApp ------------------------------
(***************************************************************************)
(* A small instance of TestApp: calls on one task and two users that meet. *)
(***************************************************************************)
EXTENDS TestAppInvariant, TLC

CONSTANTS p1, p2, k1, ann, bob, backlog, done, admin, member

ProcSymmetry == Permutations(Procs)

MkCreate(content)     == [op |-> "create", key |-> k1, content |-> content]
MkUpdate(id, content) == [op |-> "update", id |-> id, content |-> content]
MkAssign(id, user)    == [op |-> "assign", id |-> id, user |-> user]
MkRegister(email)     == [op |-> "register", email |-> email]
MkProfile(id, email)  == [op |-> "profile", id |-> id, email |-> email]
MkRole(op, id, label) == [op |-> op, id |-> id, label |-> label]

(* A task that is created again, aged, changed, given away and deleted.    *)
TaskCalls == {MkCreate(backlog), MkCreate(Bad), MkUpdate(1, done),
              MkAssign(1, 1), MkAssign(1, 2), MkAssign(1, Nil),
              [op |-> "delete", id |-> 1], [op |-> "age", id |-> 1, at |-> 0]}

(* Two users who exchange an email, leave, come back by seeding, get ADMIN.*)
UserCalls == {MkRegister(ann), MkRegister(bob), MkProfile(1, ann), MkProfile(1, bob),
              [op |-> "close", id |-> 1], [op |-> "seed", email |-> ann],
              MkRole("grant", 1, admin), MkRole("revoke", 1, admin), MkRole("grant", 1, Bad)}

MCCalls == TaskCalls \cup UserCalls
=============================================================================
