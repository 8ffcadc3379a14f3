---------------------------- MODULE MemoryAccounts ----------------------------
(***************************************************************************)
(* The user and role repositories the tests run on.  Users are kept by id, *)
(* with an index by email and the emails of deleted users, which the       *)
(* database keeps in their rows.  Both roles there are, are active.        *)
(***************************************************************************)
EXTENDS Naturals, Functions

CONSTANTS Labels  \* USER and ADMIN

VARIABLES nextID, byID, byEmail, reservedEmail,
          members  \* pairs of user id and role label

Init ==
  /\ nextID = 1
  /\ byID = <<>> /\ byEmail = <<>> /\ reservedEmail = {}
  /\ members = {}

With(f, key, value) == [k \in DOMAIN f \cup {key} |-> IF k = key THEN value ELSE f[k]]
Without(f, key)     == Restrict(f, DOMAIN f \ {key})
Put(id, user)       == byID' = With(byID, id, user)

(* Mutated form of Taken: deleting an account frees its email.             *)
TakenNow(email) == email \in DOMAIN byEmail

Taken(email) == email \in DOMAIN byEmail \/ email \in reservedEmail

Open(user) ==
  /\ nextID' = nextID + 1
  /\ Put(nextID, user)
  /\ byEmail' = With(byEmail, user.email, nextID)
  /\ UNCHANGED <<reservedEmail, members>>

Create(user) == ~Taken(user.email) /\ Open(user)

(* A test opens an account, whether or not its email is reserved.          *)
Seed(user) == user.email \notin DOMAIN byEmail /\ Open(user)

(* A change of email must not collide with another account or a reserved   *)
(* email; keeping the email is always allowed.                             *)
Conflicts(id, email) ==
  \/ email \in DOMAIN byEmail /\ byEmail[email] # id
  \/ email \in reservedEmail /\ byID[id].email # email

(* Mutated form of Reindexed: the old email stays in the index.            *)
ReindexedOnly(id, email) == With(byEmail, email, id)

Reindexed(id, email) ==
  IF email = byID[id].email THEN byEmail
  ELSE With(Without(byEmail, byID[id].email), email, id)

Update(id, user) ==
  /\ id \in DOMAIN byID /\ ~Conflicts(id, user.email)
  /\ byEmail' = Reindexed(id, user.email)
  /\ Put(id, user)
  /\ UNCHANGED <<nextID, reservedEmail, members>>

Delete(id) ==
  /\ id \in DOMAIN byID
  /\ byID' = Without(byID, id)
  /\ byEmail' = Without(byEmail, byID[id].email)
  /\ reservedEmail' = reservedEmail \cup {byID[id].email}
  /\ UNCHANGED <<nextID, members>>

AssignRole(id, label) ==
  /\ label \in Labels
  /\ members' = members \cup {<<id, label>>}
  /\ UNCHANGED <<nextID, byID, byEmail, reservedEmail>>

RevokeRole(id, label) ==
  /\ <<id, label>> \in members
  /\ members' = members \ {<<id, label>>}
  /\ UNCHANGED <<nextID, byID, byEmail, reservedEmail>>
==============================================================================
