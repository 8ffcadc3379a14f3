------------------------------- MODULE Access --------------------------------
(***************************************************************************)
(* Who may do what: login, bearer tokens, the role guard, and the granting *)
(* and revoking of roles.  A token carries the roles its owner had when it *)
(* was issued, and nothing looks them up again before it expires.  The     *)
(* users table appears as the life cycle of AccountLife.                   *)
(***************************************************************************)
EXTENDS Domain, Integers

CONSTANTS
  Procs,            \* request goroutines
  Users,            \* account ids
  Roles,            \* role labels
  ActiveRoles,      \* those whose row has status ACTIVE
  Admin, Member,    \* RoleAdmin and RoleUser
  Founders,         \* accounts given ADMIN by hand before the service starts
  TTL,              \* life time of a token
  Nil, Bad, NoJob, NoReply,
  Calls,            \* the calls clients may make
  MaxCalls, MaxTime \* bounds: calls made, and clock readings

Ops == {"login", "me", "grant", "revoke"}

(* right: whether the password is the one of the account.                  *)
Call  == [op : Ops, user : Users \cup {Nil, Bad}, label : Roles \cup {Nil, Bad},
          right : BOOLEAN]
Token == [user : Users, roles : SUBSET Roles, began : Nat, issued : Nat]
Job   == [call : Call, token : Token \cup {Nil}, roles : SUBSET Roles, at : Nat]
Reply == [op : Ops, err : Errors \cup {"none"}, code : Replies]

ASSUME RolesAssumption == /\ ActiveRoles \subseteq Roles
                          /\ {Admin, Member} \subseteq ActiveRoles
                          /\ Admin # Member
                          /\ {Nil, Bad} \cap Roles = {}
ASSUME UsersAssumption == Founders \subseteq Users /\ {Nil, Bad} \cap Users = {}
ASSUME AbsentAssumption == Nil \notin Token /\ NoJob \notin Job /\ NoReply \notin Reply
ASSUME TTLAssumption == TTL \in Nat \ {0}
ASSUME BoundsAssumption == MaxCalls \in Nat /\ MaxTime \in Nat
(* Every call but that of one's own profile names an account.              *)
ASSUME CallsAssumption == /\ Calls \subseteq Call
                          /\ \A c \in Calls : c.op # "me" => c.user # Nil

VARIABLES
  accounts, \* state of each account, and when it was deleted
  grants,   \* rows of user_role, as pairs of user and label
  tokens,   \* tokens issued so far
  lost,     \* history: when a user last lost ADMIN (-1: never)
  pc, job,  \* where each process is, and the request it works on
  reply,    \* the last answer each process gave
  issued,   \* calls made so far
  now       \* time.Now() of the server

vars == <<accounts, grants, tokens, lost, pc, job, reply, issued, now>>

Labels == {"idle", "lookup", "roles", "issue", "profile", "resolve", "verify", "write"}

Init ==
  /\ accounts = [u \in Users |->
       [state |-> IF u \in Founders THEN "active" ELSE "absent", closed |-> 0]]
  /\ grants = Founders \X {Admin}
  /\ tokens = {}
  /\ lost = [u \in Users |-> -1]
  /\ pc = [p \in Procs |-> "idle"]
  /\ job = [p \in Procs |-> NoJob]
  /\ reply = [p \in Procs |-> NoReply]
  /\ issued = 0
  /\ now = 0
------------------------------------------------------------------------------
(* Mutated form of HasAccount: the model without its soft_delete tag.      *)
HadAccount(u) == accounts[u].state # "absent"

HasAccount(u) == accounts[u].state = "active"

(* RolesByUser, and the default of a user without any.                     *)
RolesOf(u) ==
  LET held == {r \in ActiveRoles : <<u, r>> \in grants}
  IN IF held = {} THEN {Member} ELSE held

(* Mutated form of Verified: a parser that does not require an expiration. *)
NeverExpires(token) == token # Nil

(* Verify: tokens of others do not exist, an expired one is refused.       *)
Verified(token) == token # Nil /\ now < token.issued + TTL

Goto(p, label) == pc' = [pc EXCEPT ![p] = label]

Answer(p, op, err, code) ==
  /\ reply' = [reply EXCEPT ![p] = [op |-> op, err |-> err, code |-> code]]
  /\ Goto(p, "idle")
  /\ job' = [job EXCEPT ![p] = NoJob]

Finish(p, err, code) ==
  Answer(p, job[p].call.op, err, code) /\ UNCHANGED <<accounts, issued, now>>

Abort(p, err) == Finish(p, err, Classify(err)) /\ UNCHANGED <<grants, tokens, lost>>

(* A statement fails, or the server dies before it is sent.                *)
Fail(p) == pc[p] # "idle" /\ Abort(p, "failure")

Pass(p, label) ==
  Goto(p, label) /\ UNCHANGED <<accounts, grants, tokens, lost, job, reply, issued, now>>
------------------------------------------------------------------------------
(* A call arrives: authentication, the role guard, the parameters.         *)

Guarded(c)   == c.op # "login"
AdminOnly(c) == c.op \in {"grant", "revoke"}
Malformed(c) == \/ c.op # "me" /\ c.user = Bad
                \/ AdminOnly(c) /\ c.label = Bad

Receive(p) ==
  /\ pc[p] = "idle"
  /\ issued < MaxCalls
  /\ issued' = issued + 1
  /\ UNCHANGED <<accounts, grants, tokens, lost, now>>

Refuse(p, c, err) == Receive(p) /\ Answer(p, c.op, err, Classify(err))

Unauthorized(c, token) == Guarded(c) /\ ~Verified(token)
Forbidden(c, token)    == AdminOnly(c) /\ Admin \notin token.roles

(* A caller is authenticated before the router looks for the path, which   *)
(* does not exist for an id that is not an integer, and judged after that. *)
RefuseCall(p, c, token) ==
  \/ Unauthorized(c, token) /\ Refuse(p, c, "unauthorized")
  \/ /\ ~Unauthorized(c, token) /\ AdminOnly(c) /\ c.user = Bad
     /\ Refuse(p, c, "no_route")
  \/ /\ ~Unauthorized(c, token) /\ Forbidden(c, token)
     /\ Refuse(p, c, "forbidden")
  \/ /\ ~Unauthorized(c, token) /\ ~Forbidden(c, token) /\ Malformed(c)
     /\ Refuse(p, c, "invalid_input")

Accept(p, c, token, label) ==
  /\ Receive(p)
  /\ ~Unauthorized(c, token) /\ ~Forbidden(c, token) /\ ~Malformed(c)
  /\ Goto(p, label)
  /\ job' = [job EXCEPT ![p] = [call |-> c, token |-> token, roles |-> {}, at |-> now]]
  /\ reply' = [reply EXCEPT ![p] = NoReply]

CallLogin(p, c)         == c.op = "login" /\ Accept(p, c, Nil, "lookup")
CallMe(p, c, token)     == c.op = "me" /\ Accept(p, c, token, "profile")
CallManage(p, c, token) == AdminOnly(c) /\ Accept(p, c, token, "resolve")
------------------------------------------------------------------------------
(* Login.                                                                  *)

LookupUser(p) ==
  /\ pc[p] = "lookup"
  /\ LET c  == job[p].call
         ok == HasAccount(c.user) /\ c.right
     IN \/ ~ok /\ Abort(p, "unauthorized")
        \/ ok /\ Pass(p, "roles")

ReadRoles(p) ==
  /\ pc[p] = "roles"
  /\ job' = [job EXCEPT ![p].roles = RolesOf(job[p].call.user)]
  /\ Goto(p, "issue")
  /\ UNCHANGED <<accounts, grants, tokens, lost, reply, issued, now>>

Issue(p) ==
  /\ pc[p] = "issue"
  /\ tokens' = tokens \cup {[user |-> job[p].call.user, roles |-> job[p].roles,
                             began |-> job[p].at, issued |-> now]}
  /\ Finish(p, "none", OK)
  /\ UNCHANGED <<grants, lost>>

(* The caller's own profile.                                               *)
GetMe(p) ==
  /\ pc[p] = "profile"
  /\ LET user == job[p].token.user
     IN \/ ~HasAccount(user) /\ Abort(p, "not_found")
        \/ /\ HasAccount(user)
           /\ Finish(p, "none", OK)
           /\ UNCHANGED <<grants, tokens, lost>>
------------------------------------------------------------------------------
(* Grant and revoke.                                                       *)

(* Mutated form of ResolveRole: a lookup without its condition on status.  *)
ResolveAnyRole(p) == pc[p] = "resolve" /\ Pass(p, "verify")

ResolveRole(p) ==
  /\ pc[p] = "resolve"
  /\ \/ job[p].call.label \notin ActiveRoles /\ Abort(p, "invalid_input")
     \/ job[p].call.label \in ActiveRoles /\ Pass(p, "verify")

(* Mutated form of VerifyUser: whoever the role is for.                    *)
TrustUser(p) == pc[p] = "verify" /\ Pass(p, "write")

VerifyUser(p) ==
  /\ pc[p] = "verify"
  /\ \/ ~HasAccount(job[p].call.user) /\ Abort(p, "not_found")
     \/ HasAccount(job[p].call.user) /\ Pass(p, "write")

(* A write takes effect; its answer may be lost on the way back.           *)
Stored(p) ==
  /\ Finish(p, "none", OK) \/ Finish(p, "failure", Classify("failure"))
  /\ UNCHANGED tokens

(* INSERT ... ON CONFLICT DO UPDATE: granting twice is granting once.      *)
AssignRole(p) ==
  /\ pc[p] = "write" /\ job[p].call.op = "grant"
  /\ grants' = grants \cup {<<job[p].call.user, job[p].call.label>>}
  /\ Stored(p)
  /\ UNCHANGED lost

RevokeRole(p) ==
  /\ pc[p] = "write" /\ job[p].call.op = "revoke"
  /\ LET row == <<job[p].call.user, job[p].call.label>>
     IN \/ row \notin grants /\ Abort(p, "not_found")
        \/ /\ row \in grants
           /\ grants' = grants \ {row}
           /\ lost' = IF job[p].call.label = Admin
                      THEN [lost EXCEPT ![job[p].call.user] = now] ELSE lost
           /\ Stored(p)
------------------------------------------------------------------------------
(* The environment: accounts come and go, time passes.                     *)

Open(u) ==
  /\ accounts[u].state = "absent"
  /\ accounts' = [accounts EXCEPT ![u].state = "active"]
  /\ UNCHANGED <<grants, tokens, lost, pc, job, reply, issued, now>>

Close(u) ==
  /\ accounts[u].state = "active"
  /\ accounts' = [accounts EXCEPT ![u] = [state |-> "deleted", closed |-> now]]
  /\ UNCHANGED <<grants, tokens, lost, pc, job, reply, issued, now>>

Tick ==
  /\ now < MaxTime
  /\ now' = now + 1
  /\ UNCHANGED <<accounts, grants, tokens, lost, pc, job, reply, issued>>

(* Nothing is left to do within the bounds.                                *)
Quiesce ==
  /\ issued = MaxCalls
  /\ \A p \in Procs : pc[p] = "idle"
  /\ UNCHANGED vars

Receives(p) ==
  \E c \in Calls :
    \/ CallLogin(p, c)
    \/ \E token \in tokens \cup {Nil} : \/ RefuseCall(p, c, token) \/ CallMe(p, c, token)
                                        \/ CallManage(p, c, token)

Works(p) == \/ LookupUser(p) \/ ReadRoles(p) \/ Issue(p)
            \/ GetMe(p)
            \/ ResolveRole(p) \/ VerifyUser(p) \/ AssignRole(p) \/ RevokeRole(p)

Next == \/ \E p \in Procs : Receives(p) \/ Works(p) \/ Fail(p)
        \/ \E u \in Users : Open(u) \/ Close(u)
        \/ Tick
        \/ Quiesce

Spec == Init /\ [][Next]_vars
------------------------------------------------------------------------------
(* Properties.                                                             *)

(* Every variable keeps its type; whoever is past the authentication has a *)
(* token, and whoever is past the guard has one with the role ADMIN.       *)
TypeOK ==
  /\ accounts \in [Users -> [state : {"absent", "active", "deleted"}, closed : Nat]]
  /\ grants \subseteq Users \X ActiveRoles
  /\ tokens \subseteq Token
  /\ lost \in [Users -> Nat \cup {-1}]
  /\ pc \in [Procs -> Labels]
  /\ job \in [Procs -> Job \cup {NoJob}]
  /\ \A p \in Procs :
       /\ pc[p] # "idle" => job[p] \in Job
       /\ pc[p] \in {"profile", "resolve", "verify", "write"} => job[p].token \in tokens
       /\ pc[p] \in {"resolve", "verify", "write"} => Admin \in job[p].token.roles
  /\ reply \in [Procs -> Reply \cup {NoReply}]
  /\ issued \in 0..MaxCalls
  /\ now \in Nat

(* How long ago a token's word can have been true: its life time and the   *)
(* time the login that issued it took.                                     *)
Staleness(token) == TTL + token.issued - token.began

(* Roles are read at login only, so a revoked administrator goes on being  *)
(* one, but not for longer than that.                                      *)
HeldAdmin(u) == IF <<u, Admin>> \in grants THEN now ELSE lost[u]
AdminsActBriefly ==
  \A p \in Procs : pc[p] \in {"resolve", "verify", "write"} =>
    job[p].at - HeldAdmin(job[p].token.user) < Staleness(job[p].token)

(* The same for a deleted account: it may still authenticate, but not for  *)
(* longer than that after its deletion.                                    *)
DeletedFadeOut ==
  \A p \in Procs : pc[p] \in {"profile", "resolve", "verify", "write"} =>
    LET account == accounts[job[p].token.user]
    IN \/ account.state = "active"
       \/ /\ account.state = "deleted"
          /\ job[p].at - account.closed < Staleness(job[p].token)

(* A role is granted only to an account that was not deleted before the    *)
(* call came in; a deletion after the look at the account goes unnoticed.  *)
GranteeWasActive ==
  \A p \in Procs : pc[p] = "write" =>
    LET account == accounts[job[p].call.user]
    IN \/ account.state = "active"
       \/ account.state = "deleted" /\ account.closed >= job[p].at
------------------------------------------------------------------------------
(* A statement the documentation makes and the code does not keep.         *)

(* README: GET /users/me answers 200 or 401.                               *)
MeIsFoundOrUnauthorized ==
  \A p \in Procs :
    /\ reply[p] # NoReply /\ reply[p].op = "me"
    /\ reply[p].err # "failure"
    => reply[p].code \in {200, 401}
=============================================================================
