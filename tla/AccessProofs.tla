----------------------------- MODULE AccessProofs ------------------------------
(***************************************************************************)
(* How long a right outlives its revocation and an account its deletion,   *)
(* for any number of requests, accounts, roles and calls, any life time.   *)
(***************************************************************************)
EXTENDS AccessInvariant, TLAPS

LEMMA ClassifyType ==
  ASSUME NEW err \in Errors PROVE Classify(err) \in Replies
BY DEF Errors, DriverErrors, Classify, RouterStatus, StatusOf, Replies

LEMMA ErrorNames ==
  {"unauthorized", "forbidden", "invalid_input", "not_found", "no_route", "failure"} \subseteq Errors
BY DEF Errors, RouterStatus, StatusOf, DriverErrors

(* IInv, taken apart by requests and by tokens.                            *)
Knows(p) ==
  /\ pc[p] # "idle" => job[p] \in Job /\ job[p].at <= now
  /\ pc[p] \in {"profile", "resolve", "verify", "write"} =>
       /\ job[p].token \in tokens
       /\ job[p].at < job[p].token.issued + TTL
  /\ pc[p] \in {"resolve", "verify", "write"} => Admin \in job[p].token.roles
  /\ pc[p] \in Labels \ {"idle", "profile"} => job[p].call.user \in Users
  /\ pc[p] \in {"roles", "issue", "write"} => ActiveAfter(job[p].call.user, job[p].at)
  /\ pc[p] = "issue" /\ Admin \in job[p].roles => AdminAfter(job[p].call.user, job[p].at)
  /\ pc[p] \in {"verify", "write"} => job[p].call.label \in ActiveRoles
Truth(token) ==
  /\ token \in Token
  /\ token.began <= token.issued /\ token.issued <= now
  /\ ActiveAfter(token.user, token.began)
  /\ Admin \in token.roles => AdminAfter(token.user, token.began)
AccountTable == accounts \in [Users -> [state : {"absent", "active", "deleted"}, closed : Nat]]
World ==
  /\ AccountTable
  /\ grants \subseteq Users \X ActiveRoles
  /\ lost \in [Users -> Nat \cup {-1}]
  /\ \A u \in Users : lost[u] <= now
  /\ now \in Nat
Desk ==
  /\ pc \in [Procs -> Labels]
  /\ job \in [Procs -> Job \cup {NoJob}]
  /\ reply \in [Procs -> Reply \cup {NoReply}]
  /\ issued \in 0..MaxCalls

LEMMA Parts ==
  IInv <=> /\ World /\ Desk
           /\ \A token \in tokens : Truth(token)
           /\ \A p \in Procs : Knows(p)
BY DEF IInv, TypeOK, TimesPast, TokensTrue, RequestsKnow, World, AccountTable, Desk, Truth, Knows

(* What is true of an account at some time stays true of that time.        *)
NextActiveAfter(u, time) ==
  \/ accounts'[u].state = "active"
  \/ accounts'[u].state = "deleted" /\ accounts'[u].closed >= time
NextAdminAfter(u, time) == (IF <<u, Admin>> \in grants' THEN now' ELSE lost'[u]) >= time
Onward ==
  /\ World' /\ now <= now'
  /\ \A u \in Users, time \in Nat : time <= now =>
       /\ ActiveAfter(u, time) => NextActiveAfter(u, time)
       /\ AdminAfter(u, time) => NextAdminAfter(u, time)

LEMMA SameWorld ==
  ASSUME World, UNCHANGED <<accounts, grants, lost, now>> PROVE Onward
<1>1. World' /\ now <= now'
  BY DEF World, AccountTable
<1>2. ASSUME NEW u \in Users, NEW time \in Nat
      PROVE  /\ ActiveAfter(u, time) => NextActiveAfter(u, time)
             /\ AdminAfter(u, time) => NextAdminAfter(u, time)
  BY DEF ActiveAfter, AdminAfter, HeldAdmin, NextActiveAfter, NextAdminAfter
<1> QED BY <1>1, <1>2 DEF Onward

LEMMA TokenStaysTrue ==
  ASSUME World, Onward, NEW token, Truth(token) PROVE Truth(token)'
<1>1. /\ token \in Token /\ token.user \in Users /\ token.began \in Nat /\ token.issued \in Nat
      /\ token.began <= token.issued /\ token.issued <= now /\ now \in Nat /\ now' \in Nat
      /\ now <= now'
  BY DEF Truth, Token, World, Onward
<1>2. token.began <= now /\ token.issued <= now'
  BY <1>1
<1>3. /\ ActiveAfter(token.user, token.began) => NextActiveAfter(token.user, token.began)
      /\ AdminAfter(token.user, token.began) => NextAdminAfter(token.user, token.began)
  BY <1>1, <1>2 DEF Onward
<1> QED BY <1>1, <1>2, <1>3
        DEF Truth, ActiveAfter, AdminAfter, HeldAdmin, NextActiveAfter, NextAdminAfter

Kept(p) == pc'[p] = pc[p] /\ job'[p] = job[p]

LEMMA RequestStillKnows ==
  ASSUME World, Onward, tokens \subseteq tokens', NEW p \in Procs, Knows(p), Kept(p)
  PROVE  Knows(p)'
<1>1. now \in Nat /\ now' \in Nat /\ now <= now'
  BY DEF World, Onward
<1>2. pc[p] # "idle" => job[p] \in Job /\ job[p].at \in Nat /\ job[p].at <= now /\ job[p].at <= now'
  BY <1>1 DEF Knows, Job
<1>3. ASSUME pc[p] \in {"roles", "issue", "write"}
      PROVE  /\ NextActiveAfter(job[p].call.user, job[p].at)
             /\ pc[p] = "issue" /\ Admin \in job[p].roles => NextAdminAfter(job[p].call.user, job[p].at)
  BY <1>2, <1>3 DEF Knows, Labels, Onward
<1> QED BY <1>1, <1>2, <1>3
        DEF Knows, Kept, ActiveAfter, AdminAfter, HeldAdmin, NextActiveAfter, NextAdminAfter

(* Who touches what: a step concerns one request at most, and the tokens.  *)
LEMMA Preserved ==
  ASSUME IInv, Onward, Desk', tokens \subseteq tokens',
         \A token \in tokens' \ tokens : Truth(token)',
         \A p \in Procs : Kept(p) \/ Knows(p)'
  PROVE  IInv'
<1>1. World /\ (\A token \in tokens : Truth(token)) /\ (\A p \in Procs : Knows(p))
  BY Parts
<1>2. \A token \in tokens' : Truth(token)'
  BY <1>1, TokenStaysTrue
<1>3. \A p \in Procs : Knows(p)'
  BY <1>1, RequestStillKnows
<1>4. World'
  BY DEF Onward
<1>5. (/\ World /\ Desk
       /\ \A token \in tokens : Truth(token)
       /\ \A p \in Procs : Knows(p))'
  BY <1>2, <1>3, <1>4
<1> QED BY <1>5, Parts, PTL
------------------------------------------------------------------------------
(* Steps of requests.                                                      *)

Others(p) == \A q \in Procs \ {p} : Kept(q)

(* Answering a request leaves its process idle and well typed.             *)
LEMMA AnswerEffect ==
  ASSUME Desk, NEW p \in Procs, NEW op \in Ops, NEW err \in Errors \cup {"none"},
         NEW code \in Replies, Answer(p, op, err, code), issued' \in 0..MaxCalls
  PROVE  Desk' /\ Others(p) /\ Knows(p)'
<1>1. Desk'
  BY DEF Desk, Answer, Goto, Reply, Labels
<1>2. Others(p) /\ pc'[p] = "idle"
  BY DEF Desk, Answer, Goto, Others, Kept
<1> QED BY <1>1, <1>2 DEF Knows

LEMMA FinishEffect ==
  ASSUME IInv, NEW p \in Procs, pc[p] # "idle", NEW err \in Errors \cup {"none"},
         NEW code \in Replies, Finish(p, err, code)
  PROVE  Desk' /\ Others(p) /\ Knows(p)'
<1>1. Desk /\ Knows(p)
  BY Parts
<1>2. job[p].call.op \in Ops /\ issued' \in 0..MaxCalls
  BY <1>1 DEF Knows, Job, Call, Finish, Desk
<1> QED BY <1>1, <1>2, AnswerEffect DEF Finish

(* A step that touches one request, and nothing else.                      *)
LEMMA RequestStep ==
  ASSUME IInv, NEW p \in Procs, UNCHANGED <<accounts, grants, lost, now, tokens>>,
         Desk', Others(p), Knows(p)'
  PROVE  IInv'
BY Parts, SameWorld, Preserved DEF Others

LEMMA AbortStep ==
  ASSUME IInv, NEW p \in Procs, pc[p] # "idle", NEW err \in Errors, Abort(p, err)
  PROVE  IInv'
<1>1. Finish(p, err, Classify(err)) /\ UNCHANGED <<accounts, grants, lost, now, tokens>>
  BY DEF Abort, Finish
<1> QED BY <1>1, ClassifyType, FinishEffect, RequestStep

(* A request goes on to its next statement with what it has learnt.        *)
LEMMA PassStep ==
  ASSUME IInv, NEW p \in Procs, NEW label \in Labels \ {"idle"}, Pass(p, label), Knows(p)'
  PROVE  IInv'
<1>1. Desk
  BY Parts
<1>2. Desk' /\ Others(p)
  BY <1>1 DEF Desk, Pass, Goto, Others, Kept
<1> QED BY <1>2, RequestStep DEF Pass

LEMMA RefuseStep ==
  ASSUME IInv, NEW p \in Procs, NEW c \in Calls, NEW err \in Errors, Refuse(p, c, err)
  PROVE  IInv'
<1>1. Desk /\ issued' \in 0..MaxCalls /\ c.op \in Ops
  BY Parts, BoundsAssumption, CallsAssumption DEF Desk, Refuse, Receive, Call
<1>2. Desk' /\ Others(p) /\ Knows(p)'
  BY <1>1, ClassifyType, AnswerEffect DEF Refuse
<1> QED BY <1>2, RequestStep DEF Refuse, Receive

LEMMA AcceptStep ==
  ASSUME IInv, NEW p \in Procs, NEW c \in Calls, NEW token \in tokens \cup {Nil},
         NEW label \in {"lookup", "profile", "resolve"}, Accept(p, c, token, label),
         label = "lookup"  => c.op = "login",
         label = "profile" => c.op = "me",
         label = "resolve" => AdminOnly(c)
  PROVE  IInv'
<1> DEFINE started == [call |-> c, token |-> token, roles |-> {}, at |-> now]
<1>1. /\ World /\ Desk /\ c \in Call /\ (\A t \in tokens : Truth(t))
  BY Parts, CallsAssumption
<1>2. started \in Job /\ now \in Nat
  BY <1>1 DEF Job, Truth, World
<1>3. label # "profile" => c.user \in Users
  <2>1. label # "profile" => c.op # "me" /\ c.user # Bad /\ c.user # Nil
    BY CallsAssumption DEF Accept, Malformed, AdminOnly
  <2> QED BY <1>1, <2>1 DEF Call
<1>4. label # "lookup" => /\ token \in tokens
                          /\ now < token.issued + TTL
                          /\ label = "resolve" => Admin \in token.roles
  <2>1. label # "lookup" => Guarded(c)
    BY DEF Guarded, AdminOnly
  <2>2. label # "lookup" => Verified(token)
    BY <2>1 DEF Accept, Unauthorized
  <2> QED BY <2>2 DEF Accept, Forbidden, Verified
<1>5. /\ pc' = [pc EXCEPT ![p] = label] /\ job' = [job EXCEPT ![p] = started]
      /\ reply' = [reply EXCEPT ![p] = NoReply] /\ issued' = issued + 1 /\ issued < MaxCalls
      /\ UNCHANGED <<accounts, grants, lost, now, tokens>>
  BY DEF Accept, Receive, Goto
<1>6. Desk' /\ Others(p)
  BY <1>1, <1>2, <1>5, BoundsAssumption DEF Desk, Labels, Others, Kept
<1>7. Knows(p)'
  <2>1. pc'[p] = label /\ job'[p] = started
    BY <1>1, <1>5 DEF Desk
  <2> QED BY <1>2, <1>3, <1>4, <1>5, <2>1 DEF Knows, Labels
<1> QED BY <1>5, <1>6, <1>7, RequestStep

LEMMA ReceivesStep ==
  ASSUME IInv, NEW p \in Procs, Receives(p) PROVE IInv'
<1>1. PICK c \in Calls : \/ CallLogin(p, c)
                         \/ \E token \in tokens \cup {Nil} :
                              RefuseCall(p, c, token) \/ CallMe(p, c, token) \/ CallManage(p, c, token)
  BY DEF Receives
<1>2. CASE CallLogin(p, c)
  BY <1>2, AcceptStep DEF CallLogin
<1>3. ASSUME NEW token \in tokens \cup {Nil}, RefuseCall(p, c, token) PROVE IInv'
  BY <1>3, ErrorNames, RefuseStep DEF RefuseCall
<1>4. ASSUME NEW token \in tokens \cup {Nil}, CallMe(p, c, token) PROVE IInv'
  BY <1>4, AcceptStep DEF CallMe
<1>5. ASSUME NEW token \in tokens \cup {Nil}, CallManage(p, c, token) PROVE IInv'
  BY <1>5, AcceptStep DEF CallManage
<1> QED BY <1>1, <1>2, <1>3, <1>4, <1>5
------------------------------------------------------------------------------
(* Login.                                                                  *)

(* The request is well typed, and came in not after the present.           *)
LEMMA Busy ==
  ASSUME IInv, NEW p \in Procs, pc[p] # "idle"
  PROVE  /\ World /\ Desk /\ Knows(p)
         /\ job[p] \in Job /\ job[p].at \in Nat /\ job[p].at <= now /\ now \in Nat
BY Parts DEF Knows, Job, World

LEMMA LookupUserStep ==
  ASSUME IInv, NEW p \in Procs, LookupUser(p) PROVE IInv'
<1>1. /\ World /\ Desk /\ Knows(p) /\ job[p] \in Job /\ job[p].at <= now
      /\ pc[p] = "lookup"
  BY Busy DEF LookupUser
<1>2. CASE Abort(p, "unauthorized")
  BY <1>1, <1>2, ErrorNames, AbortStep
<1>3. CASE HasAccount(job[p].call.user) /\ Pass(p, "roles")
  <2>1. pc'[p] = "roles" /\ job' = job /\ UNCHANGED <<accounts, grants, lost, now, tokens>>
    BY <1>1, <1>3 DEF Pass, Goto, Desk
  <2>2. job[p].call.user \in Users
    BY <1>1 DEF Knows, Labels
  <2>3. Knows(p)'
    BY <1>1, <1>3, <2>1, <2>2 DEF Knows, HasAccount, ActiveAfter
  <2> QED BY <1>3, <2>3, PassStep DEF Labels
<1> QED BY <1>2, <1>3 DEF LookupUser

(* A user has the role ADMIN only if there is a row that says so.          *)
LEMMA RolesType ==
  ASSUME NEW u
  PROVE  RolesOf(u) \subseteq Roles /\ (Admin \in RolesOf(u) => <<u, Admin>> \in grants)
BY RolesAssumption DEF RolesOf

LEMMA ReadRolesStep ==
  ASSUME IInv, NEW p \in Procs, ReadRoles(p) PROVE IInv'
<1>1. /\ World /\ Desk /\ Knows(p) /\ job[p] \in Job /\ job[p].at \in Nat /\ job[p].at <= now
      /\ pc[p] = "roles" /\ now \in Nat
  BY Busy DEF ReadRoles
<1> DEFINE user == job[p].call.user
           read == [job[p] EXCEPT !.roles = RolesOf(user)]
<1>2. /\ read \in Job /\ read.at = job[p].at /\ read.call = job[p].call
      /\ read.roles = RolesOf(user)
  BY <1>1, RolesType DEF Job
<1>3. /\ pc' = [pc EXCEPT ![p] = "issue"] /\ job' = [job EXCEPT ![p] = read]
      /\ UNCHANGED <<accounts, grants, tokens, lost, reply, issued, now>>
  BY DEF ReadRoles, Goto
<1>4. Desk' /\ Others(p) /\ pc'[p] = "issue" /\ job'[p] = read
  BY <1>1, <1>2, <1>3 DEF Desk, Labels, Others, Kept
<1>5. user \in Users /\ ActiveAfter(user, job[p].at)
  BY <1>1 DEF Knows, Labels
<1>6. Admin \in read.roles => AdminAfter(user, job[p].at)
  BY <1>1, <1>2, RolesType DEF AdminAfter, HeldAdmin
<1>7. Knows(p)'
  <2> HIDE DEF read
  <2> QED BY <1>1, <1>2, <1>3, <1>4, <1>5, <1>6
          DEF Knows, Labels, ActiveAfter, AdminAfter, HeldAdmin
<1> QED BY <1>3, <1>4, <1>7, RequestStep

LEMMA IssueStep ==
  ASSUME IInv, NEW p \in Procs, Issue(p) PROVE IInv'
<1>1. /\ World /\ Desk /\ Knows(p) /\ job[p] \in Job /\ job[p].at \in Nat /\ job[p].at <= now
      /\ pc[p] = "issue" /\ now \in Nat
  BY Busy DEF Issue
<1>0. PICK token : token = [user |-> job[p].call.user, roles |-> job[p].roles,
                            began |-> job[p].at, issued |-> now]
  OBVIOUS
<1>2. tokens' = tokens \cup {token} /\ UNCHANGED <<accounts, grants, lost, now>>
  BY <1>0 DEF Issue, Finish
<1>3. /\ job[p].call.user \in Users /\ ActiveAfter(job[p].call.user, job[p].at)
      /\ Admin \in job[p].roles => AdminAfter(job[p].call.user, job[p].at)
  BY <1>1 DEF Knows, Labels
<1>4. token \in Token
  BY <1>0, <1>1, <1>3 DEF Token, Job
<1>5. Truth(token)
  BY <1>0, <1>1, <1>3, <1>4 DEF Truth
<1>6. Onward
  BY <1>1, <1>2, SameWorld
<1>7. Truth(token)'
  BY <1>1, <1>5, <1>6, TokenStaysTrue
<1>8. Desk' /\ Others(p) /\ Knows(p)'
  BY <1>1, FinishEffect DEF Issue, OK, Replies
<1> QED BY <1>2, <1>6, <1>7, <1>8, Preserved DEF Others
------------------------------------------------------------------------------
(* The other requests.                                                     *)

LEMMA GetMeStep ==
  ASSUME IInv, NEW p \in Procs, GetMe(p) PROVE IInv'
<1>1. CASE Abort(p, "not_found")
  BY <1>1, ErrorNames, AbortStep DEF GetMe
<1>2. CASE Finish(p, "none", OK) /\ UNCHANGED <<grants, tokens, lost>>
  <2>1. Desk' /\ Others(p) /\ Knows(p)'
    BY <1>2, FinishEffect DEF GetMe, OK, Replies
  <2> QED BY <1>2, <2>1, RequestStep DEF Finish
<1> QED BY <1>1, <1>2 DEF GetMe

LEMMA ResolveRoleStep ==
  ASSUME IInv, NEW p \in Procs, ResolveRole(p) PROVE IInv'
<1>1. Desk /\ Knows(p) /\ pc[p] = "resolve"
  BY Busy DEF ResolveRole
<1>2. CASE Abort(p, "invalid_input")
  BY <1>1, <1>2, ErrorNames, AbortStep
<1>3. CASE job[p].call.label \in ActiveRoles /\ Pass(p, "verify")
  <2>1. pc'[p] = "verify" /\ job' = job /\ UNCHANGED <<now, tokens>>
    BY <1>1, <1>3 DEF Pass, Goto, Desk
  <2>2. Knows(p)'
    BY <1>1, <1>3, <2>1 DEF Knows, Labels
  <2> QED BY <1>3, <2>2, PassStep DEF Labels
<1> QED BY <1>2, <1>3 DEF ResolveRole

LEMMA VerifyUserStep ==
  ASSUME IInv, NEW p \in Procs, VerifyUser(p) PROVE IInv'
<1>1. Desk /\ Knows(p) /\ pc[p] = "verify"
  BY Busy DEF VerifyUser
<1>2. CASE Abort(p, "not_found")
  BY <1>1, <1>2, ErrorNames, AbortStep
<1>3. CASE HasAccount(job[p].call.user) /\ Pass(p, "write")
  <2>1. pc'[p] = "write" /\ job' = job /\ UNCHANGED <<accounts, now, tokens>>
    BY <1>1, <1>3 DEF Pass, Goto, Desk
  <2>2. Knows(p)'
    BY <1>1, <1>3, <2>1 DEF Knows, Labels, HasAccount, ActiveAfter
  <2> QED BY <1>3, <2>2, PassStep DEF Labels
<1> QED BY <1>2, <1>3 DEF VerifyUser

LEMMA StoredEffect ==
  ASSUME IInv, NEW p \in Procs, pc[p] # "idle", Stored(p)
  PROVE  Desk' /\ Others(p) /\ Knows(p)' /\ UNCHANGED <<accounts, now, tokens>>
<1>1. PICK err \in Errors \cup {"none"}, code \in Replies : Finish(p, err, code)
  BY ErrorNames, ClassifyType DEF Stored, OK, Replies
<1> QED BY <1>1, FinishEffect DEF Stored, Finish

LEMMA AssignRoleStep ==
  ASSUME IInv, NEW p \in Procs, AssignRole(p) PROVE IInv'
<1>1. World /\ Knows(p) /\ pc[p] = "write"
  BY Busy DEF AssignRole
<1>2. Desk' /\ Others(p) /\ Knows(p)' /\ UNCHANGED <<accounts, now, tokens, lost>>
  BY <1>1, StoredEffect DEF AssignRole
<1>3. job[p].call.user \in Users /\ job[p].call.label \in ActiveRoles
  BY <1>1 DEF Knows, Labels
<1>4. World' /\ now <= now'
  BY <1>1, <1>2, <1>3 DEF World, AccountTable, AssignRole
<1>5. ASSUME NEW u \in Users, NEW time \in Nat, time <= now
      PROVE  /\ ActiveAfter(u, time) => NextActiveAfter(u, time)
             /\ AdminAfter(u, time) => NextAdminAfter(u, time)
  BY <1>1, <1>2, <1>5
  DEF ActiveAfter, AdminAfter, HeldAdmin, NextActiveAfter, NextAdminAfter, AssignRole, World
<1>6. Onward
  BY <1>4, <1>5 DEF Onward
<1> QED BY <1>2, <1>6, Preserved DEF Others

LEMMA RevokeRoleStep ==
  ASSUME IInv, NEW p \in Procs, RevokeRole(p) PROVE IInv'
<1> DEFINE row == <<job[p].call.user, job[p].call.label>>
<1>1. World /\ Knows(p) /\ pc[p] = "write"
  BY Busy DEF RevokeRole
<1>2. CASE Abort(p, "not_found")
  BY <1>1, <1>2, ErrorNames, AbortStep
<1>3. CASE /\ grants' = grants \ {row}
           /\ lost' = IF job[p].call.label = Admin
                      THEN [lost EXCEPT ![job[p].call.user] = now] ELSE lost
           /\ Stored(p)
  <2>1. Desk' /\ Others(p) /\ Knows(p)' /\ UNCHANGED <<accounts, now, tokens>>
    BY <1>1, <1>3, StoredEffect
  <2>2. World' /\ now <= now'
    <3>1. job[p].call.user \in Users
      BY <1>1 DEF Knows, Labels
    <3>2. /\ grants' \subseteq grants /\ lost' \in [Users -> Nat \cup {-1}]
          /\ \A u \in Users : lost'[u] <= now
      BY <1>1, <1>3, <3>1 DEF World
    <3> QED BY <1>1, <2>1, <3>2 DEF World, AccountTable
  <2>3. ASSUME NEW u \in Users, NEW time \in Nat, time <= now
        PROVE  /\ ActiveAfter(u, time) => NextActiveAfter(u, time)
               /\ AdminAfter(u, time) => NextAdminAfter(u, time)
    BY <1>1, <1>3, <2>1, <2>3
    DEF ActiveAfter, AdminAfter, HeldAdmin, NextActiveAfter, NextAdminAfter, World
  <2>4. Onward
    BY <2>2, <2>3 DEF Onward
  <2> QED BY <2>1, <2>4, Preserved DEF Others
<1> QED BY <1>2, <1>3 DEF RevokeRole
------------------------------------------------------------------------------
(* The environment.                                                        *)

LEMMA EnvironmentStep ==
  ASSUME IInv, Onward, UNCHANGED <<tokens, pc, job, reply, issued>> PROVE IInv'
<1>1. Desk' /\ \A p \in Procs : Kept(p)
  BY Parts DEF Desk, Kept
<1> QED BY <1>1, Preserved

LEMMA OpenStep ==
  ASSUME IInv, NEW u \in Users, Open(u) PROVE IInv'
<1>1. World
  BY Parts
<1>2. World' /\ now <= now'
  BY <1>1 DEF World, AccountTable, Open
<1>3. ASSUME NEW v \in Users, NEW time \in Nat
      PROVE  /\ ActiveAfter(v, time) => NextActiveAfter(v, time)
             /\ AdminAfter(v, time) => NextAdminAfter(v, time)
  BY <1>1 DEF ActiveAfter, AdminAfter, HeldAdmin, NextActiveAfter, NextAdminAfter,
              World, AccountTable, Open
<1> QED BY <1>2, <1>3, EnvironmentStep DEF Onward, Open

LEMMA CloseStep ==
  ASSUME IInv, NEW u \in Users, Close(u) PROVE IInv'
<1>1. World
  BY Parts
<1>2. World' /\ now <= now'
  BY <1>1 DEF World, AccountTable, Close
<1>3. ASSUME NEW v \in Users, NEW time \in Nat, time <= now
      PROVE  /\ ActiveAfter(v, time) => NextActiveAfter(v, time)
             /\ AdminAfter(v, time) => NextAdminAfter(v, time)
  BY <1>1, <1>3 DEF ActiveAfter, AdminAfter, HeldAdmin, NextActiveAfter, NextAdminAfter,
                    World, AccountTable, Close
<1> QED BY <1>2, <1>3, EnvironmentStep DEF Onward, Close

LEMMA TickStep ==
  ASSUME IInv, Tick PROVE IInv'
<1>1. World
  BY Parts
<1>2. now \in Nat /\ now' = now + 1 /\ UNCHANGED <<accounts, grants, lost>>
  BY <1>1 DEF World, Tick
<1>3. \A u \in Users : lost'[u] <= now'
  BY <1>1, <1>2 DEF World
<1>4. World' /\ now <= now'
  BY <1>1, <1>2, <1>3 DEF World, AccountTable
<1>5. ASSUME NEW u \in Users, NEW time \in Nat, time <= now
      PROVE  /\ ActiveAfter(u, time) => NextActiveAfter(u, time)
             /\ AdminAfter(u, time) => NextAdminAfter(u, time)
  BY <1>2, <1>5 DEF ActiveAfter, AdminAfter, HeldAdmin, NextActiveAfter, NextAdminAfter
<1> QED BY <1>4, <1>5, EnvironmentStep DEF Onward, Tick

LEMMA StutterStep ==
  ASSUME IInv, UNCHANGED vars PROVE IInv'
BY Parts, SameWorld, EnvironmentStep DEF vars
------------------------------------------------------------------------------
(* The invariant, and what follows from it.                                *)

LEMMA InitInvariant == ASSUME Init PROVE IInv
<1>1. World
  BY UsersAssumption, RolesAssumption DEF Init, World, AccountTable
<1>2. Desk /\ \A p \in Procs : Knows(p)
  BY BoundsAssumption DEF Init, Desk, Knows, Labels
<1> QED BY <1>1, <1>2, Parts DEF Init

LEMMA WorksStep ==
  ASSUME IInv, NEW p \in Procs, Works(p) PROVE IInv'
BY LookupUserStep, ReadRolesStep, IssueStep, GetMeStep, ResolveRoleStep, VerifyUserStep,
   AssignRoleStep, RevokeRoleStep DEF Works

LEMMA NextInvariant == ASSUME IInv, [Next]_vars PROVE IInv'
<1>1. ASSUME NEW p \in Procs, Receives(p) PROVE IInv'
  BY <1>1, ReceivesStep
<1>2. ASSUME NEW p \in Procs, Works(p) PROVE IInv'
  BY <1>2, WorksStep
<1>3. ASSUME NEW p \in Procs, Fail(p) PROVE IInv'
  BY <1>3, ErrorNames, AbortStep DEF Fail
<1>4. ASSUME NEW u \in Users, Open(u) \/ Close(u) PROVE IInv'
  BY <1>4, OpenStep, CloseStep
<1>5. CASE Quiesce \/ UNCHANGED vars
  BY <1>5, StutterStep DEF Quiesce
<1> QED BY <1>1, <1>2, <1>3, <1>4, <1>5, TickStep DEF Next

(* What holds at every statement of a login, a guarded call, a grant or a  *)
(* revocation, whatever came between.                                      *)
THEOREM Invariance == Spec => []IInv
BY InitInvariant, NextInvariant, PTL DEF Spec

(* A token that is used past the guard is a token that was issued, and the *)
(* tables hold active roles only.                                          *)
THEOREM TypeCorrectness == Spec => []TypeOK
<1>1. IInv => TypeOK
  BY DEF IInv
<1> QED BY <1>1, Invariance, PTL

(* What the bearer of a token that passed the guard knows.                 *)
LEMMA TokenInUse ==
  ASSUME IInv, NEW p \in Procs, pc[p] \in {"profile", "resolve", "verify", "write"}
  PROVE  /\ Truth(job[p].token)
         /\ job[p].token.user \in Users
         /\ {job[p].at, job[p].token.began, job[p].token.issued, TTL} \subseteq Nat
         /\ job[p].at < job[p].token.issued + TTL
<1>1. Knows(p) /\ job[p] \in Job /\ job[p].at \in Nat
  BY Busy
<1>2. Truth(job[p].token) /\ job[p].at < job[p].token.issued + TTL
  BY <1>1, Parts DEF Knows
<1> QED BY <1>1, <1>2, TTLAssumption DEF Truth, Token

(* A revoked administrator acts for the life time of a token and the       *)
(* duration of a login at most.                                            *)
THEOREM RevocationBound == Spec => []AdminsActBriefly
<1>1. ASSUME IInv PROVE AdminsActBriefly
  <2>1. SUFFICES ASSUME NEW p \in Procs, pc[p] \in {"resolve", "verify", "write"}
                 PROVE  job[p].at - HeldAdmin(job[p].token.user) < Staleness(job[p].token)
    BY DEF AdminsActBriefly
  <2>2. Knows(p) /\ World
    BY <1>1, Parts
  <2>3. HeldAdmin(job[p].token.user) >= job[p].token.began
    BY <1>1, <2>1, <2>2, TokenInUse DEF Knows, Truth, AdminAfter
  <2>4. HeldAdmin(job[p].token.user) \in Int
    BY <1>1, <2>1, <2>2, TokenInUse DEF World, HeldAdmin
  <2> QED BY <1>1, <2>1, <2>3, <2>4, TokenInUse DEF Staleness
<1> QED BY <1>1, Invariance, PTL

(* So does the bearer of a deleted account's token.                        *)
THEOREM DeletionBound == Spec => []DeletedFadeOut
<1>1. ASSUME IInv PROVE DeletedFadeOut
  <2>1. SUFFICES ASSUME NEW p \in Procs, pc[p] \in {"profile", "resolve", "verify", "write"}
                 PROVE  \/ accounts[job[p].token.user].state = "active"
                        \/ /\ accounts[job[p].token.user].state = "deleted"
                           /\ job[p].at - accounts[job[p].token.user].closed
                                < Staleness(job[p].token)
    BY DEF DeletedFadeOut
  <2>2. World
    BY <1>1, Parts
  <2>3. /\ ActiveAfter(job[p].token.user, job[p].token.began)
        /\ accounts[job[p].token.user].closed \in Nat
    BY <1>1, <2>1, <2>2, TokenInUse DEF Truth, World, AccountTable
  <2> QED BY <1>1, <2>1, <2>3, TokenInUse DEF Staleness, ActiveAfter
<1> QED BY <1>1, Invariance, PTL

(* A role goes to an account that was not deleted before the call.         *)
THEOREM GranteeActive == Spec => []GranteeWasActive
<1>1. IInv => GranteeWasActive
  BY DEF IInv, RequestsKnow, GranteeWasActive, ActiveAfter
<1> QED BY <1>1, Invariance, PTL
===============================================================================
