------------------------------- MODULE TestApp --------------------------------
(***************************************************************************)
(* The application as its tests wire it: the usecases over the in-memory   *)
(* repositories.  A request goroutine calls a repository once or twice,    *)
(* and other requests and the test itself get in between.                  *)
(***************************************************************************)
EXTENDS Domain, Integers, Sequences

CONSTANTS
  Procs,            \* request goroutines
  Keys, Emails,
  Statuses,         \* the content of a task: the statuses the table allows
  Bad,              \* and one it does not
  Labels,           \* role labels there are
  Nil, NoRow, NoJob, NoReply,
  Window,           \* idempotentExpiry
  Calls,            \* the calls a test may make
  MaxCalls, MaxTime \* bounds: calls made, and clock readings

VARIABLES
  tasks, deleted, logs,
  nextID, byID, byEmail, reservedEmail, members,
  assignees, \* whom each log of logs is about, which the log does not say
  pc, job, reply, issued, now

Tasks    == INSTANCE MemoryTasks
Accounts == INSTANCE MemoryAccounts

taskVars    == <<tasks, deleted, logs, assignees>>
accountVars == <<nextID, byID, byEmail, reservedEmail, members>>
vars == <<taskVars, accountVars, pc, job, reply, issued, now>>

Ids == 1..MaxCalls

Call ==
  [op : {"create"}, key : Keys, content : Statuses \cup {Bad}]
    \cup [op : {"update"}, id : Ids, content : Statuses \cup {Bad}]
    \cup [op : {"assign"}, id : Ids, user : Ids \cup {Nil}]
    \cup [op : {"delete", "close"}, id : Ids]
    \cup [op : {"register", "seed"}, email : Emails]
    \cup [op : {"profile"}, id : Ids, email : Emails]
    \cup [op : {"grant", "revoke"}, id : Ids, label : Labels \cup {Bad}]
    \cup [op : {"age"}, id : Ids, at : 0..MaxTime]

Task  == [key : Keys, user : Ids \cup {Nil}, content : Statuses \cup {Bad}, created : Nat]
User  == [email : Emails]
Log   == [task : Ids, content : Statuses \cup {Bad}, at : Nat]
Reply == [op : {c.op : c \in Call}, id : Nat \cup {Nil}, code : Replies]

(* A task as the table would keep it, deleted or not.                      *)
Row == [key : Keys, user : Ids \cup {Nil}, content : Statuses \cup {Bad},
        created : Nat, deleted : BOOLEAN]

ASSUME ValuesAssumption ==
  Bad \notin Statuses \cup Labels /\ Nil \notin Ids /\ NoRow \notin Row
ASSUME BoundsAssumption == {Window, MaxCalls, MaxTime} \subseteq Nat /\ Calls \subseteq Call

Init ==
  /\ Tasks!Init /\ Accounts!Init
  /\ assignees = <<>>
  /\ pc = [p \in Procs |-> "idle"]
  /\ job = [p \in Procs |-> NoJob]
  /\ reply = [p \in Procs |-> NoReply]
  /\ issued = 0 /\ now = 0
------------------------------------------------------------------------------
Goto(p, label) == pc' = [pc EXCEPT ![p] = label]

Finish(p, id, code) ==
  /\ reply' = [reply EXCEPT ![p] = [op |-> job[p].call.op, id |-> id, code |-> code]]
  /\ Goto(p, "idle")
  /\ job' = [job EXCEPT ![p] = NoJob]
  /\ UNCHANGED <<issued, now>>

Abort(p, err) == Finish(p, Nil, Classify(err)) /\ UNCHANGED <<taskVars, accountVars>>

Pass(p, label, row) ==
  /\ Goto(p, label)
  /\ job' = [job EXCEPT ![p].row = row]
  /\ UNCHANGED <<taskVars, accountVars, reply, issued, now>>

(* Where a call begins.  Removing an assignee needs no look at an account, *)
(* and an unknown role is refused before anything else.                    *)
FirstStep(c) ==
  CASE c.op \in {"update", "profile"}     -> "read"
    [] c.op = "assign" /\ c.user # Nil    -> "verify"
    [] c.op = "register"                  -> "lookup"
    [] c.op \in {"grant", "revoke"}       -> "resolve"
    [] OTHER                              -> "write"

Receive(p, c) ==
  /\ pc[p] = "idle" /\ issued < MaxCalls
  /\ issued' = issued + 1
  /\ Goto(p, FirstStep(c))
  /\ job' = [job EXCEPT ![p] = [call |-> c, id |-> issued + 1, row |-> NoRow]]
  /\ reply' = [reply EXCEPT ![p] = NoReply]
  /\ UNCHANGED <<taskVars, accountVars, now>>
------------------------------------------------------------------------------
(* The first call to a repository, whose result the second one relies on.  *)

ReadTask(p) ==
  LET c == job[p].call
  IN /\ pc[p] = "read" /\ c.op = "update"
     /\ \/ ~Tasks!Stored(c.id) /\ Abort(p, "not_found")
        \/ /\ Tasks!Stored(c.id)
           /\ Pass(p, "write", [tasks[c.id] EXCEPT !.content = c.content])

(* Mutated form of VerifyAssignee: whoever the task is for.                *)
TrustAssignee(p) ==
  pc[p] = "verify" /\ job[p].call.op = "assign" /\ Pass(p, "write", NoRow)

VerifyAssignee(p) ==
  LET user == job[p].call.user
  IN /\ pc[p] = "verify" /\ job[p].call.op = "assign"
     /\ \/ user \notin DOMAIN byID /\ Abort(p, "invalid_input")
        \/ user \in DOMAIN byID /\ Pass(p, "write", NoRow)

LookupEmail(p) ==
  LET email == job[p].call.email
  IN /\ pc[p] = "lookup"
     /\ \/ email \in DOMAIN byEmail /\ Abort(p, "already_exists")
        \/ email \notin DOMAIN byEmail /\ Pass(p, "write", [email |-> email])

ReadUser(p) ==
  LET c == job[p].call
  IN /\ pc[p] = "read" /\ c.op = "profile"
     /\ \/ c.id \notin DOMAIN byID /\ Abort(p, "not_found")
        \/ /\ c.id \in DOMAIN byID
           /\ Pass(p, IF c.email = byID[c.id].email THEN "write" ELSE "check", byID[c.id])

CheckEmail(p) ==
  LET c == job[p].call
      taken == c.email \in DOMAIN byEmail /\ byEmail[c.email] # c.id
  IN /\ pc[p] = "check"
     /\ \/ taken /\ Abort(p, "already_exists")
        \/ ~taken /\ Pass(p, "write", [job[p].row EXCEPT !.email = c.email])

ResolveRole(p) ==
  LET c == job[p].call
  IN /\ pc[p] = "resolve"
     /\ \/ c.label \notin Labels /\ Abort(p, "invalid_input")
        \/ c.label \in Labels /\ Pass(p, "verify", NoRow)

VerifyUser(p) ==
  /\ pc[p] = "verify" /\ job[p].call.op \in {"grant", "revoke"}
  /\ \/ job[p].call.id \notin DOMAIN byID /\ Abort(p, "not_found")
     \/ job[p].call.id \in DOMAIN byID /\ Pass(p, "write", NoRow)
------------------------------------------------------------------------------
(* The second one, which is one step of the repository.                    *)

Writes(p, op) == pc[p] = "write" /\ job[p].call.op = op

CreateTask(p) ==
  LET c     == job[p].call
      draft == [key |-> c.key, user |-> Nil, content |-> c.content, created |-> 0]
  IN /\ Writes(p, "create")
     /\ \/ /\ Tasks!Create(job[p].id, draft, now)
           /\ Finish(p, job[p].id, Created)
           /\ UNCHANGED <<assignees, accountVars>>
        \/ \E id \in Tasks!Replayed(c.key, now) :
             Finish(p, id, OK) /\ UNCHANGED <<taskVars, accountVars>>

UpdateTask(p) ==
  LET id == job[p].call.id
  IN /\ Writes(p, "update")
     /\ \/ ~Tasks!Stored(id) /\ Abort(p, "not_found")
        \/ /\ Tasks!Update(id, job[p].row)
           /\ Finish(p, id, OK)
           /\ UNCHANGED <<assignees, accountVars>>

AssignTask(p) ==
  LET c == job[p].call
  IN /\ Writes(p, "assign")
     /\ \/ ~Tasks!Stored(c.id) /\ Abort(p, "not_found")
        \/ /\ Tasks!Assign(c.id, c.user, now)
           /\ assignees' = IF logs' = logs THEN assignees ELSE Append(assignees, c.user)
           /\ Finish(p, c.id, OK)
           /\ UNCHANGED accountVars

DeleteTask(p) ==
  LET id == job[p].call.id
  IN /\ Writes(p, "delete")
     /\ \/ ~Tasks!Stored(id) /\ Abort(p, "not_found")
        \/ /\ Tasks!Delete(id)
           /\ Finish(p, id, OK)
           /\ UNCHANGED <<assignees, accountVars>>

Register(p) ==
  /\ Writes(p, "register")
  /\ \/ Accounts!Taken(job[p].row.email) /\ Abort(p, "already_exists")
     \/ Accounts!Create(job[p].row) /\ Finish(p, nextID, Created) /\ UNCHANGED taskVars

(* Mutated form of UpdateUser: the row is stored whether or not there      *)
(* still is one.                                                           *)
UpsertUser(p) ==
  /\ Writes(p, "profile")
  /\ Accounts!Put(job[p].call.id, job[p].row)
  /\ Finish(p, job[p].call.id, OK)
  /\ UNCHANGED <<taskVars, nextID, byEmail, reservedEmail, members>>

UpdateUser(p) ==
  LET id == job[p].call.id
  IN /\ Writes(p, "profile")
     /\ \/ id \notin DOMAIN byID /\ Abort(p, "not_found")
        \/ /\ id \in DOMAIN byID /\ Accounts!Conflicts(id, job[p].row.email)
           /\ Abort(p, "already_exists")
        \/ Accounts!Update(id, job[p].row) /\ Finish(p, id, OK) /\ UNCHANGED taskVars

CloseUser(p) ==
  LET id == job[p].call.id
  IN /\ Writes(p, "close")
     /\ \/ id \notin DOMAIN byID /\ Abort(p, "not_found")
        \/ Accounts!Delete(id) /\ Finish(p, id, OK) /\ UNCHANGED taskVars

GrantRole(p) ==
  LET c == job[p].call
  IN /\ Writes(p, "grant")
     /\ Accounts!AssignRole(c.id, c.label) /\ Finish(p, c.id, OK) /\ UNCHANGED taskVars

RevokeRole(p) ==
  LET c == job[p].call
  IN /\ Writes(p, "revoke")
     /\ \/ <<c.id, c.label>> \notin members /\ Abort(p, "not_found")
        \/ /\ Accounts!RevokeRole(c.id, c.label)
           /\ Finish(p, c.id, OK) /\ UNCHANGED taskVars

(* What a test does to the repositories itself.                            *)
SeedUser(p) ==
  LET email == job[p].call.email
  IN /\ Writes(p, "seed")
     /\ \/ email \in DOMAIN byEmail /\ Abort(p, "already_exists")
        \/ Accounts!Seed([email |-> email]) /\ Finish(p, nextID, Created) /\ UNCHANGED taskVars

AgeTask(p) ==
  LET c == job[p].call
  IN /\ Writes(p, "age")
     /\ \/ c.id \notin DOMAIN tasks /\ UNCHANGED taskVars
        \/ Tasks!SetCreatedAt(c.id, c.at) /\ UNCHANGED assignees
     /\ Finish(p, c.id, OK) /\ UNCHANGED accountVars
------------------------------------------------------------------------------
Tick ==
  /\ now < MaxTime
  /\ now' = now + 1
  /\ UNCHANGED <<taskVars, accountVars, pc, job, reply, issued>>

(* Nothing is left to do within the bounds.                                *)
Quiesce ==
  /\ issued = MaxCalls
  /\ \A p \in Procs : pc[p] = "idle"
  /\ UNCHANGED vars

Works(p) ==
  \/ ReadTask(p) \/ VerifyAssignee(p) \/ LookupEmail(p) \/ ReadUser(p)
  \/ CheckEmail(p) \/ ResolveRole(p) \/ VerifyUser(p)
  \/ CreateTask(p) \/ UpdateTask(p) \/ AssignTask(p) \/ DeleteTask(p)
  \/ Register(p) \/ UpdateUser(p) \/ CloseUser(p)
  \/ GrantRole(p) \/ RevokeRole(p)
  \/ SeedUser(p) \/ AgeTask(p)

Next == \/ \E p \in Procs : Works(p) \/ \E c \in Calls : Receive(p, c)
        \/ Tick
        \/ Quiesce

Spec == Init /\ [][Next]_vars
------------------------------------------------------------------------------
(* Properties.                                                             *)

(* Every variable keeps its type; a role belongs to a user there was, and  *)
(* so does a task, although neither repository asks the other.             *)
TypeOK ==
  /\ DOMAIN tasks \subseteq Ids /\ \A id \in DOMAIN tasks : tasks[id] \in Task
  /\ deleted \subseteq DOMAIN tasks
  /\ logs \in Seq(Log) /\ assignees \in Seq(Ids \cup {Nil})
  /\ Len(assignees) = Len(logs)
  /\ nextID \in Nat \ {0}
  /\ DOMAIN byID \subseteq 1..nextID - 1 /\ \A id \in DOMAIN byID : byID[id] \in User
  /\ DOMAIN byEmail \subseteq Emails /\ reservedEmail \subseteq Emails
  /\ members \subseteq (1..nextID - 1) \X Labels
  /\ \A id \in DOMAIN tasks : tasks[id].user \in 1..nextID - 1 \cup {Nil}
  /\ pc \in [Procs -> {"idle", "read", "verify", "lookup", "check", "resolve", "write"}]
  /\ reply \in [Procs -> Reply \cup {NoReply}]
  /\ issued \in 0..MaxCalls /\ now \in 0..MaxTime

(* The index by email is exactly that: every user is found under the email *)
(* he has now and under no other, whatever updates write back what they    *)
(* read before another one changed the email or deleted the user.          *)
IndexExact ==
  /\ \A id \in DOMAIN byID : /\ byID[id].email \in DOMAIN byEmail
                             /\ byEmail[byID[id].email] = id
  /\ \A email \in DOMAIN byEmail : /\ byEmail[email] \in DOMAIN byID
                                   /\ byID[byEmail[email]].email = email

(* The repository keeps what the database promises of tasks and logs, but  *)
(* for the tests that change the age of a task: whoever looks at it sees   *)
(* atomic operations, no duplicate within the window, deletes that are     *)
(* final and a log for each assignment.                                    *)
RowOf(id) ==
  IF id \in DOMAIN tasks
  THEN [key |-> tasks[id].key, user |-> tasks[id].user, content |-> tasks[id].content,
        created |-> tasks[id].created, deleted |-> id \in deleted]
  ELSE NoRow
Rows == [id \in Ids |-> RowOf(id)]
Book == [i \in 1..Len(logs) |-> [task |-> logs[i].task, user |-> assignees[i],
                                 content |-> logs[i].content, at |-> logs[i].at]]
Ledger == INSTANCE TaskLedger WITH Distance <- Window, tasks <- Rows, logs <- Book
Aged == \E id \in Ids, at \in 0..MaxTime : Tasks!SetCreatedAt(id, at) /\ UNCHANGED assignees
LedgerKept == Ledger!Init /\ [][Ledger!Next \/ Aged]_taskVars

(* And of accounts: opened once, closed once.                              *)
States == [id \in Ids |-> IF id >= nextID THEN "absent"
                         ELSE IF id \in DOMAIN byID THEN "active" ELSE "deleted"]
Life == INSTANCE AccountLife WITH Users <- Ids, state <- States
LifeCycle == Life!Spec

(* README: a deleted account's email remains reserved.  Of all calls only  *)
(* the seeding of a user by a test gives it to another account, also when  *)
(* the deletion comes between the look at the index and the write.         *)
OnlySeedingReuses ==
  [][\A email \in reservedEmail :
       email \in DOMAIN byEmail' \ DOMAIN byEmail =>
         \E p \in Procs : Writes(p, "seed") /\ job[p].call.email = email /\ pc'[p] = "idle"]_vars
------------------------------------------------------------------------------
(* A statement the documentation makes and the code does not keep.         *)

(* README: swapping a part such as the repository "should not change what  *)
(* the application does".  So no task would be stored with a status that   *)
(* the database refuses.                                                   *)
StoresWhatTheTableStores == \A id \in DOMAIN tasks : tasks[id].content \in Statuses
=============================================================================
