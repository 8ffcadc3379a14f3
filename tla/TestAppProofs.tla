---------------------------- MODULE TestAppProofs -----------------------------
(***************************************************************************)
(* The repositories of the tests keep their index exact and implement the  *)
(* ledger of tasks and the life of accounts, for any number of requests,   *)
(* keys, emails and calls.                                                 *)
(***************************************************************************)
EXTENDS TestAppInvariant, TLAPS, WellFoundedInduction

(* Core, taken apart by repository and by request.                         *)
Desk ==
  /\ pc \in [Procs -> {"idle", "read", "verify", "lookup", "check", "resolve", "write"}]
  /\ DOMAIN job = Procs
  /\ issued \in 0..MaxCalls /\ now \in 0..MaxTime
Stored(id) == /\ id <= issued /\ id \in Ids
              /\ tasks[id] \in Task /\ tasks[id].created <= MaxTime
              /\ LoggedFor(id, tasks[id].user)
TaskStore ==
  /\ \A id \in DOMAIN tasks : Stored(id)
  /\ deleted \subseteq DOMAIN tasks
  /\ logs \in Seq(Log) /\ assignees \in Seq(Ids \cup {Nil}) /\ Len(assignees) = Len(logs)
  /\ \A i \in 1..Len(logs) : logs[i].at <= now
UserStore == UserIdsFresh /\ IndexExact
Knows(p) ==
  /\ pc[p] # "idle" => IsJob(job[p]) /\ job[p].id <= issued
  /\ pc[p] \in {"lookup", "check"} => job[p].call.op \in {"register", "profile"}
  /\ Writing(p, "create") => job[p].id \notin DOMAIN tasks
  /\ Writing(p, "update") =>
       /\ job[p].call.id \in DOMAIN tasks
       /\ job[p].row \in Task
       /\ job[p].row.key = tasks[job[p].call.id].key
       /\ LoggedFor(job[p].call.id, job[p].row.user)
IdsApart ==
  \A p, q \in Procs : p # q /\ pc[p] # "idle" /\ pc[q] # "idle" => job[p].id # job[q].id

LEMMA Parts ==
  Core <=> /\ Desk /\ TaskStore /\ UserStore /\ IdsApart
           /\ \A q \in Procs : Knows(q)
BY DEF Core, Shapes, TasksLogged, RequestsKnow, Desk, TaskStore, Stored, UserStore, Knows, IdsApart

(* What a request knows of a task stays true, unless it is about its own.  *)
NextLoggedFor(id, user) ==
  user = Nil \/ \E i \in 1..Len(logs') : logs'[i].task = id /\ assignees'[i] = user
Onward(p) ==
  /\ \A id \in DOMAIN tasks : id \in DOMAIN tasks' /\ tasks'[id].key = tasks[id].key
  /\ \A id \in DOMAIN tasks' \ DOMAIN tasks : pc[p] # "idle" /\ id = job[p].id
  /\ \A id, user : LoggedFor(id, user) => NextLoggedFor(id, user)
  /\ issued <= issued'

Kept(p)   == pc'[p] = pc[p] /\ job'[p] = job[p]
Others(p) == \A q \in Procs \ {p} : Kept(q)

LEMMA OthersStillKnow ==
  ASSUME Core, NEW p \in Procs, NEW q \in Procs \ {p}, Onward(p), Kept(q), Desk'
  PROVE  Knows(q)'
<1>1. Knows(q) /\ issued \in Nat /\ issued' \in Nat /\ issued <= issued'
  BY Parts, BoundsAssumption DEF Desk, Onward
<1>2. pc[q] # "idle" => IsJob(job[q]) /\ job[q].id \in Nat /\ job[q].id <= issued'
  BY <1>1, BoundsAssumption DEF Knows, IsJob, Ids
<1>3. Writing(q, "create") => job[q].id \notin DOMAIN tasks'
  BY <1>1, Parts DEF Knows, Writing, Onward, IdsApart
<1>4. Writing(q, "update") => /\ job[q].call.id \in DOMAIN tasks'
                              /\ job[q].row \in Task
                              /\ job[q].row.key = tasks'[job[q].call.id].key
                              /\ NextLoggedFor(job[q].call.id, job[q].row.user)
  BY <1>1 DEF Knows, Onward
<1> QED BY <1>1, <1>2, <1>3, <1>4 DEF Knows, Kept, Writing, LoggedFor, NextLoggedFor

(* A step of one request keeps what the others know.                       *)
LEMMA Preserved ==
  ASSUME Core, NEW p \in Procs, Desk', TaskStore', UserStore', Onward(p), Others(p), Knows(p)',
         pc'[p] # "idle" => \/ pc[p] # "idle" /\ job'[p].id = job[p].id
                            \/ job'[p].id = issued + 1
  PROVE  Core'
<1>1. \A q \in Procs : Knows(q)'
  BY OthersStillKnow DEF Others
<1>2. IdsApart'
  <2>1. IdsApart /\ issued \in Nat /\ \A q \in Procs : pc[q] # "idle" => job[q].id \in Nat /\ job[q].id <= issued
    BY Parts, BoundsAssumption DEF Desk, Knows, IsJob, Ids
  <2> QED BY <2>1 DEF IdsApart, Others, Kept
<1>3. (/\ Desk /\ TaskStore /\ UserStore /\ IdsApart
       /\ \A q \in Procs : Knows(q))'
  BY <1>1, <1>2
<1> QED BY <1>3, Parts, PTL

LEMMA TasksUntouched ==
  ASSUME TaskStore, Desk, UNCHANGED taskVars, issued' \in Nat, issued <= issued', now' \in Nat, now <= now'
  PROVE  TaskStore' /\ \A p \in Procs : Onward(p)
<1>1. /\ tasks' = tasks /\ deleted' = deleted /\ logs' = logs /\ assignees' = assignees
      /\ issued \in Nat /\ now \in Nat
  BY BoundsAssumption DEF taskVars, Desk
<1>2. \A p \in Procs : Onward(p)
  BY <1>1 DEF Onward, LoggedFor, NextLoggedFor
<1>3. \A id \in DOMAIN tasks : Stored(id)'
  BY <1>1, BoundsAssumption DEF TaskStore, Stored, LoggedFor, Ids
<1>4. \A i \in 1..Len(logs) : logs[i].at <= now'
  <2>1. \A i \in 1..Len(logs) : logs[i] \in Log
    BY DEF TaskStore
  <2> QED BY <1>1, <2>1 DEF TaskStore, Log
<1> QED BY <1>1, <1>2, <1>3, <1>4 DEF TaskStore

LEMMA UsersUntouched ==
  ASSUME UserStore, UNCHANGED accountVars PROVE UserStore'
BY DEF UserStore, UserIdsFresh, IndexExact, accountVars
------------------------------------------------------------------------------
(* What the steps of a request have in common.                             *)

LEMMA ClockAndCalls == Desk => issued \in Nat /\ now \in Nat
BY BoundsAssumption DEF Desk

LEMMA FinishEffect ==
  ASSUME Core, NEW p \in Procs, NEW id, NEW code, Finish(p, id, code)
  PROVE  Desk' /\ Others(p) /\ Knows(p)' /\ pc'[p] = "idle" /\ UNCHANGED <<issued, now>>
<1>1. Desk
  BY Parts
<1>2. Desk' /\ Others(p) /\ pc'[p] = "idle" /\ UNCHANGED <<issued, now>>
  BY <1>1 DEF Desk, Finish, Goto, Others, Kept
<1> QED BY <1>2 DEF Knows, Writing

(* A request that ends without a change of the repositories.               *)
LEMMA AbortStep ==
  ASSUME Core, NEW p \in Procs, NEW err, Abort(p, err) PROVE Core'
<1>1. UNCHANGED <<taskVars, accountVars>> /\ Finish(p, Nil, Classify(err))
  BY DEF Abort
<1>2. Desk' /\ Others(p) /\ Knows(p)' /\ pc'[p] = "idle" /\ UNCHANGED <<issued, now>>
  BY <1>1, FinishEffect
<1>3. TaskStore' /\ Onward(p) /\ UserStore'
  BY <1>1, <1>2, Parts, ClockAndCalls, TasksUntouched, UsersUntouched
<1> QED BY <1>2, <1>3, Preserved

(* A request that ends with a change of accounts only.                     *)
LEMMA UserStep ==
  ASSUME Core, NEW p \in Procs, NEW id, NEW code, Finish(p, id, code), UNCHANGED taskVars, UserStore'
  PROVE  Core'
<1>1. Desk' /\ Others(p) /\ Knows(p)' /\ pc'[p] = "idle" /\ UNCHANGED <<issued, now>>
  BY FinishEffect
<1>2. TaskStore' /\ Onward(p)
  BY <1>1, Parts, ClockAndCalls, TasksUntouched
<1> QED BY <1>1, <1>2, Preserved

(* One that ends with a change of tasks.                                   *)
LEMMA TaskStep ==
  ASSUME Core, NEW p \in Procs, NEW id, NEW code, Finish(p, id, code), UNCHANGED accountVars,
         TaskStore', Onward(p)
  PROVE  Core'
BY FinishEffect, Parts, UsersUntouched, Preserved

(* A request goes on to its next call of a repository.                     *)
LEMMA PassEffect ==
  ASSUME Core, NEW p \in Procs, pc[p] # "idle", NEW row,
         NEW label \in {"idle", "read", "verify", "lookup", "check", "resolve", "write"},
         Pass(p, label, row)
  PROVE  /\ Desk' /\ Others(p) /\ UNCHANGED <<taskVars, accountVars, issued, now>>
         /\ pc'[p] = label /\ IsJob(job'[p]) /\ job'[p].id <= issued
         /\ job'[p].call = job[p].call /\ job'[p].id = job[p].id /\ job'[p].row = row
<1>1. Desk /\ Knows(p)
  BY Parts
<1> DEFINE next == [job[p] EXCEPT !.row = row]
<1>2. IsJob(job[p]) /\ job[p].id <= issued
  BY <1>1 DEF Knows
<1>3. IsJob(next) /\ next.call = job[p].call /\ next.id = job[p].id /\ next.row = row
  BY <1>2 DEF IsJob
<1>4. pc' = [pc EXCEPT ![p] = label] /\ job' = [job EXCEPT ![p] = next]
      /\ UNCHANGED <<taskVars, accountVars, issued, now>>
  BY DEF Pass, Goto
<1>5. Desk' /\ Others(p) /\ pc'[p] = label /\ job'[p] = next
  <2> HIDE DEF next
  <2> QED BY <1>1, <1>3, <1>4 DEF Desk, Others, Kept
<1> QED BY <1>2, <1>3, <1>4, <1>5

LEMMA PassStep ==
  ASSUME Core, NEW p \in Procs, pc[p] # "idle", NEW row,
         NEW label \in {"idle", "read", "verify", "lookup", "check", "resolve", "write"},
         Pass(p, label, row),
         label = "write" => job[p].call.op \notin {"create", "update"},
         label \in {"lookup", "check"} => job[p].call.op = "profile"
  PROVE  Core'
<1>1. /\ Desk' /\ Others(p) /\ UNCHANGED <<taskVars, accountVars, issued, now>>
      /\ pc'[p] = label /\ IsJob(job'[p]) /\ job'[p].id <= issued
      /\ job'[p].call = job[p].call /\ job'[p].id = job[p].id
  BY PassEffect
<1>2. Knows(p)'
  BY <1>1 DEF Knows, Writing
<1>3. TaskStore' /\ Onward(p) /\ UserStore'
  BY <1>1, Parts, ClockAndCalls, TasksUntouched, UsersUntouched
<1> QED BY <1>1, <1>2, <1>3, Preserved

LEMMA ReceiveStep ==
  ASSUME Core, NEW p \in Procs, NEW c \in Calls, Receive(p, c) PROVE Core'
<1> DEFINE started == [call |-> c, id |-> issued + 1, row |-> NoRow]
<1>1. Desk /\ issued \in Nat /\ issued < MaxCalls /\ c \in Call
  BY Parts, ClockAndCalls, BoundsAssumption DEF Receive
<1>2. IsJob(started)
  BY <1>1, BoundsAssumption DEF IsJob, Ids
<1>3. FirstStep(c) \in {"read", "verify", "lookup", "resolve", "write"}
      /\ (FirstStep(c) = "write" => c.op # "update")
      /\ (FirstStep(c) = "lookup" => c.op = "register")
  BY DEF FirstStep
<1>4. /\ pc' = [pc EXCEPT ![p] = FirstStep(c)] /\ job' = [job EXCEPT ![p] = started]
      /\ issued' = issued + 1 /\ now' = now /\ UNCHANGED <<taskVars, accountVars>>
  BY DEF Receive, Goto
<1>5. Desk' /\ Others(p) /\ pc'[p] = FirstStep(c) /\ job'[p] = started
  <2> HIDE DEF started
  <2> QED BY <1>1, <1>2, <1>3, <1>4, BoundsAssumption DEF Desk, Others, Kept
<1>6. TaskStore' /\ Onward(p) /\ UserStore'
  BY <1>1, <1>4, Parts, ClockAndCalls, TasksUntouched, UsersUntouched
<1>7. Knows(p)'
  <2>1. issued + 1 \notin DOMAIN tasks
    BY <1>1, Parts, BoundsAssumption DEF TaskStore, Stored, Ids
  <2> QED BY <1>1, <1>2, <1>3, <1>4, <1>5, <2>1 DEF Knows, Writing, taskVars
<1> QED BY <1>4, <1>5, <1>6, <1>7, Preserved
------------------------------------------------------------------------------
(* What the operations on users do to the two maps.                        *)
LEMMA PutEffect ==
  ASSUME NEW id, NEW user, Accounts!Put(id, user)
  PROVE  /\ DOMAIN byID' = DOMAIN byID \cup {id} /\ byID'[id] = user
         /\ \A other \in DOMAIN byID \ {id} : byID'[other] = byID[other]
BY DEF Accounts!Put, Accounts!With

LEMMA OpenStore ==
  ASSUME UserStore, NEW user, user.email \notin DOMAIN byEmail, Accounts!Open(user)
  PROVE  UserStore'
<1>1. /\ nextID \in Nat \ {0} /\ nextID' = nextID + 1 /\ nextID \notin DOMAIN byID
      /\ DOMAIN byID' = DOMAIN byID \cup {nextID} /\ byID'[nextID] = user
      /\ \A other \in DOMAIN byID : other \in Nat \ {0} /\ other < nextID /\ byID'[other] = byID[other]
  BY DEF Accounts!Open, Accounts!Put, Accounts!With, UserStore, UserIdsFresh
<1>2. /\ DOMAIN byEmail' = DOMAIN byEmail \cup {user.email} /\ byEmail'[user.email] = nextID
      /\ \A email \in DOMAIN byEmail : byEmail'[email] = byEmail[email]
  BY DEF Accounts!Open, Accounts!With
<1>3. UserIdsFresh'
  BY <1>1 DEF UserIdsFresh
<1>4. IndexExact'
  BY <1>1, <1>2 DEF IndexExact, UserStore
<1> QED BY <1>3, <1>4 DEF UserStore

LEMMA UpdateStore ==
  ASSUME UserStore, NEW id, NEW user, Accounts!Update(id, user)
  PROVE  UserStore'
<1> DEFINE old == byID[id].email
<1>1. /\ id \in DOMAIN byID /\ nextID' = nextID
      /\ DOMAIN byID' = DOMAIN byID /\ byID'[id] = user
      /\ \A other \in DOMAIN byID \ {id} : byID'[other] = byID[other]
  BY PutEffect DEF Accounts!Update
<1>2. user.email \in DOMAIN byEmail => byEmail[user.email] = id
  BY DEF Accounts!Update, Accounts!Conflicts
<1>3. UserIdsFresh'
  BY <1>1 DEF UserIdsFresh, UserStore
<1>4. CASE user.email = old
  <2>1. byEmail' = byEmail
    BY <1>4 DEF Accounts!Update, Accounts!Reindexed
  <2> QED BY <1>1, <1>3, <1>4, <2>1 DEF IndexExact, UserStore
<1>5. CASE user.email # old
  <2>1. /\ DOMAIN byEmail' = (DOMAIN byEmail \ {old}) \cup {user.email}
        /\ byEmail'[user.email] = id
        /\ \A email \in DOMAIN byEmail \ {old, user.email} : byEmail'[email] = byEmail[email]
    BY <1>5 DEF Accounts!Update, Accounts!Reindexed, Accounts!With, Accounts!Without, Accounts!Restrict
  <2>2. IndexExact'
    BY <1>1, <1>2, <1>5, <2>1 DEF IndexExact, UserStore
  <2> QED BY <1>3, <2>2 DEF UserStore
<1> QED BY <1>4, <1>5

LEMMA DeleteStore ==
  ASSUME UserStore, NEW id, Accounts!Delete(id)
  PROVE  UserStore'
<1>1. /\ id \in DOMAIN byID /\ nextID' = nextID
      /\ DOMAIN byID' = DOMAIN byID \ {id}
      /\ \A other \in DOMAIN byID \ {id} : byID'[other] = byID[other]
  BY DEF Accounts!Delete, Accounts!Without, Accounts!Restrict
<1>2. /\ DOMAIN byEmail' = DOMAIN byEmail \ {byID[id].email}
      /\ \A email \in DOMAIN byEmail \ {byID[id].email} : byEmail'[email] = byEmail[email]
  BY DEF Accounts!Delete, Accounts!Without, Accounts!Restrict
<1>3. UserIdsFresh'
  BY <1>1 DEF UserIdsFresh, UserStore
<1>4. IndexExact'
  BY <1>1, <1>2 DEF IndexExact, UserStore
<1> QED BY <1>3, <1>4 DEF UserStore

LEMMA UserCalls ==
  ASSUME Core, NEW p \in Procs,
         Register(p) \/ UpdateUser(p) \/ CloseUser(p) \/ SeedUser(p) \/ GrantRole(p) \/ RevokeRole(p)
  PROVE  Core'
<1>1. UserStore
  BY Parts
<1>2. PICK row : row = job[p].row
  OBVIOUS
<1>3. PICK c : c = job[p].call
  OBVIOUS
<1>4. CASE \E err : Abort(p, err)
  BY <1>4, AbortStep
<1>5. CASE Register(p) /\ \A err : ~ Abort(p, err)
  <2>1. PICK id : id = nextID
    OBVIOUS
  <2>2. Accounts!Create(row) /\ Finish(p, id, Created) /\ UNCHANGED taskVars
    BY <1>2, <1>5, <2>1 DEF Register
  <2>3. UserStore'
    BY <1>1, <2>2, OpenStore DEF Accounts!Create, Accounts!Taken
  <2> QED BY <2>2, <2>3, UserStep
<1>6. CASE SeedUser(p) /\ \A err : ~ Abort(p, err)
  <2>1. PICK id : id = nextID
    OBVIOUS
  <2>2. Accounts!Seed([email |-> c.email]) /\ Finish(p, id, Created) /\ UNCHANGED taskVars
    BY <1>3, <1>6, <2>1 DEF SeedUser
  <2>3. UserStore'
    BY <1>1, <2>2, OpenStore DEF Accounts!Seed
  <2> QED BY <2>2, <2>3, UserStep
<1>7. CASE UpdateUser(p) /\ \A err : ~ Abort(p, err)
  <2>1. Accounts!Update(c.id, row) /\ Finish(p, c.id, OK) /\ UNCHANGED taskVars
    BY <1>2, <1>3, <1>7 DEF UpdateUser
  <2> QED BY <1>1, <2>1, UpdateStore, UserStep
<1>8. CASE CloseUser(p) /\ \A err : ~ Abort(p, err)
  <2>1. Accounts!Delete(c.id) /\ Finish(p, c.id, OK) /\ UNCHANGED taskVars
    BY <1>3, <1>8 DEF CloseUser
  <2> QED BY <1>1, <2>1, DeleteStore, UserStep
<1>9. CASE (GrantRole(p) \/ RevokeRole(p)) /\ \A err : ~ Abort(p, err)
  <2>1. /\ Accounts!AssignRole(c.id, c.label) \/ Accounts!RevokeRole(c.id, c.label)
        /\ Finish(p, c.id, OK) /\ UNCHANGED taskVars
    BY <1>3, <1>9 DEF GrantRole, RevokeRole
  <2>2. UserStore'
    BY <1>1, <2>1 DEF Accounts!AssignRole, Accounts!RevokeRole, UserStore, UserIdsFresh, IndexExact
  <2> QED BY <2>1, <2>2, UserStep
<1> QED BY <1>4, <1>5, <1>6, <1>7, <1>8, <1>9

(* The first calls to a repository, but for the read of a task.            *)
GoesOn(p, label, row) ==
  /\ pc[p] # "idle" /\ label \in {"verify", "check", "write"} /\ Pass(p, label, row)
  /\ label = "write" => job[p].call.op \notin {"create", "update"}
  /\ label = "check" => job[p].call.op = "profile"

LEMMA ReadCalls ==
  ASSUME Core, NEW p \in Procs,
         \/ VerifyAssignee(p) \/ LookupEmail(p) \/ ReadUser(p)
         \/ CheckEmail(p) \/ ResolveRole(p) \/ VerifyUser(p)
  PROVE  Core'
<1>1. Knows(p)
  BY Parts
<1>2. CASE \E err : Abort(p, err)
  BY <1>2, AbortStep
<1>3. CASE \A err : ~ Abort(p, err)
  <2>1. VerifyAssignee(p) => GoesOn(p, "write", NoRow)
    BY <1>3 DEF VerifyAssignee, GoesOn
  <2>2. VerifyUser(p) => GoesOn(p, "write", NoRow)
    BY <1>3 DEF VerifyUser, GoesOn
  <2>3. ResolveRole(p) => GoesOn(p, "verify", NoRow)
    BY <1>3 DEF ResolveRole, GoesOn
  <2>4. LookupEmail(p) => GoesOn(p, "write", [email |-> job[p].call.email])
    BY <1>1, <1>3 DEF LookupEmail, GoesOn, Knows
  <2>5. CheckEmail(p) => GoesOn(p, "write", [job[p].row EXCEPT !.email = job[p].call.email])
    BY <1>1, <1>3 DEF CheckEmail, GoesOn, Knows
  <2>6. ReadUser(p) => \/ GoesOn(p, "write", byID[job[p].call.id])
                      \/ GoesOn(p, "check", byID[job[p].call.id])
    BY <1>3 DEF ReadUser, GoesOn
  <2>7. PICK row, label : GoesOn(p, label, row)
    BY <2>1, <2>2, <2>3, <2>4, <2>5, <2>6
  <2> QED BY <2>7, PassStep DEF GoesOn
<1> QED BY <1>2, <1>3

LEMMA ReadTaskStep ==
  ASSUME Core, NEW p \in Procs, ReadTask(p) PROVE Core'
<1>1. CASE \E err : Abort(p, err)
  BY <1>1, AbortStep
<1>2. CASE \A err : ~ Abort(p, err)
  <2>1. PICK id, row : id = job[p].call.id /\ row = [tasks[id] EXCEPT !.content = job[p].call.content]
    OBVIOUS
  <2>2. /\ Pass(p, "write", row) /\ pc[p] = "read" /\ job[p].call.op = "update"
        /\ id \in DOMAIN tasks
    BY <1>2, <2>1 DEF ReadTask, Tasks!Stored
  <2>3. /\ Desk' /\ Others(p) /\ UNCHANGED <<taskVars, accountVars, issued, now>>
        /\ pc'[p] = "write" /\ IsJob(job'[p]) /\ job'[p].id <= issued
        /\ job'[p].call = job[p].call /\ job'[p].id = job[p].id /\ job'[p].row = row
    BY <2>2, PassEffect
  <2>4. job[p].call.content \in Statuses \cup {Bad}
    BY <2>2, Parts DEF Knows, IsJob, Call
  <2>5. row \in Task /\ row.key = tasks[id].key /\ LoggedFor(id, row.user)
    BY <2>1, <2>2, <2>4, Parts DEF TaskStore, Stored, Task
  <2>6. Knows(p)'
    BY <2>1, <2>2, <2>3, <2>5 DEF Knows, Writing, LoggedFor, taskVars
  <2>7. TaskStore' /\ Onward(p) /\ UserStore'
    BY <2>3, Parts, ClockAndCalls, TasksUntouched, UsersUntouched
  <2> QED BY <2>2, <2>3, <2>6, <2>7, Preserved
<1> QED BY <1>1, <1>2
------------------------------------------------------------------------------
(* What the operations on tasks do to the stored tasks.                    *)
LEMMA PutStore ==
  ASSUME Core, NEW p \in Procs, NEW id, NEW task, Tasks!Put(id, task),
         task \in Task, task.created <= MaxTime, LoggedFor(id, task.user),
         id \in Ids, id <= issued,
         \/ id \in DOMAIN tasks /\ task.key = tasks[id].key
         \/ id \notin DOMAIN tasks /\ pc[p] # "idle" /\ id = job[p].id,
         UNCHANGED <<deleted, logs, assignees, issued, now>>
  PROVE  TaskStore' /\ Onward(p)
<1>1. TaskStore /\ issued \in Nat
  BY Parts, ClockAndCalls
<1>2. /\ DOMAIN tasks' = DOMAIN tasks \cup {id} /\ tasks'[id] = task
      /\ \A other \in DOMAIN tasks \ {id} : tasks'[other] = tasks[other]
  BY DEF Tasks!Put
<1>3. Onward(p)
  BY <1>1, <1>2 DEF Onward, LoggedFor, NextLoggedFor
<1>4. \A other \in DOMAIN tasks' : Stored(other)'
  BY <1>1, <1>2 DEF TaskStore, Stored, LoggedFor
<1> QED BY <1>1, <1>2, <1>3, <1>4 DEF TaskStore

LEMMA CreateStep ==
  ASSUME Core, NEW p \in Procs, CreateTask(p) PROVE Core'
<1>1. Desk /\ TaskStore /\ Knows(p) /\ UserStore /\ issued \in Nat /\ now \in Nat /\ now <= MaxTime
  BY Parts, ClockAndCalls, BoundsAssumption DEF Desk
<1>2. PICK id, draft, task :
        /\ id = job[p].id
        /\ draft = [key |-> job[p].call.key, user |-> Nil,
                    content |-> job[p].call.content, created |-> 0]
        /\ task = [draft EXCEPT !.created = now]
  OBVIOUS
<1>3. CASE \E other : Finish(p, other, OK) /\ UNCHANGED <<taskVars, accountVars>>
  BY <1>1, <1>3, UserStep, UsersUntouched
<1>4. CASE Tasks!Create(id, draft, now) /\ Finish(p, id, Created)
           /\ UNCHANGED <<assignees, accountVars>> /\ Writes(p, "create")
  <2>1. Tasks!Put(id, task) /\ UNCHANGED <<deleted, logs, assignees>>
    BY <1>2, <1>4 DEF Tasks!Create, Tasks!Put
  <2>2. id \notin DOMAIN tasks /\ pc[p] # "idle" /\ id \in Ids /\ id <= issued
    BY <1>1, <1>2, <1>4 DEF Writes, Writing, Knows, IsJob
  <2>3. task \in Task /\ task.created <= MaxTime /\ LoggedFor(id, task.user)
    BY <1>1, <1>2, <1>4 DEF Writes, Knows, IsJob, Call, Task, LoggedFor
  <2>4. UNCHANGED <<issued, now>>
    BY <1>4 DEF Finish
  <2>5. TaskStore' /\ Onward(p)
    BY <1>2, <2>1, <2>2, <2>3, <2>4, PutStore
  <2> QED BY <1>4, <2>5, TaskStep
<1> QED BY <1>2, <1>3, <1>4 DEF CreateTask

LEMMA UpdateStep ==
  ASSUME Core, NEW p \in Procs, UpdateTask(p) PROVE Core'
<1>1. Desk /\ TaskStore /\ Knows(p)
  BY Parts
<1>2. CASE \E err : Abort(p, err)
  BY <1>2, AbortStep
<1>3. CASE \A err : ~ Abort(p, err)
  <2>1. PICK id, row, task : /\ id = job[p].call.id /\ row = job[p].row
                             /\ task = [row EXCEPT !.created = tasks[id].created]
    OBVIOUS
  <2>2. Tasks!Update(id, row) /\ Finish(p, id, OK) /\ UNCHANGED <<assignees, accountVars>>
    BY <1>3, <2>1 DEF UpdateTask
  <2>3. Tasks!Put(id, task) /\ UNCHANGED <<deleted, logs, assignees, issued, now>>
    BY <2>1, <2>2 DEF Tasks!Update, Finish
  <2>4. /\ id \in DOMAIN tasks /\ row \in Task /\ row.key = tasks[id].key /\ LoggedFor(id, row.user)
    BY <1>1, <2>1, <1>3 DEF UpdateTask, Writes, Knows, Writing
  <2>5. /\ id \in Ids /\ id <= issued
        /\ task \in Task /\ task.created <= MaxTime /\ task.key = row.key /\ task.user = row.user
    BY <1>1, <2>1, <2>4 DEF TaskStore, Stored, Task
  <2>6. TaskStore' /\ Onward(p)
    BY <2>3, <2>4, <2>5, PutStore
  <2> QED BY <2>2, <2>6, TaskStep
<1> QED BY <1>2, <1>3

LEMMA DeleteStep ==
  ASSUME Core, NEW p \in Procs, DeleteTask(p) PROVE Core'
<1>1. Desk /\ TaskStore /\ issued \in Nat
  BY Parts, ClockAndCalls
<1>2. CASE \E err : Abort(p, err)
  BY <1>2, AbortStep
<1>3. CASE \A err : ~ Abort(p, err)
  <2>1. PICK id : id = job[p].call.id
    OBVIOUS
  <2>2. Tasks!Delete(id) /\ Finish(p, id, OK) /\ UNCHANGED <<assignees, accountVars>>
    BY <1>3, <2>1 DEF DeleteTask
  <2>3. /\ UNCHANGED <<tasks, logs, assignees, issued, now>> /\ deleted' \subseteq DOMAIN tasks
    BY <1>1, <2>2 DEF Tasks!Delete, Tasks!Stored, Finish, TaskStore
  <2>4. Onward(p)
    BY <1>1, <2>3 DEF Onward, LoggedFor, NextLoggedFor
  <2>5. TaskStore'
    BY <1>1, <2>3 DEF TaskStore, Stored, LoggedFor
  <2> QED BY <2>2, <2>4, <2>5, TaskStep
<1> QED BY <1>2, <1>3

LEMMA AgeStep ==
  ASSUME Core, NEW p \in Procs, AgeTask(p) PROVE Core'
<1>1. Desk /\ TaskStore /\ Knows(p) /\ UserStore
  BY Parts
<1>2. PICK id, at : id = job[p].call.id /\ at = job[p].call.at
  OBVIOUS
<1>3. Finish(p, id, OK) /\ UNCHANGED accountVars
  BY <1>2 DEF AgeTask
<1>4. CASE UNCHANGED taskVars
  BY <1>1, <1>3, <1>4, UserStep, UsersUntouched
<1>5. CASE Tasks!SetCreatedAt(id, at) /\ UNCHANGED assignees
  <2>1. PICK task : task = [tasks[id] EXCEPT !.created = at]
    OBVIOUS
  <2>2. id \in DOMAIN tasks /\ Tasks!Put(id, task) /\ UNCHANGED <<deleted, logs, assignees, issued, now>>
    BY <1>3, <1>5, <2>1 DEF Tasks!SetCreatedAt, Finish
  <2>3. at \in 0..MaxTime
    BY <1>1, <1>2 DEF AgeTask, Writes, Knows, IsJob, Call
  <2>4. /\ id \in Ids /\ id <= issued /\ LoggedFor(id, task.user)
        /\ task \in Task /\ task.created <= MaxTime /\ task.key = tasks[id].key
    BY <1>1, <2>1, <2>2, <2>3, BoundsAssumption DEF TaskStore, Stored, Task
  <2>5. TaskStore' /\ Onward(p)
    BY <2>2, <2>4, PutStore
  <2> QED BY <1>3, <2>5, TaskStep
<1> QED BY <1>2, <1>4, <1>5 DEF AgeTask

(* An assignment that changes the assignee and logs it.                    *)
Gives(id, user, log) ==
  /\ Tasks!Put(id, [tasks[id] EXCEPT !.user = user])
  /\ logs' = Append(logs, log) /\ assignees' = Append(assignees, user)
  /\ deleted' = deleted

LEMMA GivesEffect ==
  ASSUME Core, NEW id \in DOMAIN tasks, NEW user \in Ids \cup {Nil}, NEW log \in Log,
         log.task = id, log.at = now, Gives(id, user, log)
  PROVE  /\ DOMAIN tasks' = DOMAIN tasks
         /\ tasks'[id] \in Task /\ tasks'[id].created = tasks[id].created
         /\ tasks'[id].key = tasks[id].key /\ tasks'[id].user = user
         /\ \A other \in DOMAIN tasks \ {id} : tasks'[other] = tasks[other]
         /\ logs' \in Seq(Log) /\ assignees' \in Seq(Ids \cup {Nil})
         /\ Len(logs') = Len(logs) + 1 /\ Len(assignees') = Len(logs')
         /\ \A i \in 1..Len(logs) : logs'[i] = logs[i] /\ assignees'[i] = assignees[i]
         /\ logs'[Len(logs')] = log /\ assignees'[Len(logs')] = user
<1>1. TaskStore /\ tasks[id] \in Task
  BY Parts DEF TaskStore, Stored
<1>2. /\ DOMAIN tasks' = DOMAIN tasks
      /\ tasks'[id] = [tasks[id] EXCEPT !.user = user]
      /\ \A other \in DOMAIN tasks \ {id} : tasks'[other] = tasks[other]
  BY DEF Gives, Tasks!Put
<1>3. /\ tasks'[id] \in Task /\ tasks'[id].created = tasks[id].created
      /\ tasks'[id].key = tasks[id].key /\ tasks'[id].user = user
  BY <1>1, <1>2 DEF Task
<1>4. /\ logs \in Seq(Log) /\ assignees \in Seq(Ids \cup {Nil}) /\ Len(assignees) = Len(logs)
      /\ logs' = Append(logs, log) /\ assignees' = Append(assignees, user)
  BY <1>1 DEF TaskStore, Gives
<1> QED BY <1>2, <1>3, <1>4

LEMMA AssignStep ==
  ASSUME Core, NEW p \in Procs, AssignTask(p) PROVE Core'
<1>1. Desk /\ TaskStore /\ Knows(p) /\ UserStore /\ now \in Nat /\ issued \in Nat
  BY Parts, ClockAndCalls
<1>2. CASE \E err : Abort(p, err)
  BY <1>2, AbortStep
<1>3. CASE \A err : ~ Abort(p, err)
  <2>1. PICK id, user, log : /\ id = job[p].call.id /\ user = job[p].call.user
                             /\ log = [task |-> id, content |-> tasks[id].content, at |-> now]
    OBVIOUS
  <2>2. /\ Tasks!Assign(id, user, now) /\ Finish(p, id, OK) /\ UNCHANGED accountVars
        /\ assignees' = IF logs' = logs THEN assignees ELSE Append(assignees, user)
    BY <1>3, <2>1 DEF AssignTask
  <2>3. id \in DOMAIN tasks /\ deleted' = deleted /\ UNCHANGED <<issued, now>>
    BY <2>2 DEF Tasks!Assign, Tasks!Stored, Finish
  <2>4. CASE UNCHANGED <<tasks, logs>>
    BY <1>1, <2>2, <2>3, <2>4, UserStep, UsersUntouched DEF taskVars
  <2>5. CASE ~ UNCHANGED <<tasks, logs>>
    <3>1. user \in Ids \cup {Nil}
      BY <1>1, <1>3, <2>1 DEF AssignTask, Writes, Knows, IsJob, Call
    <3>2. log \in Log /\ log.task = id /\ log.at = now
      BY <1>1, <2>1, <2>3 DEF TaskStore, Stored, Task, Log
    <3>3. logs' = Append(logs, log) /\ Tasks!Put(id, [tasks[id] EXCEPT !.user = user])
      BY <2>1, <2>2, <2>5 DEF Tasks!Assign
    <3>4. logs' # logs
      BY <1>1, <3>2, <3>3 DEF TaskStore
    <3>5. Gives(id, user, log)
      BY <2>2, <2>3, <3>3, <3>4 DEF Gives
    <3>6. /\ DOMAIN tasks' = DOMAIN tasks
          /\ tasks'[id] \in Task /\ tasks'[id].created = tasks[id].created
          /\ tasks'[id].key = tasks[id].key /\ tasks'[id].user = user
          /\ \A other \in DOMAIN tasks \ {id} : tasks'[other] = tasks[other]
          /\ logs' \in Seq(Log) /\ assignees' \in Seq(Ids \cup {Nil})
          /\ Len(logs') = Len(logs) + 1 /\ Len(assignees') = Len(logs')
          /\ \A i \in 1..Len(logs) : logs'[i] = logs[i] /\ assignees'[i] = assignees[i]
          /\ logs'[Len(logs')] = log /\ assignees'[Len(logs')] = user
      BY <2>3, <3>1, <3>2, <3>5, GivesEffect
    <3>7. Len(logs) \in Nat
      BY <1>1 DEF TaskStore
    <3>8. \A other, who : LoggedFor(other, who) => NextLoggedFor(other, who)
      BY <3>6, <3>7 DEF LoggedFor, NextLoggedFor
    <3>9. Onward(p)
      BY <1>1, <2>3, <3>6, <3>8 DEF Onward
    <3>10. NextLoggedFor(id, user)
      BY <3>2, <3>6, <3>7 DEF NextLoggedFor
    <3>11. \A other \in DOMAIN tasks' : NextLoggedFor(other, tasks'[other].user)
      BY <1>1, <3>6, <3>8, <3>10 DEF TaskStore, Stored
    <3>12. \A other \in DOMAIN tasks' : Stored(other)'
      BY <1>1, <2>3, <3>6, <3>11 DEF TaskStore, Stored, LoggedFor, NextLoggedFor
    <3>13. \A i \in 1..Len(logs') : logs'[i].at <= now
      BY <1>1, <3>2, <3>6, <3>7 DEF TaskStore
    <3>14. TaskStore'
      BY <1>1, <2>3, <3>6, <3>12, <3>13 DEF TaskStore
    <3> QED BY <2>2, <3>9, <3>14, TaskStep
  <2> QED BY <2>4, <2>5
<1> QED BY <1>2, <1>3
------------------------------------------------------------------------------
LEMMA QuietStep ==
  ASSUME Core, Tick \/ UNCHANGED vars PROVE Core'
<1>1. Desk /\ TaskStore /\ UserStore /\ IdsApart /\ \A q \in Procs : Knows(q)
  BY Parts
<1>2. UNCHANGED <<taskVars, accountVars, pc, job, issued>> /\ now' \in 0..MaxTime /\ now <= now'
  BY <1>1, BoundsAssumption DEF Tick, vars, Desk
<1>3. (/\ Desk /\ TaskStore /\ UserStore /\ IdsApart
       /\ \A q \in Procs : Knows(q))'
  <2>1. UserStore'
    BY <1>1, <1>2, UsersUntouched
  <2>2. TaskStore'
    BY <1>1, <1>2, TasksUntouched, ClockAndCalls, BoundsAssumption
  <2>3. Desk' /\ IdsApart' /\ \A q \in Procs : Knows(q)'
    BY <1>1, <1>2 DEF Desk, IdsApart, Knows, Writing, LoggedFor, taskVars
  <2> QED BY <2>1, <2>2, <2>3
<1> QED BY <1>3, Parts, PTL

LEMMA CoreStart == Init => Core
<1> SUFFICES ASSUME Init PROVE Core
  OBVIOUS
<1>1. Desk
  BY BoundsAssumption DEF Init, Desk
<1>2. TaskStore
  BY DEF Init, Tasks!Init, TaskStore
<1>3. UserStore
  BY DEF Init, Accounts!Init, UserStore, UserIdsFresh, IndexExact
<1>4. IdsApart /\ \A q \in Procs : Knows(q)
  BY DEF Init, IdsApart, Knows, Writing
<1> QED BY <1>1, <1>2, <1>3, <1>4, Parts

LEMMA CoreStep == Core /\ [Next]_vars => Core'
<1> SUFFICES ASSUME Core, [Next]_vars PROVE Core'
  OBVIOUS
<1>1. CASE \E p \in Procs : Works(p)
  BY <1>1, ReadTaskStep, ReadCalls, CreateStep, UpdateStep, AssignStep, DeleteStep, AgeStep, UserCalls
     DEF Works
<1>2. CASE \E p \in Procs : \E c \in Calls : Receive(p, c)
  BY <1>2, ReceiveStep
<1>3. CASE Tick \/ UNCHANGED vars
  BY <1>3, QuietStep
<1> QED BY <1>1, <1>2, <1>3 DEF Next, Quiesce

------------------------------------------------------------------------------
(* Types, and what a request found out about users.                        *)

UsersTyped ==
  /\ \A id \in DOMAIN byID : byID[id] \in User
  /\ reservedEmail \subseteq Emails
  /\ members \subseteq (1..nextID - 1) \X Labels
TaskUsers == \A id \in DOMAIN tasks : WasUser(tasks[id].user) \/ tasks[id].user = Nil
Replied   == reply \in [Procs -> Reply \cup {NoReply}]

LEMMA TypeParts ==
  Core => (TypeOK <=> UsersTyped /\ TaskUsers /\ Replied)
<1> SUFFICES ASSUME Core PROVE TypeOK <=> UsersTyped /\ TaskUsers /\ Replied
  OBVIOUS
<1>1. Desk /\ TaskStore /\ UserStore
  BY Parts
<1>2. nextID \in Nat \ {0} /\ DOMAIN byID \subseteq 1..nextID - 1
  BY <1>1 DEF UserStore, UserIdsFresh
<1>3. (\A id \in DOMAIN byID : byID[id] \in User) => DOMAIN byEmail \subseteq Emails
  BY <1>1 DEF UserStore, IndexExact, User
<1> QED
  BY <1>1, <1>2, <1>3 DEF Desk, TaskStore, Stored, TypeOK, UsersTyped, TaskUsers, Replied, WasUser

(* A step of one request, and what it must keep.                           *)
LEMMA TypesKept ==
  ASSUME IInv, NEW p \in Procs, Core', Others(p), nextID <= nextID',
         UsersTyped', TaskUsers', Replied', KnowsUsers(p)'
  PROVE  IInv'
<1>1. nextID \in Nat /\ nextID' \in Nat
  BY Parts DEF IInv, UserStore, UserIdsFresh, Core
<1>2. \A id : WasUser(id) => id \in 1..nextID' - 1
  <2>1. \A old, new \in Nat : old <= new => 1..old - 1 \subseteq 1..new - 1
    OBVIOUS
  <2> QED BY <1>1, <2>1 DEF WasUser
<1>3. \A q \in Procs \ {p} : KnowsUsers(q)'
  BY <1>2 DEF IInv, Others, Kept, KnowsUsers, Writing, WasUser
<1>4. TypeOK'
  BY TypeParts, PTL
<1> QED BY <1>3, <1>4 DEF IInv

LEMMA RepliesTyped ==
  ASSUME Replied, Core, NEW p \in Procs, pc[p] # "idle", NEW id \in Nat \cup {Nil}, NEW code \in Replies,
         Finish(p, id, code)
  PROVE  Replied' /\ KnowsUsers(p)' /\ Others(p)
<1>1. Desk /\ IsJob(job[p])
  BY Parts DEF Knows
<1>2. [op |-> job[p].call.op, id |-> id, code |-> code] \in Reply
  BY <1>1 DEF Reply, IsJob
<1>3. Replied'
  BY <1>2 DEF Finish, Replied
<1>4. pc'[p] = "idle" /\ Others(p)
  BY <1>1 DEF Finish, Goto, Desk, Others, Kept
<1> QED BY <1>3, <1>4 DEF KnowsUsers, Writing

Unmoved == UNCHANGED <<taskVars, accountVars>>

LEMMA TypesUnmoved ==
  ASSUME IInv, Unmoved
  PROVE  nextID <= nextID' /\ UsersTyped' /\ TaskUsers'
<1>1. UsersTyped /\ TaskUsers /\ nextID \in Nat
  BY TypeParts, Parts DEF IInv, UserStore, UserIdsFresh
<1> QED BY <1>1 DEF Unmoved, taskVars, accountVars, UsersTyped, TaskUsers, WasUser

Refuses(p) == \E err \in {"not_found", "invalid_input", "already_exists"} : Abort(p, err)

LEMMA RefusalTyped ==
  ASSUME IInv, Core', NEW p \in Procs, pc[p] # "idle", Refuses(p)
  PROVE  IInv'
<1>1. PICK err \in {"not_found", "invalid_input", "already_exists"} : Abort(p, err)
  BY DEF Refuses
<1>2. PICK code : code = Classify(err)
  OBVIOUS
<1>3. code \in Replies
  BY <1>2 DEF Classify, RouterStatus, StatusOf, Replies
<1>4. Unmoved /\ Finish(p, Nil, code)
  BY <1>1, <1>2 DEF Abort, Unmoved
<1>5. Replied' /\ KnowsUsers(p)' /\ Others(p)
  BY <1>3, <1>4, RepliesTyped, TypeParts DEF IInv
<1> QED BY <1>4, <1>5, TypesUnmoved, TypesKept

(* A request that goes on knows what it is about to rely on.               *)
LEMMA PassTyped ==
  ASSUME IInv, Core', NEW p \in Procs, pc[p] # "idle", NEW row, NEW label \in {"verify", "check", "write"},
         Pass(p, label, row), NEW c, c = job[p].call,
         label = "check" \/ (label = "write" /\ c.op \in {"register", "profile"}) => row \in User,
         label # "check" /\ c.op = "grant" => c.label \in Labels,
         label = "write" /\ c.op = "grant"  => WasUser(c.id),
         label = "write" /\ c.op = "assign" => WasUser(c.user) \/ c.user = Nil,
         label = "write" /\ c.op = "update" => WasUser(row.user) \/ row.user = Nil
  PROVE  IInv'
<1>1. /\ Others(p) /\ UNCHANGED <<taskVars, accountVars>>
      /\ pc'[p] = label /\ job'[p].call = c /\ job'[p].row = row
  BY PassEffect DEF IInv
<1>2. Unmoved /\ nextID' = nextID /\ reply' = reply
  BY <1>1 DEF Pass, Unmoved, accountVars
<1>3. KnowsUsers(p)'
  <2>1. \A id : id \in 1..nextID' - 1 <=> WasUser(id)
    BY <1>2 DEF WasUser
  <2> QED BY <1>1, <2>1 DEF KnowsUsers, Writing, WasUser
<1>4. Replied'
  BY <1>2, TypeParts DEF IInv, Replied
<1> QED BY <1>1, <1>2, <1>3, <1>4, TypesUnmoved, TypesKept

LEMMA ReadsTyped ==
  ASSUME IInv, Core', NEW p \in Procs,
         \/ ReadTask(p) \/ VerifyAssignee(p) \/ LookupEmail(p) \/ ReadUser(p)
         \/ CheckEmail(p) \/ ResolveRole(p) \/ VerifyUser(p)
  PROVE  IInv'
<1>1. /\ Knows(p) /\ KnowsUsers(p) /\ UsersTyped /\ TaskUsers
      /\ \A id \in DOMAIN byID : WasUser(id) /\ byID[id] \in User
  <2>1. Knows(p) /\ UserStore /\ KnowsUsers(p) /\ UsersTyped /\ TaskUsers
    BY Parts, TypeParts DEF IInv
  <2> QED BY <2>1 DEF UserStore, UserIdsFresh, UsersTyped, WasUser
<1>2. PICK c : c = job[p].call
  OBVIOUS
<1>3. c \in Call /\ pc[p] # "idle"
  BY <1>1, <1>2 DEF Knows, IsJob, ReadTask, VerifyAssignee, LookupEmail, ReadUser, CheckEmail,
                    ResolveRole, VerifyUser
<1>4. CASE Refuses(p)
  BY <1>3, <1>4, RefusalTyped
<1>5. CASE ~ Refuses(p)
  <2>1. CASE ReadTask(p)
    <3>1. PICK row : row = [tasks[c.id] EXCEPT !.content = c.content]
      OBVIOUS
    <3>2. Pass(p, "write", row) /\ c.op = "update" /\ c.id \in DOMAIN tasks
      BY <1>2, <1>5, <2>1, <3>1 DEF ReadTask, Refuses, Tasks!Stored
    <3>3. row.user = tasks[c.id].user
      BY <3>1, <3>2, Parts DEF IInv, TaskStore, Stored, Task
    <3> QED BY <1>1, <1>2, <1>3, <3>2, <3>3, PassTyped DEF TaskUsers
  <2>2. CASE VerifyAssignee(p)
    <3>1. Pass(p, "write", NoRow) /\ c.op = "assign" /\ WasUser(c.user)
      BY <1>1, <1>2, <1>5, <2>2 DEF VerifyAssignee, Refuses
    <3> QED BY <1>2, <1>3, <3>1, PassTyped
  <2>3. CASE LookupEmail(p)
    <3>1. PICK row : row = [email |-> c.email]
      OBVIOUS
    <3>2. Pass(p, "write", row) /\ c.op \in {"register", "profile"}
      BY <1>1, <1>2, <1>5, <2>3, <3>1 DEF LookupEmail, Refuses, Knows
    <3>3. row \in User
      BY <1>3, <3>1, <3>2 DEF Call, User
    <3> QED BY <1>2, <1>3, <3>2, <3>3, PassTyped
  <2>4. CASE ReadUser(p)
    <3>1. PICK row, label : /\ row = byID[c.id] /\ label \in {"write", "check"} /\ Pass(p, label, row)
      BY <1>2, <1>5, <2>4 DEF ReadUser, Refuses
    <3>2. row \in User /\ c.op = "profile"
      BY <1>1, <1>2, <1>5, <2>4, <3>1 DEF ReadUser, Refuses
    <3> QED BY <1>2, <1>3, <3>1, <3>2, PassTyped
  <2>5. CASE CheckEmail(p)
    <3>1. PICK row : row = [job[p].row EXCEPT !.email = c.email]
      OBVIOUS
    <3>2. Pass(p, "write", row) /\ c.op \in {"register", "profile"} /\ job[p].row \in User
      BY <1>1, <1>2, <1>5, <2>5, <3>1 DEF CheckEmail, Refuses, Knows, KnowsUsers
    <3>3. row \in User
      BY <1>3, <3>1, <3>2 DEF Call, User
    <3> QED BY <1>2, <1>3, <3>2, <3>3, PassTyped
  <2>6. CASE ResolveRole(p)
    <3>1. Pass(p, "verify", NoRow) /\ c.label \in Labels
      BY <1>2, <1>5, <2>6 DEF ResolveRole, Refuses
    <3> QED BY <1>2, <1>3, <3>1, PassTyped
  <2>7. CASE VerifyUser(p)
    <3>1. /\ Pass(p, "write", NoRow) /\ c.op \in {"grant", "revoke"} /\ WasUser(c.id)
          /\ c.op = "grant" => c.label \in Labels
      BY <1>1, <1>2, <1>5, <2>7 DEF VerifyUser, Refuses, KnowsUsers
    <3> QED BY <1>2, <1>3, <3>1, PassTyped
  <2> QED BY <2>1, <2>2, <2>3, <2>4, <2>5, <2>6, <2>7
<1> QED BY <1>4, <1>5

(* The second calls.                                                       *)
LEMMA FinishTyped ==
  ASSUME IInv, Core', NEW p \in Procs, pc[p] # "idle", NEW id \in Nat \cup {Nil}, NEW code \in Replies,
         Finish(p, id, code), nextID <= nextID', UsersTyped', TaskUsers'
  PROVE  IInv'
BY RepliesTyped, TypesKept, TypeParts DEF IInv

LEMMA UserWritesTyped ==
  ASSUME IInv, Core', NEW p \in Procs,
         Register(p) \/ UpdateUser(p) \/ CloseUser(p) \/ SeedUser(p) \/ GrantRole(p) \/ RevokeRole(p)
  PROVE  IInv'
<1>1. /\ Knows(p) /\ KnowsUsers(p) /\ UsersTyped /\ TaskUsers
      /\ nextID \in Nat \ {0} /\ \A id \in DOMAIN byID : id \in Nat \ {0} /\ id < nextID
  <2>1. Knows(p) /\ UserStore /\ KnowsUsers(p) /\ UsersTyped /\ TaskUsers
    BY Parts, TypeParts DEF IInv
  <2> QED BY <2>1 DEF UserStore, UserIdsFresh
<1>2. PICK c, row : c = job[p].call /\ row = job[p].row
  OBVIOUS
<1>3. /\ c \in Call /\ pc[p] = "write"
      /\ Created \in Replies /\ OK \in Replies
  BY <1>1, <1>2 DEF Knows, IsJob, Register, UpdateUser, CloseUser, SeedUser, GrantRole, RevokeRole, Writes,
                    Created, OK, Replies
<1>4. CASE Refuses(p)
  BY <1>3, <1>4, RefusalTyped
<1>5. CASE ~ Refuses(p)
  <2>1. CASE Register(p) \/ SeedUser(p)
    <3>1. PICK user, id : /\ id = nextID
                          /\ user = IF Register(p) THEN row ELSE [email |-> c.email]
      OBVIOUS
    <3>2. /\ Accounts!Open(user) /\ Finish(p, id, Created) /\ UNCHANGED taskVars
      BY <1>2, <1>5, <2>1, <3>1 DEF Register, SeedUser, Refuses, Accounts!Create, Accounts!Seed
    <3>3. user \in User
      <4>1. CASE Register(p)
        BY <1>1, <1>2, <3>1, <4>1 DEF Register, KnowsUsers, Writes, Writing
      <4>2. CASE ~ Register(p)
        <5>1. c.op = "seed"
          BY <1>2, <2>1, <4>2 DEF SeedUser, Writes
        <5> QED BY <1>3, <3>1, <4>2, <5>1 DEF Call, User
      <4> QED BY <4>1, <4>2
    <3>4. /\ nextID' = nextID + 1 /\ UNCHANGED <<reservedEmail, members, tasks>>
          /\ DOMAIN byID' = DOMAIN byID \cup {id} /\ byID'[id] = user
          /\ \A other \in DOMAIN byID \ {id} : byID'[other] = byID[other]
      BY <3>1, <3>2 DEF Accounts!Open, Accounts!Put, Accounts!With, taskVars
    <3>5. UsersTyped' /\ TaskUsers' /\ nextID <= nextID'
      BY <1>1, <3>3, <3>4 DEF UsersTyped, TaskUsers, WasUser
    <3> QED BY <1>1, <1>3, <3>1, <3>2, <3>5, FinishTyped
  <2>2. CASE UpdateUser(p)
    <3>1. Accounts!Update(c.id, row) /\ Finish(p, c.id, OK) /\ UNCHANGED taskVars
      BY <1>2, <1>5, <2>2 DEF UpdateUser, Refuses
    <3>2. row \in User
      BY <1>1, <1>2, <2>2 DEF UpdateUser, KnowsUsers, Writes, Writing
    <3>3. /\ c.id \in DOMAIN byID /\ UNCHANGED <<nextID, reservedEmail, members, tasks>>
          /\ DOMAIN byID' = DOMAIN byID /\ byID'[c.id] = row
          /\ \A other \in DOMAIN byID \ {c.id} : byID'[other] = byID[other]
      BY <3>1 DEF Accounts!Update, Accounts!Put, Accounts!With, taskVars
    <3>4. UsersTyped' /\ TaskUsers' /\ nextID <= nextID'
      BY <1>1, <3>2, <3>3 DEF UsersTyped, TaskUsers, WasUser
    <3> QED BY <1>1, <1>3, <3>1, <3>3, <3>4, FinishTyped
  <2>3. CASE CloseUser(p)
    <3>1. Accounts!Delete(c.id) /\ Finish(p, c.id, OK) /\ UNCHANGED taskVars
      BY <1>2, <1>5, <2>3 DEF CloseUser, Refuses
    <3>2. /\ c.id \in DOMAIN byID /\ UNCHANGED <<nextID, members, tasks>>
          /\ reservedEmail' = reservedEmail \cup {byID[c.id].email}
          /\ DOMAIN byID' = DOMAIN byID \ {c.id}
          /\ \A other \in DOMAIN byID \ {c.id} : byID'[other] = byID[other]
      BY <3>1 DEF Accounts!Delete, Accounts!Without, Accounts!Restrict, taskVars
    <3>3. UsersTyped' /\ TaskUsers' /\ nextID <= nextID'
      BY <1>1, <3>2 DEF UsersTyped, TaskUsers, WasUser, User
    <3> QED BY <1>1, <1>3, <3>1, <3>2, <3>3, FinishTyped
  <2>4. CASE GrantRole(p) \/ RevokeRole(p)
    <3>1. /\ Accounts!AssignRole(c.id, c.label) \/ Accounts!RevokeRole(c.id, c.label)
          /\ Finish(p, c.id, OK) /\ UNCHANGED taskVars /\ c.op \in {"grant", "revoke"}
          /\ c.op = "grant" \/ Accounts!RevokeRole(c.id, c.label)
      BY <1>2, <1>5, <2>4 DEF GrantRole, RevokeRole, Refuses, Writes
    <3>2. /\ UNCHANGED <<nextID, byID, reservedEmail, tasks>>
          /\ \/ members' \subseteq members
             \/ c.op = "grant" /\ members' = members \cup {<<c.id, c.label>>}
      BY <3>1 DEF Accounts!AssignRole, Accounts!RevokeRole, taskVars
    <3>3. c.op = "grant" => c.id \in 1..nextID - 1 /\ c.label \in Labels
      BY <1>1, <1>2, <1>3 DEF KnowsUsers, Writing, WasUser
    <3>4. UsersTyped' /\ TaskUsers' /\ nextID <= nextID'
      BY <1>1, <3>2, <3>3 DEF UsersTyped, TaskUsers, WasUser
    <3>5. c.id \in Nat
      BY <1>3, <3>1, BoundsAssumption DEF Call, Ids
    <3> QED BY <1>3, <3>1, <3>4, <3>5, FinishTyped
  <2> QED BY <2>1, <2>2, <2>3, <2>4
<1> QED BY <1>4, <1>5

LEMMA TaskWritesTyped ==
  ASSUME IInv, Core', NEW p \in Procs,
         CreateTask(p) \/ UpdateTask(p) \/ AssignTask(p) \/ DeleteTask(p) \/ AgeTask(p)
  PROVE  IInv'
<1>1. Knows(p) /\ KnowsUsers(p) /\ UsersTyped /\ TaskUsers /\ TaskStore /\ nextID \in Nat
  <2>1. Knows(p) /\ UserStore /\ KnowsUsers(p) /\ UsersTyped /\ TaskUsers /\ TaskStore
    BY Parts, TypeParts DEF IInv
  <2> QED BY <2>1 DEF UserStore, UserIdsFresh
<1>2. PICK c, row, own : c = job[p].call /\ row = job[p].row /\ own = job[p].id
  OBVIOUS
<1>3. /\ c \in Call /\ own \in Nat /\ pc[p] = "write"
      /\ Created \in Replies /\ OK \in Replies /\ Ids \subseteq Nat
  BY <1>1, <1>2, BoundsAssumption
     DEF Knows, IsJob, CreateTask, UpdateTask, AssignTask, DeleteTask, AgeTask, Writes,
         Created, OK, Replies, Ids
<1>4. CASE Refuses(p)
  BY <1>3, <1>4, RefusalTyped
<1>5. CASE ~ Refuses(p)
  <2>1. PICK id, code : id \in Nat /\ code \in Replies /\ Finish(p, id, code) /\ UNCHANGED accountVars
    <3>1. CASE CreateTask(p)
      <4>1. \A other \in Tasks!Replayed(c.key, now) : other \in Nat
        BY <1>1, <1>3 DEF Tasks!Replayed, Tasks!LatestByKey, TaskStore, Stored
      <4> QED BY <1>2, <1>3, <3>1, <4>1 DEF CreateTask
    <3>2. CASE UpdateTask(p) \/ AssignTask(p) \/ DeleteTask(p) \/ AgeTask(p)
      <4>1. c.id \in Nat
        BY <1>2, <1>3, <3>2 DEF Call, UpdateTask, AssignTask, DeleteTask, AgeTask, Writes
      <4> QED BY <1>2, <1>3, <1>5, <3>2, <4>1 DEF UpdateTask, AssignTask, DeleteTask, AgeTask, Refuses
    <3> QED BY <3>1, <3>2
  <2>2. UsersTyped' /\ nextID' = nextID /\ nextID <= nextID'
    BY <1>1, <2>1 DEF UsersTyped, accountVars
  <2>3. CASE tasks' = tasks
    BY <1>1, <1>3, <2>1, <2>2, <2>3, FinishTyped DEF TaskUsers, WasUser
  <2>4. CASE \E key, task : Tasks!Put(key, task) /\ (WasUser(task.user) \/ task.user = Nil)
    <3>1. TaskUsers'
      BY <1>1, <2>2, <2>4 DEF Tasks!Put, TaskUsers, WasUser
    <3> QED BY <1>3, <2>1, <2>2, <3>1, FinishTyped
  <2>5. tasks' = tasks \/ \E key, task : Tasks!Put(key, task) /\ (WasUser(task.user) \/ task.user = Nil)
    <3>1. CASE CreateTask(p)
      <4>1. PICK draft, task : /\ draft = [key |-> c.key, user |-> Nil, content |-> c.content, created |-> 0]
                               /\ task = [draft EXCEPT !.created = now]
        OBVIOUS
      <4>2. tasks' = tasks \/ Tasks!Put(own, task)
        BY <1>2, <3>1, <4>1 DEF CreateTask, Tasks!Create, taskVars
      <4>3. task.user = Nil
        BY <4>1
      <4> QED BY <4>2, <4>3
    <3>2. CASE UpdateTask(p)
      <4>1. PICK task : task = [row EXCEPT !.created = tasks[c.id].created]
        OBVIOUS
      <4>2. Tasks!Put(c.id, task) /\ (WasUser(row.user) \/ row.user = Nil) /\ row \in Task
        BY <1>1, <1>2, <1>5, <3>2, <4>1
           DEF UpdateTask, Refuses, Tasks!Update, Knows, KnowsUsers, Writes, Writing
      <4>3. task.user = row.user
        BY <4>1, <4>2 DEF Task
      <4> QED BY <4>2, <4>3
    <3>3. CASE AssignTask(p)
      <4>1. PICK task : task = [tasks[c.id] EXCEPT !.user = c.user]
        OBVIOUS
      <4>2. /\ c.id \in DOMAIN tasks /\ (WasUser(c.user) \/ c.user = Nil)
            /\ tasks' = tasks \/ Tasks!Put(c.id, task)
        BY <1>1, <1>2, <1>5, <3>3, <4>1
           DEF AssignTask, Refuses, Tasks!Assign, Tasks!Stored, KnowsUsers, Writes, Writing
      <4>3. task.user = c.user
        BY <1>1, <4>1, <4>2 DEF TaskStore, Stored, Task
      <4> QED BY <4>2, <4>3
    <3>4. CASE DeleteTask(p)
      BY <1>5, <3>4 DEF DeleteTask, Refuses, Tasks!Delete
    <3>5. CASE AgeTask(p)
      <4>1. PICK task : task = [tasks[c.id] EXCEPT !.created = c.at]
        OBVIOUS
      <4>2. tasks' = tasks \/ (c.id \in DOMAIN tasks /\ Tasks!Put(c.id, task))
        <5>1. UNCHANGED taskVars \/ Tasks!SetCreatedAt(c.id, c.at)
          BY <1>2, <3>5 DEF AgeTask
        <5> QED BY <4>1, <5>1 DEF Tasks!SetCreatedAt, taskVars
      <4>3. c.id \in DOMAIN tasks => task.user = tasks[c.id].user
        BY <1>1, <4>1 DEF TaskStore, Stored, Task
      <4> QED BY <1>1, <4>2, <4>3 DEF TaskUsers
    <3> QED BY <3>1, <3>2, <3>3, <3>4, <3>5
  <2> QED BY <2>3, <2>4, <2>5
<1> QED BY <1>4, <1>5

LEMMA Start == Init => IInv
<1> SUFFICES ASSUME Init PROVE IInv
  OBVIOUS
<1>1. Core
  BY CoreStart
<1>2. UsersTyped /\ TaskUsers /\ Replied
  BY DEF Init, Tasks!Init, Accounts!Init, UsersTyped, TaskUsers, Replied
<1>3. \A p \in Procs : KnowsUsers(p)
  BY DEF Init, KnowsUsers, Writing
<1> QED BY <1>1, <1>2, <1>3, TypeParts DEF IInv

LEMMA Step == IInv /\ [Next]_vars => IInv'
<1> SUFFICES ASSUME IInv, [Next]_vars PROVE IInv'
  OBVIOUS
<1>1. Core'
  BY CoreStep DEF IInv
<1>2. CASE \E p \in Procs : Works(p)
  BY <1>1, <1>2, ReadsTyped, UserWritesTyped, TaskWritesTyped DEF Works
<1>3. CASE \E p \in Procs : \E c \in Calls : Receive(p, c)
  <2>1. PICK p \in Procs, c \in Calls : Receive(p, c)
    BY <1>3
  <2>2. FirstStep(c) \in {"read", "verify", "lookup", "resolve", "write"}
        /\ (FirstStep(c) = "write" => c.op \notin {"register", "profile", "grant", "update"})
        /\ (FirstStep(c) = "write" /\ c.op = "assign" => c.user = Nil)
        /\ (FirstStep(c) = "verify" => c.op = "assign")
    BY DEF FirstStep
  <2>3. PICK started : started = [call |-> c, id |-> issued + 1, row |-> NoRow]
    OBVIOUS
  <2>4. /\ pc' = [pc EXCEPT ![p] = FirstStep(c)] /\ job' = [job EXCEPT ![p] = started]
        /\ reply' = [reply EXCEPT ![p] = NoReply] /\ Unmoved
    BY <2>1, <2>3 DEF Receive, Goto, Unmoved
  <2>5. pc'[p] = FirstStep(c) /\ job'[p] = started /\ started.call = c /\ Others(p)
    BY <2>3, <2>4, Parts DEF IInv, Desk, Others, Kept
  <2>6. KnowsUsers(p)'
    BY <2>2, <2>5 DEF KnowsUsers, Writing
  <2>7. Replied'
    BY <2>4, TypeParts DEF IInv, Replied
  <2> QED BY <1>1, <2>4, <2>5, <2>6, <2>7, TypesUnmoved, TypesKept
<1>4. CASE Tick \/ UNCHANGED vars
  <2>1. Unmoved /\ UNCHANGED <<reply, pc, job, nextID>>
    BY <1>4 DEF Tick, vars, Unmoved, accountVars
  <2>2. Replied' /\ \A p \in Procs : KnowsUsers(p)'
    BY <2>1, TypeParts DEF IInv, Replied, KnowsUsers, Writing, WasUser
  <2>3. UsersTyped' /\ TaskUsers'
    BY <2>1, TypesUnmoved
  <2>4. TypeOK'
    BY <1>1, <2>2, <2>3, TypeParts, PTL
  <2> QED BY <1>1, <2>2, <2>4 DEF IInv
<1> QED BY <1>2, <1>3, <1>4 DEF Next, Quiesce

(* In every reachable state the index is exact, the logs are complete, and *)
(* a request knows what it is about to write and to rely on.               *)
THEOREM Invariance == Spec => []IInv
BY Start, Step, PTL DEF Spec

(* The repositories and the requests keep their types: no role and no task *)
(* is of a user that there never was.                                      *)
THEOREM TypeCorrectness == Spec => []TypeOK
BY Invariance, PTL DEF IInv

(* Every user is found under the email that he has, whatever updates write *)
(* back what they read before others changed it.                           *)
THEOREM IndexExactness == Spec => []IndexExact
BY Invariance, PTL DEF IInv, Core
------------------------------------------------------------------------------
(* The emails of deleted users.                                            *)

LEMMA OnlyOpeningsAndUpdatesIndex ==
  ASSUME [Next]_vars
  PROVE  \/ DOMAIN byEmail' \subseteq DOMAIN byEmail
         \/ \E p \in Procs : Register(p) \/ SeedUser(p) \/ UpdateUser(p)
<1>1. CASE \E p \in Procs : CloseUser(p)
  BY <1>1 DEF CloseUser, Abort, accountVars, Accounts!Delete, Accounts!Without, Accounts!Restrict
<1>2. CASE \E p \in Procs : GrantRole(p) \/ RevokeRole(p)
  BY <1>2 DEF GrantRole, RevokeRole, Abort, accountVars, Accounts!AssignRole, Accounts!RevokeRole
<1>3. CASE \E p \in Procs :
             CreateTask(p) \/ UpdateTask(p) \/ AssignTask(p) \/ DeleteTask(p) \/ AgeTask(p)
  BY <1>3 DEF CreateTask, UpdateTask, AssignTask, DeleteTask, AgeTask, Abort, accountVars
<1>4. CASE \E p \in Procs :
             \/ ReadTask(p) \/ VerifyAssignee(p) \/ LookupEmail(p) \/ ReadUser(p)
             \/ CheckEmail(p) \/ ResolveRole(p) \/ VerifyUser(p)
  BY <1>4 DEF ReadTask, VerifyAssignee, LookupEmail, ReadUser, CheckEmail, ResolveRole, VerifyUser,
              Abort, Pass, accountVars
<1>5. CASE \/ \E p \in Procs : \E c \in Calls : Receive(p, c)
           \/ Tick \/ Quiesce \/ UNCHANGED vars
  BY <1>5 DEF Receive, Tick, Quiesce, vars, accountVars
<1> QED BY <1>1, <1>2, <1>3, <1>4, <1>5 DEF Next, Works

Reused(email) ==
  \E p \in Procs : Writes(p, "seed") /\ job[p].call.email = email /\ pc'[p] = "idle"

LEMMA ReservedStep ==
  ASSUME Core, [Next]_vars, NEW email \in reservedEmail, email \in DOMAIN byEmail' \ DOMAIN byEmail
  PROVE  Reused(email)
<1>1. PICK p \in Procs : Register(p) \/ SeedUser(p) \/ UpdateUser(p)
  BY OnlyOpeningsAndUpdatesIndex
<1>2. \A err : ~ Abort(p, err)
  BY DEF Abort, accountVars
<1>3. ~ Register(p)
  BY <1>2 DEF Register, Accounts!Create, Accounts!Open, Accounts!Taken, Accounts!With
<1>4. ~ UpdateUser(p)
  <2>1. SUFFICES ASSUME Accounts!Update(job[p].call.id, job[p].row) PROVE FALSE
    BY <1>2 DEF UpdateUser
  <2> DEFINE id  == job[p].call.id
             new == job[p].row.email
  <2>2. /\ id \in DOMAIN byID /\ byEmail' = Accounts!Reindexed(id, new)
        /\ ~ (new \in reservedEmail /\ byID[id].email # new)
    BY <2>1 DEF Accounts!Update, Accounts!Conflicts
  <2>3. DOMAIN byEmail' \subseteq DOMAIN byEmail \cup {new}
    BY <2>2 DEF Accounts!Reindexed, Accounts!With, Accounts!Without, Accounts!Restrict
  <2>4. email = new
    BY <2>3
  <2> QED BY <2>2, <2>4 DEF Accounts!Reindexed
<1>5. SeedUser(p) /\ Writes(p, "seed") /\ pc'[p] = "idle"
  <2>1. SeedUser(p)
    BY <1>1, <1>3, <1>4
  <2>2. pc'[p] = "idle"
    BY <1>2, <2>1, Parts DEF SeedUser, Finish, Goto, Desk
  <2> QED BY <2>1, <2>2 DEF SeedUser
<1>6. job[p].call.email = email
  BY <1>2, <1>5 DEF SeedUser, Accounts!Seed, Accounts!Open, Accounts!With
<1> QED BY <1>5, <1>6 DEF Reused

(* A deleted account's email goes to no other account, also when the       *)
(* deletion comes between the look at the index and the write; only a test *)
(* that seeds a user gets past this.                                       *)
THEOREM ReservedStay == Spec => OnlySeedingReuses
<1>1. IInv /\ [Next]_vars =>
        [\A email \in reservedEmail :
           email \in DOMAIN byEmail' \ DOMAIN byEmail =>
             \E p \in Procs : Writes(p, "seed") /\ job[p].call.email = email /\ pc'[p] = "idle"]_vars
  BY ReservedStep DEF Reused, IInv
<1> QED BY <1>1, Invariance, PTL DEF Spec, OnlySeedingReuses
------------------------------------------------------------------------------
(* The ledger.                                                             *)

(* A bounded set of numbers that is not empty has a greatest element.      *)
LEMMA Greatest ==
  ASSUME NEW B \in Nat, NEW S, \A x \in S : x \in 0..B, S # {}
  PROVE \E x \in S : \A y \in S : y <= x
<1> DEFINE T == {n \in 0..B : B - n \in S}
<1>1. T \subseteq Nat
  OBVIOUS
<1>2. T # {}
  <2>1. PICK x \in S : TRUE
    OBVIOUS
  <2>2. x \in 0..B /\ B - x \in 0..B /\ B - (B - x) = x
    BY <2>1
  <2> QED BY <2>1, <2>2
<1>3. PICK m \in T : \A n \in T : ~ (<<n, m>> \in OpToRel(<, Nat))
  <2> HIDE DEF T
  <2> QED BY <1>1, <1>2, NatLessThanWellFounded, WFMin
<1>4. \A n \in T : ~(n < m)
  <2> HIDE DEF T
  <2> QED BY <1>1, <1>3 DEF OpToRel
<1>5. ASSUME NEW y \in S PROVE y <= B - m
  <2>1. y \in 0..B /\ B - y \in 0..B /\ B - (B - y) = y
    BY <1>5
  <2>2. B - y \in T
    BY <2>1
  <2>3. m \in 0..B /\ ~(B - y < m)
    BY <2>2, <1>4
  <2> QED BY <2>1, <2>3
<1> QED BY <1>5

(* If a create finds nothing to return, every task of its key is too old.  *)
LEMMA NoneReplayed ==
  ASSUME Core, NEW key, Tasks!Replayed(key, now) = {},
         NEW other, Tasks!Stored(other), tasks[other].key = key
  PROVE  now - tasks[other].created > Window
<1> DEFINE found == {id \in DOMAIN tasks : Tasks!Stored(id) /\ tasks[id].key = key}
           ages  == {tasks[id].created : id \in found}
<1>1. \A id \in found : id \in 0..MaxCalls /\ tasks[id].created \in 0..MaxTime
  BY Parts, BoundsAssumption DEF TaskStore, Stored, Task, Ids
<1>2. other \in found /\ now \in Nat /\ Window \in Nat
  BY Parts, ClockAndCalls, BoundsAssumption DEF Tasks!Stored
<1>3. PICK last \in ages : \A age \in ages : age <= last
  <2>1. (\A age \in ages : age \in 0..MaxTime) /\ ages # {} /\ MaxTime \in Nat
    BY <1>1, <1>2, BoundsAssumption
  <2> HIDE DEF ages
  <2> QED BY <2>1, Greatest
<1> DEFINE young == {id \in found : tasks[id].created = last}
<1>4. PICK latest \in young : \A id \in young : id <= latest
  <2>1. (\A id \in young : id \in 0..MaxCalls) /\ young # {} /\ MaxCalls \in Nat
    BY <1>1, <1>3, BoundsAssumption
  <2> HIDE DEF young
  <2> QED BY <2>1, Greatest
<1>5. /\ latest \in found /\ tasks[latest].created = last
      /\ \A id \in found : id \in Nat /\ tasks[id].created \in Nat /\ tasks[id].created <= last
      /\ \A id \in found : tasks[id].created = last => id <= latest
  BY <1>1, <1>3, <1>4
<1>6. latest \in Tasks!LatestByKey(key)
  <2>1. \A id \in found \ {latest} : Tasks!Newer(latest, id)
    <3> HIDE DEF found
    <3> QED BY <1>5 DEF Tasks!Newer
  <2> QED BY <1>5, <2>1 DEF Tasks!LatestByKey
<1>7. ~ (last >= now - Window)
  BY <1>5, <1>6 DEF Tasks!Replayed
<1>8. tasks[other].created <= last /\ tasks[other].created \in Nat /\ last \in Nat
  BY <1>2, <1>5
<1> HIDE DEF found, ages, young
<1> QED BY <1>2, <1>7, <1>8

(* The row of a task that is there, and that of one just put there.        *)
LEMMA LiveRow ==
  ASSUME NEW id \in Ids, Tasks!Stored(id), Core
  PROVE  /\ Ledger!Live(id)
         /\ Rows[id].key = tasks[id].key /\ Rows[id].user = tasks[id].user
         /\ Rows[id].content = tasks[id].content /\ Rows[id].created = tasks[id].created
<1> DEFINE row == [key |-> tasks[id].key, user |-> tasks[id].user, content |-> tasks[id].content,
                   created |-> tasks[id].created, deleted |-> id \in deleted]
<1>1. id \in DOMAIN tasks /\ id \notin deleted /\ tasks[id] \in Task
  BY Parts DEF TaskStore, Stored, Tasks!Stored
<1>2. Rows[id] = row
  BY <1>1 DEF Rows, RowOf
<1>3. row \in Row
  BY <1>1 DEF Row, Task
<1>4. ~ row.deleted
  BY <1>1
<1> QED BY <1>2, <1>3, <1>4, ValuesAssumption DEF Ledger!Live

LEMMA LiveIsStored ==
  ASSUME NEW id \in Ids, Ledger!Live(id) PROVE Tasks!Stored(id)
<1>1. id \in DOMAIN tasks
  BY DEF Ledger!Live, Rows, RowOf
<1>2. Rows[id].deleted = (id \in deleted)
  BY <1>1 DEF Rows, RowOf
<1> QED BY <1>1, <1>2 DEF Ledger!Live, Tasks!Stored

LEMMA RowPut ==
  ASSUME NEW id \in Ids \ deleted, NEW task \in Task, Tasks!Put(id, task), UNCHANGED deleted,
         NEW row, row = Rows'[id]
  PROVE  /\ Rows' = [Rows EXCEPT ![id] = row]
         /\ row # NoRow /\ ~ row.deleted
         /\ row.key = task.key /\ row.user = task.user
         /\ row.content = task.content /\ row.created = task.created
<1>1. row = [key |-> task.key, user |-> task.user, content |-> task.content,
             created |-> task.created, deleted |-> id \in deleted]
  BY DEF Tasks!Put, Rows, RowOf
<1>2. Rows' = [Rows EXCEPT ![id] = row]
  BY DEF Tasks!Put, Rows, RowOf
<1>3. row \in Row
  BY <1>1 DEF Row, Task
<1>4. ~ row.deleted
  <2>1. row.deleted = (id \in deleted) /\ id \notin deleted
    BY <1>1
  <2> QED BY <2>1
<1> QED BY <1>1, <1>2, <1>3, <1>4, ValuesAssumption

LEMMA LedgerCreates ==
  ASSUME Core, NEW p \in Procs, CreateTask(p)
  PROVE  UNCHANGED taskVars \/ Ledger!Next
<1>1. /\ Desk /\ TaskStore /\ Knows(p) /\ now \in Nat
  BY Parts, ClockAndCalls
<1>2. PICK id, key, draft, task :
        /\ id = job[p].id /\ key = job[p].call.key
        /\ draft = [key |-> key, user |-> Nil, content |-> job[p].call.content, created |-> 0]
        /\ task = [draft EXCEPT !.created = now]
  OBVIOUS
<1>3. CASE UNCHANGED taskVars
  BY <1>3
<1>4. CASE Tasks!Create(id, draft, now) /\ assignees' = assignees /\ Writes(p, "create")
  <2>1. PICK row : row = Rows'[id]
    OBVIOUS
  <2>2. Tasks!Put(id, task) /\ UNCHANGED <<deleted, logs, assignees>> /\ Tasks!Replayed(key, now) = {}
    BY <1>2, <1>4 DEF Tasks!Create, Tasks!Put
  <2>3. id \notin DOMAIN tasks /\ id \in Ids /\ id \notin deleted
    BY <1>1, <1>2, <1>4 DEF Writes, Writing, Knows, IsJob, TaskStore
  <2>4. task \in Task /\ task.user = Nil /\ task.created = now /\ task.key = key
    BY <1>1, <1>2, <1>4 DEF Writes, Knows, IsJob, Call, Task
  <2>5. /\ Rows' = [Rows EXCEPT ![id] = row] /\ row # NoRow /\ ~ row.deleted
        /\ row.key = key /\ row.user = Nil /\ row.created = now
    BY <2>1, <2>2, <2>3, <2>4, RowPut
  <2>6. Rows[id] = NoRow /\ Book' = Book
    BY <2>2, <2>3 DEF Rows, RowOf, Book
  <2>7. ASSUME NEW other \in Ids, Ledger!Live(other), Rows[other].key = row.key
        PROVE  row.created - Rows[other].created > Window
    BY <2>2, <2>5, <2>7, LiveIsStored, LiveRow, NoneReplayed
  <2>8. Ledger!Create(id, row)
    BY <2>5, <2>6, <2>7 DEF Ledger!Create
  <2> QED BY <2>1, <2>3, <2>8 DEF Ledger!Next
<1> QED BY <1>2, <1>3, <1>4 DEF CreateTask

LEMMA LedgerUpdates ==
  ASSUME Core, NEW p \in Procs, UpdateTask(p)
  PROVE  UNCHANGED taskVars \/ Ledger!Next
<1>1. TaskStore /\ Knows(p)
  BY Parts
<1>2. PICK id, old, new : /\ id = job[p].call.id /\ old = job[p].row
                          /\ new = [old EXCEPT !.created = tasks[id].created]
  OBVIOUS
<1>3. CASE UNCHANGED taskVars
  BY <1>3
<1>4. CASE Tasks!Update(id, old) /\ assignees' = assignees /\ Writes(p, "update")
  <2>1. PICK row : row = Rows'[id]
    OBVIOUS
  <2>2. Tasks!Stored(id) /\ Tasks!Put(id, new) /\ UNCHANGED <<deleted, logs, assignees>>
    BY <1>2, <1>4 DEF Tasks!Update
  <2>3. /\ id \in DOMAIN tasks /\ old \in Task /\ old.key = tasks[id].key /\ LoggedFor(id, old.user)
    BY <1>1, <1>2, <1>4 DEF Writes, Knows, Writing
  <2>4. /\ id \in Ids \ deleted /\ new \in Task /\ new.key = tasks[id].key
        /\ new.created = tasks[id].created /\ new.user = old.user
    BY <1>1, <1>2, <2>2, <2>3 DEF TaskStore, Stored, Task, Tasks!Stored
  <2>5. /\ Rows' = [Rows EXCEPT ![id] = row] /\ ~ row.deleted
        /\ row.key = tasks[id].key /\ row.user = old.user /\ row.created = tasks[id].created
    BY <2>1, <2>2, <2>4, RowPut
  <2>6. /\ Ledger!Live(id) /\ Rows[id].key = tasks[id].key /\ Rows[id].created = tasks[id].created
    BY <2>2, <2>4, LiveRow
  <2>7. Book' = Book
    BY <2>2 DEF Book
  <2>8. old.user = Nil \/ Ledger!Logged(id, old.user)
    BY <1>1, <2>3 DEF LoggedFor, Ledger!Logged, Book, TaskStore
  <2>9. Ledger!Update(id, row)
    BY <2>5, <2>6, <2>7, <2>8 DEF Ledger!Update
  <2> QED BY <2>1, <2>4, <2>9 DEF Ledger!Next
<1> QED BY <1>2, <1>3, <1>4 DEF UpdateTask, Abort

LEMMA LedgerAssigns ==
  ASSUME Core, NEW p \in Procs, AssignTask(p)
  PROVE  UNCHANGED taskVars \/ Ledger!Next
<1>1. TaskStore /\ Knows(p) /\ now \in Nat
  BY Parts, ClockAndCalls
<1>2. PICK id, user, log : /\ id = job[p].call.id /\ user = job[p].call.user
                           /\ log = [task |-> id, content |-> tasks[id].content, at |-> now]
  OBVIOUS
<1>3. CASE UNCHANGED taskVars
  BY <1>3
<1>4. CASE /\ ~ UNCHANGED taskVars /\ Tasks!Assign(id, user, now) /\ Writes(p, "assign")
           /\ assignees' = IF logs' = logs THEN assignees ELSE Append(assignees, user)
  <2>1. PICK row, task : row = Rows'[id] /\ task = [tasks[id] EXCEPT !.user = user]
    OBVIOUS
  <2>2. /\ Tasks!Stored(id) /\ Tasks!Put(id, task) /\ tasks[id].user # user
        /\ logs' = Append(logs, log) /\ deleted' = deleted
    BY <1>2, <1>4, <2>1 DEF Tasks!Assign, taskVars
  <2>3. user \in Ids \cup {Nil}
    BY <1>1, <1>2, <1>4 DEF Writes, Knows, IsJob, Call
  <2>4. /\ id \in Ids \ deleted /\ task \in Task /\ task.key = tasks[id].key /\ log \in Log
        /\ task.created = tasks[id].created /\ task.user = user /\ task.content = tasks[id].content
    BY <1>1, <1>2, <2>1, <2>2, <2>3 DEF TaskStore, Stored, Task, Log, Tasks!Stored
  <2>5. assignees' = Append(assignees, user)
    BY <1>1, <1>4, <2>2, <2>4 DEF TaskStore
  <2>6. Rows' = [Rows EXCEPT ![id] = row] /\ row.user = user /\ row.content = tasks[id].content
    <3>1. /\ id \in Ids \ deleted /\ task \in Task /\ Tasks!Put(id, task)
          /\ UNCHANGED deleted /\ row = Rows'[id]
      BY <2>1, <2>2, <2>4
    <3>2. /\ Rows' = [Rows EXCEPT ![id] = row]
          /\ row.user = task.user /\ row.content = task.content
      BY <3>1, RowPut
    <3> QED BY <2>4, <3>2
  <2>7. Ledger!Live(id) /\ Rows[id].user = tasks[id].user
    BY <2>2, <2>4, LiveRow
  <2>8. Rows' = [Rows EXCEPT ![id].user = row.user]
    <3>1. /\ Rows'[id] = [Rows[id] EXCEPT !.user = user]
      BY <2>2, <2>4 DEF Rows, RowOf, Tasks!Put, Tasks!Stored, Task
    <3> QED BY <2>1, <2>6, <3>1
  <2>9. PICK entry : entry = [task |-> id, user |-> user, content |-> tasks[id].content, at |-> now]
    OBVIOUS
  <2>10. Book' = Append(Book, entry) /\ Len(Book') = Len(Book) + 1 /\ Book'[Len(Book')] = entry
    <3>1. /\ Len(logs) \in Nat /\ Len(logs') = Len(logs) + 1
          /\ \A i \in 1..Len(logs) : logs'[i] = logs[i] /\ assignees'[i] = assignees[i]
          /\ logs'[Len(logs) + 1] = log /\ assignees'[Len(logs) + 1] = user
      BY <1>1, <2>2, <2>3, <2>4, <2>5 DEF TaskStore
    <3>2. Len(Book) = Len(logs) /\ Len(Book') = Len(logs) + 1
      BY <3>1 DEF Book
    <3> QED BY <1>2, <2>9, <3>1, <3>2 DEF Book
  <2>11. \A i \in 1..Len(Book) : Book[i].at <= entry.at
    BY <1>1, <2>9 DEF Book, TaskStore
  <2>12. Ledger!Assign(id, row)
    <3>1. row.user # Rows[id].user
      BY <2>2, <2>6, <2>7
    <3>2. entry.task = id /\ entry.user = row.user /\ entry.content = row.content
      BY <2>6, <2>9
    <3> QED BY <2>7, <2>8, <2>10, <2>11, <3>1, <3>2 DEF Ledger!Assign
  <2> QED BY <2>1, <2>4, <2>12 DEF Ledger!Next
<1> QED BY <1>2, <1>3, <1>4 DEF AssignTask, Abort

LEMMA LedgerDeletes ==
  ASSUME Core, NEW p \in Procs, DeleteTask(p)
  PROVE  UNCHANGED taskVars \/ Ledger!Next
<1>1. TaskStore
  BY Parts
<1>2. PICK id : id = job[p].call.id
  OBVIOUS
<1>3. CASE UNCHANGED taskVars
  BY <1>3
<1>4. CASE Tasks!Delete(id) /\ assignees' = assignees
  <2>1. /\ Tasks!Stored(id) /\ id \in Ids /\ tasks' = tasks /\ Book' = Book
        /\ deleted' = deleted \cup {id}
    BY <1>1, <1>4 DEF Tasks!Delete, Tasks!Stored, TaskStore, Stored, Book
  <2>2. Rows' = [Rows EXCEPT ![id].deleted = TRUE]
    <3>1. \A other \in Ids \ {id} : Rows'[other] = Rows[other]
      BY <2>1 DEF Rows, RowOf
    <3>2. Rows'[id] = [Rows[id] EXCEPT !.deleted = TRUE]
      <4>1. (id \in deleted') = TRUE
        BY <2>1
      <4>2. Rows'[id] = [key |-> tasks[id].key, user |-> tasks[id].user, content |-> tasks[id].content,
                         created |-> tasks[id].created, deleted |-> TRUE]
        BY <2>1, <4>1 DEF Rows, RowOf, Tasks!Stored
      <4>3. Rows[id] = [key |-> tasks[id].key, user |-> tasks[id].user, content |-> tasks[id].content,
                        created |-> tasks[id].created, deleted |-> FALSE]
        <5>1. (id \in deleted) = FALSE
          BY <2>1 DEF Tasks!Stored
        <5> QED BY <2>1, <5>1 DEF Rows, RowOf, Tasks!Stored
      <4>4. PICK old, no, yes : old = Rows[id] /\ no = FALSE /\ yes = TRUE
        OBVIOUS
      <4>5. /\ old = [key |-> tasks[id].key, user |-> tasks[id].user, content |-> tasks[id].content,
                      created |-> tasks[id].created, deleted |-> no]
            /\ Rows'[id] = [key |-> tasks[id].key, user |-> tasks[id].user,
                            content |-> tasks[id].content, created |-> tasks[id].created, deleted |-> yes]
        BY <4>2, <4>3, <4>4, Zenon
      <4>6. Rows'[id] = [old EXCEPT !.deleted = yes]
        BY <4>5
      <4> QED BY <4>4, <4>6, Zenon
    <3> QED BY <2>1, <3>1, <3>2 DEF Rows
  <2>3. Ledger!Delete(id)
    BY <2>1, <2>2, LiveRow DEF Ledger!Delete
  <2> QED BY <2>1, <2>3 DEF Ledger!Next
<1> QED BY <1>2, <1>3, <1>4 DEF DeleteTask, Abort

LEMMA AgesOnly ==
  ASSUME Core, NEW p \in Procs, AgeTask(p)
  PROVE  UNCHANGED taskVars \/ Aged
<1>1. PICK id, at : id = job[p].call.id /\ at = job[p].call.at
  OBVIOUS
<1>2. id \in Ids /\ at \in 0..MaxTime
  BY <1>1, Parts DEF AgeTask, Writes, Knows, IsJob, Call
<1> QED BY <1>1, <1>2 DEF AgeTask, Aged

LEMMA LedgerStep ==
  ASSUME Core, [Next]_vars
  PROVE  [Ledger!Next \/ Aged]_taskVars
<1>1. CASE \E p \in Procs :
             CreateTask(p) \/ UpdateTask(p) \/ AssignTask(p) \/ DeleteTask(p) \/ AgeTask(p)
  BY <1>1, LedgerCreates, LedgerUpdates, LedgerAssigns, LedgerDeletes, AgesOnly
<1>2. CASE \E p \in Procs :
             Register(p) \/ UpdateUser(p) \/ CloseUser(p) \/ GrantRole(p) \/ RevokeRole(p) \/ SeedUser(p)
  BY <1>2 DEF Register, UpdateUser, CloseUser, GrantRole, RevokeRole, SeedUser, Abort
<1>3. CASE \E p \in Procs :
             \/ ReadTask(p) \/ VerifyAssignee(p) \/ LookupEmail(p) \/ ReadUser(p)
             \/ CheckEmail(p) \/ ResolveRole(p) \/ VerifyUser(p)
  BY <1>3 DEF ReadTask, VerifyAssignee, LookupEmail, ReadUser, CheckEmail, ResolveRole, VerifyUser,
              Abort, Pass
<1>4. CASE \/ \E p \in Procs : \E c \in Calls : Receive(p, c)
           \/ Tick \/ Quiesce \/ UNCHANGED vars
  BY <1>4 DEF Receive, Tick, Quiesce, vars
<1> QED BY <1>1, <1>2, <1>3, <1>4 DEF Next, Works

(* But for the tests that change the age of a task, whoever looks at the   *)
(* repository sees the ledger: requests are atomic operations on tasks.    *)
THEOREM ImplementsLedger == Spec => LedgerKept
<1>1. Init => Ledger!Init
  BY DEF Init, Tasks!Init, Ledger!Init, Rows, RowOf, Book
<1>2. IInv /\ [Next]_vars => [Ledger!Next \/ Aged]_taskVars
  BY LedgerStep DEF IInv
<1> QED BY <1>1, <1>2, Invariance, PTL DEF Spec, LedgerKept
------------------------------------------------------------------------------
(* The life of accounts.                                                   *)

LEMMA AccountsOpenOrClose ==
  ASSUME Core, [Next]_vars
  PROVE  \/ nextID' = nextID /\ DOMAIN byID' = DOMAIN byID
         \/ nextID' = nextID + 1 /\ DOMAIN byID' = DOMAIN byID \cup {nextID}
         \/ \E id \in DOMAIN byID : nextID' = nextID /\ DOMAIN byID' = DOMAIN byID \ {id}
<1>1. CASE \E p \in Procs : Register(p) \/ SeedUser(p)
  BY <1>1 DEF Register, SeedUser, Abort, accountVars, Accounts!Create, Accounts!Seed, Accounts!Open,
              Accounts!Put, Accounts!With
<1>2. CASE \E p \in Procs : UpdateUser(p)
  BY <1>2 DEF UpdateUser, Abort, accountVars, Accounts!Update, Accounts!Put, Accounts!With
<1>3. CASE \E p \in Procs : CloseUser(p)
  BY <1>3 DEF CloseUser, Abort, accountVars, Accounts!Delete, Accounts!Without, Accounts!Restrict
<1>4. CASE \E p \in Procs : GrantRole(p) \/ RevokeRole(p)
  BY <1>4 DEF GrantRole, RevokeRole, Abort, accountVars, Accounts!AssignRole, Accounts!RevokeRole
<1>5. CASE \E p \in Procs :
             CreateTask(p) \/ UpdateTask(p) \/ AssignTask(p) \/ DeleteTask(p) \/ AgeTask(p)
  BY <1>5 DEF CreateTask, UpdateTask, AssignTask, DeleteTask, AgeTask, Abort, accountVars
<1>6. CASE \E p \in Procs :
             \/ ReadTask(p) \/ VerifyAssignee(p) \/ LookupEmail(p) \/ ReadUser(p)
             \/ CheckEmail(p) \/ ResolveRole(p) \/ VerifyUser(p)
  BY <1>6 DEF ReadTask, VerifyAssignee, LookupEmail, ReadUser, CheckEmail, ResolveRole, VerifyUser,
              Abort, Pass, accountVars
<1>7. CASE \/ \E p \in Procs : \E c \in Calls : Receive(p, c)
           \/ Tick \/ Quiesce \/ UNCHANGED vars
  BY <1>7 DEF Receive, Tick, Quiesce, vars, accountVars
<1> QED BY <1>1, <1>2, <1>3, <1>4, <1>5, <1>6, <1>7 DEF Next, Works

LEMMA LifeStep ==
  ASSUME Core, [Next]_vars
  PROVE  [Life!Next]_States
<1>1. /\ nextID \in Nat \ {0} /\ Ids \subseteq Nat
      /\ \A id \in DOMAIN byID : id \in Nat \ {0} /\ id < nextID
  BY Parts, BoundsAssumption DEF UserStore, UserIdsFresh, Ids
<1>2. CASE nextID' = nextID /\ DOMAIN byID' = DOMAIN byID
  BY <1>2 DEF States
<1>3. CASE nextID' = nextID + 1 /\ DOMAIN byID' = DOMAIN byID \cup {nextID}
  <2>1. \A id \in Ids \ {nextID} : States'[id] = States[id]
    BY <1>1, <1>3 DEF States
  <2>2. nextID \in Ids => States[nextID] = "absent" /\ States'[nextID] = "active"
    BY <1>1, <1>3 DEF States
  <2>3. CASE nextID \in Ids
    <3>1. States' = [States EXCEPT ![nextID] = "active"]
      BY <2>1, <2>2 DEF States
    <3> QED BY <2>2, <2>3, <3>1 DEF Life!Next, Life!Open
  <2>4. CASE nextID \notin Ids
    BY <2>1, <2>4 DEF States
  <2> QED BY <2>3, <2>4
<1>4. ASSUME NEW id \in DOMAIN byID, nextID' = nextID, DOMAIN byID' = DOMAIN byID \ {id}
      PROVE  [Life!Next]_States
  <2>1. \A other \in Ids \ {id} : States'[other] = States[other]
    BY <1>1, <1>4 DEF States
  <2>2. id \in Ids => States[id] = "active" /\ States'[id] = "deleted"
    BY <1>1, <1>4 DEF States
  <2>3. CASE id \in Ids
    <3>1. States' = [States EXCEPT ![id] = "deleted"]
      BY <2>1, <2>2 DEF States
    <3> QED BY <2>2, <2>3, <3>1 DEF Life!Next, Life!Close
  <2>4. CASE id \notin Ids
    BY <2>1, <2>4 DEF States
  <2> QED BY <2>3, <2>4
<1> QED BY <1>2, <1>3, <1>4, AccountsOpenOrClose

(* The repositories of the tests open an account once and close it once,   *)
(* as the database does.                                                   *)
THEOREM ImplementsLife == Spec => LifeCycle
<1>1. Init => Life!Init
  BY BoundsAssumption DEF Init, Accounts!Init, Life!Init, States, Ids
<1>2. IInv /\ [Next]_vars => [Life!Next]_States
  BY LifeStep DEF IInv
<1> QED BY <1>1, <1>2, Invariance, PTL DEF Spec, LifeCycle, Life!Spec
==============================================================================
