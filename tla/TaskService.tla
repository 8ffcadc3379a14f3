----------------------------- MODULE TaskService -----------------------------
(***************************************************************************)
(* The write path of the task API, from the handler to the commit of the   *)
(* PostgreSQL transaction: create (idempotent), update, assign and delete. *)
(* Each process is a request goroutine; a step is one statement sent to    *)
(* the database, so the interleavings are those of READ COMMITTED          *)
(* transactions, with the advisory and row locks the statements take.      *)
(* What a transaction writes stays in its job until its commit.            *)
(***************************************************************************)
EXTENDS Domain, Integers, Sequences, FiniteSets

CONSTANTS
  Procs,            \* request goroutines
  Keys,             \* idempotency keys that parse as a UUID
  LockIds,          \* advisory lock numbers
  HashText,         \* hashtext(): the lock number of a key, not injective
  Users,            \* account ids
  Texts,            \* acceptable titles and descriptions
  Statuses,         \* the statuses the CHECK constraint lists
  Backlog,          \* the default one
  Nil,              \* a null or missing value
  Bad,              \* a value of the wrong shape
  NoRow, NoJob, NoReply,
  Window,           \* idempotentExpiry
  Skew,             \* how far now() of the database session, in the wall
                    \* time of a TIMESTAMP column, is ahead of time.Now()
  PoolSize,         \* SetMaxOpenConns
  Calls,            \* the calls clients may make
  MaxCalls, MaxTime \* bounds: calls made, and clock readings

TaskIds == 1..MaxCalls
Ops     == {"create", "update", "assign", "delete"}

Patch == [title : Texts \cup {Nil, Bad}, description : Texts \cup {Nil, Bad},
          status : Statuses \cup {Nil, Bad}]
Call  == [op : Ops, id : TaskIds \cup {Bad}, key : Keys \cup {Bad},
          patch : Patch, user : Users \cup {Nil, Bad}]

(* A draft is a content whose status nobody validated yet.                 *)
Content == [title : Texts, description : Texts \cup {Nil}, status : Statuses]
Draft   == [title : Texts, description : Texts \cup {Nil},
            status : Statuses \cup {Bad}]
RowOf(C) == [key : Keys, user : Users \cup {Nil}, content : C,
             created : Nat, deleted : BOOLEAN]
Row      == RowOf(Content)

(* One request in progress: its call, the row it is about to publish       *)
(* (NoRow: none), the start of its transaction and its time.Now().         *)
Job == [op : Ops, id : TaskIds, key : Keys \cup {Bad}, patch : Patch,
        user : Users \cup {Nil, Bad}, row : RowOf(Draft) \cup {NoRow},
        began : Nat, at : Nat]

Reply == [op : Ops, id : TaskIds \cup {Bad}, err : Errors \cup {"none"},
          code : Replies]
Log   == [task : TaskIds, user : Users \cup {Nil}, content : Content, at : Nat]

ASSUME HashTextAssumption == HashText \in [Keys -> LockIds]
ASSUME ValuesAssumption == /\ Backlog \in Statuses
                           /\ {Nil, Bad} \cap (Texts \cup Statuses) = {}
                           /\ Nil # Bad
ASSUME KeysAssumption == Bad \notin Keys /\ Bad \notin TaskIds
ASSUME UsersAssumption == Nil \notin Users /\ Bad \notin Users
ASSUME ProcsAssumption == Nil \notin Procs
ASSUME NullsAssumption == /\ NoRow \notin RowOf(Draft)
                          /\ NoJob \notin Job
                          /\ NoReply \notin Reply
ASSUME BoundsAssumption == /\ Window \in Nat /\ Skew \in Int
                           /\ PoolSize \in Nat \ {0}
                           /\ MaxCalls \in Nat /\ MaxTime \in Nat
ASSUME CallsAssumption == Calls \subseteq Call

VARIABLES
  tasks,      \* the committed rows of table tasks
  logs,       \* the committed rows of table task_logs, in commit order
  accounts,   \* the users a task may be assigned to
  advisory,   \* holder of each transaction-level advisory lock
  rowLock,    \* holder of each row lock
  pc, job,    \* where each process is, and the request it works on
  reply,      \* the last answer each process gave
  issued,     \* calls made so far; the next one may use id issued + 1
  now         \* time.Now() of the server

vars == <<tasks, logs, accounts, advisory, rowLock, pc, job, reply, issued, now>>

(* Labels of a request that holds a pooled connection for its transaction. *)
InTx   == {"lock", "check", "insert", "modify", "recheck", "persist", "commit"}
Labels == {"idle", "read", "verify", "begin"} \cup InTx

AccountStates == {"absent", "active", "deleted"}

Init ==
  /\ tasks = [id \in TaskIds |-> NoRow]
  /\ logs = <<>>
  /\ accounts = [u \in Users |-> [state |-> "absent", closed |-> 0]]
  /\ advisory = [l \in LockIds |-> Nil]
  /\ rowLock = [id \in TaskIds |-> Nil]
  /\ pc = [p \in Procs |-> "idle"]
  /\ job = [p \in Procs |-> NoJob]
  /\ reply = [p \in Procs |-> NoReply]
  /\ issued = 0
  /\ now = 0
------------------------------------------------------------------------------
(* What the statements see and how a request ends.                         *)

(* Mutated form of Live: the model without its soft_delete tag.            *)
LiveOrDeleted(id) == tasks[id] # NoRow

(* Every statement of the code has deleted_at IS NULL added by the ORM.    *)
Live(id) == tasks[id] # NoRow /\ ~tasks[id].deleted

UserLookup(u) == accounts[u].state = "active"

(* A free pooled connection, for BEGIN and for a statement outside a       *)
(* transaction; statements of a transaction use the one it holds.          *)
ConnectionFree == Cardinality({q \in Procs : pc[q] \in InTx}) < PoolSize

(* Mutated form of Matches: a window open at its older end.                *)
MatchesStrict(key, since) ==
  {id \in TaskIds : Live(id) /\ tasks[id].key = key /\ tasks[id].created > since}

(* The rows the idempotency check selects, and the one its ORDER BY and    *)
(* LIMIT keep.                                                             *)
Matches(key, since) ==
  {id \in TaskIds : Live(id) /\ tasks[id].key = key /\ tasks[id].created >= since}
Later(a, b) == \/ tasks[a].created > tasks[b].created
               \/ tasks[a].created = tasks[b].created /\ a >= b
Newest(ids) == CHOOSE a \in ids : \A b \in ids : Later(a, b)

Goto(p, label) == pc' = [pc EXCEPT ![p] = label]

Answer(p, j, err, code) ==
  /\ reply' = [reply EXCEPT ![p] = [op |-> j.op, id |-> j.id, err |-> err, code |-> code]]
  /\ Goto(p, "idle")
  /\ job' = [job EXCEPT ![p] = NoJob]

(* Mutated form of Release: a session-level advisory lock, which outlives  *)
(* the transaction.                                                        *)
ReleaseRowsOnly(p) ==
  /\ rowLock' = [id \in TaskIds |-> IF rowLock[id] = p THEN Nil ELSE rowLock[id]]
  /\ UNCHANGED advisory

(* The end of a transaction frees every lock it holds.                     *)
Release(p) ==
  /\ advisory' = [l \in LockIds |-> IF advisory[l] = p THEN Nil ELSE advisory[l]]
  /\ rowLock' = [id \in TaskIds |-> IF rowLock[id] = p THEN Nil ELSE rowLock[id]]

Abort(p, err) ==
  /\ Answer(p, job[p], err, Classify(err))
  /\ Release(p)
  /\ UNCHANGED <<tasks, logs, accounts, issued, now>>
------------------------------------------------------------------------------
(* A call arrives and is validated.                                        *)

(* The routes take a UUID, :id<guid>, so that paramUUID never fails.        *)
Unrouted(c) == c.op # "create" /\ c.id = Bad

Refused(c) ==
  \/ Unrouted(c)
  \/ /\ c.op = "create"
     /\ \/ c.key = Bad
        \/ c.patch.title \in {Nil, Bad}
        \/ c.patch.description = Bad
  \/ c.op = "update" /\ c.patch = [title |-> Nil, description |-> Nil, status |-> Nil]
  \/ c.op = "assign" /\ c.user = Bad

(* The entity a create builds; status is taken as it came.                 *)
NewTask(c) ==
  [key     |-> c.key,
   user    |-> Nil,
   content |-> [title |-> c.patch.title, description |-> c.patch.description,
                status |-> IF c.patch.status = Nil THEN Backlog ELSE c.patch.status],
   created |-> 0,
   deleted |-> FALSE]

Receive(p) ==
  /\ pc[p] = "idle"
  /\ issued < MaxCalls
  /\ issued' = issued + 1
  /\ UNCHANGED <<tasks, logs, accounts, advisory, rowLock, now>>

RefuseCall(p, c) ==
  /\ Receive(p)
  /\ Refused(c)
  /\ LET err == IF Unrouted(c) THEN "no_route" ELSE "invalid_input"
     IN Answer(p, c, err, Classify(err))

Accept(p, c, label, id, row) ==
  /\ Receive(p)
  /\ ~Refused(c)
  /\ Goto(p, label)
  /\ reply' = [reply EXCEPT ![p] = NoReply]
  /\ job' = [job EXCEPT ![p] =
       [op |-> c.op, id |-> id, key |-> c.key, patch |-> c.patch,
        user |-> c.user, row |-> row, began |-> 0, at |-> 0]]

CallCreate(p, c) == c.op = "create" /\ Accept(p, c, "begin", issued + 1, NewTask(c))

CallUpdate(p, c) == c.op = "update" /\ Accept(p, c, "read", c.id, NoRow)

CallAssign(p, c) ==
  /\ c.op = "assign"
  /\ Accept(p, c, IF c.user = Nil THEN "begin" ELSE "verify", c.id, NoRow)

CallDelete(p, c) == c.op = "delete" /\ Accept(p, c, "begin", c.id, NoRow)
------------------------------------------------------------------------------
(* Work done before the transaction, on connections of their own.          *)

(* Update overlays the given fields on the row it read.                    *)
Overlay(new, old) == IF new = Nil THEN old ELSE new
Merge(content, patch) ==
  [title       |-> Overlay(patch.title, content.title),
   description |-> Overlay(patch.description, content.description),
   status      |-> Overlay(patch.status, content.status)]

GetTask(p) ==
  /\ pc[p] = "read"
  /\ ConnectionFree
  /\ LET patch == job[p].patch
         read  == tasks[job[p].id]
         ok    == patch.title # Bad /\ patch.description # Bad
     IN \/ ~Live(job[p].id) /\ Abort(p, "not_found")
        \/ Live(job[p].id) /\ ~ok /\ Abort(p, "invalid_input")
        \/ /\ Live(job[p].id) /\ ok
           /\ job' = [job EXCEPT ![p].row =
                        [read EXCEPT !.content = Merge(read.content, patch)]]
           /\ Goto(p, "begin")
           /\ UNCHANGED <<tasks, logs, accounts, advisory, rowLock, reply, issued, now>>

VerifyAssignee(p) ==
  /\ pc[p] = "verify"
  /\ ConnectionFree
  /\ \/ ~UserLookup(job[p].user) /\ Abort(p, "invalid_input")
     \/ /\ UserLookup(job[p].user)
        /\ Goto(p, "begin")
        /\ UNCHANGED <<tasks, logs, accounts, advisory, rowLock, job, reply, issued, now>>
------------------------------------------------------------------------------
(* The transaction.                                                        *)

Begin(p) ==
  /\ pc[p] = "begin"
  /\ ConnectionFree
  /\ job' = [job EXCEPT ![p].began = now]
  /\ Goto(p, IF job[p].op = "create" THEN "lock" ELSE "modify")
  /\ UNCHANGED <<tasks, logs, accounts, advisory, rowLock, reply, issued, now>>

(* Mutated form of LockKey: the check runs without the advisory lock.      *)
SkipKeyLock(p) ==
  /\ pc[p] = "lock"
  /\ Goto(p, "check")
  /\ UNCHANGED <<tasks, logs, accounts, advisory, rowLock, job, reply, issued, now>>

(* Create: pg_advisory_xact_lock, the check under it, the insert.          *)
LockKey(p) ==
  /\ pc[p] = "lock"
  /\ advisory[HashText[job[p].key]] = Nil
  /\ advisory' = [advisory EXCEPT ![HashText[job[p].key]] = p]
  /\ Goto(p, "check")
  /\ UNCHANGED <<tasks, logs, accounts, rowLock, job, reply, issued, now>>

CheckKey(p) ==
  /\ pc[p] = "check"
  /\ LET found == Matches(job[p].key, job[p].began + Skew - Window)
     IN \/ /\ found = {}
           /\ Goto(p, "insert")
           /\ job' = job
        \/ /\ found # {}
           /\ Goto(p, "commit")
           /\ job' = [job EXCEPT ![p].id = Newest(found), ![p].row = NoRow]
  /\ UNCHANGED <<tasks, logs, accounts, advisory, rowLock, reply, issued, now>>

(* Mutated form of InsertTask: a tasks table without its CHECK constraint. *)
InsertUnchecked(p) ==
  /\ pc[p] = "insert"
  /\ job' = [job EXCEPT ![p].row.created = now]
  /\ Goto(p, "commit")
  /\ UNCHANGED <<tasks, logs, accounts, advisory, rowLock, reply, issued, now>>

InsertTask(p) ==
  /\ pc[p] = "insert"
  /\ \/ job[p].row.content.status = Bad /\ Abort(p, "check_violation")
     \/ /\ job[p].row.content.status # Bad
        /\ job' = [job EXCEPT ![p].row.created = now]
        /\ Goto(p, "commit")
        /\ UNCHANGED <<tasks, logs, accounts, advisory, rowLock, reply, issued, now>>

(* Mutated form of TakeRowLock: the read or write does not wait for the    *)
(* transaction that holds the row.                                         *)
IgnoreRowLock(p) == rowLock' = [rowLock EXCEPT ![job[p].id] = p]

TakeRowLock(p) ==
  /\ rowLock[job[p].id] = Nil
  /\ rowLock' = [rowLock EXCEPT ![job[p].id] = p]

(* Update: one statement that writes every column of the row it read.      *)
UpdateTask(p) ==
  /\ pc[p] = "modify" /\ job[p].op = "update"
  /\ \/ ~Live(job[p].id) /\ Abort(p, "not_found")
     \/ /\ Live(job[p].id) /\ job[p].row.content.status = Bad
        /\ Abort(p, "check_violation")
     \/ /\ Live(job[p].id) /\ job[p].row.content.status # Bad
        /\ TakeRowLock(p)
        /\ Goto(p, "commit")
        /\ UNCHANGED <<tasks, logs, accounts, advisory, job, reply, issued, now>>

(* Assign: SELECT ... FOR UPDATE, the second look at the assignee, and the *)
(* two writes.  Nothing is published when the assignee stays the same.     *)
SelectForUpdate(p) ==
  /\ pc[p] = "modify" /\ job[p].op = "assign"
  /\ \/ ~Live(job[p].id) /\ Abort(p, "not_found")
     \/ /\ Live(job[p].id)
        /\ TakeRowLock(p)
        /\ \/ /\ tasks[job[p].id].user = job[p].user
              /\ Goto(p, "commit")
              /\ job' = job
           \/ /\ tasks[job[p].id].user # job[p].user
              /\ Goto(p, IF job[p].user = Nil THEN "persist" ELSE "recheck")
              /\ job' = [job EXCEPT ![p].row = tasks[job[p].id]]
        /\ UNCHANGED <<tasks, logs, accounts, advisory, reply, issued, now>>

(* Mutated form of RecheckAssignee: the look before the transaction is     *)
(* taken to be enough.                                                     *)
TrustAssignee(p) ==
  /\ pc[p] = "recheck"
  /\ Goto(p, "persist")
  /\ UNCHANGED <<tasks, logs, accounts, advisory, rowLock, job, reply, issued, now>>

RecheckAssignee(p) ==
  /\ pc[p] = "recheck"
  /\ \/ ~UserLookup(job[p].user) /\ Abort(p, "invalid_input")
     \/ /\ UserLookup(job[p].user)
        /\ Goto(p, "persist")
        /\ UNCHANGED <<tasks, logs, accounts, advisory, rowLock, job, reply, issued, now>>

(* Mutated form of PersistAssignee: the log is stamped with the start of   *)
(* the transaction, as DEFAULT CURRENT_TIMESTAMP would.                    *)
PersistAtBegin(p) ==
  /\ pc[p] = "persist"
  /\ job' = [job EXCEPT ![p].row.user = job[p].user, ![p].at = job[p].began]
  /\ Goto(p, "commit")
  /\ UNCHANGED <<tasks, logs, accounts, advisory, rowLock, reply, issued, now>>

PersistAssignee(p) ==
  /\ pc[p] = "persist"
  /\ job' = [job EXCEPT ![p].row.user = job[p].user, ![p].at = now]
  /\ Goto(p, "commit")
  /\ UNCHANGED <<tasks, logs, accounts, advisory, rowLock, reply, issued, now>>

(* Delete: a soft delete in one statement.                                 *)
RemoveTask(p) ==
  /\ pc[p] = "modify" /\ job[p].op = "delete"
  /\ \/ ~Live(job[p].id) /\ Abort(p, "not_found")
     \/ /\ Live(job[p].id)
        /\ TakeRowLock(p)
        /\ job' = [job EXCEPT ![p].row = [tasks[job[p].id] EXCEPT !.deleted = TRUE]]
        /\ Goto(p, "commit")
        /\ UNCHANGED <<tasks, logs, accounts, advisory, reply, issued, now>>
------------------------------------------------------------------------------
(* The end of a request.                                                   *)

(* Mutated form of NewLogs: unassigning a task leaves no log.              *)
LogUsersOnly(j) ==
  IF j.op = "assign" /\ j.row # NoRow /\ j.user # Nil
  THEN <<[task |-> j.id, user |-> j.user, content |-> j.row.content, at |-> j.at]>>
  ELSE <<>>

NewLogs(j) ==
  IF j.op = "assign" /\ j.row # NoRow
  THEN <<[task |-> j.id, user |-> j.user, content |-> j.row.content, at |-> j.at]>>
  ELSE <<>>

Publish(p) ==
  /\ pc[p] = "commit"
  /\ tasks' = IF job[p].row = NoRow THEN tasks
              ELSE [tasks EXCEPT ![job[p].id] = job[p].row]
  /\ logs' = logs \o NewLogs(job[p])
  /\ Release(p)
  /\ UNCHANGED <<accounts, issued, now>>

SuccessCode(j) == IF j.op = "create" /\ j.row # NoRow THEN Created ELSE OK

Commit(p) == Publish(p) /\ Answer(p, job[p], "none", SuccessCode(job[p]))

(* The commit took effect, the caller is told it did not.                  *)
LoseCommit(p) == Publish(p) /\ Answer(p, job[p], "failure", Classify("failure"))

(* A statement fails, the connection drops or the server dies: PostgreSQL  *)
(* rolls the transaction back.  A crash of the server is this step taken   *)
(* by every request, since the service keeps no other state in memory.     *)
Fail(p) == pc[p] # "idle" /\ Abort(p, "failure")
------------------------------------------------------------------------------
(* The environment of the task API: accounts come and go, time passes.     *)

Register(u) ==
  /\ accounts[u].state = "absent"
  /\ accounts' = [accounts EXCEPT ![u].state = "active"]
  /\ UNCHANGED <<tasks, logs, advisory, rowLock, pc, job, reply, issued, now>>

DeleteAccount(u) ==
  /\ UserLookup(u)
  /\ accounts' = [accounts EXCEPT ![u] = [state |-> "deleted", closed |-> now]]
  /\ UNCHANGED <<tasks, logs, advisory, rowLock, pc, job, reply, issued, now>>

Tick ==
  /\ now < MaxTime
  /\ now' = now + 1
  /\ UNCHANGED <<tasks, logs, accounts, advisory, rowLock, pc, job, reply, issued>>

(* Nothing is left to do within the bounds.                                *)
Quiesce ==
  /\ issued = MaxCalls
  /\ \A p \in Procs : pc[p] = "idle"
  /\ UNCHANGED vars

Receives(p) == \E c \in Calls : \/ RefuseCall(p, c) \/ CallCreate(p, c) \/ CallUpdate(p, c)
                                \/ CallAssign(p, c) \/ CallDelete(p, c)

Works(p) ==
  \/ GetTask(p) \/ VerifyAssignee(p) \/ Begin(p)
  \/ LockKey(p) \/ CheckKey(p) \/ InsertTask(p)
  \/ UpdateTask(p)
  \/ SelectForUpdate(p) \/ RecheckAssignee(p) \/ PersistAssignee(p)
  \/ RemoveTask(p)
  \/ Commit(p)

Acts(p) == Receives(p) \/ Works(p) \/ LoseCommit(p) \/ Fail(p)

Next ==
  \/ \E p \in Procs : Acts(p)
  \/ \E u \in Users : Register(u) \/ DeleteAccount(u)
  \/ Tick
  \/ Quiesce

Spec == Init /\ [][Next]_vars

(* The Go scheduler runs every goroutine that can run, and within a        *)
(* bounded number of calls every wait for a lock or a connection has a     *)
(* finite queue ahead of it.  Nothing obliges a call to arrive, a failure  *)
(* to happen or an account to change.                                      *)
FairSpec == Spec /\ \A p \in Procs : WF_vars(Works(p))
------------------------------------------------------------------------------
(* Properties.                                                             *)

(* Every variable keeps its type; in particular a stored row and a stored  *)
(* log always have a valid content, whatever status a client sent.         *)
TypeOK ==
  /\ tasks \in [TaskIds -> Row \cup {NoRow}]
  /\ logs \in Seq(Log)
  /\ accounts \in [Users -> [state : AccountStates, closed : Nat]]
  /\ advisory \in [LockIds -> Procs \cup {Nil}]
  /\ rowLock \in [TaskIds -> Procs \cup {Nil}]
  /\ pc \in [Procs -> Labels]
  /\ job \in [Procs -> Job \cup {NoJob}]
  /\ \A p \in Procs : pc[p] # "idle" => job[p] \in Job
  /\ reply \in [Procs -> Reply \cup {NoReply}]
  /\ issued \in 0..MaxCalls
  /\ now \in Nat

(* Idempotency: two live tasks never share a key within the window, however *)
(* their creates interleave, wait for each other, fail or are retried.  The *)
(* two clocks involved, time.Now() in created_at and now() in the check,    *)
(* shorten or lengthen the guaranteed distance by their skew.               *)
LiveKeysSpaced ==
  \A a, b \in TaskIds :
    a # b /\ Live(a) /\ Live(b) /\ tasks[a].key = tasks[b].key
      => \/ tasks[a].created - tasks[b].created > Window - Skew
         \/ tasks[b].created - tasks[a].created > Window - Skew

(* A committed row never disappears and keeps its key and creation time;   *)
(* once soft-deleted it never changes again.  Update writes every column   *)
(* of a row it read earlier, so a delete in between must not be undone.    *)
RowsKeepIdentity ==
  [][\A id \in TaskIds : tasks[id] # NoRow =>
       /\ tasks'[id] # NoRow
       /\ tasks'[id].key = tasks[id].key
       /\ tasks'[id].created = tasks[id].created
       /\ tasks[id].deleted => tasks'[id] = tasks[id]]_vars

(* Of all deletes of a task one at most answers 200: the one whose commit  *)
(* made the row disappear.  Everybody else gets 404.                       *)
DeleteSucceedsOnce ==
  [][\A p \in Procs :
       /\ reply'[p] # reply[p] /\ reply'[p] # NoReply
       /\ reply'[p].op = "delete" /\ reply'[p].code = OK
       => \E id \in TaskIds : id = reply'[p].id /\ Live(id) /\ ~Live(id)']_vars

(* The logs are append-only, and each one is the snapshot of the change it *)
(* is published with: the row's new assignee, a different one than before, *)
(* and the content the row has, which the assignment leaves alone.         *)
LogsAreTrue ==
  [][logs' # logs =>
       \E id \in TaskIds :
         /\ Live(id)
         /\ tasks'[id] = [tasks[id] EXCEPT !.user = tasks'[id].user]
         /\ tasks'[id].user # tasks[id].user
         /\ \E at \in 0..now :
              logs' = Append(logs, [task |-> id, user |-> tasks'[id].user,
                                    content |-> tasks'[id].content, at |-> at])]_vars

(* Whatever changes an assignee, an unassignment included, publishes a log *)
(* in the same commit.  The one exception is an update writing back the    *)
(* assignee it read before its transaction.                                *)
AssignmentsAreLogged ==
  [][\A id \in TaskIds :
       /\ Live(id) /\ tasks'[id].user # tasks[id].user
       => \/ Len(logs') = Len(logs) + 1 /\ logs'[Len(logs')].task = id
          \/ \E p \in Procs : /\ pc[p] = "commit" /\ pc'[p] = "idle"
                              /\ job[p].op = "update" /\ job[p].id = id]_vars

(* The time stamps of a task's logs follow the order of their commits, so  *)
(* ordering by created_at tells the history of its assignments.            *)
LogTimesOrdered ==
  \A i, k \in 1..Len(logs) :
    i < k /\ logs[i].task = logs[k].task => logs[i].at <= logs[k].at

(* A task is never given to an account that does not exist or was deleted  *)
(* before the assignment's transaction began.  There is no foreign key: the *)
(* second look at the account is all that ensures it.                      *)
AssigneeWasActive ==
  \A p \in Procs :
    /\ pc[p] = "commit" /\ job[p].op = "assign"
    /\ job[p].row # NoRow /\ job[p].user # Nil
    => LET a == accounts[job[p].user]
       IN a.state = "active" \/ (a.state = "deleted" /\ a.closed >= job[p].began)

(* All of it in one formula: to whoever looks at the tables the statements *)
(* of a request are one atomic step of the ledger, or none.                *)
Ledger == INSTANCE TaskLedger WITH Ids <- TaskIds, Distance <- Window - Skew
LedgerKept == Ledger!Spec

(* Every call is answered: no request waits for ever for a lock or for a   *)
(* connection of the pool.                                                 *)
EveryCallAnswered == \A p \in Procs : pc[p] # "idle" ~> pc[p] = "idle"
------------------------------------------------------------------------------
(* Statements the documentation makes and the code does not keep.          *)

(* README: PATCH /tasks/:id is to "update title/description/status".  So   *)
(* only an assignment would change whom a task is assigned to.             *)
OnlyAssignAssigns ==
  [][\A id \in TaskIds, p \in Procs :
       /\ Live(id) /\ tasks'[id].user # tasks[id].user
       /\ pc[p] = "commit" /\ pc'[p] = "idle" /\ job[p].id = id
       => job[p].op = "assign"]_vars

(* http-client/task.http: an update with an invalid status is answered 400.*)
InvalidStatusIsRefused ==
  \A p \in Procs :
    /\ reply[p] # NoReply /\ reply[p].op = "update"
    /\ reply[p].err = "check_violation"
    => reply[p].code = 400
=============================================================================
