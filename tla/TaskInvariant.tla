---------------------------- MODULE TaskInvariant ----------------------------
(***************************************************************************)
(* The inductive invariant of TaskService: what each request knows at each *)
(* of its labels, and which lock keeps that knowledge true until it        *)
(* commits.  TaskServiceProofs proves the safety properties from it.       *)
(***************************************************************************)
EXTENDS TaskService

(* Where a request of each kind can be, and what its job holds there.      *)
JobShape ==
  \A p \in Procs : pc[p] # "idle" =>
    /\ job[p].op = "create" =>
         /\ pc[p] \in {"begin", "lock", "check", "insert", "commit"}
         /\ job[p].key \in Keys
         /\ pc[p] # "commit" => job[p].row # NoRow
         /\ job[p].row # NoRow => job[p].row.key = job[p].key
    /\ job[p].op = "update" =>
         /\ pc[p] \in {"read", "begin", "modify", "commit"}
         /\ pc[p] = "read" <=> job[p].row = NoRow
    /\ job[p].op = "assign" =>
         /\ pc[p] \in {"verify", "begin", "modify", "recheck", "persist", "commit"}
         /\ job[p].user # Bad
         /\ pc[p] \in {"verify", "begin", "modify"} => job[p].row = NoRow
    /\ job[p].op = "delete" =>
         /\ pc[p] \in {"begin", "modify", "commit"}
         /\ pc[p] # "commit" => job[p].row = NoRow
    /\ pc[p] \in {"verify", "recheck"} => job[p].user \in Users
    /\ pc[p] \in {"recheck", "persist"} => job[p].row \in Row
    /\ pc[p] = "commit" => job[p].row \in Row \cup {NoRow}

(* Nothing carries a time stamp of the future.                             *)
TimesPast ==
  /\ \A id \in TaskIds : tasks[id] # NoRow => tasks[id].created <= now
  /\ \A i \in 1..Len(logs) : logs[i].at <= now
  /\ \A p \in Procs : pc[p] # "idle" => job[p].began <= now /\ job[p].at <= now

(* The id of a task being created belongs to no row and to no other create.*)
Creating(p) == pc[p] # "idle" /\ job[p].op = "create" /\ job[p].row # NoRow
IdsFresh ==
  /\ \A id \in TaskIds : tasks[id] # NoRow => id <= issued
  /\ \A p \in Procs : Creating(p) => job[p].id <= issued /\ tasks[job[p].id] = NoRow
  /\ \A p, q \in Procs : p # q /\ Creating(p) /\ Creating(q) => job[p].id # job[q].id

(* From its check to its commit a create holds the lock of its key.        *)
KeyLocked ==
  \A p \in Procs : pc[p] \in {"check", "insert", "commit"} /\ job[p].op = "create"
    => advisory[HashText[job[p].key]] = p

(* A request about to write an existing row keeps the row's identity.  One *)
(* that has looked at the row inside its transaction also holds the row's  *)
(* lock, so the row is still the live one it saw.                          *)
Rewrites(p)  == pc[p] # "idle" /\ job[p].op # "create" /\ job[p].row # NoRow
HoldsRow(p) ==
  \/ pc[p] \in {"recheck", "persist"}
  \/ pc[p] = "commit" /\ job[p].op # "create" /\ job[p].row # NoRow
RowsHeld ==
  \A p \in Procs :
    /\ Rewrites(p) => /\ tasks[job[p].id] # NoRow
                      /\ job[p].row.key = tasks[job[p].id].key
                      /\ job[p].row.created = tasks[job[p].id].created
    /\ HoldsRow(p) => Live(job[p].id) /\ rowLock[job[p].id] = p

(* What an assign and a delete are about to publish.                       *)
Exact(p) ==
  /\ pc[p] \in {"recheck", "persist"} =>
       /\ job[p].row = tasks[job[p].id]
       /\ tasks[job[p].id].user # job[p].user
  /\ pc[p] = "commit" /\ job[p].op = "assign" /\ job[p].row # NoRow =>
       /\ job[p].row = [tasks[job[p].id] EXCEPT !.user = job[p].user]
       /\ tasks[job[p].id].user # job[p].user
  /\ pc[p] = "commit" /\ job[p].op = "delete" =>
       /\ job[p].row # NoRow
       /\ job[p].row = [tasks[job[p].id] EXCEPT !.deleted = TRUE]
WritesExact == \A p \in Procs : Exact(p)

(* An assign about to commit stamps its log no earlier than the logs its   *)
(* task already has.                                                       *)
StampsLast ==
  \A p \in Procs : pc[p] = "commit" /\ job[p].op = "assign" /\ job[p].row # NoRow
    => \A i \in 1..Len(logs) : logs[i].task = job[p].id => logs[i].at <= job[p].at

(* A create that found no match knows that every live task of its key is   *)
(* older than the window its transaction saw.                              *)
Missed(p) == \/ pc[p] = "insert"
             \/ pc[p] = "commit" /\ job[p].op = "create" /\ job[p].row # NoRow
GapSeen ==
  \A p \in Procs : Missed(p) =>
    /\ \A id \in TaskIds : Live(id) /\ tasks[id].key = job[p].key
         => tasks[id].created < job[p].began + Skew - Window
    /\ pc[p] = "commit" => /\ job[p].began <= job[p].row.created
                           /\ job[p].row.created <= now

(* An assignee that passed the second look was not deleted before the      *)
(* transaction began.                                                      *)
AssigneeSeen ==
  \A p \in Procs :
    /\ pc[p] = "persist" /\ job[p].user # Nil
    => \/ accounts[job[p].user].state = "active"
       \/ /\ accounts[job[p].user].state = "deleted"
          /\ accounts[job[p].user].closed >= job[p].began

(* A task starts without an assignee and not deleted; an update writes no  *)
(* deletion; and whoever a row or an update names as the assignee was      *)
(* assigned the task in a logged transaction.                              *)
WasAssigned(id, user) ==
  user = Nil \/ \E i \in 1..Len(logs) : logs[i].task = id /\ logs[i].user = user
RowsSound ==
  /\ \A id \in TaskIds : tasks[id] # NoRow => WasAssigned(id, tasks[id].user)
  /\ \A p \in Procs : pc[p] # "idle" /\ job[p].row # NoRow =>
       /\ job[p].op = "create" => job[p].row.user = Nil
       /\ job[p].op \in {"create", "update"} => ~job[p].row.deleted
       /\ job[p].op = "update" => WasAssigned(job[p].id, job[p].row.user)

IInv ==
  /\ TypeOK /\ JobShape
  /\ TimesPast /\ IdsFresh
  /\ KeyLocked /\ RowsHeld /\ WritesExact
  /\ StampsLast /\ LogTimesOrdered
  /\ GapSeen /\ LiveKeysSpaced
  /\ AssigneeSeen /\ AssigneeWasActive
  /\ RowsSound
=============================================================================
