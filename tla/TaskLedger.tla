----------------------------- MODULE TaskLedger ------------------------------
(***************************************************************************)
(* What the task API promises about its two tables, whatever happens       *)
(* between statements: every operation is one atomic step on one task.     *)
(***************************************************************************)
EXTENDS Integers, Sequences

CONSTANTS Ids,      \* task ids
          Nil,      \* no assignee
          NoRow,    \* no task under this id
          Distance  \* creations of one key are further apart than this
VARIABLES tasks, logs

Init == tasks = [id \in Ids |-> NoRow] /\ logs = <<>>

Live(id) == tasks[id] # NoRow /\ ~tasks[id].deleted

(* A task may be created unless a live one has its key and is too young.   *)
Create(id, row) ==
  /\ tasks[id] = NoRow /\ row # NoRow
  /\ row.user = Nil /\ ~row.deleted
  /\ \A other \in Ids : Live(other) /\ tasks[other].key = row.key
       => row.created - tasks[other].created > Distance
  /\ tasks' = [tasks EXCEPT ![id] = row]
  /\ UNCHANGED logs

Logged(id, user) == \E i \in 1..Len(logs) : logs[i].task = id /\ logs[i].user = user

(* An update may change the content, but neither key, creation nor         *)
(* deletion.  It may change the assignee (see OnlyAssignAssigns in         *)
(* TaskService), but only to one the task has had.                         *)
Update(id, row) ==
  /\ Live(id)
  /\ row.user = Nil \/ Logged(id, row.user)
  /\ row.key = tasks[id].key /\ row.created = tasks[id].created /\ ~row.deleted
  /\ tasks' = [tasks EXCEPT ![id] = row]
  /\ UNCHANGED logs

(* An assignment changes the assignee, and logs it with what the task is   *)
(* at that time; a task's logs are stamped in order.                       *)
Assign(id, row) ==
  /\ Live(id)
  /\ row.user # tasks[id].user
  /\ tasks' = [tasks EXCEPT ![id].user = row.user]
  /\ Len(logs') = Len(logs) + 1
  /\ LET log == logs'[Len(logs')]
     IN /\ logs' = Append(logs, log)
        /\ log.task = id /\ log.user = row.user /\ log.content = row.content
        /\ \A i \in 1..Len(logs) : logs[i].task = id => logs[i].at <= log.at

Delete(id) ==
  /\ Live(id)
  /\ tasks' = [tasks EXCEPT ![id].deleted = TRUE]
  /\ UNCHANGED logs

Next == \E id \in Ids : LET row == tasks'[id]
                        IN Create(id, row) \/ Update(id, row) \/ Assign(id, row) \/ Delete(id)

Spec == Init /\ [][Next]_<<tasks, logs>>
=============================================================================
