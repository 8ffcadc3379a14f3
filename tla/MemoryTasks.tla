----------------------------- MODULE MemoryTasks -----------------------------
(***************************************************************************)
(* The task repository the tests run on: Go maps under one mutex, so that  *)
(* every operation is one step.  A Go map is a function on its keys.       *)
(***************************************************************************)
EXTENDS Integers, Sequences

CONSTANTS Nil,    \* no assignee
          Window  \* replayWindow

VARIABLES tasks,   \* the tasks stored so far, deleted ones included
          deleted, \* ids of the deleted ones
          logs     \* snapshots of assignments, without their assignee

Init == tasks = <<>> /\ deleted = {} /\ logs = <<>>

Stored(id) == id \in DOMAIN tasks /\ id \notin deleted

Newer(a, b) == \/ tasks[a].created > tasks[b].created
               \/ tasks[a].created = tasks[b].created /\ a > b

(* The most recent task of a key, if there is one.                         *)
LatestByKey(key) ==
  LET found == {id \in DOMAIN tasks : Stored(id) /\ tasks[id].key = key}
  IN {id \in found : \A other \in found \ {id} : Newer(id, other)}

(* Mutated form of Replayed: a window closed at the wrong end, so that no  *)
(* task is young enough to be found again in the same instant.             *)
ReplayedLater(key, now) ==
  {id \in LatestByKey(key) : tasks[id].created \in now - Window .. now - 1}

(* The task a create of this key returns instead of a new one.             *)
Replayed(key, now) == {id \in LatestByKey(key) : tasks[id].created >= now - Window}

Put(id, task) ==
  tasks' = [other \in DOMAIN tasks \cup {id} |-> IF other = id THEN task ELSE tasks[other]]

Create(id, draft, now) ==
  /\ Replayed(draft.key, now) = {}
  /\ Put(id, [draft EXCEPT !.created = now])
  /\ UNCHANGED <<deleted, logs>>

(* Whatever the caller read of a task becomes the task again.              *)
Update(id, task) ==
  /\ Stored(id)
  /\ Put(id, [task EXCEPT !.created = tasks[id].created])
  /\ UNCHANGED <<deleted, logs>>

(* Mutated form of Assign: the new assignee, but no log.                   *)
AssignSilently(id, user, now) ==
  Stored(id) /\ Put(id, [tasks[id] EXCEPT !.user = user]) /\ UNCHANGED <<deleted, logs>>

Assign(id, user, now) ==
  /\ Stored(id)
  /\ \/ tasks[id].user = user /\ UNCHANGED <<tasks, logs>>
     \/ /\ tasks[id].user # user
        /\ Put(id, [tasks[id] EXCEPT !.user = user])
        /\ logs' = Append(logs, [task |-> id, content |-> tasks[id].content, at |-> now])
  /\ UNCHANGED deleted

Delete(id) == Stored(id) /\ deleted' = deleted \cup {id} /\ UNCHANGED <<tasks, logs>>

(* A test makes a task older, or younger, than it is.                      *)
SetCreatedAt(id, at) ==
  /\ id \in DOMAIN tasks
  /\ Put(id, [tasks[id] EXCEPT !.created = at])
  /\ UNCHANGED <<deleted, logs>>
=============================================================================
