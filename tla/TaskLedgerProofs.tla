-------------------------- MODULE TaskLedgerProofs ---------------------------
(***************************************************************************)
(* TaskService implements TaskLedger: whatever statements of how many      *)
(* requests interleave, lock, fail and are lost, the two tables change by  *)
(* one atomic operation of the ledger at a time.                           *)
(***************************************************************************)
EXTENDS TaskServiceProofs

(* The commit of a create is a creation that respects the distance of its  *)
(* key.                                                                    *)
LEMMA CreateCommits ==
  ASSUME IInv, NEW p \in Procs, Commit(p) \/ LoseCommit(p),
         job[p].row # NoRow, job[p].op = "create"
  PROVE  Ledger!Create(job[p].id, tasks'[job[p].id])
<1> DEFINE id == job[p].id
           row == tasks'[id]
<1>1. /\ pc[p] = "commit" /\ id \in TaskIds /\ tasks[id] = NoRow
      /\ row = job[p].row /\ row # NoRow
      /\ tasks' = [tasks EXCEPT ![id] = row]
  BY CommitEffect DEF Publish
<1>2. logs' = logs
  BY LogEffect
<1>3. row.user = Nil /\ ~row.deleted
  BY <1>1 DEF IInv, RowsSound
<1>4. Missed(p) /\ row.key = job[p].key
  BY <1>1 DEF Missed, IInv, JobShape
<1>5. ASSUME NEW other \in TaskIds, Live(other), tasks[other].key = row.key
      PROVE  row.created - tasks[other].created > Window - Skew
  <2>1. /\ tasks[other].created < job[p].began + Skew - Window
        /\ job[p].began <= row.created
    BY <1>1, <1>4, <1>5 DEF IInv, GapSeen
  <2>2. /\ tasks[other].created \in Nat /\ row.created \in Nat
        /\ job[p].began \in Nat /\ Skew \in Int /\ Window \in Nat
    BY <1>1, <1>5, NumberTypes DEF IInv, Live
  <2> HIDE DEF row
  <2> QED BY <2>1, <2>2
<1> HIDE DEF row
<1> QED BY <1>1, <1>2, <1>3, <1>5 DEF Ledger!Create, Ledger!Live, Live, row

LEMMA UpdateCommits ==
  ASSUME IInv, NEW p \in Procs, Commit(p) \/ LoseCommit(p),
         job[p].row # NoRow, job[p].op = "update"
  PROVE  Ledger!Update(job[p].id, tasks'[job[p].id])
<1> DEFINE id == job[p].id
           row == tasks'[id]
<1>1. /\ pc[p] = "commit" /\ id \in TaskIds /\ Live(id) /\ row = job[p].row
      /\ row.key = tasks[id].key /\ row.created = tasks[id].created
      /\ tasks' = [tasks EXCEPT ![id] = row]
  BY CommitEffect DEF Publish
<1>2. logs' = logs
  BY LogEffect
<1>3. ~row.deleted /\ WasAssigned(id, row.user)
  BY <1>1 DEF IInv, RowsSound
<1> HIDE DEF row
<1> QED BY <1>1, <1>2, <1>3
        DEF Ledger!Update, Ledger!Live, Ledger!Logged, WasAssigned, Live, row

(* The commit of an assignment changes the assignee and adds its log,      *)
(* stamped no earlier than the others of its task.                         *)
LEMMA AssignCommits ==
  ASSUME IInv, NEW p \in Procs, Commit(p) \/ LoseCommit(p),
         job[p].row # NoRow, job[p].op = "assign"
  PROVE  Ledger!Assign(job[p].id, tasks'[job[p].id])
<1> DEFINE id == job[p].id
           row == tasks'[id]
           log == [task |-> id, user |-> job[p].user,
                   content |-> job[p].row.content, at |-> job[p].at]
<1>1. /\ id \in TaskIds /\ Live(id)
      /\ tasks' = [tasks EXCEPT ![id] = job[p].row]
      /\ job[p].row = [tasks[id] EXCEPT !.user = job[p].user]
      /\ tasks[id].user # job[p].user
      /\ logs' = Append(logs, log)
  BY LoggedCommit
<1>2. /\ tasks \in [TaskIds -> Row \cup {NoRow}] /\ tasks[id] \in Row
      /\ logs \in Seq(Log)
  BY <1>1 DEF IInv, TypeOK, Live
<1>3. row = job[p].row /\ row.user = job[p].user
  BY <1>1, <1>2 DEF Row, RowOf
<1>4. tasks' = [tasks EXCEPT ![id].user = row.user]
  BY <1>1, <1>2, <1>3
<1>5. /\ log.task = id /\ log.user = row.user /\ log.content = row.content
      /\ log.at = job[p].at
  BY <1>3
<1>6. \A i \in 1..Len(logs) : logs[i].task = id => logs[i].at <= log.at
  BY <1>5, CommitEffect DEF IInv, StampsLast
<1> HIDE DEF log, row
<1>7. Len(logs') = Len(logs) + 1 /\ logs'[Len(logs')] = log
  BY <1>1, <1>2
<1> QED BY <1>1, <1>3, <1>4, <1>5, <1>6, <1>7 DEF Ledger!Assign, Ledger!Live, Live, row

LEMMA DeleteCommits ==
  ASSUME IInv, NEW p \in Procs, Commit(p) \/ LoseCommit(p),
         job[p].row # NoRow, job[p].op = "delete"
  PROVE  Ledger!Delete(job[p].id)
<1> DEFINE id == job[p].id
<1>1. /\ pc[p] = "commit" /\ id \in TaskIds /\ Live(id)
      /\ tasks' = [tasks EXCEPT ![id] = job[p].row]
  BY CommitEffect DEF Publish
<1>2. job[p].row = [tasks[id] EXCEPT !.deleted = TRUE]
  BY <1>1 DEF IInv, WritesExact, Exact
<1>3. logs' = logs
  BY LogEffect
<1>4. tasks \in [TaskIds -> Row \cup {NoRow}] /\ tasks[id] \in Row
  BY <1>1 DEF IInv, TypeOK, Live
<1>5. tasks' = [tasks EXCEPT ![id].deleted = TRUE]
  BY <1>1, <1>2, <1>4
<1> QED BY <1>1, <1>3, <1>5 DEF Ledger!Delete, Ledger!Live, Live

LEMMA LedgerStep ==
  ASSUME IInv, [Next]_vars
  PROVE  [Ledger!Next]_<<tasks, logs>>
<1>1. CASE tasks' = tasks /\ logs' = logs
  BY <1>1
<1>2. ASSUME NEW p \in Procs, Commit(p) \/ LoseCommit(p)
      PROVE  [Ledger!Next]_<<tasks, logs>>
  <2>1. CASE job[p].row = NoRow
    <3>1. tasks' = tasks /\ logs' = logs
      BY <1>2, <2>1, CommitEffect, LogEffect
    <3> QED BY <3>1
  <2>2. CASE job[p].row # NoRow
    <3>1. job[p].id \in TaskIds /\ job[p].op \in Ops
      BY <1>2, CommitEffect, JobFields DEF IInv
    <3>2. \/ Ledger!Create(job[p].id, tasks'[job[p].id])
          \/ Ledger!Update(job[p].id, tasks'[job[p].id])
          \/ Ledger!Assign(job[p].id, tasks'[job[p].id])
          \/ Ledger!Delete(job[p].id)
      BY <1>2, <2>2, <3>1, CreateCommits, UpdateCommits, AssignCommits, DeleteCommits DEF Ops
    <3> QED BY <3>1, <3>2 DEF Ledger!Next
  <2> QED BY <2>1, <2>2
<1> QED BY <1>1, <1>2, OnlyCommits

(* To whoever looks at the tables the requests are atomic operations, for  *)
(* every number of requests, any pool, window and skew.                    *)
THEOREM ImplementsLedger == Spec => LedgerKept
<1>1. Init => Ledger!Init
  BY DEF Init, Ledger!Init
<1>2. IInv /\ [Next]_vars => [Ledger!Next]_<<tasks, logs>>
  BY LedgerStep
<1> QED BY <1>1, <1>2, Invariance, PTL DEF Spec, LedgerKept, Ledger!Spec
=============================================================================
