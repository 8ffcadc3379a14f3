-------------------------- MODULE TaskServiceProofs --------------------------
(***************************************************************************)
(* The safety properties of TaskService, for any number of requests, keys, *)
(* users and values, any window and any skew of the two clocks.            *)
(***************************************************************************)
EXTENDS TaskInvariant, FiniteSetTheorems, TLAPS

(* The error handler answers one of the documented statuses.               *)
LEMMA ClassifyType ==
  ASSUME NEW err \in Errors PROVE Classify(err) \in Replies
BY DEF Errors, DriverErrors, Classify, RouterStatus, StatusOf, Replies

LEMMA ErrorNames ==
  {"not_found", "invalid_input", "no_route", "check_violation", "failure"}
  \subseteq Errors
BY DEF Errors, RouterStatus, StatusOf, DriverErrors

(* Answering a request leaves its process idle and well typed.             *)
LEMMA AnswerType ==
  ASSUME TypeOK, NEW p \in Procs, NEW j, j.op \in Ops, j.id \in TaskIds \cup {Bad},
         NEW err \in Errors \cup {"none"}, NEW code \in Replies,
         Answer(p, j, err, code)
  PROVE  /\ reply' \in [Procs -> Reply \cup {NoReply}]
         /\ pc' \in [Procs -> Labels]
         /\ job' \in [Procs -> Job \cup {NoJob}]
         /\ \A q \in Procs : pc'[q] # "idle" =>
              q # p /\ pc'[q] = pc[q] /\ job'[q] = job[q]
BY DEF TypeOK, Answer, Goto, Reply, Labels

(* Releasing locks frees the locks of one process and no other lock.       *)
LEMMA ReleaseType ==
  ASSUME TypeOK, NEW p \in Procs, Release(p)
  PROVE  /\ advisory' \in [LockIds -> Procs \cup {Nil}]
         /\ rowLock' \in [TaskIds -> Procs \cup {Nil}]
         /\ \A l \in LockIds : advisory[l] # p => advisory'[l] = advisory[l]
         /\ \A id \in TaskIds : rowLock[id] # p => rowLock'[id] = rowLock[id]
BY DEF TypeOK, Release

LEMMA AbortType ==
  ASSUME TypeOK, JobShape, NEW p \in Procs, pc[p] # "idle", NEW err \in Errors,
         Abort(p, err)
  PROVE  TypeOK' /\ JobShape'
<1>1. job[p] \in Job /\ job[p].op \in Ops /\ job[p].id \in TaskIds
  BY DEF TypeOK, Job
<1>2. Classify(err) \in Replies
  BY ClassifyType
<1>3. /\ Answer(p, job[p], err, Classify(err)) /\ Release(p)
      /\ UNCHANGED <<tasks, logs, accounts, issued, now>>
  BY DEF Abort
<1>4. /\ reply' \in [Procs -> Reply \cup {NoReply}]
      /\ pc' \in [Procs -> Labels]
      /\ job' \in [Procs -> Job \cup {NoJob}]
      /\ \A q \in Procs : pc'[q] # "idle" =>
           q # p /\ pc'[q] = pc[q] /\ job'[q] = job[q]
  BY <1>1, <1>2, <1>3, AnswerType
<1>5. TypeOK'
  BY <1>3, <1>4, ReleaseType DEF TypeOK
<1>6. JobShape'
  BY <1>4 DEF JobShape
<1> QED BY <1>5, <1>6
------------------------------------------------------------------------------
(* Typing: TypeOK is inductive together with JobShape.                     *)

LEMMA TypingInit == Init => TypeOK /\ JobShape
BY BoundsAssumption DEF Init, TypeOK, JobShape, Labels, AccountStates

(* An accepted call puts its process at its first label with a fresh job.  *)
LEMMA AcceptType ==
  ASSUME TypeOK, NEW p \in Procs, NEW c \in Call, NEW label \in Labels,
         NEW id \in TaskIds, NEW row \in RowOf(Draft) \cup {NoRow},
         Accept(p, c, label, id, row)
  PROVE  /\ TypeOK'
         /\ pc'[p] = label
         /\ job'[p].op = c.op /\ job'[p].id = id /\ job'[p].key = c.key
         /\ job'[p].user = c.user /\ job'[p].row = row
         /\ job'[p].began = 0 /\ job'[p].at = 0
         /\ \A q \in Procs \ {p} : pc'[q] = pc[q] /\ job'[q] = job[q]
<1> DEFINE j == [op |-> c.op, id |-> id, key |-> c.key, patch |-> c.patch,
                 user |-> c.user, row |-> row, began |-> 0, at |-> 0]
<1>1. j \in Job
  BY DEF Call, Job
<1>2. TypeOK' /\ pc'[p] = label /\ job'[p] = j
      /\ \A q \in Procs \ {p} : pc'[q] = pc[q] /\ job'[q] = job[q]
  <2> HIDE DEF j
  <2>1. job' = [job EXCEPT ![p] = j]
    BY DEF j, Accept
  <2> QED BY <1>1, <2>1, BoundsAssumption DEF Accept, Receive, Goto, TypeOK
<1>3. /\ j.op = c.op /\ j.id = id /\ j.key = c.key /\ j.user = c.user
      /\ j.row = row /\ j.began = 0 /\ j.at = 0
  OBVIOUS
<1> HIDE DEF j
<1> QED BY <1>2, <1>3

LEMMA TypingCalls ==
  ASSUME TypeOK, JobShape, NEW p \in Procs, Receives(p)
  PROVE  TypeOK' /\ JobShape'
<1> PICK c \in Calls : \/ RefuseCall(p, c) \/ CallCreate(p, c) \/ CallUpdate(p, c)
                       \/ CallAssign(p, c) \/ CallDelete(p, c)
  BY DEF Receives
<1>1. c \in Call
  BY CallsAssumption
<1>2. CASE RefuseCall(p, c)
  <2>1. PICK err \in {"no_route", "invalid_input"} : Answer(p, c, err, Classify(err))
    BY <1>2 DEF RefuseCall
  <2>2. /\ pc[p] = "idle" /\ issued' \in 0..MaxCalls
        /\ UNCHANGED <<tasks, logs, accounts, advisory, rowLock, now>>
    BY <1>2, BoundsAssumption DEF RefuseCall, Receive, TypeOK
  <2>3. err \in Errors
    BY ErrorNames
  <2>4. c.op \in Ops /\ c.id \in TaskIds \cup {Bad}
    BY <1>1 DEF Call
  <2>5. /\ reply' \in [Procs -> Reply \cup {NoReply}]
        /\ pc' \in [Procs -> Labels]
        /\ job' \in [Procs -> Job \cup {NoJob}]
        /\ \A q \in Procs : pc'[q] # "idle" =>
             q # p /\ pc'[q] = pc[q] /\ job'[q] = job[q]
    BY <2>1, <2>2, <2>3, <2>4, ClassifyType, AnswerType
  <2> QED BY <2>2, <2>5 DEF TypeOK, JobShape
<1>3. CASE CallCreate(p, c)
  <2>1. c.op = "create" /\ ~Refused(c) /\ issued < MaxCalls
    BY <1>3 DEF CallCreate, Accept, Receive
  <2>2. c.key \in Keys /\ issued + 1 \in TaskIds
    BY <1>1, <2>1, BoundsAssumption DEF Refused, Call, TypeOK, TaskIds
  <2>3. c.patch \in Patch /\ c.patch.title \in Texts
        /\ c.patch.description \in Texts \cup {Nil}
    BY <1>1, <2>1 DEF Refused, Call, Patch
  <2>4. NewTask(c).content \in Draft
    BY <2>3, ValuesAssumption DEF NewTask, Draft, Patch
  <2>5. NewTask(c) \in RowOf(Draft) /\ NewTask(c).key = c.key
    BY <2>2, <2>4 DEF NewTask, RowOf
  <2>6. "begin" \in Labels
    BY DEF Labels
  <2>7. /\ TypeOK'
        /\ pc'[p] = "begin" /\ job'[p].op = "create"
        /\ job'[p].key = c.key /\ job'[p].row = NewTask(c)
        /\ \A q \in Procs \ {p} : pc'[q] = pc[q] /\ job'[q] = job[q]
    BY <1>1, <1>3, <2>1, <2>2, <2>5, <2>6, AcceptType DEF CallCreate
  <2> QED BY <2>2, <2>5, <2>7, NullsAssumption DEF JobShape
<1>4. CASE CallUpdate(p, c)
  <2>1. c.id \in TaskIds
    BY <1>1, <1>4 DEF CallUpdate, Accept, Refused, Unrouted, Call
  <2>2. c.op = "update" /\ Accept(p, c, "read", c.id, NoRow)
    BY <1>4 DEF CallUpdate
  <2>3. "read" \in Labels
    BY DEF Labels
  <2>4. /\ TypeOK'
        /\ pc'[p] = "read" /\ job'[p].op = "update" /\ job'[p].row = NoRow
        /\ \A q \in Procs \ {p} : pc'[q] = pc[q] /\ job'[q] = job[q]
    BY <1>1, <2>1, <2>2, <2>3, AcceptType
  <2> QED BY <2>4 DEF JobShape
<1>5. CASE CallAssign(p, c)
  <2>1. c.id \in TaskIds /\ c.user \in Users \cup {Nil} /\ c.user # Bad
    BY <1>1, <1>5 DEF CallAssign, Accept, Refused, Unrouted, Call
  <2> DEFINE label == IF c.user = Nil THEN "begin" ELSE "verify"
  <2>2. c.op = "assign" /\ Accept(p, c, label, c.id, NoRow)
    BY <1>5 DEF CallAssign
  <2>3. label \in Labels
    BY DEF Labels
  <2>4. /\ TypeOK'
        /\ pc'[p] = label /\ job'[p].op = "assign" /\ job'[p].user = c.user
        /\ job'[p].row = NoRow
        /\ \A q \in Procs \ {p} : pc'[q] = pc[q] /\ job'[q] = job[q]
    <3> HIDE DEF label
    <3> QED BY <1>1, <2>1, <2>2, <2>3, AcceptType
  <2> QED BY <2>1, <2>4 DEF JobShape
<1>6. CASE CallDelete(p, c)
  <2>1. c.id \in TaskIds
    BY <1>1, <1>6 DEF CallDelete, Accept, Refused, Unrouted, Call
  <2>2. c.op = "delete" /\ Accept(p, c, "begin", c.id, NoRow)
    BY <1>6 DEF CallDelete
  <2>3. "begin" \in Labels
    BY DEF Labels
  <2>4. /\ TypeOK'
        /\ pc'[p] = "begin" /\ job'[p].op = "delete" /\ job'[p].row = NoRow
        /\ \A q \in Procs \ {p} : pc'[q] = pc[q] /\ job'[q] = job[q]
    BY <1>1, <2>1, <2>2, <2>3, AcceptType
  <2> QED BY <2>4 DEF JobShape
<1> QED BY <1>2, <1>3, <1>4, <1>5, <1>6

(* A step inside a request changes the label and the job of its process.   *)
LEMMA StepType ==
  ASSUME TypeOK, JobShape, NEW p \in Procs, NEW label \in Labels, NEW j \in Job,
         pc' = [pc EXCEPT ![p] = label], job' = [job EXCEPT ![p] = j],
         advisory' \in [LockIds -> Procs \cup {Nil}],
         rowLock' \in [TaskIds -> Procs \cup {Nil}],
         UNCHANGED <<tasks, logs, accounts, reply, issued, now>>
  PROVE  /\ TypeOK'
         /\ pc'[p] = label /\ job'[p] = j
         /\ \A q \in Procs \ {p} : pc'[q] = pc[q] /\ job'[q] = job[q]
BY DEF TypeOK

(* The job of a request in progress, field by field.                       *)
LEMMA JobFields ==
  ASSUME TypeOK, NEW p \in Procs, pc[p] # "idle"
  PROVE  /\ job[p] \in Job /\ job[p].op \in Ops /\ job[p].id \in TaskIds
         /\ job[p].patch \in Patch /\ job[p].row \in RowOf(Draft) \cup {NoRow}
         /\ job[p].began \in Nat /\ job[p].at \in Nat
BY DEF TypeOK, Job

(* A stored row is also a draft row.                                       *)
LEMMA RowIsDraft == Row \subseteq RowOf(Draft)
BY DEF Row, RowOf, Content, Draft

(* A set of natural numbers has a least element; so a set of task ids has  *)
(* one whose row every other row of the set is no later than: the check    *)
(* of a create that finds matches returns one of them.                     *)
LEMMA LeastNatural ==
  ASSUME NEW T \in SUBSET Nat, T # {}
  PROVE  \E m \in T : \A n \in T : m <= n
<1> DEFINE R == StrictSubsetOrdering(Nat)
           F == FiniteSubsetsOf(Nat)
           segments == {0..n : n \in T}
<1>1. segments \subseteq F /\ segments # {}
  <2>1. ASSUME NEW n \in T PROVE 0..n \in F
    <3>1. IsFiniteSet(0..n)
      BY FS_Interval
    <3> QED BY <3>1 DEF FiniteSubsetsOf
  <2> QED BY <2>1
<1>2. IsWellFoundedOn(R, F)
  BY FS_StrictSubsetOrderingWellFounded
<1>3. PICK s \in segments : \A t \in segments : ~(<<t, s>> \in R)
  <2> HIDE DEF R, F, segments
  <2> QED BY <1>1, <1>2, WFMin
<1>4. PICK m \in T : s = 0..m
  BY <1>3
<1>5. ASSUME NEW n \in T, n < m PROVE FALSE
  <2>1. 0..n \subseteq 0..m /\ 0..n # 0..m
    BY <1>5
  <2>2. <<0..n, 0..m>> \in R
    BY <2>1 DEF StrictSubsetOrdering
  <2> QED BY <1>3, <1>4, <2>2
<1> QED BY <1>5

LEMMA NewestMatch ==
  ASSUME TypeOK, TimesPast, NEW key, NEW since, Matches(key, since) # {}
  PROVE  /\ Newest(Matches(key, since)) \in Matches(key, since)
         /\ \A b \in Matches(key, since) : Later(Newest(Matches(key, since)), b)
<1> DEFINE ids  == Matches(key, since)
           ages == {now - tasks[a].created : a \in ids}
<1>1. ids \in SUBSET TaskIds /\ ids # {}
  BY DEF Matches
<1>2. \A a \in ids : tasks[a].created \in Nat /\ tasks[a].created <= now /\ now \in Nat
                     /\ a \in Nat /\ a <= MaxCalls
  BY BoundsAssumption DEF Matches, Live, TypeOK, TimesPast, Row, RowOf, TaskIds
<1> HIDE DEF ids
<1>3. ages \in SUBSET Nat /\ ages # {}
  BY <1>1, <1>2
<1>4. PICK t \in ages : \A n \in ages : t <= n
  <2> HIDE DEF ages
  <2> QED BY <1>3, LeastNatural
<1>5. PICK young \in ids : t = now - tasks[young].created
  BY <1>4
<1>6. \A b \in ids : tasks[young].created >= tasks[b].created
  <2>1. \A b \in ids : t <= now - tasks[b].created
    BY <1>4
  <2> QED BY <1>2, <1>5, <2>1
<1> DEFINE top   == {a \in ids : tasks[a].created = tasks[young].created}
           ranks == {MaxCalls - a : a \in top}
<1>7. ranks \in SUBSET Nat /\ ranks # {}
  BY <1>2, BoundsAssumption
<1>8. PICK r \in ranks : \A n \in ranks : r <= n
  <2> HIDE DEF ranks
  <2> QED BY <1>7, LeastNatural
<1>9. PICK a \in top : r = MaxCalls - a
  BY <1>8
<1>10. ASSUME NEW b \in ids PROVE Later(a, b)
  <2>1. CASE b \in top
    <3>1. r <= MaxCalls - b
      BY <1>8, <2>1
    <3>2. a >= b
      BY <1>2, <1>9, <3>1, BoundsAssumption
    <3> QED BY <2>1, <3>2 DEF Later
  <2>2. CASE b \notin top
    <3>1. tasks[a].created > tasks[b].created
      BY <1>2, <1>6, <2>2
    <3> QED BY <3>1 DEF Later
  <2> QED BY <2>1, <2>2
<1>11. Newest(ids) \in ids /\ \A b \in ids : Later(Newest(ids), b)
  BY <1>10 DEF Newest
<1> QED BY <1>11 DEF ids

LEMMA TypingGetTask ==
  ASSUME TypeOK, JobShape, NEW p \in Procs, GetTask(p)
  PROVE  TypeOK' /\ JobShape'
<1> DEFINE patch == job[p].patch
           read  == tasks[job[p].id]
           row   == [read EXCEPT !.content = Merge(read.content, patch)]
           j     == [job[p] EXCEPT !.row = row]
<1>1. pc[p] = "read" /\ job[p].op = "update"
  BY JobFields DEF GetTask, JobShape, Ops
<1>2. CASE \/ Abort(p, "not_found")
           \/ Abort(p, "invalid_input")
  BY <1>1, <1>2, AbortType, ErrorNames
<1>3. CASE /\ Live(job[p].id) /\ patch.title # Bad /\ patch.description # Bad
           /\ job' = [job EXCEPT ![p] = j]
           /\ Goto(p, "begin")
           /\ UNCHANGED <<tasks, logs, accounts, advisory, rowLock, reply, issued, now>>
  <2>1. read \in Row /\ patch \in Patch
    BY <1>1, <1>3, JobFields DEF Live, TypeOK
  <2>2. Merge(read.content, patch) \in Draft
    BY <1>3, <2>1, ValuesAssumption
       DEF Merge, Overlay, Row, RowOf, Content, Draft, Patch
  <2>3. row \in RowOf(Draft)
    BY <2>1, <2>2 DEF Row, RowOf
  <2> HIDE DEF row
  <2>4. j \in Job /\ j.op = "update" /\ j.row = row
    BY <1>1, <2>3, JobFields DEF Job
  <2> HIDE DEF j
  <2>5. /\ TypeOK' /\ pc'[p] = "begin" /\ job'[p] = j
        /\ \A q \in Procs \ {p} : pc'[q] = pc[q] /\ job'[q] = job[q]
    BY <1>3, <2>4, StepType DEF Goto, Labels, TypeOK
  <2> QED BY <2>3, <2>4, <2>5, NullsAssumption DEF JobShape
<1> QED BY <1>1, <1>2, <1>3 DEF GetTask

LEMMA TypingLook ==
  ASSUME TypeOK, JobShape, NEW p \in Procs, VerifyAssignee(p) \/ RecheckAssignee(p)
  PROVE  TypeOK' /\ JobShape'
<1>1. pc[p] \in {"verify", "recheck"} /\ job[p].op = "assign"
  BY JobFields DEF VerifyAssignee, RecheckAssignee, JobShape, Ops
<1>2. CASE Abort(p, "invalid_input")
  BY <1>1, <1>2, AbortType, ErrorNames
<1>3. CASE \/ pc[p] = "verify" /\ Goto(p, "begin") /\ UNCHANGED <<tasks, logs,
                accounts, advisory, rowLock, job, reply, issued, now>>
           \/ pc[p] = "recheck" /\ Goto(p, "persist") /\ UNCHANGED <<tasks, logs,
                accounts, advisory, rowLock, job, reply, issued, now>>
  <2>1. TypeOK'
    BY <1>3 DEF Goto, TypeOK, Labels, InTx
  <2>2. JobShape'
    BY <1>1, <1>3 DEF Goto, JobShape, TypeOK
  <2> QED BY <2>1, <2>2
<1> QED BY <1>2, <1>3 DEF VerifyAssignee, RecheckAssignee

LEMMA TypingBegin ==
  ASSUME TypeOK, JobShape, NEW p \in Procs, Begin(p)
  PROVE  TypeOK' /\ JobShape'
<1> DEFINE j == [job[p] EXCEPT !.began = now]
           label == IF job[p].op = "create" THEN "lock" ELSE "modify"
<1>1. /\ pc[p] = "begin" /\ job[p].op \in Ops
      /\ j \in Job /\ j.op = job[p].op /\ j.row = job[p].row
      /\ j.key = job[p].key /\ j.user = job[p].user
  BY JobFields DEF Begin, Job, TypeOK
<1>2. label \in Labels
  BY DEF Labels, InTx
<1>3. /\ pc' = [pc EXCEPT ![p] = label] /\ job' = [job EXCEPT ![p] = j]
      /\ UNCHANGED <<tasks, logs, accounts, advisory, rowLock, reply, issued, now>>
  BY DEF Begin, Goto
<1> HIDE DEF j
<1>4. /\ TypeOK' /\ pc'[p] = label /\ job'[p] = j
      /\ \A q \in Procs \ {p} : pc'[q] = pc[q] /\ job'[q] = job[q]
  BY <1>1, <1>2, <1>3, StepType DEF TypeOK
<1> QED BY <1>1, <1>4 DEF JobShape, Ops

LEMMA TypingCreate ==
  ASSUME TypeOK, JobShape, TimesPast, NEW p \in Procs, LockKey(p) \/ CheckKey(p) \/ InsertTask(p)
  PROVE  TypeOK' /\ JobShape'
<1>1. pc[p] \in {"lock", "check", "insert"} /\ job[p].op = "create"
      /\ job[p].key \in Keys /\ job[p].row # NoRow
  BY JobFields DEF LockKey, CheckKey, InsertTask, JobShape, Ops
<1>2. CASE LockKey(p)
  <2>1. TypeOK'
    BY <1>1, <1>2, HashTextAssumption DEF LockKey, Goto, TypeOK, Labels, InTx
  <2>2. JobShape'
    BY <1>1, <1>2 DEF LockKey, Goto, JobShape, TypeOK
  <2> QED BY <2>1, <2>2
<1>3. CASE CheckKey(p)
  <2> DEFINE found == Matches(job[p].key, job[p].began + Skew - Window)
             j == [job[p] EXCEPT !.id = Newest(found), !.row = NoRow]
  <2>1. CASE found = {}
    <3>1. Goto(p, "insert") /\ job' = job
          /\ UNCHANGED <<tasks, logs, accounts, advisory, rowLock, reply, issued, now>>
      BY <1>3, <2>1 DEF CheckKey
    <3>2. TypeOK'
      BY <1>1, <3>1 DEF Goto, TypeOK, Labels, InTx
    <3>3. JobShape'
      BY <1>1, <3>1 DEF Goto, JobShape, TypeOK
    <3> QED BY <3>2, <3>3
  <2>2. CASE found # {}
    <3>1. Goto(p, "commit") /\ job' = [job EXCEPT ![p] = j]
          /\ UNCHANGED <<tasks, logs, accounts, advisory, rowLock, reply, issued, now>>
      BY <1>3, <2>2 DEF CheckKey
    <3>2. Newest(found) \in TaskIds
      BY <2>2, NewestMatch DEF Matches
    <3>3. j \in Job /\ j.op = "create" /\ j.key = job[p].key /\ j.row = NoRow
      BY <1>1, <3>2, JobFields DEF Job
    <3> HIDE DEF j
    <3>4. /\ TypeOK' /\ pc'[p] = "commit" /\ job'[p] = j
          /\ \A q \in Procs \ {p} : pc'[q] = pc[q] /\ job'[q] = job[q]
      BY <3>1, <3>3, StepType DEF Goto, Labels, InTx, TypeOK
    <3> QED BY <1>1, <3>3, <3>4 DEF JobShape
  <2> QED BY <2>1, <2>2
<1>4. CASE InsertTask(p)
  <2>1. CASE Abort(p, "check_violation")
    BY <1>1, <2>1, AbortType, ErrorNames
  <2>2. CASE ~Abort(p, "check_violation")
    <3> DEFINE row == [job[p].row EXCEPT !.created = now]
               j   == [job[p] EXCEPT !.row = row]
    <3>1. /\ job[p].row.content.status # Bad
          /\ job' = [job EXCEPT ![p] = j] /\ Goto(p, "commit")
          /\ UNCHANGED <<tasks, logs, accounts, advisory, rowLock, reply, issued, now>>
      BY <1>4, <2>2 DEF InsertTask
    <3>2. row \in Row /\ row.key = job[p].row.key
      BY <1>1, <3>1, JobFields DEF Row, RowOf, Draft, Content, TypeOK
    <3> HIDE DEF row
    <3>3. j \in Job /\ j.op = "create" /\ j.key = job[p].key /\ j.row = row
      BY <1>1, <3>2, RowIsDraft, JobFields DEF Job
    <3> HIDE DEF j
    <3>4. /\ TypeOK' /\ pc'[p] = "commit" /\ job'[p] = j
          /\ \A q \in Procs \ {p} : pc'[q] = pc[q] /\ job'[q] = job[q]
      BY <3>1, <3>3, StepType DEF Goto, Labels, InTx, TypeOK
    <3> QED BY <1>1, <3>2, <3>3, <3>4 DEF JobShape
  <2> QED BY <2>1, <2>2
<1> QED BY <1>2, <1>3, <1>4

LEMMA TypingRow ==
  ASSUME TypeOK, JobShape, NEW p \in Procs,
         UpdateTask(p) \/ SelectForUpdate(p) \/ PersistAssignee(p) \/ RemoveTask(p)
  PROVE  TypeOK' /\ JobShape'
<1>1. pc[p] \in {"modify", "persist"}
  BY DEF UpdateTask, SelectForUpdate, PersistAssignee, RemoveTask
<1>2. CASE Abort(p, "not_found") \/ Abort(p, "check_violation")
  BY <1>1, <1>2, AbortType, ErrorNames
<1>3. ASSUME NEW label \in Labels, NEW j \in Job, j.op = job[p].op, j.user = job[p].user,
             pc' = [pc EXCEPT ![p] = label], job' = [job EXCEPT ![p] = j],
             rowLock' = rowLock \/ TakeRowLock(p),
             UNCHANGED <<tasks, logs, accounts, advisory, reply, issued, now>>
      PROVE  /\ TypeOK' /\ pc'[p] = label /\ job'[p] = j
             /\ \A q \in Procs \ {p} : pc'[q] = pc[q] /\ job'[q] = job[q]
  <2>1. rowLock' \in [TaskIds -> Procs \cup {Nil}]
    BY <1>1, <1>3, JobFields DEF TakeRowLock, TypeOK
  <2> QED BY <1>3, <2>1, StepType DEF TypeOK
<1>4. CASE /\ UpdateTask(p)
           /\ ~Abort(p, "not_found") /\ ~Abort(p, "check_violation")
  <2>1. /\ pc[p] = "modify" /\ job[p].op = "update" /\ job[p].row.content.status # Bad
        /\ TakeRowLock(p) /\ Goto(p, "commit")
        /\ UNCHANGED <<tasks, logs, accounts, advisory, job, reply, issued, now>>
    BY <1>4 DEF UpdateTask
  <2>2. job[p] \in Job /\ job[p].row \in Row
    BY <2>1, JobFields DEF JobShape, Row, RowOf, Draft, Content
  <2>3. /\ TypeOK' /\ pc'[p] = "commit" /\ job'[p] = job[p]
        /\ \A q \in Procs \ {p} : pc'[q] = pc[q] /\ job'[q] = job[q]
    BY <1>3, <2>1, <2>2 DEF Goto, Labels, InTx, TypeOK
  <2> QED BY <2>1, <2>2, <2>3 DEF JobShape
<1>5. CASE SelectForUpdate(p) /\ ~Abort(p, "not_found")
  <2>1. /\ pc[p] = "modify" /\ job[p].op = "assign" /\ Live(job[p].id)
        /\ TakeRowLock(p)
        /\ UNCHANGED <<tasks, logs, accounts, advisory, reply, issued, now>>
    BY <1>5 DEF SelectForUpdate
  <2>2. job[p] \in Job /\ job[p].user \in Users \cup {Nil}
        /\ tasks[job[p].id] \in Row
    BY <2>1, JobFields DEF JobShape, Live, TypeOK, Job
  <2>3. CASE tasks[job[p].id].user = job[p].user
    <3>1. /\ TypeOK' /\ pc'[p] = "commit" /\ job'[p] = job[p]
          /\ \A q \in Procs \ {p} : pc'[q] = pc[q] /\ job'[q] = job[q]
      BY <1>3, <1>5, <2>1, <2>2, <2>3 DEF SelectForUpdate, Goto, Labels, InTx, TypeOK
    <3>2. job[p].row \in Row \cup {NoRow}
      BY <2>1, JobFields DEF JobShape
    <3> QED BY <2>1, <2>2, <3>1, <3>2 DEF JobShape
  <2>4. CASE tasks[job[p].id].user # job[p].user
    <3> DEFINE j == [job[p] EXCEPT !.row = tasks[job[p].id]]
               label == IF job[p].user = Nil THEN "persist" ELSE "recheck"
    <3>1. Goto(p, label) /\ job' = [job EXCEPT ![p] = j]
      BY <1>5, <2>1, <2>4 DEF SelectForUpdate
    <3>2. j \in Job /\ j.op = "assign" /\ j.user = job[p].user /\ j.row \in Row
      BY <2>1, <2>2, RowIsDraft DEF Job
    <3> HIDE DEF j
    <3>3. /\ TypeOK' /\ pc'[p] = label /\ job'[p] = j
          /\ \A q \in Procs \ {p} : pc'[q] = pc[q] /\ job'[q] = job[q]
      BY <1>3, <2>1, <3>1, <3>2 DEF Goto, Labels, InTx
    <3> QED BY <2>2, <3>2, <3>3, UsersAssumption, ValuesAssumption DEF JobShape
  <2> QED BY <2>3, <2>4
<1>6. CASE PersistAssignee(p)
  <2> DEFINE row == [job[p].row EXCEPT !.user = job[p].user]
             j   == [job[p] EXCEPT !.row = row, !.at = now]
  <2>1. /\ pc[p] = "persist" /\ job[p].op = "assign" /\ job[p].row \in Row
        /\ job[p].user \in Users \cup {Nil}
    BY <1>6, JobFields DEF PersistAssignee, JobShape, Ops, Job
  <2>2. /\ job' = [job EXCEPT ![p] = j] /\ Goto(p, "commit")
        /\ UNCHANGED <<tasks, logs, accounts, advisory, rowLock, reply, issued, now>>
    BY <1>6 DEF PersistAssignee
  <2>3. row \in Row
    BY <2>1 DEF Row, RowOf
  <2> HIDE DEF row
  <2>4. j \in Job /\ j.op = "assign" /\ j.user = job[p].user /\ j.row = row
    BY <1>1, <2>1, <2>3, RowIsDraft, JobFields DEF Job, TypeOK
  <2> HIDE DEF j
  <2>5. /\ TypeOK' /\ pc'[p] = "commit" /\ job'[p] = j
        /\ \A q \in Procs \ {p} : pc'[q] = pc[q] /\ job'[q] = job[q]
    BY <1>3, <2>1, <2>2, <2>4 DEF Goto, Labels, InTx, TypeOK
  <2> QED BY <2>1, <2>3, <2>4, <2>5, UsersAssumption, ValuesAssumption DEF JobShape
<1>7. CASE RemoveTask(p) /\ ~Abort(p, "not_found")
  <2> DEFINE row == [tasks[job[p].id] EXCEPT !.deleted = TRUE]
             j   == [job[p] EXCEPT !.row = row]
  <2>1. /\ pc[p] = "modify" /\ job[p].op = "delete" /\ Live(job[p].id)
        /\ TakeRowLock(p) /\ Goto(p, "commit")
        /\ job' = [job EXCEPT ![p] = j]
        /\ UNCHANGED <<tasks, logs, accounts, advisory, reply, issued, now>>
    BY <1>7 DEF RemoveTask
  <2>2. row \in Row
    BY <2>1, JobFields DEF Live, TypeOK, Row, RowOf
  <2> HIDE DEF row
  <2>3. j \in Job /\ j.op = "delete" /\ j.user = job[p].user /\ j.row = row
    BY <2>1, <2>2, RowIsDraft, JobFields DEF Job
  <2> HIDE DEF j
  <2>4. /\ TypeOK' /\ pc'[p] = "commit" /\ job'[p] = j
        /\ \A q \in Procs \ {p} : pc'[q] = pc[q] /\ job'[q] = job[q]
    BY <1>3, <2>1, <2>3 DEF Goto, Labels, InTx
  <2> QED BY <2>2, <2>3, <2>4 DEF JobShape
<1> QED BY <1>2, <1>4, <1>5, <1>6, <1>7

LEMMA TypingEnd ==
  ASSUME TypeOK, JobShape, NEW p \in Procs, Commit(p) \/ LoseCommit(p) \/ Fail(p)
  PROVE  TypeOK' /\ JobShape'
<1>1. CASE Fail(p)
  BY <1>1, AbortType, ErrorNames DEF Fail
<1>2. CASE Commit(p) \/ LoseCommit(p)
  <2>1. PICK err \in Errors \cup {"none"}, code \in Replies :
             Publish(p) /\ Answer(p, job[p], err, code)
    <3>1. SuccessCode(job[p]) \in Replies
      BY DEF SuccessCode, Replies, Created, OK
    <3> QED BY <1>2, <3>1, ClassifyType, ErrorNames DEF Commit, LoseCommit
  <2>2. pc[p] = "commit" /\ job[p] \in Job /\ job[p].row \in Row \cup {NoRow}
        /\ job[p].op \in Ops /\ job[p].id \in TaskIds
    BY <2>1, JobFields DEF Publish, JobShape
  <2>3. /\ reply' \in [Procs -> Reply \cup {NoReply}]
        /\ pc' \in [Procs -> Labels]
        /\ job' \in [Procs -> Job \cup {NoJob}]
        /\ \A q \in Procs : pc'[q] # "idle" =>
             q # p /\ pc'[q] = pc[q] /\ job'[q] = job[q]
    BY <2>1, <2>2, AnswerType
  <2>4. tasks' \in [TaskIds -> Row \cup {NoRow}]
    BY <2>1, <2>2 DEF Publish, TypeOK
  <2>5. NewLogs(job[p]) \in Seq(Log)
    <3>1. CASE job[p].op = "assign" /\ job[p].row # NoRow
      <4> DEFINE log == [task |-> job[p].id, user |-> job[p].user,
                         content |-> job[p].row.content, at |-> job[p].at]
      <4>1. log \in Log
        BY <2>2, <3>1 DEF Log, Job, JobShape, Row, RowOf
      <4>2. NewLogs(job[p]) = <<log>>
        BY <3>1 DEF NewLogs
      <4> HIDE DEF log
      <4> QED BY <4>1, <4>2
    <3>2. CASE ~(job[p].op = "assign" /\ job[p].row # NoRow)
      BY <3>2 DEF NewLogs
    <3> QED BY <3>1, <3>2
  <2>6. logs' \in Seq(Log)
    BY <2>1, <2>5 DEF Publish, TypeOK
  <2>7. TypeOK'
    BY <2>1, <2>3, <2>4, <2>6, ReleaseType DEF Publish, TypeOK
  <2>8. JobShape'
    BY <2>3 DEF JobShape
  <2> QED BY <2>7, <2>8
<1> QED BY <1>1, <1>2

LEMMA TypingEnvironment ==
  ASSUME TypeOK, JobShape,
         \/ \E u \in Users : Register(u) \/ DeleteAccount(u)
         \/ Tick \/ Quiesce \/ UNCHANGED vars
  PROVE  TypeOK' /\ JobShape'
<1>1. CASE \E u \in Users : Register(u) \/ DeleteAccount(u)
  <2> PICK u \in Users : Register(u) \/ DeleteAccount(u)
    BY <1>1
  <2>1. accounts' \in [Users -> [state : AccountStates, closed : Nat]]
    <3>1. CASE Register(u)
      <4> DEFINE a == [accounts[u] EXCEPT !.state = "active"]
      <4>1. a \in [state : AccountStates, closed : Nat]
        BY DEF TypeOK, AccountStates
      <4>2. accounts' = [accounts EXCEPT ![u] = a]
        BY <3>1 DEF Register
      <4> HIDE DEF a
      <4> QED BY <4>1, <4>2 DEF TypeOK
    <3>2. CASE DeleteAccount(u)
      <4> DEFINE a == [state |-> "deleted", closed |-> now]
      <4>1. a \in [state : AccountStates, closed : Nat]
        BY DEF TypeOK, AccountStates
      <4>2. accounts' = [accounts EXCEPT ![u] = a]
        BY <3>2 DEF DeleteAccount
      <4> HIDE DEF a
      <4> QED BY <4>1, <4>2 DEF TypeOK
    <3> QED BY <3>1, <3>2
  <2> QED BY <2>1 DEF Register, DeleteAccount, TypeOK, JobShape
<1>2. CASE Tick
  BY <1>2 DEF Tick, TypeOK, JobShape
<1>3. CASE Quiesce \/ UNCHANGED vars
  BY <1>3 DEF Quiesce, vars, TypeOK, JobShape
<1> QED BY <1>1, <1>2, <1>3

LEMMA TypingStep ==
  ASSUME TypeOK, JobShape, TimesPast, [Next]_vars
  PROVE  TypeOK' /\ JobShape'
<1>1. ASSUME NEW p \in Procs, Acts(p)
      PROVE  TypeOK' /\ JobShape'
  <2>1. CASE Receives(p)
    BY <2>1, TypingCalls
  <2>2. CASE Works(p)
    BY <2>2, TypingGetTask, TypingLook, TypingBegin, TypingCreate, TypingRow, TypingEnd
       DEF Works
  <2>3. CASE LoseCommit(p) \/ Fail(p)
    BY <2>3, TypingEnd
  <2> QED BY <1>1, <2>1, <2>2, <2>3 DEF Acts
<1> QED BY <1>1, TypingEnvironment DEF Next
------------------------------------------------------------------------------
(* What a step of one request leaves to the others.                        *)

(* The other requests keep their label, their job and their locks; time,   *)
(* the accounts and the calls made do not go back.                         *)
LEMMA OthersKeep ==
  ASSUME TypeOK, JobShape, NEW p \in Procs, Acts(p)
  PROVE  /\ \A q \in Procs \ {p} : pc'[q] = pc[q] /\ job'[q] = job[q]
         /\ \A q \in Procs \ {p}, l \in LockIds : advisory[l] = q => advisory'[l] = q
         /\ \A q \in Procs \ {p}, id \in TaskIds : rowLock[id] = q => rowLock'[id] = q
         /\ now' = now /\ accounts' = accounts
         /\ issued' \in Nat /\ issued <= issued'
<1>1. issued \in Nat
  BY BoundsAssumption DEF TypeOK
<1>2. CASE Receives(p)
  BY <1>1, <1>2 DEF Receives, RefuseCall, CallCreate, CallUpdate, CallAssign, CallDelete,
     Accept, Receive, Answer, Goto, TypeOK
<1>3. ASSUME NEW err, Abort(p, err)
      PROVE  /\ \A q \in Procs \ {p} : pc'[q] = pc[q] /\ job'[q] = job[q]
             /\ \A q \in Procs \ {p}, l \in LockIds : advisory[l] = q => advisory'[l] = q
             /\ \A q \in Procs \ {p}, id \in TaskIds : rowLock[id] = q => rowLock'[id] = q
             /\ now' = now /\ accounts' = accounts /\ issued' = issued
  BY <1>3 DEF Abort, Answer, Goto, Release, TypeOK
<1>4. CASE GetTask(p) \/ VerifyAssignee(p) \/ Begin(p)
  BY <1>1, <1>3, <1>4 DEF GetTask, VerifyAssignee, Begin, Goto, TypeOK
<1>5. CASE LockKey(p) \/ CheckKey(p) \/ InsertTask(p)
  <2>1. CASE LockKey(p)
    BY <1>1, <2>1, ProcsAssumption DEF LockKey, Goto, TypeOK
  <2>2. CASE CheckKey(p) \/ InsertTask(p)
    BY <1>1, <1>3, <2>2 DEF CheckKey, InsertTask, Goto, TypeOK
  <2> QED BY <1>5, <2>1, <2>2
<1>6. CASE UpdateTask(p) \/ SelectForUpdate(p) \/ RemoveTask(p)
  BY <1>1, <1>3, <1>6, ProcsAssumption
     DEF UpdateTask, SelectForUpdate, RemoveTask, TakeRowLock, Goto, TypeOK
<1>7. CASE RecheckAssignee(p) \/ PersistAssignee(p)
  BY <1>1, <1>3, <1>7 DEF RecheckAssignee, PersistAssignee, Goto, TypeOK
<1>8. CASE Commit(p) \/ LoseCommit(p)
  BY <1>1, <1>8 DEF Commit, LoseCommit, Publish, Answer, Goto, Release, TypeOK
<1>9. CASE Fail(p)
  BY <1>1, <1>3, <1>9 DEF Fail
<1> QED BY <1>2, <1>4, <1>5, <1>6, <1>7, <1>8, <1>9 DEF Acts, Works

(* Only a commit, acknowledged or not, changes the tables.                 *)
LEMMA TablesKept ==
  ASSUME NEW p \in Procs, Acts(p), ~Commit(p), ~LoseCommit(p)
  PROVE  tasks' = tasks /\ logs' = logs
<1>1. CASE Receives(p)
  BY <1>1 DEF Receives, RefuseCall, CallCreate, CallUpdate, CallAssign, CallDelete,
     Accept, Receive
<1>2. CASE Works(p)
  BY <1>2 DEF Works, GetTask, VerifyAssignee, Begin, LockKey, CheckKey, InsertTask,
     UpdateTask, SelectForUpdate, RecheckAssignee, PersistAssignee, RemoveTask, Abort
<1>3. CASE Fail(p)
  BY <1>3 DEF Fail, Abort
<1> QED BY <1>1, <1>2, <1>3 DEF Acts

(* A commit ends its request.  The row it publishes is the first of its id *)
(* or replaces the live row the request has locked, whose key and creation *)
(* time it repeats.                                                        *)
LEMMA CommitEffect ==
  ASSUME IInv, NEW p \in Procs, Commit(p) \/ LoseCommit(p)
  PROVE  /\ Publish(p) /\ pc[p] = "commit" /\ pc'[p] = "idle"
         /\ job[p].id \in TaskIds
         /\ \A id \in TaskIds : tasks'[id] = tasks[id] \/ id = job[p].id
         /\ job[p].row = NoRow => tasks' = tasks
         /\ job[p].row # NoRow =>
              /\ tasks'[job[p].id] = job[p].row /\ job[p].row \in Row
              /\ \/ job[p].op = "create" /\ tasks[job[p].id] = NoRow
                 \/ /\ job[p].op # "create"
                    /\ Live(job[p].id) /\ rowLock[job[p].id] = p
                    /\ job[p].row.key = tasks[job[p].id].key
                    /\ job[p].row.created = tasks[job[p].id].created
<1>1. Publish(p) /\ pc[p] = "commit" /\ pc'[p] = "idle"
  BY DEF Commit, LoseCommit, Publish, Answer, Goto, IInv, TypeOK
<1>2. job[p].id \in TaskIds /\ job[p].row \in Row \cup {NoRow}
  BY <1>1, JobFields DEF IInv, JobShape
<1>3. tasks' = IF job[p].row = NoRow THEN tasks ELSE [tasks EXCEPT ![job[p].id] = job[p].row]
  BY <1>1 DEF Publish
<1>4. CASE job[p].row # NoRow /\ job[p].op = "create"
  BY <1>1, <1>2, <1>3, <1>4 DEF IInv, TypeOK, IdsFresh, Creating
<1>5. CASE job[p].row # NoRow /\ job[p].op # "create"
  BY <1>1, <1>2, <1>3, <1>5 DEF IInv, TypeOK, RowsHeld, Rewrites, HoldsRow
<1> QED BY <1>1, <1>2, <1>3, <1>4, <1>5

(* A commit of an assignment adds its log; no other commit adds any.       *)
LEMMA LogEffect ==
  ASSUME IInv, NEW p \in Procs, Commit(p) \/ LoseCommit(p)
  PROVE  /\ ~(job[p].op = "assign" /\ job[p].row # NoRow) => logs' = logs
         /\ job[p].op = "assign" /\ job[p].row # NoRow =>
              logs' = Append(logs, [task |-> job[p].id, user |-> job[p].user,
                                    content |-> job[p].row.content, at |-> job[p].at])
<1>1. logs' = logs \o NewLogs(job[p]) /\ logs \in Seq(Log)
  BY CommitEffect DEF Publish, IInv, TypeOK
<1>2. CASE ~(job[p].op = "assign" /\ job[p].row # NoRow)
  BY <1>1, <1>2 DEF NewLogs
<1>3. CASE job[p].op = "assign" /\ job[p].row # NoRow
  <2> DEFINE log == [task |-> job[p].id, user |-> job[p].user,
                     content |-> job[p].row.content, at |-> job[p].at]
  <2>1. logs' = logs \o <<log>>
    BY <1>1, <1>3 DEF NewLogs
  <2> HIDE DEF log
  <2>2. logs' = Append(logs, log)
    BY <1>1, <2>1
  <2> QED BY <1>3, <2>2 DEF log
<1> QED BY <1>2, <1>3

(* Registrations, deleted accounts and the clock touch no request, no row  *)
(* and no lock.                                                            *)
LEMMA EnvironmentKeeps ==
  ASSUME TypeOK, [Next]_vars, ~ \E p \in Procs : Acts(p)
  PROVE  /\ UNCHANGED <<tasks, logs, advisory, rowLock, pc, job, issued>>
         /\ now \in Nat /\ now' \in Nat /\ now <= now'
         /\ \/ accounts' = accounts
            \/ \E u \in Users : Register(u) \/ DeleteAccount(u)
<1>1. CASE \E u \in Users : Register(u) \/ DeleteAccount(u)
  BY <1>1 DEF Register, DeleteAccount, TypeOK
<1>2. CASE Tick \/ Quiesce \/ UNCHANGED vars
  BY <1>2 DEF Tick, Quiesce, vars, TypeOK
<1> QED BY <1>1, <1>2 DEF Next
------------------------------------------------------------------------------
(* The parts of the inductive invariant, one lemma each.                   *)

(* What a step does to its own request, unless it ends it.                 *)
SameCall(p) == /\ job'[p].op = job[p].op /\ job'[p].id = job[p].id
               /\ job'[p].key = job[p].key /\ job'[p].user = job[p].user
SameTimes(p) == job'[p].began = job[p].began /\ job'[p].at = job[p].at

Accepts(p) ==
  /\ pc[p] = "idle" /\ pc'[p] \in {"read", "verify", "begin"}
  /\ job'[p].began = 0 /\ job'[p].at = 0
  /\ job'[p].op = "create" => job'[p].id = issued + 1 /\ issued' = issued + 1
  /\ job'[p].op # "create" => job'[p].row = NoRow
  /\ job'[p].row # NoRow => job'[p].row.user = Nil /\ ~job'[p].row.deleted
Reads(p) ==
  /\ pc[p] = "read" /\ pc'[p] = "begin" /\ SameCall(p) /\ SameTimes(p)
  /\ job[p].op = "update" /\ tasks[job[p].id] # NoRow
  /\ job'[p].row.key = tasks[job[p].id].key
  /\ job'[p].row.created = tasks[job[p].id].created
  /\ job'[p].row.user = tasks[job[p].id].user /\ ~job'[p].row.deleted
Verifies(p) == pc[p] = "verify" /\ pc'[p] = "begin" /\ job'[p] = job[p]
Begins(p) ==
  /\ pc[p] = "begin" /\ pc'[p] \in {"lock", "modify"} /\ SameCall(p)
  /\ job'[p].row = job[p].row /\ job'[p].began = now /\ job'[p].at = job[p].at
Locks(p) ==
  /\ pc[p] = "lock" /\ pc'[p] = "check" /\ job'[p] = job[p]
  /\ advisory'[HashText[job[p].key]] = p
Misses(p) ==
  /\ pc[p] = "check" /\ pc'[p] = "insert" /\ job'[p] = job[p] /\ advisory' = advisory
  /\ Matches(job[p].key, job[p].began + Skew - Window) = {}
Replays(p) ==
  /\ pc[p] = "check" /\ pc'[p] = "commit" /\ job'[p].row = NoRow /\ SameTimes(p)
  /\ job[p].op = "create" /\ job'[p].op = "create" /\ job'[p].key = job[p].key
  /\ advisory' = advisory
Inserts(p) ==
  /\ pc[p] = "insert" /\ pc'[p] = "commit" /\ SameCall(p) /\ SameTimes(p)
  /\ job[p].op = "create" /\ job'[p].row.key = job[p].row.key
  /\ job'[p].row.created = now /\ job'[p].row # NoRow /\ advisory' = advisory
  /\ job'[p].row.user = job[p].row.user /\ job'[p].row.deleted = job[p].row.deleted
Updates(p) ==
  /\ pc[p] = "modify" /\ pc'[p] = "commit" /\ job'[p] = job[p]
  /\ job[p].op = "update" /\ Live(job[p].id) /\ rowLock'[job[p].id] = p
Agrees(p) ==
  /\ pc[p] = "modify" /\ pc'[p] = "commit" /\ job'[p] = job[p]
  /\ job[p].op = "assign" /\ job[p].row = NoRow
Selects(p) ==
  /\ pc[p] = "modify" /\ pc'[p] \in {"recheck", "persist"} /\ SameCall(p) /\ SameTimes(p)
  /\ job[p].op = "assign" /\ Live(job[p].id) /\ rowLock'[job[p].id] = p
  /\ job'[p].row = tasks[job[p].id] /\ tasks[job[p].id].user # job[p].user
  /\ pc'[p] = "persist" => job[p].user = Nil
Rechecks(p) ==
  /\ pc[p] = "recheck" /\ pc'[p] = "persist" /\ job'[p] = job[p]
  /\ UserLookup(job[p].user) /\ rowLock' = rowLock
Persists(p) ==
  /\ pc[p] = "persist" /\ pc'[p] = "commit" /\ SameCall(p)
  /\ job[p].op = "assign" /\ rowLock' = rowLock
  /\ job'[p].row = [job[p].row EXCEPT !.user = job[p].user]
  /\ job'[p].began = job[p].began /\ job'[p].at = now
Removes(p) ==
  /\ pc[p] = "modify" /\ pc'[p] = "commit" /\ SameCall(p) /\ SameTimes(p)
  /\ job[p].op = "delete" /\ Live(job[p].id) /\ rowLock'[job[p].id] = p
  /\ job'[p].row = [tasks[job[p].id] EXCEPT !.deleted = TRUE]

Progress(p) ==
  \/ Accepts(p) \/ Reads(p) \/ Verifies(p) \/ Begins(p)
  \/ Locks(p) \/ Misses(p) \/ Replays(p) \/ Inserts(p)
  \/ Updates(p) \/ Agrees(p) \/ Selects(p) \/ Rechecks(p) \/ Persists(p) \/ Removes(p)

LEMMA ProgressCalls ==
  ASSUME TypeOK, NEW p \in Procs, Receives(p), pc'[p] # "idle"
  PROVE  Accepts(p)
<1> PICK c \in Calls : \/ RefuseCall(p, c) \/ CallCreate(p, c) \/ CallUpdate(p, c)
                       \/ CallAssign(p, c) \/ CallDelete(p, c)
  BY DEF Receives
<1>1. ~RefuseCall(p, c)
  BY DEF RefuseCall, Answer, Goto, TypeOK
<1>2. PICK label \in {"read", "verify", "begin"}, id \in {c.id, issued + 1}, row \in {NewTask(c), NoRow} :
         /\ Accept(p, c, label, id, row)
         /\ c.op = "create" => id = issued + 1
         /\ c.op # "create" => row = NoRow
  BY <1>1 DEF CallCreate, CallUpdate, CallAssign, CallDelete
<1> DEFINE j == [op |-> c.op, id |-> id, key |-> c.key, patch |-> c.patch,
                 user |-> c.user, row |-> row, began |-> 0, at |-> 0]
<1>3. j.op = c.op /\ j.id = id /\ j.row = row /\ j.began = 0 /\ j.at = 0
  OBVIOUS
<1>4. job' = [job EXCEPT ![p] = j]
  BY <1>2 DEF Accept
<1> HIDE DEF j
<1>5. job'[p] = j /\ pc[p] = "idle" /\ pc'[p] = label /\ issued' = issued + 1
  BY <1>2, <1>4 DEF Accept, Receive, Goto, TypeOK
<1>6. NewTask(c).user = Nil /\ ~NewTask(c).deleted
  BY DEF NewTask
<1> QED BY <1>2, <1>3, <1>5, <1>6 DEF Accepts

LEMMA OwnStep ==
  ASSUME TypeOK, JobShape, NEW p \in Procs, Acts(p), pc'[p] # "idle"
  PROVE  Progress(p)
<1>1. \A err : ~Abort(p, err)
  BY DEF Abort, Answer, Goto, TypeOK
<1>2. ~Commit(p) /\ ~LoseCommit(p) /\ ~Fail(p)
  BY <1>1 DEF Commit, LoseCommit, Fail, Answer, Goto, TypeOK
<1>3. CASE Receives(p)
  BY <1>3, ProgressCalls DEF Progress
<1>4. pc \in [Procs -> Labels] /\ job \in [Procs -> Job \cup {NoJob}]
      /\ rowLock \in [TaskIds -> Procs \cup {Nil}]
      /\ advisory \in [LockIds -> Procs \cup {Nil}]
      /\ (pc[p] # "idle" => job[p] \in Job /\ job[p].id \in TaskIds)
  BY JobFields DEF TypeOK
<1>5. ASSUME NEW j, job' = [job EXCEPT ![p] = j] PROVE job'[p] = j
  BY <1>4, <1>5
<1>6. CASE GetTask(p)
  <2> DEFINE row == [tasks[job[p].id] EXCEPT
                       !.content = Merge(tasks[job[p].id].content, job[p].patch)]
             j   == [job[p] EXCEPT !.row = row]
  <2>1. /\ pc[p] = "read" /\ Live(job[p].id) /\ Goto(p, "begin")
        /\ job' = [job EXCEPT ![p] = j]
    BY <1>1, <1>6 DEF GetTask
  <2>2. tasks[job[p].id] \in Row
    BY <1>4, <2>1 DEF Live, TypeOK
  <2>3. /\ row.key = tasks[job[p].id].key /\ row.created = tasks[job[p].id].created
        /\ row.user = tasks[job[p].id].user /\ ~row.deleted
    BY <2>1, <2>2 DEF Row, RowOf, Live
  <2> HIDE DEF row
  <2>4. /\ j.op = job[p].op /\ j.id = job[p].id /\ j.key = job[p].key /\ j.row = row
        /\ j.user = job[p].user /\ j.began = job[p].began /\ j.at = job[p].at
    BY <1>4, <2>1 DEF Job
  <2> HIDE DEF j
  <2>5. job[p].op = "update"
    BY <1>4, <2>1 DEF JobShape, Job, Ops
  <2> QED BY <1>4, <1>5, <2>1, <2>3, <2>4, <2>5
          DEF Goto, Live, Progress, Reads, SameCall, SameTimes
<1>7. CASE VerifyAssignee(p)
  BY <1>1, <1>4, <1>7 DEF VerifyAssignee, Goto, Progress, Verifies
<1>8. CASE Begin(p)
  <2> DEFINE j == [job[p] EXCEPT !.began = now]
  <2>1. pc[p] = "begin" /\ job' = [job EXCEPT ![p] = j]
        /\ (Goto(p, "lock") \/ Goto(p, "modify"))
    BY <1>8 DEF Begin
  <2>2. /\ j.op = job[p].op /\ j.id = job[p].id /\ j.key = job[p].key /\ j.row = job[p].row
        /\ j.user = job[p].user /\ j.began = now /\ j.at = job[p].at
    BY <1>4, <2>1 DEF Job
  <2> HIDE DEF j
  <2> QED BY <1>4, <1>5, <2>1, <2>2 DEF Goto, Progress, Begins, SameCall
<1>9. CASE LockKey(p)
  <2>1. HashText[job[p].key] \in LockIds
    BY <1>4, <1>9, HashTextAssumption DEF LockKey, JobShape, Job, Ops
  <2> QED BY <1>4, <1>9, <2>1 DEF LockKey, Goto, Progress, Locks
<1>10. CASE CheckKey(p)
  <2> DEFINE found == Matches(job[p].key, job[p].began + Skew - Window)
             j == [job[p] EXCEPT !.id = Newest(found), !.row = NoRow]
  <2>1. CASE found = {}
    BY <1>4, <1>10, <2>1 DEF CheckKey, Goto, Progress, Misses
  <2>2. CASE found # {}
    <3>1. pc[p] = "check" /\ Goto(p, "commit") /\ job' = [job EXCEPT ![p] = j]
          /\ advisory' = advisory
      BY <1>10, <2>2 DEF CheckKey
    <3>2. /\ j.op = job[p].op /\ j.key = job[p].key /\ j.row = NoRow
          /\ j.began = job[p].began /\ j.at = job[p].at
      BY <1>4, <3>1 DEF Job
    <3> HIDE DEF j
    <3>3. job[p].op = "create"
      BY <1>4, <3>1 DEF JobShape, Job, Ops
    <3> QED BY <1>4, <1>5, <3>1, <3>2, <3>3 DEF Goto, Progress, Replays, SameTimes
  <2> QED BY <2>1, <2>2
<1>11. CASE InsertTask(p)
  <2> DEFINE row == [job[p].row EXCEPT !.created = now]
             j   == [job[p] EXCEPT !.row = row]
  <2>1. pc[p] = "insert" /\ Goto(p, "commit") /\ job' = [job EXCEPT ![p] = j]
        /\ advisory' = advisory
    BY <1>1, <1>11 DEF InsertTask
  <2>2. job[p].op = "create" /\ job[p].row \in RowOf(Draft)
    BY <1>4, <2>1, JobFields DEF JobShape, Ops
  <2>3. /\ row.key = job[p].row.key /\ row.created = now /\ row \in RowOf(Draft)
        /\ row.user = job[p].row.user /\ row.deleted = job[p].row.deleted
    BY <2>2 DEF RowOf, TypeOK
  <2> HIDE DEF row
  <2>4. /\ j.op = job[p].op /\ j.id = job[p].id /\ j.key = job[p].key /\ j.row = row
        /\ j.user = job[p].user /\ j.began = job[p].began /\ j.at = job[p].at
    BY <1>4, <2>1 DEF Job
  <2> HIDE DEF j
  <2> QED BY <1>4, <1>5, <2>1, <2>2, <2>3, <2>4, NullsAssumption
          DEF Goto, Progress, Inserts, SameCall, SameTimes
<1>12. CASE UpdateTask(p)
  BY <1>1, <1>4, <1>12 DEF UpdateTask, TakeRowLock, Goto, Progress, Updates
<1>13. CASE SelectForUpdate(p)
  <2>1. pc[p] = "modify" /\ job[p].op = "assign" /\ Live(job[p].id) /\ rowLock'[job[p].id] = p
    BY <1>1, <1>4, <1>13 DEF SelectForUpdate, TakeRowLock
  <2>2. CASE tasks[job[p].id].user = job[p].user
    BY <1>4, <1>13, <2>1, <2>2 DEF SelectForUpdate, Goto, JobShape, Progress, Agrees
  <2>3. CASE tasks[job[p].id].user # job[p].user
    <3> DEFINE j == [job[p] EXCEPT !.row = tasks[job[p].id]]
               label == IF job[p].user = Nil THEN "persist" ELSE "recheck"
    <3>1. Goto(p, label) /\ job' = [job EXCEPT ![p] = j]
      BY <1>13, <2>1, <2>3 DEF SelectForUpdate
    <3>2. /\ j.op = job[p].op /\ j.id = job[p].id /\ j.key = job[p].key
          /\ j.row = tasks[job[p].id]
          /\ j.user = job[p].user /\ j.began = job[p].began /\ j.at = job[p].at
      BY <1>4, <2>1 DEF Job
    <3> HIDE DEF j
    <3> QED BY <1>4, <1>5, <2>1, <2>3, <3>1, <3>2
            DEF Goto, Progress, Selects, SameCall, SameTimes
  <2> QED BY <2>2, <2>3
<1>14. CASE RecheckAssignee(p)
  BY <1>1, <1>4, <1>14 DEF RecheckAssignee, Goto, Progress, Rechecks
<1>15. CASE PersistAssignee(p)
  <2> DEFINE row == [job[p].row EXCEPT !.user = job[p].user]
             j   == [job[p] EXCEPT !.row = row, !.at = now]
  <2>1. pc[p] = "persist" /\ Goto(p, "commit") /\ job' = [job EXCEPT ![p] = j]
        /\ rowLock' = rowLock
    BY <1>15 DEF PersistAssignee
  <2> HIDE DEF row
  <2>2. /\ j.op = job[p].op /\ j.id = job[p].id /\ j.key = job[p].key /\ j.row = row
        /\ j.user = job[p].user /\ j.began = job[p].began /\ j.at = now
    BY <1>4, <2>1 DEF Job
  <2> HIDE DEF j
  <2>3. job[p].op = "assign"
    BY <1>4, <2>1 DEF JobShape, Job, Ops
  <2> QED BY <1>4, <1>5, <2>1, <2>2, <2>3 DEF row, Goto, Progress, Persists, SameCall
<1>16. CASE RemoveTask(p)
  <2> DEFINE row == [tasks[job[p].id] EXCEPT !.deleted = TRUE]
             j   == [job[p] EXCEPT !.row = row]
  <2>1. /\ pc[p] = "modify" /\ job[p].op = "delete" /\ Live(job[p].id)
        /\ rowLock'[job[p].id] = p /\ Goto(p, "commit") /\ job' = [job EXCEPT ![p] = j]
    BY <1>1, <1>4, <1>16 DEF RemoveTask, TakeRowLock
  <2> HIDE DEF row
  <2>2. /\ j.op = job[p].op /\ j.id = job[p].id /\ j.key = job[p].key /\ j.row = row
        /\ j.user = job[p].user /\ j.began = job[p].began /\ j.at = job[p].at
    BY <1>4, <2>1 DEF Job
  <2> HIDE DEF j
  <2> QED BY <1>4, <1>5, <2>1, <2>2 DEF row, Goto, Progress, Removes, SameCall, SameTimes
<1> QED BY <1>2, <1>3, <1>6, <1>7, <1>8, <1>9, <1>10, <1>11, <1>12, <1>13, <1>14, <1>15,
        <1>16 DEF Acts, Works

(* A request's own step gives it time stamps that are not of the future.   *)
LEMMA OwnTimes ==
  ASSUME IInv, NEW p \in Procs, Acts(p), pc'[p] # "idle"
  PROVE  job'[p].began <= now /\ job'[p].at <= now
<1>1. now \in Nat
  BY DEF IInv, TypeOK
<1>2. Progress(p)
  BY OwnStep DEF IInv
<1>3. pc[p] # "idle" => job[p].began <= now /\ job[p].at <= now
  BY DEF IInv, TimesPast
<1>4. CASE Accepts(p)
  BY <1>1, <1>4 DEF Accepts
<1>5. CASE ~Accepts(p)
  BY <1>1, <1>2, <1>3, <1>5 DEF Progress, Reads, Verifies, Begins, Locks, Misses, Replays,
     Inserts, Updates, Agrees, Selects, Rechecks, Persists, Removes, SameTimes
<1> QED BY <1>4, <1>5

LEMMA TimesPastStep ==
  ASSUME IInv, [Next]_vars PROVE TimesPast'
<1>1. CASE ~ \E p \in Procs : Acts(p)
  <2>1. TypeOK
    BY DEF IInv
  <2>2. /\ UNCHANGED <<tasks, logs, pc, job>> /\ now \in Nat /\ now' \in Nat /\ now <= now'
    BY <1>1, <2>1, EnvironmentKeeps
  <2>3. \A id \in TaskIds : tasks[id] # NoRow => tasks[id].created \in Nat
    BY <2>1 DEF TypeOK, Row, RowOf
  <2>4. \A i \in 1..Len(logs) : logs[i].at \in Nat
    <3>1. logs \in Seq(Log)
      BY <2>1 DEF TypeOK
    <3>2. \A i \in 1..Len(logs) : logs[i] \in Log
      BY <3>1
    <3> QED BY <3>2 DEF Log
  <2> QED BY <2>1, <2>2, <2>3, <2>4, JobFields DEF IInv, TimesPast
<1>2. ASSUME NEW p \in Procs, Acts(p) PROVE TimesPast'
  <2>1. TypeOK /\ JobShape /\ TimesPast
    BY DEF IInv
  <2>2. now' = now /\ \A q \in Procs \ {p} : pc'[q] = pc[q] /\ job'[q] = job[q]
    BY <1>2, <2>1, OthersKeep
  <2>3. \A q \in Procs : pc'[q] # "idle" => job'[q].began <= now /\ job'[q].at <= now
    BY <1>2, <2>1, <2>2, OwnTimes DEF TimesPast
  <2>4. CASE ~Commit(p) /\ ~LoseCommit(p)
    BY <1>2, <2>1, <2>2, <2>3, <2>4, TablesKept DEF TimesPast
  <2>5. CASE Commit(p) \/ LoseCommit(p)
    <3>1. \A id \in TaskIds : tasks'[id] # NoRow => tasks'[id].created <= now
      BY <2>1, <2>5, CommitEffect DEF IInv, TimesPast, GapSeen, Missed, Live
    <3>2. \A i \in 1..Len(logs') : logs'[i].at <= now
      <4>1. CASE job[p].op = "assign" /\ job[p].row # NoRow
        <5> DEFINE log == [task |-> job[p].id, user |-> job[p].user,
                           content |-> job[p].row.content, at |-> job[p].at]
        <5>1. log.at <= now
          BY <2>1, <2>5, CommitEffect DEF TimesPast
        <5>2. logs' = Append(logs, log) /\ logs \in Seq(Log)
          BY <2>1, <2>5, <4>1, LogEffect DEF TypeOK
        <5> HIDE DEF log
        <5> QED BY <2>1, <5>1, <5>2 DEF TimesPast
      <4>2. CASE ~(job[p].op = "assign" /\ job[p].row # NoRow)
        BY <2>1, <2>5, <4>2, LogEffect DEF TimesPast
      <4> QED BY <4>1, <4>2
    <3> QED BY <2>2, <2>3, <3>1, <3>2 DEF TimesPast
  <2> QED BY <2>4, <2>5
<1> QED BY <1>1, <1>2

LEMMA IdsFreshStep ==
  ASSUME IInv, [Next]_vars PROVE IdsFresh'
<1>0. TypeOK /\ JobShape /\ IdsFresh
  BY DEF IInv
<1>1. CASE ~ \E p \in Procs : Acts(p)
  BY <1>0, <1>1, EnvironmentKeeps DEF IdsFresh, Creating
<1>2. ASSUME NEW p \in Procs, Acts(p) PROVE IdsFresh'
  <2>1. /\ issued \in Nat /\ issued' \in Nat /\ issued <= issued'
        /\ \A q \in Procs \ {p} : pc'[q] = pc[q] /\ job'[q] = job[q]
    BY <1>0, <1>2, BoundsAssumption, OthersKeep DEF TypeOK
  <2>2. \A q \in Procs : pc[q] # "idle" => job[q].id \in TaskIds
    BY <1>0, JobFields
  <2>3. TaskIds \subseteq Nat
    BY BoundsAssumption DEF TaskIds
  <2>6. \A q \in Procs : Creating(q) => job[q].id \in Nat /\ job[q].id \in TaskIds
    BY <2>2, <2>3 DEF Creating
  <2>4. CASE Commit(p) \/ LoseCommit(p)
    <3>1. pc[p] = "commit" /\ pc'[p] = "idle" /\ job[p].id \in TaskIds
          /\ (job[p].row = NoRow => tasks' = tasks)
          /\ (job[p].row # NoRow => Creating(p) \/ tasks[job[p].id] # NoRow)
          /\ \A id \in TaskIds : tasks'[id] = tasks[id] \/ id = job[p].id
      BY <2>4, CommitEffect DEF Creating, Live
    <3>2. \A id \in TaskIds : tasks'[id] # NoRow => id <= issued
      BY <1>0, <3>1 DEF IdsFresh
    <3>3. \A q \in Procs : Creating(q)' => Creating(q) /\ job'[q].id = job[q].id /\ q # p
      BY <2>1, <3>1 DEF Creating
    <3>4. \A q \in Procs : Creating(q)' => tasks'[job[q].id] = NoRow
      BY <1>0, <2>2, <3>1, <3>3 DEF IdsFresh, Creating
    <3>5. \A q \in Procs : Creating(q)' => job'[q].id <= issued'
      BY <1>0, <2>1, <2>6, <3>3 DEF IdsFresh
    <3>6. \A q, r \in Procs : q # r /\ Creating(q)' /\ Creating(r)' => job'[q].id # job'[r].id
      BY <1>0, <3>3 DEF IdsFresh
    <3>7. \A id \in TaskIds : tasks'[id] # NoRow => id <= issued'
      BY <2>1, <2>3, <3>2
    <3>8. \A q \in Procs : Creating(q)' => tasks'[job'[q].id] = NoRow
      BY <3>3, <3>4
    <3> QED BY <3>5, <3>6, <3>7, <3>8 DEF IdsFresh
  <2>5. CASE ~Commit(p) /\ ~LoseCommit(p)
    <3>1. tasks' = tasks
      BY <1>2, <2>5, TablesKept
    <3>2. Creating(p)' => \/ Accepts(p)
                          \/ Creating(p) /\ job'[p].id = job[p].id
      <4>1. pc'[p] # "idle" => Progress(p)
        BY <1>0, <1>2, OwnStep
      <4> QED BY <1>0, <4>1 DEF Creating, JobShape, Progress, Reads, Verifies, Begins,
              Locks, Misses, Replays, Inserts, Updates, Agrees, Selects, Rechecks,
              Persists, Removes, SameCall
    <3>3. \A q \in Procs \ {p} : Creating(q)' => Creating(q) /\ job'[q].id = job[q].id
      BY <2>1 DEF Creating
    <3>4. \A q \in Procs : Creating(q)' => job'[q].id <= issued'
      <4>1. Accepts(p) /\ Creating(p)' => job'[p].id <= issued'
        BY <2>1 DEF Accepts, Creating
      <4> QED BY <1>0, <2>1, <2>6, <3>2, <3>3, <4>1 DEF IdsFresh
    <3>5. ASSUME NEW id \in TaskIds, tasks'[id] # NoRow PROVE id <= issued'
      <4>1. id \in Nat /\ id <= issued
        BY <1>0, <2>3, <3>1, <3>5 DEF IdsFresh
      <4> QED BY <2>1, <4>1
    <3>6. Accepts(p) /\ Creating(p)' =>
            job'[p].id = issued + 1 /\ tasks'[job'[p].id] = NoRow
      <4>1. TypeOK'
        BY <1>2, TypingStep DEF IInv, Next
      <4>2. SUFFICES ASSUME Accepts(p), Creating(p)'
                     PROVE  job'[p].id = issued + 1 /\ tasks'[job'[p].id] = NoRow
        OBVIOUS
      <4>3. job'[p].id = issued + 1 /\ issued' = issued + 1
        BY <4>2 DEF Accepts, Creating
      <4>4. issued + 1 \in TaskIds
        BY <2>1, <4>1, <4>3, BoundsAssumption DEF TypeOK, TaskIds
      <4>5. tasks[issued + 1] = NoRow
        BY <1>0, <2>1, <4>4 DEF IdsFresh
      <4> QED BY <3>1, <4>3, <4>5
    <3>7. \A q \in Procs : Creating(q)' => tasks'[job'[q].id] = NoRow
      BY <1>0, <3>1, <3>2, <3>3, <3>6 DEF IdsFresh
    <3>8. ASSUME NEW q \in Procs, NEW r \in Procs, q # r, Creating(q)', Creating(r)'
          PROVE  job'[q].id # job'[r].id
      <4>1. \A t \in Procs : Creating(t) => job[t].id <= issued /\ job[t].id # issued + 1
        BY <1>0, <2>1, <2>6 DEF IdsFresh
      <4>2. \A t \in {q, r} : \/ t = p /\ job'[t].id = issued + 1
                              \/ Creating(t) /\ job'[t].id = job[t].id
        BY <3>2, <3>3, <3>6, <3>8
      <4> QED BY <1>0, <3>8, <4>1, <4>2 DEF IdsFresh
    <3> QED BY <3>4, <3>5, <3>7, <3>8 DEF IdsFresh
  <2> QED BY <2>4, <2>5
<1> QED BY <1>1, <1>2

LEMMA KeyLockedStep ==
  ASSUME IInv, [Next]_vars PROVE KeyLocked'
<1>0. TypeOK /\ JobShape /\ KeyLocked
  BY DEF IInv
<1>1. CASE ~ \E p \in Procs : Acts(p)
  BY <1>0, <1>1, EnvironmentKeeps DEF KeyLocked
<1>2. ASSUME NEW p \in Procs, Acts(p) PROVE KeyLocked'
  <2>1. \A q \in Procs : pc[q] \in {"check", "insert", "commit"} /\ job[q].op = "create"
          => HashText[job[q].key] \in LockIds
    BY <1>0, HashTextAssumption DEF JobShape
  <2>2. /\ \A q \in Procs \ {p} : pc'[q] = pc[q] /\ job'[q] = job[q]
        /\ \A q \in Procs \ {p}, l \in LockIds : advisory[l] = q => advisory'[l] = q
    BY <1>0, <1>2, OthersKeep
  <2>3. pc'[p] # "idle" => Progress(p)
    BY <1>0, <1>2, OwnStep
  <2>4. pc'[p] \in {"check", "insert", "commit"} /\ job'[p].op = "create"
          => advisory'[HashText[job'[p].key]] = p
    BY <1>0, <2>3 DEF KeyLocked, JobShape, Progress, Accepts, Reads, Verifies, Begins, Locks,
       Misses, Replays, Inserts, Updates, Agrees, Selects, Rechecks, Persists, Removes, SameCall
  <2> QED BY <1>0, <2>1, <2>2, <2>4 DEF KeyLocked
<1> QED BY <1>1, <1>2

(* The lock of a row protects what its holder saw: nobody else's commit    *)
(* touches a row that is locked.                                           *)
LEMMA LockedRowKept ==
  ASSUME IInv, NEW p \in Procs, Acts(p), NEW q \in Procs \ {p},
         NEW id \in TaskIds, rowLock[id] = q, tasks[id] # NoRow
  PROVE  tasks'[id] = tasks[id] /\ rowLock'[id] = q
<1>1. rowLock'[id] = q
  BY OthersKeep DEF IInv
<1>2. CASE Commit(p) \/ LoseCommit(p)
  BY <1>1, <1>2, CommitEffect
<1>3. CASE ~Commit(p) /\ ~LoseCommit(p)
  BY <1>1, <1>3, TablesKept
<1> QED BY <1>2, <1>3

(* No commit takes a row away or changes its key or creation time.         *)
LEMMA IdentityKept ==
  ASSUME IInv, NEW p \in Procs, Acts(p), NEW id \in TaskIds, tasks[id] # NoRow
  PROVE  /\ tasks'[id] # NoRow
         /\ tasks'[id].key = tasks[id].key /\ tasks'[id].created = tasks[id].created
<1>1. CASE Commit(p) \/ LoseCommit(p)
  BY <1>1, CommitEffect
<1>2. CASE ~Commit(p) /\ ~LoseCommit(p)
  BY <1>2, TablesKept
<1> QED BY <1>1, <1>2

LEMMA RowsHeldStep ==
  ASSUME IInv, [Next]_vars PROVE RowsHeld'
<1>0. TypeOK /\ JobShape /\ RowsHeld
  BY DEF IInv
<1>1. CASE ~ \E p \in Procs : Acts(p)
  BY <1>0, <1>1, EnvironmentKeeps DEF RowsHeld, Rewrites, HoldsRow, Live
<1>2. ASSUME NEW p \in Procs, Acts(p) PROVE RowsHeld'
  <2>1. \A q \in Procs : pc[q] # "idle" => job[q].id \in TaskIds
    BY <1>0, JobFields
  <2>2. ASSUME NEW q \in Procs \ {p}
        PROVE  /\ Rewrites(q)' => /\ tasks'[job'[q].id] # NoRow
                                  /\ job'[q].row.key = tasks'[job'[q].id].key
                                  /\ job'[q].row.created = tasks'[job'[q].id].created
               /\ HoldsRow(q)' => /\ tasks'[job'[q].id] # NoRow
                                  /\ ~tasks'[job'[q].id].deleted
                                  /\ rowLock'[job'[q].id] = q
    <3>1. pc'[q] = pc[q] /\ job'[q] = job[q]
      BY <1>0, <1>2, OthersKeep
    <3>2. CASE Rewrites(q)
      <4>1. tasks'[job[q].id] # NoRow /\ tasks'[job[q].id].key = tasks[job[q].id].key
            /\ tasks'[job[q].id].created = tasks[job[q].id].created
        BY <1>0, <1>2, <2>1, <3>2, IdentityKept DEF RowsHeld, Rewrites
      <4>2. HoldsRow(q) => Live(job[q].id) /\ rowLock[job[q].id] = q /\ tasks[job[q].id] # NoRow
        BY <1>0, <3>2 DEF RowsHeld, Live
      <4>3. HoldsRow(q) => tasks'[job[q].id] = tasks[job[q].id] /\ rowLock'[job[q].id] = q
        BY <1>2, <2>1, <3>2, <4>2, LockedRowKept DEF Rewrites
      <4> QED BY <1>0, <3>1, <3>2, <4>1, <4>2, <4>3 DEF RowsHeld, Rewrites, HoldsRow, Live
    <3>3. CASE ~Rewrites(q)
      <4>1. ~HoldsRow(q)
        BY <1>0, <3>3, JobFields, NullsAssumption
           DEF HoldsRow, Rewrites, JobShape, Ops, Row, RowOf, Content, Draft
      <4> QED BY <3>1, <3>3, <4>1 DEF Rewrites, HoldsRow
    <3> QED BY <3>2, <3>3
  <2>3. CASE pc'[p] = "idle"
    <3>1. ~Rewrites(p)' /\ ~HoldsRow(p)'
      BY <2>3 DEF Rewrites, HoldsRow
    <3> QED BY <2>2, <3>1 DEF RowsHeld, Live
  <2>4. CASE pc'[p] # "idle"
    <3>1. Progress(p)
      BY <1>0, <1>2, <2>4, OwnStep
    <3>2. tasks' = tasks
      BY <1>2, <2>4, CommitEffect, TablesKept
    <3>3. TypeOK' /\ JobShape'
      BY <1>2, TypingStep DEF IInv, Next
    <3>4. Rewrites(p)' => /\ tasks'[job'[p].id] # NoRow
                          /\ job'[p].row.key = tasks'[job'[p].id].key
                          /\ job'[p].row.created = tasks'[job'[p].id].created
      <4>1. CASE Persists(p) \/ Removes(p)
        <5>1. tasks[job[p].id] \in Row
          BY <1>0, <2>1, <4>1 DEF Persists, Removes, RowsHeld, HoldsRow, Live, TypeOK
        <5>3. CASE Removes(p)
          BY <3>2, <5>1, <5>3 DEF Removes, SameCall, Live, Row, RowOf
        <5>4. CASE Persists(p)
          <6>1. job[p].row \in Row /\ Rewrites(p)
            BY <1>0, <5>4, NullsAssumption, RowIsDraft DEF Persists, JobShape, Rewrites
          <6>2. job'[p].row.key = job[p].row.key /\ job'[p].row.created = job[p].row.created
            BY <5>4, <6>1 DEF Persists, Row, RowOf
          <6> QED BY <1>0, <3>2, <5>4, <6>1, <6>2 DEF Persists, SameCall, RowsHeld
        <5> QED BY <4>1, <5>3, <5>4
      <4>2. CASE ~Persists(p) /\ ~Removes(p)
        BY <1>0, <3>1, <3>2, <4>2 DEF Progress, Accepts, Reads, Verifies, Begins, Locks,
           Misses, Replays, Inserts, Updates, Agrees, Selects, Rechecks, SameCall,
           RowsHeld, Rewrites, HoldsRow, JobShape, Live
      <4> QED BY <4>1, <4>2
    <3>5. HoldsRow(p)' => /\ tasks'[job'[p].id] # NoRow
                          /\ ~tasks'[job'[p].id].deleted
                          /\ rowLock'[job'[p].id] = p
      <4>1. CASE Updates(p) \/ Selects(p) \/ Removes(p)
        BY <3>2, <4>1 DEF Updates, Selects, Removes, SameCall, Live
      <4>2. CASE Rechecks(p) \/ Persists(p)
        BY <1>0, <3>2, <4>2 DEF Rechecks, Persists, SameCall, RowsHeld, HoldsRow, Live
      <4>3. CASE Agrees(p) \/ Replays(p) \/ Inserts(p)
        BY <4>3 DEF Agrees, Replays, Inserts, SameCall, HoldsRow
      <4>4. CASE Accepts(p) \/ Reads(p) \/ Verifies(p) \/ Begins(p) \/ Locks(p) \/ Misses(p)
        BY <4>4 DEF Accepts, Reads, Verifies, Begins, Locks, Misses, HoldsRow
      <4> QED BY <3>1, <4>1, <4>2, <4>3, <4>4 DEF Progress
    <3> QED BY <2>2, <3>4, <3>5 DEF RowsHeld, Live
  <2> QED BY <2>3, <2>4
<1> QED BY <1>1, <1>2

(* The row a request holds is the one it saw, until it ends.               *)
LEMMA HeldRowKept ==
  ASSUME IInv, NEW p \in Procs, Acts(p), NEW q \in Procs \ {p}, HoldsRow(q)
  PROVE  /\ job[q].id \in TaskIds /\ rowLock[job[q].id] = q /\ Live(job[q].id)
         /\ tasks'[job[q].id] = tasks[job[q].id]
<1>1. pc[q] # "idle"
  BY DEF HoldsRow
<1>2. job[q].id \in TaskIds
  BY <1>1, JobFields DEF IInv
<1>3. Live(job[q].id) /\ rowLock[job[q].id] = q
  BY DEF IInv, RowsHeld
<1>4. tasks[job[q].id] # NoRow
  BY <1>3 DEF Live
<1> QED BY <1>2, <1>3, <1>4, LockedRowKept

LEMMA WritesExactStep ==
  ASSUME IInv, [Next]_vars PROVE WritesExact'
<1>0. TypeOK /\ JobShape /\ RowsHeld /\ WritesExact
  BY DEF IInv
<1>1. CASE ~ \E p \in Procs : Acts(p)
  BY <1>0, <1>1, EnvironmentKeeps DEF WritesExact, Exact
<1>2. ASSUME NEW p \in Procs, Acts(p) PROVE WritesExact'
  <2>1. ASSUME NEW q \in Procs \ {p}
        PROVE  /\ pc'[q] = pc[q] /\ job'[q] = job[q]
               /\ HoldsRow(q) => tasks'[job[q].id] = tasks[job[q].id]
    BY <1>0, <1>2, OthersKeep, HeldRowKept
  <2>2. ASSUME NEW q \in Procs \ {p} PROVE Exact(q)'
    <3>1. pc[q] = "commit" /\ job[q].op = "delete" => HoldsRow(q)
      BY <1>0 DEF WritesExact, Exact, HoldsRow
    <3>2. \/ HoldsRow(q) /\ tasks'[job[q].id] = tasks[job[q].id]
          \/ ~HoldsRow(q)
      BY <2>1
    <3>3. pc'[q] = pc[q] /\ job'[q] = job[q] /\ Exact(q)
      BY <1>0, <2>1 DEF WritesExact
    <3> QED BY <3>1, <3>2, <3>3 DEF Exact, HoldsRow
  <2>3. CASE pc'[p] = "idle"
    <3>1. Exact(p)'
      BY <2>3 DEF Exact
    <3> QED BY <2>2, <3>1 DEF WritesExact
  <2>4. CASE pc'[p] # "idle"
    <3>1. Progress(p)
      BY <1>0, <1>2, <2>4, OwnStep
    <3>2. tasks' = tasks
      BY <1>2, <2>4, CommitEffect, TablesKept
    <3>3. /\ pc'[p] \in {"recheck", "persist"} =>
               /\ job'[p].row = tasks[job'[p].id]
               /\ tasks[job'[p].id].user # job'[p].user
          /\ pc'[p] = "commit" /\ job'[p].op = "assign" /\ job'[p].row # NoRow =>
               /\ job'[p].row = [tasks[job'[p].id] EXCEPT !.user = job'[p].user]
               /\ tasks[job'[p].id].user # job'[p].user
      <4>1. CASE Selects(p) \/ Rechecks(p) \/ Persists(p)
        <5>1. CASE Selects(p) \/ Rechecks(p)
          BY <1>0, <5>1 DEF Selects, Rechecks, SameCall, WritesExact, Exact
        <5>2. CASE Persists(p)
          <6>1. job[p].row = tasks[job[p].id] /\ tasks[job[p].id].user # job[p].user
            BY <1>0, <5>2 DEF Persists, WritesExact, Exact
          <6> QED BY <5>2, <6>1 DEF Persists, SameCall
        <5> QED BY <4>1, <5>1, <5>2
      <4>2. CASE ~(Selects(p) \/ Rechecks(p) \/ Persists(p))
        BY <3>1, <4>2 DEF Progress, Accepts, Reads, Verifies, Begins, Locks, Misses,
           Replays, Inserts, Updates, Agrees, Removes, SameCall
      <4> QED BY <4>1, <4>2
    <3>4. pc'[p] = "commit" /\ job'[p].op = "delete" =>
               /\ job'[p].row # NoRow
               /\ job'[p].row = [tasks[job'[p].id] EXCEPT !.deleted = TRUE]
      <4>1. CASE Removes(p)
        <5>1. TypeOK' /\ JobShape'
          BY <1>2, TypingStep DEF IInv, Next
        <5>2. job'[p].row = [tasks[job'[p].id] EXCEPT !.deleted = TRUE]
          BY <4>1 DEF Removes, SameCall
        <5>3. tasks[job[p].id] \in Row
          BY <1>0, <4>1, JobFields DEF Removes, Live, TypeOK
        <5>4. [tasks[job[p].id] EXCEPT !.deleted = TRUE] \in Row
          BY <5>3 DEF Row, RowOf
        <5> QED BY <4>1, <5>2, <5>4, RowIsDraft, NullsAssumption DEF Removes, SameCall
      <4>2. CASE ~Removes(p)
        BY <1>0, <3>1, <4>2 DEF Progress, Accepts, Reads, Verifies, Begins, Locks, Misses,
           Replays, Inserts, Updates, Agrees, Selects, Rechecks, Persists, SameCall, JobShape
      <4> QED BY <4>1, <4>2
    <3>5. Exact(p)'
      BY <3>2, <3>3, <3>4 DEF Exact
    <3> QED BY <2>2, <3>5 DEF WritesExact
  <2> QED BY <2>3, <2>4
<1> QED BY <1>1, <1>2

LEMMA StampsStep ==
  ASSUME IInv, [Next]_vars PROVE StampsLast' /\ LogTimesOrdered'
<1>0. TypeOK /\ JobShape /\ StampsLast /\ LogTimesOrdered /\ TimesPast /\ logs \in Seq(Log)
  BY DEF IInv, TypeOK
<1>1. CASE ~ \E p \in Procs : Acts(p)
  BY <1>0, <1>1, EnvironmentKeeps DEF StampsLast, LogTimesOrdered
<1>2. ASSUME NEW p \in Procs, Acts(p) PROVE StampsLast' /\ LogTimesOrdered'
  <2>1. \A q \in Procs \ {p} : pc'[q] = pc[q] /\ job'[q] = job[q]
    BY <1>0, <1>2, OthersKeep
  <2>2. CASE logs' = logs
    <3>1. pc'[p] = "commit" /\ job'[p].op = "assign" /\ job'[p].row # NoRow
            => \A i \in 1..Len(logs) : logs[i].task = job'[p].id => logs[i].at <= job'[p].at
      <4>1. pc'[p] # "idle" => Progress(p)
        BY <1>0, <1>2, OwnStep
      <4>2. CASE Persists(p)
        BY <1>0, <4>2 DEF Persists, TimesPast
      <4>3. CASE ~Persists(p)
        BY <4>1, <4>3 DEF Progress, Accepts, Reads, Verifies, Begins, Locks, Misses,
           Replays, Inserts, Updates, Agrees, Selects, Rechecks, Removes, SameCall
      <4> QED BY <4>2, <4>3
    <3> QED BY <1>0, <2>1, <2>2, <3>1 DEF StampsLast, LogTimesOrdered
  <2>3. CASE logs' # logs
    <3> DEFINE log == [task |-> job[p].id, user |-> job[p].user,
                       content |-> job[p].row.content, at |-> job[p].at]
    <3>1. /\ Commit(p) \/ LoseCommit(p)
          /\ job[p].op = "assign" /\ job[p].row # NoRow
          /\ logs' = Append(logs, log)
      BY <1>2, <2>3, TablesKept, LogEffect
    <3>2. log.task = job[p].id /\ log.at = job[p].at
      OBVIOUS
    <3> HIDE DEF log
    <3>3. /\ Len(logs') = Len(logs) + 1 /\ logs'[Len(logs) + 1] = log
          /\ \A i \in 1..Len(logs) : logs'[i] = logs[i]
      BY <1>0, <3>1
    <3>4. pc[p] = "commit" /\ pc'[p] = "idle"
      BY <3>1, CommitEffect
    <3>5. \A i \in 1..Len(logs) : logs[i].task = log.task => logs[i].at <= log.at
      BY <1>0, <3>1, <3>2, <3>4 DEF StampsLast
    <3>6. LogTimesOrdered'
      <4>1. SUFFICES ASSUME NEW i \in 1..Len(logs'), NEW k \in 1..Len(logs'),
                            i < k, logs'[i].task = logs'[k].task
                     PROVE  logs'[i].at <= logs'[k].at
        BY DEF LogTimesOrdered
      <4>2. Len(logs) \in Nat /\ i \in 1..Len(logs)
        BY <1>0, <3>3, <4>1
      <4>3. CASE k \in 1..Len(logs)
        BY <1>0, <3>3, <4>1, <4>2, <4>3 DEF LogTimesOrdered
      <4>4. CASE k = Len(logs) + 1
        BY <3>3, <3>5, <4>1, <4>2, <4>4
      <4> QED BY <3>3, <4>2, <4>3, <4>4
    <3>7. StampsLast'
      <4>1. SUFFICES ASSUME NEW q \in Procs, pc'[q] = "commit", job'[q].op = "assign",
                            job'[q].row # NoRow, NEW i \in 1..Len(logs'),
                            logs'[i].task = job'[q].id
                     PROVE  logs'[i].at <= job'[q].at
        BY DEF StampsLast
      <4>2. q # p /\ pc[q] = "commit" /\ job'[q] = job[q]
        BY <2>1, <3>4, <4>1
      <4>3. job[p].id # job[q].id
        BY <3>1, <3>4, <4>1, <4>2 DEF IInv, RowsHeld, HoldsRow
      <4>4. i \in 1..Len(logs) /\ logs'[i] = logs[i]
        BY <1>0, <3>2, <3>3, <4>1, <4>2, <4>3
      <4> QED BY <1>0, <4>1, <4>2, <4>4 DEF StampsLast
    <3> QED BY <3>6, <3>7
  <2> QED BY <2>2, <2>3
<1> QED BY <1>1, <1>2

(* What is live after a step with a given key was live before it with the  *)
(* same key and age, unless the step published a create.                   *)
LEMMA LiveOrigin ==
  ASSUME IInv, NEW p \in Procs, Acts(p), NEW id \in TaskIds, Live(id)'
  PROVE  \/ /\ Live(id) /\ tasks'[id].key = tasks[id].key
            /\ tasks'[id].created = tasks[id].created
         \/ /\ pc[p] = "commit" /\ pc'[p] = "idle" /\ job[p].op = "create"
            /\ job[p].row # NoRow /\ tasks[id] = NoRow /\ tasks'[id] = job[p].row
            /\ id = job[p].id
<1>1. CASE Commit(p) \/ LoseCommit(p)
  <2>1. CASE tasks'[id] = tasks[id]
    BY <2>1 DEF Live
  <2>2. CASE tasks'[id] # tasks[id]
    <3>1. id = job[p].id /\ job[p].row # NoRow
      BY <1>1, <2>2, CommitEffect
    <3>2. tasks'[id] = job[p].row
      BY <1>1, <3>1, CommitEffect
    <3> QED BY <1>1, <3>1, <3>2, CommitEffect
  <2> QED BY <2>1, <2>2
<1>2. CASE ~Commit(p) /\ ~LoseCommit(p)
  BY <1>2, TablesKept DEF Live
<1> QED BY <1>1, <1>2

LEMMA NumberTypes ==
  ASSUME TypeOK, JobShape
  PROVE  /\ now \in Nat /\ Skew \in Int /\ Window \in Nat
         /\ \A id \in TaskIds : tasks[id] # NoRow => tasks[id].created \in Nat
         /\ \A q \in Procs : pc[q] # "idle" => job[q].began \in Nat
         /\ \A q \in Procs : pc[q] # "idle" /\ job[q].row # NoRow => job[q].row.created \in Nat
<1>1. \A id \in TaskIds : tasks[id] # NoRow => tasks[id].created \in Nat
  BY DEF TypeOK, Row, RowOf
<1>2. \A q \in Procs : pc[q] # "idle" /\ job[q].row # NoRow => job[q].row.created \in Nat
  BY JobFields DEF RowOf
<1> QED BY <1>1, <1>2, BoundsAssumption, JobFields DEF TypeOK

LEMMA GapSeenStep ==
  ASSUME IInv, [Next]_vars PROVE GapSeen'
<1>0. TypeOK /\ JobShape /\ GapSeen /\ KeyLocked /\ TimesPast
  BY DEF IInv
<1>1. CASE ~ \E p \in Procs : Acts(p)
  <2>1. /\ UNCHANGED <<tasks, pc, job>>
        /\ now \in Nat /\ now' \in Nat /\ now <= now'
    BY <1>0, <1>1, EnvironmentKeeps
  <2>2. ASSUME NEW q \in Procs, Missed(q)'
        PROVE  pc'[q] = "commit" => /\ job'[q].began <= job'[q].row.created
                                    /\ job'[q].row.created <= now'
    BY <1>0, <2>1, <2>2, NumberTypes DEF GapSeen, Missed
  <2> QED BY <1>0, <2>1, <2>2 DEF GapSeen, Missed, Live
<1>2. ASSUME NEW p \in Procs, Acts(p) PROVE GapSeen'
  <2>1. now' = now /\ \A q \in Procs \ {p} : pc'[q] = pc[q] /\ job'[q] = job[q]
    BY <1>0, <1>2, OthersKeep
  <2>2. ASSUME NEW q \in Procs \ {p}, Missed(q), NEW id \in TaskIds, Live(id)',
               tasks'[id].key = job[q].key
        PROVE  tasks'[id].created < job[q].began + Skew - Window
    <3>1. CASE Live(id) /\ tasks'[id].key = tasks[id].key
                        /\ tasks'[id].created = tasks[id].created
      BY <1>0, <2>2, <3>1 DEF GapSeen
    <3>2. CASE /\ pc[p] = "commit" /\ job[p].op = "create" /\ job[p].row # NoRow
               /\ tasks'[id] = job[p].row
      <4>1. job[q].op = "create" /\ pc[q] \in {"insert", "commit"}
        BY <1>0, <2>2, JobFields DEF Missed, JobShape, Ops
      <4>2. job[p].key = job[q].key
        BY <1>0, <2>2, <3>2 DEF JobShape
      <4> QED BY <1>0, <3>2, <4>1, <4>2 DEF KeyLocked
    <3> QED BY <1>2, <2>2, <3>1, <3>2, LiveOrigin
  <2>3. ASSUME NEW q \in Procs \ {p}, Missed(q)'
        PROVE  /\ \A id \in TaskIds : Live(id)' /\ tasks'[id].key = job'[q].key
                    => tasks'[id].created < job'[q].began + Skew - Window
               /\ pc'[q] = "commit" => /\ job'[q].began <= job'[q].row.created
                                       /\ job'[q].row.created <= now'
    BY <1>0, <2>1, <2>2, <2>3 DEF GapSeen, Missed
  <2>4. ASSUME Missed(p)'
        PROVE  /\ \A id \in TaskIds : Live(id)' /\ tasks'[id].key = job'[p].key
                    => tasks'[id].created < job'[p].began + Skew - Window
               /\ pc'[p] = "commit" => /\ job'[p].began <= job'[p].row.created
                                       /\ job'[p].row.created <= now'
    <3>1. pc'[p] # "idle" /\ Progress(p)
      BY <1>0, <1>2, <2>4, OwnStep DEF Missed
    <3>2. tasks' = tasks
      BY <1>2, <3>1, CommitEffect, TablesKept
    <3>3. CASE Misses(p)
      <4>1. \A id \in TaskIds : Live(id) /\ tasks[id].key = job[p].key
              => ~(tasks[id].created >= job[p].began + Skew - Window)
        BY <3>3 DEF Misses, Matches
      <4>2. \A id \in TaskIds : Live(id) /\ tasks[id].key = job[p].key
              => tasks[id].created < job[p].began + Skew - Window
        BY <1>0, <3>3, <4>1, NumberTypes DEF Misses, Live
      <4> QED BY <3>2, <3>3, <4>2 DEF Misses, Live
    <3>4. CASE Inserts(p)
      <4>1. Missed(p) /\ job[p].began <= now
        BY <1>0, <3>4 DEF Inserts, Missed, TimesPast
      <4>2. job'[p].key = job[p].key /\ job'[p].began = job[p].began
            /\ job'[p].row.created = now
        BY <3>4 DEF Inserts, SameCall, SameTimes
      <4> QED BY <1>0, <2>1, <3>2, <4>1, <4>2, NumberTypes DEF GapSeen, Live
    <3>5. CASE ~Misses(p) /\ ~Inserts(p)
      BY <2>4, <3>1, <3>5 DEF Missed, Progress, Accepts, Reads, Verifies, Begins, Locks,
         Replays, Updates, Agrees, Selects, Rechecks, Persists, Removes, SameCall
    <3> QED BY <3>3, <3>4, <3>5
  <2> QED BY <2>3, <2>4 DEF GapSeen
<1> QED BY <1>1, <1>2

LEMMA SpacedStep ==
  ASSUME IInv, [Next]_vars PROVE LiveKeysSpaced'
<1>0. TypeOK /\ JobShape /\ GapSeen /\ LiveKeysSpaced
  BY DEF IInv
<1>1. CASE ~ \E p \in Procs : Acts(p)
  BY <1>0, <1>1, EnvironmentKeeps DEF LiveKeysSpaced, Live
<1>2. ASSUME NEW p \in Procs, Acts(p), NEW a \in TaskIds, NEW b \in TaskIds, a # b,
             Live(a)', Live(b)', tasks'[a].key = tasks'[b].key
      PROVE  \/ tasks'[a].created - tasks'[b].created > Window - Skew
             \/ tasks'[b].created - tasks'[a].created > Window - Skew
  <2> DEFINE Old(id) == /\ Live(id) /\ tasks'[id].key = tasks[id].key
                        /\ tasks'[id].created = tasks[id].created
             New(id) == /\ pc[p] = "commit" /\ job[p].op = "create" /\ job[p].row # NoRow
                        /\ tasks'[id] = job[p].row /\ id = job[p].id
  <2>1. \A id \in {a, b} : Old(id) \/ New(id)
    BY <1>2, LiveOrigin
  <2>2. CASE Old(a) /\ Old(b)
    BY <1>0, <1>2, <2>2 DEF LiveKeysSpaced
  <2>3. ASSUME NEW x \in TaskIds, NEW y \in TaskIds, New(x), Old(y),
               tasks'[x].key = tasks'[y].key
        PROVE  tasks'[x].created - tasks'[y].created > Window - Skew
    <3>1. Missed(p) /\ job[p].row.key = job[p].key
      BY <1>0, <2>3 DEF Missed, JobShape
    <3>2. /\ tasks'[y].created < job[p].began + Skew - Window
          /\ job[p].began <= tasks'[x].created
      BY <1>0, <2>3, <3>1 DEF GapSeen
    <3>3. /\ tasks'[x].created \in Nat /\ tasks'[y].created \in Nat
          /\ job[p].began \in Nat /\ Skew \in Int /\ Window \in Nat
      BY <1>0, <2>3, NumberTypes DEF Live
    <3> HIDE DEF New, Old
    <3> QED BY <3>2, <3>3
  <2>4. CASE New(a) /\ Old(b)
    BY <1>2, <2>3, <2>4
  <2>5. CASE New(b) /\ Old(a)
    BY <1>2, <2>3, <2>5
  <2>6. ~(New(a) /\ New(b))
    BY <1>2
  <2> QED BY <2>1, <2>2, <2>4, <2>5, <2>6
<1> QED BY <1>1, <1>2 DEF LiveKeysSpaced

LEMMA AssigneesStep ==
  ASSUME IInv, [Next]_vars PROVE AssigneeSeen' /\ AssigneeWasActive'
<1>0. TypeOK /\ JobShape /\ AssigneeSeen /\ AssigneeWasActive /\ TimesPast
  BY DEF IInv
<1> DEFINE Sound(u, t) == \/ accounts[u].state = "active"
                          \/ accounts[u].state = "deleted" /\ accounts[u].closed >= t
<1>1. CASE ~ \E p \in Procs : Acts(p)
  <2>1. UNCHANGED <<pc, job>>
    BY <1>0, <1>1, EnvironmentKeeps
  <2>2. ASSUME NEW u \in Users, NEW t \in Nat, t <= now, Sound(u, t)
        PROVE  \/ accounts'[u].state = "active"
               \/ accounts'[u].state = "deleted" /\ accounts'[u].closed >= t
    <3>1. CASE accounts' = accounts
      BY <2>2, <3>1
    <3>2. ASSUME NEW v \in Users, Register(v) \/ DeleteAccount(v)
          PROVE  \/ accounts'[u].state = "active"
                 \/ accounts'[u].state = "deleted" /\ accounts'[u].closed >= t
      <4>1. CASE u # v
        BY <1>0, <2>2, <3>2, <4>1 DEF Register, DeleteAccount, TypeOK
      <4>2. CASE u = v
        <5>1. CASE Register(v)
          BY <2>2, <4>2, <5>1 DEF Register
        <5>2. CASE DeleteAccount(v)
          <6> DEFINE a == [state |-> "deleted", closed |-> now]
          <6>1. a.state = "deleted" /\ a.closed = now
            OBVIOUS
          <6>2. accounts' = [accounts EXCEPT ![v] = a]
            BY <5>2 DEF DeleteAccount
          <6> HIDE DEF a
          <6>3. accounts'[u] = a /\ now \in Nat
            BY <1>0, <4>2, <6>2 DEF TypeOK
          <6> QED BY <2>2, <6>1, <6>3
        <5> QED BY <3>2, <5>1, <5>2
      <4> QED BY <4>1, <4>2
    <3> QED BY <1>0, <1>1, <3>1, <3>2, EnvironmentKeeps
  <2>3. \A q \in Procs : pc[q] # "idle" =>
          /\ job[q].began \in Nat /\ job[q].began <= now
          /\ job[q].op = "assign" => job[q].user \in Users \cup {Nil}
    BY <1>0, JobFields DEF JobShape, TimesPast, Job
  <2>4. \A q \in Procs : pc[q] = "persist" => job[q].op = "assign"
    BY <1>0, JobFields DEF JobShape, Ops
  <2>5. AssigneeSeen'
    BY <1>0, <2>1, <2>2, <2>3, <2>4 DEF AssigneeSeen
  <2>6. AssigneeWasActive'
    BY <1>0, <2>1, <2>2, <2>3 DEF AssigneeWasActive
  <2> QED BY <2>5, <2>6
<1>2. ASSUME NEW p \in Procs, Acts(p) PROVE AssigneeSeen' /\ AssigneeWasActive'
  <2>1. accounts' = accounts /\ \A q \in Procs \ {p} : pc'[q] = pc[q] /\ job'[q] = job[q]
    BY <1>0, <1>2, OthersKeep
  <2>2. pc'[p] # "idle" => Progress(p)
    BY <1>0, <1>2, OwnStep
  <2>3. pc'[p] = "persist" /\ job'[p].user # Nil =>
          \/ accounts[job'[p].user].state = "active"
          \/ /\ accounts[job'[p].user].state = "deleted"
             /\ accounts[job'[p].user].closed >= job'[p].began
    BY <2>2 DEF Progress, Accepts, Reads, Verifies, Begins, Locks, Misses, Replays,
       Inserts, Updates, Agrees, Selects, Rechecks, Persists, Removes, SameCall, UserLookup
  <2>4. pc'[p] = "commit" /\ job'[p].op = "assign" /\ job'[p].row # NoRow /\ job'[p].user # Nil =>
          \/ accounts[job'[p].user].state = "active"
          \/ /\ accounts[job'[p].user].state = "deleted"
             /\ accounts[job'[p].user].closed >= job'[p].began
    <3>1. CASE Persists(p)
      BY <1>0, <3>1 DEF Persists, SameCall, AssigneeSeen
    <3>2. CASE ~Persists(p)
      BY <2>2, <3>2 DEF Progress, Accepts, Reads, Verifies, Begins, Locks, Misses, Replays,
         Inserts, Updates, Agrees, Selects, Rechecks, Removes, SameCall
    <3> QED BY <3>1, <3>2
  <2>5. AssigneeSeen'
    BY <1>0, <2>1, <2>3 DEF AssigneeSeen
  <2>6. AssigneeWasActive'
    BY <1>0, <2>1, <2>4 DEF AssigneeWasActive
  <2> QED BY <2>5, <2>6
<1> QED BY <1>1, <1>2
(* An assignment is published together with its log, which says what it    *)
(* did; no other commit writes a log.                                      *)
LEMMA LoggedCommit ==
  ASSUME IInv, NEW p \in Procs, Commit(p) \/ LoseCommit(p),
         job[p].op = "assign", job[p].row # NoRow
  PROVE  LET id == job[p].id
         IN /\ id \in TaskIds /\ Live(id)
            /\ tasks' = [tasks EXCEPT ![id] = job[p].row]
            /\ job[p].row = [tasks[id] EXCEPT !.user = job[p].user]
            /\ tasks[id].user # job[p].user
            /\ job[p].at \in 0..now
            /\ logs' = Append(logs, [task |-> id, user |-> job[p].user,
                                     content |-> job[p].row.content, at |-> job[p].at])
<1>1. Publish(p) /\ pc[p] = "commit" /\ job[p].id \in TaskIds /\ Live(job[p].id)
  BY CommitEffect
<1>2. /\ job[p].row = [tasks[job[p].id] EXCEPT !.user = job[p].user]
      /\ tasks[job[p].id].user # job[p].user
  BY <1>1 DEF IInv, WritesExact, Exact
<1>3. tasks' = [tasks EXCEPT ![job[p].id] = job[p].row]
  BY <1>1 DEF Publish
<1>4. job[p].at \in 0..now
  <2>1. job[p].at \in Nat /\ job[p].at <= now /\ now \in Nat
    BY <1>1, JobFields DEF IInv, TimesPast, TypeOK
  <2> QED BY <2>1
<1>5. logs' = Append(logs, [task |-> job[p].id, user |-> job[p].user,
                            content |-> job[p].row.content, at |-> job[p].at])
  BY LogEffect
<1> QED BY <1>1, <1>2, <1>3, <1>4, <1>5

(* Once the log of an assignment is there, it stays.                       *)
AssignedAfter(id, user) ==
  user = Nil \/ \E i \in 1..Len(logs') : logs'[i].task = id /\ logs'[i].user = user

LEMMA AssignedKept ==
  ASSUME IInv, NEW p \in Procs, Acts(p), NEW id \in TaskIds, NEW user, WasAssigned(id, user)
  PROVE  AssignedAfter(id, user)
<1>1. logs \in Seq(Log)
  BY DEF IInv, TypeOK
<1>2. logs' = logs \/ \E log : logs' = Append(logs, log)
  BY TablesKept, LogEffect
<1>3. ASSUME NEW log, logs' = Append(logs, log), NEW i \in 1..Len(logs)
      PROVE  i \in 1..Len(logs') /\ logs'[i] = logs[i]
  BY <1>1, <1>3
<1> QED BY <1>2, <1>3 DEF WasAssigned, AssignedAfter

(* A committed assignee is nobody, the one before, the one of the log      *)
(* committed with it, or the one an update read.                           *)
LEMMA CommittedUser ==
  ASSUME IInv, NEW p \in Procs, Commit(p) \/ LoseCommit(p), job[p].row # NoRow
  PROVE  AssignedAfter(job[p].id, job[p].row.user)
<1> DEFINE id == job[p].id
<1>0. Acts(p)
  BY DEF Acts, Works
<1>1. /\ pc[p] = "commit" /\ id \in TaskIds /\ job[p].op \in Ops
      /\ job[p].op # "create" => Live(id) /\ tasks[id] \in Row
  BY CommitEffect, JobFields DEF IInv, TypeOK, Live
<1>2. CASE job[p].op = "create"
  BY <1>1, <1>2 DEF IInv, RowsSound, AssignedAfter
<1>3. CASE job[p].op = "update"
  BY <1>0, <1>1, <1>3, AssignedKept DEF IInv, RowsSound
<1>4. CASE job[p].op = "delete"
  <2>1. job[p].row.user = tasks[id].user
    BY <1>1, <1>4 DEF IInv, WritesExact, Exact, Row, RowOf
  <2> QED BY <1>0, <1>1, <1>4, <2>1, AssignedKept DEF IInv, RowsSound, Live
<1>5. CASE job[p].op = "assign"
  <2> DEFINE log == [task |-> id, user |-> job[p].user,
                     content |-> job[p].row.content, at |-> job[p].at]
  <2>1. /\ job[p].row = [tasks[id] EXCEPT !.user = job[p].user]
        /\ logs' = Append(logs, log)
    BY <1>5, LoggedCommit
  <2>2. job[p].row.user = job[p].user
    BY <1>1, <1>5, <2>1 DEF Row, RowOf
  <2>3. log.task = id /\ log.user = job[p].user
    OBVIOUS
  <2>4. logs \in Seq(Log)
    BY DEF IInv, TypeOK
  <2> HIDE DEF log, id
  <2>5. Len(logs') \in 1..Len(logs') /\ logs'[Len(logs')] = log
    BY <2>1, <2>4
  <2> QED BY <2>2, <2>3, <2>5 DEF AssignedAfter, id
<1> QED BY <1>1, <1>2, <1>3, <1>4, <1>5 DEF Ops

LEMMA RowsSoundStep ==
  ASSUME IInv, [Next]_vars PROVE RowsSound'
<1>0. TypeOK /\ JobShape /\ RowsSound
  BY DEF IInv
<1>1. CASE ~ \E p \in Procs : Acts(p)
  BY <1>0, <1>1, EnvironmentKeeps DEF RowsSound, WasAssigned
<1>2. ASSUME NEW p \in Procs, Acts(p) PROVE RowsSound'
  <2>1. ASSUME NEW id \in TaskIds, tasks'[id] # NoRow PROVE AssignedAfter(id, tasks'[id].user)
    <3>1. CASE tasks'[id] = tasks[id]
      BY <1>0, <1>2, <2>1, <3>1, AssignedKept DEF RowsSound
    <3>2. CASE tasks'[id] # tasks[id]
      <4>1. Commit(p) \/ LoseCommit(p)
        BY <1>2, <3>2, TablesKept
      <4>2. id = job[p].id /\ job[p].row # NoRow /\ tasks'[id] = job[p].row
        BY <3>2, <4>1, CommitEffect
      <4> QED BY <4>1, <4>2, CommittedUser
    <3> QED BY <3>1, <3>2
  <2>2. ASSUME NEW q \in Procs \ {p}, pc'[q] # "idle", job'[q].row # NoRow
        PROVE  /\ job'[q].op = "create" => job'[q].row.user = Nil
               /\ job'[q].op \in {"create", "update"} => ~job'[q].row.deleted
               /\ job'[q].op = "update" => AssignedAfter(job[q].id, job[q].row.user)
    <3>1. pc'[q] = pc[q] /\ job'[q] = job[q]
      BY <1>0, <1>2, OthersKeep
    <3>2. job[q].id \in TaskIds
      BY <1>0, <2>2, <3>1, JobFields
    <3> QED BY <1>0, <1>2, <2>2, <3>1, <3>2, AssignedKept DEF RowsSound
  <2>3. ASSUME pc'[p] # "idle", job'[p].row # NoRow
        PROVE  /\ job'[p].op = "create" => job'[p].row.user = Nil
               /\ job'[p].op \in {"create", "update"} => ~job'[p].row.deleted
               /\ job'[p].op = "update" => WasAssigned(job'[p].id, job'[p].row.user)
    <3>1. Progress(p) /\ tasks' = tasks /\ logs' = logs
      BY <1>0, <1>2, <2>3, OwnStep, CommitEffect, TablesKept
    <3>2. pc[p] # "idle" => job[p].id \in TaskIds
      BY <1>0, JobFields
    <3>3. CASE Reads(p) \/ Inserts(p)
      BY <1>0, <3>1, <3>2, <3>3, NullsAssumption, JobFields
         DEF Reads, Inserts, SameCall, RowsSound, JobShape
    <3>4. CASE Accepts(p) \/ Replays(p) \/ Selects(p) \/ Persists(p) \/ Removes(p)
      BY <2>3, <3>4 DEF Accepts, Replays, Selects, Persists, Removes, SameCall, WasAssigned
    <3>5. CASE Verifies(p) \/ Begins(p) \/ Locks(p) \/ Misses(p) \/ Updates(p)
               \/ Agrees(p) \/ Rechecks(p)
      BY <1>0, <2>3, <3>1, <3>5 DEF Verifies, Begins, Locks, Misses, Updates, Agrees,
         Rechecks, SameCall, RowsSound
    <3> QED BY <3>1, <3>3, <3>4, <3>5 DEF Progress
  <2>4. logs' = logs \/ pc'[p] = "idle"
    BY <1>2, TablesKept, CommitEffect
  <2> QED BY <1>0, <1>2, <2>1, <2>2, <2>3, <2>4, OthersKeep
         DEF RowsSound, WasAssigned, AssignedAfter
<1> QED BY <1>1, <1>2
------------------------------------------------------------------------------
(* The inductive invariant.                                                *)

LEMMA IInvInit == Init => IInv
<1> SUFFICES ASSUME Init PROVE IInv
  OBVIOUS
<1>1. TypeOK /\ JobShape
  BY TypingInit
<1>2. /\ \A p \in Procs : pc[p] = "idle"
      /\ \A id \in TaskIds : tasks[id] = NoRow
      /\ Len(logs) = 0 /\ now = 0
  BY DEF Init
<1>3. TimesPast /\ IdsFresh /\ KeyLocked /\ RowsHeld /\ WritesExact
  BY <1>2 DEF TimesPast, IdsFresh, Creating, KeyLocked, RowsHeld, Rewrites, HoldsRow,
     WritesExact, Exact
<1>4. StampsLast /\ LogTimesOrdered
  BY <1>2 DEF StampsLast, LogTimesOrdered
<1>5. GapSeen /\ LiveKeysSpaced
  BY <1>2 DEF GapSeen, Missed, LiveKeysSpaced, Live
<1>6. AssigneeSeen /\ AssigneeWasActive
  BY <1>2 DEF AssigneeSeen, AssigneeWasActive
<1>7. RowsSound
  BY <1>2 DEF RowsSound
<1> QED BY <1>1, <1>3, <1>4, <1>5, <1>6, <1>7 DEF IInv

LEMMA IInvStep == IInv /\ [Next]_vars => IInv'
<1> SUFFICES ASSUME IInv, [Next]_vars PROVE IInv'
  OBVIOUS
<1>1. TypeOK' /\ JobShape'
  BY TypingStep DEF IInv
<1> QED BY <1>1, TimesPastStep, IdsFreshStep, KeyLockedStep, RowsHeldStep,
           WritesExactStep, StampsStep, GapSeenStep, SpacedStep, AssigneesStep,
           RowsSoundStep DEF IInv

(* Every reachable state satisfies the inductive invariant.                *)
THEOREM Invariance == Spec => []IInv
BY IInvInit, IInvStep, PTL DEF Spec

(* Type correctness; stored rows and logs always have a valid content.     *)
THEOREM TypeCorrectness == Spec => []TypeOK
<1>1. IInv => TypeOK
  BY DEF IInv
<1> QED BY <1>1, Invariance, PTL

(* Two live tasks of one key are more than the window minus the skew of    *)
(* the clocks apart, however their creates interleave and fail.            *)
THEOREM Idempotency == Spec => []LiveKeysSpaced
<1>1. IInv => LiveKeysSpaced
  BY DEF IInv
<1> QED BY <1>1, Invariance, PTL

(* The logs of a task are committed in the order of their time stamps.     *)
THEOREM LogOrder == Spec => []LogTimesOrdered
<1>1. IInv => LogTimesOrdered
  BY DEF IInv
<1> QED BY <1>1, Invariance, PTL

(* No assignment is committed to an account that was missing or deleted    *)
(* when its transaction began.                                             *)
THEOREM AssigneeActive == Spec => []AssigneeWasActive
<1>1. IInv => AssigneeWasActive
  BY DEF IInv
<1> QED BY <1>1, Invariance, PTL
------------------------------------------------------------------------------
(* What a step never does.                                                 *)

(* Tables and logs change only when some request commits.                  *)
LEMMA OnlyCommits ==
  ASSUME IInv, [Next]_vars
  PROVE  \/ tasks' = tasks /\ logs' = logs
         \/ \E p \in Procs : Commit(p) \/ LoseCommit(p)
<1>1. CASE \E p \in Procs : Acts(p)
  BY <1>1, TablesKept
<1>2. CASE ~ \E p \in Procs : Acts(p)
  BY <1>2, EnvironmentKeeps DEF IInv
<1> QED BY <1>1, <1>2

(* Rows persist with their key and creation time, and a deleted row never  *)
(* changes again: no update brings it back.                                *)
THEOREM RowIdentity == Spec => RowsKeepIdentity
<1>1. ASSUME IInv, [Next]_vars, NEW id \in TaskIds, tasks[id] # NoRow
      PROVE  /\ tasks'[id] # NoRow
             /\ tasks'[id].key = tasks[id].key
             /\ tasks'[id].created = tasks[id].created
             /\ tasks[id].deleted => tasks'[id] = tasks[id]
  <2>1. CASE tasks' = tasks
    BY <1>1, <2>1
  <2>2. ASSUME NEW p \in Procs, Commit(p) \/ LoseCommit(p)
        PROVE  /\ tasks'[id] # NoRow
               /\ tasks'[id].key = tasks[id].key
               /\ tasks'[id].created = tasks[id].created
               /\ tasks[id].deleted => tasks'[id] = tasks[id]
    <3>1. Acts(p)
      BY <2>2 DEF Acts, Works
    <3>2. /\ tasks'[id] # NoRow
          /\ tasks'[id].key = tasks[id].key /\ tasks'[id].created = tasks[id].created
      BY <1>1, <3>1, IdentityKept
    <3>3. CASE id = job[p].id /\ job[p].row # NoRow
      BY <1>1, <2>2, <3>2, <3>3, CommitEffect DEF Live
    <3>4. CASE ~(id = job[p].id /\ job[p].row # NoRow)
      BY <1>1, <2>2, <3>2, <3>4, CommitEffect
    <3> QED BY <3>3, <3>4
  <2> QED BY <1>1, <2>1, <2>2, OnlyCommits
<1>2. IInv /\ [Next]_vars =>
        [\A id \in TaskIds : tasks[id] # NoRow =>
           /\ tasks'[id] # NoRow
           /\ tasks'[id].key = tasks[id].key
           /\ tasks'[id].created = tasks[id].created
           /\ tasks[id].deleted => tasks'[id] = tasks[id]]_vars
  BY <1>1
<1> QED BY <1>2, Invariance, PTL DEF Spec, RowsKeepIdentity

(* The logs only grow, each by the snapshot of an assignment that really   *)
(* changed the assignee and nothing else.                                  *)
THEOREM LogTruth == Spec => LogsAreTrue
<1>1. ASSUME IInv, [Next]_vars, logs' # logs
      PROVE  \E id \in TaskIds :
               /\ Live(id)
               /\ tasks'[id] = [tasks[id] EXCEPT !.user = tasks'[id].user]
               /\ tasks'[id].user # tasks[id].user
               /\ \E at \in 0..now :
                    logs' = Append(logs, [task |-> id, user |-> tasks'[id].user,
                                          content |-> tasks'[id].content, at |-> at])
  <2>1. PICK p \in Procs : Commit(p) \/ LoseCommit(p)
    BY <1>1, OnlyCommits
  <2>2. job[p].op = "assign" /\ job[p].row # NoRow
    BY <1>1, <2>1, LogEffect
  <2> DEFINE id == job[p].id
  <2>3. /\ id \in TaskIds /\ Live(id)
        /\ tasks' = [tasks EXCEPT ![id] = job[p].row]
        /\ job[p].row = [tasks[id] EXCEPT !.user = job[p].user]
        /\ tasks[id].user # job[p].user
        /\ job[p].at \in 0..now
        /\ logs' = Append(logs, [task |-> id, user |-> job[p].user,
                                 content |-> job[p].row.content, at |-> job[p].at])
    BY <1>1, <2>1, <2>2, LoggedCommit
  <2>4. tasks \in [TaskIds -> Row \cup {NoRow}] /\ tasks[id] # NoRow
    BY <1>1, <2>3 DEF IInv, TypeOK, Live
  <2>5. tasks'[id] = job[p].row /\ tasks[id] \in Row
    BY <2>3, <2>4
  <2>6. tasks'[id].user = job[p].user
    BY <2>3, <2>5 DEF Row, RowOf
  <2> HIDE DEF id
  <2>7. /\ Live(id)
        /\ tasks'[id] = [tasks[id] EXCEPT !.user = tasks'[id].user]
        /\ tasks'[id].user # tasks[id].user
    BY <2>3, <2>5, <2>6
  <2>8. logs' = Append(logs, [task |-> id, user |-> tasks'[id].user,
                              content |-> tasks'[id].content, at |-> job[p].at])
    BY <2>3, <2>5, <2>6
  <2> QED BY <2>3, <2>7, <2>8
<1>2. IInv /\ [Next]_vars =>
        [logs' # logs =>
           \E id \in TaskIds :
             /\ Live(id)
             /\ tasks'[id] = [tasks[id] EXCEPT !.user = tasks'[id].user]
             /\ tasks'[id].user # tasks[id].user
             /\ \E at \in 0..now :
                  logs' = Append(logs, [task |-> id, user |-> tasks'[id].user,
                                        content |-> tasks'[id].content, at |-> at])]_vars
  BY <1>1
<1> QED BY <1>2, Invariance, PTL DEF Spec, LogsAreTrue

(* Every change of an assignee is logged, those an update makes by writing *)
(* back what it read excepted.                                             *)
THEOREM LogCompleteness == Spec => AssignmentsAreLogged
<1>1. ASSUME IInv, [Next]_vars, NEW id \in TaskIds,
             Live(id), tasks'[id].user # tasks[id].user
      PROVE  \/ Len(logs') = Len(logs) + 1 /\ logs'[Len(logs')].task = id
             \/ \E p \in Procs : /\ pc[p] = "commit" /\ pc'[p] = "idle"
                                 /\ job[p].op = "update" /\ job[p].id = id
  <2>1. PICK p \in Procs : Commit(p) \/ LoseCommit(p)
    BY <1>1, OnlyCommits
  <2>2. pc[p] = "commit" /\ pc'[p] = "idle" /\ id = job[p].id /\ job[p].row # NoRow
    BY <1>1, <2>1, CommitEffect
  <2>3. job[p].op # "create"
    BY <1>1, <2>1, <2>2, CommitEffect DEF Live
  <2>4. job[p].op \in Ops
    BY <1>1, <2>2, JobFields DEF IInv
  <2>5. CASE job[p].op = "delete"
    <3>1. job[p].row = [tasks[id] EXCEPT !.deleted = TRUE]
      BY <1>1, <2>2, <2>5 DEF IInv, WritesExact, Exact
    <3>2. tasks'[id] = job[p].row
      BY <1>1, <2>1, <2>2, CommitEffect
    <3>3. tasks[id] \in Row
      BY <1>1 DEF IInv, TypeOK, Live
    <3>4. tasks'[id].user = tasks[id].user
      BY <3>1, <3>2, <3>3 DEF Row, RowOf
    <3> QED BY <1>1, <3>4
  <2>6. CASE job[p].op = "assign"
    <3> DEFINE log == [task |-> id, user |-> job[p].user,
                       content |-> job[p].row.content, at |-> job[p].at]
    <3>1. logs' = Append(logs, log)
      BY <1>1, <2>1, <2>2, <2>6, LogEffect
    <3>2. log.task = id
      OBVIOUS
    <3>3. logs \in Seq(Log)
      BY <1>1 DEF IInv, TypeOK
    <3> HIDE DEF log
    <3>4. Len(logs') = Len(logs) + 1 /\ logs'[Len(logs')] = log
      BY <3>1, <3>3
    <3> QED BY <3>2, <3>4
  <2> QED BY <2>2, <2>3, <2>4, <2>5, <2>6 DEF Ops
<1>2. IInv /\ [Next]_vars =>
        [\A id \in TaskIds :
           /\ Live(id) /\ tasks'[id].user # tasks[id].user
           => \/ Len(logs') = Len(logs) + 1 /\ logs'[Len(logs')].task = id
              \/ \E p \in Procs : /\ pc[p] = "commit" /\ pc'[p] = "idle"
                                  /\ job[p].op = "update" /\ job[p].id = id]_vars
  BY <1>1
<1> QED BY <1>2, Invariance, PTL DEF Spec, AssignmentsAreLogged

(* A process is told 200 for a delete only by the commit that made a live  *)
(* row a deleted one.                                                      *)
LEMMA DeleteAnswered ==
  ASSUME IInv, [Next]_vars, NEW p \in Procs,
         reply'[p] # reply[p], reply'[p] # NoReply,
         reply'[p].op = "delete", reply'[p].code = OK
  PROVE  Commit(p) /\ job[p].op = "delete" /\ reply'[p].id = job[p].id
<1>0. reply \in [Procs -> Reply \cup {NoReply}]
  BY DEF IInv, TypeOK
<1>1. PICK q \in Procs : Acts(q)
  BY DEF Next, Register, DeleteAccount, Tick, Quiesce, vars
<1>2. ASSUME NEW j, NEW err, NEW code, Answer(q, j, err, code)
      PROVE  q = p /\ j.op = "delete" /\ j.id = reply'[p].id /\ code = OK
  BY <1>0, <1>2 DEF Answer
<1>3. \A err \in Errors : Classify(err) # OK
  BY DEF Errors, DriverErrors, Classify, RouterStatus, StatusOf, OK
<1>4. ASSUME NEW err \in Errors PROVE ~Abort(q, err)
  BY <1>2, <1>3 DEF Abort
<1>5. ~Receives(q)
  <2>1. ASSUME NEW c, RefuseCall(q, c) PROVE FALSE
    BY <1>2, <1>3, <2>1, ErrorNames DEF RefuseCall
  <2>2. ASSUME NEW c, NEW label, NEW id, NEW row, Accept(q, c, label, id, row)
        PROVE  FALSE
    BY <1>0, <2>2 DEF Accept
  <2> QED BY <2>1, <2>2 DEF Receives, CallCreate, CallUpdate, CallAssign, CallDelete
<1>6. ~LoseCommit(q) /\ ~Fail(q)
  BY <1>2, <1>3, <1>4, ErrorNames DEF LoseCommit, Fail
<1>7. CASE reply' = reply
  BY <1>7
<1>8. CASE Commit(q)
  BY <1>2, <1>8 DEF Commit
<1>9. Works(q) => reply' = reply \/ Commit(q)
  BY <1>4, ErrorNames DEF Works, GetTask, VerifyAssignee, Begin, LockKey, CheckKey, InsertTask,
     UpdateTask, SelectForUpdate, RecheckAssignee, PersistAssignee, RemoveTask
<1> QED BY <1>1, <1>5, <1>6, <1>7, <1>8, <1>9 DEF Acts

(* At most one delete of a task answers 200.                               *)
THEOREM DeleteOnce == Spec => DeleteSucceedsOnce
<1>1. ASSUME IInv, [Next]_vars, NEW p \in Procs,
             reply'[p] # reply[p], reply'[p] # NoReply,
             reply'[p].op = "delete", reply'[p].code = OK
      PROVE  \E id \in TaskIds : id = reply'[p].id /\ Live(id) /\ ~Live(id)'
  <2>1. Commit(p) /\ job[p].op = "delete" /\ reply'[p].id = job[p].id
    BY <1>1, DeleteAnswered
  <2>2. /\ pc[p] = "commit" /\ job[p].id \in TaskIds
    BY <1>1, <2>1, CommitEffect
  <2>3. /\ job[p].row # NoRow
        /\ job[p].row = [tasks[job[p].id] EXCEPT !.deleted = TRUE]
    BY <1>1, <2>1, <2>2 DEF IInv, WritesExact, Exact
  <2>4. Live(job[p].id) /\ tasks'[job[p].id] = job[p].row
    BY <1>1, <2>1, <2>3, CommitEffect
  <2>5. tasks[job[p].id] \in Row
    BY <1>1, <2>2, <2>4 DEF IInv, TypeOK, Live
  <2>6. tasks'[job[p].id].deleted
    BY <2>3, <2>4, <2>5 DEF Row, RowOf
  <2> QED BY <2>1, <2>2, <2>4, <2>6 DEF Live
<1>2. IInv /\ [Next]_vars =>
        [\A p \in Procs :
           /\ reply'[p] # reply[p] /\ reply'[p] # NoReply
           /\ reply'[p].op = "delete" /\ reply'[p].code = OK
           => \E id \in TaskIds : id = reply'[p].id /\ Live(id) /\ ~Live(id)']_vars
  BY <1>1
<1> QED BY <1>2, Invariance, PTL DEF Spec, DeleteSucceedsOnce
=============================================================================
