--------------------------- MODULE AccountsProofs ----------------------------
(***************************************************************************)
(* Accounts keeps addresses unique and implements AccountLife, for any     *)
(* number of requests, accounts, addresses and calls.                      *)
(***************************************************************************)
EXTENDS AccountsInvariant, TLAPS

LEMMA ClassifyType ==
  ASSUME NEW err \in Errors PROVE Classify(err) \in Replies
BY DEF Errors, DriverErrors, Classify, RouterStatus, StatusOf, Replies

LEMMA ErrorNames ==
  {"invalid_input", "forbidden", "not_found", "already_exists", "no_route", "value_too_long",
   "failure"} \subseteq Errors
BY DEF Errors, RouterStatus, StatusOf, DriverErrors

(* Answering a request leaves its process idle and well typed.             *)
LEMMA AnswerType ==
  ASSUME TypeOK, NEW p \in Procs, NEW op \in Ops, NEW id \in UserIds \cup {Bad},
         NEW err \in Errors \cup {"none"}, NEW code \in Replies,
         Answer(p, op, id, err, code)
  PROVE  /\ reply' \in [Procs -> Reply \cup {NoReply}]
         /\ pc' \in [Procs -> Labels]
         /\ job' \in [Procs -> Job \cup {NoJob}]
         /\ pc'[p] = "idle"
         /\ \A q \in Procs \ {p} : pc'[q] = pc[q] /\ job'[q] = job[q]
BY DEF TypeOK, Answer, Goto, Reply, Labels

LEMMA FinishType ==
  ASSUME TypeOK, NEW p \in Procs, pc[p] # "idle", NEW err \in Errors \cup {"none"},
         NEW code \in Replies, Finish(p, err, code)
  PROVE  /\ reply' \in [Procs -> Reply \cup {NoReply}]
         /\ pc' \in [Procs -> Labels]
         /\ job' \in [Procs -> Job \cup {NoJob}]
         /\ pc'[p] = "idle" /\ issued' = issued
         /\ \A q \in Procs \ {p} : pc'[q] = pc[q] /\ job'[q] = job[q]
<1>1. job[p].call.op \in Ops /\ job[p].id \in UserIds
  BY DEF TypeOK, Job, Call
<1> QED BY <1>1, AnswerType DEF Finish

(* What a step of a request does to the table: nothing, or one row.        *)
Writes(p, row) ==
  /\ pc[p] # "idle" /\ pc'[p] = "idle" /\ issued' = issued
  /\ \A q \in Procs \ {p} : pc'[q] = pc[q] /\ job'[q] = job[q]
  /\ users' = [users EXCEPT ![job[p].id] = row]
Inserts(p) ==
  \E row \in Row : /\ Writes(p, row) /\ pc[p] = "insert"
                   /\ ~row.deleted /\ ~Taken(row.email, job[p].id)
Rewrites(p) ==
  \E row \in Row : /\ Writes(p, row) /\ Live(job[p].id)
                   /\ ~row.deleted /\ ~Taken(row.email, job[p].id)
Removes(p) ==
  /\ Writes(p, [users[job[p].id] EXCEPT !.deleted = TRUE]) /\ Live(job[p].id)
Reads(p) ==
  /\ users' = users /\ issued' \in Nat /\ issued <= issued'
  /\ \A q \in Procs \ {p} : pc'[q] = pc[q] /\ job'[q] = job[q]
  /\ Registering(p)' => \/ Registering(p) /\ job'[p].id = job[p].id
                        \/ /\ issued' = issued + 1 /\ job'[p].id = issued + 1

LEMMA StoreEffect ==
  ASSUME TypeOK, NEW p \in Procs, pc[p] # "idle", NEW row, NEW code \in {OK, Created},
         Store(p, row, code)
  PROVE  /\ Writes(p, row)
         /\ reply' \in [Procs -> Reply \cup {NoReply}]
         /\ pc' \in [Procs -> Labels]
         /\ job' \in [Procs -> Job \cup {NoJob}]
<1>1. code \in Replies /\ Classify("failure") \in Replies /\ "failure" \in Errors
  BY ClassifyType, ErrorNames DEF OK, Created, Replies
<1>2. CASE Finish(p, "none", code)
  BY <1>1, <1>2, FinishType DEF Store, Writes
<1>3. CASE Finish(p, "failure", Classify("failure"))
  BY <1>1, <1>3, FinishType DEF Store, Writes
<1> QED BY <1>2, <1>3 DEF Store

(* The half of a step that concerns the process itself.                    *)
Moves(p) ==
  /\ reply' \in [Procs -> Reply \cup {NoReply}]
  /\ pc' \in [Procs -> Labels]
  /\ job' \in [Procs -> Job \cup {NoJob}]
  /\ issued' \in 0..MaxCalls
  /\ pc'[p] # "idle" => job'[p] \in Job
  /\ pc'[p] \in {"check", "write"} => job'[p].row \in Draft /\ ~job'[p].row.deleted
  /\ pc'[p] = "check" => job'[p].call.email \in Emails
  /\ pc'[p] \in {"lookup", "insert"} =>
       job'[p].call.email \in Emails /\ job'[p].call.password \in Passwords
Effect(p) == Moves(p) /\ (Reads(p) \/ Inserts(p) \/ Rewrites(p) \/ Removes(p))

LEMMA AbortEffect ==
  ASSUME TypeOK, NEW p \in Procs, pc[p] # "idle", NEW err \in Errors, Abort(p, err)
  PROVE  Effect(p)
<1>1. Classify(err) \in Replies
  BY ClassifyType
<1>2. Finish(p, err, Classify(err)) /\ users' = users
  BY DEF Abort
<1>3. issued \in 0..MaxCalls /\ issued \in Nat
  BY MaxCallsAssumption DEF TypeOK
<1>4. /\ reply' \in [Procs -> Reply \cup {NoReply}] /\ pc' \in [Procs -> Labels]
      /\ job' \in [Procs -> Job \cup {NoJob}] /\ pc'[p] = "idle" /\ issued' = issued
      /\ \A q \in Procs \ {p} : pc'[q] = pc[q] /\ job'[q] = job[q]
  BY <1>1, <1>2, FinishType
<1>5. Moves(p)
  BY <1>3, <1>4 DEF Moves
<1>6. Reads(p)
  BY <1>2, <1>3, <1>4 DEF Reads, Registering
<1> QED BY <1>5, <1>6 DEF Effect

LEMMA StoreMoves ==
  ASSUME TypeOK, NEW p \in Procs, pc[p] # "idle", NEW row, NEW code \in {OK, Created},
         Store(p, row, code)
  PROVE  Moves(p) /\ Writes(p, row)
BY StoreEffect DEF Moves, Writes, TypeOK

(* A call that arrives starts a request with a new id, or is refused.      *)
LEMMA ReceivesEffect ==
  ASSUME TypeOK, NEW p \in Procs, Receives(p)
  PROVE  Effect(p)
<1>1. PICK c \in Calls : \/ RefuseCall(p, c) \/ CallRegister(p, c)
                         \/ CallUpdate(p, c) \/ CallRemove(p, c)
  BY DEF Receives
<1>2. c \in Call /\ c.op \in Ops /\ c.id \in UserIds \cup {Bad}
  BY CallsAssumption DEF Call
<1>3. /\ users' = users /\ issued' = issued + 1 /\ issued' \in 0..MaxCalls
      /\ issued \in Nat /\ issued + 1 \in UserIds /\ pc[p] = "idle"
  BY <1>1, MaxCallsAssumption
  DEF TypeOK, RefuseCall, Refuse, CallRegister, CallUpdate, CallRemove, Accept, Receive, UserIds
<1>4. CASE RefuseCall(p, c)
  <2>1. PICK err \in Errors : Answer(p, c.op, c.id, err, Classify(err))
    BY <1>4, ErrorNames DEF RefuseCall, Refuse
  <2>2. /\ reply' \in [Procs -> Reply \cup {NoReply}] /\ pc' \in [Procs -> Labels]
        /\ job' \in [Procs -> Job \cup {NoJob}] /\ pc'[p] = "idle"
        /\ \A q \in Procs \ {p} : pc'[q] = pc[q] /\ job'[q] = job[q]
    BY <1>2, <2>1, ClassifyType, AnswerType
  <2> QED BY <1>3, <2>2 DEF Effect, Moves, Reads, Registering
<1>5. ASSUME NEW label \in {"lookup", "read", "remove"}, NEW id \in UserIds,
             Accept(p, c, label, id),
             label = "lookup" => id = issued + 1 /\ c.op = "register"
      PROVE  Effect(p)
  <2> DEFINE started == [call |-> c, id |-> id, row |-> NoRow]
  <2>1. started \in Job /\ started.id = id /\ started.call = c
    BY <1>2 DEF Job
  <2>2. job' = [job EXCEPT ![p] = started] /\ pc' = [pc EXCEPT ![p] = label]
        /\ reply' = [reply EXCEPT ![p] = NoReply] /\ ~Malformed(c)
    BY <1>5 DEF Accept, Goto
  <2> HIDE DEF started
  <2>3. /\ pc'[p] = label /\ job'[p] = started
        /\ \A q \in Procs \ {p} : pc'[q] = pc[q] /\ job'[q] = job[q]
        /\ pc' \in [Procs -> Labels] /\ job' \in [Procs -> Job \cup {NoJob}]
        /\ reply' \in [Procs -> Reply \cup {NoReply}]
    BY <2>1, <2>2 DEF TypeOK, Labels
  <2>4. label = "lookup" => c.email \in Emails /\ c.password \in Passwords
    BY <1>2, <1>5, <2>2 DEF Malformed, Call
  <2>5. Moves(p)
    BY <1>3, <2>1, <2>3, <2>4 DEF Moves
  <2>6. Reads(p)
    BY <1>3, <1>5, <2>1, <2>3 DEF Reads, Registering
  <2> QED BY <2>5, <2>6 DEF Effect
<1>6. CASE CallRegister(p, c)
  BY <1>3, <1>5, <1>6 DEF CallRegister
<1>7. CASE CallUpdate(p, c) \/ CallRemove(p, c)
  <2>1. c.op # "register" /\ ~Malformed(c)
    BY <1>7 DEF CallUpdate, CallRemove, Accept
  <2>2. c.id \in UserIds
    BY <1>2, <2>1 DEF Malformed
  <2> QED BY <1>5, <1>7, <2>2 DEF CallUpdate, CallRemove
<1> QED BY <1>1, <1>4, <1>6, <1>7

(* One statement of a request.                                             *)
LEMMA SetPasswordEffect ==
  ASSUME TypeOK, NEW p \in Procs, pc[p] # "idle", ~Registering(p),
         NEW row \in Draft, ~row.deleted, SetPassword(p, row)
  PROVE  Effect(p)
<1>1. CASE job[p].call.password = Bad
  BY <1>1, AbortEffect, ErrorNames DEF SetPassword
<1>2. CASE job[p].call.password # Bad
  <2> DEFINE password == IF job[p].call.password = Nil THEN row.password
                         ELSE job[p].call.password
             newRow == [row EXCEPT !.password = password]
             newJob == [job[p] EXCEPT !.row = newRow]
  <2>1. job[p] \in Job /\ job[p].call \in Call
    BY DEF TypeOK, Job
  <2>2. password \in Passwords
    BY <1>2, <2>1 DEF Draft, RowOf, Call
  <2>3. newRow \in Draft /\ ~newRow.deleted
    BY <2>2 DEF Draft, RowOf
  <2> HIDE DEF newRow
  <2>4. newJob \in Job /\ newJob.row = newRow
    BY <2>1, <2>3 DEF Job
  <2>5. /\ job' = [job EXCEPT ![p].row = newRow] /\ pc' = [pc EXCEPT ![p] = "write"]
        /\ users' = users /\ reply' = reply /\ issued' = issued
    BY <1>2, ErrorNames DEF SetPassword, Goto, Abort, newRow
  <2>6. job' = [job EXCEPT ![p] = newJob]
    BY <2>5 DEF TypeOK
  <2> HIDE DEF newJob
  <2>7. /\ pc'[p] = "write" /\ job'[p] = newJob
        /\ \A q \in Procs \ {p} : pc'[q] = pc[q] /\ job'[q] = job[q]
        /\ pc' \in [Procs -> Labels] /\ job' \in [Procs -> Job \cup {NoJob}]
    BY <2>4, <2>5, <2>6 DEF TypeOK, Labels
  <2>8. Moves(p)
    BY <2>3, <2>4, <2>5, <2>7 DEF Moves, TypeOK
  <2>9. Reads(p)
    BY <2>5, <2>7, MaxCallsAssumption DEF Reads, Registering, TypeOK
  <2> QED BY <2>8, <2>9 DEF Effect
<1> QED BY <1>1, <1>2

LEMMA LookupEffect ==
  ASSUME TypeOK, JobShape, NEW p \in Procs, LookupEmail(p)
  PROVE  Effect(p)
<1>1. CASE Abort(p, "already_exists")
  BY <1>1, AbortEffect, ErrorNames DEF LookupEmail
<1>2. CASE Goto(p, "insert") /\ UNCHANGED <<users, job, reply, issued>>
  <2>1. /\ pc'[p] = "insert" /\ job' = job /\ pc[p] = "lookup"
        /\ \A q \in Procs \ {p} : pc'[q] = pc[q]
        /\ pc' \in [Procs -> Labels]
    BY <1>2 DEF TypeOK, Labels, Goto, LookupEmail
  <2>2. Moves(p)
    BY <1>2, <2>1 DEF Moves, TypeOK, JobShape
  <2>3. Reads(p)
    BY <1>2, <2>1, MaxCallsAssumption DEF Reads, Registering, TypeOK
  <2> QED BY <2>2, <2>3 DEF Effect
<1> QED BY <1>1, <1>2 DEF LookupEmail

LEMMA InsertEffect ==
  ASSUME TypeOK, JobShape, NEW p \in Procs, InsertUser(p)
  PROVE  Effect(p)
<1> DEFINE c   == job[p].call
           row == [email |-> c.email, password |-> c.password, deleted |-> FALSE]
<1>1. pc[p] = "insert" /\ c.email \in Emails /\ c.password \in Passwords
  BY DEF InsertUser, JobShape
<1>2. CASE \E err \in {"value_too_long", "already_exists"} : Abort(p, err)
  BY <1>1, <1>2, AbortEffect, ErrorNames
<1>3. CASE c.email \notin LongEmails /\ ~Taken(c.email, job[p].id) /\ Store(p, row, Created)
  <2>1. row \in Row /\ ~row.deleted /\ row.email = c.email
    BY <1>1, <1>3 DEF Row, RowOf
  <2> HIDE DEF row
  <2>2. Moves(p) /\ Writes(p, row)
    BY <1>1, <1>3, StoreMoves
  <2>3. Inserts(p)
    BY <1>1, <1>3, <2>1, <2>2 DEF Inserts
  <2> QED BY <2>2, <2>3 DEF Effect
<1> QED BY <1>2, <1>3 DEF InsertUser

LEMMA ReadEffect ==
  ASSUME TypeOK, JobShape, NEW p \in Procs, ReadUser(p)
  PROVE  Effect(p)
<1> DEFINE user  == users[job[p].id]
           email == job[p].call.email
<1>1. /\ pc[p] = "read" /\ pc[p] # "idle" /\ ~Registering(p)
      /\ job[p] \in Job /\ job[p].id \in UserIds /\ job[p].call \in Call
  BY DEF ReadUser, Registering, TypeOK, Job
<1>2. CASE \E err \in {"not_found", "invalid_input"} : Abort(p, err)
  BY <1>1, <1>2, AbortEffect, ErrorNames
<1>3. Live(job[p].id) => user \in Draft /\ ~user.deleted
  BY <1>1 DEF Live, TypeOK, Draft, Row, RowOf
<1>4. CASE Live(job[p].id) /\ SetPassword(p, user)
  BY <1>1, <1>3, <1>4, SetPasswordEffect
<1>5. CASE /\ Live(job[p].id) /\ email \notin {Nil, Bad, user.email}
           /\ job' = [job EXCEPT ![p].row = user] /\ Goto(p, "check")
           /\ UNCHANGED <<users, reply, issued>>
  <2> DEFINE newJob == [job[p] EXCEPT !.row = user]
  <2>1. newJob \in Job /\ newJob.row = user /\ newJob.call = job[p].call
    BY <1>1, <1>3, <1>5 DEF Job
  <2>2. job' = [job EXCEPT ![p] = newJob]
    BY <1>5 DEF TypeOK
  <2> HIDE DEF newJob
  <2>3. /\ pc'[p] = "check" /\ job'[p] = newJob
        /\ \A q \in Procs \ {p} : pc'[q] = pc[q] /\ job'[q] = job[q]
        /\ pc' \in [Procs -> Labels] /\ job' \in [Procs -> Job \cup {NoJob}]
    BY <1>5, <2>1, <2>2 DEF TypeOK, Labels, Goto
  <2>4. email \in Emails
    BY <1>1, <1>5 DEF Call
  <2>5. Moves(p)
    BY <1>3, <1>5, <2>1, <2>3, <2>4 DEF Moves, TypeOK
  <2>6. Reads(p)
    BY <1>5, <2>3, MaxCallsAssumption DEF Reads, Registering, TypeOK
  <2> QED BY <2>5, <2>6 DEF Effect
<1> QED BY <1>2, <1>4, <1>5 DEF ReadUser

LEMMA CheckEffect ==
  ASSUME TypeOK, JobShape, NEW p \in Procs, CheckEmail(p)
  PROVE  Effect(p)
<1> DEFINE email == job[p].call.email
           row   == [job[p].row EXCEPT !.email = email]
<1>1. pc[p] = "check" /\ pc[p] # "idle" /\ ~Registering(p)
  BY DEF CheckEmail, Registering
<1>2. CASE Abort(p, "already_exists")
  BY <1>1, <1>2, AbortEffect, ErrorNames
<1>3. CASE SetPassword(p, row)
  <2>1. job[p].row \in Draft /\ ~job[p].row.deleted /\ email \in Emails
    BY <1>1 DEF TypeOK, JobShape
  <2>2. row \in Draft /\ ~row.deleted
    BY <2>1 DEF Draft, RowOf
  <2> QED BY <1>1, <1>3, <2>2, SetPasswordEffect
<1> QED BY <1>2, <1>3 DEF CheckEmail

LEMMA WriteEffect ==
  ASSUME TypeOK, JobShape, NEW p \in Procs, WriteUser(p)
  PROVE  Effect(p)
<1> DEFINE row == job[p].row
<1>1. pc[p] = "write" /\ pc[p] # "idle" /\ row \in Draft /\ ~row.deleted
  BY DEF WriteUser, TypeOK, JobShape
<1>2. CASE \E err \in {"value_too_long", "not_found", "already_exists"} : Abort(p, err)
  BY <1>1, <1>2, AbortEffect, ErrorNames
<1>3. CASE /\ row.email \notin LongEmails /\ Live(job[p].id)
           /\ ~Taken(row.email, job[p].id) /\ Store(p, row, OK)
  <2>1. row \in Row
    BY <1>1, <1>3 DEF Draft, Row, RowOf
  <2>2. Moves(p) /\ Writes(p, row)
    BY <1>1, <1>3, StoreMoves
  <2>3. Rewrites(p)
    BY <1>1, <1>3, <2>1, <2>2 DEF Rewrites
  <2> QED BY <2>2, <2>3 DEF Effect
<1> QED BY <1>2, <1>3 DEF WriteUser

LEMMA RemoveEffect ==
  ASSUME TypeOK, NEW p \in Procs, RemoveUser(p)
  PROVE  Effect(p)
<1>1. pc[p] # "idle"
  BY DEF RemoveUser
<1>2. CASE Abort(p, "not_found")
  BY <1>1, <1>2, AbortEffect, ErrorNames
<1>3. CASE Live(job[p].id) /\ Store(p, [users[job[p].id] EXCEPT !.deleted = TRUE], OK)
  <2>1. Moves(p) /\ Removes(p)
    BY <1>1, <1>3, StoreMoves DEF Removes
  <2> QED BY <2>1 DEF Effect
<1> QED BY <1>2, <1>3 DEF RemoveUser

LEMMA StepEffect ==
  ASSUME IInv, NEW p \in Procs, Receives(p) \/ Works(p) \/ Fail(p)
  PROVE  Effect(p)
<1>1. TypeOK /\ JobShape
  BY DEF IInv
<1>2. CASE Fail(p)
  BY <1>1, <1>2, AbortEffect, ErrorNames DEF Fail
<1>3. CASE Works(p)
  BY <1>1, <1>3, LookupEffect, InsertEffect, ReadEffect, CheckEffect, WriteEffect,
     RemoveEffect DEF Works
<1> QED BY <1>1, <1>2, <1>3, ReceivesEffect

(* The table after a step: the row that is written keeps the table well    *)
(* typed and its addresses unique.                                         *)
LEMMA RowFits ==
  ASSUME IInv, NEW id \in UserIds, NEW row \in Row, ~Taken(row.email, id),
         users' = [users EXCEPT ![id] = row]
  PROVE  /\ users' \in [UserIds -> Row \cup {NoRow}] /\ EmailsUnique'
         /\ users'[id] = row /\ \A other \in UserIds \ {id} : users'[other] = users[other]
<1>1. users \in [UserIds -> Row \cup {NoRow}] /\ EmailsUnique
  BY DEF IInv, TypeOK
<1>2. /\ users' \in [UserIds -> Row \cup {NoRow}] /\ users'[id] = row
      /\ \A other \in UserIds \ {id} : users'[other] = users[other]
  BY <1>1
<1>3. EmailsUnique'
  <2> SUFFICES ASSUME NEW a \in UserIds, NEW b \in UserIds,
                      users'[a] # NoRow, users'[b] # NoRow, users'[a].email = users'[b].email
               PROVE  a = b
    BY DEF EmailsUnique
  <2>1. CASE a # id /\ b # id
    BY <1>1, <1>2, <2>1 DEF EmailsUnique
  <2>2. CASE a = id \/ b = id
    BY <1>2, <2>2 DEF Taken
  <2> QED BY <2>1, <2>2
<1> QED BY <1>2, <1>3

LEMMA EffectType ==
  ASSUME IInv, NEW p \in Procs, Effect(p)
  PROVE  TypeOK' /\ EmailsUnique'
<1>1. TypeOK /\ EmailsUnique /\ Moves(p)
  BY DEF IInv, Effect
<1>2. \A q \in Procs \ {p} : pc'[q] = pc[q] /\ job'[q] = job[q]
  BY DEF Effect, Reads, Inserts, Rewrites, Removes, Writes
<1>3. users' \in [UserIds -> Row \cup {NoRow}] /\ EmailsUnique'
  <2>1. CASE Reads(p)
    BY <1>1, <2>1 DEF Reads, TypeOK, EmailsUnique
  <2>2. CASE Inserts(p) \/ Rewrites(p)
    <3>1. pc[p] # "idle" /\ job[p].id \in UserIds
      BY <1>1, <2>2 DEF Inserts, Rewrites, Writes, TypeOK, Job
    <3> QED BY <2>2, <3>1, RowFits DEF Inserts, Rewrites, Writes
  <2>3. CASE Removes(p)
    <3> DEFINE id  == job[p].id
               row == [users[id] EXCEPT !.deleted = TRUE]
    <3>1. id \in UserIds /\ Live(id) /\ users' = [users EXCEPT ![id] = row]
      BY <1>1, <2>3 DEF Removes, Writes, TypeOK, Job
    <3>2. users[id] \in Row /\ users[id] # NoRow
      BY <1>1, <3>1 DEF TypeOK, Live
    <3>3. row \in Row /\ row.email = users[id].email
      BY <3>2 DEF Row, RowOf
    <3>4. ~Taken(row.email, id)
      BY <1>1, <3>1, <3>2, <3>3 DEF Taken, EmailsUnique
    <3> HIDE DEF row
    <3> QED BY <3>1, <3>3, <3>4, RowFits
  <2> QED BY <2>1, <2>2, <2>3 DEF Effect
<1>4. \A q \in Procs : pc'[q] # "idle" => job'[q] \in Job
  BY <1>1, <1>2 DEF Moves, TypeOK
<1>5. \A q \in Procs : pc'[q] \in {"check", "write"} => job'[q].row \in Draft
  BY <1>1, <1>2 DEF Moves, TypeOK
<1> QED BY <1>1, <1>3, <1>4, <1>5 DEF TypeOK, Moves

LEMMA EffectShape ==
  ASSUME IInv, NEW p \in Procs, Effect(p)
  PROVE  JobShape'
<1>1. JobShape /\ Moves(p)
  BY DEF IInv, Effect
<1>2. \A q \in Procs \ {p} : pc'[q] = pc[q] /\ job'[q] = job[q]
  BY DEF Effect, Reads, Inserts, Rewrites, Removes, Writes
<1> QED BY <1>1, <1>2 DEF JobShape, Moves

(* A registration that stores its row gives its id up; any other write     *)
(* goes to an account that exists, whose id no registration has.           *)
LEMMA EffectFresh ==
  ASSUME IInv, NEW p \in Procs, Effect(p)
  PROVE  IdsFresh'
<1>1. TypeOK /\ IdsFresh /\ issued \in Nat
  BY MaxCallsAssumption DEF IInv, TypeOK
<1>2. \A q \in Procs : pc[q] # "idle" => job[q].id \in UserIds /\ job[q].id \in Nat
  BY <1>1 DEF TypeOK, Job, UserIds
<1>3. CASE Reads(p)
  <2>1. /\ users' = users /\ issued' \in Nat /\ issued <= issued'
        /\ \A q \in Procs \ {p} : pc'[q] = pc[q] /\ job'[q] = job[q]
    BY <1>3 DEF Reads
  <2>2. \A q \in Procs : Registering(q)' =>
           \/ Registering(q) /\ job'[q].id = job[q].id
           \/ q = p /\ issued' = issued + 1 /\ job'[q].id = issued + 1
    BY <1>3, <2>1 DEF Reads, Registering
  <2>3. \A q \in Procs : Registering(q) =>
           pc[q] # "idle" /\ job[q].id \in Nat /\ job[q].id <= issued
    BY <1>1, <1>2 DEF IdsFresh, Registering
  <2>4. \A id \in UserIds : id \in Nat /\ (users'[id] # NoRow => id <= issued')
    BY <1>1, <2>1 DEF IdsFresh, UserIds
  <2>5. \A q \in Procs : Registering(q)' => job'[q].id <= issued'
    BY <1>1, <2>1, <2>2, <2>3
  <2>6. issued' = issued + 1 => issued + 1 \in UserIds
    BY <1>1, MaxCallsAssumption DEF Effect, Moves, UserIds
  <2>7. \A q \in Procs : Registering(q)' => users'[job'[q].id] = NoRow
    <3> SUFFICES ASSUME NEW q \in Procs, Registering(q)' PROVE users[job'[q].id] = NoRow
      BY <2>1
    <3>1. CASE Registering(q) /\ job'[q].id = job[q].id
      BY <1>1, <3>1 DEF IdsFresh
    <3>2. CASE issued' = issued + 1 /\ job'[q].id = issued + 1
      BY <1>1, <2>6, <3>2 DEF IdsFresh
    <3> QED BY <2>2, <3>1, <3>2
  <2>8. \A q, r \in Procs : q # r /\ Registering(q)' /\ Registering(r)' => job'[q].id # job'[r].id
    BY <1>1, <2>2, <2>3 DEF IdsFresh
  <2> QED BY <2>4, <2>5, <2>7, <2>8 DEF IdsFresh, Registering
<1>4. CASE \E row : Writes(p, row) /\ (pc[p] = "insert" \/ Live(job[p].id))
  <2>1. PICK row : Writes(p, row) /\ (pc[p] = "insert" \/ Live(job[p].id))
    BY <1>4
  <2> DEFINE id == job[p].id
  <2>2. /\ id \in UserIds /\ pc'[p] = "idle" /\ issued' = issued
        /\ \A q \in Procs \ {p} : pc'[q] = pc[q] /\ job'[q] = job[q]
        /\ \A other \in UserIds \ {id} : users'[other] = users[other]
    BY <1>1, <1>2, <2>1 DEF Writes, TypeOK
  <2>3. id <= issued
    BY <1>1, <2>1, <2>2 DEF IdsFresh, Registering, Live
  <2>4. \A q \in Procs : Registering(q)' => q # p /\ Registering(q) /\ job'[q] = job[q]
    BY <2>2 DEF Registering
  <2>5. \A q \in Procs : Registering(q)' => job[q].id # id /\ job[q].id \in UserIds
    BY <1>1, <1>2, <2>1, <2>4 DEF IdsFresh, Registering, Live
  <2>6. \A other \in UserIds : users'[other] # NoRow => other <= issued'
    BY <1>1, <2>2, <2>3 DEF IdsFresh
  <2>7. \A q \in Procs : Registering(q)' => job'[q].id <= issued' /\ users'[job'[q].id] = NoRow
    BY <1>1, <2>2, <2>4, <2>5 DEF IdsFresh
  <2>8. \A q, r \in Procs : q # r /\ Registering(q)' /\ Registering(r)' => job'[q].id # job'[r].id
    BY <1>1, <2>4 DEF IdsFresh
  <2> QED BY <2>6, <2>7, <2>8 DEF IdsFresh, Registering
<1> QED BY <1>3, <1>4 DEF Effect, Inserts, Rewrites, Removes

LEMMA IInvInit == Init => IInv
<1> SUFFICES ASSUME Init PROVE IInv
  OBVIOUS
<1>1. TypeOK
  BY MaxCallsAssumption DEF Init, TypeOK, Labels
<1>2. JobShape /\ IdsFresh /\ EmailsUnique
  BY DEF Init, JobShape, IdsFresh, EmailsUnique, Registering
<1> QED BY <1>1, <1>2 DEF IInv

LEMMA IInvStep == IInv /\ [Next]_vars => IInv'
<1> SUFFICES ASSUME IInv, [Next]_vars PROVE IInv'
  OBVIOUS
<1>1. CASE UNCHANGED vars
  BY <1>1 DEF vars, IInv, TypeOK, JobShape, IdsFresh, EmailsUnique, Registering
<1>2. CASE \E p \in Procs : Receives(p) \/ Works(p) \/ Fail(p)
  BY <1>2, StepEffect, EffectType, EffectShape, EffectFresh DEF IInv
<1> QED BY <1>1, <1>2 DEF Next, Quiesce

THEOREM Invariance == Spec => []IInv
BY IInvInit, IInvStep, PTL DEF Spec

(* The table and the requests keep their types: in particular no address   *)
(* that is too long for its column is ever stored.                         *)
THEOREM TypeCorrectness == Spec => []TypeOK
<1>1. IInv => TypeOK
  BY DEF IInv
<1> QED BY <1>1, Invariance, PTL

(* No address names two accounts, however registrations and profile        *)
(* updates interleave between their look at the table and their write.     *)
THEOREM UniqueEmails == Spec => []EmailsUnique
<1>1. IInv => EmailsUnique
  BY DEF IInv
<1> QED BY <1>1, Invariance, PTL
------------------------------------------------------------------------------
(* The conflict a request is answered is one it found in the table.        *)
Conflict(p) ==
  \E email \in Emails :
    /\ Taken(email, job[p].id)
    /\ \/ email = job[p].call.email
       \/ job[p].row # NoRow /\ email = job[p].row.email
Answers(p, err) ==
  \E op \in Ops, id \in UserIds \cup {Bad}, code \in Replies :
     reply' = [reply EXCEPT ![p] = [op |-> op, id |-> id, err |-> err, code |-> code]]
Quiet(p) == reply' = reply \/ reply' = [reply EXCEPT ![p] = NoReply]

LEMMA AbortAnswers ==
  ASSUME TypeOK, NEW p \in Procs, pc[p] # "idle", NEW err \in Errors, Abort(p, err)
  PROVE  Answers(p, err)
<1>1. job[p].call.op \in Ops /\ job[p].id \in UserIds \cup {Bad}
  BY DEF TypeOK, Job, Call
<1> QED BY <1>1, ClassifyType DEF Answers, Abort, Finish, Answer

LEMMA StoreAnswers ==
  ASSUME TypeOK, NEW p \in Procs, pc[p] # "idle", NEW row, NEW code \in {OK, Created},
         Store(p, row, code)
  PROVE  Answers(p, "none") \/ Answers(p, "failure")
<1>1. job[p].call.op \in Ops /\ job[p].id \in UserIds \cup {Bad}
  BY DEF TypeOK, Job, Call
<1>2. code \in Replies /\ Classify("failure") \in Replies
  BY ClassifyType, ErrorNames DEF OK, Created, Replies
<1> QED BY <1>1, <1>2 DEF Answers, Store, Finish, Answer

(* Every step of a request is quiet, answers another error or success, or  *)
(* answers a conflict that is there.                                       *)
LEMMA StepAnswers ==
  ASSUME IInv, NEW p \in Procs, Receives(p) \/ Works(p) \/ Fail(p)
  PROVE  \/ Quiet(p)
         \/ \E err \in (Errors \cup {"none"}) \ {"already_exists"} : Answers(p, err)
         \/ Answers(p, "already_exists") /\ Conflict(p)
<1> DEFINE Others == (Errors \cup {"none"}) \ {"already_exists"}
           Kinds  == \/ Quiet(p) \/ \E err \in Others : Answers(p, err)
                     \/ Answers(p, "already_exists") /\ Conflict(p)
<1> SUFFICES Kinds
  OBVIOUS
<1>1. TypeOK /\ JobShape
  BY DEF IInv
<1>2. {"invalid_input", "forbidden", "not_found", "no_route", "value_too_long", "failure", "none"}
        \subseteq Others
  BY ErrorNames
<1> HIDE DEF Others
<1>3. ASSUME pc[p] # "idle",
             \E err \in {"invalid_input", "not_found", "value_too_long", "failure"} :
                 Abort(p, err)
      PROVE  Kinds
  BY <1>1, <1>2, <1>3, AbortAnswers, ErrorNames
<1>4. ASSUME pc[p] # "idle", Abort(p, "already_exists"), Conflict(p)
      PROVE  Kinds
  BY <1>1, <1>4, AbortAnswers, ErrorNames
<1>5. ASSUME pc[p] # "idle", NEW row, NEW code \in {OK, Created}, Store(p, row, code)
      PROVE  Kinds
  BY <1>1, <1>2, <1>5, StoreAnswers
<1>6. CASE Receives(p)
  <2>1. PICK c \in Calls : \/ RefuseCall(p, c) \/ CallRegister(p, c)
                           \/ CallUpdate(p, c) \/ CallRemove(p, c)
    BY <1>6 DEF Receives
  <2>2. CASE RefuseCall(p, c)
    <3>1. c.op \in Ops /\ c.id \in UserIds \cup {Bad}
      BY CallsAssumption DEF Call
    <3>2. PICK err \in {"invalid_input", "forbidden", "no_route"} :
                Answer(p, c.op, c.id, err, Classify(err))
      BY <2>2 DEF RefuseCall, Refuse
    <3>3. Answers(p, err)
      BY <3>1, <3>2, ErrorNames, ClassifyType DEF Answers, Answer
    <3> QED BY <1>2, <3>3
  <2>3. CASE CallRegister(p, c) \/ CallUpdate(p, c) \/ CallRemove(p, c)
    BY <2>3 DEF CallRegister, CallUpdate, CallRemove, Accept, Quiet
  <2> QED BY <2>1, <2>2, <2>3
<1>7. CASE Fail(p)
  BY <1>3, <1>7 DEF Fail
<1>8. CASE LookupEmail(p)
  <2>1. CASE Goto(p, "insert") /\ UNCHANGED <<users, job, reply, issued>>
    BY <2>1 DEF Quiet
  <2>2. CASE Owners(job[p].call.email) # {} /\ Abort(p, "already_exists")
    <3>1. users[job[p].id] = NoRow /\ job[p].call.email \in Emails /\ pc[p] # "idle"
      BY <1>1, <1>8 DEF LookupEmail, JobShape, IInv, IdsFresh, Registering
    <3>2. Conflict(p)
      BY <2>2, <3>1 DEF Conflict, Owners, Live, Taken
    <3> QED BY <1>4, <2>2, <3>1, <3>2
  <2> QED BY <1>8, <2>1, <2>2 DEF LookupEmail
<1>9. CASE InsertUser(p)
  <2>1. job[p].call.email \in Emails /\ pc[p] # "idle"
    BY <1>1, <1>9 DEF InsertUser, JobShape
  <2>2. Taken(job[p].call.email, job[p].id) => Conflict(p)
    BY <2>1 DEF Conflict
  <2> QED BY <1>3, <1>4, <1>5, <1>9, <2>1, <2>2 DEF InsertUser
<1>10. ASSUME NEW row, pc[p] # "idle", SetPassword(p, row)
       PROVE  Kinds
  BY <1>3, <1>10 DEF SetPassword, Quiet
<1>11. CASE ReadUser(p)
  BY <1>3, <1>10, <1>11 DEF ReadUser, Quiet
<1>12. CASE CheckEmail(p)
  <2>1. job[p].call.email \in Emails /\ pc[p] # "idle"
    BY <1>1, <1>12 DEF CheckEmail, JobShape
  <2>2. Owners(job[p].call.email) \ {job[p].id} # {} => Conflict(p)
    BY <2>1 DEF Conflict, Owners, Live, Taken
  <2> QED BY <1>4, <1>10, <1>12, <2>1, <2>2 DEF CheckEmail
<1>13. CASE WriteUser(p)
  <2>1. pc[p] # "idle" /\ job[p].row \in Draft /\ job[p].row # NoRow /\ job[p].row.email \in Emails
    BY <1>1, <1>13, AbsentAssumption DEF WriteUser, TypeOK, Draft, RowOf
  <2>2. Taken(job[p].row.email, job[p].id) => Conflict(p)
    BY <2>1 DEF Conflict
  <2> QED BY <1>3, <1>4, <1>5, <1>13, <2>1, <2>2 DEF WriteUser
<1>14. CASE RemoveUser(p)
  BY <1>3, <1>5, <1>14 DEF RemoveUser
<1> QED BY <1>6, <1>7, <1>8, <1>9, <1>11, <1>12, <1>13, <1>14 DEF Works

(* Nobody is told of a conflict with an account that is his own.           *)
THEOREM RealConflicts == Spec => ConflictsAreReal
<1> DEFINE Told(p) == /\ reply'[p] # reply[p] /\ reply'[p] # NoReply
                      /\ reply'[p].err = "already_exists"
<1>1. ASSUME IInv, [Next]_vars, NEW p \in Procs, Told(p)
      PROVE  Conflict(p)
  <2>1. PICK q \in Procs : Receives(q) \/ Works(q) \/ Fail(q)
    BY <1>1 DEF Next, Quiesce, vars
  <2>2. reply \in [Procs -> Reply \cup {NoReply}]
    BY <1>1 DEF IInv, TypeOK
  <2>3. CASE Quiet(q)
    BY <1>1, <2>2, <2>3 DEF Quiet
  <2>4. CASE \E err \in (Errors \cup {"none"}) \ {"already_exists"} : Answers(q, err)
    BY <1>1, <2>2, <2>4 DEF Answers
  <2>5. CASE Answers(q, "already_exists") /\ Conflict(q)
    BY <1>1, <2>2, <2>5 DEF Answers
  <2> QED BY <1>1, <2>1, <2>3, <2>4, <2>5, StepAnswers
<1>2. IInv /\ [Next]_vars =>
        [\A p \in Procs : Told(p) =>
            \E email \in Emails :
              /\ Taken(email, job[p].id)
              /\ \/ email = job[p].call.email
                 \/ job[p].row # NoRow /\ email = job[p].row.email]_vars
  BY <1>1 DEF Conflict
<1> QED BY <1>2, Invariance, PTL DEF Spec, ConflictsAreReal
------------------------------------------------------------------------------
(* The users table implements the life cycle of accounts: every step opens *)
(* an account, closes one, or changes nothing the life cycle sees.         *)
Stage(row) == IF row = NoRow THEN "absent" ELSE IF row.deleted THEN "deleted" ELSE "active"

LEMMA Stages == \A row \in Row : /\ row.deleted => Stage(row) = "deleted"
                                 /\ ~row.deleted => Stage(row) = "active"
<1>1. Row \subseteq Draft
  BY DEF Row, Draft, RowOf
<1> QED BY <1>1, AbsentAssumption DEF Stage

LEMMA LifeStep ==
  ASSUME IInv, [Next]_vars
  PROVE  [Life!Next]_([id \in UserIds |-> StateOf(id)])
<1> DEFINE before == [id \in UserIds |-> Stage(users[id])]
           after  == [id \in UserIds |-> Stage(users'[id])]
<1>1. /\ [id \in UserIds |-> StateOf(id)] = before
      /\ [id \in UserIds |-> StateOf(id)]' = after
  BY DEF StateOf, Stage
<1>2. SUFFICES \/ after = before
               \/ \E u \in UserIds : \/ /\ before[u] = "absent"
                                        /\ after = [before EXCEPT ![u] = "active"]
                                     \/ /\ before[u] = "active"
                                        /\ after = [before EXCEPT ![u] = "deleted"]
  BY <1>1 DEF Life!Next, Life!Open, Life!Close
<1>3. CASE users' = users
  BY <1>3
<1>4. CASE \E p \in Procs : Inserts(p) \/ Rewrites(p) \/ Removes(p)
  <2>1. PICK p \in Procs : Inserts(p) \/ Rewrites(p) \/ Removes(p)
    BY <1>4
  <2> DEFINE id == job[p].id
  <2>2. TypeOK /\ IdsFresh /\ id \in UserIds
    BY <2>1 DEF IInv, TypeOK, Job, Inserts, Rewrites, Removes, Writes
  <2>3. ASSUME NEW row, Writes(p, row)
        PROVE  after = [before EXCEPT ![id] = Stage(row)]
    <3>1. users' = [users EXCEPT ![id] = row]
      BY <2>3 DEF Writes
    <3> QED BY <2>2, <3>1 DEF TypeOK
  <2>4. Live(id) => before[id] = "active" /\ users[id] \in Row
    BY <2>2 DEF Live, Stage, TypeOK
  <2>5. CASE Inserts(p)
    <3>1. before[id] = "absent"
      BY <2>2, <2>5 DEF Inserts, IdsFresh, Registering, Stage
    <3>2. after = [before EXCEPT ![id] = "active"]
      BY <2>3, <2>5, Stages DEF Inserts
    <3> QED BY <2>2, <3>1, <3>2
  <2>6. CASE Rewrites(p)
    <3>1. after = [before EXCEPT ![id] = "active"]
      BY <2>3, <2>6, Stages DEF Rewrites
    <3> QED BY <2>2, <2>4, <2>6, <3>1 DEF Rewrites
  <2>7. CASE Removes(p)
    <3> DEFINE closed == [users[id] EXCEPT !.deleted = TRUE]
    <3>1. closed \in Row /\ closed.deleted
      BY <2>4, <2>7 DEF Removes, Row, RowOf
    <3>2. Writes(p, closed)
      BY <2>7 DEF Removes
    <3> HIDE DEF closed
    <3>3. after = [before EXCEPT ![id] = "deleted"]
      BY <2>3, <3>1, <3>2, Stages
    <3> QED BY <2>2, <2>4, <2>7, <3>3 DEF Removes
  <2> QED BY <2>1, <2>5, <2>6, <2>7
<1>5. \/ users' = users \/ \E p \in Procs : Inserts(p) \/ Rewrites(p) \/ Removes(p)
  BY StepEffect DEF Next, Quiesce, vars, Effect, Reads
<1> QED BY <1>3, <1>4, <1>5

(* Accounts are opened once and closed once, for every number of accounts: *)
(* the interface that tasks and access rights are modelled against.        *)
THEOREM ImplementsLife == Spec => LifeCycle
<1>1. Init => Life!Init
  BY DEF Init, Life!Init, StateOf
<1>2. IInv /\ [Next]_vars => [Life!Next]_([id \in UserIds |-> StateOf(id)])
  BY LifeStep
<1> QED BY <1>1, <1>2, Invariance, PTL DEF Spec, LifeCycle, Life!Spec
=============================================================================
