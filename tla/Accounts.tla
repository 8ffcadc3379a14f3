------------------------------ MODULE Accounts -------------------------------
(***************************************************************************)
(* Accounts: registration, profile updates and account deletion, from the  *)
(* handler to the users table.  Each statement commits on its own, so two  *)
(* requests interleave between the look at the table and the write that    *)
(* relies on it.  Emails stand for normalized addresses.                   *)
(***************************************************************************)
EXTENDS Domain, Integers

CONSTANTS
  Procs,       \* request goroutines
  Emails,      \* addresses the validation accepts
  LongEmails,  \* those that do not fit the column
  Passwords,   \* acceptable passwords
  Nil,         \* a field that is not given
  Bad,         \* a field the validation refuses
  NoRow, NoJob, NoReply,
  Calls,       \* the calls clients may make
  MaxCalls     \* bound on the calls made

UserIds == 1..MaxCalls
Ops     == {"register", "update", "remove"}

(* A call with the rights of its caller, which a registration has no need  *)
(* of: caller is the account of the token, admin whether it has the role.  *)
Call == [op : Ops, id : UserIds \cup {Bad}, email : Emails \cup {Nil, Bad},
         password : Passwords \cup {Nil, Bad},
         caller : UserIds \cup {Nil}, admin : BOOLEAN]

RowOf(E) == [email : E, password : Passwords, deleted : BOOLEAN]
Row      == RowOf(Emails \ LongEmails)
Draft    == RowOf(Emails)
Job      == [call : Call, id : UserIds, row : Draft \cup {NoRow}]
Reply    == [op : Ops, id : UserIds \cup {Bad}, err : Errors \cup {"none"},
             code : Replies]

ASSUME EmailsAssumption == LongEmails \subseteq Emails
ASSUME FieldsAssumption == /\ {Nil, Bad} \cap (Emails \cup Passwords) = {}
                           /\ Nil # Bad /\ Bad \notin UserIds
ASSUME AbsentAssumption == /\ NoRow \notin Draft
                           /\ NoJob \notin Job
                           /\ NoReply \notin Reply
ASSUME MaxCallsAssumption == MaxCalls \in Nat
ASSUME CallsAssumption == Calls \subseteq Call

VARIABLES
  users,   \* table users
  pc, job, \* where each process is, and the request it works on
  reply,   \* the last answer each process gave
  issued   \* calls made so far; a registration draws id issued + 1

vars == <<users, pc, job, reply, issued>>

Labels == {"idle", "lookup", "insert", "read", "check", "write", "remove"}

Init ==
  /\ users = [id \in UserIds |-> NoRow]
  /\ pc = [p \in Procs |-> "idle"]
  /\ job = [p \in Procs |-> NoJob]
  /\ reply = [p \in Procs |-> NoReply]
  /\ issued = 0
------------------------------------------------------------------------------
(* What the statements see and how a request ends.                         *)

(* Mutated form of Live: the model without its soft_delete tag.            *)
LiveOrDeleted(id) == users[id] # NoRow

Live(id) == users[id] # NoRow /\ ~users[id].deleted

(* GetByEmail.                                                             *)
Owners(email) == {id \in UserIds : Live(id) /\ users[id].email = email}

(* Mutated form of Taken: an index on the rows that are not deleted.       *)
TakenByLive(email, id) == \E other \in UserIds \ {id} : other \in Owners(email)

(* The unique index on email: it covers deleted rows as well.              *)
Taken(email, id) ==
  \E other \in UserIds \ {id} : users[other] # NoRow /\ users[other].email = email

Goto(p, label) == pc' = [pc EXCEPT ![p] = label]

Answer(p, op, id, err, code) ==
  /\ reply' = [reply EXCEPT ![p] = [op |-> op, id |-> id, err |-> err, code |-> code]]
  /\ Goto(p, "idle")
  /\ job' = [job EXCEPT ![p] = NoJob]

Finish(p, err, code) ==
  /\ Answer(p, job[p].call.op, job[p].id, err, code)
  /\ UNCHANGED issued

Abort(p, err) == Finish(p, err, Classify(err)) /\ UNCHANGED users

(* A write takes effect; its answer may be lost on the way back.           *)
Store(p, row, code) ==
  /\ users' = [users EXCEPT ![job[p].id] = row]
  /\ Finish(p, "none", code) \/ Finish(p, "failure", Classify("failure"))

(* A statement fails, or the server dies before it is sent.                *)
Fail(p) == pc[p] # "idle" /\ Abort(p, "failure")
------------------------------------------------------------------------------
(* A call arrives: handler, guard and the validation before any statement. *)

Malformed(c) ==
  IF c.op = "register" THEN c.email \in {Nil, Bad} \/ c.password \in {Nil, Bad}
                       ELSE c.id = Bad
Forbidden(c) == c.op # "register" /\ c.caller # c.id /\ ~c.admin
Empty(c)     == c.op = "update" /\ c.email = Nil /\ c.password = Nil

Receive(p) ==
  /\ pc[p] = "idle"
  /\ issued < MaxCalls
  /\ issued' = issued + 1
  /\ UNCHANGED users

Refuse(p, c, err) == Receive(p) /\ Answer(p, c.op, c.id, err, Classify(err))

(* An id that is not an integer matches no route; one below 1 does.         *)
RefuseCall(p, c) ==
  \/ c.op # "register" /\ c.id = Bad /\ Refuse(p, c, "no_route")
  \/ Malformed(c) /\ Refuse(p, c, "invalid_input")
  \/ ~Malformed(c) /\ Forbidden(c) /\ Refuse(p, c, "forbidden")
  \/ ~Malformed(c) /\ ~Forbidden(c) /\ Empty(c) /\ Refuse(p, c, "invalid_input")

Accept(p, c, label, id) ==
  /\ Receive(p)
  /\ ~Malformed(c) /\ ~Forbidden(c) /\ ~Empty(c)
  /\ Goto(p, label)
  /\ job' = [job EXCEPT ![p] = [call |-> c, id |-> id, row |-> NoRow]]
  /\ reply' = [reply EXCEPT ![p] = NoReply]

CallRegister(p, c) == c.op = "register" /\ Accept(p, c, "lookup", issued + 1)
CallUpdate(p, c)   == c.op = "update" /\ Accept(p, c, "read", c.id)
CallRemove(p, c)   == c.op = "remove" /\ Accept(p, c, "remove", c.id)
------------------------------------------------------------------------------
(* Register.                                                               *)

LookupEmail(p) ==
  /\ pc[p] = "lookup"
  /\ \/ Owners(job[p].call.email) # {} /\ Abort(p, "already_exists")
     \/ /\ Owners(job[p].call.email) = {}
        /\ Goto(p, "insert")
        /\ UNCHANGED <<users, job, reply, issued>>

(* Mutated form of InsertUser: an email column of any length.              *)
InsertAnyLength(p) ==
  /\ pc[p] = "insert"
  /\ LET c == job[p].call
     IN \/ Taken(c.email, job[p].id) /\ Abort(p, "already_exists")
        \/ /\ ~Taken(c.email, job[p].id)
           /\ Store(p, [email |-> c.email, password |-> c.password, deleted |-> FALSE],
                    Created)

InsertUser(p) ==
  /\ pc[p] = "insert"
  /\ LET c == job[p].call
     IN \/ c.email \in LongEmails /\ Abort(p, "value_too_long")
        \/ /\ c.email \notin LongEmails /\ Taken(c.email, job[p].id)
           /\ Abort(p, "already_exists")
        \/ /\ c.email \notin LongEmails /\ ~Taken(c.email, job[p].id)
           /\ Store(p, [email |-> c.email, password |-> c.password, deleted |-> FALSE],
                    Created)
------------------------------------------------------------------------------
(* Update: read, look for the new address, write every column back.        *)

SetPassword(p, row) ==
  \/ job[p].call.password = Bad /\ Abort(p, "invalid_input")
  \/ /\ job[p].call.password # Bad
     /\ LET password == IF job[p].call.password = Nil THEN row.password
                        ELSE job[p].call.password
        IN job' = [job EXCEPT ![p].row = [row EXCEPT !.password = password]]
     /\ Goto(p, "write")
     /\ UNCHANGED <<users, reply, issued>>

ReadUser(p) ==
  /\ pc[p] = "read"
  /\ LET user  == users[job[p].id]
         email == job[p].call.email
     IN \/ ~Live(job[p].id) /\ Abort(p, "not_found")
        \/ Live(job[p].id) /\ email = Bad /\ Abort(p, "invalid_input")
        \/ Live(job[p].id) /\ email \in {Nil, user.email} /\ SetPassword(p, user)
        \/ /\ Live(job[p].id) /\ email \notin {Nil, Bad, user.email}
           /\ job' = [job EXCEPT ![p].row = user]
           /\ Goto(p, "check")
           /\ UNCHANGED <<users, reply, issued>>

(* Mutated form of CheckEmail: whoever owns the address, it is a conflict. *)
CheckAnyOwner(p) ==
  /\ pc[p] = "check"
  /\ LET email == job[p].call.email
     IN \/ Owners(email) # {} /\ Abort(p, "already_exists")
        \/ Owners(email) = {} /\ SetPassword(p, [job[p].row EXCEPT !.email = email])

CheckEmail(p) ==
  /\ pc[p] = "check"
  /\ LET email == job[p].call.email
     IN \/ Owners(email) \ {job[p].id} # {} /\ Abort(p, "already_exists")
        \/ /\ Owners(email) \subseteq {job[p].id}
           /\ SetPassword(p, [job[p].row EXCEPT !.email = email])

WriteUser(p) ==
  /\ pc[p] = "write"
  /\ LET row  == job[p].row
         fits == row.email \notin LongEmails
     IN \/ ~fits /\ Abort(p, "value_too_long")
        \/ fits /\ ~Live(job[p].id) /\ Abort(p, "not_found")
        \/ /\ fits /\ Live(job[p].id) /\ Taken(row.email, job[p].id)
           /\ Abort(p, "already_exists")
        \/ /\ fits /\ Live(job[p].id) /\ ~Taken(row.email, job[p].id)
           /\ Store(p, row, OK)
------------------------------------------------------------------------------
RemoveUser(p) ==
  /\ pc[p] = "remove"
  /\ \/ ~Live(job[p].id) /\ Abort(p, "not_found")
     \/ Live(job[p].id) /\ Store(p, [users[job[p].id] EXCEPT !.deleted = TRUE], OK)

Receives(p) == \E c \in Calls : \/ RefuseCall(p, c) \/ CallRegister(p, c)
                                \/ CallUpdate(p, c) \/ CallRemove(p, c)

Works(p) == \/ LookupEmail(p) \/ InsertUser(p)
            \/ ReadUser(p) \/ CheckEmail(p) \/ WriteUser(p)
            \/ RemoveUser(p)

(* Nothing is left to do within the bound.                                 *)
Quiesce ==
  /\ issued = MaxCalls
  /\ \A p \in Procs : pc[p] = "idle"
  /\ UNCHANGED vars

Next == \/ \E p \in Procs : Receives(p) \/ Works(p) \/ Fail(p)
        \/ Quiesce

Spec == Init /\ [][Next]_vars
------------------------------------------------------------------------------
(* Properties.                                                             *)

(* Every variable keeps its type; no stored address is longer than its     *)
(* column, and a request past its reads has a row to write.                *)
TypeOK ==
  /\ users \in [UserIds -> Row \cup {NoRow}]
  /\ pc \in [Procs -> Labels]
  /\ job \in [Procs -> Job \cup {NoJob}]
  /\ \A p \in Procs : pc[p] # "idle" => job[p] \in Job
  /\ \A p \in Procs : pc[p] \in {"check", "write"} => job[p].row \in Draft
  /\ reply \in [Procs -> Reply \cup {NoReply}]
  /\ issued \in 0..MaxCalls

(* No address ever names two accounts, a deleted one included, although    *)
(* both Register and UpdateProfile look first and write later.             *)
EmailsUnique ==
  \A a, b \in UserIds :
    users[a] # NoRow /\ users[b] # NoRow /\ users[a].email = users[b].email => a = b

(* Whoever is told that an address already exists was in conflict with     *)
(* another account, never with his own: also when a concurrent update gave *)
(* his account the address he asks for between his two reads.              *)
ConflictsAreReal ==
  [][\A p \in Procs :
       /\ reply'[p] # reply[p] /\ reply'[p] # NoReply
       /\ reply'[p].err = "already_exists"
       => \E email \in Emails :
            /\ Taken(email, job[p].id)
            /\ \/ email = job[p].call.email
               \/ job[p].row # NoRow /\ email = job[p].row.email]_vars

(* Accounts are opened and closed once.  In particular a profile update    *)
(* that read the account before its deletion does not bring it back.       *)
StateOf(id) ==
  IF users[id] = NoRow THEN "absent" ELSE IF users[id].deleted THEN "deleted" ELSE "active"
Life == INSTANCE AccountLife WITH Users <- UserIds,
                                  state <- [id \in UserIds |-> StateOf(id)]
LifeCycle == Life!Spec
------------------------------------------------------------------------------
(* A statement the documentation makes and the code does not keep.         *)

(* README: validation of email and password lives in the usecase and maps  *)
(* to 400.  So an address that is too long would be answered 400.          *)
LongEmailIsRefused ==
  \A p \in Procs :
    reply[p] # NoReply /\ reply[p].err = "value_too_long" => reply[p].code = 400
=============================================================================
