------------------------------- MODULE Listing -------------------------------
(***************************************************************************)
(* The lists of the API, GET /tasks and GET /users: a page is one          *)
(* statement, the total of its reply a second one, and both run outside    *)
(* any transaction while tasks and accounts come, change and go.  A client *)
(* reads a list by asking for its pages one after the other.               *)
(***************************************************************************)
EXTENDS Domain, Integers, Sequences, SequencesExt

CONSTANTS
  Ids,        \* ids of tasks and accounts, which break ties of the order
  Times,      \* values of created_at
  Statuses, Users,
  Spellings,  \* what clients write for a status
  ParseTaskStatus, \* the status a spelling names, or Bad
  Nil,        \* a filter that is not given, a task without assignee
  Bad, NoRow, NoReply,
  DefaultPage, DefaultLimit,
  MaxLimit,   \* the greatest limit a client may ask for
  MaxInt,     \* the greatest Go int
  MaxOffset,  \* the greatest offset of a statement, an int32
  Queries,    \* the queries clients start with
  MaxWrites   \* bound: changes of the list

Lists == {"tasks", "users"}

Ints == -(MaxInt + 1)..MaxInt

(* What order and filters read of a row; of an account only its id.        *)
Row   == [created : Times, status : Statuses, user : Users \cup {Nil}, deleted : BOOLEAN]
Query == [page : Ints \cup {Nil}, limit : Ints \cup {Nil},
          status : Spellings \cup {Nil}, user : Users \cup {Nil}]
Asked == [page : 1..MaxInt, limit : 1..MaxLimit,
          status : Statuses \cup {Nil}, user : Users \cup {Nil}]
Reply == [err : {"none", "invalid_input", "failure"}, code : Replies]

(* A table holds no more rows than its count, a Go int, can tell.          *)
ASSUME IdsAssumption == /\ Ids \subseteq Nat /\ Times \subseteq Nat
                        /\ IsFiniteSet(Ids) /\ Cardinality(Ids) <= MaxInt
ASSUME SpellingsAssumption == ParseTaskStatus \in [Spellings -> Statuses \cup {Bad}]
ASSUME ValuesAssumption == Nil \notin Spellings \cup Statuses \cup Users \cup Ints /\ Bad # Nil
ASSUME IntAssumption == /\ MaxInt \in Nat /\ MaxOffset \in 1..MaxInt
                        /\ {DefaultPage, DefaultLimit} \subseteq 1..MaxInt
                        /\ MaxLimit \in 1..MaxOffset
ASSUME RowAssumption == NoRow \notin Row /\ NoReply \notin Reply
ASSUME BoundAssumption == Queries \subseteq Query /\ MaxWrites \in Nat

VARIABLES
  list,     \* which list is read: the two differ in order, filters and rows
  rows,     \* the rows of its table
  pc,       \* idle, or the statement the request is about to send
  asked,    \* the page asked for, with the filters parsed
  items,    \* what the first statement returned, until it is shown
  reply,    \* how the last request was answered
  writes,   \* changes so far
  walk      \* what the client's reading of the list has come to, see below

vars == <<list, rows, pc, asked, items, reply, writes, walk>>

Live(id) == rows[id] # NoRow /\ ~rows[id].deleted

(* applyTaskFilters.  A user_id below 1 is no filter, and a title is read   *)
(* from the query but never applied.                                       *)
Passes(q, row) ==
  /\ q.status = Nil \/ row.status = q.status
  /\ q.user = Nil \/ row.user = q.user

Matching(q) == {id \in Ids : Live(id) /\ (list = "tasks" => Passes(q, rows[id]))}

(* Mutated form of TaskBefore: an order by creation time alone.            *)
BeforeByTime(a, b) == rows[a].created > rows[b].created

(* ORDER BY created_at DESC, id DESC.                                      *)
TaskBefore(a, b) ==
  \/ rows[a].created > rows[b].created
  \/ rows[a].created = rows[b].created /\ a > b

(* ORDER BY id DESC.                                                       *)
UserBefore(a, b) == a > b

(* Every order of the rows ORDER BY may return them in.                    *)
Before(a, b) == IF list = "tasks" THEN TaskBefore(a, b) ELSE UserBefore(a, b)
Sorted(S) == {s \in SetToSeqs(S) : \A i, k \in DOMAIN s : i < k => ~Before(s[k], s[i])}

(* An integer that is too large wraps around.                              *)
Wrapped(n, max) == ((n + max + 1) % (2 * (max + 1))) - (max + 1)

(* What the usecase computes, in a Go int.                                 *)
Offset(q) == Wrapped((q.page - 1) * q.limit, MaxInt)

(* Mutated form of Stored: an integer of half the range.                   *)
StoredNarrow(n) == Wrapped(n, MaxOffset \div 2)

(* The query builder keeps it, and the limit, which fits, in an int32.     *)
Stored(n) == Wrapped(n, MaxOffset)

(* LIMIT and OFFSET; the query builder leaves out an offset below 1.       *)
Slice(s, offset, limit) ==
  LET from == Max({offset, 0}) IN SubSeq(s, from + 1, Min({from + limit, Len(s)}))
------------------------------------------------------------------------------
(* A reading of the list: the page it asks for next, the rows it was shown *)
(* and how often any row was, and, since it began, the rows that were in   *)
(* the list all the time and how often a row entered or left it.           *)

Walk == [open : BOOLEAN, complete : BOOLEAN, kept : SUBSET Ids, seen : SUBSET Ids,
         shown : Nat, entered : Nat, left : Nat]

NoWalk  == [open |-> FALSE, complete |-> FALSE, kept |-> {}, seen |-> {},
            shown |-> 0, entered |-> 0, left |-> 0]
------------------------------------------------------------------------------
Init ==
  /\ list \in Lists
  /\ rows = [id \in Ids |-> NoRow]
  /\ pc = "idle"
  /\ asked = [page |-> 1, limit |-> 1, status |-> Nil, user |-> Nil]
  /\ items = <<>>
  /\ reply = NoReply
  /\ writes = 0
  /\ walk = NoWalk
------------------------------------------------------------------------------
(* The handlers' defaults and conversions, and the usecases' checks.       *)

Given(value, default) == IF value = Nil THEN default ELSE value

TaskQuery(q) ==
  [page |-> Given(q.page, DefaultPage), limit |-> Given(q.limit, DefaultLimit),
   status |-> IF q.status = Nil THEN Nil ELSE ParseTaskStatus[q.status], user |-> q.user]

UserQuery(q) ==
  [page |-> Given(q.page, DefaultPage), limit |-> Given(q.limit, DefaultLimit),
   status |-> Nil, user |-> Nil]

(* Mutated form of TaskRefused: any limit goes.                            *)
RefusedPage(query) == query.page < 1 \/ query.status = Bad

TaskRefused(query) ==
  query.status = Bad \/ query.page < 1 \/ query.limit \notin 1..MaxLimit

UserRefused(query) == query.page < 1 \/ query.limit \notin 1..MaxLimit

Refuse ==
  /\ reply' = [err |-> "invalid_input", code |-> Classify("invalid_input")]
  /\ walk' = NoWalk
  /\ UNCHANGED <<list, rows, pc, asked, items, writes>>

(* The request goes on to its first statement.  A client that asks for the *)
(* first page starts to read the list; any other page is a jump into it.   *)
Send(query) ==
  /\ pc' = "select"
  /\ asked' = query
  /\ reply' = NoReply
  /\ walk' = IF query.page = 1
             THEN [NoWalk EXCEPT !.open = TRUE, !.kept = Matching(query)]
             ELSE NoWalk
  /\ UNCHANGED <<list, rows, items, writes>>

ListTasks(q) ==
  /\ list = "tasks" /\ pc = "idle"
  /\ LET query == TaskQuery(q) IN IF TaskRefused(query) THEN Refuse ELSE Send(query)

(* Only administrators get here, which Access is about.                    *)
ListUsers(q) ==
  /\ list = "users" /\ pc = "idle"
  /\ LET query == UserQuery(q) IN IF UserRefused(query) THEN Refuse ELSE Send(query)

(* It goes on with the next page, or asks for a page again that failed.    *)
Continue ==
  /\ pc = "idle" /\ walk.open /\ ~walk.complete
  /\ pc' = "select"
  /\ asked' = IF reply.err = "none" THEN [asked EXCEPT !.page = @ + 1] ELSE asked
  /\ reply' = NoReply
  /\ UNCHANGED <<list, rows, items, writes, walk>>
------------------------------------------------------------------------------
(* The two statements.                                                     *)

Fail ==
  /\ pc # "idle"
  /\ pc' = "idle"
  /\ items' = <<>>
  /\ reply' = [err |-> "failure", code |-> Classify("failure")]
  /\ UNCHANGED <<list, rows, asked, writes, walk>>

Page(sorted, limit) == Slice(sorted, Stored(Offset(asked)), limit)

(* Mutated form of SelectTasks: one row more than the limit is fetched, to  *)
(* know whether there are more, and shown.                                 *)
SelectOneMore ==
  /\ list = "tasks" /\ pc = "select"
  /\ \E sorted \in Sorted(Matching(asked)) : items' = Page(sorted, asked.limit + 1)
  /\ pc' = "count"
  /\ UNCHANGED <<list, rows, asked, reply, writes, walk>>

SelectTasks ==
  /\ list = "tasks" /\ pc = "select"
  /\ \E sorted \in Sorted(Matching(asked)) : items' = Page(sorted, asked.limit)
  /\ pc' = "count"
  /\ UNCHANGED <<list, rows, asked, reply, writes, walk>>

SelectUsers ==
  /\ list = "users" /\ pc = "select"
  /\ \E sorted \in Sorted(Matching(asked)) : items' = Page(sorted, asked.limit)
  /\ pc' = "count"
  /\ UNCHANGED <<list, rows, asked, reply, writes, walk>>

(* The reply shows the page and the total, which tells the client whether  *)
(* there are more.                                                         *)
Show(total) ==
  /\ pc' = "idle"
  /\ items' = <<>>
  /\ reply' = [err |-> "none", code |-> OK]
  /\ walk' = IF ~walk.open THEN walk
             ELSE [walk EXCEPT !.seen = @ \cup ToSet(items),
                               !.shown = @ + Len(items),
                               !.complete = asked.page * asked.limit >= total]
  /\ UNCHANGED <<list, rows, asked, writes>>

CountTasks == list = "tasks" /\ pc = "count" /\ Show(Cardinality(Matching(asked)))
CountUsers == list = "users" /\ pc = "count" /\ Show(Cardinality(Matching(asked)))
------------------------------------------------------------------------------
(* The writers: operations of TaskLedger and AccountLife.                  *)

Write(table) ==
  /\ writes < MaxWrites
  /\ writes' = writes + 1
  /\ rows' = table
  /\ UNCHANGED <<list, pc, asked, items, reply>>
  /\ LET entered == Matching(asked)' \ Matching(asked)
         left    == Matching(asked) \ Matching(asked)'
     IN walk' = IF ~walk.open \/ walk.complete THEN walk
                ELSE [walk EXCEPT !.kept = @ \ left,
                                  !.entered = @ + Cardinality(entered),
                                  !.left = @ + Cardinality(left)]

(* Rows need not become visible in the order of their creation time.       *)
Insert(id) ==
  /\ rows[id] = NoRow
  /\ \E created \in Times, status \in Statuses :
       Write([rows EXCEPT ![id] = [created |-> created, status |-> status,
                                   user |-> Nil, deleted |-> FALSE]])

Edit(id) ==
  /\ Live(id) /\ list = "tasks"
  /\ \E status \in Statuses, user \in Users \cup {Nil} :
       Write([rows EXCEPT ![id].status = status, ![id].user = user])

SoftDelete(id) == Live(id) /\ Write([rows EXCEPT ![id].deleted = TRUE])

Next ==
  \/ \E q \in Queries : ListTasks(q) \/ ListUsers(q)
  \/ Continue
  \/ SelectTasks \/ SelectUsers \/ CountTasks \/ CountUsers \/ Fail
  \/ \E id \in Ids : Insert(id) \/ Edit(id) \/ SoftDelete(id)

Spec == Init /\ [][Next]_vars
------------------------------------------------------------------------------
(* Properties.                                                             *)

(* Every variable keeps its type; in particular no reply exceeds MaxLimit, *)
(* and an accepted page and limit are positive.                            *)
TypeOK ==
  /\ list \in Lists
  /\ rows \in [Ids -> Row \cup {NoRow}]
  /\ pc \in {"idle", "select", "count"}
  /\ asked \in Asked
  /\ items \in Seq(Ids) /\ Len(items) <= MaxLimit
  /\ reply \in Reply \cup {NoReply}
  /\ writes \in 0..MaxWrites
  /\ walk \in Walk

(* The page begins where a statement can tell; so did all pages before it. *)
Fits(q) == (q.page - 1) * q.limit <= MaxOffset

(* Reading a list page by page until the total is reached misses a row     *)
(* that was in the list all the time only if another one left the list     *)
(* meanwhile, and at most one row for each that left.                      *)
WalksMissFew ==
  walk.complete /\ Fits(asked) => Cardinality(walk.kept \ walk.seen) <= walk.left

(* It shows a row again only if another one entered the list meanwhile,    *)
(* and at most once for each that entered.                                 *)
WalksRepeatFew == Fits(asked) => walk.shown - Cardinality(walk.seen) <= walk.entered

(* A page that begins behind every row is empty, unless its offset does    *)
(* not fit into an int32: no page short of that one leads to the front.    *)
NothingPastTheEnd ==
  /\ pc = "count" /\ Fits(asked)
  /\ (asked.page - 1) * asked.limit >= Cardinality(Ids)
  => items = <<>>
=============================================================================
