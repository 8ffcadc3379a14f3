# A TLA+ model of api-task

The service is a REST API in Go (Fiber, bun, PostgreSQL) for tasks: users
register and log in, administrators grant roles, and everybody with a token
creates tasks idempotently, updates, assigns and deletes them. Its code is
short and sequential per request. What is hard about it is what happens
*between* the statements a request sends to the database: nothing is kept in
memory, so every invariant of the system rests on how transactions, locks,
indexes and re-reads interleave. That is what this project models, at the
granularity of SQL statements.

Contents: [inventory](#inventory), [modules](#modules), [runs](#runs),
[proofs](#proofs), [where documentation and code disagree](#where-documentation-and-code-disagree),
[limits](#what-is-not-modelled), [plan](#plan).

## Inventory

| Component | State | Operations | What makes it correct |
|---|---|---|---|
| Task write path (`handler/task_handler.go`, `usecase/task_usecase_impl.go`, `postgres/task_repository.go`) | tables `tasks`, `task_logs`; advisory and row locks of open transactions | create, update, assign, delete | idempotent creates; deletes are final and succeed once; each assignment has exactly one true log, in order; assignees exist; every call ends |
| Accounts (`user_handler.go`, `user_usecase_impl.go`, `user_repository.go`) | table `users` | register, update profile, delete account | addresses are unique, deleted ones included; conflicts are real; a deleted account stays deleted |
| Access (`auth_impl.go`, `role_impl.go`, `role_repository.go`, `platform/auth/jwt.go`, `middleware/auth.go`) | table `user_role`; the tokens clients hold | login, token check, admin guard, grant, revoke, `GET /users/me` | what a token claims was true not longer ago than its life time; roles go to existing accounts |
| Error mapping (`middleware/error_handler.go`, `domain/errors.go`) | none | classify | each error has one status; a 4xx of the router is kept; unknown ones are 500 |
| Listing (`GET /tasks`, `GET /users`) | none; clients hold how far they have read | page checks, status filter, page, count | reading all pages misses and repeats no more rows than left and entered meanwhile; no page behind the end shows the front, if its offset fits into an int32 |
| Database platform (`platform/database/postgres.go`) | the connection pool | open, ping, hand out at most `MaxOpenConns` | a request never waits for a connection while it holds the last one |
| Schema (`migrations/*.sql`) | constraints | `CHECK (status IN ...)`, unique index on `users.email`, key of `user_role` | what the statements rely on |
| Service life cycle (`cmd/api/main.go`, `config`) | listener, pool | start, drain for 10 s, close the pool | the pool is closed after the requests are drained |
| Migration tool, logger, request logger | none | | output and one-off commands |
| Test kit (`testkit/*`) | maps under a mutex | the three repositories, and what tests do to them: seed a user, age a task | promises what the database promises; the index by email is exact |

How they interact: a request passes the token check and the guard (Access),
then the handler and the usecase, which call the repositories; the repositories
open a transaction or send single statements through the pool. Components share
tables and nothing else: tasks and access read `users`, and no foreign key ties
`tasks.user_id` or `user_role.user_id` to an account that is not deleted.

Hard behaviour, listed line by line under `hazards` in PROJECT.json: creates
that race for one key, or for one lock number through a collision of
`hashtext`; the window compared with two clocks; commits that take effect while
the caller sees an error; an update that writes back a row it read before its
transaction; assignments that race with each other, with deletes and with the
deletion of the assignee; the unique address, looked at first and written later;
roles frozen in a token; a bounded pool; lists read in pages while they
change; a second set of repositories, for the tests, that must promise the same.

## Modules

| Module | What it is |
|---|---|
| `Domain` | the domain errors, the router's, the unmapped driver errors, and `Classify`, the status each is answered with |
| `TaskLedger` | abstract: the two task tables and the four operations on them, each one atomic step |
| `TaskService` | the write path of tasks |
| `TaskInvariant` | its inductive invariant `IInv`, by named parts |
| `TaskServiceProofs` | the theorems about it |
| `TaskLedgerProofs` | the proof that `TaskService` implements `TaskLedger` |
| `AccountLife` | abstract: an account is opened once and closed once |
| `Accounts` | registration, profile update and deletion |
| `AccountsInvariant`, `AccountsProofs` | its inductive invariant and theorems, the refinement of `AccountLife` among them |
| `Access` | login, tokens, guard and roles |
| `AccessInvariant`, `AccessProofs` | its inductive invariant and theorems |
| `Listing` | the lists of tasks and users, and clients that read them |
| `ListingInvariant`, `ListingProofs` | its inductive invariant and theorems |
| `MemoryTasks`, `MemoryAccounts` | the repositories of the tests, one action per method that changes a map |
| `TestApp` | the usecases over them, as the tests wire the application |
| `TestAppInvariant`, `TestAppProofs` | its inductive invariant and theorems, both refinements among them |
| `MCTaskService`, `MCAccounts`, `MCAccess`, `MCListing`, `MCTestApp` | the constants and workloads of the runs |

`AccountLife` is the interface between the modules: `Accounts` implements it,
`TaskService` and `Access` take accounts that open and close as part of their
environment (`Register`/`DeleteAccount`, `Open`/`Close`), with the time of the
deletion, which their properties compare with. `TaskLedger` and `AccountLife`
are also what `TestApp` implements: one abstract specification, two sets of
repositories. `Listing` takes the operations of both as its writers, one step each,
which is what the refinements allow.

### TaskService

A process is a request goroutine, a step one statement (or the part of a
handler before the first statement). `pc` says which statement is next, `job`
holds what the Go code has in local variables, and the row a transaction is
about to publish: a write becomes visible in `tasks` and `logs` at the commit,
as under READ COMMITTED, and the locks taken until then are `advisory` and
`rowLock`.

| Label | Code |
|---|---|
| `idle` → | `RefuseCall`, `CallCreate`, `CallUpdate`, `CallAssign`, `CallDelete`: handler and validation |
| `read` | `GetTask`: the `GetByID` of `Update`, outside the transaction, then the validation and overlay of the given fields |
| `verify` | `VerifyAssignee`: the usecase's look at the assignee, before the transaction |
| `begin` | `Begin`: BEGIN; fixes `now()` of the transaction |
| `lock`, `check`, `insert` | `pg_advisory_xact_lock(hashtext(key))`, the idempotency SELECT, the INSERT with `time.Now()` |
| `modify` | the UPDATE of `Update`, the SELECT FOR UPDATE of `Assign`, or the soft DELETE |
| `recheck`, `persist` | second look at the assignee; UPDATE and log |
| `commit` | `Commit`, or `LoseCommit`: it took effect, the caller is told it did not |

`Fail` may end any request with a rollback: a failed statement, a lost
connection, a killed server. Since the service keeps no state in memory, a crash
of the server is that step taken by every request. `Skew` is the difference
between the database's `now()`, in the wall-clock time of a TIMESTAMP column, and
the server's `time.Now()`: clock error or time zone. `PoolSize` bounds the open
transactions and blocks the statements sent outside of one, which take a
connection for a moment. Contents are titles, descriptions and statuses from
small sets, with `Bad` for a value of the wrong shape. `Bad` is a possible
status of a draft, because nothing in the service validates the status; only the
CHECK constraint keeps it out of the table. As an id of a path `Bad` is no UUID:
the routes take `:id<guid>`, so such a call is answered 404 by the router
(`Unrouted`) and `paramUUID` never fails. A key or an assignee that is `Bad`, in a
header or a body, is 400.

### Accounts

Every statement commits on its own, so there are no transactions: `lookup` and
`insert` for a registration, `read`, `check` and `write` for a profile update,
`remove` for a deletion. `Owners` is what `GetByEmail` sees (rows not deleted);
`Taken` is what the unique index sees (all rows). The guard `RequireSelfOrAdmin`
is `Forbidden`. Addresses are normalized already; `LongEmails` pass
`isValidEmail` and do not fit the column. The id of a path is `:id<int>`, and
`Bad` is either one that is no integer, answered 404 by the router, or one below 1,
which gets to `paramID` and is 400 (`RefuseCall`).

### Access

`tokens` is the set of tokens ever issued; a call may present any of them or
none. A login looks the account up, reads its roles and issues the token in
three steps, and time and revocations may come between them. `lost` is a history
variable for the property below. `Founders` are the accounts given ADMIN by hand
before the service starts; the code has no other way to the first one. Every
call but `GET /users/me` names an account in its body or path
(`CallsAssumption`); `Bad` stands for one that is no integer, which the router
answers with 404 once the token is checked and before the guard is asked, or is
below 1, which is 400 after the guard.

### Listing

`list` says which of the two lists a behaviour is about; they differ in their
order (`TaskBefore`, `UserBefore`), in filters and in the statements. A request
is `select` and `count`, with anything in between: the page comes from one state
of the table and the total from another. An offset is narrowed twice. The usecase
computes it in a Go `int`, up to `MaxInt`, which wraps around (`Offset`); the query
builder, bun v1.2.18, keeps an `int32` of that, up to `MaxOffset` (`Stored`), and
writes OFFSET only if it is positive. So `page=107374184&limit=20`, 2147483660 rows
down the list, is kept as a negative number and shows the first page, and
`page=214748366&limit=20`, at 4294967300, skips four rows. bun is not in this
repository; the model takes it from the version `go.mod` names. The limit, at most
100, always fits. `walk` is what a client knows who starts at page 1 and goes on until
`page * itemPerPage` reaches the total: what it has seen, and, as history, which
matching rows stayed in the list all along and how many entered or left. The
`title` of a query is read into the filter and never applied
(`task_handler.go:70`, `task_repository.go:106`), so the model has none.

### TestApp

`MemoryTasks` and `MemoryAccounts` hold the Go maps; the mutex makes each method
one step. `TestApp` instantiates both and adds the request goroutines: a usecase
makes one or two calls to a repository, and what it read in the first (`job.row`)
may be stale in the second. `seed` and `age` are what tests do to a repository
themselves. The in-memory log has no user (`inmemory_task_repository.go:126`),
which the ledger needs: `assignees` records it beside the log. Bodies, tokens and
refused inputs are those of the modules above, the handlers and usecases being the
same code.

## Runs

| Run | Question | Instance | Result |
|---|---|---|---|
| `create` | are creates idempotent and deletes single, and what does a clock one unit ahead cost? | 3 requests, 2 keys colliding in one lock, window 2, skew 1, clock to 4 | `LiveKeysSpaced`, `DeleteSucceedsOnce` |
| `writes` | do create, update, assign and delete of one task respect each other, an assignee that comes and goes, and time? | 2 requests at a time, 4 calls, clock to 2 | `RowsKeepIdentity`, `LogsAreTrue`, `AssignmentsAreLogged`, `LogTimesOrdered`, `AssigneeWasActive`, `IInv`, `LedgerKept` (refinement) |
| `liveness` | is every call answered, and what is stored well formed, whatever is sent? | 2 requests, one connection, one lock, writes and every refusal | `EveryCallAnswered` under `FairSpec`, `TypeOK` |
| `accounts` | do racing registrations and updates keep addresses unique, conflicts real, accounts dead? | 2 requests at a time, 3 addresses (one too long), 5 calls out of 17, refused ones included | `EmailsUnique`, `ConflictsAreReal`, `LifeCycle` (refinement), `TypeOK`, `IInv` |
| `access` | how long does a lost right last? | ADMIN moves between two accounts, life time 1, clock to 2, 4 calls out of 8, refused ones included | `AdminsActBriefly`, `DeletedFadeOut`, `GranteeWasActive`, `TypeOK`, `IInv` |
| `listing` | what do clients miss or see twice who read a list in pages while it changes? | 3 rows with 2 creation times, 5 changes, pages of 1 to 3, 6-bit integers of which a statement keeps 4 bits | `WalksMissFew`, `WalksRepeatFew`, `NothingPastTheEnd`, `TypeOK`, `IInv` |
| `testkit` | do the repositories of the tests promise what the database does? | 2 requests at a time, 4 calls out of 17, one key, two emails, window 1, clock to 2 | `LedgerKept`, `LifeCycle` (refinements), `IndexExact`, `OnlySeedingReuses`, `TypeOK`, `IInv` |
| `stale_update`, `invalid_status`, `long_email`, `own_profile`, `double_status` | see below | | violated, as expected |

**Bounds.** `MaxCalls` bounds the calls made (a call may be a retry of an earlier
one: the workloads are sets, and any call may come again), `MaxTime` the clock.
Three creates are what an idempotency bug needs (a first task, a racing pair, or
a replay after the expiry); a clock that reaches twice the window lets tasks
expire. Four calls on one task give a create and three operations that interleave
with each other. Two keys with one lock number are the collision; with a second
number only independence would be added. A third request is there where it can
queue behind a racing pair (`create`). The `access` run needs a clock beyond the
life time of a token, and four calls: two logins, a grant or revocation, and the
use of a token that has become untrue. In `listing` three rows in pages of one
are the least in which one row can leave before the page, another enter, and a
third be missed or repeated; five changes fill the table and leave two for that.
With six bits for the Go `int` and four for what the query builder keeps (`MaxInt = 31`,
`MaxOffset = 7`) an offset can fit (6), be kept as a negative number (12), be kept as
a small one (18 as 2), and be no `int` (66). In `testkit` four calls are two that set the scene
and two that interleave. Between them the passing runs fire
both success and failure of each statement, and each property is violated by a
mutated definition named in PROJECT.json, in the same instance: the bounds do
reach the cases that matter. What the bounds leave open the proofs below settle for the
properties they cover. `Quiesce` is the only step left when the calls are used up,
so deadlock is checked in all runs.

**Symmetry** is used over processes, in safety runs only.

**Fairness.** `FairSpec` is weak fairness of each request's own next statement,
success included: the Go scheduler runs a goroutine that can run, and the
database answers. PostgreSQL serves the waiters of a lock, and `database/sql`
those of a connection, in order; with a bounded number of calls weak fairness is
enough, because whoever is ahead in such a queue finishes. Nothing is assumed of
arrivals, failures, account changes or the clock.

**What the properties say.** Their comments say it next to the formulas. The
less obvious ones:

- `LiveKeysSpaced`: two live tasks with one key are further apart than
  `Window - Skew`. The guarantee shrinks by the skew and by no more: the proof
  needs the window to be closed at its older end, and with `>` for `>=` the
  strengthening fails.
- `RowsKeepIdentity`: an update writes `deleted_at` of the row it read before its
  transaction. It is the condition `deleted_at IS NULL` that the ORM adds, and
  that PostgreSQL evaluates again after waiting for the row lock, that keeps a
  deleted task deleted.
- `AssignmentsAreLogged` has one exception, the update; finding `stale_update`
  shows that the exception is needed.
- `AdminsActBriefly`, `DeletedFadeOut`: roles are read at login only, so rights
  outlive their revocation by the life time of a token *and* the time the login
  took between its read and its issue.
- `LedgerKept`: the refinement of `TaskLedger`, under the identity on the two
  tables: a request is one atomic step of the ledger, at its commit, or none. The
  ledger says in one place what a create, update, assignment and deletion may do,
  and against which state of the tables: the one at the commit, although the
  statements ran earlier. It leaves one thing to an update that a reader of the
  API would not expect: setting the assignee to one the task had before.
- `WalksMissFew`, `WalksRepeatFew`: pages by offset are not a snapshot, and no
  lock makes them one. What the code does promise is a bound: a row that never
  left the list is missed only if another one left, one for each at most, and
  repeated only if another one entered. The bound holds although the total that
  ends the reading is of a later state than the page. It rests on the order being
  total, hence on the second key `id DESC`. And it ends where offsets end (`Fits`): a
  list of more than 2^31 rows, which `users` with its SERIAL id is not and nothing
  but its size keeps `tasks` from being, cannot be read to its end at all.
- `NothingPastTheEnd`: the offset has no upper bound and wraps around, to a
  negative one or to a small one, which shows rows of the front. Only then: every
  page whose offset fits into an `int32` is empty when it begins behind the last row.
  The queries of the run ask for pages on both sides of that, and for one whose
  offset is no Go `int` either.
- `IndexExact`: the tests' repository keeps users twice, by id and by email. An
  update writes back a user that was read before another update or a deletion, and
  it is the comparison with the email *stored now* that keeps the two together.
- `OnlySeedingReuses`: the email of a deleted user stays reserved, as the unique
  index makes it in the database; `Seed`, which only tests call, is the exception.
- `LedgerKept` of `TestApp` allows one step more than the ledger, the tests' change
  of a task's age (`Aged`).
- `LifeCycle`: the refinement `state <- [id |-> StateOf(id)]` of `AccountLife`.

## Proofs

All theorems hold for every value of the constants that satisfies the named
assumptions in the modules (sets are disjoint from the sentinels, bounds are
naturals, `HashText` is any function, `Skew` any integer). One assumption is about
size: a table of a list holds at most `MaxInt` rows, since its total is the Go `int`
that `Count` returns (`task_repository.go:94`).

**TaskServiceProofs.** `Invariance` proves `Spec => []IInv`; the safety
invariants follow from it, the action properties by a look at the step. The
properties are not inductive by themselves, since what makes a commit right was
established by an earlier statement and kept true by a lock. The parts of `IInv`
say that:

- `JobShape`: where each kind of request can be and what it holds there;
- `IdsFresh`: the id of a task being created belongs to no row and no other create;
- `KeyLocked`: from its check to its commit a create holds its key's lock; hence
  `GapSeen`, what it saw (every live task of the key is older than the window),
  remains true until it commits, and `LiveKeysSpaced` follows;
- `RowsHeld`, `WritesExact`: who has looked at a row inside a transaction holds
  its lock, so the row is still the one seen, and what is published is exactly
  the assignment or the deletion of it;
- `StampsLast`: the time stamp about to be published is not before any log of the
  task, since it was taken under the row lock;
- `AssigneeSeen`: an assignee that passed the second look was not deleted before
  the transaction began;
- `TimesPast`: nothing carries a time stamp of the future;
- `RowsSound`: a create publishes no assignee, an update no deletion, and whoever
  a row or an update names was assigned the task by a logged assignment.

Then `TypeCorrectness`, `Idempotency`, `LogOrder`, `AssigneeActive`, and the
action properties `RowIdentity`, `LogTruth`, `LogCompleteness`, `DeleteOnce`.

**TaskLedgerProofs.** `ImplementsLedger` proves the refinement. Only a commit
changes the tables, and one lemma per operation shows that `IInv` makes the
commit the operation of the ledger: `GapSeen` gives the distance of a creation,
`RowsHeld` and `RowsSound` what an update leaves alone, `WritesExact` and
`StampsLast` the assignment and its log.

**AccountsProofs.** Every step of a request is summarised by its effect on the
table: nothing (`Reads`), a new row (`Inserts`), a live row written over
(`Rewrites`) or deleted (`Removes`); `IInv` (types, fresh ids, rows read alive,
unique addresses) is preserved by each. `UniqueEmails`, `RealConflicts` and
`ImplementsLife`, the refinement, follow.

**AccessProofs.** The properties compare a time at which a token is used with the
time a right was lost, and what connects the two is what each login learnt: the
parts of `IInv` say that no time stamp is of the future (`TimesPast`), that a
token tells the truth about some time since its login began (`TokensTrue`), and
what a request knows at each label (`RequestsKnow`). The argument is that such
knowledge is never unlearnt: `Onward` says of a step that whoever was active, or
held ADMIN, at or after a time not in the future still counts as such, and one
lemma, `Preserved`, takes the invariant over any step that goes onward and
changes one request. Revocation and deletion go onward because they record the
present. `RevocationBound`, `DeletionBound` and `GranteeActive` are then arithmetic.
Nothing about roles is assumed but that ADMIN and USER are two of the active ones:
with ADMIN as the role of users without roles the bound would be false.

**TestAppProofs.** `IInv` has two layers. `Core` says that ids of users are never
used again, that the index is exact (`IndexExact`), that the logs name every
assignee a task has had (`TasksLogged`), and what a request knows before it writes
(`RequestsKnow`): a create's id is still free, and what an update writes back is
the task it is about, with an assignee the task has had, however stale. On it rest
the types, with what requests found out about users and roles (`KnowsUsers`), which
stays true since nobody's id is taken back. `IndexExactness`, `ReservedStay` and the
two refinements follow: `ImplementsLedger` needs, for the distance of a creation,
that a key with live tasks has a most recent one (`NoneReplayed`), since the
repository compares the age of that one only. `NoRow` must not be a row.

**ListingProofs.** Neither bound on a reading is inductive: they say what has gone
wrong, and the next page may go wrong because of a change long ago. `IInv` keeps an
account of the whole list instead. A reading has come to a `Position`, the rows
before its next page, and `top` is the set of the first rows of the list as it is
*now*, as many as that (`Prefix`). `Accounted` says that what was shown again, plus
the shown rows that have slid behind `top` and would be shown again, are no more
than the rows that entered; and that the rows of `top` that were there all the time
and never shown are no more than the rows that left. Then

- a page, which is the stretch of the sorted list behind `top`, moves rows from one
  column to the other and costs nothing (`FetchAccounted`; the sequences that LIMIT
  and OFFSET cut are turned into sets once, in `SliceIs` and `SortedPrefix`);
- a row that enters pushes at most one row out of `top`, a row that leaves pulls at
  most one in (`EnterPrefix`, `LeavePrefix`), and each is charged for that one. Here
  the order must be total on the rows of the list (`OrderLinear`), which the second
  key makes it, and a row's `created_at` must never change (`Change`);
- a page that is fetched may be shown or lost with a failure of the count, so the
  reading is accounted for both with and without it while the count is under way;
- at the end `top` is the whole list, and the account is `WalksMissFew`. The total
  that ends the reading is of the state in which the page is shown, although the
  page is of an earlier one.

The account holds for as long as the offset of the page asked for fits into an `int32`
(`Fits`), so that what was shown is never a page that wrapped: if it fits, so did those
of all pages before it (`ContinueStep`), and a reading that goes beyond promises
nothing any more. `PositionSmall` says that no reading goes beyond the rows there can
be, which keeps the page numbers a client counts up integers. `MissesFew`, `RepeatsFew`,
`EmptyPastTheEnd` and `TypeCorrectness` follow, for a table, page size, filter and
number of changes of any size, and `QuietReading`: if nothing entered or left, and the
offsets fit, every row was shown and none twice. Inserts, edits and deletions are one lemma, `ChangeStep`:
all the argument needs to know of them is that one row changes and keeps its time.

**Only model-checked.** `EveryCallAnswered`: liveness is beyond the prover. The
findings, being violations. Every other property of a passing run is a theorem.

## Where documentation and code disagree

Each is a run that must find a violation:

- `stale_update`: README.md:85 has PATCH "Update title/description/status". The
  code also writes the assignee it read before, so a change of title undoes an
  assignment that commits in between, with no row in `task_logs`.
- `invalid_status`: `http-client/task.http:123` expects 400 for an invalid
  status; the CHECK constraint refuses it and the answer is 500.
- `long_email`: README.md:98 maps address validation to 400; an address of 151
  to 254 bytes is accepted by the validation, refused by `VARCHAR(150)`, and
  answered 500.
- `own_profile`: README.md:74 lists 200 and 401 for `GET /users/me`; the token of
  a deleted account still authenticates, and the answer is 404.

- `double_status`: README.md:5-6 says that swapping a part such as the repository
  "should not change what the application *does*". The tests' repository stores a
  task with any status, the table only five: the same request is answered 201 or
  200 by the application under test, and 500 by the service.

## What is not modelled

The text of keys, addresses, titles and labels: a UUID spelt in two ways is two
keys, as it is to the code. bcrypt; signatures of tokens (nobody has a token that
was not issued). Bodies of replies, logging, panics (a recovered panic is `Fail`).
`updated_at`: it is written with the row and never read. The sequence of numbers
PostgreSQL draws for ids, beyond that they are new. The list of roles and the log
of the tests' repository: copies of what is stored. The lists of the tests'
repositories: one step under the mutex, with no total of another state, and a
slice expression that panics on the negative offset `Listing` is about
(`inmemory_task_repository.go:87`).

Components left out, each for a reason of its own:

- the migration tool, a wrapper of a library;
- start-up and configuration: values parsed once, before anything runs
  concurrently; what they bound (`PoolSize`, `TTL`) is a constant here;
- shutdown: `main.go` registers two hooks and a limit of ten seconds, and Fiber,
  outside this repository, decides what they mean. What reaches the service is a
  request cut off at some statement, which `Fail` and `LoseCommit` are, at every
  one of them; the safety properties of `TaskService` and `Accounts` hold then too;
- loggers, which only write.

## Plan

Done: `TaskService` with its runs and theorems; `TaskLedger`, `Accounts`,
`AccountLife`, the refinements and their proofs; `Access` with its run, invariant
and theorems; `Listing`, likewise; `MemoryTasks`, `MemoryAccounts` and `TestApp` against the
ledger and the life cycle, with the proofs of both refinements.

What is left:

1. A client that repeats a create until it is answered, composed with
   `TaskService`: it ends with exactly one live task if the window is longer than
   its patience.
2. Theorems of `TaskLedger` itself, with typed rows, so that what follows from it
   (keys apart, assignees logged, deletions final) is proved once for everything
   that implements it.
