-------------------------- MODULE TestAppInvariant ---------------------------
(***************************************************************************)
(* The inductive invariant of TestApp: what a request read before its last *)
(* call to a repository, and what of it still holds then.                  *)
(***************************************************************************)
EXTENDS TestApp

IsJob(j) ==
  j = [call |-> j.call, id |-> j.id, row |-> j.row] /\ j.call \in Call /\ j.id \in Ids

(* Every map holds what its name says; ids are taken from the calls.       *)
Shapes ==
  /\ now \in 0..MaxTime /\ issued \in 0..MaxCalls
  /\ \A id \in DOMAIN tasks : id <= issued /\ id \in Ids
                              /\ tasks[id] \in Task /\ tasks[id].created <= MaxTime
  /\ deleted \subseteq DOMAIN tasks
  /\ logs \in Seq(Log) /\ assignees \in Seq(Ids \cup {Nil}) /\ Len(assignees) = Len(logs)
  /\ pc \in [Procs -> {"idle", "read", "verify", "lookup", "check", "resolve", "write"}]
  /\ DOMAIN job = Procs

(* Users get new ids, which no update that comes too late brings back.     *)
UserIdsFresh ==
  /\ nextID \in Nat \ {0}
  /\ \A id \in DOMAIN byID : id \in Nat \ {0} /\ id < nextID

(* The logs are of the past, and tell of every assignee a task has had.    *)
LoggedFor(id, user) ==
  user = Nil \/ \E i \in 1..Len(logs) : logs[i].task = id /\ assignees[i] = user
TasksLogged ==
  /\ \A i \in 1..Len(logs) : logs[i].at <= now
  /\ \A id \in DOMAIN tasks : LoggedFor(id, tasks[id].user)

(* Only accounts are looked up by email.  A create has an id of its own,   *)
(* which is no task's yet; what an update is about to write back is the    *)
(* task with an assignee that it has had.                                  *)
Writing(p, op) == pc[p] = "write" /\ job[p].call.op = op
RequestsKnow ==
  /\ \A p \in Procs : pc[p] # "idle" => IsJob(job[p]) /\ job[p].id <= issued
  /\ \A p, q \in Procs : p # q /\ pc[p] # "idle" /\ pc[q] # "idle" => job[p].id # job[q].id
  /\ \A p \in Procs : pc[p] \in {"lookup", "check"} => job[p].call.op \in {"register", "profile"}
  /\ \A p \in Procs : Writing(p, "create") => job[p].id \notin DOMAIN tasks
  /\ \A p \in Procs : Writing(p, "update") =>
       /\ job[p].call.id \in DOMAIN tasks
       /\ job[p].row \in Task
       /\ job[p].row.key = tasks[job[p].call.id].key
       /\ LoggedFor(job[p].call.id, job[p].row.user)

Core == Shapes /\ UserIdsFresh /\ IndexExact /\ TasksLogged /\ RequestsKnow

(* What a request found out about users and roles before it writes.        *)
WasUser(id) == id \in 1..nextID - 1
KnowsUsers(p) ==
  /\ pc[p] = "check" \/ Writing(p, "register") \/ Writing(p, "profile") => job[p].row \in User
  /\ pc[p] = "verify" /\ job[p].call.op = "grant" => job[p].call.label \in Labels
  /\ Writing(p, "grant") => WasUser(job[p].call.id) /\ job[p].call.label \in Labels
  /\ Writing(p, "assign") => WasUser(job[p].call.user) \/ job[p].call.user = Nil
  /\ Writing(p, "update") => WasUser(job[p].row.user) \/ job[p].row.user = Nil

IInv == Core /\ TypeOK /\ \A p \in Procs : KnowsUsers(p)
==============================================================================
