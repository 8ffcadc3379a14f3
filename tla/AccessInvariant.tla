--------------------------- MODULE AccessInvariant ----------------------------
(***************************************************************************)
(* The inductive invariant of Access: what was true when a login read it   *)
(* was true not before the login began, and has not been unlearnt.         *)
(***************************************************************************)
EXTENDS Access

(* The account is there, or was not deleted before that time.              *)
ActiveAfter(u, time) ==
  \/ accounts[u].state = "active"
  \/ accounts[u].state = "deleted" /\ accounts[u].closed >= time

AdminAfter(u, time) == HeldAdmin(u) >= time

(* No time stamp is of the future.                                         *)
TimesPast ==
  /\ \A u \in Users : lost[u] <= now
  /\ \A token \in tokens : token.began <= token.issued /\ token.issued <= now
  /\ \A p \in Procs : pc[p] # "idle" => job[p].at <= now

(* A token tells the truth about some time since its login began.          *)
TokensTrue ==
  \A token \in tokens :
    /\ ActiveAfter(token.user, token.began)
    /\ Admin \in token.roles => AdminAfter(token.user, token.began)

(* What a request has learnt so far, at each of its labels, and that the   *)
(* token it brought had not expired.                                       *)
RequestsKnow ==
  \A p \in Procs :
    /\ pc[p] \in Labels \ {"idle", "profile"} => job[p].call.user \in Users
    /\ pc[p] \in {"roles", "issue", "write"} => ActiveAfter(job[p].call.user, job[p].at)
    /\ pc[p] = "issue" /\ Admin \in job[p].roles => AdminAfter(job[p].call.user, job[p].at)
    /\ pc[p] \in {"verify", "write"} => job[p].call.label \in ActiveRoles
    /\ pc[p] \in {"profile", "resolve", "verify", "write"} =>
         job[p].at < job[p].token.issued + TTL

(* The conjunction that every step preserves, from which it follows how    *)
(* long a token can be wrong and whom a role is given to.                  *)
IInv == TypeOK /\ TimesPast /\ TokensTrue /\ RequestsKnow
===============================================================================
