--------------------------- MODULE PermissionGate ---------------------------
(***************************************************************************)
(* What a user message goes through: the permission pre-check of the       *)
(* dispatcher (kernel/skill_dispatcher.py), the requests it raises, the    *)
(* approvals and denials of the gate (kernel/permission_gate.py) and the   *)
(* permissions the skill is finally run with (kernel/skill_executor.py),   *)
(* composed with the permission manager.  A caller is a message.           *)
(*                                                                         *)
(* A message for one skill (handle_delegated) checks its permissions       *)
(* concurrently and raises and registers all its requests in one stretch.  *)
(* A compound message (handle_multi_delegated) checks one permission after *)
(* the other, raises a request as soon as one is denied, and registers     *)
(* them all only after the last check: answers can arrive in between.      *)
(***************************************************************************)
EXTENDS PermissionManager

CONSTANTS Multi,        \* the compound messages
          AutoApproved, \* single messages for an MCP tool its server auto-approves
          Needs         \* Needs[m]: the permissions in the manifests of m's skills

ASSUME GateAssumption == /\ Multi \subseteq Callers
                         /\ AutoApproved \subseteq Callers \ Multi
                         /\ Needs \in [Callers -> SUBSET Perms]

VARIABLES
  stage,      \* where the handler of a message stands
  asked,      \* the request ids of the message's current round
  held,       \* the keys of pending_permission_tasks
  approving,  \* the requests whose approve() awaits the INSERT of the grant
  granted,    \* granted_perms: what the skill is run with
  rounds,     \* history: rounds of requests registered
  resumes     \* history: times the message was resumed

gateVars == <<stage, asked, held, approving, granted, rounds, resumes>>
vars == <<managerVars, gateVars>>

Stages == {"idle", "check", "waiting", "exec", "done", "denied", "lost"}

GateTypeOK ==
  /\ stage \in [Callers -> Stages]
  /\ asked \in [Callers -> SUBSET Reqs]
  /\ held \in SUBSET Reqs
  /\ approving \in SUBSET Reqs
  /\ granted \in [Callers -> SUBSET Perms]
  /\ rounds \in [Callers -> Nat]
  /\ resumes \in [Callers -> Nat]

TypeOK == ManagerTypeOK /\ GateTypeOK

Init ==
  /\ ManagerInit
  /\ stage = [m \in Callers |-> "idle"]
  /\ asked = [m \in Callers |-> {}]
  /\ held = {}
  /\ approving = {}
  /\ granted = [m \in Callers |-> {}]
  /\ rounds = [m \in Callers |-> 0]
  /\ resumes = [m \in Callers |-> 0]

Owner(r) == reqs[r].owner
NoCalls == [p \in Perms |-> IdleCall]

\* The checks of the current pass: those still running, those that have all
\* answered, and those denied with no request raised for them yet.
Busy(m) == \E p \in Perms : calls[m][p].st \in {"called", "found"}
Settled(m) == \A p \in Needs[m] : calls[m][p].st \in {"allowed", "denied"}
Unasked(m) == {p \in Needs[m] : /\ calls[m][p].st = "denied"
                                /\ \A r \in asked[m] : reqs[r].perm # p}

-----------------------------------------------------------------------------
(* The dispatcher.                                                         *)

\* A message arrives; every message runs after ensure_session.
Receive(m) ==
  /\ stage[m] = "idle"
  /\ session # NoSession
  /\ stage' = [stage EXCEPT ![m] = IF m \in AutoApproved THEN "exec" ELSE "check"]
  /\ UNCHANGED <<managerVars, asked, held, approving, granted, rounds, resumes>>

\* The pre-check of a single message gathers its checks; a compound message and
\* execute() await one before they start the next.
BeginCheck(m, p) ==
  /\ stage[m] \in {"check", "exec"}
  /\ p \in Needs[m]
  /\ \/ stage[m] = "check" /\ m \notin Multi
     \/ ~Busy(m) /\ (stage[m] = "check" => Unasked(m) = {})
  /\ CheckBegin(m, p)
  /\ UNCHANGED gateVars

RunCheck(m, p) ==
  /\ CheckFind(m, p) \/ CheckDecide(m, p)
  /\ UNCHANGED gateVars

\* A compound message raises the request of a denied permission (and yields it to
\* the client) while other permissions are still to be checked.
MultiRequest(m, p) ==
  /\ stage[m] = "check"
  /\ m \in Multi
  /\ ~Settled(m)
  /\ p \in Unasked(m)
  /\ \E r \in Reqs : /\ RequestPermission(r, p, m)
                     /\ asked' = [asked EXCEPT ![m] = @ \cup {r}]
  /\ UNCHANGED <<stage, held, approving, granted, rounds, resumes>>

\* All checks have answered: the requests not raised yet are raised, one for each
\* permission, and all of the round are registered; with none, the skill runs.
AskOrGo(m) ==
  /\ stage[m] = "check"
  /\ Settled(m)
  /\ \E new \in [Unasked(m) -> {r \in Reqs : reqs[r].st = "unused"}] :
       LET ids == asked[m] \cup {new[p] : p \in Unasked(m)}
       IN  /\ \A p, q \in Unasked(m) : new[p] = new[q] => p = q
           /\ reqs' = [r \in Reqs |->
                         IF \E p \in Unasked(m) : new[p] = r
                         THEN [st |-> "pending", owner |-> m,
                               perm |-> CHOOSE p \in Unasked(m) : new[p] = r]
                         ELSE reqs[r]]
           /\ asked' = [asked EXCEPT ![m] = ids]
           /\ held' = held \cup ids
           /\ stage' = [stage EXCEPT ![m] = IF ids = {} THEN "exec" ELSE "waiting"]
           /\ rounds' = IF ids = {} THEN rounds ELSE [rounds EXCEPT ![m] = @ + 1]
  /\ calls' = [calls EXCEPT ![m] = NoCalls]
  /\ UNCHANGED <<grants, session, active, switching, restarts, uses, regranted,
                 approving, granted, resumes>>

\* execute() has checked every permission again: it runs the skill with those it
\* was allowed, whether or not these are all.
Execute(m) ==
  /\ stage[m] = "exec"
  /\ Settled(m)
  /\ stage' = [stage EXCEPT ![m] = "done"]
  /\ granted' = [granted EXCEPT ![m] = {p \in Needs[m] : calls[m][p].st = "allowed"}]
  /\ calls' = [calls EXCEPT ![m] = NoCalls]
  /\ UNCHANGED <<grants, reqs, session, active, switching, restarts, uses, regranted,
                 asked, held, approving, rounds, resumes>>

-----------------------------------------------------------------------------
(* The gate.                                                               *)

\* approve() up to the INSERT of the grant; the user picks the mode.
Approve(r) ==
  /\ \E mode \in ClientModes : ApproveRequest(r, mode)
  /\ approving' = approving \cup {r}
  /\ UNCHANGED <<stage, asked, held, granted, rounds, resumes>>

\* Mutant: the entry is popped only when nothing of the round remains.
ApproveOnlyKeepsEntry(r) ==
  /\ r \in approving
  /\ r \notin held \/ asked[Owner(r)] \cap (held \ {r}) # {}
  /\ approving' = approving \ {r}
  /\ UNCHANGED <<managerVars, stage, asked, held, granted, rounds, resumes>>

\* ... and from there on, when nothing is registered under r, or others of its
\* round are: the message goes on waiting.
ApproveOnly(r) ==
  /\ r \in approving
  /\ r \notin held \/ asked[Owner(r)] \cap (held \ {r}) # {}
  /\ approving' = approving \ {r}
  /\ held' = held \ {r}
  /\ UNCHANGED <<managerVars, stage, asked, granted, rounds, resumes>>

\* Mutant: what remains is read off the manager's open requests.
ApproveAndResumeByOpenRequests(r) ==
  LET m == Owner(r)
  IN  /\ r \in approving
      /\ r \in held
      /\ \A other \in asked[m] : reqs[other].st # "pending"
      /\ approving' = approving \ {r}
      /\ held' = held \ {r}
      /\ stage' = [stage EXCEPT ![m] = IF m \in Multi THEN "check" ELSE "exec"]
      /\ asked' = [asked EXCEPT ![m] = {}]
      /\ resumes' = [resumes EXCEPT ![m] = @ + 1]
      /\ UNCHANGED <<managerVars, granted, rounds>>

\* ... or when r was the last one registered: the message is resumed, a compound
\* one from the start of its pre-check, a single one in execute().
ApproveAndResume(r) ==
  LET m == Owner(r)
  IN  /\ r \in approving
      /\ r \in held
      /\ asked[m] \cap (held \ {r}) = {}
      /\ approving' = approving \ {r}
      /\ held' = held \ {r}
      /\ stage' = [stage EXCEPT ![m] = IF m \in Multi THEN "check" ELSE "exec"]
      /\ asked' = [asked EXCEPT ![m] = {}]
      /\ resumes' = [resumes EXCEPT ![m] = @ + 1]
      /\ UNCHANGED <<managerVars, granted, rounds>>

\* Mutant: the siblings of the denied request stay registered.
DenyOne(r) ==
  /\ DenyRequest(r)
  /\ held' = held \ {r}
  /\ stage' = IF r \in held THEN [stage EXCEPT ![Owner(r)] = "denied"] ELSE stage
  /\ UNCHANGED <<asked, approving, granted, rounds, resumes>>

\* deny(): the message is dropped and every request of its round unregistered; the
\* manager only forgets the one denied.
Deny(r) ==
  /\ DenyRequest(r)
  /\ IF r \in held
     THEN /\ held' = held \ asked[Owner(r)]
          /\ stage' = [stage EXCEPT ![Owner(r)] = "denied"]
     ELSE UNCHANGED <<held, stage>>
  /\ UNCHANGED <<asked, approving, granted, rounds, resumes>>

-----------------------------------------------------------------------------
\* Revocations and session switches leave the gate alone, pending tasks included.
Environment ==
  /\ \/ \E P \in SUBSET Perms : RevokePermissions(P)
     \/ \E c \in Conns : \/ SwitchEnd(c) \/ SwitchFail(c)
                         \/ \E s \in Sessions : SwitchBegin(c, s)
     \/ DeleteSession
  /\ UNCHANGED gateVars

\* Handlers and pending tasks live in memory.
GateRestart ==
  /\ Restart
  /\ stage' = [m \in Callers |-> IF stage[m] \in {"check", "waiting", "exec"}
                                 THEN "lost" ELSE stage[m]]
  /\ asked' = [m \in Callers |-> {}]
  /\ held' = {}
  /\ approving' = {}
  /\ UNCHANGED <<granted, rounds, resumes>>

Next ==
  \/ \E m \in Callers :
       \/ Receive(m)
       \/ \E p \in Perms : BeginCheck(m, p) \/ RunCheck(m, p) \/ MultiRequest(m, p)
       \/ AskOrGo(m)
       \/ Execute(m)
  \/ \E r \in Reqs : Approve(r) \/ ApproveOnly(r) \/ ApproveAndResume(r) \/ Deny(r)
  \/ Environment
  \/ GateRestart

Spec == Init /\ [][Next]_vars

\* The event loop resumes every suspended handler; nothing is assumed of the user,
\* of connections, or of the server's restarts.
Fairness ==
  /\ \A m \in Callers : /\ WF_vars(AskOrGo(m))
                        /\ WF_vars(Execute(m))
                        /\ \A p \in Perms : /\ WF_vars(BeginCheck(m, p))
                                            /\ WF_vars(RunCheck(m, p))
                                            /\ WF_vars(MultiRequest(m, p))
  /\ \A r \in Reqs : WF_vars(ApproveOnly(r)) /\ WF_vars(ApproveAndResume(r))

FairSpec == Spec /\ Fairness
-----------------------------------------------------------------------------
(* Properties.                                                             *)

\* A message is resumed only when the user has approved every request of its round
\* and denied none, however approvals and denials of siblings interleave
\* (permission_gate.py, approve and deny).
ResumeNeedsEveryApproval ==
  [][\A m \in Callers : resumes'[m] # resumes[m]
        => \A r \in asked[m] : reqs[r].st = "approved"]_vars

\* Each round of requests resumes its message at most once, so an approved message
\* is never executed twice: approvals of siblings that overlap do not both find
\* themselves to be the last one.
AtMostOneResumePerRound == \A m \in Callers : resumes[m] <= rounds[m]

\* A waiting message for one skill waits for an answer that can still come: some
\* request of its round is open, or its approval is being processed, so no prompt
\* that the gate shows again on reconnect is dead.
WaitingCanBeAnswered ==
  \A m \in Callers \ Multi : stage[m] = "waiting"
    => \E r \in asked[m] : reqs[r].st = "pending" \/ r \in approving

\* permission_gate.py:31 says approving resumes the pending task if all permissions
\* are granted: no message is left waiting once all its requests are approved.
AllApprovedIsResumed ==
  \A m \in Callers : stage[m] = "waiting"
    => \E r \in asked[m] : reqs[r].st # "approved" \/ r \in approving

\* A single message whose requests have all been approved is eventually executed,
\* unless the server restarts.
ApprovedMessageRuns ==
  \A m \in Callers :
    (stage[m] = "waiting" /\ \A r \in asked[m] : reqs[r].st = "approved")
      ~> stage[m] \in {"done", "lost"}
=============================================================================
