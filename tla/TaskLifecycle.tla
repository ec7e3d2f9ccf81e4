--------------------------- MODULE TaskLifecycle ---------------------------
(***************************************************************************)
(* A run of a skill, from SkillExecutor.execute (kernel/skill_executor.py) *)
(* through the write-ahead log (wal/log.py), the task manager              *)
(* (kernel/task_manager.py) and the sandbox (skills/sandbox.py) or the MCP *)
(* executor, with the kills of the user (orchestrator.kill_task) and       *)
(* restarts.                                                               *)
(*                                                                         *)
(* A run has at most one log entry and one task, so its id stands for      *)
(* both.  The dictionaries of active tasks and of their futures always     *)
(* have the same keys: active is both.  Python is 3.12 or later, as the    *)
(* README asks: asyncio.wait_for runs a coroutine in the calling task, so  *)
(* the task the sandbox registers for a skill is the handler's own.        *)
(***************************************************************************)
EXTENDS Naturals, FiniteSets

CONSTANTS Runs,          \* the runs of skills
          Kind,          \* Kind[r]: what executes the skill
          Hooked,        \* runs a before-hook may refuse
          MaxConcurrent, \* max_concurrent_tasks
          MaxRestarts    \* bound on server restarts

Kinds == {"inprocess", "cold", "pooled", "mcp"}

ASSUME TaskAssumption == /\ Kind \in [Runs -> Kinds]
                         /\ Hooked \subseteq Runs
                         /\ IsFiniteSet(Runs)
                         /\ MaxConcurrent \in Nat
                         /\ MaxRestarts \in Nat

VARIABLES
  stage,    \* where the handler of a run stands
  wal,      \* the log entry of the run (durable)
  row,      \* the status column of its tasks row (durable)
  active,   \* the keys of _active_tasks and _task_futures
  status,   \* the status field of the task object
  killer,   \* the user's kill_task of the run
  report,   \* history: what the run told the user
  restarts

taskVars == <<stage, wal, row, active, status, killer, report, restarts>>

Settled == {"completed", "failed", "killed"}
Statuses == Settled \cup {"none", "pending", "blocked"}
Final == {"ended", "cancelled", "refused", "crashed"}
Stages == Final \cup {"idle", "logged", "inserting", "started", "running", "reporting",
                      "failing", "executed", "awaiting", "finishing"}

TaskTypeOK ==
  /\ stage \in [Runs -> Stages]
  /\ wal \in [Runs -> {"none", "uncommitted", "committed"}]
  /\ row \in [Runs -> Statuses]
  /\ active \in SUBSET Runs
  /\ status \in [Runs -> Statuses]
  /\ killer \in [Runs -> {"none", "updating", "done"}]
  /\ report \in [Runs -> {"none", "response", "failed", "blocked"}]
  /\ restarts \in 0..MaxRestarts

Init ==
  /\ stage = [r \in Runs |-> "idle"]
  /\ wal = [r \in Runs |-> "none"]
  /\ row = [r \in Runs |-> "none"]
  /\ active = {}
  /\ status = [r \in Runs |-> "none"]
  /\ killer = [r \in Runs |-> "none"]
  /\ report = [r \in Runs |-> "none"]
  /\ restarts = 0

Go(r, s) == stage' = [stage EXCEPT ![r] = s]
Tell(r, what) == report' = [report EXCEPT ![r] = what]

-----------------------------------------------------------------------------
(* update_status, in two stretches: the task object and the UPDATE; then,  *)
(* for a final status, the future is resolved and the task dropped.  Of a  *)
(* task that is not active nothing is updated.                             *)

\* Mutant: a task already dropped is updated as well.
SetStatusAlways(r, s) ==
  /\ status' = [status EXCEPT ![r] = s]
  /\ row' = [row EXCEPT ![r] = s]

SetStatus(r, s) ==
  IF r \in active
  THEN /\ status' = [status EXCEPT ![r] = s]
       /\ row' = [row EXCEPT ![r] = s]
  ELSE UNCHANGED <<status, row>>

Drop(r) == active' = active \ {r}

-----------------------------------------------------------------------------
(* The handler, up to the launch of the skill.                             *)

\* The log entry is written.
Start(r) ==
  /\ stage[r] = "idle"
  /\ Go(r, "logged")
  /\ wal' = [wal EXCEPT ![r] = "uncommitted"]
  /\ UNCHANGED <<row, active, status, killer, report, restarts>>

\* spawn: the limit is checked and the row inserted ...
Spawn(r) ==
  /\ stage[r] = "logged"
  /\ Cardinality(active) < MaxConcurrent
  /\ Go(r, "inserting")
  /\ row' = [row EXCEPT ![r] = "pending"]
  /\ UNCHANGED <<wal, active, status, killer, report, restarts>>

\* ... or the run ends in a RuntimeError, its log entry still uncommitted.
Refuse(r) ==
  /\ stage[r] = "logged"
  /\ Cardinality(active) >= MaxConcurrent
  /\ Go(r, "refused")
  /\ Tell(r, "failed")
  /\ UNCHANGED <<wal, row, active, status, killer, restarts>>

\* Only after the INSERT is the task active; then the log entry is committed.
Register(r) ==
  /\ stage[r] = "inserting"
  /\ Go(r, "started")
  /\ active' = active \cup {r}
  /\ status' = [status EXCEPT ![r] = "pending"]
  /\ wal' = [wal EXCEPT ![r] = "committed"]
  /\ UNCHANGED <<row, killer, report, restarts>>

\* A before-hook refuses: "blocked" is no final status, the task stays active.
Block(r) ==
  /\ stage[r] = "started"
  /\ r \in Hooked
  /\ SetStatus(r, "blocked")
  /\ Go(r, "ended")
  /\ Tell(r, "blocked")
  /\ UNCHANGED <<wal, active, killer, restarts>>

Launch(r) ==
  /\ stage[r] = "started"
  /\ Go(r, "running")
  /\ UNCHANGED <<wal, row, active, status, killer, report, restarts>>

\* The sandbox raises before the skill runs: execute() marks the task failed.
LaunchFails(r) ==
  /\ stage[r] = "started"
  /\ Kind[r] # "mcp"
  /\ SetStatus(r, "failed")
  /\ IF r \in active THEN Go(r, "finishing") /\ UNCHANGED report
                     ELSE Go(r, "ended") /\ Tell(r, "failed")
  /\ UNCHANGED <<wal, active, killer, restarts>>

-----------------------------------------------------------------------------
(* The skill runs: in this process, in a child process, or as an MCP call. *)

\* A result is reported by the in-process runner and by the MCP executor, which
\* also reports its failures; after that execute() awaits the task.
SkillReports(r) ==
  /\ stage[r] = "running"
  /\ \/ Kind[r] \in {"inprocess", "mcp"} /\ SetStatus(r, "completed")
     \/ Kind[r] = "mcp" /\ SetStatus(r, "failed")
  /\ Go(r, IF r \in active THEN "reporting" ELSE "executed")
  /\ UNCHANGED <<wal, active, killer, report, restarts>>

ReportEnd(r) ==
  /\ stage[r] = "reporting"
  /\ Drop(r)
  /\ Go(r, "executed")
  /\ UNCHANGED <<wal, row, status, killer, report, restarts>>

\* A skill that returns None, and any skill in a child process, reports nothing.
SkillEndsSilently(r) ==
  /\ stage[r] = "running"
  /\ Kind[r] # "mcp"
  /\ Go(r, "executed")
  /\ UNCHANGED <<wal, row, active, status, killer, report, restarts>>

\* An in-process skill raises: failed is reported and the exception goes on to
\* execute(), whose own update finds the task dropped.
SkillRaises(r) ==
  /\ stage[r] = "running"
  /\ Kind[r] = "inprocess"
  /\ SetStatus(r, "failed")
  /\ IF r \in active THEN Go(r, "failing") /\ UNCHANGED report
                     ELSE Go(r, "ended") /\ Tell(r, "failed")
  /\ UNCHANGED <<wal, active, killer, restarts>>

FailEnd(r) ==
  /\ stage[r] = "failing"
  /\ Drop(r)
  /\ Go(r, "ended")
  /\ Tell(r, "failed")
  /\ UNCHANGED <<wal, row, status, killer, restarts>>

InSandbox(r) == Kind[r] # "mcp" /\ stage[r] \in {"running", "reporting", "failing"}

\* What sandbox.kill cancels for a skill without a pooled process is the handler.
Cancels(r) == InSandbox(r) /\ Kind[r] \in {"inprocess", "cold"}

\* The sandbox's wait_for expires and kill() runs, then execute() handles the
\* TimeoutError by killing the task.  A handler that has cancelled itself gets no
\* further than the UPDATE (which the next commit of anyone writes); with the task
\* already dropped there is no UPDATE and the failure is still told.
SandboxTimeout(r) ==
  /\ InSandbox(r)
  /\ SetStatus(r, "killed")
  /\ IF r \in active
     THEN Go(r, IF Cancels(r) THEN "cancelled" ELSE "finishing") /\ UNCHANGED report
     ELSE Go(r, IF Cancels(r) THEN "cancelled" ELSE "ended") /\ Tell(r, "failed")
  /\ UNCHANGED <<wal, active, killer, restarts>>

-----------------------------------------------------------------------------
(* await_task and the end of execute().                                    *)

\* Mutant: the status of the task is passed on as it is.
VerdictAsIs(s) == s

Verdict(s) == IF s = "completed" THEN "response" ELSE "failed"

\* With no future left await_task reads the row.
AwaitBegin(r) ==
  /\ stage[r] = "executed"
  /\ IF r \in active THEN Go(r, "awaiting") /\ UNCHANGED report
                     ELSE Go(r, "ended") /\ Tell(r, Verdict(row[r]))
  /\ UNCHANGED <<wal, row, active, status, killer, restarts>>

\* The future is resolved: the handler looks at the task object.
Wake(r) ==
  /\ stage[r] = "awaiting"
  /\ r \notin active
  /\ Go(r, "ended")
  /\ Tell(r, Verdict(status[r]))
  /\ UNCHANGED <<wal, row, active, status, killer, restarts>>

\* Mutant: await_task waits for the future without a time-out.
AwaitTimeoutNever(r) == r \notin Runs /\ UNCHANGED taskVars

\* Mutant: the time-out is told, but the task not killed.
AwaitTimeoutKeepsTask(r) ==
  /\ stage[r] = "awaiting"
  /\ Go(r, "ended")
  /\ Tell(r, "failed")
  /\ UNCHANGED <<wal, row, active, status, killer, restarts>>

\* The wait expires, possibly just after the future was resolved.
AwaitTimeout(r) ==
  /\ stage[r] = "awaiting"
  /\ SetStatus(r, "killed")
  /\ IF r \in active THEN Go(r, "finishing") /\ UNCHANGED report
                     ELSE Go(r, "ended") /\ Tell(r, "failed")
  /\ UNCHANGED <<wal, active, killer, restarts>>

FinishEnd(r) ==
  /\ stage[r] = "finishing"
  /\ Drop(r)
  /\ Go(r, "ended")
  /\ Tell(r, "failed")
  /\ UNCHANGED <<wal, row, status, killer, restarts>>

-----------------------------------------------------------------------------
(* kill_task: the task manager first, then the sandbox.                    *)

\* The user has seen task_started.
Visible(r) == stage[r] \notin {"idle", "logged", "inserting", "refused", "crashed"}

SandboxKill(r) ==
  stage' = IF Cancels(r) THEN [stage EXCEPT ![r] = "cancelled"] ELSE stage

KillBegin(r) ==
  /\ Visible(r)
  /\ killer[r] = "none"
  /\ SetStatus(r, "killed")
  /\ IF r \in active
     THEN killer' = [killer EXCEPT ![r] = "updating"] /\ UNCHANGED stage
     ELSE killer' = [killer EXCEPT ![r] = "done"] /\ SandboxKill(r)
  /\ UNCHANGED <<wal, active, report, restarts>>

KillEnd(r) ==
  /\ killer[r] = "updating"
  /\ killer' = [killer EXCEPT ![r] = "done"]
  /\ Drop(r)
  /\ SandboxKill(r)
  /\ UNCHANGED <<wal, row, status, report, restarts>>

-----------------------------------------------------------------------------
\* A crash and the next start: rows and log stay; the recovery commits every
\* uncommitted entry and runs nothing again.
Restart ==
  /\ restarts < MaxRestarts
  /\ restarts' = restarts + 1
  /\ stage' = [r \in Runs |-> IF stage[r] \in Final \cup {"idle"} THEN stage[r] ELSE "crashed"]
  /\ wal' = [r \in Runs |-> IF wal[r] = "uncommitted" THEN "committed" ELSE wal[r]]
  /\ active' = {}
  /\ killer' = [r \in Runs |-> IF killer[r] = "updating" THEN "done" ELSE killer[r]]
  /\ UNCHANGED <<row, status, report>>

Handler(r) ==
  \/ Spawn(r) \/ Refuse(r) \/ Register(r) \/ Block(r) \/ Launch(r) \/ LaunchFails(r)
  \/ SkillReports(r) \/ ReportEnd(r) \/ SkillEndsSilently(r) \/ SkillRaises(r) \/ FailEnd(r)
  \/ SandboxTimeout(r) \/ AwaitBegin(r) \/ Wake(r) \/ AwaitTimeout(r) \/ FinishEnd(r)

\* Everything has run its course: nothing happens any more.
Quiet ==
  /\ \A r \in Runs : stage[r] \in Final /\ killer[r] # "updating"
  /\ UNCHANGED taskVars

Next ==
  \/ \E r \in Runs : Start(r) \/ Handler(r) \/ KillBegin(r) \/ KillEnd(r)
  \/ Restart
  \/ Quiet

Spec == Init /\ [][Next]_taskVars

\* The event loop resumes handlers and fires their time-outs; an MCP call has no
\* time-out, so nothing is assumed of it, nor of users, nor of restarts.
Fairness == /\ \A r \in Runs : Kind[r] # "mcp" => WF_taskVars(Handler(r))
            /\ \A r \in Runs : WF_taskVars(KillEnd(r))

FairSpec == Spec /\ Fairness
-----------------------------------------------------------------------------
(* Properties.                                                             *)

\* A closed task keeps its status for ever and only a completed one is answered,
\* however the handler's updates, its time-outs and a kill overlap: the promise of
\* TaskOutcome.  A task is open from its INSERT until it is dropped.
Outcome ==
  INSTANCE TaskOutcome WITH
    Tasks <- Runs, Verdicts <- Settled \cup {"pending", "blocked"},
    Completed <- "completed", Reports <- {"response", "failed", "blocked"},
    Delivered <- "response", told <- report,
    verdict <- [r \in Runs |-> IF row[r] = "none" THEN "none"
                               ELSE IF r \in active \/ stage[r] = "inserting" THEN "open"
                               ELSE row[r]]

OutcomeSpec == Outcome!OutcomeSpec

\* A slot of the concurrency limit is held by a run that still works or by a kill
\* under way; it is lost in exactly two ways, a hook that blocks the run and a
\* sandbox time-out in which the handler cancels itself.
Working == Stages \ (Final \cup {"idle", "logged", "inserting"})
SlotHolders ==
  \A r \in active : \/ stage[r] \in Working
                    \/ killer[r] = "updating"
                    \/ stage[r] = "ended" /\ status[r] = "blocked"
                    \/ stage[r] = "cancelled" /\ status[r] = "killed"

\* A run that is not an MCP call ends, even if the skill hangs, returns nothing or
\* its process dies: the time-outs of the sandbox and of await_task see to it.
EveryRunEnds ==
  \A r \in Runs : Kind[r] # "mcp" => (stage[r] = "started" ~> stage[r] \in Final)

\* tests/test_skill_executor.py:424 says a sandbox time-out yields task_failed: a
\* handler ends without telling the user anything only when the user killed it.
TimeoutIsReported ==
  \A r \in Runs : stage[r] = "cancelled" /\ report[r] = "none" => killer[r] # "none"
=============================================================================
