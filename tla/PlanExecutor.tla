---------------------------- MODULE PlanExecutor ----------------------------
(***************************************************************************)
(* Multi-step work: the goal handler and the resumption of paused plans    *)
(* (kernel/plan_executor.py), with iteration groups (kernel/iteration.py), *)
(* execution waves (kernel/execution_utils.py) and steering; and the       *)
(* compound messages of kernel/skill_dispatcher.py, which run the same     *)
(* waves and raise the same flag in the session store.                     *)
(*                                                                         *)
(* A plan has at most one iteration group.  The language model, which      *)
(* writes and rewrites plans and judges results, answers anything.         *)
(***************************************************************************)
EXTENDS Integers, FiniteSets

CONSTANTS Plans,       \* goal messages; the one that runs a plan stands for its row
          Compounds,   \* compound messages
          Resumers,    \* "continue" messages
          Steps,       \* indices of steps
          Shapes,      \* what the language model may plan
          Splits,      \* what it may split a compound message into
          MaxWaves,    \* max_waves of build_execution_waves
          MaxAttempts, \* goal_iteration_max_attempts
          MaxSteering, \* bound on steering messages, automatic ones included
          MaxCrashes   \* bound on server restarts

\* deps[i] is depends_on of step i; work and verify are the steps of the group.
IsShape(s) ==
  /\ s.n \in Nat
  /\ 0..(s.n - 1) \subseteq Steps
  /\ s.deps \in [Steps -> SUBSET Steps]
  /\ s.work \subseteq Steps
  /\ s.verify \subseteq Steps

ASSUME PlanAssumption ==
  /\ Plans \cap Compounds = {} /\ Plans \cap Resumers = {} /\ Compounds \cap Resumers = {}
  /\ Steps \subseteq Nat /\ 0 \in Steps
  /\ \A s \in Shapes \cup Splits : IsShape(s)
  /\ MaxWaves \in Nat /\ MaxAttempts \in Nat /\ MaxSteering \in Nat /\ MaxCrashes \in Nat

Handlers == Plans \cup Compounds \cup Resumers

VARIABLES
  row,       \* the plans table
  job,       \* the local variables of each handler
  executing, \* executing_plan of the session store
  queue,     \* length of its steering_queue
  ran,       \* history: how often a handler has run a step to its end
  resets,    \* history: how often it has cleared the step for a retry of the group
  steered,   \* history: steering messages so far
  overlapped, \* history: plans resumed by two handlers at a time
  crashes

planVars == <<row, job, executing, queue, ran, resets, steered, overlapped, crashes>>

Outcomes == {"none", "completed", "failed", "skipped"}
NoResults == [i \in Steps |-> "none"]
NoShape == [n |-> 0, deps |-> [i \in Steps |-> {}], work |-> {}, verify |-> {}]

Init ==
  /\ row = [p \in Plans |-> [st |-> "none", steps |-> NoShape, res |-> NoResults,
                             cur |-> 0, att |-> 0]]
  /\ job = [h \in Handlers |->
              [pc |-> "idle", plan |-> h, steps |-> NoShape, res |-> NoResults, exec |-> {},
               att |-> 0, assigned |-> {}, waves |-> 0, todo |-> {}, idx |-> 0,
               retrying |-> FALSE]]
  /\ executing = FALSE
  /\ queue = 0
  /\ ran = [h \in Handlers |-> [i \in Steps |-> 0]]
  /\ resets = ran
  /\ steered = 0
  /\ overlapped = {}
  /\ crashes = 0

Become(h, j) == job' = [job EXCEPT ![h] = j]
Go(h, pc) == Become(h, [job[h] EXCEPT !.pc = pc])
SetRowStatus(h, st) == row' = [row EXCEPT ![job[h].plan].st = st]

\* The flag and the queue of the session store are everybody's.
RaiseFlag == executing' = TRUE /\ UNCHANGED queue
LowerFlag == executing' = FALSE /\ queue' = 0

StepsOf(s) == 0..(s.n - 1)
IsFirst(i, S) == i \in S /\ \A k \in S : i <= k
IsLast(i, S) == i \in S /\ \A k \in S : k <= i

\* The outcome of a run: its last response or failure, or neither (it was blocked).
Record(res, i, out) == IF out = "none" THEN res ELSE [res EXCEPT ![i] = out]
RunOutcomes == {"completed", "failed", "none"}

-----------------------------------------------------------------------------
(* Waves.                                                                  *)

\* The next wave of build_execution_waves: what depends on earlier waves only.
NextWave(j) ==
  IF j.waves = MaxWaves THEN {}
  ELSE {i \in StepsOf(j.steps) : i \notin j.assigned /\ j.steps.deps[i] \subseteq j.assigned}

\* A dependency that failed, or has no result: the step is skipped.
Blocked(j, i) == \E d \in j.steps.deps[i] : j.res[d] \in {"none", "failed"}

\* Mutant: the handler goes on with the wave it stands at.
FromThisWave(j) == [j EXCEPT !.pc = "wave"]

FromTheFirstWave(j) == [j EXCEPT !.pc = "wave", !.assigned = {}, !.waves = 0]

\* What the handler does with a wave: steps already executed are passed over, others
\* skipped; several are run at once unless one is a work step of the group.  A plan
\* with nothing to run examines the last step of the wave all the same.
EnterWave(h) ==
  LET j == job[h]
      wave == NextWave(j)
      skipped == {i \in wave \ j.exec : Blocked(j, i)}
      todo == (wave \ j.exec) \ skipped
      parallel == Cardinality(todo) > 1 /\ (h \in Plans => todo \cap j.steps.work = {})
  IN  /\ j.pc = "wave"
      /\ \E last \in wave :
           /\ IsLast(last, wave)
           /\ Become(h, [j EXCEPT
                !.res = [i \in Steps |-> IF i \in skipped THEN "skipped" ELSE j.res[i]],
                !.exec = j.exec \cup skipped,
                !.assigned = j.assigned \cup wave,
                !.waves = j.waves + 1,
                !.todo = todo,
                !.idx = last,
                !.pc = CASE parallel -> "parallel"
                         [] todo # {} /\ ~parallel -> "running"
                         [] todo = {} -> IF h \in Plans THEN "examine" ELSE "wave"])
      /\ UNCHANGED <<row, executing, queue, ran, resets, steered, overlapped, crashes>>

Ran(h, i) == ran' = [ran EXCEPT ![h][i] = @ + 1]

\* Mutant: a step that fails puts no sentinel into the queue.
ParallelStepEndsWithoutSentinel(h) ==
  /\ job[h].pc = "parallel"
  /\ \E i \in job[h].todo, out \in RunOutcomes :
       LET todo == job[h].todo \ {i}
       IN  /\ Become(h, [job[h] EXCEPT !.res = Record(@, i, out), !.exec = @ \cup {i},
                                       !.todo = todo,
                                       !.pc = IF todo = {} /\ out # "failed" THEN "wave" ELSE "parallel"])
           /\ Ran(h, i)
  /\ UNCHANGED <<row, executing, queue, resets, steered, overlapped, crashes>>

\* One of the steps run at once ends; an exception in it counts as a failure.
ParallelStepEnds(h) ==
  /\ job[h].pc = "parallel"
  /\ \E i \in job[h].todo, out \in RunOutcomes :
       LET todo == job[h].todo \ {i}
       IN  /\ Become(h, [job[h] EXCEPT !.res = Record(@, i, out), !.exec = @ \cup {i},
                                       !.todo = todo,
                                       !.pc = IF todo = {} THEN "wave" ELSE "parallel"])
           /\ Ran(h, i)
  /\ UNCHANGED <<row, executing, queue, resets, steered, overlapped, crashes>>

\* Steps run one after the other; a plan examines only the last of them.
StepEnds(h) ==
  /\ job[h].pc = "running"
  /\ \E i \in job[h].todo, out \in RunOutcomes :
       LET todo == job[h].todo \ {i}
       IN  /\ IsFirst(i, job[h].todo)
           /\ Become(h, [job[h] EXCEPT !.res = Record(@, i, out), !.exec = @ \cup {i},
                                       !.todo = todo, !.idx = i,
                                       !.pc = CASE todo # {} -> "running"
                                                [] todo = {} -> IF h \in Plans THEN "examine"
                                                                ELSE "wave"])
           /\ Ran(h, i)
  /\ UNCHANGED <<row, executing, queue, resets, steered, overlapped, crashes>>

-----------------------------------------------------------------------------
(* The goal handler.                                                       *)

\* The plan is written and inserted; its permission pre-check is PermissionGate's.
InsertPlan(p) ==
  /\ job[p].pc = "idle"
  /\ \E s \in Shapes :
       /\ row' = [row EXCEPT ![p].st = "running", ![p].steps = s]
       /\ Become(p, [job[p] EXCEPT !.pc = "inserted", !.steps = s])
  /\ UNCHANGED <<executing, queue, ran, resets, steered, overlapped, crashes>>

BeginPlan(p) ==
  /\ job[p].pc = "inserted"
  /\ Go(p, "wave")
  /\ RaiseFlag
  /\ UNCHANGED <<row, ran, resets, steered, overlapped, crashes>>

\* A completed result that others depend on is judged, except that of a step in a
\* retry; the judge may also ask for another plan.  Then the progress is saved.
Examine(p) ==
  LET j == job[p]
      judged == /\ \E i \in StepsOf(j.steps) : j.idx \in j.steps.deps[i]
                /\ j.res[j.idx] = "completed"
                /\ j.idx \notin j.steps.work
                /\ j.idx \in j.steps.verify => j.att = 0
  IN  /\ j.pc = "examine"
      /\ \E verdict \in IF judged THEN {"relevant", "irrelevant", "adjust"} ELSE {"relevant"} :
           LET res == IF verdict = "irrelevant" THEN [j.res EXCEPT ![j.idx] = "failed"]
                                                ELSE j.res
           IN  /\ Become(p, [j EXCEPT !.pc = "saved", !.res = res])
               /\ row' = [row EXCEPT ![p].res = res, ![p].cur = j.idx + 1, ![p].att = j.att]
               /\ IF verdict = "adjust"
                  THEN /\ steered < MaxSteering
                       /\ steered' = steered + 1
                       /\ queue' = queue + 1
                  ELSE UNCHANGED <<steered, queue>>
      /\ UNCHANGED <<executing, ran, resets, overlapped, crashes>>

CanRetry(j) == j.idx \in j.steps.verify /\ j.att < MaxAttempts

\* Mutant: every step is executed again.
GroupClearedWithAll(j) ==
  [j EXCEPT !.res = [i \in Steps |-> "none"], !.exec = {}, !.retrying = FALSE]

\* Mutant: the results are marked as pending instead of dropped.
GroupClearedToPending(j) ==
  LET group == j.steps.work \cup j.steps.verify
  IN  [j EXCEPT !.res = [i \in Steps |-> IF i \in group THEN "pending" ELSE j.res[i]],
                !.exec = @ \ group, !.retrying = FALSE]

\* The steps of the group are to be executed again.
GroupCleared(j) ==
  LET group == j.steps.work \cup j.steps.verify
  IN  [j EXCEPT !.res = [i \in Steps |-> IF i \in group THEN "none" ELSE j.res[i]],
                !.exec = @ \ group, !.retrying = FALSE]

CountReset(h) ==
  resets' = [resets EXCEPT ![h] = [i \in Steps |->
    IF i \in job[h].steps.work \cup job[h].steps.verify THEN @[i] + 1 ELSE @[i]]]

\* The verify step failed and may be retried; pending steering comes first.
RetryGroup(p) ==
  LET j == [job[p] EXCEPT !.att = @ + 1]
  IN  /\ job[p].pc = "saved"
      /\ j.res[j.idx] = "failed"
      /\ CanRetry(job[p])
      /\ IF queue = 0
         THEN Become(p, FromTheFirstWave(GroupCleared(j))) /\ CountReset(p)
         ELSE Become(p, [j EXCEPT !.pc = "steering", !.retrying = TRUE]) /\ UNCHANGED resets
      /\ queue' = 0
      /\ UNCHANGED <<row, executing, ran, steered, overlapped, crashes>>

Proceed(p) ==
  /\ job[p].pc = "saved"
  /\ job[p].res[job[p].idx] # "failed"
  /\ Go(p, IF queue = 0 THEN "wave" ELSE "steering")
  /\ queue' = 0
  /\ UNCHANGED <<row, executing, ran, resets, steered, overlapped, crashes>>

PausePlan(p) ==
  /\ job[p].pc = "saved"
  /\ job[p].res[job[p].idx] = "failed"
  /\ ~CanRetry(job[p])
  /\ SetRowStatus(p, "paused")
  /\ Go(p, "pausing")
  /\ UNCHANGED <<executing, queue, ran, resets, steered, overlapped, crashes>>

\* Mutant: the finally clause is missing.
PauseEndLeavesFlag(p) ==
  /\ job[p].pc = "pausing"
  /\ Go(p, "paused")
  /\ UNCHANGED <<row, executing, queue, ran, resets, steered, overlapped, crashes>>

PauseEnd(p) ==
  /\ job[p].pc = "pausing"
  /\ Go(p, "paused")
  /\ LowerFlag
  /\ UNCHANGED <<row, ran, resets, steered, overlapped, crashes>>

\* The language model rewrites the plan: the attempts start anew, results and
\* executed steps stay, by their index.
Replan(p) ==
  /\ job[p].pc = "steering"
  /\ \E s \in Shapes :
       /\ row' = [row EXCEPT ![p].steps = s]
       /\ Become(p, FromTheFirstWave([job[p] EXCEPT !.steps = s, !.att = 0, !.retrying = FALSE]))
  /\ UNCHANGED <<executing, queue, ran, resets, steered, overlapped, crashes>>

\* Its answer is no plan: the handler goes on as without steering.
KeepPlan(p) ==
  /\ job[p].pc = "steering"
  /\ IF job[p].retrying
     THEN Become(p, FromTheFirstWave(GroupCleared(job[p]))) /\ CountReset(p)
     ELSE Go(p, "wave") /\ UNCHANGED resets
  /\ UNCHANGED <<row, executing, queue, ran, steered, overlapped, crashes>>

CompletePlan(p) ==
  /\ job[p].pc = "wave"
  /\ NextWave(job[p]) = {}
  /\ Go(p, "completed")
  /\ SetRowStatus(p, "completed")
  /\ LowerFlag
  /\ UNCHANGED <<ran, resets, steered, overlapped, crashes>>

\* execute() raises (the task limit), a kill of the step cancels the handler, or the
\* language model fails while steering: the finally clause runs, the row stays.
PlanRaises(p) ==
  /\ job[p].pc \in {"running", "steering"}
  /\ Go(p, "raised")
  /\ LowerFlag
  /\ UNCHANGED <<row, ran, resets, steered, overlapped, crashes>>

-----------------------------------------------------------------------------
(* A compound message: nothing is stored, judged, retried or steered.      *)

BeginCompound(m) ==
  /\ job[m].pc = "idle"
  /\ \E s \in Splits : Become(m, [job[m] EXCEPT !.pc = "wave", !.steps = s])
  /\ RaiseFlag
  /\ UNCHANGED <<row, ran, resets, steered, overlapped, crashes>>

EndCompound(m) ==
  /\ job[m].pc = "wave"
  /\ NextWave(job[m]) = {}
  /\ Go(m, "completed")
  /\ LowerFlag
  /\ UNCHANGED <<row, ran, resets, steered, overlapped, crashes>>

\* Without a finally clause.
CompoundRaises(m) ==
  /\ job[m].pc = "running"
  /\ Go(m, "raised")
  /\ UNCHANGED <<row, executing, queue, ran, resets, steered, overlapped, crashes>>

-----------------------------------------------------------------------------
(* Resuming a paused plan.  The flag is not raised.                        *)

SelectPaused(c) ==
  /\ job[c].pc = "idle"
  /\ \E p \in Plans :
       /\ row[p].st = "paused"
       /\ Become(c, [job[c] EXCEPT !.pc = "selected", !.plan = p, !.steps = row[p].steps,
                                   !.res = row[p].res, !.att = row[p].att])
  /\ UNCHANGED <<row, executing, queue, ran, resets, steered, overlapped, crashes>>

\* The pre-check asks for permissions: the approval makes a new plan of the goal.
ResumeRefused(c) ==
  /\ job[c].pc = "selected"
  /\ Go(c, "refused")
  /\ UNCHANGED <<row, executing, queue, ran, resets, steered, overlapped, crashes>>

Resuming(c) == job[c].pc \in {"next", "resumed", "decide"}

BeginResume(c) ==
  /\ job[c].pc = "selected"
  /\ SetRowStatus(c, "running")
  /\ Become(c, [job[c] EXCEPT !.pc = "next", !.idx = 0,
                              !.exec = {i \in Steps : job[c].res[i] = "completed"}])
  /\ overlapped' = IF \E h \in Resumers \ {c} : Resuming(h) /\ job[h].plan = job[c].plan
                   THEN overlapped \cup {job[c].plan} ELSE overlapped
  /\ UNCHANGED <<executing, queue, ran, resets, steered, crashes>>

\* The steps are gone through by index, not in waves.
ResumeNext(c) ==
  LET j == job[c]
  IN  /\ j.pc = "next"
      /\ j.idx < j.steps.n
      /\ Become(c, CASE j.idx \in j.exec -> [j EXCEPT !.idx = @ + 1]
                     [] j.idx \notin j.exec /\ Blocked(j, j.idx) ->
                          [j EXCEPT !.idx = @ + 1, !.exec = @ \cup {j.idx},
                                    !.res = [j.res EXCEPT ![j.idx] = "skipped"]]
                     [] j.idx \notin j.exec /\ ~Blocked(j, j.idx) -> [j EXCEPT !.pc = "resumed"])
      /\ UNCHANGED <<row, executing, queue, ran, resets, steered, overlapped, crashes>>

\* Mutant: the progress is saved before the result is known.
ResumedStepEndsSavedEarly(c) ==
  /\ job[c].pc = "resumed"
  /\ \E out \in RunOutcomes :
       LET j == job[c]
           res == Record(j.res, j.idx, out)
       IN  /\ Become(c, [j EXCEPT !.pc = "decide", !.res = res, !.exec = @ \cup {j.idx}])
           /\ row' = [row EXCEPT ![j.plan].res = j.res, ![j.plan].cur = j.idx + 1,
                                 ![j.plan].att = j.att]
           /\ Ran(c, j.idx)
  /\ UNCHANGED <<executing, queue, resets, steered, overlapped, crashes>>

ResumedStepEnds(c) ==
  /\ job[c].pc = "resumed"
  /\ \E out \in RunOutcomes :
       LET j == job[c]
           res == Record(j.res, j.idx, out)
       IN  /\ Become(c, [j EXCEPT !.pc = "decide", !.res = res, !.exec = @ \cup {j.idx}])
           /\ row' = [row EXCEPT ![j.plan].res = res, ![j.plan].cur = j.idx + 1,
                                 ![j.plan].att = j.att]
           /\ Ran(c, j.idx)
  /\ UNCHANGED <<executing, queue, resets, steered, overlapped, crashes>>

ResumeGoesOn(c) ==
  /\ job[c].pc = "decide"
  /\ job[c].res[job[c].idx] # "failed"
  /\ Become(c, [job[c] EXCEPT !.pc = "next", !.idx = @ + 1])
  /\ UNCHANGED <<row, executing, queue, ran, resets, steered, overlapped, crashes>>

ResumeRetries(c) ==
  /\ job[c].pc = "decide"
  /\ job[c].res[job[c].idx] = "failed"
  /\ CanRetry(job[c])
  /\ Become(c, [GroupCleared(job[c]) EXCEPT !.att = @ + 1, !.pc = "next", !.idx = 0])
  /\ CountReset(c)
  /\ UNCHANGED <<row, executing, queue, ran, steered, overlapped, crashes>>

ResumePauses(c) ==
  /\ job[c].pc = "decide"
  /\ job[c].res[job[c].idx] = "failed"
  /\ ~CanRetry(job[c])
  /\ SetRowStatus(c, "paused")
  /\ Go(c, "paused")
  /\ UNCHANGED <<executing, queue, ran, resets, steered, overlapped, crashes>>

\* Mutant: the row is left as it is.
ResumeCompletesSilently(c) ==
  /\ job[c].pc = "next"
  /\ job[c].idx >= job[c].steps.n
  /\ Go(c, "completed")
  /\ UNCHANGED <<row, executing, queue, ran, resets, steered, overlapped, crashes>>

ResumeCompletes(c) ==
  /\ job[c].pc = "next"
  /\ job[c].idx >= job[c].steps.n
  /\ SetRowStatus(c, "completed")
  /\ Go(c, "completed")
  /\ UNCHANGED <<executing, queue, ran, resets, steered, overlapped, crashes>>

ResumeRaises(c) ==
  /\ job[c].pc = "resumed"
  /\ Go(c, "raised")
  /\ UNCHANGED <<row, executing, queue, ran, resets, steered, overlapped, crashes>>

-----------------------------------------------------------------------------
(* The environment.                                                        *)

\* The user steers; without a plan the message is ignored.
InjectSteering ==
  /\ executing
  /\ steered < MaxSteering
  /\ steered' = steered + 1
  /\ queue' = queue + 1
  /\ UNCHANGED <<row, job, executing, ran, resets, overlapped, crashes>>

Ended == {"completed", "paused", "raised", "refused", "crashed"}

\* The rows stay, "running" ones included; nothing at start looks at them.
Crash ==
  /\ crashes < MaxCrashes
  /\ crashes' = crashes + 1
  /\ job' = [h \in Handlers |-> IF job[h].pc \in Ended \cup {"idle"} THEN job[h]
                                ELSE [job[h] EXCEPT !.pc = "crashed"]]
  /\ LowerFlag
  /\ UNCHANGED <<row, ran, resets, steered, overlapped>>

PlanStep(p) ==
  \/ BeginPlan(p) \/ EnterWave(p) \/ ParallelStepEnds(p) \/ StepEnds(p) \/ Examine(p)
  \/ RetryGroup(p) \/ Proceed(p) \/ PausePlan(p) \/ PauseEnd(p) \/ Replan(p) \/ KeepPlan(p)
  \/ CompletePlan(p) \/ PlanRaises(p)

CompoundStep(m) ==
  EnterWave(m) \/ ParallelStepEnds(m) \/ StepEnds(m) \/ EndCompound(m) \/ CompoundRaises(m)

ResumeStep(c) ==
  \/ ResumeRefused(c) \/ BeginResume(c) \/ ResumeNext(c) \/ ResumedStepEnds(c)
  \/ ResumeGoesOn(c) \/ ResumeRetries(c) \/ ResumePauses(c) \/ ResumeCompletes(c)
  \/ ResumeRaises(c)

Next ==
  \/ \E p \in Plans : InsertPlan(p) \/ PlanStep(p)
  \/ \E m \in Compounds : BeginCompound(m) \/ CompoundStep(m)
  \/ \E c \in Resumers : SelectPaused(c) \/ ResumeStep(c)
  \/ InjectSteering
  \/ Crash

Spec == Init /\ [][Next]_planVars

\* The event loop resumes handlers, and the runs of steps end (TaskLifecycle).
Fairness == /\ \A p \in Plans : WF_planVars(PlanStep(p))
            /\ \A m \in Compounds : WF_planVars(CompoundStep(m))
            /\ \A c \in Resumers : WF_planVars(ResumeStep(c))

FairSpec == Spec /\ Fairness
-----------------------------------------------------------------------------
(* Properties.                                                             *)

Stages == Ended \cup {"idle", "inserted", "wave", "parallel", "running", "examine", "saved",
                      "pausing", "steering", "selected", "next", "resumed", "decide"}

Jobs ==
  [pc : Stages,
   plan : Handlers, steps : Shapes \cup Splits \cup {NoShape}, res : [Steps -> Outcomes],
   exec : SUBSET Steps, att : Nat, assigned : SUBSET Steps, waves : Nat,
   todo : SUBSET Steps, idx : Nat, retrying : BOOLEAN]

Rows == [st : {"none", "running", "paused", "completed"}, steps : Shapes \cup {NoShape},
         res : [Steps -> Outcomes], cur : Nat, att : Nat]

PlanTypeOK ==
  /\ row \in [Plans -> Rows]
  /\ job \in [Handlers -> Jobs]
  /\ executing \in BOOLEAN
  /\ queue \in Nat
  /\ ran \in [Handlers -> [Steps -> Nat]]
  /\ resets \in [Handlers -> [Steps -> Nat]]
  /\ steered \in Nat
  /\ overlapped \subseteq Plans
  /\ crashes \in Nat

\* No handler runs a step twice but for a retry of the iteration group, however waves
\* are restarted, plans rewritten and steps skipped: side effects are not repeated.
RunsBounded == \A h \in Handlers, i \in Steps : ran[h][i] <= 1 + resets[h][i]

\* Each of these steps waits for another of them.
Knot(s, C) == \A i \in C : s.deps[i] \cap (C \cup (Steps \ StepsOf(s))) # {}

NothingLeft(j) ==
  \/ j.waves = MaxWaves
  \/ \E C \in SUBSET StepsOf(j.steps) : Knot(j.steps, C) /\ StepsOf(j.steps) \ j.exec \subseteq C

\* A plan or compound message that ends has executed or skipped every step but those
\* that wait for each other, however often its waves were restarted, its group cleared
\* or its steps rewritten (or it has too many waves).
CompletedLeavesNothing ==
  \A h \in Handlers : job[h].pc = "completed" => NothingLeft(job[h])

\* A row says "running" only while a handler works on it, or for ever: when that
\* handler raised or the server crashed.  A plan is not lost in any other way.
RunningHasWorker ==
  \A p \in Plans : row[p].st = "running" =>
    \E h \in Plans \cup Resumers :
      job[h].plan = p /\ job[h].pc \notin {"idle", "selected", "refused", "pausing",
                                                   "completed", "paused"}

InTry(p) == job[p].pc \in {"wave", "parallel", "running", "examine", "saved", "pausing", "steering"}

\* A queued steering message has a plan to take it, so none redirects a later plan;
\* the exception is a compound message, which takes none, drops none that arrive after
\* it raised, and then leaves the flag up.
SteeringHasAPlan ==
  queue > 0 => \/ \E p \in Plans : InTry(p)
               \/ \E m \in Compounds : job[m].pc \in {"wave", "parallel", "running", "raised"}

\* A paused plan can be taken up where it stopped: the last step saved is the one that
\* failed, whatever the plan was rewritten to before, unless two resumptions of it have
\* overlapped (try_resume_plan reads the row long before it marks it running).
PausedSavesFailure ==
  \A p \in Plans \ overlapped :
    row[p].st = "paused" => row[p].cur > 0 /\ row[p].res[row[p].cur - 1] = "failed"

\* Every message comes to an end: resets, restarts of the waves and rewritten plans
\* do not keep it going for ever, as long as steering stops.
EveryMessageEnds == \A h \in Handlers : job[h].pc # "idle" ~> job[h].pc \in Ended

\* plan_executor.py:644 tells the user that the steps downstream of a failed one will be
\* skipped: no step is run when one it depends on was itself skipped.
DownstreamSkipped ==
  [][\A h \in Handlers, i \in Steps :
       ran'[h][i] > ran[h][i] => \A d \in job[h].steps.deps[i] : job[h].res[d] # "skipped"]_planVars
=============================================================================
