------------------------ MODULE TaskLifecycle_proofs ------------------------
(***************************************************************************)
(* Proofs about TaskLifecycle: its type invariant, who holds a slot of the *)
(* concurrency limit, and that it implements TaskOutcome.                  *)
(***************************************************************************)
EXTENDS TaskLifecycle, TLAPS

\* While a handler works, its task object and its row agree.
ObjectMatchesRow ==
  \A r \in Runs : /\ stage[r] = "inserting" => row[r] = "pending"
                  /\ stage[r] \in Working => status[r] = row[r]

\* The row comes with the spawn; only then can the task be active or closed.
RowFromSpawn ==
  \A r \in Runs : /\ stage[r] \in {"idle", "logged"} => row[r] = "none"
                  /\ stage[r] \in Working \cup {"inserting"} => row[r] # "none"
                  /\ r \in active => row[r] # "none"

\* Only a handler that has ended has told the user anything.
UntoldBefore == \A r \in Runs : stage[r] \notin Final => report[r] = "none"

TaskInv == /\ TaskTypeOK
           /\ SlotHolders
           /\ ObjectMatchesRow
           /\ RowFromSpawn
           /\ UntoldBefore

-----------------------------------------------------------------------------
LEMMA InitInv == Init => TaskInv
  BY TaskAssumption DEF Init, TaskInv, TaskTypeOK, SlotHolders, ObjectMatchesRow, RowFromSpawn,
     UntoldBefore, Working, Stages, Final, Statuses, Settled

\* The steps of the handler keep the types.
LEMMA HandlerType ==
  ASSUME TaskTypeOK, NEW r \in Runs, Start(r) \/ Handler(r)
  PROVE  TaskTypeOK'
<1> USE DEF TaskTypeOK, Go, Tell, Stages, Final, Statuses, Settled
<1>1. CASE Start(r) BY <1>1 DEF Start
<1>2. CASE Spawn(r) BY <1>2 DEF Spawn
<1>3. CASE Refuse(r) BY <1>3 DEF Refuse
<1>4. CASE Register(r) BY <1>4 DEF Register
<1>5. CASE Block(r) BY <1>5 DEF Block, SetStatus
<1>6. CASE Launch(r) BY <1>6 DEF Launch
<1>7. CASE LaunchFails(r) BY <1>7 DEF LaunchFails, SetStatus
<1>8. CASE SkillReports(r) BY <1>8 DEF SkillReports, SetStatus
<1>9. CASE ReportEnd(r) BY <1>9 DEF ReportEnd, Drop
<1>10. CASE SkillEndsSilently(r) BY <1>10 DEF SkillEndsSilently
<1>11. CASE SkillRaises(r) BY <1>11 DEF SkillRaises, SetStatus
<1>12. CASE FailEnd(r) BY <1>12 DEF FailEnd, Drop
<1>13. CASE SandboxTimeout(r) BY <1>13 DEF SandboxTimeout, SetStatus, Cancels, InSandbox
<1>14. CASE AwaitBegin(r) BY <1>14 DEF AwaitBegin, Verdict
<1>15. CASE Wake(r) BY <1>15 DEF Wake, Verdict
<1>16. CASE AwaitTimeout(r) BY <1>16 DEF AwaitTimeout, SetStatus
<1>17. CASE FinishEnd(r) BY <1>17 DEF FinishEnd, Drop
<1> QED BY <1>1, <1>2, <1>3, <1>4, <1>5, <1>6, <1>7, <1>8, <1>9, <1>10, <1>11, <1>12, <1>13,
           <1>14, <1>15, <1>16, <1>17 DEF Handler

\* ... and so do kills and restarts.
LEMMA OthersType ==
  ASSUME TaskTypeOK, (\E r \in Runs : KillBegin(r) \/ KillEnd(r)) \/ Restart \/ Quiet
  PROVE  TaskTypeOK'
<1> USE DEF TaskTypeOK, Stages, Final, Statuses, Settled
<1>1. ASSUME NEW r \in Runs, KillBegin(r) PROVE TaskTypeOK'
  BY <1>1 DEF KillBegin, SetStatus, SandboxKill
<1>2. ASSUME NEW r \in Runs, KillEnd(r) PROVE TaskTypeOK'
  BY <1>2 DEF KillEnd, Drop, SandboxKill
<1>3. CASE Restart BY <1>3, TaskAssumption DEF Restart
<1>4. CASE Quiet BY <1>4 DEF Quiet, taskVars
<1> QED BY <1>1, <1>2, <1>3, <1>4

\* The rest of the invariant, for a step that touches one run only.
LEMMA HandlerInv ==
  ASSUME TaskInv, NEW r \in Runs, Start(r) \/ Handler(r)
  PROVE  TaskInv'
<1>0. TaskTypeOK' BY HandlerType DEF TaskInv
<1> USE DEF TaskInv, TaskTypeOK, SlotHolders, ObjectMatchesRow, RowFromSpawn, UntoldBefore,
            Go, Tell, Working, Stages, Final, Statuses, Settled
<1>1. CASE Start(r) BY <1>0, <1>1 DEF Start
<1>2. CASE Spawn(r) BY <1>0, <1>2 DEF Spawn
<1>3. CASE Refuse(r) BY <1>0, <1>3 DEF Refuse
<1>4. CASE Register(r) BY <1>0, <1>4 DEF Register
<1>5. CASE Block(r) BY <1>0, <1>5 DEF Block, SetStatus
<1>6. CASE Launch(r) BY <1>0, <1>6 DEF Launch
<1>7. CASE LaunchFails(r) BY <1>0, <1>7 DEF LaunchFails, SetStatus
<1>8. CASE SkillReports(r) BY <1>0, <1>8 DEF SkillReports, SetStatus
<1>9. CASE ReportEnd(r) BY <1>0, <1>9 DEF ReportEnd, Drop
<1>10. CASE SkillEndsSilently(r) BY <1>0, <1>10 DEF SkillEndsSilently
<1>11. CASE SkillRaises(r) BY <1>0, <1>11 DEF SkillRaises, SetStatus
<1>12. CASE FailEnd(r) BY <1>0, <1>12 DEF FailEnd, Drop
<1>13. CASE SandboxTimeout(r) BY <1>0, <1>13 DEF SandboxTimeout, SetStatus, Cancels, InSandbox
<1>14. CASE AwaitBegin(r) BY <1>0, <1>14 DEF AwaitBegin, Verdict
<1>15. CASE Wake(r) BY <1>0, <1>15 DEF Wake, Verdict
<1>16. CASE AwaitTimeout(r) BY <1>0, <1>16 DEF AwaitTimeout, SetStatus
<1>17. CASE FinishEnd(r) BY <1>0, <1>17 DEF FinishEnd, Drop
<1> QED BY <1>1, <1>2, <1>3, <1>4, <1>5, <1>6, <1>7, <1>8, <1>9, <1>10, <1>11, <1>12, <1>13,
           <1>14, <1>15, <1>16, <1>17 DEF Handler

LEMMA OthersInv ==
  ASSUME TaskInv, (\E r \in Runs : KillBegin(r) \/ KillEnd(r)) \/ Restart \/ Quiet
  PROVE  TaskInv'
<1>0. TaskTypeOK' BY OthersType DEF TaskInv
<1> USE DEF TaskInv, TaskTypeOK, SlotHolders, ObjectMatchesRow, RowFromSpawn, UntoldBefore,
            Working, Stages, Final, Statuses, Settled
<1>1. ASSUME NEW r \in Runs, KillBegin(r) PROVE TaskInv'
  BY <1>0, <1>1 DEF KillBegin, SetStatus, SandboxKill, Cancels, InSandbox, Visible
<1>2. ASSUME NEW r \in Runs, KillEnd(r) PROVE TaskInv'
  BY <1>0, <1>2 DEF KillEnd, Drop, SandboxKill, Cancels, InSandbox
<1>3. CASE Restart BY <1>0, <1>3 DEF Restart
<1>4. CASE Quiet BY <1>0, <1>4 DEF Quiet, taskVars
<1> QED BY <1>1, <1>2, <1>3, <1>4

LEMMA NextInv == TaskInv /\ [Next]_taskVars => TaskInv'
<1> SUFFICES ASSUME TaskInv, [Next]_taskVars PROVE TaskInv'
  OBVIOUS
<1>1. CASE UNCHANGED taskVars
  BY <1>1 DEF taskVars, TaskInv, TaskTypeOK, SlotHolders, ObjectMatchesRow, RowFromSpawn,
              UntoldBefore
<1>2. CASE Next BY <1>2, HandlerInv, OthersInv DEF Next
<1> QED BY <1>1, <1>2

LEMMA InvAlways == Spec => []TaskInv
  BY InitInv, NextInv, PTL DEF Spec

\* However handlers, time-outs, kills and restarts interleave, the state of the task
\* machinery is well formed (task_manager.py, skill_executor.py, wal/log.py).
THEOREM TaskTypeCorrect == Spec => []TaskTypeOK
  BY InvAlways, PTL DEF TaskInv

\* A slot of the limit is held by work or a kill under way, or was lost to a blocking
\* hook or to a time-out in which the handler cancelled itself (task_manager.py, spawn).
THEOREM SlotsAccountedFor == Spec => []SlotHolders
  BY InvAlways, PTL DEF TaskInv

-----------------------------------------------------------------------------
(* The refinement.                                                         *)

Bar(t) == IF row[t] = "none" THEN "none"
          ELSE IF t \in active \/ stage[t] = "inserting" THEN "open"
          ELSE row[t]

\* What OutcomeNext allows for one task.
OutcomeStep(t) ==
  /\ \/ Bar(t)' = Bar(t)
     \/ Bar(t) = "none" /\ Bar(t)' = "open"
     \/ Bar(t) = "open" /\ Bar(t)' \in Settled \cup {"pending", "blocked"}
  /\ report'[t] # report[t] => report[t] = "none"
  /\ report'[t] # report[t] /\ report'[t] = "response" => Bar(t) = "completed"

LEMMA HandlerOutcome ==
  ASSUME TaskInv, NEW r \in Runs, Start(r) \/ Handler(r), NEW t \in Runs
  PROVE  OutcomeStep(t)
<1> USE DEF TaskInv, TaskTypeOK, ObjectMatchesRow, RowFromSpawn, UntoldBefore, OutcomeStep, Bar,
            Go, Tell, Working, Stages, Final, Statuses, Settled
<1>1. CASE Start(r) BY <1>1 DEF Start
<1>2. CASE Spawn(r) BY <1>2 DEF Spawn
<1>3. CASE Refuse(r) BY <1>3 DEF Refuse
<1>4. CASE Register(r) BY <1>4 DEF Register
<1>5. CASE Block(r) BY <1>5 DEF Block, SetStatus
<1>6. CASE Launch(r) BY <1>6 DEF Launch
<1>7. CASE LaunchFails(r) BY <1>7 DEF LaunchFails, SetStatus
<1>8. CASE SkillReports(r) BY <1>8 DEF SkillReports, SetStatus
<1>9. CASE ReportEnd(r) BY <1>9 DEF ReportEnd, Drop
<1>10. CASE SkillEndsSilently(r) BY <1>10 DEF SkillEndsSilently
<1>11. CASE SkillRaises(r) BY <1>11 DEF SkillRaises, SetStatus
<1>12. CASE FailEnd(r) BY <1>12 DEF FailEnd, Drop
<1>13. CASE SandboxTimeout(r) BY <1>13 DEF SandboxTimeout, SetStatus, Cancels, InSandbox
<1>14. CASE AwaitBegin(r) BY <1>14 DEF AwaitBegin, Verdict
<1>15. CASE Wake(r) BY <1>15 DEF Wake, Verdict
<1>16. CASE AwaitTimeout(r) BY <1>16 DEF AwaitTimeout, SetStatus
<1>17. CASE FinishEnd(r) BY <1>17 DEF FinishEnd, Drop
<1> QED BY <1>1, <1>2, <1>3, <1>4, <1>5, <1>6, <1>7, <1>8, <1>9, <1>10, <1>11, <1>12, <1>13,
           <1>14, <1>15, <1>16, <1>17 DEF Handler

LEMMA OthersOutcome ==
  ASSUME TaskInv, (\E r \in Runs : KillBegin(r) \/ KillEnd(r)) \/ Restart \/ Quiet,
         NEW t \in Runs
  PROVE  OutcomeStep(t)
<1> USE DEF TaskInv, TaskTypeOK, RowFromSpawn, OutcomeStep, Bar,
            Working, Stages, Final, Statuses, Settled
<1>1. ASSUME NEW r \in Runs, KillBegin(r) PROVE OutcomeStep(t)
  BY <1>1 DEF KillBegin, SetStatus, SandboxKill, Cancels, InSandbox, Visible
<1>2. ASSUME NEW r \in Runs, KillEnd(r) PROVE OutcomeStep(t)
  BY <1>2 DEF KillEnd, Drop, SandboxKill, Cancels, InSandbox
<1>3. CASE Restart BY <1>3 DEF Restart
<1>4. CASE Quiet BY <1>4 DEF Quiet, taskVars
<1> QED BY <1>1, <1>2, <1>3, <1>4

LEMMA NextOutcome ==
  ASSUME TaskInv, TaskInv', [Next]_taskVars
  PROVE  [Outcome!OutcomeNext]_Outcome!outcomeVars
<1>1. CASE UNCHANGED taskVars
  BY <1>1 DEF taskVars, Outcome!outcomeVars
<1>2. CASE Next
  <2>1. \A t \in Runs : OutcomeStep(t)
    BY <1>2, HandlerOutcome, OthersOutcome DEF Next
  <2>2. report' \in [Runs -> {"response", "failed", "blocked"} \cup {"none"}]
    BY DEF TaskInv, TaskTypeOK
  <2>3. \A t \in Runs : Bar(t)' \in (Settled \cup {"pending", "blocked"}) \cup {"none", "open"}
    BY DEF TaskInv, TaskTypeOK, Bar, Statuses
  <2> QED BY <2>1, <2>2, <2>3 DEF Outcome!OutcomeNext, OutcomeStep, Bar
<1> QED BY <1>1, <1>2

LEMMA InitOutcome == Init => Outcome!OutcomeInit
  BY DEF Init, Outcome!OutcomeInit

\* The task machinery implements TaskOutcome: a closed task never changes its status,
\* and only a task closed as completed is answered (task_manager.py, update_status;
\* skill_executor.py, the end of execute).
THEOREM ImplementsOutcome == Spec => OutcomeSpec
<1>1. Init => Outcome!OutcomeInit BY InitOutcome
<1>2. TaskInv /\ TaskInv' /\ [Next]_taskVars => [Outcome!OutcomeNext]_Outcome!outcomeVars
  BY NextOutcome
<1> QED BY <1>1, <1>2, InvAlways, PTL DEF Spec, OutcomeSpec, Outcome!OutcomeSpec
=============================================================================
