------------------------ MODULE PlanExecutor_proofs ------------------------
(***************************************************************************)
(* Proofs about PlanExecutor, for any plans, messages and shapes.          *)
(***************************************************************************)
EXTENDS PlanExecutor, FiniteSetTheorems, TLAPS

AnyShape == Shapes \cup Splits \cup {NoShape}

\* What the language model plans is a shape, and so is the empty plan.
LEMMA ShapeFacts ==
  ASSUME NEW s \in AnyShape
  PROVE  /\ s.n \in Nat
         /\ StepsOf(s) \subseteq Steps
         /\ s.deps \in [Steps -> SUBSET Steps]
         /\ s.work \subseteq Steps
         /\ s.verify \subseteq Steps
BY PlanAssumption DEF AnyShape, IsShape, NoShape, StepsOf

LEMMA InitTyped == Init => PlanTypeOK
<1> SUFFICES ASSUME Init PROVE PlanTypeOK
  OBVIOUS
<1>1. NoResults \in [Steps -> Outcomes]
  BY DEF NoResults, Outcomes
<1>2. row \in [Plans -> Rows]
  BY <1>1 DEF Init, Rows
<1>3. job \in [Handlers -> Jobs]
  BY <1>1 DEF Init, Jobs, Stages
<1> QED BY <1>2, <1>3 DEF Init, PlanTypeOK

\* Changing one handler's job to a well-formed one.
LEMMA JobChanged ==
  ASSUME PlanTypeOK, NEW h \in Handlers, NEW j \in Jobs, Become(h, j)
  PROVE  /\ job' \in [Handlers -> Jobs]
         /\ job'[h] = j
         /\ \A g \in Handlers \ {h} : job'[g] = job[g]
BY DEF PlanTypeOK, Become

\* The type of each field of a job.
LEMMA JobFields ==
  ASSUME PlanTypeOK, NEW h \in Handlers
  PROVE  /\ job[h] \in Jobs
         /\ job[h].plan \in Handlers
         /\ job[h].steps \in AnyShape
         /\ job[h].res \in [Steps -> Outcomes]
         /\ job[h].exec \subseteq Steps /\ job[h].assigned \subseteq Steps
         /\ job[h].todo \subseteq Steps
         /\ job[h].att \in Nat /\ job[h].waves \in Nat /\ job[h].idx \in Nat
BY DEF PlanTypeOK, Jobs, AnyShape

LEMMA GoTyped ==
  ASSUME PlanTypeOK, NEW h \in Handlers, NEW pc \in Stages, Go(h, pc)
  PROVE  /\ job' \in [Handlers -> Jobs]
         /\ job'[h] = [job[h] EXCEPT !.pc = pc]
         /\ \A g \in Handlers \ {h} : job'[g] = job[g]
<1>1. job[h] \in Jobs
  BY JobFields
<1>2. [job[h] EXCEPT !.pc = pc] \in Jobs
  BY <1>1 DEF Jobs
<1> QED BY <1>2, JobChanged DEF Go

LEMMA RanTyped ==
  ASSUME PlanTypeOK, NEW h \in Handlers, NEW i \in Steps, Ran(h, i)
  PROVE  ran' \in [Handlers -> [Steps -> Nat]]
BY DEF PlanTypeOK, Ran

LEMMA ResetTyped ==
  ASSUME PlanTypeOK, NEW h \in Handlers, CountReset(h)
  PROVE  resets' \in [Handlers -> [Steps -> Nat]]
BY DEF PlanTypeOK, CountReset

LEMMA ClearedTyped ==
  ASSUME NEW j \in Jobs
  PROVE  GroupCleared(j) \in Jobs /\ FromTheFirstWave(j) \in Jobs
         /\ FromTheFirstWave(GroupCleared(j)) \in Jobs
<1>1. GroupCleared(j) \in Jobs
  BY DEF GroupCleared, Jobs, Outcomes
<1>2. ASSUME NEW k \in Jobs PROVE FromTheFirstWave(k) \in Jobs
  BY <1>2 DEF FromTheFirstWave, Jobs, Stages
<1> QED BY <1>1, <1>2

LEMMA RowStatusTyped ==
  ASSUME PlanTypeOK, NEW h \in Handlers, NEW st, SetRowStatus(h, st),
         st \in {"none", "running", "paused", "completed"}
  PROVE  row' \in [Plans -> Rows]
BY DEF PlanTypeOK, SetRowStatus, Rows

\* The outcome of a run is recorded as one of the outcomes.
LEMMA RecordTyped ==
  ASSUME NEW res \in [Steps -> Outcomes], NEW i \in Steps, NEW out \in RunOutcomes
  PROVE  Record(res, i, out) \in [Steps -> Outcomes]
BY DEF Record, RunOutcomes, Outcomes

\* The handler enters a wave of its plan.
LEMMA WaveTyped ==
  ASSUME PlanTypeOK, NEW h \in Handlers, EnterWave(h)
  PROVE  PlanTypeOK'
<1> DEFINE j == job[h]
           wave == NextWave(j)
           skipped == {i \in wave \ j.exec : Blocked(j, i)}
           todo == (wave \ j.exec) \ skipped
           parallel == Cardinality(todo) > 1 /\ (h \in Plans => todo \cap j.steps.work = {})
           res == [i \in Steps |-> IF i \in skipped THEN "skipped" ELSE j.res[i]]
           pc == CASE parallel -> "parallel"
                   [] todo # {} /\ ~parallel -> "running"
                   [] todo = {} -> IF h \in Plans THEN "examine" ELSE "wave"
           New(last) == [j EXCEPT !.res = res, !.exec = j.exec \cup skipped,
                                  !.assigned = j.assigned \cup wave, !.waves = j.waves + 1,
                                  !.todo = todo, !.idx = last, !.pc = pc]
<1>1. PICK last \in wave : Become(h, New(last))
  BY DEF EnterWave
<1>2. wave \subseteq Steps
  BY JobFields, ShapeFacts DEF NextWave
<1>3. res \in [Steps -> Outcomes]
  BY JobFields DEF Outcomes
<1>4. pc \in Stages
  <2>1. parallel \in BOOLEAN
    OBVIOUS
  <2> HIDE DEF todo, parallel
  <2> QED BY <2>1 DEF Stages
<1>5. /\ j \in Jobs /\ last \in Nat /\ j.waves + 1 \in Nat
      /\ j.exec \cup skipped \in SUBSET Steps
      /\ j.assigned \cup wave \in SUBSET Steps
      /\ todo \in SUBSET Steps
  <2>1. skipped \subseteq wave /\ todo \subseteq wave
    OBVIOUS
  <2>2. last \in Nat
    BY <1>2, PlanAssumption
  <2>3. j \in Jobs /\ j.exec \subseteq Steps /\ j.assigned \subseteq Steps /\ j.waves + 1 \in Nat
    BY JobFields
  <2> HIDE DEF j, wave, skipped, todo
  <2> QED BY <1>2, <2>1, <2>2, <2>3
<1>6. New(last) \in Jobs
  <2> HIDE DEF j, wave, skipped, todo, res, pc
  <2> QED BY <1>3, <1>4, <1>5 DEF Jobs
<1>7. job' \in [Handlers -> Jobs]
  <2> HIDE DEF New
  <2> QED BY <1>1, <1>6, JobChanged
<1> QED BY <1>7 DEF EnterWave, PlanTypeOK

\* A step of several run at once ends.
LEMMA ParallelEndTyped ==
  ASSUME PlanTypeOK, NEW h \in Handlers, ParallelStepEnds(h)
  PROVE  PlanTypeOK'
<1> DEFINE New(i, out, pc) == [job[h] EXCEPT !.res = Record(@, i, out), !.exec = @ \cup {i},
                                             !.todo = job[h].todo \ {i}, !.pc = pc]
<1>1. PICK i \in job[h].todo, out \in RunOutcomes, pc \in {"wave", "parallel"} :
        Become(h, New(i, out, pc)) /\ Ran(h, i)
  BY DEF ParallelStepEnds
<1>2. i \in Steps /\ pc \in Stages /\ job[h] \in Jobs
  BY JobFields DEF Stages
<1>3. Record(job[h].res, i, out) \in [Steps -> Outcomes]
  BY <1>2, JobFields, RecordTyped
<1>4. New(i, out, pc) \in Jobs
  BY <1>2, <1>3 DEF Jobs
<1>5. job' \in [Handlers -> Jobs]
  <2> HIDE DEF New
  <2> QED BY <1>1, <1>4, JobChanged
<1> QED BY <1>1, <1>2, <1>5, RanTyped DEF ParallelStepEnds, PlanTypeOK

\* A step of those run one after the other ends.
LEMMA StepEndTyped ==
  ASSUME PlanTypeOK, NEW h \in Handlers, StepEnds(h)
  PROVE  PlanTypeOK'
<1> DEFINE New(i, out, pc) == [job[h] EXCEPT !.res = Record(@, i, out), !.exec = @ \cup {i},
                                             !.todo = job[h].todo \ {i}, !.idx = i, !.pc = pc]
<1>1. PICK i \in job[h].todo, out \in RunOutcomes, pc \in {"wave", "running", "examine"} :
        Become(h, New(i, out, pc)) /\ Ran(h, i)
  BY DEF StepEnds
<1>2. i \in Steps /\ i \in Nat /\ pc \in Stages /\ job[h] \in Jobs
  BY JobFields, PlanAssumption DEF Stages
<1>3. Record(job[h].res, i, out) \in [Steps -> Outcomes]
  BY <1>2, JobFields, RecordTyped
<1>4. New(i, out, pc) \in Jobs
  BY <1>2, <1>3 DEF Jobs
<1>5. job' \in [Handlers -> Jobs]
  <2> HIDE DEF New
  <2> QED BY <1>1, <1>4, JobChanged
<1> QED BY <1>1, <1>2, <1>5, RanTyped DEF StepEnds, PlanTypeOK

\* The other steps of the goal handler.
LEMMA PlanStepTyped ==
  ASSUME PlanTypeOK, NEW p \in Plans, InsertPlan(p) \/ PlanStep(p)
  PROVE  PlanTypeOK'
<1>0. p \in Handlers /\ job[p] \in Jobs /\ row[p] \in Rows
  BY JobFields DEF Handlers, PlanTypeOK
<1>1. CASE InsertPlan(p)
  <2>1. PICK s \in Shapes : row' = [row EXCEPT ![p].st = "running", ![p].steps = s]
                            /\ Become(p, [job[p] EXCEPT !.pc = "inserted", !.steps = s])
    BY <1>1 DEF InsertPlan
  <2>2. [job[p] EXCEPT !.pc = "inserted", !.steps = s] \in Jobs
    BY <1>0 DEF Jobs, Stages
  <2>3. row' \in [Plans -> Rows]
    BY <2>1 DEF PlanTypeOK, Rows
  <2> QED BY <1>0, <1>1, <2>1, <2>2, <2>3, JobChanged DEF InsertPlan, PlanTypeOK
<1>2. CASE BeginPlan(p)
  BY <1>0, <1>2, GoTyped DEF BeginPlan, RaiseFlag, PlanTypeOK, Stages
<1>3. CASE Examine(p)
  <2> DEFINE Res(verdict) == IF verdict = "irrelevant" THEN [job[p].res EXCEPT ![job[p].idx] = "failed"]
                                                       ELSE job[p].res
             Row(res) == [row EXCEPT ![p].res = res, ![p].cur = job[p].idx + 1, ![p].att = job[p].att]
  <2>1. PICK verdict \in {"relevant", "irrelevant", "adjust"} :
          /\ Become(p, [job[p] EXCEPT !.pc = "saved", !.res = Res(verdict)])
          /\ row' = Row(Res(verdict))
          /\ IF verdict = "adjust"
             THEN steered' = steered + 1 /\ queue' = queue + 1
             ELSE UNCHANGED <<steered, queue>>
    BY <1>3, Zenon DEF Examine
  <2>2. Res(verdict) \in [Steps -> Outcomes]
    BY <1>0, JobFields DEF Outcomes
  <2>3. [job[p] EXCEPT !.pc = "saved", !.res = Res(verdict)] \in Jobs
    <3> HIDE DEF Res
    <3> QED BY <1>0, <2>2 DEF Jobs, Stages
  <2>4. row' \in [Plans -> Rows]
    <3>1. job[p].att \in Nat /\ job[p].idx + 1 \in Nat
      BY <1>0, JobFields
    <3> HIDE DEF Res
    <3> QED BY <1>0, <2>1, <2>2, <3>1 DEF PlanTypeOK, Rows
  <2>5. job' \in [Handlers -> Jobs]
    <3> HIDE DEF Res
    <3> QED BY <1>0, <2>1, <2>3, JobChanged
  <2> QED BY <1>3, <2>1, <2>4, <2>5 DEF Examine, PlanTypeOK
<1>4. CASE RetryGroup(p)
  <2> DEFINE j == [job[p] EXCEPT !.att = @ + 1]
  <2>1. j \in Jobs
    BY <1>0 DEF Jobs
  <2>2. [j EXCEPT !.pc = "steering", !.retrying = TRUE] \in Jobs
    <3> HIDE DEF j
    <3> QED BY <2>1 DEF Jobs, Stages
  <2>3. FromTheFirstWave(GroupCleared(j)) \in Jobs
    BY <2>1, ClearedTyped
  <2>4. PICK new \in Jobs : Become(p, new)
    BY <1>4, <2>2, <2>3 DEF RetryGroup
  <2>5. job' \in [Handlers -> Jobs]
    BY <1>0, <2>4, JobChanged
  <2>6. resets' \in [Handlers -> [Steps -> Nat]]
    BY <1>0, <1>4, ResetTyped DEF RetryGroup, PlanTypeOK
  <2> QED BY <1>4, <2>5, <2>6 DEF RetryGroup, PlanTypeOK
<1>5. CASE Proceed(p)
  <2>1. PICK pc \in {"wave", "steering"} : Go(p, pc)
    BY <1>5 DEF Proceed
  <2> QED BY <1>0, <1>5, <2>1, GoTyped DEF Proceed, PlanTypeOK, Stages
<1>6. CASE PausePlan(p)
  BY <1>0, <1>6, GoTyped, RowStatusTyped DEF PausePlan, PlanTypeOK, Stages
<1>7. CASE PauseEnd(p)
  BY <1>0, <1>7, GoTyped DEF PauseEnd, LowerFlag, PlanTypeOK, Stages, Ended
<1>8. CASE Replan(p)
  <2>1. PICK s \in Shapes :
          /\ row' = [row EXCEPT ![p].steps = s]
          /\ Become(p, FromTheFirstWave([job[p] EXCEPT !.steps = s, !.att = 0, !.retrying = FALSE]))
    BY <1>8 DEF Replan
  <2>2. [job[p] EXCEPT !.steps = s, !.att = 0, !.retrying = FALSE] \in Jobs
    BY <1>0 DEF Jobs
  <2>3. job' \in [Handlers -> Jobs]
    BY <1>0, <2>1, <2>2, ClearedTyped, JobChanged
  <2>4. row' \in [Plans -> Rows]
    BY <2>1 DEF PlanTypeOK, Rows
  <2> QED BY <1>8, <2>3, <2>4 DEF Replan, PlanTypeOK
<1>9. CASE KeepPlan(p)
  <2>1. CASE job[p].retrying
    BY <1>0, <1>9, <2>1, ClearedTyped, JobChanged, ResetTyped DEF KeepPlan, PlanTypeOK
  <2>2. CASE ~job[p].retrying
    BY <1>0, <1>9, <2>2, GoTyped DEF KeepPlan, PlanTypeOK, Stages
  <2> QED BY <2>1, <2>2
<1>10. CASE CompletePlan(p)
  BY <1>0, <1>10, GoTyped, RowStatusTyped DEF CompletePlan, LowerFlag, PlanTypeOK, Stages, Ended
<1>11. CASE PlanRaises(p)
  BY <1>0, <1>11, GoTyped DEF PlanRaises, LowerFlag, PlanTypeOK, Stages, Ended
<1> QED BY <1>0, <1>1, <1>2, <1>3, <1>4, <1>5, <1>6, <1>7, <1>8, <1>9, <1>10, <1>11, WaveTyped,
           ParallelEndTyped, StepEndTyped DEF PlanStep

\* A goal message works on its own plan, a resumption on the one it selected; the step a
\* resumption has started is one of its plan.
InPlan(h) ==
  /\ h \in Plans => job[h].plan = h
  /\ h \in Resumers /\ job[h].pc # "idle" => job[h].plan \in Plans
  /\ job[h].pc = "resumed" => job[h].idx \in StepsOf(job[h].steps)

\* The steps of a resumption.
LEMMA ResumeStepTyped ==
  ASSUME PlanTypeOK, NEW c \in Resumers, InPlan(c), SelectPaused(c) \/ ResumeStep(c)
  PROVE  PlanTypeOK'
<1>0. c \in Handlers /\ job[c] \in Jobs /\ job[c].idx + 1 \in Nat /\ job[c].att + 1 \in Nat
  BY JobFields DEF Handlers
<1>1. CASE SelectPaused(c)
  <2> DEFINE New(p) == [job[c] EXCEPT !.pc = "selected", !.plan = p, !.steps = row[p].steps,
                                      !.res = row[p].res, !.att = row[p].att]
  <2>1. PICK p \in Plans : Become(c, New(p))
    BY <1>1 DEF SelectPaused
  <2>2. row[p] \in Rows /\ p \in Handlers
    BY DEF PlanTypeOK, Handlers
  <2>3. New(p) \in Jobs
    BY <1>0, <2>2 DEF Jobs, Rows, Stages
  <2>4. job' \in [Handlers -> Jobs]
    <3> HIDE DEF New
    <3> QED BY <1>0, <2>1, <2>3, JobChanged
  <2> QED BY <1>1, <2>4 DEF SelectPaused, PlanTypeOK
<1>2. CASE ResumeRefused(c)
  BY <1>0, <1>2, GoTyped DEF ResumeRefused, PlanTypeOK, Stages, Ended
<1>3. CASE BeginResume(c)
  <2> DEFINE New == [job[c] EXCEPT !.pc = "next", !.idx = 0,
                                   !.exec = {i \in Steps : job[c].res[i] = "completed"}]
  <2>1. New \in Jobs
    BY <1>0 DEF Jobs, Stages
  <2>2. Become(c, New) /\ row' \in [Plans -> Rows]
    BY <1>0, <1>3, RowStatusTyped DEF BeginResume
  <2>3. job' \in [Handlers -> Jobs]
    <3> HIDE DEF New
    <3> QED BY <1>0, <2>1, <2>2, JobChanged
  <2>4. overlapped' \subseteq Plans
    BY <1>0, <1>3 DEF BeginResume, InPlan, PlanTypeOK
  <2> QED BY <1>3, <2>2, <2>3, <2>4 DEF BeginResume, PlanTypeOK
<1>4. CASE ResumeNext(c)
  <2> DEFINE j == job[c]
             Passed == [j EXCEPT !.idx = @ + 1]
             Skipped == [j EXCEPT !.idx = @ + 1, !.exec = @ \cup {j.idx},
                                  !.res = [j.res EXCEPT ![j.idx] = "skipped"]]
             Started == [j EXCEPT !.pc = "resumed"]
  <2>1. Become(c, Passed) \/ Become(c, Skipped) \/ Become(c, Started)
    BY <1>4, Zenon DEF ResumeNext
  <2>2. Passed \in Jobs /\ Started \in Jobs
    BY <1>0 DEF Jobs, Stages
  <2>3. [j.res EXCEPT ![j.idx] = "skipped"] \in [Steps -> Outcomes]
    BY <1>0, JobFields DEF Outcomes
  <2>4. j.idx \in Steps
    BY <1>0, <1>4, JobFields, ShapeFacts DEF ResumeNext, StepsOf
  <2>5. Skipped \in Jobs
    <3>1. job[c].exec \cup {job[c].idx} \in SUBSET Steps
      BY <1>0, <2>4, JobFields
    <3> QED BY <1>0, <2>3, <3>1 DEF Jobs
  <2>6. job' \in [Handlers -> Jobs]
    <3> HIDE DEF Passed, Skipped, Started
    <3> QED BY <1>0, <2>1, <2>2, <2>5, JobChanged
  <2> QED BY <1>4, <2>6 DEF ResumeNext, PlanTypeOK
<1>5. CASE ResumedStepEnds(c)
  <2> DEFINE New(res) == [job[c] EXCEPT !.pc = "decide", !.res = res, !.exec = @ \cup {job[c].idx}]
             Row(res) == [row EXCEPT ![job[c].plan].res = res, ![job[c].plan].cur = job[c].idx + 1,
                                     ![job[c].plan].att = job[c].att]
  <2>1. PICK out \in RunOutcomes :
          LET res == Record(job[c].res, job[c].idx, out)
          IN  Become(c, New(res)) /\ row' = Row(res) /\ Ran(c, job[c].idx)
    BY <1>5 DEF ResumedStepEnds
  <2> DEFINE res == Record(job[c].res, job[c].idx, out)
  <2>2. job[c].idx \in Steps
    BY <1>0, <1>5, JobFields, ShapeFacts DEF ResumedStepEnds, InPlan
  <2>3. res \in [Steps -> Outcomes]
    BY <1>0, <2>2, JobFields, RecordTyped
  <2> HIDE DEF res
  <2>4. New(res) \in Jobs
    BY <1>0, <2>2, <2>3 DEF Jobs, Stages
  <2>5. job[c].att \in Nat /\ job[c].idx + 1 \in Nat
    BY <1>0, JobFields
  <2>6. row' \in [Plans -> Rows]
    <3>1. row' = Row(res)
      BY <2>1 DEF res
    <3>2. job[c].plan \in Plans
      BY <1>5 DEF ResumedStepEnds, InPlan
    <3>3. \A p \in Plans : row[p] \in Rows
      BY DEF PlanTypeOK
    <3>4. [row[job[c].plan] EXCEPT !.res = res, !.cur = job[c].idx + 1, !.att = job[c].att] \in Rows
      BY <2>3, <2>5, <3>2, <3>3 DEF Rows
    <3>5. row' = [row EXCEPT ![job[c].plan] = [row[job[c].plan] EXCEPT !.res = res,
                                                 !.cur = job[c].idx + 1, !.att = job[c].att]]
      BY <3>1, <3>2 DEF PlanTypeOK
    <3> QED BY <3>2, <3>4, <3>5 DEF PlanTypeOK
  <2> QED BY <1>0, <1>5, <2>1, <2>2, <2>4, <2>6, JobChanged, RanTyped
             DEF ResumedStepEnds, PlanTypeOK, res
<1>6. CASE ResumeGoesOn(c)
  <2>1. [job[c] EXCEPT !.pc = "next", !.idx = @ + 1] \in Jobs
    BY <1>0 DEF Jobs, Stages
  <2> QED BY <1>0, <1>6, <2>1, JobChanged DEF ResumeGoesOn, PlanTypeOK
<1>7. CASE ResumeRetries(c)
  <2> DEFINE k == GroupCleared(job[c])
  <2>1. k \in Jobs
    BY <1>0, ClearedTyped
  <2>2. [k EXCEPT !.att = @ + 1, !.pc = "next", !.idx = 0] \in Jobs
    <3> HIDE DEF k
    <3>1. k.att + 1 \in Nat
      BY <2>1 DEF Jobs
    <3> QED BY <2>1, <3>1 DEF Jobs, Stages
  <2> QED BY <1>0, <1>7, <2>2, JobChanged, ResetTyped DEF ResumeRetries, PlanTypeOK
<1>8. CASE ResumePauses(c)
  BY <1>0, <1>8, GoTyped, RowStatusTyped DEF ResumePauses, PlanTypeOK, Stages, Ended
<1>9. CASE ResumeCompletes(c)
  BY <1>0, <1>9, GoTyped, RowStatusTyped DEF ResumeCompletes, PlanTypeOK, Stages, Ended
<1>10. CASE ResumeRaises(c)
  BY <1>0, <1>10, GoTyped DEF ResumeRaises, PlanTypeOK, Stages, Ended
<1> QED BY <1>1, <1>2, <1>3, <1>4, <1>5, <1>6, <1>7, <1>8, <1>9, <1>10 DEF ResumeStep

\* Compound messages, and the environment.
LEMMA OthersTyped ==
  ASSUME PlanTypeOK, (\E m \in Compounds : BeginCompound(m) \/ CompoundStep(m))
                     \/ InjectSteering \/ Crash \/ UNCHANGED planVars
  PROVE  PlanTypeOK'
<1>1. ASSUME NEW m \in Compounds, BeginCompound(m) \/ CompoundStep(m) PROVE PlanTypeOK'
  <2>0. m \in Handlers /\ job[m] \in Jobs
    BY JobFields DEF Handlers
  <2>1. CASE BeginCompound(m)
    <3>1. PICK s \in Splits : Become(m, [job[m] EXCEPT !.pc = "wave", !.steps = s])
      BY <2>1 DEF BeginCompound
    <3>2. [job[m] EXCEPT !.pc = "wave", !.steps = s] \in Jobs
      BY <2>0 DEF Jobs, Stages
    <3> QED BY <2>0, <2>1, <3>1, <3>2, JobChanged DEF BeginCompound, RaiseFlag, PlanTypeOK
  <2>2. CASE EndCompound(m)
    BY <2>0, <2>2, GoTyped DEF EndCompound, LowerFlag, PlanTypeOK, Stages, Ended
  <2>3. CASE CompoundRaises(m)
    BY <2>0, <2>3, GoTyped DEF CompoundRaises, PlanTypeOK, Stages, Ended
  <2> QED BY <1>1, <2>0, <2>1, <2>2, <2>3, WaveTyped, ParallelEndTyped, StepEndTyped
          DEF CompoundStep
<1>2. CASE InjectSteering
  BY <1>2 DEF InjectSteering, PlanTypeOK
<1>3. CASE Crash
  <2>1. ASSUME NEW h \in Handlers PROVE [job[h] EXCEPT !.pc = "crashed"] \in Jobs
    <3>1. job[h] \in Jobs
      BY <2>1, JobFields
    <3> QED BY <3>1 DEF Jobs, Stages, Ended
  <2>2. job' \in [Handlers -> Jobs]
    <3> DEFINE New(h) == IF job[h].pc \in Ended \cup {"idle"} THEN job[h]
                         ELSE [job[h] EXCEPT !.pc = "crashed"]
    <3>1. \A h \in Handlers : New(h) \in Jobs
      BY <2>1, JobFields
    <3>2. job' = [h \in Handlers |-> New(h)]
      BY <1>3 DEF Crash
    <3> HIDE DEF New
    <3> QED BY <3>1, <3>2
  <2>3. /\ UNCHANGED <<row, ran, resets, steered, overlapped>>
        /\ executing' \in BOOLEAN /\ queue' \in Nat
    BY <1>3 DEF Crash, LowerFlag
  <2>4. crashes' \in Nat
    BY <1>3 DEF Crash, PlanTypeOK
  <2> QED BY <2>2, <2>3, <2>4 DEF PlanTypeOK
<1>4. CASE UNCHANGED planVars
  BY <1>4 DEF planVars, PlanTypeOK
<1> QED BY <1>1, <1>2, <1>3, <1>4

-----------------------------------------------------------------------------
(* The inductive invariant, handler by handler.                            *)

\* A handler runs only steps that it has not executed since they were last cleared.
Counted(h) ==
  /\ \A i \in Steps : ran[h][i] <= 1 + resets[h][i]
  /\ \A i \in Steps \ job[h].exec : ran[h][i] <= resets[h][i]
  /\ job[h].pc \in {"idle", "selected"} => \A i \in Steps : ran[h][i] = 0
  /\ job[h].todo \cap job[h].exec = {}
  /\ h \in Resumers => job[h].todo = {}
  /\ job[h].pc = "resumed" => job[h].idx \notin job[h].exec

HandlerInv(h) == InPlan(h) /\ Counted(h)

\* The messages that may have raised the flag.
Holding(h) ==
  \/ h \in Plans /\ InTry(h)
  \/ h \in Compounds /\ job[h].pc \in {"wave", "parallel", "running", "raised"}

\* The messages a running row may count on.
WorksOn(h, p) ==
  /\ h \in Plans \cup Resumers
  /\ job[h].plan = p
  /\ job[h].pc \notin {"idle", "selected", "refused", "pausing", "completed", "paused"}

FlagHeld == executing \/ queue > 0 => \E h \in Handlers : Holding(h)

PlanInv ==
  /\ PlanTypeOK
  /\ \A h \in Handlers : HandlerInv(h)
  /\ FlagHeld
  /\ RunningHasWorker

\* What a step of handler h does to the other handlers, to the flag and to the rows.
Alone(h) == \A g \in Handlers \ {h} : job'[g] = job[g] /\ ran'[g] = ran[g] /\ resets'[g] = resets[g]

FlagKept(h) ==
  executing' \/ queue' > 0 => Holding(h)' \/ ((executing \/ queue > 0) /\ ~Holding(h))

RowKept(h) ==
  \A p \in Plans : row'[p].st = "running" =>
    WorksOn(h, p)' \/ (row[p].st = "running" /\ ~WorksOn(h, p))

StepKeeps(h) == HandlerInv(h)' /\ Alone(h) /\ FlagKept(h) /\ RowKept(h)

LEMMA InitPlanInv == Init => PlanInv
<1> SUFFICES ASSUME Init PROVE PlanInv
  OBVIOUS
<1>1. \A h \in Handlers : HandlerInv(h)
  BY DEF Init, HandlerInv, InPlan, Counted
<1> QED BY <1>1, InitTyped DEF Init, PlanInv, FlagHeld, RunningHasWorker

\* Steps that keep to the shape StepKeeps preserve the invariant.
LEMMA KeepsInv ==
  ASSUME PlanInv, PlanTypeOK', NEW h \in Handlers, StepKeeps(h)
  PROVE  PlanInv'
<1>1. ASSUME NEW g \in Handlers PROVE HandlerInv(g)'
  <2>1. CASE g = h
    BY <2>1 DEF StepKeeps
  <2>2. CASE g # h
    BY <1>1, <2>2 DEF StepKeeps, Alone, PlanInv, HandlerInv, InPlan, Counted
  <2> QED BY <2>1, <2>2
<1>2. FlagHeld'
  <2> SUFFICES ASSUME executing' \/ queue' > 0 PROVE \E g \in Handlers : Holding(g)'
    BY DEF FlagHeld
  <2>1. CASE Holding(h)'
    BY <2>1
  <2>2. CASE (executing \/ queue > 0) /\ ~Holding(h)
    <3>1. PICK g \in Handlers : Holding(g)
      BY <2>2 DEF PlanInv, FlagHeld
    <3> QED BY <2>2, <3>1 DEF StepKeeps, Alone, Holding, InTry
  <2> QED BY <2>1, <2>2 DEF StepKeeps, FlagKept
<1>3. RunningHasWorker'
  <2> SUFFICES ASSUME NEW p \in Plans, row'[p].st = "running"
               PROVE  \E g \in Handlers : WorksOn(g, p)'
    BY DEF RunningHasWorker, WorksOn, Handlers
  <2>1. CASE WorksOn(h, p)'
    BY <2>1
  <2>2. CASE row[p].st = "running" /\ ~WorksOn(h, p)
    <3>1. PICK g \in Handlers : WorksOn(g, p)
      BY <2>2 DEF PlanInv, RunningHasWorker, WorksOn, Handlers
    <3> QED BY <2>2, <3>1 DEF StepKeeps, Alone, WorksOn
  <2> QED BY <2>1, <2>2 DEF StepKeeps, RowKept
<1> QED BY <1>1, <1>2, <1>3 DEF PlanInv

\* A handler that moves on without running or clearing a step.
LEMMA MovesOn ==
  ASSUME PlanTypeOK, NEW h \in Handlers, HandlerInv(h), NEW j, Become(h, j),
         UNCHANGED <<ran, resets>>, h \in Resumers => job[h].pc # "idle",
         j.exec = job[h].exec, j.todo = job[h].todo, j.plan = job[h].plan,
         j.pc \notin {"idle", "selected", "resumed"}
  PROVE  HandlerInv(h)' /\ Alone(h) /\ job'[h] = j
<1>1. job'[h] = j /\ \A g \in Handlers \ {h} : job'[g] = job[g]
  BY DEF Become, PlanTypeOK
<1> QED BY <1>1 DEF HandlerInv, InPlan, Counted, Alone

LEMMA GoesOn ==
  ASSUME PlanTypeOK, NEW h \in Handlers, HandlerInv(h), NEW pc, Go(h, pc),
         UNCHANGED <<ran, resets>>, h \in Resumers => job[h].pc # "idle",
         pc \notin {"idle", "selected", "resumed"}
  PROVE  HandlerInv(h)' /\ Alone(h) /\ job'[h].pc = pc /\ job'[h].plan = job[h].plan
<1> DEFINE j == [job[h] EXCEPT !.pc = pc]
<1>1. j.exec = job[h].exec /\ j.todo = job[h].todo /\ j.plan = job[h].plan /\ j.pc = pc
  BY JobFields DEF Jobs
<1>2. Become(h, j)
  BY DEF Go
<1> HIDE DEF j
<1> QED BY <1>1, <1>2, MovesOn

\* What clearing the group and restarting the waves leave of a job.
LEMMA ClearedFields ==
  ASSUME NEW j \in Jobs
  PROVE  LET k == GroupCleared(j)
         IN  /\ k.exec = j.exec \ (j.steps.work \cup j.steps.verify)
             /\ k.todo = j.todo /\ k.plan = j.plan
             /\ FromTheFirstWave(k).exec = k.exec /\ FromTheFirstWave(k).todo = j.todo
             /\ FromTheFirstWave(k).plan = j.plan /\ FromTheFirstWave(k).pc = "wave"
             /\ FromTheFirstWave(j).exec = j.exec /\ FromTheFirstWave(j).todo = j.todo
             /\ FromTheFirstWave(j).plan = j.plan /\ FromTheFirstWave(j).pc = "wave"
<1>1. ASSUME NEW k \in Jobs
      PROVE  /\ FromTheFirstWave(k).exec = k.exec /\ FromTheFirstWave(k).todo = k.todo
             /\ FromTheFirstWave(k).plan = k.plan /\ FromTheFirstWave(k).pc = "wave"
  BY <1>1 DEF FromTheFirstWave, Jobs
<1>2. /\ GroupCleared(j).exec = j.exec \ (j.steps.work \cup j.steps.verify)
      /\ GroupCleared(j).todo = j.todo /\ GroupCleared(j).plan = j.plan
  BY DEF GroupCleared, Jobs
<1>3. GroupCleared(j) \in Jobs
  BY ClearedTyped
<1> QED BY <1>1, <1>2, <1>3

\* The steps of the group are cleared, and counted as such.
LEMMA Clears ==
  ASSUME PlanTypeOK, NEW h \in Handlers, HandlerInv(h), NEW j, Become(h, j),
         CountReset(h), UNCHANGED ran, job[h].pc # "idle",
         j.exec = job[h].exec \ (job[h].steps.work \cup job[h].steps.verify),
         j.todo = job[h].todo, j.plan = job[h].plan,
         j.pc \notin {"idle", "selected", "resumed"}
  PROVE  HandlerInv(h)' /\ Alone(h) /\ job'[h] = j
<1>1. job'[h] = j /\ \A g \in Handlers \ {h} : job'[g] = job[g]
  BY DEF Become, PlanTypeOK
<1>2. /\ \A i \in Steps : resets'[h][i] =
           IF i \in job[h].steps.work \cup job[h].steps.verify THEN resets[h][i] + 1
                                                              ELSE resets[h][i]
      /\ \A g \in Handlers \ {h} : resets'[g] = resets[g]
  BY DEF CountReset, PlanTypeOK
<1>3. \A i \in Steps : ran[h][i] \in Nat /\ resets[h][i] \in Nat
  BY DEF PlanTypeOK
<1> QED BY <1>1, <1>2, <1>3 DEF HandlerInv, InPlan, Counted, Alone

\* A step that was not executed has been run.
LEMMA Runs ==
  ASSUME PlanTypeOK, NEW h \in Handlers, HandlerInv(h), NEW j, Become(h, j), NEW i \in Steps,
         Ran(h, i), UNCHANGED resets, i \notin job[h].exec, job[h].pc \notin {"idle", "selected"},
         j.exec = job[h].exec \cup {i}, j.todo = job[h].todo \ {i}, j.plan = job[h].plan,
         j.pc \notin {"idle", "selected", "resumed"}
  PROVE  HandlerInv(h)' /\ Alone(h) /\ job'[h] = j
<1>1. job'[h] = j /\ \A g \in Handlers \ {h} : job'[g] = job[g]
  BY DEF Become, PlanTypeOK
<1>2. /\ \A k \in Steps : ran'[h][k] = IF k = i THEN ran[h][k] + 1 ELSE ran[h][k]
      /\ \A g \in Handlers \ {h} : ran'[g] = ran[g]
  BY DEF Ran, PlanTypeOK
<1>3. \A k \in Steps : ran[h][k] \in Nat /\ resets[h][k] \in Nat
  BY DEF PlanTypeOK
<1> QED BY <1>1, <1>2, <1>3 DEF HandlerInv, InPlan, Counted, Alone

\* The waves, of a plan or of a compound message.
LEMMA WaveKeeps ==
  ASSUME PlanTypeOK, NEW h \in Plans \cup Compounds, HandlerInv(h), EnterWave(h)
  PROVE  StepKeeps(h)
<1>0. h \in Handlers /\ job[h] \in Jobs /\ h \notin Resumers
  BY JobFields, PlanAssumption DEF Handlers
<1> DEFINE j == job[h]
           wave == NextWave(j)
           skipped == {i \in wave \ j.exec : Blocked(j, i)}
           todo == (wave \ j.exec) \ skipped
<1>1. PICK new : /\ Become(h, new)
                 /\ new.exec = j.exec \cup skipped /\ new.todo = todo /\ new.plan = j.plan
                 /\ new.pc \in {"parallel", "running"} \cup (IF h \in Plans THEN {"examine"}
                                                            ELSE {"wave"})
  <2> DEFINE parallel == Cardinality(todo) > 1 /\ (h \in Plans => todo \cap j.steps.work = {})
             res == [i \in Steps |-> IF i \in skipped THEN "skipped" ELSE j.res[i]]
             pc == CASE parallel -> "parallel"
                     [] todo # {} /\ ~parallel -> "running"
                     [] todo = {} -> IF h \in Plans THEN "examine" ELSE "wave"
             New(last) == [j EXCEPT !.res = res, !.exec = j.exec \cup skipped,
                                    !.assigned = j.assigned \cup wave, !.waves = j.waves + 1,
                                    !.todo = todo, !.idx = last, !.pc = pc]
  <2>1. PICK last \in wave : Become(h, New(last))
    BY DEF EnterWave
  <2>2. pc \in {"parallel", "running"} \cup (IF h \in Plans THEN {"examine"} ELSE {"wave"})
    <3>1. parallel \in BOOLEAN
      OBVIOUS
    <3> HIDE DEF todo, parallel
    <3> QED BY <3>1
  <2>3. /\ New(last).exec = j.exec \cup skipped /\ New(last).todo = todo
        /\ New(last).plan = j.plan /\ New(last).pc = pc
    <3>1. j \in Jobs
      BY <1>0
    <3> HIDE DEF j, wave, skipped, todo, res, pc
    <3> QED BY <3>1 DEF Jobs
  <2> HIDE DEF New, pc, skipped, todo
  <2> QED BY <2>1, <2>2, <2>3
<1>2. job'[h] = new /\ \A g \in Handlers \ {h} : job'[g] = job[g]
  BY <1>0, <1>1 DEF Become, PlanTypeOK
<1>3. /\ UNCHANGED <<row, ran, resets, executing, queue>> /\ job[h].pc = "wave"
      /\ todo \cap (j.exec \cup skipped) = {}
  BY DEF EnterWave
<1>4. HandlerInv(h)' /\ Alone(h)
  <2> HIDE DEF skipped, todo
  <2> QED BY <1>0, <1>1, <1>2, <1>3 DEF HandlerInv, InPlan, Counted, Alone
<1>5. FlagKept(h)
  BY <1>0, <1>1, <1>2, <1>3, PlanAssumption DEF FlagKept, Holding, InTry
<1>6. RowKept(h)
  <2> HIDE DEF skipped, todo
  <2> QED BY <1>0, <1>1, <1>2, <1>3 DEF RowKept, WorksOn
<1> QED BY <1>4, <1>5, <1>6 DEF StepKeeps

LEMMA ParallelEndKeeps ==
  ASSUME PlanTypeOK, NEW h \in Plans \cup Compounds, HandlerInv(h), ParallelStepEnds(h)
  PROVE  StepKeeps(h)
<1>0. h \in Handlers /\ job[h] \in Jobs
  BY JobFields DEF Handlers
<1> DEFINE New(i, out, pc) == [job[h] EXCEPT !.res = Record(@, i, out), !.exec = @ \cup {i},
                                             !.todo = job[h].todo \ {i}, !.pc = pc]
<1>1. PICK i \in job[h].todo, out \in RunOutcomes, pc \in {"wave", "parallel"} :
        Become(h, New(i, out, pc)) /\ Ran(h, i)
  BY DEF ParallelStepEnds
<1>2. /\ New(i, out, pc).exec = job[h].exec \cup {i}
      /\ New(i, out, pc).todo = job[h].todo \ {i}
      /\ New(i, out, pc).plan = job[h].plan /\ New(i, out, pc).pc = pc
  BY <1>0 DEF Jobs
<1>3. i \in Steps /\ i \notin job[h].exec
  BY <1>0, JobFields DEF HandlerInv, Counted
<1>4. job[h].pc = "parallel" /\ UNCHANGED <<row, executing, queue, resets>>
  BY DEF ParallelStepEnds
<1>5. HandlerInv(h)' /\ Alone(h) /\ job'[h] = New(i, out, pc)
  <2> HIDE DEF New
  <2> QED BY <1>0, <1>1, <1>2, <1>3, <1>4, Runs
<1> HIDE DEF New
<1> QED BY <1>2, <1>4, <1>5, PlanAssumption
        DEF StepKeeps, FlagKept, RowKept, Holding, InTry, WorksOn

LEMMA StepEndKeeps ==
  ASSUME PlanTypeOK, NEW h \in Plans \cup Compounds, HandlerInv(h), StepEnds(h)
  PROVE  StepKeeps(h)
<1>0. h \in Handlers /\ job[h] \in Jobs
  BY JobFields DEF Handlers
<1> DEFINE New(i, out, pc) == [job[h] EXCEPT !.res = Record(@, i, out), !.exec = @ \cup {i},
                                             !.todo = job[h].todo \ {i}, !.idx = i, !.pc = pc]
<1>1. PICK i \in job[h].todo, out \in RunOutcomes,
           pc \in {"running"} \cup (IF h \in Plans THEN {"examine"} ELSE {"wave"}) :
        Become(h, New(i, out, pc)) /\ Ran(h, i)
  BY DEF StepEnds
<1>2. /\ New(i, out, pc).exec = job[h].exec \cup {i}
      /\ New(i, out, pc).todo = job[h].todo \ {i}
      /\ New(i, out, pc).plan = job[h].plan /\ New(i, out, pc).pc = pc
  BY <1>0 DEF Jobs
<1>3. i \in Steps /\ i \notin job[h].exec
  BY <1>0, JobFields DEF HandlerInv, Counted
<1>4. job[h].pc = "running" /\ UNCHANGED <<row, executing, queue, resets>>
  BY DEF StepEnds
<1>5. HandlerInv(h)' /\ Alone(h) /\ job'[h] = New(i, out, pc)
  <2> HIDE DEF New
  <2> QED BY <1>0, <1>1, <1>2, <1>3, <1>4, Runs
<1> HIDE DEF New
<1> QED BY <1>2, <1>4, <1>5, PlanAssumption
        DEF StepKeeps, FlagKept, RowKept, Holding, InTry, WorksOn

\* The other steps of the goal handler.
LEMMA PlanStepKeeps ==
  ASSUME PlanTypeOK, NEW p \in Plans, HandlerInv(p), InsertPlan(p) \/ PlanStep(p)
  PROVE  StepKeeps(p)
<1>0. /\ p \in Handlers /\ p \notin Resumers /\ p \notin Compounds /\ job[p] \in Jobs
      /\ job[p].plan = p /\ row \in [Plans -> Rows]
  BY JobFields, PlanAssumption DEF Handlers, HandlerInv, InPlan, PlanTypeOK
<1>1. CASE InsertPlan(p)
  <2>1. PICK s \in Shapes : row' = [row EXCEPT ![p].st = "running", ![p].steps = s]
                            /\ Become(p, [job[p] EXCEPT !.pc = "inserted", !.steps = s])
    BY <1>1 DEF InsertPlan
  <2> DEFINE new == [job[p] EXCEPT !.pc = "inserted", !.steps = s]
  <2>2. /\ new.exec = job[p].exec /\ new.todo = job[p].todo /\ new.plan = job[p].plan
        /\ new.pc = "inserted"
    BY <1>0 DEF Jobs
  <2>3. HandlerInv(p)' /\ Alone(p) /\ job'[p] = new
    <3>1. Become(p, new)
      BY <2>1
    <3> HIDE DEF new
    <3> QED BY <1>0, <1>1, <2>2, <3>1, MovesOn DEF InsertPlan
  <2>4. \A q \in Plans \ {p} : row'[q] = row[q]
    BY <1>0, <2>1
  <2> HIDE DEF new
  <2> QED BY <1>0, <1>1, <2>2, <2>3, <2>4
          DEF InsertPlan, StepKeeps, FlagKept, RowKept, Holding, InTry, WorksOn
<1>2. CASE BeginPlan(p)
  <2>1. HandlerInv(p)' /\ Alone(p) /\ job'[p].pc = "wave" /\ job'[p].plan = job[p].plan
    BY <1>0, <1>2, GoesOn DEF BeginPlan
  <2> QED BY <1>0, <1>2, <2>1
          DEF BeginPlan, StepKeeps, FlagKept, RowKept, Holding, InTry, WorksOn
<1>3. CASE Examine(p)
  <2>1. PICK res : /\ Become(p, [job[p] EXCEPT !.pc = "saved", !.res = res])
                   /\ row' = [row EXCEPT ![p].res = res, ![p].cur = job[p].idx + 1,
                                         ![p].att = job[p].att]
    BY <1>3, Zenon DEF Examine
  <2> DEFINE new == [job[p] EXCEPT !.pc = "saved", !.res = res]
  <2>2. /\ new.exec = job[p].exec /\ new.todo = job[p].todo /\ new.plan = job[p].plan
        /\ new.pc = "saved"
    BY <1>0 DEF Jobs
  <2>3. job[p].pc = "examine" /\ UNCHANGED <<ran, resets, executing>>
    BY <1>3 DEF Examine
  <2>4. HandlerInv(p)' /\ Alone(p) /\ job'[p] = new
    <3>1. Become(p, new)
      BY <2>1
    <3> HIDE DEF new
    <3> QED BY <1>0, <2>2, <2>3, <3>1, MovesOn
  <2>5. \A q \in Plans : row'[q].st = row[q].st
    BY <1>0, <2>1 DEF Rows
  <2> HIDE DEF new
  <2> QED BY <1>0, <2>2, <2>3, <2>4, <2>5
          DEF StepKeeps, FlagKept, RowKept, Holding, InTry, WorksOn
<1>4. CASE RetryGroup(p)
  <2> DEFINE j == [job[p] EXCEPT !.att = @ + 1]
             again == FromTheFirstWave(GroupCleared(j))
             waits == [j EXCEPT !.pc = "steering", !.retrying = TRUE]
  <2>1. /\ job[p].pc = "saved" /\ UNCHANGED <<row, ran, executing>>
        /\ \/ Become(p, again) /\ CountReset(p)
           \/ Become(p, waits) /\ UNCHANGED resets
    BY <1>4 DEF RetryGroup
  <2>2. /\ j \in Jobs /\ j.exec = job[p].exec /\ j.todo = job[p].todo /\ j.plan = job[p].plan
        /\ j.steps = job[p].steps
    BY <1>0 DEF Jobs
  <2>3. /\ again.exec = job[p].exec \ (job[p].steps.work \cup job[p].steps.verify)
        /\ again.todo = job[p].todo /\ again.plan = job[p].plan /\ again.pc = "wave"
    <3> HIDE DEF j
    <3> QED BY <2>2, ClearedFields
  <2>4. /\ waits.exec = job[p].exec /\ waits.todo = job[p].todo /\ waits.plan = job[p].plan
        /\ waits.pc = "steering"
    <3> HIDE DEF j
    <3> QED BY <2>2 DEF Jobs
  <2>5. HandlerInv(p)' /\ Alone(p) /\ job'[p].plan = p /\ job'[p].pc \in {"wave", "steering"}
    <3> HIDE DEF again, waits
    <3>1. CASE Become(p, again) /\ CountReset(p)
      BY <1>0, <2>1, <2>3, <3>1, Clears
    <3>2. CASE Become(p, waits) /\ UNCHANGED resets
      BY <1>0, <2>1, <2>4, <3>2, MovesOn
    <3> QED BY <2>1, <3>1, <3>2
  <2> QED BY <1>0, <2>1, <2>5
          DEF StepKeeps, FlagKept, RowKept, Holding, InTry, WorksOn
<1>5. CASE Proceed(p)
  <2>1. PICK pc \in {"wave", "steering"} : Go(p, pc)
    BY <1>5 DEF Proceed
  <2>2. HandlerInv(p)' /\ Alone(p) /\ job'[p].pc = pc /\ job'[p].plan = job[p].plan
    BY <1>0, <1>5, <2>1, GoesOn DEF Proceed
  <2> QED BY <1>0, <1>5, <2>2
          DEF Proceed, StepKeeps, FlagKept, RowKept, Holding, InTry, WorksOn
<1>6. CASE PausePlan(p)
  <2>1. HandlerInv(p)' /\ Alone(p) /\ job'[p].pc = "pausing" /\ job'[p].plan = job[p].plan
    BY <1>0, <1>6, GoesOn DEF PausePlan
  <2>2. row'[p].st = "paused" /\ \A q \in Plans \ {p} : row'[q] = row[q]
    BY <1>0, <1>6 DEF PausePlan, SetRowStatus, Rows
  <2> QED BY <1>0, <1>6, <2>1, <2>2
          DEF PausePlan, StepKeeps, FlagKept, RowKept, Holding, InTry, WorksOn
<1>7. CASE PauseEnd(p)
  <2>1. HandlerInv(p)' /\ Alone(p) /\ job'[p].pc = "paused" /\ job'[p].plan = job[p].plan
    BY <1>0, <1>7, GoesOn DEF PauseEnd
  <2> QED BY <1>0, <1>7, <2>1 DEF PauseEnd, LowerFlag, StepKeeps, FlagKept, RowKept, WorksOn
<1>8. CASE Replan(p)
  <2>1. PICK s \in Shapes :
          /\ row' = [row EXCEPT ![p].steps = s]
          /\ Become(p, FromTheFirstWave([job[p] EXCEPT !.steps = s, !.att = 0, !.retrying = FALSE]))
    BY <1>8 DEF Replan
  <2> DEFINE j == [job[p] EXCEPT !.steps = s, !.att = 0, !.retrying = FALSE]
             new == FromTheFirstWave(j)
  <2>2. j \in Jobs /\ j.exec = job[p].exec /\ j.todo = job[p].todo /\ j.plan = job[p].plan
    BY <1>0 DEF Jobs
  <2>3. /\ new.exec = job[p].exec /\ new.todo = job[p].todo /\ new.plan = job[p].plan
        /\ new.pc = "wave"
    <3> HIDE DEF j
    <3> QED BY <2>2, ClearedFields
  <2>4. HandlerInv(p)' /\ Alone(p) /\ job'[p] = new
    <3> HIDE DEF new
    <3> QED BY <1>0, <1>8, <2>1, <2>3, MovesOn DEF Replan, new
  <2>5. \A q \in Plans : row'[q].st = row[q].st
    BY <1>0, <2>1 DEF Rows
  <2> HIDE DEF new
  <2> QED BY <1>0, <1>8, <2>3, <2>4, <2>5
          DEF Replan, StepKeeps, FlagKept, RowKept, Holding, InTry, WorksOn
<1>9. CASE KeepPlan(p)
  <2> DEFINE again == FromTheFirstWave(GroupCleared(job[p]))
  <2>1. /\ again.exec = job[p].exec \ (job[p].steps.work \cup job[p].steps.verify)
        /\ again.todo = job[p].todo /\ again.plan = job[p].plan /\ again.pc = "wave"
    BY <1>0, ClearedFields
  <2>2. HandlerInv(p)' /\ Alone(p) /\ job'[p].plan = p /\ job'[p].pc = "wave"
    <3>1. CASE job[p].retrying
      <4>1. Become(p, again) /\ CountReset(p) /\ UNCHANGED ran /\ job[p].pc = "steering"
        BY <1>9, <3>1 DEF KeepPlan
      <4> HIDE DEF again
      <4> QED BY <1>0, <2>1, <4>1, Clears
    <3>2. CASE ~job[p].retrying
      BY <1>0, <1>9, <3>2, GoesOn DEF KeepPlan
    <3> QED BY <3>1, <3>2
  <2> HIDE DEF again
  <2> QED BY <1>0, <1>9, <2>2
          DEF KeepPlan, StepKeeps, FlagKept, RowKept, Holding, InTry, WorksOn
<1>10. CASE CompletePlan(p)
  <2>1. HandlerInv(p)' /\ Alone(p) /\ job'[p].pc = "completed" /\ job'[p].plan = job[p].plan
    BY <1>0, <1>10, GoesOn DEF CompletePlan
  <2>2. row'[p].st = "completed" /\ \A q \in Plans \ {p} : row'[q] = row[q]
    BY <1>0, <1>10 DEF CompletePlan, SetRowStatus, Rows
  <2> QED BY <1>0, <1>10, <2>1, <2>2
          DEF CompletePlan, LowerFlag, StepKeeps, FlagKept, RowKept, WorksOn
<1>11. CASE PlanRaises(p)
  <2>1. HandlerInv(p)' /\ Alone(p) /\ job'[p].pc = "raised" /\ job'[p].plan = job[p].plan
    BY <1>0, <1>11, GoesOn DEF PlanRaises
  <2> QED BY <1>0, <1>11, <2>1 DEF PlanRaises, LowerFlag, StepKeeps, FlagKept, RowKept, WorksOn
<1> QED BY <1>1, <1>2, <1>3, <1>4, <1>5, <1>6, <1>7, <1>8, <1>9, <1>10, <1>11, WaveKeeps,
           ParallelEndKeeps, StepEndKeeps DEF PlanStep

\* A compound message.
LEMMA CompoundStepKeeps ==
  ASSUME PlanTypeOK, NEW m \in Compounds, HandlerInv(m), BeginCompound(m) \/ CompoundStep(m)
  PROVE  StepKeeps(m)
<1>0. m \in Handlers /\ m \notin Resumers /\ m \notin Plans /\ job[m] \in Jobs
  BY JobFields, PlanAssumption DEF Handlers
<1>1. CASE BeginCompound(m)
  <2>1. PICK s \in Splits : Become(m, [job[m] EXCEPT !.pc = "wave", !.steps = s])
    BY <1>1 DEF BeginCompound
  <2> DEFINE new == [job[m] EXCEPT !.pc = "wave", !.steps = s]
  <2>2. /\ new.exec = job[m].exec /\ new.todo = job[m].todo /\ new.plan = job[m].plan
        /\ new.pc = "wave"
    BY <1>0 DEF Jobs
  <2>3. HandlerInv(m)' /\ Alone(m) /\ job'[m] = new
    <3>1. Become(m, new)
      BY <2>1
    <3> HIDE DEF new
    <3> QED BY <1>0, <1>1, <2>2, <3>1, MovesOn DEF BeginCompound
  <2> HIDE DEF new
  <2> QED BY <1>0, <1>1, <2>2, <2>3
          DEF BeginCompound, StepKeeps, FlagKept, RowKept, Holding, WorksOn
<1>2. CASE EndCompound(m)
  <2>1. HandlerInv(m)' /\ Alone(m)
    BY <1>0, <1>2, GoesOn DEF EndCompound
  <2> QED BY <1>0, <1>2, <2>1 DEF EndCompound, LowerFlag, StepKeeps, FlagKept, RowKept, WorksOn
<1>3. CASE CompoundRaises(m)
  <2>1. HandlerInv(m)' /\ Alone(m) /\ job'[m].pc = "raised"
    BY <1>0, <1>3, GoesOn DEF CompoundRaises
  <2> QED BY <1>0, <1>3, <2>1
          DEF CompoundRaises, StepKeeps, FlagKept, RowKept, Holding, WorksOn
<1> QED BY <1>1, <1>2, <1>3, WaveKeeps, ParallelEndKeeps, StepEndKeeps DEF CompoundStep

\* A resumption never raises the flag and never holds it.
LEMMA ResumeKeepsFlag ==
  ASSUME NEW c \in Resumers, UNCHANGED <<executing, queue>>
  PROVE  FlagKept(c)
BY PlanAssumption DEF FlagKept, Holding

LEMMA ResumeStepKeeps ==
  ASSUME PlanTypeOK, NEW c \in Resumers, HandlerInv(c), SelectPaused(c) \/ ResumeStep(c)
  PROVE  StepKeeps(c)
<1>0. /\ c \in Handlers /\ job[c] \in Jobs /\ row \in [Plans -> Rows]
      /\ job[c].pc # "idle" => job[c].plan \in Plans
  BY JobFields DEF Handlers, HandlerInv, InPlan, PlanTypeOK
<1>1. FlagKept(c)
  <2>1. UNCHANGED <<executing, queue>>
    BY DEF SelectPaused, ResumeStep, ResumeRefused, BeginResume, ResumeNext, ResumedStepEnds,
           ResumeGoesOn, ResumeRetries, ResumePauses, ResumeCompletes, ResumeRaises
  <2> QED BY <2>1, ResumeKeepsFlag
<1> SUFFICES HandlerInv(c)' /\ Alone(c) /\ RowKept(c)
  BY <1>1 DEF StepKeeps
<1>2. CASE SelectPaused(c)
  <2> DEFINE New(p) == [job[c] EXCEPT !.pc = "selected", !.plan = p, !.steps = row[p].steps,
                                      !.res = row[p].res, !.att = row[p].att]
  <2>1. PICK p \in Plans : Become(c, New(p))
    BY <1>2 DEF SelectPaused
  <2>2. /\ New(p).exec = job[c].exec /\ New(p).todo = job[c].todo /\ New(p).plan = p
        /\ New(p).pc = "selected"
    BY <1>0 DEF Jobs
  <2>3. job'[c] = New(p) /\ \A g \in Handlers \ {c} : job'[g] = job[g]
    <3> HIDE DEF New
    <3> QED BY <1>0, <2>1 DEF Become, PlanTypeOK
  <2>4. job[c].pc = "idle" /\ UNCHANGED <<row, ran, resets>>
    BY <1>2 DEF SelectPaused
  <2> HIDE DEF New
  <2>5. HandlerInv(c)' /\ Alone(c)
    <3>1. c \notin Plans
      BY PlanAssumption
    <3> QED BY <2>2, <2>3, <2>4, <3>1 DEF HandlerInv, InPlan, Counted, Alone
  <2> QED BY <2>4, <2>5 DEF RowKept, WorksOn
<1>3. CASE ResumeRefused(c)
  <2>1. HandlerInv(c)' /\ Alone(c)
    BY <1>0, <1>3, GoesOn DEF ResumeRefused
  <2> QED BY <1>3, <2>1 DEF ResumeRefused, RowKept, WorksOn
<1>4. CASE BeginResume(c)
  <2> DEFINE new == [job[c] EXCEPT !.pc = "next", !.idx = 0,
                                   !.exec = {i \in Steps : job[c].res[i] = "completed"}]
  <2>1. Become(c, new) /\ job[c].pc = "selected" /\ UNCHANGED <<ran, resets>>
        /\ row' = [row EXCEPT ![job[c].plan].st = "running"]
    BY <1>4 DEF BeginResume, SetRowStatus
  <2>2. /\ new.exec \subseteq Steps /\ new.todo = job[c].todo /\ new.plan = job[c].plan
        /\ new.pc = "next"
    BY <1>0 DEF Jobs
  <2> HIDE DEF new
  <2>3. job'[c] = new /\ \A g \in Handlers \ {c} : job'[g] = job[g]
    BY <1>0, <2>1 DEF Become, PlanTypeOK
  <2>4. \A i \in Steps : ran[c][i] = 0 /\ resets[c][i] \in Nat
    BY <1>0, <2>1 DEF HandlerInv, Counted, PlanTypeOK
  <2>5. HandlerInv(c)' /\ Alone(c)
    <3>1. InPlan(c)'
      BY <2>1, <2>2, <2>3 DEF HandlerInv, InPlan
    <3>2. Counted(c)'
      BY <2>1, <2>2, <2>3, <2>4 DEF HandlerInv, Counted
    <3> QED BY <2>1, <2>3, <3>1, <3>2 DEF HandlerInv, Alone
  <2>6. \A p \in Plans \ {job[c].plan} : row'[p] = row[p]
    BY <1>0, <2>1
  <2> QED BY <2>1, <2>2, <2>3, <2>5, <2>6 DEF RowKept, WorksOn
<1>5. CASE ResumeNext(c)
  <2> DEFINE j == job[c]
             passed == [j EXCEPT !.idx = @ + 1]
             skipped == [j EXCEPT !.idx = @ + 1, !.exec = @ \cup {j.idx},
                                  !.res = [j.res EXCEPT ![j.idx] = "skipped"]]
             started == [j EXCEPT !.pc = "resumed"]
  <2>1. /\ j.pc = "next" /\ j.idx < j.steps.n /\ UNCHANGED <<row, ran, resets>>
        /\ \/ Become(c, passed)
           \/ Become(c, skipped)
           \/ Become(c, started) /\ j.idx \notin j.exec
    BY <1>5, Zenon DEF ResumeNext
  <2>2. /\ passed.exec = j.exec /\ passed.todo = j.todo /\ passed.plan = j.plan
        /\ passed.pc = j.pc
        /\ skipped.exec = j.exec \cup {j.idx} /\ skipped.todo = j.todo /\ skipped.plan = j.plan
        /\ skipped.pc = j.pc
        /\ started.exec = j.exec /\ started.todo = j.todo /\ started.plan = j.plan
        /\ started.pc = "resumed" /\ started.idx = j.idx /\ started.steps = j.steps
    BY <1>0 DEF Jobs
  <2>3. j.idx \in StepsOf(j.steps)
    BY <1>0, <2>1, JobFields, ShapeFacts DEF StepsOf
  <2> HIDE DEF passed, skipped, started
  <2>4. PICK new \in {passed, skipped, started} :
          /\ job'[c] = new /\ \A g \in Handlers \ {c} : job'[g] = job[g]
          /\ new = started => j.idx \notin j.exec
    BY <1>0, <2>1, <2>2 DEF Become, PlanTypeOK
  <2>5. HandlerInv(c)' /\ Alone(c)
    BY <2>1, <2>2, <2>3, <2>4 DEF HandlerInv, InPlan, Counted, Alone
  <2> QED BY <2>1, <2>2, <2>4, <2>5 DEF RowKept, WorksOn
<1>6. CASE ResumedStepEnds(c)
  <2> DEFINE New(res) == [job[c] EXCEPT !.pc = "decide", !.res = res, !.exec = @ \cup {job[c].idx}]
  <2>1. PICK res : /\ Become(c, New(res)) /\ Ran(c, job[c].idx)
                   /\ row' = [row EXCEPT ![job[c].plan].res = res,
                                         ![job[c].plan].cur = job[c].idx + 1,
                                         ![job[c].plan].att = job[c].att]
    BY <1>6 DEF ResumedStepEnds
  <2>2. /\ New(res).exec = job[c].exec \cup {job[c].idx} /\ New(res).plan = job[c].plan
        /\ New(res).todo = job[c].todo \ {job[c].idx} /\ New(res).pc = "decide"
    <3>1. job[c].todo = {}
      BY DEF HandlerInv, Counted
    <3> QED BY <1>0, <3>1 DEF Jobs
  <2>3. /\ job[c].pc = "resumed" /\ UNCHANGED resets
        /\ job[c].idx \in Steps /\ job[c].idx \notin job[c].exec
    BY <1>0, <1>6, JobFields, ShapeFacts DEF ResumedStepEnds, HandlerInv, InPlan, Counted
  <2> HIDE DEF New
  <2>4. HandlerInv(c)' /\ Alone(c) /\ job'[c] = New(res)
    BY <1>0, <2>1, <2>2, <2>3, Runs
  <2>5. \A p \in Plans : row'[p].st = row[p].st
    BY <1>0, <2>1, <2>3 DEF Rows
  <2> QED BY <2>2, <2>3, <2>4, <2>5 DEF RowKept, WorksOn
<1>7. CASE ResumeGoesOn(c)
  <2> DEFINE new == [job[c] EXCEPT !.pc = "next", !.idx = @ + 1]
  <2>1. Become(c, new) /\ job[c].pc = "decide" /\ UNCHANGED <<row, ran, resets>>
    BY <1>7 DEF ResumeGoesOn
  <2>2. /\ new.exec = job[c].exec /\ new.todo = job[c].todo /\ new.plan = job[c].plan
        /\ new.pc = "next"
    BY <1>0 DEF Jobs
  <2> HIDE DEF new
  <2>3. HandlerInv(c)' /\ Alone(c) /\ job'[c] = new
    BY <1>0, <2>1, <2>2, MovesOn
  <2> QED BY <2>1, <2>2, <2>3 DEF RowKept, WorksOn
<1>8. CASE ResumeRetries(c)
  <2> DEFINE k == GroupCleared(job[c])
             new == [k EXCEPT !.att = @ + 1, !.pc = "next", !.idx = 0]
  <2>1. /\ Become(c, new) /\ job[c].pc = "decide" /\ UNCHANGED <<row, ran>>
        /\ CountReset(c)
    BY <1>8 DEF ResumeRetries
  <2>2. k \in Jobs
    BY <1>0, ClearedTyped
  <2>3. /\ k.exec = job[c].exec \ (job[c].steps.work \cup job[c].steps.verify)
        /\ k.todo = job[c].todo /\ k.plan = job[c].plan
    BY <1>0, ClearedFields
  <2>4. /\ new.exec = job[c].exec \ (job[c].steps.work \cup job[c].steps.verify)
        /\ new.todo = job[c].todo /\ new.plan = job[c].plan /\ new.pc = "next"
    <3> HIDE DEF k
    <3> QED BY <2>2, <2>3 DEF Jobs
  <2> HIDE DEF new
  <2>5. HandlerInv(c)' /\ Alone(c) /\ job'[c] = new
    BY <1>0, <2>1, <2>4, Clears
  <2> QED BY <2>1, <2>4, <2>5 DEF RowKept, WorksOn
<1>9. CASE ResumePauses(c)
  <2>1. HandlerInv(c)' /\ Alone(c)
    BY <1>0, <1>9, GoesOn DEF ResumePauses
  <2>2. /\ row'[job[c].plan].st = "paused" /\ job[c].plan \in Plans
        /\ \A p \in Plans \ {job[c].plan} : row'[p] = row[p]
    BY <1>0, <1>9 DEF ResumePauses, SetRowStatus, Rows
  <2> QED BY <2>1, <2>2 DEF RowKept, WorksOn
<1>10. CASE ResumeCompletes(c)
  <2>1. HandlerInv(c)' /\ Alone(c)
    BY <1>0, <1>10, GoesOn DEF ResumeCompletes
  <2>2. /\ row'[job[c].plan].st = "completed" /\ job[c].plan \in Plans
        /\ \A p \in Plans \ {job[c].plan} : row'[p] = row[p]
    BY <1>0, <1>10 DEF ResumeCompletes, SetRowStatus, Rows
  <2> QED BY <2>1, <2>2 DEF RowKept, WorksOn
<1>11. CASE ResumeRaises(c)
  <2>1. HandlerInv(c)' /\ Alone(c) /\ job'[c].pc = "raised" /\ job'[c].plan = job[c].plan
    BY <1>0, <1>11, GoesOn DEF ResumeRaises
  <2> QED BY <1>11, <2>1 DEF ResumeRaises, RowKept, WorksOn
<1> QED BY <1>2, <1>3, <1>4, <1>5, <1>6, <1>7, <1>8, <1>9, <1>10, <1>11 DEF ResumeStep

\* Steering, a restart, and a step of nobody.
LEMMA EnvironmentKeeps ==
  ASSUME PlanInv, PlanTypeOK', InjectSteering \/ Crash \/ UNCHANGED planVars
  PROVE  PlanInv'
<1>1. CASE InjectSteering
  BY <1>1 DEF InjectSteering, PlanInv, HandlerInv, InPlan, Counted, FlagHeld, Holding, InTry,
              RunningHasWorker
<1>2. CASE Crash
  <2> DEFINE New(h) == IF job[h].pc \in Ended \cup {"idle"} THEN job[h]
                       ELSE [job[h] EXCEPT !.pc = "crashed"]
  <2>1. \A h \in Handlers : job'[h] = New(h)
    BY <1>2 DEF Crash
  <2>2. ASSUME NEW h \in Handlers
        PROVE  /\ New(h).exec = job[h].exec /\ New(h).todo = job[h].todo
               /\ New(h).plan = job[h].plan
               /\ job[h].pc \in Ended \cup {"idle"} => New(h).pc = job[h].pc
               /\ job[h].pc \notin Ended \cup {"idle"} => New(h).pc = "crashed"
    <3>1. job[h] \in Jobs
      BY <2>2, JobFields DEF PlanInv
    <3> QED BY <3>1 DEF Jobs
  <2> HIDE DEF New
  <2>3. UNCHANGED <<row, ran, resets>>
    BY <1>2 DEF Crash
  <2>4. ASSUME NEW h \in Handlers PROVE HandlerInv(h)'
    <3>1. HandlerInv(h) /\ job'[h] = New(h)
      BY <2>1, <2>4 DEF PlanInv
    <3> QED BY <2>2, <2>3, <2>4, <3>1 DEF HandlerInv, InPlan, Counted, Ended
  <2>5. FlagHeld'
    BY <1>2 DEF Crash, LowerFlag, FlagHeld
  <2>6. RunningHasWorker'
    <3> SUFFICES ASSUME NEW p \in Plans, row[p].st = "running"
                 PROVE  \E h \in Handlers : WorksOn(h, p)'
      BY <2>3 DEF RunningHasWorker, WorksOn, Handlers
    <3>1. PICK h \in Handlers : WorksOn(h, p)
      BY DEF PlanInv, RunningHasWorker, WorksOn, Handlers
    <3>2. job'[h] = New(h)
      BY <2>1
    <3> QED BY <2>2, <3>1, <3>2 DEF WorksOn
  <2> QED BY <2>4, <2>5, <2>6 DEF PlanInv
<1>3. CASE UNCHANGED planVars
  BY <1>3 DEF planVars, PlanInv, HandlerInv, InPlan, Counted, FlagHeld, Holding, InTry,
              RunningHasWorker
<1> QED BY <1>1, <1>2, <1>3

LEMMA NextPlanInv == PlanInv /\ [Next]_planVars => PlanInv'
<1> SUFFICES ASSUME PlanInv, [Next]_planVars PROVE PlanInv'
  OBVIOUS
<1>1. PlanTypeOK /\ \A h \in Handlers : HandlerInv(h)
  BY DEF PlanInv
<1>2. PlanTypeOK'
  BY <1>1, PlanStepTyped, ResumeStepTyped, OthersTyped DEF Next, HandlerInv, Handlers
<1>3. CASE \E p \in Plans : InsertPlan(p) \/ PlanStep(p)
  BY <1>1, <1>2, <1>3, PlanStepKeeps, KeepsInv DEF Handlers
<1>4. CASE \E m \in Compounds : BeginCompound(m) \/ CompoundStep(m)
  BY <1>1, <1>2, <1>4, CompoundStepKeeps, KeepsInv DEF Handlers
<1>5. CASE \E c \in Resumers : SelectPaused(c) \/ ResumeStep(c)
  BY <1>1, <1>2, <1>5, ResumeStepKeeps, KeepsInv DEF Handlers
<1>6. CASE InjectSteering \/ Crash \/ UNCHANGED planVars
  BY <1>2, <1>6, EnvironmentKeeps
<1> QED BY <1>3, <1>4, <1>5, <1>6 DEF Next

LEMMA PlanInvAlways == Spec => []PlanInv
<1> QED BY InitPlanInv, NextPlanInv, PTL DEF Spec

-----------------------------------------------------------------------------
(* The theorems.                                                           *)

\* Every variable has its type, PlanTypeOK, in every reachable state, whatever messages
\* there are: a resumed step is a step of its plan, a resumed plan one that has a row.
THEOREM PlanTypeCorrect == Spec => []PlanTypeOK
<1>1. PlanInv => PlanTypeOK
  BY DEF PlanInv
<1> QED BY <1>1, PlanInvAlways, PTL

\* A handler runs a step once, and once more for each time its group was cleared
\* (plan_executor.py, the restartable loop of handle_goal and that of try_resume_plan).
THEOREM StepsNotRepeated == Spec => []RunsBounded
<1>1. PlanInv => RunsBounded
  BY DEF PlanInv, HandlerInv, Counted, RunsBounded
<1> QED BY <1>1, PlanInvAlways, PTL

\* Queued steering has a plan to take it, or a compound message that runs or has raised
\* (plan_executor.py, inject_steering and the finally clause of handle_goal).
THEOREM SteeringIsTaken == Spec => []SteeringHasAPlan
<1>1. PlanInv => SteeringHasAPlan
  BY DEF PlanInv, FlagHeld, Holding, SteeringHasAPlan
<1> QED BY <1>1, PlanInvAlways, PTL

\* A row that says "running" has a handler at work on it, or one that raised or that a
\* restart ended (plan_executor.py, the updates of plans.status).
THEOREM RunningIsWorkedOn == Spec => []RunningHasWorker
<1>1. PlanInv => RunningHasWorker
  BY DEF PlanInv
<1> QED BY <1>1, PlanInvAlways, PTL

-----------------------------------------------------------------------------
(* What completes has left nothing behind.                                 *)

\* The steps of the waves so far have been executed or are being run; a resumption has
\* executed all steps before the one it stands at.
Covered(j) ==
  /\ j.pc \in {"idle", "inserted"} => j.assigned = {}
  /\ j.pc \in {"wave", "examine", "saved", "steering"} => j.assigned \subseteq j.exec
  /\ j.pc \in {"parallel", "running"} => j.assigned \subseteq j.exec \cup j.todo
  /\ j.pc \in {"next", "resumed", "decide"} =>
       \A i \in StepsOf(j.steps) : i < j.idx => i \in j.exec
  /\ j.pc = "decide" => j.idx \in j.exec
  /\ j.pc = "completed" => NothingLeft(j)

CoverInv == \A h \in Handlers : Covered(job[h])

LEMMA InitCovered == Init => CoverInv
BY DEF Init, CoverInv, Covered

LEMMA BecomesCovered ==
  ASSUME PlanTypeOK, CoverInv, NEW h \in Handlers, NEW j, Become(h, j), Covered(j)
  PROVE  CoverInv'
<1>1. job'[h] = j /\ \A g \in Handlers \ {h} : job'[g] = job[g]
  BY DEF Become, PlanTypeOK
<1>2. ASSUME NEW g \in Handlers PROVE Covered(job'[g])
  BY <1>1, <1>2 DEF CoverInv
<1> QED BY <1>2 DEF CoverInv, Covered, NothingLeft, Knot, StepsOf

\* A handler that ends otherwise owes nothing; one that goes on with its waves has
\* executed those so far.
LEMMA GoCovers ==
  ASSUME PlanTypeOK, CoverInv, NEW h \in Handlers, NEW pc, Go(h, pc),
         \/ pc \in {"pausing", "paused", "raised", "refused", "crashed"}
         \/ /\ pc \in {"wave", "steering"}
            /\ job[h].pc \in {"inserted", "saved", "steering"}
  PROVE  CoverInv'
<1> DEFINE j == [job[h] EXCEPT !.pc = pc]
<1>1. j.exec = job[h].exec /\ j.assigned = job[h].assigned /\ j.pc = pc
  BY JobFields DEF Jobs
<1>2. Become(h, j)
  BY DEF Go
<1>3. Covered(job[h])
  BY DEF CoverInv
<1> HIDE DEF j
<1>4. Covered(j)
  BY <1>1, <1>3 DEF Covered
<1> QED BY <1>2, <1>4, BecomesCovered

\* When build_execution_waves has no further wave, what is left waits for itself.
LEMMA NoWaveNothingLeft ==
  ASSUME NEW j \in Jobs, NextWave(j) = {}, j.assigned \subseteq j.exec
  PROVE  NothingLeft(j)
<1>1. CASE j.waves = MaxWaves
  BY <1>1 DEF NothingLeft
<1>2. CASE j.waves # MaxWaves
  <2> DEFINE C == StepsOf(j.steps) \ j.assigned
  <2>1. ASSUME NEW i \in C PROVE j.steps.deps[i] \cap (C \cup (Steps \ StepsOf(j.steps))) # {}
    <3>1. ~(j.steps.deps[i] \subseteq j.assigned)
      BY <1>2, <2>1 DEF NextWave
    <3>2. PICK d \in j.steps.deps[i] : d \notin j.assigned
      BY <3>1
    <3>3. j.steps \in AnyShape
      BY DEF Jobs, AnyShape
    <3>4. i \in Steps /\ j.steps.deps \in [Steps -> SUBSET Steps]
      BY <2>1, <3>3, ShapeFacts
    <3>5. d \in Steps
      BY <3>2, <3>4
    <3> QED BY <3>2, <3>5
  <2>2. Knot(j.steps, C)
    BY <2>1 DEF Knot
  <2>3. StepsOf(j.steps) \ j.exec \subseteq C
    OBVIOUS
  <2> QED BY <2>2, <2>3 DEF NothingLeft
<1> QED BY <1>1, <1>2

LEMMA WaveCovers ==
  ASSUME PlanTypeOK, CoverInv, NEW h \in Handlers, EnterWave(h)
  PROVE  CoverInv'
<1> DEFINE j == job[h]
           wave == NextWave(j)
           skipped == {i \in wave \ j.exec : Blocked(j, i)}
           todo == (wave \ j.exec) \ skipped
           parallel == Cardinality(todo) > 1 /\ (h \in Plans => todo \cap j.steps.work = {})
           res == [i \in Steps |-> IF i \in skipped THEN "skipped" ELSE j.res[i]]
           pc == CASE parallel -> "parallel"
                   [] todo # {} /\ ~parallel -> "running"
                   [] todo = {} -> IF h \in Plans THEN "examine" ELSE "wave"
           New(last) == [j EXCEPT !.res = res, !.exec = j.exec \cup skipped,
                                  !.assigned = j.assigned \cup wave, !.waves = j.waves + 1,
                                  !.todo = todo, !.idx = last, !.pc = pc]
<1>1. PICK last \in wave : Become(h, New(last))
  BY DEF EnterWave
<1>2. j.assigned \subseteq j.exec
  BY DEF EnterWave, CoverInv, Covered
<1>3. /\ New(last).exec = j.exec \cup skipped /\ New(last).todo = todo
      /\ New(last).assigned = j.assigned \cup wave /\ New(last).pc = pc
  <2>1. j \in Jobs
    BY JobFields
  <2> HIDE DEF j, wave, skipped, todo, res, pc
  <2> QED BY <2>1 DEF Jobs
<1>4. \/ pc \in {"parallel", "running"}
      \/ pc \in {"examine", "wave"} /\ todo = {}
  <2>1. parallel \in BOOLEAN /\ (parallel => todo # {})
    <3>1. todo = {} => Cardinality(todo) = 0
      BY FS_EmptySet
    <3> HIDE DEF todo
    <3> QED BY <3>1
  <2> HIDE DEF todo, parallel
  <2> QED BY <2>1
<1>5. j.assigned \cup wave \subseteq (j.exec \cup skipped) \cup todo
  BY <1>2
<1>6. Covered(New(last))
  <2> HIDE DEF New, pc, skipped, todo, wave, j
  <2> QED BY <1>3, <1>4, <1>5 DEF Covered
<1> HIDE DEF New
<1> QED BY <1>1, <1>6, BecomesCovered

LEMMA RunsCover ==
  ASSUME PlanTypeOK, CoverInv, NEW h \in Handlers, ParallelStepEnds(h) \/ StepEnds(h)
  PROVE  CoverInv'
<1>0. job[h] \in Jobs
  BY JobFields
<1>1. \E i \in job[h].todo : \E new :
        /\ Become(h, new) /\ job[h].pc \in {"parallel", "running"}
        /\ new.exec = job[h].exec \cup {i} /\ new.todo = job[h].todo \ {i}
        /\ new.assigned = job[h].assigned
        /\ \/ new.pc \in {"parallel", "running"}
           \/ new.pc \in {"wave", "examine"} /\ new.todo = {}
  <2>1. CASE ParallelStepEnds(h)
    <3> DEFINE New(i, out, pc) == [job[h] EXCEPT !.res = Record(@, i, out), !.exec = @ \cup {i},
                                                 !.todo = job[h].todo \ {i}, !.pc = pc]
    <3>1. PICK i \in job[h].todo, out \in RunOutcomes, pc \in {"wave", "parallel"} :
            Become(h, New(i, out, pc)) /\ (pc = "wave" => job[h].todo \ {i} = {})
      BY <2>1 DEF ParallelStepEnds
    <3>2. /\ New(i, out, pc).exec = job[h].exec \cup {i}
          /\ New(i, out, pc).todo = job[h].todo \ {i}
          /\ New(i, out, pc).assigned = job[h].assigned /\ New(i, out, pc).pc = pc
      BY <1>0 DEF Jobs
    <3>3. job[h].pc = "parallel"
      BY <2>1 DEF ParallelStepEnds
    <3> HIDE DEF New
    <3> QED BY <3>1, <3>2, <3>3
  <2>2. CASE StepEnds(h)
    <3> DEFINE New(i, out, pc) == [job[h] EXCEPT !.res = Record(@, i, out), !.exec = @ \cup {i},
                                                 !.todo = job[h].todo \ {i}, !.idx = i, !.pc = pc]
    <3>1. PICK i \in job[h].todo, out \in RunOutcomes, pc \in {"running", "wave", "examine"} :
            Become(h, New(i, out, pc)) /\ (pc # "running" => job[h].todo \ {i} = {})
      BY <2>2 DEF StepEnds
    <3>2. /\ New(i, out, pc).exec = job[h].exec \cup {i}
          /\ New(i, out, pc).todo = job[h].todo \ {i}
          /\ New(i, out, pc).assigned = job[h].assigned /\ New(i, out, pc).pc = pc
      BY <1>0 DEF Jobs
    <3>3. job[h].pc = "running"
      BY <2>2 DEF StepEnds
    <3> HIDE DEF New
    <3> QED BY <3>1, <3>2, <3>3
  <2> QED BY <2>1, <2>2
<1>2. PICK new : /\ Become(h, new) /\ job[h].pc \in {"parallel", "running"}
                 /\ new.assigned = job[h].assigned
                 /\ job[h].exec \cup job[h].todo \subseteq new.exec \cup new.todo
                 /\ \/ new.pc \in {"parallel", "running"}
                    \/ new.pc \in {"wave", "examine"} /\ new.todo = {}
  BY <1>1
<1>3. Covered(job[h])
  BY DEF CoverInv
<1>4. Covered(new)
  BY <1>2, <1>3 DEF Covered
<1> QED BY <1>2, <1>4, BecomesCovered

\* A plan whose waves start anew has no wave behind it.
LEMMA FirstWaveCovered ==
  ASSUME NEW j \in Jobs
  PROVE  Covered(FromTheFirstWave(j))
<1>1. FromTheFirstWave(j).pc = "wave" /\ FromTheFirstWave(j).assigned = {}
  BY DEF FromTheFirstWave, Jobs
<1> QED BY <1>1 DEF Covered

\* Completing in the waves: none is left.
LEMMA CompletesCovered ==
  ASSUME PlanTypeOK, CoverInv, NEW h \in Handlers, job[h].pc = "wave", NextWave(job[h]) = {},
         Go(h, "completed")
  PROVE  CoverInv'
<1> DEFINE j == [job[h] EXCEPT !.pc = "completed"]
<1>0. job[h] \in Jobs
  BY JobFields
<1>1. /\ j.exec = job[h].exec /\ j.steps = job[h].steps /\ j.waves = job[h].waves
      /\ j.pc = "completed"
  BY <1>0 DEF Jobs
<1>2. Become(h, j)
  BY DEF Go
<1>3. NothingLeft(job[h])
  BY <1>0, NoWaveNothingLeft DEF CoverInv, Covered
<1> HIDE DEF j
<1>4. Covered(j)
  BY <1>1, <1>3 DEF Covered, NothingLeft
<1> QED BY <1>2, <1>4, BecomesCovered

LEMMA PlanStepCovers ==
  ASSUME PlanTypeOK, CoverInv, NEW p \in Plans, InsertPlan(p) \/ PlanStep(p)
  PROVE  CoverInv'
<1>0. p \in Handlers /\ job[p] \in Jobs /\ Covered(job[p])
  BY JobFields DEF Handlers, CoverInv
<1>1. CASE InsertPlan(p)
  <2>1. PICK s \in Shapes : Become(p, [job[p] EXCEPT !.pc = "inserted", !.steps = s])
    BY <1>1 DEF InsertPlan
  <2> DEFINE new == [job[p] EXCEPT !.pc = "inserted", !.steps = s]
  <2>2. new.assigned = job[p].assigned /\ new.pc = "inserted" /\ job[p].pc = "idle"
    BY <1>0, <1>1 DEF Jobs, InsertPlan
  <2>3. Become(p, new)
    BY <2>1
  <2> HIDE DEF new
  <2>4. Covered(new)
    BY <1>0, <2>2 DEF Covered
  <2> QED BY <1>0, <2>3, <2>4, BecomesCovered
<1>2. CASE BeginPlan(p)
  BY <1>0, <1>2, GoCovers DEF BeginPlan
<1>3. CASE Examine(p)
  <2>1. PICK res : Become(p, [job[p] EXCEPT !.pc = "saved", !.res = res])
    BY <1>3, Zenon DEF Examine
  <2> DEFINE new == [job[p] EXCEPT !.pc = "saved", !.res = res]
  <2>2. new.assigned = job[p].assigned /\ new.exec = job[p].exec /\ new.pc = "saved"
    BY <1>0 DEF Jobs
  <2>3. Become(p, new) /\ job[p].pc = "examine"
    BY <1>3, <2>1 DEF Examine
  <2> HIDE DEF new
  <2>4. Covered(new)
    BY <1>0, <2>2, <2>3 DEF Covered
  <2> QED BY <1>0, <2>3, <2>4, BecomesCovered
<1>4. CASE RetryGroup(p)
  <2> DEFINE j == [job[p] EXCEPT !.att = @ + 1]
             waits == [j EXCEPT !.pc = "steering", !.retrying = TRUE]
  <2>1. /\ job[p].pc = "saved"
        /\ Become(p, FromTheFirstWave(GroupCleared(j))) \/ Become(p, waits)
    BY <1>4 DEF RetryGroup
  <2>2. j \in Jobs /\ j.assigned = job[p].assigned /\ j.exec = job[p].exec
    BY <1>0 DEF Jobs
  <2> HIDE DEF j
  <2>3. Covered(FromTheFirstWave(GroupCleared(j)))
    BY <2>2, ClearedTyped, FirstWaveCovered
  <2>4. waits.assigned = j.assigned /\ waits.exec = j.exec /\ waits.pc = "steering"
    BY <2>2 DEF Jobs
  <2> HIDE DEF waits
  <2>5. Covered(waits)
    BY <1>0, <2>1, <2>2, <2>4 DEF Covered
  <2> QED BY <1>0, <2>1, <2>3, <2>5, BecomesCovered
<1>5. CASE Proceed(p)
  <2>1. PICK pc \in {"wave", "steering"} : Go(p, pc)
    BY <1>5 DEF Proceed
  <2> QED BY <1>0, <1>5, <2>1, GoCovers DEF Proceed
<1>6. CASE PausePlan(p)
  BY <1>0, <1>6, GoCovers DEF PausePlan
<1>7. CASE PauseEnd(p)
  BY <1>0, <1>7, GoCovers DEF PauseEnd
<1>8. CASE Replan(p)
  <2>1. PICK s \in Shapes :
          Become(p, FromTheFirstWave([job[p] EXCEPT !.steps = s, !.att = 0, !.retrying = FALSE]))
    BY <1>8 DEF Replan
  <2>2. [job[p] EXCEPT !.steps = s, !.att = 0, !.retrying = FALSE] \in Jobs
    BY <1>0 DEF Jobs
  <2> QED BY <1>0, <2>1, <2>2, FirstWaveCovered, BecomesCovered
<1>9. CASE KeepPlan(p)
  <2>1. CASE job[p].retrying
    BY <1>0, <1>9, <2>1, ClearedTyped, FirstWaveCovered, BecomesCovered DEF KeepPlan
  <2>2. CASE ~job[p].retrying
    BY <1>0, <1>9, <2>2, GoCovers DEF KeepPlan
  <2> QED BY <2>1, <2>2
<1>10. CASE CompletePlan(p)
  BY <1>0, <1>10, CompletesCovered DEF CompletePlan
<1>11. CASE PlanRaises(p)
  BY <1>0, <1>11, GoCovers DEF PlanRaises
<1> QED BY <1>0, <1>1, <1>2, <1>3, <1>4, <1>5, <1>6, <1>7, <1>8, <1>9, <1>10, <1>11, WaveCovers,
           RunsCover DEF PlanStep

LEMMA CompoundStepCovers ==
  ASSUME PlanTypeOK, CoverInv, NEW m \in Compounds, BeginCompound(m) \/ CompoundStep(m)
  PROVE  CoverInv'
<1>0. m \in Handlers /\ job[m] \in Jobs /\ Covered(job[m])
  BY JobFields DEF Handlers, CoverInv
<1>1. CASE BeginCompound(m)
  <2>1. PICK s \in Splits : Become(m, [job[m] EXCEPT !.pc = "wave", !.steps = s])
    BY <1>1 DEF BeginCompound
  <2> DEFINE new == [job[m] EXCEPT !.pc = "wave", !.steps = s]
  <2>2. new.assigned = job[m].assigned /\ new.pc = "wave" /\ job[m].pc = "idle"
    BY <1>0, <1>1 DEF Jobs, BeginCompound
  <2>3. Become(m, new)
    BY <2>1
  <2> HIDE DEF new
  <2>4. Covered(new)
    BY <1>0, <2>2 DEF Covered
  <2> QED BY <1>0, <2>3, <2>4, BecomesCovered
<1>2. CASE EndCompound(m)
  BY <1>0, <1>2, CompletesCovered DEF EndCompound
<1>3. CASE CompoundRaises(m)
  BY <1>0, <1>3, GoCovers DEF CompoundRaises
<1> QED BY <1>0, <1>1, <1>2, <1>3, WaveCovers, RunsCover DEF CompoundStep

LEMMA ResumeStepCovers ==
  ASSUME PlanTypeOK, CoverInv, NEW c \in Resumers, SelectPaused(c) \/ ResumeStep(c)
  PROVE  CoverInv'
<1>0. c \in Handlers /\ job[c] \in Jobs /\ Covered(job[c]) /\ job[c].idx \in Nat
      /\ job[c].steps.n \in Nat
  BY JobFields, ShapeFacts DEF Handlers, CoverInv
<1>1. CASE SelectPaused(c)
  <2>1. PICK new : Become(c, new) /\ new.pc = "selected"
    <3> DEFINE New(p) == [job[c] EXCEPT !.pc = "selected", !.plan = p, !.steps = row[p].steps,
                                        !.res = row[p].res, !.att = row[p].att]
    <3>1. PICK p \in Plans : Become(c, New(p))
      BY <1>1 DEF SelectPaused
    <3>2. New(p).pc = "selected"
      BY <1>0 DEF Jobs
    <3> HIDE DEF New
    <3> QED BY <3>1, <3>2
  <2>2. Covered(new)
    BY <2>1 DEF Covered
  <2> QED BY <1>0, <2>1, <2>2, BecomesCovered
<1>2. CASE ResumeRefused(c)
  BY <1>0, <1>2, GoCovers DEF ResumeRefused
<1>3. CASE BeginResume(c)
  <2> DEFINE new == [job[c] EXCEPT !.pc = "next", !.idx = 0,
                                   !.exec = {i \in Steps : job[c].res[i] = "completed"}]
  <2>1. Become(c, new)
    BY <1>3 DEF BeginResume
  <2>2. new.pc = "next" /\ new.idx = 0 /\ new.steps = job[c].steps
    BY <1>0 DEF Jobs
  <2> HIDE DEF new
  <2>3. \A i \in StepsOf(new.steps) : ~(i < new.idx)
    BY <2>2 DEF StepsOf
  <2>4. Covered(new)
    BY <2>2, <2>3 DEF Covered
  <2> QED BY <1>0, <2>1, <2>4, BecomesCovered
<1>4. CASE ResumeNext(c)
  <2> DEFINE j == job[c]
             passed == [j EXCEPT !.idx = @ + 1]
             skipped == [j EXCEPT !.idx = @ + 1, !.exec = @ \cup {j.idx},
                                  !.res = [j.res EXCEPT ![j.idx] = "skipped"]]
             started == [j EXCEPT !.pc = "resumed"]
  <2>1. /\ j.pc = "next"
        /\ \/ Become(c, passed) /\ j.idx \in j.exec
           \/ Become(c, skipped)
           \/ Become(c, started)
    BY <1>4, Zenon DEF ResumeNext
  <2>2. /\ passed.exec = j.exec /\ passed.idx = j.idx + 1 /\ passed.pc = "next"
        /\ passed.steps = j.steps
        /\ skipped.exec = j.exec \cup {j.idx} /\ skipped.idx = j.idx + 1 /\ skipped.pc = "next"
        /\ skipped.steps = j.steps
        /\ started.exec = j.exec /\ started.idx = j.idx /\ started.pc = "resumed"
        /\ started.steps = j.steps
    BY <1>0, <2>1 DEF Jobs
  <2> HIDE DEF passed, skipped, started
  <2>3. PICK new \in {passed, skipped, started} :
          Become(c, new) /\ (new = passed => j.idx \in j.exec)
    BY <2>1, <2>2
  <2>4. \A i \in StepsOf(new.steps) : i < new.idx => i \in new.exec
    <3>1. \A i \in StepsOf(j.steps) : i < j.idx => i \in j.exec
      BY <1>0, <2>1 DEF Covered
    <3>2. \A i \in StepsOf(j.steps) : i < j.idx + 1 => i < j.idx \/ i = j.idx
      BY <1>0 DEF StepsOf
    <3> QED BY <2>2, <2>3, <3>1, <3>2
  <2>5. Covered(new)
    BY <2>2, <2>3, <2>4 DEF Covered
  <2> QED BY <1>0, <2>3, <2>5, BecomesCovered
<1>5. CASE ResumedStepEnds(c)
  <2> DEFINE New(res) == [job[c] EXCEPT !.pc = "decide", !.res = res, !.exec = @ \cup {job[c].idx}]
  <2>1. PICK res : Become(c, New(res)) /\ job[c].pc = "resumed"
    BY <1>5 DEF ResumedStepEnds
  <2>2. /\ New(res).exec = job[c].exec \cup {job[c].idx} /\ New(res).pc = "decide"
        /\ New(res).idx = job[c].idx /\ New(res).steps = job[c].steps
    BY <1>0 DEF Jobs
  <2> HIDE DEF New
  <2>3. Covered(New(res))
    BY <1>0, <2>1, <2>2 DEF Covered
  <2> QED BY <1>0, <2>1, <2>3, BecomesCovered
<1>6. CASE ResumeGoesOn(c)
  <2> DEFINE new == [job[c] EXCEPT !.pc = "next", !.idx = @ + 1]
  <2>1. Become(c, new) /\ job[c].pc = "decide"
    BY <1>6 DEF ResumeGoesOn
  <2>2. /\ new.exec = job[c].exec /\ new.pc = "next" /\ new.idx = job[c].idx + 1
        /\ new.steps = job[c].steps
    BY <1>0 DEF Jobs
  <2> HIDE DEF new
  <2>3. \A i \in StepsOf(new.steps) : i < new.idx => i \in new.exec
    <3>1. /\ \A i \in StepsOf(job[c].steps) : i < job[c].idx => i \in job[c].exec
          /\ job[c].idx \in job[c].exec
      BY <1>0, <2>1 DEF Covered
    <3>2. \A i \in StepsOf(job[c].steps) : i < job[c].idx + 1 => i < job[c].idx \/ i = job[c].idx
      BY <1>0 DEF StepsOf
    <3> QED BY <2>2, <3>1, <3>2
  <2>4. Covered(new)
    BY <2>2, <2>3 DEF Covered
  <2> QED BY <1>0, <2>1, <2>4, BecomesCovered
<1>7. CASE ResumeRetries(c)
  <2> DEFINE k == GroupCleared(job[c])
             new == [k EXCEPT !.att = @ + 1, !.pc = "next", !.idx = 0]
  <2>1. Become(c, new)
    BY <1>7 DEF ResumeRetries
  <2>2. k \in Jobs
    BY <1>0, ClearedTyped
  <2>3. new.pc = "next" /\ new.idx = 0 /\ new.steps = k.steps
    <3> HIDE DEF k
    <3> QED BY <2>2 DEF Jobs
  <2> HIDE DEF new, k
  <2>4. \A i \in StepsOf(new.steps) : ~(i < new.idx)
    BY <2>3 DEF StepsOf
  <2>5. Covered(new)
    BY <2>3, <2>4 DEF Covered
  <2> QED BY <1>0, <2>1, <2>5, BecomesCovered
<1>8. CASE ResumePauses(c)
  BY <1>0, <1>8, GoCovers DEF ResumePauses
<1>9. CASE ResumeCompletes(c)
  <2> DEFINE new == [job[c] EXCEPT !.pc = "completed"]
  <2>1. Become(c, new) /\ job[c].pc = "next" /\ job[c].idx >= job[c].steps.n
    BY <1>9 DEF ResumeCompletes, Go
  <2>2. new.exec = job[c].exec /\ new.steps = job[c].steps /\ new.pc = "completed"
    BY <1>0 DEF Jobs
  <2> HIDE DEF new
  <2>3. StepsOf(new.steps) \subseteq new.exec
    BY <1>0, <2>1, <2>2 DEF Covered, StepsOf
  <2>4. Knot(new.steps, {}) /\ StepsOf(new.steps) \ new.exec \subseteq {}
    BY <2>3 DEF Knot
  <2>5. Covered(new)
    BY <2>2, <2>4 DEF Covered, NothingLeft
  <2> QED BY <1>0, <2>1, <2>5, BecomesCovered
<1>10. CASE ResumeRaises(c)
  BY <1>0, <1>10, GoCovers DEF ResumeRaises
<1> QED BY <1>1, <1>2, <1>3, <1>4, <1>5, <1>6, <1>7, <1>8, <1>9, <1>10 DEF ResumeStep

LEMMA CrashCovers ==
  ASSUME PlanTypeOK, CoverInv, Crash
  PROVE  CoverInv'
<1> SUFFICES ASSUME NEW h \in Handlers PROVE Covered(job'[h])
  BY DEF CoverInv, Covered, NothingLeft, Knot, StepsOf
<1>1. Covered(job[h]) /\ job[h] \in Jobs
  BY JobFields DEF CoverInv
<1>2. CASE job[h].pc \in Ended \cup {"idle"}
  BY <1>1, <1>2 DEF Crash
<1>3. CASE job[h].pc \notin Ended \cup {"idle"}
  <2>1. job'[h] = [job[h] EXCEPT !.pc = "crashed"]
    BY <1>3 DEF Crash
  <2>2. job'[h].pc = "crashed"
    BY <1>1, <2>1 DEF Jobs
  <2> QED BY <2>2 DEF Covered
<1> QED BY <1>2, <1>3

LEMMA NextCovers == PlanTypeOK /\ CoverInv /\ [Next]_planVars => CoverInv'
<1> SUFFICES ASSUME PlanTypeOK, CoverInv, [Next]_planVars PROVE CoverInv'
  OBVIOUS
<1>1. CASE InjectSteering \/ UNCHANGED planVars
  <2>1. UNCHANGED job
    BY <1>1 DEF InjectSteering, planVars
  <2> QED BY <2>1 DEF CoverInv, Covered, NothingLeft, Knot, StepsOf
<1> QED BY <1>1, PlanStepCovers, CompoundStepCovers, ResumeStepCovers, CrashCovers DEF Next

\* What completes has executed or skipped every step but those that wait for each other
\* (plan_executor.py, the wave loop and its restarts; build_execution_waves).
THEOREM CompletedIsDone == Spec => []CompletedLeavesNothing
<1>1. CoverInv => CompletedLeavesNothing
  BY DEF CoverInv, Covered, CompletedLeavesNothing
<1> QED BY <1>1, InitCovered, NextCovers, PlanTypeCorrect, PTL DEF Spec

-----------------------------------------------------------------------------
(* What a paused plan has saved.                                           *)

\* The goal handler of p has had its say: from here on only resumptions touch the row.
GoalOver(p) == job[p].pc \in {"pausing", "paused", "crashed"}

\* The row holds the results of handler h, up to the step it stands at.
Saved(h) == row[job[h].plan].res = job[h].res /\ row[job[h].plan].cur = job[h].idx + 1

\* A resumption begins after the goal handler is over, and unless two of them overlap a
\* row has one writer at a time, which pauses the plan after it has saved.
PauseInv ==
  /\ \A p \in Plans : row[p].st = "paused" => GoalOver(p)
  /\ \A p \in Plans : job[p].pc = "saved" => Saved(p)
  /\ \A c \in Resumers : job[c].pc # "idle" => GoalOver(job[c].plan)
  /\ \A c \in Resumers : Resuming(c) /\ job[c].plan \notin overlapped =>
       row[job[c].plan].st = "running"
  /\ \A c, d \in Resumers :
       Resuming(c) /\ Resuming(d) /\ job[c].plan = job[d].plan /\ c # d => job[c].plan \in overlapped
  /\ \A c \in Resumers : job[c].pc = "decide" /\ job[c].plan \notin overlapped => Saved(c)
  /\ PausedSavesFailure

LEMMA InitPauseInv == Init => PauseInv
BY PlanAssumption DEF Init, PauseInv, PausedSavesFailure, Resuming, Handlers

\* What the goal handler of p does to its row and its stage.
GoalMoves(p) ==
  \/ /\ GoalOver(p) /\ GoalOver(p)' /\ row' = row
  \/ /\ job[p].pc = "saved" /\ job[p].res[job[p].idx] = "failed"
     /\ GoalOver(p)' /\ job'[p].pc # "saved"
     /\ row' = [row EXCEPT ![p].st = "paused"]
  \/ /\ ~GoalOver(p)
     /\ row'[p].st \in {row[p].st, "running", "completed"}
     /\ \A q \in Plans \ {p} : row'[q] = row[q]
     /\ job'[p].pc = "saved" => row'[p].res = job'[p].res /\ row'[p].cur = job'[p].idx + 1

LEMMA WaveOrRunMoves ==
  ASSUME PlanTypeOK, NEW p \in Plans, EnterWave(p) \/ ParallelStepEnds(p) \/ StepEnds(p)
  PROVE  GoalMoves(p)
<1>0. p \in Handlers /\ job[p] \in Jobs
  BY JobFields DEF Handlers
<1>1. /\ job[p].pc \in {"wave", "parallel", "running"} /\ row' = row
      /\ \E new : Become(p, new) /\ new.pc \in {"wave", "parallel", "running", "examine"}
  <2>1. CASE EnterWave(p)
    <3> DEFINE j == job[p]
               wave == NextWave(j)
               skipped == {i \in wave \ j.exec : Blocked(j, i)}
               todo == (wave \ j.exec) \ skipped
               parallel == Cardinality(todo) > 1 /\ (p \in Plans => todo \cap j.steps.work = {})
               res == [i \in Steps |-> IF i \in skipped THEN "skipped" ELSE j.res[i]]
               pc == CASE parallel -> "parallel"
                       [] todo # {} /\ ~parallel -> "running"
                       [] todo = {} -> IF p \in Plans THEN "examine" ELSE "wave"
               New(last) == [j EXCEPT !.res = res, !.exec = j.exec \cup skipped,
                                      !.assigned = j.assigned \cup wave, !.waves = j.waves + 1,
                                      !.todo = todo, !.idx = last, !.pc = pc]
    <3>1. PICK last \in wave : Become(p, New(last))
      BY <2>1 DEF EnterWave
    <3>2. pc \in {"parallel", "running", "examine", "wave"}
      <4>1. parallel \in BOOLEAN
        OBVIOUS
      <4> HIDE DEF todo, parallel
      <4> QED BY <4>1
    <3>3. New(last).pc = pc
      <4>1. j \in Jobs
        BY <1>0
      <4> HIDE DEF j, wave, skipped, todo, res, pc
      <4> QED BY <4>1 DEF Jobs
    <3>4. job[p].pc = "wave" /\ row' = row
      BY <2>1 DEF EnterWave
    <3> HIDE DEF New, pc
    <3> QED BY <3>1, <3>2, <3>3, <3>4
  <2>2. CASE ParallelStepEnds(p)
    <3> DEFINE New(i, out, pc) == [job[p] EXCEPT !.res = Record(@, i, out), !.exec = @ \cup {i},
                                                 !.todo = job[p].todo \ {i}, !.pc = pc]
    <3>1. PICK i \in job[p].todo, out \in RunOutcomes, pc \in {"wave", "parallel"} :
            Become(p, New(i, out, pc))
      BY <2>2 DEF ParallelStepEnds
    <3>2. New(i, out, pc).pc = pc
      BY <1>0 DEF Jobs
    <3>3. job[p].pc = "parallel" /\ row' = row
      BY <2>2 DEF ParallelStepEnds
    <3> HIDE DEF New
    <3> QED BY <3>1, <3>2, <3>3
  <2>3. CASE StepEnds(p)
    <3> DEFINE New(i, out, pc) == [job[p] EXCEPT !.res = Record(@, i, out), !.exec = @ \cup {i},
                                                 !.todo = job[p].todo \ {i}, !.idx = i, !.pc = pc]
    <3>1. PICK i \in job[p].todo, out \in RunOutcomes, pc \in {"running", "wave", "examine"} :
            Become(p, New(i, out, pc))
      BY <2>3 DEF StepEnds
    <3>2. New(i, out, pc).pc = pc
      BY <1>0 DEF Jobs
    <3>3. job[p].pc = "running" /\ row' = row
      BY <2>3 DEF StepEnds
    <3> HIDE DEF New
    <3> QED BY <3>1, <3>2, <3>3
  <2> QED BY <2>1, <2>2, <2>3
<1>2. job'[p].pc \in {"wave", "parallel", "running", "examine"}
  BY <1>0, <1>1 DEF Become, PlanTypeOK
<1> QED BY <1>1, <1>2 DEF GoalMoves, GoalOver

LEMMA GoalStepMoves ==
  ASSUME PlanTypeOK, NEW p \in Plans, HandlerInv(p), InsertPlan(p) \/ PlanStep(p)
  PROVE  GoalMoves(p)
<1>0. p \in Handlers /\ job[p] \in Jobs /\ job[p].plan = p /\ row \in [Plans -> Rows]
      /\ job \in [Handlers -> Jobs]
  BY JobFields DEF Handlers, PlanTypeOK, HandlerInv, InPlan
<1>1. CASE InsertPlan(p)
  <2>1. PICK s \in Shapes : /\ row' = [row EXCEPT ![p].st = "running", ![p].steps = s]
                            /\ job' = [job EXCEPT ![p] = [job[p] EXCEPT !.pc = "inserted", !.steps = s]]
    BY <1>1 DEF InsertPlan, Become
  <2>2. row'[p].st = "running" /\ \A q \in Plans \ {p} : row'[q] = row[q]
    BY <1>0, <2>1 DEF Rows
  <2>3. job'[p].pc = "inserted"
    BY <1>0, <2>1 DEF Jobs
  <2>4. job[p].pc = "idle"
    BY <1>1 DEF InsertPlan
  <2> QED BY <2>2, <2>3, <2>4 DEF GoalMoves, GoalOver
<1>2. ASSUME NEW pc, Go(p, pc) PROVE job'[p].pc = pc
  BY <1>0, <1>2, GoTyped DEF Go, Become, Jobs
<1>3. CASE BeginPlan(p)
  BY <1>2, <1>3 DEF BeginPlan, GoalMoves, GoalOver
<1>4. CASE Examine(p)
  <2>1. PICK res : /\ job' = [job EXCEPT ![p] = [job[p] EXCEPT !.pc = "saved", !.res = res]]
                   /\ row' = [row EXCEPT ![p].res = res, ![p].cur = job[p].idx + 1,
                                         ![p].att = job[p].att]
    BY <1>4, Zenon DEF Examine, Become
  <2>2. row'[p].st = row[p].st /\ row'[p].res = res /\ row'[p].cur = job[p].idx + 1
        /\ \A q \in Plans \ {p} : row'[q] = row[q]
    BY <1>0, <2>1 DEF Rows
  <2>3. job'[p].res = res /\ job'[p].idx = job[p].idx
    BY <1>0, <2>1 DEF Jobs
  <2>4. job[p].pc = "examine"
    BY <1>4 DEF Examine
  <2> QED BY <2>2, <2>3, <2>4 DEF GoalMoves, GoalOver
<1>5. CASE RetryGroup(p)
  <2> DEFINE j == [job[p] EXCEPT !.att = @ + 1]
             again == FromTheFirstWave(GroupCleared(j))
             waits == [j EXCEPT !.pc = "steering", !.retrying = TRUE]
  <2>1. job[p].pc = "saved" /\ row' = row /\ (Become(p, again) \/ Become(p, waits))
    BY <1>5 DEF RetryGroup
  <2>2. j \in Jobs
    BY <1>0 DEF Jobs
  <2>3. again.pc = "wave" /\ waits.pc = "steering"
    <3> HIDE DEF j
    <3> QED BY <2>2, ClearedFields DEF Jobs
  <2> HIDE DEF again, waits
  <2>4. job'[p].pc \in {"wave", "steering"}
    BY <1>0, <2>1, <2>3 DEF Become
  <2> QED BY <2>1, <2>4 DEF GoalMoves, GoalOver
<1>6. CASE Proceed(p)
  <2>1. PICK pc \in {"wave", "steering"} : Go(p, pc)
    BY <1>6 DEF Proceed
  <2> QED BY <1>2, <1>6, <2>1 DEF Proceed, GoalMoves, GoalOver
<1>7. CASE PausePlan(p)
  BY <1>0, <1>2, <1>7 DEF PausePlan, SetRowStatus, GoalMoves, GoalOver
<1>8. CASE PauseEnd(p)
  BY <1>2, <1>8 DEF PauseEnd, GoalMoves, GoalOver
<1>9. CASE Replan(p)
  <2>1. PICK s \in Shapes :
          /\ row' = [row EXCEPT ![p].steps = s]
          /\ Become(p, FromTheFirstWave([job[p] EXCEPT !.steps = s, !.att = 0, !.retrying = FALSE]))
    BY <1>9 DEF Replan
  <2> DEFINE j == [job[p] EXCEPT !.steps = s, !.att = 0, !.retrying = FALSE]
             new == FromTheFirstWave(j)
  <2>2. j \in Jobs
    BY <1>0 DEF Jobs
  <2>3. new.pc = "wave"
    <3> HIDE DEF j
    <3> QED BY <2>2, ClearedFields
  <2>4. job'[p] = new
    <3> HIDE DEF new
    <3> QED BY <1>0, <2>1 DEF Become, new
  <2>5. row'[p].st = row[p].st /\ \A q \in Plans \ {p} : row'[q] = row[q]
    BY <1>0, <2>1 DEF Rows
  <2>6. job[p].pc = "steering"
    BY <1>9 DEF Replan
  <2> HIDE DEF new
  <2> QED BY <2>3, <2>4, <2>5, <2>6 DEF GoalMoves, GoalOver
<1>10. CASE KeepPlan(p)
  <2> DEFINE again == FromTheFirstWave(GroupCleared(job[p]))
  <2>1. again.pc = "wave"
    BY <1>0, ClearedFields
  <2>2. Become(p, again) \/ Go(p, "wave")
    BY <1>10 DEF KeepPlan
  <2> HIDE DEF again
  <2>3. job'[p].pc = "wave"
    BY <1>0, <1>2, <2>1, <2>2 DEF Become
  <2> QED BY <1>10, <2>3 DEF KeepPlan, GoalMoves, GoalOver
<1>11. CASE CompletePlan(p)
  <2>1. row'[p].st = "completed" /\ \A q \in Plans \ {p} : row'[q] = row[q]
    BY <1>0, <1>11 DEF CompletePlan, SetRowStatus, Rows
  <2> QED BY <1>2, <1>11, <2>1 DEF CompletePlan, GoalMoves, GoalOver
<1>12. CASE PlanRaises(p)
  BY <1>2, <1>12 DEF PlanRaises, GoalMoves, GoalOver
<1> QED BY <1>1, <1>3, <1>4, <1>5, <1>6, <1>7, <1>8, <1>9, <1>10, <1>11, <1>12, WaveOrRunMoves
        DEF PlanStep

\* While the goal handler works no resumption has selected its plan.
LEMMA GoalKeepsPause ==
  ASSUME PlanInv, PlanInv', PauseInv, NEW p \in Plans, InsertPlan(p) \/ PlanStep(p)
  PROVE  PauseInv'
<1>1. /\ PlanTypeOK /\ PlanTypeOK' /\ p \in Handlers
      /\ \A h \in Handlers : HandlerInv(h) /\ HandlerInv(h)'
  BY DEF PlanInv, Handlers
<1>2. Alone(p) /\ GoalMoves(p)
  BY <1>1, PlanStepKeeps, GoalStepMoves DEF StepKeeps
<1>3. overlapped' = overlapped
  BY DEF InsertPlan, PlanStep, BeginPlan, EnterWave, ParallelStepEnds, StepEnds, Examine,
         RetryGroup, Proceed, PausePlan, PauseEnd, Replan, KeepPlan, CompletePlan, PlanRaises
<1>4. /\ \A h \in Handlers \ {p} : job'[h] = job[h]
      /\ job[p].plan = p /\ job'[p].plan = p
      /\ \A c \in Resumers : c \in Handlers \ {p}
      /\ \A q \in Plans : q \in Handlers /\ job[q].plan = q /\ job'[q].plan = q
      /\ \A c \in Resumers : job[c].pc # "idle" => job[c].plan \in Plans
      /\ \A c \in Resumers : Resuming(c) => job[c].pc # "idle"
      /\ row \in [Plans -> Rows] /\ row' \in [Plans -> Rows] /\ job[p] \in Jobs
  BY <1>1, <1>2, PlanAssumption, JobFields
     DEF Alone, HandlerInv, InPlan, Handlers, PlanTypeOK, Resuming
<1>5. CASE row' = row /\ GoalOver(p) /\ GoalOver(p)'
  BY <1>3, <1>4, <1>5 DEF PauseInv, PausedSavesFailure, GoalOver, Saved, Resuming
<1>6. CASE /\ ~GoalOver(p)
           /\ \/ /\ job[p].pc = "saved" /\ job[p].res[job[p].idx] = "failed"
                 /\ GoalOver(p)' /\ job'[p].pc # "saved"
                 /\ row' = [row EXCEPT ![p].st = "paused"]
              \/ /\ row'[p].st \in {row[p].st, "running", "completed"}
                 /\ \A q \in Plans \ {p} : row'[q] = row[q]
                 /\ job'[p].pc = "saved" => row'[p].res = job'[p].res /\ row'[p].cur = job'[p].idx + 1
  <2>1. \A c \in Resumers : job[c].pc # "idle" => job[c].plan # p
    BY <1>6 DEF PauseInv
  <2>2. row[p].st # "paused"
    BY <1>6 DEF PauseInv
  <2>3. \A q \in Plans \ {p} : row'[q] = row[q]
    BY <1>4, <1>6
  <2>4. /\ row'[p].st = "paused" => GoalOver(p)' /\ row'[p].cur > 0
                                    /\ row'[p].res[row'[p].cur - 1] = "failed"
        /\ job'[p].pc = "saved" => row'[p].res = job'[p].res /\ row'[p].cur = job'[p].idx + 1
    <3>1. CASE /\ job[p].pc = "saved" /\ job[p].res[job[p].idx] = "failed"
               /\ GoalOver(p)' /\ job'[p].pc # "saved"
               /\ row' = [row EXCEPT ![p].st = "paused"]
      <4>1. row'[p].res = row[p].res /\ row'[p].cur = row[p].cur
        BY <1>4, <3>1 DEF Rows
      <4>2. row[p].res = job[p].res /\ row[p].cur = job[p].idx + 1
        BY <1>4, <3>1 DEF PauseInv, Saved
      <4>3. job[p].idx \in Nat
        BY <1>4 DEF Jobs
      <4>4. row'[p].cur > 0 /\ row'[p].cur - 1 = job[p].idx
        BY <4>1, <4>2, <4>3
      <4> QED BY <3>1, <4>1, <4>2, <4>4
    <3> QED BY <1>6, <2>2, <3>1
  <2> QED BY <1>3, <1>4, <2>1, <2>2, <2>3, <2>4
          DEF PauseInv, PausedSavesFailure, GoalOver, Saved, Resuming
<1>7. job[p].pc = "saved" => ~GoalOver(p)
  BY DEF GoalOver
<1> QED BY <1>2, <1>5, <1>6, <1>7 DEF GoalMoves

\* A step of a resumption that writes no row: it selects a plan, goes on or ends.
ResumeRests(c) ==
  /\ \/ job[c].pc = "idle" /\ job'[c].pc = "selected" /\ row[job'[c].plan].st = "paused"
     \/ /\ job[c].pc # "idle" /\ job'[c].pc \notin {"idle", "decide"}
        /\ Resuming(c)' => Resuming(c)
        /\ job'[c].plan = job[c].plan
  /\ UNCHANGED <<row, overlapped>>

\* What a step of resumption c does to its row, its stage and the record of overlaps.
ResumeMoves(c) ==
  \/ ResumeRests(c)
  \/ /\ job[c].pc = "selected" /\ job'[c].pc = "next" /\ job'[c].plan = job[c].plan
     /\ row' = [row EXCEPT ![job[c].plan].st = "running"]
     /\ overlapped \subseteq overlapped'
     /\ \A d \in Resumers \ {c} : Resuming(d) /\ job[d].plan = job[c].plan => job[c].plan \in overlapped'
  \/ /\ Resuming(c) /\ job'[c].pc = "decide" /\ job'[c].plan = job[c].plan
     /\ \A p \in Plans \ {job[c].plan} : row'[p] = row[p]
     /\ row'[job[c].plan].st = row[job[c].plan].st
     /\ row'[job[c].plan].res = job'[c].res /\ row'[job[c].plan].cur = job'[c].idx + 1
     /\ UNCHANGED overlapped
  \/ /\ job[c].pc = "decide" /\ job[c].res[job[c].idx] = "failed"
     /\ job'[c].pc = "paused" /\ job'[c].plan = job[c].plan
     /\ row' = [row EXCEPT ![job[c].plan].st = "paused"]
     /\ UNCHANGED overlapped
  \/ /\ Resuming(c) /\ job'[c].pc = "completed" /\ job'[c].plan = job[c].plan
     /\ row' = [row EXCEPT ![job[c].plan].st = "completed"]
     /\ UNCHANGED overlapped

LEMMA ResumeStepMoves ==
  ASSUME PlanTypeOK, NEW c \in Resumers, HandlerInv(c), SelectPaused(c) \/ ResumeStep(c)
  PROVE  ResumeMoves(c)
<1>0. /\ c \in Handlers /\ job[c] \in Jobs /\ row \in [Plans -> Rows] /\ job \in [Handlers -> Jobs]
      /\ job[c].pc # "idle" => job[c].plan \in Plans
  BY JobFields DEF Handlers, HandlerInv, InPlan, PlanTypeOK
<1>1. ASSUME NEW j, Become(c, j) PROVE job'[c] = j
  BY <1>0, <1>1 DEF Become
<1>2. ASSUME NEW pc, Go(c, pc) PROVE job'[c].pc = pc /\ job'[c].plan = job[c].plan
  BY <1>0, <1>2 DEF Go, Become, Jobs
<1>3. CASE SelectPaused(c)
  <2> DEFINE New(p) == [job[c] EXCEPT !.pc = "selected", !.plan = p, !.steps = row[p].steps,
                                      !.res = row[p].res, !.att = row[p].att]
  <2>1. PICK p \in Plans : Become(c, New(p)) /\ row[p].st = "paused"
    BY <1>3 DEF SelectPaused
  <2>2. New(p).plan = p /\ New(p).pc = "selected"
    BY <1>0 DEF Jobs
  <2> HIDE DEF New
  <2> QED BY <1>1, <1>3, <2>1, <2>2 DEF SelectPaused, ResumeMoves, ResumeRests
<1>4. CASE ResumeRefused(c)
  BY <1>2, <1>4 DEF ResumeRefused, ResumeMoves, ResumeRests, Resuming
<1>5. CASE BeginResume(c)
  <2> DEFINE new == [job[c] EXCEPT !.pc = "next", !.idx = 0,
                                   !.exec = {i \in Steps : job[c].res[i] = "completed"}]
  <2>1. Become(c, new) /\ job[c].pc = "selected" /\ row' = [row EXCEPT ![job[c].plan].st = "running"]
    BY <1>5 DEF BeginResume, SetRowStatus
  <2>2. new.pc = "next" /\ new.plan = job[c].plan
    BY <1>0 DEF Jobs
  <2>3. /\ overlapped \subseteq overlapped'
        /\ \A d \in Resumers \ {c} : Resuming(d) /\ job[d].plan = job[c].plan => job[c].plan \in overlapped'
    BY <1>5 DEF BeginResume
  <2> HIDE DEF new
  <2> QED BY <1>1, <2>1, <2>2, <2>3 DEF ResumeMoves, ResumeRests
<1>6. CASE ResumeNext(c)
  <2> DEFINE j == job[c]
             passed == [j EXCEPT !.idx = @ + 1]
             skipped == [j EXCEPT !.idx = @ + 1, !.exec = @ \cup {j.idx},
                                  !.res = [j.res EXCEPT ![j.idx] = "skipped"]]
             started == [j EXCEPT !.pc = "resumed"]
  <2>1. j.pc = "next" /\ (Become(c, passed) \/ Become(c, skipped) \/ Become(c, started))
    BY <1>6, Zenon DEF ResumeNext
  <2>2. /\ passed.pc = j.pc /\ passed.plan = j.plan /\ skipped.pc = j.pc /\ skipped.plan = j.plan
        /\ started.pc = "resumed" /\ started.plan = j.plan
    BY <1>0 DEF Jobs
  <2> HIDE DEF passed, skipped, started
  <2>3. job'[c].pc \in {"next", "resumed"} /\ job'[c].plan = job[c].plan
    BY <1>1, <2>1, <2>2
  <2>4. UNCHANGED <<row, overlapped>>
    BY <1>6 DEF ResumeNext
  <2> QED BY <2>1, <2>3, <2>4 DEF ResumeMoves, ResumeRests, Resuming
<1>7. CASE ResumedStepEnds(c)
  <2> DEFINE New(res) == [job[c] EXCEPT !.pc = "decide", !.res = res, !.exec = @ \cup {job[c].idx}]
  <2>1. PICK res : /\ Become(c, New(res))
                   /\ row' = [row EXCEPT ![job[c].plan].res = res,
                                         ![job[c].plan].cur = job[c].idx + 1,
                                         ![job[c].plan].att = job[c].att]
    BY <1>7 DEF ResumedStepEnds
  <2>2. /\ New(res).pc = "decide" /\ New(res).plan = job[c].plan /\ New(res).res = res
        /\ New(res).idx = job[c].idx
    BY <1>0 DEF Jobs
  <2>3. job[c].pc = "resumed" /\ job[c].plan \in Plans /\ UNCHANGED overlapped
    BY <1>0, <1>7 DEF ResumedStepEnds
  <2> HIDE DEF New
  <2>4. /\ row'[job[c].plan].st = row[job[c].plan].st /\ row'[job[c].plan].res = res
        /\ row'[job[c].plan].cur = job[c].idx + 1
        /\ \A p \in Plans \ {job[c].plan} : row'[p] = row[p]
    BY <1>0, <2>1, <2>3 DEF Rows
  <2> QED BY <1>1, <2>1, <2>2, <2>3, <2>4 DEF ResumeMoves, ResumeRests, Resuming
<1>8. CASE ResumeGoesOn(c)
  <2> DEFINE new == [job[c] EXCEPT !.pc = "next", !.idx = @ + 1]
  <2>1. Become(c, new) /\ job[c].pc = "decide" /\ UNCHANGED <<row, overlapped>>
    BY <1>8 DEF ResumeGoesOn
  <2>2. new.pc = "next" /\ new.plan = job[c].plan
    BY <1>0 DEF Jobs
  <2> HIDE DEF new
  <2> QED BY <1>1, <2>1, <2>2 DEF ResumeMoves, ResumeRests, Resuming
<1>9. CASE ResumeRetries(c)
  <2> DEFINE k == GroupCleared(job[c])
             new == [k EXCEPT !.att = @ + 1, !.pc = "next", !.idx = 0]
  <2>1. Become(c, new) /\ job[c].pc = "decide" /\ UNCHANGED <<row, overlapped>>
    BY <1>9 DEF ResumeRetries
  <2>2. k \in Jobs /\ k.plan = job[c].plan
    BY <1>0, ClearedTyped, ClearedFields
  <2>3. new.pc = "next" /\ new.plan = job[c].plan
    <3> HIDE DEF k
    <3> QED BY <2>2 DEF Jobs
  <2> HIDE DEF new
  <2> QED BY <1>1, <2>1, <2>3 DEF ResumeMoves, ResumeRests, Resuming
<1>10. CASE ResumePauses(c)
  BY <1>2, <1>10 DEF ResumePauses, SetRowStatus, ResumeMoves, ResumeRests
<1>11. CASE ResumeCompletes(c)
  BY <1>2, <1>11 DEF ResumeCompletes, SetRowStatus, ResumeMoves, ResumeRests, Resuming
<1>12. CASE ResumeRaises(c)
  BY <1>2, <1>12 DEF ResumeRaises, ResumeMoves, ResumeRests, Resuming
<1> QED BY <1>3, <1>4, <1>5, <1>6, <1>7, <1>8, <1>9, <1>10, <1>11, <1>12 DEF ResumeStep

\* A row that no other resumption works on has the results of this one.
LEMMA ResumeKeepsPause ==
  ASSUME PlanInv, PlanInv', PauseInv, NEW c \in Resumers, SelectPaused(c) \/ ResumeStep(c)
  PROVE  PauseInv'
<1>1. /\ PlanTypeOK /\ PlanTypeOK' /\ c \in Handlers
      /\ \A h \in Handlers : HandlerInv(h) /\ HandlerInv(h)'
  BY DEF PlanInv, Handlers
<1>2. Alone(c) /\ ResumeMoves(c)
  BY <1>1, ResumeStepKeeps, ResumeStepMoves DEF StepKeeps
<1>3. /\ \A d \in Resumers \ {c} : job'[d] = job[d]
      /\ \A p \in Plans : job'[p] = job[p] /\ job[p].plan = p
      /\ \A d \in Resumers : /\ job[d].pc # "idle" => job[d].plan \in Plans
                             /\ job'[d].pc # "idle" => job'[d].plan \in Plans
      /\ row \in [Plans -> Rows] /\ row' \in [Plans -> Rows] /\ job[c].idx \in Nat
  BY <1>1, <1>2, PlanAssumption, JobFields DEF Alone, HandlerInv, InPlan, Handlers, PlanTypeOK
<1>4. \A p \in Plans : GoalOver(p)' <=> GoalOver(p)
  BY <1>3 DEF GoalOver
<1>5. CASE ResumeRests(c)
  <2>1. \/ job[c].pc = "idle" /\ ~Resuming(c)' /\ row[job'[c].plan].st = "paused"
           /\ job'[c].pc = "selected"
        \/ job[c].pc # "idle" /\ (Resuming(c)' => Resuming(c)) /\ job'[c].plan = job[c].plan
           /\ job'[c].pc # "idle"
    BY <1>5 DEF ResumeRests, Resuming
  <2>0. UNCHANGED <<row, overlapped>> /\ job'[c].pc # "decide"
    BY <1>5 DEF ResumeRests
  <2>2. \A d \in Resumers : job'[d].pc # "idle" => GoalOver(job[d].plan)'
    <3> SUFFICES ASSUME NEW d \in Resumers, job'[d].pc # "idle" PROVE GoalOver(job[d].plan)'
      OBVIOUS
    <3>1. job'[d].plan \in Plans /\ GoalOver(job'[d].plan)
      <4>1. CASE d # c
        BY <1>3, <4>1 DEF PauseInv
      <4>2. CASE d = c
        BY <1>3, <2>1, <4>2 DEF PauseInv
      <4> QED BY <4>1, <4>2
    <3> QED BY <1>3, <3>1 DEF GoalOver
  <2>3. \A d \in Resumers : Resuming(d)' => Resuming(d) /\ job'[d].plan = job[d].plan
    <3> SUFFICES ASSUME NEW d \in Resumers, Resuming(d)'
                 PROVE  Resuming(d) /\ job'[d].plan = job[d].plan
      OBVIOUS
    <3>1. CASE d # c
      BY <1>3, <3>1 DEF Resuming
    <3>2. CASE d = c
      BY <2>1, <3>2 DEF Resuming
    <3> QED BY <3>1, <3>2
  <2>4. \A p \in Plans : /\ row'[p].st = "paused" => GoalOver(p)'
                         /\ job'[p].pc = "saved" => Saved(p)'
    BY <1>3, <1>4, <2>0 DEF PauseInv, Saved
  <2>5. \A d \in Resumers : job'[d].pc = "decide" /\ job'[d].plan \notin overlapped' => Saved(d)'
    BY <1>3, <2>0 DEF PauseInv, Saved
  <2>6. PausedSavesFailure'
    BY <2>0 DEF PauseInv, PausedSavesFailure
  <2>7. /\ \A d \in Resumers : Resuming(d)' /\ job'[d].plan \notin overlapped' =>
             row'[job'[d].plan].st = "running"
        /\ \A d, e \in Resumers :
             Resuming(d)' /\ Resuming(e)' /\ job'[d].plan = job'[e].plan /\ d # e =>
               job'[d].plan \in overlapped'
    BY <2>0, <2>3 DEF PauseInv
  <2> QED BY <2>2, <2>4, <2>5, <2>6, <2>7 DEF PauseInv
<1> DEFINE p == job[c].plan
<1>6. \A q \in Plans : job[q].pc = "saved" => ~GoalOver(q)
  BY DEF GoalOver
<1>7. CASE /\ job[c].pc = "selected" /\ job'[c].pc = "next" /\ job'[c].plan = job[c].plan
           /\ row' = [row EXCEPT ![job[c].plan].st = "running"]
           /\ overlapped \subseteq overlapped'
           /\ \A d \in Resumers \ {c} : Resuming(d) /\ job[d].plan = job[c].plan => job[c].plan \in overlapped'
  <2>1. /\ p \in Plans /\ GoalOver(p)
        /\ row'[p].st = "running"
        /\ \A q \in Plans : row'[q].res = row[q].res /\ row'[q].cur = row[q].cur
        /\ \A q \in Plans \ {p} : row'[q] = row[q]
    BY <1>3, <1>7 DEF PauseInv, Rows
  <2> HIDE DEF p
  <2> QED BY <1>3, <1>4, <1>7, <2>1 DEF PauseInv, PausedSavesFailure, Saved, Resuming, p
<1>8. CASE /\ Resuming(c) /\ job'[c].pc = "decide" /\ job'[c].plan = job[c].plan
           /\ \A q \in Plans \ {job[c].plan} : row'[q] = row[q]
           /\ row'[job[c].plan].st = row[job[c].plan].st
           /\ row'[job[c].plan].res = job'[c].res /\ row'[job[c].plan].cur = job'[c].idx + 1
           /\ UNCHANGED overlapped
  <2>1. job[c].pc # "idle" /\ p \in Plans /\ GoalOver(p)
    BY <1>3, <1>8 DEF PauseInv, Resuming
  <2>2. p \notin overlapped => row'[p].st = "running"
    BY <1>8 DEF PauseInv
  <2> QED BY <1>3, <1>4, <1>6, <1>8, <2>1, <2>2 DEF PauseInv, PausedSavesFailure, Saved, Resuming
<1>9. CASE /\ job[c].pc = "decide" /\ job[c].res[job[c].idx] = "failed"
           /\ job'[c].pc = "paused" /\ job'[c].plan = job[c].plan
           /\ row' = [row EXCEPT ![job[c].plan].st = "paused"]
           /\ UNCHANGED overlapped
  <2>1. /\ p \in Plans /\ GoalOver(p)
        /\ \A q \in Plans : row'[q].res = row[q].res /\ row'[q].cur = row[q].cur
        /\ \A q \in Plans \ {p} : row'[q] = row[q]
    BY <1>3, <1>9 DEF PauseInv, Rows
  <2>2. p \notin overlapped => row[p].cur > 0 /\ row[p].res[row[p].cur - 1] = "failed"
    <3> SUFFICES ASSUME p \notin overlapped
                 PROVE  row[p].cur > 0 /\ row[p].res[row[p].cur - 1] = "failed"
      OBVIOUS
    <3>1. row[p].res = job[c].res /\ row[p].cur = job[c].idx + 1
      BY <1>9 DEF PauseInv, Saved
    <3>2. row[p].cur > 0 /\ row[p].cur - 1 = job[c].idx
      BY <1>3, <3>1
    <3> QED BY <1>9, <3>1, <3>2
  <2>3. \A d \in Resumers : Resuming(d)' => Resuming(d) /\ d # c /\ job'[d] = job[d]
    BY <1>3, <1>9 DEF Resuming
  <2>4. \A d \in Resumers \ {c} : Resuming(d) /\ job[d].plan = p => p \in overlapped
    BY <1>9 DEF PauseInv, Resuming
  <2> HIDE DEF p
  <2>5. PausedSavesFailure'
    <3> SUFFICES ASSUME NEW q \in Plans \ overlapped, row'[q].st = "paused"
                 PROVE  row[q].cur > 0 /\ row[q].res[row[q].cur - 1] = "failed"
      BY <1>9, <2>1, Zenon DEF PausedSavesFailure
    <3>1. CASE q = p
      BY <2>2, <3>1
    <3>2. CASE q # p
      BY <2>1, <3>2 DEF PauseInv, PausedSavesFailure
    <3> QED BY <3>1, <3>2
  <2> QED BY <1>3, <1>4, <1>6, <1>9, <2>1, <2>3, <2>4, <2>5 DEF PauseInv, Saved, Resuming, p
<1>10. CASE /\ Resuming(c) /\ job'[c].pc = "completed" /\ job'[c].plan = job[c].plan
            /\ row' = [row EXCEPT ![job[c].plan].st = "completed"]
            /\ UNCHANGED overlapped
  <2>1. /\ job[c].pc # "idle" /\ p \in Plans /\ GoalOver(p)
        /\ row'[p].st = "completed"
        /\ \A q \in Plans : row'[q].res = row[q].res /\ row'[q].cur = row[q].cur
        /\ \A q \in Plans \ {p} : row'[q] = row[q]
    BY <1>3, <1>10 DEF PauseInv, Rows, Resuming
  <2>2. \A d \in Resumers \ {c} : Resuming(d) /\ job[d].plan = p => p \in overlapped
    BY <1>10 DEF PauseInv
  <2> HIDE DEF p
  <2> QED BY <1>3, <1>4, <1>6, <1>10, <2>1, <2>2
          DEF PauseInv, PausedSavesFailure, Saved, Resuming, p
<1> QED BY <1>2, <1>5, <1>7, <1>8, <1>9, <1>10 DEF ResumeMoves

LEMMA OthersKeepPause ==
  ASSUME PlanInv, PlanInv', PauseInv,
         \/ \E m \in Compounds : BeginCompound(m) \/ CompoundStep(m)
         \/ InjectSteering \/ Crash \/ UNCHANGED planVars
  PROVE  PauseInv'
<1>1. /\ \A p \in Plans : job[p].plan = p /\ p \in Handlers
      /\ \A c \in Resumers : c \in Handlers /\ (job[c].pc # "idle" => job[c].plan \in Plans)
      /\ \A h \in Handlers : job[h] \in Jobs
  BY JobFields DEF PlanInv, HandlerInv, InPlan, Handlers
<1>2. CASE \E m \in Compounds : BeginCompound(m) \/ CompoundStep(m)
  <2>1. PICK m \in Compounds : BeginCompound(m) \/ CompoundStep(m)
    BY <1>2
  <2>2. Alone(m)
    BY <2>1, CompoundStepKeeps DEF PlanInv, StepKeeps, Handlers
  <2>3. \A h \in Plans \cup Resumers : job'[h] = job[h]
    BY <2>2, PlanAssumption DEF Alone, Handlers
  <2>4. UNCHANGED <<row, overlapped>>
    BY <2>1 DEF BeginCompound, CompoundStep, EnterWave, ParallelStepEnds, StepEnds, EndCompound,
                CompoundRaises
  <2> QED BY <1>1, <2>3, <2>4 DEF PauseInv, PausedSavesFailure, GoalOver, Saved, Resuming
<1>3. CASE InjectSteering \/ UNCHANGED planVars
  <2>1. UNCHANGED <<row, job, overlapped>>
    BY <1>3 DEF InjectSteering, planVars
  <2> QED BY <2>1 DEF PauseInv, PausedSavesFailure, GoalOver, Saved, Resuming
<1>4. CASE Crash
  <2>1. UNCHANGED <<row, overlapped>>
    BY <1>4 DEF Crash
  <2>2. ASSUME NEW h \in Handlers
        PROVE  /\ job'[h].plan = job[h].plan
               /\ job[h].pc \in Ended \cup {"idle"} => job'[h].pc = job[h].pc
               /\ job[h].pc \notin Ended \cup {"idle"} => job'[h].pc = "crashed"
    BY <1>1, <1>4, <2>2 DEF Crash, Jobs
  <2>3. \A p \in Plans : GoalOver(p) => GoalOver(p)'
    BY <1>1, <2>2 DEF GoalOver
  <2> QED BY <1>1, <2>1, <2>2, <2>3 DEF PauseInv, PausedSavesFailure, Resuming, Ended
<1> QED BY <1>2, <1>3, <1>4

LEMMA NextPauseInv == PlanInv /\ PlanInv' /\ PauseInv /\ [Next]_planVars => PauseInv'
BY GoalKeepsPause, ResumeKeepsPause, OthersKeepPause DEF Next

\* A paused row says which step failed, so that the plan is taken up there, whatever was
\* retried, rewritten and resumed before (plan_executor.py, the UPDATEs of handle_goal
\* and try_resume_plan).
THEOREM PausesAtFailure == Spec => []PausedSavesFailure
<1>1. PauseInv => PausedSavesFailure
  BY DEF PauseInv
<1> QED BY <1>1, InitPauseInv, NextPauseInv, PlanInvAlways, PTL DEF Spec
=============================================================================
