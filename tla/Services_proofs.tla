--------------------------- MODULE Services_proofs --------------------------
(***************************************************************************)
(* The scheduler, the proactive suggestions and a server of tools, for any *)
(* sets of jobs, reminders, callers and configurations, and any budgets.   *)
(***************************************************************************)
EXTENDS MCServices, FiniteSetTheorems, TLAPS

-----------------------------------------------------------------------------
(* The scheduler (kernel/scheduler.py): each time a job comes due is       *)
(* counted by what the loop still has to run of it.                        *)

JobRow == [there : BOOLEAN, on : BOOLEAN, due : BOOLEAN]
\* Only the empty entry has no reminder.
Entries == {e \in S!Entry : e.status # "none" => e.rem # None}

PollType == [pc : {"sleep", "tasks", "running", "reminders", "read"}, jobs : SUBSET Jobs,
             now : Jobs \cup {None}, past : SUBSET Requests, keys : SUBSET Slots, key : Slots \cup {None}, data : Entries]

SchedulerTypes ==
  /\ job \in [Jobs -> JobRow] /\ \A j \in Jobs : ~job[j].there => job[j] = S!NoJob
  /\ slot \in [Slots -> Entries] /\ copy \in [Slots -> Entries]
  /\ past \subseteq Requests /\ stops \in Nat
  /\ poll \in PollType
  /\ poll.pc = "running" <=> poll.now # None
  /\ poll.pc = "read" <=> poll.key # None
  /\ cancel \in [key : Slots \cup {None}, data : Entries]
  /\ cancel.key # None => cancel.data.rem # None
  /\ set \subseteq Requests
  /\ dues \in [Jobs -> Nat] /\ ran \in [Jobs -> Nat] /\ again \in [Jobs -> Nat]
  /\ told \in [Requests -> Nat] /\ retold \in [Requests -> Nat]

(* A task the loop has read was due, and is still, unless it was deleted:  *)
(* then it never comes due again.                                          *)
JobInv ==
  \A j \in Jobs :
    /\ ran[j] <= 1 + again[j]
    /\ job[j].due => job[j].there /\ dues[j] > 0
    /\ job[j].due /\ poll.now # j => ran[j] <= again[j]
    /\ j \in poll.jobs => ran[j] <= again[j] /\ poll.now # j
    /\ j \in poll.jobs \/ poll.now = j => dues[j] > 0 /\ (job[j].due \/ ~job[j].there)

\* A key names a reminder: in its slot, or in a copy of it that the cache, the loop or a
\* cancellation holds.
Has(k, r) ==
  \/ slot[k].rem = r
  \/ copy[k].rem = r
  \/ poll.key = k /\ poll.data.rem = r
  \/ cancel.key = k /\ cancel.data.rem = r
Active(e, r) == e.rem = r /\ e.status = "active"

(* A reminder is of one key, so the entry the loop marks as fired is the   *)
(* only row that still says active; the copy that may say so too was paid  *)
(* for by the start that loaded it.                                        *)
ReminderInv ==
  \A r \in Requests :
    /\ told[r] <= 1 + retold[r] /\ retold[r] <= stops
    /\ (\E k \in Slots : Active(copy[k], r)) => retold[r] + 1 <= stops
    /\ \A k \in Slots : copy[k].rem = r /\ ~Active(copy[k], r) => told[r] > 0 \/ r \in dropped
    /\ r \notin set => told[r] = 0
    /\ \A k \in Slots : Has(k, r) => r \in set
    /\ \A k, l \in Slots : Has(k, r) /\ Has(l, r) => k = l
    /\ (\E k \in Slots : Active(slot[k], r)) => told[r] <= retold[r]
    /\ Active(poll.data, r) => told[r] <= retold[r]
    /\ r \in set => told[r] > 0 \/ r \in dropped \/ \E k \in Slots : Active(slot[k], r)

SchedulerInv == SchedulerTypes /\ JobInv /\ ReminderInv

Distinct == None \notin Jobs /\ None \notin Requests /\ None \notin Slots

LEMMA AsleepTyped == S!Asleep \in PollType /\ S!Empty \in Entries /\ S!NoJob \in JobRow
BY DEF S!Asleep, PollType, S!Empty, Entries, S!Entry, S!NoJob, JobRow

LEMMA RowTyped ==
  ASSUME NEW old \in JobRow, NEW due \in BOOLEAN
  PROVE  [old EXCEPT !.due = due] \in JobRow /\ [old EXCEPT !.due = due].there = old.there
BY DEF JobRow

LEMMA InitScheduler ==
  ASSUME Distinct, S!Init
  PROVE  SchedulerInv
<1>1. SchedulerTypes
  BY AsleepTyped DEF S!Init, SchedulerTypes, S!Asleep, S!Empty, S!NoJob
<1>2. JobInv
  BY DEF S!Init, JobInv, Distinct, S!Asleep, S!NoJob
<1>3. ReminderInv
  BY DEF S!Init, ReminderInv, Has, Active, Distinct, S!Asleep, S!Empty
<1> QED BY <1>1, <1>2, <1>3 DEF SchedulerInv

-----------------------------------------------------------------------------
(* Types.                                                                  *)

LEMMA TypeStep ==
  ASSUME Distinct, SchedulerTypes, [S!Next]_S!schedulerVars
  PROVE  SchedulerTypes'
<1> USE DEF SchedulerTypes, Distinct, S!memVars
<1>r. ASSUME NEW j \in Jobs, S!Create(j) \/ S!Toggle(j) \/ S!Delete(j) \/ S!ComesDue(j)
      PROVE  SchedulerTypes'
  <2>1. CASE S!Create(j)
    BY <2>1, AsleepTyped DEF S!Create, JobRow
  <2>2. CASE S!Toggle(j)
    <3>0. job' = [job EXCEPT ![j] = [job[j] EXCEPT !.on = ~job[j].on]]
      BY <2>2 DEF S!Toggle
    <3>1. job' \in [Jobs -> JobRow]
      <4>1. job[j] \in JobRow /\ \A x \in BOOLEAN : [job[j] EXCEPT !.on = x] \in JobRow
        BY DEF JobRow
      <4>2. (~job[j].on) \in BOOLEAN
        OBVIOUS
      <4>3. [job[j] EXCEPT !.on = ~job[j].on] \in JobRow
        BY <4>1, <4>2, Zenon
      <4> QED BY <3>0, <4>3, Zenon
    <3>2. \A i \in Jobs : ~job'[i].there => job'[i] = S!NoJob
      BY <2>2 DEF S!Toggle, JobRow
    <3> QED BY <2>2, <3>1, <3>2 DEF S!Toggle
  <2>3. CASE S!Delete(j)
    BY <2>3, AsleepTyped DEF S!Delete, JobRow
  <2>4. CASE S!ComesDue(j)
    <3>0. job' = [job EXCEPT ![j] = [job[j] EXCEPT !.due = TRUE]]
      BY <2>4 DEF S!ComesDue
    <3>1. job' \in [Jobs -> JobRow]
      BY <3>0, RowTyped
    <3>2. \A i \in Jobs : ~job'[i].there => job'[i] = S!NoJob
      BY <2>4 DEF S!ComesDue, JobRow
    <3>3. dues' \in [Jobs -> Nat] /\ ran' \in [Jobs -> Nat] /\ again' \in [Jobs -> Nat]
      BY <2>4 DEF S!ComesDue
    <3> QED BY <2>4, <3>1, <3>2, <3>3 DEF S!ComesDue
  <2> QED BY <1>r, <2>1, <2>2, <2>3, <2>4
<1>1. ASSUME NEW r \in Requests, NEW k \in Slots, S!SetReminder(r, k)
      PROVE  SchedulerTypes'
  <2>1. [rem |-> r, status |-> "active"] \in Entries
    BY DEF Entries, S!Entry
  <2> QED BY <1>1, <2>1 DEF S!SetReminder
<1>2. ASSUME NEW r \in Requests, S!ReminderComesDue(r)
      PROVE  SchedulerTypes'
  BY <1>2 DEF S!ReminderComesDue
<1>3. ASSUME NEW k \in Slots, S!CancelBegin(k)
      PROVE  SchedulerTypes'
  BY <1>3 DEF S!CancelBegin
<1>4. CASE S!CancelEnd
  <2>1. [cancel.data EXCEPT !.status = "cancelled"] \in Entries
    BY <1>4 DEF S!CancelEnd, Entries, S!Entry
  <2> QED BY <1>4, <2>1, AsleepTyped DEF S!CancelEnd
<1>5. CASE S!PollTasks
  BY <1>5 DEF S!PollTasks, PollType, S!Due
<1>6. ASSUME NEW j \in Jobs, S!RunBegin(j)
      PROVE  SchedulerTypes'
  <2>1. poll' \in PollType /\ poll'.now = j /\ poll'.pc = "running" /\ poll'.key = poll.key /\ poll.pc = "tasks"
    BY <1>6 DEF S!RunBegin, PollType
  <2>2. ran' \in [Jobs -> Nat]
    BY <1>6 DEF S!RunBegin
  <2> QED BY <1>6, <2>1, <2>2 DEF S!RunBegin
<1>7. CASE S!RunEnd
  <2>1. poll.now \in Jobs /\ poll' \in PollType /\ poll'.now = None /\ poll'.pc = "tasks" /\ poll'.key = poll.key
    BY <1>7 DEF S!RunEnd, PollType
  <2>0. job' = IF job[poll.now].there THEN [job EXCEPT ![poll.now] = [job[poll.now] EXCEPT !.due = FALSE]] ELSE job
    BY <1>7 DEF S!RunEnd, S!Reschedule
  <2>2. job' \in [Jobs -> JobRow]
    BY <2>0, <2>1, RowTyped
  <2>3. \A i \in Jobs : ~job'[i].there => job'[i] = S!NoJob
    BY <1>7, <2>1 DEF S!RunEnd, S!Reschedule, JobRow
  <2> QED BY <1>7, <2>1, <2>2, <2>3 DEF S!RunEnd
<1>8. CASE S!RunAborts
  <2>1. poll.now \in Jobs /\ poll' \in PollType /\ poll'.now = None /\ poll'.pc = "tasks" /\ poll'.key = poll.key
    BY <1>8 DEF S!RunAborts, PollType
  <2> QED BY <1>8, <2>1 DEF S!RunAborts
<1>9. CASE S!PollReminders
  <2>1. /\ poll' \in PollType /\ poll'.now = poll.now /\ poll'.pc = "reminders" /\ poll'.key = poll.key
    BY <1>9 DEF S!PollReminders, PollType, S!KeysSet
  <2> QED BY <1>9, <2>1 DEF S!PollReminders
<1>10. ASSUME NEW k \in Slots, S!ReadReminder(k)
       PROVE  SchedulerTypes'
  BY <1>10 DEF S!ReadReminder, PollType
<1>11. CASE S!Fire
  <2>1. S!Mark(poll.data) \in Entries /\ poll.data.rem \in Requests
    BY <1>11 DEF S!Fire, S!Fires, S!Mark, PollType, Entries, S!Entry
  <2>2. poll' \in PollType /\ poll'.pc = "reminders" /\ poll'.now = poll.now /\ poll'.key = None
    BY <1>11, AsleepTyped DEF S!Fire, PollType
  <2>3. slot' \in [Slots -> Entries]
    BY <1>11, <2>1 DEF S!Fire
  <2>4. told' \in [Requests -> Nat]
    BY <1>11, <2>1 DEF S!Fire
  <2> QED BY <1>11, <2>2, <2>3, <2>4 DEF S!Fire
<1>12. CASE S!FireAborts
  <2>1. poll.data.rem \in Requests
    BY <1>12 DEF S!FireAborts, S!Fires, PollType, Entries, S!Entry
  <2> QED BY <1>12, <2>1, AsleepTyped DEF S!FireAborts, S!Asleep
<1>13. CASE S!Skip
  BY <1>13, AsleepTyped DEF S!Skip, PollType
<1>14. CASE S!Sleep
  BY <1>14, AsleepTyped DEF S!Sleep, S!Asleep
<1>15. CASE S!Restart
  <2>1. poll' \in PollType /\ poll'.pc = "sleep" /\ poll'.now = None /\ poll'.key = None
    BY <1>15, AsleepTyped DEF S!Restart, S!Asleep
  <2>2. cancel' \in [key : Slots \cup {None}, data : Entries] /\ cancel'.key = None
    BY <1>15, AsleepTyped DEF S!Restart
  <2>3. again' \in [Jobs -> Nat]
    BY <1>15 DEF S!Restart, PollType
  <2>4. copy' \in [Slots -> Entries]
    BY <1>15, AsleepTyped DEF S!Restart
  <2> QED BY <1>15, <2>1, <2>2, <2>3, <2>4 DEF S!Restart
<1>17. ASSUME NEW keys \in SUBSET Slots, S!Purge(keys)
       PROVE  SchedulerTypes'
  BY <1>17, AsleepTyped DEF S!Purge, S!memVars
<1>18. ASSUME NEW k \in Slots, S!WriteBack(k) \/ S!CopyLost(k)
       PROVE  SchedulerTypes'
  <2>1. copy' \in [Slots -> Entries] /\ slot' \in [Slots -> Entries]
    BY <1>18, AsleepTyped DEF S!WriteBack, S!CopyLost, S!CopyLeaves
  <2>2. retold' \in [Requests -> Nat]
    BY <1>18 DEF S!WriteBack, S!CopyLost
  <2> QED BY <1>18, <2>1, <2>2 DEF S!WriteBack, S!CopyLost
<1>16. CASE UNCHANGED S!schedulerVars
  BY <1>16 DEF S!schedulerVars
<1> QED
  BY <1>r, <1>1, <1>2, <1>3, <1>4, <1>5, <1>6, <1>7, <1>8, <1>9, <1>10, <1>11, <1>12, <1>13,
     <1>14, <1>15, <1>16, <1>17, <1>18 DEF S!Next

-----------------------------------------------------------------------------
(* Tasks.                                                                  *)

LEMMA JobStep ==
  ASSUME Distinct, SchedulerTypes, JobInv, [S!Next]_S!schedulerVars
  PROVE  JobInv'
<1> USE DEF SchedulerTypes, Distinct, JobInv, S!memVars
<1>1. ASSUME NEW j \in Jobs, S!Create(j)
      PROVE  JobInv'
  BY <1>1 DEF S!Create, JobRow
<1>2. ASSUME NEW j \in Jobs, S!Toggle(j)
      PROVE  JobInv'
  BY <1>2 DEF S!Toggle, JobRow
<1>3. ASSUME NEW j \in Jobs, S!Delete(j)
      PROVE  JobInv'
  BY <1>3 DEF S!Delete, JobRow, S!NoJob
<1>4. ASSUME NEW j \in Jobs, S!ComesDue(j)
      PROVE  JobInv'
  BY <1>4 DEF S!ComesDue, JobRow
<1>5. CASE S!PollTasks
  BY <1>5 DEF S!PollTasks, PollType, S!Due
<1>6. ASSUME NEW j \in Jobs, S!RunBegin(j)
      PROVE  JobInv'
  BY <1>6 DEF S!RunBegin, PollType
<1>7. CASE S!RunEnd
  BY <1>7 DEF S!RunEnd, S!Reschedule, PollType, JobRow
<1>8. CASE S!RunAborts
  BY <1>8 DEF S!RunAborts, PollType
<1>9. CASE S!FireAborts \/ S!Sleep
  BY <1>9 DEF S!FireAborts, S!Sleep, S!Fires, S!Asleep, PollType
<1>10. CASE S!Restart
  BY <1>10 DEF S!Restart, S!Asleep, PollType
<1>11. ASSUME NEW k \in Slots, S!ReadReminder(k)
       PROVE  JobInv'
  BY <1>11 DEF S!ReadReminder, PollType
<1>12. CASE S!PollReminders \/ S!Fire \/ S!Skip
  BY <1>12 DEF S!PollReminders, S!Fire, S!Skip, PollType
<1>13. ASSUME NEW k \in Slots,
              \/ S!CancelBegin(k) \/ S!WriteBack(k) \/ S!CopyLost(k)
              \/ \E r \in Requests : S!SetReminder(r, k)
       PROVE  JobInv'
  BY <1>13 DEF S!CancelBegin, S!SetReminder, S!WriteBack, S!CopyLost
<1>16. ASSUME NEW r \in Requests, S!ReminderComesDue(r)
       PROVE  JobInv'
  BY <1>16 DEF S!ReminderComesDue
<1>15. ASSUME NEW keys \in SUBSET Slots, S!Purge(keys)
       PROVE  JobInv'
  BY <1>15 DEF S!Purge
<1>14. CASE S!CancelEnd \/ UNCHANGED S!schedulerVars
  BY <1>14 DEF S!CancelEnd, S!schedulerVars
<1> QED
  BY <1>1, <1>2, <1>3, <1>4, <1>5, <1>6, <1>7, <1>8, <1>9, <1>10, <1>11, <1>12, <1>13, <1>14, <1>15,
     <1>16 DEF S!Next

-----------------------------------------------------------------------------
(* Reminders.                                                              *)

LEMMA PollMoves ==
  ASSUME poll \in PollType
  PROVE  /\ S!Skip \/ S!Sleep => poll'.key = None /\ poll'.data = S!Empty
         /\ S!PollTasks \/ S!RunEnd \/ S!RunAborts \/ S!PollReminders \/ (\E j \in Jobs : S!RunBegin(j))
              => poll'.key = poll.key /\ poll'.data = poll.data
<1>1. S!Skip => poll'.key = None /\ poll'.data = S!Empty
  BY DEF S!Skip, PollType
<1>2. S!Sleep => poll'.key = None /\ poll'.data = S!Empty
  BY DEF S!Sleep, S!Asleep
<1>3. S!PollTasks => poll'.key = poll.key /\ poll'.data = poll.data
  BY DEF S!PollTasks, PollType
<1>4. S!RunEnd => poll'.key = poll.key /\ poll'.data = poll.data
  BY DEF S!RunEnd, PollType
<1>5. S!RunAborts => poll'.key = poll.key /\ poll'.data = poll.data
  BY DEF S!RunAborts, PollType
<1>6. S!PollReminders => poll'.key = poll.key /\ poll'.data = poll.data
  BY DEF S!PollReminders, PollType
<1>7. ASSUME NEW j \in Jobs, S!RunBegin(j)
      PROVE  poll'.key = poll.key /\ poll'.data = poll.data
  BY <1>7 DEF S!RunBegin, PollType
<1> QED BY <1>1, <1>2, <1>3, <1>4, <1>5, <1>6, <1>7

LEMMA ReminderStep ==
  ASSUME Distinct, SchedulerTypes, SchedulerTypes', ReminderInv, [S!Next]_S!schedulerVars
  PROVE  ReminderInv'
<1> USE DEF Distinct, ReminderInv, Has, Active, S!memVars
<1>1. ASSUME NEW r \in Requests, NEW k \in Slots, S!SetReminder(r, k)
      PROVE  ReminderInv'
  BY <1>1 DEF S!SetReminder, SchedulerTypes, Entries, S!Entry
<1>2. ASSUME NEW r \in Requests, S!ReminderComesDue(r)
      PROVE  ReminderInv'
  BY <1>2 DEF S!ReminderComesDue
<1>3. ASSUME NEW k \in Slots, S!CancelBegin(k)
      PROVE  ReminderInv'
  BY <1>3 DEF S!CancelBegin, SchedulerTypes
<1>4. CASE S!CancelEnd
  BY <1>4 DEF S!CancelEnd, SchedulerTypes, Entries, S!Entry, S!Empty
<1>5. ASSUME NEW k \in Slots, S!ReadReminder(k)
      PROVE  ReminderInv'
  BY <1>5 DEF S!ReadReminder, SchedulerTypes, PollType
<1>6. CASE S!Fire
  BY <1>6 DEF S!Fire, S!Fires, S!Mark, S!Others, SchedulerTypes, PollType, Entries, S!Entry, S!Empty
<1>7. CASE S!FireAborts
  BY <1>7 DEF S!FireAborts, S!Fires, SchedulerTypes, PollType, Entries, S!Entry, S!Empty, S!Asleep
<1>8. CASE S!Skip \/ S!Sleep
  BY <1>8, PollMoves DEF S!Skip, S!Sleep, S!Empty, SchedulerTypes
<1>9. CASE S!Restart
  <2>1. /\ poll'.key = None /\ poll'.data = S!Empty /\ cancel'.key = None
        /\ stops' = stops + 1 /\ UNCHANGED <<slot, set, told, retold, dropped>>
    BY <1>9 DEF S!Restart, S!Asleep
  <2>2. \A k \in Slots : copy'[k] \in {slot[k], S!Empty}
    BY <1>9 DEF S!Restart
  <2> QED BY <2>1, <2>2 DEF S!Empty, SchedulerTypes
<1>13. ASSUME NEW keys \in SUBSET Slots, S!Purge(keys)
       PROVE  ReminderInv'
  BY <1>13 DEF S!Purge, S!memVars, SchedulerTypes, Entries, S!Entry, S!Empty
<1>14. ASSUME NEW k \in Slots, S!WriteBack(k)
       PROVE  ReminderInv'
  BY <1>14 DEF S!WriteBack, S!CopyLeaves, S!Restores, S!Others, SchedulerTypes, Entries, S!Entry,
     S!Empty
<1>15. ASSUME NEW k \in Slots, S!CopyLost(k)
       PROVE  ReminderInv'
  BY <1>15 DEF S!CopyLost, S!CopyLeaves, SchedulerTypes, Entries, S!Entry, S!Empty
<1>10. CASE S!PollTasks \/ S!RunEnd \/ S!RunAborts \/ S!PollReminders \/ \E j \in Jobs : S!RunBegin(j)
  <2>1. UNCHANGED <<slot, copy, cancel, set, told, retold, dropped>>
    BY <1>10 DEF S!PollTasks, S!RunBegin, S!RunEnd, S!RunAborts, S!PollReminders
  <2>2. poll'.key = poll.key /\ poll'.data = poll.data
    BY <1>10, PollMoves DEF SchedulerTypes
  <2>3. stops' \in {stops, stops + 1} /\ stops \in Nat
    BY <1>10 DEF S!PollTasks, S!RunBegin, S!RunEnd, S!RunAborts, S!PollReminders, SchedulerTypes
  <2>4. \A r \in Requests : retold[r] \in Nat
    BY DEF SchedulerTypes
  <2> QED BY <2>1, <2>2, <2>3, <2>4
<1>11. CASE \E j \in Jobs : S!Create(j) \/ S!Toggle(j) \/ S!Delete(j) \/ S!ComesDue(j)
  BY <1>11 DEF S!Create, S!Toggle, S!Delete, S!ComesDue
<1>12. CASE UNCHANGED S!schedulerVars
  BY <1>12 DEF S!schedulerVars
<1> QED
  BY <1>1, <1>2, <1>3, <1>4, <1>5, <1>6, <1>7, <1>8, <1>9, <1>10, <1>11, <1>12, <1>13, <1>14, <1>15
     DEF S!Next

LEMMA StepScheduler ==
  ASSUME Distinct, SchedulerInv, [S!Next]_S!schedulerVars
  PROVE  SchedulerInv'
BY TypeStep, JobStep, ReminderStep DEF SchedulerInv

LEMMA InvScheduler ==
  ASSUME SchedulerInv
  PROVE  S!DueOnceEach /\ S!SchedulerTypeOK
<1>1. S!ScheduledOnce
  BY DEF SchedulerInv, JobInv, ReminderInv, S!ScheduledOnce
<1>2. S!NoReminderLost
  BY DEF SchedulerInv, SchedulerTypes, ReminderInv, S!NoReminderLost, Active
<1>3. S!SchedulerTypeOK
  BY DEF SchedulerInv, SchedulerTypes, S!SchedulerTypeOK, PollType, JobRow, Entries, S!Entry
<1> QED BY <1>1, <1>2, <1>3 DEF S!DueOnceEach

-----------------------------------------------------------------------------
(* Suggestions, autonomous actions and recipes (kernel/proactivity.py,     *)
(* kernel/recipes.py): what has passed its check with nobody using the     *)
(* budget since still has something left of it.                            *)

ProactivityAssumption ==
  /\ IsFiniteSet(Tasks) /\ IsFiniteSet(Answers)
  /\ Budget \in Nat /\ ActionBudget \in Nat /\ Dismissals \in Nat /\ MaxDays \in Nat

Stages == {"idle", "relating", "settings", "looking", "conditions", "proposing", "acting", "done"}

CounterTypes ==
  /\ used \in Nat /\ actions \in Nat /\ day \in 0..MaxDays /\ resetDay \in 0..day

FeedbackTypes ==
  /\ silenced \in BOOLEAN /\ pending \in BOOLEAN /\ quiet \in BOOLEAN /\ dismissals \in Nat
  /\ feedback \in [Answers -> {"none", "yes", "no", "done"}]
  /\ dismissals <= Cardinality({a \in Answers : feedback[a] = "done"})

CallerTypes ==
  /\ enabled \in BOOLEAN /\ cooling \in BOOLEAN /\ overtook \in BOOLEAN /\ opps \in 0..2
  /\ kind \in [Tasks -> P!Kinds \cup {"none"}] /\ pc \in [Tasks -> Stages]
  /\ \A c \in Tasks : /\ pc[c] = "idle" <=> kind[c] = "none"
                      /\ pc[c] = "conditions" => kind[c] = "recipe"
                      /\ pc[c] = "looking" => kind[c] = "nudge"
                      /\ pc[c] = "proposing" => kind[c] = "auto"

\* Who has passed the check of the budget with nobody using it since finds something left of it.
BudgetInv ==
  /\ lateCallers \subseteq Tasks
  /\ used > Budget => overtook
  /\ \A c \in P!Past \ lateCallers : used < Budget

\* One round of autonomous actions at a time; what it does was counted against what is left.
AutoInv ==
  /\ actions <= ActionBudget
  /\ \A c \in P!Are("auto") : pc[c] = "acting" => actions < ActionBudget /\ opps > 0
  /\ \A c, d \in P!Are("auto") : pc[c] # "done" /\ pc[d] # "done" => c = d

\* Evaluations that go on during a cooldown had begun before it; each of the others has fired once at most.
CooldownInv ==
  /\ fired \in Nat /\ early \subseteq P!Are("recipe")
  /\ fired > 0 => /\ cooling /\ P!Evaluating \subseteq early
                  /\ fired <= 1 + Cardinality(early \ P!Evaluating)

ProactivityInv == CounterTypes /\ FeedbackTypes /\ CallerTypes /\ BudgetInv /\ AutoInv /\ CooldownInv

\* The cardinality of the instance is that of the library's theorems.
LEMMA SameCardinality == \A X : P!Cardinality(X) = Cardinality(X)
BY DEF P!Cardinality, Cardinality

LEMMA InitProactivity ==
  ASSUME ProactivityAssumption, P!Init
  PROVE  ProactivityInv
<1>1. CounterTypes
  BY SMT DEF ProactivityAssumption, P!Init, CounterTypes
<1>2. FeedbackTypes
  <2>1. {a \in Answers : feedback[a] = "done"} = {}
    BY DEF P!Init
  <2>2. feedback \in [Answers -> {"none", "yes", "no", "done"}]
    BY DEF P!Init
  <2>3. Cardinality({a \in Answers : feedback[a] = "done"}) = 0
    BY <2>1, FS_EmptySet
  <2>4. silenced \in BOOLEAN /\ pending \in BOOLEAN /\ quiet \in BOOLEAN
    BY Zenon DEF P!Init
  <2>5. dismissals = 0
    BY DEF P!Init
  <2> QED BY <2>2, <2>3, <2>4, <2>5 DEF FeedbackTypes
<1>3. CallerTypes
  <2>1. kind \in [Tasks -> P!Kinds \cup {"none"}] /\ pc \in [Tasks -> Stages]
    BY DEF P!Init, Stages
  <2>2. \A c \in Tasks : kind[c] = "none" /\ pc[c] = "idle"
    BY DEF P!Init
  <2>3. enabled \in BOOLEAN /\ cooling \in BOOLEAN /\ overtook \in BOOLEAN
    BY Zenon DEF P!Init
  <2>4. opps \in 0..2
    BY SMT DEF P!Init
  <2> QED BY <2>1, <2>2, <2>3, <2>4 DEF CallerTypes
<1>4. BudgetInv
  BY SMT DEF ProactivityAssumption, P!Init, BudgetInv, P!Past
<1>5. AutoInv
  BY SMT DEF ProactivityAssumption, P!Init, AutoInv, P!Are
<1>6. CooldownInv
  BY SMT DEF P!Init, CooldownInv
<1> QED BY <1>1, <1>2, <1>3, <1>4, <1>5, <1>6 DEF ProactivityInv

LEMMA ProactivityProperties ==
  ASSUME ProactivityAssumption, ProactivityInv
  PROVE  P!BudgetHeld /\ P!CooldownHeld /\ P!ProactivityTypeOK
<1> USE DEF ProactivityAssumption, ProactivityInv
<1>1. P!BudgetHeld
  BY DEF P!BudgetHeld, BudgetInv, AutoInv
<1>2. IsFiniteSet(early)
  BY FS_Subset DEF CooldownInv, P!Are
<1>3. P!CooldownHeld
  <2>1. Cardinality(early \ P!Evaluating) <= Cardinality(early) /\ Cardinality(early) \in Nat
        /\ Cardinality(early \ P!Evaluating) \in Nat
    <3>1. early \ P!Evaluating \subseteq early
      OBVIOUS
    <3> QED BY <1>2, <3>1, FS_Subset, FS_CardinalityType
  <2>2. fired \in Nat
    BY DEF CooldownInv
  <2>3. CASE fired = 0
    BY <2>1, <2>3, SameCardinality DEF P!CooldownHeld
  <2>4. CASE fired > 0
    BY <2>1, <2>2, <2>4, SameCardinality DEF P!CooldownHeld, CooldownInv
  <2> QED BY <2>2, <2>3, <2>4
<1>4. dismissals \in 0..Cardinality(Answers)
  <2> DEFINE answered == {a \in Answers : feedback[a] = "done"}
  <2>1. answered \subseteq Answers
    OBVIOUS
  <2>2. Cardinality(answered) <= Cardinality(Answers) /\ Cardinality(answered) \in Nat /\ Cardinality(Answers) \in Nat
    <3> HIDE DEF answered
    <3> QED BY <2>1, FS_Subset, FS_CardinalityType
  <2> QED BY <2>2 DEF FeedbackTypes
<1>5. P!ProactivityTypeOK
  BY <1>4, SameCardinality DEF P!ProactivityTypeOK, CounterTypes, FeedbackTypes, CallerTypes, Stages,
     BudgetInv, CooldownInv
<1> QED BY <1>1, <1>3, <1>5

\* A caller moves on with its kind.
Moves(c, k, to) == kind' = [kind EXCEPT ![c] = k] /\ pc' = [pc EXCEPT ![c] = to]

\* What moves on keeps the types of the callers.
LEMMA CallerStep ==
  ASSUME CallerTypes, NEW c \in Tasks, NEW k \in P!Kinds, NEW to \in Stages, Moves(c, k, to),
         to # "idle", to = "conditions" => k = "recipe", to = "looking" => k = "nudge",
         to = "proposing" => k = "auto",
         enabled' \in BOOLEAN, cooling' \in BOOLEAN, overtook' \in BOOLEAN, opps' \in 0..2
  PROVE  CallerTypes'
<1>1. kind' \in [Tasks -> P!Kinds \cup {"none"}] /\ pc' \in [Tasks -> Stages]
  BY DEF CallerTypes, Moves
<1>2. ASSUME NEW d \in Tasks
      PROVE  /\ pc'[d] = "idle" <=> kind'[d] = "none"
             /\ pc'[d] = "conditions" => kind'[d] = "recipe"
             /\ pc'[d] = "looking" => kind'[d] = "nudge"
             /\ pc'[d] = "proposing" => kind'[d] = "auto"
  <2>1. CASE d = c
    BY <2>1 DEF CallerTypes, Moves, P!Kinds
  <2>2. CASE d # c
    <3>1. pc'[d] = pc[d] /\ kind'[d] = kind[d]
      BY <2>2 DEF CallerTypes, Moves
    <3> QED BY <3>1 DEF CallerTypes
  <2> QED BY <2>1, <2>2
<1> QED BY <1>1, <1>2 DEF CallerTypes

\* A caller that moves with nothing used keeps what the budget promises, if it finds something left when it
\* gets past its check.
LEMMA BudgetStep ==
  ASSUME CallerTypes, BudgetInv, NEW c \in Tasks, NEW k \in P!Kinds, NEW to \in Stages, Moves(c, k, to),
         \/ used < Budget
         \/ c \in P!Past
         \/ to \notin {"looking", "conditions"} /\ (k = "recipe" => to # "acting"),
         UNCHANGED <<used, lateCallers, overtook>>
  PROVE  BudgetInv'
<1>1. ASSUME NEW d \in P!Past', d \notin lateCallers
      PROVE  used < Budget
  <2>0. d \in Tasks
    BY <1>1 DEF P!Past
  <2>1. CASE d = c
    <3>1. pc'[d] = to /\ kind'[d] = k
      BY <2>1 DEF Moves, CallerTypes
    <3> QED BY <1>1, <2>1, <3>1 DEF BudgetInv, P!Past
  <2>2. CASE d # c
    <3>1. pc'[d] = pc[d] /\ kind'[d] = kind[d]
      BY <2>0, <2>2 DEF Moves, CallerTypes
    <3>2. d \in P!Past
      BY <1>1, <3>1 DEF P!Past
    <3> QED BY <1>1, <3>2 DEF BudgetInv
  <2> QED BY <2>1, <2>2
<1> QED BY <1>1 DEF BudgetInv

\* What uses the budget had found something left of it, unless it was overtaken.
LEMMA UseStep ==
  ASSUME ProactivityAssumption, CallerTypes, BudgetInv, used \in Nat, NEW c \in Tasks,
         NEW k \in P!Kinds,
         NEW to \in Stages, Moves(c, k, to), P!Use(c), c \in P!Past \/ used < Budget, to = "done"
  PROVE  BudgetInv' /\ overtook' \in BOOLEAN
<1>1. lateCallers' = lateCallers \cup (P!Past \ {c}) /\ used' = used + 1 /\ overtook' = (overtook \/ c \in lateCallers)
  BY DEF P!Use
<1>2. lateCallers' \subseteq Tasks
  BY <1>1 DEF BudgetInv, P!Past
<1>3. overtook \in BOOLEAN
  BY DEF CallerTypes
<1>4. used' > Budget => overtook'
  <2>1. CASE c \in lateCallers
    BY <1>1, <2>1
  <2>2. CASE c \notin lateCallers
    <3>1. used < Budget
      BY <2>2 DEF BudgetInv
    <3> QED BY <1>1, <3>1 DEF ProactivityAssumption
  <2> QED BY <2>1, <2>2
<1>5. P!Past' \subseteq lateCallers'
  <2> SUFFICES ASSUME NEW d \in P!Past' PROVE d \in lateCallers'
    OBVIOUS
  <2>1. d \in Tasks
    BY DEF P!Past
  <2>2. d # c
    BY DEF P!Past, Moves, CallerTypes
  <2>3. pc'[d] = pc[d] /\ kind'[d] = kind[d]
    BY <2>1, <2>2 DEF Moves, CallerTypes
  <2>4. d \in P!Past
    BY <2>1, <2>3 DEF P!Past
  <2> QED BY <1>1, <2>2, <2>4
<1> QED BY <1>1, <1>2, <1>3, <1>4, <1>5 DEF BudgetInv

\* What is not an autonomous action leaves those as they are.
LEMMA AutoStep ==
  ASSUME CallerTypes, AutoInv, NEW c \in Tasks, NEW k \in P!Kinds \ {"auto"}, NEW to \in Stages,
         Moves(c, k, to),
         opps' = opps, actions' = actions
  PROVE  AutoInv'
<1>1. P!Are("auto")' \subseteq P!Are("auto") \ {c}
  BY DEF P!Are, Moves, CallerTypes
<1>2. \A d \in P!Are("auto")' : pc'[d] = pc[d]
  BY <1>1 DEF P!Are, Moves, CallerTypes
<1> QED BY <1>1, <1>2 DEF AutoInv

\* The one round that goes on moves.
LEMMA RoundStep ==
  ASSUME CallerTypes, AutoInv, NEW c \in Tasks, NEW to \in Stages, Moves(c, "auto", to),
         \A d \in P!Are("auto") : d = c \/ pc[d] = "done",
         to = "acting" => actions' < ActionBudget /\ opps' > 0,
         actions' <= ActionBudget
  PROVE  AutoInv'
<1>1. ASSUME NEW d \in P!Are("auto")' PROVE d = c \/ pc'[d] = "done"
  BY <1>1 DEF P!Are, Moves, CallerTypes
<1>2. pc'[c] = to
  BY DEF Moves, CallerTypes
<1>3. \A d \in P!Are("auto")' : pc'[d] = "acting" => d = c
  BY <1>1
<1>4. \A d \in P!Are("auto")' : pc'[d] = "acting" => actions' < ActionBudget /\ opps' > 0
  BY <1>2, <1>3
<1>5. \A d, e \in P!Are("auto")' : pc'[d] # "done" /\ pc'[e] # "done" => d = e
  BY <1>1
<1> QED BY <1>4, <1>5 DEF AutoInv

\* A move that fires nothing, and begins no evaluation during a cooldown, keeps what the cooldown promises.
LEMMA CooldownStep ==
  ASSUME ProactivityAssumption, CallerTypes, CooldownInv, NEW c \in Tasks, NEW k \in P!Kinds,
         NEW to \in Stages,
         Moves(c, k, to), pc[c] = "idle" \/ kind[c] = k,
         k = "recipe" /\ pc[c] = "idle" => ~cooling,
         k = "recipe" /\ pc[c] \notin {"idle", "relating", "settings", "conditions"}
            => to \notin {"relating", "settings", "conditions"},
         UNCHANGED <<cooling, fired, early>>
  PROVE  CooldownInv'
<1>1. early' \subseteq P!Are("recipe")'
  <2> SUFFICES ASSUME NEW d \in early PROVE kind'[d] = "recipe" /\ d \in Tasks
    BY DEF P!Are
  <2>1. d \in Tasks /\ kind[d] = "recipe"
    BY DEF CooldownInv, P!Are
  <2>2. pc[d] # "idle"
    BY <2>1 DEF CallerTypes
  <2> QED BY <2>1, <2>2 DEF Moves, CallerTypes
<1>2. ASSUME fired > 0 PROVE P!Evaluating' \subseteq P!Evaluating
  <2> SUFFICES ASSUME NEW d \in P!Evaluating' PROVE d \in P!Evaluating
    OBVIOUS
  <2>0. cooling
    BY <1>2 DEF CooldownInv
  <2>1. d \in Tasks /\ kind'[d] = "recipe" /\ pc'[d] \in {"relating", "settings", "conditions"}
    BY DEF P!Evaluating, P!Are
  <2>2. CASE d = c
    <3>1. kind'[d] = k /\ pc'[d] = to
      BY <2>2 DEF Moves, CallerTypes
    <3>2. pc[d] # "idle" /\ kind[d] = "recipe"
      BY <2>0, <2>1, <2>2, <3>1
    <3>3. pc[d] \in {"relating", "settings", "conditions"}
      BY <2>1, <2>2, <3>1, <3>2
    <3> QED BY <2>1, <3>2, <3>3 DEF P!Evaluating, P!Are
  <2>3. CASE d # c
    <3>1. kind'[d] = kind[d] /\ pc'[d] = pc[d]
      BY <2>1, <2>3 DEF Moves, CallerTypes
    <3> QED BY <2>1, <3>1 DEF P!Evaluating, P!Are
  <2> QED BY <2>2, <2>3
<1>3. IsFiniteSet(early)
  BY FS_Subset DEF CooldownInv, P!Are, ProactivityAssumption
<1>4. ASSUME fired > 0 PROVE fired <= 1 + Cardinality(early \ P!Evaluating')
  <2> DEFINE before == early \ P!Evaluating
             after == early \ P!Evaluating'
  <2>1. before \subseteq after /\ after \subseteq early
    BY <1>2, <1>4
  <2>2. fired <= 1 + Cardinality(before)
    BY <1>4 DEF CooldownInv
  <2> HIDE DEF before, after
  <2>3. IsFiniteSet(after)
    BY <1>3, <2>1, FS_Subset
  <2>4. Cardinality(before) <= Cardinality(after) /\ Cardinality(before) \in Nat /\ Cardinality(after) \in Nat
    BY <2>1, <2>3, FS_Subset, FS_CardinalityType
  <2>5. fired \in Nat
    BY DEF CooldownInv
  <2>6. fired <= 1 + Cardinality(after)
    BY <2>2, <2>4, <2>5
  <2> QED BY <2>6 DEF after
<1> QED BY <1>1, <1>2, <1>4 DEF CooldownInv

\* The recipe fires.
LEMMA FireStep ==
  ASSUME ProactivityAssumption, CallerTypes, CooldownInv, NEW c \in Tasks, P!Fire(c)
  PROVE  CooldownInv'
<1>1. /\ pc[c] = "conditions" /\ pc' = [pc EXCEPT ![c] = "acting"] /\ kind' = kind /\ cooling' /\ fired' = fired + 1
      /\ early' = IF fired = 0 THEN P!Evaluating \ {c} ELSE early
  BY DEF P!Fire, P!StartsCooling
<1>2. c \in P!Evaluating /\ P!Evaluating' = P!Evaluating \ {c}
  BY <1>1 DEF P!Evaluating, P!Are, CallerTypes
<1>3. early' \subseteq P!Are("recipe")'
  BY <1>1 DEF CooldownInv, P!Evaluating, P!Are
<1>4. fired \in Nat
  BY DEF CooldownInv
<1>5. CASE fired = 0
  <2>1. early' = P!Evaluating'
    BY <1>1, <1>2, <1>5
  <2>2. early' \ P!Evaluating' = {}
    BY <2>1
  <2> QED BY <1>1, <1>3, <1>5, <2>1, <2>2, FS_EmptySet DEF CooldownInv
<1>6. CASE fired > 0
  <2> DEFINE before == early \ P!Evaluating
  <2>1. P!Evaluating \subseteq early /\ fired <= 1 + Cardinality(before)
    BY <1>6 DEF CooldownInv
  <2>2. early' = early
    BY <1>1, <1>4, <1>6
  <2>3. early' \ P!Evaluating' = before \cup {c} /\ c \notin before
    BY <1>2, <2>1, <2>2
  <2>4. IsFiniteSet(before)
    <3>1. IsFiniteSet(early)
      BY FS_Subset DEF CooldownInv, P!Are, ProactivityAssumption
    <3> QED BY <3>1, FS_Subset
  <2> HIDE DEF before
  <2>5. Cardinality(early' \ P!Evaluating') = Cardinality(before) + 1 /\ Cardinality(before) \in Nat
    BY <2>3, <2>4, FS_AddElement, FS_CardinalityType
  <2>6. fired' <= 1 + Cardinality(early' \ P!Evaluating') /\ fired' \in Nat
    BY <1>1, <1>4, <2>1, <2>5
  <2>7. P!Evaluating' \subseteq early'
    BY <1>2, <2>1, <2>2
  <2> QED BY <1>1, <1>3, <2>6, <2>7 DEF CooldownInv
<1> QED BY <1>4, <1>5, <1>6

\* What a caller does.
LEMMA CallerMoves ==
  ASSUME ProactivityAssumption, ProactivityInv, NEW c \in Tasks,
         \/ \E k \in P!Kinds : P!Begin(c, k)
         \/ P!Relate(c) \/ P!Refused(c) \/ P!Suggest(c) \/ P!NudgeLook(c) \/ P!NudgeEnd(c)
         \/ P!AutoAllowed(c) \/ P!Propose(c) \/ P!Act(c)
         \/ P!RecipeAllowed(c) \/ P!ConditionsFail(c) \/ P!Fire(c) \/ P!FireEnd(c)
  PROVE  ProactivityInv'
<1>0. /\ CounterTypes /\ FeedbackTypes /\ CallerTypes /\ BudgetInv /\ AutoInv /\ CooldownInv
      /\ kind[c] \in P!Kinds \cup {"none"} /\ pc[c] \in Stages
  BY DEF ProactivityInv, CallerTypes
<1>T. CallerTypes /\ kind[c] \in P!Kinds => \A to \in Stages : pc' = [pc EXCEPT ![c] = to] /\ kind' = kind => Moves(c, kind[c], to)
  BY DEF Moves, CallerTypes
<1>1. ASSUME NEW k \in P!Kinds, P!Begin(c, k) PROVE ProactivityInv'
  <2>1. /\ pc[c] = "idle" /\ P!Asks(k) /\ Moves(c, k, "relating") /\ opps' = (IF k = "auto" THEN 0 ELSE opps)
        /\ UNCHANGED <<P!counters, P!session, P!recipe, feedback, P!history>>
    BY <1>1 DEF P!Begin, Moves
  <2>2. opps \in 0..2 /\ opps' \in 0..2
    BY <1>0, <2>1 DEF CallerTypes
  <2>3. CounterTypes' /\ FeedbackTypes'
    BY <1>0, <2>1 DEF CounterTypes, FeedbackTypes, P!counters, P!session
  <2>4. CallerTypes'
    BY <1>0, <2>1, <2>2, CallerStep DEF Stages, P!recipe, P!history, CallerTypes
  <2>5. BudgetInv'
    BY <1>0, <2>1, BudgetStep DEF Stages, P!counters, P!history
  <2>6. AutoInv'
    <3>1. CASE k = "auto"
      BY <1>0, <2>1, <3>1, RoundStep DEF Stages, P!counters, P!Asks, AutoInv
    <3>2. CASE k # "auto"
      BY <1>0, <2>1, <3>2, AutoStep DEF Stages, P!counters
    <3> QED BY <3>1, <3>2
  <2>7. CooldownInv'
    BY <1>0, <2>1, CooldownStep DEF Stages, P!recipe, P!Asks
  <2> QED BY <2>3, <2>4, <2>5, <2>6, <2>7 DEF ProactivityInv
<1>2. CASE P!Relate(c)
  <2>1. PICK to \in {"done", "settings"} :
           /\ pc[c] = "relating" /\ pc' = [pc EXCEPT ![c] = to]
           /\ \/ used' = 0 /\ actions' = 0 /\ resetDay' = day /\ overtook' = FALSE
              \/ UNCHANGED <<used, actions, resetDay, overtook>>
           /\ UNCHANGED <<kind, day, P!session, P!recipe, opps, feedback, lateCallers>>
    BY <1>2 DEF P!Relate
  <2>2. kind[c] \in P!Kinds
    BY <1>0, <2>1 DEF CallerTypes
  <2>3. Moves(c, kind[c], to) /\ to \in Stages /\ to \notin {"idle", "looking", "conditions", "proposing", "acting"}
    BY <1>0, <1>T, <2>1, <2>2 DEF Stages
  <2>4. CounterTypes'
    BY <1>0, <2>1 DEF CounterTypes
  <2>5. FeedbackTypes'
    BY <1>0, <2>1 DEF FeedbackTypes, P!session
  <2>6. CallerTypes'
    <3>1. overtook' \in BOOLEAN /\ enabled' \in BOOLEAN /\ cooling' \in BOOLEAN /\ opps' \in 0..2
      BY <1>0, <2>1 DEF P!recipe, CallerTypes
    <3> QED BY <1>0, <2>2, <2>3, <3>1, CallerStep
  <2>7. BudgetInv'
    <3>1. CASE UNCHANGED <<used, actions, resetDay, overtook>>
      BY <1>0, <2>1, <2>2, <2>3, <3>1, BudgetStep
    <3>2. CASE used' = 0 /\ actions' = 0 /\ resetDay' = day /\ overtook' = FALSE
      <4>1. ASSUME NEW d \in P!Past', d \notin lateCallers' PROVE used' < Budget
        <5>1. d \in Tasks
          BY <4>1 DEF P!Past
        <5>2. d # c
          BY <4>1, <2>1, <1>0 DEF P!Past, CallerTypes
        <5>3. d \in P!Past \ lateCallers
          BY <4>1, <5>1, <5>2, <2>1, <1>0 DEF P!Past, CallerTypes
        <5>4. used < Budget
          BY <1>0, <5>3 DEF BudgetInv
        <5> QED BY <1>0, <3>2, <5>4 DEF CounterTypes, ProactivityAssumption
      <4>2. ~(used' > Budget)
        BY <3>2 DEF ProactivityAssumption
      <4> QED BY <1>0, <2>1, <4>1, <4>2 DEF BudgetInv
    <3> QED BY <2>1, <3>1, <3>2
  <2>8. AutoInv'
    <3>1. ASSUME NEW d \in P!Are("auto")'
          PROVE  d \in P!Are("auto") /\ (pc'[d] = "acting" => pc[d] = "acting") /\ (pc'[d] # "done" => pc[d] # "done")
      BY <1>0, <2>1 DEF P!Are, CallerTypes
    <3>2. \A d \in P!Are("auto")' : pc'[d] = "acting" => actions' < ActionBudget /\ opps' > 0
      BY <1>0, <2>1, <3>1 DEF AutoInv, CounterTypes, ProactivityAssumption
    <3>3. actions' <= ActionBudget
      BY <1>0, <2>1 DEF AutoInv, CounterTypes, ProactivityAssumption
    <3>4. \A d, e \in P!Are("auto")' : pc'[d] # "done" /\ pc'[e] # "done" => d = e
      BY <1>0, <3>1 DEF AutoInv
    <3> QED BY <3>2, <3>3, <3>4 DEF AutoInv
  <2>9. CooldownInv'
    BY <1>0, <2>1, <2>2, <2>3, CooldownStep DEF P!recipe
  <2> QED BY <2>4, <2>5, <2>6, <2>7, <2>8, <2>9 DEF ProactivityInv
\* Moves with nothing used, of what has its kind already.
<1>3. ASSUME NEW to \in Stages \ {"idle", "relating", "settings"}, pc[c] # "idle",
             pc' = [pc EXCEPT ![c] = to], kind[c] # "auto",
             to = "conditions" => kind[c] = "recipe" /\ pc[c] = "settings", to = "looking" => kind[c] = "nudge",
             to # "proposing", to = "acting" => kind[c] # "recipe" \/ c \in P!Past,
             to \in {"looking", "conditions"} => used < Budget,
             UNCHANGED <<kind, P!counters, opps, P!history>>, FeedbackTypes', enabled' \in BOOLEAN,
             \/ UNCHANGED <<cooling, fired, early>>
             \/ cooling' \in BOOLEAN /\ CooldownInv'
      PROVE  ProactivityInv'
  <2>1. kind[c] \in P!Kinds \ {"auto"}
    BY <1>0, <1>3 DEF CallerTypes
  <2>2. Moves(c, kind[c], to)
    BY <1>0, <1>T, <1>3, <2>1
  <2>3. CounterTypes'
    BY <1>0, <1>3 DEF CounterTypes, P!counters
  <2>4. CallerTypes'
    <3>1. overtook' \in BOOLEAN /\ cooling' \in BOOLEAN /\ opps' \in 0..2
      BY <1>0, <1>3 DEF P!history, CallerTypes
    <3> QED BY <1>0, <1>3, <2>1, <2>2, <3>1, CallerStep
  <2>5. BudgetInv'
    BY <1>0, <1>3, <2>1, <2>2, BudgetStep DEF P!counters, P!history
  <2>6. AutoInv'
    BY <1>0, <1>3, <2>1, <2>2, AutoStep DEF P!counters
  <2>7. CooldownInv'
    BY <1>0, <1>3, <2>1, <2>2, CooldownStep
  <2> QED BY <1>3, <2>3, <2>4, <2>5, <2>6, <2>7 DEF ProactivityInv
<1>4. CASE P!Refused(c)
  <2>1. /\ pc[c] = "settings" /\ pc' = [pc EXCEPT ![c] = "done"]
        /\ UNCHANGED <<kind, P!counters, P!session, P!recipe, opps, feedback, P!history>>
    BY <1>4 DEF P!Refused
  <2>2. FeedbackTypes' /\ enabled' \in BOOLEAN
    BY <1>0, <2>1 DEF FeedbackTypes, P!session, P!recipe, CallerTypes
  <2>3. CASE kind[c] # "auto"
    BY <1>3, <2>1, <2>2, <2>3 DEF P!recipe, Stages
  <2>4. CASE kind[c] = "auto"
    <3>1. Moves(c, "auto", "done")
      BY <1>0, <1>T, <2>1, <2>4 DEF P!Kinds, Stages
    <3>2. \A d \in P!Are("auto") : d = c \/ pc[d] = "done"
      BY <1>0, <2>1, <2>4 DEF AutoInv, P!Are
    <3>3. AutoInv'
      BY <1>0, <2>1, <3>1, <3>2, RoundStep DEF Stages, P!counters, AutoInv
    <3>4. CounterTypes'
      BY <1>0, <2>1 DEF CounterTypes, P!counters
    <3>5. CallerTypes'
      BY <1>0, <2>1, <3>1, CallerStep DEF CallerTypes, P!Kinds, Stages, P!recipe, P!history
    <3>6. BudgetInv'
      BY <1>0, <2>1, <3>1, BudgetStep DEF P!counters, P!history, P!Kinds, Stages
    <3>7. CooldownInv'
      BY <1>0, <2>1, <2>4, <3>1, CooldownStep DEF P!recipe, P!Kinds, Stages
    <3> QED BY <2>2, <3>3, <3>4, <3>5, <3>6, <3>7 DEF ProactivityInv
  <2> QED BY <2>3, <2>4
\* Moves that may use the budget, and end.
<1>5. ASSUME pc[c] # "idle", pc' = [pc EXCEPT ![c] = "done"], kind' = kind, kind[c] # "auto",
             P!Use(c) \/ UNCHANGED <<used, P!history>>, c \in P!Past \/ used < Budget,
             UNCHANGED <<actions, day, resetDay, P!recipe, opps>>, FeedbackTypes'
      PROVE  ProactivityInv'
  <2>1. kind[c] \in P!Kinds \ {"auto"}
    BY <1>0, <1>5 DEF CallerTypes
  <2>2. Moves(c, kind[c], "done")
    BY <1>0, <1>T, <1>5, <2>1 DEF Stages
  <2>3. CounterTypes'
    BY <1>0, <1>5 DEF CounterTypes, P!Use
  <2>4. BudgetInv' /\ overtook' \in BOOLEAN
    <3>1. CASE P!Use(c)
      BY <1>0, <1>5, <2>1, <2>2, <3>1, UseStep DEF Stages, CounterTypes
    <3>2. CASE UNCHANGED <<used, P!history>>
      <4>1. BudgetInv'
        BY <1>0, <1>5, <2>1, <2>2, <3>2, BudgetStep DEF Stages, P!history
      <4> QED BY <1>0, <3>2, <4>1 DEF P!history, CallerTypes
    <3> QED BY <1>5, <3>1, <3>2
  <2>5. CallerTypes'
    BY <1>0, <1>5, <2>1, <2>2, <2>4, CallerStep DEF CallerTypes, Stages, P!recipe
  <2>6. AutoInv'
    BY <1>0, <1>5, <2>1, <2>2, AutoStep DEF Stages
  <2>7. CooldownInv'
    BY <1>0, <1>5, <2>1, <2>2, CooldownStep DEF Stages, P!recipe
  <2> QED BY <1>5, <2>3, <2>4, <2>5, <2>6, <2>7 DEF ProactivityInv
<1>6. CASE P!Suggest(c)
  <2>1. /\ kind[c] = "suggest" /\ pc[c] = "settings" /\ used < Budget /\ pc' = [pc EXCEPT ![c] = "done"]
        /\ P!Use(c) \/ UNCHANGED <<used, P!history>>
        /\ UNCHANGED <<kind, actions, day, resetDay, P!session, P!recipe, opps, feedback>>
    BY <1>6 DEF P!Suggest, P!Allowed, P!HasBudget
  <2>2. FeedbackTypes'
    BY <1>0, <2>1 DEF FeedbackTypes, P!session
  <2> QED BY <1>5, <2>1, <2>2
<1>7. CASE P!NudgeLook(c)
  <2>1. /\ kind[c] = "nudge" /\ pc[c] = "settings" /\ used < Budget /\ pc' = [pc EXCEPT ![c] = "looking"]
        /\ UNCHANGED <<kind, P!counters, P!session, P!recipe, opps, feedback, P!history>>
    BY <1>7 DEF P!NudgeLook, P!Allowed, P!HasBudget
  <2>2. FeedbackTypes' /\ enabled' \in BOOLEAN
    BY <1>0, <2>1 DEF FeedbackTypes, P!session, P!recipe, CallerTypes
  <2> QED BY <1>3, <2>1, <2>2 DEF Stages, P!recipe
<1>8. CASE P!NudgeEnd(c)
  <2>1. /\ pc[c] = "looking" /\ pc' = [pc EXCEPT ![c] = "done"]
        /\ P!Use(c) \/ UNCHANGED <<used, P!history>>
        /\ pending' \in BOOLEAN /\ quiet' \in BOOLEAN
        /\ UNCHANGED <<kind, actions, day, resetDay, silenced, dismissals, P!recipe, opps, feedback>>
    BY <1>0, <1>8 DEF P!NudgeEnd, FeedbackTypes
  <2>2. kind[c] = "nudge" /\ c \in P!Past
    BY <1>0, <2>1 DEF CallerTypes, P!Past
  <2>3. FeedbackTypes'
    BY <1>0, <2>1 DEF FeedbackTypes
  <2> QED BY <1>5, <2>1, <2>2, <2>3
<1>9. CASE P!RecipeAllowed(c)
  <2>1. /\ kind[c] = "recipe" /\ pc[c] = "settings" /\ used < Budget /\ pc' = [pc EXCEPT ![c] = "conditions"]
        /\ UNCHANGED <<kind, P!counters, P!session, P!recipe, opps, feedback, P!history>>
    BY <1>9 DEF P!RecipeAllowed, P!Allowed, P!HasBudget
  <2>2. FeedbackTypes' /\ enabled' \in BOOLEAN
    BY <1>0, <2>1 DEF FeedbackTypes, P!session, P!recipe, CallerTypes
  <2> QED BY <1>3, <2>1, <2>2 DEF Stages, P!recipe
<1>10. CASE P!ConditionsFail(c)
  <2>1. /\ pc[c] = "conditions" /\ pc' = [pc EXCEPT ![c] = "done"] /\ kind[c] = "recipe"
        /\ UNCHANGED <<kind, P!counters, P!session, P!recipe, opps, feedback, P!history>>
    BY <1>0, <1>10 DEF P!ConditionsFail, CallerTypes
  <2>2. FeedbackTypes' /\ enabled' \in BOOLEAN
    BY <1>0, <2>1 DEF FeedbackTypes, P!session, P!recipe, CallerTypes
  <2> QED BY <1>3, <2>1, <2>2 DEF Stages, P!recipe
<1>11. CASE P!Fire(c)
  <2>1. /\ pc[c] = "conditions" /\ pc' = [pc EXCEPT ![c] = "acting"] /\ kind[c] = "recipe" /\ cooling' = TRUE
        /\ UNCHANGED <<kind, P!counters, P!session, enabled, opps, feedback, P!history>>
    BY <1>0, <1>11 DEF P!Fire, P!StartsCooling, CallerTypes
  <2>2. FeedbackTypes' /\ enabled' \in BOOLEAN
    BY <1>0, <2>1 DEF FeedbackTypes, P!session, CallerTypes
  <2>3. CooldownInv'
    BY <1>0, <1>11, FireStep
  <2>4. c \in P!Past
    BY <2>1 DEF P!Past
  <2> QED BY <1>3, <2>1, <2>2, <2>3, <2>4 DEF Stages
<1>12. CASE P!FireEnd(c)
  <2>1. /\ kind[c] = "recipe" /\ pc[c] = "acting" /\ pc' = [pc EXCEPT ![c] = "done"]
        /\ P!Use(c) \/ UNCHANGED <<used, P!history>>
        /\ UNCHANGED <<kind, actions, day, resetDay, P!session, P!recipe, opps, feedback>>
    BY <1>12 DEF P!FireEnd
  <2>2. FeedbackTypes' /\ c \in P!Past
    BY <1>0, <2>1 DEF FeedbackTypes, P!session, P!Past
  <2> QED BY <1>5, <2>1, <2>2
\* The round of autonomous actions.
<1>13. ASSUME NEW to \in {"done", "relating", "proposing", "acting"}, kind[c] = "auto",
              pc[c] \notin {"idle", "done"},
              pc' = [pc EXCEPT ![c] = to], kind' = kind, opps' \in 0..2,
              to = "acting" => actions' < ActionBudget /\ opps' > 0, actions' <= ActionBudget, actions' \in Nat,
              UNCHANGED <<used, day, resetDay, P!session, P!recipe, feedback, P!history>>
       PROVE  ProactivityInv'
  <2>1. Moves(c, "auto", to) /\ to \in Stages
    BY <1>0, <1>T, <1>13 DEF P!Kinds, Stages
  <2>2. \A d \in P!Are("auto") : d = c \/ pc[d] = "done"
    BY <1>0, <1>13 DEF AutoInv, P!Are
  <2>3. AutoInv'
    BY <1>0, <1>13, <2>1, <2>2, RoundStep
  <2>4. CounterTypes'
    BY <1>0, <1>13 DEF CounterTypes
  <2>5. FeedbackTypes'
    BY <1>0, <1>13 DEF FeedbackTypes, P!session
  <2>6. CallerTypes'
    BY <1>0, <1>13, <2>1, CallerStep DEF CallerTypes, P!Kinds, P!recipe, P!history
  <2>7. BudgetInv'
    BY <1>0, <1>13, <2>1, BudgetStep DEF P!history, P!Kinds
  <2>8. CooldownInv'
    BY <1>0, <1>13, <2>1, CooldownStep DEF P!recipe, P!Kinds
  <2> QED BY <2>3, <2>4, <2>5, <2>6, <2>7, <2>8 DEF ProactivityInv
<1>14. actions \in Nat /\ actions <= ActionBudget /\ ActionBudget \in Nat /\ opps \in 0..2
  BY <1>0 DEF CounterTypes, AutoInv, CallerTypes, ProactivityAssumption
<1>15. CASE P!AutoAllowed(c)
  <2>1. /\ kind[c] = "auto" /\ pc[c] = "settings" /\ actions < ActionBudget
        /\ pc' = [pc EXCEPT ![c] = IF opps = 0 THEN "proposing" ELSE "acting"]
        /\ UNCHANGED <<kind, P!counters, P!session, P!recipe, opps, feedback, P!history>>
    BY <1>15 DEF P!AutoAllowed, P!Allowed, P!HasBudget
  <2>2. /\ UNCHANGED <<used, day, resetDay, actions, opps, P!session, P!recipe, feedback, P!history>> /\ kind' = kind
        /\ pc' = [pc EXCEPT ![c] = IF opps = 0 THEN "proposing" ELSE "acting"]
    BY <2>1 DEF P!counters
  <2>3. CASE opps = 0
    <3>1. pc' = [pc EXCEPT ![c] = "proposing"]
      BY <2>2, <2>3
    <3> QED BY <1>13, <1>14, <2>1, <2>2, <3>1
  <2>4. CASE opps # 0
    <3>1. pc' = [pc EXCEPT ![c] = "acting"] /\ opps > 0
      BY <1>14, <2>2, <2>4
    <3> QED BY <1>13, <1>14, <2>1, <2>2, <3>1
  <2> QED BY <2>3, <2>4
<1>16. CASE P!Propose(c)
  <2>1. /\ kind[c] = "auto" /\ pc[c] = "proposing" /\ opps' \in 0..2
        /\ \E to \in {"done", "relating"} : pc' = [pc EXCEPT ![c] = to]
        /\ UNCHANGED <<kind, P!counters, P!session, P!recipe, feedback, P!history>>
    BY <1>0, <1>16 DEF P!Propose, P!NextAction, CallerTypes
  <2> QED BY <1>13, <1>14, <2>1 DEF P!counters
<1>17. CASE P!Act(c)
  <2>1. /\ kind[c] = "auto" /\ pc[c] = "acting" /\ actions' = actions + 1 /\ opps' = opps - 1
        /\ \E to \in {"done", "relating"} : pc' = [pc EXCEPT ![c] = to]
        /\ UNCHANGED <<kind, used, day, resetDay, P!session, P!recipe, feedback, P!history>>
    BY <1>17 DEF P!Act, P!NextAction
  <2>2. actions < ActionBudget /\ opps > 0
    BY <1>0, <2>1 DEF AutoInv, P!Are
  <2>3. actions' \in Nat /\ actions' <= ActionBudget /\ opps' \in 0..2
    BY <1>14, <2>1, <2>2
  <2>4. PICK to \in {"done", "relating"} : pc' = [pc EXCEPT ![c] = to]
    BY <2>1
  <2> QED BY <1>13, <2>1, <2>3, <2>4
<1> QED BY <1>1, <1>2, <1>4, <1>6, <1>7, <1>8, <1>9, <1>10, <1>11, <1>12, <1>15, <1>16, <1>17

\* What the callers promise holds on while they stay where they are.
LEMMA CallersStay ==
  ASSUME CallerTypes, BudgetInv, AutoInv,
         UNCHANGED <<kind, pc, opps, used, actions, lateCallers, overtook>>, enabled' \in BOOLEAN, cooling' \in BOOLEAN
  PROVE  CallerTypes' /\ BudgetInv' /\ AutoInv'
<1>1. P!Past' = P!Past /\ P!Are("auto")' = P!Are("auto")
  BY DEF P!Past, P!Are
<1>2. CallerTypes'
  BY DEF CallerTypes
<1>3. BudgetInv'
  BY <1>1 DEF BudgetInv
<1>4. AutoInv'
  BY <1>1 DEF AutoInv
<1> QED BY <1>2, <1>3, <1>4

LEMMA ProactivityStep ==
  ASSUME ProactivityAssumption, ProactivityInv, [P!Next]_P!proVars
  PROVE  ProactivityInv'
<1>0. /\ CounterTypes /\ FeedbackTypes /\ CallerTypes /\ BudgetInv /\ AutoInv /\ CooldownInv
  BY DEF ProactivityInv
<1>1. ASSUME NEW c \in Tasks,
             \/ \E k \in P!Kinds : P!Begin(c, k)
             \/ P!Relate(c) \/ P!Refused(c) \/ P!Suggest(c) \/ P!NudgeLook(c) \/ P!NudgeEnd(c)
             \/ P!AutoAllowed(c) \/ P!Propose(c) \/ P!Act(c)
             \/ P!RecipeAllowed(c) \/ P!ConditionsFail(c) \/ P!Fire(c) \/ P!FireEnd(c)
      PROVE  ProactivityInv'
  BY <1>1, CallerMoves
<1>2. ASSUME UNCHANGED <<kind, pc, opps, used, actions, P!history>>, enabled' \in BOOLEAN,
             cooling' \in BOOLEAN,
             CounterTypes', FeedbackTypes', UNCHANGED <<cooling, fired, early>> \/ CooldownInv'
      PROVE  ProactivityInv'
  <2>1. CallerTypes' /\ BudgetInv' /\ AutoInv'
    BY <1>0, <1>2, CallersStay DEF P!history
  <2>2. CooldownInv'
    <3>1. P!Are("recipe")' = P!Are("recipe") /\ P!Evaluating' = P!Evaluating
      BY <1>2 DEF P!Are, P!Evaluating
    <3>2. CASE UNCHANGED <<cooling, fired, early>>
      <4>1. early' \ P!Evaluating' = early \ P!Evaluating
        BY <3>1, <3>2
      <4> QED BY <1>0, <3>1, <3>2, <4>1 DEF CooldownInv
    <3> QED BY <1>2, <3>2
  <2> QED BY <1>2, <2>1, <2>2 DEF ProactivityInv
<1>3. ASSUME NEW a \in Answers, P!FeedbackBegin(a) PROVE ProactivityInv'
  <2>1. PICK accepted \in {"yes", "no"} : feedback' = [feedback EXCEPT ![a] = accepted]
    BY <1>3 DEF P!FeedbackBegin
  <2>2. /\ feedback[a] = "none" /\ pending' = FALSE
        /\ UNCHANGED <<kind, P!counters, silenced, dismissals, quiet, P!recipe, pc, opps, P!history>>
    BY <1>3 DEF P!FeedbackBegin
  <2>3. {b \in Answers : feedback'[b] = "done"} = {b \in Answers : feedback[b] = "done"}
    BY <1>0, <2>1, <2>2 DEF FeedbackTypes
  <2>4. FeedbackTypes'
    BY <1>0, <2>1, <2>2, <2>3 DEF FeedbackTypes
  <2>5. CounterTypes' /\ enabled' \in BOOLEAN /\ cooling' \in BOOLEAN /\ UNCHANGED <<cooling, fired, early>>
    BY <1>0, <2>2 DEF CounterTypes, P!counters, P!recipe, CallerTypes
  <2> QED BY <1>2, <2>2, <2>4, <2>5 DEF P!counters
<1>4. ASSUME NEW a \in Answers, P!FeedbackEnd(a) PROVE ProactivityInv'
  <2>1. /\ feedback[a] \in {"yes", "no"} /\ feedback' = [feedback EXCEPT ![a] = "done"]
        /\ dismissals' = (IF feedback[a] = "no" THEN dismissals + 1 ELSE 0)
        /\ silenced' = (silenced \/ dismissals' >= Dismissals)
        /\ UNCHANGED <<kind, P!counters, pending, quiet, P!recipe, pc, opps, P!history>>
    BY <1>4 DEF P!FeedbackEnd
  <2> DEFINE answered == {b \in Answers : feedback[b] = "done"}
  <2>2. {b \in Answers : feedback'[b] = "done"} = answered \cup {a} /\ a \notin answered
    BY <1>0, <2>1 DEF FeedbackTypes
  <2>3. IsFiniteSet(answered)
    BY FS_Subset DEF ProactivityAssumption
  <2>4. dismissals \in Nat /\ dismissals <= Cardinality(answered)
    BY <1>0 DEF FeedbackTypes
  <2> HIDE DEF answered
  <2>5. Cardinality(answered \cup {a}) = Cardinality(answered) + 1 /\ Cardinality(answered) \in Nat
    BY <2>2, <2>3, FS_AddElement, FS_CardinalityType
  <2>6. dismissals' \in Nat /\ dismissals' <= Cardinality(answered) + 1
    BY <2>1, <2>4, <2>5
  <2>7. feedback' \in [Answers -> {"none", "yes", "no", "done"}]
    BY <1>0, <2>1 DEF FeedbackTypes
  <2>8. silenced' \in BOOLEAN
    BY <2>1
  <2>9. FeedbackTypes'
    BY <1>0, <2>1, <2>2, <2>5, <2>6, <2>7, <2>8 DEF FeedbackTypes
  <2>10. CounterTypes' /\ enabled' \in BOOLEAN /\ cooling' \in BOOLEAN /\ UNCHANGED <<cooling, fired, early>>
    BY <1>0, <2>1 DEF CounterTypes, P!counters, P!recipe, CallerTypes
  <2> QED BY <1>2, <2>1, <2>9, <2>10 DEF P!counters
<1>5. CASE P!CooldownEnds
  <2>1. /\ cooling' = FALSE /\ fired' = 0 /\ early' = {}
        /\ UNCHANGED <<kind, P!counters, P!session, enabled, pc, opps, feedback, P!history>>
    BY <1>5 DEF P!CooldownEnds
  <2>2. CooldownInv'
    BY <2>1 DEF CooldownInv
  <2>3. CounterTypes' /\ FeedbackTypes' /\ enabled' \in BOOLEAN
    BY <1>0, <2>1 DEF CounterTypes, FeedbackTypes, P!counters, P!session, CallerTypes
  <2> QED BY <1>2, <2>1, <2>2, <2>3 DEF P!counters
<1>6. CASE P!Toggle
  <2>1. /\ enabled' = ~enabled
        /\ UNCHANGED <<kind, P!counters, P!session, cooling, fired, early, pc, opps, feedback, P!history>>
    BY <1>6 DEF P!Toggle
  <2>2. CounterTypes' /\ FeedbackTypes' /\ enabled' \in BOOLEAN /\ cooling' \in BOOLEAN
    BY <1>0, <2>1 DEF CounterTypes, FeedbackTypes, P!counters, P!session, CallerTypes
  <2> QED BY <1>2, <2>1, <2>2 DEF P!counters
<1>7. CASE P!ResetSession \/ P!Message \/ P!TimePasses
  <2>1. /\ silenced' \in BOOLEAN /\ pending' \in BOOLEAN /\ quiet' \in BOOLEAN /\ dismissals' \in {0, dismissals}
        /\ UNCHANGED <<kind, P!counters, P!recipe, pc, opps, feedback, P!history>>
    BY <1>0, <1>7 DEF P!ResetSession, P!Message, P!TimePasses, FeedbackTypes
  <2>2. Cardinality({b \in Answers : feedback[b] = "done"}) \in Nat
    BY FS_Subset, FS_CardinalityType DEF ProactivityAssumption
  <2>3. FeedbackTypes'
    BY <1>0, <2>1, <2>2 DEF FeedbackTypes
  <2>4. CounterTypes' /\ enabled' \in BOOLEAN /\ cooling' \in BOOLEAN /\ UNCHANGED <<cooling, fired, early>>
    BY <1>0, <2>1 DEF CounterTypes, P!counters, P!recipe, CallerTypes
  <2> QED BY <1>2, <2>1, <2>3, <2>4 DEF P!counters
<1>8. CASE P!Midnight
  <2>1. /\ day < MaxDays /\ day' = day + 1
        /\ UNCHANGED <<kind, used, actions, resetDay, P!session, P!recipe, pc, opps, feedback, P!history>>
    BY <1>8 DEF P!Midnight
  <2>2. CounterTypes'
    BY <1>0, <2>1 DEF CounterTypes, ProactivityAssumption
  <2>3. FeedbackTypes' /\ enabled' \in BOOLEAN /\ cooling' \in BOOLEAN /\ UNCHANGED <<cooling, fired, early>>
    BY <1>0, <2>1 DEF FeedbackTypes, P!session, P!recipe, CallerTypes
  <2> QED BY <1>2, <2>1, <2>2, <2>3
<1>9. CASE UNCHANGED P!proVars
  <2>1. CounterTypes' /\ FeedbackTypes' /\ enabled' \in BOOLEAN /\ cooling' \in BOOLEAN
    BY <1>0, <1>9 DEF P!proVars, CounterTypes, FeedbackTypes, CallerTypes
  <2> QED BY <1>2, <1>9, <2>1 DEF P!proVars, P!history
<1> QED BY <1>1, <1>3, <1>4, <1>5, <1>6, <1>7, <1>8, <1>9 DEF P!Next

-----------------------------------------------------------------------------
(* A server of the model context protocol (mcp/connection_manager.py):     *)
(* which of its sessions each request, call and reconnect loop holds on    *)
(* to.                                                                     *)

ServersAssumption == None \notin M!Procs /\ Calls \cap Loops = {}

ServerStages == {"idle", "preparing", "sleeping", "waiting", "load", "closing", "connecting", "listing", "caching",
           "writing", "notifying", "saving", "deleting", "connected", "calling", "over"}
ServerPlaces == [pc : ServerStages, next : {"over", "connect", "deleting", "saving"}, conn : M!Procs \cup {None},
           got : M!Rows \cup {M!NoRow}]

ServerTypes ==
  /\ server \in M!Rows \cup {M!NoRow} /\ entry \in M!Procs \cup {None}
  /\ status \in [M!Procs -> M!Statuses] /\ open \in SUBSET M!Procs /\ taken \in SUBSET M!Procs
  /\ on_demand \in Names \cup {None} /\ reconnect \in Loops \cup {None} /\ lock \in Calls \cup {None}
  /\ proc \in [M!Procs -> ServerPlaces] /\ cancelled \in SUBSET Loops
  /\ recached \in BOOLEAN

\* Before it connects, which a process does once.
Before == {"idle", "preparing", "sleeping", "waiting", "load", "closing", "saving", "deleting"}

\* A loop is the one recorded, or cancelled; it cancels itself before it connects.
LoopOK(l) ==
  /\ proc[l].pc \in {"idle", "sleeping", "load", "closing", "connecting", "over"}
  /\ proc[l].pc \notin {"idle", "over"} => l = reconnect \/ l \in cancelled
  /\ proc[l].pc = "load" => entry # None \/ l \in cancelled
  /\ proc[l].pc \in {"closing", "connecting"} => l \in cancelled
  /\ proc[l].pc # "closing" => proc[l].conn = None
  /\ proc[l].pc = "closing" => proc[l].next = "connect"

ProcOK(p) ==
  /\ proc[p].pc \in Before => status[p] = "none"
  /\ proc[p].pc \in {"connecting", "listing", "caching", "writing", "notifying"} => status[p] # "none"
  /\ proc[p].pc = "connecting" => p \in taken \/ (p = entry /\ status[p] = "connecting")
  /\ proc[p].pc = "closing" => proc[p].conn \in M!Procs /\ proc[p].conn # entry /\ status[proc[p].conn] # "none"
  /\ proc[p].pc = "calling" => proc[p].conn \in M!Procs /\ status[proc[p].conn] \notin {"none", "connecting"}
  /\ proc[p].pc \in {"saving", "preparing", "writing"} => proc[p].got \in M!Rows
  /\ proc[p].pc = "closing" /\ proc[p].next = "saving" => proc[p].got \in M!Rows
  /\ p \in Loops => LoopOK(p)

ProcInv == \A p \in M!Procs : ProcOK(p)

EntryInv == entry # None => status[entry] \in {"connecting", "connected", "error"}

ClosingOf(p) == \E q \in M!Procs : proc[q].pc = "closing" /\ proc[q].conn = p
OpenInv == \A p \in open \ taken : p = entry \/ ClosingOf(p)
ServerRowInv == recached \/ server.cfg = configured

ServerInv == ServerTypes /\ ProcInv /\ EntryInv /\ OpenInv /\ ServerRowInv

LEMMA InitServers ==
  ASSUME ServersAssumption, M!Init
  PROVE  ServerInv
<1>1. M!Idle \in ServerPlaces /\ M!Idle.pc = "idle" /\ M!Idle.conn = None
  BY DEF M!Idle, ServerPlaces, ServerStages
<1>2. ServerTypes
  <2>1. server \in M!Rows \cup {M!NoRow} /\ on_demand \in Names \cup {None}
    <3>1. \A c \in Names : [cfg |-> c, tools |-> FALSE] \in M!Rows /\ [cfg |-> c, tools |-> FALSE].cfg = c
      BY DEF M!Rows
    <3>2. CASE server = M!NoRow
      BY <3>2 DEF M!Init
    <3>3. CASE \E c \in Names : server = [cfg |-> c, tools |-> FALSE]
      <4>1. server.cfg \in Names /\ server \in M!Rows
        BY <3>1, <3>3
      <4> QED BY <4>1 DEF M!Init
    <3> QED BY <3>2, <3>3 DEF M!Init
  <2>2. recached \in BOOLEAN
    BY Zenon DEF M!Init
  <2> QED BY <1>1, <2>1, <2>2 DEF M!Init, ServerTypes, M!Statuses
<1>3. ProcInv
  BY <1>1 DEF M!Init, ProcInv, ProcOK, LoopOK
<1> QED BY <1>2, <1>3 DEF ServerInv, M!Init, EntryInv, OpenInv, ServerRowInv

LEMMA ServerProperties ==
  ASSUME ServerInv
  PROVE  M!RunsAsConfigured /\ M!ServerTypeOK
<1>1. M!RunsAsConfigured
  BY DEF ServerInv, ServerRowInv, OpenInv, ClosingOf, M!RunsAsConfigured
<1>2. M!ServerTypeOK
  BY DEF ServerInv, ServerTypes, EntryInv, M!ServerTypeOK, ServerPlaces, ServerStages
<1> QED BY <1>1, <1>2

\* What p may do to the connections and loops of the others.
Minds(p) ==
  /\ \A x \in M!Procs : /\ status[x] = "none" /\ x # p => status'[x] = "none"
                        /\ status[x] # "none" => status'[x] # "none"
                        /\ status[x] \notin {"none", "connecting"} => status'[x] \notin {"none", "connecting"}
                        /\ x # p /\ x = entry /\ status[x] = "connecting"
                             => x \in taken' \/ (x = entry' /\ status'[x] = "connecting")
  /\ taken \subseteq taken' /\ cancelled \subseteq cancelled'
  /\ entry' \in {entry, None} \/ (entry' = p /\ status[p] = "none")
  /\ \A l \in Loops : l = reconnect /\ proc[l].pc # "over" /\ l \notin cancelled'
                        => reconnect' = l /\ (entry # None => entry' # None)

LEMMA OthersKept ==
  ASSUME ServersAssumption, ServerTypes, NEW p \in M!Procs, NEW q \in M!Procs \ {p}, ProcOK(q),
         Minds(p), proc'[q] = proc[q]
  PROVE  ProcOK(q)'
<1>0. p # None /\ q # None /\ proc[q] \in ServerPlaces
  BY DEF ServersAssumption, ServerTypes
<1>1. proc'[q].pc \in Before => status'[q] = "none"
  BY DEF ProcOK, Minds
<1>2. proc'[q].pc = "connecting" => q \in taken' \/ (q = entry' /\ status'[q] = "connecting")
  BY DEF ProcOK, Minds
<1>6. proc'[q].pc \in {"connecting", "listing", "caching", "writing", "notifying"} => status'[q] # "none"
  BY DEF ProcOK, Minds
<1>3. proc'[q].pc = "closing" => proc'[q].conn \in M!Procs /\ proc'[q].conn # entry' /\ status'[proc'[q].conn] # "none"
  BY <1>0 DEF ProcOK, Minds, ServersAssumption
<1>4. proc'[q].pc = "calling" => proc'[q].conn \in M!Procs /\ status'[proc'[q].conn] \notin {"none", "connecting"}
  BY DEF ProcOK, Minds
<1>5. ASSUME q \in Loops PROVE LoopOK(q)'
  BY <1>0, <1>5 DEF ProcOK, LoopOK, Minds, ServersAssumption
<1> QED BY <1>1, <1>2, <1>3, <1>4, <1>5, <1>6 DEF ProcOK

\* A process that moves on while the connections stay.
LEMMA QuietStep ==
  ASSUME ServersAssumption, ServerInv, NEW p \in M!Procs, NEW r \in ServerPlaces, M!Goes(p, r),
         UNCHANGED M!connVars, proc[p].pc # "closing",
         UNCHANGED M!loopVars \/ (M!CancelReconnect /\ p \in Calls),
         r.pc \in Before => status[p] = "none",
         r.pc \notin {"closing", "connecting", "listing"},
         r.pc \in {"caching", "writing", "notifying"} => status[p] # "none",
         r.pc = "calling" => r.conn \in M!Procs /\ status[r.conn] \notin {"none", "connecting"},
         r.pc \in {"saving", "preparing", "writing"} => r.got \in M!Rows,
         p \in Loops => /\ r.pc \in {"idle", "sleeping", "load", "over"} /\ r.conn = None
                        /\ r.pc # "over" => p = reconnect /\ UNCHANGED M!loopVars
                        /\ r.pc = "load" => entry # None,
         server' \in M!Rows \cup {M!NoRow}, on_demand' \in Names \cup {None}, lock' \in Calls \cup {None},
         recached' \in BOOLEAN, ServerRowInv'
  PROVE  ServerInv'
<1>0. ServerTypes /\ ProcInv /\ EntryInv /\ OpenInv
  BY DEF ServerInv
<1>1. /\ entry' = entry /\ status' = status /\ open' = open /\ taken' = taken
      /\ proc' = [proc EXCEPT ![p] = r]
  BY DEF M!connVars, M!Goes
<1>2. /\ proc'[p] = r /\ \A q \in M!Procs \ {p} : proc'[q] = proc[q]
      /\ proc' \in [M!Procs -> ServerPlaces]
  BY <1>0, <1>1 DEF ServerTypes
<1>3. /\ cancelled \subseteq cancelled' /\ cancelled' \in SUBSET Loops /\ reconnect' \in Loops \cup {None}
      /\ \A l \in Loops : l = reconnect /\ proc[l].pc # "over" /\ l \notin cancelled' => reconnect' = l
  <2>1. \A l \in Loops : l # None
    BY DEF ServersAssumption, M!Procs
  <2> QED BY <1>0, <2>1 DEF M!loopVars, M!CancelReconnect, ServerTypes
<1>4. Minds(p)
  BY <1>1, <1>3 DEF Minds
<1>5. ProcOK(p)'
  <2>1. ASSUME p \in Loops PROVE LoopOK(p)'
    BY <1>1, <1>2, <1>3, <2>1 DEF LoopOK, M!loopVars
  <2> QED BY <1>1, <1>2, <2>1 DEF ProcOK
<1>6. ProcInv'
  <2> SUFFICES ASSUME NEW q \in M!Procs PROVE ProcOK(q)'
    BY DEF ProcInv
  <2> QED BY <1>0, <1>2, <1>4, <1>5, OthersKept DEF ProcInv
<1>7. ServerTypes'
  BY <1>0, <1>1, <1>2, <1>3 DEF ServerTypes
<1>8. EntryInv'
  BY <1>0, <1>1 DEF EntryInv
<1>9. OpenInv'
  <2>1. \A x : ClosingOf(x) => ClosingOf(x)'
    BY <1>2 DEF ClosingOf
  <2> QED BY <1>0, <1>1, <2>1 DEF OpenInv
<1> QED BY <1>6, <1>7, <1>8, <1>9 DEF ServerInv

\* The connection is taken off, to be closed.
LEMMA TakesOffStep ==
  ASSUME ServersAssumption, ServerInv, NEW p \in M!Procs,
         NEW next \in {"over", "connect", "deleting", "saving"},
         NEW got \in M!Rows \cup {M!NoRow}, M!TakesOff(p, next, got),
         proc[p].pc \in {"idle", "load"}, next = "saving" => got \in M!Rows,
         next = "connect" => entry # None,
         p \in Loops => next = "connect" /\ p \notin cancelled /\ proc[p].pc = "load",
         UNCHANGED M!rowVars, UNCHANGED lock
  PROVE  ServerInv'
<1>0. ServerTypes /\ ProcInv /\ EntryInv /\ OpenInv /\ ServerRowInv
  BY DEF ServerInv
<1>1. /\ M!CancelReconnect /\ entry' = None /\ UNCHANGED <<status, open>>
      /\ taken' = IF entry # None /\ status[entry] = "connecting" THEN taken \cup {entry} ELSE taken
  BY DEF M!TakesOff
<1>2. \A l \in Loops : l # None
  BY DEF ServersAssumption, M!Procs
<1>3. PICK r \in ServerPlaces :
        /\ proc' = [proc EXCEPT ![p] = r]
        /\ r.got = got
        /\ \/ r.pc = "closing" /\ r.conn = entry /\ entry # None /\ r.next = next
           \/ r.pc = next /\ entry = None /\ r.conn = None /\ next # "connect"
  <2>1. CASE entry = None
    <3> DEFINE r == [M!Idle EXCEPT !.pc = next, !.got = got]
    <3>1. r \in ServerPlaces /\ r.pc = next /\ r.conn = None /\ r.got = got
      BY <2>1 DEF M!Idle, ServerPlaces, ServerStages
    <3>2. M!Goes(p, r) /\ next # "connect"
      BY <2>1 DEF M!TakesOff
    <3> QED BY <2>1, <3>1, <3>2 DEF M!Goes
  <2>2. CASE entry # None
    <3> DEFINE r == [pc |-> "closing", next |-> next, conn |-> entry, got |-> got]
    <3>1. r \in ServerPlaces /\ r.pc = "closing" /\ r.conn = entry /\ r.next = next /\ r.got = got
      BY <1>0, <2>2 DEF ServerPlaces, ServerStages, ServerTypes
    <3>2. M!Goes(p, r)
      BY <2>2 DEF M!TakesOff
    <3> QED BY <2>2, <3>1, <3>2 DEF M!Goes
  <2> QED BY <2>1, <2>2
<1>4. /\ proc'[p] = r /\ \A q \in M!Procs \ {p} : proc'[q] = proc[q]
      /\ proc' \in [M!Procs -> ServerPlaces]
  BY <1>0, <1>3 DEF ServerTypes
<1>5. /\ cancelled \subseteq cancelled' /\ cancelled' \in SUBSET Loops /\ reconnect' \in Loops \cup {None}
      /\ \A l \in Loops : l = reconnect /\ proc[l].pc # "over" => l \in cancelled'
  BY <1>0, <1>1, <1>2 DEF M!CancelReconnect, ServerTypes
<1>6. taken \subseteq taken' /\ taken' \in SUBSET M!Procs
  BY <1>0, <1>1 DEF ServerTypes
<1>7. Minds(p)
  BY <1>1, <1>5, <1>6 DEF Minds
<1>8. status[p] = "none"
  BY <1>0 DEF ProcInv, ProcOK, Before
<1>9. ProcOK(p)'
  <2>1. ASSUME p \in Loops PROVE LoopOK(p)'
    <3>1. next = "connect" /\ p = reconnect /\ entry # None /\ proc[p].pc = "load"
      BY <1>0, <2>1 DEF ProcInv, ProcOK, LoopOK
    <3>2. p \in cancelled' /\ r.pc = "closing" /\ r.next = "connect"
      BY <1>3, <1>5, <2>1, <3>1
    <3> QED BY <1>4, <3>2 DEF LoopOK
  <2>2. r.pc \notin {"connecting", "listing", "calling", "preparing", "writing"}
    BY <1>3
  <2>3. r.pc = "closing" => r.conn \in M!Procs /\ r.conn # None /\ status[r.conn] # "none"
    BY <1>0, <1>3 DEF EntryInv, ServerTypes
  <2> QED BY <1>1, <1>3, <1>4, <1>8, <2>1, <2>2, <2>3 DEF ProcOK
<1>10. ProcInv'
  <2> SUFFICES ASSUME NEW q \in M!Procs PROVE ProcOK(q)'
    BY DEF ProcInv
  <2> QED BY <1>0, <1>4, <1>7, <1>9, OthersKept DEF ProcInv
<1>11. ServerTypes'
  BY <1>0, <1>1, <1>4, <1>5, <1>6 DEF ServerTypes, M!rowVars
<1>12. EntryInv' /\ ServerRowInv'
  BY <1>0, <1>1 DEF EntryInv, ServerRowInv, M!rowVars
<1>13. OpenInv'
  <2> SUFFICES ASSUME NEW x \in open' \ taken' PROVE ClosingOf(x)'
    BY DEF OpenInv
  <2>1. x \in open \ taken
    BY <1>1, <1>6
  <2>2. CASE x = entry
    <3>1. r.pc = "closing" /\ r.conn = x
      BY <1>0, <1>3, <2>1, <2>2 DEF ServersAssumption, ServerTypes
    <3> QED BY <1>4, <3>1 DEF ClosingOf
  <2>3. CASE ClosingOf(x)
    <3>1. PICK q \in M!Procs : proc[q].pc = "closing" /\ proc[q].conn = x
      BY <2>3 DEF ClosingOf
    <3>2. q # p
      BY <3>1
    <3> QED BY <1>4, <3>1, <3>2 DEF ClosingOf
  <2> QED BY <1>0, <2>1, <2>2, <2>3 DEF OpenInv
<1> QED BY <1>10, <1>11, <1>12, <1>13 DEF ServerInv

\* What was taken off is closed, or none was.
LEMMA CloseStep ==
  ASSUME ServersAssumption, ServerInv, NEW p \in M!Procs, NEW r \in ServerPlaces, M!Goes(p, r),
         proc[p].pc = "closing" \/ proc[p].conn = None,
         M!Closes(proc[p].conn), status' = M!StatusClosed(proc[p].conn),
         \/ p \in Loops /\ p \in cancelled /\ r.pc = "over" /\ r.conn = None
         \/ p \in Calls /\ proc[p].pc = "closing" /\ r.pc \in {"over", "deleting", "saving"}
            /\ (r.pc = "saving" => r.got \in M!Rows),
         UNCHANGED <<M!rowVars, entry, taken, M!loopVars, lock>>
  PROVE  ServerInv'
<1> DEFINE c == proc[p].conn
<1>0. ServerTypes /\ ProcInv /\ EntryInv /\ OpenInv /\ ServerRowInv
  BY DEF ServerInv
<1>1. PICK d : d = proc[p].conn
  OBVIOUS
<1>2. /\ d \in M!Procs \cup {None}
      /\ d # None => d # entry /\ status[d] # "none" /\ proc[p].pc = "closing"
  BY <1>0, <1>1 DEF ProcInv, ProcOK, ServerTypes, ServerPlaces
<1>3. open' = open \ {d} /\ status' = IF d = None THEN status ELSE [status EXCEPT ![d] = "disconnected"]
  BY <1>1 DEF M!Closes, M!StatusClosed
<1>4. status' \in [M!Procs -> M!Statuses] /\ \A x \in M!Procs : status'[x] = IF x = d THEN "disconnected" ELSE status[x]
  BY <1>0, <1>2, <1>3 DEF ServerTypes, M!Statuses, ServersAssumption
<1>5. /\ proc'[p] = r /\ \A q \in M!Procs \ {p} : proc'[q] = proc[q]
      /\ proc' \in [M!Procs -> ServerPlaces]
  BY <1>0 DEF ServerTypes, M!Goes
<1>6. Minds(p)
  <2>1. \A x \in M!Procs : x # p /\ x = entry /\ status[x] = "connecting" => x = entry' /\ status'[x] = "connecting"
    BY <1>2, <1>4 DEF ServersAssumption
  <2>2. \A x \in M!Procs : status[x] = "none" => status'[x] = "none"
    BY <1>2, <1>4 DEF ServersAssumption
  <2> QED BY <1>4, <2>1, <2>2 DEF Minds, M!loopVars
<1>7. ProcOK(p)'
  <2>1. CASE p \in Loops
    <3>1. r.pc = "over" /\ r.conn = None
      BY <2>1 DEF ServersAssumption
    <3>2. LoopOK(p)'
      BY <1>5, <3>1 DEF LoopOK
    <3> QED BY <1>5, <3>1, <3>2 DEF ProcOK, Before
  <2>2. CASE p \notin Loops
    <3>1. proc[p].pc = "closing" /\ r.pc \in {"over", "deleting", "saving"} /\ (r.pc = "saving" => r.got \in M!Rows)
      BY <2>2
    <3>2. status[p] = "none"
      BY <1>0, <3>1 DEF ProcInv, ProcOK, Before
    <3>3. status'[p] = "none"
      BY <1>2, <1>4, <3>2 DEF ServersAssumption
    <3> QED BY <1>5, <2>2, <3>1, <3>3 DEF ProcOK
  <2> QED BY <2>1, <2>2
<1>8. ProcInv'
  <2> SUFFICES ASSUME NEW q \in M!Procs PROVE ProcOK(q)'
    BY DEF ProcInv
  <2> QED BY <1>0, <1>5, <1>6, <1>7, OthersKept DEF ProcInv
<1>9. ServerTypes'
  BY <1>0, <1>3, <1>4, <1>5 DEF ServerTypes, M!rowVars, M!loopVars
<1>10. EntryInv' /\ ServerRowInv'
  <2>1. EntryInv'
    BY <1>0, <1>2, <1>4 DEF EntryInv, ServerTypes
  <2> QED BY <1>0, <2>1 DEF ServerRowInv, M!rowVars
<1>11. OpenInv'
  <2> SUFFICES ASSUME NEW x \in open' \ taken', x # entry' PROVE ClosingOf(x)'
    BY DEF OpenInv
  <2>1. PICK q \in M!Procs : proc[q].pc = "closing" /\ proc[q].conn = x
    BY <1>0, <1>3 DEF OpenInv, ClosingOf
  <2>2. q # p
    BY <1>1, <1>3, <2>1
  <2> QED BY <1>5, <2>1, <2>2 DEF ClosingOf
<1> QED BY <1>8, <1>9, <1>10, <1>11 DEF ServerInv

\* A process connects, over whatever was recorded, and has closed what it took off.
LEMMA ConnectStep ==
  ASSUME ServersAssumption, ServerInv, NEW p \in M!Procs,
         proc[p].pc = "closing" \/ (proc[p].pc = "load" /\ proc[p].conn = None),
         p \in Loops => p \in cancelled,
         M!Closes(proc[p].conn), entry' = p,
         status' = [M!StatusClosed(proc[p].conn) EXCEPT ![p] = "connecting"],
         taken' = IF entry # None THEN taken \cup {entry} ELSE taken,
         M!Goes(p, [M!Idle EXCEPT !.pc = "connecting"]),
         UNCHANGED <<M!rowVars, M!loopVars, lock>>
  PROVE  ServerInv'
<1>0. ServerTypes /\ ProcInv /\ EntryInv /\ OpenInv /\ ServerRowInv
  BY DEF ServerInv
<1>1. PICK d : d = proc[p].conn
  OBVIOUS
<1>2. /\ d \in M!Procs \cup {None}
      /\ d # None => d # entry /\ status[d] # "none" /\ proc[p].pc = "closing"
  BY <1>0, <1>1 DEF ProcInv, ProcOK, ServerTypes, ServerPlaces
<1>3. status[p] = "none" /\ p # None
  BY <1>0 DEF ProcInv, ProcOK, Before, ServersAssumption
<1>4. open' = open \ {d} /\ status' = IF d = None THEN [status EXCEPT ![p] = "connecting"]
                                      ELSE [[status EXCEPT ![d] = "disconnected"] EXCEPT ![p] = "connecting"]
  BY <1>1 DEF M!Closes, M!StatusClosed
<1>5. /\ status' \in [M!Procs -> M!Statuses] /\ status'[p] = "connecting"
      /\ \A x \in M!Procs \ {p} : status'[x] = IF x = d THEN "disconnected" ELSE status[x]
  <2>1. CASE d = None
    <3>1. status' = [status EXCEPT ![p] = "connecting"] /\ \A x \in M!Procs : x # d
      BY <1>4, <2>1 DEF ServersAssumption
    <3> QED BY <1>0, <3>1 DEF ServerTypes, M!Statuses
  <2>2. CASE d # None
    BY <1>0, <1>2, <1>4, <2>2 DEF ServerTypes, M!Statuses
  <2> QED BY <2>1, <2>2
<1>6. PICK r \in ServerPlaces : r.pc = "connecting" /\ r.conn = None /\ proc' = [proc EXCEPT ![p] = r]
  <2>1. [M!Idle EXCEPT !.pc = "connecting"] \in ServerPlaces /\ [M!Idle EXCEPT !.pc = "connecting"].pc = "connecting"
        /\ [M!Idle EXCEPT !.pc = "connecting"].conn = None
    BY DEF ServerPlaces, M!Idle, ServerStages
  <2> QED BY <2>1 DEF M!Goes
<1>7. /\ proc'[p] = r /\ \A q \in M!Procs \ {p} : proc'[q] = proc[q]
      /\ proc' \in [M!Procs -> ServerPlaces]
  BY <1>0, <1>6 DEF ServerTypes
<1>8. taken \subseteq taken' /\ taken' \in SUBSET M!Procs /\ (entry # None => entry \in taken')
  BY <1>0 DEF ServerTypes
<1>9. Minds(p)
  <2>1. \A x \in M!Procs : x # p /\ x = entry => x \in taken'
    BY <1>8 DEF ServersAssumption
  <2>2. \A x \in M!Procs : status[x] = "none" /\ x # p => status'[x] = "none"
    BY <1>2, <1>5 DEF ServersAssumption
  <2>3. \A x \in M!Procs : /\ status[x] # "none" => status'[x] # "none"
                           /\ status[x] \notin {"none", "connecting"} => status'[x] \notin {"none", "connecting"}
    BY <1>3, <1>5
  <2> QED BY <1>3, <1>8, <2>1, <2>2, <2>3 DEF Minds, M!loopVars
<1>10. ProcOK(p)'
  <2>1. ASSUME p \in Loops PROVE LoopOK(p)'
    BY <1>6, <1>7, <2>1 DEF LoopOK, M!loopVars
  <2> QED BY <1>5, <1>6, <1>7, <2>1 DEF ProcOK, Before
<1>11. ProcInv'
  <2> SUFFICES ASSUME NEW q \in M!Procs PROVE ProcOK(q)'
    BY DEF ProcInv
  <2> QED BY <1>0, <1>7, <1>9, <1>10, OthersKept DEF ProcInv
<1>12. ServerTypes'
  BY <1>0, <1>4, <1>5, <1>7, <1>8 DEF ServerTypes, M!rowVars, M!loopVars
<1>13. EntryInv' /\ ServerRowInv'
  BY <1>0, <1>5 DEF EntryInv, ServerRowInv, M!rowVars
<1>14. OpenInv'
  <2> SUFFICES ASSUME NEW x \in open' \ taken' PROVE ClosingOf(x)'
    BY DEF OpenInv
  <2>1. x # entry /\ x \in M!Procs
    BY <1>0, <1>4, <1>8 DEF ServersAssumption, ServerTypes
  <2>2. PICK q \in M!Procs : proc[q].pc = "closing" /\ proc[q].conn = x
    BY <1>0, <1>4, <1>8, <2>1 DEF OpenInv, ClosingOf
  <2>3. q # p
    BY <1>1, <1>4, <2>2
  <2> QED BY <1>7, <2>2, <2>3 DEF ClosingOf
<1> QED BY <1>11, <1>12, <1>13, <1>14 DEF ServerInv

\* A request or call moves on, with the status of one connection changed, a loop started, or the session opened.
LEMMA StatusStep ==
  ASSUME ServersAssumption, ServerInv, NEW p \in Calls, NEW r \in ServerPlaces, NEW procs,
         procs = [proc EXCEPT ![p] = r],
         proc[p].pc \in {"connecting", "listing", "caching", "writing", "notifying", "calling"},
         r.pc \in {"over", "listing"}, NEW x \in M!Procs, NEW s \in {"connected", "error"},
         status' = [status EXCEPT ![x] = s], x # p => status[x] \notin {"none", "connecting"},
         open' = open \/ (open' = open \cup {p} /\ proc[p].pc = "connecting"),
         M!ScheduleReconnect(procs) \/ (proc' = procs /\ UNCHANGED reconnect),
         lock' \in {lock, None}, UNCHANGED <<M!rowVars, entry, taken, cancelled>>,
         x = p => status[p] # "none", r.pc = "listing" => x = p
  PROVE  ServerInv'
<1>0. ServerTypes /\ ProcInv /\ EntryInv /\ OpenInv /\ ServerRowInv /\ p \in M!Procs
  BY DEF ServerInv, M!Procs
<1>1. status' \in [M!Procs -> M!Statuses] /\ \A y \in M!Procs : status'[y] = IF y = x THEN s ELSE status[y]
  BY <1>0 DEF ServerTypes, M!Statuses
<1>2. procs \in [M!Procs -> ServerPlaces] /\ procs[p] = r /\ \A q \in M!Procs \ {p} : procs[q] = proc[q]
  BY <1>0 DEF ServerTypes
<1>3. Minds(p)
  <2>1. reconnect' = reconnect \/ (reconnect = None /\ reconnect' \in Loops)
    BY DEF M!ScheduleReconnect
  <2>2. \A l \in Loops : l # None
    BY DEF ServersAssumption, M!Procs
  <2> QED BY <1>1, <2>1, <2>2 DEF Minds
<1>4. PICK m : \/ m = None /\ proc' = procs /\ reconnect' = reconnect
               \/ m \in Loops /\ proc[m].pc = "idle" /\ proc' = [procs EXCEPT ![m].pc = "sleeping"] /\ reconnect' = m
  BY DEF M!ScheduleReconnect
<1>5. /\ m \in Loops => m \in M!Procs \ {p}
      /\ m \notin M!Procs => m = None /\ proc' = procs /\ reconnect' = reconnect
      /\ m \in M!Procs => m \in Loops
  BY <1>4 DEF M!Procs, ServersAssumption
<1>6. /\ proc'[p] = r /\ \A q \in M!Procs \ {p, m} : proc'[q] = proc[q]
      /\ m \in M!Procs => /\ m \in Loops /\ proc'[m] = [proc[m] EXCEPT !.pc = "sleeping"] /\ reconnect' = m
                          /\ proc[m].pc = "idle"
  <2>1. CASE m \notin M!Procs
    BY <1>2, <1>5, <2>1
  <2>2. CASE m \in M!Procs
    <3>1. m \in Loops /\ m # p /\ proc[m].pc = "idle" /\ proc' = [procs EXCEPT ![m].pc = "sleeping"] /\ reconnect' = m
      BY <1>4, <1>5, <2>2 DEF ServersAssumption
    <3>2. procs[m] = proc[m]
      BY <1>2, <2>2, <3>1
    <3>3. proc'[m] = [procs[m] EXCEPT !.pc = "sleeping"] /\ \A q \in M!Procs \ {m} : proc'[q] = procs[q]
      BY <1>2, <2>2, <3>1
    <3> QED BY <1>0, <1>2, <2>2, <3>1, <3>2, <3>3
  <2> QED BY <2>1, <2>2
<1>7. m \in M!Procs => proc'[m] \in ServerPlaces /\ proc'[m].pc = "sleeping" /\ proc'[m].conn = proc[m].conn
  <2>1. ASSUME m \in M!Procs PROVE proc[m] \in ServerPlaces
    BY <1>0, <2>1 DEF ServerTypes
  <2> QED BY <1>6, <2>1 DEF ServerPlaces, ServerStages
<1>8. proc' \in [M!Procs -> ServerPlaces]
  <2>1. DOMAIN proc' = M!Procs
    BY <1>2, <1>4
  <2>2. \A q \in M!Procs : proc'[q] \in ServerPlaces
    BY <1>0, <1>6, <1>7 DEF ServerTypes
  <2>3. proc' = [q \in M!Procs |-> proc'[q]]
    BY <1>2, <1>4
  <2> QED BY <2>2, <2>3
<1>9. ServerTypes'
  BY <1>0, <1>1, <1>4, <1>8 DEF ServerTypes, M!rowVars
<1>10. EntryInv' /\ ServerRowInv'
  <2>1. EntryInv'
    BY <1>0, <1>1 DEF EntryInv, ServerTypes
  <2> QED BY <1>0, <2>1 DEF ServerRowInv, M!rowVars
<1>11. ProcInv'
  <2> SUFFICES ASSUME NEW q \in M!Procs PROVE ProcOK(q)'
    BY DEF ProcInv
  <2>1. CASE q = p
    <3>1. p \notin Loops /\ (r.pc = "listing" => status'[p] # "none")
      BY <1>0, <1>1 DEF ServersAssumption
    <3> QED BY <1>6, <2>1, <3>1 DEF ProcOK, Before
  <2>2. CASE q = m
    <3>1. proc[m].pc = "idle" /\ ProcOK(m) /\ m \in Loops /\ m # p
      BY <1>0, <1>5, <1>6, <2>2 DEF ProcInv
    <3>2. status[m] = "none" /\ proc[m].conn = None
      BY <3>1 DEF ProcOK, LoopOK, Before
    <3>3. status'[m] = "none"
      BY <1>1, <2>2, <3>1, <3>2
    <3>4. proc'[m].pc = "sleeping" /\ proc'[m].conn = None /\ reconnect' = m
      BY <1>6, <1>7, <2>2, <3>2
    <3>5. LoopOK(m)'
      BY <3>4 DEF LoopOK
    <3> QED BY <2>2, <3>3, <3>4, <3>5 DEF ProcOK
  <2>3. CASE q # p /\ q # m
    BY <1>0, <1>3, <1>6, <2>3, OthersKept DEF ProcInv
  <2> QED BY <2>1, <2>2, <2>3
<1>12. OpenInv'
  <2> SUFFICES ASSUME NEW y \in open' \ taken', y # entry' PROVE ClosingOf(y)'
    BY DEF OpenInv
  <2>1. y \in open
    <3>1. ASSUME y = p, proc[p].pc = "connecting" PROVE FALSE
      BY <1>0, <3>1 DEF ProcInv, ProcOK
    <3> QED BY <3>1
  <2>2. PICK q \in M!Procs : proc[q].pc = "closing" /\ proc[q].conn = y
    BY <1>0, <2>1 DEF OpenInv, ClosingOf
  <2>3. q # p /\ q # m
    BY <1>6, <2>2
  <2> QED BY <1>6, <2>2, <2>3 DEF ClosingOf
<1> QED BY <1>9, <1>10, <1>11, <1>12 DEF ServerInv

LEMMA ServerStep ==
  ASSUME ServersAssumption, ServerInv, [M!Next]_M!serverVars
  PROVE  ServerInv'
<1>0. ServerTypes /\ ProcInv /\ EntryInv /\ OpenInv /\ ServerRowInv
  BY DEF ServerInv
<1>I. /\ \A st \in ServerStages : [M!Idle EXCEPT !.pc = st] \in ServerPlaces /\ [M!Idle EXCEPT !.pc = st].pc = st
                            /\ [M!Idle EXCEPT !.pc = st].conn = None
      /\ \A st \in ServerStages : \A got \in M!Rows : [M!Idle EXCEPT !.pc = st, !.got = got] \in ServerPlaces
                            /\ [M!Idle EXCEPT !.pc = st, !.got = got].pc = st
                            /\ [M!Idle EXCEPT !.pc = st, !.got = got].got = got
      /\ M!Over \in ServerPlaces /\ M!Over.pc = "over" /\ M!Over.conn = None
  BY DEF M!Idle, M!Over, ServerPlaces, ServerStages
<1>S. {"connecting", "preparing", "sleeping", "waiting", "load", "listing", "caching", "writing", "notifying", "saving",
       "deleting", "connected", "over"} \subseteq ServerStages
  BY DEF ServerStages
<1>R. /\ \A c \in Names : [cfg |-> c, tools |-> FALSE] \in M!Rows /\ [cfg |-> c, tools |-> FALSE].cfg = c
      /\ \A g \in M!Rows : g.cfg \in Names /\ g.tools \in BOOLEAN
      /\ server # M!NoRow => server \in M!Rows
      /\ M!NoRow.cfg = None
  BY <1>0 DEF M!Rows, M!NoRow, ServerTypes
<1>L. ASSUME NEW p \in Loops
      PROVE  p \in M!Procs /\ p \notin Calls /\ LoopOK(p)
  BY <1>0, <1>L DEF M!Procs, ServersAssumption, ProcInv, ProcOK
\* What p does quietly leaves the row as it is.
<1>Q. ASSUME NEW p \in M!Procs, NEW r \in ServerPlaces, M!Goes(p, r), UNCHANGED <<M!rowVars,
             M!connVars>>, proc[p].pc # "closing",
             UNCHANGED M!loopVars \/ (M!CancelReconnect /\ p \in Calls),
             r.pc \in Before => proc[p].pc \in Before, r.pc \notin {"closing", "connecting", "listing", "calling"},
             r.pc \in {"caching", "writing", "notifying"} => proc[p].pc \in {"listing", "caching", "writing"},
             r.pc \in {"saving", "preparing", "writing"} => r.got \in M!Rows,
             p \in Loops => /\ r.pc \in {"load", "over"} /\ r.conn = None
                            /\ r.pc # "over" => p = reconnect /\ UNCHANGED M!loopVars
                            /\ r.pc = "load" => entry # None,
             lock' \in Calls \cup {None}
      PROVE  ServerInv'
  <2>1. /\ r.pc \in Before => status[p] = "none"
        /\ r.pc \in {"caching", "writing", "notifying"} => status[p] # "none"
    BY <1>0, <1>Q DEF ProcInv, ProcOK
  <2>2. server' \in M!Rows \cup {M!NoRow} /\ on_demand' \in Names \cup {None} /\ recached' \in BOOLEAN
    BY <1>0, <1>Q DEF ServerTypes, M!rowVars
  <2>3. ServerRowInv'
    BY <1>0, <1>Q DEF ServerRowInv, M!rowVars
  <2> QED BY <1>Q, <2>1, <2>2, <2>3, QuietStep
<1>M. ASSUME NEW p \in M!Procs, NEW st \in {"caching", "load", "waiting", "over"},
             M!Goes(p, [M!Idle EXCEPT !.pc = st]),
             UNCHANGED <<M!rowVars, M!connVars, M!loopVars>>, proc[p].pc # "closing", st \in Before => proc[p].pc \in Before,
             st = "caching" => proc[p].pc = "listing",
             p \in Loops => st \in {"load", "over"} /\ (st = "load" => p = reconnect /\ entry # None),
             lock' \in Calls \cup {None}
      PROVE  ServerInv'
  <2>1. st \in ServerStages
    BY <1>S
  <2>2. PICK r \in ServerPlaces : r.pc = st /\ r.conn = None /\ M!Goes(p, r)
    BY <1>I, <1>M, <2>1
  <2> QED BY <1>M, <1>Q, <2>2
<1>V. M!Over = [M!Idle EXCEPT !.pc = "over"]
  BY DEF M!Over
\* A call goes on to the connection recorded.
<1>C. ASSUME NEW p \in Calls, M!Connected(entry), M!Goes(p, M!Calling(p)), UNCHANGED <<M!rowVars,
             M!connVars, M!loopVars, lock>>,
             proc[p].pc # "closing"
      PROVE  ServerInv'
  <2>1. entry \in M!Procs /\ status[entry] = "connected"
    BY <1>0, <1>C DEF M!Connected, ServerTypes
  <2>2. M!Calling(p) \in ServerPlaces /\ M!Calling(p).pc = "calling" /\ M!Calling(p).conn = entry
    BY <2>1 DEF M!Calling, M!Idle, ServerPlaces, ServerStages
  <2>3. server' \in M!Rows \cup {M!NoRow} /\ on_demand' \in Names \cup {None} /\ recached' \in BOOLEAN /\ lock' \in Calls \cup {None}
    BY <1>0, <1>C DEF ServerTypes, M!rowVars
  <2>4. ServerRowInv'
    BY <1>0, <1>C DEF ServerRowInv, M!rowVars
  <2>5. p \in M!Procs /\ p \notin Loops
    BY DEF M!Procs, ServersAssumption
  <2> HIDE DEF M!Calling
  <2> QED BY <1>C, <2>1, <2>2, <2>3, <2>4, <2>5, QuietStep DEF Before
<1>K. \A p \in Calls : p \in M!Procs /\ p \notin Loops
  BY DEF M!Procs, ServersAssumption
<1>N. lock \in Calls \cup {None}
  BY <1>0 DEF ServerTypes
<1>1. ASSUME NEW p \in M!Procs, M!Load(p) PROVE ServerInv'
  <2>1. proc[p].pc = "load" /\ p \notin cancelled /\ UNCHANGED M!rowVars
    BY <1>1 DEF M!Load
  <2>2. CASE server = M!NoRow
    <3>1. M!Goes(p, M!Over) /\ lock' = (IF lock = p THEN None ELSE lock) /\ UNCHANGED <<M!connVars, M!loopVars>>
      BY <1>1, <2>2 DEF M!Load
    <3>2. lock' \in Calls \cup {None}
      BY <1>N, <3>1
    <3> QED BY <1>I, <1>Q, <2>1, <3>1, <3>2 DEF Before
  <2>3. CASE server # M!NoRow /\ entry # None
    <3>1. M!TakesOff(p, "connect", M!NoRow) /\ UNCHANGED lock
      BY <1>1, <2>3 DEF M!Load, M!SeesEntry
    <3> QED BY <2>1, <2>3, <3>1, TakesOffStep
  <2>4. CASE server # M!NoRow /\ entry = None
    <3>1. /\ taken' = taken /\ entry' = p /\ status' = [status EXCEPT ![p] = "connecting"]
          /\ M!Goes(p, [M!Idle EXCEPT !.pc = "connecting"]) /\ UNCHANGED <<open, M!loopVars, lock>>
      BY <1>1, <2>4 DEF M!Load, M!SeesEntry
    <3>2. p \notin Loops
      BY <1>L, <2>1, <2>4 DEF LoopOK
    <3>3. ServerTypes' /\ ProcInv' /\ EntryInv' /\ OpenInv' /\ ServerRowInv'
      <4>1. status[p] = "none" /\ p # None /\ p \in Calls
        BY <1>0, <2>1, <3>2 DEF ProcInv, ProcOK, Before, ServersAssumption, M!Procs
      <4>2. PICK r \in ServerPlaces : r.pc = "connecting" /\ proc' = [proc EXCEPT ![p] = r]
        BY <1>I, <1>S, <3>1 DEF M!Goes
      <4>3. /\ status' \in [M!Procs -> M!Statuses] /\ status'[p] = "connecting"
            /\ \A x \in M!Procs \ {p} : status'[x] = status[x]
        BY <1>0, <3>1 DEF ServerTypes, M!Statuses
      <4>4. /\ proc'[p] = r /\ \A q \in M!Procs \ {p} : proc'[q] = proc[q]
            /\ proc' \in [M!Procs -> ServerPlaces]
        BY <1>0, <4>2 DEF ServerTypes
      <4>5. Minds(p)
        <5>1. \A x \in M!Procs : x # entry
          BY <2>4 DEF ServersAssumption
        <5> QED BY <2>4, <3>1, <4>1, <4>3, <5>1 DEF Minds, M!loopVars
      <4>6. ProcOK(p)'
        BY <3>1, <3>2, <4>2, <4>3, <4>4 DEF ProcOK, Before
      <4>7. ProcInv'
        <5> SUFFICES ASSUME NEW q \in M!Procs PROVE ProcOK(q)'
          BY DEF ProcInv
        <5> QED BY <1>0, <4>4, <4>5, <4>6, OthersKept DEF ProcInv
      <4>8. ServerTypes'
        BY <1>0, <2>1, <3>1, <4>3, <4>4 DEF ServerTypes, M!rowVars, M!loopVars
      <4>9. EntryInv' /\ ServerRowInv'
        BY <1>0, <2>1, <3>1, <4>3 DEF EntryInv, ServerRowInv, M!rowVars
      <4>10. OpenInv'
        <5> SUFFICES ASSUME NEW x \in open' \ taken' PROVE ClosingOf(x)'
          BY DEF OpenInv
        <5>1. x \in open \ taken /\ x # entry
          BY <1>0, <2>4, <3>1 DEF ServersAssumption, ServerTypes
        <5>2. PICK q \in M!Procs : proc[q].pc = "closing" /\ proc[q].conn = x
          BY <1>0, <5>1 DEF OpenInv, ClosingOf
        <5>3. q # p
          BY <2>1, <5>2
        <5> QED BY <4>4, <5>2, <5>3 DEF ClosingOf
      <4> QED BY <4>7, <4>8, <4>9, <4>10
    <3> QED BY <3>3 DEF ServerInv
  <2> QED BY <2>2, <2>3, <2>4
<1>2. ASSUME NEW p \in M!Procs, M!Reopens(p) PROVE ServerInv'
  <2>1. p \in Loops => p \in cancelled
    BY <1>2, <1>L DEF M!Reopens, LoopOK
  <2> QED BY <1>2, <2>1, ConnectStep DEF M!Reopens
\* Loops do not get to connect without being cancelled.
<1>3. ASSUME NEW p \in M!Procs,
             proc[p].pc \in {"connecting", "listing", "caching", "writing", "notifying"},
             p \notin cancelled
      PROVE  p \in Calls
  BY <1>3, <1>L DEF LoopOK, M!Procs
<1>4. ASSUME NEW p \in M!Procs, M!Opened(p) PROVE ServerInv'
  <2> DEFINE r == [M!Idle EXCEPT !.pc = "listing"]
  <2>1. /\ proc[p].pc = "connecting" /\ p \in Calls /\ open' = open \cup {p} /\ status' = [status EXCEPT ![p] = "connected"]
        /\ proc' = [proc EXCEPT ![p] = r] /\ UNCHANGED <<M!rowVars, entry, taken, M!loopVars, lock>>
    BY <1>3, <1>4 DEF M!Opened, M!Goes
  <2>2. r \in ServerPlaces /\ r.pc = "listing"
    BY <1>I, <1>S
  <2>3. status[p] # "none"
    BY <1>0, <1>4, <2>1 DEF ProcInv, ProcOK
  <2> HIDE DEF r
  <2> QED BY <1>4, <2>1, <2>2, <2>3, StatusStep DEF M!loopVars
<1>5. ASSUME NEW p \in M!Procs, M!Listed(p) PROVE ServerInv'
  <2>1. /\ proc[p].pc = "listing" /\ p \in Calls /\ M!Goes(p, [M!Idle EXCEPT !.pc = "caching"])
        /\ UNCHANGED <<M!rowVars, M!connVars, M!loopVars, lock>>
    BY <1>3, <1>5 DEF M!Listed
  <2> QED BY <1>K, <1>N, <1>M, <2>1 DEF Before
<1>A. ASSUME NEW p \in Calls PROVE M!Ready(p) \in ServerPlaces /\ M!Ready(p).pc \in {"connected", "over"}
  BY <1>I, <1>S DEF M!Ready
<1>B. [M!Idle EXCEPT !.pc = "notifying"] \in ServerPlaces /\ [M!Idle EXCEPT !.pc = "notifying"].pc = "notifying"
  BY <1>I, <1>S
<1>6. ASSUME NEW p \in M!Procs, M!CacheRead(p) PROVE ServerInv'
  <2>1. proc[p].pc = "caching" /\ p \in Calls /\ UNCHANGED <<server, configured, recached, M!connVars, lock>>
    BY <1>3, <1>6 DEF M!CacheRead
  <2>2. CASE server = M!NoRow
    <3> DEFINE r == [M!Idle EXCEPT !.pc = "notifying"]
    <3>1. M!Goes(p, r) /\ on_demand' = None /\ M!CancelReconnect
      BY <1>6, <2>2 DEF M!CacheRead
    <3>2. /\ server' \in M!Rows \cup {M!NoRow} /\ on_demand' \in Names \cup {None} /\ recached' \in BOOLEAN
          /\ lock' \in Calls \cup {None} /\ ServerRowInv'
      BY <1>0, <2>1, <3>1 DEF ServerTypes, ServerRowInv
    <3>3. status[p] # "none"
      BY <1>0, <1>6, <2>1 DEF ProcInv, ProcOK
    <3> HIDE DEF r
    <3> QED BY <1>B, <1>K, <2>1, <3>1, <3>2, <3>3, QuietStep DEF Before, r
  <2>3. CASE server # M!NoRow
    <3> DEFINE r == [M!Idle EXCEPT !.pc = "writing", !.got = server]
    <3>1. M!Goes(p, r) /\ UNCHANGED <<on_demand, M!loopVars>>
      BY <1>6, <2>3 DEF M!CacheRead
    <3>2. r \in ServerPlaces /\ r.pc = "writing" /\ r.got \in M!Rows
      <4>1. server \in M!Rows /\ "writing" \in ServerStages
        BY <1>R, <1>S, <2>3
      <4> QED BY <1>I, <4>1
    <3>3. UNCHANGED M!rowVars
      BY <2>1, <3>1 DEF M!rowVars
    <3> HIDE DEF r
    <3> QED BY <1>K, <1>N, <1>Q, <2>1, <3>1, <3>2, <3>3 DEF Before
  <2> QED BY <2>2, <2>3
<1>7. ASSUME NEW p \in M!Procs, M!CacheWrite(p) PROVE ServerInv'
  <2>1. /\ proc[p].pc = "writing" /\ p \in Calls
        /\ server' = IF server = M!NoRow THEN M!NoRow ELSE [proc[p].got EXCEPT !.tools = TRUE]
        /\ recached' = (recached \/ server.cfg # proc[p].got.cfg) /\ on_demand' = None /\ M!CancelReconnect
        /\ M!Goes(p, [M!Idle EXCEPT !.pc = "notifying"]) /\ lock' \in Calls \cup {None} /\ UNCHANGED <<configured, M!connVars>>
    BY <1>3, <1>7, <1>N DEF M!CacheWrite, M!WithTools
  <2>2. proc[p].got \in M!Rows
    BY <1>0, <1>7, <2>1 DEF ProcInv, ProcOK
  <2>3. [proc[p].got EXCEPT !.tools = TRUE] \in M!Rows /\ [proc[p].got EXCEPT !.tools = TRUE].cfg = proc[p].got.cfg
    BY <2>2 DEF M!Rows
  <2>4. server' \in M!Rows \cup {M!NoRow} /\ on_demand' \in Names \cup {None} /\ recached' \in BOOLEAN
    BY <2>1, <2>3
  <2>5. ServerRowInv'
    <3>1. CASE server = M!NoRow
      BY <1>0, <2>1, <3>1 DEF ServerRowInv
    <3>2. CASE server # M!NoRow
      BY <1>0, <2>1, <2>3, <3>2 DEF ServerRowInv
    <3> QED BY <3>1, <3>2
  <2>6. status[p] # "none"
    BY <1>0, <1>7, <2>1 DEF ProcInv, ProcOK
  <2> QED BY <1>B, <1>K, <2>1, <2>4, <2>5, <2>6, QuietStep DEF Before
<1>T. ASSUME NEW p \in M!Procs, M!Notified(p) PROVE ServerInv'
  <2>1. /\ proc[p].pc = "notifying" /\ p \in Calls /\ M!Goes(p, M!Ready(p))
        /\ lock' \in Calls \cup {None} /\ UNCHANGED <<M!rowVars, M!connVars, M!loopVars>>
    BY <1>3, <1>N, <1>T DEF M!Notified
  <2> QED BY <1>A, <1>K, <1>Q, <2>1 DEF Before
<1>8. ASSUME NEW p \in M!Procs, M!Fails(p) PROVE ServerInv'
  <2> DEFINE r == M!Over
             procs == [proc EXCEPT ![p] = r]
  <2>1. /\ proc[p].pc \in {"connecting", "listing", "caching", "writing", "notifying"} /\ p \in Calls /\ status' = [status EXCEPT ![p] = "error"]
        /\ open' = open \/ (open' = open \cup {p} /\ proc[p].pc = "connecting")
        /\ lock' \in {lock, None}
        /\ M!ScheduleReconnect([proc EXCEPT ![p] = IF p \in Loops THEN [M!Idle EXCEPT !.pc = "sleeping"] ELSE M!Over])
        /\ UNCHANGED <<M!rowVars, entry, taken, cancelled>>
    BY <1>3, <1>8 DEF M!Fails
  <2>2. (IF p \in Loops THEN [M!Idle EXCEPT !.pc = "sleeping"] ELSE M!Over) = M!Over
    BY <1>K, <2>1
  <2>3. M!ScheduleReconnect(procs)
    BY <2>1, <2>2
  <2>4. status[p] # "none"
    BY <1>0, <1>8, <2>1 DEF ProcInv, ProcOK
  <2> HIDE DEF procs
  <2> QED BY <1>8, <1>I, <2>1, <2>3, <2>4, StatusStep DEF procs
<1>9. ASSUME NEW l \in Loops, M!Wake(l) PROVE ServerInv'
  <2>1. /\ proc[l].pc = "sleeping" /\ l \notin cancelled /\ UNCHANGED <<M!rowVars, M!connVars, M!loopVars, lock>>
        /\ \/ M!Goes(l, M!Over)
           \/ M!Goes(l, [M!Idle EXCEPT !.pc = "load"]) /\ entry # None
    BY <1>9 DEF M!Wake
  <2>2. l = reconnect
    BY <1>L, <2>1 DEF LoopOK
  <2> QED BY <1>V, <1>L, <1>N, <1>M, <2>1, <2>2 DEF Before
<1>10. ASSUME NEW l \in Loops, M!Ends(l) PROVE ServerInv'
  <2>1. l \in M!Procs /\ (proc[l].pc = "closing" \/ proc[l].conn = None)
    BY <1>L DEF LoopOK
  <2> QED BY <1>10, <1>I, <2>1, CloseStep DEF M!Ends
<1>11. ASSUME NEW p \in Calls, M!Connect(p) PROVE ServerInv'
  BY <1>11, <1>K, <1>N, <1>M DEF M!Connect, Before
<1>12. ASSUME NEW p \in Calls, M!Disconnect(p) \/ M!Delete(p) PROVE ServerInv'
  <2>1. proc[p].pc = "idle" /\ UNCHANGED <<M!rowVars, lock>> /\ (M!TakesOff(p, "over", M!NoRow) \/ M!TakesOff(p, "deleting", M!NoRow))
    BY <1>12 DEF M!Disconnect, M!Delete
  <2> QED BY <1>K, <2>1, TakesOffStep
<1>13. ASSUME NEW p \in Calls, NEW c \in Names, M!Update(p, c) PROVE ServerInv'
  <2>1. PICK tools \in {FALSE, server.tools} : M!TakesOff(p, "saving", [cfg |-> c, tools |-> tools])
    BY <1>13 DEF M!Update
  <2>2. proc[p].pc = "idle" /\ server # M!NoRow /\ UNCHANGED <<M!rowVars, lock>>
    BY <1>13 DEF M!Update
  <2>3. tools \in BOOLEAN
    BY <1>R, <2>2
  <2>4. [cfg |-> c, tools |-> tools] \in M!Rows
    BY <2>3 DEF M!Rows
  <2> QED BY <1>K, <2>1, <2>2, <2>4, TakesOffStep
<1>14. ASSUME NEW p \in Calls, M!Closed(p) PROVE ServerInv'
  <2> DEFINE r == [proc[p] EXCEPT !.pc = proc[p].next, !.next = "over", !.conn = None]
  <2>1. /\ proc[p].pc = "closing" /\ proc[p].next # "connect" /\ M!Closes(proc[p].conn) /\ status' = M!StatusClosed(proc[p].conn)
        /\ M!Goes(p, r) /\ UNCHANGED <<M!rowVars, entry, taken, M!loopVars, lock>>
    BY <1>14 DEF M!Closed
  <2>2. proc[p] \in ServerPlaces
    BY <1>0, <1>K DEF ServerTypes
  <2>3. r \in ServerPlaces /\ r.pc = proc[p].next /\ r.pc \in {"over", "deleting", "saving"} /\ r.got = proc[p].got
    BY <2>1, <2>2 DEF ServerPlaces, ServerStages
  <2>4. r.pc = "saving" => r.got \in M!Rows
    BY <1>0, <1>K, <2>1, <2>3 DEF ProcInv, ProcOK
  <2> HIDE DEF r
  <2> QED BY <1>K, <2>1, <2>3, <2>4, CloseStep
\* The row is changed.
<1>W. ASSUME NEW p \in Calls, NEW st \in {"over", "load"}, M!Goes(p, [M!Idle EXCEPT !.pc = st]),
             proc[p].pc \in Before \ {"closing"},
             UNCHANGED <<M!connVars, M!loopVars, lock>>, server' \in M!Rows \cup {M!NoRow},
             on_demand' \in Names \cup {None}, recached' \in BOOLEAN, ServerRowInv'
      PROVE  ServerInv'
  <2>1. status[p] = "none" /\ p \in M!Procs /\ p \notin Loops
    BY <1>0, <1>K, <1>W DEF ProcInv, ProcOK
  <2>2. st \in ServerStages
    BY <1>S
  <2>3. PICK r \in ServerPlaces : r.pc = st /\ M!Goes(p, r)
    BY <1>I, <1>W, <2>2
  <2> QED BY <1>N, <1>W, <2>1, <2>3, QuietStep DEF Before
<1>15. ASSUME NEW p \in Calls, M!Remove(p) PROVE ServerInv'
  <2>1. /\ proc[p].pc = "deleting" /\ M!Goes(p, [M!Idle EXCEPT !.pc = "over"])
        /\ server' = M!NoRow /\ configured' = None /\ recached' = FALSE /\ UNCHANGED <<on_demand, M!connVars, M!loopVars, lock>>
    BY <1>15 DEF M!Remove, M!Over
  <2>2. on_demand' \in Names \cup {None}
    BY <1>0, <2>1 DEF ServerTypes
  <2>3. ServerRowInv'
    BY <1>R, <2>1 DEF ServerRowInv
  <2>4. recached' \in BOOLEAN
    BY <2>1
  <2> QED BY <1>W, <2>1, <2>2, <2>3, <2>4 DEF Before
<1>G. ASSUME NEW c \in Names
      PROVE  M!Remembered(c) \in Names \cup {None} /\ \E st \in {"over", "load"} : M!Then(c) = [M!Idle EXCEPT !.pc = st]
  BY <1>0, <1>V DEF M!Remembered, M!Then, ServerTypes
<1>16. ASSUME NEW p \in Calls, M!Save(p) PROVE ServerInv'
  <2>1. PICK got : got = proc[p].got
    OBVIOUS
  <2>2. /\ proc[p].pc = "saving"
        /\ IF server = M!NoRow THEN UNCHANGED <<server, configured, recached>>
           ELSE server' = got /\ configured' = got.cfg /\ recached' = FALSE
        /\ on_demand' = M!Remembered(got.cfg) /\ M!Goes(p, M!Then(got.cfg)) /\ UNCHANGED <<M!connVars, M!loopVars, lock>>
    BY <1>16, <2>1 DEF M!Save
  <2>3. got \in M!Rows
    BY <1>0, <1>K, <2>1, <2>2 DEF ProcInv, ProcOK
  <2>4. on_demand' \in Names \cup {None} /\ \E st \in {"over", "load"} : M!Goes(p, [M!Idle EXCEPT !.pc = st])
    BY <1>G, <1>R, <2>2, <2>3
  <2>5. server' \in M!Rows \cup {M!NoRow} /\ recached' \in BOOLEAN
    BY <1>0, <2>2, <2>3 DEF ServerTypes
  <2>6. ServerRowInv'
    BY <1>0, <2>2 DEF ServerRowInv
  <2> QED BY <1>W, <2>2, <2>4, <2>5, <2>6 DEF Before
<1>17. ASSUME NEW p \in Calls, NEW c \in Names, M!Add(p, c) PROVE ServerInv'
  <2>1. /\ proc[p].pc = "idle" /\ server' = [cfg |-> c, tools |-> FALSE] /\ configured' = c /\ recached' = FALSE
        /\ on_demand' = M!Remembered(c) /\ M!Goes(p, M!Then(c)) /\ UNCHANGED <<M!connVars, M!loopVars, lock>>
    BY <1>17 DEF M!Add
  <2>2. on_demand' \in Names \cup {None} /\ \E st \in {"over", "load"} : M!Goes(p, [M!Idle EXCEPT !.pc = st])
    BY <1>G, <2>1
  <2>3. server' \in M!Rows \cup {M!NoRow} /\ recached' \in BOOLEAN /\ ServerRowInv'
    BY <1>R, <2>1 DEF ServerRowInv
  <2> QED BY <1>W, <2>1, <2>2, <2>3 DEF Before
<1>18. ASSUME NEW p \in Calls, NEW c \in Names, M!Prepare(p, c) PROVE ServerInv'
  <2>1. PICK got \in M!Rows : got = [cfg |-> c, tools |-> FALSE]
    BY <1>R
  <2> DEFINE r == [M!Idle EXCEPT !.pc = "preparing", !.got = got]
  <2>2. proc[p].pc = "idle" /\ M!Goes(p, r) /\ UNCHANGED <<M!rowVars, M!connVars, M!loopVars, lock>>
    BY <1>18, <2>1 DEF M!Prepare
  <2>3. r \in ServerPlaces /\ r.pc = "preparing" /\ r.got \in M!Rows
    BY <1>I, <1>S
  <2> HIDE DEF r
  <2> QED BY <1>K, <1>N, <1>Q, <2>2, <2>3 DEF Before
<1>19. ASSUME NEW p \in Calls, M!Install(p) PROVE ServerInv'
  <2>1. PICK got : got = proc[p].got
    OBVIOUS
  <2>2. proc[p].pc = "preparing" /\ got \in M!Rows /\ UNCHANGED <<M!connVars, M!loopVars, lock>>
    BY <1>0, <1>19, <1>K, <2>1 DEF ProcInv, ProcOK, M!Install
  <2>3. CASE server # M!NoRow
    <3>1. M!Goes(p, M!Over) /\ UNCHANGED M!rowVars
      BY <1>19, <2>3 DEF M!Install
    <3> QED BY <1>I, <1>K, <1>N, <1>Q, <2>2, <3>1 DEF Before
  <2>4. CASE server = M!NoRow
    <3>1. /\ server' = got /\ configured' = got.cfg /\ recached' = FALSE /\ on_demand' = on_demand
          /\ \E st \in {"over", "load"} : M!Goes(p, [M!Idle EXCEPT !.pc = st])
      BY <1>19, <1>V, <2>1, <2>4 DEF M!Install
    <3>2. on_demand' \in Names \cup {None} /\ server' \in M!Rows \cup {M!NoRow} /\ recached' \in BOOLEAN /\ ServerRowInv'
      BY <1>0, <2>2, <3>1 DEF ServerTypes, ServerRowInv
    <3> QED BY <1>W, <2>2, <3>1, <3>2 DEF Before
  <2> QED BY <2>3, <2>4
<1>20. ASSUME NEW p \in Calls, M!Ensure(p) PROVE ServerInv'
  <2>1. proc[p].pc = "idle" /\ UNCHANGED <<M!rowVars, M!connVars, M!loopVars, lock>>
    BY <1>20 DEF M!Ensure
  <2>2. CASE M!Connected(entry)
    BY <1>20, <1>C, <2>1, <2>2 DEF M!Ensure
  <2>3. CASE ~M!Connected(entry)
    <3>1. M!Goes(p, [M!Idle EXCEPT !.pc = "waiting"])
      BY <1>20, <2>3 DEF M!Ensure
    <3> QED BY <1>V, <1>K, <1>N, <1>M, <2>1, <3>1 DEF Before
  <2> QED BY <2>2, <2>3
<1>21. ASSUME NEW p \in Calls, M!Lock(p) PROVE ServerInv'
  <2>1. proc[p].pc = "waiting" /\ UNCHANGED <<M!rowVars, M!connVars, M!loopVars>>
    BY <1>21 DEF M!Lock
  <2>2. CASE M!Connected(entry)
    BY <1>21, <1>C, <2>1, <2>2 DEF M!Lock
  <2>3. CASE ~M!Connected(entry)
    <3>1. /\ M!Goes(p, M!Over) \/ M!Goes(p, [M!Idle EXCEPT !.pc = "load"])
          /\ lock' \in {lock, p}
      BY <1>21, <2>3 DEF M!Lock
    <3> QED BY <1>V, <1>K, <1>N, <1>M, <2>1, <3>1 DEF Before
  <2> QED BY <2>2, <2>3
<1>22. ASSUME NEW p \in Calls, M!Call(p) PROVE ServerInv'
  <2>1. proc[p].pc = "connected" /\ UNCHANGED <<M!rowVars, M!connVars, M!loopVars, lock>>
    BY <1>22 DEF M!Call
  <2>2. CASE M!Connected(entry)
    BY <1>22, <1>C, <2>1, <2>2 DEF M!Call
  <2>3. CASE ~M!Connected(entry)
    <3>1. M!Goes(p, M!Over)
      BY <1>22, <2>3 DEF M!Call
    <3> QED BY <1>I, <1>K, <1>N, <1>Q, <2>1, <3>1 DEF Before
  <2> QED BY <2>2, <2>3
<1>23. ASSUME NEW p \in Calls, M!Answer(p) PROVE ServerInv'
  BY <1>23, <1>I, <1>K, <1>N, <1>Q DEF M!Answer, Before
<1>24. ASSUME NEW p \in Calls, M!CallFails(p) PROVE ServerInv'
  <2>1. PICK x : x = proc[p].conn
    OBVIOUS
  <2> DEFINE procs == [proc EXCEPT ![p] = M!Over]
  <2>2. /\ proc[p].pc = "calling" /\ status' = [status EXCEPT ![x] = "error"] /\ M!ScheduleReconnect(procs)
        /\ UNCHANGED <<M!rowVars, entry, open, taken, cancelled, lock>>
    BY <1>24, <2>1 DEF M!CallFails
  <2>3. x \in M!Procs /\ status[x] \notin {"none", "connecting"}
    BY <1>0, <1>K, <2>1, <2>2 DEF ProcInv, ProcOK
  <2>4. p \in M!Procs /\ status[p] \in M!Statuses
    BY <1>0, <1>K DEF ServerTypes
  <2>5. x = p => status[p] # "none"
    BY <2>3
  <2>6. M!Over \in ServerPlaces /\ M!Over.pc \in {"over", "listing"} /\ M!Over.pc # "listing"
    BY <1>I
  <2> HIDE DEF procs
  <2>7. procs = [proc EXCEPT ![p] = M!Over]
    BY DEF procs
  <2> QED BY <2>2, <2>3, <2>5, <2>6, <2>7, StatusStep
<1>25. ASSUME UNCHANGED M!serverVars PROVE ServerInv'
  BY <1>25 DEF M!serverVars, ServerInv, ServerTypes, ProcInv, ProcOK, LoopOK, EntryInv, OpenInv,
     ClosingOf, ServerRowInv
<1> QED BY <1>1, <1>2, <1>4, <1>5, <1>6, <1>7, <1>T, <1>8, <1>9, <1>10, <1>11, <1>12, <1>13, <1>14,
           <1>15, <1>16, <1>17, <1>18,
           <1>19, <1>20, <1>21, <1>22, <1>23, <1>24, <1>25 DEF M!Next

-----------------------------------------------------------------------------
(* The run steps one part at a time: a step of it is a step of each of     *)
(* these services, or leaves it alone.                                     *)

LEMMA ServiceSteps ==
  ASSUME [Next]_vars
  PROVE  [S!Next]_S!schedulerVars /\ [P!Next]_P!proVars /\ [M!Next]_M!serverVars
<1> USE DEF schedulerVars, proVars, serverVars, S!schedulerVars, P!proVars, M!serverVars
<1>1. CASE UNCHANGED vars
  BY <1>1 DEF vars
<1>2. CASE Next
  BY <1>2 DEF Next
<1> QED BY <1>1, <1>2

LEMMA ServiceConstants == Distinct /\ ProactivityAssumption /\ ServersAssumption
BY ServicesAssumption DEF Distinct, ProactivityAssumption, ServersAssumption, M!Procs, Calls

(* However requests, cancellations, crashes and failing statements fall    *)
(* between the steps of the loop, a task runs once each time it comes due  *)
(* and a reminder is shown once, other than for what was cut short and for *)
(* rows a flush of the cache made active again, and no reminder is         *)
(* forgotten, unless it was purged with its session or written over        *)
(* (kernel/scheduler.py:160-310, memory/promotion.py:54-75,                *)
(* memory/demotion.py:218-251).                                            *)
THEOREM DueIsDoneOnce == Spec => []DueOnceEach
<1>1. Init => SchedulerInv
  BY InitScheduler, ServiceConstants DEF Init
<1>2. SchedulerInv /\ [Next]_vars => SchedulerInv'
  BY StepScheduler, ServiceConstants, ServiceSteps
<1>3. SchedulerInv => DueOnceEach
  BY InvScheduler DEF DueOnceEach
<1> QED BY <1>1, <1>2, <1>3, PTL DEF Spec

(* Whatever nudges, recipes and autonomous actions are under way together, *)
(* the day's suggestions exceed their budget only if another used it since *)
(* a check, the autonomous actions never do, and a recipe fires again      *)
(* within its cooldown only from an evaluation begun before                *)
(* (kernel/proactivity.py:164-204, 261-300, 454-479,                       *)
(* kernel/recipes.py:252-289).                                             *)
THEOREM SuggestionsAreLimited == Spec => []SuggestionsLimited
<1>1. Init => ProactivityInv
  BY InitProactivity, ServiceConstants DEF Init
<1>2. ProactivityInv /\ [Next]_vars => ProactivityInv'
  BY ProactivityStep, ServiceConstants, ServiceSteps
<1>3. ProactivityInv => SuggestionsLimited
  BY ProactivityProperties, ServiceConstants DEF SuggestionsLimited
<1> QED BY <1>1, <1>2, <1>3, PTL DEF Spec

(* Whatever requests, tool calls and the reconnect loop do to a server     *)
(* together, its row holds the configuration given last, unless the tools  *)
(* were cached with one read before, and a session is open only for the    *)
(* connection recorded, or was taken from it while it connected            *)
(* (mcp/connection_manager.py:156-240, 332-343, 464-477).                  *)
THEOREM ServersRunAsConfigured == Spec => []RunsAsConfigured
<1>1. Init => ServerInv
  BY InitServers, ServiceConstants DEF Init
<1>2. ServerInv /\ [Next]_vars => ServerInv'
  BY ServerStep, ServiceConstants, ServiceSteps
<1>3. ServerInv => RunsAsConfigured
  BY ServerProperties, ServiceConstants DEF RunsAsConfigured
<1> QED BY <1>1, <1>2, <1>3, PTL DEF Spec

=============================================================================
