------------------------------ MODULE Scheduler ------------------------------
(***************************************************************************)
(* Scheduled tasks and reminders (kernel/scheduler.py), with the requests  *)
(* that create, toggle and delete tasks (api/routes/tasks.py) and the      *)
(* skill that sets and cancels reminders (skills/reminders/skill.py).      *)
(*                                                                         *)
(* One loop polls: it reads the tasks that are due and runs them one after *)
(* the other, then goes through the reminders.  A time is told only by     *)
(* whether it has come.                                                    *)
(*                                                                         *)
(* A reminder is a row of the memory, so it has other writers: a start     *)
(* loads rows into the cache as if they were changed                       *)
(* (memory/promotion.py:54-75, memory/cache.py:75), a flush writes them    *)
(* back, and a purge deletes those that tasks of a session wrote.          *)
(***************************************************************************)
EXTENDS Naturals, FiniteSets

CONSTANTS Jobs,       \* scheduled tasks
          Reminders,  \* reminders, each set once
          Slots,      \* keys of reminders: the second they are set in
          None,
          MaxDue,     \* times a task comes due
          MaxStops    \* starts after the first, and failing statements

VARIABLES
  job,      \* job[j]: its row: whether it is there, enabled, and due
  slot,     \* slot[k]: the reminder stored under a key, and its status
  past,     \* reminders whose time has come
  copy,     \* copy[k]: the entry of a key that the cache is still to write back, if any
  poll,     \* where the loop stands, and what it has read
  cancel,   \* the entry a cancellation has read
  set,      \* reminders set
  stops,    \* starts and failures so far
  dues,     \* times each task has come due
  ran,      \* history: runs of a task since it came due
  again,    \* history: those that were cut short
  told,     \* history: times a reminder was shown
  retold,   \* history: times it was shown and this was not written, or was written over
  dropped   \* history: reminders cancelled, purged or overwritten by another

schedulerVars == <<job, slot, past, copy, poll, cancel, set, stops, dues, ran, again, told, retold, dropped>>

NoJob == [there |-> FALSE, on |-> FALSE, due |-> FALSE]
Empty == [rem |-> None, status |-> "none"]
Entry == [rem : Reminders \cup {None}, status : {"none", "active", "fired", "cancelled"}]
\* past: what was due when it began to go through the reminders.
Asleep == [pc |-> "sleep", jobs |-> {}, now |-> None, past |-> {}, keys |-> {}, key |-> None, data |-> Empty]

SchedulerTypeOK ==
  /\ job \in [Jobs -> [there : BOOLEAN, on : BOOLEAN, due : BOOLEAN]]
  /\ slot \in [Slots -> Entry] /\ copy \in [Slots -> Entry] /\ past \subseteq Reminders
  /\ poll.pc \in {"sleep", "tasks", "running", "reminders", "read"}
  /\ poll.jobs \subseteq Jobs /\ poll.keys \subseteq Slots /\ poll.past \subseteq Reminders
  /\ poll.pc = "running" <=> poll.now # None
  /\ \A j \in Jobs : ~job[j].there => job[j] = NoJob

Init ==
  /\ job = [j \in Jobs |-> NoJob] /\ slot = [k \in Slots |-> Empty]
  /\ past = {} /\ copy = [k \in Slots |-> Empty]
  /\ poll = Asleep /\ cancel = [key |-> None, data |-> Empty]
  /\ set = {} /\ stops = 0 /\ dues = [j \in Jobs |-> 0]
  /\ ran = [j \in Jobs |-> 0] /\ again = [j \in Jobs |-> 0]
  /\ told = [r \in Reminders |-> 0] /\ retold = [r \in Reminders |-> 0] /\ dropped = {}

memVars == <<past, copy>>

-----------------------------------------------------------------------------
(* Requests.                                                               *)

Create(j) ==
  /\ ~job[j].there /\ dues[j] = 0
  /\ job' = [job EXCEPT ![j] = [there |-> TRUE, on |-> TRUE, due |-> FALSE]]
  /\ UNCHANGED <<slot, memVars, poll, cancel, set, stops, dues, ran, again, told, retold, dropped>>

Toggle(j) ==
  /\ job[j].there
  /\ job' = [job EXCEPT ![j].on = ~@]
  /\ UNCHANGED <<slot, memVars, poll, cancel, set, stops, dues, ran, again, told, retold, dropped>>

Delete(j) ==
  /\ job[j].there /\ dues[j] > 0
  /\ job' = [job EXCEPT ![j] = NoJob]
  /\ UNCHANGED <<slot, memVars, poll, cancel, set, stops, dues, ran, again, told, retold, dropped>>

\* next_run_at passes.
ComesDue(j) ==
  /\ job[j].there /\ ~job[j].due /\ dues[j] < MaxDue
  /\ job' = [job EXCEPT ![j].due = TRUE]
  /\ dues' = [dues EXCEPT ![j] = @ + 1]
  /\ ran' = [ran EXCEPT ![j] = 0] /\ again' = [again EXCEPT ![j] = 0]
  /\ UNCHANGED <<slot, memVars, poll, cancel, set, stops, told, retold, dropped>>

\* A reminder is written under the second it is set in.
SetReminder(r, k) ==
  /\ r \notin set /\ set' = set \cup {r}
  /\ slot' = [slot EXCEPT ![k] = [rem |-> r, status |-> "active"]]
  /\ dropped' = dropped \cup (IF slot[k].status = "active" THEN {slot[k].rem} ELSE {})
  /\ UNCHANGED <<job, memVars, poll, cancel, stops, dues, ran, again, told, retold>>

\* It may also have no time to come due.
ReminderComesDue(r) ==
  /\ r \in set \ past
  /\ past' = past \cup {r}
  /\ UNCHANGED <<job, slot, copy, poll, cancel, set, stops, dues, ran, again, told, retold, dropped>>

\* The skill reads the reminder that is most like the request, whatever its status, ...
CancelBegin(k) ==
  /\ cancel.key = None /\ slot[k].rem # None
  /\ cancel' = [key |-> k, data |-> slot[k]]
  /\ UNCHANGED <<job, slot, memVars, poll, set, stops, dues, ran, again, told, retold, dropped>>

\* ... and writes it back as cancelled.
CancelEnd ==
  /\ cancel.key # None /\ cancel' = [key |-> None, data |-> Empty]
  /\ slot' = [slot EXCEPT ![cancel.key] = [cancel.data EXCEPT !.status = "cancelled"]]
  /\ dropped' = dropped \cup {cancel.data.rem, slot[cancel.key].rem}
  /\ UNCHANGED <<job, memVars, poll, set, stops, dues, ran, again, told, retold>>

-----------------------------------------------------------------------------
(* The memory.                                                             *)

Others(k, rem) == {slot[k].rem} \ {rem}

\* A session is deleted with what its tasks wrote, in one statement.  What the loop wrote has no task.
Purge(keys) ==
  /\ keys # {} /\ \A k \in keys : slot[k].status \in {"active", "cancelled"}
  /\ slot' = [k \in Slots |-> IF k \in keys THEN Empty ELSE slot[k]]
  /\ dropped' = dropped \cup {slot[k].rem : k \in keys}
  /\ UNCHANGED <<job, memVars, poll, cancel, set, stops, dues, ran, again, told, retold>>

\* A copy is shown again if it says active and the row does not.
Restores(k) == copy[k].status = "active" /\ slot[k] # copy[k] /\ told[copy[k].rem] > 0

CopyLeaves(k) == [copy EXCEPT ![k] = Empty]

\* The flush writes the copy loaded at the start over what the row has become, and it is clean.
WriteBack(k) ==
  /\ copy[k] # Empty
  /\ slot' = [slot EXCEPT ![k] = copy[k]] /\ copy' = CopyLeaves(k)
  /\ retold' = IF Restores(k) THEN [retold EXCEPT ![copy[k].rem] = @ + 1] ELSE retold
  /\ dropped' = dropped \cup Others(k, copy[k].rem)
  /\ UNCHANGED <<job, past, poll, cancel, set, stops, dues, ran, again, told>>

\* It is evicted, or removed from the cache by a purge, before a flush takes it.
CopyLost(k) ==
  /\ copy[k] # Empty /\ copy' = CopyLeaves(k)
  /\ UNCHANGED <<job, slot, past, poll, cancel, set, stops, dues, ran, again, told, retold, dropped>>

-----------------------------------------------------------------------------
(* The loop.                                                               *)

Due == {j \in Jobs : job[j].on /\ job[j].due}
KeysSet == {k \in Slots : slot[k] # Empty}

PollTasks ==
  /\ poll.pc = "sleep"
  /\ poll' = [poll EXCEPT !.pc = "tasks", !.jobs = Due]
  /\ UNCHANGED <<job, slot, memVars, cancel, set, stops, dues, ran, again, told, retold, dropped>>

\* The next task read is run, even one that was since disabled or deleted.
RunBegin(j) ==
  /\ poll.pc = "tasks" /\ j \in poll.jobs
  /\ poll' = [poll EXCEPT !.pc = "running", !.now = j, !.jobs = @ \ {j}]
  /\ ran' = [ran EXCEPT ![j] = @ + 1]
  /\ UNCHANGED <<job, slot, memVars, cancel, set, stops, dues, again, told, retold, dropped>>

\* The next time is counted from the beginning of the run, and written whether
\* the run completed or failed.
RescheduleCompleted(j, completed) == IF completed THEN [job EXCEPT ![j].due = FALSE] ELSE job
Reschedule(j, completed) == IF job[j].there THEN [job EXCEPT ![j].due = FALSE] ELSE job

RunEnd ==
  /\ poll.pc = "running"
  /\ \E completed \in BOOLEAN : job' = Reschedule(poll.now, completed)
  /\ poll' = [poll EXCEPT !.pc = "tasks", !.now = None]
  /\ UNCHANGED <<slot, memVars, cancel, set, stops, dues, ran, again, told, retold, dropped>>

\* A statement fails too: the rest of what was read waits for the next poll.
RunAborts ==
  /\ poll.pc = "running" /\ stops < MaxStops /\ stops' = stops + 1
  /\ poll' = [poll EXCEPT !.pc = "tasks", !.now = None, !.jobs = {}]
  /\ again' = [again EXCEPT ![poll.now] = @ + 1]
  /\ UNCHANGED <<job, slot, memVars, cancel, set, dues, ran, told, retold, dropped>>

PollReminders ==
  /\ poll.pc = "tasks" /\ poll.jobs = {}
  /\ poll' = [poll EXCEPT !.pc = "reminders", !.past = past, !.keys = KeysSet]
  /\ UNCHANGED <<job, slot, memVars, cancel, set, stops, dues, ran, again, told, retold, dropped>>

ReadReminder(k) ==
  /\ poll.pc = "reminders" /\ k \in poll.keys
  /\ poll' = [poll EXCEPT !.pc = "read", !.keys = @ \ {k}, !.key = k, !.data = slot[k]]
  /\ UNCHANGED <<job, slot, memVars, cancel, set, stops, dues, ran, again, told, retold, dropped>>

\* What was read is shown and written back as fired.
Mark(data) == [data EXCEPT !.status = "fired"]

Fires == poll.data.status = "active" /\ poll.data.rem \in poll.past

Fire ==
  /\ poll.pc = "read" /\ Fires
  /\ poll' = [poll EXCEPT !.pc = "reminders", !.key = None, !.data = Empty]
  /\ told' = [told EXCEPT ![poll.data.rem] = @ + 1]
  /\ slot' = [slot EXCEPT ![poll.key] = Mark(poll.data)]
  /\ dropped' = dropped \cup Others(poll.key, poll.data.rem)
  /\ UNCHANGED <<job, memVars, cancel, set, stops, dues, ran, again, retold>>

\* It is shown, and the write fails or is lost in a crash: the loop leaves the rest.
FireAborts ==
  /\ poll.pc = "read" /\ Fires /\ stops < MaxStops /\ stops' = stops + 1
  /\ told' = [told EXCEPT ![poll.data.rem] = @ + 1]
  /\ retold' = [retold EXCEPT ![poll.data.rem] = @ + 1]
  /\ poll' = Asleep
  /\ UNCHANGED <<job, slot, memVars, cancel, set, dues, ran, again, dropped>>

Skip ==
  /\ poll.pc = "read" /\ ~Fires
  /\ poll' = [poll EXCEPT !.pc = "reminders", !.key = None, !.data = Empty]
  /\ UNCHANGED <<job, slot, memVars, cancel, set, stops, dues, ran, again, told, retold, dropped>>

Sleep ==
  /\ poll.pc = "reminders" /\ poll.keys = {}
  /\ poll' = Asleep
  /\ UNCHANGED <<job, slot, memVars, cancel, set, stops, dues, ran, again, told, retold, dropped>>

\* The process stops, and starts: the rows stay, and those used most are loaded into the cache,
\* which takes them for changed.
Restart ==
  /\ stops < MaxStops /\ stops' = stops + 1
  /\ poll' = Asleep /\ cancel' = [key |-> None, data |-> Empty]
  /\ \E used \in SUBSET Slots : copy' = [k \in Slots |-> IF k \in used THEN slot[k] ELSE Empty]
  /\ again' = IF poll.now = None THEN again ELSE [again EXCEPT ![poll.now] = @ + 1]
  /\ UNCHANGED <<job, slot, past, set, dues, ran, told, retold, dropped>>

Next ==
  \/ \E j \in Jobs : Create(j) \/ Toggle(j) \/ Delete(j) \/ ComesDue(j) \/ RunBegin(j)
  \/ \E k \in Slots : CancelBegin(k) \/ ReadReminder(k) \/ WriteBack(k) \/ CopyLost(k)
                      \/ \E r \in Reminders : SetReminder(r, k)
  \/ \E r \in Reminders : ReminderComesDue(r)
  \/ \E keys \in SUBSET Slots : Purge(keys)
  \/ CancelEnd \/ PollTasks \/ RunEnd \/ RunAborts \/ PollReminders
  \/ Fire \/ FireAborts \/ Skip \/ Sleep \/ Restart

Spec == Init /\ [][Next]_schedulerVars

-----------------------------------------------------------------------------
(* A task runs once each time it comes due, other than for runs that were  *)
(* cut short.  A reminder is shown once, and once more for each time that  *)
(* its being shown was not written, or was written over by the copy loaded *)
(* at a start: no more often than there were failures and starts           *)
(* (kernel/scheduler.py:160-242, 246-310, kernel/orchestrator.py:617-630,  *)
(* 1659-1667).                                                             *)
ScheduledOnce ==
  /\ \A j \in Jobs : ran[j] <= 1 + again[j]
  /\ \A r \in Reminders : told[r] <= 1 + retold[r] /\ retold[r] <= stops

(* A reminder that was set has been shown or is active still, unless it    *)
(* was cancelled, purged with its session, or another was written or       *)
(* written back under its second                                           *)
(* (kernel/scheduler.py:262-310, skills/reminders/skill.py:134-143,        *)
(* memory/repository.py:354-367).                                          *)
NoReminderLost ==
  \A r \in set : told[r] > 0 \/ r \in dropped \/ \E k \in Slots : slot[k].rem = r /\ slot[k].status = "active"

(* What is due is done once, and nothing is forgotten.                     *)
DueOnceEach == ScheduledOnce /\ NoReminderLost
=============================================================================
