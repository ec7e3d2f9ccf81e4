# Verification of MUSE

TLA+ models of the MUSE agent server (`src/src/muse`), the TLC configurations that
check them on small instances, and proofs of their central invariants for every
instance. Paths below are relative to `src/src/muse`.

## 1. The system

MUSE is one Python process on one asyncio event loop, with an aiosqlite database.
A WebSocket or REST request reaches the orchestrator, which classifies the message
and hands it to a dispatcher; skills run in a sandbox (in process, or in a child
process) and call back into the kernel through a bridge. What makes the program
hard is not parallelism in the small but the *suspension points*: every `await` lets
any other handler run, and state read before one is used after it.

| Component | State | Operations | Interacts with |
|---|---|---|---|
| permissions (`permissions/manager.py`, `repository.py`) | `permission_grants` table (durable), pending requests, current session | check, request, approve, deny, revoke, start-up auto-grant | dispatcher and executor check; gate approves and denies; orchestrator ends sessions |
| gate and pre-check (`kernel/permission_gate.py`, `skill_dispatcher.py`) | `pending_permission_tasks` in the session store | pre-check, register, approve, deny, resume | permissions, executor, message bus |
| trust budget, rate limiter (`permissions/trust_budget.py`, `gateway/rate_limiter.py`) | counters and periods (durable), windows (memory) | check, consume, reset | permissions, bridge, proxy |
| task lifecycle (`kernel/task_manager.py`, `skill_executor.py`, `wal/log.py`) | tasks table, active tasks and their futures, write-ahead log | spawn, update status, await, kill, commit, recover | sandbox, hooks, orchestrator |
| sandbox, bridge, warm pool (`skills/sandbox.py`, `warm_pool.py`) | running tasks, process pools | execute, kill, user prompts, nested invocation | task manager, executor |
| plan executor (`kernel/plan_executor.py`, `iteration.py`, `execution_utils.py`) | steps and their results, plan row, steering queue | waves, run, skip, pause, resume, iterate | dispatcher, task manager |
| session store, event delivery (`kernel/session_store.py`, `message_bus.py`, `api/routes/chat.py`) | active session, event buffer of a background task, bounded subscriber queues | run in background, buffer, replay, subscribe, emit | orchestrator, WebSocket clients |
| session repository (`db/session_repository.py`) | sessions, messages, branch heads | append, branch, switch, delete | orchestrator, compaction |
| compaction (`kernel/compaction.py`) | recent turns, running summary, checkpoint cursor, background folds | add turn, fold, reset, restore | session repository, providers |
| memory (`memory/*.py`) | cache of entries, dirty set, durable entries | put, get, promote, demote, flush, evict, purge | bridge, dreaming, scheduler |
| scheduler (`kernel/scheduler.py`) | scheduled tasks (durable), running set | poll, run, record, pause | orchestrator, bus |
| proactivity, recipes, patterns, emotions | budgets per day, cooldowns, buffered events | suggest, consume, record, flush | orchestrator, memory |
| dreaming (`kernel/dreaming.py`) | idle timer, consolidation run | start, cancel, consolidate | memory, session store |
| hooks (`kernel/hooks.py`) | registered hooks | run before (may block or rewrite), run after | executor |
| MCP (`mcp/*.py`, `kernel/mcp_executor.py`) | connections, reconnect tasks | connect, disconnect, call, reconnect | dispatcher |
| credentials (`credentials/*.py`) | keychain, registry, pending OAuth states | begin, complete, refresh, delete | API, bridge, routing |
| skills loading and authoring (`skills/loader.py`, `skills/authoring/*.py`) | installed files and rows, manifest cache, staging slots | generate, audit, confirm, install, remove | classifier, user |
| bundled skills (`src/skills/*`, `src/sdk/muse_sdk`) | approved directories, remembered approvals, the user's files | ask, then read, write, send, run | bridge, memory |
| screen automation (`screen/*.py`) | stream, pending confirmations, rate windows | start, act, confirm, stop | bridge |
| others | — | loaders, prompt builders, model clients, routes, frontend, scripts | — |

What makes each component correct is stated by the properties of its module, below; what is
not modelled is in section 6. The hazards of the code, each at its line, are the `hazards` of
`PROJECT.json`.

### How the event loop is modelled

* One action is a stretch of code between two suspensions. aiosqlite runs the
  statements of its one connection in the order they were issued, so a stretch
  includes the first statement it issues before it suspends; what the code does with
  a result is the next stretch.
* `MessageBus.emit` puts into queues without waiting and never suspends; an
  `async for` over a generator of the same task does not suspend by itself.
* A crash or restart keeps the tables and loses memory. A statement not yet
  committed at the crash counts as not issued: the model then takes the restart
  before the action.
* Fairness, where a liveness property needs it, is weak fairness of the actions
  that are a continuation of a suspended handler: the event loop resumes each of
  them. Nothing is assumed of users, clients, connections or restarts.

## 2. The models

### Permissions: `GrantTable`, `PermissionManager`, `PermissionGate`

`GrantTable` holds the statements of `permissions/repository.py` as operators on the
value of the `permission_grants` table. A `Perms` element stands for a (skill,
permission) pair. Rows are never deleted; ids are never reused.

`PermissionManager` has that table (`grants`), the manager's pending requests
(`reqs`), its current session (`session`) and the kernel's (`active`), where each
`check_permission` call stands (`calls`), and the session switches under way.
`CheckFind` is the SELECT, `CheckDecide` everything after the budget query, with the
revocation of a once row. The trust budget answers nondeterministically.
`SwitchBegin`, `SwitchEnd` and `SwitchFail` are the stretches of `set_session`; the
route that deletes a session clears the kernel's session only. `Restart` runs
`_auto_grant_first_party_permissions` if the user opted in; which budgets are used up then is
chosen freely among the permissions with a grant, since the start takes a grant refused by
its budget for none and inserts a second `always` row beside it (`orchestrator.py:663-682`).
`uses` and `regranted` are history: the checks each once row has let through, and those
second rows.

`PermissionGate` extends it with the dispatcher and the gate; a caller is now a
message. `stage` is where its handler stands, `asked` the request ids of its round,
`held` the keys of `pending_permission_tasks`, `approving` the approvals that wait
for their INSERT, `granted` the permissions the skill is run with. A message for one
skill (`handle_delegated`) gathers its checks and then raises and registers all
requests in one stretch; a compound one (`handle_multi_delegated`) yields each
request to the client before it registers any. `rounds` and `resumes` are history.

| Run | What it asks | Bounds |
|---|---|---|
| `manager` | a once row serves at most one check per concurrent caller; user rows and approvals correspond; a permission is auto-granted again only by a start that found its budget used up, and not at all once revoked | 1 permission, 2 callers, 2 sessions, 3 rows, 2 requests, 1 switching connection, 1 restart: two checks can overlap, a request can be answered twice, the user can revoke an auto-granted row before the restart |
| `gate` | resumes only if all approved and at most once per round | a compound and a single message sharing a permission, 2 permissions, 3 requests, 2 rows, 1 restart |
| `gate_live` | a waiting single message can still be answered, and once approved it runs | a single message with 2 requests next to an auto-approved tool, fairness of the event loop |
| `gate_unregistered` | a documented promise, which the code does not keep (section 5) | the smallest instance that shows it |

The row ids bound the number of grants, the request ids that of requests: an action
that needs a fresh one is disabled when none is left. Symmetry is used over
interchangeable ids, never in a run with a liveness property.


### Task lifecycle: `TaskOutcome`, `TaskLifecycle`

`TaskOutcome` is what the task machinery promises: a task is open, then closed with one
verdict that never changes, and the user gets an answer only for a task closed as
completed. `TaskLifecycle` is the machinery and is shown to implement it.

| State | In the code |
|---|---|
| `stage[r]` | where `SkillExecutor.execute` stands for the run, from the log entry to its last event |
| `wal[r]`, `row[r]` | the `wal_entries` and `tasks` rows; they survive `Restart` |
| `active` | the keys of `_active_tasks` and of `_task_futures`, always the same |
| `status[r]` | the field of the task object, which awaiters read after the row has moved on |
| `killer[r]` | `orchestrator.kill_task`: the update, then the sandbox |
| `report[r]` | history: the event the user got |

`update_status` awaits its UPDATE, so it is two stretches: `SetStatus` and, in a later
action, `Drop`. The four `Kind`s are the ways a skill is executed: in this process, in
a fresh child process, in a child process of the warm pool, or as an MCP call. They
differ in who reports a result and in what `kill` reaches. The README of the
repository asks for Python 3.12, where `asyncio.wait_for` runs the coroutine in the calling task: the
task the sandbox registers under the id of the run is the handler itself, and a kill
cancels the handler (`Cancels`). The UPDATE of a cancelled handler has been executed on
the shared connection and the next commit of anyone writes it.

A before-hook is a nondeterministic refusal of the runs in `Hooked`. Left out: sub-tasks
(the depth limit is 1, they take the same path), check-points, token counts and the
completion callbacks, which no status depends on.

| Run | What it asks | Bounds |
|---|---|---|
| `tasks` | implements `TaskOutcome`; a slot is lost in two ways only; a run in a sandbox ends | an in-process, a pooled and an MCP run, limit 2, one run may be blocked, 1 restart: every pair of finishers overlaps, the limit is reached |
| `task_timeout` | a documented promise, which the code does not keep (section 5) | the smallest instance that shows it |

Fairness: a handler that can take a step takes one, since the event loop resumes it
and its time-outs fire; a kill under way ends. Nothing is assumed of an MCP call, which has
no time-out, of users, or of restarts.

### Plans: `PlanExecutor`

A message runs as a background task of its own (`api/routes/chat.py`), so a goal message,
compound messages and several "continue" messages overlap at every `await`. Each is a
handler with a job; the plans table, the executing flag and the steering queue are
shared, the last two by all sessions.

| State | In the code |
|---|---|
| `job[h]` | the local variables of `handle_goal`, `try_resume_plan` or `handle_multi_delegated`: where it stands (`pc`), the steps, `results`, `executed_steps`, the attempt of the iteration group, the waves done since the last restart, what is left of the current one (`todo`) and the loop variable `idx` |
| `row[p]` | the row of the `plans` table that goal message `p` inserted: status, steps, results, `current_step` and the persisted attempt |
| `executing`, `queue` | `executing_plan` and the length of `steering_queue` of the session store |
| `ran`, `resets`, `steered`, `overlapped` | history: how often a handler has run a step to its end, how often it has cleared it, the steering so far, the plans two handlers have resumed at a time |

A step is its index, and what the language model plans is any of `Shapes`: how many steps
there are, what each depends on, and which are the work and the verify steps of the one
iteration group. The run of a step (`TaskLifecycle`) ends with a response, a failure, or
neither. The judge of a result, the rewriter of a plan and the user who steers do anything.
`handle_goal` and `handle_multi_delegated` share the waves (`EnterWave`,
`ParallelStepEnds`, `StepEnds`); the compound handler judges, retries and saves nothing.
A wave whose steps have all been executed still leads to `Examine`, with the `idx` of the
last: so does the code, whose loop variable is left there. A resumption goes through the steps
by index instead of in waves, and saves after each.

Left out: plans with several iteration groups, the attempts' feedback texts, the
permission pre-checks (`PermissionGate`; a resumption that has to ask is `ResumeRefused`),
and sessions: all plans are of one.

| Run | What it asks | Bounds |
|---|---|---|
| `plan` | no step runs again but for a retry; what completes has left nothing behind but steps that wait for each other; a running row has a worker, or one that raised or crashed; queued steering has a plan | one goal message (three shapes of three steps: an iteration, an iteration whose work step shares its wave, one step that waits for itself), one compound message with a parallel wave, one resumption, 1 retry, 1 steering message, 1 restart |
| `plan_resume` | a paused plan was saved at a failure; every message ends | a goal message and two resumptions, which can overlap; 1 retry, 1 steering message |
| `plan_skip` | a documented promise, which the code does not keep (section 5) | a chain of three steps |

Three steps are enough for a dependency of a dependency, for a wave before and after a
parallel one, and for a verify step between its work step and a step that uses it. Fairness
is that of the event loop: a handler that can go on does, and the runs of steps end, which
`EveryRunEnds` of `TaskLifecycle` shows of skills in a sandbox. `EveryMessageEnds` also needs
that steering stops (`MaxSteering`): each re-plan starts the attempts anew.

### The conversation: `Compaction`, `SessionBranches`, `EventDelivery`, `MemoryTiers`, `Dreaming`

Five modules, each with the state of one component and the handlers that touch it; each can be
read, and checked, alone. `MCConversation` checks them in one run: `part` says which of
them takes steps, the others keep their initial state, so the reachable states are those of
each part, added and not multiplied.

| Module | State, and what it is in the code | Handlers |
|---|---|---|
| `Compaction` | the active session and its history (session store), the fields of the `CompactionManager`, folds and checkpoints in flight, the messages and the archive of each session | answers, pinned to their session or not, that arrive after a switch; the notes of killed tasks and denials; folds, checkpoints, `set_session`, `create_session`, `fork_session`, the deletion route |
| `SessionBranches` | the rows of messages with their parents, `branch_head_id` of each session's row and of the session store | the tasks that persist a turn (INSERT, UPDATE of the head, return), switches, forks, deletions |
| `EventDelivery` | the connections, their filter and queue, the runs in the background and the counter of active ones, the events as shared dicts with or without their tag | `run_in_background`, `emit`, the forwarding loop, whose send may fail once the tag is off, reconnection |
| `MemoryTiers` | rows on disk, entries in the cache with their dirty and pinned marks, the copies a flush works through, the row a promotion has read | demotion, flush, promotion, pin, purge, writes and deletions past the cache |
| `Dreaming` | the idle watcher, the analysis next to a consolidation, the summaries under their minute, the stored suggestions and the copy of them the cache loaded at the start, usage events in memory and on disk | messages, the watcher's stages, a consolidation that goes on after the analysis next to it failed, greetings, the flush of the copy |

A text is what is in it: a summary is the set of turns merged into it, a fact's value is the
demotion that made it. So "forgotten" and "lost" are set relations, and merging a fold into the
wrong session shows as turns of another session.

**Properties with exceptions.** In most of these components the promise one would like to
state does not hold; what holds is that it fails in *known ways only*. History variables
(`upset`, `since`, `cut`, `blind`, `stripped`, `lost`, `astray`, `crowded`, `gone`) record the ways, each set
where the code does it, and the invariant is: unless one of them happened, the promise holds.
For instance a turn that leaves the window is in the summary, in the pending batch or in a
fold's batch, unless two folds were in flight at a time or a fold outlived a reset
(`NoTurnForgotten`). Each exception is a behaviour of the code to be argued about; each mutant
adds one that is not in the list.

*What the code forgets.* `NoTurnForgotten` begins at `since`, for two reasons. The first
`incremental_compact` of a manager only calibrates the cursor: it moves past the turns that have left the
window by then, and none of them is folded (`kernel/compaction.py:227-229`). And `reset` keeps the cursor
(198-205), so after a switch, a fork or a new session the turns before the *old* cursor are never
folded either. In structural mode a summary that grows too long is truncated (277-279): what that
drops is in `cut`. A fold's answer is taken to hold what it was given (`FoldMerge`): what a model leaves out
of a text is no matter of this code.

*What strays.* Only `InlineHandler.handle` looks whether its session is still the active one
(`kernel/inline_handler.py:151`). Delegated, compound and goal answers, identity edits and messages
resumed after an approval carry no session; the notes of a killed task or a denial are added to whatever
history is in memory (`kernel/skill_dispatcher.py:353`, `plan_executor.py:782`, `848`, `inline_handler.py:234`,
`permission_gate.py:92-120`, `orchestrator.py:1545`). The model has these as handlers that are not `pinned`, and as
`Kill`, `Deny` and `TimeOut`; `MemoryOfActiveSession` excepts just those turns (`Strays`), so on these
paths the history of one session does get the answers of another.

| Property of run `conversation` | Says |
|---|---|
| `NoTurnForgotten`, `MemoryOfActiveSession` | folds, failed folds and the answers of the inline handler neither drop turns nor mix sessions, but for the ways above |
| `HeadsAgree`, `ParentsInSession` | the head in memory is that of the row, and parents are of the same session, while turns are persisted one by one and in their session |
| `IndicatorTells`, `LeaksOnlyStripped` | the working indicator is right for a connection that missed nothing, however runs of a session overlap; an event reaches a foreign session only once its tag was stripped from the shared dict, by a connection that got it or whose send failed |
| `NoFactLost`, `PurgedIsGone` | the value demoted last is on disk, in the flush or dirty, but for eviction, a flush that marks a newer value clean, and replacements on purpose; what a purge leaves was on its way between the tiers |
| `DreamKept` | a consolidated session has its summary unless another's came under the same minute; suggestions stay until they are read or cleared, or the flush writes back the row as it was loaded at the start |

Bounds: two sessions, messages, session calls and connections each, so that two of anything
overlap; window 0, batch 1, interval 2, so that the first turns already leave, fold and
checkpoint; queues of 2 with up to 4 events, so that a queue overflows; a cache of one entry,
and of two, with two facts on two keys, so that a demotion evicts, replaces and meets a flush;
two dreams, within a minute or not. Five cuts keep the run small (`FewBegun`, `DreamingStep` and `Init` of `MCConversation`): in `compaction` at most four messages and calls
are begun, where a message that is not pinned, is killed or denied counts twice, and where a model
folds one turn at a time waits to be persisted; the part `memory` starts with at
most one row and `two entries` with an empty disk, so a cache of two over older rows is not
explored; and in `dreaming` the second connection is greeted once a greeting is cached, so two
greetings composed at the same time are not, nor is a greeting while a consolidation goes on by itself; there, the copy
loaded at the start is gone before the second consolidation. The theorems are free of all five.
Symmetry is over sessions, messages and calls: no property names one of them.

### The services: `Scheduler`, `Proactivity`, `McpServers`, `SkillConsent`, `Credentials`, `SkillInstall`, `TrustBudget`

Seven more modules, checked in one run by `MCServices` in the same way.

| Module | State, and what it is in the code | Handlers |
|---|---|---|
| `Scheduler` | the rows of scheduled tasks and reminders, the copies of reminders the cache is still to write back, where the loop stands and what it has read | create, toggle, delete; set and cancel a reminder; the loop's reads, runs, marks; the flush of a copy, its eviction, the purge of a session; failing statements, starts |
| `Proactivity` | the counters of the day, silence and dismissals, the pending suggestion, the recipe's cooldown, each caller of `is_allowed` at one of its awaits | follow-ups, nudges, autonomous actions, recipes, feedback, greetings, midnight |
| `McpServers` | the row of one server, the connection recorded, the sessions open, the lazy configuration, the reconnect loop recorded, the lock of `ensure_connected` | settings requests, the install skill, tool calls, the loop; a connection is named after who made it |
| `SkillConsent` | the approved directories (one memory row) and the copy of them loaded at the start, files as the changes that are in them, each skill task with what it has read and what its question was answered | look, read, write, append, edit, delete, copy, move, compare; mail, calendar, commands; revocation in the settings; the flush of the copy and the purge of a session; the user's own edits; disconnects, time-outs and kills |
| `Credentials` | the keychain's secret and the registry's row of one credential, flows, refreshes, the looks that decide the routing | authorize, call back, paste on the page of a skill, refresh, delete, look, route; the provider numbers the refresh tokens and takes the newest |
| `SkillInstall` | staging slots, authors, results that ask for an installation, installed contents, the manifest cache | generate, audit, retry, confirm, install; hand over, update; remove, restart |
| `TrustBudget` | the rows of one permission's budget, the runs that spend it | set, check, work, consume, midnight, restart |

| Property of run `services` | Says |
|---|---|
| `DueOnceEach` | a task runs once each time it comes due and a reminder is shown once, but for what was cut short and for rows that a flush made active again, which are no more than there were failures and starts; no reminder is forgotten unless it was cancelled, purged or overwritten |
| `SuggestionsLimited` | the budget of the day is exceeded only by callers past their check when another used it, a cooldown only by evaluations begun before; autonomous actions keep to theirs |
| `DirectoriesKept` | the list says what the user decided last, until a purge, unless an older list was still to be saved at the decision: by another task, by the settings, or by the cache |
| `NoChangeLost` | a change is in the file until the file is replaced, unless an edit that asked meanwhile wrote the text it had read |
| `RunsAsConfigured` | the row holds the last configuration, and a session is open only for the connection recorded, unless connects crossed |
| `CredentialCurrent`, `RoutedIfConfigured` | the bundle stored is of the last authorization with the token the provider takes; routing follows the credential, unless it changed on the page of a skill, where no look follows; the ways either fails are named |
| `InstalledIsAudited` | what is installed passed the audit, unless authors shared a slot or the result of a skill brought it in; the cached manifest is the installed one |
| `BudgetCounted` | a budget counts what was spent, up to its limit |

Three rows of the memory are used as stores of their own: the reminders, the approved directories, the
suggestions of `Dreaming`. A start loads the rows used most into the cache as if they were changed
(`memory/promotion.py:54-75`, `cache.py:75`), the next flush writes them over what the rows have become, and a purge deletes
what the tasks of a session wrote. The models have these writers (`WriteBack`, `CopyLost`, `Purge`), and the
properties say what they undo: a reminder that was shown is shown again, a directory approved or
revoked just after a start is as it was.

`SkillInstall` has two ways in. `create_skill` audits and asks; nothing in the program constructs it
(`SkillAuthor`). `install_authored_skill` (`kernel/skill_executor.py:398-431`) installs the directory
that the result of any skill names, once `skill.py` and `manifest.json` are there, with neither audit nor
question: `HandOver`. `InstalledIsAudited` is a promise of the first, and names the second as its exception; so of the
program as it is wired it says that only `install_authored_skill` and `update_skill` bring in what was not audited.

The budgets of `SuggestionsLimited` are counters in memory, so it holds from one start to the next.

`confirm_disconnect` checks `ConfirmedIsApproved` of `SkillConsent` on one task: section 5.

Bounds: two tasks, authors, uses or callers, two requests, and three for the MCP server, so
that a third can see what two that overlap leave behind; two starts or failing statements of the scheduler and one of an author, two due
times; two attempts of an author; budgets of 1 or 2 actions with two spent. Some parts are split, so
that each can have the bounds its cases need: `servers` has three requests and no reconnect
loop, `reconnect` two and the loop; `access` is the list of directories with one task that
needs two of them, and no file, and a copy in the cache only of a list that is not empty; `files` has the directories approved; `tasks` and `reminders` are the halves of the scheduler; `skills` has two
authors, `reports` one and a result that hands a skill over; `tokens` has looks that follow each
change at once, `routing` the looks and no use of the token. What a split leaves out is the
product of the two halves, never an action: each fires in one of them. Operations cost one action each;
`TrustBudget` can count tokens too, but then `BudgetCounted` does not hold, as an operation
over the limit is not counted (section 5).

No liveness is stated here: the loops of the scheduler, of proactivity and of dreaming go on by
timers, and each of their rounds may fail.

## 3. What is proved

### `PermissionManager_proofs`, `PermissionGate_proofs`

* `ManagerTypeCorrect`: `ManagerTypeOK` is inductive as it stands; each statement of
  `GrantTable` has its own lemma.
* `AutoGrantsAreAccounted`: the strengthening `AutoRowsOnce` adds that automatic rows are
  `always` rows. A start that inserts one found no revoked row, so the automatic rows there
  are were all active (`NewAutoRow`), and it found one only where the budget was used up; the
  statements that revoke later take all `always` rows of a permission or none
  (`RevokedKeepsOnce`).
* `OnceUseBounded`: the inductive invariant `OnceInv` counts, for each once row, the
  checks that may still use it: the callers between their SELECT and their UPDATE
  that found it (`FoundRows`), plus, while the row is active, those not yet there.
  Each use moves one caller out of that set, so the uses never exceed the callers.
* `GrantsAreApproved`: `GrantsMatchApprovals` compares two cardinalities, so the invariant
  `MatchInv` adds that both sets are finite. A step changes neither of them, or each by
  one element (`MatchKept`, `MatchApprove`).
* `GateTypeCorrect`: `TypeOK` of the composition, from the manager's step lemmas.
* `ResumesBounded`, `ResumedOnlyIfApproved`: the inductive invariant `GateInv` says
  that what the gate holds was asked for by its owner (`HeldBelongs`,
  `AskedBelongs`), that a request of a waiting message that is no longer held has
  been approved (`UnheldApproved`, the key: a denial takes away the whole round), that a
  request being approved is approved in the manager (`ApprovingApproved`), and that a
  waiting message has a round not resumed yet (`RoundsAhead`).
* `WaitingIsOpen`: `SingleInv` adds to `GateInv` that the round of a waiting single message has
  a request held, and that each one held is pending or being approved. A compound message is
  the exception, and the property says so: answers that come before it is registered leave it
  waiting (run `gate_unregistered`, section 5).

Assumptions are the modules' own `ASSUME`s on the constants: sets are finite where a
cardinality is taken, "no row" is no row, a message is compound or auto-approved, not
both.

### `TaskLifecycle_proofs`

* `TaskTypeCorrect`: the type invariant, inductive as it stands.
* `SlotsAccountedFor` and `ImplementsOutcome` rest on one inductive invariant,
  `TaskInv`: the task object of an active task has the status of its row
  (`ObjectMatchesRow`), there is a row once the handler has passed its INSERT
  (`RowFromSpawn`), a handler that still works has told nothing (`UntoldBefore`), and
  `SlotHolders`.
* The refinement is proved run by run: `Bar(r)` is the abstract state of a run, each
  action takes `Bar(r)` to itself or by `OutcomeStep(r)`, and a last lemma puts the runs
  together into a step of `TaskOutcome`.

### `PlanExecutor_proofs`

* `PlanTypeCorrect`, `StepsNotRepeated`, `SteeringIsTaken` and `RunningIsWorkedOn` rest on
  one inductive invariant, `PlanInv`. The type invariant is not inductive alone: a resumption
  indexes its results by its loop variable and the rows by its plan, so `InPlan` says that
  both are in range. `Counted` relates the runs of a step to `executed_steps`: a step
  that is not executed has been run at most as often as it was cleared. `FlagHeld` has the
  flag besides the queue, since a raised flag is what lets steering in.
* A step of one handler is shown to have the shape `StepKeeps`: it keeps its own
  invariant, leaves the others alone, lets go of the flag only by lowering it, and of a
  running row only by changing its status. `KeepsInv` puts the handlers together.
* `PausesAtFailure` rests on `PauseInv`: resumptions begin after the goal handler is over, a row
  that is being resumed says running, unless two resumptions overlap it has one writer, and what the
  writer has saved is in the row when it decides to pause. A second resumption of the plan is
  the one step that breaks this, and it is recorded in `overlapped`.
* `CompletedIsDone` rests on `CoverInv`: the steps of the waves so far are executed or
  being run, and a resumption has executed all before the one it stands at. That
  no further wave means that what is left waits for itself is `NoWaveNothingLeft`.

Assumed is `PlanAssumption`: the three kinds of message are disjoint, and shapes are over
the given steps.

### `Conversation_proofs`, `Memory_proofs`, `Services_proofs`, `Skills_proofs`

The theorems about the components that `MCConversation` and `MCServices` put together: a section for each
component, with its invariant and one lemma per action. These lemmas are about the component's own `Init`
and `Next` (`C!Next`, `E!Next`), whatever its bounds; the theorems at the end conclude for the `Spec` that the run
checks, of which each step is a step of one component or leaves it alone. `Memory_proofs` extends
`Conversation_proofs`, and `Skills_proofs` extends `Services_proofs`.

* `NothingIsForgotten`, `MemoryIsOfActive` (`CompactionInv`). `FoldInv`: until folds overlap
  or outlive a reset there is one fold at most, it has read the present summary, and what left the window since
  `since` is in the summary, cut from it, pending, or in its batch. `SessionInv`: every row and every turn in the log is of
  its session or strays, and `CallStands` says, for each await of a session call, what it holds.
  What matters in a batch is defined by ranks (`Important`), a form the provers can reason about.
* `HeadsAlwaysAgree`, `ParentsAlwaysInSession` (`BranchInv`). While nothing overlaps, at most one
  turn or call is under way (`Alone`); `HeadInv`, `TurnInv` and `CallInv` say where the head in memory and
  its row differ between its two writes; `RowInv` that heads are messages of their session.
* `IndicatorAlwaysTells`, `OnlyStrippedLeaks` (`EventInv`). What the connection has been told is
  not inductive, since events wait in its queue: `ToldInv` is about what it *will* have been told
  last, once its queue is forwarded (`Ends`), and `CountInv` makes the counter the number of runs.
  `TagInv` says that an untagged response or error was stripped, by `Pop`, whether its send succeeded or not.
* `FactsAreKept` (`MemoryInv`). A flush holds copies, so the property is not inductive: an older
  copy may yet be written over the newest value. `LeftInv` says that a copy left is the newest of its
  key, or that the newest is cached and dirty, to be flushed after it; `NowInv` that the copy
  just written is on disk when it is the newest, so `mark_clean` gives up only what it is recorded
  to; `FlushedInv` that a flush has one copy of a key, and that nothing in it is a fact yet
  to be demoted. `DirtyInv` is what makes an entry safe to flush: a dirty entry is the newest, or was there
  before the first. `MemoryMoves` leaves open which entries are evicted, so that the theorems hold for
  every budget, and for both caches of the run.
* `PurgedStaysGone` (`PurgeInv`): after a purge, `Cleared` of the cache, the rows, the row a
  promotion has read, the copies of the flush and the demotions under way, or the code knew.
* `DreamsAreKept` (`DreamInv`): a consolidated session has its summary, also in the state between
  the two writes, whichever consolidation wrote it, and the row of suggestions is that of the analysis not yet read or written over.
* `DueIsDoneOnce` (`SchedulerInv`). `JobInv` relates what the loop has read to the rows: a task
  it has yet to run was due and still is, unless deleted, and has not run for it.
  `ReminderInv` says that a reminder has one key, in its row, in what the loop or a cancellation has read, and in the
  copy of the cache, so the row that the loop marks as fired is the only one that says active, until the copy is written back.
* `SuggestionsAreLimited` (`ProactivityInv`): the day's counters against the callers past
  their check, and, for the cooldown, that each evaluation that goes on had begun before it (`CooldownInv`).
* `ServersRunAsConfigured` (`ServerInv`): what each request holds at each of its awaits, and that a
  session open is that of the connection recorded, taken over, or about to be closed (`OpenInv`).
* `DirectoriesAreKept`, `ChangesAreKept` (`ConsentInv`). `ListInv`: what is stored, and every list that is still to be
  saved, agrees with each decision that no older list can undo (`Agrees`). `EditInv`: the text an edit holds while it asks has
  every change of the file, but for those made unseen. The proof found the model's history wrong: a
  change that replaced a text by an equal one was not recorded as unseen. It is now.
* `CredentialIsCurrent`, `RoutedAsConfigured` (`CredentialInv`). `GrantInv` says where the
  newest token of the authorization granted last is: stored, held by a refresh, or lost. `RouteInv`
  says that once every change has been looked at, a look that saw the vault last is right about it.
* `InstalledSkillsAudited` (`InstallInv`). What is in the slot of an author at work is
  its own content, gone, or staged by another one while the slot was in use; that is what makes the
  confirmed content the audited one. What comes in otherwise is in `handed`.
* `BudgetAlwaysCounted` (`CountInv`): each row whose limit has not changed has
  used the smaller of its limit and what was spent; `CountsOne` is the arithmetic of one operation.
* `ServicesTyped`, `ConversationTyped`: the type invariants of the two runs, from those of the components.
  `IdInv` adds for the branches that no id exceeds the number of tasks that have one and that a parent is an
  id already given; `EmptyInv` for the memory that what has no value is no entry and no row.

Assumed are `ConversationAssumption` and `ServicesAssumption`: bounds and limits are numbers, sets are finite
where something is counted, `None` is none of the values it stands next to, a fold keeps no more than what
overflows, and an operation costs one action (`Costs = {1}`): with costs
above one `BudgetCounted` does not hold (section 5).

### What stays with TLC

Every safety property of the passing runs is a theorem. TLC alone checks the liveness
properties (`ApprovedMessageRuns`, `EveryRunEnds`, `EveryMessageEnds`), which hold under fairness and are
beyond the provers, and finds the four counterexamples of section 5. Only a run shows that the cases
a theorem is about do occur.

Proving found three things about the models, none about the code: `NoChangeLost` missed a
replacement by an equal text, in its history; `WaitingCanBeAnswered` was of single messages only because
its run had no other, and now says so; and what matters in a batch of turns was defined in a form no prover
takes, and is now defined by ranks.

## 4. Plan

1. Abstract specifications for the components that have only invariants: the memory as a map from keys to
   the facts given last, the delivery of events as a set of working sessions for each connection, each
   implemented but for the exceptions that its history names.
2. The parts of `conversation` and of `services` share no state in the model; what they share in the program
   (a switch moves the compaction, the branch head and the filter of a connection) would be a composition
   of `Compaction` and `SessionBranches` over one active session.
3. What is left to model: the rate limiter and the warm pool, neither of which the program
   uses as written; several MCP servers at start; screen automation's confirmations.

## 5. Where the code and its documentation disagree

Four are `findings` of `PROJECT.json`, with the line they contradict and the run that shows it:

* a compound message whose request is answered before it is registered is never resumed;
* a sandbox time-out cancels the handler that was to report it;
* a step whose dependency was skipped is run;
* when a connection closes, `cancel_pending_user_interactions` answers every open question with
  `None`, and `UserClient.confirm` takes anything but `False` for an approval: the mail is
  sent, the file deleted, and the approval of a directory or a command is even remembered.

The rest are in the models as the code has them, mostly as exceptions of a property or as a
nondeterministic choice, and have no run of their own.

*Permissions, tasks and plans.* Two overlapping checks can both use a once grant; the pre-check
of a resumed compound message uses up the once grant its skill was to run with; an approval
between the two halves of a session switch, or a restart, leaves session grants active
(`kernel/orchestrator.py:949`, `522`); spawns that overlap pass the concurrency limit together
(`kernel/task_manager.py:68`); the recovery after a crash commits the entries of the write-ahead
log and executes none (`kernel/orchestrator.py:531`); a re-planned plan judges results it has
already used and may turn them into failures.

*Trust budget.* `consume` does not count an operation that would go over a token limit, so
such a budget is never exhausted (`permissions/trust_budget.py:132-149`); `set_budget` moves the
start of the period and keeps what was used; periods are reset at start only
(`kernel/orchestrator.py:621`); two overlapping `set_budget` of a new permission insert two
rows, of which the check looks at the first.

*Conversation.* The flag of a fold in flight is raised by the task and not where the task is
created (`kernel/compaction.py:255`); `reset` expects the cursor to be calibrated anew (205), and
leaves it as it is, so it is not, and turns before the old cursor are never folded; nor are those the first calibration
skips (227-229); the answers of delegated, compound and resumed messages and the notes of killed tasks join
whichever session is active (section 2); a
switch to a session without a branch head loads its oldest messages, not the recent ones
(`kernel/orchestrator.py:959`); the queues share one event dict, from which a forwarder takes the
session tag (`api/routes/chat.py:193`), against the comment at `kernel/orchestrator.py:1587`, even when its own send then fails; the
error of a handler is persisted off the branch (1321-1333).

*Memory.* The pre-warmed entries are dirty, so the first flush reverts rows written past the
cache: reminders that were shown, approved directories, suggestions that were read; `mark_clean` after a flush also marks a value that arrived meanwhile; deleting a memory
leaves its cached copy; entries marked as promoted are "never evicted" until `put` replaces them.

*Services.* A nudge counts against the budget and is never shown: `kernel/proactivity.py:348`
reads `message`, and the nudge has `content`. Usage is never analysed, as
`patterns.flush` empties what the analysis reads. A recipe's cooldown counts from the boot when it
has not fired (`kernel/recipes.py:256`), and `HAS_CREDENTIAL` calls a method that the vault does not
have (340). "3 in a row" silences after 2 (`kernel/proactivity.py:20`). The MCP reconnect loop
cancels itself through `connect`, `disconnect` and `_cancel_reconnect`, and a finished loop stays
recorded, so that a later failure schedules none (`mcp/connection_manager.py:163`, `420`); overlapping
connects leave a session open. `vault.delete` passes over a failing keyring and removes the
row; a refresh that overlaps a deletion brings the credential back, and one that is
stopped before it stores loses a rotated token. `create_skill` fails with an unbound verdict when
its tokens are used up before the first audit (`skills/authoring/author.py:289-330`); two authors of one name
share a slot; `install_authored_skill` installs what a result names unaudited and unasked (`kernel/skill_executor.py:398`);
a credential stored or deleted on the page of a skill changes no routing (`api/routes/skills.py:94-125`). Revoking the last directory approves the workspace again at the next access
(`skills/files/skill.py:164-177`, under `src/`); `move` has no overwrite guard.

## 6. Not modelled, and why

`PROJECT.json` lists each component with its status, and what is left out of a partly
modelled one. Prompt building, model clients, static analysis of skill sources, desktop
capture, encryption and the frontend are data or I/O with no protocol of their own: what
they return is nondeterministic input to the models. Start-up, schema and the export scripts are
straight-line code. The gateway is never started, and what only it uses is not modelled.
