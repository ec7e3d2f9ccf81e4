----------------------------- MODULE Compaction -----------------------------
(***************************************************************************)
(* The history of the active session and its compaction into a running     *)
(* summary (kernel/compaction.py, kernel/session_store.py), while messages *)
(* are answered in the background (kernel/inline_handler.py) and calls     *)
(* switch, create, fork and delete sessions (kernel/orchestrator.py), and  *)
(* the user kills tasks and denies permissions.                            *)
(*                                                                         *)
(* A turn is a message and a role; a summary is the set of turns merged    *)
(* into it.  The messages table is the turns persisted for each session in *)
(* their order; SessionBranches has its rows.                              *)
(***************************************************************************)
EXTENDS Naturals, Sequences, SequencesExt

CONSTANTS Sessions,   \* the sessions
          Messages,   \* the messages of the user, each with its background handler
          Minor,      \* messages whose answer scores "none" or "low"
          Calls,      \* calls that switch, create or fork, one each
          NoSession,  \* not a session: None
          Window,     \* raw_window_size
          Batch,      \* fold_batch_size
          Interval,   \* checkpoint_interval
          Overflow,   \* pending turns kept in structural mode (20)
          Keep,       \* of which an overflow leaves the last (10)
          LoadLimit   \* messages loaded by a switch or fork (30)

\* A note tells of a task killed or a permission denied while a message was handled.
Turns == [by : Messages, role : {"user", "assistant", "note"}]
Maybe == Sessions \cup {NoSession}

VARIABLES
  table,      \* the sessions table
  log,        \* log[s]: the turns persisted for a session
  archive,    \* conversation_archive, in order of creation
  active,     \* session_id of the session store
  history,    \* conversation_history
  comp,       \* the state of the CompactionManager
  folds,      \* folds between their request to the model and its answer
  spawned,    \* tasks created and not begun: folds and checkpoints
  saving,     \* checkpoints between their INSERT and the reset of the counter
  handler,    \* where the handler of a message stands, and its frozen session
  unsaved,    \* turns whose task has not persisted them yet
  call,       \* the session calls under way
  structural, \* structural_only, fixed by the configuration
  since,      \* history: the cursor when the history was replaced, or its calibration
  cut,        \* history: turns a summary that was too long has lost since the last reset
  upset       \* history: what has overlapped so far

compactionVars == <<table, log, archive, active, history, comp, folds, spawned, saving, handler,
                    unsaved, call, structural, since, cut, upset>>
manager == <<comp, folds, spawned, saving, since, cut>>

Idle == [pc |-> "idle", kind |-> "none", session |-> NoSession, rows |-> <<>>, seen |-> 0]

CompactionTypeOK ==
  /\ table \in [Sessions -> {"new", "live", "gone"}]
  /\ log \in [Sessions -> Seq(Turns)]
  /\ \A i \in DOMAIN archive : archive[i].session \in Sessions /\ archive[i].summary \subseteq Turns
  /\ active \in Maybe
  /\ history \in Seq(Turns)
  /\ comp \in [session : Maybe, summary : SUBSET Turns, pending : Seq(Turns), cursor : Nat,
               counter : Nat, folding : BOOLEAN]
  /\ \A f \in folds : f.base \subseteq Turns /\ f.batch \in Seq(Turns)
  /\ spawned \in [folds : Nat, saves : Nat] /\ saving \in Nat
  /\ handler \in [Messages -> [pc : {"idle", "thinking", "denying", "noted", "done"},
                              session : Maybe, pinned : BOOLEAN]]
  /\ unsaved \subseteq Turns
  /\ \A c \in Calls : call[c].rows \in Seq(Turns) /\ call[c].session \in Maybe
  /\ since \in Nat /\ since <= comp.cursor /\ cut \subseteq Turns
  /\ upset \subseteq {"calls", "folds", "carried"}

Init ==
  /\ table \in [Sessions -> {"new", "live"}]
  /\ log = [s \in Sessions |-> <<>>] /\ archive = <<>>
  /\ active = NoSession /\ history = <<>>
  /\ comp = [session |-> NoSession, summary |-> {}, pending |-> <<>>, cursor |-> 0,
             counter |-> 0, folding |-> FALSE]
  /\ folds = {} /\ spawned = [folds |-> 0, saves |-> 0] /\ saving = 0
  /\ handler = [m \in Messages |-> [pc |-> "idle", session |-> NoSession, pinned |-> TRUE]]
  /\ unsaved = {} /\ call = [c \in Calls |-> Idle]
  /\ structural \in BOOLEAN
  /\ since = 0 /\ cut = {} /\ upset = {}

Busy == {c \in Calls : call[c].pc \notin {"idle", "over"}}

-----------------------------------------------------------------------------
(* The CompactionManager.                                                  *)

\* reset: the cursor stays, and a fold in flight is not told.
Reset(s, summary) ==
  /\ comp' = [comp EXCEPT !.session = s, !.summary = summary, !.pending = <<>>,
                          !.counter = 0, !.folding = FALSE]
  /\ since' = comp.cursor /\ cut' = {}
  /\ upset' = IF folds = {} /\ spawned.folds = 0 THEN upset ELSE upset \cup {"carried"}
  /\ UNCHANGED <<folds, spawned, saving>>

\* structural_compact and score_importance leave out what they find of little value.
Matters(t) == t.role \in {"user", "note"} \/ t.by \notin Minor
Important(turns) ==
  LET kept == {i \in DOMAIN turns : Matters(turns[i])}
  IN [k \in 1..Cardinality(kept) |-> turns[CHOOSE i \in kept : Cardinality({j \in kept : j <= i}) = k]]

\* incremental_compact of the history given; nothing in it suspends.  The cursor is calibrated by
\* moving it past the turns before the window; a structural summary that is too long is cut.
Compact(turns) ==
  LET boundary == IF Len(turns) > Window THEN Len(turns) - Window ELSE 0
      out == SubSeq(turns, comp.cursor + 1, boundary)
      pending == comp.pending \o Important(out)
      over == structural /\ Len(pending) > Overflow
      first == IF over THEN SubSeq(pending, 1, Len(pending) - Keep) ELSE <<>>
      fold == ~structural /\ ~comp.folding /\ Len(pending) >= Batch
      counter == comp.counter + Len(out)
  IN CASE comp.cursor = 0 /\ boundary > 0 ->
            comp' = [comp EXCEPT !.cursor = boundary] /\ since' = boundary /\ UNCHANGED <<spawned, cut>>
       [] comp.cursor > 0 /\ boundary > comp.cursor ->
            /\ \E kept \in IF over THEN SUBSET (comp.summary \cup ToSet(first)) ELSE {comp.summary} :
                 /\ comp' = [comp EXCEPT
                      !.cursor = boundary, !.counter = counter, !.summary = kept,
                      !.pending = SubSeq(pending, Len(first) + 1, Len(pending))]
                 /\ cut' = cut \cup ((comp.summary \cup ToSet(first)) \ kept)
            /\ spawned' = [folds |-> spawned.folds + IF fold THEN 1 ELSE 0,
                           saves |-> spawned.saves + IF counter >= Interval THEN 1 ELSE 0]
            /\ UNCHANGED since
       [] OTHER -> UNCHANGED <<comp, spawned, since, cut>>

\* _llm_fold_async, up to the model call: the flag is raised only now.
FoldBegin ==
  /\ spawned.folds > 0
  /\ spawned' = [spawned EXCEPT !.folds = @ - 1]
  /\ IF comp.pending = <<>>
     THEN UNCHANGED <<comp, folds, upset>>
     ELSE /\ folds' = folds \cup {[base |-> comp.summary, batch |-> comp.pending]}
          /\ comp' = [comp EXCEPT !.pending = <<>>, !.folding = TRUE]
          /\ upset' = IF folds = {} THEN upset ELSE upset \cup {"folds"}
  /\ UNCHANGED <<table, log, archive, active, history, saving, handler, unsaved, call, structural,
                 since, cut>>

\* The model answers: its text replaces the summary.
FoldMerge(f) == comp' = [comp EXCEPT !.summary = f.base \cup ToSet(f.batch), !.folding = FALSE]

\* It fails: the batch is retried with the next one.
FoldFailDropsBatch(f) == comp' = [comp EXCEPT !.folding = FALSE]
FoldFail(f) == comp' = [comp EXCEPT !.pending = f.batch \o @, !.folding = FALSE]

FoldEnd(f) ==
  /\ folds' = folds \ {f}
  /\ FoldMerge(f) \/ FoldFail(f)
  /\ UNCHANGED <<table, log, archive, active, history, spawned, saving, handler, unsaved, call,
                 structural, since, cut, upset>>

\* _save_checkpoint_async, up to its INSERT, and the reset of the counter after it.
SaveBegin ==
  /\ spawned.saves > 0
  /\ spawned' = [spawned EXCEPT !.saves = @ - 1]
  /\ IF comp.session = NoSession \/ comp.summary = {}
     THEN UNCHANGED <<archive, saving>>
     ELSE /\ archive' = Append(archive, [session |-> comp.session, summary |-> comp.summary])
          /\ saving' = saving + 1
  /\ UNCHANGED <<table, log, active, history, comp, folds, handler, unsaved, call, structural,
                 since, cut, upset>>

SaveEnd ==
  /\ saving > 0
  /\ saving' = saving - 1
  /\ comp' = [comp EXCEPT !.counter = 0]
  /\ UNCHANGED <<table, log, archive, active, history, folds, spawned, handler, unsaved, call,
                 structural, since, cut, upset>>

-----------------------------------------------------------------------------
(* Messages.                                                               *)

\* The socket pins the message to its session, and the task persists the question.  The session is
\* not handed on to compound requests, plans, identity edits and messages resumed after an approval.
Begin(m, s, pinned) ==
  /\ handler[m].pc = "idle" /\ active # NoSession /\ table[s] = "live"
  /\ handler' = [handler EXCEPT ![m] = [pc |-> "thinking", session |-> s, pinned |-> pinned]]
  /\ unsaved' = unsaved \cup {[by |-> m, role |-> "user"]}
  /\ UNCHANGED <<table, log, archive, active, history, manager, call, structural, upset>>

\* The answer joins the history if its session is still the active one, or is not known.
JoinsAlways(m) == TRUE
Joins(m) == ~handler[m].pinned \/ handler[m].session = active

\* It is persisted by a task, but for the results of compound requests and plans; the error of a
\* task that failed joins without a compaction.
Answer(m) ==
  LET turn == [by |-> m, role |-> "assistant"] IN
  /\ handler[m].pc = "thinking"
  /\ handler' = [handler EXCEPT ![m].pc = "done"]
  /\ IF Joins(m)
     THEN /\ history' = Append(history, turn)
          /\ Compact(history') \/ UNCHANGED <<comp, spawned, since, cut>>
     ELSE UNCHANGED <<history, comp, spawned, since, cut>>
  /\ unsaved' = unsaved \cup {turn} \/ (~handler[m].pinned /\ UNCHANGED unsaved)
  /\ UNCHANGED <<table, log, archive, active, folds, saving, call, structural, upset>>

\* What is persisted without a session goes to the one that is active by then.
Home(t) == IF t.role = "assistant" /\ ~handler[t.by].pinned THEN active ELSE handler[t.by].session
Logged(s, t) == IF s # NoSession /\ table[s] = "live" THEN [log EXCEPT ![s] = Append(@, t)] ELSE log

Persist(t) ==
  /\ unsaved' = unsaved \ {t}
  /\ log' = Logged(Home(t), t)
  /\ UNCHANGED <<table, archive, active, history, manager, handler, call, structural, upset>>

\* kill_task and deny: the note joins whatever history is in memory and the active session's rows;
\* that of a task that took too long, the rows only.  A denial compacts the history once the row is
\* written.
Note(m, pc, joins) ==
  LET turn == [by |-> m, role |-> "note"] IN
  /\ handler[m].pc = "thinking"
  /\ handler' = [handler EXCEPT ![m].pc = pc]
  /\ history' = IF joins THEN Append(history, turn) ELSE history
  /\ log' = Logged(active, turn)
  /\ UNCHANGED <<table, archive, active, manager, unsaved, call, structural, upset>>

Kill(m) == Note(m, "noted", TRUE)
Deny(m) == Note(m, "denying", TRUE)
TimeOut(m) == Note(m, "noted", FALSE)

DenyEnd(m) ==
  /\ handler[m].pc = "denying"
  /\ handler' = [handler EXCEPT ![m].pc = "noted"]
  /\ Compact(history)
  /\ UNCHANGED <<table, log, archive, active, history, folds, saving, unsaved, call, structural, upset>>

-----------------------------------------------------------------------------
(* Session calls; pc names what a call waits for.                          *)

CallBegin(c, kind, s) ==
  /\ call[c].pc = "idle"
  /\ CASE kind = "fork" -> active # NoSession /\ s = NoSession
       [] kind = "create" -> s \in Sessions /\ table[s] = "new"
       [] OTHER -> s \in Sessions /\ table[s] = "live"
  /\ table' = CASE kind = "create" -> [table EXCEPT ![s] = "live"]
                [] kind = "delete" -> [table EXCEPT ![s] = "gone"]
                [] OTHER -> table
  /\ call' = [call EXCEPT ![c] = [Idle EXCEPT !.pc = "begun", !.kind = kind, !.session = s]]
  /\ upset' = IF Busy # {} THEN upset \cup {"calls"} ELSE upset
  /\ UNCHANGED <<log, archive, active, history, manager, handler, unsaved, structural>>

\* The messages of a branch, or the first ones: at most LoadLimit.
Loadable(s) == IF s = NoSession THEN {<<>>}
               ELSE {SubSeq(log[s], 1, k) : k \in {n \in 0..Len(log[s]) : n <= LoadLimit}}

\* set_session has its row (of a session deleted since, it may have read it before): the
\* session changes, the history is asked for.
SwitchFound(c) ==
  /\ call[c].pc = "begun" /\ call[c].kind = "switch"
  /\ active' = call[c].session
  /\ \E rows \in Loadable(call[c].session) :
       call' = [call EXCEPT ![c].pc = "loading", ![c].rows = rows]
  /\ UNCHANGED <<table, log, archive, history, manager, handler, unsaved, structural, upset>>

\* fork_session has set the head: it asks for the history of the session active now.
ForkFound(c) ==
  /\ call[c].pc = "begun" /\ call[c].kind = "fork"
  /\ \E rows \in Loadable(active) :
       call' = [call EXCEPT ![c].pc = "loading", ![c].rows = rows]
  /\ UNCHANGED <<table, log, archive, active, history, manager, handler, unsaved, structural, upset>>

\* The history is replaced, the checkpoint asked for.
Load(c) ==
  /\ call[c].pc = "loading"
  /\ history' = call[c].rows /\ since' = comp.cursor
  /\ call' = [call EXCEPT ![c].pc = "restoring", ![c].seen = Len(archive)]
  /\ UNCHANGED <<table, log, archive, active, comp, folds, spawned, saving, cut, handler, unsaved,
                 structural, upset>>

Checkpoints(s, n) == {archive[i].summary : i \in {j \in 1..n : archive[j].session = s}}
Latest(s, n) ==
  IF Checkpoints(s, n) = {} THEN {}
  ELSE archive[CHOOSE i \in 1..n : /\ archive[i].session = s
                                   /\ \A j \in 1..n : archive[j].session = s => j <= i].summary

Over(c) == call' = [call EXCEPT ![c] = [Idle EXCEPT !.pc = "over"]]

\* Forking takes the checkpoint that is not younger than its message.
Restore(c) ==
  /\ call[c].pc = "restoring"
  /\ IF call[c].kind = "switch"
     THEN Reset(call[c].session, Latest(call[c].session, call[c].seen))
     ELSE \E summary \in Checkpoints(active, call[c].seen) \cup {{}} : Reset(active, summary)
  /\ Over(c)
  /\ UNCHANGED <<table, log, archive, active, history, handler, unsaved, structural>>

\* create_session, after its INSERT.
Create(c) ==
  /\ call[c].pc = "begun" /\ call[c].kind = "create"
  /\ active' = call[c].session /\ history' = <<>>
  /\ Reset(call[c].session, {})
  /\ Over(c)
  /\ UNCHANGED <<table, log, archive, handler, unsaved, structural>>

\* The route that deletes the active session, after its DELETE.
Clear(c) ==
  /\ call[c].pc = "begun" /\ call[c].kind = "delete"
  /\ IF active = call[c].session
     THEN active' = NoSession /\ history' = <<>> /\ since' = comp.cursor
     ELSE UNCHANGED <<active, history, since>>
  /\ Over(c)
  /\ UNCHANGED <<table, log, archive, comp, folds, spawned, saving, cut, handler, unsaved,
                 structural, upset>>

Next ==
  \/ FoldBegin \/ SaveBegin \/ SaveEnd
  \/ \E f \in folds : FoldEnd(f)
  \/ \E m \in Messages : \/ Answer(m) \/ Kill(m) \/ Deny(m) \/ DenyEnd(m) \/ TimeOut(m)
                         \/ \E s \in Sessions, pinned \in BOOLEAN : Begin(m, s, pinned)
  \/ \E t \in unsaved : Persist(t)
  \/ \E c \in Calls : \/ \E kind \in {"switch", "create", "fork", "delete"}, s \in Maybe :
                           CallBegin(c, kind, s)
                      \/ SwitchFound(c) \/ ForkFound(c) \/ Load(c) \/ Restore(c)
                      \/ Create(c) \/ Clear(c)

Spec == Init /\ [][Next]_compactionVars

-----------------------------------------------------------------------------
(* Every turn that matters between the place where folding began and the   *)
(* cursor is in the summary, on its way into it, or waits for it.  It is   *)
(* lost in three ways only: a fold reads the summary while another is in   *)
(* flight, or outlives the session it was begun for, or a structural       *)
(* summary is cut (kernel/compaction.py:255, 302-351, 198-205, 277-279).   *)
(* Nothing is promised of the turns before that place: calibration skips   *)
(* those that have left the window by then (227-229), and a cursor that    *)
(* reset() keeps those of the next history (198-205).                      *)
Remembered == comp.summary \cup ToSet(comp.pending) \cup cut \cup UNION {ToSet(f.batch) : f \in folds}

NoTurnForgotten ==
  upset \cap {"folds", "carried"} = {} =>
    \A i \in DOMAIN history : since < i /\ i <= comp.cursor /\ Matters(history[i])
                               => history[i] \in Remembered

(* When session calls come one after the other, what is in memory belongs  *)
(* to the active session once they are done, whatever the handlers of      *)
(* other sessions did meanwhile (kernel/orchestrator.py:947-1024): all but *)
(* notes and the answers given without a session, which join whatever is   *)
(* active (kernel/skill_dispatcher.py:353, kernel/plan_executor.py:782,    *)
(* 848, kernel/inline_handler.py:234, kernel/permission_gate.py:92-120,    *)
(* kernel/orchestrator.py:1545).                                           *)
Strays(t) == t.role = "note" \/ (t.role = "assistant" /\ ~handler[t.by].pinned)

MemoryOfActiveSession ==
  ("calls" \notin upset /\ Busy = {} /\ active # NoSession) =>
    /\ comp.session = active
    /\ \A i \in DOMAIN history : Strays(history[i]) \/ handler[history[i].by].session = active
=============================================================================
