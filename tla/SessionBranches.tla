-------------------------- MODULE SessionBranches --------------------------
(***************************************************************************)
(* The rows of the sessions and messages tables (db/session_repository.py) *)
(* and the branch head that the session store keeps in memory, while the   *)
(* tasks of several messages persist their turns (kernel/orchestrator.py,  *)
(* kernel/inline_handler.py) and calls switch, fork and delete sessions.   *)
(*                                                                         *)
(* Ids are those of an AUTOINCREMENT column, 0 is NULL.  A session that    *)
(* was never forked has no head, and its messages no parents.              *)
(***************************************************************************)
EXTENDS Naturals, FiniteSets, FiniteSetsExt

CONSTANTS Sessions,   \* the sessions
          Tasks,      \* tasks that persist a turn
          Calls,      \* session calls, one each
          NoSession,  \* not a session: None
          LoadLimit   \* messages loaded by a switch (30)

VARIABLES
  live,      \* the sessions table: the sessions in it
  branch,    \* its column branch_head_id
  rows,      \* the messages table
  active,    \* session_id of the session store
  head,      \* branch_head_id of the session store
  task,      \* where a task stands, its session, and the row it inserted
  call,      \* the session calls under way
  upset      \* history: what has overlapped so far

branchVars == <<live, branch, rows, active, head, task, call, upset>>

Ids == 0..Cardinality(Tasks)
Maybe == Sessions \cup {NoSession}
Idle == [pc |-> "idle", session |-> NoSession, msg |-> 0, ids |-> {}]

BranchesTypeOK ==
  /\ live \subseteq Sessions
  /\ branch \in [Sessions -> Ids]
  /\ \A r \in rows : r.id \in Ids /\ r.session \in Sessions /\ r.parent < r.id
  /\ active \in Maybe /\ head \in Ids
  /\ task \in [Tasks -> [pc : {"none", "queued", "inserted", "advanced", "done"},
                         session : Maybe, parent : Ids, id : Ids]]
  /\ \A c \in Calls : call[c].session \in Maybe /\ call[c].msg \in Ids /\ call[c].ids \subseteq Ids
  /\ upset \subseteq {"calls", "crossed"}

Init ==
  /\ live = Sessions /\ branch = [s \in Sessions |-> 0] /\ rows = {}
  /\ active \in Maybe /\ head = 0
  /\ task = [t \in Tasks |-> [pc |-> "none", session |-> NoSession, parent |-> 0, id |-> 0]]
  /\ call = [c \in Calls |-> Idle]
  /\ upset = {}

Busy == {c \in Calls : call[c].pc \notin {"idle", "over"}}
Persisting == {t \in Tasks : task[t].pc \in {"inserted", "advanced"}}
NextId == Max({task[t].id : t \in Tasks}) + 1

-----------------------------------------------------------------------------
(* get_messages: the oldest rows of the session, or of its branch.         *)

\* The ids from a message back to the root, LoadLimit parents at most.
Branch(m) ==
  LET walk[d \in 0..LoadLimit] ==
        IF d = 0 THEN {m}
        ELSE walk[d - 1] \cup {r.parent : r \in {q \in rows : q.id \in walk[d - 1] /\ q.parent # 0}}
  IN walk[LoadLimit]

GetMessages(s, h) ==
  LET ids == {r.id : r \in {q \in rows : q.session = s /\ (h = 0 \/ q.id \in Branch(h))}}
  IN {i \in ids : Cardinality({j \in ids : j < i}) < LoadLimit}

-----------------------------------------------------------------------------
(* The tasks that persist the turns of messages.                           *)

\* The message names the session it was sent in.
Spawn(t, s) ==
  /\ task[t].pc = "none" /\ active # NoSession /\ s \in live
  /\ task' = [task EXCEPT ![t].pc = "queued", ![t].session = s]
  /\ UNCHANGED <<live, branch, rows, active, head, call, upset>>

\* The parent is the head of the session that is active when the task begins.
ParentOf(t) == head

\* add_message: its INSERT; a session that is gone violates the foreign key.
Insert(t) ==
  LET s == task[t].session IN
  /\ task[t].pc = "queued"
  /\ IF s \in live
     THEN /\ rows' = rows \cup {[id |-> NextId, session |-> s, parent |-> ParentOf(t)]}
          /\ task' = [task EXCEPT ![t] = [pc |-> "inserted", session |-> s,
                                          parent |-> ParentOf(t), id |-> NextId]]
     ELSE task' = [task EXCEPT ![t].pc = "done"] /\ UNCHANGED rows
  /\ upset' = IF s # active \/ Busy # {} \/ Persisting # {} THEN upset \cup {"crossed"} ELSE upset
  /\ UNCHANGED <<live, branch, active, head, call>>

\* The error of a handler that raised, the note of a killed task and the identity note are
\* inserted without a parent, and advance no head.
InsertPlain(t) ==
  /\ task[t].pc = "queued" /\ task[t].session \in live
  /\ rows' = rows \cup {[id |-> NextId, session |-> task[t].session, parent |-> 0]}
  /\ task' = [task EXCEPT ![t].pc = "done", ![t].id = NextId]
  /\ UNCHANGED <<live, branch, active, head, call, upset>>

\* Its UPDATE: only a message with a parent advances the head of its session.
AdvanceAlways(t) ==
  /\ task[t].pc = "inserted"
  /\ branch' = [branch EXCEPT ![task[t].session] = task[t].id]
  /\ task' = [task EXCEPT ![t].pc = "advanced"]
  /\ UNCHANGED <<live, rows, active, head, call, upset>>
Advance(t) ==
  /\ task[t].pc = "inserted"
  /\ branch' = IF task[t].parent = 0 THEN branch
               ELSE [branch EXCEPT ![task[t].session] = task[t].id]
  /\ task' = [task EXCEPT ![t].pc = "advanced"]
  /\ UNCHANGED <<live, rows, active, head, call, upset>>

\* After its commit the caller advances the head in memory, if there is one.
Return(t) ==
  /\ task[t].pc = "advanced"
  /\ task' = [task EXCEPT ![t].pc = "done"]
  /\ head' = IF head = 0 THEN 0 ELSE task[t].id
  /\ UNCHANGED <<live, branch, rows, active, call, upset>>

-----------------------------------------------------------------------------
(* Session calls; pc names what a call waits for.                          *)

Over(c) == call' = [call EXCEPT ![c] = [Idle EXCEPT !.pc = "over"]]
Take(c, rec) ==
  /\ call[c].pc = "idle"
  /\ call' = [call EXCEPT ![c] = rec]
  /\ upset' = upset \cup (IF Busy # {} THEN {"calls"} ELSE {})
                    \cup (IF Persisting # {} THEN {"crossed"} ELSE {})

\* set_session ends the grants of the session it leaves, then SELECTs the new one.
SwitchBegin(c, s) ==
  /\ Take(c, IF active \in {NoSession, s}
             THEN [Idle EXCEPT !.pc = "found", !.session = IF s \in live THEN s ELSE NoSession,
                               !.msg = branch[s]]
             ELSE [Idle EXCEPT !.pc = "ending", !.session = s])
  /\ UNCHANGED <<live, branch, rows, active, head, task>>

SwitchSelect(c) ==
  LET s == call[c].session IN
  /\ call[c].pc = "ending"
  /\ call' = [call EXCEPT ![c].pc = "found", ![c].session = IF s \in live THEN s ELSE NoSession,
                          ![c].msg = branch[s]]
  /\ UNCHANGED <<live, branch, rows, active, head, task, upset>>

SwitchRefused(c) ==
  /\ call[c].pc = "found" /\ call[c].session = NoSession
  /\ Over(c)
  /\ UNCHANGED <<live, branch, rows, active, head, task, upset>>

\* The head of the session is that of the row read, which may have moved on since.
StoredHeadKept(c) == head
StoredHead(c) == call[c].msg

SwitchFound(c) ==
  /\ call[c].pc = "found" /\ call[c].session # NoSession
  /\ active' = call[c].session /\ head' = StoredHead(c)
  /\ call' = [call EXCEPT ![c].pc = "loading", ![c].ids = GetMessages(active', head')]
  /\ UNCHANGED <<live, branch, rows, task, upset>>

\* fork_session: a message of another session raises, with no state changed.
ForkBegin(c, m) ==
  /\ active # NoSession
  /\ \E r \in rows : r.id = m /\ r.session = active
  /\ Take(c, [Idle EXCEPT !.pc = "forking", !.session = active, !.msg = m])
  /\ UNCHANGED <<live, branch, rows, active, head, task>>

ForkUpdate(c) ==
  /\ call[c].pc = "forking"
  /\ branch' = [branch EXCEPT ![call[c].session] = call[c].msg]
  /\ call' = [call EXCEPT ![c].pc = "forked"]
  /\ UNCHANGED <<live, rows, active, head, task, upset>>

\* After the commit the session may be another one: its history is what is loaded.
ForkDone(c) ==
  /\ call[c].pc = "forked"
  /\ head' = call[c].msg
  /\ call' = [call EXCEPT ![c].pc = "loading", ![c].ids = GetMessages(active, call[c].msg)]
  /\ UNCHANGED <<live, branch, rows, active, task, upset>>

\* The ids read replace the history in memory (Compaction has it).
Load(c) ==
  /\ call[c].pc = "loading"
  /\ Over(c)
  /\ UNCHANGED <<live, branch, rows, active, head, task, upset>>

\* The route that deletes a session: the messages go with it.
DeleteBegin(c, s) ==
  /\ s \in live
  /\ Take(c, [Idle EXCEPT !.pc = "deleting", !.session = s])
  /\ live' = live \ {s}
  /\ rows' = {r \in rows : r.session # s}
  /\ UNCHANGED <<branch, active, head, task>>

DeleteDone(c) ==
  /\ call[c].pc = "deleting" /\ Over(c)
  /\ active' = IF active = call[c].session THEN NoSession ELSE active
  /\ UNCHANGED <<live, branch, rows, head, task, upset>>

Next ==
  \/ \E t \in Tasks : \/ \E s \in Sessions : Spawn(t, s)
                      \/ Insert(t) \/ InsertPlain(t) \/ Advance(t) \/ Return(t)
  \/ \E c \in Calls : \/ \E s \in Sessions : SwitchBegin(c, s) \/ DeleteBegin(c, s)
                      \/ \E r \in rows : ForkBegin(c, r.id)
                      \/ SwitchSelect(c) \/ SwitchRefused(c) \/ SwitchFound(c)
                      \/ ForkUpdate(c) \/ ForkDone(c) \/ Load(c) \/ DeleteDone(c)

Spec == Init /\ [][Next]_branchVars

-----------------------------------------------------------------------------
(* The head in memory is the head of the active session's row, as long as  *)
(* session calls come one after the other and turns are persisted one by   *)
(* one, in their session: else a turn becomes the child of a message of    *)
(* another session, or two turns become siblings                           *)
(* (kernel/orchestrator.py:1336-1348, kernel/inline_handler.py:182-193).   *)
HeadsAgree ==
  (upset = {} /\ Busy = {} /\ Persisting = {} /\ active # NoSession) => head = branch[active]

(* As long as nothing of that happens, parents are of the same session.    *)
ParentsInSession ==
  upset = {} => \A r \in rows : r.parent = 0 \/ \E q \in rows : q.id = r.parent /\ q.session = r.session
=============================================================================
