---------------------------- MODULE SkillConsent ----------------------------
(***************************************************************************)
(* Skills that ask the user before they act: the files skill               *)
(* (skills/files/skill.py), the shell (skills/shell/skill.py), mail        *)
(* and calendar (skills/email/skill.py, skills/calendar/skill.py).  They   *)
(* run in process, and ask through the bridge (LocalBridge in              *)
(* skills/sandbox.py, muse_sdk/user.py), which waits on a future; the      *)
(* directories they may touch are one row of the memory, that the settings *)
(* change too (api/routes/permissions.py), the cache writes back as it was *)
(* at the start (memory/promotion.py, demotion.py), and the purge of a     *)
(* session deletes (memory/repository.py).                                 *)
(*                                                                         *)
(* A directory holds one file, and a file is the changes that are in it.   *)
(***************************************************************************)
EXTENDS Naturals, FiniteSets

CONSTANTS Tasks,      \* skill tasks, each with one operation
          Dirs, NoDir,
          Workspace,  \* the directory approved when none is
          Edits       \* changes the user makes to a file

OnTwo == {"compare", "copy", "move"}
OnFiles == {"look", "read", "info", "write", "append", "edit", "delete", "mkdir", "approve"} \cup OnTwo
\* A mail; an event, made or deleted; a command; an address or application to open.
Outward == {"send", "book", "cancel", "command", "open"}

Changes == Tasks \cup Edits
NoFile == [there |-> FALSE, has |-> {}]
Files == {NoFile} \cup [there : {TRUE}, has : SUBSET Changes]

VARIABLES
  approved,    \* the directories approved, as stored
  byTask,      \* the row that stores them was written by a task
  loaded,      \* the row as loaded at the start, if the cache is still to write it back
  trusted,     \* the command, or what is opened, is remembered as approved
  file,        \* file[d]: the file of a directory
  event,       \* the calendar event is there
  task,        \* task[t]: its operation, its directories, and what it has read
  answer,      \* answer[t]: what its future resolved to
  revoke,      \* the revocation in flight: its directory and the list it has read
  edited,      \* changes the user has made
  consent,     \* history: the answer its act went by, if it acted
  decided,     \* history: what was decided last about a directory
  crossed,     \* history: directories decided about while an older list was still to be saved
  made,        \* history: changes made to a file since it was replaced
  unseen       \* history: changes made to the file while an edit of it asked

consentVars == <<approved, byTask, loaded, trusted, file, event, task, answer, revoke, edited, consent,
                 decided, crossed, made, unseen>>

\* from: the first directory; dir: the one looked at; to: the one still to look at.
Idle == [pc |-> "idle", op |-> "none", from |-> NoDir, dir |-> NoDir, to |-> NoDir,
         list |-> {}, text |-> NoFile]
NoRevoke == [dir |-> NoDir, list |-> {}]
Replies == {"none", "yes", "no", "lost"}

ConsentTypeOK ==
  /\ approved \subseteq Dirs /\ byTask \in BOOLEAN
  /\ loaded \subseteq [list : SUBSET Dirs, byTask : BOOLEAN]
  /\ trusted \in BOOLEAN /\ event \in BOOLEAN
  /\ file \in [Dirs -> Files] /\ edited \subseteq Edits
  /\ answer \in [Tasks -> Replies] /\ consent \in [Tasks -> Replies]
  /\ \A t \in Tasks :
       /\ task[t].pc \in {"idle", "seeding", "access", "asking access", "saved", "ready", "asking whom",
                          "asking", "acting", "done"}
       /\ task[t].op \in OnFiles \cup Outward \cup {"none"}
       /\ task[t].text \in Files /\ task[t].list \subseteq Dirs
       /\ answer[t] # "none" => task[t].pc \in {"asking access", "asking whom", "asking"}

\* Whatever an earlier run left: on the first run nothing is approved.  The rows used most are
\* loaded into the cache, which takes them for changed.
Init ==
  /\ approved \in SUBSET Dirs /\ byTask \in BOOLEAN
  /\ loaded \in {{}, {[list |-> approved, byTask |-> byTask]}}
  /\ trusted = FALSE /\ event = TRUE
  /\ file \in [Dirs -> {NoFile, [NoFile EXCEPT !.there = TRUE]}]
  /\ task = [t \in Tasks |-> Idle] /\ answer = [t \in Tasks |-> "none"]
  /\ revoke = NoRevoke /\ edited = {}
  /\ consent = [t \in Tasks |-> "none"] /\ decided = [d \in Dirs |-> "none"] /\ crossed = {}
  /\ made = [d \in Dirs |-> {}] /\ unseen = [d \in Dirs |-> {}]

listVars == <<approved, byTask, loaded, revoke, decided, crossed>>
fileVars == <<file, made, unseen>>
actVars == <<trusted, event, consent>>

Ends(t) == task' = [task EXCEPT ![t] = [Idle EXCEPT !.pc = "done"]]

-----------------------------------------------------------------------------
(* The bridge: a question waits on a future.                               *)

AsksAccess(t) == task[t].pc = "asking access"
AsksAct(t) == task[t].pc = "asking"
Waits(t) == AsksAccess(t) \/ AsksAct(t) \/ task[t].pc = "asking whom"

\* respond_to_skill: the first answer counts.
Respond(t) ==
  /\ Waits(t) /\ answer[t] = "none"
  /\ \E a \in {"yes", "no"} : answer' = [answer EXCEPT ![t] = a]
  /\ UNCHANGED <<listVars, fileVars, actVars, task, edited>>

\* After two minutes the answer is no.
TimeoutAnswer == "no"

Timeout(t) ==
  /\ Waits(t) /\ answer[t] = "none"
  /\ answer' = [answer EXCEPT ![t] = TimeoutAnswer]
  /\ UNCHANGED <<listVars, fileVars, actVars, task, edited>>

\* cancel_pending_user_interactions: a connection closes, and whatever waits is answered None.
Disconnect ==
  /\ \E t \in Tasks : Waits(t) /\ answer[t] = "none"
  /\ answer' = [t \in Tasks |-> IF Waits(t) /\ answer[t] = "none" THEN "lost" ELSE answer[t]]
  /\ UNCHANGED <<listVars, fileVars, actVars, task, edited>>

\* confirm: every answer but False is consent.
Confirmed(t) == answer[t] \in {"yes", "lost"}

\* UserCancelled ends the task.
Declined(t) ==
  /\ AsksAccess(t) \/ AsksAct(t)
  /\ answer[t] = "no"
  /\ Ends(t) /\ answer' = [answer EXCEPT ![t] = "none"]
  /\ UNCHANGED <<listVars, fileVars, actVars, edited>>

KilledWaiting(t) ==
  /\ task[t].pc \notin {"idle", "done"}
  /\ Ends(t)
  /\ UNCHANGED <<listVars, fileVars, actVars, answer, edited>>

\* The task is killed, or runs into its time-out.
Killed(t) ==
  /\ task[t].pc \notin {"idle", "done"}
  /\ Ends(t) /\ answer' = [answer EXCEPT ![t] = "none"]
  /\ UNCHANGED <<listVars, fileVars, actVars, edited>>

-----------------------------------------------------------------------------
(* Access to a directory.                                                  *)

\* _get_approved_dirs: an empty list counts as none.
Look(what) == [what EXCEPT !.list = approved, !.pc = IF approved = {} THEN "seeding" ELSE "access"]

\* The parameters are known, and the list is read.
Begin(t, op, d, e) ==
  /\ task[t].pc = "idle" /\ op \in OnFiles
  /\ op \in OnTwo <=> e # NoDir
  /\ d # e
  /\ task' = [task EXCEPT ![t] = Look([Idle EXCEPT !.op = op, !.from = d, !.dir = d, !.to = e])]
  /\ UNCHANGED <<listVars, fileVars, actVars, answer, edited>>

\* The directory is in the list that was read.
Permitted(t) ==
  /\ task[t].pc = "access" /\ task[t].op # "approve" /\ task[t].dir \in task[t].list
  /\ task' = [task EXCEPT ![t].pc = "saved"]
  /\ UNCHANGED <<listVars, fileVars, actVars, answer, edited>>

AskAccess(t) ==
  /\ task[t].pc = "access" /\ task[t].op # "approve" /\ task[t].dir \notin task[t].list
  /\ task' = [task EXCEPT ![t].pc = "asking access"]
  /\ UNCHANGED <<listVars, fileVars, actVars, answer, edited>>

\* A task that holds a list it is still to save, or to seed.
Holds(t) ==
  \/ task[t].pc = "seeding"
  \/ task[t].pc \in {"access", "asking access"} /\ task[t].dir \notin task[t].list

\* An older list is still to be saved, by another task or revocation or from the cache.
Races(t) == (\E u \in Tasks \ {t} : Holds(u)) \/ revoke # NoRevoke \/ loaded # {}
RevokeRaces == (\E u \in Tasks : Holds(u)) \/ loaded # {}

Decide(d, verdict, races) ==
  /\ decided' = [decided EXCEPT ![d] = verdict]
  /\ crossed' = IF races THEN crossed \cup {d} ELSE crossed \ {d}

SavedAlone(list, d) == {d}
Saved(list, d) == list \cup {d}

\* Nothing was approved: the workspace is saved as all there is, unasked.
Seed(t) ==
  /\ task[t].pc = "seeding"
  /\ approved' = {Workspace} /\ byTask' = TRUE
  /\ crossed' = crossed \cup {Workspace}
  /\ task' = [task EXCEPT ![t].pc = "access", ![t].list = {Workspace}]
  /\ UNCHANGED <<loaded, revoke, decided, fileVars, actVars, answer, edited>>

\* _save_approved_dirs: the list that was read, and the directory.
Grant(t) ==
  /\ approved' = Saved(task[t].list, task[t].dir) /\ byTask' = TRUE
  /\ Decide(task[t].dir, "in", Races(t))

GrantAccess(t) ==
  /\ AsksAccess(t) /\ Confirmed(t) /\ Grant(t)
  /\ task' = [task EXCEPT ![t].pc = "saved"] /\ answer' = [answer EXCEPT ![t] = "none"]
  /\ consent' = [consent EXCEPT ![t] = answer[t]]
  /\ UNCHANGED <<loaded, revoke, fileVars, trusted, event, edited>>

\* The user names a directory to approve, and is not asked.
Approve(t) ==
  /\ task[t].pc = "access" /\ task[t].op = "approve"
  /\ IF task[t].dir \in task[t].list THEN UNCHANGED <<approved, byTask, decided, crossed>> ELSE Grant(t)
  /\ Ends(t)
  /\ UNCHANGED <<loaded, revoke, fileVars, actVars, answer, edited>>

\* The second directory of a copy or move, and then the operation.
Proceed(t) ==
  /\ task[t].pc = "saved"
  /\ task' = [task EXCEPT ![t] =
       IF task[t].to = NoDir THEN [@ EXCEPT !.pc = "ready"]
       ELSE Look([@ EXCEPT !.dir = task[t].to, !.to = NoDir])]
  /\ UNCHANGED <<listVars, fileVars, actVars, answer, edited>>

\* Settings: the list is read, and written without the directory.
RevokeBegin(d) ==
  /\ revoke = NoRevoke /\ approved # {}
  /\ revoke' = [dir |-> d, list |-> approved]
  /\ UNCHANGED <<approved, byTask, loaded, decided, crossed, fileVars, actVars, task, answer, edited>>

RevokeEnd ==
  /\ revoke # NoRevoke /\ revoke' = NoRevoke
  /\ approved' = revoke.list \ {revoke.dir} /\ byTask' = FALSE
  /\ Decide(revoke.dir, "out", RevokeRaces)
  /\ UNCHANGED <<loaded, fileVars, actVars, task, answer, edited>>

\* The first flush after the start writes the row back as it was loaded.
WriteBack ==
  /\ \E row \in loaded : approved' = row.list /\ byTask' = row.byTask
  /\ loaded' = {}
  /\ UNCHANGED <<revoke, decided, crossed, fileVars, actVars, task, answer, edited>>

\* It is evicted, or removed from the cache by a purge, before a flush takes it.
CopyLost ==
  /\ loaded # {} /\ loaded' = {}
  /\ UNCHANGED <<approved, byTask, revoke, decided, crossed, fileVars, actVars, task, answer, edited>>

\* A session is deleted with what its tasks wrote: the approvals are forgotten.
Purge ==
  /\ byTask /\ approved' = {} /\ byTask' = FALSE
  /\ decided' = [d \in Dirs |-> IF decided[d] = "in" THEN "none" ELSE decided[d]]
  /\ UNCHANGED <<loaded, revoke, crossed, fileVars, actVars, task, answer, edited>>

-----------------------------------------------------------------------------
(* The operations on files.                                                *)

Ready(t, op) == task[t].pc = "ready" /\ task[t].op = op
There(d) == file[d].there

\* Someone else's edit of the file waits for its answer, and holds the text it read.
BeingEdited(t, d) == \E s \in Tasks \ {t} : AsksAct(s) /\ task[s].op = "edit" /\ task[s].dir = d

\* The files become these; `new` are the changes each of them now stands for.
Store(t, files, new) ==
  LET touched(d) == files[d] # file[d] \/ new[d] # made[d]
  IN /\ file' = files /\ made' = new
     /\ unseen' = [d \in Dirs |-> IF touched(d) /\ BeingEdited(t, d) THEN unseen[d] \cup new[d] ELSE unseen[d]]

Acts(t) == consent' = [consent EXCEPT ![t] = answer[t]] /\ answer' = [answer EXCEPT ![t] = "none"]
NoAct == UNCHANGED <<consent, answer>>

Looked(t, op) ==
  /\ Ready(t, op) /\ Ends(t)
  /\ UNCHANGED <<listVars, fileVars, actVars, answer, edited>>

\* list, tree and search.
Reads(t) == Looked(t, "look")

\* A directory has information too, so it need not be there.
Info(t) == Looked(t, "info")

ReadFile(t) == Looked(t, "read") /\ There(task[t].from)

Compare(t) == Looked(t, "compare")

\* The directory is there.
MakeDir(t) == Looked(t, "mkdir")

\* A file that is there is overwritten, unasked.
Write(t) ==
  /\ Ready(t, "write") /\ Ends(t) /\ NoAct
  /\ LET d == task[t].dir IN
       Store(t, [file EXCEPT ![d] = [there |-> TRUE, has |-> {t}]], [made EXCEPT ![d] = {t}])
  /\ UNCHANGED <<listVars, trusted, event, edited>>

AppendedOnly(f, t) == [there |-> TRUE, has |-> {t}]
Appended(f, t) == [f EXCEPT !.has = @ \cup {t}]

Append(t) ==
  /\ Ready(t, "append") /\ Ends(t) /\ NoAct
  /\ LET d == task[t].dir IN
       IF There(d) THEN Store(t, [file EXCEPT ![d] = Appended(@, t)], [made EXCEPT ![d] = @ \cup {t}])
       ELSE UNCHANGED fileVars
  /\ UNCHANGED <<listVars, trusted, event, edited>>

\* edit, delete and move ask, and so does a copy onto a file; what is not there is not asked about.
Asked(t) ==
  \/ task[t].op \in {"edit", "delete", "move"} /\ There(task[t].from)
  \/ task[t].op = "copy" /\ There(task[t].from) /\ There(task[t].dir)

\* An edit takes the text with it.
AskAct(t) ==
  /\ task[t].pc = "ready" /\ Asked(t)
  /\ task' = [task EXCEPT ![t].pc = "asking",
                          ![t].text = IF task[t].op = "edit" THEN file[task[t].dir] ELSE NoFile]
  /\ UNCHANGED <<listVars, fileVars, actVars, answer, edited>>

\* Not found; for an edit, the text may not be in the file either.
Missing(t) ==
  /\ task[t].pc = "ready" /\ task[t].op \in {"read", "edit", "delete", "copy", "move"}
  /\ ~There(task[t].from) \/ task[t].op = "edit"
  /\ Ends(t)
  /\ UNCHANGED <<listVars, fileVars, actVars, answer, edited>>

Allowed(t, op) == AsksAct(t) /\ task[t].op = op /\ Confirmed(t)

\* The text read before the question is written, changed.
Edit(t) ==
  /\ Allowed(t, "edit") /\ Ends(t) /\ Acts(t)
  /\ LET d == task[t].dir IN
       Store(t, [file EXCEPT ![d] = [there |-> TRUE, has |-> task[t].text.has \cup {t}]],
             [made EXCEPT ![d] = @ \cup {t}])
  /\ UNCHANGED <<listVars, trusted, event, edited>>

\* The file may be gone by now, which fails.
Delete(t) ==
  /\ Allowed(t, "delete") /\ Ends(t) /\ Acts(t)
  /\ LET d == task[t].dir IN Store(t, [file EXCEPT ![d] = NoFile], [made EXCEPT ![d] = {}])
  /\ UNCHANGED <<listVars, trusted, event, edited>>

Copy(t) ==
  /\ \/ Ready(t, "copy") /\ There(task[t].from) /\ ~There(task[t].dir) /\ NoAct
     \/ Allowed(t, "copy") /\ Acts(t)
  /\ Ends(t)
  /\ LET d == task[t].from   e == task[t].dir IN
       IF There(d) THEN Store(t, [file EXCEPT ![e] = file[d]], [made EXCEPT ![e] = file[d].has])
       ELSE UNCHANGED fileVars
  /\ UNCHANGED <<listVars, trusted, event, edited>>

\* A file at the destination is replaced.
Move(t) ==
  /\ Allowed(t, "move") /\ Ends(t) /\ Acts(t)
  /\ LET d == task[t].from   e == task[t].dir IN
       IF There(d) THEN Store(t, [file EXCEPT ![e] = file[d], ![d] = NoFile],
                              [made EXCEPT ![e] = file[d].has, ![d] = {}])
       ELSE UNCHANGED fileVars
  /\ UNCHANGED <<listVars, trusted, event, edited>>

\* The user changes a file, in an editor.
UserEdits(u, d) ==
  /\ u \notin edited /\ There(d)
  /\ edited' = edited \cup {u} /\ NoAct
  /\ Store(u, [file EXCEPT ![d].has = @ \cup {u}], [made EXCEPT ![d] = @ \cup {u}])
  /\ UNCHANGED <<listVars, task, trusted, event>>

-----------------------------------------------------------------------------
(* Mail, calendar and commands.                                            *)

Drafted(t, op, pc) ==
  /\ task[t].pc = "idle"
  /\ task' = [task EXCEPT ![t] = [Idle EXCEPT !.pc = pc, !.op = IF pc = "done" THEN @ ELSE op]]
  /\ UNCHANGED <<listVars, fileVars, actVars, answer, edited>>

\* A mail without a recipient asks for it first.
DraftMail(t) == \E pc \in {"asking whom", "asking"} : Drafted(t, "send", pc)

\* Every answer but an empty one names a recipient, a lost one too ("None").
Recipient(t) ==
  /\ task[t].pc = "asking whom" /\ answer[t] # "none"
  /\ IF answer[t] = "no" THEN Ends(t) ELSE task' = [task EXCEPT ![t].pc = "asking"]
  /\ answer' = [answer EXCEPT ![t] = "none"]
  /\ UNCHANGED <<listVars, fileVars, actVars, edited>>

DraftEvent(t) == Drafted(t, "book", "asking")

\* The event was found.
DraftCancel(t) == event /\ Drafted(t, "cancel", "asking")

\* _is_approved: what was approved before is not asked about.
Asks == IF trusted THEN "acting" ELSE "asking"

\* _classify_command: some commands are refused.  (One that only reads is remembered by its
\* first word, any other by its first fifty characters.)
Fates == {"done", Asks}

DraftCommand(t) == \E pc \in Fates : Drafted(t, "command", pc)

\* What to open may not be clear, or not be there.
DraftOpen(t) == \E pc \in {"done", Asks} : Drafted(t, "open", pc)

\* _approve: it is remembered, and then run or opened.
Trust(t) ==
  /\ Allowed(t, "command") \/ Allowed(t, "open")
  /\ Acts(t)
  /\ trusted' = TRUE /\ task' = [task EXCEPT ![t].pc = "acting"]
  /\ UNCHANGED <<listVars, fileVars, event, edited>>

Performs(t, op) ==
  /\ task[t].pc = "acting" /\ task[t].op = op /\ Ends(t)
  /\ UNCHANGED <<listVars, fileVars, actVars, answer, edited>>

RunCommand(t) == Performs(t, "command")

\* An application is looked for by its name.
Launch(t) == Performs(t, "open")

Send(t) ==
  /\ Allowed(t, "send") /\ Ends(t) /\ Acts(t)
  /\ UNCHANGED <<listVars, fileVars, trusted, event, edited>>

\* The service may fail.
Book(t) ==
  /\ Allowed(t, "book") /\ Ends(t) /\ Acts(t)
  /\ event' \in {event, TRUE}
  /\ UNCHANGED <<listVars, fileVars, trusted, edited>>

Cancel(t) ==
  /\ Allowed(t, "cancel") /\ Ends(t) /\ Acts(t)
  /\ event' \in {event, FALSE}
  /\ UNCHANGED <<listVars, fileVars, trusted, edited>>

-----------------------------------------------------------------------------
Bridge(t) == Respond(t) \/ Timeout(t) \/ Declined(t) \/ Killed(t)
Access(t) ==
  \/ \E op \in OnFiles, d \in Dirs, e \in Dirs \cup {NoDir} : Begin(t, op, d, e)
  \/ Seed(t) \/ Permitted(t) \/ AskAccess(t) \/ GrantAccess(t) \/ Approve(t) \/ Proceed(t)
OnFile(t) ==
  \/ Reads(t) \/ ReadFile(t) \/ Info(t) \/ Compare(t) \/ MakeDir(t) \/ Write(t) \/ Append(t)
  \/ AskAct(t) \/ Missing(t) \/ Edit(t) \/ Delete(t) \/ Copy(t) \/ Move(t)
Outwards(t) ==
  \/ DraftMail(t) \/ Recipient(t) \/ DraftEvent(t) \/ DraftCancel(t) \/ DraftCommand(t)
  \/ DraftOpen(t) \/ Trust(t) \/ RunCommand(t) \/ Launch(t) \/ Send(t) \/ Book(t) \/ Cancel(t)

Next ==
  \/ \E t \in Tasks : Bridge(t) \/ Access(t) \/ OnFile(t) \/ Outwards(t)
  \/ Disconnect
  \/ \E d \in Dirs : RevokeBegin(d) \/ \E u \in Edits : UserEdits(u, d)
  \/ RevokeEnd \/ WriteBack \/ CopyLost \/ Purge

Spec == Init /\ [][Next]_consentVars

-----------------------------------------------------------------------------
(* A directory the user approved is approved, and one the user revoked is  *)
(* not, until it is decided about again or the approvals are purged,       *)
(* whatever reads, asks and saves the list later.  Only a decision taken   *)
(* while an older list was still to be saved may be undone: one that       *)
(* another task or the settings had read, or the one loaded into the cache *)
(* at the start; and the workspace is approved again once nothing is       *)
(* (skills/files/skill.py:164-216, api/routes/permissions.py:91-107,       *)
(* memory/promotion.py:54-75, memory/demotion.py:218-251).                 *)
DirectoriesKept ==
  \A d \in Dirs \ crossed :
    /\ decided[d] = "in" => d \in approved
    /\ decided[d] = "out" => d \notin approved

(* A change made to a file, by a skill or by the user, is in the file      *)
(* until the file is overwritten, moved or deleted, unless an edit asked   *)
(* about the file when the change was made: it writes the text it read     *)
(* before it asked (skills/files/skill.py:678-757).                        *)
NoChangeLost == \A d \in Dirs : made[d] \ unseen[d] \subseteq file[d].has

(* What a skill confirmed with the user, the user approved                 *)
(* (muse_sdk/user.py:36-39).                                               *)
ConfirmedIsApproved == \A t \in Tasks : consent[t] \in {"none", "yes"}
=============================================================================
