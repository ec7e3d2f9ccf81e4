---------------------------- MODULE Skills_proofs ---------------------------
(***************************************************************************)
(* Skills that ask, credentials, authored skills and budgets, for any sets *)
(* of tasks, directories, authorizations and names, and any limits.        *)
(***************************************************************************)
EXTENDS Services_proofs, SequenceTheorems

-----------------------------------------------------------------------------
(* The files and shell skills (skills/files/skill.py, muse_sdk/user.py):   *)
(* what a task has read before it asks is what it writes back after.       *)

MaybeDirs == Dirs \cup {None}
OnList == {"seeding", "access", "asking access", "saved", "ready"}
AskedPc == {"asking access", "asking whom", "asking"}
TaskPcs == OnList \cup AskedPc \cup {"idle", "acting", "done"}
TaskRecords == [pc : TaskPcs, op : F!OnFiles \cup F!Outward \cup {"none"}, from : MaybeDirs, dir : MaybeDirs, to : MaybeDirs,
                list : SUBSET Dirs, text : F!Files]

\* A task with an operation on files knows its directories.
GoodTasks ==
  {r \in TaskRecords : /\ r.pc \in OnList => r.op \in F!OnFiles
                       /\ r.pc = "asking whom" => r.op \notin F!OnFiles
                       /\ r.pc = "seeding" => r.list = {}
                       /\ r.pc = "asking access" => r.dir \notin r.list
                       /\ r.op \in F!OnFiles /\ r.pc \notin {"idle", "done"} => r.from \in Dirs /\ r.dir \in Dirs}

ConsentTypes ==
  /\ approved \in SUBSET Dirs /\ byTask \in BOOLEAN
  /\ loaded \in SUBSET [list : SUBSET Dirs, byTask : BOOLEAN]
  /\ trusted \in BOOLEAN /\ event \in BOOLEAN
  /\ file \in [Dirs -> F!Files] /\ edited \in SUBSET Edits
  /\ answer \in [Tasks -> F!Replies] /\ consent \in [Tasks -> F!Replies]
  /\ task \in [Tasks -> GoodTasks]
  /\ made \in [Dirs -> SUBSET F!Changes] /\ unseen \in [Dirs -> SUBSET F!Changes]
  /\ decided \in [Dirs -> {"none", "in", "out"}]
  /\ revoke \in {F!NoRevoke} \cup [dir : Dirs, list : SUBSET Dirs]

AnswerInv == \A t \in Tasks : answer[t] # "none" => task[t].pc \in AskedPc

\* The text an edit took with it has every change made since, but for those it could not see.
Editing(t) == task[t].pc = "asking" /\ task[t].op = "edit"
EditInv ==
  \A t \in Tasks : Editing(t) => made[task[t].dir] \ unseen[task[t].dir] \subseteq task[t].text.has

\* A list that is as the user decided, but for what is crossed.
Agrees(list) ==
  \A d \in Dirs \ crossed : (decided[d] = "in" => d \in list) /\ (decided[d] = "out" => d \notin list)

\* A task that is still to save its list; Holds(t) says this of task[t].
Holder(r) == r.pc = "seeding" \/ (r.pc \in {"access", "asking access"} /\ r.dir \notin r.list)

\* Not only the list that is stored: every list that may yet be saved agrees with the user.
ListInv ==
  /\ Agrees(approved)
  /\ \A t \in Tasks : Holder(task[t]) => Agrees(task[t].list)
  /\ revoke # F!NoRevoke => Agrees(revoke.list)
  /\ \A held \in loaded : Agrees(held.list)

ConsentInv == ConsentTypes /\ AnswerInv /\ EditInv /\ ListInv /\ F!NoChangeLost

ConsentAssumption == None \notin Dirs /\ Workspace \in Dirs /\ Tasks \cap Edits = {}

LEMMA FilesAre ==
  /\ F!NoFile \in F!Files /\ F!NoFile.has = {} /\ ~F!NoFile.there
  /\ \A f \in F!Files : f.has \in SUBSET F!Changes
  /\ \A has \in SUBSET F!Changes : [there |-> TRUE, has |-> has] \in F!Files
  /\ \A f \in F!Files, t \in F!Changes : f.there =>
       [f EXCEPT !.has = f.has \cup {t}] \in F!Files /\ [f EXCEPT !.has = f.has \cup {t}].has = f.has \cup {t}
<1>1. \A f \in F!Files : f = F!NoFile \/ f \in [there : {TRUE}, has : SUBSET F!Changes]
  BY DEF F!Files
<1>2. F!NoFile \in F!Files /\ F!NoFile.has = {} /\ ~F!NoFile.there
  BY DEF F!NoFile, F!Files
<1>3. [there : {TRUE}, has : SUBSET F!Changes] \subseteq F!Files
  BY DEF F!Files
<1>4. \A f \in F!Files, t \in F!Changes : f.there =>
        [f EXCEPT !.has = f.has \cup {t}] \in F!Files /\ [f EXCEPT !.has = f.has \cup {t}].has = f.has \cup {t}
  <2> SUFFICES ASSUME NEW f \in F!Files, NEW t \in F!Changes, f.there
               PROVE  [f EXCEPT !.has = f.has \cup {t}] \in F!Files /\ [f EXCEPT !.has = f.has \cup {t}].has = f.has \cup {t}
    OBVIOUS
  <2>1. f \in [there : {TRUE}, has : SUBSET F!Changes]
    BY <1>1, <1>2
  <2>2. [f EXCEPT !.has = f.has \cup {t}] \in [there : {TRUE}, has : SUBSET F!Changes]
    BY <2>1
  <2> QED BY <1>3, <2>1, <2>2
<1> QED BY <1>1, <1>2, <1>3, <1>4

LEMMA InitConsent ==
  ASSUME ConsentAssumption, F!Init
  PROVE  ConsentInv
<1>1. F!NoFile \in F!Files /\ [F!NoFile EXCEPT !.there = TRUE] \in F!Files
  BY DEF F!NoFile, F!Files
<1>2. F!Idle \in GoodTasks /\ F!Idle.pc = "idle"
  BY <1>1 DEF F!Idle, GoodTasks, TaskRecords, TaskPcs, MaybeDirs, OnList
<1>3. ConsentTypes
  <2>1. loaded \in SUBSET [list : SUBSET Dirs, byTask : BOOLEAN]
    BY DEF F!Init
  <2>2. file \in [Dirs -> F!Files]
    BY <1>1 DEF F!Init
  <2> QED BY <1>2, <2>1, <2>2 DEF F!Init, ConsentTypes, F!Replies
<1>4. AnswerInv /\ EditInv /\ F!NoChangeLost
  BY <1>2 DEF F!Init, AnswerInv, EditInv, Editing, F!NoChangeLost
<1>5. ListInv
  <2>1. \A list : Agrees(list)
    BY DEF F!Init, Agrees
  <2> QED BY <2>1 DEF ListInv
<1> QED BY <1>3, <1>4, <1>5 DEF ConsentInv

LEMMA ConsentProperties ==
  ASSUME ConsentInv
  PROVE  F!DirectoriesKept /\ F!NoChangeLost /\ F!ConsentTypeOK
<1>1. \A t \in Tasks : task[t] \in TaskRecords
  BY DEF ConsentInv, ConsentTypes, GoodTasks
<1>2. F!ConsentTypeOK
  BY <1>1 DEF ConsentInv, ConsentTypes, AnswerInv, F!ConsentTypeOK, TaskRecords, TaskPcs, OnList,
     AskedPc
<1>3. F!DirectoriesKept
  BY DEF ConsentInv, ListInv, Agrees, F!DirectoriesKept
<1> QED BY <1>2, <1>3 DEF ConsentInv

-----------------------------------------------------------------------------
(* What steps do to the invariant, by what they change.                    *)

\* The text that is being edited, in the task and in the file.
Keeps(r, s) ==
  r.pc = "asking" /\ r.op = "edit" => (s.pc = "asking" /\ s.op = "edit" /\ r.dir = s.dir /\ r.text = s.text)
                                      \/ (r.dir \in Dirs /\ r.text = file[r.dir])

\* What no list can tell: nothing is decided, and what a task takes with it agrees.
LEMMA ListKept ==
  ASSUME ConsentInv, UNCHANGED F!listVars,
         \A s \in Tasks : task'[s] = task[s] \/ (Holder(task'[s]) => Agrees(task'[s].list))
  PROVE  ListInv'
BY DEF ConsentInv, ListInv, Agrees, Holder, F!listVars

\* One task goes on, and nothing happens to the list and the files.
LEMMA TaskStep ==
  ASSUME ConsentInv, UNCHANGED <<F!listVars, F!fileVars>>, NEW t \in Tasks, NEW r \in GoodTasks,
         task' = [task EXCEPT ![t] = r], Keeps(r, task[t]), Holder(r) => Agrees(r.list),
         answer' = answer \/ answer' = [answer EXCEPT ![t] = "none"],
         r.pc \in AskedPc \/ answer' = [answer EXCEPT ![t] = "none"] \/ answer[t] = "none",
         consent' \in [Tasks -> F!Replies], trusted' \in BOOLEAN, event' \in BOOLEAN, UNCHANGED edited
  PROVE  ConsentInv'
<1>1. /\ task' \in [Tasks -> GoodTasks] /\ task'[t] = r /\ \A s \in Tasks : s # t => task'[s] = task[s]
      /\ answer' \in [Tasks -> F!Replies] /\ \A s \in Tasks : s # t => answer'[s] = answer[s]
      /\ answer'[t] = "none" \/ answer'[t] = answer[t]
      /\ answer' = [answer EXCEPT ![t] = "none"] => answer'[t] = "none"
  BY DEF ConsentInv, ConsentTypes, F!Replies
<1>2. ConsentTypes'
  BY <1>1 DEF ConsentInv, ConsentTypes, F!listVars, F!fileVars
<1>3. AnswerInv'
  BY <1>1 DEF ConsentInv, AnswerInv
<1>4. EditInv'
  <2> SUFFICES ASSUME NEW s \in Tasks, Editing(s)'
               PROVE  made[task'[s].dir] \ unseen[task'[s].dir] \subseteq task'[s].text.has
    BY DEF EditInv, F!fileVars
  <2>1. CASE s # t
    BY <1>1, <2>1 DEF ConsentInv, EditInv, Editing
  <2>2. CASE s = t
    BY <1>1, <2>2 DEF ConsentInv, EditInv, Editing, Keeps, F!NoChangeLost
  <2> QED BY <2>1, <2>2
<1>5. ListInv'
  BY <1>1, ListKept
<1>6. F!NoChangeLost'
  BY DEF ConsentInv, F!NoChangeLost, F!fileVars
<1> QED BY <1>2, <1>3, <1>4, <1>5, <1>6 DEF ConsentInv

\* A task that decides about a directory does not edit.
LEMMA ListStep ==
  ASSUME ConsentInv, UNCHANGED F!fileVars, task' \in [Tasks -> GoodTasks],
         \A s \in Tasks : Editing(s)' => task'[s] = task[s],
         approved' \in SUBSET Dirs, byTask' \in BOOLEAN, loaded' \in SUBSET [list : SUBSET Dirs, byTask : BOOLEAN],
         decided' \in [Dirs -> {"none", "in", "out"}],
         revoke' \in {F!NoRevoke} \cup [dir : Dirs, list : SUBSET Dirs], ListInv',
         answer' \in [Tasks -> F!Replies], AnswerInv',
         consent' \in [Tasks -> F!Replies], UNCHANGED <<trusted, event, edited>>
  PROVE  ConsentInv'
<1>1. ConsentTypes'
  BY DEF ConsentInv, ConsentTypes, F!fileVars
<1>2. EditInv' /\ F!NoChangeLost'
  BY DEF ConsentInv, EditInv, Editing, F!NoChangeLost, F!fileVars
<1> QED BY <1>1, <1>2 DEF ConsentInv

\* A file changes by the hand of a task that ends, or of the user: an edit that waits has not seen it.
LEMMA FileStep ==
  ASSUME ConsentInv, UNCHANGED F!listVars, NEW t, NEW files \in [Dirs -> F!Files],
         NEW new \in [Dirs -> SUBSET F!Changes],
         F!Store(t, files, new), \A d \in Dirs : new[d] \ unseen'[d] \subseteq files[d].has,
         task' \in [Tasks -> GoodTasks], \A s \in Tasks : Editing(s)' => task'[s] = task[s] /\ s # t,
         \A s \in Tasks : task'[s] = task[s] \/ ~Holder(task'[s]),
         answer' \in [Tasks -> F!Replies], AnswerInv', consent' \in [Tasks -> F!Replies], edited' \in SUBSET Edits,
         UNCHANGED <<trusted, event>>
  PROVE  ConsentInv'
<1>1. file' = files /\ made' = new /\ unseen' \in [Dirs -> SUBSET F!Changes]
  BY DEF F!Store, ConsentInv, ConsentTypes
<1>2. ConsentTypes'
  BY <1>1 DEF ConsentInv, ConsentTypes, F!listVars
<1>3. EditInv'
  <2> SUFFICES ASSUME NEW s \in Tasks, Editing(s)'
               PROVE  new[task[s].dir] \ unseen'[task[s].dir] \subseteq task[s].text.has
    BY <1>1 DEF EditInv
  <2>1. task'[s] = task[s] /\ s # t /\ Editing(s)
    BY DEF Editing
  <2>2. task[s] \in GoodTasks
    BY DEF ConsentInv, ConsentTypes
  <2>3. task[s].dir \in Dirs
    BY <2>1, <2>2 DEF GoodTasks, Editing, F!OnFiles
  <2>4. F!BeingEdited(t, task[s].dir)
    BY <2>1 DEF F!BeingEdited, F!AsksAct, Editing
  <2>5. \/ unseen'[task[s].dir] = unseen[task[s].dir] \cup new[task[s].dir]
        \/ unseen'[task[s].dir] = unseen[task[s].dir] /\ new[task[s].dir] = made[task[s].dir]
    BY <2>3, <2>4 DEF F!Store
  <2> QED BY <2>1, <2>5 DEF ConsentInv, EditInv
<1>4. ListInv'
  BY ListKept
<1>5. F!NoChangeLost'
  BY <1>1 DEF ConsentInv, F!NoChangeLost
<1> QED BY <1>2, <1>3, <1>4, <1>5 DEF ConsentInv

\* The record of a task, by a field or more.
LEMMA GoodTask ==
  ASSUME ConsentInv, NEW t \in Tasks
  PROVE  task[t] \in GoodTasks /\ task[t] \in TaskRecords
BY DEF ConsentInv, ConsentTypes, GoodTasks

LEMMA DoneIsGood ==
  /\ [F!Idle EXCEPT !.pc = "done"] \in GoodTasks
  /\ \A s : Keeps([F!Idle EXCEPT !.pc = "done"], s)
  /\ [F!Idle EXCEPT !.pc = "done"].pc = "done" /\ ~Holder([F!Idle EXCEPT !.pc = "done"])
BY DEF F!Idle, GoodTasks, TaskRecords, TaskPcs, MaybeDirs, OnList, F!Files, Keeps, Holder

\* A task that ends, whatever becomes of its answer.
LEMMA EndStep ==
  ASSUME ConsentInv, UNCHANGED <<F!listVars, F!fileVars>>, NEW t \in Tasks, F!Ends(t),
         answer' = [answer EXCEPT ![t] = "none"] \/ (answer' = answer /\ answer[t] = "none"),
         consent' \in [Tasks -> F!Replies], trusted' \in BOOLEAN, event' \in BOOLEAN, UNCHANGED edited
  PROVE  ConsentInv'
BY DoneIsGood, TaskStep DEF F!Ends

LEMMA NoAnswer ==
  ASSUME ConsentInv, NEW t \in Tasks, task[t].pc \notin AskedPc
  PROVE  answer[t] = "none"
BY DEF ConsentInv, AnswerInv

LEMMA ActsTyped ==
  ASSUME ConsentInv, NEW t \in Tasks, F!Acts(t) \/ (F!NoAct /\ answer[t] = "none")
  PROVE  /\ consent' \in [Tasks -> F!Replies] /\ answer' \in [Tasks -> F!Replies]
         /\ answer' = [answer EXCEPT ![t] = "none"] \/ (answer' = answer /\ answer[t] = "none")
         /\ answer'[t] = "none" /\ \A s \in Tasks : s # t => answer'[s] = answer[s]
BY DEF ConsentInv, ConsentTypes, F!Acts, F!NoAct, F!Replies

-----------------------------------------------------------------------------
LEMMA BridgeStep ==
  ASSUME ConsentInv, F!Disconnect \/ \E t \in Tasks : F!Bridge(t)
  PROVE  ConsentInv'
<1>1. CASE F!Disconnect \/ \E t \in Tasks : F!Respond(t) \/ F!Timeout(t)
  <2>1. UNCHANGED <<F!listVars, F!fileVars, F!actVars, task, edited>>
    BY <1>1 DEF F!Disconnect, F!Respond, F!Timeout
  <2>2. answer' \in [Tasks -> F!Replies] /\ \A s \in Tasks : answer'[s] = answer[s] \/ F!Waits(s)
    BY <1>1 DEF F!Disconnect, F!Respond, F!Timeout, F!TimeoutAnswer, ConsentInv, ConsentTypes, F!Replies
  <2>3. AnswerInv'
    BY <2>1, <2>2 DEF ConsentInv, AnswerInv, F!Waits, F!AsksAccess, F!AsksAct, AskedPc
  <2>4. ConsentTypes'
    BY <2>1, <2>2 DEF ConsentInv, ConsentTypes, F!listVars, F!fileVars, F!actVars
  <2>5. EditInv' /\ F!NoChangeLost' /\ ListInv'
    BY <2>1, ListKept DEF ConsentInv, EditInv, Editing, F!NoChangeLost, F!fileVars
  <2> QED BY <2>3, <2>4, <2>5 DEF ConsentInv
<1>2. ASSUME NEW t \in Tasks, F!Declined(t) \/ F!Killed(t)
      PROVE  ConsentInv'
  <2>1. /\ UNCHANGED <<F!listVars, F!fileVars, F!actVars, edited>>
        /\ F!Ends(t) /\ answer' = [answer EXCEPT ![t] = "none"]
    BY <1>2 DEF F!Declined, F!Killed
  <2>2. consent' \in [Tasks -> F!Replies] /\ trusted' \in BOOLEAN /\ event' \in BOOLEAN
    BY <2>1 DEF F!actVars, ConsentInv, ConsentTypes
  <2> QED BY <2>1, <2>2, EndStep
<1> QED BY <1>1, <1>2 DEF F!Bridge

\* A directory is decided about.  A list that is held by another agrees with what was decided
\* before; if there is one, the directory is crossed, and no list has to agree about it.
LEMMA DecideKeeps ==
  ASSUME ConsentInv, NEW d \in Dirs, NEW verdict \in {"in", "out"}, NEW races \in BOOLEAN,
         F!Decide(d, verdict, races),
         NEW list \in SUBSET Dirs, Agrees(list), races \/ ((verdict = "in") <=> (d \in list))
  PROVE  Agrees(list)'
<1>1. /\ decided' = [decided EXCEPT ![d] = verdict] /\ decided \in [Dirs -> {"none", "in", "out"}]
      /\ crossed' = IF races THEN crossed \cup {d} ELSE crossed \ {d}
  BY DEF F!Decide, ConsentInv, ConsentTypes
<1> SUFFICES ASSUME NEW x \in Dirs \ crossed'
             PROVE  (decided'[x] = "in" => x \in list) /\ (decided'[x] = "out" => x \notin list)
  BY DEF Agrees
<1>2. CASE x = d
  BY <1>1, <1>2
<1>3. CASE x # d
  <2>1. x \in Dirs \ crossed /\ decided'[x] = decided[x]
    BY <1>1, <1>3
  <2> QED BY <2>1 DEF Agrees
<1> QED BY <1>2, <1>3

\* What is saved is a list that agreed, with the decision.
LEMMA SavedKeeps ==
  ASSUME ConsentInv, NEW d \in Dirs, NEW verdict \in {"in", "out"}, NEW races \in BOOLEAN,
         F!Decide(d, verdict, races),
         NEW list \in SUBSET Dirs, Agrees(list),
         approved' = IF verdict = "in" THEN list \cup {d} ELSE list \ {d}
  PROVE  /\ approved' \in SUBSET Dirs /\ decided' \in [Dirs -> {"none", "in", "out"}]
         /\ Agrees(approved)'
<1>1. /\ decided' = [decided EXCEPT ![d] = verdict] /\ decided \in [Dirs -> {"none", "in", "out"}]
      /\ crossed' = IF races THEN crossed \cup {d} ELSE crossed \ {d}
  BY DEF F!Decide, ConsentInv, ConsentTypes
<1>2. approved' \in SUBSET Dirs /\ decided' \in [Dirs -> {"none", "in", "out"}]
  BY <1>1
<1>3. Agrees(approved)'
  <2> SUFFICES ASSUME NEW x \in Dirs \ crossed'
               PROVE  (decided'[x] = "in" => x \in approved') /\ (decided'[x] = "out" => x \notin approved')
    BY DEF Agrees
  <2>1. CASE x = d
    BY <1>1, <2>1
  <2>2. CASE x # d
    <3>1. x \in Dirs \ crossed /\ decided'[x] = decided[x] /\ ((x \in approved') <=> (x \in list))
      BY <1>1, <2>2
    <3> QED BY <3>1 DEF Agrees
  <2> QED BY <2>1, <2>2
<1> QED BY <1>2, <1>3

\* Nothing was approved, and the workspace is now all there is.
LEMMA SeedStep ==
  ASSUME ConsentAssumption, ConsentInv, NEW t \in Tasks, F!Seed(t)
  PROVE  ConsentInv'
<1> DEFINE r == [task[t] EXCEPT !.pc = "access", !.list = {Workspace}]
<1>1. /\ task[t].pc = "seeding" /\ approved' = {Workspace} /\ byTask' = TRUE
      /\ crossed' = crossed \cup {Workspace}
      /\ task' = [task EXCEPT ![t] = r]
      /\ UNCHANGED <<loaded, revoke, decided, F!fileVars, F!actVars, answer, edited>>
  BY DEF F!Seed
<1>2. r \in GoodTasks /\ r.pc = "access" /\ r.list = {Workspace}
  BY <1>1, GoodTask DEF GoodTasks, TaskRecords, TaskPcs, OnList, ConsentAssumption
<1> HIDE DEF r
<1>3. task' \in [Tasks -> GoodTasks] /\ task'[t] = r /\ \A s \in Tasks : s # t => task'[s] = task[s]
  BY <1>1, <1>2 DEF ConsentInv, ConsentTypes
<1>4. ListInv'
  <2>1. \A list : Agrees(list) => Agrees(list)'
    BY <1>1 DEF Agrees
  <2>2. Agrees({})
    BY <1>1, GoodTask DEF ConsentInv, ListInv, Holder, GoodTasks
  <2>3. Agrees({Workspace})'
    BY <1>1, <2>2 DEF Agrees
  <2>4. Agrees(approved)'
    BY <1>1, <2>3 DEF Agrees
  <2>5. ASSUME NEW s \in Tasks, Holder(task[s])'
        PROVE  Agrees(task[s].list)'
    <3>1. CASE s = t
      BY <1>2, <1>3, <2>3, <3>1 DEF Agrees
    <3>2. CASE s # t
      BY <1>1, <1>3, <2>5, <3>2 DEF ConsentInv, ListInv, Agrees, Holder
    <3> QED BY <3>1, <3>2
  <2>6. (revoke # F!NoRevoke => Agrees(revoke.list))' /\ (\A held \in loaded : Agrees(held.list))'
    BY <1>1 DEF ConsentInv, ListInv, Agrees
  <2> QED BY <2>4, <2>5, <2>6 DEF ListInv
<1>5. AnswerInv'
  <2>1. answer[t] = "none"
    BY <1>1, NoAnswer DEF AskedPc
  <2> QED BY <1>1, <1>3, <2>1 DEF ConsentInv, AnswerInv
<1>6. \A s \in Tasks : Editing(s)' => task'[s] = task[s]
  BY <1>2, <1>3 DEF Editing
<1>7. /\ approved' \in SUBSET Dirs /\ byTask' \in BOOLEAN /\ loaded' \in SUBSET [list : SUBSET Dirs, byTask : BOOLEAN]
      /\ decided' \in [Dirs -> {"none", "in", "out"}] /\ revoke' \in {F!NoRevoke} \cup [dir : Dirs, list : SUBSET Dirs]
      /\ answer' \in [Tasks -> F!Replies] /\ consent' \in [Tasks -> F!Replies] /\ UNCHANGED <<trusted, event, edited>>
      /\ UNCHANGED F!fileVars
  BY <1>1 DEF ConsentInv, ConsentTypes, ConsentAssumption, F!actVars
<1> QED BY <1>3, <1>4, <1>5, <1>6, <1>7, ListStep

\* The list of a task that saves it, and the lists that are held by others.
LEMMA GrantLists ==
  ASSUME ConsentAssumption, ConsentInv, NEW t \in Tasks, F!Grant(t), Holder(task[t]),
         task[t].dir \in Dirs,
         ~Holder(task'[t]), \A s \in Tasks : s # t => task'[s] = task[s], UNCHANGED <<loaded, revoke>>
  PROVE  approved' \in SUBSET Dirs /\ decided' \in [Dirs -> {"none", "in", "out"}] /\ ListInv'
<1> DEFINE d == task[t].dir
<1>1. /\ approved' = task[t].list \cup {d} /\ F!Decide(d, "in", F!Races(t))
      /\ task[t].list \in SUBSET Dirs /\ Agrees(task[t].list) /\ F!Races(t) \in BOOLEAN
  BY GoodTask DEF F!Grant, F!Saved, ConsentInv, ListInv, TaskRecords, F!Races
<1>2. approved' \in SUBSET Dirs /\ decided' \in [Dirs -> {"none", "in", "out"}] /\ Agrees(approved)'
  BY <1>1, SavedKeeps
<1>3. \A list \in SUBSET Dirs : Agrees(list) /\ F!Races(t) => Agrees(list)'
  BY <1>1, DecideKeeps
<1>4. ASSUME NEW s \in Tasks, Holder(task[s])'
      PROVE  Agrees(task[s].list)'
  <2>1. s # t /\ task'[s] = task[s] /\ Holder(task[s])
    BY <1>4 DEF Holder
  <2>2. F!Races(t)
    BY <2>1 DEF F!Races, F!Holds, Holder
  <2>3. task[s].list \in SUBSET Dirs /\ Agrees(task[s].list)
    BY <2>1, GoodTask DEF ConsentInv, ListInv, TaskRecords
  <2> QED BY <1>3, <2>1, <2>2, <2>3 DEF Agrees
<1>5. (revoke # F!NoRevoke => Agrees(revoke.list))'
  <2> SUFFICES ASSUME revoke # F!NoRevoke
               PROVE  Agrees(revoke.list)'
    OBVIOUS
  <2>1. revoke.list \in SUBSET Dirs /\ Agrees(revoke.list) /\ F!Races(t)
    BY DEF ConsentInv, ConsentTypes, ListInv, F!Races
  <2> QED BY <1>3, <2>1 DEF Agrees
<1>6. (\A held \in loaded : Agrees(held.list))'
  <2> SUFFICES ASSUME NEW held \in loaded
               PROVE  Agrees(held.list)'
    OBVIOUS
  <2>1. held.list \in SUBSET Dirs /\ Agrees(held.list) /\ F!Races(t)
    BY DEF ConsentInv, ConsentTypes, ListInv, F!Races
  <2> QED BY <1>3, <2>1 DEF Agrees
<1> QED BY <1>2, <1>4, <1>5, <1>6 DEF ListInv

LEMMA GrantStep ==
  ASSUME ConsentAssumption, ConsentInv, NEW t \in Tasks, F!GrantAccess(t) \/ F!Approve(t)
  PROVE  ConsentInv'
<1>1. /\ task[t].pc \in {"asking access", "access"}
      /\ UNCHANGED <<loaded, revoke, F!fileVars, trusted, event, edited>>
      /\ (UNCHANGED <<approved, byTask, decided, crossed>>) \/ (F!Grant(t) /\ Holder(task[t]))
  BY GoodTask DEF F!GrantAccess, F!Approve, F!AsksAccess, F!actVars, Holder, GoodTasks
<1>2. task[t] \in GoodTasks /\ task[t].dir \in Dirs
  <2>1. task[t] \in GoodTasks
    BY GoodTask
  <2> QED BY <1>1, <2>1 DEF GoodTasks, OnList
<1>3. \E r \in GoodTasks : task' = [task EXCEPT ![t] = r] /\ r.pc \in {"saved", "done"}
  <2>1. CASE F!GrantAccess(t)
    <3>1. task' = [task EXCEPT ![t] = [task[t] EXCEPT !.pc = "saved"]]
      BY <2>1 DEF F!GrantAccess
    <3>2. [task[t] EXCEPT !.pc = "saved"] \in GoodTasks /\ [task[t] EXCEPT !.pc = "saved"].pc = "saved"
      BY <2>1, <1>2 DEF F!GrantAccess, F!AsksAccess, GoodTasks, TaskRecords, TaskPcs, OnList
    <3> QED BY <3>1, <3>2
  <2>2. CASE F!Approve(t)
    BY <2>2, DoneIsGood DEF F!Approve, F!Ends
  <2> QED BY <2>1, <2>2
<1>4. PICK r \in GoodTasks : task' = [task EXCEPT ![t] = r] /\ r.pc \in {"saved", "done"}
  BY <1>3
<1>5. /\ task' \in [Tasks -> GoodTasks] /\ task'[t] = r /\ \A s \in Tasks : s # t => task'[s] = task[s]
      /\ ~Holder(task'[t])
  BY <1>4 DEF ConsentInv, ConsentTypes, Holder
<1>6. approved' \in SUBSET Dirs /\ byTask' \in BOOLEAN /\ decided' \in [Dirs -> {"none", "in", "out"}] /\ ListInv'
  <2>1. CASE UNCHANGED <<approved, byTask, decided, crossed>>
    <3>1. ListInv'
      BY <1>1, <1>5, <2>1, ListKept DEF F!listVars
    <3> QED BY <2>1, <3>1 DEF ConsentInv, ConsentTypes
  <2>2. CASE F!Grant(t) /\ Holder(task[t])
    BY <1>1, <1>2, <1>5, <2>2, GrantLists DEF F!Grant
  <2> QED BY <1>1, <2>1, <2>2
<1>7. answer' \in [Tasks -> F!Replies] /\ consent' \in [Tasks -> F!Replies]
      /\ answer'[t] = "none" /\ \A s \in Tasks : s # t => answer'[s] = answer[s]
  <2>1. CASE F!GrantAccess(t)
    BY <2>1 DEF F!GrantAccess, ConsentInv, ConsentTypes, F!Replies
  <2>2. CASE F!Approve(t)
    BY <2>2, NoAnswer DEF F!Approve, F!actVars, ConsentInv, ConsentTypes, AskedPc
  <2> QED BY <2>1, <2>2
<1>8. AnswerInv'
  BY <1>5, <1>7 DEF ConsentInv, AnswerInv
<1>9. \A s \in Tasks : Editing(s)' => task'[s] = task[s]
  BY <1>4, <1>5 DEF Editing
<1>10. revoke' \in {F!NoRevoke} \cup [dir : Dirs, list : SUBSET Dirs] /\ loaded' \in SUBSET [list : SUBSET Dirs, byTask : BOOLEAN]
  BY <1>1 DEF ConsentInv, ConsentTypes
<1> QED BY <1>1, <1>5, <1>6, <1>7, <1>8, <1>9, <1>10, ListStep

\* Whoever else writes the row: the settings, the cache and the purge.
LEMMA RevokeStep ==
  ASSUME ConsentAssumption, ConsentInv,
         F!RevokeEnd \/ F!WriteBack \/ F!CopyLost \/ F!Purge \/ \E d \in Dirs : F!RevokeBegin(d)
  PROVE  ConsentInv'
<1>1. UNCHANGED <<F!fileVars, F!actVars, task, answer, edited>>
  BY DEF F!RevokeEnd, F!RevokeBegin, F!WriteBack, F!CopyLost, F!Purge
<1> DEFINE Wanted == /\ approved' \in SUBSET Dirs /\ byTask' \in BOOLEAN
                     /\ loaded' \in SUBSET [list : SUBSET Dirs, byTask : BOOLEAN]
                     /\ decided' \in [Dirs -> {"none", "in", "out"}]
                     /\ revoke' \in {F!NoRevoke} \cup [dir : Dirs, list : SUBSET Dirs]
                     /\ ListInv'
<1>2. ASSUME NEW d \in Dirs, F!RevokeBegin(d)
      PROVE  Wanted
  <2>1. /\ revoke' = [dir |-> d, list |-> approved] /\ revoke'.list = approved
        /\ UNCHANGED <<approved, byTask, loaded, decided, crossed>>
    BY <1>2 DEF F!RevokeBegin
  <2>2. ListInv'
    BY <1>1, <2>1 DEF ConsentInv, ListInv, Agrees, Holder
  <2> QED BY <2>1, <2>2 DEF ConsentInv, ConsentTypes
<1>3. ASSUME F!RevokeEnd
      PROVE  Wanted
  <2> DEFINE d == revoke.dir
  <2>1. /\ d \in Dirs /\ revoke.list \in SUBSET Dirs /\ Agrees(revoke.list) /\ revoke' = F!NoRevoke /\ byTask' = FALSE
        /\ approved' = revoke.list \ {d} /\ F!Decide(d, "out", F!RevokeRaces) /\ UNCHANGED loaded
    BY <1>3 DEF F!RevokeEnd, ConsentInv, ConsentTypes, ListInv
  <2>2. F!RevokeRaces \in BOOLEAN
    BY DEF F!RevokeRaces
  <2>3. approved' \in SUBSET Dirs /\ decided' \in [Dirs -> {"none", "in", "out"}] /\ Agrees(approved)'
    BY <2>1, <2>2, SavedKeeps
  <2>4. \A list \in SUBSET Dirs : Agrees(list) /\ F!RevokeRaces => Agrees(list)'
    BY <2>1, <2>2, DecideKeeps
  <2>5. ASSUME NEW s \in Tasks, Holder(task[s])'
        PROVE  Agrees(task[s].list)'
    <3>1. Holder(task[s]) /\ task' = task
      BY <1>1, <2>5 DEF Holder
    <3>2. F!RevokeRaces
      BY <3>1 DEF F!RevokeRaces, F!Holds, Holder
    <3>3. task[s].list \in SUBSET Dirs /\ Agrees(task[s].list)
      BY <3>1, GoodTask DEF ConsentInv, ListInv, TaskRecords
    <3> QED BY <2>4, <3>1, <3>2, <3>3 DEF Agrees
  <2>6. (\A held \in loaded : Agrees(held.list))'
    <3> SUFFICES ASSUME NEW held \in loaded
                 PROVE  Agrees(held.list)'
      BY <2>1
    <3>1. held.list \in SUBSET Dirs /\ Agrees(held.list) /\ F!RevokeRaces
      BY DEF ConsentInv, ConsentTypes, ListInv, F!RevokeRaces
    <3> QED BY <2>4, <3>1 DEF Agrees
  <2>7. ListInv'
    BY <2>1, <2>3, <2>5, <2>6 DEF ListInv
  <2> QED BY <2>1, <2>3, <2>7 DEF ConsentInv, ConsentTypes
<1>4. ASSUME F!WriteBack
      PROVE  Wanted
  <2>1. PICK held \in loaded : approved' = held.list /\ byTask' = held.byTask
    BY <1>4 DEF F!WriteBack
  <2>2. held.list \in SUBSET Dirs /\ held.byTask \in BOOLEAN /\ loaded' = {} /\ UNCHANGED <<revoke, decided, crossed>>
    BY <1>4 DEF F!WriteBack, ConsentInv, ConsentTypes
  <2>3. ListInv'
    BY <1>1, <2>1, <2>2 DEF ConsentInv, ListInv, Agrees, Holder
  <2> QED BY <2>1, <2>2, <2>3 DEF ConsentInv, ConsentTypes
<1>5. ASSUME F!CopyLost
      PROVE  Wanted
  <2>1. loaded' = {} /\ UNCHANGED <<approved, byTask, revoke, decided, crossed>>
    BY <1>5 DEF F!CopyLost
  <2>2. ListInv'
    BY <1>1, <2>1 DEF ConsentInv, ListInv, Agrees, Holder
  <2> QED BY <2>1, <2>2 DEF ConsentInv, ConsentTypes
<1>6. ASSUME F!Purge
      PROVE  Wanted
  <2>1. /\ approved' = {} /\ byTask' = FALSE /\ UNCHANGED <<loaded, revoke, crossed>>
        /\ decided' = [d \in Dirs |-> IF decided[d] = "in" THEN "none" ELSE decided[d]]
    BY <1>6 DEF F!Purge
  <2>2. \A d \in Dirs : decided'[d] # "in" /\ (decided'[d] = "out" => decided[d] = "out")
    BY <2>1
  <2>3. decided' \in [Dirs -> {"none", "in", "out"}]
    BY <2>1 DEF ConsentInv, ConsentTypes
  <2>4. Agrees(approved)' /\ \A list : Agrees(list) => Agrees(list)'
    BY <2>1, <2>2 DEF Agrees
  <2>5. ListInv'
    BY <1>1, <2>1, <2>2, <2>4 DEF ConsentInv, ListInv, Agrees, Holder
  <2> QED BY <2>1, <2>3, <2>5 DEF ConsentInv, ConsentTypes
<1>7. Wanted
  BY <1>2, <1>3, <1>4, <1>5, <1>6
<1> HIDE DEF Wanted
<1>8. /\ task' \in [Tasks -> GoodTasks] /\ answer' \in [Tasks -> F!Replies] /\ consent' \in [Tasks -> F!Replies]
      /\ UNCHANGED <<trusted, event, edited>> /\ AnswerInv' /\ \A s \in Tasks : Editing(s)' => task'[s] = task[s]
  BY <1>1 DEF ConsentInv, ConsentTypes, AnswerInv, F!actVars
<1> QED BY <1>1, <1>7, <1>8, ListStep DEF Wanted

LEMMA AskAccessStep ==
  ASSUME ConsentAssumption, ConsentInv, NEW t \in Tasks, F!Access(t)
  PROVE  ConsentInv'
<1>1. ASSUME NEW op \in F!OnFiles, NEW d \in Dirs, NEW e \in Dirs \cup {None}, F!Begin(t, op, d, e)
      PROVE  ConsentInv'
  <2> DEFINE r == F!Look([F!Idle EXCEPT !.op = op, !.from = d, !.dir = d, !.to = e])
  <2>1. /\ task[t].pc = "idle" /\ task' = [task EXCEPT ![t] = r]
        /\ UNCHANGED <<F!listVars, F!fileVars, F!actVars, answer, edited>>
    BY <1>1 DEF F!Begin
  <2>2. r \in GoodTasks /\ r.pc \in {"seeding", "access"}
    BY DEF F!Look, F!Idle, GoodTasks, TaskRecords, TaskPcs, MaybeDirs, OnList, F!Files, ConsentInv,
       ConsentTypes
  <2>3. Keeps(r, task[t]) /\ r.list = approved
    BY <2>2 DEF Keeps, F!Look, F!Idle
  <2>4. answer[t] = "none"
    BY <2>1, NoAnswer DEF AskedPc
  <2>5. consent' \in [Tasks -> F!Replies] /\ trusted' \in BOOLEAN /\ event' \in BOOLEAN
    BY <2>1 DEF F!actVars, ConsentInv, ConsentTypes
  <2>6. Agrees(r.list)
    BY <2>3 DEF ConsentInv, ListInv
  <2> HIDE DEF r
  <2> QED BY <2>1, <2>2, <2>3, <2>4, <2>5, <2>6, TaskStep
<1>2. CASE F!Permitted(t) \/ F!AskAccess(t) \/ F!Proceed(t)
  <2>1. /\ task[t].pc \in {"access", "saved"}
        /\ UNCHANGED <<F!listVars, F!fileVars, F!actVars, answer, edited>>
    BY <1>2 DEF F!Permitted, F!AskAccess, F!Proceed
  <2>2. \E r \in GoodTasks : task' = [task EXCEPT ![t] = r] /\ r.pc # "asking" /\ (Holder(r) => Agrees(r.list))
    <3>1. task[t] \in GoodTasks /\ task[t].op \in F!OnFiles /\ task[t].from \in Dirs /\ task[t].dir \in Dirs
      BY <2>1, GoodTask DEF GoodTasks, OnList
    <3>2. CASE F!Permitted(t)
      <4>1. task' = [task EXCEPT ![t] = [task[t] EXCEPT !.pc = "saved"]]
        BY <3>2 DEF F!Permitted
      <4>2. [task[t] EXCEPT !.pc = "saved"] \in GoodTasks /\ [task[t] EXCEPT !.pc = "saved"].pc = "saved"
        BY <3>1 DEF GoodTasks, TaskRecords, TaskPcs, OnList
      <4> QED BY <4>1, <4>2 DEF Holder
    <3>5. CASE F!AskAccess(t)
      <4> DEFINE r == [task[t] EXCEPT !.pc = "asking access"]
      <4>1. task' = [task EXCEPT ![t] = r] /\ task[t].dir \notin task[t].list /\ task[t].pc = "access"
        BY <3>5 DEF F!AskAccess
      <4>2. r \in GoodTasks /\ r.pc = "asking access" /\ r.list = task[t].list
        BY <3>1, <4>1 DEF GoodTasks, TaskRecords, TaskPcs, OnList
      <4>3. Agrees(task[t].list)
        BY <4>1 DEF ConsentInv, ListInv, Holder
      <4> QED BY <4>1, <4>2, <4>3
    <3>3. CASE F!Proceed(t) /\ task[t].to = None
      <4>1. task' = [task EXCEPT ![t] = [task[t] EXCEPT !.pc = "ready"]]
        BY <3>3 DEF F!Proceed
      <4>2. [task[t] EXCEPT !.pc = "ready"] \in GoodTasks /\ [task[t] EXCEPT !.pc = "ready"].pc = "ready"
        BY <3>1 DEF GoodTasks, TaskRecords, TaskPcs, OnList
      <4> QED BY <4>1, <4>2 DEF Holder
    <3>4. CASE F!Proceed(t) /\ task[t].to # None
      <4> DEFINE r == F!Look([task[t] EXCEPT !.dir = task[t].to, !.to = None])
      <4>1. task' = [task EXCEPT ![t] = r]
        BY <3>4 DEF F!Proceed
      <4>2. task[t].to \in Dirs
        BY <3>1, <3>4 DEF GoodTasks, TaskRecords, MaybeDirs
      <4>3. r \in GoodTasks /\ r.pc \in {"seeding", "access"} /\ r.list = approved
        BY <3>1, <4>2 DEF F!Look, GoodTasks, TaskRecords, TaskPcs, MaybeDirs, OnList, ConsentInv,
           ConsentTypes
      <4>4. Agrees(approved)
        BY DEF ConsentInv, ListInv
      <4> HIDE DEF r
      <4> QED BY <4>1, <4>3, <4>4
    <3> QED BY <1>2, <3>2, <3>3, <3>4, <3>5
  <2>3. PICK r \in GoodTasks : task' = [task EXCEPT ![t] = r] /\ r.pc # "asking" /\ (Holder(r) => Agrees(r.list))
    BY <2>2
  <2>4. Keeps(r, task[t]) /\ answer[t] = "none"
    BY <2>1, <2>3, NoAnswer DEF Keeps, AskedPc
  <2>5. consent' \in [Tasks -> F!Replies] /\ trusted' \in BOOLEAN /\ event' \in BOOLEAN
    BY <2>1 DEF F!actVars, ConsentInv, ConsentTypes
  <2> QED BY <2>1, <2>3, <2>4, <2>5, TaskStep
<1> QED BY <1>1, <1>2, SeedStep, GrantStep DEF F!Access

-----------------------------------------------------------------------------
(* Files.                                                                  *)

LEMMA LookedStep ==
  ASSUME ConsentInv, NEW t \in Tasks, F!Missing(t) \/ \E op \in F!OnFiles : F!Looked(t, op)
  PROVE  ConsentInv'
<1>1. task[t].pc = "ready" /\ F!Ends(t) /\ UNCHANGED <<F!listVars, F!fileVars, F!actVars, answer, edited>>
  BY DEF F!Missing, F!Looked, F!Ready
<1>2. answer[t] = "none"
  BY <1>1, NoAnswer DEF AskedPc
<1>3. consent' \in [Tasks -> F!Replies] /\ trusted' \in BOOLEAN /\ event' \in BOOLEAN
  BY <1>1 DEF F!actVars, ConsentInv, ConsentTypes
<1> QED BY <1>1, <1>2, <1>3, EndStep

\* An edit takes the text of the file with it.
LEMMA AskActStep ==
  ASSUME ConsentInv, NEW t \in Tasks, F!AskAct(t)
  PROVE  ConsentInv'
<1> DEFINE r == [task[t] EXCEPT !.pc = "asking", !.text = IF task[t].op = "edit" THEN file[task[t].dir] ELSE F!NoFile]
<1>1. /\ task[t].pc = "ready" /\ task' = [task EXCEPT ![t] = r]
      /\ UNCHANGED <<F!listVars, F!fileVars, F!actVars, answer, edited>>
  BY DEF F!AskAct
<1>2. task[t] \in GoodTasks /\ task[t].op \in F!OnFiles /\ task[t].from \in Dirs /\ task[t].dir \in Dirs
  BY <1>1, GoodTask DEF GoodTasks, OnList
<1>3. r \in GoodTasks /\ r.pc = "asking" /\ r.dir = task[t].dir /\ r.op = task[t].op
      /\ (r.op = "edit" => r.text = file[r.dir])
  <2>1. F!NoFile \in F!Files /\ file[task[t].dir] \in F!Files
    BY <1>2 DEF F!Files, ConsentInv, ConsentTypes
  <2> QED BY <1>2, <2>1 DEF GoodTasks, TaskRecords, TaskPcs, OnList, AskedPc
<1>4. Keeps(r, task[t]) /\ ~Holder(r)
  BY <1>2, <1>3 DEF Keeps, Holder
<1>5. consent' \in [Tasks -> F!Replies] /\ trusted' \in BOOLEAN /\ event' \in BOOLEAN
  BY <1>1 DEF F!actVars, ConsentInv, ConsentTypes
<1> HIDE DEF r
<1> QED BY <1>1, <1>3, <1>4, <1>5, TaskStep DEF AskedPc

\* The task that stores a file ends with it.
LEMMA StoringStep ==
  ASSUME ConsentAssumption, ConsentInv, UNCHANGED <<F!listVars, trusted, event, edited>>,
         NEW t \in Tasks, F!Ends(t), F!Acts(t) \/ (F!NoAct /\ answer[t] = "none"),
         NEW files \in [Dirs -> F!Files], NEW new \in [Dirs -> SUBSET F!Changes], F!Store(t, files, new),
         \A d \in Dirs : new[d] \ unseen'[d] \subseteq files[d].has
  PROVE  ConsentInv'
<1>1. /\ task' \in [Tasks -> GoodTasks] /\ task'[t].pc = "done" /\ \A s \in Tasks : s # t => task'[s] = task[s]
  BY DoneIsGood DEF F!Ends, ConsentInv, ConsentTypes
<1>2. /\ consent' \in [Tasks -> F!Replies] /\ answer' \in [Tasks -> F!Replies]
      /\ answer'[t] = "none" /\ \A s \in Tasks : s # t => answer'[s] = answer[s]
  BY ActsTyped
<1>3. AnswerInv'
  BY <1>1, <1>2 DEF ConsentInv, AnswerInv
<1>4. \A s \in Tasks : Editing(s)' => task'[s] = task[s] /\ s # t
  BY <1>1 DEF Editing
<1>6. \A s \in Tasks : task'[s] = task[s] \/ ~Holder(task'[s])
  BY <1>1 DEF Holder
<1>5. edited' \in SUBSET Edits
  BY DEF ConsentInv, ConsentTypes
<1> QED BY <1>1, <1>2, <1>3, <1>4, <1>5, <1>6, FileStep

LEMMA UnseenGrows ==
  ASSUME ConsentInv, NEW t, NEW files, NEW new, F!Store(t, files, new)
  PROVE  /\ file' = files /\ made' = new
         /\ \A d \in Dirs : unseen[d] \subseteq unseen'[d]
BY DEF F!Store

LEMMA WriteStep ==
  ASSUME ConsentAssumption, ConsentInv, NEW t \in Tasks, F!Write(t) \/ F!Append(t)
  PROVE  ConsentInv'
<1> DEFINE d == task[t].dir
<1>1. /\ task[t].pc = "ready" /\ task[t].op \in {"write", "append"} /\ F!Ends(t) /\ F!NoAct
      /\ UNCHANGED <<F!listVars, trusted, event, edited>>
  BY DEF F!Write, F!Append, F!Ready
<1>2. d \in Dirs
  BY <1>1, GoodTask DEF GoodTasks, OnList, F!OnFiles
<1>3. answer[t] = "none"
  BY <1>1, NoAnswer DEF AskedPc
<1>4. t \in F!Changes /\ file[d] \in F!Files /\ file \in [Dirs -> F!Files] /\ made \in [Dirs -> SUBSET F!Changes] /\ unseen \in [Dirs -> SUBSET F!Changes]
  BY <1>2 DEF F!Changes, ConsentInv, ConsentTypes
<1>5. CASE F!Write(t)
  <2> DEFINE files == [file EXCEPT ![d] = [there |-> TRUE, has |-> {t}]]
             new == [made EXCEPT ![d] = {t}]
  <2>1. F!Store(t, files, new)
    BY <1>5 DEF F!Write
  <2>2. [there |-> TRUE, has |-> {t}] \in F!Files
    BY <1>4 DEF F!Files
  <2>3. files \in [Dirs -> F!Files] /\ new \in [Dirs -> SUBSET F!Changes]
    BY <1>4, <2>2
  <2>4. \A x \in Dirs : new[x] \ unseen'[x] \subseteq files[x].has
    <3> TAKE x \in Dirs
    <3>1. CASE x = d
      BY <1>4, <3>1
    <3>2. CASE x # d
      BY <1>4, <2>1, <3>2, UnseenGrows DEF ConsentInv, F!NoChangeLost
    <3> QED BY <3>1, <3>2
  <2> HIDE DEF files, new
  <2> QED BY <1>1, <1>3, <2>1, <2>3, <2>4, StoringStep
<1>6. CASE F!Append(t) /\ F!There(d)
  <2> DEFINE files == [file EXCEPT ![d] = F!Appended(file[d], t)]
             new == [made EXCEPT ![d] = made[d] \cup {t}]
  <2>1. F!Store(t, files, new)
    BY <1>6 DEF F!Append
  <2>2. F!Appended(file[d], t) \in F!Files /\ F!Appended(file[d], t).has = file[d].has \cup {t}
    BY <1>4, <1>6, FilesAre DEF F!Appended, F!There
  <2>3. files \in [Dirs -> F!Files] /\ new \in [Dirs -> SUBSET F!Changes]
    BY <1>4, <2>2
  <2>4. \A x \in Dirs : new[x] \ unseen'[x] \subseteq files[x].has
    <3> TAKE x \in Dirs
    <3>1. unseen[x] \subseteq unseen'[x] /\ made[x] \ unseen[x] \subseteq file[x].has
      BY <2>1, UnseenGrows DEF ConsentInv, F!NoChangeLost
    <3>2. CASE x = d
      BY <1>4, <2>2, <3>1, <3>2
    <3>3. CASE x # d
      BY <1>4, <3>1, <3>3
    <3> QED BY <3>2, <3>3
  <2> HIDE DEF files, new
  <2> QED BY <1>1, <1>3, <2>1, <2>3, <2>4, StoringStep
<1>7. CASE F!Append(t) /\ ~F!There(d)
  <2>1. UNCHANGED F!fileVars
    BY <1>7 DEF F!Append
  <2>2. consent' \in [Tasks -> F!Replies] /\ trusted' \in BOOLEAN /\ event' \in BOOLEAN
    BY <1>1 DEF F!NoAct, ConsentInv, ConsentTypes
  <2> QED BY <1>1, <1>3, <2>1, <2>2, EndStep DEF F!NoAct
<1> QED BY <1>5, <1>6, <1>7

\* What was read before the question has every change but the unseen ones.
LEMMA EditStep ==
  ASSUME ConsentAssumption, ConsentInv, NEW t \in Tasks, F!Edit(t) \/ F!Delete(t)
  PROVE  ConsentInv'
<1> DEFINE d == task[t].dir
<1>1. /\ task[t].pc = "asking" /\ task[t].op \in {"edit", "delete"} /\ F!Ends(t) /\ F!Acts(t)
      /\ UNCHANGED <<F!listVars, trusted, event, edited>>
  BY DEF F!Edit, F!Delete, F!Allowed, F!AsksAct
<1>2. d \in Dirs /\ task[t] \in TaskRecords
  BY <1>1, GoodTask DEF GoodTasks, F!OnFiles
<1>3. t \in F!Changes /\ file \in [Dirs -> F!Files] /\ made \in [Dirs -> SUBSET F!Changes] /\ unseen \in [Dirs -> SUBSET F!Changes]
  BY DEF F!Changes, ConsentInv, ConsentTypes
<1>4. CASE F!Edit(t)
  <2> DEFINE own == [there |-> TRUE, has |-> task[t].text.has \cup {t}]
             files == [file EXCEPT ![d] = own]
             new == [made EXCEPT ![d] = made[d] \cup {t}]
  <2>1. F!Store(t, files, new) /\ task[t].op = "edit"
    BY <1>4 DEF F!Edit, F!Allowed
  <2>2. own \in F!Files
    <3>1. task[t].text.has \cup {t} \in SUBSET F!Changes
      BY <1>2, <1>3, FilesAre DEF TaskRecords
    <3> QED BY <3>1, FilesAre
  <2>3. files \in [Dirs -> F!Files] /\ new \in [Dirs -> SUBSET F!Changes]
    BY <1>3, <2>2
  <2>4. made[d] \ unseen[d] \subseteq task[t].text.has
    BY <1>1, <2>1 DEF ConsentInv, EditInv, Editing
  <2>5. \A x \in Dirs : new[x] \ unseen'[x] \subseteq files[x].has
    <3> TAKE x \in Dirs
    <3>1. unseen[x] \subseteq unseen'[x] /\ made[x] \ unseen[x] \subseteq file[x].has
      BY <2>1, UnseenGrows DEF ConsentInv, F!NoChangeLost
    <3>2. CASE x = d
      BY <1>3, <2>4, <3>1, <3>2
    <3>3. CASE x # d
      BY <1>3, <3>1, <3>3
    <3> QED BY <3>2, <3>3
  <2> HIDE DEF files, new
  <2> QED BY <1>1, <2>1, <2>3, <2>5, StoringStep
<1>5. CASE F!Delete(t)
  <2> DEFINE files == [file EXCEPT ![d] = F!NoFile]
             new == [made EXCEPT ![d] = {}]
  <2>1. F!Store(t, files, new)
    BY <1>5 DEF F!Delete
  <2>2. files \in [Dirs -> F!Files] /\ new \in [Dirs -> SUBSET F!Changes]
    BY <1>3 DEF F!Files
  <2>3. \A x \in Dirs : new[x] \ unseen'[x] \subseteq files[x].has
    <3> TAKE x \in Dirs
    <3>1. unseen[x] \subseteq unseen'[x] /\ made[x] \ unseen[x] \subseteq file[x].has
      BY <2>1, UnseenGrows DEF ConsentInv, F!NoChangeLost
    <3> QED BY <1>3, <3>1
  <2> HIDE DEF files, new
  <2> QED BY <1>1, <2>1, <2>2, <2>3, StoringStep
<1> QED BY <1>4, <1>5

\* What replaces a file has the changes of the file it comes from.
LEMMA CopyStep ==
  ASSUME ConsentAssumption, ConsentInv, NEW t \in Tasks, F!Copy(t) \/ F!Move(t)
  PROVE  ConsentInv'
<1> DEFINE d == task[t].from
           e == task[t].dir
<1>1. /\ task[t].pc \in {"ready", "asking"} /\ task[t].op \in {"copy", "move"} /\ F!Ends(t)
      /\ UNCHANGED <<F!listVars, trusted, event, edited>>
      /\ F!Acts(t) \/ (F!NoAct /\ task[t].pc = "ready")
  BY DEF F!Copy, F!Move, F!Allowed, F!AsksAct, F!Ready
<1>2. d \in Dirs /\ e \in Dirs
  BY <1>1, GoodTask DEF GoodTasks, F!OnFiles, F!OnTwo
<1>3. F!Acts(t) \/ (F!NoAct /\ answer[t] = "none")
  BY <1>1, NoAnswer DEF AskedPc
<1>4. /\ file \in [Dirs -> F!Files] /\ made \in [Dirs -> SUBSET F!Changes] /\ unseen \in [Dirs -> SUBSET F!Changes]
      /\ file[d] \in F!Files /\ file[d].has \in SUBSET F!Changes /\ F!NoFile \in F!Files /\ F!NoFile.has = {}
  BY <1>2, FilesAre DEF ConsentInv, ConsentTypes
<1>5. CASE F!Copy(t) /\ F!There(d)
  <2> DEFINE files == [file EXCEPT ![e] = file[d]]
             new == [made EXCEPT ![e] = file[d].has]
  <2>1. F!Store(t, files, new)
    BY <1>5 DEF F!Copy
  <2>2. files \in [Dirs -> F!Files] /\ new \in [Dirs -> SUBSET F!Changes]
    BY <1>2, <1>4
  <2>3. \A x \in Dirs : new[x] \ unseen'[x] \subseteq files[x].has
    <3> TAKE x \in Dirs
    <3>1. unseen[x] \subseteq unseen'[x] /\ made[x] \ unseen[x] \subseteq file[x].has
      BY <2>1, UnseenGrows DEF ConsentInv, F!NoChangeLost
    <3> QED BY <1>2, <1>4, <3>1
  <2> HIDE DEF files, new
  <2> QED BY <1>1, <1>3, <2>1, <2>2, <2>3, StoringStep
<1>6. CASE F!Move(t) /\ F!There(d)
  <2> DEFINE files == [file EXCEPT ![e] = file[d], ![d] = F!NoFile]
             new == [made EXCEPT ![e] = file[d].has, ![d] = {}]
  <2>1. F!Store(t, files, new)
    BY <1>6 DEF F!Move
  <2>2. files \in [Dirs -> F!Files] /\ new \in [Dirs -> SUBSET F!Changes]
    BY <1>2, <1>4
  <2>3. \A x \in Dirs : new[x] \ unseen'[x] \subseteq files[x].has
    <3> TAKE x \in Dirs
    <3>1. unseen[x] \subseteq unseen'[x] /\ made[x] \ unseen[x] \subseteq file[x].has
      BY <2>1, UnseenGrows DEF ConsentInv, F!NoChangeLost
    <3> QED BY <1>2, <1>4, <3>1
  <2> HIDE DEF files, new
  <2> QED BY <1>1, <1>3, <2>1, <2>2, <2>3, StoringStep
<1>7. CASE (F!Copy(t) \/ F!Move(t)) /\ ~F!There(d)
  <2>1. UNCHANGED F!fileVars
    BY <1>7 DEF F!Copy, F!Move
  <2>2. trusted' \in BOOLEAN /\ event' \in BOOLEAN
    BY <1>1 DEF ConsentInv, ConsentTypes
  <2> QED BY <1>1, <1>3, <2>1, <2>2, ActsTyped, EndStep
<1> QED BY <1>5, <1>6, <1>7

LEMMA UserStep ==
  ASSUME ConsentAssumption, ConsentInv, NEW u \in Edits, NEW d \in Dirs, F!UserEdits(u, d)
  PROVE  ConsentInv'
<1> DEFINE own == [file[d] EXCEPT !.has = file[d].has \cup {u}]
           files == [file EXCEPT ![d] = own]
           new == [made EXCEPT ![d] = made[d] \cup {u}]
<1>1. /\ F!There(d) /\ edited' = edited \cup {u} /\ F!NoAct /\ F!Store(u, files, new)
      /\ UNCHANGED <<F!listVars, task, trusted, event>>
  BY DEF F!UserEdits
<1>2. /\ file \in [Dirs -> F!Files] /\ made \in [Dirs -> SUBSET F!Changes] /\ unseen \in [Dirs -> SUBSET F!Changes]
      /\ file[d] \in F!Files /\ u \in F!Changes
  BY DEF ConsentInv, ConsentTypes, F!Changes
<1>3. own \in F!Files /\ own.has = file[d].has \cup {u}
  BY <1>1, <1>2, FilesAre DEF F!There
<1>4. files \in [Dirs -> F!Files] /\ new \in [Dirs -> SUBSET F!Changes]
  BY <1>2, <1>3
<1>5. \A x \in Dirs : new[x] \ unseen'[x] \subseteq files[x].has
  <2> TAKE x \in Dirs
  <2>1. unseen[x] \subseteq unseen'[x] /\ made[x] \ unseen[x] \subseteq file[x].has
    BY <1>1, UnseenGrows DEF ConsentInv, F!NoChangeLost
  <2>2. CASE x = d
    BY <1>2, <1>3, <2>1, <2>2
  <2>3. CASE x # d
    BY <1>2, <2>1, <2>3
  <2> QED BY <2>2, <2>3
<1>6. /\ task' \in [Tasks -> GoodTasks] /\ \A s \in Tasks : Editing(s)' => task'[s] = task[s] /\ s # u
      /\ task' = task
      /\ answer' \in [Tasks -> F!Replies] /\ AnswerInv' /\ consent' \in [Tasks -> F!Replies] /\ edited' \in SUBSET Edits
  BY <1>1 DEF ConsentInv, ConsentTypes, AnswerInv, F!NoAct, ConsentAssumption
<1> HIDE DEF files, new
<1> QED BY <1>1, <1>4, <1>5, <1>6, FileStep

LEMMA OnFileStep ==
  ASSUME ConsentAssumption, ConsentInv, NEW t \in Tasks, F!OnFile(t)
  PROVE  ConsentInv'
<1>1. CASE F!Reads(t) \/ F!ReadFile(t) \/ F!Info(t) \/ F!Compare(t) \/ F!MakeDir(t) \/ F!Missing(t)
  BY <1>1, LookedStep DEF F!Reads, F!ReadFile, F!Info, F!Compare, F!MakeDir, F!OnFiles, F!OnTwo
<1> QED BY <1>1, AskActStep, WriteStep, EditStep, CopyStep DEF F!OnFile

-----------------------------------------------------------------------------
(* Mail, calendar and commands.                                            *)

LEMMA OutwardStep ==
  ASSUME ConsentAssumption, ConsentInv, NEW t \in Tasks, F!Outwards(t)
  PROVE  ConsentInv'
<1>1. ASSUME NEW op \in F!Outward, NEW place \in {"asking whom", "asking", "acting", "done"},
             F!Drafted(t, op, place)
      PROVE  ConsentInv'
  <2> DEFINE r == [F!Idle EXCEPT !.pc = place, !.op = IF place = "done" THEN "none" ELSE op]
  <2>1. /\ task[t].pc = "idle" /\ task' = [task EXCEPT ![t] = r]
        /\ UNCHANGED <<F!listVars, F!fileVars, F!actVars, answer, edited>>
    BY <1>1 DEF F!Drafted, F!Idle
  <2>2. r \in GoodTasks /\ r.pc = place /\ r.op # "edit"
    BY DEF F!Idle, GoodTasks, TaskRecords, TaskPcs, MaybeDirs, OnList, F!OnFiles, F!OnTwo, F!Outward,
       F!Files, AskedPc
  <2>3. Keeps(r, task[t]) /\ ~Holder(r)
    BY <2>2 DEF Keeps, Holder
  <2>4. answer[t] = "none"
    BY <2>1, NoAnswer DEF AskedPc
  <2>5. consent' \in [Tasks -> F!Replies] /\ trusted' \in BOOLEAN /\ event' \in BOOLEAN
    BY <2>1 DEF F!actVars, ConsentInv, ConsentTypes
  <2> HIDE DEF r
  <2> QED BY <2>1, <2>2, <2>3, <2>4, <2>5, TaskStep
<1>2. CASE F!DraftMail(t) \/ F!DraftEvent(t) \/ F!DraftCancel(t) \/ F!DraftCommand(t) \/ F!DraftOpen(t)
  BY <1>1, <1>2 DEF F!DraftMail, F!DraftEvent, F!DraftCancel, F!DraftCommand, F!DraftOpen, F!Fates,
     F!Asks, F!Outward
<1>3. CASE F!Recipient(t)
  <2>1. /\ task[t].pc = "asking whom" /\ answer' = [answer EXCEPT ![t] = "none"]
        /\ UNCHANGED <<F!listVars, F!fileVars, F!actVars, edited>>
        /\ F!Ends(t) \/ task' = [task EXCEPT ![t] = [task[t] EXCEPT !.pc = "asking"]]
    BY <1>3 DEF F!Recipient
  <2>2. consent' \in [Tasks -> F!Replies] /\ trusted' \in BOOLEAN /\ event' \in BOOLEAN
    BY <2>1 DEF F!actVars, ConsentInv, ConsentTypes
  <2>3. CASE F!Ends(t)
    BY <2>1, <2>2, <2>3, EndStep
  <2>4. CASE task' = [task EXCEPT ![t] = [task[t] EXCEPT !.pc = "asking"]]
    <3> DEFINE r == [task[t] EXCEPT !.pc = "asking"]
    <3>1. r \in GoodTasks /\ r.pc = "asking"
      BY <2>1, GoodTask DEF GoodTasks, TaskRecords, TaskPcs, OnList, AskedPc
    <3>2. Keeps(r, task[t]) /\ ~Holder(r)
      <4>0. /\ task[t] \in TaskRecords /\ task[t].op \notin F!OnFiles
        BY <2>1, GoodTask DEF GoodTasks
      <4>1. r.op # "edit"
        BY <4>0 DEF TaskRecords, F!OnFiles
      <4> QED BY <4>1, <3>1 DEF Keeps, Holder
    <3> HIDE DEF r
    <3> QED BY <2>1, <2>2, <2>4, <3>1, <3>2, TaskStep DEF AskedPc, r
  <2> QED BY <2>1, <2>3, <2>4
<1>4. CASE F!Trust(t)
  <2> DEFINE r == [task[t] EXCEPT !.pc = "acting"]
  <2>1. /\ task[t].pc = "asking" /\ task[t].op \in {"command", "open"} /\ F!Acts(t) /\ trusted' = TRUE
        /\ task' = [task EXCEPT ![t] = r] /\ UNCHANGED <<F!listVars, F!fileVars, event, edited>>
    BY <1>4 DEF F!Trust, F!Allowed, F!AsksAct
  <2>2. r \in GoodTasks /\ r.pc = "acting"
    BY <2>1, GoodTask DEF GoodTasks, TaskRecords, TaskPcs, OnList, F!OnFiles, F!OnTwo
  <2>3. Keeps(r, task[t]) /\ ~Holder(r)
    BY <2>2 DEF Keeps, Holder
  <2>4. trusted' \in BOOLEAN /\ event' \in BOOLEAN
    BY <2>1 DEF ConsentInv, ConsentTypes
  <2> HIDE DEF r
  <2> QED BY <2>1, <2>2, <2>3, <2>4, ActsTyped, TaskStep
<1>5. CASE F!RunCommand(t) \/ F!Launch(t)
  <2>1. task[t].pc = "acting" /\ F!Ends(t) /\ UNCHANGED <<F!listVars, F!fileVars, F!actVars, answer, edited>>
    BY <1>5 DEF F!RunCommand, F!Launch, F!Performs
  <2>2. answer[t] = "none"
    BY <2>1, NoAnswer DEF AskedPc
  <2>3. consent' \in [Tasks -> F!Replies] /\ trusted' \in BOOLEAN /\ event' \in BOOLEAN
    BY <2>1 DEF F!actVars, ConsentInv, ConsentTypes
  <2> QED BY <2>1, <2>2, <2>3, EndStep
<1>6. CASE F!Send(t) \/ F!Book(t) \/ F!Cancel(t)
  <2>1. F!Ends(t) /\ F!Acts(t) /\ UNCHANGED <<F!listVars, F!fileVars, trusted, edited>> /\ event' \in {event, TRUE, FALSE}
    BY <1>6 DEF F!Send, F!Book, F!Cancel
  <2>2. trusted' \in BOOLEAN /\ event' \in BOOLEAN
    BY <2>1 DEF ConsentInv, ConsentTypes
  <2> QED BY <2>1, <2>2, ActsTyped, EndStep
<1> QED BY <1>2, <1>3, <1>4, <1>5, <1>6 DEF F!Outwards

LEMMA ConsentStep ==
  ASSUME ConsentAssumption, ConsentInv, [F!Next]_F!consentVars
  PROVE  ConsentInv'
<1>1. CASE UNCHANGED F!consentVars
  BY <1>1 DEF F!consentVars, ConsentInv, ConsentTypes, AnswerInv, EditInv, Editing, ListInv, Agrees,
     Holder, F!NoChangeLost
<1>2. CASE F!Next
  BY <1>2, BridgeStep, AskAccessStep, OnFileStep, OutwardStep, RevokeStep, UserStep DEF F!Next
<1> QED BY <1>1, <1>2

-----------------------------------------------------------------------------
(* A credential (credentials/oauth.py, vault.py): the newest refresh token *)
(* is stored, held by the refresh that will store it, or lost.             *)

CredentialAssumption == None \notin Requests /\ MaxTokens \in Nat \ {0}

Uses == [pc : {"idle", "refreshing", "storing", "registering", "over"}, data : C!Bundles \cup {C!NoSecret},
         new : 0 .. MaxTokens, stale : BOOLEAN]
FlowPcs == {"unused", "asked", "pending", "aged", "exchanging", "storing", "registering", "pasted", "over"}
Lookers == Requests \cup {None}

CredentialTypes ==
  /\ keychain \in C!Bundles \cup {C!NoSecret} /\ row \in BOOLEAN
  /\ flow \in [Requests -> FlowPcs] /\ use \in [Tasks -> Uses]
  /\ issued \in [Requests -> 0 .. MaxTokens] /\ granted \in Requests \cup {None}
  /\ look \in [Lookers -> {"none", "asked", "in", "out"}] /\ late \in SUBSET Lookers
  /\ routed \in BOOLEAN /\ overtaken \in BOOLEAN /\ overlooked \in BOOLEAN
  /\ deleting \in BOOLEAN /\ overstored \in BOOLEAN /\ lost \in BOOLEAN /\ mixed \in BOOLEAN

InFlight(c) == use[c].pc \in {"refreshing", "storing"}
\* Before its bundle is stored an authorization has none anywhere.
Unstored == {f \in Requests : flow[f] \notin {"registering", "pasted", "over"}}
Result(c) == IF use[c].new = 0 THEN use[c].data.refresh ELSE use[c].new

\* A refresh holds what it has read, which is what is stored if nothing has been stored since.
UseInv ==
  \A c \in Tasks : InFlight(c) =>
    /\ use[c].data \in C!Bundles /\ use[c].data.refresh > 0 /\ use[c].data.auth \notin Unstored
    /\ ~use[c].stale => /\ keychain # C!NoSecret /\ keychain.auth = use[c].data.auth
                        /\ keychain.refresh = use[c].data.refresh
    /\ use[c].pc = "storing" /\ use[c].new > 0 =>
         use[c].new = use[c].data.refresh + 1 /\ use[c].new <= issued[use[c].data.auth]

\* The newest token of the authorization granted is stored, lost, or about to be stored.
GrantInv ==
  /\ keychain # C!NoSecret => keychain.auth \notin Unstored
  /\ granted # None => granted \notin Unstored
  /\ ~overstored /\ granted = None => keychain = C!NoSecret
  /\ ~overstored /\ granted # None =>
       /\ keychain # C!NoSecret /\ keychain.auth = granted
       /\ keychain.refresh <= issued[granted]
       /\ \A c \in Tasks : InFlight(c) /\ use[c].data.auth = granted => use[c].data.refresh <= keychain.refresh
       /\ \/ keychain.refresh = issued[granted] \/ lost
          \/ \E c \in Tasks : use[c].pc = "storing" /\ use[c].data.auth = granted /\ Result(c) = issued[granted]

Registering == (\E f \in Requests : flow[f] \in {"registering", "pasted"}) \/ \E c \in Tasks : use[c].pc = "registering"

\* What is still to be written of the row agrees with what is stored.
RegisteredInv ==
  ~mixed /\ ~overstored =>
    /\ deleting => keychain = C!NoSecret /\ ~Registering
    /\ Registering => keychain # C!NoSecret
    /\ ~deleting /\ ~Registering => (row <=> keychain # C!NoSecret)

Taken == {x \in Lookers : look[x] \in {"in", "out"}}
Quiet == ~deleting /\ (\A x \in Lookers : look[x] # "asked") /\ \A f \in Requests : flow[f] # "registering"

\* The look taken last has seen what is stored, if nothing is still to be looked at.
RouteInv ==
  /\ late \subseteq Taken
  /\ \A f \in Requests : flow[f] # "over" => look[f] = "none"
  /\ deleting => look[None] = "none"
  /\ \A x, y \in Taken \ late : x = y
  /\ Quiet /\ ~overlooked /\ ~overstored =>
       /\ \A x \in Taken \ late : look[x] = "in" <=> keychain # C!NoSecret
       /\ Taken \ late = {} /\ ~overtaken => (routed <=> keychain # C!NoSecret)

CredentialInv == CredentialTypes /\ UseInv /\ GrantInv /\ RegisteredInv /\ RouteInv

LEMMA UnusedUse ==
  ASSUME CredentialAssumption, NEW place \in {"idle", "refreshing", "storing", "registering", "over"},
         NEW data \in C!Bundles \cup {C!NoSecret}
  PROVE  /\ [C!Unused EXCEPT !.pc = place] \in Uses /\ [C!Unused EXCEPT !.pc = place].pc = place
         /\ [C!Unused EXCEPT !.pc = place, !.data = data] \in Uses
         /\ [C!Unused EXCEPT !.pc = place, !.data = data].pc = place
         /\ [C!Unused EXCEPT !.pc = place, !.data = data].data = data
<1>1. C!Unused \in Uses
  BY DEF C!Unused, Uses, CredentialAssumption
<1> QED BY <1>1 DEF Uses

LEMMA InitCredentials ==
  ASSUME CredentialAssumption, C!Init
  PROVE  CredentialInv
<1>1. C!Unused \in Uses /\ C!Unused.pc = "idle"
  BY DEF C!Unused, Uses, CredentialAssumption
<1>2. CredentialTypes
  <2>1. use \in [Tasks -> Uses]
    BY <1>1 DEF C!Init
  <2>2. issued \in [Requests -> 0 .. MaxTokens]
    BY DEF C!Init, CredentialAssumption
  <2>3. flow \in [Requests -> FlowPcs] /\ look \in [Lookers -> {"none", "asked", "in", "out"}] /\ late \in SUBSET Lookers
    BY DEF C!Init, FlowPcs, Lookers
  <2>4. routed \in BOOLEAN /\ overlooked \in BOOLEAN
    BY Zenon DEF C!Init
  <2>5. overtaken \in BOOLEAN /\ deleting \in BOOLEAN /\ overstored \in BOOLEAN /\ lost \in BOOLEAN /\ mixed \in BOOLEAN /\ row \in BOOLEAN
    BY Zenon DEF C!Init
  <2>6. keychain \in C!Bundles \cup {C!NoSecret} /\ granted \in Requests \cup {None}
    BY DEF C!Init
  <2> QED BY <2>1, <2>2, <2>3, <2>4, <2>5, <2>6 DEF CredentialTypes
<1>3. UseInv
  BY <1>1 DEF C!Init, UseInv, InFlight
<1>4. GrantInv
  BY DEF C!Init, GrantInv
<1>5. RegisteredInv
  BY <1>1 DEF C!Init, RegisteredInv, Registering
<1>6. RouteInv
  <2>1. Taken = {} /\ late = {}
    BY DEF C!Init, Taken, Lookers
  <2>2. ~overlooked => ~routed
    BY DEF C!Init
  <2>3. keychain = C!NoSecret /\ deleting = FALSE
    BY DEF C!Init
  <2>4. \A f \in Requests : look[f] = "none"
    BY DEF C!Init
  <2> QED BY <2>1, <2>2, <2>3, <2>4 DEF RouteInv
<1> QED BY <1>2, <1>3, <1>4, <1>5, <1>6 DEF CredentialInv

LEMMA CredentialProperties ==
  ASSUME CredentialAssumption, CredentialInv
  PROVE  C!CredentialCurrent /\ C!RoutedIfConfigured /\ C!CredentialTypeOK
<1> USE DEF CredentialInv
<1>1. C!CredentialCurrent
  <2>1. C!RowPending <=> deleting \/ Registering
    BY DEF C!RowPending, Registering
  <2>2. ~C!RowPending /\ ~mixed /\ ~overstored => (row <=> keychain # C!NoSecret)
    BY <2>1 DEF RegisteredInv
  <2> QED BY <2>2 DEF GrantInv, C!CredentialCurrent
<1>2. DOMAIN look = Lookers
  BY DEF CredentialTypes
<1>3. C!RoutedIfConfigured
  <2> SUFFICES ASSUME ~deleting /\ (\A x \in DOMAIN look : look[x] = "none") /\ (\A f \in Requests : flow[f] # "registering"),
                      ~overlooked /\ ~overtaken /\ ~overstored
               PROVE  routed <=> keychain # C!NoSecret
    BY DEF C!RoutedIfConfigured
  <2>1. Quiet /\ Taken = {}
    BY <1>2 DEF Quiet, Taken
  <2> QED BY <2>1 DEF RouteInv
<1>4. C!CredentialTypeOK
  <2>1. \A c \in Tasks :
          /\ use[c].pc \in {"idle", "refreshing", "storing", "registering", "over"}
          /\ use[c].pc \in {"refreshing", "storing"} => use[c].data \in C!Bundles /\ use[c].data.refresh > 0
    BY DEF CredentialTypes, UseInv, InFlight, Uses
  <2>2. late \subseteq {x \in DOMAIN look : look[x] \in {"in", "out"}}
    BY <1>2 DEF RouteInv, Taken
  <2> QED BY <2>1, <2>2 DEF C!CredentialTypeOK, CredentialTypes, FlowPcs, Lookers
<1> QED BY <1>1, <1>3, <1>4

-----------------------------------------------------------------------------
(* What a step keeps.                                                      *)

\* Nothing of the routing is touched but for what is stored.
LEMMA RouteKept ==
  ASSUME CredentialTypes, RouteInv, UNCHANGED <<routed, look, late, overtaken, overlooked>>,
         deleting' => look[None] = "none", flow' \in [Requests -> FlowPcs],
         \A f \in Requests : flow[f] = "over" => flow'[f] = "over",
         Quiet' /\ ~overstored' => Quiet /\ ~overstored /\ (keychain' # C!NoSecret <=> keychain # C!NoSecret)
  PROVE  RouteInv'
<1>1. Taken' = Taken
  BY DEF Taken
<1>2. \A f \in Requests : flow'[f] # "over" => look'[f] = "none"
  BY DEF RouteInv
<1>3. late' \subseteq Taken' /\ (deleting' => look'[None] = "none") /\ \A x, y \in Taken' \ late' : x = y
  BY <1>1 DEF RouteInv
<1>4. ASSUME Quiet', ~overlooked', ~overstored'
      PROVE  /\ \A x \in Taken' \ late' : look'[x] = "in" <=> keychain' # C!NoSecret
             /\ Taken' \ late' = {} /\ ~overtaken' => (routed' <=> keychain' # C!NoSecret)
  BY <1>1, <1>4 DEF RouteInv
<1> QED BY <1>2, <1>3, <1>4 DEF RouteInv

\* A flow moves on, its bundle not stored, and the rest stays.
LEMMA FlowStep ==
  ASSUME CredentialAssumption, CredentialInv, flow' \in [Requests -> FlowPcs],
         \A f \in Requests : /\ flow[f] = "over" => flow'[f] = "over"
                             /\ flow[f] \in {"registering", "pasted"} => flow'[f] = flow[f]
                             /\ flow'[f] \in {"registering", "pasted"} => flow[f] = flow'[f]
                             /\ flow'[f] # "over" => flow[f] # "over",
         issued' \in [Requests -> 0 .. MaxTokens], \A f \in Requests : issued'[f] = issued[f] \/ f \in Unstored,
         UNCHANGED <<C!storeVars, C!routeVars, use, deleting>>
  PROVE  CredentialInv'
<1> USE DEF CredentialInv, C!storeVars, C!routeVars
<1>1. Unstored' \subseteq Unstored
  BY DEF Unstored
<1>2. CredentialTypes'
  BY DEF CredentialTypes
<1>3. UseInv'
  <2> SUFFICES ASSUME NEW c \in Tasks, InFlight(c)
               PROVE  /\ use[c].data \in C!Bundles /\ use[c].data.refresh > 0 /\ use[c].data.auth \notin Unstored'
                      /\ ~use[c].stale => /\ keychain # C!NoSecret /\ keychain.auth = use[c].data.auth
                                          /\ keychain.refresh = use[c].data.refresh
                      /\ use[c].pc = "storing" /\ use[c].new > 0 =>
                           use[c].new = use[c].data.refresh + 1 /\ use[c].new <= issued'[use[c].data.auth]
    BY DEF UseInv, InFlight
  <2>1. use[c].data.auth \in Requests
    BY DEF UseInv, C!Bundles
  <2>2. issued'[use[c].data.auth] = issued[use[c].data.auth]
    BY <2>1 DEF UseInv
  <2> QED BY <1>1, <2>2 DEF UseInv
<1>4. GrantInv'
  <2>1. granted # None => granted \notin Unstored /\ issued'[granted] = issued[granted]
    BY DEF GrantInv, CredentialTypes
  <2>2. \A c \in Tasks : (InFlight(c) <=> InFlight(c)') /\ Result(c)' = Result(c)
    BY DEF InFlight, Result
  <2> QED BY <1>1, <2>1, <2>2 DEF GrantInv
<1>5. RegisteredInv'
  BY DEF RegisteredInv, Registering
<1>6. RouteInv'
  BY RouteKept DEF Quiet, RouteInv
<1> QED BY <1>2, <1>3, <1>4, <1>5, <1>6

\* What is in flight goes stale when something is stored.
LEMMA StoredStep ==
  ASSUME CredentialAssumption, CredentialInv, NEW secret \in C!Bundles \cup {C!NoSecret},
         NEW uses \in [Tasks -> Uses],
         C!Stores(secret, uses),
         flow' \in [Requests -> FlowPcs], Unstored' \subseteq Unstored, issued' = issued,
         \A c \in Tasks : uses[c] = use[c] \/ uses[c].pc \in {"registering"}
  PROVE  /\ use' \in [Tasks -> Uses] /\ UseInv' /\ mixed' \in BOOLEAN
         /\ keychain' = secret /\ mixed' = C!RowPending
         /\ \A c \in Tasks : /\ InFlight(c)' => InFlight(c) /\ use'[c].data = use[c].data /\ use'[c].new = use[c].new
                             /\ use'[c].pc = uses[c].pc
<1> USE DEF CredentialInv
<1>1. keychain' = secret /\ mixed' = C!RowPending
  BY DEF C!Stores
<1>2. ASSUME NEW c \in Tasks
      PROVE  /\ use'[c] \in Uses /\ use'[c].pc = uses[c].pc
             /\ uses[c].pc \in {"refreshing", "storing"} => use'[c].stale /\ use'[c].data = uses[c].data /\ use'[c].new = uses[c].new
  <2>1. uses[c] \in Uses
    OBVIOUS
  <2>2. CASE uses[c].pc \in {"refreshing", "storing"}
    <3>1. use'[c] = [uses[c] EXCEPT !.stale = TRUE]
      BY <2>2 DEF C!Stores
    <3> QED BY <2>1, <3>1 DEF Uses
  <2>3. CASE uses[c].pc \notin {"refreshing", "storing"}
    <3>1. use'[c] = uses[c]
      BY <2>3 DEF C!Stores
    <3> QED BY <2>1, <2>3, <3>1
  <2> QED BY <2>2, <2>3
<1>3. use' \in [Tasks -> Uses]
  BY <1>2 DEF C!Stores
<1>4. ASSUME NEW c \in Tasks, InFlight(c)'
      PROVE  InFlight(c) /\ use'[c].data = use[c].data /\ use'[c].new = use[c].new /\ use'[c].stale /\ use'[c].pc = use[c].pc
  <2>1. uses[c].pc \in {"refreshing", "storing"}
    BY <1>2, <1>4 DEF InFlight
  <2>2. uses[c] = use[c]
    BY <2>1
  <2> QED BY <1>2, <2>1, <2>2 DEF InFlight
<1>5. UseInv'
  BY <1>4 DEF UseInv
<1>6. mixed' \in BOOLEAN
  BY <1>1 DEF C!RowPending, CredentialTypes
<1> QED BY <1>1, <1>2, <1>3, <1>4, <1>5, <1>6

\* A use moves on and holds nothing any more, or begins to refresh.
LEMMA TokenStep ==
  ASSUME CredentialAssumption, CredentialInv, NEW c \in Tasks, NEW r \in Uses,
         use' = [use EXCEPT ![c] = r],
         \/ r.pc \in {"idle", "over"}
         \/ r.pc = "refreshing" /\ r.data = keychain /\ keychain # C!NoSecret /\ keychain.refresh > 0,
         use[c].pc = "registering" => mixed' \/ (row' = TRUE),
         row' \in {row, TRUE}, row' = row \/ use[c].pc = "registering",
         mixed' \in BOOLEAN, mixed => mixed', lost' \in BOOLEAN, lost => lost',
         use[c].pc = "storing" /\ use[c].new > 0 => lost',
         issued' \in [Requests -> 0 .. MaxTokens],
         \/ issued' = issued
         \/ lost' /\ \A f \in Requests : issued'[f] >= issued[f],
         UNCHANGED <<keychain, granted, overstored, C!routeVars, flow, deleting>>
  PROVE  CredentialInv'
<1> USE DEF CredentialInv
<1>0. /\ use'[c] = r /\ \A d \in Tasks \ {c} : use'[d] = use[d]
      /\ use' \in [Tasks -> Uses]
  BY DEF CredentialTypes
<1>1. Unstored' = Unstored
  BY DEF Unstored
<1>2. CredentialTypes'
  BY <1>0 DEF CredentialTypes, C!routeVars
<1>3. UseInv'
  <2> SUFFICES ASSUME NEW d \in Tasks, InFlight(d)'
               PROVE  /\ use'[d].data \in C!Bundles /\ use'[d].data.refresh > 0 /\ use'[d].data.auth \notin Unstored
                      /\ ~use'[d].stale => /\ keychain # C!NoSecret /\ keychain.auth = use'[d].data.auth
                                           /\ keychain.refresh = use'[d].data.refresh
                      /\ use'[d].pc = "storing" /\ use'[d].new > 0 =>
                           use'[d].new = use'[d].data.refresh + 1 /\ use'[d].new <= issued'[use'[d].data.auth]
    BY <1>1 DEF UseInv
  <2>1. CASE d = c
    BY <1>0, <2>1 DEF InFlight, GrantInv, CredentialTypes
  <2>2. CASE d # c
    <3>1. use'[d] = use[d] /\ InFlight(d)
      BY <1>0, <2>2 DEF InFlight
    <3>2. use[d].data.auth \in Requests /\ use[d].new \in Nat
      BY <3>1 DEF UseInv, C!Bundles, CredentialTypes, Uses
    <3>3. issued'[use[d].data.auth] >= issued[use[d].data.auth] /\ issued'[use[d].data.auth] \in Nat
          /\ issued[use[d].data.auth] \in Nat
      BY <3>2 DEF CredentialTypes, CredentialAssumption
    <3> QED BY <3>1, <3>2, <3>3 DEF UseInv
  <2> QED BY <2>1, <2>2
<1>4. GrantInv'
  <2> SUFFICES ASSUME ~overstored, granted # None
               PROVE  /\ keychain.refresh <= issued'[granted]
                      /\ \A d \in Tasks : InFlight(d)' /\ use'[d].data.auth = granted => use'[d].data.refresh <= keychain.refresh
                      /\ \/ keychain.refresh = issued'[granted] \/ lost'
                         \/ \E d \in Tasks : use'[d].pc = "storing" /\ use'[d].data.auth = granted /\ Result(d)' = issued'[granted]
    BY <1>1 DEF GrantInv
  <2>1. granted \in Requests /\ keychain \in C!Bundles
    BY DEF CredentialTypes, GrantInv
  <2>2. keychain.refresh \in Nat /\ issued[granted] \in Nat /\ issued'[granted] \in Nat /\ issued'[granted] >= issued[granted]
    BY <2>1 DEF C!Bundles, CredentialTypes, CredentialAssumption
  <2>3. keychain.refresh <= issued'[granted]
    BY <2>2 DEF GrantInv
  <2>4. ASSUME NEW d \in Tasks, InFlight(d)',
               use'[d].data.auth = granted PROVE use'[d].data.refresh <= keychain.refresh
    <3>1. CASE d = c
      BY <1>0, <2>2, <2>4, <3>1 DEF InFlight
    <3>2. CASE d # c
      BY <1>0, <2>4, <3>2 DEF InFlight, GrantInv
    <3> QED BY <3>1, <3>2
  <2>5. \/ keychain.refresh = issued'[granted] \/ lost'
        \/ \E d \in Tasks : use'[d].pc = "storing" /\ use'[d].data.auth = granted /\ Result(d)' = issued'[granted]
    <3>1. CASE issued' # issued
      BY <3>1
    <3>2. CASE issued' = issued /\ (keychain.refresh = issued[granted] \/ lost)
      BY <3>2
    <3>3. CASE issued' = issued /\ \E d \in Tasks : use[d].pc = "storing" /\ use[d].data.auth = granted /\ Result(d) = issued[granted]
      <4>1. PICK d \in Tasks : use[d].pc = "storing" /\ use[d].data.auth = granted /\ Result(d) = issued[granted]
        BY <3>3
      <4>2. CASE d # c
        BY <1>0, <3>3, <4>1, <4>2 DEF Result
      <4>3. CASE d = c /\ use[c].new > 0
        BY <4>1, <4>3
      <4>4. CASE d = c /\ ~(use[c].new > 0)
        <5>1. use[c].new = 0
          BY <4>4 DEF CredentialTypes, Uses, CredentialAssumption
        <5>2. use[c].data.refresh = issued[granted]
          BY <4>1, <4>4, <5>1 DEF Result
        <5>3. use[c].data.refresh <= keychain.refresh /\ keychain.refresh <= issued[granted]
          BY <4>1, <4>4 DEF GrantInv, InFlight
        <5> QED BY <2>2, <3>3, <5>2, <5>3
      <4> QED BY <4>2, <4>3, <4>4
    <3> QED BY <3>1, <3>2, <3>3 DEF GrantInv
  <2> QED BY <2>3, <2>4, <2>5
<1>5. RegisteredInv'
  <2> SUFFICES ASSUME ~mixed', ~overstored
               PROVE  /\ deleting => keychain = C!NoSecret /\ ~Registering'
                      /\ Registering' => keychain # C!NoSecret
                      /\ ~deleting /\ ~Registering' => (row' <=> keychain # C!NoSecret)
    BY DEF RegisteredInv
  <2>1. Registering' => Registering
    BY <1>0 DEF Registering
  <2>2. ~mixed
    OBVIOUS
  <2>3. CASE use[c].pc = "registering"
    <3>1. Registering /\ row' = TRUE
      BY <2>3 DEF Registering
    <3> QED BY <2>1, <2>2, <3>1 DEF RegisteredInv
  <2>4. CASE use[c].pc # "registering"
    <3>1. row' = row
      BY <2>4
    <3>2. Registering => Registering'
      BY <1>0, <2>4 DEF Registering
    <3> QED BY <2>1, <2>2, <3>1, <3>2 DEF RegisteredInv
  <2> QED BY <2>3, <2>4
<1>6. RouteInv'
  BY RouteKept DEF Quiet, RouteInv, CredentialTypes, C!routeVars
<1> QED BY <1>2, <1>3, <1>4, <1>5, <1>6

-----------------------------------------------------------------------------
(* The steps.                                                              *)

\* A new authorization is stored; the look at it follows, or is missed.
LEMMA StoredAnew ==
  ASSUME CredentialAssumption, CredentialInv, NEW f \in Requests, NEW to \in {"registering", "pasted"},
         f \in Unstored, flow' = [flow EXCEPT ![f] = to],
         C!Stores([auth |-> f, refresh |-> issued[f], fresh |-> TRUE], use),
         granted' = f, overstored' = FALSE, lost' = FALSE,
         overlooked' \in BOOLEAN, to = "pasted" => overlooked' = TRUE,
         UNCHANGED <<row, routed, look, late, overtaken, deleting, issued>>
  PROVE  CredentialInv'
<1> USE DEF CredentialInv
<1> DEFINE bundle == [auth |-> f, refresh |-> issued[f], fresh |-> TRUE]
<1>1. /\ flow' = [flow EXCEPT ![f] = to] /\ C!Stores(bundle, use)
      /\ granted' = f /\ overstored' = FALSE /\ lost' = FALSE
      /\ UNCHANGED <<row, routed, look, late, overtaken, deleting, issued>>
  OBVIOUS
<1>2. bundle \in C!Bundles /\ bundle.auth = f /\ bundle.refresh = issued[f] /\ bundle # C!NoSecret
  <2>1. bundle \in C!Bundles /\ bundle.auth = f
    BY DEF C!Bundles, CredentialTypes
  <2> QED BY <2>1 DEF C!NoSecret, CredentialAssumption
<1>3. /\ flow' \in [Requests -> FlowPcs] /\ flow'[f] = to /\ \A g \in Requests \ {f} : flow'[g] = flow[g]
      /\ f \in Unstored
  BY <1>1 DEF CredentialTypes, FlowPcs, Unstored
<1>4. Unstored' \subseteq Unstored \ {f}
  BY <1>3 DEF Unstored
<1> HIDE DEF bundle
<1>5. use \in [Tasks -> Uses]
  BY DEF CredentialTypes
<1>6. /\ use' \in [Tasks -> Uses] /\ UseInv' /\ mixed' \in BOOLEAN
      /\ keychain' = bundle /\ mixed' = C!RowPending
      /\ \A c \in Tasks : /\ InFlight(c)' => InFlight(c) /\ use'[c].data = use[c].data /\ use'[c].new = use[c].new
                          /\ use'[c].pc = use[c].pc
  BY <1>1, <1>2, <1>3, <1>4, <1>5, StoredStep
<1>7. CredentialTypes'
  <2>1. overstored' \in BOOLEAN /\ lost' \in BOOLEAN
    BY <1>1
  <2>2. keychain' \in C!Bundles \cup {C!NoSecret} /\ granted' \in Requests \cup {None}
    BY <1>1, <1>2, <1>6
  <2>3. UNCHANGED <<row, look, late, routed, overtaken, deleting, issued>>
    BY <1>1
  <2> QED BY <1>3, <1>6, <2>1, <2>2, <2>3 DEF CredentialTypes
<1>8. GrantInv'
  <2>1. \A c \in Tasks : InFlight(c)' => use'[c].data.auth # f
    BY <1>3, <1>6 DEF UseInv
  <2>2. keychain'.auth = f /\ keychain'.refresh = issued'[f] /\ keychain' # C!NoSecret /\ granted' = f /\ f # None
    BY <1>1, <1>2, <1>6 DEF CredentialAssumption
  <2>3. issued'[f] \in Nat
    BY <1>7 DEF CredentialTypes, CredentialAssumption
  <2>4. f \notin Unstored'
    BY <1>4
  <2> QED BY <2>1, <2>2, <2>3, <2>4 DEF GrantInv
<1>9. RegisteredInv'
  <2>1. ~mixed' => ~deleting'
    BY <1>1, <1>6 DEF C!RowPending
  <2>2. Registering'
    BY <1>3 DEF Registering
  <2> QED BY <1>2, <1>6, <2>1, <2>2 DEF RegisteredInv
<1>10. RouteInv'
  <2>1. ~Quiet' \/ overlooked'
    BY <1>3 DEF Quiet
  <2>2. \A g \in Requests : flow'[g] # "over" => look'[g] = "none"
    <3>1. \A g \in Requests : flow'[g] # "over" => flow[g] # "over"
      BY <1>3 DEF Unstored
    <3> QED BY <1>1, <3>1 DEF RouteInv
  <2>3. Taken' = Taken
    BY <1>1 DEF Taken
  <2>4. late' \subseteq Taken' /\ (deleting' => look'[None] = "none") /\ \A x, y \in Taken' \ late' : x = y
    BY <1>1, <2>3 DEF RouteInv
  <2> QED BY <2>1, <2>2, <2>4 DEF RouteInv
<1> QED BY <1>6, <1>7, <1>8, <1>9, <1>10

LEMMA StoreBundleStep ==
  ASSUME CredentialAssumption, CredentialInv, NEW f \in Requests, C!StoreBundle(f) \/ C!Paste(f)
  PROVE  CredentialInv'
<1>1. overlooked \in BOOLEAN
  BY DEF CredentialInv, CredentialTypes
<1>2. CASE C!StoreBundle(f)
  <2>1. f \in Unstored
    BY <1>2 DEF C!StoreBundle, Unstored
  <2> QED BY <1>1, <1>2, <2>1, StoredAnew DEF C!StoreBundle, C!Goes, C!routeVars
<1>3. CASE C!Paste(f)
  <2>1. f \in Unstored
    BY <1>3 DEF C!Paste, Unstored
  <2> QED BY <1>3, <2>1, StoredAnew DEF C!Paste, C!Goes
<1> QED BY <1>2, <1>3

LEMMA RegisterStep ==
  ASSUME CredentialAssumption, CredentialInv, NEW f \in Requests, C!Register(f)
  PROVE  CredentialInv'
<1> USE DEF CredentialInv
<1>1. /\ flow[f] = "registering" /\ flow' = [flow EXCEPT ![f] = "over"] /\ row' = TRUE
      /\ look' = [look EXCEPT ![f] = "asked"]
      /\ UNCHANGED <<keychain, granted, overstored, lost, mixed, use, deleting, deletes, issued,
                     routed, late, overtaken, overlooked>>
  BY DEF C!Register, C!Goes, C!Registered
<1>2. /\ flow' \in [Requests -> FlowPcs] /\ flow'[f] = "over" /\ \A g \in Requests \ {f} : flow'[g] = flow[g]
  BY <1>1 DEF CredentialTypes, FlowPcs
<1>3. /\ look' \in [Lookers -> {"none", "asked", "in", "out"}] /\ look'[f] = "asked" /\ \A x \in Lookers \ {f} : look'[x] = look[x]
      /\ look[f] = "none" /\ f \in Lookers /\ f # None
  BY <1>1 DEF CredentialTypes, Lookers, RouteInv, CredentialAssumption
<1>4. Unstored' = Unstored
  BY <1>1, <1>2 DEF Unstored
<1>5. CredentialTypes'
  <2>1. row' \in BOOLEAN
    BY <1>1
  <2> QED BY <1>1, <1>2, <1>3, <2>1 DEF CredentialTypes
<1>6. UseInv'
  BY <1>1, <1>4 DEF UseInv, InFlight
<1>7. GrantInv'
  BY <1>1, <1>4 DEF GrantInv, InFlight, Result
<1>8. RegisteredInv'
  <2>1. Registering
    BY <1>1 DEF Registering
  <2>2. row' = TRUE
    BY <1>1
  <2>3. UNCHANGED <<mixed, overstored, deleting, keychain>>
    BY <1>1
  <2> QED BY <2>1, <2>2, <2>3 DEF RegisteredInv
<1>9. RouteInv'
  <2>1. Taken' = Taken
    BY <1>3 DEF Taken
  <2>2. ~Quiet'
    BY <1>3 DEF Quiet
  <2>3. \A g \in Requests : flow'[g] # "over" => look'[g] = "none"
    BY <1>2, <1>3 DEF RouteInv, Lookers
  <2>4. look'[None] = look[None]
    BY <1>3 DEF Lookers
  <2>5. late' \subseteq Taken' /\ (deleting' => look'[None] = "none") /\ \A x, y \in Taken' \ late' : x = y
    BY <1>1, <2>1, <2>4 DEF RouteInv
  <2> QED BY <2>2, <2>3, <2>5 DEF RouteInv
<1> QED BY <1>5, <1>6, <1>7, <1>8, <1>9

\* What was pasted is registered.
LEMMA RegisterPastedStep ==
  ASSUME CredentialAssumption, CredentialInv, NEW f \in Requests, C!RegisterPasted(f)
  PROVE  CredentialInv'
<1> USE DEF CredentialInv
<1>1. /\ flow[f] = "pasted" /\ flow' = [flow EXCEPT ![f] = "over"] /\ row' = TRUE
      /\ UNCHANGED <<keychain, granted, overstored, lost, mixed, use, deleting, issued,
                     routed, look, late, overtaken, overlooked>>
  BY DEF C!RegisterPasted, C!Goes, C!Registered, C!routeVars
<1>2. /\ flow' \in [Requests -> FlowPcs] /\ flow'[f] = "over" /\ \A g \in Requests \ {f} : flow'[g] = flow[g]
  BY <1>1 DEF CredentialTypes, FlowPcs
<1>3. Unstored' = Unstored
  BY <1>1, <1>2 DEF Unstored
<1>4. CredentialTypes'
  <2>1. row' \in BOOLEAN
    BY <1>1
  <2> QED BY <1>1, <1>2, <2>1 DEF CredentialTypes
<1>5. UseInv'
  BY <1>1, <1>3 DEF UseInv, InFlight
<1>6. GrantInv'
  BY <1>1, <1>3 DEF GrantInv, InFlight, Result
<1>7. RegisteredInv'
  <2>1. Registering
    BY <1>1 DEF Registering
  <2>2. row' = TRUE
    BY <1>1
  <2>3. UNCHANGED <<mixed, overstored, deleting, keychain>>
    BY <1>1
  <2> QED BY <2>1, <2>2, <2>3 DEF RegisteredInv
<1>8. RouteInv'
  <2>1. Quiet' => Quiet
    BY <1>1, <1>2 DEF Quiet
  <2>2. \A g \in Requests : flow[g] = "over" => flow'[g] = "over"
    BY <1>1, <1>2
  <2>3. deleting' => look[None] = "none"
    BY <1>1 DEF RouteInv
  <2> QED BY <1>1, <1>2, <2>1, <2>2, <2>3, RouteKept
<1> QED BY <1>4, <1>5, <1>6, <1>7, <1>8

\* The token expires.
LEMMA ExpireStep ==
  ASSUME CredentialAssumption, CredentialInv, C!Expire
  PROVE  CredentialInv'
<1> USE DEF CredentialInv
<1>1. keychain \in C!Bundles /\ keychain # C!NoSecret
  BY DEF C!Expire, CredentialTypes, C!NoSecret
<1>2. /\ keychain' \in C!Bundles /\ keychain' # C!NoSecret /\ keychain'.auth = keychain.auth /\ keychain'.refresh = keychain.refresh
  <2>1. keychain' = [keychain EXCEPT !.fresh = FALSE]
    BY DEF C!Expire
  <2>2. keychain' \in C!Bundles /\ keychain'.auth = keychain.auth /\ keychain'.refresh = keychain.refresh
    BY <1>1, <2>1 DEF C!Bundles
  <2>3. keychain'.auth \in Requests
    BY <2>2 DEF C!Bundles
  <2> QED BY <2>2, <2>3 DEF C!NoSecret, CredentialAssumption
<1>3. UNCHANGED <<row, granted, overstored, lost, mixed, C!routeVars, flow, use, deleting, issued>>
  BY DEF C!Expire
<1>4. Unstored' = Unstored
  BY <1>3 DEF Unstored
<1>5. CredentialTypes'
  BY <1>2, <1>3 DEF CredentialTypes, C!routeVars
<1>6. UseInv'
  BY <1>1, <1>2, <1>3, <1>4 DEF UseInv, InFlight
<1>7. GrantInv'
  BY <1>1, <1>2, <1>3, <1>4 DEF GrantInv, InFlight, Result
<1>8. RegisteredInv'
  BY <1>1, <1>2, <1>3 DEF RegisteredInv, Registering
<1>9. RouteInv'
  <2>1. deleting' => look[None] = "none"
    BY <1>3 DEF RouteInv
  <2>2. Quiet' <=> Quiet
    BY <1>3 DEF Quiet, C!routeVars
  <2>3. flow' \in [Requests -> FlowPcs]
    BY <1>3 DEF CredentialTypes
  <2> QED BY <1>1, <1>2, <1>3, <2>1, <2>2, <2>3, RouteKept DEF C!routeVars
<1> QED BY <1>5, <1>6, <1>7, <1>8, <1>9

\* The provider answers a refresh.
LEMMA PostStep ==
  ASSUME CredentialAssumption, CredentialInv, NEW c \in Tasks, C!Post(c)
  PROVE  CredentialInv'
<1> USE DEF CredentialInv
<1>1. PICK f : f = use[c].data.auth
  OBVIOUS
<1>2. /\ use[c].pc = "refreshing" /\ use[c].data.refresh = issued[f]
      /\ UNCHANGED <<C!storeVars, C!routeVars, flow, deleting>>
  BY <1>1 DEF C!Post
<1>3. f \in Requests /\ f \notin Unstored /\ use[c] \in Uses /\ use[c].data \in C!Bundles
  BY <1>1, <1>2 DEF UseInv, InFlight, C!Bundles, CredentialTypes
<1>4. PICK n \in {0, issued[f] + 1} :
         /\ n <= MaxTokens
         /\ issued' = [issued EXCEPT ![f] = IF n = 0 THEN @ ELSE n]
         /\ use' = [use EXCEPT ![c].pc = "storing", ![c].new = n]
  BY <1>1 DEF C!Post
<1>5. issued[f] \in 0 .. MaxTokens /\ n \in 0 .. MaxTokens
  BY <1>3, <1>4 DEF CredentialTypes, CredentialAssumption
<1>6. PICK v : v = IF n = 0 THEN issued[f] ELSE n
  OBVIOUS
<1>7. /\ issued' \in [Requests -> 0 .. MaxTokens] /\ issued'[f] = v /\ \A g \in Requests \ {f} : issued'[g] = issued[g]
      /\ v >= issued[f]
  BY <1>3, <1>4, <1>5, <1>6 DEF CredentialTypes, CredentialAssumption
<1>8. /\ use'[c] = [use[c] EXCEPT !.pc = "storing", !.new = n]
      /\ \A d \in Tasks \ {c} : use'[d] = use[d]
      /\ use' \in [Tasks -> Uses]
  <2>1. [use[c] EXCEPT !.pc = "storing", !.new = n] \in Uses
    BY <1>3, <1>5 DEF Uses
  <2>2. use' = [use EXCEPT ![c] = [use[c] EXCEPT !.pc = "storing", !.new = n]]
    BY <1>4 DEF CredentialTypes
  <2> QED BY <2>1, <2>2 DEF CredentialTypes
<1>9. use'[c].pc = "storing" /\ use'[c].new = n /\ use'[c].data = use[c].data /\ use'[c].stale = use[c].stale
  BY <1>3, <1>8 DEF Uses
<1>10. Unstored' = Unstored
  BY <1>2 DEF Unstored
<1>11. CredentialTypes'
  BY <1>2, <1>7, <1>8 DEF CredentialTypes, C!storeVars, C!routeVars
<1>12. UseInv'
  <2> SUFFICES ASSUME NEW d \in Tasks, InFlight(d)'
               PROVE  /\ use'[d].data \in C!Bundles /\ use'[d].data.refresh > 0 /\ use'[d].data.auth \notin Unstored
                      /\ ~use'[d].stale => /\ keychain # C!NoSecret /\ keychain.auth = use'[d].data.auth
                                           /\ keychain.refresh = use'[d].data.refresh
                      /\ use'[d].pc = "storing" /\ use'[d].new > 0 =>
                           use'[d].new = use'[d].data.refresh + 1 /\ use'[d].new <= issued'[use'[d].data.auth]
    BY <1>2, <1>10 DEF UseInv, C!storeVars
  <2>1. CASE d = c
    <3>1. InFlight(c)
      BY <1>2 DEF InFlight
    <3>2. n > 0 => n = use[c].data.refresh + 1 /\ n <= issued'[f]
      BY <1>2, <1>4, <1>5, <1>6, <1>7
    <3> QED BY <1>1, <1>9, <2>1, <3>1, <3>2 DEF UseInv
  <2>2. CASE d # c
    <3>1. use'[d] = use[d] /\ InFlight(d)
      BY <1>8, <2>2 DEF InFlight
    <3>2. use[d].data.auth \in Requests /\ use[d].new \in Nat
      BY <3>1 DEF UseInv, C!Bundles, CredentialTypes, Uses
    <3>3. issued'[use[d].data.auth] >= issued[use[d].data.auth] /\ issued'[use[d].data.auth] \in Nat
          /\ issued[use[d].data.auth] \in Nat
      BY <1>7, <3>2 DEF CredentialTypes, CredentialAssumption
    <3> QED BY <3>1, <3>2, <3>3 DEF UseInv
  <2> QED BY <2>1, <2>2
<1>13. GrantInv'
  <2>1. /\ keychain' # C!NoSecret => keychain'.auth \notin Unstored'
        /\ granted' # None => granted' \notin Unstored'
        /\ ~overstored' /\ granted' = None => keychain' = C!NoSecret
    BY <1>2, <1>10 DEF GrantInv, C!storeVars
  <2> SUFFICES ASSUME ~overstored, granted # None
               PROVE  /\ keychain # C!NoSecret /\ keychain.auth = granted
                      /\ keychain.refresh <= issued'[granted]
                      /\ \A d \in Tasks : InFlight(d)' /\ use'[d].data.auth = granted => use'[d].data.refresh <= keychain.refresh
                      /\ \/ keychain.refresh = issued'[granted] \/ lost
                         \/ \E d \in Tasks : use'[d].pc = "storing" /\ use'[d].data.auth = granted /\ Result(d)' = issued'[granted]
    BY <1>2, <2>1 DEF GrantInv, C!storeVars
  <2>2. granted \in Requests /\ keychain \in C!Bundles /\ keychain # C!NoSecret /\ keychain.auth = granted
    BY DEF CredentialTypes, GrantInv
  <2>3. keychain.refresh \in Nat /\ issued[granted] \in Nat /\ issued'[granted] \in Nat /\ issued'[granted] >= issued[granted]
    BY <1>7, <2>2 DEF C!Bundles, CredentialTypes, CredentialAssumption
  <2>4. keychain.refresh <= issued'[granted]
    BY <2>3 DEF GrantInv
  <2>5. \A d \in Tasks : InFlight(d)' /\ use'[d].data.auth = granted => use'[d].data.refresh <= keychain.refresh
    <3> SUFFICES ASSUME NEW d \in Tasks, InFlight(d)', use'[d].data.auth = granted
                 PROVE  use'[d].data.refresh <= keychain.refresh
      OBVIOUS
    <3>1. InFlight(d) /\ use[d].data = use'[d].data
      BY <1>2, <1>8, <1>9 DEF InFlight
    <3> QED BY <3>1 DEF GrantInv
  <2>6. CASE f = granted
    <3>1. Result(c)' = v
      BY <1>2, <1>6, <1>9 DEF Result
    <3> QED BY <1>1, <1>7, <1>9, <2>2, <2>4, <2>5, <2>6, <3>1
  <2>7. CASE f # granted
    <3>1. issued'[granted] = issued[granted]
      BY <1>7, <2>2, <2>7
    <3>2. CASE keychain.refresh = issued[granted] \/ lost
      BY <2>2, <2>4, <2>5, <3>1, <3>2
    <3>3. CASE \E d \in Tasks : use[d].pc = "storing" /\ use[d].data.auth = granted /\ Result(d) = issued[granted]
      <4>1. PICK d \in Tasks : use[d].pc = "storing" /\ use[d].data.auth = granted /\ Result(d) = issued[granted]
        BY <3>3
      <4>2. d # c
        BY <1>2, <4>1
      <4>3. use'[d] = use[d] /\ Result(d)' = Result(d)
        BY <1>8, <4>2 DEF Result
      <4> QED BY <2>2, <2>4, <2>5, <3>1, <4>1, <4>3
    <3> QED BY <3>2, <3>3 DEF GrantInv
  <2> QED BY <2>6, <2>7
<1>14. RegisteredInv'
  <2>1. Registering' <=> Registering
    BY <1>2, <1>8, <1>9 DEF Registering
  <2> QED BY <1>2, <2>1 DEF RegisteredInv, C!storeVars
<1>15. RouteInv'
  BY <1>2, RouteKept DEF Quiet, RouteInv, CredentialTypes, C!routeVars, C!storeVars
<1> QED BY <1>11, <1>12, <1>13, <1>14, <1>15

\* A refresh stores what it got.
LEMMA StoreRefreshedStep ==
  ASSUME CredentialAssumption, CredentialInv, NEW c \in Tasks, C!StoreRefreshed(c)
  PROVE  CredentialInv'
<1> USE DEF CredentialInv
<1> DEFINE bundle == C!Refreshed(use[c].data, use[c].new)
           r == [C!Unused EXCEPT !.pc = "registering"]
           uses == [use EXCEPT ![c] = r]
<1>1. /\ use[c].pc = "storing" /\ C!Stores(bundle, uses) /\ overstored' = (overstored \/ use[c].stale)
      /\ UNCHANGED <<row, granted, lost, C!routeVars, flow, deleting, deletes, issued>>
  BY DEF C!StoreRefreshed
<1>2. use[c] \in Uses /\ use[c].data \in C!Bundles /\ use[c].data.refresh > 0 /\ use[c].data.auth \in Requests /\ use[c].new \in 0 .. MaxTokens
      /\ InFlight(c)
  BY <1>1 DEF CredentialTypes, UseInv, InFlight, C!Bundles, Uses
<1>3. bundle \in C!Bundles /\ bundle.auth = use[c].data.auth /\ bundle.refresh = Result(c) /\ bundle # C!NoSecret
  <2>1. bundle \in C!Bundles /\ bundle.auth = use[c].data.auth /\ bundle.refresh = Result(c)
    BY <1>2 DEF C!Bundles, C!Refreshed, Result
  <2> QED BY <1>2, <2>1 DEF C!NoSecret, CredentialAssumption
<1>4. r \in Uses /\ r.pc = "registering"
  BY <1>2, UnusedUse
<1> HIDE DEF bundle, r
<1>5. uses \in [Tasks -> Uses] /\ uses[c].pc = "registering" /\ \A d \in Tasks \ {c} : uses[d] = use[d]
  BY <1>4 DEF CredentialTypes
<1> HIDE DEF uses
<1>6. Unstored' = Unstored /\ flow' \in [Requests -> FlowPcs]
  BY <1>1 DEF Unstored, CredentialTypes
<1>7. /\ use' \in [Tasks -> Uses] /\ UseInv' /\ mixed' \in BOOLEAN
      /\ keychain' = bundle /\ mixed' = C!RowPending
      /\ \A d \in Tasks : /\ InFlight(d)' => InFlight(d) /\ use'[d].data = use[d].data /\ use'[d].new = use[d].new
                          /\ use'[d].pc = uses[d].pc
  <2>1. \A d \in Tasks : uses[d] = use[d] \/ uses[d].pc \in {"registering"}
    BY <1>5
  <2>2. issued' = issued
    BY <1>1
  <2>3. bundle \in C!Bundles \cup {C!NoSecret} /\ uses \in [Tasks -> Uses]
    BY <1>3, <1>5
  <2> QED BY <1>1, <1>6, <2>1, <2>2, <2>3, StoredStep
<1>8. CredentialTypes'
  <2>1. overstored' \in BOOLEAN
    BY <1>1, <1>2 DEF CredentialTypes, Uses
  <2> QED BY <1>1, <1>3, <1>6, <1>7, <2>1 DEF CredentialTypes, C!routeVars
<1>9. ASSUME ~overstored' PROVE ~overstored /\ keychain # C!NoSecret /\ keychain.auth = use[c].data.auth /\ keychain.refresh = use[c].data.refresh
  <2>1. ~overstored /\ ~use[c].stale
    BY <1>1, <1>9
  <2> QED BY <1>2, <2>1 DEF UseInv
<1>10. GrantInv'
  <2>1. keychain'.auth \notin Unstored'
    BY <1>2, <1>3, <1>6, <1>7 DEF UseInv
  <2>2. granted' # None => granted' \notin Unstored'
    BY <1>1, <1>6 DEF GrantInv
  <2>3. ~overstored' => granted # None
    BY <1>9 DEF GrantInv
  <2>4. ASSUME ~overstored'
        PROVE  /\ keychain' # C!NoSecret /\ keychain'.auth = granted
               /\ keychain'.refresh <= issued[granted]
               /\ \A d \in Tasks : InFlight(d)' /\ use'[d].data.auth = granted => use'[d].data.refresh <= keychain'.refresh
               /\ \/ keychain'.refresh = issued[granted] \/ lost
                  \/ \E d \in Tasks : use'[d].pc = "storing" /\ use'[d].data.auth = granted /\ Result(d)' = issued[granted]
    <3>1. /\ ~overstored /\ granted # None /\ keychain.auth = granted /\ use[c].data.auth = granted
          /\ keychain.refresh = use[c].data.refresh /\ granted \in Requests
      BY <1>2, <1>9, <2>3, <2>4 DEF GrantInv
    <3>2. use[c].data.refresh \in Nat /\ use[c].new \in Nat /\ issued[granted] \in Nat
      BY <1>2, <3>1 DEF C!Bundles, CredentialTypes, CredentialAssumption
    <3>3. use[c].new > 0 => use[c].new = use[c].data.refresh + 1 /\ use[c].new <= issued[granted]
      BY <1>1, <1>2, <3>1 DEF UseInv
    <3>4. use[c].data.refresh <= Result(c) /\ Result(c) <= issued[granted] /\ Result(c) \in Nat
      BY <3>1, <3>2, <3>3 DEF Result, GrantInv
    <3>5. ASSUME NEW d \in Tasks, InFlight(d)',
                 use'[d].data.auth = granted PROVE use'[d].data.refresh <= keychain'.refresh
      <4>1. InFlight(d) /\ use'[d].data = use[d].data
        BY <1>7, <3>5
      <4>2. use[d].data.refresh <= keychain.refresh /\ use[d].data.refresh \in Nat
        BY <3>1, <3>5, <4>1 DEF GrantInv, UseInv, C!Bundles
      <4> QED BY <1>3, <1>7, <3>1, <3>2, <3>4, <4>1, <4>2
    <3>6. CASE keychain.refresh = issued[granted]
      <4>1. Result(c) = issued[granted]
        BY <3>1, <3>2, <3>4, <3>6
      <4> QED BY <1>3, <1>7, <3>1, <3>4, <3>5, <4>1
    <3>7. CASE lost
      BY <1>3, <1>7, <3>1, <3>4, <3>5, <3>7
    <3>8. CASE \E d \in Tasks : use[d].pc = "storing" /\ use[d].data.auth = granted /\ Result(d) = issued[granted]
      <4>1. PICK d \in Tasks : use[d].pc = "storing" /\ use[d].data.auth = granted /\ Result(d) = issued[granted]
        BY <3>8
      <4>2. CASE d = c
        BY <1>3, <1>7, <3>1, <3>4, <3>5, <4>1, <4>2
      <4>3. CASE d # c
        <5>1. use'[d].pc = "storing"
          BY <1>5, <1>7, <4>1, <4>3
        <5>2. use'[d].data = use[d].data /\ use'[d].new = use[d].new
          BY <1>7, <5>1 DEF InFlight
        <5>3. Result(d)' = Result(d)
          BY <5>2 DEF Result
        <5> QED BY <1>3, <1>7, <3>1, <3>4, <3>5, <4>1, <5>1, <5>2, <5>3
      <4> QED BY <4>2, <4>3
    <3> QED BY <3>1, <3>6, <3>7, <3>8 DEF GrantInv
  <2>5. granted' = granted /\ issued' = issued /\ lost' = lost
    BY <1>1
  <2> QED BY <2>1, <2>2, <2>3, <2>4, <2>5 DEF GrantInv
<1>11. RegisteredInv'
  <2>1. ~mixed' => ~deleting'
    BY <1>1, <1>7 DEF C!RowPending
  <2>2. Registering'
    BY <1>5, <1>7 DEF Registering
  <2> QED BY <1>3, <1>7, <2>1, <2>2 DEF RegisteredInv
<1>12. RouteInv'
  <2>1. deleting' => look[None] = "none"
    BY <1>1 DEF RouteInv
  <2>2. Quiet' <=> Quiet
    BY <1>1 DEF Quiet, C!routeVars
  <2>3. ~overstored' => ~overstored /\ keychain' # C!NoSecret /\ keychain # C!NoSecret
    BY <1>3, <1>7, <1>9
  <2>4. \A g \in Requests : flow[g] = "over" => flow'[g] = "over"
    BY <1>1
  <2> QED BY <1>1, <1>6, <2>1, <2>2, <2>3, <2>4, RouteKept DEF C!routeVars
<1> QED BY <1>7, <1>8, <1>10, <1>11, <1>12

LEMMA DeleteSecretStep ==
  ASSUME CredentialAssumption, CredentialInv, C!DeleteSecret
  PROVE  CredentialInv'
<1> USE DEF CredentialInv
<1>1. PICK secret \in {C!NoSecret, keychain} : C!Stores(secret, use) /\ overstored' = (secret # C!NoSecret) /\ granted' = None
  BY DEF C!DeleteSecret
<1>2. /\ ~deleting /\ look[None] = "none" /\ deleting' = TRUE /\ lost' = FALSE
      /\ UNCHANGED <<row, C!routeVars, flow, issued>>
  BY DEF C!DeleteSecret
<1>3. Unstored' = Unstored /\ flow' \in [Requests -> FlowPcs] /\ use \in [Tasks -> Uses] /\ secret \in C!Bundles \cup {C!NoSecret}
  BY <1>2 DEF Unstored, CredentialTypes
<1>4. /\ use' \in [Tasks -> Uses] /\ UseInv' /\ mixed' \in BOOLEAN
      /\ keychain' = secret /\ mixed' = C!RowPending
      /\ \A d \in Tasks : /\ InFlight(d)' => InFlight(d) /\ use'[d].data = use[d].data /\ use'[d].new = use[d].new
                          /\ use'[d].pc = use[d].pc
  BY <1>1, <1>2, <1>3, StoredStep
<1>5. CredentialTypes'
  <2>1. overstored' \in BOOLEAN /\ deleting' \in BOOLEAN /\ lost' \in BOOLEAN /\ granted' \in Requests \cup {None}
    BY <1>1, <1>2
  <2> QED BY <1>2, <1>3, <1>4, <2>1 DEF CredentialTypes, C!routeVars
<1>6. GrantInv'
  BY <1>1, <1>3, <1>4 DEF GrantInv
<1>7. RegisteredInv'
  <2>1. Registering' => C!RowPending
    BY <1>2, <1>4 DEF Registering, C!RowPending
  <2> QED BY <1>1, <1>2, <1>4, <2>1 DEF RegisteredInv
<1>8. RouteInv'
  <2>1. ~Quiet'
    BY <1>2 DEF Quiet
  <2>2. \A g \in Requests : flow[g] = "over" => flow'[g] = "over"
    BY <1>2
  <2> QED BY <1>2, <1>3, <2>1, <2>2, RouteKept DEF C!routeVars
<1> QED BY <1>4, <1>5, <1>6, <1>7, <1>8

\* The row of a deleted secret goes.
LEMMA DeleteRowStep ==
  ASSUME CredentialAssumption, CredentialInv, C!DeleteRow \/ C!DeleteSkillRow
  PROVE  CredentialInv'
<1> USE DEF CredentialInv
<1>1. /\ deleting /\ deleting' = FALSE /\ row' = FALSE
      /\ UNCHANGED <<keychain, granted, overstored, lost, mixed, flow, use, issued, routed, late, overtaken>>
  BY DEF C!DeleteRow, C!DeleteSkillRow, C!Unregistered
<1>2. \/ look' = [look EXCEPT ![None] = "asked"] /\ overlooked' = overlooked
      \/ look' = look /\ overlooked' = TRUE
  BY DEF C!DeleteRow, C!DeleteSkillRow
<1>3. /\ look' \in [Lookers -> {"none", "asked", "in", "out"}] /\ \A x \in Lookers \ {None} : look'[x] = look[x]
      /\ look[None] = "none" /\ look'[None] \in {"none", "asked"} /\ None \in Lookers
      /\ look'[None] = "asked" \/ overlooked'
  BY <1>1, <1>2 DEF CredentialTypes, Lookers, RouteInv
<1>4. Unstored' = Unstored
  BY <1>1 DEF Unstored
<1>5. CredentialTypes'
  <2>1. overlooked' \in BOOLEAN /\ row' \in BOOLEAN /\ deleting' \in BOOLEAN
    BY <1>1, <1>2 DEF CredentialTypes
  <2> QED BY <1>1, <1>3, <2>1 DEF CredentialTypes
<1>6. UseInv'
  BY <1>1, <1>4 DEF UseInv, InFlight
<1>7. GrantInv'
  BY <1>1, <1>4 DEF GrantInv, InFlight, Result
<1>8. RegisteredInv'
  <2>1. Registering' <=> Registering
    BY <1>1 DEF Registering
  <2>2. ~row' /\ ~deleting'
    BY <1>1
  <2>3. UNCHANGED <<mixed, overstored, keychain>>
    BY <1>1
  <2> QED BY <1>1, <2>1, <2>2, <2>3 DEF RegisteredInv
<1>9. RouteInv'
  <2>1. Taken' = Taken
    BY <1>3 DEF Taken
  <2>2. ~Quiet' \/ overlooked'
    BY <1>3 DEF Quiet
  <2>3. \A g \in Requests : flow'[g] # "over" => look'[g] = "none"
    BY <1>1, <1>3 DEF RouteInv, Lookers, CredentialAssumption
  <2>4. late' \subseteq Taken' /\ (\A x, y \in Taken' \ late' : x = y) /\ ~deleting'
    BY <1>1, <2>1 DEF RouteInv
  <2> QED BY <2>2, <2>3, <2>4 DEF RouteInv
<1> QED BY <1>5, <1>6, <1>7, <1>8, <1>9

\* A look is taken, or acted on: only the routing changes.
LEMMA LooksStep ==
  ASSUME CredentialAssumption, CredentialInv, NEW x \in Lookers, C!Look(x) \/ C!Route(x)
  PROVE  CredentialInv'
<1> USE DEF CredentialInv
<1>1. UNCHANGED <<C!storeVars, flow, use, deleting, issued>>
  BY DEF C!Look, C!Route
<1>2. UNCHANGED <<keychain, row, granted, overstored, lost, mixed>>
  BY <1>1 DEF C!storeVars
<1>3. Unstored' = Unstored
  BY <1>1 DEF Unstored
<1>4. UseInv'
  BY <1>1, <1>2, <1>3 DEF UseInv, InFlight
<1>5. GrantInv'
  BY <1>1, <1>2, <1>3 DEF GrantInv, InFlight, Result
<1>6. RegisteredInv'
  BY <1>1, <1>2 DEF RegisteredInv, Registering
<1>7. DOMAIN look = Lookers
  BY DEF CredentialTypes
<1>8. CASE C!Look(x)
  <2>1. PICK saw \in {"in", "out"} :
           /\ look[x] = "asked" /\ look' = [look EXCEPT ![x] = saw] /\ overlooked' \in BOOLEAN
           /\ ~overlooked' => (saw = "in" <=> keychain # C!NoSecret)
           /\ UNCHANGED <<routed, overtaken>>
    BY <1>8 DEF C!Look, C!Retrieved
  <2>2. late' = (late \cup Taken) \ {x}
    BY <1>7, <1>8 DEF C!Look, Taken
  <2>3. /\ look' \in [Lookers -> {"none", "asked", "in", "out"}] /\ look'[x] = saw /\ \A y \in Lookers \ {x} : look'[y] = look[y]
    BY <2>1 DEF CredentialTypes
  <2>4. Taken' = Taken \cup {x} /\ x \notin Taken
    BY <2>1, <2>3 DEF Taken
  <2>5. CredentialTypes'
    <3>1. late' \in SUBSET Lookers
      BY <2>2 DEF CredentialTypes, Taken
    <3> QED BY <1>1, <1>2, <2>1, <2>3, <3>1 DEF CredentialTypes
  <2>6. RouteInv'
    <3>1. Taken' \ late' = {x} /\ late' \subseteq Taken'
      BY <2>2, <2>4 DEF RouteInv
    <3>2. \A f \in Requests : flow'[f] # "over" => look'[f] = "none"
      BY <1>1, <2>1, <2>3 DEF RouteInv, Lookers
    <3>3. deleting' => look'[None] = "none"
      BY <1>1, <2>1, <2>3 DEF RouteInv, Lookers
    <3>4. ~overlooked' => (look'[x] = "in" <=> keychain' # C!NoSecret)
      BY <1>2, <2>1, <2>3
    <3> QED BY <3>1, <3>2, <3>3, <3>4 DEF RouteInv
  <2> QED BY <1>4, <1>5, <1>6, <2>5, <2>6
<1>9. CASE C!Route(x)
  <2>1. /\ look[x] \in {"in", "out"} /\ routed' = (look[x] = "in") /\ look' = [look EXCEPT ![x] = "none"]
        /\ late' = late \ {x} /\ overtaken' = (x \in late) /\ overlooked' = overlooked
    BY <1>9 DEF C!Route, C!Routed
  <2>2. /\ look' \in [Lookers -> {"none", "asked", "in", "out"}] /\ look'[x] = "none" /\ \A y \in Lookers \ {x} : look'[y] = look[y]
    BY <2>1 DEF CredentialTypes
  <2>3. Taken' = Taken \ {x} /\ x \in Taken
    BY <2>1, <2>2 DEF Taken
  <2>4. CredentialTypes'
    <3>1. routed' \in BOOLEAN /\ overtaken' \in BOOLEAN /\ late' \in SUBSET Lookers
      BY <2>1 DEF CredentialTypes
    <3> QED BY <1>1, <1>2, <2>1, <2>2, <3>1 DEF CredentialTypes
  <2>5. RouteInv'
    <3>1. Taken' \ late' = (Taken \ late) \ {x} /\ late' \subseteq Taken'
      BY <2>1, <2>3 DEF RouteInv
    <3>2. \A f \in Requests : flow'[f] # "over" => look'[f] = "none"
      BY <1>1, <2>2 DEF RouteInv, Lookers
    <3>3. deleting' => look'[None] = "none"
      BY <1>1, <2>2 DEF RouteInv, Lookers
    <3>4. Quiet' => Quiet
      BY <1>1, <2>1, <2>2 DEF Quiet
    <3>5. ASSUME Quiet', ~overlooked', ~overstored'
          PROVE  /\ \A y \in Taken' \ late' : look'[y] = "in" <=> keychain' # C!NoSecret
                 /\ Taken' \ late' = {} /\ ~overtaken' => (routed' <=> keychain' # C!NoSecret)
      <4>1. \A y \in Taken \ late : look[y] = "in" <=> keychain # C!NoSecret
        BY <1>2, <2>1, <3>4, <3>5 DEF RouteInv
      <4>2. \A y \in Taken' \ late' : look'[y] = "in" <=> keychain' # C!NoSecret
        BY <1>2, <2>2, <3>1, <4>1 DEF Taken
      <4>3. ~overtaken' => (routed' <=> keychain' # C!NoSecret)
        BY <1>2, <2>1, <2>3, <4>1
      <4> QED BY <4>2, <4>3
    <3>6. \A y, z \in Taken' \ late' : y = z
      BY <3>1 DEF RouteInv
    <3> QED BY <3>1, <3>2, <3>3, <3>5, <3>6 DEF RouteInv
  <2> QED BY <1>4, <1>5, <1>6, <2>4, <2>5
<1> QED BY <1>8, <1>9

LEMMA CredentialStep ==
  ASSUME CredentialAssumption, CredentialInv, [C!Next]_C!credentialVars
  PROVE  CredentialInv'
<1> USE DEF CredentialInv
<1>0. /\ flow \in [Requests -> FlowPcs] /\ issued \in [Requests -> 0 .. MaxTokens] /\ use \in [Tasks -> Uses] /\ MaxTokens \in Nat
      /\ mixed \in BOOLEAN /\ lost \in BOOLEAN
  BY DEF CredentialTypes, CredentialAssumption
\* A flow moves on.
<1>F. ASSUME NEW f \in Requests, NEW to \in FlowPcs, flow' = [flow EXCEPT ![f] = to],
             flow[f] \notin {"over", "registering", "pasted"},
             to \notin {"registering", "pasted"}, issued' \in [Requests -> 0 .. MaxTokens], \A g \in Requests : issued'[g] = issued[g] \/ g = f,
             UNCHANGED <<C!storeVars, C!routeVars, use, deleting>>
      PROVE  CredentialInv'
  <2>1. flow' \in [Requests -> FlowPcs] /\ flow'[f] = to /\ \A g \in Requests \ {f} : flow'[g] = flow[g]
    BY <1>0, <1>F
  <2>2. f \in Unstored
    BY <1>F DEF Unstored
  <2> QED BY <1>F, <2>1, <2>2, FlowStep
<1>1. ASSUME NEW f \in Requests, C!AskFlow(f) PROVE CredentialInv'
  BY <1>0, <1>1, <1>F DEF C!AskFlow, C!Goes, FlowPcs
<1>2. ASSUME NEW f \in Requests, C!StartFlow(f) PROVE CredentialInv'
  <2>1. /\ flow[f] = "asked" /\ flow' = [g \in Requests |-> IF g = f THEN "pending" ELSE IF flow[g] = "aged" THEN "over" ELSE flow[g]]
        /\ UNCHANGED <<C!storeVars, C!routeVars, use, deleting, issued>>
    BY <1>2 DEF C!StartFlow
  <2>2. \A g \in Requests : /\ flow'[g] \in FlowPcs
                            /\ flow[g] = "over" => flow'[g] = "over"
                            /\ flow[g] \in {"registering", "pasted"} => flow'[g] = flow[g]
                            /\ flow'[g] \in {"registering", "pasted"} => flow[g] = flow'[g]
                            /\ flow'[g] # "over" => flow[g] # "over"
    BY <1>0, <2>1 DEF FlowPcs
  <2>3. flow' \in [Requests -> FlowPcs] /\ issued' \in [Requests -> 0 .. MaxTokens] /\ \A g \in Requests : issued'[g] = issued[g]
    BY <1>0, <2>1, <2>2
  <2> QED BY <2>1, <2>2, <2>3, FlowStep
<1>3. ASSUME NEW f \in Requests, C!Age(f) PROVE CredentialInv'
  BY <1>0, <1>3, <1>F DEF C!Age, C!Goes, FlowPcs
<1>4. ASSUME NEW f \in Requests, C!Callback(f) PROVE CredentialInv'
  <2>1. PICK to \in {"over", "exchanging"} : flow' = [flow EXCEPT ![f] = to]
    BY <1>4 DEF C!Callback, C!Goes
  <2>2. flow[f] \in {"pending", "aged"} /\ UNCHANGED <<C!storeVars, C!routeVars, use, deleting, issued>>
    BY <1>4 DEF C!Callback
  <2> QED BY <1>0, <1>F, <2>1, <2>2 DEF FlowPcs
<1>5. ASSUME NEW f \in Requests, C!Exchange(f) PROVE CredentialInv'
  <2>1. PICK to \in {"over", "storing"} : flow' = [flow EXCEPT ![f] = to]
    BY <1>5 DEF C!Exchange, C!Goes
  <2>2. PICK n \in {0, 1, issued[f]} : issued' = [issued EXCEPT ![f] = n]
    BY <1>0, <1>5 DEF C!Exchange
  <2>3. flow[f] = "exchanging" /\ UNCHANGED <<C!storeVars, C!routeVars, use, deleting>>
    BY <1>5 DEF C!Exchange
  <2>4. n \in 0 .. MaxTokens
    BY <1>0, <2>2 DEF CredentialAssumption
  <2>5. issued' \in [Requests -> 0 .. MaxTokens] /\ \A g \in Requests : issued'[g] = issued[g] \/ g = f
    BY <1>0, <2>2, <2>4
  <2> QED BY <1>F, <2>1, <2>3, <2>5 DEF FlowPcs
<1>6. ASSUME NEW f \in Requests, C!StoreFails(f) PROVE CredentialInv'
  BY <1>0, <1>6, <1>F DEF C!StoreFails, C!Goes, FlowPcs
\* A use moves on.
<1>U. [C!Unused EXCEPT !.pc = "over"] \in Uses /\ [C!Unused EXCEPT !.pc = "over"].pc = "over"
  BY UnusedUse
<1>7. ASSUME NEW c \in Tasks, C!Denied(c) \/ C!RegisterRefreshed(c) PROVE CredentialInv'
  <2> DEFINE r == [use[c] EXCEPT !.pc = "over"]
  <2>1. use' = [use EXCEPT ![c] = r] /\ use[c].pc \in {"idle", "registering"}
    BY <1>0, <1>7 DEF C!Denied, C!RegisterRefreshed
  <2>2. r \in Uses /\ r.pc = "over"
    BY <1>0 DEF Uses
  <2>3. /\ row' \in {row, TRUE} /\ (row' = row \/ use[c].pc = "registering") /\ (use[c].pc = "registering" => row' = TRUE)
        /\ UNCHANGED <<keychain, granted, overstored, lost, mixed, C!routeVars, flow, deleting, issued>>
    BY <1>7 DEF C!Denied, C!RegisterRefreshed, C!Registered, C!storeVars
  <2> HIDE DEF r
  <2> QED BY <1>0, <2>1, <2>2, <2>3, TokenStep
<1>8. ASSUME NEW c \in Tasks, C!GetToken(c) PROVE CredentialInv'
  <2>1. /\ use[c].pc = "idle" /\ UNCHANGED <<C!storeVars, C!routeVars, flow, deleting, issued>>
        /\ \/ use' = [use EXCEPT ![c] = [C!Unused EXCEPT !.pc = "over"]]
           \/ /\ use' = [use EXCEPT ![c] = [C!Unused EXCEPT !.pc = "refreshing", !.data = keychain]]
              /\ keychain # C!NoSecret /\ keychain.refresh > 0
    BY <1>8 DEF C!GetToken, C!Retrieved, C!CanRefresh
  <2> DEFINE s == [C!Unused EXCEPT !.pc = "refreshing", !.data = keychain]
  <2>2. s \in Uses /\ s.pc = "refreshing" /\ s.data = keychain
    BY UnusedUse DEF CredentialTypes
  <2> HIDE DEF s
  <2>3. PICK r \in Uses : /\ use' = [use EXCEPT ![c] = r]
                          /\ \/ r.pc \in {"idle", "over"}
                             \/ r.pc = "refreshing" /\ r.data = keychain /\ keychain # C!NoSecret /\ keychain.refresh > 0
    BY <1>U, <2>1, <2>2 DEF s
  <2>4. UNCHANGED <<keychain, row, granted, overstored, lost, mixed>>
    BY <2>1 DEF C!storeVars
  <2> QED BY <1>0, <2>1, <2>3, <2>4, TokenStep
<1>9. ASSUME NEW c \in Tasks, C!PostFails(c) PROVE CredentialInv'
  <2>1. PICK f : f = use[c].data.auth
    OBVIOUS
  <2>2. /\ use[c].pc = "refreshing" /\ use' = [use EXCEPT ![c] = [C!Unused EXCEPT !.pc = "over"]]
        /\ UNCHANGED <<keychain, row, granted, overstored, mixed, C!routeVars, flow, deleting>>
        /\ \/ UNCHANGED <<issued, lost>>
           \/ issued[f] < MaxTokens /\ issued' = [issued EXCEPT ![f] = issued[f] + 1] /\ lost' = TRUE
    BY <1>9, <2>1 DEF C!PostFails
  <2>3. f \in Requests
    BY <2>1, <2>2 DEF UseInv, InFlight, C!Bundles
  <2>4. /\ issued' \in [Requests -> 0 .. MaxTokens] /\ lost' \in BOOLEAN /\ (lost => lost')
        /\ issued' = issued \/ (lost' /\ \A g \in Requests : issued'[g] >= issued[g])
    <3>1. CASE UNCHANGED <<issued, lost>>
      BY <1>0, <3>1
    <3>2. CASE issued[f] < MaxTokens /\ issued' = [issued EXCEPT ![f] = issued[f] + 1] /\ lost' = TRUE
      <4>1. \A g \in Requests : issued[g] \in 0 .. MaxTokens
        BY <1>0
      <4>2. issued[f] + 1 \in 0 .. MaxTokens
        BY <1>0, <2>3, <3>2, <4>1
      <4> QED BY <1>0, <2>3, <3>2, <4>1, <4>2
    <3> QED BY <2>2, <3>1, <3>2
  <2> QED BY <1>0, <1>U, <2>2, <2>4, TokenStep
<1>10. ASSUME NEW c \in Tasks, C!Stopped(c) PROVE CredentialInv'
  <2>1. /\ use' = [use EXCEPT ![c] = [C!Unused EXCEPT !.pc = "over"]]
        /\ lost' = (lost \/ (use[c].pc = "storing" /\ use[c].new > 0))
        /\ mixed' = (mixed \/ use[c].pc = "registering")
        /\ UNCHANGED <<keychain, row, granted, overstored, C!routeVars, flow, deleting, issued>>
    BY <1>10 DEF C!Stopped
  <2>2. lost' \in BOOLEAN /\ mixed' \in BOOLEAN
    BY <1>0, <2>1
  <2> QED BY <1>0, <1>U, <2>1, <2>2, TokenStep
<1>11. UNCHANGED C!credentialVars => CredentialInv'
  BY DEF C!credentialVars, C!storeVars, C!routeVars, CredentialTypes, UseInv, InFlight, Unstored,
     GrantInv, Result, RegisteredInv, Registering,
         RouteInv, Taken, Quiet
<1>12. DOMAIN look = Lookers
  BY DEF CredentialTypes
<1> QED BY <1>1, <1>2, <1>3, <1>4, <1>5, <1>6, <1>7, <1>8, <1>9, <1>10, <1>11, <1>12, StoreBundleStep,
           RegisterStep,
           RegisterPastedStep, ExpireStep,
           PostStep, StoreRefreshedStep, DeleteSecretStep, DeleteRowStep, LooksStep DEF C!Next

-----------------------------------------------------------------------------
(* Authored skills (skills/authoring, skills/loader.py): what is in a      *)
(* staging slot was audited, or staged again by another author.            *)

AuthorState ==
  [pc : I!Working \cup {"idle", "installing", "over"}, slot : Names \cup {None},
   content : I!Contents, name : Names \cup {None}]
Staged == [content : I!Contents, name : Names \cup {None}]

InstallTypes ==
  /\ staged \in [Names -> Staged]
  /\ \A s \in Names : staged[s] # I!NoSlot => staged[s].name \in Names
  /\ author \in [Tasks -> AuthorState]
  /\ \A a \in Tasks : author[a].pc \in I!Working =>
       author[a].slot \in Names /\ author[a].content \in [by : {a}, n : 1 .. MaxAttempts]
  /\ \A a \in Tasks : author[a].pc = "installing" => author[a].slot \in Names /\ author[a].name \in Names
  /\ report \in [Edits -> [pc : {"idle", "installing", "over"}, name : Names \cup {None}]]
  /\ \A r \in Edits : report[r].pc = "installing" => report[r].name \in Names
  /\ installed \in [Names -> I!Contents]
  /\ cache \in [Names -> SUBSET I!Contents]
  /\ \A s \in Names : cache[s] \in {{}} \cup {{c} : c \in I!Contents}
  /\ dropping \subseteq Names

\* Bundled, or it passed the audit, or two authors used its slot, or it was handed over.
Cleared(content) == content.by # None => content \in audited \cup restaged \cup handed

(* The key: what lies in the slot of an author at work is the author's own *)
(* content, gone, or staged by another one while the slot was in use.      *)
InstallInv ==
  /\ InstallTypes
  /\ \A a \in Tasks : author[a].pc \in I!Working =>
       LET there == staged[author[a].slot] IN
         there = I!NoSlot \/ there.content = author[a].content \/ there.content \in restaged
  /\ \A a \in Tasks : author[a].pc = "confirming" => author[a].content \in audited
  /\ \A s \in Names : Cleared(installed[s])
  /\ \A s \in Names : s \notin dropping => cache[s] \subseteq {installed[s]}

InstallAssumption == None \notin Names /\ None \notin Tasks /\ None \notin Edits /\ Tasks \cap Edits = {} /\ BuiltIn \subseteq Names /\ MaxAttempts \in Nat \ {0}

LEMMA ContentTyped ==
  ASSUME InstallAssumption
  PROVE  /\ I!NoSkill \in I!Contents /\ I!Bundled \in I!Contents /\ I!NoSlot \in Staged
         /\ I!Idle \in AuthorState /\ [I!Idle EXCEPT !.pc = "over"] \in AuthorState
         /\ \A a \in Tasks, n \in 1 .. MaxAttempts : [by |-> a, n |-> n] \in I!Contents
         /\ \A r \in Edits : I!Own(r) \in I!Contents
         /\ I!NoSkill.by = None /\ I!Bundled.by = None
BY DEF I!NoSkill, I!Bundled, I!NoSlot, I!Own, I!Contents, Staged, I!Idle, AuthorState, I!Working,
   InstallAssumption

LEMMA InitInstall ==
  ASSUME InstallAssumption, I!Init
  PROVE  InstallInv
<1>1. InstallTypes
  BY ContentTyped DEF I!Init, InstallTypes, I!Idle, I!Pending, I!Working
<1>2. \A a \in Tasks : author[a].pc = "idle"
  BY DEF I!Init, I!Idle
<1>3. \A s \in Names : installed[s].by = None /\ cache[s] = {}
  BY ContentTyped DEF I!Init
<1> QED BY <1>1, <1>2, <1>3 DEF InstallInv, I!Working, Cleared

-----------------------------------------------------------------------------
(* An author who stages makes the content of every other author at work in *)
(* the slot a restaged one.                                                *)
LEMMA StageKeeps ==
  ASSUME InstallAssumption, InstallInv,
         NEW a \in Tasks, NEW s \in Names, NEW n \in 1 .. MaxAttempts, NEW name \in Names,
         I!Stage(a, s, [by |-> a, n |-> n], name), UNCHANGED <<installed, cache, dropping, report, audited, handed>>
  PROVE  InstallInv'
<1> DEFINE content == [by |-> a, n |-> n]
           own == [pc |-> "auditing", slot |-> s, content |-> content, name |-> name]
<1>1. content \in I!Contents /\ content \in [by : {a}, n : 1 .. MaxAttempts]
  BY ContentTyped
<1>2. author' = [author EXCEPT ![a] = own] /\ own \in AuthorState
      /\ staged' = [staged EXCEPT ![s] = [content |-> content, name |-> name]]
  BY <1>1 DEF I!Stage, AuthorState, I!Working
<1>3. restaged \subseteq restaged'
      /\ \A b \in Tasks \ {a} : author[b].slot = s /\ author[b].pc # "over" => content \in restaged'
  BY DEF I!Stage
<1>4. InstallTypes'
  <2>1. staged' \in [Names -> Staged] /\ author' \in [Tasks -> AuthorState]
    BY <1>1, <1>2 DEF InstallInv, InstallTypes, Staged
  <2>2. \A b \in Tasks : author'[b].pc \in I!Working =>
          author'[b].slot \in Names /\ author'[b].content \in [by : {b}, n : 1 .. MaxAttempts]
    BY <1>1, <1>2 DEF InstallInv, InstallTypes
  <2>3. \A b \in Tasks : author'[b].pc = "installing" => author'[b].slot \in Names /\ author'[b].name \in Names
    BY <1>2 DEF InstallInv, InstallTypes
  <2>4. \A t \in Names : staged'[t] # I!NoSlot => staged'[t].name \in Names
    BY <1>2 DEF InstallInv, InstallTypes
  <2> QED BY <2>1, <2>2, <2>3, <2>4 DEF InstallInv, InstallTypes
<1>5. ASSUME NEW b \in Tasks, author'[b].pc \in I!Working
      PROVE  LET there == staged'[author'[b].slot] IN
               there = I!NoSlot \/ there.content = author'[b].content \/ there.content \in restaged'
  <2>1. CASE b = a
    BY <1>2, <2>1 DEF InstallInv, InstallTypes
  <2>2. CASE b # a /\ author[b].slot = s
    BY <1>2, <1>3, <1>5, <2>2 DEF InstallInv, InstallTypes, I!Working
  <2>3. CASE b # a /\ author[b].slot # s
    BY <1>2, <1>3, <1>5, <2>3 DEF InstallInv, InstallTypes
  <2> QED BY <2>1, <2>2, <2>3
<1>6. \A b \in Tasks : author'[b].pc = "confirming" => author'[b].content \in audited'
  BY <1>2 DEF InstallInv, InstallTypes
<1>7. \A t \in Names : Cleared(installed[t])'
  BY <1>3 DEF InstallInv, Cleared
<1> QED BY <1>4, <1>5, <1>6, <1>7 DEF InstallInv

LEMMA InstallStep ==
  ASSUME InstallAssumption, InstallInv, [I!Next]_I!installVars
  PROVE  InstallInv'
<1> USE DEF InstallInv, InstallTypes
<1>1. ASSUME NEW a \in Tasks, NEW s \in Names, I!Generate(a, s)
      PROVE  InstallInv'
  <2>1. 1 \in 1 .. MaxAttempts
    BY DEF InstallAssumption
  <2> QED BY <1>1, <2>1, StageKeeps DEF I!Generate, I!loaderVars, I!reportVars
<1>2. ASSUME NEW a \in Tasks, NEW name \in Names, I!Retry(a, name)
      PROVE  InstallInv'
  <2> DEFINE n == author[a].content.n + 1
  <2>1. author[a].slot \in Names /\ n \in 1 .. MaxAttempts
    BY <1>2 DEF I!Retry, I!Working, InstallAssumption
  <2> QED BY <1>2, <2>1, StageKeeps DEF I!Retry, I!loaderVars, I!reportVars
<1>3. ASSUME NEW a \in Tasks,
             I!GenerateFails(a) \/ I!Reject(a) \/ I!NoVerdict(a) \/ I!Decline(a) \/ I!Invalid(a)
      PROVE  InstallInv'
  <2>1. /\ author' = [author EXCEPT ![a] = [I!Idle EXCEPT !.pc = "over"]]
        /\ UNCHANGED <<staged, installed, cache, dropping, report, audited, restaged, handed>>
    BY <1>3 DEF I!GenerateFails, I!Reject, I!Rejects, I!NoVerdict, I!Decline, I!Invalid, I!Over,
       I!loaderVars, I!reportVars
  <2>2. [I!Idle EXCEPT !.pc = "over"] \in AuthorState /\ [I!Idle EXCEPT !.pc = "over"].pc = "over"
    BY ContentTyped DEF I!Idle
  <2> HIDE DEF I!Idle
  <2>3. \A b \in Tasks : author'[b] = author[b] \/ author'[b].pc = "over"
    BY <2>1, <2>2
  <2>4. author' \in [Tasks -> AuthorState]
    BY <2>1, <2>2
  <2> QED BY <2>1, <2>3, <2>4 DEF I!Working, Cleared
<1>4. ASSUME NEW a \in Tasks, I!AuditPasses(a) \/ I!AuditFails(a)
      PROVE  InstallInv'
  <2>1. PICK place \in {"confirming", "failed"} :
          /\ author[a].pc = "auditing"
          /\ author' = [author EXCEPT ![a] = [author[a] EXCEPT !.pc = place]]
          /\ audited \subseteq audited'
          /\ place = "confirming" => author[a].content \in audited'
          /\ UNCHANGED <<staged, installed, cache, dropping, report, restaged, handed>>
    BY <1>4 DEF I!AuditPasses, I!AuditFails, I!loaderVars, I!reportVars
  <2> DEFINE own == [author[a] EXCEPT !.pc = place]
  <2>2. /\ own \in AuthorState /\ own.pc = place /\ own.slot = author[a].slot
        /\ own.content = author[a].content /\ own.name = author[a].name
    BY DEF AuthorState, I!Working
  <2>3. author' = [author EXCEPT ![a] = own]
    BY <2>1
  <2> HIDE DEF own
  <2>4. author' \in [Tasks -> AuthorState]
    BY <2>2, <2>3
  <2>5. \A b \in Tasks :
          /\ author'[b].slot = author[b].slot /\ author'[b].content = author[b].content
          /\ author'[b].name = author[b].name
          /\ author'[b].pc \in I!Working <=> author[b].pc \in I!Working
          /\ author'[b].pc = "installing" <=> author[b].pc = "installing"
          /\ author'[b].pc = "confirming" => b = a \/ author[b].pc = "confirming"
    BY <2>1, <2>2, <2>3 DEF I!Working
  <2>6. InstallTypes'
    BY <2>1, <2>4, <2>5
  <2>7. \A b \in Tasks : author'[b].pc = "confirming" => author'[b].content \in audited'
    BY <2>1, <2>2, <2>3, <2>5
  <2>8. \A t \in Names : Cleared(installed[t])'
    BY <2>1 DEF Cleared
  <2> QED BY <2>1, <2>5, <2>6, <2>7, <2>8
<1>5. ASSUME NEW a \in Tasks, I!InstallStaged(a)
      PROVE  InstallInv'
  <2> DEFINE there == staged[author[a].slot]
  <2>0. author[a].slot \in Names /\ author[a].pc = "confirming" /\ there \in Staged
    BY <1>5 DEF I!InstallStaged, I!Working
  <2>1. CASE there = I!NoSlot
    <3>1. /\ author' = [author EXCEPT ![a] = [I!Idle EXCEPT !.pc = "over"]]
          /\ UNCHANGED <<staged, installed, cache, dropping, report, audited, restaged, handed>>
      BY <1>5, <2>1 DEF I!InstallStaged, I!Over, I!reportVars
    <3>2. [I!Idle EXCEPT !.pc = "over"] \in AuthorState /\ [I!Idle EXCEPT !.pc = "over"].pc = "over"
      BY ContentTyped DEF I!Idle
    <3> HIDE DEF I!Idle
    <3>3. \A b \in Tasks : author'[b] = author[b] \/ author'[b].pc = "over"
      BY <3>1, <3>2
    <3>4. author' \in [Tasks -> AuthorState]
      BY <3>1, <3>2
    <3> QED BY <3>1, <3>3, <3>4 DEF I!Working, Cleared
  <2>2. CASE there # I!NoSlot
    <3> DEFINE own == [author[a] EXCEPT !.pc = "installing", !.name = there.name]
    <3>1. /\ author' = [author EXCEPT ![a] = own]
          /\ installed' = [installed EXCEPT ![there.name] = there.content]
          /\ dropping' = dropping \cup {there.name}
          /\ UNCHANGED <<staged, cache, report, audited, restaged, handed>>
      BY <1>5, <2>2 DEF I!InstallStaged, I!Install, I!Upserts, I!reportVars
    <3>2. there.name \in Names /\ there.content \in I!Contents
      BY <2>0, <2>2 DEF Staged
    <3>3. Cleared(there.content)
      BY <2>0, <2>2 DEF I!Working, Cleared
    <3> HIDE DEF there
    <3>4. author[a] \in AuthorState
      OBVIOUS
    <3>5. own \in AuthorState /\ own.pc = "installing" /\ own.slot = author[a].slot /\ own.name = there.name
      BY ONLY <3>2, <3>4 DEF AuthorState, I!Working, own
    <3> HIDE DEF own
    <3>6. author' \in [Tasks -> AuthorState] /\ installed' \in [Names -> I!Contents]
      BY <3>1, <3>2, <3>5
    <3>7. \A b \in Tasks : author'[b] = author[b] \/ (b = a /\ author'[b] = own)
      BY <3>1
    <3>8. InstallTypes'
      BY <2>0, <3>1, <3>2, <3>5, <3>6, <3>7 DEF I!Working
    <3>9. \A t \in Names : Cleared(installed[t])'
      BY <3>1, <3>2, <3>3 DEF Cleared
    <3>10. \A t \in Names : t \notin dropping' => cache'[t] \subseteq {installed'[t]}
      BY <3>1, <3>2
    <3> QED BY <3>1, <3>5, <3>7, <3>8, <3>9, <3>10 DEF I!Working
  <2> QED BY <2>1, <2>2
<1>6. ASSUME NEW a \in Tasks, I!Installed(a)
      PROVE  InstallInv'
  <2>1. /\ author[a].pc = "installing" /\ author[a].name \in Names /\ author[a].slot \in Names
        /\ author' = [author EXCEPT ![a] = [I!Idle EXCEPT !.pc = "over"]]
        /\ cache' = [cache EXCEPT ![author[a].name] = {}]
        /\ dropping' = dropping \ {author[a].name}
        /\ staged' = [staged EXCEPT ![author[a].slot] = I!NoSlot]
        /\ UNCHANGED <<installed, report, audited, restaged, handed>>
    BY <1>6 DEF I!Installed, I!DropCached, I!Over, I!reportVars
  <2>2. /\ [I!Idle EXCEPT !.pc = "over"] \in AuthorState /\ [I!Idle EXCEPT !.pc = "over"].pc = "over"
        /\ I!NoSlot \in Staged
    BY ContentTyped DEF I!Idle
  <2> HIDE DEF I!Idle
  <2>3. \A b \in Tasks : author'[b] = author[b] \/ author'[b].pc = "over"
    BY <2>1, <2>2
  <2>4. \A s \in Names : staged'[s] = staged[s] \/ staged'[s] = I!NoSlot
    BY <2>1
  <2>5. author' \in [Tasks -> AuthorState] /\ staged' \in [Names -> Staged]
    BY <2>1, <2>2
  <2>6. InstallTypes'
    BY <2>1, <2>3, <2>4, <2>5 DEF I!Working
  <2> QED BY <2>1, <2>3, <2>4, <2>6 DEF I!Working, Cleared
<1>7. ASSUME NEW s \in Names, I!Uninstall(s)
      PROVE  InstallInv'
  BY <1>7, ContentTyped DEF I!Uninstall, I!Install, I!Upserts, Cleared, I!reportVars
<1>8. ASSUME NEW s \in Names, I!Uninstalled(s)
      PROVE  InstallInv'
  BY <1>8 DEF I!Uninstalled, I!DropCached, Cleared, I!reportVars
<1>9. ASSUME NEW s \in Names, I!GetManifest(s)
      PROVE  InstallInv'
  BY <1>9 DEF I!GetManifest, Cleared, I!reportVars
<1>10. CASE I!Restart
  <2>1. /\ installed' = [s \in Names |-> IF s \in BuiltIn THEN I!Bundled ELSE installed[s]]
        /\ cache' = [s \in Names |-> {}] /\ dropping' = {}
        /\ author' = [a \in Tasks |-> IF author[a].pc = "idle" THEN I!Idle ELSE [I!Idle EXCEPT !.pc = "over"]]
        /\ UNCHANGED <<staged, audited, restaged, handed>>
    BY <1>10 DEF I!Restart
  <2>7. /\ report' \in [Edits -> [pc : {"idle", "installing", "over"}, name : Names \cup {None}]]
        /\ \A r \in Edits : report'[r].pc # "installing"
    BY <1>10 DEF I!Restart, I!Pending
  <2>2. author' \in [Tasks -> AuthorState]
    BY <2>1, ContentTyped
  <2>3. \A a \in Tasks : author'[a].pc \in {"idle", "over"}
    BY <2>1 DEF I!Idle
  <2>4. installed' \in [Names -> I!Contents]
    BY <2>1, ContentTyped
  <2>5. InstallTypes'
    BY <2>1, <2>2, <2>3, <2>4, <2>7 DEF I!Working
  <2>6. \A s \in Names : Cleared(installed[s])'
    BY <2>1, ContentTyped DEF Cleared
  <2> QED BY <2>1, <2>3, <2>5, <2>6 DEF I!Working
<1>12. ASSUME NEW r \in Edits, NEW s \in Names, NEW content \in I!Contents, I!Brings(r, s, content)
       PROVE  InstallInv'
  <2>1. /\ report' = [report EXCEPT ![r] = [pc |-> "installing", name |-> s]]
        /\ installed' = [installed EXCEPT ![s] = content]
        /\ dropping' = dropping \cup {s} /\ handed' = handed \cup {content}
        /\ UNCHANGED <<staged, author, cache, audited, restaged>>
    BY <1>12 DEF I!Brings, I!Install, I!Upserts
  <2>2. InstallTypes'
    BY <2>1
  <2>3. \A t \in Names : Cleared(installed[t])'
    BY <2>1 DEF Cleared
  <2> QED BY <2>1, <2>2, <2>3
<1>13. ASSUME NEW r \in Edits, I!HandOver(r)
       PROVE  InstallInv'
  <2>1. I!Named(r) \subseteq I!Contents
    BY ContentTyped DEF I!Named, Staged
  <2>2. PICK s \in Names, content \in I!Named(r) : I!Brings(r, s, content)
    BY <1>13 DEF I!HandOver
  <2> QED BY <1>12, <2>1, <2>2
<1>14. ASSUME NEW r \in Edits, NEW s \in Names, I!UpdateSkill(r, s)
       PROVE  InstallInv'
  BY <1>12, <1>14, ContentTyped DEF I!UpdateSkill
<1>15. ASSUME NEW r \in Edits, I!HandOverFails(r)
       PROVE  InstallInv'
  BY <1>15 DEF I!HandOverFails, I!loaderVars, Cleared
<1>16. ASSUME NEW r \in Edits, I!HandedOver(r)
       PROVE  InstallInv'
  BY <1>16 DEF I!HandedOver, I!DropCached, Cleared
<1>11. CASE UNCHANGED I!installVars
  BY <1>11 DEF I!installVars, Cleared
<1> QED
  BY <1>1, <1>2, <1>3, <1>4, <1>5, <1>6, <1>7, <1>8, <1>9, <1>10, <1>11, <1>13, <1>14, <1>15, <1>16
     DEF I!Next

-----------------------------------------------------------------------------
(* The trust budget (permissions/trust_budget.py): a row has counted what  *)
(* was spent since it was set.                                             *)

Account == [spent : Nat, changed : BOOLEAN]
SetterState == [pc : {"idle", "updating", "inserting", "over"}, max : Limits \cup {None}, period : B!Periods]

\* What a row has used, when spent was spent since it was reset.
UpTo(max, spentNow) == IF max = None \/ spentNow < max THEN spentNow ELSE max

CountTypes ==
  /\ budget \in Seq(B!Rows) /\ account \in Seq(Account) /\ Len(account) = Len(budget)
  /\ setter \in [Requests -> SetterState]
  /\ run \in [Tasks -> {"idle", "checked", "working", "refused", "over"}]
  /\ date \in 0 .. MaxDays

CountInv ==
  /\ CountTypes
  /\ \A i \in 1 .. Len(budget) :
       ~account[i].changed => budget[i].used = UpTo(budget[i].max, account[i].spent)

-----------------------------------------------------------------------------
(* A row that counts an operation of one action still tells what was       *)
(* spent, up to its limit (permissions/trust_budget.py:114-149).           *)
LEMMA CountsOne ==
  ASSUME Limits \subseteq Nat, None \notin Nat,
         NEW old \in B!Rows, NEW n \in Nat
  PROVE  /\ B!Counts(old, 1) \in B!Rows
         /\ B!Counts(old, 1).max = old.max
         /\ old.used = UpTo(old.max, n) => B!Counts(old, 1).used = UpTo(old.max, n + 1)
<1>1. /\ old.max \in Nat \cup {None} /\ old.used \in Nat
      /\ old = [max |-> old.max, used |-> old.used, period |-> old.period, start |-> old.start]
  BY DEF B!Rows
<1>2. [old EXCEPT !.used = @ + 1] \in B!Rows /\ [old EXCEPT !.used = @ + 1].max = old.max
      /\ [old EXCEPT !.used = @ + 1].used = old.used + 1
  BY <1>1 DEF B!Rows
<1>3. CASE old.max = None
  BY <1>1, <1>2, <1>3 DEF B!Counts, UpTo
<1>4. CASE old.max # None
  BY <1>1, <1>2, <1>4 DEF B!Counts, UpTo
<1> QED BY <1>3, <1>4

LEMMA FunctionIsSeq ==
  ASSUME NEW Values, NEW n \in Nat, NEW f \in [1 .. n -> Values]
  PROVE  f \in Seq(Values) /\ Len(f) = n
<1>1. f \in Seq(Values)
  BY SeqDef
<1> QED BY <1>1, LenProperties

LEMMA UpToNothing ==
  ASSUME Limits \subseteq Nat, NEW max \in Limits \cup {None}
  PROVE  UpTo(max, 0) = 0
BY DEF UpTo

LEMMA InitCounts ==
  ASSUME MaxDays \in Nat, B!Init
  PROVE  CountInv
<1>1. B!NoSetter \in SetterState
  BY DEF B!NoSetter, SetterState, B!Periods
<1> QED BY <1>1 DEF B!Init, CountInv, CountTypes

LEMMA StepCounts ==
  ASSUME Limits \subseteq Nat, None \notin Nat, Costs = {1}, MaxDays \in Nat,
         CountInv, [B!Next]_B!budgetVars
  PROVE  CountInv'
<1> USE DEF CountInv, CountTypes
<1>s. \A s \in Requests : B!NoSetter \in SetterState /\ [B!NoSetter EXCEPT !.pc = "over"] \in SetterState
  BY DEF B!NoSetter, SetterState, B!Periods
<1>d. Len(budget) \in Nat /\ DOMAIN budget = 1 .. Len(budget) /\ DOMAIN account = 1 .. Len(budget)
  OBVIOUS
<1>1. ASSUME NEW s \in Requests, NEW max \in Limits \cup {None}, NEW period \in B!Periods,
             B!SetBegin(s, max, period)
      PROVE  CountInv'
  <2>1. setter' \in [Requests -> SetterState]
    BY <1>1 DEF B!SetBegin, SetterState
  <2> QED BY <1>1, <2>1 DEF B!SetBegin
<1>2. ASSUME NEW s \in Requests, B!SetEnd(s)
      PROVE  CountInv'
  <2> DEFINE to == setter[s]
  <2>0. to \in SetterState /\ setter' \in [Requests -> SetterState]
    BY <1>2, <1>s DEF B!SetEnd
  <2>1. CASE to.pc = "inserting"
    <3> DEFINE new == [max |-> to.max, used |-> 0, period |-> to.period, start |-> date]
               none == [spent |-> 0, changed |-> FALSE]
    <3>1. new \in B!Rows /\ none \in Account
      BY <2>0 DEF B!Rows, Account, SetterState
    <3>2. budget' = Append(budget, new) /\ account' = Append(account, none)
      BY <1>2, <2>1 DEF B!SetEnd
    <3>3. new.used = UpTo(new.max, none.spent)
      <4>1. new.max \in Limits \cup {None} /\ new.used = 0 /\ none.spent = 0
        BY <2>0 DEF SetterState
      <4> HIDE DEF new, none
      <4> QED BY <4>1, UpToNothing
    <3>4. /\ budget' \in Seq(B!Rows) /\ account' \in Seq(Account)
          /\ Len(budget') = Len(budget) + 1 /\ Len(account') = Len(budget')
      BY <3>1, <3>2
    <3>5. ASSUME NEW i \in 1 .. Len(budget'), ~account'[i].changed
          PROVE  budget'[i].used = UpTo(budget'[i].max, account'[i].spent)
      <4>1. CASE i \in 1 .. Len(budget)
        BY <3>2, <3>5, <4>1
      <4>2. CASE i = Len(budget) + 1
        BY <3>2, <3>3, <4>2
      <4> QED BY <3>4, <4>1, <4>2
    <3> QED BY <1>2, <2>0, <3>4, <3>5 DEF B!SetEnd
  <2>2. CASE to.pc = "updating"
    <3>1. budget' = [i \in 1 .. Len(budget) |->
            [budget[i] EXCEPT !.max = to.max, !.period = to.period, !.start = date]]
      BY <1>2, <2>2, <1>d DEF B!SetEnd
    <3>2. account' = [i \in 1 .. Len(budget) |-> [account[i] EXCEPT !.changed = TRUE]]
      BY <1>2, <2>2, <1>d DEF B!SetEnd
    <3>3. ASSUME NEW i \in 1 .. Len(budget)
          PROVE  /\ [budget[i] EXCEPT !.max = to.max, !.period = to.period, !.start = date] \in B!Rows
                 /\ [account[i] EXCEPT !.changed = TRUE] \in Account
                 /\ [account[i] EXCEPT !.changed = TRUE].changed
      <4>1. budget[i] \in B!Rows /\ account[i] \in Account
        OBVIOUS
      <4> QED BY <2>0, <4>1 DEF B!Rows, Account, SetterState
    <3>4. budget' \in Seq(B!Rows) /\ account' \in Seq(Account)
          /\ Len(budget') = Len(budget) /\ Len(account') = Len(budget)
      <4>1. budget' \in [1 .. Len(budget) -> B!Rows] /\ account' \in [1 .. Len(budget) -> Account]
        BY <3>1, <3>2, <3>3
      <4> QED BY <4>1, <1>d, FunctionIsSeq
    <3>5. \A i \in 1 .. Len(budget) : account'[i].changed
      BY <3>2, <3>3
    <3> QED BY <1>2, <2>0, <3>4, <3>5 DEF B!SetEnd
  <2> QED BY <1>2, <2>1, <2>2 DEF B!SetEnd
<1>3. ASSUME NEW r \in Tasks, B!Check(r) \/ B!Work(r) \/ B!WorkFails(r) \/ B!End(r)
      PROVE  CountInv'
  BY <1>3 DEF B!Check, B!Work, B!WorkFails, B!End
<1>4. ASSUME NEW r \in Tasks, NEW cost \in Costs, B!Consume(r, cost)
      PROVE  CountInv'
  <2>1. cost = 1
    OBVIOUS
  <2>2. budget' = [i \in 1 .. Len(budget) |-> B!Counts(budget[i], 1)]
    BY <1>4, <2>1, <1>d DEF B!Consume
  <2>3. account' = [i \in 1 .. Len(budget) |-> [account[i] EXCEPT !.spent = @ + 1]]
    BY <1>4, <2>1, <1>d DEF B!Consume
  <2>4. ASSUME NEW i \in 1 .. Len(budget)
        PROVE  /\ B!Counts(budget[i], 1) \in B!Rows
               /\ [account[i] EXCEPT !.spent = @ + 1] \in Account
               /\ ~[account[i] EXCEPT !.spent = @ + 1].changed =>
                    B!Counts(budget[i], 1).used =
                      UpTo(B!Counts(budget[i], 1).max, [account[i] EXCEPT !.spent = @ + 1].spent)
    <3>1. budget[i] \in B!Rows /\ account[i] \in Account
      OBVIOUS
    <3>2. /\ [account[i] EXCEPT !.spent = @ + 1] \in Account
          /\ [account[i] EXCEPT !.spent = @ + 1].changed = account[i].changed
          /\ [account[i] EXCEPT !.spent = @ + 1].spent = account[i].spent + 1
          /\ account[i].spent \in Nat
      BY <3>1 DEF Account
    <3>3. /\ B!Counts(budget[i], 1) \in B!Rows
          /\ B!Counts(budget[i], 1).max = budget[i].max
          /\ budget[i].used = UpTo(budget[i].max, account[i].spent) =>
               B!Counts(budget[i], 1).used = UpTo(budget[i].max, account[i].spent + 1)
      BY <3>1, <3>2, CountsOne
    <3> QED BY <3>2, <3>3
  <2>5. /\ budget' \in Seq(B!Rows) /\ account' \in Seq(Account)
        /\ Len(budget') = Len(budget) /\ Len(account') = Len(budget)
    <3>1. budget' \in [1 .. Len(budget) -> B!Rows] /\ account' \in [1 .. Len(budget) -> Account]
      BY <2>2, <2>3, <2>4
    <3> QED BY <3>1, <1>d, FunctionIsSeq
  <2>6. \A i \in 1 .. Len(budget) :
          ~account'[i].changed => budget'[i].used = UpTo(budget'[i].max, account'[i].spent)
    BY <2>2, <2>3, <2>4
  <2> QED BY <1>4, <2>5, <2>6 DEF B!Consume
<1>5. CASE B!Midnight
  BY <1>5 DEF B!Midnight
<1>6. CASE B!Restart
  <2> DEFINE fresh == [spent |-> 0, changed |-> FALSE]
  <2>1. budget' = [i \in 1 .. Len(budget) |->
          IF B!Expired(budget[i]) THEN [budget[i] EXCEPT !.used = 0, !.start = date] ELSE budget[i]]
    BY <1>6, <1>d DEF B!Restart
  <2>2. account' = [i \in 1 .. Len(budget) |-> IF B!Expired(budget[i]) THEN fresh ELSE account[i]]
    BY <1>6, <1>d DEF B!Restart
  <2>3. ASSUME NEW i \in 1 .. Len(budget)
        PROVE  /\ [budget[i] EXCEPT !.used = 0, !.start = date] \in B!Rows
               /\ fresh \in Account
               /\ [budget[i] EXCEPT !.used = 0, !.start = date].used =
                    UpTo([budget[i] EXCEPT !.used = 0, !.start = date].max, fresh.spent)
    <3> DEFINE reset == [budget[i] EXCEPT !.used = 0, !.start = date]
    <3>1. budget[i] \in B!Rows
      OBVIOUS
    <3>2. reset \in B!Rows /\ reset.max \in Limits \cup {None} /\ reset.used = 0
      BY <3>1 DEF B!Rows
    <3>3. fresh \in Account /\ fresh.spent = 0
      BY DEF Account
    <3> HIDE DEF reset, fresh
    <3>4. reset \in B!Rows /\ fresh \in Account /\ reset.used = UpTo(reset.max, fresh.spent)
      BY <3>2, <3>3, UpToNothing
    <3> QED BY <3>4 DEF reset, fresh
  <2>4. /\ budget' \in Seq(B!Rows) /\ account' \in Seq(Account)
        /\ Len(budget') = Len(budget) /\ Len(account') = Len(budget)
    <3>1. \A i \in 1 .. Len(budget) : budget[i] \in B!Rows /\ account[i] \in Account
      OBVIOUS
    <3>2. budget' \in [1 .. Len(budget) -> B!Rows] /\ account' \in [1 .. Len(budget) -> Account]
      BY <2>1, <2>2, <2>3, <3>1
    <3> QED BY <3>2, <1>d, FunctionIsSeq
  <2>5. ASSUME NEW i \in 1 .. Len(budget), ~account'[i].changed
        PROVE  budget'[i].used = UpTo(budget'[i].max, account'[i].spent)
    <3>1. CASE B!Expired(budget[i])
      BY <2>1, <2>2, <2>3, <3>1
    <3>2. CASE ~B!Expired(budget[i])
      BY <2>1, <2>2, <2>5, <3>2
    <3> QED BY <3>1, <3>2
  <2>6. setter' \in [Requests -> SetterState] /\ run' \in [Tasks -> {"idle", "checked", "working", "refused", "over"}]
    BY <1>6, <1>s DEF B!Restart
  <2> QED BY <1>6, <2>4, <2>5, <2>6 DEF B!Restart
<1>7. CASE UNCHANGED B!budgetVars
  BY <1>7 DEF B!budgetVars
<1> QED BY <1>1, <1>2, <1>3, <1>4, <1>5, <1>6, <1>7 DEF B!Next

LEMMA InvCounts ==
  ASSUME CountInv
  PROVE  B!BudgetCounted /\ B!BudgetTypeOK
<1>1. DOMAIN budget = 1 .. Len(budget) /\ DOMAIN account = DOMAIN budget
  BY DEF CountInv, CountTypes
<1>2. B!BudgetCounted
  BY <1>1 DEF CountInv, B!BudgetCounted, UpTo
<1>3. B!BudgetTypeOK
  BY <1>1 DEF CountInv, CountTypes, B!BudgetTypeOK, SetterState
<1> QED BY <1>2, <1>3

-----------------------------------------------------------------------------
(* The run steps one part at a time: a step of it is a step of each of     *)
(* these services, or leaves it alone.                                     *)

LEMMA SkillSteps ==
  ASSUME [Next]_vars
  PROVE  /\ [F!Next]_F!consentVars /\ [C!Next]_C!credentialVars
         /\ [I!Next]_I!installVars /\ [B!Next]_B!budgetVars
<1> USE DEF consentVars, credentialVars, installVars, budgetVars,
            F!consentVars, C!credentialVars, C!storeVars, C!routeVars, I!installVars, B!budgetVars
<1>1. CASE UNCHANGED vars
  BY <1>1 DEF vars
<1>2. CASE Next
  BY <1>2 DEF Next
<1> QED BY <1>1, <1>2

LEMMA SkillConstants == ConsentAssumption /\ CredentialAssumption /\ InstallAssumption
BY ServicesAssumption DEF ConsentAssumption, CredentialAssumption, InstallAssumption, Calls

(* Whatever tasks ask, save and revoke, a directory the user approved is   *)
(* approved and one the user revoked is not, until a purge takes the list, *)
(* unless an older list was still to be saved by another task, the         *)
(* settings or the cache (skills/files/skill.py:164-216,                   *)
(* api/routes/permissions.py:91-107, memory/demotion.py:218-251).          *)
THEOREM DirectoriesAreKept == Spec => []DirectoriesKept
<1>1. Init => ConsentInv
  BY InitConsent, SkillConstants DEF Init
<1>2. ConsentInv /\ [Next]_vars => ConsentInv'
  BY ConsentStep, SkillConstants, SkillSteps
<1>3. ConsentInv => DirectoriesKept
  BY ConsentProperties, SkillConstants DEF DirectoriesKept
<1> QED BY <1>1, <1>2, <1>3, PTL DEF Spec

(* Whatever tasks and the user do to the files, a change made to a file    *)
(* stays in it until the file is overwritten, moved or deleted, unless an  *)
(* edit asked about the file meanwhile (skills/files/skill.py:678-757).    *)
THEOREM ChangesAreKept == Spec => []NoChangeLost
<1>1. Init => ConsentInv
  BY InitConsent, SkillConstants DEF Init
<1>2. ConsentInv /\ [Next]_vars => ConsentInv'
  BY ConsentStep, SkillConstants, SkillSteps
<1>3. ConsentInv => NoChangeLost
  BY ConsentProperties, SkillConstants DEF NoChangeLost
<1> QED BY <1>1, <1>2, <1>3, PTL DEF Spec

(* Whatever authorizations, refreshes and deletions are under way          *)
(* together, the bundle stored is the newest of the authorization granted  *)
(* last, and its row is there just when it is, unless one stored over      *)
(* another, a refresh got no answer, or the writers of the row crossed     *)
(* (credentials/oauth.py:241-398, vault.py:103-176).                       *)
THEOREM CredentialIsCurrent == Spec => []CredentialCurrent
<1>1. Init => CredentialInv
  BY InitCredentials, SkillConstants DEF Init
<1>2. CredentialInv /\ [Next]_vars => CredentialInv'
  BY CredentialStep, SkillConstants, SkillSteps
<1>3. CredentialInv => CredentialCurrent
  BY CredentialProperties, SkillConstants DEF CredentialCurrent
<1> QED BY <1>1, <1>2, <1>3, PTL DEF Spec

(* Requests are routed to a skill just when its credential is stored, once *)
(* every change has been looked at, unless a look acted on was not the     *)
(* last taken or failed, a refresh stored over a deletion, or the          *)
(* credential was changed on the page of a skill, with no look             *)
(* (kernel/orchestrator.py:723-753, api/routes/oauth.py:92-106,            *)
(* settings.py:612-621, skills.py:94-125).                                 *)
THEOREM RoutedAsConfigured == Spec => []RoutedIfConfigured
<1>1. Init => CredentialInv
  BY InitCredentials, SkillConstants DEF Init
<1>2. CredentialInv /\ [Next]_vars => CredentialInv'
  BY CredentialStep, SkillConstants, SkillSteps
<1>3. CredentialInv => RoutedIfConfigured
  BY CredentialProperties, SkillConstants DEF RoutedIfConfigured
<1> QED BY <1>1, <1>2, <1>3, PTL DEF Spec

(* Whoever writes, retries, installs and removes skills, an authored skill *)
(* that is installed passed the audit, unless two authors used one staging *)
(* slot or the result of a skill brought it in, and no stale manifest      *)
(* stays cached (skills/authoring/author.py:152-376,                       *)
(* skills/loader.py:45-195, kernel/skill_executor.py:398-431).             *)
THEOREM InstalledSkillsAudited == Spec => []InstalledIsAudited
<1>1. Init => InstallInv
  BY InitInstall, SkillConstants DEF Init
<1>2. InstallInv /\ [Next]_vars => InstallInv'
  BY InstallStep, SkillConstants, SkillSteps
<1>3. InstallInv => InstalledIsAudited
  BY DEF InstallInv, I!InstalledIsAudited, InstalledIsAudited, Cleared
<1> QED BY <1>1, <1>2, <1>3, PTL DEF Spec

(* Whoever sets, checks, spends and restarts, a budget of actions has      *)
(* counted what was spent since it was set or reset, up to its limit       *)
(* (permissions/trust_budget.py:27-171, skills/sandbox.py:652-711).        *)
THEOREM BudgetAlwaysCounted == Spec => []BudgetCounted
<1>1. Init => CountInv
  BY InitCounts, ServicesAssumption DEF Init
<1>2. CountInv /\ [Next]_vars => CountInv'
  BY StepCounts, ServicesAssumption, SkillSteps
<1>3. CountInv => BudgetCounted
  BY InvCounts DEF BudgetCounted
<1> QED BY <1>1, <1>2, <1>3, PTL DEF Spec

(* Every part of the run keeps the type of its state, whatever it does.    *)
THEOREM ServicesTyped == Spec => []ServicesTypeOK
<1> DEFINE Inv == /\ SchedulerInv /\ ProactivityInv /\ ServerInv
                  /\ ConsentInv /\ CredentialInv /\ InstallInv /\ CountInv
<1>1. Init => Inv
  BY InitScheduler, InitProactivity, InitServers, InitConsent, InitCredentials, InitInstall, InitCounts,
     ServiceConstants, SkillConstants, ServicesAssumption DEF Init
<1>2. Inv /\ [Next]_vars => Inv'
  BY StepScheduler, ProactivityStep, ServerStep, ConsentStep, CredentialStep, InstallStep, StepCounts,
     ServiceSteps, SkillSteps, ServiceConstants, SkillConstants, ServicesAssumption
<1>3. Inv => ServicesTypeOK
  <2>1. InstallInv => I!InstallTypeOK
    BY SkillConstants DEF InstallInv, InstallTypes, I!InstallTypeOK, AuthorState, Staged,
       InstallAssumption, I!Working
  <2> QED BY <2>1, InvScheduler, ProactivityProperties, ServerProperties, ConsentProperties,
             CredentialProperties, InvCounts, ServiceConstants, SkillConstants DEF ServicesTypeOK
<1> QED BY <1>1, <1>2, <1>3, PTL DEF Spec

=============================================================================
