---------------------------- MODULE SkillInstall ----------------------------
(***************************************************************************)
(* Skills are written by the model, audited, confirmed and installed       *)
(* (skills/authoring/author.py, auditor.py, staging.py), or handed over by *)
(* the result of a skill and installed as they are                         *)
(* (kernel/skill_executor.py); their manifests are kept and cached         *)
(* (skills/loader.py).                                                     *)
(*                                                                         *)
(* What is installed is a content: a built-in skill, the n-th attempt of   *)
(* an author, or what a skill wrote itself.  Its manifest goes with it.    *)
(***************************************************************************)
EXTENDS Naturals

CONSTANTS Authors,      \* runs of create_skill
          Reports,      \* results of skills that ask for an installation, and updates
          Names,        \* names of skills
          BuiltIn,      \* those bundled with the program
          None,
          MaxAttempts,  \* _max_attempts
          MaxRestarts   \* bound

NoSkill == [by |-> None, n |-> 0]
Bundled == [by |-> None, n |-> 1]
Own(r) == [by |-> r, n |-> 1]
Contents == {NoSkill, Bundled} \cup [by : Authors, n : 1 .. MaxAttempts] \cup {Own(r) : r \in Reports}
\* A staging slot holds a content and the name in its manifest.
NoSlot == [content |-> NoSkill, name |-> None]

VARIABLES
  slot,       \* slot[s]: what is staged in the directory of a name
  author,     \* author[a]: where it is, its slot, its content, the name in its manifest
  report,     \* report[r]: where it is, and the name it installs
  installed,  \* installed[s]: what is installed: its files and its row
  cache,      \* cache[s]: the manifest cached, if any
  dropping,   \* names whose cached manifest an install or uninstall has still to drop
  restarts,
  audited,    \* history: contents that passed the audit
  restaged,   \* history: contents staged in a slot another author was using
  handed      \* history: contents that a result or an update brought in

installVars == <<slot, author, report, installed, cache, dropping, restarts, audited, restaged, handed>>

Idle == [pc |-> "idle", slot |-> None, content |-> NoSkill, name |-> None]
Working == {"auditing", "failed", "confirming"}
Pending == [pc |-> "idle", name |-> None]

InstallTypeOK ==
  /\ \A s \in Names : slot[s] = NoSlot \/ (slot[s].content \in Contents /\ slot[s].name \in Names)
  /\ \A a \in Authors :
       /\ author[a].pc \in Working \cup {"idle", "installing", "over"}
       /\ author[a].pc \in Working => author[a].content.by = a /\ author[a].slot \in Names
  /\ report \in [Reports -> [pc : {"idle", "installing", "over"}, name : Names \cup {None}]]
  /\ installed \in [Names -> Contents]
  /\ \A s \in Names : cache[s] \in {{}} \cup {{c} : c \in Contents}
  /\ dropping \subseteq Names

Init ==
  /\ slot = [s \in Names |-> NoSlot]
  /\ author = [a \in Authors |-> Idle] /\ report = [r \in Reports |-> Pending]
  /\ installed = [s \in Names |-> IF s \in BuiltIn THEN Bundled ELSE NoSkill]
  /\ cache = [s \in Names |-> {}]
  /\ dropping = {} /\ restarts = 0
  /\ audited = {} /\ restaged = {} /\ handed = {}

loaderVars == <<installed, cache, dropping>>
reportVars == <<report, handed>>
Over(a) == author' = [author EXCEPT ![a] = [Idle EXCEPT !.pc = "over"]]

\* write_skill: the files in the slot are overwritten.
Stage(a, s, content, name) ==
  /\ slot' = [slot EXCEPT ![s] = [content |-> content, name |-> name]]
  /\ restaged' = IF \E b \in Authors \ {a} : author[b].slot = s /\ author[b].pc # "over"
                 THEN restaged \cup {content} ELSE restaged
  /\ author' = [author EXCEPT ![a] = [pc |-> "auditing", slot |-> s, content |-> content, name |-> name]]

-----------------------------------------------------------------------------
(* Authoring.                                                              *)

\* The model writes the code and the manifest.
Generate(a, s) ==
  /\ author[a].pc = "idle"
  /\ Stage(a, s, [by |-> a, n |-> 1], s)
  /\ UNCHANGED <<loaderVars, reportVars, restarts, audited>>

\* The first answer is not JSON, twice.
GenerateFails(a) ==
  /\ author[a].pc = "idle" /\ Over(a)
  /\ UNCHANGED <<slot, loaderVars, reportVars, restarts, audited, restaged>>

\* The static checks and the model's review are passed.
AuditPasses(a) ==
  /\ author[a].pc = "auditing"
  /\ author' = [author EXCEPT ![a].pc = "confirming"]
  /\ audited' = audited \cup {author[a].content}
  /\ UNCHANGED <<slot, loaderVars, reportVars, restarts, restaged>>

AuditFails(a) ==
  /\ author[a].pc = "auditing"
  /\ author' = [author EXCEPT ![a].pc = "failed"]
  /\ UNCHANGED <<slot, loaderVars, reportVars, restarts, audited, restaged>>

\* All that failed goes into the next attempt.  The manifest may come with another
\* name; the slot keeps the first.
Retry(a, name) ==
  /\ author[a].pc = "failed" /\ author[a].content.n < MaxAttempts
  /\ Stage(a, author[a].slot, [by |-> a, n |-> author[a].content.n + 1], name)
  /\ UNCHANGED <<loaderVars, reportVars, restarts, audited>>

ConfirmsAnyway(a) == [author[a] EXCEPT !.pc = "confirming"]
Rejects(a) == [Idle EXCEPT !.pc = "over"]

\* The attempts or the tokens are used up: rejected, and left in the slot.
Reject(a) ==
  /\ author[a].pc = "failed"
  /\ author' = [author EXCEPT ![a] = Rejects(a)]
  /\ UNCHANGED <<slot, loaderVars, reportVars, restarts, audited, restaged>>

\* The tokens are used up before the audit: there is no verdict, and create_skill fails.
NoVerdict(a) ==
  /\ author[a].pc = "auditing" /\ Over(a)
  /\ UNCHANGED <<slot, loaderVars, reportVars, restarts, audited, restaged>>

Decline(a) ==
  /\ author[a].pc = "confirming" /\ Over(a)
  /\ UNCHANGED <<slot, loaderVars, reportVars, restarts, audited, restaged>>

\* The row is being written.
Upserts(name) == dropping' = dropping \cup {name}

\* The loader copies the files over what is there, and writes the row.
Install(name, content) == installed' = [installed EXCEPT ![name] = content] /\ Upserts(name)

\* Confirmed: what is staged is installed, under the name in its manifest.
InstallStaged(a) ==
  /\ author[a].pc = "confirming"
  /\ LET s == author[a].slot IN
       IF slot[s] = NoSlot THEN Over(a) /\ UNCHANGED <<installed, dropping>>
       ELSE /\ Install(slot[s].name, slot[s].content)
            /\ author' = [author EXCEPT ![a].pc = "installing", ![a].name = slot[s].name]
  /\ UNCHANGED <<slot, cache, reportVars, restarts, audited, restaged>>

\* The manifest is not valid: create_skill fails, and leaves the slot.
Invalid(a) ==
  /\ author[a].pc = "confirming" /\ slot[author[a].slot] # NoSlot /\ Over(a)
  /\ UNCHANGED <<slot, loaderVars, reportVars, restarts, audited, restaged>>

KeepCached(name) == cache' = cache /\ dropping' = dropping \ {name}
DropCached(name) == cache' = [cache EXCEPT ![name] = {}] /\ dropping' = dropping \ {name}

\* The row is written: its cached manifest is dropped, and the slot removed, whoever staged there last.
Installed(a) ==
  /\ author[a].pc = "installing"
  /\ DropCached(author[a].name)
  /\ slot' = [slot EXCEPT ![author[a].slot] = NoSlot]
  /\ Over(a)
  /\ UNCHANGED <<installed, reportVars, restarts, audited, restaged>>

-----------------------------------------------------------------------------
(* Results of skills.                                                      *)

\* The directory a result names: a staging slot, or one of the skill's own, with both files there.
Named(r) == {Own(r)} \cup ({slot[s].content : s \in Names} \ {NoSkill})

Brings(r, s, content) ==
  /\ report[r].pc = "idle"
  /\ Install(s, content)
  /\ report' = [report EXCEPT ![r] = [pc |-> "installing", name |-> s]]
  /\ handed' = handed \cup {content}
  /\ UNCHANGED <<slot, author, cache, restarts, audited, restaged>>

\* install_authored_skill: what the directory holds is installed, under the name in its
\* manifest, with neither audit nor question.
HandOver(r) ==
  \E s \in Names, content \in Named(r) :
    /\ \A t \in Names : slot[t].content = content => s = slot[t].name
    /\ Brings(r, s, content)

\* update_skill, which nothing calls: the manifest must have the name of the skill.
UpdateSkill(r, s) == Brings(r, s, Own(r))

\* The directory is not named or lacks a file, or the manifest is not valid.
HandOverFails(r) ==
  /\ report[r].pc = "idle"
  /\ report' = [report EXCEPT ![r].pc = "over"]
  /\ UNCHANGED <<slot, author, loaderVars, handed, restarts, audited, restaged>>

\* The row is written, and the slot left as it is.
HandedOver(r) ==
  /\ report[r].pc = "installing"
  /\ DropCached(report[r].name)
  /\ report' = [report EXCEPT ![r].pc = "over"]
  /\ UNCHANGED <<slot, author, installed, handed, restarts, audited, restaged>>

-----------------------------------------------------------------------------
(* The loader.                                                             *)

Uninstall(s) ==
  /\ installed[s] # NoSkill /\ s \notin dropping
  /\ Install(s, NoSkill)
  /\ UNCHANGED <<slot, author, cache, reportVars, restarts, audited, restaged>>

\* The row is deleted.
Uninstalled(s) ==
  /\ s \in dropping
  /\ ~\E a \in Authors : author[a].pc = "installing" /\ author[a].name = s
  /\ ~\E r \in Reports : report[r].pc = "installing" /\ report[r].name = s
  /\ DropCached(s)
  /\ UNCHANGED <<slot, author, installed, reportVars, restarts, audited, restaged>>

\* get_manifest: a skill that is not installed is cached too.  (The rows are read and
\* written on one connection, in the order the statements were issued.)
GetManifest(s) ==
  /\ cache[s] = {}
  /\ cache' = [cache EXCEPT ![s] = {installed[s]}]
  /\ UNCHANGED <<slot, author, installed, dropping, reportVars, restarts, audited, restaged>>

\* The built-in skills are installed again, over what has their names.
Restart ==
  /\ restarts < MaxRestarts /\ restarts' = restarts + 1
  /\ installed' = [s \in Names |-> IF s \in BuiltIn THEN Bundled ELSE installed[s]]
  /\ cache' = [s \in Names |-> {}] /\ dropping' = {}
  /\ author' = [a \in Authors |-> IF author[a].pc = "idle" THEN Idle ELSE [Idle EXCEPT !.pc = "over"]]
  /\ report' = [r \in Reports |-> IF report[r].pc = "idle" THEN Pending ELSE [pc |-> "over", name |-> None]]
  /\ UNCHANGED <<slot, audited, restaged, handed>>

Next ==
  \/ \E a \in Authors :
       \/ GenerateFails(a) \/ AuditPasses(a) \/ AuditFails(a) \/ Reject(a) \/ NoVerdict(a)
       \/ Decline(a) \/ InstallStaged(a) \/ Invalid(a) \/ Installed(a)
       \/ \E s \in Names : Generate(a, s) \/ Retry(a, s)
  \/ \E r \in Reports : HandOver(r) \/ HandOverFails(r) \/ HandedOver(r) \/ \E s \in Names : UpdateSkill(r, s)
  \/ \E s \in Names : Uninstall(s) \/ Uninstalled(s) \/ GetManifest(s)
  \/ Restart

Spec == Init /\ [][Next]_installVars

-----------------------------------------------------------------------------
(* What an author wrote, and is installed, passed the audit, unless two    *)
(* authors used one slot or the result of a skill brought it in, which     *)
(* asks neither the audit nor the user; what a skill wrote itself came in  *)
(* no other way.  And a cached manifest is the one installed, unless an    *)
(* install or uninstall has still to drop it                               *)
(* (skills/authoring/author.py:152-230, kernel/skill_executor.py:398-431,  *)
(* skills/loader.py:45-143).                                               *)
InstalledIsAudited ==
  \A s \in Names :
    /\ installed[s].by # None => installed[s] \in audited \cup restaged \cup handed
    /\ s \notin dropping => cache[s] \subseteq {installed[s]}
=============================================================================
