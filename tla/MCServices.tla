---------------------------- MODULE MCServices ----------------------------
(***************************************************************************)
(* The services around a conversation checked in one run, one at a time.   *)
(* They share no state; `part` says which one runs, and the others keep    *)
(* their initial state.  Five of them run in two parts, each with a part  *)
(* of their operations, so that the bounds reach the cases of each.        *)
(***************************************************************************)
EXTENDS Naturals, Sequences, FiniteSets, TLC

CONSTANTS Tasks,     \* runs of skills: skill tasks, authors, uses of a token, callers
          Requests,  \* reminders, authorizations, requests that set a budget
          MoreCalls, \* requests to an MCP server besides Tasks
          Names, BuiltIn, Dirs, Workspace, Jobs, Slots, Edits, Answers, Loops, None,
          Limits, Costs, OnDemand,
          MaxDue, MaxStops, Budget, ActionBudget, Dismissals, MaxDays, MaxTokens, MaxDeletes,
          MaxAttempts, MaxRestarts, MaxSpent

VARIABLES part,
  job, slot, past, copy, poll, cancel, set, stops, dues, ran, again, told, retold, dropped,
  used, actions, day, resetDay, silenced, dismissals, pending, quiet, enabled, cooling, kind, pc,
  opps, feedback, lateCallers, overtook, fired, early,
  server, entry, status, open, on_demand, reconnect, lock, proc, cancelled, configured, recached, taken,
  approved, byTask, loaded, trusted, file, event, task, answer, revoke, edited, consent, decided, crossed, made, unseen,
  keychain, row, flow, use, deleting, deletes, issued, routed, look, late, overtaken, overlooked,
  granted, overstored, lost, mixed,
  staged, author, report, installed, cache, dropping, restarts, audited, restaged, handed,
  budget, account, run, setter, date, starts, spent

schedulerVars == <<job, slot, past, copy, poll, cancel, set, stops, dues, ran, again, told, retold, dropped>>
proVars == <<used, actions, day, resetDay, silenced, dismissals, pending, quiet, enabled, cooling,
             kind, pc, opps, feedback, lateCallers, overtook, fired, early>>
serverVars == <<server, entry, status, open, on_demand, reconnect, lock, proc, cancelled, configured,
                recached, taken>>
consentVars == <<approved, byTask, loaded, trusted, file, event, task, answer, revoke, edited, consent,
                 decided, crossed, made, unseen>>
credentialVars == <<keychain, row, flow, use, deleting, deletes, issued, routed, look, late, overtaken,
                    overlooked, granted, overstored, lost, mixed>>
installVars == <<staged, author, report, installed, cache, dropping, restarts, audited, restaged, handed>>
budgetVars == <<budget, account, run, setter, date, starts, spent>>

Calls == Tasks \cup MoreCalls
\* How the servers of the configurations are connected to.
Kinds == [c \in Names |-> IF c \in OnDemand THEN "on_demand" ELSE "persistent"]

\* Names are told apart, the bounds are numbers, and the directory of the workspace is one of those
\* that can be approved; every operation that a budget counts is one action.
ASSUME ServicesAssumption ==
  /\ None \notin UNION {Jobs, Requests, Slots, Dirs, Names, Calls, Edits, Loops} /\ None \notin Nat
  /\ Calls \cap Loops = {} /\ Tasks \cap Edits = {}
  /\ Workspace \in Dirs /\ BuiltIn \subseteq Names
  /\ IsFiniteSet(Tasks) /\ IsFiniteSet(Answers)
  /\ Limits \subseteq Nat /\ Costs = {1}
  /\ {Budget, ActionBudget, Dismissals, MaxDays} \subseteq Nat
  /\ {MaxTokens, MaxAttempts} \subseteq Nat \ {0}

S == INSTANCE Scheduler WITH Reminders <- Requests
P == INSTANCE Proactivity WITH Callers <- Tasks, answer <- feedback, late <- lateCallers, overtaken <- overtook
M == INSTANCE McpServers WITH Configs <- Names, Kind <- Kinds, row <- server, decided <- configured,
                              crossed <- recached
F == INSTANCE SkillConsent WITH NoDir <- None
C == INSTANCE Credentials WITH Flows <- Requests, NoFlow <- None, Callers <- Tasks, crossed <- overstored
I == INSTANCE SkillInstall WITH Authors <- Tasks, Reports <- Edits, slot <- staged
B == INSTANCE TrustBudget WITH Runs <- Tasks, Setters <- Requests, NoLimit <- None, day <- date,
                               restarts <- starts

Parts == {"tasks", "reminders", "proactivity", "servers", "reconnect", "access", "files", "tokens", "routing",
          "skills", "reports", "budget"}

Init ==
  /\ part \in Parts
  /\ S!Init /\ P!Init /\ M!Init /\ F!Init /\ C!Init /\ I!Init /\ B!Init
  /\ part \notin {"servers", "reconnect"} => server = M!NoRow
  /\ approved \in CASE part = "access" -> {{}, Dirs} [] part = "files" -> {Dirs} [] OTHER -> {{}}
  /\ byTask /\ (part # "access" \/ approved = {} => loaded = {})
  /\ \A d \in Dirs : file[d].there <=> part = "files"
  /\ part # "routing" => ~routed

\* The tasks of the scheduler; or its reminders.
JobsStep == UNCHANGED set
RemindersStep == UNCHANGED job

\* Three requests to a server, with no reconnect loop; or two, with the loop and the skill that
\* installs a server.
ServersStep == reconnect' = None /\ \A p \in Calls : proc'[p].pc # "preparing"
ReconnectStep == {p \in Calls : proc'[p].pc = "idle"} # {}

\* The directories approved, with one for a task and connections that stay; or the files, with
\* the directories approved.
OnAccess == {"none", "look", "approve"}
AccessStep ==
  /\ \A t \in Tasks : task'[t].op \in OnAccess
  /\ \A t \in Tasks : answer'[t] # "lost"
  /\ UNCHANGED <<file, event, trusted>>
FilesStep == (\A t \in Tasks : task'[t].op \notin OnAccess \ {"none"}) /\ UNCHANGED <<approved, loaded, revoke>>

\* The token of a credential, with looks that follow each change at once and do not fail, and no
\* authorization that is too old; or the looks, with no use of the token.
TokensStep ==
  /\ (\E x \in DOMAIN look : look[x] # "none") => UNCHANGED <<keychain, row, flow, use>>
  /\ ~overlooked' /\ \A f \in Requests : flow'[f] # "aged"
RoutingStep == UNCHANGED use

\* Two authors; or one, with a result that hands a skill over.
SkillsStep == UNCHANGED report
ReportsStep == {t \in Tasks : author'[t].pc = "idle"} # {}

Next ==
  \/ /\ part \in {"tasks", "reminders"} /\ S!Next /\ IF part = "tasks" THEN JobsStep ELSE RemindersStep
     /\ UNCHANGED <<part, proVars, serverVars, consentVars, credentialVars, installVars, budgetVars>>
  \/ /\ part = "proactivity" /\ P!Next
     /\ UNCHANGED <<part, schedulerVars, serverVars, consentVars, credentialVars, installVars, budgetVars>>
  \/ /\ part \in {"servers", "reconnect"} /\ M!Next /\ IF part = "servers" THEN ServersStep ELSE ReconnectStep
     /\ UNCHANGED <<part, schedulerVars, proVars, consentVars, credentialVars, installVars, budgetVars>>
  \/ /\ part \in {"access", "files"} /\ F!Next /\ IF part = "access" THEN AccessStep ELSE FilesStep
     /\ UNCHANGED <<part, schedulerVars, proVars, serverVars, credentialVars, installVars, budgetVars>>
  \/ /\ part \in {"tokens", "routing"} /\ C!Next /\ IF part = "tokens" THEN TokensStep ELSE RoutingStep
     /\ UNCHANGED <<part, schedulerVars, proVars, serverVars, consentVars, installVars, budgetVars>>
  \/ /\ part \in {"skills", "reports"} /\ I!Next /\ IF part = "skills" THEN SkillsStep ELSE ReportsStep
     /\ UNCHANGED <<part, schedulerVars, proVars, serverVars, consentVars, credentialVars, budgetVars>>
  \/ /\ part = "budget" /\ B!Next
     /\ UNCHANGED <<part, schedulerVars, proVars, serverVars, consentVars, credentialVars, installVars>>

vars == <<part, schedulerVars, proVars, serverVars, consentVars, credentialVars, installVars, budgetVars>>
Spec == Init /\ [][Next]_vars

Sym == Permutations(Tasks) \cup Permutations(Requests)

\* The states of the parts have their types.
ServicesTypeOK ==
  /\ S!SchedulerTypeOK /\ P!ProactivityTypeOK /\ M!ServerTypeOK /\ F!ConsentTypeOK
  /\ C!CredentialTypeOK /\ I!InstallTypeOK /\ B!BudgetTypeOK

\* A task runs once each time it is due, a reminder is shown once, and none is forgotten.
DueOnceEach == S!DueOnceEach
\* The day's suggestions and actions keep to their budget, and a recipe to its cooldown.
SuggestionsLimited == P!BudgetHeld /\ P!CooldownHeld
\* The directories approved are those the user approved and did not revoke.
DirectoriesKept == F!DirectoriesKept
\* A change made to a file is kept.
NoChangeLost == F!NoChangeLost
\* A server runs with the configuration the user gave last.
RunsAsConfigured == M!RunsAsConfigured
\* The credential stored is the one granted last, and of use.
CredentialCurrent == C!CredentialCurrent
\* Requests are routed to a skill just when its credential is stored.
RoutedIfConfigured == C!RoutedIfConfigured
\* An authored skill that is installed passed the audit.
InstalledIsAudited == I!InstalledIsAudited
\* A budget has counted what was spent.
BudgetCounted == B!BudgetCounted
=============================================================================
