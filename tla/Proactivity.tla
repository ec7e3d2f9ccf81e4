----------------------------- MODULE Proactivity -----------------------------
(***************************************************************************)
(* What the agent does unasked: suggestions after a task, nudges while the *)
(* user is idle and autonomous actions (kernel/proactivity.py), recipes    *)
(* (kernel/recipes.py), the relationship level that gates them             *)
(* (kernel/emotions.py) and the greeting that resets them                  *)
(* (kernel/greeting.py).  They share the budget of the day.                *)
(*                                                                         *)
(* A recipe fires from many triggers, each evaluated by a task of its own; *)
(* which event matches a trigger or a condition is left open.              *)
(***************************************************************************)
EXTENDS Naturals, FiniteSets

CONSTANTS Callers,       \* what asks to act, once each
          Answers,       \* feedback to suggestions
          Budget,        \* suggestions a day
          ActionBudget,  \* autonomous actions a day
          Dismissals,    \* dismissals that silence the session (MAX_SESSION_DISMISSALS)
          MaxDays

VARIABLES
  used, actions,   \* of the day's budgets
  day, resetDay,   \* the date, and that of the last reset of the counters
  silenced, dismissals,
  pending,         \* a suggestion waits to be acknowledged
  quiet,           \* the user has been idle for long enough, and so has the nudge loop
  enabled, cooling, \* the recipe is switched on; it fired within its cooldown
  kind,            \* what each caller is: a completed task that may suggest a follow-up,
                   \* an evaluation of the recipe, a round of one of the two loops
  pc,              \* where it stands
  opps,            \* autonomous actions the model has proposed
  answer,          \* where each feedback stands
  late,            \* history: callers past their check of the budget when another used it
  overtaken,       \* history: one of them used it after
  fired, early     \* history: firings within a cooldown, and evaluations begun before it

proVars == <<used, actions, day, resetDay, silenced, dismissals, pending, quiet, enabled, cooling, kind, pc,
             opps, answer, late, overtaken, fired, early>>

Kinds == {"suggest", "recipe", "nudge", "auto"}
Are(k) == {c \in Callers : kind[c] = k}

ProactivityTypeOK ==
  /\ used \in Nat /\ actions \in Nat /\ day \in 0..MaxDays /\ resetDay \in 0..day
  /\ dismissals \in 0..Cardinality(Answers)
  /\ {silenced, pending, quiet, enabled, cooling, overtaken} \subseteq BOOLEAN
  /\ opps \in 0..2
  /\ kind \in [Callers -> Kinds \cup {"none"}]
  /\ pc \in [Callers -> {"idle", "relating", "settings", "looking", "conditions", "proposing",
                         "acting", "done"}]
  /\ answer \in [Answers -> {"none", "yes", "no", "done"}]
  /\ late \subseteq Callers /\ early \subseteq Are("recipe")

Init ==
  /\ used = 0 /\ actions = 0 /\ day = 0 /\ resetDay = 0
  /\ silenced = FALSE /\ dismissals = 0 /\ pending = FALSE /\ quiet = FALSE
  /\ enabled = TRUE /\ cooling = FALSE
  /\ kind = [c \in Callers |-> "none"] /\ pc = [c \in Callers |-> "idle"] /\ opps = 0 /\ answer = [a \in Answers |-> "none"]
  /\ late = {} /\ overtaken = FALSE /\ fired = 0 /\ early = {}

counters == <<used, actions, day, resetDay>>
session == <<silenced, dismissals, pending, quiet>>
recipe == <<enabled, cooling, fired, early>>
history == <<late, overtaken>>

-----------------------------------------------------------------------------
(* is_allowed, and the checks of a recipe, which are the same.             *)

\* A loop asks when nothing is left of its last round; silence stops all.
Asks(k) ==
  /\ ~silenced
  /\ k = "recipe" => enabled /\ ~cooling
  /\ k = "nudge" => quiet /\ ~pending
  /\ k \in {"nudge", "auto"} => \A c \in Are(k) : pc[c] = "done"

Begin(c, k) ==
  /\ pc[c] = "idle" /\ Asks(k)
  /\ kind' = [kind EXCEPT ![c] = k] /\ pc' = [pc EXCEPT ![c] = "relating"]
  /\ opps' = IF k = "auto" THEN 0 ELSE opps
  /\ UNCHANGED <<counters, session, recipe, answer, history>>

\* compute_relationship_score, kept for five minutes; _maybe_reset_daily.
Relate(c) ==
  /\ pc[c] = "relating"
  /\ \/ /\ pc' = [pc EXCEPT ![c] = "done"]
        /\ UNCHANGED <<used, actions, resetDay, overtaken>>
     \/ /\ pc' = [pc EXCEPT ![c] = "settings"]
        /\ IF resetDay # day
           THEN used' = 0 /\ actions' = 0 /\ resetDay' = day /\ overtaken' = FALSE
           ELSE UNCHANGED <<used, actions, resetDay, overtaken>>
  /\ UNCHANGED <<kind, day, session, recipe, opps, answer, late>>

\* The settings have been read: is anything left of the budget?
HasBudgetOne(c) == IF kind[c] = "auto" THEN actions < ActionBudget ELSE used <= Budget
HasBudget(c) == IF kind[c] = "auto" THEN actions < ActionBudget ELSE used < Budget

Past == {c \in Callers : pc[c] \in {"looking", "conditions"} \/ (kind[c] = "recipe" /\ pc[c] = "acting")}
Use(c) ==
  /\ used' = used + 1
  /\ late' = late \cup (Past \ {c})
  /\ overtaken' = (overtaken \/ c \in late)

Refused(c) ==
  /\ pc[c] = "settings" /\ ~HasBudget(c)
  /\ pc' = [pc EXCEPT ![c] = "done"]
  /\ UNCHANGED <<kind, counters, session, recipe, opps, answer, history>>

Allowed(c, next) ==
  /\ pc[c] = "settings" /\ HasBudget(c)
  /\ pc' = [pc EXCEPT ![c] = next]

-----------------------------------------------------------------------------
(* Suggestions.                                                            *)

\* A follow-up is suggested if there is one for the skill.
Suggest(c) ==
  /\ kind[c] = "suggest" /\ Allowed(c, "done")
  /\ Use(c) \/ UNCHANGED <<used, history>>
  /\ UNCHANGED <<kind, actions, day, resetDay, session, recipe, opps, answer>>

\* A nudge goes through the reminders first.
NudgeLook(c) ==
  /\ kind[c] = "nudge" /\ Allowed(c, "looking")
  /\ UNCHANGED <<kind, counters, session, recipe, opps, answer, history>>

\* It counts, and waits for an acknowledgement; building its event raises, as the
\* nudge has no "message".
NudgeEnd(c) ==
  /\ pc[c] = "looking" /\ pc' = [pc EXCEPT ![c] = "done"]
  /\ \/ Use(c) /\ pending' = TRUE /\ quiet' = FALSE
     \/ UNCHANGED <<used, history, pending, quiet>>
  /\ UNCHANGED <<kind, actions, day, resetDay, silenced, dismissals, recipe, opps, answer>>

-----------------------------------------------------------------------------
(* Autonomous actions: the model proposes some, and each is checked anew.  *)

\* The first check is of the loop, a later one of an action.
AutoAllowed(c) ==
  /\ kind[c] = "auto" /\ Allowed(c, IF opps = 0 THEN "proposing" ELSE "acting")
  /\ UNCHANGED <<kind, counters, session, recipe, opps, answer, history>>

NextAction(n) == IF n = 0 \/ silenced THEN "done" ELSE "relating"

Propose(c) ==
  /\ pc[c] = "proposing"
  /\ opps' \in 0..2 /\ pc' = [pc EXCEPT ![c] = NextAction(opps')]
  /\ UNCHANGED <<kind, counters, session, recipe, answer, history>>

Act(c) ==
  /\ kind[c] = "auto" /\ pc[c] = "acting"
  /\ actions' = actions + 1 /\ opps' = opps - 1
  /\ pc' = [pc EXCEPT ![c] = NextAction(opps')]
  /\ UNCHANGED <<kind, used, day, resetDay, session, recipe, answer, history>>

-----------------------------------------------------------------------------
(* Recipes.                                                                *)

RecipeAllowed(c) ==
  /\ kind[c] = "recipe" /\ Allowed(c, "conditions")
  /\ UNCHANGED <<kind, counters, session, recipe, opps, answer, history>>

ConditionsFail(c) ==
  /\ pc[c] = "conditions" /\ pc' = [pc EXCEPT ![c] = "done"]
  /\ UNCHANGED <<kind, counters, session, recipe, opps, answer, history>>

\* The cooldown begins with the first action.
StartsCoolingAfter == cooling
StartsCooling == TRUE

Evaluating == {c \in Are("recipe") : pc[c] \in {"relating", "settings", "conditions"}}

Fire(c) ==
  /\ pc[c] = "conditions" /\ pc' = [pc EXCEPT ![c] = "acting"]
  /\ cooling' = StartsCooling
  /\ fired' = fired + 1
  /\ early' = IF fired = 0 THEN Evaluating \ {c} ELSE early
  /\ UNCHANGED <<kind, counters, session, enabled, opps, answer, history>>

\* Only a chain of actions that is run to its end is counted.
FireEnd(c) ==
  /\ kind[c] = "recipe" /\ pc[c] = "acting" /\ pc' = [pc EXCEPT ![c] = "done"]
  /\ Use(c) \/ UNCHANGED <<used, history>>
  /\ UNCHANGED <<kind, actions, day, resetDay, session, recipe, opps, answer>>

CooldownEnds ==
  /\ cooling /\ cooling' = FALSE /\ fired' = 0 /\ early' = {}
  /\ UNCHANGED <<kind, counters, session, enabled, pc, opps, answer, history>>

Toggle ==
  /\ enabled' = ~enabled
  /\ UNCHANGED <<kind, counters, session, cooling, fired, early, pc, opps, answer, history>>

-----------------------------------------------------------------------------
(* The user, and time.                                                     *)

\* record_feedback acknowledges, stores the answer, and then counts a dismissal.
FeedbackBegin(a) ==
  /\ answer[a] = "none" /\ pending' = FALSE
  /\ \E accepted \in {"yes", "no"} : answer' = [answer EXCEPT ![a] = accepted]
  /\ UNCHANGED <<kind, counters, silenced, dismissals, quiet, recipe, pc, opps, history>>

FeedbackEnd(a) ==
  /\ answer[a] \in {"yes", "no"} /\ answer' = [answer EXCEPT ![a] = "done"]
  /\ dismissals' = IF answer[a] = "no" THEN dismissals + 1 ELSE 0
  /\ silenced' = (silenced \/ dismissals' >= Dismissals)
  /\ UNCHANGED <<kind, counters, pending, quiet, recipe, pc, opps, history>>

\* A connection is greeted.
ResetSession ==
  /\ silenced' = FALSE /\ dismissals' = 0 /\ pending' = FALSE
  /\ quiet' \in BOOLEAN
  /\ UNCHANGED <<kind, counters, recipe, pc, opps, answer, history>>

Message ==
  /\ quiet' = FALSE /\ pending' = FALSE
  /\ UNCHANGED <<kind, counters, silenced, dismissals, recipe, pc, opps, answer, history>>

TimePasses ==
  /\ ~quiet /\ quiet' = TRUE
  /\ UNCHANGED <<kind, counters, silenced, dismissals, pending, recipe, pc, opps, answer, history>>

Midnight ==
  /\ day < MaxDays /\ day' = day + 1
  /\ UNCHANGED <<kind, used, actions, resetDay, session, recipe, pc, opps, answer, history>>

Next ==
  \/ \E c \in Callers : \/ \E k \in Kinds : Begin(c, k)
                        \/ Relate(c) \/ Refused(c) \/ Suggest(c) \/ NudgeLook(c) \/ NudgeEnd(c)
                        \/ AutoAllowed(c) \/ Propose(c) \/ Act(c)
                        \/ RecipeAllowed(c) \/ ConditionsFail(c) \/ Fire(c) \/ FireEnd(c)
  \/ \E a \in Answers : FeedbackBegin(a) \/ FeedbackEnd(a)
  \/ CooldownEnds \/ Toggle \/ ResetSession \/ Message \/ TimePasses \/ Midnight

Spec == Init /\ [][Next]_proVars

-----------------------------------------------------------------------------
(* The day's suggestions exceed their budget only if a nudge or a recipe   *)
(* used it after another had, since its own check; autonomous actions      *)
(* never exceed theirs (kernel/proactivity.py:164-204, 261-300, 454-479,   *)
(* kernel/recipes.py:270-289).                                             *)
BudgetHeld == (used > Budget => overtaken) /\ actions <= ActionBudget

(* A recipe fires again within its cooldown only from an evaluation that   *)
(* had begun before its first action (kernel/recipes.py:252-286).          *)
CooldownHeld == fired <= 1 + Cardinality(early)

=============================================================================
