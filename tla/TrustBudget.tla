----------------------------- MODULE TrustBudget -----------------------------
(***************************************************************************)
(* The trust budget of one permission: the rows of trust_budget that name  *)
(* it (permissions/trust_budget.py), the check made before a skill runs    *)
(* and the consumption recorded after each of its operations               *)
(* (permissions/manager.py, skills/sandbox.py).                            *)
(*                                                                         *)
(* An operation costs one action, or some tokens; the two are counted      *)
(* alike, and Costs are those of one of them.                              *)
(***************************************************************************)
EXTENDS Naturals, Sequences

CONSTANTS Runs,         \* runs of skills with the permission
          Setters,      \* requests that set the budget
          Limits, NoLimit,
          Costs,        \* what an operation may cost
          MaxSpent,     \* bound: what is spent in all
          MaxDays, MaxRestarts

Periods == {"daily", "session"}

VARIABLES
  budget,    \* the rows of the permission, oldest first
  account,   \* history: what was spent since each row was reset, and whether its limit was changed
  run,       \* run[r]: where a run is
  setter,    \* setter[s]: what it found, and the limit and period it sets
  day, restarts, spent

budgetVars == <<budget, account, run, setter, day, restarts, spent>>

Rows == [max : Limits \cup {NoLimit}, used : Nat, period : Periods, start : 0 .. MaxDays]

BudgetTypeOK ==
  /\ \A i \in DOMAIN budget : budget[i] \in Rows
  /\ DOMAIN account = DOMAIN budget
  /\ run \in [Runs -> {"idle", "checked", "working", "refused", "over"}]
  /\ \A s \in Setters : setter[s].pc \in {"idle", "updating", "inserting", "over"}

NoSetter == [pc |-> "idle", max |-> NoLimit, period |-> "session"]

Init ==
  /\ budget = <<>> /\ account = <<>>
  /\ run = [r \in Runs |-> "idle"] /\ setter = [s \in Setters |-> NoSetter]
  /\ day = 0 /\ restarts = 0 /\ spent = 0

-----------------------------------------------------------------------------
(* Setting.                                                                *)

\* set_budget looks for a row, ...
SetBegin(s, max, period) ==
  /\ setter[s].pc = "idle"
  /\ setter' = [setter EXCEPT ![s] =
       [pc |-> IF budget = <<>> THEN "inserting" ELSE "updating", max |-> max, period |-> period]]
  /\ UNCHANGED <<budget, account, run, day, restarts, spent>>

\* ... and inserts one, or sets the limit of all there are: what they have used stays.
SetEnd(s) ==
  /\ LET to == setter[s] IN
       \/ /\ to.pc = "inserting"
          /\ budget' = Append(budget, [max |-> to.max, used |-> 0, period |-> to.period, start |-> day])
          /\ account' = Append(account, [spent |-> 0, changed |-> FALSE])
       \/ /\ to.pc = "updating"
          /\ budget' = [i \in DOMAIN budget |->
               [budget[i] EXCEPT !.max = to.max, !.period = to.period, !.start = day]]
          /\ account' = [i \in DOMAIN account |-> [account[i] EXCEPT !.changed = TRUE]]
  /\ setter' = [setter EXCEPT ![s] = [NoSetter EXCEPT !.pc = "over"]]
  /\ UNCHANGED <<run, day, restarts, spent>>

-----------------------------------------------------------------------------
(* Checking and using.                                                     *)

\* The oldest row decides.
Remains == budget = <<>> \/ budget[1].max = NoLimit \/ budget[1].used < budget[1].max

Check(r) ==
  /\ run[r] = "idle"
  /\ run' = [run EXCEPT ![r] = IF Remains THEN "checked" ELSE "refused"]
  /\ UNCHANGED <<budget, account, setter, day, restarts, spent>>

CountsAlways(row, cost) == [row EXCEPT !.used = @ + cost]
\* consume: a row that would go over its limit does not count the operation.
Counts(row, cost) ==
  IF row.max = NoLimit \/ row.used + cost <= row.max THEN [row EXCEPT !.used = @ + cost] ELSE row

\* An operation begins, with the budget or without: it is not looked at again.
Work(r) ==
  /\ run[r] = "checked" /\ run' = [run EXCEPT ![r] = "working"]
  /\ UNCHANGED <<budget, account, setter, day, restarts, spent>>

\* It fails, or its address is refused, and costs nothing.
WorkFails(r) ==
  /\ run[r] = "working" /\ run' = [run EXCEPT ![r] = "checked"]
  /\ UNCHANGED <<budget, account, setter, day, restarts, spent>>

\* It is done, and recorded; whether it was over the limit is not looked at.
Consume(r, cost) ==
  /\ run[r] = "working" /\ spent + cost <= MaxSpent
  /\ run' = [run EXCEPT ![r] = "checked"]
  /\ spent' = spent + cost
  /\ budget' = [i \in DOMAIN budget |-> Counts(budget[i], cost)]
  /\ account' = [i \in DOMAIN account |-> [account[i] EXCEPT !.spent = @ + cost]]
  /\ UNCHANGED <<setter, day, restarts>>

\* The run ends, or is killed.
End(r) ==
  /\ run[r] \in {"checked", "working"} /\ run' = [run EXCEPT ![r] = "over"]
  /\ UNCHANGED <<budget, account, setter, day, restarts, spent>>

-----------------------------------------------------------------------------
(* Periods.                                                                *)

Midnight ==
  /\ day < MaxDays /\ day' = day + 1
  /\ UNCHANGED <<budget, account, run, setter, restarts, spent>>

Expired(row) == row.period = "daily" /\ row.start < day

\* reset_expired_periods, which only a start calls.
Restart ==
  /\ restarts < MaxRestarts /\ restarts' = restarts + 1
  /\ budget' = [i \in DOMAIN budget |->
       IF Expired(budget[i]) THEN [budget[i] EXCEPT !.used = 0, !.start = day] ELSE budget[i]]
  /\ account' = [i \in DOMAIN account |->
       IF Expired(budget[i]) THEN [spent |-> 0, changed |-> FALSE] ELSE account[i]]
  /\ run' = [r \in Runs |-> IF run[r] = "idle" THEN "idle" ELSE "over"]
  /\ setter' = [s \in Setters |-> IF setter[s].pc = "idle" THEN setter[s] ELSE [NoSetter EXCEPT !.pc = "over"]]
  /\ UNCHANGED <<day, spent>>

Next ==
  \/ \E s \in Setters :
       SetEnd(s) \/ \E max \in Limits \cup {NoLimit}, period \in Periods : SetBegin(s, max, period)
  \/ \E r \in Runs : Check(r) \/ Work(r) \/ WorkFails(r) \/ End(r) \/ \E cost \in Costs : Consume(r, cost)
  \/ Midnight \/ Restart

Spec == Init /\ [][Next]_budgetVars

-----------------------------------------------------------------------------
(* A budget has counted what was spent since it was set or reset, up to    *)
(* its limit, unless the limit was changed since: so once it is spent, no  *)
(* further run is let in, although a run let in before may go on spending  *)
(* (permissions/trust_budget.py:67-149).  It is true of actions, where     *)
(* every cost is 1.                                                        *)
BudgetCounted ==
  \A i \in DOMAIN budget :
    LET row == budget[i]   spentNow == account[i].spent IN
      ~account[i].changed =>
        row.used = (IF row.max = NoLimit \/ spentNow < row.max THEN spentNow ELSE row.max)
=============================================================================
