---------------------------- MODULE TaskOutcome ----------------------------
(***************************************************************************)
(* What the task machinery promises about a task, whatever its executor,   *)
(* its time-outs, the user's kills and restarts do meanwhile: a task that  *)
(* has been closed keeps its verdict for ever, and a result is delivered   *)
(* to the user only of a task closed as completed.                         *)
(***************************************************************************)
CONSTANTS Tasks,
          Verdicts, Completed,  \* what a task can be closed with; one of them
          Reports, Delivered    \* what the user can be told; one of them, the result

VARIABLES verdict, told

outcomeVars == <<verdict, told>>

OutcomeInit == /\ verdict = [t \in Tasks |-> "none"]
               /\ told = [t \in Tasks |-> "none"]

\* Any tasks are opened, closed with a verdict, or told of: a restart closes many.
OutcomeNext ==
  /\ verdict' \in [Tasks -> Verdicts \cup {"none", "open"}]
  /\ told' \in [Tasks -> Reports \cup {"none"}]
  /\ \A t \in Tasks :
       /\ \/ verdict'[t] = verdict[t]
          \/ verdict[t] = "none" /\ verdict'[t] = "open"
          \/ verdict[t] = "open" /\ verdict'[t] \in Verdicts
       /\ told'[t] # told[t] => /\ told[t] = "none"
                                /\ told'[t] = Delivered => verdict[t] = Completed

OutcomeSpec == OutcomeInit /\ [][OutcomeNext]_outcomeVars
=============================================================================
