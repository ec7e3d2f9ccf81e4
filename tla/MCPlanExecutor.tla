--------------------------- MODULE MCPlanExecutor ---------------------------
(***************************************************************************)
(* Instances of PlanExecutor for TLC, with plans of three steps.           *)
(***************************************************************************)
EXTENDS PlanExecutor

MCSteps == 0..2

Shape(d0, d1, d2, work, verify) ==
  [n |-> 3, deps |-> [i \in MCSteps |-> CASE i = 0 -> d0 [] i = 1 -> d1 [] i = 2 -> d2],
   work |-> work, verify |-> verify]

Chain == Shape({}, {0}, {1}, {}, {})
Join == Shape({}, {}, {0, 1}, {}, {})
Iteration == Shape({}, {0}, {1}, {0}, {1})
\* The work step shares its wave with another step; the verify step comes last.
SharedWave == Shape({}, {}, {0}, {0}, {2})
\* Step 2 waits for itself.
Knotted == Shape({}, {}, {2}, {}, {})

MCShapes == {Iteration, SharedWave, Knotted}
ResumeShapes == {Iteration, Knotted}
ChainOnly == {Chain}
JoinOnly == {Join}
=============================================================================
