-------------------------- MODULE MCTaskLifecycle --------------------------
(***************************************************************************)
(* Instances of TaskLifecycle for TLC: one run of each kind.               *)
(***************************************************************************)
EXTENDS TaskLifecycle, TLC

CONSTANTS r1, r2, r3, r4

MCKind == [r \in Runs |-> CASE r = r1 -> "inprocess" [] r = r2 -> "pooled"
                            [] r = r3 -> "mcp" [] OTHER -> "cold"]
=============================================================================
