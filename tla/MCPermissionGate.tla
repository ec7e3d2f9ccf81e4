-------------------------- MODULE MCPermissionGate --------------------------
(***************************************************************************)
(* Instances of PermissionGate for TLC: messages m1 and m2, permissions p  *)
(* and q.                                                                  *)
(***************************************************************************)
EXTENDS PermissionGate, TLC

CONSTANTS m1, m2, p, q

\* m1 needs both permissions, m2 one of them.
MCNeeds == [m \in Callers |-> IF m = m1 THEN Perms ELSE Perms \ {q}]

\* Row ids and request ids are interchangeable.
MCSymmetry == Permutations(Reqs) \cup Permutations(GrantIds)
=============================================================================
