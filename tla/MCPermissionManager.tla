------------------------- MODULE MCPermissionManager -------------------------
(***************************************************************************)
(* Instances of PermissionManager for TLC.                                 *)
(***************************************************************************)
EXTENDS PermissionManager, TLC

\* Callers, connections, sessions, request ids and row ids are interchangeable:
\* no definition tells two of them apart.
MCSymmetry == Permutations(Callers) \cup Permutations(Sessions) \cup Permutations(Reqs)
                \cup Permutations(Conns) \cup Permutations(GrantIds)
=============================================================================
