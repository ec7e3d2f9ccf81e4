----------------------------- MODULE GrantTable -----------------------------
(***************************************************************************)
(* The permission_grants table (permissions/repository.py) and its         *)
(* statements, as operators on the value of the table.  A row is never     *)
(* deleted: it is inserted active and, once revoked, stays revoked.        *)
(* A "permission" here is a (skill_id, permission) pair: every statement   *)
(* that filters on one filters on the other.                               *)
(***************************************************************************)
EXTENDS Naturals, FiniteSets

CONSTANTS Perms,      \* the (skill_id, permission) pairs
          Sessions,   \* chat session ids
          NoSession,  \* None
          GrantIds,   \* row ids
          NoGrant     \* "no row": an id not yet inserted, a lookup that fails

ASSUME GrantTableAssumption == /\ NoSession \notin Sessions
                               /\ NoGrant \notin GrantIds \cup Perms

Modes == {"always", "session", "once"}

\* NoRow is the content of an id that has not been inserted.
NoRow == [perm |-> NoGrant, mode |-> "none", by |-> "none", session |-> NoSession,
          active |-> FALSE]

\* The columns the statements look at, and granted_by.
Row == [perm : Perms \cup {NoGrant}, mode : Modes \cup {"none"},
        by : {"user", "auto", "none"}, session : Sessions \cup {NoSession},
        active : BOOLEAN]

Table == [GrantIds -> Row]

Inserted(t) == {g \in GrantIds : t[g] # NoRow}

\* find_active_grant: always before session before once; a session grant only
\* for the session asking.  Rows of equal rank come in no fixed order.
Matches(t, p, s) ==
  {g \in Inserted(t) : /\ t[g].perm = p
                       /\ t[g].active
                       /\ t[g].mode = "session" => s # NoSession /\ t[g].session = s}

Rank(mode) == CASE mode = "always" -> 0 [] mode = "session" -> 1 [] OTHER -> 2

FindActiveGrant(t, p, s) ==
  LET ms == Matches(t, p, s)
  IN  IF ms = {} THEN {NoGrant}
      ELSE {g \in ms : \A h \in ms : Rank(t[g].mode) <= Rank(t[h].mode)}

\* grant: the INSERT, under a row id never used before.
NewRow(p, mode, by, s) ==
  [perm |-> p, mode |-> mode, by |-> by, session |-> s, active |-> TRUE]

Grant(t, g, p, mode, by, s) == [t EXCEPT ![g] = NewRow(p, mode, by, s)]

\* The UPDATE ... SET revoked_at statements, all WHERE revoked_at IS NULL.  Revoke
\* takes the permissions at once: one of them (revoke), all of a skill's
\* (revoke_all_for_skill).
RevokeWhere(t, S) == [g \in GrantIds |-> IF g \in S THEN [t[g] EXCEPT !.active = FALSE]
                                                    ELSE t[g]]

RevokeById(t, g) == RevokeWhere(t, {g})

Revoke(t, P) == RevokeWhere(t, {g \in Inserted(t) : t[g].perm \in P})

RevokeByModeAndSession(t, mode, s) ==
  RevokeWhere(t, {g \in Inserted(t) : t[g].mode = mode /\ t[g].session = s})

\* "some row of p carries a revoked_at", the test of the start-up auto-grant.
EverRevoked(t, p) == \E g \in Inserted(t) : t[g].perm = p /\ ~t[g].active
=============================================================================
