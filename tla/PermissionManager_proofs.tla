----------------------- MODULE PermissionManager_proofs -----------------------
(***************************************************************************)
(* Type correctness of the permission manager, action by action, in the    *)
(* form the modules that compose it use.                                   *)
(***************************************************************************)
EXTENDS PermissionManager, FiniteSetTheorems, TLAPS

\* The table's statements keep it a table: UPDATEs, the INSERT of a grant, and
\* what the start-up does to it.
LEMMA RevokeType ==
  ASSUME NEW t \in Table, NEW S
  PROVE  RevokeWhere(t, S) \in Table
<1> SUFFICES ASSUME NEW g \in GrantIds
             PROVE  RevokeWhere(t, S)[g] \in Row
  BY DEF RevokeWhere, Table
<1>1. t[g] \in Row
  BY DEF Table
<1>2. [t[g] EXCEPT !.active = FALSE] \in Row
  BY <1>1 DEF Row
<1> QED
  BY <1>1, <1>2 DEF RevokeWhere

LEMMA NewRowType ==
  ASSUME NEW p \in Perms \cup {NoGrant}, NEW mode \in Modes, NEW by \in {"user", "auto"},
         NEW s \in Sessions \cup {NoSession}
  PROVE  NewRow(p, mode, by, s) \in Row
  BY DEF NewRow, Row

LEMMA AutoGrantedType ==
  ASSUME NEW t \in Table, NEW pick, ManagerAssumption
  PROVE  AutoGranted(t, pick) \in Table
<1> SUFFICES ASSUME NEW g \in GrantIds
             PROVE  AutoGranted(t, pick)[g] \in Row
  BY DEF AutoGranted, Table
<1>1. t[g] \in Row
  BY DEF Table
<1>2. CASE Picked(pick, g) = {}
  BY <1>1, <1>2 DEF AutoGranted
<1>3. CASE Picked(pick, g) # {} /\ t[g] = NoRow
  <2> DEFINE p == CHOOSE p \in Picked(pick, g) : TRUE
  <2>1. p \in Perms
    BY <1>3, ManagerAssumption DEF Picked, ManagerAssumption
  <2>2. NewRow(p, "always", "auto", NoSession) \in Row
    BY <2>1, NewRowType DEF Modes
  <2> QED
    BY <1>3, <2>2 DEF AutoGranted
<1>4. CASE Picked(pick, g) # {} /\ t[g] # NoRow
  <2>1. [t[g] EXCEPT !.active = t[g].mode # "once"] \in Row
    BY <1>1 DEF Row
  <2> QED
    BY <1>4, <2>1 DEF AutoGranted
<1> QED
  BY <1>2, <1>3, <1>4

LEMMA FoundType ==
  ASSUME NEW t, NEW p, NEW s, NEW g \in FindActiveGrant(t, p, s)
  PROVE  g \in GrantIds \cup {NoGrant}
  BY DEF FindActiveGrant, Matches, Inserted

LEMMA NormaliseType ==
  ASSUME NEW mode PROVE NormaliseMode(mode) \in Modes
  BY DEF NormaliseMode, Modes

LEMMA ManagerInitType ==
  ASSUME ManagerInit, ManagerAssumption PROVE ManagerTypeOK
<1>1. NoRows \in Table
  BY DEF NoRows, NoRow, Row, Table
<1>2. grants \in Table
  BY <1>1, AutoGrantedType DEF ManagerInit
<1>3. UnusedReq \in [st : ReqStates, perm : Perms \cup {NoGrant},
                     owner : Callers \cup {NoGrant}]
  BY DEF UnusedReq, ReqStates
<1>4. IdleCall \in [st : CallStates, grant : GrantIds \cup {NoGrant}]
  BY DEF IdleCall, CallStates
<1> QED
  BY <1>2, <1>3, <1>4 DEF ManagerInit, ManagerTypeOK, ManagerAssumption

-----------------------------------------------------------------------------
CallRecord == [st : CallStates, grant : GrantIds \cup {NoGrant}]

\* Any change of one call leaves all calls well typed.
LEMMA CallsType ==
  ASSUME ManagerTypeOK, NEW k \in Callers, NEW p \in Perms, NEW c \in CallRecord
  PROVE  [calls EXCEPT ![k][p] = c] \in [Callers -> [Perms -> CallRecord]]
  BY DEF ManagerTypeOK, CallRecord

LEMMA CallsStType ==
  ASSUME ManagerTypeOK, NEW k \in Callers, NEW p \in Perms, NEW st \in CallStates
  PROVE  [calls EXCEPT ![k][p].st = st] \in [Callers -> [Perms -> CallRecord]]
<1>1. calls[k][p] \in CallRecord
  BY DEF ManagerTypeOK, CallRecord
<1>2. [calls[k][p] EXCEPT !.st = st] \in CallRecord
  BY <1>1 DEF CallRecord
<1>3. [calls EXCEPT ![k][p].st = st] = [calls EXCEPT ![k][p] = [calls[k][p] EXCEPT !.st = st]]
  BY DEF ManagerTypeOK
<1> QED
  BY <1>2, <1>3, CallsType

LEMMA CheckType ==
  ASSUME ManagerTypeOK, NEW k \in Callers, NEW p \in Perms,
         CheckBegin(k, p) \/ CheckFind(k, p) \/ CheckDecide(k, p) \/ CheckReturn(k, p)
  PROVE  ManagerTypeOK'
<1>1. CASE CheckBegin(k, p)
  <2>1. calls' \in [Callers -> [Perms -> CallRecord]]
    BY <1>1, CallsStType DEF CheckBegin, CallStates
  <2> QED
    BY <1>1, <2>1 DEF CheckBegin, ManagerTypeOK, CallRecord
<1>2. CASE CheckFind(k, p)
  <2>1. PICK g \in FindActiveGrant(grants, p, session) :
          calls' = [calls EXCEPT ![k][p] = [st |-> IF g = NoGrant THEN "denied" ELSE "found",
                                            grant |-> g]]
    BY <1>2 DEF CheckFind
  <2>2. g \in GrantIds \cup {NoGrant}
    BY FoundType
  <2>3. [st |-> IF g = NoGrant THEN "denied" ELSE "found", grant |-> g] \in CallRecord
    BY <2>2 DEF CallRecord, CallStates
  <2>4. calls' \in [Callers -> [Perms -> CallRecord]]
    BY <2>1, <2>3, CallsType
  <2> QED
    BY <1>2, <2>4 DEF CheckFind, ManagerTypeOK, CallRecord
<1>3. CASE CheckDecide(k, p)
  <2> DEFINE g == calls[k][p].grant
  <2>1. PICK withinBudget \in BOOLEAN :
          /\ calls' = [calls EXCEPT ![k][p].st = IF withinBudget THEN "allowed" ELSE "denied"]
          /\ grants' = IF withinBudget /\ grants[g].mode = "once"
                       THEN RevokeById(grants, g) ELSE grants
          /\ uses' = IF withinBudget /\ grants[g].mode = "once"
                     THEN [uses EXCEPT ![g] = @ + 1] ELSE uses
    BY <1>3 DEF CheckDecide
  <2>2. (IF withinBudget THEN "allowed" ELSE "denied") \in CallStates
    BY DEF CallStates
  <2>3. calls' \in [Callers -> [Perms -> CallRecord]]
    BY <2>1, <2>2, CallsStType
  <2>4. grants' \in Table
    BY <2>1, RevokeType DEF RevokeById, ManagerTypeOK
  <2>5. ASSUME NEW h PROVE [uses EXCEPT ![h] = @ + 1] \in [GrantIds -> Nat]
    <3>1. CASE h \in GrantIds
      <4>1. uses[h] + 1 \in Nat
        BY <3>1 DEF ManagerTypeOK
      <4> QED
        BY <4>1 DEF ManagerTypeOK
    <3>2. CASE h \notin GrantIds
      BY <3>2 DEF ManagerTypeOK
    <3> QED
      BY <3>1, <3>2
  <2>6. uses' \in [GrantIds -> Nat]
    BY <2>1, <2>5 DEF ManagerTypeOK
  <2> QED
    BY <1>3, <2>3, <2>4, <2>6 DEF CheckDecide, ManagerTypeOK, CallRecord
<1>4. CASE CheckReturn(k, p)
  <2>1. IdleCall \in CallRecord
    BY DEF IdleCall, CallRecord, CallStates
  <2>2. calls' \in [Callers -> [Perms -> CallRecord]]
    BY <1>4, <2>1, CallsType DEF CheckReturn
  <2> QED
    BY <1>4, <2>2 DEF CheckReturn, ManagerTypeOK, CallRecord
<1> QED
  BY <1>1, <1>2, <1>3, <1>4

LEMMA RequestType ==
  ASSUME ManagerTypeOK, NEW r \in Reqs, NEW p \in Perms, NEW k \in Callers,
         RequestPermission(r, p, k)
  PROVE  ManagerTypeOK'
  BY DEF RequestPermission, ManagerTypeOK, ReqStates

LEMMA ApproveType ==
  ASSUME ManagerTypeOK, NEW r \in Reqs, NEW mode, ApproveRequest(r, mode)
  PROVE  ManagerTypeOK'
<1> DEFINE m == NormaliseMode(mode)
           s == IF m = "session" THEN session ELSE NoSession
<1>1. PICK g \in GrantIds \ Inserted(grants) :
        grants' = Grant(grants, g, reqs[r].perm, m, "user", s)
  BY DEF ApproveRequest
<1>2. NewRow(reqs[r].perm, m, "user", s) \in Row
  BY NormaliseType, NewRowType DEF ManagerTypeOK
<1>3. grants' \in Table
  BY <1>1, <1>2 DEF Grant, ManagerTypeOK, Table
<1>4. reqs' \in [Reqs -> [st : ReqStates, perm : Perms \cup {NoGrant},
                          owner : Callers \cup {NoGrant}]]
  BY DEF ApproveRequest, ManagerTypeOK, ReqStates
<1> QED
  BY <1>3, <1>4 DEF ApproveRequest, ManagerTypeOK

LEMMA DenyType ==
  ASSUME ManagerTypeOK, NEW r \in Reqs, DenyRequest(r)
  PROVE  ManagerTypeOK'
  BY DEF DenyRequest, ManagerTypeOK, ReqStates

LEMMA RevokePermissionsType ==
  ASSUME ManagerTypeOK, NEW P, RevokePermissions(P)
  PROVE  ManagerTypeOK'
<1>1. grants' \in Table
  BY RevokeType DEF RevokePermissions, Revoke, ManagerTypeOK
<1> QED
  BY <1>1 DEF RevokePermissions, ManagerTypeOK

LEMMA SessionType ==
  ASSUME ManagerTypeOK, NEW c \in Conns,
         SwitchEnd(c) \/ SwitchFail(c) \/ \E s \in Sessions : SwitchBegin(c, s)
  PROVE  ManagerTypeOK'
<1>1. CASE \E s \in Sessions : SwitchBegin(c, s)
  <2>1. grants' \in Table
    BY <1>1, RevokeType DEF SwitchBegin, RevokeByModeAndSession, ManagerTypeOK
  <2> QED
    BY <1>1, <2>1 DEF SwitchBegin, ManagerTypeOK
<1>2. CASE SwitchEnd(c)
  BY <1>2 DEF SwitchEnd, ManagerTypeOK
<1>3. CASE SwitchFail(c)
  BY <1>3 DEF SwitchFail, ManagerTypeOK
<1> QED
  BY <1>1, <1>2, <1>3

LEMMA DeleteSessionType ==
  ASSUME ManagerTypeOK, DeleteSession PROVE ManagerTypeOK'
  BY DEF DeleteSession, ManagerTypeOK

LEMMA RestartType ==
  ASSUME ManagerTypeOK, ManagerAssumption, Restart
  PROVE  ManagerTypeOK'
<1>1. grants' \in Table
  BY AutoGrantedType DEF Restart, ManagerTypeOK
<1>2. uses' \in [GrantIds -> Nat] /\ regranted' \in SUBSET GrantIds
  BY DEF Restart, ManagerTypeOK
<1>3. reqs' \in [Reqs -> [st : ReqStates, perm : Perms \cup {NoGrant},
                          owner : Callers \cup {NoGrant}]]
  <2> SUFFICES ASSUME NEW r \in Reqs
               PROVE  reqs'[r] \in [st : ReqStates, perm : Perms \cup {NoGrant},
                                    owner : Callers \cup {NoGrant}]
    BY DEF Restart
  <2>1. reqs[r] \in [st : ReqStates, perm : Perms \cup {NoGrant},
                     owner : Callers \cup {NoGrant}]
    BY DEF ManagerTypeOK
  <2>2. [reqs[r] EXCEPT !.st = "lost"] \in [st : ReqStates, perm : Perms \cup {NoGrant},
                                            owner : Callers \cup {NoGrant}]
    BY <2>1 DEF ReqStates
  <2> QED
    BY <2>1, <2>2 DEF Restart
<1>4. calls' \in [Callers -> [Perms -> CallRecord]]
  BY DEF Restart, IdleCall, CallRecord, CallStates
<1>5. restarts' \in 0..MaxRestarts
  BY DEF Restart, ManagerTypeOK, ManagerAssumption
<1> QED
  BY <1>1, <1>2, <1>3, <1>4, <1>5 DEF Restart, ManagerTypeOK, CallRecord

-----------------------------------------------------------------------------
\* Whatever callers, users, connections and restarts do, the manager's state stays
\* of its type: the table holds only the three modes, the calls only row ids.
THEOREM ManagerTypeCorrect == ManagerSpec => []ManagerTypeOK
<1>1. ManagerInit => ManagerTypeOK
  BY ManagerInitType, ManagerAssumption
<1>2. ManagerTypeOK /\ [ManagerNext]_managerVars => ManagerTypeOK'
  <2> SUFFICES ASSUME ManagerTypeOK, [ManagerNext]_managerVars
               PROVE  ManagerTypeOK'
    OBVIOUS
  <2>1. CASE \E k \in Callers, p \in Perms :
               CheckBegin(k, p) \/ CheckFind(k, p) \/ CheckDecide(k, p) \/ CheckReturn(k, p)
    BY <2>1, CheckType
  <2>2. CASE \E r \in Reqs, p \in Perms, k \in Callers : RequestPermission(r, p, k)
    BY <2>2, RequestType
  <2>3. CASE \E r \in Reqs : DenyRequest(r) \/ \E mode \in ClientModes : ApproveRequest(r, mode)
    BY <2>3, DenyType, ApproveType
  <2>4. CASE \E P \in SUBSET Perms : RevokePermissions(P)
    BY <2>4, RevokePermissionsType
  <2>5. CASE \E c \in Conns : \/ SwitchEnd(c) \/ SwitchFail(c)
                             \/ \E s \in Sessions : SwitchBegin(c, s)
    BY <2>5, SessionType
  <2>6. CASE DeleteSession
    BY <2>6, DeleteSessionType
  <2>7. CASE Restart
    BY <2>7, RestartType, ManagerAssumption
  <2>8. CASE UNCHANGED managerVars
    BY <2>8 DEF managerVars, ManagerTypeOK
  <2> QED
    BY <2>1, <2>2, <2>3, <2>4, <2>5, <2>6, <2>7, <2>8 DEF ManagerNext
<1> QED
  BY <1>1, <1>2, PTL DEF ManagerSpec

-----------------------------------------------------------------------------
(* The start-up's own rows.  The strengthening of AutoGrantsAccounted:     *)
(* automatic rows are "always" rows, so an automatic row of p either still *)
(* allows p, or is a revoked row of p, and then the start-up leaves p      *)
(* alone.  It grants p beside an active automatic row only where the       *)
(* budget of p was used up, and that row is one of `regranted`.            *)

AutoRowsOnce(t, again) ==
  /\ \A g \in GrantIds : t[g].by = "auto" => t[g].mode = "always"
  /\ \A g, h \in GrantIds :
       t[g].by = "auto" /\ t[h].by = "auto" /\ t[g].perm = t[h].perm =>
         /\ g = h \/ g \in again \/ h \in again
         /\ t[g].active <=> t[h].active

\* A row id drawn for a new automatic grant of p: what automatic rows p has are active,
\* and it has none but where the budget was used up.
LEMMA NewAutoRow ==
  ASSUME NEW t \in Table, NEW p \in FirstParty, NEW g \in GrantIds, NEW overspent, t[g] = NoRow,
         g \in AutoGrantChoice(t, p, overspent), NEW again, AutoRowsOnce(t, again), GrantTableAssumption
  PROVE  \A h \in GrantIds : t[h].by = "auto" /\ t[h].perm = p => t[h].active /\ p \in overspent
<1> DEFINE found == FindActiveGrant(t, p, NoSession)
<1>1. g \notin Matches(t, p, NoSession) /\ g # NoGrant
  BY GrantTableAssumption DEF Matches, Inserted, GrantTableAssumption
<1>2. found = {NoGrant} \/ p \in overspent
  BY <1>1 DEF AutoGrantChoice, FindActiveGrant
<1>3. ~EverRevoked(t, p)
  BY <1>1 DEF AutoGrantChoice, FindActiveGrant
<1>4. SUFFICES ASSUME NEW h \in GrantIds, t[h].by = "auto", t[h].perm = p
               PROVE  t[h].active /\ p \in overspent
  OBVIOUS
<1>5. h \in Inserted(t)
  BY <1>4 DEF Inserted, NoRow
<1>6. t[h].active
  BY <1>3, <1>4, <1>5 DEF EverRevoked
<1>7. t[h].mode = "always"
  BY <1>4 DEF AutoRowsOnce
<1>8. h \in Matches(t, p, NoSession)
  BY <1>4, <1>5, <1>6, <1>7 DEF Matches
<1>9. found # {NoGrant}
  BY <1>8, GrantTableAssumption DEF FindActiveGrant, Matches, Inserted, GrantTableAssumption
<1> QED
  BY <1>2, <1>6, <1>9

LEMMA AutoGrantedKeepsOnce ==
  ASSUME NEW t \in Table, NEW optedIn, NEW overspent, NEW pick \in AutoGrantPicks(t, optedIn, overspent),
         NEW again, AutoRowsOnce(t, again), GrantTableAssumption
  PROVE  AutoRowsOnce(AutoGranted(t, pick), again \cup {g \in GrantIds : Picked(pick, g) \cap overspent # {}})
<1> DEFINE u == AutoGranted(t, pick)
           now == again \cup {g \in GrantIds : Picked(pick, g) \cap overspent # {}}
           New(g) == Picked(pick, g) # {} /\ t[g] = NoRow
<1>1. ASSUME NEW g \in GrantIds, ~New(g)
      PROVE  /\ u[g].by = t[g].by /\ u[g].mode = t[g].mode /\ u[g].perm = t[g].perm
             /\ u[g].mode # "once" => (u[g].active <=> t[g].active)
  <2>1. t[g] \in Row
    BY DEF Table
  <2>2. CASE Picked(pick, g) = {}
    BY <2>2 DEF AutoGranted
  <2>3. CASE Picked(pick, g) # {}
    <3>1. u[g] = [t[g] EXCEPT !.active = t[g].mode # "once"]
      BY <1>1, <2>3 DEF AutoGranted
    <3>2. u[g].by = t[g].by /\ u[g].mode = t[g].mode /\ u[g].perm = t[g].perm
      BY <2>1, <3>1 DEF Row
    <3>3. u[g].active <=> t[g].mode # "once"
      BY <2>1, <3>1 DEF Row
    <3>4. t[g].active
      <4>1. PICK p \in FirstParty : g \in AutoGrantChoice(t, p, overspent)
        <5>1. PICK p \in FirstParty : pick[p] = g
          BY <2>3 DEF Picked
        <5>2. g # NoGrant
          BY GrantTableAssumption DEF GrantTableAssumption
        <5> QED BY <5>1, <5>2 DEF AutoGrantPicks
      <4>2. g \in FindActiveGrant(t, p, NoSession) /\ g # NoGrant
        BY <1>1, <2>3, <4>1, GrantTableAssumption DEF AutoGrantChoice, Inserted, GrantTableAssumption
      <4> QED BY <4>2 DEF FindActiveGrant, Matches
    <3> HIDE DEF u
    <3> QED BY <3>2, <3>3, <3>4
  <2> QED
    BY <2>2, <2>3
<1>2. ASSUME NEW g \in GrantIds, New(g)
      PROVE  /\ u[g].mode = "always" /\ u[g].active
             /\ u[g].perm \in FirstParty
             /\ pick[u[g].perm] = g
             /\ \A h \in GrantIds : t[h].by = "auto" /\ t[h].perm = u[g].perm => t[h].active /\ g \in now
  <2> DEFINE p == CHOOSE p \in Picked(pick, g) : TRUE
  <2>1. p \in FirstParty /\ pick[p] = g
    BY <1>2 DEF Picked
  <2>2. u[g] = NewRow(p, "always", "auto", NoSession)
    BY <1>2 DEF AutoGranted
  <2>3. u[g].mode = "always" /\ u[g].active /\ u[g].perm = p
    BY <2>2 DEF NewRow
  <2>4. g \in AutoGrantChoice(t, p, overspent)
    <3>1. g # NoGrant
      BY GrantTableAssumption DEF GrantTableAssumption
    <3> QED BY <2>1, <3>1 DEF AutoGrantPicks
  <2> HIDE DEF p, u
  <2>5. \A h \in GrantIds : t[h].by = "auto" /\ t[h].perm = p => t[h].active /\ p \in overspent
    BY <1>2, <2>1, <2>4, NewAutoRow
  <2>6. p \in overspent => g \in now
    BY <2>1 DEF Picked
  <2> QED
    BY <2>1, <2>3, <2>5, <2>6
<1>3. \A g \in GrantIds : u[g].by = "auto" => u[g].mode = "always"
  BY <1>1, <1>2 DEF AutoRowsOnce
<1>4. ASSUME NEW g \in GrantIds, NEW h \in GrantIds,
             u[g].by = "auto", u[h].by = "auto", u[g].perm = u[h].perm
      PROVE  (g = h \/ g \in now \/ h \in now) /\ (u[g].active <=> u[h].active)
  <2> HIDE DEF u, New
  <2>0. u[g].mode # "once" /\ u[h].mode # "once" /\ again \subseteq now
    BY <1>3, <1>4
  <2> HIDE DEF now
  <2>1. CASE ~New(g) /\ ~New(h)
    <3>1. /\ t[g].by = "auto" /\ t[h].by = "auto" /\ t[g].perm = t[h].perm
          /\ (u[g].active <=> t[g].active) /\ (u[h].active <=> t[h].active)
      BY <1>1, <1>4, <2>0, <2>1
    <3> QED BY <2>0, <3>1 DEF AutoRowsOnce
  <2>2. CASE New(g) /\ New(h)
    BY <1>2, <1>4, <2>2
  <2>3. CASE New(g) /\ ~New(h)
    <3>1. t[h].by = "auto" /\ t[h].perm = u[g].perm /\ (u[h].active <=> t[h].active)
      BY <1>1, <1>4, <2>0, <2>3
    <3> QED BY <1>2, <2>3, <3>1
  <2>4. CASE ~New(g) /\ New(h)
    <3>1. t[g].by = "auto" /\ t[g].perm = u[h].perm /\ (u[g].active <=> t[g].active)
      BY <1>1, <1>4, <2>0, <2>4
    <3> QED BY <1>2, <2>4, <3>1
  <2> QED
    BY <2>1, <2>2, <2>3, <2>4
<1> QED
  BY <1>3, <1>4 DEF AutoRowsOnce

LEMMA RevokeKeepsRows ==
  ASSUME NEW t \in Table, NEW S, NEW g \in GrantIds
  PROVE  /\ RevokeWhere(t, S)[g].perm = t[g].perm
         /\ RevokeWhere(t, S)[g].mode = t[g].mode
         /\ RevokeWhere(t, S)[g].by = t[g].by
         /\ RevokeWhere(t, S)[g].active => t[g].active
<1>1. t[g] \in Row
  BY DEF Table
<1> QED
  BY <1>1 DEF RevokeWhere, Row

\* A statement that takes all "always" rows of a permission or none keeps the automatic
\* rows of it alike.
LEMMA RevokedKeepsOnce ==
  ASSUME NEW t \in Table, NEW S, NEW again, AutoRowsOnce(t, again),
         \A g, h \in GrantIds : t[g].mode = "always" /\ t[h].mode = "always" /\ t[g].perm = t[h].perm
                                  /\ t[g].by # "none" /\ t[h].by # "none" => (g \in S <=> h \in S)
  PROVE  AutoRowsOnce(RevokeWhere(t, S), again)
<1> DEFINE u == RevokeWhere(t, S)
<1>1. \A g \in GrantIds : u[g].perm = t[g].perm /\ u[g].mode = t[g].mode /\ u[g].by = t[g].by
  BY RevokeKeepsRows
<1>2. \A g \in GrantIds : u[g].active <=> t[g].active /\ g \notin S
  <2> TAKE g \in GrantIds
  <2>1. t[g] \in Row
    BY DEF Table
  <2>2. CASE g \in S
    <3>1. ~u[g].active
      BY <2>1, <2>2 DEF RevokeWhere, Row
    <3> QED BY <2>2, <3>1
  <2>3. CASE g \notin S
    BY <2>3 DEF RevokeWhere
  <2> QED BY <2>2, <2>3
<1> HIDE DEF u
<1>3. ASSUME NEW g \in GrantIds, NEW h \in GrantIds, u[g].by = "auto", u[h].by = "auto", u[g].perm = u[h].perm
      PROVE  (g = h \/ g \in again \/ h \in again) /\ (u[g].active <=> u[h].active)
  <2>1. t[g].by = "auto" /\ t[h].by = "auto" /\ t[g].perm = t[h].perm
    BY <1>1, <1>3
  <2>2. t[g].mode = "always" /\ t[h].mode = "always"
    BY <2>1 DEF AutoRowsOnce
  <2>3. g \in S <=> h \in S
    BY <2>1, <2>2
  <2>4. (g = h \/ g \in again \/ h \in again) /\ (t[g].active <=> t[h].active)
    BY <2>1 DEF AutoRowsOnce
  <2> QED BY <1>2, <2>3, <2>4
<1>4. \A g \in GrantIds : u[g].by = "auto" => u[g].mode = "always"
  BY <1>1 DEF AutoRowsOnce
<1> QED BY <1>3, <1>4 DEF AutoRowsOnce, u

\* A permission the user took from a skill is never handed back at a start-up, and is
\* granted automatically again only where its budget was found used up.
THEOREM AutoGrantsAreAccounted == ManagerSpec => []AutoGrantsAccounted
<1> DEFINE Inv == AutoRowsOnce(grants, regranted)
<1>1. ManagerInit => Inv
  <2> SUFFICES ASSUME ManagerInit PROVE AutoRowsOnce(grants, regranted)
    OBVIOUS
  <2>1. NoRows \in Table /\ AutoRowsOnce(NoRows, {})
    BY DEF NoRows, NoRow, Row, Table, AutoRowsOnce
  <2>2. PICK optedIn \in BOOLEAN : \E pick \in AutoGrantPicks(NoRows, optedIn, {}) : grants = AutoGranted(NoRows, pick)
    BY DEF ManagerInit
  <2>3. PICK pick \in AutoGrantPicks(NoRows, optedIn, {}) : grants = AutoGranted(NoRows, pick)
    BY <2>2
  <2>4. AutoRowsOnce(AutoGranted(NoRows, pick), {} \cup {g \in GrantIds : Picked(pick, g) \cap {} # {}})
    BY <2>1, AutoGrantedKeepsOnce, GrantTableAssumption
  <2>5. {} \cup {g \in GrantIds : Picked(pick, g) \cap {} # {}} = regranted
    BY DEF ManagerInit
  <2> QED
    BY <2>3, <2>4, <2>5
<1>2. ManagerTypeOK /\ Inv /\ [ManagerNext]_managerVars => Inv'
  <2> SUFFICES ASSUME ManagerTypeOK, AutoRowsOnce(grants, regranted), [ManagerNext]_managerVars
               PROVE  AutoRowsOnce(grants', regranted')
    OBVIOUS
  <2>1. grants \in Table
    BY DEF ManagerTypeOK
  <2>2. ASSUME NEW g \in GrantIds, grants[g].mode = "once", grants' = RevokeById(grants, g), regranted' = regranted
        PROVE  AutoRowsOnce(grants', regranted')
    BY <2>1, <2>2, RevokedKeepsOnce DEF RevokeById
  <2>3. CASE UNCHANGED <<grants, regranted>>
    BY <2>3
  <2>4. CASE \E k \in Callers, p \in Perms : CheckDecide(k, p)
    <3>1. PICK k \in Callers, p \in Perms : CheckDecide(k, p)
      BY <2>4
    <3>2. PICK g \in GrantIds \cup {NoGrant} : g = calls[k][p].grant
      BY DEF ManagerTypeOK
    <3>3. regranted' = regranted /\ (grants' = grants \/ (grants[g].mode = "once" /\ grants' = RevokeById(grants, g)))
      BY <3>1, <3>2 DEF CheckDecide
    <3>4. CASE g \in GrantIds
      BY <2>2, <2>3, <3>3, <3>4
    <3>5. CASE g \notin GrantIds
      <4>1. RevokeById(grants, g) = grants
        BY <2>1, <3>5 DEF RevokeById, RevokeWhere, Table
      <4> QED BY <2>3, <3>3, <4>1
    <3> QED BY <3>4, <3>5
  <2>5. CASE \E r \in Reqs, mode \in ClientModes : ApproveRequest(r, mode)
    <3>1. PICK r \in Reqs, mode \in ClientModes : ApproveRequest(r, mode)
      BY <2>5
    <3> DEFINE m == NormaliseMode(mode)
               s == IF m = "session" THEN session ELSE NoSession
    <3>2. PICK g \in GrantIds : grants' = [grants EXCEPT ![g] = NewRow(reqs[r].perm, m, "user", s)]
      BY <3>1 DEF ApproveRequest, Grant
    <3>3. regranted' = regranted
      BY <3>1 DEF ApproveRequest
    <3>4. grants'[g].by = "user" /\ \A h \in GrantIds : h # g => grants'[h] = grants[h]
      BY <2>1, <3>2 DEF NewRow, Table
    <3> QED
      BY <3>3, <3>4 DEF AutoRowsOnce
  <2>6. CASE \E P \in SUBSET Perms : RevokePermissions(P)
    <3>1. PICK P \in SUBSET Perms : RevokePermissions(P)
      BY <2>6
    <3> DEFINE S == {g \in Inserted(grants) : grants[g].perm \in P}
    <3>2. grants' = RevokeWhere(grants, S) /\ regranted' = regranted
      BY <3>1 DEF RevokePermissions, Revoke
    <3>3. \A g, h \in GrantIds : grants[g].perm = grants[h].perm /\ grants[g].by # "none" /\ grants[h].by # "none"
                                   => (g \in S <=> h \in S)
      BY DEF Inserted, NoRow
    <3> HIDE DEF S
    <3> QED BY <2>1, <3>2, <3>3, RevokedKeepsOnce
  <2>7. CASE \E c \in Conns, s \in Sessions : SwitchBegin(c, s)
    <3>1. PICK c \in Conns, s \in Sessions : SwitchBegin(c, s)
      BY <2>7
    <3> DEFINE S == {g \in Inserted(grants) : grants[g].mode = "session" /\ grants[g].session = active}
    <3>2. regranted' = regranted /\ (grants' = grants \/ grants' = RevokeWhere(grants, S))
      BY <3>1 DEF SwitchBegin, RevokeByModeAndSession
    <3>3. \A g \in GrantIds : grants[g].mode = "always" => g \notin S
      OBVIOUS
    <3> HIDE DEF S
    <3> QED BY <2>1, <2>3, <3>2, <3>3, RevokedKeepsOnce
  <2>8. CASE Restart
    <3>1. PICK optedIn \in BOOLEAN, overspent \in SUBSET Budgeted(grants) :
            \E pick \in AutoGrantPicks(grants, optedIn, overspent) :
              /\ grants' = AutoGranted(grants, pick)
              /\ regranted' = regranted \cup {g \in GrantIds : Picked(pick, g) \cap overspent # {}}
      BY <2>8 DEF Restart
    <3> QED
      BY <2>1, <3>1, AutoGrantedKeepsOnce, GrantTableAssumption
  <2> QED
    BY <2>3, <2>4, <2>5, <2>6, <2>7, <2>8
    DEF ManagerNext, CheckBegin, CheckFind, CheckReturn, RequestPermission, DenyRequest,
        SwitchEnd, SwitchFail, DeleteSession, managerVars
<1>3. Inv => AutoGrantsAccounted
  BY DEF AutoRowsOnce, AutoGrantsAccounted, AutoRows
<1> HIDE DEF Inv
<1> QED
  BY <1>1, <1>2, <1>3, ManagerTypeCorrect, PTL DEF ManagerSpec

-----------------------------------------------------------------------------
(* A once grant lets through at most one check per caller.  While its row  *)
(* is active nothing has used it.  Once it is revoked no SELECT returns it *)
(* any more, so the checks it can still let through are those that hold it *)
(* from before, of which each caller has at most one; a use is one less.   *)

Finders(g) ==
  {k \in Callers : \E p \in Perms : calls[k][p].st = "found" /\ calls[k][p].grant = g}

\* What a check holds is a row of the permission it checks.
FoundRows ==
  \A k \in Callers, p \in Perms :
    calls[k][p].st = "found" => /\ calls[k][p].grant \in GrantIds
                                /\ grants[calls[k][p].grant].perm = p

UsesLeft(g) ==
  IF grants[g].mode = "once" /\ ~grants[g].active
  THEN uses[g] + Cardinality(Finders(g)) <= Cardinality(Callers)
  ELSE uses[g] = 0

OnceInv == ManagerTypeOK /\ FoundRows /\ \A g \in GrantIds : UsesLeft(g)

LEMMA FindersFinite ==
  ASSUME ManagerAssumption, NEW g
  PROVE  /\ IsFiniteSet(Finders(g)) /\ Cardinality(Finders(g)) \in Nat
         /\ Cardinality(Finders(g)) <= Cardinality(Callers)
         /\ Cardinality(Callers) \in Nat
<1>1. Finders(g) \in SUBSET Callers
  BY DEF Finders
<1> QED
  BY <1>1, FS_Subset, FS_CardinalityType DEF ManagerAssumption

\* A step that leaves a row, its uses and the checks that hold it alone, or takes
\* some of these checks away.
LEMMA UsesKept ==
  ASSUME ManagerAssumption, ManagerTypeOK, NEW g \in GrantIds, UsesLeft(g),
         grants'[g] = grants[g], uses'[g] = uses[g],
         Finders(g)' \subseteq Finders(g) \/ grants[g].active
  PROVE  UsesLeft(g)'
<1>1. CASE grants[g].mode = "once" /\ ~grants[g].active
  <2>1. IsFiniteSet(Finders(g)')
    BY <1>1, FindersFinite, FS_Subset
  <2>2. Cardinality(Finders(g)') <= Cardinality(Finders(g))
    BY <1>1, FindersFinite, FS_Subset
  <2>3. Cardinality(Finders(g)') \in Nat
    BY <2>1, FS_CardinalityType
  <2> QED
    BY <1>1, <2>2, <2>3, FindersFinite DEF UsesLeft, ManagerTypeOK
<1>2. CASE ~(grants[g].mode = "once" /\ ~grants[g].active)
  BY <1>2 DEF UsesLeft
<1> QED
  BY <1>1, <1>2

\* A statement that revokes rows while no check moves.
LEMMA UsesRevoked ==
  ASSUME ManagerAssumption, ManagerTypeOK, OnceInv, NEW S,
         grants' = RevokeWhere(grants, S), uses' = uses, calls' = calls
  PROVE  FoundRows' /\ \A g \in GrantIds : UsesLeft(g)'
<1>1. grants \in Table
  BY DEF ManagerTypeOK
<1>2. FoundRows'
  BY <1>1, RevokeKeepsRows DEF FoundRows, OnceInv
<1>3. ASSUME NEW g \in GrantIds PROVE UsesLeft(g)'
  <2>1. Finders(g)' = Finders(g)
    BY DEF Finders
  <2>2. UsesLeft(g)
    BY DEF OnceInv
  <2>3. grants'[g].mode = grants[g].mode /\ (grants'[g].active => grants[g].active)
    BY <1>1, RevokeKeepsRows
  <2>4. uses[g] \in Nat
    BY DEF ManagerTypeOK
  <2> QED
    BY <2>1, <2>2, <2>3, <2>4, FindersFinite DEF UsesLeft
<1> QED
  BY <1>2, <1>3

LEMMA OnceInvCheck ==
  ASSUME ManagerAssumption, OnceInv, NEW k \in Callers, NEW p \in Perms,
         CheckBegin(k, p) \/ CheckFind(k, p) \/ CheckDecide(k, p) \/ CheckReturn(k, p)
  PROVE  OnceInv'
<1>1. ManagerTypeOK /\ FoundRows /\ ManagerTypeOK'
  BY CheckType DEF OnceInv
<1>2. ASSUME NEW c, calls' = [calls EXCEPT ![k][p] = c], c.st # "found",
             grants' = grants, uses' = uses
      PROVE  FoundRows' /\ \A g \in GrantIds : UsesLeft(g)'
  <2>1. \A l \in Callers, q \in Perms :
          calls'[l][q].st = "found" => calls'[l][q] = calls[l][q] /\ calls[l][q].st = "found"
    BY <1>1, <1>2 DEF ManagerTypeOK
  <2>2. FoundRows'
    BY <1>1, <1>2, <2>1 DEF FoundRows
  <2>3. \A g \in GrantIds : Finders(g)' \subseteq Finders(g)
    BY <2>1 DEF Finders
  <2> QED
    BY <1>1, <1>2, <2>2, <2>3, UsesKept DEF OnceInv
<1>3. CASE CheckBegin(k, p)
  <2> DEFINE c == [calls[k][p] EXCEPT !.st = "called"]
  <2>1. calls' = [calls EXCEPT ![k][p] = c]
    BY <1>1, <1>3 DEF CheckBegin, ManagerTypeOK
  <2>2. c.st # "found"
    BY <1>1 DEF ManagerTypeOK
  <2>3. grants' = grants /\ uses' = uses
    BY <1>3 DEF CheckBegin
  <2> HIDE DEF c
  <2>4. FoundRows' /\ \A g \in GrantIds : UsesLeft(g)'
    BY <1>2, <2>1, <2>2, <2>3
  <2> QED
    BY <1>1, <2>4 DEF OnceInv
<1>4. CASE CheckFind(k, p)
  <2>1. PICK g \in FindActiveGrant(grants, p, session) :
          calls' = [calls EXCEPT ![k][p] = [st |-> IF g = NoGrant THEN "denied" ELSE "found",
                                            grant |-> g]]
    BY <1>4 DEF CheckFind
  <2>2. CASE g = NoGrant
    <3> DEFINE c == [st |-> "denied", grant |-> g]
    <3>1. calls' = [calls EXCEPT ![k][p] = c] /\ c.st # "found"
      BY <2>1, <2>2
    <3>2. grants' = grants /\ uses' = uses
      BY <1>4 DEF CheckFind
    <3> HIDE DEF c
    <3>3. FoundRows' /\ \A h \in GrantIds : UsesLeft(h)'
      BY <1>2, <3>1, <3>2
    <3> QED
      BY <1>1, <3>3 DEF OnceInv
  <2>3. CASE g # NoGrant
    <3>1. g \in Matches(grants, p, session)
      BY <2>3 DEF FindActiveGrant
    <3>2. g \in GrantIds /\ grants[g].perm = p /\ grants[g].active
      BY <3>1 DEF Matches, Inserted
    <3>3. \A l \in Callers, q \in Perms :
            calls'[l][q] = IF l = k /\ q = p THEN [st |-> "found", grant |-> g] ELSE calls[l][q]
      BY <1>1, <2>1, <2>3 DEF ManagerTypeOK
    <3>4. FoundRows'
      BY <1>1, <1>4, <3>2, <3>3 DEF FoundRows, CheckFind
    <3>5. \A h \in GrantIds : h # g => Finders(h)' \subseteq Finders(h)
      BY <3>3 DEF Finders
    <3>6. \A h \in GrantIds : UsesLeft(h)'
      BY <1>1, <1>4, <3>2, <3>5, UsesKept DEF OnceInv, CheckFind
    <3> QED
      BY <1>1, <3>4, <3>6 DEF OnceInv
  <2> QED
    BY <2>2, <2>3
<1>5. CASE CheckDecide(k, p)
  <2>0. PICK g \in GrantIds : g = calls[k][p].grant
    BY <1>1, <1>5 DEF FoundRows, CheckDecide
  <2>1. PICK withinBudget \in BOOLEAN :
          /\ calls' = [calls EXCEPT ![k][p].st = IF withinBudget THEN "allowed" ELSE "denied"]
          /\ grants' = IF withinBudget /\ grants[g].mode = "once"
                       THEN RevokeById(grants, g) ELSE grants
          /\ uses' = IF withinBudget /\ grants[g].mode = "once"
                     THEN [uses EXCEPT ![g] = @ + 1] ELSE uses
    BY <1>5, <2>0 DEF CheckDecide
  <2> DEFINE c == [calls[k][p] EXCEPT !.st = IF withinBudget THEN "allowed" ELSE "denied"]
  <2>2. calls' = [calls EXCEPT ![k][p] = c] /\ c.st # "found"
    BY <1>1, <2>1 DEF ManagerTypeOK
  <2>3. CASE ~(withinBudget /\ grants[g].mode = "once")
    BY <1>1, <1>2, <2>1, <2>2, <2>3 DEF OnceInv
  <2>4. CASE withinBudget /\ grants[g].mode = "once"
    <3>1. grants[g].perm = p
      BY <1>1, <1>5, <2>0 DEF FoundRows, CheckDecide
    <3>2. \A l \in Callers, q \in Perms :
            calls'[l][q] = IF l = k /\ q = p THEN c ELSE calls[l][q]
      BY <1>1, <2>2 DEF ManagerTypeOK
    <3>3. \A h \in GrantIds : Finders(h)' \subseteq Finders(h)
      BY <2>2, <3>2 DEF Finders
    <3>4. k \in Finders(g)
      BY <1>5, <2>0 DEF Finders, CheckDecide
    <3>5. k \notin Finders(g)'
      <4>1. \A q \in Perms : q # p => ~(calls[k][q].st = "found" /\ calls[k][q].grant = g)
        BY <1>1, <3>1 DEF FoundRows
      <4>2. \A q \in Perms : ~(calls'[k][q].st = "found" /\ calls'[k][q].grant = g)
        <5> HIDE DEF c
        <5> QED
          BY <2>2, <3>2, <4>1
      <4> QED
        BY <4>2 DEF Finders
    <3>6. /\ grants \in Table
          /\ grants' = RevokeWhere(grants, {g})
          /\ \A h \in GrantIds \ {g} : grants'[h] = grants[h] /\ uses'[h] = uses[h]
          /\ uses'[g] = uses[g] + 1
          /\ grants'[g].mode = "once" /\ ~grants'[g].active
      <4>1. grants \in Table /\ grants' = RevokeWhere(grants, {g})
        BY <1>1, <2>1, <2>4 DEF RevokeById, ManagerTypeOK
      <4>2. grants[g] \in Row
        BY <3>1, <4>1 DEF Table
      <4>3. \A h \in GrantIds \ {g} : grants'[h] = grants[h] /\ uses'[h] = uses[h]
        BY <1>1, <2>1, <2>4, <4>1 DEF RevokeWhere, ManagerTypeOK
      <4>4. uses'[g] = uses[g] + 1
        BY <1>1, <2>1, <2>4, <3>1 DEF ManagerTypeOK
      <4>5. grants'[g].mode = "once" /\ ~grants'[g].active
        BY <2>4, <3>1, <4>1, <4>2 DEF RevokeWhere, Row
      <4> QED
        BY <4>1, <4>3, <4>4, <4>5
    <3>7. FoundRows'
      BY <1>1, <2>2, <3>2, <3>6, RevokeKeepsRows DEF FoundRows
    <3>8. UsesLeft(g)'
      <4>1. Finders(g)' \in SUBSET (Finders(g) \ {k})
        BY <3>3, <3>5
      <4>2. /\ IsFiniteSet(Finders(g) \ {k})
            /\ Cardinality(Finders(g) \ {k}) = Cardinality(Finders(g)) - 1
        BY <3>4, FindersFinite, FS_RemoveElement
      <4>3. IsFiniteSet(Finders(g)') /\ Cardinality(Finders(g)') <= Cardinality(Finders(g)) - 1
        BY <4>1, <4>2, FS_Subset
      <4>4. Cardinality(Finders(g)') \in Nat
        BY <4>3, FS_CardinalityType
      <4>5. UsesLeft(g) /\ uses[g] \in Nat
        BY <1>1, <3>1 DEF OnceInv, ManagerTypeOK
      <4>6. uses[g] + Cardinality(Finders(g)) <= Cardinality(Callers)
        BY <2>4, <4>5, FindersFinite DEF UsesLeft
      <4> QED
        BY <3>6, <4>3, <4>4, <4>5, <4>6, FindersFinite DEF UsesLeft
    <3>9. \A h \in GrantIds : UsesLeft(h)'
      BY <1>1, <3>3, <3>6, <3>8, UsesKept DEF OnceInv
    <3> QED
      BY <1>1, <3>7, <3>9 DEF OnceInv
  <2> QED
    BY <2>3, <2>4
<1>6. CASE CheckReturn(k, p)
  <2>1. calls' = [calls EXCEPT ![k][p] = IdleCall] /\ grants' = grants /\ uses' = uses
    BY <1>6 DEF CheckReturn
  <2>2. IdleCall.st # "found"
    BY DEF IdleCall
  <2>3. FoundRows' /\ \A g \in GrantIds : UsesLeft(g)'
    BY <1>2, <2>1, <2>2
  <2> QED
    BY <1>1, <2>3 DEF OnceInv
<1> QED
  BY <1>3, <1>4, <1>5, <1>6

LEMMA OnceInvApprove ==
  ASSUME ManagerAssumption, GrantTableAssumption, OnceInv,
         NEW r \in Reqs, NEW mode, ApproveRequest(r, mode)
  PROVE  OnceInv'
<1> DEFINE m == NormaliseMode(mode)
           s == IF m = "session" THEN session ELSE NoSession
<1>1. ManagerTypeOK /\ FoundRows /\ ManagerTypeOK'
  BY ApproveType DEF OnceInv
<1>2. PICK g \in GrantIds \ Inserted(grants) :
        grants' = Grant(grants, g, reqs[r].perm, m, "user", s)
  BY DEF ApproveRequest
<1>3. /\ g \in GrantIds /\ grants[g].mode = "none" /\ grants[g].perm = NoGrant
      /\ grants'[g].active
      /\ \A h \in GrantIds \ {g} : grants'[h] = grants[h]
      /\ uses' = uses /\ calls' = calls
  BY <1>1, <1>2 DEF ApproveRequest, Grant, NewRow, Inserted, NoRow, ManagerTypeOK, Table
<1>4. FoundRows'
  <2>1. ASSUME NEW k \in Callers, NEW p \in Perms, calls[k][p].st = "found"
        PROVE  calls[k][p].grant \in GrantIds \ {g}
    BY <1>1, <1>3, <2>1, GrantTableAssumption DEF FoundRows, GrantTableAssumption
  <2> QED
    BY <1>1, <1>3, <2>1 DEF FoundRows
<1>5. \A h \in GrantIds : Finders(h)' = Finders(h)
  BY <1>3 DEF Finders
<1>6. \A h \in GrantIds \ {g} : UsesLeft(h)'
  BY <1>1, <1>3, <1>5, UsesKept DEF OnceInv
<1>7. UsesLeft(g)'
  <2>1. UsesLeft(g)
    BY <1>3 DEF OnceInv
  <2>2. uses[g] = 0
    BY <1>3, <2>1 DEF UsesLeft
  <2> QED
    BY <1>3, <2>2 DEF UsesLeft
<1> QED
  BY <1>1, <1>4, <1>6, <1>7 DEF OnceInv

\* After a start-up no check is running; a once row the start-up consumed was active.
LEMMA OnceInvRestart ==
  ASSUME ManagerAssumption, GrantTableAssumption, OnceInv, Restart
  PROVE  OnceInv'
<1>1. ManagerTypeOK /\ ManagerTypeOK' /\ grants \in Table /\ uses \in [GrantIds -> Nat]
  BY RestartType DEF OnceInv, ManagerTypeOK
<1>0. PICK optedIn \in BOOLEAN, overspent \in SUBSET Budgeted(grants) :
        \E pick \in AutoGrantPicks(grants, optedIn, overspent) :
          /\ grants' = AutoGranted(grants, pick)
          /\ uses' = [g \in GrantIds |->
                        IF Picked(pick, g) # {} /\ grants[g].mode = "once"
                        THEN uses[g] + 1 ELSE uses[g]]
  BY DEF Restart
<1>2. PICK pick \in AutoGrantPicks(grants, optedIn, overspent) :
        /\ grants' = AutoGranted(grants, pick)
        /\ uses' = [g \in GrantIds |->
                      IF Picked(pick, g) # {} /\ grants[g].mode = "once"
                      THEN uses[g] + 1 ELSE uses[g]]
  BY <1>0
<1>3. \A k \in Callers, p \in Perms : calls'[k][p].st # "found"
  BY DEF Restart, IdleCall
<1>4. FoundRows'
  BY <1>3 DEF FoundRows
<1>5. \A g \in GrantIds : Finders(g)' = {}
  BY <1>3 DEF Finders
<1>6. ASSUME NEW g \in GrantIds
      PROVE  UsesLeft(g)'
  <2>1. UsesLeft(g) /\ uses[g] \in Nat /\ grants[g] \in Row
    BY <1>1 DEF OnceInv, Table
  <2>2. Cardinality(Finders(g)') = 0 /\ Cardinality(Callers) \in Nat \ {0}
    BY <1>5, FS_EmptySet, FS_CardinalityType DEF ManagerAssumption
  <2>3. CASE Picked(pick, g) = {}
    <3>1. grants'[g] = grants[g] /\ uses'[g] = uses[g]
      BY <1>2, <2>3 DEF AutoGranted
    <3> QED
      BY <2>1, <2>2, <3>1, FindersFinite DEF UsesLeft
  <2>4. CASE Picked(pick, g) # {} /\ grants[g] = NoRow
    <3>1. grants[g].mode = "none"
      BY <2>4 DEF NoRow
    <3>2. grants'[g].mode = "always" /\ uses'[g] = uses[g]
      BY <1>2, <2>4, <3>1 DEF AutoGranted, NewRow
    <3> QED
      BY <2>1, <3>1, <3>2 DEF UsesLeft
  <2>5. CASE Picked(pick, g) # {} /\ grants[g] # NoRow
    <3>1. grants[g].active
      <4>1. PICK p \in FirstParty : g \in AutoGrantChoice(grants, p, overspent)
        <5>1. PICK p \in FirstParty : pick[p] = g
          BY <2>5 DEF Picked
        <5>2. g # NoGrant
          BY GrantTableAssumption DEF GrantTableAssumption
        <5> QED BY <5>1, <5>2 DEF AutoGrantPicks
      <4>2. g \in FindActiveGrant(grants, p, NoSession) /\ g # NoGrant
        BY <2>5, <4>1, GrantTableAssumption
        DEF AutoGrantChoice, Inserted, GrantTableAssumption
      <4> QED
        BY <4>2 DEF FindActiveGrant, Matches
    <3>2. grants'[g] = [grants[g] EXCEPT !.active = grants[g].mode # "once"]
      BY <1>2, <2>5 DEF AutoGranted
    <3>3. uses[g] = 0
      BY <2>1, <3>1 DEF UsesLeft
    <3>4. grants'[g].mode = grants[g].mode
      BY <2>1, <3>2 DEF Row
    <3>5. CASE grants[g].mode = "once"
      <4>1. ~grants'[g].active /\ uses'[g] = 1
        <5>1. ~grants'[g].active
          BY <2>1, <3>2, <3>5 DEF Row
        <5>2. uses'[g] = uses[g] + 1
          BY <1>2, <2>5, <3>5
        <5> QED
          BY <3>3, <5>1, <5>2
      <4> QED
        BY <2>2, <3>4, <3>5, <4>1 DEF UsesLeft
    <3>6. CASE grants[g].mode # "once"
      <4>1. uses'[g] = 0
        BY <1>2, <3>3, <3>6
      <4> QED
        BY <3>4, <3>6, <4>1 DEF UsesLeft
    <3> QED
      BY <3>5, <3>6
  <2> QED
    BY <2>3, <2>4, <2>5
<1> QED
  BY <1>1, <1>4, <1>6 DEF OnceInv

\* However checks, approvals, revocations, session switches and restarts interleave,
\* one "once" approval lets through at most one check of each caller.
THEOREM OnceUseBounded == ManagerSpec => []OnceUseBound
<1>1. ManagerInit => OnceInv
  <2> SUFFICES ASSUME ManagerInit PROVE OnceInv
    OBVIOUS
  <2>1. ManagerTypeOK
    BY ManagerInitType, ManagerAssumption
  <2>2. FoundRows
    BY DEF ManagerInit, IdleCall, FoundRows
  <2>3. ASSUME NEW g \in GrantIds PROVE UsesLeft(g)
    <3>1. PICK pick : grants = AutoGranted(NoRows, pick)
      BY DEF ManagerInit
    <3>2. grants[g].mode # "once"
      BY <3>1 DEF AutoGranted, NoRows, NoRow, NewRow
    <3>3. uses[g] = 0
      BY DEF ManagerInit
    <3> QED
      BY <3>2, <3>3 DEF UsesLeft
  <2> QED
    BY <2>1, <2>2, <2>3 DEF OnceInv
<1>2. OnceInv /\ [ManagerNext]_managerVars => OnceInv'
  <2> SUFFICES ASSUME OnceInv, [ManagerNext]_managerVars PROVE OnceInv'
    OBVIOUS
  <2>0. ManagerTypeOK
    BY DEF OnceInv
  <2>1. CASE \E k \in Callers, p \in Perms :
               CheckBegin(k, p) \/ CheckFind(k, p) \/ CheckDecide(k, p) \/ CheckReturn(k, p)
    BY <2>1, OnceInvCheck, ManagerAssumption
  <2>2. CASE \E r \in Reqs, mode \in ClientModes : ApproveRequest(r, mode)
    BY <2>2, OnceInvApprove, ManagerAssumption, GrantTableAssumption
  <2>3. CASE Restart
    BY <2>3, OnceInvRestart, ManagerAssumption, GrantTableAssumption
  <2>4. CASE \E P \in SUBSET Perms : RevokePermissions(P)
    <3>1. ManagerTypeOK'
      BY <2>0, <2>4, RevokePermissionsType
    <3>2. FoundRows' /\ \A g \in GrantIds : UsesLeft(g)'
      BY <2>0, <2>4, UsesRevoked, ManagerAssumption DEF RevokePermissions, Revoke
    <3> QED
      BY <3>1, <3>2 DEF OnceInv
  <2>5. ASSUME ManagerTypeOK', grants' = grants, uses' = uses, calls' = calls PROVE OnceInv'
    BY <2>5 DEF OnceInv, FoundRows, UsesLeft, Finders
  <2>6. CASE \E c \in Conns : \/ SwitchEnd(c) \/ SwitchFail(c)
                             \/ \E s \in Sessions : SwitchBegin(c, s)
    <3>1. ManagerTypeOK'
      BY <2>0, <2>6, SessionType
    <3>2. CASE grants' = grants /\ uses' = uses /\ calls' = calls
      BY <2>5, <3>1, <3>2
    <3>3. CASE \E c \in Conns, s \in Sessions : SwitchBegin(c, s) /\ grants' # grants
      <4>1. FoundRows' /\ \A g \in GrantIds : UsesLeft(g)'
        BY <2>0, <3>3, UsesRevoked, ManagerAssumption DEF SwitchBegin, RevokeByModeAndSession
      <4> QED
        BY <3>1, <4>1 DEF OnceInv
    <3> QED
      BY <2>6, <3>2, <3>3 DEF SwitchBegin, SwitchEnd, SwitchFail
  <2>7. CASE \E r \in Reqs, p \in Perms, k \in Callers : RequestPermission(r, p, k)
    BY <2>0, <2>5, <2>7, RequestType DEF RequestPermission
  <2>8. CASE \E r \in Reqs : DenyRequest(r)
    BY <2>0, <2>5, <2>8, DenyType DEF DenyRequest
  <2>9. CASE DeleteSession
    BY <2>0, <2>5, <2>9, DeleteSessionType DEF DeleteSession
  <2>10. CASE UNCHANGED managerVars
    BY <2>0, <2>5, <2>10 DEF managerVars, ManagerTypeOK
  <2> QED
    BY <2>1, <2>2, <2>3, <2>4, <2>6, <2>7, <2>8, <2>9, <2>10 DEF ManagerNext
<1>3. OnceInv => OnceUseBound
  <2> SUFFICES ASSUME OnceInv, NEW g \in GrantIds, grants[g].mode = "once"
               PROVE  uses[g] <= Cardinality(Callers)
    BY DEF OnceUseBound
  <2>1. UsesLeft(g) /\ uses[g] \in Nat
    BY DEF OnceInv, ManagerTypeOK
  <2>2. /\ Cardinality(Finders(g)) \in Nat
        /\ Cardinality(Callers) \in Nat
    BY FindersFinite, ManagerAssumption
  <2> QED
    BY <2>1, <2>2 DEF UsesLeft
<1> QED
  BY <1>1, <1>2, <1>3, PTL DEF ManagerSpec

-----------------------------------------------------------------------------
(* Each user grant comes from one approved request of its own: an approval *)
(* inserts one row by the user, and nothing else does; the start-up's rows *)
(* are its own, and a revoked row stays in the table.                      *)

MatchInv == \A p \in Perms : /\ IsFiniteSet(UserRows(p)) /\ IsFiniteSet(Approvals(p))
                             /\ Cardinality(UserRows(p)) = Cardinality(Approvals(p))

LEMMA UserRowsOf ==
  ASSUME NEW p
  PROVE  UserRows(p) = {g \in GrantIds : grants[g].perm = p /\ grants[g].by = "user"}
  BY DEF UserRows, Inserted, NoRow

\* A step that neither inserts a row by the user nor approves a request.
LEMMA MatchKept ==
  ASSUME MatchInv,
         \A g \in GrantIds : \/ grants'[g].perm = grants[g].perm /\ grants'[g].by = grants[g].by
                             \/ grants'[g].by # "user" /\ grants[g].by # "user",
         \A r \in Reqs : \/ reqs'[r].perm = reqs[r].perm /\ reqs'[r].st = reqs[r].st
                         \/ reqs'[r].st # "approved" /\ reqs[r].st # "approved"
  PROVE  MatchInv'
<1> SUFFICES ASSUME NEW p \in Perms
             PROVE  UserRows(p)' = UserRows(p) /\ Approvals(p)' = Approvals(p)
  BY DEF MatchInv
<1>1. UserRows(p)' = {g \in GrantIds : grants'[g].perm = p /\ grants'[g].by = "user"}
  BY DEF UserRows, Inserted, NoRow
<1>2. UserRows(p)' = UserRows(p)
  BY <1>1, UserRowsOf
<1>3. Approvals(p)' = Approvals(p)
  BY DEF Approvals
<1> QED
  BY <1>2, <1>3

LEMMA MatchApprove ==
  ASSUME ManagerTypeOK, MatchInv, NEW r \in Reqs, NEW mode, ApproveRequest(r, mode)
  PROVE  MatchInv'
<1> DEFINE m == NormaliseMode(mode)
           s == IF m = "session" THEN session ELSE NoSession
           q == reqs[r].perm
<1>1. PICK g \in GrantIds \ Inserted(grants) : grants' = Grant(grants, g, q, m, "user", s)
  BY DEF ApproveRequest
<1>2. /\ g \in GrantIds /\ grants[g].by # "user"
      /\ grants'[g].perm = q /\ grants'[g].by = "user"
      /\ \A h \in GrantIds \ {g} : grants'[h] = grants[h]
  BY <1>1 DEF Grant, NewRow, Inserted, NoRow, ManagerTypeOK, Table
<1>3. /\ reqs[r].st = "pending" /\ reqs'[r].st = "approved" /\ reqs'[r].perm = q
      /\ \A u \in Reqs \ {r} : reqs'[u] = reqs[u]
  BY DEF ApproveRequest, ManagerTypeOK
<1> HIDE DEF m, s, q
<1> SUFFICES ASSUME NEW p \in Perms
             PROVE  /\ IsFiniteSet(UserRows(p)') /\ IsFiniteSet(Approvals(p)')
                    /\ Cardinality(UserRows(p)') = Cardinality(Approvals(p)')
  BY DEF MatchInv
<1>4. UserRows(p)' = {h \in GrantIds : grants'[h].perm = p /\ grants'[h].by = "user"}
  BY DEF UserRows, Inserted, NoRow
<1>5. UserRows(p)' = IF q = p THEN UserRows(p) \cup {g} ELSE UserRows(p)
  BY <1>2, <1>4, UserRowsOf
<1>6. Approvals(p)' = IF q = p THEN Approvals(p) \cup {r} ELSE Approvals(p)
  BY <1>3 DEF Approvals
<1>7. g \notin UserRows(p) /\ r \notin Approvals(p)
  BY <1>2, <1>3 DEF UserRows, Approvals
<1>8. /\ IsFiniteSet(UserRows(p)) /\ IsFiniteSet(Approvals(p))
      /\ Cardinality(UserRows(p)) = Cardinality(Approvals(p))
  BY DEF MatchInv
<1>9. /\ IsFiniteSet(UserRows(p) \cup {g}) /\ IsFiniteSet(Approvals(p) \cup {r})
      /\ Cardinality(UserRows(p) \cup {g}) = Cardinality(UserRows(p)) + 1
      /\ Cardinality(Approvals(p) \cup {r}) = Cardinality(Approvals(p)) + 1
  BY <1>7, <1>8, FS_AddElement
<1> QED
  BY <1>5, <1>6, <1>8, <1>9

\* The start-up inserts no row by the user.
LEMMA AutoGrantedKeepsUsers ==
  ASSUME NEW t \in Table, NEW pick, NEW g \in GrantIds
  PROVE  \/ AutoGranted(t, pick)[g].perm = t[g].perm /\ AutoGranted(t, pick)[g].by = t[g].by
         \/ AutoGranted(t, pick)[g].by # "user" /\ t[g].by # "user"
<1>1. t[g] \in Row
  BY DEF Table
<1> QED
  BY <1>1 DEF AutoGranted, NewRow, NoRow, Row

\* However requests, approvals, denials, revocations and restarts interleave, two
\* approvals of the same request, or an approval after a denial, add no row.
THEOREM GrantsAreApproved == ManagerSpec => []GrantsMatchApprovals
<1>1. ManagerInit => MatchInv
  <2> SUFFICES ASSUME ManagerInit, NEW p \in Perms
               PROVE  UserRows(p) = {} /\ Approvals(p) = {}
    BY FS_EmptySet DEF MatchInv
  <2>1. PICK pick : grants = AutoGranted(NoRows, pick)
    BY DEF ManagerInit
  <2>2. \A g \in GrantIds : grants[g].by # "user"
    BY <2>1 DEF AutoGranted, NoRows, NoRow, NewRow
  <2> QED
    BY <2>2 DEF UserRows, Approvals, ManagerInit, UnusedReq, Inserted
<1>2. ManagerTypeOK /\ MatchInv /\ [ManagerNext]_managerVars => MatchInv'
  <2> SUFFICES ASSUME ManagerTypeOK, MatchInv, [ManagerNext]_managerVars PROVE MatchInv'
    OBVIOUS
  <2>1. grants \in Table
    BY DEF ManagerTypeOK
  <2>2. ASSUME NEW S, grants' = RevokeWhere(grants, S), UNCHANGED reqs PROVE MatchInv'
    BY <2>1, <2>2, RevokeKeepsRows, MatchKept
  <2>3. CASE UNCHANGED <<grants, reqs>>
    BY <2>3, MatchKept
  <2>4. CASE \E k \in Callers, p \in Perms : CheckDecide(k, p)
    BY <2>2, <2>3, <2>4 DEF CheckDecide, RevokeById
  <2>5. CASE \E r \in Reqs, mode \in ClientModes : ApproveRequest(r, mode)
    BY <2>5, MatchApprove
  <2>6. CASE \E P \in SUBSET Perms : RevokePermissions(P)
    BY <2>2, <2>6 DEF RevokePermissions, Revoke
  <2>7. CASE \E c \in Conns, s \in Sessions : SwitchBegin(c, s)
    BY <2>2, <2>3, <2>7 DEF SwitchBegin, RevokeByModeAndSession
  <2>8. ASSUME UNCHANGED grants,
               \A r \in Reqs : \/ reqs'[r] = reqs[r]
                               \/ reqs'[r].st # "approved" /\ reqs[r].st # "approved"
        PROVE  MatchInv'
    BY <2>8, MatchKept
  <2>9. CASE \E r \in Reqs, p \in Perms, k \in Callers : RequestPermission(r, p, k)
    <3>0. PICK u \in Reqs : \E p \in Perms, k \in Callers : RequestPermission(u, p, k)
      BY <2>9
    <3>1. \A r \in Reqs : \/ reqs'[r] = reqs[r]
                          \/ reqs'[r].st # "approved" /\ reqs[r].st # "approved"
      BY <3>0 DEF RequestPermission, ManagerTypeOK
    <3> QED
      BY <2>8, <2>9, <3>1 DEF RequestPermission
  <2>10. CASE \E r \in Reqs : DenyRequest(r)
    <3>0. PICK u \in Reqs : DenyRequest(u)
      BY <2>10
    <3>1. \A r \in Reqs : \/ reqs'[r] = reqs[r]
                          \/ reqs'[r].st # "approved" /\ reqs[r].st # "approved"
      BY <3>0 DEF DenyRequest, ManagerTypeOK
    <3> QED
      BY <2>8, <2>10, <3>1 DEF DenyRequest
  <2>11. CASE Restart
    <3>1. PICK pick : grants' = AutoGranted(grants, pick)
      BY <2>11 DEF Restart
    <3>2. \A r \in Reqs : \/ reqs'[r] = reqs[r]
                          \/ reqs'[r].st # "approved" /\ reqs[r].st # "approved"
      BY <2>11 DEF Restart, ManagerTypeOK
    <3> QED
      BY <2>1, <3>1, <3>2, AutoGrantedKeepsUsers, MatchKept
  <2> QED
    BY <2>3, <2>4, <2>5, <2>6, <2>7, <2>9, <2>10, <2>11
    DEF ManagerNext, CheckBegin, CheckFind, CheckReturn, SwitchEnd, SwitchFail, DeleteSession,
        managerVars
<1>3. MatchInv => GrantsMatchApprovals
  BY DEF MatchInv, GrantsMatchApprovals
<1> QED
  BY <1>1, <1>2, <1>3, ManagerTypeCorrect, PTL DEF ManagerSpec
=============================================================================
