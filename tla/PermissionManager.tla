-------------------------- MODULE PermissionManager --------------------------
(***************************************************************************)
(* PermissionManager (permissions/manager.py) over the grant table, with   *)
(* the session switches of the kernel that drive it and a server restart.  *)
(*                                                                         *)
(* The program is one asyncio event loop: what runs between two awaits is  *)
(* atomic, and aiosqlite runs statements in the order they were issued, so *)
(* one action here is a stretch of code up to and including the statement  *)
(* it issues before it suspends.  A check_permission call is therefore two *)
(* steps, the SELECT of the grant and (after the budget SELECT) the        *)
(* decision with its UPDATE, and other coroutines run in between.          *)
(***************************************************************************)
EXTENDS GrantTable

CONSTANTS Callers,     \* whoever runs check_permission: one call per (caller, permission)
          Reqs,        \* request ids (uuid4: never used twice)
          Conns,       \* connections, each of which may be switching the session
          FirstParty,  \* the permissions first-party skills declare
          MaxRestarts  \* bound on server restarts

ASSUME ManagerAssumption == /\ FirstParty \subseteq Perms
                            /\ MaxRestarts \in Nat
                            /\ IsFiniteSet(Callers)
                            /\ Callers # {}

VARIABLES
  grants,     \* the table: survives a restart
  reqs,       \* _pending_requests: the entries whose st is "pending"
  session,    \* _current_session_id
  active,     \* the kernel's own session_id
  calls,      \* calls[k][p]: where the check_permission of k for p stands
  switching,  \* the session a connection is switching to, between the awaits of set_session
  restarts,
  uses,       \* history: how many checks each once row has let through
  regranted   \* history: the rows inserted by a start that found a budget used up

managerVars == <<grants, reqs, session, active, calls, switching, restarts, uses, regranted>>

CallStates == {"idle", "called", "found", "allowed", "denied"}
ReqStates == {"unused", "pending", "approved", "denied", "lost"}
IdleCall == [st |-> "idle", grant |-> NoGrant]
UnusedReq == [st |-> "unused", perm |-> NoGrant, owner |-> NoGrant]

ManagerTypeOK ==
  /\ grants \in Table
  /\ reqs \in [Reqs -> [st : ReqStates, perm : Perms \cup {NoGrant},
                        owner : Callers \cup {NoGrant}]]
  /\ session \in Sessions \cup {NoSession}
  /\ active \in Sessions \cup {NoSession}
  /\ calls \in [Callers -> [Perms -> [st : CallStates, grant : GrantIds \cup {NoGrant}]]]
  /\ switching \in [Conns -> Sessions \cup {NoSession}]
  /\ restarts \in 0..MaxRestarts
  /\ uses \in [GrantIds -> Nat]
  /\ regranted \in SUBSET GrantIds

-----------------------------------------------------------------------------
(* Start-up: _auto_grant_first_party_permissions, if the user opted in.    *)
(* Nothing else runs yet and no session is current.  For each first-party  *)
(* permission the check itself consumes a once grant; a permission that no *)
(* row allows, or whose budget is used up, is granted for good under a new *)
(* row id, unless a row of it was ever revoked.                            *)

\* Mutant: the start-up does not look for revoked rows.
AutoGrantChoiceForgetsRevocation(t, p, overspent) ==
  LET found == FindActiveGrant(t, p, NoSession)
  IN  IF found # {NoGrant} /\ p \notin overspent THEN found ELSE GrantIds \ Inserted(t)

\* The row the start-up consumes or inserts for p; overspent: the permissions whose
\* grant the check refuses because their trust budget is used up.
AutoGrantChoice(t, p, overspent) ==
  LET found == FindActiveGrant(t, p, NoSession)
  IN  IF found # {NoGrant} /\ p \notin overspent THEN found
      ELSE IF EverRevoked(t, p) THEN {NoGrant}
      ELSE GrantIds \ Inserted(t)

AutoGrantPicks(t, optedIn, overspent) ==
  {pick \in [FirstParty -> GrantIds \cup {NoGrant}] :
     /\ \A p \in FirstParty :
          pick[p] \in IF optedIn THEN AutoGrantChoice(t, p, overspent) ELSE {NoGrant}
     /\ \A p, q \in FirstParty : pick[p] = pick[q] => p = q \/ pick[p] = NoGrant}

\* The budget is looked at only where a grant was found.
Budgeted(t) == {p \in FirstParty : FindActiveGrant(t, p, NoSession) # {NoGrant}}

Picked(pick, g) == {p \in FirstParty : pick[p] = g}

AutoGranted(t, pick) ==
  [g \in GrantIds |->
     IF Picked(pick, g) = {} THEN t[g]
     ELSE IF t[g] = NoRow
          THEN NewRow(CHOOSE p \in Picked(pick, g) : TRUE, "always", "auto", NoSession)
     ELSE [t[g] EXCEPT !.active = t[g].mode # "once"]]

NoRows == [g \in GrantIds |-> NoRow]

ManagerInit ==
  /\ \E optedIn \in BOOLEAN : \E pick \in AutoGrantPicks(NoRows, optedIn, {}) :
       grants = AutoGranted(NoRows, pick)
  /\ reqs = [r \in Reqs |-> UnusedReq]
  /\ session = NoSession
  /\ active = NoSession
  /\ calls = [k \in Callers |-> [p \in Perms |-> IdleCall]]
  /\ switching = [c \in Conns |-> NoSession]
  /\ restarts = 0
  /\ uses = [g \in GrantIds |-> 0]
  /\ regranted = {}

\* The server stops or crashes and starts again: what is in memory is gone, the
\* table stays (a statement not yet committed counts as not yet issued).
Restart ==
  /\ restarts < MaxRestarts
  /\ restarts' = restarts + 1
  /\ \E optedIn \in BOOLEAN, overspent \in SUBSET Budgeted(grants) :
       \E pick \in AutoGrantPicks(grants, optedIn, overspent) :
         /\ grants' = AutoGranted(grants, pick)
         /\ uses' = [g \in GrantIds |->
                       IF Picked(pick, g) # {} /\ grants[g].mode = "once"
                       THEN uses[g] + 1 ELSE uses[g]]
         /\ regranted' = regranted \cup {g \in GrantIds : Picked(pick, g) \cap overspent # {}}
  /\ reqs' = [r \in Reqs |-> IF reqs[r].st = "pending" THEN [reqs[r] EXCEPT !.st = "lost"]
                                                       ELSE reqs[r]]
  /\ session' = NoSession
  /\ active' = NoSession
  /\ calls' = [k \in Callers |-> [p \in Perms |-> IdleCall]]
  /\ switching' = [c \in Conns |-> NoSession]

-----------------------------------------------------------------------------
(* check_permission.                                                       *)

CheckBegin(k, p) ==
  /\ calls[k][p].st = "idle"
  /\ calls' = [calls EXCEPT ![k][p].st = "called"]
  /\ UNCHANGED <<grants, reqs, session, active, switching, restarts, uses, regranted>>

\* find_active_grant with the session current now; no row: denied.
CheckFind(k, p) ==
  /\ calls[k][p].st = "called"
  /\ \E g \in FindActiveGrant(grants, p, session) :
       calls' = [calls EXCEPT ![k][p] = [st |-> IF g = NoGrant THEN "denied" ELSE "found",
                                         grant |-> g]]
  /\ UNCHANGED <<grants, reqs, session, active, switching, restarts, uses, regranted>>

\* Mutant: an allowed check leaves a once row active.
CheckDecideKeepsOnce(k, p) ==
  /\ calls[k][p].st = "found"
  /\ calls' = [calls EXCEPT ![k][p].st = "allowed"]
  /\ uses' = IF grants[calls[k][p].grant].mode = "once"
             THEN [uses EXCEPT ![calls[k][p].grant] = @ + 1] ELSE uses
  /\ UNCHANGED <<grants, reqs, session, active, switching, restarts, regranted>>

\* After the budget SELECT: an exhausted budget denies; otherwise the call is
\* allowed, and a once row is revoked by id, whatever became of it meanwhile.
CheckDecide(k, p) ==
  /\ calls[k][p].st = "found"
  /\ \E withinBudget \in BOOLEAN :
       LET g == calls[k][p].grant
           consume == withinBudget /\ grants[g].mode = "once"
       IN  /\ calls' = [calls EXCEPT ![k][p].st = IF withinBudget THEN "allowed" ELSE "denied"]
           /\ grants' = IF consume THEN RevokeById(grants, g) ELSE grants
           /\ uses' = IF consume THEN [uses EXCEPT ![g] = @ + 1] ELSE uses
  /\ UNCHANGED <<reqs, session, active, switching, restarts, regranted>>

\* The caller has the answer and may call again.
CheckReturn(k, p) ==
  /\ calls[k][p].st \in {"allowed", "denied"}
  /\ calls' = [calls EXCEPT ![k][p] = IdleCall]
  /\ UNCHANGED <<grants, reqs, session, active, switching, restarts, uses, regranted>>

-----------------------------------------------------------------------------
(* Requests, approvals, revocations.                                       *)

RequestPermission(r, p, k) ==
  /\ reqs[r].st = "unused"
  /\ reqs' = [reqs EXCEPT ![r] = [st |-> "pending", perm |-> p, owner |-> k]]
  /\ UNCHANGED <<grants, session, active, calls, switching, restarts, uses, regranted>>

\* The modes clients send: the three of today, older names, anything else.
ClientModes == Modes \cup {"per_action", "permanent", "other"}

\* Mutant: the client's mode goes into the table as it came.
NormaliseModeNot(mode) == mode

NormaliseMode(mode) ==
  CASE mode \in Modes -> mode [] mode = "permanent" -> "always" [] OTHER -> "once"

\* Mutant: the entry is read, not popped.
ApproveRequestKeepsEntry(r, clientMode) ==
  /\ reqs[r].st = "pending"
  /\ \E g \in GrantIds \ Inserted(grants) :
       grants' = Grant(grants, g, reqs[r].perm, NormaliseMode(clientMode), "user", session)
  /\ UNCHANGED <<reqs, session, active, calls, switching, restarts, uses, regranted>>

\* approve_request: the entry is popped and the INSERT issued in one stretch; a
\* session grant is for the session current at approval, not at the request.
ApproveRequest(r, clientMode) ==
  LET mode == NormaliseMode(clientMode)
  IN  /\ reqs[r].st = "pending"
      /\ reqs' = [reqs EXCEPT ![r].st = "approved"]
      /\ \E g \in GrantIds \ Inserted(grants) :
           grants' = Grant(grants, g, reqs[r].perm, mode, "user",
                           IF mode = "session" THEN session ELSE NoSession)
      /\ UNCHANGED <<session, active, calls, switching, restarts, uses, regranted>>

DenyRequest(r) ==
  /\ reqs[r].st = "pending"
  /\ reqs' = [reqs EXCEPT ![r].st = "denied"]
  /\ UNCHANGED <<grants, session, active, calls, switching, restarts, uses, regranted>>

\* The user revokes a permission, or every permission of a skill.
RevokePermissions(P) ==
  /\ grants' = Revoke(grants, P)
  /\ UNCHANGED <<reqs, session, active, calls, switching, restarts, uses, regranted>>

-----------------------------------------------------------------------------
(* Session switches: set_session and create_session of the kernel.         *)

\* The kernel's session is ended first, then the sessions table is awaited.
SwitchBegin(c, s) ==
  /\ switching[c] = NoSession
  /\ switching' = [switching EXCEPT ![c] = s]
  /\ grants' = IF active \in Sessions \ {s}
               THEN RevokeByModeAndSession(grants, "session", active)
               ELSE grants
  /\ UNCHANGED <<reqs, session, active, calls, restarts, uses, regranted>>

\* Only then does the new session become current, in the kernel and here.
SwitchEnd(c) ==
  /\ switching[c] # NoSession
  /\ session' = switching[c]
  /\ active' = switching[c]
  /\ switching' = [switching EXCEPT ![c] = NoSession]
  /\ UNCHANGED <<grants, reqs, calls, restarts, uses, regranted>>

\* set_session finds no such row in the sessions table: the old session, already
\* ended, stays current.
SwitchFail(c) ==
  /\ switching[c] # NoSession
  /\ switching' = [switching EXCEPT ![c] = NoSession]
  /\ UNCHANGED <<grants, reqs, session, active, calls, restarts, uses, regranted>>

\* Deleting the session in use clears it in the kernel, not here.
DeleteSession ==
  /\ active # NoSession
  /\ active' = NoSession
  /\ UNCHANGED <<grants, reqs, session, calls, switching, restarts, uses, regranted>>

-----------------------------------------------------------------------------
\* A request comes from a message, and a message runs after ensure_session.
ManagerNext ==
  \/ \E k \in Callers, p \in Perms : \/ CheckBegin(k, p)
                                     \/ CheckFind(k, p)
                                     \/ CheckDecide(k, p)
                                     \/ CheckReturn(k, p)
  \/ /\ session # NoSession
     /\ \E r \in Reqs, p \in Perms, k \in Callers : RequestPermission(r, p, k)
  \/ \E r \in Reqs : DenyRequest(r) \/ \E mode \in ClientModes : ApproveRequest(r, mode)
  \/ \E P \in SUBSET Perms : RevokePermissions(P)
  \/ \E c \in Conns : SwitchEnd(c) \/ SwitchFail(c) \/ \E s \in Sessions : SwitchBegin(c, s)
  \/ DeleteSession
  \/ Restart

ManagerSpec == ManagerInit /\ [][ManagerNext]_managerVars
-----------------------------------------------------------------------------
(* Properties.                                                             *)

\* A once grant lets through at most one check per caller: only checks that were
\* already between their SELECT and their UPDATE when the first of them revoked
\* the row can still use it (manager.py, the end of check_permission).
OnceUseBound ==
  \A g \in GrantIds : grants[g].mode = "once" => uses[g] <= Cardinality(Callers)

\* Each user grant in the table comes from one approved request of its own: two
\* approvals of the same request, or an approval after a denial, add no row.
UserRows(p) == {g \in Inserted(grants) : grants[g].perm = p /\ grants[g].by = "user"}
Approvals(p) == {r \in Reqs : reqs[r].perm = p /\ reqs[r].st = "approved"}
GrantsMatchApprovals == \A p \in Perms : Cardinality(UserRows(p)) = Cardinality(Approvals(p))

\* However often the server restarts and whatever the checks, approvals and
\* revocations in between, a permission is granted automatically a second time only by
\* a start that found a grant of it whose budget was used up; and what the user revoked
\* is never handed back: once one automatic row of it is revoked, all are.
AutoRows(p) == {g \in GrantIds : grants[g].by = "auto" /\ grants[g].perm = p}
AutoGrantsAccounted ==
  \A p \in Perms : \A g, h \in AutoRows(p) :
    /\ g = h \/ g \in regranted \/ h \in regranted
    /\ grants[g].active <=> grants[h].active
=============================================================================
