---------------------------- MODULE Credentials ----------------------------
(***************************************************************************)
(* The credential of one OAuth provider: the flow that authorizes it and   *)
(* the refresh of its access token (credentials/oauth.py), the keychain    *)
(* and the registry it is stored in (credentials/vault.py, repository.py), *)
(* its deletion (api/routes/settings.py, skills.py), and whether requests  *)
(* are routed to a skill that needs it (refresh_skill_registration in      *)
(* kernel/orchestrator.py).                                                *)
(*                                                                         *)
(* The provider is external: it issues refresh tokens, numbered, and takes *)
(* only the newest one of an authorization.                                *)
(***************************************************************************)
EXTENDS Naturals

CONSTANTS Flows, NoFlow,  \* authorizations the user may begin
          Callers,        \* uses of the access token
          MaxTokens,      \* bound: refresh tokens of one authorization
          MaxDeletes      \* bound: deletions by the user

NoSecret == [auth |-> NoFlow, refresh |-> 0, fresh |-> FALSE]
\* A token bundle; refresh 0 is a bundle without a refresh token.
Bundles == [auth : Flows, refresh : 0 .. MaxTokens, fresh : BOOLEAN]

VARIABLES
  keychain,  \* the secret stored
  row,       \* the registry has a row for it
  flow,      \* flow[f]: where an authorization is
  use,       \* use[c]: a use of the token, with the bundle it read and the token it was given
  deleting,  \* the secret was deleted, the row is next
  deletes,   \* deletions so far
  issued,    \* issued[f]: the refresh token the provider takes, of an authorization
  routed,    \* the classifier knows the skill
  look,      \* look[x]: what a look for the credential, after flow x or a deletion (NoFlow), has seen
  late,      \* history: looks under way that another one followed
  overtaken, \* history: the look acted on last was not the last one taken
  overlooked,\* history: the credential was stored or deleted without a look, or a look failed
  granted,   \* history: the authorization last stored, unless deleted since
  crossed,   \* history: a refresh stored what another write had made stale, or a deletion failed
  lost,      \* history: a refresh stopped with a new token it had not stored
  mixed      \* history: a store or deletion began, or stopped, with a row still to write

storeVars == <<keychain, row, granted, crossed, lost, mixed>>
routeVars == <<routed, look, late, overtaken, overlooked>>
credentialVars == <<storeVars, routeVars, flow, use, deleting, deletes, issued>>

Unused == [pc |-> "idle", data |-> NoSecret, new |-> 0, stale |-> FALSE]

CredentialTypeOK ==
  /\ keychain \in Bundles \cup {NoSecret} /\ row \in BOOLEAN
  /\ flow \in [Flows -> {"unused", "asked", "pending", "aged", "exchanging", "storing", "registering", "pasted", "over"}]
  /\ \A c \in Callers :
       /\ use[c].pc \in {"idle", "refreshing", "storing", "registering", "over"}
       /\ use[c].pc \in {"refreshing", "storing"} => use[c].data \in Bundles /\ use[c].data.refresh > 0
  /\ issued \in [Flows -> 0 .. MaxTokens]
  /\ granted \in Flows \cup {NoFlow}
  /\ look \in [Flows \cup {NoFlow} -> {"none", "asked", "in", "out"}]
  /\ routed \in BOOLEAN /\ late \subseteq {x \in DOMAIN look : look[x] \in {"in", "out"}}

\* At the start a skill is routed to whose credentials are all optional, though it has none.
Init ==
  /\ routed \in BOOLEAN /\ overlooked = routed
  /\ look = [x \in Flows \cup {NoFlow} |-> "none"] /\ late = {} /\ overtaken = FALSE
  /\ keychain = NoSecret /\ row = FALSE
  /\ flow = [f \in Flows |-> "unused"] /\ use = [c \in Callers |-> Unused]
  /\ deleting = FALSE /\ deletes = 0
  /\ issued = [f \in Flows |-> 0]
  /\ granted = NoFlow /\ crossed = FALSE /\ lost = FALSE /\ mixed = FALSE

Goes(f, pc) == flow' = [flow EXCEPT ![f] = pc]
RowPending ==
  \/ deleting
  \/ \E f \in Flows : flow[f] \in {"registering", "pasted"}
  \/ \E c \in Callers : use[c].pc = "registering"

\* The keychain gets a secret: what a refresh under way has read is stale now.
Stores(secret, uses) ==
  /\ keychain' = secret
  /\ use' = [c \in Callers |-> IF uses[c].pc \in {"refreshing", "storing"} THEN [uses[c] EXCEPT !.stale = TRUE]
                               ELSE uses[c]]
  /\ mixed' = RowPending

-----------------------------------------------------------------------------
(* Authorization.                                                          *)

\* The user asks for one; the client must have been configured.
AskFlow(f) ==
  /\ flow[f] = "unused" /\ \E pc \in {"asked", "over"} : Goes(f, pc)
  /\ UNCHANGED <<storeVars, routeVars, use, deleting, deletes, issued>>

\* A new flow; what is older than ten minutes is dropped.
StartFlow(f) ==
  /\ flow[f] = "asked"
  /\ flow' = [g \in Flows |-> IF g = f THEN "pending" ELSE IF flow[g] = "aged" THEN "over" ELSE flow[g]]
  /\ UNCHANGED <<storeVars, routeVars, use, deleting, deletes, issued>>

Age(f) ==
  /\ flow[f] = "pending" /\ Goes(f, "aged")
  /\ UNCHANGED <<storeVars, routeVars, use, deleting, deletes, issued>>

\* The callback takes the flow out; one too old fails.
Callback(f) ==
  /\ flow[f] \in {"pending", "aged"}
  /\ Goes(f, IF flow[f] = "aged" THEN "over" ELSE "exchanging")
  /\ UNCHANGED <<storeVars, routeVars, use, deleting, deletes, issued>>

\* There may be no client secret, and the provider may fail; it may give no refresh token.
Exchange(f) ==
  /\ flow[f] = "exchanging"
  /\ \/ Goes(f, "over") /\ UNCHANGED issued
     \/ Goes(f, "storing") /\ \E n \in {0, 1} : issued' = [issued EXCEPT ![f] = n]
  /\ UNCHANGED <<storeVars, routeVars, use, deleting, deletes>>

\* store: the keychain first.
StoreBundle(f) ==
  /\ flow[f] = "storing" /\ Goes(f, "registering")
  /\ Stores([auth |-> f, refresh |-> issued[f], fresh |-> TRUE], use)
  /\ granted' = f /\ crossed' = FALSE /\ lost' = FALSE
  /\ UNCHANGED <<row, routeVars, deleting, deletes, issued>>

\* The keychain may refuse the secret.
StoreFails(f) ==
  /\ flow[f] = "storing" /\ Goes(f, "over")
  /\ UNCHANGED <<storeVars, routeVars, use, deleting, deletes, issued>>

Registered == row' = TRUE

\* Then the callback looks which skills have their credentials.
Register(f) ==
  /\ flow[f] = "registering" /\ Goes(f, "over")
  /\ Registered /\ look' = [look EXCEPT ![f] = "asked"]
  /\ UNCHANGED <<keychain, granted, crossed, lost, mixed, use, deleting, deletes, issued,
                 routed, late, overtaken, overlooked>>

\* The page of a skill stores what the user pastes: no refresh token, and no look.
Paste(f) ==
  /\ flow[f] = "unused" /\ Goes(f, "pasted")
  /\ Stores([auth |-> f, refresh |-> issued[f], fresh |-> TRUE], use)
  /\ granted' = f /\ crossed' = FALSE /\ lost' = FALSE /\ overlooked' = TRUE
  /\ UNCHANGED <<row, routed, look, late, overtaken, deleting, deletes, issued>>

RegisterPasted(f) ==
  /\ flow[f] = "pasted" /\ Goes(f, "over") /\ Registered
  /\ UNCHANGED <<keychain, granted, crossed, lost, mixed, use, deleting, deletes, issued, routeVars>>

-----------------------------------------------------------------------------
(* Access to the token.                                                    *)

Expire ==
  /\ keychain.fresh /\ keychain' = [keychain EXCEPT !.fresh = FALSE]
  /\ UNCHANGED <<row, granted, crossed, lost, mixed, routeVars, flow, use, deleting, deletes, issued>>

\* credential_read: the skill does not declare the credential, or may not read any.
Denied(c) ==
  /\ use[c].pc = "idle" /\ use' = [use EXCEPT ![c].pc = "over"]
  /\ UNCHANGED <<storeVars, routeVars, flow, deleting, deletes, issued>>

\* retrieve: what the keychain holds.
Retrieved == keychain

CanRefresh(data) == data.refresh > 0

\* get_valid_token: the bundle is read, and refreshed if it is about to expire.
GetToken(c) ==
  /\ use[c].pc = "idle"
  /\ use' = [use EXCEPT ![c] =
       IF Retrieved = NoSecret \/ Retrieved.fresh \/ ~CanRefresh(Retrieved) THEN [Unused EXCEPT !.pc = "over"]
       ELSE [Unused EXCEPT !.pc = "refreshing", !.data = Retrieved]]
  /\ UNCHANGED <<storeVars, routeVars, flow, deleting, deletes, issued>>

\* The provider takes the newest refresh token, and may give another for it.
Post(c) ==
  /\ use[c].pc = "refreshing"
  /\ LET f == use[c].data.auth IN
       /\ use[c].data.refresh = issued[f]
       /\ \E n \in {0, issued[f] + 1} :
            /\ n <= MaxTokens
            /\ issued' = [issued EXCEPT ![f] = IF n = 0 THEN @ ELSE n]
            /\ use' = [use EXCEPT ![c].pc = "storing", ![c].new = n]
  /\ UNCHANGED <<storeVars, routeVars, flow, deleting, deletes>>

\* It refuses, cannot be reached, or there is no client secret: the old token is used.
\* The answer may be what is lost.
PostFails(c) ==
  /\ use[c].pc = "refreshing"
  /\ use' = [use EXCEPT ![c] = [Unused EXCEPT !.pc = "over"]]
  /\ LET f == use[c].data.auth IN
       \/ UNCHANGED <<issued, lost>>
       \/ /\ use[c].data.refresh = issued[f] /\ issued[f] < MaxTokens
          /\ issued' = [issued EXCEPT ![f] = @ + 1] /\ lost' = TRUE
  /\ UNCHANGED <<keychain, row, granted, crossed, mixed, routeVars, flow, deleting, deletes>>

RefreshedBare(data, new) == [data EXCEPT !.refresh = new, !.fresh = TRUE]
\* Without another refresh token, the old one stays.
Refreshed(data, new) == [data EXCEPT !.refresh = IF new = 0 THEN data.refresh ELSE new, !.fresh = TRUE]

StoreRefreshed(c) ==
  /\ use[c].pc = "storing"
  /\ Stores(Refreshed(use[c].data, use[c].new), [use EXCEPT ![c] = [Unused EXCEPT !.pc = "registering"]])
  /\ crossed' = (crossed \/ use[c].stale)
  /\ UNCHANGED <<row, granted, lost, routeVars, flow, deleting, deletes, issued>>

RegisterRefreshed(c) ==
  /\ use[c].pc = "registering"
  /\ Registered /\ use' = [use EXCEPT ![c].pc = "over"]
  /\ UNCHANGED <<keychain, granted, crossed, lost, mixed, routeVars, flow, deleting, deletes, issued>>

\* The task that uses the token is killed, or the keychain refuses the secret.
Stopped(c) ==
  /\ use[c].pc \in {"refreshing", "storing", "registering"}
  /\ use' = [use EXCEPT ![c] = [Unused EXCEPT !.pc = "over"]]
  /\ lost' = (lost \/ (use[c].pc = "storing" /\ use[c].new > 0))
  /\ mixed' = (mixed \/ use[c].pc = "registering")
  /\ UNCHANGED <<keychain, row, granted, crossed, routeVars, flow, deleting, deletes, issued>>

-----------------------------------------------------------------------------
(* Deletion.  The keychain's failure is passed over.                       *)

DeleteSecret ==
  /\ ~deleting /\ look[NoFlow] = "none" /\ deletes < MaxDeletes
  /\ deleting' = TRUE /\ deletes' = deletes + 1
  /\ \E secret \in {NoSecret, keychain} :
       /\ Stores(secret, use)
       /\ crossed' = (secret # NoSecret)
       /\ granted' = NoFlow
  /\ lost' = FALSE
  /\ UNCHANGED <<row, routeVars, flow, issued>>

Unregistered ==
  /\ deleting /\ deleting' = FALSE /\ row' = FALSE
  /\ UNCHANGED <<keychain, granted, crossed, lost, mixed, flow, use, deletes, issued, routed, late, overtaken>>

\* From the settings, with a look ...
DeleteRow == Unregistered /\ look' = [look EXCEPT ![NoFlow] = "asked"] /\ UNCHANGED overlooked

\* ... and from the page of a skill, without one.
DeleteSkillRow == Unregistered /\ overlooked' = TRUE /\ UNCHANGED look

-----------------------------------------------------------------------------
(* Routing.                                                                *)

\* refresh_skill_registration reads the keychain, which may fail, ...
Look(x) ==
  /\ look[x] = "asked"
  /\ \/ look' = [look EXCEPT ![x] = IF Retrieved = NoSecret THEN "out" ELSE "in"] /\ overlooked' = FALSE
     \/ look' = [look EXCEPT ![x] = "out"] /\ overlooked' = TRUE
  /\ late' = (late \cup {y \in DOMAIN look : look[y] \in {"in", "out"}}) \ {x}
  /\ UNCHANGED <<storeVars, flow, use, deleting, deletes, issued, routed, overtaken>>

RoutedOnce(saw) == routed \/ saw = "in"
Routed(saw) == saw = "in"

\* ... and registers the skill, or takes it out.
Route(x) ==
  /\ look[x] \in {"in", "out"}
  /\ routed' = Routed(look[x])
  /\ look' = [look EXCEPT ![x] = "none"] /\ late' = late \ {x}
  /\ overtaken' = (x \in late)
  /\ UNCHANGED <<storeVars, flow, use, deleting, deletes, issued, overlooked>>

Next ==
  \/ \E f \in Flows : AskFlow(f) \/ StartFlow(f) \/ Age(f) \/ Callback(f) \/ Exchange(f)
                      \/ StoreBundle(f) \/ StoreFails(f) \/ Register(f)
                      \/ Paste(f) \/ RegisterPasted(f)
  \/ Expire
  \/ \E c \in Callers : Denied(c) \/ GetToken(c) \/ Post(c) \/ PostFails(c) \/ StoreRefreshed(c)
                        \/ RegisterRefreshed(c) \/ Stopped(c)
  \/ DeleteSecret \/ DeleteRow \/ DeleteSkillRow
  \/ \E x \in DOMAIN look : Look(x) \/ Route(x)

Spec == Init /\ [][Next]_credentialVars

-----------------------------------------------------------------------------
(* The bundle stored is of the authorization the user gave last, with the  *)
(* refresh token the provider takes, and after a deletion there is none,   *)
(* unless a refresh stored over another write it had not seen, got no      *)
(* answer or was stopped before it stored it, or the keychain failed; and  *)
(* the registry has a row for what is stored, unless two of its writers    *)
(* crossed (credentials/oauth.py:241-398, vault.py:103-176).               *)
CredentialCurrent ==
  /\ ~crossed /\ granted = NoFlow => keychain = NoSecret
  /\ ~crossed /\ granted # NoFlow =>
       /\ keychain.auth = granted
       /\ \/ keychain.refresh = issued[granted] \/ lost
          \/ \E c \in Callers : use[c].pc = "storing" /\ use[c].data.auth = granted
  /\ ~RowPending /\ ~mixed /\ ~crossed => (row <=> keychain # NoSecret)

(* Requests are routed to the skill just when its credential is stored,    *)
(* once every change of it has been looked at: unless the look acted on    *)
(* was not the last one taken, or failed, the change came from where none  *)
(* is taken, or a token refresh stored over a deletion                     *)
(* (kernel/orchestrator.py:723-753, api/routes/oauth.py:92-106,            *)
(* settings.py:612-621, skills.py:94-125).                                *)
RoutedIfConfigured ==
  /\ ~deleting /\ (\A x \in DOMAIN look : look[x] = "none") /\ (\A f \in Flows : flow[f] # "registering")
  /\ ~overlooked /\ ~overtaken /\ ~crossed
  => (routed <=> keychain # NoSecret)
=============================================================================
