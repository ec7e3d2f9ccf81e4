------------------------ MODULE PermissionGate_proofs ------------------------
(***************************************************************************)
(* The permission gate, for any number of messages, permissions, requests  *)
(* and restarts: its type invariant, that a message is resumed only once   *)
(* every request of its round is approved, and at most once per round.     *)
(*                                                                         *)
(* The registrations (held) are what the gate decides by, while what has   *)
(* been approved is known to the manager (reqs); the invariant ties the    *)
(* two together.                                                           *)
(***************************************************************************)
EXTENDS PermissionGate, PermissionManager_proofs

\* A registered request belongs to the round of a waiting message.
HeldBelongs ==
  \A r \in held : /\ Owner(r) \in Callers
                  /\ stage[Owner(r)] = "waiting"
                  /\ r \in asked[Owner(r)]

\* The requests of a round are the message's own.
AskedBelongs ==
  \A m \in Callers : \A r \in asked[m] : Owner(r) = m /\ reqs[r].st # "unused"

\* While a message waits, a request of its round leaves held by approval only.
UnheldApproved ==
  \A m \in Callers : stage[m] = "waiting" =>
    \A r \in asked[m] \ held : reqs[r].st = "approved"

ApprovingApproved == \A r \in approving : reqs[r].st = "approved"

\* A waiting message has one round more than it has been resumed.
RoundsAhead ==
  \A m \in Callers : resumes[m] + (IF stage[m] = "waiting" THEN 1 ELSE 0) <= rounds[m]

GateInv ==
  /\ TypeOK
  /\ HeldBelongs
  /\ AskedBelongs
  /\ UnheldApproved
  /\ ApprovingApproved
  /\ RoundsAhead

-----------------------------------------------------------------------------
(* Typing of the actions the gate adds to the manager's.                   *)

ReqRecord == [st : ReqStates, perm : Perms \cup {NoGrant}, owner : Callers \cup {NoGrant}]

LEMMA NoCallsType ==
  ASSUME ManagerTypeOK, NEW m \in Callers
  PROVE  [calls EXCEPT ![m] = NoCalls] \in [Callers -> [Perms -> CallRecord]]
<1>1. NoCalls \in [Perms -> CallRecord]
  BY DEF NoCalls, IdleCall, CallRecord, CallStates
<1> QED
  BY <1>1 DEF ManagerTypeOK, CallRecord

LEMMA AskOrGoType ==
  ASSUME TypeOK, NEW m \in Callers, AskOrGo(m)
  PROVE  TypeOK'
<1>1. PICK new \in [Unasked(m) -> {r \in Reqs : reqs[r].st = "unused"}] :
        LET ids == asked[m] \cup {new[p] : p \in Unasked(m)}
        IN  /\ reqs' = [r \in Reqs |->
                          IF \E p \in Unasked(m) : new[p] = r
                          THEN [st |-> "pending", owner |-> m,
                                perm |-> CHOOSE p \in Unasked(m) : new[p] = r]
                          ELSE reqs[r]]
            /\ asked' = [asked EXCEPT ![m] = ids]
            /\ held' = held \cup ids
            /\ stage' = [stage EXCEPT ![m] = IF ids = {} THEN "exec" ELSE "waiting"]
            /\ rounds' = IF ids = {} THEN rounds ELSE [rounds EXCEPT ![m] = @ + 1]
  BY DEF AskOrGo
<1>2. Unasked(m) \subseteq Perms
  BY GateAssumption DEF Unasked, GateAssumption
<1> DEFINE ids == asked[m] \cup {new[p] : p \in Unasked(m)}
<1>3. ids \subseteq Reqs
  BY DEF TypeOK, GateTypeOK
<1>4. reqs' \in [Reqs -> ReqRecord]
  <2> SUFFICES ASSUME NEW r \in Reqs PROVE reqs'[r] \in ReqRecord
    BY <1>1
  <2>1. CASE \E p \in Unasked(m) : new[p] = r
    <3> DEFINE p == CHOOSE p \in Unasked(m) : new[p] = r
    <3>1. p \in Perms
      BY <1>2, <2>1
    <3>2. reqs'[r] = [st |-> "pending", owner |-> m, perm |-> p]
      BY <1>1, <2>1
    <3> HIDE DEF p
    <3> QED
      BY <3>1, <3>2 DEF ReqRecord, ReqStates
  <2>2. CASE ~\E p \in Unasked(m) : new[p] = r
    BY <1>1, <2>2 DEF TypeOK, ManagerTypeOK, ReqRecord
  <2> QED
    BY <2>1, <2>2
<1>5. calls' \in [Callers -> [Perms -> CallRecord]]
  BY NoCallsType DEF AskOrGo, TypeOK
<1>6. ManagerTypeOK'
  BY <1>4, <1>5 DEF AskOrGo, TypeOK, ManagerTypeOK, ReqRecord, CallRecord
<1>7. stage' \in [Callers -> Stages]
  BY <1>1 DEF TypeOK, GateTypeOK, Stages
<1>8. rounds' \in [Callers -> Nat]
  <2>1. [rounds EXCEPT ![m] = @ + 1] \in [Callers -> Nat]
    BY DEF TypeOK, GateTypeOK
  <2> QED
    BY <1>1, <2>1 DEF TypeOK, GateTypeOK
<1>9. asked' \in [Callers -> SUBSET Reqs] /\ held' \in SUBSET Reqs
  BY <1>1, <1>3 DEF TypeOK, GateTypeOK
<1> QED
  BY <1>6, <1>7, <1>8, <1>9 DEF AskOrGo, TypeOK, GateTypeOK

LEMMA ExecuteType ==
  ASSUME TypeOK, NEW m \in Callers, Execute(m)
  PROVE  TypeOK'
<1>1. calls' \in [Callers -> [Perms -> CallRecord]]
  BY NoCallsType DEF Execute, TypeOK
<1>2. ManagerTypeOK'
  BY <1>1 DEF Execute, TypeOK, ManagerTypeOK, CallRecord
<1>3. Needs[m] \subseteq Perms
  BY GateAssumption DEF GateAssumption
<1>4. stage' \in [Callers -> Stages] /\ granted' \in [Callers -> SUBSET Perms]
  BY <1>3 DEF Execute, TypeOK, GateTypeOK, Stages
<1> QED
  BY <1>2, <1>4 DEF Execute, TypeOK, GateTypeOK

\* A resumption: the message goes back to its pre-check or on to execute().
LEMMA ResumeType ==
  ASSUME TypeOK, NEW r \in Reqs, ApproveAndResume(r), HeldBelongs
  PROVE  TypeOK'
<1>1. Owner(r) \in Callers
  BY DEF ApproveAndResume, HeldBelongs
<1>2. ManagerTypeOK'
  BY DEF ApproveAndResume, TypeOK, ManagerTypeOK, managerVars
<1>3. stage' \in [Callers -> Stages] /\ resumes' \in [Callers -> Nat]
  BY <1>1 DEF ApproveAndResume, TypeOK, GateTypeOK, Stages
<1>4. /\ asked' \in [Callers -> SUBSET Reqs]
      /\ held' \in SUBSET Reqs
      /\ approving' \in SUBSET Reqs
  BY DEF ApproveAndResume, TypeOK, GateTypeOK
<1> QED
  BY <1>2, <1>3, <1>4 DEF ApproveAndResume, TypeOK, GateTypeOK

-----------------------------------------------------------------------------
(* The actions keep the invariant.                                         *)

\* Checks, revocations and session switches touch neither requests nor gate.
LEMMA QuietStep ==
  ASSUME GateInv, TypeOK', reqs' = reqs, UNCHANGED gateVars
  PROVE  GateInv'
  BY DEF GateInv, gateVars, HeldBelongs, AskedBelongs, UnheldApproved, ApprovingApproved,
         RoundsAhead, Owner

LEMMA ReceiveStep ==
  ASSUME GateInv, NEW m \in Callers, Receive(m)
  PROVE  GateInv'
<1>1. TypeOK'
  BY DEF Receive, GateInv, TypeOK, ManagerTypeOK, managerVars, GateTypeOK, Stages
<1>2. \A n \in Callers : stage'[n] = "waiting" <=> stage[n] = "waiting"
  BY DEF Receive, GateInv, TypeOK, GateTypeOK
<1>3. reqs' = reqs /\ UNCHANGED <<asked, held, approving, granted, rounds, resumes>>
  BY DEF Receive, managerVars
<1> QED
  BY <1>1, <1>2, <1>3
  DEF GateInv, HeldBelongs, AskedBelongs, UnheldApproved, ApprovingApproved, RoundsAhead, Owner

LEMMA MultiRequestStep ==
  ASSUME GateInv, NEW m \in Callers, NEW p \in Perms, MultiRequest(m, p)
  PROVE  GateInv'
<1>1. PICK r \in Reqs : /\ RequestPermission(r, p, m)
                        /\ asked' = [asked EXCEPT ![m] = @ \cup {r}]
  BY DEF MultiRequest
<1>2. TypeOK'
  <2>1. ManagerTypeOK'
    BY <1>1, RequestType DEF GateInv, TypeOK
  <2> QED
    BY <1>1, <2>1 DEF MultiRequest, GateInv, TypeOK, GateTypeOK
<1>3. /\ reqs[r].st = "unused"
      /\ reqs'[r].st = "pending" /\ reqs'[r].owner = m
      /\ \A o \in Reqs \ {r} : reqs'[o] = reqs[o]
  BY <1>1 DEF RequestPermission, GateInv, TypeOK, ManagerTypeOK
<1>4. /\ stage[m] = "check" /\ stage' = stage
      /\ held' = held /\ approving' = approving
      /\ rounds' = rounds /\ resumes' = resumes
      /\ asked'[m] = asked[m] \cup {r}
      /\ \A n \in Callers \ {m} : asked'[n] = asked[n]
      /\ \A n \in Callers : asked[n] \subseteq Reqs
      /\ held \subseteq Reqs /\ approving \subseteq Reqs
  BY <1>1 DEF MultiRequest, GateInv, TypeOK, GateTypeOK
<1>5. AskedBelongs'
  BY <1>3, <1>4 DEF GateInv, AskedBelongs, Owner
<1>6. r \notin held /\ r \notin approving /\ \A n \in Callers : r \notin asked[n]
  BY <1>3 DEF GateInv, AskedBelongs, HeldBelongs, ApprovingApproved
<1>7. HeldBelongs'
  BY <1>3, <1>4, <1>6 DEF GateInv, HeldBelongs, Owner
<1>8. UnheldApproved'
  BY <1>3, <1>4, <1>6 DEF GateInv, UnheldApproved
<1>9. ApprovingApproved'
  BY <1>3, <1>4, <1>6 DEF GateInv, ApprovingApproved
<1> QED
  BY <1>2, <1>4, <1>5, <1>7, <1>8, <1>9 DEF GateInv, RoundsAhead

\* Registration: every request of the round enters held with the message waiting.
LEMMA AskOrGoStep ==
  ASSUME GateInv, NEW m \in Callers, AskOrGo(m)
  PROVE  GateInv'
<1>1. PICK new \in [Unasked(m) -> {r \in Reqs : reqs[r].st = "unused"}] :
        LET ids == asked[m] \cup {new[p] : p \in Unasked(m)}
        IN  /\ reqs' = [r \in Reqs |->
                          IF \E p \in Unasked(m) : new[p] = r
                          THEN [st |-> "pending", owner |-> m,
                                perm |-> CHOOSE p \in Unasked(m) : new[p] = r]
                          ELSE reqs[r]]
            /\ asked' = [asked EXCEPT ![m] = ids]
            /\ held' = held \cup ids
            /\ stage' = [stage EXCEPT ![m] = IF ids = {} THEN "exec" ELSE "waiting"]
            /\ rounds' = IF ids = {} THEN rounds ELSE [rounds EXCEPT ![m] = @ + 1]
  BY DEF AskOrGo
<1> DEFINE fresh == {new[p] : p \in Unasked(m)}
           ids == asked[m] \cup fresh
<1>2. TypeOK'
  BY AskOrGoType DEF GateInv
<1>3. /\ fresh \subseteq Reqs
      /\ \A r \in fresh : /\ reqs[r].st = "unused"
                          /\ reqs'[r].st = "pending" /\ reqs'[r].owner = m
      /\ \A r \in Reqs \ fresh : reqs'[r] = reqs[r]
  BY <1>1
<1>4. /\ asked'[m] = ids /\ held' = held \cup ids
      /\ stage'[m] = IF ids = {} THEN "exec" ELSE "waiting"
      /\ \A n \in Callers \ {m} : asked'[n] = asked[n] /\ stage'[n] = stage[n]
      /\ \A n \in Callers : asked[n] \subseteq Reqs
      /\ held \subseteq Reqs /\ approving \subseteq Reqs
      /\ stage[m] = "check"
      /\ approving' = approving /\ resumes' = resumes
  BY <1>1 DEF AskOrGo, GateInv, TypeOK, GateTypeOK
<1>5. rounds'[m] = IF ids = {} THEN rounds[m] ELSE rounds[m] + 1
  BY <1>1 DEF GateInv, TypeOK, GateTypeOK
<1>6. \A n \in Callers \ {m} : rounds'[n] = rounds[n]
  BY <1>1 DEF GateInv, TypeOK, GateTypeOK
<1> HIDE DEF fresh
<1>7. fresh \cap held = {} /\ fresh \cap approving = {} /\ \A n \in Callers : fresh \cap asked[n] = {}
  BY <1>3 DEF GateInv, AskedBelongs, HeldBelongs, ApprovingApproved
<1>8. AskedBelongs'
  BY <1>3, <1>4, <1>7 DEF GateInv, AskedBelongs, Owner
<1>9. HeldBelongs'
  <2>1. ASSUME NEW r \in held
        PROVE  Owner(r)' \in Callers /\ stage'[Owner(r)'] = "waiting" /\ r \in asked'[Owner(r)']
    <3>1. Owner(r)' = Owner(r) /\ Owner(r) \in Callers \ {m}
      BY <1>3, <1>4, <1>7, <2>1 DEF GateInv, HeldBelongs, Owner
    <3> QED
      BY <1>4, <2>1, <3>1 DEF GateInv, HeldBelongs
  <2>2. ASSUME NEW r \in ids
        PROVE  Owner(r)' \in Callers /\ stage'[Owner(r)'] = "waiting" /\ r \in asked'[Owner(r)']
    <3>1. Owner(r)' = m
      BY <1>4, <1>8, <2>2 DEF AskedBelongs
    <3> QED
      BY <1>4, <2>2, <3>1
  <2> QED
    BY <1>4, <2>1, <2>2 DEF HeldBelongs
<1>10. UnheldApproved'
  <2> SUFFICES ASSUME NEW n \in Callers, stage'[n] = "waiting", NEW r \in asked'[n] \ held'
               PROVE  reqs'[r].st = "approved"
    BY DEF UnheldApproved
  <2>1. n # m
    BY <1>4
  <2>2. r \in asked[n] \ held /\ stage[n] = "waiting"
    BY <1>4, <2>1
  <2> QED
    BY <1>3, <1>4, <1>7, <2>2 DEF GateInv, UnheldApproved
<1>11. ApprovingApproved'
  BY <1>3, <1>4, <1>7 DEF GateInv, ApprovingApproved
<1>12. RoundsAhead'
  <2>1. \A n \in Callers : rounds[n] \in Nat /\ resumes[n] \in Nat
    BY DEF GateInv, TypeOK, GateTypeOK
  <2>2. ASSUME NEW n \in Callers
        PROVE  resumes'[n] + (IF stage'[n] = "waiting" THEN 1 ELSE 0) <= rounds'[n]
    <3>1. resumes[n] + (IF stage[n] = "waiting" THEN 1 ELSE 0) <= rounds[n]
      BY DEF GateInv, RoundsAhead
    <3>2. CASE n # m
      BY <1>4, <1>6, <3>1, <3>2
    <3>3. CASE n = m
      BY <1>4, <1>5, <2>1, <3>1, <3>3
    <3> QED
      BY <3>2, <3>3
  <2> QED
    BY <2>2 DEF RoundsAhead
<1> QED
  BY <1>2, <1>8, <1>9, <1>10, <1>11, <1>12 DEF GateInv

LEMMA ExecuteStep ==
  ASSUME GateInv, NEW m \in Callers, Execute(m)
  PROVE  GateInv'
<1>1. TypeOK'
  BY ExecuteType DEF GateInv
<1>2. \A n \in Callers : stage'[n] = "waiting" <=> stage[n] = "waiting"
  BY DEF Execute, GateInv, TypeOK, GateTypeOK
<1>3. UNCHANGED <<reqs, asked, held, approving, rounds, resumes>>
  BY DEF Execute
<1> QED
  BY <1>1, <1>2, <1>3
  DEF GateInv, HeldBelongs, AskedBelongs, UnheldApproved, ApprovingApproved, RoundsAhead, Owner

LEMMA ApproveStep ==
  ASSUME GateInv, NEW r \in Reqs, Approve(r)
  PROVE  GateInv'
<1>1. PICK mode \in ClientModes : ApproveRequest(r, mode)
  BY DEF Approve
<1>2. TypeOK'
  <2>1. ManagerTypeOK'
    BY <1>1, ApproveType DEF GateInv, TypeOK
  <2> QED
    BY <2>1 DEF Approve, GateInv, TypeOK, GateTypeOK
<1>3. /\ reqs'[r].st = "approved" /\ reqs'[r].owner = reqs[r].owner
      /\ \A o \in Reqs \ {r} : reqs'[o] = reqs[o]
  BY <1>1 DEF ApproveRequest, GateInv, TypeOK, ManagerTypeOK
<1>4. /\ approving' = approving \cup {r} /\ UNCHANGED <<stage, asked, held, rounds, resumes>>
      /\ \A n \in Callers : asked[n] \subseteq Reqs
      /\ held \subseteq Reqs /\ approving \subseteq Reqs
  BY DEF Approve, GateInv, TypeOK, GateTypeOK
<1>5. HeldBelongs' /\ AskedBelongs'
  BY <1>3, <1>4 DEF GateInv, HeldBelongs, AskedBelongs, Owner
<1>6. UnheldApproved' /\ ApprovingApproved' /\ RoundsAhead'
  BY <1>3, <1>4 DEF GateInv, UnheldApproved, ApprovingApproved, RoundsAhead
<1> QED
  BY <1>2, <1>5, <1>6 DEF GateInv

\* The one removal from held that leaves its message waiting is of an approved request.
LEMMA ApproveOnlyStep ==
  ASSUME GateInv, NEW r \in Reqs, ApproveOnly(r)
  PROVE  GateInv'
<1>1. TypeOK'
  BY DEF ApproveOnly, GateInv, TypeOK, ManagerTypeOK, managerVars, GateTypeOK
<1>2. /\ reqs[r].st = "approved"
      /\ held' = held \ {r} /\ approving' = approving \ {r}
      /\ UNCHANGED <<reqs, stage, asked, rounds, resumes>>
  BY DEF ApproveOnly, GateInv, ApprovingApproved, managerVars
<1>3. HeldBelongs' /\ AskedBelongs'
  BY <1>2 DEF GateInv, HeldBelongs, AskedBelongs, Owner
<1>4. UnheldApproved' /\ ApprovingApproved' /\ RoundsAhead'
  BY <1>2 DEF GateInv, UnheldApproved, ApprovingApproved, RoundsAhead
<1> QED
  BY <1>1, <1>3, <1>4 DEF GateInv

LEMMA ApproveAndResumeStep ==
  ASSUME GateInv, NEW r \in Reqs, ApproveAndResume(r)
  PROVE  GateInv'
<1>1. TypeOK'
  BY ResumeType DEF GateInv
<1>2. PICK m \in Callers : m = Owner(r) /\ stage[m] = "waiting" /\ r \in asked[m]
  BY DEF ApproveAndResume, GateInv, HeldBelongs
<1>3. /\ held' = held \ {r} /\ approving' = approving \ {r}
      /\ asked[m] \cap held' = {} /\ asked'[m] = {} /\ stage'[m] # "waiting"
      /\ resumes'[m] = resumes[m] + 1
      /\ UNCHANGED <<reqs, rounds>>
  BY <1>2 DEF ApproveAndResume, GateInv, TypeOK, GateTypeOK, managerVars
<1>4. \A n \in Callers \ {m} : /\ asked'[n] = asked[n] /\ stage'[n] = stage[n]
                              /\ resumes'[n] = resumes[n]
  BY <1>2 DEF ApproveAndResume, GateInv, TypeOK, GateTypeOK
<1>5. HeldBelongs'
  <2> SUFFICES ASSUME NEW o \in held \ {r}
               PROVE  /\ Owner(o) \in Callers /\ stage'[Owner(o)] = "waiting"
                      /\ o \in asked'[Owner(o)]
    BY <1>3 DEF HeldBelongs, Owner
  <2>1. Owner(o) \in Callers \ {m}
    BY <1>3 DEF GateInv, HeldBelongs
  <2> QED
    BY <1>4, <2>1 DEF GateInv, HeldBelongs
<1>6. AskedBelongs'
  BY <1>3, <1>4 DEF GateInv, AskedBelongs, Owner
<1>7. UnheldApproved'
  <2> SUFFICES ASSUME NEW n \in Callers, stage'[n] = "waiting", NEW o \in asked'[n] \ held'
               PROVE  reqs[o].st = "approved"
    BY <1>3 DEF UnheldApproved
  <2>1. n # m /\ stage[n] = "waiting" /\ o \in asked[n]
    BY <1>3, <1>4
  <2>2. o # r
    BY <1>2, <2>1 DEF GateInv, AskedBelongs
  <2> QED
    BY <1>3, <2>1, <2>2 DEF GateInv, UnheldApproved
<1>8. ApprovingApproved'
  BY <1>3 DEF GateInv, ApprovingApproved
<1>9. RoundsAhead'
  <2>1. \A n \in Callers : rounds[n] \in Nat /\ resumes[n] \in Nat
    BY DEF GateInv, TypeOK, GateTypeOK
  <2>2. ASSUME NEW n \in Callers
        PROVE  resumes'[n] + (IF stage'[n] = "waiting" THEN 1 ELSE 0) <= rounds[n]
    <3>1. resumes[n] + (IF stage[n] = "waiting" THEN 1 ELSE 0) <= rounds[n]
      BY DEF GateInv, RoundsAhead
    <3> QED
      BY <1>2, <1>3, <1>4, <2>1, <3>1
  <2> QED
    BY <1>3, <2>2 DEF RoundsAhead
<1> QED
  BY <1>1, <1>5, <1>6, <1>7, <1>8, <1>9 DEF GateInv

LEMMA DenyStep ==
  ASSUME GateInv, NEW r \in Reqs, Deny(r)
  PROVE  GateInv'
<1>1. reqs[r].st = "pending" /\ ManagerTypeOK' /\ UNCHANGED <<asked, approving, granted, rounds, resumes>>
  BY DenyType DEF Deny, DenyRequest, GateInv, TypeOK
<1>2. /\ \A o \in Reqs \ {r} : reqs'[o] = reqs[o]
      /\ reqs'[r].owner = reqs[r].owner /\ reqs'[r].st # "unused"
  BY DEF Deny, DenyRequest, GateInv, TypeOK, ManagerTypeOK
<1>3. /\ \A n \in Callers : asked[n] \subseteq Reqs
      /\ held \subseteq Reqs /\ approving \subseteq Reqs
  BY DEF GateInv, TypeOK, GateTypeOK
<1>4. AskedBelongs'
  BY <1>1, <1>2, <1>3 DEF GateInv, AskedBelongs, Owner
<1>5. ApprovingApproved'
  BY <1>1, <1>2, <1>3 DEF GateInv, ApprovingApproved
<1>6. CASE r \in held
  <2>1. PICK m \in Callers : m = Owner(r) /\ stage[m] = "waiting"
    BY <1>6 DEF GateInv, HeldBelongs
  <2>2. /\ held' = held \ asked[m]
        /\ stage'[m] = "denied" /\ \A n \in Callers \ {m} : stage'[n] = stage[n]
    BY <1>6, <2>1 DEF Deny, GateInv, TypeOK, GateTypeOK
  <2>3. TypeOK'
    BY <1>1, <1>6 DEF Deny, GateInv, TypeOK, GateTypeOK, Stages
  <2>4. \A n \in Callers : r \in asked[n] => n = m
    BY <2>1 DEF GateInv, AskedBelongs
  <2>5. HeldBelongs'
    <3> SUFFICES ASSUME NEW o \in held \ asked[m]
                 PROVE  /\ Owner(o)' \in Callers /\ stage'[Owner(o)'] = "waiting"
                        /\ o \in asked[Owner(o)']
      BY <1>1, <2>2 DEF HeldBelongs
    <3>1. Owner(o)' = Owner(o)
      BY <1>2, <1>3 DEF Owner
    <3>2. Owner(o) \in Callers \ {m} /\ stage[Owner(o)] = "waiting" /\ o \in asked[Owner(o)]
      BY DEF GateInv, HeldBelongs
    <3> QED
      BY <2>2, <3>1, <3>2
  <2>6. UnheldApproved'
    <3> SUFFICES ASSUME NEW n \in Callers, stage'[n] = "waiting", NEW o \in asked[n] \ held'
                 PROVE  reqs'[o].st = "approved"
      BY <1>1 DEF UnheldApproved
    <3>1. n # m /\ stage[n] = "waiting" /\ o # r
      BY <2>2, <2>4
    <3>2. o \notin asked[m]
      BY <3>1 DEF GateInv, AskedBelongs
    <3>3. reqs[o].st = "approved"
      BY <2>2, <3>1, <3>2 DEF GateInv, UnheldApproved
    <3> QED
      BY <1>2, <1>3, <3>1, <3>3
  <2>7. RoundsAhead'
    <3>1. \A n \in Callers : rounds[n] \in Nat /\ resumes[n] \in Nat
      BY DEF GateInv, TypeOK, GateTypeOK
    <3> QED
      BY <1>1, <2>1, <2>2, <3>1 DEF GateInv, RoundsAhead
  <2> QED
    BY <1>4, <1>5, <2>3, <2>5, <2>6, <2>7 DEF GateInv
<1>7. CASE r \notin held
  <2>1. UNCHANGED <<held, stage>>
    BY <1>7 DEF Deny
  <2>2. TypeOK'
    BY <1>1, <2>1 DEF GateInv, TypeOK, GateTypeOK
  <2>3. HeldBelongs'
    BY <1>1, <1>2, <1>3, <1>7, <2>1 DEF GateInv, HeldBelongs, Owner
  <2>4. UnheldApproved'
    <3> SUFFICES ASSUME NEW n \in Callers, stage[n] = "waiting", NEW o \in asked[n] \ held
                 PROVE  reqs'[o].st = "approved"
      BY <1>1, <2>1 DEF UnheldApproved
    <3>1. reqs[o].st = "approved"
      BY DEF GateInv, UnheldApproved
    <3> QED
      BY <1>1, <1>2, <1>3, <3>1
  <2>5. RoundsAhead'
    BY <1>1, <2>1 DEF GateInv, RoundsAhead
  <2> QED
    BY <1>4, <1>5, <2>2, <2>3, <2>4, <2>5 DEF GateInv
<1> QED
  BY <1>6, <1>7

LEMMA GateRestartStep ==
  ASSUME GateInv, GateRestart
  PROVE  GateInv'
<1>1. ManagerTypeOK'
  BY RestartType, ManagerAssumption DEF GateRestart, GateInv, TypeOK
<1>2. /\ asked' = [m \in Callers |-> {}] /\ held' = {} /\ approving' = {}
      /\ UNCHANGED <<granted, rounds, resumes>>
      /\ \A m \in Callers : stage'[m] # "waiting"
  BY DEF GateRestart
<1>3. stage' \in [Callers -> Stages]
  BY DEF GateRestart, GateInv, TypeOK, GateTypeOK, Stages
<1>4. TypeOK'
  BY <1>1, <1>2, <1>3 DEF GateInv, TypeOK, GateTypeOK
<1>5. RoundsAhead'
  <2>1. \A n \in Callers : rounds[n] \in Nat /\ resumes[n] \in Nat
    BY DEF GateInv, TypeOK, GateTypeOK
  <2> QED
    BY <1>2, <2>1 DEF GateInv, RoundsAhead
<1> QED
  BY <1>2, <1>4, <1>5
  DEF GateInv, HeldBelongs, AskedBelongs, UnheldApproved, ApprovingApproved

-----------------------------------------------------------------------------
(* Messages for one skill: all requests of a round are registered as they  *)
(* are raised, so that what is registered can still be answered.           *)

SingleInv ==
  \A m \in Callers \ Multi :
    /\ stage[m] \in {"idle", "check"} => asked[m] = {}
    /\ stage[m] = "waiting" => asked[m] \cap held # {}
    /\ stage[m] = "waiting" =>
         \A r \in asked[m] \cap held : reqs[r].st = "pending" \/ r \in approving

\* A step that leaves a round, and the answers to it, as they are.
LEMMA SingleKept ==
  ASSUME GateInv, SingleInv, NEW m \in Callers \ Multi,
         asked'[m] = asked[m],
         stage'[m] = stage[m] \/ stage'[m] \notin {"idle", "check", "waiting"},
         asked[m] \cap held' = asked[m] \cap held,
         \A r \in asked[m] \cap held : /\ reqs'[r].st = reqs[r].st
                                       /\ r \in approving => r \in approving'
  PROVE  /\ stage'[m] \in {"idle", "check"} => asked'[m] = {}
         /\ stage'[m] = "waiting" => asked'[m] \cap held' # {}
         /\ stage'[m] = "waiting" =>
              \A r \in asked'[m] \cap held' : reqs'[r].st = "pending" \/ r \in approving'
BY DEF SingleInv

\* Registration of a round of fresh requests.
LEMMA SingleAsks ==
  ASSUME GateInv, SingleInv, NEW m \in Callers, AskOrGo(m)
  PROVE  SingleInv'
<1>1. PICK new \in [Unasked(m) -> {r \in Reqs : reqs[r].st = "unused"}] :
        LET ids == asked[m] \cup {new[p] : p \in Unasked(m)}
        IN  /\ reqs' = [r \in Reqs |->
                          IF \E p \in Unasked(m) : new[p] = r
                          THEN [st |-> "pending", owner |-> m,
                                perm |-> CHOOSE p \in Unasked(m) : new[p] = r]
                          ELSE reqs[r]]
            /\ asked' = [asked EXCEPT ![m] = ids]
            /\ held' = held \cup ids
            /\ stage' = [stage EXCEPT ![m] = IF ids = {} THEN "exec" ELSE "waiting"]
  BY DEF AskOrGo
<1> DEFINE fresh == {new[p] : p \in Unasked(m)}
           ids == asked[m] \cup fresh
<1>2. /\ fresh \subseteq Reqs
      /\ \A r \in fresh : reqs[r].st = "unused" /\ reqs'[r].st = "pending"
      /\ \A r \in Reqs \ fresh : reqs'[r] = reqs[r]
  BY <1>1
<1>3. /\ asked'[m] = ids /\ held' = held \cup ids
      /\ stage'[m] = IF ids = {} THEN "exec" ELSE "waiting"
      /\ \A n \in Callers \ {m} : asked'[n] = asked[n] /\ stage'[n] = stage[n]
      /\ \A n \in Callers : asked[n] \subseteq Reqs
      /\ stage[m] = "check" /\ approving' = approving
  BY <1>1 DEF AskOrGo, GateInv, TypeOK, GateTypeOK
<1> HIDE DEF fresh
<1> SUFFICES ASSUME NEW n \in Callers \ Multi
             PROVE  /\ stage'[n] \in {"idle", "check"} => asked'[n] = {}
                    /\ stage'[n] = "waiting" => asked'[n] \cap held' # {}
                    /\ stage'[n] = "waiting" =>
                         \A r \in asked'[n] \cap held' : reqs'[r].st = "pending" \/ r \in approving'
  BY DEF SingleInv
<1>4. CASE n = m
  <2>1. asked[m] = {}
    BY <1>3, <1>4 DEF SingleInv
  <2> QED
    BY <1>2, <1>3, <1>4, <2>1
<1>5. CASE n # m
  <2>1. asked[n] \cap ids = {}
    BY <1>2, <1>5 DEF GateInv, AskedBelongs
  <2>2. asked[n] \cap held' = asked[n] \cap held
    BY <1>3, <2>1
  <2>3. \A r \in asked[n] \cap held : reqs'[r].st = reqs[r].st
    BY <1>2, <1>3, <2>1
  <2> QED
    BY <1>3, <1>5, <2>2, <2>3, SingleKept
<1> QED
  BY <1>4, <1>5

\* The answers to requests: an approval is under way until its entry is taken out.
LEMMA SingleAnswered ==
  ASSUME GateInv, SingleInv, NEW r \in Reqs,
         Approve(r) \/ ApproveOnly(r) \/ ApproveAndResume(r) \/ Deny(r)
  PROVE  SingleInv'
<1> SUFFICES ASSUME NEW n \in Callers \ Multi
             PROVE  /\ stage'[n] \in {"idle", "check"} => asked'[n] = {}
                    /\ stage'[n] = "waiting" => asked'[n] \cap held' # {}
                    /\ stage'[n] = "waiting" =>
                         \A o \in asked'[n] \cap held' : reqs'[o].st = "pending" \/ o \in approving'
  BY DEF SingleInv
<1>1. asked[n] \subseteq Reqs /\ \A o \in asked[n] : Owner(o) = n
  BY DEF GateInv, TypeOK, GateTypeOK, AskedBelongs
<1>2. CASE Approve(r)
  <2>1. \A o \in Reqs \ {r} : reqs'[o] = reqs[o]
    BY <1>2 DEF Approve, ApproveRequest, GateInv, TypeOK, ManagerTypeOK
  <2>2. approving' = approving \cup {r} /\ UNCHANGED <<stage, asked, held>>
    BY <1>2 DEF Approve
  <2> QED
    BY <1>1, <2>1, <2>2 DEF SingleInv
<1>3. CASE ApproveOnly(r)
  <2>1. /\ held' = held \ {r} /\ approving' = approving \ {r}
        /\ UNCHANGED <<reqs, stage, asked>>
        /\ r \notin held \/ asked[Owner(r)] \cap (held \ {r}) # {}
    BY <1>3 DEF ApproveOnly, managerVars
  <2>2. asked[n] \cap held # {} => asked[n] \cap held' # {}
    <3>1. CASE r \in asked[n]
      BY <1>1, <2>1, <3>1
    <3>2. CASE r \notin asked[n]
      BY <2>1, <3>2
    <3> QED
      BY <3>1, <3>2
  <2> QED
    BY <2>1, <2>2 DEF SingleInv
<1>4. CASE ApproveAndResume(r)
  <2>1. PICK m \in Callers : m = Owner(r)
    BY <1>4 DEF ApproveAndResume, GateInv, HeldBelongs
  <2>2. /\ held' = held \ {r} /\ approving' = approving \ {r} /\ reqs' = reqs
        /\ asked'[m] = {} /\ (m \notin Multi => stage'[m] = "exec")
        /\ \A o \in Callers \ {m} : asked'[o] = asked[o] /\ stage'[o] = stage[o]
    BY <1>4, <2>1 DEF ApproveAndResume, GateInv, TypeOK, GateTypeOK, managerVars
  <2>3. CASE n = m
    BY <2>2, <2>3
  <2>4. CASE n # m
    <3>1. r \notin asked[n]
      BY <1>1, <2>1, <2>4
    <3> QED
      BY <2>2, <2>4, <3>1, SingleKept
  <2> QED
    BY <2>3, <2>4
<1>5. CASE Deny(r)
  <2>1. /\ UNCHANGED <<asked, approving>>
        /\ \A o \in Reqs \ {r} : reqs'[o] = reqs[o]
    BY <1>5 DEF Deny, DenyRequest, GateInv, TypeOK, ManagerTypeOK
  <2>2. CASE r \in held
    <3>1. PICK m \in Callers : m = Owner(r) /\ r \in asked[m]
      BY <2>2 DEF GateInv, HeldBelongs
    <3>2. /\ held' = held \ asked[m] /\ stage'[m] = "denied"
          /\ \A o \in Callers \ {m} : stage'[o] = stage[o]
      BY <1>5, <2>2, <3>1 DEF Deny, GateInv, TypeOK, GateTypeOK
    <3>3. CASE n = m
      BY <3>2, <3>3
    <3>4. CASE n # m
      <4>1. asked[n] \cap asked[m] = {}
        BY <1>1, <3>4 DEF GateInv, AskedBelongs
      <4> QED
        BY <1>1, <2>1, <3>1, <3>2, <3>4, <4>1, SingleKept
    <3> QED
      BY <3>3, <3>4
  <2>3. CASE r \notin held
    <3>1. UNCHANGED <<held, stage>>
      BY <1>5, <2>3 DEF Deny
    <3> QED
      BY <1>1, <2>1, <2>3, <3>1, SingleKept
  <2> QED
    BY <2>2, <2>3
<1> QED
  BY <1>2, <1>3, <1>4, <1>5

LEMMA SingleInvInductive ==
  /\ Init => SingleInv
  /\ GateInv /\ SingleInv /\ [Next]_vars => SingleInv'
<1>1. ASSUME Init PROVE SingleInv
  BY <1>1 DEF Init, SingleInv
<1>2. ASSUME GateInv, SingleInv, [Next]_vars PROVE SingleInv'
  <2>0. \A n \in Callers : asked[n] \subseteq Reqs /\ \A o \in asked[n] : Owner(o) = n
    BY <1>2 DEF GateInv, TypeOK, GateTypeOK, AskedBelongs
  <2>1. CASE UNCHANGED <<reqs, gateVars>>
    BY <1>2, <2>1 DEF SingleInv, gateVars
  <2>2. CASE \E m \in Callers : Receive(m)
    <3>1. PICK m \in Callers : Receive(m)
      BY <2>2
    <3>2. /\ UNCHANGED <<reqs, asked, held, approving>> /\ stage[m] = "idle"
          /\ stage'[m] \in {"check", "exec"}
          /\ \A n \in Callers \ {m} : stage'[n] = stage[n]
      BY <1>2, <3>1 DEF Receive, managerVars, GateInv, TypeOK, GateTypeOK
    <3> QED
      BY <1>2, <3>2 DEF SingleInv
  <2>3. CASE \E m \in Callers, p \in Perms : MultiRequest(m, p)
    <3>1. PICK m \in Multi, p \in Perms, r \in Reqs :
            /\ RequestPermission(r, p, m)
            /\ asked' = [asked EXCEPT ![m] = @ \cup {r}]
            /\ UNCHANGED <<stage, held, approving>>
      BY <2>3 DEF MultiRequest
    <3>2. reqs[r].st = "unused" /\ \A o \in Reqs \ {r} : reqs'[o] = reqs[o]
      BY <1>2, <3>1 DEF RequestPermission, GateInv, TypeOK, ManagerTypeOK
    <3>3. ASSUME NEW n \in Callers \ Multi
          PROVE  asked'[n] = asked[n] /\ \A o \in asked[n] : reqs'[o] = reqs[o]
      BY <1>2, <2>0, <3>1, <3>2 DEF GateInv, TypeOK, GateTypeOK, AskedBelongs
    <3> QED
      BY <1>2, <3>1, <3>3 DEF SingleInv
  <2>4. CASE \E m \in Callers : AskOrGo(m)
    BY <1>2, <2>4, SingleAsks
  <2>5. CASE \E m \in Callers : Execute(m)
    <3>1. PICK m \in Callers : Execute(m)
      BY <2>5
    <3>2. /\ UNCHANGED <<reqs, asked, held, approving>> /\ stage'[m] = "done"
          /\ \A n \in Callers \ {m} : stage'[n] = stage[n]
      BY <1>2, <3>1 DEF Execute, GateInv, TypeOK, GateTypeOK
    <3> QED
      BY <1>2, <3>2 DEF SingleInv
  <2>6. CASE \E r \in Reqs : Approve(r) \/ ApproveOnly(r) \/ ApproveAndResume(r) \/ Deny(r)
    BY <1>2, <2>6, SingleAnswered
  <2>7. CASE Environment \/ \E m \in Callers, p \in Perms : BeginCheck(m, p) \/ RunCheck(m, p)
    BY <2>1, <2>7 DEF Environment, RevokePermissions, SwitchBegin, SwitchEnd, SwitchFail,
       DeleteSession, BeginCheck, CheckBegin, RunCheck, CheckFind, CheckDecide
  <2>8. CASE GateRestart
    <3>1. \A m \in Callers : asked'[m] = {} /\ stage'[m] # "waiting"
      BY <2>8 DEF GateRestart
    <3> QED
      BY <3>1 DEF SingleInv
  <2>9. CASE UNCHANGED vars
    BY <2>1, <2>9 DEF vars, managerVars
  <2> QED
    BY <1>2, <2>2, <2>3, <2>4, <2>5, <2>6, <2>7, <2>8, <2>9 DEF Next
<1> QED
  BY <1>1, <1>2

-----------------------------------------------------------------------------
(* The theorems.                                                           *)

LEMMA GateInvInductive ==
  /\ Init => GateInv
  /\ GateInv /\ [Next]_vars => GateInv'
<1>1. ASSUME Init PROVE GateInv
  <2>1. ManagerTypeOK
    BY <1>1, ManagerInitType, ManagerAssumption DEF Init
  <2> QED
    BY <1>1, <2>1
    DEF Init, GateInv, TypeOK, GateTypeOK, Stages, HeldBelongs, AskedBelongs, UnheldApproved,
        ApprovingApproved, RoundsAhead
<1>2. ASSUME GateInv, [Next]_vars PROVE GateInv'
  <2>0. ManagerTypeOK
    BY <1>2 DEF GateInv, TypeOK
  <2>1. ASSUME ManagerTypeOK', UNCHANGED <<reqs, gateVars>> PROVE GateInv'
    <3>1. TypeOK'
      BY <1>2, <2>1 DEF GateInv, TypeOK, GateTypeOK, gateVars
    <3> QED
      BY <1>2, <2>1, <3>1, QuietStep
  <2>2. CASE \E m \in Callers : Receive(m)
    BY <1>2, <2>2, ReceiveStep
  <2>3. CASE \E m \in Callers, p \in Perms : BeginCheck(m, p)
    <3>1. ManagerTypeOK' /\ UNCHANGED <<reqs, gateVars>>
      BY <2>0, <2>3, CheckType DEF BeginCheck, CheckBegin
    <3> QED
      BY <2>1, <3>1
  <2>4. CASE \E m \in Callers, p \in Perms : RunCheck(m, p)
    <3>1. ManagerTypeOK' /\ UNCHANGED <<reqs, gateVars>>
      BY <2>0, <2>4, CheckType DEF RunCheck, CheckFind, CheckDecide
    <3> QED
      BY <2>1, <3>1
  <2>5. CASE \E m \in Callers, p \in Perms : MultiRequest(m, p)
    BY <1>2, <2>5, MultiRequestStep
  <2>6. CASE \E m \in Callers : AskOrGo(m) \/ Execute(m)
    BY <1>2, <2>6, AskOrGoStep, ExecuteStep
  <2>7. CASE \E r \in Reqs : Approve(r) \/ ApproveOnly(r) \/ ApproveAndResume(r) \/ Deny(r)
    BY <1>2, <2>7, ApproveStep, ApproveOnlyStep, ApproveAndResumeStep, DenyStep
  <2>8. CASE Environment
    <3>1. ManagerTypeOK'
      BY <2>0, <2>8, RevokePermissionsType, SessionType, DeleteSessionType DEF Environment
    <3>2. UNCHANGED <<reqs, gateVars>>
      BY <2>8 DEF Environment, RevokePermissions, SwitchBegin, SwitchEnd, SwitchFail, DeleteSession
    <3> QED
      BY <2>1, <3>1, <3>2
  <2>9. CASE GateRestart
    BY <1>2, <2>9, GateRestartStep
  <2>10. CASE UNCHANGED vars
    <3>1. ManagerTypeOK' /\ UNCHANGED <<reqs, gateVars>>
      BY <2>0, <2>10 DEF vars, managerVars, ManagerTypeOK
    <3> QED
      BY <2>1, <3>1
  <2> QED
    BY <1>2, <2>2, <2>3, <2>4, <2>5, <2>6, <2>7, <2>8, <2>9, <2>10 DEF Next
<1> QED
  BY <1>1, <1>2

\* The gate's state stays of its type, whatever messages, users and restarts do.
THEOREM GateTypeCorrect == Spec => []TypeOK
<1>1. GateInv => TypeOK
  BY DEF GateInv
<1> QED
  BY <1>1, GateInvInductive, PTL DEF Spec

\* No message is executed twice on the strength of one round of approvals, in
\* whatever order and however overlapping the approvals are processed.
THEOREM ResumesBounded == Spec => []AtMostOneResumePerRound
<1>1. GateInv => AtMostOneResumePerRound
  <2> SUFFICES ASSUME GateInv, NEW m \in Callers PROVE resumes[m] <= rounds[m]
    BY DEF AtMostOneResumePerRound
  <2>1. resumes[m] + (IF stage[m] = "waiting" THEN 1 ELSE 0) <= rounds[m]
    BY DEF GateInv, RoundsAhead
  <2>2. resumes[m] \in Nat /\ rounds[m] \in Nat
    BY DEF GateInv, TypeOK, GateTypeOK
  <2> QED
    BY <2>1, <2>2
<1> QED
  BY <1>1, GateInvInductive, PTL DEF Spec

\* A message is resumed only when each request of its round has been approved: a
\* denial, a restart or an unanswered sibling each rule it out.
THEOREM ResumedOnlyIfApproved == Spec => ResumeNeedsEveryApproval
<1> DEFINE Step == \A m \in Callers : resumes'[m] # resumes[m]
                     => \A r \in asked[m] : reqs[r].st = "approved"
<1>1. GateInv /\ [Next]_vars => [Step]_vars
  <2> SUFFICES ASSUME GateInv, Next, NEW m \in Callers, resumes'[m] # resumes[m],
                      NEW r \in asked[m]
               PROVE  reqs[r].st = "approved"
    OBVIOUS
  <2>1. PICK last \in Reqs : ApproveAndResume(last)
    BY DEF Next, Receive, BeginCheck, RunCheck, MultiRequest, AskOrGo, Execute, Approve,
           ApproveOnly, Deny, Environment, GateRestart, gateVars
  <2>2. Owner(last) = m
    BY <2>1 DEF ApproveAndResume, GateInv, TypeOK, GateTypeOK
  <2>3. stage[m] = "waiting" /\ asked[m] \cap (held \ {last}) = {}
    BY <2>1, <2>2 DEF ApproveAndResume, GateInv, HeldBelongs
  <2>4. CASE r = last
    BY <2>1, <2>4 DEF ApproveAndResume, GateInv, ApprovingApproved
  <2>5. CASE r # last
    BY <2>3, <2>5 DEF GateInv, UnheldApproved
  <2> QED
    BY <2>4, <2>5
<1> QED
  BY <1>1, GateInvInductive, PTL DEF Spec, ResumeNeedsEveryApproval

\* A message for one skill never waits on dead prompts: an answer that resumes or drops
\* it is always possible, or on its way.
THEOREM WaitingIsOpen == Spec => []WaitingCanBeAnswered
<1>1. GateInv /\ SingleInv => WaitingCanBeAnswered
  BY DEF SingleInv, WaitingCanBeAnswered
<1> QED
  BY <1>1, GateInvInductive, SingleInvInductive, PTL DEF Spec
=============================================================================
