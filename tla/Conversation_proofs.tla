------------------------- MODULE Conversation_proofs ------------------------
(***************************************************************************)
(* The history of a conversation and its folds, the sessions' rows and the *)
(* delivery of their events, for any sets of sessions, messages, runs and  *)
(* connections.                                                            *)
(***************************************************************************)
EXTENDS MCConversation, FiniteSetTheorems, SequenceTheorems, TLAPS

-----------------------------------------------------------------------------
(* The compaction (kernel/compaction.py, kernel/session_store.py): while   *)
(* no fold overlaps another, the only one in flight was begun with the     *)
(* summary as it is; and while session calls come one after the other,     *)
(* what is in memory, or has been read for the call under way, belongs to  *)
(* the active session.                                                     *)

Upto(S, i) == {j \in S : j <= i}

\* The members of a finite set of numbers have their ranks: the k-th is there.
LEMMA Ranked ==
  ASSUME NEW S \in SUBSET Nat, IsFiniteSet(S)
  PROVE  \A k \in 1..Cardinality(S) : \E i \in S : Cardinality(Upto(S, i)) = k
<1> DEFINE n == Cardinality(S)
           rank == [i \in S |-> Cardinality(Upto(S, i))]
<1>1. n \in Nat
  BY FS_CardinalityType
<1>2. ASSUME NEW i \in S
      PROVE  IsFiniteSet(Upto(S, i)) /\ rank[i] \in 1..n
  <2>1. Upto(S, i) \in SUBSET S /\ i \in Upto(S, i)
    BY DEF Upto
  <2>2. IsFiniteSet(Upto(S, i)) /\ Cardinality(Upto(S, i)) <= n
    BY <2>1, FS_Subset
  <2>3. Cardinality(Upto(S, i)) \in Nat /\ Cardinality(Upto(S, i)) # 0
    BY <2>1, <2>2, FS_CardinalityType, FS_EmptySet
  <2> QED BY <1>1, <2>2, <2>3
<1>3. ASSUME NEW i \in S, NEW j \in S, i < j
      PROVE  rank[i] # rank[j]
  <2>1. Upto(S, i) \in SUBSET Upto(S, j) /\ j \in Upto(S, j) /\ j \notin Upto(S, i)
    <3>1. i \in Nat /\ j \in Nat /\ \A k \in S : k \in Nat
      OBVIOUS
    <3>2. \A k \in S : k <= i => k <= j
      BY <1>3, <3>1
    <3>3. ~ j <= i
      BY <1>3, <3>1
    <3>4. Upto(S, i) \subseteq Upto(S, j)
      BY <3>2, Zenon DEF Upto
    <3>5. j \in Upto(S, j) /\ j \notin Upto(S, i)
      BY <3>1, <3>3 DEF Upto
    <3> QED BY <3>4, <3>5
  <2>2. Cardinality(Upto(S, i)) # Cardinality(Upto(S, j))
    BY <1>2, <2>1, FS_Subset
  <2> QED BY <2>2
<1>4. rank \in Injection(S, 1..n)
  <2>1. rank \in [S -> 1..n]
    BY <1>2
  <2>2. IsInjective(rank)
    BY <1>3 DEF IsInjective
  <2> QED BY <2>1, <2>2 DEF Injection
<1>5. IsFiniteSet(1..n) /\ Cardinality(1..n) = n
  BY <1>1, FS_Interval
<1>6. rank \in Surjection(S, 1..n)
  BY <1>4, <1>5, FS_Injection
<1> QED BY <1>6 DEF Surjection

\* The cardinality of the instance is that of the library's theorems.
LEMMA SameCardinality == \A X : C!Cardinality(X) = Cardinality(X)
BY DEF C!Cardinality, Cardinality

\* The k-th member of a set of numbers.
Kth(S, k) == CHOOSE i \in S : C!Cardinality({j \in S : j <= i}) = k

LEMMA KthIn ==
  ASSUME NEW S \in SUBSET Nat, IsFiniteSet(S), NEW k \in 1..Cardinality(S)
  PROVE  Kth(S, k) \in S
<1>1. PICK i \in S : C!Cardinality({j \in S : j <= i}) = k
  BY Ranked, SameCardinality DEF Upto
<1> QED BY <1>1 DEF Kth

\* A member is the one of its rank.
LEMMA KthOfRank ==
  ASSUME NEW S \in SUBSET Nat, IsFiniteSet(S), NEW i \in S
  PROVE  \E k \in 1..Cardinality(S) : Kth(S, k) = i
<1> DEFINE k == Cardinality(Upto(S, i))
<1>1. ASSUME NEW j \in S
      PROVE  IsFiniteSet(Upto(S, j)) /\ Cardinality(Upto(S, j)) \in Nat
  BY FS_Subset, FS_CardinalityType DEF Upto
<1>2. ASSUME NEW j \in S, NEW l \in S, j < l
      PROVE  Cardinality(Upto(S, j)) # Cardinality(Upto(S, l))
  <2>1. j \in Nat /\ l \in Nat /\ \A n \in S : n \in Nat
    OBVIOUS
  <2>2. (\A n \in S : n <= j => n <= l) /\ ~ l <= j /\ l <= l
    BY <1>2, <2>1
  <2>3. Upto(S, j) \in SUBSET Upto(S, l) /\ l \in Upto(S, l) /\ l \notin Upto(S, j)
    BY <2>2, Zenon DEF Upto
  <2>4. Upto(S, j) # Upto(S, l)
    BY <2>3
  <2> QED BY <1>1, <2>3, <2>4, FS_Subset
<1>3. k \in 1..Cardinality(S)
  <2>1. Upto(S, i) \in SUBSET S /\ i \in Upto(S, i)
    BY DEF Upto
  <2>2. Cardinality(Upto(S, i)) <= Cardinality(S) /\ Cardinality(S) \in Nat
    BY <2>1, FS_Subset, FS_CardinalityType
  <2>3. Cardinality(Upto(S, i)) # 0
    BY <1>1, <2>1, FS_EmptySet
  <2> QED BY <1>1, <2>2, <2>3
<1>4. \E j \in S : Cardinality(Upto(S, j)) = k
  OBVIOUS
<1>5. Kth(S, k) \in S /\ Cardinality(Upto(S, Kth(S, k))) = k
  <2>1. \E j \in S : C!Cardinality({n \in S : n <= j}) = k
    BY <1>4, SameCardinality DEF Upto
  <2>2. Kth(S, k) \in S /\ C!Cardinality({n \in S : n <= Kth(S, k)}) = k
    BY <2>1, Zenon DEF Kth
  <2> QED BY <2>2, SameCardinality DEF Upto
<1>6. ~(Kth(S, k) < i) /\ ~(i < Kth(S, k))
  BY <1>2, <1>5
<1>7. Kth(S, k) \in Nat /\ i \in Nat
  BY <1>5
<1> HIDE DEF k
<1>8. Kth(S, k) = i
  BY <1>6, <1>7
<1> QED BY <1>3, <1>8

\* A finite set of numbers that has a member has a largest one.
LEMMA Largest ==
  ASSUME NEW S \in SUBSET Nat, IsFiniteSet(S), S # {}
  PROVE  \E i \in S : \A j \in S : j <= i
<1>1. Cardinality(S) \in Nat /\ Cardinality(S) # 0
  BY FS_CardinalityType, FS_EmptySet
<1>2. PICK i \in S : Cardinality(Upto(S, i)) = Cardinality(S)
  BY <1>1, Ranked
<1>3. Upto(S, i) = S
  BY <1>2, FS_Subset DEF Upto
<1> QED BY <1>3 DEF Upto

\* What is important of some turns are turns.
LEMMA ImportantTurns ==
  ASSUME NEW turns \in Seq(C!Turns)
  PROVE  C!Important(turns) \in Seq(C!Turns)
<1> DEFINE kept == {i \in DOMAIN turns : C!Matters(turns[i])}
<1>1. IsFiniteSet(1..Len(turns)) /\ kept \in SUBSET (1..Len(turns))
  <2>1. Len(turns) \in Nat /\ DOMAIN turns = 1..Len(turns)
    BY LenProperties
  <2> QED BY <2>1, FS_Interval
<1>2. IsFiniteSet(kept) /\ kept \in SUBSET Nat /\ Cardinality(kept) \in Nat
  BY <1>1, FS_Subset, FS_CardinalityType
<1>3. ASSUME NEW k \in 1..Cardinality(kept)
      PROVE  turns[Kth(kept, k)] \in C!Turns
  <2>1. Kth(kept, k) \in kept
    BY <1>2, KthIn
  <2> QED BY <2>1, ElementOfSeq
<1>4. C!Important(turns) = [k \in 1..C!Cardinality(kept) |-> turns[Kth(kept, k)]]
  BY DEF C!Important, Kth
<1> HIDE DEF kept
<1>5. C!Important(turns) \in [1..Cardinality(kept) -> C!Turns]
  BY <1>3, <1>4, SameCardinality
<1> QED BY <1>2, <1>5, SeqDef

\* And those that matter are among them.
LEMMA ImportantAll ==
  ASSUME NEW turns \in Seq(C!Turns), NEW i \in 1..Len(turns), C!Matters(turns[i])
  PROVE  turns[i] \in C!ToSet(C!Important(turns))
<1> DEFINE kept == {j \in DOMAIN turns : C!Matters(turns[j])}
<1>1. IsFiniteSet(1..Len(turns)) /\ kept \in SUBSET (1..Len(turns)) /\ i \in kept
  <2>1. Len(turns) \in Nat /\ DOMAIN turns = 1..Len(turns)
    BY LenProperties
  <2> QED BY <2>1, FS_Interval
<1>2. IsFiniteSet(kept) /\ kept \in SUBSET Nat
  BY <1>1, FS_Subset
<1>3. PICK k \in 1..Cardinality(kept) : Kth(kept, k) = i
  BY <1>1, <1>2, KthOfRank
<1>4. C!Important(turns) = [n \in 1..C!Cardinality(kept) |-> turns[Kth(kept, n)]]
  BY DEF C!Important, Kth
<1> HIDE DEF kept
<1> QED BY <1>3, <1>4, SameCardinality DEF C!ToSet

-----------------------------------------------------------------------------
Records == [session : C!Maybe, summary : SUBSET C!Turns, pending : Seq(C!Turns), cursor : Nat,
            counter : Nat, folding : BOOLEAN]
Created == [folds : Nat, saves : Nat]

CompactionAssumption ==
  /\ NoSession \notin Sessions
  /\ {Window, Batch, Interval, Overflow, Keep, LoadLimit} \subseteq Nat /\ Keep <= Overflow

\* The members of a sequence of turns are turns; those of a concatenation are the members of both.
LEMMA MembersOfSeq ==
  ASSUME NEW p \in Seq(C!Turns)
  PROVE  /\ C!ToSet(p) = {p[i] : i \in 1..Len(p)} /\ Len(p) \in Nat
         /\ C!ToSet(p) \subseteq C!Turns
<1>1. DOMAIN p = 1..Len(p) /\ Len(p) \in Nat /\ \A i \in 1..Len(p) : p[i] \in C!Turns
  BY LenProperties, ElementOfSeq
<1> QED BY <1>1 DEF C!ToSet

LEMMA MembersOfConcat ==
  ASSUME NEW p \in Seq(C!Turns), NEW q \in Seq(C!Turns)
  PROVE  p \o q \in Seq(C!Turns) /\ C!ToSet(p \o q) = C!ToSet(p) \cup C!ToSet(q)
<1>1. /\ p \o q \in Seq(C!Turns) /\ Len(p \o q) = Len(p) + Len(q)
      /\ \A i \in 1..(Len(p) + Len(q)) : (p \o q)[i] = IF i <= Len(p) THEN p[i] ELSE q[i - Len(p)]
  BY ConcatProperties
<1>2. Len(p) \in Nat /\ Len(q) \in Nat
  BY LenProperties
<1>3. ASSUME NEW t \in C!ToSet(p \o q)
      PROVE  t \in C!ToSet(p) \cup C!ToSet(q)
  <2>1. PICK i \in 1..(Len(p) + Len(q)) : t = (p \o q)[i]
    BY <1>1, MembersOfSeq
  <2>2. CASE i <= Len(p)
    <3>1. i \in 1..Len(p) /\ t = p[i]
      BY <1>1, <1>2, <2>1, <2>2
    <3> QED BY <3>1, MembersOfSeq
  <2>3. CASE ~ i <= Len(p)
    <3>1. i - Len(p) \in 1..Len(q) /\ t = q[i - Len(p)]
      BY <1>1, <1>2, <2>1, <2>3
    <3> QED BY <3>1, MembersOfSeq
  <2> QED BY <2>2, <2>3
<1>4. ASSUME NEW t \in C!ToSet(p)
      PROVE  t \in C!ToSet(p \o q)
  <2>1. PICK i \in 1..Len(p) : t = p[i]
    BY MembersOfSeq
  <2>2. i \in 1..Len(p \o q) /\ t = (p \o q)[i]
    BY <1>1, <1>2, <2>1
  <2> QED BY <1>1, <2>2, MembersOfSeq
<1>5. ASSUME NEW t \in C!ToSet(q)
      PROVE  t \in C!ToSet(p \o q)
  <2>1. PICK i \in 1..Len(q) : t = q[i]
    BY MembersOfSeq
  <2>2. i + Len(p) \in 1..Len(p \o q) /\ t = (p \o q)[i + Len(p)]
    BY <1>1, <1>2, <2>1
  <2> QED BY <1>1, <2>2, MembersOfSeq
<1> QED BY <1>1, <1>3, <1>4, <1>5

\* Cutting a sequence in two keeps its members.
LEMMA CutInTwo ==
  ASSUME NEW p \in Seq(C!Turns), NEW n \in 0..Len(p)
  PROVE  /\ SubSeq(p, 1, n) \in Seq(C!Turns) /\ SubSeq(p, n + 1, Len(p)) \in Seq(C!Turns)
         /\ Len(SubSeq(p, 1, n)) = n
         /\ C!ToSet(p) = C!ToSet(SubSeq(p, 1, n)) \cup C!ToSet(SubSeq(p, n + 1, Len(p)))
<1>1. Len(p) \in Nat /\ n \in Int /\ n + 1 \in Int /\ Len(p) \in Int /\ 1 \in Int
  BY LenProperties
<1>2. (\A i \in 1..n : p[i] \in C!Turns) /\ (\A i \in (n + 1)..Len(p) : p[i] \in C!Turns)
  BY <1>1, ElementOfSeq
<1>3. SubSeq(p, 1, n) \in Seq(C!Turns) /\ Len(SubSeq(p, 1, n)) = IF 1 <= n THEN n - 1 + 1 ELSE 0
  BY <1>1, <1>2, SubSeqProperties
<1>4. SubSeq(p, n + 1, Len(p)) \in Seq(C!Turns)
  BY <1>1, <1>2, SubSeqProperties
<1>5. p = SubSeq(p, 1, n) \o SubSeq(p, n + 1, Len(p))
  <2>1. 1 \in 1..(Len(p) + 1) /\ n \in (1 - 1)..Len(p) /\ Len(p) \in n..Len(p)
    BY <1>1
  <2>2. SubSeq(p, 1, n) \o SubSeq(p, n + 1, Len(p)) = SubSeq(p, 1, Len(p))
    BY <2>1, ConcatAdjacentSubSeq
  <2> QED BY <2>2, SubSeqFull
<1>6. C!ToSet(p) = C!ToSet(SubSeq(p, 1, n)) \cup C!ToSet(SubSeq(p, n + 1, Len(p)))
  BY <1>3, <1>4, <1>5, MembersOfConcat
<1> QED BY <1>1, <1>3, <1>4, <1>6

SessionCalls == [pc : {"idle", "begun", "loading", "restoring", "over"},
               kind : {"none", "switch", "create", "fork", "delete"},
               session : C!Maybe, rows : Seq(C!Turns), seen : Nat]

Handlers == [pc : {"idle", "thinking", "denying", "noted", "done"}, session : C!Maybe, pinned : BOOLEAN]

CompactionTypes ==
  /\ table \in [Sessions -> {"new", "live", "gone"}]
  /\ log \in [Sessions -> Seq(C!Turns)]
  /\ archive \in Seq([session : Sessions, summary : SUBSET C!Turns])
  /\ active \in C!Maybe /\ history \in Seq(C!Turns)
  /\ comp \in Records
  /\ folds \subseteq [base : SUBSET C!Turns, batch : Seq(C!Turns)]
  /\ spawned \in Created /\ saving \in Nat
  /\ handler \in [Tasks -> Handlers]
  /\ unsaved \subseteq C!Turns
  /\ call \in [Calls -> SessionCalls]
  /\ \A c \in Calls : call[c].seen <= Len(archive)
  /\ structural \in BOOLEAN /\ since \in Nat /\ since <= comp.cursor /\ cut \subseteq C!Turns
  /\ upset \subseteq {"calls", "folds", "carried"}

\* One compaction: what was in the summary or pending stays, or is cut; what the cursor passes is
\* pending or in the summary from then on; and a fold is asked for only when the summary is left to it.
LEMMA CompactKeeps ==
  ASSUME CompactionAssumption, NEW turns \in Seq(C!Turns), C!Compact(turns),
         comp \in Records, spawned \in Created, cut \subseteq C!Turns, structural \in BOOLEAN,
         since \in Nat, since <= comp.cursor
  PROVE  /\ comp' \in Records /\ spawned' \in Created /\ cut' \subseteq C!Turns
         /\ since' \in Nat /\ since' <= comp'.cursor
         /\ comp'.session = comp.session
         /\ structural => spawned'.folds = spawned.folds
         /\ ~structural => comp'.summary = comp.summary
         /\ comp.summary \cup C!ToSet(comp.pending) \cup cut \subseteq comp'.summary \cup C!ToSet(comp'.pending) \cup cut'
         /\ \A i \in 1..Len(turns) :
              since' < i /\ i <= comp'.cursor /\ C!Matters(turns[i])
              => \/ since < i /\ i <= comp.cursor
                 \/ turns[i] \in comp'.summary \cup C!ToSet(comp'.pending) \cup cut'
         /\ \/ UNCHANGED <<since, comp>>
            \/ since' = comp'.cursor
            \/ comp'.cursor <= Len(turns)
<1> DEFINE boundary == IF Len(turns) > Window THEN Len(turns) - Window ELSE 0
           out == SubSeq(turns, comp.cursor + 1, boundary)
           some == C!Important(out)
           pending == comp.pending \o some
           over == structural /\ Len(pending) > Overflow
           first == IF over THEN SubSeq(pending, 1, Len(pending) - Keep) ELSE <<>>
           fold == ~structural /\ ~comp.folding /\ Len(pending) >= Batch
           counter == comp.counter + Len(out)
<1>1. /\ Len(turns) \in Nat /\ Window \in Nat /\ Keep \in Nat /\ Overflow \in Nat
      /\ Batch \in Nat /\ Interval \in Nat /\ Keep <= Overflow
  BY LenProperties DEF CompactionAssumption
<1>2. boundary \in Nat /\ boundary <= Len(turns)
  BY <1>1
<1>3. /\ comp.cursor \in Nat /\ comp.counter \in Nat /\ comp.pending \in Seq(C!Turns)
      /\ comp.summary \in SUBSET C!Turns /\ comp.folding \in BOOLEAN
      /\ spawned.folds \in Nat /\ spawned.saves \in Nat
  BY DEF Records, Created
<1>4. /\ out \in Seq(C!Turns)
      /\ \A i \in (comp.cursor + 1)..boundary : i - comp.cursor \in 1..Len(out) /\ turns[i] = out[i - comp.cursor]
  <2>1. \A i \in (comp.cursor + 1)..boundary : turns[i] \in C!Turns
    BY <1>1, <1>2, <1>3, ElementOfSeq
  <2>2. /\ out \in Seq(C!Turns)
        /\ Len(out) = IF comp.cursor + 1 <= boundary THEN boundary - (comp.cursor + 1) + 1 ELSE 0
        /\ \A i \in 1..(boundary - (comp.cursor + 1) + 1) : out[i] = turns[comp.cursor + 1 + i - 1]
    <3>1. comp.cursor + 1 \in Int /\ boundary \in Int
      BY <1>2, <1>3
    <3> HIDE DEF boundary
    <3> QED BY <2>1, <3>1, SubSeqProperties
  <2> HIDE DEF out, boundary
  <2>3. ASSUME NEW i \in (comp.cursor + 1)..boundary
        PROVE  i - comp.cursor \in 1..Len(out) /\ turns[i] = out[i - comp.cursor]
    <3>1. i - comp.cursor \in 1..(boundary - (comp.cursor + 1) + 1) /\ comp.cursor + 1 <= boundary
      BY <1>2, <1>3
    <3>2. comp.cursor + 1 + (i - comp.cursor) - 1 = i
      BY <1>2, <1>3
    <3> QED BY <1>2, <1>3, <2>2, <3>1, <3>2
  <2> QED BY <2>2, <2>3
<1>5. Len(out) \in Nat /\ some \in Seq(C!Turns)
  BY <1>4, LenProperties, ImportantTurns
<1>6. pending \in Seq(C!Turns) /\ C!ToSet(pending) = C!ToSet(comp.pending) \cup C!ToSet(some)
  BY <1>3, <1>5, MembersOfConcat
<1>7. Len(pending) \in Nat /\ C!ToSet(pending) \subseteq C!Turns /\ C!ToSet(some) \subseteq C!Turns
  BY <1>5, <1>6, MembersOfSeq
<1>8. /\ first \in Seq(C!Turns) /\ SubSeq(pending, Len(first) + 1, Len(pending)) \in Seq(C!Turns)
      /\ C!ToSet(pending) = C!ToSet(first) \cup C!ToSet(SubSeq(pending, Len(first) + 1, Len(pending)))
      /\ ~structural => C!ToSet(first) = {}
      /\ C!ToSet(first) \subseteq C!Turns
  <2>1. CASE over
    <3>1. Len(pending) - Keep \in 0..Len(pending)
      <4>1. Len(pending) > Overflow
        BY <2>1
      <4> HIDE DEF pending
      <4> QED BY <1>1, <1>7, <4>1
    <3>2. first = SubSeq(pending, 1, Len(pending) - Keep)
      BY <2>1
    <3> HIDE DEF first, pending
    <3> QED BY <1>6, <2>1, <3>1, <3>2, CutInTwo, MembersOfSeq
  <2>2. CASE ~over
    <3>1. first = <<>>
      BY <2>2
    <3> HIDE DEF first, pending
    <3>2. C!ToSet(first) = {} /\ Len(first) = 0 /\ first \in Seq(C!Turns)
      BY <3>1 DEF C!ToSet
    <3>3. SubSeq(pending, 1, Len(pending)) = pending
      BY <1>6, SubSeqFull
    <3>4. Len(first) + 1 = 1
      BY <3>2
    <3> QED BY <1>6, <3>2, <3>3, <3>4
  <2> QED BY <2>1, <2>2
<1> HIDE DEF boundary, out, some, pending, over, first, counter, fold
<1>9. CASE comp.cursor = 0 /\ boundary > 0
  <2>1. comp' = [comp EXCEPT !.cursor = boundary] /\ since' = boundary /\ UNCHANGED <<spawned, cut>>
    BY <1>9 DEF C!Compact, boundary
  <2>2. comp' \in Records /\ comp'.cursor = boundary /\ comp'.session = comp.session
        /\ comp'.summary = comp.summary /\ comp'.pending = comp.pending
    BY <1>2, <2>1 DEF Records
  <2>3. \A i \in 1..Len(turns) : ~(since' < i /\ i <= comp'.cursor)
    BY <1>1, <1>2, <2>1, <2>2
  <2> QED BY <1>2, <2>1, <2>2, <2>3
<1>10. CASE comp.cursor > 0 /\ boundary > comp.cursor
  <2>1. PICK kept \in IF over THEN SUBSET (comp.summary \cup C!ToSet(first)) ELSE {comp.summary} :
          /\ comp' = [comp EXCEPT !.cursor = boundary, !.counter = counter, !.summary = kept,
                                  !.pending = SubSeq(pending, Len(first) + 1, Len(pending))]
          /\ cut' = cut \cup ((comp.summary \cup C!ToSet(first)) \ kept)
          /\ spawned' = [folds |-> spawned.folds + IF fold THEN 1 ELSE 0,
                         saves |-> spawned.saves + IF counter >= Interval THEN 1 ELSE 0]
          /\ UNCHANGED since
    <3> DEFINE advanced ==
                 /\ \E kept \in IF over THEN SUBSET (comp.summary \cup C!ToSet(first)) ELSE {comp.summary} :
                      /\ comp' = [comp EXCEPT !.cursor = boundary, !.counter = counter, !.summary = kept,
                                              !.pending = SubSeq(pending, Len(first) + 1, Len(pending))]
                      /\ cut' = cut \cup ((comp.summary \cup C!ToSet(first)) \ kept)
                 /\ spawned' = [folds |-> spawned.folds + IF fold THEN 1 ELSE 0,
                                saves |-> spawned.saves + IF counter >= Interval THEN 1 ELSE 0]
                 /\ UNCHANGED since
               began == comp' = [comp EXCEPT !.cursor = boundary] /\ since' = boundary /\ UNCHANGED <<spawned, cut>>
    <3>1. (CASE comp.cursor = 0 /\ boundary > 0 -> began
             [] comp.cursor > 0 /\ boundary > comp.cursor -> advanced
             [] OTHER -> UNCHANGED <<comp, spawned, since, cut>>)
      BY Zenon DEF C!Compact, boundary, out, some, pending, over, first, counter, fold
    <3>2. comp.cursor # 0
      BY <1>3, <1>10
    <3> HIDE DEF advanced, began
    <3>3. advanced
      BY <1>10, <3>1, <3>2
    <3> QED BY <3>3, Zenon DEF advanced
  <2>2. counter \in Nat
    BY <1>3, <1>5 DEF counter
  <2>0. /\ kept \subseteq comp.summary \cup C!ToSet(first) /\ kept \subseteq C!Turns
        /\ comp.summary \cup C!ToSet(first) \subseteq kept \cup cut' /\ cut \subseteq cut' /\ cut' \subseteq C!Turns
        /\ ~structural => kept = comp.summary
    BY <1>3, <1>8, <2>1 DEF over
  <2>3. comp' \in Records /\ comp'.session = comp.session /\ comp'.cursor = boundary
    BY <1>2, <1>3, <1>8, <2>0, <2>1, <2>2 DEF Records
  <2>4. /\ comp'.summary = kept
        /\ comp'.pending = SubSeq(pending, Len(first) + 1, Len(pending))
    BY <2>1 DEF Records
  <2>5. spawned' \in Created /\ (structural => spawned'.folds = spawned.folds)
    BY <1>3, <2>1 DEF Created, fold
  <2>6. C!ToSet(pending) \subseteq comp'.summary \cup C!ToSet(comp'.pending) \cup cut'
    BY <1>8, <2>0, <2>4
  <2>7. ASSUME NEW i \in 1..Len(turns), since' < i, i <= comp'.cursor, C!Matters(turns[i]),
               ~(since < i /\ i <= comp.cursor)
        PROVE  turns[i] \in comp'.summary \cup C!ToSet(comp'.pending) \cup cut'
    <3>1. i \in (comp.cursor + 1)..boundary
      BY <1>1, <1>2, <1>3, <2>1, <2>3, <2>7
    <3>2. i - comp.cursor \in 1..Len(out) /\ turns[i] = out[i - comp.cursor]
      BY <1>4, <3>1
    <3>3. turns[i] \in C!ToSet(some)
      BY <1>4, <2>7, <3>2, ImportantAll DEF some
    <3> QED BY <1>6, <2>6, <3>3
  <2>8. comp.summary \cup C!ToSet(comp.pending) \cup cut \subseteq comp'.summary \cup C!ToSet(comp'.pending) \cup cut'
    BY <1>6, <2>0, <2>4, <2>6
  <2>9. since' \in Nat /\ since' <= comp'.cursor /\ comp'.cursor <= Len(turns)
    BY <1>1, <1>2, <1>3, <1>10, <2>1, <2>3
  <2> QED BY <2>0, <2>3, <2>4, <2>5, <2>7, <2>8, <2>9
<1>11. CASE ~(comp.cursor = 0 /\ boundary > 0) /\ ~(comp.cursor > 0 /\ boundary > comp.cursor)
  <2>1. UNCHANGED <<comp, spawned, since, cut>>
    BY <1>11 DEF C!Compact, boundary
  <2> QED BY <2>1
<1> QED BY <1>9, <1>10, <1>11

LEMMA LoadableTurns ==
  ASSUME CompactionAssumption, log \in [Sessions -> Seq(C!Turns)], NEW s \in C!Maybe,
         NEW r \in C!Loadable(s)
  PROVE  /\ r \in Seq(C!Turns)
         /\ s = NoSession => r = <<>>
         /\ s # NoSession => \A i \in DOMAIN r : \E j \in DOMAIN log[s] : r[i] = log[s][j]
<1>1. CASE s = NoSession
  BY <1>1 DEF C!Loadable
<1>2. CASE s # NoSession
  <2>1. log[s] \in Seq(C!Turns)
    BY <1>2 DEF C!Maybe
  <2>2. PICK k \in 0..Len(log[s]) : r = SubSeq(log[s], 1, k)
    BY <1>2 DEF C!Loadable
  <2>3. Len(log[s]) \in Nat /\ DOMAIN log[s] = 1..Len(log[s])
    BY <2>1, LenProperties
  <2>4. \A i \in 1..k : log[s][i] \in C!Turns
    BY <2>1, <2>3, ElementOfSeq
  <2>5. /\ r \in Seq(C!Turns) /\ Len(r) = IF 1 <= k THEN k - 1 + 1 ELSE 0
        /\ \A i \in 1..(k - 1 + 1) : r[i] = log[s][1 + i - 1]
    BY <2>2, <2>3, <2>4, SubSeqProperties
  <2>6. DOMAIN r = 1..k
    BY <2>3, <2>5, LenProperties
  <2>7. \A i \in 1..k : r[i] = log[s][i] /\ i \in DOMAIN log[s]
    BY <2>3, <2>5
  <2> QED BY <1>2, <2>5, <2>6, <2>7
<1> QED BY <1>1, <1>2

\* The checkpoints of a session are sets of turns, and so is the latest.
LEMMA LatestTurns ==
  ASSUME archive \in Seq([session : Sessions, summary : SUBSET C!Turns]), NEW s \in C!Maybe,
         NEW n \in Nat, n <= Len(archive)
  PROVE  C!Latest(s, n) \in SUBSET C!Turns /\ C!Checkpoints(s, n) \subseteq SUBSET C!Turns
<1> DEFINE of == {j \in 1..n : archive[j].session = s}
<1>1. Len(archive) \in Nat
  BY LenProperties
<1>2. \A i \in 1..n : archive[i].summary \in SUBSET C!Turns
  <2> TAKE i \in 1..n
  <2>1. archive[i] \in [session : Sessions, summary : SUBSET C!Turns]
    <3>1. i \in 1..Len(archive)
      BY <1>1
    <3> QED BY <3>1, ElementOfSeq
  <2> QED BY <2>1
<1>3. C!Checkpoints(s, n) \subseteq SUBSET C!Turns
  BY <1>2 DEF C!Checkpoints
<1>4. CASE of = {}
  BY <1>3, <1>4 DEF C!Latest, C!Checkpoints
<1>5. CASE of # {}
  <2>1. IsFiniteSet(of) /\ of \in SUBSET Nat
    <3>1. IsFiniteSet(1..n) /\ of \in SUBSET (1..n)
      BY FS_Interval
    <3> QED BY <3>1, FS_Subset
  <2>2. PICK i \in of : \A j \in of : j <= i
    BY <1>5, <2>1, Largest
  <2>3. i \in 1..n /\ archive[i].session = s /\ \A j \in 1..n : archive[j].session = s => j <= i
    BY <2>2
  <2> DEFINE last == CHOOSE k \in 1..n : /\ archive[k].session = s
                                         /\ \A j \in 1..n : archive[j].session = s => j <= k
  <2>4. last \in 1..n
    BY <2>3
  <2>5. C!Checkpoints(s, n) # {}
    BY <2>3 DEF C!Checkpoints
  <2>6. C!Latest(s, n) = archive[last].summary
    BY <2>5 DEF C!Latest
  <2> HIDE DEF last
  <2> QED BY <1>2, <1>3, <2>4, <2>6
<1> QED BY <1>4, <1>5

\* A reset clears what is pending; a fold on its way is not told.
LEMMA ResetKeeps ==
  ASSUME comp \in Records, upset \subseteq {"calls", "folds", "carried"},
         NEW s \in C!Maybe, NEW merged \in SUBSET C!Turns, C!Reset(s, merged)
  PROVE  /\ comp' \in Records /\ comp'.session = s
         /\ since' = comp'.cursor /\ since' \in Nat /\ cut' = {} /\ UNCHANGED <<folds, spawned, saving>>
         /\ upset \subseteq upset' /\ upset' \subseteq upset \cup {"carried"}
         /\ "carried" \notin upset' => folds = {} /\ spawned.folds = 0
<1>1. comp' = [comp EXCEPT !.session = s, !.summary = merged, !.pending = <<>>, !.counter = 0,
                           !.folding = FALSE]
  BY DEF C!Reset
<1>2. <<>> \in Seq(C!Turns)
  BY EmptySeq
<1>3. comp' \in Records /\ comp'.session = s /\ comp'.cursor = comp.cursor /\ comp.cursor \in Nat
  BY <1>1, <1>2 DEF Records
<1>4. since' = comp.cursor
  BY DEF C!Reset
<1> QED BY <1>3, <1>4 DEF C!Reset

\* One task fewer is created and not begun.
LEMMA OneFewer ==
  ASSUME NEW some \in Created, NEW k \in {"folds", "saves"}, some[k] > 0
  PROVE  [some EXCEPT ![k] = @ - 1] \in Created
<1>1. some.folds \in Nat /\ some.saves \in Nat
  BY DEF Created
<1>2. CASE k = "folds"
  BY <1>1, <1>2 DEF Created
<1>3. CASE k = "saves"
  BY <1>1, <1>3 DEF Created
<1> QED BY <1>2, <1>3

LEMMA TypesStep ==
  ASSUME CompactionAssumption, CompactionTypes, [C!Next]_C!compactionVars
  PROVE  CompactionTypes'
<1> USE DEF CompactionTypes, C!manager
<1>0. /\ comp.summary \in SUBSET C!Turns /\ comp.pending \in Seq(C!Turns) /\ comp.session \in C!Maybe
      /\ spawned.folds \in Nat /\ spawned.saves \in Nat /\ saving \in Nat
      /\ \A c \in Calls : /\ call[c].session \in C!Maybe /\ call[c].seen \in Nat /\ call[c].rows \in Seq(C!Turns)
                           /\ call[c].seen <= Len(archive)
  BY DEF Records, Created, SessionCalls
<1>1. C!FoldBegin => CompactionTypes'
  <2>1. SUFFICES ASSUME C!FoldBegin
                 PROVE  CompactionTypes'
    OBVIOUS
  <2>2. spawned' \in Created
    <3>1. spawned' = [spawned EXCEPT !["folds"] = @ - 1] /\ spawned["folds"] > 0 /\ spawned \in Created
      BY <2>1 DEF C!FoldBegin
    <3> HIDE DEF CompactionTypes
    <3> QED BY <3>1, OneFewer
  <2>3. /\ comp' \in Records /\ comp'.cursor = comp.cursor
        /\ folds' \subseteq [base : SUBSET C!Turns, batch : Seq(C!Turns)]
    <3>1. CASE comp.pending = <<>>
      BY <2>1, <3>1 DEF C!FoldBegin
    <3>2. CASE comp.pending # <<>>
      <4>1. /\ folds' = folds \cup {[base |-> comp.summary, batch |-> comp.pending]}
            /\ comp' = [comp EXCEPT !.pending = <<>>, !.folding = TRUE]
        BY <2>1, <3>2 DEF C!FoldBegin
      <4>2. <<>> \in Seq(C!Turns)
        BY EmptySeq
      <4>3. comp' \in Records /\ comp'.cursor = comp.cursor
        BY <4>1, <4>2 DEF Records
      <4> QED BY <1>0, <4>1, <4>3
    <3> QED BY <3>1, <3>2
  <2> QED BY <2>1, <2>2, <2>3 DEF C!FoldBegin
<1>2. C!SaveBegin => CompactionTypes'
  <2>1. SUFFICES ASSUME C!SaveBegin
                 PROVE  CompactionTypes'
    OBVIOUS
  <2>2. spawned' \in Created
    <3>1. spawned' = [spawned EXCEPT !["saves"] = @ - 1] /\ spawned["saves"] > 0 /\ spawned \in Created
      BY <2>1 DEF C!SaveBegin
    <3> HIDE DEF CompactionTypes
    <3> QED BY <3>1, OneFewer
  <2>3. /\ archive' \in Seq([session : Sessions, summary : SUBSET C!Turns]) /\ saving' \in Nat
        /\ Len(archive') >= Len(archive) /\ Len(archive) \in Nat /\ Len(archive') \in Nat
    <3>1. Len(archive) \in Nat
      BY LenProperties
    <3>2. CASE comp.session = NoSession \/ comp.summary = {}
      BY <2>1, <3>1, <3>2 DEF C!SaveBegin
    <3>3. CASE ~(comp.session = NoSession \/ comp.summary = {})
      <4> DEFINE entry == [session |-> comp.session, summary |-> comp.summary]
      <4>1. entry \in [session : Sessions, summary : SUBSET C!Turns]
        BY <3>3 DEF Records, C!Maybe
      <4>2. archive' = Append(archive, entry) /\ saving' = saving + 1
        BY <2>1, <3>3 DEF C!SaveBegin
      <4> HIDE DEF entry
      <4> QED BY <3>1, <4>1, <4>2, AppendProperties
    <3> QED BY <3>2, <3>3
  <2>4. /\ UNCHANGED <<table, log, active, history, comp, folds, handler, unsaved, call, structural,
                       since, cut, upset>>
    BY <2>1 DEF C!SaveBegin
  <2>5. \A c \in Calls : call'[c].seen <= Len(archive')
    BY <1>0, <2>3, <2>4
  <2> QED BY <2>2, <2>3, <2>4, <2>5
<1>3. C!SaveEnd => CompactionTypes'
  <2>1. ASSUME C!SaveEnd
        PROVE  comp' \in Records /\ comp'.cursor = comp.cursor /\ saving' \in Nat
    <3>1. saving' = saving - 1 /\ saving > 0 /\ comp' = [comp EXCEPT !.counter = 0] /\ comp \in Records
      BY <2>1 DEF C!SaveEnd
    <3> HIDE DEF CompactionTypes
    <3>2. saving' \in Nat
      BY <1>0, <3>1
    <3> QED BY <3>1, <3>2 DEF Records
  <2> QED BY <2>1 DEF C!SaveEnd
<1>4. ASSUME NEW f \in folds, C!FoldEnd(f)
      PROVE  CompactionTypes'
  <2>1. f.base \in SUBSET C!Turns /\ f.batch \in Seq(C!Turns) /\ comp.pending \in Seq(C!Turns)
    BY DEF Records
  <2>2. C!ToSet(f.batch) \subseteq C!Turns /\ f.batch \o comp.pending \in Seq(C!Turns)
    BY <2>1, MembersOfSeq, MembersOfConcat
  <2>3. CASE C!FoldMerge(f)
    <3>1. f.base \cup C!ToSet(f.batch) \in SUBSET C!Turns
      BY <2>1, <2>2
    <3> HIDE DEF CompactionTypes
    <3>2. comp \in Records
      BY DEF CompactionTypes
    <3>3. comp' \in Records /\ comp'.cursor = comp.cursor
      BY <2>3, <3>1, <3>2 DEF C!FoldMerge, Records
    <3> QED BY <1>4, <3>3 DEF C!FoldEnd, CompactionTypes
  <2>4. CASE C!FoldFail(f)
    <3>1. comp' \in Records /\ comp'.cursor = comp.cursor
      BY <2>2, <2>4 DEF C!FoldFail, Records
    <3> QED BY <1>4, <3>1 DEF C!FoldEnd
  <2> QED BY <1>4, <2>3, <2>4 DEF C!FoldEnd
<1>5. ASSUME NEW m \in Tasks, NEW s \in Sessions, NEW pinned \in BOOLEAN, C!Begin(m, s, pinned)
      PROVE  CompactionTypes'
  <2>1. [pc |-> "thinking", session |-> s, pinned |-> pinned] \in Handlers
    BY DEF Handlers, C!Maybe
  <2>2. handler' \in [Tasks -> Handlers]
    BY <1>5, <2>1 DEF C!Begin
  <2>3. unsaved' \subseteq C!Turns
    BY <1>5 DEF C!Begin, C!Turns
  <2> QED BY <1>5, <2>2, <2>3 DEF C!Begin
<1>6. ASSUME NEW turns \in Seq(C!Turns), C!Compact(turns)
      PROVE  /\ comp' \in Records /\ spawned' \in Created /\ cut' \subseteq C!Turns
             /\ since' \in Nat /\ since' <= comp'.cursor
  BY <1>6, CompactKeeps
<1>17. ASSUME NEW m \in Tasks, NEW pc \in {"denying", "noted", "done"},
              handler' = [handler EXCEPT ![m].pc = pc]
       PROVE  handler' \in [Tasks -> Handlers]
  <2>1. handler \in [Tasks -> Handlers]
    OBVIOUS
  <2> HIDE DEF CompactionTypes
  <2>2. [handler[m] EXCEPT !.pc = pc] \in Handlers
    BY <2>1 DEF Handlers
  <2> QED BY <1>17, <2>1, <2>2
<1>18. ASSUME NEW s \in C!Maybe, NEW t \in C!Turns
       PROVE  C!Logged(s, t) \in [Sessions -> Seq(C!Turns)]
  <2>1. \A r \in Sessions : Append(log[r], t) \in Seq(C!Turns)
    BY AppendProperties
  <2> QED BY <2>1 DEF C!Logged, C!Maybe
<1>19. ASSUME NEW m \in Tasks, C!Answer(m)
       PROVE  CompactionTypes'
  <2> DEFINE turn == [by |-> m, role |-> "assistant"]
  <2>1. turn \in C!Turns
    BY DEF C!Turns
  <2>2. handler' \in [Tasks -> Handlers] /\ unsaved' \subseteq unsaved \cup {turn}
    BY <1>17, <1>19 DEF C!Answer
  <2>3. /\ history' \in Seq(C!Turns) /\ comp' \in Records /\ spawned' \in Created
        /\ cut' \subseteq C!Turns /\ since' \in Nat /\ since' <= comp'.cursor
    <3>1. CASE C!Joins(m)
      <4>1. /\ history' = Append(history, turn)
            /\ C!Compact(history') \/ UNCHANGED <<comp, spawned, since, cut>>
        BY <1>19, <3>1 DEF C!Answer
      <4>2. history' \in Seq(C!Turns)
        BY <2>1, <4>1, AppendProperties
      <4>3. CASE C!Compact(history')
        BY <1>6, <4>2, <4>3
      <4>4. CASE UNCHANGED <<comp, spawned, since, cut>>
        BY <4>2, <4>4
      <4> QED BY <4>1, <4>3, <4>4
    <3>2. CASE ~C!Joins(m)
      BY <1>19, <3>2 DEF C!Answer
    <3> QED BY <3>1, <3>2
  <2>4. UNCHANGED <<table, log, archive, active, folds, saving, call, structural, upset>>
    BY <1>19 DEF C!Answer
  <2> QED BY <2>1, <2>2, <2>3, <2>4
<1>20. ASSUME NEW m \in Tasks, NEW pc \in {"denying", "noted"}, NEW joins \in BOOLEAN,
              C!Note(m, pc, joins)
       PROVE  CompactionTypes'
  <2> DEFINE turn == [by |-> m, role |-> "note"]
  <2>1. turn \in C!Turns
    BY DEF C!Turns
  <2>2. /\ handler' \in [Tasks -> Handlers]
        /\ history' \in {history, Append(history, turn)} /\ log' = C!Logged(active, turn)
        /\ UNCHANGED <<table, archive, active, C!manager, unsaved, call, structural, upset>>
    BY <1>17, <1>20 DEF C!Note
  <2>3. history' \in Seq(C!Turns)
    <3> HIDE DEF turn
    <3>1. Append(history, turn) \in Seq(C!Turns)
      BY <2>1, AppendProperties
    <3> QED BY <2>2, <3>1
  <2>4. log' \in [Sessions -> Seq(C!Turns)]
    BY <1>18, <2>1, <2>2
  <2> QED BY <2>2, <2>3, <2>4
<1>21. ASSUME NEW m \in Tasks, C!DenyEnd(m)
       PROVE  CompactionTypes'
  <2>1. handler' \in [Tasks -> Handlers]
    BY <1>17, <1>21 DEF C!DenyEnd
  <2>2. /\ comp' \in Records /\ spawned' \in Created /\ cut' \subseteq C!Turns
        /\ since' \in Nat /\ since' <= comp'.cursor
    BY <1>6, <1>21 DEF C!DenyEnd
  <2> QED BY <1>21, <2>1, <2>2 DEF C!DenyEnd
<1>7. ASSUME NEW t \in unsaved, C!Persist(t)
      PROVE  CompactionTypes'
  <2>1. t \in C!Turns /\ unsaved' \subseteq C!Turns
    BY <1>7 DEF C!Persist
  <2>2. C!Home(t) \in C!Maybe
    BY <2>1 DEF C!Home, Handlers, C!Turns
  <2>3. log' \in [Sessions -> Seq(C!Turns)]
    BY <1>7, <1>18, <2>1, <2>2 DEF C!Persist
  <2> QED BY <1>7, <2>1, <2>3 DEF C!Persist
<1>8. ASSUME NEW c \in Calls, NEW kind \in {"switch", "create", "fork", "delete"}, NEW s \in C!Maybe,
             C!CallBegin(c, kind, s)
      PROVE  CompactionTypes'
  <2>1. table' \in [Sessions -> {"new", "live", "gone"}] /\ upset' \subseteq {"calls", "folds", "carried"}
    BY <1>8 DEF C!CallBegin
  <2>2. [C!Idle EXCEPT !.pc = "begun", !.kind = kind, !.session = s] \in SessionCalls
    BY EmptySeq DEF C!Idle, SessionCalls
  <2>3. call' \in [Calls -> SessionCalls] /\ \A d \in Calls : call'[d].seen = 0 \/ call'[d] = call[d]
    BY <1>8, <2>2 DEF C!CallBegin, SessionCalls, C!Idle
  <2>4. Len(archive) \in Nat
    BY LenProperties
  <2>5. UNCHANGED <<log, archive, active, history, C!manager, handler, unsaved, structural>>
    BY <1>8 DEF C!CallBegin
  <2>6. \A d \in Calls : call'[d].seen <= Len(archive')
    BY <2>3, <2>4, <2>5
  <2> QED BY <2>1, <2>3, <2>5, <2>6 DEF SessionCalls
<1>9. ASSUME NEW c \in Calls, C!SwitchFound(c)
      PROVE  CompactionTypes'
  <2>1. call[c].session \in C!Maybe
    BY <1>0
  <2>2. PICK r \in C!Loadable(call[c].session) : call' = [call EXCEPT ![c].pc = "loading", ![c].rows = r]
    BY <1>9 DEF C!SwitchFound
  <2>3. r \in Seq(C!Turns)
    BY <2>1, LoadableTurns
  <2>4. call' \in [Calls -> SessionCalls] /\ \A d \in Calls : call'[d].seen = call[d].seen
    <3>1. [call[c] EXCEPT !.pc = "loading", !.rows = r] \in SessionCalls
      BY <2>2, <2>3 DEF SessionCalls
    <3>2. call' \in [Calls -> SessionCalls]
      BY <2>2, <2>3, <3>1
    <3>3. call'[c].seen = call[c].seen /\ \A d \in Calls : d # c => call'[d] = call[d]
      BY <2>2, <2>3 DEF SessionCalls
    <3> QED BY <3>2, <3>3
  <2> QED BY <1>0, <1>9, <2>1, <2>4 DEF C!SwitchFound
<1>10. ASSUME NEW c \in Calls, C!ForkFound(c)
      PROVE  CompactionTypes'
  <2>1. PICK r \in C!Loadable(active) : call' = [call EXCEPT ![c].pc = "loading", ![c].rows = r]
    BY <1>10 DEF C!ForkFound
  <2>2. r \in Seq(C!Turns)
    BY LoadableTurns
  <2>3. call' \in [Calls -> SessionCalls] /\ \A d \in Calls : call'[d].seen = call[d].seen
    <3>1. [call[c] EXCEPT !.pc = "loading", !.rows = r] \in SessionCalls
      BY <2>1, <2>2 DEF SessionCalls
    <3>2. call' \in [Calls -> SessionCalls]
      BY <2>1, <2>2, <3>1
    <3>3. call'[c].seen = call[c].seen /\ \A d \in Calls : d # c => call'[d] = call[d]
      BY <2>1, <2>2 DEF SessionCalls
    <3> QED BY <3>2, <3>3
  <2> QED BY <1>0, <1>10, <2>3 DEF C!ForkFound
<1>11. ASSUME NEW c \in Calls, C!Load(c)
      PROVE  CompactionTypes'
  <2>1. Len(archive) \in Nat
    BY LenProperties
  <2>2. call' \in [Calls -> SessionCalls] /\ \A d \in Calls : call'[d].seen <= Len(archive)
    <3>1. call' = [call EXCEPT ![c].pc = "restoring", ![c].seen = Len(archive)] /\ call \in [Calls -> SessionCalls]
      BY <1>11 DEF C!Load
    <3> HIDE DEF CompactionTypes
    <3>2. [call[c] EXCEPT !.pc = "restoring", !.seen = Len(archive)] \in SessionCalls
      BY <2>1, <3>1 DEF SessionCalls
    <3>3. call' \in [Calls -> SessionCalls]
      BY <3>1, <3>2
    <3>4. call'[c].seen = Len(archive) /\ \A d \in Calls : d # c => call'[d] = call[d]
      BY <3>1 DEF SessionCalls
    <3> QED BY <1>0, <2>1, <3>3, <3>4
  <2>3. since' = comp.cursor /\ comp.cursor \in Nat
    BY <1>11 DEF C!Load, Records
  <2> QED BY <1>0, <1>11, <2>2, <2>3 DEF C!Load
<1>12. ASSUME NEW c \in Calls, C!Over(c)
      PROVE  /\ call' \in [Calls -> SessionCalls]
             /\ \A d \in Calls : call'[d].seen <= Len(archive)
  <2>1. Len(archive) \in Nat /\ [C!Idle EXCEPT !.pc = "over"] \in SessionCalls
    BY LenProperties, EmptySeq DEF C!Idle, SessionCalls, C!Maybe
  <2> QED BY <1>12, <2>1 DEF C!Over, C!Idle, SessionCalls
<1>13. ASSUME NEW c \in Calls, C!Restore(c)
      PROVE  CompactionTypes'
  <2>1. call[c].seen \in Nat /\ call[c].seen <= Len(archive) /\ call[c].session \in C!Maybe
    BY <1>0
  <2>2. PICK s \in C!Maybe, merged \in SUBSET C!Turns : C!Reset(s, merged)
    BY <1>13, <2>1, LatestTurns DEF C!Restore
  <2>3. comp' \in Records /\ since' \in Nat /\ since' = comp'.cursor /\ cut' \subseteq C!Turns /\ upset' \subseteq {"calls", "folds", "carried"}
        /\ UNCHANGED <<folds, spawned, saving>>
    BY <2>2, ResetKeeps
  <2> QED BY <1>12, <1>13, <2>3 DEF C!Restore, SessionCalls
<1>14. ASSUME NEW c \in Calls, C!Create(c)
      PROVE  CompactionTypes'
  <2>1. call[c].session \in C!Maybe
    BY <1>0
  <2>2. comp' \in Records /\ since' \in Nat /\ since' = comp'.cursor /\ cut' \subseteq C!Turns /\ upset' \subseteq {"calls", "folds", "carried"}
        /\ UNCHANGED <<folds, spawned, saving>>
    <3>1. C!Reset(call[c].session, {})
      BY <1>14 DEF C!Create
    <3>2. {} \in SUBSET C!Turns /\ {} \subseteq C!Turns
      OBVIOUS
    <3> QED BY <2>1, <3>1, <3>2, ResetKeeps
  <2>3. history' \in Seq(C!Turns) /\ active' \in C!Maybe
    BY <1>14, <2>1, EmptySeq DEF C!Create
  <2> QED BY <1>12, <1>14, <2>2, <2>3 DEF C!Create, SessionCalls
<1>15. ASSUME NEW c \in Calls, C!Clear(c)
      PROVE  CompactionTypes'
  <2>1. history' \in Seq(C!Turns) /\ active' \in C!Maybe /\ since' \in Nat /\ since' <= comp'.cursor
    <3>1. comp.cursor \in Nat /\ comp' = comp /\ since \in Nat /\ since <= comp.cursor
      BY <1>15 DEF C!Clear, Records
    <3>2. <<>> \in Seq(C!Turns)
      BY EmptySeq
    <3>3. CASE active = call[c].session
      BY <1>15, <3>1, <3>2, <3>3 DEF C!Clear, C!Maybe
    <3>4. CASE active # call[c].session
      BY <1>15, <3>1, <3>4 DEF C!Clear
    <3> QED BY <3>3, <3>4
  <2> QED BY <1>12, <1>15, <2>1 DEF C!Clear, SessionCalls
<1>16. UNCHANGED C!compactionVars => CompactionTypes'
  BY DEF C!compactionVars
<1> QED BY <1>1, <1>2, <1>3, <1>4, <1>5, <1>7, <1>8, <1>9, <1>10, <1>11, <1>13, <1>14, <1>15,
           <1>16, <1>19, <1>20, <1>21 DEF C!Next, C!Kill, C!Deny, C!TimeOut

-----------------------------------------------------------------------------
\* As long as no fold overlaps another or outlives its session, there is at most one, its base is
\* the summary, and what the cursor has passed since folding began is remembered.
Folded == \A i \in 1..Len(history) :
            since < i /\ i <= comp.cursor /\ C!Matters(history[i]) => history[i] \in C!Remembered

OneFold ==
  /\ \A f \in folds : f.base = comp.summary
  /\ \A f, g \in folds : f = g
  /\ Folded

\* The cursor is within the history unless nothing has been folded from it.
FoldInv ==
  /\ structural => folds = {} /\ spawned.folds = 0
  /\ since = comp.cursor \/ comp.cursor <= Len(history)
  /\ upset \cap {"folds", "carried"} = {} => OneFold

\* What was remembered is, and the history and its cursor have not moved.
LEMMA FoldedKept ==
  ASSUME Folded, UNCHANGED <<history, since>>, comp'.cursor = comp.cursor,
         C!Remembered \subseteq C!Remembered'
  PROVE  Folded'
BY DEF Folded

LEMMA FoldStep ==
  ASSUME CompactionAssumption, CompactionTypes, FoldInv, [C!Next]_C!compactionVars
  PROVE  FoldInv'
<1>0. /\ comp \in Records /\ spawned \in Created /\ cut \subseteq C!Turns /\ structural \in BOOLEAN
      /\ history \in Seq(C!Turns) /\ upset \subseteq {"calls", "folds", "carried"}
      /\ folds \subseteq [base : SUBSET C!Turns, batch : Seq(C!Turns)]
      /\ spawned.folds \in Nat /\ spawned.saves \in Nat /\ comp.cursor \in Nat
      /\ comp.pending \in Seq(C!Turns) /\ comp.summary \in SUBSET C!Turns
      /\ since \in Nat /\ since <= comp.cursor /\ Len(history) \in Nat
  BY LenProperties DEF CompactionTypes, Records, Created
<1>1. ASSUME UNCHANGED <<comp, folds, since, cut, structural, history>>, spawned'.folds = spawned.folds,
             upset' \cap {"folds", "carried"} = upset \cap {"folds", "carried"}
      PROVE  FoldInv'
  BY <1>1 DEF FoldInv, OneFold, Folded, C!Remembered
<1>2. ASSUME C!FoldBegin
      PROVE  FoldInv'
  <2>1. /\ spawned.folds > 0 /\ spawned' = [spawned EXCEPT !.folds = @ - 1]
        /\ UNCHANGED <<structural, since, cut, history>>
    BY <1>2 DEF C!FoldBegin
  <2>2. ~structural
    BY <1>0, <2>1 DEF FoldInv
  <2>3. CASE comp.pending = <<>>
    <3>1. UNCHANGED <<comp, folds, upset>>
      BY <1>2, <2>3 DEF C!FoldBegin
    <3> QED BY <2>1, <2>2, <3>1 DEF FoldInv, OneFold, Folded, C!Remembered
  <2>4. CASE comp.pending # <<>>
    <3> DEFINE new == [base |-> comp.summary, batch |-> comp.pending]
    <3>1. /\ folds' = folds \cup {new}
          /\ comp' = [comp EXCEPT !.pending = <<>>, !.folding = TRUE]
          /\ upset' = IF folds = {} THEN upset ELSE upset \cup {"folds"}
      BY <1>2, <2>4 DEF C!FoldBegin
    <3>2. comp'.summary = comp.summary /\ comp'.cursor = comp.cursor
      BY <1>0, <3>1 DEF Records
    <3>3. ASSUME upset' \cap {"folds", "carried"} = {}
          PROVE  OneFold'
      <4>1. folds = {} /\ OneFold
        BY <3>1, <3>3 DEF FoldInv
      <4>3. new.base = comp.summary /\ new.batch = comp.pending /\ folds' = {new}
        BY <3>1, <4>1
      <4> HIDE DEF new
      <4>4. C!Remembered \subseteq C!Remembered'
        BY <2>1, <3>2, <4>1, <4>3 DEF C!Remembered
      <4>5. Folded'
        BY <2>1, <3>2, <4>1, <4>4, FoldedKept DEF OneFold
      <4> QED BY <3>2, <4>3, <4>5 DEF OneFold
    <3>4. since' = comp'.cursor \/ comp'.cursor <= Len(history')
      BY <2>1, <3>2 DEF FoldInv
    <3> QED BY <2>1, <2>2, <3>3, <3>4 DEF FoldInv
  <2> QED BY <2>3, <2>4
<1>3. ASSUME NEW f \in folds, C!FoldEnd(f)
      PROVE  FoldInv'
  <2>1. folds' = folds \ {f} /\ UNCHANGED <<spawned, structural, since, cut, upset, history>>
    BY <1>3 DEF C!FoldEnd
  <2>4. comp'.cursor = comp.cursor
    BY <1>0, <1>3 DEF C!FoldEnd, C!FoldMerge, C!FoldFail, Records
  <2>2. ASSUME OneFold
        PROVE  OneFold'
    <3>1. folds' = {} /\ folds = {f} /\ f.base = comp.summary
      BY <2>1, <2>2 DEF OneFold
    <3>3. f.batch \in Seq(C!Turns)
      BY <1>0
    <3>4. comp.summary \cup C!ToSet(comp.pending) \cup C!ToSet(f.batch) \subseteq comp'.summary \cup C!ToSet(comp'.pending)
      <4>1. CASE C!FoldMerge(f)
        BY <1>0, <3>1, <4>1 DEF C!FoldMerge, Records
      <4>2. CASE C!FoldFail(f)
        <5>1. comp'.summary = comp.summary /\ comp'.pending = f.batch \o comp.pending
          BY <1>0, <4>2 DEF C!FoldFail, Records
        <5> QED BY <1>0, <3>3, <5>1, MembersOfConcat
      <4> QED BY <1>3, <4>1, <4>2 DEF C!FoldEnd
    <3>5. C!Remembered \subseteq C!Remembered'
      BY <2>1, <3>1, <3>4 DEF C!Remembered
    <3>6. Folded'
      BY <2>1, <2>2, <2>4, <3>5, FoldedKept DEF OneFold
    <3> QED BY <3>1, <3>6 DEF OneFold
  <2>3. structural => folds = {}
    BY DEF FoldInv
  <2> QED BY <2>1, <2>2, <2>3, <2>4 DEF FoldInv
<1>4. ASSUME NEW turns \in Seq(C!Turns), history' = turns, Len(turns) >= Len(history),
             \A i \in 1..Len(history) : turns[i] = history[i],
             C!Compact(turns) \/ UNCHANGED <<comp, spawned, since, cut>>,
             UNCHANGED <<folds, structural, upset>>
      PROVE  FoldInv'
  <2>1. Len(turns) \in Nat
    BY LenProperties
  <2>2. CASE C!Compact(turns)
    <3>1. /\ structural => spawned'.folds = spawned.folds
          /\ ~structural => comp'.summary = comp.summary
          /\ comp' \in Records /\ since' \in Nat
          /\ comp.summary \cup C!ToSet(comp.pending) \cup cut \subseteq comp'.summary \cup C!ToSet(comp'.pending) \cup cut'
          /\ \A i \in 1..Len(turns) :
               since' < i /\ i <= comp'.cursor /\ C!Matters(turns[i])
               => \/ since < i /\ i <= comp.cursor
                  \/ turns[i] \in comp'.summary \cup C!ToSet(comp'.pending) \cup cut'
          /\ \/ UNCHANGED <<since, comp>>
             \/ since' = comp'.cursor
             \/ comp'.cursor <= Len(turns)
      BY <1>0, <2>2, CompactKeeps
    <3>2. since' = comp'.cursor \/ comp'.cursor <= Len(history')
      BY <1>0, <1>4, <2>1, <3>1 DEF FoldInv
    <3>3. ASSUME OneFold
          PROVE  OneFold'
      <4>1. \A f \in folds : f.base = comp'.summary
        BY <3>1, <3>3 DEF OneFold, FoldInv
      <4>2. C!Remembered \subseteq C!Remembered'
        <5>1. folds' = folds
          BY <1>4
        <5>2. comp.summary \cup C!ToSet(comp.pending) \cup cut \subseteq comp'.summary \cup C!ToSet(comp'.pending) \cup cut'
          BY <3>1
        <5> DEFINE batches == UNION {C!ToSet(f.batch) : f \in folds}
        <5>3. /\ C!Remembered = comp.summary \cup C!ToSet(comp.pending) \cup cut \cup batches
              /\ C!Remembered' = comp'.summary \cup C!ToSet(comp'.pending) \cup cut' \cup batches'
          BY DEF C!Remembered
        <5>4. batches' = batches
          BY <5>1
        <5> HIDE DEF batches
        <5> QED BY <5>2, <5>3, <5>4
      <4>3. ASSUME NEW i \in 1..Len(turns), since' < i, i <= comp'.cursor, C!Matters(turns[i])
            PROVE  turns[i] \in C!Remembered'
        <5>1. CASE since < i /\ i <= comp.cursor
          <6>1. i \in 1..Len(history)
            BY <1>0, <2>1, <5>1 DEF FoldInv
          <6>2. history[i] \in C!Remembered
            BY <1>4, <3>3, <4>3, <5>1, <6>1 DEF OneFold, Folded
          <6> QED BY <1>4, <4>2, <6>1, <6>2
        <5>2. CASE ~(since < i /\ i <= comp.cursor)
          <6>1. turns[i] \in comp'.summary \cup C!ToSet(comp'.pending) \cup cut'
            BY <3>1, <4>3, <5>2, Zenon
          <6>2. comp'.summary \cup C!ToSet(comp'.pending) \cup cut' \subseteq C!Remembered'
            BY DEF C!Remembered
          <6> QED BY <6>1, <6>2
        <5> QED BY <5>1, <5>2
      <4>4. Folded'
        BY <1>4, <4>3 DEF Folded
      <4> QED BY <1>4, <3>3, <4>1, <4>4 DEF OneFold
    <3>4. structural' => folds' = {} /\ spawned'.folds = 0
      BY <1>4, <3>1 DEF FoldInv
    <3>5. upset' = upset
      BY <1>4
    <3> QED BY <3>2, <3>3, <3>4, <3>5 DEF FoldInv
  <2>3. CASE UNCHANGED <<comp, spawned, since, cut>>
    <3>1. since' = comp'.cursor \/ comp'.cursor <= Len(history')
      BY <1>0, <1>4, <2>1, <2>3 DEF FoldInv
    <3>2. C!Remembered' = C!Remembered
      BY <1>4, <2>3 DEF C!Remembered
    <3>3. ASSUME OneFold
          PROVE  OneFold'
      <4>1. ASSUME NEW i \in 1..Len(turns), since < i, i <= comp.cursor, C!Matters(turns[i])
            PROVE  turns[i] \in C!Remembered
        <5>1. i \in 1..Len(history)
          BY <1>0, <2>1, <4>1 DEF FoldInv
        <5> QED BY <1>4, <3>3, <4>1, <5>1 DEF OneFold, Folded
      <4>2. Folded'
        BY <1>4, <2>3, <3>2, <4>1 DEF Folded
      <4> QED BY <1>4, <2>3, <3>3, <4>2 DEF OneFold
    <3>4. structural' => folds' = {} /\ spawned'.folds = 0
      BY <1>4, <2>3 DEF FoldInv
    <3>5. upset' = upset
      BY <1>4
    <3> QED BY <3>1, <3>3, <3>4, <3>5 DEF FoldInv
  <2> QED BY <1>4, <2>2, <2>3
<1>14. ASSUME NEW t \in C!Turns
       PROVE  /\ Append(history, t) \in Seq(C!Turns) /\ Len(Append(history, t)) >= Len(history)
              /\ \A i \in 1..Len(history) : Append(history, t)[i] = history[i]
  BY <1>0, AppendProperties
<1>15. ASSUME NEW m \in Tasks, C!Answer(m)
       PROVE  FoldInv'
  <2> DEFINE turn == [by |-> m, role |-> "assistant"]
  <2>1. turn \in C!Turns /\ UNCHANGED <<folds, structural, upset>>
    BY <1>15 DEF C!Answer, C!Turns
  <2>2. CASE C!Joins(m)
    <3>1. /\ history' = Append(history, turn)
          /\ C!Compact(Append(history, turn)) \/ UNCHANGED <<comp, spawned, since, cut>>
      BY <1>15, <2>2 DEF C!Answer
    <3> HIDE DEF turn
    <3> QED BY <1>4, <1>14, <2>1, <3>1
  <2>3. CASE ~C!Joins(m)
    <3>1. UNCHANGED <<history, comp, spawned, since, cut>>
      BY <1>15, <2>3 DEF C!Answer
    <3> QED BY <1>1, <2>1, <3>1
  <2> QED BY <2>2, <2>3
<1>16. ASSUME NEW m \in Tasks, NEW pc, NEW joins \in BOOLEAN, C!Note(m, pc, joins)
       PROVE  FoldInv'
  <2> DEFINE turn == [by |-> m, role |-> "note"]
  <2>1. turn \in C!Turns /\ history' \in {history, Append(history, turn)}
        /\ UNCHANGED <<folds, structural, upset, comp, spawned, since, cut>>
    BY <1>16 DEF C!Note, C!Turns, C!manager
  <2> HIDE DEF turn
  <2>2. CASE history' = history
    BY <1>1, <2>1, <2>2
  <2>3. CASE history' = Append(history, turn)
    BY <1>4, <1>14, <2>1, <2>3
  <2> QED BY <2>1, <2>2, <2>3
<1>17. ASSUME NEW m \in Tasks, C!DenyEnd(m)
       PROVE  FoldInv'
  <2>1. C!Compact(history) /\ history' = history /\ UNCHANGED <<folds, structural, upset>>
    BY <1>17 DEF C!DenyEnd
  <2> QED BY <1>0, <1>4, <2>1
<1>18. ASSUME NEW turns, history' = turns, since' = comp'.cursor, since' \in Nat
       PROVE  Folded' /\ (since' = comp'.cursor \/ comp'.cursor <= Len(history'))
  BY <1>18 DEF Folded
<1>5. ASSUME NEW s \in C!Maybe, NEW merged \in SUBSET C!Turns, C!Reset(s, merged), UNCHANGED structural
      PROVE  FoldInv'
  <2>1. /\ since' = comp'.cursor /\ since' \in Nat /\ UNCHANGED <<folds, spawned>>
        /\ "carried" \notin upset' => folds = {} /\ spawned.folds = 0
    BY <1>0, <1>5, ResetKeeps
  <2>2. upset' \cap {"folds", "carried"} = {} => OneFold'
    BY <1>18, <2>1 DEF OneFold
  <2> QED BY <1>5, <2>1, <2>2 DEF FoldInv
<1>6. ASSUME NEW c \in Calls, C!Restore(c) \/ C!Create(c)
      PROVE  FoldInv'
  <2>1. call[c].seen \in Nat /\ call[c].seen <= Len(archive) /\ call[c].session \in C!Maybe
    BY DEF CompactionTypes, SessionCalls
  <2>2. PICK s \in C!Maybe, merged \in SUBSET C!Turns : C!Reset(s, merged)
    BY <1>6, <2>1, LatestTurns DEF C!Restore, C!Create, CompactionTypes
  <2>3. UNCHANGED structural
    BY <1>6 DEF C!Restore, C!Create
  <2> QED BY <1>5, <2>2, <2>3
<1>7. ASSUME C!SaveBegin
      PROVE  FoldInv'
  <2>1. spawned'.folds = spawned.folds /\ UNCHANGED <<comp, folds, since, cut, structural, upset, history>>
    BY <1>0, <1>7 DEF C!SaveBegin, Created
  <2> QED BY <1>1, <2>1
<1>8. ASSUME C!SaveEnd
      PROVE  FoldInv'
  <2>1. /\ comp'.summary = comp.summary /\ comp'.pending = comp.pending /\ comp'.cursor = comp.cursor
        /\ UNCHANGED <<folds, spawned, since, cut, structural, upset, history>>
    BY <1>0, <1>8 DEF C!SaveEnd, Records
  <2> QED BY <2>1 DEF FoldInv, OneFold, Folded, C!Remembered
<1>9. ASSUME NEW c \in Calls, NEW kind, NEW s, C!CallBegin(c, kind, s)
      PROVE  FoldInv'
  BY <1>1, <1>9 DEF C!CallBegin, C!manager
<1>10. ASSUME NEW c \in Calls, C!SwitchFound(c) \/ C!ForkFound(c)
       PROVE  FoldInv'
  BY <1>1, <1>10 DEF C!SwitchFound, C!ForkFound, C!manager
<1>19. ASSUME NEW c \in Calls, C!Load(c) \/ C!Clear(c)
       PROVE  FoldInv'
  <2>1. UNCHANGED <<comp, folds, spawned, cut, structural, upset>>
    BY <1>19 DEF C!Load, C!Clear
  <2>2. UNCHANGED <<history, since>> \/ since' = comp'.cursor
    BY <1>19, <2>1 DEF C!Load, C!Clear
  <2>3. CASE UNCHANGED <<history, since>>
    BY <1>1, <2>1, <2>3
  <2>4. CASE since' = comp'.cursor
    <3>1. Folded' /\ since' \in Nat
      BY <1>0, <1>18, <2>1, <2>4
    <3> QED BY <2>1, <2>4, <3>1 DEF FoldInv, OneFold
  <2> QED BY <2>2, <2>3, <2>4
<1>11. ASSUME NEW m \in Tasks, NEW s \in Sessions, NEW pinned \in BOOLEAN, C!Begin(m, s, pinned)
       PROVE  FoldInv'
  BY <1>1, <1>11 DEF C!Begin, C!manager
<1>12. ASSUME NEW t \in unsaved, C!Persist(t)
       PROVE  FoldInv'
  BY <1>1, <1>12 DEF C!Persist, C!manager
<1>13. ASSUME UNCHANGED C!compactionVars
       PROVE  FoldInv'
  BY <1>1, <1>13 DEF C!compactionVars
<1> QED BY <1>2, <1>3, <1>6, <1>7, <1>8, <1>9, <1>10, <1>11, <1>12, <1>13, <1>15, <1>16, <1>17, <1>19
        DEF C!Next, C!Kill, C!Deny, C!TimeOut

-----------------------------------------------------------------------------
\* The turns are of messages handled for the session, but for those that join any.
Mine(turns, s) == \A i \in DOMAIN turns : C!Strays(turns[i]) \/ handler[turns[i].by].session = s

\* Where the only call under way stands: what is in memory, or has been read for it, belongs to
\* the session that is active.
Settled == active # NoSession => comp.session = active /\ Mine(history, active)

CallStands(c) ==
  /\ call[c].pc = "begun" =>
       /\ Settled
       /\ call[c].kind \in {"switch", "create", "delete"} => call[c].session \in Sessions
       /\ call[c].kind = "fork" => active # NoSession
  /\ call[c].pc = "loading" => /\ active # NoSession /\ Mine(call[c].rows, active)
                               /\ call[c].kind = "switch" => active = call[c].session
  /\ call[c].pc = "restoring" => /\ active # NoSession /\ Mine(history, active)
                                 /\ call[c].kind = "switch" => active = call[c].session

SessionInv ==
  /\ \A m \in Tasks : handler[m].pc = "idle" => handler[m].session = NoSession /\ handler[m].pinned
  /\ \A m \in Tasks : handler[m].pc # "idle" => handler[m].session \in Sessions
  /\ \A t \in unsaved : handler[t.by].pc # "idle"
  /\ \A s \in Sessions : Mine(log[s], s)
  /\ "calls" \notin upset => /\ \A c, d \in C!Busy : c = d
                             /\ C!Busy = {} => Settled
                             /\ \A c \in C!Busy : CallStands(c)

\* The turn is of the session, or joins any, after the step.
StaysIn(t, s) == \/ t.role = "note" \/ (t.role = "assistant" /\ ~handler'[t.by].pinned)
                 \/ handler'[t.by].session = s

\* What the messages of a session are does not change.
LEMMA MineKept ==
  ASSUME CompactionTypes, SessionInv, NEW turns \in Seq(C!Turns), NEW s \in Sessions, Mine(turns, s),
         CompactionAssumption,
         \A m \in Tasks : handler[m].pc # "idle" => /\ handler'[m].session = handler[m].session
                                                     /\ handler'[m].pinned = handler[m].pinned
  PROVE  \A i \in DOMAIN turns : StaysIn(turns[i], s)
<1> TAKE i \in DOMAIN turns
<1>1. turns[i] \in C!Turns
  BY ElementOfSeq, LenProperties
<1>2. turns[i].by \in Tasks /\ (C!Strays(turns[i]) \/ handler[turns[i].by].session = s)
  BY <1>1 DEF C!Turns, Mine
<1>3. CASE turns[i].role = "note"
  BY <1>3 DEF StaysIn
<1>4. CASE turns[i].role = "assistant" /\ ~handler[turns[i].by].pinned
  <2>1. handler[turns[i].by].pc # "idle"
    BY <1>2, <1>4 DEF SessionInv
  <2> QED BY <1>2, <1>4, <2>1 DEF StaysIn
<1>5. CASE handler[turns[i].by].session = s
  <2>1. handler[turns[i].by].pc # "idle"
    BY <1>2, <1>5 DEF SessionInv, CompactionAssumption
  <2> QED BY <1>2, <1>5, <2>1 DEF StaysIn
<1> QED BY <1>2, <1>3, <1>4, <1>5 DEF C!Strays

\* A turn of the session, or one that joins any, joins its turns.
LEMMA MineAppended ==
  ASSUME NEW turns \in Seq(C!Turns), NEW s \in C!Maybe, Mine(turns, s), NEW t \in C!Turns,
         C!Strays(t) \/ handler[t.by].session = s
  PROVE  Mine(Append(turns, t), s)
<1>1. /\ Append(turns, t) \in Seq(C!Turns) /\ Len(Append(turns, t)) = Len(turns) + 1
      /\ \A i \in 1..Len(turns) : Append(turns, t)[i] = turns[i]
      /\ Append(turns, t)[Len(turns) + 1] = t
  BY AppendProperties
<1>2. /\ DOMAIN turns = 1..Len(turns) /\ Len(turns) \in Nat
      /\ DOMAIN Append(turns, t) = 1..(Len(turns) + 1)
  BY <1>1, LenProperties
<1> SUFFICES ASSUME NEW i \in 1..(Len(turns) + 1)
             PROVE  C!Strays(Append(turns, t)[i]) \/ handler[Append(turns, t)[i].by].session = s
  BY <1>2 DEF Mine
<1>3. CASE i \in 1..Len(turns)
  BY <1>1, <1>2, <1>3 DEF Mine
<1>4. CASE i = Len(turns) + 1
  BY <1>1, <1>4
<1> QED BY <1>2, <1>3, <1>4

\* A step of the handler of a message.
Moves(m) == \/ C!Answer(m) \/ C!DenyEnd(m)
            \/ \E pc \in {"denying", "noted"}, joins \in BOOLEAN : C!Note(m, pc, joins)
            \/ \E s \in Sessions, pinned \in BOOLEAN : C!Begin(m, s, pinned)

\* The handlers of messages: those that move keep their session, and those that begin had none.
LEMMA HandlersStep ==
  ASSUME CompactionAssumption, CompactionTypes, SessionInv, NEW m \in Tasks, Moves(m)
  PROVE  /\ \A n \in Tasks : /\ handler'[n].pc = "idle" => handler'[n].session = NoSession /\ handler'[n].pinned
                             /\ handler'[n].pc # "idle" => handler'[n].session \in Sessions
                             /\ handler[n].pc # "idle" => handler'[n].pc # "idle"
         /\ handler'[m].pc # "idle"
         /\ \A turns \in Seq(C!Turns), s \in Sessions : Mine(turns, s) =>
              \A i \in DOMAIN turns : StaysIn(turns[i], s)
<1> DEFINE Follows == \A n \in Tasks :
             /\ handler'[n].pc = "idle" => handler'[n].session = NoSession /\ handler'[n].pinned
             /\ handler'[n].pc # "idle" => handler'[n].session \in Sessions
             /\ handler[n].pc # "idle" => /\ handler'[n].pc # "idle" /\ handler'[n].session = handler[n].session
                                          /\ handler'[n].pinned = handler[n].pinned
<1>0. handler \in [Tasks -> Handlers]
  BY DEF CompactionTypes
<1>2. ASSUME NEW pc \in {"done", "noted", "denying"}, handler[m].pc \in {"thinking", "denying"},
             handler' = [handler EXCEPT ![m].pc = pc]
      PROVE  Follows /\ handler'[m].pc # "idle"
  <2>1. /\ handler'[m].pc = pc /\ handler'[m].session = handler[m].session
        /\ handler'[m].pinned = handler[m].pinned
        /\ \A n \in Tasks : n # m => handler'[n] = handler[n]
    BY <1>0, <1>2 DEF Handlers
  <2>2. \A n \in Tasks : /\ handler[n].pc = "idle" => handler[n].session = NoSession /\ handler[n].pinned
                         /\ handler[n].pc # "idle" => handler[n].session \in Sessions
    BY DEF SessionInv
  <2> QED BY <1>2, <2>1, <2>2
<1>3. ASSUME NEW s \in Sessions, NEW pinned \in BOOLEAN, C!Begin(m, s, pinned)
      PROVE  Follows /\ handler'[m].pc # "idle"
  <2>1. handler[m].pc = "idle"
        /\ handler' = [handler EXCEPT ![m] = [pc |-> "thinking", session |-> s, pinned |-> pinned]]
    BY <1>3 DEF C!Begin
  <2>2. /\ handler'[m] = [pc |-> "thinking", session |-> s, pinned |-> pinned]
        /\ \A n \in Tasks : n # m => handler'[n] = handler[n]
    BY <1>0, <2>1
  <2>3. \A n \in Tasks : /\ handler[n].pc = "idle" => handler[n].session = NoSession /\ handler[n].pinned
                         /\ handler[n].pc # "idle" => handler[n].session \in Sessions
    BY DEF SessionInv
  <2> QED BY <2>1, <2>2, <2>3
<1>4. Follows /\ handler'[m].pc # "idle"
  BY <1>2, <1>3 DEF Moves, C!Answer, C!DenyEnd, C!Note
<1>5. ASSUME NEW turns \in Seq(C!Turns), NEW s \in Sessions, Mine(turns, s)
      PROVE  \A i \in DOMAIN turns : StaysIn(turns[i], s)
  BY <1>4, <1>5, MineKept
<1> QED BY <1>4, <1>5

LEMMA SessionStep ==
  ASSUME CompactionAssumption, CompactionTypes, SessionInv, [C!Next]_C!compactionVars
  PROVE  SessionInv'
<1>0. /\ NoSession \notin Sessions /\ active \in C!Maybe /\ history \in Seq(C!Turns) /\ comp \in Records
      /\ \A s \in Sessions : log[s] \in Seq(C!Turns)
      /\ unsaved \subseteq C!Turns /\ call \in [Calls -> SessionCalls]
      /\ \A c \in Calls : call[c].session \in C!Maybe /\ call[c].rows \in Seq(C!Turns)
      /\ \A t \in C!Turns : t.by \in Tasks
  BY DEF CompactionTypes, CompactionAssumption, SessionCalls, C!Turns
<1>1. ASSUME UNCHANGED <<log, active, history, handler, unsaved, call>>, comp'.session = comp.session,
             upset \subseteq upset'
      PROVE  SessionInv'
  BY <1>1 DEF SessionInv, Settled, CallStands, Mine, C!Strays, C!Busy
<1>2. ASSUME C!FoldBegin \/ C!SaveBegin \/ C!SaveEnd
      PROVE  SessionInv'
  <2>1. comp'.session = comp.session /\ upset \subseteq upset'
    BY <1>0, <1>2 DEF C!FoldBegin, C!SaveBegin, C!SaveEnd, Records
  <2> QED BY <1>1, <1>2, <2>1 DEF C!FoldBegin, C!SaveBegin, C!SaveEnd
<1>3. ASSUME NEW f \in folds, C!FoldEnd(f)
      PROVE  SessionInv'
  <2>1. comp'.session = comp.session
    BY <1>0, <1>3 DEF C!FoldEnd, C!FoldMerge, C!FoldFail, Records
  <2> QED BY <1>1, <1>3, <2>1 DEF C!FoldEnd
<1>4. ASSUME NEW m \in Tasks, Moves(m)
      PROVE  SessionInv'
  <2>1. /\ \A n \in Tasks : /\ handler'[n].pc = "idle" => handler'[n].session = NoSession /\ handler'[n].pinned
                            /\ handler'[n].pc # "idle" => handler'[n].session \in Sessions
                            /\ handler[n].pc # "idle" => handler'[n].pc # "idle"
        /\ handler'[m].pc # "idle"
        /\ \A turns \in Seq(C!Turns), s \in Sessions : Mine(turns, s) =>
             \A i \in DOMAIN turns : StaysIn(turns[i], s)
    BY <1>4, HandlersStep
  <2>3. unsaved' \subseteq unsaved \cup {[by |-> m, role |-> role] : role \in {"user", "assistant"}}
    BY <1>4 DEF Moves, C!Answer, C!Begin, C!Note, C!DenyEnd
  <2>4. \A t \in unsaved' : handler'[t.by].pc # "idle"
    BY <1>0, <2>1, <2>3 DEF SessionInv
  <2>5. UNCHANGED <<active, call, upset>>
    BY <1>4 DEF Moves, C!Answer, C!Begin, C!Note, C!DenyEnd
  <2>6. \A s \in Sessions : Mine(log[s], s)'
    <3> TAKE s \in Sessions
    <3>1. Mine(log[s], s)
      BY DEF SessionInv
    <3>2. CASE log'[s] = log[s]
      <4>1. \A i \in DOMAIN log[s] : StaysIn(log[s][i], s)
        BY <1>0, <2>1, <3>1
      <4> QED BY <3>2, <4>1 DEF Mine, C!Strays, StaysIn
    <3>3. ASSUME NEW pc \in {"denying", "noted"}, NEW joins \in BOOLEAN, C!Note(m, pc, joins),
                 log'[s] # log[s]
          PROVE  Mine(log[s], s)'
      <4> DEFINE turn == [by |-> m, role |-> "note"]
      <4>1. turn \in C!Turns /\ C!Strays(turn) /\ log' = C!Logged(active, turn)
        BY <3>3 DEF C!Note, C!Turns, C!Strays
      <4> HIDE DEF turn
      <4>2. log'[s] = Append(log[s], turn)
        <5>1. log \in [Sessions -> Seq(C!Turns)]
          BY DEF CompactionTypes
        <5> QED BY <3>3, <4>1, <5>1 DEF C!Logged
      <4>3. Append(log[s], turn) \in Seq(C!Turns) /\ Mine(Append(log[s], turn), s)
        BY <1>0, <3>1, <4>1, AppendProperties, MineAppended DEF C!Maybe
      <4>4. \A i \in DOMAIN Append(log[s], turn) :
              StaysIn(Append(log[s], turn)[i], s)
        BY <2>1, <4>3
      <4> QED BY <4>2, <4>4 DEF Mine, C!Strays, StaysIn
    <3> QED BY <1>4, <3>2, <3>3 DEF Moves, C!Answer, C!Begin, C!DenyEnd
  <2>7. ASSUME active # NoSession, Mine(history, active)
        PROVE  Mine(history, active)'
    <3>1. active \in Sessions
      BY <1>0, <2>7 DEF C!Maybe
    <3>2. CASE UNCHANGED history
      <4>1. \A i \in DOMAIN history : StaysIn(history[i], active)
        BY <1>0, <2>1, <2>7, <3>1
      <4> QED BY <2>5, <3>2, <4>1 DEF Mine, C!Strays, StaysIn
    <3>3. ASSUME NEW t \in C!Turns, C!Strays(t) \/ handler[t.by].session = active,
                 history' = Append(history, t)
          PROVE  Mine(history, active)'
      <4>2. Append(history, t) \in Seq(C!Turns) /\ Mine(Append(history, t), active)
        BY <1>0, <2>7, <3>3, AppendProperties, MineAppended
      <4>3. \A i \in DOMAIN Append(history, t) :
              StaysIn(Append(history, t)[i], active)
        BY <2>1, <3>1, <4>2
      <4> QED BY <2>5, <3>3, <4>3 DEF Mine, C!Strays, StaysIn
    <3>4. CASE C!Answer(m) /\ C!Joins(m)
      <4> DEFINE turn == [by |-> m, role |-> "assistant"]
      <4>1. /\ turn \in C!Turns /\ (C!Strays(turn) \/ handler[turn.by].session = active)
            /\ history' = Append(history, turn)
        BY <3>4 DEF C!Answer, C!Joins, C!Turns, C!Strays
      <4> HIDE DEF turn
      <4> QED BY <3>3, <4>1
    <3>5. ASSUME NEW pc \in {"denying", "noted"}, NEW joins \in BOOLEAN, C!Note(m, pc, joins)
          PROVE  Mine(history, active)'
      <4> DEFINE turn == [by |-> m, role |-> "note"]
      <4>1. /\ turn \in C!Turns /\ (C!Strays(turn) \/ handler[turn.by].session = active)
            /\ history' \in {history, Append(history, turn)}
        BY <3>5 DEF C!Note, C!Turns, C!Strays
      <4> HIDE DEF turn
      <4> QED BY <3>2, <3>3, <4>1
    <3> QED BY <1>4, <3>2, <3>4, <3>5 DEF Moves, C!Answer, C!Begin, C!DenyEnd
  <2>8. comp'.session = comp.session
    <3>1. CASE UNCHANGED comp
      BY <3>1
    <3>2. ASSUME NEW turns \in Seq(C!Turns), C!Compact(turns)
          PROVE  comp'.session = comp.session
      BY <1>0, <3>2, CompactKeeps DEF CompactionTypes
    <3>3. CASE C!Answer(m) /\ C!Joins(m) /\ ~UNCHANGED comp
      <4>1. history' \in Seq(C!Turns) /\ C!Compact(history')
        <5>1. [by |-> m, role |-> "assistant"] \in C!Turns
          BY DEF C!Turns
        <5> QED BY <1>0, <3>3, <5>1, AppendProperties DEF C!Answer
      <4> QED BY <3>2, <4>1
    <3>4. CASE C!DenyEnd(m)
      BY <1>0, <3>2, <3>4 DEF C!DenyEnd
    <3> QED BY <1>4, <3>1, <3>3, <3>4 DEF Moves, C!Answer, C!Begin, C!Note, C!manager
  <2>9. Settled => Settled'
    BY <2>5, <2>7, <2>8 DEF Settled
  <2>10. ASSUME NEW c \in C!Busy, CallStands(c)
         PROVE  CallStands(c)'
    <3>1. ASSUME active # NoSession, Mine(call[c].rows, active)
          PROVE  Mine(call[c].rows, active)'
      <4>1. active \in Sessions /\ call[c].rows \in Seq(C!Turns)
        BY <1>0, <3>1 DEF C!Maybe, C!Busy
      <4>2. \A i \in DOMAIN call[c].rows : StaysIn(call[c].rows[i], active)
        BY <2>1, <3>1, <4>1
      <4> QED BY <2>5, <4>2 DEF Mine, C!Strays, StaysIn
    <3> QED BY <2>5, <2>7, <2>9, <2>10, <3>1 DEF CallStands
  <2>11. C!Busy' = C!Busy
    BY <2>5 DEF C!Busy
  <2> QED BY <2>1, <2>4, <2>5, <2>6, <2>9, <2>10, <2>11 DEF SessionInv
<1>5. ASSUME NEW t \in unsaved, C!Persist(t)
      PROVE  SessionInv'
  <2>1. t \in C!Turns /\ t.by \in Tasks /\ handler[t.by].session \in Sessions
    BY <1>0 DEF SessionInv
  <2>2. UNCHANGED <<active, history, comp, handler, call, upset>> /\ unsaved' = unsaved \ {t}
    BY <1>5 DEF C!Persist, C!manager
  <2>3. \A s \in Sessions : Mine(log[s], s)'
    <3> TAKE s \in Sessions
    <3>1. CASE log'[s] = log[s]
      BY <2>2, <3>1 DEF SessionInv, Mine, C!Strays
    <3>2. CASE s = C!Home(t) /\ log'[s] = Append(log[s], t)
      <4>0. C!Strays(t) \/ handler[t.by].session = s
        BY <3>2 DEF C!Home, C!Strays
      <4>1. Mine(Append(log[s], t), s)
        BY <1>0, <2>1, <4>0, MineAppended DEF SessionInv, C!Maybe
      <4> QED BY <2>2, <3>2, <4>1 DEF Mine, C!Strays
    <3> QED BY <1>5, <2>1, <3>1, <3>2 DEF C!Persist, C!Logged, CompactionTypes
  <2> QED BY <2>2, <2>3 DEF SessionInv, Settled, CallStands, Mine, C!Strays, C!Busy
<1>6. ASSUME NEW c \in Calls, UNCHANGED <<log, handler, unsaved>>, upset \subseteq upset',
             \A d \in Calls : d # c => call'[d] = call[d],
             call[c].pc \in {"begun", "loading", "restoring"},
             "calls" \notin upset => \/ call'[c].pc = "over" /\ Settled'
                                     \/ call'[c].pc \in {"begun", "loading", "restoring"} /\ CallStands(c)'
      PROVE  SessionInv'
  <2>1. "calls" \notin upset => C!Busy = {c}
    BY <1>6 DEF SessionInv, C!Busy
  <2>2. "calls" \notin upset => C!Busy' = IF call'[c].pc = "over" THEN {} ELSE {c}
    BY <1>6, <2>1 DEF C!Busy
  <2>3. \A s \in Sessions : Mine(log[s], s)'
    BY <1>6 DEF SessionInv, Mine, C!Strays
  <2> QED BY <1>6, <2>2, <2>3 DEF SessionInv
<1>7. ASSUME NEW c \in Calls, "calls" \notin upset, call[c].pc \in {"begun", "loading", "restoring"}
      PROVE  CallStands(c)
  BY <1>7 DEF SessionInv, C!Busy
<1>8. ASSUME NEW s \in Sessions, NEW r \in C!Loadable(s)
      PROVE  Mine(r, s) /\ r \in Seq(C!Turns)
  <2>1. r \in Seq(C!Turns) /\ \A i \in DOMAIN r : \E j \in DOMAIN log[s] : r[i] = log[s][j]
    BY <1>0, <1>8, LoadableTurns DEF CompactionTypes, C!Maybe
  <2>2. Mine(log[s], s)
    BY DEF SessionInv
  <2> QED BY <2>1, <2>2 DEF Mine, C!Strays
<1>9. ASSUME NEW c \in Calls, NEW kind \in {"switch", "create", "fork", "delete"}, NEW s \in C!Maybe,
             C!CallBegin(c, kind, s)
      PROVE  SessionInv'
  <2>1. /\ call[c].pc = "idle" /\ UNCHANGED <<log, active, history, comp, handler, unsaved>>
        /\ call' = [call EXCEPT ![c] = [C!Idle EXCEPT !.pc = "begun", !.kind = kind, !.session = s]]
        /\ upset' = IF C!Busy # {} THEN upset \cup {"calls"} ELSE upset
        /\ kind = "fork" => active # NoSession
        /\ kind # "fork" => s \in Sessions
    BY <1>9 DEF C!CallBegin, C!manager
  <2>2. /\ call'[c].pc = "begun" /\ call'[c].kind = kind /\ call'[c].session = s
        /\ \A d \in Calls : d # c => call'[d] = call[d]
    BY <1>0, <2>1 DEF C!Idle
  <2>3. ASSUME "calls" \notin upset'
        PROVE  C!Busy' = {c} /\ CallStands(c)'
    <3>1. C!Busy = {} /\ Settled
      BY <2>1, <2>3 DEF SessionInv
    <3>2. C!Busy' = {c}
      BY <2>2, <3>1 DEF C!Busy
    <3>3. Settled'
      BY <2>1, <3>1 DEF Settled, Mine, C!Strays
    <3> QED BY <2>1, <2>2, <3>2, <3>3 DEF CallStands
  <2>4. \A r \in Sessions : Mine(log[r], r)'
    BY <2>1 DEF SessionInv, Mine, C!Strays
  <2> QED BY <2>1, <2>3, <2>4 DEF SessionInv
<1>10. ASSUME NEW c \in Calls, C!SwitchFound(c)
       PROVE  SessionInv'
  <2>1. PICK r \in C!Loadable(call[c].session) : call' = [call EXCEPT ![c].pc = "loading", ![c].rows = r]
    BY <1>10 DEF C!SwitchFound
  <2>2. /\ call[c].pc = "begun" /\ call[c].kind = "switch" /\ active' = call[c].session
        /\ UNCHANGED <<log, handler, unsaved, upset>>
    BY <1>10 DEF C!SwitchFound
  <2>3. /\ call'[c].pc = "loading" /\ call'[c].rows = r /\ call'[c].session = call[c].session
        /\ \A d \in Calls : d # c => call'[d] = call[d]
    BY <1>0, <2>1 DEF SessionCalls
  <2>4. ASSUME "calls" \notin upset
        PROVE  CallStands(c)'
    <3>1. call[c].session \in Sessions
      BY <1>7, <2>2, <2>4 DEF CallStands
    <3>2. Mine(r, call[c].session) /\ active' # NoSession
      BY <1>0, <1>8, <2>1, <2>2, <3>1
    <3>3. Mine(call[c].rows, active)'
      BY <2>2, <2>3, <3>2 DEF Mine, C!Strays
    <3> QED BY <2>2, <2>3, <3>2, <3>3 DEF CallStands
  <2> QED BY <1>6, <2>2, <2>3, <2>4
<1>11. ASSUME NEW c \in Calls, C!ForkFound(c)
       PROVE  SessionInv'
  <2>1. PICK r \in C!Loadable(active) : call' = [call EXCEPT ![c].pc = "loading", ![c].rows = r]
    BY <1>11 DEF C!ForkFound
  <2>2. call[c].pc = "begun" /\ call[c].kind = "fork" /\ UNCHANGED <<log, active, handler, unsaved, upset>>
    BY <1>11 DEF C!ForkFound
  <2>3. /\ call'[c].pc = "loading" /\ call'[c].rows = r /\ call'[c].kind = "fork"
        /\ \A d \in Calls : d # c => call'[d] = call[d]
    BY <1>0, <2>1, <2>2 DEF SessionCalls
  <2>4. ASSUME "calls" \notin upset
        PROVE  CallStands(c)'
    <3>1. active # NoSession /\ active \in Sessions
      BY <1>0, <1>7, <2>2, <2>4 DEF CallStands, C!Maybe
    <3>2. Mine(r, active)
      BY <1>8, <2>1, <3>1
    <3>3. Mine(call[c].rows, active)'
      BY <2>2, <2>3, <3>2 DEF Mine, C!Strays
    <3> QED BY <2>2, <2>3, <3>1, <3>3 DEF CallStands
  <2> QED BY <1>6, <2>2, <2>3, <2>4
<1>12. ASSUME NEW c \in Calls, C!Load(c)
       PROVE  SessionInv'
  <2>1. /\ call[c].pc = "loading" /\ history' = call[c].rows
        /\ call' = [call EXCEPT ![c].pc = "restoring", ![c].seen = Len(archive)]
        /\ UNCHANGED <<log, active, handler, unsaved, upset>>
    BY <1>12 DEF C!Load
  <2>2. /\ call'[c].pc = "restoring" /\ call'[c].kind = call[c].kind /\ call'[c].session = call[c].session
        /\ \A d \in Calls : d # c => call'[d] = call[d]
    BY <1>0, <2>1 DEF SessionCalls
  <2>3. ASSUME "calls" \notin upset
        PROVE  CallStands(c)'
    <3>1. /\ active # NoSession /\ Mine(call[c].rows, active)
          /\ call[c].kind = "switch" => active = call[c].session
      BY <1>7, <2>1, <2>3 DEF CallStands
    <3>2. Mine(history, active)'
      BY <2>1, <3>1 DEF Mine, C!Strays
    <3> QED BY <2>1, <2>2, <3>1, <3>2 DEF CallStands
  <2> QED BY <1>6, <2>1, <2>2, <2>3
<1>13. ASSUME NEW c \in Calls, C!Over(c)
       PROVE  call'[c].pc = "over" /\ \A d \in Calls : d # c => call'[d] = call[d]
  BY <1>0, <1>13 DEF C!Over, C!Idle
<1>14. ASSUME NEW c \in Calls, C!Restore(c)
       PROVE  SessionInv'
  <2>1. /\ call[c].pc = "restoring" /\ UNCHANGED <<log, active, history, handler, unsaved>>
    BY <1>14 DEF C!Restore
  <2>2. call[c].seen \in Nat /\ call[c].seen <= Len(archive)
    BY DEF CompactionTypes, SessionCalls
  <2>3. PICK s \in C!Maybe, merged \in SUBSET C!Turns :
          /\ C!Reset(s, merged)
          /\ s = IF call[c].kind = "switch" THEN call[c].session ELSE active
    BY <1>0, <1>14, <2>2, LatestTurns DEF C!Restore, CompactionTypes
  <2>4. comp'.session = s /\ upset \subseteq upset'
    BY <1>0, <2>3, ResetKeeps DEF CompactionTypes
  <2>5. ASSUME "calls" \notin upset
        PROVE  Settled'
    <3>1. Mine(history, active) /\ (call[c].kind = "switch" => active = call[c].session)
      BY <1>7, <2>1, <2>5 DEF CallStands
    <3> QED BY <2>1, <2>3, <2>4, <3>1 DEF Settled, Mine, C!Strays
  <2> QED BY <1>6, <1>13, <1>14, <2>1, <2>4, <2>5 DEF C!Restore
<1>15. ASSUME NEW c \in Calls, C!Create(c)
       PROVE  SessionInv'
  <2>1. /\ call[c].pc = "begun" /\ active' = call[c].session /\ history' = <<>> /\ C!Reset(call[c].session, {})
        /\ UNCHANGED <<log, handler, unsaved>>
    BY <1>15 DEF C!Create
  <2>2. {} \in SUBSET C!Turns
    OBVIOUS
  <2>3. comp'.session = call[c].session /\ upset \subseteq upset'
    BY <1>0, <2>1, <2>2, ResetKeeps DEF CompactionTypes
  <2>4. Settled'
    BY <2>1, <2>3 DEF Settled, Mine, C!Strays
  <2> QED BY <1>6, <1>13, <1>15, <2>1, <2>3, <2>4 DEF C!Create
<1>16. ASSUME NEW c \in Calls, C!Clear(c)
       PROVE  SessionInv'
  <2>1. /\ call[c].pc = "begun" /\ UNCHANGED <<log, comp, handler, unsaved, upset>>
        /\ active' = NoSession \/ UNCHANGED <<active, history>>
    BY <1>16 DEF C!Clear, C!manager
  <2>2. ASSUME "calls" \notin upset
        PROVE  Settled'
    <3>1. Settled
      BY <1>7, <2>1, <2>2 DEF CallStands
    <3> QED BY <2>1, <3>1 DEF Settled, Mine, C!Strays
  <2> QED BY <1>6, <1>13, <1>16, <2>1, <2>2 DEF C!Clear
<1>17. ASSUME UNCHANGED C!compactionVars
       PROVE  SessionInv'
  BY <1>1, <1>17 DEF C!compactionVars
<1> QED BY <1>2, <1>3, <1>4, <1>5, <1>9, <1>10, <1>11, <1>12, <1>14, <1>15, <1>16, <1>17
        DEF C!Next, Moves, C!Kill, C!Deny, C!TimeOut

CompactionInv == CompactionTypes /\ FoldInv /\ SessionInv

LEMMA InitCompaction ==
  ASSUME CompactionAssumption, C!Init
  PROVE  CompactionInv
<1>1. <<>> \in Seq(C!Turns) /\ Len(<<>>) = 0 /\ DOMAIN <<>> = {} /\ \A R : <<>> \in Seq(R)
  BY EmptySeq
<1>2. CompactionTypes
  BY <1>1 DEF C!Init, CompactionTypes, Records, Created, Handlers, SessionCalls, C!Idle, C!Maybe
<1>3. FoldInv
  BY <1>1 DEF C!Init, FoldInv, OneFold, Folded
<1>4. SessionInv
  BY <1>1 DEF C!Init, SessionInv, Mine, Settled, C!Busy, C!Idle
<1> QED BY <1>2, <1>3, <1>4 DEF CompactionInv

LEMMA CompactionStep ==
  ASSUME CompactionAssumption, CompactionInv, [C!Next]_C!compactionVars
  PROVE  CompactionInv'
BY TypesStep, FoldStep, SessionStep DEF CompactionInv

LEMMA CompactionProperties ==
  ASSUME CompactionInv
  PROVE  C!CompactionTypeOK /\ C!NoTurnForgotten /\ C!MemoryOfActiveSession
<1>1. \A i \in DOMAIN archive : archive[i] \in [session : Sessions, summary : SUBSET C!Turns]
  <2>1. archive \in Seq([session : Sessions, summary : SUBSET C!Turns])
    BY DEF CompactionInv, CompactionTypes
  <2>2. DOMAIN archive = 1..Len(archive)
    BY <2>1, LenProperties
  <2> QED BY <2>1, <2>2, ElementOfSeq
<1>2. C!CompactionTypeOK
  BY <1>1 DEF CompactionInv, CompactionTypes, C!CompactionTypeOK, Records, Created, Handlers,
     SessionCalls
<1>3. C!NoTurnForgotten
  <2>1. DOMAIN history = 1..Len(history)
    BY LenProperties DEF CompactionInv, CompactionTypes
  <2> QED BY <2>1 DEF CompactionInv, FoldInv, OneFold, Folded, C!NoTurnForgotten
<1>4. C!MemoryOfActiveSession
  BY DEF CompactionInv, SessionInv, Settled, Mine, C!MemoryOfActiveSession
<1> QED BY <1>2, <1>3, <1>4

-----------------------------------------------------------------------------
(* The sessions' rows (kernel/orchestrator.py, kernel/inline_handler.py):  *)
(* as long as calls and turns come one after the other, the head in memory *)
(* is the row's, apart from the step between the two writes, and every     *)
(* message on the way has its parent in its session.                       *)

TaskStates == [pc : {"none", "queued", "inserted", "advanced", "done"},
               session : B!Maybe, parent : Nat, id : Nat]
CallStates == [pc : {"idle", "ending", "found", "loading", "forking", "forked", "deleting", "over"},
               session : B!Maybe, msg : Nat, ids : SUBSET Nat]
MessageRows == [id : Nat, session : Sessions, parent : Nat]

BranchTypes ==
  /\ live \subseteq Sessions
  /\ branch \in [Sessions -> Nat]
  /\ rows \subseteq MessageRows
  /\ current \in B!Maybe /\ head \in Nat
  /\ task \in [Tasks -> TaskStates]
  /\ branchCall \in [Calls -> CallStates]
  /\ crossed \subseteq {"calls", "crossed"}
  /\ \A t \in Tasks : task[t].pc = "queued" => task[t].session \in Sessions
  /\ \A c \in Calls : branchCall[c].pc \in {"ending", "deleting", "forking", "forked"} => branchCall[c].session \in Sessions

\* The ids given so far have a greatest one (of no task, 0).
IdsBounded == Tasks # {} => \E t \in Tasks : \A u \in Tasks : task[u].id <= task[t].id

\* The row of a message of a session.
HasRow(id, s) == \E r \in rows : r.id = id /\ r.session = s

\* Nothing overlaps: one call at a time, one turn at a time, and not both.
Alone ==
  /\ \A c, d \in B!Busy : c = d
  /\ \A t, u \in B!Persisting : t = u
  /\ B!Busy = {} \/ B!Persisting = {}

\* Between the UPDATE of a head and its copy in memory they differ.
HeadInv ==
  current # NoSession =>
    \/ head = branch[current]
    \/ \E t \in B!Persisting : task[t].pc = "advanced"
    \/ \E c \in B!Busy : branchCall[c].pc = "forked"

TurnInv ==
  \A t \in Tasks :
    /\ task[t].pc \in {"inserted", "advanced"} =>
         task[t].session = current /\ current \in live /\ HasRow(task[t].id, current)
    /\ task[t].pc = "inserted" => task[t].parent = head /\ head = branch[current]
    /\ task[t].pc = "advanced" => branch[current] = IF head = 0 THEN 0 ELSE task[t].id

CallInv ==
  \A c \in Calls :
    /\ branchCall[c].pc = "found" /\ branchCall[c].session # NoSession => branchCall[c].msg = branch[branchCall[c].session]
    /\ branchCall[c].pc \in {"forking", "forked"} =>
         current = branchCall[c].session /\ HasRow(branchCall[c].msg, branchCall[c].session)
    /\ branchCall[c].pc = "forked" => branch[current] = branchCall[c].msg

\* The head of a session that exists is one of its messages.
RowInv ==
  /\ \A s \in live : branch[s] = 0 \/ HasRow(branch[s], s)
  /\ B!ParentsInSession

OrderlyInv == crossed = {} => Alone /\ HeadInv /\ TurnInv /\ CallInv /\ RowInv
BranchInv == BranchTypes /\ IdsBounded /\ OrderlyInv

BranchDistinct == NoSession \notin Sessions

LEMMA InitBranches ==
  ASSUME BranchDistinct, B!Init
  PROVE  BranchInv
<1> USE DEF B!Init, B!Idle, B!Busy, B!Persisting
<1>1. BranchTypes
  BY DEF BranchTypes, TaskStates, CallStates, MessageRows, B!Maybe
<1>2. IdsBounded
  BY DEF IdsBounded
<1>3. Alone /\ HeadInv /\ TurnInv /\ CallInv /\ RowInv
  BY DEF Alone, HeadInv, TurnInv, CallInv, RowInv, B!ParentsInSession, B!Maybe
<1> QED BY <1>1, <1>2, <1>3 DEF BranchInv, OrderlyInv

LEMMA NextIdIsNew ==
  ASSUME BranchInv, Tasks # {}
  PROVE  /\ B!NextId \in Nat /\ \A t \in Tasks : task[t].id < B!NextId
         /\ \E t \in Tasks : B!NextId = task[t].id + 1
<1> DEFINE ids == {task[t].id : t \in Tasks}
<1>1. ids \subseteq Nat
  BY DEF BranchInv, BranchTypes, TaskStates
<1>2. \E i \in ids : \A j \in ids : i >= j
  <2>1. PICK t \in Tasks : \A u \in Tasks : task[u].id <= task[t].id
    BY DEF BranchInv, IdsBounded
  <2>2. \A u \in Tasks : task[u].id \in Nat
    BY DEF BranchInv, BranchTypes, TaskStates
  <2> QED BY <2>1, <2>2
<1> HIDE DEF ids
<1>3. PICK last : last = B!Max(ids)
  OBVIOUS
<1>4. B!NextId = last + 1 /\ last \in ids /\ \A j \in ids : last >= j
  <2>1. B!NextId = last + 1
    BY <1>3 DEF B!NextId, ids
  <2>2. last \in ids /\ \A j \in ids : last >= j
    BY <1>2, <1>3 DEF B!Max
  <2> QED BY <2>1, <2>2
<1>5. \A t \in Tasks : task[t].id \in ids
  BY DEF ids
<1>6. last \in Nat
  BY <1>1, <1>4
<1>7. \A t \in Tasks : task[t].id \in Nat /\ last >= task[t].id
  BY <1>1, <1>4, <1>5
<1>8. last + 1 \in Nat /\ \A t \in Tasks : task[t].id < last + 1
  BY <1>6, <1>7
<1>9. \E t \in Tasks : last = task[t].id
  BY <1>4 DEF ids
<1> QED BY <1>4, <1>8, <1>9

\* What a step of a task does to the types and ids.
LEMMA TaskTypes ==
  ASSUME BranchDistinct, BranchInv, NEW t \in Tasks, NEW new \in TaskStates,
         task' = [task EXCEPT ![t] = new],
         new.id = task[t].id \/ new.id = B!NextId,
         new.pc = "queued" => new.session \in Sessions,
         branch' \in [Sessions -> Nat], rows' \subseteq MessageRows, head' \in Nat,
         crossed' \subseteq {"calls", "crossed"}, UNCHANGED <<live, current, branchCall>>
  PROVE  BranchTypes' /\ IdsBounded'
<1>1. BranchTypes'
  BY DEF BranchInv, BranchTypes
<1>2. IdsBounded'
  <2>1. PICK m \in Tasks : \A u \in Tasks : task[u].id <= task[m].id
    BY DEF BranchInv, IdsBounded
  <2>2. /\ \A u \in Tasks : task[u].id \in Nat /\ task'[u].id = IF u = t THEN new.id ELSE task[u].id
        /\ B!NextId \in Nat /\ \A u \in Tasks : task[u].id < B!NextId
    BY NextIdIsNew DEF BranchInv, BranchTypes, TaskStates
  <2>3. CASE new.id = task[t].id
    BY <2>1, <2>2, <2>3 DEF IdsBounded
  <2>4. CASE new.id = B!NextId
    <3>1. \A u \in Tasks : task'[u].id <= task'[t].id
      BY <2>2, <2>4
    <3> QED BY <3>1 DEF IdsBounded
  <2> QED BY <2>3, <2>4
<1> QED BY <1>1, <1>2

\* A step that leaves the rows of the sessions and messages, or adds a message, keeps what has a row.
LEMMA SpawnKeeps ==
  ASSUME BranchDistinct, BranchInv, NEW t \in Tasks, NEW s \in Sessions, B!Spawn(t, s)
  PROVE  BranchInv'
<1> DEFINE new == [task[t] EXCEPT !.pc = "queued", !.session = s]
<1>1. task[t] \in TaskStates /\ task \in [Tasks -> TaskStates]
  BY DEF BranchInv, BranchTypes
<1>2. new \in TaskStates /\ new.pc = "queued" /\ new.session = s /\ new.id = task[t].id
  BY <1>1 DEF TaskStates, B!Maybe
<1>3. /\ task[t].pc = "none" /\ task' = [task EXCEPT ![t] = new]
      /\ UNCHANGED <<live, branch, rows, current, head, branchCall, crossed>>
  BY DEF B!Spawn
<1> HIDE DEF new
<1>4. BranchTypes' /\ IdsBounded'
  BY <1>2, <1>3, TaskTypes DEF BranchInv, BranchTypes
<1>5. \A u \in Tasks : task'[u] = task[u] \/ (u = t /\ task'[u].pc = "queued")
  BY <1>1, <1>2, <1>3
<1>6. B!Persisting' = B!Persisting /\ B!Busy' = B!Busy
  BY <1>3, <1>5 DEF B!Persisting, B!Busy
<1>7. OrderlyInv'
  BY <1>3, <1>5, <1>6 DEF BranchInv, OrderlyInv, Alone, HeadInv, TurnInv, CallInv, RowInv,
     B!ParentsInSession, HasRow,
     B!Persisting
<1> QED BY <1>4, <1>7 DEF BranchInv

LEMMA InsertKeeps ==
  ASSUME BranchDistinct, BranchInv, NEW t \in Tasks, B!Insert(t)
  PROVE  BranchInv'
<1> DEFINE s == task[t].session
           r == [id |-> B!NextId, session |-> s, parent |-> head]
           new == [pc |-> "inserted", session |-> s, parent |-> head, id |-> B!NextId]
           dropped == [task[t] EXCEPT !.pc = "done"]
<1>1. /\ task[t].pc = "queued" /\ UNCHANGED <<live, branch, current, head, branchCall>>
      /\ crossed' = IF s # current \/ B!Busy # {} \/ B!Persisting # {} THEN crossed \cup {"crossed"} ELSE crossed
  BY DEF B!Insert
<1>2. task[t] \in TaskStates /\ task \in [Tasks -> TaskStates] /\ s \in Sessions /\ head \in Nat /\ B!NextId \in Nat
  BY <1>1, NextIdIsNew DEF BranchInv, BranchTypes
<1>3. r \in MessageRows /\ new \in TaskStates /\ dropped \in TaskStates
      /\ dropped.pc = "done" /\ dropped.id = task[t].id /\ r.parent = head /\ r.id = B!NextId /\ r.session = s
      /\ new.pc = "inserted" /\ new.session = s /\ new.parent = head /\ new.id = B!NextId
  BY <1>2 DEF MessageRows, TaskStates, B!Maybe
<1>4. CASE s \in live
  <2>1. rows' = rows \cup {r} /\ task' = [task EXCEPT ![t] = new]
    BY <1>4 DEF B!Insert, B!ParentOf
  <2> HIDE DEF r, new, dropped
  <2>2. BranchTypes' /\ IdsBounded'
    BY <1>1, <1>2, <1>3, <2>1, TaskTypes DEF BranchInv, BranchTypes
  <2>3. ASSUME crossed' = {}
        PROVE  (Alone /\ HeadInv /\ TurnInv /\ CallInv /\ RowInv)'
    <3>1. crossed = {} /\ s = current /\ B!Busy = {} /\ B!Persisting = {} /\ current # NoSession
      BY <1>1, <1>2, <2>3 DEF BranchDistinct
    <3>2. Alone /\ HeadInv /\ TurnInv /\ CallInv /\ RowInv
      BY <3>1 DEF BranchInv, OrderlyInv
    <3>3. \A u \in Tasks : task'[u] = IF u = t THEN new ELSE task[u]
      BY <1>2, <2>1
    <3>4. B!Persisting' = {t} /\ B!Busy' = {}
      BY <1>1, <1>3, <3>1, <3>3 DEF B!Persisting, B!Busy
    <3>5. head = branch[current]
      BY <3>1, <3>2 DEF HeadInv
    <3>6. \A i, x : HasRow(i, x) => HasRow(i, x)'
      BY <2>1 DEF HasRow
    <3>7. \E q \in rows' : q.id = B!NextId /\ q.session = s
      BY <1>3, <2>1
    <3>8. TurnInv'
      <4> SUFFICES ASSUME NEW u \in Tasks, task'[u].pc \in {"inserted", "advanced"}
                   PROVE  /\ task'[u].session = current /\ current \in live
                          /\ \E q \in rows' : q.id = task'[u].id /\ q.session = current
                          /\ task'[u].parent = head /\ head = branch[current]
                          /\ task'[u].pc = "inserted"
        BY <1>1 DEF TurnInv, HasRow
      <4>1. u = t
        BY <3>1, <3>3 DEF B!Persisting
      <4> QED BY <1>3, <1>4, <3>1, <3>3, <3>5, <3>7, <4>1
    <3>9. RowInv'
      <4>1. head = 0 \/ \E q \in rows : q.id = head /\ q.session = s
        BY <1>4, <3>1, <3>2, <3>5 DEF RowInv, HasRow
      <4>2. B!ParentsInSession'
        BY <1>3, <2>1, <3>1, <3>2, <4>1 DEF RowInv, B!ParentsInSession
      <4> QED BY <1>1, <2>1, <3>2, <4>2 DEF RowInv, HasRow
    <3>10. Alone' /\ HeadInv' /\ CallInv'
      BY <1>1, <2>1, <3>1, <3>2, <3>4, <3>5 DEF Alone, HeadInv, CallInv, B!Busy, HasRow
    <3> QED BY <3>8, <3>9, <3>10
  <2> QED BY <2>2, <2>3 DEF BranchInv, OrderlyInv
<1>5. CASE s \notin live
  <2>1. rows' = rows /\ task' = [task EXCEPT ![t] = dropped]
    BY <1>5 DEF B!Insert
  <2> HIDE DEF r, new, dropped
  <2>2. BranchTypes' /\ IdsBounded'
    BY <1>1, <1>2, <1>3, <2>1, TaskTypes DEF BranchInv, BranchTypes
  <2>3. \A u \in Tasks : task'[u] = task[u] \/ (u = t /\ task'[u].pc = "done")
    BY <1>2, <1>3, <2>1
  <2>4. B!Persisting' = B!Persisting /\ B!Busy' = B!Busy
    BY <1>1, <2>3 DEF B!Persisting, B!Busy
  <2>5. crossed' = {} => crossed = {}
    BY <1>1
  <2>6. OrderlyInv'
    BY <1>1, <2>1, <2>3, <2>4, <2>5 DEF BranchInv, OrderlyInv, Alone, HeadInv, TurnInv, CallInv, RowInv,
       B!ParentsInSession, HasRow, B!Persisting
  <2> QED BY <2>2, <2>6 DEF BranchInv
<1> QED BY <1>4, <1>5

LEMMA InsertPlainKeeps ==
  ASSUME BranchDistinct, BranchInv, NEW t \in Tasks, B!InsertPlain(t)
  PROVE  BranchInv'
<1> DEFINE r == [id |-> B!NextId, session |-> task[t].session, parent |-> 0]
           new == [task[t] EXCEPT !.pc = "done", !.id = B!NextId]
<1>1. /\ task[t].pc = "queued" /\ UNCHANGED <<live, branch, current, head, branchCall, crossed>>
      /\ rows' = rows \cup {r} /\ task' = [task EXCEPT ![t] = new]
  BY DEF B!InsertPlain
<1>2. task[t] \in TaskStates /\ task \in [Tasks -> TaskStates] /\ task[t].session \in Sessions /\ B!NextId \in Nat
  BY <1>1, NextIdIsNew DEF BranchInv, BranchTypes
<1>3. r \in MessageRows /\ new \in TaskStates /\ new.pc = "done" /\ new.id = B!NextId /\ r.parent = 0
  BY <1>2 DEF MessageRows, TaskStates
<1> HIDE DEF r, new
<1>4. BranchTypes' /\ IdsBounded'
  BY <1>1, <1>2, <1>3, TaskTypes DEF BranchInv, BranchTypes
<1>5. \A u \in Tasks : task'[u] = task[u] \/ (u = t /\ task'[u].pc = "done")
  BY <1>1, <1>2, <1>3
<1>6. B!Persisting' = B!Persisting /\ B!Busy' = B!Busy
  BY <1>1, <1>5 DEF B!Persisting, B!Busy
<1>7. OrderlyInv'
  BY <1>1, <1>3, <1>5, <1>6 DEF BranchInv, OrderlyInv, Alone, HeadInv, TurnInv, CallInv, RowInv,
     B!ParentsInSession, HasRow, B!Persisting
<1> QED BY <1>4, <1>7 DEF BranchInv

\* The UPDATE leaves the head as it was, or sets it to the turn's own row.
LEMMA AdvanceKeeps ==
  ASSUME BranchDistinct, BranchInv, NEW t \in Tasks, B!Advance(t)
  PROVE  BranchInv'
<1> DEFINE new == [task[t] EXCEPT !.pc = "advanced"]
<1>1. /\ task[t].pc = "inserted" /\ UNCHANGED <<live, rows, current, head, branchCall, crossed>>
      /\ task' = [task EXCEPT ![t] = new]
      /\ branch' = IF task[t].parent = 0 THEN branch ELSE [branch EXCEPT ![task[t].session] = task[t].id]
  BY DEF B!Advance
<1>2. task[t] \in TaskStates /\ task \in [Tasks -> TaskStates] /\ branch \in [Sessions -> Nat]
  BY DEF BranchInv, BranchTypes
<1>3. /\ new \in TaskStates /\ new.pc = "advanced" /\ new.id = task[t].id /\ new.session = task[t].session
      /\ new.parent = task[t].parent
  BY <1>2 DEF TaskStates
<1> HIDE DEF new
<1>4. branch' \in [Sessions -> Nat]
  BY <1>1, <1>2 DEF TaskStates
<1>5. BranchTypes' /\ IdsBounded'
  BY <1>1, <1>2, <1>3, <1>4, TaskTypes DEF BranchInv, BranchTypes
<1>6. \A u \in Tasks : task'[u] = IF u = t THEN new ELSE task[u]
  BY <1>1, <1>2
<1>7. B!Persisting' = B!Persisting /\ B!Busy' = B!Busy /\ t \in B!Persisting
  BY <1>1, <1>3, <1>6 DEF B!Persisting, B!Busy
<1>8. ASSUME crossed = {}
      PROVE  (Alone /\ HeadInv /\ TurnInv /\ CallInv /\ RowInv)'
  <2>1. Alone /\ HeadInv /\ TurnInv /\ CallInv /\ RowInv /\ B!Busy = {} /\ \A u \in B!Persisting : u = t
    BY <1>7, <1>8 DEF BranchInv, OrderlyInv, Alone
  <2>2. /\ task[t].session = current /\ current \in live /\ current \in Sessions /\ HasRow(task[t].id, current)
        /\ task[t].parent = head /\ head = branch[current]
    BY <1>1, <2>1 DEF TurnInv, BranchInv, BranchTypes
  <2>3. branch'[current] = IF head = 0 THEN 0 ELSE task[t].id
    BY <1>1, <1>2, <2>2
  <2>4. \A x \in Sessions : x # current => branch'[x] = branch[x]
    BY <1>1, <1>2, <2>2
  <2>5. HeadInv' /\ Alone'
    BY <1>1, <1>3, <1>6, <1>7, <2>1 DEF HeadInv, Alone
  <2>6. TurnInv'
    <3> SUFFICES ASSUME NEW u \in Tasks, task'[u].pc \in {"inserted", "advanced"}
                 PROVE  /\ task'[u].session = current /\ current \in live
                        /\ \E q \in rows : q.id = task'[u].id /\ q.session = current
                        /\ task'[u].pc = "advanced"
                        /\ branch'[current] = IF head = 0 THEN 0 ELSE task'[u].id
      BY <1>1 DEF TurnInv, HasRow
    <3>1. u = t
      BY <1>6, <2>1 DEF B!Persisting
    <3> QED BY <1>3, <1>6, <2>2, <2>3, <3>1 DEF HasRow
  <2>7. CallInv'
    BY <1>1, <2>1 DEF CallInv, B!Busy
  <2>8. RowInv'
    BY <1>1, <2>1, <2>2, <2>3, <2>4 DEF RowInv, B!ParentsInSession, HasRow, BranchInv, BranchTypes
  <2> QED BY <2>5, <2>6, <2>7, <2>8
<1> QED BY <1>1, <1>5, <1>8 DEF BranchInv, OrderlyInv

LEMMA ReturnKeeps ==
  ASSUME BranchDistinct, BranchInv, NEW t \in Tasks, B!Return(t)
  PROVE  BranchInv'
<1> DEFINE new == [task[t] EXCEPT !.pc = "done"]
<1>1. /\ task[t].pc = "advanced" /\ UNCHANGED <<live, branch, rows, current, branchCall, crossed>>
      /\ task' = [task EXCEPT ![t] = new] /\ head' = IF head = 0 THEN 0 ELSE task[t].id
  BY DEF B!Return
<1>2. task[t] \in TaskStates /\ task \in [Tasks -> TaskStates] /\ task[t].id \in Nat
  BY DEF BranchInv, BranchTypes, TaskStates
<1>3. new \in TaskStates /\ new.pc = "done" /\ new.id = task[t].id
  BY <1>2 DEF TaskStates
<1> HIDE DEF new
<1>4. BranchTypes' /\ IdsBounded'
  BY <1>1, <1>2, <1>3, TaskTypes DEF BranchInv, BranchTypes
<1>5. \A u \in Tasks : task'[u] = IF u = t THEN new ELSE task[u]
  BY <1>1, <1>2
<1>6. B!Persisting' = B!Persisting \ {t} /\ t \in B!Persisting /\ B!Busy' = B!Busy
  BY <1>1, <1>3, <1>5 DEF B!Persisting, B!Busy
<1>7. ASSUME crossed = {}
      PROVE  (Alone /\ HeadInv /\ TurnInv /\ CallInv /\ RowInv)'
  <2>1. Alone /\ HeadInv /\ TurnInv /\ CallInv /\ RowInv /\ B!Busy = {} /\ B!Persisting' = {}
    BY <1>6, <1>7 DEF BranchInv, OrderlyInv, Alone
  <2>2. head' = branch[current]
    BY <1>1, <2>1 DEF TurnInv
  <2>3. TurnInv'
    BY <2>1 DEF TurnInv, B!Persisting
  <2> QED BY <1>1, <1>6, <2>1, <2>2, <2>3
          DEF Alone, HeadInv, CallInv, B!Busy, RowInv, B!ParentsInSession, HasRow
<1> QED BY <1>1, <1>4, <1>7 DEF BranchInv, OrderlyInv

-----------------------------------------------------------------------------
(* Calls.                                                                  *)

\* What a step of a call does to the types.
LEMMA CallTypes ==
  ASSUME BranchDistinct, BranchInv, NEW c \in Calls, NEW new \in CallStates,
         branchCall' = [branchCall EXCEPT ![c] = new],
         new.pc \in {"ending", "deleting", "forking", "forked"} => new.session \in Sessions,
         live' \subseteq live, branch' \in [Sessions -> Nat], rows' \subseteq rows, current' \in B!Maybe, head' \in Nat,
         crossed' \subseteq {"calls", "crossed"}, task' = task
  PROVE  /\ BranchTypes' /\ IdsBounded'
         /\ \A d \in Calls : branchCall'[d] = IF d = c THEN new ELSE branchCall[d]
         /\ B!Persisting' = B!Persisting
BY DEF BranchInv, BranchTypes, IdsBounded, B!Persisting

\* A call begins when nothing else is under way, or it is recorded.
LEMMA TakeAlone ==
  ASSUME BranchDistinct, BranchInv, NEW c \in Calls, NEW rec \in CallStates, B!Take(c, rec),
         crossed' = {}
  PROVE  crossed = {} /\ B!Busy = {} /\ B!Persisting = {} /\ Alone /\ HeadInv /\ TurnInv /\ CallInv /\ RowInv
         /\ (current # NoSession => head = branch[current])
<1>1. crossed = {} /\ B!Busy = {} /\ B!Persisting = {}
  BY DEF B!Take
<1>2. Alone /\ HeadInv /\ TurnInv /\ CallInv /\ RowInv
  BY <1>1 DEF BranchInv, OrderlyInv
<1> QED BY <1>1, <1>2 DEF HeadInv

\* A call under way is alone, or that was recorded.
LEMMA StepAlone ==
  ASSUME BranchInv, NEW c \in B!Busy, crossed = {}
  PROVE  B!Persisting = {} /\ (\A d \in B!Busy : d = c) /\ Alone /\ HeadInv /\ TurnInv /\ CallInv /\ RowInv
BY DEF BranchInv, OrderlyInv, Alone

LEMMA IdleTyped ==
  /\ B!Idle \in CallStates /\ B!Idle.pc = "idle"
  /\ [B!Idle EXCEPT !.pc = "over"] \in CallStates /\ [B!Idle EXCEPT !.pc = "over"].pc = "over"
BY DEF B!Idle, CallStates, B!Maybe

LEMMA SwitchBeginKeeps ==
  ASSUME BranchDistinct, BranchInv, NEW c \in Calls, NEW s \in Sessions, B!SwitchBegin(c, s)
  PROVE  BranchInv'
<1> DEFINE found == [B!Idle EXCEPT !.pc = "found", !.session = IF s \in live THEN s ELSE NoSession, !.msg = branch[s]]
           ending == [B!Idle EXCEPT !.pc = "ending", !.session = s]
<1>1. branch[s] \in Nat
  BY DEF BranchInv, BranchTypes
<1>2. /\ found \in CallStates /\ found.pc = "found" /\ (found.session # NoSession => found.msg = branch[found.session])
      /\ ending \in CallStates /\ ending.pc = "ending" /\ ending.session = s
  BY <1>1 DEF B!Idle, CallStates, B!Maybe
<1>3. PICK new \in {found, ending} : B!Take(c, new)
  BY DEF B!SwitchBegin
<1>4. /\ new \in CallStates /\ new.pc \in {"found", "ending"}
      /\ (new.pc = "ending" => new.session \in Sessions)
      /\ (new.pc = "found" /\ new.session # NoSession => new.msg = branch[new.session])
  BY <1>2
<1> HIDE DEF found, ending
<1>5. /\ branchCall[c].pc = "idle" /\ branchCall' = [branchCall EXCEPT ![c] = new] /\ crossed' \subseteq {"calls", "crossed"}
      /\ UNCHANGED <<live, branch, rows, current, head, task>>
  BY <1>3 DEF B!SwitchBegin, B!Take, BranchInv, BranchTypes
<1>6. /\ BranchTypes' /\ IdsBounded' /\ B!Persisting' = B!Persisting
      /\ \A d \in Calls : branchCall'[d] = IF d = c THEN new ELSE branchCall[d]
  BY <1>4, <1>5, CallTypes DEF BranchInv, BranchTypes
<1>7. ASSUME crossed' = {}
      PROVE  (Alone /\ HeadInv /\ TurnInv /\ CallInv /\ RowInv)'
  <2>1. crossed = {} /\ B!Busy = {} /\ B!Persisting = {} /\ HeadInv /\ TurnInv /\ RowInv /\ (current # NoSession => head = branch[current])
    BY <1>3, <1>4, <1>7, TakeAlone
  <2>2. \A d \in B!Busy' : d = c
    BY <1>6, <2>1 DEF B!Busy
  <2>3. Alone'
    BY <1>6, <2>1, <2>2 DEF Alone
  <2>4. CallInv'
    BY <1>4, <1>5, <1>6, <2>1 DEF CallInv, B!Busy
  <2>5. TurnInv' /\ RowInv'
    BY <1>5, <2>1 DEF TurnInv, RowInv, B!ParentsInSession, HasRow
  <2>6. HeadInv'
    BY <1>5, <2>1 DEF HeadInv
  <2> QED BY <2>3, <2>4, <2>5, <2>6
<1> QED BY <1>6, <1>7 DEF BranchInv, OrderlyInv

LEMMA SwitchSelectKeeps ==
  ASSUME BranchDistinct, BranchInv, NEW c \in Calls, B!SwitchSelect(c)
  PROVE  BranchInv'
<1> DEFINE s == branchCall[c].session
           new == [branchCall[c] EXCEPT !.pc = "found", !.session = IF s \in live THEN s ELSE NoSession, !.msg = branch[s]]
<1>1. /\ branchCall[c].pc = "ending" /\ branchCall' = [branchCall EXCEPT ![c] = new]
      /\ UNCHANGED <<live, branch, rows, current, head, task, crossed>>
  BY DEF B!SwitchSelect
<1>2. branchCall[c] \in CallStates /\ s \in Sessions /\ branch[s] \in Nat
  BY <1>1 DEF BranchInv, BranchTypes
<1>3. new \in CallStates /\ new.pc = "found" /\ (new.session # NoSession => new.msg = branch[new.session])
  BY <1>2 DEF CallStates, B!Maybe
<1> HIDE DEF s, new
<1>4. /\ BranchTypes' /\ IdsBounded' /\ B!Persisting' = B!Persisting
      /\ \A d \in Calls : branchCall'[d] = IF d = c THEN new ELSE branchCall[d]
  BY <1>1, <1>3, CallTypes DEF BranchInv, BranchTypes
<1>5. B!Busy' = B!Busy /\ c \in B!Busy
  BY <1>1, <1>3, <1>4 DEF B!Busy
<1>6. ASSUME crossed = {}
      PROVE  (Alone /\ HeadInv /\ TurnInv /\ CallInv /\ RowInv)'
  <2>1. B!Persisting = {} /\ (\A d \in B!Busy : d = c) /\ Alone /\ HeadInv /\ TurnInv /\ CallInv /\ RowInv
    BY <1>5, <1>6, StepAlone
  <2>2. Alone' /\ TurnInv' /\ RowInv'
    BY <1>1, <1>4, <1>5, <2>1 DEF Alone, TurnInv, RowInv, B!ParentsInSession, HasRow
  <2>3. CallInv'
    BY <1>1, <1>3, <1>4, <2>1 DEF CallInv, HasRow, B!Busy
  <2>4. HeadInv'
    BY <1>1, <1>4, <1>5, <2>1 DEF HeadInv
  <2> QED BY <2>2, <2>3, <2>4
<1> QED BY <1>1, <1>4, <1>6 DEF BranchInv, OrderlyInv

\* A call that ends, having changed no head.
LEMMA OverKeeps ==
  ASSUME BranchDistinct, BranchInv, NEW c \in Calls,
         branchCall[c].pc \in {"found", "loading", "deleting"},
         B!Over(c), current' \in {current, NoSession}, current' # current => branchCall[c].pc = "deleting",
         UNCHANGED <<live, branch, rows, head, task, crossed>>
  PROVE  BranchInv'
<1> DEFINE new == [B!Idle EXCEPT !.pc = "over"]
<1>1. branchCall' = [branchCall EXCEPT ![c] = new] /\ new \in CallStates /\ new.pc = "over"
  BY IdleTyped DEF B!Over
<1> HIDE DEF new
<1>2. /\ BranchTypes' /\ IdsBounded' /\ B!Persisting' = B!Persisting
      /\ \A d \in Calls : branchCall'[d] = IF d = c THEN new ELSE branchCall[d]
  <2>1. current' \in B!Maybe
    BY DEF BranchInv, BranchTypes, B!Maybe
  <2> QED BY <1>1, <2>1, CallTypes DEF BranchInv, BranchTypes
<1>3. c \in B!Busy /\ B!Busy' \subseteq B!Busy \ {c}
  BY <1>1, <1>2 DEF B!Busy
<1>4. ASSUME crossed = {}
      PROVE  (Alone /\ HeadInv /\ TurnInv /\ CallInv /\ RowInv)'
  <2>1. B!Persisting = {} /\ B!Busy' = {} /\ HeadInv /\ TurnInv /\ CallInv /\ RowInv /\ (\A d \in B!Busy : d = c)
    BY <1>3, <1>4, StepAlone
  <2>2. current # NoSession => head = branch[current]
    BY <2>1 DEF HeadInv
  <2>3. Alone' /\ HeadInv' /\ TurnInv' /\ RowInv'
    BY <1>2, <2>1, <2>2 DEF Alone, HeadInv, TurnInv, RowInv, B!ParentsInSession, HasRow, B!Persisting
  <2>4. CallInv'
    BY <2>1 DEF CallInv, B!Busy
  <2> QED BY <2>3, <2>4
<1> QED BY <1>2, <1>4 DEF BranchInv, OrderlyInv

LEMMA GetMessagesTyped ==
  ASSUME BranchInv, NEW s, NEW h
  PROVE  B!GetMessages(s, h) \in SUBSET Nat
<1> DEFINE ids == {r.id : r \in {q \in rows : q.session = s /\ (h = 0 \/ q.id \in B!Branch(h))}}
<1>1. ids \subseteq Nat
  BY DEF BranchInv, BranchTypes, MessageRows
<1>2. B!GetMessages(s, h) \subseteq ids
  BY DEF B!GetMessages
<1> QED BY <1>1, <1>2

\* The head goes with the session that is switched to, as the row said it.
LEMMA SwitchFoundKeeps ==
  ASSUME BranchDistinct, BranchInv, NEW c \in Calls, B!SwitchFound(c)
  PROVE  BranchInv'
<1> DEFINE s == branchCall[c].session
           ids == B!GetMessages(s, branchCall[c].msg)
           new == [branchCall[c] EXCEPT !.pc = "loading", !.ids = ids]
<1>1. /\ branchCall[c].pc = "found" /\ s # NoSession /\ current' = s /\ head' = branchCall[c].msg
      /\ branchCall' = [branchCall EXCEPT ![c] = new] /\ UNCHANGED <<live, branch, rows, task, crossed>>
  BY DEF B!SwitchFound, B!StoredHead
<1>2. branchCall[c] \in CallStates /\ ids \in SUBSET Nat
  BY GetMessagesTyped DEF BranchInv, BranchTypes
<1> HIDE DEF ids
<1>3. new \in CallStates /\ new.pc = "loading" /\ s \in Sessions /\ branchCall[c].msg \in Nat
  BY <1>1, <1>2 DEF CallStates, B!Maybe
<1> HIDE DEF new
<1>4. /\ BranchTypes' /\ IdsBounded' /\ B!Persisting' = B!Persisting
      /\ \A d \in Calls : branchCall'[d] = IF d = c THEN new ELSE branchCall[d]
  BY <1>1, <1>3, CallTypes DEF BranchInv, BranchTypes, B!Maybe
<1>5. B!Busy' = B!Busy /\ c \in B!Busy
  BY <1>1, <1>3, <1>4 DEF B!Busy
<1>6. ASSUME crossed = {}
      PROVE  (Alone /\ HeadInv /\ TurnInv /\ CallInv /\ RowInv)'
  <2>1. B!Persisting = {} /\ (\A d \in B!Busy : d = c) /\ Alone /\ CallInv /\ RowInv
    BY <1>5, <1>6, StepAlone
  <2>2. head' = branch'[current']
    BY <1>1, <2>1 DEF CallInv
  <2>3. Alone' /\ HeadInv' /\ RowInv'
    BY <1>1, <1>4, <1>5, <2>1, <2>2 DEF Alone, HeadInv, RowInv, B!ParentsInSession, HasRow
  <2>4. TurnInv'
    BY <1>4, <2>1 DEF TurnInv, B!Persisting
  <2>5. CallInv'
    BY <1>3, <1>4, <2>1 DEF CallInv, B!Busy
  <2> QED BY <2>3, <2>4, <2>5
<1> QED BY <1>1, <1>4, <1>6 DEF BranchInv, OrderlyInv

LEMMA ForkBeginKeeps ==
  ASSUME BranchDistinct, BranchInv, NEW c \in Calls, NEW r \in rows, B!ForkBegin(c, r.id)
  PROVE  BranchInv'
<1> DEFINE new == [B!Idle EXCEPT !.pc = "forking", !.session = current, !.msg = r.id]
<1>1. /\ B!Take(c, new) /\ current # NoSession /\ HasRow(r.id, current)
      /\ UNCHANGED <<live, branch, rows, current, head, task>>
  BY DEF B!ForkBegin, HasRow
<1>2. current \in Sessions /\ r.id \in Nat
  BY <1>1 DEF BranchInv, BranchTypes, B!Maybe, MessageRows
<1>3. new \in CallStates /\ new.pc = "forking" /\ new.session = current /\ new.msg = r.id
  BY <1>2 DEF CallStates, B!Maybe, B!Idle
<1> HIDE DEF new
<1>4. /\ branchCall[c].pc = "idle" /\ branchCall' = [branchCall EXCEPT ![c] = new] /\ crossed' \subseteq {"calls", "crossed"}
  BY <1>1 DEF B!Take, BranchInv, BranchTypes
<1>5. /\ BranchTypes' /\ IdsBounded' /\ B!Persisting' = B!Persisting
      /\ \A d \in Calls : branchCall'[d] = IF d = c THEN new ELSE branchCall[d]
  BY <1>1, <1>2, <1>3, <1>4, CallTypes DEF BranchInv, BranchTypes
<1>6. ASSUME crossed' = {}
      PROVE  (Alone /\ HeadInv /\ TurnInv /\ CallInv /\ RowInv)'
  <2>1. crossed = {} /\ B!Busy = {} /\ B!Persisting = {} /\ HeadInv /\ TurnInv /\ RowInv /\ head = branch[current]
    BY <1>1, <1>3, <1>6, TakeAlone
  <2>2. Alone'
    BY <1>5, <2>1 DEF B!Busy, Alone
  <2>3. CallInv'
    BY <1>1, <1>3, <1>5, <2>1 DEF CallInv, B!Busy, HasRow
  <2>4. TurnInv' /\ RowInv'
    BY <1>1, <2>1 DEF TurnInv, RowInv, B!ParentsInSession, HasRow
  <2>5. HeadInv'
    BY <1>1, <2>1 DEF HeadInv
  <2> QED BY <2>2, <2>3, <2>4, <2>5
<1> QED BY <1>5, <1>6 DEF BranchInv, OrderlyInv

\* The head moves to a message of the session, in the row first.
LEMMA ForkUpdateKeeps ==
  ASSUME BranchDistinct, BranchInv, NEW c \in Calls, B!ForkUpdate(c)
  PROVE  BranchInv'
<1> DEFINE s == branchCall[c].session
           new == [branchCall[c] EXCEPT !.pc = "forked"]
<1>1. /\ branchCall[c].pc = "forking" /\ branch' = [branch EXCEPT ![s] = branchCall[c].msg]
      /\ branchCall' = [branchCall EXCEPT ![c] = new] /\ UNCHANGED <<live, rows, current, head, task, crossed>>
  BY DEF B!ForkUpdate
<1>2. branchCall[c] \in CallStates /\ s \in Sessions /\ branch \in [Sessions -> Nat]
  BY <1>1 DEF BranchInv, BranchTypes
<1>3. new \in CallStates /\ new.pc = "forked" /\ new.session = s /\ new.msg = branchCall[c].msg /\ branchCall[c].msg \in Nat
  BY <1>2 DEF CallStates
<1> HIDE DEF new
<1>4. branch' \in [Sessions -> Nat] /\ branch'[s] = branchCall[c].msg /\ \A x \in Sessions \ {s} : branch'[x] = branch[x]
  BY <1>1, <1>2, <1>3
<1>5. /\ BranchTypes' /\ IdsBounded' /\ B!Persisting' = B!Persisting
      /\ \A d \in Calls : branchCall'[d] = IF d = c THEN new ELSE branchCall[d]
  BY <1>1, <1>2, <1>3, <1>4, CallTypes DEF BranchInv, BranchTypes
<1>6. B!Busy' = B!Busy /\ c \in B!Busy
  BY <1>1, <1>3, <1>5 DEF B!Busy
<1>7. ASSUME crossed = {}
      PROVE  (Alone /\ HeadInv /\ TurnInv /\ CallInv /\ RowInv)'
  <2>1. B!Persisting = {} /\ (\A d \in B!Busy : d = c) /\ Alone /\ TurnInv /\ CallInv /\ RowInv
    BY <1>6, <1>7, StepAlone
  <2>2. current = s /\ HasRow(branchCall[c].msg, s)
    BY <1>1, <2>1 DEF CallInv
  <2>3. Alone' /\ HeadInv'
    BY <1>3, <1>5, <1>6, <2>1 DEF Alone, HeadInv
  <2>4. TurnInv'
    BY <1>5, <2>1 DEF TurnInv, B!Persisting
  <2>5. CallInv'
    BY <1>1, <1>3, <1>4, <1>5, <2>1, <2>2 DEF CallInv, B!Busy, HasRow
  <2>6. RowInv'
    BY <1>1, <1>4, <2>1, <2>2 DEF RowInv, B!ParentsInSession, HasRow, BranchInv, BranchTypes
  <2> QED BY <2>3, <2>4, <2>5, <2>6
<1> QED BY <1>1, <1>5, <1>7 DEF BranchInv, OrderlyInv

LEMMA ForkDoneKeeps ==
  ASSUME BranchDistinct, BranchInv, NEW c \in Calls, B!ForkDone(c)
  PROVE  BranchInv'
<1> DEFINE ids == B!GetMessages(current, branchCall[c].msg)
           new == [branchCall[c] EXCEPT !.pc = "loading", !.ids = ids]
<1>1. /\ branchCall[c].pc = "forked" /\ head' = branchCall[c].msg
      /\ branchCall' = [branchCall EXCEPT ![c] = new] /\ UNCHANGED <<live, branch, rows, current, task, crossed>>
  BY DEF B!ForkDone
<1>2. branchCall[c] \in CallStates /\ ids \in SUBSET Nat
  BY GetMessagesTyped DEF BranchInv, BranchTypes
<1> HIDE DEF ids
<1>3. new \in CallStates /\ new.pc = "loading" /\ branchCall[c].msg \in Nat
  BY <1>1, <1>2 DEF CallStates, B!Maybe
<1> HIDE DEF new
<1>4. /\ BranchTypes' /\ IdsBounded' /\ B!Persisting' = B!Persisting
      /\ \A d \in Calls : branchCall'[d] = IF d = c THEN new ELSE branchCall[d]
  BY <1>1, <1>3, CallTypes DEF BranchInv, BranchTypes
<1>5. B!Busy' = B!Busy /\ c \in B!Busy
  BY <1>1, <1>3, <1>4 DEF B!Busy
<1>6. ASSUME crossed = {}
      PROVE  (Alone /\ HeadInv /\ TurnInv /\ CallInv /\ RowInv)'
  <2>1. B!Persisting = {} /\ (\A d \in B!Busy : d = c) /\ Alone /\ CallInv /\ RowInv
    BY <1>5, <1>6, StepAlone
  <2>2. head' = branch'[current']
    BY <1>1, <2>1 DEF CallInv
  <2>3. Alone' /\ HeadInv' /\ RowInv'
    BY <1>1, <1>4, <1>5, <2>1, <2>2 DEF Alone, HeadInv, RowInv, B!ParentsInSession, HasRow
  <2>4. TurnInv'
    BY <1>4, <2>1 DEF TurnInv, B!Persisting
  <2>5. CallInv'
    BY <1>3, <1>4, <2>1 DEF CallInv, B!Busy
  <2> QED BY <2>3, <2>4, <2>5
<1> QED BY <1>1, <1>4, <1>6 DEF BranchInv, OrderlyInv

\* A session goes with all its messages, so none that is left loses its parent.
LEMMA DeleteBeginKeeps ==
  ASSUME BranchDistinct, BranchInv, NEW c \in Calls, NEW s \in Sessions, B!DeleteBegin(c, s)
  PROVE  BranchInv'
<1> DEFINE new == [B!Idle EXCEPT !.pc = "deleting", !.session = s]
<1>1. /\ B!Take(c, new) /\ live' = live \ {s} /\ rows' = {r \in rows : r.session # s}
      /\ UNCHANGED <<branch, current, head, task>>
  BY DEF B!DeleteBegin
<1>2. new \in CallStates /\ new.pc = "deleting" /\ new.session = s
  BY DEF CallStates, B!Maybe, B!Idle
<1> HIDE DEF new
<1>3. /\ branchCall[c].pc = "idle" /\ branchCall' = [branchCall EXCEPT ![c] = new] /\ crossed' \subseteq {"calls", "crossed"}
  BY <1>1 DEF B!Take, BranchInv, BranchTypes
<1>4. /\ BranchTypes' /\ IdsBounded' /\ B!Persisting' = B!Persisting
      /\ \A d \in Calls : branchCall'[d] = IF d = c THEN new ELSE branchCall[d]
  BY <1>1, <1>2, <1>3, CallTypes DEF BranchInv, BranchTypes
<1>5. ASSUME crossed' = {}
      PROVE  (Alone /\ HeadInv /\ TurnInv /\ CallInv /\ RowInv)'
  <2>1. B!Busy = {} /\ B!Persisting = {} /\ HeadInv /\ RowInv /\ (current # NoSession => head = branch[current])
    BY <1>1, <1>2, <1>5, TakeAlone
  <2>2. Alone'
    BY <1>4, <2>1 DEF B!Busy, Alone
  <2>3. CallInv'
    BY <1>2, <1>4, <2>1 DEF CallInv, B!Busy
  <2>4. TurnInv'
    BY <1>4, <2>1 DEF TurnInv, B!Persisting
  <2>5. RowInv'
    BY <1>1, <1>3, <1>5, <2>1 DEF RowInv, B!ParentsInSession, HasRow, B!Take
  <2>6. HeadInv'
    BY <1>1, <2>1 DEF HeadInv
  <2> QED BY <2>2, <2>3, <2>4, <2>5, <2>6
<1> QED BY <1>4, <1>5 DEF BranchInv, OrderlyInv

LEMMA BranchStep ==
  ASSUME BranchDistinct, BranchInv, [B!Next]_B!branchVars
  PROVE  BranchInv'
<1>1. CASE UNCHANGED B!branchVars
  BY <1>1 DEF B!branchVars, BranchInv, BranchTypes, IdsBounded, OrderlyInv, Alone, HeadInv, TurnInv,
     CallInv, RowInv,
     B!ParentsInSession, HasRow, B!Persisting, B!Busy
<1>2. ASSUME NEW c \in Calls, B!SwitchRefused(c) \/ B!Load(c) \/ B!DeleteDone(c)
      PROVE  BranchInv'
  BY <1>2, OverKeeps DEF B!SwitchRefused, B!Load, B!DeleteDone
<1> QED BY <1>1, <1>2, SpawnKeeps, InsertKeeps, InsertPlainKeeps, AdvanceKeeps, ReturnKeeps,
           SwitchBeginKeeps,
           SwitchSelectKeeps, SwitchFoundKeeps, ForkBeginKeeps, ForkUpdateKeeps, ForkDoneKeeps, DeleteBeginKeeps
        DEF B!Next

LEMMA BranchProperties ==
  ASSUME BranchInv
  PROVE  B!HeadsAgree /\ B!ParentsInSession
BY DEF BranchInv, OrderlyInv, HeadInv, RowInv, B!HeadsAgree, B!ParentsInSession

-----------------------------------------------------------------------------
(* The delivery of events (kernel/message_bus.py, api/routes/chat.py):     *)
(* what a connection will have been told last of a session, once its queue *)
(* is forwarded, agrees with the counter of the session's runs.            *)

BusEvents == [kind : E!Kinds, about : Sessions, tagged : BOOLEAN]
RunStates == [pc : {"none", "created", "running", "over"}, session : E!Maybe]
Places(b) == 1 .. Len(b)

EventTypes ==
  /\ conn \in [Calls -> {"off", "on", "deaf", "closed"}]
  /\ filter \in [Calls -> E!Maybe] /\ session \in [Calls -> E!Maybe]
  /\ bus \in Seq(BusEvents)
  /\ queue \in [Calls -> Seq(Nat)]
  /\ \A c \in Calls : Len(queue[c]) <= QueueSize /\ \A j \in 1 .. Len(queue[c]) : queue[c][j] \in 1 .. Len(bus)
  /\ run \in [Tasks -> RunStates] /\ \A r \in Tasks : run[r].pc # "none" => run[r].session \in Sessions
  /\ count \in [Sessions -> Nat]
  /\ shown \in [Calls -> SUBSET Sessions] /\ blind \in [Calls -> SUBSET Sessions]
  /\ \A c \in Calls : conn[c] = "off" => queue[c] = <<>> /\ shown[c] = {}

\* The counter of a session counts its runs that are created or running.
Active(s) == {r \in Tasks : run[r].session = s /\ run[r].pc \in {"created", "running"}}
CountInv == \A s \in Sessions : count[s] = Cardinality(Active(s))

\* Only responses and errors are tagged, and the tag goes when the own session is sent one.
TagInv ==
  \A i \in 1 .. Len(bus) :
    /\ bus[i].tagged => bus[i].kind \in {"response", "error"}
    /\ bus[i].kind \in {"response", "error"} /\ ~bus[i].tagged => i \in stripped

(* What a connection will have been told last of a session, when it has    *)
(* forwarded its queue: the last event in it that says so, or what it was  *)
(* told before.                                                            *)
Says(b, i, s, kind) == b[i].about = s /\ b[i].kind = kind
Ends(b, q, now, s, kind, other) ==
  \E j \in 0 .. Len(q) :
    /\ IF j = 0 THEN now ELSE Says(b, q[j], s, kind)
    /\ \A k \in j + 1 .. Len(q) : ~Says(b, q[k], s, other)
EndsWorking(b, q, told, s) == Ends(b, q, s \in told, s, "session_working", "session_idle")
EndsIdle(b, q, told, s) == Ends(b, q, s \notin told, s, "session_idle", "session_working")

ToldInv ==
  \A c \in Calls, s \in Sessions :
    conn[c] = "on" /\ s \notin blind[c] =>
      /\ (\E r \in Tasks : run[r].session = s /\ run[r].pc = "running") => EndsWorking(bus, queue[c], shown[c], s)
      /\ Active(s) = {} => EndsIdle(bus, queue[c], shown[c], s)

EventInv == EventTypes /\ CountInv /\ TagInv /\ ToldInv /\ E!LeaksOnlyStripped

EventsAssumption == NoSession \notin Sessions /\ IsFiniteSet(Tasks) /\ QueueSize \in Nat

LEMMA InitEvents ==
  ASSUME EventsAssumption, E!Init
  PROVE  EventInv
<1> USE DEF E!Init
<1>1. EventTypes
  BY DEF EventTypes, RunStates, E!Maybe, EventsAssumption
<1>2. \A s \in Sessions : Active(s) = {}
  BY DEF Active
<1>3. CountInv
  BY <1>2, FS_EmptySet DEF CountInv
<1>4. TagInv /\ ToldInv /\ E!LeaksOnlyStripped
  BY DEF TagInv, ToldInv, E!LeaksOnlyStripped
<1> QED BY <1>1, <1>3, <1>4 DEF EventInv

LEMMA EventProperties ==
  ASSUME EventInv
  PROVE  E!IndicatorTells /\ E!LeaksOnlyStripped
<1> SUFFICES ASSUME NEW c \in Calls, NEW s \in Sessions,
                    conn[c] = "on", s \notin blind[c], queue[c] = <<>>
             PROVE  /\ (\E r \in Tasks : run[r].session = s /\ run[r].pc = "running") => s \in shown[c]
                    /\ s \in shown[c] => \E r \in Tasks : run[r].session = s /\ run[r].pc \in {"created", "running"}
  BY DEF EventInv, E!IndicatorTells
<1>1. Len(queue[c]) = 0
  OBVIOUS
<1>2. (EndsWorking(bus, queue[c], shown[c], s) => s \in shown[c]) /\ (EndsIdle(bus, queue[c], shown[c], s) => s \notin shown[c])
  BY <1>1 DEF EndsWorking, EndsIdle, Ends
<1> QED BY <1>2 DEF EventInv, ToldInv, Active

-----------------------------------------------------------------------------
(* What is said last, when an event comes in and when one goes out.        *)

\* The events of a queue are what they were, on a longer bus or with a tag less.
LEMMA EndsOfSame ==
  ASSUME NEW b, NEW d, NEW q \in Seq(Nat), NEW now, NEW s, NEW kind, NEW other,
         \A j \in 1 .. Len(q) : d[q[j]].about = b[q[j]].about /\ d[q[j]].kind = b[q[j]].kind,
         Ends(b, q, now, s, kind, other)
  PROVE  Ends(d, q, now, s, kind, other)
<1>1. PICK j \in 0 .. Len(q) :
        /\ IF j = 0 THEN now ELSE Says(b, q[j], s, kind)
        /\ \A k \in j + 1 .. Len(q) : ~Says(b, q[k], s, other)
  BY DEF Ends
<1>2. \A k \in 1 .. Len(q) : Says(d, q[k], s, other) <=> Says(b, q[k], s, other)
  BY DEF Says
<1>3. \A k \in 1 .. Len(q) : Says(d, q[k], s, kind) <=> Says(b, q[k], s, kind)
  BY DEF Says
<1> QED BY <1>1, <1>2, <1>3 DEF Ends

LEMMA EndsOfAppend ==
  ASSUME NEW b, NEW q \in Seq(Nat), NEW i \in Nat, NEW now, NEW s, NEW kind, NEW other,
         kind # other,
         Says(b, i, s, kind) \/ (Ends(b, q, now, s, kind, other) /\ ~Says(b, i, s, other))
  PROVE  Ends(b, Append(q, i), now, s, kind, other)
<1> DEFINE p == Append(q, i)
<1>1. p \in Seq(Nat) /\ Len(p) = Len(q) + 1 /\ p[Len(q) + 1] = i /\ \A j \in 1 .. Len(q) : p[j] = q[j]
  BY AppendProperties
<1> HIDE DEF p
<1>2. CASE Says(b, i, s, kind)
  <2>1. Len(q) + 1 \in 0 .. Len(p) /\ Len(q) + 1 # 0 /\ Len(q) + 1 + 1 .. Len(p) = {}
    BY <1>1
  <2> QED BY <1>1, <1>2, <2>1 DEF Ends
<1>3. CASE Ends(b, q, now, s, kind, other) /\ ~Says(b, i, s, other)
  <2>1. PICK j \in 0 .. Len(q) :
          /\ IF j = 0 THEN now ELSE Says(b, q[j], s, kind)
          /\ \A k \in j + 1 .. Len(q) : ~Says(b, q[k], s, other)
    BY <1>3 DEF Ends
  <2>2. \A k \in j + 1 .. Len(p) : ~Says(b, p[k], s, other)
    <3> TAKE k \in j + 1 .. Len(p)
    <3>1. CASE k = Len(q) + 1
      BY <1>1, <1>3, <3>1
    <3>2. CASE k # Len(q) + 1
      <4>1. k \in j + 1 .. Len(q) /\ k \in 1 .. Len(q)
        BY <1>1, <3>2
      <4> QED BY <1>1, <2>1, <4>1
    <3> QED BY <3>1, <3>2
  <2>3. IF j = 0 THEN now ELSE Says(b, p[j], s, kind)
    <3>1. j = 0 \/ j \in 1 .. Len(q)
      OBVIOUS
    <3>2. CASE j = 0
      BY <2>1, <3>2
    <3>3. CASE j \in 1 .. Len(q)
      BY <1>1, <2>1, <3>3
    <3> QED BY <3>1, <3>2, <3>3
  <2>4. j \in 0 .. Len(p)
    BY <1>1
  <2> QED BY <2>2, <2>3, <2>4 DEF Ends, p
<1> QED BY <1>2, <1>3 DEF p

\* The first event is read, and `now` becomes what it says.
LEMMA EndsOfTail ==
  ASSUME NEW b, NEW q \in Seq(Nat), q # <<>>, NEW was, NEW now, NEW s, NEW kind, NEW other,
         Ends(b, q, was, s, kind, other),
         Says(b, Head(q), s, kind) => now,
         was /\ ~Says(b, Head(q), s, other) => now
  PROVE  Ends(b, Tail(q), now, s, kind, other)
<1> DEFINE p == Tail(q)
<1>1. p \in Seq(Nat) /\ Len(q) > 0 /\ Len(p) = Len(q) - 1 /\ (\A j \in 1 .. Len(p) : p[j] = q[j + 1]) /\ Head(q) = q[1]
  BY HeadTailProperties
<1> HIDE DEF p
<1>2. PICK j \in 0 .. Len(q) :
        /\ IF j = 0 THEN was ELSE Says(b, q[j], s, kind)
        /\ \A k \in j + 1 .. Len(q) : ~Says(b, q[k], s, other)
  BY DEF Ends
<1>3. CASE j \in {0, 1}
  <2>1. now
    BY <1>1, <1>2, <1>3
  <2>2. \A k \in 1 .. Len(p) : ~Says(b, p[k], s, other)
    <3> TAKE k \in 1 .. Len(p)
    <3>1. k + 1 \in j + 1 .. Len(q) /\ p[k] = q[k + 1]
      BY <1>1, <1>3
    <3> QED BY <1>2, <3>1
  <2> QED BY <1>1, <2>1, <2>2 DEF Ends, p
<1>4. CASE j > 1
  <2>1. j - 1 \in 0 .. Len(p) /\ j - 1 # 0 /\ p[j - 1] = q[j]
    BY <1>1, <1>4
  <2>2. \A k \in j .. Len(p) : ~Says(b, p[k], s, other)
    <3> TAKE k \in j .. Len(p)
    <3>1. k + 1 \in j + 1 .. Len(q) /\ p[k] = q[k + 1]
      BY <1>1, <1>4
    <3> QED BY <1>2, <3>1
  <2>3. Says(b, p[j - 1], s, kind)
    BY <1>2, <1>4, <2>1
  <2>4. \A k \in (j - 1) + 1 .. Len(p) : ~Says(b, p[k], s, other)
    BY <2>2
  <2> QED BY <2>1, <2>3, <2>4 DEF Ends, p
<1> QED BY <1>3, <1>4

-----------------------------------------------------------------------------
(* Emitting an event.                                                      *)

BusStates == [bus : Seq(BusEvents), queue : [Calls -> Seq(Nat)], blind : [Calls -> SUBSET Sessions]]

\* What holds of the bus, the queues and the tags, in any state of the bus.
BusInv(at) ==
  /\ at \in BusStates
  /\ \A c \in Calls : Len(at.queue[c]) <= QueueSize /\ \A j \in 1 .. Len(at.queue[c]) : at.queue[c][j] \in 1 .. Len(at.bus)
  /\ \A c \in Calls : conn[c] = "off" => at.queue[c] = <<>>
  /\ \A i \in 1 .. Len(at.bus) :
       /\ at.bus[i].tagged => at.bus[i].kind \in {"response", "error"}
       /\ at.bus[i].kind \in {"response", "error"} /\ ~at.bus[i].tagged => i \in stripped

\* A connection that misses nothing of a session: what is said last stays, or is what comes in.
Told(to, from, e) ==
  \A c \in Calls, s \in Sessions, told \in SUBSET Sessions :
    conn[c] = "on" /\ s \notin to.blind[c] =>
      /\ s \notin from.blind[c]
      /\ EndsWorking(from.bus, from.queue[c], told, s) /\ ~(e.about = s /\ e.kind = "session_idle")
           => EndsWorking(to.bus, to.queue[c], told, s)
      /\ EndsIdle(from.bus, from.queue[c], told, s) /\ ~(e.about = s /\ e.kind = "session_working")
           => EndsIdle(to.bus, to.queue[c], told, s)
      /\ e.about = s /\ e.kind = "session_working" => EndsWorking(to.bus, to.queue[c], told, s)
      /\ e.about = s /\ e.kind = "session_idle" => EndsIdle(to.bus, to.queue[c], told, s)

LEMMA EventTyped ==
  ASSUME NEW kind \in E!Kinds, NEW s \in Sessions
  PROVE  /\ E!Event(kind, s) \in BusEvents /\ E!Event(kind, s).kind = kind /\ E!Event(kind, s).about = s
         /\ (E!Event(kind, s).tagged <=> E!Event(kind, s).kind \in {"response", "error"})
<1>1. E!Event(kind, s).kind = kind /\ E!Event(kind, s).about = s /\ E!Event(kind, s).tagged = (kind \in {"response", "error"})
  BY DEF E!Event
<1>2. E!Event(kind, s) \in BusEvents
  BY DEF E!Event, BusEvents
<1> QED BY <1>1, <1>2

LEMMA EmittedBus ==
  ASSUME EventsAssumption, NEW from, BusInv(from), NEW e \in BusEvents,
         e.tagged <=> e.kind \in {"response", "error"}
  PROVE  BusInv(E!Emitted(from, e)) /\ Told(E!Emitted(from, e), from, e)
<1> DEFINE to == E!Emitted(from, e)
           i == Len(from.bus) + 1
           offered(c) == c \in E!Subscribed /\ E!Wants(c, e)
<1>1. /\ from.bus \in Seq(BusEvents) /\ from.queue \in [Calls -> Seq(Nat)] /\ from.blind \in [Calls -> SUBSET Sessions]
      /\ i \in Nat
  BY DEF BusInv, BusStates
<1>2. /\ to.bus = Append(from.bus, e) /\ to.bus \in Seq(BusEvents)
      /\ Len(to.bus) = i /\ to.bus[i] = e /\ \A j \in 1 .. Len(from.bus) : to.bus[j] = from.bus[j]
  BY <1>1, AppendProperties DEF E!Emitted
<1>3. \A c \in Calls :
        /\ to.queue[c] = IF offered(c) /\ Len(from.queue[c]) < QueueSize THEN Append(from.queue[c], i) ELSE from.queue[c]
        /\ to.blind[c] = IF offered(c) /\ ~(Len(from.queue[c]) < QueueSize) THEN from.blind[c] \cup {e.about} ELSE from.blind[c]
  BY DEF E!Emitted, E!HasRoom
<1>4. \A c \in Calls : from.queue[c] \in Seq(Nat)
  BY <1>1
<1>5. \A c \in Calls : /\ Append(from.queue[c], i) \in Seq(Nat) /\ Len(Append(from.queue[c], i)) = Len(from.queue[c]) + 1
                       /\ Append(from.queue[c], i)[Len(from.queue[c]) + 1] = i
                       /\ \A j \in 1 .. Len(from.queue[c]) : Append(from.queue[c], i)[j] = from.queue[c][j]
  <2> TAKE c \in Calls
  <2>1. from.queue[c] \in Seq(Nat) /\ i \in Nat
    BY <1>1
  <2> HIDE DEF i
  <2> QED BY <2>1, AppendProperties
<1>6. to \in BusStates
  <2>1. to = [bus |-> to.bus, queue |-> to.queue, blind |-> to.blind]
    BY DEF E!Emitted
  <2>2. to.queue \in [Calls -> Seq(Nat)]
    <3>1. to.queue = [c \in Calls |-> IF offered(c) /\ E!HasRoom(from.queue[c]) THEN Append(from.queue[c], i) ELSE from.queue[c]]
      BY DEF E!Emitted
    <3> QED BY <1>4, <1>5, <3>1
  <2>3. to.blind \in [Calls -> SUBSET Sessions]
    <3>1. to.blind = [c \in Calls |-> IF offered(c) /\ ~E!HasRoom(from.queue[c]) THEN from.blind[c] \cup {e.about} ELSE from.blind[c]]
      BY DEF E!Emitted
    <3>2. e.about \in Sessions
      BY DEF BusEvents
    <3> QED BY <1>1, <3>1, <3>2
  <2> HIDE DEF to
  <2> QED BY <1>2, <2>1, <2>2, <2>3 DEF BusStates
<1> HIDE DEF to, i
<1>7. BusInv(to)
  <2>1. ASSUME NEW c \in Calls
        PROVE  Len(to.queue[c]) <= QueueSize /\ \A j \in 1 .. Len(to.queue[c]) : to.queue[c][j] \in 1 .. Len(to.bus)
    <3>1. /\ Len(from.queue[c]) \in Nat /\ Len(from.queue[c]) <= QueueSize /\ QueueSize \in Nat
          /\ \A j \in 1 .. Len(from.queue[c]) : from.queue[c][j] \in 1 .. Len(from.bus)
      BY <1>4 DEF BusInv, EventsAssumption
    <3>2. Len(from.bus) \in Nat /\ i = Len(from.bus) + 1
      BY <1>1 DEF i
    <3>3. CASE to.queue[c] = from.queue[c]
      BY <1>2, <3>1, <3>2, <3>3
    <3>4. CASE to.queue[c] = Append(from.queue[c], i) /\ Len(from.queue[c]) < QueueSize
      <4>1. Len(to.queue[c]) = Len(from.queue[c]) + 1
        BY <1>5, <3>4
      <4>2. \A j \in 1 .. Len(to.queue[c]) : j = Len(from.queue[c]) + 1 \/ j \in 1 .. Len(from.queue[c])
        BY <3>1, <4>1
      <4>3. Len(to.queue[c]) <= QueueSize
        BY <3>1, <3>4, <4>1
      <4>4. \A j \in 1 .. Len(to.queue[c]) : to.queue[c][j] \in 1 .. Len(to.bus)
        <5> TAKE j \in 1 .. Len(to.queue[c])
        <5>1. CASE j = Len(from.queue[c]) + 1
          BY <1>2, <1>5, <3>2, <3>4, <5>1
        <5>2. CASE j \in 1 .. Len(from.queue[c])
          <6>1. to.queue[c][j] = from.queue[c][j] /\ from.queue[c][j] \in 1 .. Len(from.bus)
            BY <1>5, <3>1, <3>4, <5>2
          <6> QED BY <1>2, <3>2, <6>1
        <5> QED BY <4>2, <5>1, <5>2
      <4> QED BY <4>3, <4>4
    <3> QED BY <1>3, <3>3, <3>4
  <2>2. \A c \in Calls : conn[c] = "off" => to.queue[c] = <<>>
    BY <1>3 DEF BusInv, E!Subscribed
  <2>3. \A j \in 1 .. Len(to.bus) :
          /\ to.bus[j].tagged => to.bus[j].kind \in {"response", "error"}
          /\ to.bus[j].kind \in {"response", "error"} /\ ~to.bus[j].tagged => j \in stripped
    <3> TAKE j \in 1 .. Len(to.bus)
    <3>1. j = i \/ j \in 1 .. Len(from.bus)
      BY <1>1, <1>2 DEF i
    <3> QED BY <1>2, <3>1 DEF BusInv
  <2> QED BY <1>6, <2>1, <2>2, <2>3 DEF BusInv
<1>8. Told(to, from, e)
  <2> SUFFICES ASSUME NEW c \in Calls, NEW s \in Sessions, NEW told \in SUBSET Sessions,
                      conn[c] = "on", s \notin to.blind[c]
               PROVE  /\ s \notin from.blind[c]
                      /\ EndsWorking(from.bus, from.queue[c], told, s) /\ ~(e.about = s /\ e.kind = "session_idle")
                           => EndsWorking(to.bus, to.queue[c], told, s)
                      /\ EndsIdle(from.bus, from.queue[c], told, s) /\ ~(e.about = s /\ e.kind = "session_working")
                           => EndsIdle(to.bus, to.queue[c], told, s)
                      /\ e.about = s /\ e.kind = "session_working" => EndsWorking(to.bus, to.queue[c], told, s)
                      /\ e.about = s /\ e.kind = "session_idle" => EndsIdle(to.bus, to.queue[c], told, s)
    BY DEF Told
  <2>1. s \notin from.blind[c] /\ from.queue[c] \in Seq(Nat) /\ i \in Nat
    BY <1>1, <1>3
  <2>2. \A j \in 1 .. Len(from.queue[c]) :
          to.bus[from.queue[c][j]].about = from.bus[from.queue[c][j]].about /\ to.bus[from.queue[c][j]].kind = from.bus[from.queue[c][j]].kind
    BY <1>2 DEF BusInv
  <2>3. \A kind, other, now :
          Ends(from.bus, from.queue[c], now, s, kind, other) => Ends(to.bus, from.queue[c], now, s, kind, other)
    BY <2>1, <2>2, EndsOfSame
  <2>4. \A kind : Says(to.bus, i, s, kind) <=> e.about = s /\ e.kind = kind
    BY <1>2 DEF Says
  <2>5. \A kind, other, now :
          kind # other /\ (Says(to.bus, i, s, kind) \/ (Ends(to.bus, from.queue[c], now, s, kind, other) /\ ~Says(to.bus, i, s, other)))
            => Ends(to.bus, Append(from.queue[c], i), now, s, kind, other)
    BY <2>1, EndsOfAppend
  <2>6. e.about = s /\ e.kind \in {"session_working", "session_idle"} => to.queue[c] = Append(from.queue[c], i)
    BY <1>3 DEF E!Subscribed, E!Wants
  <2>7. CASE to.queue[c] = Append(from.queue[c], i)
    BY <2>1, <2>3, <2>4, <2>5, <2>7 DEF EndsWorking, EndsIdle
  <2>8. CASE to.queue[c] = from.queue[c] /\ ~(e.about = s /\ e.kind \in {"session_working", "session_idle"})
    BY <2>1, <2>3, <2>8 DEF EndsWorking, EndsIdle
  <2> QED BY <1>3, <2>6, <2>7, <2>8
<1> QED BY <1>7, <1>8 DEF to

-----------------------------------------------------------------------------
(* The actions.                                                            *)

LEMMA BusOfState ==
  ASSUME EventInv
  PROVE  BusInv(E!Bus)
<1>1. E!Bus \in BusStates
  BY DEF EventInv, EventTypes, E!Bus, BusStates
<1>2. E!Bus.bus = bus /\ E!Bus.queue = queue /\ E!Bus.blind = blind
  BY DEF E!Bus
<1> QED BY <1>1, <1>2 DEF EventInv, EventTypes, TagInv, BusInv

\* What a run emits leaves everything but what the connections are told in order.
LEMMA Becoming ==
  ASSUME EventInv, NEW to, BusInv(to), E!Becomes(to), UNCHANGED <<conn, filter, session, shown,
         stripped, leaked>>,
         run' \in [Tasks -> RunStates], \A r \in Tasks : run'[r].pc # "none" => run'[r].session \in Sessions,
         count' \in [Sessions -> Nat]
  PROVE  EventTypes' /\ TagInv' /\ E!LeaksOnlyStripped'
<1>1. to.bus = bus' /\ to.queue = queue' /\ to.blind = blind'
  BY DEF E!Becomes
<1>2. bus' \in Seq(BusEvents) /\ queue' \in [Calls -> Seq(Nat)] /\ blind' \in [Calls -> SUBSET Sessions]
  BY <1>1 DEF BusInv, BusStates
<1>3. \A c \in Calls : Len(queue'[c]) <= QueueSize /\ \A j \in 1 .. Len(queue'[c]) : queue'[c][j] \in 1 .. Len(bus')
  BY <1>1 DEF BusInv
<1>4. \A c \in Calls : conn'[c] = "off" => queue'[c] = <<>> /\ shown'[c] = {}
  BY <1>1 DEF BusInv, EventInv, EventTypes
<1>5. EventTypes'
  BY <1>2, <1>3, <1>4 DEF EventInv, EventTypes
<1>6. TagInv'
  BY <1>1 DEF BusInv, TagInv
<1> QED BY <1>5, <1>6 DEF EventInv, E!LeaksOnlyStripped

\* Told carries what connections are told over to the next state.
LEMMA ToldOn ==
  ASSUME EventInv, UNCHANGED <<conn, shown>>,
         NEW to, NEW from, NEW e, Told(to, from, e), E!Becomes(to),
         NEW c \in Calls, NEW s \in Sessions, conn[c] = "on", s \notin blind'[c]
  PROVE  /\ s \notin from.blind[c]
         /\ EndsWorking(from.bus, from.queue[c], shown[c], s) /\ ~(e.about = s /\ e.kind = "session_idle")
              => EndsWorking(bus', queue'[c], shown'[c], s)
         /\ EndsIdle(from.bus, from.queue[c], shown[c], s) /\ ~(e.about = s /\ e.kind = "session_working")
              => EndsIdle(bus', queue'[c], shown'[c], s)
         /\ e.about = s /\ e.kind = "session_working" => EndsWorking(bus', queue'[c], shown'[c], s)
         /\ e.about = s /\ e.kind = "session_idle" => EndsIdle(bus', queue'[c], shown'[c], s)
<1>1. shown[c] \in SUBSET Sessions /\ shown'[c] = shown[c]
  BY DEF EventInv, EventTypes
<1>2. to.bus = bus' /\ to.queue = queue' /\ to.blind = blind'
  BY DEF E!Becomes
<1> QED BY <1>1, <1>2 DEF Told

LEMMA RunBeginStep ==
  ASSUME EventsAssumption, EventInv, NEW r \in Tasks, E!RunBegin(r)
  PROVE  EventInv'
<1> DEFINE s == run[r].session
           e == E!Event("session_working", s)
           to == E!Emitted(E!Bus, e)
<1>1. s \in Sessions /\ run[r].pc = "created" /\ run[r] \in RunStates
  BY DEF E!RunBegin, EventInv, EventTypes
<1>2. e \in BusEvents /\ e.kind = "session_working" /\ e.about = s /\ (e.tagged <=> e.kind \in {"response", "error"})
  BY <1>1, EventTyped DEF E!Kinds
<1>3. run' = [run EXCEPT ![r].pc = "running"] /\ E!Becomes(to) /\ UNCHANGED <<conn, filter, session, count, shown, stripped, leaked>>
  BY DEF E!RunBegin
<1> HIDE DEF e, s
<1>4. BusInv(to) /\ Told(to, E!Bus, e)
  BY <1>2, BusOfState, EmittedBus
<1>5. /\ run' \in [Tasks -> RunStates] /\ run'[r].pc = "running"
      /\ \A q \in Tasks : run'[q].session = run[q].session /\ (q # r => run'[q] = run[q])
  BY <1>1, <1>3 DEF EventInv, EventTypes, RunStates
<1>6. EventTypes' /\ TagInv' /\ E!LeaksOnlyStripped'
  <2>1. \A q \in Tasks : run'[q].pc # "none" => run'[q].session \in Sessions
    BY <1>1, <1>5 DEF EventInv, EventTypes, s
  <2> HIDE DEF to
  <2> QED BY <1>3, <1>4, <1>5, <2>1, Becoming DEF EventInv, EventTypes
<1>7. \A x \in Sessions : Active(x)' = Active(x)
  BY <1>1, <1>5 DEF Active
<1>8. CountInv'
  BY <1>3, <1>7 DEF EventInv, CountInv
<1>9. ToldInv'
  <2> SUFFICES ASSUME NEW c \in Calls, NEW x \in Sessions, conn'[c] = "on", x \notin blind'[c]
               PROVE  /\ (\E q \in Tasks : run'[q].session = x /\ run'[q].pc = "running") => EndsWorking(bus', queue'[c], shown'[c], x)
                      /\ Active(x)' = {} => EndsIdle(bus', queue'[c], shown'[c], x)
    BY DEF ToldInv
  <2>1. /\ x \notin blind[c]
        /\ EndsWorking(bus, queue[c], shown[c], x) => EndsWorking(bus', queue'[c], shown'[c], x)
        /\ EndsIdle(bus, queue[c], shown[c], x) /\ x # s => EndsIdle(bus', queue'[c], shown'[c], x)
        /\ x = s => EndsWorking(bus', queue'[c], shown'[c], x)
    <3> HIDE DEF to
    <3>1. E!Bus.bus = bus /\ E!Bus.queue = queue /\ E!Bus.blind = blind
      BY DEF E!Bus
    <3>2. conn[c] = "on"
      BY <1>3
    <3> QED BY <1>2, <1>3, <1>4, <3>1, <3>2, ToldOn
  <2>2. x = s => Active(x)' # {}
    BY <1>5 DEF Active, s
  <2>3. x # s => ((\E q \in Tasks : run'[q].session = x /\ run'[q].pc = "running") => \E q \in Tasks : run[q].session = x /\ run[q].pc = "running")
    BY <1>5 DEF s
  <2> QED BY <1>3, <1>7, <2>1, <2>2, <2>3 DEF EventInv, ToldInv
<1> QED BY <1>6, <1>8, <1>9 DEF EventInv

LEMMA RunYieldStep ==
  ASSUME EventsAssumption, EventInv, NEW r \in Tasks, E!RunYield(r)
  PROVE  EventInv'
<1> DEFINE s == run[r].session
           e == E!Event("response", s)
           to == E!Emitted(E!Bus, e)
<1>1. s \in Sessions
  BY DEF E!RunYield, EventInv, EventTypes
<1>2. e \in BusEvents /\ e.kind = "response" /\ (e.tagged <=> e.kind \in {"response", "error"})
  BY <1>1, EventTyped DEF E!Kinds
<1>3. E!Becomes(to) /\ UNCHANGED <<conn, filter, session, run, count, shown, stripped, leaked>>
  BY DEF E!RunYield
<1> HIDE DEF e, s
<1>4. BusInv(to) /\ Told(to, E!Bus, e)
  BY <1>2, BusOfState, EmittedBus
<1>5. EventTypes' /\ TagInv' /\ E!LeaksOnlyStripped'
  <2> HIDE DEF to
  <2> QED BY <1>3, <1>4, Becoming DEF EventInv, EventTypes
<1>6. \A x \in Sessions : Active(x)' = Active(x)
  BY <1>3 DEF Active
<1>7. CountInv'
  BY <1>3, <1>6 DEF EventInv, CountInv
<1>8. ToldInv'
  <2> SUFFICES ASSUME NEW c \in Calls, NEW x \in Sessions, conn'[c] = "on", x \notin blind'[c]
               PROVE  /\ (\E q \in Tasks : run'[q].session = x /\ run'[q].pc = "running") => EndsWorking(bus', queue'[c], shown'[c], x)
                      /\ Active(x)' = {} => EndsIdle(bus', queue'[c], shown'[c], x)
    BY DEF ToldInv
  <2>1. /\ x \notin blind[c]
        /\ EndsWorking(bus, queue[c], shown[c], x) => EndsWorking(bus', queue'[c], shown'[c], x)
        /\ EndsIdle(bus, queue[c], shown[c], x) => EndsIdle(bus', queue'[c], shown'[c], x)
    <3> HIDE DEF to
    <3>1. E!Bus.bus = bus /\ E!Bus.queue = queue /\ E!Bus.blind = blind
      BY DEF E!Bus
    <3>2. conn[c] = "on"
      BY <1>3
    <3> QED BY <1>2, <1>3, <1>4, <3>1, <3>2, ToldOn
  <2> QED BY <1>3, <1>6, <2>1 DEF EventInv, ToldInv
<1> QED BY <1>5, <1>7, <1>8 DEF EventInv

LEMMA ConnectStep ==
  ASSUME EventsAssumption, EventInv, NEW c \in Calls, NEW s \in E!Maybe, E!Connect(c, s)
  PROVE  EventInv'
<1>1. /\ conn[c] = "off" /\ conn' = [conn EXCEPT ![c] = "on"]
      /\ filter' = [filter EXCEPT ![c] = s] /\ session' = [session EXCEPT ![c] = s]
      /\ blind' = [blind EXCEPT ![c] = {x \in Sessions : count[x] > 0}]
      /\ UNCHANGED <<queue, bus, run, count, shown, stripped, leaked>>
  BY DEF E!Connect
<1>2. EventTypes'
  BY <1>1 DEF EventInv, EventTypes
<1>3. \A x \in Sessions : Active(x)' = Active(x)
  BY <1>1 DEF Active
<1>4. CountInv' /\ TagInv' /\ E!LeaksOnlyStripped'
  BY <1>1, <1>3 DEF EventInv, CountInv, TagInv, E!LeaksOnlyStripped
<1>5. ToldInv'
  <2> SUFFICES ASSUME NEW d \in Calls, NEW x \in Sessions, conn'[d] = "on", x \notin blind'[d]
               PROVE  /\ (\E q \in Tasks : run'[q].session = x /\ run'[q].pc = "running") => EndsWorking(bus', queue'[d], shown'[d], x)
                      /\ Active(x)' = {} => EndsIdle(bus', queue'[d], shown'[d], x)
    BY DEF ToldInv
  <2>1. CASE d # c
    BY <1>1, <1>3, <2>1 DEF EventInv, EventTypes, ToldInv
  <2>2. CASE d = c
    <3>1. count[x] = 0 /\ queue'[d] = <<>> /\ shown'[d] = {}
      BY <1>1, <2>2 DEF EventInv, EventTypes
    <3>2. Active(x) = {}
      <4>1. IsFiniteSet(Active(x))
        BY FS_Subset DEF Active, EventsAssumption
      <4> QED BY <3>1, <4>1, FS_EmptySet DEF EventInv, CountInv
    <3>3. Len(queue'[d]) = 0
      BY <3>1
    <3>4. EndsIdle(bus', queue'[d], shown'[d], x)
      BY <3>1, <3>3 DEF EndsIdle, Ends
    <3> QED BY <1>1, <3>2, <3>4 DEF Active
  <2> QED BY <2>1, <2>2
<1> QED BY <1>2, <1>4, <1>5 DEF EventInv

LEMMA MessageStep ==
  ASSUME EventsAssumption, EventInv, NEW c \in Calls, NEW r \in Tasks, NEW s \in Sessions,
         E!Message(c, r, s)
  PROVE  EventInv'
<1>1. /\ run[r].pc = "none"
      /\ session' = [session EXCEPT ![c] = s] /\ run' = [run EXCEPT ![r] = [pc |-> "created", session |-> s]]
      /\ count' = [count EXCEPT ![s] = @ + 1]
      /\ UNCHANGED <<conn, filter, queue, bus, shown, blind, stripped, leaked>>
  BY DEF E!Message
<1>2. /\ run' \in [Tasks -> RunStates] /\ run'[r] = [pc |-> "created", session |-> s]
      /\ \A q \in Tasks : q # r => run'[q] = run[q]
  BY <1>1 DEF EventInv, EventTypes, RunStates, E!Maybe
<1>3. EventTypes'
  <2>1. session' \in [Calls -> E!Maybe] /\ count' \in [Sessions -> Nat]
    BY <1>1 DEF EventInv, EventTypes, E!Maybe
  <2>2. \A q \in Tasks : run'[q].pc # "none" => run'[q].session \in Sessions
    <3> TAKE q \in Tasks
    <3>1. CASE q = r
      BY <1>2, <3>1
    <3>2. CASE q # r
      BY <1>2, <3>2 DEF EventInv, EventTypes
    <3> QED BY <3>1, <3>2
  <2> QED BY <1>1, <1>2, <2>1, <2>2 DEF EventInv, EventTypes
<1>4. Active(s)' = Active(s) \cup {r} /\ r \notin Active(s) /\ \A x \in Sessions : x # s => Active(x)' = Active(x)
  BY <1>1, <1>2 DEF Active
<1>5. CountInv'
  <2>1. IsFiniteSet(Active(s))
    BY FS_Subset DEF Active, EventsAssumption
  <2>2. Cardinality(Active(s) \cup {r}) = Cardinality(Active(s)) + 1
    BY <1>4, <2>1, FS_AddElement
  <2>3. \A x \in Sessions : count'[x] = IF x = s THEN count[x] + 1 ELSE count[x]
    BY <1>1 DEF EventInv, EventTypes
  <2> QED BY <1>4, <2>2, <2>3 DEF EventInv, CountInv
<1>6. TagInv' /\ E!LeaksOnlyStripped'
  BY <1>1 DEF EventInv, TagInv, E!LeaksOnlyStripped
<1>7. ToldInv'
  <2> SUFFICES ASSUME NEW d \in Calls, NEW x \in Sessions, conn'[d] = "on", x \notin blind'[d]
               PROVE  /\ (\E q \in Tasks : run'[q].session = x /\ run'[q].pc = "running") => EndsWorking(bus', queue'[d], shown'[d], x)
                      /\ Active(x)' = {} => EndsIdle(bus', queue'[d], shown'[d], x)
    BY DEF ToldInv
  <2>1. (\E q \in Tasks : run'[q].session = x /\ run'[q].pc = "running") => \E q \in Tasks : run[q].session = x /\ run[q].pc = "running"
    BY <1>2
  <2>2. Active(x)' = {} => Active(x) = {}
    BY <1>4
  <2> QED BY <1>1, <2>1, <2>2 DEF EventInv, ToldInv
<1> QED BY <1>3, <1>5, <1>6, <1>7 DEF EventInv

\* A connection that goes tells nobody anything.
LEMMA CloseStep ==
  ASSUME EventsAssumption, EventInv, NEW c \in Calls, E!Close(c)
  PROVE  EventInv'
<1>1. /\ conn' = [conn EXCEPT ![c] = "closed"] /\ queue' = [queue EXCEPT ![c] = <<>>]
      /\ filter' = [filter EXCEPT ![c] = NoSession] /\ session' = [session EXCEPT ![c] = NoSession]
      /\ shown' = [shown EXCEPT ![c] = {}] /\ blind' = [blind EXCEPT ![c] = {}]
      /\ UNCHANGED <<bus, run, count, stripped, leaked>>
  BY DEF E!Close
<1>2. EventTypes'
  <2>1. queue' \in [Calls -> Seq(Nat)]
    BY <1>1 DEF EventInv, EventTypes
  <2>2. \A d \in Calls : Len(queue'[d]) <= QueueSize /\ \A j \in 1 .. Len(queue'[d]) : queue'[d][j] \in 1 .. Len(bus')
    BY <1>1 DEF EventInv, EventTypes, EventsAssumption
  <2>3. filter' \in [Calls -> E!Maybe] /\ session' \in [Calls -> E!Maybe]
    BY <1>1 DEF EventInv, EventTypes, E!Maybe
  <2> QED BY <1>1, <2>1, <2>2, <2>3 DEF EventInv, EventTypes
<1>3. \A x \in Sessions : Active(x)' = Active(x)
  BY <1>1 DEF Active
<1>4. CountInv' /\ TagInv' /\ E!LeaksOnlyStripped'
  BY <1>1, <1>3 DEF EventInv, CountInv, TagInv, E!LeaksOnlyStripped
<1>5. \A d \in Calls : conn'[d] = "on" => d # c /\ conn[d] = "on" /\ blind'[d] = blind[d] /\ queue'[d] = queue[d] /\ shown'[d] = shown[d]
  BY <1>1 DEF EventInv, EventTypes
<1>6. ToldInv'
  BY <1>1, <1>3, <1>5 DEF EventInv, ToldInv
<1> QED BY <1>2, <1>4, <1>6 DEF EventInv

\* The tag of an event changes nothing that the event says.
LEMMA PopStep ==
  ASSUME EventsAssumption, EventInv, NEW c \in Calls, NEW i \in 1 .. Len(bus), E!Forwards(c, bus[i]),
         E!Pop(c, i)
  PROVE  /\ bus' \in Seq(BusEvents) /\ Len(bus') = Len(bus)
         /\ \A j \in 1 .. Len(bus) : bus'[j].kind = bus[j].kind /\ bus'[j].about = bus[j].about
         /\ stripped \subseteq stripped'
         /\ bus[i].kind \in {"response", "error"} => i \in stripped'
         /\ TagInv'
<1> DEFINE e == bus[i]
<1>1. e \in BusEvents /\ bus \in Seq(BusEvents)
  BY DEF EventInv, EventTypes
<1>2. [bus[i] EXCEPT !.tagged = FALSE] \in BusEvents
  BY <1>1 DEF BusEvents
<1>3. bus' = [bus EXCEPT ![i] = [bus[i] EXCEPT !.tagged = FALSE]]
  BY DEF E!Pop
<1>4. bus' \in Seq(BusEvents) /\ Len(bus') = Len(bus)
  BY <1>1, <1>2, <1>3, ExceptSeq
<1>5. \A j \in 1 .. Len(bus) : bus'[j] = IF j = i THEN [bus[i] EXCEPT !.tagged = FALSE] ELSE bus[j]
  BY <1>1, <1>3, ElementOfSeq, LenProperties
<1>6. \A j \in 1 .. Len(bus) : bus[j] \in BusEvents
  BY <1>1
<1>7. bus'[i].kind = bus[i].kind /\ bus'[i].about = bus[i].about /\ ~bus'[i].tagged
  BY <1>5, <1>6 DEF BusEvents
<1>8. \A j \in 1 .. Len(bus) : j # i => bus'[j] = bus[j]
  BY <1>5
<1>9. stripped \subseteq stripped' /\ (e.kind \in {"response", "error"} /\ e.about = session[c] => i \in stripped')
  BY DEF E!Pop
<1>10. e.kind \in {"response", "error"} => i \in stripped'
  <2>1. ~e.tagged \/ e.about = session[c]
    BY DEF E!Forwards
  <2>2. CASE e.about = session[c]
    BY <1>9, <2>2
  <2>3. CASE ~e.tagged
    BY <1>9, <2>3 DEF EventInv, TagInv
  <2> QED BY <2>1, <2>2, <2>3
<1>11. TagInv'
  <2> SUFFICES ASSUME NEW j \in 1 .. Len(bus)
               PROVE  /\ bus'[j].tagged => bus'[j].kind \in {"response", "error"}
                      /\ bus'[j].kind \in {"response", "error"} /\ ~bus'[j].tagged => j \in stripped'
    BY <1>4 DEF TagInv
  <2>1. CASE j = i
    BY <1>7, <1>10, <2>1
  <2>2. CASE j # i
    BY <1>8, <1>9, <2>2 DEF EventInv, TagInv
  <2> QED BY <2>1, <2>2
<1> QED
  BY <1>4, <1>7, <1>8, <1>9, <1>10, <1>11

LEMMA ForwardFailsStep ==
  ASSUME EventsAssumption, EventInv, NEW c \in Calls, E!ForwardFails(c)
  PROVE  EventInv'
<1> DEFINE i == Head(queue[c])
<1>1. /\ conn[c] = "on" /\ queue[c] # <<>> /\ E!Forwards(c, bus[i]) /\ E!Pop(c, i)
      /\ conn' = [conn EXCEPT ![c] = "deaf"] /\ queue' = [queue EXCEPT ![c] = Tail(@)]
      /\ blind' = [blind EXCEPT ![c] = @ \cup {bus[i].about}]
      /\ UNCHANGED <<filter, session, run, count, shown, leaked>>
  BY DEF E!ForwardFails
<1>2. /\ Tail(queue[c]) \in Seq(Nat) /\ Len(queue[c]) \in Nat \ {0} /\ Len(Tail(queue[c])) = Len(queue[c]) - 1
      /\ (\A j \in 1 .. Len(Tail(queue[c])) : Tail(queue[c])[j] = queue[c][j + 1]) /\ i = queue[c][1]
  <2>1. queue[c] \in Seq(Nat) /\ queue[c] # <<>>
    BY <1>1 DEF EventInv, EventTypes
  <2> QED BY <2>1, HeadTailProperties, LenProperties, EmptySeq
<1>3. i \in 1 .. Len(bus)
  BY <1>2 DEF EventInv, EventTypes
<1> HIDE DEF i
<1>4. /\ bus' \in Seq(BusEvents) /\ Len(bus') = Len(bus)
      /\ \A j \in 1 .. Len(bus) : bus'[j].kind = bus[j].kind /\ bus'[j].about = bus[j].about
      /\ stripped \subseteq stripped' /\ TagInv'
  BY <1>1, <1>3, PopStep
<1>5. EventTypes'
  <2>1. queue' \in [Calls -> Seq(Nat)] /\ queue'[c] = Tail(queue[c]) /\ \A d \in Calls : d # c => queue'[d] = queue[d]
    BY <1>1, <1>2 DEF EventInv, EventTypes
  <2>2. \A d \in Calls : Len(queue'[d]) <= QueueSize /\ \A j \in 1 .. Len(queue'[d]) : queue'[d][j] \in 1 .. Len(bus')
    <3> TAKE d \in Calls
    <3>1. Len(queue[d]) <= QueueSize /\ (\A j \in 1 .. Len(queue[d]) : queue[d][j] \in 1 .. Len(bus)) /\ QueueSize \in Nat
      BY DEF EventInv, EventTypes, EventsAssumption
    <3>2. CASE d # c
      BY <1>4, <2>1, <3>1, <3>2
    <3>3. CASE d = c
      <4>1. queue'[d] = Tail(queue[c]) /\ Len(bus') = Len(bus)
        BY <1>4, <2>1, <3>3
      <4>2. Len(queue[c]) \in Nat \ {0} /\ Len(Tail(queue[c])) = Len(queue[c]) - 1
        BY <1>2
      <4>3. \A j \in 1 .. Len(Tail(queue[c])) : Tail(queue[c])[j] \in 1 .. Len(bus)
        <5> TAKE j \in 1 .. Len(Tail(queue[c]))
        <5>1. j + 1 \in 1 .. Len(queue[c])
          BY <4>2
        <5> QED BY <1>2, <3>1, <3>3, <5>1
      <4> QED BY <3>1, <3>3, <4>1, <4>2, <4>3
    <3> QED BY <3>2, <3>3
  <2>3. bus[i] \in BusEvents
    BY <1>3 DEF EventInv, EventTypes
  <2>4. blind' \in [Calls -> SUBSET Sessions]
    BY <1>1, <2>3 DEF EventInv, EventTypes, BusEvents
  <2> QED BY <1>1, <1>4, <2>1, <2>2, <2>4 DEF EventInv, EventTypes
<1>6. \A x \in Sessions : Active(x)' = Active(x)
  BY <1>1 DEF Active
<1>7. CountInv' /\ E!LeaksOnlyStripped'
  BY <1>1, <1>4, <1>6 DEF EventInv, CountInv, E!LeaksOnlyStripped
<1>8. \A d \in Calls : conn'[d] = "on" => d # c /\ conn[d] = "on" /\ blind'[d] = blind[d] /\ queue'[d] = queue[d] /\ shown'[d] = shown[d]
  BY <1>1 DEF EventInv, EventTypes
<1>9. ToldInv'
  <2> SUFFICES ASSUME NEW d \in Calls, NEW x \in Sessions, conn'[d] = "on", x \notin blind'[d]
               PROVE  /\ (\E q \in Tasks : run[q].session = x /\ run[q].pc = "running") => EndsWorking(bus', queue'[d], shown'[d], x)
                      /\ Active(x) = {} => EndsIdle(bus', queue'[d], shown'[d], x)
    BY <1>1, <1>6 DEF ToldInv
  <2>1. queue[d] \in Seq(Nat) /\ \A j \in 1 .. Len(queue[d]) : queue[d][j] \in 1 .. Len(bus)
    BY DEF EventInv, EventTypes
  <2>2. \A j \in 1 .. Len(queue[d]) : bus'[queue[d][j]].about = bus[queue[d][j]].about /\ bus'[queue[d][j]].kind = bus[queue[d][j]].kind
    BY <1>4, <2>1
  <2>3. \A kind, other, now : Ends(bus, queue[d], now, x, kind, other) => Ends(bus', queue[d], now, x, kind, other)
    BY <2>1, <2>2, EndsOfSame
  <2> QED BY <1>8, <2>3 DEF EventInv, ToldInv, EndsWorking, EndsIdle
<1> QED BY <1>4, <1>5, <1>7, <1>9 DEF EventInv

LEMMA ForwardStep ==
  ASSUME EventsAssumption, EventInv, NEW c \in Calls, E!Forward(c)
  PROVE  EventInv'
<1> DEFINE i == Head(queue[c])
           e == bus[i]
<1>1. queue[c] \in Seq(Nat) /\ queue[c] # <<>> /\ conn[c] = "on"
  BY DEF E!Forward, EventInv, EventTypes
<1>2. /\ Tail(queue[c]) \in Seq(Nat) /\ Len(queue[c]) \in Nat \ {0} /\ Len(Tail(queue[c])) = Len(queue[c]) - 1
      /\ (\A j \in 1 .. Len(Tail(queue[c])) : Tail(queue[c])[j] = queue[c][j + 1]) /\ i = queue[c][1]
  BY <1>1, HeadTailProperties, LenProperties, EmptySeq
<1>3. i \in 1 .. Len(bus) /\ e \in BusEvents
  <2>1. i \in 1 .. Len(bus)
    BY <1>2 DEF EventInv, EventTypes
  <2> QED BY <2>1 DEF EventInv, EventTypes
<1>4. /\ queue' = [queue EXCEPT ![c] = Tail(@)] /\ UNCHANGED <<conn, filter, session, run, count, blind>>
      /\ (E!Forwards(c, e) /\ E!Pop(c, i)) \/ (~E!Forwards(c, e) /\ UNCHANGED <<bus, shown, stripped, leaked>>)
  BY DEF E!Forward
<1>5. /\ bus' \in Seq(BusEvents) /\ Len(bus') = Len(bus)
      /\ \A j \in 1 .. Len(bus) : bus'[j].kind = bus[j].kind /\ bus'[j].about = bus[j].about
      /\ stripped \subseteq stripped' /\ TagInv'
      /\ E!Forwards(c, e) /\ e.kind \in {"response", "error"} => i \in stripped'
  <2>1. CASE ~E!Forwards(c, e) /\ UNCHANGED <<bus, stripped>>
    BY <2>1 DEF EventInv, EventTypes, TagInv
  <2>2. CASE E!Forwards(c, e) /\ E!Pop(c, i)
    BY <1>3, <2>2, PopStep
  <2> QED BY <1>4, <2>1, <2>2
<1>6. /\ (E!Forwards(c, e) /\ e.kind = "session_working" /\ shown' = [shown EXCEPT ![c] = @ \cup {e.about}])
      \/ (E!Forwards(c, e) /\ e.kind = "session_idle" /\ shown' = [shown EXCEPT ![c] = @ \ {e.about}])
      \/ ((~E!Forwards(c, e) \/ e.kind \in {"response", "error"}) /\ shown' = shown)
  <2>1. CASE ~E!Forwards(c, e)
    BY <1>4, <2>1
  <2>2. CASE E!Forwards(c, e)
    <3>1. shown' = [shown EXCEPT ![c] = CASE e.kind = "session_working" -> @ \cup {e.about}
                                          [] e.kind = "session_idle" -> @ \ {e.about}
                                          [] OTHER -> @]
      BY <2>2 DEF E!Forward
    <3>2. e.kind \in E!Kinds
      BY <1>3 DEF BusEvents
    <3>3. shown = [shown EXCEPT ![c] = shown[c]]
      BY DEF EventInv, EventTypes
    <3> HIDE DEF e
    <3>4. CASE e.kind = "session_working"
      BY <2>2, <3>1, <3>4
    <3>5. CASE e.kind = "session_idle"
      BY <2>2, <3>1, <3>5
    <3>6. CASE e.kind \in {"response", "error"}
      BY <2>2, <3>1, <3>3, <3>6
    <3> QED BY <3>2, <3>4, <3>5, <3>6 DEF E!Kinds
  <2> QED BY <2>1, <2>2
<1>7. leaked' \subseteq leaked \cup {i} /\ (leaked' # leaked => E!Forwards(c, e) /\ e.kind \in {"response", "error"})
  BY DEF E!Forward
<1>8. queue' \in [Calls -> Seq(Nat)] /\ queue'[c] = Tail(queue[c]) /\ \A d \in Calls : d # c => queue'[d] = queue[d]
  BY <1>2, <1>4 DEF EventInv, EventTypes
<1>9. EventTypes'
  <2>1. \A d \in Calls : Len(queue'[d]) <= QueueSize /\ \A j \in 1 .. Len(queue'[d]) : queue'[d][j] \in 1 .. Len(bus')
    <3> TAKE d \in Calls
    <3>1. Len(queue[d]) <= QueueSize /\ (\A j \in 1 .. Len(queue[d]) : queue[d][j] \in 1 .. Len(bus)) /\ QueueSize \in Nat
      BY DEF EventInv, EventTypes, EventsAssumption
    <3>2. CASE d = c
      <4>1. queue'[d] = Tail(queue[c]) /\ Len(bus') = Len(bus)
        BY <1>5, <1>8, <3>2
      <4>2. Len(queue[c]) \in Nat \ {0} /\ Len(Tail(queue[c])) = Len(queue[c]) - 1
        BY <1>2
      <4>3. \A j \in 1 .. Len(Tail(queue[c])) : Tail(queue[c])[j] \in 1 .. Len(bus)
        <5> TAKE j \in 1 .. Len(Tail(queue[c]))
        <5>1. j + 1 \in 1 .. Len(queue[c])
          BY <4>2
        <5> QED BY <1>2, <3>1, <3>2, <5>1
      <4> QED BY <3>1, <3>2, <4>1, <4>2, <4>3
    <3>3. CASE d # c
      BY <1>5, <1>8, <3>1, <3>3
    <3> QED BY <3>2, <3>3
  <2>2. shown' \in [Calls -> SUBSET Sessions] /\ \A d \in Calls : d # c => shown'[d] = shown[d]
    <3>1. e.about \in Sessions
      BY <1>3 DEF BusEvents
    <3>2. shown \in [Calls -> SUBSET Sessions]
      BY DEF EventInv, EventTypes
    <3> HIDE DEF e
    <3> QED BY <1>6, <3>1, <3>2
  <2>3. \A d \in Calls : conn'[d] = "off" => queue'[d] = <<>> /\ shown'[d] = {}
    BY <1>1, <1>4, <1>8, <2>2 DEF EventInv, EventTypes
  <2> QED BY <1>4, <1>5, <1>8, <2>1, <2>2, <2>3 DEF EventInv, EventTypes
<1>10. \A x \in Sessions : Active(x)' = Active(x)
  BY <1>4 DEF Active
<1>11. CountInv'
  BY <1>4, <1>10 DEF EventInv, CountInv
<1>14. E!LeaksOnlyStripped'
  BY <1>5, <1>7 DEF EventInv, E!LeaksOnlyStripped
<1>15. ToldInv'
  <2> SUFFICES ASSUME NEW d \in Calls, NEW x \in Sessions, conn[d] = "on", x \notin blind[d]
               PROVE  /\ (\E q \in Tasks : run[q].session = x /\ run[q].pc = "running") => EndsWorking(bus', queue'[d], shown'[d], x)
                      /\ Active(x) = {} => EndsIdle(bus', queue'[d], shown'[d], x)
    BY <1>4, <1>10 DEF ToldInv
  <2>1. queue[d] \in Seq(Nat) /\ \A j \in 1 .. Len(queue[d]) : queue[d][j] \in 1 .. Len(bus)
    BY DEF EventInv, EventTypes
  <2>2. \A j \in 1 .. Len(queue[d]) : bus'[queue[d][j]].about = bus[queue[d][j]].about /\ bus'[queue[d][j]].kind = bus[queue[d][j]].kind
    BY <1>5, <2>1
  <2>3. \A kind, other, now : Ends(bus, queue[d], now, x, kind, other) => Ends(bus', queue[d], now, x, kind, other)
    BY <2>1, <2>2, EndsOfSame
  <2>4. CASE d # c
    <3>1. queue'[d] = queue[d] /\ shown'[d] = shown[d]
      BY <1>6, <1>8, <2>4 DEF EventInv, EventTypes
    <3> QED BY <2>3, <3>1 DEF EventInv, ToldInv, EndsWorking, EndsIdle
  <2>5. CASE d = c
    <3>1. shown[c] \in SUBSET Sessions
      BY DEF EventInv, EventTypes
    <3>2. /\ e.kind = "session_working" => shown'[c] = shown[c] \cup {e.about}
          /\ e.kind = "session_idle" => shown'[c] = shown[c] \ {e.about}
          /\ e.kind \notin {"session_working", "session_idle"} => shown'[c] = shown[c]
      <4>1. e.kind \in {"session_working", "session_idle"} => E!Forwards(c, e)
        BY <1>3 DEF EventInv, TagInv, E!Forwards
      <4> QED BY <1>6, <4>1 DEF EventInv, EventTypes
    <3>3. \A kind : Says(bus', i, x, kind) <=> e.about = x /\ e.kind = kind
      BY <1>3, <1>5 DEF Says
    <3> HIDE DEF e, i
    <3>5. EndsWorking(bus, queue[c], shown[c], x) => EndsWorking(bus', queue'[c], shown'[c], x)
      <4> SUFFICES ASSUME EndsWorking(bus, queue[c], shown[c], x)
                   PROVE  EndsWorking(bus', queue'[c], shown'[c], x)
        OBVIOUS
      <4>1. Ends(bus', queue[c], x \in shown[c], x, "session_working", "session_idle")
        BY <2>3, <2>5 DEF EndsWorking
      <4>2. Says(bus', i, x, "session_working") => x \in shown'[c]
        BY <3>2, <3>3
      <4>3. x \in shown[c] /\ ~Says(bus', i, x, "session_idle") => x \in shown'[c]
        BY <3>2, <3>3
      <4>4. Ends(bus', Tail(queue[c]), x \in shown'[c], x, "session_working", "session_idle")
        BY <1>1, <4>1, <4>2, <4>3, EndsOfTail DEF i
      <4> QED BY <1>8, <4>4 DEF EndsWorking
    <3>6. EndsIdle(bus, queue[c], shown[c], x) => EndsIdle(bus', queue'[c], shown'[c], x)
      <4> SUFFICES ASSUME EndsIdle(bus, queue[c], shown[c], x)
                   PROVE  EndsIdle(bus', queue'[c], shown'[c], x)
        OBVIOUS
      <4>1. Ends(bus', queue[c], x \notin shown[c], x, "session_idle", "session_working")
        BY <2>3, <2>5 DEF EndsIdle
      <4>2. Says(bus', i, x, "session_idle") => x \notin shown'[c]
        BY <3>2, <3>3
      <4>3. x \notin shown[c] /\ ~Says(bus', i, x, "session_working") => x \notin shown'[c]
        BY <3>2, <3>3
      <4>4. Ends(bus', Tail(queue[c]), x \notin shown'[c], x, "session_idle", "session_working")
        BY <1>1, <4>1, <4>2, <4>3, EndsOfTail DEF i
      <4> QED BY <1>8, <4>4 DEF EndsIdle
    <3> QED BY <2>5, <3>5, <3>6 DEF EventInv, ToldInv
  <2> QED BY <2>4, <2>5
<1> QED BY <1>5, <1>9, <1>11, <1>14, <1>15 DEF EventInv

\* The run that ends says that its session is idle only when it is the last, as the counter tells.
LEMMA RunEndStep ==
  ASSUME EventsAssumption, EventInv, NEW r \in Tasks, NEW raised \in BOOLEAN, E!RunEnd(r, raised)
  PROVE  EventInv'
<1>1. run[r].session \in Sessions /\ run[r].pc = "running"
  BY DEF E!RunEnd, EventInv, EventTypes
<1>2. PICK s \in Sessions : s = run[r].session
  BY <1>1
<1> DEFINE err == E!Event("error", s)
           nowIdle == E!Event("session_idle", s)
           reported == IF raised THEN E!Emitted(E!Bus, err) ELSE E!Bus
           to == IF E!SaysIdle(s) THEN E!Emitted(reported, nowIdle) ELSE reported
<1>3. /\ err \in BusEvents /\ err.kind = "error" /\ err.about = s /\ (err.tagged <=> err.kind \in {"response", "error"})
      /\ nowIdle \in BusEvents /\ nowIdle.kind = "session_idle" /\ nowIdle.about = s /\ (nowIdle.tagged <=> nowIdle.kind \in {"response", "error"})
  BY EventTyped DEF E!Kinds
<1>4. /\ run' = [run EXCEPT ![r].pc = "over"] /\ count' = [count EXCEPT ![s] = @ - 1] /\ E!Becomes(to)
      /\ UNCHANGED <<conn, filter, session, shown, stripped, leaked>>
  BY <1>2 DEF E!RunEnd
<1> HIDE DEF err, nowIdle
<1>5. BusInv(reported) /\ (reported = E!Bus \/ (reported = E!Emitted(E!Bus, err) /\ Told(reported, E!Bus, err)))
  BY <1>3, BusOfState, EmittedBus
<1> HIDE DEF reported
<1>6. BusInv(to) /\ ((to = reported /\ ~E!SaysIdle(s)) \/ (E!SaysIdle(s) /\ to = E!Emitted(reported, nowIdle) /\ Told(to, reported, nowIdle)))
  BY <1>3, <1>5, EmittedBus
<1> HIDE DEF to
<1>7. /\ run' \in [Tasks -> RunStates] /\ run'[r].pc = "over"
      /\ \A q \in Tasks : run'[q].session = run[q].session /\ (q # r => run'[q] = run[q])
  BY <1>1, <1>4 DEF EventInv, EventTypes, RunStates
<1>8. /\ r \in Active(s) /\ Active(s)' = Active(s) \ {r}
      /\ \A x \in Sessions : x # s => Active(x)' = Active(x)
  BY <1>1, <1>2, <1>7 DEF Active
<1>9. IsFiniteSet(Active(s)) /\ count[s] = Cardinality(Active(s)) /\ count[s] \in Nat \ {0} /\ Cardinality(Active(s)') = count[s] - 1
  <2>1. IsFiniteSet(Active(s))
    BY FS_Subset DEF Active, EventsAssumption
  <2>2. Cardinality(Active(s) \ {r}) = Cardinality(Active(s)) - 1 /\ Cardinality(Active(s)) \in Nat
    BY <1>8, <2>1, FS_RemoveElement, FS_CardinalityType
  <2>3. Cardinality(Active(s)) # 0
    BY <1>8, <2>1, FS_EmptySet
  <2> QED BY <1>1, <1>8, <2>1, <2>2, <2>3 DEF EventInv, CountInv
<1>10. E!SaysIdle(s) <=> Active(s)' = {}
  <2>1. IsFiniteSet(Active(s)')
    BY <1>8, <1>9, FS_Subset
  <2> QED BY <1>9, <2>1, FS_EmptySet DEF E!SaysIdle
<1>11. EventTypes' /\ TagInv' /\ E!LeaksOnlyStripped'
  <2>1. count' \in [Sessions -> Nat]
    BY <1>1, <1>4, <1>9 DEF EventInv, EventTypes
  <2>2. \A q \in Tasks : run'[q].pc # "none" => run'[q].session \in Sessions
    BY <1>1, <1>7 DEF EventInv, EventTypes
  <2> QED BY <1>4, <1>6, <1>7, <2>1, <2>2, Becoming
<1>12. CountInv'
  <2>1. \A x \in Sessions : count'[x] = IF x = s THEN count[x] - 1 ELSE count[x]
    BY <1>4 DEF EventInv, EventTypes
  <2>2. count'[s] = Cardinality(Active(s)')
    BY <1>1, <1>9, <2>1
  <2>3. \A x \in Sessions : x # s => count'[x] = Cardinality(Active(x)')
    BY <1>8, <2>1 DEF EventInv, CountInv
  <2>4. \A x \in Sessions : count'[x] = Cardinality(Active(x)')
    BY <2>2, <2>3
  <2> QED BY <2>4 DEF CountInv
<1>13. ToldInv'
  <2> SUFFICES ASSUME NEW c \in Calls, NEW x \in Sessions, conn'[c] = "on", x \notin blind'[c]
               PROVE  /\ (\E q \in Tasks : run'[q].session = x /\ run'[q].pc = "running") => EndsWorking(bus', queue'[c], shown'[c], x)
                      /\ Active(x)' = {} => EndsIdle(bus', queue'[c], shown'[c], x)
    BY DEF ToldInv
  <2>1. conn[c] = "on" /\ shown'[c] = shown[c] /\ shown[c] \in SUBSET Sessions
    BY <1>4 DEF EventInv, EventTypes
  <2>2. to.bus = bus' /\ to.queue = queue' /\ to.blind = blind' /\ E!Bus.bus = bus /\ E!Bus.queue = queue /\ E!Bus.blind = blind
    BY <1>4 DEF E!Becomes, E!Bus
  <2>3. /\ x \notin reported.blind[c]
        /\ EndsWorking(reported.bus, reported.queue[c], shown[c], x) /\ ~(E!SaysIdle(s) /\ x = s)
             => EndsWorking(bus', queue'[c], shown'[c], x)
        /\ EndsIdle(reported.bus, reported.queue[c], shown[c], x) => EndsIdle(bus', queue'[c], shown'[c], x)
        /\ E!SaysIdle(s) /\ x = s => EndsIdle(bus', queue'[c], shown'[c], x)
    <3>1. CASE to = reported /\ ~E!SaysIdle(s)
      BY <2>1, <2>2, <3>1
    <3>2. CASE E!SaysIdle(s) /\ Told(to, reported, nowIdle)
      BY <1>3, <2>1, <2>2, <3>2 DEF Told
    <3> QED BY <1>6, <3>1, <3>2
  <2>4. /\ x \notin blind[c]
        /\ EndsWorking(bus, queue[c], shown[c], x) => EndsWorking(reported.bus, reported.queue[c], shown[c], x)
        /\ EndsIdle(bus, queue[c], shown[c], x) => EndsIdle(reported.bus, reported.queue[c], shown[c], x)
    <3>1. CASE reported = E!Bus
      BY <2>2, <2>3, <3>1
    <3>2. CASE Told(reported, E!Bus, err)
      BY <1>3, <2>1, <2>2, <2>3, <3>2 DEF Told
    <3> QED BY <1>5, <3>1, <3>2
  <2>5. (\E q \in Tasks : run'[q].session = x /\ run'[q].pc = "running") =>
          (\E q \in Tasks : run[q].session = x /\ run[q].pc = "running") /\ Active(x)' # {}
    BY <1>7 DEF Active
  <2>6. x # s /\ Active(x)' = {} => Active(x) = {}
    BY <1>8
  <2>7. /\ (\E q \in Tasks : run[q].session = x /\ run[q].pc = "running") => EndsWorking(bus, queue[c], shown[c], x)
        /\ Active(x) = {} => EndsIdle(bus, queue[c], shown[c], x)
    BY <2>1, <2>4 DEF EventInv, ToldInv
  <2>8. (\E q \in Tasks : run'[q].session = x /\ run'[q].pc = "running") => EndsWorking(bus', queue'[c], shown'[c], x)
    <3> SUFFICES ASSUME \E q \in Tasks : run'[q].session = x /\ run'[q].pc = "running"
                 PROVE  EndsWorking(bus', queue'[c], shown'[c], x)
      OBVIOUS
    <3>1. EndsWorking(bus, queue[c], shown[c], x) /\ Active(x)' # {}
      BY <2>5, <2>7
    <3>2. ~(E!SaysIdle(s) /\ x = s)
      BY <1>10, <3>1
    <3> QED BY <2>3, <2>4, <3>1, <3>2
  <2>9. Active(x)' = {} => EndsIdle(bus', queue'[c], shown'[c], x)
    <3> SUFFICES ASSUME Active(x)' = {}
                 PROVE  EndsIdle(bus', queue'[c], shown'[c], x)
      OBVIOUS
    <3>1. x = s => E!SaysIdle(s)
      BY <1>10
    <3>2. x # s => EndsIdle(bus, queue[c], shown[c], x)
      BY <2>6, <2>7
    <3> QED BY <2>3, <2>4, <3>1, <3>2
  <2> QED BY <2>8, <2>9
<1> QED BY <1>11, <1>12, <1>13 DEF EventInv

LEMMA EventStep ==
  ASSUME EventsAssumption, EventInv, [E!Next]_E!eventVars
  PROVE  EventInv'
<1>1. CASE UNCHANGED E!eventVars
  <2> USE <1>1 DEF E!eventVars
  <2>1. EventTypes' /\ TagInv' /\ E!LeaksOnlyStripped'
    BY DEF EventInv, EventTypes, TagInv, E!LeaksOnlyStripped
  <2>2. \A s \in Sessions : Active(s)' = Active(s)
    BY DEF Active
  <2>3. CountInv' /\ ToldInv'
    BY <2>2 DEF EventInv, CountInv, ToldInv
  <2> QED BY <2>1, <2>3 DEF EventInv
<1>2. CASE \E c \in Calls : \/ \E s \in E!Maybe : E!Connect(c, s)
                            \/ \E r \in Tasks, s \in Sessions : E!Message(c, r, s)
                            \/ E!Forward(c) \/ E!ForwardFails(c) \/ E!Close(c)
  BY <1>2, ConnectStep, MessageStep, ForwardStep, ForwardFailsStep, CloseStep
<1>3. CASE \E r \in Tasks : E!RunBegin(r) \/ E!RunYield(r) \/ \E raised \in BOOLEAN : E!RunEnd(r, raised)
  BY <1>3, RunBeginStep, RunYieldStep, RunEndStep
<1> QED BY <1>1, <1>2, <1>3 DEF E!Next

-----------------------------------------------------------------------------
(* The run steps one part at a time: a step of it is a step of each of     *)
(* these parts, or leaves it alone.                                        *)

LEMMA ConversationSteps ==
  ASSUME [Next]_vars
  PROVE  [C!Next]_C!compactionVars /\ [B!Next]_B!branchVars /\ [E!Next]_E!eventVars
<1> USE DEF compactionVars, branchVars, eventVars, C!compactionVars, B!branchVars, E!eventVars
<1>1. CASE UNCHANGED vars
  BY <1>1 DEF vars
<1>2. CASE Next
  BY <1>2 DEF Next
<1> QED BY <1>1, <1>2

LEMMA ConversationConstants == CompactionAssumption /\ BranchDistinct /\ EventsAssumption
BY ConversationAssumption DEF CompactionAssumption, BranchDistinct, EventsAssumption

(* However answers, notes, folds, checkpoints and session calls            *)
(* interleave, a turn that matters between the place where folding began   *)
(* and the cursor is in the summary, on its way into it, or waits for it,  *)
(* unless a fold overlapped another or outlived its session, or a          *)
(* structural summary was cut (kernel/compaction.py:198-205, 227-229, 255, *)
(* 277-279, 302-351).                                                      *)
THEOREM NothingIsForgotten == Spec => []NoTurnForgotten
<1>1. Init => CompactionInv
  BY InitCompaction, ConversationConstants DEF Init
<1>2. CompactionInv /\ [Next]_vars => CompactionInv'
  BY CompactionStep, ConversationConstants, ConversationSteps
<1>3. CompactionInv => NoTurnForgotten
  BY CompactionProperties DEF NoTurnForgotten
<1> QED BY <1>1, <1>2, <1>3, PTL DEF Spec

(* When session calls come one after the other, the summary and the        *)
(* history in memory belong to the active session once they are done,      *)
(* whatever the handlers of other sessions did meanwhile, but for notes    *)
(* and the answers given without a session                                 *)
(* (kernel/orchestrator.py:947-1024, 1545, kernel/skill_dispatcher.py:353, *)
(* kernel/plan_executor.py:782, 848, kernel/inline_handler.py:234,         *)
(* kernel/permission_gate.py:92-120).                                      *)
THEOREM MemoryIsOfActive == Spec => []MemoryOfActiveSession
<1>1. Init => CompactionInv
  BY InitCompaction, ConversationConstants DEF Init
<1>2. CompactionInv /\ [Next]_vars => CompactionInv'
  BY CompactionStep, ConversationConstants, ConversationSteps
<1>3. CompactionInv => MemoryOfActiveSession
  BY CompactionProperties DEF MemoryOfActiveSession
<1> QED BY <1>1, <1>2, <1>3, PTL DEF Spec

(* The head in memory is that of the active session's row, whatever        *)
(* switches, forks, deletions and turns are made, one after the other,     *)
(* each in its session (kernel/orchestrator.py:1336-1348,                  *)
(* kernel/inline_handler.py:182-193).                                      *)
THEOREM HeadsAlwaysAgree == Spec => []HeadsAgree
<1>1. Init => BranchInv
  BY InitBranches, ConversationConstants DEF Init
<1>2. BranchInv /\ [Next]_vars => BranchInv'
  BY BranchStep, ConversationConstants, ConversationSteps
<1>3. BranchInv => HeadsAgree
  BY BranchProperties DEF HeadsAgree
<1> QED BY <1>1, <1>2, <1>3, PTL DEF Spec

(* Under the same conditions the parent of a message is a message of its   *)
(* session (kernel/orchestrator.py:1336-1348,                              *)
(* kernel/inline_handler.py:182-193).                                      *)
THEOREM ParentsAlwaysInSession == Spec => []ParentsInSession
<1>1. Init => BranchInv
  BY InitBranches, ConversationConstants DEF Init
<1>2. BranchInv /\ [Next]_vars => BranchInv'
  BY BranchStep, ConversationConstants, ConversationSteps
<1>3. BranchInv => ParentsInSession
  BY BranchProperties DEF ParentsInSession
<1> QED BY <1>1, <1>2, <1>3, PTL DEF Spec

(* However the runs of a session overlap, a connection that has missed     *)
(* nothing and has nothing to forward shows the session as working while a *)
(* run is under way, and as idle when none is                              *)
(* (kernel/orchestrator.py:1601-1633, kernel/message_bus.py:78-81).        *)
THEOREM IndicatorAlwaysTells == Spec => []IndicatorTells
<1>1. Init => EventInv
  BY InitEvents, ConversationConstants DEF Init
<1>2. EventInv /\ [Next]_vars => EventInv'
  BY EventStep, ConversationConstants, ConversationSteps
<1>3. EventInv => IndicatorTells
  BY EventProperties DEF IndicatorTells
<1> QED BY <1>1, <1>2, <1>3, PTL DEF Spec

(* An event reaches another session's connection only after its tag was    *)
(* taken off by one that got it, or whose send failed                      *)
(* (api/routes/chat.py:182-194).                                           *)
THEOREM OnlyStrippedLeaks == Spec => []LeaksOnlyStripped
<1>1. Init => EventInv
  BY InitEvents, ConversationConstants DEF Init
<1>2. EventInv /\ [Next]_vars => EventInv'
  BY EventStep, ConversationConstants, ConversationSteps
<1>3. EventInv => LeaksOnlyStripped
  BY EventProperties DEF LeaksOnlyStripped
<1> QED BY <1>1, <1>2, <1>3, PTL DEF Spec

=============================================================================
