---------------------------- MODULE Memory_proofs ---------------------------
(***************************************************************************)
(* The memory and the consolidation of what was said, for any keys, facts, *)
(* writes and budget of the cache, any sessions, events and bounds; and    *)
(* the types of all five parts.                                            *)
(***************************************************************************)
EXTENDS Conversation_proofs

-----------------------------------------------------------------------------
(* The memory (memory/cache.py, demotion.py, promotion.py): the value      *)
(* demoted last to a key is in the cache, in the flush or on disk at every *)
(* step between them, or given up.                                         *)

Rows == [val : M!Values \cup {None}, task : BOOLEAN]
Entries == [val : M!Values \cup {None}, task : BOOLEAN, dirty : BOOLEAN, pinned : BOOLEAN]
FlushEntries == [key : Calls, val : M!Values, task : BOOLEAN]
Given(f) == f \in Facts /\ demotion[f].pc = "done"

MemoryTypes ==
  /\ disk \in [Calls -> Rows]
  /\ cache \in [Calls -> Entries]
  /\ \A k \in Calls : cache[k].dirty => cache[k].val # None
  /\ demotion \in [Facts -> [pc : {"idle", "embedding", "done"}, key : Calls \cup {None}]]
  /\ \A f \in Facts : demotion[f].pc = "embedding" => demotion[f].key \in Calls
  /\ flush \in [left : SUBSET FlushEntries, now : FlushEntries \cup {None}]
  /\ flush.now = None => flush.left = {}
  /\ promo \in [key : Calls \cup {None}, row : Rows]
  /\ latest \in [Calls -> Facts \cup {None}]

\* A dirty entry is the fact demoted last, or was there before the first.
DirtyInv ==
  \A k \in Calls : cache[k].dirty =>
    cache[k].val = latest[k] \/ (latest[k] = None /\ cache[k].val = Old)

\* What is being flushed was demoted before, one entry for a key.
FlushedInv ==
  /\ \A e \in flush.left : e.val = Old \/ Given(e.val)
  /\ \A d, e \in flush.left : d.key = e.key => d = e
  /\ flush.now # None =>
       /\ flush.now.val = Old \/ Given(flush.now.val)
       /\ \A e \in flush.left : e.key # flush.now.key

\* An entry yet to be written is the newest of its key, or one newer is cached to be flushed after it.
LeftInv ==
  \A e \in flush.left :
    e.val = latest[e.key] \/ latest[e.key] = None \/ e.key \in lost \/ cache[e.key].dirty

\* The entry just written is on disk, if it is the newest.
NowInv ==
  flush.now # None /\ flush.now.val = latest[flush.now.key] /\ flush.now.key \notin lost =>
    disk[flush.now.key].val = flush.now.val

LatestInv == \A k \in Calls : latest[k] # None => Given(latest[k])

MemoryInv ==
  MemoryTypes /\ DirtyInv /\ FlushedInv /\ LeftInv /\ NowInv /\ LatestInv /\ M!NoFactLost

MemoryAssumption == None \notin M!Values /\ Old \notin Facts /\ None \notin FlushEntries /\ Absorbing \subseteq Facts

\* Once the session is purged, nothing of it is in memory or on its way there, or the code knew.
Cleared ==
  /\ \A k \in Calls : ~cache[k].task /\ ~disk[k].task
  /\ ~promo.row.task
  /\ flush.now # None => \A e \in flush.left \cup {flush.now} : ~e.task
  /\ \A f \in Absorbing : demotion[f].pc # "embedding"

PurgeInv == purge = "done" /\ ~astray => Cleared

(* The two actions that evict, whatever is evicted: what the proofs need   *)
(* of the budget is that the evicted entries are cached.                   *)
DemoteInto(f, evicted) ==
  LET k == demotion[f].key
      with == [cache EXCEPT ![k] = [val |-> f, task |-> f \in Absorbing, dirty |-> TRUE, pinned |-> FALSE]]
  IN /\ demotion[f].pc = "embedding"
     /\ demotion' = [demotion EXCEPT ![f].pc = "done"]
     /\ latest' = [latest EXCEPT ![k] = f]
     /\ cache' = M!Without(with, evicted)
     /\ lost' = (lost \ {k}) \cup {x \in evicted : with[x].dirty /\ latest'[x] # None}
     /\ UNCHANGED <<disk, flush, promo, written, purge, astray>>

PromoteInto(evicted) ==
  LET k == promo.key
      with == [cache EXCEPT ![k] = [val |-> promo.row.val, task |-> promo.row.task,
                                    dirty |-> FALSE, pinned |-> FALSE]]
  IN /\ k # None
     /\ promo' = [key |-> None, row |-> M!NoRow]
     /\ \/ ~cache[k].dirty /\ cache' = M!Without(with, evicted) /\ M!Loses({x \in evicted : with[x].dirty})
        \/ UNCHANGED <<cache, lost>>
     /\ UNCHANGED <<disk, demotion, flush, written, purge, latest, astray>>

MemoryMoves ==
  \/ \E f \in Facts : M!DemoteRedundant(f) \/ (\E evicted \in SUBSET Calls : DemoteInto(f, evicted)) \/ \E k \in Calls : M!DemoteBegin(f, k)
  \/ M!FlushBegin \/ M!FlushNext \/ (\E evicted \in SUBSET Calls : PromoteInto(evicted)) \/ M!PurgeBegin \/ M!PurgeEnd
  \/ \E k \in Calls : M!PromoteBegin(k) \/ M!Pin(k) \/ M!DeleteRow(k) \/ \E w \in Writes : M!WriteRow(w, k) \/ M!SkillWrites(w, k)

LEMMA EmptyTyped ==
  ASSUME MemoryAssumption
  PROVE  /\ M!NoRow \in Rows /\ M!NoRow.val = None
         /\ M!NoEntry \in Entries /\ M!NoEntry.val = None /\ ~M!NoEntry.dirty
         /\ M!NoFlush \in [left : SUBSET FlushEntries, now : FlushEntries \cup {None}]
         /\ M!NoFlush.now = None /\ M!NoFlush.left = {}
BY DEF M!NoRow, M!NoEntry, M!NoFlush, Rows, Entries

LEMMA InitMemory ==
  ASSUME MemoryAssumption, M!Init
  PROVE  MemoryInv
<1> DEFINE OldRow == [val |-> Old, task |-> FALSE]
           Warm == [val |-> Old, task |-> FALSE, dirty |-> TRUE, pinned |-> FALSE]
<1>1. OldRow \in Rows /\ Warm \in Entries /\ Warm.val = Old /\ Old # None
  BY DEF Rows, Entries, M!Values, MemoryAssumption
<1>2. \A k \in Calls : cache[k] = Warm \/ cache[k] = M!NoEntry
  BY DEF M!Init
<1>3. cache \in [Calls -> Entries]
  BY <1>1, EmptyTyped DEF M!Init
<1>4. disk \in [Calls -> Rows]
  BY <1>1, EmptyTyped DEF M!Init
<1>5. flush = M!NoFlush /\ promo = [key |-> None, row |-> M!NoRow] /\ latest = [k \in Calls |-> None]
      /\ demotion = [f \in Facts |-> [pc |-> "idle", key |-> None]]
  BY DEF M!Init
<1> HIDE DEF Warm
<1>6. MemoryTypes
  BY <1>1, <1>2, <1>3, <1>4, <1>5, EmptyTyped DEF MemoryTypes
<1>7. DirtyInv
  BY <1>1, <1>2, <1>5, EmptyTyped DEF DirtyInv
<1>8. FlushedInv /\ LeftInv /\ NowInv /\ LatestInv /\ M!NoFactLost
  BY <1>5, EmptyTyped DEF FlushedInv, LeftInv, NowInv, LatestInv, M!NoFactLost
<1> QED BY <1>6, <1>7, <1>8 DEF MemoryInv

LEMMA EvictionsAreKeys ==
  ASSUME NEW c, NEW evicted \in M!Evictions(c)
  PROVE  evicted \subseteq Calls
BY DEF M!Evictions, M!Held

LEMMA WithoutTyped ==
  ASSUME MemoryAssumption, NEW c \in [Calls -> Entries], NEW evicted \in SUBSET Calls
  PROVE  /\ M!Without(c, evicted) \in [Calls -> Entries]
         /\ \A k \in Calls : M!Without(c, evicted)[k] = IF k \in evicted THEN M!NoEntry ELSE c[k]
BY EmptyTyped DEF M!Without

-----------------------------------------------------------------------------
(* Demotions.                                                              *)

LEMMA BeginKeeps ==
  ASSUME MemoryAssumption, MemoryInv, NEW f \in Facts, NEW k \in Calls, M!DemoteBegin(f, k)
  PROVE  MemoryInv'
<1> DEFINE own == [pc |-> "embedding", key |-> k]
<1>1. /\ demotion[f].pc = "idle" /\ demotion' = [demotion EXCEPT ![f] = own]
      /\ UNCHANGED <<disk, cache, flush, promo, latest, lost>>
  BY DEF M!DemoteBegin
<1>2. own \in [pc : {"idle", "embedding", "done"}, key : Calls \cup {None}] /\ own.key = k
  OBVIOUS
<1> HIDE DEF own
<1>3. \A g \in Facts : demotion'[g] = demotion[g] \/ (g = f /\ demotion'[g] = own)
  BY <1>1 DEF MemoryInv, MemoryTypes
<1>4. MemoryTypes'
  BY <1>1, <1>2, <1>3 DEF MemoryInv, MemoryTypes
<1>5. \A g : Given(g) => Given(g)'
  BY <1>1, <1>3 DEF Given
<1>6. FlushedInv' /\ LatestInv'
  BY <1>1, <1>5 DEF MemoryInv, FlushedInv, LatestInv
<1> QED BY <1>1, <1>4, <1>6 DEF MemoryInv, DirtyInv, LeftInv, NowInv, M!NoFactLost, M!Saved, M!InFlight

LEMMA RedundantKeeps ==
  ASSUME MemoryAssumption, MemoryInv, NEW f \in Facts, M!DemoteRedundant(f)
  PROVE  MemoryInv'
<1>1. /\ demotion' = [demotion EXCEPT ![f].pc = "done"]
      /\ UNCHANGED <<disk, cache, flush, promo, latest, lost>>
  BY DEF M!DemoteRedundant
<1>2. MemoryTypes'
  BY <1>1 DEF MemoryInv, MemoryTypes
<1>3. \A g : Given(g) => Given(g)'
  BY <1>1 DEF MemoryInv, MemoryTypes, Given
<1>4. FlushedInv' /\ LatestInv'
  BY <1>1, <1>3 DEF MemoryInv, FlushedInv, LatestInv
<1> QED BY <1>1, <1>2, <1>4 DEF MemoryInv, DirtyInv, LeftInv, NowInv, M!NoFactLost, M!Saved, M!InFlight

\* A fact is demoted once, so nothing that is being flushed is its value.
LEMMA DemoteKeeps ==
  ASSUME MemoryAssumption, MemoryInv, NEW f \in Facts, NEW evicted \in SUBSET Calls,
         DemoteInto(f, evicted)
  PROVE  MemoryInv'
<1> DEFINE k == demotion[f].key
           entry == [val |-> f, task |-> f \in Absorbing, dirty |-> TRUE, pinned |-> FALSE]
           with == [cache EXCEPT ![k] = entry]
<1>1. /\ cache' = M!Without(with, evicted)
      /\ lost' = (lost \ {k}) \cup {x \in evicted : with[x].dirty /\ latest'[x] # None}
  BY DEF DemoteInto
<1>2. /\ demotion[f].pc = "embedding" /\ demotion' = [demotion EXCEPT ![f].pc = "done"]
      /\ latest' = [latest EXCEPT ![k] = f]
      /\ UNCHANGED <<disk, flush, promo>>
  BY DEF DemoteInto
<1>3. k \in Calls /\ f # None /\ f # Old
  BY <1>2 DEF MemoryInv, MemoryTypes, MemoryAssumption, M!Values
<1>4. entry \in Entries /\ entry.val = f /\ entry.dirty
  BY DEF Entries, M!Values
<1> HIDE DEF entry
<1>5. with \in [Calls -> Entries] /\ with[k] = entry /\ \A x \in Calls \ {k} : with[x] = cache[x]
  BY <1>3, <1>4 DEF MemoryInv, MemoryTypes
<1>6. latest' \in [Calls -> Facts \cup {None}] /\ latest'[k] = f /\ \A x \in Calls \ {k} : latest'[x] = latest[x]
  BY <1>2, <1>3 DEF MemoryInv, MemoryTypes
<1>7. /\ cache' \in [Calls -> Entries]
      /\ \A x \in Calls : cache'[x] = IF x \in evicted THEN M!NoEntry ELSE with[x]
  <2> HIDE DEF with, k
  <2> QED BY <1>1, <1>5, WithoutTyped
<1> HIDE DEF with, k
<1>8. /\ demotion' \in [Facts -> [pc : {"idle", "embedding", "done"}, key : Calls \cup {None}]]
      /\ \A g \in Facts : demotion'[g].pc = "embedding" => demotion'[g].key \in Calls
  BY <1>2 DEF MemoryInv, MemoryTypes
<1>9. MemoryTypes'
  BY <1>2, <1>3, <1>4, <1>5, <1>6, <1>7, <1>8, EmptyTyped DEF MemoryInv, MemoryTypes
<1>10. /\ \A g : Given(g) => Given(g)'
       /\ Given(f)' /\ ~Given(f)
  BY <1>2 DEF MemoryInv, MemoryTypes, Given
<1>11. DirtyInv'
  BY <1>4, <1>5, <1>6, <1>7, EmptyTyped DEF MemoryInv, DirtyInv
<1>12. FlushedInv' /\ LatestInv'
  <2>1. FlushedInv'
    BY <1>2, <1>10 DEF MemoryInv, FlushedInv
  <2>2. \A x \in Calls : latest'[x] # None => latest'[x] = f \/ latest'[x] = latest[x]
    BY <1>6
  <2>3. LatestInv'
    <3> SUFFICES ASSUME NEW x \in Calls, latest'[x] # None
                 PROVE  latest'[x] \in Facts /\ demotion'[latest'[x]].pc = "done"
      BY DEF LatestInv, Given
    <3>1. CASE latest'[x] = f
      BY <1>10, <3>1 DEF Given
    <3>2. CASE latest'[x] = latest[x] /\ x # k
      BY <1>10, <3>2 DEF MemoryInv, LatestInv, Given
    <3> QED BY <1>6, <3>1, <3>2
  <2> QED BY <2>1, <2>3
<1>13. \A x \in Calls : x # k /\ x \in lost => x \in lost'
  BY <1>1
<1>14. \A x \in Calls : with[x].dirty => cache'[x] = with[x] \/ latest'[x] = None \/ x \in lost'
  BY <1>1, <1>7
<1>15. LeftInv'
  BY <1>2, <1>3, <1>4, <1>5, <1>6, <1>13, <1>14 DEF MemoryInv, MemoryTypes, LeftInv, FlushEntries
<1>16. NowInv'
  <2>1. flush.now # None => flush.now \in FlushEntries /\ flush.now.key \in Calls /\ flush.now.val # f
    BY <1>3, <1>10 DEF MemoryInv, MemoryTypes, FlushedInv, FlushEntries
  <2>2. \A x \in Calls \ {k} : x \notin lost' => x \notin lost
    BY <1>1
  <2> QED BY <1>2, <1>6, <2>1, <2>2 DEF MemoryInv, NowInv
<1>17. M!NoFactLost'
  <2> SUFFICES ASSUME NEW x \in Calls, latest'[x] # None, x \notin lost'
               PROVE  M!Saved(x)'
    BY DEF M!NoFactLost
  <2>1. CASE x = k
    BY <1>4, <1>5, <1>6, <1>14, <2>1 DEF M!Saved
  <2>2. CASE x # k
    BY <1>2, <1>5, <1>6, <1>13, <1>14, <2>2 DEF MemoryInv, M!NoFactLost, M!Saved, M!InFlight
  <2> QED BY <2>1, <2>2
<1> QED BY <1>9, <1>11, <1>12, <1>15, <1>16, <1>17 DEF MemoryInv

-----------------------------------------------------------------------------
(* The flush.                                                              *)

LEMMA FlushBeginKeeps ==
  ASSUME MemoryAssumption, MemoryInv, M!FlushBegin
  PROVE  MemoryInv'
<1>1. PICK e \in M!Copies :
        /\ flush' = [left |-> M!Copies \ {e}, now |-> e]
        /\ disk' = [disk EXCEPT ![e.key] = M!Row(e)]
  BY DEF M!FlushBegin
<1>2. flush = M!NoFlush /\ UNCHANGED <<cache, demotion, promo, latest, lost>>
  BY DEF M!FlushBegin
<1>3. \A d \in M!Copies : d \in FlushEntries /\ d.key \in Calls /\ cache[d.key].dirty /\ d.val = cache[d.key].val
  <2> TAKE d \in M!Copies
  <2>1. PICK x \in Calls : cache[x].dirty /\ d = [key |-> x, val |-> cache[x].val, task |-> cache[x].task]
    BY DEF M!Copies
  <2>2. cache[x].val \in M!Values /\ cache[x].task \in BOOLEAN
    BY <2>1 DEF MemoryInv, MemoryTypes, Entries
  <2> QED BY <2>1, <2>2 DEF FlushEntries
<1>4. \A c, d \in M!Copies : c.key = d.key => c = d
  BY DEF M!Copies
<1>5. M!Row(e) \in Rows /\ M!Row(e).val = e.val
  BY <1>3 DEF M!Row, Rows, FlushEntries
<1>6. disk' \in [Calls -> Rows] /\ disk'[e.key].val = e.val /\ \A x \in Calls \ {e.key} : disk'[x] = disk[x]
  BY <1>1, <1>3, <1>5 DEF MemoryInv, MemoryTypes
<1>7. MemoryTypes'
  <2>1. flush'.now = e /\ e # None /\ flush' \in [left : SUBSET FlushEntries, now : FlushEntries \cup {None}]
    BY <1>1, <1>3 DEF MemoryAssumption
  <2> QED BY <1>2, <1>6, <2>1 DEF MemoryInv, MemoryTypes
<1>8. \A d \in M!Copies : d.val = Old \/ Given(d.val)
  <2> TAKE d \in M!Copies
  <2>1. cache[d.key].dirty /\ d.val = cache[d.key].val /\ d.val # None /\ d.key \in Calls
    BY <1>3 DEF MemoryInv, MemoryTypes
  <2> QED BY <2>1 DEF MemoryInv, DirtyInv, LatestInv
<1>9. FlushedInv'
  BY <1>1, <1>2, <1>4, <1>8 DEF FlushedInv, Given
<1>10. DirtyInv' /\ LatestInv'
  BY <1>2 DEF MemoryInv, DirtyInv, LatestInv, Given
<1>11. LeftInv'
  BY <1>1, <1>2, <1>3 DEF LeftInv
<1>12. NowInv'
  BY <1>1, <1>6 DEF NowInv
<1>13. M!NoFactLost'
  <2> SUFFICES ASSUME NEW x \in Calls, latest[x] # None, x \notin lost
               PROVE  disk'[x].val = latest[x] \/ (cache[x].val = latest[x] /\ cache[x].dirty)
    BY <1>2 DEF M!NoFactLost, M!Saved
  <2>1. disk[x].val = latest[x] \/ (cache[x].val = latest[x] /\ cache[x].dirty)
    BY <1>2, EmptyTyped DEF MemoryInv, M!NoFactLost, M!Saved, M!InFlight
  <2> QED BY <1>3, <1>6, <2>1 DEF MemoryInv, DirtyInv
<1> QED BY <1>7, <1>9, <1>10, <1>11, <1>12, <1>13 DEF MemoryInv

\* What the code marks clean is what it has written, or its value is given up.
LEMMA FlushNextKeeps ==
  ASSUME MemoryAssumption, MemoryInv, M!FlushNext
  PROVE  MemoryInv'
<1> DEFINE k == flush.now.key
<1>1. /\ flush.now # None /\ cache' = M!MarkClean
      /\ lost' = lost \cup {x \in (IF cache[k].dirty /\ cache[k].val # flush.now.val THEN {k} ELSE {}) :
                              latest[x] # None}
      /\ UNCHANGED <<demotion, promo, latest>>
  BY DEF M!FlushNext, M!Loses
<1>2. flush.now \in FlushEntries /\ k \in Calls /\ flush.left \subseteq FlushEntries
  BY <1>1 DEF MemoryInv, MemoryTypes, FlushEntries
<1> HIDE DEF k
<1>3. /\ cache' \in [Calls -> Entries] /\ ~cache'[k].dirty /\ cache'[k].val = cache[k].val
      /\ \A x \in Calls \ {k} : cache'[x] = cache[x]
  <2> DEFINE own == [cache[k] EXCEPT !.dirty = FALSE]
  <2>1. cache[k] \in Entries /\ cache \in [Calls -> Entries] /\ (cache[k].dirty => cache[k].val # None)
    BY <1>2 DEF MemoryInv, MemoryTypes
  <2>2. own \in Entries /\ ~own.dirty /\ own.val = cache[k].val
    BY <2>1 DEF Entries
  <2>3. cache' = IF cache[k].val = None THEN cache ELSE [cache EXCEPT ![k] = own]
    BY <1>1 DEF M!MarkClean, k
  <2> HIDE DEF own
  <2> QED BY <1>2, <2>1, <2>2, <2>3
<1>4. \/ flush.left = {} /\ flush' = M!NoFlush /\ disk' = disk
      \/ \E e \in flush.left : flush' = [left |-> flush.left \ {e}, now |-> e] /\ disk' = [disk EXCEPT ![e.key] = M!Row(e)]
  BY DEF M!FlushNext
\* The newest value of the entry's key has reached the disk, or is given up.
<1>5. latest[k] # None /\ k \notin lost' =>
        disk[k].val = latest[k] \/ \E e \in flush.left : e.key = k /\ e.val = latest[k]
  <2> SUFFICES ASSUME latest[k] # None, k \notin lost'
               PROVE  disk[k].val = latest[k] \/ \E e \in flush.left : e.key = k /\ e.val = latest[k]
    OBVIOUS
  <2>1. k \notin lost /\ (cache[k].dirty => cache[k].val = flush.now.val)
    BY <1>1
  <2>2. cache[k].val = latest[k] /\ cache[k].dirty => flush.now.val = latest[k]
    BY <2>1
  <2>3. flush.now.val = latest[k] => disk[k].val = latest[k]
    BY <1>1, <2>1 DEF MemoryInv, NowInv, k
  <2> QED BY <1>2, <2>1, <2>2, <2>3 DEF MemoryInv, M!NoFactLost, M!Saved, M!InFlight
<1>6. DirtyInv'
  BY <1>1, <1>2, <1>3 DEF MemoryInv, DirtyInv
<1>7. LatestInv'
  BY <1>1 DEF MemoryInv, LatestInv, Given
<1>8. \A e \in flush.left : e \in FlushEntries /\ e.key \in Calls /\ e.key # k /\ M!Row(e) \in Rows /\ M!Row(e).val = e.val
  BY <1>1, <1>2 DEF MemoryInv, FlushedInv, FlushEntries, M!Row, Rows, k
<1>9. lost \subseteq lost'
  BY <1>1
<1>10. CASE flush.left = {} /\ flush' = M!NoFlush /\ disk' = disk
  <2>1. MemoryTypes'
    BY <1>1, <1>2, <1>3, <1>10, EmptyTyped DEF MemoryInv, MemoryTypes
  <2>2. FlushedInv' /\ LeftInv' /\ NowInv'
    BY <1>10, EmptyTyped DEF FlushedInv, LeftInv, NowInv
  <2>3. M!NoFactLost'
    <3> SUFFICES ASSUME NEW x \in Calls, latest[x] # None, x \notin lost'
                 PROVE  disk[x].val = latest[x] \/ (cache'[x].val = latest[x] /\ cache'[x].dirty)
      BY <1>1, <1>10 DEF M!NoFactLost, M!Saved
    <3>1. CASE x = k
      BY <1>5, <1>10, <3>1
    <3>2. CASE x # k
      BY <1>3, <1>9, <1>10, <3>2 DEF MemoryInv, M!NoFactLost, M!Saved, M!InFlight, k
    <3> QED BY <3>1, <3>2
  <2> QED BY <1>6, <1>7, <2>1, <2>2, <2>3 DEF MemoryInv
<1>11. ASSUME NEW e \in flush.left,
              flush' = [left |-> flush.left \ {e}, now |-> e],
              disk' = [disk EXCEPT ![e.key] = M!Row(e)]
       PROVE  MemoryInv'
  <2>1. flush'.now = e /\ flush'.left = flush.left \ {e} /\ e # None
    BY <1>8, <1>11 DEF MemoryAssumption
  <2>2. disk' \in [Calls -> Rows] /\ disk'[e.key].val = e.val /\ \A x \in Calls \ {e.key} : disk'[x] = disk[x]
    BY <1>8, <1>11 DEF MemoryInv, MemoryTypes
  <2>3. MemoryTypes'
    <3>1. flush' \in [left : SUBSET FlushEntries, now : FlushEntries \cup {None}]
      BY <1>2, <1>11
    <3>2. \A x \in Calls : cache'[x].dirty => cache'[x].val # None
      BY <1>2, <1>3 DEF MemoryInv, MemoryTypes
    <3> QED BY <1>1, <1>3, <2>1, <2>2, <3>1, <3>2 DEF MemoryInv, MemoryTypes
  <2>4. FlushedInv'
    BY <1>1, <2>1 DEF MemoryInv, FlushedInv, Given
  <2>5. LeftInv'
    BY <1>1, <1>3, <1>8, <1>9, <2>1 DEF MemoryInv, LeftInv
  <2>6. NowInv'
    BY <2>1, <2>2 DEF NowInv
  <2>7. M!NoFactLost'
    <3> SUFFICES ASSUME NEW x \in Calls, latest[x] # None, x \notin lost'
                 PROVE  \/ disk'[x].val = latest[x]
                        \/ \E d \in flush.left : d.key = x /\ d.val = latest[x]
                        \/ cache'[x].val = latest[x] /\ cache'[x].dirty
      BY <1>1, <2>1 DEF M!NoFactLost, M!Saved, M!InFlight
    <3>1. CASE x = k
      BY <1>5, <1>8, <2>2, <3>1
    <3>2. CASE x # k /\ x # e.key
      BY <1>3, <1>9, <2>2, <3>2 DEF MemoryInv, M!NoFactLost, M!Saved, M!InFlight, k
    <3>3. CASE x # k /\ x = e.key
      BY <1>3, <1>8, <1>9, <2>2, <3>3 DEF MemoryInv, LeftInv, DirtyInv
    <3> QED BY <3>1, <3>2, <3>3
  <2> QED BY <1>6, <1>7, <2>3, <2>4, <2>5, <2>6, <2>7 DEF MemoryInv
<1> QED BY <1>4, <1>10, <1>11

-----------------------------------------------------------------------------
(* Promotion, pins, and what goes past the cache.                          *)

LEMMA PromoteKeeps ==
  ASSUME MemoryAssumption, MemoryInv, NEW evicted \in SUBSET Calls, PromoteInto(evicted)
  PROVE  MemoryInv'
<1> DEFINE k == promo.key
           entry == [val |-> promo.row.val, task |-> promo.row.task, dirty |-> FALSE, pinned |-> FALSE]
           with == [cache EXCEPT ![k] = entry]
<1>1. /\ k \in Calls /\ promo' = [key |-> None, row |-> M!NoRow]
      /\ UNCHANGED <<disk, demotion, flush, latest>>
  BY DEF PromoteInto, MemoryInv, MemoryTypes
<1>2. promo' \in [key : Calls \cup {None}, row : Rows]
  BY <1>1, EmptyTyped
<1>3. FlushedInv' /\ LatestInv'
  BY <1>1 DEF MemoryInv, FlushedInv, LatestInv, Given
<1>4. CASE UNCHANGED <<cache, lost>>
  BY <1>1, <1>2, <1>3, <1>4 DEF MemoryInv, MemoryTypes, DirtyInv, LeftInv, NowInv, M!NoFactLost,
     M!Saved, M!InFlight
<1>5. ASSUME ~cache[k].dirty, cache' = M!Without(with, evicted),
             M!Loses({x \in evicted : with[x].dirty})
      PROVE  MemoryInv'
  <2>1. entry \in Entries /\ ~entry.dirty
    BY DEF MemoryInv, MemoryTypes, Rows, Entries
  <2> HIDE DEF entry
  <2>2. with \in [Calls -> Entries] /\ ~with[k].dirty /\ \A x \in Calls \ {k} : with[x] = cache[x]
    BY <1>1, <2>1 DEF MemoryInv, MemoryTypes
  <2> HIDE DEF with, k
  <2>4. /\ cache' \in [Calls -> Entries]
        /\ \A x \in Calls : cache'[x] = IF x \in evicted THEN M!NoEntry ELSE with[x]
    BY <1>5, <2>2, WithoutTyped
  <2>5. /\ \A x \in Calls : cache'[x].dirty => cache'[x] = cache[x]
        /\ \A x \in Calls : cache[x].dirty => cache'[x] = cache[x] \/ latest[x] = None \/ x \in lost'
    BY <1>5, <2>2, <2>4, EmptyTyped DEF M!Loses
  <2>6. lost \subseteq lost'
    BY <1>5 DEF M!Loses
  <2>7. MemoryTypes' /\ DirtyInv'
    BY <1>1, <1>2, <2>4, <2>5 DEF MemoryInv, MemoryTypes, DirtyInv
  <2>8. LeftInv'
    BY <1>1, <2>5, <2>6 DEF MemoryInv, MemoryTypes, LeftInv, FlushEntries
  <2>9. NowInv'
    BY <1>1, <2>6 DEF MemoryInv, NowInv
  <2>10. M!NoFactLost'
    BY <1>1, <2>5, <2>6 DEF MemoryInv, M!NoFactLost, M!Saved, M!InFlight
  <2> QED BY <1>3, <2>7, <2>8, <2>9, <2>10 DEF MemoryInv
<1> QED BY <1>4, <1>5 DEF PromoteInto

LEMMA PinKeeps ==
  ASSUME MemoryAssumption, MemoryInv, NEW k \in Calls, M!Pin(k)
  PROVE  MemoryInv'
<1> DEFINE own == [cache[k] EXCEPT !.pinned = TRUE]
<1>1. cache' = [cache EXCEPT ![k] = own] /\ UNCHANGED <<disk, demotion, flush, promo, latest, lost>>
  BY DEF M!Pin
<1>2. cache[k] \in Entries /\ cache \in [Calls -> Entries]
  BY DEF MemoryInv, MemoryTypes
<1>3. own \in Entries /\ own.val = cache[k].val /\ own.dirty = cache[k].dirty
  BY <1>2 DEF Entries
<1> HIDE DEF own
<1>4. cache' \in [Calls -> Entries] /\ \A x \in Calls : cache'[x].val = cache[x].val /\ cache'[x].dirty = cache[x].dirty
  BY <1>1, <1>2, <1>3
<1>5. MemoryTypes' /\ DirtyInv'
  BY <1>1, <1>4 DEF MemoryInv, MemoryTypes, DirtyInv
<1>6. FlushedInv' /\ LeftInv' /\ NowInv' /\ LatestInv'
  BY <1>1, <1>4 DEF MemoryInv, MemoryTypes, FlushedInv, LeftInv, NowInv, LatestInv, Given, FlushEntries
<1>7. M!NoFactLost'
  BY <1>1, <1>4 DEF MemoryInv, M!NoFactLost, M!Saved, M!InFlight
<1> QED BY <1>5, <1>6, <1>7 DEF MemoryInv

\* A write or deletion of a row gives up what was demoted to its key.
LEMMA RowKeeps ==
  ASSUME MemoryAssumption, MemoryInv, NEW k \in Calls, NEW new \in Rows,
         disk' = [disk EXCEPT ![k] = new], M!Loses({k}), UNCHANGED <<cache, demotion, flush, promo, latest>>
  PROVE  MemoryInv'
<1>1. disk' \in [Calls -> Rows] /\ \A x \in Calls \ {k} : disk'[x] = disk[x]
  BY DEF MemoryInv, MemoryTypes
<1>2. lost \subseteq lost' /\ (latest[k] # None => k \in lost')
  BY DEF M!Loses
<1>3. MemoryTypes' /\ DirtyInv' /\ FlushedInv' /\ LatestInv'
  BY <1>1 DEF MemoryInv, MemoryTypes, DirtyInv, FlushedInv, LatestInv, Given
<1>4. LeftInv'
  BY <1>2 DEF MemoryInv, LeftInv
<1>5. NowInv'
  BY <1>1, <1>2 DEF MemoryInv, MemoryTypes, NowInv, FlushEntries, MemoryAssumption
<1>6. M!NoFactLost'
  BY <1>1, <1>2 DEF MemoryInv, M!NoFactLost, M!Saved, M!InFlight
<1> QED BY <1>3, <1>4, <1>5, <1>6 DEF MemoryInv

LEMMA PurgeKeeps ==
  ASSUME MemoryAssumption, MemoryInv, M!PurgeEnd
  PROVE  MemoryInv'
<1>1. /\ cache' = M!Without(cache, M!PurgedCache)
      /\ disk' = [x \in Calls |-> IF disk[x].task THEN M!NoRow ELSE disk[x]]
      /\ lost' = lost \cup {x \in {y \in Calls : cache[y].task \/ disk[y].task} : latest[x] # None}
      /\ UNCHANGED <<demotion, flush, promo, latest>>
  BY DEF M!PurgeEnd, M!Loses
<1>2. cache' \in [Calls -> Entries] /\ \A x \in Calls : cache'[x] = IF x \in M!PurgedCache THEN M!NoEntry ELSE cache[x]
  BY <1>1, WithoutTyped DEF MemoryInv, MemoryTypes, M!PurgedCache
<1>3. disk' \in [Calls -> Rows] /\ \A x \in Calls : disk'[x] = disk[x] \/ latest[x] = None \/ x \in lost'
  BY <1>1, EmptyTyped DEF MemoryInv, MemoryTypes
<1>4. /\ \A x \in Calls : cache'[x].dirty => cache'[x] = cache[x]
      /\ \A x \in Calls : cache'[x] = cache[x] \/ latest[x] = None \/ x \in lost'
  BY <1>1, <1>2, EmptyTyped DEF M!PurgedCache
<1>5. lost \subseteq lost'
  BY <1>1
<1>6. MemoryTypes' /\ DirtyInv' /\ FlushedInv' /\ LatestInv'
  BY <1>1, <1>2, <1>3, <1>4 DEF MemoryInv, MemoryTypes, DirtyInv, FlushedInv, LatestInv, Given
<1>7. LeftInv'
  BY <1>1, <1>4, <1>5 DEF MemoryInv, MemoryTypes, LeftInv, FlushEntries
<1>8. NowInv'
  <2>1. flush.now # None => flush.now.key \in Calls /\ flush.now.val # None
    BY DEF MemoryInv, MemoryTypes, FlushEntries, MemoryAssumption
  <2> QED BY <1>1, <1>3, <1>5, <2>1 DEF MemoryInv, NowInv
<1>9. M!NoFactLost'
  BY <1>1, <1>3, <1>4, <1>5 DEF MemoryInv, M!NoFactLost, M!Saved, M!InFlight
<1> QED BY <1>6, <1>7, <1>8, <1>9 DEF MemoryInv

-----------------------------------------------------------------------------
LEMMA MemoryStep ==
  ASSUME MemoryAssumption, MemoryInv, MemoryMoves \/ UNCHANGED M!memoryVars
  PROVE  MemoryInv'
<1>1. ASSUME NEW k \in Calls, M!PromoteBegin(k)
      PROVE  MemoryInv'
  <2>1. promo' = [key |-> k, row |-> disk[k]] /\ UNCHANGED <<disk, cache, demotion, flush, latest, lost>>
    BY <1>1 DEF M!PromoteBegin
  <2>2. MemoryTypes'
    BY <2>1 DEF MemoryInv, MemoryTypes
  <2> QED BY <2>1, <2>2
          DEF MemoryInv, DirtyInv, FlushedInv, LeftInv, NowInv, LatestInv, Given, M!NoFactLost, M!Saved, M!InFlight
<1>2. ASSUME NEW k \in Calls, NEW w \in Writes, NEW ofTask \in BOOLEAN, M!PutRow(w, k, ofTask)
      PROVE  MemoryInv'
  <2>1. [val |-> w, task |-> ofTask] \in Rows
    BY DEF Rows, M!Values
  <2> QED BY <1>2, <2>1, RowKeeps DEF M!PutRow
<1>3. ASSUME NEW k \in Calls, M!DeleteRow(k)
      PROVE  MemoryInv'
  BY <1>3, EmptyTyped, RowKeeps DEF M!DeleteRow
<1>4. CASE M!PurgeBegin \/ UNCHANGED M!memoryVars
  <2>1. UNCHANGED <<disk, cache, demotion, flush, promo, latest, lost>>
    BY <1>4 DEF M!PurgeBegin, M!memoryVars
  <2> QED BY <2>1 DEF MemoryInv, MemoryTypes, DirtyInv, FlushedInv, LeftInv, NowInv, LatestInv, Given,
                      M!NoFactLost, M!Saved, M!InFlight
<1> QED BY <1>1, <1>2, <1>3, <1>4, BeginKeeps, RedundantKeeps, DemoteKeeps, FlushBeginKeeps,
           FlushNextKeeps,
           PromoteKeeps, PinKeeps, PurgeKeeps
        DEF MemoryMoves, M!WriteRow, M!SkillWrites

\* Nothing of the purged session comes back, for it was not under way.
LEMMA PurgeStep ==
  ASSUME MemoryAssumption, MemoryInv, PurgeInv, MemoryMoves \/ UNCHANGED M!memoryVars
  PROVE  PurgeInv'
<1> SUFFICES ASSUME purge' = "done", ~astray'
             PROVE  Cleared'
  BY DEF PurgeInv
<1>1. CASE M!PurgeEnd
  <2>1. /\ cache' = M!Without(cache, M!PurgedCache) /\ disk' = [k \in Calls |-> IF disk[k].task THEN M!NoRow ELSE disk[k]]
        /\ UNCHANGED <<demotion, flush, promo>>
        /\ ~promo.row.task /\ (flush.now # None => \A e \in flush.left \cup {flush.now} : ~e.task)
        /\ \A f \in Absorbing : demotion[f].pc # "embedding"
    BY <1>1 DEF M!PurgeEnd
  <2>2. \A k \in Calls : ~cache'[k].task /\ ~disk'[k].task
    BY <2>1 DEF M!Without, M!PurgedCache, M!NoEntry, M!NoRow
  <2> QED BY <2>1, <2>2 DEF Cleared
<1>2. CASE UNCHANGED M!memoryVars
  BY <1>2 DEF M!memoryVars, PurgeInv, Cleared
<1>3. ASSUME NEW f \in Facts, NEW k \in Calls, M!DemoteBegin(f, k)
      PROVE  Cleared'
  <2>1. Cleared /\ f \notin Absorbing /\ UNCHANGED <<disk, cache, flush, promo>>
    BY <1>3 DEF M!DemoteBegin, PurgeInv
  <2>2. \A g \in Absorbing : demotion'[g] = demotion[g]
    BY <1>3, <2>1 DEF M!DemoteBegin, MemoryInv, MemoryTypes, MemoryAssumption
  <2> QED BY <2>1, <2>2 DEF Cleared
<1>4. ASSUME NEW f \in Facts, M!DemoteRedundant(f)
      PROVE  Cleared'
  <2>1. Cleared /\ UNCHANGED <<disk, cache, flush, promo>>
    BY <1>4 DEF M!DemoteRedundant, PurgeInv
  <2>2. \A g \in Absorbing : demotion'[g].pc \in {"done", demotion[g].pc}
    BY <1>4 DEF M!DemoteRedundant, MemoryInv, MemoryTypes, MemoryAssumption
  <2> QED BY <2>1, <2>2 DEF Cleared
<1>5. ASSUME NEW f \in Facts, NEW evicted \in SUBSET Calls, DemoteInto(f, evicted)
      PROVE  Cleared'
  <2> DEFINE entry == [val |-> f, task |-> f \in Absorbing, dirty |-> TRUE, pinned |-> FALSE]
             with == [cache EXCEPT ![demotion[f].key] = entry]
  <2>1. Cleared /\ UNCHANGED <<disk, flush, promo>> /\ cache' = M!Without(with, evicted) /\ f \notin Absorbing
    BY <1>5 DEF DemoteInto, PurgeInv, Cleared
  <2>2. \A g \in Absorbing : demotion'[g].pc \in {"done", demotion[g].pc}
    BY <1>5 DEF DemoteInto, MemoryInv, MemoryTypes, MemoryAssumption
  <2>3. \A k \in Calls : cache'[k] = M!NoEntry \/ cache'[k] = entry \/ cache'[k] = cache[k]
    BY <2>1 DEF M!Without, MemoryInv, MemoryTypes
  <2>4. ~M!NoEntry.task /\ ~entry.task
    BY <2>1 DEF M!NoEntry
  <2> HIDE DEF entry
  <2> QED BY <2>1, <2>2, <2>3, <2>4 DEF Cleared
<1>6. CASE M!FlushBegin
  <2>1. Cleared /\ UNCHANGED <<cache, demotion, promo>>
    BY <1>6 DEF M!FlushBegin, PurgeInv
  <2>2. PICK e \in M!Copies : /\ flush' = [left |-> M!Copies \ {e}, now |-> e]
                              /\ disk' = [disk EXCEPT ![e.key] = M!Row(e)]
    BY <1>6 DEF M!FlushBegin
  <2>3. \A d \in M!Copies : ~d.task
    BY <2>1 DEF M!Copies, Cleared
  <2>4. \A k \in Calls : ~disk'[k].task
    BY <2>1, <2>2, <2>3 DEF Cleared, M!Row, MemoryInv, MemoryTypes
  <2> QED BY <2>1, <2>2, <2>3, <2>4 DEF Cleared
<1>7. CASE M!FlushNext
  <2>1. Cleared /\ UNCHANGED <<demotion, promo>> /\ flush.now # None /\ cache' = M!MarkClean
    BY <1>7 DEF M!FlushNext, PurgeInv
  <2>2. \A k \in Calls : cache'[k].task = cache[k].task
    <3>1. cache \in [Calls -> Entries]
      BY DEF MemoryInv, MemoryTypes
    <3>2. \A k \in Calls : cache[k] \in Entries
      BY <3>1
    <3> QED BY <2>1, <3>1, <3>2 DEF M!MarkClean, Entries
  <2>3. \A e \in flush.left : ~e.task
    BY <2>1 DEF Cleared
  <2>4. CASE flush' = M!NoFlush /\ UNCHANGED disk
    BY <2>1, <2>2, <2>4 DEF Cleared, M!NoFlush
  <2>5. CASE \E e \in flush.left : flush' = [left |-> flush.left \ {e}, now |-> e] /\ disk' = [disk EXCEPT ![e.key] = M!Row(e)]
    <3>1. PICK e \in flush.left : flush' = [left |-> flush.left \ {e}, now |-> e] /\ disk' = [disk EXCEPT ![e.key] = M!Row(e)]
      BY <2>5
    <3>2. \A k \in Calls : ~disk'[k].task
      BY <2>1, <2>3, <3>1 DEF Cleared, M!Row, MemoryInv, MemoryTypes
    <3> QED BY <2>1, <2>2, <2>3, <3>1, <3>2 DEF Cleared
  <2> QED BY <1>7, <2>4, <2>5 DEF M!FlushNext
<1>8. ASSUME NEW evicted \in SUBSET Calls, PromoteInto(evicted)
      PROVE  Cleared'
  <2> DEFINE entry == [val |-> promo.row.val, task |-> promo.row.task, dirty |-> FALSE, pinned |-> FALSE]
             with == [cache EXCEPT ![promo.key] = entry]
  <2>1. Cleared /\ UNCHANGED <<disk, demotion, flush>> /\ ~promo'.row.task
    BY <1>8 DEF PromoteInto, PurgeInv, M!NoRow
  <2>2. cache' = M!Without(with, evicted) \/ UNCHANGED cache
    BY <1>8 DEF PromoteInto
  <2>3. \A k \in Calls : cache'[k] = M!NoEntry \/ cache'[k] = entry \/ cache'[k] = cache[k]
    BY <2>2 DEF M!Without, MemoryInv, MemoryTypes
  <2>4. ~M!NoEntry.task /\ ~entry.task
    BY <2>1 DEF M!NoEntry, Cleared
  <2> HIDE DEF entry
  <2> QED BY <2>1, <2>3, <2>4 DEF Cleared
<1>9. CASE M!PurgeBegin
  BY <1>9 DEF M!PurgeBegin
<1>10. ASSUME NEW k \in Calls, M!PromoteBegin(k)
       PROVE  Cleared'
  BY <1>10 DEF M!PromoteBegin, PurgeInv, Cleared
<1>11. ASSUME NEW k \in Calls, M!Pin(k)
       PROVE  Cleared'
  <2>1. Cleared /\ UNCHANGED <<disk, demotion, flush, promo>> /\ cache' = [cache EXCEPT ![k].pinned = TRUE]
    BY <1>11 DEF M!Pin, PurgeInv
  <2>2. \A x \in Calls : cache'[x].task = cache[x].task
    <3>1. cache \in [Calls -> Entries]
      BY DEF MemoryInv, MemoryTypes
    <3> QED BY <2>1, <3>1 DEF Entries
  <2> QED BY <2>1, <2>2 DEF Cleared
<1>12. ASSUME NEW k \in Calls, M!DeleteRow(k)
       PROVE  Cleared'
  BY <1>12 DEF M!DeleteRow, PurgeInv, Cleared, M!NoRow, MemoryInv, MemoryTypes
<1>13. ASSUME NEW k \in Calls, NEW w \in Writes, NEW own \in BOOLEAN, M!PutRow(w, k, own)
       PROVE  Cleared'
  <2>1. Cleared /\ ~own /\ UNCHANGED <<cache, demotion, flush, promo>>
    BY <1>13 DEF M!PutRow, PurgeInv
  <2>2. \A x \in Calls : ~disk'[x].task
    BY <1>13, <2>1 DEF M!PutRow, Cleared, MemoryInv, MemoryTypes
  <2> QED BY <2>1, <2>2 DEF Cleared
<1> QED BY <1>1, <1>2, <1>3, <1>4, <1>5, <1>6, <1>7, <1>8, <1>9, <1>10, <1>11, <1>12, <1>13
        DEF MemoryMoves, M!WriteRow, M!SkillWrites

\* A step of the memory is one of these moves.
LEMMA MovesOfNext ==
  ASSUME [M!Next]_M!memoryVars
  PROVE  MemoryMoves \/ UNCHANGED M!memoryVars
<1>1. ASSUME NEW f \in Facts, M!Demote(f)
      PROVE  \E evicted \in SUBSET Calls : DemoteInto(f, evicted)
  BY <1>1, EvictionsAreKeys DEF M!Demote, DemoteInto
<1>2. ASSUME M!PromoteEnd
      PROVE  \E evicted \in SUBSET Calls : PromoteInto(evicted)
  BY <1>2, EvictionsAreKeys DEF M!PromoteEnd, PromoteInto, M!Overwrites
<1> QED BY <1>1, <1>2 DEF M!Next, MemoryMoves

-----------------------------------------------------------------------------
(* Consolidation (kernel/dreaming.py): a session that is marked has its    *)
(* summary.                                                                *)

Kept(s) == s \in crowded \/ \E m \in 0 .. MaxMinutes : summary[m] = s

(* A session whose summary has just been stored is not marked yet, and the *)
(* numbers of the analyses begin at one: no suggestion is row 0.           *)
DreamInv ==
  /\ summary \in [0 .. MaxMinutes -> Chats \cup {NoSession}]
  /\ minute \in 0 .. MaxMinutes /\ open \in Chats
  /\ consolidated \subseteq Chats /\ made \subseteq D!Dreams
  /\ dreamer.pc \in {"flushing", "extracting", "storing", "stored"} => dreamer.sess \in Chats
  /\ dreamer.pc = "watching" => dreamer = D!Watching
  /\ dreamer.pc = "storing" => dreamer.at \in 0 .. MaxMinutes
  /\ dreamer.pc = "stored" => Kept(dreamer.sess)
  /\ dreamer \in [pc : {"watching", "flushing", "extracting", "storing", "stored"},
                  sess : Chats \cup {NoSession}, at : 0 .. MaxMinutes]
  /\ loose \subseteq [pc : {"flushing", "extracting", "storing"}, sess : Chats, at : 0 .. MaxMinutes]
  /\ \A s \in consolidated : Kept(s)
  /\ \A n \in made \ gone : row = n

DreamAssumption == NoSession \notin Chats /\ MaxDreams \in Nat /\ MaxMinutes \in Nat

LEMMA InitDreams ==
  ASSUME DreamAssumption, D!Init
  PROVE  DreamInv
BY DEF D!Init, DreamInv, DreamAssumption, D!Watching, Kept

LEMMA DreamProperties ==
  ASSUME DreamInv
  PROVE  D!DreamKept
BY DEF DreamInv, D!DreamKept, Kept

\* Steps of the watcher that leave the summaries alone.
LEMMA WatcherStep ==
  ASSUME DreamAssumption, DreamInv, D!Watch \/ D!Flush \/ D!Extracted \/ D!Consolidate \/ D!Fails
  PROVE  DreamInv'
<1>1. UNCHANGED <<summary, minute, open, crowded, made, gone, row, loose>>
  BY DEF D!Watch, D!Flush, D!Extracted, D!Consolidate, D!Fails, D!userVars, D!summaryVars, D!hintVars
<1>2. \A s : Kept(s)' <=> Kept(s)
  BY <1>1 DEF Kept
<1>3. CASE D!Watch \/ D!Flush \/ D!Extracted
  <2>1. UNCHANGED consolidated
    BY <1>3 DEF D!Watch, D!Flush, D!Extracted
  <2>2. dreamer' \in [pc : {"flushing", "extracting", "storing"}, sess : Chats, at : 0 .. MaxMinutes]
    <3>1. CASE D!Watch
      BY <3>1 DEF D!Watch, DreamInv, DreamAssumption
    <3>2. CASE D!Flush
      BY <3>2 DEF D!Flush, DreamInv
    <3>3. CASE D!Extracted
      BY <3>3 DEF D!Extracted, D!WithKey, DreamInv
    <3> QED BY <1>3, <3>1, <3>2, <3>3
  <2> QED BY <1>1, <1>2, <2>1, <2>2 DEF DreamInv
<1>4. CASE D!Consolidate
  <2>1. dreamer.pc = "stored" /\ consolidated' = consolidated \cup {dreamer.sess} /\ dreamer' = D!Watching
    BY <1>4 DEF D!Consolidate
  <2> QED BY <1>1, <1>2, <2>1 DEF DreamInv, D!Watching, DreamAssumption
<1>5. CASE D!Fails
  <2>1. UNCHANGED consolidated /\ dreamer' = D!Watching
    BY <1>5 DEF D!Fails, D!Unmarked
  <2> QED BY <1>1, <1>2, <2>1 DEF DreamInv, D!Watching, DreamAssumption
<1> QED BY <1>3, <1>4, <1>5

\* The summary that is replaced is remembered as crowded out.
LEMMA SummariseKeeps ==
  ASSUME DreamAssumption, DreamInv, NEW c, c.sess \in Chats, c.at \in 0 .. MaxMinutes, D!Summarise(c)
  PROVE  /\ summary' \in [0 .. MaxMinutes -> Chats \cup {NoSession}]
         /\ Kept(c.sess)' /\ \A s \in Chats : Kept(s) => Kept(s)'
<1>1. /\ summary' = [summary EXCEPT ![c.at] = c.sess]
      /\ crowded' = crowded \cup ({summary[c.at]} \ {NoSession, c.sess})
  BY DEF D!Summarise
<1>2. summary'[c.at] = c.sess /\ \A m \in 0 .. MaxMinutes : m # c.at => summary'[m] = summary[m]
  BY <1>1 DEF DreamInv
<1>3. Kept(c.sess)'
  BY <1>2 DEF Kept
<1>4. \A s \in Chats : Kept(s) => Kept(s)'
  BY <1>1, <1>2 DEF Kept, DreamAssumption
<1> QED BY <1>1, <1>3, <1>4 DEF DreamInv

LEMMA StoreStep ==
  ASSUME DreamAssumption, DreamInv, D!StoreSummary
  PROVE  DreamInv'
<1>0. PICK c : c = dreamer
  OBVIOUS
<1>1. /\ c.pc = "storing" /\ c.sess \in Chats /\ c.at \in 0 .. MaxMinutes
      /\ D!Summarise(c) /\ dreamer' = [c EXCEPT !.pc = "stored"]
      /\ UNCHANGED <<open, consolidated, minute, row, made, gone, loose>>
  BY <1>0 DEF D!StoreSummary, DreamInv, D!userVars, D!hintVars, D!Summarise
<1>2. /\ summary' \in [0 .. MaxMinutes -> Chats \cup {NoSession}]
      /\ Kept(c.sess)' /\ \A s \in Chats : Kept(s) => Kept(s)'
  BY <1>1, SummariseKeeps
<1>3. dreamer'.pc = "stored" /\ dreamer'.sess = c.sess
      /\ dreamer' \in [pc : {"watching", "flushing", "extracting", "storing", "stored"},
                       sess : Chats \cup {NoSession}, at : 0 .. MaxMinutes]
  BY <1>0, <1>1 DEF DreamInv
<1>4. Kept(dreamer.sess)'
  BY <1>2, <1>3 DEF Kept
<1> QED BY <1>1, <1>2, <1>3, <1>4 DEF DreamInv

\* A consolidation that goes on by itself marks nothing.
LEMMA LooseKeeps ==
  ASSUME DreamAssumption, DreamInv, NEW c \in loose, D!LooseStep(c)
  PROVE  DreamInv'
<1>1. /\ UNCHANGED <<open, dreamer, consolidated, minute, row, made, gone>>
      /\ c \in [pc : {"flushing", "extracting", "storing"}, sess : Chats, at : 0 .. MaxMinutes]
  BY DEF D!LooseStep, DreamInv, D!userVars, D!hintVars
<1>2. /\ summary' \in [0 .. MaxMinutes -> Chats \cup {NoSession}]
      /\ \A s \in Chats : Kept(s) => Kept(s)'
  <2>1. CASE D!Summarise(c)
    BY <1>1, <2>1, SummariseKeeps
  <2>2. CASE UNCHANGED D!summaryVars
    BY <2>2 DEF DreamInv, Kept, D!summaryVars
  <2> QED BY <2>1, <2>2 DEF D!LooseStep
<1>3. loose' \subseteq [pc : {"flushing", "extracting", "storing"}, sess : Chats, at : 0 .. MaxMinutes]
  <2>1. D!WithKey(c) \in [pc : {"flushing", "extracting", "storing"}, sess : Chats, at : 0 .. MaxMinutes]
    BY <1>1 DEF D!WithKey, DreamInv
  <2> QED BY <2>1 DEF D!LooseStep, DreamInv
<1>4. dreamer.pc = "stored" => dreamer.sess \in Chats
  BY DEF DreamInv
<1>5. (dreamer.pc = "stored" => Kept(dreamer.sess))'
  BY <1>1, <1>2, <1>4 DEF DreamInv, Kept
<1> QED BY <1>1, <1>2, <1>3, <1>5 DEF DreamInv

LEMMA AnalysisFailsKeeps ==
  ASSUME DreamAssumption, DreamInv, NEW n \in D!Dreams, D!AnalysisFails(n)
  PROVE  DreamInv'
<1>1. UNCHANGED <<summary, minute, open, crowded, consolidated, made, gone, row>>
  BY DEF D!AnalysisFails, D!userVars, D!summaryVars, D!hintVars
<1>2. \A s : Kept(s)' <=> Kept(s)
  BY <1>1 DEF Kept
<1>3. CASE UNCHANGED <<dreamer, loose>>
  BY <1>1, <1>2, <1>3 DEF DreamInv
<1>4. CASE /\ dreamer # D!Watching /\ dreamer' = D!Watching
           /\ loose' = loose \cup (IF dreamer.pc = "stored" THEN {} ELSE {dreamer})
  <2>1. dreamer' \in [pc : {"watching", "flushing", "extracting", "storing", "stored"},
                      sess : Chats \cup {NoSession}, at : 0 .. MaxMinutes] /\ dreamer'.pc = "watching" /\ dreamer' = D!Watching
    BY <1>4 DEF D!Watching, DreamAssumption
  <2>2. dreamer.pc \in {"flushing", "extracting", "storing"} =>
          dreamer \in [pc : {"flushing", "extracting", "storing"}, sess : Chats, at : 0 .. MaxMinutes]
    BY DEF DreamInv
  <2>3. dreamer.pc # "watching"
    BY <1>4 DEF DreamInv
  <2>4. loose' \subseteq [pc : {"flushing", "extracting", "storing"}, sess : Chats, at : 0 .. MaxMinutes]
    BY <1>4, <2>2, <2>3 DEF DreamInv
  <2> QED BY <1>1, <1>2, <2>1, <2>4 DEF DreamInv
<1> QED BY <1>3, <1>4 DEF D!AnalysisFails

\* A suggestion that a greeting clears or another replaces is gone.
LEMMA SuggestionStep ==
  ASSUME DreamAssumption, DreamInv,
         \/ D!WriteBack \/ D!CopyLost
         \/ \E n \in D!Dreams : D!AnalyseBegin(n) \/ D!AnalyseEnd(n)
         \/ \E g \in Calls : D!GreetCached(g) \/ D!GreetRead(g) \/ D!GreetClear(g) \/ D!BriefRead(g) \/ D!Greeted(g)
  PROVE  DreamInv'
<1>1. UNCHANGED <<summary, minute, open, crowded, consolidated, dreamer, loose>>
  BY DEF D!AnalyseBegin, D!AnalyseEnd, D!GreetCached, D!GreetRead, D!GreetClear, D!BriefRead, D!Greeted,
     D!WriteBack, D!CopyLost,
         D!userVars, D!watchVars, D!summaryVars
<1>2. \A s : Kept(s)' <=> Kept(s)
  BY <1>1 DEF Kept
<1>3. gone \subseteq gone' /\ made \subseteq made' /\ made' \subseteq made \cup D!Dreams
  BY DEF D!AnalyseBegin, D!AnalyseEnd, D!GreetCached, D!GreetRead, D!GreetClear, D!BriefRead, D!Greeted,
     D!WriteBack, D!CopyLost,
         D!Replace, D!Shown, D!hintVars
<1>4. \/ UNCHANGED <<row, made>>
      \/ row' = 0 /\ UNCHANGED made /\ gone' = gone \cup ({row} \ {0})
      \/ \E n \in D!Dreams : row' = n /\ made' = made \cup {n} /\ gone' = gone \cup ({row} \ {0})
  BY DEF D!AnalyseBegin, D!AnalyseEnd, D!GreetCached, D!GreetRead, D!GreetClear, D!BriefRead, D!Greeted,
     D!WriteBack, D!CopyLost,
         D!Replace, D!Shown, D!hintVars
<1>5. \A n \in D!Dreams : n # 0
  BY DEF D!Dreams, DreamAssumption
<1>6. made' \subseteq D!Dreams /\ \A n \in made' \ gone' : row' = n
  BY <1>3, <1>4, <1>5 DEF DreamInv
<1> QED BY <1>1, <1>2, <1>6 DEF DreamInv

LEMMA DreamStep ==
  ASSUME DreamAssumption, DreamInv, [D!Next]_D!dreamVars
  PROVE  DreamInv'
<1>1. CASE \/ UNCHANGED D!dreamVars \/ D!Message \/ D!FallsIdle \/ D!Minute
           \/ (\E e \in Events : D!Record(e)) \/ \E s \in Chats : D!Open(s)
  <2>1. /\ UNCHANGED <<summary, crowded, consolidated, dreamer, loose, row, made, gone>>
        /\ minute' \in 0 .. MaxMinutes /\ open' \in Chats
    <3>1. CASE D!Minute
      BY <3>1 DEF D!Minute, DreamInv, DreamAssumption, D!watchVars, D!summaryVars, D!hintVars
    <3>2. CASE D!Message \/ D!FallsIdle \/ UNCHANGED D!dreamVars \/ (\E e \in Events : D!Record(e)) \/ \E s \in Chats : D!Open(s)
      BY <3>2 DEF D!Message, D!FallsIdle, D!Record, D!Open, D!dreamVars, DreamInv, D!userVars,
         D!watchVars, D!summaryVars, D!hintVars
    <3> QED BY <1>1, <3>1, <3>2
  <2>2. \A s : Kept(s)' <=> Kept(s)
    BY <2>1 DEF Kept
  <2> QED BY <2>1, <2>2 DEF DreamInv
<1> QED BY <1>1, WatcherStep, StoreStep, LooseKeeps, AnalysisFailsKeeps, SuggestionStep DEF D!Next

-----------------------------------------------------------------------------
(* The run steps one part at a time.  The memory with room for two entries *)
(* makes the same moves: the proofs leave open which entries are evicted.  *)

LEMMA EvictionsOfTwoAreKeys ==
  ASSUME NEW c, NEW evicted \in M2!Evictions(c)
  PROVE  evicted \subseteq Calls
BY DEF M2!Evictions, M2!Held

LEMMA MovesOfTwo ==
  ASSUME M2!Next
  PROVE  MemoryMoves
<1> USE DEF M2!Loses, M!Loses, M2!Without, M!Without, M2!NoRow, M!NoRow, M2!NoEntry, M!NoEntry, M2!Held, M!Held
<1>1. ASSUME NEW f \in Facts, M2!Demote(f)
      PROVE  \E evicted \in SUBSET Calls : DemoteInto(f, evicted)
  BY <1>1, EvictionsOfTwoAreKeys DEF M2!Demote, DemoteInto
<1>2. ASSUME M2!PromoteEnd
      PROVE  \E evicted \in SUBSET Calls : PromoteInto(evicted)
  BY <1>2, EvictionsOfTwoAreKeys DEF M2!PromoteEnd, PromoteInto, M2!Overwrites
<1>3. ASSUME NEW f \in Facts
      PROVE  /\ M2!DemoteRedundant(f) => M!DemoteRedundant(f)
             /\ \A k \in Calls : M2!DemoteBegin(f, k) => M!DemoteBegin(f, k)
  BY DEF M2!DemoteRedundant, M!DemoteRedundant, M2!DemoteBegin, M!DemoteBegin
<1>4. M2!FlushBegin => M!FlushBegin
  BY DEF M2!FlushBegin, M!FlushBegin, M2!NoFlush, M!NoFlush, M2!Copies, M!Copies, M2!Row, M!Row
<1>5. M2!FlushNext => M!FlushNext
  BY DEF M2!FlushNext, M!FlushNext, M2!NoFlush, M!NoFlush, M2!MarkClean, M!MarkClean, M2!Row, M!Row
<1>6. (M2!PurgeBegin => M!PurgeBegin) /\ (M2!PurgeEnd => M!PurgeEnd)
  BY DEF M2!PurgeBegin, M!PurgeBegin, M2!PurgeEnd, M!PurgeEnd, M2!PurgedCache, M!PurgedCache
<1>7. ASSUME NEW k \in Calls
      PROVE  /\ M2!PromoteBegin(k) => M!PromoteBegin(k)
             /\ M2!Pin(k) => M!Pin(k)
             /\ M2!DeleteRow(k) => M!DeleteRow(k)
             /\ \A w \in Writes : /\ M2!WriteRow(w, k) => M!WriteRow(w, k)
                                  /\ M2!SkillWrites(w, k) => M!SkillWrites(w, k)
  BY DEF M2!PromoteBegin, M!PromoteBegin, M2!Found, M!Found, M2!Pin, M!Pin, M2!DeleteRow, M!DeleteRow,
         M2!WriteRow, M!WriteRow, M2!SkillWrites, M!SkillWrites, M2!PutRow, M!PutRow
<1> QED BY <1>1, <1>2, <1>3, <1>4, <1>5, <1>6, <1>7 DEF M2!Next, MemoryMoves

LEMMA MemorySteps ==
  ASSUME [Next]_vars
  PROVE  /\ MemoryMoves \/ UNCHANGED M!memoryVars
         /\ [D!Next]_D!dreamVars
<1>1. [M!Next]_M!memoryVars \/ M2!Next
  BY DEF Next, vars, memoryVars, M!memoryVars
<1>2. [D!Next]_D!dreamVars
  BY DEF Next, vars, dreamVars, D!dreamVars, D!userVars, D!watchVars, D!summaryVars, D!hintVars
<1> QED BY <1>1, <1>2, MovesOfNext, MovesOfTwo

LEMMA MemoryConstants == MemoryAssumption /\ DreamAssumption
BY ConversationAssumption DEF MemoryAssumption, DreamAssumption, M!Values, FlushEntries

(* Whatever interleaving of demotions, flush, promotion, eviction, purge   *)
(* and writes past the cache, the fact demoted last to a key is on disk,   *)
(* being flushed or cached and dirty, unless the code gave it up           *)
(* (memory/cache.py:218-272, memory/demotion.py:227-251,                   *)
(* memory/promotion.py:115-124).                                           *)
THEOREM FactsAreKept == Spec => []NoFactLost
<1>1. Init => MemoryInv
  BY InitMemory, MemoryConstants DEF Init
<1>2. MemoryInv /\ [Next]_vars => MemoryInv'
  BY MemoryStep, MemoryConstants, MemorySteps
<1>3. MemoryInv => NoFactLost
  BY DEF MemoryInv, NoFactLost
<1> QED BY <1>1, <1>2, <1>3, PTL DEF Spec

(* What the tasks of a purged session left is gone from the cache and from *)
(* disk, unless it was on its way between them at the purge                *)
(* (memory/demotion.py:289-313).                                           *)
THEOREM PurgedStaysGone == Spec => []PurgedIsGone
<1>1. Init => MemoryInv /\ PurgeInv
  BY InitMemory, MemoryConstants DEF Init, M!Init, PurgeInv
<1>2. MemoryInv /\ PurgeInv /\ [Next]_vars => MemoryInv' /\ PurgeInv'
  BY MemoryStep, PurgeStep, MemoryConstants, MemorySteps
<1>3. PurgeInv => PurgedIsGone
  BY DEF PurgeInv, Cleared, M!PurgedIsGone, PurgedIsGone
<1> QED BY <1>1, <1>2, <1>3, PTL DEF Spec

(* However the analyses of idle sessions and the greetings fall, a session *)
(* marked consolidated has its summary, unless another's came under the    *)
(* same minute, and a suggestion is kept until a greeting reads or clears  *)
(* it, or the cache writes back what it loaded at the start                *)
(* (kernel/dreaming.py:101-117, 226-246, 355-361).                         *)
THEOREM DreamsAreKept == Spec => []DreamKept
<1>1. Init => DreamInv
  BY InitDreams, MemoryConstants DEF Init
<1>2. DreamInv /\ [Next]_vars => DreamInv'
  BY DreamStep, MemoryConstants, MemorySteps
<1>3. DreamInv => DreamKept
  BY DreamProperties DEF DreamKept
<1> QED BY <1>1, <1>2, <1>3, PTL DEF Spec

-----------------------------------------------------------------------------
(* The types of all five.  The branches' says more than the section before *)
(* needs: the ids of messages stay below the number of tasks, and a parent *)
(* is an earlier message.                                                  *)

\* An id that has been given, or none.
Known(i) == i \in Nat /\ (i = 0 \/ \E t \in Tasks : i <= task[t].id)
Numbered == {t \in Tasks : task[t].id # 0}

IdInv ==
  /\ \A t \in Tasks : task[t].pc \in {"none", "queued"} => task[t].id = 0
  /\ \A t \in Tasks : task[t].id <= Cardinality(Numbered) /\ Known(task[t].parent)
  /\ Known(head) /\ \A s \in Sessions : Known(branch[s])
  /\ \A r \in rows : Known(r.id) /\ r.parent < r.id
  /\ \A c \in Calls : Known(branchCall[c].msg) /\ \A i \in branchCall[c].ids : Known(i)

LEMMA InitIds == ASSUME B!Init PROVE IdInv
<1>1. Numbered = {} /\ Cardinality(Numbered) = 0
  BY FS_EmptySet DEF B!Init, Numbered
<1> QED BY <1>1 DEF B!Init, B!Idle, IdInv, Known

\* A step of a task that gives it no id, or the next one for its first.
LEMMA IdsGrow ==
  ASSUME BranchInv, IdInv, IsFiniteSet(Tasks), NEW t \in Tasks, NEW new \in TaskStates,
         task' = [task EXCEPT ![t] = new],
         new.id = task[t].id \/ (task[t].id = 0 /\ new.id = B!NextId)
  PROVE  /\ \A i : Known(i) => Known(i)' /\ i < B!NextId
         /\ Known(new.id)'
         /\ \A u \in Tasks : task'[u].id <= Cardinality(Numbered')
         /\ \A u \in Tasks : task'[u] = IF u = t THEN new ELSE task[u]
<1>1. /\ \A u \in Tasks : task[u].id \in Nat /\ task[u].id <= Cardinality(Numbered)
      /\ \A u \in Tasks : task'[u] = IF u = t THEN new ELSE task[u]
  BY DEF BranchInv, BranchTypes, TaskStates, IdInv
<1>2. B!NextId \in Nat \ {0} /\ \A u \in Tasks : task[u].id < B!NextId
  BY NextIdIsNew, <1>1
<1>3. \A u \in Tasks : task'[u].id \in Nat /\ task[u].id <= task'[u].id
  BY <1>1, <1>2 DEF TaskStates
<1>4. ASSUME NEW i, Known(i)
      PROVE  Known(i)' /\ i < B!NextId
  BY <1>1, <1>2, <1>3, <1>4 DEF Known
<1>5. Known(new.id)'
  BY <1>1, <1>3 DEF Known
<1>6. IsFiniteSet(Numbered) /\ Cardinality(Numbered) \in Nat
  BY FS_Subset, FS_CardinalityType DEF Numbered
<1>7. \A u \in Tasks : task'[u].id <= Cardinality(Numbered')
  <2>1. CASE new.id = task[t].id
    <3>1. Numbered' = Numbered
      BY <1>1, <2>1 DEF Numbered
    <3> QED BY <1>1, <2>1, <3>1
  <2>2. CASE task[t].id = 0 /\ new.id = B!NextId
    <3>1. t \notin Numbered /\ Numbered' = Numbered \cup {t}
      BY <1>1, <1>2, <2>2 DEF Numbered
    <3>2. Cardinality(Numbered') = Cardinality(Numbered) + 1
      BY <1>6, <3>1, FS_AddElement
    <3>3. B!NextId <= Cardinality(Numbered) + 1
      BY <1>1, <1>6, NextIdIsNew
    <3> QED BY <1>1, <1>6, <2>2, <3>2, <3>3
  <2> QED BY <2>1, <2>2
<1> QED BY <1>1, <1>4, <1>5, <1>7

\* What else a step of a task must keep.
LEMMA IdsOfTask ==
  ASSUME BranchInv, IdInv, IsFiniteSet(Tasks), NEW t \in Tasks, NEW new \in TaskStates,
         task' = [task EXCEPT ![t] = new],
         new.id = task[t].id \/ (task[t].id = 0 /\ new.id = B!NextId),
         new.pc \in {"none", "queued"} => new.id = 0, new.parent = task[t].parent \/ new.parent = head,
         head' \in {0, head, new.id},
         branch' = branch \/ \E s \in Sessions : branch' = [branch EXCEPT ![s] = new.id],
         \A r \in rows' : r \in rows \/ (r.id = new.id /\ r.parent < r.id),
         UNCHANGED branchCall
  PROVE  IdInv'
<1>1. /\ \A i : Known(i) => Known(i)' /\ i < B!NextId
      /\ Known(new.id)'
      /\ \A u \in Tasks : task'[u].id <= Cardinality(Numbered')
      /\ \A u \in Tasks : task'[u] = IF u = t THEN new ELSE task[u]
  BY IdsGrow
<1> HIDE DEF Known
<1>2. Known(0)
  BY DEF Known
<1>3. \A u \in Tasks : /\ task'[u].pc \in {"none", "queued"} => task'[u].id = 0
                       /\ Known(task[u].parent)'
  BY <1>1 DEF IdInv
<1>4. Known(head)' /\ \A s \in Sessions : Known(branch[s])'
  BY <1>1, <1>2 DEF IdInv, BranchInv, BranchTypes
<1>5. \A r \in rows' : Known(r.id)' /\ r.parent < r.id
  BY <1>1 DEF IdInv
<1>6. \A c \in Calls : Known(branchCall[c].msg)' /\ \A i \in branchCall[c].ids : Known(i)'
  BY <1>1 DEF IdInv
<1> QED BY <1>1, <1>3, <1>4, <1>5, <1>6 DEF IdInv

LEMMA TaskIds ==
  ASSUME BranchInv, IdInv, IsFiniteSet(Tasks), NEW t \in Tasks,
         \/ \E s \in Sessions : B!Spawn(t, s)
         \/ B!Insert(t) \/ B!InsertPlain(t) \/ B!Advance(t) \/ B!Return(t)
  PROVE  IdInv'
<1>1. /\ task[t] \in TaskStates /\ task \in [Tasks -> TaskStates] /\ task[t].id \in Nat /\ head \in Nat
      /\ task[t].pc \in {"none", "queued"} => task[t].id = 0
      /\ task[t].pc = "queued" => task[t].session \in Sessions
  BY DEF BranchInv, BranchTypes, TaskStates, IdInv
<1>2. B!NextId \in Nat /\ 0 < B!NextId /\ head < B!NextId
  <2>1. B!NextId \in Nat /\ \A u \in Tasks : task[u].id \in Nat /\ task[u].id < B!NextId
    BY NextIdIsNew DEF BranchInv, BranchTypes, TaskStates
  <2> QED BY <1>1, <2>1 DEF IdInv, Known
<1>3. ASSUME NEW s \in Sessions, B!Spawn(t, s)
      PROVE  IdInv'
  <2> DEFINE new == [task[t] EXCEPT !.pc = "queued", !.session = s]
  <2>1. new \in TaskStates /\ new.id = task[t].id /\ new.parent = task[t].parent /\ new.pc = "queued"
    BY <1>1 DEF TaskStates, B!Maybe
  <2>2. task[t].pc = "none" /\ task' = [task EXCEPT ![t] = new] /\ UNCHANGED <<rows, head, branch, branchCall>>
    BY <1>3 DEF B!Spawn
  <2> HIDE DEF new
  <2> QED BY <1>1, <2>1, <2>2, IdsOfTask
<1>4. CASE B!Insert(t) /\ task[t].session \in live
  <2> DEFINE new == [pc |-> "inserted", session |-> task[t].session, parent |-> head, id |-> B!NextId]
             r == [id |-> B!NextId, session |-> task[t].session, parent |-> head]
  <2>1. new \in TaskStates /\ new.id = B!NextId /\ new.parent = head /\ new.pc = "inserted"
    BY <1>1, <1>2, <1>4 DEF TaskStates, B!Maybe, B!Insert
  <2>2. /\ task[t].pc = "queued" /\ task' = [task EXCEPT ![t] = new] /\ UNCHANGED <<head, branch, branchCall>>
        /\ rows' = rows \cup {r}
    BY <1>4 DEF B!Insert, B!ParentOf
  <2>3. r.id = B!NextId /\ r.parent < r.id
    BY <1>2
  <2> HIDE DEF new, r
  <2> QED BY <1>1, <2>1, <2>2, <2>3, IdsOfTask
<1>5. CASE B!Insert(t) /\ task[t].session \notin live
  <2> DEFINE new == [task[t] EXCEPT !.pc = "done"]
  <2>1. new \in TaskStates /\ new.id = task[t].id /\ new.parent = task[t].parent /\ new.pc = "done"
    BY <1>1 DEF TaskStates
  <2>2. task' = [task EXCEPT ![t] = new] /\ UNCHANGED <<rows, head, branch, branchCall>>
    BY <1>5 DEF B!Insert
  <2> HIDE DEF new
  <2> QED BY <1>1, <2>1, <2>2, IdsOfTask
<1>6. CASE B!InsertPlain(t)
  <2> DEFINE new == [task[t] EXCEPT !.pc = "done", !.id = B!NextId]
             r == [id |-> B!NextId, session |-> task[t].session, parent |-> 0]
  <2>1. new \in TaskStates /\ new.id = B!NextId /\ new.parent = task[t].parent /\ new.pc = "done"
    BY <1>1, <1>2 DEF TaskStates
  <2>2. /\ task[t].pc = "queued" /\ task' = [task EXCEPT ![t] = new] /\ UNCHANGED <<head, branch, branchCall>>
        /\ rows' = rows \cup {r}
    BY <1>6 DEF B!InsertPlain
  <2>3. r.id = B!NextId /\ r.parent < r.id
    BY <1>2
  <2> HIDE DEF new, r
  <2> QED BY <1>1, <2>1, <2>2, <2>3, IdsOfTask
<1>7. CASE B!Advance(t)
  <2> DEFINE new == [task[t] EXCEPT !.pc = "advanced"]
  <2>1. new \in TaskStates /\ new.id = task[t].id /\ new.parent = task[t].parent /\ new.pc = "advanced"
    BY <1>1 DEF TaskStates
  <2>2. /\ task' = [task EXCEPT ![t] = new] /\ UNCHANGED <<rows, head, branchCall>>
        /\ branch' = branch \/ branch' = [branch EXCEPT ![task[t].session] = new.id]
    BY <1>7, <2>1 DEF B!Advance
  <2>3. branch' = branch \/ \E s \in Sessions : branch' = [branch EXCEPT ![s] = new.id]
    <3>1. CASE task[t].session \in Sessions
      BY <2>2, <3>1
    <3>2. CASE task[t].session \notin Sessions
      BY <2>2, <3>2 DEF BranchInv, BranchTypes
    <3> QED BY <3>1, <3>2
  <2> HIDE DEF new
  <2> QED BY <1>1, <2>1, <2>2, <2>3, IdsOfTask
<1>8. CASE B!Return(t)
  <2> DEFINE new == [task[t] EXCEPT !.pc = "done"]
  <2>1. new \in TaskStates /\ new.id = task[t].id /\ new.parent = task[t].parent /\ new.pc = "done"
    BY <1>1 DEF TaskStates
  <2>2. task' = [task EXCEPT ![t] = new] /\ UNCHANGED <<rows, branch, branchCall>> /\ head' \in {0, new.id}
    BY <1>8, <2>1 DEF B!Return
  <2> HIDE DEF new
  <2> QED BY <1>1, <2>1, <2>2, IdsOfTask
<1> QED BY <1>3, <1>4, <1>5, <1>6, <1>7, <1>8

\* What a call takes with it are ids it has read.
LEMMA IdsOfCall ==
  ASSUME BranchInv, IdInv, NEW c \in Calls, NEW new,
         branchCall' = [branchCall EXCEPT ![c] = new],
         Known(new.msg), \A i \in new.ids : Known(i),
         Known(head'), \A s \in Sessions : Known(branch'[s]), rows' \subseteq rows, UNCHANGED task
  PROVE  IdInv'
<1>1. \A i : Known(i)' <=> Known(i)
  BY DEF Known
<1>2. \A d \in Calls : branchCall'[d] = IF d = c THEN new ELSE branchCall[d]
  BY DEF BranchInv, BranchTypes
<1>3. Numbered' = Numbered
  BY DEF Numbered
<1> HIDE DEF Known
<1> QED BY <1>1, <1>2, <1>3 DEF IdInv

LEMMA CallIds ==
  ASSUME BranchInv, IdInv, NEW c \in Calls,
         \/ \E s \in Sessions : B!SwitchBegin(c, s) \/ B!DeleteBegin(c, s)
         \/ \E r \in rows : B!ForkBegin(c, r.id)
         \/ B!SwitchSelect(c) \/ B!SwitchRefused(c) \/ B!SwitchFound(c)
         \/ B!ForkUpdate(c) \/ B!ForkDone(c) \/ B!Load(c) \/ B!DeleteDone(c)
  PROVE  IdInv'
<1>1. /\ branchCall[c] \in CallStates /\ branchCall \in [Calls -> CallStates] /\ branch \in [Sessions -> Nat]
      /\ Known(branchCall[c].msg) /\ \A i \in branchCall[c].ids : Known(i)
      /\ Known(head) /\ (\A s \in Sessions : Known(branch[s])) /\ \A r \in rows : Known(r.id)
      /\ Known(0)
  BY DEF BranchInv, BranchTypes, IdInv, Known
<1>2. \A s, h : \A i \in B!GetMessages(s, h) : Known(i)
  BY <1>1 DEF B!GetMessages
<1> HIDE DEF Known
<1>3. ASSUME NEW s \in Sessions, B!SwitchBegin(c, s)
      PROVE  IdInv'
  <2> DEFINE found == [B!Idle EXCEPT !.pc = "found", !.session = IF s \in live THEN s ELSE NoSession, !.msg = branch[s]]
             ending == [B!Idle EXCEPT !.pc = "ending", !.session = s]
  <2>1. PICK new \in {found, ending} : branchCall' = [branchCall EXCEPT ![c] = new]
    BY <1>3 DEF B!SwitchBegin, B!Take
  <2>2. Known(new.msg) /\ new.ids = {}
    BY <1>1, <2>1 DEF B!Idle
  <2> HIDE DEF found, ending
  <2> QED BY <1>1, <1>3, <2>1, <2>2, IdsOfCall DEF B!SwitchBegin
<1>4. ASSUME NEW s \in Sessions, B!DeleteBegin(c, s)
      PROVE  IdInv'
  <2> DEFINE new == [B!Idle EXCEPT !.pc = "deleting", !.session = s]
  <2>1. branchCall' = [branchCall EXCEPT ![c] = new] /\ rows' \subseteq rows /\ UNCHANGED <<branch, head, task>>
    BY <1>4 DEF B!DeleteBegin, B!Take
  <2>2. Known(new.msg) /\ new.ids = {}
    BY <1>1 DEF B!Idle
  <2> HIDE DEF new
  <2> QED BY <1>1, <2>1, <2>2, IdsOfCall
<1>5. ASSUME NEW r \in rows, B!ForkBegin(c, r.id)
      PROVE  IdInv'
  <2> DEFINE new == [B!Idle EXCEPT !.pc = "forking", !.session = current, !.msg = r.id]
  <2>1. branchCall' = [branchCall EXCEPT ![c] = new] /\ UNCHANGED <<rows, branch, head, task>>
    BY <1>5 DEF B!ForkBegin, B!Take
  <2>2. Known(new.msg) /\ new.ids = {}
    BY <1>1 DEF B!Idle
  <2> HIDE DEF new
  <2> QED BY <1>1, <2>1, <2>2, IdsOfCall
<1>6. CASE B!SwitchSelect(c)
  <2> DEFINE s == branchCall[c].session
             new == [branchCall[c] EXCEPT !.pc = "found", !.session = IF s \in live THEN s ELSE NoSession, !.msg = branch[s]]
  <2>1. branchCall' = [branchCall EXCEPT ![c] = new] /\ UNCHANGED <<rows, branch, head, task>> /\ s \in Sessions
    BY <1>6 DEF B!SwitchSelect, BranchInv, BranchTypes
  <2>2. new.msg = branch[s] /\ new.ids = branchCall[c].ids
    BY <1>1 DEF CallStates
  <2> HIDE DEF new
  <2> QED BY <1>1, <2>1, <2>2, IdsOfCall
<1>7. CASE B!SwitchFound(c)
  <2> DEFINE ids == B!GetMessages(branchCall[c].session, branchCall[c].msg)
             new == [branchCall[c] EXCEPT !.pc = "loading", !.ids = ids]
  <2>1. /\ branchCall' = [branchCall EXCEPT ![c] = new] /\ UNCHANGED <<rows, branch, task>>
        /\ head' = branchCall[c].msg
    BY <1>7 DEF B!SwitchFound, B!StoredHead
  <2> HIDE DEF ids
  <2>2. new.msg = branchCall[c].msg /\ new.ids = ids
    BY <1>1 DEF CallStates
  <2>3. \A i \in ids : Known(i)
    BY <1>2 DEF ids
  <2> HIDE DEF new
  <2> QED BY <1>1, <2>1, <2>2, <2>3, IdsOfCall
<1>8. CASE B!ForkUpdate(c)
  <2> DEFINE new == [branchCall[c] EXCEPT !.pc = "forked"]
  <2>1. /\ branchCall' = [branchCall EXCEPT ![c] = new] /\ UNCHANGED <<rows, head, task>>
        /\ branch' = [branch EXCEPT ![branchCall[c].session] = branchCall[c].msg]
    BY <1>8 DEF B!ForkUpdate
  <2>2. new.msg = branchCall[c].msg /\ new.ids = branchCall[c].ids /\ \A s \in Sessions : Known(branch'[s])
    BY <1>1, <2>1 DEF CallStates
  <2> HIDE DEF new
  <2> QED BY <1>1, <2>1, <2>2, IdsOfCall
<1>9. CASE B!ForkDone(c)
  <2> DEFINE ids == B!GetMessages(current, branchCall[c].msg)
             new == [branchCall[c] EXCEPT !.pc = "loading", !.ids = ids]
  <2>1. /\ branchCall' = [branchCall EXCEPT ![c] = new] /\ UNCHANGED <<rows, branch, task>>
        /\ head' = branchCall[c].msg
    BY <1>9 DEF B!ForkDone
  <2> HIDE DEF ids
  <2>2. new.msg = branchCall[c].msg /\ new.ids = ids
    BY <1>1 DEF CallStates
  <2>3. \A i \in ids : Known(i)
    BY <1>2 DEF ids
  <2> HIDE DEF new
  <2> QED BY <1>1, <2>1, <2>2, <2>3, IdsOfCall
<1>10. CASE B!SwitchRefused(c) \/ B!Load(c) \/ B!DeleteDone(c)
  <2> DEFINE new == [B!Idle EXCEPT !.pc = "over"]
  <2>1. branchCall' = [branchCall EXCEPT ![c] = new] /\ UNCHANGED <<rows, branch, head, task>>
    BY <1>10 DEF B!SwitchRefused, B!Load, B!DeleteDone, B!Over
  <2>2. new.msg = 0 /\ new.ids = {}
    BY DEF B!Idle
  <2> HIDE DEF new
  <2> QED BY <1>1, <2>1, <2>2, IdsOfCall
<1> QED BY <1>3, <1>4, <1>5, <1>6, <1>7, <1>8, <1>9, <1>10

LEMMA IdStep ==
  ASSUME BranchInv, IdInv, IsFiniteSet(Tasks), [B!Next]_B!branchVars
  PROVE  IdInv'
<1>1. CASE UNCHANGED B!branchVars
  BY <1>1 DEF B!branchVars, IdInv, Known, Numbered
<1> QED BY <1>1, TaskIds, CallIds DEF B!Next

LEMMA BranchesTyped ==
  ASSUME BranchInv, IdInv, IsFiniteSet(Tasks)
  PROVE  B!BranchesTypeOK
<1>1. Cardinality(Numbered) <= Cardinality(Tasks) /\ Cardinality(Numbered) \in Nat /\ Cardinality(Tasks) \in Nat
  BY FS_Subset, FS_CardinalityType DEF Numbered
<1>2. B!Ids = 0 .. Cardinality(Tasks)
  BY DEF B!Ids, B!Cardinality, Cardinality
<1>3. \A t \in Tasks : task[t].id \in Nat /\ task[t].id <= Cardinality(Numbered)
  BY DEF BranchInv, BranchTypes, TaskStates, IdInv
<1>4. \A i : Known(i) => i \in B!Ids
  BY <1>1, <1>2, <1>3 DEF Known
<1>5. \A t \in Tasks : task[t] \in [pc : {"none", "queued", "inserted", "advanced", "done"},
                                   session : B!Maybe, parent : B!Ids, id : B!Ids]
  <2>1. \A t \in Tasks : task[t].id \in B!Ids /\ task[t].parent \in B!Ids
    BY <1>1, <1>2, <1>3, <1>4 DEF IdInv
  <2> QED BY <2>1 DEF BranchInv, BranchTypes, TaskStates
<1> HIDE DEF Known
<1>6. branch \in [Sessions -> B!Ids] /\ head \in B!Ids
  BY <1>4 DEF BranchInv, BranchTypes, IdInv
<1>7. \A r \in rows : r.id \in B!Ids /\ r.session \in Sessions /\ r.parent < r.id
  BY <1>4 DEF BranchInv, BranchTypes, IdInv, MessageRows
<1>8. \A c \in Calls : /\ branchCall[c].session \in B!Maybe
                       /\ branchCall[c].msg \in B!Ids /\ branchCall[c].ids \subseteq B!Ids
  BY <1>4 DEF BranchInv, BranchTypes, IdInv, CallStates
<1>9. task \in [Tasks -> [pc : {"none", "queued", "inserted", "advanced", "done"},
                         session : B!Maybe, parent : B!Ids, id : B!Ids]]
  BY <1>5 DEF BranchInv, BranchTypes
<1> QED BY <1>6, <1>7, <1>8, <1>9 DEF B!BranchesTypeOK, BranchInv, BranchTypes

LEMMA EventsTyped ==
  ASSUME EventInv, EventsAssumption
  PROVE  E!EventsTypeOK
<1>1. \A i \in 1 .. Len(bus) : bus[i] \in BusEvents
  BY DEF EventInv, EventTypes
<1>2. \A i \in 1 .. Len(bus) : bus[i].about \in Sessions /\ bus[i].kind \in E!Kinds /\ bus[i].tagged \in BOOLEAN
  BY <1>1 DEF BusEvents
<1>3. \A c \in Calls : queue[c] \in Seq(1 .. Len(bus)) /\ Len(queue[c]) <= QueueSize
  <2>1. \A c \in Calls : /\ queue[c] \in Seq(Nat) /\ Len(queue[c]) <= QueueSize
                         /\ \A j \in 1 .. Len(queue[c]) : queue[c][j] \in 1 .. Len(bus)
    BY DEF EventInv, EventTypes
  <2> QED BY <2>1
<1>4. queue \in [Calls -> Seq(1 .. Len(bus))]
  BY <1>3 DEF EventInv, EventTypes
<1>5. \A s \in Sessions : count[s] \in Nat
  BY DEF EventInv, EventTypes
<1> QED BY <1>2, <1>3, <1>4, <1>5 DEF EventInv, EventTypes, RunStates, E!EventsTypeOK

\* What has no value is no entry and no row, and what is promoted has one.
EmptyInv ==
  /\ \A k \in Calls : cache[k].val = None => cache[k] = M!NoEntry
  /\ \A k \in Calls : disk[k].val = None => disk[k] = M!NoRow
  /\ promo.key # None => promo.row.val # None
  /\ written \subseteq Writes /\ purge \in {"idle", "begun", "done"} /\ lost \subseteq Calls

LEMMA InitEmpty == ASSUME MemoryAssumption, M!Init PROVE EmptyInv
BY DEF M!Init, M!NoEntry, M!NoRow, EmptyInv, MemoryAssumption, M!Values

LEMMA WithoutEmpty ==
  ASSUME NEW with, \A k \in Calls : with[k].val = None => with[k] = M!NoEntry, NEW evicted,
         cache' = M!Without(with, evicted)
  PROVE  \A k \in Calls : cache'[k].val = None => cache'[k] = M!NoEntry
BY DEF M!Without

LEMMA EmptyStep ==
  ASSUME MemoryAssumption, MemoryInv, EmptyInv, MemoryMoves \/ UNCHANGED M!memoryVars
  PROVE  EmptyInv'
<1>1. /\ disk \in [Calls -> Rows] /\ cache \in [Calls -> Entries] /\ promo \in [key : Calls \cup {None}, row : Rows]
      /\ flush \in [left : SUBSET FlushEntries, now : FlushEntries \cup {None}]
      /\ \A f \in Facts : demotion[f].pc = "embedding" => demotion[f].key \in Calls
  BY DEF MemoryInv, MemoryTypes
<1>2. None \notin Facts /\ None \notin Writes /\ None \notin M!Values
  BY DEF MemoryAssumption, M!Values
<1>3. CASE UNCHANGED M!memoryVars
  BY <1>3 DEF M!memoryVars, EmptyInv
<1>4. ASSUME NEW f \in Facts, M!DemoteRedundant(f) \/ \E k \in Calls : M!DemoteBegin(f, k)
      PROVE  EmptyInv'
  BY <1>4 DEF M!DemoteRedundant, M!DemoteBegin, EmptyInv
<1>5. ASSUME NEW f \in Facts, NEW evicted \in SUBSET Calls, DemoteInto(f, evicted)
      PROVE  EmptyInv'
  <2> DEFINE k == demotion[f].key
             new == [val |-> f, task |-> f \in Absorbing, dirty |-> TRUE, pinned |-> FALSE]
             with == [cache EXCEPT ![k] = new]
  <2>1. k \in Calls /\ new.val = f
    BY <1>1, <1>5 DEF DemoteInto
  <2>2. cache' = M!Without(with, evicted) /\ UNCHANGED <<disk, promo, written, purge>>
        /\ lost' \subseteq lost \cup evicted
    BY <1>5 DEF DemoteInto
  <2> HIDE DEF new
  <2>3. \A x \in Calls : with[x].val = None => with[x] = M!NoEntry
    BY <1>1, <1>2, <2>1 DEF EmptyInv
  <2> HIDE DEF with
  <2>4. \A x \in Calls : cache'[x].val = None => cache'[x] = M!NoEntry
    BY <2>2, <2>3, WithoutEmpty
  <2> QED BY <2>2, <2>4 DEF EmptyInv
<1>6. ASSUME NEW evicted \in SUBSET Calls, PromoteInto(evicted)
      PROVE  EmptyInv'
  <2> DEFINE k == promo.key
             new == [val |-> promo.row.val, task |-> promo.row.task, dirty |-> FALSE, pinned |-> FALSE]
             with == [cache EXCEPT ![k] = new]
  <2>1. k \in Calls /\ new.val # None
    BY <1>1, <1>6 DEF PromoteInto, EmptyInv
  <2>2. promo' = [key |-> None, row |-> M!NoRow] /\ UNCHANGED <<disk, written, purge>>
    BY <1>6 DEF PromoteInto
  <2>3. \/ cache' = M!Without(with, evicted) /\ lost' \subseteq lost \cup evicted
        \/ UNCHANGED <<cache, lost>>
    BY <1>6 DEF PromoteInto, M!Loses
  <2> HIDE DEF new
  <2>4. \A x \in Calls : with[x].val = None => with[x] = M!NoEntry
    BY <1>1, <2>1 DEF EmptyInv
  <2> HIDE DEF with
  <2>5. \A x \in Calls : cache'[x].val = None => cache'[x] = M!NoEntry
    BY <2>3, <2>4, WithoutEmpty DEF EmptyInv
  <2> QED BY <2>2, <2>3, <2>5 DEF EmptyInv
<1>7. ASSUME NEW e \in FlushEntries, disk' = [disk EXCEPT ![e.key] = M!Row(e)]
      PROVE  \A k \in Calls : disk'[k].val = None => disk'[k] = M!NoRow
  <2>1. e.key \in Calls /\ M!Row(e).val # None
    BY <1>2 DEF FlushEntries, M!Row
  <2> QED BY <1>1, <1>7, <2>1 DEF EmptyInv
<1>8. CASE M!FlushBegin
  <2>1. M!Copies \subseteq FlushEntries
    BY <1>1, MemoryAssumption DEF M!Copies, FlushEntries, Entries, MemoryInv, MemoryTypes
  <2>2. PICK e \in FlushEntries : disk' = [disk EXCEPT ![e.key] = M!Row(e)]
    BY <1>8, <2>1 DEF M!FlushBegin
  <2>3. UNCHANGED <<cache, promo, written, purge, lost>>
    BY <1>8 DEF M!FlushBegin
  <2> QED BY <1>7, <2>2, <2>3 DEF EmptyInv
<1>9. CASE M!FlushNext
  <2>1. \A k \in Calls : disk'[k].val = None => disk'[k] = M!NoRow
    <3>1. CASE flush.left = {}
      BY <1>9, <3>1 DEF M!FlushNext, EmptyInv
    <3>2. CASE flush.left # {}
      <4>1. PICK e \in flush.left : disk' = [disk EXCEPT ![e.key] = M!Row(e)]
        BY <1>9, <3>2 DEF M!FlushNext
      <4> QED BY <1>1, <1>7, <4>1
    <3> QED BY <3>1, <3>2
  <2>2. \A k \in Calls : cache'[k].val = None => cache'[k] = M!NoEntry
    <3>1. \A k \in Calls : cache[k].val # None => [cache[k] EXCEPT !.dirty = FALSE].val # None
      BY <1>1 DEF Entries
    <3>2. cache' = M!MarkClean
      BY <1>9 DEF M!FlushNext
    <3> QED BY <1>1, <3>1, <3>2 DEF M!MarkClean, EmptyInv
  <2>3. lost' \subseteq Calls
    BY <1>9, <1>1 DEF M!FlushNext, M!Loses, EmptyInv, FlushEntries
  <2>4. UNCHANGED <<promo, written, purge>>
    BY <1>9 DEF M!FlushNext
  <2> QED BY <2>1, <2>2, <2>3, <2>4 DEF EmptyInv
<1>10. CASE M!PurgeBegin \/ M!PurgeEnd
  <2>1. CASE M!PurgeBegin
    BY <2>1 DEF M!PurgeBegin, EmptyInv
  <2>2. CASE M!PurgeEnd
    <3>1. \A k \in Calls : cache'[k].val = None => cache'[k] = M!NoEntry
      BY <2>2, WithoutEmpty DEF M!PurgeEnd, EmptyInv
    <3>2. \A k \in Calls : disk'[k].val = None => disk'[k] = M!NoRow
      BY <2>2 DEF M!PurgeEnd, EmptyInv
    <3>3. lost' \subseteq Calls /\ purge' = "done" /\ UNCHANGED <<promo, written>>
      BY <2>2 DEF M!PurgeEnd, M!Loses, EmptyInv
    <3> QED BY <3>1, <3>2, <3>3 DEF EmptyInv
  <2> QED BY <1>10, <2>1, <2>2
<1>11. ASSUME NEW k \in Calls, M!PromoteBegin(k)
       PROVE  EmptyInv'
  <2>1. promo' = [key |-> k, row |-> disk[k]] /\ disk[k].val # None /\ UNCHANGED <<disk, cache, written, purge, lost>>
    BY <1>11 DEF M!PromoteBegin, M!Found, EmptyInv
  <2> QED BY <2>1 DEF EmptyInv
<1>12. ASSUME NEW k \in Calls, M!Pin(k)
       PROVE  EmptyInv'
  <2>1. cache[k].val # None /\ [cache[k] EXCEPT !.pinned = TRUE].val # None
    BY <1>1, <1>12 DEF M!Pin, Entries
  <2>2. cache' = [cache EXCEPT ![k] = [cache[k] EXCEPT !.pinned = TRUE]] /\ UNCHANGED <<disk, promo, written, purge, lost>>
    BY <1>12 DEF M!Pin
  <2> QED BY <1>1, <2>1, <2>2 DEF EmptyInv
<1>13. ASSUME NEW k \in Calls, M!DeleteRow(k)
       PROVE  EmptyInv'
  BY <1>1, <1>13 DEF M!DeleteRow, M!Loses, EmptyInv
<1>14. ASSUME NEW k \in Calls, NEW w \in Writes, NEW tagged, M!PutRow(w, k, tagged)
       PROVE  EmptyInv'
  <2>1. disk' = [disk EXCEPT ![k] = [val |-> w, task |-> tagged]] /\ written' = written \cup {w}
    BY <1>14 DEF M!PutRow
  <2>2. lost' \subseteq lost \cup {k} /\ UNCHANGED <<cache, promo, purge>>
    BY <1>14 DEF M!PutRow, M!Loses
  <2>3. \A x \in Calls : disk'[x].val = None => disk'[x] = M!NoRow
    BY <1>1, <1>2, <2>1 DEF EmptyInv
  <2> QED BY <2>1, <2>2, <2>3 DEF EmptyInv
<1> QED BY <1>3, <1>4, <1>5, <1>6, <1>8, <1>9, <1>10, <1>11, <1>12, <1>13, <1>14
        DEF MemoryMoves, M!WriteRow, M!SkillWrites

LEMMA MemoryTyped ==
  ASSUME MemoryInv, EmptyInv
  PROVE  M!MemoryTypeOK
BY DEF MemoryInv, MemoryTypes, EmptyInv, M!MemoryTypeOK, Rows, Entries

\* Where the analyses and the greetings stand; what is gone was made, and so was what is stored.
GreetStates == [pc : {"none", "composing", "briefing", "done"}, clear : BOOLEAN, brief : BOOLEAN]
Begun(n) == n < dreams \/ (n = dreams /\ dreamer.pc # "flushing")
DreamTypes ==
  /\ long \subseteq Chats
  /\ dreamer.pc = "watching" <=> dreamer.sess = NoSession
  /\ \A c \in loose : c.pc # "flushing"
  /\ dreams \in 0 .. MaxDreams
  /\ analysis \in [D!Dreams -> {"none", "begun", "asking", "done"}]
  /\ \A n \in D!Dreams : analysis[n] # "none" => Begun(n)
  /\ recent \cap usage = {} /\ recent \cup usage \subseteq Events
  /\ row \in 0 .. MaxDreams /\ (row = 0 \/ row \in made) /\ older \in BOOLEAN
  /\ gone \subseteq made
  /\ greet \in [Calls -> GreetStates]

LEMMA InitDreamTypes == ASSUME DreamAssumption, D!Init PROVE DreamTypes
BY DEF D!Init, DreamTypes, DreamAssumption, D!Watching, GreetStates

LEMMA DreamTypesStep ==
  ASSUME DreamAssumption, DreamInv, DreamTypes, [D!Next]_D!dreamVars
  PROVE  DreamTypes'
<1> USE DEF D!userVars, D!watchVars, D!summaryVars, D!hintVars
<1>1. /\ open \in Chats /\ NoSession \notin Chats /\ MaxDreams \in Nat
      /\ dreamer \in [pc : {"watching", "flushing", "extracting", "storing", "stored"},
                      sess : Chats \cup {NoSession}, at : 0 .. MaxMinutes]
  BY DEF DreamInv, DreamAssumption
<1>2. CASE \/ UNCHANGED D!dreamVars \/ D!Message \/ D!FallsIdle \/ D!Minute \/ D!CopyLost
           \/ (\E e \in Events : D!Record(e)) \/ \E s \in Chats : D!Open(s)
  <2>1. /\ UNCHANGED <<dreamer, loose, dreams, analysis, row, made, gone, greet>>
        /\ long' \subseteq Chats /\ older' \in BOOLEAN
        /\ recent' \cap usage' = {} /\ recent' \cup usage' \subseteq Events
    BY <1>1, <1>2 DEF DreamTypes, D!dreamVars, D!Message, D!FallsIdle, D!Minute, D!CopyLost, D!Record,
       D!Open
  <2> QED BY <2>1 DEF DreamTypes, Begun
<1>3. CASE D!Watch
  <2>1. /\ dreams' = dreams + 1 /\ dreams < MaxDreams /\ dreamer'.pc = "flushing" /\ dreamer'.sess = open
        /\ UNCHANGED <<long, loose, analysis, recent, usage, row, older, made, gone, greet>>
    BY <1>3 DEF D!Watch
  <2>2. \A n \in D!Dreams : Begun(n) => Begun(n)'
    BY <1>1, <2>1 DEF DreamTypes, Begun, D!Dreams
  <2>3. dreamer'.pc # "watching" /\ dreamer'.sess # NoSession /\ dreams' \in 0 .. MaxDreams
    BY <1>1, <2>1 DEF DreamTypes
  <2> QED BY <2>1, <2>2, <2>3 DEF DreamTypes
<1>4. CASE D!Flush
  <2>1. /\ dreamer' = [dreamer EXCEPT !.pc = "extracting"] /\ dreamer.pc = "flushing"
        /\ analysis' = [analysis EXCEPT ![dreams] = "begun"]
        /\ usage' = usage \cup recent /\ recent' = {}
        /\ UNCHANGED <<long, loose, dreams, row, older, made, gone, greet>>
    BY <1>4 DEF D!Flush
  <2>2. dreamer'.pc = "extracting" /\ dreamer'.sess = dreamer.sess
    BY <1>1, <2>1
  <2>3. /\ analysis' \in [D!Dreams -> {"none", "begun", "asking", "done"}]
        /\ \A n \in D!Dreams : analysis'[n] # "none" => Begun(n)'
    BY <1>1, <2>1, <2>2 DEF DreamTypes, Begun, D!Dreams
  <2> QED BY <2>1, <2>2, <2>3 DEF DreamTypes
<1>5. CASE D!Extracted \/ D!StoreSummary
  <2>1. /\ dreamer.pc \notin {"watching", "flushing"} /\ dreamer'.pc \notin {"watching", "flushing"}
        /\ dreamer'.sess = dreamer.sess
        /\ UNCHANGED <<long, loose, dreams, analysis, recent, usage, row, older, made, gone, greet>>
    BY <1>1, <1>5 DEF D!Extracted, D!WithKey, D!StoreSummary
  <2> QED BY <2>1 DEF DreamTypes, Begun
<1>6. CASE D!Consolidate \/ D!Fails
  <2>1. /\ dreamer' = D!Watching /\ recent' \in {recent, {}}
        /\ UNCHANGED <<long, loose, dreams, analysis, usage, row, older, made, gone, greet>>
    BY <1>6 DEF D!Consolidate, D!Fails
  <2> QED BY <2>1 DEF DreamTypes, Begun, D!Watching
<1>7. ASSUME NEW n \in D!Dreams, D!AnalyseBegin(n)
      PROVE  DreamTypes'
  <2>1. /\ analysis[n] = "begun" /\ \E x \in {"asking", "done"} : analysis' = [analysis EXCEPT ![n] = x]
        /\ UNCHANGED <<long, dreamer, loose, dreams, recent, usage, row, older, made, gone, greet>>
    BY <1>7 DEF D!AnalyseBegin
  <2> QED BY <2>1 DEF DreamTypes, Begun
<1>8. ASSUME NEW n \in D!Dreams, D!AnalyseEnd(n)
      PROVE  DreamTypes'
  <2>1. /\ analysis[n] = "asking" /\ analysis' = [analysis EXCEPT ![n] = "done"]
        /\ \/ row' = n /\ made' = made \cup {n} /\ gone' = gone \cup ({row} \ {0})
           \/ UNCHANGED <<row, made, gone>>
        /\ UNCHANGED <<long, dreamer, loose, dreams, older, recent, usage, greet>>
    BY <1>8 DEF D!AnalyseEnd, D!Replace
  <2>2. n \in 0 .. MaxDreams
    BY <1>1 DEF D!Dreams
  <2>3. /\ analysis' \in [D!Dreams -> {"none", "begun", "asking", "done"}]
        /\ \A m \in D!Dreams : analysis'[m] # "none" => Begun(m)'
    BY <2>1 DEF DreamTypes, Begun
  <2> QED BY <2>1, <2>2, <2>3 DEF DreamTypes
<1>9. ASSUME NEW n \in D!Dreams, D!AnalysisFails(n)
      PROVE  DreamTypes'
  <2>1. /\ analysis[n] = "begun" /\ analysis' = [analysis EXCEPT ![n] = "done"]
        /\ \/ dreamer' = D!Watching /\ n = dreams /\ loose' \subseteq loose \cup {dreamer}
           \/ UNCHANGED <<dreamer, loose>>
        /\ UNCHANGED <<long, dreams, recent, usage, row, older, made, gone, greet>>
    BY <1>9 DEF D!AnalysisFails
  <2>2. Begun(n)
    BY <2>1 DEF DreamTypes
  <2>3. \A c \in loose' : c.pc # "flushing"
    BY <1>1, <2>1, <2>2 DEF DreamTypes, Begun
  <2>4. \A m \in D!Dreams : Begun(m) => Begun(m)'
    BY <2>1 DEF Begun, D!Watching
  <2>5. dreamer'.pc = "watching" <=> dreamer'.sess = NoSession
    BY <2>1 DEF DreamTypes, D!Watching
  <2>6. /\ analysis' \in [D!Dreams -> {"none", "begun", "asking", "done"}]
        /\ \A m \in D!Dreams : analysis'[m] # "none" => analysis[m] # "none"
    BY <2>1 DEF DreamTypes
  <2> QED BY <2>1, <2>3, <2>4, <2>5, <2>6 DEF DreamTypes
<1>10. ASSUME NEW c \in loose, D!LooseStep(c)
       PROVE  DreamTypes'
  <2>1. /\ loose' \subseteq loose \cup {D!WithKey(c)}
        /\ UNCHANGED <<long, dreamer, dreams, analysis, recent, usage, row, older, made, gone, greet>>
    BY <1>10 DEF D!LooseStep
  <2>2. D!WithKey(c).pc = "storing"
    BY DEF D!WithKey, DreamInv
  <2> QED BY <2>1, <2>2 DEF DreamTypes, Begun
<1>11. CASE D!WriteBack
  <2>1. /\ row' = 0 /\ gone' = gone \cup ({row} \ {0}) /\ older' = FALSE
        /\ UNCHANGED <<long, dreamer, loose, dreams, analysis, recent, usage, made, greet>>
    BY <1>11 DEF D!WriteBack, D!Replace
  <2>2. gone' \subseteq made'
    <3>1. \A n \in gone \cup ({row} \ {0}) : n \in made
      BY DEF DreamTypes
    <3> QED BY <2>1, <3>1
  <2>3. row' \in 0 .. MaxDreams /\ row' = 0 /\ older' \in BOOLEAN
    <3>1. 0 \in 0 .. MaxDreams
      BY <1>1
    <3> QED BY <2>1, <3>1, Zenon
  <2>4. \A n \in D!Dreams : analysis'[n] # "none" => Begun(n)'
    BY <2>1 DEF DreamTypes, Begun
  <2> QED BY <2>1, <2>2, <2>3, <2>4 DEF DreamTypes
<1>12. ASSUME NEW g \in Calls,
              D!GreetCached(g) \/ D!GreetRead(g) \/ D!GreetClear(g) \/ D!BriefRead(g) \/ D!Greeted(g)
       PROVE  DreamTypes'
  <2>1. /\ row' \in {0, row} /\ gone' \subseteq gone \cup ({row} \ {0})
        /\ UNCHANGED <<long, dreamer, loose, dreams, analysis, recent, usage, made, older>>
    BY <1>12 DEF D!GreetCached, D!GreetRead, D!GreetClear, D!BriefRead, D!Greeted, D!Replace, D!Shown
  <2>2. greet' \in [Calls -> GreetStates]
    <3>1. greet \in [Calls -> GreetStates] /\ greet[g] \in GreetStates
      BY DEF DreamTypes
    <3>2. /\ [greet[g] EXCEPT !.pc = "done"] \in GreetStates
          /\ \A x \in BOOLEAN : [pc |-> "composing", clear |-> x, brief |-> FALSE] \in GreetStates
          /\ [greet[g] EXCEPT !.clear = FALSE] \in GreetStates
          /\ \A x \in BOOLEAN : [greet[g] EXCEPT !.pc = "briefing", !.brief = x] \in GreetStates
          /\ [greet[g] EXCEPT !.pc = "done", !.brief = FALSE] \in GreetStates
      BY <3>1 DEF GreetStates
    <3>3. CASE D!GreetCached(g)
      BY <3>1, <3>2, <3>3 DEF D!GreetCached
    <3>4. CASE D!GreetRead(g)
      <4>1. \E x \in BOOLEAN : greet' = [greet EXCEPT ![g] = [pc |-> "composing", clear |-> x, brief |-> FALSE]]
        BY <3>4 DEF D!GreetRead
      <4> QED BY <3>1, <3>2, <4>1
    <3>5. CASE D!GreetClear(g)
      BY <3>1, <3>2, <3>5 DEF D!GreetClear
    <3>6. CASE D!BriefRead(g)
      <4>1. \E x \in BOOLEAN : greet' = [greet EXCEPT ![g] = [greet[g] EXCEPT !.pc = "briefing", !.brief = x]]
        <5>1. PICK x \in {row # 0, TRUE} : greet' = [greet EXCEPT ![g].pc = "briefing", ![g].brief = x]
          BY <3>6 DEF D!BriefRead
        <5>2. greet' = [greet EXCEPT ![g] = [greet[g] EXCEPT !.pc = "briefing", !.brief = x]]
          BY <3>1, <5>1 DEF GreetStates
        <5> QED BY <5>2
      <4> QED BY <3>1, <3>2, <4>1
    <3>7. CASE D!Greeted(g)
      <4>1. greet' = [greet EXCEPT ![g] = [greet[g] EXCEPT !.pc = "done", !.brief = FALSE]]
        BY <3>1, <3>7 DEF D!Greeted, GreetStates
      <4> QED BY <3>1, <3>2, <4>1
    <3> QED BY <1>12, <3>3, <3>4, <3>5, <3>6, <3>7
  <2> QED BY <1>1, <2>1, <2>2 DEF DreamTypes, Begun
<1> QED BY <1>2, <1>3, <1>4, <1>5, <1>6, <1>7, <1>8, <1>9, <1>10, <1>11, <1>12 DEF D!Next

LEMMA DreamsTyped ==
  ASSUME DreamInv, DreamTypes
  PROVE  D!DreamingTypeOK
<1>1. \A g \in Calls : greet[g].pc \in {"none", "composing", "briefing", "done"}
  BY DEF DreamTypes, GreetStates
<1>2. \A c \in loose : c.pc \in {"extracting", "storing"} /\ c.sess \in Chats
  BY DEF DreamInv, DreamTypes
<1> QED BY <1>1, <1>2 DEF DreamInv, DreamTypes, D!DreamingTypeOK

(* The five parts keep the types of their state: the ids of messages and   *)
(* of events are ids that were given, what has no value is no entry, and   *)
(* what is gone was made (kernel/compaction.py, kernel/message_bus.py,     *)
(* db/session_repository.py, memory/cache.py, kernel/dreaming.py).         *)
THEOREM ConversationTyped == Spec => []ConversationTypeOK
<1> DEFINE Inv == /\ CompactionInv /\ BranchInv /\ IdInv /\ EventInv
                  /\ MemoryInv /\ EmptyInv /\ DreamInv /\ DreamTypes
<1>1. Init => Inv
  BY InitCompaction, InitBranches, InitIds, InitEvents, InitMemory, InitEmpty, InitDreams,
     InitDreamTypes,
     ConversationConstants, MemoryConstants DEF Init
<1>2. Inv /\ [Next]_vars => Inv'
  BY CompactionStep, BranchStep, IdStep, EventStep, MemoryStep, EmptyStep, DreamStep, DreamTypesStep,
     ConversationSteps, MemorySteps, ConversationConstants, MemoryConstants, ConversationAssumption
<1>3. Inv => ConversationTypeOK
  BY CompactionProperties, BranchesTyped, EventsTyped, MemoryTyped, DreamsTyped,
     ConversationConstants, ConversationAssumption DEF ConversationTypeOK
<1> QED BY <1>1, <1>2, <1>3, PTL DEF Spec

=============================================================================
