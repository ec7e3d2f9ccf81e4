---------------------------- MODULE MemoryTiers ----------------------------
(***************************************************************************)
(* The memory of the agent: entries in the cache (memory/cache.py) over    *)
(* rows on disk (memory/repository.py), facts demoted into the cache and   *)
(* flushed to disk (memory/demotion.py), rows promoted back                *)
(* (memory/promotion.py), and writes and deletions that go to disk past    *)
(* the cache (skills/sandbox.py, api/routes/memories.py).                  *)
(*                                                                         *)
(* A value is the demotion or write that made it.  Sizes are counted in    *)
(* entries; scores, similarity and embeddings are left open.               *)
(***************************************************************************)
EXTENDS Naturals, FiniteSets

CONSTANTS Keys,       \* namespace and key of an entry
          Facts,      \* demotions, one fact each
          Absorbing,  \* those of the results of tasks of the session that is purged
          Writes,     \* direct writes to disk, one each
          Old,        \* the value of rows written before the start
          None,       \* no value
          Budget      \* entries the cache holds

VARIABLES
  disk,     \* disk[k]: the row, or an empty one
  cache,    \* cache[k]: the entry, or an empty one
  demotion, \* where the demotion of a fact stands, and its key
  flush,    \* the flush in flight: entries left, the one being written, their dirty copies
  promo,    \* the row a promotion has read
  written,  \* direct writes made
  purge,    \* where the purge of the session stands
  latest,   \* history: the value demoted last to a key
  lost,     \* history: keys whose latest value the code gave up
  astray    \* history: a value of the purged session was on its way when it was purged

memoryVars == <<disk, cache, demotion, flush, promo, written, purge, latest, lost, astray>>

Values == Facts \cup Writes \cup {Old}
NoRow == [val |-> None, task |-> FALSE]
NoEntry == [val |-> None, task |-> FALSE, dirty |-> FALSE, pinned |-> FALSE]
NoFlush == [left |-> {}, now |-> None]

MemoryTypeOK ==
  /\ disk \in [Keys -> [val : Values \cup {None}, task : BOOLEAN]]
  /\ cache \in [Keys -> [val : Values \cup {None}, task : BOOLEAN, dirty : BOOLEAN, pinned : BOOLEAN]]
  /\ \A k \in Keys : cache[k].val = None => cache[k] = NoEntry
  /\ demotion \in [Facts -> [pc : {"idle", "embedding", "done"}, key : Keys \cup {None}]]
  /\ flush.now = None => flush.left = {}
  /\ written \subseteq Writes /\ purge \in {"idle", "begun", "done"} /\ lost \subseteq Keys

\* prewarm_cache has read rows of the disk; put marks what it loads as dirty.
Init ==
  /\ disk \in [Keys -> {NoRow, [val |-> Old, task |-> FALSE]}]
  /\ \E warm \in SUBSET {k \in Keys : disk[k] # NoRow} :
       /\ Cardinality(warm) <= Budget
       /\ cache = [k \in Keys |-> IF k \in warm
                    THEN [val |-> Old, task |-> FALSE, dirty |-> TRUE, pinned |-> FALSE] ELSE NoEntry]
  /\ demotion = [f \in Facts |-> [pc |-> "idle", key |-> None]]
  /\ flush = NoFlush /\ promo = [key |-> None, row |-> NoRow]
  /\ written = {} /\ purge = "idle"
  /\ latest = [k \in Keys |-> None] /\ lost = {} /\ astray = FALSE

-----------------------------------------------------------------------------
(* The cache.                                                              *)

Held(c) == {k \in Keys : c[k].val # None}
Without(c, gone) == [k \in Keys |-> IF k \in gone THEN NoEntry ELSE c[k]]

\* evict_if_needed: unpinned entries, by a score, until the rest fits the budget.
Evictions(c) ==
  {gone \in SUBSET {k \in Held(c) : ~c[k].pinned} :
     LET over == IF Cardinality(Held(c)) > Budget THEN Cardinality(Held(c)) - Budget ELSE 0
         free == Cardinality({k \in Held(c) : ~c[k].pinned})
     IN Cardinality(gone) = IF over < free THEN over ELSE free}

\* The latest value of a key is still on its way to disk.
InFlight(k) == flush.now # None /\ \E e \in flush.left \cup {flush.now} : e.key = k /\ e.val = latest[k]
Saved(k) == disk[k].val = latest[k] \/ InFlight(k) \/ (cache[k].val = latest[k] /\ cache[k].dirty)

\* What was demoted last to these keys is given up.
Loses(keys) == lost' = lost \cup {k \in keys : latest[k] # None}

-----------------------------------------------------------------------------
(* Facts demoted to the cache.                                             *)

\* The fact is valid; its embedding is asked for.
DemoteBegin(f, k) ==
  /\ demotion[f].pc = "idle"
  /\ demotion' = [demotion EXCEPT ![f] = [pc |-> "embedding", key |-> k]]
  /\ astray' = (astray \/ (f \in Absorbing /\ purge = "done"))
  /\ UNCHANGED <<disk, cache, flush, promo, written, purge, latest, lost>>

\* An entry too similar is held already.
DemoteRedundant(f) ==
  /\ demotion[f].pc = "embedding" /\ Held(cache) # {}
  /\ demotion' = [demotion EXCEPT ![f].pc = "done"]
  /\ UNCHANGED <<disk, cache, flush, promo, written, purge, latest, lost, astray>>

Demote(f) ==
  LET k == demotion[f].key
      with == [cache EXCEPT ![k] = [val |-> f, task |-> f \in Absorbing, dirty |-> TRUE, pinned |-> FALSE]]
  IN /\ demotion[f].pc = "embedding"
     /\ demotion' = [demotion EXCEPT ![f].pc = "done"]
     /\ latest' = [latest EXCEPT ![k] = f]
     /\ \E gone \in Evictions(with) :
          /\ cache' = Without(with, gone)
          /\ lost' = (lost \ {k}) \cup {x \in gone : with[x].dirty /\ latest'[x] # None}
     /\ UNCHANGED <<disk, flush, promo, written, purge, astray>>

-----------------------------------------------------------------------------
(* The flush: it holds on to the dirty entries it found, and writes them   *)
(* one by one.                                                             *)

Row(e) == [val |-> e.val, task |-> e.task]

Copies == {[key |-> k, val |-> cache[k].val, task |-> cache[k].task] :
             k \in {x \in Keys : cache[x].dirty}}

FlushBegin ==
  /\ flush = NoFlush
  /\ \E e \in Copies :
       /\ flush' = [left |-> Copies \ {e}, now |-> e]
       /\ disk' = [disk EXCEPT ![e.key] = Row(e)]
  /\ UNCHANGED <<cache, demotion, promo, written, purge, latest, lost, astray>>

\* mark_clean of whatever is cached under the key of the entry just written.
MarkCleanAll == [k \in Keys |-> IF cache[k].val = None THEN NoEntry ELSE [cache[k] EXCEPT !.dirty = FALSE]]
MarkClean == IF cache[flush.now.key].val = None THEN cache
             ELSE [cache EXCEPT ![flush.now.key].dirty = FALSE]

FlushNext ==
  /\ flush.now # None
  /\ cache' = MarkClean
  /\ IF flush.left = {}
     THEN flush' = NoFlush /\ UNCHANGED disk
     ELSE \E e \in flush.left :
            /\ flush' = [left |-> flush.left \ {e}, now |-> e]
            /\ disk' = [disk EXCEPT ![e.key] = Row(e)]
  /\ LET k == flush.now.key IN
       Loses(IF cache[k].dirty /\ cache[k].val # flush.now.val THEN {k} ELSE {})
  /\ UNCHANGED <<demotion, promo, written, purge, latest, astray>>

-----------------------------------------------------------------------------
(* Promotion: rows found by similarity go into the cache, and entries that *)
(* go into a prompt are pinned.                                            *)

\* search: by the index of the database, or else by comparing the rows one by one.
Found == {k \in Keys : disk[k] # NoRow}

PromoteBegin(k) ==
  /\ promo.key = None /\ k \in Found
  /\ promo' = [key |-> k, row |-> disk[k]]
  /\ UNCHANGED <<disk, cache, demotion, flush, written, purge, latest, lost, astray>>

\* A dirty entry is newer than the row; any other is replaced by it, and is clean.
OverwritesAlways(k) == TRUE
Overwrites(k) == ~cache[k].dirty

PromoteEnd ==
  LET k == promo.key
      with == [cache EXCEPT ![k] = [val |-> promo.row.val, task |-> promo.row.task,
                                    dirty |-> FALSE, pinned |-> FALSE]]
  IN /\ k # None
     /\ promo' = [key |-> None, row |-> NoRow]
     /\ IF Overwrites(k)
        THEN \E gone \in Evictions(with) :
               /\ cache' = Without(with, gone)
               /\ Loses({x \in gone : with[x].dirty})
        ELSE UNCHANGED <<cache, lost>>
     /\ UNCHANGED <<disk, demotion, flush, written, purge, latest, astray>>

\* What is selected for the registers survives eviction.
Pin(k) ==
  /\ cache[k].val # None /\ ~cache[k].pinned
  /\ cache' = [cache EXCEPT ![k].pinned = TRUE]
  /\ UNCHANGED <<disk, demotion, flush, promo, written, purge, latest, lost, astray>>

-----------------------------------------------------------------------------
(* Past the cache.                                                         *)

\* A row is written, by a task of the session that is purged or not.
PutRow(w, k, task) ==
  /\ w \notin written
  /\ written' = written \cup {w}
  /\ disk' = [disk EXCEPT ![k] = [val |-> w, task |-> task]]
  /\ Loses({k})
  /\ astray' = (astray \/ (task /\ purge = "done"))
  /\ UNCHANGED <<cache, demotion, flush, promo, purge, latest>>

\* A memory the user adds.
WriteRow(w, k) == PutRow(w, k, FALSE)

\* memory_write of a skill, in its own namespace or, with a permission, the profile.
SkillWrites(w, k) == \E task \in BOOLEAN : PutRow(w, k, task)

\* The user deletes a memory: its row only.
DeleteRow(k) ==
  /\ disk[k] # NoRow
  /\ disk' = [disk EXCEPT ![k] = NoRow]
  /\ Loses({k})
  /\ UNCHANGED <<cache, demotion, flush, promo, written, purge, latest, astray>>

PurgeBegin ==
  /\ purge = "idle" /\ purge' = "begun"
  /\ UNCHANGED <<disk, cache, demotion, flush, promo, written, latest, lost, astray>>

\* The entries of the session's tasks go, from the cache and from disk.
PurgedCacheNone == {}
PurgedCache == {k \in Keys : cache[k].task}

PurgeEnd ==
  /\ purge = "begun" /\ purge' = "done"
  /\ cache' = Without(cache, PurgedCache)
  /\ disk' = [k \in Keys |-> IF disk[k].task THEN NoRow ELSE disk[k]]
  /\ Loses({k \in Keys : cache[k].task \/ disk[k].task})
  /\ astray' = (astray \/ promo.row.task
                \/ (flush.now # None /\ \E e \in flush.left \cup {flush.now} : e.task)
                \/ \E f \in Absorbing : demotion[f].pc = "embedding")
  /\ UNCHANGED <<demotion, flush, promo, written, latest>>

Next ==
  \/ \E f \in Facts : DemoteRedundant(f) \/ Demote(f) \/ \E k \in Keys : DemoteBegin(f, k)
  \/ FlushBegin \/ FlushNext \/ PromoteEnd \/ PurgeBegin \/ PurgeEnd
  \/ \E k \in Keys : PromoteBegin(k) \/ Pin(k) \/ DeleteRow(k) \/ \E w \in Writes : WriteRow(w, k) \/ SkillWrites(w, k)

Spec == Init /\ [][Next]_memoryVars

-----------------------------------------------------------------------------
(* The value demoted last to a key is on disk, being flushed, or cached    *)
(* and dirty.  It is lost in three ways only: its dirty entry is evicted,  *)
(* the flush of an older value marks it clean, or a write, deletion or     *)
(* purge past the cache was meant to replace it (memory/cache.py:218-272,  *)
(* memory/demotion.py:227-251, memory/promotion.py:115-124).               *)
NoFactLost == \A k \in Keys : latest[k] # None /\ k \notin lost => Saved(k)

(* What the tasks of a purged session left is gone from both tiers, unless *)
(* it was on its way between them at the purge                             *)
(* (memory/demotion.py:289-313).                                           *)
PurgedIsGone ==
  purge = "done" /\ ~astray => \A k \in Keys : ~cache[k].task /\ ~disk[k].task
=============================================================================
