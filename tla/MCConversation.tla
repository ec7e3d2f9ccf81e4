-------------------------- MODULE MCConversation --------------------------
(***************************************************************************)
(* Five parts of a conversation checked in one run, one at a time: the     *)
(* compaction of its history, the rows of its sessions, the delivery of    *)
(* its events, the memory its facts go to, and the consolidation of what   *)
(* was said.  They share no state; `part` says which one runs, and the     *)
(* others keep their initial state.                                        *)
(***************************************************************************)
EXTENDS Naturals, Sequences, FiniteSets, TLC

CONSTANTS Sessions, NoSession,
          Tasks,  \* messages being handled, tasks and runs
          Calls,  \* session calls, connections and keys of memory entries
          Minor, Window, Batch, Interval, Overflow, Keep, LoadLimit,
          QueueSize, MaxEvents,
          MaxBus,  \* bound: events emitted in all
          Facts, Absorbing, Writes, Old, None, Budget,
          Chats,  \* sessions that are consolidated
          Events, MaxDreams, MaxMinutes

VARIABLES part,
  table, log, archive, active, history, comp, folds, spawned, saving, handler, unsaved, call,
  structural, since, cut, upset,
  live, branch, rows, current, head, task, branchCall, crossed,
  conn, filter, session, queue, bus, run, count, shown, blind, stripped, leaked,
  disk, cache, demotion, flush, promo, written, purge, latest, lost, astray,
  open, long, idle, dreamer, loose, dreams, analysis, consolidated, minute, summary, recent, usage,
  row, older, greet, cached, crowded, made, gone

compactionVars == <<table, log, archive, active, history, comp, folds, spawned, saving, handler,
                    unsaved, call, structural, since, cut, upset>>
branchVars == <<live, branch, rows, current, head, task, branchCall, crossed>>
eventVars == <<conn, filter, session, queue, bus, run, count, shown, blind, stripped, leaked>>
memoryVars == <<disk, cache, demotion, flush, promo, written, purge, latest, lost, astray>>
dreamVars == <<open, long, idle, dreamer, loose, dreams, analysis, consolidated, minute, summary,
               recent, usage, row, older, greet, cached, crowded, made, gone>>

\* Names are told apart, and the bounds are numbers.
ASSUME ConversationAssumption ==
  /\ NoSession \notin Sessions \cup Chats
  /\ IsFiniteSet(Tasks) /\ {QueueSize, MaxDreams, MaxMinutes} \subseteq Nat
  /\ {Window, Batch, Interval, Overflow, Keep, LoadLimit} \subseteq Nat /\ Keep <= Overflow
  /\ None \notin Facts \cup Writes \cup {Old} /\ Old \notin Facts /\ Absorbing \subseteq Facts
  /\ None \notin [key : Calls, val : Facts \cup Writes \cup {Old}, task : BOOLEAN]

C == INSTANCE Compaction WITH Messages <- Tasks
B == INSTANCE SessionBranches WITH active <- current, call <- branchCall, upset <- crossed
E == INSTANCE EventDelivery WITH Conns <- Calls, Runs <- Tasks
M == INSTANCE MemoryTiers WITH Keys <- Calls
\* The same memory with room for two entries.
M2 == INSTANCE MemoryTiers WITH Keys <- Calls, Budget <- 2
D == INSTANCE Dreaming WITH Sessions <- Chats, Greets <- Calls, active <- open

Init ==
  /\ part \in {"compaction", "branches", "events", "memory", "two entries", "dreaming"}
  /\ C!Init /\ B!Init /\ E!Init /\ M!Init /\ D!Init
  /\ part # "compaction" => structural /\ \A s \in Sessions : table[s] = "new"
  /\ part # "branches" => current = NoSession
  /\ \E k \in Calls : disk[k] = M!NoRow
  /\ part # "memory" => disk = [k \in Calls |-> M!NoRow]
  /\ part # "dreaming" => ~older /\ open = CHOOSE s \in Chats : TRUE

\* Bounds: four at most of the messages and the calls begun, where a message that is not pinned, is
\* killed or denied counts twice; and one turn at a time to be persisted where a model folds.
FewBegun ==
  LET odd == {m \in Tasks : ~handler'[m].pinned \/ handler'[m].pc \in {"denying", "noted"}}
      begun == {m \in Tasks : handler'[m].pc # "idle"}
      called == {c \in Calls : call'[c].pc # "idle"}
  IN /\ Cardinality(odd) + Cardinality(begun) + Cardinality(called) <= 4
     /\ ~structural' => Cardinality(unsaved') <= 1

\* A second connection is greeted once the greeting is cached, and none while a consolidation goes
\* on by itself; the copy of the cache is gone before the second consolidation.
DreamingStep ==
  LET met == {c \in Calls : greet'[c].pc # "none"}
  IN (met = Calls => cached') /\ (met # {} => loose' = {}) /\ (older' => dreams' < 2)

Next ==
  \/ part = "compaction" /\ C!Next /\ FewBegun
     /\ UNCHANGED <<part, branchVars, eventVars, memoryVars, dreamVars>>
  \/ part = "branches" /\ B!Next /\ UNCHANGED <<part, compactionVars, eventVars, memoryVars, dreamVars>>
  \/ part = "events" /\ E!Next /\ Len(bus') <= MaxBus
     /\ UNCHANGED <<part, compactionVars, branchVars, memoryVars, dreamVars>>
  \/ part = "memory" /\ M!Next /\ UNCHANGED <<part, compactionVars, branchVars, eventVars, dreamVars>>
  \/ part = "two entries" /\ M2!Next /\ UNCHANGED <<part, compactionVars, branchVars, eventVars, dreamVars>>
  \/ /\ part = "dreaming" /\ D!Next /\ DreamingStep
     /\ UNCHANGED <<part, compactionVars, branchVars, eventVars, memoryVars>>

vars == <<part, compactionVars, branchVars, eventVars, memoryVars, dreamVars>>
Spec == Init /\ [][Next]_vars

Sym == Permutations(Sessions) \cup Permutations(Tasks) \cup Permutations(Calls)

\* The states of the parts have their types.
ConversationTypeOK ==
  C!CompactionTypeOK /\ B!BranchesTypeOK /\ E!EventsTypeOK /\ M!MemoryTypeOK /\ D!DreamingTypeOK

\* A turn between the place where folding began and the cursor is in the summary, on its way into
\* it or waits for it.
NoTurnForgotten == C!NoTurnForgotten
\* What is in memory belongs to the active session.
MemoryOfActiveSession == C!MemoryOfActiveSession
\* The head in memory is that of the active session's row.
HeadsAgree == B!HeadsAgree
\* The parent of a message is a message of its session.
ParentsInSession == B!ParentsInSession
\* The working indicator of a connection tells whether a run is under way.
IndicatorTells == E!IndicatorTells
\* An event reaches another session only once its tag has been stripped.
LeaksOnlyStripped == E!LeaksOnlyStripped
\* The fact demoted last to a key is lost in known ways only.
NoFactLost == M!NoFactLost
\* What a purged session left is gone.
PurgedIsGone == M!PurgedIsGone
\* A consolidated session has its summary, and a suggestion is kept until it is read.
DreamKept == D!DreamKept
=============================================================================
