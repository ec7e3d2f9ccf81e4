------------------------------ MODULE Dreaming ------------------------------
(***************************************************************************)
(* What the agent does while the user is idle (kernel/dreaming.py): the    *)
(* usage events are flushed (kernel/patterns.py), the conversation is      *)
(* consolidated and, next to it, the usage analysed.  The suggestions the  *)
(* analysis stores are read, and cleared, by the greetings                 *)
(* (kernel/proactivity.py, kernel/greeting.py), and written back as they   *)
(* were at the start by the cache (memory/promotion.py, demotion.py).      *)
(***************************************************************************)
EXTENDS Naturals, FiniteSets

CONSTANTS Sessions, NoSession,
          Events,      \* usage events, one message each
          Greets,      \* connections that are greeted
          MaxDreams,   \* consolidations attempted
          MaxMinutes   \* minutes told apart: a summary is stored under its minute

Dreams == 1..MaxDreams

VARIABLES
  active,     \* the current session
  long,       \* sessions with the four turns a consolidation asks for
  idle,       \* nobody has written for two minutes
  dreamer,    \* where the watcher stands, and the session it consolidates
  loose,      \* consolidations that go on after the analysis next to them failed
  dreams,     \* consolidations begun
  analysis,   \* analysis[n]: where the analysis next to the n-th stands
  consolidated, minute,
  summary,    \* summary[m]: the session whose summary is stored under a minute
  recent,     \* usage events in memory
  usage,      \* usage events on disk
  row,        \* the suggestions stored: the number of their analysis, 0 for none or older ones
  older,      \* the row as loaded at the start is still to be written back by the cache
  greet,      \* where a greeting stands, and what it has read
  cached,     \* a composed greeting is kept for the next connections
  crowded,    \* history: sessions whose summary another's replaced
  made,       \* history: suggestions stored
  gone        \* history: those shown, replaced by newer or older ones, or cleared unread

userVars == <<active, long, idle, minute>>
watchVars == <<dreamer, loose, dreams, consolidated>>
summaryVars == <<summary, crowded>>
hintVars == <<row, older, made, gone>>
dreamVars == <<userVars, watchVars, summaryVars, hintVars, analysis, recent, usage, greet, cached>>

Watching == [pc |-> "watching", sess |-> NoSession, at |-> 0]

DreamingTypeOK ==
  /\ active \in Sessions /\ long \subseteq Sessions /\ consolidated \subseteq Sessions
  /\ dreamer.pc \in {"watching", "flushing", "extracting", "storing", "stored"}
  /\ dreamer.pc = "watching" <=> dreamer.sess = NoSession
  /\ \A c \in loose : c.pc \in {"extracting", "storing"} /\ c.sess \in Sessions
  /\ dreams \in 0..MaxDreams /\ minute \in 0..MaxMinutes
  /\ analysis \in [Dreams -> {"none", "begun", "asking", "done"}]
  /\ summary \in [0..MaxMinutes -> Sessions \cup {NoSession}]
  /\ recent \cap usage = {} /\ recent \cup usage \subseteq Events
  /\ row \in 0..MaxDreams /\ older \in BOOLEAN /\ made \subseteq Dreams /\ gone \subseteq made
  /\ \A g \in Greets : greet[g].pc \in {"none", "composing", "briefing", "done"}

\* The rows used most are loaded into the cache, which takes them for changed.
Init ==
  /\ active \in Sessions /\ long = {} /\ idle = FALSE
  /\ dreamer = Watching /\ loose = {} /\ dreams = 0 /\ analysis = [n \in Dreams |-> "none"]
  /\ consolidated = {} /\ minute = 0 /\ summary = [m \in 0..MaxMinutes |-> NoSession]
  /\ recent = {} /\ usage = {} /\ row = 0 /\ older \in BOOLEAN
  /\ greet = [g \in Greets |-> [pc |-> "none", clear |-> FALSE, brief |-> FALSE]] /\ cached = FALSE
  /\ crowded = {} /\ made = {} /\ gone = {}

-----------------------------------------------------------------------------
(* The user, and time.                                                     *)

\* A message resets the timer when its handling begins, and its event is recorded later.
Message ==
  /\ idle' = FALSE /\ long' = long \cup {active}
  /\ UNCHANGED <<active, minute, watchVars, summaryVars, hintVars, analysis, recent, usage, greet, cached>>

Record(e) ==
  /\ e \notin recent \cup usage /\ long # {} /\ recent' = recent \cup {e}
  /\ UNCHANGED <<userVars, watchVars, summaryVars, hintVars, analysis, usage, greet, cached>>

\* Another session is opened, which does not count as activity.
Open(s) ==
  /\ s # active /\ active' = s
  /\ UNCHANGED <<long, idle, minute, watchVars, summaryVars, hintVars, analysis, recent, usage, greet, cached>>

FallsIdle ==
  /\ ~idle /\ idle' = TRUE
  /\ UNCHANGED <<active, long, minute, watchVars, summaryVars, hintVars, analysis, recent, usage, greet, cached>>

\* A minute passes; a composed greeting goes stale after some.
Minute ==
  /\ minute < MaxMinutes /\ minute' = minute + 1 /\ cached' \in {cached, FALSE}
  /\ UNCHANGED <<active, long, idle, watchVars, summaryVars, hintVars, analysis, recent, usage, greet>>

-----------------------------------------------------------------------------
(* The watcher.                                                            *)

Watch ==
  /\ dreamer = Watching /\ idle /\ dreams < MaxDreams
  /\ active \in long \ consolidated
  /\ dreams' = dreams + 1
  /\ dreamer' = [pc |-> "flushing", sess |-> active, at |-> 0]
  /\ UNCHANGED <<userVars, loose, consolidated, summaryVars, hintVars, analysis, recent, usage, greet, cached>>

\* patterns.flush: what is in memory by now joins the row of the hour.  The
\* consolidation and the analysis begin next to one another.
Flush ==
  /\ dreamer.pc = "flushing"
  /\ usage' = usage \cup recent /\ recent' = {}
  /\ dreamer' = [dreamer EXCEPT !.pc = "extracting"]
  /\ analysis' = [analysis EXCEPT ![dreams] = "begun"]
  /\ UNCHANGED <<userVars, loose, dreams, consolidated, summaryVars, hintVars, greet, cached>>

\* The memories and the summary have come; the summary's key is the minute.
WithKey(c) == [c EXCEPT !.pc = "storing", !.at = minute]

Extracted ==
  /\ dreamer.pc = "extracting" /\ dreamer' = WithKey(dreamer)
  /\ UNCHANGED <<userVars, loose, dreams, consolidated, summaryVars, hintVars, analysis, recent, usage,
                 greet, cached>>

Summarise(c) ==
  /\ summary' = [summary EXCEPT ![c.at] = c.sess]
  /\ crowded' = crowded \cup ({summary[c.at]} \ {NoSession, c.sess})

StoreSummary ==
  /\ dreamer.pc = "storing" /\ Summarise(dreamer)
  /\ dreamer' = [dreamer EXCEPT !.pc = "stored"]
  /\ UNCHANGED <<userVars, loose, dreams, consolidated, hintVars, analysis, recent, usage, greet, cached>>

\* Both have ended: the session is not consolidated again.
Consolidate ==
  /\ dreamer.pc = "stored" /\ analysis[dreams] = "done"
  /\ consolidated' = consolidated \cup {dreamer.sess} /\ dreamer' = Watching
  /\ UNCHANGED <<userVars, loose, dreams, summaryVars, hintVars, analysis, recent, usage, greet, cached>>

\* A call of the model or a statement fails: the session is tried again, and
\* the analysis goes on by itself.  Events are lost when their flush fails late.
MarkedToo == consolidated \cup {dreamer.sess}
Unmarked == consolidated

Fails ==
  /\ dreamer.pc \in {"flushing", "extracting", "storing"} /\ dreamer' = Watching
  /\ recent' \in {recent, IF dreamer.pc = "flushing" THEN {} ELSE recent}
  /\ consolidated' = Unmarked
  /\ UNCHANGED <<userVars, loose, dreams, summaryVars, hintVars, analysis, usage, greet, cached>>

\* The analysis finds no model: it is the consolidation that goes on by itself, and the session
\* is tried again.
AnalysisFails(n) ==
  /\ analysis[n] = "begun" /\ recent # {}
  /\ analysis' = [analysis EXCEPT ![n] = "done"]
  /\ IF n = dreams /\ dreamer # Watching
     THEN /\ dreamer' = Watching
          /\ loose' = loose \cup (IF dreamer.pc = "stored" THEN {} ELSE {dreamer})
     ELSE UNCHANGED <<dreamer, loose>>
  /\ UNCHANGED <<userVars, dreams, consolidated, summaryVars, hintVars, recent, usage, greet, cached>>

\* It gets its key, stores its summary, or fails.
LooseStep(c) ==
  /\ \/ c.pc = "extracting" /\ loose' = (loose \ {c}) \cup {WithKey(c)} /\ UNCHANGED summaryVars
     \/ c.pc = "storing" /\ loose' = loose \ {c} /\ Summarise(c)
     \/ loose' = loose \ {c} /\ UNCHANGED summaryVars
  /\ UNCHANGED <<userVars, dreamer, dreams, consolidated, hintVars, analysis, recent, usage, greet, cached>>

-----------------------------------------------------------------------------
(* The analysis.                                                           *)

\* What it looks at is what has been recorded since the flush.
AnalyseBegin(n) ==
  /\ analysis[n] = "begun"
  /\ analysis' = [analysis EXCEPT ![n] = IF recent = {} THEN "done" ELSE "asking"]
  /\ UNCHANGED <<userVars, watchVars, summaryVars, hintVars, recent, usage, greet, cached>>

\* What is stored gives way to these suggestions, or to none of this run.
Replace(n) == row' = n /\ gone' = gone \cup ({row} \ {0})

\* The suggestions replace those stored, if there are any.
AnalyseEnd(n) ==
  /\ analysis[n] = "asking"
  /\ analysis' = [analysis EXCEPT ![n] = "done"]
  /\ \/ Replace(n) /\ made' = made \cup {n}
     \/ UNCHANGED <<row, made, gone>>
  /\ UNCHANGED <<userVars, watchVars, summaryVars, older, recent, usage, greet, cached>>

\* A flush of the cache writes the row back as it was loaded.
WriteBack ==
  /\ older /\ older' = FALSE /\ Replace(0)
  /\ UNCHANGED <<userVars, watchVars, summaryVars, made, analysis, recent, usage, greet, cached>>

\* It is evicted before.
CopyLost ==
  /\ older /\ older' = FALSE
  /\ UNCHANGED <<userVars, watchVars, summaryVars, row, made, gone, analysis, recent, usage, greet, cached>>

-----------------------------------------------------------------------------
(* The greetings.                                                          *)

GreetCached(g) ==
  /\ greet[g].pc = "none" /\ cached
  /\ greet' = [greet EXCEPT ![g].pc = "done"]
  /\ UNCHANGED <<userVars, watchVars, summaryVars, hintVars, analysis, recent, usage, cached>>

Shown == gone' = gone \cup ({row} \ {0})

\* compose_greeting reads the suggestions, to show them, and has a task clear them, even
\* if the list that is stored is empty.
GreetRead(g) ==
  /\ greet[g].pc = "none" /\ ~cached /\ Shown
  /\ \E clear \in {row # 0, TRUE} :
       greet' = [greet EXCEPT ![g] = [pc |-> "composing", clear |-> clear, brief |-> FALSE]]
  /\ UNCHANGED <<userVars, watchVars, summaryVars, row, older, made, analysis, recent, usage, cached>>

GreetClear(g) ==
  /\ greet[g].clear /\ Replace(0)
  /\ greet' = [greet EXCEPT ![g].clear = FALSE]
  /\ UNCHANGED <<userVars, watchVars, summaryVars, older, made, analysis, recent, usage, cached>>

\* build_briefing, for a greeting the model does not write, reads them once more.
BriefRead(g) ==
  /\ greet[g].pc = "composing" /\ Shown
  /\ \E brief \in {row # 0, TRUE} : greet' = [greet EXCEPT ![g].pc = "briefing", ![g].brief = brief]
  /\ UNCHANGED <<userVars, watchVars, summaryVars, row, older, made, analysis, recent, usage, cached>>

\* What the briefing has shown it clears.
Greeted(g) ==
  /\ greet[g].pc \in {"composing", "briefing"}
  /\ greet' = [greet EXCEPT ![g].pc = "done", ![g].brief = FALSE]
  /\ cached' = TRUE
  /\ IF greet[g].brief THEN Replace(0) ELSE UNCHANGED <<row, gone>>
  /\ UNCHANGED <<userVars, watchVars, summaryVars, older, made, analysis, recent, usage>>

Next ==
  \/ Message \/ FallsIdle \/ Minute \/ Watch \/ Flush \/ Extracted \/ StoreSummary \/ Consolidate \/ Fails
  \/ WriteBack \/ CopyLost
  \/ \E c \in loose : LooseStep(c)
  \/ \E e \in Events : Record(e)
  \/ \E s \in Sessions : Open(s)
  \/ \E n \in Dreams : AnalyseBegin(n) \/ AnalysisFails(n) \/ AnalyseEnd(n)
  \/ \E g \in Greets : GreetCached(g) \/ GreetRead(g) \/ GreetClear(g) \/ BriefRead(g) \/ Greeted(g)

Spec == Init /\ [][Next]_dreamVars

-----------------------------------------------------------------------------
(* A session that is not consolidated again has its summary stored, unless *)
(* the summary of another session came under the same minute, and what the *)
(* analysis suggested is stored until a greeting has read or cleared it,   *)
(* or the cache writes back what it loaded at the start                    *)
(* (kernel/dreaming.py:101-117, 226-246, 355-361).                         *)
DreamKept ==
  /\ \A s \in consolidated : s \in crowded \/ \E m \in 0..MaxMinutes : summary[m] = s
  /\ \A n \in made \ gone : row = n
=============================================================================
