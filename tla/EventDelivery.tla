--------------------------- MODULE EventDelivery ---------------------------
(***************************************************************************)
(* Events on their way from background runs to web-socket connections:     *)
(* the message bus with its bounded queues (kernel/message_bus.py), the    *)
(* runs of kernel/orchestrator.py (run_in_background) and the forwarding   *)
(* loops of api/routes/chat.py.                                            *)
(*                                                                         *)
(* An event is one dict: every queue that holds it holds the same one, so  *)
(* queues hold places in bus, and a forwarder that strips the session tag  *)
(* strips it for every queue.                                              *)
(***************************************************************************)
EXTENDS Naturals, Sequences

CONSTANTS Conns,      \* web-socket connections
          Sessions,   \* sessions
          Runs,       \* background runs
          NoSession,  \* not a session: None
          QueueSize,  \* max_queue_size
          MaxEvents   \* bound: runs yield only while fewer events have been emitted

VARIABLES
  conn,     \* conn[c]: the state of a connection
  filter,   \* the session it subscribed with
  session,  \* the session_id of its handler
  queue,    \* its queue, as places in bus
  bus,      \* the events emitted so far; tagged while they carry _session_id
  run,      \* where a run stands, and its session
  count,    \* _active_bg_sessions
  shown,    \* the sessions each connection was last told are working
  blind,    \* history: sessions whose events a connection missed
  stripped, \* history: events whose tag a connection of their own session took off
  leaked    \* history: events sent to a connection of another session

eventVars == <<conn, filter, session, queue, bus, run, count, shown, blind, stripped, leaked>>

Maybe == Sessions \cup {NoSession}
Kinds == {"session_working", "response", "error", "session_idle"}

EventsTypeOK ==
  /\ conn \in [Conns -> {"off", "on", "deaf", "closed"}]
  /\ filter \in [Conns -> Maybe] /\ session \in [Conns -> Maybe]
  /\ queue \in [Conns -> Seq(1..Len(bus))] /\ \A c \in Conns : Len(queue[c]) <= QueueSize
  /\ \A i \in 1..Len(bus) : bus[i].about \in Sessions /\ bus[i].kind \in Kinds /\ bus[i].tagged \in BOOLEAN
  /\ run \in [Runs -> [pc : {"none", "created", "running", "over"}, session : Maybe]]
  /\ \A s \in Sessions : count[s] \in Nat
  /\ shown \in [Conns -> SUBSET Sessions] /\ blind \in [Conns -> SUBSET Sessions]

Init ==
  /\ conn = [c \in Conns |-> "off"]
  /\ filter = [c \in Conns |-> NoSession] /\ session = [c \in Conns |-> NoSession]
  /\ queue = [c \in Conns |-> <<>>] /\ bus = <<>>
  /\ run = [r \in Runs |-> [pc |-> "none", session |-> NoSession]]
  /\ count = [s \in Sessions |-> 0]
  /\ shown = [c \in Conns |-> {}] /\ blind = [c \in Conns |-> {}]
  /\ stripped = {} /\ leaked = {}

-----------------------------------------------------------------------------
Subscribed == {c \in Conns : conn[c] \in {"on", "deaf"}}

\* The bus filters what is tagged for a subscriber that named a session.
Wants(c, e) == filter[c] = NoSession \/ ~e.tagged \/ e.about = filter[c]

\* A full queue drops.
HasRoomAlways(places) == TRUE
HasRoom(places) == Len(places) < QueueSize

\* emit, from a state of the bus, its queues and what was missed, to another.
Emitted(from, e) ==
  LET offered(c) == c \in Subscribed /\ Wants(c, e)
  IN [bus |-> Append(from.bus, e),
      queue |-> [c \in Conns |-> IF offered(c) /\ HasRoom(from.queue[c])
                                 THEN Append(from.queue[c], Len(from.bus) + 1) ELSE from.queue[c]],
      blind |-> [c \in Conns |-> IF offered(c) /\ ~HasRoom(from.queue[c])
                                 THEN from.blind[c] \cup {e.about} ELSE from.blind[c]]]

Bus == [bus |-> bus, queue |-> queue, blind |-> blind]
Becomes(to) == bus' = to.bus /\ queue' = to.queue /\ blind' = to.blind

Event(kind, s) == [kind |-> kind, about |-> s, tagged |-> kind \in {"response", "error"}]

-----------------------------------------------------------------------------
(* Connections.                                                            *)

\* A connection resumes a session, or defers the creation of one; the runs it finds under
\* way were announced before it subscribed.
Connect(c, s) ==
  /\ conn[c] = "off"
  /\ conn' = [conn EXCEPT ![c] = "on"]
  /\ filter' = [filter EXCEPT ![c] = s] /\ session' = [session EXCEPT ![c] = s]
  /\ blind' = [blind EXCEPT ![c] = {x \in Sessions : count[x] > 0}]
  /\ UNCHANGED <<queue, bus, run, count, shown, stripped, leaked>>

Fresh(s) == (\A d \in Conns : session[d] # s) /\ \A r \in Runs : run[r].session # s

\* A message: a deferred session is created first.  The run is counted at once and begins
\* when the loop comes to it.
Message(c, r, s) ==
  /\ conn[c] \in {"on", "deaf"} /\ run[r].pc = "none"
  /\ s = session[c] \/ (session[c] = NoSession /\ Fresh(s))
  /\ session' = [session EXCEPT ![c] = s]
  /\ run' = [run EXCEPT ![r] = [pc |-> "created", session |-> s]]
  /\ count' = [count EXCEPT ![s] = @ + 1]
  /\ UNCHANGED <<conn, filter, queue, bus, shown, blind, stripped, leaked>>

\* The forwarding loop: what is tagged for another session than the connection's is skipped.
ForwardsAll(c, e) == TRUE
Forwards(c, e) == ~e.tagged \/ e.about = session[c]

\* The tag is taken off the shared dict before the send, whatever becomes of the send.
Pop(c, i) ==
  /\ bus' = [bus EXCEPT ![i].tagged = FALSE]
  /\ stripped' = IF bus[i].kind \in {"response", "error"} /\ bus[i].about = session[c]
                 THEN stripped \cup {i} ELSE stripped

Forward(c) ==
  /\ conn[c] = "on" /\ queue[c] # <<>>
  /\ LET i == Head(queue[c])
         e == bus[i]
     IN /\ queue' = [queue EXCEPT ![c] = Tail(@)]
        /\ IF Forwards(c, e)
           THEN /\ Pop(c, i)
                /\ shown' = [shown EXCEPT ![c] =
                     CASE e.kind = "session_working" -> @ \cup {e.about}
                       [] e.kind = "session_idle" -> @ \ {e.about}
                       [] OTHER -> @]
                /\ leaked' = IF e.kind \in {"response", "error"} /\ e.about # session[c]
                             THEN leaked \cup {i} ELSE leaked
           ELSE UNCHANGED <<bus, shown, stripped, leaked>>
  /\ UNCHANGED <<conn, filter, session, run, count, blind>>

\* A send that raises, with the tag already off, ends the forwarding loop; the subscription
\* stays until the handler ends.
ForwardFails(c) ==
  /\ conn[c] = "on" /\ queue[c] # <<>>
  /\ LET i == Head(queue[c])
     IN /\ Forwards(c, bus[i]) /\ Pop(c, i)
        /\ conn' = [conn EXCEPT ![c] = "deaf"]
        /\ queue' = [queue EXCEPT ![c] = Tail(@)]
        /\ blind' = [blind EXCEPT ![c] = @ \cup {bus[i].about}]
  /\ UNCHANGED <<filter, session, run, count, shown, leaked>>

\* The handler ends, and its subscription and locals with it; its runs go on.
Close(c) ==
  /\ conn[c] \in {"on", "deaf"}
  /\ conn' = [conn EXCEPT ![c] = "closed"]
  /\ queue' = [queue EXCEPT ![c] = <<>>]
  /\ filter' = [filter EXCEPT ![c] = NoSession] /\ session' = [session EXCEPT ![c] = NoSession]
  /\ shown' = [shown EXCEPT ![c] = {}] /\ blind' = [blind EXCEPT ![c] = {}]
  /\ UNCHANGED <<bus, run, count, stripped, leaked>>

-----------------------------------------------------------------------------
(* Background runs.                                                        *)

RunBegin(r) ==
  /\ run[r].pc = "created"
  /\ run' = [run EXCEPT ![r].pc = "running"]
  /\ Becomes(Emitted(Bus, Event("session_working", run[r].session)))
  /\ UNCHANGED <<conn, filter, session, count, shown, stripped, leaked>>

RunYield(r) ==
  /\ run[r].pc = "running" /\ Len(bus) < MaxEvents
  /\ Becomes(Emitted(Bus, Event("response", run[r].session)))
  /\ UNCHANGED <<conn, filter, session, run, count, shown, stripped, leaked>>

\* The last run of a session to end says that it is idle; a generator that raises is
\* reported first.
SaysIdleAlways(s) == TRUE
SaysIdle(s) == count[s] <= 1

RunEnd(r, raised) ==
  LET s == run[r].session
      reported == IF raised THEN Emitted(Bus, Event("error", s)) ELSE Bus
  IN
  /\ run[r].pc = "running"
  /\ run' = [run EXCEPT ![r].pc = "over"]
  /\ count' = [count EXCEPT ![s] = @ - 1]
  /\ Becomes(IF SaysIdle(s) THEN Emitted(reported, Event("session_idle", s)) ELSE reported)
  /\ UNCHANGED <<conn, filter, session, shown, stripped, leaked>>

Next ==
  \/ \E c \in Conns : \/ \E s \in Maybe : Connect(c, s)
                      \/ \E r \in Runs, s \in Sessions : Message(c, r, s)
                      \/ Forward(c) \/ ForwardFails(c) \/ Close(c)
  \/ \E r \in Runs : RunBegin(r) \/ RunYield(r) \/ \E raised \in BOOLEAN : RunEnd(r, raised)

Spec == Init /\ [][Next]_eventVars

-----------------------------------------------------------------------------
(* The working indicator: a connection that has missed nothing of a        *)
(* session and has nothing left to forward shows it as working while a run *)
(* of it is under way, and as idle when none is or is about to be, however *)
(* the runs of the session overlap (kernel/orchestrator.py:1601-1633,      *)
(* kernel/message_bus.py:78-81).                                           *)
IndicatorTells ==
  \A c \in Conns, s \in Sessions :
    conn[c] = "on" /\ s \notin blind[c] /\ queue[c] = <<>> =>
      /\ (\E r \in Runs : run[r].session = s /\ run[r].pc = "running") => s \in shown[c]
      /\ s \in shown[c] => \E r \in Runs : run[r].session = s /\ run[r].pc \in {"created", "running"}

(* An event reaches a connection of another session only after a           *)
(* connection of its own session has taken the tag off the dict they       *)
(* share, to send it, whether or not the send went through                 *)
(* (api/routes/chat.py:182-196).                                           *)
LeaksOnlyStripped == leaked \subseteq stripped
=============================================================================
