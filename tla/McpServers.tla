----------------------------- MODULE McpServers -----------------------------
(***************************************************************************)
(* One MCP server: its row in mcp_servers, its connection, and the loop    *)
(* that reconnects it (mcp/connection_manager.py), under the requests of   *)
(* the settings (api/routes/mcp.py), the tool calls of skills              *)
(* (kernel/mcp_executor.py) and the skill that installs servers            *)
(* (skills/mcp_install/skill.py, gateway_call in skills/sandbox.py).       *)
(*                                                                         *)
(* A connection is named after the request or loop that made it.           *)
(***************************************************************************)
EXTENDS Naturals

CONSTANTS Calls,    \* requests and tool calls
          Loops,    \* runs of the reconnect loop
          None,
          Configs,  \* configurations the user gives
          Kind      \* Kind[c]: "persistent", "on_demand" or "disabled"

Procs == Calls \cup Loops
NoRow == [cfg |-> None, tools |-> FALSE]
Rows == [cfg : Configs, tools : BOOLEAN]

VARIABLES
  row,        \* the server's row: its configuration, with the tools cached or not
  entry,      \* the connection recorded for the server
  status,     \* status[p]: of the connection p made
  open,       \* the connections whose session is open
  on_demand,  \* the configuration remembered for a lazy connection
  reconnect,  \* the reconnect loop recorded
  lock,       \* who holds the lock of ensure_connected
  proc,       \* proc[p]: where p is, the connection it closes or calls, what it read
  cancelled,  \* loops cancelled, which end at their next suspension
  decided,    \* history: the configuration the user gave last
  crossed,    \* history: the tools were cached with a configuration that had been replaced
  taken       \* history: connections closed while they connected, or replaced by one that
              \* had not seen them

serverVars == <<row, entry, status, open, on_demand, reconnect, lock, proc, cancelled, decided, crossed, taken>>

\* next: what p does after it has closed a connection.
Idle == [pc |-> "idle", next |-> "over", conn |-> None, got |-> NoRow]
Over == [Idle EXCEPT !.pc = "over"]

Statuses == {"none", "connecting", "connected", "error", "disconnected"}
ServerTypeOK ==
  /\ row \in Rows \cup {NoRow} /\ entry \in Procs \cup {None}
  /\ status \in [Procs -> Statuses] /\ open \subseteq Procs
  /\ on_demand \in Configs \cup {None} /\ reconnect \in Loops \cup {None} /\ lock \in Calls \cup {None}
  /\ \A p \in Procs :
       /\ proc[p].pc \in {"idle", "preparing", "sleeping", "waiting", "load", "closing", "connecting", "listing", "caching",
                          "writing", "notifying", "saving", "deleting", "connected", "calling", "over"}
       /\ proc[p].got \in Rows \cup {NoRow}
  /\ cancelled \subseteq Loops /\ taken \subseteq Procs
  /\ entry # None => status[entry] \in {"connecting", "connected", "error"}

Init ==
  /\ row \in {[cfg |-> c, tools |-> FALSE] : c \in Configs} \cup {NoRow}
  /\ entry = None /\ status = [p \in Procs |-> "none"] /\ open = {}
  /\ on_demand = IF row # NoRow /\ Kind[row.cfg] = "on_demand" THEN row.cfg ELSE None
  /\ reconnect = None /\ lock = None
  /\ proc = [p \in Procs |-> Idle] /\ cancelled = {}
  /\ decided = row.cfg /\ crossed = FALSE /\ taken = {}

Goes(p, to) == proc' = [proc EXCEPT ![p] = to]
Connected(p) == p # None /\ status[p] = "connected"
rowVars == <<row, on_demand, decided, crossed>>
connVars == <<entry, status, open, taken>>
loopVars == <<reconnect, cancelled>>

\* _cancel_reconnect, which a loop may do to itself.
CancelReconnect ==
  /\ reconnect' = None
  /\ cancelled' = IF reconnect # None /\ proc[reconnect].pc # "over" THEN cancelled \cup {reconnect} ELSE cancelled

\* _schedule_reconnect: a loop recorded is enough, even one that has ended.  proc is what the caller becomes.
ScheduleReconnect(procs) ==
  IF reconnect # None THEN proc' = procs /\ UNCHANGED reconnect
  ELSE \E l \in Loops :
         /\ proc[l].pc = "idle"
         /\ reconnect' = l /\ proc' = [procs EXCEPT ![l].pc = "sleeping"]

\* disconnect, up to the closing of the session: the connection is taken off, if there is one.
TakesOff(p, next, got) ==
  /\ CancelReconnect
  /\ entry' = None
  /\ taken' = IF entry # None /\ status[entry] = "connecting" THEN taken \cup {entry} ELSE taken
  /\ Goes(p, IF entry = None THEN [Idle EXCEPT !.pc = next, !.got = got]
             ELSE [pc |-> "closing", next |-> next, conn |-> entry, got |-> got])
  /\ UNCHANGED <<status, open>>

\* The session is closed.
Closes(c) == open' = open \ {c}
StatusClosed(c) == IF c = None THEN status ELSE [status EXCEPT ![c] = "disconnected"]

-----------------------------------------------------------------------------
(* Connecting.                                                             *)

MissesEntry(p) == FALSE
SeesEntry(p) == entry # None

\* The configuration is read; a connection there is closed first.
Load(p) ==
  /\ proc[p].pc = "load" /\ p \notin cancelled
  /\ IF row = NoRow THEN
       /\ Goes(p, Over) /\ lock' = IF lock = p THEN None ELSE lock
       /\ UNCHANGED <<connVars, loopVars>>
     ELSE IF SeesEntry(p) THEN TakesOff(p, "connect", NoRow) /\ UNCHANGED lock
     ELSE
       /\ taken' = taken
       /\ entry' = p /\ status' = [status EXCEPT ![p] = "connecting"]
       /\ Goes(p, [Idle EXCEPT !.pc = "connecting"])
       /\ UNCHANGED <<open, loopVars, lock>>
  /\ UNCHANGED rowVars

\* Closed, p connects, over whatever was recorded meanwhile.  (A loop that cancelled
\* itself gets here if the closing did not suspend.)
Reopens(p) ==
  /\ proc[p].pc = "closing" /\ proc[p].next = "connect"
  /\ Closes(proc[p].conn)
  /\ entry' = p /\ status' = [StatusClosed(proc[p].conn) EXCEPT ![p] = "connecting"]
  /\ taken' = IF entry # None THEN taken \cup {entry} ELSE taken
  /\ Goes(p, [Idle EXCEPT !.pc = "connecting"])
  /\ UNCHANGED <<rowVars, loopVars, lock>>

Opened(p) ==
  /\ proc[p].pc = "connecting" /\ p \notin cancelled
  /\ open' = open \cup {p} /\ status' = [status EXCEPT ![p] = "connected"]
  /\ Goes(p, [Idle EXCEPT !.pc = "listing"])
  /\ UNCHANGED <<rowVars, entry, taken, loopVars, lock>>

Listed(p) ==
  /\ proc[p].pc = "listing" /\ p \notin cancelled
  /\ Goes(p, [Idle EXCEPT !.pc = "caching"])
  /\ UNCHANGED <<rowVars, connVars, loopVars, lock>>

\* _update_cached_tools: the row is read again, ...
CacheRead(p) ==
  /\ proc[p].pc = "caching" /\ p \notin cancelled
  /\ IF row = NoRow THEN Goes(p, [Idle EXCEPT !.pc = "notifying"]) /\ on_demand' = None /\ CancelReconnect
     ELSE Goes(p, [Idle EXCEPT !.pc = "writing", !.got = row]) /\ UNCHANGED <<on_demand, loopVars>>
  /\ UNCHANGED <<row, decided, crossed, connVars, lock>>

WithToolsOfFirst(p, got) == [cfg |-> CHOOSE c \in Configs : TRUE, tools |-> TRUE]
WithTools(p, got) == [got EXCEPT !.tools = TRUE]

\* ... and written with the tools.
CacheWrite(p) ==
  /\ proc[p].pc = "writing" /\ p \notin cancelled
  /\ row' = IF row = NoRow THEN NoRow ELSE WithTools(p, proc[p].got)
  /\ crossed' = (crossed \/ row.cfg # proc[p].got.cfg)
  /\ on_demand' = None
  /\ CancelReconnect
  /\ Goes(p, [Idle EXCEPT !.pc = "notifying"])
  /\ UNCHANGED <<decided, connVars, lock>>

\* A call of ensure_connected goes on to the tool; a loop is done.
Ready(p) == IF lock = p THEN [Idle EXCEPT !.pc = "connected"] ELSE Over

\* The kernel has registered the tools.
Notified(p) ==
  /\ proc[p].pc = "notifying" /\ p \notin cancelled
  /\ Goes(p, Ready(p)) /\ lock' = IF lock = p THEN None ELSE lock
  /\ UNCHANGED <<rowVars, connVars, loopVars>>

\* One of these fails: what was opened stays open, and a reconnect is scheduled.
Fails(p) ==
  /\ proc[p].pc \in {"connecting", "listing", "caching", "writing", "notifying"} /\ p \notin cancelled
  /\ status' = [status EXCEPT ![p] = "error"]
  /\ open' \in IF proc[p].pc = "connecting" THEN {open, open \cup {p}} ELSE {open}
  /\ lock' = IF lock = p THEN None ELSE lock
  /\ ScheduleReconnect([proc EXCEPT ![p] = IF p \in Loops THEN [Idle EXCEPT !.pc = "sleeping"] ELSE Over])
  /\ UNCHANGED <<rowVars, entry, taken, cancelled>>

-----------------------------------------------------------------------------
(* The reconnect loop.                                                     *)

\* After its delay; a loop that ends stays recorded.  It makes one attempt: that closes the
\* connection there, which cancels the loop.
Wake(l) ==
  /\ proc[l].pc = "sleeping" /\ l \notin cancelled
  /\ Goes(l, IF entry = None \/ Connected(entry) THEN Over ELSE [Idle EXCEPT !.pc = "load"])
  /\ UNCHANGED <<rowVars, connVars, loopVars, lock>>

\* A cancelled loop ends where it waits: what it was closing is closed, what it was
\* connecting stays as it is, and what it had opened stays open.
Ends(l) ==
  /\ l \in cancelled /\ proc[l].pc # "over"
  /\ Closes(proc[l].conn) /\ status' = StatusClosed(proc[l].conn)
  /\ Goes(l, Over)
  /\ UNCHANGED <<rowVars, entry, taken, loopVars, lock>>

-----------------------------------------------------------------------------
(* Requests.                                                               *)

\* The row was found; it is connected, or connected again.
Connect(p) ==
  /\ proc[p].pc = "idle" /\ row # NoRow
  /\ Goes(p, [Idle EXCEPT !.pc = "load"])
  /\ UNCHANGED <<rowVars, connVars, loopVars, lock>>

Disconnect(p) ==
  /\ proc[p].pc = "idle" /\ TakesOff(p, "over", NoRow)
  /\ UNCHANGED <<rowVars, lock>>

Delete(p) ==
  /\ proc[p].pc = "idle" /\ row # NoRow
  /\ TakesOff(p, "deleting", NoRow)
  /\ UNCHANGED <<rowVars, lock>>

\* A change of the row: put drops the cached tools, patch merges them in.
Update(p, c) ==
  /\ proc[p].pc = "idle" /\ row # NoRow
  /\ \E tools \in {FALSE, row.tools} : TakesOff(p, "saving", [cfg |-> c, tools |-> tools])
  /\ UNCHANGED <<rowVars, lock>>

\* The session is closed.
Closed(p) ==
  /\ proc[p].pc = "closing" /\ proc[p].next # "connect" /\ p \notin cancelled
  /\ Closes(proc[p].conn) /\ status' = StatusClosed(proc[p].conn)
  /\ Goes(p, [proc[p] EXCEPT !.pc = proc[p].next, !.next = "over", !.conn = None])
  /\ UNCHANGED <<rowVars, entry, taken, loopVars, lock>>

Remove(p) ==
  /\ proc[p].pc = "deleting" /\ Goes(p, Over)
  /\ row' = NoRow /\ decided' = None /\ crossed' = FALSE
  /\ UNCHANGED <<on_demand, connVars, loopVars, lock>>

Remembered(c) == IF Kind[c] = "on_demand" THEN c ELSE on_demand
Then(c) == IF Kind[c] = "persistent" THEN [Idle EXCEPT !.pc = "load"] ELSE Over

\* A row deleted meanwhile is not written.
Save(p) ==
  /\ proc[p].pc = "saving"
  /\ LET got == proc[p].got IN
       /\ IF row = NoRow THEN UNCHANGED <<row, decided, crossed>>
          ELSE row' = got /\ decided' = got.cfg /\ crossed' = FALSE
       /\ on_demand' = Remembered(got.cfg)
       /\ Goes(p, Then(got.cfg))
  /\ UNCHANGED <<connVars, loopVars, lock>>

Add(p, c) ==
  /\ proc[p].pc = "idle" /\ row = NoRow
  /\ row' = [cfg |-> c, tools |-> FALSE] /\ decided' = c /\ crossed' = FALSE
  /\ on_demand' = Remembered(c)
  /\ Goes(p, Then(c))
  /\ UNCHANGED <<connVars, loopVars, lock>>

\* The mcp_install skill finds a configuration in a README or in the request, and
\* asks the user for what is missing in it, ...
Prepare(p, c) ==
  /\ proc[p].pc = "idle" /\ Goes(p, [Idle EXCEPT !.pc = "preparing", !.got = [cfg |-> c, tools |-> FALSE]])
  /\ UNCHANGED <<rowVars, connVars, loopVars, lock>>

\* ... and adds the server, unless there is one: an on-demand one is connected too, and
\* not remembered.
Install(p) ==
  /\ proc[p].pc = "preparing"
  /\ LET got == proc[p].got IN
       IF row # NoRow THEN Goes(p, Over) /\ UNCHANGED rowVars
       ELSE /\ row' = got /\ decided' = got.cfg /\ crossed' = FALSE /\ UNCHANGED on_demand
            /\ Goes(p, IF Kind[got.cfg] = "disabled" THEN Over ELSE [Idle EXCEPT !.pc = "load"])
  /\ UNCHANGED <<connVars, loopVars, lock>>

-----------------------------------------------------------------------------
(* Tool calls.                                                             *)

Calling(p) == [Idle EXCEPT !.pc = "calling", !.conn = entry]

\* ensure_connected: connected already, or one caller at a time connects.
Ensure(p) ==
  /\ proc[p].pc = "idle"
  /\ Goes(p, IF Connected(entry) THEN Calling(p) ELSE [Idle EXCEPT !.pc = "waiting"])
  /\ UNCHANGED <<rowVars, connVars, loopVars, lock>>

Lock(p) ==
  /\ proc[p].pc = "waiting" /\ lock = None
  /\ IF Connected(entry) THEN Goes(p, Calling(p)) /\ UNCHANGED lock
     ELSE IF row = NoRow THEN Goes(p, Over) /\ UNCHANGED lock
     ELSE Goes(p, [Idle EXCEPT !.pc = "load"]) /\ lock' = p
  /\ UNCHANGED <<rowVars, connVars, loopVars>>

\* call_tool looks the connection up again.
Call(p) ==
  /\ proc[p].pc = "connected"
  /\ Goes(p, IF Connected(entry) THEN Calling(p) ELSE Over)
  /\ UNCHANGED <<rowVars, connVars, loopVars, lock>>

Answer(p) ==
  /\ proc[p].pc = "calling" /\ Goes(p, Over)
  /\ UNCHANGED <<rowVars, connVars, loopVars, lock>>

\* The call fails, on a connection that may have been replaced.
CallFails(p) ==
  /\ proc[p].pc = "calling"
  /\ status' = [status EXCEPT ![proc[p].conn] = "error"]
  /\ ScheduleReconnect([proc EXCEPT ![p] = Over])
  /\ UNCHANGED <<rowVars, entry, open, taken, cancelled, lock>>

Next ==
  \/ \E p \in Procs :
       Load(p) \/ Reopens(p) \/ Opened(p) \/ Listed(p) \/ CacheRead(p) \/ CacheWrite(p)
       \/ Notified(p) \/ Fails(p)
  \/ \E l \in Loops : Wake(l) \/ Ends(l)
  \/ \E p \in Calls :
       \/ Connect(p) \/ Disconnect(p) \/ Delete(p) \/ Closed(p) \/ Remove(p) \/ Save(p) \/ Install(p)
       \/ Ensure(p) \/ Lock(p) \/ Call(p) \/ Answer(p) \/ CallFails(p)
       \/ \E c \in Configs : Update(p, c) \/ Add(p, c) \/ Prepare(p, c)

Spec == Init /\ [][Next]_serverVars

-----------------------------------------------------------------------------
(* The row holds the configuration the user gave last, unless the tools    *)
(* were cached with one read before it, and a session is open only for the *)
(* connection recorded, or while it is being closed, unless the connection *)
(* was closed while it connected or replaced by a connection that had not  *)
(* seen it (mcp/connection_manager.py:156-240, 332-343, 464-477).          *)
RunsAsConfigured ==
  /\ crossed \/ row.cfg = decided
  /\ \A p \in open \ taken : p = entry \/ \E q \in Procs : proc[q].pc = "closing" /\ proc[q].conn = p
=============================================================================
