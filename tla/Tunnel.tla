------------------------------- MODULE Tunnel -------------------------------
(***************************************************************************)
(* The tunnel of one enrolled child: the child's ParentLink (src/south.ts) *)
(* dials, enrolls with a hello that carries a snapshot, relays its         *)
(* registry events and redials; the parent (acceptChild of                 *)
(* src/ws-server.ts, TunnelHub and ChildConnection of src/tunnel.ts) keeps *)
(* the child's registry entry (Registry.tla) and the projected sockets of  *)
(* src/projection.ts.                                                      *)
(*                                                                         *)
(* Each WebSocket ever dialled is a number in Conn.  Its two ends notice   *)
(* its end at different times, and frames the child had sent may still be  *)
(* delivered to a parent end that is not yet closed.                       *)
(***************************************************************************)
EXTENDS Registry, Naturals, Sequences

CONSTANTS MaxConn,    \* bound: WebSockets dialled
          MaxChange,  \* bound: changes of the child's roster
          MaxFault,   \* bound: closures nobody's frame caused, answers of herdr
                      \* that are not what a registry holds
          CallFrame,  \* replies and events for the parent's calls and taps
          Proto,      \* the protocol versions a child may speak
          PROTO_VERSION

ASSUME TunnelAssumption ==
  /\ MaxConn \in Nat /\ MaxChange \in Nat /\ MaxFault \in Nat
  /\ \A f \in CallFrame :
       f.type = "res" \/ (f.type = "event" /\ f.kind \in {"herdr_event", "sub_closed"})

Conn == 1..MaxConn
None == 0               \* no connection

VARIABLES
  \* the child
  ws,       \* ParentLink.#ws: the connection last dialled
  cend,     \* readyState of each connection at the child
  snap,     \* the snapshot started at this connection's open: the sessions it
            \* has read, and those whose answer was not what the registry held
  roster,   \* the child's own sessions (its registry entry "runtime")
  proto,    \* the version its hello announces
  retired,  \* connections of a ParentLink that was stopped
  \* the wire, child to parent
  up,
  \* the parent
  pend,     \* readyState of each connection at the parent
  handler,  \* what a message on the connection reaches
  hub,      \* TunnelHub.#children.get(name)
  online, sessions,   \* the registry entry of the child
  sockets,  \* Projection.#servers: the sessions with a local socket
  \* bounds
  changes, faults

childVars  == <<ws, cend, snap, roster, proto, retired>>
parentVars == <<pend, handler, hub, online, sessions, sockets>>
bounds     == <<changes, faults>>
vars       == <<childVars, up, parentVars, bounds>>
-----------------------------------------------------------------------------
(* Frames *)

\* A snapshot of which no session has been read.
Snapshots == [state : {"none", "reading", "done"}, read : Sessions, misread : SUBSET Session]
Unread(state) == [state |-> state, read |-> NoSessions, misread |-> {}]

\* `of`, the connection whose open started the snapshot, and `exact`, that no
\* session was misread, are not on the wire: only a property reads them.
Hello(c) ==
  [type |-> "hello", proto |-> proto, sessions |-> snap[c].read,
   of |-> c, exact |-> snap[c].misread = {}]

StatusEvent(s, a, st) ==
  [type |-> "event", kind |-> "agent_status", session |-> s, agent |-> a, status |-> st]
AddedEvent(s, agents) ==
  [type |-> "event", kind |-> "session_added", session |-> s, agents |-> agents]
RemovedEvent(s) == [type |-> "event", kind |-> "session_removed", session |-> s]

Frame ==
  [type : {"hello"}, proto : Proto, sessions : Sessions, of : Conn, exact : BOOLEAN]
    \cup [type : {"event"}, kind : {"agent_status"}, session : Session,
          agent : Agent, status : Status]
    \cup [type : {"event"}, kind : {"session_added"}, session : Session, agents : Agents]
    \cup [type : {"event"}, kind : {"session_removed"}, session : Session]
    \cup CallFrame

TypeOK ==
  /\ ws \in Conn \cup {None}
  /\ cend \in [Conn -> {"idle", "connecting", "open", "closing", "closed"}]
  /\ snap \in [Conn -> Snapshots]
  /\ roster \in Sessions
  /\ proto \in Proto
  /\ retired \subseteq Conn
  /\ up \in [Conn -> Seq(Frame)]
  /\ pend \in [Conn -> {"idle", "open", "closing", "closed"}]
  /\ handler \in [Conn -> {"none", "hello", "conn"}]
  /\ hub \in Conn \cup {None}
  /\ online \in BOOLEAN
  /\ sessions \in Sessions
  /\ sockets \subseteq Session
  /\ changes \in 0..MaxChange
  /\ faults \in 0..MaxFault

Init ==
  /\ ws = None
  /\ cend = [c \in Conn |-> "idle"]
  /\ snap = [c \in Conn |-> Unread("none")]
  /\ roster \in {NoSessions} \cup {[NoSessions EXCEPT ![s] = NoAgents] : s \in Session}
  /\ proto \in Proto
  /\ retired = {}
  /\ up = [c \in Conn |-> <<>>]
  /\ pend = [c \in Conn |-> "idle"]
  /\ handler = [c \in Conn |-> "none"]
  /\ hub = None
  /\ online = FALSE
  /\ sessions = NoSessions
  /\ sockets = {}
  /\ changes = 0
  /\ faults = 0
-----------------------------------------------------------------------------
(* The child *)

\* #send: a frame goes out on the connection last dialled, and only while
\* that one is open; otherwise it is dropped.
Wired(frame) ==
  IF ws # None /\ cend[ws] = "open"
  THEN [up EXCEPT ![ws] = Append(@, frame)]
  ELSE up

Fresh(c) == \A d \in Conn : cend[d] = "idle" <=> d >= c

\* #dial: the first time, or when the redial timer set at the previous
\* connection's close fires.
Dial(c) ==
  /\ Fresh(c)
  /\ ws # None => cend[ws] = "closed"
  /\ ws' = c
  /\ cend' = [cend EXCEPT ![c] = "connecting"]
  /\ UNCHANGED <<snap, roster, proto, retired, up, parentVars, bounds>>

\* The upgrade is accepted: acceptChild waits for the first message, and the
\* child's "open" handler starts an asynchronous snapshot.
Opened(c) ==
  /\ cend[c] = "connecting"
  /\ cend' = [cend EXCEPT ![c] = "open"]
  /\ snap' = [snap EXCEPT ![c] = Unread("reading")]
  /\ pend' = [pend EXCEPT ![c] = "open"]
  /\ handler' = [handler EXCEPT ![c] = "hello"]
  /\ UNCHANGED <<ws, roster, proto, retired, up, hub, online, sessions, sockets, bounds>>

\* snapshot() asks herdr for the agents of one tracked session after another,
\* awaiting each, and does not look at the registry.
SnapshotSees(c, s, agents) ==
  /\ snap[c].state = "reading" /\ s \notin Listed(snap[c].read) \cup snap[c].misread
  /\ snap' = [snap EXCEPT ![c] =
       [state |-> "reading", read |-> [@.read EXCEPT ![s] = agents],
        misread |-> IF agents = roster[s] THEN @.misread ELSE @.misread \cup {s}]]
  /\ UNCHANGED <<ws, cend, roster, proto, retired, up, parentVars, changes>>

SnapshotReads(c, s) ==
  s \in Listed(roster) /\ SnapshotSees(c, s, roster[s]) /\ UNCHANGED faults

\* A request that fails counts as no agents; herdr may be ahead of the registry
\* or the registry wrong; and a session is tracked before and after it is listed,
\* or listed and not tracked (Gone: it is left out).
SnapshotMisreads(c, s, agents) ==
  /\ faults < MaxFault /\ agents # roster[s]
  /\ SnapshotSees(c, s, agents)
  /\ faults' = faults + 1

\* The snapshot is complete: the hello goes out on whatever connection is the
\* last one by now, unless its link was stopped in between.
BugPartialSnapshot(c) == TRUE
SnapshotComplete(c) == Listed(roster) \subseteq Listed(snap[c].read) \cup snap[c].misread

SnapshotDone(c) ==
  /\ snap[c].state = "reading"
  /\ SnapshotComplete(c)
  /\ snap' = [snap EXCEPT ![c] = Unread("done")]
  /\ up' = IF c \in retired THEN up ELSE Wired(Hello(c))
  /\ UNCHANGED <<ws, cend, roster, proto, retired, parentVars, bounds>>

\* The child's registry changes and the relay listener pushes the event.
RosterChange(new, event) ==
  /\ changes < MaxChange
  /\ changes' = changes + 1
  /\ roster' = new
  /\ up' = Wired(event)
  /\ UNCHANGED <<ws, cend, snap, proto, retired, parentVars, faults>>

SessionAppears(s, agents) ==
  /\ agents # roster[s]
  /\ RosterChange(SessionAddedApplied(roster, s, agents), AddedEvent(s, agents))

SessionDisappears(s) ==
  /\ roster[s] # Gone
  /\ RosterChange(SessionRemovedApplied(roster, s), RemovedEvent(s))

StatusChanges(s, a, st) ==
  /\ roster[s] # Gone /\ roster[s][a] # st
  /\ RosterChange(AgentStatusApplied(roster, s, a, st), StatusEvent(s, a, st))

\* A reply (#route, TunnelRpc.tla) to a call of this or an earlier connection.
Reply(f) == RosterChange(roster, f)

\* The child's "close" event: the ParentLink may redial.
ChildEnd(c) ==
  /\ cend' = [cend EXCEPT ![c] = "closed"]
  /\ UNCHANGED <<ws, snap, roster, proto, retired, up, parentVars, changes>>

\* ...because either side closed it, or the parent's end is gone.
ChildClosed(c) ==
  /\ cend[c] = "closing" \/ (cend[c] = "open" /\ pend[c] \in {"closing", "closed"})
  /\ ChildEnd(c)
  /\ UNCHANGED faults

\* ...because the upgrade is refused, the network lost, three pongs missed.
ChildFails(c) ==
  /\ faults < MaxFault
  /\ cend[c] \in {"connecting", "open"}
  /\ ChildEnd(c)
  /\ faults' = faults + 1

\* The admin reload: startLink stops the old ParentLink, whose connection
\* closes in its own time, and the new one dials at once.
Reload(c) ==
  /\ faults < MaxFault
  /\ ws # None /\ Fresh(c)
  /\ faults' = faults + 1
  /\ retired' = {d \in Conn : cend[d] # "idle"}
  /\ ws' = c
  /\ cend' = [cend EXCEPT ![ws] = CASE @ = "open" -> "closing"
                                    [] @ = "connecting" -> "closed"
                                    [] OTHER -> @,
                          ![c] = "connecting"]
  /\ UNCHANGED <<snap, roster, proto, up, parentVars, changes>>
-----------------------------------------------------------------------------
(* The parent *)

\* ws.close(): no effect on a connection already closing.
BugNeverCloses(ends, c) == ends
Closing(ends, c) == IF c # None /\ ends[c] = "open" THEN [ends EXCEPT ![c] = "closing"] ELSE ends

\* #syncInstance, called by the registry's "snapshot" and "session_added"
\* events: a socket for every listed session of an online instance.
Synced(on, sess) == IF on THEN sockets \cup Listed(sess) ELSE sockets

Receives(c) ==
  /\ up[c] # <<>>
  /\ pend[c] \in {"open", "closing"}
  /\ up' = [up EXCEPT ![c] = Tail(@)]
  /\ UNCHANGED <<childVars, bounds>>

\* acceptChild's timer.
HelloTimeout(c) ==
  /\ faults < MaxFault
  /\ pend[c] = "open" /\ handler[c] = "hello"
  /\ pend' = Closing(pend, c)
  /\ faults' = faults + 1
  /\ UNCHANGED <<childVars, up, handler, hub, online, sessions, sockets, changes>>

\* acceptChild's first message when it is a hello of this protocol:
\* replaceSnapshot, then TunnelHub.attach, which closes the connection it
\* replaces and routes every later message to a new ChildConnection.
Enroll(c) ==
  /\ Receives(c)
  /\ handler[c] = "hello"
  /\ LET hello == Head(up[c]) IN
       /\ hello.type = "hello"
       /\ hello.proto = PROTO_VERSION
       /\ online' = TRUE
       /\ sessions' = hello.sessions
       /\ sockets' = Synced(TRUE, hello.sessions)
  /\ pend' = Closing(pend, hub)
  /\ handler' = [handler EXCEPT ![c] = "conn"]
  /\ hub' = c

\* Any other first message closes the connection, and nothing listens to it
\* any more.
BadHello(c) ==
  /\ Receives(c)
  /\ handler[c] = "hello"
  /\ Head(up[c]).type = "hello" => Head(up[c]).proto # PROTO_VERSION
  /\ pend' = Closing(pend, c)
  /\ handler' = [handler EXCEPT ![c] = "none"]
  /\ UNCHANGED <<hub, online, sessions, sockets>>

\* ChildConnection.#route.  A second hello is of no type it knows; the event
\* "snapshot", which it does know, no child sends; what a reply or a tapped event
\* does is in TunnelRpc.tla and TunnelTaps.tla.
Route(c) ==
  /\ Receives(c)
  /\ handler[c] = "conn"
  /\ LET f == Head(up[c]) IN
       \/ /\ f.type = "event" => f.kind \in {"herdr_event", "sub_closed"}
          /\ UNCHANGED <<sessions, sockets>>
       \/ /\ f.type = "event" /\ f.kind = "agent_status"
          /\ sessions' = AgentStatusApplied(sessions, f.session, f.agent, f.status)
          /\ UNCHANGED sockets
       \/ /\ f.type = "event" /\ f.kind = "session_added"
          /\ sessions' = SessionAddedApplied(sessions, f.session, f.agents)
          /\ sockets' = Synced(online, sessions')
       \/ /\ f.type = "event" /\ f.kind = "session_removed"
          /\ sessions' = SessionRemovedApplied(sessions, f.session)
          /\ sockets' = sockets \ {f.session}
  /\ UNCHANGED <<pend, handler, hub, online>>

\* GET .../agents?fresh=1 asks the child's herdr through the tunnel and writes the
\* answer to the entry, in which the session was listed when the request came.
AgentsRefreshed(s, agents) ==
  /\ faults < MaxFault
  /\ \E c \in Conn : handler[c] = "conn"
  /\ sessions' = SessionAddedApplied(sessions, s, agents)
  /\ sockets' = Synced(online, sessions')
  /\ faults' = faults + 1
  /\ UNCHANGED <<childVars, up, pend, handler, hub, online, changes>>

\* onGone: only the end of the current connection takes the child offline.
BugAnyEnd(c) == TRUE
IsCurrent(c) == hub = c

BugHubKeepsDead(c) == hub
HubAfter(c) == IF IsCurrent(c) THEN None ELSE hub

BugOfflineUnguarded(c) == FALSE
OnlineAfter(c) == IF IsCurrent(c) THEN FALSE ELSE online

\* The parent's "close" event: #gone, and the hub's onGone.
ParentEnd(c) ==
  /\ pend' = [pend EXCEPT ![c] = "closed"]
  /\ handler' = [handler EXCEPT ![c] = "none"]
  /\ up' = [up EXCEPT ![c] = <<>>]
  /\ hub' = HubAfter(c)
  /\ online' = OnlineAfter(c)
  /\ sockets' = IF IsCurrent(c) THEN {} ELSE sockets
  /\ UNCHANGED <<childVars, sessions, changes>>

\* ...because either side closed it, or the child's end is gone.
ParentClosed(c) ==
  /\ pend[c] = "closing" \/ (pend[c] = "open" /\ cend[c] \in {"closing", "closed"})
  /\ ParentEnd(c)
  /\ UNCHANGED faults

\* ...because the network is lost or three pongs were missed.
ParentFails(c) ==
  /\ faults < MaxFault
  /\ pend[c] = "open"
  /\ ParentEnd(c)
  /\ faults' = faults + 1

\* TunnelHub.disconnect: an admin removes the child, or the daemon stops.
Disconnect ==
  /\ faults < MaxFault
  /\ hub # None /\ pend[hub] = "open"
  /\ pend' = Closing(pend, hub)
  /\ faults' = faults + 1
  /\ UNCHANGED <<childVars, up, handler, hub, online, sessions, sockets, changes>>

\* The parent dies and starts again: load() brings every entry back offline,
\* and Projection.start finds no online instance to project.
ParentRestart ==
  /\ faults < MaxFault
  /\ faults' = faults + 1
  /\ pend' = [c \in Conn |-> IF pend[c] = "idle" THEN "idle" ELSE "closed"]
  /\ handler' = [c \in Conn |-> "none"]
  /\ up' = [c \in Conn |-> <<>>]
  /\ hub' = None
  /\ online' = FALSE
  /\ sockets' = {}
  /\ UNCHANGED <<childVars, sessions, changes>>
-----------------------------------------------------------------------------
SnapshotStep(c) ==
  \E s \in Session :
    \/ SnapshotReads(c, s)
    \/ \E agents \in Agents \cup {Gone} : SnapshotMisreads(c, s, agents)

ChildStep(c) ==
  \/ Dial(c) \/ Opened(c) \/ SnapshotDone(c) \/ ChildClosed(c) \/ ChildFails(c)
  \/ Reload(c)
  \/ SnapshotStep(c)

RosterStep ==
  \E s \in Session :
    \/ \E agents \in Agents : SessionAppears(s, agents)
    \/ SessionDisappears(s)
    \/ \E f \in CallFrame : Reply(f)
    \/ \E a \in Agent, st \in Status : StatusChanges(s, a, st)

ParentStep(c) ==
  HelloTimeout(c) \/ Enroll(c) \/ BadHello(c) \/ Route(c)
  \/ ParentClosed(c) \/ ParentFails(c)

Next ==
  \/ \E c \in Conn : ChildStep(c) \/ ParentStep(c)
  \/ RosterStep \/ Disconnect \/ ParentRestart
  \/ \E s \in Session, agents \in Agents : AgentsRefreshed(s, agents)

(***************************************************************************)
(* The event loops of both daemons run what is ready: the redial timer, the*)
(* replies of the local herdr, frames, and the close of a connection whose *)
(* other end is gone (each side reaps a silent peer by its heartbeat).     *)
(* Faults, roster changes and admin calls need never happen.               *)
(***************************************************************************)
Fairness ==
  \A c \in Conn :
    /\ WF_vars(Dial(c)) /\ WF_vars(Opened(c)) /\ WF_vars(SnapshotDone(c))
    /\ \A s \in Session : WF_vars(SnapshotReads(c, s))
    /\ WF_vars(ChildClosed(c)) /\ WF_vars(ParentClosed(c))
    /\ WF_vars(Enroll(c)) /\ WF_vars(BadHello(c)) /\ WF_vars(Route(c))

Spec == Init /\ [][Next]_vars
FairSpec == Spec /\ Fairness
-----------------------------------------------------------------------------
(* Properties *)

\* The registry calls the child online exactly while the hub has a tunnel to
\* serve its calls: replaceSnapshot and attach, setOffline and the map's
\* delete stay in step over any overlap of stale and fresh connections.
OnlineIffCurrent == online <=> hub # None

\* The tunnel the hub hands out is one whose close event is still to come,
\* so the child cannot stay online behind a dead tunnel, and its frames
\* reach a ChildConnection.
CurrentWillClose ==
  hub # None => pend[hub] \in {"open", "closing"} /\ handler[hub] = "conn"

\* Projected sockets exist only while there is a tunnel behind them: a frame
\* of a stale connection that adds a session to an offline child projects
\* nothing.
SocketsHaveTunnel == sockets # {} => hub # None

\* What the parent keeps of the child agrees, over any overlap of stale and
\* fresh connections: the registry's flag, the hub's tunnel and the sockets.
CurrentTunnel == OnlineIffCurrent /\ CurrentWillClose /\ SocketsHaveTunnel

\* "Only the CURRENT connection's death takes the child offline" (the
\* comment of TunnelHub.attach), and a restart of the parent.
OfflineByCurrentOnly ==
  [][online /\ ~online' => pend'[hub] = "closed"]_vars

\* A child of the parent's protocol that keeps running ends up online on its
\* own last connection, whatever went wrong before: an event that overtook
\* the hello, a stale hello that displaced the live tunnel, a restart.
EventuallyOnline ==
  proto = PROTO_VERSION => <>[](online /\ hub = ws /\ cend[ws] = "open")

\* Whatever connections overlap, fail or are left half-open, what the parent
\* shows of the child moves only as ChildPresence.tla says.
Presence == INSTANCE ChildPresence
  WITH online <- online, sessions <- sessions, sockets <- sockets
PresenceSpec == Presence!Spec
=============================================================================
