---------------------------- MODULE TunnelProofs ----------------------------
(***************************************************************************)
(* Theorems about the tunnel for any number of connections, roster changes *)
(* and faults, any sessions and agents.                                    *)
(*                                                                         *)
(* None of the safety properties of the parent is inductive by itself:     *)
(* Opened resets a connection's parent end and handler, so it must be known*)
(* that a connection still being dialled has no parent end and is not the  *)
(* hub's; Enroll closes the connection it replaces, so the hub's           *)
(* connection must never be one that waits for its hello; ParentRestart    *)
(* must find no connection without an end behind the hub.                  *)
(***************************************************************************)
EXTENDS TunnelMirror, SequenceTheorems, WellFoundedInduction, TLAPS

\* A connection the child still dials has no end at the parent yet.
DialledHasNoParent ==
  \A c \in Conn : cend[c] \in {"idle", "connecting"} => pend[c] = "idle"

PInv == OnlineIffCurrent /\ CurrentWillClose /\ SocketsHaveTunnel

IInv == TypeOK /\ DialledHasNoParent /\ PInv
-----------------------------------------------------------------------------
(* Facts about the operators *)

\* The registry's operations yield entries.
LEMMA RegistryTypes ==
  ASSUME NEW sess \in Sessions, NEW s \in Session
  PROVE  /\ NoSessions \in Sessions
         /\ \A agents \in Agents : SessionAddedApplied(sess, s, agents) \in Sessions
         /\ SessionRemovedApplied(sess, s) \in Sessions
         /\ \A a \in Agent, st \in Status : AgentStatusApplied(sess, s, a, st) \in Sessions
<1>1. NoSessions \in Sessions
  BY DEF NoSessions, Sessions
<1>2. \A agents \in Agents : SessionAddedApplied(sess, s, agents) \in Sessions
  BY DEF SessionAddedApplied, Sessions
<1>3. SessionRemovedApplied(sess, s) \in Sessions
  BY DEF SessionRemovedApplied, Sessions
<1>4. ASSUME NEW a \in Agent, NEW st \in Status
      PROVE  AgentStatusApplied(sess, s, a, st) \in Sessions
  <2> DEFINE old == IF sess[s] = Gone THEN NoAgents ELSE sess[s]
  <2>1. old \in Agents
    BY DEF Sessions, Agents, NoAgents
  <2>2. [old EXCEPT ![a] = st] \in Agents
    BY <2>1 DEF Agents
  <2>3. [sess EXCEPT ![s] = [old EXCEPT ![a] = st]] \in Sessions
    BY <2>2 DEF Sessions
  <2> QED BY <2>3 DEF AgentStatusApplied
<1> QED BY <1>1, <1>2, <1>3, <1>4

\* A frame sent is appended to the connection last dialled, or dropped.
LEMMA WiredType ==
  ASSUME up \in [Conn -> Seq(Frame)], NEW f \in Frame
  PROVE  Wired(f) \in [Conn -> Seq(Frame)]
<1>1. CASE ws # None /\ cend[ws] = "open"
  <2>1. \A c \in Conn : Append(up[c], f) \in Seq(Frame)
    OBVIOUS
  <2> QED BY <1>1, <2>1 DEF Wired
<1>2. CASE ~(ws # None /\ cend[ws] = "open")
  BY <1>2 DEF Wired
<1> QED BY <1>1, <1>2

\* Closing only turns an open end into a closing one.
LEMMA ClosingFacts ==
  ASSUME NEW ends \in [Conn -> {"idle", "open", "closing", "closed"}],
         NEW c \in Conn \cup {None}
  PROVE  /\ Closing(ends, c) \in [Conn -> {"idle", "open", "closing", "closed"}]
         /\ \A d \in Conn :
              \/ Closing(ends, c)[d] = ends[d]
              \/ ends[d] = "open" /\ Closing(ends, c)[d] = "closing"
BY DEF Closing, None, Conn

LEMMA ClosedSoftly ==
  ASSUME TypeOK, NEW c \in Conn \cup {None}, pend' = Closing(pend, c), NEW d \in Conn
  PROVE  pend'[d] = pend[d] \/ (pend[d] = "open" /\ pend'[d] = "closing")
BY DEF Closing, TypeOK

\* What the frames of a child look like.
LEMMA FrameFields ==
  ASSUME NEW f \in Frame
  PROVE  /\ f.type = "hello" => f.sessions \in Sessions
         /\ f.type = "event" /\ f.kind = "agent_status"
              => f.session \in Session /\ f.agent \in Agent /\ f.status \in Status
         /\ f.type = "event" /\ f.kind = "session_added"
              => f.session \in Session /\ f.agents \in Agents
         /\ f.type = "event" /\ f.kind = "session_removed" => f.session \in Session
BY TunnelAssumption DEF Frame

\* Every frame the child builds is a frame.
LEMMA FramesAreFrames ==
  ASSUME TypeOK
  PROVE  /\ \A c \in Conn : Hello(c) \in Frame
         /\ \A s \in Session, a \in Agent, st \in Status : StatusEvent(s, a, st) \in Frame
         /\ \A s \in Session, agents \in Agents : AddedEvent(s, agents) \in Frame
         /\ \A s \in Session : RemovedEvent(s) \in Frame
BY DEF TypeOK, Snapshots, Frame, Hello, StatusEvent, AddedEvent, RemovedEvent

\* An open connection that sent something delivers its first frame.
LEMMA Received ==
  ASSUME TypeOK, NEW c \in Conn, Receives(c)
  PROVE  Head(up[c]) \in Frame /\ up' \in [Conn -> Seq(Frame)]
<1>1. up[c] \in Seq(Frame) /\ up[c] # <<>>
  BY DEF TypeOK, Receives
<1>2. Head(up[c]) \in Frame /\ Tail(up[c]) \in Seq(Frame)
  BY <1>1
<1> QED BY <1>2 DEF TypeOK, Receives
-----------------------------------------------------------------------------
(* Type correctness *)

LEMMA InitType == Init => TypeOK
<1> SUFFICES ASSUME Init PROVE TypeOK
  OBVIOUS
<1>1. \A s \in Session : NoAgents \in Agents /\ [NoSessions EXCEPT ![s] = NoAgents] \in Sessions
  BY DEF NoAgents, Agents, NoSessions, Sessions
<1>2. NoSessions \in Sessions
  BY DEF NoSessions, Sessions
<1>3. roster \in Sessions /\ sessions \in Sessions
  BY <1>1, <1>2 DEF Init
<1>4. snap \in [Conn -> Snapshots]
  BY <1>2 DEF Init, Unread, Snapshots
<1>5. up \in [Conn -> Seq(Frame)]
  BY DEF Init
<1>6. changes \in 0..MaxChange /\ faults \in 0..MaxFault
  BY TunnelAssumption DEF Init
<1> QED BY <1>3, <1>4, <1>5, <1>6 DEF Init, TypeOK

\* What a snapshot reads of a session, rightly or not.
LEMMA SnapshotStepSees ==
  ASSUME TypeOK, NEW c \in Conn, SnapshotStep(c)
  PROVE  /\ \E s \in Session, agents \in Agents \cup {Gone} : SnapshotSees(c, s, agents)
         /\ faults' \in 0..MaxFault
<1>1. ASSUME NEW s \in Session, SnapshotReads(c, s)
      PROVE  (\E agents \in Agents \cup {Gone} : SnapshotSees(c, s, agents)) /\ faults' \in 0..MaxFault
  BY <1>1 DEF SnapshotReads, TypeOK, Sessions
<1>2. ASSUME NEW s \in Session, NEW agents \in Agents \cup {Gone}, SnapshotMisreads(c, s, agents)
      PROVE  SnapshotSees(c, s, agents) /\ faults' \in 0..MaxFault
  BY <1>2, TunnelAssumption DEF SnapshotMisreads, TypeOK
<1> QED BY <1>1, <1>2 DEF SnapshotStep

\* What it then holds of that session, and whether rightly.
HasRead(c, s, agents) ==
  /\ snap[c].state = "reading" /\ snap'[c].state = "reading"
  /\ snap'[c].read = [snap[c].read EXCEPT ![s] = agents]
  /\ snap'[c].misread = IF agents = roster[s] THEN snap[c].misread ELSE snap[c].misread \cup {s}

\* It touches nothing but its own state, in which nothing but that session.
LEMMA SeesOnly ==
  ASSUME TypeOK, NEW c \in Conn, NEW s \in Session, NEW agents \in Agents \cup {Gone},
         SnapshotSees(c, s, agents)
  PROVE  /\ UNCHANGED <<ws, cend, roster, proto, retired, up, parentVars, changes>>
         /\ HasRead(c, s, agents)
         /\ \A d \in Conn : d # c => snap'[d] = snap[d]
         /\ snap' \in [Conn -> Snapshots]
<1>1. snap[c] \in Snapshots /\ snap[c].read \in Sessions /\ snap[c].misread \subseteq Session
  BY DEF TypeOK, Snapshots
<1> DEFINE new == [state |-> "reading", read |-> [snap[c].read EXCEPT ![s] = agents],
                   misread |-> IF agents = roster[s] THEN snap[c].misread ELSE snap[c].misread \cup {s}]
<1>2. snap[c].state = "reading" /\ snap' = [snap EXCEPT ![c] = new]
  BY DEF SnapshotSees
<1>3. new \in Snapshots
  <2>1. [snap[c].read EXCEPT ![s] = agents] \in Sessions
    BY <1>1 DEF Sessions
  <2> QED BY <1>1, <2>1 DEF Snapshots
<1>4. snap'[c] = new /\ \A d \in Conn : d # c => snap'[d] = snap[d]
  BY <1>2 DEF TypeOK
<1>5. snap' \in [Conn -> Snapshots]
  BY <1>2, <1>3 DEF TypeOK
<1>6. HasRead(c, s, agents)
  <2>1. /\ new.state = "reading" /\ new.read = [snap[c].read EXCEPT ![s] = agents]
        /\ new.misread = IF agents = roster[s] THEN snap[c].misread ELSE snap[c].misread \cup {s}
    OBVIOUS
  <2>2. snap'[c] = new
    BY <1>4
  <2> HIDE DEF new
  <2> QED BY <1>2, <2>1, <2>2 DEF HasRead
<1> QED BY <1>4, <1>5, <1>6 DEF SnapshotSees

LEMMA ChildStepType ==
  ASSUME TypeOK, NEW c \in Conn, ChildStep(c)
  PROVE  TypeOK'
<1>1. CASE Dial(c)
  BY <1>1 DEF TypeOK, Dial, parentVars, bounds
<1>2. CASE Opened(c)
  <2>1. Unread("reading") \in Snapshots
    BY DEF Unread, Snapshots, NoSessions, Sessions
  <2> QED BY <1>2, <2>1 DEF TypeOK, Opened, bounds
<1>3. CASE SnapshotDone(c)
  <2>1. Unread("done") \in Snapshots
    BY DEF Unread, Snapshots, NoSessions, Sessions
  <2>2. snap' \in [Conn -> Snapshots]
    BY <1>3, <2>1 DEF TypeOK, SnapshotDone
  <2>3. up' \in [Conn -> Seq(Frame)]
    BY <1>3, FramesAreFrames, WiredType DEF TypeOK, SnapshotDone
  <2> QED BY <1>3, <2>2, <2>3 DEF TypeOK, SnapshotDone, parentVars, bounds
<1>4. CASE ChildClosed(c)
  BY <1>4 DEF TypeOK, ChildClosed, ChildEnd, parentVars
<1>5. CASE ChildFails(c)
  <2>1. faults' \in 0..MaxFault
    BY <1>5, TunnelAssumption DEF TypeOK, ChildFails
  <2> QED BY <1>5, <2>1 DEF TypeOK, ChildFails, ChildEnd, parentVars
<1>6. CASE Reload(c)
  <2>1. faults' \in 0..MaxFault
    BY <1>6, TunnelAssumption DEF TypeOK, Reload
  <2>2. cend' \in [Conn -> {"idle", "connecting", "open", "closing", "closed"}]
    BY <1>6 DEF TypeOK, Reload
  <2>3. retired' \subseteq Conn /\ ws' \in Conn
    BY <1>6 DEF Reload
  <2> QED BY <1>6, <2>1, <2>2, <2>3 DEF TypeOK, Reload, parentVars
<1>7. CASE SnapshotStep(c)
  <2>1. PICK s \in Session, agents \in Agents \cup {Gone} : SnapshotSees(c, s, agents)
    BY <1>7, SnapshotStepSees
  <2> QED BY <1>7, <2>1, SnapshotStepSees, SeesOnly DEF TypeOK, parentVars
<1> QED BY <1>1, <1>2, <1>3, <1>4, <1>5, <1>6, <1>7 DEF ChildStep

LEMMA RosterStepType ==
  ASSUME TypeOK, RosterStep
  PROVE  TypeOK'
<1>1. ASSUME NEW new \in Sessions, NEW f \in Frame, RosterChange(new, f)
      PROVE  TypeOK'
  <2>1. up' \in [Conn -> Seq(Frame)]
    BY <1>1, WiredType DEF TypeOK, RosterChange
  <2>2. changes' \in 0..MaxChange
    BY <1>1, TunnelAssumption DEF TypeOK, RosterChange
  <2> QED BY <1>1, <2>1, <2>2 DEF TypeOK, RosterChange, parentVars
<1>2. PICK s \in Session :
        \/ \E agents \in Agents : SessionAppears(s, agents)
        \/ SessionDisappears(s)
        \/ \E f \in CallFrame : Reply(f)
        \/ \E a \in Agent, st \in Status : StatusChanges(s, a, st)
  BY DEF RosterStep
<1>3. roster \in Sessions
  BY DEF TypeOK
<1>4. CASE \E agents \in Agents : SessionAppears(s, agents)
  BY <1>1, <1>3, <1>4, RegistryTypes, FramesAreFrames DEF SessionAppears
<1>5. CASE SessionDisappears(s)
  BY <1>1, <1>3, <1>5, RegistryTypes, FramesAreFrames DEF SessionDisappears
<1>6. CASE \E f \in CallFrame : Reply(f)
  BY <1>1, <1>3, <1>6 DEF Reply, Frame
<1>7. CASE \E a \in Agent, st \in Status : StatusChanges(s, a, st)
  BY <1>1, <1>3, <1>7, RegistryTypes, FramesAreFrames DEF StatusChanges
<1> QED BY <1>2, <1>4, <1>5, <1>6, <1>7

LEMMA ParentStepType ==
  ASSUME TypeOK, NEW c \in Conn, ParentStep(c)
  PROVE  TypeOK'
<1>1. CASE HelloTimeout(c)
  <2>1. faults' \in 0..MaxFault
    BY <1>1, TunnelAssumption DEF TypeOK, HelloTimeout
  <2>2. pend' \in [Conn -> {"idle", "open", "closing", "closed"}]
    BY <1>1, ClosingFacts DEF TypeOK, HelloTimeout
  <2> QED BY <1>1, <2>1, <2>2 DEF TypeOK, HelloTimeout, childVars
<1>2. CASE Enroll(c)
  <2>1. Head(up[c]) \in Frame /\ up' \in [Conn -> Seq(Frame)]
    BY <1>2, Received DEF Enroll
  <2>2. sessions' \in Sessions
    BY <1>2, <2>1, FrameFields DEF Enroll
  <2>3. sockets' \subseteq Session
    BY <1>2 DEF TypeOK, Enroll, Synced, Listed
  <2>4. pend' \in [Conn -> {"idle", "open", "closing", "closed"}]
    BY <1>2, ClosingFacts DEF TypeOK, Enroll
  <2> QED BY <1>2, <2>1, <2>2, <2>3, <2>4
          DEF TypeOK, Enroll, Receives, childVars, bounds
<1>3. CASE BadHello(c)
  <2>1. up' \in [Conn -> Seq(Frame)]
    BY <1>3, Received DEF BadHello
  <2>2. pend' \in [Conn -> {"idle", "open", "closing", "closed"}]
    BY <1>3, ClosingFacts DEF TypeOK, BadHello
  <2> QED BY <1>3, <2>1, <2>2 DEF TypeOK, BadHello, Receives, childVars, bounds
<1>4. CASE Route(c)
  <2>1. Head(up[c]) \in Frame /\ up' \in [Conn -> Seq(Frame)]
    BY <1>4, Received DEF Route
  <2>2. sessions' \in Sessions
    BY <1>4, <2>1, FrameFields, RegistryTypes DEF TypeOK, Route
  <2>3. sockets' \subseteq Session
    BY <1>4 DEF TypeOK, Route, Synced, Listed
  <2> QED BY <1>4, <2>1, <2>2, <2>3 DEF TypeOK, Route, Receives, childVars, bounds
<1>5. ASSUME ParentEnd(c), faults' \in 0..MaxFault
      PROVE  TypeOK'
  <2>1. /\ pend' \in [Conn -> {"idle", "open", "closing", "closed"}]
        /\ handler' \in [Conn -> {"none", "hello", "conn"}]
    BY <1>5 DEF TypeOK, ParentEnd
  <2>2. up' \in [Conn -> Seq(Frame)]
    BY <1>5 DEF TypeOK, ParentEnd
  <2>3. hub' \in Conn \cup {None} /\ online' \in BOOLEAN /\ sockets' \subseteq Session
    BY <1>5 DEF TypeOK, ParentEnd, HubAfter, OnlineAfter
  <2> QED BY <1>5, <2>1, <2>2, <2>3 DEF TypeOK, ParentEnd, childVars
<1>6. CASE ParentClosed(c)
  BY <1>5, <1>6 DEF TypeOK, ParentClosed
<1>7. CASE ParentFails(c)
  BY <1>5, <1>7, TunnelAssumption DEF TypeOK, ParentFails
<1> QED BY <1>1, <1>2, <1>3, <1>4, <1>6, <1>7 DEF ParentStep

LEMMA NextType == TypeOK /\ [Next]_vars => TypeOK'
<1> SUFFICES ASSUME TypeOK, [Next]_vars PROVE TypeOK'
  OBVIOUS
<1>1. CASE Disconnect
  BY <1>1, ClosingFacts, TunnelAssumption DEF TypeOK, Disconnect, childVars
<1>2. CASE ParentRestart
  <2>1. faults' \in 0..MaxFault
    BY <1>2, TunnelAssumption DEF TypeOK, ParentRestart
  <2>2. /\ pend' \in [Conn -> {"idle", "open", "closing", "closed"}]
        /\ up' \in [Conn -> Seq(Frame)]
    BY <1>2 DEF ParentRestart
  <2> QED BY <1>2, <2>1, <2>2 DEF TypeOK, ParentRestart, childVars
<1>3. CASE UNCHANGED vars
  BY <1>3 DEF TypeOK, vars, childVars, parentVars, bounds
<1>4. ASSUME NEW s \in Session, NEW agents \in Agents, AgentsRefreshed(s, agents)
      PROVE  TypeOK'
  <2>1. sessions' \in Sessions /\ sockets' \subseteq Session /\ faults' \in 0..MaxFault
    BY <1>4, RegistryTypes, TunnelAssumption DEF TypeOK, AgentsRefreshed, Synced, Listed
  <2> QED BY <1>4, <2>1 DEF TypeOK, AgentsRefreshed, childVars
<1> QED BY <1>1, <1>2, <1>3, <1>4, ChildStepType, RosterStepType, ParentStepType DEF Next

\* Every variable of both daemons keeps its type: in particular every frame
\* on the wire is one the parent's routing knows how to read.
THEOREM TypeCorrect == Spec => []TypeOK
BY InitType, NextType, PTL DEF Spec
-----------------------------------------------------------------------------
(* The safety of the parent *)

LEMMA InitInv == Init => DialledHasNoParent /\ PInv
BY DEF Init, DialledHasNoParent, PInv, OnlineIffCurrent, CurrentWillClose, SocketsHaveTunnel

\* A connection that may be dialled has not been.
LEMMA FreshIsIdle ==
  ASSUME NEW c \in Conn, Fresh(c)
  PROVE  cend[c] = "idle"
BY TunnelAssumption DEF Fresh, Conn

\* No step of the child but Opened touches what the invariant is about.
LEMMA ChildStepInv ==
  ASSUME IInv, NEW c \in Conn, ChildStep(c)
  PROVE  DialledHasNoParent' /\ PInv'
<1> USE DEF IInv, PInv, OnlineIffCurrent, CurrentWillClose, SocketsHaveTunnel
<1>1. CASE Dial(c)
  <2>1. DialledHasNoParent'
    BY <1>1, FreshIsIdle DEF TypeOK, Dial, DialledHasNoParent, parentVars
  <2> QED BY <1>1, <2>1 DEF Dial, parentVars
<1>2. CASE Opened(c)
  <2>1. hub # c
    BY <1>2 DEF Opened, DialledHasNoParent, Conn, None
  <2>2. DialledHasNoParent'
    BY <1>2 DEF TypeOK, Opened, DialledHasNoParent
  <2> QED BY <1>2, <2>1, <2>2 DEF TypeOK, Opened
<1>3. CASE SnapshotDone(c)
  BY <1>3 DEF SnapshotDone, parentVars, DialledHasNoParent
<1>4. ASSUME ChildEnd(c)
      PROVE  DialledHasNoParent' /\ PInv'
  BY <1>4 DEF TypeOK, ChildEnd, parentVars, DialledHasNoParent
<1>5. CASE Reload(c)
  <2>1. DialledHasNoParent'
    BY <1>5, FreshIsIdle DEF TypeOK, Reload, DialledHasNoParent, parentVars
  <2> QED BY <1>5, <2>1 DEF Reload, parentVars
<1>6. CASE SnapshotStep(c)
  <2>1. UNCHANGED <<cend, parentVars>>
    BY <1>6, SnapshotStepSees, SeesOnly
  <2> QED BY <2>1 DEF parentVars, DialledHasNoParent
<1> QED BY <1>1, <1>2, <1>3, <1>4, <1>5, <1>6 DEF ChildStep, ChildClosed, ChildFails

LEMMA RosterStepInv ==
  ASSUME IInv, RosterStep
  PROVE  DialledHasNoParent' /\ PInv'
<1>1. UNCHANGED <<cend, parentVars>>
  BY DEF RosterStep, SessionAppears, SessionDisappears, Reply, StatusChanges, RosterChange
<1> QED BY <1>1 DEF IInv, PInv, OnlineIffCurrent, CurrentWillClose, SocketsHaveTunnel,
                DialledHasNoParent, parentVars

\* The end of a connection: if it is the hub's, all three parts go together.
LEMMA ParentEndInv ==
  ASSUME IInv, NEW c \in Conn, ParentEnd(c), pend[c] \in {"open", "closing"}
  PROVE  DialledHasNoParent' /\ PInv'
<1>1. DialledHasNoParent'
  BY DEF IInv, TypeOK, ParentEnd, DialledHasNoParent, childVars
<1>2. OnlineIffCurrent' /\ SocketsHaveTunnel'
  BY DEF IInv, PInv, TypeOK, OnlineIffCurrent, SocketsHaveTunnel, ParentEnd, HubAfter,
         OnlineAfter, IsCurrent
<1>3. CurrentWillClose'
  BY DEF IInv, PInv, TypeOK, CurrentWillClose, ParentEnd, HubAfter, IsCurrent
<1> QED BY <1>1, <1>2, <1>3 DEF PInv

LEMMA ParentStepInv ==
  ASSUME IInv, NEW c \in Conn, ParentStep(c)
  PROVE  DialledHasNoParent' /\ PInv'
<1>0. TypeOK
  BY DEF IInv
<1>h. hub \in Conn \cup {None} /\ c \in Conn \cup {None}
  BY <1>0 DEF TypeOK
<1> USE DEF IInv, PInv
<1>1. CASE HelloTimeout(c)
  <2>1. \A d \in Conn : pend'[d] = pend[d] \/ (pend[d] = "open" /\ pend'[d] = "closing")
    BY <1>0, <1>h, <1>1, ClosedSoftly DEF HelloTimeout
  <2>2. DialledHasNoParent'
    BY <1>1, <2>1 DEF DialledHasNoParent, HelloTimeout, childVars
  <2> QED BY <1>0, <1>1, <2>1, <2>2
          DEF HelloTimeout, OnlineIffCurrent, CurrentWillClose, SocketsHaveTunnel, TypeOK
<1>2. CASE Enroll(c)
  <2>1. \A d \in Conn : pend'[d] = pend[d] \/ (pend[d] = "open" /\ pend'[d] = "closing")
    BY <1>0, <1>h, <1>2, ClosedSoftly DEF Enroll
  <2>2. DialledHasNoParent'
    BY <1>2, <2>1 DEF DialledHasNoParent, Enroll, Receives, childVars
  <2>3. hub' = c /\ handler'[c] = "conn" /\ pend'[c] \in {"open", "closing"}
    BY <1>0, <1>2, <2>1 DEF Enroll, Receives, TypeOK
  <2>4. c # None
    BY DEF Conn, None
  <2> QED BY <1>2, <2>2, <2>3, <2>4
          DEF Enroll, OnlineIffCurrent, CurrentWillClose, SocketsHaveTunnel
<1>3. CASE BadHello(c)
  <2>1. \A d \in Conn : pend'[d] = pend[d] \/ (pend[d] = "open" /\ pend'[d] = "closing")
    BY <1>0, <1>h, <1>3, ClosedSoftly DEF BadHello
  <2>2. DialledHasNoParent'
    BY <1>3, <2>1 DEF DialledHasNoParent, BadHello, Receives, childVars
  <2>3. hub # c
    BY <1>3 DEF BadHello, CurrentWillClose, Conn, None
  <2> QED BY <1>0, <1>3, <2>1, <2>2, <2>3
          DEF BadHello, OnlineIffCurrent, CurrentWillClose, SocketsHaveTunnel, TypeOK
<1>4. CASE Route(c)
  <2>1. sockets' # {} => sockets # {} \/ online
    BY <1>4 DEF Route, Synced
  <2>2. UNCHANGED <<cend, pend, handler, hub, online>>
    BY <1>4 DEF Route, Receives, childVars
  <2> QED BY <2>1, <2>2
          DEF DialledHasNoParent, OnlineIffCurrent, CurrentWillClose, SocketsHaveTunnel
<1>5. CASE ParentClosed(c)
  BY <1>5, ParentEndInv DEF ParentClosed
<1>6. CASE ParentFails(c)
  BY <1>6, ParentEndInv DEF ParentFails
<1> QED BY <1>1, <1>2, <1>3, <1>4, <1>5, <1>6 DEF ParentStep

LEMMA NextInv == IInv /\ [Next]_vars => IInv'
<1> SUFFICES ASSUME IInv, [Next]_vars PROVE IInv'
  OBVIOUS
<1>1. TypeOK /\ TypeOK'
  BY NextType DEF IInv
<1>2. CASE Disconnect
  <2>0. hub \in Conn \cup {None}
    BY <1>1 DEF TypeOK
  <2>1. \A d \in Conn : pend'[d] = pend[d] \/ (pend[d] = "open" /\ pend'[d] = "closing")
    BY <1>1, <1>2, <2>0, ClosedSoftly DEF Disconnect
  <2>2. DialledHasNoParent'
    BY <1>2, <2>1 DEF IInv, DialledHasNoParent, Disconnect, childVars
  <2>3. PInv'
    BY <1>1, <1>2, <2>1 DEF IInv, PInv, Disconnect, OnlineIffCurrent, CurrentWillClose,
                            SocketsHaveTunnel, TypeOK
  <2> QED BY <1>1, <2>2, <2>3 DEF IInv
<1>3. CASE ParentRestart
  <2>1. DialledHasNoParent'
    BY <1>3 DEF IInv, DialledHasNoParent, ParentRestart, childVars
  <2>2. PInv'
    BY <1>3 DEF ParentRestart, PInv, OnlineIffCurrent, CurrentWillClose, SocketsHaveTunnel
  <2> QED BY <1>1, <2>1, <2>2 DEF IInv
<1>4. CASE UNCHANGED vars
  BY <1>1, <1>4 DEF IInv, PInv, DialledHasNoParent, OnlineIffCurrent, CurrentWillClose,
                    SocketsHaveTunnel, vars, childVars, parentVars
<1>5. ASSUME NEW s \in Session, NEW agents \in Agents, AgentsRefreshed(s, agents)
      PROVE  IInv'
  <2>1. DialledHasNoParent' /\ OnlineIffCurrent' /\ CurrentWillClose'
    BY <1>5 DEF IInv, PInv, AgentsRefreshed, childVars, DialledHasNoParent, OnlineIffCurrent,
                CurrentWillClose
  <2>2. SocketsHaveTunnel'
    BY <1>5 DEF IInv, PInv, AgentsRefreshed, Synced, OnlineIffCurrent, SocketsHaveTunnel
  <2> QED BY <1>1, <2>1, <2>2 DEF IInv, PInv
<1> QED BY <1>1, <1>2, <1>3, <1>4, <1>5, ChildStepInv, RosterStepInv, ParentStepInv DEF Next, IInv

LEMMA Invariance == Spec => []IInv
<1>1. Init => IInv
  BY InitType, InitInv DEF IInv
<1> QED BY <1>1, NextInv, PTL DEF Spec

\* The registry's online flag and the hub agree: no overlap of stale and fresh
\* connections leaves a child shown online that cannot be called, or the
\* other way round.
THEOREM OnlineExact == Spec => []OnlineIffCurrent
<1>1. IInv => OnlineIffCurrent
  BY DEF IInv, PInv
<1> QED BY <1>1, Invariance, PTL

\* The connection the hub hands out still has its close event ahead of it.
THEOREM CurrentCloses == Spec => []CurrentWillClose
<1>1. IInv => CurrentWillClose
  BY DEF IInv, PInv
<1> QED BY <1>1, Invariance, PTL

\* No local socket is left behind without a tunnel that serves it.
THEOREM NoOrphanSockets == Spec => []SocketsHaveTunnel
<1>1. IInv => SocketsHaveTunnel
  BY DEF IInv, PInv
<1> QED BY <1>1, Invariance, PTL

\* The flag, the tunnel and the sockets of the child agree in every state.
THEOREM CurrentTunnelExact == Spec => []CurrentTunnel
<1>1. IInv => CurrentTunnel
  BY DEF IInv, PInv, CurrentTunnel
<1> QED BY <1>1, Invariance, PTL
-----------------------------------------------------------------------------
(* Frames on the wire *)

OnWire(c, f) == \E i \in DOMAIN up[c] : up[c][i] = f

LEMMA AppendIn ==
  ASSUME NEW S, NEW q \in Seq(S), NEW e \in S
  PROVE  /\ Append(q, e) \in Seq(S)
         /\ \A i \in DOMAIN Append(q, e) :
              Append(q, e)[i] = e \/ (i \in DOMAIN q /\ Append(q, e)[i] = q[i])
<1>1. DOMAIN q = 1..Len(q) /\ Len(q) \in Nat /\ DOMAIN Append(q, e) = 1..(Len(q) + 1)
  OBVIOUS
<1>2. \A i \in 1..Len(q) : Append(q, e)[i] = q[i]
  BY <1>1
<1>3. Append(q, e)[Len(q) + 1] = e
  OBVIOUS
<1>4. \A i \in 1..(Len(q) + 1) : i \in 1..Len(q) \/ i = Len(q) + 1
  BY <1>1
<1> QED BY <1>1, <1>2, <1>3, <1>4

LEMMA TailIn ==
  ASSUME NEW S, NEW q \in Seq(S), q # <<>>
  PROVE  /\ Tail(q) \in Seq(S) /\ Head(q) \in S
         /\ \A i \in DOMAIN Tail(q) : \E j \in DOMAIN q : Tail(q)[i] = q[j]
         /\ \E j \in DOMAIN q : Head(q) = q[j]
<1>1. DOMAIN q = 1..Len(q) /\ Len(q) \in Nat /\ Len(q) > 0
  OBVIOUS
<1>2. DOMAIN Tail(q) = 1..(Len(q) - 1) /\ \A i \in 1..(Len(q) - 1) : Tail(q)[i] = q[i + 1]
  OBVIOUS
<1>3. \A i \in 1..(Len(q) - 1) : i + 1 \in 1..Len(q)
  BY <1>1
<1>4. 1 \in DOMAIN q /\ Head(q) = q[1]
  BY <1>1
<1> QED BY <1>1, <1>2, <1>3, <1>4

\* What is sent goes on the connection last dialled, behind what is there.
LEMMA WiredWire ==
  ASSUME TypeOK, NEW g \in Frame, up' = Wired(g), NEW d \in Conn, NEW f, OnWire(d, f)'
  PROVE  OnWire(d, f) \/ (f = g /\ d = ws /\ cend[ws] = "open")
<1>1. CASE ws # None /\ cend[ws] = "open" /\ d = ws
  <2>1. up'[d] = Append(up[d], g) /\ up[d] \in Seq(Frame)
    BY <1>1 DEF Wired, TypeOK
  <2>2. \A i \in DOMAIN Append(up[d], g) :
          Append(up[d], g)[i] = g \/ (i \in DOMAIN up[d] /\ Append(up[d], g)[i] = up[d][i])
    BY <2>1, AppendIn
  <2> QED BY <1>1, <2>1, <2>2 DEF OnWire
<1>2. CASE ~(ws # None /\ cend[ws] = "open" /\ d = ws)
  <2>1. up'[d] = up[d]
    BY <1>2 DEF Wired, TypeOK
  <2> QED BY <2>1 DEF OnWire
<1> QED BY <1>1, <1>2

\* The tunnel's own steps of the child put nothing but a hello on the wire.
LEMMA ChildWire ==
  ASSUME TypeOK, NEW c \in Conn, ChildStep(c), NEW d \in Conn, NEW f, OnWire(d, f)'
  PROVE  OnWire(d, f) \/ f.type = "hello"
<1>1. CASE SnapshotDone(c)
  <2>1. CASE c \in retired
    BY <1>1, <2>1 DEF SnapshotDone, OnWire
  <2>2. CASE c \notin retired
    <3>1. up' = Wired(Hello(c)) /\ Hello(c) \in Frame /\ Hello(c).type = "hello"
      BY <1>1, <2>2, FramesAreFrames DEF SnapshotDone, Hello
    <3> QED BY <3>1, WiredWire
  <2> QED BY <2>1, <2>2
<1>2. CASE ~SnapshotDone(c)
  <2>1. up' = up
    BY <1>2, SnapshotStepSees, SeesOnly
    DEF ChildStep, Dial, Opened, ChildClosed, ChildFails, ChildEnd, Reload
  <2> QED BY <2>1 DEF OnWire
<1> QED BY <1>1, <1>2

\* What the parent reads was on the wire, and the rest of it stays there.
LEMMA ReceivesWire ==
  ASSUME TypeOK, NEW c \in Conn, Receives(c)
  PROVE  /\ OnWire(c, Head(up[c])) /\ Head(up[c]) \in Frame
         /\ \A d \in Conn : \A f : OnWire(d, f)' => OnWire(d, f)
<1>1. up[c] \in Seq(Frame) /\ up[c] # <<>>
  BY DEF TypeOK, Receives
<1>2. up'[c] = Tail(up[c]) /\ \A d \in Conn : d # c => up'[d] = up[d]
  BY DEF TypeOK, Receives
<1>3. OnWire(c, Head(up[c])) /\ Head(up[c]) \in Frame
  BY <1>1, TailIn DEF OnWire
<1>4. \A i \in DOMAIN Tail(up[c]) : \E j \in DOMAIN up[c] : Tail(up[c])[i] = up[c][j]
  BY <1>1, TailIn
<1>5. ASSUME NEW d \in Conn, NEW f, OnWire(d, f)' PROVE OnWire(d, f)
  <2>1. CASE d = c
    BY <1>2, <1>4, <1>5, <2>1 DEF OnWire
  <2>2. CASE d # c
    BY <1>2, <1>5, <2>2 DEF OnWire
  <2> QED BY <2>1, <2>2
<1> QED BY <1>3, <1>5

LEMMA ParentWire ==
  ASSUME TypeOK, NEW c \in Conn, ParentStep(c), NEW d \in Conn, NEW f, OnWire(d, f)'
  PROVE  OnWire(d, f)
<1>1. CASE HelloTimeout(c)
  BY <1>1 DEF HelloTimeout, OnWire
<1>2. CASE Enroll(c) \/ BadHello(c) \/ Route(c)
  <2>1. Receives(c)
    BY <1>2 DEF Enroll, BadHello, Route
  <2> QED BY <2>1, ReceivesWire
<1>3. CASE ParentClosed(c) \/ ParentFails(c)
  <2>1. up' = [up EXCEPT ![c] = <<>>]
    BY <1>3 DEF ParentClosed, ParentFails, ParentEnd
  <2>2. up'[d] = up[d] \/ DOMAIN up'[d] = {}
    BY <2>1 DEF TypeOK
  <2> QED BY <2>2 DEF OnWire
<1> QED BY <1>1, <1>2, <1>3 DEF ParentStep

\* The steps of the tunnel itself, whatever it is used for.
TunnelPart ==
  \/ \E c \in Conn : ChildStep(c) \/ ParentStep(c)
  \/ Disconnect \/ ParentRestart \/ UNCHANGED vars

LEMMA TunnelPartWire ==
  ASSUME TypeOK, TunnelPart, NEW d \in Conn, NEW f, OnWire(d, f)', f.type # "hello"
  PROVE  OnWire(d, f)
<1>1. CASE \E c \in Conn : ChildStep(c)
  BY <1>1, ChildWire
<1>2. CASE \E c \in Conn : ParentStep(c)
  BY <1>2, ParentWire
<1>3. CASE Disconnect \/ UNCHANGED vars
  <2>1. up' = up
    BY <1>3 DEF Disconnect, vars
  <2> QED BY <2>1 DEF OnWire
<1>4. CASE ParentRestart
  <2>1. DOMAIN up'[d] = {}
    BY <1>4 DEF ParentRestart
  <2> QED BY <2>1 DEF OnWire
<1> QED BY <1>1, <1>2, <1>3, <1>4 DEF TunnelPart

\* A step that only sends leaves what the parent keeps of the child as it was.
LEMMA SendingKeepsInv ==
  ASSUME IInv, TypeOK', UNCHANGED <<cend, parentVars>>
  PROVE  IInv'
BY DEF IInv, PInv, DialledHasNoParent, OnlineIffCurrent, CurrentWillClose, SocketsHaveTunnel,
       parentVars
-----------------------------------------------------------------------------
(* What a step may do to the child's presence *)

\* A connection's end takes the child offline only if it is the hub's, and is
\* invisible otherwise.
LEMMA ParentEndPresence ==
  ASSUME IInv, NEW c \in Conn, ParentEnd(c)
  PROVE  /\ \/ (hub = c /\ online /\ ~online' /\ sockets' = {} /\ sessions' = sessions)
            \/ UNCHANGED <<online, sessions, sockets>>
         /\ online /\ ~online' => pend'[hub] = "closed"
<1>1. CASE hub = c
  <2>1. hub # None /\ online
    BY <1>1 DEF IInv, PInv, OnlineIffCurrent, None, Conn
  <2>2. pend'[hub] = "closed"
    BY <1>1 DEF IInv, TypeOK, ParentEnd
  <2>3. ~online' /\ sockets' = {} /\ sessions' = sessions
    BY <1>1 DEF ParentEnd, OnlineAfter, IsCurrent
  <2> QED BY <1>1, <2>1, <2>2, <2>3
<1>2. CASE hub # c
  BY <1>2 DEF ParentEnd, HubAfter, OnlineAfter, IsCurrent
<1> QED BY <1>1, <1>2

\* The steps that leave all of the presence alone.
Quiet ==
  \/ RosterStep \/ Disconnect
  \/ \E c \in Conn : ChildStep(c) \/ HelloTimeout(c) \/ BadHello(c)

LEMMA QuietPresence == Quiet => UNCHANGED <<online, sessions, sockets>>
<1>1. RosterStep => UNCHANGED <<online, sessions, sockets>>
  BY DEF RosterStep, SessionAppears, SessionDisappears, Reply, StatusChanges, RosterChange,
         parentVars
<1>2. ASSUME NEW c \in Conn
      PROVE  ChildStep(c) => UNCHANGED <<online, sessions, sockets>>
  BY DEF ChildStep, Dial, Opened, SnapshotStep, SnapshotReads, SnapshotMisreads, SnapshotSees,
         SnapshotDone, ChildClosed, ChildFails, ChildEnd, Reload, parentVars
<1>3. ASSUME NEW c \in Conn
      PROVE  HelloTimeout(c) \/ BadHello(c) => UNCHANGED <<online, sessions, sockets>>
  BY DEF HelloTimeout, BadHello
<1>4. Disconnect => UNCHANGED <<online, sessions, sockets>>
  BY DEF Disconnect
<1> QED BY <1>1, <1>2, <1>3, <1>4 DEF Quiet

LEMMA NextCases ==
  [Next]_vars =>
    \/ Quiet \/ ParentRestart \/ UNCHANGED vars
    \/ \E c \in Conn : Enroll(c) \/ Route(c) \/ ParentClosed(c) \/ ParentFails(c)
    \/ \E s \in Session, agents \in Agents : AgentsRefreshed(s, agents)
BY DEF Next, Quiet, ParentStep

\* Only the death of the hub's own connection (a restart of the parent kills
\* them all) takes a child offline.
THEOREM OfflineOnlyByCurrent == Spec => OfflineByCurrentOnly
<1>1. ASSUME IInv, [Next]_vars
      PROVE  [online /\ ~online' => pend'[hub] = "closed"]_vars
  <2>1. CASE Quiet
    BY <2>1, QuietPresence
  <2>2. CASE ParentRestart
    BY <1>1, <2>2 DEF ParentRestart, IInv, PInv, TypeOK, OnlineIffCurrent, CurrentWillClose
  <2>3. ASSUME NEW c \in Conn, Enroll(c) \/ Route(c)
        PROVE  online /\ ~online' => pend'[hub] = "closed"
    BY <2>3 DEF Enroll, Route
  <2>4. ASSUME NEW c \in Conn, ParentClosed(c) \/ ParentFails(c)
        PROVE  online /\ ~online' => pend'[hub] = "closed"
    BY <1>1, <2>4, ParentEndPresence DEF ParentClosed, ParentFails
  <2>5. ASSUME NEW s \in Session, NEW agents \in Agents, AgentsRefreshed(s, agents)
        PROVE  online' = online
    BY <2>5 DEF AgentsRefreshed
  <2> QED BY <1>1, <2>1, <2>2, <2>3, <2>4, <2>5, NextCases
<1> QED BY <1>1, Invariance, PTL DEF Spec, OfflineByCurrentOnly

\* A frame routed changes at most one session, and projects it only while the
\* child is online.
LEMMA RoutePresence ==
  ASSUME IInv, NEW c \in Conn, Route(c)
  PROVE  Presence!Next \/ UNCHANGED <<online, sessions, sockets>>
<1> DEFINE f == Head(up[c])
<1>1. f \in Frame
  BY Received DEF Route, IInv
<1>2. online' = online
  BY DEF Route
<1>3. CASE f.type = "event" /\ f.kind = "agent_status" /\ UNCHANGED sockets
           /\ sessions' = AgentStatusApplied(sessions, f.session, f.agent, f.status)
  <2> DEFINE old == IF sessions[f.session] = Gone THEN NoAgents ELSE sessions[f.session]
             new == [old EXCEPT ![f.agent] = f.status]
  <2>1. f.session \in Session /\ f.agent \in Agent /\ f.status \in Status
    BY <1>1, <1>3, FrameFields
  <2>2. old \in Agents
    BY <2>1 DEF IInv, TypeOK, Sessions, Agents, NoAgents
  <2>3. new \in Agents
    BY <2>1, <2>2 DEF Agents
  <2>4. Presence!AgentChanges(f.session, new)
    BY <1>2, <1>3 DEF Presence!AgentChanges, AgentStatusApplied
  <2> QED BY <2>1, <2>3, <2>4 DEF Presence!Next, Presence!Agents, Agents
<1>4. CASE f.type = "event" /\ f.kind = "session_added"
           /\ sessions' = SessionAddedApplied(sessions, f.session, f.agents)
           /\ sockets' = Synced(online, sessions')
  <2>1. f.session \in Session /\ f.agents \in Agents
    BY <1>1, <1>4, FrameFields
  <2>2. Presence!SessionAppears(f.session, f.agents)
    BY <1>2, <1>4 DEF Presence!SessionAppears, SessionAddedApplied, Synced,
                      Presence!Listed, Listed
  <2> QED BY <2>1, <2>2 DEF Presence!Next, Presence!Agents, Agents
<1>5. CASE f.type = "event" /\ f.kind = "session_removed"
           /\ sessions' = SessionRemovedApplied(sessions, f.session)
           /\ sockets' = sockets \ {f.session}
  <2>1. f.session \in Session
    BY <1>1, <1>5, FrameFields
  <2>2. Presence!SessionEnds(f.session)
    BY <1>2, <1>5 DEF Presence!SessionEnds, SessionRemovedApplied
  <2> QED BY <2>1, <2>2 DEF Presence!Next
<1>6. CASE UNCHANGED <<sessions, sockets>>
  BY <1>2, <1>6
<1> QED BY <1>3, <1>4, <1>5, <1>6 DEF Route

\* The tunnel implements what it promises of a child's presence.
THEOREM ImplementsPresence == Spec => PresenceSpec
<1>1. Init => Presence!Init
  BY DEF Init, Presence!Init, NoSessions, Presence!NoSessions
<1>2. ASSUME IInv, IInv', [Next]_vars
      PROVE  [Presence!Next]_(Presence!vars)
  <2>1. CASE Quiet
    BY <2>1, QuietPresence DEF Presence!vars
  <2>2. CASE ParentRestart
    <3>1. CASE online
      BY <2>2, <3>1 DEF ParentRestart, Presence!Next, Presence!GoesOffline
    <3>2. CASE ~online
      BY <1>2, <2>2, <3>2 DEF ParentRestart, IInv, PInv, TypeOK, OnlineIffCurrent,
                              SocketsHaveTunnel, Presence!vars
    <3> QED BY <3>1, <3>2
  <2>3. ASSUME NEW c \in Conn, Enroll(c)
        PROVE  Presence!Next
    <3>1. sessions' \in Presence!Sessions
      BY <1>2 DEF IInv, TypeOK, Sessions, Agents, Presence!Sessions, Presence!Agents
    <3>2. Presence!ComesOnline(sessions')
      BY <2>3 DEF Enroll, Synced, Presence!ComesOnline, Listed, Presence!Listed
    <3> QED BY <3>1, <3>2 DEF Presence!Next
  <2>4. ASSUME NEW c \in Conn, Route(c)
        PROVE  [Presence!Next]_(Presence!vars)
    BY <1>2, <2>4, RoutePresence DEF Presence!vars
  <2>5. ASSUME NEW c \in Conn, ParentClosed(c) \/ ParentFails(c)
        PROVE  [Presence!Next]_(Presence!vars)
    <3>1. ParentEnd(c)
      BY <2>5 DEF ParentClosed, ParentFails
    <3> QED BY <1>2, <3>1, ParentEndPresence DEF Presence!Next, Presence!GoesOffline, Presence!vars
  <2>6. CASE UNCHANGED vars
    BY <2>6 DEF vars, parentVars, Presence!vars
  <2>7. ASSUME NEW s \in Session, NEW agents \in Agents, AgentsRefreshed(s, agents)
        PROVE  Presence!Next
    <3>1. Presence!SessionAppears(s, agents)
      BY <2>7 DEF AgentsRefreshed, Presence!SessionAppears, SessionAddedApplied, Synced,
                  Presence!Listed, Listed
    <3> QED BY <3>1 DEF Presence!Next, Presence!Agents, Agents
  <2> QED BY <1>2, <2>1, <2>2, <2>3, <2>4, <2>5, <2>6, <2>7, NextCases
<1> QED BY <1>1, <1>2, Invariance, PTL DEF Spec, PresenceSpec, Presence!Spec
-----------------------------------------------------------------------------
(***************************************************************************)
(* How far the parent's entry mirrors the child's roster.                  *)
(*                                                                         *)
(* What the parent will show once the frames under way have been applied is*)
(* a fold over the queue.  It is reasoned about through a replay: the      *)
(* entries between frame and frame, of which sending a frame adds one at   *)
(* the end and applying a frame takes one off the front.                   *)
(***************************************************************************)

IsStatus(f) == f.type = "event" /\ f.kind = "agent_status"

\* r holds the entry before each frame of q, and the last one.
Run(r, e, q) ==
  /\ r \in [0..Len(q) -> Sessions]
  /\ r[0] = e
  /\ \A i \in 1..Len(q) : r[i] = Applied(r[i - 1], q[i])

\* No status is about a session that is not listed by then.
Tracks(r, q) == \A i \in 1..Len(q) : IsStatus(q[i]) => r[i - 1][q[i].session] # Gone

\* From entry e the frames q lead to entry R.
Reaches(e, q, R) ==
  \E r \in [0..Len(q) -> Sessions] : Run(r, e, q) /\ Tracks(r, q) /\ r[Len(q)] = R
Ahead(e, q) == \E R \in Sessions : Reaches(e, q, R)
-----------------------------------------------------------------------------
(* Replays *)

\* A non-empty set of naturals has a least element.
LEMMA LeastOf ==
  ASSUME NEW S, S \subseteq Nat, S # {} PROVE \E n \in S : \A m \in S : n <= m
<1>1. PICK n \in S : \A m \in S : ~(<<m, n>> \in OpToRel(<, Nat))
  BY NatLessThanWellFounded, WFMin, Zenon
<1>2. \A m \in S : ~(m < n)
  BY <1>1 DEF OpToRel
<1> QED
  BY <1>2

LEMMA AppliedType ==
  ASSUME NEW e \in Sessions, NEW f \in Frame
  PROVE  Applied(e, f) \in Sessions
<1>1. CASE f \in CallFrame \/ f.type = "hello"
  BY <1>1 DEF Applied
<1>2. CASE ~(f \in CallFrame \/ f.type = "hello")
  <2>1. f.type = "event" /\ f.kind \in {"agent_status", "session_added", "session_removed"}
    BY <1>2 DEF Frame
  <2>2. f.session \in Session
    BY <2>1, FrameFields
  <2>3. CASE f.kind = "agent_status"
    BY <1>2, <2>1, <2>2, <2>3, FrameFields, RegistryTypes DEF Applied
  <2>4. CASE f.kind = "session_added"
    BY <1>2, <2>1, <2>2, <2>4, FrameFields, RegistryTypes DEF Applied
  <2>5. CASE f.kind = "session_removed"
    BY <1>2, <2>1, <2>2, <2>5, FrameFields, RegistryTypes DEF Applied
  <2> QED BY <2>1, <2>3, <2>4, <2>5
<1> QED BY <1>1, <1>2

LEMMA ReachesEmpty ==
  ASSUME NEW e \in Sessions PROVE Reaches(e, <<>>, e)
<1> DEFINE r == [i \in 0..0 |-> e]
<1>1. Len(<<>>) = 0 /\ r \in [0..Len(<<>>) -> Sessions]
  OBVIOUS
<1>2. Run(r, e, <<>>) /\ Tracks(r, <<>>) /\ r[Len(<<>>)] = e
  BY <1>1 DEF Run, Tracks
<1> HIDE DEF r
<1> QED BY <1>1, <1>2 DEF Reaches

LEMMA ReachesType ==
  ASSUME NEW e, NEW q \in Seq(Frame), NEW R, Reaches(e, q, R)
  PROVE  R \in Sessions /\ e \in Sessions
BY DEF Reaches, Run

\* A frame that is sent is one more step, at the end.
LEMMA ReachesAppend ==
  ASSUME NEW e, NEW q \in Seq(Frame), NEW R, Reaches(e, q, R),
         NEW f \in Frame, IsStatus(f) => R[f.session] # Gone
  PROVE  Reaches(e, Append(q, f), Applied(R, f))
<1>1. PICK r \in [0..Len(q) -> Sessions] : Run(r, e, q) /\ Tracks(r, q) /\ r[Len(q)] = R
  BY DEF Reaches
<1> DEFINE n == Len(q)
           p == Append(q, f)
           s == [i \in 0..(n + 1) |-> IF i = n + 1 THEN Applied(R, f) ELSE r[i]]
<1>2. n \in Nat /\ Len(p) = n + 1 /\ p[n + 1] = f /\ \A i \in 1..n : p[i] = q[i]
  OBVIOUS
<1>3. Applied(R, f) \in Sessions
  BY ReachesType, AppliedType
<1> HIDE DEF p
<1>4. s \in [0..Len(p) -> Sessions] /\ s[0] = e /\ s[Len(p)] = Applied(R, f)
  BY <1>1, <1>2, <1>3 DEF Run
<1>5. ASSUME NEW i \in 1..Len(p)
      PROVE  s[i] = Applied(s[i - 1], p[i]) /\ (IsStatus(p[i]) => s[i - 1][p[i].session] # Gone)
  <2>1. CASE i = n + 1
    <3>1. s[i] = Applied(R, f) /\ s[i - 1] = R /\ p[i] = f
      BY <1>1, <1>2, <2>1
    <3> QED BY <3>1
  <2>2. CASE i # n + 1
    <3>1. i \in 1..n /\ i - 1 \in 0..n
      BY <1>2, <2>2
    <3>2. s[i] = r[i] /\ s[i - 1] = r[i - 1] /\ p[i] = q[i]
      BY <1>2, <3>1
    <3>3. r[i] = Applied(r[i - 1], q[i]) /\ (IsStatus(q[i]) => r[i - 1][q[i].session] # Gone)
      BY <1>1, <3>1 DEF Run, Tracks
    <3> HIDE DEF s
    <3> QED BY <3>2, <3>3
  <2> QED BY <2>1, <2>2
<1> HIDE DEF s
<1>6. Run(s, e, p) /\ Tracks(s, p)
  BY <1>4, <1>5 DEF Run, Tracks
<1>7. Reaches(e, p, Applied(R, f))
  BY <1>4, <1>6 DEF Reaches
<1> QED BY <1>7 DEF p

\* A frame that is applied was the first step.
LEMMA ReachesTail ==
  ASSUME NEW e, NEW q \in Seq(Frame), q # <<>>, NEW R, Reaches(e, q, R)
  PROVE  /\ Reaches(Applied(e, Head(q)), Tail(q), R)
         /\ IsStatus(Head(q)) => e[Head(q).session] # Gone
<1>1. PICK r \in [0..Len(q) -> Sessions] : Run(r, e, q) /\ Tracks(r, q) /\ r[Len(q)] = R
  BY DEF Reaches
<1> DEFINE n == Len(q)
           p == Tail(q)
           s == [i \in 0..(n - 1) |-> r[i + 1]]
<1>2. /\ n \in Nat /\ n > 0 /\ Len(p) = n - 1 /\ Head(q) = q[1]
      /\ \A i \in 1..(n - 1) : p[i] = q[i + 1]
  OBVIOUS
<1> HIDE DEF p
<1>3. r[1] = Applied(e, Head(q)) /\ (IsStatus(Head(q)) => e[Head(q).session] # Gone)
  <2>1. 1 \in 1..n /\ 1 - 1 = 0
    BY <1>2
  <2> QED BY <1>1, <1>2, <2>1 DEF Run, Tracks
<1>4. s \in [0..Len(p) -> Sessions] /\ s[0] = r[1] /\ s[Len(p)] = R
  BY <1>1, <1>2
<1>5. ASSUME NEW i \in 1..Len(p)
      PROVE  s[i] = Applied(s[i - 1], p[i]) /\ (IsStatus(p[i]) => s[i - 1][p[i].session] # Gone)
  <2>1. i + 1 \in 1..n /\ (i + 1) - 1 = i /\ i \in 0..(n - 1) /\ i - 1 \in 0..(n - 1) /\ i \in 1..(n - 1)
    BY <1>2
  <2>2. s[i] = r[i + 1] /\ s[i - 1] = r[i] /\ p[i] = q[i + 1]
    BY <1>2, <2>1
  <2>3. r[i + 1] = Applied(r[i], q[i + 1]) /\ (IsStatus(q[i + 1]) => r[i][q[i + 1].session] # Gone)
    BY <1>1, <2>1 DEF Run, Tracks
  <2> HIDE DEF s
  <2> QED BY <2>2, <2>3
<1> HIDE DEF s
<1>6. Run(s, r[1], p) /\ Tracks(s, p)
  BY <1>4, <1>5 DEF Run, Tracks
<1>7. Reaches(r[1], p, R)
  BY <1>4, <1>6 DEF Reaches
<1> QED BY <1>3, <1>7 DEF p

\* The fold that Replayed is, over the subsets of a set of places in the queue.
Folds(f, e, q, S) ==
  f = [s \in SUBSET S |->
         IF s = {} THEN e ELSE Applied(f[s \ {Max(s)}], q[Max(s)])]

LEMMA MaxIsLast ==
  ASSUME NEW n \in Nat, NEW s \in SUBSET (1..n), n \in s PROVE Max(s) = n
<1>1. \A m \in s : n >= m
  OBVIOUS
<1>2. Max(s) \in s /\ \A m \in s : Max(s) >= m
  BY <1>1 DEF Max
<1>3. Max(s) \in 1..n /\ Max(s) >= n
  BY <1>2
<1> QED BY <1>3

LEMMA FoldsOneMore ==
  ASSUME NEW e, NEW q, NEW n \in Nat, NEW f, Folds(f, e, q, 1..n)
  PROVE  \E g : Folds(g, e, q, 1..(n + 1))
<1> DEFINE g == [s \in SUBSET (1..(n + 1)) |->
                   IF n + 1 \in s THEN Applied(f[s \ {n + 1}], q[n + 1]) ELSE f[s]]
<1>1. \A s \in SUBSET (1..(n + 1)) : n + 1 \notin s => s \in SUBSET (1..n)
  <2>1. \A m \in 1..(n + 1) : m # n + 1 => m \in 1..n
    OBVIOUS
  <2> QED BY <2>1
<1>2. ASSUME NEW s \in SUBSET (1..(n + 1))
      PROVE  g[s] = IF s = {} THEN e ELSE Applied(g[s \ {Max(s)}], q[Max(s)])
  <2>1. CASE n + 1 \in s
    <3>1. Max(s) = n + 1
      <4>1. n + 1 \in Nat
        OBVIOUS
      <4> QED BY <4>1, <2>1, MaxIsLast
    <3>2. s \ {n + 1} \in SUBSET (1..(n + 1)) /\ n + 1 \notin s \ {n + 1}
      OBVIOUS
    <3>3. g[s \ {n + 1}] = f[s \ {n + 1}]
      BY <3>2
    <3>4. g[s] = Applied(f[s \ {n + 1}], q[n + 1])
      BY <2>1
    <3> HIDE DEF g
    <3> QED BY <2>1, <3>1, <3>3, <3>4
  <2>2. CASE n + 1 \notin s
    <3>1. s \in SUBSET (1..n) /\ g[s] = f[s]
      BY <1>1, <2>2
    <3>2. f[s] = IF s = {} THEN e ELSE Applied(f[s \ {Max(s)}], q[Max(s)])
      BY <3>1, Zenon DEF Folds
    <3>3. s \ {Max(s)} \in SUBSET (1..(n + 1)) /\ n + 1 \notin s \ {Max(s)}
      BY <2>2
    <3>4. g[s \ {Max(s)}] = f[s \ {Max(s)}]
      BY <3>3
    <3> HIDE DEF g
    <3> QED BY <3>1, <3>2, <3>4
  <2> QED BY <2>1, <2>2
<1>3. g = [s \in SUBSET (1..(n + 1)) |-> g[s]]
  OBVIOUS
<1> HIDE DEF g
<1>4. g = [s \in SUBSET (1..(n + 1)) |->
             IF s = {} THEN e ELSE Applied(g[s \ {Max(s)}], q[Max(s)])]
  BY <1>2, <1>3
<1> QED BY <1>4 DEF Folds

LEMMA FoldsExist ==
  ASSUME NEW e, NEW q, NEW n \in Nat PROVE \E f : Folds(f, e, q, 1..n)
<1> DEFINE Bad == {k \in Nat : ~(\E f : Folds(f, e, q, 1..k))}
<1>1. 0 \notin Bad
  <2> DEFINE z == [s \in SUBSET (1..0) |-> e]
  <2>1. \A s \in SUBSET (1..0) : s = {}
    OBVIOUS
  <2>2. Folds(z, e, q, 1..0)
    BY <2>1 DEF Folds
  <2> HIDE DEF z
  <2> QED BY <2>2
<1>2. \A k \in Nat : k \notin Bad => k + 1 \notin Bad
  BY FoldsOneMore
<1>3. Bad = {}
  <2> SUFFICES ASSUME Bad # {} PROVE FALSE
    OBVIOUS
  <2>1. PICK k \in Bad : \A m \in Bad : k <= m
    <3>1. Bad \subseteq Nat
      OBVIOUS
    <3> HIDE DEF Bad
    <3> QED BY <3>1, LeastOf
  <2>2. k \in Nat /\ k # 0
    BY <1>1, <2>1
  <2>3. k - 1 \in Nat /\ k - 1 \notin Bad /\ (k - 1) + 1 = k
    BY <2>1, <2>2
  <2> HIDE DEF Bad
  <2> QED BY <1>2, <2>3, <2>1
<1> QED BY <1>3

\* A replay ends where the fold does.
LEMMA ReachesReplayed ==
  ASSUME NEW e, NEW q \in Seq(Frame), NEW R, Reaches(e, q, R)
  PROVE  Replayed(e, q) = R
<1> DEFINE n == Len(q)
           it == CHOOSE f : Folds(f, e, q, DOMAIN q)
<1>1. n \in Nat /\ DOMAIN q = 1..n
  OBVIOUS
<1>2. Folds(it, e, q, DOMAIN q)
  BY <1>1, FoldsExist
<1>3. Replayed(e, q) = it[DOMAIN q]
  BY Zenon DEF Replayed, FoldLeft, MapThenFoldSet, Folds
<1> HIDE DEF it
<1>4. PICK r \in [0..n -> Sessions] : Run(r, e, q) /\ Tracks(r, q) /\ r[n] = R
  BY DEF Reaches
<1> DEFINE Bad == {k \in 0..n : it[1..k] # r[k]}
<1>5. 0 \notin Bad
  <2>1. 1..0 = {} /\ {} \in SUBSET DOMAIN q
    OBVIOUS
  <2>2. it[{}] = e
    BY <1>2, <2>1 DEF Folds
  <2> QED BY <1>4, <2>1, <2>2 DEF Run
<1>6. ASSUME NEW k \in 1..n, it[1..(k - 1)] = r[k - 1] PROVE it[1..k] = r[k]
  <2>1. 1..k \in SUBSET DOMAIN q /\ k \in Nat /\ k \in 1..k /\ 1..k # {} /\ (1..k) \ {k} = 1..(k - 1)
    BY <1>1
  <2>2. Max(1..k) = k
    BY <2>1, MaxIsLast
  <2>3. it[1..k] = Applied(it[(1..k) \ {Max(1..k)}], q[Max(1..k)])
    BY <1>2, <2>1, Zenon DEF Folds
  <2>4. r[k] = Applied(r[k - 1], q[k])
    BY <1>4 DEF Run
  <2> QED BY <1>6, <2>1, <2>2, <2>3, <2>4
<1>7. Bad = {}
  <2> SUFFICES ASSUME Bad # {} PROVE FALSE
    OBVIOUS
  <2>1. PICK k \in Bad : \A m \in Bad : k <= m
    <3>1. Bad \subseteq Nat
      OBVIOUS
    <3> HIDE DEF Bad
    <3> QED BY <3>1, LeastOf
  <2>2. k \in 1..n /\ k - 1 \in 0..n /\ k - 1 \notin Bad
    BY <1>1, <1>5, <2>1
  <2> QED BY <1>6, <2>1, <2>2
<1> QED BY <1>1, <1>3, <1>4, <1>7
-----------------------------------------------------------------------------
(* The inductive invariant *)

\* The connection whose frames still reach the wire.
Live(c) == c = ws /\ cend[c] = "open"

\* Nothing is sent on a connection before it is open.
NothingEarly == \A c \in Conn : cend[c] \in {"idle", "connecting"} => up[c] = <<>>

\* As long as nothing was sent on a connection, what its snapshot has read, and
\* not misread, is still so: every change of the roster would have been sent, before
\* the hello.
SnapshotIsNow ==
  \A c \in Conn :
    Live(c) /\ snap[c].state = "reading" /\ handler[c] = "hello" /\ up[c] = <<>> /\ snap[c].misread = {}
      => \A s \in Session : snap[c].read[s] # Gone => snap[c].read[s] = roster[s]

\* What is under way on a connection leads from an entry to the child's roster,
\* if the child can still send on it.
Follows(c, e, q) == Ahead(e, q) /\ (Live(c) => Reaches(e, q, roster))

\* A connection whose own hello, of an exact snapshot, is its first frame.
OwnHelloFirst(c) ==
  /\ handler[c] = "hello" /\ up[c] # <<>>
  /\ Head(up[c]).type = "hello" /\ Head(up[c]).of = c /\ Head(up[c]).exact

HelloFollowed ==
  \A c \in Conn : OwnHelloFirst(c) => Follows(c, Head(up[c]).sessions, Tail(up[c]))
EntryFollowed == hub # None /\ ~drifted => Follows(hub, sessions, up[hub])

MInv == NothingEarly /\ SnapshotIsNow /\ HelloFollowed /\ EntryFollowed /\ EverySessionProjected
MirrorIInv == IInv /\ MInv
-----------------------------------------------------------------------------
(* Sending *)

LEMMA Typed ==
  ASSUME TypeOK
  PROVE  /\ roster \in Sessions /\ sessions \in Sessions
         /\ \A c \in Conn : up[c] \in Seq(Frame)
         /\ hub \in Conn \cup {None} /\ None \notin Conn
BY DEF TypeOK, None, Conn

LEMMA WiredAt ==
  ASSUME TypeOK, NEW f \in Frame, up' = Wired(f), NEW d \in Conn
  PROVE  up'[d] = IF Live(d) THEN Append(up[d], f) ELSE up[d]
BY DEF Wired, TypeOK, Live, None, Conn

LEMMA AheadAppend ==
  ASSUME NEW e, NEW q \in Seq(Frame), NEW R, Reaches(e, q, R),
         NEW f \in Frame, IsStatus(f) => R[f.session] # Gone
  PROVE  Ahead(e, Append(q, f)) /\ Reaches(e, Append(q, f), Applied(R, f))
BY ReachesAppend, ReachesType, AppliedType DEF Ahead

\* A frame that tells of a change and goes out with it keeps the parent's
\* entry, and a hello under way, in step with the roster.
LEMMA SendsFollow ==
  ASSUME MirrorIInv, NEW f \in Frame, up' = Wired(f),
         roster' = Applied(roster, f), IsStatus(f) => roster[f.session] # Gone,
         \A c \in Conn : Live(c) /\ up[c] = <<>> /\ handler[c] = "hello" /\ f.type = "hello" /\ f.of = c /\ f.exact
                           => f.sessions = roster',
         UNCHANGED <<ws, cend, handler, hub, online, sessions, sockets, drifted>>
  PROVE  MInv'
<1>0. TypeOK /\ MInv
  BY DEF MirrorIInv, IInv
<1>1. NothingEarly'
  BY <1>0, WiredAt DEF MInv, NothingEarly, Live
<1>2. \A c \in Conn : Live(c)' <=> Live(c)
  BY DEF Live
<1>3. SnapshotIsNow'
  <2>1. ASSUME NEW c \in Conn, Live(c)' PROVE up'[c] # <<>>
    <3>1. up'[c] = Append(up[c], f) /\ up[c] \in Seq(Frame)
      BY <1>0, <1>2, <2>1, WiredAt, Typed
    <3> QED BY <3>1
  <2> QED BY <2>1 DEF SnapshotIsNow
<1>4. ASSUME NEW c \in Conn, NEW e, NEW q \in Seq(Frame), Follows(c, e, q)
      PROVE  LET p == IF Live(c) THEN Append(q, f) ELSE q
             IN  Ahead(e, p) /\ (Live(c) => Reaches(e, p, roster'))
  <2>1. CASE Live(c)
    BY <1>4, <2>1, AheadAppend DEF Follows
  <2>2. CASE ~Live(c)
    BY <1>4, <2>2 DEF Follows
  <2> QED BY <2>1, <2>2
<1>5. EntryFollowed'
  <2> SUFFICES ASSUME hub # None, ~drifted PROVE EntryFollowed'
    BY DEF EntryFollowed
  <2>1. hub \in Conn /\ Follows(hub, sessions, up[hub]) /\ up[hub] \in Seq(Frame)
    BY <1>0, Typed DEF MInv, EntryFollowed
  <2>2. up'[hub] = IF Live(hub) THEN Append(up[hub], f) ELSE up[hub]
    BY <1>0, <2>1, WiredAt
  <2>3. Ahead(sessions, up'[hub]) /\ (Live(hub) => Reaches(sessions, up'[hub], roster'))
    BY <1>4, <2>1, <2>2
  <2> QED BY <1>2, <2>1, <2>3 DEF EntryFollowed, Follows
<1>6. HelloFollowed'
  <2> SUFFICES ASSUME NEW c \in Conn, OwnHelloFirst(c)'
               PROVE  Follows(c, Head(up[c]).sessions, Tail(up[c]))'
    BY DEF HelloFollowed
  <2> DEFINE q == up[c]
  <2>1. q \in Seq(Frame) /\ up'[c] = IF Live(c) THEN Append(q, f) ELSE q
    BY <1>0, Typed, WiredAt
  <2>2. CASE q # <<>>
    <3>1. /\ Head(up'[c]) = Head(q) /\ Tail(q) \in Seq(Frame)
          /\ Tail(up'[c]) = IF Live(c) THEN Append(Tail(q), f) ELSE Tail(q)
      <4> HIDE DEF q
      <4>1. Head(Append(q, f)) = Head(q) /\ Tail(Append(q, f)) = Append(Tail(q), f)
        BY <2>1, <2>2, HeadTailAppend, Zenon
      <4>2. Tail(q) \in Seq(Frame)
        BY <2>1, <2>2
      <4> QED BY <2>1, <4>1, <4>2
    <3>2. OwnHelloFirst(c)
      BY <2>2, <3>1 DEF OwnHelloFirst
    <3>3. Follows(c, Head(q).sessions, Tail(q))
      BY <1>0, <3>2 DEF MInv, HelloFollowed
    <3> HIDE DEF q
    <3>4. /\ Ahead(Head(q).sessions, Tail(up'[c]))
          /\ Live(c) => Reaches(Head(q).sessions, Tail(up'[c]), roster')
      BY <1>4, <3>1, <3>3
    <3> QED BY <1>2, <3>1, <3>4 DEF Follows
  <2>3. CASE q = <<>>
    <3>1. Live(c) /\ up'[c] = <<f>> /\ Head(up'[c]) = f /\ Tail(up'[c]) = <<>>
      BY <2>1, <2>3 DEF OwnHelloFirst
    <3>2. f.sessions = roster' /\ roster' \in Sessions
      BY <1>0, <2>3, <3>1, Typed, AppliedType DEF OwnHelloFirst
    <3>3. Reaches(roster', <<>>, roster')
      BY <3>2, ReachesEmpty
    <3> QED BY <3>1, <3>2, <3>3 DEF Follows, Ahead
  <2> QED BY <2>2, <2>3
<1>7. EverySessionProjected'
  BY <1>0 DEF MInv, EverySessionProjected
<1> QED BY <1>1, <1>3, <1>5, <1>6, <1>7 DEF MInv

LEMMA RosterSends ==
  ASSUME TypeOK, RosterStep
  PROVE  \E f \in Frame :
           /\ up' = Wired(f) /\ roster' = Applied(roster, f) /\ f.type # "hello"
           /\ IsStatus(f) => roster[f.session] # Gone
<1>1. ASSUME NEW s \in Session, NEW agents \in Agents, SessionAppears(s, agents)
      PROVE  /\ AddedEvent(s, agents) \in Frame /\ up' = Wired(AddedEvent(s, agents))
             /\ roster' = Applied(roster, AddedEvent(s, agents))
  <2>1. AddedEvent(s, agents) \notin CallFrame
    BY TunnelAssumption DEF AddedEvent
  <2> QED BY <1>1, <2>1, FramesAreFrames DEF SessionAppears, RosterChange, Applied, AddedEvent
<1>2. ASSUME NEW s \in Session, SessionDisappears(s)
      PROVE  /\ RemovedEvent(s) \in Frame /\ up' = Wired(RemovedEvent(s))
             /\ roster' = Applied(roster, RemovedEvent(s))
  <2>1. RemovedEvent(s) \notin CallFrame
    BY TunnelAssumption DEF RemovedEvent
  <2> QED BY <1>2, <2>1, FramesAreFrames DEF SessionDisappears, RosterChange, Applied, RemovedEvent
<1>3. ASSUME NEW f \in CallFrame, Reply(f)
      PROVE  f \in Frame /\ up' = Wired(f) /\ roster' = Applied(roster, f)
  BY <1>3 DEF Reply, RosterChange, Applied, Frame
<1>4. ASSUME NEW s \in Session, NEW a \in Agent, NEW st \in Status, StatusChanges(s, a, st)
      PROVE  /\ StatusEvent(s, a, st) \in Frame /\ up' = Wired(StatusEvent(s, a, st))
             /\ roster' = Applied(roster, StatusEvent(s, a, st)) /\ roster[s] # Gone
  <2>1. StatusEvent(s, a, st) \notin CallFrame
    BY TunnelAssumption DEF StatusEvent
  <2> QED BY <1>4, <2>1, FramesAreFrames DEF StatusChanges, RosterChange, Applied, StatusEvent
<1>5. CASE \E s \in Session, agents \in Agents : SessionAppears(s, agents)
  BY <1>1, <1>5 DEF AddedEvent, IsStatus
<1>6. CASE \E s \in Session : SessionDisappears(s)
  BY <1>2, <1>6 DEF RemovedEvent, IsStatus
<1>7. CASE \E f \in CallFrame : Reply(f)
  BY <1>3, <1>7, TunnelAssumption DEF IsStatus
<1>8. CASE \E s \in Session, a \in Agent, st \in Status : StatusChanges(s, a, st)
  BY <1>4, <1>8 DEF StatusEvent
<1> QED BY <1>5, <1>6, <1>7, <1>8 DEF RosterStep

LEMMA RosterStepMirror ==
  ASSUME MirrorIInv, RosterStep, UNCHANGED drifted PROVE MInv'
<1>1. UNCHANGED <<ws, cend, handler, hub, online, sessions, sockets, drifted>>
  BY DEF RosterStep, SessionAppears, SessionDisappears, Reply, StatusChanges, RosterChange,
         parentVars
<1>2. PICK f \in Frame :
           /\ up' = Wired(f) /\ roster' = Applied(roster, f) /\ f.type # "hello"
           /\ IsStatus(f) => roster[f.session] # Gone
  BY RosterSends DEF MirrorIInv, IInv
<1> QED BY <1>1, <1>2, SendsFollow

\* The hello of a snapshot that misread nothing and was not disturbed carries the
\* roster.
LEMMA SnapshotDoneMirror ==
  ASSUME MirrorIInv, NEW c \in Conn, SnapshotDone(c), UNCHANGED drifted PROVE MInv'
<1>0. TypeOK /\ MInv
  BY DEF MirrorIInv, IInv
<1>1. UNCHANGED <<ws, cend, roster, handler, hub, online, sessions, sockets, drifted>>
  BY DEF SnapshotDone, parentVars
<1>2. CASE c \in retired
  <2>1. up' = up
    BY <1>2 DEF SnapshotDone
  <2>2. SnapshotIsNow'
    <3>1. \A d \in Conn : snap'[d].state = "reading" => snap'[d] = snap[d]
      BY <1>0 DEF SnapshotDone, TypeOK, Unread
    <3> QED BY <1>0, <1>1, <2>1, <3>1 DEF MInv, SnapshotIsNow, Live
  <2> QED BY <1>0, <1>1, <2>1, <2>2
          DEF MInv, NothingEarly, HelloFollowed, EntryFollowed, EverySessionProjected,
              OwnHelloFirst, Follows, Live
<1>3. CASE c \notin retired
  <2>1. up' = Wired(Hello(c)) /\ Hello(c) \in Frame
    BY <1>0, <1>3, FramesAreFrames DEF SnapshotDone
  <2>2. roster' = Applied(roster, Hello(c)) /\ ~IsStatus(Hello(c))
    BY <1>1 DEF Applied, Hello, IsStatus
  <2>3. ASSUME NEW d \in Conn, Live(d), up[d] = <<>>, handler[d] = "hello",
               Hello(c).type = "hello", Hello(c).of = d, Hello(c).exact
        PROVE  Hello(c).sessions = roster'
    <3>1. /\ d = c /\ snap[c].state = "reading" /\ Hello(c).sessions = snap[c].read
          /\ snap[c].misread = {}
      BY <2>3 DEF Hello, SnapshotDone
    <3>2. \A s \in Session : snap[c].read[s] # Gone => snap[c].read[s] = roster[s]
      BY <1>0, <2>3, <3>1 DEF MInv, SnapshotIsNow
    <3>3. \A s \in Session : roster[s] # Gone => snap[c].read[s] # Gone
      BY <3>1 DEF SnapshotDone, SnapshotComplete, Listed
    <3>4. snap[c].read \in Sessions /\ roster \in Sessions
      BY <1>0 DEF TypeOK, Snapshots
    <3>5. \A s \in Session : snap[c].read[s] = roster[s]
      BY <3>2, <3>3
    <3>6. snap[c].read = roster
      BY <3>4, <3>5 DEF Sessions
    <3> QED BY <1>1, <3>1, <3>6
  <2> QED BY <1>1, <2>1, <2>2, <2>3, SendsFollow
<1> QED BY <1>2, <1>3
-----------------------------------------------------------------------------
(* The other steps *)

\* A step that neither changes the roster nor touches a queue.
LEMMA QuietMirror ==
  ASSUME MirrorIInv, UNCHANGED <<roster, up, hub, sessions, online, sockets, drifted>>,
         \A d \in Conn : cend'[d] \in {"idle", "connecting"} => cend[d] \in {"idle", "connecting"},
         \A d \in Conn : up[d] # <<>> \/ d = hub => (Live(d)' => Live(d)),
         \A d \in Conn : up[d] # <<>> => (handler'[d] = "hello" => handler[d] = "hello")
  PROVE  NothingEarly' /\ HelloFollowed' /\ EntryFollowed' /\ EverySessionProjected'
<1>0. TypeOK /\ MInv
  BY DEF MirrorIInv, IInv
<1>1. NothingEarly'
  BY <1>0 DEF MInv, NothingEarly
<1>2. HelloFollowed'
  <2> SUFFICES ASSUME NEW c \in Conn, OwnHelloFirst(c)'
               PROVE  Follows(c, Head(up[c]).sessions, Tail(up[c]))'
    BY DEF HelloFollowed
  <2>1. up[c] # <<>> /\ OwnHelloFirst(c)
    BY DEF OwnHelloFirst
  <2>2. Follows(c, Head(up[c]).sessions, Tail(up[c]))
    BY <1>0, <2>1 DEF MInv, HelloFollowed
  <2>3. Live(c)' => Live(c)
    BY <2>1
  <2> QED BY <2>2, <2>3 DEF Follows
<1>3. EntryFollowed'
  <2> SUFFICES ASSUME hub # None, ~drifted PROVE EntryFollowed'
    BY DEF EntryFollowed
  <2>1. hub \in Conn /\ Follows(hub, sessions, up[hub])
    BY <1>0, Typed DEF MInv, EntryFollowed
  <2>2. Live(hub)' => Live(hub)
    BY <2>1
  <2> QED BY <2>1, <2>2 DEF EntryFollowed, Follows
<1>4. EverySessionProjected'
  BY <1>0 DEF MInv, EverySessionProjected
<1> QED BY <1>1, <1>2, <1>3, <1>4

\* A snapshot that has just begun has read nothing.
LEMMA OpenedMirror ==
  ASSUME MirrorIInv, NEW c \in Conn, Opened(c), UNCHANGED drifted PROVE MInv'
<1>0. TypeOK /\ MInv /\ IInv
  BY DEF MirrorIInv, IInv
<1>1. up[c] = <<>> /\ hub # c
  <2>1. up[c] = <<>>
    BY <1>0 DEF MInv, NothingEarly, Opened
  <2>2. hub # c
    BY <1>0 DEF IInv, PInv, CurrentWillClose, DialledHasNoParent, Opened, Conn, None
  <2> QED BY <2>1, <2>2
<1>2. /\ UNCHANGED <<ws, roster, up, hub, sessions, online, sockets, drifted>>
      /\ \A d \in Conn : d # c => cend'[d] = cend[d] /\ handler'[d] = handler[d] /\ snap'[d] = snap[d]
      /\ cend'[c] = "open" /\ snap'[c] = Unread("reading")
  BY <1>0 DEF Opened, TypeOK
<1>3. NothingEarly' /\ HelloFollowed' /\ EntryFollowed' /\ EverySessionProjected'
  <2>1. /\ \A d \in Conn : cend'[d] \in {"idle", "connecting"} => cend[d] \in {"idle", "connecting"}
        /\ \A d \in Conn : up[d] # <<>> \/ d = hub => (Live(d)' => Live(d))
        /\ \A d \in Conn : up[d] # <<>> => (handler'[d] = "hello" => handler[d] = "hello")
    BY <1>1, <1>2 DEF Live
  <2> QED BY <1>2, <2>1, QuietMirror
<1>4. SnapshotIsNow'
  <2> SUFFICES ASSUME NEW d \in Conn, Live(d)', snap'[d].state = "reading",
                      handler'[d] = "hello", up'[d] = <<>>, snap'[d].misread = {},
                      NEW s \in Session, snap'[d].read[s] # Gone
               PROVE  snap'[d].read[s] = roster'[s]
    BY DEF SnapshotIsNow
  <2>1. CASE d = c
    BY <1>2, <2>1 DEF Unread, NoSessions
  <2>2. CASE d # c
    BY <1>0, <1>2, <2>2 DEF MInv, SnapshotIsNow, Live
  <2> QED BY <2>1, <2>2
<1> QED BY <1>3, <1>4 DEF MInv

LEMMA SnapshotStepMirror ==
  ASSUME MirrorIInv, NEW c \in Conn, SnapshotStep(c), UNCHANGED drifted
  PROVE  MInv'
<1>0. TypeOK /\ MInv
  BY DEF MirrorIInv, IInv
<1>1. PICK s \in Session, agents \in Agents \cup {Gone} : SnapshotSees(c, s, agents)
  BY <1>0, SnapshotStepSees
<1>2. UNCHANGED <<ws, cend, roster, up, handler, hub, online, sessions, sockets, drifted>>
  BY <1>0, <1>1, SeesOnly DEF parentVars
<1>3. \A d \in Conn : d # c => snap'[d] = snap[d]
  BY <1>0, <1>1, SeesOnly
<1>4. HasRead(c, s, agents)
  BY <1>0, <1>1, SeesOnly
<1>5. SnapshotIsNow'
  <2> SUFFICES ASSUME NEW d \in Conn, Live(d)', snap'[d].state = "reading",
                      handler'[d] = "hello", up'[d] = <<>>, snap'[d].misread = {},
                      NEW t \in Session, snap'[d].read[t] # Gone
               PROVE  snap'[d].read[t] = roster'[t]
    BY DEF SnapshotIsNow
  <2>1. CASE d # c
    <3>1. snap'[d] = snap[d]
      BY <1>3, <2>1
    <3> QED BY <1>0, <1>2, <3>1 DEF MInv, SnapshotIsNow, Live
  <2>2. CASE d = c
    <3>1. snap[c].misread = {} /\ agents = roster[s]
      BY <1>4, <2>2 DEF HasRead
    <3>2. snap'[c].read[t] = IF t = s THEN agents ELSE snap[c].read[t]
      BY <1>0, <1>4 DEF HasRead, TypeOK, Snapshots, Sessions
    <3>3. snap[c].read[t] # Gone => snap[c].read[t] = roster[t]
      BY <1>0, <1>2, <1>4, <2>2, <3>1 DEF HasRead, MInv, SnapshotIsNow, Live
    <3> QED BY <1>2, <2>2, <3>1, <3>2, <3>3
  <2> QED BY <2>1, <2>2
<1>6. NothingEarly' /\ HelloFollowed' /\ EntryFollowed' /\ EverySessionProjected'
  BY <1>2, QuietMirror DEF Live
<1> QED BY <1>5, <1>6 DEF MInv

\* A step that dials or ends connections of the child, or closes one of the
\* parent's ends.
LEMMA EndsMirror ==
  ASSUME MirrorIInv, UNCHANGED <<snap, roster, up, handler, hub, sessions, online, sockets, drifted>>,
         \A d \in Conn : cend'[d] \in {"idle", "connecting"} => cend[d] \in {"idle", "connecting"},
         \A d \in Conn : Live(d)' => Live(d)
  PROVE  MInv'
<1>0. TypeOK /\ MInv
  BY DEF MirrorIInv, IInv
<1>1. SnapshotIsNow'
  BY <1>0 DEF MInv, SnapshotIsNow
<1>2. NothingEarly' /\ HelloFollowed' /\ EntryFollowed' /\ EverySessionProjected'
  BY QuietMirror
<1> QED BY <1>1, <1>2 DEF MInv

LEMMA ChildStepMirror ==
  ASSUME MirrorIInv, NEW c \in Conn, ChildStep(c), UNCHANGED drifted PROVE MInv'
<1>0. TypeOK
  BY DEF MirrorIInv, IInv
<1>1. CASE Dial(c)
  <2>1. /\ UNCHANGED <<snap, roster, up, handler, hub, sessions, online, sockets>>
        /\ ws' = c /\ cend' = [cend EXCEPT ![c] = "connecting"] /\ cend[c] = "idle"
    BY <1>1, FreshIsIdle DEF Dial, parentVars
  <2>2. \A d \in Conn : cend'[d] \in {"idle", "connecting"} => cend[d] \in {"idle", "connecting"}
    BY <1>0, <2>1 DEF TypeOK
  <2>3. \A d \in Conn : Live(d)' => Live(d)
    BY <1>0, <2>1 DEF TypeOK, Live
  <2> QED BY <2>1, <2>2, <2>3, EndsMirror
<1>2. CASE Opened(c)
  BY <1>2, OpenedMirror
<1>3. CASE SnapshotDone(c)
  BY <1>3, SnapshotDoneMirror
<1>4. CASE ChildClosed(c) \/ ChildFails(c)
  <2>1. /\ UNCHANGED <<snap, roster, up, handler, hub, sessions, online, sockets>>
        /\ ws' = ws /\ cend' = [cend EXCEPT ![c] = "closed"]
    BY <1>4 DEF ChildClosed, ChildFails, ChildEnd, parentVars
  <2>2. \A d \in Conn : cend'[d] \in {"idle", "connecting"} => cend[d] \in {"idle", "connecting"}
    BY <1>0, <2>1 DEF TypeOK
  <2>3. \A d \in Conn : Live(d)' => Live(d)
    BY <1>0, <2>1 DEF TypeOK, Live
  <2> QED BY <2>1, <2>2, <2>3, EndsMirror
<1>5. CASE Reload(c)
  <2>1. /\ UNCHANGED <<snap, roster, up, handler, hub, sessions, online, sockets>>
        /\ ws' = c /\ cend[c] = "idle"
    BY <1>5, FreshIsIdle DEF Reload, parentVars
  <2>2. cend'[c] = "connecting"
    BY <1>0, <1>5 DEF Reload, TypeOK
  <2>3. \A d \in Conn : d # c =>
          (cend'[d] \in {"idle", "connecting"} => cend[d] \in {"idle", "connecting"})
    BY <1>0, <1>5 DEF Reload, TypeOK
  <2>4. \A d \in Conn : Live(d)' => Live(d)
    BY <2>1, <2>2 DEF Live
  <2>5. \A d \in Conn : cend'[d] \in {"idle", "connecting"} => cend[d] \in {"idle", "connecting"}
    BY <2>1, <2>3
  <2> QED BY <2>1, <2>4, <2>5, EndsMirror
<1>6. CASE SnapshotStep(c)
  BY <1>6, SnapshotStepMirror
<1> QED BY <1>1, <1>2, <1>3, <1>4, <1>5, <1>6 DEF ChildStep

LEMMA QuietParentMirror ==
  ASSUME MirrorIInv, Disconnect \/ \E c \in Conn : HelloTimeout(c), UNCHANGED drifted PROVE MInv'
<1>1. UNCHANGED <<ws, cend, snap, roster, up, handler, hub, sessions, online, sockets>>
  BY DEF Disconnect, HelloTimeout, childVars
<1> QED BY <1>1, EndsMirror DEF Live
-----------------------------------------------------------------------------
(* Receiving *)

\* What the parent reads changes nothing for the connections it does not read.
LEMMA ReadingMirror ==
  ASSUME MirrorIInv, UNCHANGED childVars,
         \A d \in Conn : handler'[d] = "hello" => handler[d] = "hello" /\ up'[d] = up[d],
         \A d \in Conn : up[d] = <<>> => up'[d] = <<>>
  PROVE  NothingEarly' /\ SnapshotIsNow' /\ HelloFollowed'
<1>0. MInv
  BY DEF MirrorIInv
<1>1. UNCHANGED <<ws, cend, snap, roster>> /\ \A c \in Conn : Live(c)' <=> Live(c)
  BY DEF childVars, Live
<1>2. NothingEarly'
  BY <1>0, <1>1 DEF MInv, NothingEarly
<1>3. SnapshotIsNow'
  BY <1>0, <1>1 DEF MInv, SnapshotIsNow
<1>4. HelloFollowed'
  <2> SUFFICES ASSUME NEW c \in Conn, OwnHelloFirst(c)'
               PROVE  Follows(c, Head(up[c]).sessions, Tail(up[c]))'
    BY DEF HelloFollowed
  <2>1. up'[c] = up[c] /\ OwnHelloFirst(c)
    BY DEF OwnHelloFirst
  <2>2. Follows(c, Head(up[c]).sessions, Tail(up[c]))
    BY <1>0, <2>1 DEF MInv, HelloFollowed
  <2> QED BY <1>1, <2>1, <2>2 DEF Follows
<1> QED BY <1>2, <1>3, <1>4

\* Reading the first frame of a connection that is no longer waiting for its
\* hello after that.
LEMMA FirstRead ==
  ASSUME TypeOK, NEW c \in Conn, Receives(c), handler'[c] # "hello",
         \A d \in Conn : d # c => handler'[d] = handler[d]
  PROVE  /\ \A d \in Conn : handler'[d] = "hello" => handler[d] = "hello" /\ up'[d] = up[d]
         /\ \A d \in Conn : up[d] = <<>> => up'[d] = <<>>
         /\ up'[c] = Tail(up[c]) /\ up[c] \in Seq(Frame) /\ up[c] # <<>>
         /\ \A d \in Conn : d # c => up'[d] = up[d]
BY DEF Receives, TypeOK

\* The first frame enrolls: what follows it leads from what it carried on.
LEMMA EnrollMirror ==
  ASSUME MirrorIInv, NEW c \in Conn, EnrollWatched(c) PROVE MInv'
<1>0. TypeOK /\ MInv
  BY DEF MirrorIInv, IInv
<1>1. /\ Receives(c) /\ handler[c] = "hello" /\ Head(up[c]).type = "hello"
      /\ online' = TRUE /\ sessions' = Head(up[c]).sessions
      /\ sockets' = Synced(TRUE, Head(up[c]).sessions)
      /\ handler' = [handler EXCEPT ![c] = "conn"] /\ hub' = c
      /\ drifted' = (Head(up[c]).of # c \/ ~Head(up[c]).exact)
  BY DEF EnrollWatched, Enroll
<1>2. UNCHANGED childVars /\ UNCHANGED <<ws, cend, roster>>
  BY <1>1 DEF Receives, childVars
<1>3. handler'[c] # "hello" /\ \A d \in Conn : d # c => handler'[d] = handler[d]
  BY <1>0, <1>1 DEF TypeOK
<1>4. NothingEarly' /\ SnapshotIsNow' /\ HelloFollowed'
  BY <1>0, <1>1, <1>2, <1>3, FirstRead, ReadingMirror
<1>5. EntryFollowed'
  <2> SUFFICES ASSUME ~drifted' PROVE EntryFollowed'
    BY DEF EntryFollowed
  <2>1. OwnHelloFirst(c)
    BY <1>1 DEF OwnHelloFirst, Receives
  <2>2. Follows(c, Head(up[c]).sessions, Tail(up[c]))
    BY <1>0, <2>1 DEF MInv, HelloFollowed
  <2>3. up'[c] = Tail(up[c])
    BY <1>0, <1>1, <1>3, FirstRead
  <2>4. Live(c)' <=> Live(c)
    BY <1>2 DEF Live
  <2> QED BY <1>1, <1>2, <2>2, <2>3, <2>4 DEF EntryFollowed, Follows
<1>6. EverySessionProjected'
  BY <1>1 DEF EverySessionProjected, Synced
<1> QED BY <1>4, <1>5, <1>6 DEF MInv

LEMMA BadHelloMirror ==
  ASSUME MirrorIInv, NEW c \in Conn, BadHello(c), UNCHANGED drifted PROVE MInv'
<1>0. TypeOK /\ MInv
  BY DEF MirrorIInv, IInv
<1>1. /\ Receives(c) /\ handler[c] = "hello" /\ handler' = [handler EXCEPT ![c] = "none"]
      /\ UNCHANGED <<hub, online, sessions, sockets>> /\ UNCHANGED childVars
  BY DEF BadHello, Receives
<1>2. handler'[c] # "hello" /\ \A d \in Conn : d # c => handler'[d] = handler[d]
  BY <1>0, <1>1 DEF TypeOK
<1>3. NothingEarly' /\ SnapshotIsNow' /\ HelloFollowed'
  BY <1>0, <1>1, <1>2, FirstRead, ReadingMirror
<1>4. EntryFollowed'
  <2> SUFFICES ASSUME hub # None, ~drifted PROVE EntryFollowed'
    BY <1>1 DEF EntryFollowed
  <2>1. hub \in Conn /\ hub # c
    BY <1>0, <1>1, Typed DEF MirrorIInv, IInv, PInv, CurrentWillClose
  <2>2. Follows(hub, sessions, up[hub]) /\ up'[hub] = up[hub]
    BY <1>0, <1>1, <1>2, <2>1, FirstRead DEF MInv, EntryFollowed
  <2>3. roster' = roster /\ (Live(hub)' <=> Live(hub)) /\ hub' = hub /\ sessions' = sessions
    BY <1>1 DEF childVars, Live
  <2> QED BY <2>2, <2>3 DEF EntryFollowed, Follows
<1>5. EverySessionProjected'
  BY <1>0, <1>1 DEF MInv, EverySessionProjected
<1> QED BY <1>3, <1>4, <1>5 DEF MInv

\* Routing a frame is what its replay is; only a status adds no socket.
LEMMA RouteApplies ==
  ASSUME TypeOK, NEW c \in Conn, Route(c), IsStatus(Head(up[c])) => sessions[Head(up[c]).session] # Gone,
         online => Listed(sessions) \subseteq sockets
  PROVE  /\ sessions' = Applied(sessions, Head(up[c]))
         /\ online' => Listed(sessions') \subseteq sockets'
<1> DEFINE f == Head(up[c])
<1>0. f \in Frame /\ online' = online /\ sessions \in Sessions
  BY Received DEF Route, TypeOK
<1> HIDE DEF f
<1>1. CASE (f.type = "event" => f.kind \in {"herdr_event", "sub_closed"}) /\ UNCHANGED <<sessions, sockets>>
  <2>1. f \in CallFrame \/ f.type = "hello"
    BY <1>0, <1>1 DEF Frame
  <2> QED BY <1>0, <1>1, <2>1 DEF Applied, f
<1>2. CASE /\ f.type = "event" /\ f.kind = "agent_status"
           /\ sessions' = AgentStatusApplied(sessions, f.session, f.agent, f.status)
           /\ UNCHANGED sockets
  <2>1. f \notin CallFrame /\ IsStatus(f)
    BY <1>2, TunnelAssumption DEF IsStatus
  <2>2. sessions' = Applied(sessions, f)
    BY <1>2, <2>1 DEF Applied
  <2>3. Listed(sessions') = Listed(sessions)
    <3>1. f.session \in Session /\ sessions[f.session] # Gone
      BY <1>0, <1>2, <2>1, FrameFields DEF f
    <3>2. sessions' \in Sessions /\ \A s \in Session : s # f.session => sessions'[s] = sessions[s]
      BY <1>0, <1>2, <3>1, FrameFields, RegistryTypes DEF AgentStatusApplied, Sessions
    <3>3. sessions'[f.session] = [sessions[f.session] EXCEPT ![f.agent] = f.status]
      BY <1>0, <1>2, <3>1 DEF AgentStatusApplied, Sessions
    <3>4. sessions[f.session] \in Agents /\ f.agent \in Agent /\ f.status \in Status
      BY <1>0, <1>2, <3>1, FrameFields DEF Sessions
    <3>5. sessions'[f.session] # Gone
      BY <3>3, <3>4, RegistryAssumption DEF Agents
    <3> QED BY <3>1, <3>2, <3>5 DEF Listed
  <2> QED BY <1>0, <1>2, <2>2, <2>3 DEF f
<1>3. CASE /\ f.type = "event" /\ f.kind = "session_added"
           /\ sessions' = SessionAddedApplied(sessions, f.session, f.agents)
           /\ sockets' = Synced(online, sessions')
  <2>1. f \notin CallFrame
    BY <1>3, TunnelAssumption
  <2>2. sessions' = Applied(sessions, f)
    BY <1>3, <2>1 DEF Applied
  <2>3. online => Listed(sessions') \subseteq sockets'
    BY <1>3 DEF Synced
  <2> QED BY <1>0, <2>2, <2>3 DEF f
<1>4. CASE /\ f.type = "event" /\ f.kind = "session_removed"
           /\ sessions' = SessionRemovedApplied(sessions, f.session)
           /\ sockets' = sockets \ {f.session}
  <2>1. f \notin CallFrame
    BY <1>4, TunnelAssumption
  <2>2. sessions' = Applied(sessions, f)
    BY <1>4, <2>1 DEF Applied
  <2>3. Listed(sessions') \subseteq Listed(sessions) \ {f.session}
    BY <1>0, <1>4 DEF Listed, SessionRemovedApplied, Sessions
  <2> QED BY <1>0, <1>4, <2>2, <2>3 DEF f
<1> QED BY <1>1, <1>2, <1>3, <1>4 DEF Route, f

LEMMA RouteMirror ==
  ASSUME MirrorIInv, NEW c \in Conn, RouteWatched(c) PROVE MInv'
<1>0. TypeOK /\ MInv
  BY DEF MirrorIInv, IInv
<1>1. /\ Route(c) /\ Receives(c) /\ handler[c] = "conn" /\ handler' = handler
      /\ hub' = hub /\ online' = online /\ UNCHANGED childVars
      /\ drifted' = (drifted \/ hub # c)
  BY DEF RouteWatched, Route, Receives
<1>2. NothingEarly' /\ SnapshotIsNow' /\ HelloFollowed'
  BY <1>0, <1>1, FirstRead, ReadingMirror
<1>3. ASSUME ~drifted' PROVE EntryFollowed' /\ EverySessionProjected'
  <2>1. hub = c /\ ~drifted /\ hub # None
    <3>1. hub = c /\ ~drifted
      BY <1>1, <1>3, Zenon
    <3> QED BY <3>1 DEF None, Conn
  <2> DEFINE q == up[c]
  <2>2. q \in Seq(Frame) /\ q # <<>> /\ up'[c] = Tail(q)
    BY <1>0, <1>1, FirstRead
  <2>3. Follows(c, sessions, q)
    BY <1>0, <2>1 DEF MInv, EntryFollowed
  <2>4. PICK R \in Sessions : Reaches(sessions, q, R)
    BY <2>3 DEF Follows, Ahead
  <2>5. IsStatus(Head(q)) => sessions[Head(q).session] # Gone
    BY <2>2, <2>4, ReachesTail
  <2>6. /\ sessions' = Applied(sessions, Head(q))
        /\ online' => Listed(sessions') \subseteq sockets'
    BY <1>0, <1>1, <2>1, <2>5, RouteApplies DEF MInv, EverySessionProjected
  <2>7. Reaches(sessions', Tail(q), R) /\ (Live(c) => Reaches(sessions', Tail(q), roster))
    BY <2>2, <2>3, <2>4, <2>6, ReachesTail DEF Follows
  <2>8. roster' = roster /\ (Live(c)' <=> Live(c))
    BY <1>1 DEF childVars, Live
  <2>9. Follows(c, sessions, q)'
    BY <2>2, <2>4, <2>7, <2>8 DEF Follows, Ahead
  <2> QED BY <1>1, <2>1, <2>6, <2>9 DEF EntryFollowed, EverySessionProjected
<1> QED BY <1>2, <1>3 DEF MInv, EntryFollowed, EverySessionProjected

LEMMA ParentEndMirror ==
  ASSUME MirrorIInv, NEW c \in Conn, ParentEnd(c), UNCHANGED drifted PROVE MInv'
<1>0. TypeOK /\ MInv
  BY DEF MirrorIInv, IInv
<1>1. /\ UNCHANGED childVars /\ sessions' = sessions
      /\ handler'[c] = "none" /\ up'[c] = <<>>
      /\ \A d \in Conn : d # c => handler'[d] = handler[d] /\ up'[d] = up[d]
  BY <1>0 DEF ParentEnd, TypeOK
<1>2. NothingEarly' /\ SnapshotIsNow' /\ HelloFollowed'
  BY <1>1, ReadingMirror
<1>3. CASE hub = c
  <2>1. hub' = None /\ online' = FALSE
    BY <1>3 DEF ParentEnd, HubAfter, OnlineAfter, IsCurrent
  <2> QED BY <1>2, <2>1 DEF MInv, EntryFollowed, EverySessionProjected
<1>4. CASE hub # c
  <2>1. hub' = hub /\ online' = online /\ sockets' = sockets
    BY <1>4 DEF ParentEnd, HubAfter, OnlineAfter, IsCurrent
  <2>2. EverySessionProjected'
    BY <1>0, <1>1, <2>1 DEF MInv, EverySessionProjected
  <2>3. EntryFollowed'
    <3> SUFFICES ASSUME hub # None, ~drifted PROVE EntryFollowed'
      BY <2>1 DEF EntryFollowed
    <3>1. hub \in Conn /\ Follows(hub, sessions, up[hub])
      BY <1>0, Typed DEF MInv, EntryFollowed
    <3>2. up'[hub] = up[hub] /\ roster' = roster /\ (Live(hub)' <=> Live(hub))
      BY <1>1, <1>4, <2>1, <3>1 DEF childVars, Live
    <3> QED BY <1>1, <2>1, <3>1, <3>2 DEF EntryFollowed, Follows
  <2> QED BY <1>2, <2>2, <2>3 DEF MInv
<1> QED BY <1>3, <1>4

\* A refresh that writes what the entry holds changes nothing but the sockets;
\* any other counts as a drift.
LEMMA RefreshMirror ==
  ASSUME MirrorIInv, NEW s \in Session, NEW agents \in Agents, RefreshWatched(s, agents)
  PROVE  MInv'
<1>0. TypeOK /\ MInv
  BY DEF MirrorIInv, IInv
<1>1. /\ UNCHANGED childVars /\ UNCHANGED <<up, handler, hub, online>>
      /\ sessions' = [sessions EXCEPT ![s] = agents] /\ sockets' = Synced(online, sessions')
      /\ drifted' = (drifted \/ agents # sessions[s])
  BY DEF RefreshWatched, AgentsRefreshed, SessionAddedApplied
<1>2. NothingEarly' /\ SnapshotIsNow' /\ HelloFollowed'
  BY <1>1, ReadingMirror
<1>3. EverySessionProjected'
  BY <1>1 DEF EverySessionProjected, Synced
<1>4. EntryFollowed'
  <2> SUFFICES ASSUME hub # None, ~drifted' PROVE EntryFollowed'
    BY <1>1 DEF EntryFollowed
  <2>1. ~drifted /\ agents = sessions[s]
    BY <1>1, Zenon
  <2>2. sessions' = sessions
    BY <1>0, <1>1, <2>1 DEF TypeOK, Sessions
  <2>3. Follows(hub, sessions, up[hub])
    BY <1>0, <2>1 DEF MInv, EntryFollowed
  <2>4. roster' = roster /\ (Live(hub)' <=> Live(hub))
    BY <1>1 DEF childVars, Live
  <2> QED BY <1>1, <2>2, <2>3, <2>4 DEF EntryFollowed, Follows
<1> QED BY <1>2, <1>3, <1>4 DEF MInv

LEMMA ParentRestartMirror ==
  ASSUME MirrorIInv, ParentRestart, UNCHANGED drifted PROVE MInv'
<1>1. /\ UNCHANGED childVars /\ hub' = None /\ online' = FALSE
      /\ \A d \in Conn : handler'[d] = "none" /\ up'[d] = <<>>
  BY DEF ParentRestart
<1>2. NothingEarly' /\ SnapshotIsNow' /\ HelloFollowed'
  BY <1>1, ReadingMirror
<1> QED BY <1>1, <1>2 DEF MInv, EntryFollowed, EverySessionProjected
-----------------------------------------------------------------------------
(* The mirror *)

LEMMA MirrorStarts == MirrorInit => MInv
BY DEF MirrorInit, Init, MInv, NothingEarly, SnapshotIsNow, HelloFollowed, EntryFollowed,
       EverySessionProjected, OwnHelloFirst, Live, None, Conn

LEMMA MirrorIsTunnel == [MirrorNext]_<<vars, drifted>> => [Next]_vars
<1>1. ASSUME NEW c \in Conn, EnrollWatched(c) \/ RouteWatched(c) \/ Others(c)
      PROVE  ChildStep(c) \/ ParentStep(c)
  BY <1>1 DEF EnrollWatched, RouteWatched, Others, ParentStep
<1> QED BY <1>1 DEF MirrorNext, RefreshWatched, Next

LEMMA MirrorSteps ==
  ASSUME MirrorIInv, [MirrorNext]_<<vars, drifted>> PROVE MInv'
<1>1. ASSUME NEW c \in Conn, Others(c), UNCHANGED drifted PROVE MInv'
  <2>1. CASE HelloTimeout(c)
    BY <1>1, <2>1, QuietParentMirror
  <2>2. CASE BadHello(c)
    BY <1>1, <2>2, BadHelloMirror
  <2>3. CASE ParentClosed(c) \/ ParentFails(c)
    <3>1. ParentEnd(c)
      BY <2>3 DEF ParentClosed, ParentFails
    <3> QED BY <1>1, <3>1, ParentEndMirror
  <2>4. CASE ChildStep(c)
    BY <1>1, <2>4, ChildStepMirror
  <2> QED BY <1>1, <2>1, <2>2, <2>3, <2>4 DEF Others
<1>2. CASE \E c \in Conn : EnrollWatched(c)
  BY <1>2, EnrollMirror
<1>3. CASE \E c \in Conn : RouteWatched(c)
  BY <1>3, RouteMirror
<1>4. CASE (RosterStep \/ Disconnect \/ ParentRestart) /\ UNCHANGED drifted
  BY <1>4, RosterStepMirror, QuietParentMirror, ParentRestartMirror
<1>5. CASE UNCHANGED <<vars, drifted>>
  <2>1. UNCHANGED <<ws, cend, snap, roster, up, handler, hub, sessions, online, sockets, drifted>>
    BY <1>5 DEF vars, childVars, parentVars
  <2> QED BY <2>1, EndsMirror DEF Live
<1>6. CASE \E s \in Session, agents \in Agents : RefreshWatched(s, agents)
  BY <1>6, RefreshMirror
<1> QED BY <1>1, <1>2, <1>3, <1>4, <1>5, <1>6 DEF MirrorNext

LEMMA MirrorInvariance == MirrorSpec => []MirrorIInv
<1>1. MirrorInit => MirrorIInv
  BY MirrorStarts, InitType, InitInv DEF MirrorInit, MirrorIInv, IInv
<1>2. MirrorIInv /\ [MirrorNext]_<<vars, drifted>> => MirrorIInv'
  BY MirrorIsTunnel, MirrorSteps, NextInv DEF MirrorIInv
<1> QED BY <1>1, <1>2, PTL DEF MirrorSpec

\* While child and parent share a connection, the parent's entry with the frames
\* under way is the child's roster, and every session it lists has its socket,
\* for any overlap of stale and fresh connections, unless a stale or misread
\* snapshot, a stale frame or a refresh was applied (src/south.ts,
\* src/local-attach.ts, src/tunnel.ts, src/http.ts, src/projection.ts).
THEOREM ParentMirrorsChild == MirrorSpec => []ParentMirrors
<1>1. ASSUME MirrorIInv PROVE MirrorsChild
  <2> SUFFICES ASSUME Connected, ~drifted PROVE Replayed(sessions, up[ws]) = roster
    BY DEF MirrorsChild
  <2>1. hub = ws /\ hub # None /\ Live(hub) /\ up[hub] \in Seq(Frame)
    BY <1>1, Typed DEF MirrorIInv, IInv, Connected, Live
  <2>2. Reaches(sessions, up[hub], roster)
    BY <1>1, <2>1 DEF MirrorIInv, MInv, EntryFollowed, Follows
  <2> QED BY <2>1, <2>2, ReachesReplayed
<1>2. MirrorIInv => ParentMirrors
  BY <1>1 DEF MirrorIInv, MInv, ParentMirrors
<1> QED BY <1>2, MirrorInvariance, PTL
=============================================================================
