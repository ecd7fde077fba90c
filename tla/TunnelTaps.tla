----------------------------- MODULE TunnelTaps -----------------------------
(***************************************************************************)
(* Event passthrough across the tunnel of Tunnel.tla: one client socket of *)
(* acceptClient (src/ws-server.ts) subscribes groups to a child's events;  *)
(* ChildConnection.subscribe (src/tunnel.ts) asks the child for a tap; the *)
(* child's #route (src/south.ts) opens it with LocalHerdr.tap              *)
(* (src/local-attach.ts), a dedicated connection to its herdr, and streams *)
(* what comes.  A sub_id is unique only within its ChildConnection.        *)
(***************************************************************************)
EXTENDS Tunnel, FiniteSets, SequencesExt

CONSTANTS Group,           \* the subscribe frames of the client, each once
          MAX_SUB_GROUPS

VARIABLES
  down,     \* frames from parent to child, per connection
  seq,      \* ChildConnection.#seq
  pending,  \* ChildConnection.#pending: the group each sub's ack is awaited for
  subs,     \* ChildConnection.#subs: the group behind each sub_id
  asked,    \* acceptClient's subSeq: the groups that got a number
  client,   \* is the client's socket open?
  slots,    \* the keys of acceptClient's `taps`: groups that hold a slot
  got,      \* pairs <<g, h>>: an event from the tap of h was pushed to g
  taps,     \* the child's connections to its herdr opened for taps
  leaked,   \* has a tap been acked after its connection ended?
  tapOf     \* ParentLink.#taps: the tap that close(sub_id) would reach

parentTaps == <<seq, pending, subs>>
clientVars == <<asked, client, slots, got>>
childTaps  == <<taps, leaked, tapOf>>
tapVars    == <<down, parentTaps, clientVars, childTaps>>

Ids     == 1..Cardinality(Group)
Tap     == [id : Ids, group : Group, from : Conn]
NoTap   == [id |-> 0]
Opening == "opening"
Open    == "open"
Closed  == "closed"

Entry     == [id : Ids, group : Group]
DownFrame == [type : {"sub"}, id : Ids, group : Group] \cup [type : {"unsub"}, id : Ids]

TapsTypeOK ==
  /\ down \in [Conn -> Seq(DownFrame)]
  /\ seq \in [Conn -> 0..Cardinality(Group)]
  /\ pending \in [Conn -> SUBSET Entry]
  /\ subs \in [Conn -> SUBSET Entry]
  /\ asked \subseteq Group
  /\ client \in BOOLEAN
  /\ slots \subseteq Group
  /\ got \subseteq Group \X Group
  /\ taps \in [Tap -> {Opening, Open, Closed}]
  /\ leaked \in BOOLEAN
  /\ tapOf \in [Ids -> Tap \cup {NoTap}]

TapsInit ==
  /\ Init
  /\ down = [c \in Conn |-> <<>>]
  /\ seq = [c \in Conn |-> 0]
  /\ pending = [c \in Conn |-> {}]
  /\ subs = [c \in Conn |-> {}]
  /\ asked = {}
  /\ client = TRUE
  /\ slots = {}
  /\ got = {}
  /\ taps = [t \in Tap |-> Closed]
  /\ leaked = FALSE
  /\ tapOf = [i \in Ids |-> NoTap]
-----------------------------------------------------------------------------
(* The parent: ChildConnection and acceptClient *)

Groups(entries) == {e.group : e \in entries}
Subscribed == UNION {Groups(subs[c]) : c \in Conn}
SubsOf(c, gs) == {e \in subs[c] : e.group \in gs}

\* ws.send on the parent's end of a connection.
Sent(c, frames) == IF pend[c] = "open" THEN down[c] \o frames ELSE down[c]
Sub(e)          == [type |-> "sub", id |-> e.id, group |-> e.group]
Unsub(e)        == [type |-> "unsub", id |-> e.id]

\* The close functions of the subscriptions of some groups: each deletes its
\* entry and, if there was one, sends an unsub.
BugCloseKeepsTap(gs) == UNCHANGED <<subs, down>>
CloseSubs(gs) ==
  /\ subs' = [c \in Conn |-> subs[c] \ SubsOf(c, gs)]
  /\ down' = [c \in Conn |-> Sent(c, SetToSeq({Unsub(e) : e \in SubsOf(c, gs)}))]

\* broker.events.subscribe: the slot is reserved before the ack is awaited.
SlotFree == Cardinality(slots) < MAX_SUB_GROUPS

\* The request id and the sub_id share one number.
NextSub(c) == seq[c] + 1

Subscribe(g) ==
  /\ client /\ g \notin asked
  /\ SlotFree
  /\ hub # None
  /\ asked' = asked \cup {g}
  /\ slots' = slots \cup {g}
  /\ LET entry == [id |-> NextSub(hub), group |-> g] IN
       /\ seq' = [seq EXCEPT ![hub] = entry.id]
       /\ pending' = [pending EXCEPT ![hub] = @ \cup {entry}]
       /\ down' = [down EXCEPT ![hub] = Sent(hub, <<Sub(entry)>>)]
  /\ UNCHANGED <<vars, subs, client, got, childTaps>>

\* broker.events.unsubscribe, of a placeholder too.
Unsubscribe(g) ==
  /\ client /\ g \in slots
  /\ slots' = slots \ {g}
  /\ CloseSubs({g})
  /\ UNCHANGED <<vars, seq, pending, asked, client, got, childTaps>>

\* The client's socket closes.
ClientCloses ==
  /\ client
  /\ client' = FALSE
  /\ slots' = {}
  /\ CloseSubs(slots)
  /\ UNCHANGED <<vars, seq, pending, asked, got, childTaps>>

\* subscribe()'s timer: the child was too slow, and its ack will find nobody.
SubscribeTimeout(c, e) ==
  /\ faults < MaxFault
  /\ e \in pending[c]
  /\ faults' = faults + 1
  /\ pending' = [pending EXCEPT ![c] = @ \ {e}]
  /\ slots' = slots \ {e.group}
  /\ UNCHANGED <<childVars, up, parentVars, changes, down, seq, subs, asked, client, got, childTaps>>

\* The ack of a sub.  A group whose slot is gone by now is closed at once.
StillWanted(e) == e.group \in slots

Ack(c) ==
  /\ Route(c)
  /\ Head(up[c]).type = "res"
  /\ LET f     == Head(up[c])
         acked == {e \in pending[c] : e.id = f.id}
         live  == {e \in acked : f.ok /\ StillWanted(e)}
         moot  == {e \in acked : f.ok /\ ~StillWanted(e)}
     IN  /\ pending' = [pending EXCEPT ![c] = @ \ acked]
         /\ subs' = [subs EXCEPT ![c] = @ \cup live]
         /\ slots' = IF f.ok THEN slots ELSE slots \ Groups(acked)
         /\ down' = [down EXCEPT ![c] = Sent(c, SetToSeq({Unsub(e) : e \in moot}))]
  /\ UNCHANGED <<seq, asked, client, got, childTaps>>

\* A tapped event is pushed to the group behind its sub_id, if any.
TapEventRouted(c) ==
  /\ Route(c)
  /\ Head(up[c]).type = "event" /\ Head(up[c]).kind = "herdr_event"
  /\ got' = got \cup {<<e.group, Head(up[c]).group>> : e \in {e \in subs[c] : e.id = Head(up[c]).id}}
  /\ UNCHANGED <<down, parentTaps, asked, client, slots, childTaps>>

\* sub_closed: the child's tap died; the group ends.
TapEndRouted(c) ==
  /\ Route(c)
  /\ Head(up[c]).type = "event" /\ Head(up[c]).kind = "sub_closed"
  /\ LET ended == {e \in subs[c] : e.id = Head(up[c]).id} IN
       /\ subs' = [subs EXCEPT ![c] = @ \ ended]
       /\ slots' = slots \ Groups(ended)
  /\ UNCHANGED <<down, seq, pending, asked, client, got, childTaps>>

\* #gone: every sub awaited is rejected, every live one closed.
BugGoneKeepsSlots(c) == slots
SlotsAfter(c) == slots \ Groups(pending[c] \cup subs[c])

ParentGone(c) ==
  /\ ParentClosed(c) \/ ParentFails(c)
  /\ pending' = [pending EXCEPT ![c] = {}]
  /\ subs' = [subs EXCEPT ![c] = {}]
  /\ slots' = SlotsAfter(c)
  /\ UNCHANGED <<down, seq, asked, client, got, childTaps>>
-----------------------------------------------------------------------------
(* The child: ParentLink and LocalHerdr.tap *)

\* #send of a stopped link reaches a connection that is no longer open.
SendUp(t, frame) == up' = IF t.from \in retired THEN up ELSE Wired(frame)

Res(t, ok)   == [type |-> "res", id |-> t.id, ok |-> ok]
Event(t)     == [type |-> "event", kind |-> "herdr_event", id |-> t.id, group |-> t.group]
SubClosed(t) == [type |-> "event", kind |-> "sub_closed", id |-> t.id]

ASSUME TapsAssumption ==
  /\ IsFiniteSet(Group) /\ MAX_SUB_GROUPS \in Nat
  /\ CallFrame = UNION {{Res(t, TRUE), Res(t, FALSE), Event(t), SubClosed(t)} : t \in Tap}

Receive(c) ==
  /\ cend[c] \in {"open", "closing"}
  /\ down[c] # <<>>
  /\ down' = [down EXCEPT ![c] = Tail(@)]
  /\ UNCHANGED <<vars, parentTaps, clientVars, leaked>>

\* A sub frame: local.tap connects to the session's herdr.
TapOpens(c) ==
  /\ Receive(c)
  /\ Head(down[c]).type = "sub"
  /\ LET f == Head(down[c])
         t == [id |-> f.id, group |-> f.group, from |-> c]
     IN  taps' = [taps EXCEPT ![t] = Opening]
  /\ UNCHANGED tapOf

\* An unsub frame closes whatever tap the map has under that id.
TapCloses(c) ==
  /\ Receive(c)
  /\ Head(down[c]).type = "unsub"
  /\ LET id == Head(down[c]).id IN
       /\ tapOf' = [tapOf EXCEPT ![id] = NoTap]
       /\ taps' = IF tapOf[id] = NoTap THEN taps ELSE [taps EXCEPT ![tapOf[id]] = Closed]

\* herdr acks the tap: the map of its link, whatever happened to the
\* connection meanwhile, has it under its id, and the ack is sent.
TapAcked(t) ==
  /\ taps[t] = Opening
  /\ taps' = [taps EXCEPT ![t] = Open]
  /\ tapOf' = IF t.from \in retired THEN tapOf ELSE [tapOf EXCEPT ![t.id] = t]
  /\ leaked' = (leaked \/ t.from \in retired \/ cend[t.from] = "closed")
  /\ SendUp(t, Res(t, TRUE))
  /\ UNCHANGED <<childVars, parentVars, bounds, down, parentTaps, clientVars>>

\* herdr refuses it, the session is unknown, or the connection fails.
TapRefused(t) ==
  /\ taps[t] = Opening
  /\ taps' = [taps EXCEPT ![t] = Closed]
  /\ SendUp(t, Res(t, FALSE))
  /\ UNCHANGED <<childVars, parentVars, bounds, down, parentTaps, clientVars, leaked, tapOf>>

\* herdr streams an event.
TapStreams(t) ==
  /\ changes < MaxChange
  /\ changes' = changes + 1
  /\ taps[t] = Open
  /\ SendUp(t, Event(t))
  /\ UNCHANGED <<childVars, parentVars, faults, down, parentTaps, clientVars, childTaps>>

\* The tap's connection dies underneath it: onClose forgets the id.
TapDies(t) ==
  /\ changes < MaxChange
  /\ changes' = changes + 1
  /\ taps[t] = Open
  /\ taps' = [taps EXCEPT ![t] = Closed]
  /\ tapOf' = IF t.from \in retired THEN tapOf ELSE [tapOf EXCEPT ![t.id] = NoTap]
  /\ SendUp(t, SubClosed(t))
  /\ UNCHANGED <<childVars, parentVars, faults, down, parentTaps, clientVars, leaked>>

\* The end of a link's connection, or its stop(), closes the taps of its map.
BugTapsSurvive == taps
TapsAfterEnd == [t \in Tap |-> IF \E i \in Ids : tapOf[i] = t THEN Closed ELSE taps[t]]

CloseAllTaps ==
  /\ taps' = TapsAfterEnd
  /\ tapOf' = [i \in Ids |-> NoTap]
  /\ UNCHANGED <<down, parentTaps, clientVars, leaked>>

LinkEnds(c) ==
  \/ (ChildClosed(c) \/ ChildFails(c)) /\ IF c \in retired THEN UNCHANGED tapVars ELSE CloseAllTaps
  \/ Reload(c) /\ CloseAllTaps
-----------------------------------------------------------------------------
Untapped(c) ==
  \/ Dial(c) \/ Opened(c) \/ SnapshotDone(c) \/ HelloTimeout(c) \/ Enroll(c) \/ BadHello(c)
  \/ Route(c) /\ Head(up[c]).type = "hello"

TapsNext ==
  \/ \E g \in Group : Subscribe(g) \/ Unsubscribe(g)
  \/ ClientCloses
  \/ \E t \in Tap : TapAcked(t) \/ TapRefused(t) \/ TapStreams(t) \/ TapDies(t)
  \/ \E c \in Conn :
       \/ Ack(c) \/ TapEventRouted(c) \/ TapEndRouted(c) \/ ParentGone(c)
       \/ TapOpens(c) \/ TapCloses(c) \/ LinkEnds(c)
       \/ \E e \in pending[c] : SubscribeTimeout(c, e)
       \/ Untapped(c) /\ UNCHANGED tapVars
  \/ Disconnect /\ UNCHANGED tapVars

tapAllVars == <<vars, tapVars>>
TapsSpec == TapsInit /\ [][TapsNext]_tapAllVars

\* Frames are read, and an open connection to herdr acks or fails.
TapsFairSpec ==
  /\ TapsSpec
  /\ \A t \in Tap : WF_tapAllVars(TapAcked(t) \/ TapRefused(t))
  /\ \A c \in Conn :
       /\ WF_tapAllVars(TapOpens(c)) /\ WF_tapAllVars(TapCloses(c))
       /\ WF_tapAllVars(Ack(c)) /\ WF_tapAllVars(TapEventRouted(c)) /\ WF_tapAllVars(TapEndRouted(c))
-----------------------------------------------------------------------------
(* Properties *)

\* The client's slots are exactly its groups that are live or awaited: no
\* order of unsubscribes, acks, timeouts and closes leaks a slot, and no
\* subscription stays live behind a slot that was given up.  So the cap bounds
\* what is live in the end, although "concurrent subscribes must not all pass
\* the cap check while none has landed yet" (acceptClient).
SlotsExact ==
  /\ Subscribed \subseteq slots
  /\ slots \subseteq Subscribed \cup UNION {Groups(pending[c]) : c \in Conn}
  /\ Cardinality(Subscribed) <= MAX_SUB_GROUPS

\* As long as no tap was acked late, the child's taps live on its current,
\* open connection and an unsub reaches them.
TapsEndWithTunnel ==
  ~leaked => \A t \in Tap : taps[t] = Open =>
                t.from = ws /\ cend[ws] = "open" /\ tapOf[t.id] = t

\* ...and a group gets the events of its own tap, although ids repeat from
\* one connection to the next.
OwnEventsUnlessLeaked == ~leaked => \A p \in got : p[1] = p[2]

\* "broker.events.unsubscribe {sub_id} or socket close stops them" (README):
\* once the client is gone, so are the taps it asked for.
TapsStopWithClient == ~client ~> \A t \in Tap : taps[t] = Closed

\* It is so as long as no connection is lost and every ack is in time.
TapsStopUndisturbed == [](faults = 0) => TapsStopWithClient
=============================================================================
