----------------------------- MODULE LocalAttach -----------------------------
(***************************************************************************)
(* LocalHerdr (src/local-attach.ts): how the broker follows ONE local      *)
(* herdr session.  A rescan probes the session and starts to track it;     *)
(* an event channel tells when its agents change; a refresh re-lists them, *)
(* writes the roster into the registry and replaces the channel when the   *)
(* set of panes changed.  Every request is an await, so rescans, refreshes,*)
(* channel closes, forgetSession and stop interleave freely; a tracked     *)
(* session and a channel are objects, compared by identity after an await. *)
(*                                                                         *)
(* Sessions share nothing but the order in which a rescan visits them,     *)
(* which is left out.  An agent is its pane and its status.                *)
(***************************************************************************)
EXTENDS Naturals, Sequences

CONSTANTS Pane, Status,
          Absent,     \* no agent in a pane
          Gone,       \* the registry does not list the session
          Obj,        \* TrackedSession objects
          Chan,       \* SessionEvents objects
          Nudge,      \* bound: refreshes an event started, at a time
          None,
          MaxChange,  \* bound: changes of herdr's roster
          MaxFault    \* bound: lost answers, broken channels, restarts, forgets

\* The other refreshes: the one a probe runs, and the snapshot of start().
Probe == "probe"
Boot  == "boot"
Task  == Nudge \cup {Probe, Boot}

ASSUME LocalAssumption ==
  /\ None \notin Obj \cup Chan
  /\ Absent \notin Status /\ Gone \notin [Pane -> Status \cup {Absent}]
  /\ Probe \notin Nudge /\ Boot \notin Nudge
  /\ MaxChange \in Nat /\ MaxFault \in Nat

Roster == [Pane -> Status \cup {Absent}]
Blank  == [p \in Pane |-> Absent]

VARIABLES
  \* herdr
  up,        \* it answers
  rosters,   \* every roster it has had, the last one is its roster
  \* the endpoints
  fixed,     \* opts.endpoints is given; else they are the sockets on disk
  listed,    \* the session is among them
  \* LocalHerdr
  boot,      \* start(): "attaching", "listing", then "up"
  stopped,   \* #stopped
  due,       \* a rescan has yet to come to the session
  probe,     \* its ping and refresh (#connecting), and the object it found
  tracked,   \* #sessions: the session's object, or None
  events,    \* .events of each object: a channel, or None
  task,      \* refreshes: the object, and which roster agent.list has read
  chan,      \* channels: stage, object, pane set, and events under way
  \* the registry
  shown,     \* the session's entry
  \* history, read by properties only
  seen,      \* the last roster anything applied to the entry knew of
  drift,     \* why the entry may be stale (see RosterCurrent)
  abandoned, \* a session was retired while its channel was open
  forgotten, \* it was forgotten and not added since
  ghost,     \* ... while a rescan was on its way to it
  \* bounds
  changes, faults

herdr   == <<up, rosters>>
ends    == <<fixed, listed>>
scan    == <<boot, stopped, due>>
track   == <<tracked, events>>
entry   == <<shown, seen>>
history == <<drift, abandoned, forgotten, ghost>>
bounds  == <<changes, faults>>
vars    == <<herdr, ends, scan, probe, track, task, chan, entry, history, bounds>>

Now == Len(rosters)

Event == [kind : {"status"}, pane : Pane, status : Status, at : Nat]
           \cup [kind : {"roster"}, at : Nat]
Channel == [stage : {"free", "opening", "open", "broken", "closing"},
            obj : Obj \cup {None}, key : SUBSET Pane, queue : Seq(Event)]
Refresh == [stage : {"idle", "asked", "answered"}, obj : Obj \cup {None}, read : Nat]
Ping    == [stage : {"none", "pinging", "answered", "failed", "refreshing"},
            obj : Obj \cup {None}]
NoChan == [stage |-> "free", obj |-> None, key |-> {}, queue |-> <<>>]
Idle   == [stage |-> "idle", obj |-> None, read |-> 0]
NoProbe == [stage |-> "none", obj |-> None]

FlagsOK ==
  /\ up \in BOOLEAN /\ fixed \in BOOLEAN /\ listed \in BOOLEAN
  /\ stopped \in BOOLEAN /\ due \in BOOLEAN
  /\ abandoned \in BOOLEAN /\ forgotten \in BOOLEAN /\ ghost \in BOOLEAN
  /\ boot \in {"attaching", "listing", "up"}
  /\ drift \subseteq {"missed", "overtaken", "blank"}
BoundsOK == changes \in 0..MaxChange /\ faults \in 0..MaxFault
RosterOK == rosters \in Seq(Roster) /\ Now > 0
ViewOK   == shown \in Roster \cup {Gone} /\ seen \in Nat
TasksOK  == task \in [Task -> Refresh] /\ \A t \in Task : task[t].read <= Now
TrackOK  == probe \in Ping /\ tracked \in Obj \cup {None} /\ events \in [Obj -> Chan \cup {None}]
ChanOK   == chan \in [Chan -> Channel]

TypeOK ==
  FlagsOK /\ BoundsOK /\ RosterOK /\ ViewOK /\ TasksOK /\ TrackOK /\ ChanOK

Init ==
  /\ up \in BOOLEAN /\ \E r \in Roster : rosters = <<r>>
  /\ fixed \in BOOLEAN /\ listed \in BOOLEAN /\ (up => listed)
  /\ boot = "attaching" /\ stopped = FALSE /\ due = listed
  /\ probe = NoProbe
  /\ tracked = None /\ events = [o \in Obj |-> None]
  /\ task = [t \in Task |-> Idle]
  /\ chan = [c \in Chan |-> NoChan]
  /\ shown = Gone /\ seen = 0
  /\ drift = {} /\ abandoned = FALSE /\ forgotten = FALSE /\ ghost = FALSE
  /\ changes = 0 /\ faults = 0

Fault == faults < MaxFault /\ faults' = faults + 1
-----------------------------------------------------------------------------
(* The session's channel *)

Current == IF tracked = None THEN None ELSE events[tracked]
Holds(c, stages) == chan[c].stage \in stages
PaneKey(r) == {p \in Pane : r[p] # Absent}

\* SessionEvents.close: the socket is destroyed, its close event is still to
\* come, and the events under way are lost.
Closed(c) == [chan[c] EXCEPT !.stage = "closing", !.queue = <<>>]
Lost(c)   == c # None /\ chan[c].queue # <<>>

\* An object or a channel nobody refers to stands for a new one.
FreshObj(o) ==
  /\ o # tracked /\ o # probe.obj
  /\ \A t \in Task : task[t].obj # o
  /\ \A c \in Chan : chan[c].obj # o
-----------------------------------------------------------------------------
(* Herdr *)

Heard(kind, p) ==
  /\ Current # None /\ chan[Current].stage = "open"
  /\ kind = "status" => p \in chan[Current].key

\* A roster was read and is about to be applied.
Reading == \E t \in Task : task[t].stage = "answered"

\* A change nobody hears, after the roster was read that its channel opens
\* with or that is about to be applied.
Unheard(kind, p) ==
  /\ ~Heard(kind, p)
  /\ Reading \/ (Current # None /\ chan[Current].stage = "opening")

Delivered(e) ==
  [c \in Chan |-> IF chan[c].stage = "open" /\ (e.kind = "status" => e.pane \in chan[c].key)
                  THEN [chan[c] EXCEPT !.queue = Append(@, e)] ELSE chan[c]]

\* An agent appears, ends or changes its status.
Changes(p, s) ==
  /\ up
  /\ changes < MaxChange
  /\ changes' = changes + 1
  /\ rosters[Now][p] # s
  /\ rosters' = Append(rosters, [rosters[Now] EXCEPT ![p] = s])
  /\ LET kind == IF Absent \in {s, rosters[Now][p]} THEN "roster" ELSE "status" IN
       /\ chan' = Delivered(IF kind = "status"
                            THEN [kind |-> kind, pane |-> p, status |-> s, at |-> Now + 1]
                            ELSE [kind |-> kind, at |-> Now + 1])
       /\ drift' = IF Unheard(kind, p) THEN drift \cup {"missed"} ELSE drift
  /\ UNCHANGED <<up, ends, scan, probe, track, task, entry, abandoned, forgotten, ghost, faults>>

\* Its connections break and its agents end with it; its socket may stay on disk.
Stops ==
  /\ up
  /\ Fault
  /\ up' = FALSE
  /\ rosters' = IF rosters[Now] = Blank THEN rosters ELSE Append(rosters, Blank)
  /\ listed' \in IF fixed THEN {listed} ELSE {listed, FALSE}
  /\ chan' = [c \in Chan |-> IF Holds(c, {"opening", "open"})
                             THEN [chan[c] EXCEPT !.stage = "broken"] ELSE chan[c]]
  /\ task' = [t \in Task |-> IF task[t].stage = "asked"
                             THEN [task[t] EXCEPT !.stage = "answered"] ELSE task[t]]
  /\ probe' = IF probe.stage = "pinging" THEN [probe EXCEPT !.stage = "failed"] ELSE probe
  /\ drift' = IF Reading THEN drift \cup {"missed"} ELSE drift
  /\ UNCHANGED <<fixed, scan, track, entry, abandoned, forgotten, ghost, changes>>

Starts ==
  /\ ~up
  /\ Fault
  /\ up' = TRUE
  /\ listed' = (listed \/ ~fixed)
  /\ UNCHANGED <<rosters, fixed, scan, probe, track, task, chan, entry, history, changes>>

\* A ping or an agent.list is answered, or its answer is lost (oneShotRpc).
PingReturns ==
  /\ probe.stage = "pinging"
  /\ \/ up /\ probe' = [probe EXCEPT !.stage = "answered"] /\ UNCHANGED faults
     \/ probe' = [probe EXCEPT !.stage = "failed"] /\ IF up THEN Fault ELSE UNCHANGED faults
  /\ UNCHANGED <<herdr, ends, scan, track, task, chan, entry, history, changes>>

ListReturns(t) ==
  /\ task[t].stage = "asked"
  /\ \/ up /\ task' = [task EXCEPT ![t].stage = "answered", ![t].read = Now] /\ UNCHANGED faults
     \/ task' = [task EXCEPT ![t].stage = "answered"] /\ IF up THEN Fault ELSE UNCHANGED faults
  /\ UNCHANGED <<herdr, ends, scan, probe, track, chan, entry, history, changes>>
-----------------------------------------------------------------------------
(* The registry's entry.  Until start() has replaced it, it is the one of    *)
(* the last run, which is left out.                                          *)

Writes(r) == shown' = IF boot = "up" THEN r ELSE shown
Knows(v)  == seen' = IF v > seen THEN v ELSE seen

\* applyAgentStatus: of an unlisted session too.
StatusApplied(p, s) == [IF shown = Gone THEN Blank ELSE shown EXCEPT ![p] = s]

\* mapAgentList of what agent.list answered; a lost answer lists no agents.
Listed(t) == IF task[t].read = 0 THEN Blank ELSE rosters[task[t].read]
Stale(t) ==
  (IF task[t].read = 0 THEN {"blank"} ELSE {})
    \cup (IF task[t].read # 0 /\ task[t].read < seen THEN {"overtaken"} ELSE {})
-----------------------------------------------------------------------------
(* #refresh *)

Asked(o) == [stage |-> "asked", obj |-> o, read |-> 0]

\* Its first half: it asks for the list of the session tracked now.
RefreshAsks(t) ==
  IF tracked = None \/ stopped THEN UNCHANGED task
  ELSE task' = [task EXCEPT ![t] = Asked(tracked)]

\* The session may have been stopped, forgotten or retired meanwhile.
BugUnchecked(t) == ~stopped
StillTracked(t) == ~stopped /\ tracked = task[t].obj

\* A channel for another pane set replaces the one there is.
BugKeyOfAgents(r) ==
  [stage |-> "opening", obj |-> tracked, key |-> {r[p] : p \in PaneKey(r)}, queue |-> <<>>]
NewChan(r) == [stage |-> "opening", obj |-> tracked, key |-> PaneKey(r), queue |-> <<>>]
Replaced(new, r) ==
  [c \in Chan |-> IF c = new THEN NewChan(r) ELSE IF c = Current THEN Closed(c) ELSE chan[c]]

BugNeverReplaces(r) == Current = None
NeedsChannel(r) == Current = None \/ chan[Current].key # PaneKey(r)

Subscribes(r) ==
  IF NeedsChannel(r)
  THEN \E new \in Chan :
         /\ chan[new].stage = "free"
         /\ chan' = Replaced(new, r)
         /\ events' = [events EXCEPT ![tracked] = new]
  ELSE UNCHANGED <<chan, events>>

\* Its second half.
RefreshApplies(t) ==
  /\ t # Boot
  /\ task[t].stage = "answered"
  /\ task' = [task EXCEPT ![t] = Idle]
  /\ probe' = IF t = Probe THEN NoProbe ELSE probe
  /\ IF StillTracked(t)
     THEN /\ Writes(Listed(t)) /\ Knows(task[t].read)
          /\ Subscribes(Listed(t))
          /\ drift' = drift \cup Stale(t)
                        \cup (IF NeedsChannel(Listed(t)) /\ Lost(Current) THEN {"missed"} ELSE {})
     ELSE UNCHANGED <<entry, chan, events, drift>>
  /\ UNCHANGED <<herdr, ends, scan, tracked, abandoned, forgotten, ghost, bounds>>
-----------------------------------------------------------------------------
(* Events *)

Accepts(c) ==
  /\ up
  /\ chan[c].stage = "opening"
  /\ chan' = [chan EXCEPT ![c].stage = "open"]
  /\ UNCHANGED <<herdr, ends, scan, probe, track, task, entry, history, bounds>>

\* Herdr resets it, or a frame is malformed; nobody accepts it when herdr is down.
Breaks(c) ==
  /\ Holds(c, {"opening", "open"})
  /\ IF up THEN Fault ELSE UNCHANGED faults
  /\ chan' = [chan EXCEPT ![c].stage = "broken"]
  /\ UNCHANGED <<herdr, ends, scan, probe, track, task, entry, history, changes>>

\* The close event of a socket: only that of the object's own channel counts.
BugAnyClose(c) == TRUE
IsOwn(c) == events[chan[c].obj] = c

CloseSeen(c) ==
  /\ Holds(c, {"broken", "closing"})
  /\ chan' = [chan EXCEPT ![c] = NoChan]
  /\ events' = IF IsOwn(c) THEN [events EXCEPT ![chan[c].obj] = None] ELSE events
  /\ drift' = IF Lost(c) /\ Reading THEN drift \cup {"missed"} ELSE drift
  /\ UNCHANGED <<herdr, ends, scan, probe, tracked, task, entry, abandoned, forgotten, ghost, bounds>>

\* #onEvent.  workspace.closed re-lists too; what else it does is in Rows.tla.
OnEvent(c) ==
  /\ Holds(c, {"open", "broken"}) /\ chan[c].queue # <<>>
  /\ chan' = [chan EXCEPT ![c].queue = Tail(@)]
  /\ LET e == Head(chan[c].queue) IN
       \/ /\ e.kind = "status"
          /\ Writes(StatusApplied(e.pane, e.status)) /\ Knows(e.at)
          /\ UNCHANGED task
       \/ /\ e.kind = "roster"
          /\ \E t \in Nudge : task[t].stage = "idle" /\ RefreshAsks(t)
          /\ UNCHANGED entry
  /\ UNCHANGED <<herdr, ends, scan, probe, track, history, bounds>>
-----------------------------------------------------------------------------
(* #rescan *)

\* The timer.
Rescan ==
  /\ boot = "up" /\ ~stopped
  /\ due' = (due \/ listed)
  /\ UNCHANGED <<herdr, ends, boot, stopped, probe, track, task, chan, entry, history, bounds>>

\* It comes to the session: not while another probe is under way, and a
\* tracked one is probed only while its channel is down.
Visit ==
  /\ due
  /\ due' = FALSE
  /\ probe' = IF probe.stage = "none" /\ Current = None
              THEN [stage |-> "pinging", obj |-> tracked] ELSE probe
  /\ UNCHANGED <<herdr, ends, boot, stopped, track, task, chan, entry, history, bounds>>

\* The ping of a session that was not tracked: it is tracked from now on.
Attaches ==
  /\ probe.stage = "answered" /\ probe.obj = None
  /\ IF stopped THEN probe' = NoProbe /\ UNCHANGED <<track, task>>
     ELSE \E o \in Obj :
            /\ FreshObj(o)
            /\ tracked' = o
            /\ events' = [events EXCEPT ![o] = None]
            /\ task' = [task EXCEPT ![Probe] = Asked(o)]
            /\ probe' = [probe EXCEPT !.stage = "refreshing"]
  /\ UNCHANGED <<herdr, ends, scan, chan, entry, history, bounds>>

\* That of a tracked one: it is merely subscribed again.
Resubscribes ==
  /\ probe.stage = "answered" /\ probe.obj # None
  /\ RefreshAsks(Probe)
  /\ probe' = IF tracked = None \/ stopped THEN NoProbe
              ELSE [probe EXCEPT !.stage = "refreshing"]
  /\ UNCHANGED <<herdr, ends, scan, track, chan, entry, history, bounds>>

\* No answer: the session is retired, if it is still the one that was pinged.
BugNeverRetires == FALSE
MayRetire == probe.obj # None /\ tracked = probe.obj /\ ~stopped

PingFails ==
  /\ probe.stage = "failed"
  /\ probe' = NoProbe
  /\ IF MayRetire
     THEN /\ tracked' = None
          /\ Writes(Gone)
          /\ abandoned' = (abandoned \/ Current # None)
     ELSE UNCHANGED <<tracked, shown, abandoned>>
  /\ UNCHANGED <<herdr, ends, scan, events, task, chan, seen, drift, forgotten, ghost, bounds>>
-----------------------------------------------------------------------------
(* start, addEndpoint, forgetSession, stop *)

\* The first rescan is over: the snapshot is read...
BootLists ==
  /\ boot = "attaching" /\ ~due /\ probe.stage = "none"
  /\ IF tracked = None THEN boot' = "up" /\ UNCHANGED task
     ELSE boot' = "listing" /\ task' = [task EXCEPT ![Boot] = Asked(tracked)]
  /\ UNCHANGED <<herdr, ends, stopped, due, probe, track, chan, entry, history, bounds>>

\* ... and replaces the registry's entry.
BootApplies ==
  /\ task[Boot].stage = "answered"
  /\ task' = [task EXCEPT ![Boot] = Idle]
  /\ boot' = "up"
  /\ shown' = Listed(Boot) /\ Knows(task[Boot].read)
  /\ drift' = drift \cup Stale(Boot)
  /\ UNCHANGED <<herdr, ends, stopped, due, probe, track, chan, abandoned, forgotten, ghost, bounds>>

Serving == boot = "up" /\ ~stopped

AddEndpoint ==
  /\ Serving
  /\ up
  /\ forgotten \/ ~listed
  /\ listed' = TRUE
  /\ due' = TRUE
  /\ forgotten' = FALSE
  /\ UNCHANGED <<herdr, fixed, boot, stopped, probe, track, task, chan, entry, drift, abandoned,
                 ghost, bounds>>

\* Of a fixed list the endpoint goes too, "or the next rescan would resurrect it".
BugKeepsEndpoint == listed
ListedAfterForget == listed /\ ~fixed

BugChannelKept == chan
ChannelClosed == [c \in Chan |-> IF c = Current THEN Closed(c) ELSE chan[c]]

ForgetSession ==
  /\ Serving
  /\ Fault
  /\ listed' = ListedAfterForget
  /\ forgotten' = TRUE
  /\ ghost' = (ghost \/ due \/ (probe.stage \in {"pinging", "answered"} /\ probe.obj = None))
  /\ IF tracked = None THEN UNCHANGED <<tracked, shown, chan>>
     ELSE tracked' = None /\ shown' = Gone /\ chan' = ChannelClosed
  /\ UNCHANGED <<herdr, fixed, scan, probe, events, task, seen, drift, abandoned, changes>>

Stop ==
  /\ Serving
  /\ stopped' = TRUE
  /\ tracked' = None
  /\ chan' = ChannelClosed
  /\ UNCHANGED <<herdr, ends, boot, due, probe, events, task, entry, history, bounds>>
-----------------------------------------------------------------------------
HerdrStep ==
  \/ \E p \in Pane, s \in Status \cup {Absent} : Changes(p, s)
  \/ Stops \/ Starts \/ PingReturns
  \/ \E t \in Task : ListReturns(t)
  \/ \E c \in Chan : Accepts(c) \/ Breaks(c)

Next ==
  \/ HerdrStep
  \/ \E t \in Task : RefreshApplies(t)
  \/ \E c \in Chan : CloseSeen(c) \/ OnEvent(c)
  \/ Rescan \/ Visit \/ Attaches \/ Resubscribes \/ PingFails
  \/ BootLists \/ BootApplies
  \/ AddEndpoint \/ ForgetSession \/ Stop

Spec == Init /\ [][Next]_vars

\* The timer ticks, every request is answered or times out, a channel is
\* accepted by a herdr that is up and refused by one that is not.
FairSpec ==
  /\ Spec
  /\ WF_vars(Rescan) /\ WF_vars(Visit) /\ WF_vars(PingReturns)
  /\ WF_vars(Attaches) /\ WF_vars(Resubscribes) /\ WF_vars(PingFails)
  /\ WF_vars(BootLists) /\ WF_vars(BootApplies)
  /\ \A t \in Task : WF_vars(ListReturns(t)) /\ WF_vars(RefreshApplies(t))
  /\ \A c \in Chan :
       WF_vars(Accepts(c) \/ (~up /\ Breaks(c))) /\ WF_vars(CloseSeen(c)) /\ WF_vars(OnEvent(c))
-----------------------------------------------------------------------------
(* Properties *)

\* Every open socket to herdr is the channel of the session tracked now, whatever
\* refreshes, closes and retirements overlap: no event is heard twice or for a
\* session that is gone.  A session that is retired while a refresh opened its
\* channel again leaves that one behind.
NoLeakedChannel ==
  ~abandoned => \A c \in Chan : Holds(c, {"opening", "open", "broken"}) => c = Current

\* The registry lists no session that was retired or forgotten: no answer or
\* event that comes late brings one back.
RetiredForReal == shown # Gone /\ ~stopped => tracked # None
RetiredUnlessAbandoned == ~abandoned => RetiredForReal

\* When nothing is under way, the registry shows herdr's roster.  Exceptions:
\* a change nobody heard because its channel was not open yet or was replaced
\* (missed), an answer applied after a newer one (overtaken), and a lost
\* answer, which is taken for an empty roster (blank).
Settled ==
  /\ boot = "up" /\ ~stopped /\ Current # None
  /\ chan[Current].stage = "open" /\ chan[Current].queue = <<>>
  /\ probe.stage = "none" /\ \A t \in Task : task[t].stage = "idle"
RosterCurrent == Settled /\ drift = {} /\ ~abandoned => shown = rosters[Now]

\* A forgotten session of a fixed list of endpoints stays forgotten, whatever
\* was in flight for it; only a rescan that was on its way to it may be late.
ForgottenStaysForgotten ==
  fixed /\ forgotten /\ ~ghost => tracked = None

\* After stop() nothing is written into the registry any more.
SilentAfterStop == [][stopped /\ ~abandoned => shown' = shown]_vars

\* "a session whose socket stopped answering is retired", if it is still among
\* the endpoints.
EventuallyRetired ==
  <>[](~up /\ listed) /\ []~abandoned => <>[](shown = Gone \/ stopped)

\* "... one whose event stream died is merely re-subscribed".
EventuallyFollowed ==
  <>[](up /\ listed) => <>[](stopped \/ (Current # None /\ chan[Current].stage = "open"))

\* Both: the broker follows the herdr that is there, and no other.
EventuallyInStep == EventuallyRetired /\ EventuallyFollowed
=============================================================================
