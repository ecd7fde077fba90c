----------------------------- MODULE LocalProofs -----------------------------
(***************************************************************************)
(* Theorems about LocalAttach, for any panes, statuses, objects, channels  *)
(* and bounds.  The inductive invariant IInv adds to the properties what   *)
(* an await must still find true when it returns: a refresh has an object, *)
(* a session that is attached was not tracked before, start() holds off    *)
(* rescans and stop(), and nothing is on its way to a forgotten session.   *)
(***************************************************************************)
EXTENDS LocalAttach, TLAPS

-----------------------------------------------------------------------------
(* Type correctness *)

\* What agent.list answered is a roster.
LEMMA ListedIsRoster ==
  ASSUME TypeOK, NEW t \in Task PROVE Listed(t) \in Roster
<1>1. Blank \in Roster
  BY DEF Blank, Roster
<1>2. task[t].read \in Nat /\ task[t].read <= Len(rosters)
  BY DEF TypeOK, TasksOK, Refresh, Now
<1> QED BY <1>1, <1>2 DEF TypeOK, RosterOK, Listed

\* close() leaves a channel behind that its close event still finds.
LEMMA ClosedIsChannel ==
  ASSUME TypeOK, NEW c \in Chan PROVE Closed(c) \in Channel
<1>1. chan[c] \in Channel /\ <<>> \in Seq(Event)
  BY DEF TypeOK, ChanOK
<1> QED BY <1>1 DEF Channel, Closed

\* forgetSession and stop keep the type of the channels.
LEMMA ClosingKeepsType ==
  ASSUME TypeOK, chan' = ChannelClosed PROVE ChanOK'
  BY ClosedIsChannel DEF TypeOK, ChanOK, ChannelClosed

\* Herdr always has a roster...
LEMMA NowIsNat == TypeOK => Now \in Nat /\ rosters[Now] \in Roster
  BY DEF TypeOK, RosterOK, Now

\* ... and a change adds one.
LEMMA Grows ==
  ASSUME TypeOK, NEW r \in Roster, rosters' = Append(rosters, r)
  PROVE  RosterOK' /\ Now' = Now + 1
  BY DEF TypeOK, RosterOK, Now

\* An event is put into channels that can hold it.
LEMMA DeliveredType ==
  ASSUME TypeOK, NEW e \in Event PROVE Delivered(e) \in [Chan -> Channel]
<1> SUFFICES ASSUME NEW c \in Chan PROVE [chan[c] EXCEPT !.queue = Append(@, e)] \in Channel
  BY DEF Delivered, TypeOK, ChanOK
<1>1. chan[c] \in Channel /\ chan[c].queue \in Seq(Event)
  BY DEF TypeOK, ChanOK, Channel
<1>2. Append(chan[c].queue, e) \in Seq(Event)
  BY <1>1
<1> QED BY <1>1, <1>2 DEF Channel

\* The channel #refresh opens.
LEMMA NewIsChannel == ASSUME TypeOK, NEW r \in Roster PROVE NewChan(r) \in Channel
<1>1. PaneKey(r) \in SUBSET Pane /\ <<>> \in Seq(Event)
  BY DEF PaneKey
<1>2. QED BY <1>1 DEF TypeOK, TrackOK, NewChan, Channel

\* Every step keeps the types, one step of the proof per action.
LEMMA NextType == TypeOK /\ [Next]_vars => TypeOK'
<1> USE LocalAssumption DEF TypeOK
<1> SUFFICES ASSUME TypeOK, [Next]_vars PROVE TypeOK'
  OBVIOUS
<1>1. ASSUME NEW p \in Pane, NEW s \in Status \cup {Absent}, Changes(p, s) PROVE TypeOK'
  <2>1. TrackOK'
    BY <1>1 DEF Changes, TrackOK, track
  <2>2. FlagsOK'
    BY <1>1 DEF Changes, FlagsOK, herdr, ends, scan
  <2>3. BoundsOK'
    BY <1>1 DEF Changes, BoundsOK
  <2>4. RosterOK'
    <3>1. [rosters[Now] EXCEPT ![p] = s] \in Roster
      BY NowIsNat DEF Roster
    <3> QED BY <1>1, <3>1, Grows DEF Changes
  <2>5. ViewOK'
    BY <1>1 DEF Changes, ViewOK, entry
  <2>6. TasksOK'
    BY <1>1 DEF Changes, TasksOK, Refresh, Now
  <2>7. ChanOK'
    <3>1. Now + 1 \in Nat
      BY NowIsNat
    <3>2. PICK e \in Event : chan' = Delivered(e)
      BY <1>1, <3>1 DEF Changes, Event
    <3> QED BY <3>2, DeliveredType DEF ChanOK
  <2> QED BY <2>1, <2>2, <2>3, <2>4, <2>5, <2>6, <2>7
<1>2. CASE Stops
  <2>2. FlagsOK'
    BY <1>2 DEF Stops, FlagsOK, herdr, ends, scan
  <2>3. BoundsOK'
    BY <1>2 DEF Stops, Fault, BoundsOK
  <2>4. RosterOK'
    BY <1>2, Grows, NowIsNat DEF Stops, RosterOK, Now, Blank, Roster
  <2>5. ViewOK'
    BY <1>2 DEF Stops, ViewOK, entry
  <2>6. TasksOK'
    <3>1. Now' >= Now
      BY <1>2, Grows, NowIsNat DEF Stops, Now
    <3>2. \A t \in Task : task[t] \in Refresh /\ task[t].read \in Nat /\ task[t].read <= Now
      BY DEF TasksOK, Refresh
    <3>3. Now' \in Nat /\ Now \in Nat
      BY <2>3, NowIsNat DEF RosterOK, Now
    <3>4. task' \in [Task -> Refresh] /\ \A t \in Task : task'[t].read = task[t].read
      BY <1>2, <3>2 DEF Stops, Refresh
    <3> QED BY <3>1, <3>2, <3>3, <3>4 DEF TasksOK
  <2>7. ChanOK'
    BY <1>2 DEF Stops, ChanOK, Channel, TrackOK
  <2>8. TrackOK'
    BY <1>2 DEF Stops, TrackOK, Ping, herdr, ends, track
  <2> QED BY <2>2, <2>3, <2>4, <2>5, <2>6, <2>7, <2>8
<1>3. CASE Starts
  <2>1. RosterOK' /\ ViewOK' /\ TasksOK' /\ TrackOK' /\ ChanOK'
    BY <1>3 DEF Starts, Now, RosterOK, ViewOK, TasksOK, TrackOK, ChanOK, track, entry
  <2>2. FlagsOK'
    BY <1>3 DEF Starts, FlagsOK, scan, history
  <2>3. BoundsOK'
    BY <1>3 DEF Starts, Fault, BoundsOK
  <2> QED BY <2>1, <2>2, <2>3
<1>4. CASE PingReturns
  <2>1. FlagsOK' /\ RosterOK' /\ ViewOK' /\ TasksOK' /\ ChanOK'
    BY <1>4 DEF PingReturns, Now, FlagsOK, RosterOK, ViewOK, TasksOK, ChanOK, herdr, ends, scan,
       entry, history
  <2>2. BoundsOK'
    BY <1>4 DEF PingReturns, Fault, BoundsOK
  <2>3. TrackOK'
    BY <1>4 DEF PingReturns, TrackOK, Ping, track
  <2> QED BY <2>1, <2>2, <2>3
<1>5. ASSUME NEW t \in Task, ListReturns(t) PROVE TypeOK'
  <2>1. FlagsOK' /\ RosterOK' /\ ViewOK' /\ TrackOK' /\ ChanOK'
    BY <1>5 DEF ListReturns, Now, FlagsOK, RosterOK, ViewOK, TrackOK, ChanOK, herdr, ends, scan,
       track, entry, history
  <2>2. BoundsOK'
    BY <1>5 DEF ListReturns, Fault, BoundsOK
  <2>3. TasksOK'
    BY <1>5 DEF ListReturns, TasksOK, Refresh, Task, Now, herdr
  <2> QED BY <2>1, <2>2, <2>3
<1>6. ASSUME NEW c \in Chan, Accepts(c) PROVE TypeOK'
  <2>1. FlagsOK' /\ BoundsOK' /\ RosterOK' /\ ViewOK' /\ TasksOK' /\ TrackOK'
    BY <1>6 DEF Accepts, Now, FlagsOK, BoundsOK, RosterOK, ViewOK, TasksOK, TrackOK, herdr,
       ends, scan, track, entry, history, bounds
  <2>2. ChanOK'
    BY <1>6 DEF Accepts, ChanOK, Channel
  <2> QED BY <2>1, <2>2
<1>7. ASSUME NEW c \in Chan, Breaks(c) PROVE TypeOK'
  <2>1. FlagsOK' /\ RosterOK' /\ ViewOK' /\ TasksOK' /\ TrackOK'
    BY <1>7 DEF Breaks, Now, FlagsOK, RosterOK, ViewOK, TasksOK, TrackOK, herdr, ends, scan,
       track, entry, history
  <2>2. BoundsOK'
    BY <1>7 DEF Breaks, Fault, BoundsOK
  <2>3. ChanOK'
    BY <1>7 DEF Breaks, ChanOK, Channel
  <2> QED BY <2>1, <2>2, <2>3
<1>8. ASSUME NEW t \in Task, RefreshApplies(t) PROVE TypeOK'
  <2>1. BoundsOK' /\ RosterOK'
    BY <1>8 DEF RefreshApplies, Now, BoundsOK, RosterOK, herdr, track, bounds
  <2>2. FlagsOK'
    BY <1>8 DEF RefreshApplies, Stale, FlagsOK, herdr, ends, scan
  <2>3. ViewOK'
    <3>1. task[t].read \in 0..Now
      BY NowIsNat DEF TasksOK, Refresh
    <3> QED BY <1>8, <3>1, ListedIsRoster DEF RefreshApplies, Writes, Knows, ViewOK, track, entry
  <2>4. TasksOK'
    BY <1>8, NowIsNat DEF RefreshApplies, Idle, TasksOK, Refresh, Now, herdr
  <2>5. TrackOK'
    BY <1>8 DEF RefreshApplies, Subscribes, NoProbe, TrackOK, Ping
  <2>6. ChanOK'
    <3>1. CASE chan' = chan
      BY <3>1 DEF ChanOK
    <3>2. CASE \E new \in Chan : chan' = Replaced(new, Listed(t))
      BY <3>2, ListedIsRoster, ClosedIsChannel, NewIsChannel DEF Replaced, ChanOK
    <3> QED BY <1>8, <3>1, <3>2 DEF RefreshApplies, Subscribes
  <2> QED BY <2>1, <2>2, <2>3, <2>4, <2>5, <2>6
<1>9. ASSUME NEW c \in Chan, CloseSeen(c) PROVE TypeOK'
  <2>1. BoundsOK' /\ RosterOK' /\ ViewOK' /\ TasksOK'
    BY <1>9 DEF CloseSeen, Now, BoundsOK, RosterOK, ViewOK, TasksOK, herdr, track, entry, bounds
  <2>2. FlagsOK'
    BY <1>9 DEF CloseSeen, FlagsOK, herdr, ends, scan
  <2>3. TrackOK'
    BY <1>9 DEF CloseSeen, TrackOK
  <2>4. ChanOK'
    BY <1>9 DEF CloseSeen, NoChan, ChanOK, Channel
  <2> QED BY <2>1, <2>2, <2>3, <2>4
<1>10. ASSUME NEW c \in Chan, OnEvent(c) PROVE TypeOK'
  <2>1. FlagsOK' /\ BoundsOK' /\ RosterOK' /\ TrackOK'
    BY <1>10 DEF OnEvent, Now, FlagsOK, BoundsOK, RosterOK, TrackOK, herdr, ends, scan, track,
       history, bounds
  <2>2. ViewOK'
    <3>1. Head(chan[c].queue) \in Event
      BY <1>10 DEF OnEvent, ChanOK, Channel
    <3> QED BY <1>10, <3>1 DEF OnEvent, Event, Writes, Knows, StatusApplied, Blank, Roster,
       ViewOK, entry
  <2>3. TasksOK'
    BY <1>10 DEF OnEvent, RefreshAsks, Asked, TasksOK, Refresh, Task, TrackOK, Now, herdr
  <2>4. ChanOK'
    <3>1. chan[c] \in Channel /\ Tail(chan[c].queue) \in Seq(Event)
      BY <1>10 DEF OnEvent, ChanOK, Channel
    <3> QED BY <1>10, <3>1 DEF OnEvent, ChanOK, Channel
  <2> QED BY <2>1, <2>2, <2>3, <2>4
<1>11. CASE Rescan
  BY <1>11 DEF Rescan, Now, FlagsOK, BoundsOK, RosterOK, ViewOK, TasksOK, TrackOK, ChanOK,
     herdr, ends, scan, track, entry, history, bounds
<1>12. CASE Visit
  <2>1. FlagsOK' /\ BoundsOK' /\ RosterOK' /\ ViewOK' /\ TasksOK' /\ ChanOK'
    BY <1>12 DEF Visit, Now, FlagsOK, BoundsOK, RosterOK, ViewOK, TasksOK, ChanOK, herdr, ends,
       scan, track, entry, history, bounds
  <2>2. TrackOK'
    BY <1>12 DEF Visit, TrackOK, Ping, track
  <2> QED BY <2>1, <2>2
<1>13. CASE Attaches
  <2>1. FlagsOK' /\ BoundsOK' /\ RosterOK' /\ ViewOK' /\ ChanOK'
    BY <1>13 DEF Attaches, Now, FlagsOK, BoundsOK, RosterOK, ViewOK, ChanOK, herdr, ends, scan,
       entry, history, bounds
  <2>2. TasksOK'
    BY <1>13 DEF Attaches, Asked, TasksOK, Refresh, Task, Now, herdr
  <2>3. TrackOK'
    BY <1>13 DEF Attaches, NoProbe, TrackOK, Ping, track
  <2> QED BY <2>1, <2>2, <2>3
<1>14. CASE Resubscribes
  <2>1. FlagsOK' /\ BoundsOK' /\ RosterOK' /\ ViewOK' /\ ChanOK'
    BY <1>14 DEF Resubscribes, Now, FlagsOK, BoundsOK, RosterOK, ViewOK, ChanOK, herdr, ends,
       scan, entry, history, bounds
  <2>2. TasksOK'
    BY <1>14 DEF Resubscribes, RefreshAsks, Asked, TasksOK, Refresh, Task, TrackOK, Now, herdr
  <2>3. TrackOK'
    BY <1>14 DEF Resubscribes, NoProbe, TrackOK, Ping, track
  <2> QED BY <2>1, <2>2, <2>3
<1>15. CASE PingFails
  <2>1. BoundsOK' /\ RosterOK' /\ TasksOK' /\ ChanOK'
    BY <1>15 DEF PingFails, Now, BoundsOK, RosterOK, TasksOK, ChanOK, herdr, track, bounds
  <2>2. FlagsOK'
    BY <1>15 DEF PingFails, FlagsOK, herdr, ends, scan
  <2>3. ViewOK'
    BY <1>15 DEF PingFails, Writes, ViewOK
  <2>4. TrackOK'
    BY <1>15 DEF PingFails, NoProbe, TrackOK, Ping
  <2> QED BY <2>1, <2>2, <2>3, <2>4
<1>16. CASE BootLists
  <2>1. FlagsOK' /\ BoundsOK' /\ RosterOK' /\ ViewOK' /\ TrackOK' /\ ChanOK'
    BY <1>16 DEF BootLists, Now, FlagsOK, BoundsOK, RosterOK, ViewOK, TrackOK, ChanOK, herdr,
       ends, scan, track, entry, history, bounds
  <2>2. TasksOK'
    BY <1>16 DEF BootLists, Asked, TasksOK, Refresh, Task, TrackOK, Now, herdr
  <2> QED BY <2>1, <2>2
<1>17. CASE BootApplies
  <2>1. BoundsOK' /\ RosterOK' /\ TrackOK' /\ ChanOK'
    BY <1>17 DEF BootApplies, Now, BoundsOK, RosterOK, TrackOK, ChanOK, herdr, scan, track, bounds
  <2>2. FlagsOK'
    BY <1>17 DEF BootApplies, Stale, FlagsOK, herdr, ends
  <2>3. ViewOK'
    <3>1. Boot \in Task /\ task[Boot].read \in 0..Now
      BY NowIsNat DEF TasksOK, Refresh, Task
    <3> QED BY <1>17, <3>1, ListedIsRoster DEF BootApplies, Knows, ViewOK
  <2>4. TasksOK'
    BY <1>17 DEF BootApplies, Idle, TasksOK, Refresh, Task, Now, herdr
  <2> QED BY <2>1, <2>2, <2>3, <2>4
<1>18. CASE AddEndpoint
  BY <1>18 DEF AddEndpoint, Now, FlagsOK, BoundsOK, RosterOK, ViewOK, TasksOK, TrackOK, ChanOK,
     herdr, ends, scan, track, entry, bounds
<1>19. CASE ForgetSession
  <2>1. RosterOK' /\ TasksOK'
    BY <1>19 DEF ForgetSession, Now, RosterOK, TasksOK, herdr
  <2>2. FlagsOK'
    BY <1>19 DEF ForgetSession, ListedAfterForget, FlagsOK, herdr, ends, scan
  <2>3. BoundsOK'
    BY <1>19 DEF ForgetSession, Fault, BoundsOK
  <2>4. ViewOK'
    BY <1>19 DEF ForgetSession, ViewOK
  <2>5. TrackOK'
    BY <1>19 DEF ForgetSession, TrackOK
  <2>6. ChanOK'
    BY <1>19, ClosingKeepsType DEF ForgetSession, ChanOK
  <2> QED BY <2>1, <2>2, <2>3, <2>4, <2>5, <2>6
<1>20. CASE Stop
  <2>1. BoundsOK' /\ RosterOK' /\ ViewOK' /\ TasksOK'
    BY <1>20 DEF Stop, Now, BoundsOK, RosterOK, ViewOK, TasksOK, herdr, scan, track, entry, bounds
  <2>2. FlagsOK'
    BY <1>20 DEF Stop, FlagsOK, herdr, ends, scan, track, history
  <2>3. TrackOK'
    BY <1>20 DEF Stop, TrackOK
  <2>4. ChanOK'
    BY <1>20, ClosingKeepsType DEF Stop
  <2> QED BY <2>1, <2>2, <2>3, <2>4
<1>21. CASE UNCHANGED vars
  BY <1>21 DEF vars, Now, FlagsOK, BoundsOK, RosterOK, ViewOK, TasksOK, TrackOK, ChanOK, herdr,
     ends, scan, track, entry, history, bounds
<1> QED BY <1>1, <1>2, <1>3, <1>4, <1>5, <1>6, <1>7, <1>8, <1>9, <1>10, <1>11, <1>12, <1>13,
   <1>14, <1>15, <1>16, <1>17, <1>18, <1>19, <1>20, <1>21 DEF Next, HerdrStep

-----------------------------------------------------------------------------
(* The inductive invariant *)

\* A refresh under way is for an object (#refresh returns early without one).
Requested == \A t \in Task : task[t].stage # "idle" => task[t].obj # None
\* While a session that was not tracked is pinged, it is not tracked: only that
\* ping attaches it.
NewcomerUntracked ==
  probe.stage \in {"pinging", "answered", "failed"} /\ probe.obj = None => tracked = None
\* Before start() is done the entry is not written, nothing stops, and no
\* rescan or retirement gets between the snapshot and its answer.
Booting ==
  /\ boot # "up" => shown = Gone /\ ~stopped
  /\ task[Boot].stage # "idle" => boot = "listing"
  /\ boot = "listing" => ~due /\ probe.stage = "none" /\ tracked # None
\* stop() leaves no session tracked, and none is attached after it.
StoppedUntracked == stopped => tracked = None
\* A forgotten session of a fixed list is no endpoint, no rescan is due and no
\* ping is out that could attach it.
NothingOnItsWay ==
  fixed /\ forgotten /\ ~ghost =>
    /\ tracked = None /\ ~listed /\ ~due
    /\ ~(probe.stage \in {"pinging", "answered"} /\ probe.obj = None)
\* With the two safety invariants of run local_attach that it strengthens.
IInv ==
  TypeOK /\ Requested /\ NewcomerUntracked /\ Booting /\ StoppedUntracked /\ NothingOnItsWay
     /\ NoLeakedChannel /\ RetiredUnlessAbandoned

-----------------------------------------------------------------------------
(* Its invariance *)

\* close() ends a channel at once, and forgetSession and stop close the only one.
LEMMA ClosedFacts ==
  ASSUME TypeOK, NEW c \in Chan PROVE Closed(c).stage = "closing"
  BY DEF TypeOK, ChanOK, Channel, Closed

LEMMA AllClosed ==
  ASSUME TypeOK, NoLeakedChannel, ~abandoned, chan' = ChannelClosed, NEW c \in Chan
  PROVE  ~Holds(c, {"opening", "open", "broken"})'
  BY ClosedFacts DEF NoLeakedChannel, ChannelClosed, Holds, TypeOK, ChanOK

\* Every step keeps the invariant; under each action its undisturbed parts first.
LEMMA NextInv == IInv /\ [Next]_vars => IInv'
<1> USE LocalAssumption DEF IInv, TypeOK
<1> SUFFICES ASSUME IInv, [Next]_vars PROVE IInv'
  OBVIOUS
<1>0. TypeOK'
  BY NextType DEF IInv
<1>1. ASSUME NEW p \in Pane, NEW s \in Status \cup {Absent}, Changes(p, s) PROVE IInv'
  <2>1. Requested' /\ NewcomerUntracked' /\ Booting' /\ StoppedUntracked' /\ NothingOnItsWay'
     /\ RetiredUnlessAbandoned'
    BY <1>1 DEF Changes, Requested, NewcomerUntracked, Booting, StoppedUntracked,
       NothingOnItsWay, RetiredUnlessAbandoned, RetiredForReal, herdr, ends, scan, track, entry
  <2>2. NoLeakedChannel'
    BY <1>1 DEF Changes, Delivered, NoLeakedChannel, Current, Holds, track
  <2> QED BY <1>0, <2>1, <2>2
<1>2. CASE Stops
  <2>1. StoppedUntracked' /\ RetiredUnlessAbandoned'
    BY <1>2 DEF Stops, StoppedUntracked, RetiredUnlessAbandoned, RetiredForReal, scan, track,
       entry
  <2>2. Requested'
    BY <1>2 DEF Stops, Requested
  <2>3. NewcomerUntracked'
    BY <1>2 DEF Stops, NewcomerUntracked, herdr, ends, track
  <2>4. Booting'
    BY <1>2 DEF Stops, Booting, Task, scan, track, entry
  <2>5. NothingOnItsWay'
    BY <1>2 DEF Stops, NothingOnItsWay, ends, scan, track
  <2>6. NoLeakedChannel'
    BY <1>2 DEF Stops, Holds, NoLeakedChannel, Current, herdr, ends, track
  <2> QED BY <1>0, <2>1, <2>2, <2>3, <2>4, <2>5, <2>6
<1>3. CASE Starts
  <2>1. Requested' /\ NewcomerUntracked' /\ Booting' /\ StoppedUntracked' /\ NoLeakedChannel'
     /\ RetiredUnlessAbandoned'
    BY <1>3 DEF Starts, Requested, NewcomerUntracked, Booting, StoppedUntracked,
       NoLeakedChannel, RetiredUnlessAbandoned, RetiredForReal, Current, Holds, herdr, ends,
       scan, track, entry, history
  <2>2. NothingOnItsWay'
    BY <1>3 DEF Starts, NothingOnItsWay, scan, track, history
  <2> QED BY <1>0, <2>1, <2>2
<1>4. CASE PingReturns
  <2>1. Requested' /\ StoppedUntracked' /\ NoLeakedChannel' /\ RetiredUnlessAbandoned'
    BY <1>4 DEF PingReturns, Requested, StoppedUntracked, NoLeakedChannel,
       RetiredUnlessAbandoned, RetiredForReal, Current, Holds, scan, track, entry, history
  <2>2. NewcomerUntracked'
    BY <1>4 DEF PingReturns, NewcomerUntracked, TrackOK, Ping, track
  <2>3. Booting'
    BY <1>4 DEF PingReturns, Booting, scan, entry
  <2>4. NothingOnItsWay'
    BY <1>4 DEF PingReturns, NothingOnItsWay, TrackOK, Ping, ends, scan, track, history
  <2> QED BY <1>0, <2>1, <2>2, <2>3, <2>4
<1>5. ASSUME NEW t \in Task, ListReturns(t) PROVE IInv'
  <2>1. NewcomerUntracked' /\ StoppedUntracked' /\ NothingOnItsWay' /\ NoLeakedChannel'
     /\ RetiredUnlessAbandoned'
    BY <1>5 DEF ListReturns, NewcomerUntracked, StoppedUntracked, NothingOnItsWay,
       NoLeakedChannel, RetiredUnlessAbandoned, RetiredForReal, Current, Holds, ends, scan,
       track, entry, history
  <2>2. Requested'
    BY <1>5 DEF ListReturns, Requested, TasksOK, Refresh
  <2>3. Booting'
    BY <1>5 DEF ListReturns, Booting, TasksOK, Task, scan, track, entry
  <2> QED BY <1>0, <2>1, <2>2, <2>3
<1>6. ASSUME NEW c \in Chan, Accepts(c) PROVE IInv'
  <2>1. Requested' /\ NewcomerUntracked' /\ Booting' /\ StoppedUntracked' /\ NothingOnItsWay'
     /\ RetiredUnlessAbandoned'
    BY <1>6 DEF Accepts, Requested, NewcomerUntracked, Booting, StoppedUntracked,
       NothingOnItsWay, RetiredUnlessAbandoned, RetiredForReal, ends, scan, track, entry, history
  <2>2. NoLeakedChannel'
    BY <1>6 DEF Accepts, NoLeakedChannel, Current, Holds, track, history
  <2> QED BY <1>0, <2>1, <2>2
<1>7. ASSUME NEW c \in Chan, Breaks(c) PROVE IInv'
  <2>1. Requested' /\ NewcomerUntracked' /\ Booting' /\ StoppedUntracked' /\ NothingOnItsWay'
     /\ RetiredUnlessAbandoned'
    BY <1>7 DEF Breaks, Requested, NewcomerUntracked, Booting, StoppedUntracked,
       NothingOnItsWay, RetiredUnlessAbandoned, RetiredForReal, ends, scan, track, entry, history
  <2>2. NoLeakedChannel'
    BY <1>7 DEF Breaks, Holds, NoLeakedChannel, Current, track, history
  <2> QED BY <1>0, <2>1, <2>2
<1>8. ASSUME NEW t \in Task, RefreshApplies(t) PROVE IInv'
  <2>1. StoppedUntracked'
    BY <1>8 DEF RefreshApplies, StoppedUntracked, scan
  <2>2. Requested'
    BY <1>8 DEF RefreshApplies, Idle, Requested, TasksOK
  <2>3. NewcomerUntracked'
    BY <1>8 DEF RefreshApplies, NoProbe, NewcomerUntracked
  <2>4. Booting'
    BY <1>8 DEF RefreshApplies, NoProbe, Writes, Booting, TasksOK, Task, scan, track, entry
  <2>5. NothingOnItsWay'
    BY <1>8 DEF RefreshApplies, NoProbe, NothingOnItsWay, ends, scan
  <2>6. NoLeakedChannel'
    <3>1. CASE UNCHANGED <<chan, events>>
      BY <1>8, <3>1 DEF RefreshApplies, NoLeakedChannel, Current, Holds
    <3>2. ASSUME NEW new \in Chan, chan' = Replaced(new, Listed(t)),
                 events' = [events EXCEPT ![tracked] = new], tracked # None
          PROVE  NoLeakedChannel'
      <4>1. Current' = new
        BY <1>8, <3>2 DEF RefreshApplies, Current, TrackOK
      <4>2. \A c \in Chan \ {new} : Holds(c, {"opening", "open", "broken"})' =>
                                       c # Current /\ Holds(c, {"opening", "open", "broken"})
        BY <3>2, ClosedFacts DEF Replaced, Holds, ChanOK
      <4> QED BY <1>8, <4>1, <4>2 DEF RefreshApplies, NoLeakedChannel
    <3> QED BY <1>8, <3>1, <3>2 DEF RefreshApplies, StillTracked, Subscribes, Requested
  <2>7. RetiredUnlessAbandoned'
    BY <1>8 DEF RefreshApplies, StillTracked, RetiredUnlessAbandoned, RetiredForReal, Requested,
       scan, track, entry
  <2> QED BY <1>0, <2>1, <2>2, <2>3, <2>4, <2>5, <2>6, <2>7
<1>9. ASSUME NEW c \in Chan, CloseSeen(c) PROVE IInv'
  <2>1. Requested' /\ NewcomerUntracked' /\ Booting' /\ StoppedUntracked' /\ NothingOnItsWay'
     /\ RetiredUnlessAbandoned'
    BY <1>9 DEF CloseSeen, Requested, NewcomerUntracked, Booting, StoppedUntracked,
       NothingOnItsWay, RetiredUnlessAbandoned, RetiredForReal, ends, scan, track, entry
  <2>2. NoLeakedChannel'
    BY <1>9 DEF CloseSeen, Holds, NoChan, IsOwn, NoLeakedChannel, Current, ChanOK
  <2> QED BY <1>0, <2>1, <2>2
<1>10. ASSUME NEW c \in Chan, OnEvent(c) PROVE IInv'
  <2>1. NewcomerUntracked' /\ StoppedUntracked' /\ NothingOnItsWay'
    BY <1>10 DEF OnEvent, NewcomerUntracked, StoppedUntracked, NothingOnItsWay, ends, scan,
       track, history
  <2>2. Requested'
    BY <1>10 DEF OnEvent, RefreshAsks, Asked, Requested, TasksOK
  <2>3. Booting'
    BY <1>10 DEF OnEvent, RefreshAsks, Writes, Booting, TasksOK, Task, scan, track, entry
  <2>4. NoLeakedChannel'
    BY <1>10 DEF OnEvent, Holds, NoLeakedChannel, Current, track, history
  <2>5. RetiredUnlessAbandoned'
    BY <1>10 DEF OnEvent, Holds, RetiredUnlessAbandoned, RetiredForReal, NoLeakedChannel,
       Current, track, history
  <2> QED BY <1>0, <2>1, <2>2, <2>3, <2>4, <2>5
<1>11. CASE Rescan
  <2>1. Requested' /\ NewcomerUntracked' /\ StoppedUntracked' /\ NoLeakedChannel'
     /\ RetiredUnlessAbandoned'
    BY <1>11 DEF Rescan, Requested, NewcomerUntracked, StoppedUntracked, NoLeakedChannel,
       RetiredUnlessAbandoned, RetiredForReal, Current, Holds, track, entry, history
  <2>2. Booting'
    BY <1>11 DEF Rescan, Booting
  <2>3. NothingOnItsWay'
    BY <1>11 DEF Rescan, NothingOnItsWay, ends, scan, track, history
  <2> QED BY <1>0, <2>1, <2>2, <2>3
<1>12. CASE Visit
  <2>1. Requested' /\ StoppedUntracked' /\ NoLeakedChannel' /\ RetiredUnlessAbandoned'
    BY <1>12 DEF Visit, Requested, StoppedUntracked, NoLeakedChannel, RetiredUnlessAbandoned,
       RetiredForReal, Current, Holds, track, entry, history
  <2>2. NewcomerUntracked'
    BY <1>12 DEF Visit, NewcomerUntracked, track
  <2>3. Booting'
    BY <1>12 DEF Visit, Booting, entry
  <2>4. NothingOnItsWay'
    BY <1>12 DEF Visit, NothingOnItsWay, ends, history
  <2> QED BY <1>0, <2>1, <2>2, <2>3, <2>4
<1>13. CASE Attaches
  <2>1. Requested'
    BY <1>13 DEF Attaches, Asked, Requested, TasksOK
  <2>2. NewcomerUntracked'
    BY <1>13 DEF Attaches, NoProbe, NewcomerUntracked, TrackOK, Ping
  <2>3. Booting'
    BY <1>13 DEF Attaches, Booting, TasksOK, Task, Probe, Boot, scan, entry
  <2>4. StoppedUntracked'
    BY <1>13 DEF Attaches, StoppedUntracked, scan, track
  <2>5. NothingOnItsWay'
    BY <1>13 DEF Attaches, NothingOnItsWay, ends, history
  <2>6. NoLeakedChannel'
    BY <1>13 DEF Attaches, NoLeakedChannel, Current, Holds, NewcomerUntracked, history
  <2>7. RetiredUnlessAbandoned'
    BY <1>13 DEF Attaches, RetiredUnlessAbandoned, RetiredForReal, scan
  <2> QED BY <1>0, <2>1, <2>2, <2>3, <2>4, <2>5, <2>6, <2>7
<1>14. CASE Resubscribes
  <2>1. StoppedUntracked' /\ NoLeakedChannel' /\ RetiredUnlessAbandoned'
    BY <1>14 DEF Resubscribes, StoppedUntracked, NoLeakedChannel, RetiredUnlessAbandoned,
       RetiredForReal, Current, Holds, scan, track, entry, history
  <2>2. Requested'
    BY <1>14 DEF Resubscribes, RefreshAsks, Asked, Requested, TasksOK
  <2>3. NewcomerUntracked'
    BY <1>14 DEF Resubscribes, NoProbe, NewcomerUntracked
  <2>4. Booting'
    BY <1>14 DEF Resubscribes, RefreshAsks, Booting, TasksOK, Task, Probe, Boot, scan, entry
  <2>5. NothingOnItsWay'
    BY <1>14 DEF Resubscribes, NoProbe, NothingOnItsWay, ends, scan, track, history
  <2> QED BY <1>0, <2>1, <2>2, <2>3, <2>4, <2>5
<1>15. CASE PingFails
  <2>1. Requested'
    BY <1>15 DEF PingFails, Requested
  <2>2. NewcomerUntracked'
    BY <1>15 DEF PingFails, NoProbe, NewcomerUntracked
  <2>3. Booting'
    BY <1>15 DEF PingFails, Writes, Booting, scan
  <2>4. StoppedUntracked'
    BY <1>15 DEF PingFails, StoppedUntracked, scan
  <2>5. NothingOnItsWay'
    BY <1>15 DEF PingFails, NoProbe, NothingOnItsWay, ends, scan
  <2>6. NoLeakedChannel'
    BY <1>15 DEF PingFails, NoLeakedChannel, Current, Holds
  <2>7. RetiredUnlessAbandoned'
    BY <1>15 DEF PingFails, Writes, RetiredUnlessAbandoned, RetiredForReal, Booting, scan
  <2> QED BY <1>0, <2>1, <2>2, <2>3, <2>4, <2>5, <2>6, <2>7
<1>16. CASE BootLists
  <2>1. NewcomerUntracked' /\ StoppedUntracked' /\ NothingOnItsWay' /\ NoLeakedChannel'
     /\ RetiredUnlessAbandoned'
    BY <1>16 DEF BootLists, NewcomerUntracked, StoppedUntracked, NothingOnItsWay,
       NoLeakedChannel, RetiredUnlessAbandoned, RetiredForReal, Current, Holds, ends, scan,
       track, entry, history
  <2>2. Requested'
    BY <1>16 DEF BootLists, Asked, Requested, TasksOK
  <2>3. Booting'
    BY <1>16 DEF BootLists, Booting, scan, track, entry
  <2> QED BY <1>0, <2>1, <2>2, <2>3
<1>17. CASE BootApplies
  <2>1. NewcomerUntracked' /\ StoppedUntracked' /\ NothingOnItsWay' /\ NoLeakedChannel'
    BY <1>17 DEF BootApplies, NewcomerUntracked, StoppedUntracked, NothingOnItsWay,
       NoLeakedChannel, Current, Holds, ends, track
  <2>2. Requested'
    BY <1>17 DEF BootApplies, Idle, Requested
  <2>3. Booting'
    BY <1>17 DEF BootApplies, Idle, Booting, TasksOK, Task
  <2>4. RetiredUnlessAbandoned'
    BY <1>17 DEF BootApplies, RetiredUnlessAbandoned, RetiredForReal, Booting, track
  <2> QED BY <1>0, <2>1, <2>2, <2>3, <2>4
<1>18. CASE AddEndpoint
  <2>1. Requested' /\ NewcomerUntracked' /\ StoppedUntracked' /\ NoLeakedChannel'
     /\ RetiredUnlessAbandoned'
    BY <1>18 DEF AddEndpoint, Requested, NewcomerUntracked, StoppedUntracked, NoLeakedChannel,
       RetiredUnlessAbandoned, RetiredForReal, Current, Holds, scan, track, entry
  <2>2. Booting'
    BY <1>18 DEF AddEndpoint, Serving, Booting
  <2>3. NothingOnItsWay'
    BY <1>18 DEF AddEndpoint, NothingOnItsWay
  <2> QED BY <1>0, <2>1, <2>2, <2>3
<1>19. CASE ForgetSession
  <2>1. Requested'
    BY <1>19 DEF ForgetSession, Requested
  <2>2. NewcomerUntracked'
    BY <1>19 DEF ForgetSession, NewcomerUntracked
  <2>3. Booting'
    BY <1>19 DEF ForgetSession, Serving, Booting, ends, scan
  <2>4. StoppedUntracked'
    BY <1>19 DEF ForgetSession, StoppedUntracked
  <2>5. NothingOnItsWay'
    BY <1>19 DEF ForgetSession, ListedAfterForget, NothingOnItsWay, ends, scan
  <2>6. NoLeakedChannel'
    <3>1. CASE tracked = None
      BY <1>19, <3>1 DEF ForgetSession, NoLeakedChannel, Current, Holds
    <3>2. CASE tracked # None
      BY <1>19, <3>2, AllClosed DEF ForgetSession, NoLeakedChannel
    <3> QED BY <3>1, <3>2
  <2>7. RetiredUnlessAbandoned'
    BY <1>19 DEF ForgetSession, Serving, RetiredUnlessAbandoned, RetiredForReal
  <2> QED BY <1>0, <2>1, <2>2, <2>3, <2>4, <2>5, <2>6, <2>7
<1>20. CASE Stop
  <2>1. Requested'
    BY <1>20 DEF Stop, Requested
  <2>2. NewcomerUntracked'
    BY <1>20 DEF Stop, NewcomerUntracked
  <2>3. Booting'
    BY <1>20 DEF Stop, Serving, Booting
  <2>4. StoppedUntracked'
    BY <1>20 DEF Stop, StoppedUntracked
  <2>5. NothingOnItsWay'
    BY <1>20 DEF Stop, NothingOnItsWay, ends, scan, track, history
  <2>6. NoLeakedChannel'
    BY <1>20, AllClosed DEF Stop, NoLeakedChannel, history
  <2>7. RetiredUnlessAbandoned'
    BY <1>20 DEF Stop, RetiredUnlessAbandoned, RetiredForReal
  <2> QED BY <1>0, <2>1, <2>2, <2>3, <2>4, <2>5, <2>6, <2>7
<1>21. CASE UNCHANGED vars
  BY <1>0, <1>21 DEF vars, Requested, NewcomerUntracked, Booting, StoppedUntracked, NothingOnItsWay,
     NoLeakedChannel, RetiredUnlessAbandoned, RetiredForReal, Current, Holds, ends, scan, track,
     entry, history
<1> QED BY <1>1, <1>2, <1>3, <1>4, <1>5, <1>6, <1>7, <1>8, <1>9, <1>10, <1>11, <1>12, <1>13,
   <1>14, <1>15, <1>16, <1>17, <1>18, <1>19, <1>20, <1>21 DEF Next, HerdrStep

\* A LocalHerdr that was just made has no session, channel or refresh.
LEMMA InitInv == Init => IInv
<1> SUFFICES ASSUME Init PROVE IInv
  OBVIOUS
<1> USE LocalAssumption
<1>1. Boot \in Task /\ Probe \in Task
  BY DEF Task
<1>2. rosters \in Seq(Roster) /\ Now = 1
  BY DEF Init, Now
<1>3. FlagsOK
  BY DEF Init, FlagsOK
<1>11. BoundsOK
  BY DEF Init, BoundsOK
<1>4. ViewOK /\ RosterOK
  BY <1>2 DEF Init, ViewOK, RosterOK
<1>5. TasksOK
  BY <1>2 DEF Init, TasksOK, Refresh, Idle
<1>6. TrackOK
  BY DEF Init, TrackOK, Ping, NoProbe
<1>7. ChanOK
  <2>1. NoChan \in Channel
    BY DEF NoChan, Channel
  <2> QED BY <2>1 DEF Init, ChanOK
<1>8. Requested /\ NewcomerUntracked /\ Booting
  BY <1>1 DEF Init, Requested, NewcomerUntracked, Booting, Idle
<1>9. StoppedUntracked /\ NothingOnItsWay /\ RetiredUnlessAbandoned
  BY DEF Init, StoppedUntracked, NothingOnItsWay, RetiredUnlessAbandoned, RetiredForReal, NoProbe
<1>10. NoLeakedChannel
  BY DEF Init, NoLeakedChannel, Holds, NoChan
<1> QED BY <1>3, <1>11, <1>4, <1>5, <1>6, <1>7, <1>8, <1>9, <1>10 DEF IInv, TypeOK

\* The invariant holds throughout.
LEMMA Invariance == Spec => []IInv
BY InitInv, NextInv, PTL DEF Spec

-----------------------------------------------------------------------------
(* Theorems *)

\* Every variable keeps its type: what refreshes, probes and channels of
\* local-attach.ts refer to are objects, channels and rosters that exist.
THEOREM SessionTypeCorrect == Spec => []TypeOK
<1>1. IInv => TypeOK
  BY DEF IInv
<1> QED BY <1>1, Invariance, PTL

\* Every socket that is open to herdr is the channel of the session tracked now,
\* unless one was retired while its channel was open (#rescan, #refresh).
THEOREM NoChannelLeaks == Spec => []NoLeakedChannel
<1>1. IInv => NoLeakedChannel
  BY DEF IInv
<1> QED BY <1>1, Invariance, PTL

\* The registry lists no retired or forgotten session: no late answer to
\* agent.list and no late event brings it back, with the same exception.
THEOREM RetiredStaysRetired == Spec => []RetiredUnlessAbandoned
<1>1. IInv => RetiredUnlessAbandoned
  BY DEF IInv
<1> QED BY <1>1, Invariance, PTL

\* forgetSession of a fixed list of endpoints is final, unless a rescan was on
\* its way to the session.
THEOREM ForgottenForGood == Spec => []ForgottenStaysForgotten
<1>1. IInv => ForgottenStaysForgotten
  BY DEF IInv, NothingOnItsWay, ForgottenStaysForgotten
<1> QED BY <1>1, Invariance, PTL

\* All writes into the registry are for a tracked session.
LEMMA WriteNeedsTracking ==
  ASSUME IInv, [Next]_vars, stopped, ~abandoned PROVE shown' = shown
<1> USE DEF IInv
<1>1. tracked = None /\ Current = None /\ boot = "up" /\ task[Boot].stage = "idle"
  BY DEF StoppedUntracked, Current, Booting, TypeOK, FlagsOK, TasksOK, Refresh, Task
<1>2. ASSUME NEW t \in Task, RefreshApplies(t) PROVE shown' = shown
  BY <1>2 DEF RefreshApplies, StillTracked, entry
<1>3. ASSUME NEW c \in Chan, OnEvent(c) PROVE shown' = shown
  BY <1>1, <1>3, LocalAssumption DEF OnEvent, NoLeakedChannel, Holds
<1>4. CASE PingFails
  BY <1>4 DEF PingFails, MayRetire
<1>5. CASE BootApplies
  BY <1>1, <1>5 DEF BootApplies
<1>6. CASE HerdrStep
  BY <1>6 DEF HerdrStep, Changes, Stops, Starts, PingReturns, ListReturns, Accepts, Breaks, entry
<1>7. ASSUME NEW c \in Chan, CloseSeen(c) PROVE shown' = shown
  BY <1>7 DEF CloseSeen, entry
<1>8. CASE Rescan \/ Visit \/ Attaches \/ Resubscribes \/ BootLists
  BY <1>8 DEF Rescan, Visit, Attaches, Resubscribes, BootLists, entry
<1>9. CASE AddEndpoint \/ ForgetSession \/ Stop
  BY <1>9 DEF AddEndpoint, ForgetSession, Stop, Serving
<1> QED BY <1>2, <1>3, <1>4, <1>5, <1>6, <1>7, <1>8, <1>9 DEF Next, vars, entry

\* stop() is the last thing the registry sees of a LocalHerdr.
THEOREM SilentWhenStopped == Spec => SilentAfterStop
<1>1. IInv /\ [Next]_vars => [stopped /\ ~abandoned => shown' = shown]_vars
  BY WriteNeedsTracking
<1> QED BY <1>1, Invariance, PTL DEF Spec, SilentAfterStop
-----------------------------------------------------------------------------
(***************************************************************************)
(* The registry shows herdr's roster (RosterCurrent).                      *)
(*                                                                         *)
(* A second inductive invariant follows what is under way: an answer about *)
(* to be applied differs from herdr's roster only where the session's      *)
(* channel still holds an event, or where a refresh asked later will tell; *)
(* and an entry with no refresh under way only where the channel holds an  *)
(* event, the last of which for a pane is herdr's word on it.              *)
(***************************************************************************)

\* The events of the session's channel.
Queue == IF Current = None THEN <<>> ELSE chan[Current].queue
RosterNews == \E i \in DOMAIN Queue : Queue[i].kind = "roster"
NewsOf(p) == \E i \in DOMAIN Queue : Queue[i].kind = "status" /\ Queue[i].pane = p
\* Refresh t is under way, and is still about the session.
Pending(t) == task[t].stage # "idle" /\ task[t].obj = tracked
\* Nothing was missed, and the channel misses nothing.
Sound     == drift = {} /\ ~abandoned
Following == Sound /\ Current # None /\ Holds(Current, {"opening", "open"})

\* A channel delivers the statuses of its own panes.
StatusInKey ==
  \A c \in Chan : \A i \in DOMAIN chan[c].queue :
    chan[c].queue[i].kind = "status" => chan[c].queue[i].pane \in chan[c].key
\* A refresh that waits for its answer has not read a roster.
AskedUnread == \A t \in Task : task[t].stage = "asked" => task[t].read = 0
\* start() lists the session that is tracked.
BootIsTracked == task[Boot].stage # "idle" => task[Boot].obj = tracked
\* The last event, if it is about a pane, has its status; and the one before, if
\* that is about another pane; and so on.
LastNewsIsNow ==
  Following => \A i \in DOMAIN Queue :
    /\ Queue[i].kind = "status"
    /\ \A j \in DOMAIN Queue : j > i => Queue[j].kind = "status" /\ Queue[j].pane # Queue[i].pane
    => Queue[i].status = rosters[Now][Queue[i].pane]
\* An event about a pane is followed by news of its end, or it did not end.
NewsIsPresent ==
  Following => \A i \in DOMAIN Queue :
    (\A j \in DOMAIN Queue : j >= i => Queue[j].kind = "status") => rosters[Now][Queue[i].pane] # Absent
\* A channel no refresh is about to replace is for herdr's panes.
KeyIsNow ==
  Following /\ ~RosterNews /\ (\A t \in Task \ {Boot} : ~Pending(t)) =>
    chan[Current].key = PaneKey(rosters[Now])
\* An entry no refresh is about to write is herdr's roster, but for the news.
EntryIsNow ==
  Following /\ ~RosterNews /\ boot = "up" /\ (\A t \in Task : ~Pending(t)) =>
    shown # Gone /\ \A p \in Pane : ~NewsOf(p) => shown[p] = rosters[Now][p]
\* An answer is herdr's roster, but for news that is newer, or a newer refresh.
NewerNews(v, p) ==
  \E i \in DOMAIN Queue : Queue[i].at > v /\ (Queue[i].kind = "status" => Queue[i].pane = p)
NewerRefresh(t) ==
  \E u \in Task \ {Boot, t} : Pending(u) /\ (task[u].read = 0 \/ task[u].read > task[t].read)
Applicable(t) ==
  /\ task[t].stage = "answered" /\ task[t].obj = tracked
  /\ task[t].read # 0 /\ task[t].read >= seen
AnswerIsNow ==
  \A t \in Task : Sound /\ Applicable(t) /\ ~NewerRefresh(t) =>
    \A p \in Pane : rosters[task[t].read][p] = rosters[Now][p] \/ NewerNews(task[t].read, p)

RInv ==
  /\ StatusInKey /\ AskedUnread /\ BootIsTracked
  /\ LastNewsIsNow /\ NewsIsPresent /\ KeyIsNow /\ EntryIsNow /\ AnswerIsNow
-----------------------------------------------------------------------------
(* Queues *)

LEMMA AppendAt ==
  ASSUME NEW S, NEW q \in Seq(S), NEW e \in S
  PROVE  /\ DOMAIN Append(q, e) = DOMAIN q \cup {Len(q) + 1}
         /\ \A i \in DOMAIN q : Append(q, e)[i] = q[i] /\ i < Len(q) + 1
         /\ Append(q, e)[Len(q) + 1] = e
<1>1. DOMAIN q = 1..Len(q) /\ Len(q) \in Nat /\ DOMAIN Append(q, e) = 1..(Len(q) + 1)
  OBVIOUS
<1>2. 1..(Len(q) + 1) = 1..Len(q) \cup {Len(q) + 1}
  BY <1>1
<1>3. \A i \in 1..Len(q) : Append(q, e)[i] = q[i] /\ i < Len(q) + 1
  BY <1>1
<1>4. Append(q, e)[Len(q) + 1] = e
  OBVIOUS
<1> QED BY <1>1, <1>2, <1>3, <1>4

LEMMA TailAt ==
  ASSUME NEW S, NEW q \in Seq(S), q # <<>>
  PROVE  /\ \A i \in DOMAIN Tail(q) : i \in Nat /\ i + 1 \in DOMAIN q /\ Tail(q)[i] = q[i + 1]
         /\ \A i \in DOMAIN q : i = 1 \/ (i - 1 \in DOMAIN Tail(q) /\ q[i] = Tail(q)[i - 1] /\ i \in Nat)
         /\ 1 \in DOMAIN q /\ Head(q) = q[1]
<1>1. DOMAIN q = 1..Len(q) /\ Len(q) \in Nat /\ Len(q) > 0
  OBVIOUS
<1>2. DOMAIN Tail(q) = 1..(Len(q) - 1) /\ \A i \in 1..(Len(q) - 1) : Tail(q)[i] = q[i + 1]
  OBVIOUS
<1> QED BY <1>1, <1>2

LEMMA QueueType ==
  ASSUME TypeOK
  PROVE  /\ Queue \in Seq(Event)
         /\ Current # None => Current \in Chan /\ Queue = chan[Current].queue
<1>1. Current # None => Current \in Chan
  BY DEF Current, TypeOK, TrackOK
<1> QED BY <1>1 DEF Queue, TypeOK, ChanOK, Channel

LEMMA QueueEvents ==
  ASSUME TypeOK, NEW i \in DOMAIN Queue
  PROVE  /\ Queue[i].kind \in {"status", "roster"} /\ Queue[i].at \in Nat
         /\ Queue[i].kind = "status" => Queue[i].pane \in Pane /\ Queue[i].status \in Status
<1>1. Queue[i] \in Event
  BY QueueType
<1> QED BY <1>1 DEF Event

\* What a change of herdr does to a channel.
LEMMA DeliveredFacts ==
  ASSUME TypeOK, NEW e \in Event, NEW c \in Chan
  PROVE  /\ Delivered(e)[c].stage = chan[c].stage /\ Delivered(e)[c].key = chan[c].key
         /\ Delivered(e)[c].queue =
              IF chan[c].stage = "open" /\ (e.kind = "status" => e.pane \in chan[c].key)
              THEN Append(chan[c].queue, e) ELSE chan[c].queue
BY DEF Delivered, TypeOK, ChanOK, Channel
-----------------------------------------------------------------------------
(* Steps that leave the roster, the channel and the entry *)

LEMMA SameView ==
  ASSUME TypeOK, RInv, Sound' => Sound,
         UNCHANGED <<rosters, tracked, events, task, chan, shown, seen, boot>>
  PROVE  RInv'
<1>1. Current' = Current /\ Queue' = Queue /\ Now' = Now
  BY DEF Current, Queue, Now
<1>2. StatusInKey' /\ AskedUnread' /\ BootIsTracked'
  BY DEF RInv, StatusInKey, AskedUnread, BootIsTracked
<1>3. LastNewsIsNow' /\ NewsIsPresent' /\ KeyIsNow' /\ EntryIsNow'
  BY <1>1 DEF RInv, LastNewsIsNow, NewsIsPresent, KeyIsNow, EntryIsNow, Following, RosterNews, NewsOf, Pending, Holds
<1>4. AnswerIsNow'
  BY <1>1 DEF RInv, AnswerIsNow, NewerNews, NewerRefresh, Applicable, Pending
<1> QED BY <1>2, <1>3, <1>4 DEF RInv

\* The session is not tracked any more: nothing is claimed about it.
LEMMA Untracked ==
  ASSUME IInv, IInv', RInv, StatusInKey', AskedUnread', tracked' = None, task[Boot].stage = "idle",
         task' = task \/ \E t \in Task : task' = [task EXCEPT ![t] = Idle]
  PROVE  RInv'
<1>1. Current' = None
  BY DEF Current
<1>2. \A t \in Task : ~Applicable(t)'
  BY LocalAssumption DEF IInv, Requested, Applicable
<1>3. BootIsTracked'
  BY DEF BootIsTracked, Idle, IInv, TypeOK, TasksOK, Task
<1> QED BY <1>1, <1>2, <1>3 DEF RInv, LastNewsIsNow, NewsIsPresent, KeyIsNow, EntryIsNow, AnswerIsNow, Following
-----------------------------------------------------------------------------
(* Herdr's roster changes *)

LEMMA ChangesKeeps ==
  ASSUME IInv, IInv', RInv, NEW p \in Pane, NEW s \in Status \cup {Absent}, Changes(p, s)
  PROVE  RInv'
<1> DEFINE old == rosters[Now]
           new == [old EXCEPT ![p] = s]
           kind == IF Absent \in {s, old[p]} THEN "roster" ELSE "status"
           e == IF kind = "status" THEN [kind |-> kind, pane |-> p, status |-> s, at |-> Now + 1]
                ELSE [kind |-> kind, at |-> Now + 1]
<1>1. /\ old \in Roster /\ new \in Roster /\ Now \in Nat /\ old[p] # s
      /\ new[p] = s /\ \A q \in Pane : q # p => new[q] = old[q]
  BY NowIsNat DEF Changes, IInv, Roster
<1>2. Now' = Now + 1 /\ rosters'[Now'] = new /\ \A v \in 1..Now : rosters'[v] = rosters[v]
  BY <1>1 DEF Changes, Now, IInv, TypeOK, RosterOK
<1>3. /\ e \in Event /\ e.kind = kind /\ e.at = Now + 1
      /\ kind = "status" => e.pane = p /\ e.status = s
  BY <1>1 DEF Event, Roster
<1>4. /\ chan' = Delivered(e)
      /\ drift' = IF Unheard(kind, p) THEN drift \cup {"missed"} ELSE drift
      /\ UNCHANGED <<tracked, events, task, shown, seen, boot, abandoned>>
  BY DEF Changes, track, entry, scan
<1>5. kind = "status" => PaneKey(new) = PaneKey(old) /\ p \in PaneKey(old)
  BY <1>1 DEF PaneKey
<1>13. kind \in {"status", "roster"}
  OBVIOUS
<1> HIDE DEF e, kind, new, old
<1>6. Current' = Current /\ (Sound' => Sound /\ ~Unheard(kind, p))
  BY <1>4 DEF Current, Sound
<1>7. Current # None =>
        /\ Current \in Chan /\ chan'[Current].stage = chan[Current].stage
        /\ chan'[Current].key = chan[Current].key
        /\ Queue' = IF Heard(kind, p) THEN Append(Queue, e) ELSE Queue
  BY <1>3, <1>4, <1>6, DeliveredFacts, QueueType DEF IInv, Queue, Heard
<1>8. Current = None => Queue' = Queue
  BY <1>6 DEF Queue
<1>9. Queue \in Seq(Event)
  BY QueueType DEF IInv
<1>10. Heard(kind, p) => Current # None
  BY DEF Heard
<1>11. /\ DOMAIN Queue' = IF Heard(kind, p) THEN DOMAIN Queue \cup {Len(Queue) + 1} ELSE DOMAIN Queue
       /\ \A i \in DOMAIN Queue : Queue'[i] = Queue[i] /\ (Heard(kind, p) => i < Len(Queue) + 1)
       /\ Heard(kind, p) => Queue'[Len(Queue) + 1] = e
  <2>1. CASE Heard(kind, p)
    <3>1. Queue' = Append(Queue, e)
      BY <1>7, <1>10, <2>1
    <3> QED BY <1>3, <1>9, <2>1, <3>1, AppendAt
  <2>2. CASE ~Heard(kind, p)
    BY <1>7, <1>8, <2>2
  <2> QED BY <2>1, <2>2
<1>12. /\ Following' => Following /\ ~Unheard(kind, p)
       /\ RosterNews => RosterNews'
       /\ \A q \in Pane : NewsOf(q) => NewsOf(q)'
       /\ Heard(kind, p) => NewsOf(p)' \/ RosterNews'
       /\ \A t \in Task : Pending(t)' <=> Pending(t)
  <2>1. Following' => Following /\ ~Unheard(kind, p)
    BY <1>6, <1>7 DEF Following, Holds
  <2>2. RosterNews => RosterNews'
    BY <1>11 DEF RosterNews
  <2>3. ASSUME NEW q \in Pane, NewsOf(q) PROVE NewsOf(q)'
    BY <1>11, <2>3 DEF NewsOf
  <2>4. Heard(kind, p) => NewsOf(p)' \/ RosterNews'
    BY <1>3, <1>11, <1>13 DEF NewsOf, RosterNews
  <2> QED BY <1>4, <2>1, <2>2, <2>3, <2>4 DEF Pending
\* Followed and not missed: it is heard, or about a pane the channel is not for.
<1>14. ASSUME Following'
       PROVE  Heard(kind, p) \/ (kind = "status" /\ p \notin chan[Current].key)
  <2>1. Current # None /\ chan[Current].stage = "open"
    BY <1>12, <1>14 DEF Following, Holds, Unheard, Heard
  <2> QED BY <1>13, <2>1 DEF Heard
<1>15. StatusInKey'
  <2> SUFFICES ASSUME NEW c \in Chan, NEW i \in DOMAIN chan'[c].queue, chan'[c].queue[i].kind = "status"
               PROVE  chan'[c].queue[i].pane \in chan'[c].key
    BY DEF StatusInKey
  <2>1. chan[c].queue \in Seq(Event)
    BY DEF IInv, TypeOK, ChanOK, Channel
  <2>2. CASE chan[c].stage = "open" /\ (e.kind = "status" => e.pane \in chan[c].key)
    <3>1. chan'[c].queue = Append(chan[c].queue, e) /\ chan'[c].key = chan[c].key
      BY <1>3, <1>4, <2>2, DeliveredFacts DEF IInv
    <3>2. \/ i \in DOMAIN chan[c].queue /\ chan'[c].queue[i] = chan[c].queue[i]
          \/ chan'[c].queue[i] = e
      BY <1>3, <2>1, <3>1, AppendAt
    <3> QED BY <2>2, <3>1, <3>2 DEF RInv, StatusInKey
  <2>3. CASE ~(chan[c].stage = "open" /\ (e.kind = "status" => e.pane \in chan[c].key))
    <3>1. chan'[c].queue = chan[c].queue /\ chan'[c].key = chan[c].key
      BY <1>3, <1>4, <2>3, DeliveredFacts DEF IInv
    <3> QED BY <3>1 DEF RInv, StatusInKey
  <2> QED BY <2>2, <2>3
<1>16. AskedUnread' /\ BootIsTracked'
  BY <1>4 DEF RInv, AskedUnread, BootIsTracked
<1>17. LastNewsIsNow'
  <2> SUFFICES ASSUME Following', NEW i \in DOMAIN Queue', Queue'[i].kind = "status",
                      \A j \in DOMAIN Queue' : j > i => Queue'[j].kind = "status"
                                                        /\ Queue'[j].pane # Queue'[i].pane
               PROVE  Queue'[i].status = new[Queue'[i].pane]
    BY <1>2 DEF LastNewsIsNow
  <2>1. CASE i \in DOMAIN Queue
    <3>1. Queue[i].status = old[Queue[i].pane] /\ Queue'[i] = Queue[i] /\ Queue[i].kind = "status"
      <4>1. \A j \in DOMAIN Queue : j > i => Queue[j].kind = "status" /\ Queue[j].pane # Queue[i].pane
        BY <1>11, <2>1
      <4> QED BY <1>11, <1>12, <2>1, <4>1 DEF RInv, LastNewsIsNow, old
    <3>2. Queue[i].pane \in Pane /\ Queue[i].pane \in chan[Current].key
      BY <1>7, <1>12, <2>1, <3>1, QueueEvents, QueueType DEF IInv, RInv, StatusInKey, Following
    <3>3. Queue[i].pane # p
      <4>1. CASE Heard(kind, p)
        <5>1. Len(Queue) + 1 > i /\ Len(Queue) + 1 \in DOMAIN Queue' /\ Queue'[Len(Queue) + 1] = e
          BY <1>9, <1>11, <2>1, <4>1
        <5> QED BY <1>3, <1>11, <2>1, <5>1
      <4>2. CASE ~Heard(kind, p)
        BY <1>14, <3>2, <4>2
      <4> QED BY <4>1, <4>2
    <3> QED BY <1>1, <3>1, <3>2, <3>3
  <2>2. CASE i \notin DOMAIN Queue
    BY <1>1, <1>3, <1>11, <2>2
  <2> QED BY <2>1, <2>2
<1>18. KeyIsNow'
  BY <1>2, <1>3, <1>5, <1>6, <1>7, <1>11, <1>12, <1>13, <1>14 DEF RInv, KeyIsNow, Following, RosterNews, old
<1>19. EntryIsNow'
  <2> SUFFICES ASSUME Following', ~RosterNews', boot' = "up", \A t \in Task : ~Pending(t)'
               PROVE  shown' # Gone /\ \A q \in Pane : ~NewsOf(q)' => shown'[q] = new[q]
    BY <1>2 DEF EntryIsNow
  <2>1. Following /\ ~RosterNews /\ \A t \in Task : ~Pending(t)
    BY <1>12
  <2>2. shown # Gone /\ \A q \in Pane : ~NewsOf(q) => shown[q] = old[q]
    BY <1>4, <2>1 DEF RInv, EntryIsNow, old
  <2>3. chan[Current].key = PaneKey(old)
    BY <2>1 DEF RInv, KeyIsNow, old
  <2>4. NewsOf(p)'
    BY <1>5, <1>12, <1>14, <2>3
  <2> QED BY <1>1, <1>4, <1>12, <2>2, <2>4
<1>20. AnswerIsNow'
  <2> SUFFICES ASSUME NEW t \in Task, Sound', Applicable(t)', ~NewerRefresh(t)', NEW q \in Pane
               PROVE  rosters'[task[t].read][q] = new[q] \/ NewerNews(task[t].read, q)'
    BY <1>2, <1>4 DEF AnswerIsNow
  <2>1. Sound /\ Applicable(t) /\ ~NewerRefresh(t)
    BY <1>4, <1>6 DEF Applicable, NewerRefresh, Pending
  <2>2. Heard(kind, p)
    BY <1>6, <2>1 DEF Unheard, Reading, Applicable
  <2>3. task[t].read \in 1..Now /\ rosters'[task[t].read] = rosters[task[t].read]
    BY <1>1, <1>2, <2>1 DEF IInv, TypeOK, TasksOK, Refresh, Applicable
  <2>4. rosters[task[t].read][q] = old[q] \/ NewerNews(task[t].read, q)
    BY <2>1 DEF RInv, AnswerIsNow, old
  <2>5. NewerNews(task[t].read, q) => NewerNews(task[t].read, q)'
    <3>1. \A v \in Nat : NewerNews(v, q) => \E i \in DOMAIN Queue' : Queue'[i].at > v /\
                                    (Queue'[i].kind = "status" => Queue'[i].pane = q)
      BY <1>11 DEF NewerNews
    <3> QED BY <1>4, <2>3, <3>1 DEF NewerNews
  <2>6. q = p => NewerNews(task[t].read, q)'
    <3>1. e.at > task[t].read
      BY <1>1, <1>3, <2>3
    <3> QED BY <1>3, <1>4, <1>11, <2>2, <3>1 DEF NewerNews
  <2> QED BY <1>1, <2>3, <2>4, <2>5, <2>6
<1>21. NewsIsPresent'
  <2> SUFFICES ASSUME Following', NEW i \in DOMAIN Queue',
                      \A j \in DOMAIN Queue' : j >= i => Queue'[j].kind = "status"
               PROVE  new[Queue'[i].pane] # Absent
    BY <1>2 DEF NewsIsPresent
  <2>1. kind = "status" \/ ~Heard(kind, p)
    <3>1. Heard(kind, p) => Len(Queue) + 1 >= i /\ Queue'[Len(Queue) + 1] = e
      BY <1>9, <1>11
    <3> QED BY <1>3, <1>11, <1>13, <3>1
  <2>2. kind = "status" /\ s # Absent
    BY <1>14, <2>1 DEF kind
  <2>3. CASE i \in DOMAIN Queue
    <3>1. \A j \in DOMAIN Queue : j >= i => Queue[j].kind = "status"
      BY <1>11, <2>3
    <3>2. old[Queue[i].pane] # Absent /\ Queue'[i] = Queue[i]
      BY <1>11, <1>12, <2>3, <3>1 DEF RInv, NewsIsPresent, old
    <3>3. Queue[i].pane \in Pane
      <4>1. i >= i
        BY <1>9, <2>3
      <4> QED BY <2>3, <3>1, <4>1, QueueEvents DEF IInv
    <3> QED BY <1>1, <2>2, <3>2, <3>3
  <2>4. CASE i \notin DOMAIN Queue
    BY <1>1, <1>3, <1>11, <2>2, <2>4
  <2> QED BY <2>3, <2>4
<1> QED BY <1>15, <1>16, <1>17, <1>18, <1>19, <1>20, <1>21 DEF RInv

\* Herdr stops: its channel breaks, and who waited for an answer gets none.
LEMMA StopsKeeps ==
  ASSUME IInv, IInv', RInv, Stops PROVE RInv'
<1>1. /\ UNCHANGED <<tracked, events, shown, seen, boot, abandoned>>
      /\ \A c \in Chan : /\ chan'[c].queue = chan[c].queue /\ chan'[c].key = chan[c].key
                         /\ chan'[c].stage \notin {"opening", "open"}
      /\ drift' = IF Reading THEN drift \cup {"missed"} ELSE drift
      /\ Current' = Current
  BY DEF Stops, scan, track, entry, IInv, TypeOK, ChanOK, Channel, Holds, Current
<1>2. \A t \in Task : /\ task'[t].read = task[t].read /\ task'[t].obj = task[t].obj
                      /\ task'[t].stage # "asked"
                      /\ task'[t].stage # "idle" => task[t].stage # "idle"
                      /\ task'[t].stage = "answered" => task[t].stage \in {"asked", "answered"}
  BY DEF Stops, IInv, TypeOK, TasksOK, Refresh
<1>3. ~Following'
  BY <1>1, QueueType DEF Following, Holds, IInv
<1>4. StatusInKey' /\ AskedUnread' /\ BootIsTracked'
  BY <1>1, <1>2 DEF RInv, StatusInKey, AskedUnread, BootIsTracked, Task
<1>5. AnswerIsNow'
  <2>1. ASSUME NEW t \in Task, Sound', Applicable(t)' PROVE FALSE
    <3>1. ~Reading
      BY <1>1, <2>1 DEF Sound
    <3>2. task[t].stage = "asked"
      BY <1>2, <2>1, <3>1 DEF Applicable, Reading
    <3> QED BY <1>2, <2>1, <3>2 DEF Applicable, RInv, AskedUnread
  <2> QED BY <2>1 DEF AnswerIsNow
<1> QED BY <1>3, <1>4, <1>5 DEF RInv, LastNewsIsNow, NewsIsPresent, KeyIsNow, EntryIsNow

\* An answer is herdr's roster as it comes.
LEMMA ListReturnsKeeps ==
  ASSUME IInv, IInv', RInv, NEW t \in Task, ListReturns(t) PROVE RInv'
<1>1. /\ UNCHANGED <<rosters, tracked, events, chan, shown, seen, drift, abandoned, boot>>
      /\ task[t].stage = "asked" /\ task[t].read = 0
  BY DEF ListReturns, herdr, scan, track, entry, history, RInv, AskedUnread
<1>2. /\ task'[t].stage = "answered" /\ task'[t].obj = task[t].obj
      /\ task'[t].read = 0 \/ task'[t].read = Now
      /\ \A u \in Task : u # t => task'[u] = task[u]
  <2>1. task[t] \in Refresh
    BY DEF IInv, TypeOK, TasksOK
  <2> QED BY <1>1, <2>1 DEF ListReturns, Refresh, IInv, TypeOK, TasksOK
<1>3. Current' = Current /\ Queue' = Queue /\ Now' = Now /\ \A u \in Task : Pending(u)' <=> Pending(u)
  BY <1>1, <1>2 DEF Current, Queue, Now, Pending
<1>4. StatusInKey' /\ AskedUnread' /\ BootIsTracked'
  BY <1>1, <1>2 DEF RInv, StatusInKey, AskedUnread, BootIsTracked, Task
<1>5. LastNewsIsNow' /\ NewsIsPresent' /\ KeyIsNow' /\ EntryIsNow'
  BY <1>1, <1>3 DEF RInv, LastNewsIsNow, NewsIsPresent, KeyIsNow, EntryIsNow, Following, Sound, RosterNews, NewsOf, Holds
<1>6. AnswerIsNow'
  <2> SUFFICES ASSUME NEW u \in Task, Sound', Applicable(u)', ~NewerRefresh(u)', NEW p \in Pane
               PROVE  \/ rosters[task'[u].read][p] = rosters[Now][p]
                      \/ NewerNews(task[u].read, p)'
    BY <1>1, <1>3 DEF AnswerIsNow
  <2>1. CASE u = t
    BY <1>2, <2>1 DEF Applicable
  <2>2. CASE u # t
    <3>1. task'[u] = task[u] /\ Applicable(u) /\ Sound
      BY <1>1, <1>2, <2>2 DEF Applicable, Sound
    <3>2. CASE NewerRefresh(u)
      <4>1. PICK w \in Task \ {Boot, u} : Pending(w) /\ (task[w].read = 0 \/ task[w].read > task[u].read)
        BY <3>2 DEF NewerRefresh
      <4>2. w = t /\ task'[t].read = Now
        BY <1>2, <1>3, <3>1, <4>1 DEF NewerRefresh
      <4>3. ~(Now > task[u].read)
        BY <1>2, <1>3, <3>1, <4>1, <4>2 DEF NewerRefresh
      <4>4. task[u].read \in Nat /\ task[u].read <= Now /\ Now \in Nat
        BY NowIsNat DEF IInv, TypeOK, TasksOK, Refresh
      <4> QED BY <3>1, <4>3, <4>4
    <3>3. CASE ~NewerRefresh(u)
      BY <1>1, <1>3, <3>1, <3>3 DEF RInv, AnswerIsNow, NewerNews
    <3> QED BY <3>2, <3>3
  <2> QED BY <2>1, <2>2
<1> QED BY <1>4, <1>5, <1>6 DEF RInv

\* A channel opens or breaks: what it holds and is for stays.
LEMMA StageKeeps ==
  ASSUME IInv, IInv', RInv, NEW c \in Chan, Accepts(c) \/ Breaks(c) PROVE RInv'
<1>1. UNCHANGED <<rosters, tracked, events, task, shown, seen, drift, abandoned, boot>>
  BY DEF Accepts, Breaks, herdr, scan, track, entry, history
<1>2. \A d \in Chan : /\ chan'[d].queue = chan[d].queue /\ chan'[d].key = chan[d].key
                      /\ chan'[d].stage \in {"opening", "open"} => chan[d].stage \in {"opening", "open"}
  BY DEF Accepts, Breaks, Holds, IInv, TypeOK, ChanOK, Channel
<1>3. Current' = Current /\ Now' = Now
  BY <1>1 DEF Current, Now
<1>4. Queue' = Queue /\ (Following' => Following)
      /\ (Current # None => chan'[Current].key = chan[Current].key)
  BY <1>1, <1>2, <1>3, QueueType DEF Queue, Following, Sound, Holds, IInv
<1>5. StatusInKey' /\ AskedUnread' /\ BootIsTracked'
  BY <1>1, <1>2 DEF RInv, StatusInKey, AskedUnread, BootIsTracked
<1>6. LastNewsIsNow' /\ NewsIsPresent'
  BY <1>1, <1>3, <1>4 DEF RInv, LastNewsIsNow, NewsIsPresent
<1>7. KeyIsNow'
  BY <1>1, <1>3, <1>4 DEF RInv, KeyIsNow, RosterNews, Pending, Following
<1>8. EntryIsNow'
  BY <1>1, <1>3, <1>4 DEF RInv, EntryIsNow, RosterNews, NewsOf, Pending
<1>9. AnswerIsNow'
  BY <1>1, <1>3, <1>4 DEF RInv, AnswerIsNow, NewerNews, NewerRefresh, Applicable, Pending, Sound
<1> QED BY <1>5, <1>6, <1>7, <1>8, <1>9 DEF RInv

\* A channel ends: if an answer is about to be applied, no event went with it.
LEMMA CloseSeenKeeps ==
  ASSUME IInv, IInv', RInv, NEW c \in Chan, CloseSeen(c) PROVE RInv'
<1>1. /\ UNCHANGED <<rosters, tracked, task, shown, seen, abandoned, boot>>
      /\ drift' = IF Lost(c) /\ Reading THEN drift \cup {"missed"} ELSE drift
      /\ Now' = Now
  BY DEF CloseSeen, herdr, scan, entry, Now
<1>2. \A d \in Chan : chan'[d] = IF d = c THEN NoChan ELSE chan[d]
  BY DEF CloseSeen, IInv, TypeOK, ChanOK
<1>3. c # None
  BY LocalAssumption
<1>4. \/ Current # c /\ Current' = Current
      \/ Current = c /\ Current' \in {None, c}
  BY <1>1, <1>3 DEF CloseSeen, IsOwn, Current, IInv, TypeOK, TrackOK, ChanOK, Channel
<1>5. Sound' => Sound
  BY <1>1 DEF Sound
<1>6. StatusInKey' /\ AskedUnread' /\ BootIsTracked'
  BY <1>1, <1>2 DEF RInv, StatusInKey, AskedUnread, BootIsTracked, NoChan
<1>7. CASE Current # c
  <2>1. Current' = Current /\ Queue' = Queue /\ (Following' => Following)
        /\ (Current # None => chan'[Current] = chan[Current])
    BY <1>2, <1>4, <1>5, <1>7, QueueType DEF Queue, Following, Holds, IInv
  <2>2. LastNewsIsNow' /\ NewsIsPresent'
    BY <1>1, <2>1 DEF RInv, LastNewsIsNow, NewsIsPresent
  <2>3. KeyIsNow'
    BY <1>1, <2>1 DEF RInv, KeyIsNow, RosterNews, Pending, Following
  <2>4. EntryIsNow'
    BY <1>1, <2>1 DEF RInv, EntryIsNow, RosterNews, NewsOf, Pending
  <2>5. AnswerIsNow'
    BY <1>1, <1>5, <2>1 DEF RInv, AnswerIsNow, NewerNews, NewerRefresh, Applicable, Pending
  <2> QED BY <1>6, <2>2, <2>3, <2>4, <2>5 DEF RInv
<1>8. CASE Current = c
  <2>1. ~Following'
    BY <1>2, <1>4, <1>8 DEF Following, Holds, NoChan
  <2>2. AnswerIsNow'
    <3> SUFFICES ASSUME NEW t \in Task, Sound', Applicable(t)', ~NewerRefresh(t)', NEW p \in Pane
                 PROVE  rosters[task[t].read][p] = rosters[Now][p]
      BY <1>1 DEF AnswerIsNow
    <3>1. Sound /\ Applicable(t) /\ ~NewerRefresh(t)
      BY <1>1, <1>5 DEF Applicable, NewerRefresh, Pending
    <3>2. ~Lost(c)
      BY <1>1, <3>1 DEF Reading, Applicable, Sound
    <3>3. Queue = <<>>
      BY <1>3, <1>8, <3>2 DEF Queue, Lost
    <3>4. ~NewerNews(task[t].read, p)
      BY <3>3 DEF NewerNews
    <3> QED BY <3>1, <3>4 DEF RInv, AnswerIsNow
  <2> QED BY <1>6, <2>1, <2>2 DEF RInv, LastNewsIsNow, NewsIsPresent, KeyIsNow, EntryIsNow
<1> QED BY <1>7, <1>8

\* An event is applied: it was the news, or a refresh is asked.
LEMMA OnEventKeeps ==
  ASSUME IInv, IInv', RInv, NEW c \in Chan, OnEvent(c) PROVE RInv'
<1> DEFINE q == chan[c].queue
           e == Head(q)
<1>1. /\ UNCHANGED <<rosters, tracked, events, drift, abandoned, boot>>
      /\ Current' = Current /\ Now' = Now
      /\ Holds(c, {"open", "broken"}) /\ q # <<>> /\ q \in Seq(Event)
  BY DEF OnEvent, herdr, track, scan, history, Current, Now, IInv, TypeOK, ChanOK, Channel
<1>2. /\ \A d \in Chan : chan'[d].stage = chan[d].stage /\ chan'[d].key = chan[d].key
      /\ \A d \in Chan : d # c => chan'[d].queue = chan[d].queue
      /\ chan'[c].queue = Tail(q)
  BY DEF OnEvent, IInv, TypeOK, ChanOK, Channel
<1>3. \/ /\ e.kind = "status" /\ UNCHANGED task
         /\ Writes(StatusApplied(e.pane, e.status)) /\ Knows(e.at)
      \/ /\ e.kind = "roster" /\ UNCHANGED <<shown, seen>>
         /\ \E t \in Nudge : task[t].stage = "idle" /\ RefreshAsks(t)
  BY DEF OnEvent, entry
<1> HIDE DEF q, e
<1>4. /\ \A i \in DOMAIN Tail(q) : i \in Nat /\ i + 1 \in DOMAIN q /\ Tail(q)[i] = q[i + 1]
      /\ \A i \in DOMAIN q : i = 1 \/ (i - 1 \in DOMAIN Tail(q) /\ q[i] = Tail(q)[i - 1] /\ i \in Nat)
      /\ 1 \in DOMAIN q /\ e = q[1]
  BY <1>1, TailAt DEF e
<1>5. StatusInKey'
  <2>1. \A i \in DOMAIN Tail(q) : Tail(q)[i].kind = "status" => Tail(q)[i].pane \in chan[c].key
    BY <1>4 DEF RInv, StatusInKey, q
  <2> QED BY <1>2, <2>1 DEF RInv, StatusInKey
<1>6. /\ AskedUnread' /\ BootIsTracked'
      /\ \A t \in Task : task'[t] = task[t] \/ (task[t].stage = "idle" /\ t \in Nudge /\ task'[t] = Asked(tracked))
  <2>1. \A t \in Task : task'[t] = task[t] \/ (task[t].stage = "idle" /\ t \in Nudge /\ task'[t] = Asked(tracked))
    BY <1>3 DEF RefreshAsks, IInv, TypeOK, TasksOK
  <2> QED BY <1>1, <2>1, LocalAssumption DEF RInv, AskedUnread, BootIsTracked, Asked, Task
<1>7. Holds(c, {"opening", "open", "broken"})
  BY <1>1 DEF Holds
<1>8. CASE ~Sound
  <2>1. ~Sound'
    BY <1>1, <1>8 DEF Sound
  <2> QED BY <1>5, <1>6, <2>1 DEF RInv, LastNewsIsNow, NewsIsPresent, KeyIsNow, EntryIsNow, AnswerIsNow, Following
<1>9. CASE Sound
  <2>1. c = Current /\ Current # None
    BY <1>7, <1>9, LocalAssumption DEF IInv, NoLeakedChannel, Sound
  <2>2. Queue = q /\ Queue' = Tail(q) /\ chan'[Current].key = chan[Current].key
        /\ (Following' => Following)
    BY <1>1, <1>2, <2>1 DEF Queue, q, Following, Sound, Holds
  <2>3. /\ \A i \in DOMAIN Queue' : i \in Nat /\ i + 1 \in DOMAIN Queue /\ Queue'[i] = Queue[i + 1]
        /\ \A i \in DOMAIN Queue : i = 1 \/ (i - 1 \in DOMAIN Queue' /\ Queue[i] = Queue'[i - 1] /\ i \in Nat)
        /\ 1 \in DOMAIN Queue /\ e = Queue[1]
    BY <1>4, <2>2
  <2>4. LastNewsIsNow'
    <3> SUFFICES ASSUME Following', NEW i \in DOMAIN Queue', Queue'[i].kind = "status",
                        \A j \in DOMAIN Queue' : j > i => Queue'[j].kind = "status"
                                                          /\ Queue'[j].pane # Queue'[i].pane
                 PROVE  Queue'[i].status = rosters[Now][Queue'[i].pane]
      BY <1>1 DEF LastNewsIsNow
    <3>1. ASSUME NEW j \in DOMAIN Queue, j > i + 1
          PROVE  Queue[j].kind = "status" /\ Queue[j].pane # Queue[i + 1].pane
      <4>1. j - 1 \in DOMAIN Queue' /\ j - 1 > i /\ Queue[j] = Queue'[j - 1]
        BY <2>3, <3>1
      <4> QED BY <2>3, <4>1
    <3> QED BY <2>2, <2>3, <3>1 DEF RInv, LastNewsIsNow
  <2>7. NewsIsPresent'
    <3> SUFFICES ASSUME Following', NEW i \in DOMAIN Queue',
                        \A j \in DOMAIN Queue' : j >= i => Queue'[j].kind = "status"
                 PROVE  rosters[Now][Queue'[i].pane] # Absent
      BY <1>1 DEF NewsIsPresent
    <3>1. ASSUME NEW j \in DOMAIN Queue, j >= i + 1 PROVE Queue[j].kind = "status"
      <4>1. j - 1 \in DOMAIN Queue' /\ j - 1 >= i /\ Queue[j] = Queue'[j - 1]
        BY <2>3, <3>1
      <4> QED BY <4>1
    <3> QED BY <2>2, <2>3, <3>1 DEF RInv, NewsIsPresent
  <2>5. CASE e.kind = "status"
    <3>1. UNCHANGED task /\ Writes(StatusApplied(e.pane, e.status)) /\ Knows(e.at)
      BY <1>3, <2>5
    <3>2. RosterNews => RosterNews'
      BY <2>3, <2>5 DEF RosterNews
    <3>3. KeyIsNow'
      BY <1>1, <2>2, <3>1, <3>2 DEF RInv, KeyIsNow, Pending
    <3>4. \A p \in Pane : NewsOf(p) => NewsOf(p)' \/ p = e.pane
      BY <2>3 DEF NewsOf
    <3>5. EntryIsNow'
      <4> SUFFICES ASSUME Following', ~RosterNews', boot' = "up", \A t \in Task : ~Pending(t)'
                   PROVE  shown' # Gone /\ \A p \in Pane : ~NewsOf(p)' => shown'[p] = rosters[Now][p]
        BY <1>1 DEF EntryIsNow
      <4>1. Following /\ ~RosterNews /\ boot = "up" /\ \A t \in Task : ~Pending(t)
        BY <1>1, <2>2, <3>1, <3>2 DEF Pending
      <4>2. shown # Gone /\ \A p \in Pane : ~NewsOf(p) => shown[p] = rosters[Now][p]
        BY <4>1 DEF RInv, EntryIsNow
      <4>3. shown \in Roster /\ e.pane \in Pane /\ e.status \in Status
        BY <2>3, <2>5, <4>2, QueueEvents DEF IInv, TypeOK, ViewOK
      <4>4. shown' = [shown EXCEPT ![e.pane] = e.status]
        BY <3>1, <4>1, <4>2 DEF Writes, StatusApplied
      <4>5. shown' \in Roster /\ \A p \in Pane : shown'[p] = IF p = e.pane THEN e.status ELSE shown[p]
        BY <4>3, <4>4 DEF Roster
      <4>6. ASSUME NEW p \in Pane, p = e.pane, ~NewsOf(p)' PROVE e.status = rosters[Now][p]
        <5>1. ASSUME NEW j \in DOMAIN Queue, j > 1
              PROVE  Queue[j].kind = "status" /\ Queue[j].pane # p
          <6>1. j - 1 \in DOMAIN Queue' /\ Queue[j] = Queue'[j - 1]
            BY <2>3, <5>1
          <6>2. Queue[j].kind = "status"
            BY <4>1, <5>1, QueueEvents DEF RosterNews, IInv
          <6> QED BY <4>6, <6>1, <6>2 DEF NewsOf
        <5> QED BY <2>3, <2>5, <4>1, <4>6, <5>1 DEF RInv, LastNewsIsNow
      <4>7. shown' # Gone
        BY <4>5, LocalAssumption DEF Roster
      <4> QED BY <3>4, <4>2, <4>5, <4>6, <4>7
    <3>6. AnswerIsNow'
      <4> SUFFICES ASSUME NEW t \in Task, Applicable(t)', ~NewerRefresh(t)', NEW p \in Pane
                   PROVE  rosters[task[t].read][p] = rosters[Now][p] \/ NewerNews(task[t].read, p)'
        BY <1>1, <3>1 DEF AnswerIsNow
      <4>1. Applicable(t) /\ ~NewerRefresh(t) /\ e.at <= task[t].read
        <5>1. e.at \in Nat /\ seen \in Nat /\ task[t].read \in Nat
          BY <2>3, QueueEvents DEF IInv, TypeOK, ViewOK, TasksOK, Refresh
        <5> QED BY <1>1, <3>1, <5>1 DEF Applicable, NewerRefresh, Pending, Knows
      <4>2. rosters[task[t].read][p] = rosters[Now][p] \/ NewerNews(task[t].read, p)
        BY <1>9, <4>1 DEF RInv, AnswerIsNow
      <4>3. ASSUME NEW i \in DOMAIN Queue, Queue[i].at > task[t].read,
                   Queue[i].kind = "status" => Queue[i].pane = p
            PROVE  NewerNews(task[t].read, p)'
        <5>1. i # 1
          <6>1. e.at \in Nat /\ task[t].read \in Nat
            BY <2>3, QueueEvents DEF IInv, TypeOK, TasksOK, Refresh
          <6> QED BY <2>3, <4>1, <4>3, <6>1
        <5>2. i - 1 \in DOMAIN Queue' /\ Queue[i] = Queue'[i - 1]
          BY <2>3, <5>1
        <5> QED BY <3>1, <4>3, <5>2 DEF NewerNews
      <4> QED BY <4>2, <4>3 DEF NewerNews
    <3> QED BY <1>5, <1>6, <2>4, <2>7, <3>3, <3>5, <3>6 DEF RInv
  <2>6. CASE e.kind = "roster"
    <3>1. tracked # None /\ ~stopped
      BY <2>1 DEF Current, IInv, StoppedUntracked
    <3>2. PICK t \in Nudge : task[t].stage = "idle" /\ task' = [task EXCEPT ![t] = Asked(tracked)]
      BY <1>3, <2>6, <3>1 DEF RefreshAsks
    <3>3. t \in Task \ {Boot} /\ task'[t] = Asked(tracked) /\ \A u \in Task : u # t => task'[u] = task[u]
      BY <3>2, LocalAssumption DEF Task, IInv, TypeOK, TasksOK
    <3>4. Pending(t)' /\ task'[t].read = 0
      BY <1>1, <3>3 DEF Pending, Asked
    <3>5. KeyIsNow' /\ EntryIsNow'
      BY <3>3, <3>4 DEF KeyIsNow, EntryIsNow
    <3>6. AnswerIsNow'
      <4>1. ASSUME NEW u \in Task, Applicable(u)' PROVE NewerRefresh(u)'
        <5>1. u # t
          BY <3>4, <4>1 DEF Applicable
        <5> QED BY <3>3, <3>4, <5>1 DEF NewerRefresh
      <4> QED BY <4>1 DEF AnswerIsNow
    <3> QED BY <1>5, <1>6, <2>4, <2>7, <3>5, <3>6 DEF RInv
  <2> QED BY <1>3, <2>5, <2>6
<1> QED BY <1>8, <1>9
-----------------------------------------------------------------------------
(* Refreshes *)

\* The second half of #refresh.
LEMMA RefreshAppliesKeeps ==
  ASSUME IInv, IInv', RInv, NEW t \in Task, RefreshApplies(t) PROVE RInv'
<1>1. /\ UNCHANGED <<rosters, tracked, boot, abandoned>> /\ Now' = Now
      /\ t # Boot /\ task[t].stage = "answered" /\ task[t].obj # None
  BY DEF RefreshApplies, herdr, scan, bounds, Now, IInv, Requested
<1>2. task'[t].stage = "idle" /\ \A u \in Task : u # t => task'[u] = task[u]
  BY DEF RefreshApplies, Idle, IInv, TypeOK, TasksOK
<1>3. AskedUnread' /\ BootIsTracked'
  BY <1>1, <1>2 DEF RInv, AskedUnread, BootIsTracked, Task
<1>4. \A u \in Task : /\ Pending(u)' <=> Pending(u) /\ u # t
                      /\ Applicable(u)' => u # t
  BY <1>1, <1>2 DEF Pending, Applicable
<1>5. CASE ~StillTracked(t)
  <2>1. UNCHANGED <<shown, seen, chan, events, drift>> /\ Current' = Current /\ Queue' = Queue
    BY <1>1, <1>5 DEF RefreshApplies, entry, Current, Queue
  <2>2. ~Pending(t)
    BY <1>1, <1>5 DEF StillTracked, Pending, IInv, StoppedUntracked
  <2>3. \A u \in Task : Pending(u)' <=> Pending(u)
    BY <1>4, <2>2
  <2>4. StatusInKey' /\ LastNewsIsNow' /\ NewsIsPresent' /\ KeyIsNow' /\ EntryIsNow'
    BY <1>1, <2>1, <2>3 DEF RInv, StatusInKey, LastNewsIsNow, NewsIsPresent, KeyIsNow, EntryIsNow,
                            Following, Sound, RosterNews, NewsOf, Holds
  <2>5. AnswerIsNow'
    <3> SUFFICES ASSUME NEW u \in Task, Sound', Applicable(u)', ~NewerRefresh(u)', NEW p \in Pane
                 PROVE  rosters[task[u].read][p] = rosters[Now][p] \/ NewerNews(task[u].read, p)'
      BY <1>1, <1>2, <1>4 DEF AnswerIsNow
    <3>1. u # t /\ task'[u] = task[u] /\ Applicable(u) /\ Sound
      BY <1>1, <1>2, <1>4, <2>1 DEF Applicable, Sound
    <3>2. ~NewerRefresh(u)
      BY <1>2, <2>2, <2>3, <3>1 DEF NewerRefresh
    <3> QED BY <1>1, <2>1, <3>1, <3>2 DEF RInv, AnswerIsNow, NewerNews
  <2> QED BY <1>3, <2>4, <2>5 DEF RInv
<1>6. CASE StillTracked(t)
  <2> DEFINE r == task[t].read
  <2>1. /\ Writes(Listed(t)) /\ Knows(r) /\ Subscribes(Listed(t))
        /\ drift' = drift \cup Stale(t)
             \cup (IF NeedsChannel(Listed(t)) /\ Lost(Current) THEN {"missed"} ELSE {})
    BY <1>6 DEF RefreshApplies
  <2>2. tracked = task[t].obj /\ tracked # None /\ Pending(t) /\ tracked \in Obj
    BY <1>1, <1>6 DEF StillTracked, Pending, IInv, TypeOK, TrackOK
  <2>3. Sound' => /\ Sound /\ Applicable(t) /\ Listed(t) = rosters[r] /\ seen' = r
                  /\ NeedsChannel(Listed(t)) => Queue = <<>>
    <3>1. Sound' => Sound /\ Stale(t) = {} /\ (NeedsChannel(Listed(t)) => ~Lost(Current))
      BY <1>1, <2>1 DEF Sound
    <3>2. Stale(t) = {} => r # 0 /\ ~(r < seen)
      BY DEF Stale
    <3>3. r \in Nat /\ seen \in Nat
      BY DEF IInv, TypeOK, TasksOK, Refresh, ViewOK
    <3>4. ~Lost(Current) => Queue = <<>>
      BY DEF Lost, Queue
    <3>5. r # 0 /\ ~(r < seen) => Applicable(t) /\ Listed(t) = rosters[r] /\ seen' = r
      BY <1>1, <2>1, <2>2, <3>3 DEF Applicable, Listed, Knows
    <3> QED BY <3>1, <3>2, <3>4, <3>5
  <2>4. r \in Nat /\ Listed(t) \in Roster
    BY ListedIsRoster DEF IInv, TypeOK, TasksOK, Refresh
  <2> HIDE DEF r
\* The channel stays as it is, or a new one takes its place.
  <2>5. \/ /\ ~NeedsChannel(Listed(t)) /\ Current' = Current /\ UNCHANGED <<chan, events>>
           /\ Queue' = Queue /\ Current # None /\ chan[Current].key = PaneKey(Listed(t))
        \/ /\ NeedsChannel(Listed(t)) /\ Current' # None /\ Queue' = <<>>
           /\ chan'[Current'].key = PaneKey(Listed(t))
           /\ chan' = Replaced(Current', Listed(t))
    <3>1. CASE ~NeedsChannel(Listed(t))
      BY <1>1, <2>1, <3>1 DEF Subscribes, NeedsChannel, Current, Queue
    <3>2. CASE NeedsChannel(Listed(t))
      <4>1. PICK new \in Chan : /\ chan' = Replaced(new, Listed(t))
                                /\ events' = [events EXCEPT ![tracked] = new]
        BY <2>1, <3>2 DEF Subscribes
      <4>2. Current' = new /\ new # None
        BY <1>1, <2>2, <4>1, LocalAssumption DEF Current, IInv, TypeOK, TrackOK
      <4>3. chan'[new].key = PaneKey(Listed(t)) /\ chan'[new].queue = <<>>
        BY <4>1 DEF Replaced, NewChan
      <4> QED BY <3>2, <4>1, <4>2, <4>3 DEF Queue
    <3> QED BY <3>1, <3>2
  <2>6. StatusInKey'
    <3>1. CASE UNCHANGED chan
      BY <3>1 DEF RInv, StatusInKey
    <3>2. CASE chan' = Replaced(Current', Listed(t))
      <4>1. ASSUME NEW c \in Chan
            PROVE  chan'[c].queue = <<>> \/ chan'[c] = chan[c]
        <5>1. Closed(c).queue = <<>>
          BY DEF Closed, IInv, TypeOK, ChanOK, Channel
        <5> QED BY <3>2, <5>1 DEF Replaced, NewChan
      <4> QED BY <4>1 DEF RInv, StatusInKey
    <3> QED BY <2>5, <3>1, <3>2
  <2>7. ASSUME Sound' PROVE Queue' = Queue
    BY <2>3, <2>5, <2>7
  <2>8. LastNewsIsNow' /\ NewsIsPresent'
    <3>1. CASE Queue' = <<>>
      BY <3>1 DEF LastNewsIsNow, NewsIsPresent
    <3>2. CASE UNCHANGED <<chan, events>> /\ Queue' = Queue /\ Current' = Current
      <4>1. Following' => Following
        BY <2>3, <3>2 DEF Following, Holds
      <4> QED BY <1>1, <3>2, <4>1 DEF RInv, LastNewsIsNow, NewsIsPresent
    <3> QED BY <2>5, <3>1, <3>2
  <2>9. AnswerIsNow'
    <3> SUFFICES ASSUME NEW u \in Task, Sound', Applicable(u)', ~NewerRefresh(u)', NEW p \in Pane
                 PROVE  rosters[task[u].read][p] = rosters[Now][p] \/ NewerNews(task[u].read, p)'
      BY <1>1, <1>2, <1>4 DEF AnswerIsNow
    <3>1. u # t /\ task'[u] = task[u] /\ task[u].read >= r
      BY <1>2, <1>4, <2>3 DEF Applicable
    <3>2. seen \in Nat /\ task[u].read \in Nat /\ seen <= r
      BY <2>3 DEF IInv, TypeOK, TasksOK, Refresh, ViewOK, Applicable, r
    <3>3. Applicable(u)
      BY <1>1, <2>4, <3>1, <3>2 DEF Applicable
    <3>4. ~NewerRefresh(u)
      <4>1. ~(r = 0 \/ r > task[u].read)
        BY <2>3, <2>4, <3>1, <3>2 DEF Applicable, r
      <4> QED BY <1>2, <1>4, <3>1, <4>1 DEF NewerRefresh, r
    <3>5. rosters[task[u].read][p] = rosters[Now][p] \/ NewerNews(task[u].read, p)
      BY <2>3, <3>3, <3>4 DEF RInv, AnswerIsNow
    <3> QED BY <2>7, <3>1, <3>5 DEF NewerNews
\* No other refresh is under way: the answer is herdr's roster but for the news.
  <2>10. ASSUME Sound', \A u \in Task \ {Boot} : ~Pending(u)', ~RosterNews', NEW p \in Pane
         PROVE  Listed(t)[p] = rosters[Now][p] \/ NewsOf(p)'
    <3>1. ~NewerRefresh(t)
      BY <1>4, <2>10 DEF NewerRefresh
    <3>2. rosters[r][p] = rosters[Now][p] \/ NewerNews(r, p)
      BY <2>3, <2>10, <3>1 DEF RInv, AnswerIsNow, r
    <3>3. NewerNews(r, p) => NewsOf(p)'
      BY <2>7, <2>10, QueueEvents DEF NewerNews, NewsOf, RosterNews, IInv
    <3> QED BY <2>3, <2>10, <3>2, <3>3
  <2>11. KeyIsNow'
    <3> SUFFICES ASSUME Following', ~RosterNews', \A u \in Task \ {Boot} : ~Pending(u)', NEW p \in Pane
                 PROVE  Listed(t)[p] # Absent <=> rosters[Now][p] # Absent
      <4>1. chan'[Current'].key = PaneKey(Listed(t))
        BY <2>5
      <4> QED BY <1>1, <4>1 DEF KeyIsNow, PaneKey
    <3>1. Sound'
      BY DEF Following
    <3>2. ASSUME NewsOf(p)' PROVE Listed(t)[p] # Absent /\ rosters[Now][p] # Absent
      <4>1. PICK i \in DOMAIN Queue : Queue[i].kind = "status" /\ Queue[i].pane = p
        BY <2>7, <3>1, <3>2 DEF NewsOf
      <4>2. Queue # <<>>
        BY <4>1
      <4>3. UNCHANGED chan /\ Current' = Current /\ Current # None /\ chan[Current].key = PaneKey(Listed(t))
        BY <2>3, <2>5, <3>1, <4>2
      <4>4. p \in PaneKey(Listed(t))
        BY <4>1, <4>3, QueueType DEF RInv, StatusInKey, IInv
      <4>5. Following
        BY <2>3, <3>1, <4>3 DEF Following, Holds
      <4>6. \A j \in DOMAIN Queue : Queue[j].kind = "status"
        BY <2>7, <3>1, QueueEvents DEF RosterNews, IInv
      <4> QED BY <4>1, <4>4, <4>5, <4>6 DEF PaneKey, RInv, NewsIsPresent
    <3> QED BY <2>10, <3>1, <3>2
  <2>12. EntryIsNow'
    <3> SUFFICES ASSUME Following', ~RosterNews', boot' = "up", \A u \in Task : ~Pending(u)'
                 PROVE  shown' # Gone /\ \A p \in Pane : ~NewsOf(p)' => shown'[p] = rosters[Now][p]
      BY <1>1 DEF EntryIsNow
    <3>1. shown' = Listed(t) /\ Sound'
      BY <1>1, <2>1 DEF Writes, Following
    <3>2. shown' # Gone
      BY <2>4, <3>1, LocalAssumption DEF Roster
    <3> QED BY <2>10, <3>1, <3>2
  <2> QED BY <1>3, <2>6, <2>8, <2>9, <2>11, <2>12 DEF RInv
<1> QED BY <1>5, <1>6

\* The first half: what is asked now is newer than every answer there is.
LEMMA ResubscribesKeeps ==
  ASSUME IInv, IInv', RInv, Resubscribes PROVE RInv'
<1>1. UNCHANGED <<rosters, tracked, events, chan, shown, seen, boot, drift, abandoned>>
  BY DEF Resubscribes, herdr, scan, track, entry, history
<1>2. CASE task' = task
  <2>1. Sound' => Sound
    BY <1>1 DEF Sound
  <2> QED BY <1>1, <1>2, <2>1, SameView DEF IInv
<1>3. CASE task' # task
  <2>1. task' = [task EXCEPT ![Probe] = Asked(tracked)]
    BY <1>3 DEF Resubscribes, RefreshAsks
  <2>2. Probe \in Task \ {Boot} /\ task'[Probe] = Asked(tracked)
        /\ \A t \in Task : t # Probe => task'[t] = task[t]
    BY <2>1, LocalAssumption DEF Task, Probe, Boot, IInv, TypeOK, TasksOK
  <2>3. Pending(Probe)' /\ task'[Probe].read = 0
    BY <1>1, <2>2 DEF Pending, Asked
  <2>4. StatusInKey' /\ AskedUnread' /\ BootIsTracked'
    BY <1>1, <2>2 DEF RInv, StatusInKey, AskedUnread, BootIsTracked, Asked, Task
  <2>5. Current' = Current /\ Queue' = Queue /\ Now' = Now
    BY <1>1 DEF Current, Queue, Now
  <2>6. LastNewsIsNow' /\ NewsIsPresent'
    BY <1>1, <2>5 DEF RInv, LastNewsIsNow, NewsIsPresent, Following, Sound, Holds
  <2>7. KeyIsNow' /\ EntryIsNow'
    BY <2>2, <2>3 DEF KeyIsNow, EntryIsNow
  <2>8. AnswerIsNow'
    <3>1. ASSUME NEW u \in Task, Applicable(u)' PROVE NewerRefresh(u)'
      <4>1. u # Probe
        BY <2>3, <3>1 DEF Applicable
      <4> QED BY <2>2, <2>3, <4>1 DEF NewerRefresh
    <3> QED BY <3>1 DEF AnswerIsNow
  <2> QED BY <2>4, <2>6, <2>7, <2>8 DEF RInv
<1> QED BY <1>2, <1>3

\* A session that is attached has no channel and only the refresh asked with it.
LEMMA AttachesKeeps ==
  ASSUME IInv, IInv', RInv, Attaches PROVE RInv'
<1>1. UNCHANGED <<rosters, chan, shown, seen, boot, drift, abandoned>>
  BY DEF Attaches, herdr, scan, entry, history
<1>2. CASE stopped
  <2>1. UNCHANGED <<tracked, events, task>> /\ (Sound' => Sound)
    BY <1>1, <1>2 DEF Attaches, track, Sound
  <2> QED BY <1>1, <2>1, SameView DEF IInv
<1>3. CASE ~stopped
  <2>1. PICK o \in Obj : /\ FreshObj(o) /\ tracked' = o /\ events' = [events EXCEPT ![o] = None]
                         /\ task' = [task EXCEPT ![Probe] = Asked(o)]
    BY <1>3 DEF Attaches
  <2>2. Current' = None
    BY <2>1 DEF Current, IInv, TypeOK, TrackOK
  <2>3. Probe \in Task \ {Boot} /\ task'[Probe] = Asked(o)
        /\ \A t \in Task : t # Probe => task'[t] = task[t] /\ task[t].obj # o
    BY <2>1, LocalAssumption DEF Task, Probe, Boot, IInv, TypeOK, TasksOK, FreshObj
  <2>4. task[Boot].stage = "idle" /\ Boot \in Task
    BY DEF Attaches, IInv, Booting, Task
  <2>5. StatusInKey' /\ AskedUnread' /\ BootIsTracked'
    BY <1>1, <2>3, <2>4 DEF RInv, StatusInKey, AskedUnread, BootIsTracked, Asked, Task
  <2>6. \A t \in Task : ~Applicable(t)'
    BY <2>1, <2>3 DEF Applicable, Asked
  <2> QED BY <2>2, <2>5, <2>6 DEF RInv, LastNewsIsNow, NewsIsPresent, KeyIsNow, EntryIsNow,
                                  AnswerIsNow, Following
<1> QED BY <1>2, <1>3

\* start() lists the session it has attached, and no refresh counts on that.
LEMMA BootListsKeeps ==
  ASSUME IInv, IInv', RInv, BootLists PROVE RInv'
<1>1. UNCHANGED <<rosters, tracked, events, chan, shown, seen, drift, abandoned>>
  BY DEF BootLists, herdr, track, entry, history
<1>2. Current' = Current /\ Queue' = Queue /\ Now' = Now /\ (Sound' => Sound) /\ (Following' => Following)
  BY <1>1 DEF Current, Queue, Now, Sound, Following, Holds
<1>3. \A t \in Task : t # Boot => task'[t] = task[t]
  BY DEF BootLists, IInv, TypeOK, TasksOK
<1>4. task' = task \/ task'[Boot] = Asked(tracked)
  BY DEF BootLists, IInv, TypeOK, TasksOK, Task
<1>5. StatusInKey' /\ AskedUnread' /\ BootIsTracked'
  BY <1>1, <1>3, <1>4 DEF RInv, StatusInKey, AskedUnread, BootIsTracked, Asked, Task
<1>6. LastNewsIsNow' /\ NewsIsPresent'
  BY <1>1, <1>2 DEF RInv, LastNewsIsNow, NewsIsPresent
<1>7. \A t \in Task \ {Boot} : Pending(t)' <=> Pending(t)
  BY <1>1, <1>3 DEF Pending
<1>8. KeyIsNow'
  BY <1>1, <1>2, <1>7 DEF RInv, KeyIsNow, RosterNews, Following
<1>9. EntryIsNow'
  <2>1. CASE tracked = None
    BY <1>2, <2>1 DEF EntryIsNow, Following, Current
  <2>2. CASE tracked # None
    <3>1. boot' # "up"
      BY <2>2 DEF BootLists
    <3> QED BY <3>1 DEF EntryIsNow
  <2> QED BY <2>1, <2>2
<1>10. AnswerIsNow'
  <2> SUFFICES ASSUME NEW u \in Task, Sound', Applicable(u)', ~NewerRefresh(u)', NEW p \in Pane
               PROVE  \/ rosters[task'[u].read][p] = rosters[Now][p]
                      \/ NewerNews(task[u].read, p)'
    BY <1>1, <1>2 DEF AnswerIsNow
  <2>1. task'[u] = task[u] /\ Applicable(u)
    BY <1>1, <1>3, <1>4 DEF Applicable, Asked
  <2>2. ~NewerRefresh(u)
    BY <1>3, <1>7, <2>1 DEF NewerRefresh
  <2> QED BY <1>2, <2>1, <2>2 DEF RInv, AnswerIsNow, NewerNews
<1> QED BY <1>5, <1>6, <1>8, <1>9, <1>10 DEF RInv

\* The snapshot is the first entry.
LEMMA BootAppliesKeeps ==
  ASSUME IInv, IInv', RInv, BootApplies PROVE RInv'
<1> DEFINE r == task[Boot].read
<1>1. /\ UNCHANGED <<rosters, tracked, events, chan, abandoned>>
      /\ task[Boot].stage = "answered" /\ Boot \in Task
      /\ shown' = Listed(Boot) /\ Knows(r) /\ drift' = drift \cup Stale(Boot)
  BY DEF BootApplies, herdr, track, Task
<1>2. Current' = Current /\ Queue' = Queue /\ Now' = Now /\ (Sound' => Sound) /\ (Following' => Following)
  BY <1>1 DEF Current, Queue, Now, Sound, Following, Holds
<1>3. task'[Boot].stage = "idle" /\ \A t \in Task : t # Boot => task'[t] = task[t]
  BY <1>1 DEF BootApplies, Idle, IInv, TypeOK, TasksOK
<1>4. StatusInKey' /\ AskedUnread' /\ BootIsTracked'
  BY <1>1, <1>3 DEF RInv, StatusInKey, AskedUnread, BootIsTracked, Task
<1>5. LastNewsIsNow' /\ NewsIsPresent'
  BY <1>1, <1>2 DEF RInv, LastNewsIsNow, NewsIsPresent
<1>6. \A t \in Task \ {Boot} : Pending(t)' <=> Pending(t)
  BY <1>1, <1>3 DEF Pending
<1>7. KeyIsNow'
  BY <1>1, <1>2, <1>6 DEF RInv, KeyIsNow, RosterNews, Following
<1>8. Sound' => Applicable(Boot) /\ Listed(Boot) = rosters[r] /\ seen' = r /\ seen <= r
  <2>1. Sound' => Stale(Boot) = {}
    BY <1>1 DEF Sound
  <2>2. Stale(Boot) = {} => r # 0 /\ ~(r < seen)
    BY DEF Stale
  <2>3. r \in Nat /\ seen \in Nat
    BY <1>1 DEF IInv, TypeOK, TasksOK, Refresh, ViewOK
  <2>4. task[Boot].obj = tracked
    BY <1>1 DEF RInv, BootIsTracked
  <2> QED BY <1>1, <2>1, <2>2, <2>3, <2>4 DEF Applicable, Listed, Knows
<1>9. Listed(Boot) \in Roster
  BY <1>1, ListedIsRoster DEF IInv
<1>10. EntryIsNow'
  <2> SUFFICES ASSUME Following', ~RosterNews', \A u \in Task : ~Pending(u)'
               PROVE  /\ Listed(Boot) # Gone
                      /\ \A p \in Pane : ~NewsOf(p)' => Listed(Boot)[p] = rosters[Now][p]
    BY <1>1, <1>2 DEF EntryIsNow
  <2>1. Sound' /\ Sound
    BY <1>2 DEF Following
  <2>2. ~NewerRefresh(Boot)
    BY <1>6 DEF NewerRefresh
  <2> SUFFICES ASSUME NEW p \in Pane, ~NewsOf(p)' PROVE Listed(Boot)[p] = rosters[Now][p]
    BY <1>9, LocalAssumption DEF Roster
  <2>3. rosters[r][p] = rosters[Now][p] \/ NewerNews(r, p)
    BY <1>1, <1>8, <2>1, <2>2 DEF RInv, AnswerIsNow
  <2>4. NewerNews(r, p) => NewsOf(p)'
    BY <1>2, QueueEvents DEF NewerNews, NewsOf, RosterNews, IInv
  <2> QED BY <1>8, <2>1, <2>3, <2>4
<1>11. AnswerIsNow'
  <2> SUFFICES ASSUME NEW u \in Task, Sound', Applicable(u)', ~NewerRefresh(u)', NEW p \in Pane
               PROVE  \/ rosters[task'[u].read][p] = rosters[Now][p]
                      \/ NewerNews(task[u].read, p)'
    BY <1>1, <1>2 DEF AnswerIsNow
  <2>1. u # Boot /\ task'[u] = task[u] /\ task[u].read >= r
    BY <1>3, <1>8 DEF Applicable
  <2>2. seen \in Nat /\ r \in Nat /\ task[u].read \in Nat
    BY <1>1 DEF IInv, TypeOK, TasksOK, Refresh, ViewOK
  <2>3. Applicable(u) /\ ~NewerRefresh(u)
    BY <1>1, <1>3, <1>6, <1>8, <2>1, <2>2 DEF Applicable, NewerRefresh
  <2> QED BY <1>2, <2>1, <2>3 DEF RInv, AnswerIsNow, NewerNews
<1> QED BY <1>4, <1>5, <1>7, <1>10, <1>11 DEF RInv

\* The session is retired, forgotten or left by stop().
LEMMA LeavesKeeps ==
  ASSUME IInv, IInv', RInv, PingFails \/ ForgetSession \/ Stop PROVE RInv'
<1>1. UNCHANGED <<rosters, events, task, seen, boot>> /\ (Sound' => Sound)
  <2>1. UNCHANGED <<rosters, events, task, seen, boot>>
    BY DEF PingFails, ForgetSession, Stop, herdr, scan, entry
  <2>2. CASE PingFails
    <3>1. drift' = drift /\ (abandoned => abandoned')
      BY <2>2 DEF PingFails
    <3> QED BY <2>1, <3>1 DEF Sound
  <2>3. CASE ForgetSession \/ Stop
    <3>1. drift' = drift /\ abandoned' = abandoned
      BY <2>3 DEF ForgetSession, Stop, history
    <3> QED BY <2>1, <3>1 DEF Sound
  <2> QED BY <2>1, <2>2, <2>3
<1>2. task[Boot].stage = "idle"
  BY DEF PingFails, ForgetSession, Stop, Serving, IInv, Booting
<1>3. StatusInKey' /\ AskedUnread'
  <2>1. ASSUME NEW c \in Chan PROVE chan'[c] = chan[c] \/ chan'[c].queue = <<>>
    <3>1. Closed(c).queue = <<>>
      BY DEF Closed, IInv, TypeOK, ChanOK, Channel
    <3> QED BY <3>1 DEF PingFails, ForgetSession, Stop, ChannelClosed
  <2> QED BY <1>1, <2>1 DEF RInv, StatusInKey, AskedUnread
<1>4. CASE tracked' = None
  BY <1>1, <1>2, <1>3, <1>4, Untracked
<1>5. CASE tracked' # None
  <2>1. UNCHANGED <<tracked, chan, shown>>
    BY <1>5 DEF PingFails, ForgetSession, Stop
  <2> QED BY <1>1, <2>1, SameView DEF IInv
<1> QED BY <1>4, <1>5
-----------------------------------------------------------------------------
(* The theorem *)

LEMMA NextRInv == IInv /\ IInv' /\ RInv /\ [Next]_vars => RInv'
<1> SUFFICES ASSUME IInv, IInv', RInv, [Next]_vars PROVE RInv'
  OBVIOUS
<1>1. CASE Starts \/ PingReturns \/ Rescan \/ Visit \/ AddEndpoint \/ UNCHANGED vars
  <2>1. /\ UNCHANGED <<rosters, tracked, events, task, chan, shown, seen, boot>>
        /\ UNCHANGED <<drift, abandoned>>
    BY <1>1 DEF Starts, PingReturns, Rescan, Visit, AddEndpoint, vars, herdr, scan, track, entry, history
  <2>2. Sound' => Sound
    BY <2>1 DEF Sound
  <2> QED BY <2>1, <2>2, SameView DEF IInv
<1>2. CASE HerdrStep
  BY <1>1, <1>2, ChangesKeeps, StopsKeeps, ListReturnsKeeps, StageKeeps DEF HerdrStep
<1>3. CASE \E t \in Task : RefreshApplies(t)
  BY <1>3, RefreshAppliesKeeps
<1>4. CASE \E c \in Chan : CloseSeen(c) \/ OnEvent(c)
  BY <1>4, CloseSeenKeeps, OnEventKeeps
<1> QED BY <1>1, <1>2, <1>3, <1>4, AttachesKeeps, ResubscribesKeeps, LeavesKeeps, BootListsKeeps,
           BootAppliesKeeps DEF Next

LEMMA InitRInv == Init => RInv
<1> SUFFICES ASSUME Init PROVE RInv
  OBVIOUS
<1>1. /\ tracked = None /\ Current = None
      /\ \A t \in Task : task[t] = Idle
      /\ \A c \in Chan : chan[c] = NoChan
  BY DEF Init, Current
<1>2. StatusInKey /\ AskedUnread /\ BootIsTracked
  BY <1>1 DEF StatusInKey, AskedUnread, BootIsTracked, NoChan, Idle, Task
<1>3. AnswerIsNow
  BY <1>1 DEF AnswerIsNow, Applicable, Idle
<1> QED BY <1>1, <1>2, <1>3 DEF RInv, LastNewsIsNow, NewsIsPresent, KeyIsNow, EntryIsNow, Following

\* LocalHerdr: whatever rescans, refreshes, events and replaced channels overlap,
\* the registry shows herdr's roster once nothing is under way, unless a change
\* was missed, an answer was overtaken or an answer was lost.
THEOREM RegistryCurrent == Spec => []RosterCurrent
<1>1. ASSUME IInv, RInv PROVE RosterCurrent
  <2> SUFFICES ASSUME Settled, drift = {}, ~abandoned PROVE shown = rosters[Now]
    BY DEF RosterCurrent
  <2>1. Following /\ boot = "up" /\ Queue = <<>> /\ \A t \in Task : ~Pending(t)
    BY DEF Settled, Following, Sound, Holds, Queue, Pending
  <2>2. ~RosterNews /\ \A p \in Pane : ~NewsOf(p)
    BY <2>1 DEF RosterNews, NewsOf
  <2>3. shown # Gone /\ \A p \in Pane : shown[p] = rosters[Now][p]
    BY <1>1, <2>1, <2>2 DEF RInv, EntryIsNow
  <2>4. shown \in Roster /\ rosters[Now] \in Roster
    BY <1>1, <2>3, NowIsNat DEF IInv, TypeOK, ViewOK
  <2> QED BY <2>3, <2>4 DEF Roster
<1>2. Spec => []RInv
  BY InitRInv, NextRInv, Invariance, PTL DEF Spec
<1> QED BY <1>1, <1>2, Invariance, PTL
=============================================================================
