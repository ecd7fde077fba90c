----------------------------- MODULE TapsProofs -----------------------------
(***************************************************************************)
(* Theorems about the event taps over the tunnel, for any number of        *)
(* groups, connections and faults.                                         *)
(*                                                                         *)
(* SlotsExact is about sets of groups, but a step removes entries: it needs*)
(* that a group has one entry in all, awaited or live.  TapsEndWithTunnel  *)
(* needs to know which connections a running link still has (the current   *)
(* one; any other is closed, or retired by a reload) and that a number     *)
(* names one group of its connection, so that no tap displaces another in  *)
(* the map.  The same fact makes OwnEventsUnlessLeaked inductive, for the  *)
(* events already on the wire.                                             *)
(***************************************************************************)
EXTENDS TunnelTaps, TunnelProofs, FiniteSetTheorems

(* The parent's slots *)

Held(c) == pending[c] \cup subs[c]

GroupsAsked ==
  /\ slots \subseteq asked
  /\ \A c \in Conn : \A e \in Held(c) : e.group \in asked
OneEntryPerGroup ==
  \A c, d \in Conn : \A e \in Held(c), f \in Held(d) : e.group = f.group => c = d /\ e = f
AwaitedOrLive == \A c \in Conn : pending[c] \cap subs[c] = {}
LiveHasSlot   == \A c \in Conn : \A e \in subs[c] : e.group \in slots
SlotIsHeld    == \A g \in slots : \E c \in Conn : \E e \in Held(c) : e.group = g
SlotsCapped   == Cardinality(slots) <= MAX_SUB_GROUPS

SlotsIInv ==
  GroupsAsked /\ OneEntryPerGroup /\ AwaitedOrLive /\ LiveHasSlot /\ SlotIsHeld /\ SlotsCapped

(* The numbers of a connection *)

SeqIsBounded == \A c \in Conn : seq[c] <= Cardinality(asked)

Streamed(c, i, g) == \E t \in Tap : t.id = i /\ t.group = g /\ OnWire(c, Event(t))
Given(c, i, g) ==
  \/ \E e \in Held(c) : e.id = i /\ e.group = g
  \/ \E n \in DOMAIN down[c] : down[c][n].type = "sub" /\ down[c][n].id = i /\ down[c][n].group = g
  \/ \E t \in Tap : t.from = c /\ t.id = i /\ t.group = g /\ taps[t] # Closed
  \/ ~leaked /\ Streamed(c, i, g)

IdsAreGiven == \A c \in Conn, i \in Ids, g \in Group : Given(c, i, g) => i <= seq[c]
IdNamesGroup ==
  \A c \in Conn, i \in Ids, g, h \in Group : Given(c, i, g) /\ Given(c, i, h) => g = h

(* The child's connections *)

Dialled(c) == cend[c] # "idle"
LinkIsCurrent ==
  /\ ws \notin retired
  /\ ws # None => Dialled(ws)
  /\ \A c \in retired : Dialled(c)
  /\ \A c \in Conn : cend[c] \in {"connecting", "open"} /\ c \notin retired => c = ws
  /\ \A c \in Conn : cend[c] = "closing" => c \in retired
TapsDialled ==
  \A t \in Tap : taps[t] # Closed => cend[t.from] \in {"open", "closing", "closed"}

TapsIInv ==
  /\ TypeOK /\ TapsTypeOK
  /\ SlotsIInv
  /\ SeqIsBounded /\ IdsAreGiven /\ IdNamesGroup
  /\ LinkIsCurrent /\ TapsDialled
  /\ TapsEndWithTunnel /\ OwnEventsUnlessLeaked
-----------------------------------------------------------------------------
(* Frames from parent to child *)

Unsubs == {[type |-> "unsub", id |-> i] : i \in Ids}

LEMMA UnsubsFinite == IsFiniteSet(Unsubs)
<1> DEFINE f == [i \in Ids |-> [type |-> "unsub", id |-> i]]
<1>1. IsFiniteSet(Ids)
  BY TapsAssumption, FS_CardinalityType, FS_Interval DEF Ids
<1>2. f \in Surjection(Ids, Unsubs)
  BY DEF Surjection, Unsubs
<1> HIDE DEF f
<1> QED BY <1>1, <1>2, FS_Surjection

LEMMA UnsubSeq ==
  ASSUME NEW S \in SUBSET Unsubs
  PROVE  SetToSeq(S) \in Seq(Unsubs)
<1>1. IsFiniteSet(S)
  BY UnsubsFinite, FS_Subset
<1>2. Cardinality(S) \in Nat /\ ExistsBijection(1..Cardinality(S), S)
  BY <1>1, FS_CardinalityType
<1>3. \E f \in [1..Cardinality(S) -> S] : IsInjective(f)
  BY <1>2 DEF ExistsBijection, Bijection, Injection
<1>4. SetToSeq(S) \in [1..Cardinality(S) -> S]
  BY <1>3 DEF SetToSeq
<1> QED BY <1>2, <1>4

LEMMA ConcatIn ==
  ASSUME NEW S, NEW T, NEW q \in Seq(S), NEW r \in Seq(T), T \subseteq S
  PROVE  /\ q \o r \in Seq(S)
         /\ \A n \in DOMAIN (q \o r) :
              (q \o r)[n] \in T \/ (n \in DOMAIN q /\ (q \o r)[n] = q[n])
<1>1. r \in Seq(S)
  OBVIOUS
<1>2. q \o r \in Seq(S) /\ Len(q \o r) = Len(q) + Len(r) /\ Len(q) \in Nat /\ Len(r) \in Nat
  BY <1>1
<1>3. \A n \in 1..(Len(q) + Len(r)) :
        (q \o r)[n] = IF n <= Len(q) THEN q[n] ELSE r[n - Len(q)]
  BY <1>1
<1>4. \A n \in 1..Len(r) : r[n] \in T
  OBVIOUS
<1>5. DOMAIN (q \o r) = 1..(Len(q) + Len(r)) /\ DOMAIN q = 1..Len(q)
  BY <1>2
<1>6. ASSUME NEW n \in 1..(Len(q) + Len(r))
      PROVE  (q \o r)[n] \in T \/ (n \in DOMAIN q /\ (q \o r)[n] = q[n])
  <2>1. CASE n <= Len(q)
    BY <1>2, <1>3, <1>5, <2>1
  <2>2. CASE ~(n <= Len(q))
    <3>1. n - Len(q) \in 1..Len(r)
      BY <1>2, <2>2
    <3> QED BY <1>3, <1>4, <2>2, <3>1
  <2> QED BY <2>1, <2>2
<1> QED BY <1>2, <1>5, <1>6

\* Whatever a step sends or takes, its sub frames were there before.
NoNewSub ==
  /\ down' \in [Conn -> Seq(DownFrame)]
  /\ \A c \in Conn : \A n \in DOMAIN down'[c] :
       down'[c][n].type = "sub" => \E m \in DOMAIN down[c] : down'[c][n] = down[c][m]

LEMMA SentUnsubs ==
  ASSUME TapsTypeOK, NEW c \in Conn, NEW S \in SUBSET Unsubs
  PROVE  /\ Sent(c, SetToSeq(S)) \in Seq(DownFrame)
         /\ \A n \in DOMAIN Sent(c, SetToSeq(S)) : Sent(c, SetToSeq(S))[n].type = "sub" =>
              \E m \in DOMAIN down[c] : Sent(c, SetToSeq(S))[n] = down[c][m]
<1> DEFINE r == SetToSeq(S)
<1>1. r \in Seq(Unsubs)
  BY UnsubSeq
<1>2. down[c] \in Seq(DownFrame) /\ Unsubs \subseteq DownFrame /\ \A f \in Unsubs : f.type = "unsub"
  BY DEF TapsTypeOK, Unsubs, DownFrame
<1> HIDE DEF r
<1>3. /\ down[c] \o r \in Seq(DownFrame)
      /\ \A n \in DOMAIN (down[c] \o r) :
           (down[c] \o r)[n] \in Unsubs \/ (n \in DOMAIN down[c] /\ (down[c] \o r)[n] = down[c][n])
  BY <1>1, <1>2, ConcatIn
<1>4. \A n \in DOMAIN (down[c] \o r) : (down[c] \o r)[n].type = "sub" =>
        \E m \in DOMAIN down[c] : (down[c] \o r)[n] = down[c][m]
  BY <1>2, <1>3
<1>5. Sent(c, r) \in Seq(DownFrame)
      /\ \A n \in DOMAIN Sent(c, r) : Sent(c, r)[n].type = "sub" =>
           \E m \in DOMAIN down[c] : Sent(c, r)[n] = down[c][m]
  BY <1>2, <1>3, <1>4 DEF Sent
<1> QED BY <1>5 DEF r

\* Closing the subscriptions of some groups.
LEMMA CloseSubsFacts ==
  ASSUME TapsTypeOK, NEW gs, CloseSubs(gs)
  PROVE  /\ NoNewSub /\ subs' \in [Conn -> SUBSET Entry]
         /\ \A c \in Conn : subs'[c] = {e \in subs[c] : e.group \notin gs}
<1>1. \A c \in Conn : subs[c] \subseteq Entry
  BY DEF TapsTypeOK
<1>2. \A c \in Conn : subs'[c] = {e \in subs[c] : e.group \notin gs}
  BY DEF CloseSubs, SubsOf
<1>3. subs' \in [Conn -> SUBSET Entry]
  BY <1>1 DEF CloseSubs
<1>4. ASSUME NEW c \in Conn
      PROVE  /\ down'[c] \in Seq(DownFrame)
             /\ \A n \in DOMAIN down'[c] : down'[c][n].type = "sub" =>
                  \E m \in DOMAIN down[c] : down'[c][n] = down[c][m]
  <2> DEFINE S == {Unsub(e) : e \in SubsOf(c, gs)}
  <2>1. S \subseteq Unsubs
    BY <1>1 DEF Unsub, SubsOf, Unsubs, Entry
  <2>2. down'[c] = Sent(c, SetToSeq(S))
    BY DEF CloseSubs
  <2> HIDE DEF S
  <2> QED BY <2>1, <2>2, SentUnsubs
<1>5. NoNewSub
  BY <1>4 DEF CloseSubs, NoNewSub
<1> QED BY <1>2, <1>3, <1>5
-----------------------------------------------------------------------------
(* Slots and entries *)

\* Nothing is asked and no entry is made: what is left of them is exact if
\* what is live has a slot and every slot an entry.
LEMMA EntriesShrink ==
  ASSUME SlotsIInv, TapsTypeOK', asked' = asked, slots' \subseteq slots,
         IsFiniteSet(slots),
         \A c \in Conn : pending'[c] \subseteq pending[c] /\ Held(c)' \subseteq Held(c)
                         /\ pending'[c] \cap subs'[c] = {},
         LiveHasSlot', SlotIsHeld'
  PROVE  SlotsIInv'
<1>1. GroupsAsked'
  BY DEF SlotsIInv, GroupsAsked
<1>2. OneEntryPerGroup'
  BY DEF SlotsIInv, OneEntryPerGroup
<1>3. AwaitedOrLive'
  BY DEF AwaitedOrLive
<1>4. SlotsCapped'
  <2>1. IsFiniteSet(slots') /\ Cardinality(slots') <= Cardinality(slots)
    BY FS_Subset
  <2>2. Cardinality(slots') \in Nat /\ Cardinality(slots) \in Nat
    BY <2>1, FS_CardinalityType
  <2> QED BY <2>1, <2>2, TapsAssumption DEF SlotsIInv, SlotsCapped
<1> QED BY <1>1, <1>2, <1>3, <1>4 DEF SlotsIInv

LEMMA SlotsSame ==
  ASSUME SlotsIInv, UNCHANGED <<pending, subs, asked, slots>>
  PROVE  SlotsIInv'
BY DEF SlotsIInv, GroupsAsked, OneEntryPerGroup, AwaitedOrLive, LiveHasSlot, SlotIsHeld,
       SlotsCapped, Held

LEMMA SlotsFinite ==
  ASSUME TapsTypeOK
  PROVE  /\ IsFiniteSet(slots) /\ IsFiniteSet(asked)
         /\ Cardinality(slots) \in Nat /\ Cardinality(asked) \in Nat /\ Cardinality(Group) \in Nat
<1>1. IsFiniteSet(slots) /\ IsFiniteSet(asked)
  BY TapsAssumption, FS_Subset DEF TapsTypeOK
<1> QED BY <1>1, TapsAssumption, FS_CardinalityType
-----------------------------------------------------------------------------
(* Numbers *)

HeldKept   == \A c \in Conn : Held(c)' \subseteq Held(c)
TapsKept   == \A t \in Tap : taps'[t] # Closed => taps[t] # Closed
EventsKept == \A c \in Conn, t \in Tap : OnWire(c, Event(t))' => OnWire(c, Event(t))

LEMMA NumbersKept ==
  ASSUME SeqIsBounded, IdsAreGiven, IdNamesGroup, UNCHANGED <<seq, asked>>,
         \A c \in Conn, i \in Ids, g \in Group : Given(c, i, g)' => Given(c, i, g)
  PROVE  SeqIsBounded' /\ IdsAreGiven' /\ IdNamesGroup'
<1>1. SeqIsBounded'
  BY DEF SeqIsBounded
<1>2. IdsAreGiven'
  BY DEF IdsAreGiven
<1>3. IdNamesGroup'
  BY DEF IdNamesGroup
<1> QED BY <1>1, <1>2, <1>3

LEMMA StreamedKept ==
  ASSUME EventsKept, NEW c \in Conn, NEW i \in Ids, NEW g \in Group, Streamed(c, i, g)'
  PROVE  Streamed(c, i, g)
BY DEF EventsKept, Streamed

LEMMA GivenKept ==
  ASSUME NoNewSub, HeldKept, TapsKept, EventsKept, leaked => leaked',
         NEW c \in Conn, NEW i \in Ids, NEW g \in Group, Given(c, i, g)'
  PROVE  Given(c, i, g)
<1>1. CASE \E e \in Held(c)' : e.id = i /\ e.group = g
  BY <1>1 DEF HeldKept, Given
<1>2. CASE \E n \in DOMAIN down'[c] :
             down'[c][n].type = "sub" /\ down'[c][n].id = i /\ down'[c][n].group = g
  BY <1>2 DEF NoNewSub, Given
<1>3. CASE \E t \in Tap : t.from = c /\ t.id = i /\ t.group = g /\ taps'[t] # Closed
  BY <1>3 DEF TapsKept, Given
<1>4. CASE ~leaked' /\ Streamed(c, i, g)'
  BY <1>4, StreamedKept DEF Given
<1> QED BY <1>1, <1>2, <1>3, <1>4 DEF Given

\* The tunnel's own steps put no tapped event on the wire.
LEMMA TunnelPartEvents ==
  ASSUME TypeOK, TunnelPart
  PROVE  TypeOK' /\ EventsKept
<1>1. TypeOK'
  BY NextType DEF TunnelPart, Next
<1>2. ASSUME NEW c \in Conn, NEW t \in Tap, OnWire(c, Event(t))' PROVE OnWire(c, Event(t))
  <2> DEFINE f == Event(t)
  <2>1. f.type # "hello" /\ OnWire(c, f)'
    BY <1>2 DEF Event
  <2> HIDE DEF f
  <2>2. OnWire(c, f)
    BY <2>1, TunnelPartWire
  <2> QED BY <2>2 DEF f
<1> QED BY <1>1, <1>2 DEF EventsKept

LEMMA NothingSent ==
  ASSUME TapsTypeOK, down' = down
  PROVE  NoNewSub
BY DEF NoNewSub, TapsTypeOK

\* A step of the parent's side: nothing is asked, no tap changes.
LEMMA ParentSideKeeps ==
  ASSUME TapsIInv, TypeOK', TapsTypeOK', SlotsIInv', UNCHANGED <<childVars, childTaps, seq, asked>>,
         NoNewSub, HeldKept, EventsKept, OwnEventsUnlessLeaked'
  PROVE  TapsIInv'
<1>1. UNCHANGED <<ws, cend, retired, taps, leaked, tapOf, seq, asked>>
  BY DEF childVars, childTaps
<1>2. \A c \in Conn, i \in Ids, g \in Group : Given(c, i, g)' => Given(c, i, g)
  BY <1>1, GivenKept DEF TapsKept
<1>3. SeqIsBounded' /\ IdsAreGiven' /\ IdNamesGroup'
  BY <1>1, <1>2, NumbersKept DEF TapsIInv
<1>4. LinkIsCurrent' /\ TapsDialled' /\ TapsEndWithTunnel'
  BY <1>1 DEF TapsIInv, LinkIsCurrent, Dialled, TapsDialled, TapsEndWithTunnel
<1> QED BY <1>3, <1>4 DEF TapsIInv

\* A step of the child's side: the parent's entries and slots stay.
LEMMA ChildSideKeeps ==
  ASSUME TapsIInv, TypeOK', TapsTypeOK', UNCHANGED <<parentTaps, clientVars>>,
         NoNewSub, TapsKept, EventsKept, leaked => leaked',
         LinkIsCurrent', TapsDialled', TapsEndWithTunnel'
  PROVE  TapsIInv'
<1>1. UNCHANGED <<seq, pending, subs, asked, slots, got>>
  BY DEF parentTaps, clientVars
<1>2. SlotsIInv'
  BY <1>1, SlotsSame DEF TapsIInv
<1>3. \A c \in Conn, i \in Ids, g \in Group : Given(c, i, g)' => Given(c, i, g)
  BY <1>1, GivenKept DEF HeldKept, Held
<1>4. SeqIsBounded' /\ IdsAreGiven' /\ IdNamesGroup'
  BY <1>1, <1>3, NumbersKept DEF TapsIInv
<1>5. OwnEventsUnlessLeaked'
  BY <1>1 DEF TapsIInv, OwnEventsUnlessLeaked
<1> QED BY <1>2, <1>4, <1>5 DEF TapsIInv
-----------------------------------------------------------------------------
(* The parent's steps *)

LEMMA ClosingKeeps ==
  ASSUME TapsIInv, NEW g, Unsubscribe(g) \/ ClientCloses
  PROVE  TapsIInv'
<1>1. PICK gs \in SUBSET slots : /\ CloseSubs(gs) /\ slots' = slots \ gs
  BY DEF Unsubscribe, ClientCloses
<1>2. UNCHANGED <<vars, seq, pending, asked, got, childTaps>> /\ client' \in BOOLEAN
  BY DEF Unsubscribe, ClientCloses, TapsIInv, TapsTypeOK
<1>3. TapsTypeOK /\ NoNewSub /\ subs' \in [Conn -> SUBSET Entry]
      /\ \A c \in Conn : subs'[c] = {e \in subs[c] : e.group \notin gs}
  BY <1>1, CloseSubsFacts DEF TapsIInv
<1>4. TapsTypeOK'
  BY <1>1, <1>2, <1>3 DEF TapsTypeOK, NoNewSub, childTaps
<1>5. TypeOK' /\ EventsKept
  BY <1>2, TunnelPartEvents DEF TapsIInv, TunnelPart
<1>6. HeldKept
  BY <1>2, <1>3 DEF HeldKept, Held
<1>7. LiveHasSlot'
  BY <1>1, <1>3 DEF TapsIInv, SlotsIInv, LiveHasSlot
<1>8. SlotIsHeld'
  <2>1. ASSUME NEW h \in slots' PROVE \E c \in Conn : \E e \in Held(c)' : e.group = h
    <3>1. PICK c \in Conn : \E e \in Held(c) : e.group = h
      BY <1>1 DEF TapsIInv, SlotsIInv, SlotIsHeld
    <3> QED BY <1>1, <1>2, <1>3, <3>1 DEF Held
  <2> QED BY <2>1 DEF SlotIsHeld
<1>9. SlotsIInv'
  <2>1. \A c \in Conn : pending'[c] \subseteq pending[c] /\ Held(c)' \subseteq Held(c)
                         /\ pending'[c] \cap subs'[c] = {}
    BY <1>2, <1>3, <1>6 DEF HeldKept, TapsIInv, SlotsIInv, AwaitedOrLive
  <2> QED BY <1>1, <1>2, <1>3, <1>4, <1>7, <1>8, <2>1, EntriesShrink, SlotsFinite DEF TapsIInv
<1>10. OwnEventsUnlessLeaked'
  BY <1>2 DEF TapsIInv, OwnEventsUnlessLeaked, childTaps
<1> QED BY <1>2, <1>3, <1>4, <1>5, <1>6, <1>9, <1>10, ParentSideKeeps DEF vars

\* Entries leave with their groups' slots: those whose ack timed out, failed or
\* came for nobody, whose tap ended, or whose connection is gone.
LEMMA EntriesLeave ==
  ASSUME TapsIInv, TypeOK', EventsKept, NoNewSub, NEW E, NEW L \in SUBSET E,
         UNCHANGED <<childVars, childTaps, seq, asked, got, client>>,
         NEW c \in Conn, E \subseteq Held(c),
         slots' = slots \ Groups(E \ L),
         pending' = [pending EXCEPT ![c] = pending[c] \ E],
         subs' = [subs EXCEPT ![c] = (subs[c] \ E) \cup L],
         L \subseteq pending[c], \A e \in L : e.group \in slots
  PROVE  TapsIInv'
<1>1. /\ pending'[c] = pending[c] \ E /\ subs'[c] = (subs[c] \ E) \cup L
      /\ \A d \in Conn : d # c => pending'[d] = pending[d] /\ subs'[d] = subs[d]
  BY DEF TapsIInv, TapsTypeOK
<1>2. TapsTypeOK'
  BY DEF TapsIInv, TapsTypeOK, NoNewSub, childTaps, Held
<1>3. HeldKept
  BY <1>1 DEF HeldKept, Held
<1>4. \A g : g \in Groups(E \ L) <=> \E e \in E \ L : e.group = g
  BY DEF Groups
<1>5. \A d \in Conn : \A f \in Held(d), e \in E : f.group = e.group => d = c /\ f = e
  BY DEF TapsIInv, SlotsIInv, OneEntryPerGroup
<1>6. LiveHasSlot'
  <2>1. ASSUME NEW d \in Conn, NEW e \in subs'[d] PROVE e.group \in slots /\ e.group \notin Groups(E \ L)
    <3>1. e \in Held(d) /\ e.group \in slots /\ (d = c => e \notin E \ L)
      <4>1. CASE d = c /\ e \in L
        BY <4>1 DEF Held
      <4>2. CASE ~(d = c /\ e \in L)
        <5>1. e \in subs[d] /\ ~(d = c /\ e \in E)
          BY <1>1, <2>1, <4>2
        <5> QED BY <5>1 DEF Held, TapsIInv, SlotsIInv, LiveHasSlot
      <4> QED BY <4>1, <4>2
    <3>2. ASSUME NEW f \in E \ L, f.group = e.group PROVE FALSE
      <4>1. d = c /\ e = f
        BY <1>5, <3>1, <3>2
      <4> QED BY <3>1, <4>1
    <3> QED BY <1>4, <3>1, <3>2
  <2> QED BY <2>1 DEF LiveHasSlot
<1>7. SlotIsHeld'
  <2>1. ASSUME NEW g \in slots' PROVE \E d \in Conn : \E e \in Held(d)' : e.group = g
    <3>1. g \in slots /\ g \notin Groups(E \ L)
      OBVIOUS
    <3>2. PICK d \in Conn : \E e \in Held(d) : e.group = g
      BY <3>1 DEF TapsIInv, SlotsIInv, SlotIsHeld
    <3>3. PICK e \in Held(d) : e.group = g
      BY <3>2
    <3>4. e \notin E \ L
      BY <1>4, <3>1, <3>3
    <3>5. e \in Held(d)'
      BY <1>1, <3>3, <3>4 DEF Held
    <3> QED BY <3>3, <3>5
  <2> QED BY <2>1 DEF SlotIsHeld
<1>8. SlotsIInv'
  <2>1. \A d \in Conn : pending'[d] \subseteq pending[d] /\ Held(d)' \subseteq Held(d)
                         /\ pending'[d] \cap subs'[d] = {}
    <3> SUFFICES ASSUME NEW d \in Conn PROVE pending'[d] \subseteq pending[d] /\ pending'[d] \cap subs'[d] = {}
      BY <1>3 DEF HeldKept
    <3>1. pending[d] \cap subs[d] = {}
      BY DEF TapsIInv, SlotsIInv, AwaitedOrLive
    <3> QED BY <1>1, <3>1
  <2> QED BY <1>2, <1>6, <1>7, <2>1, EntriesShrink, SlotsFinite DEF TapsIInv
<1>9. OwnEventsUnlessLeaked'
  BY DEF TapsIInv, OwnEventsUnlessLeaked, childTaps
<1> QED BY <1>2, <1>3, <1>8, <1>9, ParentSideKeeps

\* The frames for the parent's calls, and their fields.
LEMMA TapFrame ==
  ASSUME NEW f \in Frame
  PROVE  /\ f.type = "res" => \E t \in Tap : f = Res(t, TRUE) \/ f = Res(t, FALSE)
         /\ f.type = "event" /\ f.kind = "herdr_event" => \E t \in Tap : f = Event(t)
         /\ f.type = "event" /\ f.kind = "sub_closed" => \E t \in Tap : f = SubClosed(t)
<1>1. (f.type = "res" \/ (f.type = "event" /\ f.kind \in {"herdr_event", "sub_closed"}))
        => f \in CallFrame
  BY DEF Frame
<1>2. f \in CallFrame => \E t \in Tap : f \in {Res(t, TRUE), Res(t, FALSE), Event(t), SubClosed(t)}
  BY TapsAssumption
<1>3. \A t \in Tap : /\ Res(t, TRUE).type = "res" /\ Res(t, FALSE).type = "res"
                     /\ Event(t).type = "event" /\ Event(t).kind = "herdr_event"
                     /\ SubClosed(t).type = "event" /\ SubClosed(t).kind = "sub_closed"
  BY DEF Res, Event, SubClosed
<1> QED BY <1>1, <1>2, <1>3

\* What a frame of the parent's calls finds at the parent.
LEMMA RouteReads ==
  ASSUME TapsIInv, NEW c \in Conn, Route(c)
  PROVE  /\ OnWire(c, Head(up[c])) /\ Head(up[c]) \in Frame
         /\ TypeOK' /\ EventsKept /\ UNCHANGED childVars
BY ReceivesWire, TunnelPartEvents DEF Route, Receives, TapsIInv, TunnelPart, ParentStep

LEMMA AckKeeps ==
  ASSUME TapsIInv, NEW c \in Conn, Ack(c)
  PROVE  TapsIInv'
<1> DEFINE f == Head(up[c])
<1> DEFINE E == {e \in pending[c] : e.id = f.id}
<1> DEFINE L == {e \in E : f.ok /\ StillWanted(e)}
<1> DEFINE moot == {e \in E : f.ok /\ ~StillWanted(e)}
<1>1. /\ Route(c) /\ UNCHANGED <<seq, asked, client, got, childTaps>>
      /\ pending' = [pending EXCEPT ![c] = pending[c] \ E]
      /\ subs' = [subs EXCEPT ![c] = subs[c] \cup L]
      /\ slots' = IF f.ok THEN slots ELSE slots \ Groups(E)
      /\ down' = [down EXCEPT ![c] = Sent(c, SetToSeq({Unsub(e) : e \in moot}))]
  BY DEF Ack
<1>2. TypeOK' /\ EventsKept /\ UNCHANGED childVars
  BY <1>1, RouteReads
<1>3. pending[c] \subseteq Entry /\ TapsTypeOK
  BY DEF TapsIInv, TapsTypeOK
<1>4. NoNewSub
  <2> DEFINE S == {Unsub(e) : e \in moot}
  <2>1. S \subseteq Unsubs
    BY <1>3 DEF Unsub, Unsubs, Entry
  <2>2. down' = [down EXCEPT ![c] = Sent(c, SetToSeq(S))]
    BY <1>1
  <2> HIDE DEF S
  <2>3. /\ Sent(c, SetToSeq(S)) \in Seq(DownFrame)
        /\ \A n \in DOMAIN Sent(c, SetToSeq(S)) : Sent(c, SetToSeq(S))[n].type = "sub" =>
              \E m \in DOMAIN down[c] : Sent(c, SetToSeq(S))[n] = down[c][m]
    BY <1>3, <2>1, SentUnsubs
  <2>4. down'[c] = Sent(c, SetToSeq(S)) /\ \A d \in Conn : d # c => down'[d] = down[d]
    BY <2>2, <1>3 DEF TapsTypeOK
  <2>5. down' \in [Conn -> Seq(DownFrame)]
    BY <1>3, <2>2, <2>3 DEF TapsTypeOK
  <2>6. ASSUME NEW d \in Conn, NEW n \in DOMAIN down'[d], down'[d][n].type = "sub"
        PROVE  \E m \in DOMAIN down[d] : down'[d][n] = down[d][m]
    BY <2>3, <2>4, <2>6
  <2> QED BY <2>5, <2>6 DEF NoNewSub
<1>5. subs[c] \cap E = {}
  BY DEF TapsIInv, SlotsIInv, AwaitedOrLive
<1>6. L \in SUBSET E /\ L \subseteq pending[c] /\ E \subseteq Held(c) /\ \A e \in L : e.group \in slots
  BY DEF StillWanted, Held
<1>7. slots' = slots \ Groups(E \ L)
  <2>1. CASE f.ok
    <3>1. \A e \in E \ L : e.group \notin slots
      BY <2>1 DEF StillWanted
    <3>2. Groups(E \ L) \cap slots = {}
      BY <3>1 DEF Groups
    <3> QED BY <1>1, <2>1, <3>2
  <2>2. CASE ~f.ok
    <3>1. L = {}
      BY <2>2
    <3> QED BY <1>1, <2>2, <3>1
  <2> QED BY <2>1, <2>2
<1>8. subs[c] \cup L = (subs[c] \ E) \cup L
  BY <1>5
<1> HIDE DEF E, L
<1> QED BY <1>1, <1>2, <1>4, <1>6, <1>7, <1>8, EntriesLeave

\* A subscription's timer: its entry goes, with its group's slot.
LEMMA TimeoutKeeps ==
  ASSUME TapsIInv, NEW c \in Conn, NEW e \in pending[c], SubscribeTimeout(c, e)
  PROVE  TapsIInv'
<1>1. /\ UNCHANGED <<childVars, up, parentVars, changes, down, seq, subs, asked, client, got, childTaps>>
      /\ pending' = [pending EXCEPT ![c] = pending[c] \ {e}]
      /\ slots' = slots \ {e.group} /\ faults < MaxFault /\ faults' = faults + 1
  BY DEF SubscribeTimeout
<1>2. TypeOK'
  <2>1. faults' \in 0..MaxFault
    BY <1>1, TunnelAssumption DEF TapsIInv, TypeOK
  <2> QED BY <1>1, <2>1 DEF TapsIInv, TypeOK, childVars, parentVars
<1>3. EventsKept
  BY <1>1 DEF EventsKept, OnWire, Event
<1>4. NoNewSub
  BY <1>1, NothingSent DEF TapsIInv
<1>5. e \notin subs[c]
  BY DEF TapsIInv, SlotsIInv, AwaitedOrLive
<1> DEFINE E == {e}
<1>6. Groups(E \ {}) = {e.group}
  BY DEF Groups
<1>7. subs' = [subs EXCEPT ![c] = (subs[c] \ E) \cup {}]
  BY <1>1, <1>5 DEF TapsIInv, TapsTypeOK
<1>8. E \subseteq Held(c) /\ {} \in SUBSET E /\ {} \subseteq pending[c]
      /\ \A x \in {} : x.group \in slots
  BY DEF Held
<1>9. pending' = [pending EXCEPT ![c] = pending[c] \ E]
  BY <1>1
<1> HIDE DEF E
<1> QED BY <1>1, <1>2, <1>3, <1>4, <1>6, <1>7, <1>8, <1>9, EntriesLeave

\* The end of a live subscription's tap.
LEMMA TapEndKeeps ==
  ASSUME TapsIInv, NEW c \in Conn, TapEndRouted(c)
  PROVE  TapsIInv'
<1> DEFINE E == {e \in subs[c] : e.id = Head(up[c]).id}
<1>1. /\ Route(c) /\ UNCHANGED <<down, seq, pending, asked, client, got, childTaps>>
      /\ subs' = [subs EXCEPT ![c] = subs[c] \ E]
      /\ slots' = slots \ Groups(E)
  BY DEF TapEndRouted
<1>2. TypeOK' /\ EventsKept /\ UNCHANGED childVars
  BY <1>1, RouteReads
<1>3. NoNewSub
  BY <1>1, NothingSent DEF TapsIInv
<1>4. pending[c] \cap E = {} /\ E \subseteq Held(c)
  BY DEF TapsIInv, SlotsIInv, AwaitedOrLive, Held
<1> HIDE DEF E
<1>5. pending' = [pending EXCEPT ![c] = pending[c] \ E]
  BY <1>1, <1>4 DEF TapsIInv, TapsTypeOK
<1>6. subs' = [subs EXCEPT ![c] = (subs[c] \ E) \cup {}] /\ slots' = slots \ Groups(E \ {})
  BY <1>1
<1>7. {} \in SUBSET E /\ {} \subseteq pending[c] /\ \A x \in {} : x.group \in slots
  OBVIOUS
<1> QED BY <1>1, <1>2, <1>3, <1>4, <1>5, <1>6, <1>7, EntriesLeave

\* The end of a connection at the parent takes all of its entries.
LEMMA GoneKeeps ==
  ASSUME TapsIInv, NEW c \in Conn, ParentGone(c)
  PROVE  TapsIInv'
<1> DEFINE E == Held(c)
<1>1. /\ UNCHANGED <<down, seq, asked, client, got, childTaps, childVars>> /\ TunnelPart
      /\ pending' = [pending EXCEPT ![c] = {}]
      /\ subs' = [subs EXCEPT ![c] = {}]
      /\ slots' = slots \ Groups(E)
  BY DEF ParentGone, TunnelPart, ParentStep, ParentClosed, ParentFails, ParentEnd, SlotsAfter, Held
<1>2. TypeOK' /\ EventsKept
  BY <1>1, TunnelPartEvents DEF TapsIInv
<1>3. NoNewSub
  BY <1>1, NothingSent DEF TapsIInv
<1>4. pending[c] \ E = {} /\ (subs[c] \ E) \cup {} = {} /\ E \ {} = E
  BY DEF Held
<1>5. {} \in SUBSET E /\ {} \subseteq pending[c] /\ \A x \in {} : x.group \in slots
  OBVIOUS
<1> HIDE DEF E
<1>6. /\ pending' = [pending EXCEPT ![c] = pending[c] \ E]
      /\ subs' = [subs EXCEPT ![c] = (subs[c] \ E) \cup {}]
      /\ slots' = slots \ Groups(E \ {})
  BY <1>1, <1>4
<1>7. E \subseteq Held(c)
  BY DEF E
<1> QED BY <1>1, <1>2, <1>3, <1>5, <1>6, <1>7, EntriesLeave

\* An event reaches the groups of its number on its connection.
LEMMA TapEventKeeps ==
  ASSUME TapsIInv, NEW c \in Conn, TapEventRouted(c)
  PROVE  TapsIInv'
<1> DEFINE f == Head(up[c])
<1>1. /\ Route(c) /\ f.type = "event" /\ f.kind = "herdr_event"
      /\ got' = got \cup {<<e.group, f.group>> : e \in {e \in subs[c] : e.id = f.id}}
      /\ UNCHANGED <<down, parentTaps, asked, client, slots, childTaps>>
  BY DEF TapEventRouted
<1>2. OnWire(c, f) /\ f \in Frame /\ TypeOK' /\ EventsKept /\ UNCHANGED childVars
  BY <1>1, RouteReads
<1>3. PICK t \in Tap : f = Event(t)
  BY <1>1, <1>2, TapFrame
<1>4. f.id = t.id /\ f.group = t.group /\ t.id \in Ids /\ t.group \in Group /\ OnWire(c, Event(t))
  BY <1>2, <1>3 DEF Event, Tap
<1> HIDE DEF f
<1>5. UNCHANGED <<seq, pending, subs, leaked>>
  BY <1>1 DEF parentTaps, childTaps
<1>6. NoNewSub
  BY <1>1, NothingSent DEF TapsIInv
<1>7. TapsTypeOK'
  <2>1. subs[c] \subseteq Entry
    BY DEF TapsIInv, TapsTypeOK
  <2>2. got' \subseteq Group \X Group
    BY <1>1, <1>4, <2>1 DEF TapsIInv, TapsTypeOK, Entry
  <2> QED BY <1>1, <2>2 DEF TapsIInv, TapsTypeOK, parentTaps, childTaps
<1>8. SlotsIInv'
  BY <1>1, <1>5, SlotsSame DEF TapsIInv
<1>9. OwnEventsUnlessLeaked'
  <2> SUFFICES ASSUME ~leaked, NEW e \in subs[c], e.id = t.id PROVE e.group = t.group
    BY <1>1, <1>4, <1>5 DEF TapsIInv, OwnEventsUnlessLeaked
  <2>1. e.id \in Ids /\ e.group \in Group
    BY DEF TapsIInv, TapsTypeOK, Entry
  <2>2. Given(c, t.id, e.group)
    BY DEF Given, Held
  <2>3. Given(c, t.id, t.group)
    BY <1>4 DEF Given, Streamed
  <2> QED BY <1>4, <2>1, <2>2, <2>3 DEF TapsIInv, IdNamesGroup
<1>10. HeldKept
  BY <1>5 DEF HeldKept, Held
<1> QED BY <1>1, <1>2, <1>5, <1>6, <1>7, <1>8, <1>9, <1>10, ParentSideKeeps

\* A new subscription has a group, a number and a slot of its own.
LEMMA SubscribeKeeps ==
  ASSUME TapsIInv, NEW g \in Group, Subscribe(g)
  PROVE  TapsIInv'
<1> DEFINE i == seq[hub] + 1
<1> DEFINE entry == [id |-> i, group |-> g]
<1>1. UNCHANGED <<vars, subs, client, got, childTaps>> /\ g \notin asked /\ hub \in Conn
      /\ Cardinality(slots) < MAX_SUB_GROUPS
  BY DEF Subscribe, SlotFree, TapsIInv, TypeOK
<1>2. /\ asked' = asked \cup {g} /\ slots' = slots \cup {g}
      /\ seq' = [seq EXCEPT ![hub] = i]
      /\ pending' = [pending EXCEPT ![hub] = pending[hub] \cup {entry}]
      /\ down' = [down EXCEPT ![hub] = Sent(hub, <<Sub(entry)>>)]
  BY DEF Subscribe, NextSub
<1>3. i \in Ids /\ seq[hub] \in Nat /\ Cardinality(asked') = Cardinality(asked) + 1
      /\ Cardinality(asked) \in Nat
  <2>1. asked \subseteq Group /\ asked' \subseteq Group
    BY <1>2 DEF TapsIInv, TapsTypeOK
  <2>2. IsFiniteSet(asked) /\ Cardinality(asked) \in Nat /\ Cardinality(Group) \in Nat
    BY SlotsFinite DEF TapsIInv
  <2>3. Cardinality(asked') = Cardinality(asked) + 1
    BY <1>1, <1>2, <2>2, FS_AddElement
  <2>4. Cardinality(asked') <= Cardinality(Group)
    BY <2>1, TapsAssumption, FS_Subset
  <2>5. seq[hub] \in 0..Cardinality(Group) /\ seq[hub] <= Cardinality(asked)
    BY <1>1 DEF TapsIInv, TapsTypeOK, SeqIsBounded
  <2> QED BY <2>2, <2>3, <2>4, <2>5 DEF Ids
<1>4. entry \in Entry /\ entry.id = i /\ entry.group = g
  BY <1>3 DEF Entry
<1> HIDE DEF entry
<1>5. /\ pending'[hub] = pending[hub] \cup {entry} /\ seq'[hub] = i
      /\ \A c \in Conn : c # hub => pending'[c] = pending[c] /\ seq'[c] = seq[c]
  BY <1>1, <1>2 DEF TapsIInv, TapsTypeOK
<1> HIDE DEF i
<1>6. down' \in [Conn -> Seq(DownFrame)]
      /\ \A c \in Conn : \A n \in DOMAIN down'[c] :
           (c = hub /\ down'[c][n] = Sub(entry)) \/ (n \in DOMAIN down[c] /\ down'[c][n] = down[c][n])
  <2>1. down[hub] \in Seq(DownFrame) /\ Sub(entry) \in DownFrame
    BY <1>1, <1>4 DEF TapsIInv, TapsTypeOK, Sub, DownFrame, Entry
  <2>2. <<Sub(entry)>> \in Seq({Sub(entry)}) /\ {Sub(entry)} \subseteq DownFrame
    BY <2>1
  <2>3. /\ down[hub] \o <<Sub(entry)>> \in Seq(DownFrame)
        /\ \A n \in DOMAIN (down[hub] \o <<Sub(entry)>>) :
             \/ (down[hub] \o <<Sub(entry)>>)[n] \in {Sub(entry)}
             \/ n \in DOMAIN down[hub] /\ (down[hub] \o <<Sub(entry)>>)[n] = down[hub][n]
    BY <2>1, <2>2, ConcatIn
  <2>4. down'[hub] = Sent(hub, <<Sub(entry)>>) /\ \A c \in Conn : c # hub => down'[c] = down[c]
    BY <1>1, <1>2 DEF TapsIInv, TapsTypeOK
  <2>5. down'[hub] = down[hub] \/ down'[hub] = down[hub] \o <<Sub(entry)>>
    BY <2>4 DEF Sent
  <2>6. down' \in [Conn -> Seq(DownFrame)]
    BY <1>2, <2>1, <2>3, <2>4, <2>5 DEF TapsIInv, TapsTypeOK
  <2> QED BY <2>3, <2>4, <2>5, <2>6
<1>7. TapsTypeOK'
  <2>1. pending' \in [Conn -> SUBSET Entry]
    BY <1>2, <1>4 DEF TapsIInv, TapsTypeOK
  <2>2. i \in 0..Cardinality(Group)
    BY <1>3, SlotsFinite DEF Ids, TapsIInv
  <2>3. seq' \in [Conn -> 0..Cardinality(Group)]
    BY <1>2, <2>2 DEF TapsIInv, TapsTypeOK
  <2> QED BY <1>1, <1>2, <1>6, <2>1, <2>3 DEF TapsIInv, TapsTypeOK, childTaps
<1>8. TypeOK' /\ EventsKept
  BY <1>1, TunnelPartEvents DEF TapsIInv, TunnelPart
<1>9. \A c \in Conn : \A e \in Held(c)' : e \in Held(c) \/ (c = hub /\ e = entry)
  BY <1>1, <1>5 DEF Held
<1>10. \A c \in Conn : \A e \in Held(c) : e.group # g /\ e \in Held(c)'
  BY <1>1, <1>5 DEF Held, TapsIInv, SlotsIInv, GroupsAsked
<1>11. SlotsIInv'
  <2>1. GroupsAsked'
    BY <1>2, <1>4, <1>9 DEF TapsIInv, SlotsIInv, GroupsAsked
  <2>2. OneEntryPerGroup'
    BY <1>4, <1>9, <1>10 DEF TapsIInv, SlotsIInv, OneEntryPerGroup
  <2>3. AwaitedOrLive'
    BY <1>1, <1>4, <1>5, <1>10 DEF TapsIInv, SlotsIInv, AwaitedOrLive, Held
  <2>4. LiveHasSlot'
    BY <1>1, <1>2 DEF TapsIInv, SlotsIInv, LiveHasSlot
  <2>5. SlotIsHeld'
    <3>1. \A c \in Conn : c = hub => entry \in Held(c)'
      BY <1>5 DEF Held
    <3>2. ASSUME NEW h \in slots' PROVE \E c \in Conn : \E e \in Held(c)' : e.group = h
      <4>1. CASE h = g
        BY <1>1, <1>4, <3>1, <4>1
      <4>2. CASE h # g
        <5>1. h \in slots
          BY <1>2, <4>2
        <5> QED BY <1>10, <5>1 DEF TapsIInv, SlotsIInv, SlotIsHeld
      <4> QED BY <4>1, <4>2
    <3> QED BY <3>2 DEF SlotIsHeld
  <2>6. SlotsCapped'
    <3>1. g \notin slots
      BY <1>1 DEF TapsIInv, SlotsIInv, GroupsAsked
    <3>2. Cardinality(slots') = Cardinality(slots) + 1 /\ Cardinality(slots) \in Nat
      BY <1>2, <3>1, SlotsFinite, FS_AddElement DEF TapsIInv
    <3> QED BY <1>1, <3>2, TapsAssumption DEF SlotsCapped
  <2> QED BY <2>1, <2>2, <2>3, <2>4, <2>5, <2>6 DEF SlotsIInv
<1>12. ASSUME NEW c \in Conn, NEW n \in Ids, NEW h \in Group, Given(c, n, h)'
       PROVE  Given(c, n, h) \/ (c = hub /\ n = i /\ h = g)
  <2>1. CASE \E e \in Held(c)' : e.id = n /\ e.group = h
    BY <1>4, <1>9, <2>1 DEF Given
  <2>2. CASE \E m \in DOMAIN down'[c] :
               down'[c][m].type = "sub" /\ down'[c][m].id = n /\ down'[c][m].group = h
    BY <1>4, <1>6, <2>2 DEF Given, Sub
  <2>3. CASE \E t \in Tap : t.from = c /\ t.id = n /\ t.group = h /\ taps'[t] # Closed
    BY <1>1, <2>3 DEF Given, childTaps
  <2>4. CASE ~leaked' /\ Streamed(c, n, h)'
    BY <1>1, <1>8, <2>4, StreamedKept DEF Given, childTaps
  <2> QED BY <1>12, <2>1, <2>2, <2>3, <2>4 DEF Given
<1>13. \A c \in Conn : seq[c] <= seq'[c] /\ seq[c] \in Int /\ seq'[c] \in Int /\ seq'[c] <= seq[c] + 1
  <2>1. \A c \in Conn : seq[c] \in Int /\ seq'[c] \in Int
    BY <1>7 DEF TapsIInv, TapsTypeOK
  <2>2. seq'[hub] = seq[hub] + 1
    BY <1>5 DEF i
  <2> QED BY <1>5, <2>1, <2>2
<1>14. IdsAreGiven'
  BY <1>3, <1>5, <1>12, <1>13 DEF TapsIInv, IdsAreGiven, Ids
<1>15. \A h \in Group : ~Given(hub, i, h)
  BY <1>1, <1>3 DEF i, TapsIInv, IdsAreGiven
<1>16. IdNamesGroup'
  BY <1>12, <1>15 DEF TapsIInv, IdNamesGroup
<1>17. SeqIsBounded'
  BY <1>3, <1>13 DEF TapsIInv, SeqIsBounded
<1>18. /\ LinkIsCurrent' /\ TapsDialled' /\ TapsEndWithTunnel' /\ OwnEventsUnlessLeaked'
  BY <1>1 DEF TapsIInv, LinkIsCurrent, Dialled, TapsDialled, TapsEndWithTunnel,
              OwnEventsUnlessLeaked, vars, childVars, childTaps
<1> QED BY <1>7, <1>8, <1>11, <1>14, <1>16, <1>17, <1>18 DEF TapsIInv
-----------------------------------------------------------------------------
(* The child's steps *)

LEMMA ReceiveFacts ==
  ASSUME TapsTypeOK, NEW c \in Conn, Receive(c)
  PROVE  /\ NoNewSub /\ Head(down[c]) \in DownFrame
         /\ \E m \in DOMAIN down[c] : Head(down[c]) = down[c][m]
<1>1. down[c] \in Seq(DownFrame) /\ down[c] # <<>>
  BY DEF Receive, TapsTypeOK
<1>2. down'[c] = Tail(down[c]) /\ \A d \in Conn : d # c => down'[d] = down[d]
  BY DEF Receive, TapsTypeOK
<1>3. /\ Tail(down[c]) \in Seq(DownFrame) /\ Head(down[c]) \in DownFrame
      /\ \A n \in DOMAIN Tail(down[c]) : \E m \in DOMAIN down[c] : Tail(down[c])[n] = down[c][m]
      /\ \E m \in DOMAIN down[c] : Head(down[c]) = down[c][m]
  BY <1>1, TailIn
<1>4. down' \in [Conn -> Seq(DownFrame)]
  BY <1>3 DEF Receive, TapsTypeOK
<1>5. ASSUME NEW d \in Conn, NEW n \in DOMAIN down'[d]
      PROVE  \E m \in DOMAIN down[d] : down'[d][n] = down[d][m]
  <2>1. CASE d = c
    BY <1>2, <1>3, <2>1
  <2>2. CASE d # c
    BY <1>2, <2>2
  <2> QED BY <2>1, <2>2
<1> QED BY <1>3, <1>4, <1>5 DEF NoNewSub

LEMMA TapOpensKeeps ==
  ASSUME TapsIInv, NEW c \in Conn, TapOpens(c)
  PROVE  TapsIInv'
<1> DEFINE f == Head(down[c])
<1> DEFINE t == [id |-> f.id, group |-> f.group, from |-> c]
<1>1. /\ Receive(c) /\ f.type = "sub" /\ tapOf' = tapOf
      /\ taps' = [taps EXCEPT ![t] = Opening]
      /\ UNCHANGED <<vars, parentTaps, clientVars, leaked>> /\ cend[c] \in {"open", "closing"}
  BY DEF TapOpens, Receive
<1>2. NoNewSub /\ f \in DownFrame /\ \E m \in DOMAIN down[c] : f = down[c][m]
  BY <1>1, ReceiveFacts DEF TapsIInv
<1>3. t \in Tap /\ t.id = f.id /\ t.group = f.group /\ t.from = c
  BY <1>1, <1>2 DEF DownFrame, Tap
<1>4. Given(c, f.id, f.group)
  BY <1>1, <1>2 DEF Given
<1> HIDE DEF f, t
<1>5. taps'[t] = Opening /\ \A u \in Tap : u # t => taps'[u] = taps[u]
  BY <1>1, <1>3 DEF TapsIInv, TapsTypeOK
<1>6. TapsTypeOK'
  BY <1>1, <1>2 DEF TapsIInv, TapsTypeOK, NoNewSub, parentTaps, clientVars
<1>7. TypeOK' /\ EventsKept
  BY <1>1, TunnelPartEvents DEF TapsIInv, TunnelPart
<1>8. UNCHANGED <<seq, pending, subs, asked, slots, got, leaked, ws, cend, retired>>
  BY <1>1 DEF parentTaps, clientVars, vars, childVars
<1>9. SlotsIInv'
  BY <1>8, SlotsSame DEF TapsIInv
<1>10. ASSUME NEW d \in Conn, NEW i \in Ids, NEW g \in Group, Given(d, i, g)' PROVE Given(d, i, g)
  <2>1. CASE \E e \in Held(d)' : e.id = i /\ e.group = g
    BY <1>8, <2>1 DEF Given, Held
  <2>2. CASE \E n \in DOMAIN down'[d] :
               down'[d][n].type = "sub" /\ down'[d][n].id = i /\ down'[d][n].group = g
    BY <1>2, <2>2 DEF NoNewSub, Given
  <2>3. CASE \E u \in Tap : u.from = d /\ u.id = i /\ u.group = g /\ taps'[u] # Closed
    BY <1>3, <1>4, <1>5, <2>3 DEF Given
  <2>4. CASE ~leaked' /\ Streamed(d, i, g)'
    BY <1>7, <1>8, <2>4, StreamedKept DEF Given
  <2> QED BY <1>10, <2>1, <2>2, <2>3, <2>4 DEF Given
<1>11. SeqIsBounded' /\ IdsAreGiven' /\ IdNamesGroup'
  BY <1>8, <1>10, NumbersKept DEF TapsIInv
<1>12. LinkIsCurrent'
  BY <1>8 DEF TapsIInv, LinkIsCurrent, Dialled
<1>13. TapsDialled'
  BY <1>1, <1>3, <1>5, <1>8 DEF TapsIInv, TapsDialled
<1>14. TapsEndWithTunnel'
  BY <1>1, <1>5, <1>8 DEF TapsIInv, TapsEndWithTunnel, Opening, Open
<1>15. OwnEventsUnlessLeaked'
  BY <1>8 DEF TapsIInv, OwnEventsUnlessLeaked
<1> QED BY <1>6, <1>7, <1>9, <1>11, <1>12, <1>13, <1>14, <1>15 DEF TapsIInv

\* As long as nothing leaked, a number of the current connection is the number
\* of one tap.
LEMMA OneTapPerId ==
  ASSUME TapsIInv, NEW t \in Tap, NEW u \in Tap, t.id = u.id, t.from = u.from,
         taps[t] # Closed, taps[u] # Closed
  PROVE  t = u
<1>1. Given(t.from, t.id, t.group) /\ Given(t.from, t.id, u.group)
  BY DEF Given
<1>2. t.group = u.group
  BY <1>1 DEF TapsIInv, IdNamesGroup, Tap
<1> QED BY <1>2 DEF Tap

LEMMA TapClosesKeeps ==
  ASSUME TapsIInv, NEW c \in Conn, TapCloses(c)
  PROVE  TapsIInv'
<1> DEFINE id == Head(down[c]).id
<1>1. /\ Receive(c) /\ tapOf' = [tapOf EXCEPT ![id] = NoTap]
      /\ taps' = IF tapOf[id] = NoTap THEN taps ELSE [taps EXCEPT ![tapOf[id]] = Closed]
      /\ UNCHANGED <<vars, parentTaps, clientVars, leaked>>
  BY DEF TapCloses, Receive
<1>2. NoNewSub /\ id \in Ids
  BY <1>1, ReceiveFacts DEF TapsIInv, DownFrame
<1> HIDE DEF id
<1>3. \A i \in Ids : tapOf'[i] = IF i = id THEN NoTap ELSE tapOf[i]
  BY <1>1 DEF TapsIInv, TapsTypeOK
<1>4. \A t \in Tap : taps'[t] = IF tapOf[id] = t THEN Closed ELSE taps[t]
  <2>1. \A t \in Tap : t # NoTap
    BY DEF Tap, NoTap
  <2> QED BY <1>1, <2>1 DEF TapsIInv, TapsTypeOK
<1>5. TapsTypeOK'
  BY <1>1, <1>2 DEF TapsIInv, TapsTypeOK, NoNewSub, parentTaps, clientVars
<1>6. TypeOK' /\ EventsKept
  BY <1>1, TunnelPartEvents DEF TapsIInv, TunnelPart
<1>7. TapsKept
  BY <1>4 DEF TapsKept
<1>8. UNCHANGED <<ws, cend, retired, leaked>>
  BY <1>1 DEF vars, childVars
<1>9. LinkIsCurrent' /\ TapsDialled'
  BY <1>7, <1>8 DEF TapsIInv, LinkIsCurrent, Dialled, TapsDialled, TapsKept
<1>10. TapsEndWithTunnel'
  BY <1>3, <1>4, <1>8 DEF TapsIInv, TapsEndWithTunnel, Tap, Open, Closed
<1> QED BY <1>1, <1>2, <1>5, <1>6, <1>7, <1>9, <1>10, ChildSideKeeps

LEMMA SendUpFacts ==
  ASSUME TypeOK, NEW t \in Tap, NEW g \in Frame, SendUp(t, g),
         UNCHANGED <<childVars, parentVars, faults>>, changes' \in 0..MaxChange
  PROVE  /\ TypeOK'
         /\ \A d \in Conn : \A f : OnWire(d, f)' =>
              OnWire(d, f) \/ (f = g /\ d = ws /\ t.from \notin retired)
<1>1. up' \in [Conn -> Seq(Frame)]
  <2>1. CASE t.from \in retired
    BY <2>1 DEF SendUp, TypeOK
  <2>2. CASE t.from \notin retired
    BY <2>2, WiredType DEF SendUp, TypeOK
  <2> QED BY <2>1, <2>2
<1>2. TypeOK'
  BY <1>1 DEF TypeOK, childVars, parentVars
<1>3. ASSUME NEW d \in Conn, NEW f, OnWire(d, f)'
      PROVE  OnWire(d, f) \/ (f = g /\ d = ws /\ t.from \notin retired)
  <2>1. CASE t.from \in retired
    BY <1>3, <2>1 DEF SendUp, OnWire
  <2>2. CASE t.from \notin retired
    <3>1. up' = Wired(g)
      BY <2>2 DEF SendUp
    <3> QED BY <1>3, <2>2, <3>1, WiredWire
  <2> QED BY <2>1, <2>2
<1> QED BY <1>2, <1>3

LEMMA TapFramesAreFrames ==
  ASSUME NEW t \in Tap
  PROVE  Res(t, TRUE) \in Frame /\ Res(t, FALSE) \in Frame /\ Event(t) \in Frame /\ SubClosed(t) \in Frame
BY TapsAssumption DEF Frame

\* A tap is acked, and the map has it, if its link still runs.
LEMMA TapAckedKeeps ==
  ASSUME TapsIInv, NEW t \in Tap, TapAcked(t)
  PROVE  TapsIInv'
<1>1. /\ taps[t] = Opening /\ taps' = [taps EXCEPT ![t] = Open]
      /\ tapOf' = IF t.from \in retired THEN tapOf ELSE [tapOf EXCEPT ![t.id] = t]
      /\ leaked' = (leaked \/ t.from \in retired \/ cend[t.from] = "closed")
      /\ SendUp(t, Res(t, TRUE))
      /\ UNCHANGED <<childVars, parentVars, bounds, down, parentTaps, clientVars>>
  BY DEF TapAcked
<1>2. Res(t, TRUE) \in Frame /\ t.id \in Ids /\ t.from \in Conn
  BY TapFramesAreFrames DEF Tap
<1>3. /\ TypeOK'
      /\ \A d \in Conn : \A f : OnWire(d, f)' => OnWire(d, f) \/ f = Res(t, TRUE)
  BY <1>1, <1>2, SendUpFacts DEF TapsIInv, TypeOK, bounds
<1>4. EventsKept
  <2>1. ASSUME NEW c \in Conn, NEW u \in Tap, OnWire(c, Event(u))' PROVE OnWire(c, Event(u))
    <3> DEFINE f == Event(u)
    <3>1. OnWire(c, f)' /\ f.type = "event" /\ Res(t, TRUE).type = "res"
      BY <2>1 DEF Event, Res
    <3> HIDE DEF f
    <3>2. OnWire(c, f)
      BY <1>3, <3>1
    <3> QED BY <3>2 DEF f
  <2> QED BY <2>1 DEF EventsKept
<1>5. \A u \in Tap : taps'[u] = IF u = t THEN Open ELSE taps[u]
  BY <1>1 DEF TapsIInv, TapsTypeOK
<1>6. TapsKept
  BY <1>1, <1>5 DEF TapsKept, Opening, Closed
<1>7. leaked' \in BOOLEAN /\ (leaked => leaked')
  BY <1>1
<1>8. TapsTypeOK'
  <2>1. tapOf' \in [Ids -> Tap \cup {NoTap}]
    BY <1>1 DEF TapsIInv, TapsTypeOK
  <2>2. taps' \in [Tap -> {Opening, Open, Closed}]
    BY <1>1 DEF TapsIInv, TapsTypeOK
  <2> QED BY <1>1, <1>7, <2>1, <2>2 DEF TapsIInv, TapsTypeOK, parentTaps, clientVars
<1>9. UNCHANGED <<ws, cend, retired>> /\ down' = down
  BY <1>1 DEF childVars
<1>10. LinkIsCurrent' /\ TapsDialled'
  BY <1>6, <1>9 DEF TapsIInv, LinkIsCurrent, Dialled, TapsDialled, TapsKept
<1>11. TapsEndWithTunnel'
  <2> SUFFICES ASSUME ~leaked', NEW u \in Tap, taps'[u] = Open
               PROVE  u.from = ws /\ cend[ws] = "open" /\ tapOf'[u.id] = u
    BY <1>9 DEF TapsEndWithTunnel
  <2>1. ~leaked /\ t.from \notin retired /\ cend[t.from] # "closed"
    BY <1>1
  <2>2. cend[t.from] = "open" /\ t.from = ws
    <3>1. cend[t.from] \in {"open", "closing", "closed"}
      BY <1>1 DEF TapsIInv, TapsDialled, Opening, Closed
    <3> QED BY <1>2, <2>1, <3>1 DEF TapsIInv, LinkIsCurrent
  <2>3. \A i \in Ids : tapOf'[i] = IF i = t.id THEN t ELSE tapOf[i]
    BY <1>1, <1>2, <2>1 DEF TapsIInv, TapsTypeOK
  <2>4. CASE u = t
    BY <1>2, <2>2, <2>3, <2>4
  <2>5. CASE u # t
    <3>1. taps[u] = Open /\ u.id \in Ids
      BY <1>5, <2>5 DEF Tap
    <3>2. u.from = ws /\ tapOf[u.id] = u
      BY <2>1, <3>1 DEF TapsIInv, TapsEndWithTunnel
    <3>3. u.id # t.id
      BY <1>1, <2>2, <2>5, <3>1, <3>2, OneTapPerId DEF Opening, Open, Closed
    <3> QED BY <2>2, <2>3, <3>1, <3>2, <3>3
  <2> QED BY <2>4, <2>5
<1> QED BY <1>1, <1>3, <1>4, <1>6, <1>7, <1>8, <1>9, <1>10, <1>11, NothingSent, ChildSideKeeps DEF TapsIInv

\* A tap that is refused or dies leaves the map if it was in it.
LEMMA TapLostKeeps ==
  ASSUME TapsIInv, NEW t \in Tap, TapRefused(t) \/ TapDies(t)
  PROVE  TapsIInv'
<1>1. PICK g \in {Res(t, FALSE), SubClosed(t)} :
        /\ taps' = [taps EXCEPT ![t] = Closed] /\ taps[t] # Closed
        /\ tapOf' = tapOf \/ (tapOf' = [tapOf EXCEPT ![t.id] = NoTap] /\ taps[t] = Open)
        /\ SendUp(t, g)
        /\ UNCHANGED <<childVars, parentVars, faults, down, parentTaps, clientVars, leaked>>
        /\ changes' = changes \/ (changes < MaxChange /\ changes' = changes + 1)
  BY DEF TapRefused, TapDies, Opening, Open, Closed, bounds
<1>2. g \in Frame /\ t.id \in Ids
  BY <1>1, TapFramesAreFrames DEF Tap
<1>3. changes' \in 0..MaxChange
  BY <1>1, TunnelAssumption DEF TapsIInv, TypeOK
<1>4. /\ TypeOK'
      /\ \A d \in Conn : \A f : OnWire(d, f)' => OnWire(d, f) \/ f = g
  BY <1>1, <1>2, <1>3, SendUpFacts DEF TapsIInv
<1>5. EventsKept
  <2>1. ASSUME NEW c \in Conn, NEW u \in Tap, OnWire(c, Event(u))' PROVE OnWire(c, Event(u))
    <3> DEFINE f == Event(u)
    <3>1. OnWire(c, f)' /\ f.type = "event" /\ f.kind = "herdr_event"
      BY <2>1 DEF Event
    <3>2. g.type = "res" \/ g.kind = "sub_closed"
      BY <1>1 DEF Res, SubClosed
    <3> HIDE DEF f
    <3>3. OnWire(c, f)
      BY <1>4, <3>1, <3>2
    <3> QED BY <3>3 DEF f
  <2> QED BY <2>1 DEF EventsKept
<1>6. \A u \in Tap : taps'[u] = IF u = t THEN Closed ELSE taps[u]
  BY <1>1 DEF TapsIInv, TapsTypeOK
<1>7. TapsKept
  BY <1>6 DEF TapsKept
<1>8. TapsTypeOK'
  <2>1. tapOf' \in [Ids -> Tap \cup {NoTap}] /\ taps' \in [Tap -> {Opening, Open, Closed}]
    BY <1>1 DEF TapsIInv, TapsTypeOK
  <2> QED BY <1>1, <2>1 DEF TapsIInv, TapsTypeOK, parentTaps, clientVars
<1>9. UNCHANGED <<ws, cend, retired, leaked>>
  BY <1>1 DEF childVars
<1>10. LinkIsCurrent' /\ TapsDialled'
  BY <1>7, <1>9 DEF TapsIInv, LinkIsCurrent, Dialled, TapsDialled, TapsKept
<1>11. TapsEndWithTunnel'
  <2> SUFFICES ASSUME ~leaked, NEW u \in Tap, taps'[u] = Open
               PROVE  u.from = ws /\ cend[ws] = "open" /\ tapOf'[u.id] = u
    BY <1>9 DEF TapsEndWithTunnel
  <2>1. u # t /\ taps[u] = Open /\ u.id \in Ids
    BY <1>6 DEF Open, Closed, Tap
  <2>2. u.from = ws /\ cend[ws] = "open" /\ tapOf[u.id] = u
    BY <2>1 DEF TapsIInv, TapsEndWithTunnel
  <2>3. taps[t] = Open => tapOf[t.id] = t
    BY DEF TapsIInv, TapsEndWithTunnel
  <2>4. tapOf'[u.id] = tapOf[u.id]
    BY <1>1, <1>2, <2>1, <2>2, <2>3 DEF TapsIInv, TapsTypeOK
  <2> QED BY <2>2, <2>4
<1> QED BY <1>1, <1>4, <1>5, <1>7, <1>8, <1>9, <1>10, <1>11, NothingSent, ChildSideKeeps DEF TapsIInv

\* An event goes out under a number that is its own tap's.
LEMMA TapStreamsKeeps ==
  ASSUME TapsIInv, NEW t \in Tap, TapStreams(t)
  PROVE  TapsIInv'
<1>1. /\ taps[t] = Open /\ SendUp(t, Event(t)) /\ changes < MaxChange /\ changes' = changes + 1
      /\ UNCHANGED <<childVars, parentVars, faults, down, parentTaps, clientVars, childTaps>>
  BY DEF TapStreams
<1>2. Event(t) \in Frame /\ changes' \in 0..MaxChange /\ t.id \in Ids /\ t.group \in Group /\ t.from \in Conn
  <2>1. changes' \in 0..MaxChange
    BY <1>1, TunnelAssumption DEF TapsIInv, TypeOK
  <2> QED BY <2>1, TapFramesAreFrames DEF Tap
<1>3. /\ TypeOK'
      /\ \A d \in Conn : \A f : OnWire(d, f)' => OnWire(d, f) \/ (f = Event(t) /\ d = ws)
  BY <1>1, <1>2, SendUpFacts DEF TapsIInv
<1>4. UNCHANGED <<seq, pending, subs, asked, client, slots, got, taps, leaked, tapOf, ws, cend, retired>>
  BY <1>1 DEF parentTaps, clientVars, childTaps, childVars
<1>5. TapsTypeOK' /\ NoNewSub
  BY <1>1, <1>4, NothingSent DEF TapsIInv, TapsTypeOK
<1>6. SlotsIInv'
  BY <1>4, SlotsSame DEF TapsIInv
<1>7. ASSUME NEW c \in Conn, NEW i \in Ids, NEW g \in Group, Given(c, i, g)' PROVE Given(c, i, g)
  <2>1. CASE ~leaked' /\ Streamed(c, i, g)'
    <3>1. PICK u \in Tap : u.id = i /\ u.group = g /\ OnWire(c, Event(u))'
      BY <2>1 DEF Streamed
    <3>2. OnWire(c, Event(u)) \/ (Event(u) = Event(t) /\ c = ws)
      <4> DEFINE f == Event(u)
      <4>1. OnWire(c, f)'
        BY <3>1 DEF Event
      <4> HIDE DEF f
      <4>2. OnWire(c, f) \/ (f = Event(t) /\ c = ws)
        BY <1>3, <4>1
      <4> QED BY <4>2 DEF f
    <3>3. CASE OnWire(c, Event(u))
      BY <1>4, <2>1, <3>1, <3>3 DEF Given, Streamed
    <3>4. CASE Event(u) = Event(t) /\ c = ws
      <4>1. t.id = i /\ t.group = g
        BY <3>1, <3>4 DEF Event
      <4>2. t.from = c
        BY <1>1, <1>4, <2>1, <3>4 DEF TapsIInv, TapsEndWithTunnel
      <4> QED BY <1>1, <4>1, <4>2 DEF Given, Open, Closed
    <3> QED BY <3>2, <3>3, <3>4
  <2>2. CASE ~(~leaked' /\ Streamed(c, i, g)')
    BY <1>1, <1>4, <1>7, <2>2 DEF Given, Held
  <2> QED BY <2>1, <2>2
<1>8. SeqIsBounded' /\ IdsAreGiven' /\ IdNamesGroup'
  BY <1>4, <1>7, NumbersKept DEF TapsIInv
<1>9. LinkIsCurrent' /\ TapsDialled' /\ TapsEndWithTunnel' /\ OwnEventsUnlessLeaked'
  BY <1>4 DEF TapsIInv, LinkIsCurrent, Dialled, TapsDialled, TapsEndWithTunnel, OwnEventsUnlessLeaked
<1> QED BY <1>3, <1>5, <1>6, <1>8, <1>9 DEF TapsIInv

\* The end of the current connection and a reload close every tap of the map,
\* and so every open one.
LEMMA ClosedWithLink ==
  ASSUME TapsIInv, CloseAllTaps
  PROVE  /\ TapsTypeOK' /\ NoNewSub /\ TapsKept
         /\ UNCHANGED <<parentTaps, clientVars, leaked>>
         /\ ~leaked' => \A t \in Tap : taps'[t] # Open
<1>1. \A t \in Tap : taps'[t] = IF \E i \in Ids : tapOf[i] = t THEN Closed ELSE taps[t]
  BY DEF CloseAllTaps, TapsAfterEnd
<1>2. taps' \in [Tap -> {Opening, Open, Closed}] /\ tapOf' \in [Ids -> Tap \cup {NoTap}]
  BY DEF CloseAllTaps, TapsAfterEnd, TapsIInv, TapsTypeOK
<1>3. TapsTypeOK' /\ NoNewSub
  BY <1>2, NothingSent DEF CloseAllTaps, TapsIInv, TapsTypeOK, parentTaps, clientVars
<1>4. ASSUME ~leaked, NEW t \in Tap PROVE taps'[t] # Open
  <2>1. taps[t] = Open => t.id \in Ids /\ tapOf[t.id] = t
    BY <1>4 DEF TapsIInv, TapsEndWithTunnel, Tap
  <2> QED BY <1>1, <2>1 DEF Open, Closed
<1> QED BY <1>1, <1>3, <1>4 DEF CloseAllTaps, TapsKept

LEMMA LinkEndsKeeps ==
  ASSUME TapsIInv, NEW c \in Conn, LinkEnds(c)
  PROVE  TapsIInv'
<1>1. TypeOK' /\ EventsKept
  BY TunnelPartEvents DEF LinkEnds, TapsIInv, TunnelPart, ChildStep
<1>2. CASE Reload(c) /\ CloseAllTaps
  <2>1. /\ ws' = c /\ retired' = {d \in Conn : cend[d] # "idle"} /\ ws \in Conn
        /\ cend' = [cend EXCEPT ![ws] = CASE @ = "open" -> "closing"
                                          [] @ = "connecting" -> "closed"
                                          [] OTHER -> @,
                                ![c] = "connecting"]
        /\ cend[c] = "idle" /\ cend[ws] # "idle"
    BY <1>2, FreshIsIdle DEF Reload, TapsIInv, TypeOK, LinkIsCurrent, Dialled
  <2>2. /\ cend'[c] = "connecting" /\ cend'[ws] \in {"closing", "closed"}
        /\ \A d \in Conn \ {c, ws} : cend'[d] = cend[d]
        /\ cend'[ws] = "closing" => cend[ws] \in {"open", "closing"}
    BY <2>1 DEF TapsIInv, TypeOK
  <2>3. LinkIsCurrent'
    BY <2>1, <2>2 DEF TapsIInv, TypeOK, LinkIsCurrent, Dialled
  <2>4. TapsDialled'
    <3>1. \A t \in Tap : taps'[t] # Closed => cend[t.from] \in {"open", "closing", "closed"}
      BY <1>2, ClosedWithLink DEF TapsKept, TapsIInv, TapsDialled
    <3> QED BY <2>1, <2>2, <3>1 DEF TapsDialled, Tap
  <2>5. TapsEndWithTunnel'
    BY <1>2, ClosedWithLink DEF TapsEndWithTunnel
  <2> QED BY <1>1, <1>2, <2>3, <2>4, <2>5, ClosedWithLink, ChildSideKeeps
<1>3. CASE (ChildClosed(c) \/ ChildFails(c))
           /\ IF c \in retired THEN UNCHANGED tapVars ELSE CloseAllTaps
  <2>1. cend' = [cend EXCEPT ![c] = "closed"] /\ UNCHANGED <<ws, retired>>
        /\ cend[c] \in {"connecting", "open", "closing"}
    BY <1>3 DEF ChildClosed, ChildFails, ChildEnd
  <2>2. cend'[c] = "closed" /\ \A d \in Conn : d # c => cend'[d] = cend[d]
    BY <2>1 DEF TapsIInv, TypeOK
  <2>3. LinkIsCurrent'
    BY <2>1, <2>2 DEF TapsIInv, TypeOK, LinkIsCurrent, Dialled
  <2>4. CASE c \in retired
    <3>1. UNCHANGED <<down, parentTaps, clientVars, taps, leaked, tapOf>>
      BY <1>3, <2>4 DEF tapVars, childTaps
    <3>2. TapsTypeOK' /\ NoNewSub /\ TapsKept
      BY <3>1, NothingSent DEF TapsIInv, TapsTypeOK, parentTaps, clientVars, TapsKept
    <3>3. TapsDialled'
      BY <2>2, <3>1 DEF TapsIInv, TapsDialled, Tap
    <3>4. TapsEndWithTunnel'
      BY <2>1, <2>2, <2>4, <3>1 DEF TapsIInv, TapsEndWithTunnel, LinkIsCurrent, Tap
    <3> QED BY <1>1, <2>3, <3>1, <3>2, <3>3, <3>4, ChildSideKeeps
  <2>5. CASE c \notin retired
    <3>1. CloseAllTaps
      BY <1>3, <2>5
    <3>2. \A t \in Tap : taps'[t] # Closed => cend[t.from] \in {"open", "closing", "closed"}
      BY <3>1, ClosedWithLink DEF TapsKept, TapsIInv, TapsDialled
    <3>3. TapsDialled'
      BY <2>2, <3>2 DEF TapsDialled, Tap
    <3>4. TapsEndWithTunnel'
      BY <3>1, ClosedWithLink DEF TapsEndWithTunnel
    <3> QED BY <1>1, <2>3, <3>1, <3>3, <3>4, ClosedWithLink, ChildSideKeeps
  <2> QED BY <2>4, <2>5
<1> QED BY <1>2, <1>3 DEF LinkEnds

\* The rest of the tunnel: only a dial and an upgrade concern the taps' child.
LEMMA UntappedKeeps ==
  ASSUME TapsIInv, UNCHANGED tapVars, NEW c \in Conn,
         Untapped(c) \/ Disconnect \/ UNCHANGED vars
  PROVE  TapsIInv'
<1>1. UNCHANGED <<down, parentTaps, clientVars, taps, leaked, tapOf>>
  BY DEF tapVars, childTaps
<1>2. TypeOK' /\ EventsKept
  BY TunnelPartEvents DEF TapsIInv, TunnelPart, Untapped, ChildStep, ParentStep
<1>3. TapsTypeOK' /\ NoNewSub /\ TapsKept
  BY <1>1, NothingSent DEF TapsIInv, TapsTypeOK, parentTaps, clientVars, TapsKept
<1>4. CASE Dial(c)
  <2>1. /\ ws' = c /\ cend' = [cend EXCEPT ![c] = "connecting"] /\ retired' = retired
        /\ cend[c] = "idle" /\ (ws # None => cend[ws] = "closed")
    BY <1>4, FreshIsIdle DEF Dial
  <2>2. cend'[c] = "connecting" /\ \A d \in Conn : d # c => cend'[d] = cend[d]
    BY <2>1 DEF TapsIInv, TypeOK
  <2>3. LinkIsCurrent'
    <3>1. retired \subseteq Conn /\ LinkIsCurrent /\ None \notin Conn
      BY DEF TapsIInv, TypeOK, None, Conn
    <3>2. \A d \in Conn : Dialled(d) => Dialled(d)'
      BY <2>2 DEF Dialled
    <3>3. c \notin retired
      BY <2>1, <3>1 DEF LinkIsCurrent, Dialled
    <3>4. ws' \notin retired' /\ (ws' # None => cend'[ws'] # "idle") /\ \A d \in retired' : Dialled(d)'
      BY <2>1, <2>2, <3>1, <3>2, <3>3 DEF LinkIsCurrent, Dialled
    <3>5. \A d \in Conn : cend'[d] \in {"connecting", "open"} /\ d \notin retired' => d = ws'
      BY <2>1, <2>2, <3>1 DEF LinkIsCurrent
    <3>6. \A d \in Conn : cend'[d] = "closing" => d \in retired'
      BY <2>1, <2>2, <3>1 DEF LinkIsCurrent
    <3> QED BY <3>4, <3>5, <3>6 DEF LinkIsCurrent, Dialled
  <2>4. TapsDialled'
    BY <1>1, <2>1, <2>2 DEF TapsIInv, TapsDialled, Tap
  <2>5. TapsEndWithTunnel'
    <3>1. \A t \in Tap : t.from # None
      BY DEF Tap, Conn, None
    <3>2. ~leaked => \A t \in Tap : taps[t] # Open
      BY <2>1, <3>1 DEF TapsIInv, TapsEndWithTunnel
    <3> QED BY <1>1, <3>2 DEF TapsEndWithTunnel
  <2> QED BY <1>1, <1>2, <1>3, <2>3, <2>4, <2>5, ChildSideKeeps
<1>5. CASE Opened(c)
  <2>1. cend' = [cend EXCEPT ![c] = "open"] /\ UNCHANGED <<ws, retired>> /\ cend[c] = "connecting"
    BY <1>5 DEF Opened
  <2>2. cend'[c] = "open" /\ \A d \in Conn : d # c => cend'[d] = cend[d]
    BY <2>1 DEF TapsIInv, TypeOK
  <2>3. LinkIsCurrent'
    <3>1. ws \in Conn \cup {None} /\ retired \subseteq Conn /\ LinkIsCurrent
      BY DEF TapsIInv, TypeOK
    <3>2. \A d \in Conn : Dialled(d) => Dialled(d)'
      BY <2>2 DEF Dialled
    <3>3. ws' \notin retired' /\ (ws' # None => Dialled(ws)') /\ \A d \in retired' : Dialled(d)'
      BY <2>1, <3>1, <3>2 DEF LinkIsCurrent
    <3>4. \A d \in Conn : cend'[d] \in {"connecting", "open"} /\ d \notin retired' => d = ws'
      BY <2>1, <2>2, <3>1 DEF LinkIsCurrent
    <3>5. \A d \in Conn : cend'[d] = "closing" => d \in retired'
      BY <2>1, <2>2, <3>1 DEF LinkIsCurrent
    <3> QED BY <3>3, <3>4, <3>5 DEF LinkIsCurrent
  <2>4. TapsDialled'
    BY <1>1, <2>2 DEF TapsIInv, TapsDialled, Tap
  <2>5. TapsEndWithTunnel'
    BY <1>1, <2>1, <2>2 DEF TapsIInv, TapsEndWithTunnel, Tap
  <2> QED BY <1>1, <1>2, <1>3, <2>3, <2>4, <2>5, ChildSideKeeps
<1>6. CASE ~Dial(c) /\ ~Opened(c)
  <2>1. UNCHANGED <<ws, cend, retired>>
    BY <1>6 DEF Untapped, SnapshotDone, HelloTimeout, Enroll, BadHello, Route, Receives, Disconnect,
                vars, childVars
  <2>2. LinkIsCurrent' /\ TapsDialled' /\ TapsEndWithTunnel'
    BY <1>1, <2>1 DEF TapsIInv, LinkIsCurrent, Dialled, TapsDialled, TapsEndWithTunnel
  <2> QED BY <1>1, <1>2, <1>3, <2>2, ChildSideKeeps
<1> QED BY <1>4, <1>5, <1>6
-----------------------------------------------------------------------------
(* The theorems *)

LEMMA TapsNextKeeps == TapsIInv /\ [TapsNext]_tapAllVars => TapsIInv'
<1> SUFFICES ASSUME TapsIInv, [TapsNext]_tapAllVars PROVE TapsIInv'
  OBVIOUS
<1>1. CASE UNCHANGED tapAllVars
  <2>1. UNCHANGED <<vars, tapVars>>
    BY <1>1 DEF tapAllVars
  <2>2. CASE \E c \in Conn : TRUE
    BY <2>1, <2>2, UntappedKeeps
  <2>3. CASE ~\E c \in Conn : TRUE
    <3>1. Tap = {}
      BY <2>3 DEF Tap
    <3> QED BY <2>1, <2>3 DEF vars, tapVars, childVars, parentVars, bounds, parentTaps, clientVars,
             childTaps, TapsIInv, TypeOK, TapsTypeOK, SlotsIInv, GroupsAsked, OneEntryPerGroup,
             AwaitedOrLive, LiveHasSlot, SlotIsHeld, SlotsCapped, Held, SeqIsBounded, IdsAreGiven,
             IdNamesGroup, LinkIsCurrent, Dialled, TapsDialled, TapsEndWithTunnel,
             OwnEventsUnlessLeaked
  <2> QED BY <2>2, <2>3
<1>2. CASE Disconnect /\ UNCHANGED tapVars
  <2>1. hub \in Conn
    BY <1>2 DEF Disconnect, TapsIInv, TypeOK
  <2> QED BY <1>2, <2>1, UntappedKeeps
<1> QED BY <1>1, <1>2, SubscribeKeeps, ClosingKeeps, TapAckedKeeps, TapLostKeeps, TapStreamsKeeps,
           AckKeeps, TapEventKeeps, TapEndKeeps, GoneKeeps, TapOpensKeeps, TapClosesKeeps,
           LinkEndsKeeps, TimeoutKeeps, UntappedKeeps DEF TapsNext

LEMMA TapsInitInv == TapsInit => TapsIInv
<1> SUFFICES ASSUME TapsInit PROVE TapsIInv
  OBVIOUS
<1>1. TypeOK /\ ws = None /\ retired = {} /\ \A c \in Conn : up[c] = <<>> /\ cend[c] = "idle"
  BY InitType DEF TapsInit, Init
<1>2. /\ \A c \in Conn : down[c] = <<>> /\ seq[c] = 0 /\ pending[c] = {} /\ subs[c] = {}
      /\ asked = {} /\ slots = {} /\ got = {} /\ \A t \in Tap : taps[t] = Closed
  BY DEF TapsInit
<1>3. Cardinality(Group) \in Nat /\ Cardinality({}) = 0
  BY TapsAssumption, FS_CardinalityType, FS_EmptySet
<1>4. TapsTypeOK
  <2>1. down \in [Conn -> Seq(DownFrame)] /\ seq \in [Conn -> 0..Cardinality(Group)]
    BY <1>3 DEF TapsInit
  <2>2. pending \in [Conn -> SUBSET Entry] /\ subs \in [Conn -> SUBSET Entry]
    BY DEF TapsInit
  <2>3. taps \in [Tap -> {Opening, Open, Closed}] /\ tapOf \in [Ids -> Tap \cup {NoTap}]
    BY DEF TapsInit
  <2>4. asked \subseteq Group /\ client \in BOOLEAN /\ slots \subseteq Group
        /\ got \subseteq Group \X Group /\ leaked \in BOOLEAN
    BY DEF TapsInit
  <2> QED BY <2>1, <2>2, <2>3, <2>4 DEF TapsTypeOK
<1>5. SlotsIInv /\ SeqIsBounded
  BY <1>2, <1>3, TapsAssumption
     DEF SlotsIInv, GroupsAsked, OneEntryPerGroup, AwaitedOrLive, LiveHasSlot, SlotIsHeld,
         SlotsCapped, Held, SeqIsBounded
<1>6. \A c \in Conn, i \in Ids, g \in Group : ~Given(c, i, g)
  BY <1>1, <1>2 DEF Given, Held, Streamed, OnWire
<1>7. IdsAreGiven /\ IdNamesGroup
  BY <1>6 DEF IdsAreGiven, IdNamesGroup
<1>8. LinkIsCurrent /\ TapsDialled
  BY <1>1, <1>2 DEF LinkIsCurrent, Dialled, TapsDialled
<1>9. TapsEndWithTunnel /\ OwnEventsUnlessLeaked
  BY <1>2 DEF TapsEndWithTunnel, OwnEventsUnlessLeaked, Open, Closed
<1> QED BY <1>1, <1>4, <1>5, <1>7, <1>8, <1>9 DEF TapsIInv

LEMMA TapsInvariance == TapsSpec => []TapsIInv
BY TapsInitInv, TapsNextKeeps, PTL DEF TapsSpec

\* acceptClient's `taps`, ChildConnection's #subs and ParentLink's #taps keep
\* their types, and no connection gives out more numbers than groups asked.
THEOREM TapsTypeCorrect == TapsSpec => []TapsTypeOK
<1>1. TapsIInv => TapsTypeOK
  BY DEF TapsIInv
<1> QED BY <1>1, TapsInvariance, PTL

\* broker.events.subscribe: over any order of unsubscribes, acks, timeouts and
\* closes a client's slots are its groups that are live or awaited, and the
\* cap bounds what is live.
THEOREM SlotsAreExact == TapsSpec => []SlotsExact
<1>1. ASSUME TapsIInv PROVE SlotsExact
  <2>1. Subscribed \subseteq slots
    BY <1>1 DEF TapsIInv, SlotsIInv, LiveHasSlot, Subscribed, Groups
  <2>2. slots \subseteq Subscribed \cup UNION {Groups(pending[c]) : c \in Conn}
    <3>1. ASSUME NEW g \in slots
          PROVE  g \in Subscribed \cup UNION {Groups(pending[c]) : c \in Conn}
      <4>1. PICK c \in Conn : \E e \in Held(c) : e.group = g
        BY <1>1 DEF TapsIInv, SlotsIInv, SlotIsHeld
      <4>2. g \in Groups(pending[c]) \/ g \in Groups(subs[c])
        BY <4>1 DEF Held, Groups
      <4> QED BY <4>2 DEF Subscribed
    <3> QED BY <3>1
  <2>3. Cardinality(Subscribed) <= MAX_SUB_GROUPS
    <3>1. IsFiniteSet(slots) /\ Cardinality(slots) \in Nat
      BY <1>1, SlotsFinite DEF TapsIInv
    <3>2. IsFiniteSet(Subscribed) /\ Cardinality(Subscribed) <= Cardinality(slots)
      BY <2>1, <3>1, FS_Subset
    <3>3. Cardinality(Subscribed) \in Nat
      BY <3>2, FS_CardinalityType
    <3> QED BY <1>1, <3>1, <3>2, <3>3, TapsAssumption DEF TapsIInv, SlotsIInv, SlotsCapped
  <2> QED BY <2>1, <2>2, <2>3 DEF SlotsExact
<1> QED BY <1>1, TapsInvariance, PTL

\* ParentLink.#route and its close: as long as no tap was acked late, a tap
\* lives only on the current open connection, where an unsub reaches it.
THEOREM TapsEndInTime == TapsSpec => []TapsEndWithTunnel
<1>1. TapsIInv => TapsEndWithTunnel
  BY DEF TapsIInv
<1> QED BY <1>1, TapsInvariance, PTL

\* ...and a group gets the events of its own tap only, although the numbers
\* start again with every connection.
THEOREM EventsAreOwn == TapsSpec => []OwnEventsUnlessLeaked
<1>1. TapsIInv => OwnEventsUnlessLeaked
  BY DEF TapsIInv
<1> QED BY <1>1, TapsInvariance, PTL
=============================================================================
