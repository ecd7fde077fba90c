----------------------------- MODULE EdgeProofs -----------------------------
(***************************************************************************)
(* What a client keeps and is told, for any tokens, repositories, groups,  *)
(* sockets, sources, names and deadlines: the event channel of             *)
(* packages/client/src/events.ts, the viewers that follow a source, the    *)
(* hooks that show what they were told, and the calls of the SDK on the    *)
(* HTTP API.  For the calls the argument has four parts: what the two      *)
(* folds of Http compute; that every route of a session has one shape, so  *)
(* that no two of them match the same request; that each call of the SDK   *)
(* fits one route, which gives a call with proper names its operation and  *)
(* its objects; and that a path's last segment stays last whatever names   *)
(* come before it, which decides who gives up first on a call.             *)
(***************************************************************************)
EXTENDS MCEdge, SequenceTheorems, WellFoundedInduction, TLAPS

(* The hooks *)

\* While no two requests of a hook overlapped, what is under way is about the
\* token held, the repository chosen, or the one group of the panel.
HooksIInv ==
  /\ valid \subseteq Token
  /\ ~overlap =>
       /\ checking \subseteq {hosted} /\ H!LockedWithoutToken
       /\ fetching \subseteq {selected} /\ H!ShowsSelected
       /\ H!PanelOwnsGroups /\ groups \cup joining \subseteq Group
       /\ groups = {} \/ joining = {}
       /\ \A g, h \in joining : g = h
       /\ ~mounted => joining = {}

LEMMA HooksKeep == HooksIInv /\ [H!Next]_hooksVars => HooksIInv'
<1> SUFFICES ASSUME HooksIInv, [H!Next]_hooksVars PROVE HooksIInv'
  OBVIOUS
<1> USE EdgeAssumption
        DEF HooksIInv, H!LockedWithoutToken, H!ShowsSelected, H!PanelOwnsGroups
<1>1. CASE \/ H!Attempt \/ H!RequestToken \/ H!KickOut \/ H!LogOff
           \/ \E t \in Token : H!Minted(t)
           \/ \E t \in Token \cup {NoToken} : H!Types(t) \/ H!Verified(t)
  <2>1. UNCHANGED <<hook, selected, tree, fetching, mounted, button, ref, groups, joining>>
    BY <1>1 DEF H!Attempt, H!RequestToken, H!KickOut, H!LogOff, H!Minted, H!Types, H!Verified,
                H!Gate, H!browserVars, H!panelVars
  <2>2. CASE H!Attempt
    BY <2>1, <2>2 DEF H!Attempt, H!Verifies
  <2>3. CASE H!RequestToken \/ H!KickOut \/ H!LogOff
    BY <2>1, <2>3 DEF H!RequestToken, H!KickOut, H!LogOff
  <2>4. ASSUME NEW t \in Token, H!Minted(t) PROVE HooksIInv'
    <3>1. CASE UNCHANGED <<overlap, valid, hosted, gate, checking>>
      BY <2>1, <3>1
    <3>2. CASE valid' = valid \cup {t} /\ hosted' = t /\ H!Verifies(t)
      <4>1. valid' \subseteq Token /\ hosted' # NoToken
        BY <3>2
      <4>2. ~overlap' => ~overlap /\ checking' = {t}
        BY <3>2 DEF H!Verifies
      <4> QED BY <2>1, <3>2, <4>1, <4>2
    <3> QED BY <2>4, <3>1, <3>2 DEF H!Minted
  <2>5. ASSUME NEW t \in Token \cup {NoToken}, H!Types(t) PROVE HooksIInv'
    BY <2>1, <2>5 DEF H!Types
  <2>6. ASSUME NEW t \in Token \cup {NoToken}, H!Verified(t) PROVE HooksIInv'
    BY <2>1, <2>6 DEF H!Verified, H!Verdict
  <2> QED BY <1>1, <2>2, <2>3, <2>4, <2>5, <2>6
<1>2. CASE H!Load \/ \E r \in Repo : H!Browse(r) \/ H!Fetched(r)
  <2>1. UNCHANGED <<hook, valid, hosted, gate, checking, mounted, button, ref, groups, joining>>
    BY <1>2 DEF H!Load, H!Browse, H!Fetched, H!Browser, H!gateVars, H!panelVars
  <2>2. CASE H!Load
    BY <2>1, <2>2 DEF H!Load
  <2>3. ASSUME NEW r \in Repo, H!Browse(r) PROVE HooksIInv'
    BY <2>1, <2>3 DEF H!Browse
  <2>4. ASSUME NEW r \in Repo, H!Fetched(r) PROVE HooksIInv'
    BY <2>1, <2>4 DEF H!Fetched
  <2> QED BY <1>2, <2>2, <2>3, <2>4
<1>3. CASE H!Unsubscribe \/ H!Unmount \/ \E g \in Group : H!Subscribe(g) \/ H!Subscribed(g) \/ H!GroupEnds(g)
  <2>1. UNCHANGED <<hook, valid, hosted, gate, checking, selected, tree, fetching>>
    BY <1>3 DEF H!Unsubscribe, H!Unmount, H!Subscribe, H!Subscribed, H!GroupEnds,
                H!Panel, H!gateVars, H!browserVars
  <2>2. CASE H!Unsubscribe \/ H!Unmount
    BY <2>1, <2>2 DEF H!Unsubscribe, H!Unmount
  <2>3. ASSUME NEW g \in Group, H!Subscribe(g) PROVE HooksIInv'
    BY <2>1, <2>3 DEF H!Subscribe
  <2>4. ASSUME NEW g \in Group, H!Subscribed(g) PROVE HooksIInv'
    BY <2>1, <2>4 DEF H!Subscribed
  <2>5. ASSUME NEW g \in Group, H!GroupEnds(g) PROVE HooksIInv'
    BY <2>1, <2>5 DEF H!GroupEnds
  <2> QED BY <1>3, <2>2, <2>3, <2>4, <2>5
<1>4. CASE UNCHANGED hooksVars
  BY <1>4 DEF hooksVars
<1> QED BY <1>1, <1>2, <1>3, <1>4 DEF H!Next
-----------------------------------------------------------------------------
(* The viewers *)

ReplyRec == [kind : {"error"}] \cup [kind : {"changed", "unchanged"}, version : Nat]
LoopRec ==
  [at : {"unborn", "asking", "replied", "backoff", "ended"}, src : Source \cup {None},
   known : Nat \cup {None}, reply : ReplyRec \cup {None}]
Told(l) == loop[l].at = "replied" /\ loop[l].reply.kind # "error"

\* What was read of a source is no newer than it is; what the running loop was
\* told is no older than what is shown.
WatchIInv ==
  /\ version \in [Source -> Nat] /\ loop \in [Loop -> LoopRec]
  /\ frame = [src |-> frame.src, version |-> frame.version] /\ frame.version \in Nat
  /\ frame.src \in Source => frame.version <= version[frame.src]
  /\ \A l \in Loop :
       /\ loop[l].at \in {"asking", "replied", "backoff"} => loop[l].src \in Source
       /\ loop[l].at = "replied" => loop[l].reply \in ReplyRec
       /\ Told(l) => /\ loop[l].reply.version <= version[loop[l].src]
                     /\ l = viewer /\ frame.src = loop[l].src =>
                          frame.version <= loop[l].reply.version

LEMMA WatchKeeps == WatchIInv /\ [W!Next]_watchVars => WatchIInv'
<1> SUFFICES ASSUME WatchIInv, [W!Next]_watchVars PROVE WatchIInv'
  OBVIOUS
<1> USE EdgeAssumption DEF WatchIInv, Told
<1>1. ASSUME NEW s \in Source, W!Changes(s) \/ W!Drive(s) PROVE WatchIInv'
  <2>1. /\ version' \in [Source -> Nat] /\ \A r \in Source : version[r] <= version'[r]
        /\ UNCHANGED <<loop, viewer, frame>>
    BY <1>1 DEF W!Changes, W!Drive
  <2>2. ASSUME NEW l \in Loop, Told(l)
        PROVE  loop[l].reply.version <= version'[loop[l].src]
    <3>1. loop[l].src \in Source /\ loop[l].reply.version \in Nat
      BY <2>2 DEF ReplyRec
    <3> QED BY <2>1, <2>2, <3>1
  <2>3. frame.src \in Source => frame.version <= version'[frame.src]
    BY <2>1
  <2> QED BY <2>1, <2>2, <2>3
<1>2. ASSUME NEW l \in Loop, NEW s \in Source, W!Starts(l, s) PROVE WatchIInv'
  <2>1. /\ UNCHANGED <<version, frame>> /\ loop' \in [Loop -> LoopRec]
        /\ loop'[l].at = "asking" /\ loop'[l].src = s
        /\ \A m \in Loop \ {l} : loop'[m] = loop[m]
    BY <1>2 DEF W!Starts, W!Unborn, LoopRec
  <2>2. viewer' = l
    BY <1>2 DEF W!Starts
  <2> QED BY <2>1, <2>2
<1>3. ASSUME NEW l \in Loop, NEW r, W!Reply(l, r), UNCHANGED <<version, viewer, frame>>,
             loop[l].src \in Source,
             \/ r = [kind |-> "error"]
             \/ r \in [kind : {"changed", "unchanged"}, version : {version[loop[l].src]}]
      PROVE  WatchIInv'
  <2>2. r \in ReplyRec /\ (r.kind # "error" => r.version = version[loop[l].src])
    BY <1>3 DEF ReplyRec
  <2>1. /\ loop' \in [Loop -> LoopRec] /\ \A m \in Loop \ {l} : loop'[m] = loop[m]
        /\ loop'[l].at = "replied" /\ loop'[l].reply = r /\ loop'[l].src = loop[l].src
    <3> DEFINE new == [loop[l] EXCEPT !.at = "replied", !.reply = r]
    <3>1. new \in LoopRec /\ new.at = "replied" /\ new.reply = r /\ new.src = loop[l].src
      BY <2>2 DEF LoopRec
    <3>2. loop' = [loop EXCEPT ![l] = new]
      BY <1>3 DEF W!Reply
    <3> HIDE DEF new
    <3> QED BY <3>1, <3>2
  <2>3. version[loop[l].src] \in Nat
    BY <1>3
  <2> QED BY <1>3, <2>1, <2>2, <2>3
<1>4. ASSUME NEW l \in Loop, W!Answers(l) \/ W!Lost(l) PROVE WatchIInv'
  <2>1. /\ loop[l].at = "asking" /\ loop[l].src \in Source /\ UNCHANGED <<version, viewer, frame>>
        /\ \/ W!Reply(l, [kind |-> "error"])
           \/ W!Reply(l, [kind |-> "changed", version |-> version[loop[l].src]])
           \/ W!Reply(l, [kind |-> "unchanged", version |-> version[loop[l].src]])
    BY <1>4 DEF W!Answers, W!Lost
  <2> QED BY <1>3, <2>1
<1>5. ASSUME NEW l \in Loop, W!Receives(l) PROVE WatchIInv'
  <2> DEFINE r == loop[l].reply
             ended == [W!Unborn EXCEPT !.at = "ended"]
  <2>1. loop[l].at = "replied" /\ r \in ReplyRec /\ loop[l].src \in Source /\ UNCHANGED <<version, viewer>>
    BY <1>5 DEF W!Receives
  <2>2. CASE loop' = [loop EXCEPT ![l] = ended] /\ UNCHANGED frame
    <3>1. ended \in LoopRec /\ ended.at = "ended"
      BY DEF W!Unborn, LoopRec
    <3> HIDE DEF ended
    <3> QED BY <2>1, <2>2, <3>1
  <2>3. CASE /\ loop' = [loop EXCEPT ![l].at = "backoff", ![l].reply = None] /\ UNCHANGED frame
    <3> DEFINE new == [loop[l] EXCEPT !.at = "backoff", !.reply = None]
    <3>1. new \in LoopRec /\ new.at = "backoff" /\ new.src = loop[l].src
      BY DEF LoopRec
    <3>2. loop' = [loop EXCEPT ![l] = new]
      BY <2>3
    <3> HIDE DEF new
    <3> QED BY <2>1, <2>3, <3>1, <3>2
  <2>4. CASE /\ ~W!Stopped(l) /\ r.kind # "error"
             /\ loop' = [loop EXCEPT ![l].at = "asking", ![l].known = r.version, ![l].reply = None]
             /\ frame' = IF r.kind = "changed" THEN [src |-> loop[l].src, version |-> r.version]
                                               ELSE frame
    <3> DEFINE new == [loop[l] EXCEPT !.at = "asking", !.known = r.version, !.reply = None]
    <3>1. r.version \in Nat /\ r.version <= version[loop[l].src] /\ l = viewer
      BY <2>1, <2>4 DEF ReplyRec, W!Stopped
    <3>2. new \in LoopRec /\ new.at = "asking" /\ new.src = loop[l].src
      BY <3>1 DEF LoopRec
    <3>3. loop' = [loop EXCEPT ![l] = new]
      BY <2>4
    <3> HIDE DEF new
    <3>4. /\ loop' \in [Loop -> LoopRec] /\ loop'[l] = new /\ \A m \in Loop \ {l} : loop'[m] = loop[m]
      BY <3>2, <3>3
    <3>5. /\ frame' = [src |-> frame'.src, version |-> frame'.version] /\ frame'.version \in Nat
          /\ frame'.src \in Source => frame'.version <= version[frame'.src]
      BY <2>4, <3>1
    <3>6. \A m \in Loop : Told(m)' => m # l /\ m # viewer
      BY <3>1, <3>2, <3>4
    <3> QED BY <2>1, <3>1, <3>2, <3>4, <3>5, <3>6
  <2> QED BY <1>5, <2>2, <2>3, <2>4 DEF W!Receives
<1>6. ASSUME NEW l \in Loop, W!Retries(l) PROVE WatchIInv'
  <2>1. PICK new \in LoopRec : /\ loop' = [loop EXCEPT ![l] = new] /\ new.at \in {"ended", "asking"}
                               /\ new.at = "asking" => new.src = loop[l].src
    <3>1. [W!Unborn EXCEPT !.at = "ended"] \in LoopRec
      BY DEF W!Unborn, LoopRec
    <3>2. [loop[l] EXCEPT !.at = "asking"] \in LoopRec
      BY DEF LoopRec
    <3>3. [W!Unborn EXCEPT !.at = "ended"].at = "ended"
      BY DEF W!Unborn
    <3>4. [loop[l] EXCEPT !.at = "asking"].at = "asking" /\ [loop[l] EXCEPT !.at = "asking"].src = loop[l].src
      BY DEF LoopRec
    <3> QED BY <1>6, <3>1, <3>2, <3>3, <3>4 DEF W!Retries
  <2>2. loop[l].at = "backoff" /\ UNCHANGED <<version, viewer, frame>>
    BY <1>6 DEF W!Retries
  <2> QED BY <2>1, <2>2
<1>7. CASE W!Pauses
  BY <1>7 DEF W!Pauses
<1>8. CASE UNCHANGED watchVars
  BY <1>8 DEF watchVars
<1> QED BY <1>1, <1>2, <1>4, <1>5, <1>6, <1>7, <1>8 DEF W!Next
-----------------------------------------------------------------------------
(* The channel *)

Undone(s) == sock[s] \in {"connecting", "open", "closed"}
Asked == {"sent", "held", "refused"}
SubRec == [sock : 0..MaxSock, at : {"unsent", "sent", "held", "refused", "live", "ended"}]

ChannelTypes ==
  /\ wanted \in BOOLEAN /\ armed \in BOOLEAN /\ tokenOk \in BOOLEAN /\ again \in BOOLEAN
  /\ ws \in 0..MaxSock /\ probes \in Nat /\ timers \in Nat /\ (timers = 0 => armed = FALSE)
  /\ sock \in [C!Sock -> {"unborn", "connecting", "open", "closed", "gone"}]
  /\ group \in {"none", "subscribing", "in", "out"} /\ raced \in BOOLEAN
  /\ subId \in 0..MaxSub /\ bySub \subseteq C!Sub /\ pending \subseteq C!Sub
  /\ sub \in [C!Sub -> SubRec]

\* One thing is under way: a socket, a probe, or a timer for a channel that is
\* wanted; a live socket is #ws.
LinkIInv ==
  /\ \A s, t \in C!Sock : Undone(s) /\ Undone(t) => s = t
  /\ probes + timers <= 1 /\ (timers > 0 => armed /\ wanted)
  /\ \A s \in C!Sock : Undone(s) => probes = 0 /\ timers = 0
  /\ \A s \in C!Sock : s \in C!Alive => s = ws /\ wanted
  /\ (\A s \in C!Sock : sock[s] = "unborn") => probes = 0 /\ timers = 0

\* A request under way, or a live subscription, is on a socket that is up or whose
\* close event is to come; there is one of them at most, and it is the group's.
RequestsIInv ==
  /\ \A n \in C!Sub : sub[n].at = "unsent" <=> sub[n].sock = 0
  /\ \A n \in C!Sub : sub[n].at \in Asked \cup {"live"} => sock[sub[n].sock] \in {"open", "closed"}
  /\ \A n \in C!Sub : n \in pending <=> sub[n].at \in Asked
  /\ \A m, n \in pending : m = n
NoneLive == \A n \in C!Sub : sub[n].at # "live"
IsIn ==
  /\ pending = {} /\ subId \in C!Sub /\ bySub = {subId}
  /\ sub[subId].at \in {"live", "ended"}
  /\ sub[subId].at = "ended" => \A s \in C!Sock : sock[s] # "open"
  /\ \A n \in C!Sub : sub[n].at = "live" => n = subId
IsAsking == pending # {} /\ subId = 0 /\ bySub = {} /\ NoneLive
GroupIInv ==
  /\ group = "none" => subId = 0 /\ bySub = {} /\ \A n \in C!Sub : sub[n].at = "unsent"
  /\ group = "subscribing" => IsAsking
  /\ group = "in" => IsIn \/ IsAsking
  /\ group = "out" /\ ~raced =>
       pending = {} /\ \A n \in C!Sub : sub[n].at = "live" => sock[sub[n].sock] = "closed"
ChannelIInv == ChannelTypes /\ (~again => LinkIInv /\ RequestsIInv /\ GroupIInv)

\* A number is sent on #ws: it becomes the one request under way.
LEMMA SendKeeps ==
  ASSUME ChannelIInv, ws \in C!Sock, NEW n \in C!Sub, C!Sends(n),
         sub' = [sub EXCEPT ![n] = [sock |-> ws, at |-> "sent"]]
  PROVE  /\ sub' \in [C!Sub -> SubRec] /\ pending' = pending \cup {n}
         /\ sub[n].at = "unsent" /\ sub'[n].at = "sent" /\ sub'[n].sock = ws
         /\ \A m \in C!Sub \ {n} : sub'[m] = sub[m]
<1> DEFINE new == [sock |-> ws, at |-> "sent"]
<1>1. new \in SubRec /\ new.at = "sent" /\ new.sock = ws
  BY EdgeAssumption DEF SubRec, C!Sock
<1>2. sub \in [C!Sub -> SubRec] /\ sub' = [sub EXCEPT ![n] = new]
  BY DEF ChannelIInv, ChannelTypes
<1> HIDE DEF new
<1> QED BY <1>1, <1>2 DEF C!Sends

\* Only the answer to a request, or its end, changes what it is at.
LEMMA MoveKeeps ==
  ASSUME ChannelIInv, NEW n \in C!Sub,
         NEW a \in {"held", "refused", "live", "ended"}, sub' = [sub EXCEPT ![n].at = a]
  PROVE  /\ sub' \in [C!Sub -> SubRec] /\ sub'[n].at = a /\ sub'[n].sock = sub[n].sock
         /\ \A m \in C!Sub \ {n} : sub'[m] = sub[m]
<1> DEFINE new == [sub[n] EXCEPT !.at = a]
<1>1. sub \in [C!Sub -> SubRec] /\ sub' = [sub EXCEPT ![n] = new]
  BY DEF ChannelIInv, ChannelTypes
<1>2. new \in SubRec /\ new.at = a /\ new.sock = sub[n].sock
  BY <1>1 DEF SubRec
<1> HIDE DEF new
<1> QED BY <1>1, <1>2

LEMMA ChannelKeeps == ChannelIInv /\ [C!Next]_channelVars => ChannelIInv'
<1> SUFFICES ASSUME ChannelIInv, [C!Next]_channelVars PROVE ChannelIInv'
  OBVIOUS
<1>0. MaxSock \in Nat /\ MaxSub \in Nat /\ 0 \notin C!Sock /\ 0 \notin C!Sub
      /\ C!Sock \subseteq 0..MaxSock /\ C!Sub \subseteq 0..MaxSub
  BY EdgeAssumption DEF C!Sock, C!Sub
<1> USE <1>0
<1>a. ChannelTypes /\ (~again => LinkIInv /\ RequestsIInv /\ GroupIInv)
  BY DEF ChannelIInv
<1>1. CASE C!Connect
  <2>1. PICK s \in C!Sock : sock[s] = "unborn" /\ sock' = [sock EXCEPT ![s] = "connecting"] /\ ws' = s
    BY <1>1 DEF C!Connect, C!Opens
  <2>2. ChannelTypes'
    BY <1>1, <1>a, <2>1 DEF ChannelTypes, C!Connect, C!subs
  <2>3. ASSUME ~again' PROVE LinkIInv' /\ RequestsIInv' /\ GroupIInv'
    <3>1. ~again /\ wanted' /\ \A t \in C!Sock : sock[t] = "unborn"
      BY <1>1, <2>3 DEF C!Connect
    <3>2. \A t \in C!Sock : sock'[t] = IF t = s THEN "connecting" ELSE "unborn"
      BY <1>a, <2>1, <3>1 DEF ChannelTypes
    <3>3. probes = 0 /\ timers = 0 /\ UNCHANGED <<probes, timers, armed, group, subId, bySub, sub, pending, raced>>
      BY <1>1, <1>a, <3>1 DEF C!Connect, C!subs, LinkIInv
    <3>4. LinkIInv'
      BY <2>1, <3>1, <3>2, <3>3 DEF LinkIInv, Undone, C!Alive
    <3>5. \A n \in C!Sub : sub[n].at \notin Asked \cup {"live"} /\ sub[n].sock \in 0..MaxSock
      <4>1. ASSUME NEW n \in C!Sub PROVE sub[n].at \notin Asked \cup {"live"} /\ sub[n].sock \in 0..MaxSock
        <5>1. sub[n].sock \in 0..MaxSock /\ (sub[n].sock = 0 <=> sub[n].at = "unsent")
          BY <1>a, <3>1 DEF ChannelTypes, SubRec, RequestsIInv
        <5>2. sub[n].sock # 0 => sock[sub[n].sock] = "unborn"
          BY <3>1, <5>1 DEF C!Sock
        <5> QED BY <1>a, <3>1, <5>1, <5>2 DEF RequestsIInv, Asked
      <4> QED BY <4>1
    <3>6. RequestsIInv' /\ GroupIInv'
      BY <1>a, <3>1, <3>2, <3>3, <3>5 DEF RequestsIInv, GroupIInv, IsIn, IsAsking, NoneLive
    <3> QED BY <3>4, <3>6
  <2> QED BY <2>2, <2>3 DEF ChannelIInv
<1>2. CASE C!Close
  <2>1. /\ \A s \in C!Sock : sock'[s] = IF s = ws /\ s \in C!Alive THEN "closed" ELSE sock[s]
        /\ sock' \in [C!Sock -> {"unborn", "connecting", "open", "closed", "gone"}]
    BY <1>2, <1>a DEF C!Close, ChannelTypes
  <2>2. ChannelTypes'
    <3>1. wanted' = FALSE /\ armed' = FALSE /\ ws' = 0 /\ UNCHANGED <<probes, tokenOk, again>>
          /\ UNCHANGED <<group, subId, bySub, sub, pending, raced>>
      BY <1>2 DEF C!Close, C!subs
    <3>2. timers' \in Nat
      BY <1>2, <1>a DEF ChannelTypes, C!Close
    <3>3. ws' \in 0..MaxSock
      BY <3>1
    <3>4. wanted' \in BOOLEAN /\ armed' \in BOOLEAN /\ (timers' = 0 => armed' = FALSE)
      BY <3>1
    <3> QED BY <1>a, <2>1, <3>1, <3>2, <3>3, <3>4 DEF ChannelTypes
  <2>3. ASSUME ~again' PROVE LinkIInv' /\ RequestsIInv' /\ GroupIInv'
    <3>1. ~again /\ LinkIInv /\ RequestsIInv /\ GroupIInv
      BY <1>2, <1>a, <2>3 DEF C!Close
    <3>2. timers' = 0 /\ UNCHANGED probes
      BY <1>2, <1>a, <3>1 DEF C!Close, LinkIInv, ChannelTypes
    <3>3. \A s \in C!Sock : (Undone(s)' <=> Undone(s)) /\ s \notin C!Alive'
      BY <2>1, <3>1 DEF Undone, C!Alive, LinkIInv
    <3>4. \A s \in C!Sock : sock'[s] = "unborn" <=> sock[s] = "unborn"
      BY <2>1 DEF C!Alive
    <3>5. LinkIInv'
      BY <1>a, <3>1, <3>2, <3>3, <3>4 DEF LinkIInv, ChannelTypes
    <3>6. UNCHANGED <<group, subId, bySub, sub, pending, raced>>
      BY <1>2 DEF C!Close, C!subs
    <3>7. \A s \in C!Sock : sock[s] \in {"open", "closed"} => sock'[s] = "closed"
      BY <2>1, <3>1 DEF C!Alive, LinkIInv
    <3>8. \A n \in C!Sub : sub[n].sock \in C!Sock \/ sub[n].at \notin Asked \cup {"live"}
      BY <1>a, <3>1 DEF RequestsIInv, ChannelTypes, SubRec, Asked, C!Sock
    <3>9. \A s \in C!Sock : sock'[s] # "open"
      BY <3>3 DEF C!Alive
    <3>10. RequestsIInv'
      BY <3>1, <3>6, <3>7, <3>8 DEF RequestsIInv
    <3>11. GroupIInv'
      BY <3>1, <3>6, <3>7, <3>8, <3>9 DEF GroupIInv, IsIn, IsAsking, NoneLive
    <3> QED BY <3>5, <3>10, <3>11
  <2> QED BY <2>2, <2>3 DEF ChannelIInv
<1>3. CASE C!Revoked \/ C!ProbeReturns
  <2>1. UNCHANGED <<ws, sock, again, group, subId, bySub, sub, pending, raced>>
    BY <1>3 DEF C!Revoked, C!ProbeReturns, C!subs
  <2>2. ChannelTypes'
    <3>1. /\ wanted' \in BOOLEAN /\ tokenOk' \in BOOLEAN
          /\ \/ armed' = TRUE /\ timers' = timers + 1
             \/ UNCHANGED <<armed, timers>>
      BY <1>3, <1>a DEF ChannelTypes, C!Revoked, C!ProbeReturns
    <3>2. probes' \in Nat
      BY <1>3, <1>a DEF ChannelTypes, C!Revoked, C!ProbeReturns
    <3>3. timers' \in Nat /\ armed' \in BOOLEAN /\ (timers' = 0 => armed' = FALSE)
      <4>1. CASE armed' = TRUE /\ timers' = timers + 1
        <5>1. timers \in Nat
          BY <1>a DEF ChannelTypes
        <5>2. timers' \in Nat /\ timers' # 0
          BY <4>1, <5>1
        <5> QED BY <4>1, <5>2
      <4>2. CASE UNCHANGED <<armed, timers>>
        BY <1>a, <4>2 DEF ChannelTypes
      <4> QED BY <3>1, <4>1, <4>2
    <3> QED BY <1>a, <2>1, <3>1, <3>2, <3>3 DEF ChannelTypes
  <2>3. ~again => LinkIInv'
    BY <1>3, <1>a, <2>1 DEF LinkIInv, ChannelTypes, Undone, C!Alive, C!Revoked, C!ProbeReturns
  <2>4. ~again => RequestsIInv' /\ GroupIInv'
    BY <1>a, <2>1 DEF RequestsIInv, GroupIInv, IsIn, IsAsking, NoneLive
  <2> QED BY <2>1, <2>2, <2>3, <2>4 DEF ChannelIInv
<1>4. CASE C!TimerFires
  <2>1. PICK s \in C!Sock : sock[s] = "unborn" /\ sock' = [sock EXCEPT ![s] = "connecting"] /\ ws' = s
    BY <1>4 DEF C!TimerFires, C!Opens
  <2>2. ChannelTypes'
    <3>1. /\ UNCHANGED <<wanted, probes, tokenOk, again, group, subId, bySub, sub, pending, raced>>
          /\ timers > 0 /\ timers' = timers - 1 /\ armed' = (armed /\ timers > 1)
      BY <1>4 DEF C!TimerFires, C!subs
    <3>2. timers' \in Nat /\ (timers' = 0 => armed' = FALSE)
      <4>1. timers' \in Nat /\ (timers' = 0 => ~(timers > 1))
        BY <1>a, <3>1 DEF ChannelTypes
      <4>2. ~(timers > 1) => armed' = FALSE
        BY <3>1
      <4> QED BY <4>1, <4>2
    <3>3. armed' \in BOOLEAN
      BY <3>1
    <3>4. sock' \in [C!Sock -> {"unborn", "connecting", "open", "closed", "gone"}] /\ ws' \in 0..MaxSock
      BY <1>a, <2>1 DEF ChannelTypes
    <3> QED BY <1>a, <3>1, <3>2, <3>3, <3>4 DEF ChannelTypes
  <2>3. ASSUME ~again' PROVE LinkIInv' /\ RequestsIInv' /\ GroupIInv'
    <3>1. ~again /\ LinkIInv /\ RequestsIInv /\ GroupIInv
          /\ UNCHANGED <<wanted, probes, group, subId, bySub, sub, pending, raced>>
      BY <1>4, <1>a, <2>3 DEF C!TimerFires, C!subs
    <3>2. wanted /\ probes = 0 /\ timers' = 0
      BY <1>4, <1>a, <3>1 DEF C!TimerFires, LinkIInv, ChannelTypes
    <3>3. \A t \in C!Sock : ~Undone(t)
      BY <1>4, <3>1 DEF C!TimerFires, LinkIInv
    <3>4. \A t \in C!Sock : sock'[t] = IF t = s THEN "connecting" ELSE sock[t]
      BY <1>a, <2>1 DEF ChannelTypes
    <3>5. LinkIInv'
      BY <2>1, <3>1, <3>2, <3>3, <3>4 DEF LinkIInv, Undone, C!Alive
    <3>6. \A n \in C!Sub : sub[n].at \notin Asked \cup {"live"}
      BY <1>a, <3>1, <3>3 DEF RequestsIInv, ChannelTypes, SubRec, Asked, Undone, C!Sock
    <3>7. \A t \in C!Sock : sock'[t] # "open"
      BY <3>3, <3>4 DEF Undone
    <3>8. RequestsIInv' /\ GroupIInv'
      BY <3>1, <3>6, <3>7 DEF RequestsIInv, GroupIInv, IsIn, IsAsking, NoneLive
    <3> QED BY <3>5, <3>8
  <2> QED BY <2>2, <2>3 DEF ChannelIInv
<1>5. ASSUME NEW s \in C!Sock, C!Drops(s) PROVE ChannelIInv'
  <2>1. /\ s \in C!Alive /\ UNCHANGED <<wanted, ws, probes, timers, armed, tokenOk, again>>
        /\ UNCHANGED <<group, subId, bySub, sub, pending, raced>>
        /\ \A t \in C!Sock : sock'[t] = IF t = s THEN "closed" ELSE sock[t]
        /\ sock' \in [C!Sock -> {"unborn", "connecting", "open", "closed", "gone"}]
    BY <1>5, <1>a DEF C!Drops, C!subs, ChannelTypes
  <2>2. ChannelTypes'
    BY <1>a, <2>1 DEF ChannelTypes
  <2>3. ASSUME ~again PROVE LinkIInv' /\ RequestsIInv' /\ GroupIInv'
    <3>1. LinkIInv /\ RequestsIInv /\ GroupIInv
      BY <1>a, <2>3
    <3>2. LinkIInv'
      BY <2>1, <3>1 DEF LinkIInv, Undone, C!Alive
    <3>3. \A t \in C!Sock : sock[t] \in {"open", "closed"} => sock'[t] \in {"open", "closed"}
      BY <2>1
    <3>4. \A t \in C!Sock : (sock'[t] = "open" => sock[t] = "open") /\ (sock[t] = "closed" => sock'[t] = "closed")
      BY <2>1
    <3>5. \A n \in C!Sub : sub[n].sock \in C!Sock \/ sub[n].at \notin Asked \cup {"live"}
      BY <1>a, <3>1 DEF RequestsIInv, ChannelTypes, SubRec, Asked, C!Sock
    <3>6. RequestsIInv'
      BY <2>1, <3>1, <3>3, <3>5 DEF RequestsIInv
    <3>7. GroupIInv'
      BY <2>1, <3>1, <3>4, <3>5 DEF GroupIInv, IsIn, IsAsking, NoneLive
    <3> QED BY <3>2, <3>6, <3>7
  <2> QED BY <2>1, <2>2, <2>3 DEF ChannelIInv
<1>6. ASSUME NEW s \in C!Sock, C!CloseEvent(s) PROVE ChannelIInv'
  <2>1. /\ sock[s] = "closed" /\ UNCHANGED <<wanted, ws, timers, armed, tokenOk, again, subId, bySub, raced>>
        /\ \A t \in C!Sock : sock'[t] = IF t = s THEN "gone" ELSE sock[t]
        /\ sock' \in [C!Sock -> {"unborn", "connecting", "open", "closed", "gone"}]
        /\ probes' = IF wanted THEN probes + 1 ELSE probes
        /\ group' = IF pending # {} /\ group \in {"subscribing", "in"} THEN "out" ELSE group
        /\ pending' = {}
    BY <1>6, <1>a DEF C!CloseEvent, ChannelTypes
  <2>2. sub' \in [C!Sub -> SubRec] /\ \A n \in C!Sub :
          IF sub[n].sock = s THEN sub'[n].sock = s /\ sub'[n].at = "ended" ELSE sub'[n] = sub[n]
    <3>1. \A n \in C!Sub : [sub[n] EXCEPT !.at = "ended"] \in SubRec
                           /\ [sub[n] EXCEPT !.at = "ended"].at = "ended"
                           /\ [sub[n] EXCEPT !.at = "ended"].sock = sub[n].sock
      BY <1>a DEF ChannelTypes, SubRec
    <3> QED BY <1>6, <1>a, <3>1 DEF C!CloseEvent, ChannelTypes
  <2>3. ChannelTypes'
    BY <1>a, <2>1, <2>2 DEF ChannelTypes
  <2>4. ASSUME ~again PROVE LinkIInv' /\ RequestsIInv' /\ GroupIInv'
    <3>1. LinkIInv /\ RequestsIInv /\ GroupIInv
      BY <1>a, <2>4
    <3>2. \A t \in C!Sock \ {s} : ~Undone(t)
      BY <2>1, <3>1 DEF LinkIInv, Undone
    <3>3. probes = 0 /\ timers = 0
      BY <2>1, <3>1 DEF LinkIInv, Undone
    <3>4. \A t \in C!Sock : ~Undone(t)' /\ t \notin C!Alive' /\ sock'[t] # "open"
      BY <2>1, <3>2 DEF Undone, C!Alive
    <3>5. LinkIInv'
      BY <1>a, <2>1, <3>1, <3>3, <3>4 DEF LinkIInv, ChannelTypes
    <3>6. ASSUME NEW n \in C!Sub
          PROVE  /\ sub'[n].at \notin Asked \cup {"live"}
                 /\ sub[n].at \in {"live", "ended"} => sub'[n].at = "ended"
                 /\ sub[n].at = "unsent" => sub'[n] = sub[n]
                 /\ sub'[n].at = "unsent" <=> sub'[n].sock = 0
      <4>1. CASE sub[n].sock = s
        BY <2>2, <3>1, <4>1 DEF RequestsIInv, Asked
      <4>2. CASE sub[n].sock # s
        <5>1. sub[n].at \notin Asked \cup {"live"}
          BY <1>a, <3>1, <3>2, <4>2 DEF RequestsIInv, ChannelTypes, SubRec, Asked, Undone, C!Sock
        <5> QED BY <2>2, <3>1, <4>2, <5>1 DEF RequestsIInv
      <4> QED BY <4>1, <4>2
    <3>7. RequestsIInv'
      BY <2>1, <3>6 DEF RequestsIInv
    <3>8. GroupIInv'
      <4>1. CASE group = "in" /\ pending = {}
        <5>1. IsIn
          BY <3>1, <4>1 DEF GroupIInv, IsAsking
        <5> QED BY <2>1, <3>4, <3>6, <4>1, <5>1 DEF GroupIInv, IsIn
      <4>2. CASE group = "none"
        BY <2>1, <3>1, <3>6, <4>2 DEF GroupIInv
      <4>3. CASE group # "none" /\ ~(group = "in" /\ pending = {})
        <5>1. group' = "out"
          BY <1>a, <2>1, <3>1, <4>3 DEF ChannelTypes, GroupIInv, IsAsking
        <5> QED BY <2>1, <3>6, <5>1 DEF GroupIInv
      <4> QED BY <4>1, <4>2, <4>3
    <3> QED BY <3>5, <3>7, <3>8
  <2> QED BY <2>1, <2>3, <2>4 DEF ChannelIInv
<1>7. ASSUME NEW s \in C!Sock, C!Opened(s) PROVE ChannelIInv'
  <2>1. /\ sock[s] = "connecting" /\ UNCHANGED <<wanted, ws, probes, timers, armed, tokenOk, again>>
        /\ \A t \in C!Sock : sock'[t] = IF t = s THEN "open" ELSE sock[t]
        /\ sock' \in [C!Sock -> {"unborn", "connecting", "open", "closed", "gone"}]
    BY <1>7, <1>a DEF C!Opened, ChannelTypes
  <2>2. ASSUME ~again
        PROVE  /\ LinkIInv' /\ LinkIInv /\ RequestsIInv /\ GroupIInv /\ ws = s
               /\ \A n \in C!Sub : sub[n].at \notin Asked \cup {"live"}
    <3>1. LinkIInv /\ RequestsIInv /\ GroupIInv
      BY <1>a, <2>2
    <3>2. \A t \in C!Sock : Undone(t) <=> t = s
      BY <2>1, <3>1 DEF LinkIInv, Undone
    <3>3. LinkIInv'
      BY <2>1, <3>1 DEF LinkIInv, Undone, C!Alive
    <3>4. ws = s
      BY <2>1, <3>1 DEF LinkIInv, C!Alive
    <3>5. \A n \in C!Sub : sub[n].at \notin Asked \cup {"live"}
      BY <1>a, <2>1, <3>1, <3>2 DEF RequestsIInv, ChannelTypes, SubRec, Asked, Undone, C!Sock
    <3> QED BY <3>1, <3>3, <3>4, <3>5
  <2>3. CASE group # "in" /\ UNCHANGED <<group, subId, bySub, sub, pending, raced>>
    <3>1. ChannelTypes'
      BY <1>a, <2>1, <2>3 DEF ChannelTypes
    <3>2. ~again => RequestsIInv' /\ GroupIInv'
      BY <2>2, <2>3 DEF RequestsIInv, GroupIInv, IsAsking, NoneLive
    <3> QED BY <2>1, <2>2, <3>1, <3>2 DEF ChannelIInv
  <2>4. ASSUME group = "in", ws \in C!Sock, sock'[ws] = "open", NEW n \in C!Sub, C!Sends(n),
               sub' = [sub EXCEPT ![n] = [sock |-> ws, at |-> "sent"]],
               bySub' = bySub \ {subId}, subId' = 0, UNCHANGED <<group, raced>>
        PROVE  ChannelIInv'
    <3>1. /\ sub' \in [C!Sub -> SubRec] /\ pending' = pending \cup {n}
          /\ sub[n].at = "unsent" /\ sub'[n].at = "sent" /\ sub'[n].sock = ws
          /\ \A m \in C!Sub \ {n} : sub'[m] = sub[m]
      BY <2>4, SendKeeps
    <3>2. ChannelTypes'
      BY <1>a, <2>1, <2>4, <3>1 DEF ChannelTypes
    <3>3. ASSUME ~again PROVE RequestsIInv' /\ GroupIInv'
      <4>1. pending = {} /\ bySub' = {}
        BY <1>a, <2>2, <2>4, <3>3 DEF RequestsIInv, GroupIInv, IsIn, IsAsking, ChannelTypes
      <4>2. RequestsIInv'
        BY <2>2, <2>4, <3>1, <3>3, <4>1 DEF RequestsIInv, Asked
      <4>3. IsAsking'
        BY <2>2, <2>4, <3>1, <3>3, <4>1 DEF IsAsking, NoneLive
      <4> QED BY <2>4, <4>2, <4>3 DEF GroupIInv
    <3> QED BY <2>1, <2>2, <3>2, <3>3 DEF ChannelIInv
  <2>5. CASE /\ group = "in" /\ group' = "out" /\ bySub' = bySub \ {subId} /\ subId' = 0
             /\ UNCHANGED <<sub, pending, raced>>
    <3>1. ChannelTypes'
      BY <1>a, <2>1, <2>5 DEF ChannelTypes
    <3>2. ~again => pending = {}
      BY <1>a, <2>2 DEF RequestsIInv, ChannelTypes
    <3>3. ~again => RequestsIInv' /\ GroupIInv'
      BY <2>2, <2>5, <3>2 DEF RequestsIInv, GroupIInv
    <3> QED BY <2>1, <2>2, <3>1, <3>3 DEF ChannelIInv
  <2> QED BY <1>7, <2>3, <2>4, <2>5 DEF C!Opened, C!subs
<1>8. CASE C!Subscribe
  <2>1. /\ group = "none" /\ group' = "subscribing" /\ ws # 0 /\ sock[ws] = "open"
        /\ UNCHANGED <<wanted, ws, sock, probes, timers, armed, tokenOk, again, subId, bySub, raced>>
    BY <1>8 DEF C!Subscribe, C!Ready, C!link
  <2>2. ws \in C!Sock
    BY <1>a, <2>1 DEF ChannelTypes, C!Sock
  <2>3. PICK n \in C!Sub : C!Sends(n) /\ sub' = [sub EXCEPT ![n] = [sock |-> ws, at |-> "sent"]]
    BY <1>8 DEF C!Subscribe
  <2>4. /\ sub' \in [C!Sub -> SubRec] /\ pending' = pending \cup {n}
        /\ sub[n].at = "unsent" /\ sub'[n].at = "sent" /\ sub'[n].sock = ws
        /\ \A m \in C!Sub \ {n} : sub'[m] = sub[m]
    BY <2>2, <2>3, SendKeeps
  <2>5. ChannelTypes'
    BY <1>a, <2>1, <2>4 DEF ChannelTypes
  <2>6. ASSUME ~again PROVE LinkIInv' /\ RequestsIInv' /\ GroupIInv'
    <3>1. LinkIInv /\ RequestsIInv /\ GroupIInv
      BY <1>a, <2>6
    <3>2. pending = {} /\ \A m \in C!Sub : sub[m].at = "unsent"
      BY <1>a, <2>1, <3>1 DEF GroupIInv, RequestsIInv, ChannelTypes, Asked
    <3>3. LinkIInv'
      BY <2>1, <3>1 DEF LinkIInv, Undone, C!Alive
    <3>4. RequestsIInv'
      BY <2>1, <2>2, <2>4, <3>1, <3>2 DEF RequestsIInv, Asked
    <3>5. IsAsking'
      BY <2>1, <2>4, <3>1, <3>2 DEF GroupIInv, IsAsking, NoneLive
    <3> QED BY <2>1, <3>3, <3>4, <3>5 DEF GroupIInv
  <2> QED BY <2>1, <2>5, <2>6 DEF ChannelIInv
<1>9. CASE C!Unsubscribe
  <2>1. /\ group = "in" /\ group' = "out" /\ bySub' = bySub \ {subId}
        /\ raced' = (raced \/ pending # {})
        /\ UNCHANGED <<wanted, ws, sock, probes, timers, armed, tokenOk, again, subId, pending>>
    BY <1>9 DEF C!Unsubscribe, C!link
  <2>2. sub' \in [C!Sub -> SubRec] /\ \A n \in C!Sub :
          IF n = subId /\ C!Ready THEN sub'[n].sock = sub[n].sock /\ sub'[n].at = "ended" ELSE sub'[n] = sub[n]
    <3>1. \A n \in C!Sub : [sub[n] EXCEPT !.at = "ended"] \in SubRec
                           /\ [sub[n] EXCEPT !.at = "ended"].at = "ended"
                           /\ [sub[n] EXCEPT !.at = "ended"].sock = sub[n].sock
      BY <1>a DEF ChannelTypes, SubRec
    <3>2. sub' = [n \in C!Sub |-> IF n = subId /\ C!Ready THEN [sub[n] EXCEPT !.at = "ended"] ELSE sub[n]]
      BY <1>9 DEF C!Unsubscribe
    <3>3. sub \in [C!Sub -> SubRec]
      BY <1>a DEF ChannelTypes
    <3> QED BY <3>1, <3>2, <3>3
  <2>3. ChannelTypes'
    BY <1>a, <2>1, <2>2 DEF ChannelTypes
  <2>4. ASSUME ~again PROVE LinkIInv' /\ RequestsIInv' /\ GroupIInv'
    <3>1. LinkIInv /\ RequestsIInv /\ GroupIInv
      BY <1>a, <2>4
    <3>2. LinkIInv'
      BY <2>1, <3>1 DEF LinkIInv, Undone, C!Alive
    <3>3. CASE IsIn
      <4>1. sub[subId].at \notin Asked /\ sub[subId].at # "unsent"
        BY <3>3 DEF IsIn, Asked
      <4>2. RequestsIInv'
        BY <2>1, <2>2, <3>1, <3>3, <4>1 DEF RequestsIInv, IsIn, Asked
      <4>3. ASSUME NEW n \in C!Sub, sub'[n].at = "live" PROVE sock'[sub'[n].sock] = "closed"
        <5>1. sub'[n] = sub[n] /\ n = subId /\ ~C!Ready
          BY <2>2, <3>3, <4>3 DEF IsIn
        <5>2. sub[n].sock \in C!Sock /\ sock[sub[n].sock] \in {"open", "closed"}
          BY <1>a, <3>1, <4>3, <5>1 DEF RequestsIInv, ChannelTypes, SubRec, C!Sock
        <5>3. sock[sub[n].sock] # "open"
          BY <3>1, <5>1, <5>2 DEF LinkIInv, C!Alive, C!Ready
        <5> QED BY <2>1, <5>1, <5>2, <5>3
      <4> QED BY <2>1, <3>2, <3>3, <4>2, <4>3 DEF GroupIInv, IsIn
    <3>4. CASE IsAsking
      <4>1. \A n \in C!Sub : sub'[n] = sub[n]
        BY <2>2, <3>4 DEF IsAsking
      <4>2. RequestsIInv'
        BY <2>1, <3>1, <4>1 DEF RequestsIInv
      <4> QED BY <2>1, <3>2, <3>4, <4>2 DEF GroupIInv, IsAsking
    <3> QED BY <2>1, <3>1, <3>3, <3>4 DEF GroupIInv
  <2> QED BY <2>1, <2>3, <2>4 DEF ChannelIInv
<1>10. ASSUME NEW n \in C!Sub, C!BrokerAnswers(n) PROVE ChannelIInv'
  <2>1. PICK a \in {"held", "refused"} : sub' = [sub EXCEPT ![n].at = a]
    BY <1>10 DEF C!BrokerAnswers
  <2>2. /\ sub' \in [C!Sub -> SubRec] /\ sub'[n].at = a /\ sub'[n].sock = sub[n].sock
        /\ \A m \in C!Sub \ {n} : sub'[m] = sub[m]
    BY <2>1, MoveKeeps
  <2>3. /\ sub[n].at = "sent"
        /\ UNCHANGED <<wanted, ws, sock, probes, timers, armed, tokenOk, again>>
        /\ UNCHANGED <<group, subId, bySub, pending, raced>>
    BY <1>10 DEF C!BrokerAnswers, C!link
  <2>4. ChannelTypes'
    BY <1>a, <2>2, <2>3 DEF ChannelTypes
  <2>5. ASSUME ~again PROVE LinkIInv' /\ RequestsIInv' /\ GroupIInv'
    <3>1. LinkIInv /\ RequestsIInv /\ GroupIInv
      BY <1>a, <2>5
    <3>2. LinkIInv'
      BY <2>3, <3>1 DEF LinkIInv, Undone, C!Alive
    <3>3. n \in pending
      BY <2>3, <3>1 DEF RequestsIInv, Asked
    <3>4. RequestsIInv'
      BY <2>2, <2>3, <3>1 DEF RequestsIInv, Asked
    <3>5. GroupIInv'
      BY <2>2, <2>3, <3>1, <3>3 DEF GroupIInv, IsIn, IsAsking, NoneLive
    <3> QED BY <3>2, <3>4, <3>5
  <2> QED BY <2>3, <2>4, <2>5 DEF ChannelIInv
<1>11. ASSUME NEW n \in C!Sub, C!AnswerArrives(n) PROVE ChannelIInv'
  <2> DEFINE a == IF sub[n].at = "refused" THEN "ended" ELSE "live"
  <2>1. /\ n \in pending /\ pending' = pending \ {n} /\ sub[n].at \in {"held", "refused"}
        /\ UNCHANGED <<wanted, ws, sock, probes, timers, armed, tokenOk, again, raced>>
        /\ sub' = [sub EXCEPT ![n].at = a] /\ sock[sub[n].sock] = "open"
    BY <1>11 DEF C!AnswerArrives, C!link
  <2>2. /\ sub' \in [C!Sub -> SubRec] /\ sub'[n].at = a /\ sub'[n].sock = sub[n].sock
        /\ \A m \in C!Sub \ {n} : sub'[m] = sub[m]
    BY <2>1, MoveKeeps
  <2>3. ChannelTypes'
    BY <1>11, <1>a, <2>1, <2>2 DEF ChannelTypes, C!AnswerArrives
  <2>4. ASSUME ~again PROVE LinkIInv' /\ RequestsIInv' /\ GroupIInv'
    <3>1. LinkIInv /\ RequestsIInv /\ GroupIInv
      BY <1>a, <2>4
    <3>2. LinkIInv'
      BY <2>1, <3>1 DEF LinkIInv, Undone, C!Alive
    <3>3. pending' = {}
      BY <2>1, <3>1 DEF RequestsIInv
    <3>4. RequestsIInv'
      <4>1. \A m \in C!Sub \ {n} : sub[m].at \notin Asked
        BY <2>1, <3>1 DEF RequestsIInv
      <4>2. \A m \in C!Sub : sub'[m].at = "unsent" <=> sub'[m].sock = 0
        BY <2>1, <2>2, <3>1 DEF RequestsIInv
      <4>3. \A m \in C!Sub : sub'[m].at \in Asked \cup {"live"} => sock'[sub'[m].sock] \in {"open", "closed"}
        BY <2>1, <2>2, <3>1 DEF RequestsIInv, Asked
      <4> QED BY <2>1, <2>2, <3>3, <4>1, <4>2, <4>3 DEF RequestsIInv, Asked
    <3>5. CASE group \in {"subscribing", "in"}
      <4>1. IsAsking
        BY <2>1, <3>1, <3>5 DEF GroupIInv, IsIn
      <4>2. CASE sub[n].at = "refused"
        <5>1. group' = "out"
          BY <1>11, <4>2 DEF C!AnswerArrives
        <5>2. \A m \in C!Sub : sub'[m].at # "live"
          BY <2>2, <4>1, <4>2 DEF IsAsking, NoneLive
        <5> QED BY <3>2, <3>3, <3>4, <5>1, <5>2 DEF GroupIInv
      <4>3. CASE sub[n].at # "refused"
        <5>1. group' = "in" /\ subId' = n /\ bySub' = {n}
          BY <1>11, <3>5, <4>1, <4>3 DEF C!AnswerArrives, IsAsking
        <5>2. IsIn'
          BY <2>2, <3>3, <4>1, <4>3, <5>1 DEF IsAsking, IsIn, NoneLive
        <5> QED BY <3>2, <3>4, <5>1, <5>2 DEF GroupIInv
      <4> QED BY <4>2, <4>3
    <3>6. CASE group \notin {"subscribing", "in"}
      <4>1. group = "out" /\ raced
        BY <1>a, <2>1, <3>1, <3>6 DEF ChannelTypes, GroupIInv
      <4>2. group' = "out" /\ raced'
        BY <1>11, <2>1, <4>1 DEF C!AnswerArrives
      <4> QED BY <3>2, <3>4, <4>2 DEF GroupIInv
    <3> QED BY <3>5, <3>6
  <2> QED BY <2>1, <2>3, <2>4 DEF ChannelIInv
<1>12. ASSUME NEW n \in C!Sub, C!SubClosed(n) PROVE ChannelIInv'
  <2>1. /\ sub[n].at = "live" /\ sub' = [sub EXCEPT ![n].at = "ended"]
        /\ UNCHANGED <<wanted, ws, sock, probes, timers, armed, tokenOk, again, subId, pending, raced>>
        /\ group' = IF n \in bySub THEN "out" ELSE group
        /\ bySub' = bySub \ {n}
    BY <1>12 DEF C!SubClosed, C!link
  <2>2. /\ sub' \in [C!Sub -> SubRec] /\ sub'[n].at = "ended" /\ sub'[n].sock = sub[n].sock
        /\ \A m \in C!Sub \ {n} : sub'[m] = sub[m]
    BY <2>1, MoveKeeps
  <2>3. ChannelTypes'
    BY <1>a, <2>1, <2>2 DEF ChannelTypes
  <2>4. ASSUME ~again PROVE LinkIInv' /\ RequestsIInv' /\ GroupIInv'
    <3>1. LinkIInv /\ RequestsIInv /\ GroupIInv
      BY <1>a, <2>4
    <3>2. LinkIInv'
      BY <2>1, <3>1 DEF LinkIInv, Undone, C!Alive
    <3>3. RequestsIInv'
      BY <2>1, <2>2, <3>1 DEF RequestsIInv, Asked
    <3>4. CASE group = "in"
      <4>1. IsIn /\ n = subId
        BY <2>1, <3>1, <3>4 DEF GroupIInv, IsIn, IsAsking, NoneLive
      <4>2. group' = "out" /\ pending' = {} /\ \A m \in C!Sub : sub'[m].at # "live"
        BY <2>1, <2>2, <4>1 DEF IsIn
      <4> QED BY <3>2, <3>3, <4>2 DEF GroupIInv
    <3>5. CASE group # "in"
      <4>1. group = "out"
        BY <1>a, <2>1, <3>1, <3>5 DEF ChannelTypes, GroupIInv, IsAsking, NoneLive
      <4>2. \A m \in C!Sub : sub'[m].at = "live" => sub'[m] = sub[m]
        BY <2>2
      <4> QED BY <2>1, <3>1, <3>2, <3>3, <4>1, <4>2 DEF GroupIInv
    <3> QED BY <3>4, <3>5
  <2> QED BY <2>1, <2>3, <2>4 DEF ChannelIInv
<1>13. CASE UNCHANGED channelVars
  <2>1. UNCHANGED <<wanted, ws, sock, probes, timers, armed, tokenOk, again>>
        /\ UNCHANGED <<group, subId, bySub, sub, pending, raced>>
    BY <1>13 DEF channelVars
  <2> QED BY <1>a, <2>1 DEF ChannelIInv, ChannelTypes, LinkIInv, RequestsIInv, GroupIInv, IsIn, IsAsking,
                           NoneLive, Undone, C!Alive
<1> QED BY <1>1, <1>2, <1>3, <1>4, <1>5, <1>6, <1>7, <1>8, <1>9, <1>10, <1>11, <1>12, <1>13 DEF C!Next
-----------------------------------------------------------------------------
(* The folds the broker and its model are read with *)

LEMMA LeastHit ==
  ASSUME NEW P, P \subseteq Nat, P # {} PROVE \E n \in P : \A m \in P : n <= m
<1>1. PICK n \in P : \A m \in P : ~(<<m, n>> \in OpToRel(<, Nat))
  BY NatLessThanWellFounded, WFMin, Zenon
<1>2. \A m \in P : ~(m < n)
  BY <1>1 DEF OpToRel
<1>3. n \in Nat /\ \A m \in P : m \in Nat
  OBVIOUS
<1> QED BY <1>2, <1>3
-----------------------------------------------------------------------------
(* What the library's folds compute: a chain of values, one for each prefix *)

LEMMA LastOfPrefix == ASSUME NEW k \in Nat, NEW s \in SUBSET (1..k), k \in s PROVE Max(s) = k
<1>1. \A n \in s : n <= k /\ n \in Nat
  OBVIOUS
<1>2. \A x \in s : (\A n \in s : x >= n) => x = k
  BY <1>1
<1>3. \A n \in s : k >= n
  BY <1>1
<1> QED BY <1>2, <1>3 DEF Max

LEMMA MaxInside == ASSUME NEW k \in Nat, NEW s \in SUBSET (1..k), s # {} PROVE Max(s) \in s
<1> DEFINE Above == {m \in 0..k : \A n \in s : n <= m}
<1>1. Above # {} /\ Above \subseteq Nat
  <2>1. k \in Above
    OBVIOUS
  <2> QED BY <2>1
<1>2. PICK m \in Above : \A n \in Above : m <= n
  <2> HIDE DEF Above
  <2> QED BY <1>1, LeastHit
<1>3. m \in s
  <2> SUFFICES ASSUME m \notin s PROVE FALSE
    OBVIOUS
  <2>1. m # 0 /\ \A n \in s : n < m
    <3>1. PICK n \in s : TRUE
      OBVIOUS
    <3>2. \A x \in s : x \in 1..k /\ x <= m /\ x # m
      OBVIOUS
    <3>3. m \in Nat
      OBVIOUS
    <3> QED BY <3>1, <3>2, <3>3
  <2>2. m - 1 \in Above
    BY <2>1
  <2> QED BY <1>2, <2>2
<1>4. \A n \in s : m >= n
  OBVIOUS
<1> QED BY <1>3, <1>4 DEF Max

\* f is the chain of a fold by G over 1..k, as the library builds it.
FoldedBy(f, k, base, G) ==
  \A s \in SUBSET (1..k) : f[s] = IF s = {} THEN base ELSE G[<<f[s \ {Max(s)}], Max(s)>>]

\* A fold that has a value for every subset of 1..k has one for those of 1..(k + 1).
LEMMA FoldsFurther ==
  ASSUME NEW N \in Nat, NEW D, NEW base \in D, NEW G \in [D \X (1..N) -> D],
         NEW k \in Nat, k + 1 <= N,
         NEW f \in [SUBSET (1..k) -> D], FoldedBy(f, k, base, G)
  PROVE  \E g \in [SUBSET (1..(k + 1)) -> D] : FoldedBy(g, k + 1, base, G)
<1> DEFINE g == [s \in SUBSET (1..(k + 1)) |->
                   IF k + 1 \in s THEN G[<<f[s \ {k + 1}], k + 1>>] ELSE f[s]]
<1>1. \A s \in SUBSET (1..(k + 1)) : k + 1 \notin s => s \in SUBSET (1..k)
  OBVIOUS
<1>2. \A s \in SUBSET (1..(k + 1)) : s \ {k + 1} \in SUBSET (1..k)
  OBVIOUS
<1>3. g \in [SUBSET (1..(k + 1)) -> D]
  <2>1. k + 1 \in 1..N
    OBVIOUS
  <2> SUFFICES ASSUME NEW s \in SUBSET (1..(k + 1)) PROVE g[s] \in D
    OBVIOUS
  <2> QED BY <1>1, <1>2, <2>1
<1>4. ASSUME NEW s \in SUBSET (1..(k + 1))
      PROVE  g[s] = IF s = {} THEN base ELSE G[<<g[s \ {Max(s)}], Max(s)>>]
  <2>1. CASE k + 1 \in s
    <3>1. Max(s) = k + 1
      BY <2>1, LastOfPrefix
    <3>2. s \ {k + 1} \in SUBSET (1..(k + 1)) /\ k + 1 \notin s \ {k + 1}
      OBVIOUS
    <3>3. g[s \ {k + 1}] = f[s \ {k + 1}]
      BY <3>2
    <3>4. g[s] = G[<<f[s \ {k + 1}], k + 1>>]
      BY <2>1
    <3> HIDE DEF g
    <3> QED BY <2>1, <3>1, <3>3, <3>4
  <2>2. CASE k + 1 \notin s
    <3>1. s \in SUBSET (1..k) /\ g[s] = f[s]
      BY <1>1, <2>2
    <3>2. f[s] = IF s = {} THEN base ELSE G[<<f[s \ {Max(s)}], Max(s)>>]
      BY <3>1 DEF FoldedBy
    <3>3. s \ {Max(s)} \in SUBSET (1..(k + 1)) /\ k + 1 \notin s \ {Max(s)}
      BY <2>2
    <3>4. g[s \ {Max(s)}] = f[s \ {Max(s)}]
      BY <3>3
    <3> HIDE DEF g
    <3> QED BY <3>1, <3>2, <3>4
  <2> QED BY <2>1, <2>2
<1> HIDE DEF g
<1> QED BY <1>3, <1>4 DEF FoldedBy

\* The function the library's MapThenFoldSet chooses exists.
LEMMA FoldExists ==
  ASSUME NEW N \in Nat, NEW D, NEW base \in D, NEW G \in [D \X (1..N) -> D]
  PROVE  \E f \in [SUBSET (1..N) -> D] : FoldedBy(f, N, base, G)
<1> DEFINE Done(k) == \E f \in [SUBSET (1..k) -> D] : FoldedBy(f, k, base, G)
           Bad == {k \in 0..N : ~Done(k)}
<1>1. Done(0)
  <2> DEFINE z == [s \in SUBSET (1..0) |-> base]
  <2>1. \A s \in SUBSET (1..0) : s = {}
    OBVIOUS
  <2>2. z \in [SUBSET (1..0) -> D] /\ FoldedBy(z, 0, base, G)
    BY <2>1 DEF FoldedBy
  <2> QED BY <2>2
<1>2. \A k \in Nat : k + 1 <= N /\ Done(k) => Done(k + 1)
  BY FoldsFurther
<1> HIDE DEF Done
<1>3. Bad = {}
  <2> SUFFICES ASSUME Bad # {} PROVE FALSE
    OBVIOUS
  <2>1. PICK k \in Bad : \A m \in Bad : k <= m
    <3>1. Bad \subseteq Nat
      OBVIOUS
    <3> HIDE DEF Bad
    <3> QED BY <3>1, LeastHit
  <2>2. k \in 0..N /\ k # 0 /\ ~Done(k)
    BY <1>1, <2>1
  <2>3. k - 1 \in 0..N /\ k - 1 \notin Bad /\ (k - 1) + 1 = k /\ (k - 1) + 1 <= N
    BY <2>1, <2>2
  <2>4. Done(k - 1)
    BY <2>3
  <2> QED BY <1>2, <2>2, <2>3, <2>4
<1>4. Done(N)
  BY <1>3
<1> QED BY <1>4 DEF Done

LEMMA PrefixFacts ==
  ASSUME NEW N \in Nat, NEW k \in 1..N
  PROVE  1..k \in SUBSET (1..N) /\ 1..k # {} /\ (1..k) \ {k} = 1..(k - 1) /\ k \in 1..k /\ k \in Nat
OBVIOUS

\* Two chains with the same first value and the same steps have the same last one.
LEMMA ChainsAgree ==
  ASSUME NEW N \in Nat, NEW it, NEW r, it[1..0] = r[0],
         \A k \in 1..N : it[1..(k - 1)] = r[k - 1] => it[1..k] = r[k]
  PROVE  it[1..N] = r[N]
<1> DEFINE Bad == {k \in 0..N : it[1..k] # r[k]}
<1>1. Bad = {}
  <2> SUFFICES ASSUME Bad # {} PROVE FALSE
    OBVIOUS
  <2>1. PICK k \in Bad : \A m \in Bad : k <= m
    <3>1. Bad \subseteq Nat
      OBVIOUS
    <3> HIDE DEF Bad
    <3> QED BY <3>1, LeastHit
  <2>2. k \in 1..N /\ it[1..k] # r[k]
    BY <2>1
  <2>3. k - 1 \in 0..N /\ k - 1 \notin Bad
    BY <2>1, <2>2
  <2>4. it[1..(k - 1)] = r[k - 1]
    BY <2>3
  <2> QED BY <2>2, <2>4
<1> QED BY <1>1
-----------------------------------------------------------------------------
(* The two folds of Http *)

\* One segment of a URL.
Entered(dir, seg) ==
  CASE seg = "." -> dir
    [] seg = ".." -> IF dir = <<>> THEN dir ELSE Front(dir)
    [] OTHER -> Append(dir, seg)
Enters(f, path) ==
  f = [s \in SUBSET DOMAIN path |->
         IF s = {} THEN <<>> ELSE Entered(f[s \ {Max(s)}], path[Max(s)])]
Dirs(path) == (CHOOSE f : Enters(f, path))[DOMAIN path]
NonEmpty(dirs) == {n \in DOMAIN dirs : dirs[n] # Empty}

\* Collapsed, with the operators it is built from named one by one.
LEMMA CollapsedIs == ASSUME NEW path PROVE Collapsed(path) = Picked(Dirs(path), NonEmpty(Dirs(path)))
BY Zenon DEF Collapsed, Dirs, NonEmpty, Enters, Entered, FoldLeft, MapThenFoldSet

Kept(kept, seq, S2, n) == IF n \in S2 THEN Append(kept, seq[n]) ELSE kept
Picks(f, seq, S2) ==
  f = [s \in SUBSET DOMAIN [n \in DOMAIN seq |-> n] |->
         IF s = {} THEN <<>> ELSE Kept(f[s \ {Max(s)}], seq, S2, [n \in DOMAIN seq |-> n][Max(s)])]

\* Picked, down to the function the library chooses.
LEMMA PickedIs == ASSUME NEW seq, NEW S2
  PROVE Picked(seq, S2) = (CHOOSE f : Picks(f, seq, S2))[DOMAIN [n \in DOMAIN seq |-> n]]
BY Zenon DEF Picked, Picks, Kept, FoldLeftDomain, FoldLeft, MapThenFoldSet

LEMMA EnteredTyped ==
  ASSUME NEW X, NEW dir \in Seq(X), NEW seg \in X PROVE Entered(dir, seg) \in Seq(X)
<1>1. dir # <<>> => Front(dir) \in Seq(X)
  BY DEF Front
<1> QED BY <1>1 DEF Entered

\* What Dirs computes: the last of the values that enter one segment after another.
LEMMA DirsRun ==
  ASSUME NEW X, NEW path \in Seq(X), NEW r, r[0] = <<>>,
         \A k \in 1..Len(path) : r[k] = Entered(r[k - 1], path[k])
  PROVE  Dirs(path) = r[Len(path)]
<1> DEFINE N == Len(path)
           G == [c \in Seq(X) \X (1..N) |-> Entered(c[1], path[c[2]])]
           it == CHOOSE f : Enters(f, path)
<1>1. N \in Nat /\ DOMAIN path = 1..N /\ \A k \in 1..N : path[k] \in X
  OBVIOUS
<1>2. <<>> \in Seq(X) /\ G \in [Seq(X) \X (1..N) -> Seq(X)]
  BY <1>1, EnteredTyped
<1>3. PICK f \in [SUBSET (1..N) -> Seq(X)] : FoldedBy(f, N, <<>>, G)
  <2> HIDE DEF G
  <2> QED BY <1>1, <1>2, FoldExists
<1>4. Enters(f, path)
  <2>1. ASSUME NEW s \in SUBSET (1..N)
        PROVE  f[s] = IF s = {} THEN <<>> ELSE Entered(f[s \ {Max(s)}], path[Max(s)])
    <3>1. f[s] = IF s = {} THEN <<>> ELSE G[<<f[s \ {Max(s)}], Max(s)>>]
      BY <1>3 DEF FoldedBy
    <3>2. s # {} => Max(s) \in 1..N
      BY <1>1, MaxInside
    <3>3. f[s \ {Max(s)}] \in Seq(X)
      OBVIOUS
    <3> QED BY <3>1, <3>2, <3>3
  <2>2. f = [s \in SUBSET (1..N) |-> f[s]]
    OBVIOUS
  <2> QED BY <1>1, <2>1, <2>2 DEF Enters
<1>5. Enters(it, path)
  BY <1>4
<1> HIDE DEF it, G
<1>6. it[1..0] = r[0]
  <2>1. 1..0 = {} /\ {} \in SUBSET DOMAIN path
    OBVIOUS
  <2> QED BY <1>5, <2>1 DEF Enters
<1>7. ASSUME NEW k \in 1..N, it[1..(k - 1)] = r[k - 1] PROVE it[1..k] = r[k]
  <2>1. 1..k \in SUBSET (1..N) /\ 1..k # {} /\ (1..k) \ {k} = 1..(k - 1) /\ k \in 1..k /\ k \in Nat
    <3>1. N \in Nat
      BY <1>1
    <3> HIDE DEF N
    <3> QED BY <3>1, PrefixFacts
  <2>2. Max(1..k) = k
    BY <2>1, LastOfPrefix
  <2>3. it[1..k] = Entered(it[(1..k) \ {Max(1..k)}], path[Max(1..k)])
    BY <1>1, <1>5, <2>1, Zenon DEF Enters
  <2> QED BY <1>7, <2>1, <2>2, <2>3
<1>8. it[1..N] = r[N]
  BY <1>1, <1>6, <1>7, ChainsAgree
<1> QED BY <1>1, <1>8 DEF Dirs, it

\* What Picked computes: the elements at the places picked, one after another.
LEMMA PickedRun ==
  ASSUME NEW X, NEW seq \in Seq(X), NEW P, NEW r, r[0] = <<>>,
         \A k \in 1..Len(seq) : r[k] = Kept(r[k - 1], seq, P, k)
  PROVE  Picked(seq, P) = r[Len(seq)]
<1> DEFINE N == Len(seq)
           at == [n \in DOMAIN seq |-> n]
           G == [c \in Seq(X) \X (1..N) |-> Kept(c[1], seq, P, c[2])]
           it == CHOOSE f : Picks(f, seq, P)
<1>1. N \in Nat /\ DOMAIN seq = 1..N /\ \A k \in 1..N : seq[k] \in X
  OBVIOUS
<1>a. DOMAIN at = 1..N /\ \A k \in 1..N : at[k] = k
  BY <1>1
<1>2. <<>> \in Seq(X) /\ G \in [Seq(X) \X (1..N) -> Seq(X)]
  BY <1>1 DEF Kept
<1>3. PICK f \in [SUBSET (1..N) -> Seq(X)] : FoldedBy(f, N, <<>>, G)
  <2> HIDE DEF G
  <2> QED BY <1>1, <1>2, FoldExists
<1> HIDE DEF at
<1>4. f = [s \in SUBSET DOMAIN at |->
             IF s = {} THEN <<>> ELSE Kept(f[s \ {Max(s)}], seq, P, at[Max(s)])]
  <2>1. ASSUME NEW s \in SUBSET (1..N)
        PROVE  f[s] = IF s = {} THEN <<>> ELSE Kept(f[s \ {Max(s)}], seq, P, at[Max(s)])
    <3>1. f[s] = IF s = {} THEN <<>> ELSE G[<<f[s \ {Max(s)}], Max(s)>>]
      BY <1>3 DEF FoldedBy
    <3>2. s # {} => Max(s) \in 1..N /\ at[Max(s)] = Max(s)
      BY <1>1, <1>a, MaxInside
    <3>3. f[s \ {Max(s)}] \in Seq(X)
      OBVIOUS
    <3> QED BY <3>1, <3>2, <3>3
  <2>2. f = [s \in SUBSET (1..N) |-> f[s]]
    OBVIOUS
  <2> QED BY <1>a, <2>1, <2>2
<1>5. Picks(it, seq, P)
  <2>1. Picks(f, seq, P)
    BY <1>4 DEF Picks, at
  <2> QED BY <2>1
<1>6. it = [s \in SUBSET DOMAIN at |->
              IF s = {} THEN <<>> ELSE Kept(it[s \ {Max(s)}], seq, P, at[Max(s)])]
  <2> HIDE DEF it
  <2> QED BY <1>5 DEF Picks, at
<1>7. Picked(seq, P) = it[DOMAIN at]
  BY PickedIs, Zenon DEF it, at
<1> HIDE DEF it, G
<1>8. it[1..0] = r[0]
  <2>1. 1..0 = {} /\ {} \in SUBSET DOMAIN at
    OBVIOUS
  <2> QED BY <1>6, <2>1
<1>9. ASSUME NEW k \in 1..N, it[1..(k - 1)] = r[k - 1] PROVE it[1..k] = r[k]
  <2>1. 1..k \in SUBSET (1..N) /\ 1..k # {} /\ (1..k) \ {k} = 1..(k - 1) /\ k \in 1..k /\ k \in Nat
    <3>1. N \in Nat
      BY <1>1
    <3> HIDE DEF N
    <3> QED BY <3>1, PrefixFacts
  <2>2. Max(1..k) = k
    BY <2>1, LastOfPrefix
  <2>3. it[1..k] = Kept(it[(1..k) \ {Max(1..k)}], seq, P, at[Max(1..k)])
    BY <1>a, <1>6, <2>1, Zenon
  <2>4. at[k] = k
    BY <1>a
  <2> QED BY <1>9, <2>1, <2>2, <2>3, <2>4
<1>10. it[1..N] = r[N]
  BY <1>1, <1>8, <1>9, ChainsAgree
<1> QED BY <1>1, <1>a, <1>7, <1>10

\* A path without odd segments is what a URL makes of it.
LEMMA CollapsedProper ==
  ASSUME NEW X, NEW path \in Seq(X), \A n \in 1..Len(path) : path[n] \notin {Empty, ".", ".."}
  PROVE  Collapsed(path) = path
<1> DEFINE N == Len(path)
           r == [k \in 0..N |-> SubSeq(path, 1, k)]
<1>1. N \in Nat /\ DOMAIN path = 1..N /\ \A k \in 1..N : path[k] \in X
  OBVIOUS
<1>2. r[0] = <<>>
  <2>1. r[0] = SubSeq(path, 1, 0)
    BY <1>1
  <2> QED BY <2>1, SubSeqEmpty
<1>3. ASSUME NEW k \in 1..N PROVE r[k] = Append(r[k - 1], path[k])
  <2>1. r[k - 1] = SubSeq(path, 1, k - 1) /\ r[k] = SubSeq(path, 1, k)
    BY <1>1
  <2>2. SubSeq(path, 1, k - 1) \in Seq(X)
    <3>1. \A i \in 1..(k - 1) : path[i] \in X
      BY <1>1
    <3>2. k - 1 \in Int /\ 1 \in Int
      BY <1>1
    <3> QED BY <3>1, <3>2, SubSeqProperties
  <2>3. SubSeq(path, 1, k) = SubSeq(path, 1, k - 1) \o <<path[k]>>
    <3>1. 1 \in 1..N /\ k \in 1..N
      BY <1>1
    <3> QED BY <3>1, SubSeqRecursiveSecond
  <2>4. Append(SubSeq(path, 1, k - 1), path[k]) = SubSeq(path, 1, k - 1) \o <<path[k]>>
    BY <1>1, <2>2, AppendIsConcat
  <2> HIDE DEF r
  <2> QED BY <2>1, <2>3, <2>4
<1>4. r[N] = path
  <2>1. r[N] = SubSeq(path, 1, N)
    BY <1>1
  <2> QED BY <2>1, SubSeqFull
<1> HIDE DEF r
<1>5. Dirs(path) = path
  <2>1. \A k \in 1..N : r[k] = Entered(r[k - 1], path[k])
    BY <1>3 DEF Entered
  <2> QED BY <1>2, <1>4, <2>1, DirsRun
<1>6. \A k \in 1..N : r[k] = Kept(r[k - 1], path, NonEmpty(path), k)
  <2>1. \A k \in 1..N : k \in NonEmpty(path)
    BY <1>1 DEF NonEmpty
  <2> QED BY <1>3, <2>1 DEF Kept
<1>7. Picked(path, NonEmpty(path)) = path
  BY <1>2, <1>4, <1>6, PickedRun
<1> QED BY <1>5, <1>7, CollapsedIs

LEMMA AppendSmall ==
  ASSUME NEW a, NEW b PROVE Append(<<>>, a) = <<a>> /\ Append(<<a>>, b) = <<a, b>>
<1> DEFINE X == {a, b}
<1>1. <<>> \in Seq(X) /\ <<a>> \in Seq(X) /\ <<a, b>> \in Seq(X) /\ a \in X /\ b \in X
  OBVIOUS
<1>2. Len(<<>>) = 0 /\ Len(<<a>>) = 1 /\ Len(<<a, b>>) = 2 /\ <<a>>[1] = a /\ <<a, b>>[1] = a /\ <<a, b>>[2] = b
  OBVIOUS
<1> HIDE DEF X
<1>3. Append(<<>>, a) = <<a>>
  <2>1. Append(<<>>, a) \in Seq(X) /\ Len(Append(<<>>, a)) = 1 /\ Append(<<>>, a)[1] = a
    <3>1. Append(<<>>, a)[Len(<<>>) + 1] = a
      BY <1>1, AppendProperties
    <3> QED BY <1>1, <1>2, <3>1, AppendProperties
  <2> DEFINE p == Append(<<>>, a)
  <2> HIDE DEF p
  <2>2. p \in Seq(X) /\ Len(p) = 1 /\ p[1] = a
    BY <2>1 DEF p
  <2>3. p = <<a>>
    BY <2>2
  <2> QED BY <2>3 DEF p
<1>4. Append(<<a>>, b) = <<a, b>>
  <2>1. Append(<<a>>, b) \in Seq(X) /\ Len(Append(<<a>>, b)) = 2
        /\ Append(<<a>>, b)[1] = a /\ Append(<<a>>, b)[2] = b
    BY <1>1, <1>2, AppendProperties
  <2> DEFINE p == Append(<<a>>, b)
  <2> HIDE DEF p
  <2>2. p \in Seq(X) /\ Len(p) = 2 /\ p[1] = a /\ p[2] = b
    BY <2>1 DEF p
  <2>3. p = <<a, b>>
    BY <2>2
  <2> QED BY <2>3 DEF p
<1> QED BY <1>3, <1>4

\* What is picked at two places.
LEMMA PickedPair ==
  ASSUME NEW X, NEW seq \in Seq(X), NEW i \in Nat, NEW j \in Nat, 0 < i, i < j,
         NEW P, \A n \in 1..Len(seq) : n \in P <=> n \in {i, j}
  PROVE  Picked(seq, P) = IF Len(seq) < i THEN <<>>
                          ELSE IF Len(seq) < j THEN <<seq[i]>> ELSE <<seq[i], seq[j]>>
<1> DEFINE N == Len(seq)
           r == [k \in 0..N |-> IF k < i THEN <<>> ELSE IF k < j THEN <<seq[i]>> ELSE <<seq[i], seq[j]>>]
<1>1. N \in Nat
  OBVIOUS
<1>2. r[0] = <<>>
  BY <1>1
<1>3. ASSUME NEW k \in 1..N PROVE r[k] = Kept(r[k - 1], seq, P, k)
  <2>1. /\ r[k] = IF k < i THEN <<>> ELSE IF k < j THEN <<seq[i]>> ELSE <<seq[i], seq[j]>>
        /\ r[k - 1] = IF k - 1 < i THEN <<>> ELSE IF k - 1 < j THEN <<seq[i]>> ELSE <<seq[i], seq[j]>>
    BY <1>1
  <2>2. Append(<<>>, seq[i]) = <<seq[i]>> /\ Append(<<seq[i]>>, seq[j]) = <<seq[i], seq[j]>>
    BY AppendSmall
  <2>3. k \in P <=> k \in {i, j}
    OBVIOUS
  <2> HIDE DEF r
  <2>4. CASE k = i
    <3>1. r[k - 1] = <<>> /\ r[k] = <<seq[i]>>
      BY <2>1, <2>4
    <3> QED BY <2>2, <2>3, <2>4, <3>1 DEF Kept
  <2>5. CASE k = j
    <3>1. r[k - 1] = <<seq[i]>> /\ r[k] = <<seq[i], seq[j]>>
      BY <2>1, <2>5
    <3> QED BY <2>2, <2>3, <2>5, <3>1 DEF Kept
  <2>6. CASE k \notin {i, j}
    <3>1. r[k - 1] = r[k]
      BY <2>1, <2>6
    <3> QED BY <2>3, <2>6, <3>1 DEF Kept
  <2> QED BY <2>4, <2>5, <2>6
<1>4. r[N] = IF N < i THEN <<>> ELSE IF N < j THEN <<seq[i]>> ELSE <<seq[i], seq[j]>>
  BY <1>1
<1> HIDE DEF r
<1> QED BY <1>2, <1>3, <1>4, PickedRun

-----------------------------------------------------------------------------
(* The routes of a session, and those of an instance *)

LEMMA JoinedRange ==
  ASSUME NEW X, NEW s \in Seq(X), NEW t \in Seq(X)
  PROVE  s \o t \in Seq(X) /\ Range(s \o t) = Range(s) \cup Range(t)
<1> DEFINE j == s \o t
<1>1. /\ j \in Seq(X) /\ Len(j) = Len(s) + Len(t)
      /\ \A i \in 1..(Len(s) + Len(t)) : j[i] = IF i <= Len(s) THEN s[i] ELSE t[i - Len(s)]
  BY ConcatProperties
<1>2. Len(s) \in Nat /\ Len(t) \in Nat /\ DOMAIN s = 1..Len(s) /\ DOMAIN t = 1..Len(t)
      /\ DOMAIN j = 1..Len(j)
  BY <1>1
<1> HIDE DEF j
<1>3. \A i \in DOMAIN s : i \in DOMAIN j /\ j[i] = s[i]
  BY <1>1, <1>2
<1>4. \A i \in DOMAIN t : Len(s) + i \in DOMAIN j /\ j[Len(s) + i] = t[i]
  BY <1>1, <1>2
<1>5. ASSUME NEW i \in DOMAIN j PROVE j[i] \in Range(s) \cup Range(t)
  <2>1. CASE i <= Len(s)
    <3>1. i \in DOMAIN s /\ j[i] = s[i]
      BY <1>1, <1>2, <2>1
    <3> QED BY <3>1 DEF Range
  <2>2. CASE ~(i <= Len(s))
    <3>1. i - Len(s) \in DOMAIN t /\ j[i] = t[i - Len(s)]
      BY <1>1, <1>2, <2>2
    <3> QED BY <3>1 DEF Range
  <2> QED BY <2>1, <2>2
<1>6. Range(j) = Range(s) \cup Range(t)
  BY <1>3, <1>4, <1>5 DEF Range
<1> QED BY <1>1, <1>6 DEF j

GitVerbs ==
  {<<"GET", "diff", "repo.diff">>, <<"GET", "log", "repo.log">>, <<"POST", "commit", "repo.commit">>,
   <<"POST", "push", "repo.push">>, <<"POST", "checkout", "repo.checkout">>, <<"POST", "pull", "repo.pull">>,
   <<"POST", "discard", "repo.discard">>, <<"GET", "stash", "repo.stash_list">>, <<"POST", "stash", "repo.stash">>}

\* What tells the routes of a session from each other; they bind their second and
\* fourth segments.
Shape(r) ==
  \/ Len(r.path) = 0 /\ r.verb = "DELETE" /\ r.op = "teardown"
  \/ /\ Len(r.path) = 1
     /\ <<r.verb, r.path[1], r.op>> \in
          {<<"GET", "agents", "agents">>, <<"POST", "agents", "agent.spawn">>,
           <<"GET", "workspaces", "workspace.list">>, <<"GET", "resumable", "session.resumable">>,
           <<"GET", "orphans", "session.orphans">>, <<"POST", "rpc", "rpc">>}
  \/ /\ Len(r.path) = 2 /\ r.path[2] = "*"
     /\ <<r.verb, r.path[1], r.op>> \in
          {<<"DELETE", "agents", "agent.stop">>, <<"DELETE", "workspaces", "workspace.close">>,
           <<"DELETE", "worktrees", "worktree.remove">>}
  \/ /\ Len(r.path) = 3 /\ r.path[2] = "*"
     /\ <<r.verb, r.path[1], r.path[3], r.op>> \in
          {<<"POST", "agents", "wait", "agent.wait">>, <<"GET", "agents", "explain", "agent.explain">>,
           <<"POST", "agents", "ask", "agent.ask">>, <<"POST", "agents", "model", "agent.model">>,
           <<"POST", "agents", "prompt", "agent.prompt">>,
           <<"POST", "agents", "spec-bundles", "spec.drive">>,
           <<"GET", "workspaces", "worktrees", "worktree.list">>,
           <<"GET", "workspaces", "context", "context.list">>,
           <<"GET", "workspaces", "spec-bundles", "spec.list">>,
           <<"GET", "panes", "screen", "pane.screen">>, <<"POST", "panes", "exec", "pane.exec">>}
  \/ /\ Len(r.path) = 4 /\ r.path[2] = "*" /\ r.path[4] = "*"
     /\ <<r.verb, r.path[1], r.path[3], r.op>> \in
          {<<"PUT", "workspaces", "context", "context.put">>, <<"GET", "workspaces", "context", "context.get">>,
           <<"POST", "workspaces", "context", "context.set">>,
           <<"DELETE", "workspaces", "context", "context.delete">>,
           <<"POST", "agents", "slash", "agent.slash">>,
           <<"GET", "workspaces", "spec-bundles", "spec.get">>}
  \/ /\ Len(r.path) = 5 /\ r.path[2] = "*" /\ r.path[4] = "*"
     /\ <<r.verb, r.path[1], r.path[3], r.path[5], r.op>> \in
          {<<"GET", "workspaces", "repos", "tree", "repo.tree">>,
           <<"GET", "workspaces", "repos", "file", "repo.file">>,
           <<"POST", "agents", "spec-bundles", "plan", "spec.plan">>}
  \/ /\ Len(r.path) = 6 /\ r.path[1] = "workspaces" /\ r.path[2] = "*" /\ r.path[3] = "repos"
     /\ r.path[4] = "*" /\ r.path[5] = "git"
     /\ <<r.verb, r.path[6], r.op>> \in GitVerbs
  \/ /\ Len(r.path) = 7 /\ r.path[1] = "workspaces" /\ r.path[2] = "*" /\ r.path[3] = "repos"
     /\ r.path[4] = "*" /\ r.path[5] = "git" /\ r.path[6] = "stash" /\ r.path[7] = "pop"
     /\ r.verb = "POST" /\ r.op = "repo.stash_pop"

\* A route of a session binds its second and fourth segments, if it has them.
LEMMA StarsAt ==
  ASSUME NEW r, Shape(r)
  PROVE  Len(r.path) \in 0..7 /\ \A n \in 1..Len(r.path) : r.path[n] = "*" <=> n \in {2, 4}
<1> SUFFICES ASSUME NEW n \in 1..Len(r.path), Len(r.path) \in 0..7
             PROVE r.path[n] = "*" <=> n \in {2, 4}
  BY DEF Shape
<1>1. n = 1 => r.path[n] # "*"
  BY DEF Shape
<1>2. n = 2 => r.path[n] = "*"
  BY DEF Shape
<1>3. n = 3 => r.path[n] # "*"
  BY DEF Shape
<1>4. n = 4 => r.path[n] = "*"
  BY DEF Shape
<1>5. n \in {5, 6, 7} => r.path[n] # "*"
  BY DEF Shape, GitVerbs
<1> QED BY <1>1, <1>2, <1>3, <1>4, <1>5

\* No two routes of a session match the same request.
LEMMA RoutesDiffer ==
  ASSUME NEW r, Shape(r), NEW q, Shape(q), r.verb = q.verb, Len(r.path) = Len(q.path),
         \A n \in 1..Len(r.path) : n \notin {2, 4} => r.path[n] = q.path[n]
  PROVE  r.op = q.op
<1>1. CASE Len(r.path) \in {0, 1, 2}
  BY <1>1 DEF Shape
<1>2. CASE Len(r.path) = 3
  BY <1>2 DEF Shape
<1>3. CASE Len(r.path) = 4
  BY <1>3 DEF Shape
<1>4. CASE Len(r.path) = 5
  BY <1>4 DEF Shape
<1>5. CASE Len(r.path) = 6
  <2>1. <<r.verb, r.path[6], r.op>> \in GitVerbs
    BY <1>5 DEF Shape
  <2>2. <<q.verb, q.path[6], q.op>> \in GitVerbs
    BY <1>5 DEF Shape
  <2>3. r.path[6] = q.path[6]
    BY <1>5
  <2> QED BY <2>1, <2>2, <2>3 DEF GitVerbs
<1>6. CASE Len(r.path) = 7
  BY <1>6 DEF Shape
<1> QED BY <1>1, <1>2, <1>3, <1>4, <1>5, <1>6, StarsAt

Sound(routes) ==
  /\ routes \in Seq(Range(routes))
  /\ \A n \in DOMAIN routes : Shape(routes[n])
  /\ \A n \in DOMAIN routes : DOMAIN routes[n].path = 1..Len(routes[n].path)

\* Every route of a session has the shape, table by table (matchSubRoute of src/http.ts).
LEMMA SessionAgentRoutesSound == Sound(SessionRoutes) /\ Sound(AgentRoutes)
<1>1. SessionRoutes \in Seq(Range(SessionRoutes))
  BY DEF SessionRoutes, Range
<1>2. \A n \in DOMAIN SessionRoutes : Shape(SessionRoutes[n])
  BY DEF SessionRoutes, R, Shape, GitVerbs
<1>3. \A n \in DOMAIN SessionRoutes : DOMAIN SessionRoutes[n].path = 1..Len(SessionRoutes[n].path)
  BY DEF SessionRoutes, R
<1>4. AgentRoutes \in Seq(Range(AgentRoutes))
  BY DEF AgentRoutes, Range
<1>5. \A n \in DOMAIN AgentRoutes : Shape(AgentRoutes[n])
  BY DEF AgentRoutes, R, Shape, GitVerbs
<1>6. \A n \in DOMAIN AgentRoutes : DOMAIN AgentRoutes[n].path = 1..Len(AgentRoutes[n].path)
  BY DEF AgentRoutes, R
<1> QED BY <1>1, <1>2, <1>3, <1>4, <1>5, <1>6 DEF Sound

LEMMA WorkspaceRoutesSound == Sound(WorkspaceRoutes)
<1>1. WorkspaceRoutes \in Seq(Range(WorkspaceRoutes))
  BY DEF WorkspaceRoutes, Range
<1>2. \A n \in DOMAIN WorkspaceRoutes : Shape(WorkspaceRoutes[n])
  BY DEF WorkspaceRoutes, R, Shape, GitVerbs
<1>3. \A n \in DOMAIN WorkspaceRoutes : DOMAIN WorkspaceRoutes[n].path = 1..Len(WorkspaceRoutes[n].path)
  BY DEF WorkspaceRoutes, R
<1> QED BY <1>1, <1>2, <1>3 DEF Sound

GitRoute(verb, name, op) == R(verb, <<"workspaces", "*", "repos", "*", "git", name>>, op)

\* A route of the git handler has the shape, whichever of its verbs it is.
LEMMA GitShape ==
  ASSUME NEW verb, NEW name, NEW op, <<verb, name, op>> \in GitVerbs
  PROVE  Shape(GitRoute(verb, name, op))
<1> DEFINE r == GitRoute(verb, name, op)
<1>1. /\ r.path = <<"workspaces", "*", "repos", "*", "git", name>>
      /\ r.verb = verb /\ r.op = op
  BY DEF GitRoute, R
<1>2. /\ Len(r.path) = 6 /\ r.path[1] = "workspaces" /\ r.path[2] = "*" /\ r.path[3] = "repos"
      /\ r.path[4] = "*" /\ r.path[5] = "git" /\ r.path[6] = name
  BY <1>1
<1> HIDE DEF r
<1>3. Shape(r)
  BY <1>1, <1>2 DEF Shape
<1> QED BY <1>3 DEF r

LEMMA GitRoutesSound == Sound(GitRoutes)
<1>1. GitRoutes \in Seq(Range(GitRoutes)) /\ DOMAIN GitRoutes = 1..9
  BY DEF GitRoutes, Range
<1>2. /\ GitRoutes[1] = GitRoute("GET", "log", "repo.log")
      /\ GitRoutes[2] = GitRoute("POST", "commit", "repo.commit")
      /\ GitRoutes[3] = GitRoute("POST", "push", "repo.push")
      /\ GitRoutes[4] = GitRoute("POST", "checkout", "repo.checkout")
      /\ GitRoutes[5] = GitRoute("POST", "pull", "repo.pull")
      /\ GitRoutes[6] = GitRoute("POST", "discard", "repo.discard")
      /\ GitRoutes[7] = GitRoute("GET", "stash", "repo.stash_list")
      /\ GitRoutes[8] = GitRoute("POST", "stash", "repo.stash")
  BY DEF GitRoutes, GitRoute
<1>3. /\ <<"GET", "log", "repo.log">> \in GitVerbs
      /\ <<"POST", "commit", "repo.commit">> \in GitVerbs
      /\ <<"POST", "push", "repo.push">> \in GitVerbs
      /\ <<"POST", "checkout", "repo.checkout">> \in GitVerbs
      /\ <<"POST", "pull", "repo.pull">> \in GitVerbs
      /\ <<"POST", "discard", "repo.discard">> \in GitVerbs
      /\ <<"GET", "stash", "repo.stash_list">> \in GitVerbs
      /\ <<"POST", "stash", "repo.stash">> \in GitVerbs
  BY DEF GitVerbs
<1>4. \A n \in 1..8 : Shape(GitRoutes[n])
  <2>1. Shape(GitRoutes[1])
    BY <1>2, <1>3, GitShape, Zenon
  <2>2. Shape(GitRoutes[2])
    BY <1>2, <1>3, GitShape, Zenon
  <2>3. Shape(GitRoutes[3])
    BY <1>2, <1>3, GitShape, Zenon
  <2>4. Shape(GitRoutes[4])
    BY <1>2, <1>3, GitShape, Zenon
  <2>5. Shape(GitRoutes[5])
    BY <1>2, <1>3, GitShape, Zenon
  <2>6. Shape(GitRoutes[6])
    BY <1>2, <1>3, GitShape, Zenon
  <2>7. Shape(GitRoutes[7])
    BY <1>2, <1>3, GitShape, Zenon
  <2>8. Shape(GitRoutes[8])
    BY <1>2, <1>3, GitShape, Zenon
  <2>9. \A n \in 1..8 : n = 1 \/ n = 2 \/ n = 3 \/ n = 4 \/ n = 5 \/ n = 6 \/ n = 7 \/ n = 8
    OBVIOUS
  <2> QED BY <2>1, <2>2, <2>3, <2>4, <2>5, <2>6, <2>7, <2>8, <2>9, Zenon
<1>5. Shape(GitRoutes[9])
  BY DEF GitRoutes, R, Shape
<1>6. \A n \in DOMAIN GitRoutes : DOMAIN GitRoutes[n].path = 1..Len(GitRoutes[n].path)
  BY DEF GitRoutes, R
<1>7. \A n \in 1..9 : n \in 1..8 \/ n = 9
  OBVIOUS
<1> QED BY <1>1, <1>4, <1>5, <1>6, <1>7 DEF Sound

LEMMA TurnSpecPaneRoutesSound == Sound(TurnRoutes) /\ Sound(SpecRoutes) /\ Sound(PaneRoutes)
<1>1. TurnRoutes \in Seq(Range(TurnRoutes))
  BY DEF TurnRoutes, Range
<1>2. \A n \in DOMAIN TurnRoutes : Shape(TurnRoutes[n])
  BY DEF TurnRoutes, R, Shape, GitVerbs
<1>3. \A n \in DOMAIN TurnRoutes : DOMAIN TurnRoutes[n].path = 1..Len(TurnRoutes[n].path)
  BY DEF TurnRoutes, R
<1>4. SpecRoutes \in Seq(Range(SpecRoutes))
  BY DEF SpecRoutes, Range
<1>5. \A n \in DOMAIN SpecRoutes : Shape(SpecRoutes[n])
  BY DEF SpecRoutes, R, Shape, GitVerbs
<1>6. \A n \in DOMAIN SpecRoutes : DOMAIN SpecRoutes[n].path = 1..Len(SpecRoutes[n].path)
  BY DEF SpecRoutes, R
<1>7. PaneRoutes \in Seq(Range(PaneRoutes))
  BY DEF PaneRoutes, Range
<1>8. \A n \in DOMAIN PaneRoutes : Shape(PaneRoutes[n])
  BY DEF PaneRoutes, R, Shape, GitVerbs
<1>9. \A n \in DOMAIN PaneRoutes : DOMAIN PaneRoutes[n].path = 1..Len(PaneRoutes[n].path)
  BY DEF PaneRoutes, R
<1> QED BY <1>1, <1>2, <1>3, <1>4, <1>5, <1>6, <1>7, <1>8, <1>9 DEF Sound

LEMMA ContextPathIs == <<"workspaces", "*", "context">> \o <<"*">> = <<"workspaces", "*", "context", "*">>
<1> DEFINE X == {"workspaces", "*", "context"}
           a == <<"workspaces", "*", "context">>
           b == <<"*">>
           j == a \o b
<1>1. a \in Seq(X) /\ b \in Seq(X) /\ Len(a) = 3 /\ Len(b) = 1
  OBVIOUS
<1>2. a[1] = "workspaces" /\ a[2] = "*" /\ a[3] = "context" /\ b[1] = "*"
  OBVIOUS
<1> HIDE DEF X, a, b
<1>a. /\ j \in Seq(X) /\ Len(j) = Len(a) + Len(b) 
      /\ \A i \in 1..(Len(a) + Len(b)) : j[i] = IF i <= Len(a) THEN a[i] ELSE b[i - Len(a)]
  BY <1>1, ConcatProperties
<1> HIDE DEF j
<1>3. j \in Seq(X) /\ Len(j) = 4 /\ \A i \in 1..4 : j[i] = IF i <= 3 THEN a[i] ELSE b[i - 3]
  BY <1>1, <1>a
<1>4. j[1] = "workspaces" /\ j[2] = "*" /\ j[3] = "context" /\ j[4] = "*"
  BY <1>2, <1>3
<1>5. j = <<"workspaces", "*", "context", "*">>
  BY <1>3, <1>4
<1> QED BY <1>5 DEF j, a, b

LEMMA ContextRoutesSound == Sound(ContextRoutes)
<1>1. ContextRoutes = << R("GET", <<"workspaces", "*", "context">>, "context.list"),
     R("PUT", <<"workspaces", "*", "context", "*">>, "context.put"), R("GET", <<"workspaces", "*", "context", "*">>, "context.get"),
     R("POST", <<"workspaces", "*", "context", "*">>, "context.set"), R("DELETE", <<"workspaces", "*", "context", "*">>, "context.delete") >>
  BY ContextPathIs, Zenon DEF ContextRoutes
<1>2. ContextRoutes \in Seq(Range(ContextRoutes))
  BY <1>1 DEF Range
<1>3. \A n \in DOMAIN ContextRoutes : Shape(ContextRoutes[n])
  BY <1>1 DEF R, Shape
<1>4. \A n \in DOMAIN ContextRoutes : DOMAIN ContextRoutes[n].path = 1..Len(ContextRoutes[n].path)
  BY <1>1 DEF R
<1> QED BY <1>2, <1>3, <1>4 DEF Sound

SessionRange == Range(SessionRoutes) \cup Range(AgentRoutes) \cup Range(WorkspaceRoutes)
                  \cup Range(ContextRoutes) \cup Range(GitRoutes) \cup Range(TurnRoutes)
                  \cup Range(SpecRoutes) \cup Range(PaneRoutes)

LEMMA SubsetSeq == ASSUME NEW X, NEW Y, X \subseteq Y, NEW s \in Seq(X) PROVE s \in Seq(Y)
OBVIOUS

\* The routes of a session are those of its tables.
LEMMA SessionRoutesJoined == InSession \in Seq(SessionRange) /\ Range(InSession) = SessionRange
<1> DEFINE X == SessionRange
           j2 == SessionRoutes \o AgentRoutes
           j3 == j2 \o WorkspaceRoutes
           j4 == j3 \o ContextRoutes
           j5 == j4 \o GitRoutes
           j6 == j5 \o TurnRoutes
           j7 == j6 \o SpecRoutes
           j8 == j7 \o PaneRoutes
<1>1. /\ SessionRoutes \in Seq(X) /\ AgentRoutes \in Seq(X) /\ WorkspaceRoutes \in Seq(X)
      /\ ContextRoutes \in Seq(X) /\ GitRoutes \in Seq(X) /\ TurnRoutes \in Seq(X)
      /\ SpecRoutes \in Seq(X) /\ PaneRoutes \in Seq(X)
  <2>1. \A s : Sound(s) => s \in Seq(Range(s))
    BY DEF Sound
  <2> QED BY <2>1, SessionAgentRoutesSound, WorkspaceRoutesSound, GitRoutesSound, TurnSpecPaneRoutesSound, ContextRoutesSound, SubsetSeq DEF SessionRange
<1>2. InSession = j8
  BY Zenon DEF InSession
<1> HIDE DEF X
<1>3. j2 \in Seq(X) /\ Range(j2) = Range(SessionRoutes) \cup Range(AgentRoutes)
  BY <1>1, JoinedRange
<1> HIDE DEF j2
<1>4. j3 \in Seq(X) /\ Range(j3) = Range(j2) \cup Range(WorkspaceRoutes)
  BY <1>1, <1>3, JoinedRange
<1> HIDE DEF j3
<1>5. j4 \in Seq(X) /\ Range(j4) = Range(j3) \cup Range(ContextRoutes)
  BY <1>1, <1>4, JoinedRange
<1> HIDE DEF j4
<1>6. j5 \in Seq(X) /\ Range(j5) = Range(j4) \cup Range(GitRoutes)
  BY <1>1, <1>5, JoinedRange
<1> HIDE DEF j5
<1>7. j6 \in Seq(X) /\ Range(j6) = Range(j5) \cup Range(TurnRoutes)
  BY <1>1, <1>6, JoinedRange
<1> HIDE DEF j6
<1>8. j7 \in Seq(X) /\ Range(j7) = Range(j6) \cup Range(SpecRoutes)
  BY <1>1, <1>7, JoinedRange
<1> HIDE DEF j7
<1>9. j8 \in Seq(X) /\ Range(j8) = Range(j7) \cup Range(PaneRoutes)
  BY <1>1, <1>8, JoinedRange
<1> HIDE DEF j8
<1>10. Range(j8) = SessionRange
  BY <1>3, <1>4, <1>5, <1>6, <1>7, <1>8, <1>9 DEF SessionRange
<1> QED BY <1>2, <1>9, <1>10 DEF X

\* What the proofs below use of a route of a session.
LEMMA RouteFacts ==
  ASSUME NEW r \in SessionRange
  PROVE  /\ Shape(r) /\ DOMAIN r.path = 1..Len(r.path) /\ Len(r.path) \in 0..7
         /\ \A n \in 1..Len(r.path) : r.path[n] = "*" <=> n \in {2, 4}
<1>1. \A s : Sound(s) => \A q \in Range(s) : Shape(q) /\ DOMAIN q.path = 1..Len(q.path)
  BY DEF Sound, Range
<1>2. Shape(r) /\ DOMAIN r.path = 1..Len(r.path)
  BY <1>1, SessionAgentRoutesSound, WorkspaceRoutesSound, GitRoutesSound, TurnSpecPaneRoutesSound, ContextRoutesSound DEF SessionRange
<1> QED BY <1>2, StarsAt

\* A route of a session fits a request that has its words at its places.
LEMMA FitsIs ==
  ASSUME NEW r \in SessionRange, NEW u
  PROVE  Fits(r.path, u) <=> /\ Len(r.path) = Len(u)
                             /\ \A n \in 1..Len(u) : n \notin {2, 4} => r.path[n] = u[n]
<1> DEFINE p == r.path
<1>1. DOMAIN p = 1..Len(p) /\ \A n \in 1..Len(p) : p[n] = "*" <=> n \in {2, 4}
  BY RouteFacts
<1> HIDE DEF p
<1>2. ASSUME Len(p) = Len(u), NEW n \in 1..Len(u)
      PROVE  p[n] \in {"*", u[n]} <=> (n \notin {2, 4} => p[n] = u[n])
  BY <1>1, <1>2
<1>3. Fits(p, u) <=> Len(p) = Len(u) /\ \A n \in 1..Len(u) : p[n] \in {"*", u[n]}
  BY <1>1 DEF Fits
<1>4. Fits(p, u) <=> Len(p) = Len(u) /\ \A n \in 1..Len(u) : n \notin {2, 4} => p[n] = u[n]
  BY <1>2, <1>3
<1> QED BY <1>4 DEF p

\* A list of routes serves a request by one that fits it, if there is one.
LEMMA MatchedSome ==
  ASSUME NEW X, NEW routes \in Seq(X), NEW verb, NEW u, NEW else
  PROVE  \/ /\ Matched(routes, verb, u, else) = else
            /\ \A r \in Range(routes) : ~(r.verb = verb /\ Fits(r.path, u))
         \/ \E r \in Range(routes) :
              /\ r.verb = verb /\ Fits(r.path, u)
              /\ Matched(routes, verb, u, else) = [code |-> "ok", op |-> r.op, args |-> Bound(r.path, u)]
<1> DEFINE hits == {n \in DOMAIN routes : routes[n].verb = verb /\ Fits(routes[n].path, u)}
           m == CHOOSE n \in hits : \A k \in hits : n <= k
<1>1. DOMAIN routes \subseteq Nat
  OBVIOUS
<1>2. CASE hits = {}
  <2>1. Matched(routes, verb, u, else) = else
    BY <1>2, Zenon DEF Matched
  <2>2. \A r \in Range(routes) : ~(r.verb = verb /\ Fits(r.path, u))
    BY <1>2 DEF Range
  <2> QED BY <2>1, <2>2
<1>3. CASE hits # {}
  <2>1. \E n \in hits : \A k \in hits : n <= k
    <3>1. hits \subseteq Nat
      BY <1>1
    <3> HIDE DEF hits
    <3> QED BY <1>3, <3>1, LeastHit
  <2>2. m \in hits
    <3> HIDE DEF hits
    <3> QED BY <2>1
  <2>3. Matched(routes, verb, u, else)
          = [code |-> "ok", op |-> routes[m].op, args |-> Bound(routes[m].path, u)]
    BY <1>3, Zenon DEF Matched
  <2>4. m \in DOMAIN routes /\ routes[m].verb = verb /\ Fits(routes[m].path, u)
    BY <2>2
  <2> HIDE DEF m, hits
  <2> QED BY <2>3, <2>4 DEF Range
<1> QED BY <1>2, <1>3

\* A request that fits a route of a session is served by that route, whatever names
\* it gives.
LEMMA MatchedOne ==
  ASSUME NEW r \in SessionRange, NEW X, NEW u \in Seq(X), NEW else, Fits(r.path, u)
  PROVE  Matched(InSession, r.verb, u, else)
           = [code |-> "ok", op |-> r.op,
              args |-> IF Len(u) < 2 THEN <<>> ELSE IF Len(u) < 4 THEN <<u[2]>> ELSE <<u[2], u[4]>>]
<1>1. PICK q \in SessionRange :
        /\ q.verb = r.verb /\ Fits(q.path, u)
        /\ Matched(InSession, r.verb, u, else) = [code |-> "ok", op |-> q.op, args |-> Bound(q.path, u)]
  BY SessionRoutesJoined, MatchedSome
<1>2. Shape(q) /\ Shape(r)
  BY <1>1, RouteFacts
<1>3. Len(q.path) = Len(u) /\ \A n \in 1..Len(u) : n \notin {2, 4} => q.path[n] = u[n]
  BY <1>1, FitsIs
<1>4. Len(r.path) = Len(u) /\ \A n \in 1..Len(u) : n \notin {2, 4} => r.path[n] = u[n]
  BY FitsIs
<1>5. q.op = r.op
  BY <1>1, <1>2, <1>3, <1>4, RoutesDiffer
<1>6. Bound(q.path, u) = IF Len(u) < 2 THEN <<>> ELSE IF Len(u) < 4 THEN <<u[2]>> ELSE <<u[2], u[4]>>
  <2> DEFINE P == {n \in DOMAIN q.path : q.path[n] = "*"}
  <2>1. \A n \in 1..Len(u) : n \in P <=> n \in {2, 4}
    <3>1. DOMAIN q.path = 1..Len(q.path) /\ \A n \in 1..Len(q.path) : q.path[n] = "*" <=> n \in {2, 4}
      BY RouteFacts
    <3>2. Len(q.path) = Len(u)
      BY <1>3
    <3> QED BY <3>1, <3>2
  <2>2. Bound(q.path, u) = Picked(u, P)
    BY DEF Bound
  <2> HIDE DEF P
  <2> QED BY <2>1, <2>2, PickedPair
<1> QED BY <1>1, <1>5, <1>6

\* The routes that name no session.
OuterRange == Range(EnvRoutes) \cup Range(ModelRoutes)

\* The routes that name no session are those of the registry and the models.
LEMMA OuterRoutesJoined ==
  EnvRoutes \o ModelRoutes \in Seq(OuterRange) /\ Range(EnvRoutes \o ModelRoutes) = OuterRange
<1>1. EnvRoutes \in Seq(Range(EnvRoutes)) /\ ModelRoutes \in Seq(Range(ModelRoutes))
  BY DEF EnvRoutes, ModelRoutes, Range
<1>2. EnvRoutes \in Seq(OuterRange) /\ ModelRoutes \in Seq(OuterRange)
  BY <1>1, SubsetSeq DEF OuterRange
<1> QED BY <1>2, JoinedRange DEF OuterRange

LEMMA OuterRouteFacts ==
  ASSUME NEW r \in OuterRange
  PROVE  \/ Len(r.path) = 1 /\ r.path[1] = "env" /\ r.verb = "POST" /\ r.op = "env.set"
         \/ Len(r.path) = 1 /\ r.path[1] = "env" /\ r.verb = "GET" /\ r.op = "env.list"
         \/ /\ Len(r.path) = 2 /\ r.path[1] = "env" /\ r.path[2] = "*" /\ r.verb = "DELETE"
            /\ r.op = "env.delete"
         \/ Len(r.path) = 1 /\ r.path[1] = "models" /\ r.verb = "GET" /\ r.op = "models.list"
<1>1. r \in {EnvRoutes[1], EnvRoutes[2], EnvRoutes[3], ModelRoutes[1]}
  BY DEF OuterRange, EnvRoutes, ModelRoutes, Range
<1> QED BY <1>1 DEF EnvRoutes, ModelRoutes, R

LEMMA OuterFits ==
  ASSUME NEW r \in OuterRange, NEW u
  PROVE  Fits(r.path, u) <=> Len(r.path) = Len(u) /\ r.path[1] = u[1]
<1>1. DOMAIN r.path = 1..Len(r.path)
  <2>1. r \in {EnvRoutes[1], EnvRoutes[2], EnvRoutes[3], ModelRoutes[1]}
    BY DEF OuterRange, EnvRoutes, ModelRoutes, Range
  <2> QED BY <2>1 DEF EnvRoutes, ModelRoutes, R
<1> QED BY <1>1, OuterRouteFacts DEF Fits

-----------------------------------------------------------------------------
(* The calls of the SDK, each with the route that serves it *)

\* The words of the API's paths, and what stands in them for the names of a call.
Words == {"v1", "instances", "runtime", "sessions", "s", "agents", "workspaces", "worktrees", "rpc",
          "context", "repos", "tree", "file", "git", "diff", "log", "commit", "push", "checkout", "pull",
          "discard", "stash", "pop", "prompt", "ask", "slash", "model", "wait", "explain", "panes",
          "screen", "spec-bundles", "plan", "models", "env", "auth"}
Holes == {"$1", "$2", "$repo"}
Segments == Words \cup Holes

InSessions(p) ==
  /\ p \in Seq(Segments) /\ Len(p) >= 5
  /\ p[1] = "v1" /\ p[2] = "instances" /\ p[3] = "runtime" /\ p[4] = "sessions" /\ p[5] = "s"

\* A path about the sessions stays one, whatever segments of the SDK's are put behind it.
LEMMA Joined ==
  ASSUME NEW p, InSessions(p), NEW q \in Seq(Segments)
  PROVE  /\ InSessions(p \o q) /\ Len(p \o q) = Len(p) + Len(q)
         /\ \A n \in 1..Len(p) : (p \o q)[n] = p[n]
         /\ \A n \in 1..Len(q) : (p \o q)[Len(p) + n] = q[n]
<1> DEFINE j == p \o q
<1>1. /\ p \in Seq(Segments) /\ Len(p) \in Nat /\ Len(p) >= 5 /\ Len(q) \in Nat
      /\ p[1] = "v1" /\ p[2] = "instances" /\ p[3] = "runtime" /\ p[4] = "sessions" /\ p[5] = "s"
  BY DEF InSessions
<1>2. /\ j \in Seq(Segments) /\ Len(j) = Len(p) + Len(q)
      /\ \A i \in 1..(Len(p) + Len(q)) : j[i] = IF i <= Len(p) THEN p[i] ELSE q[i - Len(p)]
  BY <1>1, ConcatProperties
<1> HIDE DEF j
<1>3. \A n \in 1..Len(p) : j[n] = p[n]
  BY <1>1, <1>2
<1>4. ASSUME NEW n \in 1..Len(q) PROVE j[Len(p) + n] = q[n]
  <2>1. Len(p) + n \in 1..(Len(p) + Len(q)) /\ ~(Len(p) + n <= Len(p)) /\ (Len(p) + n) - Len(p) = n
    BY <1>1
  <2> QED BY <1>2, <2>1
<1>5. InSessions(j)
  BY <1>1, <1>2, <1>3 DEF InSessions
<1> QED BY <1>2, <1>3, <1>4, <1>5 DEF j

LEMMA SessionIs == InSessions(Session) /\ Len(Session) = 5
<1> DEFINE q == <<"sessions", "s">>
           i == Instance
           j == i \o q
<1>1. /\ i \in Seq(Segments) /\ Len(i) = 3 /\ i[1] = "v1" /\ i[2] = "instances" /\ i[3] = "runtime"
      /\ q \in Seq(Segments) /\ Len(q) = 2 /\ q[1] = "sessions" /\ q[2] = "s"
  BY DEF Instance, Segments, Words
<1> HIDE DEF i, q
<1>2. /\ j \in Seq(Segments) /\ Len(j) = Len(i) + Len(q)
      /\ \A n \in 1..(Len(i) + Len(q)) : j[n] = IF n <= Len(i) THEN i[n] ELSE q[n - Len(i)]
  BY <1>1, ConcatProperties
<1> HIDE DEF j
<1>3. Len(j) = 5 /\ \A n \in 1..5 : j[n] = IF n <= 3 THEN i[n] ELSE q[n - 3]
  BY <1>1, <1>2
<1>4. InSessions(j)
  BY <1>1, <1>2, <1>3 DEF InSessions
<1>5. Session = j
  BY Zenon DEF Session, i, q, j
<1> QED BY <1>3, <1>4, <1>5

\* What a call's path ends in, behind a path that is known.
LEMMA AddsOne ==
  ASSUME NEW p, InSessions(p), NEW w \in Segments
  PROVE  /\ InSessions(p \o <<w>>) /\ Len(p \o <<w>>) = Len(p) + 1
         /\ (p \o <<w>>)[Len(p) + 1] = w
         /\ \A n \in 1..Len(p) : (p \o <<w>>)[n] = p[n]
<1> DEFINE q == <<w>>
           j == p \o q
<1>1. q \in Seq(Segments) /\ Len(q) = 1 /\ q[1] = w
  OBVIOUS
<1> HIDE DEF q
<1>2. /\ InSessions(j) /\ Len(j) = Len(p) + Len(q)
      /\ \A n \in 1..Len(p) : j[n] = p[n]
      /\ \A n \in 1..Len(q) : j[Len(p) + n] = q[n]
  BY <1>1, Joined
<1> HIDE DEF j
<1>3. j[Len(p) + 1] = w
  BY <1>1, <1>2
<1>4. Len(j) = Len(p) + 1
  BY <1>1, <1>2
<1> QED BY <1>2, <1>3, <1>4 DEF j, q

LEMMA AddsTwo ==
  ASSUME NEW p, InSessions(p), NEW w \in Segments, NEW x \in Segments
  PROVE  /\ InSessions(p \o <<w, x>>) /\ Len(p \o <<w, x>>) = Len(p) + 2
         /\ (p \o <<w, x>>)[Len(p) + 1] = w /\ (p \o <<w, x>>)[Len(p) + 2] = x
         /\ \A n \in 1..Len(p) : (p \o <<w, x>>)[n] = p[n]
<1> DEFINE q == <<w, x>>
           j == p \o q
<1>1. q \in Seq(Segments) /\ Len(q) = 2 /\ q[1] = w /\ q[2] = x
  OBVIOUS
<1> HIDE DEF q
<1>2. /\ InSessions(j) /\ Len(j) = Len(p) + Len(q)
      /\ \A n \in 1..Len(p) : j[n] = p[n]
      /\ \A n \in 1..Len(q) : j[Len(p) + n] = q[n]
  BY <1>1, Joined
<1> HIDE DEF j
<1>3. j[Len(p) + 1] = w /\ j[Len(p) + 2] = x
  BY <1>1, <1>2
<1>4. Len(j) = Len(p) + 2
  BY <1>1, <1>2
<1> QED BY <1>2, <1>3, <1>4 DEF j, q

LEMMA AddsThree ==
  ASSUME NEW p, InSessions(p), NEW w \in Segments, NEW x \in Segments, NEW y \in Segments
  PROVE  /\ InSessions(p \o <<w, x, y>>) /\ Len(p \o <<w, x, y>>) = Len(p) + 3
         /\ (p \o <<w, x, y>>)[Len(p) + 1] = w /\ (p \o <<w, x, y>>)[Len(p) + 2] = x /\ (p \o <<w, x, y>>)[Len(p) + 3] = y
         /\ \A n \in 1..Len(p) : (p \o <<w, x, y>>)[n] = p[n]
<1> DEFINE q == <<w, x, y>>
           j == p \o q
<1>1. q \in Seq(Segments) /\ Len(q) = 3 /\ q[1] = w /\ q[2] = x /\ q[3] = y
  OBVIOUS
<1> HIDE DEF q
<1>2. /\ InSessions(j) /\ Len(j) = Len(p) + Len(q)
      /\ \A n \in 1..Len(p) : j[n] = p[n]
      /\ \A n \in 1..Len(q) : j[Len(p) + n] = q[n]
  BY <1>1, Joined
<1> HIDE DEF j
<1>3. j[Len(p) + 1] = w /\ j[Len(p) + 2] = x /\ j[Len(p) + 3] = y
  BY <1>1, <1>2
<1>4. Len(j) = Len(p) + 3
  BY <1>1, <1>2
<1> QED BY <1>2, <1>3, <1>4 DEF j, q

LEMMA WordsAreSegments == Words \subseteq Segments /\ "$1" \in Segments /\ "$2" \in Segments /\ "$repo" \in Segments
BY DEF Segments, Holes

\* A path of a session that goes on with a word and the first name.
LEMMA NamedPart ==
  ASSUME NEW w \in Words, NEW p, p = Session \o <<w, "$1">>
  PROVE  InSessions(p) /\ Len(p) = 7 /\ p[6] = w /\ p[7] = "$1"
<1>1. w \in Segments /\ "$1" \in Segments
  BY WordsAreSegments
<1>2. InSessions(Session)
  BY SessionIs
<1>3. InSessions(p) /\ Len(p) = Len(Session) + 2 /\ p[Len(Session) + 1] = w /\ p[Len(Session) + 2] = "$1"
  BY <1>1, <1>2, AddsTwo
<1> QED BY <1>3, SessionIs

LEMMA PartsAre ==
  /\ InSessions(Agent) /\ Len(Agent) = 7 /\ Agent[6] = "agents" /\ Agent[7] = "$1"
  /\ InSessions(Working) /\ Len(Working) = 7 /\ Working[6] = "workspaces" /\ Working[7] = "$1"
<1>1. "agents" \in Words /\ "workspaces" \in Words
  BY DEF Words
<1>2. Agent = Session \o <<"agents", "$1">> /\ Working = Session \o <<"workspaces", "$1">>
  BY Zenon DEF Agent, Working
<1> QED BY <1>1, <1>2, NamedPart

\* Route r of a session serves call c, whose names stand where the route binds.
CallFits(c, r) ==
  /\ r \in SessionRange /\ c.verb = r.verb /\ c.op = r.op
  /\ InSessions(c.path) /\ Len(c.path) = 5 + Len(r.path)
  /\ \A n \in 1..Len(r.path) : n \notin {2, 4} => c.path[5 + n] = r.path[n]
  /\ Len(r.path) > 1 => c.path[7] = "$1"
  /\ Len(r.path) > 3 => c.path[9] \in {"$2", "$repo"}

\* The calls by the form of their paths.
LEMMA CallsOf1 ==
  ASSUME NEW w \in Words, NEW c, c.path = Session \o <<w>>, NEW r \in SessionRange,
         c.verb = r.verb, c.op = r.op, Len(r.path) = 1, r.path[1] = w
  PROVE  CallFits(c, r)
<1> DEFINE p == c.path
<1>1. w \in Segments /\ InSessions(Session)
  BY WordsAreSegments, SessionIs
<1>2. InSessions(p) /\ Len(p) = Len(Session) + 1 /\ p[Len(Session) + 1] = w
  BY <1>1, AddsOne
<1>3. InSessions(p) /\ Len(p) = 6 /\ p[6] = w
  BY <1>2, SessionIs
<1> QED BY <1>3 DEF CallFits

\* A call that ends in a word and a name.
LEMMA CallsOf2 ==
  ASSUME NEW w \in Words, NEW c, c.path = Session \o <<w, "$1">>, NEW r \in SessionRange,
         c.verb = r.verb, c.op = r.op, Len(r.path) = 2, r.path[1] = w
  PROVE  CallFits(c, r)
<1> DEFINE p == c.path
<1>1. InSessions(p) /\ Len(p) = 7 /\ p[6] = w /\ p[7] = "$1"
  BY NamedPart
<1> QED BY <1>1 DEF CallFits

\* The calls on an agent or a workspace, b being the path of either.
LEMMA CallsOf3 ==
  ASSUME NEW w \in Words, NEW c, NEW b \in {Agent, Working}, c.path = b \o <<w>>, NEW r \in SessionRange,
         c.verb = r.verb, c.op = r.op, Len(r.path) = 3, r.path[1] = b[6], r.path[3] = w
  PROVE  CallFits(c, r)
<1> DEFINE p == c.path
<1>1. w \in Segments /\ InSessions(b)
  BY WordsAreSegments, PartsAre
<1>2. InSessions(p) /\ Len(p) = Len(b) + 1 /\ p[Len(b) + 1] = w
  BY <1>1, AddsOne
<1>3. \A n \in 1..Len(b) : p[n] = b[n]
  BY <1>1, AddsOne
<1>4. Len(b) = 7 /\ b[7] = "$1"
  BY PartsAre
<1>5. InSessions(p) /\ Len(p) = 8 /\ p[8] = w /\ p[6] = b[6] /\ p[7] = "$1"
  BY <1>2, <1>3, <1>4
<1> QED BY <1>5 DEF CallFits

\* A call that ends in a word and the second name.
LEMMA CallsOf4 ==
  ASSUME NEW w \in Words, NEW c, NEW b \in {Agent, Working}, c.path = b \o <<w, "$2">>, NEW r \in SessionRange,
         c.verb = r.verb, c.op = r.op, Len(r.path) = 4, r.path[1] = b[6], r.path[3] = w
  PROVE  CallFits(c, r)
<1> DEFINE p == c.path
<1>1. w \in Segments /\ "$2" \in Segments /\ InSessions(b)
  BY WordsAreSegments, PartsAre
<1>2. InSessions(p) /\ Len(p) = Len(b) + 2 /\ p[Len(b) + 1] = w /\ p[Len(b) + 2] = "$2"
  BY <1>1, AddsTwo
<1>3. \A n \in 1..Len(b) : p[n] = b[n]
  BY <1>1, AddsTwo
<1>4. Len(b) = 7 /\ b[7] = "$1"
  BY PartsAre
<1>5. InSessions(p) /\ Len(p) = 9 /\ p[8] = w /\ p[9] = "$2" /\ p[6] = b[6] /\ p[7] = "$1"
  BY <1>2, <1>3, <1>4
<1> QED BY <1>5 DEF CallFits

\* The call on the session itself.
LEMMA CallsOf0 ==
  ASSUME NEW c, c.path = Session, NEW r \in SessionRange, c.verb = r.verb, c.op = r.op, Len(r.path) = 0
  PROVE  CallFits(c, r)
BY SessionIs DEF CallFits

\* A call on what a pane shows.
LEMMA CallsOfPane ==
  ASSUME NEW w \in Words, NEW x \in Words, NEW c, c.path = Session \o <<w, "$1", x>>, NEW r \in SessionRange,
         c.verb = r.verb, c.op = r.op, Len(r.path) = 3, r.path[1] = w, r.path[3] = x
  PROVE  CallFits(c, r)
<1> DEFINE p == c.path
<1>1. w \in Segments /\ x \in Segments /\ "$1" \in Segments /\ InSessions(Session)
  BY WordsAreSegments, SessionIs
<1>2. /\ InSessions(p) /\ Len(p) = Len(Session) + 3 /\ p[Len(Session) + 1] = w
      /\ p[Len(Session) + 2] = "$1" /\ p[Len(Session) + 3] = x
  BY <1>1, AddsThree
<1>3. InSessions(p) /\ Len(p) = 8 /\ p[6] = w /\ p[7] = "$1" /\ p[8] = x
  BY <1>2, SessionIs
<1> QED BY <1>3 DEF CallFits

\* A call that ends in a word, the second name and a word.
LEMMA CallsOf5 ==
  ASSUME NEW w \in Words, NEW x \in Words, NEW c, c.path = Agent \o <<w, "$2", x>>, NEW r \in SessionRange,
         c.verb = r.verb, c.op = r.op, Len(r.path) = 5, r.path[1] = "agents", r.path[3] = w, r.path[5] = x
  PROVE  CallFits(c, r)
<1> DEFINE p == c.path
<1>1. w \in Segments /\ x \in Segments /\ "$2" \in Segments /\ InSessions(Agent)
  BY WordsAreSegments, PartsAre
<1>2. /\ InSessions(p) /\ Len(p) = Len(Agent) + 3 /\ p[Len(Agent) + 1] = w
      /\ p[Len(Agent) + 2] = "$2" /\ p[Len(Agent) + 3] = x
  BY <1>1, AddsThree
<1>3. \A n \in 1..Len(Agent) : p[n] = Agent[n]
  BY <1>1, AddsThree
<1>4. InSessions(p) /\ Len(p) = 10 /\ p[6] = "agents" /\ p[7] = "$1" /\ p[8] = w /\ p[9] = "$2" /\ p[10] = x
  BY <1>2, <1>3, PartsAre
<1> QED BY <1>4 DEF CallFits

LEMMA ContextIs ==
  ASSUME NEW b, b = Working \o <<"context">>
  PROVE  InSessions(b) /\ Len(b) = 8 /\ b[6] = "workspaces" /\ b[7] = "$1" /\ b[8] = "context"
<1>1. "context" \in Segments /\ InSessions(Working)
  BY PartsAre DEF Segments, Words
<1>2. InSessions(b) /\ Len(b) = Len(Working) + 1 /\ b[Len(Working) + 1] = "context"
  BY <1>1, AddsOne
<1>3. \A n \in 1..Len(Working) : b[n] = Working[n]
  BY <1>1, AddsOne
<1> QED BY <1>2, <1>3, PartsAre

\* A call on a file of a workspace's context.
LEMMA CallsOfContext ==
  ASSUME NEW c, NEW b, b = Working \o <<"context">>, c.path = b \o <<"$2">>, NEW r \in SessionRange,
         c.verb = r.verb, c.op = r.op, Len(r.path) = 4, r.path[1] = "workspaces", r.path[3] = "context"
  PROVE  CallFits(c, r)
<1> DEFINE p == c.path
<1>1. "$2" \in Segments /\ InSessions(b)
  BY ContextIs, WordsAreSegments
<1>2. InSessions(p) /\ Len(p) = Len(b) + 1 /\ p[Len(b) + 1] = "$2"
  BY <1>1, AddsOne
<1>3. \A n \in 1..Len(b) : p[n] = b[n]
  BY <1>1, AddsOne
<1>4. Len(b) = 8 /\ b[6] = "workspaces" /\ b[7] = "$1" /\ b[8] = "context"
  BY ContextIs
<1>5. InSessions(p) /\ Len(p) = 9 /\ p[6] = "workspaces" /\ p[7] = "$1" /\ p[8] = "context" /\ p[9] = "$2"
  BY <1>2, <1>3, <1>4
<1> QED BY <1>5 DEF CallFits

LEMMA RepoIs ==
  ASSUME NEW b, b = Working \o <<"repos", "$repo">>
  PROVE  /\ InSessions(b) /\ Len(b) = 9 /\ b[6] = "workspaces" /\ b[7] = "$1" /\ b[8] = "repos"
         /\ b[9] = "$repo"
<1>1. "repos" \in Segments /\ "$repo" \in Segments /\ InSessions(Working)
  BY PartsAre, WordsAreSegments DEF Words
<1>2. InSessions(b) /\ Len(b) = Len(Working) + 2 /\ b[Len(Working) + 1] = "repos" /\ b[Len(Working) + 2] = "$repo"
  BY <1>1, AddsTwo
<1>3. \A n \in 1..Len(Working) : b[n] = Working[n]
  BY <1>1, AddsTwo
<1> QED BY <1>2, <1>3, PartsAre

\* The calls on a repository.
OnRepo(r) == r.path[1] = "workspaces" /\ r.path[3] = "repos"

LEMMA CallsOfRepo1 ==
  ASSUME NEW w \in Words, NEW c, NEW b, b = Working \o <<"repos", "$repo">>, c.path = b \o <<w>>,
         NEW r \in SessionRange, OnRepo(r),
         c.verb = r.verb, c.op = r.op, Len(r.path) = 5, r.path[5] = w
  PROVE  CallFits(c, r) /\ c.path[9] = "$repo"
<1> DEFINE p == c.path
<1>1. w \in Segments /\ InSessions(b)
  BY RepoIs, WordsAreSegments
<1>2. InSessions(p) /\ Len(p) = Len(b) + 1 /\ p[Len(b) + 1] = w
  BY <1>1, AddsOne
<1>3. \A n \in 1..Len(b) : p[n] = b[n]
  BY <1>1, AddsOne
<1>4. Len(b) = 9 /\ b[6] = "workspaces" /\ b[7] = "$1" /\ b[8] = "repos" /\ b[9] = "$repo"
  BY RepoIs
<1>5. /\ InSessions(p) /\ Len(p) = 10 /\ p[6] = "workspaces" /\ p[7] = "$1" /\ p[8] = "repos"
      /\ p[9] = "$repo" /\ p[10] = w
  BY <1>2, <1>3, <1>4
<1> QED BY <1>5 DEF CallFits, OnRepo

LEMMA CallsOfRepo2 ==
  ASSUME NEW w \in Words, NEW c, NEW b, b = Working \o <<"repos", "$repo">>, c.path = b \o <<"git", w>>,
         NEW r \in SessionRange, OnRepo(r),
         c.verb = r.verb, c.op = r.op, Len(r.path) = 6, r.path[5] = "git", r.path[6] = w
  PROVE  CallFits(c, r) /\ c.path[9] = "$repo"
<1> DEFINE p == c.path
<1>1. w \in Segments /\ "git" \in Segments /\ InSessions(b)
  BY RepoIs, WordsAreSegments DEF Words
<1>2. InSessions(p) /\ Len(p) = Len(b) + 2 /\ p[Len(b) + 1] = "git" /\ p[Len(b) + 2] = w
  BY <1>1, AddsTwo
<1>3. \A n \in 1..Len(b) : p[n] = b[n]
  BY <1>1, AddsTwo
<1>4. Len(b) = 9 /\ b[6] = "workspaces" /\ b[7] = "$1" /\ b[8] = "repos" /\ b[9] = "$repo"
  BY RepoIs
<1>5. /\ InSessions(p) /\ Len(p) = 11 /\ p[6] = "workspaces" /\ p[7] = "$1" /\ p[8] = "repos"
      /\ p[9] = "$repo" /\ p[10] = "git" /\ p[11] = w
  BY <1>2, <1>3, <1>4
<1> QED BY <1>5 DEF CallFits, OnRepo

LEMMA CallsOfRepo3 ==
  ASSUME NEW c, NEW b, b = Working \o <<"repos", "$repo">>, c.path = b \o <<"git", "stash", "pop">>,
         NEW r \in SessionRange, OnRepo(r), c.verb = r.verb, c.op = r.op,
         Len(r.path) = 7, r.path[5] = "git", r.path[6] = "stash", r.path[7] = "pop"
  PROVE  CallFits(c, r) /\ c.path[9] = "$repo"
<1> DEFINE p == c.path
<1>1. "git" \in Segments /\ "stash" \in Segments /\ "pop" \in Segments /\ InSessions(b)
  BY RepoIs, WordsAreSegments DEF Words
<1>2. /\ InSessions(p) /\ Len(p) = Len(b) + 3 /\ p[Len(b) + 1] = "git" /\ p[Len(b) + 2] = "stash"
      /\ p[Len(b) + 3] = "pop"
  BY <1>1, AddsThree
<1>3. \A n \in 1..Len(b) : p[n] = b[n]
  BY <1>1, AddsThree
<1>4. Len(b) = 9 /\ b[6] = "workspaces" /\ b[7] = "$1" /\ b[8] = "repos" /\ b[9] = "$repo"
  BY RepoIs
<1>5. /\ InSessions(p) /\ Len(p) = 12 /\ p[6] = "workspaces" /\ p[7] = "$1" /\ p[8] = "repos"
      /\ p[9] = "$repo" /\ p[10] = "git" /\ p[11] = "stash" /\ p[12] = "pop"
  BY <1>2, <1>3, <1>4
<1> QED BY <1>5 DEF CallFits, OnRepo

\* Each table is part of the routes of a session.
LEMMA RoutesIn ==
  /\ \A n \in DOMAIN SessionRoutes : SessionRoutes[n] \in SessionRange
  /\ \A n \in DOMAIN AgentRoutes : AgentRoutes[n] \in SessionRange
  /\ \A n \in DOMAIN WorkspaceRoutes : WorkspaceRoutes[n] \in SessionRange
  /\ \A n \in DOMAIN ContextRoutes : ContextRoutes[n] \in SessionRange
  /\ \A n \in DOMAIN GitRoutes : GitRoutes[n] \in SessionRange
  /\ \A n \in DOMAIN TurnRoutes : TurnRoutes[n] \in SessionRange
  /\ \A n \in DOMAIN SpecRoutes : SpecRoutes[n] \in SessionRange
  /\ \A n \in DOMAIN PaneRoutes : PaneRoutes[n] \in SessionRange
BY DEF SessionRange, Range

\* Each call on a session has a route that serves it, table by table
\* (packages/client/src/client.ts and its parts, matchSubRoute of src/http.ts).
LEMMA SessionCallsServed ==
  \A name \in DOMAIN SessionCalls : \E r \in SessionRange : CallFits(SessionCalls[name], r)
<1>1. CallFits(SessionCalls.agents, AgentRoutes[1])
  <2>1. SessionCalls.agents.path = Session \o <<"agents">>
    BY DEF SessionCalls, S
  <2>2. SessionCalls.agents.verb = AgentRoutes[1].verb /\ SessionCalls.agents.op = AgentRoutes[1].op
    BY DEF SessionCalls, S, AgentRoutes, R
  <2>3. 1 \in DOMAIN AgentRoutes /\ Len(AgentRoutes[1].path) = 1 /\ AgentRoutes[1].path[1] = "agents"
    BY DEF AgentRoutes, R
  <2>4. AgentRoutes[1] \in SessionRange
    BY <2>3, RoutesIn
  <2>5. "agents" \in Words
    BY DEF Words
  <2> QED BY <2>1, <2>2, <2>3, <2>4, <2>5, CallsOf1
<1>2. CallFits(SessionCalls.workspaces, WorkspaceRoutes[1])
  <2>1. SessionCalls.workspaces.path = Session \o <<"workspaces">>
    BY DEF SessionCalls, S
  <2>2. SessionCalls.workspaces.verb = WorkspaceRoutes[1].verb /\ SessionCalls.workspaces.op = WorkspaceRoutes[1].op
    BY DEF SessionCalls, S, WorkspaceRoutes, R
  <2>3. 1 \in DOMAIN WorkspaceRoutes /\ Len(WorkspaceRoutes[1].path) = 1 /\ WorkspaceRoutes[1].path[1] = "workspaces"
    BY DEF WorkspaceRoutes, R
  <2>4. WorkspaceRoutes[1] \in SessionRange
    BY <2>3, RoutesIn
  <2>5. "workspaces" \in Words
    BY DEF Words
  <2> QED BY <2>1, <2>2, <2>3, <2>4, <2>5, CallsOf1
<1>3. CallFits(SessionCalls.teardown, SessionRoutes[1])
  <2>1. SessionCalls.teardown.path = Session
    BY DEF SessionCalls, S
  <2>2. SessionCalls.teardown.verb = SessionRoutes[1].verb /\ SessionCalls.teardown.op = SessionRoutes[1].op
    BY DEF SessionCalls, S, SessionRoutes, R
  <2>3. 1 \in DOMAIN SessionRoutes /\ Len(SessionRoutes[1].path) = 0
    BY DEF SessionRoutes, R
  <2>4. SessionRoutes[1] \in SessionRange
    BY <2>3, RoutesIn
  <2> QED BY <2>1, <2>2, <2>3, <2>4, CallsOf0
<1>4. CallFits(SessionCalls.closeWorkspace, WorkspaceRoutes[4])
  <2>1. SessionCalls.closeWorkspace.path = Session \o <<"workspaces", "$1">>
    BY DEF SessionCalls, S, Working
  <2>2. SessionCalls.closeWorkspace.verb = WorkspaceRoutes[4].verb /\ SessionCalls.closeWorkspace.op = WorkspaceRoutes[4].op
    BY DEF SessionCalls, S, WorkspaceRoutes, R
  <2>3. 4 \in DOMAIN WorkspaceRoutes /\ Len(WorkspaceRoutes[4].path) = 2 /\ WorkspaceRoutes[4].path[1] = "workspaces"
    BY DEF WorkspaceRoutes, R
  <2>4. WorkspaceRoutes[4] \in SessionRange
    BY <2>3, RoutesIn
  <2>5. "workspaces" \in Words
    BY DEF Words
  <2> QED BY <2>1, <2>2, <2>3, <2>4, <2>5, CallsOf2
<1>5. CallFits(SessionCalls.worktrees, WorkspaceRoutes[5])
  <2>1. SessionCalls.worktrees.path = Working \o <<"worktrees">>
    BY DEF SessionCalls, S
  <2>2. SessionCalls.worktrees.verb = WorkspaceRoutes[5].verb /\ SessionCalls.worktrees.op = WorkspaceRoutes[5].op
    BY DEF SessionCalls, S, WorkspaceRoutes, R
  <2>3. 5 \in DOMAIN WorkspaceRoutes /\ Len(WorkspaceRoutes[5].path) = 3 /\ WorkspaceRoutes[5].path[1] = "workspaces" /\ WorkspaceRoutes[5].path[3] = "worktrees"
    BY DEF WorkspaceRoutes, R
  <2>4. WorkspaceRoutes[5] \in SessionRange
    BY <2>3, RoutesIn
  <2>5. "worktrees" \in Words
    BY DEF Words
  <2> QED BY <2>1, <2>2, <2>3, <2>4, <2>5, CallsOf3, PartsAre
<1>6. CallFits(SessionCalls.removeWorktree, WorkspaceRoutes[6])
  <2>1. SessionCalls.removeWorktree.path = Session \o <<"worktrees", "$1">>
    BY DEF SessionCalls, S
  <2>2. SessionCalls.removeWorktree.verb = WorkspaceRoutes[6].verb /\ SessionCalls.removeWorktree.op = WorkspaceRoutes[6].op
    BY DEF SessionCalls, S, WorkspaceRoutes, R
  <2>3. 6 \in DOMAIN WorkspaceRoutes /\ Len(WorkspaceRoutes[6].path) = 2 /\ WorkspaceRoutes[6].path[1] = "worktrees"
    BY DEF WorkspaceRoutes, R
  <2>4. WorkspaceRoutes[6] \in SessionRange
    BY <2>3, RoutesIn
  <2>5. "worktrees" \in Words
    BY DEF Words
  <2> QED BY <2>1, <2>2, <2>3, <2>4, <2>5, CallsOf2
<1>7. CallFits(SessionCalls.spawn, AgentRoutes[2])
  <2>1. SessionCalls.spawn.path = Session \o <<"agents">>
    BY DEF SessionCalls, S
  <2>2. SessionCalls.spawn.verb = AgentRoutes[2].verb /\ SessionCalls.spawn.op = AgentRoutes[2].op
    BY DEF SessionCalls, S, AgentRoutes, R
  <2>3. 2 \in DOMAIN AgentRoutes /\ Len(AgentRoutes[2].path) = 1 /\ AgentRoutes[2].path[1] = "agents"
    BY DEF AgentRoutes, R
  <2>4. AgentRoutes[2] \in SessionRange
    BY <2>3, RoutesIn
  <2>5. "agents" \in Words
    BY DEF Words
  <2> QED BY <2>1, <2>2, <2>3, <2>4, <2>5, CallsOf1
<1>8. CallFits(SessionCalls.rpc, PaneRoutes[3])
  <2>1. SessionCalls.rpc.path = Session \o <<"rpc">>
    BY DEF SessionCalls, S
  <2>2. SessionCalls.rpc.verb = PaneRoutes[3].verb /\ SessionCalls.rpc.op = PaneRoutes[3].op
    BY DEF SessionCalls, S, PaneRoutes, R
  <2>3. 3 \in DOMAIN PaneRoutes /\ Len(PaneRoutes[3].path) = 1 /\ PaneRoutes[3].path[1] = "rpc"
    BY DEF PaneRoutes, R
  <2>4. PaneRoutes[3] \in SessionRange
    BY <2>3, RoutesIn
  <2>5. "rpc" \in Words
    BY DEF Words
  <2> QED BY <2>1, <2>2, <2>3, <2>4, <2>5, CallsOf1
<1>9. DOMAIN SessionCalls = {"agents", "workspaces", "teardown", "closeWorkspace", "worktrees", "removeWorktree", "spawn", "rpc"}
  BY DEF SessionCalls
<1>10. \A c, r : CallFits(c, r) => r \in SessionRange
  BY DEF CallFits
<1> QED BY <1>1, <1>2, <1>3, <1>4, <1>5, <1>6, <1>7, <1>8, <1>9, <1>10

LEMMA ContextCallsServed ==
  \A name \in DOMAIN ContextCalls : \E r \in SessionRange : CallFits(ContextCalls[name], r)
<1>1. CallFits(ContextCalls.list, ContextRoutes[1])
  <2>1. ContextCalls.list.path = Working \o <<"context">>
    BY DEF ContextCalls, S
  <2>2. ContextCalls.list.verb = ContextRoutes[1].verb /\ ContextCalls.list.op = ContextRoutes[1].op
    BY DEF ContextCalls, S, ContextRoutes, R
  <2>3. 1 \in DOMAIN ContextRoutes /\ Len(ContextRoutes[1].path) = 3 /\ ContextRoutes[1].path[1] = "workspaces" /\ ContextRoutes[1].path[3] = "context"
    BY DEF ContextRoutes, R
  <2>4. ContextRoutes[1] \in SessionRange
    BY <2>3, RoutesIn
  <2>5. "context" \in Words
    BY DEF Words
  <2> QED BY <2>1, <2>2, <2>3, <2>4, <2>5, CallsOf3, PartsAre
<1>2. CallFits(ContextCalls.upload, ContextRoutes[2])
  <2>1. ContextCalls.upload.path = (Working \o <<"context">>) \o <<"$2">>
    BY DEF ContextCalls, S
  <2>2. ContextCalls.upload.verb = ContextRoutes[2].verb /\ ContextCalls.upload.op = ContextRoutes[2].op
    BY DEF ContextCalls, S, ContextRoutes, R
  <2>3. 2 \in DOMAIN ContextRoutes /\ Len(ContextRoutes[2].path) = 4 /\ ContextRoutes[2].path[1] = "workspaces" /\ ContextRoutes[2].path[3] = "context"
    BY DEF ContextRoutes, R
  <2>4. ContextRoutes[2] \in SessionRange
    BY <2>3, RoutesIn
  <2> QED BY <2>1, <2>2, <2>3, <2>4, CallsOfContext
<1>3. CallFits(ContextCalls.download, ContextRoutes[3])
  <2>1. ContextCalls.download.path = (Working \o <<"context">>) \o <<"$2">>
    BY DEF ContextCalls, S
  <2>2. ContextCalls.download.verb = ContextRoutes[3].verb /\ ContextCalls.download.op = ContextRoutes[3].op
    BY DEF ContextCalls, S, ContextRoutes, R
  <2>3. 3 \in DOMAIN ContextRoutes /\ Len(ContextRoutes[3].path) = 4 /\ ContextRoutes[3].path[1] = "workspaces" /\ ContextRoutes[3].path[3] = "context"
    BY DEF ContextRoutes, R
  <2>4. ContextRoutes[3] \in SessionRange
    BY <2>3, RoutesIn
  <2> QED BY <2>1, <2>2, <2>3, <2>4, CallsOfContext
<1>4. CallFits(ContextCalls.set, ContextRoutes[4])
  <2>1. ContextCalls.set.path = (Working \o <<"context">>) \o <<"$2">>
    BY DEF ContextCalls, S
  <2>2. ContextCalls.set.verb = ContextRoutes[4].verb /\ ContextCalls.set.op = ContextRoutes[4].op
    BY DEF ContextCalls, S, ContextRoutes, R
  <2>3. 4 \in DOMAIN ContextRoutes /\ Len(ContextRoutes[4].path) = 4 /\ ContextRoutes[4].path[1] = "workspaces" /\ ContextRoutes[4].path[3] = "context"
    BY DEF ContextRoutes, R
  <2>4. ContextRoutes[4] \in SessionRange
    BY <2>3, RoutesIn
  <2> QED BY <2>1, <2>2, <2>3, <2>4, CallsOfContext
<1>5. CallFits(ContextCalls.delete, ContextRoutes[5])
  <2>1. ContextCalls.delete.path = (Working \o <<"context">>) \o <<"$2">>
    BY DEF ContextCalls, S
  <2>2. ContextCalls.delete.verb = ContextRoutes[5].verb /\ ContextCalls.delete.op = ContextRoutes[5].op
    BY DEF ContextCalls, S, ContextRoutes, R
  <2>3. 5 \in DOMAIN ContextRoutes /\ Len(ContextRoutes[5].path) = 4 /\ ContextRoutes[5].path[1] = "workspaces" /\ ContextRoutes[5].path[3] = "context"
    BY DEF ContextRoutes, R
  <2>4. ContextRoutes[5] \in SessionRange
    BY <2>3, RoutesIn
  <2> QED BY <2>1, <2>2, <2>3, <2>4, CallsOfContext
<1>6. DOMAIN ContextCalls = {"list", "upload", "download", "set", "delete"}
  BY DEF ContextCalls
<1>7. \A c, r : CallFits(c, r) => r \in SessionRange
  BY DEF CallFits
<1> QED BY <1>1, <1>2, <1>3, <1>4, <1>5, <1>6, <1>7

LEMMA RepoCallsServed ==
  \A name \in DOMAIN RepoCalls : RepoCalls[name].path[9] = "$repo" /\ \E r \in SessionRange : CallFits(RepoCalls[name], r)
<1>1. CallFits(RepoCalls.tree, WorkspaceRoutes[7]) /\ RepoCalls.tree.path[9] = "$repo"
  <2>1. RepoCalls.tree.path = (Working \o <<"repos", "$repo">>) \o <<"tree">>
    BY DEF RepoCalls, S
  <2>2. RepoCalls.tree.verb = WorkspaceRoutes[7].verb /\ RepoCalls.tree.op = WorkspaceRoutes[7].op
    BY DEF RepoCalls, S, WorkspaceRoutes, R
  <2>3. 7 \in DOMAIN WorkspaceRoutes /\ Len(WorkspaceRoutes[7].path) = 5 /\ WorkspaceRoutes[7].path[1] = "workspaces" /\ WorkspaceRoutes[7].path[3] = "repos" /\ WorkspaceRoutes[7].path[5] = "tree"
    BY DEF WorkspaceRoutes, R
  <2>4. WorkspaceRoutes[7] \in SessionRange
    BY <2>3, RoutesIn
  <2>5. "tree" \in Words
    BY DEF Words
  <2> QED BY <2>1, <2>2, <2>3, <2>4, <2>5, CallsOfRepo1 DEF OnRepo
<1>2. CallFits(RepoCalls.file, WorkspaceRoutes[8]) /\ RepoCalls.file.path[9] = "$repo"
  <2>1. RepoCalls.file.path = (Working \o <<"repos", "$repo">>) \o <<"file">>
    BY DEF RepoCalls, S
  <2>2. RepoCalls.file.verb = WorkspaceRoutes[8].verb /\ RepoCalls.file.op = WorkspaceRoutes[8].op
    BY DEF RepoCalls, S, WorkspaceRoutes, R
  <2>3. 8 \in DOMAIN WorkspaceRoutes /\ Len(WorkspaceRoutes[8].path) = 5 /\ WorkspaceRoutes[8].path[1] = "workspaces" /\ WorkspaceRoutes[8].path[3] = "repos" /\ WorkspaceRoutes[8].path[5] = "file"
    BY DEF WorkspaceRoutes, R
  <2>4. WorkspaceRoutes[8] \in SessionRange
    BY <2>3, RoutesIn
  <2>5. "file" \in Words
    BY DEF Words
  <2> QED BY <2>1, <2>2, <2>3, <2>4, <2>5, CallsOfRepo1 DEF OnRepo
<1>3. CallFits(RepoCalls.diff, WorkspaceRoutes[9]) /\ RepoCalls.diff.path[9] = "$repo"
  <2>1. RepoCalls.diff.path = (Working \o <<"repos", "$repo">>) \o <<"git", "diff">>
    BY DEF RepoCalls, S
  <2>2. RepoCalls.diff.verb = WorkspaceRoutes[9].verb /\ RepoCalls.diff.op = WorkspaceRoutes[9].op
    BY DEF RepoCalls, S, WorkspaceRoutes, R
  <2>3. 9 \in DOMAIN WorkspaceRoutes /\ Len(WorkspaceRoutes[9].path) = 6 /\ WorkspaceRoutes[9].path[1] = "workspaces" /\ WorkspaceRoutes[9].path[3] = "repos" /\ WorkspaceRoutes[9].path[5] = "git" /\ WorkspaceRoutes[9].path[6] = "diff"
    BY DEF WorkspaceRoutes, R
  <2>4. WorkspaceRoutes[9] \in SessionRange
    BY <2>3, RoutesIn
  <2>5. "diff" \in Words
    BY DEF Words
  <2> QED BY <2>1, <2>2, <2>3, <2>4, <2>5, CallsOfRepo2 DEF OnRepo
<1>4. CallFits(RepoCalls.log, GitRoutes[1]) /\ RepoCalls.log.path[9] = "$repo"
  <2>1. RepoCalls.log.path = (Working \o <<"repos", "$repo">>) \o <<"git", "log">>
    BY DEF RepoCalls, S
  <2>2. RepoCalls.log.verb = GitRoutes[1].verb /\ RepoCalls.log.op = GitRoutes[1].op
    BY DEF RepoCalls, S, GitRoutes, R
  <2>3. 1 \in DOMAIN GitRoutes /\ Len(GitRoutes[1].path) = 6 /\ GitRoutes[1].path[1] = "workspaces" /\ GitRoutes[1].path[3] = "repos" /\ GitRoutes[1].path[5] = "git" /\ GitRoutes[1].path[6] = "log"
    BY DEF GitRoutes, R
  <2>4. GitRoutes[1] \in SessionRange
    BY <2>3, RoutesIn
  <2>5. "log" \in Words
    BY DEF Words
  <2> QED BY <2>1, <2>2, <2>3, <2>4, <2>5, CallsOfRepo2 DEF OnRepo
<1>5. CallFits(RepoCalls.commit, GitRoutes[2]) /\ RepoCalls.commit.path[9] = "$repo"
  <2>1. RepoCalls.commit.path = (Working \o <<"repos", "$repo">>) \o <<"git", "commit">>
    BY DEF RepoCalls, S
  <2>2. RepoCalls.commit.verb = GitRoutes[2].verb /\ RepoCalls.commit.op = GitRoutes[2].op
    BY DEF RepoCalls, S, GitRoutes, R
  <2>3. 2 \in DOMAIN GitRoutes /\ Len(GitRoutes[2].path) = 6 /\ GitRoutes[2].path[1] = "workspaces" /\ GitRoutes[2].path[3] = "repos" /\ GitRoutes[2].path[5] = "git" /\ GitRoutes[2].path[6] = "commit"
    BY DEF GitRoutes, R
  <2>4. GitRoutes[2] \in SessionRange
    BY <2>3, RoutesIn
  <2>5. "commit" \in Words
    BY DEF Words
  <2> QED BY <2>1, <2>2, <2>3, <2>4, <2>5, CallsOfRepo2 DEF OnRepo
<1>6. CallFits(RepoCalls.push, GitRoutes[3]) /\ RepoCalls.push.path[9] = "$repo"
  <2>1. RepoCalls.push.path = (Working \o <<"repos", "$repo">>) \o <<"git", "push">>
    BY DEF RepoCalls, S
  <2>2. RepoCalls.push.verb = GitRoutes[3].verb /\ RepoCalls.push.op = GitRoutes[3].op
    BY DEF RepoCalls, S, GitRoutes, R
  <2>3. 3 \in DOMAIN GitRoutes /\ Len(GitRoutes[3].path) = 6 /\ GitRoutes[3].path[1] = "workspaces" /\ GitRoutes[3].path[3] = "repos" /\ GitRoutes[3].path[5] = "git" /\ GitRoutes[3].path[6] = "push"
    BY DEF GitRoutes, R
  <2>4. GitRoutes[3] \in SessionRange
    BY <2>3, RoutesIn
  <2>5. "push" \in Words
    BY DEF Words
  <2> QED BY <2>1, <2>2, <2>3, <2>4, <2>5, CallsOfRepo2 DEF OnRepo
<1>7. CallFits(RepoCalls.checkout, GitRoutes[4]) /\ RepoCalls.checkout.path[9] = "$repo"
  <2>1. RepoCalls.checkout.path = (Working \o <<"repos", "$repo">>) \o <<"git", "checkout">>
    BY DEF RepoCalls, S
  <2>2. RepoCalls.checkout.verb = GitRoutes[4].verb /\ RepoCalls.checkout.op = GitRoutes[4].op
    BY DEF RepoCalls, S, GitRoutes, R
  <2>3. 4 \in DOMAIN GitRoutes /\ Len(GitRoutes[4].path) = 6 /\ GitRoutes[4].path[1] = "workspaces" /\ GitRoutes[4].path[3] = "repos" /\ GitRoutes[4].path[5] = "git" /\ GitRoutes[4].path[6] = "checkout"
    BY DEF GitRoutes, R
  <2>4. GitRoutes[4] \in SessionRange
    BY <2>3, RoutesIn
  <2>5. "checkout" \in Words
    BY DEF Words
  <2> QED BY <2>1, <2>2, <2>3, <2>4, <2>5, CallsOfRepo2 DEF OnRepo
<1>8. CallFits(RepoCalls.pull, GitRoutes[5]) /\ RepoCalls.pull.path[9] = "$repo"
  <2>1. RepoCalls.pull.path = (Working \o <<"repos", "$repo">>) \o <<"git", "pull">>
    BY DEF RepoCalls, S
  <2>2. RepoCalls.pull.verb = GitRoutes[5].verb /\ RepoCalls.pull.op = GitRoutes[5].op
    BY DEF RepoCalls, S, GitRoutes, R
  <2>3. 5 \in DOMAIN GitRoutes /\ Len(GitRoutes[5].path) = 6 /\ GitRoutes[5].path[1] = "workspaces" /\ GitRoutes[5].path[3] = "repos" /\ GitRoutes[5].path[5] = "git" /\ GitRoutes[5].path[6] = "pull"
    BY DEF GitRoutes, R
  <2>4. GitRoutes[5] \in SessionRange
    BY <2>3, RoutesIn
  <2>5. "pull" \in Words
    BY DEF Words
  <2> QED BY <2>1, <2>2, <2>3, <2>4, <2>5, CallsOfRepo2 DEF OnRepo
<1>9. CallFits(RepoCalls.discard, GitRoutes[6]) /\ RepoCalls.discard.path[9] = "$repo"
  <2>1. RepoCalls.discard.path = (Working \o <<"repos", "$repo">>) \o <<"git", "discard">>
    BY DEF RepoCalls, S
  <2>2. RepoCalls.discard.verb = GitRoutes[6].verb /\ RepoCalls.discard.op = GitRoutes[6].op
    BY DEF RepoCalls, S, GitRoutes, R
  <2>3. 6 \in DOMAIN GitRoutes /\ Len(GitRoutes[6].path) = 6 /\ GitRoutes[6].path[1] = "workspaces" /\ GitRoutes[6].path[3] = "repos" /\ GitRoutes[6].path[5] = "git" /\ GitRoutes[6].path[6] = "discard"
    BY DEF GitRoutes, R
  <2>4. GitRoutes[6] \in SessionRange
    BY <2>3, RoutesIn
  <2>5. "discard" \in Words
    BY DEF Words
  <2> QED BY <2>1, <2>2, <2>3, <2>4, <2>5, CallsOfRepo2 DEF OnRepo
<1>10. CallFits(RepoCalls.stashList, GitRoutes[7]) /\ RepoCalls.stashList.path[9] = "$repo"
  <2>1. RepoCalls.stashList.path = (Working \o <<"repos", "$repo">>) \o <<"git", "stash">>
    BY DEF RepoCalls, S
  <2>2. RepoCalls.stashList.verb = GitRoutes[7].verb /\ RepoCalls.stashList.op = GitRoutes[7].op
    BY DEF RepoCalls, S, GitRoutes, R
  <2>3. 7 \in DOMAIN GitRoutes /\ Len(GitRoutes[7].path) = 6 /\ GitRoutes[7].path[1] = "workspaces" /\ GitRoutes[7].path[3] = "repos" /\ GitRoutes[7].path[5] = "git" /\ GitRoutes[7].path[6] = "stash"
    BY DEF GitRoutes, R
  <2>4. GitRoutes[7] \in SessionRange
    BY <2>3, RoutesIn
  <2>5. "stash" \in Words
    BY DEF Words
  <2> QED BY <2>1, <2>2, <2>3, <2>4, <2>5, CallsOfRepo2 DEF OnRepo
<1>11. CallFits(RepoCalls.stash, GitRoutes[8]) /\ RepoCalls.stash.path[9] = "$repo"
  <2>1. RepoCalls.stash.path = (Working \o <<"repos", "$repo">>) \o <<"git", "stash">>
    BY DEF RepoCalls, S
  <2>2. RepoCalls.stash.verb = GitRoutes[8].verb /\ RepoCalls.stash.op = GitRoutes[8].op
    BY DEF RepoCalls, S, GitRoutes, R
  <2>3. 8 \in DOMAIN GitRoutes /\ Len(GitRoutes[8].path) = 6 /\ GitRoutes[8].path[1] = "workspaces" /\ GitRoutes[8].path[3] = "repos" /\ GitRoutes[8].path[5] = "git" /\ GitRoutes[8].path[6] = "stash"
    BY DEF GitRoutes, R
  <2>4. GitRoutes[8] \in SessionRange
    BY <2>3, RoutesIn
  <2>5. "stash" \in Words
    BY DEF Words
  <2> QED BY <2>1, <2>2, <2>3, <2>4, <2>5, CallsOfRepo2 DEF OnRepo
<1>12. CallFits(RepoCalls.stashPop, GitRoutes[9]) /\ RepoCalls.stashPop.path[9] = "$repo"
  <2>1. RepoCalls.stashPop.path = (Working \o <<"repos", "$repo">>) \o <<"git", "stash", "pop">>
    BY DEF RepoCalls, S
  <2>2. RepoCalls.stashPop.verb = GitRoutes[9].verb /\ RepoCalls.stashPop.op = GitRoutes[9].op
    BY DEF RepoCalls, S, GitRoutes, R
  <2>3. 9 \in DOMAIN GitRoutes /\ Len(GitRoutes[9].path) = 7 /\ GitRoutes[9].path[1] = "workspaces" /\ GitRoutes[9].path[3] = "repos" /\ GitRoutes[9].path[5] = "git" /\ GitRoutes[9].path[6] = "stash" /\ GitRoutes[9].path[7] = "pop"
    BY DEF GitRoutes, R
  <2>4. GitRoutes[9] \in SessionRange
    BY <2>3, RoutesIn
  <2> QED BY <2>1, <2>2, <2>3, <2>4, CallsOfRepo3 DEF OnRepo
<1>13. DOMAIN RepoCalls = {"tree", "file", "diff", "log", "commit", "push", "checkout", "pull", "discard", "stashList", "stash", "stashPop"}
  BY DEF RepoCalls
<1>14. \A c, r : CallFits(c, r) => r \in SessionRange
  BY DEF CallFits
<1> QED BY <1>1, <1>2, <1>3, <1>4, <1>5, <1>6, <1>7, <1>8, <1>9, <1>10, <1>11, <1>12, <1>13, <1>14

LEMMA TurnCallsServed ==
  \A name \in DOMAIN TurnCalls : \E r \in SessionRange : CallFits(TurnCalls[name], r)
<1>1. CallFits(TurnCalls.prompt, TurnRoutes[3])
  <2>1. TurnCalls.prompt.path = Agent \o <<"prompt">>
    BY DEF TurnCalls, S
  <2>2. TurnCalls.prompt.verb = TurnRoutes[3].verb /\ TurnCalls.prompt.op = TurnRoutes[3].op
    BY DEF TurnCalls, S, TurnRoutes, R
  <2>3. 3 \in DOMAIN TurnRoutes /\ Len(TurnRoutes[3].path) = 3 /\ TurnRoutes[3].path[1] = "agents" /\ TurnRoutes[3].path[3] = "prompt"
    BY DEF TurnRoutes, R
  <2>4. TurnRoutes[3] \in SessionRange
    BY <2>3, RoutesIn
  <2>5. "prompt" \in Words
    BY DEF Words
  <2> QED BY <2>1, <2>2, <2>3, <2>4, <2>5, CallsOf3, PartsAre
<1>2. CallFits(TurnCalls.ask, TurnRoutes[1])
  <2>1. TurnCalls.ask.path = Agent \o <<"ask">>
    BY DEF TurnCalls, S
  <2>2. TurnCalls.ask.verb = TurnRoutes[1].verb /\ TurnCalls.ask.op = TurnRoutes[1].op
    BY DEF TurnCalls, S, TurnRoutes, R
  <2>3. 1 \in DOMAIN TurnRoutes /\ Len(TurnRoutes[1].path) = 3 /\ TurnRoutes[1].path[1] = "agents" /\ TurnRoutes[1].path[3] = "ask"
    BY DEF TurnRoutes, R
  <2>4. TurnRoutes[1] \in SessionRange
    BY <2>3, RoutesIn
  <2>5. "ask" \in Words
    BY DEF Words
  <2> QED BY <2>1, <2>2, <2>3, <2>4, <2>5, CallsOf3, PartsAre
<1>3. CallFits(TurnCalls.slash, TurnRoutes[4])
  <2>1. TurnCalls.slash.path = Agent \o <<"slash", "$2">>
    BY DEF TurnCalls, S
  <2>2. TurnCalls.slash.verb = TurnRoutes[4].verb /\ TurnCalls.slash.op = TurnRoutes[4].op
    BY DEF TurnCalls, S, TurnRoutes, R
  <2>3. 4 \in DOMAIN TurnRoutes /\ Len(TurnRoutes[4].path) = 4 /\ TurnRoutes[4].path[1] = "agents" /\ TurnRoutes[4].path[3] = "slash"
    BY DEF TurnRoutes, R
  <2>4. TurnRoutes[4] \in SessionRange
    BY <2>3, RoutesIn
  <2>5. "slash" \in Words
    BY DEF Words
  <2> QED BY <2>1, <2>2, <2>3, <2>4, <2>5, CallsOf4, PartsAre
<1>4. CallFits(TurnCalls.model, TurnRoutes[2])
  <2>1. TurnCalls.model.path = Agent \o <<"model">>
    BY DEF TurnCalls, S
  <2>2. TurnCalls.model.verb = TurnRoutes[2].verb /\ TurnCalls.model.op = TurnRoutes[2].op
    BY DEF TurnCalls, S, TurnRoutes, R
  <2>3. 2 \in DOMAIN TurnRoutes /\ Len(TurnRoutes[2].path) = 3 /\ TurnRoutes[2].path[1] = "agents" /\ TurnRoutes[2].path[3] = "model"
    BY DEF TurnRoutes, R
  <2>4. TurnRoutes[2] \in SessionRange
    BY <2>3, RoutesIn
  <2>5. "model" \in Words
    BY DEF Words
  <2> QED BY <2>1, <2>2, <2>3, <2>4, <2>5, CallsOf3, PartsAre
<1>5. CallFits(TurnCalls.wait, AgentRoutes[3])
  <2>1. TurnCalls.wait.path = Agent \o <<"wait">>
    BY DEF TurnCalls, S
  <2>2. TurnCalls.wait.verb = AgentRoutes[3].verb /\ TurnCalls.wait.op = AgentRoutes[3].op
    BY DEF TurnCalls, S, AgentRoutes, R
  <2>3. 3 \in DOMAIN AgentRoutes /\ Len(AgentRoutes[3].path) = 3 /\ AgentRoutes[3].path[1] = "agents" /\ AgentRoutes[3].path[3] = "wait"
    BY DEF AgentRoutes, R
  <2>4. AgentRoutes[3] \in SessionRange
    BY <2>3, RoutesIn
  <2>5. "wait" \in Words
    BY DEF Words
  <2> QED BY <2>1, <2>2, <2>3, <2>4, <2>5, CallsOf3, PartsAre
<1>6. CallFits(TurnCalls.explain, AgentRoutes[4])
  <2>1. TurnCalls.explain.path = Agent \o <<"explain">>
    BY DEF TurnCalls, S
  <2>2. TurnCalls.explain.verb = AgentRoutes[4].verb /\ TurnCalls.explain.op = AgentRoutes[4].op
    BY DEF TurnCalls, S, AgentRoutes, R
  <2>3. 4 \in DOMAIN AgentRoutes /\ Len(AgentRoutes[4].path) = 3 /\ AgentRoutes[4].path[1] = "agents" /\ AgentRoutes[4].path[3] = "explain"
    BY DEF AgentRoutes, R
  <2>4. AgentRoutes[4] \in SessionRange
    BY <2>3, RoutesIn
  <2>5. "explain" \in Words
    BY DEF Words
  <2> QED BY <2>1, <2>2, <2>3, <2>4, <2>5, CallsOf3, PartsAre
<1>7. CallFits(TurnCalls.stop, AgentRoutes[5])
  <2>1. TurnCalls.stop.path = Session \o <<"agents", "$1">>
    BY DEF TurnCalls, S, Agent
  <2>2. TurnCalls.stop.verb = AgentRoutes[5].verb /\ TurnCalls.stop.op = AgentRoutes[5].op
    BY DEF TurnCalls, S, AgentRoutes, R
  <2>3. 5 \in DOMAIN AgentRoutes /\ Len(AgentRoutes[5].path) = 2 /\ AgentRoutes[5].path[1] = "agents"
    BY DEF AgentRoutes, R
  <2>4. AgentRoutes[5] \in SessionRange
    BY <2>3, RoutesIn
  <2>5. "agents" \in Words
    BY DEF Words
  <2> QED BY <2>1, <2>2, <2>3, <2>4, <2>5, CallsOf2
<1>8. DOMAIN TurnCalls = {"prompt", "ask", "slash", "model", "wait", "explain", "stop"}
  BY DEF TurnCalls
<1>9. \A c, r : CallFits(c, r) => r \in SessionRange
  BY DEF CallFits
<1> QED BY <1>1, <1>2, <1>3, <1>4, <1>5, <1>6, <1>7, <1>8, <1>9

LEMMA PaneCallsServed ==
  \A name \in DOMAIN PaneCalls : \E r \in SessionRange : CallFits(PaneCalls[name], r)
<1>1. CallFits(PaneCalls.screen, PaneRoutes[1])
  <2>1. PaneCalls.screen.path = Session \o <<"panes", "$1", "screen">>
    BY DEF PaneCalls, S
  <2>2. PaneCalls.screen.verb = PaneRoutes[1].verb /\ PaneCalls.screen.op = PaneRoutes[1].op
    BY DEF PaneCalls, S, PaneRoutes, R
  <2>3. 1 \in DOMAIN PaneRoutes /\ Len(PaneRoutes[1].path) = 3 /\ PaneRoutes[1].path[1] = "panes" /\ PaneRoutes[1].path[3] = "screen"
    BY DEF PaneRoutes, R
  <2>4. PaneRoutes[1] \in SessionRange
    BY <2>3, RoutesIn
  <2>5. "panes" \in Words /\ "screen" \in Words
    BY DEF Words
  <2> QED BY <2>1, <2>2, <2>3, <2>4, <2>5, CallsOfPane
<1>2. DOMAIN PaneCalls = {"screen"}
  BY DEF PaneCalls
<1>3. \A c, r : CallFits(c, r) => r \in SessionRange
  BY DEF CallFits
<1> QED BY <1>1, <1>2, <1>3

LEMMA SpecCallsServed ==
  \A name \in DOMAIN SpecCalls : \E r \in SessionRange : CallFits(SpecCalls[name], r)
<1>1. CallFits(SpecCalls.spec, SpecRoutes[1])
  <2>1. SpecCalls.spec.path = Agent \o <<"spec-bundles">>
    BY DEF SpecCalls, S
  <2>2. SpecCalls.spec.verb = SpecRoutes[1].verb /\ SpecCalls.spec.op = SpecRoutes[1].op
    BY DEF SpecCalls, S, SpecRoutes, R
  <2>3. 1 \in DOMAIN SpecRoutes /\ Len(SpecRoutes[1].path) = 3 /\ SpecRoutes[1].path[1] = "agents" /\ SpecRoutes[1].path[3] = "spec-bundles"
    BY DEF SpecRoutes, R
  <2>4. SpecRoutes[1] \in SessionRange
    BY <2>3, RoutesIn
  <2>5. "spec-bundles" \in Words
    BY DEF Words
  <2> QED BY <2>1, <2>2, <2>3, <2>4, <2>5, CallsOf3, PartsAre
<1>2. CallFits(SpecCalls.plan, SpecRoutes[2])
  <2>1. SpecCalls.plan.path = Agent \o <<"spec-bundles", "$2", "plan">>
    BY DEF SpecCalls, S
  <2>2. SpecCalls.plan.verb = SpecRoutes[2].verb /\ SpecCalls.plan.op = SpecRoutes[2].op
    BY DEF SpecCalls, S, SpecRoutes, R
  <2>3. 2 \in DOMAIN SpecRoutes /\ Len(SpecRoutes[2].path) = 5 /\ SpecRoutes[2].path[1] = "agents" /\ SpecRoutes[2].path[3] = "spec-bundles" /\ SpecRoutes[2].path[5] = "plan"
    BY DEF SpecRoutes, R
  <2>4. SpecRoutes[2] \in SessionRange
    BY <2>3, RoutesIn
  <2>5. "spec-bundles" \in Words /\ "plan" \in Words
    BY DEF Words
  <2> QED BY <2>1, <2>2, <2>3, <2>4, <2>5, CallsOf5
<1>3. DOMAIN SpecCalls = {"spec", "plan"}
  BY DEF SpecCalls
<1>4. \A c, r : CallFits(c, r) => r \in SessionRange
  BY DEF CallFits
<1> QED BY <1>1, <1>2, <1>3, <1>4

LEMMA BundleCallsServed ==
  \A name \in DOMAIN BundleCalls : \E r \in SessionRange : CallFits(BundleCalls[name], r)
<1>1. CallFits(BundleCalls.listBundles, SpecRoutes[3])
  <2>1. BundleCalls.listBundles.path = Working \o <<"spec-bundles">>
    BY DEF BundleCalls, S
  <2>2. BundleCalls.listBundles.verb = SpecRoutes[3].verb /\ BundleCalls.listBundles.op = SpecRoutes[3].op
    BY DEF BundleCalls, S, SpecRoutes, R
  <2>3. 3 \in DOMAIN SpecRoutes /\ Len(SpecRoutes[3].path) = 3 /\ SpecRoutes[3].path[1] = "workspaces" /\ SpecRoutes[3].path[3] = "spec-bundles"
    BY DEF SpecRoutes, R
  <2>4. SpecRoutes[3] \in SessionRange
    BY <2>3, RoutesIn
  <2>5. "spec-bundles" \in Words
    BY DEF Words
  <2> QED BY <2>1, <2>2, <2>3, <2>4, <2>5, CallsOf3, PartsAre
<1>2. CallFits(BundleCalls.getBundle, SpecRoutes[4])
  <2>1. BundleCalls.getBundle.path = Working \o <<"spec-bundles", "$2">>
    BY DEF BundleCalls, S
  <2>2. BundleCalls.getBundle.verb = SpecRoutes[4].verb /\ BundleCalls.getBundle.op = SpecRoutes[4].op
    BY DEF BundleCalls, S, SpecRoutes, R
  <2>3. 4 \in DOMAIN SpecRoutes /\ Len(SpecRoutes[4].path) = 4 /\ SpecRoutes[4].path[1] = "workspaces" /\ SpecRoutes[4].path[3] = "spec-bundles"
    BY DEF SpecRoutes, R
  <2>4. SpecRoutes[4] \in SessionRange
    BY <2>3, RoutesIn
  <2>5. "spec-bundles" \in Words
    BY DEF Words
  <2> QED BY <2>1, <2>2, <2>3, <2>4, <2>5, CallsOf4, PartsAre
<1>3. CallFits(BundleCalls.follow, SpecRoutes[4])
  <2>1. BundleCalls.follow.path = Working \o <<"spec-bundles", "$2">>
    BY DEF BundleCalls, S
  <2>2. BundleCalls.follow.verb = SpecRoutes[4].verb /\ BundleCalls.follow.op = SpecRoutes[4].op
    BY DEF BundleCalls, S, SpecRoutes, R
  <2>3. 4 \in DOMAIN SpecRoutes /\ Len(SpecRoutes[4].path) = 4 /\ SpecRoutes[4].path[1] = "workspaces" /\ SpecRoutes[4].path[3] = "spec-bundles"
    BY DEF SpecRoutes, R
  <2>4. SpecRoutes[4] \in SessionRange
    BY <2>3, RoutesIn
  <2>5. "spec-bundles" \in Words
    BY DEF Words
  <2> QED BY <2>1, <2>2, <2>3, <2>4, <2>5, CallsOf4, PartsAre
<1>4. DOMAIN BundleCalls = {"listBundles", "getBundle", "follow"}
  BY DEF BundleCalls
<1>5. \A c, r : CallFits(c, r) => r \in SessionRange
  BY DEF CallFits
<1> QED BY <1>1, <1>2, <1>3, <1>4, <1>5

\* The calls, by name.
LEMMA Domains ==
  /\ DOMAIN TopCalls = {"verify", "identify", "signOut"}
  /\ DOMAIN InstanceCalls = {"detail", "sessions", "models", "envSet", "envList", "envDelete"}
  /\ DOMAIN SessionCalls = {"agents", "workspaces", "teardown", "closeWorkspace", "worktrees", "removeWorktree", "spawn", "rpc"}
  /\ DOMAIN ContextCalls = {"list", "upload", "download", "set", "delete"}
  /\ DOMAIN RepoCalls = {"tree", "file", "diff", "log", "commit", "push", "checkout", "pull", "discard", "stashList", "stash", "stashPop"}
  /\ DOMAIN TurnCalls = {"prompt", "ask", "slash", "model", "wait", "explain", "stop"}
  /\ DOMAIN PaneCalls = {"screen"}
  /\ DOMAIN SpecCalls = {"spec", "plan"}
  /\ DOMAIN BundleCalls = {"listBundles", "getBundle", "follow"}
<1>1. DOMAIN TopCalls = {"verify", "identify", "signOut"}
  BY DEF TopCalls
<1>2. DOMAIN InstanceCalls = {"detail", "sessions", "models", "envSet", "envList", "envDelete"}
  BY DEF InstanceCalls
<1>3. DOMAIN SessionCalls = {"agents", "workspaces", "teardown", "closeWorkspace", "worktrees", "removeWorktree", "spawn", "rpc"}
  BY DEF SessionCalls
<1>4. DOMAIN ContextCalls = {"list", "upload", "download", "set", "delete"}
  BY DEF ContextCalls
<1>5. DOMAIN RepoCalls = {"tree", "file", "diff", "log", "commit", "push", "checkout", "pull", "discard", "stashList", "stash", "stashPop"}
  BY DEF RepoCalls
<1>6. DOMAIN TurnCalls = {"prompt", "ask", "slash", "model", "wait", "explain", "stop"}
  BY DEF TurnCalls
<1>7. DOMAIN PaneCalls = {"screen"}
  BY DEF PaneCalls
<1>8. DOMAIN SpecCalls = {"spec", "plan"}
  BY DEF SpecCalls
<1>9. DOMAIN BundleCalls = {"listBundles", "getBundle", "follow"}
  BY DEF BundleCalls
<1> QED BY <1>1, <1>2, <1>3, <1>4, <1>5, <1>6, <1>7, <1>8, <1>9

\* No name is in two tables.
LEMMA OneTable ==
  ASSUME NEW t1 \in Tables, NEW t2 \in Tables, NEW name \in DOMAIN t1 \cap DOMAIN t2
  PROVE  t1 = t2
<1>1. CASE t1 = TopCalls
  BY <1>1, Domains DEF Tables
<1>2. CASE t1 = InstanceCalls
  BY <1>2, Domains DEF Tables
<1>3. CASE t1 = SessionCalls
  BY <1>3, Domains DEF Tables
<1>4. CASE t1 = ContextCalls
  BY <1>4, Domains DEF Tables
<1>5. CASE t1 = RepoCalls
  BY <1>5, Domains DEF Tables
<1>6. CASE t1 = TurnCalls
  BY <1>6, Domains DEF Tables
<1>7. CASE t1 = PaneCalls
  BY <1>7, Domains DEF Tables
<1>8. CASE t1 = SpecCalls
  BY <1>8, Domains DEF Tables
<1>9. CASE t1 = BundleCalls
  BY <1>9, Domains DEF Tables
<1> QED BY <1>1, <1>2, <1>3, <1>4, <1>5, <1>6, <1>7, <1>8, <1>9 DEF Tables

\* Calls holds the calls of each table, and no others.
LEMMA CallsAre ==
  /\ \A table \in Tables : \A name \in DOMAIN table : name \in DOMAIN Calls /\ Calls[name] = table[name]
  /\ \A name \in DOMAIN Calls : \E table \in Tables : name \in DOMAIN table
<1>1. DOMAIN Calls = UNION {DOMAIN table : table \in Tables}
  BY DEF Calls
<1>2. ASSUME NEW table \in Tables, NEW name \in DOMAIN table
      PROVE  name \in DOMAIN Calls /\ Calls[name] = table[name]
  <2> DEFINE t == CHOOSE u \in Tables : name \in DOMAIN u
  <2>1. t \in Tables /\ name \in DOMAIN t
    BY <1>2
  <2>2. name \in DOMAIN Calls
    BY <1>1
  <2>3. Calls[name] = t[name]
    BY <2>2 DEF Calls
  <2> HIDE DEF t
  <2>4. t = table
    BY <2>1, OneTable
  <2> QED BY <2>2, <2>3, <2>4
<1> QED BY <1>1, <1>2

\* The calls on a session.
InTheSession == {SessionCalls, ContextCalls, RepoCalls, TurnCalls, PaneCalls, SpecCalls, BundleCalls}

\* Each call names no session, or has a route of a session that serves it.
LEMMA CallsServed ==
  ASSUME NEW name \in DOMAIN Calls
  PROVE  \/ name \in DOMAIN TopCalls /\ Calls[name] = TopCalls[name]
         \/ name \in DOMAIN InstanceCalls /\ Calls[name] = InstanceCalls[name]
         \/ /\ \E r \in SessionRange : CallFits(Calls[name], r)
            /\ name \in DOMAIN RepoCalls => Calls[name].path[9] = "$repo"
<1>1. PICK table \in Tables : name \in DOMAIN table /\ Calls[name] = table[name]
  BY CallsAre
<1>2. table \in {TopCalls, InstanceCalls} \cup InTheSession
  BY DEF Tables, InTheSession
<1>3. ASSUME table \in InTheSession PROVE \E r \in SessionRange : CallFits(table[name], r)
  BY <1>1, <1>3, SessionCallsServed, ContextCallsServed, RepoCallsServed, TurnCallsServed, PaneCallsServed,
     SpecCallsServed, BundleCallsServed DEF InTheSession
<1>4. name \in DOMAIN RepoCalls => Calls[name].path[9] = "$repo"
  <2>1. RepoCalls \in Tables
    BY DEF Tables
  <2> QED BY <2>1, CallsAre, RepoCallsServed
<1> QED BY <1>1, <1>2, <1>3, <1>4

-----------------------------------------------------------------------------
(* A call on a session, from its names to its answer *)

Proper(seg) == seg \notin {Empty, ".", ".."}

\* A word of a path is no hole, and a URL keeps it.
LEMMA WordsProper == \A w \in Words \cup {"-"} : Proper(w) /\ w \notin Holes
<1>1. \A w \in Words \cup {"-"} : w # Empty
  BY Zenon DEF Words, Empty
<1>2. \A w \in Words \cup {"-"} : w \notin {".", ".."} /\ w \notin Holes
  BY DEF Words, Holes
<1> QED BY <1>1, <1>2 DEF Proper

\* What a call's path may hold, and a request's.
Sent == Segments \cup Name \cup {"-"}

\* No route has a hole for a word.
LEMMA RouteWords == ASSUME NEW r \in SessionRange, NEW n \in 1..Len(r.path), n \notin {2, 4}
  PROVE r.path[n] \notin Holes
<1>1. Shape(r) /\ Len(r.path) \in 0..7
  BY RouteFacts
<1>2. n = 1 => r.path[n] \notin Holes
  BY <1>1 DEF Shape, Holes
<1>3. n = 3 => r.path[n] \notin Holes
  BY <1>1 DEF Shape, Holes
<1>4. n = 5 => r.path[n] \notin Holes
  BY <1>1 DEF Shape, Holes
<1>5. n \in {6, 7} => r.path[n] \notin Holes
  BY <1>1 DEF Shape, Holes, GitVerbs
<1> QED BY <1>1, <1>2, <1>3, <1>4, <1>5

\* A request of a call on a session, before it is made into a URL.
LEMMA FilledIs ==
  ASSUME NEW c, NEW r, CallFits(c, r), NEW args \in Name \X Name, NEW f, f = Filled(c.path, args)
  PROVE  /\ f \in Seq(Sent) /\ Len(f) = 5 + Len(r.path) /\ Len(r.path) \in 0..7
         /\ f[1] = "v1" /\ f[2] = "instances" /\ f[3] = "runtime" /\ f[4] = "sessions" /\ f[5] = "s"
         /\ \A n \in 1..Len(r.path) : n \notin {2, 4} => f[5 + n] = r.path[n] /\ f[5 + n] \in Words
         /\ Len(r.path) > 1 => f[7] = args[1]
         /\ Len(r.path) > 3 => f[9] = IF c.path[9] = "$repo" /\ args[2] = "." THEN "-" ELSE args[2]
<1> DEFINE p == c.path
<1>1. /\ r \in SessionRange /\ p \in Seq(Segments) /\ Len(p) = 5 + Len(r.path)
      /\ p[1] = "v1" /\ p[2] = "instances" /\ p[3] = "runtime" /\ p[4] = "sessions" /\ p[5] = "s"
      /\ \A n \in 1..Len(r.path) : n \notin {2, 4} => p[5 + n] = r.path[n]
      /\ Len(r.path) > 1 => p[7] = "$1"
      /\ Len(r.path) > 3 => p[9] \in {"$2", "$repo"}
  BY DEF CallFits, InSessions
<1>2. Len(r.path) \in 0..7
  BY <1>1, RouteFacts
<1>3. f = Filled(p, args)
  OBVIOUS
<1> HIDE DEF p
<1>4. args[1] \in Name /\ args[2] \in Name
  OBVIOUS
<1>5. DOMAIN f = 1..Len(p) /\ DOMAIN p = 1..Len(p) /\ Len(p) \in Nat
  BY <1>1, <1>3 DEF Filled
<1>6. ASSUME NEW n \in 1..Len(p)
      PROVE  /\ f[n] = IF p[n] = "$1" THEN args[1] ELSE IF p[n] = "$2" THEN args[2]
                       ELSE IF p[n] = "$repo" THEN (IF args[2] = "." THEN "-" ELSE args[2]) ELSE p[n]
             /\ f[n] \in Sent
  <2>1. p[n] \in Segments
    BY <1>1
  <2>2. f[n] = CASE p[n] = "$1" -> args[1]
                 [] p[n] = "$2" -> args[2]
                 [] p[n] = "$repo" -> IF args[2] = "." THEN "-" ELSE args[2]
                 [] OTHER -> p[n]
    BY <1>3, <1>5 DEF Filled
  <2>3. f[n] = IF p[n] = "$1" THEN args[1] ELSE IF p[n] = "$2" THEN args[2]
               ELSE IF p[n] = "$repo" THEN (IF args[2] = "." THEN "-" ELSE args[2]) ELSE p[n]
    BY <2>2
  <2> QED BY <1>4, <2>1, <2>3 DEF Sent
<1>7. f \in Seq(Sent) /\ Len(f) = Len(p)
  <2>1. f = [n \in 1..Len(p) |-> f[n]]
    BY <1>3, <1>5 DEF Filled
  <2> QED BY <1>5, <1>6, <2>1
<1>8. ASSUME NEW n \in 1..Len(p), p[n] \in Words PROVE f[n] = p[n]
  BY <1>6, <1>8, WordsProper DEF Holes
<1>9. \A n \in 1..5 : n \in 1..Len(p) /\ p[n] \in Words
  BY <1>1, <1>2 DEF Words
<1>10. ASSUME NEW n \in 1..Len(r.path), n \notin {2, 4}
       PROVE  f[5 + n] = r.path[n] /\ f[5 + n] \in Words
  <2>1. 5 + n \in 1..Len(p) /\ p[5 + n] = r.path[n] /\ r.path[n] \notin Holes
    BY <1>1, <1>2, <1>10, RouteWords
  <2>2. p[5 + n] \in Words
    BY <1>1, <2>1 DEF Segments
  <2> QED BY <1>8, <2>1, <2>2
<1>11. Len(r.path) > 1 => f[7] = args[1]
  BY <1>1, <1>2, <1>6
<1>12. Len(r.path) > 3 => f[9] = IF p[9] = "$repo" /\ args[2] = "." THEN "-" ELSE args[2]
  BY <1>1, <1>2, <1>6
<1>13. f[1] = "v1" /\ f[2] = "instances" /\ f[3] = "runtime" /\ f[4] = "sessions" /\ f[5] = "s"
  BY <1>1, <1>8, <1>9
<1> QED BY <1>1, <1>2, <1>7, <1>10, <1>11, <1>12, <1>13 DEF p

\* A request whose names are proper is sent as it was put together.
LEMMA SentWhole ==
  ASSUME NEW c, NEW r, CallFits(c, r), NEW args \in Name \X Name, NEW f, f = Filled(c.path, args),
         Len(r.path) > 1 => Proper(f[7]), Len(r.path) > 3 => Proper(f[9])
  PROVE  Collapsed(f) = f
<1>1. /\ f \in Seq(Sent) /\ Len(f) = 5 + Len(r.path) /\ Len(r.path) \in 0..7
      /\ f[1] = "v1" /\ f[2] = "instances" /\ f[3] = "runtime" /\ f[4] = "sessions" /\ f[5] = "s"
      /\ \A n \in 1..Len(r.path) : n \notin {2, 4} => f[5 + n] \in Words
  BY FilledIs
<1>2. ASSUME NEW n \in 1..Len(f) PROVE Proper(f[n])
  <2>1. n \in 1..5 => f[n] \in Words
    BY <1>1 DEF Words
  <2>3. n \in {7, 9} => Proper(f[n])
    BY <1>1
  <2>4. ASSUME n \notin 1..5, n \notin {7, 9} PROVE f[n] \in Words
    <3>1. PICK m \in 1..Len(r.path) : m = n - 5
      BY <1>1, <2>4
    <3>2. n = 5 + m /\ m \notin {2, 4}
      BY <1>1, <2>4, <3>1
    <3> QED BY <1>1, <3>2
  <2> QED BY <2>1, <2>3, <2>4, WordsProper
<1> QED BY <1>1, <1>2, CollapsedProper DEF Proper

AnswerTo(verb, parts, s) == Handled([verb |-> verb, parts |-> parts], s)

\* What is behind the routes of an instance.
WithinSession(verb, u, s) ==
  IF Len(u) >= 2 /\ u[1] = "sessions" /\ Visible(u[2], s)
  THEN Matched(InSession, verb, SubSeq(u, 3, Len(u)), Refused("bad_request"))
  ELSE Refused("unknown_session")

\* What the routes of an instance make of the rest of a path.
OuterServed(verb, u, s) == Matched(EnvRoutes \o ModelRoutes, verb, u, WithinSession(verb, u, s))
InnerServed(verb, v) == Matched(InSession, verb, v, Refused("bad_request"))

LEMMA Rest ==
  ASSUME NEW f \in Seq(Sent), NEW k \in Nat, k < Len(f) + 1, NEW u, u = SubSeq(f, k + 1, Len(f))
  PROVE  u \in Seq(Sent) /\ Len(u) = Len(f) - k /\ \A n \in 1..Len(u) : u[n] = f[k + n]
<1>1. k + 1 \in Int /\ Len(f) \in Int /\ \A i \in (k + 1)..Len(f) : f[i] \in Sent
  OBVIOUS
<1>2. /\ u \in Seq(Sent) /\ Len(u) = IF k + 1 <= Len(f) THEN Len(f) - (k + 1) + 1 ELSE 0
      /\ \A i \in 1..(Len(f) - (k + 1) + 1) : u[i] = f[k + 1 + i - 1]
  BY <1>1, SubSeqProperties
<1>3. Len(u) = Len(f) - k
  BY <1>2
<1>4. ASSUME NEW n \in 1..Len(u) PROVE u[n] = f[k + n]
  <2>1. n \in 1..(Len(f) - (k + 1) + 1) /\ k + 1 + n - 1 = k + n
    BY <1>3
  <2> QED BY <1>2, <2>1
<1> QED BY <1>2, <1>3, <1>4

AnsweredOnInstance(verb, f, u, s) ==
  /\ u = <<>> /\ verb = "GET" => AnswerTo(verb, f, s) = [code |-> "ok", op |-> "detail", args |-> <<>>]
  /\ u = <<"sessions">> /\ verb = "GET" =>
       AnswerTo(verb, f, s) = [code |-> "ok", op |-> "sessions", args |-> <<>>]
  /\ ~(u \in {<<>>, <<"sessions">>} /\ verb = "GET") => AnswerTo(verb, f, s) = OuterServed(verb, u, s)
AnsweredInSession(verb, f, v, s) ==
  IF s \in {"mine", "shared"} THEN AnswerTo(verb, f, s) = InnerServed(verb, v)
  ELSE AnswerTo(verb, f, s) = Refused("unknown_session")

\* A request about the instance of the path.
LEMMA HandledOnInstance ==
  ASSUME NEW verb, NEW f \in Seq(Sent), NEW s, Len(f) >= 3,
         f[1] = "v1", f[2] = "instances", f[3] = "runtime", NEW u, u = SubSeq(f, 4, Len(f))
  PROVE  /\ u \in Seq(Sent) /\ Len(u) = Len(f) - 3 /\ \A n \in 1..Len(u) : u[n] = f[3 + n]
         /\ AnsweredOnInstance(verb, f, u, s)
<1> DEFINE p == Unversioned(f)
           rest == SubSeq(p, 3, Len(p))
<1>1. /\ p \in Seq(Sent) /\ Len(p) = Len(f) - 1 /\ Len(f) \in Nat
      /\ \A n \in 1..Len(p) : p[n] = f[n + 1]
  <2>1. f # <<>> /\ Len(f) \in Nat
    OBVIOUS
  <2>2. p = Tail(f)
    BY <2>1 DEF Unversioned
  <2> QED BY <2>1, <2>2, HeadTailProperties
<1>2. AnswerTo(verb, f, s) = Routed(verb, p, s)
  BY DEF Handled, AnswerTo
<1> HIDE DEF p
<1>3. p # <<>> /\ Len(p) >= 2 /\ p[1] = "instances" /\ p[2] = "runtime" /\ Len(p) \in Nat
  BY <1>1
<1>4. /\ rest \in Seq(Sent) /\ Len(rest) = Len(p) - 2
      /\ \A n \in 1..Len(rest) : rest[n] = p[2 + n]
  <2>1. 2 \in Nat /\ 2 < Len(p) + 1 /\ rest = SubSeq(p, 2 + 1, Len(p))
    BY <1>3
  <2> HIDE DEF rest
  <2> QED BY <1>1, <2>1, Rest
<1>5. Routed(verb, p, s) =
        IF rest = <<>> /\ verb = "GET" THEN [code |-> "ok", op |-> "detail", args |-> <<>>]
        ELSE IF rest = <<"sessions">> /\ verb = "GET" THEN [code |-> "ok", op |-> "sessions", args |-> <<>>]
        ELSE OuterServed(verb, rest, s)
  <2>1. Len(p) # 1 /\ ~(Len(p) < 2)
    BY <1>3
  <2> QED BY <1>3, <2>1 DEF Routed, WithinSession, OuterServed
<1> HIDE DEF rest
<1>6. /\ u \in Seq(Sent) /\ Len(u) = Len(f) - 3 /\ \A n \in 1..Len(u) : u[n] = f[3 + n]
  <2>1. 3 \in Nat /\ 3 < Len(f) + 1 /\ u = SubSeq(f, 3 + 1, Len(f))
    BY <1>1
  <2> QED BY <2>1, Rest
<1>7. rest = u
  <2>1. Len(rest) = Len(u)
    BY <1>1, <1>4, <1>6
  <2>2. ASSUME NEW i \in 1..Len(rest) PROVE rest[i] = u[i]
    <3>1. rest[i] = p[2 + i] /\ u[i] = f[3 + i]
      BY <1>4, <1>6, <2>1
    <3>2. p[2 + i] = f[(2 + i) + 1] /\ (2 + i) + 1 = 3 + i
      BY <1>1, <1>3, <1>4
    <3> QED BY <3>1, <3>2, Zenon
  <2> QED BY <1>4, <1>6, <2>1, <2>2, SeqEqual
<1>8. AnswerTo(verb, f, s) =
        IF u = <<>> /\ verb = "GET" THEN [code |-> "ok", op |-> "detail", args |-> <<>>]
        ELSE IF u = <<"sessions">> /\ verb = "GET" THEN [code |-> "ok", op |-> "sessions", args |-> <<>>]
        ELSE OuterServed(verb, u, s)
  BY <1>2, <1>5, <1>7
<1>9. <<"sessions">> # <<>>
  OBVIOUS
<1> QED BY <1>6, <1>8, <1>9 DEF AnsweredOnInstance

\* A request about the session of the path goes to the routes of a session.
LEMMA HandledInSession ==
  ASSUME NEW verb, NEW f \in Seq(Sent), NEW s, Len(f) >= 5,
         f[1] = "v1", f[2] = "instances", f[3] = "runtime", f[4] = "sessions", f[5] = "s",
         NEW v, v = SubSeq(f, 6, Len(f))
  PROVE  /\ v \in Seq(Sent) /\ Len(v) = Len(f) - 5 /\ \A n \in 1..Len(v) : v[n] = f[5 + n]
         /\ AnsweredInSession(verb, f, v, s)
<1> DEFINE u == SubSeq(f, 4, Len(f))
           t == SubSeq(u, 3, Len(u))
<1>0. Len(f) >= 3 /\ Len(f) \in Nat
  OBVIOUS
<1>1. u \in Seq(Sent) /\ Len(u) = Len(f) - 3 /\ \A n \in 1..Len(u) : u[n] = f[3 + n]
  BY <1>0, HandledOnInstance
<1>u. u = SubSeq(f, 4, Len(f))
  OBVIOUS
<1> HIDE DEF u
<1>2. Len(f) \in Nat /\ Len(u) >= 2 /\ u # <<>> /\ u # <<"sessions">>
  BY <1>1
<1>n. ~(u \in {<<>>, <<"sessions">>} /\ verb = "GET")
  BY <1>2
<1>3. u[1] = "sessions" /\ u[2] = "s"
  BY <1>1, <1>2
<1>a. AnswerTo(verb, f, s) = OuterServed(verb, u, s)
  <2>1. AnsweredOnInstance(verb, f, u, s)
    BY <1>0, <1>u, HandledOnInstance
  <2> QED BY <1>n, <2>1 DEF AnsweredOnInstance
<1>b. WithinSession(verb, u, s) = IF Visible("s", s) THEN InnerServed(verb, t)
                                  ELSE Refused("unknown_session")
  BY <1>2, <1>3 DEF WithinSession, InnerServed
<1>4. \A else : Matched(EnvRoutes \o ModelRoutes, verb, u, else) = else
  <2>1. \A r \in OuterRange : ~Fits(r.path, u)
    BY <1>3, OuterFits, OuterRouteFacts
  <2> DEFINE routes == EnvRoutes \o ModelRoutes
  <2>2. routes \in Seq(OuterRange) /\ Range(routes) = OuterRange
    BY OuterRoutesJoined
  <2> HIDE DEF routes
  <2>3. ASSUME NEW else PROVE Matched(routes, verb, u, else) = else
    BY <2>1, <2>2, MatchedSome
  <2> QED BY <2>3 DEF routes
<1>5. t \in Seq(Sent) /\ Len(t) = Len(u) - 2 /\ \A n \in 1..Len(t) : t[n] = u[2 + n]
  <2>1. 2 \in Nat /\ 2 < Len(u) + 1 /\ t = SubSeq(u, 2 + 1, Len(u))
    BY <1>1, <1>2
  <2> HIDE DEF t
  <2> QED BY <1>1, <2>1, Rest
<1> HIDE DEF t
<1>6. v \in Seq(Sent) /\ Len(v) = Len(f) - 5 /\ \A n \in 1..Len(v) : v[n] = f[5 + n]
  <2>1. 5 \in Nat /\ 5 < Len(f) + 1 /\ v = SubSeq(f, 5 + 1, Len(f))
    BY <1>2
  <2> QED BY <2>1, Rest
<1>7. t = v
  <2>1. Len(t) = Len(v)
    BY <1>1, <1>2, <1>5, <1>6
  <2>2. ASSUME NEW i \in 1..Len(t) PROVE t[i] = v[i]
    <3>1. t[i] = u[2 + i] /\ v[i] = f[5 + i]
      BY <1>5, <1>6, <2>1
    <3>2. u[2 + i] = f[3 + (2 + i)] /\ 3 + (2 + i) = 5 + i
      BY <1>1, <1>2, <1>5
    <3> QED BY <3>1, <3>2, Zenon
  <2> QED BY <1>5, <1>6, <2>1, <2>2, SeqEqual
<1>8. Visible("s", s) <=> s \in {"mine", "shared"}
  BY DEF Visible
<1> QED BY <1>a, <1>b, <1>4, <1>6, <1>7, <1>8 DEF OuterServed, AnsweredInSession

ServedAs(c, r, f) ==
  [code |-> "ok", op |-> c.op,
   args |-> IF Len(r.path) < 2 THEN <<>> ELSE IF Len(r.path) < 4 THEN <<f[7]>> ELSE <<f[7], f[9]>>]

\* The request of a call on a session, with proper names, is served by the call's
\* operation, on the objects it names.
LEMMA ServedAsMeant ==
  ASSUME NEW c, NEW r, CallFits(c, r), NEW args \in Name \X Name, NEW f, f = Filled(c.path, args),
         Len(r.path) > 1 => Proper(f[7]), Len(r.path) > 3 => Proper(f[9]), NEW s
  PROVE  /\ s \in {"mine", "shared"} => AnswerTo(c.verb, Collapsed(f), s) = ServedAs(c, r, f)
         /\ s \notin {"mine", "shared"} => AnswerTo(c.verb, Collapsed(f), s) = Refused("unknown_session")
<1> DEFINE u == SubSeq(f, 6, Len(f))
<1>1. /\ f \in Seq(Sent) /\ Len(f) = 5 + Len(r.path) /\ Len(r.path) \in 0..7
      /\ f[1] = "v1" /\ f[2] = "instances" /\ f[3] = "runtime" /\ f[4] = "sessions" /\ f[5] = "s"
  BY FilledIs
<1>a. \A n \in 1..Len(r.path) : n \notin {2, 4} => f[5 + n] = r.path[n]
  BY FilledIs
<1>2. Collapsed(f) = f
  BY SentWhole
<1>3. r \in SessionRange /\ c.verb = r.verb /\ c.op = r.op
  BY DEF CallFits
<1>u. u = SubSeq(f, 6, Len(f)) /\ Len(f) >= 5
  BY <1>1
<1> HIDE DEF u
<1>b. /\ u \in Seq(Sent) /\ Len(u) = Len(f) - 5 /\ \A n \in 1..Len(u) : u[n] = f[5 + n]
  BY <1>1, <1>u, HandledInSession
<1>c. AnsweredInSession(c.verb, f, u, s)
  BY <1>1, <1>u, HandledInSession
<1>4. Len(u) = Len(r.path) /\ u \in Seq(Sent) /\ \A n \in 1..Len(u) : u[n] = f[5 + n]
  BY <1>1, <1>b
<1>5. Fits(r.path, u)
  BY <1>1, <1>a, <1>3, <1>4, FitsIs
<1>6. Matched(InSession, r.verb, u, Refused("bad_request"))
        = [code |-> "ok", op |-> r.op,
           args |-> IF Len(u) < 2 THEN <<>> ELSE IF Len(u) < 4 THEN <<u[2]>> ELSE <<u[2], u[4]>>]
  BY <1>3, <1>4, <1>5, MatchedOne
<1>7. (Len(u) > 1 => u[2] = f[7]) /\ (Len(u) > 3 => u[4] = f[9])
  <2>1. Len(u) > 1 => u[2] = f[5 + 2]
    BY <1>1, <1>4
  <2>2. Len(u) > 3 => u[4] = f[5 + 4]
    BY <1>1, <1>4
  <2> QED BY <2>1, <2>2
<1>8. Matched(InSession, r.verb, u, Refused("bad_request"))
        = [code |-> "ok", op |-> c.op,
           args |-> IF Len(r.path) < 2 THEN <<>> ELSE IF Len(r.path) < 4 THEN <<f[7]>> ELSE <<f[7], f[9]>>]
  <2>1. CASE Len(r.path) < 2
    BY <1>1, <1>3, <1>4, <1>6, <2>1
  <2>2. CASE ~(Len(r.path) < 2) /\ Len(r.path) < 4
    BY <1>1, <1>3, <1>4, <1>6, <1>7, <2>2
  <2>3. CASE ~(Len(r.path) < 2) /\ ~(Len(r.path) < 4)
    <3>1. u[2] = f[7] /\ u[4] = f[9] /\ ~(Len(u) < 2) /\ ~(Len(u) < 4)
      BY <1>1, <1>4, <1>7, <2>3
    <3> QED BY <1>3, <1>6, <2>3, <3>1
  <2> QED BY <2>1, <2>2, <2>3
<1> QED BY <1>2, <1>3, <1>8, <1>c DEF InnerServed, AnsweredInSession, ServedAs

\* The objects a route binds, under the SDK's names.
Named(h) == [n \in DOMAIN h.args |-> IF h.args[n] = "-" THEN "." ELSE h.args[n]]

\* The objects a handler names, the root repository being sent as "-".
LEMMA NamedIs ==
  ASSUME NEW h, NEW a, NEW b
  PROVE  /\ h.args = <<>> => Named(h) = <<>>
         /\ h.args = <<a>> /\ a # "-" => Named(h) = <<a>>
         /\ h.args = <<a, b>> /\ a # "-" => Named(h) = <<a, IF b = "-" THEN "." ELSE b>>
<1>1. ASSUME h.args = <<>> PROVE Named(h) = <<>>
  BY <1>1 DEF Named
<1>2. ASSUME h.args = <<a>>, a # "-" PROVE Named(h) = <<a>>
  BY <1>2 DEF Named
<1>3. ASSUME h.args = <<a, b>>, a # "-" PROVE Named(h) = <<a, IF b = "-" THEN "." ELSE b>>
  <2> DEFINE c == IF b = "-" THEN "." ELSE b
  <2>1. Named(h) = [n \in 1..2 |-> IF <<a, b>>[n] = "-" THEN "." ELSE <<a, b>>[n]]
    BY <1>3 DEF Named
  <2>2. Named(h) = [n \in 1..2 |-> IF n = 1 THEN a ELSE c]
    BY <1>3, <2>1
  <2> HIDE DEF c
  <2>3. Named(h) = <<a, c>>
    BY <2>2
  <2> QED BY <2>3 DEF c
<1> QED BY <1>1, <1>2, <1>3

\* The objects a call means, by the length of its route.
LEMMA MeantIs ==
  ASSUME NEW name, NEW r, CallFits(Calls[name], r), NEW args \in Name \X Name
  PROVE  Meant(name, args) = IF Len(r.path) < 2 THEN <<>>
                             ELSE IF Len(r.path) < 4 THEN <<args[1]>> ELSE <<args[1], args[2]>>
<1> DEFINE p == Calls[name].path
           g == [n \in DOMAIN p |-> IF p[n] = "$1" THEN args[1] ELSE args[2]]
           P == {n \in DOMAIN p : p[n] \in {"$1", "$2", "$repo"}}
<1>1. Meant(name, args) = Picked(g, P)
  BY DEF Meant
<1>2. /\ r \in SessionRange /\ p \in Seq(Segments) /\ Len(p) = 5 + Len(r.path)
      /\ p[1] = "v1" /\ p[2] = "instances" /\ p[3] = "runtime" /\ p[4] = "sessions" /\ p[5] = "s"
      /\ \A n \in 1..Len(r.path) : n \notin {2, 4} => p[5 + n] = r.path[n]
      /\ Len(r.path) > 1 => p[7] = "$1"
      /\ Len(r.path) > 3 => p[9] \in {"$2", "$repo"}
  BY DEF CallFits, InSessions
<1>3. Len(r.path) \in 0..7
  BY <1>2, RouteFacts
<1> HIDE DEF p
<1>4. DOMAIN p = 1..Len(p) /\ Len(p) \in Nat
  BY <1>2
<1>5. args[1] \in Name /\ args[2] \in Name
  OBVIOUS
<1>6. g \in Seq(Name) /\ Len(g) = Len(p) /\ \A n \in 1..Len(p) : g[n] = IF p[n] = "$1" THEN args[1] ELSE args[2]
  BY <1>4, <1>5
<1>7. ASSUME NEW n \in 1..Len(p) PROVE n \in P <=> n \in {7, 9}
  <2>1. n \in P <=> p[n] \in {"$1", "$2", "$repo"}
    BY <1>4
  <2>2. n \in 1..5 => p[n] \notin {"$1", "$2", "$repo"}
    BY <1>2
  <2>3. n = 7 \/ n = 9 => p[n] \in {"$1", "$2", "$repo"}
    BY <1>2, <1>3
  <2>4. ASSUME n \notin 1..5, n \notin {7, 9} PROVE p[n] \notin {"$1", "$2", "$repo"}
    <3>1. PICK m \in 1..Len(r.path) : m = n - 5
      BY <1>2, <1>3, <2>4
    <3>2. n = 5 + m /\ m \notin {2, 4}
      BY <1>2, <1>3, <2>4, <3>1
    <3>3. p[n] = r.path[m] /\ r.path[m] \notin Holes
      BY <1>2, <3>2, RouteWords
    <3> QED BY <3>3 DEF Holes
  <2> QED BY <2>1, <2>2, <2>3, <2>4
<1> HIDE DEF g, P
<1>8. Picked(g, P) = IF Len(g) < 7 THEN <<>> ELSE IF Len(g) < 9 THEN <<g[7]>> ELSE <<g[7], g[9]>>
  <2>1. 7 \in Nat /\ 9 \in Nat /\ 0 < 7 /\ 7 < 9 /\ \A n \in 1..Len(g) : n \in P <=> n \in {7, 9}
    BY <1>6, <1>7
  <2> QED BY <1>6, <2>1, PickedPair
<1>9. CASE Len(r.path) < 2
  BY <1>1, <1>2, <1>3, <1>6, <1>8, <1>9
<1>10. CASE ~(Len(r.path) < 2) /\ Len(r.path) < 4
  <2>1. g[7] = args[1] /\ ~(Len(g) < 7) /\ Len(g) < 9
    BY <1>2, <1>3, <1>6, <1>10
  <2> QED BY <1>1, <1>8, <1>10, <2>1
<1>11. CASE ~(Len(r.path) < 2) /\ ~(Len(r.path) < 4)
  <2>1. g[7] = args[1] /\ g[9] = args[2] /\ ~(Len(g) < 7) /\ ~(Len(g) < 9)
    <3>1. 7 \in 1..Len(p) /\ 9 \in 1..Len(p) /\ p[7] = "$1" /\ p[9] # "$1"
      BY <1>2, <1>3, <1>11
    <3>2. ~(Len(g) < 7) /\ ~(Len(g) < 9)
      BY <1>2, <1>3, <1>6, <1>11
    <3> QED BY <1>6, <3>1, <3>2
  <2> QED BY <1>1, <1>8, <1>11, <2>1
<1> QED BY <1>9, <1>10, <1>11

\* Names that leave a path as it is: proper ones, and the root repository's.
Clean(name, args) ==
  \/ Plain(args)
  \/ args[1] \notin Odd /\ args[2] = "." /\ name \in DOMAIN RepoCalls
\* What the broker makes of a call's request.
Request(name, args) == [verb |-> Calls[name].verb, parts |-> Collapsed(Filled(Calls[name].path, args))]
AsMeant(name, args, h) == h.code = "ok" /\ h.op = Calls[name].op /\ Named(h) = Meant(name, args)

\* With names that leave its path as it is, a call on a session is answered as it was
\* meant to those the session belongs to, and as unknown to everybody else.
LEMMA SessionCallAnswered ==
  ASSUME NEW name, NEW r, CallFits(Calls[name], r), NEW args \in Name \X Name, NEW s, Clean(name, args),
         name \in DOMAIN RepoCalls => Calls[name].path[9] = "$repo"
  PROVE  IF s \in {"mine", "shared"} THEN AsMeant(name, args, Handled(Request(name, args), s))
         ELSE Handled(Request(name, args), s) = Refused("unknown_session")
<1> DEFINE c == Calls[name]
           f == Filled(c.path, args)
           h == AnswerTo(c.verb, Collapsed(f), s)
<1>1. /\ Len(r.path) \in 0..7
      /\ Len(r.path) > 1 => f[7] = args[1]
      /\ Len(r.path) > 3 => f[9] = IF c.path[9] = "$repo" /\ args[2] = "." THEN "-" ELSE args[2]
  BY FilledIs
<1> HIDE DEF f
<1>2. args[1] \notin Odd /\ (args[2] \notin Odd \/ (args[2] = "." /\ name \in DOMAIN RepoCalls))
  BY DEF Clean, Plain
<1>3. \A x : x \notin Odd => Proper(x) /\ x # "-"
  BY DEF Odd, Proper
<1>4. Proper("-")
  BY WordsProper
<1>5. Len(r.path) > 1 => Proper(f[7])
  BY <1>1, <1>2, <1>3
<1>6. Len(r.path) > 3 => Proper(f[9]) /\ (IF f[9] = "-" THEN "." ELSE f[9]) = args[2]
  <2>1. CASE args[2] \notin Odd
    <3>1. args[2] # "." /\ args[2] # "-"
      BY <2>1 DEF Odd
    <3> QED BY <1>1, <1>3, <2>1, <3>1
  <2>2. CASE args[2] = "." /\ name \in DOMAIN RepoCalls
    BY <1>1, <1>4, <2>2
  <2> QED BY <1>2, <2>1, <2>2
<1>7. /\ s \in {"mine", "shared"} =>
           h = ServedAs(c, r, f)
      /\ s \notin {"mine", "shared"} => h = Refused("unknown_session")
  <2>1. f = Filled(c.path, args) /\ CallFits(c, r)
    BY DEF f
  <2> HIDE DEF c
  <2>2. ASSUME s \in {"mine", "shared"}
        PROVE  h = ServedAs(c, r, f)
    BY <1>5, <1>6, <2>1, <2>2, ServedAsMeant
  <2>3. ASSUME s \notin {"mine", "shared"} PROVE h = Refused("unknown_session")
    BY <1>5, <1>6, <2>1, <2>3, ServedAsMeant
  <2> QED BY <2>2, <2>3
<1>8. h = Handled(Request(name, args), s)
  BY DEF Request, AnswerTo, f
<1> HIDE DEF h
<1>9. ASSUME s \in {"mine", "shared"} PROVE AsMeant(name, args, h)
  <2>1. /\ h.code = "ok" /\ h.op = c.op
        /\ h.args = IF Len(r.path) < 2 THEN <<>>
                    ELSE IF Len(r.path) < 4 THEN <<f[7]>> ELSE <<f[7], f[9]>>
    BY <1>7, <1>9 DEF ServedAs
  <2>2. Named(h) = IF Len(r.path) < 2 THEN <<>>
                   ELSE IF Len(r.path) < 4 THEN <<args[1]>> ELSE <<args[1], args[2]>>
    <3>1. CASE Len(r.path) < 2
      BY <2>1, <3>1, NamedIs
    <3>2. CASE ~(Len(r.path) < 2) /\ Len(r.path) < 4
      <4>1. f[7] = args[1] /\ args[1] # "-" /\ h.args = <<f[7]>>
        BY <1>1, <1>2, <1>3, <2>1, <3>2
      <4> QED BY <3>2, <4>1, NamedIs
    <3>3. CASE ~(Len(r.path) < 2) /\ ~(Len(r.path) < 4)
      <4>1. f[7] = args[1] /\ args[1] # "-" /\ h.args = <<args[1], f[9]>>
        BY <1>1, <1>2, <1>3, <2>1, <3>3
      <4>2. (IF f[9] = "-" THEN "." ELSE f[9]) = args[2]
        BY <1>1, <1>6, <3>3
      <4>3. Named(h) = <<args[1], IF f[9] = "-" THEN "." ELSE f[9]>>
        BY <4>1, NamedIs
      <4> QED BY <3>3, <4>2, <4>3
    <3> QED BY <3>1, <3>2, <3>3
  <2>3. Meant(name, args) = Named(h)
    BY <2>2, MeantIs
  <2> QED BY <2>1, <2>3 DEF AsMeant
<1> QED BY <1>7, <1>8, <1>9

-----------------------------------------------------------------------------
(* Names that change a path leave its last segment *)

\* The values a fold goes through, one for each prefix.
RunOf(r, N, base, G) == r[0] = base /\ \A k \in 1..N : r[k] = G[<<r[k - 1], k>>]

\* There is such a sequence of values for every fold.
LEMMA RunExists ==
  ASSUME NEW N \in Nat, NEW D, NEW base \in D, NEW G \in [D \X (1..N) -> D]
  PROVE  \E r \in [0..N -> D] : RunOf(r, N, base, G)
<1>1. PICK f \in [SUBSET (1..N) -> D] : FoldedBy(f, N, base, G)
  BY FoldExists
<1> DEFINE r == [k \in 0..N |-> f[1..k]]
<1>2. \A k \in 0..N : 1..k \in SUBSET (1..N)
  OBVIOUS
<1>3. r \in [0..N -> D]
  BY <1>2
<1>4. r[0] = base
  <2>1. 1..0 = {} /\ {} \in SUBSET (1..N) /\ 0 \in 0..N
    OBVIOUS
  <2>2. f[{}] = base
    BY <1>1, <2>1 DEF FoldedBy
  <2> QED BY <2>1, <2>2
<1>5. ASSUME NEW k \in 1..N PROVE r[k] = G[<<r[k - 1], k>>]
  <2>1. 1..k \in SUBSET (1..N) /\ 1..k # {} /\ (1..k) \ {k} = 1..(k - 1) /\ k \in 1..k /\ k \in Nat
    BY PrefixFacts
  <2>2. Max(1..k) = k
    BY <2>1, LastOfPrefix
  <2>3. f[1..k] = G[<<f[(1..k) \ {Max(1..k)}], Max(1..k)>>]
    BY <1>1, <2>1, Zenon DEF FoldedBy
  <2>4. f[1..k] = G[<<f[1..(k - 1)], k>>]
    BY <2>1, <2>2, <2>3
  <2>5. r[k] = f[1..k] /\ r[k - 1] = f[1..(k - 1)]
    OBVIOUS
  <2> QED BY <2>4, <2>5
<1> QED BY <1>3, <1>4, <1>5 DEF RunOf

LastIs(path, seg) == Len(path) > 0 /\ path[Len(path)] = seg

\* What is put at the end is last.
LEMMA AppendLast == ASSUME NEW X, NEW s \in Seq(X), NEW seg \in X
  PROVE Append(s, seg) \in Seq(X) /\ LastIs(Append(s, seg), seg)
<1>1. /\ Append(s, seg) \in Seq(X) /\ Len(Append(s, seg)) = Len(s) + 1
      /\ Append(s, seg)[Len(s) + 1] = seg /\ Len(s) \in Nat
  BY AppendProperties
<1> QED BY <1>1 DEF LastIs

\* A proper last segment stays last when a path is collapsed.
LEMMA DirsLast ==
  ASSUME NEW X, NEW path \in Seq(X), NEW seg, LastIs(path, seg), Proper(seg)
  PROVE  Dirs(path) \in Seq(X) /\ LastIs(Dirs(path), seg)
<1> DEFINE N == Len(path)
           G == [c \in Seq(X) \X (1..N) |-> Entered(c[1], path[c[2]])]
<1>0. N \in Nat /\ DOMAIN path = 1..N /\ \A k \in 1..N : path[k] \in X
  OBVIOUS
<1>1. N > 0 /\ path[N] = seg /\ seg \in X /\ N \in Nat
  BY <1>0 DEF LastIs
<1>2. <<>> \in Seq(X) /\ G \in [Seq(X) \X (1..N) -> Seq(X)]
  BY <1>0, EnteredTyped
<1>3. PICK r \in [0..N -> Seq(X)] : RunOf(r, N, <<>>, G)
  <2> DEFINE D == Seq(X)
             M == N
  <2>1. M \in Nat /\ <<>> \in D /\ G \in [D \X (1..M) -> D]
    BY <1>0, <1>2
  <2> HIDE DEF G, D, M
  <2>2. \E r \in [0..M -> D] : RunOf(r, M, <<>>, G)
    BY <2>1, RunExists
  <2> QED BY <2>2 DEF D, M
<1>4. ASSUME NEW k \in 1..N PROVE r[k] = Entered(r[k - 1], path[k]) /\ r[k - 1] \in Seq(X)
  <2>1. k - 1 \in 0..N
    BY <1>1
  <2>2. r[k - 1] \in Seq(X)
    BY <2>1
  <2> QED BY <1>3, <2>2 DEF RunOf
<1>5. Dirs(path) = r[N]
  BY <1>3, <1>4, DirsRun DEF RunOf
<1>6. r[N] = Entered(r[N - 1], seg) /\ r[N - 1] \in Seq(X)
  BY <1>1, <1>4
<1>7. Entered(r[N - 1], seg) = Append(r[N - 1], seg)
  BY DEF Entered, Proper
<1> QED BY <1>1, <1>5, <1>6, <1>7, AppendLast

\* The last element stays last when it is among those picked.
LEMMA PickedLast ==
  ASSUME NEW X, NEW s \in Seq(X), NEW seg, LastIs(s, seg), NEW P, Len(s) \in P
  PROVE  Picked(s, P) \in Seq(X) /\ LastIs(Picked(s, P), seg)
<1> DEFINE N == Len(s)
           G == [c \in Seq(X) \X (1..N) |-> Kept(c[1], s, P, c[2])]
<1>0. N \in Nat /\ DOMAIN s = 1..N /\ \A k \in 1..N : s[k] \in X
  OBVIOUS
<1>1. N > 0 /\ s[N] = seg /\ seg \in X /\ N \in Nat
  BY <1>0 DEF LastIs
<1>2. <<>> \in Seq(X) /\ G \in [Seq(X) \X (1..N) -> Seq(X)]
  BY <1>0 DEF Kept
<1>3. PICK r \in [0..N -> Seq(X)] : RunOf(r, N, <<>>, G)
  <2> DEFINE D == Seq(X)
             M == N
  <2>1. M \in Nat /\ <<>> \in D /\ G \in [D \X (1..M) -> D]
    BY <1>0, <1>2
  <2> HIDE DEF G, D, M
  <2>2. \E r \in [0..M -> D] : RunOf(r, M, <<>>, G)
    BY <2>1, RunExists
  <2> QED BY <2>2 DEF D, M
<1>4. ASSUME NEW k \in 1..N PROVE r[k] = Kept(r[k - 1], s, P, k) /\ r[k - 1] \in Seq(X)
  <2>1. k - 1 \in 0..N
    BY <1>1
  <2>2. r[k - 1] \in Seq(X)
    BY <2>1
  <2> QED BY <1>3, <2>2 DEF RunOf
<1>5. Picked(s, P) = r[N]
  BY <1>3, <1>4, PickedRun DEF RunOf
<1>6. r[N] = Kept(r[N - 1], s, P, N) /\ r[N - 1] \in Seq(X)
  BY <1>1, <1>4
<1>7. Kept(r[N - 1], s, P, N) = Append(r[N - 1], seg)
  BY <1>1 DEF Kept
<1> QED BY <1>1, <1>5, <1>6, <1>7, AppendLast

\* Whatever names come before it, a path's last segment stays its last.
LEMMA LastStays ==
  ASSUME NEW X, NEW path \in Seq(X), NEW seg, LastIs(path, seg), Proper(seg)
  PROVE  Collapsed(path) \in Seq(X) /\ LastIs(Collapsed(path), seg)
<1> DEFINE d == Dirs(path)
           P == NonEmpty(d)
<1>1. d \in Seq(X) /\ LastIs(d, seg)
  BY DirsLast
<1> HIDE DEF d
<1>2. Len(d) \in P
  <2>1. Len(d) \in DOMAIN d /\ d[Len(d)] = seg
    BY <1>1 DEF LastIs
  <2> QED BY <2>1 DEF NonEmpty, Proper
<1>3. Collapsed(path) = Picked(d, P)
  BY CollapsedIs DEF d
<1> HIDE DEF P
<1> QED BY <1>1, <1>2, <1>3, PickedLast

\* The words the deadlines of the SDK depend on, and the operations they name.
Polls == {<<"wait", "agent.wait">>, <<"ask", "agent.ask">>, <<"spec-bundles", "spec.drive">>, <<"plan", "spec.plan">>}

\* A path without its version ends as it did.
LEMMA UnversionedLast ==
  ASSUME NEW X, NEW parts \in Seq(X), NEW seg, LastIs(parts, seg), seg # "v1"
  PROVE  Unversioned(parts) \in Seq(X) /\ LastIs(Unversioned(parts), seg)
<1>1. CASE parts # <<>> /\ parts[1] = "v1"
  <2> DEFINE p == Tail(parts)
  <2>1. Len(parts) \in Nat /\ Len(parts) > 1
    BY <1>1 DEF LastIs
  <2>2. Unversioned(parts) = p
    BY <1>1 DEF Unversioned
  <2>3. /\ p \in Seq(X) /\ Len(p) = Len(parts) - 1 /\ \A n \in 1..Len(p) : p[n] = parts[n + 1]
    BY <1>1, HeadTailProperties
  <2> HIDE DEF p
  <2>4. Len(p) > 0 /\ p[Len(p)] = parts[Len(parts)]
    <3>1. Len(p) \in 1..Len(p) /\ Len(p) + 1 = Len(parts)
      BY <2>1, <2>3
    <3> QED BY <2>3, <3>1
  <2> QED BY <2>2, <2>3, <2>4 DEF LastIs
<1>2. CASE ~(parts # <<>> /\ parts[1] = "v1")
  BY <1>2, Zenon DEF Unversioned
<1> QED BY <1>1, <1>2

\* A route of a session that takes a POST with this last segment.
LEMMA RouteOfLast ==
  ASSUME NEW r \in SessionRange, r.verb = "POST", NEW v \in Seq(Sent), Fits(r.path, v),
         NEW seg \in {"wait", "ask", "spec-bundles", "plan"}, Len(v) > 0 => LastIs(v, seg)
  PROVE  r.op \in {"context.set", "agent.slash"} \/ <<seg, r.op>> \in Polls
<1> DEFINE n == Len(v)
<1>1. Shape(r) /\ Len(r.path) = n /\ n \in 0..7 /\ (n > 0 /\ n \notin {2, 4} => r.path[n] = seg)
  <2>1. n \in Nat
    OBVIOUS
  <2>2. Shape(r) /\ Len(r.path) \in 0..7
    BY RouteFacts
  <2>3. Len(r.path) = n /\ \A k \in 1..n : k \notin {2, 4} => r.path[k] = v[k]
    BY FitsIs
  <2>4. n > 0 => n \in 1..n /\ v[n] = seg
    BY <2>1 DEF LastIs
  <2> QED BY <2>2, <2>3, <2>4
<1> HIDE DEF n
<1>2. n \notin {0, 1, 2}
  BY <1>1 DEF Shape
<1>3. CASE n = 3
  BY <1>1, <1>3 DEF Shape, Polls
<1>4. CASE n = 4
  BY <1>1, <1>4 DEF Shape
<1>5. CASE n = 5
  BY <1>1, <1>5 DEF Shape, Polls
<1>6. n \notin {6, 7}
  BY <1>1 DEF Shape, GitVerbs
<1> QED BY <1>1, <1>2, <1>3, <1>4, <1>5, <1>6

\* What is behind the first two segments ends as the whole does.
LEMMA AfterTwo ==
  ASSUME NEW f \in Seq(Sent), Len(f) >= 2, NEW u, u = SubSeq(f, 3, Len(f)), NEW seg, LastIs(f, seg)
  PROVE  u \in Seq(Sent) /\ Len(u) = Len(f) - 2 /\ (Len(u) > 0 => LastIs(u, seg))
<1> DEFINE k == 2
<1>1. k \in Nat /\ k < Len(f) + 1 /\ u = SubSeq(f, k + 1, Len(f))
  OBVIOUS
<1>2. u \in Seq(Sent) /\ Len(u) = Len(f) - 2 /\ \A n \in 1..Len(u) : u[n] = f[2 + n]
  <2> HIDE DEF k
  <2>1. u \in Seq(Sent) /\ Len(u) = Len(f) - k /\ \A n \in 1..Len(u) : u[n] = f[k + n]
    BY <1>1, Rest
  <2> QED BY <2>1 DEF k
<1>3. ASSUME Len(u) > 0 PROVE u[Len(u)] = seg
  <2>1. Len(u) \in 1..Len(u) /\ 2 + Len(u) = Len(f)
    BY <1>2, <1>3
  <2>2. u[Len(u)] = f[2 + Len(u)]
    BY <1>2, <2>1
  <2> QED BY <2>1, <2>2 DEF LastIs
<1> QED BY <1>2, <1>3 DEF LastIs

\* Whatever names such a POST gives, it is served as what its last segment says, or by
\* an operation the broker waits 16 s for.
LEMMA ServedByLast ==
  ASSUME NEW parts \in Seq(Sent), NEW s, NEW seg \in {"wait", "ask", "spec-bundles", "plan"},
         LastIs(parts, seg), NEW h, h = AnswerTo("POST", parts, s), h.code = "ok"
  PROVE  h.op \in {"context.set", "agent.slash"} \/ <<seg, h.op>> \in Polls
<1> DEFINE p == Unversioned(parts)
           rest == SubSeq(p, 3, Len(p))
           within == WithinSession("POST", rest, s)
<1>1. p \in Seq(Sent) /\ LastIs(p, seg)
  BY UnversionedLast
<1>2. h = Routed("POST", p, s)
  BY DEF AnswerTo, Handled
<1> HIDE DEF p
<1>3. Len(p) \in Nat /\ Len(p) > 0 /\ p # <<>> /\ p[Len(p)] = seg
  BY <1>1 DEF LastIs
<1>4. \A code : code # "ok" => h # Refused(code)
  BY DEF Refused
<1>5. /\ Len(p) >= 2 /\ h = OuterServed("POST", rest, s)
  <2>1. ~(p[1] = "auth" /\ Len(p) = 1)
    BY <1>3
  <2>2. h # Refused("unknown_instance")
    BY <1>4
  <2>3. Routed("POST", p, s) =
          IF p[1] # "instances" THEN Refused("unknown_instance")
          ELSE IF Len(p) < 2 \/ p[2] # "runtime" THEN Refused("unknown_instance")
          ELSE OuterServed("POST", rest, s)
    BY <1>3, <2>1 DEF Routed, OuterServed, WithinSession
  <2> QED BY <1>2, <1>3, <2>2, <2>3
<1>6. rest \in Seq(Sent) /\ (Len(rest) > 0 => LastIs(rest, seg))
  <2>1. rest = SubSeq(p, 3, Len(p))
    OBVIOUS
  <2> HIDE DEF rest
  <2> QED BY <1>1, <1>5, <2>1, AfterTwo
<1> HIDE DEF rest
<1>7. h = within
  <2>1. ASSUME NEW r \in OuterRange, r.verb = "POST", Fits(r.path, rest) PROVE FALSE
    <3>1. Len(rest) = 1 /\ rest[1] = "env"
      BY <2>1, OuterFits, OuterRouteFacts
    <3>2. LastIs(rest, seg)
      BY <1>6, <3>1
    <3> QED BY <3>1, <3>2 DEF LastIs
  <2> DEFINE routes == EnvRoutes \o ModelRoutes
  <2>2. routes \in Seq(OuterRange) /\ Range(routes) = OuterRange
    BY OuterRoutesJoined
  <2>3. OuterServed("POST", rest, s) = Matched(routes, "POST", rest, within)
    BY DEF OuterServed
  <2> HIDE DEF routes, within
  <2>4. Matched(routes, "POST", rest, within) = within
    BY <2>1, <2>2, MatchedSome
  <2> QED BY <1>5, <2>3, <2>4
<1> DEFINE v == SubSeq(rest, 3, Len(rest))
<1>8. Len(rest) >= 2 /\ h = InnerServed("POST", v)
  <2>1. h # Refused("unknown_session")
    BY <1>4
  <2> QED BY <1>7, <2>1 DEF WithinSession, InnerServed
<1>9. v \in Seq(Sent) /\ (Len(v) > 0 => LastIs(v, seg))
  <2>1. v = SubSeq(rest, 3, Len(rest))
    OBVIOUS
  <2>2. LastIs(rest, seg)
    BY <1>6, <1>8
  <2> HIDE DEF v
  <2> QED BY <1>6, <1>8, <2>1, <2>2, AfterTwo
<1> HIDE DEF v
<1>11. PICK r \in SessionRange : r.verb = "POST" /\ Fits(r.path, v) /\ h.op = r.op
  <2> DEFINE routes == InSession
             else == Refused("bad_request")
  <2>1. routes \in Seq(SessionRange) /\ Range(routes) = SessionRange
    BY SessionRoutesJoined
  <2>2. h = Matched(routes, "POST", v, else) /\ h # else
    BY <1>4, <1>8 DEF InnerServed
  <2> HIDE DEF routes, else
  <2>3. \E r \in Range(routes) : /\ r.verb = "POST" /\ Fits(r.path, v)
                                 /\ Matched(routes, "POST", v, else) = [code |-> "ok", op |-> r.op, args |-> Bound(r.path, v)]
    BY <2>1, <2>2, MatchedSome
  <2> QED BY <2>1, <2>2, <2>3
<1> QED BY <1>9, <1>11, RouteOfLast

-----------------------------------------------------------------------------
(* A call that names no session *)

\* A call's path that names no session: words, and at most one name, at its end.
OuterPath(p) ==
  /\ p \in Seq(Segments) /\ Len(p) \in 1..5
  /\ \A n \in 1..Len(p) : IF n = 5 THEN p[n] = "$1" ELSE p[n] \in Words

\* The request of such a call, before it is made into a URL.
LEMMA FilledOuter ==
  ASSUME NEW p, OuterPath(p), NEW args \in Name \X Name, NEW f, f = Filled(p, args)
  PROVE  /\ f \in Seq(Sent) /\ Len(f) = Len(p)
         /\ \A n \in 1..Len(p) : f[n] = IF n = 5 THEN args[1] ELSE p[n]
<1>1. /\ p \in Seq(Segments) /\ Len(p) \in 1..5
      /\ \A n \in 1..Len(p) : IF n = 5 THEN p[n] = "$1" ELSE p[n] \in Words
  BY DEF OuterPath
<1>2. args[1] \in Name
  OBVIOUS
<1>3. DOMAIN f = 1..Len(p) /\ DOMAIN p = 1..Len(p)
  BY <1>1 DEF Filled
<1>4. ASSUME NEW n \in 1..Len(p) PROVE f[n] = (IF n = 5 THEN args[1] ELSE p[n]) /\ f[n] \in Sent
  <2>1. f[n] = CASE p[n] = "$1" -> args[1]
                 [] p[n] = "$2" -> args[2]
                 [] p[n] = "$repo" -> IF args[2] = "." THEN "-" ELSE args[2]
                 [] OTHER -> p[n]
    BY <1>3 DEF Filled
  <2>2. CASE n = 5
    <3>1. p[n] = "$1"
      BY <1>1, <2>2
    <3> QED BY <1>2, <2>1, <2>2, <3>1 DEF Sent
  <2>3. CASE n # 5
    <3>1. p[n] \in Words /\ p[n] \notin Holes
      BY <1>1, <2>3, WordsProper
    <3>2. p[n] # "$1" /\ p[n] # "$2" /\ p[n] # "$repo"
      BY <3>1 DEF Holes
    <3> QED BY <2>1, <2>3, <3>1, <3>2 DEF Sent, Segments
  <2> QED BY <2>2, <2>3
<1>5. f \in Seq(Sent) /\ Len(f) = Len(p)
  <2>1. f = [n \in 1..Len(p) |-> f[n]]
    BY <1>3 DEF Filled
  <2> QED BY <1>1, <1>3, <1>4, <2>1
<1> QED BY <1>4, <1>5

\* With a proper name it is sent as it was put together.
LEMMA OuterWhole ==
  ASSUME NEW p, OuterPath(p), NEW args \in Name \X Name, NEW f, f = Filled(p, args), Proper(args[1])
  PROVE  Collapsed(f) = f
<1>1. /\ f \in Seq(Sent) /\ Len(f) = Len(p)
      /\ \A n \in 1..Len(p) : f[n] = IF n = 5 THEN args[1] ELSE p[n]
  BY FilledOuter
<1>2. ASSUME NEW n \in 1..Len(f) PROVE Proper(f[n])
  <2>1. n # 5 => f[n] \in Words
    BY <1>1 DEF OuterPath
  <2>2. n = 5 => f[n] = args[1]
    BY <1>1
  <2> QED BY <2>1, <2>2, WordsProper
<1> QED BY <1>1, <1>2, CollapsedProper DEF Proper

\* The objects it means.
LEMMA OuterMeant ==
  ASSUME NEW name, NEW args \in Name \X Name, OuterPath(Calls[name].path)
  PROVE  Meant(name, args) = IF Len(Calls[name].path) < 5 THEN <<>> ELSE <<args[1]>>
<1> DEFINE p == Calls[name].path
           g == [n \in DOMAIN p |-> IF p[n] = "$1" THEN args[1] ELSE args[2]]
           P == {n \in DOMAIN p : p[n] \in {"$1", "$2", "$repo"}}
<1>1. Meant(name, args) = Picked(g, P)
  BY DEF Meant
<1>2. /\ p \in Seq(Segments) /\ Len(p) \in 1..5
      /\ \A n \in 1..Len(p) : IF n = 5 THEN p[n] = "$1" ELSE p[n] \in Words
  BY DEF OuterPath
<1> HIDE DEF p
<1>3. DOMAIN p = 1..Len(p) /\ Len(p) \in Nat /\ args[1] \in Name /\ args[2] \in Name
  BY <1>2
<1>4. g \in Seq(Name) /\ Len(g) = Len(p) /\ \A n \in 1..Len(p) : g[n] = IF p[n] = "$1" THEN args[1] ELSE args[2]
  BY <1>3
<1>5. ASSUME NEW n \in 1..Len(p) PROVE n \in P <=> n \in {5, 6}
  <2>1. n \in P <=> p[n] \in {"$1", "$2", "$repo"}
    BY <1>3
  <2>2. n # 5 => p[n] \in Words /\ p[n] \notin Holes
    BY <1>2, WordsProper
  <2> QED BY <1>2, <2>1, <2>2 DEF Holes
<1> HIDE DEF g, P
<1>6. Picked(g, P) = IF Len(g) < 5 THEN <<>> ELSE IF Len(g) < 6 THEN <<g[5]>> ELSE <<g[5], g[6]>>
  <2>1. 5 \in Nat /\ 6 \in Nat /\ 0 < 5 /\ 5 < 6 /\ \A n \in 1..Len(g) : n \in P <=> n \in {5, 6}
    BY <1>4, <1>5
  <2> QED BY <1>4, <2>1, PickedPair
<1>7. CASE Len(p) < 5
  BY <1>1, <1>4, <1>6, <1>7 DEF p
<1>8. CASE ~(Len(p) < 5)
  <2>1. g[5] = args[1] /\ ~(Len(g) < 5) /\ Len(g) < 6
    BY <1>2, <1>4, <1>8
  <2> QED BY <1>1, <1>6, <1>8, <2>1 DEF p
<1> QED BY <1>7, <1>8

\* A request that fits a route of an instance is served by it.
Serves(q, u) == Len(q.path) = Len(u) /\ q.path[1] = u[1]

LEMMA MatchedOuter ==
  ASSUME NEW q \in OuterRange, NEW u \in Seq(Sent), NEW else, Serves(q, u)
  PROVE  Matched(EnvRoutes \o ModelRoutes, q.verb, u, else)
           = [code |-> "ok", op |-> q.op, args |-> IF Len(u) < 2 THEN <<>> ELSE <<u[2]>>]
<1> DEFINE routes == EnvRoutes \o ModelRoutes
<1>1. routes \in Seq(OuterRange) /\ Range(routes) = OuterRange
  BY OuterRoutesJoined
<1>2. Fits(q.path, u)
  BY OuterFits DEF Serves
<1> HIDE DEF routes
<1>3. PICK r \in OuterRange :
        /\ r.verb = q.verb /\ Fits(r.path, u)
        /\ Matched(routes, q.verb, u, else) = [code |-> "ok", op |-> r.op, args |-> Bound(r.path, u)]
  <2> DEFINE verb == q.verb
  <2>1. q.verb = verb
    OBVIOUS
  <2> HIDE DEF verb
  <2>2. \E r \in Range(routes) : /\ r.verb = verb /\ Fits(r.path, u)
                                 /\ Matched(routes, verb, u, else) = [code |-> "ok", op |-> r.op, args |-> Bound(r.path, u)]
    BY <1>1, <1>2, <2>1, MatchedSome
  <2> QED BY <1>1, <2>1, <2>2
<1>4. Len(r.path) = Len(u) /\ r.path[1] = u[1]
  BY <1>3, OuterFits
<1>5. r.op = q.op
  BY <1>3, <1>4, OuterRouteFacts DEF Serves
<1>6. Bound(r.path, u) = IF Len(u) < 2 THEN <<>> ELSE <<u[2]>>
  <2> DEFINE P == {n \in DOMAIN r.path : r.path[n] = "*"}
  <2>0. Len(u) = 1 \/ Len(u) = 2
    BY <1>4, OuterRouteFacts
  <2>1. \A n \in 1..Len(u) : n \in P <=> n \in {2, 3}
    <3>1. DOMAIN r.path = 1..Len(u)
      <4>1. r \in {EnvRoutes[1], EnvRoutes[2], EnvRoutes[3], ModelRoutes[1]}
        BY <1>3 DEF OuterRange, EnvRoutes, ModelRoutes, Range
      <4>2. DOMAIN r.path = 1..Len(r.path)
        BY <4>1 DEF EnvRoutes, ModelRoutes, R
      <4> QED BY <1>4, <4>2
    <3> QED BY <1>4, <2>0, <3>1, OuterRouteFacts
  <2>2. Bound(r.path, u) = Picked(u, P)
    BY DEF Bound
  <2> HIDE DEF P
  <2>3. Picked(u, P) = IF Len(u) < 2 THEN <<>> ELSE IF Len(u) < 3 THEN <<u[2]>> ELSE <<u[2], u[3]>>
    <3>1. 2 \in Nat /\ 3 \in Nat /\ 0 < 2 /\ 2 < 3
      OBVIOUS
    <3> QED BY <2>1, <3>1, PickedPair
  <2>4. Len(u) < 3
    <3>1. \A n : n = 1 \/ n = 2 => n < 3
      OBVIOUS
    <3> QED BY <2>0, <3>1, Zenon
  <2> QED BY <2>2, <2>3, <2>4
<1> QED BY <1>3, <1>5, <1>6 DEF routes

\* A path about the instance, and what it goes on with.
OnInstance(p) ==
  OuterPath(p) /\ Len(p) >= 3 /\ p[1] = "v1" /\ p[2] = "instances" /\ p[3] = "runtime"

LEMMA InstanceIs ==
  /\ Instance \in Seq(Segments) /\ Len(Instance) = 3
  /\ Instance[1] = "v1" /\ Instance[2] = "instances" /\ Instance[3] = "runtime" /\ OnInstance(Instance)
<1> DEFINE i == Instance
<1>1. /\ i \in Seq(Segments) /\ Len(i) = 3 /\ i[1] = "v1" /\ i[2] = "instances" /\ i[3] = "runtime"
  BY DEF Instance, Segments, Words
<1> HIDE DEF i
<1>2. OnInstance(i)
  <2>1. \A n \in 1..Len(i) : n # 5 /\ i[n] \in Words
    BY <1>1 DEF Words
  <2> QED BY <1>1, <2>1 DEF OuterPath, OnInstance
<1> QED BY <1>1, <1>2 DEF i

LEMMA InstanceJoined ==
  ASSUME NEW q \in Seq(Segments), Len(q) \in 1..2, q[1] \in Words, Len(q) > 1 => q[2] = "$1"
  PROVE  OnInstance(Instance \o q) /\ Len(Instance \o q) = 3 + Len(q) /\ (Instance \o q)[4] = q[1]
<1> DEFINE i == Instance
           j == i \o q
<1>1. /\ i \in Seq(Segments) /\ Len(i) = 3 /\ i[1] = "v1" /\ i[2] = "instances" /\ i[3] = "runtime"
  BY InstanceIs
<1> HIDE DEF i
<1>2. /\ j \in Seq(Segments) /\ Len(j) = Len(i) + Len(q)
      /\ \A n \in 1..(Len(i) + Len(q)) : j[n] = IF n <= Len(i) THEN i[n] ELSE q[n - Len(i)]
  BY <1>1, ConcatProperties
<1> HIDE DEF j
<1>3. Len(j) = 3 + Len(q) /\ \A n \in 1..(3 + Len(q)) : j[n] = IF n <= 3 THEN i[n] ELSE q[n - 3]
  BY <1>1, <1>2
<1> DEFINE M == Len(q)
           J == Len(j)
<1>4. M \in 1..2 /\ J = 3 + M /\ (M > 1 => q[2] = "$1") /\ q[1] \in Words
  BY <1>3
<1>5. \A n \in 1..J : j[n] = IF n <= 3 THEN i[n] ELSE q[n - 3]
  BY <1>3
<1> HIDE DEF M, J
<1>6. J \in 4..5 /\ j[1] = "v1" /\ j[2] = "instances" /\ j[3] = "runtime" /\ j[4] = q[1]
  BY <1>1, <1>4, <1>5
<1>7. J = 5 => j[5] = "$1"
  BY <1>4, <1>5
<1>8. ASSUME NEW n \in 1..J PROVE IF n = 5 THEN j[n] = "$1" ELSE j[n] \in Words
  <2>1. n \in 1..5 /\ (n = 5 => J = 5)
    BY <1>6
  <2>2. n = 1 \/ n = 2 \/ n = 3 => j[n] \in Words
    BY <1>6 DEF Words
  <2> QED BY <1>4, <1>6, <1>7, <2>1, <2>2
<1>9. J \in 1..5 /\ J >= 3
  BY <1>6
<1>10. OnInstance(j)
  BY <1>2, <1>6, <1>8, <1>9 DEF OuterPath, OnInstance, J
<1> QED BY <1>3, <1>6, <1>10 DEF i, j

LEMMA JoinedWord ==
  ASSUME NEW w \in Words
  PROVE  OnInstance(Instance \o <<w>>) /\ Len(Instance \o <<w>>) = 4 /\ (Instance \o <<w>>)[4] = w
<1> DEFINE q == <<w>>
<1>1. q \in Seq(Segments) /\ Len(q) = 1 /\ q[1] = w
  BY DEF Segments
<1> HIDE DEF q
<1>2. OnInstance(Instance \o q) /\ Len(Instance \o q) = 3 + Len(q) /\ (Instance \o q)[4] = q[1]
  <2>1. Len(q) \in 1..2 /\ (Len(q) > 1 => q[2] = "$1")
    BY <1>1
  <2> QED BY <1>1, <2>1, InstanceJoined
<1> QED BY <1>1, <1>2 DEF q

\* The calls on the instance, each with the route that serves it; the overview of
\* the instance and that of its sessions have none.
OuterCall(c, r) ==
  /\ OnInstance(c.path) /\ c.verb = r.verb /\ c.op = r.op
  /\ Len(c.path) = 3 + Len(r.path) /\ c.path[4] = r.path[1]

LEMMA InstanceCallsServed ==
  ASSUME NEW name \in DOMAIN InstanceCalls, NEW c, c = InstanceCalls[name]
  PROVE  /\ name \notin {"detail", "sessions"} => \E r \in OuterRange : OuterCall(c, r)
         /\ name = "detail" => c.verb = "GET" /\ c.op = "detail" /\ c.path = Instance
         /\ name = "sessions" => c.verb = "GET" /\ c.op = "sessions" /\ c.path = Instance \o <<"sessions">>
<1>1. name \in {"detail", "sessions", "models", "envSet", "envList", "envDelete"}
  BY Domains
<1>2. /\ EnvRoutes[1] \in OuterRange /\ EnvRoutes[2] \in OuterRange /\ EnvRoutes[3] \in OuterRange
      /\ ModelRoutes[1] \in OuterRange
  BY DEF OuterRange, EnvRoutes, ModelRoutes, Range
<1>3. CASE name = "models"
  <2>1. c.verb = "GET" /\ c.op = "models.list" /\ c.path = Instance \o <<"models">>
    BY <1>3 DEF InstanceCalls, S
  <2>2. ModelRoutes[1].verb = "GET" /\ ModelRoutes[1].op = "models.list" /\ Len(ModelRoutes[1].path) = 1
        /\ ModelRoutes[1].path[1] = "models"
    BY DEF ModelRoutes, R
  <2>3. "models" \in Words
    BY DEF Words
  <2>4. OuterCall(c, ModelRoutes[1])
    BY <2>1, <2>2, <2>3, JoinedWord DEF OuterCall
  <2> QED BY <1>2, <1>3, <2>4
<1>4. CASE name = "envSet"
  <2>1. c.verb = "POST" /\ c.op = "env.set" /\ c.path = Instance \o <<"env">>
    BY <1>4 DEF InstanceCalls, S
  <2>2. EnvRoutes[1].verb = "POST" /\ EnvRoutes[1].op = "env.set" /\ Len(EnvRoutes[1].path) = 1
        /\ EnvRoutes[1].path[1] = "env"
    BY DEF EnvRoutes, R
  <2>3. "env" \in Words
    BY DEF Words
  <2>4. OuterCall(c, EnvRoutes[1])
    BY <2>1, <2>2, <2>3, JoinedWord DEF OuterCall
  <2> QED BY <1>2, <1>4, <2>4
<1>5. CASE name = "envList"
  <2>1. c.verb = "GET" /\ c.op = "env.list" /\ c.path = Instance \o <<"env">>
    BY <1>5 DEF InstanceCalls, S
  <2>2. EnvRoutes[2].verb = "GET" /\ EnvRoutes[2].op = "env.list" /\ Len(EnvRoutes[2].path) = 1
        /\ EnvRoutes[2].path[1] = "env"
    BY DEF EnvRoutes, R
  <2>3. "env" \in Words
    BY DEF Words
  <2>4. OuterCall(c, EnvRoutes[2])
    BY <2>1, <2>2, <2>3, JoinedWord DEF OuterCall
  <2> QED BY <1>2, <1>5, <2>4
<1>6. CASE name = "envDelete"
  <2> DEFINE q == <<"env", "$1">>
  <2>1. c.verb = "DELETE" /\ c.op = "env.delete" /\ c.path = Instance \o q
    BY <1>6 DEF InstanceCalls, S
  <2>2. EnvRoutes[3].verb = "DELETE" /\ EnvRoutes[3].op = "env.delete" /\ Len(EnvRoutes[3].path) = 2
        /\ EnvRoutes[3].path[1] = "env"
    BY DEF EnvRoutes, R
  <2>3. q \in Seq(Segments) /\ Len(q) = 2 /\ q[1] = "env" /\ q[1] \in Words /\ q[2] = "$1"
    BY DEF Segments, Words, Holes
  <2> HIDE DEF q
  <2>4. OnInstance(Instance \o q) /\ Len(Instance \o q) = 3 + Len(q) /\ (Instance \o q)[4] = q[1]
    <3>1. Len(q) \in 1..2
      BY <2>3
    <3> QED BY <2>3, <3>1, InstanceJoined
  <2>5. OuterCall(c, EnvRoutes[3])
    BY <2>1, <2>2, <2>3, <2>4 DEF OuterCall
  <2> QED BY <1>2, <1>6, <2>5
<1>7. CASE name = "detail"
  BY <1>7 DEF InstanceCalls, S
<1>8. CASE name = "sessions"
  BY <1>8 DEF InstanceCalls, S
<1> QED BY <1>1, <1>3, <1>4, <1>5, <1>6, <1>7, <1>8

\* A call on the instance is answered by its operation, with the name it gives.
LEMMA InstanceCallAnswered ==
  ASSUME NEW name \in DOMAIN InstanceCalls, NEW c, c = InstanceCalls[name], NEW args \in Name \X Name, NEW s,
         Proper(args[1]), NEW f, f = Filled(c.path, args)
  PROVE  AnswerTo(c.verb, Collapsed(f), s)
           = [code |-> "ok", op |-> c.op, args |-> IF Len(c.path) < 5 THEN <<>> ELSE <<args[1]>>]
         /\ OuterPath(c.path)
<1> DEFINE u == SubSeq(f, 4, Len(f))
<1>1. /\ OnInstance(c.path)
      /\ name \notin {"detail", "sessions"} => \E r \in OuterRange : OuterCall(c, r)
      /\ name = "detail" => c.verb = "GET" /\ c.op = "detail" /\ Len(c.path) = 3
      /\ name = "sessions" => c.verb = "GET" /\ c.op = "sessions" /\ Len(c.path) = 4 /\ c.path[4] = "sessions"
  <2>1. "sessions" \in Words
    BY DEF Words
  <2>2. /\ name \notin {"detail", "sessions"} => \E r \in OuterRange : OuterCall(c, r)
        /\ name = "detail" => c.verb = "GET" /\ c.op = "detail" /\ c.path = Instance
        /\ name = "sessions" => c.verb = "GET" /\ c.op = "sessions" /\ c.path = Instance \o <<"sessions">>
    BY InstanceCallsServed
  <2> QED BY <2>1, <2>2, InstanceIs, JoinedWord DEF OuterCall
<1>2. OuterPath(c.path) /\ Len(c.path) \in 3..5 /\ c.path[1] = "v1" /\ c.path[2] = "instances" /\ c.path[3] = "runtime"
  BY <1>1 DEF OnInstance, OuterPath
<1>3. /\ f \in Seq(Sent) /\ Len(f) = Len(c.path)
      /\ \A n \in 1..Len(c.path) : f[n] = IF n = 5 THEN args[1] ELSE c.path[n]
  BY <1>2, FilledOuter
<1>4. Collapsed(f) = f
  BY <1>2, OuterWhole
<1> DEFINE N == Len(c.path)
           verb == c.verb
<1>a. N \in 3..5 /\ Len(f) = N /\ \A n \in 1..N : f[n] = IF n = 5 THEN args[1] ELSE c.path[n]
  BY <1>2, <1>3
<1> HIDE DEF N, verb
<1>5. /\ N \in 3..5 /\ Len(f) = N /\ Len(f) >= 3 /\ f[1] = "v1" /\ f[2] = "instances" /\ f[3] = "runtime"
      /\ (N > 3 => f[4] = c.path[4]) /\ (N > 4 => f[5] = args[1])
  BY <1>2, <1>a
<1>6. u = SubSeq(f, 4, Len(f))
  OBVIOUS
<1> HIDE DEF u
<1>7. /\ u \in Seq(Sent) /\ Len(u) = Len(f) - 3 /\ \A n \in 1..Len(u) : u[n] = f[3 + n]
  BY <1>3, <1>5, <1>6, HandledOnInstance
<1>8. AnsweredOnInstance(verb, f, u, s)
  BY <1>3, <1>5, <1>6, HandledOnInstance
<1>9. Len(u) = N - 3 /\ (N > 3 => u[1] = c.path[4]) /\ (N > 4 => u[2] = args[1])
  <2>1. N > 3 => u[1] = f[3 + 1]
    BY <1>5, <1>7
  <2>2. N > 4 => u[2] = f[3 + 2]
    BY <1>5, <1>7
  <2> QED BY <1>5, <1>7, <2>1, <2>2
<1>10. AnswerTo(verb, f, s) = [code |-> "ok", op |-> c.op, args |-> IF N < 5 THEN <<>> ELSE <<args[1]>>]
  <2>1. CASE name = "detail"
    <3>1. verb = "GET" /\ c.op = "detail" /\ N = 3
      BY <1>1, <2>1 DEF N, verb
    <3>2. u = <<>>
      BY <1>7, <1>9, <3>1
    <3> QED BY <1>8, <3>1, <3>2 DEF AnsweredOnInstance
  <2>2. CASE name = "sessions"
    <3>1. verb = "GET" /\ c.op = "sessions" /\ N = 4 /\ c.path[4] = "sessions"
      BY <1>1, <2>2 DEF N, verb
    <3>2. Len(u) = 1 /\ u[1] = "sessions"
      BY <1>9, <3>1
    <3>3. u = <<"sessions">>
      BY <1>7, <3>2
    <3> QED BY <1>8, <3>1, <3>3 DEF AnsweredOnInstance
  <2>3. CASE name \notin {"detail", "sessions"}
    <3>1. PICK r \in OuterRange : OuterCall(c, r)
      BY <1>1, <2>3
    <3>2. verb = r.verb /\ c.op = r.op /\ N = 3 + Len(r.path) /\ c.path[4] = r.path[1] /\ Len(r.path) \in 1..2
      BY <3>1, OuterRouteFacts DEF OuterCall, N, verb
    <3>3. Serves(r, u)
      BY <1>9, <3>2 DEF Serves
    <3>4. ~(u \in {<<>>, <<"sessions">>} /\ verb = "GET")
      <4>1. Len(u) # 0 /\ u[1] # "sessions"
        <5>1. r.path[1] # "sessions"
          BY OuterRouteFacts
        <5> QED BY <1>9, <3>2, <5>1
      <4> QED BY <4>1
    <3>5. AnswerTo(verb, f, s) = OuterServed(verb, u, s)
      BY <1>8, <3>4 DEF AnsweredOnInstance
    <3>6. OuterServed(verb, u, s) = [code |-> "ok", op |-> r.op, args |-> IF Len(u) < 2 THEN <<>> ELSE <<u[2]>>]
      BY <1>7, <3>2, <3>3, MatchedOuter DEF OuterServed
    <3>7. CASE N < 5
      <4>1. Len(u) < 2
        BY <1>5, <1>9, <3>7
      <4> QED BY <3>2, <3>5, <3>6, <3>7, <4>1
    <3>8. CASE ~(N < 5)
      <4>1. ~(Len(u) < 2) /\ u[2] = args[1]
        BY <1>5, <1>9, <3>8
      <4> QED BY <3>2, <3>5, <3>6, <3>8, <4>1
    <3> QED BY <3>7, <3>8
  <2> QED BY <2>1, <2>2, <2>3
<1> QED BY <1>2, <1>4, <1>10 DEF N, verb

\* The calls that name no instance.
LEMMA TopCallsAre ==
  ASSUME NEW name \in DOMAIN TopCalls, NEW c, c = TopCalls[name]
  PROVE  /\ c.verb = "GET" /\ c.op = "instances" /\ c.path = <<"instances">>
         \/ /\ <<c.verb, c.op>> \in {<<"POST", "identify">>, <<"DELETE", "signOut">>} /\ c.path = <<"auth">>
<1>1. name \in {"verify", "identify", "signOut"}
  BY Domains
<1>2. CASE name = "verify"
  BY <1>2 DEF TopCalls, S
<1>3. CASE name = "identify"
  BY <1>3 DEF TopCalls, S
<1>4. CASE name = "signOut"
  BY <1>4 DEF TopCalls, S
<1> QED BY <1>1, <1>2, <1>3, <1>4

\* They are answered by their operation, to anybody.
LEMMA TopCallAnswered ==
  ASSUME NEW name \in DOMAIN TopCalls, NEW c, c = TopCalls[name], NEW args \in Name \X Name, NEW s,
         Proper(args[1]), NEW f, f = Filled(c.path, args)
  PROVE  AnswerTo(c.verb, Collapsed(f), s) = [code |-> "ok", op |-> c.op, args |-> <<>>]
         /\ OuterPath(c.path) /\ Len(c.path) = 1
<1> DEFINE p == c.path
           verb == c.verb
           op == c.op
<1>1. \/ verb = "GET" /\ op = "instances" /\ p = <<"instances">>
      \/ <<verb, op>> \in {<<"POST", "identify">>, <<"DELETE", "signOut">>} /\ p = <<"auth">>
  BY TopCallsAre
<1>f. f = Filled(p, args)
  OBVIOUS
<1> HIDE DEF p, verb, op
<1>2. p \in Seq(Segments) /\ Len(p) = 1 /\ p[1] \in {"instances", "auth"}
  BY <1>1 DEF Segments, Words
<1>3. p[1] \in Words /\ Len(p) \in 1..5
  BY <1>2 DEF Words
<1>4. OuterPath(p)
  <2>1. \A n \in 1..Len(p) : n # 5 /\ p[n] \in Words
    BY <1>2, <1>3
  <2> QED BY <1>2, <1>3, <2>1 DEF OuterPath
<1>5. f \in Seq(Sent) /\ Len(f) = 1 /\ f[1] = p[1]
  <2>1. /\ f \in Seq(Sent) /\ Len(f) = Len(p)
        /\ \A n \in 1..Len(p) : f[n] = IF n = 5 THEN args[1] ELSE p[n]
    BY <1>f, <1>4, FilledOuter
  <2> QED BY <1>2, <2>1
<1>6. Collapsed(f) = f
  BY <1>f, <1>4, OuterWhole
<1>7. Unversioned(f) = f /\ f # <<>>
  BY <1>2, <1>5 DEF Unversioned
<1>8. AnswerTo(verb, f, s) = Routed(verb, f, s)
  BY <1>7 DEF AnswerTo, Handled
<1>9. CASE verb = "GET" /\ op = "instances" /\ p = <<"instances">>
  <2>1. f[1] = "instances"
    BY <1>5, <1>9
  <2>2. Routed(verb, f, s) = [code |-> "ok", op |-> "instances", args |-> <<>>]
    BY <1>5, <1>7, <1>9, <2>1 DEF Routed
  <2> QED BY <1>2, <1>4, <1>6, <1>8, <1>9, <2>2 DEF p, verb, op
<1>10. CASE <<verb, op>> \in {<<"POST", "identify">>, <<"DELETE", "signOut">>} /\ p = <<"auth">>
  <2>1. f[1] = "auth" /\ verb \in {"POST", "DELETE"} /\ op = IF verb = "POST" THEN "identify" ELSE "signOut"
    BY <1>5, <1>10
  <2>2. Routed(verb, f, s) = [code |-> "ok", op |-> op, args |-> <<>>]
    <3>1. (IF f = <<>> THEN None ELSE f[1]) = "auth" /\ Len(f) = 1
      BY <1>5, <1>7, <2>1
    <3>2. CASE verb = "POST"
      BY <2>1, <3>1, <3>2 DEF Routed
    <3>3. CASE verb = "DELETE"
      BY <2>1, <3>1, <3>3 DEF Routed
    <3> QED BY <2>1, <3>2, <3>3
  <2> QED BY <1>2, <1>4, <1>6, <1>8, <2>2 DEF p, verb, op
<1> QED BY <1>1, <1>9, <1>10

\* What a call with names that leave its path as it is comes to.
Answered(name, args, s, h) ==
  AsMeant(name, args, h) \/ (h = Refused("unknown_session") /\ s \notin {"mine", "shared"})

OuterName(name) ==
  \/ name \in DOMAIN TopCalls /\ Calls[name] = TopCalls[name]
  \/ name \in DOMAIN InstanceCalls /\ Calls[name] = InstanceCalls[name]

LEMMA OuterCallAnswered ==
  ASSUME NEW name, OuterName(name),
         NEW args \in Name \X Name, NEW s, Clean(name, args)
  PROVE  AsMeant(name, args, Handled(Request(name, args), s))
<1> DEFINE c == Calls[name]
           f == Filled(c.path, args)
           h == AnswerTo(c.verb, Collapsed(f), s)
<1>1. args[1] \notin Odd /\ Proper(args[1]) /\ args[1] # "-"
  BY DEF Clean, Plain, Odd, Proper
<1>2. h = [code |-> "ok", op |-> c.op, args |-> IF Len(c.path) < 5 THEN <<>> ELSE <<args[1]>>] /\ OuterPath(c.path)
  <2>1. ASSUME name \in DOMAIN TopCalls, c = TopCalls[name]
        PROVE  h = [code |-> "ok", op |-> c.op, args |-> <<>>] /\ OuterPath(c.path) /\ Len(c.path) = 1
    <3> DEFINE g == f
    <3>1. g = Filled(c.path, args)
      OBVIOUS
    <3> HIDE DEF c, g
    <3> QED BY <1>1, <2>1, <3>1, TopCallAnswered DEF g
  <2>2. ASSUME name \in DOMAIN InstanceCalls, c = InstanceCalls[name]
        PROVE  h = [code |-> "ok", op |-> c.op, args |-> IF Len(c.path) < 5 THEN <<>> ELSE <<args[1]>>]
               /\ OuterPath(c.path)
    <3> DEFINE g == f
    <3>1. g = Filled(c.path, args)
      OBVIOUS
    <3> HIDE DEF c, g
    <3> QED BY <1>1, <2>2, <3>1, InstanceCallAnswered DEF g
  <2>3. \A n : n = 1 => n < 5
    OBVIOUS
  <2>4. CASE name \in DOMAIN TopCalls /\ c = TopCalls[name]
    <3>1. Len(c.path) < 5
      BY <2>1, <2>3, <2>4, Zenon
    <3> QED BY <2>1, <2>4, <3>1
  <2> QED BY <2>2, <2>4 DEF OuterName
<1>3. h = Handled(Request(name, args), s)
  BY DEF Request, AnswerTo
<1>4. Meant(name, args) = IF Len(c.path) < 5 THEN <<>> ELSE <<args[1]>>
  BY <1>2, OuterMeant
<1> HIDE DEF h
<1>5. Named(h) = Meant(name, args)
  <2>1. CASE Len(c.path) < 5
    <3>1. h.args = <<>>
      BY <1>2, <2>1
    <3> QED BY <1>4, <2>1, <3>1, NamedIs
  <2>2. CASE ~(Len(c.path) < 5)
    <3>1. h.args = <<args[1]>>
      BY <1>2, <2>2
    <3> QED BY <1>1, <1>4, <2>2, <3>1, NamedIs
  <2> QED BY <2>1, <2>2
<1>6. h.code = "ok" /\ h.op = c.op
  BY <1>2
<1> QED BY <1>3, <1>5, <1>6 DEF AsMeant

\* Every call whose names leave its path as it is is answered as it was meant, or, on
\* the session of somebody else, as if there were none.
LEMMA CallAnswered ==
  ASSUME NEW name \in DOMAIN Calls, NEW args \in Name \X Name, NEW s, Clean(name, args)
  PROVE  Answered(name, args, s, Handled(Request(name, args), s))
<1>1. CASE OuterName(name)
  BY <1>1, OuterCallAnswered DEF Answered
<1>2. CASE /\ \E r \in SessionRange : CallFits(Calls[name], r)
           /\ name \in DOMAIN RepoCalls => Calls[name].path[9] = "$repo"
  <2>1. PICK r \in SessionRange : CallFits(Calls[name], r)
    BY <1>2
  <2>2. IF s \in {"mine", "shared"} THEN AsMeant(name, args, Handled(Request(name, args), s))
        ELSE Handled(Request(name, args), s) = Refused("unknown_session")
    BY <1>2, <2>1, SessionCallAnswered
  <2> QED BY <2>2 DEF Answered
<1> QED BY <1>1, <1>2, CallsServed DEF OuterName

-----------------------------------------------------------------------------
(* Who gives up first *)

\* The calls whose deadline the SDK shares with the broker.
LEMMA PollCalls ==
  /\ {"ask", "wait", "spec", "plan", "rpc"} \subseteq DOMAIN Calls
  /\ Calls["ask"].verb = "POST" /\ Calls["ask"].op = "agent.ask"
  /\ Calls["wait"].verb = "POST" /\ Calls["wait"].op = "agent.wait"
  /\ Calls["spec"].verb = "POST" /\ Calls["spec"].op = "spec.drive"
  /\ Calls["plan"].verb = "POST" /\ Calls["plan"].op = "spec.plan"
  /\ Calls["rpc"].verb = "POST" /\ Calls["rpc"].op = "rpc"
  /\ {"ask", "wait", "spec", "plan", "rpc"} \cap (DOMAIN TopCalls \cup DOMAIN InstanceCalls) = {}
<1>1. TurnCalls \in Tables /\ SpecCalls \in Tables /\ SessionCalls \in Tables
  BY DEF Tables
<1>2. {"ask", "wait"} \subseteq DOMAIN TurnCalls /\ {"spec", "plan"} \subseteq DOMAIN SpecCalls
      /\ "rpc" \in DOMAIN SessionCalls
  BY Domains
<1>3. /\ {"ask", "wait", "spec", "plan", "rpc"} \subseteq DOMAIN Calls
      /\ Calls["ask"] = TurnCalls["ask"] /\ Calls["wait"] = TurnCalls["wait"]
      /\ Calls["spec"] = SpecCalls["spec"] /\ Calls["plan"] = SpecCalls["plan"]
      /\ Calls["rpc"] = SessionCalls["rpc"]
  BY <1>1, <1>2, CallsAre
<1>4. /\ TurnCalls["ask"].verb = "POST" /\ TurnCalls["ask"].op = "agent.ask"
      /\ TurnCalls["wait"].verb = "POST" /\ TurnCalls["wait"].op = "agent.wait"
  BY DEF TurnCalls, S
<1>5. /\ SpecCalls["spec"].verb = "POST" /\ SpecCalls["spec"].op = "spec.drive"
      /\ SpecCalls["plan"].verb = "POST" /\ SpecCalls["plan"].op = "spec.plan"
  BY DEF SpecCalls, S
<1>6. SessionCalls["rpc"].verb = "POST" /\ SessionCalls["rpc"].op = "rpc"
  BY DEF SessionCalls, S
<1>7. {"ask", "wait", "spec", "plan", "rpc"} \cap (DOMAIN TopCalls \cup DOMAIN InstanceCalls) = {}
  BY Domains
<1> QED BY <1>3, <1>4, <1>5, <1>6, <1>7

\* Whatever names it gives, such a call is served as itself, or briefly.
LEMMA PollServed ==
  ASSUME NEW name \in {"ask", "wait", "spec", "plan"}, NEW args \in Name \X Name, NEW s,
         NEW h, h = Handled(Request(name, args), s), h.code = "ok"
  PROVE  h.op \in {"context.set", "agent.slash", Calls[name].op}
<1> DEFINE c == Calls[name]
           f == Filled(c.path, args)
<1>1. PICK r \in SessionRange : CallFits(c, r)
  BY PollCalls, CallsServed
<1>2. PICK seg \in {"wait", "ask", "spec-bundles", "plan"} :
        /\ r.verb = "POST" /\ c.verb = "POST" /\ <<seg, c.op>> \in Polls
        /\ Len(r.path) \in {3, 5} /\ r.path[Len(r.path)] = seg
  <2>1. Shape(r) /\ r.verb = c.verb /\ r.op = c.op
    BY <1>1, RouteFacts DEF CallFits
  <2>2. CASE name = "ask"
    BY <2>1, <2>2, PollCalls DEF Shape, Polls, GitVerbs
  <2>3. CASE name = "wait"
    BY <2>1, <2>3, PollCalls DEF Shape, Polls, GitVerbs
  <2>4. CASE name = "spec"
    BY <2>1, <2>4, PollCalls DEF Shape, Polls, GitVerbs
  <2>5. CASE name = "plan"
    BY <2>1, <2>5, PollCalls DEF Shape, Polls, GitVerbs
  <2> QED BY <2>2, <2>3, <2>4, <2>5
<1>3. f \in Seq(Sent) /\ LastIs(f, seg)
  <2> DEFINE N == Len(r.path)
  <2>1. /\ f \in Seq(Sent) /\ Len(f) = 5 + N
        /\ \A n \in 1..N : n \notin {2, 4} => f[5 + n] = r.path[n] /\ f[5 + n] \in Words
    BY <1>1, FilledIs
  <2>2. N \in {3, 5} /\ r.path[N] = seg
    BY <1>2
  <2> HIDE DEF N, f
  <2>3. Len(f) > 0 /\ f[Len(f)] = seg
    BY <2>1, <2>2
  <2> QED BY <2>1, <2>3 DEF LastIs
<1>4. Proper(seg)
  <2>1. seg \in Words
    BY <1>2 DEF Words
  <2> QED BY <2>1, WordsProper
<1> HIDE DEF f
<1>5. Collapsed(f) \in Seq(Sent) /\ LastIs(Collapsed(f), seg)
  BY <1>3, <1>4, LastStays
<1>6. h = AnswerTo("POST", Collapsed(f), s)
  BY <1>2 DEF Request, AnswerTo, f
<1>7. h.op \in {"context.set", "agent.slash"} \/ <<seg, h.op>> \in Polls
  BY <1>5, <1>6, ServedByLast
<1> QED BY <1>2, <1>7 DEF Polls

\* Whatever its names, the call of a broker method is served as that, or refused.
LEMMA RpcServed ==
  ASSUME NEW args \in Name \X Name, NEW s, NEW h, h = Handled(Request("rpc", args), s), h.code = "ok"
  PROVE  h.op = "rpc"
<1> DEFINE c == Calls["rpc"]
           f == Filled(c.path, args)
<1>1. PICK r \in SessionRange : CallFits(c, r)
  BY PollCalls, CallsServed
<1>2. Len(r.path) = 1 /\ c.op = "rpc"
  <2>1. Shape(r) /\ r.op = c.op
    BY <1>1, RouteFacts DEF CallFits
  <2> QED BY <2>1, PollCalls DEF Shape, GitVerbs
<1>3. ~(Len(r.path) > 1) /\ ~(Len(r.path) > 3)
  <2>1. \A n : n = 1 => ~(n > 1) /\ ~(n > 3)
    OBVIOUS
  <2> QED BY <1>2, <2>1, Zenon
<1>4. f = Filled(c.path, args)
  OBVIOUS
<1>5. h = AnswerTo(c.verb, Collapsed(f), s)
  BY DEF Request, AnswerTo
<1> HIDE DEF c, f
<1>6. ASSUME s \in {"mine", "shared"}
      PROVE  AnswerTo(c.verb, Collapsed(f), s) = ServedAs(c, r, f)
  BY <1>1, <1>3, <1>4, <1>6, ServedAsMeant
<1>7. ASSUME s \notin {"mine", "shared"} PROVE AnswerTo(c.verb, Collapsed(f), s) = Refused("unknown_session")
  BY <1>1, <1>3, <1>4, <1>7, ServedAsMeant
<1>8. CASE s \in {"mine", "shared"}
  BY <1>2, <1>5, <1>6, <1>8 DEF ServedAs
<1>9. CASE s \notin {"mine", "shared"}
  BY <1>5, <1>7, <1>9 DEF Refused
<1> QED BY <1>8, <1>9

\* The broker gives up on what it serves such a call with before the SDK does.
LEMMA BrokerFirst ==
  ASSUME NEW t \in Nat \ {0}, NEW op
  PROVE  /\ op \in {"context.set", "agent.slash", "agent.ask"} => ~SdkFirst("ask", op, t)
         /\ op \in {"context.set", "agent.slash", "agent.wait"} => ~SdkFirst("wait", op, t)
         /\ op \in {"context.set", "agent.slash", "spec.drive"} => ~SdkFirst("spec", op, t)
         /\ op \in {"context.set", "agent.slash", "spec.plan"} => ~SdkFirst("plan", op, t)
         /\ op = "rpc" => ~SdkFirst("rpc", op, t)
<1>1. /\ SdkWaits("ask", t) = t + 60000 /\ SdkWaits("wait", t) = t + 30000 /\ SdkWaits("rpc", t) = t + 15000
      /\ SdkWaits("spec", t) = 60000 /\ SdkWaits("plan", t) = 60000
  BY DEF SdkWaits
<1>2. /\ Clamp(t, 1000, 600000) \in Nat /\ Clamp(t, 1000, 600000) <= t + 999
  BY DEF Clamp
<1>3. op \in {"context.set", "agent.slash"} => BrokerWaits(op, t) = 16000
  BY DEF BrokerWaits
<1>4. op = "agent.ask" => BrokerWaits(op, t) = 1000 + (Clamp(t, 1000, 600000) + 45000)
  BY DEF BrokerWaits
<1>5. op = "agent.wait" => BrokerWaits(op, t) = 1000 + (Clamp(t, 1000, 600000) + 15000)
  BY DEF BrokerWaits
<1>6. op \in {"spec.drive", "spec.plan"} => BrokerWaits(op, t) = 46000
  BY DEF BrokerWaits
<1>7. op = "rpc" => BrokerWaits(op, t) = 1000 + t
  BY DEF BrokerWaits
<1> QED BY <1>1, <1>2, <1>3, <1>4, <1>5, <1>6, <1>7 DEF SdkFirst

\* The calls that may see the SDK give up first.
Impatient == {"commit", "checkout", "discard", "stash", "stashPop", "push", "pull", "screen", "follow"}

LEMMA OnlyImpatient ==
  ASSUME NEW name \in DOMAIN Calls, NEW args \in Name \X Name, NEW t \in Millis, NEW s,
         NEW h, h = Handled(Request(name, args), s), h.code = "ok", SdkFirst(name, h.op, t)
  PROVE  name \in Impatient
<1>1. name \in Limited /\ t \in Nat \ {0}
  BY HttpAssumption DEF SdkFirst
<1>2. CASE name \in {"ask", "wait", "spec", "plan"}
  <2>1. h.op \in {"context.set", "agent.slash", Calls[name].op}
    BY <1>2, PollServed
  <2> QED BY <1>1, <1>2, <2>1, PollCalls, BrokerFirst
<1>3. CASE name = "rpc"
  <2>1. h.op = "rpc"
    BY <1>3, RpcServed
  <2> QED BY <1>1, <1>3, <2>1, BrokerFirst
<1> QED BY <1>1, <1>2, <1>3 DEF Limited, Impatient

-----------------------------------------------------------------------------
(* The API *)

\* The operations of a request that names no session.
OutsideSessions ==
  {"identify", "signOut", "instances", "detail", "sessions",
   "env.set", "env.list", "env.delete", "models.list"}
Prompt(h) == h.code # "ok" \/ h.op \in OutsideSessions

LEMMA MatchedOutside ==
  ASSUME NEW verb, NEW parts, NEW else, Prompt(else)
  PROVE  Prompt(Matched(EnvRoutes \o ModelRoutes, verb, parts, else))
<1> DEFINE routes == EnvRoutes \o ModelRoutes
<1>1. routes \in Seq(OuterRange) /\ Range(routes) = OuterRange
  BY OuterRoutesJoined
<1>2. \A r \in OuterRange : r.op \in OutsideSessions
  BY OuterRouteFacts DEF OutsideSessions
<1> HIDE DEF routes
<1>3. Matched(routes, verb, parts, else) = else
        \/ \E r \in OuterRange : Matched(routes, verb, parts, else).op = r.op
  BY <1>1, MatchedSome
<1>4. Prompt(Matched(routes, verb, parts, else))
  BY <1>2, <1>3 DEF Prompt
<1> QED BY <1>4 DEF routes

\* A session of somebody else's is answered as one that does not exist.
LEMMA HiddenIsAbsent ==
  ASSUME NEW w
  PROVE  /\ Handled(w, "theirs") = Handled(w, "absent")
         /\ Prompt(Handled(w, "absent"))
<1> DEFINE refused == Refused("unknown_session")
           parts == Unversioned(w.parts)
           verb == w.verb
           rest == SubSeq(parts, 3, Len(parts))
           deep == Matched(EnvRoutes \o ModelRoutes, verb, rest, refused)
<1>1. \A name : ~Visible(name, "theirs") /\ ~Visible(name, "absent")
  BY DEF Visible
<1>2. Prompt(refused)
  BY DEF Prompt, Refused
<1>3. Prompt(deep)
  BY <1>2, MatchedOutside
<1>4. Handled(w, "theirs") = Handled(w, "absent")
  BY <1>1 DEF Handled, Routed
<1>5. Prompt(Handled(w, "absent"))
  BY <1>1, <1>3 DEF Handled, Routed, Prompt, Refused, OutsideSessions
<1> QED BY <1>4, <1>5

\* A request about somebody else's session is let through, or answered, as it
\* would be if there were none of that name.
ApiIInv ==
  /\ call = None => wire = None /\ passed = None /\ answer = None
  /\ seen = "theirs" =>
       /\ passed # None => passed = Handled(wire, "absent") /\ passed.code = "ok"
       /\ answer # None => answer \in {Handled(wire, "absent"), Refused("timeout"),
                                       Refused("network")}

\* Every step of a call keeps what was let through and what was answered so.
LEMMA ApiKeeps == ApiIInv /\ [Next]_httpVars => ApiIInv'
<1> SUFFICES ASSUME ApiIInv, [Next]_httpVars PROVE ApiIInv'
  OBVIOUS
<1>1. ASSUME NEW name \in DOMAIN Calls, NEW args \in Name \X Name, NEW t \in Millis,
             Sends(name, args, t)
      PROVE  ApiIInv'
  <2>1. call' # None
    <3>1. call' \in [name : DOMAIN Calls, args : Name \X Name, t : Millis]
      BY <1>1 DEF Sends
    <3> QED BY <3>1, HttpAssumption
  <2>2. passed' = None /\ answer' = None
    BY <1>1 DEF ApiIInv, Sends
  <2> QED BY <2>1, <2>2 DEF ApiIInv
<1>2. CASE Receives
  <2> DEFINE h == Handled(wire, session)
  <2>1. /\ wire # None /\ passed = None /\ answer = None /\ seen' = session /\ UNCHANGED <<call, wire>>
        /\ \/ h.code = "ok" /\ passed' = h /\ UNCHANGED answer
           \/ h.code # "ok" /\ answer' = h /\ UNCHANGED passed
    BY <1>2 DEF Receives
  <2>2. session = "theirs" => h = Handled(wire, "absent")
    BY HiddenIsAbsent
  <2> HIDE DEF h
  <2> QED BY <2>1, <2>2 DEF ApiIInv
<1>3. CASE Runs
  <2>1. passed # None /\ answer = None /\ UNCHANGED <<call, wire, passed, seen>>
    BY <1>3 DEF Runs
  <2>2. ASSUME seen = "theirs" PROVE answer' = passed
    <3>1. passed.op \in OutsideSessions
      BY <2>1, <2>2, HiddenIsAbsent DEF ApiIInv, Prompt
    <3>2. /\ passed.op \in Served \cup Own /\ passed.op # "teardown"
          /\ passed.op \notin (Served \cup {"rpc"}) \ Global
      BY <3>1 DEF OutsideSessions, Served, Own, Global
    <3> QED BY <1>3, <3>2 DEF Runs
  <2> QED BY <2>1, <2>2 DEF ApiIInv
<1>4. CASE GivesUp
  <2>1. /\ passed # None /\ UNCHANGED <<call, wire, passed, seen>>
        /\ answer' \in {Refused("network"), Refused("timeout")}
    BY <1>4 DEF GivesUp
  <2> QED BY <2>1 DEF ApiIInv
<1>5. ASSUME NEW to \in {"mine", "theirs", "absent"}, Moves(to) PROVE ApiIInv'
  BY <1>5 DEF Moves, ApiIInv
<1>6. CASE UNCHANGED httpVars
  BY <1>6 DEF httpVars, ApiIInv
<1> QED BY <1>1, <1>2, <1>3, <1>4, <1>5, <1>6 DEF Next

\* The operations of the calls have a handler; only teardown removes a session.
LEMMA OpsKnown ==
  /\ \A name \in DOMAIN Calls : Calls[name].op \in Served \cup Own /\ (Calls[name].op = "teardown" => name = "teardown")
  /\ Calls["teardown"].verb = "DELETE"
<1> DEFINE Known(table) ==
      \A name \in DOMAIN table : table[name].op \in Served \cup Own /\ (table[name].op = "teardown" => name = "teardown")
<1> USE DEF S, Served, Own
<1>1. Known(TopCalls)
  BY DEF TopCalls
<1>2. Known(InstanceCalls)
  BY DEF InstanceCalls
<1>3. Known(SessionCalls)
  BY DEF SessionCalls
<1>4. Known(ContextCalls)
  BY DEF ContextCalls
<1>5. Known(RepoCalls)
  BY DEF RepoCalls
<1>6. Known(TurnCalls)
  BY DEF TurnCalls
<1>7. Known(PaneCalls)
  BY DEF PaneCalls
<1>8. Known(SpecCalls)
  BY DEF SpecCalls
<1>9. Known(BundleCalls)
  BY DEF BundleCalls
<1>10. \A table \in Tables : Known(table)
  BY <1>1, <1>2, <1>3, <1>4, <1>5, <1>6, <1>7, <1>8, <1>9 DEF Tables
<1>11. Calls["teardown"].verb = "DELETE"
  <2>1. SessionCalls \in Tables /\ "teardown" \in DOMAIN SessionCalls
    BY Domains DEF Tables
  <2>2. SessionCalls["teardown"].verb = "DELETE"
    BY DEF SessionCalls
  <2> QED BY <2>1, <2>2, CallsAre
<1>12. ASSUME NEW name \in DOMAIN Calls
       PROVE  Calls[name].op \in Served \cup Own /\ (Calls[name].op = "teardown" => name = "teardown")
  <2>1. PICK table \in Tables : name \in DOMAIN table /\ Calls[name] = table[name]
    BY CallsAre
  <2> QED BY <1>10, <2>1
<1> QED BY <1>11, <1>12

Codes == {"ok", "unknown_instance", "unknown_session", "bad_request"}

\* The codes an answer may have.
LEMMA MatchedCodes ==
  ASSUME NEW verb, NEW u, NEW else, else.code \in Codes
  PROVE  /\ Matched(InSession, verb, u, else).code \in Codes
         /\ Matched(EnvRoutes \o ModelRoutes, verb, u, else).code \in Codes
<1>1. ASSUME NEW X, NEW routes \in Seq(X) PROVE Matched(routes, verb, u, else).code \in Codes
  BY MatchedSome DEF Codes
<1> QED BY <1>1, SessionRoutesJoined, OuterRoutesJoined

LEMMA HandledCodes == ASSUME NEW w, NEW s PROVE Handled(w, s).code \in Codes
<1> DEFINE parts == Unversioned(w.parts)
           verb == w.verb
           rest == SubSeq(parts, 3, Len(parts))
           v == SubSeq(rest, 3, Len(rest))
           within == WithinSession(verb, rest, s)
           deep == Matched(EnvRoutes \o ModelRoutes, verb, rest, within)
<1>1. \A code \in Codes : Refused(code).code \in Codes
  BY DEF Refused
<1>2. within.code \in Codes
  <2>1. Refused("bad_request").code \in Codes /\ Refused("unknown_session").code \in Codes
    BY <1>1 DEF Codes
  <2>2. Matched(InSession, verb, v, Refused("bad_request")).code \in Codes
    BY <2>1, MatchedCodes
  <2> QED BY <2>1, <2>2 DEF WithinSession
<1>3. deep.code \in Codes
  <2> HIDE DEF within
  <2> QED BY <1>2, MatchedCodes
<1>4. Routed(verb, parts, s).code \in Codes
  BY <1>1, <1>3 DEF Routed, Codes, WithinSession, Refused
<1> QED BY <1>4 DEF Handled

CallRec == [name : DOMAIN Calls, args : Name \X Name, t : Millis]

\* A request is the call's, it was let through for the session as it was then, and
\* what was told of it is the routes' answer or one of the refusals.
ClientIInv ==
  /\ call = None => wire = None /\ passed = None /\ answer = None
  /\ call # None => call \in CallRec /\ wire = Request(call.name, call.args)
  /\ passed # None => call # None /\ passed = Handled(wire, seen) /\ passed.code = "ok"
  /\ passed # None /\ answer = None /\ ~ReadsBody(passed) => session = seen
  /\ answer # None =>
       \/ answer = Handled(wire, seen)
       \/ answer \in {Refused("timeout"), Refused("unknown_session")}
       \/ answer = Refused("network") /\ passed # None /\ SdkFirst(call.name, passed.op, call.t)
       \/ /\ answer = Refused("bad_request") /\ passed # None
          /\ \/ passed.op \notin Served \cup Own
             \/ passed.op = "teardown" /\ (ReadsBody(passed) \/ seen # "mine")

\* Every step of a call keeps the invariant.
LEMMA ClientKeeps == ClientIInv /\ [Next]_httpVars => ClientIInv'
<1> SUFFICES ASSUME ClientIInv, [Next]_httpVars PROVE ClientIInv'
  OBVIOUS
<1>1. ASSUME NEW name \in DOMAIN Calls, NEW args \in Name \X Name, NEW t \in Millis,
             Sends(name, args, t)
      PROVE  ClientIInv'
  <2>1. call' \in CallRec /\ call'.name = name /\ call'.args = args
    BY <1>1 DEF Sends, CallRec
  <2>2. call' # None
    BY <2>1, HttpAssumption DEF CallRec
  <2>3. passed' = None /\ answer' = None
    BY <1>1 DEF ClientIInv, Sends
  <2>4. wire' = Request(call'.name, call'.args)
    <3>1. wire' = [verb |-> Calls[name].verb, parts |-> Collapsed(Filled(Calls[name].path, args))]
      BY <1>1 DEF Sends
    <3> QED BY <2>1, <3>1, Zenon DEF Request
  <2> QED BY <2>1, <2>2, <2>3, <2>4 DEF ClientIInv
<1>2. CASE Receives
  <2> DEFINE h == Handled(wire, session)
  <2>1. /\ wire # None /\ passed = None /\ answer = None /\ seen' = session /\ UNCHANGED <<call, wire, session>>
        /\ \/ h.code = "ok" /\ passed' = h /\ UNCHANGED answer
           \/ h.code # "ok" /\ answer' = h /\ UNCHANGED passed
    BY <1>2 DEF Receives
  <2>2. h = Handled(wire, seen')
    BY <2>1
  <2>3. Handled(wire, seen)' = h
    BY <2>1
  <2> HIDE DEF h
  <2> QED BY <2>1, <2>2, <2>3 DEF ClientIInv
<1>3. CASE Runs
  <2>1. passed # None /\ answer = None /\ UNCHANGED <<call, wire, passed, seen, session>>
    BY <1>3 DEF Runs
  <2>2. \/ /\ answer' = Refused("bad_request")
           /\ passed.op \notin Served \cup Own \/ (passed.op = "teardown" /\ session # "mine")
        \/ answer' = Refused("unknown_session")
        \/ answer' = passed
    BY <1>3 DEF Runs
  <2>3. ~ReadsBody(passed) => session = seen
    BY <2>1 DEF ClientIInv
  <2>4. ReadsBody(passed)' <=> ReadsBody(passed)
    BY <2>1 DEF ReadsBody
  <2>5. Handled(wire, seen)' = Handled(wire, seen) /\ passed = Handled(wire, seen)
    BY <2>1 DEF ClientIInv
  <2>6. call # None /\ call' = call /\ wire' = wire /\ passed' = passed /\ seen' = seen /\ session' = session
    BY <2>1 DEF ClientIInv
  <2> QED BY <2>1, <2>2, <2>3, <2>4, <2>5, <2>6 DEF ClientIInv
<1>4. CASE GivesUp
  <2>1. /\ passed # None /\ answer = None /\ UNCHANGED <<call, wire, passed, seen, session>>
        /\ \/ answer' = Refused("network") /\ SdkFirst(call.name, passed.op, call.t)
           \/ answer' = Refused("timeout")
    BY <1>4 DEF GivesUp
  <2> QED BY <2>1 DEF ClientIInv, ReadsBody
<1>5. ASSUME NEW to \in {"mine", "theirs", "absent"}, Moves(to) PROVE ClientIInv'
  BY <1>5 DEF Moves, ClientIInv, ReadsBody
<1>6. CASE UNCHANGED httpVars
  BY <1>6 DEF httpVars, ClientIInv, ReadsBody
<1> QED BY <1>1, <1>2, <1>3, <1>4, <1>5, <1>6 DEF Next

\* The invariant says what the run checks.
LEMMA ClientTells ==
  ClientIInv => CallsReachTheirOperation /\ EveryCallHasARoute /\ BrokerGivesUpFirst
<1> SUFFICES ASSUME ClientIInv, answer # None
             PROVE  CallsReachTheirOperation /\ EveryCallHasARoute /\ BrokerGivesUpFirst
  BY DEF CallsReachTheirOperation, EveryCallHasARoute, BrokerGivesUpFirst
<1> DEFINE name == call.name
           args == call.args
           h == Handled(Request(name, args), seen)
<1>1. name \in DOMAIN Calls /\ args \in Name \X Name /\ call.t \in Millis /\ wire = Request(name, args)
  BY DEF ClientIInv, CallRec
<1>2. \/ answer = h
      \/ answer \in {Refused("timeout"), Refused("unknown_session")}
      \/ answer = Refused("network") /\ passed = h /\ h.code = "ok" /\ SdkFirst(name, h.op, call.t)
      \/ /\ answer = Refused("bad_request") /\ passed = h /\ h.code = "ok"
         /\ \/ h.op \notin Served \cup Own
            \/ h.op = "teardown" /\ (ReadsBody(h) \/ seen # "mine")
  BY <1>1 DEF ClientIInv
<1>3. \A code : Refused(code).code = code /\ Refused(code).op = None
  BY DEF Refused
<1>4. Clean(name, args) => Answered(name, args, seen, h)
  BY <1>1, CallAnswered
<1>5. h.code \in Codes
  BY HandledCodes
<1>6. CallsReachTheirOperation
  <2> SUFFICES ASSUME answer.op # None, Clean(name, args)
               PROVE  answer.op = Calls[name].op /\ Named(answer) = Meant(name, args)
    <3>1. Clean(name, args)
            <=> \/ Plain(call.args)
                \/ call.args[1] \notin Odd /\ call.args[2] = "." /\ call.name \in DOMAIN RepoCalls
      BY Zenon DEF Clean
    <3>2. Named(answer) = [n \in DOMAIN answer.args |-> IF answer.args[n] = "-" THEN "." ELSE answer.args[n]]
      BY Zenon DEF Named
    <3> QED BY <3>1, <3>2, Zenon DEF CallsReachTheirOperation
  <2>1. answer = h
    BY <1>2, <1>3
  <2>2. AsMeant(name, args, h)
    BY <1>3, <1>4, <2>1 DEF Answered
  <2> QED BY <2>1, <2>2 DEF AsMeant
<1>7. EveryCallHasARoute
  <2> SUFFICES ASSUME Plain(args), seen \in {"mine", "shared"}, answer.code = "bad_request"
               PROVE  name = "teardown" /\ seen = "shared"
    BY DEF EveryCallHasARoute
  <2>1. AsMeant(name, args, h)
    <3>1. Clean(name, args)
      BY Zenon DEF Clean
    <3>2. Answered(name, args, seen, h)
      BY <1>4, <3>1
    <3> QED BY <3>2, Zenon DEF Answered
  <2>2. h.code = "ok" /\ h.op = Calls[name].op
    BY <2>1 DEF AsMeant
  <2>3. h.op \notin Served \cup Own \/ (h.op = "teardown" /\ (ReadsBody(h) \/ seen # "mine"))
    BY <1>2, <1>3, <2>2
  <2>4. h.op \in Served \cup Own /\ (h.op = "teardown" => name = "teardown")
    BY <1>1, <2>2, OpsKnown
  <2>5. name = "teardown" => wire.verb = "DELETE"
    BY <1>1, OpsKnown DEF Request
  <2> QED BY <2>3, <2>4, <2>5 DEF ReadsBody
<1>8. BrokerGivesUpFirst
  <2> SUFFICES ASSUME answer.code = "network" PROVE name \in Impatient
    BY DEF BrokerGivesUpFirst, Impatient
  <2>1. h.code = "ok" /\ SdkFirst(name, h.op, call.t)
    BY <1>2, <1>3, <1>5 DEF Codes
  <2> QED BY <1>1, <2>1, OnlyImpatient
<1> QED BY <1>6, <1>7, <1>8
-----------------------------------------------------------------------------
(* The edge *)

LEMMA EdgeParts ==
  [EdgeNext]_all =>
    /\ [Next]_httpVars /\ [C!Next]_channelVars
    /\ [H!Next]_hooksVars /\ [W!Next]_watchVars
BY DEF EdgeNext, HttpStep, ChannelStep, HooksStep, WatchStep, all,
       httpVars, channelVars, hooksVars, watchVars

\* The first states of the composition are first states of its parts.
LEMMA EdgeStarts == EdgeInit => ChannelIInv /\ HooksIInv /\ WatchIInv
<1> SUFFICES ASSUME EdgeInit PROVE ChannelIInv /\ HooksIInv /\ WatchIInv
  OBVIOUS
<1>1. ChannelIInv
  <2>1. /\ wanted = FALSE /\ armed = FALSE /\ tokenOk = TRUE /\ again = FALSE /\ raced = FALSE
        /\ ws = 0 /\ probes = 0 /\ timers = 0 /\ group = "none" /\ subId = 0
        /\ bySub = {} /\ pending = {}
        /\ sock = [s \in C!Sock |-> "unborn"]
        /\ sub = [n \in C!Sub |-> [sock |-> 0, at |-> "unsent"]]
    BY DEF EdgeInit, C!Init
  <2>2. 0 \in 0..MaxSock /\ 0 \in 0..MaxSub
    BY EdgeAssumption
  <2>3. [sock |-> 0, at |-> "unsent"] \in SubRec
    BY <2>2 DEF SubRec
  <2>4. ChannelTypes
    BY <2>1, <2>2, <2>3 DEF ChannelTypes
  <2>5. LinkIInv
    BY <2>1 DEF LinkIInv, Undone, C!Alive
  <2>6. RequestsIInv /\ GroupIInv
    BY <2>1 DEF RequestsIInv, GroupIInv, Asked
  <2> QED BY <2>4, <2>5, <2>6 DEF ChannelIInv
<1>2. HooksIInv
  <2>1. H!Init
    BY DEF EdgeInit
  <2>2. valid \subseteq Token
    BY <2>1 DEF H!Init
  <2> QED
    BY <2>1, <2>2 DEF HooksIInv, H!Init, H!LockedWithoutToken, H!ShowsSelected, H!PanelOwnsGroups
<1>3. WatchIInv
  <2>1. /\ version \in [Source -> {0, 1}] /\ loop = [l \in Loop |-> W!Unborn] /\ viewer = None
        /\ frame = [src |-> None, version |-> 0]
    BY DEF EdgeInit, W!Init
  <2>2. W!Unborn \in LoopRec /\ W!Unborn.at = "unborn"
    BY DEF W!Unborn, LoopRec
  <2>3. frame.src = None /\ frame.version = 0
    BY <2>1
  <2>4. frame.src \in Source => frame.version <= version[frame.src]
    BY <2>1, <2>3
  <2>5. frame = [src |-> frame.src, version |-> frame.version]
    BY <2>1
  <2> QED BY <2>1, <2>2, <2>3, <2>4, <2>5 DEF WatchIInv, Told
<1> QED BY <1>1, <1>2, <1>3

\* The channel's invariant says what the run checks.
LEMMA ChannelTells == ChannelIInv => C!OneSocket /\ C!GroupHears /\ C!NoForgottenSub
<1> SUFFICES ASSUME ChannelIInv, ~again PROVE C!OneSocket /\ C!GroupHears /\ C!NoForgottenSub
  BY DEF C!OneSocket, C!GroupHears, C!NoForgottenSub
<1>1. ChannelTypes /\ LinkIInv /\ RequestsIInv /\ GroupIInv
  BY DEF ChannelIInv
<1>2. C!OneSocket
  <2> SUFFICES ASSUME C!Alive # {}
               PROVE  wanted /\ C!Alive = {ws} /\ probes + timers = 0
    BY <1>1 DEF C!OneSocket, LinkIInv
  <2>1. PICK s \in C!Sock : s \in C!Alive
    BY DEF C!Alive
  <2>2. s = ws /\ wanted /\ Undone(s) /\ probes = 0 /\ timers = 0
    BY <1>1, <2>1 DEF LinkIInv, Undone, C!Alive
  <2>3. C!Alive = {ws}
    BY <1>1, <2>1, <2>2 DEF LinkIInv, C!Alive
  <2> QED BY <2>2, <2>3
<1>3. ASSUME C!Settled, NEW n \in C!Sub, sub[n].at = "live" PROVE sub[n] = [sock |-> ws, at |-> "live"]
  <2>1. sub[n] \in SubRec /\ sub[n].sock # 0
    BY <1>1, <1>3 DEF ChannelTypes, RequestsIInv
  <2>2. sub[n].sock \in C!Sock /\ sock[sub[n].sock] \in {"open", "closed"}
    BY <1>1, <1>3, <2>1, EdgeAssumption DEF RequestsIInv, SubRec, C!Sock
  <2>3. sub[n].sock = ws
    BY <2>2, <1>3 DEF C!Settled
  <2> QED BY <1>3, <2>1, <2>3 DEF SubRec
<1>4. C!GroupHears
  <2> SUFFICES ASSUME C!Settled, group = "in"
               PROVE  subId \in bySub /\ sub[subId] = [sock |-> ws, at |-> "live"]
    BY DEF C!GroupHears
  <2>1. IsIn
    BY <1>1 DEF GroupIInv, IsAsking, C!Settled
  <2>2. ws \in C!Sock /\ sock[ws] = "open"
    BY <1>1, EdgeAssumption DEF ChannelTypes, C!Sock, C!Settled, C!Ready
  <2>3. sub[subId].at = "live"
    BY <2>1, <2>2 DEF IsIn
  <2> QED BY <1>3, <2>1, <2>3 DEF IsIn
<1>5. C!NoForgottenSub
  <2> SUFFICES ASSUME C!Settled, ~raced, NEW n \in C!Sub, sub[n].at = "live"
               PROVE  group = "in" /\ n = subId
    BY DEF C!NoForgottenSub
  <2>1. sub[n].sock = ws /\ sock[ws] = "open" /\ pending = {}
    BY <1>3 DEF C!Settled, C!Ready
  <2>2. group = "in"
    BY <1>1, <2>1 DEF ChannelTypes, GroupIInv, IsAsking
  <2> QED BY <1>1, <2>1, <2>2 DEF GroupIInv, IsIn, IsAsking
<1> QED BY <1>2, <1>4, <1>5

\* For any number of sockets and requests: until connect() is called again, the
\* event channel has one live socket and its group one subscription on it, which
\* the broker holds as well (packages/client/src/events.ts); while no two requests
\* of a hook overlap, it shows what is so (packages/react/src/hooks).
THEOREM EdgeKept == EdgeSpec => []ChannelAndPagesKept
<1> DEFINE I == ChannelIInv /\ HooksIInv
<1>1. EdgeInit => I
  BY EdgeStarts
<1>2. I /\ [EdgeNext]_all => I'
  BY ChannelKeeps, HooksKeep, EdgeParts
<1>3. I => ChannelAndPagesKept
  BY ChannelTells DEF HooksIInv, ChannelAndPagesKept, H!ShowsWhatIs
<1> QED BY <1>1, <1>2, <1>3, PTL DEF EdgeSpec

\* For any call, whatever its names and whenever the session changes hands: what a
\* caller is told of somebody else's session it is told of one that does not exist,
\* or that nobody answered (ownedByOther in src/http.ts).
THEOREM OthersStayHidden == EdgeSpec => []PrivateLooksAbsent
<1>1. EdgeInit => ApiIInv
  BY DEF EdgeInit, Init, ApiIInv
<1>2. ApiIInv /\ [EdgeNext]_all => ApiIInv'
  BY ApiKeeps, EdgeParts
<1>3. ApiIInv => PrivateLooksAbsent
  BY DEF ApiIInv, PrivateLooksAbsent
<1> QED BY <1>1, <1>2, <1>3, PTL DEF EdgeSpec

\* For any names, deadlines and sessions, whenever the session changes hands: a call
\* of the SDK runs the operation it is the name of on the objects it names, has a
\* route, tells nothing of a session of somebody else's, and is answered by the
\* broker before the SDK gives up, but for the calls whose own deadline is shorter
\* (packages/client/src, src/http.ts).
THEOREM EveryClientIsTold == EdgeSpec => []ClientIsTold
<1>1. EdgeInit => ClientIInv /\ ApiIInv
  BY DEF EdgeInit, Init, ClientIInv, ApiIInv
<1>2. ClientIInv /\ ApiIInv /\ [EdgeNext]_all => (ClientIInv /\ ApiIInv)'
  BY ClientKeeps, ApiKeeps, EdgeParts
<1>3. ClientIInv /\ ApiIInv => ClientIsTold
  BY ClientTells DEF ApiIInv, PrivateLooksAbsent, ClientIsTold
<1> QED BY <1>1, <1>2, <1>3, PTL DEF EdgeSpec

\* For any sources, loops and versions: a viewer shows the source chosen last and
\* never an older version of it, whichever requests of loops that were stopped are
\* answered late (watchScreen and follow of packages/client/src, useScreen).
THEOREM ViewersGoOn == EdgeSpec => W!NeverGoesBack
<1> DEFINE Forward == frame' # frame =>
             /\ viewer # None /\ frame'.src = loop[viewer].src
             /\ frame'.src = frame.src => frame'.version > frame.version
<1>1. EdgeInit => WatchIInv
  BY EdgeStarts
<1>2. WatchIInv /\ [EdgeNext]_all => WatchIInv'
  BY WatchKeeps, EdgeParts
<1>3. ASSUME WatchIInv, [W!Next]_watchVars PROVE Forward
  <2> SUFFICES ASSUME frame' # frame
               PROVE  /\ viewer # None /\ frame'.src = loop[viewer].src
                      /\ frame'.src = frame.src => frame'.version > frame.version
    OBVIOUS
  <2>1. PICK l \in Loop : W!Receives(l)
    BY <1>3 DEF W!Next, W!Changes, W!Drive, W!Starts, W!Answers, W!Lost, W!Retries, W!Pauses, watchVars
  <2>2. /\ l = viewer /\ loop[l].at = "replied" /\ loop[l].reply.kind # "error"
        /\ frame' = [src |-> loop[l].src, version |-> loop[l].reply.version]
    BY <2>1 DEF W!Receives, W!Stopped
  <2>3. Told(l) /\ loop[l].reply \in ReplyRec
    BY <1>3, <2>2 DEF WatchIInv, Told
  <2>4. loop[l].reply.version \in Nat
    BY <2>2, <2>3 DEF ReplyRec
  <2>5. frame'.src = loop[l].src /\ frame'.version = loop[l].reply.version
    BY <2>2
  <2>6. frame = [src |-> frame.src, version |-> frame.version] /\ frame.version \in Nat
    BY <1>3 DEF WatchIInv
  <2>7. ASSUME frame'.src = frame.src PROVE frame'.version > frame.version
    <3>1. frame.version <= frame'.version
      BY <1>3, <2>2, <2>3, <2>5, <2>7 DEF WatchIInv
    <3>2. frame.version # frame'.version
      BY <2>2, <2>5, <2>6, <2>7
    <3> QED BY <2>4, <2>5, <2>6, <3>1, <3>2
  <2>8. viewer # None
    BY <2>2, EdgeAssumption
  <2> QED BY <2>2, <2>5, <2>7, <2>8
<1>4. WatchIInv /\ [EdgeNext]_all => [Forward]_watchVars
  BY <1>3, EdgeParts
<1>5. [][Forward]_watchVars => W!NeverGoesBack
  BY DEF W!NeverGoesBack, W!watchVars, watchVars
<1> HIDE DEF Forward
<1> QED BY <1>1, <1>2, <1>4, <1>5, PTL DEF EdgeSpec
=============================================================================
