------------------------------- MODULE MCEdge -------------------------------
(* The broker's edge: what a client calls and is told (Http, whose state    *)
(* this module takes over by name), the event channel, and the viewers and  *)
(* hooks of the packages.  The parts share no state in these models, so     *)
(* `part` picks the one that runs; the others rest in an initial state, in  *)
(* which no fair action is enabled.                                         *)
EXTENDS Http

CONSTANTS MaxSock, MaxSub,                    \* Channel
          Token, Repo, Group, NoToken,        \* Hooks
          Source, Loop, MaxVersion            \* Watch

VARIABLES part,
          wanted, ws, sock, probes, timers, armed, group, subId, bySub, sub, pending,
          tokenOk, again, raced,
          hook, overlap, valid, hosted, gate, checking, minting, leaving,
          selected, tree, fetching, mounted, button, ref, groups, joining,
          version, loop, viewer, frame

C  == INSTANCE Channel
H  == INSTANCE Hooks
W  == INSTANCE Watch

ASSUME EdgeAssumption ==
  /\ {MaxSock, MaxSub} \subseteq Nat
  /\ NoToken \notin Token /\ None \notin Group \cup Loop

httpVars    == <<call, wire, passed, seen, answer, session>>
channelVars == <<wanted, ws, sock, probes, timers, armed, group, subId, bySub, sub, pending,
                 tokenOk, again, raced>>
hooksVars   == <<hook, overlap, valid, hosted, gate, checking, minting, leaving,
                 selected, tree, fetching, mounted, button, ref, groups, joining>>
watchVars   == <<version, loop, viewer, frame>>
all == <<part, httpVars, channelVars, hooksVars, watchVars>>

EdgeInit ==
  /\ part \in {"http", "channel", "hooks", "watch"}
  /\ Init /\ C!Init /\ H!Init /\ W!Init
  /\ part # "http" => session = "mine"
  /\ part # "hooks" => hook = "panel"
  /\ part # "watch" => version = [s \in Source |-> 0]

HttpStep ==
  /\ part = "http" /\ Next
  /\ UNCHANGED <<part, channelVars, hooksVars, watchVars>>
ChannelStep ==
  /\ part = "channel" /\ C!Next
  /\ UNCHANGED <<part, httpVars, hooksVars, watchVars>>
HooksStep ==
  /\ part = "hooks" /\ H!Next
  /\ UNCHANGED <<part, httpVars, channelVars, watchVars>>
WatchStep ==
  /\ part = "watch" /\ W!Next
  /\ UNCHANGED <<part, httpVars, channelVars, hooksVars>>
EdgeNext == HttpStep \/ ChannelStep \/ HooksStep \/ WatchStep

EdgeFair == C!Fairness /\ W!Fairness
EdgeSpec == EdgeInit /\ [][EdgeNext]_all /\ EdgeFair

-----------------------------------------------------------------------------
(* Properties *)

\* A call of the SDK runs the operation it names on the session it names, and is
\* answered by the broker before the SDK gives up unless one of its own
\* deadlines is shorter.
ClientIsTold ==
  /\ CallsReachTheirOperation /\ EveryCallHasARoute
  /\ PrivateLooksAbsent /\ BrokerGivesUpFirst

\* The event channel has one socket and its group is subscribed on it; a page
\* shows what it was told.
ChannelAndPagesKept == C!OneSocket /\ C!GroupHears /\ C!NoForgottenSub /\ H!ShowsWhatIs

\* The channel is back after a loss; a viewer never goes back, and catches up.
EdgeCatchesUp == C!ComesBack /\ W!NeverGoesBack /\ W!ViewerCatchesUp
=============================================================================
