------------------------------- MODULE Channel -------------------------------
(***************************************************************************)
(* EventChannel of the SDK (packages/client/src/events.ts): one WebSocket  *)
(* that is opened again after every unclean end, once a probe over HTTP    *)
(* has shown that the token still lives, and a subscription group that is  *)
(* subscribed anew on every socket.                                        *)
(*                                                                         *)
(* Close events, probes, timers and answers all come later than what they  *)
(* are about, and none of their handlers looks at which socket it was for. *)
(* A subscription and the rpc that asks for it have one number.            *)
(***************************************************************************)
EXTENDS Naturals

CONSTANTS MaxSock,   \* bound: sockets made
          MaxSub     \* bound: subscribe requests sent

VARIABLES
  wanted,    \* #wanted
  ws,        \* #ws, 0: undefined
  sock,      \* every socket
  probes,    \* probes under way
  timers,    \* reconnect timers that will fire
  armed,     \* #reconnect names one of them
  group,     \* the group: "none", "subscribing", "in" #groups, "out" again
  subId,     \* its subId, 0: undefined
  bySub,     \* numbers that #bySubId leads to the group
  sub,       \* every subscribe request: [sock, at]
  pending,   \* numbers in #pending
  tokenOk,   \* the broker accepts the token
  again,     \* connect() was called after a close()
  raced      \* unsubscribed while a subscribe request was under way

vars == <<wanted, ws, sock, probes, timers, armed, group, subId, bySub, sub, pending,
          tokenOk, again, raced>>
link == <<wanted, ws, sock, probes, timers, armed, tokenOk, again>>
subs == <<group, subId, bySub, sub, pending, raced>>

Sock == 1..MaxSock
Sub  == 1..MaxSub

Init ==
  /\ wanted = FALSE /\ ws = 0 /\ probes = 0 /\ timers = 0 /\ armed = FALSE
  /\ sock = [s \in Sock |-> "unborn"]
  /\ group = "none" /\ subId = 0 /\ bySub = {} /\ pending = {}
  /\ sub = [n \in Sub |-> [sock |-> 0, at |-> "unsent"]]
  /\ tokenOk = TRUE /\ again = FALSE /\ raced = FALSE

Alive == {s \in Sock : sock[s] \in {"connecting", "open"}}
Ready == ws # 0 /\ sock[ws] = "open"
-----------------------------------------------------------------------------
(* The link *)

\* #open, whatever socket there is already.
Opens ==
  \E s \in Sock :
    /\ sock[s] = "unborn" /\ \A t \in 1..(s - 1) : sock[t] # "unborn"
    /\ sock' = [sock EXCEPT ![s] = "connecting"]
    /\ ws' = s

Connect ==
  /\ ~wanted /\ wanted' = TRUE
  /\ Opens
  /\ again' = (again \/ ws # 0 \/ \E s \in Sock : sock[s] # "unborn")
  /\ UNCHANGED <<probes, timers, armed, tokenOk, subs>>

BugCloseKeepsTimer ==
  /\ wanted /\ wanted' = FALSE
  /\ UNCHANGED <<timers, armed>>
  /\ sock' = [s \in Sock |-> IF s = ws /\ s \in Alive THEN "closed" ELSE sock[s]]
  /\ ws' = 0
  /\ UNCHANGED <<probes, tokenOk, again, subs>>
\* Clears the timer it knows and lets go of the socket, whose close event is
\* still to come.
Close ==
  /\ wanted /\ wanted' = FALSE
  /\ timers' = IF armed THEN timers - 1 ELSE timers
  /\ armed' = FALSE
  /\ sock' = [s \in Sock |-> IF s = ws /\ s \in Alive THEN "closed" ELSE sock[s]]
  /\ ws' = 0
  /\ UNCHANGED <<probes, tokenOk, again, subs>>

\* The upgrade is refused, the connection breaks, the broker kicks the token.
Drops(s) ==
  /\ s \in Alive
  /\ sock' = [sock EXCEPT ![s] = "closed"]
  /\ UNCHANGED <<wanted, ws, probes, timers, armed, tokenOk, again, subs>>

Revoked ==
  /\ tokenOk
  /\ tokenOk' = FALSE
  /\ UNCHANGED <<wanted, ws, sock, probes, timers, armed, again, subs>>

\* onclose rejects what is pending, on whatever socket it was sent: a request
\* to subscribe fails for its caller, one to subscribe again retires the group.
CloseEvent(s) ==
  /\ sock[s] = "closed"
  /\ sock' = [sock EXCEPT ![s] = "gone"]
  /\ pending' = {}
  /\ group' = IF pending # {} /\ group \in {"subscribing", "in"} THEN "out" ELSE group
  /\ sub' = [n \in Sub |-> IF sub[n].sock = s THEN [sub[n] EXCEPT !.at = "ended"] ELSE sub[n]]
  /\ probes' = IF wanted THEN probes + 1 ELSE probes
  /\ UNCHANGED <<wanted, ws, timers, armed, subId, bySub, tokenOk, again, raced>>

\* 401 stops it; any other answer, or none, leads to a timer.
ProbeReturns ==
  /\ probes > 0 /\ probes' = probes - 1
  /\ \/ /\ ~tokenOk /\ wanted' = FALSE
        /\ UNCHANGED <<timers, armed>>
     \/ /\ wanted /\ timers' = timers + 1 /\ armed' = TRUE
        /\ UNCHANGED wanted
     \/ /\ ~wanted /\ UNCHANGED <<wanted, timers, armed>>
  /\ UNCHANGED <<ws, sock, tokenOk, again, subs>>

TimerFires ==
  /\ timers > 0 /\ timers' = timers - 1
  /\ armed' = (armed /\ timers > 1)
  /\ Opens
  /\ UNCHANGED <<wanted, probes, tokenOk, again, subs>>
-----------------------------------------------------------------------------
(* The group *)

\* rpc: the next number, on the socket #ws is now.
Sends(n) ==
  /\ sub[n].at = "unsent" /\ \A m \in 1..(n - 1) : sub[m].at # "unsent"
  /\ pending' = pending \cup {n}

\* onopen subscribes a known group again, under a new number.
Opened(s) ==
  /\ sock[s] = "connecting" /\ tokenOk
  /\ sock' = [sock EXCEPT ![s] = "open"]
  /\ \/ group # "in" /\ UNCHANGED subs
     \/ /\ group = "in" /\ ws \in {t \in Sock : sock'[t] = "open"}
        /\ \E n \in Sub : Sends(n) /\ sub' = [sub EXCEPT ![n] = [sock |-> ws, at |-> "sent"]]
        /\ bySub' = bySub \ {subId} /\ subId' = 0
        /\ UNCHANGED <<group, raced>>
     \/ /\ group = "in" /\ ws \notin {t \in Sock : sock'[t] = "open"}
        /\ group' = "out" /\ bySub' = bySub \ {subId} /\ subId' = 0
        /\ UNCHANGED <<sub, pending, raced>>
  /\ UNCHANGED <<wanted, ws, probes, timers, armed, tokenOk, again>>

Subscribe ==
  /\ group = "none" /\ Ready
  /\ group' = "subscribing"
  /\ \E n \in Sub : Sends(n) /\ sub' = [sub EXCEPT ![n] = [sock |-> ws, at |-> "sent"]]
  /\ UNCHANGED <<link, subId, bySub, raced>>

\* The broker takes the subscription or refuses it.
BrokerAnswers(n) ==
  /\ sub[n].at = "sent" /\ sock[sub[n].sock] = "open"
  /\ \E a \in {"held", "refused"} : sub' = [sub EXCEPT ![n].at = a]
  /\ UNCHANGED <<link, group, subId, bySub, pending, raced>>

AnswerArrives(n) ==
  /\ n \in pending /\ sub[n].at \in {"held", "refused"} /\ sock[sub[n].sock] = "open"
  /\ pending' = pending \ {n}
  /\ IF sub[n].at = "refused"
       THEN /\ sub' = [sub EXCEPT ![n].at = "ended"]
            /\ group' = "out"
            /\ UNCHANGED <<subId, bySub>>
       ELSE /\ sub' = [sub EXCEPT ![n].at = "live"]
            /\ subId' = n
            /\ group' = IF group = "subscribing" THEN "in" ELSE group
            /\ bySub' = IF group = "out" THEN bySub ELSE bySub \cup {n}
  /\ UNCHANGED <<link, raced>>

\* The broker ends a subscription: its tap died or the child went offline.
SubClosed(n) ==
  /\ sub[n].at = "live" /\ sock[sub[n].sock] = "open"
  /\ sub' = [sub EXCEPT ![n].at = "ended"]
  /\ group' = IF n \in bySub THEN "out" ELSE group
  /\ bySub' = bySub \ {n}
  /\ UNCHANGED <<link, subId, pending, raced>>

Unsubscribe ==
  /\ group = "in" /\ group' = "out"
  /\ bySub' = bySub \ {subId}
  /\ sub' = [n \in Sub |-> IF n = subId /\ Ready THEN [sub[n] EXCEPT !.at = "ended"] ELSE sub[n]]
  /\ raced' = (raced \/ pending # {})
  /\ UNCHANGED <<link, subId, pending>>

Next ==
  \/ Connect \/ Close \/ Revoked \/ ProbeReturns \/ TimerFires
  \/ \E s \in Sock : Drops(s) \/ CloseEvent(s) \/ Opened(s)
  \/ Subscribe \/ Unsubscribe
  \/ \E n \in Sub : BrokerAnswers(n) \/ AnswerArrives(n) \/ SubClosed(n)

Spec == Init /\ [][Next]_vars

\* Close events, probes and timers come; a broker that is up takes the socket.
Fairness ==
  /\ WF_vars(ProbeReturns) /\ WF_vars(TimerFires)
  /\ \A s \in Sock : WF_vars(CloseEvent(s)) /\ WF_vars(Opened(s))
  /\ \A n \in Sub : WF_vars(BrokerAnswers(n)) /\ WF_vars(AnswerArrives(n))
FairSpec == Spec /\ Fairness
-----------------------------------------------------------------------------
(* Properties *)

\* "duplex rpc frames on one socket": as long as connect() is not called again
\* after close(), there is one live socket at most, it is #ws, and none is left
\* or still to come once the channel was closed or its token rejected.
OneSocket ==
  ~again => /\ probes + timers <= 1
            /\ Alive # {} => wanted /\ Alive = {ws} /\ probes + timers = 0

\* Nobody is deaf: until connect() is called again, when nothing is under way, a
\* group that was not retired has a live subscription on the open socket, whose
\* events reach it.
Settled ==
  /\ Ready /\ pending = {} /\ probes = 0 /\ timers = 0
  /\ \A s \in Sock : sock[s] \in {"unborn", "gone"} \/ s = ws
GroupHears ==
  Settled /\ group = "in" /\ ~again =>
    /\ subId \in bySub /\ sub[subId] = [sock |-> ws, at |-> "live"]

\* No subscription the broker holds is forgotten here while its socket is up,
\* but for one that was given up before its answer came.
NoForgottenSub ==
  Settled /\ ~raced /\ ~again =>
    \A n \in Sub : sub[n].at = "live" => group = "in" /\ n = subId

\* A channel that is wanted, with a token that lives, comes back after every end
\* of its connection.
ComesBack ==
  []tokenOk => [](wanted => <>(~wanted \/ Ready \/ \A s \in Sock : sock[s] # "unborn"))
=============================================================================
