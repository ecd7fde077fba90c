------------------------------ MODULE TunnelRpc ------------------------------
(***************************************************************************)
(* Calls forwarded over the tunnel of Tunnel.tla: ChildConnection.request  *)
(* and the reply half of #route (src/tunnel.ts), answered by the child's   *)
(* #route (src/south.ts).  A caller is any user of hub.get(name): HTTP, a  *)
(* WebSocket client, a projected socket.                                   *)
(*                                                                         *)
(* A request's id is unique only within its ChildConnection (`#seq` starts *)
(* at 0 for each), while the child answers on its last connection.         *)
(***************************************************************************)
EXTENDS Tunnel, FiniteSets

CONSTANT Call         \* the calls made, each once

VARIABLES
  down,     \* frames from parent to child, per connection
  seq,      \* ChildConnection.#seq
  pending,  \* ChildConnection.#pending: the call each id waits for
  serving,  \* requests whose handler the child awaits
  call      \* what each caller has seen

rpcVars == <<down, seq, pending, serving, call>>

Waiting(c, k) == [state |-> "waiting", on |-> c, of |-> k]
Settled(k)    == call[k].state \in {"answered", "rejected", "timeout"}

Ids       == 1..Cardinality(Call)
Entry     == [id : Ids, call : Call]
CallState ==
  [state : {"idle"}]
    \cup [state : {"waiting", "rejected", "timeout"}, on : Conn, of : Call]
    \cup [state : {"answered"}, on : Conn, of : Call, from : Conn]

RpcTypeOK ==
  /\ down \in [Conn -> Seq(Entry)]
  /\ seq \in [Conn -> 0..Cardinality(Call)]
  /\ pending \in [Conn -> SUBSET Entry]
  /\ serving \subseteq [id : Ids, call : Call, from : Conn]
  /\ call \in [Call -> CallState]

RpcInit ==
  /\ Init
  /\ down = [c \in Conn |-> <<>>]
  /\ seq = [c \in Conn |-> 0]
  /\ pending = [c \in Conn |-> {}]
  /\ serving = {}
  /\ call = [k \in Call |-> [state |-> "idle"]]
-----------------------------------------------------------------------------
(* The parent *)

BugSameId(c) == 1
NextId(c) == seq[c] + 1

\* request() on the connection the hub has now.  On one that is closing the
\* frame goes nowhere, and the call waits for the timer or the close.
Request(k) ==
  /\ call[k].state = "idle"
  /\ hub # None
  /\ LET entry == [id |-> NextId(hub), call |-> k] IN
       /\ seq' = [seq EXCEPT ![hub] = @ + 1]
       /\ pending' = [pending EXCEPT ![hub] = @ \cup {entry}]
       /\ down' = IF pend[hub] = "open" THEN [down EXCEPT ![hub] = Append(@, entry)] ELSE down
  /\ call' = [call EXCEPT ![k] = Waiting(hub, k)]
  /\ UNCHANGED <<vars, serving>>

\* The request's timer, which is cleared with its entry.
RequestTimeout(k) ==
  /\ call[k].state = "waiting"
  /\ \E e \in pending[call[k].on] : e.call = k
  /\ pending' = [pending EXCEPT ![call[k].on] = {e \in @ : e.call # k}]
  /\ call' = [call EXCEPT ![k].state = "timeout"]
  /\ UNCHANGED <<vars, down, seq, serving>>

\* #route of a res frame: whoever waits for that id on this connection gets
\* the answer; nobody does after a timeout.
BugEntryKept(c, id) == pending[c]
Unanswered(c, id) == {e \in pending[c] : e.id # id}

Answer(c) ==
  /\ Route(c)
  /\ Head(up[c]).type = "res"
  /\ LET f == Head(up[c])
         waiters == {e.call : e \in {e \in pending[c] : e.id = f.id}}
     IN  /\ call' = [k \in Call |->
                       IF k \in waiters
                       THEN [state |-> "answered", on |-> c, of |-> f.call, from |-> f.from]
                       ELSE call[k]]
         /\ pending' = [pending EXCEPT ![c] = Unanswered(c, f.id)]
  /\ UNCHANGED <<down, seq, serving>>

RouteOther(c) ==
  /\ Route(c)
  /\ Head(up[c]).type # "res"
  /\ UNCHANGED rpcVars

\* #gone: every call waiting on the connection is rejected.
BugGoneSilently(c) == call
RejectedBy(c) ==
  [k \in Call |-> IF call[k].state = "waiting" /\ call[k].on = c
                  THEN [call[k] EXCEPT !.state = "rejected"] ELSE call[k]]

ParentGone(c) ==
  /\ ParentClosed(c) \/ ParentFails(c)
  /\ pending' = [pending EXCEPT ![c] = {}]
  /\ call' = RejectedBy(c)
  /\ UNCHANGED <<down, seq, serving>>

\* A restart of the parent takes its callers with it.
RpcRestart ==
  /\ ParentRestart
  /\ pending' = [c \in Conn |-> {}]
  /\ call' = [k \in Call |-> IF call[k].state = "waiting"
                             THEN [call[k] EXCEPT !.state = "rejected"] ELSE call[k]]
  /\ UNCHANGED <<down, seq, serving>>
-----------------------------------------------------------------------------
(* The child *)

\* #route of a req frame: a denied method is answered at once, any other
\* after the local herdr or the broker method replied or failed; either way
\* one res frame is sent later.
Serve(c) ==
  /\ cend[c] \in {"open", "closing"}
  /\ down[c] # <<>>
  /\ LET r == Head(down[c]) IN
       serving' = serving \cup {[id |-> r.id, call |-> r.call, from |-> c]}
  /\ down' = [down EXCEPT ![c] = Tail(@)]
  /\ UNCHANGED <<vars, seq, pending, call>>

\* The reply goes out through #send: on the link's last connection, whichever
\* the request came on.  A stopped link's connection no longer sends.
Result(r) == [type |-> "res", id |-> r.id, call |-> r.call, from |-> r.from]

ServeDone(r) ==
  /\ r \in serving
  /\ serving' = serving \ {r}
  /\ up' = IF r.from \in retired THEN up ELSE Wired(Result(r))
  /\ UNCHANGED <<childVars, parentVars, bounds, down, seq, pending, call>>
-----------------------------------------------------------------------------
Requests == [id : Ids, call : Call, from : Conn]

ASSUME RpcAssumption ==
  /\ IsFiniteSet(Call)
  /\ {f \in CallFrame : f.type = "res"} = {Result(r) : r \in Requests}

RpcNext ==
  \/ \E k \in Call : Request(k) \/ RequestTimeout(k)
  \/ \E r \in Requests : ServeDone(r)
  \/ \E c \in Conn :
       \/ Serve(c) \/ Answer(c) \/ RouteOther(c) \/ ParentGone(c)
       \/ (ChildStep(c) \/ HelloTimeout(c) \/ Enroll(c) \/ BadHello(c)) /\ UNCHANGED rpcVars
  \/ Disconnect /\ UNCHANGED rpcVars
  \/ RpcRestart

allVars == <<vars, rpcVars>>
RpcSpec == RpcInit /\ [][RpcNext]_allVars

\* A timer that was set fires, if nothing settled the call before.
RpcFairSpec == RpcSpec /\ \A k \in Call : WF_allVars(RequestTimeout(k))
-----------------------------------------------------------------------------
\* A connection holds an entry for exactly the calls that wait on it, one id
\* each, and only until its close: no caller waits without a timer and a
\* close that will reject it, and no entry outlives its caller.
PendingIsWaiting ==
  \A c \in Conn :
    /\ {e.call : e \in pending[c]} = {k \in Call : call[k].state = "waiting" /\ call[k].on = c}
    /\ \A e, f \in pending[c] : e.id = f.id <=> e.call = f.call
    /\ pending[c] # {} => pend[c] \in {"open", "closing"}

\* Every call is settled in the end: by its answer, the tunnel's close or its
\* own timer.
EveryCallSettles == \A k \in Call : call[k].state = "waiting" ~> Settled(k)

\* What the callers are told of their calls, as CallPromise.tla sees it.
Standing == [k \in Call |-> call[k].state]
Lines    == [k \in Call |-> IF call[k].state = "idle" THEN None ELSE call[k].on]
Told     == [k \in Call |-> IF call[k].state = "answered" THEN {call[k].of} ELSE {}]
Promise  == INSTANCE CallPromise WITH Line <- Conn, state <- Standing, line <- Lines, told <- Told

\* Whatever frames, timers, closes and restarts overlap on however many
\* connections: an answer that comes after the timeout or the close settles
\* nobody, no answer is given twice, and one given on the connection it was
\* asked for on is the caller's own, since ids are not reused there.  An answer
\* to a call of a lost connection is given on the next one and may settle
\* another call there, as CallPromise.tla allows.
CallPromiseSpec == Promise!Spec
=============================================================================
