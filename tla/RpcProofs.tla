----------------------------- MODULE RpcProofs -----------------------------
(***************************************************************************)
(* Theorems about the calls over the tunnel, for any number of calls,      *)
(* connections and faults.                                                 *)
(*                                                                         *)
(* PendingIsWaiting needs that a number is above every one its connection  *)
(* gave out before, and, for the connection's end, what TunnelProofs knows *)
(* of the hub's tunnel.  OwnAnswerOnOneTunnel needs that a number names    *)
(* one call wherever it still is: awaited, on its way down, served, or in  *)
(* an answer on its way up on whichever connection.  That CallPromise.tla  *)
(* is implemented needs, in the third part, that a request or its answer   *)
(* is in one place only, and which connection it was made on.              *)
(***************************************************************************)
EXTENDS TunnelRpc, TunnelProofs, FiniteSetTheorems

Made == {k \in Call : call[k].state # "idle"}

\* A connection has given out no more numbers than calls were made.
SeqIsBounded == \A c \in Conn : seq[c] <= Cardinality(Made)

\* The number i of connection c is in use for call k.
Answered(c, i, k) ==
  \E d \in Conn, r \in Requests : OnWire(d, Result(r)) /\ r.from = c /\ r.id = i /\ r.call = k
Issued(c, i, k) ==
  \/ \E e \in pending[c] : e.id = i /\ e.call = k
  \/ \E n \in DOMAIN down[c] : down[c][n].id = i /\ down[c][n].call = k
  \/ \E r \in serving : r.from = c /\ r.id = i /\ r.call = k
  \/ Answered(c, i, k)

IdsAreIssued == \A c \in Conn, i \in Ids, k \in Call : Issued(c, i, k) => i <= seq[c]
IdNamesCall ==
  \A c \in Conn, i \in Ids, k, l \in Call : Issued(c, i, k) /\ Issued(c, i, l) => k = l

\* The connection of a waiting call has its entry, and the other way round.
WaitersPend ==
  \A c \in Conn, k \in Call :
    (\E e \in pending[c] : e.call = k) <=> (call[k].state = "waiting" /\ call[k].on = c)
CallHasOneId == \A c \in Conn : \A e, f \in pending[c] : e.call = f.call => e.id = f.id
PendingWillClose == \A c \in Conn : pending[c] # {} => pend[c] \in {"open", "closing"}

\* An answer asked for and given on one connection is the answer to that very
\* call.
OwnAnswerOnOneTunnel ==
  \A k \in Call : call[k].state = "answered" /\ call[k].from = call[k].on => call[k].of = k

RpcIInv ==
  /\ IInv /\ RpcTypeOK /\ SeqIsBounded
  /\ IdsAreIssued /\ IdNamesCall
  /\ WaitersPend /\ CallHasOneId /\ PendingWillClose
  /\ OwnAnswerOnOneTunnel
-----------------------------------------------------------------------------
(* The tunnel's part of a step *)

\* The answers on the wire are results of requests.
LEMMA ResFrames ==
  ASSUME NEW f \in Frame, f.type = "res"
  PROVE  f \in CallFrame /\ \E r \in Requests : f = Result(r)
<1>1. f \in CallFrame
  BY DEF Frame
<1> QED BY <1>1, RpcAssumption

LEMMA ResultIsFrame ==
  ASSUME NEW r \in Requests
  PROVE  Result(r) \in Frame /\ Result(r).type = "res"
BY RpcAssumption DEF Frame, Result

LEMMA TunnelPartKeeps ==
  ASSUME IInv, TunnelPart
  PROVE  /\ IInv'
         /\ \A d \in Conn, r \in Requests : OnWire(d, Result(r))' => OnWire(d, Result(r))
<1>1. IInv'
  BY NextInv DEF TunnelPart, Next
<1>2. ASSUME NEW d \in Conn, NEW r \in Requests, OnWire(d, Result(r))' PROVE OnWire(d, Result(r))
  <2> DEFINE f == Result(r)
  <2>1. f.type # "hello" /\ TypeOK
    BY ResultIsFrame DEF IInv
  <2> HIDE DEF f
  <2>2. OnWire(d, f)'
    BY <1>2 DEF f, Result
  <2>3. OnWire(d, f)
    BY <2>1, <2>2, TunnelPartWire
  <2> QED BY <2>3 DEF f
<1> QED BY <1>1, <1>2

\* A parent end that is still to close stays so until it does.
LEMMA EndsStayOpen ==
  ASSUME IInv, NEW c \in Conn, ChildStep(c) \/ HelloTimeout(c) \/ Enroll(c) \/ BadHello(c)
                               \/ Route(c) \/ Disconnect,
         NEW d \in Conn, pend[d] \in {"open", "closing"}
  PROVE  pend'[d] \in {"open", "closing"}
<1>1. TypeOK /\ hub \in Conn \cup {None} /\ c \in Conn \cup {None}
  BY DEF IInv, TypeOK
<1>2. CASE ChildStep(c)
  BY <1>1, <1>2, SnapshotStepSees, SeesOnly
  DEF TypeOK, ChildStep, Dial, Opened, SnapshotDone, ChildClosed, ChildFails, ChildEnd, Reload,
      parentVars
<1>3. CASE HelloTimeout(c) \/ BadHello(c)
  BY <1>1, <1>3, ClosedSoftly DEF HelloTimeout, BadHello
<1>4. CASE Enroll(c) \/ Disconnect
  BY <1>1, <1>4, ClosedSoftly DEF Enroll, Disconnect
<1>5. CASE Route(c)
  BY <1>5 DEF Route
<1> QED BY <1>2, <1>3, <1>4, <1>5
-----------------------------------------------------------------------------
(* What the steps keep *)

\* A call that was made stays made.
LEMMA SeqStaysBounded ==
  ASSUME RpcIInv, RpcTypeOK', seq' = seq,
         \A k \in Call : call[k].state # "idle" => call'[k].state # "idle"
  PROVE  SeqIsBounded'
<1>1. Made \subseteq Made' /\ Made' \subseteq Call
  BY DEF Made
<1>2. IsFiniteSet(Made') /\ IsFiniteSet(Made)
  BY <1>1, RpcAssumption, FS_Subset
<1>3. Cardinality(Made) \in Nat /\ Cardinality(Made') \in Nat /\ Cardinality(Made) <= Cardinality(Made')
  BY <1>1, <1>2, FS_Subset, FS_CardinalityType
<1>4. \A c \in Conn : seq[c] \in Int
  BY DEF RpcIInv, RpcTypeOK
<1> QED BY <1>3, <1>4 DEF RpcIInv, SeqIsBounded

LEMMA NumbersKept ==
  ASSUME RpcIInv, seq' = seq,
         \A c \in Conn, i \in Ids, k \in Call : Issued(c, i, k)' => Issued(c, i, k)
  PROVE  IdsAreIssued' /\ IdNamesCall'
<1>1. IdsAreIssued'
  BY DEF RpcIInv, IdsAreIssued
<1>2. IdNamesCall'
  BY DEF RpcIInv, IdNamesCall
<1> QED BY <1>1, <1>2

LEMMA AnsweredKept ==
  ASSUME \A d \in Conn, r \in Requests : OnWire(d, Result(r))' => OnWire(d, Result(r)),
         NEW c \in Conn, NEW i \in Ids, NEW k \in Call, Answered(c, i, k)'
  PROVE  Answered(c, i, k)
BY DEF Answered

\* A step of the tunnel that the calls do not see.
LEMMA UnseenKeeps ==
  ASSUME RpcIInv, UNCHANGED rpcVars, TunnelPart,
         \A d \in Conn : pend[d] \in {"open", "closing"} => pend'[d] \in {"open", "closing"}
  PROVE  RpcIInv'
<1>1. UNCHANGED <<down, seq, pending, serving, call>>
  BY DEF rpcVars
<1>2. IInv' /\ \A d \in Conn, r \in Requests : OnWire(d, Result(r))' => OnWire(d, Result(r))
  BY TunnelPartKeeps DEF RpcIInv
<1>3. RpcTypeOK'
  BY <1>1 DEF RpcIInv, RpcTypeOK
<1>4. SeqIsBounded'
  BY <1>1, <1>3, SeqStaysBounded
<1>5. \A c \in Conn, i \in Ids, k \in Call : Issued(c, i, k)' => Issued(c, i, k)
  BY <1>1, <1>2, AnsweredKept DEF Issued
<1>6. IdsAreIssued' /\ IdNamesCall'
  BY <1>1, <1>5, NumbersKept
<1>7. WaitersPend' /\ CallHasOneId' /\ PendingWillClose' /\ OwnAnswerOnOneTunnel'
  BY <1>1 DEF RpcIInv, WaitersPend, CallHasOneId, PendingWillClose, OwnAnswerOnOneTunnel
<1> QED BY <1>2, <1>3, <1>4, <1>6, <1>7 DEF RpcIInv

\* A call that waits no longer has no entry any more.
LEMMA TimeoutKeeps ==
  ASSUME RpcIInv, NEW k \in Call, RequestTimeout(k)
  PROVE  RpcIInv'
<1> DEFINE o == call[k].on
<1>1. UNCHANGED <<vars, down, seq, serving>> /\ call[k].state = "waiting"
  BY DEF RequestTimeout
<1>2. call[k] \in [state : {"waiting", "rejected", "timeout"}, on : Conn, of : Call]
  BY <1>1 DEF RpcIInv, RpcTypeOK, CallState
<1>3. o \in Conn /\ [call[k] EXCEPT !.state = "timeout"] \in CallState
  BY <1>2 DEF CallState
<1>4. /\ call' = [call EXCEPT ![k] = [call[k] EXCEPT !.state = "timeout"]]
      /\ pending' = [pending EXCEPT ![o] = {e \in pending[o] : e.call # k}]
  BY DEF RequestTimeout
<1>5. call'[k].state = "timeout" /\ \A j \in Call : j # k => call'[j] = call[j]
  BY <1>2, <1>4 DEF RpcIInv, RpcTypeOK
<1>6. pending'[o] = {e \in pending[o] : e.call # k} /\ \A c \in Conn : c # o => pending'[c] = pending[c]
  BY <1>3, <1>4 DEF RpcIInv, RpcTypeOK
<1> HIDE DEF o
<1>7. RpcTypeOK'
  BY <1>1, <1>3, <1>4 DEF RpcIInv, RpcTypeOK
<1>8. IInv' /\ \A d \in Conn, r \in Requests : OnWire(d, Result(r))' => OnWire(d, Result(r))
  BY <1>1, TunnelPartKeeps DEF RpcIInv, TunnelPart
<1>9. \A c \in Conn : pending'[c] \subseteq pending[c]
  BY <1>6
<1>10. \A c \in Conn, i \in Ids, j \in Call : Issued(c, i, j)' => Issued(c, i, j)
  BY <1>1, <1>8, <1>9, AnsweredKept DEF Issued
<1>11. IdsAreIssued' /\ IdNamesCall'
  BY <1>1, <1>10, NumbersKept
<1>12. SeqIsBounded'
  BY <1>1, <1>5, <1>7, SeqStaysBounded
<1>13. WaitersPend'
  <2>1. ASSUME NEW c \in Conn, NEW j \in Call
        PROVE  (\E e \in pending'[c] : e.call = j) <=> (call'[j].state = "waiting" /\ call'[j].on = c)
    <3>1. CASE j = k
      <4>1. c # o => ~\E e \in pending[c] : e.call = k
        BY DEF o, RpcIInv, WaitersPend
      <4> QED BY <1>5, <1>6, <3>1, <4>1
    <3>2. CASE j # k
      <4>1. (\E e \in pending'[c] : e.call = j) <=> (\E e \in pending[c] : e.call = j)
        BY <1>6, <3>2
      <4> QED BY <1>5, <3>2, <4>1 DEF RpcIInv, WaitersPend
    <3> QED BY <3>1, <3>2
  <2> QED BY <2>1 DEF WaitersPend
<1>14. CallHasOneId' /\ PendingWillClose'
  BY <1>1, <1>9 DEF RpcIInv, CallHasOneId, PendingWillClose, vars, parentVars
<1>15. OwnAnswerOnOneTunnel'
  BY <1>5 DEF RpcIInv, OwnAnswerOnOneTunnel
<1> QED BY <1>7, <1>8, <1>11, <1>12, <1>13, <1>14, <1>15 DEF RpcIInv

\* A new call takes a number no earlier one has.
LEMMA RequestKeeps ==
  ASSUME RpcIInv, NEW k \in Call, Request(k)
  PROVE  RpcIInv'
<1> DEFINE i == seq[hub] + 1
<1> DEFINE entry == [id |-> i, call |-> k]
<1>1. UNCHANGED <<vars, serving>> /\ call[k].state = "idle" /\ hub \in Conn
  BY DEF Request, RpcIInv, IInv, TypeOK
<1>2. /\ seq' = [seq EXCEPT ![hub] = i]
      /\ pending' = [pending EXCEPT ![hub] = pending[hub] \cup {entry}]
      /\ call' = [call EXCEPT ![k] = Waiting(hub, k)]
      /\ down' = down \/ down' = [down EXCEPT ![hub] = Append(down[hub], entry)]
  BY DEF Request, NextId
<1>3. i \in Ids /\ seq[hub] \in Nat
  <2>1. k \notin Made /\ Made \cup {k} \subseteq Call
    BY <1>1 DEF Made
  <2>2. IsFiniteSet(Made) /\ IsFiniteSet(Made \cup {k})
    BY <2>1, RpcAssumption, FS_Subset
  <2>3. Cardinality(Made \cup {k}) = Cardinality(Made) + 1
    BY <2>1, <2>2, FS_AddElement
  <2>4. Cardinality(Made \cup {k}) <= Cardinality(Call)
    BY <2>1, RpcAssumption, FS_Subset
  <2>5. Cardinality(Made) \in Nat /\ Cardinality(Call) \in Nat
    BY <2>2, RpcAssumption, FS_CardinalityType
  <2>6. seq[hub] \in 0..Cardinality(Call) /\ seq[hub] <= Cardinality(Made)
    BY <1>1 DEF RpcIInv, RpcTypeOK, SeqIsBounded
  <2> QED BY <2>3, <2>4, <2>5, <2>6 DEF Ids
<1>4. entry \in Entry /\ entry.id = i /\ entry.call = k
  BY <1>3 DEF Entry
<1> HIDE DEF entry
<1>5. Waiting(hub, k) \in CallState /\ Waiting(hub, k).state = "waiting" /\ Waiting(hub, k).on = hub
  BY <1>1 DEF Waiting, CallState
<1>6. call'[k] = Waiting(hub, k) /\ \A j \in Call : j # k => call'[j] = call[j]
  BY <1>2 DEF RpcIInv, RpcTypeOK
<1>7. /\ pending'[hub] = pending[hub] \cup {entry} /\ seq'[hub] = i
      /\ \A c \in Conn : c # hub => pending'[c] = pending[c] /\ seq'[c] = seq[c]
  BY <1>1, <1>2 DEF RpcIInv, RpcTypeOK
<1> HIDE DEF i
<1>8. down' \in [Conn -> Seq(Entry)]
      /\ \A c \in Conn : \A n \in DOMAIN down'[c] :
           (c = hub /\ down'[c][n] = entry) \/ (n \in DOMAIN down[c] /\ down'[c][n] = down[c][n])
  <2>1. CASE down' = down
    BY <2>1 DEF RpcIInv, RpcTypeOK
  <2>2. CASE down' = [down EXCEPT ![hub] = Append(down[hub], entry)]
    <3>1. down[hub] \in Seq(Entry)
      BY <1>1 DEF RpcIInv, RpcTypeOK
    <3>2. Append(down[hub], entry) \in Seq(Entry)
          /\ \A n \in DOMAIN Append(down[hub], entry) :
               \/ Append(down[hub], entry)[n] = entry
               \/ n \in DOMAIN down[hub] /\ Append(down[hub], entry)[n] = down[hub][n]
      BY <1>4, <3>1, AppendIn
    <3>3. down'[hub] = Append(down[hub], entry) /\ \A c \in Conn : c # hub => down'[c] = down[c]
      BY <1>1, <2>2 DEF RpcIInv, RpcTypeOK
    <3> QED BY <1>1, <2>2, <3>2, <3>3 DEF RpcIInv, RpcTypeOK
  <2> QED BY <1>2, <2>1, <2>2
<1>9. RpcTypeOK'
  <2>1. pending' \in [Conn -> SUBSET Entry]
    BY <1>2, <1>4 DEF RpcIInv, RpcTypeOK
  <2>2. seq' \in [Conn -> 0..Cardinality(Call)]
    <3>1. i \in 0..Cardinality(Call)
      BY <1>3, RpcAssumption, FS_CardinalityType DEF Ids
    <3> QED BY <1>2, <3>1 DEF RpcIInv, RpcTypeOK
  <2>3. call' \in [Call -> CallState]
    BY <1>2, <1>5 DEF RpcIInv, RpcTypeOK
  <2> QED BY <1>1, <1>8, <2>1, <2>2, <2>3 DEF RpcIInv, RpcTypeOK
<1>10. IInv' /\ \A d \in Conn, r \in Requests : OnWire(d, Result(r))' => OnWire(d, Result(r))
  BY <1>1, TunnelPartKeeps DEF RpcIInv, TunnelPart
<1>11. ASSUME NEW c \in Conn, NEW n \in Ids, NEW j \in Call, Issued(c, n, j)'
       PROVE  Issued(c, n, j) \/ (c = hub /\ n = i /\ j = k)
  <2>1. CASE \E e \in pending'[c] : e.id = n /\ e.call = j
    BY <1>4, <1>7, <2>1 DEF Issued
  <2>2. CASE \E m \in DOMAIN down'[c] : down'[c][m].id = n /\ down'[c][m].call = j
    BY <1>4, <1>8, <2>2 DEF Issued
  <2>3. CASE \E r \in serving' : r.from = c /\ r.id = n /\ r.call = j
    BY <1>1, <2>3 DEF Issued
  <2>4. CASE Answered(c, n, j)'
    BY <1>10, <2>4, AnsweredKept DEF Issued
  <2> QED BY <1>11, <2>1, <2>2, <2>3, <2>4 DEF Issued
<1>12. \A c \in Conn : seq[c] <= seq'[c] /\ seq[c] \in Int /\ seq'[c] \in Int
  <2>1. \A c \in Conn : seq[c] \in Int /\ seq'[c] \in Int
    BY <1>9 DEF RpcIInv, RpcTypeOK
  <2>2. seq'[hub] = seq[hub] + 1
    BY <1>7 DEF i
  <2> QED BY <1>7, <2>1, <2>2
<1>13. IdsAreIssued'
  BY <1>3, <1>7, <1>11, <1>12 DEF RpcIInv, IdsAreIssued, Ids
<1>14. \A j \in Call : ~Issued(hub, i, j)
  BY <1>1, <1>3 DEF i, RpcIInv, IdsAreIssued
<1>15. IdNamesCall'
  BY <1>11, <1>14 DEF RpcIInv, IdNamesCall
<1>16. SeqIsBounded'
  <2>1. Made' = Made \cup {k} /\ k \notin Made /\ Made \subseteq Call
    BY <1>1, <1>5, <1>6 DEF Made
  <2>2. IsFiniteSet(Made)
    BY <2>1, RpcAssumption, FS_Subset
  <2>3. Cardinality(Made') = Cardinality(Made) + 1 /\ Cardinality(Made) \in Nat
    BY <2>1, <2>2, FS_AddElement, FS_CardinalityType
  <2>4. \A c \in Conn : seq'[c] <= seq[c] + 1
    BY <1>7, <1>12 DEF i
  <2> QED BY <1>12, <2>3, <2>4 DEF RpcIInv, SeqIsBounded
<1>17. ~\E c \in Conn : \E e \in pending[c] : e.call = k
  BY <1>1 DEF RpcIInv, WaitersPend
<1>18. WaitersPend'
  <2>1. ASSUME NEW c \in Conn, NEW j \in Call
        PROVE  (\E e \in pending'[c] : e.call = j) <=> (call'[j].state = "waiting" /\ call'[j].on = c)
    <3>1. CASE j = k
      BY <1>4, <1>5, <1>6, <1>7, <1>17, <3>1
    <3>2. CASE j # k
      BY <1>4, <1>6, <1>7, <3>2 DEF RpcIInv, WaitersPend
    <3> QED BY <3>1, <3>2
  <2> QED BY <2>1 DEF WaitersPend
<1>19. CallHasOneId'
  <2>1. \A c \in Conn : \A e, f \in pending[c] : e.call = f.call => e.id = f.id
    BY DEF RpcIInv, CallHasOneId
  <2>2. ASSUME NEW c \in Conn, NEW e \in pending'[c], NEW f \in pending'[c], e.call = f.call
        PROVE  e.id = f.id
    BY <1>1, <1>4, <1>7, <1>17, <2>1, <2>2
  <2> QED BY <2>2 DEF CallHasOneId
<1>20. PendingWillClose'
  <2>1. pend[hub] \in {"open", "closing"} /\ pend' = pend
    BY <1>1 DEF RpcIInv, IInv, PInv, CurrentWillClose, Conn, None, vars, parentVars
  <2> QED BY <1>7, <2>1 DEF RpcIInv, PendingWillClose
<1>21. OwnAnswerOnOneTunnel'
  BY <1>5, <1>6 DEF RpcIInv, OwnAnswerOnOneTunnel
<1> QED BY <1>9, <1>10, <1>13, <1>15, <1>16, <1>18, <1>19, <1>20, <1>21 DEF RpcIInv

\* The child reads a request: its number moves from the wire to the handler.
LEMMA ServeKeeps ==
  ASSUME RpcIInv, NEW c \in Conn, Serve(c)
  PROVE  RpcIInv'
<1> DEFINE q == Head(down[c])
<1> DEFINE r == [id |-> q.id, call |-> q.call, from |-> c]
<1>1. UNCHANGED <<vars, seq, pending, call>> /\ serving' = serving \cup {r}
      /\ down' = [down EXCEPT ![c] = Tail(down[c])]
  BY DEF Serve
<1>2. down[c] \in Seq(Entry) /\ down[c] # <<>>
  BY DEF Serve, RpcIInv, RpcTypeOK
<1>3. /\ Tail(down[c]) \in Seq(Entry) /\ q \in Entry
      /\ \A i \in DOMAIN Tail(down[c]) : \E j \in DOMAIN down[c] : Tail(down[c])[i] = down[c][j]
      /\ \E j \in DOMAIN down[c] : q = down[c][j]
  BY <1>2, TailIn
<1> HIDE DEF q
<1>4. r \in [id : Ids, call : Call, from : Conn] /\ r.id = q.id /\ r.call = q.call /\ r.from = c
  BY <1>3 DEF Entry
<1> HIDE DEF r
<1>5. RpcTypeOK'
  BY <1>1, <1>3, <1>4 DEF RpcIInv, RpcTypeOK
<1>6. IInv' /\ \A d \in Conn, s \in Requests : OnWire(d, Result(s))' => OnWire(d, Result(s))
  BY <1>1, TunnelPartKeeps DEF RpcIInv, TunnelPart
<1>7. down'[c] = Tail(down[c]) /\ \A d \in Conn : d # c => down'[d] = down[d]
  BY <1>1 DEF RpcIInv, RpcTypeOK
<1>8. ASSUME NEW d \in Conn, NEW i \in Ids, NEW k \in Call, Issued(d, i, k)'
      PROVE  Issued(d, i, k)
  <2>1. CASE \E e \in pending'[d] : e.id = i /\ e.call = k
    BY <1>1, <2>1 DEF Issued
  <2>2. CASE \E n \in DOMAIN down'[d] : down'[d][n].id = i /\ down'[d][n].call = k
    <3>1. CASE d = c
      <4>1. PICK n \in DOMAIN Tail(down[c]) : Tail(down[c])[n].id = i /\ Tail(down[c])[n].call = k
        BY <1>7, <2>2, <3>1
      <4>2. PICK j \in DOMAIN down[c] : Tail(down[c])[n] = down[c][j]
        BY <1>3
      <4> QED BY <3>1, <4>1, <4>2 DEF Issued
    <3>2. CASE d # c
      BY <1>7, <2>2, <3>2 DEF Issued
    <3> QED BY <3>1, <3>2
  <2>3. CASE \E s \in serving' : s.from = d /\ s.id = i /\ s.call = k
    BY <1>1, <1>3, <1>4, <2>3 DEF Issued
  <2>4. CASE Answered(d, i, k)'
    BY <1>6, <2>4, AnsweredKept DEF Issued
  <2> QED BY <1>8, <2>1, <2>2, <2>3, <2>4 DEF Issued
<1>9. IdsAreIssued' /\ IdNamesCall'
  BY <1>1, <1>8, NumbersKept
<1>10. SeqIsBounded'
  BY <1>1, <1>5, SeqStaysBounded
<1>11. WaitersPend' /\ CallHasOneId' /\ PendingWillClose' /\ OwnAnswerOnOneTunnel'
  BY <1>1 DEF RpcIInv, WaitersPend, CallHasOneId, PendingWillClose, OwnAnswerOnOneTunnel, vars,
              parentVars
<1> QED BY <1>5, <1>6, <1>9, <1>10, <1>11 DEF RpcIInv

\* The handler is done: its number moves to the wire, or is gone.
LEMMA ServeDoneKeeps ==
  ASSUME RpcIInv, NEW r \in Requests, ServeDone(r)
  PROVE  RpcIInv'
<1>1. /\ UNCHANGED <<childVars, parentVars, bounds, down, seq, pending, call>>
      /\ r \in serving /\ serving' = serving \ {r}
      /\ up' = up \/ up' = Wired(Result(r))
  BY DEF ServeDone
<1>2. TypeOK /\ Result(r) \in Frame
  BY ResultIsFrame DEF RpcIInv, IInv
<1>3. TypeOK'
  <2>1. up' \in [Conn -> Seq(Frame)]
    BY <1>1, <1>2, WiredType DEF TypeOK
  <2> QED BY <1>1, <1>2, <2>1 DEF TypeOK, childVars, parentVars, bounds
<1>4. IInv'
  BY <1>1, <1>3, SendingKeepsInv DEF RpcIInv, childVars
<1>5. RpcTypeOK'
  BY <1>1 DEF RpcIInv, RpcTypeOK
<1>6. ASSUME NEW d \in Conn, NEW s \in Requests, OnWire(d, Result(s))'
      PROVE  OnWire(d, Result(s)) \/ s = r
  <2> DEFINE f == Result(s)
  <2> DEFINE g == Result(r)
  <2>1. f = g => s = r
    BY DEF Result, Requests
  <2>2. OnWire(d, f)' /\ g \in Frame
    BY <1>2, <1>6 DEF Result
  <2>3. CASE up' = up
    BY <1>6, <2>3 DEF OnWire, Result
  <2>4. CASE up' = Wired(g)
    <3> HIDE DEF f, g
    <3>1. OnWire(d, f) \/ f = g
      BY <1>2, <2>2, <2>4, WiredWire
    <3> QED BY <2>1, <3>1 DEF f
  <2> QED BY <1>1, <2>3, <2>4
<1>7. ASSUME NEW c \in Conn, NEW i \in Ids, NEW k \in Call, Issued(c, i, k)'
      PROVE  Issued(c, i, k)
  <2>1. CASE Answered(c, i, k)'
    BY <1>1, <1>6, <2>1 DEF Answered, Issued
  <2>2. CASE ~Answered(c, i, k)'
    BY <1>1, <1>7, <2>2 DEF Issued
  <2> QED BY <2>1, <2>2
<1>8. IdsAreIssued' /\ IdNamesCall'
  BY <1>1, <1>7, NumbersKept
<1>9. SeqIsBounded'
  BY <1>1, <1>5, SeqStaysBounded
<1>10. WaitersPend' /\ CallHasOneId' /\ PendingWillClose' /\ OwnAnswerOnOneTunnel'
  BY <1>1 DEF RpcIInv, WaitersPend, CallHasOneId, PendingWillClose, OwnAnswerOnOneTunnel, parentVars
<1> QED BY <1>4, <1>5, <1>8, <1>9, <1>10 DEF RpcIInv

\* An answer settles the call that waits for its number.
LEMMA AnswerKeeps ==
  ASSUME RpcIInv, NEW c \in Conn, Answer(c)
  PROVE  RpcIInv'
<1> DEFINE f == Head(up[c])
<1>1. PICK r \in Requests : f = Result(r) /\ OnWire(c, f)
  <2>1. OnWire(c, f) /\ f \in Frame /\ f.type = "res"
    BY ReceivesWire DEF Answer, Route, RpcIInv, IInv
  <2> QED BY <2>1, ResFrames
<1>2. f.id = r.id /\ f.call = r.call /\ f.from = r.from /\ r.call \in Call /\ r.from \in Conn /\ r.id \in Ids
  BY <1>1 DEF Result, Requests
<1> DEFINE waiters == {e.call : e \in {e \in pending[c] : e.id = r.id}}
<1> DEFINE answer == [state |-> "answered", on |-> c, of |-> r.call, from |-> r.from]
<1>3. /\ UNCHANGED <<down, seq, serving>> /\ Route(c)
      /\ call' = [k \in Call |-> IF k \in waiters THEN answer ELSE call[k]]
      /\ pending' = [pending EXCEPT ![c] = {e \in pending[c] : e.id # r.id}]
  BY <1>2 DEF Answer, Unanswered
<1>4. /\ pending'[c] = {e \in pending[c] : e.id # r.id}
      /\ \A d \in Conn : d # c => pending'[d] = pending[d]
  BY <1>3 DEF RpcIInv, RpcTypeOK
<1>5. answer \in CallState /\ answer.state = "answered" /\ answer.on = c /\ answer.of = r.call
      /\ answer.from = r.from
  BY <1>2 DEF CallState
<1>6. \A k \in Call : call'[k] = IF k \in waiters THEN answer ELSE call[k]
  BY <1>3
<1> HIDE DEF answer
<1>7. RpcTypeOK'
  <2>1. pending' \in [Conn -> SUBSET Entry]
    BY <1>3 DEF RpcIInv, RpcTypeOK
  <2>2. call' \in [Call -> CallState]
    BY <1>3, <1>5 DEF RpcIInv, RpcTypeOK
  <2> QED BY <1>3, <2>1, <2>2 DEF RpcIInv, RpcTypeOK
<1>8. \A k \in Call : k \in waiters <=> \E e \in pending[c] : e.call = k /\ e.id = r.id
  OBVIOUS
<1> HIDE DEF waiters
<1>9. IInv' /\ \A d \in Conn, s \in Requests : OnWire(d, Result(s))' => OnWire(d, Result(s))
  BY <1>3, TunnelPartKeeps DEF RpcIInv, TunnelPart, ParentStep
<1>10. \A d \in Conn : pending'[d] \subseteq pending[d]
  BY <1>4
<1>11. \A d \in Conn, i \in Ids, k \in Call : Issued(d, i, k)' => Issued(d, i, k)
  BY <1>3, <1>9, <1>10, AnsweredKept DEF Issued
<1>12. IdsAreIssued' /\ IdNamesCall'
  BY <1>3, <1>11, NumbersKept
<1>13. SeqIsBounded'
  BY <1>3, <1>5, <1>6, <1>7, SeqStaysBounded
<1>14. WaitersPend'
  <2>1. ASSUME NEW d \in Conn, NEW k \in Call
        PROVE  (\E e \in pending'[d] : e.call = k) <=> (call'[k].state = "waiting" /\ call'[k].on = d)
    <3>1. (\E e \in pending[d] : e.call = k) <=> (call[k].state = "waiting" /\ call[k].on = d)
      BY DEF RpcIInv, WaitersPend
    <3>2. CASE k \in waiters
      <4>1. call[k].on = c /\ call'[k].state = "answered"
        BY <1>5, <1>6, <1>8, <3>2 DEF RpcIInv, WaitersPend
      <4>2. ~\E e \in pending'[d] : e.call = k
        <5>1. CASE d = c
          BY <1>4, <1>8, <3>2, <5>1 DEF RpcIInv, CallHasOneId
        <5>2. CASE d # c
          BY <1>4, <3>1, <4>1, <5>2
        <5> QED BY <5>1, <5>2
      <4> QED BY <4>1, <4>2
    <3>3. CASE k \notin waiters
      <4>1. (\E e \in pending'[d] : e.call = k) <=> (\E e \in pending[d] : e.call = k)
        BY <1>4, <1>8, <3>3
      <4> QED BY <1>6, <3>1, <3>3, <4>1
    <3> QED BY <3>2, <3>3
  <2> QED BY <2>1 DEF WaitersPend
<1>15. CallHasOneId'
  BY <1>10 DEF RpcIInv, CallHasOneId
<1>16. PendingWillClose'
  <2>1. pend' = pend
    BY <1>3 DEF Route
  <2> QED BY <1>10, <2>1 DEF RpcIInv, PendingWillClose
<1>17. OwnAnswerOnOneTunnel'
  <2> SUFFICES ASSUME NEW k \in Call, k \in waiters, r.from = c PROVE r.call = k
    BY <1>5, <1>6 DEF RpcIInv, OwnAnswerOnOneTunnel
  <2>1. Issued(c, r.id, k)
    BY <1>8 DEF Issued
  <2>2. Answered(c, r.id, r.call)
    BY <1>1 DEF Answered
  <2> QED BY <1>2, <2>1, <2>2 DEF RpcIInv, IdNamesCall, Issued
<1> QED BY <1>7, <1>9, <1>12, <1>13, <1>14, <1>15, <1>16, <1>17 DEF RpcIInv

\* The calls of a connection whose parent end is gone are rejected.
LEMMA GoneKeeps ==
  ASSUME RpcIInv, NEW c \in Conn, ParentGone(c)
  PROVE  RpcIInv'
<1>1. /\ UNCHANGED <<down, seq, serving>> /\ ParentEnd(c) /\ TunnelPart
      /\ pending' = [pending EXCEPT ![c] = {}]
      /\ call' = RejectedBy(c)
  BY DEF ParentGone, TunnelPart, ParentStep, ParentClosed, ParentFails
<1>2. pending'[c] = {} /\ \A d \in Conn : d # c => pending'[d] = pending[d]
  BY <1>1 DEF RpcIInv, RpcTypeOK
<1>3. \A d \in Conn : d # c => pend'[d] = pend[d]
  BY <1>1 DEF ParentEnd, RpcIInv, IInv, TypeOK
<1>4. ASSUME NEW k \in Call
      PROVE  /\ call'[k] \in CallState
             /\ \/ call'[k] = call[k] /\ ~(call[k].state = "waiting" /\ call[k].on = c)
                \/ call[k].state = "waiting" /\ call[k].on = c /\ call'[k].state = "rejected"
  <2>1. call[k] \in CallState
    BY DEF RpcIInv, RpcTypeOK
  <2>2. CASE call[k].state = "waiting" /\ call[k].on = c
    <3>1. call'[k] = [call[k] EXCEPT !.state = "rejected"]
      BY <1>1, <2>2 DEF RejectedBy
    <3>2. call[k] \in [state : {"waiting", "rejected", "timeout"}, on : Conn, of : Call]
      BY <2>1, <2>2 DEF CallState
    <3> QED BY <2>2, <3>1, <3>2 DEF CallState
  <2>3. CASE ~(call[k].state = "waiting" /\ call[k].on = c)
    BY <1>1, <2>1, <2>3 DEF RejectedBy
  <2> QED BY <2>2, <2>3
<1>5. RpcTypeOK'
  <2>1. call' \in [Call -> CallState]
    BY <1>1, <1>4 DEF RejectedBy
  <2> QED BY <1>1, <2>1 DEF RpcIInv, RpcTypeOK
<1>6. IInv' /\ \A d \in Conn, r \in Requests : OnWire(d, Result(r))' => OnWire(d, Result(r))
  BY <1>1, TunnelPartKeeps DEF RpcIInv
<1>7. \A d \in Conn : pending'[d] \subseteq pending[d]
  BY <1>2
<1>8. \A d \in Conn, i \in Ids, k \in Call : Issued(d, i, k)' => Issued(d, i, k)
  BY <1>1, <1>6, <1>7, AnsweredKept DEF Issued
<1>9. IdsAreIssued' /\ IdNamesCall'
  BY <1>1, <1>8, NumbersKept
<1>10. SeqIsBounded'
  BY <1>1, <1>4, <1>5, SeqStaysBounded
<1>11. WaitersPend'
  <2>1. ASSUME NEW d \in Conn, NEW k \in Call
        PROVE  (\E e \in pending'[d] : e.call = k) <=> (call'[k].state = "waiting" /\ call'[k].on = d)
    <3>1. (\E e \in pending[d] : e.call = k) <=> (call[k].state = "waiting" /\ call[k].on = d)
      BY DEF RpcIInv, WaitersPend
    <3>2. CASE d = c
      BY <1>2, <1>4, <3>2
    <3>3. CASE d # c
      BY <1>2, <1>4, <3>1, <3>3
    <3> QED BY <3>2, <3>3
  <2> QED BY <2>1 DEF WaitersPend
<1>12. CallHasOneId' /\ PendingWillClose'
  BY <1>2, <1>3, <1>7 DEF RpcIInv, CallHasOneId, PendingWillClose
<1>13. OwnAnswerOnOneTunnel'
  BY <1>4 DEF RpcIInv, OwnAnswerOnOneTunnel
<1> QED BY <1>5, <1>6, <1>9, <1>10, <1>11, <1>12, <1>13 DEF RpcIInv

\* A restart of the parent takes all of its calls with it.
LEMMA RestartKeeps ==
  ASSUME RpcIInv, RpcRestart
  PROVE  RpcIInv'
<1>1. /\ UNCHANGED <<down, seq, serving>> /\ ParentRestart
      /\ pending' = [d \in Conn |-> {}]
      /\ call' = [k \in Call |-> IF call[k].state = "waiting"
                                 THEN [call[k] EXCEPT !.state = "rejected"] ELSE call[k]]
  BY DEF RpcRestart
<1>2. ASSUME NEW k \in Call
      PROVE  /\ call'[k] \in CallState /\ call'[k].state # "waiting"
             /\ call[k].state # "idle" => call'[k].state # "idle"
             /\ call'[k].state = "answered" => call'[k] = call[k]
  <2>1. call[k] \in CallState
    BY DEF RpcIInv, RpcTypeOK
  <2>2. CASE call[k].state = "waiting"
    <3>1. call'[k] = [call[k] EXCEPT !.state = "rejected"]
      BY <1>1, <2>2
    <3>2. call[k] \in [state : {"waiting", "rejected", "timeout"}, on : Conn, of : Call]
      BY <2>1, <2>2 DEF CallState
    <3> QED BY <2>2, <3>1, <3>2 DEF CallState
  <2>3. CASE call[k].state # "waiting"
    BY <1>1, <2>1, <2>3
  <2> QED BY <2>2, <2>3
<1>3. RpcTypeOK'
  <2>1. call' \in [Call -> CallState]
    BY <1>1, <1>2
  <2> QED BY <1>1, <2>1 DEF RpcIInv, RpcTypeOK
<1>4. IInv' /\ \A d \in Conn, r \in Requests : OnWire(d, Result(r))' => OnWire(d, Result(r))
  BY <1>1, TunnelPartKeeps DEF RpcIInv, TunnelPart
<1>5. \A d \in Conn : pending'[d] = {}
  BY <1>1
<1>6. \A d \in Conn, i \in Ids, k \in Call : Issued(d, i, k)' => Issued(d, i, k)
  BY <1>1, <1>4, <1>5, AnsweredKept DEF Issued
<1>7. IdsAreIssued' /\ IdNamesCall'
  BY <1>1, <1>6, NumbersKept
<1>8. SeqIsBounded'
  BY <1>1, <1>2, <1>3, SeqStaysBounded
<1>9. WaitersPend' /\ CallHasOneId' /\ PendingWillClose'
  BY <1>2, <1>5 DEF WaitersPend, CallHasOneId, PendingWillClose
<1>10. OwnAnswerOnOneTunnel'
  BY <1>2 DEF RpcIInv, OwnAnswerOnOneTunnel
<1> QED BY <1>3, <1>4, <1>7, <1>8, <1>9, <1>10 DEF RpcIInv
-----------------------------------------------------------------------------
(* The theorems *)

LEMMA RpcNextKeeps == RpcIInv /\ [RpcNext]_allVars => RpcIInv'
<1> SUFFICES ASSUME RpcIInv, [RpcNext]_allVars PROVE RpcIInv'
  OBVIOUS
<1>1. CASE UNCHANGED allVars
  <2>1. UNCHANGED vars /\ UNCHANGED rpcVars
    BY <1>1 DEF allVars
  <2>2. pend' = pend
    BY <2>1 DEF vars, parentVars
  <2> QED BY <2>1, <2>2, UnseenKeeps DEF TunnelPart
<1>2. ASSUME NEW c \in Conn, UNCHANGED rpcVars,
             ChildStep(c) \/ HelloTimeout(c) \/ Enroll(c) \/ BadHello(c) \/ Route(c)
      PROVE  RpcIInv'
  <2>1. \A d \in Conn : pend[d] \in {"open", "closing"} => pend'[d] \in {"open", "closing"}
    BY <1>2, EndsStayOpen DEF RpcIInv
  <2>2. TunnelPart
    BY <1>2 DEF TunnelPart, ParentStep
  <2> QED BY <1>2, <2>1, <2>2, UnseenKeeps
<1>3. ASSUME Disconnect, UNCHANGED rpcVars
      PROVE  RpcIInv'
  <2>1. hub \in Conn
    BY <1>3 DEF Disconnect, RpcIInv, IInv, TypeOK
  <2>2. \A d \in Conn : pend[d] \in {"open", "closing"} => pend'[d] \in {"open", "closing"}
    BY <1>3, <2>1, EndsStayOpen DEF RpcIInv
  <2> QED BY <1>3, <2>2, UnseenKeeps DEF TunnelPart
<1> QED BY <1>1, <1>2, <1>3, RequestKeeps, TimeoutKeeps, ServeDoneKeeps, ServeKeeps, AnswerKeeps,
           GoneKeeps, RestartKeeps DEF RpcNext, RouteOther

LEMMA RpcInitInv == RpcInit => RpcIInv
<1> SUFFICES ASSUME RpcInit PROVE RpcIInv
  OBVIOUS
<1>1. IInv /\ \A c \in Conn : up[c] = <<>>
  BY InitType, InitInv DEF RpcInit, Init, IInv
<1>2. /\ \A c \in Conn : down[c] = <<>> /\ seq[c] = 0 /\ pending[c] = {}
      /\ serving = {} /\ \A k \in Call : call[k].state = "idle"
  BY DEF RpcInit
<1>3. Cardinality(Call) \in Nat /\ Made = {} /\ Cardinality({}) = 0
  BY <1>2, RpcAssumption, FS_CardinalityType, FS_EmptySet DEF Made
<1>4. RpcTypeOK
  BY <1>3 DEF RpcInit, RpcTypeOK, CallState
<1>5. \A c \in Conn, i \in Ids, k \in Call : ~Issued(c, i, k)
  BY <1>1, <1>2 DEF Issued, Answered, OnWire
<1>6. SeqIsBounded
  BY <1>2, <1>3 DEF SeqIsBounded
<1>7. IdsAreIssued /\ IdNamesCall
  BY <1>5 DEF IdsAreIssued, IdNamesCall
<1>8. WaitersPend /\ CallHasOneId /\ PendingWillClose /\ OwnAnswerOnOneTunnel
  BY <1>2 DEF WaitersPend, CallHasOneId, PendingWillClose, OwnAnswerOnOneTunnel
<1> QED BY <1>1, <1>4, <1>6, <1>7, <1>8 DEF RpcIInv

LEMMA RpcInvariance == RpcSpec => []RpcIInv
BY RpcInitInv, RpcNextKeeps, PTL DEF RpcSpec

\* ChildConnection and ParentLink: what the calls keep has its type, and no
\* connection gives out more numbers than there are calls.
THEOREM RpcTypeCorrect == RpcSpec => []RpcTypeOK
<1>1. RpcIInv => RpcTypeOK
  BY DEF RpcIInv
<1> QED BY <1>1, RpcInvariance, PTL

\* ChildConnection.request: a connection holds one entry for each call that
\* waits on it and for no other, and only while its close is still to come.
THEOREM NobodyWaitsForever == RpcSpec => []PendingIsWaiting
<1>1. ASSUME RpcIInv PROVE PendingIsWaiting
  <2> SUFFICES ASSUME NEW c \in Conn
               PROVE  /\ {e.call : e \in pending[c]}
                           = {k \in Call : call[k].state = "waiting" /\ call[k].on = c}
                      /\ \A e, f \in pending[c] : e.id = f.id <=> e.call = f.call
                      /\ pending[c] # {} => pend[c] \in {"open", "closing"}
    BY DEF PendingIsWaiting
  <2>1. pending[c] \subseteq Entry
    BY <1>1 DEF RpcIInv, RpcTypeOK
  <2>2. \A e \in pending[c] : e.id \in Ids /\ e.call \in Call /\ Issued(c, e.id, e.call)
    BY <2>1 DEF Entry, Issued
  <2>3. {e.call : e \in pending[c]} = {k \in Call : call[k].state = "waiting" /\ call[k].on = c}
    BY <1>1, <2>2 DEF RpcIInv, WaitersPend
  <2>4. \A e, f \in pending[c] : e.id = f.id <=> e.call = f.call
    BY <1>1, <2>2 DEF RpcIInv, CallHasOneId, IdNamesCall
  <2> QED BY <1>1, <2>3, <2>4 DEF RpcIInv, PendingWillClose
<1> QED BY <1>1, RpcInvariance, PTL

\* #route of a res frame: an answer asked for and given on one connection
\* answers the call it settles, whatever timed out or was lost in between.
THEOREM AnswersAreOwn == RpcSpec => []OwnAnswerOnOneTunnel
<1>1. RpcIInv => OwnAnswerOnOneTunnel
  BY DEF RpcIInv
<1> QED BY <1>1, RpcInvariance, PTL
-----------------------------------------------------------------------------
(* What the callers are told *)

\* Where the request for j, or its answer, is: on its way down on connection x,
\* served, on its way up, or given to caller x.
Kinds == {"down", "serving", "up", "told"}
Holds(kind, x, n, j) ==
  \/ kind = "down" /\ x \in Conn /\ n \in DOMAIN down[x] /\ down[x][n].call = j
  \/ kind = "serving" /\ [id |-> n, call |-> j, from |-> x] \in serving
  \/ kind = "up" /\ x \in Conn /\ n \in DOMAIN up[x] /\ up[x][n].type = "res" /\ up[x][n].call = j
  \/ kind = "told" /\ n = 0 /\ x \in Call /\ call[x].state = "answered" /\ call[x].of = j

\* It is in one place: nobody is given an answer that somebody else was given.
PlacedOnce ==
  \A j \in Call, kind, kind2 \in Kinds, x, x2 \in Conn \cup Call, n, n2 \in Nat :
    Holds(kind, x, n, j) /\ Holds(kind2, x2, n2, j) => kind = kind2 /\ x = x2 /\ n = n2

\* Only what was asked is answered, and it is known on which connection.
MadeOn(j, c) == call[j].state # "idle" /\ call[j].on = c
HeldIsMade ==
  /\ \A c \in Conn : \A n \in DOMAIN down[c] : MadeOn(down[c][n].call, c)
  /\ \A r \in serving : MadeOn(r.call, r.from)
  /\ \A c \in Conn : \A n \in DOMAIN up[c] :
       up[c][n].type = "res" => MadeOn(up[c][n].call, up[c][n].from)
  /\ \A k \in Call : call[k].state = "answered" => MadeOn(call[k].of, call[k].from)

PromiseIInv == RpcIInv /\ PlacedOnce /\ HeldIsMade

\* A step in which places only move up their queues keeps a place the only one.
Slides(g) ==
  \A kind \in Kinds, x \in Conn \cup Call, n \in Nat, j \in Call :
    Holds(kind, x, n, j)' => Holds(kind, x, n + g[<<kind, x>>], j)

LEMMA ShiftKeepsOnce ==
  ASSUME PlacedOnce, NEW g \in [Kinds \X (Conn \cup Call) -> {0, 1}], Slides(g)
  PROVE  PlacedOnce'
<1> SUFFICES ASSUME NEW j \in Call, NEW kind \in Kinds, NEW kind2 \in Kinds,
                    NEW x \in Conn \cup Call, NEW x2 \in Conn \cup Call, NEW n \in Nat, NEW n2 \in Nat,
                    Holds(kind, x, n, j)', Holds(kind2, x2, n2, j)'
             PROVE  kind = kind2 /\ x = x2 /\ n = n2
  BY DEF PlacedOnce
<1>1. g[<<kind, x>>] \in {0, 1} /\ g[<<kind2, x2>>] \in {0, 1}
  OBVIOUS
<1>2. n + g[<<kind, x>>] \in Nat /\ n2 + g[<<kind2, x2>>] \in Nat
  BY <1>1
<1>3. Holds(kind, x, n + g[<<kind, x>>], j) /\ Holds(kind2, x2, n2 + g[<<kind2, x2>>], j)
  BY DEF Slides
<1>4. kind = kind2 /\ x = x2 /\ n + g[<<kind, x>>] = n2 + g[<<kind2, x2>>]
  BY <1>2, <1>3 DEF PlacedOnce
<1> QED BY <1>1, <1>4

\* So does one that also takes what there is of i to one place.
Moves(g, i, at, y, m) ==
  \A kind \in Kinds, x \in Conn \cup Call, n \in Nat, j \in Call :
    Holds(kind, x, n, j)' => \/ j # i /\ Holds(kind, x, n + g[<<kind, x>>], j)
                             \/ j = i /\ kind = at /\ x = y /\ n = m

LEMMA MoveKeepsOnce ==
  ASSUME PlacedOnce, NEW g \in [Kinds \X (Conn \cup Call) -> {0, 1}],
         NEW i, NEW at, NEW y, NEW m, Moves(g, i, at, y, m)
  PROVE  PlacedOnce'
<1> SUFFICES ASSUME NEW j \in Call, NEW kind \in Kinds, NEW kind2 \in Kinds,
                    NEW x \in Conn \cup Call, NEW x2 \in Conn \cup Call, NEW n \in Nat, NEW n2 \in Nat,
                    Holds(kind, x, n, j)', Holds(kind2, x2, n2, j)'
             PROVE  kind = kind2 /\ x = x2 /\ n = n2
  BY DEF PlacedOnce
<1>1. CASE j = i
  <2>1. kind = at /\ x = y /\ n = m
    BY <1>1 DEF Moves
  <2>2. kind2 = at /\ x2 = y /\ n2 = m
    BY <1>1 DEF Moves
  <2> QED BY <2>1, <2>2
<1>2. CASE j # i
  <2>1. g[<<kind, x>>] \in {0, 1} /\ g[<<kind2, x2>>] \in {0, 1}
    OBVIOUS
  <2>2. n + g[<<kind, x>>] \in Nat /\ n2 + g[<<kind2, x2>>] \in Nat
    BY <2>1
  <2>3. Holds(kind, x, n + g[<<kind, x>>], j) /\ Holds(kind2, x2, n2 + g[<<kind2, x2>>], j)
    BY <1>2 DEF Moves
  <2>4. kind = kind2 /\ x = x2 /\ n + g[<<kind, x>>] = n2 + g[<<kind2, x2>>]
    BY <2>2, <2>3 DEF PlacedOnce
  <2> QED BY <2>1, <2>4
<1> QED BY <1>1, <1>2

\* The answers on the wire after a step of the tunnel are those before it, in
\* their order, at most one of them gone from the front of each connection.
UpShifts(g) ==
  \A c \in Conn : \A n \in DOMAIN up'[c] :
    up'[c][n].type = "res" => n + g[c] \in DOMAIN up[c] /\ up'[c][n] = up[c][n + g[c]]
OneOff(c) == [d \in Conn |-> IF d = c THEN 1 ELSE 0]
Still == [d \in Conn |-> 0]

\* Taking the first element moves the others one place up.
LEMMA TailShifts ==
  ASSUME NEW S, NEW q \in Seq(S), q # <<>>
  PROVE  \A n \in DOMAIN Tail(q) : n + 1 \in DOMAIN q /\ Tail(q)[n] = q[n + 1]
<1>1. DOMAIN q = 1..Len(q) /\ Len(q) \in Nat /\ Len(q) > 0
  OBVIOUS
<1>2. Len(Tail(q)) = Len(q) - 1 /\ DOMAIN Tail(q) = 1..(Len(q) - 1)
  BY <1>1
<1>3. \A n \in 1..(Len(q) - 1) : n + 1 \in 1..Len(q) /\ Tail(q)[n] = q[n + 1]
  BY <1>1, <1>2
<1> QED BY <1>1, <1>2, <1>3

\* An element added at the end moves no other.
LEMMA AppendShifts ==
  ASSUME NEW S, NEW q \in Seq(S), NEW e \in S
  PROVE  \A n \in DOMAIN Append(q, e) :
           \/ n \in DOMAIN q /\ Append(q, e)[n] = q[n]
           \/ n = Len(q) + 1 /\ Append(q, e)[n] = e
<1>1. DOMAIN q = 1..Len(q) /\ Len(q) \in Nat /\ DOMAIN Append(q, e) = 1..(Len(q) + 1)
  OBVIOUS
<1> QED BY <1>1

\* A frame received leaves the front of its connection.
LEMMA ReceivesShifts ==
  ASSUME TypeOK, NEW c \in Conn, Receives(c)
  PROVE  UpShifts(OneOff(c))
<1>1. up[c] \in Seq(Frame) /\ up[c] # <<>>
  BY DEF TypeOK, Receives
<1>2. up'[c] = Tail(up[c]) /\ \A d \in Conn : d # c => up'[d] = up[d]
  BY DEF TypeOK, Receives
<1>3. \A n \in DOMAIN Tail(up[c]) : n + 1 \in DOMAIN up[c] /\ Tail(up[c])[n] = up[c][n + 1]
  BY <1>1, TailShifts
<1>4. \A d \in Conn : \A n \in DOMAIN up[d] : n + 0 = n
  BY DEF TypeOK
<1> QED BY <1>2, <1>3, <1>4 DEF UpShifts, OneOff

\* A queue that is kept or emptied moves nothing.
LEMMA StillShifts ==
  ASSUME TypeOK, \A c \in Conn : up'[c] = up[c] \/ up'[c] = <<>>
  PROVE  UpShifts(Still)
<1>1. \A d \in Conn : \A n \in DOMAIN up[d] : n + 0 = n
  BY DEF TypeOK
<1>2. DOMAIN <<>> = {}
  OBVIOUS
<1> QED BY <1>1, <1>2 DEF UpShifts, Still

\* What #send does to the wire.
LEMMA WiredShifts ==
  ASSUME TypeOK, NEW f \in Frame, up' = Wired(f)
  PROVE  \/ up' = up
         \/ /\ ws \in Conn /\ \A d \in Conn : d # ws => up'[d] = up[d]
            /\ \A n \in DOMAIN up'[ws] : \/ n \in DOMAIN up[ws] /\ up'[ws][n] = up[ws][n]
                                         \/ n = Len(up[ws]) + 1 /\ up'[ws][n] = f
<1>1. CASE ~(ws # None /\ cend[ws] = "open")
  BY <1>1 DEF Wired
<1>2. CASE ws # None /\ cend[ws] = "open"
  <2>1. ws \in Conn /\ up[ws] \in Seq(Frame)
    BY <1>2 DEF TypeOK
  <2>2. up'[ws] = Append(up[ws], f) /\ \A d \in Conn : d # ws => up'[d] = up[d]
    BY <1>2, <2>1 DEF TypeOK, Wired
  <2>3. \A n \in DOMAIN Append(up[ws], f) :
           \/ n \in DOMAIN up[ws] /\ Append(up[ws], f)[n] = up[ws][n]
           \/ n = Len(up[ws]) + 1 /\ Append(up[ws], f)[n] = f
    BY <2>1, AppendShifts
  <2> QED BY <2>1, <2>2, <2>3
<1> QED BY <1>1, <1>2

\* No step of the tunnel itself sends an answer.
LEMMA TunnelPartShifts ==
  ASSUME TypeOK, TunnelPart
  PROVE  \E g \in [Conn -> {0, 1}] : UpShifts(g)
<1>1. Still \in [Conn -> {0, 1}] /\ \A c \in Conn : OneOff(c) \in [Conn -> {0, 1}]
  BY DEF Still, OneOff
<1>2. CASE \E c \in Conn : Receives(c)
  BY <1>1, <1>2, ReceivesShifts
<1>3. CASE \A c \in Conn : up'[c] = up[c] \/ up'[c] = <<>>
  BY <1>1, <1>3, StillShifts
<1>4. ASSUME NEW c \in Conn, SnapshotDone(c), up' = Wired(Hello(c))
      PROVE  UpShifts(Still)
  <2> DEFINE f == Hello(c)
  <2>1. f \in Frame /\ f.type = "hello"
    BY FramesAreFrames DEF Hello
  <2>2. up' = Wired(f)
    BY <1>4
  <2> HIDE DEF f
  <2>3. \A d \in Conn : \A n \in DOMAIN up[d] : n + 0 = n
    BY DEF TypeOK
  <2> QED BY <2>1, <2>2, <2>3, WiredShifts DEF UpShifts, Still
<1>5. ASSUME NEW c \in Conn, ChildStep(c)
      PROVE  \E g \in [Conn -> {0, 1}] : UpShifts(g)
  <2>1. up' = up \/ (SnapshotDone(c) /\ up' = Wired(Hello(c)))
    BY <1>5 DEF ChildStep, Dial, Opened, SnapshotStep, SnapshotReads, SnapshotMisreads,
                SnapshotSees, SnapshotDone, ChildClosed, ChildFails, ChildEnd, Reload
  <2> QED BY <1>1, <1>3, <1>4, <2>1
<1>6. ASSUME NEW c \in Conn, ParentStep(c)
      PROVE  \E g \in [Conn -> {0, 1}] : UpShifts(g)
  <2>1. CASE HelloTimeout(c)
    BY <1>3, <2>1 DEF HelloTimeout
  <2>2. CASE Enroll(c) \/ BadHello(c) \/ Route(c)
    BY <1>2, <2>2 DEF Enroll, BadHello, Route
  <2>3. CASE ParentClosed(c) \/ ParentFails(c)
    <3>1. up' = [up EXCEPT ![c] = <<>>]
      BY <2>3 DEF ParentClosed, ParentFails, ParentEnd
    <3>2. \A d \in Conn : up'[d] = up[d] \/ up'[d] = <<>>
      BY <3>1 DEF TypeOK
    <3> QED BY <1>3, <3>2
  <2> QED BY <1>6, <2>1, <2>2, <2>3 DEF ParentStep
<1>7. CASE Disconnect \/ UNCHANGED vars
  BY <1>3, <1>7 DEF Disconnect, vars
<1>8. CASE ParentRestart
  BY <1>3, <1>8 DEF ParentRestart
<1> QED BY <1>5, <1>6, <1>7, <1>8 DEF TunnelPart
-----------------------------------------------------------------------------
(* What the steps keep of it *)

\* How far the places move up, when g says it of the queues up or down.
Shift(way, g) == [p \in Kinds \X (Conn \cup Call) |-> IF p[1] = way /\ p[2] \in Conn THEN g[p[2]] ELSE 0]

LEMMA ShiftIs ==
  ASSUME NEW g \in [Conn -> {0, 1}], NEW way \in {"up", "down"}
  PROVE  /\ Shift(way, g) \in [Kinds \X (Conn \cup Call) -> {0, 1}]
         /\ \A c \in Conn : Shift(way, g)[<<way, c>>] = g[c]
         /\ \A kind \in Kinds, x \in Conn \cup Call : kind # way => Shift(way, g)[<<kind, x>>] = 0
BY DEF Shift, Kinds

LEMMA OneOffIs ==
  ASSUME NEW c \in Conn
  PROVE  OneOff(c) \in [Conn -> {0, 1}] /\ \A d \in Conn : OneOff(c)[d] = IF d = c THEN 1 ELSE 0
BY DEF OneOff

\* No place moves.
Unmoved == [p \in Kinds \X (Conn \cup Call) |-> 0]

LEMMA UnmovedIs ==
  /\ Unmoved \in [Kinds \X (Conn \cup Call) -> {0, 1}]
  /\ \A kind \in Kinds, x \in Conn \cup Call, n \in Nat : n + Unmoved[<<kind, x>>] = n
BY DEF Unmoved

\* A call that was made stays so, on its connection.
CallsStay == \A j \in Call : call[j].state # "idle" => call'[j].state # "idle" /\ call'[j].on = call[j].on

\* What is on the wire, by the types.
LEMMA WireTypes ==
  ASSUME RpcIInv
  PROVE  /\ \A c \in Conn : \A n \in DOMAIN up[c] :
              up[c][n].type = "res" => up[c][n].call \in Call /\ up[c][n].from \in Conn /\ up[c][n].id \in Ids
         /\ \A c \in Conn : \A n \in DOMAIN down[c] : down[c][n].call \in Call /\ down[c][n].id \in Ids
         /\ \A r \in serving : r.call \in Call /\ r.from \in Conn /\ r.id \in Ids
         /\ \A k \in Call : call[k].state = "answered" => call[k].of \in Call /\ call[k].from \in Conn
<1>1. ASSUME NEW c \in Conn, NEW n \in DOMAIN up[c], up[c][n].type = "res"
      PROVE  up[c][n].call \in Call /\ up[c][n].from \in Conn /\ up[c][n].id \in Ids
  <2>1. up[c][n] \in Frame
    BY DEF RpcIInv, IInv, TypeOK
  <2>2. PICK r \in Requests : up[c][n] = Result(r)
    BY <1>1, <2>1, ResFrames
  <2> QED BY <2>2 DEF Result, Requests
<1>2. \A c \in Conn : \A n \in DOMAIN down[c] : down[c][n] \in Entry
  BY DEF RpcIInv, RpcTypeOK
<1>3. \A r \in serving : r.call \in Call /\ r.from \in Conn /\ r.id \in Ids
  BY DEF RpcIInv, RpcTypeOK
<1>4. \A k \in Call : call[k].state = "answered" => call[k].of \in Call /\ call[k].from \in Conn
  BY DEF RpcIInv, RpcTypeOK, CallState
<1> QED BY <1>1, <1>2, <1>3, <1>4 DEF Entry

\* A step that moves no request and tells nobody an answer.
LEMMA QuietKeeps ==
  ASSUME PromiseIInv, RpcIInv', UNCHANGED <<down, serving>>, TunnelPart, CallsStay,
         \A k \in Call : call'[k].state = "answered" => call'[k] = call[k]
  PROVE  PromiseIInv'
<1>1. PICK w \in [Conn -> {0, 1}] : UpShifts(w)
  BY TunnelPartShifts DEF PromiseIInv, RpcIInv, IInv
<1> DEFINE g == Shift("up", w)
<1>2. /\ g \in [Kinds \X (Conn \cup Call) -> {0, 1}]
      /\ \A c \in Conn : g[<<"up", c>>] = w[c]
      /\ \A kind \in Kinds, x \in Conn \cup Call : kind # "up" => g[<<kind, x>>] = 0
  BY ShiftIs
<1> HIDE DEF g
<1>3. ASSUME NEW kind \in Kinds, NEW x \in Conn \cup Call, NEW n \in Nat, NEW j \in Call, Holds(kind, x, n, j)'
      PROVE  Holds(kind, x, n + g[<<kind, x>>], j)
  <2>1. CASE kind = "up"
    BY <1>1, <1>2, <1>3, <2>1 DEF UpShifts, Holds
  <2>2. CASE kind # "up"
    <3>1. n + g[<<kind, x>>] = n
      BY <1>2, <2>2
    <3>2. Holds(kind, x, n, j)
      BY <1>3, <2>2 DEF Holds
    <3> QED BY <3>1, <3>2
  <2> QED BY <2>1, <2>2
<1>4. PlacedOnce'
  <2>1. Slides(g)
    BY <1>3 DEF Slides
  <2> QED BY <1>2, <2>1, ShiftKeepsOnce DEF PromiseIInv
<1>5. \A j \in Call : call[j].state # "idle" => call'[j].state # "idle" /\ call'[j].on = call[j].on
  BY DEF CallsStay
<1>6. HeldIsMade'
  <2>1. (\A c \in Conn : \A n \in DOMAIN down[c] : MadeOn(down[c][n].call, c))'
    BY <1>5, WireTypes DEF PromiseIInv, HeldIsMade, MadeOn
  <2>2. (\A r \in serving : MadeOn(r.call, r.from))'
    BY <1>5, WireTypes DEF PromiseIInv, HeldIsMade, MadeOn
  <2>3. ASSUME NEW c \in Conn, NEW n \in DOMAIN up'[c], up'[c][n].type = "res"
        PROVE  MadeOn(up[c][n].call, up[c][n].from)'
    <3>1. n + w[c] \in DOMAIN up[c] /\ up'[c][n] = up[c][n + w[c]]
      BY <1>1, <2>3 DEF UpShifts
    <3>2. /\ MadeOn(up[c][n + w[c]].call, up[c][n + w[c]].from)
          /\ up[c][n + w[c]].call \in Call
      BY <2>3, <3>1, WireTypes DEF PromiseIInv, HeldIsMade
    <3> QED BY <3>1, <3>2 DEF CallsStay, MadeOn
  <2>4. (\A k \in Call : call[k].state = "answered" => MadeOn(call[k].of, call[k].from))'
    BY <1>5, WireTypes DEF PromiseIInv, HeldIsMade, MadeOn
  <2> QED BY <2>1, <2>2, <2>3, <2>4 DEF HeldIsMade
<1> QED BY <1>4, <1>6 DEF PromiseIInv

\* A call that was not made is nowhere.
LEMMA NotMadeNowhere ==
  ASSUME PromiseIInv, NEW j \in Call, call[j].state = "idle", NEW kind, NEW x, NEW n
  PROVE  ~Holds(kind, x, n, j)
BY DEF PromiseIInv, HeldIsMade, MadeOn, Holds

LEMMA RequestPlaces ==
  ASSUME PromiseIInv, RpcIInv', NEW k \in Call, Request(k)
  PROVE  PromiseIInv'
<1> DEFINE entry == [id |-> NextId(hub), call |-> k]
<1>1. UNCHANGED <<vars, serving>> /\ call[k].state = "idle" /\ hub \in Conn
  BY DEF Request, PromiseIInv, RpcIInv, IInv, TypeOK
<1>2. /\ call' = [call EXCEPT ![k] = Waiting(hub, k)]
      /\ down' = down \/ down' = [down EXCEPT ![hub] = Append(down[hub], entry)]
  BY DEF Request
<1>3. call'[k].state = "waiting" /\ call'[k].on = hub /\ \A j \in Call : j # k => call'[j] = call[j]
  BY <1>2 DEF PromiseIInv, RpcIInv, RpcTypeOK, Waiting
<1>4. entry \in Entry /\ entry.call = k
  <2>0. seq' \in [Conn -> 0..Cardinality(Call)] /\ seq \in [Conn -> 0..Cardinality(Call)]
    BY DEF PromiseIInv, RpcIInv, RpcTypeOK
  <2>1. seq'[hub] = NextId(hub) /\ seq'[hub] \in 0..Cardinality(Call)
    BY <1>1, <2>0 DEF Request, NextId
  <2>2. seq[hub] \in Nat /\ NextId(hub) = seq[hub] + 1
    BY <1>1 DEF PromiseIInv, RpcIInv, RpcTypeOK, NextId
  <2>3. Cardinality(Call) \in Nat
    BY RpcAssumption, FS_CardinalityType
  <2> QED BY <2>1, <2>2, <2>3 DEF Entry, Ids
<1> HIDE DEF entry
<1>5. /\ \A c \in Conn : c # hub => down'[c] = down[c]
      /\ \A n \in DOMAIN down'[hub] : \/ n \in DOMAIN down[hub] /\ down'[hub][n] = down[hub][n]
                                      \/ n = Len(down[hub]) + 1 /\ down'[hub][n] = entry
  <2>1. CASE down' = down
    BY <2>1
  <2>2. CASE down' = [down EXCEPT ![hub] = Append(down[hub], entry)]
    <3>1. down[hub] \in Seq(Entry)
      BY <1>1 DEF PromiseIInv, RpcIInv, RpcTypeOK
    <3>2. down'[hub] = Append(down[hub], entry) /\ \A c \in Conn : c # hub => down'[c] = down[c]
      BY <1>1, <2>2 DEF PromiseIInv, RpcIInv, RpcTypeOK
    <3> QED BY <1>4, <3>1, <3>2, AppendShifts
  <2> QED BY <1>2, <2>1, <2>2
<1>6. ASSUME NEW kind \in Kinds, NEW x \in Conn \cup Call, NEW n \in Nat, NEW j \in Call, Holds(kind, x, n, j)'
      PROVE  \/ j # k /\ Holds(kind, x, n, j)
             \/ j = k /\ kind = "down" /\ x = hub /\ n = Len(down[hub]) + 1
  <2>1. \/ Holds(kind, x, n, j)
        \/ j = k /\ kind = "down" /\ x = hub /\ n = Len(down[hub]) + 1
    BY <1>1, <1>3, <1>4, <1>5, <1>6 DEF Holds, vars
  <2> QED BY <1>1, <2>1, NotMadeNowhere
<1>7. PlacedOnce'
  <2>1. Moves(Unmoved, k, "down", hub, Len(down[hub]) + 1)
    BY <1>6, UnmovedIs DEF Moves
  <2> QED BY <2>1, UnmovedIs, MoveKeepsOnce DEF PromiseIInv
<1>8. HeldIsMade'
  <2>1. \A j \in Call, c \in Conn : MadeOn(j, c) => call'[j].state # "idle" /\ call'[j].on = c
    BY <1>1, <1>3 DEF MadeOn
  <2>2. (\A c \in Conn : \A n \in DOMAIN down[c] : MadeOn(down[c][n].call, c))'
    BY <1>3, <1>4, <1>5, <2>1, WireTypes DEF PromiseIInv, HeldIsMade, MadeOn
  <2>3. (\A r \in serving : MadeOn(r.call, r.from))'
    BY <1>1, <2>1, WireTypes DEF PromiseIInv, HeldIsMade, MadeOn
  <2>4. (\A c \in Conn : \A n \in DOMAIN up[c] :
           up[c][n].type = "res" => MadeOn(up[c][n].call, up[c][n].from))'
    BY <1>1, <2>1, WireTypes DEF PromiseIInv, HeldIsMade, MadeOn, vars
  <2>5. (\A i \in Call : call[i].state = "answered" => MadeOn(call[i].of, call[i].from))'
    BY <1>3, <2>1, WireTypes DEF PromiseIInv, HeldIsMade, MadeOn
  <2> QED BY <2>2, <2>3, <2>4, <2>5 DEF HeldIsMade
<1> QED BY <1>7, <1>8 DEF PromiseIInv

\* The request moves from the front of the wire to its handler.
LEMMA ServePlaces ==
  ASSUME PromiseIInv, RpcIInv', NEW c \in Conn, Serve(c)
  PROVE  PromiseIInv'
<1> DEFINE q == Head(down[c])
<1> DEFINE r == [id |-> q.id, call |-> q.call, from |-> c]
<1>1. UNCHANGED <<vars, call>> /\ serving' = serving \cup {r}
      /\ down' = [down EXCEPT ![c] = Tail(down[c])]
  BY DEF Serve
<1>2. down[c] \in Seq(Entry) /\ down[c] # <<>>
  BY DEF Serve, PromiseIInv, RpcIInv, RpcTypeOK
<1>3. q = down[c][1] /\ 1 \in DOMAIN down[c] /\ q.call \in Call /\ q.id \in Nat
  <2>1. q = down[c][1] /\ 1 \in DOMAIN down[c]
    BY <1>2
  <2>2. q \in Entry
    BY <1>2, <2>1
  <2> QED BY <2>1, <2>2 DEF Entry, Ids
<1>4. down'[c] = Tail(down[c]) /\ \A d \in Conn : d # c => down'[d] = down[d]
  BY <1>1 DEF PromiseIInv, RpcIInv, RpcTypeOK
<1>5. \A n \in DOMAIN Tail(down[c]) : n + 1 \in DOMAIN down[c] /\ Tail(down[c])[n] = down[c][n + 1]
  BY <1>2, TailShifts
<1> HIDE DEF q
<1>6. r.id = q.id /\ r.call = q.call /\ r.from = c
  OBVIOUS
<1>7. \A n, j, x : [id |-> n, call |-> j, from |-> x] = r <=> n = q.id /\ j = q.call /\ x = c
  OBVIOUS
<1> HIDE DEF r
<1> DEFINE w == OneOff(c)
<1> DEFINE g == Shift("down", w)
<1>8. /\ g \in [Kinds \X (Conn \cup Call) -> {0, 1}]
      /\ \A d \in Conn : g[<<"down", d>>] = IF d = c THEN 1 ELSE 0
      /\ \A kind \in Kinds, x \in Conn \cup Call : kind # "down" => g[<<kind, x>>] = 0
  <2>1. w \in [Conn -> {0, 1}] /\ \A d \in Conn : w[d] = IF d = c THEN 1 ELSE 0
    BY OneOffIs
  <2> HIDE DEF w
  <2>2. /\ Shift("down", w) \in [Kinds \X (Conn \cup Call) -> {0, 1}]
        /\ \A d \in Conn : Shift("down", w)[<<"down", d>>] = w[d]
        /\ \A kind \in Kinds, x \in Conn \cup Call : kind # "down" => Shift("down", w)[<<kind, x>>] = 0
    BY <2>1, ShiftIs
  <2> HIDE DEF g
  <2> QED BY <2>1, <2>2 DEF g
<1> HIDE DEF g
<1>9. Holds("down", c, 1, q.call)
  BY <1>3 DEF Holds
<1>10. \A kind \in Kinds, x \in Conn \cup Call, n \in Nat :
         Holds(kind, x, n, q.call) => kind = "down" /\ x = c /\ n = 1
  BY <1>3, <1>9 DEF PromiseIInv, PlacedOnce, Kinds
<1>11. ASSUME NEW kind \in Kinds, NEW x \in Conn \cup Call, NEW n \in Nat, NEW j \in Call, Holds(kind, x, n, j)'
       PROVE  \/ j # q.call /\ Holds(kind, x, n + g[<<kind, x>>], j)
              \/ j = q.call /\ kind = "serving" /\ x = c /\ n = q.id
  <2>1. CASE kind = "down"
    <3>1. x \in Conn /\ n \in DOMAIN down'[x] /\ down'[x][n].call = j
      BY <1>11, <2>1 DEF Holds
    <3>2. CASE x = c
      <4>1. n \in DOMAIN Tail(down[c]) /\ Tail(down[c])[n].call = j
        BY <1>4, <3>1, <3>2
      <4>3. n + 1 \in DOMAIN down[c] /\ down[c][n + 1].call = j
        BY <1>5, <4>1
      <4>4. Holds("down", c, n + 1, j) /\ (q.call = j => n + 1 = 1)
        BY <1>10, <4>3 DEF Holds, Kinds
      <4>5. n \in 1..Len(Tail(down[c]))
        BY <1>2, <4>1
      <4>2. j # q.call
        BY <4>4, <4>5
      <4> QED BY <1>8, <2>1, <3>2, <4>2, <4>4
    <3>3. CASE x # c
      <4>1. Holds("down", x, n, j) /\ g[<<"down", x>>] = 0 /\ n + 0 = n
        BY <1>4, <1>8, <3>1, <3>3 DEF Holds
      <4> QED BY <1>10, <2>1, <3>3, <4>1
    <3> QED BY <3>2, <3>3
  <2>2. CASE kind # "down"
    <3>1. n + g[<<kind, x>>] = n
      BY <1>8, <2>2
    <3>2. Holds(kind, x, n, j) \/ (j = q.call /\ kind = "serving" /\ x = c /\ n = q.id)
      BY <1>1, <1>7, <1>11, <2>2 DEF Holds, vars
    <3> QED BY <1>10, <2>2, <3>1, <3>2
  <2> QED BY <2>1, <2>2
<1>12. PlacedOnce'
  <2>1. Moves(g, q.call, "serving", c, q.id)
    BY <1>11 DEF Moves
  <2> QED BY <1>8, <2>1, MoveKeepsOnce DEF PromiseIInv
<1>13. HeldIsMade'
  <2>1. (\A d \in Conn : \A n \in DOMAIN down[d] : MadeOn(down[d][n].call, d))'
    BY <1>1, <1>4, <1>5 DEF PromiseIInv, HeldIsMade, MadeOn
  <2>2. (\A s \in serving : MadeOn(s.call, s.from))'
    BY <1>1, <1>3, <1>6 DEF PromiseIInv, HeldIsMade, MadeOn
  <2> QED BY <1>1, <2>1, <2>2 DEF PromiseIInv, HeldIsMade, MadeOn, vars
<1> QED BY <1>12, <1>13 DEF PromiseIInv

\* What was made on a connection stays made on it.
LEMMA MadeStays ==
  ASSUME CallsStay, NEW j \in Call, NEW c, MadeOn(j, c)
  PROVE  MadeOn(j, c)'
BY DEF CallsStay, MadeOn

\* The handler's answer goes on the wire, or is dropped.
LEMMA ServeDonePlaces ==
  ASSUME PromiseIInv, RpcIInv', NEW r \in Requests, ServeDone(r)
  PROVE  PromiseIInv'
<1>1. /\ UNCHANGED <<down, call>> /\ r \in serving /\ serving' = serving \ {r}
      /\ up' = up \/ up' = Wired(Result(r))
  BY DEF ServeDone
<1>2. r.id \in Nat /\ r.call \in Call /\ r.from \in Conn
      /\ r = [id |-> r.id, call |-> r.call, from |-> r.from]
  BY DEF Requests, Ids
<1>3. Holds("serving", r.from, r.id, r.call)
  BY <1>1, <1>2 DEF Holds
<1>4. \A kind \in Kinds, x \in Conn \cup Call, n \in Nat :
        Holds(kind, x, n, r.call) => kind = "serving" /\ x = r.from /\ n = r.id
  BY <1>2, <1>3 DEF PromiseIInv, PlacedOnce, Kinds
<1>5. ASSUME NEW kind \in Kinds, NEW x \in Conn \cup Call, NEW n \in Nat, NEW j \in Call,
             kind # "up", Holds(kind, x, n, j)'
      PROVE  j # r.call /\ Holds(kind, x, n, j)
  <2>1. Holds(kind, x, n, j)
    BY <1>1, <1>5 DEF Holds
  <2>2. CASE j = r.call
    <3>1. kind = "serving" /\ [id |-> n, call |-> j, from |-> x] = r
      BY <1>2, <1>4, <2>1, <2>2
    <3> QED BY <1>1, <1>5, <3>1 DEF Holds
  <2> QED BY <2>1, <2>2
<1>6. CASE up' = up
  <2>1. \A kind \in Kinds, x \in Conn \cup Call, n \in Nat, j \in Call :
          Holds(kind, x, n, j)' => Holds(kind, x, n, j)
    BY <1>1, <1>6 DEF Holds
  <2>2. Slides(Unmoved)
    BY <2>1, UnmovedIs DEF Slides
  <2>3. PlacedOnce'
    BY <2>2, UnmovedIs, ShiftKeepsOnce DEF PromiseIInv
  <2>4. HeldIsMade'
    BY <1>1, <1>6 DEF PromiseIInv, HeldIsMade, MadeOn
  <2> QED BY <2>3, <2>4 DEF PromiseIInv
<1>7. CASE up' = Wired(Result(r)) /\ up' # up
  <2> DEFINE f == Result(r)
  <2>1. f \in Frame /\ f.type = "res" /\ f.call = r.call /\ f.from = r.from
    BY ResultIsFrame DEF Result
  <2> HIDE DEF f
  <2>2. /\ ws \in Conn /\ \A d \in Conn : d # ws => up'[d] = up[d]
        /\ \A n \in DOMAIN up'[ws] : \/ n \in DOMAIN up[ws] /\ up'[ws][n] = up[ws][n]
                                     \/ n = Len(up[ws]) + 1 /\ up'[ws][n] = f
    <3>1. TypeOK /\ up' = Wired(f)
      BY <1>7 DEF f, PromiseIInv, RpcIInv, IInv
    <3> QED BY <1>7, <2>1, <3>1, WiredShifts
  <2>3. ASSUME NEW x \in Conn \cup Call, NEW n \in Nat, NEW j \in Call, Holds("up", x, n, j)'
        PROVE  \/ j # r.call /\ Holds("up", x, n, j)
               \/ j = r.call /\ x = ws /\ n = Len(up[ws]) + 1
    <3>1. Holds("up", x, n, j) \/ (j = r.call /\ x = ws /\ n = Len(up[ws]) + 1)
      BY <2>1, <2>2, <2>3 DEF Holds
    <3>2. Holds("up", x, n, j) => j # r.call
      BY <1>4 DEF Kinds
    <3> QED BY <3>1, <3>2
  <2>4. Moves(Unmoved, r.call, "up", ws, Len(up[ws]) + 1)
    BY <1>5, <2>3, UnmovedIs DEF Moves
  <2>5. PlacedOnce'
    BY <2>4, UnmovedIs, MoveKeepsOnce DEF PromiseIInv
  <2>6. CallsStay /\ MadeOn(r.call, r.from)
    BY <1>1 DEF CallsStay, PromiseIInv, HeldIsMade
  <2>7. ASSUME NEW d \in Conn, NEW n \in DOMAIN up'[d], up'[d][n].type = "res"
        PROVE  MadeOn(up[d][n].call, up[d][n].from)'
    <3>1. CASE n \in DOMAIN up[d] /\ up'[d][n] = up[d][n]
      BY <1>1, <2>7, <3>1 DEF PromiseIInv, HeldIsMade, MadeOn
    <3>2. CASE up'[d][n] = f
      BY <1>1, <2>1, <2>6, <3>2 DEF MadeOn
    <3> QED BY <2>2, <3>1, <3>2
  <2>8. HeldIsMade'
    BY <1>1, <2>7 DEF PromiseIInv, HeldIsMade, MadeOn
  <2> QED BY <2>5, <2>8 DEF PromiseIInv
<1> QED BY <1>1, <1>6, <1>7

\* An answer leaves the wire, and settles the call that waits for its number on
\* that connection, if one does.
Tells(k, r, c) ==
  /\ call[k].state = "waiting" /\ call[k].on = c
  /\ call' = [call EXCEPT ![k] = [state |-> "answered", on |-> c, of |-> r.call, from |-> r.from]]
  /\ r.from = c => r.call = k

LEMMA AnswerEffect ==
  ASSUME PromiseIInv, NEW c \in Conn, Answer(c)
  PROVE  \E r \in Requests :
           /\ 1 \in DOMAIN up[c] /\ up[c][1] = Result(r) /\ MadeOn(r.call, r.from)
           /\ Route(c) /\ UNCHANGED <<down, serving>> /\ CallsStay
           /\ call' = call \/ \E k \in Call : Tells(k, r, c)
<1> DEFINE f == Head(up[c])
<1>1. f = up[c][1] /\ 1 \in DOMAIN up[c] /\ f \in Frame /\ f.type = "res" /\ OnWire(c, f)
  <2>1. up[c] \in Seq(Frame) /\ up[c] # <<>>
    BY DEF Answer, Route, Receives, PromiseIInv, RpcIInv, IInv, TypeOK
  <2>2. OnWire(c, f) /\ f \in Frame /\ f.type = "res"
    BY ReceivesWire DEF Answer, Route, PromiseIInv, RpcIInv, IInv
  <2> QED BY <2>1, <2>2
<1>2. PICK r \in Requests : f = Result(r)
  BY <1>1, ResFrames
<1>3. f.id = r.id /\ f.call = r.call /\ f.from = r.from /\ r.call \in Call /\ r.from \in Conn /\ r.id \in Ids
  BY <1>2 DEF Result, Requests
<1> DEFINE waiters == {e.call : e \in {e \in pending[c] : e.id = r.id}}
<1> DEFINE answer == [state |-> "answered", on |-> c, of |-> r.call, from |-> r.from]
<1>4. /\ Route(c) /\ UNCHANGED <<down, serving>>
      /\ call' = [k \in Call |-> IF k \in waiters THEN answer ELSE call[k]]
  BY <1>3 DEF Answer
<1>5. answer.state = "answered" /\ answer.on = c
  OBVIOUS
<1> HIDE DEF f, answer
<1>6. \A k : k \in waiters <=> \E e \in pending[c] : e.call = k /\ e.id = r.id
  OBVIOUS
<1> HIDE DEF waiters
<1>7. ASSUME NEW k \in waiters
      PROVE  k \in Call /\ call[k].state = "waiting" /\ call[k].on = c /\ Issued(c, r.id, k)
  <2>1. PICK e \in pending[c] : e.call = k /\ e.id = r.id
    BY <1>6
  <2>2. k \in Call
    BY <2>1 DEF PromiseIInv, RpcIInv, RpcTypeOK, Entry
  <2> QED BY <2>1, <2>2 DEF PromiseIInv, RpcIInv, WaitersPend, Issued
<1>8. CallsStay
  BY <1>4, <1>5, <1>7 DEF CallsStay
<1>9. MadeOn(r.call, r.from)
  BY <1>1, <1>3 DEF PromiseIInv, HeldIsMade
<1>10. waiters = {} => call' = call
  BY <1>4 DEF PromiseIInv, RpcIInv, RpcTypeOK
<1>11. ASSUME NEW k \in waiters
       PROVE  /\ call' = [call EXCEPT ![k] = answer]
              /\ r.from = c => r.call = k
  <2>1. \A l \in waiters : l = k
    BY <1>3, <1>7 DEF PromiseIInv, RpcIInv, IdNamesCall
  <2>2. call' = [call EXCEPT ![k] = answer]
    BY <1>4, <1>7, <2>1 DEF PromiseIInv, RpcIInv, RpcTypeOK
  <2>3. ASSUME r.from = c PROVE r.call = k
    <3>1. Issued(c, r.id, r.call)
      BY <1>1, <1>2, <2>3 DEF Issued, Answered
    <3> QED BY <1>3, <1>7, <3>1 DEF PromiseIInv, RpcIInv, IdNamesCall
  <2> QED BY <2>2, <2>3
<1>12. ASSUME NEW k \in waiters
       PROVE  k \in Call /\ Tells(k, r, c)
  BY <1>7, <1>11 DEF answer, Tells
<1>13. call' = call \/ \E k \in Call : Tells(k, r, c)
  BY <1>10, <1>12
<1> QED BY <1>1, <1>2, <1>4, <1>8, <1>9, <1>13

\* An answer moves from the front of the wire to its caller, or is gone.
LEMMA AnswerPlaces ==
  ASSUME PromiseIInv, RpcIInv', NEW c \in Conn, Answer(c)
  PROVE  PromiseIInv'
<1>1. PICK r \in Requests :
        /\ 1 \in DOMAIN up[c] /\ up[c][1] = Result(r) /\ MadeOn(r.call, r.from)
        /\ Route(c) /\ UNCHANGED <<down, serving>> /\ CallsStay
        /\ call' = call \/ \E k \in Call : Tells(k, r, c)
  BY AnswerEffect
<1>2. up[c][1].type = "res" /\ up[c][1].call = r.call /\ r.call \in Call
  BY <1>1 DEF Result, Requests
<1>3. Holds("up", c, 1, r.call)
  BY <1>1, <1>2 DEF Holds
<1>4. \A kind \in Kinds, x \in Conn \cup Call, n \in Nat :
        Holds(kind, x, n, r.call) => kind = "up" /\ x = c /\ n = 1
  BY <1>2, <1>3 DEF PromiseIInv, PlacedOnce, Kinds
<1> DEFINE w == OneOff(c)
<1> DEFINE g == Shift("up", w)
<1>5. UpShifts(w) /\ w \in [Conn -> {0, 1}] /\ w[c] = 1 /\ \A d \in Conn : d # c => w[d] = 0
  <2>1. UpShifts(w)
    BY <1>1, ReceivesShifts DEF Route, PromiseIInv, RpcIInv, IInv
  <2> QED BY <2>1, OneOffIs
<1> HIDE DEF w
<1>6. /\ g \in [Kinds \X (Conn \cup Call) -> {0, 1}]
      /\ \A d \in Conn : g[<<"up", d>>] = w[d]
      /\ \A kind \in Kinds, x \in Conn \cup Call : kind # "up" => g[<<kind, x>>] = 0
  BY <1>5, ShiftIs
<1> HIDE DEF g
<1>7. ASSUME NEW x \in Conn \cup Call, NEW n \in Nat, NEW j \in Call, Holds("up", x, n, j)'
      PROVE  j # r.call /\ Holds("up", x, n + g[<<"up", x>>], j)
  <2>1. x \in Conn /\ n \in DOMAIN up'[x] /\ up'[x][n].type = "res" /\ up'[x][n].call = j
    BY <1>7 DEF Holds
  <2>2. n + w[x] \in DOMAIN up[x] /\ up'[x][n] = up[x][n + w[x]]
    BY <1>5, <2>1 DEF UpShifts
  <2>3. Holds("up", x, n + w[x], j) /\ n + w[x] \in Nat
    BY <1>5, <2>1, <2>2 DEF Holds
  <2>4. n # 0
    <3>1. up' \in [Conn -> Seq(Frame)]
      BY DEF RpcIInv, IInv, TypeOK
    <3>2. n \in 1..Len(up'[x])
      BY <2>1, <3>1
    <3> QED BY <3>2
  <2>5. j # r.call
    <3> SUFFICES ASSUME j = r.call PROVE FALSE
      OBVIOUS
    <3>1. x = c /\ n + w[x] = 1
      BY <1>4, <2>3 DEF Kinds
    <3> QED BY <1>5, <2>4, <3>1
  <2> QED BY <1>6, <2>1, <2>3, <2>5
<1>8. ASSUME NEW kind \in {"down", "serving"}, NEW x \in Conn \cup Call, NEW n \in Nat, NEW j \in Call,
             Holds(kind, x, n, j)'
      PROVE  j # r.call /\ Holds(kind, x, n + g[<<kind, x>>], j)
  <2>1. Holds(kind, x, n, j)
    BY <1>1, <1>8 DEF Holds
  <2>2. n + g[<<kind, x>>] = n
    BY <1>6 DEF Kinds
  <2> QED BY <1>4, <2>1, <2>2 DEF Kinds
<1>9. ASSUME call' = call PROVE PlacedOnce'
  <2>1. ASSUME NEW x \in Conn \cup Call, NEW n \in Nat, NEW j \in Call, Holds("told", x, n, j)'
        PROVE  Holds("told", x, n + g[<<"told", x>>], j)
    <3>1. Holds("told", x, n, j)
      BY <1>9, <2>1 DEF Holds
    <3> QED BY <1>6, <3>1 DEF Kinds
  <2>2. Slides(g)
    BY <1>7, <1>8, <2>1 DEF Kinds, Slides
  <2> QED BY <1>6, <2>2, ShiftKeepsOnce DEF PromiseIInv
<1>10. ASSUME NEW k \in Call, Tells(k, r, c)
       PROVE  PlacedOnce' /\ call'[k].of = r.call /\ call'[k].from = r.from
              /\ \A i \in Call : i # k => call'[i] = call[i]
  <2>1. /\ call'[k].of = r.call /\ call'[k].from = r.from
        /\ \A i \in Call : i # k => call'[i] = call[i]
    BY <1>10 DEF Tells, PromiseIInv, RpcIInv, RpcTypeOK
  <2>2. ASSUME NEW x \in Conn \cup Call, NEW n \in Nat, NEW j \in Call, Holds("told", x, n, j)'
        PROVE  \/ j # r.call /\ Holds("told", x, n + g[<<"told", x>>], j)
               \/ j = r.call /\ x = k /\ n = 0
    <3>1. x \in Call /\ n = 0 /\ call'[x].state = "answered" /\ call'[x].of = j
      BY <2>2 DEF Holds
    <3>2. CASE x = k
      BY <2>1, <3>1, <3>2
    <3>3. CASE x # k
      <4>1. Holds("told", x, n, j)
        BY <2>1, <3>1, <3>3 DEF Holds
      <4>2. n + g[<<"told", x>>] = n
        BY <1>6, <3>1 DEF Kinds
      <4> QED BY <1>4, <4>1, <4>2 DEF Kinds
    <3> QED BY <3>2, <3>3
  <2>3. Moves(g, r.call, "told", k, 0)
    BY <1>7, <1>8, <2>2 DEF Moves, Kinds
  <2> QED BY <1>6, <2>1, <2>3, MoveKeepsOnce DEF PromiseIInv
<1>11. PlacedOnce'
  <2>1. CASE call' = call
    BY <1>9, <2>1
  <2>2. CASE \E k \in Call : Tells(k, r, c)
    BY <1>10, <2>2
  <2> QED BY <1>1, <2>1, <2>2
<1>12. HeldIsMade'
  <2>1. (\A d \in Conn : \A n \in DOMAIN down[d] : MadeOn(down[d][n].call, d))'
    BY <1>1, MadeStays, WireTypes DEF PromiseIInv, HeldIsMade
  <2>2. (\A s \in serving : MadeOn(s.call, s.from))'
    BY <1>1, MadeStays, WireTypes DEF PromiseIInv, HeldIsMade
  <2>3. ASSUME NEW d \in Conn, NEW n \in DOMAIN up'[d], up'[d][n].type = "res"
        PROVE  MadeOn(up[d][n].call, up[d][n].from)'
    <3>1. n + w[d] \in DOMAIN up[d] /\ up'[d][n] = up[d][n + w[d]]
      BY <1>5, <2>3 DEF UpShifts
    <3>2. /\ MadeOn(up[d][n + w[d]].call, up[d][n + w[d]].from)
          /\ up[d][n + w[d]].call \in Call
      BY <2>3, <3>1, WireTypes DEF PromiseIInv, HeldIsMade
    <3> QED BY <1>1, <3>1, <3>2 DEF CallsStay, MadeOn
  <2>4. ASSUME NEW i \in Call, call'[i].state = "answered"
        PROVE  MadeOn(call[i].of, call[i].from)'
    <3>1. CASE call'[i] = call[i]
      BY <1>1, <2>4, <3>1, WireTypes DEF PromiseIInv, HeldIsMade, CallsStay, MadeOn
    <3>2. CASE call'[i].of = r.call /\ call'[i].from = r.from
      BY <1>1, <1>2, <3>2 DEF CallsStay, MadeOn
    <3> QED BY <1>1, <1>10, <3>1, <3>2
  <2> QED BY <2>1, <2>2, <2>3, <2>4 DEF HeldIsMade
<1> QED BY <1>11, <1>12 DEF PromiseIInv

\* A call that no longer waits, without an answer.
LEMMA TimeoutPlaces ==
  ASSUME PromiseIInv, RpcIInv', NEW k \in Call, RequestTimeout(k)
  PROVE  PromiseIInv'
<1>1. /\ UNCHANGED <<vars, down, serving>> /\ call[k].state = "waiting"
      /\ call' = [call EXCEPT ![k].state = "timeout"]
  BY DEF RequestTimeout
<1>2. call[k] \in [state : {"waiting", "rejected", "timeout"}, on : Conn, of : Call]
  BY <1>1 DEF PromiseIInv, RpcIInv, RpcTypeOK, CallState
<1>3. call'[k].state = "timeout" /\ call'[k].on = call[k].on /\ \A j \in Call : j # k => call'[j] = call[j]
  BY <1>1, <1>2 DEF PromiseIInv, RpcIInv, RpcTypeOK
<1>4. CallsStay /\ \A j \in Call : call'[j].state = "answered" => call'[j] = call[j]
  BY <1>3 DEF CallsStay
<1> QED BY <1>1, <1>4, QuietKeeps DEF TunnelPart

\* The calls a close or a restart rejects keep their connection.
Rejects(lines) ==
  \A k \in Call :
    IF call[k].state = "waiting" /\ call[k].on \in lines
    THEN call'[k].state = "rejected" /\ call'[k].on = call[k].on
    ELSE call'[k] = call[k]

LEMMA RejectsOne ==
  ASSUME RpcIInv, NEW lines,
         call' = [k \in Call |-> IF call[k].state = "waiting" /\ call[k].on \in lines
                                 THEN [call[k] EXCEPT !.state = "rejected"] ELSE call[k]]
  PROVE  Rejects(lines)
<1> SUFFICES ASSUME NEW k \in Call, call[k].state = "waiting", call[k].on \in lines
             PROVE  call'[k].state = "rejected" /\ call'[k].on = call[k].on
  BY DEF Rejects
<1>1. call[k] \in [state : {"waiting", "rejected", "timeout"}, on : Conn, of : Call]
  BY DEF RpcIInv, RpcTypeOK, CallState
<1> QED BY <1>1

\* Rejecting tells nobody an answer.
LEMMA RejectsKeeps ==
  ASSUME PromiseIInv, RpcIInv', NEW lines, Rejects(lines), UNCHANGED <<down, serving>>, TunnelPart
  PROVE  PromiseIInv'
<1>1. CallsStay /\ \A k \in Call : call'[k].state = "answered" => call'[k] = call[k]
  BY DEF Rejects, CallsStay
<1> QED BY <1>1, QuietKeeps

LEMMA GoneRejects ==
  ASSUME PromiseIInv, NEW c \in Conn, ParentGone(c)
  PROVE  Rejects({c}) /\ UNCHANGED <<down, serving>> /\ TunnelPart
<1>1. \A k \in Call : call[k].on \in {c} <=> call[k].on = c
  OBVIOUS
<1>2. call' = [k \in Call |-> IF call[k].state = "waiting" /\ call[k].on \in {c}
                              THEN [call[k] EXCEPT !.state = "rejected"] ELSE call[k]]
  BY <1>1 DEF ParentGone, RejectedBy
<1>3. UNCHANGED <<down, serving>> /\ TunnelPart
  BY DEF ParentGone, TunnelPart, ParentStep
<1> QED BY <1>2, <1>3, RejectsOne DEF PromiseIInv

LEMMA RestartRejects ==
  ASSUME PromiseIInv, RpcRestart
  PROVE  Rejects(Conn) /\ UNCHANGED <<down, serving>> /\ TunnelPart
<1>1. \A k \in Call : call[k].state = "waiting" => call[k].on \in Conn
  BY DEF PromiseIInv, RpcIInv, RpcTypeOK, CallState
<1>2. call' = [k \in Call |-> IF call[k].state = "waiting" /\ call[k].on \in Conn
                              THEN [call[k] EXCEPT !.state = "rejected"] ELSE call[k]]
  BY <1>1 DEF RpcRestart
<1>3. UNCHANGED <<down, serving>> /\ TunnelPart
  BY DEF RpcRestart, TunnelPart
<1> QED BY <1>2, <1>3, RejectsOne DEF PromiseIInv

\* A step the calls do not see.
Unseen == TunnelPart /\ UNCHANGED rpcVars

LEMMA UnseenPlaces ==
  ASSUME PromiseIInv, RpcIInv', Unseen
  PROVE  PromiseIInv'
<1>1. UNCHANGED <<down, serving, call>> /\ TunnelPart
  BY DEF Unseen, rpcVars
<1>2. CallsStay /\ \A k \in Call : call'[k].state = "answered" => call'[k] = call[k]
  BY <1>1 DEF CallsStay
<1> QED BY <1>1, <1>2, QuietKeeps

\* The steps, with those the calls do not see as one.
LEMMA RpcCases ==
  ASSUME [RpcNext]_allVars
  PROVE  \/ \E k \in Call : Request(k) \/ RequestTimeout(k)
         \/ \E r \in Requests : ServeDone(r)
         \/ \E c \in Conn : Serve(c) \/ Answer(c) \/ ParentGone(c)
         \/ RpcRestart
         \/ Unseen
<1>1. CASE UNCHANGED allVars
  BY <1>1 DEF allVars, Unseen, TunnelPart
<1>2. CASE Disconnect /\ UNCHANGED rpcVars
  BY <1>2 DEF Unseen, TunnelPart
<1>3. ASSUME NEW c \in Conn, UNCHANGED rpcVars,
             ChildStep(c) \/ HelloTimeout(c) \/ Enroll(c) \/ BadHello(c) \/ Route(c)
      PROVE  Unseen
  BY <1>3 DEF Unseen, TunnelPart, ParentStep
<1> QED BY <1>1, <1>2, <1>3 DEF RpcNext, RouteOther

LEMMA PromiseNextKeeps == PromiseIInv /\ [RpcNext]_allVars => PromiseIInv'
<1> SUFFICES ASSUME PromiseIInv, [RpcNext]_allVars PROVE PromiseIInv'
  OBVIOUS
<1>1. RpcIInv'
  BY RpcNextKeeps DEF PromiseIInv
<1>2. ASSUME NEW c \in Conn, ParentGone(c) PROVE PromiseIInv'
  BY <1>1, <1>2, GoneRejects, RejectsKeeps
<1>3. CASE RpcRestart
  BY <1>1, <1>3, RestartRejects, RejectsKeeps
<1> QED BY <1>1, <1>2, <1>3, RpcCases, RequestPlaces, TimeoutPlaces, ServeDonePlaces, ServePlaces,
           AnswerPlaces, UnseenPlaces

LEMMA PromiseInitInv == RpcInit => PromiseIInv
<1> SUFFICES ASSUME RpcInit PROVE PromiseIInv
  OBVIOUS
<1>1. /\ \A c \in Conn : down[c] = <<>> /\ up[c] = <<>>
      /\ serving = {} /\ \A k \in Call : call[k].state = "idle"
  BY DEF RpcInit, Init
<1>2. DOMAIN <<>> = {}
  OBVIOUS
<1>3. PlacedOnce
  BY <1>1, <1>2 DEF PlacedOnce, Holds
<1>4. HeldIsMade
  BY <1>1, <1>2 DEF HeldIsMade
<1> QED BY <1>3, <1>4, RpcInitInv DEF PromiseIInv

LEMMA PromiseInvariance == RpcSpec => []PromiseIInv
BY PromiseInitInv, PromiseNextKeeps, PTL DEF RpcSpec
-----------------------------------------------------------------------------
(* The steps, as their callers see them *)

\* What the callers are told, from what is kept of the calls.
LEMMA Seen ==
  /\ \A k \in Call : Standing[k] = call[k].state
  /\ \A k \in Call : Lines[k] = IF call[k].state = "idle" THEN None ELSE call[k].on
  /\ \A k \in Call : Told[k] = IF call[k].state = "answered" THEN {call[k].of} ELSE {}
BY DEF Standing, Lines, Told

\* Before any call, nobody waits and nobody was told anything.
LEMMA MapsInit == RpcInit => Promise!Init
BY DEF RpcInit, Promise!Init, Standing, Lines, Told

\* A request is a call made on the connection of the hub.
LEMMA RequestMaps ==
  ASSUME PromiseIInv, NEW k \in Call, Request(k)
  PROVE  Promise!Next
<1>1. call[k].state = "idle" /\ hub \in Conn /\ call' = [call EXCEPT ![k] = Waiting(hub, k)]
  BY DEF Request, PromiseIInv, RpcIInv, IInv, TypeOK
<1>2. call'[k].state = "waiting" /\ call'[k].on = hub /\ \A j \in Call : j # k => call'[j] = call[j]
  BY <1>1 DEF PromiseIInv, RpcIInv, RpcTypeOK, Waiting
<1>3. Standing' = [Standing EXCEPT ![k] = "waiting"]
  BY <1>2 DEF Standing
<1>4. Lines' = [Lines EXCEPT ![k] = hub]
  BY <1>2 DEF Lines
<1>5. Told' = Told
  BY <1>1, <1>2 DEF Told
<1>6. Standing[k] = "idle"
  BY <1>1, Seen
<1>7. Promise!Made(k, hub)
  BY <1>3, <1>4, <1>5, <1>6 DEF Promise!Made
<1> QED BY <1>1, <1>7 DEF Promise!Next

\* The timer settles its own call only.
LEMMA TimeoutMaps ==
  ASSUME PromiseIInv, NEW k \in Call, RequestTimeout(k)
  PROVE  Promise!Next
<1>1. call[k].state = "waiting" /\ call' = [call EXCEPT ![k].state = "timeout"]
  BY DEF RequestTimeout
<1>2. call[k] \in [state : {"waiting", "rejected", "timeout"}, on : Conn, of : Call]
  BY <1>1 DEF PromiseIInv, RpcIInv, RpcTypeOK, CallState
<1>3. call'[k].state = "timeout" /\ call'[k].on = call[k].on /\ \A j \in Call : j # k => call'[j] = call[j]
  BY <1>1, <1>2 DEF PromiseIInv, RpcIInv, RpcTypeOK
<1>4. Standing' = [Standing EXCEPT ![k] = "timeout"]
  BY <1>3 DEF Standing
<1>5. Lines' = Lines
  BY <1>1, <1>3 DEF Lines
<1>6. Told' = Told
  BY <1>1, <1>3 DEF Told
<1>7. Standing[k] = "waiting"
  BY <1>1, Seen
<1>8. Promise!TimesOut(k)
  BY <1>4, <1>5, <1>6, <1>7 DEF Promise!TimesOut, Promise!Waiting
<1> QED BY <1>8 DEF Promise!Next

\* A close rejects who waits on its connection, and nobody else.
LEMMA RejectsMaps ==
  ASSUME NEW lines, Rejects(lines)
  PROVE  Promise!Lost(lines)
<1>1. Standing' = [k \in Call |-> IF call[k].state = "waiting" /\ call[k].on \in lines
                                 THEN "rejected" ELSE call[k].state]
  BY DEF Rejects, Standing
<1>2. \A k \in Call : call[k].state = "waiting" /\ call[k].on \in lines
                      <=> k \in Promise!Waiting /\ Lines[k] \in lines
  BY Seen DEF Promise!Waiting
<1>3. Standing' = [k \in Call |-> IF k \in Promise!Waiting /\ Lines[k] \in lines
                                 THEN "rejected" ELSE Standing[k]]
  BY <1>1, <1>2, Seen
<1>4. Lines' = Lines
  BY DEF Rejects, Lines
<1>5. Told' = Told
  BY DEF Rejects, Told
<1> QED BY <1>3, <1>4, <1>5 DEF Promise!Lost

\* A res frame settles the one that waits for its number, with an answer nobody
\* had and that is its own if it was asked for on this connection, or nobody.
LEMMA AnswerMaps ==
  ASSUME PromiseIInv, NEW c \in Conn, Answer(c)
  PROVE  Promise!Next \/ UNCHANGED <<Standing, Lines, Told>>
<1>1. PICK r \in Requests :
        /\ 1 \in DOMAIN up[c] /\ up[c][1] = Result(r) /\ MadeOn(r.call, r.from)
        /\ Route(c) /\ UNCHANGED <<down, serving>> /\ CallsStay
        /\ call' = call \/ \E k \in Call : Tells(k, r, c)
  BY AnswerEffect
<1>2. up[c][1].type = "res" /\ up[c][1].call = r.call /\ r.call \in Call
  BY <1>1 DEF Result, Requests
<1>3. \A i \in Call : ~Holds("told", i, 0, r.call)
  <2>1. Holds("up", c, 1, r.call)
    BY <1>1, <1>2 DEF Holds
  <2> QED BY <1>2, <2>1 DEF PromiseIInv, PlacedOnce, Kinds
<1>4. CASE call' = call
  BY <1>4 DEF Standing, Lines, Told
<1>5. ASSUME NEW k \in Call, Tells(k, r, c)
      PROVE  Promise!Answered(k, r.call)
  <2>1. /\ call[k].state = "waiting" /\ call[k].on = c /\ call'[k].state = "answered"
        /\ call'[k].on = c /\ call'[k].of = r.call
        /\ \A i \in Call : i # k => call'[i] = call[i]
    BY <1>5 DEF Tells, PromiseIInv, RpcIInv, RpcTypeOK
  <2>2. Standing' = [Standing EXCEPT ![k] = "answered"]
    BY <2>1 DEF Standing
  <2>3. Told' = [Told EXCEPT ![k] = {r.call}]
    BY <2>1 DEF Told
  <2>4. Lines' = Lines
    BY <2>1 DEF Lines
  <2>5. k \in Promise!Waiting /\ Standing[r.call] # "idle"
    BY <1>1, <1>2, <2>1, Seen DEF Promise!Waiting, MadeOn
  <2>6. \A i \in Call : r.call \notin Told[i]
    BY <1>3, Seen DEF Holds
  <2>7. Lines[r.call] = Lines[k] => r.call = k
    <3>1. Lines[r.call] = r.from /\ Lines[k] = c
      BY <1>1, <1>2, <2>1, Seen DEF MadeOn
    <3> QED BY <1>5, <3>1 DEF Tells
  <2> QED BY <2>2, <2>3, <2>4, <2>5, <2>6, <2>7 DEF Promise!Answered
<1> QED BY <1>1, <1>2, <1>4, <1>5 DEF Promise!Next

\* ChildConnection.request and #route: whatever frames, timers and closes
\* overlap on however many connections, a call is settled once, by an answer
\* that nobody else was given and that is its own unless its line was lost.
THEOREM KeepsCallPromise == RpcSpec => CallPromiseSpec
<1>1. ASSUME PromiseIInv, [RpcNext]_allVars
      PROVE  [Promise!Next]_(Promise!vars)
  <2>1. ASSUME NEW k \in Call, Request(k) \/ RequestTimeout(k) PROVE Promise!Next
    BY <1>1, <2>1, RequestMaps, TimeoutMaps
  <2>2. ASSUME NEW c \in Conn, ParentGone(c) PROVE Promise!Next
    <3>1. Promise!Lost({c})
      BY <1>1, <2>2, GoneRejects, RejectsMaps
    <3> QED BY <3>1 DEF Promise!Next
  <2>3. CASE RpcRestart
    <3>1. Promise!Lost(Conn)
      BY <1>1, <2>3, RestartRejects, RejectsMaps
    <3> QED BY <3>1 DEF Promise!Next
  <2>4. ASSUME NEW c \in Conn, Answer(c) PROVE Promise!Next \/ UNCHANGED <<Standing, Lines, Told>>
    BY <1>1, <2>4, AnswerMaps
  <2>5. CASE Unseen \/ (\E r \in Requests : ServeDone(r)) \/ (\E c \in Conn : Serve(c))
    <3>1. call' = call
      BY <2>5 DEF Unseen, rpcVars, ServeDone, Serve
    <3> QED BY <3>1 DEF Standing, Lines, Told, Promise!vars
  <2> QED BY <1>1, <2>1, <2>2, <2>3, <2>4, <2>5, RpcCases DEF Promise!vars
<1> QED BY <1>1, MapsInit, PromiseInvariance, PTL DEF RpcSpec, CallPromiseSpec, Promise!Spec
=============================================================================
