----------------------------- MODULE AskProofs -----------------------------
(***************************************************************************)
(* The calls about one agent, for any requests, deadlines and agents: the  *)
(* lock of a pane is held exactly while one ask is in flight, no answer is *)
(* given away, and what an exec, a wait and a transcript tell is true.     *)
(***************************************************************************)
EXTENDS MCAgents, SequenceTheorems, FiniteSetTheorems, WellFoundedInduction, TLAPS

CallsType == call \in [Asks -> Calls]
LockType  == lock \in BOOLEAN
FileType  == file \in [Asks -> {"none", "part", "whole"}]
AgentType ==
  /\ inbox \in Seq(Prompt) /\ turn \in Prompt \cup {None} /\ alive \in BOOLEAN
  /\ herdr \in Status /\ tier \in Status
RecordType == record \in [state : {None, "working", "blocked", "done"}, turn : Prompt \cup {None}]

Types == CallsType /\ LockType /\ FileType /\ AgentType /\ RecordType
-----------------------------------------------------------------------------
(* Types *)

\* The finally of ask(): the call ends, the lock is free, the row is dropped.
LEMMA SettleType ==
  ASSUME CallsType, NEW a \in Asks, NEW out \in Outcomes, Settle(a, out)
  PROVE  /\ CallsType' /\ LockType' /\ RecordType'
         /\ call'[a].at = "over" /\ \A b \in Asks \ {a} : call'[b] = call[b]
<1> DEFINE ended == [Fresh EXCEPT !.at = "over", !.out = out]
<1>1. ended \in Calls /\ ended.at = "over"
  <2>1. 0 \in 0..Budget
    BY AskAssumption
  <2> QED BY <2>1 DEF Calls, Fresh, Stages
<1>2. call' = [call EXCEPT ![a] = ended] /\ lock' = FALSE /\ record' = NoRow
  BY DEF Settle
<1>3. LockType' /\ RecordType'
  BY <1>2 DEF LockType, RecordType, NoRow
<1> HIDE DEF ended
<1> QED BY <1>1, <1>2, <1>3 DEF CallsType

\* A call that goes on to another stage keeps the rest.
LEMMA ToType ==
  ASSUME CallsType, NEW a \in Asks, NEW stage \in Stages, To(a, stage)
  PROVE  /\ CallsType'
         /\ call'[a].at = stage /\ \A b \in Asks \ {a} : call'[b] = call[b]
BY DEF CallsType, To, Calls

LEMMA DecideType ==
  ASSUME Types, NEW a \in Asks, Decide(a)
  PROVE  /\ CallsType' /\ LockType' /\ RecordType'
         /\ \A b \in Asks \ {a} : call'[b] = call[b]
         /\ \/ call'[a].at \in {"polling", "last"} /\ lock' = lock
            \/ Settle(a, "unresponsive")
<1> USE DEF Types
<1> DEFINE c == call[a]
           idleFor == IF c.idle = None THEN 0 ELSE c.idle
<1>1. CASE /\ call' = [call EXCEPT ![a].at = "polling", ![a].saw = TRUE, ![a].idle = None]
           /\ UNCHANGED <<lock, record>>
  <2> DEFINE busy == [c EXCEPT !.at = "polling", !.saw = TRUE, !.idle = None]
  <2>1. c \in Calls
    BY DEF CallsType
  <2>2. busy \in Calls /\ busy.at = "polling"
    <3> HIDE DEF c
    <3> QED BY <2>1 DEF Calls, Stages
  <2>3. call' = [call EXCEPT ![a] = busy]
    BY <1>1
  <2> HIDE DEF busy
  <2>4. CallsType' /\ call'[a].at = "polling" /\ \A b \in Asks \ {a} : call'[b] = call[b]
    BY <2>2, <2>3 DEF CallsType
  <2> QED BY <1>1, <2>4 DEF LockType, RecordType
<1>2. CASE /\ call' = [call EXCEPT ![a].at = IF idleFor > Grace THEN "last" ELSE "polling",
                                   ![a].idle = idleFor]
           /\ UNCHANGED <<lock, record>>
  <2>1. idleFor \in 0..(Grace + 1)
    BY AskAssumption DEF CallsType, Calls
  <2> HIDE DEF idleFor
  <2> DEFINE stage == IF idleFor > Grace THEN "last" ELSE "polling"
             still == [c EXCEPT !.at = stage, !.idle = idleFor]
  <2>2. c \in Calls
    BY DEF CallsType
  <2>3. stage \in {"polling", "last"}
    OBVIOUS
  <2>4. call' = [call EXCEPT ![a] = still]
    BY <1>2
  <2> HIDE DEF stage
  <2>5. still \in Calls /\ still.at = stage
    <3> HIDE DEF c
    <3> QED BY <2>1, <2>2, <2>3 DEF Calls, Stages
  <2> HIDE DEF still
  <2>6. CallsType' /\ call'[a].at = stage /\ \A b \in Asks \ {a} : call'[b] = call[b]
    BY <2>4, <2>5 DEF CallsType
  <2> QED BY <1>2, <2>3, <2>6 DEF LockType, RecordType
<1>3. CASE Settle(a, "unresponsive")
  <2>1. "unresponsive" \in Outcomes
    BY DEF Outcomes
  <2> QED BY <1>3, <2>1, SettleType
<1>4. CASE To(a, "polling") /\ UNCHANGED <<lock, record>>
  <2>1. "polling" \in Stages
    BY DEF Stages
  <2> QED BY <1>4, <2>1, ToType DEF LockType, RecordType
<1> QED BY <1>1, <1>2, <1>3, <1>4 DEF Decide

LEMMA AskStepType ==
  ASSUME Types, NEW a \in Asks,
         \/ Begin(a) \/ Delivered(a) \/ PromptReturns(a) \/ Fails(a)
         \/ Poll(a) \/ Decide(a) \/ LastRead(a)
  PROVE  Types'
<1> USE DEF Types
<1>s. {"listing", "prompted", "polling", "deciding", "over"} \subseteq Stages
  BY DEF Stages
<1>o. {"answer", "parse_error", "busy", "error", "timeout"} \subseteq Outcomes
  BY DEF Outcomes
<1>1. CASE Begin(a)
  <2>1. LockType' /\ FileType' /\ AgentType' /\ RecordType'
    BY <1>1 DEF Begin, LockType, FileType, AgentType, RecordType, others
  <2>2. CallsType'
    BY <1>1, <1>s, <1>o, ToType DEF Begin, CallsType, Calls
  <2> QED BY <2>1, <2>2
<1>2. CASE Delivered(a)
  <2>1. inbox' \in Seq(Prompt)
    BY <1>2 DEF Delivered, AgentType, Prompt
  <2>2. LockType' /\ FileType' /\ AgentType' /\ RecordType'
    BY <1>2, <2>1 DEF Delivered, LockType, FileType, AgentType, RecordType
  <2>3. CallsType'
    BY <1>2, <1>s, ToType DEF Delivered
  <2> QED BY <2>2, <2>3
<1>3. CASE PromptReturns(a)
  <2>1. LockType' /\ FileType' /\ AgentType' /\ RecordType'
    BY <1>3 DEF PromptReturns, LockType, FileType, AgentType, RecordType, others
  <2>2. CallsType'
    BY <1>3, <1>s, ToType DEF PromptReturns
  <2> QED BY <2>1, <2>2
<1>4. CASE Fails(a)
  <2>1. FileType' /\ AgentType'
    BY <1>4 DEF Fails, FileType, AgentType, others
  <2> QED BY <1>4, <1>o, <2>1, SettleType DEF Fails
<1>5. CASE Poll(a)
  <2>1. FileType' /\ AgentType'
    BY <1>5 DEF Poll, FileType, AgentType, others
  <2>2. CASE Settle(a, "answer")
    BY <1>o, <2>1, <2>2, SettleType
  <2>3. CASE To(a, "deciding") /\ UNCHANGED <<lock, file, record>>
    BY <1>s, <2>1, <2>3, ToType DEF LockType, RecordType
  <2> QED BY <1>5, <2>2, <2>3 DEF Poll
<1>6. CASE Decide(a)
  <2>1. FileType' /\ AgentType'
    BY <1>6 DEF Decide, FileType, AgentType, others
  <2> QED BY <1>6, <2>1, DecideType
<1>7. CASE LastRead(a)
  <2>1. FileType' /\ AgentType'
    BY <1>7 DEF LastRead, FileType, AgentType, others
  <2>2. ReadAtEnd(file[a]) \in Outcomes
    BY <1>o DEF FileType, ReadAtEnd
  <2> QED BY <1>7, <2>1, <2>2, SettleType DEF LastRead
<1> QED BY <1>1, <1>2, <1>3, <1>4, <1>5, <1>6, <1>7

LEMMA OtherStepType ==
  ASSUME Types,
         \/ \E s \in Steers : Steer(s)
         \/ Tick \/ Restart
         \/ TakesUp \/ Blocks \/ Resumes \/ Writes \/ Finishes \/ Dies \/ StatusArrives
  PROVE  Types'
<1> USE DEF Types
<1>1. CASE \E s \in Steers : Steer(s)
  <2>1. PICK s \in Steers : Steer(s)
    BY <1>1
  <2>2. inbox' \in Seq(Prompt)
    BY <2>1 DEF Steer, AgentType, Prompt
  <2> QED BY <2>1, <2>2 DEF Steer, CallsType, LockType, FileType, AgentType, RecordType
<1>2. CASE Tick
  <2> DEFINE later(c) == [c EXCEPT !.age = IF @ < Budget THEN @ + 1 ELSE @,
                                   !.idle = IF @ = None THEN None
                                            ELSE IF @ <= Grace THEN @ + 1 ELSE @]
  <2>1. ASSUME NEW c \in Calls PROVE later(c) \in Calls
    <3>1. c.age \in 0..Budget /\ c.idle \in {None} \cup 0..(Grace + 1)
      BY DEF Calls
    <3>2. (IF c.age < Budget THEN c.age + 1 ELSE c.age) \in 0..Budget
      BY <3>1, AskAssumption
    <3>3. (IF c.idle = None THEN None
           ELSE IF c.idle <= Grace THEN c.idle + 1 ELSE c.idle) \in {None} \cup 0..(Grace + 1)
      BY <3>1, AskAssumption
    <3> QED BY <3>2, <3>3 DEF Calls
  <2>2. call' = [a \in Asks |-> IF ~Waiting(a) THEN call[a] ELSE later(call[a])]
    BY <1>2 DEF Tick
  <2> HIDE DEF later
  <2>3. CallsType'
    BY <2>1, <2>2 DEF CallsType
  <2> QED BY <1>2, <2>3 DEF Tick, LockType, FileType, AgentType, RecordType, others
<1>3. CASE Restart
  <2> DEFINE lost == [Fresh EXCEPT !.at = "over", !.out = "lost"]
  <2>1. lost \in Calls
    <3>1. 0 \in 0..Budget
      BY AskAssumption
    <3> QED BY <3>1 DEF Calls, Fresh, Stages, Outcomes
  <2>2. call' = [a \in Asks |-> IF a \in InFlight THEN lost ELSE call[a]]
    BY <1>3 DEF Restart
  <2> HIDE DEF lost
  <2>3. CallsType'
    BY <2>1, <2>2 DEF CallsType
  <2>4. LockType' /\ RecordType'
    BY <1>3 DEF Restart, LockType, RecordType, NoRow
  <2> QED BY <1>3, <2>3, <2>4 DEF Restart, FileType, AgentType, others
<1>4. CASE TakesUp
  <2>1. Head(inbox) \in Prompt /\ Tail(inbox) \in Seq(Prompt)
    BY <1>4 DEF TakesUp, AgentType
  <2>2. AgentType'
    BY <1>4, <2>1 DEF TakesUp, AgentType, Status
  <2>3. RecordType'
    BY <1>4, <2>1 DEF TakesUp, Shows, Row, RecordType
  <2> QED BY <1>4, <2>2, <2>3 DEF TakesUp, CallsType, LockType, FileType
<1>5. CASE Blocks
  <2>1. RecordType'
    BY <1>5 DEF Blocks, Shows, Row, RecordType, AgentType
  <2> QED BY <1>5, <2>1 DEF Blocks, CallsType, LockType, FileType, AgentType, Status
<1>6. CASE Resumes
  <2>1. RecordType'
    BY <1>6 DEF Resumes, Shows, Row, RecordType, AgentType
  <2> QED BY <1>6, <2>1 DEF Resumes, CallsType, LockType, FileType, AgentType, Status
<1>7. CASE Writes
  BY <1>7 DEF Writes, CallsType, LockType, FileType, AgentType, RecordType, others
<1>8. CASE Finishes
  <2>1. RecordType'
    BY <1>8 DEF Finishes, Shows, Row, RecordType, AgentType
  <2> QED BY <1>8, <2>1 DEF Finishes, CallsType, LockType, FileType, AgentType, Status
<1>9. CASE Dies
  <2>1. inbox' \in Seq(Prompt)
    BY <1>9 DEF Dies
  <2> QED BY <1>9, <2>1 DEF Dies, CallsType, LockType, FileType, AgentType, RecordType, Status
<1>10. CASE StatusArrives
  BY <1>10 DEF StatusArrives, CallsType, LockType, FileType, AgentType, RecordType
<1> QED BY <1>1, <1>2, <1>3, <1>4, <1>5, <1>6, <1>7, <1>8, <1>9, <1>10

LEMMA InitTypes == Init => Types
<1> SUFFICES ASSUME Init PROVE Types
  OBVIOUS
<1>1. Fresh \in Calls
  <2>1. 0 \in 0..Budget
    BY AskAssumption
  <2> QED BY <2>1 DEF Fresh, Calls, Stages
<1>2. CallsType /\ LockType /\ FileType /\ RecordType
  BY <1>1 DEF Init, CallsType, LockType, FileType, RecordType, NoRow
<1>3. AgentType
  BY DEF Init, AgentType, Status
<1> QED BY <1>2, <1>3 DEF Types

LEMMA TypesStep == Types /\ [Next]_vars => Types'
<1> SUFFICES ASSUME Types, [Next]_vars PROVE Types'
  OBVIOUS
<1>1. CASE UNCHANGED vars
  BY <1>1 DEF vars, Types, CallsType, LockType, FileType, AgentType, RecordType
<1>2. CASE Next
  BY <1>2, AskStepType, OtherStepType DEF Next
<1> QED BY <1>1, <1>2

\* The type invariant of the model of ask.
THEOREM AskTypeCorrect == Spec => []TypeOK
<1>1. Types => TypeOK
  BY DEF Types, TypeOK, CallsType, LockType, FileType, AgentType, RecordType
<1> QED BY <1>1, InitTypes, TypesStep, PTL DEF Spec
-----------------------------------------------------------------------------
(* The lock *)

\* Without counting: who holds the lock is the only one in flight.
LockIsHeld == IF lock THEN \E a \in Asks : InFlight = {a} ELSE InFlight = {}

\* In flight, an ask holds the lock alone: what moves it on keeps the lock, and
\* what ends it frees the pane.
LEMMA HolderMoves ==
  ASSUME LockIsHeld, NEW a \in InFlight,
         \A b \in Asks \ {a} : call'[b] = call[b],
         \/ call'[a].at \notin {"new", "over"} /\ lock' = lock
         \/ call'[a].at = "over" /\ lock' = FALSE
  PROVE  LockIsHeld'
<1>1. lock /\ InFlight = {a} /\ a \in Asks
  BY DEF LockIsHeld, InFlight
<1>2. CASE call'[a].at \notin {"new", "over"} /\ lock' = lock
  <2>1. InFlight' = {a}
    BY <1>1, <1>2 DEF InFlight
  <2> QED BY <1>1, <1>2, <2>1 DEF LockIsHeld
<1>3. CASE call'[a].at = "over" /\ lock' = FALSE
  <2>1. InFlight' = {}
    BY <1>1, <1>3 DEF InFlight
  <2> QED BY <1>3, <2>1 DEF LockIsHeld
<1> QED BY <1>2, <1>3

LEMMA AskStepLock ==
  ASSUME Types, LockIsHeld, NEW a \in Asks,
         \/ Begin(a) \/ Delivered(a) \/ PromptReturns(a) \/ Fails(a)
         \/ Poll(a) \/ Decide(a) \/ LastRead(a)
  PROVE  LockIsHeld'
<1> USE DEF Types
<1>s. {"listing", "prompted", "polling", "deciding", "over"} \subseteq Stages
  BY DEF Stages
<1>o. {"answer", "parse_error", "error", "timeout", "unresponsive"} \subseteq Outcomes
  BY DEF Outcomes
\* The two shapes of every step but the first.
<1>m. ASSUME NEW stage \in {"prompted", "polling", "deciding"},
             a \in InFlight, To(a, stage), lock' = lock
      PROVE  LockIsHeld'
  <2>1. call'[a].at = stage /\ \A b \in Asks \ {a} : call'[b] = call[b]
    BY <1>s, <1>m, ToType
  <2> QED BY <1>m, <2>1, HolderMoves
<1>e. ASSUME NEW out \in Outcomes, a \in InFlight, Settle(a, out)
      PROVE  LockIsHeld'
  <2>1. call'[a].at = "over" /\ \A b \in Asks \ {a} : call'[b] = call[b]
    BY <1>e, SettleType
  <2>2. lock' = FALSE
    BY <1>e DEF Settle
  <2> QED BY <1>e, <2>1, <2>2, HolderMoves
<1>1. CASE Begin(a)
  <2>1. a \notin InFlight
    BY <1>1 DEF Begin, InFlight
  <2>2. CASE lock
    <3>1. call'[a].at = "over" /\ lock' = lock /\ \A b \in Asks \ {a} : call'[b] = call[b]
      BY <1>1, <2>2 DEF Begin, CallsType, Calls
    <3>2. InFlight' = InFlight
      BY <2>1, <3>1 DEF InFlight
    <3> QED BY <3>1, <3>2 DEF LockIsHeld
  <2>3. CASE ~lock
    <3>1. call'[a].at = "listing" /\ \A b \in Asks \ {a} : call'[b] = call[b]
      BY <1>1, <1>s, <2>3, ToType DEF Begin
    <3>2. InFlight' = {a}
      BY <2>3, <3>1 DEF LockIsHeld, InFlight
    <3> QED BY <1>1, <2>3, <3>2 DEF Begin, LockIsHeld
  <2> QED BY <2>2, <2>3
<1>2. CASE Delivered(a)
  BY <1>2, <1>m DEF Delivered, InFlight
<1>3. CASE PromptReturns(a)
  BY <1>3, <1>m DEF PromptReturns, InFlight
<1>4. CASE Fails(a)
  BY <1>4, <1>o, <1>e DEF Fails, InFlight
<1>5. CASE Poll(a)
  <2>1. a \in InFlight
    BY <1>5 DEF Poll, InFlight
  <2> QED BY <1>5, <1>o, <1>m, <1>e, <2>1 DEF Poll
<1>6. CASE Decide(a)
  <2>1. a \in InFlight
    BY <1>6 DEF Decide, InFlight
  <2>2. CASE Settle(a, "unresponsive")
    BY <1>o, <1>e, <2>1, <2>2
  <2>3. CASE call'[a].at \in {"polling", "last"} /\ lock' = lock
    BY <1>6, <2>1, <2>3, DecideType, HolderMoves
  <2> QED BY <1>6, <2>2, <2>3, DecideType
<1>7. CASE LastRead(a)
  <2>1. a \in InFlight
    BY <1>7 DEF LastRead, LoopDone, InFlight
  <2>2. ReadAtEnd(file[a]) \in Outcomes
    BY <1>o DEF FileType, ReadAtEnd
  <2> QED BY <1>7, <1>e, <2>1, <2>2 DEF LastRead
<1> QED BY <1>1, <1>2, <1>3, <1>4, <1>5, <1>6, <1>7

LEMMA OtherStepLock ==
  ASSUME Types, LockIsHeld,
         \/ \E s \in Steers : Steer(s)
         \/ Tick \/ Restart
         \/ TakesUp \/ Blocks \/ Resumes \/ Writes \/ Finishes \/ Dies \/ StatusArrives
  PROVE  LockIsHeld'
<1>1. CASE Tick
  <2>1. \A a \in Asks : call'[a].at = call[a].at
    BY <1>1 DEF Tick, Types, CallsType, Calls
  <2>2. InFlight' = InFlight
    BY <2>1 DEF InFlight
  <2> QED BY <1>1, <2>2 DEF Tick, LockIsHeld
<1>2. CASE Restart
  <2>1. \A a \in Asks : call'[a].at \in {"new", "over"}
    BY <1>2 DEF Restart, InFlight, Fresh
  <2>2. InFlight' = {}
    BY <2>1 DEF InFlight
  <2> QED BY <1>2, <2>2 DEF Restart, LockIsHeld
<1>3. CASE UNCHANGED <<call, lock>>
  BY <1>3 DEF LockIsHeld, InFlight
<1> QED BY <1>1, <1>2, <1>3 DEF Steer, TakesUp, Blocks, Resumes, Writes, Finishes, Dies,
                                StatusArrives

\* One ask at a time per pane, and the pane is free again after every end of an
\* ask: askLocks holds the pane exactly while one ask is in flight, whatever the
\* agent does, whoever steers and wherever the daemon is restarted.
THEOREM LockExact == Spec => []OneAskAtATime
<1>1. Init => Types
  BY InitTypes
<1>2. Init => LockIsHeld
  BY DEF Init, LockIsHeld, InFlight, Fresh
<1>3. Types /\ LockIsHeld /\ [Next]_vars => LockIsHeld'
  <2> SUFFICES ASSUME Types, LockIsHeld, [Next]_vars PROVE LockIsHeld'
    OBVIOUS
  <2>1. CASE UNCHANGED vars
    BY <2>1 DEF vars, LockIsHeld, InFlight
  <2>2. CASE Next
    BY <2>2, AskStepLock, OtherStepLock DEF Next
  <2> QED BY <2>1, <2>2
<1>4. Types /\ LockIsHeld => OneAskAtATime
  <2> SUFFICES ASSUME Types, LockIsHeld PROVE OneAskAtATime
    OBVIOUS
  <2>1. CASE lock
    <3>1. PICK a \in Asks : InFlight = {a}
      BY <2>1 DEF LockIsHeld
    <3>2. Cardinality({a}) = 1
      BY FS_Singleton
    <3> QED BY <2>1, <3>1, <3>2 DEF OneAskAtATime
  <2>2. CASE ~lock
    <3>1. Cardinality({}) = 0
      BY FS_EmptySet
    <3> QED BY <2>2, <3>1 DEF OneAskAtATime, LockIsHeld
  <2> QED BY <2>1, <2>2
<1> QED BY <1>1, <1>2, <1>3, <1>4, TypesStep, PTL DEF Spec
-----------------------------------------------------------------------------
(* Giving up *)

Queued(a) == \E i \in DOMAIN inbox : inbox[i] = a

\* What a call has become of is known when it is over, and not before.
OutcomeIsLast == \A a \in Asks : call[a].out # None => call[a].at = "over"
\* An agent that has a prompt is at work on it or asks about it.
BusyOnTurn == turn # None => herdr \in {"working", "blocked"}
\* The prompt of an ask is sent once, taken up once and done once, so a row that
\* tells it is done is not told of the turn under way.
SentOnce == \A a \in Asks :
  /\ call[a].at \in {"new", "listing"} => ~Queued(a) /\ turn # a /\ record.turn # a
  /\ \A i, j \in DOMAIN inbox : inbox[i] = a /\ inbox[j] = a => i = j
  /\ turn = a => ~Queued(a)
  /\ record.turn = a => record.state \in {"working", "blocked", "done"}
  /\ record.turn = a /\ record.state = "done" => turn # a /\ ~Queued(a)
GInv == Types /\ OutcomeIsLast /\ BusyOnTurn /\ SentOnce

LEMMA RowOfNobody == \A a \in Asks : NoRow.turn # a
BY AskAssumption DEF NoRow

\* A step of one ask that sends nothing: its stage does not go back before its
\* prompt, and the transcript's row stays or is dropped.
LEMMA QuietKeeps ==
  ASSUME GInv, NEW a \in Asks, \A b \in Asks \ {a} : call'[b] = call[b],
         call'[a].at \in {"new", "listing"} => call[a].at \in {"new", "listing"},
         call'[a].out # None => call'[a].at = "over",
         record' \in {record, NoRow}, UNCHANGED others
  PROVE  OutcomeIsLast' /\ BusyOnTurn' /\ SentOnce'
<1>1. OutcomeIsLast'
  BY DEF GInv, OutcomeIsLast
<1>2. BusyOnTurn'
  BY DEF GInv, BusyOnTurn, others
<1>3. \A b \in Asks : call'[b].at \in {"new", "listing"} => call[b].at \in {"new", "listing"}
  OBVIOUS
<1>4. UNCHANGED <<inbox, turn>>
  BY DEF others
<1>5. ASSUME NEW b \in Asks
      PROVE  /\ call'[b].at \in {"new", "listing"} => ~Queued(b)' /\ turn' # b /\ record'.turn # b
             /\ \A i, j \in DOMAIN inbox' : inbox'[i] = b /\ inbox'[j] = b => i = j
             /\ turn' = b => ~Queued(b)'
             /\ record'.turn = b => record'.state \in {"working", "blocked", "done"}
             /\ record'.turn = b /\ record'.state = "done" => turn' # b /\ ~Queued(b)'
  <2>1. Queued(b)' = Queued(b)
    BY <1>4 DEF Queued
  <2>2. record' = record \/ record'.turn # b
    BY RowOfNobody
  <2>3. /\ call[b].at \in {"new", "listing"} => ~Queued(b) /\ turn # b /\ record.turn # b
        /\ \A i, j \in DOMAIN inbox : inbox[i] = b /\ inbox[j] = b => i = j
        /\ turn = b => ~Queued(b)
        /\ record.turn = b => record.state \in {"working", "blocked", "done"}
        /\ record.turn = b /\ record.state = "done" => turn # b /\ ~Queued(b)
    BY DEF GInv, SentOnce
  <2>4. \A i, j \in DOMAIN inbox' : inbox'[i] = b /\ inbox'[j] = b => i = j
    BY <1>4, <2>3
  <2> QED BY <1>3, <1>4, <2>1, <2>2, <2>3, <2>4
<1>6. SentOnce'
  BY <1>5 DEF SentOnce
<1> QED BY <1>1, <1>2, <1>6

\* What Decide leaves of the outcome, and when it gives up.
LEMMA DecideGives ==
  ASSUME GInv, NEW a \in Asks, Decide(a)
  PROVE  /\ call'[a].out # None => call'[a].at = "over"
         /\ record' \in {record, NoRow}
         /\ call'[a].at = "last" \/ call'[a].out = "unresponsive" => Decision = "idle"
<1>1. call[a] \in Calls /\ call[a].out = None /\ a \in DOMAIN call
  BY DEF GInv, Types, CallsType, OutcomeIsLast, Decide
<1>2. None # "unresponsive"
  BY AskAssumption DEF Outcomes
<1>3. CASE Settle(a, "unresponsive") /\ Decision = "idle"
  <2>1. "unresponsive" \in Outcomes
    BY DEF Outcomes
  <2> QED BY <1>3, <2>1, SettleType DEF GInv, Types, Settle
<1>4. CASE /\ call' = [call EXCEPT ![a].at = "polling", ![a].saw = TRUE, ![a].idle = None]
           /\ UNCHANGED record
  <2>1. call'[a] = [[[call[a] EXCEPT !.at = "polling"] EXCEPT !.saw = TRUE] EXCEPT !.idle = None]
    BY <1>1, <1>4
  <2>2. call'[a].at = "polling" /\ call'[a].out = None
    BY <1>1, <2>1 DEF Calls
  <2> QED BY <1>2, <1>4, <2>2
<1>5. CASE Decision = "idle" /\ UNCHANGED record /\ call[a].saw
  <2>1. call'[a].out = None
    <3> DEFINE idleFor == IF call[a].idle = None THEN 0 ELSE call[a].idle
    <3>1. \/ call' = [call EXCEPT ![a].at = IF idleFor > Grace THEN "last" ELSE "polling",
                                  ![a].idle = idleFor]
          \/ call' = [call EXCEPT ![a].at = "polling", ![a].saw = TRUE, ![a].idle = None]
      BY <1>5 DEF Decide
    <3> HIDE DEF idleFor
    <3> QED BY <1>1, <3>1 DEF Calls
  <2> QED BY <1>5, <2>1
<1>6. CASE To(a, "polling") /\ UNCHANGED record
  <2>1. "polling" \in Stages
    BY DEF Stages
  <2>2. call'[a].out = call[a].out
    BY <1>1, <1>6 DEF To, Calls
  <2> QED BY <1>1, <1>2, <1>6, <2>1, <2>2, ToType DEF GInv, Types
<1> QED BY <1>3, <1>4, <1>5, <1>6 DEF Decide

LEMMA AskStepGives ==
  ASSUME GInv, NEW a \in Asks,
         \/ Begin(a) \/ Delivered(a) \/ PromptReturns(a) \/ Fails(a)
         \/ Poll(a) \/ Decide(a) \/ LastRead(a)
  PROVE  OutcomeIsLast' /\ BusyOnTurn' /\ SentOnce'
<1>t. Types /\ call[a] \in Calls /\ a \in DOMAIN call
  BY DEF GInv, Types, CallsType
<1>s. {"listing", "prompted", "polling", "deciding"} \subseteq Stages
  BY DEF Stages
\* The shapes of the quiet steps.
<1>m. ASSUME NEW stage \in {"listing", "polling", "deciding"}, To(a, stage),
             stage = "listing" => call[a].at = "new", call[a].at # "over",
             UNCHANGED others, record' = record
      PROVE  OutcomeIsLast' /\ BusyOnTurn' /\ SentOnce'
  <2>1. call'[a].at = stage /\ \A b \in Asks \ {a} : call'[b] = call[b]
    BY <1>t, <1>s, <1>m, ToType DEF Types
  <2>2. call'[a].out = call[a].out
    BY <1>t, <1>m DEF To, Calls
  <2>3. call[a].out = None
    BY <1>m DEF GInv, OutcomeIsLast
  <2> QED BY <1>m, <2>1, <2>2, <2>3, QuietKeeps
<1>e. ASSUME NEW out \in Outcomes, Settle(a, out), UNCHANGED others
      PROVE  OutcomeIsLast' /\ BusyOnTurn' /\ SentOnce'
  <2>1. call'[a].at = "over" /\ \A b \in Asks \ {a} : call'[b] = call[b]
    BY <1>t, <1>e, SettleType DEF Types
  <2>2. record' = NoRow
    BY <1>e DEF Settle
  <2> QED BY <1>e, <2>1, <2>2, QuietKeeps
<1>1. CASE Begin(a)
  <2>1. CASE lock
    <3>1. call'[a].at = "over" /\ \A b \in Asks \ {a} : call'[b] = call[b]
      BY <1>1, <1>t, <2>1 DEF Begin, Calls, Types, CallsType
    <3> QED BY <1>1, <3>1, QuietKeeps DEF Begin
  <2>2. CASE ~lock
    BY <1>1, <1>m, <2>2 DEF Begin
  <2> QED BY <2>1, <2>2
<1>2. CASE Delivered(a)
  <2>1. /\ call'[a].at = "prompted" /\ call'[a].out = call[a].out
        /\ \A b \in Asks \ {a} : call'[b] = call[b]
    BY <1>2, <1>t, <1>s, ToType DEF Delivered, To, Types, Calls
  <2>2. OutcomeIsLast' /\ BusyOnTurn'
    BY <1>2, <2>1 DEF Delivered, GInv, OutcomeIsLast, BusyOnTurn
  <2>3. ~Queued(a) /\ turn # a /\ record.turn # a
    BY <1>2 DEF Delivered, GInv, SentOnce
  <2>4. /\ DOMAIN inbox' = 1..(Len(inbox) + 1) /\ DOMAIN inbox = 1..Len(inbox)
        /\ Len(inbox) \in Nat /\ inbox'[Len(inbox) + 1] = a
        /\ \A i \in 1..Len(inbox) : inbox'[i] = inbox[i]
    BY <1>2, <1>t DEF Delivered, Types, AgentType, Prompt
  <2>5. ASSUME NEW i \in DOMAIN inbox', inbox'[i] = a
        PROVE  i = Len(inbox) + 1
    BY <2>3, <2>4, <2>5 DEF Queued
  <2>6. ASSUME NEW b \in Asks, b # a, NEW i \in DOMAIN inbox', inbox'[i] = b
        PROVE  i \in DOMAIN inbox /\ inbox[i] = b
    BY <2>4, <2>6
  <2>7. UNCHANGED <<turn, record>>
    BY <1>2 DEF Delivered
  <2>8. SentOnce'
    BY <2>1, <2>3, <2>5, <2>6, <2>7 DEF GInv, SentOnce, Queued
  <2> QED BY <2>2, <2>8
<1>3. CASE PromptReturns(a)
  BY <1>3, <1>m DEF PromptReturns
<1>4. CASE Fails(a)
  BY <1>4, <1>e DEF Fails, Outcomes
<1>5. CASE Poll(a)
  BY <1>5, <1>m, <1>e DEF Poll, Outcomes
<1>6. CASE Decide(a)
  <2>1. \A b \in Asks \ {a} : call'[b] = call[b]
    BY <1>6, <1>t, DecideType
  <2>2. call'[a].at \in {"polling", "last", "over"}
    <3>1. "unresponsive" \in Outcomes
      BY DEF Outcomes
    <3> QED BY <1>6, <1>t, <3>1, DecideType, SettleType DEF Types
  <2> QED BY <1>6, <2>1, <2>2, DecideGives, QuietKeeps DEF Decide
<1>7. CASE LastRead(a)
  <2>1. ReadAtEnd(file[a]) \in Outcomes
    BY <1>t DEF Types, FileType, ReadAtEnd, Outcomes
  <2> QED BY <1>7, <1>e, <2>1 DEF LastRead
<1> QED BY <1>1, <1>2, <1>3, <1>4, <1>5, <1>6, <1>7

LEMMA TakesUpGives ==
  ASSUME GInv, TakesUp PROVE OutcomeIsLast' /\ BusyOnTurn' /\ SentOnce'
<1>1. OutcomeIsLast' /\ BusyOnTurn'
  BY DEF GInv, TakesUp, OutcomeIsLast, BusyOnTurn
<1>2. /\ Len(inbox) \in Nat \ {0} /\ DOMAIN inbox = 1..Len(inbox)
      /\ DOMAIN inbox' = 1..(Len(inbox) - 1) /\ turn' = inbox[1]
      /\ \A i \in DOMAIN inbox' : inbox'[i] = inbox[i + 1]
  BY DEF GInv, Types, AgentType, TakesUp
<1>3. record' = record \/ record' = [state |-> "working", turn |-> turn']
  BY DEF TakesUp, Shows, Row
<1>4. ASSUME NEW b \in Asks
      PROVE  /\ call'[b].at \in {"new", "listing"} => ~Queued(b)' /\ turn' # b /\ record'.turn # b
             /\ \A i, j \in DOMAIN inbox' : inbox'[i] = b /\ inbox'[j] = b => i = j
             /\ turn' = b => ~Queued(b)'
             /\ record'.turn = b => record'.state \in {"working", "blocked", "done"}
             /\ record'.turn = b /\ record'.state = "done" => turn' # b /\ ~Queued(b)'
  <2>1. /\ call[b].at \in {"new", "listing"} => ~Queued(b) /\ turn # b /\ record.turn # b
        /\ \A i, j \in DOMAIN inbox : inbox[i] = b /\ inbox[j] = b => i = j
        /\ record.turn = b => record.state \in {"working", "blocked", "done"}
        /\ record.turn = b /\ record.state = "done" => turn # b /\ ~Queued(b)
    BY DEF GInv, SentOnce
  <2>2. Queued(b)' => Queued(b)
    BY <1>2 DEF Queued
  <2>3. turn' = b => Queued(b)
    <3>1. 1 \in DOMAIN inbox
      BY <1>2
    <3> QED BY <1>2, <3>1 DEF Queued
  <2>4. \A i, j \in DOMAIN inbox' : inbox'[i] = b /\ inbox'[j] = b => i = j
    <3> SUFFICES ASSUME NEW i \in DOMAIN inbox', NEW j \in DOMAIN inbox',
                        inbox'[i] = b, inbox'[j] = b
                 PROVE  i = j
      OBVIOUS
    <3>1. i + 1 \in DOMAIN inbox /\ j + 1 \in DOMAIN inbox /\ i \in Nat /\ j \in Nat
      BY <1>2
    <3>2. inbox[i + 1] = b /\ inbox[j + 1] = b
      BY <1>2
    <3>3. i + 1 = j + 1
      BY <2>1, <3>1, <3>2
    <3> QED BY <3>1, <3>3
  <2>5. turn' = b => ~Queued(b)'
    <3> SUFFICES ASSUME turn' = b, NEW i \in DOMAIN inbox', inbox'[i] = b PROVE FALSE
      BY DEF Queued
    <3>1. 1 \in DOMAIN inbox /\ i + 1 \in DOMAIN inbox /\ i \in 1..(Len(inbox) - 1)
      BY <1>2
    <3>2. inbox[1] = b /\ inbox[i + 1] = b
      BY <1>2
    <3>3. 1 = i + 1
      BY <2>1, <3>1, <3>2
    <3> QED BY <3>1, <3>3
  <2>6. call' = call
    BY DEF TakesUp
  <2> QED BY <1>3, <2>1, <2>2, <2>3, <2>4, <2>5, <2>6
<1>5. SentOnce'
  BY <1>4 DEF SentOnce
<1> QED BY <1>1, <1>5

LEMMA OtherStepGives ==
  ASSUME GInv,
         \/ \E s \in Steers : Steer(s)
         \/ Tick \/ Restart
         \/ TakesUp \/ Blocks \/ Resumes \/ Writes \/ Finishes \/ Dies \/ StatusArrives
  PROVE  OutcomeIsLast' /\ BusyOnTurn' /\ SentOnce'
<1>1. CASE \E s \in Steers : Steer(s)
  <2>1. PICK s \in Steers : Steer(s)
    BY <1>1
  <2>2. OutcomeIsLast' /\ BusyOnTurn'
    BY <2>1 DEF Steer, GInv, OutcomeIsLast, BusyOnTurn
  <2>3. /\ DOMAIN inbox' = 1..(Len(inbox) + 1) /\ DOMAIN inbox = 1..Len(inbox)
        /\ Len(inbox) \in Nat /\ inbox'[Len(inbox) + 1] = s
        /\ \A i \in 1..Len(inbox) : inbox'[i] = inbox[i]
    BY <2>1 DEF Steer, GInv, Types, AgentType, Prompt
  <2>4. ASSUME NEW b \in Asks, NEW i \in DOMAIN inbox', inbox'[i] = b
        PROVE  i \in DOMAIN inbox /\ inbox[i] = b
    BY <2>3, <2>4, AskAssumption
  <2>5. UNCHANGED <<call, turn, record>>
    BY <2>1 DEF Steer
  <2>6. SentOnce'
    BY <2>4, <2>5 DEF GInv, SentOnce, Queued
  <2> QED BY <2>2, <2>6
<1>2. CASE Tick
  <2>1. \A a \in Asks : call'[a].at = call[a].at /\ call'[a].out = call[a].out
    BY <1>2 DEF Tick, GInv, Types, CallsType, Calls
  <2>2. UNCHANGED <<inbox, turn, herdr, record>>
    BY <1>2 DEF Tick, others
  <2> QED BY <2>1, <2>2 DEF GInv, OutcomeIsLast, BusyOnTurn, SentOnce, Queued
<1>3. CASE Restart
  <2>1. \A a \in Asks : call'[a] = call[a] \/ call'[a].at = "over"
    BY <1>3 DEF Restart, Fresh
  <2>2. UNCHANGED <<inbox, turn, herdr>> /\ record' = NoRow
    BY <1>3 DEF Restart, others
  <2>3. OutcomeIsLast' /\ BusyOnTurn'
    BY <2>1, <2>2 DEF GInv, OutcomeIsLast, BusyOnTurn
  <2>r. \A b \in Asks : record'.turn # b
    BY <2>2, RowOfNobody
  <2>4. SentOnce'
    BY <2>1, <2>2, <2>r DEF GInv, SentOnce, Queued
  <2> QED BY <2>3, <2>4
<1>4. CASE TakesUp
  BY <1>4, TakesUpGives
\* The agent goes on with its turn: any row it writes is about that turn.
<1>5. ASSUME NEW state \in {"working", "blocked"}, turn # None, Shows(state, turn),
             herdr' = state, UNCHANGED <<call, inbox, turn>>
      PROVE  OutcomeIsLast' /\ BusyOnTurn' /\ SentOnce'
  <2>1. record' = record \/ record' = [state |-> state, turn |-> turn]
    BY <1>5 DEF Shows, Row
  <2> QED BY <1>5, <2>1 DEF GInv, OutcomeIsLast, BusyOnTurn, SentOnce, Queued
<1>6. CASE Blocks
  BY <1>5, <1>6 DEF Blocks
<1>7. CASE Resumes
  <2>1. CASE turn # None
    BY <1>5, <1>7, <2>1 DEF Resumes
  <2>2. CASE turn = None
    <3>1. record' = record \/ record' = [state |-> "working", turn |-> None]
      BY <1>7, <2>2 DEF Resumes, Shows, Row
    <3>2. UNCHANGED <<call, inbox, turn>>
      BY <1>7 DEF Resumes
    <3> QED BY <2>2, <3>1, <3>2, AskAssumption DEF GInv, OutcomeIsLast, BusyOnTurn, SentOnce, Queued
  <2> QED BY <2>1, <2>2
<1>8. CASE Writes
  <2>1. UNCHANGED <<call, inbox, turn, herdr, record>>
    BY <1>8 DEF Writes, others
  <2> QED BY <2>1 DEF GInv, OutcomeIsLast, BusyOnTurn, SentOnce, Queued
<1>9. CASE Finishes
  <2>1. record' = record \/ record' = [state |-> "done", turn |-> turn]
    BY <1>9 DEF Finishes, Shows, Row
  <2>2. UNCHANGED <<call, inbox>> /\ turn' = None
    BY <1>9 DEF Finishes
  <2> QED BY <2>1, <2>2, AskAssumption DEF GInv, OutcomeIsLast, BusyOnTurn, SentOnce, Queued
<1>10. CASE Dies
  <2>1. UNCHANGED <<call, record>> /\ turn' = None /\ inbox' = <<>>
    BY <1>10 DEF Dies
  <2>2. \A b \in Asks : ~Queued(b)'
    BY <2>1 DEF Queued
  <2>3. \A i, j \in DOMAIN inbox' : i = j
    BY <2>1
  <2> QED BY <2>1, <2>2, <2>3, AskAssumption DEF GInv, OutcomeIsLast, BusyOnTurn, SentOnce
<1>11. CASE StatusArrives
  <2>1. UNCHANGED <<call, inbox, turn, herdr, record>>
    BY <1>11 DEF StatusArrives
  <2> QED BY <2>1 DEF GInv, OutcomeIsLast, BusyOnTurn, SentOnce, Queued
<1> QED BY <1>1, <1>2, <1>3, <1>4, <1>6, <1>7, <1>8, <1>9, <1>10, <1>11

\* An ask that is given up: by Decide, which then took the agent for idle.
LEMMA GivesUpIdle ==
  ASSUME GInv, [Next]_vars, NEW a \in Asks, GivesUp(a)
  PROVE  Decision = "idle"
<1>1. call[a] \in Calls /\ call[a].at = "deciding" /\ call[a].out = None
  BY DEF GivesUp, GInv, Types, CallsType, OutcomeIsLast
<1>2. call'[a].at = "last" \/ call'[a].out = "unresponsive"
  BY DEF GivesUp
<1>3. None # "unresponsive"
  BY AskAssumption DEF Outcomes
<1>4. CASE Decide(a)
  BY <1>2, <1>4, DecideGives
<1>5. CASE call'[a] = call[a]
  BY <1>1, <1>2, <1>3, <1>5
<1>6. CASE Tick
  <2>1. call'[a].at = call[a].at /\ call'[a].out = call[a].out
    BY <1>6 DEF Tick, GInv, Types, CallsType, Calls
  <2> QED BY <1>1, <1>2, <1>3, <2>1
<1>7. CASE Restart
  <2>1. call'[a] = [Fresh EXCEPT !.at = "over", !.out = "lost"]
    BY <1>1, <1>7 DEF Restart, InFlight
  <2> QED BY <1>2, <2>1 DEF Fresh
<1>8. ASSUME NEW b \in Asks, b # a,
             \/ Begin(b) \/ Delivered(b) \/ PromptReturns(b) \/ Fails(b)
             \/ Poll(b) \/ Decide(b) \/ LastRead(b)
      PROVE  call'[a] = call[a]
  <2>1. CASE Decide(b)
    BY <1>8, <2>1, DecideType DEF GInv
  <2>2. CASE Begin(b) \/ Delivered(b) \/ PromptReturns(b) \/ Fails(b) \/ Poll(b) \/ LastRead(b)
    BY <1>8, <2>2 DEF Begin, Delivered, PromptReturns, Fails, Poll, LastRead, To, Settle,
                      GInv, Types, CallsType
  <2> QED BY <1>8, <2>1, <2>2
<1>9. ~(Begin(a) \/ Delivered(a) \/ PromptReturns(a) \/ Fails(a) \/ Poll(a) \/ LastRead(a))
  BY <1>1 DEF Begin, Delivered, PromptReturns, Fails, Poll, LastRead, LoopDone
<1>10. CASE UNCHANGED call
  BY <1>5, <1>10
<1> QED BY <1>4, <1>5, <1>6, <1>7, <1>8, <1>9, <1>10
        DEF Next, vars, Steer, TakesUp, Blocks, Resumes, Writes, Finishes, Dies, StatusArrives

\* An ask that ends without its answer: by LastRead, which found no whole one.
LEMMA EndsUnanswered ==
  ASSUME GInv, [Next]_vars, NEW a \in Asks, call[a].at # "over",
         call'[a].out \in {"timeout", "parse_error"}
  PROVE  file[a] # "whole"
<1>1. call[a] \in Calls /\ call[a].out = None /\ a \in DOMAIN call
  BY DEF GInv, Types, CallsType, OutcomeIsLast
<1>2. None \notin {"timeout", "parse_error"}
  BY AskAssumption DEF Outcomes
<1>3. CASE call'[a].out = call[a].out
  BY <1>1, <1>2, <1>3
<1>4. ASSUME NEW out, Settle(a, out)
      PROVE  call'[a].out = out
  BY <1>1, <1>4 DEF Settle, Fresh
<1>5. ASSUME NEW stage, To(a, stage)
      PROVE  call'[a].out = call[a].out
  BY <1>1, <1>5 DEF To, Calls
<1>6. CASE LastRead(a)
  <2>1. call'[a].out = ReadAtEnd(file[a])
    BY <1>4, <1>6 DEF LastRead
  <2> QED BY <2>1 DEF ReadAtEnd
<1>7. CASE Decide(a)
  <2>1. CASE Settle(a, "unresponsive")
    BY <1>4, <2>1
  <2>2. CASE call'[a].at \in {"polling", "last"}
    BY <1>2, <1>7, <2>2, DecideGives
  <2> QED BY <1>7, <2>1, <2>2, DecideType DEF GInv
<1>8. CASE Begin(a)
  <2>1. CASE lock
    BY <1>1, <1>8, <2>1 DEF Begin, Calls
  <2> QED BY <1>3, <1>5, <1>8, <2>1 DEF Begin
<1>9. CASE Delivered(a) \/ PromptReturns(a) \/ Fails(a) \/ Poll(a)
  BY <1>3, <1>4, <1>5, <1>9 DEF Delivered, PromptReturns, Fails, Poll
<1>10. CASE Tick
  BY <1>3, <1>10 DEF Tick, GInv, Types, CallsType, Calls
<1>11. CASE Restart
  <2>1. call'[a] = call[a] \/ call'[a] = [Fresh EXCEPT !.at = "over", !.out = "lost"]
    BY <1>11 DEF Restart
  <2> QED BY <1>3, <2>1 DEF Fresh
<1>12. ASSUME NEW b \in Asks, b # a,
              \/ Begin(b) \/ Delivered(b) \/ PromptReturns(b) \/ Fails(b)
              \/ Poll(b) \/ Decide(b) \/ LastRead(b)
       PROVE  call'[a] = call[a]
  <2>1. CASE Decide(b)
    BY <1>12, <2>1, DecideType DEF GInv
  <2>2. CASE Begin(b) \/ Delivered(b) \/ PromptReturns(b) \/ Fails(b) \/ Poll(b) \/ LastRead(b)
    BY <1>12, <2>2 DEF Begin, Delivered, PromptReturns, Fails, Poll, LastRead, To, Settle,
                       GInv, Types, CallsType
  <2> QED BY <1>12, <2>1, <2>2
<1>13. CASE UNCHANGED call
  BY <1>3, <1>13
<1> QED BY <1>3, <1>6, <1>7, <1>8, <1>9, <1>10, <1>11, <1>12, <1>13
        DEF Next, vars, Steer, TakesUp, Blocks, Resumes, Writes, Finishes, Dies, StatusArrives

\* An ask ends without its answer only when there is none to be had: a whole
\* answer that is there at its last look is returned, and before its deadline no
\* ask is given up while the agent works on it, unless the registry has not heard
\* of it yet or the transcript's row is about another prompt.
THEOREM NoneGivenAway == Spec => NoAnswerGivenAway
<1>1. Init => GInv
  <2> SUFFICES ASSUME Init PROVE GInv
    OBVIOUS
  <2>1. OutcomeIsLast /\ BusyOnTurn
    BY DEF Init, OutcomeIsLast, BusyOnTurn, Fresh
  <2>2. SentOnce
    BY AskAssumption DEF Init, SentOnce, Queued, NoRow
  <2> QED BY <2>1, <2>2, InitTypes DEF GInv
<1>2. GInv /\ [Next]_vars => GInv'
  <2> SUFFICES ASSUME GInv, [Next]_vars PROVE GInv'
    OBVIOUS
  <2>1. Types'
    BY TypesStep DEF GInv
  <2>2. CASE UNCHANGED vars
    BY <2>1, <2>2 DEF vars, GInv, OutcomeIsLast, BusyOnTurn, SentOnce, Queued
  <2>3. CASE Next
    BY <2>1, <2>3, AskStepGives, OtherStepGives DEF Next, GInv
  <2> QED BY <2>2, <2>3
<1>3. GInv /\ [Next]_vars =>
        \A a \in Asks : call[a].at # "over" /\ call'[a].out \in {"timeout", "parse_error"}
                         => file[a] # "whole"
  BY EndsUnanswered
<1>4. GInv /\ [Next]_vars =>
        \A a \in Asks : GivesUp(a) /\ turn = a =>
                           tier # herdr \/ (FromTranscript /\ record.turn # a)
  <2> SUFFICES ASSUME GInv, [Next]_vars, NEW a \in Asks, GivesUp(a), turn = a,
                      tier = herdr, FromTranscript => record.turn = a
               PROVE  FALSE
    OBVIOUS
  <2>1. Decision = "idle"
    BY GivesUpIdle
  <2>2. herdr \in {"working", "blocked"}
    BY AskAssumption DEF GInv, BusyOnTurn
  <2>3. CASE FromTranscript
    <3>1. record.turn = a /\ record.state \in {"working", "blocked", "done"}
      BY <2>3 DEF GInv, SentOnce
    <3>2. record.state = "done"
      BY <2>1, <2>3, <3>1 DEF Decision
    <3> QED BY <3>1, <3>2 DEF GInv, SentOnce
  <2>4. CASE ~FromTranscript
    BY <2>1, <2>2, <2>4 DEF Decision
  <2> QED BY <2>3, <2>4
<1> QED BY <1>1, <1>2, <1>3, <1>4, PTL
        DEF Spec, NoAnswerGivenAway, LateAnswerTaken, GivenUpForAReason
-----------------------------------------------------------------------------
(* What the broker reads of a command *)

JobRec == [at : {"new", "polling", "over"}, out : E!Ended \cup {None, "timeout", "error"}]

\* A file that holds a code holds its command's, and one that was read is gone
\* for good.
ExecIInv ==
  /\ job \in [Cmd -> JobRec] /\ drop \in [Cmd -> {"none", "empty"} \cup E!Ended]
  /\ typed \in Seq(Cmd) /\ code \in [Cmd -> E!Ended \cup {None}]
  /\ \A c \in Cmd :
       /\ drop[c] \in E!Ended => drop[c] = code[c]
       /\ drop[c] = "empty" => code[c] # None
       /\ job[c].at = "over" => job[c].out # None
       /\ job[c].out \in E!Ended => job[c].out = code[c] /\ drop[c] = "none"

LEMMA ExecKeeps == ExecIInv /\ [E!Next]_execVars => ExecIInv'
<1> SUFFICES ASSUME ExecIInv, [E!Next]_execVars PROVE ExecIInv'
  OBVIOUS
<1> USE AgentsAssumption DEF E!Ended
<1>1. ASSUME NEW c \in Cmd, E!Types(c) PROVE ExecIInv'
  <2>1. typed' \in Seq(Cmd)
    BY <1>1 DEF E!Types, ExecIInv
  <2>2. CASE job' = [job EXCEPT ![c].at = "polling"]
    BY <1>1, <2>1, <2>2 DEF E!Types, ExecIInv, JobRec
  <2>3. CASE E!Over(c, "error")
    BY <1>1, <2>1, <2>3 DEF E!Types, E!Over, ExecIInv, JobRec
  <2> QED BY <1>1, <2>2, <2>3 DEF E!Types
<1>2. ASSUME NEW c \in Cmd, E!Poll(c) \/ E!AtDeadline(c) PROVE ExecIInv'
  <2>1. PICK out \in E!Ended \cup {"timeout"} :
          /\ E!Over(c, out) /\ (out # "timeout" => drop[c] = out)
          /\ drop' = [drop EXCEPT ![c] = "none"] /\ UNCHANGED <<typed, code>>
    BY <1>2 DEF E!Poll, E!AtDeadline, E!ReadCode
  <2> QED BY <2>1 DEF E!Over, ExecIInv, JobRec
<1>3. CASE E!ShellRuns
  <2>1. Head(typed) \in Cmd
    BY <1>3 DEF E!ShellRuns, ExecIInv
  <2> QED BY <1>3, <2>1 DEF E!ShellRuns, ExecIInv, JobRec
<1>4. CASE E!ShellWrites
  <2>1. Head(typed) \in Cmd /\ Tail(typed) \in Seq(Cmd)
    BY <1>4 DEF E!ShellWrites, ExecIInv
  <2> QED BY <1>4, <2>1 DEF E!ShellWrites, ExecIInv, JobRec
<1>5. CASE UNCHANGED execVars
  BY <1>5 DEF execVars, ExecIInv
<1> QED BY <1>1, <1>2, <1>3, <1>4, <1>5 DEF E!Next
-----------------------------------------------------------------------------
(* What a wait answers *)

WaitRec ==
  [at : {"looking", "waiting", "answered", "over"}, tries : Int, until : SUBSET W!States,
   raw : W!States \cup {None},
   out : W!States \cup {None, "bad_request", "timed_out", "upstream_error"}]

\* What is seen since the request: the agent while the wait is on, the state
\* herdr answered with, and the state of a row written since.
WaitIInv ==
  /\ agentIs \in W!States \cup {None} /\ seen \subseteq W!States
  /\ row \in [state : W!States, fresh : BOOLEAN] /\ wait \in WaitRec
  /\ row.fresh => wait.at # "looking" /\ row.state \in seen
  /\ wait.at \in {"waiting", "answered"} => agentIs \in seen \cup {None} /\ wait.out = None
  /\ wait.at = "looking" => wait.out = None
  /\ wait.at = "answered" => wait.raw \in seen \cap wait.until
  /\ W!WaitTellsTheTruth

LEMMA WaitKeeps == WaitIInv /\ [W!Next]_waitVars => WaitIInv'
<1> SUFFICES ASSUME WaitIInv, [W!Next]_waitVars PROVE WaitIInv'
  OBVIOUS
<1> USE AgentsAssumption DEF W!States, WaitIInv, WaitRec, W!WaitTellsTheTruth
<1>1. CASE W!LooksUp
  <2>1. UNCHANGED <<agentIs, row>> /\ ~row.fresh /\ wait.at = "looking"
    BY <1>1 DEF W!LooksUp
  <2>2. CASE W!Ends("bad_request") /\ UNCHANGED seen
    BY <2>1, <2>2 DEF W!Ends
  <2>3. CASE wait' = [wait EXCEPT !.tries = @ - 1] /\ UNCHANGED seen
    <3>1. wait.tries - 1 \in Int
      OBVIOUS
    <3>2. wait' \in WaitRec /\ wait'.at = "looking" /\ wait'.out = wait.out
      BY <2>1, <2>3, <3>1
    <3> QED BY <2>1, <2>3, <3>2
  <2>4. CASE agentIs # None /\ wait' = [wait EXCEPT !.at = "waiting"] /\ seen' = {agentIs}
    BY <2>1, <2>4
  <2> QED BY <1>1, <2>2, <2>3, <2>4 DEF W!LooksUp
<1>2. CASE W!Herdr
  <2>1. UNCHANGED <<agentIs, row, seen>> /\ wait.at = "waiting"
    BY <1>2 DEF W!Herdr
  <2>2. CASE agentIs \in wait.until /\ wait' = [wait EXCEPT !.at = "answered", !.raw = agentIs]
    <3>1. agentIs \in W!States /\ agentIs \in seen
      BY <2>1, <2>2
    <3> QED BY <2>1, <2>2, <3>1
  <2>3. CASE W!Ends("timed_out") \/ W!Ends("upstream_error")
    BY <2>1, <2>3 DEF W!Ends
  <2> QED BY <1>2, <2>2, <2>3 DEF W!Herdr
<1>3. CASE W!Answers
  BY <1>3 DEF W!Answers, W!Ends, W!FreshSince
<1>4. CASE W!AgentMoves
  <2> DEFINE fresh == wait.at # "looking"
  <2>1. /\ agentIs' \in W!States /\ UNCHANGED wait
        /\ row' = row \/ row' = [state |-> agentIs', fresh |-> fresh]
        /\ seen \subseteq seen' /\ seen' \subseteq W!States
        /\ wait.at # "looking" => agentIs' \in seen'
    BY <1>4 DEF W!AgentMoves
  <2>5. fresh \in BOOLEAN /\ (fresh <=> wait.at # "looking")
    OBVIOUS
  <2> HIDE DEF fresh
  <2>2. row' \in [state : W!States, fresh : BOOLEAN]
    BY <2>1, <2>5
  <2>3. row'.fresh => wait.at # "looking" /\ row'.state \in seen'
    BY <2>1, <2>5
  <2>4. W!WaitTellsTheTruth'
    <3>1. wait.out \in W!States => wait.at # "looking"
      OBVIOUS
    <3>2. row'.fresh \/ row' = row \/ wait.at = "looking"
      BY <2>1, <2>5
    <3> QED BY <2>1, <3>1, <3>2
  <2> QED BY <2>1, <2>2, <2>3, <2>4
<1>5. CASE W!AgentGoes
  BY <1>5 DEF W!AgentGoes
<1>6. CASE UNCHANGED waitVars
  BY <1>6 DEF waitVars
<1> QED BY <1>1, <1>2, <1>3, <1>4, <1>5, <1>6 DEF W!Next
-----------------------------------------------------------------------------
(* What a transcript says *)

Evs == {"prompt", "step", "asks", "granted", "ends"}
TEvent == [ev : Evs, at : Nat \ {0}]
LastOf(s) == s[Len(s)]

\* What precedes event i of a conversation.
Before(s, i) == IF i = 1 THEN "none" ELSE s[i - 1].ev
Chained(s) == \A i \in DOMAIN s : s[i].ev \in T!Follows(Before(s, i))

\* Both conversations are events in an order a CLI allows; the earlier one ended
\* before the spawn, and the question is younger than the spawn.
LogIInv ==
  /\ kind \in T!Kinds /\ log \in [T!Whose -> Seq(TEvent)]
  /\ started \in Nat /\ asked \in Nat /\ now \in Nat \ {0}
  /\ \A own \in T!Whose : Chained(log[own]) /\ \A i \in DOMAIN log[own] : log[own][i].at < now
  /\ started < now /\ asked < now /\ (asked > 0 => started > 0 /\ started < asked)
  /\ started = 0 => log.own = <<>>
  /\ started > 0 => \A i \in DOMAIN log.earlier : log.earlier[i].at < started

LEMMA FollowsIs ==
  ASSUME NEW ev \in Evs \cup {"none"}
  PROVE  /\ T!Follows(ev) \subseteq Evs
         /\ ev \in {"none", "ends"} => T!Follows(ev) = {"prompt"}
         /\ ev = "asks" => T!Follows(ev) = {"granted"}
         /\ ev \in {"prompt", "step", "granted"} => T!Follows(ev) = {"step", "asks", "ends"}
BY DEF T!Follows, Evs

LEMMA AppendAt ==
  ASSUME NEW S, NEW q \in Seq(S), NEW e \in S
  PROVE  /\ Append(q, e) \in Seq(S) /\ Len(Append(q, e)) = Len(q) + 1
         /\ \A i \in 1..Len(q) : Append(q, e)[i] = q[i]
         /\ Append(q, e)[Len(q) + 1] = e
OBVIOUS

LEMMA EventKeeps == ASSUME LogIInv, T!Event PROVE LogIInv'
<1> DEFINE own == T!Running
           s == log[own]
<1>1. PICK ev \in T!Follows(T!Last(own)) :
        log' = [log EXCEPT ![own] = Append(s, [ev |-> ev, at |-> now])]
  BY DEF T!Event
<1>2. own \in T!Whose /\ s \in Seq(TEvent)
  BY DEF LogIInv, T!Running, T!Whose
<1>3. T!Last(own) \in Evs \cup {"none"} /\ T!Last(own) = Before(s, Len(s) + 1)
  <2>1. CASE s = <<>>
    BY <2>1 DEF T!Last, Before
  <2>2. CASE s # <<>>
    <3>1. Len(s) \in Nat \ {0} /\ s[Len(s)] \in TEvent
      BY <1>2, <2>2
    <3> QED BY <2>2, <3>1 DEF T!Last, Before, TEvent
  <2> QED BY <2>1, <2>2
<1> DEFINE e == [ev |-> ev, at |-> now]
<1>4. e \in TEvent
  BY <1>1, <1>3, FollowsIs DEF TEvent, LogIInv
<1> DEFINE t == Append(s, e)
<1>5. /\ t \in Seq(TEvent) /\ Len(t) = Len(s) + 1 /\ t[Len(s) + 1] = e
      /\ \A i \in 1..Len(s) : t[i] = s[i]
  <2> HIDE DEF s, e
  <2> QED BY <1>2, <1>4, AppendAt
<1>6. log' = [log EXCEPT ![own] = t] /\ e.at = now /\ e.ev \in T!Follows(Before(s, Len(s) + 1))
  BY <1>1, <1>3
<1>7. /\ log' \in [T!Whose -> Seq(TEvent)] /\ log'[own] = t
      /\ \A o \in T!Whose : o # own => log'[o] = log[o]
  <2> HIDE DEF own, t
  <2> QED BY <1>2, <1>5, <1>6 DEF LogIInv
<1>8. Chained(t) /\ \A i \in DOMAIN t : t[i].at < now + 1
  <2> HIDE DEF t, e
  <2>1. Chained(s) /\ (\A i \in DOMAIN s : s[i].at < now) /\ now \in Nat
    BY <1>2 DEF LogIInv
  <2> HIDE DEF s
  <2>2. DOMAIN t = 1..(Len(s) + 1) /\ DOMAIN s = 1..Len(s) /\ Len(s) \in Nat
    BY <1>2, <1>5
  <2>3. ASSUME NEW i \in DOMAIN t PROVE t[i].ev \in T!Follows(Before(t, i)) /\ t[i].at < now + 1
    <3>1. Before(t, i) = Before(s, i)
      BY <1>5, <2>2 DEF Before
    <3>2. CASE i = Len(s) + 1
      BY <1>5, <1>6, <2>1, <3>1, <3>2
    <3>3. CASE i # Len(s) + 1
      <4>1. i \in DOMAIN s /\ t[i] = s[i]
        BY <1>5, <2>2, <3>3
      <4>2. s[i].at \in Nat
        <5> s[i] \in TEvent
          BY <1>2, <2>2, <4>1
        <5> QED BY DEF TEvent
      <4> QED BY <2>1, <3>1, <4>1, <4>2 DEF Chained
    <3> QED BY <3>2, <3>3
  <2> QED BY <2>3 DEF Chained
<1>9. \A o \in T!Whose : Chained(log'[o]) /\ \A i \in DOMAIN log'[o] : log'[o][i].at < now + 1
  <2> SUFFICES ASSUME NEW o \in T!Whose, o # own
               PROVE  Chained(log'[o]) /\ \A i \in DOMAIN log'[o] : log'[o][i].at < now + 1
    BY <1>7, <1>8
  <2>1. log'[o] = log[o] /\ Chained(log[o]) /\ log[o] \in Seq(TEvent)
    BY <1>7 DEF LogIInv
  <2>2. \A i \in DOMAIN log[o] : log[o][i].at < now + 1
    <3> SUFFICES ASSUME NEW i \in DOMAIN log[o] PROVE log[o][i].at < now + 1
      OBVIOUS
    <3>1. log[o][i].at \in Nat /\ log[o][i].at < now /\ now \in Nat
      <4> log[o][i] \in TEvent
        BY <2>1
      <4> QED BY DEF LogIInv, TEvent
    <3> QED BY <3>1
  <2> QED BY <2>1, <2>2
<1>10. /\ started = 0 => log'.own = <<>>
       /\ started > 0 => \A i \in DOMAIN log'.earlier : log'.earlier[i].at < started
  BY <1>7 DEF LogIInv, T!Running, T!Whose
<1> QED BY <1>7, <1>9, <1>10 DEF T!Event, LogIInv

LEMMA LogKeeps == LogIInv /\ [T!Next]_transcriptVars => LogIInv'
<1> SUFFICES ASSUME LogIInv, [T!Next]_transcriptVars PROVE LogIInv'
  OBVIOUS
<1>1. CASE T!Event
  BY <1>1, EventKeeps
<1>2. CASE T!Spawns \/ T!IsAsked
  <2>1. /\ UNCHANGED <<kind, log>> /\ now' = now + 1 /\ now \in Nat \ {0} /\ started \in Nat /\ asked \in Nat
        /\ \/ started = 0 /\ started' = now /\ asked' = asked
           \/ started > 0 /\ asked' = now /\ started' = started
    BY <1>2 DEF T!Spawns, T!IsAsked, LogIInv
  <2>2. \A own \in T!Whose : \A i \in DOMAIN log[own] : log[own][i].at < now + 1
    <3> SUFFICES ASSUME NEW own \in T!Whose, NEW i \in DOMAIN log[own] PROVE log[own][i].at < now + 1
      OBVIOUS
    <3>1. log[own][i].at \in Nat /\ log[own][i].at < now
      <4> log[own] \in Seq(TEvent) /\ log[own][i] \in TEvent
        BY DEF LogIInv
      <4> QED BY DEF LogIInv, TEvent
    <3> QED BY <2>1, <3>1
  <2>3. \A own \in T!Whose : \A i \in DOMAIN log[own] : log[own][i].at < now
    BY DEF LogIInv
  <2>4. /\ started' \in Nat /\ asked' \in Nat /\ now' \in Nat \ {0}
        /\ started' < now' /\ asked' < now' /\ (asked' > 0 => started' > 0 /\ started' < asked')
        /\ started' > 0
    BY <2>1 DEF LogIInv
  <2>5. \A i \in DOMAIN log.earlier : log.earlier[i].at < started'
    BY <2>1, <2>3 DEF LogIInv, T!Whose
  <2> QED BY <2>1, <2>2, <2>4, <2>5 DEF LogIInv
<1>3. CASE UNCHANGED transcriptVars
  BY <1>3 DEF transcriptVars, LogIInv
<1> QED BY <1>1, <1>2, <1>3 DEF T!Next

LEMMA LeastOf ==
  ASSUME NEW S, S \subseteq Nat, S # {} PROVE \E n \in S : \A m \in S : n <= m
<1>1. PICK n \in S : \A m \in S : ~(<<m, n>> \in OpToRel(<, Nat))
  BY NatLessThanWellFounded, WFMin, Zenon
<1>2. \A m \in S : ~(m < n)
  BY <1>1 DEF OpToRel
<1>3. n \in Nat /\ \A m \in S : m \in Nat
  OBVIOUS
<1> QED BY <1>2, <1>3

\* The newest of some rows is one of them, and none of them comes after it.
LEMMA NewestIs ==
  ASSUME NEW n \in Nat, NEW I, I \subseteq 1..n
  PROVE  /\ I = {} => T!Newest(I) = 0
         /\ I # {} => T!Newest(I) \in I /\ \A i \in I : i <= T!Newest(I)
<1>1. CASE I = {}
  BY <1>1 DEF T!Newest
<1>2. CASE I # {}
  <2> DEFINE Above == {m \in Nat : \A i \in I : i <= m}
  <2>1. Above # {} /\ Above \subseteq Nat
    BY DEF Above
  <2>2. PICK m \in Above : \A k \in Above : m <= k
    BY <2>1, LeastOf
  <2>3. m \in I
    <3> SUFFICES ASSUME m \notin I PROVE FALSE
      OBVIOUS
    <3>1. \A i \in I : i <= m - 1 /\ i >= 1
      BY <2>2
    <3>2. m - 1 \in Nat
      <4>1. PICK i \in I : TRUE
        BY <1>2
      <4> QED BY <2>2, <3>1, <4>1
    <3>3. m - 1 \in Above
      BY <3>1, <3>2
    <3> QED BY <2>2, <3>3
  <2>4. \E i \in I : \A j \in I : i >= j
    BY <2>2, <2>3
  <2>5. T!Max(I) \in I /\ \A j \in I : T!Max(I) >= j
    BY <2>4 DEF T!Max
  <2> QED BY <1>2, <2>5 DEF T!Newest
<1> QED BY <1>1, <1>2

\* What follows an end and a question in a conversation.
LEMMA ChainIs ==
  ASSUME NEW s \in Seq(TEvent), Chained(s), NEW i \in 1..Len(s)
  PROVE  /\ s[i] \in TEvent
         /\ i = 1 => s[i].ev = "prompt"
         /\ i < Len(s) => /\ i + 1 \in 1..Len(s)
                          /\ s[i].ev = "ends" => s[i + 1].ev = "prompt"
                          /\ s[i].ev = "asks" => s[i + 1].ev = "granted"
                          /\ s[i].ev = "prompt" => s[i + 1].ev \in {"step", "asks", "ends"}
<1>1. s[i] \in TEvent /\ s[i].ev \in Evs
  <2>1. s[i] \in TEvent
    OBVIOUS
  <2> QED BY <2>1 DEF TEvent
<1>2. i = 1 => s[i].ev = "prompt"
  BY FollowsIs DEF Chained, Before
<1>3. ASSUME i < Len(s) PROVE i + 1 \in 1..Len(s) /\ s[i + 1].ev \in T!Follows(s[i].ev)
  <2>1. i + 1 \in 1..Len(s) /\ Before(s, i + 1) = s[i].ev
    BY <1>3 DEF Before
  <2> QED BY <2>1 DEF Chained
<1> QED BY <1>1, <1>2, <1>3, FollowsIs DEF Evs

LEMMA ParseClaudeIs ==
  ASSUME NEW rows, rows # <<>>,
         NEW i, i = T!Newest({j \in DOMAIN rows : rows[j].stop # "none"}),
         NEW t, t = T!ParseClaude(rows)
  PROVE  /\ i = 0 => t.state = "working"
         /\ i # 0 /\ rows[i].stop = "done" => t = [state |-> "done", lastRecordAt |-> rows[i].at]
         /\ i # 0 /\ rows[i].stop = "other" => t.state = "working"
         /\ i # 0 /\ rows[i].stop = "blocked" =>
              IF \E j \in (i + 1)..Len(rows) : rows[j].result
                THEN t.state = "working" ELSE t.state = "blocked"
<1>1. CASE i = 0
  BY <1>1 DEF T!ParseClaude
<1>2. CASE i # 0 /\ rows[i].stop = "done"
  BY <1>2 DEF T!ParseClaude
<1>3. CASE i # 0 /\ rows[i].stop = "other"
  BY <1>3 DEF T!ParseClaude
<1>4. CASE i # 0 /\ rows[i].stop = "blocked"
  BY <1>4 DEF T!ParseClaude
<1> QED BY <1>1, <1>2, <1>3, <1>4

LEMMA ClaudeRowIs ==
  ASSUME NEW e \in TEvent
  PROVE  /\ T!ClaudeRow(e).at = e.at /\ (T!ClaudeRow(e).result <=> e.ev = "granted")
         /\ e.ev = "step" => T!ClaudeRow(e).stop = "other"
         /\ e.ev = "asks" => T!ClaudeRow(e).stop = "blocked"
         /\ e.ev = "ends" => T!ClaudeRow(e).stop = "done"
         /\ e.ev \in {"prompt", "granted"} => T!ClaudeRow(e).stop = "none"
<1> DEFINE granted == e.ev = "granted"
           stop == CASE e.ev = "step" -> "other" [] e.ev = "asks" -> "blocked"
                     [] e.ev = "ends" -> "done" [] OTHER -> "none"
<1>1. T!ClaudeRow(e) = [stop |-> stop, result |-> granted, at |-> e.at]
  BY DEF T!ClaudeRow
<1>2. /\ e.ev = "step" => stop = "other"
      /\ e.ev = "asks" => stop = "blocked"
      /\ e.ev = "ends" => stop = "done"
      /\ e.ev \in {"prompt", "granted"} => stop = "none"
  OBVIOUS
<1> HIDE DEF stop, granted
<1>3. T!ClaudeRow(e).result = granted /\ T!ClaudeRow(e).stop = stop /\ T!ClaudeRow(e).at = e.at
  BY <1>1
<1>4. T!ClaudeRow(e).result <=> granted
  BY <1>3, Zenon
<1> QED BY <1>2, <1>3, <1>4 DEF granted

LEMMA ClaudeTells ==
  ASSUME NEW s \in Seq(TEvent), Chained(s), s # <<>>,
         NEW t, t = T!ParseClaude(T!Mapped(s, T!ClaudeRow))
  PROVE  /\ t.state \in {"working", "blocked", "done"}
         /\ t.state = "done" => \/ LastOf(s).ev = "ends"
                                \/ LastOf(s).ev = "prompt" /\ Len(s) > 1
         /\ t.state = "blocked" => LastOf(s).ev = "asks"
         /\ LastOf(s).ev = "ends" => t = [state |-> "done", lastRecordAt |-> LastOf(s).at]
<1> DEFINE rows == T!Mapped(s, T!ClaudeRow)
           n == Len(s)
           Stops == {"step", "asks", "ends"}
           I == {j \in DOMAIN rows : rows[j].stop # "none"}
           i == T!Newest(I)
<1>0. t = T!ParseClaude(rows)
  OBVIOUS
<1>1. n \in Nat \ {0} /\ \A j \in 1..n : s[j] \in TEvent /\ s[j].ev \in Evs
  <2>1. n \in Nat \ {0} /\ \A j \in 1..n : s[j] \in TEvent
    OBVIOUS
  <2> QED BY <2>1 DEF TEvent
<1>2. /\ DOMAIN rows = 1..n /\ rows # <<>> /\ Len(rows) = n
      /\ \A j \in 1..n : rows[j] = T!ClaudeRow(s[j])
  BY <1>1 DEF T!Mapped
<1> HIDE DEF rows
<1>3. \A j \in 1..n :
        /\ rows[j].at = s[j].at /\ (rows[j].result <=> s[j].ev = "granted")
        /\ s[j].ev = "step" => rows[j].stop = "other"
        /\ s[j].ev = "asks" => rows[j].stop = "blocked"
        /\ s[j].ev = "ends" => rows[j].stop = "done"
        /\ s[j].ev \in {"prompt", "granted"} => rows[j].stop = "none"
  BY <1>1, <1>2, ClaudeRowIs
<1>4. I = {j \in 1..n : s[j].ev \in Stops}
  BY <1>1, <1>2, <1>3 DEF Evs
<1>5. i = T!Newest({j \in DOMAIN rows : rows[j].stop # "none"})
  OBVIOUS
<1>6. /\ i = 0 => t.state = "working"
      /\ i # 0 /\ rows[i].stop = "done" => t = [state |-> "done", lastRecordAt |-> rows[i].at]
      /\ i # 0 /\ rows[i].stop = "other" => t.state = "working"
      /\ i # 0 /\ rows[i].stop = "blocked" =>
           IF \E j \in (i + 1)..Len(rows) : rows[j].result
             THEN t.state = "working" ELSE t.state = "blocked"
  <2> HIDE DEF i
  <2> QED BY <1>0, <1>2, <1>5, ParseClaudeIs
<1> HIDE DEF I
<1>7. /\ I = {} => i = 0
      /\ I # {} => i \in I /\ \A j \in I : j <= i
  BY <1>1, <1>4, NewestIs
<1>8. LastOf(s) = s[n] /\ n \in 1..n
  BY <1>1 DEF LastOf
<1> HIDE DEF i, n
<1>9. CASE I = {}
  BY <1>1, <1>4, <1>6, <1>7, <1>8, <1>9
<1>10. CASE I # {}
  <2>1. i \in 1..n /\ i # 0 /\ s[i].ev \in Stops /\ \A j \in 1..n : s[j].ev \in Stops => j <= i
    BY <1>1, <1>4, <1>7, <1>10
  <2>2. s[n].ev = "ends" => i = n
    BY <1>1, <1>8, <2>1
  <2>3. CASE s[i].ev = "step"
    BY <1>3, <1>6, <1>8, <2>1, <2>2, <2>3
  <2>4. CASE s[i].ev = "asks"
    <3>1. rows[i].stop = "blocked" /\ s[n].ev # "ends"
      BY <1>3, <2>1, <2>2, <2>4
    <3>2. CASE i = n
      <4>1. ~ \E j \in (i + 1)..n : rows[j].result
        BY <1>1, <2>1, <3>2
      <4> QED BY <1>2, <1>6, <1>8, <2>1, <2>4, <3>1, <3>2, <4>1
    <3>3. CASE i # n
      <4>1. i + 1 \in 1..n /\ s[i + 1].ev = "granted"
        BY <1>1, <2>1, <2>4, <3>3, ChainIs DEF n
      <4>2. i + 1 \in (i + 1)..n /\ rows[i + 1].result
        BY <1>1, <1>3, <2>1, <4>1
      <4> QED BY <1>2, <1>6, <1>8, <2>1, <3>1, <4>2
    <3> QED BY <3>2, <3>3
  <2>5. CASE s[i].ev = "ends"
    <3>1. t = [state |-> "done", lastRecordAt |-> s[i].at]
      BY <1>3, <1>6, <2>1, <2>5
    <3>2. CASE i = n
      BY <1>8, <2>5, <3>1, <3>2
    <3>3. CASE i # n
      <4>1. i + 1 \in 1..n /\ s[i + 1].ev = "prompt"
        BY <1>1, <2>1, <2>5, <3>3, ChainIs DEF n
      <4>2. i + 1 = n
        <5> SUFFICES ASSUME i + 1 # n PROVE FALSE
          OBVIOUS
        <5>1. i + 2 \in 1..n /\ s[i + 2].ev \in Stops
          <6>1. i + 1 < n /\ i + 1 + 1 = i + 2
            BY <1>1, <2>1, <4>1
          <6> QED BY <4>1, <6>1, ChainIs DEF n
        <5> QED BY <2>1, <5>1
      <4> QED BY <1>8, <2>1, <2>2, <3>1, <3>3, <4>1, <4>2 DEF n
    <3> QED BY <3>2, <3>3
  <2> QED BY <2>1, <2>3, <2>4, <2>5
<1> QED BY <1>9, <1>10

\* What the other parsers say of a conversation.
Tells(s, t) ==
  /\ t = T!Null \/ (t.state \in {"working", "blocked", "done"}
                    /\ t.lastRecordAt \in {s[i].at : i \in DOMAIN s})
  /\ t.state = "done" => LastOf(s).ev = "ends"
  /\ t.state = "blocked" => LastOf(s).ev = "asks"

LEMMA LastIs ==
  ASSUME NEW s \in Seq(TEvent), s # <<>>
  PROVE  /\ Len(s) \in Nat \ {0} /\ Len(s) \in 1..Len(s) /\ DOMAIN s = 1..Len(s)
         /\ LastOf(s) = s[Len(s)] /\ LastOf(s) \in TEvent /\ LastOf(s).ev \in Evs
         /\ LastOf(s).at \in {s[i].at : i \in DOMAIN s}
<1>1. Len(s) \in Nat \ {0} /\ Len(s) \in 1..Len(s) /\ DOMAIN s = 1..Len(s) /\ s[Len(s)] \in TEvent
  OBVIOUS
<1> QED BY <1>1 DEF LastOf, TEvent

LEMMA AgyTells ==
  ASSUME NEW s \in Seq(TEvent), s # <<>>, NEW t, t = T!ParseAgy(T!Mapped(s, T!AgyRow))
  PROVE  /\ Tells(s, t)
         /\ LastOf(s).ev = "ends" => t = [state |-> "done", lastRecordAt |-> LastOf(s).at]
<1> DEFINE rows == T!Mapped(s, T!AgyRow)
<1>1. rows # <<>> /\ Len(rows) = Len(s) /\ rows[Len(rows)] = T!AgyRow(LastOf(s))
  BY LastIs DEF T!Mapped
<1>2. t = T!ParseAgy(rows)
  OBVIOUS
<1> HIDE DEF rows
<1> DEFINE last == T!AgyRow(LastOf(s))
<1>3. /\ last.at = LastOf(s).at
      /\ LastOf(s).ev = "ends" => last.status = "DONE" /\ last.type = "PLANNER_RESPONSE"
      /\ LastOf(s).ev = "asks" => last.status = "DONE" /\ last.type = "ASK_QUESTION"
      /\ LastOf(s).ev = "prompt" => last.status = "DONE" /\ last.type = "other"
      /\ LastOf(s).ev \in {"step", "granted"} => last.status = "RUNNING"
  BY LastIs DEF T!AgyRow
<1> HIDE DEF last
<1>4. t = [state |-> CASE last.status = "RUNNING" -> "working"
                       [] last.status # "RUNNING" /\ last.type = "ASK_QUESTION" -> "blocked"
                       [] last.status = "DONE" /\ last.type = "PLANNER_RESPONSE" -> "done"
                       [] OTHER -> "working",
           lastRecordAt |-> last.at]
  BY <1>1, <1>2 DEF T!ParseAgy, last
<1>5. /\ t.lastRecordAt = LastOf(s).at
      /\ LastOf(s).ev = "ends" => t.state = "done"
      /\ LastOf(s).ev = "asks" => t.state = "blocked"
      /\ LastOf(s).ev \in {"prompt", "step", "granted"} => t.state = "working"
  BY <1>3, <1>4
<1> QED BY <1>3, <1>4, <1>5, LastIs DEF Tells, Evs

LEMMA CodexTells ==
  ASSUME NEW s \in Seq(TEvent), Chained(s), s # <<>>, NEW t, t = T!ParseCodex(T!Mapped(s, T!CodexRow))
  PROVE  /\ Tells(s, t)
         /\ LastOf(s).ev = "ends" => t = [state |-> "done", lastRecordAt |-> LastOf(s).at]
<1> DEFINE rows == T!Mapped(s, T!CodexRow)
           n == Len(s)
           I == {j \in DOMAIN rows : rows[j].kind \in {"task_started", "task_complete"}}
           i == T!Newest(I)
<1>0. t = T!ParseCodex(rows)
  OBVIOUS
<1>1. n \in Nat \ {0} /\ \A j \in 1..n : s[j] \in TEvent /\ s[j].ev \in Evs
  <2>1. n \in Nat \ {0} /\ \A j \in 1..n : s[j] \in TEvent
    OBVIOUS
  <2> QED BY <2>1 DEF TEvent
<1>2. DOMAIN rows = 1..n /\ \A j \in 1..n : rows[j] = T!CodexRow(s[j])
  BY <1>1 DEF T!Mapped
<1>3. \A j \in 1..n :
        /\ rows[j].at = s[j].at
        /\ s[j].ev = "prompt" => rows[j].kind = "task_started"
        /\ s[j].ev = "ends" => rows[j].kind = "task_complete"
        /\ s[j].ev \in {"step", "asks", "granted"} => rows[j].kind = "other"
  <2> SUFFICES ASSUME NEW j \in 1..n
               PROVE  /\ rows[j].at = s[j].at
                      /\ s[j].ev = "prompt" => rows[j].kind = "task_started"
                      /\ s[j].ev = "ends" => rows[j].kind = "task_complete"
                      /\ s[j].ev \in {"step", "asks", "granted"} => rows[j].kind = "other"
    OBVIOUS
  <2> DEFINE kindOf == CASE s[j].ev = "prompt" -> "task_started" [] s[j].ev = "ends" -> "task_complete"
                         [] OTHER -> "other"
  <2>1. rows[j] = [kind |-> kindOf, at |-> s[j].at]
    BY <1>2 DEF T!CodexRow
  <2>2. rows[j].kind = kindOf /\ rows[j].at = s[j].at
    <3> HIDE DEF kindOf, rows
    <3> QED BY <2>1
  <2> HIDE DEF rows
  <2> QED BY <2>2
<1> HIDE DEF rows
<1>4. I = {j \in 1..n : s[j].ev \in {"prompt", "ends"}}
  BY <1>1, <1>2, <1>3 DEF Evs
<1>5. t = IF i = 0 THEN T!Null
          ELSE [state |-> IF rows[i].kind = "task_complete" THEN "done" ELSE "working",
                lastRecordAt |-> rows[i].at]
  BY <1>0 DEF T!ParseCodex
<1> HIDE DEF I
<1>6. /\ I = {} => i = 0
      /\ I # {} => i \in I /\ \A j \in I : j <= i
  BY <1>1, <1>4, NewestIs
<1>7. LastOf(s) = s[n] /\ n \in 1..n /\ DOMAIN s = 1..n
  BY <1>1, LastIs
<1> HIDE DEF i, n
<1>8. CASE I = {}
  BY <1>1, <1>4, <1>5, <1>6, <1>7, <1>8 DEF Tells, T!Null
<1>9. CASE I # {}
  <2>1. i \in 1..n /\ i # 0 /\ s[i].ev \in {"prompt", "ends"} /\ \A j \in 1..n : s[j].ev \in {"prompt", "ends"} => j <= i
    BY <1>1, <1>4, <1>6, <1>9
  <2>2. /\ s[i].ev = "ends" => t = [state |-> "done", lastRecordAt |-> s[i].at]
        /\ s[i].ev = "prompt" => t = [state |-> "working", lastRecordAt |-> s[i].at]
    BY <1>3, <1>5, <2>1
  <2>3. s[n].ev = "ends" => i = n
    BY <1>1, <1>7, <2>1
  <2>4. s[i].ev = "ends" => i = n
    <3> SUFFICES ASSUME s[i].ev = "ends", i # n PROVE FALSE
      OBVIOUS
    <3>1. i + 1 \in 1..n /\ s[i + 1].ev = "prompt"
      BY <1>1, <2>1, ChainIs DEF n
    <3> QED BY <2>1, <3>1
  <2>5. s[i].at \in {s[j].at : j \in DOMAIN s}
    BY <1>7, <2>1
  <2> QED BY <1>7, <2>1, <2>2, <2>3, <2>4, <2>5 DEF Tells
<1> QED BY <1>8, <1>9

LEMMA OpencodeTells ==
  ASSUME NEW s \in Seq(TEvent), s # <<>>, NEW t, t = T!ParseOpencode(s)
  PROVE  /\ Tells(s, t)
         /\ LastOf(s).ev = "ends" => t = [state |-> "done", lastRecordAt |-> LastOf(s).at]
<1>1. t = [state |-> IF LastOf(s).ev = "ends" THEN "done" ELSE "working",
           lastRecordAt |-> LastOf(s).at]
  BY DEF T!ParseOpencode, LastOf
<1> QED BY <1>1, LastIs DEF Tells

\* The row of copilot has the time of the turn's prompt.
LEMMA CopilotTells ==
  ASSUME NEW s \in Seq(TEvent), Chained(s), s # <<>>, NEW t, t = T!ParseCopilot(s)
  PROVE  /\ Tells(s, t)
         /\ LastOf(s).ev = "ends" => t = [state |-> "done", lastRecordAt |-> T!PromptAt(s)]
<1> DEFINE I == {j \in DOMAIN s : s[j].ev = "prompt"}
           i == T!Newest(I)
<1>1. 1 \in I /\ I \subseteq 1..Len(s)
  BY LastIs, ChainIs
<1> HIDE DEF I
<1>2. i \in I
  BY <1>1, LastIs, NewestIs
<1>3. i \in DOMAIN s /\ i # 0 /\ s[i].at \in Nat \ {0}
  <2>1. i \in 1..Len(s) /\ s[i] \in TEvent
    <3>1. \A j \in 1..Len(s) : s[j] \in TEvent
      OBVIOUS
    <3> QED BY <1>1, <1>2, <3>1
  <2> QED BY <2>1, LastIs DEF TEvent
<1> HIDE DEF i
<1>4. T!PromptAt(s) = s[i].at
  BY <1>3 DEF T!PromptAt, i, I
<1>5. t = [state |-> IF LastOf(s).ev = "ends" THEN "done" ELSE "working",
           lastRecordAt |-> T!PromptAt(s)]
  BY <1>3, <1>4 DEF T!ParseCopilot, LastOf
<1> QED BY <1>3, <1>4, <1>5, LastIs DEF Tells
\* What is read of no rows at all, and of a conversation by its kind.
LEMMA EmptyTells == ASSUME kind \in T!Kinds PROVE T!ParseTranscript(<<>>) = T!Null
<1>1. T!Mapped(<<>>, T!ClaudeRow) = <<>> /\ T!Mapped(<<>>, T!AgyRow) = <<>>
  BY DEF T!Mapped
<1>2. CASE kind = "claude"
  BY <1>1, <1>2 DEF T!ParseTranscript, T!ParseClaude
<1>3. CASE kind = "agy"
  BY <1>1, <1>3 DEF T!ParseTranscript, T!ParseAgy
<1>4. CASE kind = "codex"
  <2> DEFINE rows == T!Mapped(<<>>, T!CodexRow)
  <2>1. {j \in DOMAIN rows : rows[j].kind \in {"task_started", "task_complete"}} = {}
    BY DEF T!Mapped
  <2>2. T!Newest({j \in DOMAIN rows : rows[j].kind \in {"task_started", "task_complete"}}) = 0
    BY <2>1 DEF T!Newest
  <2> HIDE DEF rows
  <2>3. T!ParseCodex(rows) = T!Null
    BY <2>2 DEF T!ParseCodex
  <2> QED BY <1>4, <2>3 DEF T!ParseTranscript, rows
<1>5. CASE kind = "opencode"
  BY <1>5 DEF T!ParseTranscript, T!ParseOpencode
<1>6. CASE kind = "copilot"
  <2>1. {j \in DOMAIN <<>> : <<>>[j].ev = "prompt"} = {}
    OBVIOUS
  <2>2. T!PromptAt(<<>>) = 0
    BY <2>1 DEF T!PromptAt, T!Newest
  <2> QED BY <1>6, <2>2 DEF T!ParseTranscript, T!ParseCopilot
<1> QED BY <1>2, <1>3, <1>4, <1>5, <1>6 DEF T!Kinds

LEMMA KindTells ==
  ASSUME kind \in T!Kinds \ {"claude"}, NEW s \in Seq(TEvent), Chained(s), s # <<>>,
         NEW t, t = T!ParseTranscript(s)
  PROVE  /\ Tells(s, t)
         /\ LastOf(s).ev = "ends" =>
              t = [state |-> "done",
                   lastRecordAt |-> IF kind = "copilot" THEN T!PromptAt(s) ELSE LastOf(s).at]
<1>1. CASE kind = "agy"
  BY <1>1, AgyTells DEF T!ParseTranscript
<1>2. CASE kind = "codex"
  BY <1>2, CodexTells DEF T!ParseTranscript
<1>3. CASE kind = "opencode"
  BY <1>3, OpencodeTells DEF T!ParseTranscript
<1>4. CASE kind = "copilot"
  BY <1>4, CopilotTells DEF T!ParseTranscript
<1> QED BY <1>1, <1>2, <1>3, <1>4 DEF T!Kinds

\* What is believed is about the agent's own conversation: the earlier one was
\* over before the spawn, and so before the question.
LEMMA ReadsOwn ==
  ASSUME LogIInv, asked > 0, T!ReadTurnState # T!Null, T!ReadTurnState.lastRecordAt >= asked
  PROVE  /\ log.own \in Seq(TEvent) /\ Chained(log.own) /\ log.own # <<>>
         /\ T!Last("own") = LastOf(log.own).ev
         /\ T!ReadTurnState = T!ParseTranscript(log.own)
<1> DEFINE t == T!ParseTranscript(log[T!Found])
<1>1. T!ReadTurnState = t /\ t # T!Null /\ t.lastRecordAt >= asked
  BY DEF T!ReadTurnState
<1>2. /\ log.own \in Seq(TEvent) /\ log.earlier \in Seq(TEvent)
      /\ Chained(log.own) /\ Chained(log.earlier) /\ kind \in T!Kinds
  BY DEF LogIInv, T!Whose
<1>3. T!Found = "own"
  <2> SUFFICES ASSUME T!Found # "own" PROVE FALSE
    OBVIOUS
  <2>1. kind \in T!Kinds \ {"claude"} /\ t = T!ParseTranscript(log.earlier)
    BY <1>2 DEF T!Found, T!Pins
  <2> HIDE DEF t
  <2>2. log.earlier # <<>>
    BY <1>1, <1>2, <2>1, EmptyTells
  <2>3. t.lastRecordAt \in {log.earlier[i].at : i \in DOMAIN log.earlier}
    <3>1. Tells(log.earlier, t)
      BY <1>2, <2>1, <2>2, KindTells
    <3> QED BY <1>1, <3>1 DEF Tells
  <2>4. PICK i \in DOMAIN log.earlier : t.lastRecordAt = log.earlier[i].at
    BY <2>3
  <2>5. log.earlier[i] \in TEvent /\ log.earlier[i].at < started /\ started < asked
    BY <1>2 DEF LogIInv
  <2> QED BY <1>1, <2>4, <2>5 DEF LogIInv, TEvent
<1>4. log.own # <<>>
  BY <1>1, <1>2, <1>3, EmptyTells
<1> QED BY <1>1, <1>2, <1>3, <1>4 DEF T!Last, LastOf

\* A transcript that is believed says what its last event was.
LEMMA BelievedIsRight == LogIInv => T!DoneIsThisTurn
<1> SUFFICES ASSUME LogIInv, asked > 0, T!Verdict.evidence = "transcript"
             PROVE  /\ T!Verdict.raw = "done" =>
                         \/ T!OwnEnded
                         \/ kind = "claude" /\ T!Last("own") = "prompt" /\ Len(log.own) > 1
                    /\ T!Verdict.raw = "blocked" => T!Last("own") = "asks"
  BY DEF T!DoneIsThisTurn
<1> DEFINE t == T!ReadTurnState
           s == log.own
<1>1. t # T!Null /\ t.lastRecordAt >= asked /\ T!Verdict.raw = t.state
  BY DEF T!Verdict, T!DecideTurn
<1>2. /\ s \in Seq(TEvent) /\ Chained(s) /\ s # <<>>
      /\ T!Last("own") = LastOf(s).ev /\ t = T!ParseTranscript(s)
  BY <1>1, ReadsOwn
<1> HIDE DEF t, s
<1>3. CASE kind = "claude"
  <2>1. t = T!ParseClaude(T!Mapped(s, T!ClaudeRow))
    BY <1>2, <1>3 DEF T!ParseTranscript
  <2> QED BY <1>1, <1>2, <1>3, <2>1, ClaudeTells DEF T!OwnEnded, s
<1>4. CASE kind # "claude"
  <2>1. Tells(s, t)
    BY <1>2, <1>4, KindTells DEF LogIInv
  <2> QED BY <1>1, <1>2, <2>1 DEF Tells, T!OwnEnded
<1> QED BY <1>3, <1>4

LEMMA EndIsRead == LogIInv => T!EndIsSeen
<1> SUFFICES ASSUME LogIInv, asked > 0, T!OwnEnded, log.own[Len(log.own)].at >= asked,
                    ~(kind = "copilot" /\ T!PromptAt(log.own) < asked)
             PROVE  T!Verdict = [raw |-> "done", evidence |-> "transcript"]
  BY DEF T!EndIsSeen
<1> DEFINE s == log.own
           t == T!ParseTranscript(s)
<1>1. /\ s \in Seq(TEvent) /\ Chained(s) /\ s # <<>>
      /\ T!Found = "own" /\ LastOf(s).ev = "ends" /\ LastOf(s).at >= asked
  BY DEF LogIInv, T!Whose, T!OwnEnded, T!Last, T!Found, LastOf
<1>2. T!ReadTurnState = IF kind = "agy" /\ t.lastRecordAt < started THEN T!Null ELSE t
  BY <1>1 DEF T!ReadTurnState
<1> HIDE DEF t, s
<1>3. LastOf(s).at \in Nat
  BY <1>1, LastIs DEF TEvent
<1>5. t.state = "done" /\ t.lastRecordAt \in Nat /\ t.lastRecordAt >= asked
  <2>1. CASE kind = "claude"
    <3>1. t = T!ParseClaude(T!Mapped(s, T!ClaudeRow))
      BY <2>1 DEF T!ParseTranscript, t
    <3>2. t = [state |-> "done", lastRecordAt |-> LastOf(s).at]
      BY <1>1, <3>1, ClaudeTells
    <3> QED BY <1>1, <1>3, <3>2
  <2>2. CASE kind # "claude"
    <3>1. /\ Tells(s, t)
          /\ t = [state |-> "done",
                  lastRecordAt |-> IF kind = "copilot" THEN T!PromptAt(s) ELSE LastOf(s).at]
      BY <1>1, <2>2, KindTells DEF t, LogIInv
    <3>2. t.lastRecordAt \in Nat
      <4>1. \A i \in DOMAIN s : s[i].at \in Nat
        <5>1. \A i \in DOMAIN s : s[i] \in TEvent
          BY <1>1
        <5> QED BY <5>1 DEF TEvent
      <4> QED BY <3>1, <4>1 DEF Tells, T!Null
    <3>3. CASE kind = "copilot"
      <4>1. t.state = "done" /\ t.lastRecordAt = T!PromptAt(s)
        BY <3>1, <3>3
      <4> QED BY <3>2, <3>3, <4>1 DEF s, LogIInv
    <3>4. CASE kind # "copilot"
      BY <1>1, <1>3, <3>1, <3>4
    <3> QED BY <3>3, <3>4
  <2> QED BY <2>1, <2>2
<1>4. T!ReadTurnState = t /\ t # T!Null
  BY <1>2, <1>5 DEF LogIInv, T!Null
<1> QED BY <1>4, <1>5 DEF T!Verdict, T!DecideTurn

LEMMA PartsMove ==
  [AgentsNext]_all => [E!Next]_execVars /\ [W!Next]_waitVars /\ [T!Next]_transcriptVars
BY DEF AgentsNext, all, TwoAsks, AskAndSteer, TranscriptStep, ExecStep, WaitStep

LEMMA ReportsStart == AgentsInit => ExecIInv /\ WaitIInv /\ LogIInv
<1> SUFFICES ASSUME AgentsInit PROVE ExecIInv /\ WaitIInv /\ LogIInv
  OBVIOUS
<1>1. ExecIInv
  BY AgentsAssumption DEF AgentsInit, E!Init, ExecIInv, JobRec, E!Ended
<1>2. WaitIInv
  <2>1. PICK until \in SUBSET W!States :
          wait = [at |-> "looking", tries |-> 3, until |-> until, raw |-> None, out |-> None]
    BY DEF AgentsInit, W!Init
  <2>2. /\ wait \in WaitRec /\ wait.at = "looking" /\ wait.out = None
    BY <2>1 DEF WaitRec, W!States
  <2>3. /\ agentIs \in W!States /\ seen = {}
        /\ row \in [state : W!States, fresh : BOOLEAN] /\ row.fresh = FALSE
    BY DEF AgentsInit, W!Init
  <2>4. None \notin W!States
    BY AgentsAssumption DEF W!States
  <2> HIDE DEF WaitRec
  <2> QED BY <2>2, <2>3, <2>4 DEF WaitIInv, W!WaitTellsTheTruth
<1>3. LogIInv
  BY DEF AgentsInit, T!Init, LogIInv, T!Whose, Chained
<1> QED BY <1>1, <1>2, <1>3

\* What the broker says of an agent is so, for any commands, any number of events
\* and each CLI: an exit code is that of the command, the state a wait ends with is
\* one the agent was in since, and what is believed of a transcript is the last
\* event of the agent's own conversation, but for a prompt claude has not taken up.
THEOREM ReportsTrue == AgentsSpec => []ReportsAreTrue
<1>1. AgentsInit => ExecIInv /\ WaitIInv /\ LogIInv
  BY ReportsStart
<1>2. ExecIInv /\ WaitIInv /\ LogIInv /\ [AgentsNext]_all => (ExecIInv /\ WaitIInv /\ LogIInv)'
  BY PartsMove, ExecKeeps, WaitKeeps, LogKeeps
<1>3. ExecIInv /\ WaitIInv /\ LogIInv => ReportsAreTrue
  <2>1. ExecIInv => E!ExitCodeIsTrue
    BY DEF ExecIInv, E!ExitCodeIsTrue, JobRec
  <2> QED BY <2>1, BelievedIsRight, EndIsRead DEF WaitIInv, ReportsAreTrue
<1> QED BY <1>1, <1>2, <1>3, PTL DEF AgentsSpec
=============================================================================
