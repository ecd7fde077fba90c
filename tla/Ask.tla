-------------------------------- MODULE Ask --------------------------------
(***************************************************************************)
(* broker.agent.ask of ONE pane (ask and askInner of workspace-ops.ts): a  *)
(* prompt goes to the agent, its answer comes back in a file the broker    *)
(* polls for, and between two polls the broker guesses from the agent's    *)
(* status and from its transcript whether an answer can still come.        *)
(*                                                                         *)
(* The agent is another process: it takes up the prompts it is sent in     *)
(* order, writes the file and its transcript, and its status reaches the   *)
(* registry some time later.  Clocks are relative (the age of an ask, the  *)
(* time it has seen the agent idle) and stop at the last value the code    *)
(* tells apart, so no bound on time is needed.  Two events in the same     *)
(* millisecond are left out.                                               *)
(***************************************************************************)
EXTENDS Naturals, Sequences, FiniteSets

CONSTANTS Asks,        \* requests to ask, each made once
          Steers,      \* prompts that expect no answer, each sent once
          Grace,       \* askGraceMs
          StartGrace,  \* askStartGraceMs
          Budget,      \* timeout_ms, clamped
          None

Outcomes == {"answer", "parse_error", "busy", "error", "unresponsive", "timeout", "lost"}

ASSUME AskAssumption ==
  /\ Asks \cap Steers = {} /\ None \notin Asks \cup Steers \cup Outcomes
  /\ {Grace, StartGrace} \subseteq Nat /\ Budget \in Nat \ {0}

Prompt == Asks \cup Steers
Status == {"working", "blocked", "idle"}

VARIABLES
  call,    \* how far each ask is
  lock,    \* askLocks has the pane
  file,    \* .herdr/answers/<id>.json of each ask
  inbox,   \* prompts the agent has not taken up yet
  turn,    \* the prompt it works on
  alive,   \* the agent runs
  herdr,   \* its status at herdr
  tier,    \* its status in the registry
  record   \* the newest deciding row of its transcript, if it is not older than
           \* startedAt of the ask under way: a stale row is no row

vars == <<call, lock, file, inbox, turn, alive, herdr, tier, record>>
others == <<inbox, turn, alive, herdr, tier>>

Stages == {"new", "listing", "prompted", "polling", "deciding", "last", "over"}
Calls ==
  [at : Stages, age : 0..Budget, saw : BOOLEAN, idle : {None} \cup 0..(Grace + 1),
   out : Outcomes \cup {None}]

\* A row: the state it tells and the turn it is about.
NoRow == [state |-> None, turn |-> None]
Row(s, p) == [state |-> s, turn |-> p]

Fresh == [at |-> "new", age |-> 0, saw |-> FALSE, idle |-> None, out |-> None]

\* A pane whose agent may be busy already with a prompt sent before.
Init ==
  /\ call = [a \in Asks |-> Fresh]
  /\ lock = FALSE
  /\ file = [a \in Asks |-> "none"]
  /\ inbox = <<>> /\ turn = None /\ alive = TRUE
  /\ herdr = "idle" /\ tier = "idle"
  /\ record = NoRow

InFlight == {a \in Asks : call[a].at \notin {"new", "over"}}
Waiting(a) == call[a].at \in {"polling", "deciding", "last"}
BugNoDeadline(a) == FALSE
LoopDone(a) == call[a].at = "polling" /\ call[a].age = Budget

To(a, stage) == call' = [call EXCEPT ![a].at = stage]
BugKeepsLock(a, out) ==
  /\ call' = [call EXCEPT ![a] = [Fresh EXCEPT !.at = "over", !.out = out]]
  /\ lock' = (out = "unresponsive") /\ record' = NoRow
\* The finally of ask(), whatever the outcome.
Settle(a, out) ==
  /\ call' = [call EXCEPT ![a] = [Fresh EXCEPT !.at = "over", !.out = out]]
  /\ lock' = FALSE /\ record' = NoRow
-----------------------------------------------------------------------------
(* The request up to its prompt *)

Begin(a) ==
  /\ call[a].at = "new"
  /\ IF lock THEN /\ call' = [call EXCEPT ![a].at = "over", ![a].out = "busy"]
                  /\ UNCHANGED <<lock, record>>
             ELSE To(a, "listing") /\ lock' = TRUE
  /\ UNCHANGED <<file, record, others>>

\* The workspace is known, agent.list has a named agent in the pane, the drop
\* directory is inside the workspace, and agent.prompt arrives at the agent ...
Delivered(a) ==
  /\ call[a].at = "listing" /\ alive
  /\ To(a, "prompted")
  /\ inbox' = Append(inbox, a)
  /\ UNCHANGED <<lock, file, turn, alive, herdr, tier, record>>

\* ... and is answered: the clock starts.
PromptReturns(a) ==
  /\ call[a].at = "prompted"
  /\ To(a, "polling")
  /\ UNCHANGED <<lock, file, record, others>>

\* A check of the request fails, or an answer of herdr is lost.
Fails(a) ==
  /\ call[a].at \in {"listing", "prompted"}
  /\ Settle(a, "error")
  /\ UNCHANGED <<file, others>>
-----------------------------------------------------------------------------
(* The polling loop *)

Poll(a) ==
  /\ call[a].at = "polling" /\ ~LoopDone(a)
  /\ IF file[a] = "whole"
       THEN Settle(a, "answer") /\ file' = [file EXCEPT ![a] = "none"]
       ELSE To(a, "deciding") /\ UNCHANGED <<lock, file, record>>
  /\ UNCHANGED others

\* decideTurn: a fresh row of the transcript wins over the registry's status.
FromTranscript == record # NoRow
Decision ==
  IF ~FromTranscript THEN tier
  ELSE IF record.state = "done" THEN "idle" ELSE record.state

Decide(a) ==
  LET c == call[a]
      idleFor == IF c.idle = None THEN 0 ELSE c.idle
  IN
  /\ c.at = "deciding"
  /\ \/ /\ Decision \in {"working", "blocked"}
        /\ call' = [call EXCEPT ![a].at = "polling", ![a].saw = TRUE, ![a].idle = None]
        /\ UNCHANGED <<lock, record>>
     \/ /\ Decision = "idle" /\ c.saw
        /\ call' = [call EXCEPT ![a].at = IF idleFor > Grace THEN "last" ELSE "polling",
                                ![a].idle = idleFor]
        /\ UNCHANGED <<lock, record>>
     \/ /\ Decision = "idle" /\ ~c.saw /\ c.age > StartGrace
        /\ Settle(a, "unresponsive")
     \/ /\ Decision = "idle" /\ ~c.saw /\ c.age <= StartGrace
        /\ To(a, "polling") /\ UNCHANGED <<lock, record>>
  /\ UNCHANGED <<file, others>>

\* After the loop the file is read once more.
BugGivesUpUnread(s) == "timeout"
ReadAtEnd(s) == CASE s = "whole" -> "answer" [] s = "part" -> "parse_error" [] s = "none" -> "timeout"
LastRead(a) ==
  /\ call[a].at = "last" \/ LoopDone(a)
  /\ Settle(a, ReadAtEnd(file[a]))
  /\ file' = [file EXCEPT ![a] = "none"]
  /\ UNCHANGED others

Tick ==
  /\ \E a \in Asks : Waiting(a)
  /\ call' = [a \in Asks |->
       IF ~Waiting(a) THEN call[a]
       ELSE [call[a] EXCEPT !.age = IF @ < Budget THEN @ + 1 ELSE @,
                            !.idle = IF @ = None THEN None
                                     ELSE IF @ <= Grace THEN @ + 1 ELSE @]]
  /\ UNCHANGED <<lock, file, record, others>>

\* The daemon ends: its locks and its requests are gone, files and prompts stay.
Restart ==
  /\ InFlight # {}
  /\ call' = [a \in Asks |->
       IF a \in InFlight THEN [Fresh EXCEPT !.at = "over", !.out = "lost"] ELSE call[a]]
  /\ lock' = FALSE /\ record' = NoRow
  /\ UNCHANGED <<file, others>>
-----------------------------------------------------------------------------
(* Steering, and the agent *)

\* agent.prompt without the lock: steering during an ask is allowed.
Steer(s) ==
  /\ alive /\ turn # s /\ record.turn # s
  /\ \A i \in DOMAIN inbox : inbox[i] # s
  /\ inbox' = Append(inbox, s)
  /\ UNCHANGED <<call, lock, file, turn, alive, herdr, tier, record>>

\* What the agent does next may or may not show in its transcript.
Shows(state, p) ==
  record' \in {record} \cup {Row(state, p) : a \in {b \in Asks : Waiting(b)}}

TakesUp ==
  /\ alive /\ turn = None /\ inbox # <<>>
  /\ turn' = Head(inbox) /\ inbox' = Tail(inbox)
  /\ herdr' = "working"
  /\ Shows("working", Head(inbox))
  /\ UNCHANGED <<call, lock, file, alive, tier>>

Blocks ==
  /\ turn # None /\ herdr = "working"
  /\ herdr' = "blocked" /\ Shows("blocked", turn)
  /\ UNCHANGED <<call, lock, file, inbox, turn, alive, tier>>

Resumes ==
  /\ herdr = "blocked"
  /\ herdr' = "working" /\ Shows("working", turn)
  /\ UNCHANGED <<call, lock, file, inbox, turn, alive, tier>>

Writes ==
  /\ turn \in Asks /\ herdr = "working" /\ file[turn] # "whole"
  /\ \E s \in {"part", "whole"} : file' = [file EXCEPT ![turn] = s]
  /\ UNCHANGED <<call, lock, record, others>>

Finishes ==
  /\ turn # None /\ herdr = "working"
  /\ turn' = None /\ herdr' = "idle" /\ Shows("done", turn)
  /\ UNCHANGED <<call, lock, file, inbox, alive, tier>>

Dies ==
  /\ alive
  /\ alive' = FALSE /\ turn' = None /\ inbox' = <<>> /\ herdr' = "idle"
  /\ UNCHANGED <<call, lock, file, tier, record>>

StatusArrives ==
  /\ tier # herdr
  /\ tier' = herdr
  /\ UNCHANGED <<call, lock, file, inbox, turn, alive, herdr, record>>

Next ==
  \/ \E a \in Asks :
       \/ Begin(a) \/ Delivered(a) \/ PromptReturns(a) \/ Fails(a)
       \/ Poll(a) \/ Decide(a) \/ LastRead(a)
  \/ \E s \in Steers : Steer(s)
  \/ Tick \/ Restart
  \/ TakesUp \/ Blocks \/ Resumes \/ Writes \/ Finishes \/ Dies \/ StatusArrives

Spec == Init /\ [][Next]_vars

\* Requests to herdr are answered or time out, the poll timer fires and time
\* passes.  The agent owes nothing.
AskFairness ==
  /\ WF_vars(Tick)
  /\ \A a \in Asks :
       /\ WF_vars(Delivered(a) \/ Fails(a)) /\ WF_vars(PromptReturns(a))
       /\ WF_vars(Poll(a)) /\ WF_vars(Decide(a)) /\ WF_vars(LastRead(a))
AskSpec == Spec /\ AskFairness
-----------------------------------------------------------------------------
(* Properties *)

TypeOK ==
  /\ call \in [Asks -> Calls] /\ lock \in BOOLEAN
  /\ file \in [Asks -> {"none", "part", "whole"}]
  /\ inbox \in Seq(Prompt) /\ turn \in Prompt \cup {None} /\ alive \in BOOLEAN
  /\ herdr \in Status /\ tier \in Status
  /\ record \in [state : {None, "working", "blocked", "done"}, turn : Prompt \cup {None}]

\* "one ask at a time per pane", and the pane is free again after every end of
\* an ask: the lock is held exactly while one is in flight.
OneAskAtATime == Cardinality(InFlight) = (IF lock THEN 1 ELSE 0)

\* "a late-but-valid answer must not be discarded": an ask that ends without
\* an answer after its last look at the file leaves no whole answer behind.
LateAnswerTaken ==
  [][\A a \in Asks :
       call[a].at # "over" /\ call'[a].out \in {"timeout", "parse_error"}
         => file[a] # "whole"]_vars

\* An ask is not given up before its deadline while the agent works on it.
\* Exceptions: the registry has not heard of the agent's status yet, or the
\* transcript's row is about another prompt.
GivesUp(a) ==
  call[a].at = "deciding" /\ (call'[a].at = "last" \/ call'[a].out = "unresponsive")
GivenUpForAReason ==
  [][\A a \in Asks :
       GivesUp(a) /\ turn = a => tier # herdr \/ (FromTranscript /\ record.turn # a)]_vars

\* Both: an ask ends without its answer only when there is none to be had.
NoAnswerGivenAway == LateAnswerTaken /\ GivenUpForAReason

\* Every ask ends, whatever the agent does.
EveryAskSettles == \A a \in Asks : call[a].at = "listing" ~> call[a].at = "over"
=============================================================================
