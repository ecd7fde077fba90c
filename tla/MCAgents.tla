------------------------------ MODULE MCAgents ------------------------------
(* The calls about one agent and what they read of it.  They share no state *)
(* in these models, so `part` picks the one that runs; the others rest in   *)
(* an initial state.  An ask is run beside a second ask, or beside a steer. *)
EXTENDS Ask

CONSTANTS MaxEvents, Cmd,
          Second   \* the ask that stays away when a steer comes

ASSUME AgentsAssumption ==
  None \notin {"ok", "failed", "error", "timeout", "working", "blocked", "idle"}

VARIABLES part,
          kind, log, started, asked, now,
          job, drop, typed, code, told,
          agentIs, kindKnown, row, seen, wait

transcriptVars == <<kind, log, started, asked, now>>
execVars == <<job, drop, typed, code, told>>
waitVars == <<agentIs, kindKnown, row, seen, wait>>
all == <<part, vars, transcriptVars, execVars, waitVars>>

T == INSTANCE Transcript
E == INSTANCE Exec
W == INSTANCE Wait

AgentsInit ==
  /\ part \in {"asks", "steer", "transcript", "exec", "wait"}
  /\ Init /\ T!Init /\ E!Init /\ W!Init
  /\ part # "transcript" => kind = "claude"
  /\ part # "wait" => agentIs = "idle" /\ row.state = "idle" /\ wait.until = {"idle"}

TwoAsks ==
  /\ part = "asks" /\ Next /\ \A i \in DOMAIN inbox' : inbox'[i] \in Asks
  /\ UNCHANGED <<part, transcriptVars, execVars, waitVars>>
AskAndSteer ==
  /\ part = "steer" /\ Next /\ call'[Second].at = "new"
  /\ UNCHANGED <<part, transcriptVars, execVars, waitVars>>
TranscriptStep == part = "transcript" /\ T!Next /\ UNCHANGED <<part, vars, execVars, waitVars>>
ExecStep == part = "exec" /\ E!Next /\ UNCHANGED <<part, vars, transcriptVars, waitVars>>
WaitStep == part = "wait" /\ W!Next /\ UNCHANGED <<part, vars, transcriptVars, execVars>>
AgentsNext == TwoAsks \/ AskAndSteer \/ TranscriptStep \/ ExecStep \/ WaitStep

AgentsSpec == AgentsInit /\ [][AgentsNext]_all /\ AskFairness

\* What the broker says of an agent is so: the exit code of a command, the
\* state a wait ends with, and the state it reads from a transcript.
ReportsAreTrue ==
  E!ExitCodeIsTrue /\ W!WaitTellsTheTruth /\ T!DoneIsThisTurn /\ T!EndIsSeen
=============================================================================
