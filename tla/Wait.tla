-------------------------------- MODULE Wait --------------------------------
(***************************************************************************)
(* broker.agent.wait (waitAgent of workspace-ops.ts): herdr is asked to    *)
(* answer when the agent is in one of the states `until`; its answer is    *)
(* then weighed against the transcript, which is read later and knows      *)
(* finer states.  agentInPane, the lookup every pane driver starts with,   *)
(* asks up to three times for an agent that has no kind yet.               *)
(***************************************************************************)
EXTENDS Naturals

CONSTANTS None

States == {"working", "blocked", "idle"}

VARIABLES
  agentIs,   \* the agent's state; None: no agent in the pane
  kindKnown, \* agent.list tells its kind
  row,       \* the transcript's deciding row: its state, and written since the request
  seen,      \* states of the agent since the request
  wait       \* [at, tries, until, raw, out]

waitVars == <<agentIs, kindKnown, row, seen, wait>>

Init ==
  /\ agentIs \in States /\ kindKnown = FALSE
  /\ row \in [state : States, fresh : {FALSE}]
  /\ seen = {}
  /\ \E until \in SUBSET States \ {{}} :
       wait = [at |-> "looking", tries |-> 3, until |-> until, raw |-> None, out |-> None]

Ends(out) == wait' = [wait EXCEPT !.at = "over", !.out = out]

\* agent.list: no agent is an error, one without a kind is looked at again and
\* taken by its name in the end.
LooksUp ==
  /\ wait.at = "looking"
  /\ \/ agentIs = None /\ Ends("bad_request") /\ UNCHANGED seen
     \/ /\ agentIs # None /\ ~kindKnown /\ wait.tries > 1
        /\ wait' = [wait EXCEPT !.tries = @ - 1] /\ UNCHANGED seen
     \/ /\ agentIs # None /\ (kindKnown \/ wait.tries = 1)
        /\ wait' = [wait EXCEPT !.at = "waiting"] /\ seen' = {agentIs}
  /\ UNCHANGED <<agentIs, kindKnown, row>>

\* herdr answers agent.wait, or its own timeout runs out.
Herdr ==
  /\ wait.at = "waiting"
  /\ \/ agentIs \in wait.until /\ wait' = [wait EXCEPT !.at = "answered", !.raw = agentIs]
     \/ Ends("timed_out")
     \/ agentIs = None /\ Ends("upstream_error")
  /\ UNCHANGED <<agentIs, kindKnown, row, seen>>

\* Bound to this wait's own start: an older row is no evidence.
FreshSince(r) == r.fresh

Answers ==
  /\ wait.at = "answered"
  /\ Ends(IF FreshSince(row) THEN row.state ELSE wait.raw)
  /\ UNCHANGED <<agentIs, kindKnown, row, seen>>

\* The agent goes on meanwhile; not every change is a row.
AgentMoves ==
  /\ agentIs # None
  /\ agentIs' \in States
  /\ row' \in {row, [state |-> agentIs', fresh |-> wait.at # "looking"]}
  /\ seen' = IF wait.at = "looking" THEN seen ELSE seen \cup {agentIs'}
  /\ kindKnown' \in {kindKnown, TRUE}
  /\ UNCHANGED wait

AgentGoes ==
  /\ agentIs # None
  /\ agentIs' = None
  /\ UNCHANGED <<kindKnown, row, seen, wait>>

Next == LooksUp \/ Herdr \/ Answers \/ AgentMoves \/ AgentGoes
Spec == Init /\ [][Next]_waitVars
-----------------------------------------------------------------------------
(* Properties *)

\* The state a wait answers with is one the agent was in since the request,
\* and if it is none of those waited for, a row written since says so.
WaitTellsTheTruth ==
  wait.out \in States =>
    /\ wait.out \in seen
    /\ wait.out \in wait.until \/ row.fresh
=============================================================================
