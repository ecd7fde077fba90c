----------------------------- MODULE Transcript -----------------------------
(***************************************************************************)
(* transcript.ts: what a CLI's own session file says about the current     *)
(* turn.  The history of a conversation is a sequence of events; each kind *)
(* of CLI writes them down in its own shape (Rows), the parsers read the   *)
(* shape back, readTurnState finds the file, and decideTurn weighs the     *)
(* result against the agent's status.                                      *)
(*                                                                         *)
(* Two conversations may share the directory: one that ended before the    *)
(* agent was spawned, and the agent's own.                                 *)
(***************************************************************************)
EXTENDS Integers, Sequences, FiniteSets, FiniteSetsExt

CONSTANTS MaxEvents   \* bound: events of both conversations

Kinds == {"claude", "agy", "codex", "opencode", "copilot"}
Pins  == {"claude", "opencode"}
Whose == {"own", "earlier"}
Null  == [state |-> "null", lastRecordAt |-> 0]

VARIABLES
  kind,     \* the agent's CLI
  log,      \* the events [ev, at] of the agent's own conversation, and of the earlier one
  started,  \* AgentMeta.startedAt, 0 before the spawn
  asked,    \* the time decideTurn is given, 0 before it
  now

vars == <<kind, log, started, asked, now>>

Newest(I) == IF I = {} THEN 0 ELSE Max(I)
-----------------------------------------------------------------------------
(* The files (external): the events a CLI records, in its own vocabulary.   *)

ClaudeRow(e) ==
  [stop |-> CASE e.ev = "step" -> "other" [] e.ev = "asks" -> "blocked"
              [] e.ev = "ends" -> "done" [] OTHER -> "none",
   result |-> e.ev = "granted", at |-> e.at]
AgyRow(e) ==
  [type |-> CASE e.ev = "asks" -> "ASK_QUESTION" [] e.ev = "ends" -> "PLANNER_RESPONSE" [] OTHER -> "other",
   status |-> IF e.ev \in {"step", "granted"} THEN "RUNNING" ELSE "DONE", at |-> e.at]
CodexRow(e) ==
  [kind |-> CASE e.ev = "prompt" -> "task_started" [] e.ev = "ends" -> "task_complete" [] OTHER -> "other",
   at |-> e.at]
Mapped(s, Op(_)) == [i \in DOMAIN s |-> Op(s[i])]
PromptAt(s) == LET i == Newest({j \in DOMAIN s : s[j].ev = "prompt"}) IN IF i = 0 THEN 0 ELSE s[i].at
-----------------------------------------------------------------------------
(* The parsers *)

\* The newest row with a stop_reason decides; a tool_use that was answered
\* since is still moving.  Without one, the newest row only says "working".
ParseClaude(rows) ==
  LET i == Newest({j \in DOMAIN rows : rows[j].stop # "none"})
      state == CASE rows[i].stop = "done" -> "done"
                 [] rows[i].stop = "blocked" ->
                      IF \E j \in (i + 1)..Len(rows) : rows[j].result THEN "working" ELSE "blocked"
                 [] OTHER -> "working"
  IN CASE rows = <<>> -> Null
       [] rows # <<>> /\ i = 0 -> [state |-> "working", lastRecordAt |-> Max({rows[j].at : j \in DOMAIN rows})]
       [] OTHER -> [state |-> state, lastRecordAt |-> rows[i].at]

\* The last row; RUNNING beats every type.
ParseAgy(rows) ==
  IF rows = <<>> THEN Null
  ELSE LET last == rows[Len(rows)]
       IN [state |-> CASE last.status = "RUNNING" -> "working"
                       [] last.status # "RUNNING" /\ last.type = "ASK_QUESTION" -> "blocked"
                       [] last.status = "DONE" /\ last.type = "PLANNER_RESPONSE" -> "done"
                       [] OTHER -> "working",
           lastRecordAt |-> last.at]

\* The newest row of a known kind.
ParseCodex(rows) ==
  LET i == Newest({j \in DOMAIN rows : rows[j].kind \in {"task_started", "task_complete"}})
  IN IF i = 0 THEN Null
     ELSE [state |-> IF rows[i].kind = "task_complete" THEN "done" ELSE "working", lastRecordAt |-> rows[i].at]

\* One row, the newest message: an assistant's with time.completed is done.
ParseOpencode(s) ==
  IF s = <<>> THEN Null
  ELSE [state |-> IF s[Len(s)].ev = "ends" THEN "done" ELSE "working", lastRecordAt |-> s[Len(s)].at]

\* One row per turn, stamped when it was submitted and filled in at its end.
ParseCopilot(s) ==
  IF PromptAt(s) = 0 THEN Null
  ELSE [state |-> IF s[Len(s)].ev = "ends" THEN "done" ELSE "working", lastRecordAt |-> PromptAt(s)]

ParseTranscript(s) ==
  CASE kind = "claude"   -> ParseClaude(Mapped(s, ClaudeRow))
    [] kind = "agy"      -> ParseAgy(Mapped(s, AgyRow))
    [] kind = "codex"    -> ParseCodex(Mapped(s, CodexRow))
    [] kind = "opencode" -> ParseOpencode(s)
    [] kind = "copilot"  -> ParseCopilot(s)
-----------------------------------------------------------------------------
(* readTurnState and decideTurn *)

\* A pinned id names the conversation; a directory is looked up otherwise, and
\* has the newest one: the agent's own as soon as it wrote anything.
Found == IF kind \in Pins \/ log.own # <<>> THEN "own" ELSE "earlier"

\* Only the map of agy is bound to the time of the spawn.
ReadTurnState ==
  LET t == ParseTranscript(log[Found])
  IN IF kind = "agy" /\ t.lastRecordAt < started THEN Null ELSE t

\* The tier's status matters only as "not from the transcript".
DecideTurn(t) ==
  IF t # Null /\ t.lastRecordAt >= asked
    THEN [raw |-> t.state, evidence |-> "transcript"]
    ELSE [raw |-> "tier", evidence |-> "status"]
-----------------------------------------------------------------------------
(* The conversations (external) *)

Init == kind \in Kinds /\ log = [w \in Whose |-> <<>>] /\ started = 0 /\ asked = 0 /\ now = 1

Running == IF started > 0 THEN "own" ELSE "earlier"
Last(whose) == IF log[whose] = <<>> THEN "none" ELSE log[whose][Len(log[whose])].ev

\* What may follow an event of the same conversation.
Follows(ev) ==
  CASE ev \in {"none", "ends"} -> {"prompt"}
    [] ev = "asks" -> {"granted"}
    [] OTHER -> {"step", "asks", "ends"}

Event ==
  /\ Len(log.own) + Len(log.earlier) < MaxEvents
  /\ \E ev \in Follows(Last(Running)) :
       log' = [log EXCEPT ![Running] = Append(@, [ev |-> ev, at |-> now])]
  /\ now' = now + 1
  /\ UNCHANGED <<kind, started, asked>>

Spawns ==
  /\ started = 0
  /\ started' = now /\ now' = now + 1
  /\ UNCHANGED <<kind, log, asked>>

\* An ask or a wait takes the time while a turn runs or before it starts.
IsAsked ==
  /\ started > 0 /\ asked = 0
  /\ asked' = now /\ now' = now + 1
  /\ UNCHANGED <<kind, log, started>>

Next == Event \/ Spawns \/ IsAsked
Spec == Init /\ [][Next]_vars
-----------------------------------------------------------------------------
(* Properties *)

Verdict == DecideTurn(ReadTurnState)
OwnEnded == Last("own") = "ends"

\* A turn the transcript calls done is the agent's own, it ended after the
\* question, and nothing was prompted since; "blocked" means a question is
\* open.  Claude cannot tell a new prompt from the end before it until the
\* agent writes a row with a stop_reason: only then may a turn that was
\* prompted after an end still read as done.
DoneIsThisTurn ==
  asked > 0 /\ Verdict.evidence = "transcript" =>
    /\ Verdict.raw = "done" =>
         \/ OwnEnded
         \/ kind = "claude" /\ Last("own") = "prompt" /\ Len(log.own) > 1
    /\ Verdict.raw = "blocked" => Last("own") = "asks"

\* The end of a turn is seen once it is on record, except in the row of copilot
\* when it was submitted before the question was timed.
EndIsSeen ==
  asked > 0 /\ OwnEnded /\ log.own[Len(log.own)].at >= asked
    => \/ Verdict = [raw |-> "done", evidence |-> "transcript"]
       \/ kind = "copilot" /\ PromptAt(log.own) < asked
=============================================================================
