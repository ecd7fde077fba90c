-------------------------------- MODULE Exec --------------------------------
(***************************************************************************)
(* broker.pane.exec (execCommand of workspace-ops.ts): a command line is   *)
(* typed into a shell, behind it an `echo $?` into a drop file the broker  *)
(* polls for.  Nothing locks the pane: lines queue up at the shell.  The   *)
(* budget may run out at any time.                                         *)
(***************************************************************************)
EXTENDS Naturals, Sequences

CONSTANTS Cmd, None

VARIABLES
  job,      \* each request: [at, out]
  drop,     \* .herdr/exits/<id>
  typed,    \* lines the shell has not run yet
  code,     \* how each command really ended
  told      \* requests whose end was emitted as broker.exec.finished

execVars == <<job, drop, typed, code, told>>

Ended == {"ok", "failed"}
Init ==
  /\ job = [c \in Cmd |-> [at |-> "new", out |-> None]]
  /\ drop = [c \in Cmd |-> "none"]
  /\ typed = <<>>
  /\ code = [c \in Cmd |-> None]
  /\ told = {}

Over(c, out) == job' = [job EXCEPT ![c] = [at |-> "over", out |-> out]]

\* The line is short and single, the workspace is known, the drop directory is
\* inside it; then the line is typed.  The answer of herdr may be lost.
Types(c) ==
  /\ job[c].at = "new"
  /\ \/ typed' = Append(typed, c) /\ job' = [job EXCEPT ![c].at = "polling"]
     \/ typed' = Append(typed, c) /\ Over(c, "error")
     \/ UNCHANGED typed /\ Over(c, "error")
  /\ UNCHANGED <<drop, code, told>>

\* The shell ends the next command; the redirection creates an empty file first.
ShellRuns ==
  /\ typed # <<>> /\ drop[Head(typed)] = "none" /\ code[Head(typed)] = None
  /\ \E r \in Ended : code' = [code EXCEPT ![Head(typed)] = r]
  /\ drop' = [drop EXCEPT ![Head(typed)] = "empty"]
  /\ UNCHANGED <<job, typed, told>>

ShellWrites ==
  /\ typed # <<>> /\ code[Head(typed)] # None
  /\ drop' = [drop EXCEPT ![Head(typed)] = IF @ = "empty" THEN code[Head(typed)] ELSE @]
  /\ typed' = Tail(typed)
  /\ UNCHANGED <<job, code, told>>

\* A file that holds no integer yet is polled again.
BugPartIsFailure(c) == IF drop[c] = "none" THEN None ELSE IF drop[c] = "ok" THEN "ok" ELSE "failed"
ReadCode(c) == IF drop[c] \in Ended THEN drop[c] ELSE None

Poll(c) ==
  /\ job[c].at = "polling" /\ ReadCode(c) # None
  /\ Over(c, ReadCode(c))
  /\ drop' = [drop EXCEPT ![c] = "none"]
  /\ UNCHANGED <<typed, code, told>>

\* One last look after the budget, and the file is removed whatever it holds.
AtDeadline(c) ==
  /\ job[c].at = "polling"
  /\ IF ReadCode(c) # None THEN Over(c, ReadCode(c)) /\ told' = told \cup {c}
                           ELSE Over(c, "timeout") /\ UNCHANGED told
  /\ drop' = [drop EXCEPT ![c] = "none"]
  /\ UNCHANGED <<typed, code>>

Next == (\E c \in Cmd : Types(c) \/ Poll(c) \/ AtDeadline(c)) \/ ShellRuns \/ ShellWrites
Spec == Init /\ [][Next]_execVars
-----------------------------------------------------------------------------
(* Properties *)

\* A request that answers with an exit code gives the one its own command ended
\* with, also when lines of others were typed in between and when the file was
\* polled while the shell wrote it; only one that failed may leave a file.
ExitCodeIsTrue ==
  \A c \in Cmd :
    /\ job[c].out \in Ended => job[c].out = code[c]
    /\ job[c].at = "over" /\ drop[c] # "none" => job[c].out \in {"timeout", "error"}

\* "`broker.exec.finished` | a pane exec returned, with `exit_code`".
EveryExitAnnounced == \A c \in Cmd : job[c].out \in Ended => c \in told
=============================================================================
