---------------------------- MODULE CallPromise ----------------------------
(***************************************************************************)
(* What a ChildConnection promises those who call an agent's machine       *)
(* through it: a call is settled once, by an answer, the loss of its line  *)
(* or its deadline; an answer is given to one caller; and on one line it   *)
(* is given to the caller who asked for it.  TunnelRpc.tla implements      *)
(* this; of ids, frames, queues and handlers nothing is left here.         *)
(***************************************************************************)
CONSTANTS Call, Line, None

VARIABLES
  state,   \* how each call stands
  line,    \* the connection it was made on
  told     \* the call whose answer its caller was given, if any

vars == <<state, line, told>>

Waiting == {k \in Call : state[k] = "waiting"}

Init ==
  /\ state = [k \in Call |-> "idle"]
  /\ line = [k \in Call |-> None]
  /\ told = [k \in Call |-> {}]

Made(k, l) ==
  /\ state[k] = "idle"
  /\ state' = [state EXCEPT ![k] = "waiting"]
  /\ line' = [line EXCEPT ![k] = l]
  /\ UNCHANGED told

\* The answer to j settles k.  After a loss of its line it may be somebody
\* else's, but never one that was given before.
Answered(k, j) ==
  /\ k \in Waiting
  /\ state[j] # "idle" /\ \A i \in Call : j \notin told[i]
  /\ line[j] = line[k] => j = k
  /\ state' = [state EXCEPT ![k] = "answered"]
  /\ told' = [told EXCEPT ![k] = {j}]
  /\ UNCHANGED line

TimesOut(k) ==
  /\ k \in Waiting
  /\ state' = [state EXCEPT ![k] = "timeout"]
  /\ UNCHANGED <<line, told>>

\* Whoever waits on lines that are lost hears of it, and nobody else does.
Lost(lines) ==
  /\ state' = [k \in Call |-> IF k \in Waiting /\ line[k] \in lines THEN "rejected" ELSE state[k]]
  /\ UNCHANGED <<line, told>>

Next ==
  \/ \E k \in Call, l \in Line : Made(k, l)
  \/ \E k, j \in Call : Answered(k, j)
  \/ \E k \in Call : TimesOut(k)
  \/ \E l \in Line : Lost({l})
  \/ Lost(Line)

Spec == Init /\ [][Next]_vars
=============================================================================
