------------------------------- MODULE Launch -------------------------------
(***************************************************************************)
(* How a spawned agent gets its environment (spawn of workspace-ops.ts     *)
(* with env-registry.ts and spawn-readiness.ts).  Spawns overlap with each *)
(* other, and with env.set and env.delete.                                 *)
(*                                                                         *)
(* One variable name; an entry's scope is the set of the fields it names.  *)
(* A drop file holds the value resolved for its spawn, and is there, or    *)
(* old (60 s) and to be swept by the next one that is written.             *)
(***************************************************************************)
EXTENDS Naturals, Sequences, FiniteSets, SequencesExt

CONSTANTS Spawn,
          Entry,    \* [scope, foreign]: the entries env.set is called for
          MaxSets,  \* bound: env.set and env.delete calls, while a spawn is still to come
          MaxBusy,  \* agent.start is refused this often before the spawn fails
          None

VARIABLES
  entries,  \* the registry, in insertion order: [scope, foreign, value]
  sets,
  hook,     \* what the configured hook does: None, "value", "fails"
  ready,    \* whether the readiness sentinel is enabled
  spawn,    \* each spawn: [at, joins, vars, due, tries]; due: the value it should have
  file,     \* its drop file: "none", "there", "old"
  shell,    \* its pane: [at, typed, env]
  swept     \* spawns whose file another one's swept away

launchVars == <<entries, sets, hook, ready, spawn, file, shell, swept>>

Coming == \E s \in Spawn : spawn[s].at = "new"
ScopeMatches(e) == e.foreign = FALSE
\* mutant: the session counts for more than the kind
BugSessionFirst(sc) == (IF "kind" \in sc THEN 1 ELSE 0) + (IF "session" \in sc THEN 2 ELSE 0)

Specificity(sc) == (IF "kind" \in sc THEN 2 ELSE 0) + (IF "session" \in sc THEN 1 ELSE 0)

Init ==
  /\ entries = <<>> /\ sets = 0
  /\ hook \in {None, "value", "fails"} /\ ready \in BOOLEAN
  /\ spawn = [s \in Spawn |-> [at |-> "new", joins |-> FALSE, vars |-> None, due |-> None, tries |-> 0]]
  /\ file = [s \in Spawn |-> "none"]
  /\ shell = [s \in Spawn |-> [at |-> "none", typed |-> <<>>, env |-> None]]
  /\ swept = {}
-----------------------------------------------------------------------------
(* The registry *)

Keyed(e, key) == e.scope = key.scope /\ e.foreign = key.foreign
Has(key) == \E e \in Range(entries) : Keyed(e, key)

\* A Map keeps the place of a key that is set again; foreign: of another kind or session.
EnvSet(key) ==
  /\ Coming /\ sets < MaxSets /\ sets' = sets + 1
  /\ LET e == [scope |-> key.scope, foreign |-> key.foreign, value |-> sets + 1] IN
       entries' = IF Has(key) THEN [n \in DOMAIN entries |-> IF Keyed(entries[n], key) THEN e ELSE entries[n]]
                              ELSE Append(entries, e)
  /\ UNCHANGED <<hook, ready, spawn, file, shell, swept>>

EnvDelete(key) ==
  /\ Coming /\ sets < MaxSets /\ sets' = sets + 1
  /\ \E n \in DOMAIN entries : Keyed(entries[n], key) /\ entries' = RemoveAt(entries, n)
  /\ UNCHANGED <<hook, ready, spawn, file, shell, swept>>

\* resolveForSpawn looks at the entries one by one.
ResolveManual ==
  LET better(best, e) ==
        IF ScopeMatches(e) /\ (best = None \/ Specificity(e.scope) > Specificity(best.scope)) THEN e ELSE best
      best == FoldLeft(better, None, entries)
  IN IF best = None THEN None ELSE best.value

\* What the registry promises: the entry that names the most, the kind before the session.
Due ==
  LET own(sc) == {e \in Range(entries) : e.scope = sc /\ ~e.foreign}
      order == <<{"kind", "session"}, {"kind"}, {"session"}, {}>>
      hits == {n \in 1..4 : own(order[n]) # {}}
  IN IF hits = {} THEN (IF hook = "value" THEN "hook" ELSE None)
     ELSE (CHOOSE e \in own(order[CHOOSE n \in hits : \A k \in hits : n <= k]) : TRUE).value
-----------------------------------------------------------------------------
(* The spawn *)

At(s, where) == spawn' = [spawn EXCEPT ![s].at = where]

\* The entries are read now, the hook runs only for a name no entry gives.
Resolves(s, joins) ==
  /\ spawn[s].at = "new"
  /\ spawn' = [spawn EXCEPT ![s] = [@ EXCEPT !.at = IF ResolveManual = None /\ hook # None THEN "hook" ELSE "placing",
                                             !.joins = joins, !.vars = ResolveManual, !.due = Due]]
  /\ UNCHANGED <<entries, sets, hook, ready, file, shell, swept>>

HookEnds(s) ==
  /\ spawn[s].at = "hook"
  /\ spawn' = [spawn EXCEPT ![s] = IF hook = "value" THEN [@ EXCEPT !.at = "placing", !.vars = "hook"]
                                                     ELSE [@ EXCEPT !.at = "failed"]]
  /\ UNCHANGED <<entries, sets, hook, ready, file, shell, swept>>

\* writeDropFile first sweeps what is older than a minute.
Swept(s) == {k \in Spawn \ {s} : file[k] = "old"}
Dropped(s) == [k \in Spawn |-> CASE k = s -> "there" [] k \in Swept(s) -> "none" [] OTHER -> file[k]]

\* The line typed into the pane: the prefix always, the sentinel when it is enabled.
Line(prefix) == (IF prefix THEN <<"env">> ELSE <<>>) \o (IF ready THEN <<"sentinel">> ELSE <<>>)

\* A pane split off an existing workspace is born with the variables; a new one
\* gets them from a file.  The shell is cold.
Places(s) ==
  /\ spawn[s].at = "placing"
  /\ LET drops == ~spawn[s].joins /\ spawn[s].vars # None IN
       /\ file' = IF drops THEN Dropped(s) ELSE file
       /\ swept' = IF drops THEN swept \cup Swept(s) ELSE swept
       /\ At(s, IF Line(drops) = <<>> THEN "starting" ELSE "sending")
       /\ shell' = [shell EXCEPT ![s] = [at |-> "cold", typed |-> Line(drops),
                                         env |-> IF spawn[s].joins THEN spawn[s].vars ELSE None]]
  /\ UNCHANGED <<entries, sets, hook, ready>>

\* pane.send_input fails: before or after the pane got the line.
SendFails(s, got) ==
  /\ spawn[s].at = "sending" /\ shell[s].typed # <<>>
  /\ shell' = IF got THEN shell ELSE [shell EXCEPT ![s].typed = <<>>]
  /\ IF shell[s].typed[1] = "env"
     THEN At(s, "failed") /\ file' = [file EXCEPT ![s] = "none"]
     ELSE At(s, "starting") /\ UNCHANGED file
  /\ UNCHANGED <<entries, sets, hook, ready, swept>>

\* The send is answered; with the sentinel, its output is awaited, for a while.
ShellAnswers(s) ==
  /\ spawn[s].at = "sending"
  /\ At(s, "starting")
  /\ UNCHANGED <<entries, sets, hook, ready, file, shell, swept>>

\* The shell comes to its prompt and runs what was typed, one line at a time.
ShellRuns(s) ==
  /\ shell[s].at = "cold" /\ (shell[s].typed # <<>> \/ spawn[s].at \in {"starting", "failed"})
  /\ shell' = [shell EXCEPT ![s] = [at |-> "prompt", typed |-> <<>>,
                 env |-> IF "env" \in Range(@.typed) /\ file[s] # "none" THEN spawn[s].vars ELSE @.env]]
  /\ file' = IF "env" \in Range(shell[s].typed) THEN [file EXCEPT ![s] = "none"] ELSE file
  /\ UNCHANGED <<entries, sets, hook, ready, spawn, swept>>

\* herdr starts an agent in a shell at its prompt and refuses a busy one; it may
\* fail for reasons of its own.
Starts(s) ==
  /\ spawn[s].at = "starting" /\ shell[s].at = "prompt"
  /\ At(s, "up") /\ shell' = [shell EXCEPT ![s].at = "agent"]
  /\ UNCHANGED <<entries, sets, hook, ready, file, swept>>
Busy(s) ==
  /\ spawn[s].at = "starting" /\ shell[s].at = "cold"
  /\ IF spawn[s].tries < MaxBusy THEN spawn' = [spawn EXCEPT ![s].tries = @ + 1] ELSE At(s, "failed")
  /\ UNCHANGED <<entries, sets, hook, ready, file, shell, swept>>

Ages(s) ==
  /\ file[s] = "there" /\ file' = [file EXCEPT ![s] = "old"]
  /\ UNCHANGED <<entries, sets, hook, ready, spawn, shell, swept>>

Next ==
  \/ \E key \in Entry : EnvSet(key) \/ EnvDelete(key)
  \/ \E s \in Spawn : \/ \E joins \in BOOLEAN : Resolves(s, joins)
                      \/ \E got \in BOOLEAN : SendFails(s, got)
                      \/ HookEnds(s) \/ Places(s) \/ ShellAnswers(s) \/ ShellRuns(s)
                      \/ Starts(s) \/ Busy(s) \/ Ages(s)
Spec == Init /\ [][Next]_launchVars
-----------------------------------------------------------------------------
(* Properties *)

\* An agent starts with the value that was due when it was asked for: the most
\* specific entry, else the hook's.  A drop file that is swept before the shell
\* read it is the only way to start without.
EnvBeforeAgent == \A s \in Spawn \ swept : spawn[s].at = "up" => shell[s].env = spawn[s].due

\* No value is left on disk by an agent that started, nor by a spawn whose line
\* could not be sent: only a shell that never came to its prompt leaves its file.
NoFileLeft == \A s \in Spawn : spawn[s].at = "up" => file[s] = "none"
=============================================================================
