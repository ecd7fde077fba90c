-------------------------------- MODULE Boot --------------------------------
(***************************************************************************)
(* Daemons of one state directory and the lock that names the one that     *)
(* serves: startDaemon and close of src/daemon.ts, the lock of             *)
(* src/state.ts, and the commands of src/cli.ts that find the daemon       *)
(* through it.  A daemon looks for another one before it boots, listens    *)
(* when it is ready, and writes the lock then; nothing but the port keeps  *)
(* two of them apart.                                                      *)
(***************************************************************************)
EXTENDS Naturals, FiniteSets

CONSTANTS Daemon,       \* processes of daemon.js, each started once
          Command,      \* runs of cli.js
          Https,        \* those that read a [tls] section in config.toml
          MaxCrashes,   \* bound: daemons killed
          None

VARIABLES at,        \* where each daemon stands
          port,      \* the daemon that listens
          lock,      \* the daemon daemon.lock names
          attach,    \* daemons whose LocalHerdr runs
          command,   \* [at, found, answered]: what each command read and got
          crashes,
          unlocked    \* daemons whose lock another one that closed removed
vars == <<at, port, lock, attach, command, crashes, unlocked>>

Stages == {"off", "looking", "booting", "listening", "serving", "closing", "gone"}
TypeOK ==
    /\ at \in [Daemon -> Stages]
    /\ port \in Daemon \union {None} /\ lock \in Daemon \union {None}
    /\ attach \subseteq Daemon /\ unlocked \subseteq Daemon
    /\ command \in [Command -> [at : {"idle", "asks", "done", "over"},
                                found : Daemon \union {None}, answered : BOOLEAN]]
    /\ crashes \in 0..MaxCrashes

Init ==
    /\ at = [d \in Daemon |-> "off"]
    /\ port = None /\ lock = None /\ attach = {} /\ unlocked = {}
    /\ command = [c \in Command |-> [at |-> "idle", found |-> None, answered |-> FALSE]]
    /\ crashes = 0

Moves(d, stage) == at' = [at EXCEPT ![d] = stage]
others == <<command, crashes>>

-----------------------------------------------------------------------------
(* The address of the lock is the configured one, so whoever listens there *)
(* answers.  It is asked over http whatever the daemon serves.             *)
Reachable == port \notin Https \union {None}
AnswersHealth(named) == named # None /\ Reachable

Launch(d) ==
    /\ at[d] = "off"
    /\ Moves(d, "looking")
    /\ UNCHANGED <<port, lock, attach, command, crashes, unlocked>>

(* otherDaemonHealthy; the lock names it, or nothing answers within 1 s *)
Looks(d) ==
    /\ at[d] = "looking"
    /\ Moves(d, IF AnswersHealth(lock) THEN "gone" ELSE "booting")
    /\ UNCHANGED <<port, lock, attach, unlocked, others>>

(* an older herdr than the broker supports: refused before anything runs *)
Refuses(d) ==
    /\ at[d] = "booting" /\ d \notin attach /\ Moves(d, "gone")
    /\ UNCHANGED <<port, lock, attach, unlocked, others>>

Attaches(d) ==
    /\ at[d] = "booting" /\ d \notin attach
    /\ attach' = attach \union {d}
    /\ UNCHANGED <<at, port, lock, unlocked, others>>

\* mutant: a daemon whose port is taken leaves with its LocalHerdr running
BugKeepsAttach(d) ==
    /\ at[d] = "booting" /\ d \in attach
    /\ port' = IF port = None THEN d ELSE port
    /\ Moves(d, IF port = None THEN "listening" ELSE "gone")
    /\ UNCHANGED <<lock, attach, unlocked, others>>

(* listen: the port is another's, and what runs already is stopped *)
Listens(d) ==
    /\ at[d] = "booting" /\ d \in attach
    /\ \/ /\ port = None /\ port' = d
          /\ Moves(d, "listening") /\ UNCHANGED attach
       \/ /\ port # None
          /\ attach' = attach \ {d} /\ Moves(d, "gone") /\ UNCHANGED port
    /\ UNCHANGED <<lock, unlocked, others>>

Locks(d) ==
    /\ at[d] = "listening"
    /\ lock' = d /\ Moves(d, "serving")
    /\ unlocked' = unlocked \ {d}
    /\ UNCHANGED <<port, attach, others>>

(* close: the attach first, the port when its connections are gone, and    *)
(* the lock last, whoever it names by then                                 *)
Closes(d) ==
    /\ at[d] = "serving"
    /\ attach' = attach \ {d} /\ Moves(d, "closing")
    /\ UNCHANGED <<port, lock, unlocked, others>>

ReleasesPort(d) ==
    /\ at[d] = "closing" /\ port = d
    /\ port' = None
    /\ UNCHANGED <<at, lock, attach, unlocked, others>>

ClearsLock(d) ==
    /\ at[d] = "closing" /\ port # d
    /\ lock' = None /\ Moves(d, "gone")
    /\ unlocked' = unlocked \union ({lock} \ {d, None})
    /\ UNCHANGED <<port, attach, others>>

Crashes(d) ==
    /\ at[d] \notin {"off", "gone"} /\ crashes < MaxCrashes /\ crashes' = crashes + 1
    /\ Moves(d, "gone") /\ attach' = attach \ {d}
    /\ port' = IF port = d THEN None ELSE port
    /\ UNCHANGED <<lock, command, unlocked>>

-----------------------------------------------------------------------------
(* The CLI: adminFetch goes to the address in the lock, and gives up *)

CommandReads(c) ==
    /\ command[c].at = "idle"
    /\ command' = [command EXCEPT ![c].at = IF lock = None THEN "done" ELSE "asks",
                                  ![c].found = lock]
    /\ UNCHANGED <<at, port, lock, attach, crashes, unlocked>>

CommandAsks(c) ==
    /\ command[c].at = "asks"
    /\ command' = [command EXCEPT ![c].at = "done", ![c].answered = Reachable]
    /\ UNCHANGED <<at, port, lock, attach, crashes, unlocked>>

(* start: no answer, so another daemon is spawned *)
CommandStarts(c) ==
    /\ command[c].at = "done" /\ ~command[c].answered
    /\ \E d \in Daemon :
         /\ at[d] = "off" /\ Moves(d, "looking")
    /\ command' = [command EXCEPT ![c].at = "over"]
    /\ UNCHANGED <<port, lock, attach, crashes, unlocked>>

DaemonStep(d) == Looks(d) \/ Attaches(d) \/ Listens(d) \/ Locks(d)
                 \/ ReleasesPort(d) \/ ClearsLock(d)
Next == \/ \E d \in Daemon : Launch(d) \/ Refuses(d) \/ Closes(d) \/ Crashes(d) \/ DaemonStep(d)
        \/ \E c \in Command : CommandReads(c) \/ CommandAsks(c) \/ CommandStarts(c)
Spec == Init /\ [][Next]_vars

-----------------------------------------------------------------------------
(* A serving daemon is the one the lock names, so the commands find it:    *)
(* only a daemon that closed after it came up takes its lock away          *)
(* (daemon.ts:267, 290-305).                                               *)
LockFindsDaemon ==
    \A d \in Daemon : at[d] = "serving" => lock = d \/ (d \in unlocked /\ lock = None)

(* Two daemons of one directory both attach to herdr only while one of     *)
(* them is on its way: where the port is held, the other one stops what it *)
(* started and leaves (daemon.ts:83, 261-264).                             *)
OneDaemonServes ==
    /\ Cardinality({d \in Daemon : at[d] \in {"listening", "serving"}}) <= 1
    /\ \A d \in Daemon : at[d] = "gone" => d \notin attach /\ port # d

(* A command that says no daemon runs is right: none serves, or its lock    *)
(* was taken, or it serves https, which no command speaks (cli.ts:44-63,   *)
(* daemon.ts:71-81).  A start that believes it would boot a second one.    *)
StatusIsTrue ==
    [][\A c \in Command :
          command[c].at # "done" /\ command'[c].at = "done" /\ ~command'[c].answered
            => \A d \in Daemon : at[d] = "serving" => d \in unlocked \union Https]_vars
=============================================================================
