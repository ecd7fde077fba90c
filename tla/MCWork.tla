------------------------------- MODULE MCWork -------------------------------
(* What the broker does on its own machine: repositories, spawns, attached  *)
(* files, its own boot, who is let in, and whose session a login gets.  The *)
(* parts share no state in these models, so `part` picks the one that runs; *)
(* the others rest in an initial state.                                     *)
EXTENDS Owners, Naturals, Sequences

CONSTANTS File, Dir, Below, MaxEdits, MaxCalls,      \* Repo
          Spawn, Entry, MaxSets, MaxBusy,            \* Launch
          Cwd, Agents, MaxTears,                     \* Trust
          Name, Sizes, FileCap, TotalCap, MaxMishaps,  \* Context
          Configured, MaxEmits,                      \* Modules
          Daemon, Command, Https, MaxCrashes,        \* Boot
          Issued, Socket, Request, MaxFailures, MaxPairs  \* Access

ASSUME WorkAssumption == None \notin Issued \cup Daemon \cup {"agent", "pull", "pop", "left"}
ASSUME LaunchAssumption ==
  /\ Entry \subseteq [scope : SUBSET {"kind", "session"}, foreign : BOOLEAN]
  /\ None \notin {"hook", "fails", "value"} \cup Nat
  /\ None \notin [scope : SUBSET {"kind", "session"}, foreign : BOOLEAN, value : Nat]
ASSUME ContextAssumption ==
  /\ IsFiniteSet(Name) /\ Name \subseteq Nat \ {0} /\ Name # {}
  /\ Sizes \subseteq Nat /\ FileCap \in Nat /\ TotalCap \in Nat
  /\ None \notin [size : Sizes, binary : BOOLEAN] \cup BOOLEAN
  /\ \A S \in SUBSET Name : None \notin [S -> [active : BOOLEAN, inline : BOOLEAN]]
ASSUME ModulesAssumption ==
  /\ Len(Configured) \in Nat /\ None \notin Nat \X Nat
  /\ \A i \in 1..Len(Configured) :
       /\ Len(Configured[i].routes) \in Nat
       /\ DOMAIN Configured[i].routes = 1..Len(Configured[i].routes)

VARIABLES part,
          head, base, work, staged, merge, unmerged, stash, edits, calls, preview, verb,
          entries, sets, hook, ready, spawn, file, shell, swept,
          cfg, step, held, dialog, undone, tears,
          files, meta, want, lost, mishaps,
          loaded, seen, handlers, heard, errors, emits, owed, inquiry,
          at, port, lock, attach, command, crashes, unlocked,
          mem, disk, parent, pair, socket, request, present, kicking, failures, out,
          lingering, late, overwritten

R  == INSTANCE Repo
L  == INSTANCE Launch
Tr == INSTANCE Trust
C  == INSTANCE Context
M  == INSTANCE Modules
B  == INSTANCE Boot
A  == INSTANCE Access WITH Token <- Issued

repoVars    == <<head, base, work, staged, merge, unmerged, stash, edits, calls, preview, verb>>
launchVars  == <<entries, sets, hook, ready, spawn, file, shell, swept>>
trustVars   == <<cfg, step, held, dialog, undone, tears>>
contextVars == <<files, meta, want, lost, mishaps>>
modulesVars == <<loaded, seen, handlers, heard, errors, emits, owed, inquiry>>
bootVars    == <<at, port, lock, attach, command, crashes, unlocked>>
accessVars  == <<mem, disk, parent, pair, socket, request, present, kicking, failures, out,
                 lingering, late, overwritten>>
all == <<part, vars, repoVars, launchVars, trustVars, contextVars, modulesVars, bootVars, accessVars>>

\* One of the initial logins.
Anyone == [l \in Login |->
  [at |-> "idle", token |-> CHOOSE t \in Token : TRUE, email |-> CHOOSE e \in Email : TRUE]]
WorkInit ==
  /\ part \in {"repo", "launch", "trust", "context", "modules", "boot", "access", "owners"}
  /\ R!Init /\ (part # "repo" => base = [f \in File |-> 0])
  /\ L!Init /\ (part # "launch" => hook = None /\ ready)
  /\ Tr!Init /\ C!Init /\ M!Init /\ B!Init /\ A!Init
  /\ Init /\ (part # "owners" => login = Anyone)

RepoStep ==
  /\ part = "repo" /\ R!Next
  /\ UNCHANGED <<part, launchVars, trustVars, contextVars, modulesVars, bootVars, accessVars, vars>>
LaunchStep ==
  /\ part = "launch" /\ L!Next
  /\ UNCHANGED <<part, repoVars, trustVars, contextVars, modulesVars, bootVars, accessVars, vars>>
TrustStep ==
  /\ part = "trust" /\ Tr!Next
  /\ UNCHANGED <<part, repoVars, launchVars, contextVars, modulesVars, bootVars, accessVars, vars>>
ContextStep ==
  /\ part = "context" /\ C!Next
  /\ UNCHANGED <<part, repoVars, launchVars, trustVars, modulesVars, bootVars, accessVars, vars>>
ModulesStep ==
  /\ part = "modules" /\ M!Next
  /\ UNCHANGED <<part, repoVars, launchVars, trustVars, contextVars, bootVars, accessVars, vars>>
BootStep ==
  /\ part = "boot" /\ B!Next
  /\ UNCHANGED <<part, repoVars, launchVars, trustVars, contextVars, modulesVars, accessVars, vars>>
AccessStep ==
  /\ part = "access" /\ A!Next
  /\ UNCHANGED <<part, repoVars, launchVars, trustVars, contextVars, modulesVars, bootVars, vars>>
OwnersStep ==
  /\ part = "owners" /\ Next
  /\ UNCHANGED <<part, repoVars, launchVars, trustVars, contextVars, modulesVars, bootVars, accessVars>>
WorkNext == RepoStep \/ LaunchStep \/ TrustStep \/ ContextStep \/ ModulesStep
            \/ BootStep \/ AccessStep \/ OwnersStep

WorkSpec == WorkInit /\ [][WorkNext]_all
-----------------------------------------------------------------------------
(* Instances *)

\* env.set is called for the session, for the kind, and for another kind.
Scoped ==
  {[scope |-> {"session"}, foreign |-> FALSE]} \cup [scope : {{"kind"}}, foreign : BOOLEAN]

\* Five modules: one that throws at the end of register(), one that comes after
\* it under the same name, one with more routes and grants, one whose name is
\* taken and one of another ABI.
Modul(id, abi, throws, on, declared, granted, routes) ==
  [id |-> id, abi |-> abi, loads |-> TRUE, throws |-> throws, on |-> on,
   declared |-> declared, granted |-> granted, routes |-> routes]
Candidates ==
  << Modul("m", 1, TRUE, TRUE, {"events"}, {"events"}, <<<<"a">>>>),
     Modul("m", 1, FALSE, TRUE, {"events", "git.write"}, {"events", "git.write"}, <<<<":x">>>>),
     Modul("n", 1, FALSE, TRUE, {"events", "git.write", "git.read"}, {"events", "git.read"},
           <<<<>>, <<"a", "b">>, <<":x">>, <<"a">>>>),
     Modul("n", 1, FALSE, FALSE, {}, {}, <<<<"a">>>>),
     Modul("o", 2, FALSE, FALSE, {}, {}, <<<<"a">>>>) >>
-----------------------------------------------------------------------------
(* Properties *)

\* Git calls of the broker discard nothing of the agent's work beyond the files a
\* confirmed preview named and the untracked ones in a directory it named, and
\* leave no conflict of their own that they saw and could abort.
GitKeepsWork == R!NoConflictLeft /\ R!DiscardsOnlyNamed

\* An agent that comes up has the variables it was due, leaves no file with them
\* behind, and is not stopped by the question whether it may run there.
SpawnsReady ==
  [](L!EnvBeforeAgent /\ L!NoFileLeft) /\ Tr!NobodyIsAsked /\ Tr!NothingClobbered

\* Attachments keep their flags, and a prompt carries what they ask for.
AttachmentsKept == C!FlagsKept /\ C!InlineIsHonest

\* One daemon serves and is found; its modules are what was configured, whatever
\* one of them does.
BootIsSound ==
  [](B!LockFindsDaemon /\ B!OneDaemonServes
     /\ M!ContainedUnlessShadowed /\ M!GrantIsShared /\ M!EveryHandlerHears)
  /\ B!StatusIsTrue

\* A token that is out stays out; sessions that are listed have an owner; a login
\* waits only for one that provisions the same email and gives its lock back.
WhoIsLetIn == A!OutIsOut /\ ListedIsOwned /\ LockIsHeld
=============================================================================
