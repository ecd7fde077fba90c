-------------------------------- MODULE Rows --------------------------------
(***************************************************************************)
(* What the broker writes down about ONE herdr session, and what herdr     *)
(* really holds.  src/state.ts keeps three stores: the workspace index     *)
(* (the only place a workspace's directory exists), the agent index (which *)
(* conversation runs in which pane) and the archive of resumable           *)
(* conversations.  The methods of src/workspace-ops.ts that spawn, stop,   *)
(* close and remove change herdr first and the stores when its answer      *)
(* arrives; herdr's own `workspace.closed` event (src/local-attach.ts,     *)
(* src/daemon.ts) and the teardown of src/http.ts change them too, so any  *)
(* of them may run between a call and its answer.                          *)
(*                                                                         *)
(* A spawn request is named by the conversation id it pins.  Labels, start *)
(* times, kinds and the arguments of the CLI are left out.                 *)
(***************************************************************************)
EXTENDS Naturals

CONSTANTS Ws, Slot, Root,  \* a pane is a workspace and a slot; Root comes with it
          Conv,            \* conversations, one for each spawn request
          Pinned,          \* those of a CLI that can be told its session id
          Dir, Repo,       \* directories; Repo is a repository's root
          Call,            \* requests to close, stop or remove
          MaxMishap,       \* bound: deaths of the broker and teardowns of the session
          None             \* "no conversation", "no directory", "no pane"

ASSUME RowsAssumption ==
  /\ Root \in Slot /\ Repo \in Dir /\ Pinned \subseteq Conv
  /\ None \notin Conv \cup Dir \cup (Ws \X Slot)
  /\ {"unused", "closed", "shell"} \cap Conv = {}
  /\ MaxMishap \in Nat

Pane == Ws \X Slot
RootOf(w) == <<w, Root>>
WsOf(p) == p[1]

VARIABLES
  \* herdr
  up,        \* the session's herdr runs and is attached
  dir,       \* the directory of each live workspace
  runs,      \* what is in each pane
  dirs,      \* the directories that exist
  \* the event channel
  hearing,   \* it is open
  closed,    \* workspace.closed events under way; the rows two of them change
             \* are disjoint, so their order is left out
  \* the broker's stores
  index, agents, resumable,
  \* requests in flight
  job,       \* of each spawn: its stage, how it places the agent, the pane, the
             \* directory, and the conversation it resumes
  call,      \* of each other request: its stage and the pane it is about
  \* history, read by properties only
  missed,    \* workspaces whose workspace.closed was lost
  overtaken, \* workspaces indexed after herdr had closed them
  crossed,   \* spawns that were under way at a teardown
  torn,      \* the broker died in the middle of a reap
  \* bound
  mishaps

herdr   == <<up, dir, runs, dirs>>
channel == <<hearing, closed>>
stores  == <<index, agents, resumable>>
history == <<missed, overtaken, crossed, torn>>
vars    == <<herdr, channel, stores, job, call, history, mishaps>>

Live(w) == dir[w] # None
Occupied(p) == runs[p] \in Conv \cup {"shell"}
PanesOf(w) == {p \in Pane : WsOf(p) = w}

NoWorkspace == [w \in Ws |-> None]
NoAgents    == [p \in Pane |-> None]
NoArchive   == [c \in Conv |-> None]

JobStage == {"idle", "asked", "made", "placed", "started", "recorded", "late",
             "forsaken", "failed"}
Placing  == {"cwd", "worktree", "pane"}

TypeOK ==
  /\ up \in BOOLEAN /\ hearing \in BOOLEAN
  /\ dir \in [Ws -> Dir \cup {None}]
  /\ runs \in [Pane -> Conv \cup {"unused", "closed", "shell"}]
  /\ dirs \subseteq Dir
  /\ closed \subseteq Ws /\ missed \subseteq Ws /\ overtaken \subseteq Ws
  /\ crossed \subseteq Conv
  /\ index \in [Ws -> Dir \cup {None}]
  /\ agents \in [Pane -> Conv \cup {None}]
  /\ resumable \in [Conv -> Dir \cup {None}]
  /\ job \in [Conv -> [stage : JobStage, by : Placing, pane : Pane \cup {None},
                       cwd : Dir \cup {None}, of : Pinned \cup {None}]]
  /\ call \in [Call -> [stage : {"idle", "closed", "not_found", "stopped", "checking",
                                 "removed", "over"}, pane : Pane \cup {None}]]
  /\ torn \in BOOLEAN
  /\ mishaps \in 0..MaxMishap

Init ==
  /\ up = TRUE /\ hearing = TRUE
  /\ dir = NoWorkspace
  /\ runs = [p \in Pane |-> "unused"]
  /\ dirs = {Repo}
  /\ closed = {} /\ missed = {} /\ overtaken = {} /\ crossed = {}
  /\ index = NoWorkspace /\ agents = NoAgents /\ resumable = NoArchive
  /\ job = [c \in Conv |-> [stage |-> "idle", by |-> "cwd", pane |-> None,
                            cwd |-> None, of |-> None]]
  /\ call = [k \in Call |-> [stage |-> "idle", pane |-> None]]
  /\ torn = FALSE
  /\ mishaps = 0
-----------------------------------------------------------------------------
(* The stores *)

\* ResumableIndex.record: a row without a pinned id or a directory is dropped.
Recorded(archive, convs, cwd) ==
  [c \in Conv |-> IF c \in convs \cap Pinned /\ cwd # None THEN cwd ELSE archive[c]]

\* AgentIndex.removeWorkspace.
WithoutWorkspace(w) == [p \in Pane |-> IF WsOf(p) = w THEN None ELSE agents[p]]
AgentsIn(w) == {agents[p] : p \in PanesOf(w)} \ {None}

BugReapKeepsRow(w) ==
  /\ resumable' = Recorded(resumable, AgentsIn(w), index[w])
  /\ agents' = WithoutWorkspace(w)
  /\ UNCHANGED index
BugReapKeepsAgents(w) ==
  /\ resumable' = Recorded(resumable, AgentsIn(w), index[w])
  /\ index' = [index EXCEPT ![w] = None]
  /\ UNCHANGED agents

\* reapWorkspaceRow, shared by the close call, the stop call and the event.
Reap(w) ==
  /\ resumable' = Recorded(resumable, AgentsIn(w), index[w])
  /\ agents' = WithoutWorkspace(w)
  /\ index' = [index EXCEPT ![w] = None]
-----------------------------------------------------------------------------
(* Herdr: panes end, and a workspace ends with its last pane. *)

Ends(panes) ==
  LET ended == [p \in Pane |-> IF p \in panes /\ Occupied(p) THEN "closed" ELSE runs[p]]
      gone == {w \in Ws : Live(w) /\ \A p \in PanesOf(w) : ended[p] \in {"unused", "closed"}}
  IN /\ runs' = ended
     /\ dir' = [w \in Ws |-> IF w \in gone THEN None ELSE dir[w]]
     /\ closed' = IF hearing THEN closed \cup gone ELSE closed
     /\ missed' = IF hearing THEN missed ELSE missed \cup gone

\* Its user closes a pane, or the pane's process exits.
PaneEnds(p) ==
  /\ Occupied(p)
  /\ Ends({p})
  /\ UNCHANGED <<up, dirs, hearing, stores, job, call, overtaken, crossed, torn, mishaps>>

\* The channel breaks, or #refresh replaces it by one for another pane set.
ChannelLost ==
  /\ hearing
  /\ hearing' = FALSE
  /\ closed' = {}
  /\ missed' = missed \cup closed
  /\ UNCHANGED <<herdr, stores, job, call, overtaken, crossed, torn, mishaps>>

ChannelOpens ==
  /\ up /\ ~hearing
  /\ hearing' = TRUE
  /\ UNCHANGED <<herdr, closed, stores, job, call, history, mishaps>>

\* onReaped: the event reaches the broker.
BugRowOnly(w) ==
  /\ index' = [index EXCEPT ![w] = None]
  /\ UNCHANGED <<agents, resumable>>
OnReaped(w) == Reap(w)

ReapEvent(w) ==
  /\ w \in closed
  /\ closed' = closed \ {w}
  /\ OnReaped(w)
  /\ UNCHANGED <<herdr, hearing, job, call, history, mishaps>>
-----------------------------------------------------------------------------
(* spawn *)

\* resolveResume: by session id from the archive, by pane from the live rows.
ResumesFrom(o) ==
  ({resumable[o]} \cup {index[WsOf(p)] : p \in {q \in Pane : agents[q] = o}}) \ {None}

\* A resume is refused anywhere but where the conversation happened.
BugResumesAnywhere(o, d) == o # None => ResumesFrom(o) # {}
MayResume(o, d) == o # None => d \in ResumesFrom(o)

Asks(c, by, p, d, o) ==
  /\ up
  /\ job[c].stage = "idle"
  /\ MayResume(o, d)
  /\ job' = [job EXCEPT ![c] = [stage |-> "asked", by |-> by, pane |-> p, cwd |-> d, of |-> o]]
  /\ UNCHANGED <<herdr, channel, stores, call, history, mishaps>>

\* Mode A: a new workspace in the directory d, which must exist; that of a
\* resumed conversation is not looked at.
SpawnHere(c, d, o) == (o = None => d \in dirs) /\ Asks(c, "cwd", None, d, o)

\* Mode C: a new workspace in a new checkout of the repository.
SpawnInWorktree(c, o) == Asks(c, "worktree", None, Repo, o)

\* Mode B: a new pane in a workspace the index has a directory for.  Until
\* herdr answers, the job's pane stands for that workspace.
SpawnJoins(c, w, o) == index[w] # None /\ Asks(c, "pane", RootOf(w), index[w], o)

Advances(c, stage) == job' = [job EXCEPT ![c].stage = stage]

\* workspace.create, worktree.create at herdr: an id not used before, and for
\* a worktree a directory that did not exist.
Creates(c, w, d) ==
  /\ up
  /\ job[c].stage = "asked" /\ job[c].by # "pane"
  /\ runs[RootOf(w)] = "unused"
  /\ IF job[c].by = "worktree" THEN d \notin dirs ELSE d = job[c].cwd /\ d \in dirs
  /\ dir' = [dir EXCEPT ![w] = d]
  /\ dirs' = dirs \cup {d}
  /\ runs' = [runs EXCEPT ![RootOf(w)] = "shell"]
  /\ job' = [job EXCEPT ![c].stage = "made", ![c].pane = RootOf(w), ![c].cwd = d]
  /\ UNCHANGED <<up, channel, stores, call, history, mishaps>>

\* pane.split at herdr.
Splits(c, p) ==
  /\ up
  /\ job[c].stage = "asked" /\ job[c].by = "pane"
  /\ WsOf(p) = WsOf(job[c].pane) /\ Live(WsOf(p))
  /\ runs[p] = "unused"
  /\ runs' = [runs EXCEPT ![p] = "shell"]
  /\ job' = [job EXCEPT ![c].stage = "made", ![c].pane = p]
  /\ UNCHANGED <<up, dir, dirs, channel, stores, call, history, mishaps>>

\* Herdr's answer: a new workspace is indexed under its own directory, which
\* for a worktree is the checkout and not the directory asked for.
BugWholeWorktree(c) ==
  IF job[c].by = "worktree" THEN [path |-> job[c].cwd] ELSE job[c].cwd
IndexedDir(c) == job[c].cwd

Placed(c) ==
  /\ job[c].stage = "made"
  /\ Advances(c, "placed")
  /\ LET w == WsOf(job[c].pane) IN
       IF job[c].by = "pane" THEN UNCHANGED <<index, overtaken>>
       ELSE /\ index' = [index EXCEPT ![w] = IndexedDir(c)]
            /\ overtaken' = IF Live(w) \/ w \in closed THEN overtaken ELSE overtaken \cup {w}
  /\ UNCHANGED <<herdr, channel, agents, resumable, call, missed, crossed, torn, mishaps>>

\* agent.start succeeds.
AgentStarts(c) ==
  /\ up
  /\ job[c].stage = "placed"
  /\ runs[job[c].pane] = "shell"
  /\ runs' = [runs EXCEPT ![job[c].pane] = c]
  /\ Advances(c, "started")
  /\ UNCHANGED <<up, dir, dirs, channel, stores, call, history, mishaps>>

\* The settle window is over: no sample proved the agent dead, which the
\* samples of a pane or a herdr that is gone never do (holdsReady).
AgentRecorded(c) ==
  /\ job[c].stage = "started"
  /\ agents' = [agents EXCEPT ![job[c].pane] = c]
  /\ Advances(c, IF index[WsOf(job[c].pane)] = None THEN "late" ELSE "recorded")
  /\ UNCHANGED <<herdr, channel, index, resumable, call, history, mishaps>>

\* Herdr refuses, an answer is lost, the agent died while it settled or is not
\* logged in.  What herdr made stays.
SpawnFails(c) ==
  /\ job[c].stage \in {"asked", "made", "placed", "started"}
  /\ Advances(c, "failed")
  /\ UNCHANGED <<herdr, channel, stores, call, history, mishaps>>
-----------------------------------------------------------------------------
(* broker.workspace.close *)

Goes(k, stage, p) == call' = [call EXCEPT ![k] = [stage |-> stage, pane |-> p]]
CallWs(k) == WsOf(call[k].pane)

\* A caller names a workspace that was made or is indexed: it guesses no id.
CloseAsked(k, w) ==
  /\ up
  /\ call[k].stage = "idle"
  /\ runs[RootOf(w)] # "unused" \/ index[w] # None
  /\ Goes(k, IF Live(w) THEN "closed" ELSE "not_found", RootOf(w))
  /\ Ends(PanesOf(w))
  /\ UNCHANGED <<up, dirs, hearing, stores, job, overtaken, crossed, torn, mishaps>>

\* A workspace herdr does not know is closed too when there is a row for it.
CloseAnswered(k) ==
  /\ call[k].stage \in {"closed", "not_found"}
  /\ Goes(k, "over", call[k].pane)
  /\ IF call[k].stage = "not_found" /\ index[CallWs(k)] = None
     THEN UNCHANGED stores
     ELSE Reap(CallWs(k))
  /\ UNCHANGED <<herdr, channel, job, history, mishaps>>
-----------------------------------------------------------------------------
(* broker.agent.stop *)

StopAsked(k, p) ==
  /\ up
  /\ call[k].stage = "idle"
  /\ runs[p] \in Conv
  /\ Goes(k, "stopped", p)
  /\ Ends({p})
  /\ UNCHANGED <<up, dirs, hearing, stores, job, overtaken, crossed, torn, mishaps>>

\* The pane is closed: its row goes, and its conversation into the archive.
StopArchives(k) ==
  /\ call[k].stage = "stopped"
  /\ Goes(k, "checking", call[k].pane)
  /\ agents' = [agents EXCEPT ![call[k].pane] = None]
  /\ resumable' = Recorded(resumable, {agents[call[k].pane]}, index[CallWs(k)])
  /\ UNCHANGED <<herdr, channel, index, job, history, mishaps>>

\* workspaceStillLive: herdr lists the workspace, does not, or gives no answer.
Opinions(w) == {"no opinion"} \cup (IF up THEN {IF Live(w) THEN "live" ELSE "reaped"} ELSE {})

BugNoOpinionReaps(opinion) == opinion # "live"
MayReap(opinion) == opinion = "reaped"

StopChecks(k) ==
  /\ call[k].stage = "checking"
  /\ Goes(k, "over", call[k].pane)
  /\ \E opinion \in Opinions(CallWs(k)) :
       IF MayReap(opinion) THEN Reap(CallWs(k)) ELSE UNCHANGED stores
  /\ UNCHANGED <<herdr, channel, job, history, mishaps>>
-----------------------------------------------------------------------------
(* broker.worktree.remove *)

RemoveAsked(k, w) ==
  /\ up
  /\ call[k].stage = "idle"
  /\ Live(w) /\ dir[w] # Repo
  /\ Goes(k, "removed", RootOf(w))
  /\ dirs' = dirs \ {dir[w]}
  /\ Ends(PanesOf(w))
  /\ UNCHANGED <<up, hearing, stores, job, overtaken, crossed, torn, mishaps>>

\* The rows go; the conversations are not archived.
RemoveAnswered(k) ==
  /\ call[k].stage = "removed"
  /\ Goes(k, "over", call[k].pane)
  /\ index' = [index EXCEPT ![CallWs(k)] = None]
  /\ agents' = WithoutWorkspace(CallWs(k))
  /\ job' = [c \in Conv |-> IF c \in AgentsIn(CallWs(k))
                            THEN [job[c] EXCEPT !.stage = "forsaken"] ELSE job[c]]
  /\ UNCHANGED <<herdr, channel, resumable, history, mishaps>>

\* The answer of any of these is lost or times out.
CallFails(k) ==
  /\ call[k].stage \in {"closed", "not_found", "stopped", "removed"}
  /\ Goes(k, "over", call[k].pane)
  /\ UNCHANGED <<herdr, channel, stores, job, history, mishaps>>
-----------------------------------------------------------------------------
(* Deaths and teardown *)

Mishap == mishaps < MaxMishap /\ mishaps' = mishaps + 1

\* Every request in flight and every event under way is lost with the broker.
BrokerGone ==
  /\ Mishap
  /\ job' = [c \in Conv |-> IF job[c].stage \in {"asked", "made", "placed", "started"}
                            THEN [job[c] EXCEPT !.stage = "failed"] ELSE job[c]]
  /\ call' = [k \in Call |-> [call[k] EXCEPT !.stage = IF @ = "idle" THEN "idle" ELSE "over"]]
  /\ hearing' = FALSE
  /\ closed' = {}
  /\ missed' = missed \cup closed
  /\ UNCHANGED <<herdr, overtaken, crossed>>

BrokerDies ==
  /\ BrokerGone
  /\ UNCHANGED <<stores, torn>>

\* ...between two writes of a reap: agents.json is written before
\* resumable.json is written for each row, and workspaces.json last.
DiesInReap(w) ==
  /\ torn' = TRUE
  /\ w \in closed
  /\ agents' = WithoutWorkspace(w)
  /\ \E convs \in SUBSET AgentsIn(w) : resumable' = Recorded(resumable, convs, index[w])
  /\ BrokerGone
  /\ UNCHANGED index

\* demolishOwned: the workspaces were closed one by one before, like any
\* other; here herdr is stopped (spawnSync blocks the broker meanwhile), the
\* session is forgotten and its rows are dropped.
BugKeepsIndex ==
  /\ UNCHANGED index
  /\ agents' = NoAgents /\ resumable' = NoArchive
ClearsStores ==
  /\ index' = NoWorkspace /\ agents' = NoAgents /\ resumable' = NoArchive

Teardown ==
  /\ up
  /\ Mishap
  /\ up' = FALSE
  /\ dir' = NoWorkspace
  /\ runs' = [p \in Pane |-> "unused"]
  /\ hearing' = FALSE
  /\ closed' = {} /\ missed' = {} /\ overtaken' = {}
  /\ crossed' = crossed \cup {c \in Conv : job[c].stage \in {"made", "placed", "started"}}
  /\ ClearsStores
  /\ job' = [c \in Conv |-> IF job[c].stage \in {"recorded", "late"}
                            THEN [job[c] EXCEPT !.stage = "forsaken"] ELSE job[c]]
  /\ UNCHANGED <<dirs, call, torn>>

\* The session's name is deterministic: the next login of its owner starts a
\* herdr under the same one, whose ids start again.  It takes long enough for
\* the answers of the old one to have arrived or failed.
Reprovision ==
  /\ ~up
  /\ \A c \in Conv : job[c].stage \notin {"asked", "made"}
  /\ \A k \in Call : call[k].stage \in {"idle", "over"}
  /\ up' = TRUE
  /\ UNCHANGED <<dir, runs, dirs, channel, stores, job, call, history, mishaps>>
-----------------------------------------------------------------------------
SpawnStep(c) ==
  \/ \E o \in Pinned \cup {None} :
       \/ \E d \in Dir : SpawnHere(c, d, o)
       \/ SpawnInWorktree(c, o)
       \/ \E w \in Ws : SpawnJoins(c, w, o)
  \/ \E w \in Ws, d \in Dir : Creates(c, w, d)
  \/ \E p \in Pane : Splits(c, p)
  \/ Placed(c) \/ AgentStarts(c) \/ AgentRecorded(c) \/ SpawnFails(c)

CallStep(k) ==
  \/ \E w \in Ws : CloseAsked(k, w) \/ RemoveAsked(k, w)
  \/ \E p \in Pane : StopAsked(k, p)
  \/ CloseAnswered(k) \/ StopArchives(k) \/ StopChecks(k) \/ RemoveAnswered(k)
  \/ CallFails(k)

HerdrStep ==
  \/ \E p \in Pane : PaneEnds(p)
  \/ \E w \in Ws : ReapEvent(w) \/ DiesInReap(w)
  \/ ChannelLost \/ ChannelOpens

Next ==
  \/ \E c \in Conv : SpawnStep(c)
  \/ \E k \in Call : CallStep(k)
  \/ HerdrStep \/ BrokerDies \/ Teardown \/ Reprovision

Spec == Init /\ [][Next]_vars
-----------------------------------------------------------------------------
(* Properties *)

\* A spawn that is under way at a teardown writes its rows into the next
\* session of that name (RowsAreTrue fails).  Everything below is about
\* sessions this did not happen to.
Undisturbed == crossed = {}

\* "Its CONVERSATION does not end with the pane" (stopAgent): a conversation
\* the broker has recorded is in the agent index or in the archive until the
\* session or its checkout is deliberately destroyed, whichever of the close
\* call, the stop call and the event gets to its row first.  Only a death
\* between the two writes of a reap loses one.
NoConversationLost ==
  \A c \in Pinned :
    Undisturbed /\ ~torn /\ job[c].stage = "recorded" =>
      resumable[c] # None \/ \E p \in Pane : agents[p] = c

\* What the archive says is where the conversation happened: from anywhere
\* else a resume silently starts a fresh one.
ArchivedWhereItRan ==
  \A c \in Pinned : Undisturbed /\ resumable[c] # None => resumable[c] = job[c].cwd

\* The archive is what was held, no more and no less.
ArchiveIsExact == NoConversationLost /\ ArchivedWhereItRan

\* A row whose workspace herdr has closed is on its way out, unless the event
\* was lost or the row was written after it.
RowsFollowHerdr ==
  \A w \in Ws : index[w] # None /\ ~Live(w) => w \in closed \cup missed \cup overtaken

\* "Dropping one while the workspace lives is the worse direction": no call,
\* event or teardown forgets the directory of a workspace that is running.
LiveKeepsRow ==
  [][\A w \in Ws : Undisturbed' /\ index[w] # None /\ index'[w] = None => dir'[w] = None]_vars

\* An agent's row never outlives the row that holds its directory, which any
\* later reap needs to archive it.
OrphanFree == \A p \in Pane : agents[p] # None => index[WsOf(p)] # None
NoOrphanUnlessLate ==
  (\A c \in Conv : job[c].stage # "late") => OrphanFree

\* Rows of workspaces and panes that exist are about those, and not about ones
\* that had their ids before.
RowsAreTrue ==
  /\ \A w \in Ws : index[w] # None /\ Live(w) => index[w] = dir[w]
  /\ \A p \in Pane : agents[p] # None /\ Occupied(p) => runs[p] = agents[p]
NothingInherited == Undisturbed => RowsAreTrue

\* A resumed conversation runs where it was held before: but for one resumed
\* into a worktree of its own, which is another directory.
ResumesInPlaceUnlessWorktree ==
  \A c \in Conv : Undisturbed /\ job[c].of # None /\ job[c].by # "worktree" =>
    job[c].cwd = job[job[c].of].cwd

\* Every archived conversation can be resumed: its directory exists.
ArchiveIsResumable == \A c \in Conv : resumable[c] # None => resumable[c] \in dirs
=============================================================================
