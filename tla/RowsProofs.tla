----------------------------- MODULE RowsProofs -----------------------------
(***************************************************************************)
(* The broker's stores follow herdr (Rows.tla), for any workspaces, panes, *)
(* conversations, directories, requests and mishaps.                       *)
(*                                                                         *)
(* The inductive invariant says which spawn owns which pane and workspace: *)
(* herdr gives an id out once, so a pane belongs to one spawn, a workspace *)
(* has one that made it, and the rest joined it when its directory was     *)
(* known.  A teardown starts the ids again; what it crossed is exempt.     *)
(***************************************************************************)
EXTENDS Rows, TLAPS

Held     == {"made", "placed", "started", "recorded", "late"}
Entered  == {"recorded", "late", "forsaken"}
Used(p)  == runs[p] # "unused"
Begun(w) == Used(RootOf(w))
\* Spawn c has a pane of workspace w, or asks for one.
At(c, w) ==
  /\ job[c].stage \in Held \/ (job[c].stage = "asked" /\ job[c].by = "pane")
  /\ WsOf(job[c].pane) = w
\* Spawn c has made workspace w and its answer is under way.
Makes(c, w) == job[c].stage = "made" /\ job[c].by # "pane" /\ WsOf(job[c].pane) = w
Closing(k) == call[k].stage \in {"closed", "not_found", "removed"}

\* A stage says whether the directory and the pane of a request are known.
PanesKnown ==
  /\ \A c \in Conv : job[c].stage \in {"asked", "made"} => job[c].cwd \in Dir
  /\ \A c \in Conv : job[c].stage \in Held \/ (job[c].stage = "asked" /\ job[c].by = "pane")
       => job[c].pane \in Pane
  /\ \A k \in Call : call[k].stage # "idle" => call[k].pane \in Pane
HerdrType   == /\ up \in BOOLEAN /\ dir \in [Ws -> Dir \cup {None}]
               /\ runs \in [Pane -> Conv \cup {"unused", "closed", "shell"}] /\ dirs \subseteq Dir
ChannelType == hearing \in BOOLEAN /\ closed \subseteq Ws
StoresType  == /\ index \in [Ws -> Dir \cup {None}] /\ agents \in [Pane -> Conv \cup {None}]
               /\ resumable \in [Conv -> Dir \cup {None}]
Jobs        == [stage : JobStage, by : Placing, pane : Pane \cup {None},
                cwd : Dir \cup {None}, of : Pinned \cup {None}]
Calls       == [stage : {"idle", "closed", "not_found", "stopped", "checking", "removed", "over"},
                pane : Pane \cup {None}]
JobType     == job \in [Conv -> Jobs]
CallType    == call \in [Call -> Calls]
HistoryType == /\ missed \subseteq Ws /\ overtaken \subseteq Ws /\ crossed \subseteq Conv
               /\ torn \in BOOLEAN /\ mishaps \in 0..MaxMishap
Types == /\ HerdrType /\ ChannelType /\ StoresType /\ JobType /\ CallType /\ HistoryType
         /\ PanesKnown

\* A workspace exists once: it is begun, then live, then closed.
OnceOnly ==
  /\ \A w \in Ws : Live(w) => Begun(w)
  /\ \A w \in closed : ~Live(w) /\ Begun(w)
  /\ Undisturbed => \A w \in Ws : index[w] # None => Begun(w)

\* A workspace an answer is about to take the rows of is gone for good.
ClosingGone ==
  Undisturbed => \A k \in Call : Closing(k) => ~Live(CallWs(k)) /\ (up => Begun(CallWs(k)))

\* An agent's row is its spawn's; one without a directory came late.
RowsOfSpawns ==
  /\ \A p \in Pane : agents[p] # None =>
       /\ job[agents[p]].stage \in {"recorded", "late"} /\ job[agents[p]].pane = p
       /\ index[WsOf(p)] = None => job[agents[p]].stage = "late"
  /\ \A c \in Conv : resumable[c] # None => job[c].stage \in Entered
  /\ \A c \in Conv : job[c].of # None => job[job[c].of].stage \in Entered

\* A pane is held by one spawn, and what herdr runs in it is that one's.
PanesHeld ==
  /\ \A c \in Conv : job[c].stage \in Held =>
       /\ Used(job[c].pane) /\ Begun(WsOf(job[c].pane))
       /\ \A d \in Conv : job[d].stage \in Held /\ job[d].pane = job[c].pane => d = c
       /\ job[c].stage \in {"started", "recorded", "late"} /\ Occupied(job[c].pane)
            => runs[job[c].pane] = c
  /\ up => \A c \in Conv : job[c].stage = "asked" /\ job[c].by = "pane"
                             => Begun(WsOf(job[c].pane))

\* A directory is indexed by the one spawn that made the workspace; those who
\* are in the workspace besides joined it there.
DirsAgree ==
  /\ \A c \in Conv, w \in Ws : Makes(c, w) =>
       /\ index[w] = None
       /\ Live(w) => dir[w] = job[c].cwd
       /\ \A d \in Conv : At(d, w) => d = c
  /\ \A c \in Conv, w \in Ws : At(c, w) /\ index[w] # None => index[w] = job[c].cwd
  /\ \A w \in Ws : index[w] # None /\ Live(w) => index[w] = dir[w]

InPlace ==
  \A c \in Conv : job[c].of # None /\ job[c].by # "worktree" =>
    job[c].cwd = job[job[c].of].cwd

Spawns == Undisturbed => PanesHeld /\ DirsAgree /\ InPlace

Kept == RowsFollowHerdr /\ OnceOnly /\ RowsOfSpawns /\ Spawns /\ ArchiveIsExact

IInv == Types /\ Kept /\ ClosingGone
-----------------------------------------------------------------------------
(* Helpers *)

LEMMA PaneNames ==
  /\ \A w \in Ws : RootOf(w) \in Pane /\ WsOf(RootOf(w)) = w
  /\ \A p \in Pane : WsOf(p) \in Ws
BY RowsAssumption DEF RootOf, WsOf, Pane

LEMMA NoneIsNone == None \notin Conv /\ None \notin Dir /\ None \notin Pane
BY RowsAssumption DEF Pane

\* ResumableIndex.record writes the pinned conversations it is given, and only
\* with a directory.
LEMMA RecordedWrites ==
  ASSUME NEW convs, NEW cwd, NEW c \in Conv
  PROVE  Recorded(resumable, convs, cwd)[c] =
           IF c \in convs \cap Pinned /\ cwd # None THEN cwd ELSE resumable[c]
BY DEF Recorded

LEMMA RecordedType ==
  ASSUME StoresType, NEW convs, NEW cwd \in Dir \cup {None}
  PROVE  Recorded(resumable, convs, cwd) \in [Conv -> Dir \cup {None}]
BY DEF StoresType, Recorded

\* AgentIndex.removeWorkspace takes the rows of one workspace.
LEMMA WithoutWs ==
  ASSUME StoresType, NEW w \in Ws
  PROVE  /\ WithoutWorkspace(w) \in [Pane -> Conv \cup {None}]
         /\ \A p \in Pane : WithoutWorkspace(w)[p] = IF WsOf(p) = w THEN None ELSE agents[p]
BY DEF StoresType, WithoutWorkspace

LEMMA ReapType ==
  ASSUME StoresType, NEW w \in Ws, Reap(w)
  PROVE  StoresType'
<1>1. index[w] \in Dir \cup {None}
  BY DEF StoresType
<1> QED BY <1>1, RecordedType, WithoutWs DEF Reap, StoresType

\* Panes that end are closed panes, and a workspace that ends with them is
\* announced or missed.
PanesEnd(panes) ==
  /\ runs' \in [Pane -> Conv \cup {"unused", "closed", "shell"}]
  /\ \A p \in Pane : /\ runs'[p] = "unused" <=> runs[p] = "unused"
                     /\ runs'[p] \in Conv \cup {"shell"} => runs'[p] = runs[p]
                     /\ p \in panes => runs'[p] \in {"unused", "closed"}
WorkspacesEnd(panes) ==
  /\ dir' \in [Ws -> Dir \cup {None}]
  /\ closed' \subseteq Ws /\ missed' \subseteq Ws
  /\ closed \subseteq closed' /\ missed \subseteq missed'
  /\ \A w \in Ws : /\ dir'[w] # None => dir'[w] = dir[w]
                   /\ dir[w] # None /\ dir'[w] = None => w \in closed' \cup missed'
                   /\ w \in closed' => w \in closed \/ (dir[w] # None /\ dir'[w] = None)
                   /\ PanesOf(w) \subseteq panes => dir'[w] = None

LEMMA EndsEffect ==
  ASSUME HerdrType, ChannelType, HistoryType, NEW panes \in SUBSET Pane, Ends(panes)
  PROVE  PanesEnd(panes) /\ WorkspacesEnd(panes)
<1> DEFINE ended == [p \in Pane |-> IF p \in panes /\ Occupied(p) THEN "closed" ELSE runs[p]]
           gone == {w \in Ws : Live(w) /\ \A p \in PanesOf(w) : ended[p] \in {"unused", "closed"}}
<1>1. /\ runs' = ended
      /\ dir' = [w \in Ws |-> IF w \in gone THEN None ELSE dir[w]]
      /\ closed' = IF hearing THEN closed \cup gone ELSE closed
      /\ missed' = IF hearing THEN missed ELSE missed \cup gone
  BY DEF Ends
<1>2. \A p \in Pane : /\ ended[p] \in Conv \cup {"unused", "closed", "shell"}
                      /\ ended[p] = "unused" <=> runs[p] = "unused"
                      /\ ended[p] \in Conv \cup {"shell"} => ended[p] = runs[p]
                      /\ p \in panes => ended[p] \in {"unused", "closed"}
  BY RowsAssumption DEF HerdrType, Occupied
<1>3. \A w \in gone : w \in Ws /\ dir[w] # None
  BY DEF Live
<1>4. ASSUME NEW w \in Ws, PanesOf(w) \subseteq panes PROVE w \in gone \/ dir[w] = None
  <2>1. \A p \in PanesOf(w) : p \in Pane
    BY DEF PanesOf
  <2> QED BY <1>2, <1>4, <2>1 DEF Live
<1>5. ended \in [Pane -> Conv \cup {"unused", "closed", "shell"}]
  BY DEF HerdrType
<1> HIDE DEF ended, gone
<1>6. dir' \in [Ws -> Dir \cup {None}] /\ \A w \in Ws : dir'[w] = IF w \in gone THEN None ELSE dir[w]
  BY <1>1 DEF HerdrType
<1>7. /\ closed' \subseteq Ws /\ missed' \subseteq Ws
      /\ closed \subseteq closed' /\ missed \subseteq missed'
      /\ gone \subseteq closed' \cup missed' /\ closed' \subseteq closed \cup gone
  BY <1>1, <1>3 DEF ChannelType, HistoryType
<1>8. \A w \in Ws : /\ dir'[w] # None => dir'[w] = dir[w]
                    /\ dir[w] # None /\ dir'[w] = None => w \in closed' \cup missed'
                    /\ w \in closed' => w \in closed \/ (dir[w] # None /\ dir'[w] = None)
                    /\ PanesOf(w) \subseteq panes => dir'[w] = None
  BY <1>3, <1>4, <1>6, <1>7
<1>9. runs' \in [Pane -> Conv \cup {"unused", "closed", "shell"}]
  BY <1>1, <1>5
<1>10. \A p \in Pane : /\ runs'[p] = "unused" <=> runs[p] = "unused"
                       /\ runs'[p] \in Conv \cup {"shell"} => runs'[p] = runs[p]
                       /\ p \in panes => runs'[p] \in {"unused", "closed"}
  <2>1. \A p \in Pane : runs'[p] = ended[p]
    BY <1>1
  <2> QED BY <1>2, <2>1
<1>11. PanesEnd(panes)
  BY <1>9, <1>10 DEF PanesEnd
<1>12. WorkspacesEnd(panes)
  BY <1>6, <1>7, <1>8 DEF WorkspacesEnd
<1> QED BY <1>11, <1>12

\* A request of a spawn moves on: its other fields and the other spawns stay.
OnlyJob(c) == \A d \in Conv : d # c => job'[d] = job[d]
SameButStage(c) ==
  /\ job'[c].by = job[c].by /\ job'[c].pane = job[c].pane
  /\ job'[c].cwd = job[c].cwd /\ job'[c].of = job[c].of

LEMMA Restaged ==
  ASSUME NEW j \in Jobs, NEW stage \in JobStage
  PROVE  LET m == [j EXCEPT !.stage = stage] IN
         m \in Jobs /\ m.stage = stage /\ m.by = j.by /\ m.pane = j.pane /\ m.cwd = j.cwd /\ m.of = j.of
BY DEF Jobs

LEMMA AdvancesEffect ==
  ASSUME JobType, NEW c \in Conv, NEW stage \in JobStage, Advances(c, stage)
  PROVE  JobType' /\ job'[c].stage = stage /\ SameButStage(c) /\ OnlyJob(c)
<1> DEFINE m == [job[c] EXCEPT !.stage = stage]
<1>1. job[c] \in Jobs
  BY DEF JobType
<1>2. job' = [job EXCEPT ![c] = m]
  BY DEF Advances
<1>3. m \in Jobs /\ m.stage = stage /\ m.by = job[c].by /\ m.pane = job[c].pane
      /\ m.cwd = job[c].cwd /\ m.of = job[c].of
  BY <1>1, Restaged
<1> HIDE DEF m
<1> QED BY <1>2, <1>3 DEF JobType, SameButStage, OnlyJob

\* Some spawns are marked, the others stay.
LEMMA Marked ==
  ASSUME JobType, NEW S, NEW stage \in JobStage,
         job' = [c \in Conv |-> IF c \in S THEN [job[c] EXCEPT !.stage = stage] ELSE job[c]]
  PROVE  /\ JobType'
         /\ \A c \in Conv : /\ SameButStage(c)
                            /\ c \in S => job'[c].stage = stage
                            /\ c \notin S => job'[c] = job[c]
<1>1. ASSUME NEW c \in Conv
      PROVE  /\ job'[c] \in Jobs /\ SameButStage(c)
             /\ c \in S => job'[c].stage = stage
             /\ c \notin S => job'[c] = job[c]
  <2>1. job[c] \in Jobs
    BY DEF JobType
  <2>2. job'[c] = IF c \in S THEN [job[c] EXCEPT !.stage = stage] ELSE job[c]
    OBVIOUS
  <2> QED BY <2>1, <2>2, Restaged DEF SameButStage
<1> QED BY <1>1 DEF JobType

LEMMA GoesEffect ==
  ASSUME CallType, NEW k \in Call, NEW p \in Pane \cup {None}, NEW stage, Goes(k, stage, p),
         stage \in {"idle", "closed", "not_found", "stopped", "checking", "removed", "over"}
  PROVE  /\ CallType' /\ call'[k].stage = stage /\ call'[k].pane = p
         /\ \A l \in Call : l # k => call'[l] = call[l]
BY DEF CallType, Calls, Goes

LEMMA AsksEffect ==
  ASSUME JobType, NEW c \in Conv, NEW by \in Placing, NEW p \in Pane \cup {None},
         NEW d \in Dir, NEW o \in Pinned \cup {None}, Asks(c, by, p, d, o)
  PROVE  /\ JobType' /\ OnlyJob(c)
         /\ job'[c] = [stage |-> "asked", by |-> by, pane |-> p, cwd |-> d, of |-> o]
BY DEF JobType, Jobs, JobStage, Asks, OnlyJob

LEMMA CreatesEffect ==
  ASSUME JobType, NEW c \in Conv, NEW w \in Ws, NEW d \in Dir, Creates(c, w, d)
  PROVE  /\ JobType' /\ OnlyJob(c)
         /\ job'[c].stage = "made" /\ job'[c].by = job[c].by /\ job'[c].pane = RootOf(w)
         /\ job'[c].cwd = d /\ job'[c].of = job[c].of
<1> DEFINE m == [job[c] EXCEPT !.stage = "made", !.pane = RootOf(w), !.cwd = d]
<1>1. job[c] \in Jobs
  BY DEF JobType
<1>2. job' = [job EXCEPT ![c] = m]
  BY DEF Creates
<1>3. m \in Jobs /\ m.stage = "made" /\ m.by = job[c].by /\ m.pane = RootOf(w)
      /\ m.cwd = d /\ m.of = job[c].of
  BY <1>1, PaneNames DEF Jobs, JobStage
<1> HIDE DEF m
<1> QED BY <1>2, <1>3 DEF JobType, OnlyJob

LEMMA SplitsEffect ==
  ASSUME JobType, NEW c \in Conv, NEW p \in Pane, Splits(c, p)
  PROVE  /\ JobType' /\ OnlyJob(c)
         /\ job'[c].stage = "made" /\ job'[c].by = job[c].by /\ job'[c].pane = p
         /\ job'[c].cwd = job[c].cwd /\ job'[c].of = job[c].of
<1> DEFINE m == [job[c] EXCEPT !.stage = "made", !.pane = p]
<1>1. job[c] \in Jobs
  BY DEF JobType
<1>2. job' = [job EXCEPT ![c] = m]
  BY DEF Splits
<1>3. m \in Jobs /\ m.stage = "made" /\ m.by = job[c].by /\ m.pane = p
      /\ m.cwd = job[c].cwd /\ m.of = job[c].of
  BY <1>1 DEF Jobs, JobStage
<1> HIDE DEF m
<1> QED BY <1>2, <1>3 DEF JobType, OnlyJob
-----------------------------------------------------------------------------
(* Types *)

LEMMA InitTypes == Init => Types
<1> SUFFICES ASSUME Init PROVE Types
  OBVIOUS
<1>1. HerdrType /\ ChannelType
  BY RowsAssumption DEF Init, HerdrType, ChannelType, NoWorkspace
<1>5. HistoryType
  <2>1. 0 \in 0..MaxMishap
    BY RowsAssumption
  <2> QED BY <2>1 DEF Init, HistoryType
<1>2. StoresType
  BY DEF Init, StoresType, NoWorkspace, NoAgents, NoArchive
<1>3. JobType /\ CallType
  BY DEF Init, JobType, Jobs, JobStage, Placing, CallType, Calls
<1>4. PanesKnown
  BY DEF Init, PanesKnown, Held
<1> QED BY <1>1, <1>2, <1>3, <1>4, <1>5 DEF Types

LEMMA SpawnStepTypes ==
  ASSUME Types, NEW c \in Conv, SpawnStep(c)
  PROVE  Types'
<1> USE DEF Types
<1>1. ASSUME NEW by \in Placing, NEW p \in Pane \cup {None}, NEW d \in Dir,
             NEW o \in Pinned \cup {None}, by = "pane" => p \in Pane, Asks(c, by, p, d, o)
      PROVE  Types'
  <2>1. /\ JobType' /\ OnlyJob(c)
        /\ job'[c] = [stage |-> "asked", by |-> by, pane |-> p, cwd |-> d, of |-> o]
    BY <1>1, AsksEffect
  <2>2. PanesKnown'
    BY <1>1, <2>1 DEF Asks, PanesKnown, OnlyJob, Held
  <2> QED BY <1>1, <2>1, <2>2 DEF Asks, HerdrType, ChannelType, StoresType, CallType, HistoryType,
                                  herdr, channel, stores, history
<1>2. ASSUME NEW w \in Ws, NEW d \in Dir, Creates(c, w, d) PROVE Types'
  <2>1. RootOf(w) \in Pane
    BY PaneNames
  <2>2. JobType' /\ OnlyJob(c) /\ job'[c].pane = RootOf(w) /\ job'[c].cwd = d
    BY <1>2, CreatesEffect
  <2>4. PanesKnown'
    BY <1>2, <2>1, <2>2 DEF Creates, PanesKnown, OnlyJob, Held
  <2>3. HerdrType'
    BY <1>2, <2>1 DEF Creates, HerdrType
  <2> QED BY <1>2, <2>2, <2>3, <2>4 DEF Creates, ChannelType, StoresType, CallType, HistoryType,
                                  channel, stores, history
<1>3. ASSUME NEW p \in Pane, Splits(c, p) PROVE Types'
  <2>1. JobType' /\ OnlyJob(c) /\ job'[c].pane = p /\ job'[c].cwd = job[c].cwd
    BY <1>3, SplitsEffect
  <2>3. PanesKnown'
    BY <1>3, <2>1 DEF Splits, PanesKnown, OnlyJob, Held
  <2>2. HerdrType'
    BY <1>3 DEF Splits, HerdrType
  <2> QED BY <1>3, <2>1, <2>2, <2>3 DEF Splits, ChannelType, StoresType, CallType, HistoryType,
                                  channel, stores, history
<1>4. CASE Placed(c)
  <2>1. JobType' /\ job'[c].stage = "placed" /\ SameButStage(c) /\ OnlyJob(c)
    BY <1>4, AdvancesEffect DEF Placed, JobStage
  <2>2. PanesKnown'
    BY <1>4, <2>1 DEF Placed, PanesKnown, OnlyJob, SameButStage, Held
  <2>3. WsOf(job[c].pane) \in Ws /\ job[c].cwd \in Dir \cup {None}
    BY <1>4, PaneNames DEF Placed, PanesKnown, Held, JobType, Jobs
  <2>4. index' \in [Ws -> Dir \cup {None}] /\ overtaken' \subseteq Ws
    BY <1>4, <2>3 DEF Placed, StoresType, HistoryType, IndexedDir
  <2> QED BY <1>4, <2>1, <2>2, <2>4 DEF Placed, HerdrType, ChannelType, StoresType, CallType,
                                        HistoryType, herdr, channel
<1>5. CASE AgentStarts(c)
  <2>1. JobType' /\ job'[c].stage = "started" /\ SameButStage(c) /\ OnlyJob(c)
    BY <1>5, AdvancesEffect DEF AgentStarts, JobStage
  <2>2. PanesKnown'
    BY <1>5, <2>1 DEF AgentStarts, PanesKnown, OnlyJob, SameButStage, Held
  <2>3. HerdrType'
    BY <1>5 DEF AgentStarts, HerdrType
  <2> QED BY <1>5, <2>1, <2>2, <2>3 DEF AgentStarts, ChannelType, StoresType, CallType,
                                        HistoryType, channel, stores, history
<1>6. CASE AgentRecorded(c)
  <2>1. /\ JobType' /\ job'[c].stage \in {"late", "recorded"} /\ SameButStage(c) /\ OnlyJob(c)
    BY <1>6, AdvancesEffect DEF AgentRecorded, JobStage
  <2>2. PanesKnown'
    BY <1>6, <2>1 DEF AgentRecorded, PanesKnown, OnlyJob, SameButStage, Held
  <2>3. agents' \in [Pane -> Conv \cup {None}]
    BY <1>6 DEF AgentRecorded, StoresType
  <2> QED BY <1>6, <2>1, <2>2, <2>3 DEF AgentRecorded, HerdrType, ChannelType, StoresType, CallType,
                                        HistoryType, herdr, channel, history
<1>7. CASE SpawnFails(c)
  <2>1. JobType' /\ job'[c].stage = "failed" /\ SameButStage(c) /\ OnlyJob(c)
    BY <1>7, AdvancesEffect DEF SpawnFails, JobStage
  <2>2. PanesKnown'
    BY <1>7, <2>1 DEF SpawnFails, PanesKnown, OnlyJob, SameButStage, Held
  <2> QED BY <1>7, <2>1, <2>2 DEF SpawnFails, HerdrType, ChannelType, StoresType, CallType,
                                  HistoryType, herdr, channel, stores, history
<1>8. ASSUME NEW o \in Pinned \cup {None}, NEW d \in Dir, SpawnHere(c, d, o) PROVE Types'
  BY <1>1, <1>8 DEF SpawnHere, Placing
<1>9. ASSUME NEW o \in Pinned \cup {None}, SpawnInWorktree(c, o) PROVE Types'
  BY <1>1, <1>9, RowsAssumption DEF SpawnInWorktree, Placing
<1>10. ASSUME NEW o \in Pinned \cup {None}, NEW w \in Ws, SpawnJoins(c, w, o) PROVE Types'
  <2>1. index[w] \in Dir /\ RootOf(w) \in Pane
    BY <1>10, PaneNames DEF SpawnJoins, StoresType
  <2> QED BY <1>1, <1>10, <2>1 DEF SpawnJoins, Placing
<1> QED BY <1>2, <1>3, <1>4, <1>5, <1>6, <1>7, <1>8, <1>9, <1>10 DEF SpawnStep

LEMMA CallStepTypes ==
  ASSUME Types, NEW k \in Call, CallStep(k)
  PROVE  Types'
<1> USE DEF Types
<1>0. \A w \in Ws : PanesOf(w) \in SUBSET Pane
  BY DEF PanesOf
\* Herdr ends panes for a request.
<1>e. ASSUME NEW panes \in SUBSET Pane, Ends(panes), NEW p \in Pane,
             NEW stage \in {"closed", "not_found", "stopped", "removed"}, Goes(k, stage, p),
             up' = up, hearing' = hearing, dirs' \subseteq dirs,
             UNCHANGED <<stores, job, overtaken, crossed, torn, mishaps>>
      PROVE  Types'
  <2>1. PanesEnd(panes) /\ WorkspacesEnd(panes)
    BY <1>e, EndsEffect
  <2>2. HerdrType' /\ ChannelType' /\ HistoryType'
    BY <1>e, <2>1 DEF PanesEnd, WorkspacesEnd, HerdrType, ChannelType, HistoryType
  <2>3. StoresType' /\ JobType'
    BY <1>e DEF stores, StoresType, JobType
  <2>4. /\ CallType' /\ call'[k].pane \in Pane /\ \A l \in Call : l # k => call'[l] = call[l]
    BY <1>e, GoesEffect
  <2>5. PanesKnown'
    BY <1>e, <2>4 DEF PanesKnown, Held
  <2> QED BY <2>2, <2>3, <2>4, <2>5
\* The answer arrives, and the stores are written.
<1>a. ASSUME NEW stage \in {"over", "checking"}, Goes(k, stage, call[k].pane),
             call[k].stage # "idle", StoresType', JobType',
             \A c \in Conv : SameButStage(c) /\ job'[c].stage \in {job[c].stage, "forsaken"},
             UNCHANGED <<herdr, channel, history, mishaps>>
      PROVE  Types'
  <2>1. call[k].pane \in Pane
    BY <1>a DEF PanesKnown
  <2>2. CallType' /\ call'[k].pane \in Pane /\ \A l \in Call : l # k => call'[l] = call[l]
    BY <1>a, <2>1, GoesEffect
  <2>3. PanesKnown'
    BY <1>a, <2>2 DEF PanesKnown, Held, SameButStage
  <2> QED BY <1>a, <2>2, <2>3 DEF HerdrType, ChannelType, HistoryType, herdr, channel, history
<1>s. ASSUME job' = job
      PROVE  JobType' /\ \A c \in Conv : SameButStage(c) /\ job'[c].stage \in {job[c].stage, "forsaken"}
  BY <1>s DEF JobType, SameButStage
<1>w. call[k].stage # "idle" => CallWs(k) \in Ws /\ index[CallWs(k)] \in Dir \cup {None}
  BY PaneNames DEF PanesKnown, CallWs, StoresType
<1>1. ASSUME NEW w \in Ws, CloseAsked(k, w) PROVE Types'
  <2>1. RootOf(w) \in Pane
    BY PaneNames
  <2> QED BY <1>0, <1>e, <1>1, <2>1 DEF CloseAsked
<1>2. ASSUME NEW w \in Ws, RemoveAsked(k, w) PROVE Types'
  <2>1. RootOf(w) \in Pane
    BY PaneNames
  <2> QED BY <1>0, <1>e, <1>2, <2>1 DEF RemoveAsked
<1>3. ASSUME NEW p \in Pane, StopAsked(k, p) PROVE Types'
  BY <1>e, <1>3 DEF StopAsked
<1>4. CASE CloseAnswered(k)
  <2>1. StoresType'
    BY <1>4, <1>w, ReapType DEF CloseAnswered, stores, StoresType
  <2> QED BY <1>4, <1>a, <1>s, <2>1 DEF CloseAnswered
<1>5. CASE StopArchives(k)
  <2>1. StoresType'
    BY <1>5, <1>w, RecordedType DEF StopArchives, StoresType
  <2> QED BY <1>5, <1>a, <1>s, <2>1 DEF StopArchives
<1>6. CASE StopChecks(k)
  <2>1. StoresType'
    BY <1>6, <1>w, ReapType DEF StopChecks, stores, StoresType
  <2> QED BY <1>6, <1>a, <1>s, <2>1 DEF StopChecks
<1>7. CASE RemoveAnswered(k)
  <2>1. StoresType'
    BY <1>7, <1>w, WithoutWs DEF RemoveAnswered, StoresType
  <2>2. /\ JobType'
        /\ \A c \in Conv : SameButStage(c) /\ job'[c].stage \in {job[c].stage, "forsaken"}
    <3> DEFINE S == AgentsIn(CallWs(k))
    <3>1. job' = [c \in Conv |-> IF c \in S THEN [job[c] EXCEPT !.stage = "forsaken"] ELSE job[c]]
      BY <1>7 DEF RemoveAnswered
    <3>2. "forsaken" \in JobStage
      BY DEF JobStage
    <3> HIDE DEF S
    <3>3. JobType' /\ \A c \in Conv : SameButStage(c) /\ (c \in S => job'[c].stage = "forsaken")
                                    /\ (c \notin S => job'[c] = job[c])
      BY <3>1, <3>2, Marked
    <3> QED BY <3>3
  <2> QED BY <1>7, <1>a, <2>1, <2>2 DEF RemoveAnswered
<1>8. CASE CallFails(k)
  BY <1>8, <1>a, <1>s DEF CallFails, stores, StoresType
<1> QED BY <1>1, <1>2, <1>3, <1>4, <1>5, <1>6, <1>7, <1>8 DEF CallStep

\* A death of the broker: spawns under way fail, requests are over, events lost.
LEMMA BrokerGoneEffect ==
  ASSUME Types, BrokerGone
  PROVE  /\ HerdrType' /\ ChannelType' /\ JobType' /\ CallType' /\ PanesKnown'
         /\ missed' \subseteq Ws /\ mishaps' \in 0..MaxMishap
         /\ \A c \in Conv : /\ SameButStage(c)
                            /\ job'[c].stage = IF job[c].stage \in {"asked", "made", "placed", "started"}
                                               THEN "failed" ELSE job[c].stage
         /\ \A k \in Call : /\ call'[k].pane = call[k].pane
                            /\ call'[k].stage = IF call[k].stage = "idle" THEN "idle" ELSE "over"
<1> USE DEF Types
<1> DEFINE S == {c \in Conv : job[c].stage \in {"asked", "made", "placed", "started"}}
<1>1. /\ JobType'
      /\ \A c \in Conv : SameButStage(c) /\ (c \in S => job'[c].stage = "failed")
                        /\ (c \notin S => job'[c] = job[c])
  <2>1. job' = [c \in Conv |-> IF c \in S THEN [job[c] EXCEPT !.stage = "failed"] ELSE job[c]]
    BY DEF BrokerGone
  <2>2. "failed" \in JobStage /\ "forsaken" \in JobStage
    BY DEF JobStage
  <2> HIDE DEF S
  <2> QED BY <2>1, <2>2, Marked
<1>2. \A c \in Conv : job'[c].stage = IF job[c].stage \in {"asked", "made", "placed", "started"}
                                       THEN "failed" ELSE job[c].stage
  BY <1>1
<1>3. /\ CallType'
      /\ \A k \in Call : /\ call'[k].pane = call[k].pane
                         /\ call'[k].stage = IF call[k].stage = "idle" THEN "idle" ELSE "over"
  BY DEF BrokerGone, CallType, Calls
<1>4. HerdrType' /\ ChannelType' /\ missed' \subseteq Ws
  BY DEF BrokerGone, HerdrType, ChannelType, HistoryType, herdr
<1>5. mishaps' \in 0..MaxMishap
  BY RowsAssumption DEF BrokerGone, Mishap, HistoryType
<1>6. PanesKnown'
  BY <1>1, <1>2, <1>3 DEF PanesKnown, Held, SameButStage
<1> QED BY <1>1, <1>2, <1>3, <1>4, <1>5, <1>6

LEMMA TeardownEffect ==
  ASSUME Types, Teardown
  PROVE  /\ HerdrType' /\ ChannelType' /\ StoresType' /\ JobType' /\ HistoryType' /\ PanesKnown'
         /\ \A c \in Conv : /\ SameButStage(c)
                            /\ job'[c].stage = IF job[c].stage \in {"recorded", "late"}
                                               THEN "forsaken" ELSE job[c].stage
<1> USE DEF Types
<1> DEFINE S == {c \in Conv : job[c].stage \in {"recorded", "late"}}
<1>1. /\ JobType'
      /\ \A c \in Conv : SameButStage(c) /\ (c \in S => job'[c].stage = "forsaken")
                        /\ (c \notin S => job'[c] = job[c])
  <2>1. job' = [c \in Conv |-> IF c \in S THEN [job[c] EXCEPT !.stage = "forsaken"] ELSE job[c]]
    BY DEF Teardown
  <2>2. "failed" \in JobStage /\ "forsaken" \in JobStage
    BY DEF JobStage
  <2> HIDE DEF S
  <2> QED BY <2>1, <2>2, Marked
<1>2. \A c \in Conv : job'[c].stage = IF job[c].stage \in {"recorded", "late"}
                                       THEN "forsaken" ELSE job[c].stage
  BY <1>1
<1>3. HerdrType' /\ ChannelType'
  BY DEF Teardown, HerdrType, ChannelType, NoWorkspace
<1>4. StoresType'
  BY DEF Teardown, ClearsStores, StoresType, NoWorkspace, NoAgents, NoArchive
<1>5. HistoryType'
  BY RowsAssumption DEF Teardown, Mishap, HistoryType
<1>6. PanesKnown'
  BY <1>1, <1>2 DEF Teardown, PanesKnown, Held, SameButStage
<1> QED BY <1>1, <1>2, <1>3, <1>4, <1>5, <1>6

LEMMA OtherStepTypes ==
  ASSUME Types, HerdrStep \/ BrokerDies \/ Teardown \/ Reprovision
  PROVE  Types'
<1> USE DEF Types
<1>1. ASSUME NEW p \in Pane, PaneEnds(p) PROVE Types'
  <2>1. PanesEnd({p}) /\ WorkspacesEnd({p})
    BY <1>1, EndsEffect DEF PaneEnds
  <2>2. HerdrType' /\ ChannelType' /\ HistoryType'
    BY <1>1, <2>1 DEF PaneEnds, PanesEnd, WorkspacesEnd, HerdrType, ChannelType, HistoryType
  <2> QED BY <1>1, <2>2 DEF PaneEnds, stores, StoresType, JobType, CallType, PanesKnown, Held
<1>2. ASSUME NEW w \in Ws, ReapEvent(w) PROVE Types'
  <2>1. StoresType'
    BY <1>2, ReapType DEF ReapEvent, OnReaped
  <2> QED BY <1>2, <2>1 DEF ReapEvent, HerdrType, ChannelType, JobType, CallType, HistoryType,
                            PanesKnown, Held, herdr, history
<1>3. ASSUME NEW w \in Ws, DiesInReap(w) PROVE Types'
  <2>1. index[w] \in Dir \cup {None}
    BY DEF StoresType
  <2>2. StoresType'
    BY <1>3, <2>1, RecordedType, WithoutWs DEF DiesInReap, StoresType
  <2>3. HistoryType'
    BY <1>3, BrokerGoneEffect DEF DiesInReap, BrokerGone, HistoryType
  <2> QED BY <1>3, <2>2, <2>3, BrokerGoneEffect DEF DiesInReap
<1>4. CASE ChannelLost
  BY <1>4 DEF ChannelLost, HerdrType, ChannelType, StoresType, JobType, CallType, HistoryType,
              PanesKnown, Held, herdr, stores
<1>5. CASE ChannelOpens
  BY <1>5 DEF ChannelOpens, HerdrType, ChannelType, StoresType, JobType, CallType, HistoryType,
              PanesKnown, Held, herdr, stores, history
<1>6. CASE BrokerDies
  <2>1. StoresType'
    BY <1>6 DEF BrokerDies, stores, StoresType
  <2>2. HistoryType'
    BY <1>6, BrokerGoneEffect DEF BrokerDies, BrokerGone, HistoryType
  <2> QED BY <1>6, <2>1, <2>2, BrokerGoneEffect DEF BrokerDies
<1>7. CASE Teardown
  BY <1>7, TeardownEffect DEF Teardown, CallType
<1>8. CASE Reprovision
  BY <1>8 DEF Reprovision, HerdrType, ChannelType, StoresType, JobType, CallType, HistoryType,
              PanesKnown, Held, channel, stores, history
<1> QED BY <1>1, <1>2, <1>3, <1>4, <1>5, <1>6, <1>7, <1>8 DEF HerdrStep

LEMMA TypesStep == Types /\ [Next]_vars => Types'
<1> SUFFICES ASSUME Types, [Next]_vars PROVE Types'
  OBVIOUS
<1>1. CASE Next
  BY <1>1, SpawnStepTypes, CallStepTypes, OtherStepTypes DEF Next
<1>2. CASE UNCHANGED vars
  BY <1>2 DEF vars, herdr, channel, stores, history, Types, HerdrType, ChannelType, StoresType,
              JobType, CallType, HistoryType, PanesKnown, Held
<1> QED BY <1>1, <1>2

\* The type invariant of the stores, and with it that a spawn or a request knows
\* its pane at every stage where the code uses one.
THEOREM RowsTypeCorrect == Spec => []TypeOK
<1>1. Types => TypeOK
  BY DEF Types, TypeOK, HerdrType, ChannelType, StoresType, JobType, Jobs, CallType, Calls,
         HistoryType
<1> QED BY <1>1, InitTypes, TypesStep, PTL DEF Spec
-----------------------------------------------------------------------------
(* Steps after which rows are gone: into the archive, or with a death *)

\* Rows of agents go, into the archive when their workspace's directory is known;
\* a workspace's row goes with the rows of its agents.
RowsGo ==
  /\ \A p \in Pane : agents'[p] # None => agents'[p] = agents[p]
  /\ \A w \in Ws : index'[w] = index[w] \/
       (index'[w] = None /\ \A p \in Pane : WsOf(p) = w => agents'[p] = None)
  /\ \A c \in Conv : resumable'[c] = resumable[c] \/
       \E p \in Pane : agents[p] = c /\ index[WsOf(p)] # None /\ resumable'[c] = index[WsOf(p)]
  /\ \A p \in Pane : agents[p] \in Pinned /\ agents'[p] = None /\ index[WsOf(p)] # None
       => torn' \/ resumable'[agents[p]] # None

\* A spawn stays as it is, or ends without an agent.
SpawnsEnd ==
  \A c \in Conv :
    /\ SameButStage(c)
    /\ job'[c].stage = job[c].stage
         \/ (job[c].stage \in {"asked", "made", "placed", "started"} /\ job'[c].stage = "failed")

\* An event stays, is missed, or has taken the row it is about.
EventsGo ==
  /\ closed' \subseteq closed /\ missed \subseteq missed'
  /\ \A w \in closed : w \in closed' \cup missed' \/ index'[w] = None

\* Spawns that end and rows that go leave the others in their places.
LEMMA SpawnsShrink ==
  ASSUME Types, Spawns, UNCHANGED <<up, dir, runs, crossed>>,
         \A w \in Ws : index'[w] \in {index[w], None},
         \A c \in Conv : /\ SameButStage(c)
                         /\ job'[c].stage \in {job[c].stage, "failed", "forsaken"}
  PROVE  Spawns'
<1> SUFFICES ASSUME Undisturbed' PROVE (PanesHeld /\ DirsAgree /\ InPlace)'
  BY DEF Spawns
<1>1. PanesHeld /\ DirsAgree /\ InPlace
  BY DEF Spawns, Undisturbed
<1>2. \A c \in Conv : /\ SameButStage(c)
                      /\ job'[c].stage \notin {"failed", "forsaken"} => job'[c].stage = job[c].stage
  OBVIOUS
<1>3. PanesHeld'
  BY <1>1, <1>2 DEF PanesHeld, Held, Used, Begun, RootOf, Occupied, SameButStage
<1>4. DirsAgree'
  <2>1. ASSUME NEW c \in Conv, NEW w \in Ws, At(c, w)' PROVE At(c, w)
    BY <1>2, <2>1 DEF At, Held, SameButStage
  <2>2. ASSUME NEW c \in Conv, NEW w \in Ws, Makes(c, w)'
        PROVE  Makes(c, w) /\ job'[c].cwd = job[c].cwd
    BY <1>2, <2>2 DEF Makes, SameButStage
  <2>3. \A w \in Ws : index'[w] \in {index[w], None} /\ dir'[w] = dir[w]
    OBVIOUS
  <2>4. ASSUME NEW c \in Conv, NEW w \in Ws, Makes(c, w)'
        PROVE  /\ index'[w] = None
               /\ dir'[w] # None => dir'[w] = job'[c].cwd
               /\ \A d \in Conv : At(d, w)' => d = c
    BY <1>1, <2>1, <2>2, <2>3, <2>4 DEF DirsAgree, Live
  <2>5. ASSUME NEW c \in Conv, NEW w \in Ws, At(c, w)', index'[w] # None
        PROVE  index'[w] = job'[c].cwd
    BY <1>1, <1>2, <2>1, <2>3, <2>5 DEF DirsAgree, SameButStage
  <2>6. ASSUME NEW w \in Ws, index'[w] # None, dir'[w] # None PROVE index'[w] = dir'[w]
    BY <1>1, <2>3, <2>6 DEF DirsAgree, Live
  <2> QED BY <2>4, <2>5, <2>6 DEF DirsAgree, Live
<1>5. InPlace'
  <2> SUFFICES ASSUME NEW c \in Conv, job'[c].of # None, job'[c].by # "worktree"
               PROVE  job'[c].cwd = job'[job'[c].of].cwd
    BY DEF InPlace
  <2>1. job'[c].of = job[c].of /\ job[c].of \in Conv
    BY <1>2, RowsAssumption DEF SameButStage, Types, JobType, Jobs
  <2> QED BY <1>1, <1>2, <2>1 DEF InPlace, SameButStage
<1> QED BY <1>3, <1>4, <1>5

LEMMA RowsGoKeep ==
  ASSUME Types, Kept, RowsGo, SpawnsEnd, EventsGo, torn => torn',
         UNCHANGED <<up, dir, runs, crossed, overtaken>>
  PROVE  Kept'
<1> USE DEF Kept, RowsGo
<1>1. RowsFollowHerdr'
  BY DEF RowsFollowHerdr, EventsGo, Live
<1>2. OnceOnly'
  BY DEF OnceOnly, EventsGo, Live, Begun, Used, RootOf, Undisturbed
<1>3. RowsOfSpawns'
  <2>1. ASSUME NEW p \in Pane, agents'[p] # None
        PROVE  /\ job'[agents'[p]].stage \in {"recorded", "late"} /\ job'[agents'[p]].pane = p
               /\ index'[WsOf(p)] = None => job'[agents'[p]].stage = "late"
    <3>1. agents'[p] = agents[p] /\ agents[p] \in Conv /\ WsOf(p) \in Ws
      BY <2>1, PaneNames DEF Types, StoresType
    <3>2. /\ job[agents[p]].stage \in {"recorded", "late"} /\ job[agents[p]].pane = p
          /\ index[WsOf(p)] = None => job[agents[p]].stage = "late"
      BY <2>1, <3>1 DEF RowsOfSpawns
    <3>3. job'[agents[p]].stage = job[agents[p]].stage /\ job'[agents[p]].pane = job[agents[p]].pane
      BY <3>1, <3>2 DEF SpawnsEnd, SameButStage
    <3> QED BY <2>1, <3>1, <3>2, <3>3
  <2>2. ASSUME NEW c \in Conv, resumable'[c] # None PROVE job'[c].stage \in Entered
    <3>1. job[c].stage \in Entered
      BY <2>2, NoneIsNone DEF RowsOfSpawns, Entered
    <3> QED BY <3>1 DEF SpawnsEnd, Entered
  <2>3. ASSUME NEW c \in Conv, job'[c].of # None PROVE job'[job'[c].of].stage \in Entered
    <3>1. job'[c].of = job[c].of /\ job[c].of \in Conv
      BY <2>3, RowsAssumption DEF SpawnsEnd, SameButStage, Types, JobType, Jobs
    <3>2. job[job[c].of].stage \in Entered
      BY <2>3, <3>1 DEF RowsOfSpawns
    <3> QED BY <3>1, <3>2 DEF SpawnsEnd, Entered
  <2> QED BY <2>1, <2>2, <2>3 DEF RowsOfSpawns, Entered
<1>4. Spawns'
  BY SpawnsShrink DEF SpawnsEnd
<1>5. ArchiveIsExact'
  <2> SUFFICES ASSUME Undisturbed', NEW c \in Pinned
               PROVE  /\ ~torn' /\ job'[c].stage = "recorded" =>
                            resumable'[c] # None \/ \E p \in Pane : agents'[p] = c
                      /\ resumable'[c] # None => resumable'[c] = job'[c].cwd
    BY DEF ArchiveIsExact, NoConversationLost, ArchivedWhereItRan, Undisturbed
  <2>0. Undisturbed /\ c \in Conv /\ DirsAgree
    BY RowsAssumption DEF Undisturbed, Spawns
  <2>1. job'[c].cwd = job[c].cwd /\ (job'[c].stage = "recorded" => job[c].stage = "recorded")
    BY <2>0 DEF SpawnsEnd, SameButStage
  <2>2. ASSUME NEW p \in Pane, agents[p] = c
        PROVE  /\ index[WsOf(p)] # None => index[WsOf(p)] = job[c].cwd
               /\ job[c].stage = "recorded" => index[WsOf(p)] # None
    <3>1. /\ job[c].stage \in {"recorded", "late"} /\ job[c].pane = p
          /\ index[WsOf(p)] = None => job[c].stage = "late"
      BY <2>0, <2>2, NoneIsNone DEF RowsOfSpawns
    <3>2. At(c, WsOf(p)) /\ WsOf(p) \in Ws
      BY <3>1, PaneNames DEF At, Held
    <3> QED BY <2>0, <3>1, <3>2 DEF DirsAgree
  <2>3. resumable'[c] # None => resumable'[c] = job'[c].cwd
    BY <2>0, <2>1, <2>2 DEF ArchiveIsExact, ArchivedWhereItRan
  <2>4. ASSUME ~torn', job'[c].stage = "recorded"
        PROVE  resumable'[c] # None \/ \E p \in Pane : agents'[p] = c
    <3>1. CASE resumable[c] # None
      BY <2>0, <3>1
    <3>2. CASE \E p \in Pane : agents[p] = c
      <4>1. PICK p \in Pane : agents[p] = c
        BY <3>2
      <4>2. agents'[p] = c \/ agents'[p] = None
        BY <4>1
      <4> QED BY <2>1, <2>2, <2>4, <4>1, <4>2
    <3> QED BY <2>0, <2>1, <2>4, <3>1, <3>2 DEF ArchiveIsExact, NoConversationLost
  <2> QED BY <2>3, <2>4
<1> QED BY <1>1, <1>2, <1>3, <1>4, <1>5

LEMMA ReapGoes ==
  ASSUME Types, NEW w \in Ws, Reap(w)
  PROVE  RowsGo /\ index'[w] = None /\ \A v \in Ws : v # w => index'[v] = index[v]
<1> USE DEF Types
<1>1. \A p \in Pane : agents'[p] = IF WsOf(p) = w THEN None ELSE agents[p]
  BY WithoutWs DEF Reap
<1>2. \A v \in Ws : index'[v] = IF v = w THEN None ELSE index[v]
  BY DEF Reap, StoresType
<1>3. \A c \in Conv : resumable'[c] =
        IF c \in AgentsIn(w) \cap Pinned /\ index[w] # None THEN index[w] ELSE resumable[c]
  BY RecordedWrites DEF Reap
<1>4. \A c \in AgentsIn(w) : c # None /\ \E p \in Pane : WsOf(p) = w /\ agents[p] = c
  BY DEF AgentsIn, PanesOf
<1>5. \A p \in Pane : WsOf(p) = w /\ agents[p] # None => agents[p] \in AgentsIn(w)
  BY DEF AgentsIn, PanesOf
<1>6. \A c \in Conv : resumable'[c] = resumable[c] \/
        \E p \in Pane : agents[p] = c /\ index[WsOf(p)] # None /\ resumable'[c] = index[WsOf(p)]
  BY <1>3, <1>4
<1>7. ASSUME NEW p \in Pane, agents[p] \in Pinned, agents'[p] = None, index[WsOf(p)] # None
      PROVE  resumable'[agents[p]] # None
  <2>1. agents[p] \in Conv /\ agents[p] # None
    BY <1>7, RowsAssumption
  <2>2. WsOf(p) = w
    BY <1>1, <1>7, <2>1
  <2> QED BY <1>3, <1>5, <1>7, <2>1, <2>2
<1> QED BY <1>1, <1>2, <1>6, <1>7 DEF RowsGo

LEMMA NoRowsGo == ASSUME Types, UNCHANGED stores PROVE RowsGo
<1>1. \A p \in Pane : agents[p] \in Pinned => agents[p] # None
  BY RowsAssumption
<1> QED BY <1>1 DEF stores, RowsGo

LEMMA SpawnsStay == ASSUME UNCHANGED job PROVE SpawnsEnd
BY DEF SpawnsEnd, SameButStage

\* Requests go on to their end, and what they are about is as gone as before.
LEMMA ClosingKeep ==
  ASSUME Types, ClosingGone, crossed \subseteq crossed', up' => up,
         \A k \in Call : Closing(k)' => Closing(k) /\ call'[k].pane = call[k].pane,
         \A w \in Ws : dir[w] = None /\ (up => Begun(w)) => dir'[w] = None /\ (up' => Begun(w)')
  PROVE  ClosingGone'
<1>1. \A k \in Call : Closing(k) => CallWs(k) \in Ws
  BY PaneNames DEF Types, PanesKnown, Closing, CallWs
<1>2. \A k \in Call : Closing(k)' => CallWs(k)' = CallWs(k)
  BY DEF CallWs
<1>3. Undisturbed' => Undisturbed
  BY DEF Undisturbed
<1> QED BY <1>1, <1>2, <1>3 DEF ClosingGone, Live

LEMMA CallGoes ==
  ASSUME Types, ClosingGone, NEW k \in Call, NEW stage \in {"over", "checking"},
         Goes(k, stage, call[k].pane), UNCHANGED <<up, dir, runs, crossed>>
  PROVE  ClosingGone'
<1>1. call[k].pane \in Pane \cup {None}
  BY DEF Types, CallType, Calls
<1>2. call'[k].stage = stage /\ \A l \in Call : l # k => call'[l] = call[l]
  BY <1>1, GoesEffect DEF Types
<1>3. \A l \in Call : Closing(l)' => Closing(l) /\ call'[l].pane = call[l].pane
  BY <1>2 DEF Closing
<1> QED BY <1>3, ClosingKeep DEF Begun, Used, RootOf

LEMMA CallsStay ==
  ASSUME Types, ClosingGone, UNCHANGED <<call, up, dir, runs, crossed>>
  PROVE  ClosingGone'
BY ClosingKeep DEF Closing, Begun, Used, RootOf

\* The actions of this shape, each with the lemma it is an instance of.
LEMMA ReapEventKeeps ==
  ASSUME Types, Kept, ClosingGone, NEW w \in Ws, ReapEvent(w) PROVE Kept' /\ ClosingGone'
<1>1. RowsGo /\ index'[w] = None
  BY ReapGoes DEF ReapEvent, OnReaped
<1>2. UNCHANGED <<up, dir, runs, crossed, overtaken, job, call, torn, missed>> /\ closed' = closed \ {w}
  BY DEF ReapEvent, herdr, history
<1>3. EventsGo
  BY <1>1, <1>2 DEF EventsGo
<1> QED BY <1>1, <1>2, <1>3, RowsGoKeep, SpawnsStay, CallsStay

LEMMA DiesInReapKeeps ==
  ASSUME Types, Kept, ClosingGone, NEW w \in Ws, DiesInReap(w) PROVE Kept' /\ ClosingGone'
<1> USE DEF Types
<1>1. PICK convs \in SUBSET AgentsIn(w) : resumable' = Recorded(resumable, convs, index[w])
  BY DEF DiesInReap
<1>2. torn' /\ UNCHANGED <<up, dir, runs, crossed, overtaken, index>>
      /\ closed' = {} /\ missed' = missed \cup closed
  BY DEF DiesInReap, BrokerGone, herdr
<1>3. \A c \in AgentsIn(w) : \E p \in Pane : WsOf(p) = w /\ agents[p] = c
  BY DEF AgentsIn, PanesOf
<1>4. \A c \in Conv : resumable'[c] =
        IF c \in convs \cap Pinned /\ index[w] # None THEN index[w] ELSE resumable[c]
  BY <1>1, RecordedWrites
<1>5. RowsGo
  BY <1>2, <1>3, <1>4, WithoutWs DEF DiesInReap, RowsGo
<1>6. SpawnsEnd /\ EventsGo
  BY <1>2, BrokerGoneEffect DEF DiesInReap, SpawnsEnd, EventsGo
<1>7. \A k \in Call : Closing(k)' => Closing(k) /\ call'[k].pane = call[k].pane
  BY BrokerGoneEffect DEF DiesInReap, Closing
<1>8. ClosingGone'
  BY <1>2, <1>7, ClosingKeep DEF Begun, Used, RootOf
<1> QED BY <1>2, <1>5, <1>6, <1>8, RowsGoKeep

LEMMA BrokerDiesKeeps ==
  ASSUME Types, Kept, ClosingGone, BrokerDies PROVE Kept' /\ ClosingGone'
<1>1. UNCHANGED <<stores, torn, up, dir, runs, crossed, overtaken>>
      /\ closed' = {} /\ missed' = missed \cup closed
  BY DEF BrokerDies, BrokerGone, herdr
<1>2. SpawnsEnd /\ EventsGo
  BY <1>1, BrokerGoneEffect DEF BrokerDies, SpawnsEnd, EventsGo
<1>3. \A k \in Call : Closing(k)' => Closing(k) /\ call'[k].pane = call[k].pane
  BY BrokerGoneEffect DEF BrokerDies, Closing
<1>4. ClosingGone'
  BY <1>1, <1>3, ClosingKeep DEF Begun, Used, RootOf
<1> QED BY <1>1, <1>2, <1>4, NoRowsGo, RowsGoKeep

LEMMA ChannelKeeps ==
  ASSUME Types, Kept, ClosingGone, ChannelLost \/ ChannelOpens PROVE Kept' /\ ClosingGone'
<1>1. UNCHANGED <<stores, torn, up, dir, runs, crossed, overtaken, job, call>> /\ EventsGo
  BY DEF ChannelLost, ChannelOpens, EventsGo, herdr, history
<1> QED BY <1>1, NoRowsGo, RowsGoKeep, SpawnsStay, CallsStay

LEMMA SpawnFailsKeeps ==
  ASSUME Types, Kept, ClosingGone, NEW c \in Conv, SpawnFails(c) PROVE Kept' /\ ClosingGone'
<1>1. UNCHANGED <<stores, torn, up, dir, runs, crossed, overtaken, call>> /\ EventsGo
  BY DEF SpawnFails, EventsGo, herdr, history, channel
<1>2. /\ job'[c].stage = "failed" /\ SameButStage(c) /\ OnlyJob(c)
      /\ job[c].stage \in {"asked", "made", "placed", "started"}
  BY AdvancesEffect DEF SpawnFails, JobStage, Types
<1>3. SpawnsEnd
  BY <1>2 DEF SpawnsEnd, SameButStage, OnlyJob
<1> QED BY <1>1, <1>3, NoRowsGo, RowsGoKeep, CallsStay

LEMMA AnswerKeeps ==
  ASSUME Types, Kept, ClosingGone, NEW k \in Call,
         CloseAnswered(k) \/ StopArchives(k) \/ StopChecks(k) \/ CallFails(k)
  PROVE  Kept' /\ ClosingGone'
<1> USE DEF Types
<1>1. /\ UNCHANGED <<torn, up, dir, runs, crossed, overtaken, job, closed, missed>>
      /\ Goes(k, "over", call[k].pane) \/ Goes(k, "checking", call[k].pane)
      /\ call[k].stage # "idle"
  BY DEF CloseAnswered, StopArchives, StopChecks, CallFails, herdr, history, channel
<1>2. ClosingGone'
  BY <1>1, CallGoes
<1>3. EventsGo /\ SpawnsEnd
  BY <1>1, SpawnsStay DEF EventsGo
<1>4. call[k].pane \in Pane /\ CallWs(k) \in Ws
  BY <1>1, PaneNames DEF PanesKnown, CallWs
<1>5. RowsGo
  <2>1. CASE StopArchives(k)
    <3> DEFINE p == call[k].pane
    <3>1. /\ \A q \in Pane : agents'[q] = IF q = p THEN None ELSE agents[q]
          /\ index' = index
      BY <2>1, <1>4 DEF StopArchives, StoresType
    <3>2. \A c \in Conv : resumable'[c] =
            IF c \in {agents[p]} \cap Pinned /\ index[WsOf(p)] # None THEN index[WsOf(p)] ELSE resumable[c]
      BY <2>1, RecordedWrites DEF StopArchives, CallWs
    <3>3. \A q \in Pane : agents[q] \in Pinned => agents[q] \in Conv /\ agents[q] # None
      BY RowsAssumption
    <3> HIDE DEF p
    <3>4. p \in Pane
      BY <1>4 DEF p
    <3> QED BY <3>1, <3>2, <3>3, <3>4 DEF RowsGo
  <2>2. CASE CloseAnswered(k) \/ StopChecks(k) \/ CallFails(k)
    BY <1>4, <2>2, ReapGoes, NoRowsGo DEF CloseAnswered, StopChecks, CallFails
  <2> QED BY <2>1, <2>2
<1> QED BY <1>1, <1>2, <1>3, <1>5, RowsGoKeep
-----------------------------------------------------------------------------
(* Steps of herdr that end panes *)

LEMMA EndsKeep ==
  ASSUME Types, Kept, NEW panes \in SUBSET Pane, PanesEnd(panes), WorkspacesEnd(panes),
         UNCHANGED <<up, stores, job, overtaken, crossed, torn>>
  PROVE  Kept'
<1> USE DEF Kept, PanesEnd, WorkspacesEnd
<1>0. UNCHANGED <<index, agents, resumable>>
  BY DEF stores
<1>1. \A w \in Ws : Begun(w)' <=> Begun(w)
  BY PaneNames DEF Begun, Used, RootOf
<1>2. RowsFollowHerdr'
  BY <1>0 DEF RowsFollowHerdr, Live
<1>3. OnceOnly'
  BY <1>0, <1>1 DEF OnceOnly, Live, Undisturbed, Types, ChannelType
<1>4. RowsOfSpawns'
  BY <1>0 DEF RowsOfSpawns, Entered
<1>5. ArchiveIsExact'
  BY <1>0 DEF ArchiveIsExact, NoConversationLost, ArchivedWhereItRan, Undisturbed
<1>6. Spawns'
  <2> SUFFICES ASSUME Undisturbed' PROVE (PanesHeld /\ DirsAgree /\ InPlace)'
    BY DEF Spawns
  <2>1. PanesHeld /\ DirsAgree /\ InPlace
    BY DEF Spawns, Undisturbed
  <2>2. InPlace'
    BY <2>1 DEF InPlace
  <2>3. DirsAgree'
    BY <1>0, <2>1 DEF DirsAgree, Makes, At, Held, Live
  <2>4. \A c \in Conv : job[c].stage \in Held \/ (job[c].stage = "asked" /\ job[c].by = "pane")
                       => job[c].pane \in Pane /\ WsOf(job[c].pane) \in Ws
    BY PaneNames DEF Types, PanesKnown
  <2>5. PanesHeld'
    <3>1. \A p \in Pane : /\ Used(p)' <=> Used(p)
                          /\ Occupied(p)' => Occupied(p) /\ runs'[p] = runs[p]
      BY DEF Used, Occupied
    <3> QED BY <1>1, <2>1, <2>4, <3>1 DEF PanesHeld, Held
  <2> QED BY <2>2, <2>3, <2>5
<1> QED BY <1>2, <1>3, <1>4, <1>5, <1>6

\* What was gone stays gone when panes end.
LEMMA EndsClosing ==
  ASSUME Types, ClosingGone, NEW panes \in SUBSET Pane, PanesEnd(panes), WorkspacesEnd(panes),
         up' = up, crossed' = crossed,
         \A k \in Call : Closing(k)' => Closing(k) /\ call'[k].pane = call[k].pane
  PROVE  ClosingGone'
<1>1. \A w \in Ws : Begun(w)' <=> Begun(w)
  BY PaneNames DEF Begun, Used, RootOf, PanesEnd
<1> QED BY <1>1, ClosingKeep DEF WorkspacesEnd

LEMMA PaneEndsKeeps ==
  ASSUME Types, Kept, ClosingGone, NEW p \in Pane, PaneEnds(p) PROVE Kept' /\ ClosingGone'
<1>1. PanesEnd({p}) /\ WorkspacesEnd({p})
  BY EndsEffect DEF PaneEnds, Types
<1>2. UNCHANGED <<up, stores, job, call, overtaken, crossed, torn>>
  BY DEF PaneEnds
<1>3. \A k \in Call : Closing(k)' => Closing(k) /\ call'[k].pane = call[k].pane
  BY <1>2 DEF Closing
<1> QED BY <1>1, <1>2, <1>3, EndsKeep, EndsClosing

LEMMA StopAskedKeeps ==
  ASSUME Types, Kept, ClosingGone, NEW k \in Call, NEW p \in Pane, StopAsked(k, p)
  PROVE  Kept' /\ ClosingGone'
<1>1. PanesEnd({p}) /\ WorkspacesEnd({p})
  BY EndsEffect DEF StopAsked, Types
<1>2. UNCHANGED <<up, stores, job, overtaken, crossed, torn>>
  BY DEF StopAsked
<1>3. call'[k].stage = "stopped" /\ \A l \in Call : l # k => call'[l] = call[l]
  BY GoesEffect DEF StopAsked, Types
<1>4. \A l \in Call : Closing(l)' => Closing(l) /\ call'[l].pane = call[l].pane
  BY <1>3 DEF Closing
<1> QED BY <1>1, <1>2, <1>4, EndsKeep, EndsClosing

\* A request to close or remove w: w is gone when it is answered.
LEMMA EndAskedKeeps ==
  ASSUME Types, Kept, ClosingGone, NEW k \in Call, NEW w \in Ws,
         CloseAsked(k, w) \/ RemoveAsked(k, w)
  PROVE  Kept' /\ ClosingGone'
<1>1. PanesEnd(PanesOf(w)) /\ WorkspacesEnd(PanesOf(w)) /\ PanesOf(w) \in SUBSET Pane
  <2>1. PanesOf(w) \in SUBSET Pane
    BY DEF PanesOf
  <2> QED BY <2>1, EndsEffect DEF CloseAsked, RemoveAsked, Types
<1>2. UNCHANGED <<up, stores, job, overtaken, crossed, torn>> /\ up
  BY DEF CloseAsked, RemoveAsked
<1>3. Kept'
  BY <1>1, <1>2, EndsKeep
<1>4. PICK stage \in {"closed", "not_found", "removed"} : Goes(k, stage, RootOf(w))
  BY DEF CloseAsked, RemoveAsked
<1>5. RootOf(w) \in Pane /\ WsOf(RootOf(w)) = w
  BY PaneNames
<1>6. call'[k].pane = RootOf(w) /\ \A l \in Call : l # k => call'[l] = call[l]
  BY <1>4, <1>5, GoesEffect DEF Types
<1>7. \A v \in Ws : Begun(v)' <=> Begun(v)
  BY <1>1, PaneNames DEF Begun, Used, RootOf, PanesEnd
<1>8. Undisturbed => Begun(w)
  BY DEF CloseAsked, RemoveAsked, Kept, OnceOnly, Begun, Used
<1>9. dir'[w] = None
  BY <1>1 DEF WorkspacesEnd
<1>10. ASSUME Undisturbed', NEW l \in Call, Closing(l)'
       PROVE  \E v \in Ws : CallWs(l)' = v /\ dir'[v] = None /\ Begun(v)'
  <2>1. CASE l = k
    BY <1>2, <1>5, <1>6, <1>7, <1>8, <1>9, <1>10, <2>1 DEF CallWs, Undisturbed
  <2>2. CASE l # k
    <3>1. CallWs(l)' = CallWs(l) /\ Closing(l) /\ CallWs(l) \in Ws
      BY <1>6, <1>10, <2>2, PaneNames DEF CallWs, Closing, Types, PanesKnown
    <3>2. dir[CallWs(l)] = None /\ Begun(CallWs(l))
      BY <1>2, <1>10, <3>1 DEF ClosingGone, Live, Undisturbed
    <3> QED BY <1>1, <1>7, <3>1, <3>2 DEF WorkspacesEnd
  <2> QED BY <2>1, <2>2
<1>11. ClosingGone'
  BY <1>10 DEF ClosingGone, Live, Begun, Used, RootOf
<1> QED BY <1>3, <1>11
-----------------------------------------------------------------------------
(* Steps of a spawn *)

\* While a spawn has no row of its own, its steps leave every row about others.
LEMMA SpawnMoves ==
  ASSUME Types, Kept, NEW c \in Conv, UNCHANGED <<agents, resumable, crossed, torn>>,
         \A w \in Ws : index[w] # None => index'[w] # None,
         OnlyJob(c), job[c].stage \notin Entered, job'[c].stage \notin Entered,
         job'[c].of # None => job'[c].of \in Conv /\ job[job'[c].of].stage \in Entered
  PROVE  RowsOfSpawns' /\ ArchiveIsExact'
<1> USE DEF Kept
<1>1. ASSUME NEW d \in Conv, job[d].stage \in Entered PROVE job'[d] = job[d]
  BY <1>1 DEF OnlyJob
<1>2. ASSUME NEW p \in Pane, agents[p] # None
      PROVE  /\ job'[agents[p]].stage \in {"recorded", "late"} /\ job'[agents[p]].pane = p
             /\ index'[WsOf(p)] = None => job'[agents[p]].stage = "late"
  <2>1. agents[p] \in Conv /\ WsOf(p) \in Ws
    BY <1>2, PaneNames DEF Types, StoresType
  <2>2. job[agents[p]].stage \in {"recorded", "late"} /\ job[agents[p]].pane = p
        /\ (index[WsOf(p)] = None => job[agents[p]].stage = "late")
    BY <1>2 DEF RowsOfSpawns
  <2>3. job'[agents[p]] = job[agents[p]]
    BY <1>1, <2>1, <2>2 DEF Entered
  <2> QED BY <2>1, <2>2, <2>3
<1>3. ASSUME NEW d \in Conv, resumable[d] # None PROVE job[d].stage \in Entered /\ job'[d] = job[d]
  BY <1>1, <1>3 DEF RowsOfSpawns
<1>4. ASSUME NEW d \in Conv, job'[d].of # None PROVE job'[job'[d].of].stage \in Entered
  <2>1. job'[d].of \in Conv /\ job[job'[d].of].stage \in Entered
    <3>1. CASE d = c
      BY <1>4, <3>1
    <3>2. CASE d # c
      <4>1. job'[d] = job[d] /\ job[d] \in Jobs
        BY <3>2 DEF OnlyJob, Types, JobType
      <4>2. job[d].of \in Conv
        BY <1>4, <4>1, RowsAssumption DEF Jobs
      <4> QED BY <1>4, <4>1, <4>2 DEF RowsOfSpawns
    <3> QED BY <3>1, <3>2
  <2> QED BY <1>1, <2>1
<1>5. RowsOfSpawns'
  BY <1>2, <1>3, <1>4 DEF RowsOfSpawns, Entered
<1>6. ArchiveIsExact'
  <2>1. \A d \in Pinned : d \in Conv
    BY RowsAssumption
  <2>2. \A d \in Pinned : job'[d].stage = "recorded" => job[d].stage = "recorded"
    BY <2>1 DEF OnlyJob, Entered
  <2>3. NoConversationLost'
    BY <2>2 DEF ArchiveIsExact, NoConversationLost, Undisturbed
  <2>4. ArchivedWhereItRan'
    BY <1>3, <2>1 DEF ArchiveIsExact, ArchivedWhereItRan, Undisturbed
  <2> QED BY <2>3, <2>4 DEF ArchiveIsExact
<1> QED BY <1>5, <1>6

\* ...and a resumed conversation stays where it was held.
LEMMA SpawnInPlace ==
  ASSUME Types, Kept, InPlace, NEW c \in Conv, OnlyJob(c), job[c].stage \notin Entered,
         job'[c].of = job[c].of, job'[c].by = job[c].by,
         job[c].by # "worktree" => job'[c].cwd = job[c].cwd
  PROVE  InPlace'
<1> SUFFICES ASSUME NEW d \in Conv, job'[d].of # None, job'[d].by # "worktree"
             PROVE  job'[d].cwd = job'[job'[d].of].cwd
  BY DEF InPlace
<1>1. job'[d].of = job[d].of /\ job'[d].by = job[d].by /\ job'[d].cwd = job[d].cwd
  BY DEF OnlyJob
<1>2. job[d].of \in Conv
  BY <1>1, RowsAssumption DEF Types, JobType, Jobs
<1>3. job[job[d].of].stage \in Entered
  BY <1>1 DEF Kept, RowsOfSpawns
<1>4. job'[job[d].of] = job[job[d].of]
  BY <1>2, <1>3 DEF OnlyJob
<1> QED BY <1>1, <1>4 DEF InPlace

LEMMA AsksKeeps ==
  ASSUME Types, Kept, ClosingGone, NEW c \in Conv, NEW by \in Placing, NEW p \in Pane \cup {None},
         NEW d \in Dir, NEW o \in Pinned \cup {None},
         by = "pane" => p \in Pane /\ index[WsOf(p)] = d, Asks(c, by, p, d, o)
  PROVE  Kept' /\ ClosingGone'
<1> USE DEF Kept
<1>1. /\ job[c].stage = "idle" /\ UNCHANGED <<up, dir, runs, dirs, hearing, closed>>
      /\ UNCHANGED <<index, agents, resumable, call, missed, overtaken, crossed, torn>>
  BY DEF Asks, herdr, channel, stores, history
<1>2. OnlyJob(c) /\ job'[c] = [stage |-> "asked", by |-> by, pane |-> p, cwd |-> d, of |-> o]
  BY AsksEffect DEF Types
<1>3. job[c].stage \notin Entered /\ job'[c].stage \notin Entered
  BY <1>1, <1>2 DEF Entered
<1>4. ASSUME o # None
      PROVE  /\ o \in Conv /\ job[o].stage \in Entered
             /\ Undisturbed => job[o].cwd = d
  <2>1. o \in Pinned /\ o \in Conv
    BY <1>4, RowsAssumption
  <2>2. d = resumable[o] \/ \E q \in Pane : agents[q] = o /\ index[WsOf(q)] = d
    BY <1>4 DEF Asks, MayResume, ResumesFrom
  <2>3. CASE d = resumable[o]
    BY <2>1, <2>3, NoneIsNone DEF RowsOfSpawns, ArchiveIsExact, ArchivedWhereItRan
  <2>4. ASSUME NEW q \in Pane, agents[q] = o, index[WsOf(q)] = d
        PROVE  job[o].stage \in Entered /\ (Undisturbed => job[o].cwd = d)
    <3>1. job[o].stage \in {"recorded", "late"} /\ job[o].pane = q
      BY <1>4, <2>4 DEF RowsOfSpawns
    <3>2. At(o, WsOf(q)) /\ WsOf(q) \in Ws
      BY <3>1, PaneNames DEF At, Held
    <3> QED BY <2>1, <2>4, <3>1, <3>2, NoneIsNone DEF Spawns, DirsAgree, Entered
  <2> QED BY <2>1, <2>2, <2>3, <2>4
<1>5. RowsOfSpawns' /\ ArchiveIsExact'
  BY <1>1, <1>2, <1>3, <1>4, SpawnMoves
<1>6. RowsFollowHerdr' /\ OnceOnly'
  BY <1>1 DEF RowsFollowHerdr, OnceOnly, Live, Begun, Used, RootOf, Undisturbed
<1>7. ClosingGone'
  BY <1>1, CallsStay
<1>8. Spawns'
  <2> SUFFICES ASSUME Undisturbed' PROVE (PanesHeld /\ DirsAgree /\ InPlace)'
    BY DEF Spawns
  <2>1. Undisturbed /\ PanesHeld /\ DirsAgree /\ InPlace
    BY <1>1 DEF Spawns, Undisturbed
  <2>2. by = "pane" => Begun(WsOf(p)) /\ WsOf(p) \in Ws
    BY <2>1, PaneNames, NoneIsNone DEF OnceOnly
  <2>3. PanesHeld'
    BY <1>1, <1>2, <2>1, <2>2 DEF PanesHeld, Held, OnlyJob, Used, Begun, Occupied, RootOf
  <2>4. DirsAgree'
    <3>1. ASSUME NEW e \in Conv, NEW w \in Ws, At(e, w)'
          PROVE  (e # c /\ At(e, w) /\ job'[e] = job[e]) \/ (e = c /\ by = "pane" /\ WsOf(p) = w)
      BY <1>2, <3>1 DEF At, OnlyJob, Held
    <3>2. ASSUME NEW e \in Conv, NEW w \in Ws, Makes(e, w)' PROVE e # c /\ Makes(e, w) /\ job'[e] = job[e]
      BY <1>2, <3>2 DEF Makes, OnlyJob
    <3>3. ASSUME NEW e \in Conv, NEW w \in Ws, Makes(e, w)'
          PROVE  /\ index'[w] = None
                 /\ dir'[w] # None => dir'[w] = job'[e].cwd
                 /\ \A f \in Conv : At(f, w)' => f = e
      BY <1>1, <2>1, <3>1, <3>2, <3>3, NoneIsNone DEF DirsAgree, Live
    <3>4. ASSUME NEW e \in Conv, NEW w \in Ws, At(e, w)', index'[w] # None
          PROVE  index'[w] = job'[e].cwd
      BY <1>1, <1>2, <2>1, <3>1, <3>4 DEF DirsAgree
    <3> QED BY <1>1, <2>1, <3>3, <3>4 DEF DirsAgree, Live
  <2>5. InPlace'
    <3> SUFFICES ASSUME NEW e \in Conv, job'[e].of # None, job'[e].by # "worktree"
                 PROVE  job'[e].cwd = job'[job'[e].of].cwd
      BY DEF InPlace
    <3>1. CASE e = c
      BY <1>1, <1>2, <1>3, <1>4, <2>1, <3>1 DEF OnlyJob
    <3>2. CASE e # c
      <4>1. job'[e] = job[e] /\ job[e].of \in Conv
        BY <1>2, <3>2, RowsAssumption DEF OnlyJob, Types, JobType, Jobs
      <4>2. job[job[e].of].stage \in Entered
        BY <4>1 DEF RowsOfSpawns
      <4> QED BY <1>2, <1>3, <2>1, <4>1, <4>2 DEF OnlyJob, InPlace
    <3> QED BY <3>1, <3>2
  <2> QED BY <2>3, <2>4, <2>5
<1> QED BY <1>5, <1>6, <1>7, <1>8

\* A workspace herdr makes was never there: no row, no event, no request and no
\* other spawn is about it.
LEMMA CreatesKeeps ==
  ASSUME Types, Kept, ClosingGone, NEW c \in Conv, NEW w \in Ws, NEW d \in Dir, Creates(c, w, d)
  PROVE  Kept' /\ ClosingGone'
<1> USE DEF Kept
<1>1. /\ job[c].stage = "asked" /\ job[c].by # "pane" /\ up /\ ~Begun(w)
      /\ UNCHANGED <<up, closed, index, agents, resumable, call, missed, overtaken, crossed, torn>>
      /\ job[c].by # "worktree" => d = job[c].cwd
  BY DEF Creates, channel, stores, history, Begun, Used
<1>2. /\ OnlyJob(c) /\ job'[c].stage = "made" /\ job'[c].by = job[c].by
      /\ job'[c].pane = RootOf(w) /\ job'[c].cwd = d /\ job'[c].of = job[c].of
  BY CreatesEffect DEF Types
<1>3. RootOf(w) \in Pane /\ WsOf(RootOf(w)) = w
  BY PaneNames
<1>4. \A p \in Pane : runs'[p] = IF p = RootOf(w) THEN "shell" ELSE runs[p]
  BY <1>3 DEF Creates, Types, HerdrType
<1>5. \A v \in Ws : dir'[v] = IF v = w THEN d ELSE dir[v]
  BY DEF Creates, Types, HerdrType
<1>6. /\ \A p \in Pane : Used(p)' <=> Used(p) \/ p = RootOf(w)
      /\ \A v \in Ws : Begun(v)' <=> Begun(v) \/ v = w
  <2>1. \A p \in Pane : Used(p)' <=> Used(p) \/ p = RootOf(w)
    BY <1>4 DEF Used
  <2>2. \A v \in Ws : RootOf(v) \in Pane /\ (RootOf(v) = RootOf(w) <=> v = w)
    BY PaneNames DEF RootOf
  <2> QED BY <2>1, <2>2 DEF Begun, Used, RootOf
<1>7. job[c].stage \notin Entered /\ job'[c].stage \notin Entered
  BY <1>1, <1>2 DEF Entered
<1>8. RowsOfSpawns' /\ ArchiveIsExact'
  <2>1. job[c].of # None => job[c].of \in Conv /\ job[job[c].of].stage \in Entered
    BY RowsAssumption DEF RowsOfSpawns, Types, JobType, Jobs
  <2> QED BY <1>1, <1>2, <1>7, <2>1, SpawnMoves
<1>9. RowsFollowHerdr'
  BY <1>1, <1>5, NoneIsNone DEF RowsFollowHerdr, Live
<1>10. ~Live(w) /\ w \notin closed /\ (Undisturbed => index[w] = None)
  BY <1>1 DEF OnceOnly
<1>11. OnceOnly'
  BY <1>1, <1>5, <1>6, <1>10 DEF OnceOnly, Live, Undisturbed, Types, ChannelType
<1>12. ClosingGone'
  <2> SUFFICES ASSUME Undisturbed, NEW k \in Call, Closing(k)
               PROVE  dir'[CallWs(k)] = None /\ Begun(CallWs(k))'
    BY <1>1 DEF ClosingGone, Undisturbed, Closing, CallWs, Live, Begun, Used, RootOf
  <2>1. CallWs(k) \in Ws
    BY PaneNames DEF Types, PanesKnown, Closing, CallWs
  <2>2. dir[CallWs(k)] = None /\ Begun(CallWs(k))
    BY <1>1 DEF ClosingGone, Live
  <2>3. CallWs(k) # w /\ call'[k] = call[k]
    BY <1>1, <2>2
  <2>4. Begun(CallWs(k))'
    BY <1>1, <1>6, <2>1, <2>2 DEF Begun, Used, RootOf, CallWs
  <2> QED BY <1>5, <2>1, <2>2, <2>3, <2>4
<1>13. Spawns'
  <2> SUFFICES ASSUME Undisturbed' PROVE (PanesHeld /\ DirsAgree /\ InPlace)'
    BY DEF Spawns
  <2>1. Undisturbed /\ PanesHeld /\ DirsAgree /\ InPlace
    BY <1>1 DEF Spawns, Undisturbed
  <2>2. InPlace'
    BY <1>1, <1>2, <1>7, <2>1, SpawnInPlace
  <2>3. \A e \in Conv : job[e].stage \in Held \/ (job[e].stage = "asked" /\ job[e].by = "pane")
          => /\ job[e].pane \in Pane /\ WsOf(job[e].pane) \in Ws /\ WsOf(job[e].pane) # w
             /\ job[e].stage \in Held => Used(job[e].pane) /\ job[e].pane # RootOf(w)
    BY <1>1, <2>1, PaneNames DEF Types, PanesKnown, PanesHeld, Begun
  <2>4. PanesHeld'
    <3>1. ASSUME NEW e \in Conv, job'[e].stage \in Held
          PROVE  /\ Used(job[e].pane)' /\ Begun(WsOf(job[e].pane))'
                 /\ \A f \in Conv : job'[f].stage \in Held /\ job'[f].pane = job'[e].pane => f = e
                 /\ job'[e].stage \in {"started", "recorded", "late"} /\ Occupied(job[e].pane)'
                      => runs'[job'[e].pane] = e
      <4>1. CASE e = c
        <5>1. Used(job[e].pane)' /\ Begun(WsOf(job[e].pane))'
          BY <1>2, <1>3, <1>6, <4>1 DEF Used, Begun, RootOf
        <5> QED BY <1>2, <2>3, <4>1, <5>1 DEF OnlyJob
      <4>2. CASE e # c
        <5>1. job'[e] = job[e] /\ job[e].stage \in Held
          BY <1>2, <3>1, <4>2 DEF OnlyJob
        <5>2. Used(job[e].pane)' /\ Begun(WsOf(job[e].pane))'
          BY <1>6, <2>1, <2>3, <5>1 DEF PanesHeld, Used, Begun, RootOf
        <5>3. \A f \in Conv : job'[f].stage \in Held /\ job'[f].pane = job'[e].pane => f = e
          BY <1>2, <2>1, <2>3, <5>1 DEF PanesHeld, OnlyJob
        <5>4. job'[e].stage \in {"started", "recorded", "late"} /\ Occupied(job[e].pane)'
                      => runs'[job'[e].pane] = e
          BY <1>4, <2>1, <2>3, <5>1 DEF PanesHeld, Occupied
        <5> QED BY <5>2, <5>3, <5>4
      <4> QED BY <4>1, <4>2
    <3>2. ASSUME NEW e \in Conv, job'[e].stage = "asked", job'[e].by = "pane"
          PROVE  Begun(WsOf(job[e].pane))'
      <4>1. e # c /\ job'[e] = job[e]
        BY <1>2, <3>2 DEF OnlyJob
      <4> QED BY <1>1, <1>6, <2>1, <2>3, <3>2, <4>1 DEF PanesHeld, Begun, Used, RootOf
    <3> QED BY <3>1, <3>2 DEF PanesHeld, Held
  <2>5. DirsAgree'
    <3>1. ASSUME NEW e \in Conv, NEW v \in Ws, At(e, v)'
          PROVE  (e = c /\ v = w) \/ (e # c /\ v # w /\ At(e, v) /\ job'[e] = job[e])
      BY <1>2, <1>3, <2>3, <3>1 DEF At, OnlyJob, Held
    <3>2. ASSUME NEW e \in Conv, NEW v \in Ws, Makes(e, v)'
          PROVE  (e = c /\ v = w) \/ (e # c /\ v # w /\ Makes(e, v) /\ job'[e] = job[e])
      BY <1>2, <1>3, <2>3, <3>2 DEF Makes, OnlyJob, Held
    <3>3. ASSUME NEW e \in Conv, NEW v \in Ws, Makes(e, v)'
          PROVE  /\ index'[v] = None
                 /\ dir'[v] # None => dir'[v] = job'[e].cwd
                 /\ \A f \in Conv : At(f, v)' => f = e
      BY <1>1, <1>2, <1>5, <1>10, <2>1, <3>1, <3>2, <3>3 DEF DirsAgree, Live
    <3>4. ASSUME NEW e \in Conv, NEW v \in Ws, At(e, v)', index'[v] # None
          PROVE  index'[v] = job'[e].cwd
      BY <1>1, <1>10, <2>1, <3>1, <3>4 DEF DirsAgree
    <3>5. ASSUME NEW v \in Ws, index'[v] # None, dir'[v] # None PROVE index'[v] = dir'[v]
      BY <1>1, <1>5, <1>10, <2>1, <3>5 DEF DirsAgree, Live
    <3> QED BY <3>3, <3>4, <3>5 DEF DirsAgree, Live
  <2> QED BY <2>2, <2>4, <2>5
<1> QED BY <1>8, <1>9, <1>11, <1>12, <1>13

\* A pane herdr splits off belongs to no one yet, in a workspace that is live.
LEMMA SplitsKeeps ==
  ASSUME Types, Kept, ClosingGone, NEW c \in Conv, NEW p \in Pane, Splits(c, p)
  PROVE  Kept' /\ ClosingGone'
<1> USE DEF Kept
<1>1. /\ job[c].stage = "asked" /\ job[c].by = "pane" /\ ~Used(p)
      /\ WsOf(p) = WsOf(job[c].pane) /\ Live(WsOf(p)) /\ WsOf(p) \in Ws
      /\ UNCHANGED <<up, dir, closed, index, agents, resumable, call, missed, overtaken, crossed, torn>>
  BY PaneNames DEF Splits, channel, stores, history, Used
<1>2. /\ OnlyJob(c) /\ job'[c].stage = "made" /\ job'[c].by = job[c].by
      /\ job'[c].pane = p /\ job'[c].cwd = job[c].cwd /\ job'[c].of = job[c].of
  BY SplitsEffect DEF Types
<1>3. \A q \in Pane : runs'[q] = IF q = p THEN "shell" ELSE runs[q]
  BY DEF Splits, Types, HerdrType
<1>4. /\ \A q \in Pane : Used(q)' <=> Used(q) \/ q = p
      /\ \A v \in Ws : Begun(v) => Begun(v)'
  BY <1>3, PaneNames DEF Begun, Used, RootOf
<1>5. job[c].stage \notin Entered /\ job'[c].stage \notin Entered
  BY <1>1, <1>2 DEF Entered
<1>6. RowsOfSpawns' /\ ArchiveIsExact'
  <2>1. job[c].of # None => job[c].of \in Conv /\ job[job[c].of].stage \in Entered
    BY RowsAssumption DEF RowsOfSpawns, Types, JobType, Jobs
  <2> QED BY <1>1, <1>2, <1>5, <2>1, SpawnMoves
<1>7. RowsFollowHerdr' /\ OnceOnly'
  BY <1>1, <1>4 DEF RowsFollowHerdr, OnceOnly, Live, Undisturbed, Types, ChannelType
<1>8. ClosingGone'
  BY <1>1, <1>4, ClosingKeep DEF Closing
<1>9. Spawns'
  <2> SUFFICES ASSUME Undisturbed' PROVE (PanesHeld /\ DirsAgree /\ InPlace)'
    BY DEF Spawns
  <2>1. Undisturbed /\ PanesHeld /\ DirsAgree /\ InPlace
    BY <1>1 DEF Spawns, Undisturbed
  <2>2. InPlace'
    BY <1>2, <1>5, <2>1, SpawnInPlace
  <2>3. \A e \in Conv : job[e].stage \in Held \/ (job[e].stage = "asked" /\ job[e].by = "pane")
          => /\ job[e].pane \in Pane /\ WsOf(job[e].pane) \in Ws
             /\ job[e].stage \in Held => Used(job[e].pane) /\ job[e].pane # p
    BY <1>1, <2>1, PaneNames DEF Types, PanesKnown, PanesHeld
  <2>4. PanesHeld'
    <3>1. ASSUME NEW e \in Conv, job'[e].stage \in Held
          PROVE  /\ Used(job[e].pane)' /\ Begun(WsOf(job[e].pane))'
                 /\ \A f \in Conv : job'[f].stage \in Held /\ job'[f].pane = job'[e].pane => f = e
                 /\ job'[e].stage \in {"started", "recorded", "late"} /\ Occupied(job[e].pane)'
                      => runs'[job'[e].pane] = e
      <4>1. CASE e = c
        <5>1. Used(job[e].pane)' /\ Begun(WsOf(job[e].pane))'
          BY <1>1, <1>2, <1>4, <4>1 DEF OnceOnly, Used, Begun, RootOf
        <5> QED BY <1>2, <2>3, <4>1, <5>1 DEF OnlyJob
      <4>2. CASE e # c
        <5>1. job'[e] = job[e] /\ job[e].stage \in Held
          BY <1>2, <3>1, <4>2 DEF OnlyJob
        <5>2. Used(job[e].pane)' /\ Begun(WsOf(job[e].pane))'
          BY <1>4, <2>1, <2>3, <5>1 DEF PanesHeld, Used, Begun, RootOf
        <5>3. \A f \in Conv : job'[f].stage \in Held /\ job'[f].pane = job'[e].pane => f = e
          BY <1>2, <2>1, <2>3, <5>1 DEF PanesHeld, OnlyJob
        <5>4. job'[e].stage \in {"started", "recorded", "late"} /\ Occupied(job[e].pane)'
                      => runs'[job'[e].pane] = e
          BY <1>3, <2>1, <2>3, <5>1 DEF PanesHeld, Occupied
        <5> QED BY <5>2, <5>3, <5>4
      <4> QED BY <4>1, <4>2
    <3>2. ASSUME up', NEW e \in Conv, job'[e].stage = "asked", job'[e].by = "pane"
          PROVE  Begun(WsOf(job[e].pane))'
      <4>1. e # c /\ job'[e] = job[e]
        BY <1>2, <3>2 DEF OnlyJob
      <4> QED BY <1>1, <1>4, <2>1, <2>3, <3>2, <4>1 DEF PanesHeld, Begun, Used, RootOf
    <3> QED BY <3>1, <3>2 DEF PanesHeld, Held
  <2>5. DirsAgree'
    <3>1. ASSUME NEW e \in Conv, NEW v \in Ws, At(e, v)' PROVE At(e, v) /\ job'[e].cwd = job[e].cwd
      BY <1>1, <1>2, <3>1 DEF At, OnlyJob, Held
    <3>2. ASSUME NEW e \in Conv, NEW v \in Ws, Makes(e, v)'
          PROVE  Makes(e, v) /\ job'[e].cwd = job[e].cwd
      BY <1>1, <1>2, <3>2 DEF Makes, OnlyJob
    <3> QED BY <1>1, <2>1, <3>1, <3>2 DEF DirsAgree, Live
  <2> QED BY <2>2, <2>4, <2>5
<1> QED BY <1>6, <1>7, <1>8, <1>9

\* Herdr's answer about a new workspace: no row was there, and no one joined it.
LEMMA PlacedKeeps ==
  ASSUME Types, Kept, ClosingGone, NEW c \in Conv, Placed(c) PROVE Kept' /\ ClosingGone'
<1> USE DEF Kept
<1> DEFINE w == WsOf(job[c].pane)
<1>1. /\ job[c].stage = "made" /\ job[c].pane \in Pane /\ w \in Ws /\ job[c].cwd \in Dir
      /\ UNCHANGED <<up, dir, runs, closed, agents, resumable, call, missed, crossed, torn>>
  BY PaneNames DEF Placed, herdr, channel, Types, PanesKnown, Held
<1>2. job'[c].stage = "placed" /\ SameButStage(c) /\ OnlyJob(c)
  BY AdvancesEffect DEF Placed, JobStage, Types
<1>3. IF job[c].by = "pane" THEN UNCHANGED <<index, overtaken>>
      ELSE /\ \A v \in Ws : index'[v] = IF v = w THEN job[c].cwd ELSE index[v]
           /\ overtaken' = IF Live(w) \/ w \in closed THEN overtaken ELSE overtaken \cup {w}
  BY DEF Placed, IndexedDir, Types, StoresType
<1>4. job[c].by # "pane" => Makes(c, w)
  BY <1>1 DEF Makes
<1> HIDE DEF w
<1>5. \A v \in Ws : index[v] # None => index'[v] # None
  BY <1>1, <1>3, NoneIsNone
<1>6. job[c].stage \notin Entered /\ job'[c].stage \notin Entered
  BY <1>1, <1>2 DEF Entered
<1>7. RowsOfSpawns' /\ ArchiveIsExact'
  <2>1. job[c].of # None => job[c].of \in Conv /\ job[job[c].of].stage \in Entered
    BY RowsAssumption DEF RowsOfSpawns, Types, JobType, Jobs
  <2> QED BY <1>1, <1>2, <1>5, <1>6, <2>1, SpawnMoves DEF SameButStage
<1>8. RowsFollowHerdr'
  BY <1>1, <1>3 DEF RowsFollowHerdr, Live
<1>9. Undisturbed => Begun(w)
  BY <1>1 DEF Spawns, PanesHeld, Held, w
<1>10. OnceOnly'
  BY <1>1, <1>3, <1>9 DEF OnceOnly, Live, Undisturbed, Begun, Used, RootOf
<1>11. ClosingGone'
  BY <1>1, CallsStay
<1>12. Spawns'
  <2> SUFFICES ASSUME Undisturbed' PROVE (PanesHeld /\ DirsAgree /\ InPlace)'
    BY DEF Spawns
  <2>1. Undisturbed /\ PanesHeld /\ DirsAgree /\ InPlace
    BY <1>1 DEF Spawns, Undisturbed
  <2>2. InPlace'
    BY <1>2, <1>6, <2>1, SpawnInPlace DEF SameButStage
  <2>3. \A e \in Conv : /\ SameButStage(e)
                        /\ job'[e].stage # "placed" => job'[e].stage = job[e].stage
                        /\ job'[e].stage = "placed" => job[e].stage \in {"made", "placed"}
    BY <1>1, <1>2 DEF OnlyJob, SameButStage
  <2>4. PanesHeld'
    BY <1>1, <2>1, <2>3 DEF PanesHeld, Held, Used, Begun, RootOf, Occupied, SameButStage
  <2>5. DirsAgree'
    <3>1. ASSUME NEW e \in Conv, NEW v \in Ws, At(e, v)' PROVE At(e, v) /\ job'[e].cwd = job[e].cwd
      BY <2>3, <3>1 DEF At, SameButStage, Held
    <3>2. ASSUME NEW e \in Conv, NEW v \in Ws, Makes(e, v)'
          PROVE  Makes(e, v) /\ job'[e].cwd = job[e].cwd /\ e # c
      BY <1>2, <2>3, <3>2 DEF Makes, SameButStage
    <3>3. At(c, w)
      BY <1>1 DEF At, Held, w
    <3>4. job[c].by # "pane" =>
            /\ dir[w] # None => dir[w] = job[c].cwd
            /\ \A e \in Conv : At(e, w) => e = c
      BY <1>1, <1>4, <2>1 DEF DirsAgree, Live
    <3>5. ASSUME NEW e \in Conv, NEW v \in Ws, Makes(e, v)' PROVE index'[v] = index[v]
      <4>1. Makes(e, v) /\ e # c /\ At(e, v)
        BY <3>2, <3>5 DEF Makes, At, Held
      <4> QED BY <1>3, <3>4, <4>1
    <3>6. ASSUME NEW e \in Conv, NEW v \in Ws, Makes(e, v)'
          PROVE  /\ index'[v] = None
                 /\ dir'[v] # None => dir'[v] = job'[e].cwd
                 /\ \A f \in Conv : At(f, v)' => f = e
      BY <1>1, <2>1, <3>1, <3>2, <3>5, <3>6 DEF DirsAgree, Live
    <3>7. ASSUME NEW e \in Conv, NEW v \in Ws, At(e, v)', index'[v] # None
          PROVE  index'[v] = job'[e].cwd
      BY <1>1, <1>3, <2>1, <3>1, <3>4, <3>7 DEF DirsAgree
    <3>8. ASSUME NEW v \in Ws, index'[v] # None, dir'[v] # None PROVE index'[v] = dir'[v]
      BY <1>1, <1>3, <2>1, <3>4, <3>8 DEF DirsAgree, Live
    <3> QED BY <3>6, <3>7, <3>8 DEF DirsAgree, Live
  <2> QED BY <2>2, <2>4, <2>5
<1> QED BY <1>7, <1>8, <1>10, <1>11, <1>12

LEMMA AgentStartsKeeps ==
  ASSUME Types, Kept, ClosingGone, NEW c \in Conv, AgentStarts(c) PROVE Kept' /\ ClosingGone'
<1> USE DEF Kept
<1>1. /\ job[c].stage = "placed" /\ job[c].pane \in Pane /\ runs[job[c].pane] = "shell"
      /\ UNCHANGED <<up, dir, closed, index, agents, resumable, call, missed, overtaken, crossed, torn>>
  BY DEF AgentStarts, channel, stores, history, Types, PanesKnown, Held
<1>2. job'[c].stage = "started" /\ SameButStage(c) /\ OnlyJob(c)
  BY AdvancesEffect DEF AgentStarts, JobStage, Types
<1>3. \A p \in Pane : runs'[p] = IF p = job[c].pane THEN c ELSE runs[p]
  BY DEF AgentStarts, Types, HerdrType
<1>4. /\ \A p \in Pane : Used(p)' <=> Used(p)
      /\ \A w \in Ws : Begun(w)' <=> Begun(w)
  <2>1. c # "unused"
    BY RowsAssumption
  <2> QED BY <1>1, <1>3, <2>1, PaneNames DEF Begun, Used, RootOf
<1>5. job[c].stage \notin Entered /\ job'[c].stage \notin Entered
  BY <1>1, <1>2 DEF Entered
<1>6. RowsOfSpawns' /\ ArchiveIsExact'
  <2>1. job[c].of # None => job[c].of \in Conv /\ job[job[c].of].stage \in Entered
    BY RowsAssumption DEF RowsOfSpawns, Types, JobType, Jobs
  <2> QED BY <1>1, <1>2, <1>5, <2>1, SpawnMoves DEF SameButStage
<1>7. RowsFollowHerdr' /\ OnceOnly'
  BY <1>1, <1>4 DEF RowsFollowHerdr, OnceOnly, Live, Undisturbed, Types, ChannelType
<1>8. ClosingGone'
  BY <1>1, <1>4, ClosingKeep DEF Closing
<1>9. Spawns'
  <2> SUFFICES ASSUME Undisturbed' PROVE (PanesHeld /\ DirsAgree /\ InPlace)'
    BY DEF Spawns
  <2>1. Undisturbed /\ PanesHeld /\ DirsAgree /\ InPlace
    BY <1>1 DEF Spawns, Undisturbed
  <2>2. InPlace'
    BY <1>2, <1>5, <2>1, SpawnInPlace DEF SameButStage
  <2>3. \A e \in Conv : /\ SameButStage(e)
                        /\ e # c => job'[e].stage = job[e].stage
    BY <1>2 DEF OnlyJob, SameButStage
  <2>4. \A e \in Conv : job[e].stage \in Held \/ (job[e].stage = "asked" /\ job[e].by = "pane")
                       => job[e].pane \in Pane /\ WsOf(job[e].pane) \in Ws
    BY PaneNames DEF Types, PanesKnown
  <2>5. PanesHeld'
    <3>1. ASSUME NEW e \in Conv, job'[e].stage \in Held
          PROVE  /\ job[e].stage \in Held /\ Used(job[e].pane)' /\ Begun(WsOf(job[e].pane))'
                 /\ \A f \in Conv : job'[f].stage \in Held /\ job'[f].pane = job'[e].pane => f = e
      <4>1. \A f \in Conv : job'[f].stage \in Held => job[f].stage \in Held
        BY <1>1, <1>2, <2>3 DEF Held
      <4>2. job'[e].pane = job[e].pane
        BY <2>3 DEF SameButStage
      <4>3. Used(job[e].pane)' /\ Begun(WsOf(job[e].pane))'
        BY <1>4, <2>1, <2>4, <3>1, <4>1, <4>2 DEF PanesHeld, Used, Begun, RootOf
      <4> QED BY <2>1, <2>3, <3>1, <4>1, <4>3 DEF PanesHeld, SameButStage
    <3>2. ASSUME NEW e \in Conv, job'[e].stage \in {"started", "recorded", "late"},
                 Occupied(job[e].pane)'
          PROVE  runs'[job'[e].pane] = e
      <4>1. job'[e].stage \in Held
        BY <3>2 DEF Held
      <4>2. job[e].stage \in Held /\ job'[e].pane = job[e].pane
        BY <2>3, <3>1, <4>1 DEF SameButStage
      <4>3. CASE e = c
        BY <1>1, <1>3, <4>2, <4>3
      <4>4. CASE e # c
        <5>1. job[e].pane # job[c].pane /\ job[e].pane \in Pane
          BY <1>1, <2>1, <2>4, <4>2, <4>4 DEF PanesHeld, Held
        <5> QED BY <1>3, <2>1, <2>3, <3>2, <4>2, <4>4, <5>1 DEF PanesHeld, Occupied
      <4> QED BY <4>3, <4>4
    <3>3. ASSUME up', NEW e \in Conv, job'[e].stage = "asked", job'[e].by = "pane"
          PROVE  Begun(WsOf(job[e].pane))'
      <4>1. e # c /\ job'[e] = job[e]
        BY <1>2, <3>3 DEF OnlyJob
      <4> QED BY <1>1, <1>4, <2>1, <2>4, <3>3, <4>1 DEF PanesHeld, Begun, Used, RootOf
    <3> QED BY <3>1, <3>2, <3>3 DEF PanesHeld, Held
  <2>6. DirsAgree'
    <3>1. ASSUME NEW e \in Conv, NEW v \in Ws, At(e, v)' PROVE At(e, v) /\ job'[e].cwd = job[e].cwd
      BY <1>1, <1>2, <2>3, <3>1 DEF At, SameButStage, Held
    <3>2. ASSUME NEW e \in Conv, NEW v \in Ws, Makes(e, v)'
          PROVE  Makes(e, v) /\ job'[e].cwd = job[e].cwd
      BY <1>2, <2>3, <3>2 DEF Makes, SameButStage
    <3> QED BY <1>1, <2>1, <3>1, <3>2 DEF DirsAgree, Live
  <2> QED BY <2>2, <2>5, <2>6
<1> QED BY <1>6, <1>7, <1>8, <1>9

\* The row of an agent goes where no other spawn has one.
LEMMA AgentRecordedKeeps ==
  ASSUME Types, Kept, ClosingGone, NEW c \in Conv, AgentRecorded(c) PROVE Kept' /\ ClosingGone'
<1> USE DEF Kept
<1>1. /\ job[c].stage = "started" /\ job[c].pane \in Pane /\ WsOf(job[c].pane) \in Ws
      /\ UNCHANGED <<up, dir, runs, closed, index, resumable, call, missed, overtaken, crossed, torn>>
  BY PaneNames DEF AgentRecorded, herdr, channel, history, Types, PanesKnown, Held
<1>2. /\ job'[c].stage = IF index[WsOf(job[c].pane)] = None THEN "late" ELSE "recorded"
      /\ SameButStage(c) /\ OnlyJob(c)
  BY AdvancesEffect DEF AgentRecorded, JobStage, Types
<1>3. \A p \in Pane : agents'[p] = IF p = job[c].pane THEN c ELSE agents[p]
  BY DEF AgentRecorded, Types, StoresType
<1>4. \A e \in Conv : /\ SameButStage(e)
                      /\ e # c => job'[e] = job[e]
                      /\ job[e].stage \in Entered => job'[e] = job[e]
  BY <1>1, <1>2 DEF OnlyJob, SameButStage, Entered
<1>5. RowsFollowHerdr' /\ OnceOnly'
  BY <1>1 DEF RowsFollowHerdr, OnceOnly, Live, Undisturbed, Begun, Used, RootOf
<1>6. ClosingGone'
  BY <1>1, CallsStay
<1>7. RowsOfSpawns'
  <2>1. ASSUME NEW p \in Pane, agents'[p] # None
        PROVE  /\ job'[agents'[p]].stage \in {"recorded", "late"} /\ job'[agents'[p]].pane = p
               /\ index'[WsOf(p)] = None => job'[agents'[p]].stage = "late"
    <3>1. CASE p = job[c].pane
      BY <1>1, <1>2, <1>3, <3>1 DEF SameButStage
    <3>2. CASE p # job[c].pane
      <4>1. agents'[p] = agents[p] /\ agents[p] \in Conv
        BY <1>3, <2>1, <3>2 DEF Types, StoresType
      <4>2. job[agents[p]].stage \in Entered /\ job'[agents[p]] = job[agents[p]]
        BY <1>4, <2>1, <4>1 DEF RowsOfSpawns, Entered
      <4> QED BY <1>1, <2>1, <4>1, <4>2 DEF RowsOfSpawns
    <3> QED BY <3>1, <3>2
  <2>2. ASSUME NEW d \in Conv, resumable'[d] # None PROVE job'[d].stage \in Entered
    BY <1>1, <1>4, <2>2 DEF RowsOfSpawns
  <2>3. ASSUME NEW d \in Conv, job'[d].of # None PROVE job'[job'[d].of].stage \in Entered
    <3>1. job'[d].of = job[d].of /\ job[d].of \in Conv
      BY <1>4, <2>3, RowsAssumption DEF SameButStage, Types, JobType, Jobs
    <3> QED BY <1>4, <2>3, <3>1 DEF RowsOfSpawns
  <2> QED BY <2>1, <2>2, <2>3 DEF RowsOfSpawns, Entered
<1>8. ASSUME Undisturbed, NEW p \in Pane, agents[p] # None, p = job[c].pane PROVE FALSE
  <2>1. job[agents[p]].stage \in Held /\ job[agents[p]].pane = p /\ agents[p] \in Conv /\ agents[p] # c
    BY <1>1, <1>8 DEF RowsOfSpawns, Held, Types, StoresType
  <2>2. job[c].stage \in Held
    BY <1>1 DEF Held
  <2> QED BY <1>8, <2>1, <2>2 DEF Spawns, PanesHeld
<1>9. ArchiveIsExact'
  <2> SUFFICES ASSUME Undisturbed, NEW d \in Pinned
               PROVE  /\ ~torn' /\ job'[d].stage = "recorded" =>
                            resumable'[d] # None \/ \E p \in Pane : agents'[p] = d
                      /\ resumable'[d] # None => resumable'[d] = job'[d].cwd
    BY <1>1 DEF ArchiveIsExact, NoConversationLost, ArchivedWhereItRan, Undisturbed
  <2>1. d \in Conv /\ d # None
    BY RowsAssumption
  <2>2. resumable'[d] # None => resumable'[d] = job'[d].cwd
    BY <1>1, <1>4, <2>1 DEF ArchiveIsExact, ArchivedWhereItRan, SameButStage
  <2>3. ASSUME ~torn', job'[d].stage = "recorded"
        PROVE  resumable'[d] # None \/ \E p \in Pane : agents'[p] = d
    <3>1. CASE d = c
      BY <1>1, <1>3, <3>1
    <3>2. CASE d # c
      BY <1>1, <1>3, <1>4, <1>8, <2>1, <2>3, <3>2 DEF ArchiveIsExact, NoConversationLost
    <3> QED BY <3>1, <3>2
  <2> QED BY <2>2, <2>3
<1>10. Spawns'
  <2> SUFFICES ASSUME Undisturbed' PROVE (PanesHeld /\ DirsAgree /\ InPlace)'
    BY DEF Spawns
  <2>1. Undisturbed /\ PanesHeld /\ DirsAgree /\ InPlace
    BY <1>1 DEF Spawns, Undisturbed
  <2>2. \A e \in Conv :
          /\ SameButStage(e)
          /\ job'[e].stage = job[e].stage
               \/ (job[e].stage = "started" /\ job'[e].stage \in {"recorded", "late"})
    BY <1>1, <1>2 DEF OnlyJob, SameButStage
  <2>3. PanesHeld'
    BY <1>1, <2>1, <2>2 DEF PanesHeld, Held, Used, Begun, RootOf, Occupied, SameButStage
  <2>4. DirsAgree'
    <3>1. ASSUME NEW e \in Conv, NEW v \in Ws, At(e, v)' PROVE At(e, v) /\ job'[e].cwd = job[e].cwd
      BY <2>2, <3>1 DEF At, SameButStage, Held
    <3>2. ASSUME NEW e \in Conv, NEW v \in Ws, Makes(e, v)'
          PROVE  Makes(e, v) /\ job'[e].cwd = job[e].cwd
      BY <2>2, <3>2 DEF Makes, SameButStage
    <3> QED BY <1>1, <2>1, <3>1, <3>2 DEF DirsAgree, Live
  <2>5. InPlace'
    <3> SUFFICES ASSUME NEW e \in Conv, job'[e].of # None, job'[e].by # "worktree"
                 PROVE  job'[e].cwd = job'[job'[e].of].cwd
      BY DEF InPlace
    <3>1. job'[e].of = job[e].of /\ job[e].of \in Conv
      BY <2>2, RowsAssumption DEF SameButStage, Types, JobType, Jobs
    <3> QED BY <2>1, <2>2, <3>1 DEF InPlace, SameButStage
  <2> QED BY <2>3, <2>4, <2>5
<1> QED BY <1>5, <1>6, <1>7, <1>9, <1>10
-----------------------------------------------------------------------------
(* Removal, teardown and the next session *)

\* The conversations of a removed checkout are given up with their rows.
LEMMA RemoveAnsweredKeeps ==
  ASSUME Types, Kept, ClosingGone, NEW k \in Call, RemoveAnswered(k)
  PROVE  Kept' /\ ClosingGone'
<1> USE DEF Kept
<1> DEFINE w == CallWs(k)
           S == AgentsIn(w)
<1>1. /\ UNCHANGED <<up, dir, runs, closed, resumable, missed, overtaken, crossed, torn>>
      /\ Goes(k, "over", call[k].pane) /\ call[k].pane \in Pane /\ w \in Ws
  BY PaneNames DEF RemoveAnswered, herdr, channel, history, Types, PanesKnown, CallWs
<1>2. /\ \A v \in Ws : index'[v] = IF v = w THEN None ELSE index[v]
      /\ \A p \in Pane : agents'[p] = IF WsOf(p) = w THEN None ELSE agents[p]
  BY <1>1, WithoutWs DEF RemoveAnswered, Types, StoresType
<1>3. \A c \in Conv : c \in S <=> \E p \in Pane : WsOf(p) = w /\ agents[p] = c
  BY NoneIsNone DEF AgentsIn, PanesOf
<1>4. \A c \in Conv : /\ SameButStage(c)
                      /\ c \in S => job'[c].stage = "forsaken"
                      /\ c \notin S => job'[c] = job[c]
  <2>1. job' = [c \in Conv |-> IF c \in S THEN [job[c] EXCEPT !.stage = "forsaken"] ELSE job[c]]
    BY DEF RemoveAnswered
  <2>2. "forsaken" \in JobStage
    BY DEF JobStage
  <2> HIDE DEF S
  <2> QED BY <2>1, <2>2, Marked DEF Types
<1> HIDE DEF S, w
<1>5. ASSUME NEW p \in Pane, agents[p] # None
      PROVE  /\ agents[p] \in Conv /\ job[agents[p]].stage \in {"recorded", "late"}
             /\ job[agents[p]].pane = p /\ (index[WsOf(p)] = None => job[agents[p]].stage = "late")
  BY <1>5 DEF RowsOfSpawns, Types, StoresType
<1>6. \A c \in S : c \in Conv => job[c].stage \in Entered
  BY <1>3, <1>5, NoneIsNone DEF Entered
<1>7. \A c \in Conv : job[c].stage \in Entered => job'[c].stage \in Entered
  BY <1>4 DEF Entered
<1>8. RowsFollowHerdr' /\ OnceOnly'
  BY <1>1, <1>2 DEF RowsFollowHerdr, OnceOnly, Live, Undisturbed, Begun, Used, RootOf
<1>9. ClosingGone'
  BY <1>1, CallGoes
<1>10. RowsOfSpawns'
  <2>1. ASSUME NEW p \in Pane, agents'[p] # None
        PROVE  /\ job'[agents'[p]].stage \in {"recorded", "late"} /\ job'[agents'[p]].pane = p
               /\ index'[WsOf(p)] = None => job'[agents'[p]].stage = "late"
    <3>1. WsOf(p) # w /\ agents'[p] = agents[p] /\ index'[WsOf(p)] = index[WsOf(p)]
      BY <1>2, <2>1, PaneNames
    <3>2. agents[p] \notin S
      BY <1>3, <1>5, <2>1, <3>1
    <3> QED BY <1>4, <1>5, <2>1, <3>1, <3>2
  <2>2. ASSUME NEW d \in Conv, resumable'[d] # None PROVE job'[d].stage \in Entered
    BY <1>1, <1>7, <2>2 DEF RowsOfSpawns
  <2>3. ASSUME NEW d \in Conv, job'[d].of # None PROVE job'[job'[d].of].stage \in Entered
    <3>1. job'[d].of = job[d].of /\ job[d].of \in Conv
      BY <1>4, <2>3, RowsAssumption DEF SameButStage, Types, JobType, Jobs
    <3> QED BY <1>7, <2>3, <3>1 DEF RowsOfSpawns
  <2> QED BY <2>1, <2>2, <2>3 DEF RowsOfSpawns, Entered
<1>11. ArchiveIsExact'
  <2> SUFFICES ASSUME Undisturbed, NEW d \in Pinned
               PROVE  /\ ~torn' /\ job'[d].stage = "recorded" =>
                            resumable'[d] # None \/ \E p \in Pane : agents'[p] = d
                      /\ resumable'[d] # None => resumable'[d] = job'[d].cwd
    BY <1>1 DEF ArchiveIsExact, NoConversationLost, ArchivedWhereItRan, Undisturbed
  <2>1. d \in Conv
    BY RowsAssumption
  <2>2. resumable'[d] # None => resumable'[d] = job'[d].cwd
    BY <1>1, <1>4, <2>1 DEF ArchiveIsExact, ArchivedWhereItRan, SameButStage
  <2>3. ASSUME ~torn', job'[d].stage = "recorded"
        PROVE  resumable'[d] # None \/ \E p \in Pane : agents'[p] = d
    <3>1. d \notin S /\ job[d].stage = "recorded"
      BY <1>4, <2>1, <2>3
    <3>2. \A p \in Pane : agents[p] = d => agents'[p] = d
      BY <1>2, <1>3, <2>1, <3>1
    <3> QED BY <1>1, <2>3, <3>1, <3>2 DEF ArchiveIsExact, NoConversationLost
  <2> QED BY <2>2, <2>3
<1>12. Spawns'
  BY <1>1, <1>2, <1>4, SpawnsShrink
<1> QED BY <1>8, <1>9, <1>10, <1>11, <1>12

\* A teardown drops every row; a spawn it does not cross has ended or waits.
LEMMA TeardownKeeps ==
  ASSUME Types, Kept, ClosingGone, Teardown PROVE Kept' /\ ClosingGone'
<1> USE DEF Kept
<1>1. /\ ~up' /\ closed' = {} /\ UNCHANGED torn
      /\ \A w \in Ws : index'[w] = None /\ dir'[w] = None
      /\ \A p \in Pane : agents'[p] = None
      /\ \A c \in Conv : resumable'[c] = None
      /\ crossed' = crossed \cup {c \in Conv : job[c].stage \in {"made", "placed", "started"}}
  BY DEF Teardown, ClearsStores, NoWorkspace, NoAgents, NoArchive
<1>2. \A c \in Conv : /\ SameButStage(c)
                      /\ job'[c].stage = IF job[c].stage \in {"recorded", "late"}
                                         THEN "forsaken" ELSE job[c].stage
  BY TeardownEffect
<1>3. RowsFollowHerdr' /\ OnceOnly' /\ ClosingGone'
  <2>1. \A k \in Call : Closing(k) => CallWs(k) \in Ws
    BY PaneNames DEF Types, PanesKnown, Closing, CallWs
  <2>2. call' = call
    BY DEF Teardown
  <2> QED BY <1>1, <2>1, <2>2 DEF RowsFollowHerdr, OnceOnly, ClosingGone, Live, Closing, CallWs
<1>4. RowsOfSpawns'
  <2>1. ASSUME NEW d \in Conv, job'[d].of # None PROVE job'[job'[d].of].stage \in Entered
    <3>1. job'[d].of = job[d].of /\ job[d].of \in Conv
      BY <1>2, <2>1, RowsAssumption DEF SameButStage, Types, JobType, Jobs
    <3> QED BY <1>2, <2>1, <3>1 DEF RowsOfSpawns, Entered
  <2> QED BY <1>1, <2>1 DEF RowsOfSpawns, Entered
<1>5. ArchiveIsExact'
  <2>1. \A c \in Pinned : c \in Conv
    BY RowsAssumption
  <2> QED BY <1>1, <1>2, <2>1 DEF ArchiveIsExact, NoConversationLost, ArchivedWhereItRan
<1>6. Spawns'
  <2> SUFFICES ASSUME Undisturbed' PROVE (PanesHeld /\ DirsAgree /\ InPlace)'
    BY DEF Spawns
  <2>1. Undisturbed /\ InPlace /\ \A c \in Conv : job[c].stage \notin {"made", "placed", "started"}
    BY <1>1 DEF Spawns, Undisturbed
  <2>2. \A c \in Conv : job'[c].stage \notin Held
    BY <1>2, <2>1 DEF Held
  <2>3. PanesHeld'
    BY <1>1, <2>2 DEF PanesHeld, Held
  <2>4. DirsAgree'
    BY <1>1, <2>2 DEF DirsAgree, Makes, Held, Live
  <2>5. InPlace'
    <3> SUFFICES ASSUME NEW e \in Conv, job'[e].of # None, job'[e].by # "worktree"
                 PROVE  job'[e].cwd = job'[job'[e].of].cwd
      BY DEF InPlace
    <3>1. job'[e].of = job[e].of /\ job[e].of \in Conv
      BY <1>2, RowsAssumption DEF SameButStage, Types, JobType, Jobs
    <3> QED BY <1>2, <2>1, <3>1 DEF InPlace, SameButStage
  <2> QED BY <2>3, <2>4, <2>5
<1> QED BY <1>3, <1>4, <1>5, <1>6

\* Nothing of the old session is under way when the next one starts.
LEMMA ReprovisionKeeps ==
  ASSUME Types, Kept, ClosingGone, Reprovision PROVE Kept' /\ ClosingGone'
<1> USE DEF Kept
<1>1. /\ UNCHANGED <<dir, runs, closed, index, agents, resumable, job, call>>
      /\ UNCHANGED <<missed, overtaken, crossed, torn>>
      /\ \A c \in Conv : job[c].stage \notin {"asked", "made"}
      /\ \A k \in Call : call[k].stage \in {"idle", "over"}
  BY DEF Reprovision, channel, stores, history
<1>2. RowsFollowHerdr' /\ OnceOnly' /\ RowsOfSpawns' /\ ArchiveIsExact'
  BY <1>1 DEF RowsFollowHerdr, OnceOnly, Live, Begun, Used, RootOf, Undisturbed, RowsOfSpawns, Entered,
              ArchiveIsExact, NoConversationLost, ArchivedWhereItRan
<1>3. ClosingGone'
  BY <1>1 DEF ClosingGone, Closing
<1>4. Undisturbed' => PanesHeld' /\ DirsAgree' /\ InPlace'
  BY <1>1 DEF Spawns, Undisturbed, PanesHeld, DirsAgree, InPlace, Held, Used, Begun, RootOf, Occupied,
              Makes, At, Live
<1> QED BY <1>2, <1>3, <1>4 DEF Spawns
-----------------------------------------------------------------------------
(* The inductive invariant *)

LEMMA InitKept == Init => Kept /\ ClosingGone
<1> SUFFICES ASSUME Init PROVE Kept /\ ClosingGone
  OBVIOUS
<1>1. /\ \A w \in Ws : dir[w] = None /\ index[w] = None
      /\ \A p \in Pane : agents[p] = None
      /\ \A c \in Conv : resumable[c] = None /\ job[c].stage = "idle" /\ job[c].of = None
      /\ \A k \in Call : call[k].stage = "idle"
      /\ closed = {}
  BY DEF Init, NoWorkspace, NoAgents, NoArchive
<1>2. RowsFollowHerdr /\ OnceOnly /\ ClosingGone
  BY <1>1 DEF RowsFollowHerdr, OnceOnly, ClosingGone, Live, Closing
<1>3. RowsOfSpawns
  BY <1>1 DEF RowsOfSpawns
<1>4. Spawns
  BY <1>1 DEF Spawns, PanesHeld, DirsAgree, InPlace, Held, Makes, At
<1>5. ArchiveIsExact
  BY <1>1, RowsAssumption DEF ArchiveIsExact, NoConversationLost, ArchivedWhereItRan
<1> QED BY <1>2, <1>3, <1>4, <1>5 DEF Kept

LEMMA SpawnStepKeeps ==
  ASSUME Types, Kept, ClosingGone, NEW c \in Conv, SpawnStep(c) PROVE Kept' /\ ClosingGone'
<1>1. ASSUME NEW o \in Pinned \cup {None}, NEW d \in Dir, SpawnHere(c, d, o)
      PROVE  Kept' /\ ClosingGone'
  BY <1>1, AsksKeeps DEF SpawnHere, Placing
<1>2. ASSUME NEW o \in Pinned \cup {None}, SpawnInWorktree(c, o) PROVE Kept' /\ ClosingGone'
  BY <1>2, AsksKeeps, RowsAssumption DEF SpawnInWorktree, Placing
<1>3. ASSUME NEW o \in Pinned \cup {None}, NEW w \in Ws, SpawnJoins(c, w, o)
      PROVE  Kept' /\ ClosingGone'
  <2>1. index[w] \in Dir /\ RootOf(w) \in Pane /\ WsOf(RootOf(w)) = w
    BY <1>3, PaneNames DEF SpawnJoins, Types, StoresType
  <2> QED BY <1>3, <2>1, AsksKeeps DEF SpawnJoins, Placing
<1>4. CASE \E w \in Ws, d \in Dir : Creates(c, w, d)
  BY <1>4, CreatesKeeps
<1>5. CASE \E p \in Pane : Splits(c, p)
  BY <1>5, SplitsKeeps
<1> QED BY <1>1, <1>2, <1>3, <1>4, <1>5, PlacedKeeps, AgentStartsKeeps, AgentRecordedKeeps,
           SpawnFailsKeeps DEF SpawnStep

LEMMA IInvStep == IInv /\ [Next]_vars => IInv'
<1> SUFFICES ASSUME IInv, [Next]_vars PROVE Kept' /\ ClosingGone'
  BY TypesStep DEF IInv
<1> USE DEF IInv
<1>1. ASSUME NEW c \in Conv, SpawnStep(c) PROVE Kept' /\ ClosingGone'
  BY <1>1, SpawnStepKeeps
<1>2. ASSUME NEW k \in Call, CallStep(k) PROVE Kept' /\ ClosingGone'
  BY <1>2, EndAskedKeeps, StopAskedKeeps, AnswerKeeps, RemoveAnsweredKeeps DEF CallStep
<1>3. CASE HerdrStep
  BY <1>3, PaneEndsKeeps, ReapEventKeeps, DiesInReapKeeps, ChannelKeeps DEF HerdrStep
<1>4. CASE UNCHANGED vars
  <2>1. UNCHANGED <<up, stores, job, call, overtaken, crossed, torn, dir, runs, closed, missed>>
    BY <1>4 DEF vars, herdr, channel, history
  <2>2. EventsGo
    BY <2>1 DEF EventsGo
  <2> QED BY <2>1, <2>2, NoRowsGo, RowsGoKeep, SpawnsStay, CallsStay
<1> QED BY <1>1, <1>2, <1>3, <1>4, BrokerDiesKeeps, TeardownKeeps, ReprovisionKeeps DEF Next

LEMMA IInvHolds == Spec => []IInv
<1>1. Init => IInv
  BY InitTypes, InitKept DEF IInv
<1> QED BY <1>1, IInvStep, PTL DEF Spec
-----------------------------------------------------------------------------
(* What the stores promise *)

\* reapWorkspaceRow: whenever herdr has closed a workspace, its row is about to
\* be dropped, or its event was lost or came before the row.
THEOREM RowsFollow == Spec => []RowsFollowHerdr
<1>1. IInv => RowsFollowHerdr
  BY DEF IInv, Kept
<1> QED BY <1>1, IInvHolds, PTL

\* reapWorkspaceRow, stopAgent: a recorded conversation is held or archived, and
\* the archive has the directory it ran in.
THEOREM ArchiveExact == Spec => []ArchiveIsExact
<1>1. IInv => ArchiveIsExact
  BY DEF IInv, Kept
<1> QED BY <1>1, IInvHolds, PTL

\* AgentIndex: an agent's row never outlives the directory a reap archives it
\* with, unless the agent was recorded after its workspace was reaped.
THEOREM OrphansAreLate == Spec => []NoOrphanUnlessLate
<1>1. ASSUME IInv PROVE NoOrphanUnlessLate
  <2>1. \A p \in Pane : agents[p] # None => agents[p] \in Conv
    BY <1>1 DEF IInv, Types, StoresType
  <2> QED BY <1>1, <2>1 DEF IInv, Kept, RowsOfSpawns, NoOrphanUnlessLate, OrphanFree
<1> QED BY <1>1, IInvHolds, PTL

\* A session started again under its name inherits nothing: a row about a
\* workspace or pane that exists tells of that one, not of an earlier one's id.
THEOREM RowsTrue == Spec => []NothingInherited
<1>1. ASSUME IInv, Undisturbed PROVE RowsAreTrue
  <2>1. PanesHeld /\ DirsAgree /\ RowsOfSpawns
    BY <1>1 DEF IInv, Kept, Spawns
  <2>2. ASSUME NEW p \in Pane, agents[p] # None, Occupied(p) PROVE runs[p] = agents[p]
    <3>1. agents[p] \in Conv
      BY <1>1, <2>2 DEF IInv, Types, StoresType
    <3>2. job[agents[p]].stage \in {"recorded", "late"} /\ job[agents[p]].pane = p
      BY <2>1, <2>2 DEF RowsOfSpawns
    <3> QED BY <2>1, <2>2, <3>1, <3>2 DEF PanesHeld, Held
  <2> QED BY <2>1, <2>2 DEF DirsAgree, RowsAreTrue
<1>2. IInv => NothingInherited
  BY <1>1 DEF NothingInherited
<1> QED BY <1>2, IInvHolds, PTL

\* resolveResume: a resumed conversation runs in the directory it was held in,
\* unless it is resumed into a worktree of its own.
THEOREM ResumesInPlace == Spec => []ResumesInPlaceUnlessWorktree
<1>1. IInv => ResumesInPlaceUnlessWorktree
  BY DEF IInv, Kept, Spawns, InPlace, ResumesInPlaceUnlessWorktree
<1> QED BY <1>1, IInvHolds, PTL

\* A step that takes the row of a workspace leaves the workspace not live.
RowGoes(w) == Undisturbed' /\ index[w] # None /\ index'[w] = None

LEMMA SpawnKeepsRows ==
  ASSUME Types, NEW c \in Conv, SpawnStep(c), NEW w \in Ws, index[w] # None
  PROVE  index'[w] # None
<1>1. CASE Placed(c)
  <2>1. job[c].cwd \in Dir
    BY <1>1 DEF Placed, Types, PanesKnown
  <2> QED BY <1>1, <2>1, NoneIsNone DEF Placed, IndexedDir, Types, StoresType
<1>2. CASE ~Placed(c)
  <2>1. index' = index
    BY <1>2 DEF SpawnStep, SpawnHere, SpawnInWorktree, SpawnJoins, Asks, Creates, Splits,
                AgentStarts, AgentRecorded, SpawnFails, stores
  <2> QED BY <2>1
<1> QED BY <1>1, <1>2

LEMMA CallTakesRows ==
  ASSUME IInv, NEW k \in Call, CallStep(k), NEW w \in Ws, RowGoes(w)
  PROVE  dir'[w] = None
<1> USE DEF IInv
<1>0. Undisturbed
  <2>1. crossed' = crossed
    BY DEF CallStep, CloseAsked, RemoveAsked, StopAsked, CloseAnswered, StopArchives, StopChecks,
           RemoveAnswered, CallFails, history
  <2> QED BY <2>1 DEF RowGoes, Undisturbed
<1>1. CASE CloseAnswered(k) \/ StopChecks(k) \/ RemoveAnswered(k)
  <2>1. CallWs(k) \in Ws /\ dir' = dir
    BY <1>1, PaneNames DEF Types, PanesKnown, CallWs, CloseAnswered, StopChecks, RemoveAnswered, herdr
  <2>2. w = CallWs(k)
    BY <1>1, <2>1, ReapGoes DEF RowGoes, CloseAnswered, StopChecks, RemoveAnswered, stores,
                                Types, StoresType
  <2>3. CASE StopChecks(k)
    <3>1. PICK opinion \in Opinions(w) : IF MayReap(opinion) THEN Reap(w) ELSE UNCHANGED stores
      BY <2>2, <2>3 DEF StopChecks
    <3>2. opinion = "reaped"
      BY <3>1 DEF MayReap, stores, RowGoes
    <3>3. ~Live(w)
      BY <3>1, <3>2 DEF Opinions
    <3> QED BY <2>1, <3>3 DEF Live
  <2>4. CASE CloseAnswered(k) \/ RemoveAnswered(k)
    <3>1. Closing(k)
      BY <2>4 DEF CloseAnswered, RemoveAnswered, Closing
    <3> QED BY <1>0, <2>1, <2>2, <3>1 DEF ClosingGone, Live
  <2> QED BY <1>1, <2>3, <2>4
<1>2. CASE ~(CloseAnswered(k) \/ StopChecks(k) \/ RemoveAnswered(k))
  <2>1. index' = index
    BY <1>2 DEF CallStep, CloseAsked, RemoveAsked, StopAsked, StopArchives, CallFails, stores
  <2> QED BY <2>1 DEF RowGoes
<1> QED BY <1>1, <1>2

\* workspaceStillLive, reapWorkspaceRow: no call, event or teardown forgets the
\* directory of a workspace that is running.
THEOREM LiveRowsStay == Spec => LiveKeepsRow
<1>1. ASSUME IInv, [Next]_vars, NEW w \in Ws, RowGoes(w) PROVE dir'[w] = None
  <2>1. ASSUME NEW c \in Conv, SpawnStep(c) PROVE FALSE
    BY <1>1, <2>1, SpawnKeepsRows DEF IInv, RowGoes
  <2>2. ASSUME NEW k \in Call, CallStep(k) PROVE dir'[w] = None
    BY <1>1, <2>2, CallTakesRows
  <2>3. ASSUME NEW v \in Ws, ReapEvent(v) PROVE dir'[w] = None
    <3>1. v \in closed /\ dir' = dir
      BY <2>3 DEF ReapEvent, herdr
    <3>2. w = v
      BY <1>1, <2>3, ReapGoes DEF ReapEvent, OnReaped, RowGoes, IInv
    <3> QED BY <1>1, <3>1, <3>2 DEF IInv, Kept, OnceOnly, Live
  <2>4. CASE Teardown
    BY <2>4 DEF Teardown, NoWorkspace
  <2>5. CASE UNCHANGED index
    BY <1>1, <2>5 DEF RowGoes
  <2>6. \/ \E c \in Conv : SpawnStep(c)
        \/ \E k \in Call : CallStep(k)
        \/ \E v \in Ws : ReapEvent(v)
        \/ Teardown
        \/ UNCHANGED index
    BY <1>1 DEF Next, HerdrStep, PaneEnds, DiesInReap, ChannelLost, ChannelOpens, BrokerDies,
                Reprovision, stores, vars
  <2> QED BY <2>1, <2>2, <2>3, <2>4, <2>5, <2>6
<1>2. IInv /\ [Next]_vars => [\A w \in Ws : Undisturbed' /\ index[w] # None /\ index'[w] = None
                                             => dir'[w] = None]_vars
  BY <1>1 DEF RowGoes
<1> QED BY <1>2, IInvHolds, PTL DEF Spec, LiveKeepsRow
=============================================================================
