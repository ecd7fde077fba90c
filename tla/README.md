# herdr-web-broker: TLA+ models, checks and proofs

herdr-web-broker is a daemon that puts the local socket API of herdr (a terminal
multiplexer for coding agents) on the network: REST and WebSocket for clients, and
one child-initiated tunnel per enrolled machine. This directory models the daemon, the
commands and the client packages around it: what each keeps, what can overlap in it, and
what must hold all the same.

Source paths below are relative to the repository. "The parent" and "the child" are two
daemons of this program; "herdr" is the program each of them fronts.

## 1. Inventory

| Component | State | Operations | Talks to | What is hard |
| --- | --- | --- | --- | --- |
| `TunnelHub`, `ChildConnection` (`src/tunnel.ts`) | the map of current connections; per connection: pending requests, subscriptions, counters, heartbeat | attach, disconnect, request, subscribe, route, gone | Registry (calls), WebSocket server (attach), Projection (requests) | a replaced connection is still closing while its successor works; ids restart with each connection; timeouts race answers |
| `ParentLink` (`src/south.ts`) | the last WebSocket, open taps, redial timer, stopped flag | start, dial, send, route, stop | Registry events, LocalHerdr snapshot and taps | an asynchronous snapshot between open and hello; handlers that answer after a redial |
| `Registry` (`src/registry.ts`) | one entry per machine: online, sessions, agents; `registry.json` | load, replaceSnapshot, applyAgentStatus, applySessionAdded/Removed, setOffline | listeners: ParentLink, Projection, WS clients | events and snapshots about the same entry from two connections |
| WebSocket server (`src/ws-server.ts`) | per client: subscriptions, slots, ask/exec in flight | upgrade, acceptChild, acceptClient, closeToken | TunnelHub, LocalHerdr, broker methods | close or unsubscribe while a subscribe is awaited; a cap checked before it is reached |
| Projection (`src/projection.ts`) | one local socket per remote session | start, syncInstance, dropSocket | Registry events, TunnelHub.request | sockets must follow the registry, also over a re-enrolment |
| LocalHerdr (`src/local-attach.ts`) | tracked sessions, their event channel, `connecting` | start, rescan, refresh, addEndpoint, forgetSession, tap, request, snapshot, stop | herdr sockets, Registry, the daemon's reap hook | overlapping refreshes; a forget during a probe; a channel that is replaced |
| Stores (`src/state.ts`) | `workspaces.json`, `agents.json`, `resumable.json`, `children.json`, the lock file | get, set, remove, removeWorkspace, removeSession, record | spawn, stop, close, remove, teardown, reap hook | three files that must agree with each other and with herdr |
| Broker methods (`src/workspace-ops.ts`) | ask locks, answer and drop files | spawn (modes A to D), stop, close, worktree list/remove, ask, exec, wait, steer, screen, slash, spec, repo | herdr requests, stores, git | state read before an await and used after it |
| Turn detection (`src/transcript.ts`) | none; reads the CLIs' files | readTurnState, decideTurn, five parsers | files of the CLIs | freshness of a transcript against a status |
| HTTP API (`src/http.ts`) | provision locks | every route under `/v1` | all of the above | a session looked up before a body is awaited; who gives up first |
| Ownership, provisioning (`src/owners.ts`, `src/provisioner.ts`) | bindings, a lock per e-mail, herdr processes | login, teardown, rebind, kill | stores, LocalHerdr, tokens | teardown or rebind during a login |
| Access (`src/auth.ts`, `src/auth-limit.ts`, `src/presence.ts`, `src/config.ts`) | tokens in memory and in `config.toml`, failure windows, presences | authenticate, mint, revoke, kick, reload, `pair` | HTTP and WS | sockets opened before a revocation; a file two processes rewrite whole |
| Git (`src/git-exec.ts`) | the working trees | commit, push, pull, checkout, discard, stash, pop | git processes, the agent's own git | a confirmation that binds less than it discards; undo after a conflict, and of whose conflict |
| Environment registry, spawn readiness (`src/env-registry.ts`, `src/spawn-readiness.ts`) | entries, drop files | set, delete, resolve, drop, sweep | spawn, the pane's shell | order of specificity; a sweep before a slow shell reads |
| Workspace preparation (`src/prepare-workspace.ts`) | one config file per CLI | prepare, trust | spawn, the CLIs | the CLIs write the same file without a lock |
| Context store (`src/context-store.ts`) | files and `.meta.json` of a workspace | put, update, delete, preamble | prompts | two writes of one call; the inline budget |
| Modules, broker events (`src/module-*.ts`, `src/capabilities.ts`, `src/broker-events.ts`) | loaded entries, handlers | load, route, emit | every method of the API | one module's failure must stay its own |
| Boot, CLI (`src/daemon.ts`, `src/cli.ts`, `src/version.ts`) | the lock file, the port | startDaemon, close, commands | everything | several daemons of one directory |
| Client SDK (`packages/client`) | one socket, desired subscriptions, watch loops | calls, connect, subscribe, watch | the broker | events of an old socket after a reconnect |
| React hooks (`packages/react`) | what a page shows | verify, browse, subscribe, watch | SDK | answers that are overtaken |
| UI, demo web, module template, release scripts | view state, tables | render, build | SDK | nothing of the system's own logic |

What makes each component correct:

- **Tunnel**: at most one connection serves a machine, its end and only its end takes the
  machine offline; what the parent shows is what the child last said; every call settles,
  with its own answer; a subscription ends on both sides.
- **Stores**: no recorded conversation is lost, the archive says where it ran, no row of a
  running workspace is dropped, no row outlives its workspace for ever.
- **Local attach**: the roster is herdr's latest, a forgotten session stays forgotten, a dead
  one is retired.
- **Asks, execs, waits**: an answer belongs to the question; one ask at a time in a pane; no
  answer is given up while it can still come; what is reported was so.
- **Ownership and access**: a listed session has an owner, no binding is lost but by its own
  login or teardown; a token that is out stays out.
- **Git**: what is discarded is what was shown; no call leaves a merge half done or undoes the
  agent's own.
- **Spawn**: the agent has the environment it was due when it starts, and no question about
  its directory stops it.
- **Boot and modules**: one daemon serves and is found; a module has what both sides named.
- **Client**: a call runs the operation it names; one socket; a viewer never goes back.

Every hazard, at its line, with the property that watches it, is in `PROJECT.json`.

## 2. Modules

### The tunnel

| Module | Models | State ↔ code |
| --- | --- | --- |
| `Registry` | one registry entry and the operations on it (pure operators) | `Sessions` is `Stored.sessions`, with `Gone` for a name that is not a key |
| `ChildPresence` | what the parent promises about a child: online, sessions, sockets | abstract, no source |
| `Tunnel` | the connections of one child, both ends, the child's roster, the parent's entry and sockets | `ws` = `ParentLink.#ws`; `cend`/`pend` = readyState at each end; `handler` = the listener a message reaches; `hub` = the entry of `TunnelHub.#children`; `snap` = a running `snapshot()`; `retired` = connections of a stopped ParentLink |
| `TunnelMirror` | `Tunnel` with a flag for the four known drifts, to compare the entry with the child's roster | |
| `TunnelRpc` | `Tunnel` plus calls: `pending`, `seq` of each ChildConnection, requests served at the child | |
| `CallPromise` | what a ChildConnection promises its callers: how each call stands, on which line, whose answer it was given | abstract, no source |
| `TunnelTaps` | `Tunnel` plus subscriptions: `pending`, `subs`, the client's slots, `taps` and `tapOf` (`ParentLink.#taps`) | |
| `TunnelProofs` | theorems about `Tunnel` and, in its second part, `TunnelMirror` | |
| `RpcProofs`, `TapsProofs` | theorems about `TunnelRpc` and `TunnelTaps` | |

`TunnelRpc`, `TunnelTaps` and `TunnelMirror` extend `Tunnel` and compose with it action by
action: each of their actions is a Tunnel action with what it does to the added state, or
an action on the added state alone.

Every WebSocket ever dialled is a number. A connection has two ends which close at different
times; frames the child had sent can still reach a parent end that is `closing`, which is
what `ws` does after `close()`. The child's actions are the handlers of `#dial`, the relay and
`startLink`; the parent's are acceptChild's first message (`Enroll`, `BadHello`), its timer,
`#route`, `#gone` with the hub's `onGone`, and the restart that loads `registry.json`.
`Enroll` is the whole of what the first message does: `replaceSnapshot`, the projection's
listener, `attach` with the close of the connection it replaces.

A snapshot (`SnapshotStep`) asks the child's herdr, not its registry, for the agents of one tracked
session after another. Usually herdr's answer is what the registry holds (`SnapshotReads`);
when it is not, `SnapshotMisreads` takes any answer: none (a failed `agent.list` is swallowed into
an empty list), a roster the registry is yet to show or shows wrongly (`LocalAttach` models
how), a session that is tracked and not listed, or the reverse. `misread` remembers the sessions
it happened to, and `exact` of a hello that there were none; neither is on the wire.
`AgentsRefreshed` is the parent's `GET .../agents?fresh=1`, which writes an answer of the child's
herdr into the entry. The event kind `snapshot`, which `#route` knows, is sent by no child.

Left out: backoff delays (a redial comes some time after the close), the heartbeat's ping
counter (an end fails nondeterministically), titles, platform strings, `as_of`.

### Local attach and the stores

| Module | Models | State ↔ code |
| --- | --- | --- |
| `LocalAttach` | `LocalHerdr` and one herdr session: rescan, refresh, event channels, addEndpoint, forgetSession, start and stop, with the session's registry entry | `tracked` = its object in `#sessions`; `events` = `.events` of each object; `probe` = a ping under way (`#connecting`); `task` = refreshes between request and answer; `chan` = SessionEvents sockets and what is under way on them; `due` = a rescan that has yet to come to it |
| `LocalProofs` | theorems about `LocalAttach`, the roster of the registry last | |
| `Rows` | the three stores of one session, herdr's workspaces and panes, every request that changes either | `index`, `agents`, `resumable` = the stores; `job` = a spawn between two awaits; `call` = a close, stop or remove between two awaits; `closed` = `workspace.closed` frames under way |
| `RowsProofs` | theorems about `Rows` | |

Every await of `LocalHerdr` is a stage: a ping and an `agent.list` are asked, answered or
lost, and processed later, on sockets of their own, so their answers may be processed in any
order. Objects matter by identity: a `TrackedSession` and a `SessionEvents` are values of
`Obj` and `Chan`, and a value nobody refers to any more stands for a new object. A channel
that `close()` destroyed stays `closing` until its close event is seen, which the code
compares with the object's current channel. A change of herdr's roster is announced to the
channels that are open at that moment, a status only to those that named its pane.
`rosters` is all rosters so far, so that an answer in flight is just the number of the one
it read. Sockets on disk are the variable `listed`; with a fixed list of endpoints
(`fixed`), only addEndpoint and forgetSession change it. Left out: the order in which one
rescan visits several sessions, titles and raw status, what the entry shows of the last run
before `start()` has replaced it.

In `Rows` a spawn is a job with the stages its awaits give it: *asked* (the request is under
way to herdr), *made* (herdr has done it, the answer is under way), *placed* (the index row is
written), *started* (the agent runs and settles), *recorded*. Close, stop and remove change
herdr in one action and the stores in a later one. `ReapEvent` is `#onEvent` with the
daemon's `onReaped`. Any order of these is a behaviour. Herdr itself is external and modelled
from its use: a workspace ends with its last pane and is announced once if the channel is up;
ids are not used twice in the life of one herdr; ids start again when the session is
provisioned again. Left out: labels, kinds, arguments, the retries of agent.start (one step).
A request names a workspace that exists or is indexed, it guesses no id. An answer of a herdr
that is being stopped arrives before the next herdr under that name is up.

### Calls about an agent

| Module | Models | State ↔ code |
| --- | --- | --- |
| `Ask` | `ask`, `askInner` and `steer` of one pane, beside the agent | `lock` = `askLocks`; `call` = where each ask stands, with the age its deadline and graces look at; `file` = its answer file; `tier` = the status in the registry, which follows `herdr` some time later; `record` = the deciding transcript row |
| `AskProofs` | theorems about `Ask`, and about `Exec`, `Wait` and `Transcript` as the parts of `MCAgents` | |
| `Exec` | `broker.pane.exec` | `drop` = the file `echo $?` goes to; `typed` = lines the shell has not run; `told` = `broker.exec.finished` |
| `Wait` | `broker.agent.wait` with `agentInPane` | `row` = the transcript's row, fresh or not |
| `Transcript` | the five parsers, `readTurnState`, `decideTurn` | `log` = the events of two conversations in one directory, the agent's own and an earlier one; each kind of CLI writes it in rows of its own (`ClaudeRow` ...), the parsers read those rows |
| `Watch` | the long polls of screen and spec at the broker, the SDK's loops, `useScreen` | `version` = the content hash of a source, modelled as a number that grows |

### What a client sees

| Module | Models | State ↔ code |
| --- | --- | --- |
| `Http` | every SDK method, what a URL makes of its path, every route of `http.ts`, ownership, the body, and the three deadlines on the way | `wire` = the request line as the broker parses it; `passed` = the route a request was let through to while its body is read; `session` = whose it is, which may change meanwhile |
| `Channel` | `EventChannel` of the SDK | `ws` = `#ws`, `sock` = every socket made; `probes`, `timers`, `armed` = `#maybeReconnect` under way; `group`, `subId`, `bySub`, `pending` = `#groups`, `#bySubId`, `#pending` |
| `Hooks` | the React hooks that await an answer and then set state | one hook per behaviour: the token gate, the repository browser, the events panel |
| `EdgeProofs` | theorems about `Http`, `Channel`, `Hooks` and `Watch`, as the parts of `MCEdge` | |

### What the broker does on its own machine

| Module | Models | State ↔ code |
| --- | --- | --- |
| `Owners` | `POST /auth` with an e-mail, teardown, kill, rebind | `owners` = `owners.json`; `locks` = `provisionLocks`, keyed by the e-mail as typed; `herdr` = a session's process; `demo` = a demolition between two awaits |
| `Access` | tokens, sockets, presences, the limiter, `config.toml` and `pair` | `mem`, `disk` = `client_tokens` in the daemon and the file; `pair` = the other process; `kicking` = a kick that still logs panes out |
| `Repo` | commit, pull, discard, stash, pop, each a sequence of git commands among the agent's own | a file's content is a number; `Dir`, `Below` = a directory, which git names as one while it tracks nothing there, and the files in it; `staged`, `merge`, `unmerged`, `stash` = the index and the states a git command can leave; `preview` = what a confirm hash binds, and the files it stood for |
| `Launch` | resolution of the environment, the drop file, the line typed into a cold shell, agent.start with its busy retries | `entries` = the registry in insertion order; `file` = each spawn's drop file; `shell` = its pane |
| `Trust` | the config file of one kind of CLI, which spawns and running CLIs write | `cfg` = what a JSON reader finds; `held` = the copy a CLI writes back |
| `Context` | files, `.meta.json`, and what a prompt announces and inlines | `files`, `meta`; `want` = the flags the last finished call gave |
| `Modules` | the loader, grants, routes, `BrokerEvents` | `loaded`, `seen`, `handlers` |
| `Boot` | daemons of one state directory, the lock, the commands that look for it | `at` = where each daemon stands; `port`, `lock`, `attach` |
| `WorkProofs` | theorems about these eight modules, as the parts of `MCWork` | |

Instances and composition: `MC*.tla`. `MCAgents`, `MCEdge` and `MCWork` put several of these
modules in one run. Their parts share no state, and running them interleaved would only
multiply it: the variable `part`, chosen in the initial state, picks the module that moves, and
the others rest in an initial state in which no fair action is enabled. `MCAgents` runs an ask
beside a second ask, or beside a steer.

## 3. Runs

| Run | Question | Bounds and why they are enough |
| --- | --- | --- |
| `tunnel` | do online flag, hub, sockets and the child's roster stay in step, does the tunnel implement `ChildPresence`, does a child end up online on its own last connection? | 4 connections: a current one, one that is still closing, one that is dialled, and one more so that a fault, a refused first frame and a stale hello can each cost one; 1 fault, which is also an answer of herdr that the registry does not hold or a refresh; one change of the roster, before, in or after a snapshot; two protocol versions |
| `tunnel_rpc` | is every waiting call pending once, and settled, and do the calls implement `CallPromise`: no answer given twice, none crossed on one connection? | 2 calls on 2 connections: ids can collide; 1 fault |
| `tunnel_taps` | are slots given back exactly once, capped, and taps closed with the client? | 2 groups against a cap of 1, 2 connections, one fault |
| `rows` | are conversations, directories and rows right under every race? | 2 workspaces of 2 panes, 2 spawns, 2 requests, one death of the broker or teardown |
| `local_attach` | one channel at most, nothing retired or forgotten comes back, the roster is herdr's when all is quiet? | a session object and its successor, a channel and its replacement, an event's refresh beside a probe's and the boot's, 2 changes, 2 faults (lost answer, broken channel, restart, forget) |
| `local_live` | is a dead session retired, a live one followed? | the same with one change |
| `agents` | is an answer to an ask, an exec, a wait or a transcript read true, is none given away, does every ask settle? | 2 asks, or an ask and a steer; a budget of 2 with graces of 0, so that each clock can run out before and after each other event; 2 commands in one shell; 6 events over two conversations, enough for an earlier turn and a whole later one, for each of the five CLIs |
| `edge` | does every SDK call reach its operation, does the event channel keep one socket and its groups, do viewers and hooks show what is? | every method with every two of five names, two proper ones, the empty one and the two dots; a deadline below every clamp of the broker and one above (75,501 states); 3 sockets and 3 subscribe requests: one that ends, its successor, and one overtaken; 2 sources, 2 loops; 2 tokens, repositories and groups |
| `work` | see the modules of the last table above | 3 files, two of them in a directory, 3 contents, 3 verbs: a preview, its confirmation and another, or a call that leaves something and two that meet it; 2 spawns, one busy retry, 2 env calls, entries of the session, the kind and another kind; 2 CLIs in 2 directories; 2 attachments of 2, 3 and 4 bytes under caps of 3 and 4, one mishap; 5 modules, one for each way to be refused; 3 daemons, one with TLS, one command, one crash; 1 token with 1 socket and 1 request, 2 runs of `pair`; 2 logins of one e-mail in two spellings with 2 tokens, 1 demolition |

Deadlock is not checked: connections, faults, spawns and requests are bounded, and a system
with nothing left to do stops. Symmetry (workspaces, requests, conversations, objects,
channels) is used in `local_attach` and the `rows` runs, which check no liveness.

### Runs that find a violation

Each contradicts a sentence of the repository; `PROJECT.json` quotes it.

| Run | What it shows |
| --- | --- |
| `rows_archive` | `worktree.remove` leaves conversations out of the archive, the `workspace.closed` it causes archives them |
| `exec_announced` | a command whose exit code an ordinary poll finds is answered, and no `broker.exec.finished` is emitted |
| `repo_unseen` | a file added to an untracked directory after the preview leaves the confirm hash as it is, and is deleted |

### Exceptions

A passing property names its exceptions, and each exception is a behaviour the code has.

- Tunnel: the parent's entry may differ from the child's roster in four ways (`drifted`): the hello
  carried a snapshot started for an earlier connection, or one in which herdr's answer for a session
  was not what the child's registry held, the empty list of a failed request among them; a frame of a
  replaced connection was applied; a refresh wrote herdr's answer over newer frames. A tap whose ack came after the parent's timeout, or after its tunnel was lost, stays
  open (`TapsStopUndisturbed`; README.md says a socket close stops subscriptions), and its
  events reach the group with the same `sub_id` on the next connection
  (`OwnEventsUnlessLeaked`). An answer to a call of a lost connection is sent on the next one
  and may settle another call there (`Answered` of `CallPromise`). A child that re-enrols before
  its old connection has closed keeps projected sockets of sessions it lost: `#syncInstance`
  only adds (`ParentMirrors` bounds the sockets from below).
- Local attach: a session whose ping fails just after a late refresh opened its channel again is
  retired and the channel left open, so that its next status event lists the session again
  (`abandoned`). A change announced to a channel that is not open yet, an older list applied
  after a newer one and a lost list leave the roster stale (`drift`). A session whose socket is
  gone from disk is never retired (`EventuallyInStep` is about listed ones).
- Stores: a death between the writes of `agents.json` and `resumable.json` loses a conversation
  (`torn`). An agent whose workspace is closed while it settles is recorded in a workspace
  without a row (`NoOrphanUnlessLate`). A spawn under way at a teardown writes its rows into
  the next session of that name (`NothingInherited`). A resume with `worktree` passes the
  directory check and then runs in the new checkout (`ResumesInPlaceUnlessWorktree`).
- Asks: an ask whose agent was steered may be decided by the transcript row of that other turn,
  and one is given up on a status the registry has not caught up with (`GivenUpForAReason`).
- Git: untracked files in a directory that a preview named as a whole are deleted whoever added them
  when (run `repo_unseen`). A merge of a pull or a pop stays when a hook, the time limit or a step of
  a rebase stopped it without unmerged files, or when `unmergedFiles` or the abort failed (both are
  swallowed), although a comment says "no half-merged repo ever survives an API call". Unmerged files
  count as the call's own: a pull refused because of a conflicted merge of the agent's aborts that
  merge, and `git reset --merge` after a pop deletes a new file the agent had staged.
- Spawn: a drop file swept by another spawn before a slow shell has read it (`swept`); a CLI that
  writes an older copy of the config back undoes a trust entry (`undone`).
- Attachments: after a torn `.meta.json` every flag is back at its default (`lost`).
- Modules: a refused entry hides a later module of the same id from the routes
  (`ContainedUnlessShadowed`), and the handlers of a module whose `register()` threw stay.
- Boot: a daemon that closes removes the lock of the one that took its port over meanwhile; the
  commands and the health check speak http only, so a daemon with TLS is never found.
- Access: `pair` writes tokens back that were revoked since it read the file; an identify whose
  body arrives after a kick leaves a presence; `DELETE /admin/tokens` closes no socket, which
  is documented. A reload starts the link to the parent again and leaves `client_tokens` as they were
  at boot, although src/module-loader.ts and src/daemon.ts speak of a hot reload.
- Owners: a login that fails removes the binding of its e-mail whoever holds it by then
  (`contested`); the herdr of a failed login or a failed stop is listed without an owner
  (`adrift`).
- Client: after `close()` and a second `connect()` two sockets may live; a group whose socket
  closes with a `sub_closed` in flight is retired and not subscribed again. Hooks overwrite
  newer state when two requests overlap.

## 4. Fairness

Every fair action is one an event loop runs when it is ready, and weakly fair. For the tunnel:
the redial timer, the open handler, the local herdr's answers to a snapshot, the delivery of a
frame, the close of an end whose peer is gone (each side reaps a silent peer by its heartbeat),
the timer of a request. For local attach: the rescan timer, the answers or timeouts of
requests, a herdr that accepts or refuses a channel. For asks: the clock, the poll timer, an
answer or error for each herdr request (each has a timeout). For the event channel: the close
event of a socket, the probe (it has a timeout), the reconnect timer, an answer of the broker on
a socket that stays open. For watchers: the delivery of a reply and the retry timer.

One strong fairness: a watcher's request is answered if it is sent again and again
(`SF(Answers)`); a network that loses every request shows nothing to anybody.

Nothing is assumed of faults, roster changes, agents, clients and administrators.

## 5. Proofs

Every theorem holds for every value of its module's constants under the assumption named
there (`RegistryAssumption`, `TunnelAssumption`, `RpcAssumption`, ...): that the sentinels
are none of the names they stand beside, that sets which are counted are finite, that bounds are
naturals. TLC evaluates each assumption in a run. Each proof has an inductive invariant, which TLC
checked on the instance of a run before the proof was written, one lemma or step per action, and
below it one step per part the action can disturb.

### The tunnel

`TunnelProofs`, for any number of connections, changes and faults, any sessions and agents:

- `TypeCorrect`: `Spec => []TypeOK`;
- `CurrentTunnelExact`: the safety invariant `CurrentTunnel` of run `tunnel`;
- `OfflineOnlyByCurrent`: the action property;
- `ImplementsPresence`: `Spec => PresenceSpec`, initial states and every step.

The inductive invariant is `TypeOK /\ DialledHasNoParent /\ PInv`. `PInv` (the parts of
`CurrentTunnel`) is not inductive alone: `Opened` sets a connection's parent end to `open` and
its handler to `hello`, which would break `CurrentWillClose` if that connection could already be
the hub's. `DialledHasNoParent` says it cannot: what the child still dials has no parent end.
`Enroll` closes the hub's previous connection and needs that the enrolling one, which waits
for its hello, is not that one; `CurrentWillClose` gives it. The refinement maps a parent step to
the abstract step of the same name and every child step to a stutter.

The second part proves `ParentMirrorsChild`: the invariant `ParentMirrors` of run `tunnel`, that the
parent's entry with the frames under way applied is the child's roster. The invariant compares
two ends of a queue, so each step must be followed through every frame in it. `MirrorIInv`
adds to `IInv`: `NothingEarly` (nothing is on a connection before it is open), `SnapshotIsNow`
(while nothing was sent on a live connection, what its snapshot has read is still so),
`HelloFollowed` (on a connection whose own hello is under way, the frames behind it lead from the
sessions it carries to the roster), `EntryFollowed` (the same from the hub's entry, unless it
has drifted) and `EverySessionProjected`. "Lead" is said by a replay: the entries between one
frame and the next, none of them a status about a session not listed by then. A replay can be
extended at its end (the child sends) and cut at its head (the parent applies), which a fold
cannot; `ReachesReplayed` says that what a replay ends in is what the library's `FoldLeft`
computes. A misread snapshot leads
nowhere, so `SnapshotIsNow` and `HelloFollowed` speak of exact ones (`SnapshotStepMirror`), and
`Enroll` starts drifted with any other. TLC checked the invariant on the 560,125 states of the run
and on 2,253,476 with two changes on three connections.

`RpcProofs`: `NobodyWaitsForever` (`PendingIsWaiting`), `AnswersAreOwn` (an answer given on the
connection it was asked for on is the caller's own) and the refinement `KeepsCallPromise`:
`RpcSpec => CallPromiseSpec`. `RpcIInv` adds
`WaitersPend` and `CallHasOneId` (a call waits on a connection exactly while that one has its one
entry), `PendingWillClose` (what has entries will still close, and closing settles them), and for
the answers `IdNamesCall`: a number of a connection is that of one call wherever it still is,
awaited, under way down, served, or in an answer under way up, on whichever connection.
`IdsAreIssued` makes the next number a new one; `SeqIsBounded` counts the calls made, so that
the numbers have a type. TLC: 46,610 states.

`CallPromise` has no numbers, frames or handlers left: a call is made on a line, and then
answered, timed out or lost with its line, once. Its `Answered` asks for three facts that
`RpcIInv` does not give, as the frame that arrives may have been sent for a call of an earlier
connection: that its call was made, that it was made on the connection the frame names
(`HeldIsMade`), and that no caller was given this answer before (`PlacedOnce`). The last is about
a thing that travels: the request goes down a queue, is served, and its answer goes up another
queue. `Holds(kind, x, n, j)` names the place (queue, position) where what there is of call `j`
may be, and `PlacedOnce` says that it is in one at most. Positions change with every frame
received, so the steps are of two kinds: those that only move places up their queues
(`ShiftKeepsOnce`) and those that also take one call to one new place (`MoveKeepsOnce`); `Serve`,
`ServeDone` and `Answer` are of the second kind, and so is `Request`, whose call was nowhere
before. `Request`, `RequestTimeout`, `Answer`, `ParentGone` and `RpcRestart` then map to the
abstract steps of their names, the rest to stutters.

`TapsProofs`: `SlotsAreExact`, `TapsEndInTime`, `EventsAreOwn`. `SlotsIInv` says without counting
what `SlotsExact` counts: a live group has a slot (`LiveHasSlot`), a slot has a group that is
awaited or live (`SlotIsHeld`), none is both, and no group has two entries. `IdNamesGroup` is the
counterpart of `IdNamesCall`, with taps and events; it leaves out the events of a leaked tap,
which do reach another group. `LinkIsCurrent` says which connections of the child can still open
taps. TLC: 176,736 states.

### Local attach

`LocalProofs` holds for any panes, statuses, objects, channels and bounds:

- `SessionTypeCorrect`: `Spec => []TypeOK`;
- `NoChannelLeaks`, `RetiredStaysRetired`, `ForgottenForGood`: three of the invariants of run
  `local_attach`;
- `SilentWhenStopped`: its action property;
- `RegistryCurrent`: its invariant `RosterCurrent`.

None of them is inductive: each says what holds now, while an answer in flight may change it
later. `IInv` adds what must still be true when an answer comes. `Requested`: a refresh under
way has an object, so `StillTracked` implies that a session is tracked. `NewcomerUntracked`: a
session pinged as untracked is untracked still, so attaching it orphans no channel. `Booting`:
between the snapshot of `start()` and its answer nothing retires the session or stops.
`NothingOnItsWay`: for a forgotten session of a fixed list no rescan is due and no ping out,
so nothing attaches it. `NoLeakedChannel` is needed for `RetiredUnlessAbandoned`: a status
event writes the entry whatever is tracked, so that it comes from the tracked session's
channel is what keeps a retired entry away.

`RosterCurrent` speaks of the moment when nothing is under way and needs what holds before
it. `RInv` has a part for each thing that may be under way while no change was missed: the last
event about a pane has its status (`LastNewsIsNow`) and the pane exists (`NewsIsPresent`); a channel
no refresh will replace is for herdr's panes (`KeyIsNow`); an entry no refresh will write is
herdr's roster but for the news (`EntryIsNow`); an answer that will be applied is herdr's roster but
for news that is newer, unless a newer refresh follows (`AnswerIsNow`). TLC checked `RInv` on top of
`IInv` on 3,139,525 states.

### Stores

`RowsProofs`, for any workspaces, panes, spawns and requests: type correctness, five of the
invariants of run `rows` (`RowsFollow`, `ArchiveExact`, `OrphansAreLate`, `RowsTrue`,
`ResumesInPlace`) and its action property `LiveRowsStay`. The inductive invariant is
`Types /\ Kept /\ ClosingGone`. `Kept` joins the invariants to what each stage of a spawn relies on:
a workspace is begun, live and closed once (`OnceOnly`), an agent's row is that of a spawn that
recorded it (`RowsOfSpawns`), a pane is held by one spawn and herdr runs that one's conversation
in it (`PanesHeld`), and a spawn that joins a workspace agrees with its indexed directory
(`DirsAgree`). `ClosingGone` is what `LiveRowsStay` needs: the workspace whose rows a close is about
to drop is gone for good. TLC: 688,700 states.

### Calls about an agent

`AskProofs` holds for any asks, steers, deadlines, commands and events under `AskAssumption`
(asks and steers differ, and `None` is none of them and no outcome) and `AgentsAssumption`
(`None` is no outcome of a command and no status):

- `AskTypeCorrect`: `Spec => []TypeOK`;
- `LockExact`: the invariant `OneAskAtATime` of run `agents`;
- `NoneGivenAway`: its action property `NoAnswerGivenAway`;
- `ReportsTrue`: its invariant `ReportsAreTrue`.

`LockExact` is inductive once it is said without counting (`LockIsHeld`: the ask in flight is the
one that holds the lock). `NoneGivenAway` needs more (`GInv`): that an ask is not given up while
the agent works on it rests on the row of the transcript, and a row *done* is believed. It is
right because a prompt is sent once, taken up once and done once (`SentOnce`), so such a row
is never about the turn under way; and without a row the registry's status, if it is herdr's,
is *working* or *blocked* during a turn (`BusyOnTurn`).

`ReportsTrue` has an invariant for each of its three parts. `ExecIInv`: a drop file that holds a
code holds its command's, and one that was read is gone for good, so that no poll finds the code
of another command. `WaitIInv`: what the agent is, and what a fresh row says, has been seen since
the request. `LogIInv`: each conversation is a chain of events in an order the CLI allows, and the
earlier one ended before the spawn, hence before the question. From `LogIInv` alone follows what
each parser finds: that the newest of the rows a parser considers is the row of the last event,
or of one before it that leads to the same turn, by the least upper bound of a bounded set of
positions. TLC: 232,137 states.

### What a client sees

`EdgeProofs` holds for any sockets, requests, tokens, repositories, groups, sources, loops, names and
deadlines under `EdgeAssumption` and `HttpAssumption` (two bounds are naturals, deadlines are positive,
and the sentinels are none of the names and calls beside them):

- `EdgeKept`: the invariant `ChannelAndPagesKept` of run `edge`, from `ChannelIInv` and `HooksIInv`;
- `ViewersGoOn`: the safety part of its `EdgeCatchesUp`, that a viewer never goes back;
- `EveryClientIsTold`: the invariant `ClientIsTold` of run `edge`, from `ClientIInv` and `ApiIInv`;
- `OthersStayHidden`: its part `PrivateLooksAbsent`, from `ApiIInv` alone. What is let through to a
  hidden session is let through without one (`HiddenIsAbsent`), so it is one of nine operations that
  no session serves (`MatchedOutside`), and nothing that happens to the session while the body is
  read changes its answer.

`ClientIInv` keeps, besides the request of the call, the session as it was when the request was let
through, and lists the ways an answer can come about: the routes' verdict on that session, a
timeout, a session gone meanwhile, and the SDK's own deadline if it is the shorter one. It says nothing of
what the routes are; that is in the lemmas about `Handled`, which hold for all names:

- Paths. Two folds read them, the segments a URL keeps (`Collapsed`) and those a route binds
  (`Picked`). The library defines a fold by `CHOOSE`, so `FoldExists` first shows that there is
  such a function, and `DirsRun` and `PickedRun` that its value is the last of a sequence of
  values, each made from the one before. `CollapsedProper`: a path of proper segments is kept whole.
- Routes. Every route of a session has one of the shapes of `Shape`, whichever handler it is in
  (`RouteFacts`), and two routes of the same shape, verb and words are one (`RoutesDiffer`). So the
  order the routes are tried in does not matter, and a request that fits a route is served by that
  route, whatever names it gives (`MatchedOne`): no name an agent or a file may have takes a request
  to another operation.
- Calls. Each of the SDK's calls fits a route of its own operation (`CallsServed`), hence
  `CallAnswered`: with proper names, it is answered on its operation and its objects.
- Deadlines. Here the names may be odd: `repo("w", "..").push()` is another path. `LastStays`: the
  last segment of a path stays its last, whatever is before it, so the broker serves the call as
  what that segment says or as something it waits 16 s for (`ServedByLast`), and `BrokerFirst`
  compares the two deadlines for any number of milliseconds. It leaves the calls
  `BrokerGivesUpFirst` lists: the git verbs, whose 60 s or 90 s are shorter than the
  broker's 91, and the long polls of a screen and a bundle, which a client
  may give less time than the broker waits.

The proof corrected the model: two guards of `Routed`'s `CASE` could both hold, which left the value to
TLC's order of evaluation. It is an `IF` chain now, as `handle` is.

No part of `ChannelAndPagesKept` is inductive: each is about a channel at rest, and no handler of a
close event, a probe, a timer or an answer looks at which socket it was for. `LinkIInv` says why
they need not, until `connect()` is called again: one socket is not yet gone, or one probe or timer
is under way, and never two. So a close event that rejects everything in `#pending` rejects what
was sent on its own socket (`RequestsIInv`), of which there is one request at most; and a group is
in while it is asked for, while its `subId` is live, or while that has ended with the socket
(`GroupIInv`). `HooksIInv` says of each answer on its way what it is about. `WatchIInv` orders
three versions: what is shown, what the running loop was told, and what is. TLC: 75,501 states of
the run (`ClientIInv` too), and 364,149 of `Channel` with 4 sockets and requests; that `ChannelIInv` is inductive it
checked first from every state that satisfies it, with 2 sockets and requests.

### The broker's own machine

`WorkProofs` proves the six properties of run `work`, part by part:

- `BindingsAreOwn`, `NobodySlipsIn`: from `OwnersIInv`. An e-mail that is not contested has one
  login or one demolition between its awaits (`OneFlight`, `OneWreck`, `FlightOrWreck`), and that
  one still has the binding it started from (`FlightsAreBound`, `WrecksAreBound`), so what it frees
  is its own; `OwnedOrAdrift` gives each herdr an owner. `NobodySlipsIn` adds `AccessIInv`. TLC:
  1,405,168 states of `Owners`.
- `GitTakesNamedOnly`: from `RepoIInv`: an unmerged file of a pull or a pop is there only while its
  call is, unless the call failed to see or abort it (`OwnConflictsEnd`), and a discard knows no name
  but those of its preview (`KnowsNamed`), whatever the agent's own git does in between. It does not
  say that a preview showed every file below those names: run `repo_unseen` shows that it need not.
- `OneBrokerServes`: from `BootIInv` and `ModulesIInv`.
- `SpawnsAreReady`: from `LaunchIInv`, which says of each spawn, its file and its shell at every
  stage: a file is there for a shell that has yet to read it (`FileAwaitsShell`), the variables
  resolved are those due (`VarsAreDue`), and the shell has them or reads them from its file
  (`ShellGetsVars`); and from `TrustIInv`. That the resolved ones are those due rests on the fold
  over the entries. TLC: 1,199,304 states of `Launch`.
- `FlagsAndTextsKept`: from `ContextIInv`; what a prompt inlines within its budget is a recursive
  function and a sum, `Inlined` and `Total`.

Facts about folds and recursive functions need induction over data. Where the statement is
first-order it is proved by the least counterexample: the set of lengths for which it fails
has a least element (`WFMin` with `NatLessThanWellFounded`), which the recursive equation refutes.

### Only model-checked

- Liveness, since the prover has neither fairness nor ENABLED: `EventuallyOnline`,
  `EveryCallSettles`, `TapsStopUndisturbed`, `EventuallyInStep`, `EveryAskSettles`, and of
  `EdgeCatchesUp` that the channel comes back and that a viewer catches up.

No invariant and no action property is only model-checked.

## 6. Not modelled

Listed with reasons in `PROJECT.json`: UI, demo web app, module template and release scripts (no
logic of the system; the demo's API catalogue and canned responses are data); the NDJSON codec
and the tables of profiles and models (pure, unit-tested); the audit trail (append-only, nothing
reads it back); git verbs that only read, or that push and clone (they destroy nothing in the
tree); read-only admin routes. What a prompt says, how a screen is laid out and every name's
syntax are left out throughout.

## 7. Plan

1. Done: tunnel, calls, taps, and the two abstract specifications of presence and calls; local attach; stores; asks, execs,
   waits, transcripts; the API and its clients; access, owners, boot, modules; git, spawn
   environment, trust, attachments.
2. Done: theorems for every invariant of the passing runs, for every action property and for
   both refinements.
   Left to TLC: liveness.
