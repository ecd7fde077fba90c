-------------------------------- MODULE Http --------------------------------
(***************************************************************************)
(* A call of the client SDK (packages/client) on its way through the       *)
(* broker's HTTP API (src/http.ts) to the operation that serves it: the    *)
(* path the SDK writes, what a URL makes of it, the route that matches,    *)
(* the session's owner, the body that is read before the operation runs,   *)
(* and who gives up first when the instance never answers.                 *)
(*                                                                         *)
(* A name is a string that needs no escaping; "$1" and "$2" stand in a     *)
(* path for the names a call gives, "*" for a segment a route binds.       *)
(***************************************************************************)
EXTENDS Naturals, Sequences, FiniteSets, TLC, SequencesExt

CONSTANTS
  Name,     \* the names a call may give of agents, workspaces, repositories, files
  Millis,   \* the deadlines a caller may set
  None

VARIABLES
  call,     \* the SDK's call: [name, args, t]
  wire,     \* the request as the broker receives it: [verb, parts]
  passed,   \* the route a request was let through to, while its body is read
  seen,     \* the session as it was when the request was let through
  answer,   \* what the SDK is told: [code, op, args]
  session   \* the session of the path

vars == <<call, wire, passed, seen, answer, session>>

\* Names that change a path, or stand for something else on the wire.
Empty == ""
Odd == {Empty, ".", "..", "-"}
Plain(args) == {args[1], args[2]} \cap Odd = {}

\* The elements of seq at the positions of S, in their order.
Picked(seq, S) == FoldLeftDomain(LAMBDA kept, n : IF n \in S THEN Append(kept, seq[n]) ELSE kept, <<>>, seq)
-----------------------------------------------------------------------------
(* The SDK: what each method sends, and the operation it is the name of *)

S(verb, path, op) == [verb |-> verb, path |-> path, op |-> op]
Instance == <<"v1", "instances", "runtime">>
Session  == Instance \o <<"sessions", "s">>
Agent    == Session \o <<"agents", "$1">>
Working  == Session \o <<"workspaces", "$1">>

TopCalls ==
  [verify   |-> S("GET", <<"instances">>, "instances"),
   identify |-> S("POST", <<"auth">>, "identify"),
   signOut  |-> S("DELETE", <<"auth">>, "signOut")]
InstanceCalls ==
  [detail    |-> S("GET", Instance, "detail"),
   sessions  |-> S("GET", Instance \o <<"sessions">>, "sessions"),
   models    |-> S("GET", Instance \o <<"models">>, "models.list"),
   envSet    |-> S("POST", Instance \o <<"env">>, "env.set"),
   envList   |-> S("GET", Instance \o <<"env">>, "env.list"),
   envDelete |-> S("DELETE", Instance \o <<"env", "$1">>, "env.delete")]
SessionCalls ==
  [agents         |-> S("GET", Session \o <<"agents">>, "agents"),
   workspaces     |-> S("GET", Session \o <<"workspaces">>, "workspace.list"),
   teardown       |-> S("DELETE", Session, "teardown"),
   closeWorkspace |-> S("DELETE", Working, "workspace.close"),
   worktrees      |-> S("GET", Working \o <<"worktrees">>, "worktree.list"),
   removeWorktree |-> S("DELETE", Session \o <<"worktrees", "$1">>, "worktree.remove"),
   spawn          |-> S("POST", Session \o <<"agents">>, "agent.spawn"),
   rpc            |-> S("POST", Session \o <<"rpc">>, "rpc")]
ContextCalls ==
  LET at == Working \o <<"context">> IN
  [list     |-> S("GET", at, "context.list"),
   upload   |-> S("PUT", at \o <<"$2">>, "context.put"),
   download |-> S("GET", at \o <<"$2">>, "context.get"),
   set      |-> S("POST", at \o <<"$2">>, "context.set"),
   delete   |-> S("DELETE", at \o <<"$2">>, "context.delete")]
\* The repository at the workspace's root is "." to the SDK and "-" on the wire.
RepoCalls ==
  LET at == Working \o <<"repos", "$repo">>
      git(verb, name, op) == S(verb, at \o <<"git", name>>, op)
  IN [tree |-> S("GET", at \o <<"tree">>, "repo.tree"), file |-> S("GET", at \o <<"file">>, "repo.file"),
      diff |-> git("GET", "diff", "repo.diff"), log |-> git("GET", "log", "repo.log"),
      commit |-> git("POST", "commit", "repo.commit"), push |-> git("POST", "push", "repo.push"),
      checkout |-> git("POST", "checkout", "repo.checkout"), pull |-> git("POST", "pull", "repo.pull"),
      discard |-> git("POST", "discard", "repo.discard"), stash |-> git("POST", "stash", "repo.stash"),
      stashList |-> git("GET", "stash", "repo.stash_list"),
      stashPop  |-> S("POST", at \o <<"git", "stash", "pop">>, "repo.stash_pop")]
TurnCalls ==
  [prompt  |-> S("POST", Agent \o <<"prompt">>, "agent.prompt"),
   ask     |-> S("POST", Agent \o <<"ask">>, "agent.ask"),
   slash   |-> S("POST", Agent \o <<"slash", "$2">>, "agent.slash"),
   model   |-> S("POST", Agent \o <<"model">>, "agent.model"),
   wait    |-> S("POST", Agent \o <<"wait">>, "agent.wait"),
   explain |-> S("GET", Agent \o <<"explain">>, "agent.explain"),
   stop    |-> S("DELETE", Agent, "agent.stop")]
PaneCalls ==
  [screen |-> S("GET", Session \o <<"panes", "$1", "screen">>, "pane.screen")]
SpecCalls ==
  [spec |-> S("POST", Agent \o <<"spec-bundles">>, "spec.drive"),
   plan |-> S("POST", Agent \o <<"spec-bundles", "$2", "plan">>, "spec.plan")]
BundleCalls ==
  [listBundles |-> S("GET", Working \o <<"spec-bundles">>, "spec.list"),
   getBundle   |-> S("GET", Working \o <<"spec-bundles", "$2">>, "spec.get"),
   follow      |-> S("GET", Working \o <<"spec-bundles", "$2">>, "spec.get")]
Tables == {TopCalls, InstanceCalls, SessionCalls, ContextCalls, RepoCalls,
           TurnCalls, PaneCalls, SpecCalls, BundleCalls}
Calls == [name \in UNION {DOMAIN table : table \in Tables} |->
            (CHOOSE table \in Tables : name \in DOMAIN table)[name]]

ASSUME HttpAssumption ==
  /\ Millis \subseteq Nat \ {0}
  /\ None \notin [name : DOMAIN Calls, args : Name \X Name, t : Millis]

Filled(path, args) ==
  [n \in DOMAIN path |->
     CASE path[n] = "$1" -> args[1]
       [] path[n] = "$2" -> args[2]
       [] path[n] = "$repo" -> IF args[2] = "." THEN "-" ELSE args[2]
       [] OTHER -> path[n]]

\* A URL has no "." segment and takes ".." back; the broker drops empty ones.
Collapsed(path) ==
  LET enter(dir, seg) == CASE seg = "." -> dir
                           [] seg = ".." -> IF dir = <<>> THEN dir ELSE Front(dir)
                           [] OTHER -> Append(dir, seg)
      dirs == FoldLeft(enter, <<>>, path)
  IN Picked(dirs, {n \in DOMAIN dirs : dirs[n] # Empty})
-----------------------------------------------------------------------------
(* The broker's routes, in the order they are tried *)

R(verb, path, op) == [verb |-> verb, path |-> path, op |-> op]

EnvRoutes == << R("POST", <<"env">>, "env.set"), R("GET", <<"env">>, "env.list"),
                R("DELETE", <<"env", "*">>, "env.delete") >>
ModelRoutes == << R("GET", <<"models">>, "models.list") >>
SessionRoutes == << R("DELETE", <<>>, "teardown") >>
AgentRoutes ==
  << R("GET", <<"agents">>, "agents"), R("POST", <<"agents">>, "agent.spawn"),
     R("POST", <<"agents", "*", "wait">>, "agent.wait"), R("GET", <<"agents", "*", "explain">>, "agent.explain"),
     R("DELETE", <<"agents", "*">>, "agent.stop") >>
WorkspaceRoutes ==
  << R("GET", <<"workspaces">>, "workspace.list"), R("GET", <<"resumable">>, "session.resumable"),
     R("GET", <<"orphans">>, "session.orphans"), R("DELETE", <<"workspaces", "*">>, "workspace.close"),
     R("GET", <<"workspaces", "*", "worktrees">>, "worktree.list"),
     R("DELETE", <<"worktrees", "*">>, "worktree.remove"),
     R("GET", <<"workspaces", "*", "repos", "*", "tree">>, "repo.tree"),
     R("GET", <<"workspaces", "*", "repos", "*", "file">>, "repo.file"),
     R("GET", <<"workspaces", "*", "repos", "*", "git", "diff">>, "repo.diff") >>
ContextRoutes ==
  LET at == <<"workspaces", "*", "context">> IN
  << R("GET", at, "context.list"), R("PUT", at \o <<"*">>, "context.put"), R("GET", at \o <<"*">>, "context.get"),
     R("POST", at \o <<"*">>, "context.set"), R("DELETE", at \o <<"*">>, "context.delete") >>
GitRoutes ==
  LET git(verb, name, op) == R(verb, <<"workspaces", "*", "repos", "*", "git", name>>, op) IN
  << git("GET", "log", "repo.log"), git("POST", "commit", "repo.commit"), git("POST", "push", "repo.push"),
     git("POST", "checkout", "repo.checkout"), git("POST", "pull", "repo.pull"),
     git("POST", "discard", "repo.discard"), git("GET", "stash", "repo.stash_list"),
     git("POST", "stash", "repo.stash"),
     R("POST", <<"workspaces", "*", "repos", "*", "git", "stash", "pop">>, "repo.stash_pop") >>
TurnRoutes ==
  << R("POST", <<"agents", "*", "ask">>, "agent.ask"), R("POST", <<"agents", "*", "model">>, "agent.model"),
     R("POST", <<"agents", "*", "prompt">>, "agent.prompt"),
     R("POST", <<"agents", "*", "slash", "*">>, "agent.slash") >>
SpecRoutes ==
  << R("POST", <<"agents", "*", "spec-bundles">>, "spec.drive"),
     R("POST", <<"agents", "*", "spec-bundles", "*", "plan">>, "spec.plan"),
     R("GET", <<"workspaces", "*", "spec-bundles">>, "spec.list"),
     R("GET", <<"workspaces", "*", "spec-bundles", "*">>, "spec.get") >>
PaneRoutes ==
  << R("GET", <<"panes", "*", "screen">>, "pane.screen"), R("POST", <<"panes", "*", "exec">>, "pane.exec"),
     R("POST", <<"rpc">>, "rpc") >>
InSession == SessionRoutes \o AgentRoutes \o WorkspaceRoutes \o ContextRoutes \o GitRoutes
               \o TurnRoutes \o SpecRoutes \o PaneRoutes

Fits(path, parts) == Len(path) = Len(parts) /\ \A n \in DOMAIN path : path[n] \in {"*", parts[n]}
Bound(path, parts) == Picked(parts, {n \in DOMAIN path : path[n] = "*"})
Refused(code) == [code |-> code, op |-> None, args |-> <<>>]
Matched(routes, verb, parts, else) ==
  LET hits == {n \in DOMAIN routes : routes[n].verb = verb /\ Fits(routes[n].path, parts)} IN
  IF hits = {} THEN else
  ELSE LET r == routes[CHOOSE n \in hits : \A k \in hits : n <= k]
       IN [code |-> "ok", op |-> r.op, args |-> Bound(r.path, parts)]

BugOwnerUnchecked(name, s) == name = "s" /\ s # "absent"
\* A session of somebody else's is answered for as one that does not exist.
Visible(name, s) == name = "s" /\ s \in {"mine", "shared"}
Routed(verb, parts, s) ==
  LET head == IF parts = <<>> THEN None ELSE parts[1]
      rest == SubSeq(parts, 3, Len(parts))
      inSession ==
        IF Len(rest) >= 2 /\ rest[1] = "sessions" /\ Visible(rest[2], s)
        THEN Matched(InSession, verb, SubSeq(rest, 3, Len(rest)), Refused("bad_request"))
        ELSE Refused("unknown_session")
  IN IF head = "auth" /\ Len(parts) = 1 /\ verb \in {"POST", "DELETE"}
     THEN [code |-> "ok", op |-> IF verb = "POST" THEN "identify" ELSE "signOut", args |-> <<>>]
     ELSE IF head # "instances" THEN Refused("unknown_instance")
     ELSE IF Len(parts) = 1 /\ verb = "GET" THEN [code |-> "ok", op |-> "instances", args |-> <<>>]
     ELSE IF Len(parts) < 2 \/ parts[2] # "runtime" THEN Refused("unknown_instance")
     ELSE IF rest = <<>> /\ verb = "GET" THEN [code |-> "ok", op |-> "detail", args |-> <<>>]
     ELSE IF rest = <<"sessions">> /\ verb = "GET" THEN [code |-> "ok", op |-> "sessions", args |-> <<>>]
     ELSE Matched(EnvRoutes \o ModelRoutes, verb, rest, inSession)

\* The prefix of the API's version is optional.
Unversioned(parts) == IF parts # <<>> /\ parts[1] = "v1" THEN Tail(parts) ELSE parts
Handled(w, s) == Routed(w.verb, Unversioned(w.parts), s)

\* What runBrokerMethod serves; the rest of the operations are http.ts's own.
Served ==
  {"env.set", "env.list", "env.delete", "models.list",
   "workspace.close", "workspace.list", "session.orphans", "session.resumable", "worktree.list",
   "worktree.remove", "repo.tree", "repo.diff", "repo.file", "repo.commit", "repo.log", "repo.push",
   "context.put", "context.list", "context.get", "context.set", "context.delete", "repo.pull",
   "repo.discard", "repo.stash", "repo.stash_list", "repo.stash_pop", "repo.checkout",
   "agent.spawn", "pane.screen", "pane.exec", "agent.stop", "agent.wait", "agent.explain", "agent.ask",
   "agent.model", "agent.slash", "agent.prompt", "spec.drive", "spec.plan", "spec.get", "spec.list"}
Own == {"instances", "detail", "sessions", "agents", "teardown", "identify", "signOut", "rpc"}
Global == {"env.set", "env.list", "env.delete", "models.list"}
-----------------------------------------------------------------------------
(* Who gives up first when the instance is a child that never answers *)

Clamp(t, lo, hi) == IF t < lo THEN lo ELSE IF t > hi THEN hi ELSE t
\* http.ts's deadline for an operation, and the grace the tunnel adds.
BrokerWaits(op, t) ==
  1000 + CASE op = "agent.spawn" -> Clamp(t, 1000, 600000) + 30000
           [] op = "agent.wait" -> Clamp(t, 1000, 600000) + 15000
           [] op = "agent.ask" -> Clamp(t, 1000, 600000) + 45000
           [] op \in {"pane.screen", "spec.get"} -> Clamp(t, 0, 30000) + 15000
           [] op = "rpc" -> t
           [] op = "context.put" -> 60000
           [] op \in {"spec.drive", "spec.plan"} -> 45000
           [] op \in {"repo.commit", "repo.push", "repo.checkout", "repo.pull", "repo.discard",
                      "repo.stash", "repo.stash_pop"} -> 90000
           [] OTHER -> 15000
\* The SDK's own deadline, of a call that has one; follow's is that of its polls
\* once it knows a version.
SdkWaits(name, t) ==
  CASE name = "ask" -> t + 60000
    [] name = "wait" -> t + 30000
    [] name \in {"rpc", "screen", "follow"} -> t + 15000
    [] name \in {"commit", "checkout", "discard", "stash", "stashPop", "spec", "plan"} -> 60000
    [] name \in {"push", "pull"} -> 90000
Limited == {"ask", "wait", "rpc", "screen", "follow", "commit", "checkout", "discard",
            "stash", "stashPop", "spec", "plan", "push", "pull"}
SdkFirst(name, op, t) == name \in Limited /\ SdkWaits(name, t) < BrokerWaits(op, t)
-----------------------------------------------------------------------------
Init ==
  /\ call = None /\ wire = None /\ passed = None /\ seen = None /\ answer = None
  /\ session \in {"mine", "theirs", "shared", "absent"}

Sends(name, args, t) ==
  /\ call = None
  /\ call' = [name |-> name, args |-> args, t |-> t]
  /\ wire' = [verb |-> Calls[name].verb, parts |-> Collapsed(Filled(Calls[name].path, args))]
  /\ UNCHANGED <<passed, seen, answer, session>>

\* A request is let through or refused; one with a body waits for the rest of it.
Receives ==
  /\ wire # None /\ passed = None /\ answer = None
  /\ LET h == Handled(wire, session) IN
       IF h.code = "ok" THEN passed' = h /\ UNCHANGED answer ELSE answer' = h /\ UNCHANGED passed
  /\ seen' = session
  /\ UNCHANGED <<call, wire, session>>

ReadsBody(p) == wire.verb \in {"POST", "PUT"} /\ p.op # "repo.stash_pop"

\* callInstance looks the session up again, but not its owner.  Only a session
\* that has one can be torn down.
Runs ==
  /\ passed # None /\ answer = None
  /\ answer' = IF passed.op \notin Served \cup Own \/ (passed.op = "teardown" /\ session # "mine")
                 THEN Refused("bad_request")
               ELSE IF passed.op \in (Served \cup {"rpc"}) \ Global /\ session = "absent"
                    THEN Refused("unknown_session") ELSE passed
  /\ UNCHANGED <<call, wire, passed, seen, session>>

\* The child never answers.
GivesUp ==
  /\ passed # None /\ answer = None /\ passed.op \in Served \cup {"rpc"}
  /\ answer' = Refused(IF SdkFirst(call.name, passed.op, call.t) THEN "network" ELSE "timeout")
  /\ UNCHANGED <<call, wire, passed, seen, session>>

\* Sessions are torn down and provisioned by others; a request without a body is
\* let through and run in one turn of the event loop.
Moves(to) ==
  /\ ~(passed # None /\ answer = None /\ ~ReadsBody(passed))
  /\ \/ session \in {"mine", "theirs"} /\ to = "absent"
     \/ session = "absent" /\ to \in {"mine", "theirs"}
  /\ session' = to
  /\ UNCHANGED <<call, wire, passed, seen, answer>>

Next ==
  \/ \E name \in DOMAIN Calls, args \in Name \X Name, t \in Millis : Sends(name, args, t)
  \/ Receives \/ Runs \/ GivesUp
  \/ \E to \in {"mine", "theirs", "absent"} : Moves(to)
Spec == Init /\ [][Next]_vars
-----------------------------------------------------------------------------
(* Properties *)

\* What a route binds, with the root repository under the SDK's name for it.
Meant(name, args) ==
  LET path == Calls[name].path
  IN Picked([n \in DOMAIN path |-> IF path[n] = "$1" THEN args[1] ELSE args[2]],
            {n \in DOMAIN path : path[n] \in {"$1", "$2", "$repo"}})

\* A call with proper names runs the operation it is called for, on the objects
\* it names, or none; also one on the repository at the root.  A name that is
\* empty or made of dots changes the path, and with it the operation.
CallsReachTheirOperation ==
  answer # None /\ answer.op # None
  /\ \/ Plain(call.args)
     \/ call.args[1] \notin Odd /\ call.args[2] = "." /\ call.name \in DOMAIN RepoCalls
  =>
    /\ answer.op = Calls[call.name].op
    /\ [n \in DOMAIN answer.args |-> IF answer.args[n] = "-" THEN "." ELSE answer.args[n]]
         = Meant(call.name, call.args)

\* A visible session refuses no call of the SDK, but its teardown if nobody owns it.
EveryCallHasARoute ==
  answer # None /\ Plain(call.args) /\ seen \in {"mine", "shared"} /\ answer.code = "bad_request"
    => call.name = "teardown" /\ seen = "shared"

\* Somebody else's session cannot be told from one that does not exist.
PrivateLooksAbsent ==
  answer # None /\ seen = "theirs" => answer \in {Handled(wire, "absent"), Refused("timeout"), Refused("network")}

\* The SDK waits for the broker's own verdict, but for the git verbs, whose
\* 60 s or 90 s are less than the broker's 91, and the long polls of a screen
\* and of a bundle.
BrokerGivesUpFirst ==
  answer # None /\ answer.code = "network" =>
    call.name \in {"commit", "checkout", "discard", "stash", "stashPop", "push", "pull",
                     "screen", "follow"}
=============================================================================
