------------------------------- MODULE Access -------------------------------
(***************************************************************************)
(* Who is let in: client tokens, which the daemon keeps in the config it   *)
(* read when it booted and writes back to config.toml as a whole; the      *)
(* sockets, presences and requests that carry a token; the limiter of      *)
(* failed attempts.  The admin and /auth routes of src/http.ts, the        *)
(* upgrade and closeToken of src/ws-server.ts, src/auth.ts,                *)
(* src/auth-limit.ts, src/presence.ts, src/config.ts, and the `pair` of    *)
(* src/cli.ts, which rewrites the same file from another process.          *)
(*                                                                         *)
(* Secrets are their token's name.  One address is modelled.               *)
(***************************************************************************)
EXTENDS Naturals

CONSTANTS Token, Socket, Request,
          MaxFailures,   \* AuthLimiter's maxFailures
          MaxPairs,      \* bound: runs of `pair`
          None

VARIABLES
  mem, disk,     \* client_tokens of the daemon's config and of config.toml
  parent,        \* [mem, disk, link]: number of the `pair` each one knows
  pair,          \* the CLI: [at, tokens, run]
  socket,        \* the token of each client socket
  request,       \* the token of each POST /auth whose body is awaited
  present,       \* tokens with a presence
  kicking,       \* tokens whose kick still logs panes out
  failures,      \* failed attempts in the limiter's window
  out,           \* tokens revoked and not issued since
  lingering,     \* tokens revoked by DELETE /admin/tokens, which closes no socket
  late,          \* tokens that identified after they were revoked
  overwritten    \* `pair` wrote back tokens it had read before a revocation

vars == <<mem, disk, parent, pair, socket, request, present, kicking, failures, out,
          lingering, late, overwritten>>
files == <<disk, parent, pair, overwritten>>

Init ==
  /\ mem = Token /\ disk = Token
  /\ parent = [mem |-> 0, disk |-> 0, link |-> 0]
  /\ pair = [at |-> "idle", tokens |-> {}, run |-> 0]
  /\ socket = [s \in Socket |-> None] /\ request = [r \in Request |-> None]
  /\ present = {} /\ kicking = {} /\ failures = 0
  /\ out = {} /\ lingering = {} /\ late = {} /\ overwritten = FALSE

Blocked == failures >= MaxFailures

\* mutant: the file keeps the tokens it had
BugKeepsFile(tokens) == mem' = tokens /\ UNCHANGED <<disk, parent>>

\* saveConfig(configDir, config): all the daemon knows, over all the file says.
Persists(tokens) ==
  /\ mem' = tokens /\ disk' = tokens
  /\ parent' = [parent EXCEPT !.disk = parent.mem]
-----------------------------------------------------------------------------
(* Letting in *)

\* Any valid token clears the address; a blocked one is refused before the
\* token is looked at.
Admits(t) == ~Blocked /\ t \in mem /\ failures' = 0

Identify(r, t) ==
  /\ request[r] = None /\ Admits(t)
  /\ request' = [request EXCEPT ![r] = t]
  /\ UNCHANGED <<mem, files, socket, present, kicking, out, lingering, late>>

\* presence.identify, once the body is there.
Identified(r) ==
  LET t == request[r] IN
  /\ t # None
  /\ request' = [request EXCEPT ![r] = None]
  /\ present' = present \cup {t}
  /\ late' = IF t \in mem THEN late ELSE late \cup {t}
  /\ UNCHANGED <<mem, files, socket, kicking, failures, out, lingering>>

Upgrade(s, t) ==
  /\ socket[s] = None /\ Admits(t)
  /\ socket' = [socket EXCEPT ![s] = t]
  /\ UNCHANGED <<mem, files, request, present, kicking, out, lingering, late>>

SocketCloses(s) ==
  /\ socket[s] # None
  /\ socket' = [socket EXCEPT ![s] = None]
  /\ UNCHANGED <<mem, files, request, present, kicking, failures, out, lingering, late>>

BadToken ==
  /\ ~Blocked /\ failures' = failures + 1
  /\ UNCHANGED <<mem, files, socket, request, present, kicking, out, lingering, late>>

\* The oldest failure leaves the window.
FailureExpires ==
  /\ failures > 0 /\ failures' = failures - 1
  /\ UNCHANGED <<mem, files, socket, request, present, kicking, out, lingering, late>>

\* presence.list() drops an entry that was not touched for its TTL.
PresenceExpires(t) ==
  /\ t \in present /\ present' = present \ {t}
  /\ UNCHANGED <<mem, files, socket, request, kicking, failures, out, lingering, late>>
-----------------------------------------------------------------------------
(* Tokens come and go *)

Closes(t) == socket' = [s \in Socket |-> IF socket[s] = t THEN None ELSE socket[s]]
Drops(t) ==
  \/ t \in mem /\ Persists(mem \ {t}) /\ out' = out \cup {t}
  \/ t \notin mem /\ UNCHANGED <<mem, disk, parent, out>>

\* POST /admin/tokens
Mint(t) ==
  /\ t \notin mem /\ Persists(mem \cup {t})
  /\ out' = out \ {t} /\ lingering' = lingering \ {t} /\ late' = late \ {t}
  /\ UNCHANGED <<pair, socket, request, present, kicking, failures, overwritten>>

\* DELETE /admin/tokens/{name}
Revoke(t) ==
  /\ t \in mem /\ Drops(t)
  /\ lingering' = lingering \cup {t}
  /\ UNCHANGED <<pair, socket, request, present, kicking, failures, late, overwritten>>

\* DELETE /auth
SelfKick(t) ==
  /\ Admits(t) /\ Drops(t) /\ Closes(t)
  /\ present' = present \ {t}
  /\ UNCHANGED <<pair, request, kicking, lingering, late, overwritten>>

\* POST /admin/kick/{name}: token and sockets at once; the presence goes when
\* every pane has been asked to log out.
Kick(t) ==
  /\ t \in mem \cup present /\ t \notin kicking
  /\ Drops(t) /\ Closes(t)
  /\ kicking' = kicking \cup {t}
  /\ UNCHANGED <<pair, request, present, failures, lingering, late, overwritten>>
KickEnds(t) ==
  /\ t \in kicking /\ kicking' = kicking \ {t}
  /\ present' = present \ {t}
  /\ UNCHANGED <<mem, files, socket, request, failures, out, lingering, late>>
-----------------------------------------------------------------------------
(* The file *)

\* `pair` reads config.toml, sets [parent] and writes the whole file back.
PairReads ==
  /\ pair.at = "idle" /\ pair.run < MaxPairs
  /\ pair' = [at |-> "read", tokens |-> disk, run |-> pair.run + 1]
  /\ UNCHANGED <<mem, disk, parent, socket, request, present, kicking, failures, out,
                 lingering, late, overwritten>>
PairWrites ==
  /\ pair.at = "read"
  /\ pair' = [pair EXCEPT !.at = "written"]
  /\ disk' = pair.tokens
  /\ parent' = [parent EXCEPT !.disk = pair.run]
  /\ overwritten' = (overwritten \/ disk # pair.tokens)
  /\ UNCHANGED <<mem, socket, request, present, kicking, failures, out, lingering, late>>

\* An operator edits [[client_tokens]].
Edits(tokens) ==
  /\ disk # tokens /\ disk' = tokens
  /\ out' = out \ tokens
  /\ UNCHANGED <<mem, parent, pair, socket, request, present, kicking, failures, lingering,
                 late, overwritten>>

\* POST /admin/reload, best effort after `pair`: the parent's link is started
\* from the file as it is now; config, which every check reads, is not.
Reload ==
  /\ pair' = [pair EXCEPT !.at = "idle"]
  /\ parent' = [parent EXCEPT !.link = parent.disk]
  /\ UNCHANGED <<mem, disk, socket, request, present, kicking, failures, out, lingering,
                 late, overwritten>>

Restart ==
  /\ mem' = disk
  /\ parent' = [mem |-> parent.disk, disk |-> parent.disk, link |-> parent.disk]
  /\ socket' = [s \in Socket |-> None] /\ request' = [r \in Request |-> None]
  /\ present' = {} /\ kicking' = {} /\ failures' = 0
  /\ UNCHANGED <<disk, pair, out, lingering, late, overwritten>>

Next ==
  \/ \E t \in Token : \/ \E r \in Request : Identify(r, t)
                      \/ \E s \in Socket : Upgrade(s, t)
                      \/ PresenceExpires(t) \/ Mint(t) \/ Revoke(t) \/ SelfKick(t)
                      \/ Kick(t) \/ KickEnds(t)
  \/ \E r \in Request : Identified(r)
  \/ \E s \in Socket : SocketCloses(s)
  \/ BadToken \/ FailureExpires \/ PairReads \/ PairWrites \/ Reload \/ Restart
  \/ \E tokens \in SUBSET Token : Edits(tokens)

Spec == Init /\ [][Next]_vars
-----------------------------------------------------------------------------
(* Properties *)

\* A token that was kicked or revoked, and not issued again, is let in by
\* nothing: not by the running daemon, nor by the file a next one boots from,
\* unless `pair` wrote back tokens it had read before; and no socket or
\* presence outlives it, but for what is documented (DELETE /admin/tokens leaves
\* sockets alone), a kick still under way, and an identify that came in late.
OutIsOut ==
  \A t \in out :
    /\ ~overwritten => t \notin mem \cup disk
    /\ t \notin mem /\ t \notin lingering =>
         /\ \A s \in Socket : socket[s] # t
         /\ t \in present => t \in kicking \cup late
=============================================================================
