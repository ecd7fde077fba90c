--------------------------- MODULE ChildPresence ---------------------------
(***************************************************************************)
(* What the parent promises whoever looks at an enrolled child: an online  *)
(* flag, the sessions last known of it, and the sockets through which its  *)
(* sessions are reached.  The tunnel (Tunnel.tla) implements this; of      *)
(* connections, frames and snapshots nothing is left here.                 *)
(***************************************************************************)
EXTENDS Registry

VARIABLES online, sessions, sockets

vars == <<online, sessions, sockets>>

Init == online = FALSE /\ sessions = NoSessions /\ sockets = {}

\* The child enrolls: every session it lists can be reached from now on.
ComesOnline(sess) ==
  /\ online' = TRUE
  /\ sessions' = sess
  /\ sockets' = sockets \cup Listed(sess)

\* A session appears or is replaced: that of an online child can be reached
\* at once, that of an offline one cannot.
SessionAppears(s, agents) ==
  /\ sessions' = [sessions EXCEPT ![s] = agents]
  /\ sockets' = IF online THEN sockets \cup Listed(sessions') ELSE sockets
  /\ UNCHANGED online

\* An agent of a session changes: no socket appears or goes.
AgentChanges(s, agents) ==
  /\ sessions' = [sessions EXCEPT ![s] = agents]
  /\ UNCHANGED <<online, sockets>>

\* One session ends, and its socket with it.
SessionEnds(s) ==
  /\ sessions' = [sessions EXCEPT ![s] = Gone]
  /\ sockets' = sockets \ {s}
  /\ UNCHANGED online

\* The child is gone: its sessions stay known, none can be reached.
GoesOffline ==
  /\ online
  /\ online' = FALSE
  /\ sockets' = {}
  /\ UNCHANGED sessions

Next ==
  \/ \E sess \in Sessions : ComesOnline(sess)
  \/ \E s \in Session, agents \in Agents : SessionAppears(s, agents) \/ AgentChanges(s, agents)
  \/ \E s \in Session : SessionEnds(s)
  \/ GoesOffline

Spec == Init /\ [][Next]_vars
=============================================================================
