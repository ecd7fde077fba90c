---------------------------- MODULE TunnelMirror ----------------------------
(***************************************************************************)
(* How far the parent's entry mirrors the child's roster.  The tunnel of   *)
(* Tunnel.tla is watched by a history variable that records the ways a     *)
(* mirror can start to lie: the hello that enrolled a connection carried a *)
(* snapshot started for an earlier one (a slow snapshot outlives its       *)
(* connection and is sent on the next), or one in which herdr's answer for *)
(* a session was not what the child's registry held; a frame of a replaced *)
(* connection that is still closing was applied to the fresh entry; a      *)
(* refresh wrote an answer of the child's herdr into the entry.            *)
(***************************************************************************)
EXTENDS Tunnel, SequencesExt

VARIABLE drifted

MirrorInit == Init /\ drifted = FALSE

EnrollWatched(c) ==
  Enroll(c) /\ drifted' = (Head(up[c]).of # c \/ ~Head(up[c]).exact)
RouteWatched(c) == Route(c) /\ drifted' = (drifted \/ hub # c)
RefreshWatched(s, agents) ==
  AgentsRefreshed(s, agents) /\ drifted' = (drifted \/ agents # sessions[s])

Others(c) ==
  \/ HelloTimeout(c) \/ BadHello(c) \/ ParentClosed(c) \/ ParentFails(c)
  \/ ChildStep(c)

MirrorNext ==
  \/ \E c \in Conn : EnrollWatched(c) \/ RouteWatched(c) \/ (Others(c) /\ UNCHANGED drifted)
  \/ (RosterStep \/ Disconnect \/ ParentRestart) /\ UNCHANGED drifted
  \/ \E s \in Session, agents \in Agents : RefreshWatched(s, agents)

MirrorSpec == MirrorInit /\ [][MirrorNext]_<<vars, drifted>> /\ Fairness
-----------------------------------------------------------------------------
\* The entry after one frame, and after every frame still under way.
Applied(entry, f) ==
  IF f \in CallFrame \/ f.type = "hello" THEN entry
  ELSE CASE f.kind = "agent_status"    -> AgentStatusApplied(entry, f.session, f.agent, f.status)
         [] f.kind = "session_added"   -> SessionAddedApplied(entry, f.session, f.agents)
         [] f.kind = "session_removed" -> SessionRemovedApplied(entry, f.session)

Replayed(entry, frames) == FoldLeft(Applied, entry, frames)

Connected == hub # None /\ hub = ws /\ cend[ws] = "open"

\* While child and parent share a connection, the parent's entry plus the
\* frames under way is exactly the child's roster: nothing happens between
\* the snapshot and the relay that neither carries.  The only exceptions
\* are the four ways to drift.
MirrorsChild == Connected /\ ~drifted => Replayed(sessions, up[ws]) = roster

\* Every session the parent lists for an online child has its local socket
\* (Projection), even though #syncInstance does not listen to agent_status,
\* which can create a session: that takes a frame of a replaced connection.
EverySessionProjected == online /\ ~drifted => Listed(sessions) \subseteq sockets

\* While both sides are connected, each thing the parent holds about the child
\* follows from what it was sent: the entry, and the sockets for its sessions.
ParentMirrors == MirrorsChild /\ EverySessionProjected
=============================================================================
