------------------------------ MODULE Registry ------------------------------
(***************************************************************************)
(* What src/registry.ts keeps about ONE instance, and how each of its      *)
(* operations changes it.  The daemon's map of instances is a product of   *)
(* independent copies of this entry, so one copy is modelled.              *)
(*                                                                         *)
(* An entry is its `sessions` (a function to the agents of each session,   *)
(* or Gone for a session that is not listed) and its `online` flag.  The   *)
(* as_of stamp, the platform strings and the titles are left out.          *)
(***************************************************************************)
CONSTANTS Session,  \* names of herdr sessions
          Agent,    \* pane ids, the identity of an agent in a session
          Status,   \* working | blocked | idle
          Gone,     \* "this session is not in the entry"
          Absent    \* "this agent is not in the session"

ASSUME RegistryAssumption ==
  /\ Gone \notin [Agent -> Status \cup {Absent}]
  /\ Absent \notin Status

Agents   == [Agent -> Status \cup {Absent}]
Sessions == [Session -> Agents \cup {Gone}]

NoAgents   == [a \in Agent |-> Absent]
NoSessions == [s \in Session |-> Gone]

\* The sessions an entry lists.
Listed(sessions) == {s \in Session : sessions[s] # Gone}

(***************************************************************************)
(* applyAgentStatus: upsert one agent, creating its session when the entry *)
(* has none of that name.                                                  *)
(***************************************************************************)
BugStatusForAgents(sessions, s, a, st) == [sessions EXCEPT ![s] = st]
AgentStatusApplied(sessions, s, a, st) ==
  [sessions EXCEPT ![s] =
     [IF sessions[s] = Gone THEN NoAgents ELSE sessions[s] EXCEPT ![a] = st]]

\* applySessionAdded: the session's agents are replaced, not merged.
SessionAddedApplied(sessions, s, agents) == [sessions EXCEPT ![s] = agents]

\* applySessionRemoved.
SessionRemovedApplied(sessions, s) == [sessions EXCEPT ![s] = Gone]
=============================================================================
