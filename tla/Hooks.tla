-------------------------------- MODULE Hooks --------------------------------
(***************************************************************************)
(* The React hooks of packages/react that await an answer and then set     *)
(* their state, without a look at what has happened since:                 *)
(*   gate     useVerify, useAuthGate, useSessionBar: which token is held,  *)
(*            and whether the gate is open;                                *)
(*   browser  useRepoBrowser and useLists: what is selected and shown;     *)
(*   panel    useEventsPanel: the subscription its buttons speak of.       *)
(* Each behaviour is one of one hook.  A hook that has two requests under  *)
(* way at a time is marked `overlap`: what it promises holds until then.   *)
(***************************************************************************)
EXTENDS FiniteSets

CONSTANTS Token,   \* tokens one can type in
          Repo,    \* repositories, or sessions with their roster
          Group,   \* subscription groups
          NoToken, \* the empty token
          None

VARIABLES
  hook, overlap,
  valid,     \* tokens the broker accepts
  hosted,    \* the token of the host app, and of its client
  gate,      \* useVerify's state
  checking,  \* tokens being verified
  minting, leaving,          \* a token was asked for; signOut is under way
  selected, tree, fetching,  \* the repository chosen, shown, and those asked for
  mounted, button,           \* the panel is there; `subscribed`
  ref,                       \* unsubRef: the group it would retire
  groups, joining            \* groups of the channel; subscribe requests under way

gateVars    == <<valid, hosted, gate, checking, minting, leaving>>
browserVars == <<selected, tree, fetching>>
panelVars   == <<mounted, button, ref, groups, joining>>
vars == <<hook, overlap, gateVars, browserVars, panelVars>>

Init ==
  /\ hook \in {"gate", "browser", "panel"} /\ overlap = FALSE
  /\ valid \in (IF hook = "gate" THEN SUBSET Token ELSE {{}})
  /\ hosted \in (IF hook = "gate" THEN Token \cup {NoToken} ELSE {NoToken})
  /\ gate = "checking" /\ minting = FALSE /\ leaving = FALSE
  /\ checking = IF hook = "gate" THEN {hosted} ELSE {}
  /\ selected = None /\ tree = None /\ fetching = {}
  /\ mounted = TRUE /\ button = FALSE /\ ref = None /\ groups = {} /\ joining = {}

Gate    == hook = "gate" /\ UNCHANGED <<hook, browserVars, panelVars>>
Browser == hook = "browser" /\ UNCHANGED <<hook, gateVars, panelVars>>
Panel   == hook = "panel" /\ UNCHANGED <<hook, gateVars, browserVars>>
-----------------------------------------------------------------------------
(* gate *)

\* The host (settings.tsx of the demo) keeps the client's token its own, so
\* every keystroke in the gate, shown while it is not open, is a new one.
Types(t) ==
  /\ Gate /\ gate # "ok"
  /\ hosted' = t
  /\ overlap' = (overlap \/ checking # {})
  /\ UNCHANGED <<valid, gate, checking, minting, leaving>>

\* verify(candidate); Enter is not blocked while another one is under way.
Verifies(t) ==
  /\ gate' = "checking"
  /\ checking' = checking \cup {t}
  /\ overlap' = (overlap \/ checking # {} \/ gate = "ok" \/ leaving)

Attempt ==
  /\ Gate /\ gate # "ok"
  /\ Verifies(hosted)
  /\ UNCHANGED <<valid, hosted, minting, leaving>>

\* requestToken(): the minted token is the host's before it is verified.
RequestToken ==
  /\ Gate /\ gate = "denied" /\ ~minting
  /\ minting' = TRUE
  /\ UNCHANGED <<overlap, valid, hosted, gate, checking, leaving>>
Minted(t) ==
  /\ Gate /\ minting /\ minting' = FALSE
  /\ \/ UNCHANGED <<overlap, valid, hosted, gate, checking>>
     \/ valid' = valid \cup {t} /\ hosted' = t /\ Verifies(t)
  /\ UNCHANGED leaving

\* An unreachable broker denies as well.
Verdict(t) == IF t \in valid THEN {"ok", "denied"} ELSE {"denied"}
Verified(t) ==
  /\ Gate /\ t \in checking
  /\ checking' = checking \ {t}
  /\ gate' \in Verdict(t)
  /\ UNCHANGED <<overlap, valid, hosted, minting, leaving>>

\* The bar is there whenever the host has a token.  kickOut() revokes the token
\* and, whatever the answer, ends in what logOff() is.
KickOut ==
  /\ Gate /\ hosted # NoToken /\ ~leaving
  /\ valid' \in {valid, valid \ {hosted}}
  /\ leaving' = TRUE
  /\ UNCHANGED <<overlap, hosted, gate, checking, minting>>

\* The host clears its token, and useVerify relocks a gate that is open.
LogOff ==
  /\ Gate /\ (hosted # NoToken \/ leaving)
  /\ hosted' = NoToken /\ leaving' = FALSE
  /\ gate' = IF gate = "ok" THEN "denied" ELSE gate
  /\ overlap' = (overlap \/ checking # {})
  /\ UNCHANGED <<valid, checking, minting>>
-----------------------------------------------------------------------------
(* browser *)

Browse(r) ==
  /\ Browser
  /\ selected' = r /\ tree' = None
  /\ fetching' = fetching \cup {r}
  /\ overlap' = (overlap \/ fetching # {})

\* load() clears what was chosen and asks for the roster.
Load ==
  /\ Browser
  /\ selected' = None /\ tree' = None
  /\ overlap' = (overlap \/ fetching # {})
  /\ UNCHANGED fetching

Fetched(r) ==
  /\ Browser /\ r \in fetching
  /\ fetching' = fetching \ {r}
  /\ tree' \in {tree, r}
  /\ UNCHANGED <<overlap, selected>>
-----------------------------------------------------------------------------
(* panel *)

Subscribe(g) ==
  /\ Panel /\ mounted /\ g \notin groups \cup joining
  /\ joining' = joining \cup {g}
  /\ overlap' = (overlap \/ joining \cup groups # {})
  /\ UNCHANGED <<mounted, button, ref, groups>>

Subscribed(g) ==
  /\ Panel /\ g \in joining
  /\ joining' = joining \ {g}
  /\ \/ groups' = groups \cup {g} /\ ref' = g /\ button' = TRUE
     \/ UNCHANGED <<groups, ref, button>>
  /\ UNCHANGED <<overlap, mounted>>

\* onClose, of whichever group.
GroupEnds(g) ==
  /\ Panel /\ g \in groups
  /\ groups' = groups \ {g}
  /\ ref' = None /\ button' = FALSE
  /\ UNCHANGED <<overlap, mounted, joining>>

Unsubscribe ==
  /\ Panel /\ mounted
  /\ groups' = groups \ {ref}
  /\ ref' = None /\ button' = FALSE
  /\ overlap' = (overlap \/ joining # {})
  /\ UNCHANGED <<mounted, joining>>

Unmount ==
  /\ Panel /\ mounted
  /\ mounted' = FALSE
  /\ groups' = groups \ {ref}
  /\ overlap' = (overlap \/ joining # {})
  /\ UNCHANGED <<button, ref, joining>>

Next ==
  \/ Attempt \/ RequestToken \/ KickOut \/ LogOff
  \/ \E t \in Token : Minted(t)
  \/ \E t \in Token \cup {NoToken} : Types(t) \/ Verified(t)
  \/ \E r \in Repo : Browse(r) \/ Fetched(r)
  \/ \E g \in Group : Subscribe(g) \/ Subscribed(g) \/ GroupEnds(g)
  \/ Load \/ Unsubscribe \/ Unmount
Spec == Init /\ [][Next]_vars
-----------------------------------------------------------------------------
(* Properties *)

\* "No token means not authenticated: re-lock the moment the host clears it."
LockedWithoutToken == hosted = NoToken => gate # "ok"

\* The tree shown is of the repository that is selected.
ShowsSelected == tree \in {None, selected}

\* Every group that still streams is one that unsubscribe() or the end of the
\* panel retires: "unmount and unsubscribe() retire it".
PanelOwnsGroups == groups \subseteq (IF mounted THEN {ref} ELSE {}) /\ (button /\ mounted => ref # None)

ShowsWhatIs == ~overlap => LockedWithoutToken /\ ShowsSelected /\ PanelOwnsGroups
=============================================================================
