-------------------------------- MODULE Watch --------------------------------
(***************************************************************************)
(* Something that changes, followed by long polls: the screen of a pane    *)
(* (screen of workspace-ops.ts, watchScreen of the SDK, useScreen) and a   *)
(* spec bundle (specDrive and specGet, follow of the SDK).  The server     *)
(* answers when the version differs from the one the client knows, or says *)
(* "unchanged" at its deadline; the client asks again with what it got.    *)
(* A viewer that switches to another source stops its loop and starts a    *)
(* new one, while a request of the old loop may still be answered.         *)
(***************************************************************************)
EXTENDS Naturals

CONSTANTS Source,     \* panes, screen sources, bundles
          Loop,       \* watch loops
          MaxVersion, \* bound: versions of a source; 0 is one that is not there
          None

VARIABLES
  version,  \* the version of each source
  loop,     \* each loop: [at, src, known, reply]
  viewer,   \* the loop of the effect that runs now, None: not live
  frame     \* what the viewer shows: [src, version]

watchVars == <<version, loop, viewer, frame>>

Version == 0..MaxVersion
Unborn == [at |-> "unborn", src |-> None, known |-> None, reply |-> None]
Init ==
  /\ version \in [Source -> {0, 1}]
  /\ loop = [l \in Loop |-> Unborn]
  /\ viewer = None
  /\ frame = [src |-> None, version |-> 0]
-----------------------------------------------------------------------------
(* The source *)

Changes(s) ==
  /\ version[s] > 0 /\ version[s] < MaxVersion
  /\ version' = [version EXCEPT ![s] = @ + 1]
  /\ UNCHANGED <<loop, viewer, frame>>

\* specDrive makes the bundle with its overview, if it is not there.
Drive(s) ==
  /\ version[s] = 0
  /\ version' = [version EXCEPT ![s] = 1]
  /\ UNCHANGED <<loop, viewer, frame>>
-----------------------------------------------------------------------------
(* The server: one pass of its loop answers, or it sleeps and reads again.   *)

Reply(l, r) == loop' = [loop EXCEPT ![l].at = "replied", ![l].reply = r]

Differs(l) == loop[l].known = None \/ version[loop[l].src] # loop[l].known

Answers(l) ==
  /\ loop[l].at = "asking"
  /\ \/ /\ version[loop[l].src] = 0
        /\ Reply(l, [kind |-> "error"])
     \/ /\ version[loop[l].src] > 0 /\ Differs(l)
        /\ Reply(l, [kind |-> "changed", version |-> version[loop[l].src]])
     \/ /\ version[loop[l].src] > 0 /\ ~Differs(l)
        /\ Reply(l, [kind |-> "unchanged", version |-> version[loop[l].src]])
  /\ UNCHANGED <<version, viewer, frame>>

\* The request or its answer is lost: it times out at the client.
Lost(l) ==
  /\ loop[l].at = "asking"
  /\ Reply(l, [kind |-> "error"])
  /\ UNCHANGED <<version, viewer, frame>>
-----------------------------------------------------------------------------
(* The client *)

\* The effect of useScreen: a new loop takes the place of the running one.
Starts(l, s) ==
  /\ loop[l].at = "unborn"
  /\ loop' = [loop EXCEPT ![l] = [Unborn EXCEPT !.at = "asking", !.src = s]]
  /\ viewer' = l
  /\ UNCHANGED <<version, frame>>

Pauses ==
  /\ viewer # None
  /\ viewer' = None
  /\ UNCHANGED <<version, loop, frame>>

BugStopsOnPause(l) == viewer = None
Stopped(l) == l # viewer

\* The reply reaches the loop: a stopped one ends, a changed version is shown.
Receives(l) ==
  /\ loop[l].at = "replied"
  /\ LET r == loop[l].reply IN
     \/ /\ Stopped(l)
        /\ loop' = [loop EXCEPT ![l] = [Unborn EXCEPT !.at = "ended"]]
        /\ UNCHANGED frame
     \/ /\ ~Stopped(l) /\ r.kind = "error"
        /\ loop' = [loop EXCEPT ![l].at = "backoff", ![l].reply = None]
        /\ UNCHANGED frame
     \/ /\ ~Stopped(l) /\ r.kind # "error"
        /\ loop' = [loop EXCEPT ![l].at = "asking", ![l].known = r.version, ![l].reply = None]
        /\ frame' = IF r.kind = "changed" THEN [src |-> loop[l].src, version |-> r.version]
                                          ELSE frame
  /\ UNCHANGED <<version, viewer>>

Retries(l) ==
  /\ loop[l].at = "backoff"
  /\ loop' = [loop EXCEPT ![l] = IF Stopped(l) THEN [Unborn EXCEPT !.at = "ended"]
                                               ELSE [@ EXCEPT !.at = "asking"]]
  /\ UNCHANGED <<version, viewer, frame>>

Next ==
  \/ \E s \in Source : Changes(s) \/ Drive(s) \/ \E l \in Loop : Starts(l, s)
  \/ \E l \in Loop : Answers(l) \/ Lost(l) \/ Receives(l) \/ Retries(l)
  \/ Pauses
Spec == Init /\ [][Next]_watchVars

\* The server reads again every half second, timers fire, answers arrive; a
\* request may be lost, but not every one.
Fairness ==
  \A l \in Loop : SF_watchVars(Answers(l)) /\ WF_watchVars(Receives(l)) /\ WF_watchVars(Retries(l))
FairSpec == Spec /\ Fairness
-----------------------------------------------------------------------------
(* Properties *)

\* The viewer never goes back: what is shown next is of the source chosen last,
\* and of the same source no older version, whatever requests of loops that
\* were stopped are answered late.
NeverGoesBack ==
  [][frame' # frame =>
       /\ viewer # None /\ frame'.src = loop[viewer].src
       /\ frame'.src = frame.src => frame'.version > frame.version]_watchVars

\* A viewer left on a source that stops to change shows its last version.
ViewerCatchesUp ==
  \A l \in Loop, s \in Source :
    <>[](viewer = l /\ loop[l].src = s /\ version[s] > 0)
      => <>[](frame = [src |-> s, version |-> version[s]])
=============================================================================
