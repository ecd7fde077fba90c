------------------------------- MODULE Owners -------------------------------
(***************************************************************************)
(* Session ownership: an email is bound to the first token that identifies *)
(* with it, and its one herdr session is started on that login and torn    *)
(* down by its owner or by an administrator.  POST /auth, the teardown and *)
(* the owners routes of src/http.ts over OwnerRegistry (src/owners.ts) and *)
(* HerdrProvisioner (src/provisioner.ts).                                  *)
(*                                                                         *)
(* The session of an email is named after it, so one key stands for both.  *)
(* The lock of POST /auth is keyed by the email as it was typed, the       *)
(* binding by the email in lower case.  A login waits for herdr and a      *)
(* demolition for the workspaces it closes; neither looks again at the     *)
(* binding it started from.                                                *)
(***************************************************************************)
EXTENDS FiniteSets

CONSTANTS Key, Form,      \* an email as typed is a key in some form
          Token,          \* names of client tokens
          Login, Demolition,   \* requests
          None

ASSUME OwnersAssumption == None \notin Token \cup Login /\ Key # {} /\ Token # {}

Email == Key \X Form
KeyOf(e) == e[1]

VARIABLES
  owners,    \* owners.json: the token each email is bound to
  locks,     \* provisionLocks: the login that holds each email
  tokens,    \* client tokens that are accepted
  herdr,     \* "none", "spawned", "socket": its file exists, "up": it answers
  attached,  \* sessions LocalHerdr lists
  login,     \* [at, token, email]
  demo,      \* [at, key, token, by]: the binding it started from
  contested, \* keys rebound or demolished while another request was about them
  adrift     \* keys whose herdr may run though their binding was removed

vars == <<owners, locks, tokens, herdr, attached, login, demo, contested, adrift>>

Stage   == {"idle", "read", "starting", "attaching", "told", "taken", "failed"}
Flights(k) == {l \in Login : KeyOf(login[l].email) = k /\ login[l].at \in {"starting", "attaching"}}
Wrecks(k)  == {d \in Demolition : demo[d].at = "closing" /\ demo[d].key = k}

TypeOK ==
  /\ owners \in [Key -> Token \cup {None}]
  /\ locks \in [Email -> Login \cup {None}]
  /\ tokens \subseteq Token
  /\ herdr \in [Key -> {"none", "spawned", "socket", "up"}]
  /\ attached \subseteq Key /\ contested \subseteq Key /\ adrift \subseteq Key
  /\ login \in [Login -> [at : Stage, token : Token, email : Email]]
  /\ demo \in [Demolition -> [at : {"idle", "closing", "done"}, key : Key, token : Token,
                              by : {"owner", "admin"}]]

Init ==
  /\ owners = [k \in Key |-> None] /\ locks = [e \in Email |-> None]
  /\ tokens = Token
  /\ herdr = [k \in Key |-> "none"] /\ attached = {}
  /\ login \in [Login -> [at : {"idle"}, token : Token, email : Email]]
  /\ demo = [d \in Demolition |->
               [at |-> "idle", key |-> CHOOSE k \in Key : TRUE,
                token |-> CHOOSE t \in Token : TRUE, by |-> "owner"]]
  /\ contested = {} /\ adrift = {}
-----------------------------------------------------------------------------
(* POST /auth with an email *)

\* The token is matched; the body and the identity follow.
Identify(l) ==
  /\ login[l].at = "idle" /\ login[l].token \in tokens
  /\ login' = [login EXCEPT ![l].at = "read"]
  /\ UNCHANGED <<owners, locks, tokens, herdr, attached, demo, contested, adrift>>

\* mutant: a binding is not compared with the token that asks
BugTakenGoesOn(l) ==
  LET e == login[l].email  k == KeyOf(login[l].email) IN
  /\ login[l].at = "read" /\ locks[e] = None
  /\ owners' = [owners EXCEPT ![k] = IF @ = None THEN login[l].token ELSE @]
  /\ locks' = [locks EXCEPT ![e] = l]
  /\ herdr' = [herdr EXCEPT ![k] = IF @ = "none" THEN "spawned" ELSE @]
  /\ login' = [login EXCEPT ![l].at = "starting"]
  /\ contested' = IF Flights(k) \cup Wrecks(k) = {} THEN contested ELSE contested \cup {k}
  /\ UNCHANGED <<tokens, attached, demo, adrift>>

\* Once no login holds the email: bound to another token, 409; to this one, its
\* session is recalled, whatever has become of it; to none, it is bound and its
\* herdr started, unless a socket file says there is one.
Looks(l) ==
  LET e == login[l].email  k == KeyOf(login[l].email) IN
  /\ login[l].at = "read" /\ locks[e] = None
  /\ \/ /\ owners[k] \notin {None, login[l].token}
        /\ login' = [login EXCEPT ![l].at = "taken"]
        /\ UNCHANGED <<owners, locks, herdr, contested>>
     \/ /\ owners[k] = login[l].token
        /\ login' = [login EXCEPT ![l].at = "told"]
        /\ UNCHANGED <<owners, locks, herdr, contested>>
     \/ /\ owners[k] = None
        /\ owners' = [owners EXCEPT ![k] = login[l].token]
        /\ locks' = [locks EXCEPT ![e] = l]
        /\ herdr' = [herdr EXCEPT ![k] = IF @ = "none" THEN "spawned" ELSE @]
        /\ login' = [login EXCEPT ![l].at = "starting"]
        /\ contested' = IF Flights(k) \cup Wrecks(k) = {} THEN contested ELSE contested \cup {k}
  /\ UNCHANGED <<tokens, attached, demo, adrift>>

\* provisioner.start: the socket's file is there.
Started(l) ==
  /\ login[l].at = "starting"
  /\ herdr[KeyOf(login[l].email)] \in {"socket", "up"}
  /\ login' = [login EXCEPT ![l].at = "attaching"]
  /\ UNCHANGED <<owners, locks, tokens, herdr, attached, demo, contested, adrift>>

\* The session is listed, by this login's rescan or by another one.
Reached(l) ==
  LET k == KeyOf(login[l].email) IN
  /\ login[l].at = "attaching" /\ (k \in attached \/ herdr[k] = "up")
  /\ attached' = attached \cup {k}
  /\ login' = [login EXCEPT ![l].at = "told"]
  /\ locks' = [locks EXCEPT ![login[l].email] = None]
  /\ UNCHANGED <<owners, tokens, herdr, demo, contested, adrift>>

\* Either deadline passes: "an unprovisioned binding must not squat the email".
\* The herdr it spawned is left alone.
Fails(l) ==
  LET k == KeyOf(login[l].email) IN
  /\ \/ login[l].at = "starting" /\ herdr[k] \notin {"socket", "up"}
     \/ login[l].at = "attaching" /\ k \notin attached
  /\ owners' = [owners EXCEPT ![k] = None]
  /\ login' = [login EXCEPT ![l].at = "failed"]
  /\ locks' = [locks EXCEPT ![login[l].email] = None]
  /\ adrift' = adrift \cup {k}
  /\ UNCHANGED <<tokens, herdr, attached, demo, contested>>
-----------------------------------------------------------------------------
(* demolishOwned *)

Begins(d, k, by) ==
  /\ demo[d].at = "idle" /\ owners[k] # None
  /\ demo' = [demo EXCEPT ![d] = [at |-> "closing", key |-> k, token |-> owners[k], by |-> by]]
  /\ contested' = IF Flights(k) \cup Wrecks(k) = {} THEN contested ELSE contested \cup {k}
  /\ UNCHANGED <<owners, locks, tokens, herdr, attached, login, adrift>>

\* DELETE of the session by its owner, who sees it while it is listed.
Teardown(d, k) == k \in attached /\ owners[k] \in tokens /\ Begins(d, k, "owner")
\* DELETE /admin/owners/{email}
Kill(d, k) == Begins(d, k, "admin")

\* The workspaces are closed, one request after the other; then, in one step,
\* herdr is told to stop, with no look at whether it did, the session is
\* forgotten and the email's binding removed.  A kill revokes the token too.
Demolished(d) ==
  LET k == demo[d].key IN
  /\ demo[d].at = "closing"
  /\ demo' = [demo EXCEPT ![d].at = "done"]
  /\ \E h \in {"none", herdr[k]} : herdr' = [herdr EXCEPT ![k] = h]
  /\ adrift' = IF herdr'[k] = "none" THEN adrift ELSE adrift \cup {k}
  /\ attached' = attached \ {k}
  /\ owners' = [owners EXCEPT ![k] = None]
  /\ tokens' = IF demo[d].by = "admin" THEN tokens \ {demo[d].token} ELSE tokens
  /\ UNCHANGED <<locks, login, contested>>

\* POST /admin/owners/{email}
Rebind(k, t) ==
  /\ owners[k] \notin {None, t}
  /\ owners' = [owners EXCEPT ![k] = t]
  /\ contested' = IF Flights(k) \cup Wrecks(k) = {} THEN contested ELSE contested \cup {k}
  /\ UNCHANGED <<locks, tokens, herdr, attached, login, demo, adrift>>
-----------------------------------------------------------------------------
(* Around it *)

HerdrStep(k) ==
  /\ \/ herdr[k] = "spawned" /\ herdr' = [herdr EXCEPT ![k] = "socket"]
     \/ herdr[k] = "socket" /\ herdr' = [herdr EXCEPT ![k] = "up"]
  /\ UNCHANGED <<owners, locks, tokens, attached, login, demo, contested, adrift>>

\* A herdr that dies may leave its socket's file behind.
HerdrDies(k) ==
  /\ herdr[k] \in {"spawned", "up"}
  /\ \E h \in {"none", "socket"} : herdr' = [herdr EXCEPT ![k] = h]
  /\ UNCHANGED <<owners, locks, tokens, attached, login, demo, contested, adrift>>

\* LocalHerdr lists every herdr that answers, and drops one that does not.
Rescan(k) ==
  /\ \/ herdr[k] = "up" /\ attached' = attached \cup {k}
     \/ herdr[k] # "up" /\ attached' = attached \ {k}
  /\ attached' # attached
  /\ UNCHANGED <<owners, locks, tokens, herdr, login, demo, contested, adrift>>

\* The broker dies and is started again: bindings and herdrs stay.
Restart ==
  /\ locks' = [e \in Email |-> None] /\ attached' = {}
  /\ login' = [l \in Login |-> IF login[l].at \in {"read", "starting", "attaching"}
                                 THEN [login[l] EXCEPT !.at = "failed"] ELSE login[l]]
  /\ demo' = [d \in Demolition |-> IF demo[d].at = "closing"
                                     THEN [demo[d] EXCEPT !.at = "done"] ELSE demo[d]]
  /\ <<login', demo'>> # <<login, demo>>
  /\ UNCHANGED <<owners, tokens, herdr, contested, adrift>>

Next ==
  \/ \E l \in Login : Identify(l) \/ Looks(l) \/ Started(l) \/ Reached(l) \/ Fails(l)
  \/ \E d \in Demolition :
       Demolished(d) \/ \E k \in Key : Teardown(d, k) \/ Kill(d, k)
  \/ \E k \in Key : HerdrStep(k) \/ HerdrDies(k) \/ Rescan(k) \/ \E t \in Token : Rebind(k, t)
  \/ Restart

Spec == Init /\ [][Next]_vars
-----------------------------------------------------------------------------
(* Properties *)

\* A session of an owner is private because it has one: every listed session
\* has its binding, but for a herdr that outlived it.  Each way a herdr can is
\* named where it happens (a failed login, a demolition whose stop failed).
ListedIsOwned == \A k \in attached : owners[k] # None \/ k \in adrift

\* A login that provisioned a session ends with the email bound to its token,
\* and one that fails or demolishes frees no binding but its own: unless the
\* email was rebound, demolished or bound anew while it was under way.
OwnBindingOnly ==
  [][\A k \in Key \ contested' :
       /\ \A l \in Login : KeyOf(login[l].email) = k /\ login[l].at = "attaching"
            /\ login'[l].at = "told" => owners'[k] = login[l].token
       /\ owners[k] # None /\ owners'[k] = None =>
            \/ \E l \in Flights(k) : login'[l].at = "failed" /\ login[l].token = owners[k]
            \/ \E d \in Wrecks(k) : demo'[d].at = "done" /\ demo[d].token = owners[k]]_vars

\* The lock of an email as typed is held exactly while one login provisions it:
\* each end of a login gives it back, so that one that waits for it waits for a
\* login with a deadline, and no two provision the same email side by side.
LockIsHeld ==
  \A l \in Login, e \in Email :
    locks[e] = l <=> login[l].email = e /\ login[l].at \in {"starting", "attaching"}
=============================================================================
