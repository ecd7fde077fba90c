------------------------------ MODULE WorkProofs ------------------------------
(***************************************************************************)
(* Theorems about what the broker does on its own machine, for every value *)
(* of the constants: whose session a login gets (Owners) and which tokens  *)
(* are let in (Access), stated of the composition that run `work` checks.  *)
(***************************************************************************)
EXTENDS MCWork, FiniteSetTheorems, WellFoundedInduction, TLAPS

InFlight(l) == login[l].at \in {"starting", "attaching"}
KeyOfLogin(l) == KeyOf(login[l].email)

\* A login that provisions, and a demolition that closes workspaces, still have
\* the binding they started from, unless their email is contested.
FlightsAreBound ==
  \A l \in Login : InFlight(l) /\ KeyOfLogin(l) \notin contested =>
    owners[KeyOfLogin(l)] = login[l].token
WrecksAreBound ==
  \A d \in Demolition : demo[d].at = "closing" /\ demo[d].key \notin contested =>
    owners[demo[d].key] = demo[d].token

\* One request at a time is about an email that is not contested.
OneFlight ==
  \A l, m \in Login : /\ InFlight(l) /\ InFlight(m) /\ KeyOfLogin(l) = KeyOfLogin(m)
                      /\ KeyOfLogin(l) \notin contested
                      => l = m
OneWreck ==
  \A c, d \in Demolition : /\ demo[c].at = "closing" /\ demo[d].at = "closing"
                           /\ demo[c].key = demo[d].key /\ demo[c].key \notin contested
                           => c = d
FlightOrWreck ==
  \A l \in Login, d \in Demolition :
    /\ InFlight(l) /\ demo[d].at = "closing" /\ KeyOfLogin(l) = demo[d].key
    => demo[d].key \in contested

\* A herdr that runs, or will, and a session that is listed, have an owner.
OwnedOrAdrift ==
  \A k \in Key : k \in attached \/ herdr[k] # "none" => owners[k] # None \/ k \in adrift

OwnersIInv == /\ TypeOK /\ LockIsHeld
              /\ FlightsAreBound /\ WrecksAreBound /\ OneFlight /\ OneWreck /\ FlightOrWreck
              /\ OwnedOrAdrift
-----------------------------------------------------------------------------
(* Whose session a login gets: one lemma per action *)

LEMMA KeyOfEmail == \A e \in Email : KeyOf(e) \in Key
BY DEF Email, KeyOf

\* A login that only moves on, between stages that do not provision.
LEMMA IdentifyKeeps ==
  ASSUME OwnersIInv, NEW l \in Login, Identify(l) PROVE OwnersIInv'
<1> USE DEF OwnersIInv, TypeOK, Stage
<1>1. /\ login' = [login EXCEPT ![l].at = "read"] /\ login[l].at = "idle"
      /\ UNCHANGED <<owners, locks, tokens, herdr, attached, demo, contested, adrift>>
  BY DEF Identify
<1>2. \A m \in Login : /\ login'[m].email = login[m].email /\ login'[m].token = login[m].token
                       /\ InFlight(m)' <=> InFlight(m)
  BY <1>1 DEF InFlight
<1>3. TypeOK'
  BY <1>1
<1>4. LockIsHeld'
  BY <1>1, <1>2 DEF LockIsHeld, InFlight
<1>5. (FlightsAreBound /\ OneFlight /\ FlightOrWreck)'
  BY <1>1, <1>2 DEF FlightsAreBound, OneFlight, FlightOrWreck, KeyOfLogin, KeyOf
<1>6. (WrecksAreBound /\ OneWreck /\ OwnedOrAdrift)'
  BY <1>1 DEF WrecksAreBound, OneWreck, OwnedOrAdrift
<1> QED
  BY <1>3, <1>4, <1>5, <1>6

LEMMA LooksKeeps ==
  ASSUME OwnersIInv, NEW l \in Login, Looks(l) PROVE OwnersIInv'
<1> DEFINE e == login[l].email  k == KeyOf(e)
<1>0. e \in Email /\ k \in Key /\ login[l].at = "read" /\ locks[e] = None
      /\ UNCHANGED <<tokens, attached, demo, adrift>>
  BY KeyOfEmail DEF Looks, OwnersIInv, TypeOK
<1>1. CASE /\ \E s \in {"taken", "told"} : login' = [login EXCEPT ![l].at = s]
           /\ UNCHANGED <<owners, locks, herdr, contested>>
  <2>1. \A m \in Login : /\ login'[m].email = login[m].email /\ login'[m].token = login[m].token
                         /\ InFlight(m)' <=> InFlight(m)
    BY <1>0, <1>1 DEF InFlight, OwnersIInv, TypeOK
  <2>2. TypeOK'
    BY <1>0, <1>1 DEF OwnersIInv, TypeOK, Stage
  <2>3. LockIsHeld'
    BY <1>0, <1>1, <2>1 DEF OwnersIInv, LockIsHeld, InFlight
  <2>4. (FlightsAreBound /\ OneFlight /\ FlightOrWreck)'
    BY <1>0, <1>1, <2>1 DEF OwnersIInv, FlightsAreBound, OneFlight, FlightOrWreck, KeyOfLogin, KeyOf
  <2>5. (WrecksAreBound /\ OneWreck /\ OwnedOrAdrift)'
    BY <1>0, <1>1 DEF OwnersIInv, WrecksAreBound, OneWreck, OwnedOrAdrift
  <2> QED
    BY <2>2, <2>3, <2>4, <2>5 DEF OwnersIInv
<1>2. CASE /\ owners[k] = None
           /\ owners' = [owners EXCEPT ![k] = login[l].token]
           /\ locks' = [locks EXCEPT ![e] = l]
           /\ herdr' = [herdr EXCEPT ![k] = IF @ = "none" THEN "spawned" ELSE @]
           /\ login' = [login EXCEPT ![l].at = "starting"]
           /\ contested' = IF Flights(k) \cup Wrecks(k) = {} THEN contested ELSE contested \cup {k}
  <2>1. \A m \in Login : /\ login'[m].email = login[m].email /\ login'[m].token = login[m].token
                         /\ InFlight(m)' <=> (m = l \/ InFlight(m))
    BY <1>0, <1>2 DEF InFlight, OwnersIInv, TypeOK
  <2>2. TypeOK'
    BY <1>0, <1>2 DEF OwnersIInv, TypeOK, Stage
  <2>3. LockIsHeld'
    <3>1. ~InFlight(l)
      BY <1>0 DEF InFlight
    <3>2. \A m \in Login : login[m].email = e => ~InFlight(m)
      BY <1>0, OwnersAssumption DEF OwnersIInv, LockIsHeld, InFlight
    <3>3. \A m \in Login, f \in Email : locks'[f] = m <=> login'[m].email = f /\ InFlight(m)'
      BY <1>0, <1>2, <2>1, <3>1, <3>2, OwnersAssumption
      DEF OwnersIInv, LockIsHeld, InFlight, TypeOK
    <3> QED
      BY <3>3 DEF LockIsHeld, InFlight
  <2>4. /\ contested \subseteq contested'
        /\ k \notin contested' => /\ \A m \in Login : InFlight(m) => KeyOfLogin(m) # k
                                  /\ \A d \in Demolition : demo[d].at = "closing" => demo[d].key # k
    BY <1>2 DEF Flights, Wrecks, InFlight, KeyOfLogin
  <2>5. \A m \in Login : KeyOfLogin(m)' = KeyOfLogin(m) /\ KeyOfLogin(m) \in Key
    BY <2>1, KeyOfEmail DEF KeyOfLogin, KeyOf, OwnersIInv, TypeOK
  <2>6. KeyOfLogin(l) = k
    BY DEF KeyOfLogin
  <2>7. owners'[k] = login[l].token /\ \A j \in Key \ {k} : owners'[j] = owners[j]
    BY <1>0, <1>2 DEF OwnersIInv, TypeOK
  <2> HIDE DEF k, e
  <2>8. FlightsAreBound'
    <3> SUFFICES ASSUME NEW m \in Login, InFlight(m)', KeyOfLogin(m)' \notin contested'
                 PROVE  owners'[KeyOfLogin(m)'] = login'[m].token
      BY DEF FlightsAreBound
    <3> QED
      BY <2>1, <2>4, <2>5, <2>6, <2>7 DEF OwnersIInv, FlightsAreBound
  <2>9. WrecksAreBound'
    <3> SUFFICES ASSUME NEW d \in Demolition, demo[d].at = "closing", demo[d].key \notin contested'
                 PROVE  owners'[demo[d].key] = demo[d].token
      BY <1>0 DEF WrecksAreBound
    <3> QED
      BY <2>4, <2>7 DEF OwnersIInv, TypeOK, WrecksAreBound
  <2>10. OneFlight'
    <3> SUFFICES ASSUME NEW m \in Login, NEW n \in Login, InFlight(m)', InFlight(n)',
                        KeyOfLogin(m)' = KeyOfLogin(n)', KeyOfLogin(m)' \notin contested'
                 PROVE  m = n
      BY DEF OneFlight
    <3> QED
      BY <2>1, <2>4, <2>5, <2>6 DEF OwnersIInv, OneFlight
  <2>11. OneWreck'
    BY <1>0, <2>4 DEF OwnersIInv, OneWreck
  <2>12. FlightOrWreck'
    <3> SUFFICES ASSUME NEW m \in Login, NEW d \in Demolition, InFlight(m)',
                        demo[d].at = "closing", KeyOfLogin(m)' = demo[d].key
                 PROVE  demo[d].key \in contested'
      BY <1>0 DEF FlightOrWreck
    <3> QED
      BY <2>1, <2>4, <2>5, <2>6 DEF OwnersIInv, FlightOrWreck
  <2>13. OwnedOrAdrift'
    <3>1. login[l].token # None
      BY OwnersAssumption DEF OwnersIInv, TypeOK
    <3>2. \A j \in Key \ {k} : herdr'[j] = herdr[j]
      BY <1>2 DEF OwnersIInv, TypeOK
    <3> QED
      BY <1>0, <2>7, <3>1, <3>2 DEF OwnersIInv, OwnedOrAdrift
  <2> QED
    BY <2>2, <2>3, <2>8, <2>9, <2>10, <2>11, <2>12, <2>13 DEF OwnersIInv
<1> QED
  BY <1>1, <1>2 DEF Looks

LEMMA StartedKeeps ==
  ASSUME OwnersIInv, NEW l \in Login, Started(l) PROVE OwnersIInv'
<1> USE DEF OwnersIInv, TypeOK, Stage
<1>1. /\ login' = [login EXCEPT ![l].at = "attaching"] /\ login[l].at = "starting"
      /\ UNCHANGED <<owners, locks, tokens, herdr, attached, demo, contested, adrift>>
  BY DEF Started
<1>2. \A m \in Login : /\ login'[m].email = login[m].email /\ login'[m].token = login[m].token
                       /\ InFlight(m)' <=> InFlight(m)
  BY <1>1 DEF InFlight
<1>3. TypeOK'
  BY <1>1
<1>4. LockIsHeld'
  BY <1>1, <1>2 DEF LockIsHeld, InFlight
<1>5. (FlightsAreBound /\ OneFlight /\ FlightOrWreck)'
  BY <1>1, <1>2 DEF FlightsAreBound, OneFlight, FlightOrWreck, KeyOfLogin, KeyOf
<1>6. (WrecksAreBound /\ OneWreck /\ OwnedOrAdrift)'
  BY <1>1 DEF WrecksAreBound, OneWreck, OwnedOrAdrift
<1> QED
  BY <1>3, <1>4, <1>5, <1>6

\* The end of a login that provisioned: the others are as they were.
LEMMA EndOfLogin ==
  ASSUME OwnersIInv, NEW l \in Login, InFlight(l), NEW s \in {"told", "failed"},
         login' = [login EXCEPT ![l].at = s],
         locks' = [locks EXCEPT ![login[l].email] = None]
  PROVE  /\ \A m \in Login : /\ login'[m].email = login[m].email
                             /\ login'[m].token = login[m].token
                             /\ KeyOfLogin(m)' = KeyOfLogin(m) /\ KeyOfLogin(m) \in Key
                             /\ InFlight(m)' <=> m # l /\ InFlight(m)
         /\ LockIsHeld'
<1> USE DEF OwnersIInv, TypeOK
<1>1. \A m \in Login : /\ login'[m].email = login[m].email
                       /\ login'[m].token = login[m].token
                       /\ InFlight(m)' <=> m # l /\ InFlight(m)
  BY DEF InFlight
<1>2. \A m \in Login : KeyOfLogin(m)' = KeyOfLogin(m) /\ KeyOfLogin(m) \in Key
  BY <1>1, KeyOfEmail DEF KeyOfLogin, KeyOf
<1>3. \A m \in Login, f \in Email : locks'[f] = m <=> login'[m].email = f /\ InFlight(m)'
  BY <1>1, OwnersAssumption DEF LockIsHeld, InFlight
<1> QED
  BY <1>1, <1>2, <1>3 DEF LockIsHeld, InFlight

LEMMA ReachedKeeps ==
  ASSUME OwnersIInv, NEW l \in Login, Reached(l) PROVE OwnersIInv'
<1> DEFINE k == KeyOf(login[l].email)
<1>1. /\ login' = [login EXCEPT ![l].at = "told"] /\ login[l].at = "attaching"
      /\ locks' = [locks EXCEPT ![login[l].email] = None]
      /\ UNCHANGED <<owners, tokens, herdr, demo, contested, adrift>>
      /\ attached' = attached \cup {k} /\ (k \in attached \/ herdr[k] = "up") /\ k \in Key
  BY KeyOfEmail DEF Reached, OwnersIInv, TypeOK
<1>2. InFlight(l)
  BY <1>1 DEF InFlight
<1> HIDE DEF k
<1>3. /\ \A m \in Login : /\ login'[m].email = login[m].email
                          /\ login'[m].token = login[m].token
                          /\ KeyOfLogin(m)' = KeyOfLogin(m) /\ KeyOfLogin(m) \in Key
                          /\ InFlight(m)' <=> m # l /\ InFlight(m)
      /\ LockIsHeld'
  BY <1>1, <1>2, EndOfLogin
<1>4. TypeOK'
  BY <1>1 DEF OwnersIInv, TypeOK, Stage
<1>5. (FlightsAreBound /\ OneFlight /\ FlightOrWreck)'
  BY <1>1, <1>3 DEF OwnersIInv, FlightsAreBound, OneFlight, FlightOrWreck
<1>6. (WrecksAreBound /\ OneWreck)'
  BY <1>1 DEF OwnersIInv, WrecksAreBound, OneWreck
<1>7. OwnedOrAdrift'
  BY <1>1 DEF OwnersIInv, OwnedOrAdrift
<1> QED
  BY <1>3, <1>4, <1>5, <1>6, <1>7 DEF OwnersIInv

\* What a failed login unbinds is no other request's, or its email is contested.
LEMMA FailsKeeps ==
  ASSUME OwnersIInv, NEW l \in Login, Fails(l) PROVE OwnersIInv'
<1> DEFINE k == KeyOf(login[l].email)
<1>1. /\ login' = [login EXCEPT ![l].at = "failed"] /\ InFlight(l)
      /\ locks' = [locks EXCEPT ![login[l].email] = None]
      /\ owners' = [owners EXCEPT ![k] = None] /\ adrift' = adrift \cup {k}
      /\ UNCHANGED <<tokens, herdr, attached, demo, contested>>
      /\ k \in Key /\ k = KeyOfLogin(l)
  BY KeyOfEmail DEF Fails, InFlight, OwnersIInv, TypeOK, KeyOfLogin
<1> HIDE DEF k
<1>2. /\ \A m \in Login : /\ login'[m].email = login[m].email
                          /\ login'[m].token = login[m].token
                          /\ KeyOfLogin(m)' = KeyOfLogin(m) /\ KeyOfLogin(m) \in Key
                          /\ InFlight(m)' <=> m # l /\ InFlight(m)
      /\ LockIsHeld'
  BY <1>1, EndOfLogin
<1>3. TypeOK'
  BY <1>1 DEF OwnersIInv, TypeOK, Stage
<1>4. \A j \in Key \ {k} : owners'[j] = owners[j]
  BY <1>1 DEF OwnersIInv, TypeOK
<1>5. FlightsAreBound'
  <2> SUFFICES ASSUME NEW m \in Login, InFlight(m)', KeyOfLogin(m)' \notin contested'
               PROVE  owners'[KeyOfLogin(m)'] = login'[m].token
    BY DEF FlightsAreBound
  <2>1. KeyOfLogin(m) # k
    BY <1>1, <1>2 DEF OwnersIInv, OneFlight
  <2> QED
    BY <1>1, <1>2, <1>4, <2>1 DEF OwnersIInv, FlightsAreBound
<1>6. WrecksAreBound'
  <2> SUFFICES ASSUME NEW d \in Demolition, demo[d].at = "closing", demo[d].key \notin contested
               PROVE  owners'[demo[d].key] = demo[d].token
    BY <1>1 DEF WrecksAreBound
  <2>1. demo[d].key # k
    BY <1>1 DEF OwnersIInv, FlightOrWreck
  <2> QED
    BY <1>4, <2>1 DEF OwnersIInv, WrecksAreBound, TypeOK
<1>7. (OneFlight /\ FlightOrWreck)'
  BY <1>1, <1>2 DEF OwnersIInv, OneFlight, FlightOrWreck
<1>8. OneWreck'
  BY <1>1 DEF OwnersIInv, OneWreck
<1>9. OwnedOrAdrift'
  BY <1>1, <1>4 DEF OwnersIInv, OwnedOrAdrift
<1> QED
  BY <1>2, <1>3, <1>5, <1>6, <1>7, <1>8, <1>9 DEF OwnersIInv

LEMMA BeginsKeeps ==
  ASSUME OwnersIInv, NEW d \in Demolition, NEW k \in Key, NEW by \in {"owner", "admin"},
         Begins(d, k, by)
  PROVE  OwnersIInv'
<1>1. /\ demo[d].at = "idle" /\ owners[k] # None
      /\ demo' = [demo EXCEPT ![d] = [at |-> "closing", key |-> k, token |-> owners[k], by |-> by]]
      /\ UNCHANGED <<owners, locks, tokens, herdr, attached, login, adrift>>
  BY DEF Begins
<1>2. /\ contested \subseteq contested'
      /\ k \notin contested' => /\ \A m \in Login : InFlight(m) => KeyOfLogin(m) # k
                                /\ \A c \in Demolition : demo[c].at = "closing" => demo[c].key # k
  BY DEF Begins, Flights, Wrecks, InFlight, KeyOfLogin
<1>3. TypeOK'
  <2>1. contested' \subseteq Key
    BY DEF Begins, OwnersIInv, TypeOK
  <2> QED
    BY <1>1, <2>1 DEF OwnersIInv, TypeOK
<1>4. \A c \in Demolition : /\ c = d => /\ demo'[c].at = "closing" /\ demo'[c].key = k
                                        /\ demo'[c].token = owners[k]
                            /\ c # d => demo'[c] = demo[c]
  BY <1>1 DEF OwnersIInv, TypeOK
<1>5. (LockIsHeld /\ OwnedOrAdrift)'
  BY <1>1 DEF OwnersIInv, LockIsHeld, OwnedOrAdrift
<1>6. (FlightsAreBound /\ OneFlight)'
  BY <1>1, <1>2 DEF OwnersIInv, FlightsAreBound, OneFlight, InFlight, KeyOfLogin
<1>7. WrecksAreBound'
  BY <1>1, <1>2, <1>4 DEF OwnersIInv, WrecksAreBound
<1>8. OneWreck'
  <2> SUFFICES ASSUME NEW b \in Demolition, NEW c \in Demolition, demo'[b].at = "closing",
                      demo'[c].at = "closing", demo'[b].key = demo'[c].key,
                      demo'[b].key \notin contested'
               PROVE  b = c
    BY DEF OneWreck
  <2> QED
    BY <1>2, <1>4 DEF OwnersIInv, OneWreck
<1>9. FlightOrWreck'
  <2> SUFFICES ASSUME NEW m \in Login, NEW c \in Demolition, InFlight(m),
                      demo'[c].at = "closing", KeyOfLogin(m) = demo'[c].key
               PROVE  demo'[c].key \in contested'
    BY <1>1 DEF FlightOrWreck, InFlight, KeyOfLogin
  <2> QED
    BY <1>2, <1>4 DEF OwnersIInv, FlightOrWreck
<1> QED
  BY <1>3, <1>5, <1>6, <1>7, <1>8, <1>9 DEF OwnersIInv

\* What a demolition unbinds is no other request's, or its email is contested.
LEMMA DemolishedKeeps ==
  ASSUME OwnersIInv, NEW d \in Demolition, Demolished(d) PROVE OwnersIInv'
<1> DEFINE k == demo[d].key
<1>1. /\ demo[d].at = "closing" /\ k \in Key
      /\ demo' = [demo EXCEPT ![d].at = "done"]
      /\ \E h \in {"none", herdr[k]} : herdr' = [herdr EXCEPT ![k] = h]
      /\ adrift' = IF herdr'[k] = "none" THEN adrift ELSE adrift \cup {k}
      /\ attached' = attached \ {k} /\ owners' = [owners EXCEPT ![k] = None]
      /\ tokens' \subseteq tokens
      /\ UNCHANGED <<locks, login, contested>>
  BY DEF Demolished, OwnersIInv, TypeOK
<1>2. \A c \in Demolition : /\ demo'[c].key = demo[c].key /\ demo'[c].token = demo[c].token
                            /\ demo'[c].at = "closing" <=> c # d /\ demo[c].at = "closing"
  BY <1>1 DEF OwnersIInv, TypeOK
<1>3. /\ \A j \in Key \ {k} : owners'[j] = owners[j] /\ herdr'[j] = herdr[j]
      /\ herdr' \in [Key -> {"none", "spawned", "socket", "up"}]
  BY <1>1 DEF OwnersIInv, TypeOK
<1>4. TypeOK'
  <2>1. demo' \in [Demolition -> [at : {"idle", "closing", "done"}, key : Key, token : Token,
                                  by : {"owner", "admin"}]]
    BY <1>1 DEF OwnersIInv, TypeOK
  <2>2. owners' \in [Key -> Token \cup {None}] /\ attached' \subseteq Key /\ adrift' \subseteq Key
    BY <1>1 DEF OwnersIInv, TypeOK
  <2> QED
    BY <1>1, <1>3, <2>1, <2>2 DEF OwnersIInv, TypeOK
<1> HIDE DEF k
<1>5. LockIsHeld'
  BY <1>1 DEF OwnersIInv, LockIsHeld
<1>6. FlightsAreBound'
  <2> SUFFICES ASSUME NEW m \in Login, InFlight(m), KeyOfLogin(m) \notin contested
               PROVE  owners'[KeyOfLogin(m)] = login[m].token
    BY <1>1 DEF FlightsAreBound, InFlight, KeyOfLogin
  <2>1. KeyOfLogin(m) # k /\ KeyOfLogin(m) \in Key
    BY <1>1, KeyOfEmail DEF k, OwnersIInv, FlightOrWreck, TypeOK, KeyOfLogin
  <2> QED
    BY <1>3, <2>1 DEF OwnersIInv, FlightsAreBound
<1>7. WrecksAreBound'
  <2> SUFFICES ASSUME NEW c \in Demolition, c # d, demo[c].at = "closing",
                      demo[c].key \notin contested
               PROVE  owners'[demo[c].key] = demo[c].token
    BY <1>1, <1>2 DEF WrecksAreBound
  <2>1. demo[c].key # k /\ demo[c].key \in Key
    BY <1>1 DEF k, OwnersIInv, OneWreck, TypeOK
  <2> QED
    BY <1>3, <2>1 DEF OwnersIInv, WrecksAreBound
<1>8. OneFlight'
  BY <1>1 DEF OwnersIInv, OneFlight, InFlight, KeyOfLogin
<1>9. (OneWreck /\ FlightOrWreck)'
  BY <1>1, <1>2 DEF OwnersIInv, OneWreck, FlightOrWreck, InFlight, KeyOfLogin
<1>10. OwnedOrAdrift'
  BY <1>1, <1>3 DEF OwnersIInv, OwnedOrAdrift
<1> QED
  BY <1>4, <1>5, <1>6, <1>7, <1>8, <1>9, <1>10 DEF OwnersIInv

LEMMA RebindKeeps ==
  ASSUME OwnersIInv, NEW k \in Key, NEW t \in Token, Rebind(k, t) PROVE OwnersIInv'
<1>1. /\ owners' = [owners EXCEPT ![k] = t]
      /\ UNCHANGED <<locks, tokens, herdr, attached, login, demo, adrift>>
  BY DEF Rebind
<1>2. /\ contested \subseteq contested'
      /\ k \notin contested' => /\ \A m \in Login : InFlight(m) => KeyOfLogin(m) # k
                                /\ \A c \in Demolition : demo[c].at = "closing" => demo[c].key # k
  BY DEF Rebind, Flights, Wrecks, InFlight, KeyOfLogin
<1>3. owners'[k] = t /\ \A j \in Key \ {k} : owners'[j] = owners[j]
  BY <1>1 DEF OwnersIInv, TypeOK
<1>4. TypeOK'
  <2>1. contested' \subseteq Key
    BY DEF Rebind, OwnersIInv, TypeOK
  <2> QED
    BY <1>1, <2>1 DEF OwnersIInv, TypeOK
<1>5. LockIsHeld'
  BY <1>1 DEF OwnersIInv, LockIsHeld
<1>6. FlightsAreBound'
  <2> SUFFICES ASSUME NEW m \in Login, InFlight(m), KeyOfLogin(m) \notin contested'
               PROVE  owners'[KeyOfLogin(m)] = login[m].token
    BY <1>1 DEF FlightsAreBound, InFlight, KeyOfLogin
  <2>1. KeyOfLogin(m) # k /\ KeyOfLogin(m) \in Key
    BY <1>2, KeyOfEmail DEF OwnersIInv, TypeOK, KeyOfLogin
  <2> QED
    BY <1>2, <1>3, <2>1 DEF OwnersIInv, FlightsAreBound
<1>7. WrecksAreBound'
  BY <1>1, <1>2, <1>3 DEF OwnersIInv, TypeOK, WrecksAreBound
<1>8. (OneFlight /\ OneWreck /\ FlightOrWreck)'
  BY <1>1, <1>2 DEF OwnersIInv, OneFlight, OneWreck, FlightOrWreck, InFlight, KeyOfLogin
<1>9. OwnedOrAdrift'
  BY <1>1, <1>3, OwnersAssumption DEF OwnersIInv, OwnedOrAdrift
<1> QED
  BY <1>4, <1>5, <1>6, <1>7, <1>8, <1>9 DEF OwnersIInv

\* herdr's own steps and the rescans touch no request and no binding.
LEMMA AroundKeeps ==
  ASSUME OwnersIInv, NEW k \in Key, HerdrStep(k) \/ HerdrDies(k) \/ Rescan(k)
  PROVE  OwnersIInv'
<1>1. UNCHANGED <<owners, locks, tokens, login, demo, contested, adrift>>
  BY DEF HerdrStep, HerdrDies, Rescan
<1>2. /\ attached' \subseteq Key
      /\ herdr' \in [Key -> {"none", "spawned", "socket", "up"}]
      /\ \A j \in Key : j \in attached' \/ herdr'[j] # "none" => j \in attached \/ herdr[j] # "none"
  <2>1. CASE HerdrStep(k)
    BY <2>1 DEF HerdrStep, OwnersIInv, TypeOK
  <2>2. CASE HerdrDies(k)
    BY <2>2 DEF HerdrDies, OwnersIInv, TypeOK
  <2>3. CASE Rescan(k)
    BY <2>3 DEF Rescan, OwnersIInv, TypeOK
  <2> QED
    BY <2>1, <2>2, <2>3
<1>3. TypeOK'
  BY <1>1, <1>2 DEF OwnersIInv, TypeOK
<1>4. (LockIsHeld /\ FlightsAreBound /\ WrecksAreBound /\ OneFlight /\ OneWreck /\ FlightOrWreck)'
  BY <1>1 DEF OwnersIInv, LockIsHeld, FlightsAreBound, WrecksAreBound, OneFlight, OneWreck,
              FlightOrWreck, InFlight, KeyOfLogin
<1>5. OwnedOrAdrift'
  BY <1>1, <1>2 DEF OwnersIInv, OwnedOrAdrift
<1> QED
  BY <1>3, <1>4, <1>5 DEF OwnersIInv

\* After a restart nothing is under way, so only the bindings remain.
LEMMA RestartKeeps ==
  ASSUME OwnersIInv, Restart PROVE OwnersIInv'
<1>1. /\ locks' = [e \in Email |-> None] /\ attached' = {}
      /\ login' = [l \in Login |-> IF login[l].at \in {"read", "starting", "attaching"}
                                     THEN [login[l] EXCEPT !.at = "failed"] ELSE login[l]]
      /\ demo' = [d \in Demolition |-> IF demo[d].at = "closing"
                                         THEN [demo[d] EXCEPT !.at = "done"] ELSE demo[d]]
      /\ UNCHANGED <<owners, tokens, herdr, contested, adrift>>
  BY DEF Restart
<1>2. /\ \A l \in Login : ~InFlight(l)'
      /\ \A d \in Demolition : demo'[d].at # "closing"
  BY <1>1 DEF InFlight, OwnersIInv, TypeOK
<1>3. TypeOK'
  <2>1. login' \in [Login -> [at : Stage, token : Token, email : Email]]
    BY <1>1 DEF OwnersIInv, TypeOK, Stage
  <2>2. demo' \in [Demolition -> [at : {"idle", "closing", "done"}, key : Key, token : Token,
                                  by : {"owner", "admin"}]]
    BY <1>1 DEF OwnersIInv, TypeOK
  <2> QED
    BY <1>1, <2>1, <2>2 DEF OwnersIInv, TypeOK
<1>4. LockIsHeld'
  BY <1>1, <1>2, OwnersAssumption DEF LockIsHeld, InFlight
<1>5. (FlightsAreBound /\ WrecksAreBound /\ OneFlight /\ OneWreck /\ FlightOrWreck)'
  BY <1>2 DEF FlightsAreBound, WrecksAreBound, OneFlight, OneWreck, FlightOrWreck
<1>6. OwnedOrAdrift'
  BY <1>1 DEF OwnersIInv, OwnedOrAdrift
<1> QED
  BY <1>3, <1>4, <1>5, <1>6 DEF OwnersIInv

LEMMA OwnersStarts == Init => OwnersIInv
<1> SUFFICES ASSUME Init PROVE OwnersIInv
  OBVIOUS
<1>1. (CHOOSE k \in Key : TRUE) \in Key /\ (CHOOSE t \in Token : TRUE) \in Token
  BY OwnersAssumption
<1>2. TypeOK
  <2>1. login \in [Login -> [at : Stage, token : Token, email : Email]]
    BY DEF Init, Stage
  <2> QED
    BY <1>1, <2>1 DEF Init, TypeOK
<1>3. \A l \in Login : ~InFlight(l)
  BY DEF Init, InFlight
<1>4. \A d \in Demolition : demo[d].at # "closing"
  BY DEF Init
<1>5. LockIsHeld
  BY <1>3, OwnersAssumption DEF Init, LockIsHeld, InFlight
<1>6. OwnedOrAdrift
  BY DEF Init, OwnedOrAdrift
<1> QED
  BY <1>2, <1>3, <1>4, <1>5, <1>6
  DEF OwnersIInv, FlightsAreBound, WrecksAreBound, OneFlight, OneWreck, FlightOrWreck

LEMMA OwnersKeeps == OwnersIInv /\ [Next]_vars => OwnersIInv'
<1> SUFFICES ASSUME OwnersIInv, [Next]_vars PROVE OwnersIInv'
  OBVIOUS
<1>1. ASSUME NEW l \in Login, Identify(l) \/ Looks(l) \/ Started(l) \/ Reached(l) \/ Fails(l)
      PROVE  OwnersIInv'
  BY <1>1, IdentifyKeeps, LooksKeeps, StartedKeeps, ReachedKeeps, FailsKeeps
<1>2. ASSUME NEW d \in Demolition, Demolished(d) \/ \E k \in Key : Teardown(d, k) \/ Kill(d, k)
      PROVE  OwnersIInv'
  BY <1>2, DemolishedKeeps, BeginsKeeps DEF Teardown, Kill
<1>3. ASSUME NEW k \in Key, HerdrStep(k) \/ HerdrDies(k) \/ Rescan(k) \/ \E t \in Token : Rebind(k, t)
      PROVE  OwnersIInv'
  BY <1>3, AroundKeeps, RebindKeeps
<1>4. CASE Restart
  BY <1>4, RestartKeeps
<1>5. CASE UNCHANGED vars
  BY <1>5 DEF vars, OwnersIInv, TypeOK, LockIsHeld, FlightsAreBound, WrecksAreBound, OneFlight,
              OneWreck, FlightOrWreck, OwnedOrAdrift, InFlight, KeyOfLogin
<1> QED
  BY <1>1, <1>2, <1>3, <1>4, <1>5 DEF Next

\* Who is bound to an email, per step: the login that got its session, and the
\* request that unbinds it, are about the binding that is there.
LEMMA OwnBindingStep ==
  ASSUME OwnersIInv, [Next]_vars, NEW k \in Key \ contested'
  PROVE  /\ \A l \in Login : KeyOf(login[l].email) = k /\ login[l].at = "attaching"
              /\ login'[l].at = "told" => owners'[k] = login[l].token
         /\ owners[k] # None /\ owners'[k] = None =>
              \/ \E l \in Flights(k) : login'[l].at = "failed" /\ login[l].token = owners[k]
              \/ \E d \in Wrecks(k) : demo'[d].at = "done" /\ demo[d].token = owners[k]
<1> USE DEF OwnersIInv, TypeOK
<1>1. ASSUME NEW l \in Login, Identify(l) \/ Looks(l) \/ Started(l)
      PROVE  /\ \A m \in Login : login[m].at = "attaching" => login'[m].at # "told"
             /\ owners'[k] = None => owners[k] = None
  <2>1. CASE Identify(l)
    BY <2>1 DEF Identify
  <2>2. CASE Started(l)
    BY <2>2 DEF Started
  <2>3. CASE Looks(l)
    <3>1. \A m \in Login : m # l => login'[m] = login[m]
      BY <2>3 DEF Looks
    <3>2. login[l].at = "read"
      BY <2>3 DEF Looks
    <3>3. owners' = owners \/ owners' = [owners EXCEPT ![KeyOf(login[l].email)] = login[l].token]
      BY <2>3 DEF Looks
    <3> QED
      BY <3>1, <3>2, <3>3, OwnersAssumption
  <2> QED
    BY <1>1, <2>1, <2>2, <2>3
<1>2. ASSUME NEW l \in Login, Reached(l)
      PROVE  /\ owners' = owners
             /\ \A m \in Login : login[m].at = "attaching" /\ login'[m].at = "told" => m = l
             /\ KeyOf(login[l].email) = k => owners[k] = login[l].token
  <2>1. /\ login' = [login EXCEPT ![l].at = "told"] /\ owners' = owners /\ contested' = contested
        /\ login[l].at = "attaching"
    BY <1>2 DEF Reached
  <2> QED
    BY <2>1 DEF FlightsAreBound, InFlight, KeyOfLogin
<1>3. ASSUME NEW l \in Login, Fails(l)
      PROVE  /\ \A m \in Login : login[m].at = "attaching" => login'[m].at # "told"
             /\ owners[k] # None /\ owners'[k] = None =>
                  l \in Flights(k) /\ login'[l].at = "failed" /\ login[l].token = owners[k]
  <2>1. /\ login' = [login EXCEPT ![l].at = "failed"] /\ contested' = contested
        /\ owners' = [owners EXCEPT ![KeyOf(login[l].email)] = None] /\ InFlight(l)
    BY <1>3 DEF Fails, InFlight
  <2>2. \A m \in Login : login[m].at = "attaching" => login'[m].at # "told"
    BY <2>1
  <2>3. owners[k] # None /\ owners'[k] = None => KeyOf(login[l].email) = k
    BY <2>1
  <2> QED
    BY <2>1, <2>2, <2>3 DEF FlightsAreBound, InFlight, KeyOfLogin, Flights
<1>4. ASSUME NEW d \in Demolition, Demolished(d)
      PROVE  /\ login' = login
             /\ owners[k] # None /\ owners'[k] = None =>
                  d \in Wrecks(k) /\ demo'[d].at = "done" /\ demo[d].token = owners[k]
  <2>1. /\ demo' = [demo EXCEPT ![d].at = "done"] /\ contested' = contested /\ login' = login
        /\ owners' = [owners EXCEPT ![demo[d].key] = None] /\ demo[d].at = "closing"
    BY <1>4 DEF Demolished
  <2>2. owners[k] # None /\ owners'[k] = None => demo[d].key = k
    BY <2>1
  <2> QED
    BY <2>1, <2>2 DEF WrecksAreBound, Wrecks
<1>5. ASSUME \/ \E d \in Demolition, j \in Key : Teardown(d, j) \/ Kill(d, j)
             \/ \E j \in Key : HerdrStep(j) \/ HerdrDies(j) \/ Rescan(j)
             \/ UNCHANGED vars
      PROVE  login' = login /\ owners' = owners
  BY <1>5 DEF Teardown, Kill, Begins, HerdrStep, HerdrDies, Rescan, vars
<1>6. ASSUME NEW j \in Key, NEW t \in Token, Rebind(j, t)
      PROVE  login' = login /\ (owners'[k] = None => owners[k] = None)
  BY <1>6, OwnersAssumption DEF Rebind
<1>7. ASSUME Restart
      PROVE  /\ owners' = owners
             /\ \A m \in Login : login[m].at = "attaching" => login'[m].at # "told"
  BY <1>7 DEF Restart
<1> HIDE DEF OwnersIInv, TypeOK
<1>8. CASE \E l \in Login : Identify(l) \/ Looks(l) \/ Started(l) \/ Reached(l) \/ Fails(l)
  BY <1>8, <1>1, <1>2, <1>3
<1>9. CASE \E d \in Demolition : Demolished(d)
  BY <1>9, <1>4
<1> QED
  BY <1>5, <1>6, <1>7, <1>8, <1>9 DEF Next
-----------------------------------------------------------------------------
(* Steps of the composition are steps of each part, or leave it alone. *)

LEMMA WorkOwners == [WorkNext]_all => [Next]_vars
BY DEF WorkNext, all, vars, RepoStep, LaunchStep, TrustStep, ContextStep, ModulesStep, BootStep,
       AccessStep, OwnersStep

LEMMA WorkAccess == [WorkNext]_all => [A!Next]_accessVars
BY DEF WorkNext, all, accessVars, RepoStep, LaunchStep, TrustStep, ContextStep, ModulesStep,
       BootStep, AccessStep, OwnersStep

LEMMA WorkRepo == [WorkNext]_all => [R!Next]_repoVars
BY DEF WorkNext, all, repoVars, RepoStep, LaunchStep, TrustStep, ContextStep, ModulesStep,
       BootStep, AccessStep, OwnersStep

\* The inductive invariant of session ownership, for any emails, tokens and
\* requests: what is under way about an email and what is stored agree (POST
\* /auth and demolishOwned of src/http.ts).
THEOREM OwnersExact == WorkSpec => []OwnersIInv
<1>1. WorkInit => OwnersIInv
  BY OwnersStarts DEF WorkInit
<1>2. OwnersIInv /\ [WorkNext]_all => OwnersIInv'
  BY OwnersKeeps, WorkOwners
<1> QED
  BY <1>1, <1>2, PTL DEF WorkSpec

\* A login that provisioned a session ends with the email bound to its token,
\* and a login that fails or a demolition frees no binding but its own, unless
\* the email is contested (src/http.ts, src/owners.ts).
THEOREM BindingsAreOwn == WorkSpec => OwnBindingOnly
<1>1. OwnersIInv /\ [WorkNext]_all =>
        [\A k \in Key \ contested' :
          /\ \A l \in Login : KeyOf(login[l].email) = k /\ login[l].at = "attaching"
               /\ login'[l].at = "told" => owners'[k] = login[l].token
          /\ owners[k] # None /\ owners'[k] = None =>
               \/ \E l \in Flights(k) : login'[l].at = "failed" /\ login[l].token = owners[k]
               \/ \E d \in Wrecks(k) : demo'[d].at = "done" /\ demo[d].token = owners[k]]_vars
  BY OwnBindingStep, WorkOwners
<1> QED
  BY <1>1, OwnersExact, PTL DEF WorkSpec, OwnBindingOnly
-----------------------------------------------------------------------------
(* Which tokens are let in *)

AccessTypes == socket \in [Socket -> Issued \cup {None}] /\ out \subseteq Issued

AccessIInv == AccessTypes /\ A!OutIsOut

LEMMA AccessKeeps == AccessIInv /\ [A!Next]_accessVars => AccessIInv'
<1> SUFFICES ASSUME AccessIInv, [A!Next]_accessVars PROVE AccessIInv'
  OBVIOUS
<1> USE DEF AccessIInv, AccessTypes, A!OutIsOut, A!files
<1>1. ASSUME NEW t \in Issued, \E s \in Socket : A!Upgrade(s, t) PROVE AccessIInv'
  BY <1>1, WorkAssumption DEF A!Upgrade, A!Admits
<1>2. ASSUME NEW t \in Issued,
             \/ \E r \in Request : A!Identify(r, t)
             \/ A!PresenceExpires(t) \/ A!KickEnds(t)
      PROVE  AccessIInv'
  BY <1>2 DEF A!Identify, A!PresenceExpires, A!KickEnds
<1>3. ASSUME NEW t \in Issued, A!Mint(t) PROVE AccessIInv'
  BY <1>3 DEF A!Mint, A!Persists
<1>4. ASSUME NEW t \in Issued, A!Revoke(t) PROVE AccessIInv'
  BY <1>4 DEF A!Revoke, A!Drops, A!Persists
<1>5. ASSUME NEW t \in Issued, A!SelfKick(t) PROVE AccessIInv'
  BY <1>5, WorkAssumption DEF A!SelfKick, A!Closes, A!Drops, A!Persists
<1>6. ASSUME NEW t \in Issued, A!Kick(t) PROVE AccessIInv'
  BY <1>6, WorkAssumption DEF A!Kick, A!Closes, A!Drops, A!Persists
<1>7. ASSUME NEW r \in Request, A!Identified(r) PROVE AccessIInv'
  BY <1>7 DEF A!Identified
<1>8. ASSUME NEW s \in Socket, A!SocketCloses(s) PROVE AccessIInv'
  BY <1>8, WorkAssumption DEF A!SocketCloses
<1>9. CASE A!BadToken \/ A!FailureExpires \/ A!PairReads \/ A!Reload \/ UNCHANGED accessVars
  BY <1>9 DEF A!BadToken, A!FailureExpires, A!PairReads, A!Reload, accessVars
<1>10. CASE A!PairWrites
  BY <1>10 DEF A!PairWrites
<1>11. CASE A!Restart
  BY <1>11, WorkAssumption DEF A!Restart
<1>12. ASSUME NEW s \in SUBSET Issued, A!Edits(s) PROVE AccessIInv'
  BY <1>12 DEF A!Edits
<1> HIDE DEF AccessIInv
<1> QED
  BY <1>1, <1>2, <1>3, <1>4, <1>5, <1>6, <1>7, <1>8, <1>9, <1>10, <1>11, <1>12 DEF A!Next

\* A token that is out is let in by nothing, a listed session has an owner, and
\* the lock of an email is held exactly while one login provisions it, for any
\* tokens, sockets, emails and requests (src/http.ts, src/config.ts, src/cli.ts).
THEOREM NobodySlipsIn == WorkSpec => []WhoIsLetIn
<1>1. WorkInit => AccessIInv
  BY DEF WorkInit, A!Init, AccessIInv, AccessTypes, A!OutIsOut
<1>2. AccessIInv /\ [WorkNext]_all => AccessIInv'
  BY AccessKeeps, WorkAccess
<1>3. OwnersIInv /\ AccessIInv => WhoIsLetIn
  BY DEF OwnersIInv, TypeOK, OwnedOrAdrift, AccessIInv, WhoIsLetIn, ListedIsOwned
<1> QED
  BY <1>1, <1>2, <1>3, OwnersExact, PTL DEF WorkSpec
-----------------------------------------------------------------------------
(* The agent's work in a repository *)

\* What a call of the broker may still do: a conflict of its own is there only
\* while the call that met it is under way, and a discard knows no name but those
\* of the preview it was confirmed with.
Stages == {"idle", "discard", "clean", "pull", "pop", "abort", "reset", "commit", "commit all"}
OwnConflictsEnd ==
  merge \in {"pull", "pop"} /\ unmerged => verb.at \in {"pull", "pop", "abort", "reset"}
KnowsNamed ==
  /\ verb.at = "discard" => verb.tracked \cup verb.untracked \subseteq preview.names
  /\ verb.at = "clean" => verb.untracked \subseteq preview.names
RepoTypes ==
  verb \in [at : Stages, tracked : SUBSET File, untracked : SUBSET (File \cup {Dir})]
RepoIInv == RepoTypes /\ OwnConflictsEnd /\ KnowsNamed

\* What a call's first step does to the invariant, by the stage it goes to.
LEMMA VerbMoves ==
  ASSUME RepoIInv, NEW s \in Stages, verb' = [verb EXCEPT !.at = s]
  PROVE  /\ verb'.at = s /\ verb'.tracked = verb.tracked /\ verb'.untracked = verb.untracked
         /\ RepoTypes'
BY DEF RepoIInv, RepoTypes, Stages

LEMMA RepoKeeps == RepoIInv /\ [R!Next]_repoVars => RepoIInv'
<1> SUFFICES ASSUME RepoIInv, [R!Next]_repoVars PROVE RepoIInv'
  OBVIOUS
<1>0. R!Idle.at = "idle" /\ (verb' = R!Idle => RepoTypes')
  <2>1. R!Idle \in [at : Stages, tracked : SUBSET File, untracked : SUBSET (File \cup {Dir})]
    BY DEF R!Idle, Stages
  <2> QED
    BY <2>1 DEF R!Idle, RepoTypes
<1> USE DEF RepoIInv, OwnConflictsEnd, KnowsNamed
<1>1. ASSUME NEW f \in File, R!AgentEdits(f) \/ R!AgentAdds(f) PROVE RepoIInv'
  BY <1>1 DEF R!AgentEdits, R!AgentAdds, RepoTypes
<1>2. CASE R!AgentCommits
  BY <1>2, WorkAssumption DEF R!AgentCommits, RepoTypes
<1>3. CASE R!AgentMerges \/ R!AgentResolves
  BY <1>3 DEF R!AgentMerges, R!AgentResolves, RepoTypes
<1>4. ASSUME NEW u \in BOOLEAN, R!DiscardPreview(u) PROVE RepoIInv'
  BY <1>4, <1>0 DEF R!DiscardPreview, R!Begins, R!tree, RepoTypes
<1>5. ASSUME NEW u \in BOOLEAN, R!DiscardConfirmed(u) PROVE RepoIInv'
  <2> DEFINE names == IF u THEN {R!NameOf(f) : f \in R!Untracked} ELSE {}
             confirmed == [at |-> "discard", tracked |-> R!Dirty, untracked |-> names]
  <2>1. /\ verb = R!Idle /\ UNCHANGED <<merge, unmerged, preview>>
        /\ \/ verb' = verb
           \/ preview.names = R!Selection(u) /\ verb' = confirmed
    BY <1>5 DEF R!DiscardConfirmed, R!Begins, R!tree
  <2>2. R!Dirty \subseteq File /\ names \subseteq File \cup {Dir}
    BY DEF R!Dirty, R!Untracked, R!Tracked, R!NameOf
  <2>3. CASE verb' = verb
    BY <2>1, <2>3 DEF RepoTypes
  <2>4. CASE preview.names = R!Selection(u) /\ verb' = confirmed
    <3>1. verb'.tracked \cup verb'.untracked = preview.names
      BY <2>4 DEF R!Selection
    <3> HIDE DEF names
    <3>2. RepoTypes' /\ verb'.at = "discard"
      BY <2>2, <2>4 DEF RepoTypes, Stages
    <3> QED
      BY <2>1, <1>0, <3>1, <3>2
  <2> QED
    BY <2>1, <2>3, <2>4
<1>6. ASSUME NEW u \in BOOLEAN, R!CommitAdds(u) PROVE RepoIInv'
  <2>1. /\ verb = R!Idle /\ UNCHANGED <<merge, preview>> /\ (unmerged' => unmerged)
        /\ \E s \in {"commit", "commit all"} : verb' = [verb EXCEPT !.at = s]
    BY <1>6 DEF R!CommitAdds, R!Begins
  <2> QED
    BY <2>1, <1>0, VerbMoves DEF Stages
<1>7. CASE R!DiscardRestores
  <2>1. /\ verb.at = "discard" /\ UNCHANGED <<merge, unmerged, preview>>
        /\ verb' = [verb EXCEPT !.at = "clean"] \/ verb' = R!Idle
    BY <1>7 DEF R!DiscardRestores, R!Ends
  <2> QED
    BY <2>1, <1>0, VerbMoves DEF Stages
<1>8. CASE R!DiscardCleans
  BY <1>8, <1>0 DEF R!DiscardCleans, R!Ends
<1>9. ASSUME NEW kind \in {"pull", "pop"}, R!Begins, R!Stops(kind), UNCHANGED preview
      PROVE  RepoIInv'
  <2>1. verb = R!Idle /\ verb' = [verb EXCEPT !.at = kind]
    BY <1>9 DEF R!Begins, R!Stops
  <2> QED
    BY <2>1, <1>0, <1>9, VerbMoves DEF Stages
<1>10. CASE R!Pull
  BY <1>10, <1>9, <1>0 DEF R!Pull, R!Begins, RepoTypes
<1>11. CASE R!Pop
  BY <1>11, <1>9, <1>0 DEF R!Pop, R!Begins, RepoTypes
<1>12. CASE R!LooksForConflicts
  <2>1. CASE UNCHANGED <<merge, unmerged, preview>> /\ verb' = IF unmerged THEN [verb EXCEPT !.at = R!Undo] ELSE R!Idle
    BY <2>1, <1>0, VerbMoves DEF R!Undo, Stages
  <2>2. CASE R!StaysBehind /\ R!Ends
    BY <2>2, <1>0 DEF R!StaysBehind, R!Ends
  <2> QED
    BY <1>12, <2>1, <2>2 DEF R!LooksForConflicts
<1>13. CASE R!Aborts
  BY <1>13, <1>0, WorkAssumption DEF R!Aborts, R!StaysBehind, R!Ends
<1>14. CASE R!Stash
  BY <1>14, <1>0 DEF R!Stash, R!Begins, RepoTypes
<1>15. CASE R!CommitRuns
  BY <1>15, <1>0, WorkAssumption DEF R!CommitRuns, R!Ends
<1>16. CASE UNCHANGED repoVars
  BY <1>16 DEF repoVars, RepoTypes
<1> HIDE DEF RepoIInv, OwnConflictsEnd, KnowsNamed
<1> QED
  BY <1>1, <1>2, <1>3, <1>4, <1>5, <1>6, <1>7, <1>8, <1>10, <1>11, <1>12, <1>13, <1>14, <1>15,
     <1>16
  DEF R!Next

\* The steps of a discard touch what its preview named: what is restored is named
\* itself, what is deleted is untracked and lies under a name.
LEMMA DiscardStep ==
  ASSUME RepoIInv, [R!Next]_repoVars, verb.at \in {"discard", "clean"}, verb' # verb,
         NEW f \in File, work'[f] # work[f]
  PROVE  f \in preview.names \/ (f \in R!Under(preview.names) /\ f \in R!Untracked)
<1>0. R!Idle.at = "idle"
  BY DEF R!Idle
<1>1. verb # R!Idle
  BY <1>0
<1>2. R!DiscardRestores \/ R!DiscardCleans
  <2>1. ~\E g \in File : R!AgentEdits(g) \/ R!AgentAdds(g)
    BY DEF R!AgentEdits, R!AgentAdds
  <2>2. ~(R!AgentCommits \/ R!AgentMerges \/ R!AgentResolves)
    BY DEF R!AgentCommits, R!AgentMerges, R!AgentResolves
  <2>3. ~\E u \in BOOLEAN : R!DiscardPreview(u) \/ R!DiscardConfirmed(u) \/ R!CommitAdds(u)
    BY <1>1 DEF R!DiscardPreview, R!DiscardConfirmed, R!CommitAdds, R!Begins
  <2>4. ~(R!Pull \/ R!Pop \/ R!Stash)
    BY <1>1 DEF R!Pull, R!Pop, R!Stash, R!Begins
  <2>5. ~(R!LooksForConflicts \/ R!Aborts \/ R!CommitRuns)
    BY DEF R!LooksForConflicts, R!Aborts, R!CommitRuns
  <2> QED
    BY <2>1, <2>2, <2>3, <2>4, <2>5 DEF R!Next, repoVars
<1>3. CASE R!DiscardRestores
  <2>1. PICK fs \in SUBSET verb.tracked : verb.at = "discard" /\ work' = R!AsInHead(fs)
    BY <1>3 DEF R!DiscardRestores
  <2>2. f \in fs
    BY <2>1 DEF R!AsInHead
  <2> QED
    BY <2>1, <2>2 DEF RepoIInv, KnowsNamed
<1>4. CASE R!DiscardCleans
  <2>1. PICK fs \in SUBSET (R!Under(verb.untracked) \cap R!Untracked) :
          verb.at = "clean" /\ work' = [g \in File |-> IF g \in fs THEN 0 ELSE work[g]]
    BY <1>4 DEF R!DiscardCleans
  <2>2. f \in R!Under(verb.untracked) /\ f \in R!Untracked
    BY <2>1
  <2>3. R!Under(verb.untracked) \subseteq R!Under(preview.names)
    BY <2>1 DEF RepoIInv, KnowsNamed, R!Under
  <2> QED
    BY <2>2, <2>3
<1> QED
  BY <1>2, <1>3, <1>4

\* A discard touches no file that the preview it confirms did not name, but
\* untracked ones in a directory it named, whatever the agent does between its
\* commands; and a conflict of a pull or a pop is gone when the call is over,
\* unless the call failed to see or to abort it (src/git-exec.ts).
THEOREM GitTakesNamedOnly == WorkSpec => GitKeepsWork
<1>1. WorkInit => RepoIInv
  BY WorkAssumption DEF WorkInit, R!Init, R!Idle, RepoIInv, RepoTypes, Stages, OwnConflictsEnd, KnowsNamed
<1>2. RepoIInv /\ [WorkNext]_all => RepoIInv'
  BY RepoKeeps, WorkRepo
<1>3. RepoIInv /\ [WorkNext]_all =>
        [verb' = R!Idle /\ merge' \in {"pull", "pop"} => ~unmerged']_(R!vars)
  BY <1>2 DEF RepoIInv, OwnConflictsEnd, R!Idle
<1>4. RepoIInv /\ [WorkNext]_all =>
        [verb.at \in {"discard", "clean"} /\ verb' # verb =>
           \A f \in File : work'[f] # work[f] =>
             f \in preview.names \/ (f \in R!Under(preview.names) /\ f \in R!Untracked)]_(R!vars)
  BY DiscardStep, WorkRepo DEF R!vars, repoVars
<1> QED
  BY <1>1, <1>2, <1>3, <1>4, PTL DEF WorkSpec, GitKeepsWork, R!NoConflictLeft, R!DiscardsOnlyNamed
-----------------------------------------------------------------------------
(* Daemons of one state directory *)

BootTypes ==
  /\ at \in [Daemon -> B!Stages] /\ attach \subseteq Daemon
  /\ command \in [Command -> [at : {"idle", "asks", "done", "over"},
                              found : Daemon \cup {None}, answered : BOOLEAN]]
  /\ lock \in Daemon \cup {None}

\* The port is what keeps two daemons apart: one that listens or serves has it,
\* and who has it listens, serves, or closes.
PortIsHeld ==
  \A d \in Daemon : /\ at[d] \in {"listening", "serving"} => port = d
                    /\ port = d => at[d] \in {"listening", "serving", "closing"}

\* Only a daemon that boots, listens or serves is attached to herdr.
AttachedWhileUp ==
  \A d \in attach : at[d] \in {"booting", "listening", "serving"}

BootIInv == BootTypes /\ PortIsHeld /\ AttachedWhileUp /\ B!LockFindsDaemon

LEMMA BootKeeps == BootIInv /\ [B!Next]_bootVars => BootIInv'
<1> SUFFICES ASSUME BootIInv, [B!Next]_bootVars PROVE BootIInv'
  OBVIOUS
<1> USE WorkAssumption DEF BootIInv, BootTypes, PortIsHeld, AttachedWhileUp, B!LockFindsDaemon,
        B!Stages, B!Moves, B!others
<1>1. ASSUME NEW d \in Daemon, B!Launch(d) \/ B!Refuses(d) PROVE BootIInv'
  BY <1>1 DEF B!Launch, B!Refuses
<1>2. ASSUME NEW d \in Daemon, B!Closes(d) PROVE BootIInv'
  BY <1>2 DEF B!Closes
<1>3. ASSUME NEW d \in Daemon, B!Crashes(d) PROVE BootIInv'
  BY <1>3 DEF B!Crashes
<1>4. ASSUME NEW d \in Daemon, B!Looks(d) PROVE BootIInv'
  BY <1>4 DEF B!Looks
<1>5. ASSUME NEW d \in Daemon, B!Attaches(d) PROVE BootIInv'
  BY <1>5 DEF B!Attaches
<1>6. ASSUME NEW d \in Daemon, B!Listens(d) PROVE BootIInv'
  <2>1. \/ at' = [at EXCEPT ![d] = "listening"] /\ port = None /\ port' = d /\ attach' = attach
        \/ at' = [at EXCEPT ![d] = "gone"] /\ port' = port /\ attach' = attach \ {d}
    BY <1>6 DEF B!Listens
  <2>2. at[d] = "booting" /\ UNCHANGED <<lock, unlocked, command>>
    BY <1>6 DEF B!Listens
  <2>3. CASE at' = [at EXCEPT ![d] = "listening"] /\ port = None /\ port' = d /\ attach' = attach
    BY <2>2, <2>3
  <2>4. CASE at' = [at EXCEPT ![d] = "gone"] /\ port' = port /\ attach' = attach \ {d}
    BY <2>2, <2>4
  <2> QED
    BY <2>1, <2>3, <2>4
<1>7. ASSUME NEW d \in Daemon, B!Locks(d) PROVE BootIInv'
  BY <1>7 DEF B!Locks
<1>8. ASSUME NEW d \in Daemon, B!ReleasesPort(d) PROVE BootIInv'
  BY <1>8 DEF B!ReleasesPort
<1>9. ASSUME NEW d \in Daemon, B!ClearsLock(d) PROVE BootIInv'
  BY <1>9 DEF B!ClearsLock
<1>10. ASSUME NEW c \in Command, B!CommandReads(c) \/ B!CommandAsks(c) PROVE BootIInv'
  <2>1. UNCHANGED <<at, port, lock, attach, unlocked>>
    BY <1>10 DEF B!CommandReads, B!CommandAsks
  <2>2. command' \in [Command -> [at : {"idle", "asks", "done", "over"},
                                  found : Daemon \cup {None}, answered : BOOLEAN]]
    BY <1>10 DEF B!CommandReads, B!CommandAsks, B!Reachable
  <2> QED
    BY <2>1, <2>2
<1>11. ASSUME NEW c \in Command, B!CommandStarts(c) PROVE BootIInv'
  BY <1>11 DEF B!CommandStarts
<1>12. CASE UNCHANGED bootVars
  BY <1>12 DEF bootVars
<1> HIDE DEF BootIInv
<1> QED
  BY <1>1, <1>2, <1>3, <1>4, <1>5, <1>6, <1>7, <1>8, <1>9, <1>10, <1>11, <1>12
  DEF B!Next, B!DaemonStep

LEMMA BootIsOne == BootIInv => B!OneDaemonServes
<1> SUFFICES ASSUME BootIInv PROVE B!OneDaemonServes
  OBVIOUS
<1> DEFINE up == {d \in Daemon : at[d] \in {"listening", "serving"}}
<1>1. Cardinality(up) <= 1
  <2>1. CASE up = {}
    BY <2>1, FS_EmptySet
  <2>2. ASSUME NEW d \in up PROVE Cardinality(up) = 1
    <3>1. up = {d}
      BY <2>2 DEF BootIInv, PortIsHeld
    <3> QED
      BY <3>1, FS_Singleton
  <2> QED
    BY <2>1, <2>2
<1>2. \A d \in Daemon : at[d] = "gone" => d \notin attach /\ port # d
  BY DEF BootIInv, PortIsHeld, AttachedWhileUp
<1> QED
  BY <1>1, <1>2, Zenon DEF B!OneDaemonServes, B!Cardinality, Cardinality

\* A command is answered by the daemon that has the port, or finds no lock.
LEMMA StatusStep ==
  ASSUME BootIInv, [B!Next]_bootVars, NEW c \in Command,
         command[c].at # "done", command'[c].at = "done", ~command'[c].answered,
         NEW d \in Daemon, at[d] = "serving"
  PROVE  d \in unlocked \cup Https
<1> USE DEF BootIInv, BootTypes
<1>1. \E b \in Command : B!CommandReads(b) \/ B!CommandAsks(b) \/ B!CommandStarts(b)
  <2>1. command' # command
    OBVIOUS
  <2> QED
    BY <2>1 DEF B!Next, B!DaemonStep, B!Launch, B!Refuses, B!Closes, B!Crashes, B!Looks, B!Attaches,
                B!Listens, B!Locks, B!ReleasesPort, B!ClearsLock, B!others, bootVars
<1>2. PICK b \in Command : B!CommandReads(b) \/ B!CommandAsks(b) \/ B!CommandStarts(b)
  BY <1>1
<1>3. CASE B!CommandReads(b)
  <2>1. c = b /\ lock = None
    BY <1>3 DEF B!CommandReads
  <2> QED
    BY <2>1, WorkAssumption DEF B!LockFindsDaemon
<1>4. CASE B!CommandAsks(b)
  <2>1. c = b /\ ~B!Reachable
    BY <1>4 DEF B!CommandAsks
  <2> QED
    BY <2>1, WorkAssumption DEF B!Reachable, PortIsHeld
<1>5. CASE B!CommandStarts(b)
  BY <1>5 DEF B!CommandStarts
<1> QED
  BY <1>2, <1>3, <1>4, <1>5
-----------------------------------------------------------------------------
(* The modules a daemon loads *)

\* Every non-empty set of naturals has a least element.
LEMMA LeastOf ==
  ASSUME NEW S, S \subseteq Nat, S # {} PROVE \E n \in S : \A m \in S : n <= m
<1>1. PICK n \in S : \A m \in S : ~(<<m, n>> \in OpToRel(<, Nat))
  BY NatLessThanWellFounded, WFMin, Zenon
<1>2. \A m \in S : ~(m < n)
  BY <1>1 DEF OpToRel
<1> QED
  BY <1>2

\* The first entry of an id, and the first route that fits, are what they say.
LEMMA FirstEntry ==
  ASSUME NEW id, NEW k \in 1..Len(loaded), loaded[k].id = id, Len(loaded) \in Nat
  PROVE  LET n == M!EntryOf(id) IN
           n \in 1..Len(loaded) /\ loaded[n].id = id
           /\ \A j \in 1..Len(loaded) : loaded[j].id = id => n <= j
<1> DEFINE I == {j \in 1..Len(loaded) : loaded[j].id = id}
<1>1. I # {} /\ I \subseteq Nat
  OBVIOUS
<1>2. \E n \in I : \A j \in I : n <= j
  BY <1>1, LeastOf
<1>3. M!Min(I) \in I /\ \A j \in I : M!Min(I) <= j
  BY <1>2 DEF M!Min
<1>4. M!EntryOf(id) = M!Min(I)
  BY <1>1 DEF M!EntryOf, M!SelectInSeq
<1> QED
  BY <1>3, <1>4

LEMMA FirstRoute ==
  ASSUME NEW e, NEW rest, Len(e.routes) \in Nat,
         NEW k \in 1..Len(e.routes), M!RouteFits(e.routes[k], rest)
  PROVE  LET n == M!RouteOf(e, rest) IN
           n \in 1..Len(e.routes) /\ M!RouteFits(e.routes[n], rest)
<1> DEFINE I == {j \in 1..Len(e.routes) : M!RouteFits(e.routes[j], rest)}
<1>1. I # {} /\ I \subseteq Nat
  OBVIOUS
<1>2. \E n \in I : \A j \in I : n <= j
  BY <1>1, LeastOf
<1>3. M!Min(I) \in I
  BY <1>2 DEF M!Min
<1>4. M!RouteOf(e, rest) = M!Min(I)
  BY <1>1 DEF M!RouteOf, M!SelectInSeq
<1> QED
  BY <1>3, <1>4

EntrySet == [at : M!Position, id : {Configured[i].id : i \in M!Position} \cup {<<"path", i>> : i \in M!Position},
             caps : SUBSET M!CAPABILITIES,
             routes : {Configured[i].routes : i \in M!Position} \cup {<<>>}, error : BOOLEAN]
Asks(i) == Configured[i].on /\ "events" \in M!Granted(Configured[i])

ModuleTypes ==
  /\ loaded \in Seq(EntrySet) /\ Len(loaded) <= Len(Configured)
  /\ handlers \in Seq(M!Position)
  /\ heard \in [M!Position -> Nat] /\ owed \in [M!Position -> Nat]

\* An entry is what its candidate was given: its own name and routes, if it runs,
\* and no more than both sides named.
EntriesAreTrue ==
  \A j \in 1..Len(loaded) :
    /\ loaded[j].at = j
    /\ loaded[j].caps \subseteq Configured[j].declared \cap Configured[j].granted
    /\ ~loaded[j].error => /\ loaded[j].id = Configured[j].id
                           /\ loaded[j].routes = Configured[j].routes
                           /\ loaded[j].id \in seen
OneModulePerName ==
  \A j, k \in 1..Len(loaded) :
    ~loaded[j].error /\ ~loaded[k].error /\ loaded[j].id = loaded[k].id => j = k

\* A handler is one of a module that had its turn; a module that asked has one.
HandlersAreDue ==
  /\ \A i \in M!Position : M!Contains(handlers, i) => i <= Len(loaded)
  /\ \A i \in 1..Len(loaded) : ~loaded[i].error /\ Asks(i) => M!Contains(handlers, i)
HeardAsOwed ==
  /\ \A i \in M!Position : i > Len(loaded) => heard[i] = 0
  /\ \A i \in 1..Len(loaded) : ~loaded[i].error /\ Asks(i) => heard[i] = owed[i]

\* Requests are routed once every module had its turn.
InquiryIsRouted ==
  inquiry # M!Idle => /\ Len(loaded) = Len(Configured)
                      /\ inquiry.by = M!MatchModuleRoute(inquiry.id, inquiry.rest)

ModulesIInv == ModuleTypes /\ EntriesAreTrue /\ OneModulePerName /\ HandlersAreDue
               /\ HeardAsOwed /\ InquiryIsRouted

LEMMA RunningIs ==
  ASSUME ModulesIInv, NEW i
  PROVE  M!Running(i) <=> i \in 1..Len(loaded) /\ ~loaded[i].error
<1>1. DOMAIN loaded = 1..Len(loaded)
  BY DEF ModulesIInv, ModuleTypes
<1>2. M!Running(i) <=> \E j \in 1..Len(loaded) : loaded[j].at = i /\ ~loaded[j].error
  BY <1>1 DEF M!Running, M!ToSet
<1> QED
  BY <1>2 DEF ModulesIInv, EntriesAreTrue

\* What Load adds: one entry, and the handler the module asked for.
LEMMA LoadAdds ==
  ASSUME ModulesIInv, M!Load
  PROVE  LET i == Len(loaded) + 1 IN
         /\ i \in M!Position
         /\ \E e \in EntrySet :
              /\ loaded' = Append(loaded, e) /\ e.at = i
              /\ e.caps \subseteq Configured[i].declared \cap Configured[i].granted
              /\ e.error => UNCHANGED <<seen, owed>>
              /\ ~e.error => /\ e.id = Configured[i].id /\ e.routes = Configured[i].routes
                             /\ e.id \notin seen /\ seen' = seen \cup {e.id}
                             /\ owed' = [owed EXCEPT ![i] = 0]
                             /\ Asks(i) => handlers' = Append(handlers, i)
         /\ handlers' \in {handlers, Append(handlers, i)}
         /\ UNCHANGED <<heard, inquiry>>
<1> DEFINE i == Len(loaded) + 1
           m == Configured[i]
           caps == M!Usable(M!Granted(m))
<1>1. i \in M!Position /\ UNCHANGED <<heard, inquiry>>
  BY DEF M!Load
<1>2. M!Refusal(i, m) \in EntrySet /\ M!Refusal(i, m).at = i /\ M!Refusal(i, m).caps = {}
      /\ M!Refusal(i, m).error
  BY <1>1 DEF M!Refusal, M!LoadedAs, EntrySet
<1>3. caps \subseteq m.declared \cap m.granted
      /\ ("events" \in M!Granted(m) => "events" \in caps)
  BY DEF M!Usable, M!Granted
<1>4. CASE M!Refused(m)
  <2>1. loaded' = Append(loaded, M!Refusal(i, m)) /\ UNCHANGED <<seen, handlers, owed>>
    BY <1>4 DEF M!Load
  <2> QED
    BY <1>1, <1>2, <2>1
<1>5. CASE ~M!Refused(m)
  <2>1. handlers' = IF m.on /\ "events" \in caps THEN Append(handlers, i) ELSE handlers
    BY <1>5 DEF M!Load
  <2>2. CASE m.throws
    <3>1. loaded' = Append(loaded, M!Refusal(i, m)) /\ UNCHANGED <<seen, owed>>
      BY <1>5, <2>2 DEF M!Load
    <3> QED
      BY <1>1, <1>2, <2>1, <3>1
  <2>3. CASE ~m.throws
    <3> DEFINE e == M!LoadedAs(i, m.id, caps, m.routes, FALSE)
    <3>1. /\ loaded' = Append(loaded, e) /\ seen' = seen \cup {m.id}
          /\ owed' = [owed EXCEPT ![i] = 0]
      BY <1>5, <2>3 DEF M!Load
    <3>2. m.id \notin seen /\ caps \subseteq M!CAPABILITIES
      BY <1>5, <1>3 DEF M!Refused, M!Unknown
    <3>3. e \in EntrySet /\ e.at = i /\ e.caps = caps /\ ~e.error /\ e.id = m.id /\ e.routes = m.routes
      BY <1>1, <3>2 DEF M!LoadedAs, EntrySet
    <3>4. Asks(i) => handlers' = Append(handlers, i)
      BY <2>1, <1>3 DEF Asks
    <3> HIDE DEF e
    <3> QED
      BY <1>1, <1>3, <2>1, <3>1, <3>2, <3>3, <3>4
  <2> QED
    BY <2>2, <2>3
<1> QED
  BY <1>4, <1>5

\* What a path is routed to is a matter of the entries alone.
LEMMA RouteStays ==
  ASSUME loaded' = loaded, NEW id, NEW rest
  PROVE  M!MatchModuleRoute(id, rest)' = M!MatchModuleRoute(id, rest)
<1>1. M!EntryOf(id)' = M!EntryOf(id)
  BY DEF M!EntryOf, M!SelectInSeq
<1> QED
  BY <1>1 DEF M!MatchModuleRoute, M!RouteOf, M!SelectInSeq

LEMMA LoadKeeps == ASSUME ModulesIInv, M!Load PROVE ModulesIInv'
<1> DEFINE i == Len(loaded) + 1
<1>1. PICK e \in EntrySet :
        /\ loaded' = Append(loaded, e) /\ e.at = i
        /\ e.caps \subseteq Configured[i].declared \cap Configured[i].granted
        /\ e.error => UNCHANGED <<seen, owed>>
        /\ ~e.error => /\ e.id = Configured[i].id /\ e.routes = Configured[i].routes
                       /\ e.id \notin seen /\ seen' = seen \cup {e.id}
                       /\ owed' = [owed EXCEPT ![i] = 0]
                       /\ Asks(i) => handlers' = Append(handlers, i)
  BY LoadAdds
<1>2. /\ i \in M!Position /\ handlers' \in {handlers, Append(handlers, i)}
      /\ UNCHANGED <<heard, inquiry>>
  BY LoadAdds
<1>3. /\ loaded \in Seq(EntrySet) /\ Len(loaded) \in Nat /\ handlers \in Seq(M!Position)
      /\ heard \in [M!Position -> Nat] /\ owed \in [M!Position -> Nat]
  BY DEF ModulesIInv, ModuleTypes
<1>4. /\ loaded' \in Seq(EntrySet) /\ Len(loaded') = i /\ loaded'[i] = e
      /\ \A j \in 1..Len(loaded) : loaded'[j] = loaded[j]
      /\ 1..Len(loaded') = 1..Len(loaded) \cup {i} /\ i \notin 1..Len(loaded)
  BY <1>1, <1>3
<1>5. /\ handlers' \in Seq(M!Position)
      /\ \A j \in M!Position : M!Contains(handlers', j) => j = i \/ M!Contains(handlers, j)
      /\ \A j \in M!Position : M!Contains(handlers, j) => M!Contains(handlers', j)
      /\ ~e.error /\ Asks(i) => M!Contains(handlers', i)
  <2>1. CASE handlers' = handlers /\ ~(~e.error /\ Asks(i))
    BY <1>3, <2>1
  <2>2. CASE handlers' = Append(handlers, i)
    <3>1. /\ Len(handlers) \in Nat /\ Len(handlers') = Len(handlers) + 1
          /\ handlers'[Len(handlers) + 1] = i /\ handlers' \in Seq(M!Position)
          /\ \A n \in 1..Len(handlers) : handlers'[n] = handlers[n]
      BY <1>2, <1>3, <2>2
    <3> HIDE DEF i
    <3> QED
      BY <3>1 DEF M!Contains
  <2> QED
    BY <1>1, <1>2, <2>1, <2>2
<1>6. /\ owed' \in [M!Position -> Nat]
      /\ \A j \in 1..Len(loaded) : owed'[j] = owed[j]
      /\ ~e.error => owed'[i] = 0
  <2>1. CASE e.error
    BY <1>1, <1>3, <2>1
  <2>2. CASE ~e.error
    <3>1. owed' = [owed EXCEPT ![i] = 0] /\ i \in M!Position
      BY <1>1, <1>2, <2>2
    <3> HIDE DEF i
    <3> QED
      BY <1>3, <1>4, <3>1, <2>2
  <2> QED
    BY <2>1, <2>2
<1>7. 1..Len(loaded) \subseteq M!Position /\ Len(loaded') <= Len(Configured)
  BY <1>2, <1>3, <1>4, ModulesAssumption DEF M!Position
<1>8. i > Len(loaded) /\ \A j \in M!Position : j > Len(loaded') => j > Len(loaded)
  BY <1>3, <1>4 DEF M!Position
<1> HIDE DEF i
<1>9. ModuleTypes'
  BY <1>2, <1>3, <1>4, <1>5, <1>6, <1>7 DEF ModuleTypes
<1>10. EntriesAreTrue'
  <2>1. \A j \in 1..Len(loaded) : loaded[j].at = j
    BY DEF ModulesIInv, EntriesAreTrue
  <2>2. seen \subseteq seen'
    BY <1>1
  <2> QED
    BY <1>1, <1>4, <2>1, <2>2 DEF ModulesIInv, EntriesAreTrue
<1>11. OneModulePerName'
  <2>1. \A j \in 1..Len(loaded) : ~loaded[j].error => loaded[j].id \in seen
    BY DEF ModulesIInv, EntriesAreTrue
  <2> QED
    BY <1>1, <1>4, <2>1 DEF ModulesIInv, OneModulePerName
<1>12. HandlersAreDue'
  <2>1. \A j \in M!Position : M!Contains(handlers', j) => j <= Len(loaded')
    BY <1>3, <1>4, <1>5, <1>2, <1>7 DEF ModulesIInv, HandlersAreDue, i, M!Position
  <2>2. \A j \in 1..Len(loaded') : ~loaded'[j].error /\ Asks(j) => M!Contains(handlers', j)
    BY <1>4, <1>5, <1>7 DEF ModulesIInv, HandlersAreDue
  <2> QED
    BY <2>1, <2>2 DEF HandlersAreDue, M!Contains
<1>13. HeardAsOwed'
  BY <1>2, <1>4, <1>6, <1>8 DEF ModulesIInv, HeardAsOwed
<1>14. InquiryIsRouted'
  <2>1. Len(loaded) # Len(Configured)
    BY <1>2, <1>3, ModulesAssumption DEF i, M!Position
  <2> QED
    BY <1>2, <2>1 DEF ModulesIInv, InquiryIsRouted
<1> QED
  BY <1>9, <1>10, <1>11, <1>12, <1>13, <1>14 DEF ModulesIInv

LEMMA EmitKeeps == ASSUME ModulesIInv, M!Emit PROVE ModulesIInv'
<1>1. /\ heard' = [i \in M!Position |-> IF M!Contains(handlers, i) THEN heard[i] + 1 ELSE heard[i]]
      /\ owed' = [i \in M!Position |-> IF M!Running(i) THEN owed[i] + 1 ELSE owed[i]]
      /\ UNCHANGED <<loaded, seen, handlers, inquiry>>
  BY DEF M!Emit, M!Running
<1>2. ModuleTypes'
  BY <1>1 DEF ModulesIInv, ModuleTypes
<1>3. (EntriesAreTrue /\ OneModulePerName)'
  BY <1>1 DEF ModulesIInv, EntriesAreTrue, OneModulePerName
<1>4. HandlersAreDue'
  BY <1>1 DEF ModulesIInv, HandlersAreDue, M!Contains
<1>5. HeardAsOwed'
  <2>1. \A i \in M!Position : i > Len(loaded) => ~M!Contains(handlers, i)
    BY DEF ModulesIInv, ModuleTypes, HandlersAreDue, M!Position
  <2>2. 1..Len(loaded) \subseteq M!Position
    BY ModulesAssumption DEF ModulesIInv, ModuleTypes, M!Position
  <2>3. \A i \in 1..Len(loaded) : ~loaded[i].error /\ Asks(i) =>
          M!Contains(handlers, i) /\ M!Running(i)
    BY RunningIs DEF ModulesIInv, HandlersAreDue
  <2> QED
    BY <1>1, <2>1, <2>2, <2>3 DEF ModulesIInv, HeardAsOwed
<1>6. InquiryIsRouted'
  <2>1. M!MatchModuleRoute(inquiry.id, inquiry.rest)'
          = M!MatchModuleRoute(inquiry.id, inquiry.rest)
    BY <1>1, RouteStays
  <2> QED
    BY <1>1, <2>1 DEF ModulesIInv, InquiryIsRouted
<1> QED
  BY <1>2, <1>3, <1>4, <1>5, <1>6 DEF ModulesIInv

LEMMA ServesKeeps == ASSUME ModulesIInv, M!Serves PROVE ModulesIInv'
<1>1. /\ Len(loaded) = Len(Configured)
      /\ \E id, rest : inquiry' = [id |-> id, rest |-> rest, by |-> M!MatchModuleRoute(id, rest)]
      /\ UNCHANGED <<loaded, seen, handlers, heard, owed>>
  BY DEF M!Serves, M!Listening
<1>2. (ModuleTypes /\ EntriesAreTrue /\ OneModulePerName /\ HandlersAreDue /\ HeardAsOwed)'
  BY <1>1 DEF ModulesIInv, ModuleTypes, EntriesAreTrue, OneModulePerName, HandlersAreDue, HeardAsOwed,
              M!Contains
<1>3. \A id, rest : M!MatchModuleRoute(id, rest)' = M!MatchModuleRoute(id, rest)
  BY <1>1, RouteStays
<1>4. InquiryIsRouted'
  BY <1>1, <1>3 DEF InquiryIsRouted
<1> QED
  BY <1>2, <1>4 DEF ModulesIInv

LEMMA ModulesKeeps == ModulesIInv /\ [M!Next]_modulesVars => ModulesIInv'
<1> SUFFICES ASSUME ModulesIInv, [M!Next]_modulesVars PROVE ModulesIInv'
  OBVIOUS
<1>1. CASE UNCHANGED modulesVars
  <2>1. UNCHANGED <<loaded, seen, handlers, heard, owed, inquiry>>
    BY <1>1 DEF modulesVars
  <2>2. \A id, rest : M!MatchModuleRoute(id, rest)' = M!MatchModuleRoute(id, rest)
    BY <2>1, RouteStays
  <2>3. InquiryIsRouted'
    BY <2>1, <2>2 DEF ModulesIInv, InquiryIsRouted
  <2> QED
    BY <2>1, <2>3 DEF ModulesIInv, ModuleTypes, EntriesAreTrue, OneModulePerName, HandlersAreDue,
                      HeardAsOwed, M!Contains
<1> QED
  BY <1>1, LoadKeeps, EmitKeeps, ServesKeeps DEF M!Next

LEMMA ModulesStart == M!Init => ModulesIInv
<1> SUFFICES ASSUME M!Init PROVE ModulesIInv
  OBVIOUS
<1>1. /\ loaded = <<>> /\ handlers = <<>> /\ inquiry = M!Idle
      /\ heard = [i \in M!Position |-> 0] /\ owed = heard
  BY DEF M!Init
<1>2. ModuleTypes
  BY <1>1, ModulesAssumption DEF ModuleTypes
<1>3. Len(loaded) = 0 /\ Len(handlers) = 0
  BY <1>1
<1>4. HandlersAreDue
  BY <1>3 DEF HandlersAreDue, M!Contains
<1>5. HeardAsOwed
  BY <1>1, <1>3 DEF HeardAsOwed
<1> QED
  BY <1>1, <1>2, <1>3, <1>4, <1>5 DEF ModulesIInv, EntriesAreTrue, OneModulePerName, InquiryIsRouted

LEMMA GrantsAreShared == ModulesIInv => M!GrantIsShared
<1> SUFFICES ASSUME ModulesIInv PROVE M!GrantIsShared
  OBVIOUS
<1>1. M!ToSet(loaded) = {loaded[j] : j \in 1..Len(loaded)}
  BY DEF ModulesIInv, ModuleTypes, M!ToSet
<1>2. \A j \in 1..Len(loaded) :
        loaded[j].caps \subseteq Configured[loaded[j].at].declared \cap Configured[loaded[j].at].granted
  BY DEF ModulesIInv, EntriesAreTrue
<1>3. \A j, k \in 1..Len(loaded) :
        ~loaded[j].error /\ ~loaded[k].error /\ loaded[k].id = loaded[j].id => loaded[k] = loaded[j]
  BY DEF ModulesIInv, OneModulePerName
<1> HIDE DEF ModulesIInv
<1> QED
  BY <1>1, <1>2, <1>3 DEF M!GrantIsShared

LEMMA HandlersHear == ModulesIInv => M!EveryHandlerHears
BY RunningIs DEF ModulesIInv, HeardAsOwed, M!EveryHandlerHears, Asks

\* A path goes to the first entry of its id, which is the running module when no
\* refused one stands before it.
LEMMA ModulesContained == ModulesIInv => M!ContainedUnlessShadowed
<1> SUFFICES ASSUME ModulesIInv, NEW i \in M!Position, inquiry # M!Idle, M!Running(i),
                    Configured[i].id = inquiry.id,
                    ~\E j \in 1..(i - 1) : loaded[j].error /\ loaded[j].id = inquiry.id,
                    \E r \in M!ToSet(Configured[i].routes) : M!RouteFits(r, inquiry.rest)
             PROVE  /\ inquiry.by # None /\ inquiry.by[1] = i
                    /\ M!RouteFits(Configured[i].routes[inquiry.by[2]], inquiry.rest)
  BY DEF M!ContainedUnlessShadowed
<1> DEFINE e == loaded[i]  n == M!EntryOf(inquiry.id)  r == M!RouteOf(e, inquiry.rest)
<1>1. /\ i \in 1..Len(loaded) /\ ~e.error /\ Len(loaded) \in Nat
      /\ e.at = i /\ e.id = inquiry.id /\ e.routes = Configured[i].routes
      /\ inquiry.by = M!MatchModuleRoute(inquiry.id, inquiry.rest)
  <2>1. i \in 1..Len(loaded) /\ ~e.error
    BY RunningIs
  <2>2. Len(loaded) \in Nat
    BY DEF ModulesIInv, ModuleTypes
  <2>3. e.at = i /\ e.id = inquiry.id /\ e.routes = Configured[i].routes
    BY <2>1 DEF ModulesIInv, EntriesAreTrue
  <2>4. inquiry.by = M!MatchModuleRoute(inquiry.id, inquiry.rest)
    BY DEF ModulesIInv, InquiryIsRouted
  <2> QED
    BY <2>1, <2>2, <2>3, <2>4
<1>2. n = i
  <2>1. n \in 1..Len(loaded) /\ loaded[n].id = inquiry.id /\ n <= i
    BY <1>1, FirstEntry
  <2>2. n < i => ~loaded[n].error
    BY <1>1, <2>1
  <2> HIDE DEF n
  <2> QED
    BY <1>1, <2>1, <2>2 DEF ModulesIInv, OneModulePerName
<1>3. r \in 1..Len(e.routes) /\ M!RouteFits(e.routes[r], inquiry.rest)
  <2>1. Len(e.routes) \in Nat
    BY <1>1, ModulesAssumption DEF M!Position
  <2>2. \E k \in 1..Len(e.routes) : M!RouteFits(e.routes[k], inquiry.rest)
    BY <1>1, ModulesAssumption DEF M!ToSet, M!Position
  <2> QED
    BY <2>1, <2>2, FirstRoute
<1>4. inquiry.by = <<i, r>>
  BY <1>1, <1>2, <1>3 DEF M!MatchModuleRoute
<1> QED
  <2>1. i \in Nat /\ r \in Nat /\ M!RouteFits(Configured[i].routes[r], inquiry.rest)
    BY <1>1, <1>3, ModulesAssumption DEF M!Position
  <2> HIDE DEF r
  <2> QED
    BY <1>4, <2>1, ModulesAssumption
-----------------------------------------------------------------------------

LEMMA WorkBoot == [WorkNext]_all => [B!Next]_bootVars
BY DEF WorkNext, all, bootVars, RepoStep, LaunchStep, TrustStep, ContextStep, ModulesStep,
       BootStep, AccessStep, OwnersStep

LEMMA WorkModules == [WorkNext]_all => [M!Next]_modulesVars
BY DEF WorkNext, all, modulesVars, RepoStep, LaunchStep, TrustStep, ContextStep, ModulesStep,
       BootStep, AccessStep, OwnersStep

\* One daemon of a directory serves, the lock names it and a command that says
\* none runs is right, for any daemons, commands and crashes; and whatever one
\* module does, each other one has its routes, its events and only what both
\* sides granted, for any modules (src/daemon.ts, src/cli.ts,
\* src/module-loader.ts, src/module-routes.ts, src/broker-events.ts).
THEOREM OneBrokerServes == WorkSpec => BootIsSound
<1>1. WorkInit => BootIInv /\ ModulesIInv
  BY ModulesStart, WorkAssumption
  DEF WorkInit, B!Init, BootIInv, BootTypes, PortIsHeld, AttachedWhileUp, B!LockFindsDaemon, B!Stages
<1>2. BootIInv /\ ModulesIInv /\ [WorkNext]_all => (BootIInv /\ ModulesIInv)'
  BY BootKeeps, ModulesKeeps, WorkBoot, WorkModules
<1>3. BootIInv /\ ModulesIInv =>
        B!LockFindsDaemon /\ B!OneDaemonServes
        /\ M!ContainedUnlessShadowed /\ M!GrantIsShared /\ M!EveryHandlerHears
  BY BootIsOne, ModulesContained, GrantsAreShared, HandlersHear DEF BootIInv
<1>4. BootIInv /\ [WorkNext]_all =>
        [\A c \in Command :
           command[c].at # "done" /\ command'[c].at = "done" /\ ~command'[c].answered
             => \A d \in Daemon : at[d] = "serving" => d \in unlocked \cup Https]_(B!vars)
  BY StatusStep, WorkBoot DEF B!vars, bootVars
<1> QED
  BY <1>1, <1>2, <1>3, <1>4, PTL DEF WorkSpec, BootIsSound, B!StatusIsTrue
-----------------------------------------------------------------------------
(* The config file of the CLIs *)

Config == [form : {"absent", "torn", "ok"}, flags : BOOLEAN, own : SUBSET Agents,
           trusted : SUBSET Cwd, lead : BOOLEAN]
TrustTypes ==
  /\ cfg \in Config
  /\ step \in [Agents -> [at : {"idle", "prepared", "placed", "runs", "over"},
                          dir : Cwd \cup {None}, env : BOOLEAN, fails : BOOLEAN]]
  /\ held = [s \in Agents |-> held[s]]
  /\ \A s \in Agents : step[s].at = "runs" => held[s] \in Config

\* A file that does not parse has nothing in it, as far as a reader can tell.
UnreadableIsEmpty == ~Tr!Readable(cfg) => ~cfg.flags /\ cfg.own = {} /\ cfg.trusted = {}
\* The directory of a spawn whose CLI is to start is trusted, or a CLI undid it.
PlacedIsTrusted ==
  \A s \in Agents : step[s].at = "placed" /\ ~step[s].fails =>
    step[s].dir \in cfg.trusted \cup undone
TrustIInv == TrustTypes /\ UnreadableIsEmpty /\ PlacedIsTrusted

\* An edit of the broker adds to what a reader finds, and takes nothing.
LEMMA EditAdds ==
  ASSUME TrustIInv, NEW flags \in BOOLEAN, NEW dirs \in SUBSET Cwd,
         cfg' = Tr!Edited(cfg, flags, dirs)
  PROVE  /\ cfg' \in Config /\ cfg'.form = "ok"
         /\ cfg.own \subseteq cfg'.own /\ cfg'.trusted = cfg.trusted \cup dirs
         /\ cfg.flags => cfg'.flags
BY DEF TrustIInv, TrustTypes, UnreadableIsEmpty, Config, Tr!Edited, Tr!Read, Tr!Readable, Tr!Absent

LEMMA TrustKeeps == TrustIInv /\ [Tr!Next]_trustVars => TrustIInv'
<1> SUFFICES ASSUME TrustIInv, [Tr!Next]_trustVars PROVE TrustIInv'
  OBVIOUS
<1> USE DEF Tr!Reach, Tr!Refused
<1>1. ASSUME NEW s \in Agents, Tr!Prepares(s) PROVE TrustIInv'
  <2>1. /\ step' \in {[step EXCEPT ![s].at = "prepared"],
                      [step EXCEPT ![s].at = "prepared", ![s].env = FALSE]}
        /\ UNCHANGED <<held, undone>>
    BY <1>1 DEF Tr!Prepares
  <2>2. cfg' = cfg \/ cfg' = Tr!Edited(cfg, TRUE, {})
    BY <1>1 DEF Tr!Prepares
  <2>3. CASE cfg' = cfg
    BY <2>1, <2>3 DEF TrustIInv, TrustTypes, PlacedIsTrusted, UnreadableIsEmpty, Tr!Readable
  <2>4. CASE cfg' = Tr!Edited(cfg, TRUE, {})
    <3>1. cfg' \in Config /\ cfg'.form = "ok" /\ cfg'.trusted = cfg.trusted \cup {}
      BY <2>4, EditAdds, {} \in SUBSET Cwd, TRUE \in BOOLEAN
    <3> QED
      BY <2>1, <3>1 DEF TrustIInv, TrustTypes, PlacedIsTrusted, UnreadableIsEmpty, Tr!Readable
  <2> QED
    BY <2>2, <2>3, <2>4
<1>2. ASSUME NEW s \in Agents, Tr!Trusts(s) PROVE TrustIInv'
  <2>1. PICK d \in Cwd :
          \/ /\ cfg' = Tr!Edited(cfg, FALSE, {d})
             /\ step' = [step EXCEPT ![s].at = "placed", ![s].dir = d]
             /\ undone' = undone \ {d}
          \/ /\ step' = [step EXCEPT ![s].at = "placed", ![s].dir = d, ![s].fails = TRUE]
             /\ UNCHANGED <<cfg, undone>>
    BY <1>2 DEF Tr!Trusts
  <2>2. held' = held
    BY <1>2 DEF Tr!Trusts
  <2>3. CASE /\ cfg' = Tr!Edited(cfg, FALSE, {d})
             /\ step' = [step EXCEPT ![s].at = "placed", ![s].dir = d]
             /\ undone' = undone \ {d}
    <3>1. cfg' \in Config /\ cfg'.form = "ok" /\ cfg'.trusted = cfg.trusted \cup {d}
      BY <2>3, EditAdds
    <3> QED
      BY <2>2, <2>3, <3>1
      DEF TrustIInv, TrustTypes, PlacedIsTrusted, UnreadableIsEmpty, Tr!Readable
  <2>4. CASE /\ step' = [step EXCEPT ![s].at = "placed", ![s].dir = d, ![s].fails = TRUE]
             /\ UNCHANGED <<cfg, undone>>
    <3> DEFINE st == [step[s] EXCEPT !.at = "placed", !.dir = d, !.fails = TRUE]
    <3>1. st \in [at : {"idle", "prepared", "placed", "runs", "over"},
                  dir : Cwd \cup {None}, env : BOOLEAN, fails : BOOLEAN]
          /\ st.at = "placed" /\ cfg' = cfg
      BY <2>4 DEF TrustIInv, TrustTypes
    <3>2. TrustTypes'
      <4>1. step' = [step EXCEPT ![s] = st]
        BY <2>4
      <4> HIDE DEF st
      <4> QED
        BY <2>2, <3>1, <4>1 DEF TrustIInv, TrustTypes
    <3>3. PlacedIsTrusted'
      BY <2>4 DEF TrustIInv, TrustTypes, PlacedIsTrusted
    <3> QED
      BY <2>4, <3>2, <3>3 DEF TrustIInv, UnreadableIsEmpty, Tr!Readable
  <2> QED
    BY <2>1, <2>3, <2>4
<1>3. ASSUME NEW s \in Agents, Tr!GivesUp(s) \/ Tr!Elsewhere(s) \/ Tr!CliEnds(s) PROVE TrustIInv'
  <2>1. step' = [step EXCEPT ![s].at = "over"] /\ UNCHANGED <<cfg, held, undone>>
    BY <1>3 DEF Tr!GivesUp, Tr!Elsewhere, Tr!CliEnds
  <2> QED
    BY <2>1 DEF TrustIInv, TrustTypes, PlacedIsTrusted, UnreadableIsEmpty
<1>4. ASSUME NEW s \in Agents, Tr!CliReads(s) PROVE TrustIInv'
  <2>1. /\ step' = [step EXCEPT ![s].at = "runs"] /\ held' = [held EXCEPT ![s] = Tr!Read(cfg)]
        /\ UNCHANGED <<cfg, undone>>
    BY <1>4 DEF Tr!CliReads
  <2>2. Tr!Read(cfg) \in Config
    BY DEF TrustIInv, TrustTypes, Tr!Read, Tr!Absent, Config
  <2> QED
    BY <2>1, <2>2 DEF TrustIInv, TrustTypes, PlacedIsTrusted, UnreadableIsEmpty
<1>5. ASSUME NEW s \in Agents, Tr!CliWrites(s) PROVE TrustIInv'
  <2>1. PICK comment \in BOOLEAN, fresh \in BOOLEAN :
          LET copy == IF fresh THEN Tr!Read(cfg) ELSE held[s]
          IN cfg' = [copy EXCEPT !.form = "ok", !.own = @ \union {s}, !.lead = comment]
    BY <1>5 DEF Tr!CliWrites
  <2>2. Tr!Read(cfg) \in Config /\ held[s] \in Config
    BY <1>5 DEF TrustIInv, TrustTypes, Tr!Read, Tr!Absent, Config, Tr!CliWrites
  <2>3. cfg' \in Config /\ cfg'.form = "ok"
    BY <2>1, <2>2 DEF Config
  <2>4. /\ held' = [held EXCEPT ![s] = cfg'] /\ step' = step
        /\ undone' = undone \cup (cfg.trusted \ cfg'.trusted)
    BY <1>5 DEF Tr!CliWrites
  <2> QED
    BY <2>3, <2>4 DEF TrustIInv, TrustTypes, PlacedIsTrusted, UnreadableIsEmpty, Tr!Readable
<1>6. ASSUME NEW s \in Agents, Tr!CliTears(s) PROVE TrustIInv'
  <2>1. cfg' = Tr!Torn /\ undone' = undone \cup cfg.trusted /\ UNCHANGED <<step, held>>
    BY <1>6 DEF Tr!CliTears
  <2>2. Tr!Torn \in Config /\ ~Tr!Torn.flags /\ Tr!Torn.own = {} /\ Tr!Torn.trusted = {}
    BY DEF Tr!Torn, Tr!Absent, Config
  <2> QED
    BY <2>1, <2>2 DEF TrustIInv, TrustTypes, PlacedIsTrusted, UnreadableIsEmpty
<1>7. CASE UNCHANGED trustVars
  BY <1>7 DEF trustVars, TrustIInv, TrustTypes, PlacedIsTrusted, UnreadableIsEmpty, Tr!Readable
<1> QED
  BY <1>1, <1>2, <1>3, <1>4, <1>5, <1>6, <1>7 DEF Tr!Next

\* A CLI that asks is one whose file could not be written, or was undone.
LEMMA AskedStep ==
  ASSUME TrustIInv, [Tr!Next]_trustVars, NEW s \in dialog' \ dialog
  PROVE  step[s].fails \/ ~step[s].env \/ step[s].dir \in undone \/ ~cfg.flags
<1>1. \E t \in Agents : Tr!CliReads(t) \/ Tr!Elsewhere(t)
  <2>1. dialog' # dialog
    OBVIOUS
  <2> QED
    BY <2>1 DEF Tr!Next, trustVars, Tr!Prepares, Tr!Trusts, Tr!GivesUp, Tr!CliWrites, Tr!CliTears,
                Tr!CliEnds
<1>2. PICK t \in Agents : Tr!CliReads(t) \/ Tr!Elsewhere(t)
  BY <1>1
<1>3. s = t
  BY <1>2 DEF Tr!CliReads, Tr!Elsewhere
<1>4. CASE Tr!Elsewhere(t)
  BY <1>3, <1>4 DEF Tr!Elsewhere
<1>5. CASE Tr!CliReads(t)
  <2>1. step[t].at = "placed" /\ ~Tr!Known(t, Tr!Read(cfg))
    BY <1>3, <1>5 DEF Tr!CliReads
  <2>2. CASE Tr!Readable(cfg)
    BY <1>2, <1>3, <2>1, <2>2 DEF Tr!Known, Tr!Read, TrustIInv, PlacedIsTrusted
  <2>3. CASE ~Tr!Readable(cfg)
    BY <2>3 DEF TrustIInv, UnreadableIsEmpty
  <2> QED
    BY <2>2, <2>3
<1> QED
  BY <1>2, <1>4, <1>5

\* The two writes of a spawn keep what a reader found in the file.
LEMMA ClobberStep ==
  ASSUME TrustIInv, [Tr!Next]_trustVars, NEW s \in Agents,
         step[s].at \in {"idle", "prepared"}, step'[s].at # step[s].at
  PROVE  cfg.own \subseteq cfg'.own /\ cfg.trusted \subseteq cfg'.trusted
         /\ (cfg.flags => cfg'.flags)
<1>1. PICK t \in Agents : \/ Tr!Prepares(t) \/ Tr!Trusts(t) \/ Tr!GivesUp(t)
                          \/ Tr!CliReads(t) \/ Tr!Elsewhere(t) \/ Tr!CliWrites(t) \/ Tr!CliTears(t)
                          \/ Tr!CliEnds(t)
  BY DEF Tr!Next, trustVars
<1>2. CASE Tr!Prepares(t)
  <2>1. cfg' = cfg \/ cfg' = Tr!Edited(cfg, TRUE, {})
    BY <1>2 DEF Tr!Prepares
  <2>2. CASE cfg' = Tr!Edited(cfg, TRUE, {})
    BY <2>2, EditAdds, {} \in SUBSET Cwd, TRUE \in BOOLEAN
  <2> QED
    BY <2>1, <2>2
<1>3. CASE Tr!Trusts(t)
  <2>1. cfg' = cfg \/ \E d \in Cwd : cfg' = Tr!Edited(cfg, FALSE, {d})
    BY <1>3 DEF Tr!Trusts
  <2>2. ASSUME NEW d \in Cwd, cfg' = Tr!Edited(cfg, FALSE, {d})
        PROVE  cfg.own \subseteq cfg'.own /\ cfg.trusted \subseteq cfg'.trusted
               /\ (cfg.flags => cfg'.flags)
    BY <2>2, EditAdds
  <2> QED
    BY <2>1, <2>2
<1>4. CASE Tr!GivesUp(t) \/ Tr!CliReads(t) \/ Tr!Elsewhere(t) \/ Tr!CliEnds(t)
  BY <1>4 DEF Tr!GivesUp, Tr!CliReads, Tr!Elsewhere, Tr!CliEnds
<1>5. CASE Tr!CliWrites(t) \/ Tr!CliTears(t)
  BY <1>5 DEF Tr!CliWrites, Tr!CliTears
<1> QED
  BY <1>1, <1>2, <1>3, <1>4, <1>5
-----------------------------------------------------------------------------
(* The environment a spawn is due *)

EntryRec == [scope : SUBSET {"kind", "session"}, foreign : BOOLEAN, value : Nat]
\* The registry is a list of entries, one per key.
EntriesTyped ==
  /\ entries \in Seq(EntryRec)
  /\ \A m, n \in 1..Len(entries) : L!Keyed(entries[m], entries[n]) => m = n

\* The fold of resolveForSpawn as a recursive function over sets of places:
\* what it has picked once it looked at those.
PickOf(best, e) ==
  IF L!ScopeMatches(e) /\ (best = None \/ L!Specificity(e.scope) > L!Specificity(best.scope))
  THEN e ELSE best
LooksAt(f) == f = [S \in SUBSET DOMAIN entries |->
                     IF S = {} THEN None ELSE PickOf(f[S \ {L!Max(S)}], entries[L!Max(S)])]

\* The places among S whose entry is about the spawn, and the one that names most.
Matching(S) == {n \in S : L!ScopeMatches(entries[n])}
Most(n, S) == n \in Matching(S)
              /\ \A m \in Matching(S) : L!Specificity(entries[m].scope) <= L!Specificity(entries[n].scope)
PickedOf == [S \in SUBSET DOMAIN entries |->
               IF Matching(S) = {} THEN None ELSE entries[CHOOSE n \in S : Most(n, S)]]

\* A set of places has a last one.
LEMMA LastPlace ==
  ASSUME NEW N \in Nat, NEW S \in SUBSET (1..N), S # {}
  PROVE  L!Max(S) \in S /\ \A n \in S : n <= L!Max(S)
<1> DEFINE D == {N - n : n \in S}
<1>1. PICK d \in D : \A m \in D : d <= m
  <2>1. \A n \in S : N - n \in Nat
    OBVIOUS
  <2>2. D \subseteq Nat /\ D # {}
    BY <2>1
  <2> HIDE DEF D
  <2> QED
    BY <2>2, LeastOf
<1>2. PICK n \in S : d = N - n
  OBVIOUS
<1>3. \A m \in S : n >= m
  <2> SUFFICES ASSUME NEW m \in S PROVE n >= m
    OBVIOUS
  <2>1. N - m \in D /\ m \in Nat /\ n \in Nat
    OBVIOUS
  <2> QED
    BY <1>1, <1>2, <2>1
<1>4. L!Max(S) \in S /\ \A m \in S : L!Max(S) >= m
  BY <1>3 DEF L!Max
<1> QED
  BY <1>4

LEMMA ScopesRank ==
  /\ \A sc \in SUBSET {"kind", "session"} : L!Specificity(sc) \in 0..3
  /\ \A sc, to \in SUBSET {"kind", "session"} : L!Specificity(sc) = L!Specificity(to) => sc = to
<1>1. \A sc \in SUBSET {"kind", "session"} : L!Specificity(sc) \in 0..3
  BY DEF L!Specificity
<1>2. ASSUME NEW sc \in SUBSET {"kind", "session"}, NEW to \in SUBSET {"kind", "session"},
             L!Specificity(sc) = L!Specificity(to)
      PROVE  sc = to
  <2>1. ("kind" \in sc <=> "kind" \in to) /\ ("session" \in sc <=> "session" \in to)
    BY <1>2 DEF L!Specificity
  <2>2. \A x \in sc \cup to : x = "kind" \/ x = "session"
    OBVIOUS
  <2>3. \A x : x \in sc <=> x \in to
    BY <2>1, <2>2
  <2> QED
    BY <2>3
<1> QED
  BY <1>1, <1>2

\* Of entries that are about the spawn one names most, and no other as much.
LEMMA OneNamesMost ==
  ASSUME EntriesTyped, NEW S \in SUBSET DOMAIN entries, Matching(S) # {}
  PROVE  /\ Most(CHOOSE n \in S : Most(n, S), S)
         /\ \A n \in S : Most(n, S) => n = CHOOSE m \in S : Most(m, S)
<1> DEFINE D == {3 - L!Specificity(entries[n].scope) : n \in Matching(S)}
<1>1. \A n \in S : /\ n \in 1..Len(entries) /\ entries[n] \in EntryRec
                   /\ L!Specificity(entries[n].scope) \in 0..3
  <2> SUFFICES ASSUME NEW n \in S
               PROVE  /\ n \in 1..Len(entries) /\ entries[n] \in EntryRec
                      /\ L!Specificity(entries[n].scope) \in 0..3
    OBVIOUS
  <2>1. n \in 1..Len(entries)
    BY DEF EntriesTyped
  <2>2. entries[n] \in EntryRec
    BY <2>1 DEF EntriesTyped
  <2>3. entries[n].scope \in SUBSET {"kind", "session"}
    BY <2>2 DEF EntryRec
  <2> QED
    BY <2>1, <2>2, <2>3, ScopesRank
<1>2. PICK d \in D : \A m \in D : d <= m
  <2>1. D \subseteq Nat /\ D # {}
    BY <1>1 DEF Matching
  <2> QED
    BY <2>1, LeastOf
<1>3. PICK n \in Matching(S) : d = 3 - L!Specificity(entries[n].scope)
  OBVIOUS
<1>4. Most(n, S)
  <2> SUFFICES ASSUME NEW m \in Matching(S)
               PROVE  L!Specificity(entries[m].scope) <= L!Specificity(entries[n].scope)
    BY DEF Most
  <2>1. 3 - L!Specificity(entries[m].scope) \in D
    OBVIOUS
  <2>2. m \in S /\ n \in S
    BY DEF Matching
  <2>3. d <= 3 - L!Specificity(entries[m].scope)
    BY <1>2, <2>1
  <2>4. L!Specificity(entries[m].scope) \in 0..3 /\ L!Specificity(entries[n].scope) \in 0..3
    BY <1>1, <2>2
  <2> HIDE DEF D
  <2> QED
    BY <1>3, <2>3, <2>4
<1>5. ASSUME NEW m \in S, NEW k \in S, Most(m, S), Most(k, S) PROVE m = k
  <2>1. L!Specificity(entries[m].scope) = L!Specificity(entries[k].scope)
    BY <1>1, <1>5 DEF Most
  <2>2. entries[m].scope = entries[k].scope
    BY <1>1, <2>1, ScopesRank DEF EntryRec
  <2>3. L!Keyed(entries[m], entries[k])
    BY <1>1, <1>5, <2>2 DEF L!Keyed, L!ScopeMatches, Most, Matching
  <2> QED
    BY <1>1, <2>3 DEF EntriesTyped
<1> QED
  BY <1>3, <1>4, <1>5 DEF Matching

\* Looking at one more place picks what names most among all of them.
LEMMA LooksOn ==
  ASSUME EntriesTyped, NEW S \in SUBSET DOMAIN entries, NEW k \in S, \A n \in S : n <= k
  PROVE  PickedOf[S] = PickOf(PickedOf[S \ {k}], entries[k])
<1> DEFINE T == S \ {k}
           p == CHOOSE n \in T : Most(n, T)
<1>1. T \in SUBSET DOMAIN entries /\ S = T \cup {k}
  OBVIOUS
<1>2. \A n \in S : /\ n \in 1..Len(entries) /\ entries[n] \in EntryRec /\ entries[n] # None
                   /\ L!Specificity(entries[n].scope) \in 0..3
  <2> SUFFICES ASSUME NEW n \in S
               PROVE  /\ n \in 1..Len(entries) /\ entries[n] \in EntryRec /\ entries[n] # None
                      /\ L!Specificity(entries[n].scope) \in 0..3
    OBVIOUS
  <2>1. n \in 1..Len(entries) /\ entries[n] \in EntryRec
    BY DEF EntriesTyped
  <2>2. entries[n].scope \in SUBSET {"kind", "session"}
    BY <2>1 DEF EntryRec
  <2> QED
    BY <2>1, <2>2, ScopesRank, LaunchAssumption DEF EntryRec
<1>3. /\ PickedOf[S] = IF Matching(S) = {} THEN None ELSE entries[CHOOSE n \in S : Most(n, S)]
      /\ PickedOf[T] = IF Matching(T) = {} THEN None ELSE entries[p]
  BY <1>1 DEF PickedOf
<1> HIDE DEF T, p
<1>4. CASE ~L!ScopeMatches(entries[k])
  <2>1. Matching(S) = Matching(T)
    BY <1>1, <1>4 DEF Matching
  <2>2. CASE Matching(S) = {}
    BY <1>3, <1>4, <2>1, <2>2 DEF PickOf, T
  <2>3. CASE Matching(S) # {}
    <3>1. Most(p, T)
      BY <1>1, <2>1, <2>3, OneNamesMost DEF p
    <3>2. Most(p, S) /\ p \in S
      BY <1>1, <2>1, <3>1 DEF Most, Matching
    <3>3. p = CHOOSE n \in S : Most(n, S)
      BY <2>3, <3>2, OneNamesMost
    <3> QED
      BY <1>3, <1>4, <2>1, <2>3, <3>3 DEF PickOf, T
  <2> QED
    BY <2>2, <2>3
<1>5. CASE L!ScopeMatches(entries[k]) /\ Matching(T) = {}
  <2>1. Matching(S) = {k}
    BY <1>1, <1>5 DEF Matching
  <2>2. Most(k, S)
    BY <1>2, <2>1 DEF Most
  <2>3. k = CHOOSE n \in S : Most(n, S)
    BY <2>1, <2>2, OneNamesMost
  <2> QED
    BY <1>3, <1>5, <2>1, <2>3 DEF PickOf, T
<1>6. CASE L!ScopeMatches(entries[k]) /\ Matching(T) # {}
  <2>1. Most(p, T)
    BY <1>1, <1>6, OneNamesMost DEF p
  <2>2. p \in S /\ p \in T /\ L!ScopeMatches(entries[p]) /\ Matching(S) = Matching(T) \cup {k}
    BY <1>1, <1>6, <2>1 DEF Most, Matching
  <2>3. Matching(S) # {}
    BY <2>2
  <2>4. CASE L!Specificity(entries[k].scope) > L!Specificity(entries[p].scope)
    <3>1. \A m \in Matching(S) : L!Specificity(entries[m].scope) <= L!Specificity(entries[k].scope)
      <4> SUFFICES ASSUME NEW m \in Matching(S)
                   PROVE  L!Specificity(entries[m].scope) <= L!Specificity(entries[k].scope)
        OBVIOUS
      <4>1. m \in S
        BY DEF Matching
      <4>2. m = k \/ L!Specificity(entries[m].scope) <= L!Specificity(entries[p].scope)
        BY <2>1, <2>2 DEF Most
      <4> QED
        BY <1>2, <2>2, <2>4, <4>1, <4>2
    <3>2. Most(k, S)
      BY <2>2, <3>1 DEF Most
    <3>3. k = CHOOSE n \in S : Most(n, S)
      BY <2>3, <3>2, OneNamesMost
    <3> QED
      BY <1>3, <1>6, <2>3, <2>4, <3>3 DEF PickOf, T
  <2>5. CASE ~(L!Specificity(entries[k].scope) > L!Specificity(entries[p].scope))
    <3>1. L!Specificity(entries[k].scope) <= L!Specificity(entries[p].scope)
      BY <1>2, <2>2, <2>5
    <3>2. Most(p, S)
      BY <2>1, <2>2, <3>1 DEF Most
    <3>3. p = CHOOSE n \in S : Most(n, S)
      BY <2>2, <2>3, <3>2, OneNamesMost
    <3> QED
      BY <1>2, <1>3, <1>6, <2>2, <2>3, <2>5, <3>3 DEF PickOf, T
  <2> QED
    BY <2>4, <2>5
<1> QED
  BY <1>4, <1>5, <1>6

\* So the places looked at in order, as the fold does, give what names most.
LEMMA LooksInOrder == ASSUME EntriesTyped PROVE LooksAt(PickedOf)
<1>1. Len(entries) \in Nat /\ DOMAIN entries = 1..Len(entries)
  BY DEF EntriesTyped
<1>2. ASSUME NEW S \in SUBSET DOMAIN entries
      PROVE  PickedOf[S] = IF S = {} THEN None
                           ELSE PickOf(PickedOf[S \ {L!Max(S)}], entries[L!Max(S)])
  <2>1. CASE S = {}
    BY <2>1 DEF PickedOf, Matching
  <2>2. CASE S # {}
    <3>1. L!Max(S) \in S /\ \A n \in S : n <= L!Max(S)
      BY <1>1, <2>2, LastPlace
    <3> QED
      BY <2>2, <3>1, LooksOn
  <2> QED
    BY <2>1, <2>2
<1>3. PickedOf = [S \in SUBSET DOMAIN entries |-> PickedOf[S]]
  BY DEF PickedOf
<1> QED
  BY <1>2, <1>3 DEF LooksAt

LEMMA ResolvesMost == ASSUME EntriesTyped
  PROVE L!ResolveManual = IF Matching(DOMAIN entries) = {} THEN None
                          ELSE entries[CHOOSE n \in DOMAIN entries : Most(n, DOMAIN entries)].value
<1> DEFINE it == CHOOSE f : LooksAt(f)
           N == Len(entries)
           Wrong == {k \in 0..N : it[1..k] # PickedOf[1..k]}
<1>1. LooksAt(it)
  BY LooksInOrder
<1>2. L!ResolveManual = IF it[DOMAIN entries] = None THEN None ELSE it[DOMAIN entries].value
  BY Zenon DEF L!ResolveManual, L!FoldLeft, L!MapThenFoldSet, LooksAt, PickOf
<1> HIDE DEF it
<1>3. N \in Nat /\ DOMAIN entries = 1..N
  BY DEF EntriesTyped
<1>4. \A k \in 0..N : 1..k \in SUBSET DOMAIN entries
  BY <1>3
<1>5. ASSUME NEW k \in 1..N, it[1..(k - 1)] = PickedOf[1..(k - 1)] PROVE it[1..k] = PickedOf[1..k]
  <2>1. L!Max(1..k) \in 1..k /\ \A n \in 1..k : n <= L!Max(1..k)
    <3>1. 1..k \in SUBSET (1..N) /\ 1..k # {} /\ N \in Nat
      BY <1>3
    <3> QED
      BY <3>1, LastPlace
  <2>2. L!Max(1..k) = k
    BY <2>1
  <2>3. (1..k) \ {k} = 1..(k - 1) /\ 1..k # {} /\ k \in 0..N
    OBVIOUS
  <2>4. 1..k \in SUBSET DOMAIN entries
    BY <1>4, <2>3
  <2>5. it[1..k] = PickOf(it[(1..k) \ {k}], entries[k])
    BY <1>1, <2>2, <2>3, <2>4 DEF LooksAt
  <2>6. PickedOf[1..k] = PickOf(PickedOf[(1..k) \ {k}], entries[k])
    BY <2>2, <2>3, <2>4, LooksInOrder DEF LooksAt
  <2> QED
    BY <1>5, <2>3, <2>5, <2>6
<1>6. it[1..0] = PickedOf[1..0]
  <2>1. 1..0 = {} /\ {} \in SUBSET DOMAIN entries
    OBVIOUS
  <2> QED
    BY <1>1, <2>1, LooksInOrder DEF LooksAt
<1>7. Wrong = {}
  <2> SUFFICES ASSUME Wrong # {} PROVE FALSE
    OBVIOUS
  <2>1. PICK k \in Wrong : \A m \in Wrong : k <= m
    <3>1. Wrong \subseteq Nat
      OBVIOUS
    <3> HIDE DEF Wrong
    <3> QED
      BY <3>1, LeastOf
  <2>2. k # 0 /\ k \in 1..N /\ k - 1 \in 0..N /\ k - 1 \notin Wrong
    BY <1>3, <1>6, <2>1
  <2> QED
    BY <1>5, <2>1, <2>2
<1>8. it[DOMAIN entries] = PickedOf[DOMAIN entries]
  BY <1>3, <1>7
<1>9. Matching(DOMAIN entries) # {} =>
        entries[CHOOSE n \in DOMAIN entries : Most(n, DOMAIN entries)] # None
  <2> SUFFICES ASSUME Matching(DOMAIN entries) # {}
               PROVE  entries[CHOOSE n \in DOMAIN entries : Most(n, DOMAIN entries)] # None
    OBVIOUS
  <2>1. Most(CHOOSE n \in DOMAIN entries : Most(n, DOMAIN entries), DOMAIN entries)
    BY OneNamesMost
  <2>2. (CHOOSE n \in DOMAIN entries : Most(n, DOMAIN entries)) \in 1..N
    BY <1>3, <2>1 DEF Most, Matching
  <2>3. entries[CHOOSE n \in DOMAIN entries : Most(n, DOMAIN entries)] \in EntryRec
    BY <2>2 DEF EntriesTyped
  <2> QED
    BY <2>3, LaunchAssumption DEF EntryRec
<1> QED
  BY <1>2, <1>8, <1>9 DEF PickedOf

\* The registry keeps its promise: what a spawn resolves is what it is due, or
\* no entry is about it and the hook is left.
LEMMA ResolvesDue ==
  ASSUME EntriesTyped
  PROVE  IF L!ResolveManual = None THEN L!Due = IF hook = "value" THEN "hook" ELSE None
                                   ELSE L!Due = L!ResolveManual
<1> DEFINE D == DOMAIN entries
           own(sc) == {e \in L!Range(entries) : e.scope = sc /\ ~e.foreign}
           order == <<{"kind", "session"}, {"kind"}, {"session"}, {}>>
           hits == {n \in 1..4 : own(order[n]) # {}}
           first == CHOOSE n \in hits : \A k \in hits : n <= k
<1>1. L!Due = IF hits = {} THEN (IF hook = "value" THEN "hook" ELSE None)
              ELSE (CHOOSE e \in own(order[first]) : TRUE).value
  BY DEF L!Due
<1>2. D = 1..Len(entries) /\ L!Range(entries) = {entries[n] : n \in D}
      /\ \A n \in D : entries[n] \in EntryRec
  BY DEF EntriesTyped, L!Range
<1>3. \A sc : own(sc) = {entries[n] : n \in {m \in D : entries[m].scope = sc /\ ~entries[m].foreign}}
  BY <1>2
<1>4. \A n \in 1..4 : order[n] \in SUBSET {"kind", "session"} /\ L!Specificity(order[n]) = 4 - n
  BY DEF L!Specificity
<1>5. \A sc \in SUBSET {"kind", "session"} : \E n \in 1..4 : sc = order[n]
  <2> SUFFICES ASSUME NEW sc \in SUBSET {"kind", "session"} PROVE \E n \in 1..4 : sc = order[n]
    OBVIOUS
  <2>1. L!Specificity(sc) \in 0..3
    BY ScopesRank
  <2> HIDE DEF order
  <2>2. 4 - L!Specificity(sc) \in 1..4 /\ L!Specificity(order[4 - L!Specificity(sc)]) = L!Specificity(sc)
    BY <1>4, <2>1
  <2> QED
    BY <1>4, <2>2, ScopesRank
<1>6. \A n \in D : L!ScopeMatches(entries[n]) <=> ~entries[n].foreign
  BY <1>2 DEF L!ScopeMatches, EntryRec
<1> HIDE DEF order, own, first
<1>7. CASE Matching(D) = {}
  <2>1. hits = {}
    BY <1>3, <1>6, <1>7 DEF Matching
  <2> QED
    BY <1>1, <1>7, <2>1, ResolvesMost
<1>8. CASE Matching(D) # {}
  <2> DEFINE n == CHOOSE m \in D : Most(m, D)
  <2>1. Most(n, D)
    BY <1>8, OneNamesMost
  <2> HIDE DEF n
  <2>2. n \in D /\ ~entries[n].foreign /\ entries[n] \in EntryRec
        /\ \A m \in D : ~entries[m].foreign =>
             L!Specificity(entries[m].scope) <= L!Specificity(entries[n].scope)
    BY <1>2, <1>6, <2>1 DEF Most, Matching
  <2>3. entries[n].scope \in SUBSET {"kind", "session"}
    BY <2>2 DEF EntryRec
  <2>4. PICK h \in 1..4 : entries[n].scope = order[h]
    BY <1>5, <2>3
  <2>5. h \in hits
    BY <1>3, <2>2, <2>4
  <2>6. ASSUME NEW k \in hits PROVE h <= k
    <3>1. PICK m \in D : entries[m].scope = order[k] /\ ~entries[m].foreign
      BY <1>3
    <3>2. L!Specificity(order[k]) <= L!Specificity(order[h])
      BY <2>2, <2>4, <3>1
    <3> QED
      BY <1>4, <3>2
  <2>7. first = h
    BY <2>5, <2>6 DEF first
  <2>8. own(order[h]) = {entries[n]}
    <3>1. ASSUME NEW m \in D, entries[m].scope = order[h], ~entries[m].foreign PROVE m = n
      <4>1. L!Keyed(entries[m], entries[n])
        BY <1>2, <2>2, <2>4, <3>1 DEF L!Keyed, EntryRec
      <4> QED
        BY <1>2, <2>2, <4>1 DEF EntriesTyped
    <3> QED
      BY <1>3, <2>2, <2>4, <3>1
  <2>9. L!Due = entries[n].value
    BY <1>1, <2>5, <2>7, <2>8
  <2>10. L!ResolveManual = entries[n].value /\ entries[n].value \in Nat
    BY <1>8, <2>2, ResolvesMost DEF n, EntryRec
  <2> QED
    BY <2>9, <2>10, LaunchAssumption
<1> QED
  BY <1>7, <1>8
-----------------------------------------------------------------------------
(* A spawn and its shell *)

\* What Line can type: the file is read first.
Lines == {<<>>, <<"env">>, <<"sentinel">>, <<"env", "sentinel">>}
WithFile == {<<"env">>, <<"env", "sentinel">>}
Before == {"new", "hook", "placing"}   \* no pane yet

Val == {None, "hook"} \cup Nat
SpawnRec == [at : Before \cup {"sending", "starting", "up", "failed"}, joins : BOOLEAN,
             vars : Val, due : Val, tries : Nat]
ShellRec == [at : {"none", "cold", "prompt", "agent"}, typed : Lines, env : Val]

\* A file is there for a shell that has yet to read it.
FileAwaitsShell(sp, fi, sh) ==
  /\ sp.at \in Before => sh.at = "none"
  /\ fi # "none" => /\ sh.at = "cold" /\ sh.typed \in WithFile
                    /\ sp.at \in {"sending", "starting", "failed"}
  /\ sp.at = "up" => sh.at = "agent"

\* The variables of a spawn are the ones due, from the hook or from an entry.
VarsAreDue(sp) ==
  /\ sp.at = "hook" => (hook = "value" => sp.due = "hook")
  /\ sp.at \in {"placing", "sending", "starting", "up"} => sp.vars = sp.due

\* A shell of a spawn under way has them, or is to read them from its file.
ShellGetsVars(sp, fi, sh) ==
  sp.at \in {"sending", "starting", "up"} =>
    IF sh.at = "cold" /\ sh.typed \in WithFile THEN fi # "none" ELSE sh.env = sp.due

OneSpawn(s, sp, fi, sh) ==
  /\ sp \in SpawnRec /\ fi \in {"none", "there", "old"} /\ sh \in ShellRec
  /\ FileAwaitsShell(sp, fi, sh) /\ VarsAreDue(sp) /\ (s \notin swept => ShellGetsVars(sp, fi, sh))
Registered == EntriesTyped /\ sets \in Nat
LaunchIInv ==
  /\ Registered
  /\ spawn = [s \in Spawn |-> spawn[s]] /\ file = [s \in Spawn |-> file[s]]
  /\ shell = [s \in Spawn |-> shell[s]]
  /\ \A s \in Spawn : OneSpawn(s, spawn[s], file[s], shell[s])

LEMMA LinesAreShort ==
  ASSUME NEW t \in Lines
  PROVE  /\ "env" \in L!Range(t) <=> t \in WithFile
         /\ t # <<>> => (t[1] = "env" <=> t \in WithFile)
<1>1. CASE t = <<>>
  BY <1>1 DEF L!Range, WithFile
<1>2. CASE t = <<"env">>
  BY <1>2 DEF L!Range, WithFile
<1>3. CASE t = <<"sentinel">>
  BY <1>3 DEF L!Range, WithFile
<1>4. CASE t = <<"env", "sentinel">>
  BY <1>4 DEF L!Range, WithFile
<1> QED
  BY <1>1, <1>2, <1>3, <1>4 DEF Lines

LEMMA LineIs ==
  \A drops \in BOOLEAN : /\ L!Line(drops) \in Lines
                         /\ L!Line(drops) \in WithFile <=> drops
<1>1. /\ <<"env">> \o <<"sentinel">> = <<"env", "sentinel">> /\ <<"env">> \o <<>> = <<"env">>
      /\ <<>> \o <<"sentinel">> = <<"sentinel">> /\ <<>> \o <<>> = <<>>
  <2>1. ASSUME NEW a \in Seq({"env", "sentinel"}), Len(a) = 2, a[1] = "env", a[2] = "sentinel"
        PROVE  a = <<"env", "sentinel">>
    BY <2>1
  <2>2. <<"env">> \in Seq({"env", "sentinel"}) /\ <<"sentinel">> \in Seq({"env", "sentinel"})
    OBVIOUS
  <2>3. /\ <<"env">> \o <<"sentinel">> \in Seq({"env", "sentinel"}) /\ Len(<<"env">> \o <<"sentinel">>) = 2
        /\ (<<"env">> \o <<"sentinel">>)[1] = "env"
        /\ (<<"env">> \o <<"sentinel">>)[2] = "sentinel"
    BY <2>2
  <2>4. <<"env">> \o <<"sentinel">> = <<"env", "sentinel">>
    BY <2>1, <2>3
  <2>5. <<"env">> \o <<>> = <<"env">>
    OBVIOUS
  <2>6. <<>> \o <<"sentinel">> = <<"sentinel">>
    OBVIOUS
  <2>7. <<>> \o <<>> = <<>>
    OBVIOUS
  <2> QED
    BY <2>4, <2>5, <2>6, <2>7
<1>2. \A drops \in BOOLEAN :
        L!Line(drops) \in IF drops THEN WithFile ELSE {<<>>, <<"sentinel">>}
  BY <1>1 DEF L!Line, WithFile
<1>3. <<>> \notin WithFile /\ <<"sentinel">> \notin WithFile
  BY DEF WithFile
<1> QED
  BY <1>2, <1>3 DEF Lines, WithFile

\* The registry stays a list with one entry per key.
LEMMA SetKeeps ==
  ASSUME Registered, NEW key \in Entry, L!EnvSet(key) PROVE Registered'
<1> DEFINE e == [scope |-> key.scope, foreign |-> key.foreign, value |-> sets + 1]
<1>1. sets \in Nat /\ sets' = sets + 1 /\ e \in EntryRec /\ L!Keyed(e, key)
  BY LaunchAssumption DEF L!EnvSet, Registered, EntryRec, L!Keyed
<1>2. entries \in Seq(EntryRec) /\ L!Range(entries) = {entries[n] : n \in 1..Len(entries)}
      /\ \A m, n \in 1..Len(entries) : L!Keyed(entries[m], entries[n]) => m = n
  <2>1. entries \in Seq(EntryRec) /\ DOMAIN entries = 1..Len(entries)
    BY DEF Registered, EntriesTyped
  <2> QED
    BY <2>1 DEF Registered, EntriesTyped, L!Range
<1>3. CASE L!Has(key)
  <2>1. entries' = [n \in 1..Len(entries) |-> IF L!Keyed(entries[n], key) THEN e ELSE entries[n]]
    BY <1>2, <1>3 DEF L!EnvSet
  <2> HIDE DEF e
  <2>2. entries' \in Seq(EntryRec) /\ Len(entries') = Len(entries)
    BY <1>1, <1>2, <2>1
  <2>3. \A n \in 1..Len(entries) : entries'[n].scope = entries[n].scope /\ entries'[n].foreign = entries[n].foreign
    BY <1>1, <2>1 DEF L!Keyed
  <2> QED
    BY <1>1, <1>2, <2>2, <2>3 DEF Registered, EntriesTyped, L!Keyed
<1>4. CASE ~L!Has(key)
  <2>1. entries' = Append(entries, e)
    BY <1>4 DEF L!EnvSet
  <2>2. \A n \in 1..Len(entries) : ~L!Keyed(entries[n], key)
    BY <1>2, <1>4 DEF L!Has
  <2> HIDE DEF e
  <2>3. /\ entries' \in Seq(EntryRec) /\ Len(entries') = Len(entries) + 1
        /\ entries'[Len(entries) + 1] = e
        /\ \A n \in 1..Len(entries) : entries'[n] = entries[n]
    BY <1>1, <1>2, <2>1
  <2>4. \A n \in 1..Len(entries) : ~L!Keyed(entries[n], e) /\ ~L!Keyed(e, entries[n])
    BY <1>1, <2>2 DEF L!Keyed
  <2>5. ASSUME NEW m \in 1..Len(entries'), NEW n \in 1..Len(entries'), L!Keyed(entries'[m], entries'[n])
        PROVE  m = n
    <3>1. m \in 1..Len(entries) \/ m = Len(entries) + 1
      BY <1>2, <2>3
    <3>2. n \in 1..Len(entries) \/ n = Len(entries) + 1
      BY <1>2, <2>3
    <3> QED
      BY <1>2, <2>3, <2>4, <2>5, <3>1, <3>2
  <2> QED
    BY <1>1, <2>3, <2>5 DEF Registered, EntriesTyped, L!Keyed
<1> QED
  BY <1>3, <1>4

LEMMA DeleteKeeps ==
  ASSUME Registered, NEW key \in Entry, L!EnvDelete(key) PROVE Registered'
<1>1. sets \in Nat /\ sets' = sets + 1
  BY DEF L!EnvDelete, Registered
<1>2. entries \in Seq(EntryRec)
      /\ \A m, n \in 1..Len(entries) : L!Keyed(entries[m], entries[n]) => m = n
  BY DEF Registered, EntriesTyped
<1>3. PICK n \in 1..Len(entries) : entries' = L!RemoveAt(entries, n)
  BY <1>2 DEF L!EnvDelete
<1>4. /\ entries' \in Seq(EntryRec) /\ Len(entries') = Len(entries) - 1
      /\ \A k \in 1..Len(entries) - 1 : entries'[k] = entries[IF k < n THEN k ELSE k + 1]
  <2> DEFINE a == SubSeq(entries, 1, n - 1)
             b == SubSeq(entries, n + 1, Len(entries))
  <2>1. Len(entries) \in Nat /\ n \in Nat
    BY <1>2
  <2>2. a \in Seq(EntryRec) /\ Len(a) = n - 1 /\ \A k \in 1..n - 1 : a[k] = entries[k]
    BY <1>2, <2>1
  <2>3. b \in Seq(EntryRec) /\ Len(b) = Len(entries) - n
        /\ \A k \in 1..Len(entries) - n : b[k] = entries[n + k]
    BY <1>2, <2>1
  <2>4. entries' = a \o b
    BY <1>3 DEF L!RemoveAt
  <2> HIDE DEF a, b
  <2>5. entries' \in Seq(EntryRec) /\ Len(entries') = Len(entries) - 1
    BY <2>1, <2>2, <2>3, <2>4
  <2>6. ASSUME NEW k \in 1..Len(entries) - 1
        PROVE  entries'[k] = entries[IF k < n THEN k ELSE k + 1]
    <3>1. CASE k < n
      BY <2>1, <2>2, <2>3, <2>4, <3>1
    <3>2. CASE ~(k < n)
      <4>1. entries'[k] = b[k - (n - 1)]
        BY <2>1, <2>2, <2>3, <2>4, <3>2
      <4>2. k - (n - 1) \in 1..Len(entries) - n /\ n + (k - (n - 1)) = k + 1
        BY <2>1, <3>2
      <4> QED
        BY <2>3, <3>2, <4>1, <4>2
    <3> QED
      BY <3>1, <3>2
  <2> QED
    BY <2>5, <2>6
<1>5. ASSUME NEW j \in 1..Len(entries'), NEW k \in 1..Len(entries'), L!Keyed(entries'[j], entries'[k])
      PROVE  j = k
  <2> DEFINE jj == IF j < n THEN j ELSE j + 1
             kk == IF k < n THEN k ELSE k + 1
  <2>1. jj \in 1..Len(entries) /\ kk \in 1..Len(entries)
        /\ entries'[j] = entries[jj] /\ entries'[k] = entries[kk]
    BY <1>2, <1>4
  <2>2. jj = kk
    BY <1>2, <1>5, <2>1
  <2> QED
    BY <1>2, <2>2
<1> QED
  BY <1>1, <1>4, <1>5 DEF Registered, EntriesTyped, L!Keyed

\* Most steps are one spawn's: its record, its file and its shell.
LEMMA OneSpawnMoves ==
  ASSUME LaunchIInv, UNCHANGED <<entries, sets, hook, swept>>, NEW s \in Spawn, NEW sp, NEW fi, NEW sh,
         spawn' = [spawn EXCEPT ![s] = sp], file' = [file EXCEPT ![s] = fi],
         shell' = [shell EXCEPT ![s] = sh], OneSpawn(s, sp, fi, sh)
  PROVE  LaunchIInv'
<1>1. Registered'
  BY DEF LaunchIInv, Registered, EntriesTyped, L!Keyed
<1>2. ASSUME NEW k \in Spawn PROVE OneSpawn(k, spawn[k], file[k], shell[k])'
  <2>1. CASE k = s
    <3>1. spawn'[k] = sp /\ file'[k] = fi /\ shell'[k] = sh
      BY <2>1 DEF LaunchIInv
    <3> QED
      BY <2>1, <3>1 DEF OneSpawn, FileAwaitsShell, VarsAreDue, ShellGetsVars
  <2>2. CASE k # s
    <3>1. spawn'[k] = spawn[k] /\ file'[k] = file[k] /\ shell'[k] = shell[k]
      BY <2>2 DEF LaunchIInv
    <3> QED
      BY <3>1 DEF LaunchIInv, OneSpawn, FileAwaitsShell, VarsAreDue, ShellGetsVars
  <2> QED
    BY <2>1, <2>2
<1> QED
  BY <1>1, <1>2 DEF LaunchIInv

LEMMA ResolvesKeeps ==
  ASSUME LaunchIInv, NEW s \in Spawn, NEW joins \in BOOLEAN, L!Resolves(s, joins) PROVE LaunchIInv'
<1> DEFINE vars0 == L!ResolveManual
           due == L!Due
           to == IF vars0 = None /\ hook # None THEN "hook" ELSE "placing"
           sp == [spawn[s] EXCEPT !.at = to, !.joins = joins, !.vars = vars0, !.due = due]
<1>1. /\ spawn[s].at = "new" /\ spawn' = [spawn EXCEPT ![s] = sp]
      /\ UNCHANGED <<entries, sets, hook, file, shell, swept>>
  BY DEF L!Resolves
<1>2. /\ IF vars0 = None THEN due = IF hook = "value" THEN "hook" ELSE None ELSE due = vars0
      /\ vars0 \in {None} \cup Nat
  <2>1. EntriesTyped
    BY DEF LaunchIInv, Registered
  <2>2. Matching(DOMAIN entries) # {} =>
          entries[CHOOSE n \in DOMAIN entries : Most(n, DOMAIN entries)].value \in Nat
    <3> DEFINE n == CHOOSE m \in DOMAIN entries : Most(m, DOMAIN entries)
    <3> SUFFICES ASSUME Matching(DOMAIN entries) # {} PROVE entries[n].value \in Nat
      OBVIOUS
    <3>1. Most(n, DOMAIN entries)
      BY <2>1, OneNamesMost
    <3> HIDE DEF n
    <3>2. n \in 1..Len(entries)
      BY <2>1, <3>1 DEF Most, Matching, EntriesTyped
    <3>3. entries[n] \in EntryRec
      BY <2>1, <3>2 DEF EntriesTyped
    <3> QED
      BY <3>3 DEF EntryRec
  <2> QED
    BY <2>1, <2>2, ResolvesDue, ResolvesMost
<1> HIDE DEF vars0, due
<1>3. OneSpawn(s, spawn[s], file[s], shell[s])
  BY DEF LaunchIInv
<1>4. /\ sp \in SpawnRec /\ sp.at = to /\ sp.vars = vars0 /\ sp.due = due
  BY <1>2, <1>3 DEF OneSpawn, SpawnRec, Val, Before
<1>5. OneSpawn(s, sp, file[s], shell[s])
  <2> HIDE DEF sp
  <2>1. VarsAreDue(sp)
    BY <1>2, <1>4, LaunchAssumption DEF VarsAreDue
  <2> QED
    BY <1>1, <1>3, <1>4, <2>1 DEF OneSpawn, FileAwaitsShell, ShellGetsVars, Before
<1>6. /\ file' = [file EXCEPT ![s] = file[s]] /\ shell' = [shell EXCEPT ![s] = shell[s]]
      /\ UNCHANGED <<entries, sets, hook, swept>>
  BY <1>1 DEF LaunchIInv
<1> HIDE DEF sp
<1> QED
  BY <1>1, <1>5, <1>6, OneSpawnMoves

LEMMA PlacesKeeps == ASSUME LaunchIInv, NEW s \in Spawn, L!Places(s) PROVE LaunchIInv'
<1> DEFINE drops == ~spawn[s].joins /\ spawn[s].vars # None
           line == L!Line(drops)
           sp == [spawn[s] EXCEPT !.at = IF line = <<>> THEN "starting" ELSE "sending"]
           sh == [at |-> "cold", typed |-> line, env |-> IF spawn[s].joins THEN spawn[s].vars ELSE None]
           fi == IF drops THEN "there" ELSE file[s]
<1>1. /\ spawn[s].at = "placing" /\ spawn' = [spawn EXCEPT ![s].at = IF line = <<>> THEN "starting" ELSE "sending"]
      /\ shell' = [shell EXCEPT ![s] = sh]
      /\ file' = IF drops THEN L!Dropped(s) ELSE file
      /\ swept' = IF drops THEN swept \cup L!Swept(s) ELSE swept
      /\ UNCHANGED <<entries, sets, hook>>
  BY DEF L!Places, L!At
<1>2. drops \in BOOLEAN /\ line \in Lines /\ (line \in WithFile <=> drops)
  BY LineIs
<1>3. OneSpawn(s, spawn[s], file[s], shell[s])
  BY DEF LaunchIInv
<1>4. /\ spawn' = [k \in Spawn |-> IF k = s THEN sp ELSE spawn[k]]
      /\ shell' = [k \in Spawn |-> IF k = s THEN sh ELSE shell[k]]
      /\ file' = [k \in Spawn |-> IF k = s THEN fi ELSE IF drops /\ k \in L!Swept(s) THEN "none" ELSE file[k]]
  <2>1. spawn = [k \in Spawn |-> spawn[k]] /\ shell = [k \in Spawn |-> shell[k]]
        /\ file = [k \in Spawn |-> file[k]]
    BY DEF LaunchIInv
  <2>2. spawn' = [k \in Spawn |-> IF k = s THEN sp ELSE spawn[k]]
    <3> HIDE DEF line
    <3> QED
      BY <1>1, <2>1
  <2>3. shell' = [k \in Spawn |-> IF k = s THEN sh ELSE shell[k]]
    <3> HIDE DEF sh
    <3> QED
      BY <1>1, <2>1
  <2>4. file' = [k \in Spawn |-> IF k = s THEN fi ELSE IF drops /\ k \in L!Swept(s) THEN "none" ELSE file[k]]
    <3>1. CASE drops
      <4> HIDE DEF drops
      <4>1. file' = [k \in Spawn |-> IF k = s THEN "there" ELSE IF k \in L!Swept(s) THEN "none" ELSE file[k]]
        <5>1. \A k \in Spawn :
                (CASE k = s -> "there" [] k \in L!Swept(s) -> "none" [] OTHER -> file[k])
                  = IF k = s THEN "there" ELSE IF k \in L!Swept(s) THEN "none" ELSE file[k]
          BY DEF L!Swept
        <5>2. file' = [k \in Spawn |-> CASE k = s -> "there" [] k \in L!Swept(s) -> "none" [] OTHER -> file[k]]
          BY <1>1, <3>1 DEF L!Dropped
        <5> QED
          BY <5>1, <5>2
      <4> QED
        BY <3>1, <4>1
    <3>2. CASE ~drops
      <4> HIDE DEF drops
      <4> QED
        BY <1>1, <2>1, <3>2
    <3> QED
      BY <3>1, <3>2
  <2> QED
    BY <2>2, <2>3, <2>4
<1> HIDE DEF line
<1>5. sp \in SpawnRec /\ sh \in ShellRec /\ sp.at \in {"starting", "sending"}
      /\ sp.vars = spawn[s].vars /\ sp.due = spawn[s].due /\ fi \in {"none", "there", "old"}
  BY <1>2, <1>3 DEF OneSpawn, SpawnRec, ShellRec, Val, Before
<1>6. file[s] = "none" /\ spawn[s].vars = spawn[s].due /\ (~drops => sh.env = spawn[s].vars)
  BY <1>1, <1>3 DEF OneSpawn, FileAwaitsShell, VarsAreDue
<1>7. /\ sh.at = "cold" /\ (sh.typed \in WithFile <=> drops) /\ (fi # "none" <=> drops)
  BY <1>2, <1>6
<1>8. OneSpawn(s, sp, fi, sh) /\ ShellGetsVars(sp, fi, sh)
  <2> HIDE DEF sp, sh, fi, drops
  <2> QED
    BY <1>5, <1>6, <1>7 DEF OneSpawn, FileAwaitsShell, VarsAreDue, ShellGetsVars, Before
<1> HIDE DEF sp, sh, fi
<1>9. ASSUME NEW k \in Spawn PROVE OneSpawn(k, spawn[k], file[k], shell[k])'
  <2>1. CASE k = s
    BY <1>1, <1>4, <1>8, <2>1 DEF OneSpawn, FileAwaitsShell, VarsAreDue, ShellGetsVars
  <2>2. CASE k # s
    <3>1. spawn'[k] = spawn[k] /\ shell'[k] = shell[k] /\ OneSpawn(k, spawn[k], file[k], shell[k])
      BY <1>4, <2>2 DEF LaunchIInv
    <3>2. \/ file'[k] = file[k] /\ (k \in swept => k \in swept')
          \/ file'[k] = "none" /\ k \in swept'
      BY <1>1, <1>4, <2>2
    <3> QED
      BY <1>1, <3>1, <3>2 DEF OneSpawn, FileAwaitsShell, VarsAreDue, ShellGetsVars
  <2> QED
    BY <2>1, <2>2
<1>10. Registered'
  BY <1>1 DEF LaunchIInv, Registered, EntriesTyped, L!Keyed
<1>11. spawn' = [k \in Spawn |-> spawn'[k]] /\ file' = [k \in Spawn |-> file'[k]]
       /\ shell' = [k \in Spawn |-> shell'[k]]
  BY <1>4
<1> QED
  BY <1>9, <1>10, <1>11 DEF LaunchIInv

\* The other steps of a spawn, each by what it leaves of the three.
LEMMA LaunchKeeps == LaunchIInv /\ [L!Next]_launchVars => LaunchIInv'
<1> SUFFICES ASSUME LaunchIInv, [L!Next]_launchVars PROVE LaunchIInv'
  OBVIOUS
<1> USE DEF Before, WithFile
<1>1. \A s \in Spawn : OneSpawn(s, spawn[s], file[s], shell[s])
  BY DEF LaunchIInv
<1>2. spawn = [s \in Spawn |-> spawn[s]] /\ file = [s \in Spawn |-> file[s]]
      /\ shell = [s \in Spawn |-> shell[s]]
  BY DEF LaunchIInv
<1>3. \A s \in Spawn : /\ spawn = [spawn EXCEPT ![s] = spawn[s]] /\ file = [file EXCEPT ![s] = file[s]]
                       /\ shell = [shell EXCEPT ![s] = shell[s]]
  BY <1>2
<1>4. ASSUME NEW key \in Entry, L!EnvSet(key) \/ L!EnvDelete(key) PROVE LaunchIInv'
  <2>1. Registered'
    BY <1>4, SetKeeps, DeleteKeeps DEF LaunchIInv
  <2>2. UNCHANGED <<hook, spawn, file, shell, swept>>
    BY <1>4 DEF L!EnvSet, L!EnvDelete
  <2> QED
    BY <2>1, <2>2 DEF LaunchIInv, OneSpawn, FileAwaitsShell, VarsAreDue, ShellGetsVars
<1>5. ASSUME NEW s \in Spawn, L!HookEnds(s) PROVE LaunchIInv'
  <2> DEFINE sp == IF hook = "value" THEN [spawn[s] EXCEPT !.at = "placing", !.vars = "hook"]
                                     ELSE [spawn[s] EXCEPT !.at = "failed"]
  <2>1. /\ spawn[s].at = "hook" /\ spawn' = [spawn EXCEPT ![s] = sp]
        /\ UNCHANGED <<entries, sets, hook, swept>> /\ file' = file /\ shell' = shell
    BY <1>5 DEF L!HookEnds
  <2>2. sp \in SpawnRec /\ sp.at \in {"placing", "failed"}
        /\ (sp.at = "placing" => sp.vars = sp.due)
    BY <1>1, <2>1 DEF OneSpawn, SpawnRec, Val, VarsAreDue
  <2> HIDE DEF sp
  <2>3. OneSpawn(s, sp, file[s], shell[s])
    BY <1>1, <2>1, <2>2 DEF OneSpawn, FileAwaitsShell, VarsAreDue, ShellGetsVars
  <2>4. file' = [file EXCEPT ![s] = file[s]] /\ shell' = [shell EXCEPT ![s] = shell[s]]
    BY <1>3, <2>1
  <2> QED
    BY <2>1, <2>3, <2>4, OneSpawnMoves
<1>6. ASSUME NEW s \in Spawn, NEW got \in BOOLEAN, L!SendFails(s, got) PROVE LaunchIInv'
  <2> DEFINE reads == shell[s].typed[1] = "env"
             sh == IF got THEN shell[s] ELSE [shell[s] EXCEPT !.typed = <<>>]
             sp == [spawn[s] EXCEPT !.at = IF reads THEN "failed" ELSE "starting"]
             fi == IF reads THEN "none" ELSE file[s]
  <2>1. /\ spawn[s].at = "sending" /\ shell[s].typed # <<>>
        /\ shell' = IF got THEN shell ELSE [shell EXCEPT ![s].typed = <<>>]
        /\ IF reads THEN L!At(s, "failed") /\ file' = [file EXCEPT ![s] = "none"]
                    ELSE L!At(s, "starting") /\ UNCHANGED file
        /\ UNCHANGED <<entries, sets, hook, swept>>
    BY <1>6 DEF L!SendFails
  <2>2. shell' = [shell EXCEPT ![s] = sh]
    BY <1>3, <2>1
  <2>3. spawn' = [spawn EXCEPT ![s] = sp] /\ file' = [file EXCEPT ![s] = fi]
    BY <1>3, <2>1 DEF L!At
  <2>4. shell[s].typed \in Lines /\ (reads <=> shell[s].typed \in WithFile)
    BY <1>1, <2>1, LinesAreShort DEF OneSpawn, ShellRec
  <2> HIDE DEF reads
  <2>5. /\ sp \in SpawnRec /\ sp.at = (IF reads THEN "failed" ELSE "starting")
        /\ sp.vars = spawn[s].vars /\ sp.due = spawn[s].due
    BY <1>1 DEF OneSpawn, SpawnRec
  <2>6. /\ sh \in ShellRec /\ sh.at = shell[s].at /\ sh.env = shell[s].env
        /\ (~reads => sh.typed \notin WithFile)
    BY <1>1, <2>4 DEF OneSpawn, ShellRec, Lines
  <2> HIDE DEF sh, sp
  <2>7. OneSpawn(s, sp, fi, sh)
    BY <1>1, <2>1, <2>4, <2>5, <2>6 DEF OneSpawn, FileAwaitsShell, VarsAreDue, ShellGetsVars
  <2> HIDE DEF fi
  <2> QED
    BY <2>1, <2>2, <2>3, <2>7, OneSpawnMoves
<1>7. ASSUME NEW s \in Spawn, L!ShellAnswers(s) PROVE LaunchIInv'
  <2> DEFINE sp == [spawn[s] EXCEPT !.at = "starting"]
  <2>1. /\ spawn[s].at = "sending" /\ spawn' = [spawn EXCEPT ![s] = sp]
        /\ UNCHANGED <<entries, sets, hook, swept>> /\ file' = file /\ shell' = shell
    BY <1>7 DEF L!ShellAnswers, L!At
  <2>2. sp \in SpawnRec /\ sp.at = "starting" /\ sp.vars = spawn[s].vars /\ sp.due = spawn[s].due
    BY <1>1 DEF OneSpawn, SpawnRec
  <2> HIDE DEF sp
  <2>3. OneSpawn(s, sp, file[s], shell[s])
    BY <1>1, <2>1, <2>2 DEF OneSpawn, FileAwaitsShell, VarsAreDue, ShellGetsVars
  <2>4. file' = [file EXCEPT ![s] = file[s]] /\ shell' = [shell EXCEPT ![s] = shell[s]]
    BY <1>3, <2>1
  <2> QED
    BY <2>1, <2>3, <2>4, OneSpawnMoves
<1>8. ASSUME NEW s \in Spawn, L!ShellRuns(s) PROVE LaunchIInv'
  <2> DEFINE reads == "env" \in L!Range(shell[s].typed)
             sh == [at |-> "prompt", typed |-> <<>>,
                    env |-> IF reads /\ file[s] # "none" THEN spawn[s].vars ELSE shell[s].env]
             fi == IF reads THEN "none" ELSE file[s]
  <2>1. /\ shell[s].at = "cold" /\ (shell[s].typed # <<>> \/ spawn[s].at \in {"starting", "failed"})
        /\ shell' = [shell EXCEPT ![s] = sh]
        /\ file' = IF reads THEN [file EXCEPT ![s] = "none"] ELSE file
        /\ UNCHANGED <<entries, sets, hook, swept>> /\ spawn' = spawn
    BY <1>8 DEF L!ShellRuns
  <2>2. reads <=> shell[s].typed \in WithFile
    BY <1>1, LinesAreShort DEF OneSpawn, ShellRec
  <2> HIDE DEF reads
  <2>3. file' = [file EXCEPT ![s] = fi]
    BY <1>3, <2>1
  <2>4. sh \in ShellRec /\ sh.at = "prompt"
        /\ sh.env = IF reads /\ file[s] # "none" THEN spawn[s].vars ELSE shell[s].env
    BY <1>1 DEF OneSpawn, ShellRec, SpawnRec, Lines
  <2> HIDE DEF sh
  <2>5. spawn[s].at \in {"sending", "starting", "failed"}
    BY <1>1, <2>1 DEF OneSpawn, FileAwaitsShell, SpawnRec
  <2>6. OneSpawn(s, spawn[s], fi, sh)
    BY <1>1, <2>1, <2>2, <2>4, <2>5 DEF OneSpawn, FileAwaitsShell, VarsAreDue, ShellGetsVars
  <2> HIDE DEF fi
  <2> QED
    BY <1>3, <2>1, <2>3, <2>6, OneSpawnMoves
<1>9. ASSUME NEW s \in Spawn, L!Starts(s) PROVE LaunchIInv'
  <2> DEFINE sp == [spawn[s] EXCEPT !.at = "up"]
             sh == [shell[s] EXCEPT !.at = "agent"]
  <2>1. /\ spawn[s].at = "starting" /\ shell[s].at = "prompt"
        /\ spawn' = [spawn EXCEPT ![s] = sp] /\ shell' = [shell EXCEPT ![s] = sh]
        /\ UNCHANGED <<entries, sets, hook, swept>> /\ file' = file
    BY <1>9 DEF L!Starts, L!At
  <2>2. sp \in SpawnRec /\ sp.at = "up" /\ sp.vars = spawn[s].vars /\ sp.due = spawn[s].due
    BY <1>1 DEF OneSpawn, SpawnRec
  <2>3. sh \in ShellRec /\ sh.at = "agent" /\ sh.env = shell[s].env
    BY <1>1 DEF OneSpawn, ShellRec
  <2> HIDE DEF sp, sh
  <2>4. OneSpawn(s, sp, file[s], sh)
    BY <1>1, <2>1, <2>2, <2>3 DEF OneSpawn, FileAwaitsShell, VarsAreDue, ShellGetsVars
  <2> QED
    BY <1>3, <2>1, <2>4, OneSpawnMoves
<1>10. ASSUME NEW s \in Spawn, L!Busy(s) PROVE LaunchIInv'
  <2> DEFINE sp == IF spawn[s].tries < MaxBusy THEN [spawn[s] EXCEPT !.tries = spawn[s].tries + 1]
                                               ELSE [spawn[s] EXCEPT !.at = "failed"]
  <2>1. /\ spawn[s].at = "starting" /\ spawn' = [spawn EXCEPT ![s] = sp]
        /\ UNCHANGED <<entries, sets, hook, swept>> /\ file' = file /\ shell' = shell
    <3>1. spawn' = [spawn EXCEPT ![s] = sp]
      BY <1>3, <1>10 DEF L!Busy, L!At
    <3> HIDE DEF sp
    <3> QED
      BY <1>10, <3>1 DEF L!Busy
  <2>2. sp \in SpawnRec /\ sp.at \in {"starting", "failed"}
        /\ sp.vars = spawn[s].vars /\ sp.due = spawn[s].due
    BY <1>1, <2>1 DEF OneSpawn, SpawnRec
  <2> HIDE DEF sp
  <2>3. OneSpawn(s, sp, file[s], shell[s])
    BY <1>1, <2>1, <2>2 DEF OneSpawn, FileAwaitsShell, VarsAreDue, ShellGetsVars
  <2>4. file' = [file EXCEPT ![s] = file[s]] /\ shell' = [shell EXCEPT ![s] = shell[s]]
    BY <1>3, <2>1
  <2> QED
    BY <2>1, <2>3, <2>4, OneSpawnMoves
<1>11. ASSUME NEW s \in Spawn, L!Ages(s) PROVE LaunchIInv'
  <2>1. /\ file[s] = "there" /\ file' = [file EXCEPT ![s] = "old"]
        /\ UNCHANGED <<entries, sets, hook, swept>> /\ spawn' = spawn /\ shell' = shell
    BY <1>11 DEF L!Ages
  <2>2. OneSpawn(s, spawn[s], "old", shell[s])
    BY <1>1, <2>1 DEF OneSpawn, FileAwaitsShell, ShellGetsVars
  <2> QED
    BY <1>3, <2>1, <2>2, OneSpawnMoves
<1>12. CASE UNCHANGED launchVars
  BY <1>12 DEF launchVars, LaunchIInv, Registered, EntriesTyped, L!Keyed, OneSpawn, FileAwaitsShell,
               VarsAreDue, ShellGetsVars
<1> QED
  BY <1>4, <1>5, <1>6, <1>7, <1>8, <1>9, <1>10, <1>11, <1>12, ResolvesKeeps, PlacesKeeps DEF L!Next

LEMMA LaunchStart == L!Init => LaunchIInv
<1> SUFFICES ASSUME L!Init PROVE LaunchIInv
  OBVIOUS
<1>1. Registered
  BY DEF L!Init, Registered, EntriesTyped
<1>2. \A s \in Spawn : OneSpawn(s, spawn[s], file[s], shell[s])
  BY DEF L!Init, OneSpawn, FileAwaitsShell, VarsAreDue, ShellGetsVars, SpawnRec, ShellRec, Val, Lines,
         Before
<1> QED
  BY <1>1, <1>2 DEF L!Init, LaunchIInv
-----------------------------------------------------------------------------

LEMMA WorkLaunch == [WorkNext]_all => [L!Next]_launchVars
BY DEF WorkNext, all, launchVars, RepoStep, LaunchStep, TrustStep, ContextStep, ModulesStep,
       BootStep, AccessStep, OwnersStep

LEMMA WorkTrust == [WorkNext]_all => [Tr!Next]_trustVars
BY DEF WorkNext, all, trustVars, RepoStep, LaunchStep, TrustStep, ContextStep, ModulesStep,
       BootStep, AccessStep, OwnersStep

\* For any spawns that overlap, entries and hooks: an agent starts with the
\* variables that were due when it was asked for, no value stays on disk, its CLI
\* does not stop at a question, and no write of the broker takes from the file the
\* CLIs share (src/workspace-ops.ts, src/env-registry.ts, src/spawn-readiness.ts,
\* src/prepare-workspace.ts).
THEOREM SpawnsAreReady == WorkSpec => SpawnsReady
<1>1. WorkInit => LaunchIInv /\ TrustIInv
  <2>1. WorkInit => LaunchIInv
    BY LaunchStart DEF WorkInit
  <2>2. WorkInit => TrustIInv
    BY DEF WorkInit, Tr!Init, TrustIInv, TrustTypes, Config, UnreadableIsEmpty, PlacedIsTrusted,
           Tr!Absent, Tr!Readable
  <2> QED
    BY <2>1, <2>2
<1>2. LaunchIInv /\ TrustIInv /\ [WorkNext]_all => (LaunchIInv /\ TrustIInv)'
  BY LaunchKeeps, TrustKeeps, WorkLaunch, WorkTrust
<1>3. LaunchIInv => L!EnvBeforeAgent /\ L!NoFileLeft
  BY DEF LaunchIInv, OneSpawn, FileAwaitsShell, ShellGetsVars, L!EnvBeforeAgent, L!NoFileLeft
<1>4. TrustIInv /\ [WorkNext]_all =>
        [\A s \in dialog' \ dialog :
           step[s].fails \/ ~step[s].env \/ step[s].dir \in undone \/ ~cfg.flags]_(Tr!vars)
  BY AskedStep, WorkTrust
<1>5. TrustIInv /\ [WorkNext]_all =>
        [(\E s \in Agents : step[s].at \in {"idle", "prepared"} /\ step'[s].at # step[s].at)
           => cfg.own \subseteq cfg'.own /\ cfg.trusted \subseteq cfg'.trusted
              /\ (cfg.flags => cfg'.flags)]_(Tr!vars)
  BY ClobberStep, WorkTrust
<1> QED
  BY <1>1, <1>2, <1>3, <1>4, <1>5, PTL DEF WorkSpec, SpawnsReady, Tr!NobodyIsAsked, Tr!NothingClobbered
-----------------------------------------------------------------------------
(* The attachments: how much text is inlined *)

\* The recursion of Total on a family of sets of names: one of the names and the rest.
OneOf(s) == CHOOSE x \in s : TRUE
AddUp(f, s) == IF s = {} THEN 0 ELSE files[OneOf(s)].size + f[s \ {OneOf(s)}]
Sums(f, D) == f = [s \in D |-> AddUp(f, s)]
UpTo(S, k) == {s \in SUBSET S : Cardinality(s) <= k}

LEMMA SumsOneMore ==
  ASSUME NEW S, IsFiniteSet(S), NEW k \in Nat, NEW f, Sums(f, UpTo(S, k))
  PROVE  \E g : Sums(g, UpTo(S, k + 1))
<1> DEFINE g == [s \in UpTo(S, k + 1) |-> AddUp(f, s)]
<1>1. ASSUME NEW s \in UpTo(S, k + 1) PROVE g[s] = AddUp(g, s)
  <2>1. CASE s = {}
    BY <2>1 DEF AddUp
  <2>2. CASE s # {}
    <3> DEFINE t == s \ {OneOf(s)}
    <3>1. OneOf(s) \in s
      BY <2>2 DEF OneOf
    <3>2. IsFiniteSet(s) /\ s \in SUBSET S /\ Cardinality(s) <= k + 1
      BY FS_Subset DEF UpTo
    <3>3. Cardinality(s) \in Nat /\ Cardinality(t) = Cardinality(s) - 1
      BY <3>1, <3>2, FS_RemoveElement, FS_CardinalityType
    <3>4. t \in UpTo(S, k) /\ t \in UpTo(S, k + 1)
      BY <3>2, <3>3 DEF UpTo
    <3> HIDE DEF t
    <3>5. g[t] = AddUp(f, t) /\ f[t] = AddUp(f, t)
      BY <3>4 DEF Sums
    <3> QED
      BY <2>2, <3>5 DEF AddUp, t
  <2> QED
    BY <2>1, <2>2
<1>2. Sums(g, UpTo(S, k + 1))
  BY <1>1 DEF Sums
<1> HIDE DEF g
<1> QED
  BY <1>2

LEMMA SumsExist == ASSUME NEW S, IsFiniteSet(S) PROVE \E f : Sums(f, SUBSET S)
<1> DEFINE Bad == {k \in Nat : ~(\E f : Sums(f, UpTo(S, k)))}
<1>1. 0 \notin Bad
  <2> DEFINE z == [s \in UpTo(S, 0) |-> 0]
  <2>1. \A s \in UpTo(S, 0) : s = {}
    <3> SUFFICES ASSUME NEW s \in UpTo(S, 0) PROVE s = {}
      OBVIOUS
    <3>1. IsFiniteSet(s) /\ Cardinality(s) <= 0
      BY FS_Subset DEF UpTo
    <3>2. Cardinality(s) \in Nat
      BY <3>1, FS_CardinalityType
    <3> QED
      BY <3>1, <3>2, FS_EmptySet
  <2>2. Sums(z, UpTo(S, 0))
    BY <2>1 DEF Sums, AddUp
  <2> HIDE DEF z
  <2> QED
    BY <2>2
<1>2. \A k \in Nat : k \notin Bad => k + 1 \notin Bad
  BY SumsOneMore
<1>3. Bad = {}
  <2> SUFFICES ASSUME Bad # {} PROVE FALSE
    OBVIOUS
  <2>1. PICK k \in Bad : \A m \in Bad : k <= m
    <3>1. Bad \subseteq Nat
      OBVIOUS
    <3> HIDE DEF Bad
    <3> QED
      BY <3>1, LeastOf
  <2>2. k \in Nat /\ k # 0
    BY <1>1, <2>1
  <2>3. k - 1 \in Nat /\ k - 1 \notin Bad
    BY <2>1, <2>2
  <2>4. (k - 1) + 1 = k
    BY <2>2
  <2> HIDE DEF Bad
  <2> QED
    BY <1>2, <2>3, <2>4
<1>4. Cardinality(S) \in Nat /\ UpTo(S, Cardinality(S)) = SUBSET S
  <2>1. \A s \in SUBSET S : Cardinality(s) <= Cardinality(S)
    BY FS_Subset
  <2> QED
    BY <2>1, FS_CardinalityType DEF UpTo
<1>5. \E f : Sums(f, UpTo(S, Cardinality(S)))
  BY <1>3, <1>4
<1> QED
  BY <1>4, <1>5

\* A sum does not depend on the family it is taken in.
LEMMA SumsAgree ==
  ASSUME NEW S, IsFiniteSet(S), NEW T \in SUBSET S, NEW f, NEW g,
         Sums(f, SUBSET S), Sums(g, SUBSET T)
  PROVE  f[T] = g[T]
<1> DEFINE Bad == {Cardinality(s) : s \in {t \in SUBSET T : f[t] # g[t]}}
<1>1. \A s \in SUBSET T : IsFiniteSet(s) /\ Cardinality(s) \in Nat
  BY FS_Subset, FS_CardinalityType
<1>2. Bad = {}
  <2> SUFFICES ASSUME Bad # {} PROVE FALSE
    OBVIOUS
  <2>1. PICK k \in Bad : \A m \in Bad : k <= m
    <3>1. Bad \subseteq Nat
      BY <1>1
    <3> HIDE DEF Bad
    <3> QED
      BY <3>1, LeastOf
  <2>2. PICK s \in SUBSET T : f[s] # g[s] /\ k = Cardinality(s)
    OBVIOUS
  <2>3. s \in SUBSET S /\ f[s] = AddUp(f, s) /\ g[s] = AddUp(g, s)
    BY DEF Sums
  <2>4. s # {}
    BY <2>2, <2>3 DEF AddUp
  <2> DEFINE t == s \ {OneOf(s)}
  <2>5. OneOf(s) \in s
    BY <2>4 DEF OneOf
  <2>6. Cardinality(t) = Cardinality(s) - 1 /\ t \in SUBSET T
    BY <1>1, <2>5, FS_RemoveElement
  <2>7. f[t] # g[t]
    BY <2>2, <2>3, <2>4 DEF AddUp
  <2> HIDE DEF t
  <2>8. Cardinality(t) \in Bad
    BY <2>6, <2>7
  <2>9. k <= Cardinality(t) /\ k \in Nat
    BY <1>1, <2>1, <2>2, <2>8
  <2> QED
    BY <2>2, <2>6, <2>9
<1> QED
  BY <1>2

LEMMA TotalIs ==
  ASSUME NEW S, IsFiniteSet(S)
  PROVE  C!Total(S) = IF S = {} THEN 0 ELSE files[OneOf(S)].size + C!Total(S \ {OneOf(S)})
<1> DEFINE sum(T) == CHOOSE f : Sums(f, SUBSET T)
<1>1. \A T : IsFiniteSet(T) => Sums(sum(T), SUBSET T)
  BY SumsExist
<1>2. \A T : C!Total(T) = sum(T)[T]
  BY Zenon DEF C!Total, C!FoldSet, C!MapThenFoldSet, Sums, AddUp, OneOf
<1> HIDE DEF sum
<1>3. sum(S)[S] = AddUp(sum(S), S)
  BY <1>1 DEF Sums
<1>4. CASE S = {}
  BY <1>2, <1>3, <1>4 DEF AddUp
<1>5. CASE S # {}
  <2> DEFINE T == S \ {OneOf(S)}
  <2>1. IsFiniteSet(T) /\ T \in SUBSET S
    BY FS_RemoveElement
  <2> HIDE DEF T
  <2>2. sum(S)[T] = sum(T)[T]
    <3> DEFINE f == sum(S)
               g == sum(T)
    <3>1. Sums(f, SUBSET S) /\ Sums(g, SUBSET T)
      BY <1>1, <2>1
    <3> HIDE DEF f, g
    <3>2. f[T] = g[T]
      BY <2>1, <3>1, SumsAgree
    <3> QED
      BY <3>2 DEF f, g
  <2> QED
    BY <1>2, <1>3, <1>5, <2>2 DEF AddUp, T
<1> QED
  BY <1>4, <1>5

\* What the theorems of this part know of the files.
Sized == \A n \in Name : files[n] # None => files[n].size \in Nat
Texts(S) == S \subseteq {n \in Name : files[n] # None}

LEMMA TotalIsNatural ==
  ASSUME Sized, IsFiniteSet(Name), NEW S, Texts(S) PROVE C!Total(S) \in Nat
<1> DEFINE Bad == {Cardinality(s) : s \in {t \in SUBSET S : C!Total(t) \notin Nat}}
<1>1. \A s \in SUBSET S : IsFiniteSet(s) /\ Cardinality(s) \in Nat
  BY FS_Subset, FS_CardinalityType DEF Texts
<1>2. Bad = {}
  <2> SUFFICES ASSUME Bad # {} PROVE FALSE
    OBVIOUS
  <2>1. PICK k \in Bad : \A m \in Bad : k <= m
    <3>1. Bad \subseteq Nat
      BY <1>1
    <3> HIDE DEF Bad
    <3> QED
      BY <3>1, LeastOf
  <2>2. PICK s \in SUBSET S : C!Total(s) \notin Nat /\ k = Cardinality(s)
    OBVIOUS
  <2> DEFINE t == s \ {OneOf(s)}
  <2>3. C!Total(s) = IF s = {} THEN 0 ELSE files[OneOf(s)].size + C!Total(t)
    BY <1>1, TotalIs
  <2>4. s # {}
    BY <2>2, <2>3
  <2>5. OneOf(s) \in s
    BY <2>4 DEF OneOf
  <2>6. files[OneOf(s)].size \in Nat
    BY <2>5 DEF Sized, Texts
  <2>7. Cardinality(t) = Cardinality(s) - 1 /\ t \in SUBSET S
    BY <1>1, <2>5, FS_RemoveElement
  <2> HIDE DEF t
  <2>8. C!Total(t) \notin Nat
    BY <2>2, <2>3, <2>4, <2>6
  <2>9. Cardinality(t) \in Bad
    BY <2>7, <2>8
  <2>10. k <= Cardinality(t) /\ k \in Nat
    BY <1>1, <2>1, <2>2, <2>9
  <2> QED
    BY <2>2, <2>7, <2>10
<1> QED
  BY <1>2

\* The order of the additions does not matter: any name may come last.
LEMMA TotalLess ==
  ASSUME Sized, IsFiniteSet(Name), NEW S, Texts(S), NEW n \in S
  PROVE  C!Total(S) = files[n].size + C!Total(S \ {n})
<1> DEFINE Holds(s) == \A y \in s : C!Total(s) = files[y].size + C!Total(s \ {y})
           Bad == {Cardinality(s) : s \in {t \in SUBSET S : ~Holds(t)}}
<1>1. \A s \in SUBSET S : IsFiniteSet(s) /\ Cardinality(s) \in Nat /\ Texts(s)
  BY FS_Subset, FS_CardinalityType DEF Texts
<1>2. Bad = {}
  <2> SUFFICES ASSUME Bad # {} PROVE FALSE
    OBVIOUS
  <2>1. PICK k \in Bad : \A m \in Bad : k <= m
    <3>1. Bad \subseteq Nat
      BY <1>1
    <3> HIDE DEF Bad
    <3> QED
      BY <3>1, LeastOf
  <2>2. PICK s \in SUBSET S : ~Holds(s) /\ k = Cardinality(s)
    OBVIOUS
  <2>3. PICK y \in s : C!Total(s) # files[y].size + C!Total(s \ {y})
    BY <2>2
  <2> DEFINE x == OneOf(s)
  <2>4. x \in s /\ C!Total(s) = files[x].size + C!Total(s \ {x})
    BY <1>1, <2>3, TotalIs DEF OneOf
  <2> HIDE DEF x
  <2>5. x # y
    BY <2>3, <2>4
  <2> DEFINE a == s \ {x}
             b == s \ {y}
             c == s \ {x, y}
  <2>6. /\ a \in SUBSET S /\ Cardinality(a) = Cardinality(s) - 1
        /\ b \in SUBSET S /\ Cardinality(b) = Cardinality(s) - 1
        /\ c \in SUBSET S /\ y \in a /\ x \in b /\ a \ {y} = c /\ b \ {x} = c
    BY <1>1, <2>3, <2>4, <2>5, FS_RemoveElement
  <2> HIDE DEF a, b, c
  <2>7. \A t \in SUBSET S : Cardinality(t) = Cardinality(s) - 1 => Holds(t)
    <3> SUFFICES ASSUME NEW t \in SUBSET S, Cardinality(t) = Cardinality(s) - 1, ~Holds(t) PROVE FALSE
      OBVIOUS
    <3>1. Cardinality(t) \in Bad
      OBVIOUS
    <3> HIDE DEF Bad, Holds
    <3>2. k <= Cardinality(t) /\ k \in Nat /\ Cardinality(t) \in Nat
      BY <1>1, <2>1, <2>2, <3>1
    <3> QED
      BY <2>2, <3>2
  <2>8. Holds(a) /\ Holds(b)
    BY <2>6, <2>7
  <2>9. C!Total(a) = files[y].size + C!Total(c) /\ C!Total(b) = files[x].size + C!Total(c)
    BY <2>6, <2>8
  <2>10. C!Total(c) \in Nat /\ files[x].size \in Nat /\ files[y].size \in Nat
    BY <1>1, <2>3, <2>4, <2>6, TotalIsNatural DEF Sized, Texts
  <2>11. C!Total(s) = files[x].size + C!Total(a) /\ C!Total(s) # files[y].size + C!Total(b)
    BY <2>3, <2>4 DEF a, b
  <2> QED
    BY <2>9, <2>10, <2>11
<1>3. Holds(S)
  BY <1>2
<1> QED
  BY <1>3

\* The pass of activeContextPreamble over the names, as a function of how far it got.
LastName == C!Max(Name)
WithOne(before, n) == before \cup {m \in {n} \cap C!Asked : C!Fits(m, before)}
Passes(f, k) == f = [n \in 0..k |-> IF n = 0 THEN {} ELSE WithOne(f[n - 1], n)]

LEMMA NamesBounded ==
  ASSUME NEW S \in SUBSET Nat, IsFiniteSet(S) PROVE \E N \in Nat : \A n \in S : n <= N
<1> DEFINE Bounded(s) == \E N \in Nat : \A n \in s : n <= N
           Bad == {Cardinality(s) : s \in {t \in SUBSET S : ~Bounded(t)}}
<1>1. \A s \in SUBSET S : IsFiniteSet(s) /\ Cardinality(s) \in Nat
  BY FS_Subset, FS_CardinalityType
<1>2. Bad = {}
  <2> SUFFICES ASSUME Bad # {} PROVE FALSE
    OBVIOUS
  <2>1. PICK k \in Bad : \A m \in Bad : k <= m
    <3>1. Bad \subseteq Nat
      BY <1>1
    <3> HIDE DEF Bad
    <3> QED
      BY <3>1, LeastOf
  <2>2. PICK s \in SUBSET S : ~Bounded(s) /\ k = Cardinality(s)
    OBVIOUS
  <2>3. PICK x \in s : TRUE
    BY <2>2, 0 \in Nat
  <2> DEFINE t == s \ {x}
  <2>4. t \in SUBSET S /\ Cardinality(t) = Cardinality(s) - 1
    BY <1>1, <2>3, FS_RemoveElement
  <2>5. Bounded(t)
    <3> SUFFICES ASSUME ~Bounded(t) PROVE FALSE
      OBVIOUS
    <3>1. Cardinality(t) \in Bad
      BY <2>4
    <3> HIDE DEF Bad, Bounded, t
    <3> QED
      BY <1>1, <2>1, <2>2, <2>4, <3>1
  <2>6. PICK N \in Nat : \A n \in t : n <= N
    BY <2>5
  <2>7. x \in Nat /\ \A n \in s : n \in Nat /\ n <= N + x
    BY <2>6
  <2>8. N + x \in Nat
    BY <2>7
  <2> HIDE DEF t
  <2> QED
    BY <2>2, <2>7, <2>8
<1> QED
  BY <1>2

LEMMA NamesEnd == LastName \in Nat \ {0} /\ Name \subseteq 1..LastName /\ IsFiniteSet(Name)
<1>1. Name \subseteq Nat \ {0} /\ Name # {} /\ IsFiniteSet(Name)
  BY ContextAssumption
<1>2. PICK N \in Nat : \A n \in Name : n <= N
  BY <1>1, NamesBounded
<1>3. Name \in SUBSET (1..N)
  BY <1>1, <1>2
<1>4. L!Max(Name) \in Name /\ \A n \in Name : n <= L!Max(Name)
  BY <1>1, <1>2, <1>3, LastPlace
<1>5. LastName = L!Max(Name)
  BY DEF LastName, C!Max, L!Max
<1>6. LastName \in Name /\ \A n \in Name : n <= LastName
  BY <1>4, <1>5
<1> QED
  BY <1>1, <1>6

LEMMA PassesExist == ASSUME NEW N \in Nat PROVE \E f : Passes(f, N)
<1> DEFINE Bad == {k \in Nat : ~(\E f : Passes(f, k))}
<1>1. 0 \notin Bad
  <2> DEFINE z == [n \in 0..0 |-> {}]
  <2>1. Passes(z, 0)
    BY DEF Passes
  <2> HIDE DEF z
  <2> QED
    BY <2>1
<1>2. ASSUME NEW k \in Nat, NEW f, Passes(f, k) PROVE \E g : Passes(g, k + 1)
  <2> DEFINE g == [n \in 0..k + 1 |-> IF n = 0 THEN {} ELSE WithOne(f[n - 1], n)]
  <2>1. ASSUME NEW n \in 0..k + 1, n # 0 PROVE g[n - 1] = f[n - 1]
    <3>1. n - 1 \in 0..k /\ n - 1 \in 0..k + 1
      BY <2>1
    <3>2. f[n - 1] = IF n - 1 = 0 THEN {} ELSE WithOne(f[(n - 1) - 1], n - 1)
      BY <1>2, <3>1 DEF Passes
    <3> QED
      BY <3>1, <3>2
  <2>2. \A n \in 0..k + 1 : g[n] = IF n = 0 THEN {} ELSE WithOne(g[n - 1], n)
    BY <2>1
  <2>3. Passes(g, k + 1)
    BY <2>2 DEF Passes
  <2> HIDE DEF g
  <2> QED
    BY <2>3
<1>3. Bad = {}
  <2> SUFFICES ASSUME Bad # {} PROVE FALSE
    OBVIOUS
  <2>1. PICK k \in Bad : \A m \in Bad : k <= m
    <3>1. Bad \subseteq Nat
      OBVIOUS
    <3> HIDE DEF Bad
    <3> QED
      BY <3>1, LeastOf
  <2>2. k \in Nat /\ k # 0
    BY <1>1, <2>1
  <2>3. k - 1 \in Nat /\ k - 1 \notin Bad /\ (k - 1) + 1 = k
    BY <2>1, <2>2
  <2>4. PICK f : Passes(f, k - 1)
    BY <2>3
  <2>5. \E g : Passes(g, k)
    BY <1>2, <2>3, <2>4
  <2> QED
    BY <2>1, <2>5
<1> QED
  BY <1>3

\* What the pass has after k names: some of those, in the budget, and what it
\* has of them it keeps.
Partway(f, k) ==
  /\ f[k] \subseteq C!Asked \cap 1..k
  /\ \A n \in f[k] : ~files[n].binary /\ files[n].size <= FileCap
  /\ C!Total(f[k]) <= TotalCap
  /\ \A n \in 1..k : {m \in f[k] : m < n} = f[n - 1] /\ (n \in f[k] <=> n \in f[n])

LEMMA PassGoesOn ==
  ASSUME Sized, NEW f, Passes(f, LastName), NEW k \in 0..LastName PROVE Partway(f, k)
<1> DEFINE N == LastName
           Bad == {n \in 0..N : ~Partway(f, n)}
<1>1. N \in Nat /\ C!Asked \subseteq {n \in Name : files[n] # None} /\ IsFiniteSet(Name)
  BY NamesEnd DEF C!Asked, C!Active, C!Listed
<1>2. f[0] = {} /\ \A n \in 1..N : f[n] = WithOne(f[n - 1], n)
  <2>1. 0 \in 0..N /\ \A n \in 1..N : n \in 0..N /\ n # 0
    BY <1>1
  <2> QED
    BY <2>1 DEF Passes
<1>3. Partway(f, 0)
  <2>1. C!Total({}) = 0
    BY TotalIs, FS_EmptySet
  <2> QED
    BY <1>2, <2>1, ContextAssumption DEF Partway
<1>4. ASSUME NEW n \in 1..N, Partway(f, n - 1) PROVE Partway(f, n)
  <2>1. n - 1 \in 0..N /\ n \notin f[n - 1] /\ 1..n = 1..(n - 1) \cup {n}
    <3>1. n \in Nat /\ n \notin 1..(n - 1)
      BY <1>1
    <3> QED
      BY <1>1, <1>4, <3>1 DEF Partway
  <2>2. f[n] = WithOne(f[n - 1], n)
    BY <1>2
  <2>3. Texts(f[n - 1]) /\ IsFiniteSet(f[n - 1])
    BY <1>1, <1>4, FS_Subset DEF Partway, Texts
  <2>4. \A j \in 1..n : {m \in f[n] : m < j} = f[j - 1] /\ (j \in f[n] <=> j \in f[j])
    <3>1. ASSUME NEW j \in 1..n - 1
          PROVE  {m \in f[n] : m < j} = f[j - 1] /\ (j \in f[n] <=> j \in f[j])
      <4>1. {m \in f[n] : m < j} = {m \in f[n - 1] : m < j} /\ (j \in f[n] <=> j \in f[n - 1])
        BY <2>2 DEF WithOne
      <4> QED
        BY <1>4, <4>1 DEF Partway
    <3>2. {m \in f[n] : m < n} = f[n - 1]
      BY <1>4, <2>2 DEF Partway, WithOne
    <3> QED
      BY <2>1, <3>1, <3>2
  <2>5. CASE n \in C!Asked /\ C!Fits(n, f[n - 1])
    <3>1. f[n] = f[n - 1] \cup {n}
      BY <2>2, <2>5 DEF WithOne
    <3>2. Texts(f[n]) /\ f[n] \ {n} = f[n - 1] /\ IsFiniteSet(f[n])
      BY <1>1, <2>1, <2>3, <2>5, <3>1, FS_AddElement DEF Texts
    <3>3. C!Total(f[n]) = files[n].size + C!Total(f[n - 1])
      BY <1>1, <3>1, <3>2, TotalLess
    <3>4. C!Total(f[n - 1]) \in Nat /\ files[n].size \in Nat /\ TotalCap \in Nat
      BY <1>1, <2>3, <2>5, TotalIsNatural, ContextAssumption DEF Sized
    <3>5. ~files[n].binary /\ files[n].size <= FileCap /\ files[n].size <= TotalCap - C!Total(f[n - 1])
      BY <2>5 DEF C!Fits
    <3>6. C!Total(f[n]) <= TotalCap
      BY <3>3, <3>4, <3>5
    <3>7. f[n] \subseteq C!Asked \cap 1..n
      BY <1>4, <2>1, <2>5, <3>1 DEF Partway
    <3> QED
      BY <1>4, <2>4, <3>1, <3>5, <3>6, <3>7 DEF Partway
  <2>6. CASE ~(n \in C!Asked /\ C!Fits(n, f[n - 1]))
    <3>1. f[n] = f[n - 1]
      BY <2>2, <2>6 DEF WithOne
    <3>2. f[n] \subseteq C!Asked \cap 1..n
      BY <1>4, <2>1, <3>1 DEF Partway
    <3> QED
      BY <1>4, <2>4, <3>1, <3>2 DEF Partway
  <2> QED
    BY <2>5, <2>6
<1>5. Bad = {}
  <2> SUFFICES ASSUME Bad # {} PROVE FALSE
    OBVIOUS
  <2>1. PICK n \in Bad : \A m \in Bad : n <= m
    <3>1. Bad \subseteq Nat
      BY <1>1
    <3> HIDE DEF Bad
    <3> QED
      BY <3>1, LeastOf
  <2>2. n \in 1..N /\ n - 1 \in 0..N /\ ~(n <= n - 1)
    BY <1>1, <1>3, <2>1
  <2>3. n - 1 \notin Bad
    BY <2>1, <2>2
  <2> QED
    BY <1>4, <2>1, <2>2, <2>3
<1> QED
  BY <1>5

\* What a prompt announces is honest, whatever the files are.
LEMMA AnnouncesHonestly == ASSUME Sized PROVE C!InlineIsHonest
<1> DEFINE f == CHOOSE g : Passes(g, LastName)
           N == LastName
<1>1. Passes(f, N)
  BY PassesExist, NamesEnd
<1>2. C!Inlined = f[N]
  BY Zenon DEF C!Inlined, Passes, WithOne, LastName
<1> HIDE DEF f
<1>3. N \in 0..N /\ N \in Nat /\ Name \subseteq 1..N
  BY NamesEnd
<1>4. Partway(f, N)
  BY <1>1, <1>3, PassGoesOn
<1>5. C!Asked \subseteq C!Active /\ C!Asked \subseteq Name
  BY DEF C!Asked, C!Active, C!Listed
<1>6. ASSUME NEW n \in C!Asked \ f[N]
      PROVE  \/ files[n].binary \/ files[n].size > FileCap
             \/ files[n].size + C!Total({m \in f[N] : m < n}) > TotalCap
  <2>1. n \in 1..N /\ n \in 0..N /\ n # 0
    BY <1>3, <1>5
  <2>2. n \notin f[n] /\ {m \in f[N] : m < n} = f[n - 1]
    BY <1>4, <2>1 DEF Partway
  <2>3. f[n] = WithOne(f[n - 1], n)
    BY <1>1, <2>1 DEF Passes
  <2>4. ~C!Fits(n, f[n - 1])
    BY <2>2, <2>3 DEF WithOne
  <2>5. Texts(f[n - 1])
    <3>1. n - 1 \in 0..N
      BY <1>3, <2>1
    <3> QED
      BY <1>1, <3>1, PassGoesOn DEF Partway, Texts, C!Asked, C!Active, C!Listed
  <2>6. C!Total(f[n - 1]) \in Nat /\ files[n].size \in Nat /\ TotalCap \in Nat /\ FileCap \in Nat
    BY <2>5, TotalIsNatural, NamesEnd, ContextAssumption DEF Sized, C!Asked, C!Active, C!Listed
  <2>7. files[n].binary \/ ~(files[n].size <= FileCap)
        \/ ~(files[n].size <= TotalCap - C!Total(f[n - 1]))
    BY <2>4, Zenon DEF C!Fits
  <2>8. (~(files[n].size <= FileCap) => files[n].size > FileCap)
        /\ (~(files[n].size <= TotalCap - C!Total(f[n - 1]))
              => files[n].size + C!Total(f[n - 1]) > TotalCap)
    BY <2>6
  <2> QED
    BY <2>2, <2>7, <2>8, Zenon
<1> QED
  BY <1>2, <1>4, <1>5, <1>6 DEF C!InlineIsHonest, Partway

ContextTypes ==
  /\ files \in [Name -> {None} \cup C!Body]
  /\ meta = None \/ (meta \in UNION {[S -> C!Flags] : S \in SUBSET Name})
  /\ want \in [Name -> C!Flags] /\ lost \subseteq Name
ContextIInv == ContextTypes /\ C!FlagsKept

RowSets == UNION {[S -> C!Flags] : S \in SUBSET Name}

LEMMA RowsRead ==
  ASSUME ContextTypes
  PROVE  /\ C!Rows \in RowSets /\ DOMAIN C!Rows \subseteq Name
         /\ \A n \in Name : C!Shown(n) \in C!Flags
<1>1. CASE meta = None
  <2>1. C!Rows = [n \in {} |-> C!Default] /\ DOMAIN C!Rows = {}
    BY <1>1 DEF C!Rows
  <2>2. C!Rows \in [{} -> C!Flags]
    BY <2>1
  <2> QED
    BY <2>1, <2>2 DEF RowSets, C!Shown, C!Default, C!Flags
<1>2. CASE meta # None
  <2>1. PICK S \in SUBSET Name : meta \in [S -> C!Flags]
    BY <1>2 DEF ContextTypes
  <2>2. C!Rows = meta /\ DOMAIN meta = S
    BY <1>2, <2>1 DEF C!Rows
  <2> QED
    BY <2>1, <2>2 DEF RowSets, C!Shown, C!Default, C!Flags
<1> QED
  BY <1>1, <1>2

\* A save keeps what is shown of the other files, and shows what it was given.
LEMMA SavesKeep ==
  ASSUME ContextIInv, NEW n \in Name, NEW rows \in RowSets, NEW flags \in C!Flags,
         files' \in [Name -> {None} \cup C!Body], \A m \in Name \ {n} : files'[m] = files[m],
         C!Saves(n, rows, flags),
         \A m \in Name \ {n} : /\ m \in DOMAIN rows <=> m \in DOMAIN C!Rows
                               /\ m \in DOMAIN rows => rows[m] = C!Rows[m],
         files'[n] # None => n \in DOMAIN rows /\ rows[n] = flags
  PROVE  ContextIInv'
<1> USE DEF C!Listed
<1>1. CASE /\ meta' = rows /\ want' = [want EXCEPT ![n] = flags]
           /\ lost' = (lost \cup C!Missing) \ {n}
  <2>1. PICK S \in SUBSET Name : rows \in [S -> C!Flags]
    BY DEF RowSets
  <2>2. rows # None /\ DOMAIN rows = S
    BY <2>1, ContextAssumption DEF C!Flags
  <2>3. C!Rows' = rows
    BY <1>1, <2>2 DEF C!Rows
  <2>4. ContextTypes'
    BY <1>1 DEF ContextIInv, ContextTypes, C!Missing, RowSets, C!Flags, C!Body
  <2>5. ASSUME NEW m \in Name, files'[m] # None, m \notin lost' PROVE C!Shown(m)' = want'[m]
    <3>1. CASE m = n
      BY <1>1, <2>3, <2>5, <3>1 DEF C!Shown, ContextIInv, ContextTypes
    <3>2. CASE m # n
      <4>1. files[m] # None /\ m \notin lost /\ want'[m] = want[m]
        BY <1>1, <2>5, <3>2 DEF ContextIInv, ContextTypes
      <4>2. C!Shown(m) = want[m]
        BY <4>1 DEF ContextIInv, C!FlagsKept
      <4> QED
        BY <2>3, <3>2, <4>1, <4>2 DEF C!Shown, C!Default
    <3> QED
      BY <3>1, <3>2
  <2> QED
    BY <2>4, <2>5 DEF ContextIInv, C!FlagsKept
<1>2. CASE meta' = None /\ lost' = Name /\ want' = want
  BY <1>2 DEF ContextIInv, ContextTypes, C!FlagsKept, C!Flags, C!Body
<1>3. CASE meta' = meta /\ want' = want /\ lost' = IF files' = files THEN lost ELSE lost \cup {n}
  <2>1. ContextTypes'
    BY <1>3 DEF ContextIInv, ContextTypes, C!Flags, C!Body
  <2>2. ASSUME NEW m \in Name, files'[m] # None, m \notin lost' PROVE C!Shown(m)' = want'[m]
    <3>1. files[m] # None /\ m \notin lost
      BY <1>3, <2>2
    <3>2. C!Shown(m) = want[m]
      BY <3>1 DEF ContextIInv, C!FlagsKept
    <3> QED
      BY <1>3, <3>2 DEF C!Shown, C!Rows, C!Default
  <2> QED
    BY <2>1, <2>2 DEF ContextIInv, C!FlagsKept
<1> QED
  BY <1>1, <1>2, <1>3 DEF C!Saves

LEMMA ContextKeeps == ContextIInv /\ [C!Next]_contextVars => ContextIInv'
<1> SUFFICES ASSUME ContextIInv, [C!Next]_contextVars PROVE ContextIInv'
  OBVIOUS
<1>1. /\ C!Rows \in RowSets /\ DOMAIN C!Rows \subseteq Name
      /\ \A n \in Name : C!Shown(n) \in C!Flags
  BY RowsRead DEF ContextIInv
<1>2. files \in [Name -> {None} \cup C!Body]
  BY DEF ContextIInv, ContextTypes
<1>3. \A x, y \in C!Opt, f \in C!Flags :
        [active |-> C!Or(x, f.active), inline |-> C!Or(y, f.inline)] \in C!Flags
  BY DEF C!Opt, C!Or, C!Flags
<1>4. ASSUME NEW n \in Name, NEW flags \in C!Flags PROVE
        LET rows == C!With(n, flags) IN
          /\ rows \in RowSets /\ n \in DOMAIN rows /\ rows[n] = flags
          /\ \A m \in Name \ {n} : /\ m \in DOMAIN rows <=> m \in DOMAIN C!Rows
                                   /\ m \in DOMAIN rows => rows[m] = C!Rows[m]
  <2> DEFINE rows == C!With(n, flags)
             D == DOMAIN C!Rows \cup {n}
  <2>1. D \in SUBSET Name /\ C!Rows \in [DOMAIN C!Rows -> C!Flags]
    BY <1>1 DEF RowSets
  <2>2. rows = [m \in D |-> IF m = n THEN flags ELSE C!Rows[m]]
    BY DEF C!With
  <2>3. rows \in [D -> C!Flags]
    BY <2>1, <2>2
  <2> HIDE DEF rows
  <2> QED
    BY <2>1, <2>2, <2>3 DEF RowSets, rows
<1>5. ASSUME NEW n \in Name, C!Put(n) PROVE ContextIInv'
  <2>1. PICK body \in C!Body, active \in C!Opt, inline \in C!Opt :
          LET flags == [active |-> C!Or(active, TRUE), inline |-> C!Or(inline, FALSE)]
          IN /\ files' = [files EXCEPT ![n] = body]
             /\ C!Saves(n, C!With(n, flags), flags)
    BY <1>5 DEF C!Put
  <2> DEFINE flags == [active |-> C!Or(active, TRUE), inline |-> C!Or(inline, FALSE)]
  <2>2. flags \in C!Flags
    BY DEF C!Opt, C!Or, C!Flags
  <2>3. files' \in [Name -> {None} \cup C!Body] /\ \A m \in Name \ {n} : files'[m] = files[m]
    BY <1>2, <2>1
  <2>4. C!Saves(n, C!With(n, flags), flags)
    BY <2>1
  <2> HIDE DEF flags
  <2> QED
    BY <1>4, <2>2, <2>3, <2>4, SavesKeep
<1>6. ASSUME NEW n \in Name, C!Update(n) PROVE ContextIInv'
  <2>1. PICK active \in C!Opt, inline \in C!Opt :
          LET flags == [active |-> C!Or(active, C!Shown(n).active),
                        inline |-> C!Or(inline, C!Shown(n).inline)]
          IN C!Saves(n, C!With(n, flags), flags)
    BY <1>6 DEF C!Update
  <2> DEFINE flags == [active |-> C!Or(active, C!Shown(n).active),
                       inline |-> C!Or(inline, C!Shown(n).inline)]
  <2>2. flags \in C!Flags
    BY <1>1, <1>3
  <2>3. files' = files
    BY <1>6 DEF C!Update
  <2>4. C!Saves(n, C!With(n, flags), flags)
    BY <2>1
  <2> HIDE DEF flags
  <2> QED
    BY <1>2, <1>4, <2>2, <2>3, <2>4, SavesKeep
<1>7. ASSUME NEW n \in Name, C!Delete(n) PROVE ContextIInv'
  <2> DEFINE rows == C!Without(n)
             D == DOMAIN C!Rows \ {n}
  <2>1. D \in SUBSET Name /\ C!Rows \in [DOMAIN C!Rows -> C!Flags]
    BY <1>1 DEF RowSets
  <2>2. rows = [m \in D |-> C!Rows[m]]
    BY DEF C!Without
  <2>3. rows \in [D -> C!Flags] /\ C!Default \in C!Flags
    BY <2>1, <2>2 DEF C!Default, C!Flags
  <2>4. files' = [files EXCEPT ![n] = None] /\ C!Saves(n, rows, C!Default)
    BY <1>7 DEF C!Delete
  <2> HIDE DEF rows
  <2>5. /\ rows \in RowSets
        /\ \A m \in Name \ {n} : /\ m \in DOMAIN rows <=> m \in DOMAIN C!Rows
                                 /\ m \in DOMAIN rows => rows[m] = C!Rows[m]
    BY <2>1, <2>2, <2>3 DEF RowSets
  <2>6. files' \in [Name -> {None} \cup C!Body] /\ files'[n] = None
        /\ \A m \in Name \ {n} : files'[m] = files[m]
    BY <1>2, <2>4
  <2> QED
    BY <2>3, <2>4, <2>5, <2>6, SavesKeep
<1>8. ASSUME NEW n \in Name, C!AgentTouches(n) PROVE ContextIInv'
  <2>1. PICK body \in {None} \cup C!Body : files' = [files EXCEPT ![n] = body]
    BY <1>8 DEF C!AgentTouches
  <2>2. lost' = lost \cup {n} /\ UNCHANGED <<meta, want>>
    BY <1>8 DEF C!AgentTouches
  <2>3. ContextTypes'
    BY <1>2, <2>1, <2>2 DEF ContextIInv, ContextTypes, C!Flags, C!Body
  <2>4. ASSUME NEW m \in Name, files'[m] # None, m \notin lost' PROVE C!Shown(m)' = want'[m]
    <3>1. files[m] # None /\ m \notin lost
      BY <1>2, <2>1, <2>2, <2>4
    <3>2. C!Shown(m) = want[m]
      BY <3>1 DEF ContextIInv, C!FlagsKept, C!Listed
    <3> QED
      BY <2>2, <3>2 DEF C!Shown, C!Rows, C!Default
  <2> QED
    BY <2>3, <2>4 DEF ContextIInv, C!FlagsKept, C!Listed
<1>9. CASE UNCHANGED contextVars
  BY <1>9 DEF contextVars, ContextIInv, ContextTypes, C!FlagsKept, C!Listed, C!Shown, C!Rows,
              C!Default, C!Flags, C!Body
<1> QED
  BY <1>5, <1>6, <1>7, <1>8, <1>9 DEF C!Next
-----------------------------------------------------------------------------

LEMMA WorkContext == [WorkNext]_all => [C!Next]_contextVars
BY DEF WorkNext, all, contextVars, RepoStep, LaunchStep, TrustStep, ContextStep, ModulesStep,
       BootStep, AccessStep, OwnersStep

\* For any files, calls and crashes: a file keeps the flags its last whole call
\* left it with, and what a prompt carries of the files is in the budget, text,
\* and no less than it could be (src/context-store.ts).
THEOREM FlagsAndTextsKept == WorkSpec => []AttachmentsKept
<1>1. WorkInit => ContextIInv
  <2> SUFFICES ASSUME WorkInit PROVE ContextIInv
    OBVIOUS
  <2>1. /\ files = [n \in Name |-> None] /\ meta = [n \in {} |-> C!Default]
        /\ want = [n \in Name |-> C!Default] /\ lost = {}
    BY DEF WorkInit, C!Init
  <2>2. meta \in [{} -> C!Flags] /\ {} \in SUBSET Name
    BY <2>1
  <2>3. want \in [Name -> C!Flags]
    BY <2>1 DEF C!Default, C!Flags
  <2>4. C!Listed = {}
    BY <2>1 DEF C!Listed
  <2> QED
    BY <2>1, <2>2, <2>3, <2>4 DEF ContextIInv, ContextTypes, C!FlagsKept
<1>2. ContextIInv /\ [WorkNext]_all => ContextIInv'
  BY ContextKeeps, WorkContext
<1>3. ContextIInv => AttachmentsKept
  <2> SUFFICES ASSUME ContextIInv PROVE AttachmentsKept
    OBVIOUS
  <2>1. Sized
    BY ContextAssumption DEF ContextIInv, ContextTypes, Sized, C!Body
  <2> QED
    BY <2>1, AnnouncesHonestly DEF ContextIInv, AttachmentsKept
<1> QED
  BY <1>1, <1>2, <1>3, PTL DEF WorkSpec
=============================================================================
