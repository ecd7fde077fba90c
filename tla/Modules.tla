------------------------------ MODULE Modules ------------------------------
(***************************************************************************)
(* The broker's modules: loaded once at boot, one after the other          *)
(* (src/module-loader.ts), each with the part of the API it declared and   *)
(* was granted (src/capabilities.ts, src/module-api.ts), its routes under  *)
(* /v1/modules/{id} (src/module-routes.ts) and its handlers of the         *)
(* broker's events (src/broker-events.ts).                                 *)
(***************************************************************************)
EXTENDS Naturals, Sequences, SequencesExt

CONSTANTS Configured,   \* [[modules]], a sequence of candidates
          MaxEmits,     \* bound: events emitted
          None

(* A module as its file and the operator's config have it: [id, abi, loads *)
(* (its file can be imported), throws (register() does, after it ran), on  *)
(* (it asks for the event), declared, granted, routes]                     *)

VARIABLES loaded,     \* the entries of loadModules, in order
          seen,       \* ids of the modules that registered
          handlers,   \* handlers of the event: positions in Configured
          heard,      \* per position: events its handler ran for
          errors,   \* BrokerEvents' count of handlers that threw or rejected
          emits,      \* events emitted
          owed,       \* per position: events emitted since it registered
          inquiry     \* the request in hand: what it names and who answered
vars == <<loaded, seen, handlers, heard, errors, emits, owed, inquiry>>

CAPABILITIES == {"git.read", "git.write", "files", "workspaces", "agents", "rpc", "events"}
ABI == 1
Position == 1..Len(Configured)
Idle == [id |-> None, rest |-> <<>>, by |-> None]

TypeOK ==
    /\ Len(loaded) <= Len(Configured)
    /\ \A e \in ToSet(loaded) : e.at \in Position /\ e.caps \subseteq CAPABILITIES
    /\ ToSet(handlers) \subseteq Position
    /\ errors \in Nat /\ emits \in 0..MaxEmits

Init ==
    /\ loaded = <<>> /\ seen = {} /\ handlers = <<>>
    /\ heard = [i \in Position |-> 0] /\ owed = heard
    /\ errors = 0 /\ emits = 0 /\ inquiry = Idle

-----------------------------------------------------------------------------
(* What a module is given *)

Unknown(m) == (m.declared \union m.granted) \ CAPABILITIES
Granted(m) == m.declared \intersect m.granted
(* git.write widens the git of git.read; alone it gives nothing *)
Usable(caps) == caps \ IF "git.read" \in caps THEN {} ELSE {"git.write"}

Refused(m) == \/ ~m.loads \/ m.id = None \/ m.abi # ABI \/ m.id \in seen
              \/ Unknown(m) # {}

LoadedAs(i, id, caps, routes, error) ==
    [at |-> i, id |-> id, caps |-> caps, routes |-> routes, error |-> error]
(* a file that cannot be imported, or names no id, is listed by its path *)
Refusal(i, m) ==
    LoadedAs(i, IF m.loads /\ m.id # None THEN m.id ELSE <<"path", i>>, {}, <<>>, TRUE)

(* One module of loadModules, which awaits its import.  register() may     *)
(* throw after it asked for events; its handlers are kept.                 *)
Load ==
    LET i == Len(loaded) + 1
        m == Configured[i]
        caps == Usable(Granted(m))
        subscribes == m.on /\ "events" \in caps
    IN /\ i \in Position
       /\ IF Refused(m)
          THEN /\ loaded' = Append(loaded, Refusal(i, m))
               /\ UNCHANGED <<seen, handlers, owed>>
          ELSE /\ handlers' = IF subscribes THEN Append(handlers, i) ELSE handlers
               /\ IF m.throws
                  THEN loaded' = Append(loaded, Refusal(i, m)) /\ UNCHANGED <<seen, owed>>
                  ELSE /\ loaded' = Append(loaded, LoadedAs(i, m.id, caps, m.routes, FALSE))
                       /\ seen' = seen \union {m.id}
                       /\ owed' = [owed EXCEPT ![i] = 0]
       /\ UNCHANGED <<heard, errors, emits, inquiry>>

(* emit: every handler in turn; one that throws, or whose promise rejects, *)
(* is counted and the others run                                           *)
Emit ==
    /\ emits < MaxEmits /\ emits' = emits + 1
    /\ heard' = [i \in Position |-> IF Contains(handlers, i) THEN heard[i] + 1 ELSE heard[i]]
    /\ owed' = [i \in Position |->
                  IF \E e \in ToSet(loaded) : e.at = i /\ ~e.error THEN owed[i] + 1 ELSE owed[i]]
    /\ \E bad \in SUBSET ToSet(handlers) :
         errors' = errors + Len(SelectSeq(handlers, LAMBDA i : i \in bad))
    /\ UNCHANGED <<loaded, seen, handlers, inquiry>>

-----------------------------------------------------------------------------
(* Routes *)

Listening == Len(loaded) = Len(Configured)
IsParam(segment) == segment = ":x"
RouteFits(want, rest) ==
    /\ Len(want) = Len(rest)
    /\ \A i \in DOMAIN want : IsParam(want[i]) \/ want[i] = rest[i]

(* the first entry of the id, whether it was refused or not *)
EntryOf(id) == SelectInSeq(loaded, LAMBDA e : e.id = id)
RouteOf(e, rest) == SelectInSeq(e.routes, LAMBDA r : RouteFits(r, rest))

MatchModuleRoute(id, rest) ==
    IF EntryOf(id) = 0 THEN None
    ELSE LET e == loaded[EntryOf(id)]
         IN IF e.error \/ RouteOf(e, rest) = 0 THEN None ELSE <<e.at, RouteOf(e, rest)>>

Paths == {<<>>, <<"a">>, <<"a", "b">>, <<"b">>}
Serves ==
    /\ Listening
    /\ \E id \in {Configured[i].id : i \in Position} \ {None}, rest \in Paths :
         inquiry' = [id |-> id, rest |-> rest, by |-> MatchModuleRoute(id, rest)]
    /\ UNCHANGED <<loaded, seen, handlers, heard, errors, emits, owed>>

Next == Load \/ Emit \/ Serves
Spec == Init /\ [][Next]_vars

-----------------------------------------------------------------------------
Running(i) == \E e \in ToSet(loaded) : e.at = i /\ ~e.error

(* A failure stays with its module: a module that loaded answers every path *)
(* it registered, whatever the others did (module-loader.ts:31-37).         *)
FailuresContained ==
    \A i \in Position :
        /\ inquiry # Idle /\ Running(i) /\ Configured[i].id = inquiry.id
        /\ \E r \in ToSet(Configured[i].routes) : RouteFits(r, inquiry.rest)
        => inquiry.by # None /\ inquiry.by[1] = i

(* The same, but for a module behind a refused one of its own name: the     *)
(* route table stops at the first entry of an id (module-routes.ts:25-28).  *)
ContainedUnlessShadowed ==
    \A i \in Position :
        /\ inquiry # Idle /\ Running(i) /\ Configured[i].id = inquiry.id
        /\ ~\E j \in 1..(i - 1) : loaded[j].error /\ loaded[j].id = inquiry.id
        /\ \E r \in ToSet(Configured[i].routes) : RouteFits(r, inquiry.rest)
        => /\ inquiry.by # None /\ inquiry.by[1] = i
           /\ RouteFits(Configured[i].routes[inquiry.by[2]], inquiry.rest)

(* A module holds no more than both sides named, and one id never belongs   *)
(* to two running modules (capabilities.ts:33-39).                          *)
GrantIsShared ==
    \A e \in ToSet(loaded) :
        /\ e.caps \subseteq Configured[e.at].declared \intersect Configured[e.at].granted
        /\ ~e.error => \A f \in ToSet(loaded) : ~f.error /\ f.id = e.id => f = e

(* A running module that asked for an event hears it exactly once from then *)
(* on, however the handlers before it fail (broker-events.ts:46-66).        *)
EveryHandlerHears ==
    \A i \in Position :
        Running(i) /\ Configured[i].on /\ "events" \in Granted(Configured[i]) => heard[i] = owed[i]
=============================================================================
