------------------------------ MODULE Context ------------------------------
(***************************************************************************)
(* The files a human attaches to a workspace (src/context-store.ts): each  *)
(* is a file in the workspace's own directory, their flags are rows of one *)
(* .meta.json, and the active ones are announced with every prompt, some   *)
(* with their text.  A call writes the file, then the whole of .meta.json; *)
(* the broker may die in between or in the middle of the second write, and *)
(* the agent works in the same directory.                                  *)
(***************************************************************************)
EXTENDS Naturals, FiniteSetsExt

CONSTANTS Name,           \* attachments, numbered in the order of their names
          Sizes,          \* lengths of files
          FileCap,        \* INLINE_FILE_CAP
          TotalCap,       \* INLINE_TOTAL_CAP
          MaxMishaps,     \* bound: crashes of the broker, files the agent touches
          None

VARIABLES files,    \* the files: [size, binary], or None
          meta,     \* .meta.json: a partial function, or "torn"
          want,     \* per file the flags the last finished call left it with
          lost,     \* files whose row a crash or the agent put out of step
          mishaps
vars == <<files, meta, want, lost, mishaps>>

Flags == [active : BOOLEAN, inline : BOOLEAN]
Body  == [size : Sizes, binary : BOOLEAN]
Opt   == {None} \union BOOLEAN
Default == [active |-> TRUE, inline |-> FALSE]

TypeOK ==
    /\ files \in [Name -> {None} \union Body]
    /\ meta = None \/ (DOMAIN meta \subseteq Name /\ \A n \in DOMAIN meta : meta[n] \in Flags)
    /\ want \in [Name -> Flags]
    /\ lost \subseteq Name /\ mishaps \in 0..MaxMishaps

Init ==
    /\ files = [n \in Name |-> None]
    /\ meta = [n \in {} |-> Default]
    /\ want = [n \in Name |-> Default]
    /\ lost = {} /\ mishaps = 0

-----------------------------------------------------------------------------
(* .meta.json that does not parse reads as no rows at all; None is torn *)
Rows == IF meta = None THEN [n \in {} |-> Default] ELSE meta
Shown(n) == IF n \in DOMAIN Rows THEN Rows[n] ELSE Default
With(n, flags) == [m \in DOMAIN Rows \union {n} |-> IF m = n THEN flags ELSE Rows[m]]
Without(n) == [m \in DOMAIN Rows \ {n} |-> Rows[m]]
Or(x, y) == IF x = None THEN y ELSE x

(* the files whose rows are given up when a torn file is written over *)
Missing == IF meta = None THEN {m \in Name : files[m] # None} ELSE {}

Mishap == mishaps < MaxMishaps /\ mishaps' = mishaps + 1

(* How the second write of a call ends: whole, cut short, or never begun;  *)
(* `n` is the name the call is about.                                      *)
Saves(n, rows, flags) ==
    \/ /\ meta' = rows
       /\ want' = [want EXCEPT ![n] = flags]
       /\ lost' = (lost \union Missing) \ {n}
       /\ UNCHANGED mishaps
    \/ /\ Mishap /\ meta' = None /\ lost' = Name /\ UNCHANGED want
    \/ /\ Mishap /\ UNCHANGED <<meta, want>>
       /\ lost' = IF files' = files THEN lost ELSE lost \union {n}

(* a second put of a name forgets the flags it had: what the call leaves   *)
(* out is the default                                                      *)
Put(n) ==
    \E body \in Body, active, inline \in Opt :
        LET flags == [active |-> Or(active, TRUE), inline |-> Or(inline, FALSE)]
        IN /\ files' = [files EXCEPT ![n] = body]
           /\ Saves(n, With(n, flags), flags)

Update(n) ==
    /\ files[n] # None
    /\ UNCHANGED files
    /\ \E active, inline \in Opt :
         LET flags == [active |-> Or(active, Shown(n).active),
                       inline |-> Or(inline, Shown(n).inline)]
         IN Saves(n, With(n, flags), flags)

Delete(n) ==
    /\ files[n] # None
    /\ files' = [files EXCEPT ![n] = None]
    /\ Saves(n, Without(n), Default)

(* not in src/: the agent changes or removes a file it was given *)
AgentTouches(n) ==
    /\ Mishap
    /\ \E body \in {None} \union Body : files' = [files EXCEPT ![n] = body]
    /\ lost' = lost \union {n}
    /\ UNCHANGED <<meta, want>>

Next == \E n \in Name : Put(n) \/ Update(n) \/ Delete(n) \/ AgentTouches(n)
Spec == Init /\ [][Next]_vars

-----------------------------------------------------------------------------
(* What a prompt announces: the active files, and of those asked for       *)
(* inline the whole text of each that is text, small enough, and fits in   *)
(* what the ones before it left.                                           *)
Listed == {n \in Name : files[n] # None}
Active == {n \in Listed : Shown(n).active}
Asked  == {n \in Active : Shown(n).inline}
Total(S) == FoldSet(LAMBDA n, sum : files[n].size + sum, 0, S)

\* mutant: the budget is not reduced by what is already inlined
BugBudgetKept(n, before) == ~files[n].binary /\ files[n].size <= FileCap

Fits(n, before) ==
    /\ ~files[n].binary
    /\ files[n].size <= FileCap
    /\ files[n].size <= TotalCap - Total(before)

Inlined ==
    LET upTo[n \in 0..Max(Name)] ==
          IF n = 0 THEN {}
          ELSE upTo[n - 1] \union {m \in {n} \intersect Asked : Fits(m, upTo[n - 1])}
    IN upTo[Max(Name)]

-----------------------------------------------------------------------------
(* A file keeps the flags the last call gave it, through calls about other *)
(* files: an attachment put away does not come back into the prompts, but  *)
(* for a write that was cut short or a file the agent changed              *)
(* (context-store.ts:54-64, 121-138).                                      *)
FlagsKept == \A n \in Listed \ lost : Shown(n) = want[n]

(* The texts in a prompt stay in the budget, no binary is among them, and  *)
(* a file that asked to be and is not was not left out for want of a byte  *)
(* it could have had (context-store.ts:163-183).                           *)
InlineIsHonest ==
    /\ Inlined \subseteq Active /\ Total(Inlined) <= TotalCap
    /\ \A n \in Inlined : ~files[n].binary /\ files[n].size <= FileCap
    /\ \A n \in Asked \ Inlined :
          \/ files[n].binary \/ files[n].size > FileCap
          \/ files[n].size + Total({m \in Inlined : m < n}) > TotalCap
=============================================================================
