-------------------------------- MODULE Repo --------------------------------
(***************************************************************************)
(* The git verbs of the broker (src/git-exec.ts) on one repository in      *)
(* which an agent works at the same time.  A verb is several git commands, *)
(* each a process of its own, and the agent may do anything between two of *)
(* them.                                                                   *)
(*                                                                         *)
(* A file's content is a number, 0 when it is absent; the index holds the  *)
(* files staged anew; some files lie in a directory.  A git command fails  *)
(* when the agent's own git holds the index lock, and may be killed at its *)
(* time limit in the middle of its work (GIT_TIMEOUT_MS).                  *)
(***************************************************************************)
EXTENDS Naturals

CONSTANTS File,
          Dir, Below,  \* the name of a directory, and the files in it
          MaxEdits,   \* bound: contents written and merges begun by the agent
          MaxCalls,   \* bound: calls of the broker
          None

VARIABLES
  head, base,  \* number of HEAD's commit, and the files in it
  work,        \* the files on disk
  staged,      \* files git add made known that HEAD does not have
  merge,       \* whose merge is not concluded: None, "agent", "pull", "pop", or "left":
               \* a call's own, whose conflicts the call failed to see or to abort
  unmerged,    \* it has unmerged files
  stash,       \* the one stash entry, the dirty files with their content, or None
  edits, calls,
  preview,     \* [head, names]: what a confirm hash binds, and the files `shown` it stood for
  verb         \* the call: [at, tracked, untracked]

vars == <<head, base, work, staged, merge, unmerged, stash, edits, calls, preview, verb>>
tree == <<head, base, work, staged, merge, unmerged, stash>>
Idle == [at |-> "idle", tracked |-> {}, untracked |-> {}]

Init ==
  /\ head = 0 /\ base \in [File -> 0..1] /\ work = base /\ staged = {}
  /\ merge = None /\ unmerged = FALSE /\ stash = None
  /\ edits = 1 /\ calls = 0
  /\ preview = None /\ verb = Idle

Tracked   == {f \in File : base[f] # 0 \/ f \in staged}
Dirty     == {f \in Tracked : work[f] # base[f]}
Untracked == {f \in File \ Tracked : work[f] # 0}

\* git status names a file, or the directory it is in when git tracks nothing
\* there; a name given to git clean stands for every untracked file below it.
NameOf(f)    == IF f \in Below /\ Below \cap Tracked = {} THEN Dir ELSE f
Under(names) == {f \in File : f \in names \/ (Dir \in names /\ f \in Below)}

\* as in HEAD, where some files are not
AsInHead(fs) == [f \in File |-> IF f \in fs THEN base[f] ELSE work[f]]
InHead == {f \in File : base[f] # 0}
Commits(files) ==
  /\ base' = [f \in File |-> IF f \in files THEN work[f] ELSE base[f]]
  /\ head' = head + 1 /\ staged' = staged \ files
-----------------------------------------------------------------------------
(* The agent *)

AgentEdits(f) ==
  /\ edits < MaxEdits /\ edits' = edits + 1
  /\ work' = [work EXCEPT ![f] = edits + 1]
  /\ UNCHANGED <<head, base, staged, merge, unmerged, stash, calls, preview, verb>>

AgentAdds(f) ==
  /\ f \in Untracked /\ staged' = staged \cup {f}
  /\ UNCHANGED <<head, base, work, merge, unmerged, stash, edits, calls, preview, verb>>

\* The conflicts, its own or those a call left behind, resolved or given up.
AgentCommits ==
  /\ (Dirty # {} \/ merge # None) /\ Commits(Tracked)
  /\ merge' = None /\ unmerged' = FALSE
  /\ UNCHANGED <<work, stash, edits, calls, preview, verb>>

\* git merge, stopped on a conflict or before its commit.
AgentMerges ==
  /\ merge = None /\ merge' = "agent" /\ unmerged' \in BOOLEAN
  /\ edits < MaxEdits /\ edits' = edits + 1
  /\ UNCHANGED <<head, base, work, staged, stash, calls, preview, verb>>

AgentResolves ==
  /\ unmerged /\ unmerged' = FALSE
  /\ UNCHANGED <<head, base, work, staged, merge, stash, edits, calls, preview, verb>>
-----------------------------------------------------------------------------
(* discard *)

Begins == verb = Idle /\ calls < MaxCalls /\ calls' = calls + 1
Ends   == verb' = Idle

\* mutant: the hash does not cover the untracked files that will be deleted
BugHashesDirty(untracked) == Dirty

\* repoDiscard without `confirm`: HEAD and the names that git status prints.
Doomed(untracked)    == Dirty \cup (IF untracked THEN Untracked ELSE {})
Selection(untracked) == Dirty \cup (IF untracked THEN {NameOf(f) : f \in Untracked} ELSE {})
DiscardPreview(untracked) ==
  /\ Begins
  /\ preview' = [head |-> head, names |-> Selection(untracked), shown |-> Doomed(untracked)]
  /\ UNCHANGED <<tree, edits, verb>>

\* With it: the hash is computed again, and refused when it differs.
DiscardConfirmed(untracked) ==
  /\ Begins /\ preview # None
  /\ IF preview.head = head /\ preview.names = Selection(untracked)
       THEN verb' = [at |-> "discard", tracked |-> Dirty,
                     untracked |-> IF untracked THEN {NameOf(f) : f \in Untracked} ELSE {}]
       ELSE UNCHANGED verb
  /\ UNCHANGED <<tree, edits, preview>>

\* Files of HEAD are restored whole, and files that are not are unstaged; the
\* call ends when either command fails, the first perhaps half way.
DiscardRestores ==
  /\ verb.at = "discard"
  /\ \/ /\ work' = AsInHead(verb.tracked \cap InHead)
        /\ staged' = staged \ verb.tracked
        /\ verb' = [verb EXCEPT !.at = "clean"]
     \/ /\ \E fs \in SUBSET (verb.tracked \cap InHead) : work' = AsInHead(fs)
        /\ UNCHANGED staged /\ Ends
  /\ UNCHANGED <<head, base, merge, unmerged, stash, edits, calls, preview>>

\* git clean deletes what is untracked by now under the names, or part of it.
DiscardCleans ==
  /\ verb.at = "clean" /\ Ends
  /\ \E fs \in SUBSET (Under(verb.untracked) \cap Untracked) :
       work' = [f \in File |-> IF f \in fs THEN 0 ELSE work[f]]
  /\ UNCHANGED <<head, base, staged, merge, unmerged, stash, edits, calls, preview>>
-----------------------------------------------------------------------------
(* pull and stash *)

\* git merge or rebase FETCH_HEAD, or git stash pop, fails: refused, and nothing
\* changed, because of a dirty file, a merge that is not concluded or a lock; or
\* stopped on a conflict; or stopped without one, by a hook, by the time limit
\* or at a step of the rebase.  The error is the same.  A merge that is no fast
\* forward is refused while the index differs from HEAD; a pop is not.
Stops(kind) ==
  /\ verb' = [verb EXCEPT !.at = kind]
  /\ \/ UNCHANGED <<merge, unmerged>>
     \/ /\ merge = None /\ (kind = "pull" => staged = {})
        /\ merge' = kind /\ unmerged' \in BOOLEAN

Pull ==
  /\ Begins
  /\ \/ merge = None /\ head' = head + 1 /\ UNCHANGED <<merge, unmerged, verb>>
     \/ Stops("pull") /\ UNCHANGED head
  /\ UNCHANGED <<base, work, staged, stash, edits, preview>>

Pop ==
  /\ Begins /\ stash # None
  /\ \/ /\ merge = None /\ \A f \in DOMAIN stash : work[f] = base[f]
        /\ stash' = None
        /\ work' = [f \in File |-> IF f \in DOMAIN stash THEN stash[f] ELSE work[f]]
        /\ staged' = staged \cup {f \in DOMAIN stash : base[f] = 0}
        /\ UNCHANGED <<merge, unmerged, verb>>
     \/ Stops("pop") /\ UNCHANGED <<stash, work, staged>>
  /\ UNCHANGED <<head, base, edits, preview>>

\* A conflict that the call did not see, or could not abort, stays.
StaysBehind == merge' = IF merge \in {"pull", "pop"} THEN "left" ELSE merge

\* mutant: the conflicts of a pop are reported and not undone
BugPopNotUndone ==
  /\ verb.at \in {"pull", "pop"}
  /\ verb' = IF unmerged /\ verb.at = "pull" THEN [verb EXCEPT !.at = "abort"] ELSE Idle
  /\ UNCHANGED <<tree, edits, calls, preview>>

\* unmergedFiles: git diff, whose failure means no files.  Any, whoever's they
\* are, mean a conflict of this call; none, and the error is thrown again.
Undo == IF verb.at = "pull" THEN "abort" ELSE "reset"
LooksForConflicts ==
  /\ verb.at \in {"pull", "pop"}
  /\ \/ /\ verb' = IF unmerged THEN [verb EXCEPT !.at = Undo] ELSE Idle
        /\ UNCHANGED merge
     \/ unmerged /\ StaysBehind /\ Ends
  /\ UNCHANGED <<head, base, work, staged, unmerged, stash, edits, calls, preview>>

\* merge or rebase --abort, or reset --merge, whose failure is swallowed.  Either
\* takes what is staged back to HEAD: a file that HEAD does not have is deleted.
Aborts ==
  /\ verb.at \in {"abort", "reset"} /\ Ends
  /\ \/ /\ merge # None /\ merge' = None /\ unmerged' = FALSE
        /\ work' = AsInHead(staged) /\ staged' = {}
     \/ StaysBehind /\ UNCHANGED <<unmerged, work, staged>>
  /\ UNCHANGED <<head, base, stash, edits, calls, preview>>

Stash ==
  /\ Begins /\ merge = None /\ stash = None /\ Dirty # {}
  /\ stash' = [f \in Dirty |-> work[f]] /\ work' = AsInHead(Dirty) /\ staged' = {}
  /\ UNCHANGED <<head, base, merge, unmerged, edits, preview, verb>>
-----------------------------------------------------------------------------
(* commit *)

\* git add -A also marks the conflicts of a merge as resolved.
CommitAdds(all) ==
  /\ Begins
  /\ staged' = IF all THEN staged \cup Untracked ELSE staged
  /\ unmerged' = (unmerged /\ ~all)
  /\ verb' = [verb EXCEPT !.at = IF all THEN "commit all" ELSE "commit"]
  /\ UNCHANGED <<head, base, work, merge, stash, edits, preview>>

\* git commit is refused while files are unmerged, and concludes a merge.
CommitRuns ==
  /\ verb.at \in {"commit", "commit all"} /\ Ends
  /\ \/ UNCHANGED <<head, base, staged, merge>>
     \/ /\ ~unmerged /\ merge' = None
        /\ Commits(IF verb.at = "commit all" THEN Tracked ELSE staged)
  /\ UNCHANGED <<work, unmerged, stash, edits, calls, preview>>

Next ==
  \/ \E f \in File : AgentEdits(f) \/ AgentAdds(f)
  \/ AgentCommits \/ AgentMerges \/ AgentResolves
  \/ \E u \in BOOLEAN : DiscardPreview(u) \/ DiscardConfirmed(u) \/ CommitAdds(u)
  \/ DiscardRestores \/ DiscardCleans \/ Pull \/ Pop \/ LooksForConflicts \/ Aborts
  \/ Stash \/ CommitRuns

Spec == Init /\ [][Next]_vars
-----------------------------------------------------------------------------
(* Properties *)

\* A discard touches no file that the preview it confirms did not name, between
\* any two of its commands, but untracked ones in a directory it named: what the
\* agent has made dirty, staged or committed since is not lost.
DiscardsOnlyNamed ==
  [][verb.at \in {"discard", "clean"} /\ verb' # verb =>
       \A f \in File : work'[f] # work[f] =>
         f \in preview.names \/ (f \in Under(preview.names) /\ f \in Untracked)]_vars

\* "the hash binds HEAD + the exact file set": what a confirmed discard is about
\* to lose is what the preview stood for.
ConfirmBindsFiles ==
  [][verb'.at = "discard" /\ verb.at # "discard" =>
       Dirty \cup (Under(verb'.untracked) \cap Untracked) \subseteq preview.shown]_vars

\* A conflict of a broker's merge is gone when the call is over, unless the call
\* failed to see it or to abort it.
NoConflictLeft ==
  [][verb' = Idle /\ merge' \in {"pull", "pop"} => ~unmerged']_vars
=============================================================================
