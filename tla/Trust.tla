------------------------------- MODULE Trust -------------------------------
(***************************************************************************)
(* The broker-owned config file of one agent kind                          *)
(* (src/prepare-workspace.ts) and the two times a spawn writes it          *)
(* (src/workspace-ops.ts): the static answers before its pane exists, the  *)
(* trust of its directory once that is known.  The CLIs the spawns start   *)
(* read and write the same file, and none of them takes a lock.            *)
(***************************************************************************)
EXTENDS Naturals, FiniteSets

CONSTANTS Cwd,        \* directories agents are spawned into
          Agents,     \* spawns, and the CLIs they start
          MaxTears,   \* bound: how often a write is cut short, or refused
          None

VARIABLES cfg,      \* the file: what a JSON reader finds in it
          step,     \* where each spawn stands
          held,     \* what each running CLI last read of the file
          dialog,   \* the spawns whose CLI asked whether its directory is trusted
          undone,   \* directories a CLI's write took the trust of
          tears     \* how many writes were cut short or refused
vars == <<cfg, step, held, dialog, undone, tears>>

(* flags: the static answers; own: agents whose CLI keeps state in it;     *)
(* trusted: its per-directory entries; lead: a line comment over it        *)
Absent == [form |-> "absent", flags |-> FALSE, own |-> {}, trusted |-> {}, lead |-> FALSE]
Torn   == [Absent EXCEPT !.form = "torn"]

TypeOK ==
    /\ cfg \in [form : {"absent", "torn", "ok"}, flags : BOOLEAN, own : SUBSET Agents,
                trusted : SUBSET Cwd, lead : BOOLEAN]
    /\ DOMAIN step = Agents /\ DOMAIN held = Agents
    /\ dialog \subseteq Agents /\ undone \subseteq Cwd /\ tears \in 0..MaxTears

Init ==
    /\ cfg = Absent
    /\ step = [s \in Agents |-> [at |-> "idle", dir |-> None, env |-> TRUE, fails |-> FALSE]]
    /\ held = [s \in Agents |-> None]
    /\ dialog = {} /\ undone = {} /\ tears = 0

-----------------------------------------------------------------------------
(* The broker's edits: read, merge, write, in one go of its event loop *)

(* whole lines that open with a comment are skipped, so a commented file   *)
(* reads; a torn one counts as empty and is replaced                       *)
Readable(f) == f.form = "ok"
Read(f) == IF Readable(f) THEN f ELSE Absent
Edited(f, flags, dirs) ==
    LET was == Read(f)
    IN [form |-> "ok", flags |-> was.flags \/ flags, own |-> was.own,
        trusted |-> was.trusted \union dirs, lead |-> FALSE]

Reach(s, place) == step' = [step EXCEPT ![s].at = place]
Refused == tears < MaxTears /\ tears' = tears + 1

(* a directory that cannot be written must not fail the spawn: it goes on  *)
(* without the CLI's own directory, and the CLI asks as it always did      *)
Prepares(s) ==
    /\ step[s].at = "idle"
    /\ \/ /\ cfg' = Edited(cfg, TRUE, {})
          /\ Reach(s, "prepared")
          /\ UNCHANGED tears
       \/ /\ Refused
          /\ step' = [step EXCEPT ![s].at = "prepared", ![s].env = FALSE]
          /\ UNCHANGED cfg
    /\ UNCHANGED <<held, dialog, undone>>

(* the directory is known when the pane is made: a worktree's path is new *)
Trusts(s) ==
    /\ step[s].at = "prepared"
    /\ \E d \in Cwd :
         \/ /\ cfg' = Edited(cfg, FALSE, {d})
            /\ step' = [step EXCEPT ![s].at = "placed", ![s].dir = d]
            /\ undone' = undone \ {d}
            /\ UNCHANGED tears
         \/ /\ Refused
            /\ step' = [step EXCEPT ![s].at = "placed", ![s].dir = d, ![s].fails = TRUE]
            /\ UNCHANGED <<cfg, undone>>
    /\ UNCHANGED <<held, dialog>>

(* no pane, or no agent in it in the end: the entries stay *)
GivesUp(s) ==
    /\ step[s].at \in {"prepared", "placed"}
    /\ Reach(s, "over")
    /\ UNCHANGED <<cfg, held, dialog, undone, tears>>

-----------------------------------------------------------------------------
(* The CLI (not in src/): it reads the file when it starts, asks about a   *)
(* directory the file does not name, and writes its own copy back          *)

Known(s, f) == step[s].dir \in f.trusted /\ f.flags

CliReads(s) ==
    /\ step[s].at = "placed" /\ step[s].env
    /\ held' = [held EXCEPT ![s] = Read(cfg)]
    /\ dialog' = IF Known(s, Read(cfg)) THEN dialog ELSE dialog \union {s}
    /\ Reach(s, "runs")
    /\ UNCHANGED <<cfg, undone, tears>>

(* started without the directory it uses the user's own *)
Elsewhere(s) ==
    /\ step[s].at = "placed" /\ ~step[s].env
    /\ dialog' \in {dialog, dialog \union {s}}
    /\ Reach(s, "over")
    /\ UNCHANGED <<cfg, held, undone, tears>>

CliWrites(s) ==
    /\ step[s].at = "runs"
    /\ \E comment \in BOOLEAN, fresh \in BOOLEAN :
         LET base == IF fresh THEN Read(cfg) ELSE held[s]
         IN cfg' = [base EXCEPT !.form = "ok", !.own = @ \union {s}, !.lead = comment]
    /\ held' = [held EXCEPT ![s] = cfg']
    /\ undone' = undone \union (cfg.trusted \ cfg'.trusted)
    /\ UNCHANGED <<step, dialog, tears>>

CliTears(s) ==
    /\ step[s].at = "runs" /\ Refused
    /\ cfg' = Torn
    /\ undone' = undone \union cfg.trusted
    /\ UNCHANGED <<step, held, dialog>>

CliEnds(s) ==
    /\ step[s].at = "runs" /\ Reach(s, "over")
    /\ UNCHANGED <<cfg, held, dialog, undone, tears>>

Next == \E s \in Agents : \/ Prepares(s) \/ Trusts(s) \/ GivesUp(s)
                          \/ CliReads(s) \/ Elsewhere(s) \/ CliWrites(s) \/ CliTears(s) \/ CliEnds(s)
Spec == Init /\ [][Next]_vars

-----------------------------------------------------------------------------
(* A spawned CLI never stops at the question of a directory: unless the    *)
(* broker could not write the file, or a CLI that ran meanwhile put an     *)
(* older copy of it back (workspace-ops.ts:833-851, "every mode-C spawn    *)
(* meets the dialog on a directory no prior spawn can have trusted").      *)
NobodyIsAsked ==
    [][\A s \in dialog' \ dialog :
          step[s].fails \/ ~step[s].env \/ step[s].dir \in undone \/ ~cfg.flags]_vars

(* A write of the broker takes nothing from a file it can read: not the    *)
(* CLIs' own state, not the trust earlier spawns added                     *)
(* (prepare-workspace.ts:38-54, "MERGE, never overwrite").                 *)
NothingClobbered ==
    [][(\E s \in Agents : step[s].at \in {"idle", "prepared"} /\ step'[s].at # step[s].at)
          => cfg.own \subseteq cfg'.own /\ cfg.trusted \subseteq cfg'.trusted
             /\ (cfg.flags => cfg'.flags)]_vars
=============================================================================
