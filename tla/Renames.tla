------------------------------- MODULE Renames --------------------------------
(***************************************************************************)
(* An agent that plans a chunk may rename it.  When its turn completes the *)
(* scheduler sees the new name in the worktree and renames in order the    *)
(* branch, the directory under .ve/chunks, the row of the work unit, what  *)
(* other rows say of it, and the key of its running task.                  *)
(*                                                                         *)
(* No step of the propagation but the last awaits anything, so that        *)
(* nothing of the daemon runs between two of them; the daemon may be       *)
(* killed there. A unit here plans, works once more under the name it has  *)
(* then, and is DONE. Names are numbers: their order is the alphabet's.    *)
(***************************************************************************)
EXTENDS Integers, FiniteSets, Functions, FiniteSetsExt

CONSTANTS
  UnitNames,      \* the names chunks may have
  Goals,          \* those of the chunks of the repository
  MaxInjections,  \* bound on injections
  MaxRenames,     \* bound on renames by agents
  MaxKills        \* bound on kills of the daemon

ASSUME RenameBounds ==
  /\ UnitNames \subseteq Nat /\ Goals \subseteq UnitNames
  /\ {MaxInjections, MaxRenames, MaxKills} \subseteq Nat

VARIABLES
  rows,      \* name -> [id, status, planning, blockers, verdicts, baseline, home]
  pairs,     \* conflict_analyses: a set of <<chunk_a, chunk_b>>
  goals,     \* the chunks of the base branch that may be injected
  branches,  \* the names n of which orch/<n> exists
  folders,   \* name -> the worktree in .ve/chunks/<name>, NoTree when only its logs are left
  tasks,     \* the coroutines that run units: [id, chunk, unit,
             \* at, verdicts (of its copy of the row), new]
  keys,      \* _running_agents: name -> id
  count,     \* the bounded counters
  past       \* history: ids by what happened to them
renameVars == <<rows, pairs, goals, branches, folders, tasks, keys, count, past>>

NoTree == [owner |-> 0, chunks |-> {}, current |-> {}]
NoName == -1

Without(f, n) == Restrict(f, DOMAIN f \ {n})
With(f, n, v) == [m \in DOMAIN f \union {n} |-> IF m = n THEN v ELSE f[m]]
Moved(f, old, new) == With(Without(f, old), new, f[old])

\* A set of names after the renaming.
Subst(S, old, new) == IF old \in S THEN (S \ {old}) \union {new} ELSE S

WorktreeExists(n) == n \in DOMAIN folders /\ folders[n] # NoTree

RenameInit ==
  /\ rows = <<>> /\ pairs = {} /\ goals = Goals /\ branches = {} /\ folders = <<>>
  /\ tasks = {} /\ keys = <<>>
  /\ count = [injections |-> 0, renames |-> 0, kills |-> 0]
  /\ past = [unclear |-> {}, torn |-> {}, cut |-> {}, lost |-> {}, robbed |-> {},
             overtaken |-> {}, refused |-> {}]

Bump(k, limit) == count[k] < limit /\ count' = [count EXCEPT ![k] = @ + 1]

-----------------------------------------------------------------------------
(* Injection and dispatch. *)

\* The steps of a propagation during which no other coroutine runs.
Propagating == {"branch", "folder", "row", "home", "blockers", "verdicts", "analyses"}
Busy == \E t \in tasks : t.at \in Propagating

\* A goal that an agent renamed has its old name on the base branch until the merge, so
\* that it can be injected again.
Inject(n, waits) ==
  /\ ~Busy /\ n \in goals \ DOMAIN rows
  /\ Bump("injections", MaxInjections)
  /\ waits \subseteq {m \in DOMAIN rows : rows[m].status # "DONE"}
  /\ rows' = With(rows, n,
       [id |-> count'.injections, status |-> IF waits = {} THEN "READY" ELSE "BLOCKED",
        planning |-> TRUE, blockers |-> waits, verdicts |-> {}, baseline |-> {}, home |-> NoName])
  /\ UNCHANGED <<pairs, goals, branches, folders, tasks, keys, past>>

\* The oracle's answer about two units, kept in both rows and in the table.
Judge(n, m) ==
  /\ ~Busy /\ {n, m} \subseteq DOMAIN rows /\ n < m
  /\ rows[n].status = "READY" /\ rows[m].status \in {"READY", "RUNNING"}
  /\ <<n, m>> \notin pairs
  /\ rows' = [rows EXCEPT ![n].verdicts = @ \union {m}, ![m].verdicts = @ \union {n}]
  /\ pairs' = pairs \union {<<n, m>>}
  /\ UNCHANGED <<goals, branches, folders, tasks, keys, count, past>>

\* The keys of other tasks that t takes away: the history of what happened to ids.
Robbed(t, names) ==
  [past EXCEPT !.robbed = @ \union ({keys[n] : n \in names \intersect DOMAIN keys} \ {t.id})]

\* A tick forgets the tasks that are over.
LiveKeys == Restrict(keys, {k \in DOMAIN keys : \E t \in tasks : t.id = keys[k]})

\* The worktree that create_worktree finds, or adds on the branch.
Tree(n) == IF WorktreeExists(n) THEN folders[n]
           ELSE [owner |-> rows[n].id, chunks |-> goals, current |-> {}]
BranchesWith(n) == IF WorktreeExists(n) THEN branches ELSE branches \union {n}

Ready(n) == n \in DOMAIN rows /\ rows[n].status = "READY" /\ n \notin DOMAIN LiveKeys

\* The unit runs: its task holds a copy of the row.
Run(n, baseline) ==
  /\ rows' = [rows EXCEPT ![n] = [rows[n] EXCEPT !.status = "RUNNING", !.home = n,
                                              !.blockers = {}, !.baseline = baseline]]
  /\ tasks' = tasks \union {[id |-> rows[n].id, chunk |-> n, unit |-> n, at |-> "agent",
                             verdicts |-> rows[n].verdicts, new |-> NoName]}
  /\ keys' = With(LiveKeys, n, rows[n].id)
  /\ UNCHANGED <<pairs, goals, count, past>>

\* A planning unit's chunk is made IMPLEMENTING, and what is so is the baseline. (What
\* activation displaces is modelled in Workspace: here a worktree has one such chunk.)
DispatchPlan(n) ==
  LET current == Tree(n).current \union {n}
  IN  /\ ~Busy /\ Ready(n) /\ rows[n].planning
      /\ n \in Tree(n).chunks
      /\ folders' = With(folders, n, [Tree(n) EXCEPT !.current = current])
      /\ branches' = BranchesWith(n)
      /\ Run(n, current)

\* No chunk of that name is in the worktree: it is removed, with what it holds, and the
\* branch is kept.
ActivationFails(n) ==
  /\ ~Busy /\ Ready(n) /\ rows[n].planning
  /\ n \notin Tree(n).chunks
  /\ folders' = With(folders, n, NoTree)
  /\ branches' = BranchesWith(n)
  /\ rows' = [rows EXCEPT ![n].status = "NEEDS_ATTENTION"]
  /\ past' = IF Tree(n).current = {} THEN past ELSE [past EXCEPT !.lost = @ \union {Tree(n).owner}]
  /\ keys' = LiveKeys
  /\ UNCHANGED <<pairs, goals, tasks, count>>

\* Later phases expect the chunk under the name of the unit.
DispatchLater(n) ==
  /\ ~Busy /\ Ready(n) /\ ~rows[n].planning
  /\ folders' = With(folders, n, Tree(n))
  /\ branches' = BranchesWith(n)
  /\ Run(n, rows[n].baseline)

-----------------------------------------------------------------------------
(* The agent's turn, and how it ends. *)

Goto(t, place) == tasks' = (tasks \ {t}) \union {[t EXCEPT !.at = place]}

\* A planner may rename its chunk, split it, or drop it.
AgentRenames(t, names) ==
  LET tree == folders[t.unit]
      Replaced(S) == (S \ {t.unit}) \union names
  IN  /\ t.at = "agent" /\ rows[t.unit].planning
      /\ t.unit \in tree.current
      /\ names \intersect tree.chunks = {}
      /\ Bump("renames", MaxRenames)
      /\ folders' = With(folders, t.unit,
           [tree EXCEPT !.chunks = Replaced(tree.chunks), !.current = Replaced(tree.current)])
      /\ UNCHANGED <<rows, pairs, goals, branches, tasks, keys, past>>

Renamed(t) == rows[t.unit].planning /\ t.unit \notin folders[t.unit].current

\* The turn fails or asks: the copy of the row is written back with its verdicts.
AgentStops(t) ==
  /\ t.at = "agent" /\ ~Busy
  /\ rows' = [rows EXCEPT ![t.unit] = [rows[t.unit] EXCEPT !.status = "NEEDS_ATTENTION",
                                                        !.verdicts = t.verdicts]]
  /\ past' = IF Renamed(t) THEN [past EXCEPT !.cut = @ \union {t.id}] ELSE past
  /\ Goto(t, "exit")
  /\ UNCHANGED <<pairs, goals, branches, folders, keys, count>>

\* The operator has the unit tried again.
RetryUnit(n) ==
  /\ ~Busy
  /\ n \in DOMAIN rows /\ rows[n].status = "NEEDS_ATTENTION"
  /\ rows' = [rows EXCEPT ![n].status = "READY"]
  /\ UNCHANGED <<pairs, goals, branches, folders, tasks, keys, count, past>>

NewChunks(n) == folders[n].current \ rows[n].baseline

\* The one new current chunk of a worktree that has lost the unit's own.
DetectRename(n) ==
  IF /\ rows[n].planning /\ rows[n].baseline # {}
     /\ n \notin folders[n].current
     /\ Cardinality(NewChunks(n)) = 1
  THEN NewChunks(n) ELSE {}

\* No new chunk, or several, was to be an error; but the baseline always has the unit's
\* chunk, and the phase is advanced under the name that is gone.
Completes(t) ==
  /\ t.at = "agent" /\ ~Busy
  /\ \/ \E new \in DetectRename(t.unit) :
            /\ tasks' = (tasks \ {t}) \union {[t EXCEPT !.at = "branch", !.new = new]}
            /\ UNCHANGED past
     \/ /\ DetectRename(t.unit) = {}
        /\ Goto(t, "advance")
        /\ past' = IF Renamed(t) THEN [past EXCEPT !.unclear = @ \union {t.id}] ELSE past
  /\ UNCHANGED <<rows, pairs, goals, branches, folders, keys, count>>

-----------------------------------------------------------------------------
(* The propagation, step by step, and its rollback. *)

\* An error before the row is renamed: what was renamed gets its old name back, and the
\* unit goes to the operator.
Fails(t) ==
  /\ rows' = [rows EXCEPT ![t.unit] = [rows[t.unit] EXCEPT !.status = "NEEDS_ATTENTION",
                                                        !.verdicts = t.verdicts]]
  /\ past' = [past EXCEPT !.refused = @ \union {t.id}]
  /\ Goto(t, "failed")

RenameBranch(t) ==
  /\ t.at = "branch"
  /\ IF t.unit \in branches /\ t.new \notin branches
     THEN /\ branches' = (branches \ {t.unit}) \union {t.new}
          /\ Goto(t, "folder")
          /\ UNCHANGED <<rows, past>>
     ELSE Fails(t) /\ UNCHANGED branches
  /\ UNCHANGED <<pairs, goals, folders, keys, count>>

\* Mutant: the branch keeps its new name when the directory cannot be renamed.
RenameChunkDirectoryNoRollback(t) ==
  /\ t.at = "folder"
  /\ IF t.unit \in DOMAIN folders /\ t.new \notin DOMAIN folders
     THEN /\ folders' = Moved(folders, t.unit, t.new)
          /\ Goto(t, "row")
          /\ UNCHANGED <<rows, branches, past>>
     ELSE Fails(t) /\ UNCHANGED <<branches, folders>>
  /\ UNCHANGED <<pairs, goals, keys, count>>

RenameChunkDirectory(t) ==
  /\ t.at = "folder"
  /\ IF t.unit \in DOMAIN folders /\ t.new \notin DOMAIN folders
     THEN /\ folders' = Moved(folders, t.unit, t.new)
          /\ Goto(t, "row")
          /\ UNCHANGED <<rows, branches, past>>
     ELSE /\ Fails(t)
          /\ branches' = (branches \ {t.new}) \union {t.unit}
          /\ UNCHANGED folders
  /\ UNCHANGED <<pairs, goals, keys, count>>

RenameRow(t) ==
  /\ t.at = "row"
  /\ IF t.new \notin DOMAIN rows
     THEN /\ rows' = Moved(rows, t.unit, t.new)
          /\ tasks' = (tasks \ {t}) \union {[t EXCEPT !.at = "home", !.unit = t.new, !.new = t.unit]}
          /\ UNCHANGED <<branches, folders, past>>
     ELSE /\ Fails(t)
          /\ folders' = Moved(folders, t.new, t.unit)
          /\ branches' = (branches \ {t.new}) \union {t.unit}
  /\ UNCHANGED <<pairs, goals, keys, count>>

\* From here on `new' of the task is the name the unit had. A second write gives the row
\* its new worktree and baseline; then come the rows that name it.
RenameHome(t) ==
  /\ t.at = "home"
  /\ rows' = [rows EXCEPT ![t.unit] =
       [rows[t.unit] EXCEPT !.home = t.unit,
                            !.baseline = Subst(rows[t.unit].baseline, t.new, t.unit)]]
  /\ Goto(t, "blockers")
  /\ UNCHANGED <<pairs, goals, branches, folders, keys, count, past>>

UpdateBlockedBy(t) ==
  /\ t.at = "blockers"
  /\ rows' = [n \in DOMAIN rows |-> [rows[n] EXCEPT !.blockers = Subst(@, t.new, t.unit)]]
  /\ Goto(t, "verdicts")
  /\ UNCHANGED <<pairs, goals, branches, folders, keys, count, past>>

\* Tasks that hold a copy of a row are not told.
UpdateVerdicts(t) ==
  /\ t.at = "verdicts"
  /\ rows' = [n \in DOMAIN rows |-> [rows[n] EXCEPT !.verdicts = Subst(@, t.new, t.unit)]]
  /\ past' = [past EXCEPT !.overtaken = @ \union {u.id : u \in {v \in tasks : t.new \in v.verdicts}}]
  /\ Goto(t, "analyses")
  /\ UNCHANGED <<pairs, goals, branches, folders, keys, count>>

\* Each column is updated in place: a pair may come out of its order.
UpdateAnalyses(t) ==
  /\ t.at = "analyses"
  /\ pairs' = {<<IF p[1] = t.new THEN t.unit ELSE p[1], IF p[2] = t.new THEN t.unit ELSE p[2]>> : p \in pairs}
  /\ Goto(t, "key")
  /\ UNCHANGED <<rows, goals, branches, folders, keys, count, past>>

\* The lock and the broadcast are awaited.
RenameKey(t) ==
  /\ t.at = "key" /\ ~Busy
  /\ IF t.new \in DOMAIN keys
     THEN keys' = Moved(keys, t.new, t.unit) /\ past' = Robbed(t, {t.new, t.unit})
     ELSE UNCHANGED <<keys, past>>
  /\ Goto(t, "advance")
  /\ UNCHANGED <<rows, pairs, goals, branches, folders, count>>

-----------------------------------------------------------------------------
(* The end of a phase, of a task, and of the daemon. *)

\* On to the later phase; what is known of the chunk's conflicts is forgotten.
Advance(t) ==
  /\ t.at = "advance" /\ ~Busy /\ rows[t.unit].planning
  /\ rows' = [rows EXCEPT ![t.unit] = [rows[t.unit] EXCEPT !.status = "READY",
                                        !.planning = FALSE, !.verdicts = {}]]
  /\ pairs' = {p \in pairs : t.unit \notin {p[1], p[2]}}
  /\ Goto(t, "exit")
  /\ UNCHANGED <<goals, branches, folders, keys, count, past>>

\* A row that waited for the unit `done', which no longer does.
Released(row, done) ==
  LET left == row.blockers \ {done}
      free == done \in row.blockers /\ left = {} /\ row.status \in {"BLOCKED", "NEEDS_ATTENTION"}
  IN  [row EXCEPT !.blockers = left, !.status = IF free THEN "READY" ELSE row.status]

\* A DONE unit's chunk is merged under its new name, and its dependents are released.
Finish(t) ==
  /\ t.at = "advance" /\ ~Busy /\ ~rows[t.unit].planning
  /\ rows' = [n \in DOMAIN rows |->
       IF n = t.unit THEN [rows[n] EXCEPT !.status = "DONE", !.verdicts = t.verdicts]
       ELSE Released(rows[n], t.unit)]
  /\ goals' = goals \intersect (folders[t.unit].chunks \ folders[t.unit].current)
  /\ folders' = [folders EXCEPT ![t.unit] = NoTree]
  /\ branches' = branches \ {t.unit}
  /\ Goto(t, "exit")
  /\ UNCHANGED <<pairs, keys, count, past>>

\* The task removes the key it was started under, whoever has it by now.
Exit(t) ==
  /\ t.at \in {"exit", "failed"} /\ ~Busy
  /\ past' = Robbed(t, {t.chunk})
  /\ keys' = Without(keys, t.chunk)
  /\ tasks' = tasks \ {t}
  /\ UNCHANGED <<rows, pairs, goals, branches, folders, count>>

\* Killed, and started again: rows that were RUNNING are READY.
KillAndRestart ==
  /\ tasks # {}
  /\ Bump("kills", MaxKills)
  /\ rows' = [n \in DOMAIN rows |->
       IF rows[n].status # "RUNNING" THEN rows[n]
       ELSE [rows[n] EXCEPT !.status = "READY",
                            !.home = IF WorktreeExists(n) THEN rows[n].home ELSE NoName]]
  /\ past' = [past EXCEPT
       !.torn = @ \union {t.id : t \in {u \in tasks : u.at \in Propagating \ {"branch"}}},
       !.cut = @ \union {t.id : t \in {u \in tasks : u.at \in {"agent", "branch", "advance"} /\ Renamed(u)}}]
  /\ tasks' = {} /\ keys' = <<>>
  /\ UNCHANGED <<pairs, goals, branches, folders>>

Propagate(t) ==
  \/ RenameBranch(t) \/ RenameChunkDirectory(t) \/ RenameRow(t) \/ RenameHome(t)
  \/ UpdateBlockedBy(t) \/ UpdateVerdicts(t) \/ UpdateAnalyses(t) \/ RenameKey(t)

RenameNext ==
  \/ \E n \in UnitNames :
       \/ \E waits \in SUBSET DOMAIN rows : Inject(n, waits)
       \/ \E m \in UnitNames : Judge(n, m)
       \/ DispatchPlan(n) \/ ActivationFails(n) \/ DispatchLater(n) \/ RetryUnit(n)
  \/ \E t \in tasks :
       \/ \E names \in SUBSET UnitNames : Cardinality(names) <= 2 /\ AgentRenames(t, names)
       \/ AgentStops(t) \/ Completes(t) \/ Propagate(t)
       \/ Advance(t) \/ Finish(t) \/ Exit(t)
  \/ KillAndRestart

RenameSpec == RenameInit /\ [][RenameNext]_renameVars

-----------------------------------------------------------------------------
(* Properties. *)

\* A unit that runs has its branch, its worktree and its row under one name, that of its
\* task; and no other unit's, but for a worktree that a kill in a propagation left under a
\* name that another chunk has.
NamesAgree ==
  \A t \in tasks : t.at \in {"agent", "key", "advance"} =>
    /\ t.unit \in DOMAIN rows /\ rows[t.unit].id = t.id
    /\ rows[t.unit].status = "RUNNING" /\ rows[t.unit].home = t.unit
    /\ t.unit \in branches
    /\ WorktreeExists(t.unit) /\ folders[t.unit].owner \in {t.id} \union past.torn

\* A propagation that fails leaves everything under the old name.
FailedIsUndone ==
  \A t \in tasks : t.at = "failed" /\ t.id \notin past.robbed =>
    /\ rows[t.unit].id = t.id
    /\ t.unit \in branches
    /\ WorktreeExists(t.unit) /\ folders[t.unit].owner \in {t.id} \union past.torn

\* What waits for a unit, or was judged against it, follows its new name: but for a kill
\* in the middle, and a task that writes back the row it had before.
ReferencesFollow ==
  past.torn = {} => \A n \in DOMAIN rows :
    /\ ~Busy => rows[n].blockers \subseteq DOMAIN rows
    /\ ~Busy /\ rows[n].id \notin past.overtaken => rows[n].verdicts \subseteq DOMAIN rows

\* A unit leaves planning under a name that its worktree has, unless the agent left no
\* current chunk, or several.
LaterPhaseHasChunk ==
  \A n \in DOMAIN rows :
    ~rows[n].planning /\ rows[n].status # "DONE" /\ rows[n].id \notin past.unclear =>
      WorktreeExists(n) /\ n \in folders[n].current

\* What an agent wrote is deleted only when its turn ended early after a rename, or the
\* rename was refused, and the unit was tried again.
PlansKept == past.lost \subseteq past.cut \union past.torn \union past.refused

RenameInv == NamesAgree /\ FailedIsUndone /\ ReferencesFollow /\ LaterPhaseHasChunk /\ PlansKept
=============================================================================
