------------------------------ MODULE Workspace ------------------------------
(***************************************************************************)
(* The workflow artifacts of one project (chunks, narratives, subsystems,  *)
(* investigations): directories under docs/ whose main file holds a status *)
(* and the artifacts it was created after, the index file that caches      *)
(* their order for all four types, the commands that create artifacts and  *)
(* move their status, and the worktree in which the orchestrator makes one *)
(* chunk the current one and lends it back to the operator's branch.       *)
(*                                                                         *)
(* A command is a step, except `create', which may be overtaken between    *)
(* its checks and the writing of the file. The operator commits what the   *)
(* commands write, and stays on the branch the orchestrator merges to.     *)
(***************************************************************************)
EXTENDS Integers, FiniteSets, FiniteSetsExt

CONSTANTS
  ChunkNames, Narratives, Subsystems, Investigations,   \* the names artifacts may get
  MaxArtifacts,  \* bound on the artifacts that exist or are being created
  MaxMoves,      \* bound on status commands
  MaxRemovals,   \* bound on directories removed by hand
  MaxCreators    \* bound on `create' commands at work at once

ASSUME WorkspaceBounds == {MaxArtifacts, MaxMoves, MaxRemovals, MaxCreators} \subseteq Nat

VARIABLES
  doc,       \* artifact -> [status, after]: the main file
  index,     \* .artifact-order.json: type -> [present, dirs, ordered, tips]
  touched,   \* the main files written since the index file was
  creating,  \* `create' commands past their checks: a set of [name, status, after]
  tree,      \* the orchestrator's worktree and the row of its work unit
  spent,     \* the bounded counters
  hidden     \* history: the main files whose change a save of the index for another
             \* type has made invisible
workspaceVars == <<doc, index, touched, creating, tree, spent, hidden>>

Of == [k \in {"chunk", "narrative", "subsystem", "investigation"} |-> CASE k = "chunk" -> ChunkNames [] k = "narrative" -> Narratives
            [] k = "subsystem" -> Subsystems [] OTHER -> Investigations]
Kinds == {k \in DOMAIN Of : Of[k] # {}}
Artifacts == UNION {Of[k] : k \in Kinds}
NoChunk == {"no_chunk"}

\* An artifact is its directory, which lies under the one of its type.
ASSUME NamesApart ==
  /\ \A k, l \in DOMAIN Of : k # l => Of[k] \intersect Of[l] = {}
  /\ IsFiniteSet(Artifacts) /\ NoChunk \notin Artifacts

-----------------------------------------------------------------------------
(* Statuses. *)

ChunkStatuses == {"FUTURE", "IMPLEMENTING", "ACTIVE", "COMPOSITE", "SUPERSEDED", "HISTORICAL"}
ChunkMoves ==
  {<<"FUTURE", "IMPLEMENTING">>, <<"FUTURE", "HISTORICAL">>,
   <<"IMPLEMENTING", "ACTIVE">>, <<"IMPLEMENTING", "COMPOSITE">>, <<"IMPLEMENTING", "HISTORICAL">>,
   <<"ACTIVE", "SUPERSEDED">>, <<"ACTIVE", "COMPOSITE">>, <<"ACTIVE", "HISTORICAL">>,
   <<"COMPOSITE", "ACTIVE">>, <<"COMPOSITE", "HISTORICAL">>, <<"SUPERSEDED", "HISTORICAL">>}
NarrativeMoves == {<<"DRAFTING", "ACTIVE">>, <<"ACTIVE", "COMPLETED">>}
InvestigationMoves == {<<"ONGOING", s>> : s \in {"SOLVED", "NOTED", "DEFERRED"}}
                      \union {<<"DEFERRED", "ONGOING">>}
SubsystemMoves ==
  {<<s, "DEPRECATED">> : s \in {"DISCOVERING", "DOCUMENTED", "REFACTORING", "STABLE"}}
  \union {<<"DISCOVERING", "DOCUMENTED">>, <<"DOCUMENTED", "REFACTORING">>, <<"STABLE", "REFACTORING">>}
  \union {<<"REFACTORING", s>> : s \in {"STABLE", "DOCUMENTED"}}

Moves == [k \in Kinds |-> CASE k = "chunk" -> ChunkMoves [] k = "narrative" -> NarrativeMoves
                           [] k = "subsystem" -> SubsystemMoves [] OTHER -> InvestigationMoves]
ValidTransition(k, old, new) == <<old, new>> \in Moves[k]

\* What an agent may leave its chunk in: what IMPLEMENTING leads to, directly or not.
PostImplementing == ChunkStatuses \ {"FUTURE", "IMPLEMENTING"}

-----------------------------------------------------------------------------
(* The order of the artifacts, and the cache of it. *)

Absent == [status |-> "ABSENT", after |-> {}]
Enumerate(k) == {a \in Of[k] : doc[a].status # "ABSENT"}

\* What is after an artifact in every set that follows the edges.
Reachable(edges) ==
  [a \in DOMAIN edges |->
     {b \in DOMAIN edges : \A S \in SUBSET DOMAIN edges :
        edges[a] \subseteq S /\ (\A c \in S : edges[c] \subseteq S) => b \in S}]

\* What every existing artifact comes after, directly or not, among those that exist.
Ancestors(k) == Reachable([a \in Enumerate(k) |-> doc[a].after \intersect Enumerate(k)])

\* Kahn's algorithm never reaches an artifact on a cycle, or after one.
Ordered(k) ==
  LET above == Ancestors(k)
  IN  {a \in Enumerate(k) : \A b \in {a} \union above[a] : b \notin above[b]}

Eligible(k) ==
  CASE k = "chunk" -> {c \in Enumerate(k) : doc[c].status \in {"ACTIVE", "IMPLEMENTING"}}
    [] k = "narrative" -> {n \in Enumerate(k) : doc[n].status = "ACTIVE"}
    [] OTHER -> Enumerate(k)

\* The eligible artifacts that no eligible one comes after.
Tips(k) == {a \in Ordered(k) \intersect Eligible(k) : \A b \in Eligible(k) : a \notin doc[b].after}

BuildIndex(k) ==
  [present |-> TRUE, dirs |-> Enumerate(k), ordered |-> Ordered(k), tips |-> Tips(k)]
NoIndex == [present |-> FALSE, dirs |-> {}, ordered |-> {}, tips |-> {}]

\* Mutant: only the directories are compared.
StaleByDirs(k) == \/ ~index[k].present
                  \/ index[k].dirs # Enumerate(k)

\* The modification times are compared with that of the one index file.
Stale(k) == \/ ~index[k].present
            \/ index[k].dirs # Enumerate(k)
            \/ touched \intersect Enumerate(k) # {}

\* What a command is served: the cached entry of the type, rebuilt when stale.
Served(k) == IF Stale(k) THEN BuildIndex(k) ELSE index[k]

\* Saving one type's entry renews the file's time for every type; the command may then
\* write main files of its own.
RefreshedThenWrote(k, written) ==
  /\ index' = [index EXCEPT ![k] = Served(k)]
  /\ touched' = written \union (IF Stale(k) THEN {} ELSE touched)
  /\ hidden' = IF Stale(k) THEN (hidden \union touched) \ Of[k] ELSE hidden

\* A list command; that of narratives does not ask the index when there is none.
List(k) ==
  /\ k = "narrative" => Enumerate(k) # {}
  /\ RefreshedThenWrote(k, {})
  /\ UNCHANGED <<doc, creating, tree, spent>>

-----------------------------------------------------------------------------
(* Creating artifacts, and moving their status. *)

Implementing == {c \in Enumerate("chunk") : doc[c].status = "IMPLEMENTING"}

\* The chunk `ve chunk list --current' names is the last of these.
Current == {c \in Implementing : c \in Served("chunk").ordered}

\* The checks: no directory has the name. The tips go into the new file.
StartCreate(k, a, status) ==
  /\ doc[a].status = "ABSENT"
  /\ Cardinality(creating) < MaxCreators
  /\ Cardinality(creating) + Cardinality({b \in Artifacts : doc[b].status # "ABSENT"}) < MaxArtifacts
  /\ creating' = creating \union {[name |-> a, status |-> status, after |-> Served(k).tips]}
  /\ RefreshedThenWrote(k, {})
  /\ UNCHANGED <<doc, tree, spent>>

StartCreateChunk(c, status) ==
  /\ status # "FUTURE" => Current = {}
  /\ StartCreate("chunk", c, status)

\* ve narrative create, ve subsystem discover, ve investigation create.
FirstStatus == [narrative |-> "DRAFTING", subsystem |-> "DISCOVERING", investigation |-> "ONGOING"]
StartCreateParent(k, a) == StartCreate(k, a, FirstStatus[k])

\* A file is there already when two commands create one name: it is left as it is.
Render(w) ==
  /\ creating' = creating \ {w}
  /\ IF doc[w.name].status = "ABSENT"
     THEN /\ doc' = [doc EXCEPT ![w.name] = [status |-> w.status, after |-> w.after]]
          /\ touched' = touched \union {w.name}
     ELSE UNCHANGED <<doc, touched>>
  /\ UNCHANGED <<index, tree, spent, hidden>>

Spend(what) == spent' = [spent EXCEPT ![what] = @ + 1]
SetStatus(a, status) == doc' = [doc EXCEPT ![a].status = status]

\* ve chunk|narrative|subsystem|investigation status: any move of the table.
UpdateStatus(k, a, status) ==
  /\ spent.moves < MaxMoves /\ Spend("moves")
  /\ ValidTransition(k, doc[a].status, status)
  /\ SetStatus(a, status)
  /\ touched' = touched \union {a}
  /\ UNCHANGED <<index, creating, tree, hidden>>

\* ve chunk activate.
Activate(c) ==
  /\ doc[c].status = "FUTURE" /\ Current = {}
  /\ SetStatus(c, "IMPLEMENTING")
  /\ RefreshedThenWrote("chunk", {c})
  /\ UNCHANGED <<creating, tree, spent>>

\* ve chunk complete, of a named chunk: whatever its status.
Complete(c) ==
  /\ spent.moves < MaxMoves /\ Spend("moves")
  /\ c \in Enumerate("chunk")
  /\ SetStatus(c, "ACTIVE")
  /\ touched' = touched \union {c}
  /\ UNCHANGED <<index, creating, tree, hidden>>

\* The operator removes a directory.
Remove(a) ==
  /\ spent.removals < MaxRemovals /\ Spend("removals")
  /\ doc[a].status # "ABSENT"
  /\ doc' = [doc EXCEPT ![a] = Absent]
  /\ touched' = touched \ {a}
  /\ UNCHANGED <<index, creating, tree, hidden>>

-----------------------------------------------------------------------------
(* The orchestrator's worktree for one work unit. *)

NoDocs == [a \in Artifacts |-> Absent]
NoTree == [pc |-> "none", target |-> NoChunk, base |-> NoDocs, copy |-> NoDocs,
           displaced |-> NoChunk, row |-> NoChunk, lost |-> FALSE]

StatusIn(copy, s) == {c \in ChunkNames : copy[c].status = s}

\* create_worktree: the unit's branch starts where the operator's is. A worktree that
\* is there already is spent as it is.
MakeWorktree(c) ==
  /\ tree.pc = "none" /\ c \in Enumerate("chunk")
  /\ tree' = [NoTree EXCEPT !.pc = "created", !.target = c, !.base = doc, !.copy = doc]
  /\ UNCHANGED <<doc, index, touched, creating, spent, hidden>>

\* activate_chunk_in_worktree: the worktree has no index file, so that of the chunks
\* that are IMPLEMENTING there the last in its own order is displaced.
ActivateInWorktree(displaced) ==
  /\ tree.pc = "created"
  /\ LET target == tree.copy[tree.target].status
         others == StatusIn(tree.copy, "IMPLEMENTING")
     IN  \/ /\ target = "IMPLEMENTING" /\ displaced = NoChunk
            /\ tree' = [tree EXCEPT !.pc = "activated"]
         \/ /\ target = "FUTURE"
            /\ IF others = {} THEN displaced = NoChunk ELSE displaced \in others
            /\ tree' = [tree EXCEPT !.pc = "activated", !.displaced = displaced,
                 !.copy = [c \in Artifacts |->
                   IF c = tree.target THEN [@[c] EXCEPT !.status = "IMPLEMENTING"]
                   ELSE IF c = displaced THEN [@[c] EXCEPT !.status = "FUTURE"] ELSE @[c]]]
         \/ /\ target \notin {"IMPLEMENTING", "FUTURE"} /\ displaced = NoChunk
            /\ tree' = NoTree
  /\ UNCHANGED <<doc, index, touched, creating, spent, hidden>>

\* The RUNNING row takes the displaced chunk with it.
RecordRunning ==
  /\ tree.pc = "activated"
  /\ tree' = [tree EXCEPT !.pc = "running",
                !.row = IF tree.displaced = NoChunk THEN @ ELSE tree.displaced]
  /\ UNCHANGED <<doc, index, touched, creating, spent, hidden>>

\* The row changed meanwhile: the worktree is removed, and the dispatch repeated later.
StaleRow ==
  /\ tree.pc = "activated"
  /\ tree' = [tree EXCEPT !.pc = "created", !.copy = tree.base, !.displaced = NoChunk]
  /\ UNCHANGED <<doc, index, touched, creating, spent, hidden>>

\* The daemon dies, in the planning phase: the worktree stays, and what activation wrote.
DaemonDies ==
  /\ tree.pc \in {"activated", "running"}
  /\ tree' = [tree EXCEPT !.pc = "created", !.displaced = NoChunk,
                !.lost = @ \/ (tree.pc = "activated" /\ tree.displaced # NoChunk)]
  /\ UNCHANGED <<doc, index, touched, creating, spent, hidden>>

\* The agent runs its phases, and completes its chunk as it sees fit.
AgentCompletes(status) ==
  /\ tree.pc = "running"
  /\ ValidTransition("chunk", "IMPLEMENTING", status)
  /\ tree' = [tree EXCEPT !.pc = "completed", !.copy[tree.target].status = status]
  /\ UNCHANGED <<doc, index, touched, creating, spent, hidden>>

\* restore_displaced_chunk.
Restored == IF tree.row # NoChunk /\ tree.copy[tree.row].status = "FUTURE"
            THEN [tree.copy EXCEPT ![tree.row].status = "IMPLEMENTING"] ELSE tree.copy

\* The merge goes file by file; a file that changed on both sides conflicts, and the unit
\* is left to the operator.
MergeBack(copy) ==
  /\ tree.pc = "completed"
  /\ tree.copy[tree.target].status \in PostImplementing
  /\ LET changed == {a \in Artifacts : copy[a] # tree.base[a]}
         mergeable == \A a \in changed : doc[a] \in {tree.base[a], copy[a]}
         written == IF mergeable THEN {a \in changed : doc[a] # copy[a]} ELSE {}
     IN  /\ doc' = [a \in Artifacts |-> IF a \in written THEN copy[a] ELSE doc[a]]
         /\ touched' = touched \union written
  /\ tree' = NoTree
  /\ UNCHANGED <<index, creating, spent, hidden>>

\* Mutant: the branch is merged as the agent left it.
FinishUnrestored == MergeBack(tree.copy)

\* A completed unit gives the displaced chunk back and is merged.
Finish == MergeBack(Restored)

-----------------------------------------------------------------------------
WorkspaceInit ==
  /\ doc = NoDocs
  /\ index = [k \in Kinds |-> NoIndex]
  /\ touched = {} /\ creating = {} /\ hidden = {}
  /\ tree = NoTree
  /\ spent = [moves |-> 0, removals |-> 0]

CreateStep ==
  \/ \E c \in ChunkNames, s \in {"FUTURE", "IMPLEMENTING"} : StartCreateChunk(c, s)
  \/ \E k \in Kinds \ {"chunk"} : \E a \in Of[k] : StartCreateParent(k, a)
  \/ \E w \in creating : Render(w)
StatusStep ==
  \/ \E k \in Kinds : \E a \in Of[k] : \E m \in Moves[k] : UpdateStatus(k, a, m[2])
  \/ \E c \in ChunkNames : Activate(c) \/ Complete(c)
UnitStep ==
  \/ \E c \in ChunkNames : MakeWorktree(c)
  \/ \E d \in ChunkNames \union {NoChunk} : ActivateInWorktree(d)
  \/ RecordRunning \/ StaleRow \/ DaemonDies
  \/ \E s \in PostImplementing : AgentCompletes(s)
  \/ Finish
WorkspaceNext ==
  \/ \E k \in Kinds : List(k)
  \/ CreateStep \/ StatusStep \/ UnitStep
  \/ \E a \in Artifacts : Remove(a)
WorkspaceSpec == WorkspaceInit /\ [][WorkspaceNext]_workspaceVars

-----------------------------------------------------------------------------
(* Properties. *)

Statuses == [k \in Kinds |-> {m[1] : m \in Moves[k]} \union {m[2] : m \in Moves[k]}]

\* The types of the files, and what an entry of the index promises of itself: every tip is
\* in the listed order, and only artifacts with a directory are listed.
WorkspaceTypeOK ==
  /\ \A k \in Kinds : \A a \in Of[k] :
       doc[a] = Absent \/ (doc[a].status \in Statuses[k] /\ doc[a].after \subseteq Of[k])
  /\ \A k \in Kinds :
       /\ index[k].tips \subseteq index[k].ordered /\ index[k].ordered \subseteq index[k].dirs
       /\ index[k].dirs \subseteq Of[k]
  /\ touched \subseteq {a \in Artifacts : doc[a].status # "ABSENT"}
  /\ \A w \in creating : \E k \in Kinds : w.name \in Of[k] /\ w.status \in Statuses[k]
  /\ tree.pc \in {"none", "created", "activated", "running", "completed"}
  /\ tree.pc # "none" => tree.target \in ChunkNames
  /\ {tree.displaced, tree.row} \subseteq ChunkNames \union {NoChunk}

\* An artifact created now comes after every eligible one, directly or through others:
\* find_tips leaves none out, unless a directory removed and made again has closed a cycle.
TipsCover ==
  \A k \in Kinds : Enumerate(k) # {} /\ Ordered(k) = Enumerate(k) =>
    \A a \in Eligible(k) : \E t \in Tips(k) : a = t \/ a \in Ancestors(k)[t]

\* What is served without a rebuild is what a rebuild would give, but for the artifacts
\* whose change was hidden by a save of the index for another type.
CacheIsRight ==
  \A k \in Kinds : ~Stale(k) /\ hidden \intersect Of[k] = {} => index[k] = BuildIndex(k)

\* The code promises at most one IMPLEMENTING chunk. A second one appears only by a status
\* command, by a `create' that was overtaken after its check, or beside one that the
\* order does not list; never by `activate', nor by the orchestrator's merge.
SecondOnlyBy ==
  [][ (Implementing # {} /\ Implementing' \ Implementing # {})
      => \/ \E c \in ChunkNames : UpdateStatus("chunk", c, "IMPLEMENTING")
         \/ \E w \in creating : Render(w)
         \/ Implementing \intersect Served("chunk").ordered = {} ]_workspaceVars

\* The merge of a unit changes the status of its own chunk only: a chunk displaced in the
\* worktree is current again afterwards, unless a crash came between displacing it and
\* the write of the row that remembers it.
MergeGivesBack ==
  [][ tree.pc = "completed" /\ tree'.pc = "none" /\ ~tree.lost
      => \A a \in Artifacts \ {tree.target} : doc'[a] = doc[a] ]_workspaceVars

\* The invariant of the module: its types, the tips that new artifacts are put after, and
\* the one cache file of the four types (find_tips, _is_index_stale).
WorkspaceInv == WorkspaceTypeOK /\ TipsCover /\ CacheIsRight

\* The current chunk is nobody's to take: no command but those named makes a second one,
\* and the orchestrator's merge gives a displaced one back.
CurrentChunkKept == SecondOnlyBy /\ MergeGivesBack
=============================================================================
