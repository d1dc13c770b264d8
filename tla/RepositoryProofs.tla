--------------------------- MODULE RepositoryProofs ---------------------------
(***************************************************************************)
(* Proofs about what lasts in the repository: the branches and worktrees   *)
(* of the orchestrator, for any number of chunks, base branches, commits,  *)
(* crashes of the daemon and switches of the operator; its database, the   *)
(* friction logs, the files of a message channel and the artifacts of a    *)
(* project with their index, for any number of processes that share them   *)
(* and of kills.                                                           *)
(***************************************************************************)
EXTENDS MCRepository, SequenceTheorems, FiniteSetTheorems, WellFoundedInduction, TLAPS

-----------------------------------------------------------------------------
(* Branches, worktrees and finalizations. *)

AllCommits == Work \union OpCommits
Dirs == [on : BOOLEAN, dirty : SUBSET Work, saved : Bases \union {NoBase}, at : Bases \union {NoBase}]
Units == [status : {"none", "READY", "RUNNING", "NEEDS_ATTENTION", "DONE"}, complete : BOOLEAN,
          retain : BOOLEAN]
AfterRemove == {"decide", "merge", "native", "write", "delete", "row"}
Jobs == [pc : {"commit", "remove"} \union AfterRemove, chunk : Chunks,
         by : {"scheduler", "prune", "recovery"}, base : Bases, read : SUBSET AllCommits]

GitTypes ==
  /\ refs \in [Bases \union Chunks -> (SUBSET AllCommits) \union {NoBranch}]
  /\ \A b \in Bases : refs[b] # NoBranch
  /\ head \in Bases /\ manager \in Bases
  /\ dir \in [Chunks -> Dirs] /\ unit \in [Chunks -> Units]
  /\ job = NoJob \/ job \in Jobs
  /\ recover \subseteq Chunks /\ deleting \subseteq [chunk : Chunks, force : BOOLEAN]
  /\ work \in [Chunks -> SUBSET Work]

\* What of a worktree, a row and the job in progress fits together for c.
Fits(c) ==
  /\ dir[c].on => Exists(c)
  /\ Exists(c) => dir[c].saved \in Bases
  /\ dir[c].dirty # {} => dir[c].on
  /\ c \in recover => unit[c].status # "none"
  /\ unit[c].status = "DONE" /\ ~unit[c].retain => ~dir[c].on
  /\ ~Idle /\ job.chunk = c =>
       /\ unit[c].status # "none"
       /\ job.pc = "remove" => dir[c].dirty = {}
       /\ job.pc \in AfterRemove => ~dir[c].on
       /\ job.pc \in {"merge", "native", "write"} => Exists(c)
       /\ job.pc = "write" => job.read \subseteq Commits(Target)

\* Branches, worktrees, rows and the job keep their types through every step.
LEMMA TypesStep ==
  ASSUME GitTypes, \A c \in Chunks : Fits(c), [GitNext]_gitVars
  PROVE  GitTypes'
<1>0. NoBranch \notin SUBSET AllCommits /\ Bases \intersect Chunks = {} /\ NoJob \notin Jobs
  BY GitBounds DEF NoBranch, AllCommits, NoJob, Jobs
<1>1. /\ \A b \in Bases \union Chunks : Commits(b) \in SUBSET AllCommits
      /\ \A b \in Bases : refs[b] = Commits(b)
  BY <1>0 DEF GitTypes, Commits
<1>2. /\ job.chunk \in Chunks => Target \in Bases \union {job.base}
      /\ ~Idle => job \in Jobs /\ job.chunk \in Chunks /\ Target \in Bases
  BY DEF GitTypes, Idle, Target, Jobs, Dirs
<1>d. \A c \in Chunks : /\ [dir EXCEPT ![c].on = FALSE, ![c].dirty = {}] \in [Chunks -> Dirs]
                        /\ [dir EXCEPT ![c].dirty = {}] \in [Chunks -> Dirs]
                        /\ [dir EXCEPT ![c].on = TRUE] \in [Chunks -> Dirs]
  BY DEF GitTypes, Dirs
<1>u. ASSUME NEW c \in Chunks
      PROVE  /\ [unit EXCEPT ![c] = NoUnit] \in [Chunks -> Units]
             /\ [unit EXCEPT ![c].complete = TRUE] \in [Chunks -> Units]
             /\ [unit EXCEPT ![c].retain = FALSE] \in [Chunks -> Units]
             /\ [unit EXCEPT ![c].status = "READY"] \in [Chunks -> Units]
             /\ [unit EXCEPT ![c].status = "RUNNING"] \in [Chunks -> Units]
             /\ [unit EXCEPT ![c].status = "NEEDS_ATTENTION"] \in [Chunks -> Units]
             /\ [unit EXCEPT ![c].status = "DONE"] \in [Chunks -> Units]
             /\ [unit EXCEPT ![c].status = @] \in [Chunks -> Units]
             /\ [unit EXCEPT ![c] = @] \in [Chunks -> Units]
             /\ [unit EXCEPT ![c].status = "READY", ![c].complete = FALSE] \in [Chunks -> Units]
             /\ \A r \in BOOLEAN :
                  [unit EXCEPT ![c] = [NoUnit EXCEPT !.status = "READY", !.retain = r]]
                    \in [Chunks -> Units]
  BY DEF GitTypes, Units, NoUnit
<1>w. \A c \in Chunks : dir[c].dirty \subseteq Work
  BY DEF GitTypes, Dirs
<1>j. job \in Jobs => \A p \in {"commit", "remove"} \union AfterRemove : [job EXCEPT !.pc = p] \in Jobs
  BY DEF Jobs
<1>3. ASSUME NEW c \in Chunks, ChunkStep(c) PROVE GitTypes'
  <2>1. ASSUME NEW retain \in BOOLEAN, Inject(c, retain) PROVE GitTypes'
    BY <1>1, <1>u, <2>1 DEF Inject, GitTypes
  <2>2. CASE CreateWorktree(c)
    <3>1. unit' \in [Chunks -> Units]
      BY <1>u, <2>2 DEF CreateWorktree
    <3>2. dir' \in [Chunks -> Dirs]
      <4>1. CASE dir[c].on
        BY <2>2, <4>1 DEF CreateWorktree, GitTypes
      <4>2. CASE ~dir[c].on
        <5>1. [on |-> TRUE, dirty |-> {}, saved |-> manager, at |-> head] \in Dirs
          BY DEF GitTypes, Dirs
        <5> QED  BY <2>2, <4>2, <5>1 DEF CreateWorktree, SaveBaseBranch, GitTypes
      <4> QED  BY <4>1, <4>2
    <3> QED  BY <1>0, <1>1, <2>2, <3>1, <3>2 DEF CreateWorktree, GitTypes
  <2>3. CASE AgentWorks(c)
    BY <2>3 DEF AgentWorks, GitTypes, Dirs, Fresh
  <2>4. CASE ReachesComplete(c) \/ Retry(c)
    <3>1. CASE ReachesComplete(c)
      BY <1>u, <3>1 DEF ReachesComplete, GitTypes
    <3>2. CASE Retry(c)
      BY <1>u, <3>2 DEF Retry, GitTypes
    <3> QED  BY <2>4, <3>1, <3>2
  <2>9. CASE StartFinalize(c) \/ StartPrune(c)
    <3>1. job' \in Jobs
      BY <2>9 DEF StartFinalize, StartPrune, StartJob, GitTypes, Jobs
    <3> QED  BY <2>9, <3>1 DEF StartFinalize, StartPrune, GitTypes
  <2>5. CASE CommitChanges(c) \/ FinishRetained(c)
    <3>1. unit' \in [Chunks -> Units]
      <4>1. CASE CommitChanges(c)
        BY <4>1 DEF CommitChanges, GitTypes
      <4>2. CASE FinishRetained(c)
        BY <1>u, <4>2 DEF FinishRetained
      <4> QED  BY <2>5, <4>1, <4>2
    <3>2. dir' \in [Chunks -> Dirs] /\ refs' = [refs EXCEPT ![c] = Commits(c) \union dir[c].dirty]
      BY <1>d, <2>5 DEF CommitChanges, FinishRetained, CommitAll
    <3>3. Commits(c) \union dir[c].dirty \in SUBSET AllCommits
      BY <1>1, <1>w DEF AllCommits
    <3> QED  BY <1>0, <2>5, <3>1, <3>2, <3>3 DEF CommitChanges, FinishRetained, GitTypes
  <2>6. CASE Recover(c)
    BY <1>0, <1>1, <2>6 DEF Recover, StartJob, SafelyDeleted, GitTypes, Jobs, AfterRemove
  <2>7. ASSUME NEW force \in BOOLEAN, DeleteRow(c, force) PROVE GitTypes'
    <3>1. unit' \in [Chunks -> Units]
      BY <1>u, <2>7 DEF DeleteRow
    <3> QED  BY <2>7, <3>1 DEF DeleteRow, GitTypes
  <2>8. ASSUME NEW branch \in BOOLEAN, RemoveWorktreeEndpoint(c, branch) PROVE GitTypes'
    BY <1>0, <1>d, <2>8 DEF RemoveWorktreeEndpoint, Removed, GitTypes
  <2> QED  BY <1>3, <2>1, <2>2, <2>3, <2>4, <2>5, <2>6, <2>7, <2>8, <2>9 DEF ChunkStep
<1>4. CASE JobStep
  <2>0. ~Idle /\ job \in Jobs /\ job.chunk \in Chunks /\ Target \in Bases
    BY <1>2, <1>4 DEF JobStep, At, FinCommit, FinRemove, FinDecide, FindCheckedOut, MergeNative, ReadTarget, UpdateRef,
       FinDelete, FinRow, MergeConflicts, FinalizeFails
  <2>1. CASE FinCommit
    <3>1. job' \in Jobs
      BY <1>j, <2>0, <2>1 DEF FinCommit, Then
    <3>2. CASE dir[job.chunk].on
      <4>1. /\ dir' \in [Chunks -> Dirs]
            /\ refs' = [refs EXCEPT ![job.chunk] = Commits(job.chunk) \union dir[job.chunk].dirty]
        BY <1>d, <2>0, <2>1, <3>2 DEF FinCommit, CommitAll
      <4>2. Commits(job.chunk) \union dir[job.chunk].dirty \in SUBSET AllCommits
        BY <1>1, <1>w, <2>0 DEF AllCommits
      <4> QED  BY <1>0, <2>0, <2>1, <3>1, <4>1, <4>2 DEF FinCommit, GitTypes
    <3>3. CASE ~dir[job.chunk].on
      BY <2>1, <3>1, <3>3 DEF FinCommit, GitTypes
    <3> QED  BY <3>2, <3>3
  <2>2. CASE FinRemove \/ FinDecide \/ FindCheckedOut
    <3>1. job' \in Jobs
      BY <1>j, <2>0, <2>2 DEF FinRemove, FinDecide, FindCheckedOut, Then, AfterRemove
    <3>2. dir' \in [Chunks -> Dirs]
      BY <1>d, <2>0, <2>2 DEF FinRemove, FinDecide, FindCheckedOut, Removed, GitTypes
    <3> QED  BY <2>2, <3>1, <3>2 DEF FinRemove, FinDecide, FindCheckedOut, GitTypes
  <2>3. CASE MergeNative \/ UpdateRef
    BY <1>0, <1>1, <1>j, <2>0, <2>3 DEF MergeNative, UpdateRef, Then, GitTypes, Jobs, AfterRemove, Commits
  <2>4. CASE ReadTarget
    BY <1>1, <2>0, <2>4 DEF ReadTarget, GitTypes, Jobs, AfterRemove
  <2>5. CASE FinDelete
    BY <1>0, <1>j, <2>0, <2>5 DEF FinDelete, SafelyDeleted, Then, GitTypes, AfterRemove
  <2>6. CASE FinRow \/ FinalizeFails
    <3>1. unit' \in [Chunks -> Units]
      <4>1. CASE FinRow /\ job.by = "prune"
        BY <1>u, <2>0, <4>1 DEF FinRow
      <4>2. CASE FinRow /\ job.by # "prune" /\ unit[job.chunk].complete
        BY <1>u, <2>0, <4>2 DEF FinRow
      <4>3. CASE FinRow /\ job.by # "prune" /\ ~unit[job.chunk].complete
        BY <1>u, <2>0, <4>3 DEF FinRow
      <4>4. CASE FinalizeFails
        BY <1>u, <2>0, <4>4 DEF FinalizeFails
      <4> QED  BY <2>6, <4>1, <4>2, <4>3, <4>4
    <3> QED  BY <2>6, <3>1 DEF FinRow, FinalizeFails, GitTypes
  <2>7. CASE MergeConflicts
    BY <1>d, <1>u, <2>0, <2>7 DEF MergeConflicts, GitTypes
  <2> QED  BY <1>4, <2>1, <2>2, <2>3, <2>4, <2>5, <2>6, <2>7 DEF JobStep
<1>5. CASE OperatorStep
  <2>1. CASE OperatorCommits
    BY <1>0, <1>1, <2>1 DEF OperatorCommits, GitTypes, Fresh, AllCommits, Commits
  <2>2. CASE \E b \in Bases : OperatorSwitches(b)
    BY <2>2 DEF OperatorSwitches, GitTypes
  <2>3. CASE \E c \in Chunks : OperatorMerges(c)
    BY <1>0, <1>1, <2>3 DEF OperatorMerges, GitTypes, Commits
  <2> QED  BY <1>5, <2>1, <2>2, <2>3 DEF OperatorStep
<1>6. CASE DaemonCrash
  BY <1>6 DEF DaemonCrash, GitTypes, Units
<1>7. CASE \E d \in deleting : DeleteWorktree(d)
  <2>1. PICK d \in deleting : DeleteWorktree(d)
    BY <1>7
  <2>2. d.chunk \in Chunks /\ deleting' \subseteq deleting
    BY <2>1 DEF DeleteWorktree, GitTypes
  <2>3. dir' \in [Chunks -> Dirs]
    BY <1>d, <2>1, <2>2 DEF DeleteWorktree, Removed
  <2>4. refs' \in {refs, [refs EXCEPT ![d.chunk] = NoBranch]}
    BY <2>1 DEF DeleteWorktree, ForceDeleted
  <2>5. refs' \in [Bases \union Chunks -> (SUBSET AllCommits) \union {NoBranch}]
    BY <2>2, <2>4 DEF GitTypes
  <2>6. \A b \in Bases : refs'[b] # NoBranch
    BY <1>0, <2>2, <2>4 DEF GitTypes
  <2> QED  BY <2>1, <2>2, <2>3, <2>5, <2>6 DEF DeleteWorktree, GitTypes
<1>8. CASE UNCHANGED gitVars
  BY <1>8 DEF gitVars, GitTypes
<1> QED  BY <1>3, <1>4, <1>5, <1>6, <1>7, <1>8 DEF GitNext

\* A worktree has a branch and a base that was saved, what is not committed is in a worktree,
\* and a finalization that has removed its worktree does not get it back.
LEMMA FitsStep ==
  ASSUME GitTypes, GitTypes', \A d \in Chunks : Fits(d), [GitNext]_gitVars, NEW c \in Chunks
  PROVE  Fits(c)'
<1>0. /\ NoBranch \notin SUBSET AllCommits /\ Bases \intersect Chunks = {} /\ NoJob \notin Jobs
      /\ NoUnit.status = "none"
  BY GitBounds DEF NoBranch, AllCommits, NoJob, Jobs, NoUnit
<1>1. /\ \A b \in Bases \union Chunks : Commits(b) \in SUBSET AllCommits
      /\ \A b \in Bases : refs[b] = Commits(b)
      /\ Commits(c) # NoBranch
  BY <1>0 DEF GitTypes, Commits
<1>2. ~Idle => job \in Jobs /\ job.chunk \in Chunks /\ Target \in Bases /\ job.base \in Bases
  BY DEF GitTypes, Idle, Target, Jobs, Dirs
<1>t. /\ dir[c] \in Dirs /\ unit[c] \in Units /\ Fits(c)
      /\ dir \in [Chunks -> Dirs] /\ unit \in [Chunks -> Units]
      /\ DOMAIN refs = Bases \union Chunks
  BY DEF GitTypes
<1>c. ASSUME NEW d \in Chunks, CommitAll(d), dir[d].on
      PROVE  /\ Exists(c)' <=> Exists(c)
             /\ dir'[c].on = dir[c].on /\ dir'[c].saved = dir[c].saved
             /\ dir'[c].dirty = IF c = d THEN {} ELSE dir[c].dirty
  <2>1. Commits(d) \union dir[d].dirty # NoBranch
    BY <1>0, <1>1 DEF GitTypes, Dirs, AllCommits
  <2> QED  BY <1>t, <1>c, <2>1 DEF CommitAll, Exists, Fits, Dirs
<1>3. ASSUME NEW d \in Chunks, ChunkStep(d) PROVE Fits(c)'
  <2>1. ASSUME NEW retain \in BOOLEAN, Inject(d, retain) PROVE Fits(c)'
    BY <1>0, <1>t, <2>1 DEF Inject, Fits, Up, Idle, Exists, NoUnit
  <2>2. CASE CreateWorktree(d)
    BY <1>0, <1>1, <1>t, <2>2 DEF CreateWorktree, Fits, Up, Idle, Exists, SaveBaseBranch, GitTypes
  <2>3. CASE AgentWorks(d)
    BY <1>0, <1>t, <2>3 DEF AgentWorks, Fits, Up, Idle, Exists, Dirs
  <2>4. CASE ReachesComplete(d) \/ Retry(d)
    BY <1>0, <1>t, <2>4 DEF ReachesComplete, Retry, Fits, Up, Idle, Exists, Units
  <2>9. CASE StartFinalize(d) \/ StartPrune(d)
    BY <1>0, <1>t, <2>9 DEF StartFinalize, StartPrune, StartJob, Fits, Up, Idle, Exists, AfterRemove
  <2>5. CASE CommitChanges(d) \/ FinishRetained(d)
    BY <1>0, <1>c, <1>t, <2>5 DEF CommitChanges, FinishRetained, Fits, Up, Idle, Units
  <2>6. CASE Recover(d)
    BY <1>0, <1>1, <1>t, <2>6 DEF Recover, StartJob, SafelyDeleted, Fits, HasChanges, Idle, Exists, AfterRemove
  <2>7. ASSUME NEW force \in BOOLEAN, DeleteRow(d, force) PROVE Fits(c)'
    BY <1>0, <1>t, <2>7 DEF DeleteRow, Fits, Up, Idle, Exists
  <2>8. ASSUME NEW branch \in BOOLEAN, RemoveWorktreeEndpoint(d, branch) PROVE Fits(c)'
    BY <1>0, <1>1, <1>t, <2>8 DEF RemoveWorktreeEndpoint, Removed, Fits, Up, Idle, Exists, Dirs
  <2> QED  BY <1>3, <2>1, <2>2, <2>3, <2>4, <2>5, <2>6, <2>7, <2>8, <2>9 DEF ChunkStep
<1>4. CASE JobStep
  <2>0. ~Idle /\ job \in Jobs /\ job.chunk \in Chunks /\ Target \in Bases
    BY <1>2, <1>4 DEF JobStep, At, FinCommit, FinRemove, FinDecide, FindCheckedOut, MergeNative, ReadTarget, UpdateRef,
       FinDelete, FinRow, MergeConflicts, FinalizeFails
  <2>t. /\ dir[job.chunk] \in Dirs /\ unit[job.chunk] \in Units /\ Fits(job.chunk)
        /\ job.chunk \notin Bases
    BY <1>0, <1>t, <2>0
  <2>1. CASE FinCommit
    <3>1. dir[job.chunk].on => CommitAll(job.chunk)
      BY <2>1 DEF FinCommit
    <3>2. job' = [job EXCEPT !.pc = "remove"] /\ unit' = unit /\ recover' = recover
      BY <2>1 DEF FinCommit, Then
    <3>3. ~dir[job.chunk].on => refs' = refs /\ dir' = dir
      BY <2>1 DEF FinCommit
    <3> QED  BY <1>0, <1>c, <1>t, <2>0, <2>t, <3>1, <3>2, <3>3 DEF Fits, Idle, Exists, Jobs, AfterRemove
  <2>2. CASE FinRemove \/ FinDecide \/ FindCheckedOut
    BY <1>0, <1>1, <1>t, <2>0, <2>t, <2>2 DEF FinRemove, FinDecide, FindCheckedOut, At, HasChanges, Removed, Then, Fits, Idle, Exists, Dirs, Jobs, AfterRemove
  <2>3. CASE MergeNative \/ UpdateRef
    <3>1. PICK b \in Bases : b = IF MergeNative THEN head ELSE Target
      BY <2>0 DEF GitTypes
    <3>2. \E new : refs' = [refs EXCEPT ![b] = new]
      BY <2>3, <3>1 DEF MergeNative, UpdateRef
    <3>3. \A d \in Chunks : Exists(d)' = Exists(d)
      BY <1>0, <3>2 DEF Exists, GitTypes
    <3>4. /\ job' = [job EXCEPT !.pc = "delete"] /\ dir' = dir /\ unit' = unit /\ recover' = recover
          /\ job.pc \in {"native", "write"}
      BY <2>3 DEF MergeNative, UpdateRef, At, Then
    <3> QED  BY <1>0, <1>t, <2>0, <2>t, <3>3, <3>4 DEF Fits, Idle, Jobs, AfterRemove
  <2>4. CASE ReadTarget
    BY <1>0, <1>1, <1>t, <2>0, <2>t, <2>4 DEF ReadTarget, At, Fits, Idle, Exists, Dirs, Jobs, AfterRemove, Target, Commits
  <2>5. CASE FinDelete
    BY <1>0, <1>1, <1>t, <2>0, <2>t, <2>5 DEF FinDelete, At, SafelyDeleted, Then, Fits, Idle, Exists, Dirs, Jobs, AfterRemove
  <2>6. CASE FinRow \/ FinalizeFails
    BY <1>0, <1>1, <1>t, <2>0, <2>t, <2>6 DEF FinRow, FinalizeFails, At, Fits, Idle, Exists, Dirs, Units, Jobs, AfterRemove
  <2>7. CASE MergeConflicts
    BY <1>0, <1>1, <1>t, <2>0, <2>t, <2>7 DEF MergeConflicts, At, Fits, Idle, Exists, Dirs, Units, Jobs, AfterRemove
  <2> QED  BY <1>4, <2>1, <2>2, <2>3, <2>4, <2>5, <2>6, <2>7 DEF JobStep
<1>5. CASE OperatorStep
  <2>1. CASE OperatorCommits
    BY <1>0, <1>1, <1>t, <2>1 DEF OperatorCommits, Fits, Idle, Exists, GitTypes, Target, Commits
  <2>2. CASE \E b \in Bases : OperatorSwitches(b)
    BY <1>t, <2>2 DEF OperatorSwitches, Fits, Idle, Exists, Target, Commits
  <2>3. CASE \E d \in Chunks : OperatorMerges(d)
    BY <1>0, <1>1, <1>t, <2>3 DEF OperatorMerges, Fits, Idle, Exists, GitTypes, Target, Commits
  <2> QED  BY <1>5, <2>1, <2>2, <2>3 DEF OperatorStep
<1>6. CASE DaemonCrash
  BY <1>0, <1>t, <1>6 DEF DaemonCrash, Fits, Idle, Exists, Incomplete, Units
<1>7. CASE \E d \in deleting : DeleteWorktree(d)
  BY <1>0, <1>1, <1>t, <1>7 DEF DeleteWorktree, Removed, ForceDeleted, Fits, Up, Idle, Exists, Dirs, GitTypes
<1>8. CASE UNCHANGED gitVars
  BY <1>t, <1>8 DEF gitVars, Fits, Idle, Exists, Target, Commits
<1> QED  BY <1>3, <1>4, <1>5, <1>6, <1>7, <1>8 DEF GitNext

-----------------------------------------------------------------------------
(* What a step does to the agents' commits. *)

\* The agents' commits on a branch, and on any.
Mine(b) == Commits(b) \intersect Work
Held(w) == \E b \in Bases \union Chunks : w \in Mine(b)

\* Those that stay on a base although a merge, computed from what its target was, is about to
\* write it.
Firm(b) == IF At("write") /\ b = Target THEN job.read \intersect Work ELSE Mine(b)
Firmly(w) == \E b \in Bases : w \in Firm(b)

Dirty(c) == dir[c].dirty

\* Which of the three has changed, but for one branch, one worktree, one chunk.
BranchesStand(changed) == \A b \in (Bases \union Chunks) \ changed : Mine(b)' = Mine(b)
DirtStands(changed) == \A c \in Chunks \ changed : Dirty(c)' = Dirty(c)
WorkStands(changed) == \A c \in Chunks \ changed : work'[c] = work[c]

Stays == BranchesStand({}) /\ DirtStands({}) /\ WorkStands({})
\* A unit is injected: the work of its branch is its work.
Adopts(c) == BranchesStand({}) /\ DirtStands({}) /\ WorkStands({c}) /\ work'[c] = Mine(c)
\* A branch is made from a base.
Branches(c, b) ==
  /\ ~At("write") /\ Mine(c) = {} /\ Mine(c)' = Mine(b)
  /\ BranchesStand({c}) /\ DirtStands({}) /\ WorkStands({})
\* An agent writes something new.
Writes(c, w) ==
  /\ ~Held(w) /\ \A d \in Chunks : w \notin Dirty(d) \union work[d]
  /\ Dirty(c)' = Dirty(c) \union {w} /\ work'[c] = work[c] \union {w}
  /\ BranchesStand({}) /\ DirtStands({c}) /\ WorkStands({c})
\* It is committed.
Committing(c) ==
  /\ Mine(c)' = Mine(c) \union Dirty(c) /\ Dirty(c)' = {}
  /\ BranchesStand({c}) /\ DirtStands({c}) /\ WorkStands({})
\* A branch is merged into a base.
Merges(c, b) ==
  /\ Mine(b)' = Mine(b) \union Mine(c)
  /\ BranchesStand({b}) /\ DirtStands({}) /\ WorkStands({})
\* A base is overwritten by a merge that was computed before.
Overwrites(c, b) ==
  /\ At("write") /\ b = Target /\ c = job.chunk
  /\ Mine(b)' = Firm(b) \union Mine(c)
  /\ BranchesStand({b}) /\ DirtStands({}) /\ WorkStands({})
\* A worktree is removed, and perhaps its branch, which is merged or whose deletion was forced.
Removes(c) ==
  /\ ~At("write") /\ BranchesStand({c}) /\ DirtStands({c}) /\ WorkStands({})
  /\ \/ Dirty(c)' = Dirty(c)
     \/ Dirty(c)' = {} /\ (Dirty(c) = {} \/ Idle)
  /\ \/ Mine(c)' = Mine(c)
     \/ Mine(c)' = {} /\ \E b \in Bases : Mine(c) \subseteq Mine(b)
     \/ Mine(c)' = {} /\ \E d \in deleting : d.force /\ d \notin deleting' /\ d.chunk = c

GitEffect ==
  /\ \A b \in Bases : Firm(b) \subseteq Firm(b)'
  /\ \/ Stays
     \/ \E c \in Chunks : Adopts(c) \/ Committing(c) \/ Removes(c)
     \/ \E c \in Chunks, w \in Work : Writes(c, w)
     \/ \E c \in Chunks, b \in Bases : Branches(c, b) \/ Merges(c, b) \/ Overwrites(c, b)

\* Nothing is firm that is not there.
LEMMA FirmIsMine ==
  ASSUME GitTypes, \A c \in Chunks : Fits(c)
  PROVE  \A b \in Bases : Firm(b) \subseteq Mine(b) /\ (~At("write") => Firm(b) = Mine(b))
BY DEF GitTypes, Dirs, Firm, Mine, At, Fits, Target, Jobs, Idle

\* Every git command of a finalization, a request or the operator, and every crash, is one of
\* these, and takes nothing firm from a base.
LEMMA EffectStep ==
  ASSUME GitTypes, \A c \in Chunks : Fits(c), [GitNext]_gitVars
  PROVE  GitEffect
<1>0. /\ NoBranch \intersect Work = {} /\ Bases \intersect Chunks = {} /\ NoJob \notin Jobs
      /\ Work \intersect OpCommits = {}
  BY GitBounds DEF NoBranch, NoJob, Jobs
<1>1. ~Idle => /\ job \in Jobs /\ job.chunk \in Chunks /\ Target \in Bases /\ job.base \in Bases
               /\ Fits(job.chunk)
  BY DEF GitTypes, Idle, Target, Jobs, Dirs
<1>2. /\ DOMAIN refs = Bases \union Chunks /\ DOMAIN dir = Chunks /\ DOMAIN work = Chunks
      /\ \A c \in Chunks : dir[c] \in Dirs /\ Dirty(c) \subseteq Work /\ Fits(c)
      /\ \A b \in Bases : refs[b] = Commits(b)
  BY DEF GitTypes, Dirs, Dirty, Commits
<1>3. \A b \in Bases : Firm(b) \subseteq Mine(b) /\ (~At("write") => Firm(b) = Mine(b))
  BY FirmIsMine
<1>4. refs' = refs => BranchesStand({}) /\ \A b \in Bases \union Chunks : Mine(b)' = Mine(b)
  BY DEF BranchesStand, Mine, Commits
<1>5. dir' = dir => DirtStands({})
  BY DEF DirtStands, Dirty
<1>6. work' = work => WorkStands({})
  BY DEF WorkStands
<1>7. ASSUME \A b \in Bases : Mine(b) \subseteq Mine(b)',
             \/ ~At("write")'
             \/ job' = job /\ \A c \in Chunks : dir'[c].saved = dir[c].saved
      PROVE  \A b \in Bases : Firm(b) \subseteq Firm(b)'
  <2>1. CASE ~At("write")'
    BY <1>3, <1>7, <2>1 DEF Firm
  <2>2. CASE job' = job /\ \A c \in Chunks : dir'[c].saved = dir[c].saved
    <3>1. At("write")' = At("write") /\ (At("write") => Target' = Target)
      BY <1>1, <2>2 DEF At, Idle, Target
    <3> QED  BY <1>7, <2>2, <3>1 DEF Firm
  <2> QED  BY <1>7, <2>1, <2>2
<1>8. Idle => ~At("write")
  BY DEF At
<1>c. ASSUME NEW c \in Chunks, CommitAll(c), dir[c].on, WorkStands({})
      PROVE  Committing(c)
  <2>1. Commits(c) \union dir[c].dirty # NoBranch
    BY <1>0, <1>2 DEF Dirty, Commits, NoBranch, GitTypes, AllCommits, Exists, Fits
  <2>2. Mine(c)' = Mine(c) \union Dirty(c) /\ BranchesStand({c})
    BY <1>2, <1>c, <2>1 DEF CommitAll, Mine, Commits, BranchesStand, Dirty
  <2>3. Dirty(c)' = {} /\ DirtStands({c})
    BY <1>2, <1>c DEF CommitAll, DirtStands, Dirty, Dirs
  <2> QED  BY <1>c, <2>2, <2>3 DEF Committing
<1>m. ASSUME NEW c \in Chunks, NEW b \in Bases, dir' = dir, work' = work,
             refs' = [refs EXCEPT ![b] = Commits(b) \union Commits(c)],
             ~At("write")' \/ job' = job
      PROVE  GitEffect
  <2>1. Commits(b) \union Commits(c) # NoBranch
    BY <1>0, <1>2 DEF Commits, NoBranch, GitTypes, AllCommits
  <2>2. /\ Mine(b)' = Mine(b) \union Mine(c)
        /\ \A d \in Bases \union Chunks : d # b => Mine(d)' = Mine(d)
    BY <1>2, <1>m, <2>1 DEF Mine, Commits
  <2>3. Merges(c, b)
    BY <1>5, <1>6, <1>m, <2>2 DEF Merges, BranchesStand
  <2>4. \A d \in Bases : Mine(d) \subseteq Mine(d)'
    BY <2>2
  <2> QED  BY <1>7, <1>m, <2>3, <2>4 DEF GitEffect
<1>r. ASSUME NEW c \in Chunks, dir' = dir, work' = work, ~At("write"), ~At("write")',
             refs' \in {refs, [refs EXCEPT ![c] = NoBranch]},
             refs' # refs => Commits(c) \subseteq Commits(head)
      PROVE  GitEffect
  <2>1. CASE refs' = refs
    BY <1>4, <1>5, <1>6, <1>7, <1>r, <2>1 DEF GitEffect, Stays
  <2>2. CASE refs' # refs
    <3>1. Mine(c) \subseteq Mine(head) /\ head \in Bases
      BY <1>r, <2>2 DEF Mine, GitTypes
    <3>2. Mine(c)' = {} /\ \A d \in Bases \union Chunks : d # c => Mine(d)' = Mine(d)
      BY <1>2, <1>r, <2>2 DEF Mine, Commits
    <3>3. Removes(c)
      BY <1>5, <1>6, <1>r, <3>1, <3>2 DEF Removes, BranchesStand, DirtStands
    <3>4. \A d \in Bases : Mine(d) \subseteq Mine(d)'
      BY <1>0, <3>2
    <3> QED  BY <1>7, <1>r, <3>3, <3>4 DEF GitEffect
  <2> QED  BY <2>1, <2>2
<1>9. ASSUME NEW c \in Chunks, ChunkStep(c) PROVE GitEffect
  <2>1. ASSUME NEW retain \in BOOLEAN, Inject(c, retain) PROVE GitEffect
    <3>1. Adopts(c)
      BY <1>2, <1>4, <1>5, <2>1 DEF Inject, Adopts, WorkStands, Mine
    <3> QED  BY <1>4, <1>7, <2>1, <3>1 DEF Inject, GitEffect
  <2>2. CASE CreateWorktree(c)
    <3>1. CASE dir[c].on
      BY <1>4, <1>5, <1>6, <1>7, <2>2, <3>1 DEF CreateWorktree, GitEffect, Stays
    <3>2. CASE ~dir[c].on /\ Exists(c)
      <4>1. refs' = refs /\ Dirty(c) = {}
        BY <1>2, <2>2, <3>2 DEF CreateWorktree, Fits, Dirty, GitTypes
      <4>2. DirtStands({})
        BY <1>2, <2>2, <3>2, <4>1 DEF CreateWorktree, DirtStands, Dirty
      <4>3. ~At("write")'
        BY <2>2 DEF CreateWorktree, Up, Idle, At
      <4> QED  BY <1>4, <1>6, <1>7, <2>2, <4>1, <4>2, <4>3 DEF CreateWorktree, GitEffect, Stays
    <3>3. CASE ~dir[c].on /\ ~Exists(c)
      <4>h. PICK b \in Bases : b = head
        BY DEF GitTypes
      <4>0. /\ ~At("write") /\ ~At("write")' /\ work' = work
            /\ refs' = [refs EXCEPT ![c] = refs[b]] /\ refs[c] = NoBranch
            /\ dir' = [dir EXCEPT ![c] = [on |-> TRUE, dirty |-> {}, saved |-> manager, at |-> b]]
        BY <1>8, <2>2, <3>3, <4>h DEF CreateWorktree, SaveBaseBranch, Exists, Up, Idle, At
      <4>1. DirtStands({})
        BY <1>2, <3>3, <4>0 DEF DirtStands, Dirty, Fits
      <4>2. /\ Mine(c) = {} /\ Mine(c)' = Mine(b)
            /\ \A d \in Bases \union Chunks : d # c => Mine(d)' = Mine(d)
        BY <1>2, <4>0 DEF Mine, Commits
      <4>3. Branches(c, b)
        BY <1>6, <4>0, <4>1, <4>2 DEF Branches, BranchesStand
      <4>4. \A d \in Bases : Mine(d)' = Mine(d)
        BY <1>0, <4>2
      <4> QED  BY <1>7, <4>0, <4>3, <4>4 DEF GitEffect
    <3> QED  BY <3>1, <3>2, <3>3
  <2>3. CASE AgentWorks(c)
    <3>1. PICK w \in Fresh(Work) : /\ dir' = [dir EXCEPT ![c].dirty = @ \union {w}]
                                   /\ work' = [work EXCEPT ![c] = @ \union {w}]
      BY <2>3 DEF AgentWorks
    <3>2. Writes(c, w)
      <4>1. ~Held(w) /\ \A d \in Chunks : w \notin Dirty(d) \union work[d]
        <5>1. \A b \in Bases \union Chunks : w \notin Commits(b)
          BY DEF Fresh
        <5>2. ASSUME NEW d \in Chunks PROVE w \notin dir[d].dirty \union work[d]
          <6>1. dir[d].dirty \union work[d] \in {dir[e].dirty \union work[e] : e \in Chunks}
            OBVIOUS
          <6>2. w \notin UNION {dir[e].dirty \union work[e] : e \in Chunks}
            BY DEF Fresh
          <6> QED  BY <6>1, <6>2
        <5> QED  BY <5>1, <5>2 DEF Held, Mine, Dirty
      <4>2. BranchesStand({})
        BY <1>4, <2>3 DEF AgentWorks
      <4>3. DirtStands({c}) /\ Dirty(c)' = Dirty(c) \union {w}
        BY <1>2, <3>1 DEF DirtStands, Dirty, Dirs
      <4>4. WorkStands({c}) /\ work'[c] = work[c] \union {w}
        BY <1>2, <3>1 DEF WorkStands
      <4> QED  BY <4>1, <4>2, <4>3, <4>4 DEF Writes
    <3> QED  BY <1>2, <1>4, <1>7, <2>3, <3>1, <3>2 DEF AgentWorks, GitEffect, Fresh
  <2>4. CASE ReachesComplete(c) \/ Retry(c)
    BY <1>4, <1>5, <1>6, <1>7, <2>4 DEF ReachesComplete, Retry, GitEffect, Stays
  <2>5. CASE StartFinalize(c) \/ StartPrune(c)
    <3>1. ~At("write")'
      BY <2>5 DEF StartFinalize, StartPrune, StartJob, At
    <3> QED  BY <1>4, <1>5, <1>6, <1>7, <2>5, <3>1 DEF StartFinalize, StartPrune, GitEffect, Stays
  <2>6. CASE CommitChanges(c) \/ FinishRetained(c)
    <3>1. Committing(c)
      BY <1>c, <1>6, <2>6 DEF CommitChanges, FinishRetained
    <3>2. \A b \in Bases : Mine(b) \subseteq Mine(b)'
      BY <1>0, <3>1 DEF Committing, BranchesStand
    <3>3. ~At("write")'
      BY <2>6 DEF CommitChanges, FinishRetained, Up, Idle, At
    <3> QED  BY <1>7, <3>1, <3>2, <3>3 DEF GitEffect
  <2>7. CASE Recover(c)
    <3>1. ~At("write")' /\ ~At("write")
      BY <1>8, <2>7 DEF Recover, StartJob, Idle, At
    <3>2. refs' \in {refs, [refs EXCEPT ![c] = NoBranch]} /\ dir' = dir /\ work' = work
      BY <2>7 DEF Recover, SafelyDeleted
    <3>3. refs' # refs => Commits(c) \subseteq Commits(head)
      BY <2>7 DEF Recover, SafelyDeleted
    <3> QED  BY <1>r, <3>1, <3>2, <3>3
  <2>8. ASSUME NEW force \in BOOLEAN, DeleteRow(c, force) PROVE GitEffect
    BY <1>4, <1>5, <1>6, <1>7, <2>8 DEF DeleteRow, GitEffect, Stays
  <2>9. ASSUME NEW branch \in BOOLEAN, RemoveWorktreeEndpoint(c, branch) PROVE GitEffect
    <3>1. ~At("write")' /\ ~At("write") /\ Idle
      BY <1>8, <2>9 DEF RemoveWorktreeEndpoint, Up, Idle, At
    <3>2. Removes(c)
      BY <1>0, <1>2, <1>6, <2>9, <3>1
      DEF RemoveWorktreeEndpoint, Removed, Removes, Mine, Commits, Dirty, BranchesStand, DirtStands, GitTypes
    <3>3. \A b \in Bases : Mine(b) \subseteq Mine(b)'
      BY <1>0, <3>2 DEF Removes, BranchesStand
    <3> QED  BY <1>7, <3>1, <3>2, <3>3 DEF GitEffect
  <2> QED  BY <1>9, <2>1, <2>2, <2>3, <2>4, <2>5, <2>6, <2>7, <2>8, <2>9 DEF ChunkStep
<1>10. CASE JobStep
  <2>0. ~Idle /\ job \in Jobs /\ job.chunk \in Chunks /\ Target \in Bases /\ Fits(job.chunk)
    BY <1>1, <1>10 DEF JobStep, At, FinCommit, FinRemove, FinDecide, FindCheckedOut, MergeNative, ReadTarget, UpdateRef,
       FinDelete, FinRow, MergeConflicts, FinalizeFails
  <2>j. PICK c \in Chunks : c = job.chunk
    BY <2>0
  <2>t. PICK b \in Bases : b = Target
    BY <2>0
  <2>1. \A pc : Then(pc) => job' = [job EXCEPT !.pc = pc] /\ job'.pc = pc
    BY <2>0 DEF Then, Jobs
  <2>2. CASE FinCommit
    <3>1. ~At("write")'
      BY <2>1, <2>2 DEF FinCommit, At
    <3>2. CASE dir[job.chunk].on
      <4>1. Committing(c)
        BY <1>c, <1>6, <2>2, <2>j, <3>2 DEF FinCommit
      <4>2. \A d \in Bases : Mine(d) \subseteq Mine(d)'
        BY <1>0, <4>1 DEF Committing, BranchesStand
      <4> QED  BY <1>7, <3>1, <4>1, <4>2 DEF GitEffect
    <3>3. CASE ~dir[job.chunk].on
      BY <1>4, <1>5, <1>6, <1>7, <2>2, <3>1, <3>3 DEF FinCommit, GitEffect, Stays
    <3> QED  BY <3>2, <3>3
  <2>3. CASE FinRemove
    <3>1. ~At("write")' /\ Dirty(job.chunk) = {}
      BY <2>0, <2>1, <2>3 DEF FinRemove, At, Fits, Dirty
    <3>2. DirtStands({})
      BY <1>2, <2>0, <2>3, <3>1 DEF FinRemove, Removed, DirtStands, Dirty
    <3> QED  BY <1>4, <1>6, <1>7, <2>3, <3>1, <3>2 DEF FinRemove, GitEffect, Stays
  <2>4. CASE FinDecide \/ FindCheckedOut
    <3>1. ~At("write")'
      BY <2>1, <2>4 DEF FinDecide, FindCheckedOut, At
    <3> QED  BY <1>4, <1>5, <1>6, <1>7, <2>4, <3>1 DEF FinDecide, FindCheckedOut, GitEffect, Stays
  <2>5. CASE MergeNative
    <3>0. PICK d \in Bases : d = head
      BY DEF GitTypes
    <3>1. ~At("write")'
      BY <2>1, <2>5 DEF MergeNative, At
    <3>2. refs' = [refs EXCEPT ![d] = Commits(d) \union Commits(c)] /\ dir' = dir /\ work' = work
      BY <1>2, <2>5, <2>j, <3>0 DEF MergeNative
    <3> QED  BY <1>m, <3>1, <3>2
  <2>6. CASE ReadTarget
    <3>1. Target' = Target /\ job'.read = Commits(Target) /\ ~At("write")
      BY <2>0, <2>6 DEF ReadTarget, Target, At, Jobs
    <3>2. \A x \in Bases : Firm(x) \subseteq Firm(x)'
      BY <1>3, <1>4, <2>6, <3>1 DEF ReadTarget, Firm, Mine
    <3> QED  BY <1>4, <1>5, <1>6, <2>6, <3>2 DEF ReadTarget, GitEffect, Stays
  <2>7. CASE UpdateRef
    <3>1. ~At("write")' /\ At("write")
      BY <2>1, <2>7 DEF UpdateRef, At
    <3>2. refs' = [refs EXCEPT ![b] = job.read \union Commits(c)] /\ dir' = dir /\ work' = work
      BY <2>7, <2>j, <2>t DEF UpdateRef
    <3>3. job.read \union Commits(c) # NoBranch
      <4>1. job.read \subseteq AllCommits /\ Commits(c) \subseteq AllCommits
        BY <2>0 DEF Commits, GitTypes, Jobs
      <4> QED  BY <4>1, GitBounds DEF AllCommits, NoBranch
    <3>4. /\ Mine(b)' = Firm(b) \union Mine(c)
          /\ \A d \in Bases \union Chunks : d # b => Mine(d)' = Mine(d)
      BY <1>2, <2>t, <3>1, <3>2, <3>3 DEF Mine, Firm, Commits
    <3>5. Overwrites(c, b)
      BY <1>5, <1>6, <2>j, <2>t, <3>1, <3>2, <3>4 DEF Overwrites, BranchesStand
    <3>6. \A d \in Bases : Firm(d) \subseteq Firm(d)'
      BY <1>3, <2>t, <3>1, <3>4 DEF Firm
    <3> QED  BY <3>5, <3>6 DEF GitEffect
  <2>8. CASE FinDelete
    <3>1. ~At("write")' /\ ~At("write")
      BY <2>1, <2>8 DEF FinDelete, At
    <3>2. refs' \in {refs, [refs EXCEPT ![c] = NoBranch]} /\ dir' = dir /\ work' = work
      BY <2>8, <2>j DEF FinDelete, SafelyDeleted
    <3>3. refs' # refs => Commits(c) \subseteq Commits(head)
      BY <2>8, <2>j DEF FinDelete, SafelyDeleted
    <3> QED  BY <1>r, <3>1, <3>2, <3>3
  <2>9. CASE FinRow \/ FinalizeFails
    <3>1. ~At("write")'
      BY <2>9 DEF FinRow, FinalizeFails, At, Idle
    <3> QED  BY <1>4, <1>5, <1>6, <1>7, <2>9, <3>1 DEF FinRow, FinalizeFails, GitEffect, Stays
  <2>10. CASE MergeConflicts
    <3>1. ~At("write")' /\ DirtStands({})
      BY <1>2, <2>0, <2>10 DEF MergeConflicts, At, Idle, DirtStands, Dirty
    <3> QED  BY <1>4, <1>6, <1>7, <2>10, <3>1 DEF MergeConflicts, GitEffect, Stays
  <2> QED  BY <1>10, <2>2, <2>3, <2>4, <2>5, <2>6, <2>7, <2>8, <2>9, <2>10 DEF JobStep
<1>11. CASE OperatorStep
  <2>1. CASE OperatorCommits
    <3>1. \A b \in Bases \union Chunks : Mine(b)' = Mine(b)
      BY <1>0, <1>2, <2>1 DEF OperatorCommits, Fresh, Mine, Commits
    <3> QED  BY <1>5, <1>6, <1>7, <2>1, <3>1 DEF OperatorCommits, GitEffect, Stays, BranchesStand
  <2>2. CASE \E b \in Bases : OperatorSwitches(b)
    BY <1>4, <1>5, <1>6, <1>7, <2>2 DEF OperatorSwitches, GitEffect, Stays
  <2>3. ASSUME NEW c \in Chunks, OperatorMerges(c) PROVE GitEffect
    <3>1. PICK b \in Bases : b = head
      BY DEF GitTypes
    <3>2. /\ refs' = [refs EXCEPT ![b] = Commits(b) \union Commits(c)] /\ dir' = dir /\ work' = work
          /\ job' = job
      BY <1>2, <2>3, <3>1 DEF OperatorMerges
    <3> QED  BY <1>m, <3>2
  <2> QED  BY <1>11, <2>1, <2>2, <2>3 DEF OperatorStep
<1>12. CASE DaemonCrash
  <2>1. ~At("write")'
    BY <1>12 DEF DaemonCrash, At, Idle
  <2> QED  BY <1>4, <1>5, <1>6, <1>7, <1>12, <2>1 DEF DaemonCrash, GitEffect, Stays
<1>13. ASSUME NEW d \in deleting, DeleteWorktree(d) PROVE GitEffect
  <2>0. d.chunk \in Chunks
    BY DEF GitTypes
  <2>1. ~At("write")' /\ ~At("write") /\ Idle
    BY <1>8, <1>13 DEF DeleteWorktree, Up, Idle, At
  <2>2. Removes(d.chunk)
    BY <1>0, <1>2, <1>6, <1>13, <2>0, <2>1
    DEF DeleteWorktree, Removed, ForceDeleted, Removes, Mine, Commits, Dirty, BranchesStand, DirtStands, GitTypes
  <2>3. \A b \in Bases : Mine(b) \subseteq Mine(b)'
    BY <1>0, <2>0, <2>2 DEF Removes, BranchesStand
  <2> QED  BY <1>7, <2>0, <2>1, <2>2, <2>3 DEF GitEffect
<1>14. CASE UNCHANGED gitVars
  BY <1>4, <1>5, <1>6, <1>7, <1>14 DEF gitVars, GitEffect, Stays
<1> QED  BY <1>9, <1>10, <1>11, <1>12, <1>13, <1>14 DEF GitNext

-----------------------------------------------------------------------------
(* Where the agents' commits are. *)

\* What is not committed is of one worktree, and no other chunk calls it its work.
DirtApart ==
  \A c \in Chunks : \A w \in Dirty(c) :
    ~Held(w) /\ \A d \in Chunks : d # c => w \notin Dirty(d) \union work[d]

\* What two chunks share, as branch or as work, came from a base, and stays there.
SharedIsFirm ==
  \A c, d \in Chunks : c # d => \A w \in Mine(c) \intersect (Mine(d) \union work[d]) : Firmly(w)

\* What a base may lose is still on the branch of its chunk.
BasesKeep ==
  \A w \in Work : (\E b \in Bases : w \in Mine(b)) => Firmly(w) \/ \E c \in Chunks : w \in Mine(c)

Placed == DirtApart /\ SharedIsFirm /\ BasesKeep

\* Each of these leaves the agents' commits where they may be.
LEMMA PlacedStep ==
  ASSUME GitTypes, GitTypes', \A c \in Chunks : Fits(c), GitEffect, Placed
  PROVE  Placed'
<1>0. /\ Bases \intersect Chunks = {}
      /\ \A c \in Chunks : Dirty(c) \subseteq Work
      /\ \A b \in Bases : Firm(b) \subseteq Mine(b) /\ (~At("write") => Firm(b) = Mine(b))
  BY GitBounds, FirmIsMine DEF GitTypes, Dirs, Dirty
<1>1. \A w \in Work : Firmly(w) => Firmly(w)'
  BY DEF GitEffect, Firmly
<1>2. CASE Stays
  BY <1>0, <1>1, <1>2 DEF Stays, BranchesStand, DirtStands, WorkStands, Placed, DirtApart, SharedIsFirm, BasesKeep, Held, Mine
<1>3. ASSUME NEW c \in Chunks, Adopts(c) PROVE Placed'
  BY <1>0, <1>1, <1>3 DEF Adopts, BranchesStand, DirtStands, WorkStands, Placed, DirtApart, SharedIsFirm, BasesKeep, Held, Mine
<1>4. ASSUME NEW c \in Chunks, Committing(c) PROVE Placed'
  BY <1>0, <1>1, <1>4 DEF Committing, BranchesStand, DirtStands, WorkStands, Placed, DirtApart, SharedIsFirm, BasesKeep, Held, Mine
<1>5. ASSUME NEW c \in Chunks, Removes(c) PROVE Placed'
  BY <1>0, <1>1, <1>5 DEF Removes, BranchesStand, DirtStands, WorkStands, Placed, DirtApart, SharedIsFirm, BasesKeep, Held, Mine, Firmly
<1>6. ASSUME NEW c \in Chunks, NEW w \in Work, Writes(c, w) PROVE Placed'
  BY <1>0, <1>1, <1>6 DEF Writes, BranchesStand, DirtStands, WorkStands, Placed, DirtApart, SharedIsFirm, BasesKeep, Held, Mine
<1>7. ASSUME NEW c \in Chunks, NEW b \in Bases, Branches(c, b) PROVE Placed'
  BY <1>0, <1>1, <1>7 DEF Branches, BranchesStand, DirtStands, WorkStands, Placed, DirtApart, SharedIsFirm, BasesKeep, Held, Mine, Firmly
<1>8. ASSUME NEW c \in Chunks, NEW b \in Bases, Merges(c, b) PROVE Placed'
  BY <1>0, <1>1, <1>8 DEF Merges, BranchesStand, DirtStands, WorkStands, Placed, DirtApart, SharedIsFirm, BasesKeep, Held, Mine
<1>9. ASSUME NEW c \in Chunks, NEW b \in Bases, Overwrites(c, b) PROVE Placed'
  BY <1>0, <1>1, <1>9 DEF Overwrites, BranchesStand, DirtStands, WorkStands, Placed, DirtApart, SharedIsFirm, BasesKeep, Held, Mine, Firmly
<1> QED  BY <1>2, <1>3, <1>4, <1>5, <1>6, <1>7, <1>8, <1>9 DEF GitEffect

-----------------------------------------------------------------------------
(* What is DONE. *)

\* All of the work of c that is left is in a base, and stays there.
Landed(c) == \A w \in work[c] : Held(w) => Firmly(w)

Finished(c) == unit[c].status = "DONE" /\ ~unit[c].retain

DoneLanded == \A c \in Chunks : Finished(c) => Landed(c)

\* A finalization deletes a branch that is merged, and marks a chunk whose work has landed.
JobLands ==
  /\ At("delete") => \A w \in Mine(job.chunk) : Firmly(w)
  /\ At("row") => Landed(job.chunk)

\* What has landed stays so, as long as there is nothing in the worktree to commit.
LEMMA LandedStays ==
  ASSUME GitTypes, \A d \in Chunks : Fits(d), GitEffect, Placed, NEW c \in Chunks, Landed(c),
         Dirty(c) = {}, work'[c] = work[c]
  PROVE  Landed(c)'
<1>1. \A w \in Work : Firmly(w) => Firmly(w)'
  BY DEF GitEffect, Firmly
<1>2. ASSUME NEW w \in work[c], Held(w)' PROVE Held(w)
  <2>0. w \in Work
    BY DEF GitTypes
  <2>1. PICK x \in Bases \union Chunks : w \in Mine(x)'
    BY <1>2 DEF Held
  <2>2. ASSUME NEW d \in Chunks, Committing(d) PROVE Held(w)
    BY <2>1, <2>2 DEF Committing, BranchesStand, Held, Placed, DirtApart
  <2>3. ASSUME NEW d \in Chunks, Adopts(d) \/ Removes(d) PROVE Held(w)
    BY <2>1, <2>3 DEF Adopts, Removes, BranchesStand, Held
  <2>4. ASSUME NEW d \in Chunks, NEW v \in Work, Writes(d, v) PROVE Held(w)
    BY <2>1, <2>4 DEF Writes, BranchesStand, Held
  <2>5. ASSUME NEW d \in Chunks, NEW b \in Bases, Branches(d, b) \/ Merges(d, b) PROVE Held(w)
    BY <2>1, <2>5 DEF Branches, Merges, BranchesStand, Held
  <2>6. ASSUME NEW d \in Chunks, NEW b \in Bases, Overwrites(d, b) PROVE Held(w)
    <3>1. CASE x # b
      BY <2>1, <2>6, <3>1 DEF Overwrites, BranchesStand, Held
    <3>2. CASE x = b /\ w \in Mine(d)
      BY <3>2 DEF Held
    <3>3. CASE x = b /\ w \in Firm(b)
      BY <2>6, <3>3, FirmIsMine DEF Held
    <3> QED  BY <2>1, <2>6, <3>1, <3>2, <3>3 DEF Overwrites
  <2>7. CASE Stays
    BY <2>1, <2>7 DEF Stays, BranchesStand, Held
  <2> QED  BY <2>2, <2>3, <2>4, <2>5, <2>6, <2>7 DEF GitEffect
<1> QED  BY <1>1, <1>2 DEF Landed, GitTypes

\* A branch that is deleted at the end of a finalization is merged, whether the merge was
\* native, written over the base, or found to be unnecessary.
LEMMA JobLandsStep ==
  ASSUME GitTypes, GitTypes', \A c \in Chunks : Fits(c), Placed, JobLands, GitEffect, [GitNext]_gitVars
  PROVE  JobLands'
<1>0. /\ Bases \intersect Chunks = {} /\ NoJob \notin Jobs
      /\ \A b \in Bases : Firm(b) \subseteq Mine(b) /\ (~At("write") => Firm(b) = Mine(b))
      /\ \A w \in Work : Firmly(w) => Firmly(w)'
  BY GitBounds, FirmIsMine DEF NoJob, Jobs, GitEffect, Firmly
<1>1. CASE Idle' \/ (~At("delete")' /\ ~At("row")')
  BY <1>1 DEF JobLands, At
<1>2. CASE job' = job /\ ~Idle /\ OperatorStep
  <2>0. PICK c \in Chunks : c = job.chunk
    BY <1>2 DEF GitTypes, Idle, Jobs
  <2>1. /\ job'.chunk = c /\ At("delete")' = At("delete") /\ At("row")' = At("row")
        /\ work'[c] = work[c]
    BY <1>2, <2>0 DEF At, Idle, OperatorStep, OperatorCommits, OperatorSwitches, OperatorMerges
  <2>2. Mine(c)' = Mine(c)
    BY <1>0, <1>2 DEF OperatorStep, OperatorCommits, OperatorSwitches, OperatorMerges, Mine, Commits, GitTypes
  <2>3. At("row") => Dirty(c) = {}
    BY <2>0 DEF Fits, At, AfterRemove, Dirty
  <2>4. At("row") => Landed(c)'
    BY <2>0, <2>1, <2>3, LandedStays DEF JobLands
  <2>5. At("delete")' => \A w \in Mine(c)' : Firmly(w)'
    BY <1>0, <2>0, <2>1, <2>2 DEF JobLands, Mine
  <2> QED  BY <2>1, <2>4, <2>5 DEF JobLands, Landed, Mine, Firmly, Held
<1>3. CASE JobStep
  <2>0. ~Idle /\ job \in Jobs /\ job.chunk \in Chunks /\ Target \in Bases /\ job.base \in Bases
    BY <1>3 DEF JobStep, At, FinCommit, FinRemove, FinDecide, FindCheckedOut, MergeNative, ReadTarget, UpdateRef,
       FinDelete, FinRow, MergeConflicts, FinalizeFails, GitTypes, Jobs, Idle, Target, Dirs
  <2>1. PICK c \in Chunks : c = job.chunk
    BY <2>0
  <2>2. \A pc : Then(pc) => job'.pc = pc /\ job'.chunk = c
    BY <2>0, <2>1 DEF Then, Jobs
  <2>3. CASE FinCommit \/ FinRemove \/ FindCheckedOut \/ ReadTarget \/ FinRow \/ MergeConflicts \/ FinalizeFails
    <3>1. Idle' \/ job'.pc \in {"remove", "decide", "native", "write"}
      BY <2>0, <2>2, <2>3 DEF FinCommit, FinRemove, FindCheckedOut, ReadTarget, FinRow, MergeConflicts, FinalizeFails, Idle, Jobs
    <3> QED  BY <1>1, <3>1 DEF At
  <2>4. CASE FinDecide
    <3>1. CASE HasChanges(job.chunk, job.base)
      BY <1>1, <2>2, <2>4, <3>1 DEF FinDecide, At
    <3>2. CASE ~HasChanges(job.chunk, job.base)
      <4>1. Mine(c) \subseteq Mine(job.base)
        BY <2>1, <3>2 DEF HasChanges, Mine, Commits, Exists
      <4>2. Mine(c)' = Mine(c) /\ \A w \in Mine(c) : Firmly(w)
        BY <1>0, <2>0, <2>4, <4>1 DEF FinDecide, At, Firmly, Mine, Commits
      <4>3. job'.pc = "delete" /\ job'.chunk = c
        BY <2>2, <2>4, <3>2 DEF FinDecide
      <4> QED  BY <1>0, <4>2, <4>3 DEF JobLands, At, Mine, Firmly
    <3> QED  BY <3>1, <3>2
  <2>5. CASE MergeNative \/ UpdateRef
    <3>1. job'.pc = "delete" /\ job'.chunk = c /\ ~At("write")'
      BY <2>2, <2>5 DEF MergeNative, UpdateRef, At
    <3>2. PICK b \in Bases : b = IF MergeNative THEN head ELSE Target
      BY <2>0 DEF GitTypes
    <3>3. Mine(c)' = Mine(c) /\ Mine(c) \subseteq Mine(b)'
      <4>1. \E old : refs' = [refs EXCEPT ![b] = old \union Commits(c)]
        BY <2>1, <2>5, <3>2 DEF MergeNative, UpdateRef
      <4>2. PICK old : refs' = [refs EXCEPT ![b] = old \union Commits(c)]
        BY <4>1
      <4>3. refs'[b] = old \union Commits(c) /\ refs'[b] # NoBranch /\ refs'[c] = refs[c]
        BY <1>0, <4>2 DEF GitTypes
      <4> QED  BY <4>3 DEF Mine, Commits
    <3>4. \A w \in Mine(c)' : Firmly(w)'
      BY <3>1, <3>3 DEF Firmly, Firm
    <3> QED  BY <3>1, <3>4 DEF JobLands, At, Mine, Firmly
  <2>6. CASE FinDelete
    <3>1. job'.pc = "row" /\ job'.chunk = c /\ At("delete") /\ work' = work
      BY <2>2, <2>6 DEF FinDelete
    <3>2. \A w \in Mine(c) : Firmly(w)
      BY <2>1, <3>1 DEF JobLands
    <3>3. Landed(c)
      <4> SUFFICES ASSUME NEW w \in work[c], Held(w) PROVE Firmly(w)
        BY DEF Landed
      <4>1. w \in Work
        BY DEF GitTypes
      <4>2. \A d \in Chunks : w \in Mine(d) => Firmly(w)
        BY <3>2 DEF Placed, SharedIsFirm
      <4> QED  BY <4>1, <4>2 DEF Held, Placed, BasesKeep
    <3>4. Dirty(c) = {}
      BY <2>1, <3>1 DEF At, Fits, AfterRemove, Dirty
    <3>5. Landed(c)'
      BY <3>1, <3>3, <3>4, LandedStays
    <3> QED  BY <3>1, <3>5 DEF JobLands, At, Landed, Held, Firmly
  <2> QED  BY <1>3, <2>3, <2>4, <2>5, <2>6 DEF JobStep
<1>4. ASSUME NEW c \in Chunks, ChunkStep(c) PROVE JobLands'
  <2>1. Idle
    BY <1>4 DEF ChunkStep, Inject, CreateWorktree, AgentWorks, ReachesComplete, CommitChanges,
       FinishRetained, StartFinalize, StartPrune, Recover, Retry, DeleteRow, RemoveWorktreeEndpoint, Up
  <2>2. job' = job \/ job'.pc \in {"commit", "merge"}
    <3>1. CASE StartFinalize(c) \/ StartPrune(c)
      BY <3>1 DEF StartFinalize, StartPrune, StartJob
    <3>2. CASE Recover(c)
      BY <3>2 DEF Recover, StartJob
    <3>3. CASE ~(StartFinalize(c) \/ StartPrune(c) \/ Recover(c))
      BY <1>4, <3>3 DEF ChunkStep, Inject, CreateWorktree, AgentWorks, ReachesComplete, CommitChanges,
         FinishRetained, Retry, DeleteRow, RemoveWorktreeEndpoint
    <3> QED  BY <3>1, <3>2, <3>3
  <2> QED  BY <1>1, <2>1, <2>2 DEF At, Idle
<1>5. CASE DaemonCrash \/ \E d \in deleting : DeleteWorktree(d)
  BY <1>1, <1>5 DEF DaemonCrash, DeleteWorktree, Up, Idle
<1>6. CASE Idle /\ OperatorStep
  BY <1>1, <1>6 DEF OperatorStep, OperatorCommits, OperatorSwitches, OperatorMerges, Idle
<1>7. CASE OperatorStep
  BY <1>2, <1>6, <1>7 DEF OperatorStep, OperatorCommits, OperatorSwitches, OperatorMerges
<1>8. CASE UNCHANGED gitVars
  BY <1>8 DEF gitVars, JobLands, At, Idle, Landed, Held, Firmly, Firm, Mine, Commits, Target
<1> QED  BY <1>3, <1>4, <1>5, <1>7, <1>8 DEF GitNext

\* A row becomes DONE without a worktree only at the end of a finalization or prune.
LEMMA DoneLandedStep ==
  ASSUME GitTypes, GitTypes', \A c \in Chunks : Fits(c), Placed, JobLands, DoneLanded, GitEffect,
         [GitNext]_gitVars
  PROVE  DoneLanded'
<1> SUFFICES ASSUME NEW c \in Chunks, Finished(c)' PROVE Landed(c)'
  BY DEF DoneLanded
<1>1. \/ Finished(c) /\ work'[c] = work[c]
      \/ At("row") /\ job.chunk = c /\ work'[c] = work[c]
  <2>1. ASSUME NEW d \in Chunks, ChunkStep(d) PROVE Finished(c) /\ work'[c] = work[c]
    <3>1. ASSUME NEW retain \in BOOLEAN, Inject(d, retain) PROVE Finished(c) /\ work'[c] = work[c]
      BY <3>1 DEF Inject, Finished, NoUnit, GitTypes
    <3>2. CASE CreateWorktree(d) \/ ReachesComplete(d) \/ Retry(d)
      BY <3>2 DEF CreateWorktree, ReachesComplete, Retry, Finished, GitTypes, Units
    <3>3. CASE AgentWorks(d)
      BY <3>3 DEF AgentWorks, Finished, GitTypes
    <3>4. CASE CommitChanges(d) \/ FinishRetained(d)
      BY <3>4 DEF CommitChanges, FinishRetained, Finished, GitTypes, Units
    <3>5. CASE StartFinalize(d) \/ StartPrune(d) \/ Recover(d)
      BY <3>5 DEF StartFinalize, StartPrune, Recover, Finished
    <3>6. ASSUME NEW force \in BOOLEAN, DeleteRow(d, force) PROVE Finished(c) /\ work'[c] = work[c]
      BY <3>6 DEF DeleteRow, Finished, NoUnit, GitTypes
    <3>7. ASSUME NEW branch \in BOOLEAN, RemoveWorktreeEndpoint(d, branch)
          PROVE  Finished(c) /\ work'[c] = work[c]
      BY <3>7 DEF RemoveWorktreeEndpoint, Finished
    <3> QED  BY <2>1, <3>1, <3>2, <3>3, <3>4, <3>5, <3>6, <3>7 DEF ChunkStep
  <2>2. CASE JobStep
    <3>0. PICK d \in Chunks : d = job.chunk
      BY <2>2 DEF JobStep, At, FinCommit, FinRemove, FinDecide, FindCheckedOut, MergeNative, ReadTarget, UpdateRef,
         FinDelete, FinRow, MergeConflicts, FinalizeFails, GitTypes, Jobs, Idle
    <3>1. CASE FinRow
      BY <3>0, <3>1 DEF FinRow, Finished, GitTypes, Units
    <3>2. CASE MergeConflicts \/ FinalizeFails
      BY <3>0, <3>2 DEF MergeConflicts, FinalizeFails, Finished, GitTypes, Units
    <3>3. CASE ~(FinRow \/ MergeConflicts \/ FinalizeFails)
      BY <2>2, <3>3 DEF JobStep, FinCommit, FinRemove, FinDecide, FindCheckedOut, MergeNative, ReadTarget, UpdateRef,
         FinDelete, Finished
    <3> QED  BY <3>1, <3>2, <3>3
  <2>3. CASE OperatorStep
    BY <2>3 DEF OperatorStep, OperatorCommits, OperatorSwitches, OperatorMerges, Finished
  <2>4. CASE DaemonCrash
    BY <2>4 DEF DaemonCrash, Finished, GitTypes, Units
  <2>5. CASE \E d \in deleting : DeleteWorktree(d)
    BY <2>5 DEF DeleteWorktree, Finished
  <2>6. CASE UNCHANGED gitVars
    BY <2>6 DEF gitVars, Finished
  <2> QED  BY <2>1, <2>2, <2>3, <2>4, <2>5, <2>6 DEF GitNext
<1>2. Landed(c) /\ Dirty(c) = {}
  BY <1>1 DEF DoneLanded, Finished, JobLands, Fits, At, AfterRemove, Dirty
<1> QED  BY <1>1, <1>2, LandedStays

-----------------------------------------------------------------------------
(* The invariant. *)

GitIInv == GitTypes /\ (\A c \in Chunks : Fits(c)) /\ Placed /\ DoneLanded /\ JobLands

\* It holds of a new repository.
LEMMA GitInitIInv == GitInit => GitIInv
<1> SUFFICES ASSUME GitInit PROVE GitIInv
  OBVIOUS
<1>1. GitTypes
  BY GitBounds DEF GitInit, GitTypes, NoBranch, AllCommits, NoDir, NoUnit, Dirs, Units
<1>2. \A c \in Chunks : Fits(c)
  BY GitBounds DEF GitInit, Fits, NoDir, NoUnit, Idle, Exists
<1>3. /\ \A b \in Bases \union Chunks : Mine(b) = {}
      /\ \A c \in Chunks : Dirty(c) = {} /\ work[c] = {} /\ ~Finished(c)
      /\ ~At("delete") /\ ~At("row")
  BY GitBounds DEF GitInit, Mine, Commits, Dirty, NoDir, NoUnit, Finished, At, Idle
<1> QED  BY <1>1, <1>2, <1>3 DEF GitIInv, Placed, DirtApart, SharedIsFirm, BasesKeep, DoneLanded, JobLands

\* Every step preserves it.
LEMMA GitNextIInv == GitIInv /\ [GitNext]_gitVars => GitIInv' /\ GitEffect
<1> SUFFICES ASSUME GitIInv, [GitNext]_gitVars PROVE GitIInv' /\ GitEffect
  OBVIOUS
<1>1. GitTypes'
  BY TypesStep DEF GitIInv
<1>2. \A c \in Chunks : Fits(c)'
  BY <1>1, FitsStep DEF GitIInv
<1>3. GitEffect
  BY EffectStep DEF GitIInv
<1>4. Placed'
  BY <1>1, <1>3, PlacedStep DEF GitIInv
<1>5. JobLands'
  BY <1>1, <1>3, JobLandsStep DEF GitIInv
<1>6. DoneLanded'
  BY <1>1, <1>3, DoneLandedStep DEF GitIInv
<1> QED  BY <1>1, <1>2, <1>3, <1>4, <1>5, <1>6 DEF GitIInv

\* The invariant implies what the run checks.
LEMMA GitIInvSuffices == GitIInv => GitInv
<1> SUFFICES ASSUME GitIInv PROVE GitInv
  OBVIOUS
<1>1. GitTypeOK
  BY DEF GitIInv, GitTypes, Fits, GitTypeOK, AllCommits, Idle, Jobs
<1>2. DoneIsInABase
  <2> SUFFICES ASSUME NEW c \in Chunks, Finished(c), NEW w \in work[c], Committed(w)
               PROVE  InABase(w)
    BY DEF DoneIsInABase, Finished
  <2>1. Held(w)
    BY DEF Committed, Held, Mine, GitIInv, GitTypes
  <2>2. Firmly(w)
    BY <2>1 DEF GitIInv, DoneLanded, Landed
  <2> QED  BY <2>2, FirmIsMine DEF Firmly, InABase, Mine, GitIInv
<1> QED  BY <1>1, <1>2 DEF GitInv

\* Branches, worktrees, rows and the job fit together, each commit of an agent is where it
\* may be, and DONE work has landed in a base, in every state of the repository.
THEOREM GitInvariant == GitSpec => []GitIInv
<1>1. GitInit => GitIInv
  BY GitInitIInv
<1>2. GitIInv /\ [GitNext]_gitVars => GitIInv'
  BY GitNextIInv
<1> QED  BY <1>1, <1>2, PTL DEF GitSpec

\* A unit that is DONE without a retained worktree has all of its work that is left in a
\* base, whatever crashed and wherever the operator switched (finalize_work_unit, recovery).
THEOREM GitCorrect == GitSpec => []GitInv
BY GitInvariant, GitIInvSuffices, PTL

\* One step keeps what an agent did, but for the requests that give it up.
LEMMA WorkSurvivesStep ==
  ASSUME GitIInv, GitEffect, NEW w \in Work,
         Committed(w) \/ \E c \in Chunks : w \in dir[c].dirty
  PROVE  \/ (Committed(w) \/ \E c \in Chunks : w \in dir[c].dirty)'
         \/ Idle /\ ~Committed(w)
         \/ \E d \in deleting : d.force /\ d \notin deleting' /\ w \in Commits(d.chunk)
<1> DEFINE There == Held(w) \/ \E c \in Chunks : w \in Dirty(c)
<1>0. /\ Bases \intersect Chunks = {}
      /\ \A b \in Bases : Firm(b) \subseteq Mine(b) /\ (~At("write") => Firm(b) = Mine(b))
  BY GitBounds, FirmIsMine DEF GitIInv
<1>1. There /\ (Committed(w) <=> Held(w))
  BY DEF Committed, Held, Mine, Dirty
<1>2. There' => (Committed(w) \/ \E c \in Chunks : w \in dir[c].dirty)'
  BY DEF Committed, Held, Mine, Dirty
<1>3. CASE Stays \/ \E c \in Chunks : Adopts(c)
  BY <1>1, <1>2, <1>3 DEF Stays, Adopts, BranchesStand, DirtStands, Held
<1>4. ASSUME NEW c \in Chunks, Committing(c) PROVE There'
  BY <1>1, <1>4 DEF Committing, BranchesStand, DirtStands, Held
<1>5. ASSUME NEW c \in Chunks, NEW v \in Work, Writes(c, v) PROVE There'
  BY <1>1, <1>5 DEF Writes, BranchesStand, DirtStands, Held
<1>6. ASSUME NEW c \in Chunks, NEW b \in Bases, Branches(c, b) \/ Merges(c, b) PROVE There'
  BY <1>1, <1>6 DEF Branches, Merges, BranchesStand, DirtStands, Held
<1>7. ASSUME NEW c \in Chunks, NEW b \in Bases, Overwrites(c, b) PROVE There'
  <2>1. CASE \E d \in Chunks : w \in Dirty(d) \/ w \in Mine(d)
    BY <1>0, <1>7, <2>1 DEF Overwrites, BranchesStand, DirtStands, Held
  <2>2. CASE \E x \in Bases : w \in Mine(x) /\ \A d \in Chunks : w \notin Mine(d)
    <3>1. PICK x \in Bases : w \in Firm(x)
      BY <2>2 DEF GitIInv, Placed, BasesKeep, Firmly
    <3>2. w \in Mine(x)'
      BY <1>0, <1>7, <3>1 DEF Overwrites, BranchesStand
    <3> QED  BY <3>2 DEF Held
  <2> QED  BY <1>1, <2>1, <2>2 DEF Held
<1>8. ASSUME NEW c \in Chunks, Removes(c)
      PROVE  \/ There'
             \/ Idle /\ ~Held(w)
             \/ \E d \in deleting : d.force /\ d \notin deleting' /\ w \in Commits(d.chunk)
  <2>1. CASE \E x \in Bases \union Chunks : x # c /\ w \in Mine(x)
    BY <1>8, <2>1 DEF Removes, BranchesStand, Held
  <2>2. CASE w \in Mine(c)
    BY <1>0, <1>8, <2>2 DEF Removes, BranchesStand, Held, Mine
  <2>3. CASE ~Held(w)
    BY <1>1, <1>8, <2>3 DEF Removes, DirtStands
  <2> QED  BY <2>1, <2>2, <2>3 DEF Held
<1> QED  BY <1>1, <1>2, <1>3, <1>4, <1>5, <1>6, <1>7, <1>8 DEF GitEffect

\* No finalization, prune, recovery or crash loses what an agent did: only a removal of the
\* worktree what is not committed, and a DELETE with force what is.
THEOREM WorkAlwaysSurvives == GitSpec => WorkSurvives
<1>1. GitIInv /\ [GitNext]_gitVars =>
        [\A w \in Work :
           LET kept == Committed(w) \/ \E c \in Chunks : w \in dir[c].dirty
           IN  kept => \/ kept'
                       \/ Idle /\ ~Committed(w)
                       \/ \E d \in deleting : d.force /\ d \notin deleting' /\ w \in Commits(d.chunk)]_gitVars
  BY GitNextIInv, WorkSurvivesStep
<1> QED  BY <1>1, GitInvariant, PTL DEF GitSpec, WorkSurvives

-----------------------------------------------------------------------------
(* The database. *)

\* A script is a sequence of the two kinds of statements, with its tables after its columns.
LEMMA ScriptType ==
  ASSUME NEW v \in Versions
  PROVE  /\ Script(v) \in Seq({"column", "tables"})
         /\ v \in WithTables => \E i \in DOMAIN Script(v) : Script(v)[i] = "tables"
         /\ v \notin WithTables => \A i \in DOMAIN Script(v) : Script(v)[i] # "tables"
<1> DEFINE S == {"column", "tables"}
           A == IF v \in WithTwoColumns THEN <<"column", "column">>
                ELSE IF v \in WithOneColumn THEN <<"column">> ELSE <<>>
           B == IF v \in WithTables THEN <<"tables">> ELSE <<>>
<1>0. A \in {<<"column", "column">>, <<"column">>, <<>>} /\ B \in {<<"tables">>, <<>>}
  OBVIOUS
<1>3. (v \in WithTables => B = <<"tables">>) /\ (v \notin WithTables => B = <<>>)
  OBVIOUS
<1>4. Script(v) = A \o B
  BY DEF Script
<1> HIDE DEF A, B
<1>a. ASSUME NEW T, NEW x \in T
      PROVE  /\ <<>> \in Seq(T) /\ Len(<<>>) = 0
             /\ <<x>> \in Seq(T) /\ Len(<<x>>) = 1 /\ <<x>>[1] = x
             /\ <<x, x>> \in Seq(T) /\ Len(<<x, x>>) = 2 /\ \A i \in 1 .. 2 : <<x, x>>[i] = x
  OBVIOUS
<1>1. A \in Seq(S) /\ \A i \in 1 .. Len(A) : A[i] = "column"
  <2>1. "column" \in S
    OBVIOUS
  <2> HIDE DEF S
  <2>2. CASE A = <<"column">>
    BY <1>a, <2>1, <2>2
  <2>3. CASE A = <<>>
    BY <1>a, <2>1, <2>3
  <2>4. CASE A = <<"column", "column">>
    BY <1>a, <2>1, <2>4
  <2> QED  BY <1>0, <2>2, <2>3, <2>4
<1>2. B \in Seq(S) /\ \A i \in 1 .. Len(B) : B[i] = "tables"
  <2>1. "tables" \in S
    OBVIOUS
  <2> HIDE DEF S
  <2>2. CASE B = <<"tables">>
    BY <1>a, <2>1, <2>2
  <2>3. CASE B = <<>>
    BY <1>a, <2>1, <2>3
  <2> QED  BY <1>0, <2>2, <2>3
<1>5. /\ A \o B \in Seq(S) /\ Len(A \o B) = Len(A) + Len(B)
      /\ \A i \in 1 .. Len(A) + Len(B) : (A \o B)[i] = IF i <= Len(A) THEN A[i] ELSE B[i - Len(A)]
  BY <1>1, <1>2, ConcatProperties
<1>6. DOMAIN Script(v) = 1 .. Len(A) + Len(B)
  BY <1>4, <1>5
<1>7. Len(A) \in Nat /\ Len(B) \in Nat
  BY <1>1, <1>2
<1>8. ASSUME v \in WithTables PROVE \E i \in DOMAIN Script(v) : Script(v)[i] = "tables"
  <2>0. Len(B) = 1
    BY <1>3, <1>8, <1>a
  <2>1. Script(v)[Len(A) + 1] = "tables" /\ Len(A) + 1 \in DOMAIN Script(v)
    BY <1>2, <1>4, <1>5, <1>6, <1>7, <2>0
  <2> QED  BY <2>1
<1>9. ASSUME v \notin WithTables, NEW i \in DOMAIN Script(v) PROVE Script(v)[i] # "tables"
  <2>0. Len(B) = 0
    BY <1>3, <1>9
  <2> QED  BY <1>1, <1>4, <1>5, <1>6, <1>7, <2>0
<1> QED  BY <1>4, <1>5, <1>8, <1>9

\* The places of a script, and what the mapped statements are.
LEMMA ScriptPlaces ==
  ASSUME NEW v \in Versions
  PROVE  /\ Len(Script(v)) \in Nat /\ DOMAIN Script(v) = 1 .. Len(Script(v))
         /\ \A i \in DOMAIN Script(v) : Script(v)[i] \in {"column", "tables"}
         /\ ColumnsOf[v] = {<<v, i>> : i \in {j \in DOMAIN Script(v) : Script(v)[j] = "column"}}
BY ScriptType DEF ColumnsOf

-----------------------------------------------------------------------------
OpenerPlaces == {"off", "failed", "scheduler's", "api's", "status", "migrate", "serving"}

StoreTypes ==
  /\ file \in BOOLEAN /\ tables \subseteq WithTables /\ columns \subseteq AllColumns
  /\ opener \in [Openers -> [at : OpenerPlaces, version : Nat, next : Nat]]
  /\ \A o \in StatusCommands : opener[o].at \in {"off", "status", "migrate"}
  /\ opener["daemon"].at # "status"
  /\ storeKills \in 0 .. MaxStoreKills

\* Who migrates has recorded what comes before its version, and applied what comes before
\* its statement.
Passed(o) ==
  LET v == opener[o].version  n == opener[o].next
  IN  opener[o].at = "migrate" =>
        /\ v \in Versions /\ n \in 1 .. Len(Script(v)) + 1
        /\ \A w \in Versions : w < v => w \in recorded
        /\ \A i \in 1 .. n - 1 : /\ Script(v)[i] = "column" => <<v, i>> \in columns
                                 /\ Script(v)[i] = "tables" => v \in tables

\* Unless a process was killed, a column of a version that is not recorded has one who added
\* it and is still at that version.
Owned ==
  storeKills = 0 => \A v \in Versions \ recorded : \A i \in DOMAIN Script(v) :
    <<v, i>> \in columns => \E o \in Openers : Migrating(o, v) /\ opener[o].next > i

\* Unless a process was killed, somebody is at the next version when another has fallen
\* behind or failed.
Behind(o) == opener[o].at = "failed" \/ (opener[o].at = "migrate" /\ opener[o].version \in recorded)
Led ==
  storeKills = 0 /\ (\E o \in Openers : Behind(o)) =>
    \A v \in Versions : recorded = 1 .. v - 1 => \E o \in Openers : Migrating(o, v)

\* The inductive invariant of the database.
StoreIInv ==
  /\ StoreTypes /\ \E k \in 0 .. CurrentVersion : recorded = 1 .. k
  /\ \A v \in recorded : Applied(v)
  /\ \A o \in Openers : Passed(o)
  /\ opener["daemon"].at \in {"api's", "serving"} => recorded = Versions
  /\ Owned /\ Led

\* What initialize reads is the last of the versions.
LEMMA SchemaVersionIs ==
  ASSUME NEW k \in 0 .. CurrentVersion, recorded = 1 .. k
  PROVE  SchemaVersion = k
<1>1. k \in recorded \cup {0} /\ \A w \in recorded : w <= k
  BY DEF CurrentVersion
<1>2. \A v \in recorded \cup {0} : (\A w \in recorded : w <= v) => v = k
  BY DEF CurrentVersion
<1> QED  BY <1>1, <1>2 DEF SchemaVersion

\* A database as a version of the program left it, with no opener at work, satisfies it.
LEMMA StoreInitIInv == StoreInit => StoreIInv
<1> SUFFICES ASSUME StoreInit PROVE StoreIInv
  OBVIOUS
<1>1. PICK k \in 0 .. CurrentVersion :
        /\ file = (k > 0) /\ recorded = 1 .. k
        /\ columns = UNION {ColumnsOf[v] : v \in 1 .. k} /\ tables = WithTables \cap 1 .. k
  BY DEF StoreInit
<1>2. 1 .. k \subseteq Versions /\ k \in Nat
  BY DEF Versions, CurrentVersion
<1>3. \A o \in Openers : opener[o].at = "off"
  BY DEF StoreInit, Closed
<1>4. StoreTypes
  <2>1. columns \subseteq AllColumns
    BY <1>1, <1>2 DEF AllColumns
  <2>2. opener \in [Openers -> [at : OpenerPlaces, version : Nat, next : Nat]]
    BY DEF StoreInit, Closed, OpenerPlaces
  <2>3. storeKills \in 0 .. MaxStoreKills
    BY StoreBound DEF StoreInit
  <2>4. file \in BOOLEAN
    BY <1>1
  <2>5. tables \subseteq WithTables
    BY <1>1
  <2> QED  BY <1>3, <2>1, <2>2, <2>3, <2>4, <2>5 DEF StoreTypes, Openers
<1>5. \A v \in recorded : Applied(v)
  BY <1>1 DEF Applied
<1>6. Owned
  <2> SUFFICES ASSUME NEW v \in Versions \ recorded, NEW i \in DOMAIN Script(v), <<v, i>> \in columns
               PROVE  FALSE
    BY DEF Owned
  <2>1. PICK w \in 1 .. k : <<v, i>> \in ColumnsOf[w]
    BY <1>1
  <2>2. v = w
    BY <1>2, <2>1, ScriptPlaces
  <2> QED  BY <1>1, <2>2
<1>7. Led /\ \A o \in Openers : Passed(o)
  BY <1>3 DEF Led, Behind, Passed
<1> QED  BY <1>1, <1>3, <1>4, <1>5, <1>6, <1>7 DEF StoreIInv, Openers

\* Every step of an opener, and of what kills it, keeps it.
LEMMA StoreNextIInv == StoreIInv /\ [StoreNext]_storeVars => StoreIInv'
<1> SUFFICES ASSUME StoreIInv, [StoreNext]_storeVars PROVE StoreIInv'
  OBVIOUS
<1>0. /\ "daemon" \in Openers /\ \A o \in StatusCommands : o \in Openers /\ o # "daemon"
      /\ \A o \in Openers : o = "daemon" \/ o \in StatusCommands
  BY StoreBound DEF Openers
<1>1. PICK k \in 0 .. CurrentVersion : recorded = 1 .. k
  BY DEF StoreIInv
<1>2. k \in Nat /\ Versions \subseteq Nat /\ 0 \notin Versions /\ recorded \subseteq Versions
      /\ \A v \in Versions : v \in recorded <=> v <= k
  BY <1>1 DEF Versions, CurrentVersion
<1>3. /\ opener \in [Openers -> [at : OpenerPlaces, version : Nat, next : Nat]]
      /\ \A o \in Openers : opener[o].at \in OpenerPlaces /\ opener[o].version \in Nat /\ opener[o].next \in Nat
  BY DEF StoreIInv, StoreTypes
\* A step of an opener that does not migrate, and neither fails nor begins to.
<1>4. ASSUME NEW o \in Openers, NEW r \in [at : OpenerPlaces, version : Nat, next : Nat],
             opener' = [opener EXCEPT ![o] = r], r.at \notin {"migrate", "failed"},
             opener[o].at # "migrate", file' \in BOOLEAN,
             UNCHANGED <<recorded, columns, tables, storeKills>>,
             o # "daemon" => r.at \in {"off", "status"}, o = "daemon" => r.at # "status",
             r.at \in {"api's", "serving"} => recorded = Versions
      PROVE  StoreIInv'
  <2>1. \A p \in Openers : p # o => opener'[p] = opener[p]
    BY <1>3, <1>4
  <2>2. opener'[o] = r
    BY <1>3, <1>4
  <2>3. StoreTypes'
    BY <1>0, <1>3, <1>4, <2>1, <2>2 DEF StoreIInv, StoreTypes
  <2>4. \A p \in Openers : Passed(p)'
    BY <1>4, <2>1, <2>2 DEF StoreIInv, Passed
  <2>5. \A v \in Versions, p \in Openers : Migrating(p, v)' <=> Migrating(p, v)
    BY <1>4, <2>1, <2>2 DEF Migrating
  <2>6. Owned'
    BY <1>4, <2>1, <2>5 DEF StoreIInv, Owned, Migrating
  <2>7. Led'
    BY <1>4, <2>1, <2>2, <2>5 DEF StoreIInv, Led, Behind
  <2>8. (opener["daemon"].at \in {"api's", "serving"} => recorded = Versions)'
    BY <1>0, <1>4, <2>1, <2>2 DEF StoreIInv
  <2> QED  BY <1>4, <2>3, <2>4, <2>6, <2>7, <2>8 DEF StoreIInv, Applied
<1>5. CASE DaemonOpens
  <2> DEFINE r == [opener["daemon"] EXCEPT !.at = "scheduler's"]
  <2>1. r \in [at : OpenerPlaces, version : Nat, next : Nat] /\ r.at = "scheduler's"
    BY <1>0, <1>3 DEF OpenerPlaces
  <2>2. opener' = [opener EXCEPT !["daemon"] = r]
    BY <1>5 DEF DaemonOpens, OpenerAt
  <2> HIDE DEF r
  <2> QED  BY <1>0, <1>4, <1>5, <2>1, <2>2 DEF DaemonOpens, StoreIInv, StoreTypes
<1>6. CASE DaemonStops
  <2> DEFINE r == [opener["daemon"] EXCEPT !.at = "off"]
  <2>1. r \in [at : OpenerPlaces, version : Nat, next : Nat] /\ r.at = "off"
    BY <1>0, <1>3 DEF OpenerPlaces
  <2>2. opener' = [opener EXCEPT !["daemon"] = r]
    BY <1>6 DEF DaemonStops, OpenerAt
  <2> HIDE DEF r
  <2> QED  BY <1>0, <1>4, <1>6, <2>1, <2>2 DEF DaemonStops, StoreIInv, StoreTypes
<1>7. ASSUME NEW o \in Openers, StatusOpens(o) PROVE StoreIInv'
  <2> DEFINE r == [opener[o] EXCEPT !.at = "status"]
  <2>1. r \in [at : OpenerPlaces, version : Nat, next : Nat] /\ r.at = "status"
    BY <1>0, <1>3 DEF OpenerPlaces
  <2>2. opener' = [opener EXCEPT ![o] = r]
    BY <1>7 DEF StatusOpens, OpenerAt
  <2> HIDE DEF r
  <2> QED  BY <1>0, <1>4, <1>7, <2>1, <2>2 DEF StatusOpens, StoreIInv, StoreTypes
<1>8. ASSUME NEW o \in Openers, ReadVersion(o) PROVE StoreIInv'
  <2>0. SchemaVersion = k
    BY <1>1, SchemaVersionIs
  <2>1. CASE k = CurrentVersion
    <3>1. Opened(o) \in [at : OpenerPlaces, version : Nat, next : Nat]
      BY DEF Opened, Closed, OpenerPlaces
    <3>2. /\ o # "daemon" => Opened(o).at = "off"
          /\ o = "daemon" => Opened(o).at \in {"api's", "serving"}
      BY DEF Opened, Closed
    <3>3. recorded = Versions
      BY <1>1, <2>1 DEF Versions
    <3> QED  BY <1>0, <1>4, <1>8, <2>0, <2>1, <3>1, <3>2, <3>3 DEF ReadVersion
  <2>2. CASE k # CurrentVersion
    <3> DEFINE r == [at |-> "migrate", version |-> k + 1, next |-> 1]
    <3>1. /\ opener' = [opener EXCEPT ![o] = r] /\ file' = TRUE
          /\ UNCHANGED <<recorded, columns, tables, storeKills>>
          /\ opener[o].at \in {"scheduler's", "api's", "status"}
      BY <1>8, <2>0, <2>2 DEF ReadVersion
    <3>2. r \in [at : OpenerPlaces, version : Nat, next : Nat] /\ k + 1 \in Versions /\ k + 1 \notin recorded
      BY <1>2, <2>2 DEF OpenerPlaces, Versions, CurrentVersion
    <3>3. \A p \in Openers : p # o => opener'[p] = opener[p]
      BY <1>3, <3>1
    <3>4. opener'[o].at = "migrate" /\ opener'[o].version = k + 1 /\ opener'[o].next = 1
      BY <1>3, <3>1
    <3>5. opener' \in [Openers -> [at : OpenerPlaces, version : Nat, next : Nat]]
      BY <1>3, <3>1, <3>2
    <3> HIDE DEF r
    <3>6. StoreTypes'
      BY <1>0, <3>1, <3>3, <3>4, <3>5 DEF StoreIInv, StoreTypes
    <3>7. \A p \in Openers : Passed(p)'
      <4>1. Passed(o)'
        BY <1>2, <3>1, <3>2, <3>4, ScriptPlaces DEF Passed
      <4> QED  BY <3>1, <3>3, <4>1 DEF StoreIInv, Passed
    <3>8. Owned'
      BY <3>1, <3>3 DEF StoreIInv, Owned, Migrating
    <3>9. Led'
      <4> SUFFICES ASSUME NEW v \in Versions, recorded = 1 .. v - 1
                   PROVE  \E p \in Openers : Migrating(p, v)'
        BY <3>1 DEF Led
      <4>1. v = k + 1
        BY <1>1, <1>2
      <4> QED  BY <3>4, <4>1 DEF Migrating
    <3>10. (opener["daemon"].at \in {"api's", "serving"} => recorded = Versions)'
      BY <1>0, <3>1, <3>3, <3>4 DEF StoreIInv
    <3> QED  BY <3>1, <3>6, <3>7, <3>8, <3>9, <3>10 DEF StoreIInv, Applied
  <2> QED  BY <2>1, <2>2
\* A step of an opener that migrates.
<1>m. ASSUME NEW o \in Openers, opener[o].at = "migrate"
      PROVE  /\ opener[o].version \in Versions
             /\ opener[o].next \in 1 .. Len(Script(opener[o].version)) + 1
             /\ opener[o].version \notin recorded => opener[o].version = k + 1
             /\ DOMAIN Script(opener[o].version) = 1 .. Len(Script(opener[o].version))
             /\ Len(Script(opener[o].version)) \in Nat
  <2>1. Passed(o)
    BY DEF StoreIInv
  <2>2. opener[o].version \in Versions /\ opener[o].next \in 1 .. Len(Script(opener[o].version)) + 1
    BY <1>m, <2>1 DEF Passed
  <2>3. ASSUME opener[o].version \notin recorded PROVE opener[o].version = k + 1
    <3>1. opener[o].version > k /\ opener[o].version \in Nat
      <4>1. ~(opener[o].version <= k) /\ opener[o].version \in Nat
        BY <1>2, <2>2, <2>3
      <4> QED  BY <1>2, <4>1
    <3>2. k + 1 \in Versions
      <4>1. opener[o].version \in 1 .. 16
        BY <2>2 DEF Versions, CurrentVersion
      <4>2. k \in Nat
        BY <1>2
      <4> QED  BY <3>1, <4>1, <4>2 DEF Versions, CurrentVersion
    <3>3. k + 1 < opener[o].version => k + 1 \in recorded
      BY <1>m, <2>1, <3>2 DEF Passed
    <3>4. k + 1 \notin recorded
      BY <1>1, <1>2
    <3> QED  BY <1>2, <3>1, <3>3, <3>4
  <2> QED  BY <2>2, <2>3, ScriptPlaces
<1>9. ASSUME NEW o \in Openers, opener[o].at = "migrate", opener' = [opener EXCEPT ![o] = Failed(o)],
             UNCHANGED <<file, recorded, columns, tables, storeKills>>,
             storeKills = 0 /\ opener[o].version \notin recorded =>
               \E q \in Openers : /\ q # o /\ Migrating(q, opener[o].version)
                                  /\ opener[q].next > opener[o].next
      PROVE  StoreIInv'
  <2>1. /\ Failed(o) \in [at : OpenerPlaces, version : Nat, next : Nat]
        /\ Failed(o).at = IF o = "daemon" THEN "failed" ELSE "off"
    BY DEF Failed, Closed, OpenerPlaces
  <2>2. /\ \A p \in Openers : p # o => opener'[p] = opener[p]
        /\ opener'[o] = Failed(o)
    BY <1>3, <1>9
  <2>3. StoreTypes'
    BY <1>0, <1>3, <1>9, <2>1, <2>2 DEF StoreIInv, StoreTypes
  <2>4. \A p \in Openers : Passed(p)'
    BY <1>9, <2>1, <2>2 DEF StoreIInv, Passed
  <2>5. Owned'
    <3> SUFFICES ASSUME storeKills = 0, NEW v \in Versions \ recorded, NEW i \in DOMAIN Script(v), <<v, i>> \in columns
                 PROVE  \E p \in Openers : Migrating(p, v)' /\ opener'[p].next > i
      BY <1>9 DEF Owned
    <3>1. PICK p \in Openers : Migrating(p, v) /\ opener[p].next > i
      BY DEF StoreIInv, Owned
    <3>2. CASE p # o
      BY <2>2, <3>1, <3>2 DEF Migrating
    <3>3. CASE p = o
      <4>1. PICK q \in Openers : q # o /\ Migrating(q, v) /\ opener[q].next > opener[o].next
        BY <1>9, <3>1, <3>3 DEF Migrating
      <4>2. i \in Nat
        BY ScriptPlaces
      <4> QED  BY <1>3, <2>2, <3>1, <3>3, <4>1, <4>2 DEF Migrating
    <3> QED  BY <3>2, <3>3
  <2>6. Led'
    <3> SUFFICES ASSUME storeKills = 0, \E p \in Openers : Behind(p)', NEW v \in Versions, recorded = 1 .. v - 1
                 PROVE  \E p \in Openers : Migrating(p, v)'
      BY <1>9 DEF Led
    <3>1. v = k + 1 /\ v \notin recorded
      BY <1>1, <1>2
    <3>2. CASE \E p \in Openers : Migrating(p, v)
      <4>1. PICK p \in Openers : Migrating(p, v)
        BY <3>2
      <4>2. CASE p # o
        BY <2>2, <4>1, <4>2 DEF Migrating
      <4>3. CASE p = o
        BY <1>9, <2>2, <3>1, <4>1, <4>3 DEF Migrating
      <4> QED  BY <4>2, <4>3
    <3>3. CASE \A p \in Openers : ~Migrating(p, v)
      <4>1. \A p \in Openers : ~Behind(p)
        BY <3>3 DEF StoreIInv, Led
      <4>2. \A p \in Openers : p # o => ~Behind(p)'
        BY <1>9, <2>2, <4>1 DEF Behind
      <4>3. opener[o].version \notin recorded
        BY <1>9, <4>1 DEF Behind
      <4> QED  BY <1>9, <1>m, <3>1, <3>3, <4>3 DEF Migrating
    <3> QED  BY <3>2, <3>3
  <2>7. (opener["daemon"].at \in {"api's", "serving"} => recorded = Versions)'
    BY <1>0, <1>9, <2>1, <2>2 DEF StoreIInv
  <2> QED  BY <1>9, <2>3, <2>4, <2>5, <2>6, <2>7 DEF StoreIInv, Applied
\* It goes to its next statement.
<1>10. ASSUME NEW o \in Openers, AtStatement(o), opener' = [opener EXCEPT ![o].next = @ + 1],
              UNCHANGED <<file, recorded, storeKills>>,
              \/ columns' = columns \cup {Statement(o)} /\ tables' = tables
                 /\ Script(opener[o].version)[opener[o].next] = "column"
              \/ tables' = tables \cup {opener[o].version} /\ columns' = columns
                 /\ Script(opener[o].version)[opener[o].next] = "tables"
       PROVE  StoreIInv'
  <2> DEFINE v == opener[o].version  n == opener[o].next
  <2>0. /\ opener[o].at = "migrate" /\ n \in DOMAIN Script(v) /\ v \in Versions
        /\ DOMAIN Script(v) = 1 .. Len(Script(v)) /\ Len(Script(v)) \in Nat /\ n \in Nat
    BY <1>3, <1>10, <1>m DEF AtStatement
  <2>2. /\ \A p \in Openers : p # o => opener'[p] = opener[p]
        /\ opener'[o].at = "migrate" /\ opener'[o].version = v /\ opener'[o].next = n + 1
        /\ opener' \in [Openers -> [at : OpenerPlaces, version : Nat, next : Nat]]
    BY <1>3, <1>10, <2>0
  <2>3. columns \subseteq columns' /\ tables \subseteq tables'
    BY <1>10
  <2>4. StoreTypes'
    <3>1. columns' \subseteq AllColumns
      <4>1. Script(v)[n] = "column" => <<v, n>> \in ColumnsOf[v]
        BY <2>0, ScriptPlaces
      <4>2. Script(v)[n] = "column" => <<v, n>> \in AllColumns
        BY <2>0, <4>1 DEF AllColumns
      <4> QED  BY <1>10, <4>2 DEF StoreIInv, StoreTypes, Statement
    <3>2. tables' \subseteq WithTables
      BY <1>10, <2>0, ScriptType DEF StoreIInv, StoreTypes
    <3> QED  BY <1>0, <1>10, <2>0, <2>2, <3>1, <3>2 DEF StoreIInv, StoreTypes
  <2>5. \A p \in Openers : Passed(p)'
    <3>1. \A p \in Openers : p # o => Passed(p)'
      BY <1>10, <2>2, <2>3 DEF StoreIInv, Passed
    <3>2. Passed(o)'
      <4>1. Passed(o)
        BY DEF StoreIInv
      <4>2. \A i \in 1 .. n : i \in 1 .. n - 1 \/ i = n
        BY <2>0
      <4>3. /\ Script(v)[n] = "column" => <<v, n>> \in columns'
            /\ Script(v)[n] = "tables" => v \in tables'
        BY <1>10 DEF Statement
      <4>4. \A i \in 1 .. n : /\ Script(v)[i] = "column" => <<v, i>> \in columns'
                              /\ Script(v)[i] = "tables" => v \in tables'
        BY <2>0, <2>3, <4>1, <4>2, <4>3 DEF Passed
      <4>5. n + 1 \in 1 .. Len(Script(v)) + 1 /\ (n + 1) - 1 = n
        BY <2>0
      <4> QED  BY <1>10, <2>0, <2>2, <4>1, <4>4, <4>5 DEF Passed
    <3> QED  BY <3>1, <3>2
  <2>6. Owned'
    <3> SUFFICES ASSUME storeKills = 0, NEW w \in Versions \ recorded, NEW i \in DOMAIN Script(w),
                        <<w, i>> \in columns'
                 PROVE  \E p \in Openers : Migrating(p, w)' /\ opener'[p].next > i
      BY <1>10 DEF Owned
    <3>1. CASE <<w, i>> \in columns
      <4>1. PICK p \in Openers : Migrating(p, w) /\ opener[p].next > i
        BY <3>1 DEF StoreIInv, Owned
      <4>2. i \in Nat
        BY ScriptPlaces
      <4>3. CASE p # o
        BY <2>2, <4>1, <4>3 DEF Migrating
      <4>4. CASE p = o
        BY <2>0, <2>2, <4>1, <4>2, <4>4 DEF Migrating
      <4> QED  BY <4>3, <4>4
    <3>2. CASE <<w, i>> = <<v, n>>
      BY <2>0, <2>2, <3>2 DEF Migrating
    <3> QED  BY <1>10, <3>1, <3>2 DEF Statement
  <2>7. Led'
    BY <1>10, <2>0, <2>2 DEF StoreIInv, Led, Behind, Migrating
  <2>8. (opener["daemon"].at \in {"api's", "serving"} => recorded = Versions)'
    BY <1>0, <1>10, <2>2 DEF StoreIInv
  <2> QED  BY <1>10, <2>3, <2>4, <2>5, <2>6, <2>7, <2>8 DEF StoreIInv, Applied
<1>11. ASSUME NEW o \in Openers, AddColumn(o) PROVE StoreIInv'
  <2>0. AtStatement(o) /\ opener[o].at = "migrate"
    BY <1>11 DEF AddColumn, AtStatement
  <2>1. CASE Statement(o) \notin columns
    BY <1>10, <1>11, <2>0, <2>1 DEF AddColumn
  <2>2. CASE Statement(o) \in columns
    <3>1. storeKills = 0 /\ opener[o].version \notin recorded =>
            \E q \in Openers : /\ Migrating(q, opener[o].version) /\ opener[q].next > opener[o].next
      BY <1>m, <2>0, <2>2 DEF StoreIInv, Owned, Statement, AtStatement
    <3>2. ~(opener[o].next > opener[o].next)
      BY <1>3
    <3> QED  BY <1>9, <1>11, <2>0, <2>2, <3>1, <3>2 DEF AddColumn
  <2> QED  BY <2>1, <2>2
<1>12. ASSUME NEW o \in Openers, CreateTables(o) PROVE StoreIInv'
  BY <1>10, <1>12 DEF CreateTables
<1>13. ASSUME NEW o \in Openers, Record(o) PROVE StoreIInv'
  <2> DEFINE v == opener[o].version  n == opener[o].next
  <2>0. /\ opener[o].at = "migrate" /\ n \notin DOMAIN Script(v) /\ v \in Versions
        /\ DOMAIN Script(v) = 1 .. Len(Script(v)) /\ Len(Script(v)) \in Nat /\ n \in Nat
        /\ n \in 1 .. Len(Script(v)) + 1
    BY <1>3, <1>13, <1>m DEF AtStatement, Record
  <2>1. CASE v \in recorded
    BY <1>9, <1>13, <2>0, <2>1 DEF Record
  <2>2. CASE v \notin recorded
    <3>0. v = k + 1 /\ k + 1 \in 0 .. CurrentVersion /\ v \in Nat
      BY <1>2, <1>m, <2>0, <2>2 DEF Versions
    <3>1. /\ recorded' = recorded \cup {v} /\ UNCHANGED <<file, columns, tables, storeKills>>
          /\ opener' = [opener EXCEPT ![o] = IF v < CurrentVersion THEN [@ EXCEPT !.version = v + 1, !.next = 1]
                                              ELSE Opened(o)]
      BY <1>13, <2>2 DEF Record
    <3>2. recorded' = 1 .. k + 1
      BY <1>1, <1>2, <3>0, <3>1
    <3>3. Applied(v)
      <4>1. n - 1 = Len(Script(v)) /\ Passed(o)
        BY <2>0 DEF StoreIInv
      <4>2. \A i \in DOMAIN Script(v) : /\ Script(v)[i] = "column" => <<v, i>> \in columns
                                        /\ Script(v)[i] = "tables" => v \in tables
        BY <2>0, <4>1 DEF Passed
      <4>3. ColumnsOf[v] \subseteq columns
        BY <2>0, <4>2, ScriptPlaces
      <4>4. v \in WithTables => v \in tables
        BY <2>0, <4>2, ScriptType
      <4> QED  BY <4>3, <4>4 DEF Applied
    <3>4. \A p \in Openers : p # o => opener'[p] = opener[p]
      BY <1>3, <3>1
    <3>5. opener["daemon"].at \notin {"api's", "serving"}
      BY <2>0, <2>2 DEF StoreIInv
    <3>6. CASE v < CurrentVersion
      <4>1. /\ opener'[o].at = "migrate" /\ opener'[o].version = v + 1 /\ opener'[o].next = 1
            /\ opener' \in [Openers -> [at : OpenerPlaces, version : Nat, next : Nat]]
            /\ v + 1 \in Versions
        <5>1. v + 1 \in Versions /\ v + 1 \in Nat
          BY <3>0, <3>6 DEF Versions, CurrentVersion
        <5>2. opener' = [opener EXCEPT ![o] = [@ EXCEPT !.version = v + 1, !.next = 1]]
          BY <3>1, <3>6
        <5> HIDE DEF v
        <5> QED  BY <1>3, <2>0, <5>1, <5>2
      <4>2. StoreTypes'
        BY <1>0, <2>0, <3>1, <3>4, <4>1 DEF StoreIInv, StoreTypes
      <4>3. \A p \in Openers : Passed(p)'
        <5>1. \A p \in Openers : p # o => Passed(p)'
          BY <3>1, <3>4 DEF StoreIInv, Passed
        <5>2. Passed(o)'
          <6>1. \A w \in Versions : w < v + 1 => w \in recorded'
            <7> HIDE DEF v
            <7> SUFFICES ASSUME NEW w \in Versions, w < v + 1 PROVE w \in recorded'
              OBVIOUS
            <7>1. w \in Nat /\ w # 0
              BY <1>2
            <7>2. w \in 1 .. k + 1
              BY <1>2, <3>0, <7>1
            <7> QED  BY <3>2, <7>2
          <6> QED  BY <4>1, <6>1, ScriptPlaces DEF Passed
        <5> QED  BY <5>1, <5>2
      <4>4. Owned'
        <5> SUFFICES ASSUME storeKills = 0, NEW w \in Versions \ recorded', NEW i \in DOMAIN Script(w),
                            <<w, i>> \in columns
                     PROVE  \E p \in Openers : Migrating(p, w)' /\ opener'[p].next > i
          BY <3>1 DEF Owned
        <5>1. PICK p \in Openers : Migrating(p, w) /\ opener[p].next > i
          BY <3>1 DEF StoreIInv, Owned
        <5>2. p # o
          BY <3>1, <5>1 DEF Migrating
        <5> QED  BY <3>4, <5>1, <5>2 DEF Migrating
      <4>5. Led'
        <5> SUFFICES ASSUME NEW w \in Versions, recorded' = 1 .. w - 1
                     PROVE  \E p \in Openers : Migrating(p, w)'
          BY DEF Led
        <5>1. w = v + 1
          BY <1>2, <3>0, <3>2
        <5> QED  BY <4>1, <5>1 DEF Migrating
      <4>6. opener'["daemon"].at \notin {"api's", "serving"}
        BY <1>0, <3>4, <3>5, <4>1
      <4>7. \A w \in recorded' : Applied(w)'
        BY <3>1, <3>3 DEF StoreIInv, Applied
      <4> QED  BY <3>0, <3>2, <4>2, <4>3, <4>4, <4>5, <4>6, <4>7 DEF StoreIInv
    <3>7. CASE ~(v < CurrentVersion)
      <4>0. v = CurrentVersion /\ recorded' = Versions
        <5>1. v \in 0 .. 16
          BY <3>0 DEF CurrentVersion
        <5>2. v = 16
          BY <3>7, <5>1 DEF CurrentVersion
        <5>3. recorded' = 1 .. v
          BY <3>0, <3>2
        <5> QED  BY <5>2, <5>3 DEF Versions, CurrentVersion
      <4>1. /\ Opened(o) \in [at : OpenerPlaces, version : Nat, next : Nat]
            /\ o # "daemon" => Opened(o).at = "off"
            /\ o = "daemon" => Opened(o).at \in {"api's", "serving"}
        BY DEF Opened, Closed, OpenerPlaces
      <4>2. opener'[o] = Opened(o) /\ opener' \in [Openers -> [at : OpenerPlaces, version : Nat, next : Nat]]
        BY <1>3, <3>1, <3>7, <4>1
      <4>3. StoreTypes'
        BY <1>0, <2>0, <3>1, <3>4, <4>1, <4>2 DEF StoreIInv, StoreTypes
      <4>4. \A p \in Openers : Passed(p)'
        BY <1>0, <3>1, <3>4, <4>1, <4>2 DEF StoreIInv, Passed
      <4>5. Owned' /\ Led'
        <5>1. ASSUME NEW w \in Versions PROVE recorded' # 1 .. w - 1
          <6>1. w \in recorded' /\ w \in Nat
            BY <4>0 DEF Versions
          <6> QED  BY <6>1
        <5> QED  BY <4>0, <5>1 DEF Owned, Led
      <4>6. \A w \in recorded' : Applied(w)'
        BY <3>1, <3>3 DEF StoreIInv, Applied
      <4> QED  BY <3>0, <3>2, <4>0, <4>3, <4>4, <4>5, <4>6 DEF StoreIInv
    <3> QED  BY <3>6, <3>7
  <2> QED  BY <2>1, <2>2
<1>14. ASSUME NEW o \in Openers, StoreKill(o) PROVE StoreIInv'
  <2>1. /\ \A p \in Openers : p # o => opener'[p] = opener[p]
        /\ opener'[o] = Closed
        /\ opener' \in [Openers -> [at : OpenerPlaces, version : Nat, next : Nat]]
    BY <1>3, <1>14 DEF StoreKill, Closed, OpenerPlaces
  <2>2. storeKills' # 0 /\ storeKills' \in 0 .. MaxStoreKills
    BY <1>14, StoreBound DEF StoreKill, StoreIInv, StoreTypes
  <2>3. StoreTypes'
    BY <1>0, <1>14, <2>1, <2>2 DEF StoreKill, Closed, StoreIInv, StoreTypes
  <2>4. \A p \in Openers : Passed(p)'
    BY <1>14, <2>1 DEF StoreKill, Closed, StoreIInv, Passed
  <2> QED  BY <1>0, <1>14, <2>1, <2>2, <2>3, <2>4 DEF StoreKill, Closed, StoreIInv, Applied, Owned, Led
<1>15. CASE UNCHANGED storeVars
  BY <1>15 DEF storeVars, StoreIInv, StoreTypes, Applied, Passed, Owned, Led, Behind, Migrating
<1> QED  BY <1>5, <1>6, <1>7, <1>8, <1>11, <1>12, <1>13, <1>14, <1>15 DEF StoreNext

\* It says what the module says of the database.
LEMMA StoreIInvSuffices == StoreIInv => StoreInv
<1> SUFFICES ASSUME StoreIInv PROVE StoreInv
  OBVIOUS
<1>0. /\ "daemon" \in Openers /\ \A o \in Openers : o = "daemon" \/ o \in StatusCommands
  BY StoreBound DEF Openers
<1>1. PICK k \in 0 .. CurrentVersion : recorded = 1 .. k
  BY DEF StoreIInv
<1>2. StoreTypeOK
  <2>1. recorded \subseteq Versions
    BY <1>1 DEF Versions, CurrentVersion
  <2>2. \A o \in Openers : opener[o].at \in OpenerPlaces
    BY DEF StoreIInv, StoreTypes
  <2> QED  BY <2>1, <2>2 DEF StoreTypeOK, StoreIInv, StoreTypes, OpenerPlaces
<1>3. RecordedIsApplied
  <2>1. \A v \in recorded : 1 .. v \subseteq recorded
    BY <1>1
  <2> QED  BY <2>1 DEF RecordedIsApplied, StoreIInv
<1>4. HalfDoneIsInHand
  <2> SUFFICES ASSUME storeKills = 0, NEW v \in Versions \ recorded, NEW x \in ColumnsOf[v] \cap columns
               PROVE  \E o \in Openers : Migrating(o, v)
    BY DEF HalfDoneIsInHand
  <2>1. PICK i \in DOMAIN Script(v) : x = <<v, i>>
    BY ScriptPlaces
  <2> QED  BY <2>1 DEF StoreIInv, Owned
<1>5. FailedWasOvertaken
  <2> SUFFICES ASSUME opener["daemon"].at = "failed", storeKills = 0, recorded # Versions
               PROVE  \E o \in StatusCommands, v \in Versions : Migrating(o, v)
    BY DEF FailedWasOvertaken
  <2>1. k + 1 \in Versions /\ recorded = 1 .. (k + 1) - 1
    BY <1>1 DEF Versions, CurrentVersion
  <2>2. PICK o \in Openers : Migrating(o, k + 1)
    BY <1>0, <2>1 DEF StoreIInv, Led, Behind
  <2>3. o # "daemon"
    BY <2>2 DEF Migrating
  <2> QED  BY <1>0, <2>1, <2>2, <2>3
<1> QED  BY <1>2, <1>3, <1>4, <1>5 DEF StoreInv

\* Whatever commands open the database beside the daemon, and wherever one is killed: a version
\* that is recorded is applied, a column of one that is not has an opener still at work on it,
\* and the daemon fails to open it only because another has gone ahead.
THEOREM StoreCorrect == StoreSpec => []StoreInv
<1>1. StoreInit => StoreIInv
  BY StoreInitIInv
<1>2. StoreIInv /\ [StoreNext]_storeVars => StoreIInv'
  BY StoreNextIInv
<1>3. StoreIInv => StoreInv
  BY StoreIInvSuffices
<1> QED  BY <1>1, <1>2, <1>3, PTL DEF StoreSpec

-----------------------------------------------------------------------------
(* The friction logs. *)

Entries == [num : Nat, text : Nat]
Items == Entries \union [link : Nat] \union [proposal : Nat]
LogFiles == [parses : BOOLEAN, entries : SUBSET Entries, linked : SUBSET Nat, proposed : SUBSET Nat]
LoggerStates ==
  [at : {"idle", "front", "number", "write", "text", "link", "relink", "linkText"}, log : Logs,
   content : LogFiles, front : LogFiles, entry : Entries, todo : SUBSET LogProjects]

FrictionTypes ==
  /\ logFile \in [Logs -> LogFiles] /\ logger \in [Loggers -> LoggerStates]
  /\ written \in Nat /\ spoilt \subseteq Logs
  /\ reported \in [Logs -> SUBSET Items] /\ unseen \in [Logs -> SUBSET Items]

\* A command has read its log, or empties it.
Busy(k) == logger[k].at \notin {"idle", "link"}
Fills(k, r) == logger[k].at \in {"text", "linkText"} /\ logger[k].log = r

TellApart(es) == \A e, f \in es : e.num = f.num => e = f
HasTop(es) == \E m \in {e.num : e \in es} \union {0} : \A e \in es : e.num <= m
InFront(f, item) ==
  \/ \E n \in f.linked : item = [link |-> n]
  \/ \E n \in f.proposed : item = [proposal |-> n]
Standing(r) == reported[r] \ unseen[r]
LinkNumbers == {e.num : e \in reported[LogExternal] \intersect Entries}

\* What a command will write back has what was reported before it read.
Body(k) ==
  Busy(k) /\ logger[k].content.parses /\ logger[k].log \notin spoilt =>
    Standing(logger[k].log) \intersect Entries \subseteq logger[k].content.entries
Front(k) ==
  /\ logger[k].at \in {"number", "write", "text"} /\ logger[k].log \notin spoilt =>
       \A item \in Standing(logger[k].log) \ Entries : InFront(logger[k].front, item)
  /\ logger[k].at \in {"relink", "linkText"} /\ logger[k].log \notin spoilt =>
       \A item \in Standing(logger[k].log) \ Entries : InFront(logger[k].content, item)
Parsed(k) ==
  /\ logger[k].at \in {"number", "write", "text"} => logger[k].front.parses
  /\ logger[k].at \in {"write", "text", "relink", "linkText"} => logger[k].content.parses
Linking(k) ==
  /\ logger[k].at \in {"link", "relink", "linkText"} => logger[k].entry \in reported[LogExternal]
  /\ logger[k].at \in {"front", "number", "write", "text"} /\ logger[k].todo # {} =>
       logger[k].log = LogExternal
  /\ logger[k].content.linked \subseteq LinkNumbers /\ logger[k].front.linked \subseteq LinkNumbers
Reading(k) ==
  /\ Busy(k) => logger[k].content.entries \subseteq reported[logger[k].log]
  /\ Busy(k) /\ logger[k].log \notin spoilt /\ ~Met(logger[k].log) =>
       TellApart(logger[k].content.entries)
  /\ HasTop(logger[k].content.entries)
Sound(k) == Body(k) /\ Front(k) /\ Parsed(k) /\ Linking(k) /\ Reading(k)

\* Its number is new, unless another will write meanwhile.
NumberIsNew(k) ==
  logger[k].at \in {"write", "text"} /\ logger[k].log \notin spoilt /\ ~Met(logger[k].log) =>
    \/ \A e \in logger[k].content.entries : e.num < logger[k].entry.num
    \/ \E j \in Loggers : j # k /\ Fills(j, logger[k].log)

SoundLog(r) ==
  /\ Whole(r) => \A item \in Standing(r) : Has(logFile[r], item)
  /\ logFile[r].entries \subseteq reported[r] /\ HasTop(logFile[r].entries)
  /\ logFile[r].linked \subseteq LinkNumbers
  /\ r \notin spoilt /\ ~Met(r) => TellApart(logFile[r].entries)
  /\ r \notin spoilt /\ ~logFile[r].parses => \E k \in Loggers : Fills(k, r)

\* The inductive invariant of the friction logs.
FrictionIInv ==
  /\ FrictionTypes /\ (\A k \in Loggers : Sound(k) /\ NumberIsNew(k))
  /\ \A r \in Logs : SoundLog(r)

\* Entries, links and proposals are told apart.
LEMMA ItemKinds ==
  /\ \A n : [link |-> n] \notin Entries /\ [proposal |-> n] \notin Entries
  /\ \A n, m : [link |-> n] = [link |-> m] => n = m
  /\ \A n, m : [proposal |-> n] = [proposal |-> m] => n = m
  /\ \A n, m : [link |-> n] # [proposal |-> m]
  /\ \A e \in Entries : DOMAIN e # {"proposal"}
  /\ \A n : DOMAIN [link |-> n] # {"proposal"}
<1>1. \A e \in Entries : DOMAIN e = {"num", "text"}
  BY DEF Entries
<1>2. \A n : DOMAIN [link |-> n] = {"link"} /\ DOMAIN [proposal |-> n] = {"proposal"}
  OBVIOUS
<1>3. {"link"} # {"num", "text"} /\ {"proposal"} # {"num", "text"} /\ {"link"} # {"proposal"}
  OBVIOUS
<1>4. \A n, m : [link |-> n] = [link |-> m] => n = m
  <2> SUFFICES ASSUME NEW n, NEW m, [link |-> n] = [link |-> m] PROVE n = m
    OBVIOUS
  <2>1. [link |-> n].link = n /\ [link |-> m].link = m
    OBVIOUS
  <2> QED  BY <2>1
<1>5. \A n, m : [proposal |-> n] = [proposal |-> m] => n = m
  <2> SUFFICES ASSUME NEW n, NEW m, [proposal |-> n] = [proposal |-> m] PROVE n = m
    OBVIOUS
  <2>1. [proposal |-> n].proposal = n /\ [proposal |-> m].proposal = m
    OBVIOUS
  <2> QED  BY <2>1
<1>6. \A n, m : [link |-> n] # [proposal |-> m]
  BY <1>2, <1>3
<1> QED  BY <1>1, <1>2, <1>3, <1>4, <1>5, <1>6, Zenon

\* What a file says besides its entries is in its front matter.
LEMMA FrontHas ==
  ASSUME NEW f \in LogFiles, NEW item, Has(f, item)
  PROVE  (item \in Entries => item \in f.entries) /\ (item \notin Entries => InFront(f, item))
<1>1. f.entries \subseteq Entries
  BY DEF LogFiles
<1>2. item \in f.entries \/ InFront(f, item)
  BY DEF Has, InFront
<1>3. InFront(f, item) => item \notin Entries
  BY ItemKinds, Zenon DEF InFront
<1> QED  BY <1>1, <1>2, <1>3

\* The next number is above every entry's.
LEMMA NextNumberIsNext ==
  ASSUME NEW f \in LogFiles, HasTop(f.entries)
  PROVE  NextNumber(f) \in Nat /\ \A e \in f.entries : e.num < NextNumber(f)
<1>0. \A e \in f.entries : e.num \in Nat
  BY DEF LogFiles, Entries
<1>1. PICK m \in Numbers(f) \union {0} : \A e \in f.entries : e.num <= m
  BY DEF HasTop, Numbers
<1>2. m \in Nat /\ Numbers(f) \subseteq Nat
  BY <1>0, <1>1 DEF Numbers
<1>3. \A n \in Numbers(f) \union {0} : m >= n
  BY <1>0, <1>1, <1>2 DEF Numbers
<1>4. \A n \in Numbers(f) \union {0} : (\A o \in Numbers(f) \union {0} : n >= o) => n = m
  BY <1>1, <1>2, <1>3
<1>5. Max(Numbers(f) \union {0}) = m
  BY <1>1, <1>3, <1>4 DEF Max
<1>6. NextNumber(f) = m + 1
  BY <1>5 DEF NextNumber
<1>7. \A e \in f.entries : e.num < m + 1
  BY <1>0, <1>1, <1>2
<1> QED  BY <1>2, <1>6, <1>7

\* A command that does nothing yet, or no more.
LEMMA NoLoggerIs ==
  /\ NoEntries \in LogFiles /\ Emptied \in LogFiles /\ NoLogger \in LoggerStates
  /\ HasTop({}) /\ TellApart({})
<1>1. NoEntries \in LogFiles /\ Emptied \in LogFiles
  BY DEF NoEntries, Emptied, LogFiles
<1>2. NoLogger \in LoggerStates
  BY <1>1 DEF NoLogger, LoggerStates, Entries, Logs
<1> QED  BY <1>1, <1>2 DEF HasTop, TellApart

\* The histories and the spoilt files only grow.
FrictionGrows ==
  /\ \A r \in Logs : reported[r] \subseteq reported'[r] /\ unseen[r] \subseteq unseen'[r]
  /\ spoilt \subseteq spoilt'

\* So does that two commands met on a log, and the numbers that links may name.
LEMMA FrictionGrown ==
  ASSUME FrictionTypes, FrictionGrows
  PROVE  (\A r \in Logs : Met(r) => Met(r)') /\ LinkNumbers \subseteq LinkNumbers'
BY DEF FrictionGrows, Met, LinkNumbers, Logs

\* What holds of a command keeps holding while others work, as long as what they write is
\* not counted as seen.
LEMMA SoundStays ==
  ASSUME FrictionTypes, FrictionGrows, NEW k \in Loggers, Sound(k), logger'[k] = logger[k],
         Busy(k) => Standing(logger[k].log)' \subseteq Standing(logger[k].log)
  PROVE  Sound(k)'
<1>0. logger[k].log \in Logs /\ LogExternal \in Logs
  BY DEF FrictionTypes, LoggerStates, Logs
<1>1. Body(k)'
  BY <1>0 DEF Sound, Body, Busy, FrictionGrows, Standing
<1>2. Front(k)'
  BY <1>0 DEF Sound, Front, Busy, FrictionGrows, InFront, Standing
<1>3. Parsed(k)'
  BY DEF Sound, Parsed
<1>4. Linking(k)'
  BY <1>0, FrictionGrown DEF Sound, Linking, FrictionGrows
<1>5. Reading(k)'
  BY <1>0, FrictionGrown DEF Sound, Reading, Busy, FrictionGrows
<1> QED  BY <1>1, <1>2, <1>3, <1>4, <1>5 DEF Sound

\* So does that its number is new: who will write into its log is still there, or has
\* written before it, or was killed.
LEMMA NewStays ==
  ASSUME FrictionTypes, FrictionGrows, NEW k \in Loggers, NumberIsNew(k), logger'[k] = logger[k],
         \A j \in Loggers : j # k /\ Fills(j, logger[k].log) /\ Busy(k) =>
            Fills(j, logger[k].log)' \/ logger[k].log \in spoilt' \/ Met(logger[k].log)'
  PROVE  NumberIsNew(k)'
<1>0. logger[k].log \in Logs
  BY DEF FrictionTypes, LoggerStates
<1> QED  BY <1>0, FrictionGrown DEF NumberIsNew, Busy, FrictionGrows

\* A command goes from one reading to the next.
LEMMA ReadingStep ==
  ASSUME FrictionIInv, NEW k \in Loggers, NEW c \in LoggerStates,
         logger' = [logger EXCEPT ![k] = c], logger[k].at \notin {"text", "linkText"},
         UNCHANGED <<logFile, reported, unseen, spoilt>>, written' \in Nat,
         Sound(k)', NumberIsNew(k)'
  PROVE  FrictionIInv'
<1>1. /\ \A j \in Loggers : j # k => logger'[j] = logger[j]
      /\ logger'[k] = c /\ logger' \in [Loggers -> LoggerStates]
  BY DEF FrictionIInv, FrictionTypes
<1>2. FrictionTypes'
  BY <1>1 DEF FrictionIInv, FrictionTypes
<1>3. \A j \in Loggers, r \in Logs : Fills(j, r) => Fills(j, r)'
  BY <1>1 DEF Fills
<1>4. FrictionGrows /\ FrictionTypes
  BY DEF FrictionGrows, FrictionIInv
<1>5. \A j \in Loggers : j # k => Sound(j)' /\ NumberIsNew(j)'
  <2> SUFFICES ASSUME NEW j \in Loggers, j # k PROVE Sound(j)' /\ NumberIsNew(j)'
    OBVIOUS
  <2>1. Sound(j) /\ NumberIsNew(j) /\ logger'[j] = logger[j]
    BY <1>1 DEF FrictionIInv
  <2>2. Sound(j)'
    BY <1>4, <2>1, SoundStays DEF Standing
  <2>3. logger[j].log \in Logs
    BY DEF FrictionIInv, FrictionTypes, LoggerStates
  <2>4. NumberIsNew(j)'
    BY <1>3, <1>4, <2>1, <2>3, NewStays
  <2> QED  BY <2>2, <2>4
<1>6. \A r \in Logs : SoundLog(r)'
  BY <1>3 DEF FrictionIInv, SoundLog, Whole, Standing, Met, LinkNumbers
<1> QED  BY <1>2, <1>5, <1>6 DEF FrictionIInv

\* One that stops, or was killed, is sound.
LEMMA StoppedIsSound ==
  ASSUME NEW k \in Loggers, logger'[k] = NoLogger
  PROVE  Sound(k)' /\ NumberIsNew(k)'
<1>1. /\ NoLogger.at = "idle" /\ NoLogger.content.linked = {} /\ NoLogger.front.linked = {}
      /\ NoLogger.content.entries = {}
  BY DEF NoLogger, NoEntries
<1>2. Body(k)' /\ Front(k)' /\ Parsed(k)' /\ Linking(k)' /\ Reading(k)'
  BY <1>1, NoLoggerIs DEF Body, Front, Parsed, Linking, Reading, Busy
<1> QED  BY <1>1, <1>2 DEF Sound, NumberIsNew

\* What a whole log has is what a command that reads it now will have.
LEMMA ReadIsSound ==
  ASSUME FrictionTypes, NEW r \in Logs, SoundLog(r)
  PROVE  /\ logFile[r] \in LogFiles /\ logFile[r].linked \subseteq LinkNumbers
         /\ logFile[r].parses /\ r \notin spoilt =>
              /\ Standing(r) \intersect Entries \subseteq logFile[r].entries
              /\ \A item \in Standing(r) \ Entries : InFront(logFile[r], item)
         /\ logFile[r].entries \subseteq reported[r] /\ HasTop(logFile[r].entries)
         /\ r \notin spoilt /\ ~Met(r) => TellApart(logFile[r].entries)
<1>1. logFile[r] \in LogFiles
  BY DEF FrictionTypes
<1>2. logFile[r].parses /\ r \notin spoilt => \A item \in Standing(r) : Has(logFile[r], item)
  BY DEF SoundLog, Whole
<1>3. /\ logFile[r].linked \subseteq LinkNumbers
      /\ logFile[r].entries \subseteq reported[r] /\ HasTop(logFile[r].entries)
      /\ r \notin spoilt /\ ~Met(r) => TellApart(logFile[r].entries)
  BY DEF SoundLog
<1> QED  BY <1>1, <1>2, <1>3, FrontHas

\* The readings of append_entry and of add_external_friction_source.
LEMMA ReadLogStep ==
  ASSUME FrictionIInv, NEW k \in Loggers, NEW r \in Logs, NEW ps \in SUBSET LogProjects,
         ps # {} => r = LogExternal, ReadLog(k, r, ps)
  PROVE  FrictionIInv'
<1> DEFINE c == [NoLogger EXCEPT !.at = "front", !.log = r, !.content = logFile[r],
                                 !.entry.text = written', !.todo = ps]
<1>1. /\ logger[k].at = "idle" /\ written' = written + 1 /\ logger' = [logger EXCEPT ![k] = c]
      /\ UNCHANGED <<logFile, logKills, reported, unseen, spoilt>>
  BY DEF ReadLog, Set
<1>2. FrictionTypes /\ SoundLog(r)
  BY DEF FrictionIInv
<1>3. written' \in Nat /\ logFile[r] \in LogFiles
  BY <1>1, <1>2 DEF FrictionTypes
<1>4. /\ c.at = "front" /\ c.log = r /\ c.content = logFile[r] /\ c.front = NoEntries
      /\ c.todo = ps
  BY DEF NoLogger
<1>5. c \in LoggerStates
  <2>1. NoLogger.entry = [num |-> 0, text |-> 0]
    BY DEF NoLogger
  <2>2. [NoLogger.entry EXCEPT !.text = written'] \in Entries
    BY <1>3, <2>1 DEF Entries
  <2>3. c.entry = [NoLogger.entry EXCEPT !.text = written']
    BY DEF NoLogger
  <2> QED  BY <1>3, <2>2, <2>3, NoLoggerIs DEF LoggerStates, NoLogger
<1> HIDE DEF c
<1>6. logger'[k] = c
  BY <1>1, <1>2 DEF FrictionTypes
<1>7. Sound(k)'
  <2>1. Body(k)'
    BY <1>1, <1>2, <1>4, <1>6, ReadIsSound DEF Body, Standing
  <2>2. Front(k)' /\ Parsed(k)'
    BY <1>4, <1>6 DEF Front, Parsed
  <2>3. Linking(k)'
    BY <1>1, <1>2, <1>4, <1>6, ReadIsSound DEF Linking, LinkNumbers, NoEntries
  <2>4. Reading(k)'
    BY <1>1, <1>2, <1>4, <1>6, ReadIsSound DEF Reading, Met
  <2> QED  BY <2>1, <2>2, <2>3, <2>4 DEF Sound
<1>8. NumberIsNew(k)'
  BY <1>4, <1>6 DEF NumberIsNew
<1> QED  BY <1>1, <1>3, <1>5, <1>7, <1>8, ReadingStep

\* A command that fails, or is done, stops without a change to a log.
LEMMA StopStep ==
  ASSUME FrictionIInv, NEW k \in Loggers, logger' = [logger EXCEPT ![k] = NoLogger],
         logger[k].at \notin {"text", "linkText"},
         UNCHANGED <<logFile, written, reported, unseen, spoilt>>
  PROVE  FrictionIInv'
<1>1. logger'[k] = NoLogger /\ written' \in Nat
  BY DEF FrictionIInv, FrictionTypes
<1> QED  BY <1>1, NoLoggerIs, StoppedIsSound, ReadingStep

LEMMA ReadFrontStep ==
  ASSUME FrictionIInv, NEW k \in Loggers, ReadFront(k)
  PROVE  FrictionIInv'
<1> DEFINE r == logger[k].log  c == [logger[k] EXCEPT !.at = "number", !.front = logFile[r]]
<1>0. logger[k].at = "front" /\ UNCHANGED <<logFile, written, logKills, reported, unseen, spoilt>>
  BY DEF ReadFront
<1>1. CASE logFile[r].parses
  <2>1. logger' = [logger EXCEPT ![k] = c]
    BY <1>1 DEF ReadFront, Set
  <2>2. FrictionTypes /\ r \in Logs /\ SoundLog(r) /\ logger[k] \in LoggerStates /\ Sound(k)
    BY DEF FrictionIInv, FrictionTypes, LoggerStates
  <2>3. logFile[r] \in LogFiles /\ written' \in Nat
    BY <1>0, <2>2 DEF FrictionTypes
  <2>4. /\ c.at = "number" /\ c.log = r /\ c.content = logger[k].content /\ c.front = logFile[r]
        /\ c.todo = logger[k].todo /\ c.entry = logger[k].entry /\ c \in LoggerStates
    BY <2>2, <2>3 DEF LoggerStates
  <2> HIDE DEF c
  <2>5. logger'[k] = c
    BY <2>1, <2>2 DEF FrictionTypes
  <2>6. Sound(k)'
    <3>1. Body(k)' /\ Reading(k)'
      BY <1>0, <2>2, <2>4, <2>5 DEF Sound, Body, Reading, Busy, Standing, Met
    <3>2. Front(k)' /\ Parsed(k)'
      BY <1>0, <1>1, <2>2, <2>4, <2>5, ReadIsSound DEF Front, Parsed, Standing
    <3>3. Linking(k)'
      BY <1>0, <2>2, <2>4, <2>5, ReadIsSound DEF Sound, Linking, LinkNumbers
    <3> QED  BY <3>1, <3>2, <3>3 DEF Sound
  <2>7. NumberIsNew(k)'
    BY <2>4, <2>5 DEF NumberIsNew
  <2> QED  BY <1>0, <2>1, <2>3, <2>4, <2>6, <2>7, ReadingStep
<1>2. CASE ~logFile[r].parses
  <2>1. logger' = [logger EXCEPT ![k] = NoLogger]
    BY <1>2 DEF ReadFront, Set
  <2> QED  BY <1>0, <2>1, StopStep
<1> QED  BY <1>1, <1>2

LEMMA ReadNumberStep ==
  ASSUME FrictionIInv, NEW k \in Loggers, NEW r \in Logs, r = logger[k].log, ReadNumber(k)
  PROVE  FrictionIInv'
<1> DEFINE c == [logger[k] EXCEPT !.at = "write", !.entry.num = NextNumber(logFile[r])]
<1>0. logger[k].at = "number" /\ UNCHANGED <<logFile, written, logKills, reported, unseen, spoilt>>
  BY DEF ReadNumber
<1>1. CASE logger[k].content.parses
  <2>1. logger' = [logger EXCEPT ![k] = c]
    BY <1>1 DEF ReadNumber, Set
  <2>2. FrictionTypes /\ r \in Logs /\ SoundLog(r) /\ logger[k] \in LoggerStates /\ Sound(k)
    BY DEF FrictionIInv, FrictionTypes, LoggerStates
  <2>3. logFile[r] \in LogFiles /\ written' \in Nat /\ HasTop(logFile[r].entries)
    BY <1>0, <2>2, ReadIsSound DEF FrictionTypes
  <2>4. NextNumber(logFile[r]) \in Nat /\ \A e \in logFile[r].entries : e.num < NextNumber(logFile[r])
    BY <2>3, NextNumberIsNext
  <2>5. /\ c.at = "write" /\ c.log = r /\ c.content = logger[k].content /\ c.front = logger[k].front
        /\ c.todo = logger[k].todo /\ c.entry.num = NextNumber(logFile[r]) /\ c \in LoggerStates
    <3>1. [logger[k].entry EXCEPT !.num = NextNumber(logFile[r])] \in Entries
      BY <2>2, <2>4 DEF LoggerStates, Entries
    <3>2. c.entry = [logger[k].entry EXCEPT !.num = NextNumber(logFile[r])]
      BY <2>2 DEF LoggerStates
    <3>3. c.entry.num = NextNumber(logFile[r])
      BY <2>2, <3>2 DEF LoggerStates, Entries
    <3> QED  BY <2>2, <3>1, <3>2, <3>3 DEF LoggerStates
  <2> HIDE DEF c
  <2>6. logger'[k] = c
    BY <2>1, <2>2 DEF FrictionTypes
  <2>7. Sound(k)'
    <3>1. Body(k)' /\ Reading(k)'
      BY <1>0, <2>2, <2>5, <2>6 DEF Sound, Body, Reading, Busy, Standing, Met
    <3>2. Front(k)' /\ Parsed(k)'
      BY <1>0, <1>1, <2>2, <2>5, <2>6 DEF Sound, Front, Parsed, Standing
    <3>3. Linking(k)'
      BY <1>0, <2>2, <2>5, <2>6 DEF Sound, Linking, LinkNumbers
    <3> QED  BY <3>1, <3>2, <3>3 DEF Sound
  <2>8. NumberIsNew(k)'
    <3> SUFFICES ASSUME r \notin spoilt, ~Met(r),
                        \A j \in Loggers : j # k => ~Fills(j, r)',
                        NEW e \in logger[k].content.entries
                 PROVE  e.num < NextNumber(logFile[r])
      BY <1>0, <2>5, <2>6 DEF NumberIsNew, Met
    <3>1. \A j \in Loggers : ~Fills(j, r)
      <4>1. \A j \in Loggers : j # k => logger'[j] = logger[j]
        BY <2>1, <2>2 DEF FrictionTypes
      <4> QED  BY <1>0, <4>1 DEF Fills
    <3>2. logFile[r].parses
      BY <2>2, <3>1 DEF SoundLog
    <3>3. e \in reported[r] /\ e \in Entries
      <4>1. e \in reported[r]
        BY <1>0, <2>2 DEF Sound, Reading, Busy
      <4> QED  BY <2>2, <4>1 DEF LoggerStates, LogFiles
    <3>4. e \notin unseen[r]
      BY <3>3, ItemKinds, Zenon DEF Met
    <3>5. e \in logFile[r].entries
      BY <2>2, <3>2, <3>3, <3>4, ReadIsSound DEF Standing
    <3> QED  BY <2>4, <3>5
  <2> QED  BY <1>0, <2>1, <2>3, <2>5, <2>7, <2>8, ReadingStep
<1>2. CASE ~logger[k].content.parses
  <2>1. logger' = [logger EXCEPT ![k] = NoLogger]
    BY <1>2 DEF ReadNumber, Set
  <2> QED  BY <1>0, <2>1, StopStep
<1> QED  BY <1>1, <1>2

LEMMA ReadProjectStep ==
  ASSUME FrictionIInv, NEW k \in Loggers, NEW p \in LogProjects, ReadProject(k, p)
  PROVE  FrictionIInv'
<1> DEFINE c == [logger[k] EXCEPT !.at = "relink", !.log = p, !.content = logFile[p],
                                  !.todo = @ \ {p}]
<1>0. logger[k].at = "link" /\ UNCHANGED <<logFile, written, logKills, reported, unseen, spoilt>>
  BY DEF ReadProject
<1>1. CASE logFile[p].parses
  <2>1. logger' = [logger EXCEPT ![k] = c]
    BY <1>1 DEF ReadProject, Set
  <2>2. FrictionTypes /\ p \in Logs /\ SoundLog(p) /\ logger[k] \in LoggerStates /\ Sound(k)
    BY DEF FrictionIInv, FrictionTypes, Logs
  <2>3. logFile[p] \in LogFiles /\ written' \in Nat
    BY <1>0, <2>2 DEF FrictionTypes
  <2>4. /\ c.at = "relink" /\ c.log = p /\ c.content = logFile[p] /\ c.front = logger[k].front
        /\ c.entry = logger[k].entry /\ c \in LoggerStates
    BY <2>2, <2>3 DEF LoggerStates
  <2> HIDE DEF c
  <2>5. logger'[k] = c
    BY <2>1, <2>2 DEF FrictionTypes
  <2>6. Sound(k)'
    <3>1. Body(k)'
      BY <1>0, <1>1, <2>2, <2>4, <2>5, ReadIsSound DEF Body, Standing
    <3>2. Front(k)' /\ Parsed(k)'
      BY <1>0, <1>1, <2>2, <2>4, <2>5, ReadIsSound DEF Front, Parsed, Standing
    <3>3. Linking(k)'
      BY <1>0, <2>2, <2>4, <2>5, ReadIsSound DEF Sound, Linking, LinkNumbers
    <3>4. Reading(k)'
      BY <1>0, <2>2, <2>4, <2>5, ReadIsSound DEF Reading, Met
    <3> QED  BY <3>1, <3>2, <3>3, <3>4 DEF Sound
  <2>7. NumberIsNew(k)'
    BY <2>4, <2>5 DEF NumberIsNew
  <2> QED  BY <1>0, <2>1, <2>3, <2>4, <2>6, <2>7, ReadingStep
<1>2. CASE ~logFile[p].parses
  <2>1. logger' = [logger EXCEPT ![k] = NoLogger]
    BY <1>2 DEF ReadProject, Set
  <2> QED  BY <1>0, <2>1, StopStep
<1> QED  BY <1>1, <1>2

\* A command empties the log it is about to write.
LEMMA EmptyLogStep ==
  ASSUME FrictionIInv, NEW k \in Loggers, NEW r \in Logs, r = logger[k].log, EmptyLog(k)
  PROVE  FrictionIInv'
<1> DEFINE c == [logger[k] EXCEPT !.at = IF logger[k].at = "write" THEN "text" ELSE "linkText"]
<1>0. /\ logger[k].at \in {"write", "relink"} /\ UNCHANGED <<written, logKills, reported, unseen, spoilt>>
      /\ logger' = [logger EXCEPT ![k] = c] /\ logFile' = [logFile EXCEPT ![r] = Emptied]
  BY DEF EmptyLog, Set
<1>1. FrictionTypes /\ r \in Logs /\ logger[k] \in LoggerStates /\ Sound(k) /\ NumberIsNew(k)
  BY DEF FrictionIInv, FrictionTypes, LoggerStates
<1>2. /\ c.at = IF logger[k].at = "write" THEN "text" ELSE "linkText"
      /\ c.log = r /\ c.content = logger[k].content /\ c.front = logger[k].front
      /\ c.todo = logger[k].todo /\ c.entry = logger[k].entry /\ c \in LoggerStates
  BY <1>1 DEF LoggerStates
<1> HIDE DEF c
<1>3. /\ \A j \in Loggers : j # k => logger'[j] = logger[j]
      /\ logger'[k] = c /\ logger' \in [Loggers -> LoggerStates]
      /\ \A q \in Logs : q # r => logFile'[q] = logFile[q]
      /\ logFile'[r] = Emptied /\ logFile' \in [Logs -> LogFiles]
  BY <1>0, <1>1, <1>2, NoLoggerIs DEF FrictionTypes
<1>4. FrictionTypes'
  BY <1>0, <1>3 DEF FrictionIInv, FrictionTypes
<1>5. FrictionGrows
  BY <1>0 DEF FrictionGrows
<1>6. \A j \in Loggers, q \in Logs : Fills(j, q) => Fills(j, q)'
  BY <1>0, <1>3 DEF Fills
<1>7. Sound(k)'
  <2>1. Body(k)' /\ Reading(k)'
    BY <1>0, <1>1, <1>2, <1>3 DEF Sound, Body, Reading, Busy, Standing, Met
  <2>2. Front(k)' /\ Parsed(k)'
    BY <1>0, <1>1, <1>2, <1>3 DEF Sound, Front, Parsed, Standing
  <2>3. Linking(k)'
    BY <1>0, <1>1, <1>2, <1>3 DEF Sound, Linking, LinkNumbers
  <2> QED  BY <2>1, <2>2, <2>3 DEF Sound
<1>8. NumberIsNew(k)'
  BY <1>0, <1>1, <1>2, <1>3, <1>6 DEF NumberIsNew, Met
<1>9. \A j \in Loggers : j # k => Sound(j)' /\ NumberIsNew(j)'
  <2> SUFFICES ASSUME NEW j \in Loggers, j # k PROVE Sound(j)' /\ NumberIsNew(j)'
    OBVIOUS
  <2>1. Sound(j) /\ NumberIsNew(j) /\ logger'[j] = logger[j] /\ logger[j].log \in Logs
    BY <1>3 DEF FrictionIInv, FrictionTypes, LoggerStates
  <2>2. Sound(j)'
    BY <1>0, <1>1, <1>5, <2>1, SoundStays DEF Standing
  <2>3. NumberIsNew(j)'
    BY <1>1, <1>5, <1>6, <2>1, NewStays
  <2> QED  BY <2>2, <2>3
<1>10. \A q \in Logs : q # r => SoundLog(q)'
  BY <1>0, <1>3, <1>6 DEF FrictionIInv, SoundLog, Whole, Standing, Met, LinkNumbers
<1>11. SoundLog(r)'
  <2>1. Emptied.entries = {} /\ Emptied.linked = {} /\ ~Emptied.parses
    BY DEF Emptied, NoEntries
  <2>2. Fills(k, r)'
    BY <1>0, <1>2, <1>3 DEF Fills
  <2>3. ~Whole(r)' /\ logFile'[r].entries = {} /\ logFile'[r].linked = {}
    BY <1>3, <2>1 DEF Whole
  <2> QED  BY <2>2, <2>3, NoLoggerIs DEF SoundLog
<1>12. \A q \in Logs : SoundLog(q)'
  BY <1>10, <1>11
<1>13. \A j \in Loggers : Sound(j)' /\ NumberIsNew(j)'
  BY <1>7, <1>8, <1>9
<1> QED  BY <1>4, <1>12, <1>13 DEF FrictionIInv

\* What a report adds, and who has not seen it.
LEMMA Reported ==
  ASSUME FrictionTypes, NEW r \in Logs, NEW item \in Items, Report(r, item), spoilt \subseteq spoilt'
  PROVE  /\ reported' \in [Logs -> SUBSET Items] /\ unseen' \in [Logs -> SUBSET Items]
         /\ reported'[r] = reported[r] \union {item}
         /\ \A q \in Logs : q # r => reported'[q] = reported[q] /\ unseen'[q] = unseen[q]
         /\ FrictionGrows
         /\ Standing(r)' \subseteq Standing(r) \union {item}
         /\ \A j \in Loggers : Busy(j)' /\ logger'[j].log = r => item \in unseen'[r]
         /\ \A j \in Loggers, q \in Logs :
              Busy(j)' /\ logger'[j].log = q => Standing(q)' \subseteq Standing(q)
<1>1. reported' = [reported EXCEPT ![r] = @ \union {item}]
  BY DEF Report
<1>2. unseen' = unseen \/ unseen' = [unseen EXCEPT ![r] = @ \union {item}]
  BY DEF Report
<1>3. /\ reported' \in [Logs -> SUBSET Items] /\ unseen' \in [Logs -> SUBSET Items]
      /\ reported'[r] = reported[r] \union {item}
      /\ \A q \in Logs : q # r => reported'[q] = reported[q] /\ unseen'[q] = unseen[q]
      /\ unseen'[r] \in {unseen[r], unseen[r] \union {item}}
  BY <1>1, <1>2 DEF FrictionTypes
<1>4. FrictionGrows
  BY <1>3 DEF FrictionGrows
<1>5. ASSUME NEW j \in Loggers, Busy(j)', logger'[j].log = r
      PROVE  unseen'[r] = unseen[r] \union {item}
  <2>1. unseen' = [unseen EXCEPT ![r] = @ \union {item}]
    BY <1>5 DEF Report, Busy
  <2> QED  BY <2>1 DEF FrictionTypes
<1>6. Standing(r)' \subseteq Standing(r) \union {item}
  BY <1>3 DEF Standing
<1>7. ASSUME NEW j \in Loggers, NEW q \in Logs, Busy(j)', logger'[j].log = q
      PROVE  Standing(q)' \subseteq Standing(q)
  <2>1. CASE q = r
    BY <1>3, <1>5, <1>7, <2>1 DEF Standing
  <2>2. CASE q # r
    BY <1>3, <2>2 DEF Standing
  <2> QED  BY <2>1, <2>2
<1>8. \A j \in Loggers : Busy(j)' /\ logger'[j].log = r => item \in unseen'[r]
  BY <1>5
<1> QED  BY <1>3, <1>4, <1>6, <1>7, <1>8

\* A command writes a log that it has emptied.
LEMMA WriteStep ==
  ASSUME FrictionIInv, NEW k \in Loggers, logger[k].at \in {"text", "linkText"},
         NEW r \in Logs, r = logger[k].log, NEW f \in LogFiles, NEW item \in Items,
         NEW c \in LoggerStates, c.at \in {"idle", "link"}, logger' = [logger EXCEPT ![k] = c],
         logFile' = [logFile EXCEPT ![r] = f], Report(r, item), UNCHANGED <<written, spoilt>>,
         DOMAIN item # {"proposal"}, Sound(k)',
         f.parses, Has(f, item), f.entries \subseteq reported'[r], HasTop(f.entries),
         f.linked \subseteq LinkNumbers',
         r \notin spoilt => \A i \in Standing(r) : Has(f, i),
         r \notin spoilt /\ ~Met(r)' => TellApart(f.entries)
  PROVE  FrictionIInv'
<1>1. FrictionTypes
  BY DEF FrictionIInv
<1>2. /\ \A j \in Loggers : j # k => logger'[j] = logger[j]
      /\ logger'[k] = c /\ logger' \in [Loggers -> LoggerStates]
      /\ \A q \in Logs : q # r => logFile'[q] = logFile[q]
      /\ logFile'[r] = f /\ logFile' \in [Logs -> LogFiles]
  BY <1>1 DEF FrictionTypes
<1>3. /\ reported' \in [Logs -> SUBSET Items] /\ unseen' \in [Logs -> SUBSET Items]
      /\ \A q \in Logs : q # r => reported'[q] = reported[q] /\ unseen'[q] = unseen[q]
      /\ FrictionGrows
      /\ Standing(r)' \subseteq Standing(r) \union {item}
      /\ \A j \in Loggers : Busy(j)' /\ logger'[j].log = r => item \in unseen'[r]
      /\ \A j \in Loggers, q \in Logs :
           Busy(j)' /\ logger'[j].log = q => Standing(q)' \subseteq Standing(q)
  BY <1>1, Reported
<1>4. FrictionTypes'
  BY <1>1, <1>2, <1>3 DEF FrictionTypes
<1>5. NumberIsNew(k)'
  BY <1>2 DEF NumberIsNew
<1>6. \A j \in Loggers : j # k => Sound(j)' /\ NumberIsNew(j)'
  <2> SUFFICES ASSUME NEW j \in Loggers, j # k PROVE Sound(j)' /\ NumberIsNew(j)'
    OBVIOUS
  <2>1. /\ Sound(j) /\ NumberIsNew(j) /\ logger'[j] = logger[j] /\ logger[j].log \in Logs
        /\ Busy(j)' <=> Busy(j)
    BY <1>1, <1>2 DEF FrictionIInv, FrictionTypes, LoggerStates, Busy
  <2>2. Sound(j)'
    BY <1>1, <1>3, <2>1, SoundStays
  <2>3. ASSUME NEW i \in Loggers, i # j, Fills(i, logger[j].log), Busy(j)
        PROVE  Fills(i, logger[j].log)' \/ Met(logger[j].log)'
    <3>1. CASE i # k
      BY <1>2, <2>3, <3>1 DEF Fills
    <3>2. CASE i = k
      <4>1. logger[j].log = r
        BY <2>3, <3>2 DEF Fills
      <4>2. item \in unseen'[r]
        BY <1>3, <2>1, <2>3, <4>1
      <4> QED  BY <4>1, <4>2 DEF Met
    <3> QED  BY <3>1, <3>2
  <2>4. NumberIsNew(j)'
    BY <1>1, <1>3, <2>1, <2>3, NewStays
  <2> QED  BY <2>2, <2>4
<1>7. SoundLog(r)'
  BY <1>2, <1>3 DEF SoundLog, Whole
<1>8. \A q \in Logs : q # r => SoundLog(q)'
  <2> SUFFICES ASSUME NEW q \in Logs, q # r PROVE SoundLog(q)'
    OBVIOUS
  <2>1. SoundLog(q) /\ LinkNumbers \subseteq LinkNumbers' /\ (Met(q) => Met(q)')
    BY <1>1, <1>3, FrictionGrown DEF FrictionIInv
  <2>2. Standing(q)' = Standing(q) /\ logFile'[q] = logFile[q] /\ reported'[q] = reported[q]
    BY <1>2, <1>3 DEF Standing
  <2>3. \A j \in Loggers : Fills(j, q) => Fills(j, q)'
    BY <1>2 DEF Fills
  <2> QED  BY <2>1, <2>2, <2>3 DEF SoundLog, Whole
<1>9. (\A j \in Loggers : Sound(j)' /\ NumberIsNew(j)') /\ \A q \in Logs : SoundLog(q)'
  BY <1>5, <1>6, <1>7, <1>8
<1> QED  BY <1>4, <1>9 DEF FrictionIInv

\* append_entry writes: the body it read first, the front matter it read next.
LEMMA WriteLogStep ==
  ASSUME FrictionIInv, NEW k \in Loggers, NEW r \in Logs, r = logger[k].log, WriteLog(k)
  PROVE  FrictionIInv'
<1> DEFINE es == logger[k].content.entries  e == logger[k].entry
           f == [logger[k].front EXCEPT !.entries = es \union {e}]
           c == IF logger[k].todo = {} THEN NoLogger ELSE [logger[k] EXCEPT !.at = "link"]
<1>0. /\ logger[k].at = "text" /\ logger' = [logger EXCEPT ![k] = c]
      /\ logFile' = [logFile EXCEPT ![r] = f] /\ Report(r, e)
      /\ UNCHANGED <<written, logKills, spoilt>>
  BY DEF WriteLog, Set
<1>1. FrictionTypes /\ r \in Logs /\ logger[k] \in LoggerStates /\ Sound(k) /\ NumberIsNew(k)
  BY DEF FrictionIInv, FrictionTypes, LoggerStates
<1>2. /\ e \in Entries /\ e \in Items /\ e.num \in Nat /\ es \subseteq Entries
      /\ logger[k].front \in LogFiles /\ logger[k].content \in LogFiles
  BY <1>1 DEF LoggerStates, LogFiles, Items, Entries
<1>3. /\ f \in LogFiles /\ f.entries = es \union {e} /\ f.linked = logger[k].front.linked
      /\ f.proposed = logger[k].front.proposed /\ f.parses = logger[k].front.parses
  BY <1>2 DEF LogFiles
<1>4. /\ c \in LoggerStates /\ c.at \in {"idle", "link"}
      /\ c.at = "link" => /\ logger[k].todo # {} /\ c.entry = e /\ c.content = logger[k].content
                          /\ c.front = logger[k].front
      /\ c.at # "link" => c = NoLogger
  BY <1>1, NoLoggerIs DEF LoggerStates, NoLogger
<1> HIDE DEF f, c
<1>5. /\ logger'[k] = c /\ \A j \in Loggers : j # k => logger'[j] = logger[j]
  BY <1>0, <1>1 DEF FrictionTypes
<1>6. /\ reported'[r] = reported[r] \union {e} /\ FrictionGrows
      /\ \A j \in Loggers : Busy(j)' /\ logger'[j].log = r => e \in unseen'[r]
  BY <1>0, <1>1, <1>2, Reported
<1>7. LinkNumbers \subseteq LinkNumbers' /\ (Met(r) => Met(r)')
  BY <1>1, <1>6, FrictionGrown
<1>8. Sound(k)'
  <2>1. CASE c.at = "link"
    <3>1. Linking(k)'
      <4>1. e \in reported'[LogExternal]
        BY <1>0, <1>1, <1>4, <1>6, <2>1 DEF Sound, Linking
      <4> QED  BY <1>1, <1>4, <1>5, <1>7, <2>1, <4>1 DEF Sound, Linking
    <3>2. Reading(k)'
      BY <1>1, <1>4, <1>5, <2>1 DEF Sound, Reading, Busy
    <3> QED  BY <1>5, <2>1, <3>1, <3>2 DEF Sound, Body, Front, Parsed, Busy
  <2>2. CASE c.at # "link"
    BY <1>4, <1>5, <2>2, StoppedIsSound
  <2> QED  BY <2>1, <2>2
<1>9. f.parses /\ Has(f, e) /\ f.entries \subseteq reported'[r]
  BY <1>0, <1>1, <1>3, <1>6 DEF Sound, Parsed, Has, Reading, Busy
<1>10. HasTop(f.entries)
  <2>1. PICK m \in {x.num : x \in es} \union {0} : \A x \in es : x.num <= m
    BY <1>1 DEF Sound, Reading, HasTop
  <2>2. m \in Nat /\ \A x \in es : x.num \in Nat
    BY <1>2, <2>1 DEF Entries
  <2>3. CASE e.num <= m
    BY <1>3, <2>1, <2>3 DEF HasTop
  <2>4. CASE ~(e.num <= m)
    <3>1. \A x \in es \union {e} : x.num <= e.num
      BY <1>2, <2>1, <2>2, <2>4
    <3>2. e.num \in {x.num : x \in es \union {e}}
      OBVIOUS
    <3> QED  BY <1>3, <3>1, <3>2 DEF HasTop
  <2> QED  BY <2>3, <2>4
<1>11. f.linked \subseteq LinkNumbers'
  BY <1>1, <1>3, <1>7 DEF Sound, Linking
<1>12. ASSUME r \notin spoilt, NEW i \in Standing(r) PROVE Has(f, i)
  <2>1. i \in Entries => i \in es
    BY <1>0, <1>1, <1>12 DEF Sound, Body, Parsed, Busy
  <2>2. i \notin Entries => InFront(logger[k].front, i)
    BY <1>0, <1>1, <1>12 DEF Sound, Front
  <2> QED  BY <1>3, <2>1, <2>2 DEF Has, InFront
<1>13. ASSUME r \notin spoilt, ~Met(r)' PROVE TellApart(f.entries)
  <2>1. e \notin unseen'[r]
    BY <1>2, <1>13, ItemKinds, Zenon DEF Met
  <2>2. \A j \in Loggers : j # k => ~Fills(j, r)
    BY <1>5, <1>6, <2>1 DEF Fills, Busy
  <2>3. \A x \in es : x.num < e.num
    BY <1>0, <1>1, <1>7, <1>13, <2>2 DEF NumberIsNew
  <2>4. TellApart(es)
    BY <1>0, <1>1, <1>7, <1>13 DEF Sound, Reading, Busy
  <2>5. \A x \in es : x.num # e.num
    BY <1>2, <2>3 DEF Entries
  <2> QED  BY <1>3, <2>4, <2>5 DEF TellApart
<1>14. DOMAIN e # {"proposal"}
  BY <1>2, ItemKinds, Zenon
<1> QED  BY <1>0, <1>1, <1>2, <1>3, <1>4, <1>8, <1>9, <1>10, <1>11, <1>12, <1>13, <1>14, WriteStep

\* A project is linked to an entry that the external log has been given.
LEMMA WriteProjectStep ==
  ASSUME FrictionIInv, NEW k \in Loggers, NEW r \in Logs, r = logger[k].log, WriteProject(k)
  PROVE  FrictionIInv'
<1> DEFINE n == logger[k].entry.num  item == [link |-> n]
           f == [logger[k].content EXCEPT !.linked = @ \union {n}]
           c == IF logger[k].todo = {} THEN NoLogger ELSE [logger[k] EXCEPT !.at = "link"]
<1>0. /\ logger[k].at = "linkText" /\ logger' = [logger EXCEPT ![k] = c]
      /\ logFile' = [logFile EXCEPT ![r] = f] /\ Report(r, item)
      /\ UNCHANGED <<written, logKills, spoilt>>
  BY DEF WriteProject, Set
<1>1. FrictionTypes /\ logger[k] \in LoggerStates /\ Sound(k)
  BY DEF FrictionIInv, FrictionTypes
<1>2. /\ logger[k].entry \in Entries /\ n \in Nat /\ logger[k].content \in LogFiles
  BY <1>1 DEF LoggerStates, Entries
<1>3. /\ f \in LogFiles /\ f.entries = logger[k].content.entries
      /\ f.linked = logger[k].content.linked \union {n}
      /\ f.proposed = logger[k].content.proposed /\ f.parses = logger[k].content.parses
  BY <1>2 DEF LogFiles
<1>4. /\ c \in LoggerStates /\ c.at \in {"idle", "link"}
      /\ c.at = "link" => /\ c.entry = logger[k].entry /\ c.content = logger[k].content
                          /\ c.front = logger[k].front
      /\ c.at # "link" => c = NoLogger
  BY <1>1, NoLoggerIs DEF LoggerStates, NoLogger
<1>i. item \in Items /\ DOMAIN item # {"proposal"}
  <2>1. item \in [link : Nat]
    BY <1>2
  <2>2. item \in Items
    BY <2>1 DEF Items
  <2> HIDE DEF n
  <2>3. DOMAIN item # {"proposal"}
    BY ItemKinds, Zenon
  <2> QED  BY <2>2, <2>3
<1>l. \A x : (\E m \in f.linked : x = [link |-> m]) <=>
              x = item \/ \E m \in logger[k].content.linked : x = [link |-> m]
  BY <1>3
<1> HIDE DEF f, c, item
<1>5. logger'[k] = c
  BY <1>0, <1>1 DEF FrictionTypes
<1>6. reported'[r] = reported[r] \union {item} /\ FrictionGrows
  BY <1>0, <1>1, <1>i, Reported
<1>7. LinkNumbers \subseteq LinkNumbers' /\ (Met(r) => Met(r)')
  BY <1>1, <1>6, FrictionGrown
<1>8. logger[k].entry \in reported[LogExternal] /\ logger[k].entry \in reported'[LogExternal]
  BY <1>0, <1>1, <1>6 DEF Sound, Linking, FrictionGrows, Logs
<1>9. Sound(k)'
  <2>1. CASE c.at = "link"
    <3>1. Linking(k)'
      BY <1>1, <1>4, <1>5, <1>7, <1>8, <2>1 DEF Sound, Linking
    <3>2. Reading(k)'
      BY <1>1, <1>4, <1>5, <2>1 DEF Sound, Reading, Busy
    <3> QED  BY <1>5, <2>1, <3>1, <3>2 DEF Sound, Body, Front, Parsed, Busy
  <2>2. CASE c.at # "link"
    BY <1>4, <1>5, <2>2, StoppedIsSound
  <2> QED  BY <2>1, <2>2
<1>10. f.parses /\ Has(f, item) /\ f.entries \subseteq reported'[r] /\ HasTop(f.entries)
  <2>1. Has(f, item)
    BY <1>l, Zenon DEF Has
  <2> QED  BY <1>0, <1>1, <1>3, <1>6, <2>1 DEF Sound, Parsed, Reading, Busy
<1>11. f.linked \subseteq LinkNumbers'
  <2>1. n \in LinkNumbers'
    BY <1>2, <1>8 DEF LinkNumbers
  <2> QED  BY <1>1, <1>3, <1>7, <2>1 DEF Sound, Linking
<1>12. ASSUME r \notin spoilt, NEW i \in Standing(r) PROVE Has(f, i)
  <2>1. i \in Entries => i \in logger[k].content.entries
    BY <1>0, <1>1, <1>12 DEF Sound, Body, Parsed, Busy
  <2>2. i \notin Entries => InFront(logger[k].content, i)
    BY <1>0, <1>1, <1>12 DEF Sound, Front
  <2> QED  BY <1>3, <2>1, <2>2 DEF Has, InFront
<1>13. r \notin spoilt /\ ~Met(r)' => TellApart(f.entries)
  BY <1>0, <1>1, <1>3, <1>7 DEF Sound, Reading, Busy
<1> QED  BY <1>0, <1>1, <1>3, <1>4, <1>i, <1>9, <1>10, <1>11, <1>12, <1>13, WriteStep

\* A command is killed: a log it had emptied is spoilt.
LEMMA LoggerKilledStep ==
  ASSUME FrictionIInv, NEW k \in Loggers, NEW r \in Logs, r = logger[k].log, LoggerKilled(k)
  PROVE  FrictionIInv'
<1>0. /\ logger' = [logger EXCEPT ![k] = NoLogger]
      /\ spoilt' = spoilt \union IF logger[k].at \in {"text", "linkText"} THEN {r} ELSE {}
      /\ UNCHANGED <<logFile, written, reported, unseen>>
  BY DEF LoggerKilled, Set
<1>1. FrictionTypes
  BY DEF FrictionIInv
<1>2. /\ \A j \in Loggers : j # k => logger'[j] = logger[j]
      /\ logger'[k] = NoLogger /\ logger' \in [Loggers -> LoggerStates]
  BY <1>0, <1>1, NoLoggerIs DEF FrictionTypes
<1>3. FrictionTypes' /\ FrictionGrows
  BY <1>0, <1>1, <1>2 DEF FrictionTypes, FrictionGrows
<1>4. \A j \in Loggers, q \in Logs : Fills(j, q) => Fills(j, q)' \/ q \in spoilt'
  BY <1>0, <1>2 DEF Fills
<1>5. Sound(k)' /\ NumberIsNew(k)'
  BY <1>2, StoppedIsSound
<1>6. \A j \in Loggers : j # k => Sound(j)' /\ NumberIsNew(j)'
  <2> SUFFICES ASSUME NEW j \in Loggers, j # k PROVE Sound(j)' /\ NumberIsNew(j)'
    OBVIOUS
  <2>1. Sound(j) /\ NumberIsNew(j) /\ logger'[j] = logger[j] /\ logger[j].log \in Logs
    BY <1>1, <1>2 DEF FrictionIInv, FrictionTypes, LoggerStates
  <2>2. Sound(j)'
    BY <1>0, <1>1, <1>3, <2>1, SoundStays DEF Standing
  <2>3. NumberIsNew(j)'
    BY <1>1, <1>3, <1>4, <2>1, NewStays
  <2> QED  BY <2>2, <2>3
<1>7. \A q \in Logs : SoundLog(q)'
  <2> SUFFICES ASSUME NEW q \in Logs PROVE SoundLog(q)'
    OBVIOUS
  <2>1. SoundLog(q) /\ (Whole(q)' => Whole(q)) /\ (q \in spoilt => q \in spoilt')
    BY <1>0 DEF FrictionIInv, Whole
  <2>2. q \notin spoilt' /\ ~logFile[q].parses => \E j \in Loggers : Fills(j, q)'
    BY <1>4, <2>1 DEF SoundLog
  <2> QED  BY <1>0, <2>1, <2>2 DEF SoundLog, Standing, Met, LinkNumbers
<1>8. \A j \in Loggers : Sound(j)' /\ NumberIsNew(j)'
  BY <1>5, <1>6
<1> QED  BY <1>3, <1>7, <1>8 DEF FrictionIInv

\* An agent edits a log that is whole.
LEMMA ProposeStep ==
  ASSUME FrictionIInv, NEW r \in Logs, NEW n \in Nat, Propose(r, n)
  PROVE  FrictionIInv'
<1> DEFINE item == [proposal |-> n]  f == [logFile[r] EXCEPT !.proposed = @ \union {n}]
<1>0. /\ logFile' = [logFile EXCEPT ![r] = f] /\ logger' = logger /\ Report(r, item)
      /\ UNCHANGED <<written, spoilt>>
  <2>1. [logFile EXCEPT ![r].proposed = @ \union {n}] = [logFile EXCEPT ![r] = f]
    OBVIOUS
  <2> QED  BY <2>1 DEF Propose
<1>1. FrictionTypes /\ logFile[r] \in LogFiles
  BY DEF FrictionIInv, FrictionTypes
<1>i. item \in Items
  <2>1. item \in [proposal : Nat]
    OBVIOUS
  <2> QED  BY <2>1 DEF Items
<1>2. /\ f \in LogFiles /\ f.entries = logFile[r].entries /\ f.linked = logFile[r].linked
      /\ f.proposed = logFile[r].proposed \union {n} /\ f.parses = logFile[r].parses
  BY <1>1 DEF LogFiles
<1>h. \A x : Has(logFile[r], x) \/ x = item => Has(f, x)
  BY <1>2 DEF Has
<1> HIDE DEF f, item
<1>3. /\ \A q \in Logs : q # r => logFile'[q] = logFile[q]
      /\ logFile'[r] = f /\ logFile' \in [Logs -> LogFiles]
  BY <1>0, <1>1, <1>2 DEF FrictionTypes
<1>4. /\ reported' \in [Logs -> SUBSET Items] /\ unseen' \in [Logs -> SUBSET Items]
      /\ reported'[r] = reported[r] \union {item}
      /\ \A q \in Logs : q # r => reported'[q] = reported[q] /\ unseen'[q] = unseen[q]
      /\ FrictionGrows /\ Standing(r)' \subseteq Standing(r) \union {item}
      /\ \A j \in Loggers, q \in Logs :
           Busy(j)' /\ logger'[j].log = q => Standing(q)' \subseteq Standing(q)
  BY <1>0, <1>1, <1>i, Reported
<1>5. FrictionTypes'
  BY <1>0, <1>1, <1>3, <1>4 DEF FrictionTypes
<1>6. \A j \in Loggers : Sound(j)' /\ NumberIsNew(j)'
  <2> SUFFICES ASSUME NEW j \in Loggers PROVE Sound(j)' /\ NumberIsNew(j)'
    OBVIOUS
  <2>1. /\ Sound(j) /\ NumberIsNew(j) /\ logger'[j] = logger[j] /\ logger[j].log \in Logs
        /\ Busy(j)' <=> Busy(j)
    BY <1>0, <1>1 DEF FrictionIInv, FrictionTypes, LoggerStates, Busy
  <2>2. Sound(j)'
    BY <1>1, <1>4, <2>1, SoundStays
  <2>3. \A i \in Loggers, q \in Logs : Fills(i, q) => Fills(i, q)'
    BY <1>0 DEF Fills
  <2>4. NumberIsNew(j)'
    BY <1>1, <1>4, <2>1, <2>3, NewStays
  <2> QED  BY <2>2, <2>4
<1>7. \A q \in Logs : SoundLog(q)'
  <2> SUFFICES ASSUME NEW q \in Logs PROVE SoundLog(q)'
    OBVIOUS
  <2>1. /\ SoundLog(q) /\ LinkNumbers \subseteq LinkNumbers' /\ (Met(q) => Met(q)')
        /\ reported[q] \subseteq reported'[q]
    BY <1>1, <1>4, FrictionGrown DEF FrictionIInv, FrictionGrows
  <2>2. \A j \in Loggers : Fills(j, q) => Fills(j, q)'
    BY <1>0 DEF Fills
  <2>3. /\ logFile'[q].entries = logFile[q].entries /\ logFile'[q].linked = logFile[q].linked
        /\ logFile'[q].parses = logFile[q].parses
    BY <1>2, <1>3
  <2>4. Whole(q)' => \A i \in Standing(q)' : Has(logFile'[q], i)
    <3>1. CASE q = r
      <4>1. Whole(r)' => \A i \in Standing(r) : Has(logFile[r], i)
        BY <1>0, <2>1, <2>3, <3>1 DEF SoundLog, Whole
      <4> QED  BY <1>3, <1>4, <1>h, <3>1, <4>1
    <3>2. CASE q # r
      BY <1>0, <1>3, <1>4, <2>1, <3>2 DEF SoundLog, Whole, Standing
    <3> QED  BY <3>1, <3>2
  <2> QED  BY <1>0, <2>1, <2>2, <2>3, <2>4 DEF SoundLog
<1> QED  BY <1>5, <1>6, <1>7 DEF FrictionIInv

\* Logs without entries satisfy the invariant, and every step keeps it.
LEMMA FrictionInitIInv == FrictionInit => FrictionIInv
<1> SUFFICES ASSUME FrictionInit PROVE FrictionIInv
  OBVIOUS
<1>1. FrictionTypes
  BY NoLoggerIs DEF FrictionInit, FrictionTypes
<1>2. ASSUME NEW k \in Loggers PROVE Sound(k) /\ NumberIsNew(k)
  <2>1. /\ logger[k].at = "idle" /\ logger[k].content.linked = {} /\ logger[k].front.linked = {}
        /\ logger[k].content.entries = {}
    BY DEF FrictionInit, NoLogger, NoEntries
  <2> QED  BY <2>1, NoLoggerIs
           DEF Sound, Body, Front, Parsed, Linking, Reading, NumberIsNew, Busy
<1>3. ASSUME NEW r \in Logs PROVE SoundLog(r)
  <2>1. /\ logFile[r].entries = {} /\ logFile[r].linked = {} /\ logFile[r].parses
        /\ Standing(r) = {}
    BY <1>3 DEF FrictionInit, NoEntries, Standing
  <2> QED  BY <2>1, NoLoggerIs DEF SoundLog
<1> QED  BY <1>1, <1>2, <1>3 DEF FrictionIInv

LEMMA FrictionNextIInv == FrictionIInv /\ [FrictionNext]_frictionVars => FrictionIInv'
<1> SUFFICES ASSUME FrictionIInv, [FrictionNext]_frictionVars PROVE FrictionIInv'
  OBVIOUS
<1>0. (\A k \in Loggers : logger[k].log \in Logs) /\ LogExternal \in Logs
  BY DEF FrictionIInv, FrictionTypes, LoggerStates, Logs
<1>1. ASSUME NEW k \in Loggers, NEW r \in Logs, ReadLog(k, r, {}) PROVE FrictionIInv'
  BY <1>1, ReadLogStep
<1>2. ASSUME NEW k \in Loggers, NEW ps \in SUBSET LogProjects \ {{}}, ReadLog(k, LogExternal, ps)
      PROVE  FrictionIInv'
  BY <1>0, <1>2, ReadLogStep
<1>3. ASSUME NEW k \in Loggers,
             ReadFront(k) \/ ReadNumber(k) \/ EmptyLog(k) \/ WriteLog(k)
      PROVE  FrictionIInv'
  BY <1>0, <1>3, ReadFrontStep, ReadNumberStep, EmptyLogStep, WriteLogStep
<1>4. ASSUME NEW k \in Loggers, NEW p \in LogProjects, ReadProject(k, p) PROVE FrictionIInv'
  BY <1>4, ReadProjectStep
<1>5. ASSUME NEW k \in Loggers, WriteProject(k) \/ LoggerKilled(k) PROVE FrictionIInv'
  BY <1>0, <1>5, WriteProjectStep, LoggerKilledStep
<1>6. ASSUME NEW r \in Logs, NEW n \in 1 .. MaxEntries, Propose(r, n) PROVE FrictionIInv'
  <2>1. n \in Nat
    BY FrictionBounds
  <2> QED  BY <1>6, <2>1, ProposeStep
<1>7. CASE UNCHANGED frictionVars
  BY <1>7 DEF frictionVars, FrictionIInv, FrictionTypes, Sound, Body, Front, Parsed, Linking,
              Reading, NumberIsNew, SoundLog, Busy, Fills, Standing, LinkNumbers, Met, Whole
<1> QED  BY <1>1, <1>2, <1>3, <1>4, <1>5, <1>6, <1>7 DEF FrictionNext

\* It says what the module says of the logs.
LEMMA FrictionIInvSuffices == FrictionIInv => FrictionInv
<1> SUFFICES ASSUME FrictionIInv PROVE FrictionInv
  OBVIOUS
<1>1. ReportedIsKept /\ NumbersTellApart /\ EmptyLogIsBeingWritten
  BY DEF FrictionIInv, SoundLog, ReportedIsKept, NumbersTellApart, EmptyLogIsBeingWritten,
         Standing, TellApart, Fills, Whole
<1>2. LinksNameEntries
  <2> SUFFICES ASSUME NEW p \in LogProjects, Whole(LogExternal), ~Met(LogExternal),
                      NEW n \in logFile[p].linked
               PROVE  n \in Numbers(logFile[LogExternal])
    BY DEF LinksNameEntries
  <2>0. p \in Logs /\ LogExternal \in Logs /\ FrictionTypes
    BY DEF Logs, FrictionIInv
  <2>1. n \in LinkNumbers /\ SoundLog(LogExternal)
    BY <2>0 DEF FrictionIInv, SoundLog
  <2>2. PICK e \in reported[LogExternal] \intersect Entries : e.num = n
    BY <2>1 DEF LinkNumbers
  <2>3. e \notin unseen[LogExternal]
    BY <2>2, ItemKinds, Zenon DEF Met
  <2>4. e \in Standing(LogExternal)
    BY <2>2, <2>3 DEF Standing
  <2>5. e \in logFile[LogExternal].entries
    BY <2>0, <2>1, <2>2, <2>4, ReadIsSound DEF Whole
  <2> QED  BY <2>2, <2>5 DEF Numbers
<1> QED  BY <1>1, <1>2 DEF FrictionInv

\* For any number of projects, commands and kills: what was written into a log while nobody
\* had it in hand stays there, a number is one entry's unless two commands met, a project's
\* links name entries, and an empty log is being written or had its writer killed.
THEOREM FrictionCorrect == FrictionSpec => []FrictionInv
<1>1. FrictionInit => FrictionIInv
  BY FrictionInitIInv
<1>2. FrictionIInv /\ [FrictionNext]_frictionVars => FrictionIInv'
  BY FrictionNextIInv
<1>3. FrictionIInv => FrictionInv
  BY FrictionIInvSuffices
<1> QED  BY <1>1, <1>2, <1>3, PTL DEF FrictionSpec

-----------------------------------------------------------------------------
(* The files of a channel. *)

Lines == [pos : 1 .. MaxAppends, id : 1 .. MaxAppends]
MetaTexts == [text : {"none", "empty", "there"}, head : 0 .. MaxAppends, oldest : 1 .. MaxAppends]
ServerStates == [head : 0 .. MaxAppends, oldest : 1 .. MaxAppends, keep : Seq(Lines)]

StorageTypes ==
  /\ lines \in Seq(Lines) /\ metaFile \in MetaTexts /\ locker \in Servers \union {"nobody"}
  /\ at \in [Servers -> Places] /\ got \in [Servers -> ServerStates]
  /\ sent \in 0 .. MaxAppends /\ kills \in Nat /\ cut \in BOOLEAN /\ overtaken \in BOOLEAN

\* What is written and read is not ahead of what was sent, and who appends holds the lock.
NotAhead ==
  /\ metaFile.head <= sent /\ (metaFile.text = "none" => metaFile = NoText)
  /\ \A s \in Servers :
       /\ at[s] \in {"line", "meta", "metaText"} <=> locker = s
       /\ got[s].head <= sent /\ (at[s] = "line" => sent < MaxAppends)
       /\ at[s] \in {"replace", "reread"} => got[s].keep # <<>>

\* Of two lines with one position the earlier was torn off.
RisingBut(ls, T) ==
  \A i, j \in 1 .. Len(ls) : i < j =>
    ls[i].pos < ls[j].pos \/ (ls[i].pos = ls[j].pos /\ ls[i].id \in T)

\* h and o are the ends of the file.
HeadIs(ls, h, T) ==
  IF ls = <<>> THEN h = 0
  ELSE h = ls[Len(ls)].pos \/ (h + 1 = ls[Len(ls)].pos /\ ls[Len(ls)].id \in T)
OldestIs(ls, o, c) == IF ls = <<>> THEN o = 1 ELSE o = ls[1].pos \/ (c /\ o < ls[1].pos)
MetaTells ==
  /\ HeadIs(lines, metaFile.head, torn) /\ OldestIs(lines, metaFile.oldest, cut)
  /\ metaFile.text = "there" => lines # <<>>

\* Who works, where no other does, knows what the files say.
Knows(s) ==
  LET g == got[s]
  IN  /\ at[s] \in {"idle", "line", "replace"} /\ metaFile.text # "empty" => MetaTells
      /\ at[s] \in {"line", "meta"} =>
           metaFile.text # "empty" /\ g.oldest = metaFile.oldest
      /\ at[s] \in {"metaText", "oldestText"} => metaFile.text = "empty"
      /\ at[s] = "line" => g.head = metaFile.head
      /\ at[s] = "meta" => g.head = metaFile.head + 1
      /\ at[s] \in {"meta", "metaText"} =>
           lines # <<>> /\ Newest = [pos |-> g.head, id |-> sent] /\ OldestIs(lines, g.oldest, cut)
      /\ at[s] = "replace" =>
           /\ \E first \in 2 .. Len(lines) : g.keep = Kept(first)
           /\ Ids(lines) \subseteq Ids(g.keep) \union dropped
      /\ at[s] \in {"reread", "oldest", "oldestText"} => lines # <<>>
      /\ at[s] = "reread" => lines = g.keep
      /\ at[s] \in {"reread", "oldest"} /\ metaFile.text # "empty" =>
           HeadIs(lines, metaFile.head, torn) /\ metaFile.oldest <= lines[1].pos
      /\ at[s] \in {"oldest", "oldestText"} => g.oldest = lines[1].pos
      /\ at[s] = "oldest" => metaFile.text = "there" /\ g.head = metaFile.head
      /\ at[s] = "oldestText" => HeadIs(lines, g.head, torn)

Others(s) == \A t \in Servers : t # s => at[t] = "idle"

Undisturbed ==
  /\ RisingBut(lines, torn) /\ taken \subseteq Ids(lines) \union dropped
  /\ (\A s \in Servers : at[s] = "idle") /\ metaFile.text # "empty" => MetaTells
  /\ \A s \in Servers : at[s] # "idle" => Others(s) /\ Knows(s)

\* The inductive invariant of a channel's files.
StorageIInv ==
  /\ StorageTypes /\ NotAhead /\ EmptyIsBeingWritten
  /\ overtaken \/ Undisturbed

\* The first and the last line of a file.
LEMMA Ends ==
  ASSUME NEW ls \in Seq(Lines), ls # <<>>
  PROVE  /\ Len(ls) \in Nat /\ 1 \in 1 .. Len(ls) /\ Len(ls) \in 1 .. Len(ls)
         /\ ls[1] \in Lines /\ ls[Len(ls)] \in Lines
         /\ ls[1].pos \in 1 .. MaxAppends /\ ls[Len(ls)].pos \in 1 .. MaxAppends
         /\ \A T : RisingBut(ls, T) => ls[1].pos <= ls[Len(ls)].pos
<1>1. Len(ls) \in Nat \ {0}
  BY EmptySeq
<1>2. Len(ls) \in Nat /\ 1 \in 1 .. Len(ls) /\ Len(ls) \in 1 .. Len(ls)
  BY <1>1
<1>3. ls[1] \in Lines /\ ls[Len(ls)] \in Lines
  BY <1>2, ElementOfSeq
<1>4. ls[1].pos \in 1 .. MaxAppends /\ ls[Len(ls)].pos \in 1 .. MaxAppends
  BY <1>3 DEF Lines
<1>5. ASSUME NEW T, RisingBut(ls, T) PROVE ls[1].pos <= ls[Len(ls)].pos
  <2>1. 1 = Len(ls) \/ 1 < Len(ls)
    BY <1>1
  <2>2. 1 < Len(ls) => ls[1].pos < ls[Len(ls)].pos \/ ls[1].pos = ls[Len(ls)].pos
    BY <1>2, <1>5 DEF RisingBut
  <2> QED  BY <1>4, <2>1, <2>2
<1> QED  BY <1>2, <1>3, <1>4, <1>5

\* A line that is appended where the head points comes after all others.
LEMMA AppendedLine ==
  ASSUME NEW ls \in Seq(Lines), NEW l \in Lines
  PROVE  /\ Append(ls, l) \in Seq(Lines) /\ Append(ls, l) # <<>>
         /\ Append(ls, l)[Len(Append(ls, l))] = l
         /\ Append(ls, l)[1] = IF ls = <<>> THEN l ELSE ls[1]
         /\ Ids(ls) \subseteq Ids(Append(ls, l)) /\ l.id \in Ids(Append(ls, l))
         /\ \A T, h : RisingBut(ls, T) /\ HeadIs(ls, h, T) /\ h \in Nat /\ l.pos = h + 1 =>
                        RisingBut(Append(ls, l), T)
<1> DEFINE as == Append(ls, l)
<1>1. /\ as \in Seq(Lines) /\ as # <<>> /\ Len(as) = Len(ls) + 1
      /\ \A i \in 1 .. Len(ls) : as[i] = ls[i]
      /\ as[Len(ls) + 1] = l
  BY AppendProperties
<1>2. Len(ls) \in Nat /\ DOMAIN ls = 1 .. Len(ls) /\ DOMAIN as = 1 .. Len(ls) + 1
  BY <1>1, LenProperties
<1>l. Len(ls) \in Nat
  BY <1>2
<1> HIDE DEF as
<1>3. as[1] = IF ls = <<>> THEN l ELSE ls[1]
  <2>1. CASE ls = <<>>
    <3>1. Len(ls) = 0
      BY <2>1, EmptySeq
    <3>2. Len(ls) + 1 = 1
      BY <3>1
    <3>3. as[1] = l
      BY <1>1, <3>2
    <3> QED  BY <2>1, <3>3
  <2>2. CASE ls # <<>>
    BY <1>1, <2>2, Ends
  <2> QED  BY <2>1, <2>2
<1>4. Ids(ls) \subseteq Ids(as) /\ l.id \in Ids(as)
  <2>1. \A i \in 1 .. Len(ls) : i \in 1 .. Len(ls) + 1 /\ as[i].id = ls[i].id
    <3>1. \A i \in 1 .. Len(ls) : i \in 1 .. Len(ls) + 1
      BY <1>l
    <3> QED  BY <1>1, <3>1
  <2>2. Len(ls) + 1 \in 1 .. Len(ls) + 1 /\ as[Len(ls) + 1].id = l.id
    BY <1>1, <1>2
  <2> QED  BY <1>2, <2>1, <2>2 DEF Ids
<1>5. ASSUME NEW T, NEW h \in Nat, RisingBut(ls, T), HeadIs(ls, h, T), l.pos = h + 1
      PROVE  RisingBut(as, T)
  <2> SUFFICES ASSUME NEW i \in 1 .. Len(as), NEW j \in 1 .. Len(as), i < j
               PROVE  as[i].pos < as[j].pos \/ (as[i].pos = as[j].pos /\ as[i].id \in T)
    BY DEF RisingBut
  <2>1. i \in 1 .. Len(ls) /\ (j \in 1 .. Len(ls) \/ j = Len(ls) + 1)
    BY <1>1, <1>2
  <2>2. CASE j \in 1 .. Len(ls)
    BY <1>1, <1>5, <2>1, <2>2 DEF RisingBut
  <2>3. CASE j = Len(ls) + 1
    <3>1. ls # <<>> /\ Len(ls) \in 1 .. Len(ls)
      BY <1>2, <2>1, EmptySeq
    <3> DEFINE m == ls[Len(ls)]
    <3>2. h = m.pos \/ (h + 1 = m.pos /\ m.id \in T)
      BY <1>5, <3>1 DEF HeadIs
    <3>3. i = Len(ls) \/ ls[i].pos < m.pos \/ (ls[i].pos = m.pos /\ ls[i].id \in T)
      <4>1. i = Len(ls) \/ i < Len(ls)
        BY <1>l, <2>1
      <4> QED  BY <1>5, <2>1, <3>1, <4>1 DEF RisingBut
    <3>4. ls[i].pos \in Nat /\ m.pos \in Nat
      <4>1. ls[i] \in Lines /\ m \in Lines
        BY <2>1, <3>1, ElementOfSeq
      <4> QED  BY <4>1 DEF Lines
    <3>5. as[i] = ls[i] /\ as[j] = l
      BY <1>1, <2>1, <2>3
    <3> HIDE DEF m
    <3>6. ls[i].pos < h + 1 \/ (ls[i].pos = h + 1 /\ ls[i].id \in T)
      <4>1. i = Len(ls) => ls[i] = m
        BY DEF m
      <4> QED  BY <3>2, <3>3, <3>4, <4>1
    <3> QED  BY <1>5, <3>5, <3>6
  <2> QED  BY <2>1, <2>2, <2>3
<1> QED  BY <1>1, <1>2, <1>3, <1>4, <1>5 DEF as

\* What a compaction keeps is a file with the same newest line.
LEMMA KeptLines ==
  ASSUME NEW ls \in Seq(Lines), NEW first \in 2 .. Len(ls)
  PROVE  LET ks == SubSeq(ls, first, Len(ls))
         IN  /\ ks \in Seq(Lines) /\ ks # <<>> /\ ks[Len(ks)] = ls[Len(ls)]
             /\ \A T : RisingBut(ls, T) => RisingBut(ks, T) /\ ls[1].pos <= ks[1].pos
<1> DEFINE ks == SubSeq(ls, first, Len(ls))
<1>1. Len(ls) \in Nat /\ first \in Nat /\ 2 <= first /\ first <= Len(ls)
  BY LenProperties
<1>2. \A i \in first .. Len(ls) : ls[i] \in Lines
  BY <1>1, ElementOfSeq
<1>3. /\ ks \in Seq(Lines) /\ Len(ks) = Len(ls) - first + 1
      /\ \A i \in 1 .. Len(ls) - first + 1 : ks[i] = ls[first + i - 1]
  BY <1>1, <1>2, SubSeqProperties
<1> HIDE DEF ks
<1>4. Len(ks) \in Nat \ {0} /\ ks # <<>>
  BY <1>1, <1>3, EmptySeq
<1>5. \A i \in 1 .. Len(ks) : ks[i] = ls[first + i - 1] /\ first + i - 1 \in 1 .. Len(ls)
  BY <1>1, <1>3
<1>6. ks[Len(ks)] = ls[Len(ls)]
  <2>1. Len(ks) \in 1 .. Len(ks) /\ first + Len(ks) - 1 = Len(ls)
    BY <1>1, <1>3, <1>4
  <2> QED  BY <1>5, <2>1
<1>7. ASSUME NEW T, RisingBut(ls, T) PROVE RisingBut(ks, T) /\ ls[1].pos <= ks[1].pos
  <2>1. ASSUME NEW i \in 1 .. Len(ks), NEW j \in 1 .. Len(ks), i < j
        PROVE  ks[i].pos < ks[j].pos \/ (ks[i].pos = ks[j].pos /\ ks[i].id \in T)
    <3>1. first + i - 1 < first + j - 1
      BY <1>1, <1>4, <2>1
    <3> QED  BY <1>5, <1>7, <3>1 DEF RisingBut
  <2>2. ks[1] = ls[first] /\ first \in 1 .. Len(ls) /\ 1 \in 1 .. Len(ls) /\ 1 < first
    BY <1>1, <1>4, <1>5
  <2>3. ls[1].pos < ls[first].pos \/ ls[1].pos = ls[first].pos
    BY <1>7, <2>2 DEF RisingBut
  <2>4. ls[1] \in Lines /\ ls[first] \in Lines
    BY <2>2, ElementOfSeq
  <2>5. ls[1].pos \in Nat /\ ls[first].pos \in Nat
    BY <2>4 DEF Lines
  <2> QED  BY <2>1, <2>2, <2>3, <2>5 DEF RisingBut
<1> QED  BY <1>3, <1>4, <1>6, <1>7 DEF ks

\* A step of a server leaves the others where they are; if none disturbs it, they are idle.
LEMMA Undisturbing ==
  ASSUME StorageIInv, NEW s \in Servers, NEW p \in Places, Goto(s, p), overtaken' = (overtaken \/ Overlap'),
         ~overtaken', at[s] = "idle" => (p = "replace" \/ locker = "nobody"), at[s] # "idle" \/ p # "idle"
  PROVE  /\ Undisturbed /\ Others(s) /\ Others(s)' /\ Knows(s)
         /\ at'[s] = p /\ \A t \in Servers : t # s => at'[t] = at[t]
<1>1. at'[s] = p /\ \A t \in Servers : t # s => at'[t] = at[t]
  BY DEF Goto, StorageIInv, StorageTypes
<1>2. Undisturbed /\ ~Overlap' /\ ~overtaken
  BY DEF StorageIInv, StorageTypes
<1>3. Others(s)
  <2>1. CASE at[s] # "idle"
    BY <1>2, <2>1 DEF Undisturbed
  <2>2. CASE at[s] = "idle" /\ p = "replace"
    BY <1>1, <1>2, <2>2 DEF Overlap, Compacting, Others
  <2>3. CASE at[s] = "idle" /\ p # "replace" /\ locker = "nobody"
    <3> SUFFICES ASSUME NEW t \in Servers, t # s PROVE at[t] = "idle"
      BY DEF Others
    <3>1. at[t] \notin {"line", "meta", "metaText"}
      BY <2>3, StorageBounds DEF StorageIInv, NotAhead
    <3>2. ~Compacting(t)'
      BY <1>1, <1>2, <2>3 DEF Overlap
    <3>3. at[t] \in Places
      BY DEF StorageIInv, StorageTypes
    <3> QED  BY <1>1, <3>1, <3>2, <3>3 DEF Compacting, Places
  <2> QED  BY <2>1, <2>2, <2>3
<1>4. Others(s)'
  BY <1>1, <1>3 DEF Others
<1>5. Knows(s)
  <2>1. CASE at[s] # "idle"
    BY <1>2, <2>1 DEF Undisturbed
  <2>2. CASE at[s] = "idle"
    <3>1. metaFile.text # "empty" => MetaTells
      BY <1>2, <1>3, <2>2 DEF Undisturbed, Others
    <3> QED  BY <2>2, <3>1 DEF Knows
  <2> QED  BY <2>1, <2>2
<1> QED  BY <1>1, <1>2, <1>3, <1>4, <1>5

\* What a server knows is all there is to know when no other works.
LEMMA KnowsIsAll ==
  ASSUME NEW s \in Servers, Others(s)', Knows(s)', RisingBut(lines, torn)',
         (taken \subseteq Ids(lines) \union dropped)'
  PROVE  Undisturbed'
<1>1. \A t \in Servers : at'[t] # "idle" => t = s
  BY DEF Others
<1>2. (\A t \in Servers : at'[t] = "idle") /\ metaFile'.text # "empty" => MetaTells'
  BY DEF Knows
<1> QED  BY <1>1, <1>2 DEF Undisturbed

\* append_message, file operation by file operation.
LEMMA LockAndReadStep ==
  ASSUME StorageIInv, NEW s \in Servers, LockAndRead(s), overtaken' = (overtaken \/ Overlap')
  PROVE  StorageIInv'
<1> DEFINE g == [Nothing EXCEPT !.head = metaFile.head, !.oldest = metaFile.oldest]
<1>0. /\ at[s] = "idle" /\ locker = "nobody" /\ sent < MaxAppends /\ metaFile.text # "empty"
      /\ locker' = s /\ got' = [got EXCEPT ![s] = g] /\ Goto(s, "line")
      /\ UNCHANGED <<lines, metaFile, sent, kills, torn, cut, taken, dropped>>
  BY DEF LockAndRead
<1>t. StorageTypes /\ NotAhead /\ metaFile \in MetaTexts /\ "line" \in Places
  BY DEF StorageIInv, StorageTypes, Places
<1>1. /\ g \in ServerStates /\ g.head = metaFile.head /\ g.oldest = metaFile.oldest
  BY <1>t, EmptySeq DEF Nothing, ServerStates, MetaTexts
<1> HIDE DEF g
<1>2. /\ at'[s] = "line" /\ got'[s] = g
      /\ \A t \in Servers : t # s => at'[t] = at[t] /\ got'[t] = got[t]
      /\ at' \in [Servers -> Places] /\ got' \in [Servers -> ServerStates]
  BY <1>0, <1>1, <1>t DEF Goto, StorageTypes
<1>3. StorageTypes'
  BY <1>0, <1>2, <1>t DEF StorageTypes, Overlap
<1>4. NotAhead'
  BY <1>0, <1>1, <1>2, <1>t, StorageBounds DEF NotAhead
<1>5. EmptyIsBeingWritten'
  BY <1>0 DEF EmptyIsBeingWritten
<1>6. ASSUME ~overtaken' PROVE Undisturbed'
  <2>1. Undisturbed /\ Others(s)' /\ Knows(s)
    BY <1>0, <1>6, <1>t, Undisturbing
  <2>2. Knows(s)'
    BY <1>0, <1>1, <1>2, <2>1 DEF Knows, MetaTells
  <2> QED  BY <1>0, <2>1, <2>2, KnowsIsAll DEF Undisturbed
<1> QED  BY <1>3, <1>4, <1>5, <1>6 DEF StorageIInv

LEMMA AppendLineStep ==
  ASSUME StorageIInv, NEW s \in Servers, AppendLine(s), overtaken' = (overtaken \/ Overlap')
  PROVE  StorageIInv'
<1> DEFINE h == got[s].head + 1  l == [pos |-> h, id |-> sent + 1]
<1>0. /\ at[s] = "line" /\ sent' = sent + 1 /\ lines' = Append(lines, l)
      /\ got' = [got EXCEPT ![s].head = h] /\ Goto(s, "meta")
      /\ UNCHANGED <<metaFile, locker, kills, torn, cut, taken, dropped>>
  BY DEF AppendLine, NextPosition
<1>t. StorageTypes /\ NotAhead /\ metaFile \in MetaTexts /\ got[s] \in ServerStates /\ "meta" \in Places
  BY DEF StorageIInv, StorageTypes, Places
<1>1. /\ got[s].head \in Nat /\ got[s].head <= sent /\ sent < MaxAppends /\ sent \in Nat
      /\ MaxAppends \in Nat
  BY <1>0, <1>t, StorageBounds DEF NotAhead, ServerStates, StorageTypes
<1>2. h \in 1 .. MaxAppends /\ sent + 1 \in 1 .. MaxAppends /\ h <= sent + 1
  BY <1>1
<1>3. l \in Lines /\ l.pos = got[s].head + 1 /\ l.id = sent + 1
  BY <1>2 DEF Lines
<1>g. [got[s] EXCEPT !.head = h] \in ServerStates
  BY <1>2, <1>t DEF ServerStates
<1>4. /\ at'[s] = "meta" /\ got'[s] = [got[s] EXCEPT !.head = h]
      /\ \A t \in Servers : t # s => at'[t] = at[t] /\ got'[t] = got[t]
      /\ at' \in [Servers -> Places] /\ got' \in [Servers -> ServerStates]
  BY <1>0, <1>g, <1>t DEF Goto, StorageTypes
<1>5. got'[s].head = h /\ got'[s].oldest = got[s].oldest
  BY <1>4, <1>t DEF ServerStates
<1>6. /\ lines' \in Seq(Lines) /\ lines' # <<>> /\ lines'[Len(lines')] = l
      /\ lines'[1] = (IF lines = <<>> THEN l ELSE lines[1])
      /\ Ids(lines) \subseteq Ids(lines')
      /\ RisingBut(lines, torn) /\ HeadIs(lines, got[s].head, torn) => RisingBut(lines', torn)
  BY <1>0, <1>1, <1>3, <1>t, AppendedLine DEF StorageTypes
<1>7. StorageTypes'
  BY <1>0, <1>2, <1>4, <1>6, <1>t DEF StorageTypes, Overlap
<1>8. NotAhead'
  <2>1. metaFile.head <= sent + 1 /\ \A t \in Servers : got[t].head <= sent + 1
    <3>1. metaFile.head \in Nat /\ \A t \in Servers : got[t].head \in Nat
      BY <1>t DEF StorageTypes, MetaTexts, ServerStates
    <3> QED  BY <1>1, <1>t, <3>1 DEF NotAhead
  <2>2. \A t \in Servers : t # s => at[t] # "line"
    BY <1>0, <1>t DEF NotAhead
  <2> QED  BY <1>0, <1>2, <1>4, <1>5, <1>t, <2>1, <2>2 DEF NotAhead
<1>9. EmptyIsBeingWritten'
  BY <1>0, <1>4 DEF EmptyIsBeingWritten, StorageIInv
<1>10. ASSUME ~overtaken' PROVE Undisturbed'
  <2>1. Undisturbed /\ Others(s)' /\ Knows(s)
    BY <1>0, <1>10, <1>t, Undisturbing
  <2>2. MetaTells /\ metaFile.text # "empty" /\ got[s].head = metaFile.head /\ got[s].oldest = metaFile.oldest
    BY <1>0, <2>1 DEF Knows
  <2>3. RisingBut(lines', torn')
    BY <1>0, <1>6, <2>1, <2>2 DEF Undisturbed, MetaTells
  <2>4. OldestIs(lines', metaFile.oldest, cut)
    <3>1. CASE lines = <<>>
      BY <1>3, <1>6, <2>2, <3>1 DEF MetaTells, HeadIs, OldestIs
    <3>2. CASE lines # <<>>
      BY <1>6, <2>2, <3>2 DEF MetaTells, OldestIs
    <3> QED  BY <3>1, <3>2
  <2>7. Newest' = [pos |-> got'[s].head, id |-> sent']
    BY <1>0, <1>5, <1>6 DEF Newest
  <2>8. at'[s] = "meta" /\ lines' # <<>> /\ metaFile'.text # "empty" /\ cut' = cut
    BY <1>0, <1>4, <1>6, <2>2
  <2>9. got'[s].oldest = metaFile'.oldest /\ got'[s].head = metaFile'.head + 1
    BY <1>0, <1>5, <2>2
  <2> HIDE DEF h, l
  <2>10. OldestIs(lines', got'[s].oldest, cut')
    BY <1>0, <2>4, <2>8, <2>9
  <2>5. Knows(s)'
    BY <2>7, <2>8, <2>9, <2>10 DEF Knows
  <2>6. (taken \subseteq Ids(lines) \union dropped)'
    BY <1>0, <1>6, <2>1 DEF Undisturbed
  <2> QED  BY <2>1, <2>3, <2>5, <2>6, KnowsIsAll
<1> QED  BY <1>7, <1>8, <1>9, <1>10 DEF StorageIInv

\* meta.json is emptied, for an append or for a compaction.
LEMMA EmptyMetaStep ==
  ASSUME StorageIInv, NEW s \in Servers, EmptyMeta(s), overtaken' = (overtaken \/ Overlap')
  PROVE  StorageIInv'
<1> DEFINE p == IF at[s] = "meta" THEN "metaText" ELSE "oldestText"
<1>0. /\ at[s] \in {"meta", "oldest"} /\ metaFile' = [metaFile EXCEPT !.text = "empty"] /\ Goto(s, p)
      /\ UNCHANGED <<lines, locker, got, sent, kills, torn, cut, taken, dropped>>
  BY DEF EmptyMeta
<1>t. StorageTypes /\ NotAhead /\ metaFile \in MetaTexts /\ p \in Places /\ p \in {"metaText", "oldestText"}
  BY DEF StorageIInv, StorageTypes, Places
<1>1. /\ metaFile'.head = metaFile.head /\ metaFile'.text = "empty" /\ metaFile' \in MetaTexts
      /\ metaFile'.oldest = metaFile.oldest
  BY <1>0, <1>t DEF MetaTexts
<1>2. /\ at'[s] = p /\ \A t \in Servers : t # s => at'[t] = at[t]
      /\ at' \in [Servers -> Places]
  BY <1>0, <1>t DEF Goto, StorageTypes
<1>3. StorageTypes'
  BY <1>0, <1>1, <1>2, <1>t DEF StorageTypes, Overlap
<1>4. NotAhead'
  BY <1>0, <1>1, <1>2, <1>t DEF NotAhead
<1>5. EmptyIsBeingWritten'
  BY <1>2, <1>t DEF EmptyIsBeingWritten
<1>6. ASSUME ~overtaken' PROVE Undisturbed'
  <2>1. Undisturbed /\ Others(s)' /\ Knows(s)
    BY <1>0, <1>6, <1>t, Undisturbing
  <2>2. Knows(s)'
    <3>1. CASE at[s] = "meta"
      <4>1. /\ lines # <<>> /\ Newest = [pos |-> got[s].head, id |-> sent]
            /\ OldestIs(lines, got[s].oldest, cut)
        BY <2>1, <3>1 DEF Knows
      <4> QED  BY <1>0, <1>1, <1>2, <3>1, <4>1 DEF Knows, Newest
    <3>2. CASE at[s] = "oldest"
      <4>1. /\ lines # <<>> /\ got[s].oldest = lines[1].pos
            /\ HeadIs(lines, got[s].head, torn)
        BY <2>1, <3>2 DEF Knows
      <4> QED  BY <1>0, <1>1, <1>2, <3>2, <4>1 DEF Knows
    <3> QED  BY <1>0, <3>1, <3>2
  <2> QED  BY <1>0, <2>1, <2>2, KnowsIsAll DEF Undisturbed
<1> QED  BY <1>3, <1>4, <1>5, <1>6 DEF StorageIInv

\* meta.json is written with what the server knows of the ends.
LEMMA WriteMetaStep ==
  ASSUME StorageIInv, NEW s \in Servers, at[s] \in {"metaText", "oldestText"}, WriteMeta(s),
         got' = [got EXCEPT ![s] = Nothing], Goto(s, "idle"),
         locker' = IF at[s] = "metaText" THEN "nobody" ELSE locker,
         taken' = taken \union IF at[s] = "metaText" THEN {sent} ELSE {},
         UNCHANGED <<lines, sent, kills, torn, cut, dropped>>,
         overtaken' = (overtaken \/ Overlap')
  PROVE  StorageIInv'
<1>t. StorageTypes /\ NotAhead /\ got[s] \in ServerStates /\ "idle" \in Places
  BY DEF StorageIInv, StorageTypes, Places
<1>1. /\ metaFile'.head = got[s].head /\ metaFile'.text = "there" /\ metaFile' \in MetaTexts
      /\ metaFile'.oldest = got[s].oldest
  BY <1>t DEF WriteMeta, MetaTexts, ServerStates
<1>n. Nothing \in ServerStates /\ Nothing.head = 0
  BY StorageBounds, EmptySeq DEF Nothing, ServerStates
<1>2. /\ at'[s] = "idle" /\ \A t \in Servers : t # s => at'[t] = at[t] /\ got'[t] = got[t]
      /\ at' \in [Servers -> Places] /\ got' \in [Servers -> ServerStates] /\ got'[s] = Nothing
  BY <1>n, <1>t DEF Goto, StorageTypes
<1>3. StorageTypes'
  BY <1>1, <1>2, <1>t DEF StorageTypes, Overlap
<1>4. NotAhead'
  <2>1. sent \in Nat
    BY <1>t, StorageBounds DEF StorageTypes
  <2>2. \A t \in Servers : locker' = t <=> at'[t] \in {"line", "meta", "metaText"}
    BY <1>2, <1>t, StorageBounds DEF NotAhead
  <2>3. \A t \in Servers : got'[t].head <= sent
    BY <1>2, <1>n, <1>t, <2>1 DEF NotAhead
  <2> QED  BY <1>1, <1>2, <1>t, <2>2, <2>3 DEF NotAhead
<1>5. EmptyIsBeingWritten'
  BY <1>1 DEF EmptyIsBeingWritten
<1>6. ASSUME ~overtaken' PROVE Undisturbed'
  <2>1. Undisturbed /\ Others(s)' /\ Knows(s)
    BY <1>6, <1>t, Undisturbing
  <2>2. MetaTells' /\ (at[s] = "metaText" => sent \in Ids(lines))
    <3>1. CASE at[s] = "metaText"
      <4>1. /\ lines # <<>> /\ Newest = [pos |-> got[s].head, id |-> sent]
            /\ OldestIs(lines, got[s].oldest, cut)
        BY <2>1, <3>1 DEF Knows
      <4>2. Newest.pos = got[s].head /\ Newest.id = sent /\ Newest = lines[Len(lines)]
        BY <4>1 DEF Newest
      <4>3. HeadIs(lines, got[s].head, torn)
        BY <4>1, <4>2 DEF HeadIs
      <4>4. sent \in Ids(lines)
        BY <1>t, <4>1, <4>2, Ends, LenProperties DEF Ids, StorageTypes
      <4> QED  BY <1>1, <4>1, <4>3, <4>4 DEF MetaTells
    <3>2. CASE at[s] = "oldestText"
      <4>1. /\ lines # <<>> /\ got[s].oldest = lines[1].pos
            /\ HeadIs(lines, got[s].head, torn)
        BY <2>1, <3>2 DEF Knows
      <4> QED  BY <1>1, <3>2, <4>1 DEF MetaTells, OldestIs
    <3> QED  BY <3>1, <3>2
  <2>3. Knows(s)'
    BY <1>2, <2>2 DEF Knows
  <2>4. RisingBut(lines, torn)' /\ (taken \subseteq Ids(lines) \union dropped)'
    BY <2>1, <2>2 DEF Undisturbed
  <2> QED  BY <2>1, <2>3, <2>4, KnowsIsAll
<1> QED  BY <1>3, <1>4, <1>5, <1>6 DEF StorageIInv

\* Both operations return after it.
LEMMA ReturnSteps ==
  ASSUME StorageIInv, NEW s \in Servers, AppendReturns(s) \/ CompactionReturns(s),
         overtaken' = (overtaken \/ Overlap')
  PROVE  StorageIInv'
<1>1. CASE AppendReturns(s)
  BY <1>1, WriteMetaStep DEF AppendReturns
<1>2. CASE CompactionReturns(s)
  <2>1. taken' = taken \union {}
    BY <1>2 DEF CompactionReturns
  <2> QED  BY <1>2, <2>1, WriteMetaStep DEF CompactionReturns
<1> QED  BY <1>1, <1>2

\* compact, file operation by file operation.
LEMMA StartCompactionStep ==
  ASSUME StorageIInv, NEW s \in Servers, StartCompaction(s), overtaken' = (overtaken \/ Overlap')
  PROVE  StorageIInv'
<1>0. /\ at[s] = "idle" /\ Goto(s, "replace")
      /\ UNCHANGED <<lines, metaFile, locker, sent, kills, torn, cut, taken>>
  BY DEF StartCompaction
<1>1. PICK first \in 2 .. Len(lines) :
        /\ got' = [got EXCEPT ![s].keep = Kept(first)]
        /\ dropped' = dropped \union (Ids(lines) \ Ids(Kept(first)))
  BY DEF StartCompaction
<1>t. StorageTypes /\ NotAhead /\ got[s] \in ServerStates /\ "replace" \in Places /\ lines \in Seq(Lines)
  BY DEF StorageIInv, StorageTypes, Places
<1>2. Kept(first) \in Seq(Lines) /\ Kept(first) # <<>>
  BY <1>t, KeptLines DEF Kept
<1>3. [got[s] EXCEPT !.keep = Kept(first)] \in ServerStates
  BY <1>2, <1>t DEF ServerStates
<1>4. /\ at'[s] = "replace" /\ \A t \in Servers : t # s => at'[t] = at[t] /\ got'[t] = got[t]
      /\ at' \in [Servers -> Places] /\ got' \in [Servers -> ServerStates]
      /\ got'[s] = [got[s] EXCEPT !.keep = Kept(first)]
  BY <1>0, <1>1, <1>3, <1>t DEF Goto, StorageTypes
<1>5. got'[s].keep = Kept(first) /\ got'[s].head = got[s].head
  BY <1>4, <1>t DEF ServerStates
<1>6. StorageTypes'
  BY <1>0, <1>4, <1>t DEF StorageTypes, Overlap
<1>7. NotAhead'
  BY <1>0, <1>2, <1>4, <1>5, <1>t DEF NotAhead
<1>8. EmptyIsBeingWritten'
  BY <1>0, <1>4 DEF StorageIInv, EmptyIsBeingWritten
<1>9. ASSUME ~overtaken' PROVE Undisturbed'
  <2>1. Undisturbed /\ Others(s)' /\ Knows(s)
    BY <1>0, <1>9, <1>t, Undisturbing
  <2>2. metaFile.text # "empty" => MetaTells'
    BY <1>0, <2>1 DEF Knows, MetaTells
  <2>3. /\ \E f \in 2 .. Len(lines') : got'[s].keep = Kept(f)'
        /\ Ids(lines') \subseteq Ids(got'[s].keep) \union dropped'
    BY <1>0, <1>1, <1>5 DEF Kept
  <2>4. Knows(s)'
    BY <1>0, <1>4, <2>2, <2>3 DEF Knows
  <2>5. RisingBut(lines, torn)' /\ (taken \subseteq Ids(lines) \union dropped)'
    BY <1>0, <1>1, <2>1 DEF Undisturbed
  <2> QED  BY <2>1, <2>4, <2>5, KnowsIsAll
<1> QED  BY <1>6, <1>7, <1>8, <1>9 DEF StorageIInv

LEMMA ReplaceLinesStep ==
  ASSUME StorageIInv, NEW s \in Servers, ReplaceLines(s), overtaken' = (overtaken \/ Overlap')
  PROVE  StorageIInv'
<1>0. /\ at[s] = "replace" /\ lines' = got[s].keep /\ Goto(s, "reread")
      /\ UNCHANGED <<metaFile, locker, got, sent, kills, torn, cut, taken, dropped>>
  BY DEF ReplaceLines
<1>t. StorageTypes /\ NotAhead /\ got[s] \in ServerStates /\ "reread" \in Places /\ lines \in Seq(Lines)
  BY DEF StorageIInv, StorageTypes, Places
<1>1. lines' \in Seq(Lines) /\ lines' # <<>>
  BY <1>0, <1>t DEF NotAhead, ServerStates
<1>2. /\ at'[s] = "reread" /\ \A t \in Servers : t # s => at'[t] = at[t]
      /\ at' \in [Servers -> Places]
  BY <1>0, <1>t DEF Goto, StorageTypes
<1>3. StorageTypes'
  BY <1>0, <1>1, <1>2, <1>t DEF StorageTypes, Overlap
<1>4. NotAhead'
  BY <1>0, <1>2, <1>t DEF NotAhead
<1>5. EmptyIsBeingWritten'
  BY <1>0, <1>2 DEF StorageIInv, EmptyIsBeingWritten
<1>6. ASSUME ~overtaken' PROVE Undisturbed'
  <2>1. Undisturbed /\ Others(s)' /\ Knows(s)
    BY <1>0, <1>6, <1>t, Undisturbing
  <2>2. PICK first \in 2 .. Len(lines) : lines' = Kept(first)
    BY <1>0, <2>1 DEF Knows
  <2>3. /\ lines'[Len(lines')] = lines[Len(lines)] /\ RisingBut(lines', torn)
        /\ lines[1].pos <= lines'[1].pos
    BY <1>t, <2>1, <2>2, KeptLines DEF Kept, Undisturbed
  <2>4. Ids(lines) \subseteq Ids(lines') \union dropped
    BY <1>0, <2>1 DEF Knows
  <2>5. lines # <<>>
    <3>1. Len(lines) # 0
      BY <1>t, <2>2, LenProperties
    <3> QED  BY <3>1, EmptySeq
  <2>6. ASSUME metaFile.text # "empty"
        PROVE  HeadIs(lines', metaFile.head, torn) /\ metaFile.oldest <= lines'[1].pos
    <3>1. HeadIs(lines, metaFile.head, torn) /\ OldestIs(lines, metaFile.oldest, cut)
      BY <1>0, <2>1, <2>6 DEF Knows, MetaTells
    <3>2. HeadIs(lines', metaFile.head, torn)
      BY <1>1, <2>3, <2>5, <3>1 DEF HeadIs
    <3>3. metaFile.oldest \in Nat /\ lines[1].pos \in Nat /\ lines'[1].pos \in Nat
      <4>1. lines[1].pos \in 1 .. MaxAppends /\ lines'[1].pos \in 1 .. MaxAppends
        BY <1>1, <1>t, <2>5, Ends
      <4> QED  BY <1>t, <4>1 DEF StorageTypes, MetaTexts
    <3>4. metaFile.oldest = lines[1].pos \/ metaFile.oldest < lines[1].pos
      BY <2>5, <3>1 DEF OldestIs
    <3> QED  BY <2>3, <3>2, <3>3, <3>4
  <2>7. Knows(s)'
    BY <1>0, <1>1, <1>2, <2>6 DEF Knows
  <2>8. RisingBut(lines, torn)' /\ (taken \subseteq Ids(lines) \union dropped)'
    BY <1>0, <2>1, <2>3, <2>4 DEF Undisturbed
  <2> QED  BY <2>1, <2>7, <2>8, KnowsIsAll
<1> QED  BY <1>3, <1>4, <1>5, <1>6 DEF StorageIInv

LEMMA RereadMetaStep ==
  ASSUME StorageIInv, NEW s \in Servers, RereadMeta(s), overtaken' = (overtaken \/ Overlap')
  PROVE  StorageIInv'
<1>0. at[s] = "reread" /\ UNCHANGED <<lines, metaFile, locker, sent, kills, torn, taken, dropped>>
  BY DEF RereadMeta
<1>t. /\ StorageTypes /\ NotAhead /\ got[s] \in ServerStates /\ {"oldest", "idle"} \subseteq Places
      /\ lines \in Seq(Lines) /\ got[s].keep \in Seq(Lines) /\ got[s].keep # <<>>
      /\ metaFile \in MetaTexts
  BY <1>0 DEF StorageIInv, StorageTypes, Places, NotAhead, ServerStates
<1>1. CASE metaFile.text = "there"
  <2> DEFINE o == got[s].keep[1].pos  g == [got[s] EXCEPT !.head = metaFile.head, !.oldest = o]
  <2>0. Head(got[s].keep) = got[s].keep[1] /\ o \in 1 .. MaxAppends
    BY <1>t, Ends
  <2>1. /\ got' = [got EXCEPT ![s].head = metaFile.head, ![s].oldest = Head(got[s].keep).pos]
        /\ Goto(s, "oldest") /\ cut' = cut
    BY <1>1 DEF RereadMeta
  <2>2. g \in ServerStates /\ g.head = metaFile.head /\ g.oldest = o
    BY <1>t, <2>0 DEF ServerStates, MetaTexts
  <2>3. got' = [got EXCEPT ![s] = g]
    BY <1>t, <2>0, <2>1 DEF StorageTypes
  <2>4. /\ at'[s] = "oldest" /\ \A t \in Servers : t # s => at'[t] = at[t] /\ got'[t] = got[t]
        /\ at' \in [Servers -> Places] /\ got' \in [Servers -> ServerStates] /\ got'[s] = g
    BY <1>t, <2>1, <2>2, <2>3 DEF Goto, StorageTypes
  <2> HIDE DEF g
  <2>5. StorageTypes'
    BY <1>0, <1>t, <2>1, <2>4 DEF StorageTypes, Overlap
  <2>6. NotAhead'
    BY <1>0, <1>t, <2>2, <2>4 DEF NotAhead
  <2>7. EmptyIsBeingWritten'
    BY <1>0, <1>1 DEF EmptyIsBeingWritten
  <2>8. ASSUME ~overtaken' PROVE Undisturbed'
    <3>1. Undisturbed /\ Others(s)' /\ Knows(s)
      BY <1>0, <1>t, <2>1, <2>8, Undisturbing
    <3>2. /\ lines # <<>> /\ lines = got[s].keep /\ HeadIs(lines, metaFile.head, torn)
          /\ metaFile.oldest <= lines[1].pos
      BY <1>0, <1>1, <3>1 DEF Knows
    <3>3. g.oldest = lines[1].pos
      BY <2>2, <3>2
    <3> HIDE DEF o
    <3>4. Knows(s)'
      BY <1>0, <1>1, <2>2, <2>4, <3>2, <3>3 DEF Knows
    <3> QED  BY <1>0, <3>1, <3>4, KnowsIsAll DEF Undisturbed
  <2> QED  BY <2>5, <2>6, <2>7, <2>8 DEF StorageIInv
<1>2. CASE metaFile.text # "there"
  <2>1. /\ got' = [got EXCEPT ![s] = Nothing] /\ Goto(s, "idle")
        /\ cut' = (cut \/ metaFile.text = "empty")
    BY <1>2 DEF RereadMeta
  <2>n. Nothing \in ServerStates /\ Nothing.head = 0
    BY StorageBounds, EmptySeq DEF Nothing, ServerStates
  <2>4. /\ at'[s] = "idle" /\ \A t \in Servers : t # s => at'[t] = at[t] /\ got'[t] = got[t]
        /\ at' \in [Servers -> Places] /\ got' \in [Servers -> ServerStates] /\ got'[s] = Nothing
    BY <1>t, <2>1, <2>n DEF Goto, StorageTypes
  <2>5. StorageTypes'
    BY <1>0, <1>t, <2>1, <2>4 DEF StorageTypes, Overlap
  <2>6. NotAhead'
    <3>1. sent \in Nat
      BY <1>t, StorageBounds DEF StorageTypes
    <3> QED  BY <1>0, <1>t, <2>4, <2>n, <3>1 DEF NotAhead
  <2>7. EmptyIsBeingWritten'
    BY <1>0, <2>4 DEF StorageIInv, EmptyIsBeingWritten
  <2>8. ASSUME ~overtaken' PROVE Undisturbed'
    <3>1. Undisturbed /\ Others(s)' /\ Knows(s)
      BY <1>0, <1>t, <2>1, <2>8, Undisturbing
    <3>2. ASSUME metaFile.text # "empty" PROVE MetaTells'
      <4>1. metaFile = NoText /\ metaFile.head = 0 /\ metaFile.oldest = 1
        BY <1>2, <1>t, <3>2 DEF NotAhead, MetaTexts, NoText
      <4>2. lines # <<>> /\ HeadIs(lines, 0, torn)
        BY <1>0, <3>1, <3>2, <4>1 DEF Knows
      <4>3. /\ lines[1].pos \in 1 .. MaxAppends /\ lines[Len(lines)].pos \in 1 .. MaxAppends
            /\ lines[1].pos <= lines[Len(lines)].pos
        BY <1>t, <3>1, <4>2, Ends DEF Undisturbed
      <4>4. lines[Len(lines)].pos = 1
        BY <4>2, <4>3 DEF HeadIs
      <4>5. lines[1].pos = 1
        BY <4>3, <4>4
      <4> QED  BY <1>0, <4>1, <4>2, <4>5 DEF MetaTells, OldestIs
    <3>4. Knows(s)'
      BY <1>0, <2>4, <3>2 DEF Knows
    <3> QED  BY <1>0, <3>1, <3>4, KnowsIsAll DEF Undisturbed
  <2> QED  BY <2>5, <2>6, <2>7, <2>8 DEF StorageIInv
<1> QED  BY <1>1, <1>2

\* A server is killed: its line is torn off, or its compaction cut.
LEMMA ServerKilledStep ==
  ASSUME StorageIInv, NEW s \in Servers, ServerKilled(s), overtaken' = (overtaken \/ Overlap')
  PROVE  StorageIInv'
<1>0. /\ at[s] # "idle" /\ kills' = kills + 1
      /\ locker' = (IF locker = s THEN "nobody" ELSE locker)
      /\ torn' = (IF at[s] = "meta" THEN torn \union {sent} ELSE torn)
      /\ cut' = (cut \/ at[s] \in {"reread", "oldest"})
      /\ got' = [got EXCEPT ![s] = Nothing] /\ Goto(s, "idle")
      /\ UNCHANGED <<lines, metaFile, sent, taken, dropped>>
  BY DEF ServerKilled
<1>t. /\ StorageTypes /\ NotAhead /\ got[s] \in ServerStates /\ "idle" \in Places
      /\ lines \in Seq(Lines) /\ metaFile \in MetaTexts
  BY DEF StorageIInv, StorageTypes, Places
<1>n. Nothing \in ServerStates /\ Nothing.head = 0
  BY StorageBounds, EmptySeq DEF Nothing, ServerStates
<1>1. /\ at'[s] = "idle" /\ \A t \in Servers : t # s => at'[t] = at[t] /\ got'[t] = got[t]
      /\ at' \in [Servers -> Places] /\ got' \in [Servers -> ServerStates] /\ got'[s] = Nothing
  BY <1>0, <1>n, <1>t DEF Goto, StorageTypes
<1>2. StorageTypes'
  BY <1>0, <1>1, <1>t DEF StorageTypes, Overlap
<1>3. NotAhead'
  <2>1. sent \in Nat
    BY <1>t, StorageBounds DEF StorageTypes
  <2>2. \A t \in Servers : locker' = t <=> at'[t] \in {"line", "meta", "metaText"}
    BY <1>0, <1>1, <1>t, StorageBounds DEF NotAhead
  <2>3. \A t \in Servers : got'[t].head <= sent
    BY <1>1, <1>n, <1>t, <2>1 DEF NotAhead
  <2> QED  BY <1>0, <1>1, <1>t, <2>2, <2>3 DEF NotAhead
<1>4. EmptyIsBeingWritten'
  <2>1. kills' > 0
    BY <1>0, <1>t DEF StorageTypes
  <2> QED  BY <2>1 DEF EmptyIsBeingWritten
<1>5. ASSUME ~overtaken' PROVE Undisturbed'
  <2>1. Undisturbed /\ Others(s)' /\ Knows(s)
    BY <1>0, <1>5, <1>t, Undisturbing
  <2>2. torn \subseteq torn' /\ (cut => cut')
    BY <1>0
  <2>3. RisingBut(lines, torn)'
    BY <1>0, <2>1, <2>2 DEF Undisturbed, RisingBut
  <2>4. ASSUME metaFile.text # "empty" PROVE MetaTells'
    <3>1. CASE at[s] \in {"line", "replace"}
      BY <1>0, <2>1, <2>2, <2>4, <3>1 DEF Knows, MetaTells, HeadIs, OldestIs
    <3>2. CASE at[s] = "meta"
      <4>1. /\ lines # <<>> /\ Newest = [pos |-> got[s].head, id |-> sent]
            /\ got[s].head = metaFile.head + 1 /\ got[s].oldest = metaFile.oldest
            /\ OldestIs(lines, got[s].oldest, cut)
        BY <2>1, <3>2 DEF Knows
      <4>2. lines[Len(lines)].pos = metaFile.head + 1 /\ lines[Len(lines)].id = sent
        BY <4>1 DEF Newest
      <4> QED  BY <1>0, <2>2, <3>2, <4>1, <4>2 DEF MetaTells, HeadIs, OldestIs
    <3>3. CASE at[s] \in {"reread", "oldest"}
      <4>1. lines # <<>> /\ HeadIs(lines, metaFile.head, torn) /\ metaFile.oldest <= lines[1].pos
        BY <2>1, <2>4, <3>3 DEF Knows
      <4>2. metaFile.oldest \in Nat /\ lines[1].pos \in Nat
        BY <1>t, <4>1, Ends DEF MetaTexts
      <4>3. metaFile.oldest = lines[1].pos \/ metaFile.oldest < lines[1].pos
        BY <4>1, <4>2
      <4> QED  BY <1>0, <3>3, <4>1, <4>3 DEF MetaTells, HeadIs, OldestIs
    <3>4. CASE at[s] \in {"metaText", "oldestText"}
      <4>1. metaFile.text = "empty"
        BY <2>1, <3>4 DEF Knows
      <4> QED  BY <2>4, <4>1
    <3> QED  BY <1>0, <1>t, <3>1, <3>2, <3>3, <3>4 DEF StorageTypes, Places
  <2>5. Knows(s)'
    BY <1>0, <1>1, <2>4 DEF Knows
  <2> QED  BY <1>0, <2>1, <2>3, <2>5, KnowsIsAll DEF Undisturbed
<1> QED  BY <1>2, <1>3, <1>4, <1>5 DEF StorageIInv

\* The empty channel satisfies the invariant.
LEMMA StorageInitIInv == StorageInit => StorageIInv
<1> SUFFICES ASSUME StorageInit PROVE StorageIInv
  OBVIOUS
<1>1. lines = <<>> /\ Len(lines) = 0 /\ lines \in Seq(Lines) /\ Nothing \in ServerStates
  BY StorageBounds, EmptySeq DEF StorageInit, Nothing, ServerStates
<1>2. metaFile = NoText /\ metaFile.head = 0 /\ metaFile.oldest = 1 /\ metaFile.text = "none"
      /\ metaFile \in MetaTexts
  BY StorageBounds DEF StorageInit, NoText, MetaTexts
<1>3. \A s \in Servers : at[s] = "idle" /\ got[s] = Nothing
  BY DEF StorageInit
<1>4. StorageTypes
  <2>1. "idle" \in Places
    BY DEF Places
  <2>2. at \in [Servers -> Places] /\ got \in [Servers -> ServerStates]
    BY <1>1, <2>1 DEF StorageInit
  <2>3. /\ locker = "nobody" /\ sent = 0 /\ kills = 0 /\ cut = FALSE /\ overtaken = FALSE
    BY DEF StorageInit
  <2>4. 0 \in 0 .. MaxAppends
    BY StorageBounds
  <2> QED  BY <1>1, <1>2, <2>2, <2>3, <2>4 DEF StorageTypes
<1>5. NotAhead
  BY <1>2, <1>3, StorageBounds DEF StorageInit, NotAhead, Nothing
<1>6. EmptyIsBeingWritten
  BY <1>2 DEF EmptyIsBeingWritten
<1>7. Undisturbed
  <2>1. RisingBut(lines, torn)
    BY <1>1 DEF RisingBut
  <2> QED  BY <1>1, <1>2, <1>3, <2>1 DEF Undisturbed, MetaTells, HeadIs, OldestIs, StorageInit
<1> QED  BY <1>4, <1>5, <1>6, <1>7 DEF StorageIInv

\* Every step keeps it.
LEMMA StorageNextIInv == StorageIInv /\ [StorageNext]_storageVars => StorageIInv'
<1> SUFFICES ASSUME StorageIInv, [StorageNext]_storageVars PROVE StorageIInv'
  OBVIOUS
<1>1. ASSUME NEW s \in Servers, overtaken' = (overtaken \/ Overlap'),
             \/ LockAndRead(s) \/ AppendLine(s) \/ EmptyMeta(s) \/ AppendReturns(s)
             \/ StartCompaction(s) \/ ReplaceLines(s) \/ RereadMeta(s) \/ CompactionReturns(s)
             \/ ServerKilled(s)
      PROVE  StorageIInv'
  BY <1>1, LockAndReadStep, AppendLineStep, EmptyMetaStep, ReturnSteps, StartCompactionStep,
     ReplaceLinesStep, RereadMetaStep, ServerKilledStep
<1>2. CASE UNCHANGED storageVars
  BY <1>2 DEF storageVars, StorageIInv, StorageTypes, NotAhead, EmptyIsBeingWritten, Undisturbed,
              Others, Knows, MetaTells, Newest, Kept
<1> QED  BY <1>1, <1>2 DEF StorageNext

\* It says what the module says of a channel's files.
LEMMA StorageIInvSuffices == StorageIInv => StorageInv
<1> SUFFICES ASSUME StorageIInv PROVE StorageInv
  OBVIOUS
<1>t. StorageTypes /\ NotAhead /\ lines \in Seq(Lines) /\ metaFile \in MetaTexts
  BY DEF StorageIInv, StorageTypes
<1>1. DOMAIN lines = 1 .. Len(lines) /\ \A i \in DOMAIN lines : lines[i] \in Lines
  BY <1>t, LenProperties, ElementOfSeq
<1>2. StorageTypeOK
  BY <1>1, <1>t DEF StorageTypeOK, StorageTypes, NotAhead, Lines, MetaTexts
<1>3. PositionsTellApart /\ TakenAreKept
  BY <1>1 DEF StorageIInv, Undisturbed, RisingBut, PositionsTellApart, TakenAreKept
<1>4. MetaTellsEnds
  <2> SUFFICES ASSUME \A s \in Servers : at[s] = "idle", metaFile.text = "there", ~overtaken
               PROVE  /\ metaFile.oldest = lines[1].pos \/ (cut /\ metaFile.oldest < lines[1].pos)
                      /\ \/ metaFile.head = Newest.pos
                         \/ metaFile.head + 1 = Newest.pos /\ Newest.id \in torn
    BY DEF MetaTellsEnds
  <2>1. MetaTells
    BY DEF StorageIInv, Undisturbed
  <2>2. lines # <<>>
    BY <2>1 DEF MetaTells
  <2> QED  BY <2>1, <2>2 DEF MetaTells, HeadIs, OldestIs, Newest
<1> QED  BY <1>2, <1>3, <1>4 DEF StorageIInv, StorageInv

\* Whatever servers share a channel's directory, and wherever one is killed: but for a server
\* that works during another's compaction, two lines with one position are of a server that
\* died, a message that was taken is there or was compacted away, and meta.json tells the ends.
THEOREM StorageCorrect == StorageSpec => []StorageInv
<1>1. StorageInit => StorageIInv
  BY StorageInitIInv
<1>2. StorageIInv /\ [StorageNext]_storageVars => StorageIInv'
  BY StorageNextIInv
<1>3. StorageIInv => StorageInv
  BY StorageIInvSuffices
<1> QED  BY <1>1, <1>2, <1>3, PTL DEF StorageSpec

-----------------------------------------------------------------------------
(* The artifacts of a project: the current chunk. *)

StatusNames ==
  {"ABSENT", "DRAFTING", "COMPLETED", "ONGOING", "SOLVED", "NOTED", "DEFERRED", "DISCOVERING",
   "DOCUMENTED", "REFACTORING", "STABLE", "DEPRECATED"} \union ChunkStatuses
Docs == [status : StatusNames, after : SUBSET Artifacts]
DocSets == [Artifacts -> Docs]
IndexEntries == [present : BOOLEAN, dirs : SUBSET Artifacts, ordered : SUBSET Artifacts,
                 tips : SUBSET Artifacts]
Trees ==
  [pc : {"none", "created", "activated", "running", "completed"},
   target : ChunkNames \union {NoChunk}, base : DocSets, copy : DocSets,
   displaced : ChunkNames \union {NoChunk}, row : ChunkNames \union {NoChunk}, lost : BOOLEAN]

WorkspaceTypes ==
  /\ doc \in DocSets /\ index \in [Kinds -> IndexEntries]
  /\ creating \subseteq [name : Artifacts, status : StatusNames, after : SUBSET Artifacts]
  /\ tree \in Trees

\* The chunk that the merge will give back, if the row remembers it or still will.
Remembered == IF tree.displaced # NoChunk THEN tree.displaced ELSE tree.row
Demoted(a) ==
  tree.base[a].status = "IMPLEMENTING" /\ tree.copy[a] = [tree.base[a] EXCEPT !.status = "FUTURE"]

\* What a unit's branch changes besides its own chunk is the status of the displaced one.
TreeInv ==
  tree.pc # "none" =>
    /\ tree.target \in ChunkNames
    /\ \A a \in Artifacts : a # tree.target =>
         tree.copy[a] = tree.base[a] \/ (Demoted(a) /\ (tree.lost \/ a = Remembered))
    /\ \A c \in {tree.displaced, tree.row} \ {NoChunk} : tree.base[c].status = "IMPLEMENTING"
    /\ tree.pc = "created" => tree.displaced = NoChunk
    /\ tree.pc = "created" /\ tree.copy[tree.target].status = "FUTURE" =>
         \A a \in Artifacts : a # tree.target => tree.copy[a] = tree.base[a]
    /\ tree.pc \in {"activated", "running"} => tree.copy[tree.target].status = "IMPLEMENTING"
    /\ tree.pc \in {"running", "completed"} => tree.row = Remembered

WorkspaceIInv == WorkspaceTypes /\ TreeInv

\* Chunks are artifacts, and every type's names are.
LEMMA KindsOf ==
  /\ Of["chunk"] = ChunkNames /\ ChunkNames \subseteq Artifacts
  /\ \A k \in Kinds : Of[k] \subseteq Artifacts
  /\ NoChunk \notin Artifacts
<1>1. Of["chunk"] = ChunkNames /\ "chunk" \in DOMAIN Of
  BY DEF Of
<1>2. \A k \in Kinds : Of[k] \subseteq Artifacts
  BY DEF Artifacts
<1>3. ChunkNames # {} => "chunk" \in Kinds
  BY <1>1 DEF Kinds
<1> QED  BY <1>1, <1>2, <1>3, NamesApart

\* The moves of every type lead to a status, and only a chunk's to IMPLEMENTING.
LEMMA MovesLead ==
  ASSUME NEW k \in Kinds, NEW m \in Moves[k]
  PROVE  m[2] \in StatusNames /\ (k # "chunk" => m[2] # "IMPLEMENTING")
<1>1. k \in {"chunk", "narrative", "subsystem", "investigation"}
  BY DEF Kinds, Of
<1>2. CASE k = "chunk"
  <2>1. m \in ChunkMoves
    BY <1>2 DEF Moves
  <2> QED  BY <1>2, <2>1 DEF ChunkMoves, StatusNames, ChunkStatuses
<1>3. CASE k = "narrative"
  <2>1. m \in NarrativeMoves
    BY <1>3 DEF Moves
  <2> QED  BY <1>3, <2>1 DEF NarrativeMoves, StatusNames, ChunkStatuses
<1>4. CASE k = "subsystem"
  <2>1. m \in SubsystemMoves
    BY <1>4 DEF Moves
  <2> QED  BY <1>4, <2>1 DEF SubsystemMoves, StatusNames, ChunkStatuses
<1>5. CASE k = "investigation"
  <2>1. m \in InvestigationMoves
    BY <1>5 DEF Moves
  <2> QED  BY <1>5, <2>1 DEF InvestigationMoves, StatusNames, ChunkStatuses
<1> QED  BY <1>1, <1>2, <1>3, <1>4, <1>5

\* What a command is served has artifacts only.
LEMMA ServedType ==
  ASSUME WorkspaceTypes, NEW k \in Kinds
  PROVE  Served(k) \in IndexEntries
<1>1. Enumerate(k) \subseteq Artifacts
  BY KindsOf DEF Enumerate
<1>2. Ordered(k) \subseteq Enumerate(k)
  BY DEF Ordered
<1>3. Tips(k) \subseteq Ordered(k)
  BY DEF Tips
<1>4. BuildIndex(k) \in IndexEntries
  BY <1>1, <1>2, <1>3 DEF BuildIndex, IndexEntries
<1> QED  BY <1>4 DEF Served, WorkspaceTypes

\* The index that a command leaves has entries of the type.
LEMMA RefreshedType ==
  ASSUME WorkspaceTypes, NEW k \in Kinds, NEW wrote, RefreshedThenWrote(k, wrote)
  PROVE  index' \in [Kinds -> IndexEntries]
BY ServedType DEF RefreshedThenWrote, WorkspaceTypes

\* A command that leaves the unit's worktree alone.
LEMMA TreeStands ==
  ASSUME WorkspaceIInv, WorkspaceTypes', UNCHANGED tree
  PROVE  WorkspaceIInv'
BY DEF WorkspaceIInv, TreeInv, Demoted, Remembered

\* A `create' keeps the types, and does not touch the worktree.
LEMMA CreateStepIInv ==
  ASSUME WorkspaceIInv, CreateStep
  PROVE  WorkspaceIInv'
<1>t. WorkspaceTypes
  BY DEF WorkspaceIInv
<1>1. ASSUME NEW k \in Kinds, NEW a \in Of[k], NEW status \in StatusNames, StartCreate(k, a, status)
      PROVE  WorkspaceIInv'
  <2>1. Served(k).tips \subseteq Artifacts
    BY <1>t, ServedType DEF IndexEntries
  <2>2. [name |-> a, status |-> status, after |-> Served(k).tips]
          \in [name : Artifacts, status : StatusNames, after : SUBSET Artifacts]
    BY <2>1, KindsOf
  <2>3. creating' \subseteq [name : Artifacts, status : StatusNames, after : SUBSET Artifacts]
    BY <1>1, <1>t, <2>2 DEF StartCreate, WorkspaceTypes
  <2>4. index' \in [Kinds -> IndexEntries]
    BY <1>1, <1>t, RefreshedType DEF StartCreate
  <2>5. UNCHANGED <<doc, tree>>
    BY <1>1 DEF StartCreate
  <2>6. WorkspaceTypes'
    BY <1>t, <2>3, <2>4, <2>5 DEF WorkspaceTypes
  <2> QED  BY <2>5, <2>6, TreeStands
<1>2. ASSUME NEW c \in ChunkNames, NEW s \in {"FUTURE", "IMPLEMENTING"}, StartCreateChunk(c, s)
      PROVE  WorkspaceIInv'
  <2>1. "chunk" \in Kinds /\ c \in Of["chunk"] /\ s \in StatusNames
    BY KindsOf DEF Kinds, Of, StatusNames, ChunkStatuses
  <2> QED  BY <1>1, <1>2, <2>1 DEF StartCreateChunk
<1>3. ASSUME NEW k \in Kinds \ {"chunk"}, NEW a \in Of[k], StartCreateParent(k, a)
      PROVE  WorkspaceIInv'
  <2>1. k \in {"narrative", "subsystem", "investigation"}
    BY DEF Kinds, Of
  <2>2. FirstStatus[k] \in StatusNames
    BY <2>1 DEF FirstStatus, StatusNames
  <2> QED  BY <1>1, <1>3, <2>2 DEF StartCreateParent
<1>4. ASSUME NEW w \in creating, Render(w) PROVE WorkspaceIInv'
  <2>1. w \in [name : Artifacts, status : StatusNames, after : SUBSET Artifacts]
    BY <1>t DEF WorkspaceTypes
  <2>2. [status |-> w.status, after |-> w.after] \in Docs
    BY <2>1 DEF Docs
  <2>3. doc' \in DocSets
    BY <1>4, <1>t, <2>2 DEF Render, WorkspaceTypes, DocSets
  <2>4. WorkspaceTypes' /\ UNCHANGED tree
    BY <1>4, <1>t, <2>3 DEF Render, WorkspaceTypes
  <2> QED  BY <2>4, TreeStands
<1> QED  BY <1>2, <1>3, <1>4 DEF CreateStep

\* The status of an artifact is set.
LEMMA SetStatusType ==
  ASSUME WorkspaceTypes, NEW a \in Artifacts, NEW status \in StatusNames, SetStatus(a, status)
  PROVE  /\ doc' \in DocSets /\ doc'[a].status = status
         /\ \A b \in Artifacts : b # a => doc'[b] = doc[b]
<1>1. doc \in DocSets /\ doc[a] \in Docs
  BY DEF WorkspaceTypes, DocSets
<1>2. [doc[a] EXCEPT !.status = status] \in Docs /\ [doc[a] EXCEPT !.status = status].status = status
  BY <1>1 DEF Docs
<1>3. doc' = [doc EXCEPT ![a] = [doc[a] EXCEPT !.status = status]]
  BY <1>1 DEF SetStatus, DocSets
<1> QED  BY <1>1, <1>2, <1>3 DEF DocSets

\* A status command keeps the types, and does not touch the worktree.
LEMMA StatusStepIInv ==
  ASSUME WorkspaceIInv, StatusStep
  PROVE  WorkspaceIInv'
<1>t. WorkspaceTypes
  BY DEF WorkspaceIInv
<1>1. ASSUME NEW k \in Kinds, NEW a \in Of[k], NEW m \in Moves[k], UpdateStatus(k, a, m[2])
      PROVE  WorkspaceIInv'
  <2>1. doc' \in DocSets
    BY <1>1, <1>t, KindsOf, MovesLead, SetStatusType DEF UpdateStatus
  <2>2. WorkspaceTypes' /\ UNCHANGED tree
    BY <1>1, <1>t, <2>1 DEF UpdateStatus, WorkspaceTypes
  <2> QED  BY <2>2, TreeStands
<1>2. ASSUME NEW c \in ChunkNames, Activate(c) PROVE WorkspaceIInv'
  <2>1. doc' \in DocSets
    <3>1. "IMPLEMENTING" \in StatusNames
      BY DEF StatusNames, ChunkStatuses
    <3> QED  BY <1>2, <1>t, <3>1, KindsOf, SetStatusType DEF Activate
  <2>2. index' \in [Kinds -> IndexEntries]
    <3>1. "chunk" \in Kinds
      BY DEF Kinds, Of
    <3> QED  BY <1>2, <1>t, <3>1, RefreshedType DEF Activate
  <2>3. WorkspaceTypes' /\ UNCHANGED tree
    BY <1>2, <1>t, <2>1, <2>2 DEF Activate, WorkspaceTypes
  <2> QED  BY <2>3, TreeStands
<1>3. ASSUME NEW c \in ChunkNames, Complete(c) PROVE WorkspaceIInv'
  <2>1. doc' \in DocSets
    <3>1. "ACTIVE" \in StatusNames
      BY DEF StatusNames, ChunkStatuses
    <3> QED  BY <1>3, <1>t, <3>1, KindsOf, SetStatusType DEF Complete
  <2>2. WorkspaceTypes' /\ UNCHANGED tree
    BY <1>3, <1>t, <2>1 DEF Complete, WorkspaceTypes
  <2> QED  BY <2>2, TreeStands
<1> QED  BY <1>1, <1>2, <1>3 DEF StatusStep

\* A worktree that is not there.
LEMMA NoTreeIs ==
  NoTree \in Trees /\ NoDocs \in DocSets /\ Absent \in Docs /\ NoTree.pc = "none"
<1>1. Absent \in Docs
  BY DEF Absent, Docs, StatusNames
<1>2. NoDocs \in DocSets
  BY <1>1 DEF NoDocs, DocSets
<1> QED  BY <1>1, <1>2 DEF NoTree, Trees

\* The activation in the worktree displaces one chunk at most, which it will remember.
LEMMA ActivateInWorktreeIInv ==
  ASSUME WorkspaceIInv, NEW d \in ChunkNames \union {NoChunk}, ActivateInWorktree(d)
  PROVE  WorkspaceIInv'
<1>t. /\ WorkspaceTypes /\ TreeInv /\ tree \in Trees /\ tree.pc = "created"
      /\ UNCHANGED <<doc, index, creating>>
  BY DEF WorkspaceIInv, WorkspaceTypes, ActivateInWorktree
<1> DEFINE t == tree.target
<1>0. /\ t \in ChunkNames /\ t \in Artifacts /\ tree.displaced = NoChunk
      /\ tree.copy \in DocSets /\ tree.base \in DocSets
      /\ \A a \in Artifacts : tree.copy[a] \in Docs /\ tree.base[a] \in Docs
  BY <1>t, KindsOf DEF TreeInv, Trees, DocSets
<1>1. CASE tree' = NoTree
  BY <1>1, <1>t, NoTreeIs DEF WorkspaceIInv, WorkspaceTypes, TreeInv
<1>2. CASE /\ tree.copy[t].status = "IMPLEMENTING" /\ d = NoChunk
           /\ tree' = [tree EXCEPT !.pc = "activated"]
  <2>1. /\ tree' \in Trees /\ tree'.pc = "activated" /\ tree'.target = t /\ tree'.base = tree.base
        /\ tree'.copy = tree.copy /\ tree'.displaced = tree.displaced /\ tree'.row = tree.row
        /\ tree'.lost = tree.lost
    BY <1>2, <1>t DEF Trees
  <2> QED  BY <1>t, <1>2, <2>1 DEF WorkspaceIInv, WorkspaceTypes, TreeInv, Demoted, Remembered
<1>3. ASSUME tree.copy[t].status = "FUTURE",
             d \in StatusIn(tree.copy, "IMPLEMENTING") \/ d = NoChunk,
             tree' = [tree EXCEPT !.pc = "activated", !.displaced = d,
                       !.copy = [c \in Artifacts |->
                         IF c = t THEN [@[c] EXCEPT !.status = "IMPLEMENTING"]
                         ELSE IF c = d THEN [@[c] EXCEPT !.status = "FUTURE"] ELSE @[c]]]
      PROVE  WorkspaceIInv'
  <2> DEFINE new == [c \in Artifacts |->
                       IF c = t THEN [tree.copy[c] EXCEPT !.status = "IMPLEMENTING"]
                       ELSE IF c = d THEN [tree.copy[c] EXCEPT !.status = "FUTURE"]
                       ELSE tree.copy[c]]
  <2>1. \A a \in Artifacts : a # t => tree.copy[a] = tree.base[a]
    BY <1>3, <1>t DEF TreeInv
  <2>2. new \in DocSets
    <3>1. \A a \in Artifacts : /\ [tree.copy[a] EXCEPT !.status = "IMPLEMENTING"] \in Docs
                               /\ [tree.copy[a] EXCEPT !.status = "FUTURE"] \in Docs
      BY <1>0 DEF Docs, StatusNames, ChunkStatuses
    <3> QED  BY <1>0, <3>1 DEF DocSets
  <2>3. tree' = [tree EXCEPT !.pc = "activated", !.displaced = d, !.copy = new]
    BY <1>3
  <2>4. \A a \in Artifacts : a # t =>
          new[a] = IF a = d THEN [tree.base[a] EXCEPT !.status = "FUTURE"] ELSE tree.base[a]
    BY <2>1
  <2>s. new[t].status = "IMPLEMENTING"
    BY <1>0 DEF Docs
  <2> HIDE DEF new
  <2>5. /\ tree' \in Trees /\ tree'.pc = "activated" /\ tree'.target = t /\ tree'.base = tree.base
        /\ tree'.copy = new /\ tree'.displaced = d /\ tree'.row = tree.row /\ tree'.lost = tree.lost
    BY <1>t, <2>2, <2>3 DEF Trees
  <2>6. d # NoChunk => tree.base[d].status = "IMPLEMENTING"
    <3> SUFFICES ASSUME d # NoChunk PROVE tree.base[d].status = "IMPLEMENTING"
      OBVIOUS
    <3>1. d \in ChunkNames /\ tree.copy[d].status = "IMPLEMENTING"
      BY <1>3 DEF StatusIn
    <3>2. d \in Artifacts /\ d # t
      BY <1>3, <3>1, KindsOf
    <3> QED  BY <2>1, <3>1, <3>2
  <2>7. d # NoChunk => Remembered' = d
    BY <2>5 DEF Remembered
  <2>8. \A a \in Artifacts : a # t => new[a] = tree.base[a] \/ (Demoted(a)' /\ a = Remembered')
    <3> SUFFICES ASSUME NEW a \in Artifacts, a # t, a = d
                 PROVE  new[a] = tree.base[a] \/ (Demoted(a)' /\ a = Remembered')
      BY <2>4
    <3>1. d # NoChunk
      BY KindsOf
    <3> QED  BY <2>4, <2>5, <2>6, <2>7, <3>1 DEF Demoted
  <2>9. TreeInv'
    BY <1>0, <1>t, <2>5, <2>6, <2>8, <2>s DEF TreeInv
  <2> QED  BY <1>t, <2>5, <2>9 DEF WorkspaceIInv, WorkspaceTypes
<1> QED  BY <1>1, <1>2, <1>3 DEF ActivateInWorktree

\* The steps of the daemon on the worktree, before the agent completes its chunk.
LEMMA DaemonStepIInv ==
  ASSUME WorkspaceIInv, NEW c0,
         \/ c0 \in ChunkNames /\ MakeWorktree(c0)
         \/ RecordRunning \/ StaleRow \/ DaemonDies
         \/ c0 \in PostImplementing /\ AgentCompletes(c0)
  PROVE  WorkspaceIInv'
<1>t. /\ WorkspaceTypes /\ TreeInv /\ tree \in Trees /\ doc \in DocSets
      /\ UNCHANGED <<doc, index, creating>>
  BY DEF WorkspaceIInv, WorkspaceTypes, MakeWorktree, RecordRunning, StaleRow, DaemonDies,
         AgentCompletes
<1>s. tree' \in Trees /\ TreeInv' => WorkspaceIInv'
  BY <1>t DEF WorkspaceIInv, WorkspaceTypes
<1>1. CASE c0 \in ChunkNames /\ MakeWorktree(c0)
  <2>1. tree' = [NoTree EXCEPT !.pc = "created", !.target = c0, !.base = doc, !.copy = doc]
    BY <1>1 DEF MakeWorktree
  <2>2. /\ tree' \in Trees /\ tree'.pc = "created" /\ tree'.target = c0 /\ tree'.base = doc
        /\ tree'.copy = doc /\ tree'.displaced = NoChunk /\ tree'.row = NoChunk
    BY <1>1, <1>t, <2>1, NoTreeIs DEF Trees, NoTree
  <2>3. TreeInv'
    BY <1>1, <2>2 DEF TreeInv, Remembered
  <2> QED  BY <1>s, <2>2, <2>3
<1>2. CASE RecordRunning
  <2> DEFINE row == IF tree.displaced = NoChunk THEN tree.row ELSE tree.displaced
  <2>1. tree.pc = "activated" /\ tree' = [tree EXCEPT !.pc = "running", !.row = row]
    BY <1>2 DEF RecordRunning
  <2>2. /\ tree' \in Trees /\ tree'.pc = "running" /\ tree'.target = tree.target
        /\ tree'.base = tree.base /\ tree'.copy = tree.copy /\ tree'.displaced = tree.displaced
        /\ tree'.row = row /\ tree'.lost = tree.lost
    BY <1>t, <2>1 DEF Trees
  <2>3. Remembered' = Remembered /\ Remembered' = tree'.row
    BY <2>2 DEF Remembered
  <2>4. TreeInv'
    BY <1>t, <2>1, <2>2, <2>3 DEF TreeInv, Demoted
  <2> QED  BY <1>s, <2>2, <2>4
<1>3. CASE StaleRow
  <2>1. /\ tree.pc = "activated"
        /\ tree' = [tree EXCEPT !.pc = "created", !.copy = tree.base, !.displaced = NoChunk]
    BY <1>3 DEF StaleRow
  <2>2. /\ tree' \in Trees /\ tree'.pc = "created" /\ tree'.target = tree.target
        /\ tree'.base = tree.base /\ tree'.copy = tree.base /\ tree'.displaced = NoChunk
        /\ tree'.row = tree.row
    BY <1>t, <2>1 DEF Trees
  <2>3. TreeInv'
    BY <1>t, <2>1, <2>2 DEF TreeInv
  <2> QED  BY <1>s, <2>2, <2>3
<1>4. CASE DaemonDies
  <2> DEFINE lost == tree.lost \/ (tree.pc = "activated" /\ tree.displaced # NoChunk)
  <2>1. /\ tree.pc \in {"activated", "running"}
        /\ tree' = [tree EXCEPT !.pc = "created", !.displaced = NoChunk, !.lost = lost]
    BY <1>4 DEF DaemonDies
  <2>2. lost \in BOOLEAN
    BY <1>t DEF Trees
  <2> HIDE DEF lost
  <2>3. /\ tree' \in Trees /\ tree'.pc = "created" /\ tree'.target = tree.target
        /\ tree'.base = tree.base /\ tree'.copy = tree.copy /\ tree'.displaced = NoChunk
        /\ tree'.row = tree.row /\ tree'.lost = lost
    BY <1>t, <2>1, <2>2 DEF Trees
  <2>4. tree'.lost \/ Remembered' = Remembered
    <3>1. CASE tree.pc = "running"
      BY <1>t, <2>3, <3>1 DEF TreeInv, Remembered
    <3>2. CASE tree.pc = "activated"
      BY <2>3, <3>2 DEF Remembered, lost
    <3> QED  BY <2>1, <3>1, <3>2
  <2>5. tree.lost => tree'.lost
    BY <2>3 DEF lost
  <2>6. \A a \in Artifacts : a # tree.target =>
           tree'.copy[a] = tree'.base[a] \/ (Demoted(a)' /\ (tree'.lost \/ a = Remembered'))
    BY <1>t, <2>1, <2>3, <2>4, <2>5 DEF TreeInv, Demoted
  <2>7. TreeInv'
    BY <1>t, <2>1, <2>3, <2>6 DEF TreeInv
  <2> QED  BY <1>s, <2>3, <2>7
<1>5. CASE c0 \in PostImplementing /\ AgentCompletes(c0)
  <2>1. /\ tree.pc = "running" /\ c0 \in StatusNames
        /\ tree' = [tree EXCEPT !.pc = "completed", !.copy[tree.target].status = c0]
    BY <1>5 DEF AgentCompletes, PostImplementing, StatusNames, ChunkStatuses
  <2>2. tree.target \in Artifacts /\ tree.copy \in DocSets /\ tree.copy[tree.target] \in Docs
    BY <1>t, <2>1, KindsOf DEF TreeInv, Trees, DocSets
  <2> DEFINE new == [tree.copy EXCEPT ![tree.target] = [tree.copy[tree.target] EXCEPT !.status = c0]]
  <2>3. tree' = [tree EXCEPT !.pc = "completed", !.copy = new]
    BY <2>1
  <2>4. new \in DocSets /\ \A a \in Artifacts : a # tree.target => new[a] = tree.copy[a]
    BY <2>1, <2>2 DEF Docs, DocSets
  <2> HIDE DEF new
  <2>5. /\ tree' \in Trees /\ tree'.pc = "completed" /\ tree'.target = tree.target
        /\ tree'.base = tree.base /\ tree'.copy = new /\ tree'.displaced = tree.displaced
        /\ tree'.row = tree.row /\ tree'.lost = tree.lost
    BY <1>t, <2>3, <2>4 DEF Trees
  <2>6. Remembered' = Remembered
    BY <2>5 DEF Remembered
  <2>7. TreeInv'
    BY <1>t, <2>1, <2>4, <2>5, <2>6 DEF TreeInv, Demoted
  <2> QED  BY <1>s, <2>5, <2>7
<1> QED  BY <1>1, <1>2, <1>3, <1>4, <1>5

\* The merge writes no main file but that of the unit's own chunk, unless a crash came
\* between displacing a chunk and remembering it; and it makes no chunk the current one.
LEMMA FinishWrites ==
  ASSUME WorkspaceIInv, Finish
  PROVE  /\ doc' \in DocSets /\ tree' = NoTree
         /\ ~tree.lost => \A a \in Artifacts \ {tree.target} : doc'[a] = doc[a]
         /\ \A a \in Artifacts : doc'[a].status = "IMPLEMENTING" => doc'[a] = doc[a]
<1> DEFINE changed == {a \in Artifacts : Restored[a] # tree.base[a]}
           wrote == {a \in Artifacts : doc'[a] # doc[a]}
<1>t. /\ WorkspaceTypes /\ tree \in Trees /\ doc \in DocSets /\ tree.pc = "completed" /\ tree' = NoTree
      /\ tree.copy \in DocSets /\ tree.base \in DocSets
      /\ \A a \in Artifacts : tree.copy[a] \in Docs /\ tree.base[a] \in Docs
  BY DEF WorkspaceIInv, WorkspaceTypes, Finish, MergeBack, Trees, DocSets
<1>1. /\ tree.target \in Artifacts /\ tree.row = Remembered
      /\ tree.copy[tree.target].status \in PostImplementing
      /\ \A a \in Artifacts : a # tree.target =>
           tree.copy[a] = tree.base[a] \/ (Demoted(a) /\ (tree.lost \/ a = tree.row))
      /\ tree.row # NoChunk => tree.row \in Artifacts /\ tree.base[tree.row].status = "IMPLEMENTING"
  BY <1>t, KindsOf DEF WorkspaceIInv, TreeInv, Finish, MergeBack, Trees
<1>2. tree.copy[tree.target].status \notin {"FUTURE", "IMPLEMENTING"}
  BY <1>1 DEF PostImplementing
<1>3. /\ Restored \in DocSets
      /\ \A a \in Artifacts : Restored[a] = IF a = tree.row /\ tree.copy[a].status = "FUTURE"
                              THEN [tree.copy[a] EXCEPT !.status = "IMPLEMENTING"] ELSE tree.copy[a]
  <2>1. CASE tree.row # NoChunk /\ tree.copy[tree.row].status = "FUTURE"
    <3>1. [tree.copy[tree.row] EXCEPT !.status = "IMPLEMENTING"] \in Docs
      BY <1>1, <1>t, <2>1 DEF Docs, StatusNames, ChunkStatuses
    <3>2. Restored = [tree.copy EXCEPT ![tree.row] = [tree.copy[tree.row] EXCEPT !.status = "IMPLEMENTING"]]
      BY <2>1 DEF Restored
    <3> QED  BY <1>1, <1>t, <2>1, <3>1, <3>2 DEF DocSets
  <2>2. CASE ~(tree.row # NoChunk /\ tree.copy[tree.row].status = "FUTURE")
    <3>1. Restored = tree.copy
      BY <2>2 DEF Restored
    <3> QED  BY <1>t, <2>2, <3>1, KindsOf
  <2> QED  BY <2>1, <2>2
<1>4. /\ doc' \in [Artifacts -> Docs] /\ wrote \subseteq changed
      /\ \A a \in wrote : doc'[a] = Restored[a]
  BY <1>3, <1>t DEF Finish, MergeBack, DocSets
<1>5. \A a \in Artifacts : Restored[a].status = "IMPLEMENTING" => Restored[a] = tree.base[a]
  <2> SUFFICES ASSUME NEW a \in Artifacts, Restored[a].status = "IMPLEMENTING"
               PROVE  Restored[a] = tree.base[a]
    OBVIOUS
  <2>1. a # tree.target
    BY <1>1, <1>2, <1>3
  <2>2. CASE tree.copy[a] = tree.base[a]
    <3>1. tree.copy[a].status # "FUTURE" \/ a # tree.row
      BY <1>1, <2>2, KindsOf
    <3> QED  BY <1>3, <2>2, <3>1
  <2>3. CASE Demoted(a)
    <3>1. /\ tree.base[a].status = "IMPLEMENTING"
          /\ tree.copy[a] = [tree.base[a] EXCEPT !.status = "FUTURE"] /\ tree.copy[a].status = "FUTURE"
      BY <1>t, <2>3 DEF Demoted, Docs
    <3>2. Restored[a] = [tree.copy[a] EXCEPT !.status = "IMPLEMENTING"]
      BY <1>3, <3>1
    <3> QED  BY <1>t, <3>1, <3>2 DEF Docs
  <2> QED  BY <1>1, <2>1, <2>2, <2>3
<1>6. ~tree.lost => \A a \in Artifacts : a # tree.target => Restored[a] = tree.base[a]
  <2> SUFFICES ASSUME ~tree.lost, NEW a \in Artifacts, a # tree.target
               PROVE  Restored[a] = tree.base[a]
    OBVIOUS
  <2>1. CASE tree.copy[a] = tree.base[a]
    <3>1. tree.copy[a].status # "FUTURE" \/ a # tree.row
      BY <1>1, <2>1, KindsOf
    <3> QED  BY <1>3, <2>1, <3>1
  <2>2. CASE Demoted(a) /\ a = tree.row
    <3>1. Restored[a].status = "IMPLEMENTING"
      BY <1>3, <1>t, <2>2 DEF Demoted, Docs
    <3> QED  BY <1>5, <3>1
  <2> QED  BY <1>1, <2>1, <2>2
<1>7. ~tree.lost => \A a \in Artifacts \ {tree.target} : doc'[a] = doc[a]
  BY <1>4, <1>6
<1>8. \A a \in Artifacts : doc'[a].status = "IMPLEMENTING" => doc'[a] = doc[a]
  BY <1>4, <1>5
<1> QED  BY <1>4, <1>7, <1>8, <1>t DEF DocSets

\* Every step on the worktree, the merge included.
LEMMA UnitStepIInv ==
  ASSUME WorkspaceIInv, UnitStep
  PROVE  WorkspaceIInv'
<1>1. CASE Finish
  <2>1. doc' \in DocSets /\ tree' = NoTree /\ UNCHANGED <<index, creating>>
    BY <1>1, FinishWrites DEF Finish, MergeBack
  <2> QED  BY <2>1, NoTreeIs DEF WorkspaceIInv, WorkspaceTypes, TreeInv
<1> QED  BY <1>1, ActivateInWorktreeIInv, DaemonStepIInv DEF UnitStep

\* Every step of the model keeps the types and what a worktree may differ in.
LEMMA WorkspaceNextIInv ==
  ASSUME WorkspaceIInv, [WorkspaceNext]_workspaceVars
  PROVE  WorkspaceIInv'
<1>t. WorkspaceTypes
  BY DEF WorkspaceIInv
<1>1. ASSUME NEW k \in Kinds, List(k) PROVE WorkspaceIInv'
  <2>1. WorkspaceTypes' /\ UNCHANGED tree
    BY <1>1, <1>t, RefreshedType DEF List, WorkspaceTypes
  <2> QED  BY <2>1, TreeStands
<1>2. ASSUME NEW a \in Artifacts, Remove(a) PROVE WorkspaceIInv'
  <2>1. WorkspaceTypes' /\ UNCHANGED tree
    BY <1>2, <1>t, NoTreeIs DEF Remove, WorkspaceTypes, DocSets
  <2> QED  BY <2>1, TreeStands
<1>3. CASE UNCHANGED workspaceVars
  BY <1>3 DEF workspaceVars, WorkspaceIInv, WorkspaceTypes, TreeInv, Demoted, Remembered
<1> QED
  BY <1>1, <1>2, <1>3, CreateStepIInv, StatusStepIInv, UnitStepIInv DEF WorkspaceNext

\* There is no worktree at first.
LEMMA WorkspaceInitIInv ==
  ASSUME WorkspaceInit
  PROVE  WorkspaceIInv
<1>1. NoIndex \in IndexEntries
  BY DEF NoIndex, IndexEntries
<1> QED  BY <1>1, NoTreeIs DEF WorkspaceInit, WorkspaceIInv, WorkspaceTypes, TreeInv

\* A step that makes another chunk the current one beside one that is, and leaves the
\* excuses of SecondOnlyBy out.
LEMMA NoSecond ==
  ASSUME WorkspaceIInv, [WorkspaceNext]_workspaceVars, NEW c \in Implementing' \ Implementing
  PROVE  \/ \E b \in ChunkNames : UpdateStatus("chunk", b, "IMPLEMENTING")
         \/ \E w \in creating : Render(w)
         \/ Implementing \intersect Served("chunk").ordered = {}
<1>t. WorkspaceTypes /\ doc \in DocSets
  BY DEF WorkspaceIInv, WorkspaceTypes
<1>1. /\ c \in ChunkNames /\ c \in Artifacts /\ doc'[c].status = "IMPLEMENTING"
      /\ doc[c].status # "IMPLEMENTING"
  BY KindsOf DEF Implementing, Enumerate
<1>2. doc' # doc /\ ~(doc'[c] = doc[c])
  BY <1>1
<1>3. CASE CreateStep
  <2>1. UNCHANGED doc \/ \E w \in creating : Render(w)
    BY <1>3 DEF CreateStep, StartCreateChunk, StartCreateParent, StartCreate
  <2> QED  BY <1>2, <2>1
<1>4. CASE StatusStep
  <2>1. ASSUME NEW k \in Kinds, NEW a \in Of[k], NEW m \in Moves[k], UpdateStatus(k, a, m[2])
        PROVE  \E b \in ChunkNames : UpdateStatus("chunk", b, "IMPLEMENTING")
    <3>1. a \in Artifacts /\ m[2] \in StatusNames /\ SetStatus(a, m[2])
      BY <2>1, KindsOf, MovesLead DEF UpdateStatus
    <3>2. a = c /\ m[2] = "IMPLEMENTING"
      BY <1>1, <1>2, <1>t, <3>1, SetStatusType
    <3>3. k = "chunk"
      BY <3>2, MovesLead
    <3> QED  BY <1>1, <2>1, <3>2, <3>3
  <2>2. ASSUME NEW a \in ChunkNames, Activate(a)
        PROVE  Implementing \intersect Served("chunk").ordered = {}
    BY <2>2 DEF Activate, Current
  <2>3. ASSUME NEW a \in ChunkNames, Complete(a) PROVE FALSE
    <3>1. "ACTIVE" \in StatusNames /\ a \in Artifacts /\ SetStatus(a, "ACTIVE")
      BY <2>3, KindsOf DEF StatusNames, ChunkStatuses, Complete
    <3> QED  BY <1>1, <1>2, <1>t, <3>1, SetStatusType
  <2> QED  BY <1>4, <2>1, <2>2, <2>3 DEF StatusStep
<1>5. CASE UnitStep
  <2>1. UNCHANGED doc \/ Finish
    BY <1>5 DEF UnitStep, MakeWorktree, ActivateInWorktree, RecordRunning, StaleRow, DaemonDies,
                AgentCompletes
  <2> QED  BY <1>1, <1>2, <2>1, FinishWrites
<1>6. ASSUME NEW a \in Artifacts, Remove(a) PROVE FALSE
  <2>1. doc' = [doc EXCEPT ![a] = Absent]
    BY <1>6 DEF Remove
  <2>2. doc'[c] = Absent \/ doc'[c] = doc[c]
    BY <1>1, <1>t, <2>1 DEF DocSets
  <2> QED  BY <1>1, <1>2, <2>2 DEF Absent
<1>7. CASE (\E k \in Kinds : List(k)) \/ UNCHANGED workspaceVars
  BY <1>2, <1>7 DEF List, workspaceVars
<1> QED  BY <1>3, <1>4, <1>5, <1>6, <1>7 DEF WorkspaceNext

\* Only the merge takes a completed worktree away.
LEMMA OnlyFinishEnds ==
  ASSUME [WorkspaceNext]_workspaceVars, tree.pc = "completed", tree'.pc = "none"
  PROVE  Finish
<1>1. tree' # tree
  OBVIOUS
<1>2. ~CreateStep
  BY <1>1 DEF CreateStep, StartCreateChunk, StartCreateParent, StartCreate, Render
<1>3. ~StatusStep
  BY <1>1 DEF StatusStep, UpdateStatus, Activate, Complete
<1>4. ~(\E k \in Kinds : List(k)) /\ ~(\E a \in Artifacts : Remove(a)) /\ ~UNCHANGED workspaceVars
  BY <1>1 DEF List, Remove, workspaceVars
<1>5. UnitStep
  BY <1>2, <1>3, <1>4 DEF WorkspaceNext
<1> QED
  BY <1>5 DEF UnitStep, MakeWorktree, ActivateInWorktree, RecordRunning, StaleRow, DaemonDies,
              AgentCompletes

\* No command but those named makes a second chunk the current one, and the merge of a unit
\* gives the displaced one back.
THEOREM CurrentChunkAlwaysKept == WorkspaceSpec => CurrentChunkKept
<1>1. WorkspaceInit => WorkspaceIInv
  BY WorkspaceInitIInv
<1>2. WorkspaceIInv /\ [WorkspaceNext]_workspaceVars => WorkspaceIInv'
  BY WorkspaceNextIInv
<1>3. WorkspaceIInv /\ [WorkspaceNext]_workspaceVars =>
        [ (Implementing # {} /\ Implementing' \ Implementing # {})
          => \/ \E c \in ChunkNames : UpdateStatus("chunk", c, "IMPLEMENTING")
             \/ \E w \in creating : Render(w)
             \/ Implementing \intersect Served("chunk").ordered = {} ]_workspaceVars
  BY NoSecond
<1>4. WorkspaceIInv /\ [WorkspaceNext]_workspaceVars =>
        [ tree.pc = "completed" /\ tree'.pc = "none" /\ ~tree.lost
          => \A a \in Artifacts \ {tree.target} : doc'[a] = doc[a] ]_workspaceVars
  BY OnlyFinishEnds, FinishWrites
<1>5. WorkspaceSpec => SecondOnlyBy
  BY <1>1, <1>2, <1>3, PTL DEF WorkspaceSpec, SecondOnlyBy
<1>6. WorkspaceSpec => MergeGivesBack
  BY <1>1, <1>2, <1>4, PTL DEF WorkspaceSpec, MergeGivesBack
<1> QED  BY <1>5, <1>6 DEF CurrentChunkKept

-----------------------------------------------------------------------------
(* The order of the artifacts, and the cache of it. *)

\* Each artifact has a status of its type, and comes after artifacts of its type.
Fitting(d) ==
  \A k \in Kinds : \A a \in Of[k] :
    d[a] = Absent \/ (d[a].status \in Statuses[k] /\ d[a].after \subseteq Of[k])
IndexFits(k) ==
  /\ index[k].tips \subseteq index[k].ordered /\ index[k].ordered \subseteq index[k].dirs
  /\ index[k].dirs \subseteq Of[k]
FilesFit ==
  /\ Fitting(doc) /\ Fitting(tree.base) /\ Fitting(tree.copy)
  /\ \A k \in Kinds : IndexFits(k)
  /\ touched \subseteq {a \in Artifacts : doc[a].status # "ABSENT"}
  /\ \A w \in creating : \E k \in Kinds :
       w.name \in Of[k] /\ w.status \in Statuses[k] /\ w.after \subseteq Of[k]

\* The index that main files d give.
HereIn(k, d) == {a \in Of[k] : d[a].status # "ABSENT"}
AboveIn(k, d) == Reachable([a \in HereIn(k, d) |-> d[a].after \intersect HereIn(k, d)])
OrderedIn(k, d) ==
  {a \in HereIn(k, d) : \A b \in {a} \union AboveIn(k, d)[a] : b \notin AboveIn(k, d)[b]}
EligibleIn(k, d) ==
  CASE k = "chunk" -> {c \in HereIn(k, d) : d[c].status \in {"ACTIVE", "IMPLEMENTING"}}
    [] k = "narrative" -> {n \in HereIn(k, d) : d[n].status = "ACTIVE"}
    [] OTHER -> HereIn(k, d)
TipsIn(k, d) ==
  {a \in OrderedIn(k, d) \intersect EligibleIn(k, d) : \A b \in EligibleIn(k, d) : a \notin d[b].after}
IndexOf(k, d) ==
  [present |-> TRUE, dirs |-> HereIn(k, d), ordered |-> OrderedIn(k, d), tips |-> TipsIn(k, d)]

\* A present entry was built from main files that differ from those there are only where a
\* file was touched since, where a save of another type has hidden it, or where a directory
\* came or went.
Unseen(a, d) == a \in touched \union hidden \/ "ABSENT" \in {doc[a].status, d[a].status}
CacheIInv ==
  \A k \in Kinds : index[k].present =>
    \E d \in DocSets : /\ index[k] = IndexOf(k, d)
                       /\ \A a \in Of[k] : d[a] = doc[a] \/ Unseen(a, d)

\* The names of one type are of no other.
LEMMA KindOf ==
  ASSUME NEW k \in Kinds, NEW l \in Kinds, NEW a \in Of[k], a \in Of[l]
  PROVE  k = l
BY NamesApart DEF Kinds

\* No type has the status of what does not exist, and no move leads to it or from it.
LEMMA StatusesAre ==
  ASSUME NEW k \in Kinds
  PROVE  /\ "ABSENT" \notin Statuses[k]
         /\ \A m \in Moves[k] : m[1] \in Statuses[k] /\ m[2] \in Statuses[k]
         /\ k = "chunk" => Statuses[k] = ChunkStatuses
         /\ k # "chunk" => FirstStatus[k] \in Statuses[k]
<1>1. Statuses[k] = {m[1] : m \in Moves[k]} \union {m[2] : m \in Moves[k]}
  BY DEF Statuses
<1>2. k \in {"chunk", "narrative", "subsystem", "investigation"}
  BY DEF Kinds, Of
<1>3. CASE k = "chunk"
  <2>1. Moves[k] = ChunkMoves
    BY <1>3 DEF Moves
  <2>2. Statuses[k] = ChunkStatuses
    BY <1>1, <2>1 DEF ChunkMoves, ChunkStatuses
  <2> QED  BY <1>1, <1>3, <2>2 DEF ChunkStatuses
<1>4. CASE k = "narrative"
  <2>1. Moves[k] = NarrativeMoves
    BY <1>4 DEF Moves
  <2>2. Statuses[k] = {"DRAFTING", "ACTIVE", "COMPLETED"}
    BY <1>1, <2>1 DEF NarrativeMoves
  <2> QED  BY <1>1, <1>4, <2>2 DEF FirstStatus
<1>5. CASE k = "subsystem"
  <2>1. Moves[k] = SubsystemMoves
    BY <1>5 DEF Moves
  <2>2. <<"DISCOVERING", "DOCUMENTED">> \in Moves[k]
    BY <2>1 DEF SubsystemMoves
  <2>3. \A m \in Moves[k] : m[1] # "ABSENT" /\ m[2] # "ABSENT"
    BY <2>1 DEF SubsystemMoves
  <2>4. "DISCOVERING" \in Statuses[k] /\ "ABSENT" \notin Statuses[k]
    BY <1>1, <2>2, <2>3
  <2> QED  BY <1>1, <1>5, <2>4 DEF FirstStatus
<1>6. CASE k = "investigation"
  <2>1. Moves[k] = InvestigationMoves
    BY <1>6 DEF Moves
  <2>2. <<"DEFERRED", "ONGOING">> \in Moves[k]
    BY <2>1 DEF InvestigationMoves
  <2>3. \A m \in Moves[k] : m[1] # "ABSENT" /\ m[2] # "ABSENT"
    BY <2>1 DEF InvestigationMoves
  <2>4. "ONGOING" \in Statuses[k] /\ "ABSENT" \notin Statuses[k]
    BY <1>1, <2>2, <2>3
  <2> QED  BY <1>1, <1>6, <2>4 DEF FirstStatus
<1> QED  BY <1>2, <1>3, <1>4, <1>5, <1>6

\* What is rebuilt is what the main files give, and entries list what exists of their type.
LEMMA BuildIndexIs ==
  ASSUME NEW k \in Kinds
  PROVE  /\ BuildIndex(k) = IndexOf(k, doc) /\ BuildIndex(k)' = IndexOf(k, doc')
         /\ Enumerate(k) = HereIn(k, doc) /\ Ancestors(k) = AboveIn(k, doc)
         /\ Ordered(k) = OrderedIn(k, doc) /\ Eligible(k) = EligibleIn(k, doc)
         /\ Tips(k) = TipsIn(k, doc)
<1>1. Enumerate(k) = HereIn(k, doc) /\ Enumerate(k)' = HereIn(k, doc')
  BY DEF Enumerate, HereIn
<1>2. Ancestors(k) = AboveIn(k, doc) /\ Ancestors(k)' = AboveIn(k, doc')
  BY <1>1 DEF Ancestors, AboveIn
<1>3. Ordered(k) = OrderedIn(k, doc) /\ Ordered(k)' = OrderedIn(k, doc')
  BY <1>1, <1>2 DEF Ordered, OrderedIn
<1>4. Eligible(k) = EligibleIn(k, doc) /\ Eligible(k)' = EligibleIn(k, doc')
  BY <1>1 DEF Eligible, EligibleIn
<1>5. Tips(k) = TipsIn(k, doc) /\ Tips(k)' = TipsIn(k, doc')
  BY <1>3, <1>4 DEF Tips, TipsIn
<1> QED  BY <1>1, <1>2, <1>3, <1>4, <1>5 DEF BuildIndex, IndexOf

\* The index depends on the main files of its type only, and of those on what exists.
LEMMA IndexDepends ==
  ASSUME NEW k \in Kinds, NEW d, NEW e,
         \A a \in Of[k] : d[a] = e[a] \/ (d[a].status = "ABSENT" /\ e[a].status = "ABSENT")
  PROVE  IndexOf(k, d) = IndexOf(k, e)
<1>1. HereIn(k, d) = HereIn(k, e) /\ \A a \in HereIn(k, d) : d[a] = e[a]
  BY DEF HereIn
<1>2. [a \in HereIn(k, d) |-> d[a].after \intersect HereIn(k, d)]
       = [a \in HereIn(k, e) |-> e[a].after \intersect HereIn(k, e)]
  BY <1>1
<1>3. AboveIn(k, d) = AboveIn(k, e)
  BY <1>2 DEF AboveIn
<1>4. OrderedIn(k, d) = OrderedIn(k, e)
  BY <1>1, <1>3 DEF OrderedIn
<1>5. EligibleIn(k, d) = EligibleIn(k, e) /\ EligibleIn(k, d) \subseteq HereIn(k, d)
  BY <1>1 DEF EligibleIn
<1>6. TipsIn(k, d) = TipsIn(k, e)
  BY <1>1, <1>4, <1>5 DEF TipsIn
<1> QED  BY <1>1, <1>4, <1>6 DEF IndexOf

\* An entry that is not stale is what a rebuild would give, unless a change was hidden.
LEMMA CacheIInvSuffices ==
  ASSUME WorkspaceIInv, FilesFit, CacheIInv
  PROVE  CacheIsRight
<1> SUFFICES ASSUME NEW k \in Kinds, ~Stale(k), hidden \intersect Of[k] = {}
             PROVE  index[k] = BuildIndex(k)
  BY DEF CacheIsRight
<1>1. /\ index[k].present /\ index[k].dirs = HereIn(k, doc)
      /\ touched \intersect HereIn(k, doc) = {}
  BY BuildIndexIs DEF Stale
<1>2. PICK d \in DocSets : /\ index[k] = IndexOf(k, d)
                           /\ \A a \in Of[k] : d[a] = doc[a] \/ Unseen(a, d)
  BY <1>1 DEF CacheIInv
<1>3. HereIn(k, d) = HereIn(k, doc)
  BY <1>1, <1>2 DEF IndexOf
<1>4. \A a \in Of[k] : d[a] = doc[a] \/ (d[a].status = "ABSENT" /\ doc[a].status = "ABSENT")
  BY <1>1, <1>2, <1>3 DEF Unseen, HereIn
<1>5. IndexOf(k, d) = IndexOf(k, doc)
  BY <1>4, IndexDepends
<1> QED  BY <1>2, <1>5, BuildIndexIs

\* A strict order on a finite set has an element that nothing is above.
LEMMA Topmost ==
  ASSUME NEW D, IsFiniteSet(D), D # {}, NEW above,
         \A a \in D : a \notin above[a],
         \A a \in D : \A b \in D : \A c \in D : a \in above[b] /\ b \in above[c] => a \in above[c]
  PROVE  \E t \in D : \A b \in D : t \notin above[b]
<1> DEFINE Over(t) == {b \in D : t \in above[b]}
           T == {Over(t) : t \in D}
<1>1. T \subseteq FiniteSubsetsOf(D) /\ T # {}
  <2>1. \A t \in D : Over(t) \subseteq D /\ IsFiniteSet(Over(t))
    BY FS_Subset
  <2>2. \A t \in D : Over(t) \in FiniteSubsetsOf(D)
    BY <2>1 DEF FiniteSubsetsOf
  <2> HIDE DEF Over
  <2> QED  BY <2>2
<1>2. PICK x \in T : \A y \in T : ~ <<y, x>> \in StrictSubsetOrdering(D)
  <2>1. IsWellFoundedOn(StrictSubsetOrdering(D), FiniteSubsetsOf(D))
    BY FS_StrictSubsetOrderingWellFounded
  <2> HIDE DEF T
  <2> QED  BY <1>1, <2>1, WFMin
<1>3. PICK t \in D : x = Over(t)
  BY <1>2
<1>4. ASSUME NEW b \in D, t \in above[b] PROVE FALSE
  <2>1. Over(b) \subseteq Over(t)
    BY <1>4
  <2>2. b \in Over(t) /\ b \notin Over(b)
    BY <1>4
  <2>3. <<Over(b), Over(t)>> \in StrictSubsetOrdering(D)
    <3>1. Over(b) \in SUBSET D /\ Over(t) \in SUBSET D /\ Over(b) # Over(t)
      BY <2>2
    <3> HIDE DEF Over
    <3> QED  BY <2>1, <3>1 DEF StrictSubsetOrdering
  <2> QED  BY <1>2, <1>3, <2>3
<1> QED  BY <1>4

\* What is reached is what an edge leads to, and what is reached from there.
LEMMA ReachableIs ==
  ASSUME NEW S, NEW edges \in [S -> SUBSET S], NEW a \in S
  PROVE  /\ Reachable(edges)[a] \subseteq S /\ edges[a] \subseteq Reachable(edges)[a]
         /\ \A b \in Reachable(edges)[a] : Reachable(edges)[b] \subseteq Reachable(edges)[a]
<1> DEFINE R(x) == {b \in S : \A U \in SUBSET S :
                      edges[x] \subseteq U /\ (\A c \in U : edges[c] \subseteq U) => b \in U}
<1>1. \A x \in S : Reachable(edges)[x] = R(x)
  BY DEF Reachable
<1>2. edges[a] \subseteq R(a)
  OBVIOUS
<1>3. ASSUME NEW b \in R(a), NEW c \in R(b) PROVE c \in R(a)
  <2> SUFFICES ASSUME NEW U \in SUBSET S, edges[a] \subseteq U, \A e \in U : edges[e] \subseteq U
               PROVE  c \in U
    BY <1>3
  <2>1. b \in U
    BY <1>3
  <2>2. edges[b] \subseteq U
    BY <2>1
  <2> QED  BY <1>3, <2>2
<1> QED  BY <1>1, <1>2, <1>3

\* find_tips leaves no eligible artifact out.
LEMMA TipsAlwaysCover == TipsCover
<1> SUFFICES ASSUME NEW k \in Kinds, Ordered(k) = Enumerate(k), NEW a \in Eligible(k)
             PROVE  \E t \in Tips(k) : a = t \/ a \in Ancestors(k)[t]
  BY DEF TipsCover
<1> DEFINE here == Enumerate(k)
           edges == [b \in here |-> doc[b].after \intersect here]
           above == Ancestors(k)
           D == {b \in Eligible(k) : a = b \/ a \in above[b]}
<1>1. edges \in [here -> SUBSET here] /\ above = Reachable(edges) /\ Eligible(k) \subseteq here
  BY DEF Ancestors, Eligible
<1>2. \A b \in here : /\ above[b] \subseteq here /\ edges[b] \subseteq above[b]
                      /\ \A c \in above[b] : above[c] \subseteq above[b]
  <2> HIDE DEF edges, above
  <2> QED  BY <1>1, ReachableIs
<1>3. \A b \in here : b \notin above[b]
  BY DEF Ordered
<1>4. IsFiniteSet(D) /\ a \in D
  <2>1. here \subseteq Artifacts
    BY KindsOf DEF Enumerate
  <2>2. D \subseteq Artifacts
    BY <1>1, <2>1
  <2> QED  BY <2>2, NamesApart, FS_Subset
<1> HIDE DEF above, edges
<1>5. PICK t \in D : \A b \in D : t \notin above[b]
  <2>1. D \subseteq here
    BY <1>1
  <2>2. \A b \in D : b \notin above[b]
    BY <1>3, <2>1
  <2>3. \A b \in D : \A c \in D : \A e \in D : b \in above[c] /\ c \in above[e] => b \in above[e]
    BY <1>2, <2>1
  <2> HIDE DEF D
  <2> QED  BY <1>4, <2>2, <2>3, Topmost
<1>6. ASSUME NEW b \in Eligible(k), t \in doc[b].after PROVE FALSE
  <2>1. t \in edges[b]
    BY <1>1, <1>6 DEF edges
  <2>2. t \in above[b] /\ a \in above[b]
    BY <1>1, <1>2, <2>1
  <2> QED  BY <1>5, <2>2
<1>7. t \in Tips(k)
  BY <1>1, <1>6 DEF Tips
<1> QED  BY <1>7 DEF above

\* What a command is served has the artifacts of its type only.
LEMMA ServedFits ==
  ASSUME WorkspaceIInv, FilesFit, NEW k \in Kinds
  PROVE  /\ Served(k).tips \subseteq Served(k).ordered /\ Served(k).ordered \subseteq Served(k).dirs
         /\ Served(k).dirs \subseteq Of[k]
<1>1. Tips(k) \subseteq Ordered(k) /\ Ordered(k) \subseteq Enumerate(k) /\ Enumerate(k) \subseteq Of[k]
  BY DEF Tips, Ordered, Enumerate
<1> QED  BY <1>1 DEF Served, BuildIndex, FilesFit, IndexFits

\* A step that writes main files, or removes one, and leaves the index alone.
LEMMA CacheStands ==
  ASSUME WorkspaceIInv, CacheIInv, UNCHANGED <<index, hidden>>,
         \A a \in Artifacts : \/ doc'[a] = doc[a] /\ (a \in touched => a \in touched')
                              \/ a \in touched'
                              \/ doc'[a].status = "ABSENT"
  PROVE  CacheIInv'
<1> SUFFICES ASSUME NEW k \in Kinds, index[k].present
             PROVE  \E d \in DocSets : /\ index[k] = IndexOf(k, d)
                                       /\ \A a \in Of[k] : d[a] = doc'[a] \/ Unseen(a, d)'
  BY DEF CacheIInv
<1>1. PICK d \in DocSets : /\ index[k] = IndexOf(k, d)
                           /\ \A a \in Of[k] : d[a] = doc[a] \/ Unseen(a, d)
  BY DEF CacheIInv
<1>2. \A a \in Of[k] : d[a] = doc'[a] \/ Unseen(a, d)'
  BY <1>1, KindsOf DEF Unseen
<1> QED  BY <1>1, <1>2

\* A command that is served the index, which is saved when it was stale, and then writes
\* main files.
LEMMA CacheRefreshed ==
  ASSUME WorkspaceIInv, CacheIInv, FilesFit, NEW k \in Kinds, NEW wrote, RefreshedThenWrote(k, wrote),
         \A a \in Artifacts : doc'[a] = doc[a] \/ a \in wrote
  PROVE  CacheIInv' /\ \A l \in Kinds : IndexFits(l)'
<1>0. index \in [Kinds -> IndexEntries] /\ index' = [index EXCEPT ![k] = Served(k)] /\ doc \in DocSets
  BY DEF WorkspaceIInv, WorkspaceTypes, RefreshedThenWrote
<1>1. ASSUME NEW l \in Kinds PROVE IndexFits(l)'
  <2>1. CASE l = k
    BY <1>0, <2>1, ServedFits DEF IndexFits
  <2>2. CASE l # k
    <3>1. index'[l] = index[l]
      BY <1>0, <2>2
    <3> QED  BY <3>1 DEF FilesFit, IndexFits
  <2> QED  BY <2>1, <2>2
<1>2. ASSUME NEW l \in Kinds, index'[l].present
      PROVE  \E d \in DocSets : /\ index'[l] = IndexOf(l, d)
                                /\ \A a \in Of[l] : d[a] = doc'[a] \/ Unseen(a, d)'
  <2>1. CASE l = k /\ Stale(k)
    <3>1. PICK d \in DocSets : d = doc
      BY <1>0
    <3>2. index'[l] = IndexOf(l, d)
      BY <1>0, <2>1, <3>1, BuildIndexIs DEF Served
    <3>3. \A a \in Of[l] : d[a] = doc'[a] \/ Unseen(a, d)'
      BY <3>1, KindsOf DEF RefreshedThenWrote, Unseen
    <3> QED  BY <3>2, <3>3
  <2>2. CASE ~(l = k /\ Stale(k))
    <3>1. index'[l] = index[l]
      BY <1>0, <2>2 DEF Served
    <3>2. PICK d \in DocSets : /\ index[l] = IndexOf(l, d)
                               /\ \A a \in Of[l] : d[a] = doc[a] \/ Unseen(a, d)
      BY <1>2, <3>1 DEF CacheIInv
    <3>3. \A a \in Of[l] : a \in touched \union hidden => a \in touched' \union hidden'
      <4>1. CASE Stale(k)
        <5>1. l # k
          BY <2>2, <4>1
        <5>2. \A a \in Of[l] : a \notin Of[k]
          BY <5>1, KindOf
        <5> QED  BY <4>1, <5>2 DEF RefreshedThenWrote
      <4>2. CASE ~Stale(k)
        BY <4>2 DEF RefreshedThenWrote
      <4> QED  BY <4>1, <4>2
    <3>4. \A a \in Of[l] : doc'[a] = doc[a] \/ a \in touched'
      BY KindsOf DEF RefreshedThenWrote
    <3>5. \A a \in Of[l] : d[a] = doc'[a] \/ Unseen(a, d)'
      BY <3>2, <3>3, <3>4 DEF Unseen
    <3> QED  BY <3>1, <3>2, <3>5
  <2> QED  BY <2>1, <2>2
<1> QED  BY <1>1, <1>2 DEF CacheIInv

\* Main files that a command leaves alone, and one that it writes.
LEMMA FittingStands ==
  ASSUME NEW d, NEW e, Fitting(d),
         \A k \in Kinds : \A a \in Of[k] :
           e[a] = d[a] \/ e[a] = Absent \/ (e[a].status \in Statuses[k] /\ e[a].after \subseteq Of[k])
  PROVE  Fitting(e)
BY DEF Fitting

\* A status command: the new status is one of the type's.
LEMMA SetStatusFits ==
  ASSUME WorkspaceIInv, FilesFit, NEW k \in Kinds, NEW a \in Of[k], NEW status \in Statuses[k],
         SetStatus(a, status), touched' \subseteq touched \union {a}
  PROVE  /\ Fitting(doc') /\ \A b \in Artifacts : b # a => doc'[b] = doc[b]
         /\ touched' \subseteq {b \in Artifacts : doc'[b].status # "ABSENT"}
<1>1. doc \in DocSets /\ a \in Artifacts /\ doc[a] \in Docs
  BY KindsOf DEF WorkspaceIInv, WorkspaceTypes, DocSets
<1>2. doc' = [doc EXCEPT ![a] = [doc[a] EXCEPT !.status = status]]
  BY <1>1 DEF SetStatus, DocSets
<1>3. doc'[a].status = status /\ doc'[a].after = doc[a].after
  BY <1>1, <1>2 DEF DocSets, Docs
<1>4. \A b \in Artifacts : b # a => doc'[b] = doc[b]
  BY <1>1, <1>2 DEF DocSets
<1>5. doc[a].after \subseteq Of[k]
  BY DEF FilesFit, Fitting, Absent
<1>6. \A l \in Kinds : \A b \in Of[l] :
        doc'[b] = doc[b] \/ (doc'[b].status \in Statuses[l] /\ doc'[b].after \subseteq Of[l])
  BY <1>3, <1>4, <1>5, KindOf, KindsOf
<1>7. Fitting(doc')
  BY <1>6, FittingStands DEF FilesFit
<1>8. status # "ABSENT"
  BY StatusesAre
<1> QED  BY <1>1, <1>3, <1>4, <1>7, <1>8 DEF FilesFit

\* The files and the cache after a `create', checked or written.
LEMMA CreateStepFits ==
  ASSUME WorkspaceIInv, FilesFit, CacheIInv, CreateStep
  PROVE  FilesFit' /\ CacheIInv'
<1>1. ASSUME NEW k \in Kinds, NEW a \in Of[k], NEW status \in Statuses[k], StartCreate(k, a, status)
      PROVE  FilesFit' /\ CacheIInv'
  <2>1. /\ UNCHANGED <<doc, tree>> /\ RefreshedThenWrote(k, {})
        /\ creating' = creating \union {[name |-> a, status |-> status, after |-> Served(k).tips]}
    BY <1>1 DEF StartCreate
  <2>2. CacheIInv' /\ \A l \in Kinds : IndexFits(l)'
    BY <2>1, CacheRefreshed
  <2>3. Served(k).tips \subseteq Of[k]
    BY ServedFits
  <2>4. touched' \subseteq touched
    BY <2>1 DEF RefreshedThenWrote
  <2> QED  BY <2>1, <2>2, <2>3, <2>4 DEF FilesFit, Fitting
<1>2. ASSUME NEW c \in ChunkNames, NEW s \in {"FUTURE", "IMPLEMENTING"}, StartCreateChunk(c, s)
      PROVE  FilesFit' /\ CacheIInv'
  <2>1. "chunk" \in Kinds /\ c \in Of["chunk"]
    BY KindsOf DEF Kinds, Of
  <2>2. s \in Statuses["chunk"]
    BY <2>1, StatusesAre DEF ChunkStatuses
  <2> QED  BY <1>1, <1>2, <2>1, <2>2 DEF StartCreateChunk
<1>3. ASSUME NEW k \in Kinds \ {"chunk"}, NEW a \in Of[k], StartCreateParent(k, a)
      PROVE  FilesFit' /\ CacheIInv'
  <2>1. FirstStatus[k] \in Statuses[k]
    BY StatusesAre
  <2> QED  BY <1>1, <1>3, <2>1 DEF StartCreateParent
<1>4. ASSUME NEW w \in creating, Render(w) PROVE FilesFit' /\ CacheIInv'
  <2>1. PICK k \in Kinds : w.name \in Of[k] /\ w.status \in Statuses[k] /\ w.after \subseteq Of[k]
    BY DEF FilesFit
  <2>2. w.name \in Artifacts /\ doc \in DocSets
    BY <2>1, KindsOf DEF WorkspaceIInv, WorkspaceTypes
  <2>3. creating' \subseteq creating /\ UNCHANGED <<index, tree, hidden>>
    BY <1>4 DEF Render
  <2>4. CASE UNCHANGED <<doc, touched>>
    <3>1. FilesFit'
      BY <2>3, <2>4 DEF FilesFit, Fitting, IndexFits
    <3> QED  BY <2>3, <2>4, <3>1, CacheStands
  <2>5. CASE /\ doc' = [doc EXCEPT ![w.name] = [status |-> w.status, after |-> w.after]]
             /\ touched' = touched \union {w.name}
    <3>1. /\ doc'[w.name] = [status |-> w.status, after |-> w.after]
          /\ \A a \in Artifacts : a # w.name => doc'[a] = doc[a]
      BY <2>2, <2>5 DEF DocSets
    <3>2. \A l \in Kinds : \A b \in Of[l] :
            doc'[b] = doc[b] \/ (doc'[b].status \in Statuses[l] /\ doc'[b].after \subseteq Of[l])
      BY <2>1, <3>1, KindOf, KindsOf
    <3>3. Fitting(doc')
      BY <3>2, FittingStands DEF FilesFit
    <3>4. w.status # "ABSENT"
      BY <2>1, StatusesAre
    <3>5. touched' \subseteq {b \in Artifacts : doc'[b].status # "ABSENT"}
      BY <2>2, <2>5, <3>1, <3>4 DEF FilesFit
    <3>6. CacheIInv'
      BY <2>3, <2>5, <3>1, CacheStands
    <3>7. FilesFit'
      BY <2>3, <3>3, <3>5 DEF FilesFit, Fitting, IndexFits
    <3> QED  BY <3>6, <3>7
  <2> QED  BY <1>4, <2>4, <2>5 DEF Render
<1> QED  BY <1>2, <1>3, <1>4 DEF CreateStep

\* The files and the cache after a status command.
LEMMA StatusStepFits ==
  ASSUME WorkspaceIInv, FilesFit, CacheIInv, StatusStep
  PROVE  FilesFit' /\ CacheIInv'
<1>1. ASSUME NEW k \in Kinds, NEW a \in Of[k], NEW status \in Statuses[k], SetStatus(a, status),
             touched' = touched \union {a}, UNCHANGED <<index, creating, tree, hidden>>
      PROVE  FilesFit' /\ CacheIInv'
  <2>1. /\ Fitting(doc') /\ \A b \in Artifacts : b # a => doc'[b] = doc[b]
        /\ touched' \subseteq {b \in Artifacts : doc'[b].status # "ABSENT"}
    BY <1>1, SetStatusFits
  <2>2. CacheIInv'
    BY <1>1, <2>1, CacheStands
  <2>3. FilesFit'
    BY <1>1, <2>1 DEF FilesFit, Fitting, IndexFits
  <2> QED  BY <2>2, <2>3
<1>2. ASSUME NEW k \in Kinds, NEW a \in Of[k], NEW m \in Moves[k], UpdateStatus(k, a, m[2])
      PROVE  FilesFit' /\ CacheIInv'
  <2>1. m[2] \in Statuses[k]
    BY StatusesAre
  <2> QED  BY <1>1, <1>2, <2>1 DEF UpdateStatus
<1>3. ASSUME NEW c \in ChunkNames, Activate(c) PROVE FilesFit' /\ CacheIInv'
  <2>1. "chunk" \in Kinds /\ c \in Of["chunk"]
    BY KindsOf DEF Kinds, Of
  <2>2. "IMPLEMENTING" \in Statuses["chunk"]
    BY <2>1, StatusesAre DEF ChunkStatuses
  <2>3. SetStatus(c, "IMPLEMENTING") /\ RefreshedThenWrote("chunk", {c}) /\ UNCHANGED <<creating, tree>>
    BY <1>3 DEF Activate
  <2>4. touched' \subseteq touched \union {c}
    BY <2>3 DEF RefreshedThenWrote
  <2>5. /\ Fitting(doc') /\ \A b \in Artifacts : b # c => doc'[b] = doc[b]
        /\ touched' \subseteq {b \in Artifacts : doc'[b].status # "ABSENT"}
    BY <2>1, <2>2, <2>3, <2>4, SetStatusFits
  <2>6. CacheIInv' /\ \A l \in Kinds : IndexFits(l)'
    BY <2>1, <2>3, <2>5, CacheRefreshed
  <2>7. FilesFit'
    BY <2>3, <2>5, <2>6 DEF FilesFit, Fitting
  <2> QED  BY <2>6, <2>7
<1>4. ASSUME NEW c \in ChunkNames, Complete(c) PROVE FilesFit' /\ CacheIInv'
  <2>1. "chunk" \in Kinds /\ c \in Of["chunk"]
    BY KindsOf DEF Kinds, Of
  <2>2. "ACTIVE" \in Statuses["chunk"]
    BY <2>1, StatusesAre DEF ChunkStatuses
  <2> QED  BY <1>1, <1>4, <2>1, <2>2 DEF Complete
<1> QED  BY <1>2, <1>3, <1>4 DEF StatusStep

\* The steps on the worktree before the merge leave the project's files and index alone.
LEMMA DaemonStepFits ==
  ASSUME WorkspaceIInv, FilesFit, CacheIInv, UnitStep, ~Finish
  PROVE  FilesFit' /\ CacheIInv'
<1>1. UNCHANGED <<doc, index, touched, creating, hidden>>
  BY DEF UnitStep, MakeWorktree, ActivateInWorktree, RecordRunning, StaleRow, DaemonDies, AgentCompletes
<1>2. CacheIInv'
  BY <1>1, CacheStands
<1>t. /\ tree \in Trees /\ TreeInv /\ tree.copy \in DocSets /\ tree.base \in DocSets
      /\ \A a \in Artifacts : tree.copy[a] \in Docs
      /\ Fitting(doc) /\ Fitting(tree.base) /\ Fitting(tree.copy) /\ Fitting(NoDocs)
  BY KindsOf DEF WorkspaceIInv, WorkspaceTypes, Trees, DocSets, FilesFit, Fitting, NoDocs
<1>n. NoTree.base = NoDocs /\ NoTree.copy = NoDocs
  BY DEF NoTree
<1>m. \A a \in ChunkNames : \A s \in ChunkStatuses :
        /\ [tree.copy[a] EXCEPT !.status = s].status \in Statuses["chunk"]
        /\ [tree.copy[a] EXCEPT !.status = s].after \subseteq Of["chunk"]
  <2> SUFFICES ASSUME NEW a \in ChunkNames, NEW s \in ChunkStatuses
               PROVE  /\ [tree.copy[a] EXCEPT !.status = s].status \in Statuses["chunk"]
                      /\ [tree.copy[a] EXCEPT !.status = s].after \subseteq Of["chunk"]
    OBVIOUS
  <2>1. "chunk" \in Kinds /\ a \in Of["chunk"] /\ a \in Artifacts
    BY KindsOf DEF Kinds, Of
  <2>2. tree.copy[a].after \subseteq Of["chunk"] /\ s \in Statuses["chunk"]
    BY <1>t, <2>1, StatusesAre DEF Fitting, Absent
  <2>3. /\ [tree.copy[a] EXCEPT !.status = s].status = s
        /\ [tree.copy[a] EXCEPT !.status = s].after = tree.copy[a].after
    BY <1>t, <2>1 DEF Docs
  <2> QED  BY <2>2, <2>3
\* A chunk of the copy whose status is set.
<1> DEFINE Moved(a, b) == \E s \in ChunkStatuses : b = [tree.copy[a] EXCEPT !.status = s]
           Similar(new) == \A a \in Artifacts : new[a] = tree.copy[a] \/ (a \in ChunkNames /\ Moved(a, new[a]))
<1>c. ASSUME NEW new, Similar(new)
      PROVE  Fitting(new)
  <2>1. \A k \in Kinds : \A a \in Of[k] :
          new[a] = tree.copy[a] \/ (new[a].status \in Statuses[k] /\ new[a].after \subseteq Of[k])
    <3> SUFFICES ASSUME NEW k \in Kinds, NEW a \in Of[k], new[a] # tree.copy[a]
                 PROVE  new[a].status \in Statuses[k] /\ new[a].after \subseteq Of[k]
      OBVIOUS
    <3>1. a \in ChunkNames /\ Moved(a, new[a])
      BY <1>c, KindsOf
    <3>2. k = "chunk"
      <4>1. "chunk" \in Kinds /\ a \in Of["chunk"]
        BY <3>1, KindsOf DEF Kinds, Of
      <4> QED  BY <4>1, KindOf
    <3> QED  BY <1>m, <3>1, <3>2
  <2> QED  BY <1>t, <2>1, FittingStands
<1>s. Fitting(tree'.base) /\ Fitting(tree'.copy) => FilesFit'
  BY <1>1 DEF FilesFit, Fitting, IndexFits
<1>3. ASSUME NEW c \in ChunkNames, MakeWorktree(c) PROVE FilesFit'
  <2>1. tree'.base = doc /\ tree'.copy = doc
    BY <1>3 DEF MakeWorktree, NoTree
  <2> QED  BY <1>s, <1>t, <2>1
<1>4. ASSUME NEW d \in ChunkNames \union {NoChunk}, ActivateInWorktree(d) PROVE FilesFit'
  <2>1. CASE tree' = NoTree
    BY <1>s, <1>t, <1>n, <2>1
  <2>2. CASE tree' = [tree EXCEPT !.pc = "activated"]
    <3>1. tree'.base = tree.base /\ tree'.copy = tree.copy
      BY <1>t, <2>2 DEF Trees
    <3> QED  BY <1>s, <1>t, <3>1
  <2>3. CASE tree' = [tree EXCEPT !.pc = "activated", !.displaced = d,
                 !.copy = [c \in Artifacts |->
                   IF c = tree.target THEN [@[c] EXCEPT !.status = "IMPLEMENTING"]
                   ELSE IF c = d THEN [@[c] EXCEPT !.status = "FUTURE"] ELSE @[c]]]
    <3> DEFINE new == [c \in Artifacts |->
                         IF c = tree.target THEN [tree.copy[c] EXCEPT !.status = "IMPLEMENTING"]
                         ELSE IF c = d THEN [tree.copy[c] EXCEPT !.status = "FUTURE"] ELSE tree.copy[c]]
    <3>1. tree'.base = tree.base /\ tree'.copy = new
      BY <1>t, <2>3 DEF Trees
    <3>2. tree.target \in ChunkNames
      BY <1>4, <1>t DEF TreeInv, ActivateInWorktree
    <3>3. Similar(new)
      <4>1. {"IMPLEMENTING", "FUTURE"} \subseteq ChunkStatuses
        BY DEF ChunkStatuses
      <4>2. d \in Artifacts => d \in ChunkNames
        BY KindsOf
      <4>3. SUFFICES ASSUME NEW a \in Artifacts, a = tree.target \/ a = d PROVE Moved(a, new[a])
        BY <3>2, <4>2
      <4> QED  BY <4>1, <4>3
    <3> HIDE DEF new
    <3>4. Fitting(new)
      BY <1>c, <3>3
    <3> QED  BY <1>s, <1>t, <3>1, <3>4
  <2> QED  BY <1>4, <2>1, <2>2, <2>3 DEF ActivateInWorktree
<1>5. CASE RecordRunning \/ DaemonDies
  <2>1. tree'.base = tree.base /\ tree'.copy = tree.copy
    BY <1>5, <1>t DEF RecordRunning, DaemonDies, Trees
  <2> QED  BY <1>2, <1>s, <1>t, <2>1
<1>6. CASE StaleRow
  <2>1. tree'.base = tree.base /\ tree'.copy = tree.base
    BY <1>6, <1>t DEF StaleRow, Trees
  <2> QED  BY <1>2, <1>s, <1>t, <2>1
<1>7. ASSUME NEW s \in PostImplementing, AgentCompletes(s) PROVE FilesFit'
  <2> DEFINE new == [tree.copy EXCEPT ![tree.target] = [tree.copy[tree.target] EXCEPT !.status = s]]
  <2>1. tree.target \in ChunkNames /\ s \in ChunkStatuses
    BY <1>7, <1>t DEF TreeInv, AgentCompletes, PostImplementing
  <2>2. tree' = [tree EXCEPT !.pc = "completed", !.copy = new]
    BY <1>7 DEF AgentCompletes
  <2>3. Similar(new)
    BY <1>t, <2>1 DEF DocSets
  <2> HIDE DEF new
  <2>4. tree'.base = tree.base /\ tree'.copy = new
    BY <1>t, <2>2 DEF Trees
  <2>5. Fitting(new)
    BY <1>c, <2>3
  <2> QED  BY <1>s, <1>t, <2>4, <2>5
<1> QED  BY <1>2, <1>3, <1>4, <1>5, <1>6, <1>7 DEF UnitStep

\* The files and the cache after the merge of a unit.
LEMMA FinishFits ==
  ASSUME WorkspaceIInv, FilesFit, CacheIInv, Finish
  PROVE  FilesFit' /\ CacheIInv'
<1> DEFINE wrote == {a \in Artifacts : doc'[a] # doc[a]}
<1>t. /\ tree \in Trees /\ tree.pc = "completed" /\ tree' = NoTree /\ tree.row \in ChunkNames \union {NoChunk}
      /\ tree.copy \in DocSets /\ \A a \in Artifacts : tree.copy[a] \in Docs
      /\ doc \in DocSets /\ UNCHANGED <<index, creating, hidden>>
      /\ tree.copy[tree.target].status \in PostImplementing
      /\ \A a \in Artifacts : a # tree.target => tree.copy[a] = tree.base[a] \/ Demoted(a)
  BY DEF WorkspaceIInv, WorkspaceTypes, Finish, MergeBack, Trees, DocSets, TreeInv
<1>0. NoTree.base = NoDocs /\ NoTree.copy = NoDocs /\ Fitting(NoDocs)
  BY KindsOf DEF NoTree, Fitting, NoDocs
<1>1. \A a \in Artifacts : Restored[a] = IF a = tree.row /\ tree.copy[a].status = "FUTURE"
                              THEN [tree.copy[a] EXCEPT !.status = "IMPLEMENTING"] ELSE tree.copy[a]
  <2>1. CASE tree.row # NoChunk /\ tree.copy[tree.row].status = "FUTURE"
    <3>1. Restored = [tree.copy EXCEPT ![tree.row] = [tree.copy[tree.row] EXCEPT !.status = "IMPLEMENTING"]]
      BY <2>1 DEF Restored
    <3> QED  BY <1>t, <2>1, <3>1, KindsOf DEF DocSets
  <2>2. CASE ~(tree.row # NoChunk /\ tree.copy[tree.row].status = "FUTURE")
    <3>1. Restored = tree.copy
      BY <2>2 DEF Restored
    <3> QED  BY <1>t, <2>2, <3>1, KindsOf
  <2> QED  BY <2>1, <2>2
<1>2. Fitting(Restored)
  <2> SUFFICES ASSUME NEW k \in Kinds, NEW a \in Of[k], Restored[a] # tree.copy[a]
               PROVE  Restored[a].status \in Statuses[k] /\ Restored[a].after \subseteq Of[k]
    BY FittingStands DEF FilesFit
  <2>1. /\ a \in Artifacts /\ a \in ChunkNames /\ tree.copy[a].status = "FUTURE"
        /\ Restored[a] = [tree.copy[a] EXCEPT !.status = "IMPLEMENTING"]
    BY <1>1, <1>t, KindsOf
  <2>2. k = "chunk"
    <3>1. "chunk" \in Kinds /\ a \in Of["chunk"]
      BY <2>1, KindsOf DEF Kinds, Of
    <3> QED  BY <3>1, KindOf
  <2>3. Restored[a].status = "IMPLEMENTING" /\ Restored[a].after = tree.copy[a].after
    BY <1>t, <2>1 DEF Docs
  <2>4. tree.copy[a].after \subseteq Of[k]
    BY DEF FilesFit, Fitting, Absent
  <2>5. "IMPLEMENTING" \in Statuses[k]
    BY <2>2, StatusesAre DEF ChunkStatuses
  <2> QED  BY <2>3, <2>4, <2>5
<1>3. /\ \A a \in Artifacts : doc'[a] = doc[a] \/ (doc'[a] = Restored[a] /\ Restored[a] # tree.base[a])
      /\ touched' = touched \union wrote
  BY DEF Finish, MergeBack
<1>4. \A a \in wrote : doc'[a].status # "ABSENT"
  <2> SUFFICES ASSUME NEW a \in Artifacts, doc'[a] = Restored[a], Restored[a] # tree.base[a]
               PROVE  Restored[a].status # "ABSENT"
    BY <1>3
  <2>1. CASE Restored[a] = tree.copy[a]
    <3>1. CASE a = tree.target
      BY <1>t, <2>1, <3>1 DEF PostImplementing, ChunkStatuses
    <3>2. CASE a # tree.target
      <4>1. Demoted(a)
        BY <1>t, <2>1, <3>2
      <4>2. tree.base[a] \in Docs
        BY <1>t DEF Trees, DocSets
      <4> QED  BY <2>1, <4>1, <4>2 DEF Demoted, Docs
    <3> QED  BY <3>1, <3>2
  <2>2. CASE Restored[a] # tree.copy[a]
    BY <1>1, <1>t, <2>2 DEF Docs
  <2> QED  BY <2>1, <2>2
<1>5. Fitting(doc')
  <2>1. \A k \in Kinds : \A a \in Of[k] :
          \/ doc'[a] = doc[a] \/ doc'[a] = Absent
          \/ doc'[a].status \in Statuses[k] /\ doc'[a].after \subseteq Of[k]
    BY <1>2, <1>3, KindsOf DEF Fitting
  <2> QED  BY <2>1, FittingStands DEF FilesFit
<1>6. touched' \subseteq {b \in Artifacts : doc'[b].status # "ABSENT"}
  BY <1>3, <1>4 DEF FilesFit
<1>7. FilesFit'
  BY <1>0, <1>t, <1>5, <1>6 DEF FilesFit, Fitting, IndexFits
<1>8. CacheIInv'
  BY <1>3, <1>t, CacheStands
<1> QED  BY <1>7, <1>8

\* Every step of the model keeps the files' types and what the cache was built from.
LEMMA WorkspaceNextFits ==
  ASSUME WorkspaceIInv, FilesFit, CacheIInv, [WorkspaceNext]_workspaceVars
  PROVE  FilesFit' /\ CacheIInv'
<1>1. ASSUME NEW k \in Kinds, List(k) PROVE FilesFit' /\ CacheIInv'
  <2>1. RefreshedThenWrote(k, {}) /\ UNCHANGED <<doc, creating, tree>>
    BY <1>1 DEF List
  <2>2. CacheIInv' /\ \A l \in Kinds : IndexFits(l)'
    BY <2>1, CacheRefreshed
  <2>3. touched' \subseteq touched
    BY <2>1 DEF RefreshedThenWrote
  <2> QED  BY <2>1, <2>2, <2>3 DEF FilesFit, Fitting
<1>2. ASSUME NEW a \in Artifacts, Remove(a) PROVE FilesFit' /\ CacheIInv'
  <2>1. /\ doc' = [doc EXCEPT ![a] = Absent] /\ touched' = touched \ {a}
        /\ UNCHANGED <<index, creating, tree, hidden>> /\ doc \in DocSets
    BY <1>2 DEF Remove, WorkspaceIInv, WorkspaceTypes
  <2>2. doc'[a] = Absent /\ \A b \in Artifacts : b # a => doc'[b] = doc[b]
    BY <2>1 DEF DocSets
  <2>3. Fitting(doc')
    <3>1. \A k \in Kinds : \A b \in Of[k] : doc'[b] = doc[b] \/ doc'[b] = Absent
      BY <2>2, KindsOf
    <3> QED  BY <3>1, FittingStands DEF FilesFit
  <2>4. FilesFit'
    BY <2>1, <2>2, <2>3 DEF FilesFit, Fitting, IndexFits
  <2>5. CacheIInv'
    <3>1. doc'[a].status = "ABSENT"
      BY <2>2 DEF Absent
    <3> QED  BY <2>1, <2>2, <3>1, CacheStands
  <2> QED  BY <2>4, <2>5
<1>3. CASE UNCHANGED workspaceVars
  <2>1. UNCHANGED <<doc, index, touched, creating, tree, hidden>>
    BY <1>3 DEF workspaceVars
  <2>2. FilesFit'
    BY <2>1 DEF FilesFit, Fitting, IndexFits
  <2> QED  BY <2>1, <2>2, CacheStands
<1> QED
  BY <1>1, <1>2, <1>3, CreateStepFits, StatusStepFits, DaemonStepFits, FinishFits DEF WorkspaceNext

\* There are no files and no index at first.
LEMMA WorkspaceInitFits ==
  ASSUME WorkspaceInit
  PROVE  FilesFit /\ CacheIInv
<1>1. tree.base = NoDocs /\ tree.copy = NoDocs /\ doc = NoDocs /\ Fitting(NoDocs)
  BY KindsOf DEF WorkspaceInit, NoTree, Fitting, NoDocs
<1>2. \A k \in Kinds : index[k] = NoIndex
  BY DEF WorkspaceInit
<1>3. FilesFit
  BY <1>1, <1>2 DEF FilesFit, IndexFits, NoIndex, WorkspaceInit
<1>4. CacheIInv
  BY <1>2 DEF CacheIInv, NoIndex
<1> QED  BY <1>3, <1>4

\* The three invariants together give that of the module.
LEMMA WorkspaceIInvSuffices ==
  ASSUME WorkspaceIInv, FilesFit, CacheIInv
  PROVE  WorkspaceInv
<1>1. WorkspaceTypeOK
  BY DEF WorkspaceTypeOK, WorkspaceIInv, WorkspaceTypes, FilesFit, Fitting, IndexFits, Trees, TreeInv
<1> QED  BY <1>1, TipsAlwaysCover, CacheIInvSuffices DEF WorkspaceInv

\* What new artifacts are put after is all there is to come after, and the index that
\* commands are served is right but where one of another type has hidden a change.
THEOREM WorkspaceCorrect == WorkspaceSpec => []WorkspaceInv
<1>1. WorkspaceInit => WorkspaceIInv /\ FilesFit /\ CacheIInv
  BY WorkspaceInitIInv, WorkspaceInitFits
<1>2. WorkspaceIInv /\ FilesFit /\ CacheIInv /\ [WorkspaceNext]_workspaceVars =>
        WorkspaceIInv' /\ FilesFit' /\ CacheIInv'
  BY WorkspaceNextIInv, WorkspaceNextFits
<1>3. WorkspaceIInv /\ FilesFit /\ CacheIInv => WorkspaceInv
  BY WorkspaceIInvSuffices
<1> QED  BY <1>1, <1>2, <1>3, PTL DEF WorkspaceSpec

-----------------------------------------------------------------------------
(* The parts of the run. *)

\* A behaviour of the run is one of each of its parts.
LEMMA PartsAreSpecs ==
  RepositorySpec => GitSpec /\ WorkspaceSpec /\ StoreSpec /\ FrictionSpec /\ StorageSpec
<1>1. RepositoryInit => GitInit /\ WorkspaceInit /\ StoreInit /\ FrictionInit /\ StorageInit
  BY DEF RepositoryInit
<1>2. [GitStep \/ ArtifactStep \/ StoreStep \/ FrictionStep \/ ChannelStep]_repositoryVars =>
        /\ [GitNext]_gitVars /\ [WorkspaceNext]_workspaceVars /\ [StoreNext]_storeVars
        /\ [FrictionNext]_frictionVars /\ [StorageNext]_storageVars
  BY DEF GitStep, ArtifactStep, StoreStep, FrictionStep, ChannelStep, repositoryVars
<1> QED  BY <1>1, <1>2, PTL DEF RepositorySpec, GitSpec, WorkspaceSpec, StoreSpec, FrictionSpec, StorageSpec

\* No file of the database, of the friction logs or of a channel is left half written, or
\* written over, but in the ways that the three invariants name.
THEOREM FilesCorrect == RepositorySpec => []FilesInv
<1>1. StoreInv /\ FrictionInv /\ StorageInv => FilesInv
  BY DEF FilesInv
<1> QED  BY <1>1, PartsAreSpecs, StoreCorrect, FrictionCorrect, StorageCorrect, PTL
=============================================================================
