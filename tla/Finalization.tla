----------------------------- MODULE Finalization -----------------------------
(***************************************************************************)
(* The git side of the orchestrator: the branch and the worktree of every  *)
(* chunk, from their creation to the merge into a base branch, next to an  *)
(* operator who works in the same repository.                              *)
(*                                                                         *)
(* The daemon runs one finalization at a time, but every git command of it *)
(* is a process of its own: the operator may switch branches, commit and   *)
(* merge between two of them, and the daemon may die between any two. A    *)
(* branch is the set of its commits.                                       *)
(***************************************************************************)
EXTENDS FiniteSets, Naturals

CONSTANTS
  Chunks,
  Bases,        \* branches of the operator; each may be checked out in the repository
  Work,         \* commits of agents
  OpCommits,    \* commits of the operator
  MaxCrashes, MaxSwitches   \* bounds

\* A branch of a chunk is orch/<chunk>, and no base is.
ASSUME GitBounds ==
  /\ MaxCrashes \in Nat /\ MaxSwitches \in Nat
  /\ Work \intersect OpCommits = {} /\ "absent" \notin Work \union OpCommits
  /\ Bases \intersect Chunks = {}

VARIABLES
  refs,      \* branch -> its commits, or NoBranch: the bases and orch/<chunk>
  head,      \* the branch checked out in the repository
  manager,   \* base_branch of the scheduler's WorktreeManager: the branch at its start
  dir,       \* chunk -> .ve/chunks/<chunk>: worktree, what is not committed, base_branch,
             \* and the branch that was checked out at its creation (history)
  unit,      \* chunk -> the row, as far as git is concerned
  job,       \* the finalization, prune or recovery in progress
  recover,   \* chunks _find_incomplete_finalizations has still to look at
  deleting,  \* DELETE requests whose row is gone: [chunk, force]
  work,      \* chunk -> the commits its agents made (history)
  used       \* [crashes, switches]
gitVars == <<refs, head, manager, dir, unit, job, recover, deleting, work, used>>

NoBranch == {"absent"}
NoBase == "none"
NoDir == [on |-> FALSE, dirty |-> {}, saved |-> NoBase, at |-> NoBase]
NoUnit == [status |-> "none", complete |-> FALSE, retain |-> FALSE]
NoJob == [pc |-> "idle", by |-> "nobody", read |-> {}]
Commits(b) == IF refs[b] = NoBranch THEN {} ELSE refs[b]
Exists(c) == refs[c] # NoBranch
Fresh(ids) == ids \ ((UNION {Commits(b) : b \in Bases \union Chunks})
                     \union (UNION {dir[c].dirty \union work[c] : c \in Chunks}))
Idle == job = NoJob
Up == Idle /\ recover = {}

-----------------------------------------------------------------------------
(* Worktrees. *)

\* A unit is injected; a branch that an earlier unit left is its branch.
Inject(c, retain) ==
  /\ Up /\ unit[c].status = "none"
  /\ unit' = [unit EXCEPT ![c] = [NoUnit EXCEPT !.status = "READY", !.retain = retain]]
  /\ work' = [work EXCEPT ![c] = Commits(c) \intersect Work]
  /\ UNCHANGED <<refs, head, manager, dir, job, recover, deleting, used>>

\* The base branch is saved once, when the worktree is created: the branch the manager
\* found at its start. The chunk's branch is made from the branch checked out now.
SaveBaseBranch(c) == manager

\* create_worktree, unless the worktree is there.
CreateWorktree(c) ==
  /\ Up /\ unit[c].status = "READY"
  /\ unit' = [unit EXCEPT ![c].status = "RUNNING"]
  /\ IF dir[c].on THEN UNCHANGED <<refs, dir>>
     ELSE /\ refs' = [refs EXCEPT ![c] = IF Exists(c) THEN @ ELSE refs[head]]
          /\ dir' = [dir EXCEPT ![c] = [on |-> TRUE, dirty |-> {}, saved |-> SaveBaseBranch(c), at |-> head]]
  /\ UNCHANGED <<head, manager, job, recover, deleting, work, used>>

AgentWorks(c) ==
  /\ unit[c].status = "RUNNING" /\ dir[c].on /\ Idle
  /\ \E w \in Fresh(Work) : /\ dir' = [dir EXCEPT ![c].dirty = @ \union {w}]
                            /\ work' = [work EXCEPT ![c] = @ \union {w}]
  /\ UNCHANGED <<refs, head, manager, unit, job, recover, deleting, used>>

\* The unit is in its phase COMPLETE.
ReachesComplete(c) ==
  /\ unit[c].status = "RUNNING" /\ ~unit[c].complete /\ Idle
  /\ unit' = [unit EXCEPT ![c].complete = TRUE]
  /\ UNCHANGED <<refs, head, manager, dir, job, recover, deleting, work, used>>

CommitAll(c) ==
  /\ refs' = [refs EXCEPT ![c] = Commits(c) \union dir[c].dirty]
  /\ dir' = [dir EXCEPT ![c].dirty = {}]

\* commit_changes, also by the agent itself.
CommitChanges(c) ==
  /\ unit[c].status = "RUNNING" /\ dir[c].on /\ dir[c].dirty # {} /\ Idle
  /\ CommitAll(c)
  /\ UNCHANGED <<head, manager, unit, job, recover, deleting, work, used>>

\* _finalize_completed_work_unit of a unit that keeps its worktree.
FinishRetained(c) ==
  /\ Up /\ unit[c].status = "RUNNING" /\ unit[c].complete /\ unit[c].retain /\ dir[c].on
  /\ CommitAll(c)
  /\ unit' = [unit EXCEPT ![c].status = "DONE"]
  /\ UNCHANGED <<head, manager, job, recover, deleting, work, used>>

-----------------------------------------------------------------------------
(* finalize_work_unit, step by step: for the scheduler, for `orch prune' (whose manager *)
(* is new: its base is the branch checked out), and from has_changes on for the         *)
(* recovery.                                                                            *)

StartJob(c, by, pc, base) ==
  job' = [pc |-> pc, chunk |-> c, by |-> by, base |-> base, read |-> {}]

StartFinalize(c) ==
  /\ Up /\ unit[c].status = "RUNNING" /\ unit[c].complete /\ ~unit[c].retain
  /\ StartJob(c, "scheduler", "commit", manager)
  /\ UNCHANGED <<refs, head, manager, dir, unit, recover, deleting, work, used>>

StartPrune(c) ==
  /\ Up /\ unit[c].status = "DONE" /\ unit[c].retain
  /\ StartJob(c, "prune", "commit", head)
  /\ UNCHANGED <<refs, head, manager, dir, unit, recover, deleting, work, used>>

At(pc) == ~Idle /\ job.pc = pc
Then(pc) == job' = [job EXCEPT !.pc = pc]

\* Mutant: only a retained worktree is committed first.
CommitIfRetained ==
  /\ At("commit")
  /\ Then("remove")
  /\ IF dir[job.chunk].on /\ unit[job.chunk].retain THEN CommitAll(job.chunk) ELSE UNCHANGED <<refs, dir>>
  /\ UNCHANGED <<head, manager, unit, recover, deleting, work, used>>

FinCommit ==
  /\ At("commit")
  /\ Then("remove")
  /\ IF dir[job.chunk].on THEN CommitAll(job.chunk) ELSE UNCHANGED <<refs, dir>>
  /\ UNCHANGED <<head, manager, unit, recover, deleting, work, used>>

\* _remove_worktree_from_repo: unlock, remove --force.
Removed(c) == dir' = [dir EXCEPT ![c].on = FALSE, ![c].dirty = {}]
FinRemove ==
  /\ At("remove")
  /\ Removed(job.chunk) /\ Then("decide")
  /\ UNCHANGED <<refs, head, manager, unit, recover, deleting, work, used>>

\* Mutant: only what is not committed counts as a change.
HasUncommitted(c, base) == Exists(c) /\ dir[c].dirty # {}

\* has_changes: compared with the manager's base, not with the one that was saved.
HasChanges(c, base) == Exists(c) /\ ~(Commits(c) \subseteq Commits(base))
FinDecide ==
  /\ At("decide")
  /\ Then(IF HasChanges(job.chunk, job.base) THEN "merge" ELSE "delete")
  /\ UNCHANGED <<refs, head, manager, dir, unit, recover, deleting, work, used>>

\* merge_to_base goes to the saved base. With that branch checked out git merges in place,
Target == IF dir[job.chunk].saved = NoBase THEN job.base ELSE dir[job.chunk].saved
FindCheckedOut ==
  /\ At("merge") /\ head = Target
  /\ Then("native")
  /\ UNCHANGED <<refs, head, manager, dir, unit, recover, deleting, work, used>>

\* that is, into whatever branch is checked out by then.
MergeNative ==
  /\ At("native")
  /\ refs' = [refs EXCEPT ![head] = @ \union Commits(job.chunk)]
  /\ Then("delete")
  /\ UNCHANGED <<head, manager, dir, unit, recover, deleting, work, used>>

\* merge_without_checkout: the target is read, the merge computed, and the ref written.
ReadTarget ==
  /\ At("merge") /\ head # Target
  /\ job' = [job EXCEPT !.pc = "write", !.read = Commits(Target)]
  /\ UNCHANGED <<refs, head, manager, dir, unit, recover, deleting, work, used>>

UpdateRef ==
  /\ At("write")
  /\ refs' = [refs EXCEPT ![Target] = job.read \union Commits(job.chunk)]
  /\ Then("delete")
  /\ UNCHANGED <<head, manager, dir, unit, recover, deleting, work, used>>

\* git branch -D, also the mutant of -d.
ForceDeleted(c) == [refs EXCEPT ![c] = NoBranch]

\* git branch -d: refused while the branch is checked out, or not merged into HEAD.
SafelyDeleted(c) ==
  IF Commits(c) \subseteq Commits(head) /\ ~dir[c].on THEN [refs EXCEPT ![c] = NoBranch] ELSE refs

FinDelete ==
  /\ At("delete")
  /\ refs' = SafelyDeleted(job.chunk)
  /\ Then("row")
  /\ UNCHANGED <<head, manager, dir, unit, recover, deleting, work, used>>

\* The row is written. A recovery that found nothing to merge leaves it.
FinRow ==
  /\ At("row")
  /\ job' = NoJob
  /\ unit' = [unit EXCEPT ![job.chunk] = IF job.by = "prune" THEN [@ EXCEPT !.retain = FALSE]
                                         ELSE IF @.complete THEN [@ EXCEPT !.status = "DONE"] ELSE @]
  /\ UNCHANGED <<refs, head, manager, dir, recover, deleting, work, used>>

\* A conflict, before anything was written: the scheduler recreates the worktree for a
\* REBASE.
MergeConflicts ==
  /\ At("merge") \/ At("native")
  /\ job.by = "scheduler"
  /\ LET into == Commits(IF At("native") THEN head ELSE Target)
     IN  ~(Commits(job.chunk) \subseteq into) /\ ~(into \subseteq Commits(job.chunk))
  /\ job' = NoJob
  /\ unit' = [unit EXCEPT ![job.chunk].status = "READY", ![job.chunk].complete = FALSE]
  /\ dir' = [dir EXCEPT ![job.chunk].on = TRUE]
  /\ UNCHANGED <<refs, head, manager, recover, deleting, work, used>>

\* Any other failure, or one conflict too many: the unit waits for the operator, prune
\* reports the error.
FinalizeFails ==
  /\ At("commit") \/ At("merge") \/ At("native")
  /\ job' = NoJob
  /\ unit' = [unit EXCEPT ![job.chunk].status = IF job.by = "prune" THEN @ ELSE "NEEDS_ATTENTION"]
  /\ UNCHANGED <<refs, head, manager, dir, recover, deleting, work, used>>

Retry(c) ==
  /\ Up /\ unit[c].status = "NEEDS_ATTENTION"
  /\ unit' = [unit EXCEPT ![c].status = "READY"]
  /\ UNCHANGED <<refs, head, manager, dir, job, recover, deleting, work, used>>

-----------------------------------------------------------------------------
(* Death and restart of the daemon. *)

Incomplete(c) == (unit[c].complete \/ unit[c].status = "DONE") /\ unit[c].status # "none"

DaemonCrash ==
  /\ used.crashes < MaxCrashes
  /\ used' = [used EXCEPT !.crashes = @ + 1]
  /\ job' = NoJob /\ deleting' = {}
  /\ manager' = head
  /\ unit' = [c \in Chunks |-> IF unit[c].status = "RUNNING" THEN [unit[c] EXCEPT !.status = "READY"]
                               ELSE unit[c]]
  /\ recover' = {c \in Chunks : Incomplete(c)}
  /\ UNCHANGED <<refs, head, dir, work>>

\* _recover_incomplete_finalization, for a branch with changes and no worktree.
Recover(c) ==
  /\ Idle /\ c \in recover
  /\ recover' = recover \ {c}
  /\ LET candidate == Exists(c) /\ ~dir[c].on
         changes == HasChanges(c, manager)
     IN  /\ IF candidate /\ changes THEN StartJob(c, "recovery", "merge", manager) ELSE UNCHANGED job
         /\ refs' = IF candidate /\ ~changes THEN SafelyDeleted(c) ELSE refs
  /\ UNCHANGED <<head, manager, dir, unit, deleting, work, used>>

-----------------------------------------------------------------------------
(* Requests. *)

\* delete_work_unit: refused with unmerged commits unless forced. The row goes first.
HasUnmerged(c) ==
  LET base == IF dir[c].saved = NoBase THEN head ELSE dir[c].saved
  IN  Exists(c) /\ ~(Commits(c) \subseteq Commits(base))
DeleteRow(c, force) ==
  /\ Up /\ unit[c].status # "none"
  /\ force \/ ~HasUnmerged(c)
  /\ unit' = [unit EXCEPT ![c] = NoUnit]
  /\ deleting' = deleting \union {[chunk |-> c, force |-> force]}
  /\ UNCHANGED <<refs, head, manager, dir, job, recover, work, used>>

\* After a broadcast, the worktree and the branch.
DeleteWorktree(d) ==
  /\ Up /\ d \in deleting
  /\ deleting' = deleting \ {d}
  /\ Removed(d.chunk)
  /\ refs' = IF d.force THEN ForceDeleted(d.chunk)
             ELSE IF Commits(d.chunk) \subseteq Commits(head)
                  THEN [refs EXCEPT ![d.chunk] = NoBranch] ELSE refs
  /\ UNCHANGED <<head, manager, unit, job, recover, work, used>>

\* remove_worktree_endpoint, for a unit in any state.
RemoveWorktreeEndpoint(c, branch) ==
  /\ Up /\ dir[c].on
  /\ Removed(c)
  /\ refs' = IF branch /\ Commits(c) \subseteq Commits(head) THEN [refs EXCEPT ![c] = NoBranch] ELSE refs
  /\ UNCHANGED <<head, manager, unit, job, recover, deleting, work, used>>

-----------------------------------------------------------------------------
(* The operator, in the main repository, at any moment. *)

OperatorSwitches(b) ==
  /\ b # head /\ used.switches < MaxSwitches
  /\ head' = b /\ used' = [used EXCEPT !.switches = @ + 1]
  /\ UNCHANGED <<refs, manager, dir, unit, job, recover, deleting, work>>
OperatorCommits ==
  /\ \E o \in Fresh(OpCommits) : refs' = [refs EXCEPT ![head] = @ \union {o}]
  /\ UNCHANGED <<head, manager, dir, unit, job, recover, deleting, work, used>>
OperatorMerges(c) ==
  /\ Exists(c) /\ ~(Commits(c) \subseteq Commits(head))
  /\ refs' = [refs EXCEPT ![head] = @ \union Commits(c)]
  /\ UNCHANGED <<head, manager, dir, unit, job, recover, deleting, work, used>>

-----------------------------------------------------------------------------
GitInit ==
  /\ refs = [b \in Bases \union Chunks |-> IF b \in Bases THEN {} ELSE NoBranch]
  /\ head \in Bases /\ manager = head
  /\ dir = [c \in Chunks |-> NoDir] /\ unit = [c \in Chunks |-> NoUnit]
  /\ job = NoJob /\ recover = {} /\ deleting = {}
  /\ work = [c \in Chunks |-> {}]
  /\ used = [crashes |-> 0, switches |-> 0]

ChunkStep(c) ==
  \/ \E retain \in BOOLEAN : Inject(c, retain)
  \/ CreateWorktree(c) \/ AgentWorks(c) \/ ReachesComplete(c) \/ CommitChanges(c) \/ FinishRetained(c)
  \/ StartFinalize(c) \/ StartPrune(c) \/ Recover(c) \/ Retry(c)
  \/ \E force \in BOOLEAN : DeleteRow(c, force)
  \/ \E branch \in BOOLEAN : RemoveWorktreeEndpoint(c, branch)
JobStep == FinCommit \/ FinRemove \/ FinDecide \/ FindCheckedOut \/ MergeNative \/ ReadTarget \/ UpdateRef
           \/ FinDelete \/ FinRow \/ MergeConflicts \/ FinalizeFails
OperatorStep == \/ OperatorCommits
                \/ \E b \in Bases : OperatorSwitches(b)
                \/ \E c \in Chunks : OperatorMerges(c)
GitNext == \/ \E c \in Chunks : ChunkStep(c)
           \/ JobStep \/ OperatorStep \/ DaemonCrash
           \/ \E d \in deleting : DeleteWorktree(d)
GitSpec == GitInit /\ [][GitNext]_gitVars

-----------------------------------------------------------------------------
(* Properties. *)

GitTypeOK ==
  /\ \A b \in Bases : refs[b] \subseteq Work \union OpCommits
  /\ \A c \in Chunks : /\ refs[c] = NoBranch \/ refs[c] \subseteq Work \union OpCommits
                       /\ dir[c].on => Exists(c) /\ dir[c].saved \in Bases
                       /\ dir[c].dirty # {} => dir[c].on
  /\ head \in Bases /\ manager \in Bases
  /\ ~Idle => unit[job.chunk].status # "none"

Committed(w) == \E b \in Bases \union Chunks : w \in Commits(b)
InABase(w) == \E b \in Bases : w \in Commits(b)

\* What an agent did stays on some branch, or in its worktree, through every finalization,
\* prune, recovery and crash, whatever the operator does to the repository meanwhile. Only
\* a request to remove the worktree gives up what is not committed, and only a DELETE with
\* force what is (finalize_work_unit, _remove_single_repo_worktree, merge_to_base).
WorkSurvives ==
  [][\A w \in Work :
       LET kept == Committed(w) \/ \E c \in Chunks : w \in dir[c].dirty
       IN  kept => \/ kept'
                   \/ Idle /\ ~Committed(w)
                   \/ \E d \in deleting : d.force /\ d \notin deleting' /\ w \in Commits(d.chunk)]_gitVars

\* When a unit is DONE and its worktree was not retained, all of its work that is left
\* is in one of the operator's branches, even after crashes between any two steps and
\* with the base branch changed in between (finalize_work_unit, recovery).
DoneIsInABase ==
  \A c \in Chunks : unit[c].status = "DONE" /\ ~unit[c].retain =>
    \A w \in work[c] : Committed(w) => InABase(w)

\* The invariant of the module: its types, and DONE work is merged whatever crashed.
GitInv == GitTypeOK /\ DoneIsInABase
=============================================================================
