------------------------------ MODULE Scheduler ------------------------------
(***************************************************************************)
(* The orchestrator daemon: the dispatch loop, the coroutine that runs one *)
(* work unit, the API handlers that write the same rows, a crash of the    *)
(* daemon and its recovery (src/src/orchestrator: scheduler.py,            *)
(* review_routing.py, api/*.py).                                           *)
(*                                                                         *)
(* The daemon is one asyncio loop.  A coroutine keeps the loop until it    *)
(* awaits something that suspends, so a step of the model is one stretch   *)
(* between two suspending awaits: run_phase and resume_for_active_status   *)
(* (an agent is at work), the websocket broadcasts after a row was         *)
(* written, and the scheduler's lock.  A dispatch tick that is not         *)
(* suspended (tick.at = "unit") holds the loop against every other step.   *)
(***************************************************************************)
EXTENDS WorkUnits, Sequences

CONSTANTS
    MaxAgents,         \* OrchestratorConfig.max_agents
    Deps,              \* Deps[c]: depends_on in the GOAL.md of chunk c
    ExplicitChunks,    \* chunks injected with explicit_deps
    RetainedChunks,    \* chunks injected with retain_worktree
    StartPhases,       \* phases a chunk may be injected at
    Verdicts,          \* what the oracle may answer beside INDEPENDENT
    OperatorRequests,  \* the API requests operators send in this instance
    PatchStatuses,     \* statuses they PATCH a row to
    MaxRequests, MaxCrashes, MaxSessionLimits   \* bounds on the environment

ASSUME SchedulerAssumption ==
    /\ IsFiniteSet(Chunks)
    /\ MaxAgents \in Nat
    /\ Deps \in [Chunks -> SUBSET Chunks]
    /\ ExplicitChunks \subseteq Chunks
    /\ RetainedChunks \subseteq Chunks
    /\ StartPhases \subseteq Phases
    /\ Verdicts \subseteq {"SERIALIZE", "ASK_OPERATOR"}
    /\ OperatorRequests \subseteq {"answer", "retry", "resolve", "patch", "delete"}
    /\ PatchStatuses \subseteq Statuses \ {"ABSENT"}
    /\ MaxRequests \in Nat
    /\ MaxCrashes \in Nat
    /\ MaxSessionLimits \in Nat

VARIABLES
    db,        \* the work_units table: [Chunks -> Row]
    task,      \* the coroutine _run_work_unit of each chunk
    running,   \* the keys of Scheduler._running_agents
    tick,      \* where _dispatch_tick stands
    daemon,    \* mode of the daemon, and what its recovery still has to do
    git,       \* where the chunk's work is: worktree, branch or base
    feedback,  \* whether REVIEW_FEEDBACK.md exists
    patched,   \* chunks PATCHed to DONE whose handler has not yet unblocked
    used       \* what the environment has used of its bounds

vars == <<db, task, running, tick, daemon, git, feedback, patched, used>>

-----------------------------------------------------------------------------
TaskStates == {"none", "spawned", "starting", "agent", "resume", "announce", "exit"}

\* phase is the local variable of _run_work_unit, taken from the tick's
\* snapshot; row is its in-memory work_unit.
Task   == [at: TaskStates, phase: Phases, row: Row]
NoTask == [at |-> "none", phase |-> "GOAL", row |-> NoRow]
Leaving(state) == [NoTask EXCEPT !.at = state]

\* queue is what is left of get_ready_queue's result, snap the rows it read,
\* blockers what _check_conflicts had found when it suspended.
Tick == [at: {"idle", "unit", "asking"}, queue: Seq(Chunks),
         snap: [Chunks -> Row], blockers: SUBSET Chunks]
IdleTick == [at |-> "idle", queue |-> <<>>,
             snap |-> [c \in Chunks |-> NoRow], blockers |-> {}]

\* "mergedBranch": merged into base, the branch not deleted yet.
Places == {"none", "worktree", "branch", "mergedBranch", "merged"}

Daemon == [mode: {"up", "down", "recovering"}, incomplete: SUBSET Chunks]

TypeOK ==
    /\ db \in [Chunks -> Row]
    /\ task \in [Chunks -> Task]
    /\ running \subseteq Chunks
    /\ tick \in Tick
    /\ daemon \in Daemon
    /\ git \in [Chunks -> Places]
    /\ feedback \in [Chunks -> BOOLEAN]
    /\ patched \subseteq Chunks
    /\ used \in [requests: Nat, crashes: Nat, limits: Nat]

Live(c)     == task[c].at # "none"
Agents      == {c \in Chunks : task[c].at \in {"starting", "agent", "resume"}}
WithStatus(s) == {c \in Chunks : db[c].status = s}

Up   == daemon.mode = "up"
\* No coroutine holds the event loop.
Free == Up /\ tick.at # "unit"

\* Mutant: a write of a deleted row inserts it again.
Upserted(c, row) == [db EXCEPT ![c] = row]

\* update_work_unit without expected_updated_at; on a deleted row it raises
\* ValueError and changes nothing.
Written(c, row) == [db EXCEPT ![c] = IF Exists(@) THEN row ELSE @]

Init ==
    /\ db = [c \in Chunks |-> NoRow]
    /\ task = [c \in Chunks |-> NoTask]
    /\ running = {}
    /\ tick = IdleTick
    /\ daemon = [mode |-> "up", incomplete |-> {}]
    /\ git = [c \in Chunks |-> "none"]
    /\ feedback = [c \in Chunks |-> FALSE]
    /\ patched = {}
    /\ used = [requests |-> 0, crashes |-> 0, limits |-> 0]

-----------------------------------------------------------------------------
(* The API.  A handler reads a row, awaits the body of the request and      *)
(* writes with expected_updated_at: when it succeeds it is one step.        *)

\* Mutant: blockers that are DONE already are kept.
AllBlockers(c) == Deps[c]

\* Mutant: blockers that were not injected yet are dropped.
KnownBlockers(c) == {d \in Deps[c] : db[d].status \notin {"ABSENT", "DONE"}}

\* Blockers already DONE are dropped, unknown ones are kept.
ActiveBlockers(c) == {d \in Deps[c] : db[d].status # "DONE"}

Inject(c) ==
    /\ Free
    /\ ~Exists(db[c])
    /\ \E phase \in StartPhases :
         db' = [db EXCEPT ![c] =
                  NewRow(IF ActiveBlockers(c) = {} THEN "READY" ELSE "BLOCKED",
                         phase, ActiveBlockers(c),
                         c \in ExplicitChunks, c \in RetainedChunks)]
    /\ UNCHANGED <<task, running, tick, daemon, git, feedback, patched, used>>

Request(kind, c) ==
    /\ Free
    /\ kind \in OperatorRequests
    /\ used.requests < MaxRequests
    /\ used' = [used EXCEPT !.requests = @ + 1]
    /\ Exists(db[c])
    /\ UNCHANGED <<task, running, tick, daemon>>

Answer(c) ==
    /\ Request("answer", c)
    /\ db[c].status = "NEEDS_ATTENTION"
    /\ db' = [db EXCEPT ![c] = AnswerRow(@)]
    /\ UNCHANGED <<git, feedback, patched>>

Retry(c) ==
    /\ Request("retry", c)
    /\ db[c].status = "NEEDS_ATTENTION"
    /\ db' = [db EXCEPT ![c] = RetryRow(@)]
    /\ UNCHANGED <<git, feedback, patched>>

Resolve(c, other) ==
    /\ Request("resolve", c)
    /\ \/ db' = [db EXCEPT ![c] = SerializeAfter(@, other)]
       \/ db' = [db EXCEPT ![c] = ParallelizeWith(@, other)]
    /\ UNCHANGED <<git, feedback, patched>>

\* The body names the columns to change: a status, or retain_worktree.
PatchStatus(c, s) ==
    /\ Request("patch", c)
    /\ db' = [db EXCEPT ![c].status = s]
    /\ patched' = IF s = "DONE" /\ db[c].status # "DONE"
                  THEN patched \cup {c} ELSE patched
    /\ UNCHANGED <<git, feedback>>

PatchRetain(c) ==
    /\ Request("patch", c)
    /\ db' = [db EXCEPT ![c].retain = TRUE]
    /\ UNCHANGED <<git, feedback, patched>>

\* The end of the PATCH handler, after its broadcasts.
UnblockAfterPatch(c) ==
    /\ Free
    /\ c \in patched
    /\ db' = UnblockDependents(db, c)
    /\ patched' = patched \ {c}
    /\ UNCHANGED <<task, running, tick, daemon, git, feedback, used>>

\* force=true, or a branch without unmerged commits.
Delete(c) ==
    /\ Request("delete", c)
    /\ db' = [db EXCEPT ![c] = NoRow]
    /\ git' = [git EXCEPT ![c] = "none"]
    /\ feedback' = [feedback EXCEPT ![c] = FALSE]
    /\ UNCHANGED patched

\* The clock passes next_retry_at.
BackoffElapses(c) ==
    /\ Free
    /\ db[c].backoff = "waiting"
    /\ db' = [db EXCEPT ![c].backoff = "elapsed"]
    /\ UNCHANGED <<task, running, tick, daemon, git, feedback, patched, used>>

-----------------------------------------------------------------------------
(* One dispatch tick, under the scheduler's lock.                           *)

BlocksCount(c) ==
    Cardinality({d \in WithStatus("BLOCKED") \cup WithStatus("READY") : c \in db[d].blockedBy})

Listed(q) == {q[i] : i \in DOMAIN q}

\* get_ready_queue(limit): by blocks_count; priority and created_at, which
\* break the ties, are not modelled, so ties are broken in any way.
ReadyQueues(limit) ==
    LET ready == WithStatus("READY")
        size  == IF Cardinality(ready) < limit THEN Cardinality(ready) ELSE limit
    IN {q \in [1..size -> ready] :
          /\ \A i, j \in 1..size : i < j =>
                q[i] # q[j] /\ BlocksCount(q[i]) >= BlocksCount(q[j])
          /\ \A c \in ready \ Listed(q), i \in 1..size :
                BlocksCount(q[i]) >= BlocksCount(c)}

\* Mutant: a task that waits to leave counts as finished.
NotExiting == {c \in running : task[c].at \notin {"none", "exit"}}

\* Mutant: the RUNNING rows are counted, not the tasks.
FreeSlotsByRows == MaxAgents - Cardinality(WithStatus("RUNNING"))

\* Keys of finished tasks are dropped before slots are counted.
StillRunning == {c \in running : Live(c)}
FreeSlots    == MaxAgents - Cardinality(StillRunning)

TickStart ==
    /\ Free
    /\ tick.at = "idle"
    /\ running' = StillRunning
    /\ IF FreeSlots > 0 /\ WithStatus("READY") # {}
       THEN \E q \in ReadyQueues(FreeSlots) :
              tick' = [at |-> "unit", queue |-> q, snap |-> db, blockers |-> {}]
       ELSE UNCHANGED tick
    /\ UNCHANGED <<db, task, daemon, git, feedback, patched, used>>

NextUnit ==
    IF Len(tick.queue) = 1 THEN IdleTick
    ELSE [tick EXCEPT !.at = "unit", !.queue = Tail(@), !.blockers = {}]

\* The unit at the head of the queue, as the tick read it, its elapsed
\* backoff cleared.
Unit == Head(tick.queue)
UnitRow == [tick.snap[Unit] EXCEPT !.backoff = "none"]
OthersWith(s) == WithStatus(s) \ {Unit}

\* The unit is not passed over: it is not running already and its backoff,
\* if it had one, is over.
Eligible ==
    /\ daemon.mode = "up" /\ tick.at = "unit"
    /\ Unit \notin running
    /\ tick.snap[Unit].backoff # "waiting"

TickSkip ==
    /\ Up /\ tick.at = "unit"
    /\ \/ Unit \in running
       \/ tick.snap[Unit].backoff = "waiting"
    /\ tick' = NextUnit
    /\ UNCHANGED <<db, task, running, daemon, git, feedback, patched, used>>

\* Clearing the elapsed backoff of a row deleted since the tick read it raises
\* ValueError, which start() catches: the rest of the queue is dropped.
ClearingFails == tick.snap[Unit].backoff = "elapsed" /\ ~Exists(db[Unit])

\* The row as the tick writes it when it clears a backoff, and when the oracle
\* gives a verdict that was not cached (fresh): always the snapshot.
TickWrote(fresh) ==
    IF fresh \/ tick.snap[Unit].backoff = "elapsed" THEN Written(Unit, UnitRow) ELSE db

\* Only an uncached verdict about some active unit is written.
FreshVerdicts ==
    IF UnitRow.explicit \/ (OthersWith("RUNNING") \cup OthersWith("READY")) = {}
    THEN {FALSE} ELSE BOOLEAN

\* What _check_conflicts returns when it does not suspend: of an explicit unit
\* the declared blockers that run, otherwise some of the running units.
Conflicts ==
    IF UnitRow.explicit
    THEN {UnitRow.blockedBy \cap WithStatus("RUNNING")}
    ELSE {B \in SUBSET OthersWith("RUNNING") : B # {} => "SERIALIZE" \in Verdicts}

TickDispatch ==
    /\ Eligible /\ ~ClearingFails
    /\ {} \in Conflicts
    /\ \E fresh \in FreshVerdicts : db' = TickWrote(fresh)
    /\ task' = [task EXCEPT ![Unit] =
                  [at |-> "spawned", phase |-> UnitRow.phase, row |-> NoRow]]
    /\ running' = running \cup {Unit}
    /\ tick' = NextUnit
    /\ UNCHANGED <<daemon, git, feedback, patched, used>>

\* Blocked by conflicts: the unit stays READY, its blocked_by grows (an
\* explicit unit returns before that write).
TickBlocked ==
    /\ Eligible /\ ~ClearingFails
    /\ \E B \in Conflicts \ {{}} : \E fresh \in FreshVerdicts :
         IF UnitRow.explicit \/ B = UnitRow.blockedBy
         THEN db' = TickWrote(fresh) /\ tick' = NextUnit
         ELSE /\ db' = Written(Unit, [UnitRow EXCEPT !.blockedBy = @ \cup B])
              /\ tick' = IF Exists(db[Unit]) THEN NextUnit ELSE IdleTick
    /\ UNCHANGED <<task, running, daemon, git, feedback, patched, used>>

Asked == MarkNeedsAttention(UnitRow, "conflict")

\* ASK_OPERATOR about a running unit: NEEDS_ATTENTION is written, then the
\* broadcast suspends the tick, which keeps the lock.
TickAsks ==
    /\ Eligible /\ ~ClearingFails /\ Exists(db[Unit])
    /\ ~UnitRow.explicit
    /\ "ASK_OPERATOR" \in Verdicts
    /\ \E B \in SUBSET OthersWith("RUNNING") :
         /\ B # {}
         /\ tick' = [tick EXCEPT !.at = "asking", !.blockers = B]
    /\ db' = Written(Unit, Asked)
    /\ UNCHANGED <<task, running, daemon, git, feedback, patched, used>>

\* After the broadcast: blocked_by is written from the same in-memory row.
TickAsked ==
    /\ Up /\ tick.at = "asking"
    /\ IF tick.blockers = Asked.blockedBy
       THEN UNCHANGED db
       ELSE db' = Written(Unit, [Asked EXCEPT !.blockedBy = @ \cup tick.blockers])
    /\ tick' = IF tick.blockers = Asked.blockedBy \/ Exists(db[Unit])
               THEN NextUnit ELSE IdleTick
    /\ UNCHANGED <<task, running, daemon, git, feedback, patched, used>>

\* The unit was deleted while the tick was suspended at an earlier one.
TickAborts ==
    /\ Eligible
    /\ \/ ClearingFails
       \/ /\ ~Exists(db[Unit]) /\ ~UnitRow.explicit
          /\ "ASK_OPERATOR" \in Verdicts /\ OthersWith("RUNNING") # {}
    /\ tick' = IdleTick
    /\ UNCHANGED <<db, task, running, daemon, git, feedback, patched, used>>

TickStep == TickSkip \/ TickDispatch \/ TickBlocked \/ TickAsks \/ TickAsked \/ TickAborts

-----------------------------------------------------------------------------
(* _run_work_unit, up to the agent.                                         *)

TaskAt(c, states) == Free /\ task[c].at \in states

SetTask(c, t) == task' = [task EXCEPT ![c] = t]

\* The result is written and only broadcasts and the exit are left.
Settle(c, row) ==
    /\ db' = Written(c, row)
    /\ SetTask(c, Leaving("exit"))

\* The TOCTOU guard returns before the try block: the finally clause does not
\* run, so the key stays in running until the next tick.
StartSkipped(c) ==
    /\ TaskAt(c, {"spawned"})
    /\ db[c].status # "READY"
    /\ SetTask(c, NoTask)
    /\ UNCHANGED <<db, running, tick, daemon, git, feedback, patched, used>>

Start(c) ==
    /\ TaskAt(c, {"spawned"})
    /\ db[c].status = "READY"
    /\ git' = [git EXCEPT ![c] = "worktree"]
    /\ db' = [db EXCEPT ![c] = Dispatched(@)]
    /\ SetTask(c, [task[c] EXCEPT !.at = "starting", !.row = Dispatched(db[c])])
    /\ UNCHANGED <<running, tick, daemon, feedback, patched, used>>

\* create_worktree fails, or the activation of the chunk before PLAN does;
\* then the new worktree is removed again.
StartFails(c) ==
    /\ TaskAt(c, {"spawned"})
    /\ db[c].status = "READY"
    /\ \/ UNCHANGED git
       \/ task[c].phase = "PLAN" /\ git' = [git EXCEPT ![c] = "branch"]
    /\ Settle(c, MarkNeedsAttention(db[c], "other"))
    /\ UNCHANGED <<running, tick, daemon, feedback, patched, used>>

\* After the RUNNING broadcast: the checks that may still keep the agent from
\* being run.  A deleted row makes the writes raise, which ends the task.
Reroute(c) ==
    /\ TaskAt(c, {"starting"})
    /\ task[c].phase = "REVIEW" /\ feedback[c]
    /\ Settle(c, RouteBackUnaddressed(task[c].row))
    /\ UNCHANGED <<running, tick, daemon, git, feedback, patched, used>>

StopIterating(c) ==
    /\ TaskAt(c, {"starting"})
    /\ task[c].phase = "IMPLEMENT"
    /\ task[c].row.impl > MaxIterations
    /\ Settle(c, MarkNeedsAttention(task[c].row, "iterations"))
    /\ UNCHANGED <<running, tick, daemon, git, feedback, patched, used>>

Launch(c) ==
    /\ TaskAt(c, {"starting"})
    /\ task[c].phase = "REVIEW" => ~feedback[c]
    /\ IF task[c].phase = "IMPLEMENT"
       THEN LET counted == [task[c].row EXCEPT !.impl = @ + 1] IN
            /\ task[c].row.impl <= MaxIterations
            /\ db' = Written(c, counted)
            /\ SetTask(c, IF Exists(db[c])
                          THEN [task[c] EXCEPT !.at = "agent", !.row = counted]
                          ELSE Leaving("exit"))
       ELSE /\ UNCHANGED db
            /\ SetTask(c, [task[c] EXCEPT !.at = "agent"])
    /\ UNCHANGED <<running, tick, daemon, git, feedback, patched, used>>

-----------------------------------------------------------------------------
(* _handle_agent_result.  Every write is of the row the task read when it    *)
(* started: what others wrote meanwhile is overwritten.                      *)

AtWork(c) == TaskAt(c, {"agent", "resume"})

\* The session of the run, and the in-memory row once it has returned: the
\* answer was delivered, and a resume keeps the session it ran in.
Session(c) == SessionAfter(task[c].row, task[c].phase)
InMemory(c) == AnswerDelivered(task[c].row)
After(c) == IF task[c].at = "resume" THEN [InMemory(c) EXCEPT !.session = Session(c)]
                                     ELSE InMemory(c)

\* A backend that fails before the agent's first message reports no session;
\* resume_for_active_status then keeps the one it was given.
ErrorSessions(c) ==
    IF task[c].at = "agent" \/ task[c].row.session = "none"
    THEN {Session(c), "none"} ELSE {Session(c)}

AgentSuspends(c) ==
    /\ AtWork(c)
    /\ Settle(c, Suspended(After(c), Session(c)))
    /\ UNCHANGED <<running, tick, daemon, git, feedback, patched, used>>

AgentHitsApiError(c) ==
    /\ AtWork(c)
    /\ \E session \in ErrorSessions(c) :
         Settle(c, IF After(c).api < MaxApiRetries
                   THEN ScheduleApiRetry(After(c), session)
                   ELSE MarkNeedsAttention(After(c), "api"))
    /\ UNCHANGED <<running, tick, daemon, git, feedback, patched, used>>

AgentHitsSessionLimit(c) ==
    /\ AtWork(c)
    /\ used.limits < MaxSessionLimits
    /\ used' = [used EXCEPT !.limits = @ + 1]
    /\ \E session \in ErrorSessions(c) :
         Settle(c, ScheduleSessionRetry(After(c), session))
    /\ UNCHANGED <<running, tick, daemon, git, feedback, patched>>

\* A non-retryable error, an unknown state, an ambiguous rename, or an exception, which may
\* come before the answer that was delivered is taken from the row.
AgentFails(c) ==
    /\ AtWork(c)
    /\ \E row \in {After(c), InMemory(c), task[c].row} :
         Settle(c, MarkNeedsAttention(row, "other"))
    /\ UNCHANGED <<running, tick, daemon, git, feedback, patched, used>>

\* The agent completed a phase that has a successor.  The implementer may
\* have deleted REVIEW_FEEDBACK.md.
PhaseCompletes(c) ==
    /\ AtWork(c)
    /\ After(c).phase \in {"GOAL", "PLAN", "IMPLEMENT", "REBASE"}
    /\ Settle(c, AdvancePhase(After(c)))
    /\ \/ UNCHANGED feedback
       \/ After(c).phase = "IMPLEMENT" /\ feedback' = [feedback EXCEPT ![c] = FALSE]
    /\ UNCHANGED <<running, tick, daemon, git, patched, used>>

Reviewed(c) == AtWork(c) /\ After(c).phase = "REVIEW"

ReviewNudged(c) ==
    /\ Reviewed(c)
    /\ MayNudge(After(c))
    /\ Settle(c, Nudge(After(c), Session(c)))
    /\ UNCHANGED <<running, tick, daemon, git, feedback, patched, used>>

ReviewUndecided(c) ==
    /\ Reviewed(c)
    /\ ~MayNudge(After(c))
    /\ Settle(c, MarkNeedsAttention(CountNudge(After(c)), "other"))
    /\ UNCHANGED <<running, tick, daemon, git, feedback, patched, used>>

\* The row on which a decision is applied: the tool was called, or after the
\* last nudge the decision was found in a file.
DecisionRows(c) ==
    {ToolCalled(After(c))} \cup
    (IF MayNudge(After(c)) THEN {} ELSE {CountNudge(After(c))})

ReviewApproves(c) ==
    /\ Reviewed(c)
    /\ \E row \in DecisionRows(c) : Settle(c, Approve(row))
    /\ UNCHANGED <<running, tick, daemon, git, feedback, patched, used>>

ReviewFeedsBack(c) ==
    /\ Reviewed(c)
    /\ \E row \in DecisionRows(c) : Settle(c, FeedBack(row))
    /\ feedback' = [feedback EXCEPT ![c] = @ \/ MayFeedBack(After(c))]
    /\ UNCHANGED <<running, tick, daemon, git, patched, used>>

ReviewEscalates(c) ==
    /\ Reviewed(c)
    /\ \E row \in DecisionRows(c) : Settle(c, Escalate(row, Session(c)))
    /\ UNCHANGED <<running, tick, daemon, git, feedback, patched, used>>

-----------------------------------------------------------------------------
(* _finalize_completed_work_unit.                                            *)

Completing(c) == AtWork(c) /\ After(c).phase = "COMPLETE"

\* GOAL.md still says IMPLEMENTING: the agent is resumed to finish, or the
\* operator is called.  resume_for_active_status is passed the row's session.
StillImplementing(c) ==
    /\ Completing(c)
    /\ git[c] = "worktree"
    /\ IF After(c).completion >= MaxCompletionRetries
       THEN Settle(c, MarkNeedsAttention(After(c), "other"))
       ELSE LET again == [After(c) EXCEPT !.completion = @ + 1] IN
            /\ db' = Written(c, again)
            /\ SetTask(c, IF Exists(db[c])
                          THEN [task[c] EXCEPT !.at = "resume", !.row = again]
                          ELSE Leaving("exit"))
    /\ UNCHANGED <<running, tick, daemon, git, feedback, patched, used>>

\* The verification succeeded: the work can be finalized.
Verified(c) == Completing(c) /\ git[c] = "worktree"

\* The DONE write; broadcast and unblocking follow.
WriteDone(c) ==
    /\ db' = Written(c, Finished(After(c)))
    /\ SetTask(c, Leaving(IF Exists(db[c]) THEN "announce" ELSE "exit"))

FinalizeRetained(c) ==
    /\ Verified(c)
    /\ After(c).retain
    /\ WriteDone(c)
    /\ UNCHANGED <<running, tick, daemon, git, feedback, patched, used>>

\* finalize_work_unit: commit, remove the worktree, merge, delete the branch.
FinalizeMerged(c) ==
    /\ Verified(c)
    /\ ~After(c).retain
    /\ git' = [git EXCEPT ![c] = "merged"]
    /\ WriteDone(c)
    /\ UNCHANGED <<running, tick, daemon, feedback, patched, used>>

\* The worktree is gone when the merge conflicts; a retry recreates it, and
\* when that fails the operator is called.
FinalizeConflicts(c) ==
    /\ Verified(c)
    /\ ~After(c).retain
    /\ \/ /\ Settle(c, HandleMergeConflictRetry(After(c)))
          /\ git' = [git EXCEPT ![c] =
                       IF MayRetryMerge(After(c)) THEN "worktree" ELSE "branch"]
       \/ /\ MayRetryMerge(After(c))
          /\ Settle(c, MarkNeedsAttention(After(c), "conflict"))
          /\ git' = [git EXCEPT ![c] = "branch"]
    /\ UNCHANGED <<running, tick, daemon, feedback, patched, used>>

\* The commit or the removal fails (the worktree stays), or the merge does for
\* another reason than a conflict.
FinalizeFails(c) ==
    /\ Verified(c)
    /\ Settle(c, MarkNeedsAttention(After(c), "other"))
    /\ \/ UNCHANGED git
       \/ ~After(c).retain /\ git' = [git EXCEPT ![c] = "branch"]
    /\ UNCHANGED <<running, tick, daemon, feedback, patched, used>>

\* After the DONE broadcast.
AnnounceDone(c) ==
    /\ TaskAt(c, {"announce"})
    /\ db' = UnblockDependents(db, c)
    /\ SetTask(c, Leaving("exit"))
    /\ UNCHANGED <<running, tick, daemon, git, feedback, patched, used>>

\* The finally clause; it needs the lock.
Exit(c) ==
    /\ TaskAt(c, {"exit"})
    /\ tick.at = "idle"
    /\ SetTask(c, NoTask)
    /\ running' = running \ {c}
    /\ UNCHANGED <<db, tick, daemon, git, feedback, patched, used>>

-----------------------------------------------------------------------------
(* Crashes.  A stop() whose timeout expires cancels the tasks wherever they  *)
(* are and leaves the rows as they are: it is a crash, too.                  *)

Fall ==
    /\ used.crashes < MaxCrashes
    /\ used' = [used EXCEPT !.crashes = @ + 1]
    /\ task' = [c \in Chunks |-> NoTask]
    /\ running' = {}
    /\ tick' = IdleTick
    /\ daemon' = [mode |-> "down", incomplete |-> {}]
    /\ patched' = {}
    /\ UNCHANGED <<db, feedback>>

Crash ==
    /\ daemon.mode # "down"
    /\ Fall
    /\ UNCHANGED git

\* Between two git commands of finalize_work_unit, or before the DONE write.
CrashInFinalize(c) ==
    /\ Verified(c)
    /\ ~After(c).retain
    /\ Fall
    /\ \E place \in {"branch", "mergedBranch", "merged"} :
         git' = [git EXCEPT ![c] = place]

\* Mutant: every unit whose branch has no worktree is looked at.
FinalizingAny(row) == row.status # "ABSENT"

\* _find_incomplete_finalizations looks at these.
Finalizing(row) == row.phase = "COMPLETE" \/ row.status = "DONE"

Restart ==
    /\ daemon.mode = "down"
    /\ db' = [c \in Chunks |-> Requeued(db[c])]
    /\ daemon' = [mode |-> "recovering",
                  incomplete |-> {c \in Chunks : /\ Exists(db[c])
                                                 /\ Finalizing(db[c])
                                                 /\ git[c] = "branch"}]
    /\ git' = [c \in Chunks |->
                 IF Exists(db[c]) /\ Finalizing(db[c]) /\ git[c] = "mergedBranch"
                 THEN "merged" ELSE git[c]]
    /\ UNCHANGED <<task, running, tick, feedback, patched, used>>

Recover(c) ==
    /\ daemon.mode = "recovering"
    /\ c \in daemon.incomplete
    /\ \/ /\ git' = [git EXCEPT ![c] = "merged"]
          /\ LET row == RecoveredMerged(db[c])
                 table == [db EXCEPT ![c] = row]
             IN db' = IF row = db[c] THEN db ELSE UnblockDependents(table, c)
       \/ /\ UNCHANGED git
          /\ db' = [db EXCEPT ![c] = MarkNeedsAttention(@, "conflict")]
    /\ daemon' = [daemon EXCEPT !.incomplete = @ \ {c}]
    /\ UNCHANGED <<task, running, tick, feedback, patched, used>>

Recovered ==
    /\ daemon = [mode |-> "recovering", incomplete |-> {}]
    /\ daemon' = [daemon EXCEPT !.mode = "up"]
    /\ UNCHANGED <<db, task, running, tick, git, feedback, patched, used>>

-----------------------------------------------------------------------------
Operator(c) ==
    \/ Inject(c)
    \/ Answer(c)
    \/ Retry(c)
    \/ \E other \in Chunks \ {c} : Resolve(c, other)
    \/ \E s \in PatchStatuses : PatchStatus(c, s)
    \/ PatchRetain(c)
    \/ Delete(c)

Starting(c) ==
    \/ StartSkipped(c)
    \/ Start(c)
    \/ StartFails(c)
    \/ Reroute(c)
    \/ StopIterating(c)
    \/ Launch(c)

AgentReturns(c) ==
    \/ AgentSuspends(c)
    \/ AgentHitsApiError(c)
    \/ AgentHitsSessionLimit(c)
    \/ AgentFails(c)
    \/ PhaseCompletes(c)
    \/ ReviewNudged(c)
    \/ ReviewUndecided(c)
    \/ ReviewApproves(c)
    \/ ReviewFeedsBack(c)
    \/ ReviewEscalates(c)
    \/ StillImplementing(c)
    \/ FinalizeRetained(c)
    \/ FinalizeMerged(c)
    \/ FinalizeConflicts(c)
    \/ FinalizeFails(c)

Ending(c) == AnnounceDone(c) \/ UnblockAfterPatch(c) \/ Exit(c)

Next ==
    \/ TickStart
    \/ TickStep
    \/ \E c \in Chunks :
         \/ Operator(c)
         \/ BackoffElapses(c)
         \/ Starting(c)
         \/ AgentReturns(c)
         \/ Ending(c)
         \/ CrashInFinalize(c)
         \/ Recover(c)
    \/ Crash
    \/ Restart
    \/ Recovered

Spec == Init /\ [][Next]_vars

\* The event loop runs its callbacks in order and the lock is handed out in
\* order, so a coroutine that can go on again and again between two ticks does:
\* strong fairness, because a tick in progress disables the others.  The clock
\* advances; an agent returns (its turns are limited); the daemon is started
\* again.  Nothing is assumed of the operator.
Fairness ==
    /\ WF_vars(TickStart)
    /\ WF_vars(TickStep)
    /\ WF_vars(Restart)
    /\ WF_vars(Recovered)
    /\ \A c \in Chunks :
         /\ SF_vars(BackoffElapses(c))
         /\ SF_vars(Starting(c) \/ AgentReturns(c) \/ Ending(c))
         /\ WF_vars(Recover(c))

FairSpec == Spec /\ Fairness

-----------------------------------------------------------------------------
(***************************************************************************)
(* Properties.                                                             *)
(***************************************************************************)

\* At most max_agents coroutines of work units exist at any moment, however
\* ticks, early returns and late exits interleave (_dispatch_tick counts the
\* keys of _running_agents, not the RUNNING rows).
SlotBound == Cardinality({c \in Chunks : Live(c)}) <= MaxAgents

\* While the daemon is up, a RUNNING row has an agent at work or about to be
\* launched: nothing hangs in RUNNING with nobody left to move it.  A PATCH to
\* RUNNING is left out.
RunningHasAgent == Up => WithStatus("RUNNING") \subseteq Agents

\* Agents of different phases get different prompts: a session opened in one phase
\* is never resumed in another (_advance_phase, route_review_decision and the REBASE
\* retry all have to forget it), and the reminder to call the ReviewDecision tool is
\* only ever handed to a reviewer.
PromptsFitPhase ==
    \A c \in Chunks :
        /\ db[c].session \in {"none", db[c].phase}
        /\ db[c].answer = "nudge" => db[c].phase = "REVIEW"

\* A unit is DONE only when its work is in the base branch, or the worktree was
\* to be retained: no path through conflict, failure, crash or recovery ends
\* in DONE with work left behind.
DoneIsMerged ==
    \A c \in Chunks : db[c].status = "DONE" =>
        git[c] = "merged" \/ (db[c].retain /\ git[c] = "worktree")

\* A chunk injected with declared dependencies starts to run only when all of
\* them are DONE, those injected after it included.
DependenciesFirst ==
    [][\A c \in ExplicitChunks :
         db[c].status # "RUNNING" /\ db'[c].status = "RUNNING" =>
            \A d \in Deps[c] : db[d].status = "DONE"]_vars

\* A BLOCKED unit waits for somebody: a blocker that is not DONE, or whose
\* completion is just being announced.
BlockedIsWaiting ==
    \A c \in WithStatus("BLOCKED") : \E d \in db[c].blockedBy :
        \/ db[d].status # "DONE"
        \/ task[d].at = "announce"
        \/ d \in patched

\* The queue a tick works through: chunks whose rows it read as READY.
QueueOK ==
    tick.at # "idle" =>
        /\ tick.queue # <<>>
        /\ \A i \in DOMAIN tick.queue : tick.snap[tick.queue[i]].status = "READY"

\* Every task has its key, and the keys plus what the tick may still dispatch
\* fit into the slots.
KeysOK ==
    /\ \A c \in Chunks : Live(c) => c \in running
    /\ Cardinality(running) + Len(tick.queue) <= MaxAgents

\* Recovery left no row RUNNING without an agent.
AgentsOK == daemon.mode # "down" => WithStatus("RUNNING") \subseteq Agents

\* The inductive invariant behind SlotBound and RunningHasAgent: no schedule of
\* ticks, suspended ticks, early returns, late exits, deletions and crashes
\* loses the count of agents or an agent's row.
SchedulerInv == TypeOK /\ QueueOK /\ KeysOK /\ AgentsOK

\* What an agent raised, a question or a limit it ran into, is not taken from
\* the operator's attention queue by the completion of another unit: only a
\* request to the API resolves it.
QuestionsStand ==
    [][\A c \in Chunks :
         /\ db[c].status = "NEEDS_ATTENTION"
         /\ db[c].reason \in {"question", "iterations", "api"}
         /\ db'[c].status # "NEEDS_ATTENTION"
         => used'.requests > used.requests]_vars

\* A unit that was deleted does not come back: ticks and tasks that read its row
\* before, and write it from memory afterwards, create nothing, nor does a
\* recovery or the completion of a blocker.  Only an injection does.
NoResurrection ==
    [][\A c \in Chunks : ~Exists(db[c]) /\ Exists(db'[c]) => Inject(c)]_vars

\* Under fairness every unit that is READY or RUNNING ends up DONE or in front
\* of the operator: the retries, nudges, reviews and merge attempts all end.
UnitsSettle ==
    \A c \in Chunks :
        db[c].status \in {"READY", "RUNNING"} ~> db[c].status \in {"DONE", "NEEDS_ATTENTION"}

\* Under fairness a unit whose blockers are all DONE is released.
DependentsReleased ==
    \A c \in Chunks :
        (db[c].status = "BLOCKED" /\ \A d \in db[c].blockedBy : db[d].status = "DONE")
            ~> db[c].status # "BLOCKED"

-----------------------------------------------------------------------------
(* The scheduler implements the lifecycle.                                   *)

Stage(row) ==
    CASE row.status = "ABSENT" -> "absent"
      [] row.status \in {"READY", "BLOCKED"} -> "waiting"
      [] row.status = "RUNNING" -> "working"
      [] row.status = "NEEDS_ATTENTION" -> "stopped"
      [] row.status = "DONE" -> "done"

Lifecycle == INSTANCE WorkUnitLifecycle WITH
    stage <- [c \in Chunks |-> Stage(db[c])],
    phase <- [c \in Chunks |-> db[c].phase],
    integrated <- [c \in Chunks |-> git[c] \in {"merged", "mergedBranch"}]

\* Every behaviour of the daemon, with its crashes and recoveries, is a
\* lifecycle of every chunk.
LifecycleSpec == Lifecycle!Spec
=============================================================================
