------------------------------ MODULE WorkUnits ------------------------------
(***************************************************************************)
(* The rows of the orchestrator's work_units table and what each handler   *)
(* of src/src/orchestrator does to one row.  Everything here is a pure     *)
(* function of rows; the module Scheduler says when each one happens.      *)
(*                                                                         *)
(* What is kept of models.WorkUnit: every field that some guard of the     *)
(* scheduler, the review router or the API reads.  Texts are abstracted to *)
(* what the guards tell apart: an attention_reason to the substring some   *)
(* code looks for, a pending_answer to who wrote it, a session_id to the   *)
(* phase whose run opened the session, next_retry_at to its side of now.   *)
(***************************************************************************)
EXTENDS Naturals, FiniteSets

CONSTANTS
    Chunks,                \* chunk names, the primary key of work_units
    MaxIterations,         \* reviewer config loop_detection.max_iterations
    MaxNudges,             \* ReviewRoutingConfig.max_nudges
    MaxApiRetries,         \* OrchestratorConfig.api_retry_max_attempts
    MaxCompletionRetries,  \* OrchestratorConfig.max_completion_retries
    MaxMergeRetries        \* max_merge_conflict_retries

ASSUME BoundsAssumption ==
    /\ MaxIterations \in Nat
    /\ MaxNudges \in Nat
    /\ MaxApiRetries \in Nat
    /\ MaxCompletionRetries \in Nat
    /\ MaxMergeRetries \in Nat

Phases == {"GOAL", "PLAN", "IMPLEMENT", "REBASE", "REVIEW", "COMPLETE"}

\* "ABSENT" stands for no row: get_work_unit returns None.
Statuses == {"ABSENT", "READY", "RUNNING", "BLOCKED", "NEEDS_ATTENTION", "DONE"}

Sessions == {"none"} \cup Phases
Answers  == {"none", "operator", "continue", "nudge"}
Backoffs == {"none", "waiting", "elapsed"}
Reasons  == {"none", "conflict", "iterations", "api", "question", "other"}

Row ==
    [status: Statuses, phase: Phases, blockedBy: SUBSET Chunks,
     explicit: BOOLEAN, retain: BOOLEAN,
     session: Sessions, answer: Answers, backoff: Backoffs, reason: Reasons,
     api: 0..MaxApiRetries, nudges: 0..MaxNudges, review: 0..MaxIterations,
     impl: 0..(MaxIterations + 1), completion: 0..MaxCompletionRetries,
     merge: 0..MaxMergeRetries]

NewRow(status, phase, blockers, explicit, retain) ==
    [status |-> status, phase |-> phase, blockedBy |-> blockers,
     explicit |-> explicit, retain |-> retain,
     session |-> "none", answer |-> "none", backoff |-> "none", reason |-> "none",
     api |-> 0, nudges |-> 0, review |-> 0, impl |-> 0, completion |-> 0, merge |-> 0]

NoRow == NewRow("ABSENT", "GOAL", {}, FALSE, FALSE)

Exists(row) == row.status # "ABSENT"

\* next_map of _advance_phase; COMPLETE has no successor there.
NextPhase ==
    [p \in Phases \ {"COMPLETE"} |->
        CASE p = "GOAL"      -> "PLAN"
          [] p = "PLAN"      -> "IMPLEMENT"
          [] p = "IMPLEMENT" -> "REBASE"
          [] p = "REBASE"    -> "REVIEW"
          [] p = "REVIEW"    -> "COMPLETE"]

-----------------------------------------------------------------------------
(* What the scheduler does to a row when an agent starts or returns.        *)

\* Mutant: the stale blockers survive the dispatch.
DispatchedKeepingBlockers(row) ==
    [row EXCEPT !.status = "RUNNING", !.reason = "none"]

Dispatched(row) ==
    [row EXCEPT !.status = "RUNNING", !.reason = "none", !.blockedBy = {}]

MarkNeedsAttention(row, why) ==
    [row EXCEPT !.status = "NEEDS_ATTENTION", !.reason = why]

AnswerDelivered(row) == [row EXCEPT !.answer = "none"]

\* agent.session_id of a run: a resumed session goes on, a fresh one belongs
\* to the phase that was run.
SessionAfter(row, phase) == IF row.session = "none" THEN phase ELSE row.session

Suspended(row, session) ==
    [MarkNeedsAttention(row, "question") EXCEPT !.session = session]

ScheduleApiRetry(row, session) ==
    [row EXCEPT !.status = "READY", !.reason = "none", !.answer = "continue",
                !.session = session, !.backoff = "waiting", !.api = @ + 1]

ScheduleSessionRetry(row, session) ==
    [row EXCEPT !.status = "READY", !.reason = "none", !.answer = "continue",
                !.session = session, !.backoff = "waiting"]

AdvancePhase(row) ==
    [row EXCEPT !.phase = NextPhase[row.phase], !.status = "READY",
                !.session = "none", !.reason = "none", !.api = 0, !.backoff = "none"]

\* _run_work_unit: REVIEW_FEEDBACK.md is still there when REVIEW starts.
RouteBackUnaddressed(row) ==
    [row EXCEPT !.phase = "IMPLEMENT", !.status = "READY", !.session = "none"]

-----------------------------------------------------------------------------
(* review_routing.py.                                                       *)

\* Mutant: the reminder is not counted.
CountNoNudge(row) == row

\* review_nudge_count is only ever compared with max_nudges: it saturates.
CountNudge(row) ==
    [row EXCEPT !.nudges = IF @ < MaxNudges THEN @ + 1 ELSE @]

MayNudge(row) == row.nudges + 1 < MaxNudges

Nudge(row, session) ==
    [CountNudge(row) EXCEPT !.answer = "nudge", !.session = session, !.status = "READY"]

ToolCalled(row) == [row EXCEPT !.nudges = 0]

Approve(row) == AdvancePhase([row EXCEPT !.nudges = 0, !.impl = 0])

MayFeedBack(row) == row.review + 1 < MaxIterations

FeedBack(row) ==
    IF MayFeedBack(row)
    THEN [row EXCEPT !.review = @ + 1, !.nudges = 0, !.phase = "IMPLEMENT",
                     !.status = "READY", !.session = "none", !.reason = "none"]
    ELSE MarkNeedsAttention(row, "other")

Escalate(row, session) ==
    MarkNeedsAttention([row EXCEPT !.nudges = 0, !.session = session], "other")

-----------------------------------------------------------------------------
(* Finalization.                                                            *)

Finished(row) ==
    [row EXCEPT !.status = "DONE", !.session = "none", !.api = 0,
                !.backoff = "none", !.merge = 0]

MayRetryMerge(row) == row.merge < MaxMergeRetries

\* Mutant: the session of COMPLETE goes on in REBASE.
RetryMergeKeepingSession(row) ==
    [row EXCEPT !.phase = "REBASE", !.status = "READY", !.merge = @ + 1,
                !.reason = "none", !.api = 0, !.backoff = "none"]

RetryMergeByRebase(row) ==
    [row EXCEPT !.phase = "REBASE", !.status = "READY", !.session = "none",
                !.merge = @ + 1, !.reason = "none", !.api = 0, !.backoff = "none"]

\* Mutant: when the retries are used up the unit is taken for finished.
GiveUpAsDone(row) == IF MayRetryMerge(row) THEN RetryMergeByRebase(row) ELSE Finished(row)

\* A merge conflict during finalization: back to REBASE, or to the operator.
HandleMergeConflictRetry(row) ==
    IF MayRetryMerge(row) THEN RetryMergeByRebase(row)
                          ELSE MarkNeedsAttention(row, "conflict")

-----------------------------------------------------------------------------
(* Dependents, and recovery at start-up.                                    *)

\* Mutant: the status BLOCKED is forgotten.
UnblockedFromAttention(row, done) ==
    LET rest == row.blockedBy \ {done} IN
    IF done \in row.blockedBy /\ rest = {} /\ row.status = "NEEDS_ATTENTION"
    THEN [row EXCEPT !.blockedBy = rest, !.status = "READY", !.reason = "none"]
    ELSE [row EXCEPT !.blockedBy = rest]

\* unblock_dependents on one row of the table.
Unblocked(row, done) ==
    LET rest == row.blockedBy \ {done} IN
    IF done \notin row.blockedBy THEN row
    ELSE IF rest = {} /\ row.status \in {"BLOCKED", "NEEDS_ATTENTION"}
         THEN [row EXCEPT !.blockedBy = rest, !.status = "READY", !.reason = "none"]
         ELSE [row EXCEPT !.blockedBy = rest]

UnblockDependents(table, done) == [d \in Chunks |-> Unblocked(table[d], done)]

\* Mutant: units in the middle of their API retries are left RUNNING.
RequeuedIfNotRetrying(row) ==
    IF row.status = "RUNNING" /\ row.api = 0 THEN [row EXCEPT !.status = "READY"] ELSE row

\* First loop of _recover_from_crash.
Requeued(row) ==
    IF row.status # "RUNNING" THEN row
    ELSE [row EXCEPT !.status = "READY",
                     !.backoff = IF row.api > 0 THEN "waiting" ELSE @]

\* _recover_incomplete_finalization, when the merge succeeds.
RecoveredMerged(row) ==
    IF row.phase = "COMPLETE" /\ row.status # "DONE"
    THEN [row EXCEPT !.status = "DONE", !.session = "none", !.api = 0, !.backoff = "none"]
    ELSE row

-----------------------------------------------------------------------------
(* What the API does to a row.                                              *)

AnswerRow(row) ==
    [row EXCEPT !.answer = "operator", !.reason = "none", !.status = "READY"]

RetryRow(row) ==
    [row EXCEPT !.session = "none", !.reason = "none", !.api = 0,
                !.backoff = "none", !.status = "READY"]

SerializeAfter(row, other) ==
    LET wait == [row EXCEPT !.blockedBy = @ \cup {other}] IN
    IF row.status = "NEEDS_ATTENTION"
    THEN [wait EXCEPT !.status = "BLOCKED", !.reason = "none"]
    ELSE wait

ParallelizeWith(row, other) ==
    LET free == [row EXCEPT !.blockedBy = @ \ {other}] IN
    IF /\ free.blockedBy = {}
       /\ row.status = "NEEDS_ATTENTION"
       /\ row.reason = "conflict"
    THEN [free EXCEPT !.status = "READY", !.reason = "none"]
    ELSE free
=============================================================================
