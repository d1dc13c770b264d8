--------------------------- MODULE SchedulerProofs ---------------------------
(***************************************************************************)
(* Proofs that the scheduler never exceeds its slots and never loses an    *)
(* agent's row: SchedulerInv is inductive.                                 *)
(*                                                                         *)
(* The part about agents, AgentsOK, needs operators who do not PATCH a row *)
(* to RUNNING; the rest does not, so the invariant proved is SlotsInv with *)
(* AgentsOK under that condition.                                          *)
(*                                                                         *)
(* First come the operations on one row, then the invariant, and last that *)
(* a deleted unit comes back only by an injection.                         *)
(***************************************************************************)
EXTENDS Scheduler, FiniteSetTheorems, TLAPS

-----------------------------------------------------------------------------
(***************************************************************************)
(* What the operations on one row preserve: each of them yields a row, and *)
(* those that end a run yield one nobody works on.                         *)
(***************************************************************************)
\* The rows without an agent.
IdleRow == {row \in Row : row.status # "RUNNING"}

\* An operation that starts no run: it yields a row, which is RUNNING only if
\* it was.
StartsNothing(before, after) ==
    after \in Row /\ (after.status = "RUNNING" => before.status = "RUNNING")

\* The values the operations assign are values of their columns (WorkUnit,
\* models.py); cited so that the column types stay folded in what follows.
LEMMA Columns ==
    /\ \A s \in {"READY", "RUNNING", "BLOCKED", "NEEDS_ATTENTION", "DONE"} : s \in Statuses
    /\ \A p \in {"IMPLEMENT", "REBASE"} : p \in Phases
    /\ \A x \in {"none", "operator", "continue", "nudge"} : x \in Answers
    /\ \A x \in {"none", "waiting"} : x \in Backoffs
    /\ \A x \in {"none", "conflict", "iterations", "api", "question", "other"} : x \in Reasons
    /\ "none" \in Sessions /\ Phases \subseteq Sessions
    /\ 0 \in 0..MaxApiRetries /\ 0 \in 0..MaxNudges /\ 0 \in 0..MaxIterations
    /\ 0 \in 0..(MaxIterations + 1) /\ 0 \in 0..MaxCompletionRetries
    /\ 0 \in 0..MaxMergeRetries
BY BoundsAssumption DEF Statuses, Phases, Answers, Backoffs, Reasons, Sessions

-----------------------------------------------------------------------------
(* Rows that appear and rows that start (create_work_unit, _run_work_unit). *)

\* create_work_unit: a new row has its type.
LEMMA NewRowTyped ==
    ASSUME NEW status \in Statuses, NEW phase \in Phases, NEW blockers \in SUBSET Chunks,
           NEW explicit \in BOOLEAN, NEW retain \in BOOLEAN
    PROVE  NewRow(status, phase, blockers, explicit, retain) \in Row
BY Columns DEF NewRow, Row

\* The absent row is a row without an agent.
LEMMA NoRowIdle == NoRow \in IdleRow
<1>1. "ABSENT" \in Statuses /\ "GOAL" \in Phases
  BY DEF Statuses, Phases
<1>2. NoRow \in Row
  BY <1>1, NewRowTyped DEF NoRow
<1> QED  BY <1>2 DEF NoRow, NewRow, IdleRow

\* _run_work_unit marks the row RUNNING.
LEMMA DispatchedTyped ==
    ASSUME NEW row \in Row
    PROVE  Dispatched(row) \in Row
BY Columns DEF Dispatched, Row

\* The pending answer is handed to the agent.
LEMMA AnswerDeliveredTyped ==
    ASSUME NEW row \in Row
    PROVE  /\ AnswerDelivered(row) \in Row
           /\ AnswerDelivered(row).phase = row.phase
BY Columns DEF AnswerDelivered, Row

\* The session a run was in is none or that of a phase.
LEMMA SessionAfterTyped ==
    ASSUME NEW row \in Row, NEW phase \in Phases
    PROVE  SessionAfter(row, phase) \in Sessions
BY Columns DEF SessionAfter, Row

-----------------------------------------------------------------------------
(* Results of a run: the row is given back (_handle_agent_result and what it *)
(* calls).                                                                   *)

\* _mark_needs_attention gives the row to the operator.
LEMMA MarkNeedsAttentionIdle ==
    ASSUME NEW row \in Row, NEW why \in Reasons
    PROVE  MarkNeedsAttention(row, why) \in IdleRow
BY Columns DEF MarkNeedsAttention, IdleRow, Row

\* A question of the agent suspends the unit.
LEMMA SuspendedIdle ==
    ASSUME NEW row \in Row, NEW session \in Sessions
    PROVE  Suspended(row, session) \in IdleRow
<1>1. MarkNeedsAttention(row, "question") \in IdleRow
  BY MarkNeedsAttentionIdle, Columns
<1> QED  BY <1>1 DEF Suspended, IdleRow, Row

\* _schedule_api_retry stays within api_retry_max_attempts.
LEMMA ScheduleApiRetryIdle ==
    ASSUME NEW row \in Row, NEW session \in Sessions, row.api < MaxApiRetries
    PROVE  ScheduleApiRetry(row, session) \in IdleRow
<1>1. row.api + 1 \in 0..MaxApiRetries
  BY BoundsAssumption DEF Row
<1> QED  BY <1>1, Columns DEF ScheduleApiRetry, IdleRow, Row

\* _schedule_session_retry gives the row back.
LEMMA ScheduleSessionRetryIdle ==
    ASSUME NEW row \in Row, NEW session \in Sessions
    PROVE  ScheduleSessionRetry(row, session) \in IdleRow
BY Columns DEF ScheduleSessionRetry, IdleRow, Row

\* _advance_phase: every phase but COMPLETE has a successor.
LEMMA AdvancePhaseIdle ==
    ASSUME NEW row \in Row, row.phase # "COMPLETE"
    PROVE  AdvancePhase(row) \in IdleRow
<1>1. NextPhase[row.phase] \in Phases
  BY DEF NextPhase, Phases, Row
<1> QED  BY <1>1, Columns DEF AdvancePhase, IdleRow, Row

\* The reroute of a REVIEW whose feedback is not addressed.
LEMMA RouteBackIdle ==
    ASSUME NEW row \in Row
    PROVE  RouteBackUnaddressed(row) \in IdleRow
BY Columns DEF RouteBackUnaddressed, IdleRow, Row

-----------------------------------------------------------------------------
(* Review routing: the counters stay within their limits.                    *)

\* review_nudge_count saturates at max_nudges.
LEMMA CountNudgeTyped ==
    ASSUME NEW row \in Row
    PROVE  CountNudge(row) \in Row /\ CountNudge(row).phase = row.phase
<1>1. (IF row.nudges < MaxNudges THEN row.nudges + 1 ELSE row.nudges) \in 0..MaxNudges
  BY BoundsAssumption DEF Row
<1> QED  BY <1>1 DEF CountNudge, Row

\* A reminder gives the row back to be resumed.
LEMMA NudgeIdle ==
    ASSUME NEW row \in Row, NEW session \in Sessions
    PROVE  Nudge(row, session) \in IdleRow
<1>1. CountNudge(row) \in Row
  BY CountNudgeTyped
<1> QED  BY <1>1, Columns DEF Nudge, IdleRow, Row

\* The ReviewDecision tool resets the reminders.
LEMMA ToolCalledTyped ==
    ASSUME NEW row \in Row
    PROVE  ToolCalled(row) \in Row /\ ToolCalled(row).phase = row.phase
BY Columns DEF ToolCalled, Row

\* APPROVE advances a unit that is not in COMPLETE.
LEMMA ApproveIdle ==
    ASSUME NEW row \in Row, row.phase # "COMPLETE"
    PROVE  Approve(row) \in IdleRow
<1> DEFINE reset == [row EXCEPT !.nudges = 0, !.impl = 0]
<1>1. reset \in Row /\ reset.phase # "COMPLETE"
  BY Columns DEF Row
<1> QED  BY <1>1, AdvancePhaseIdle DEF Approve

\* _apply_review_decision, FEEDBACK: the cycle counter stays below
\* max_iterations.
LEMMA FeedBackIdle ==
    ASSUME NEW row \in Row
    PROVE  FeedBack(row) \in IdleRow
<1>1. CASE MayFeedBack(row)
  <2>1. row.review + 1 \in 0..MaxIterations
    BY <1>1, BoundsAssumption DEF MayFeedBack, Row
  <2> QED  BY <1>1, <2>1, Columns DEF FeedBack, IdleRow, Row
<1>2. CASE ~MayFeedBack(row)
  BY <1>2, MarkNeedsAttentionIdle, Columns DEF FeedBack
<1> QED  BY <1>1, <1>2

\* ESCALATE hands the unit to the operator.
LEMMA EscalateIdle ==
    ASSUME NEW row \in Row, NEW session \in Sessions
    PROVE  Escalate(row, session) \in IdleRow
<1> DEFINE kept == [row EXCEPT !.nudges = 0, !.session = session]
<1>1. kept \in Row
  BY Columns DEF Row
<1> QED  BY <1>1, MarkNeedsAttentionIdle, Columns DEF Escalate

-----------------------------------------------------------------------------
(* Finalization.                                                             *)

LEMMA FinishedIdle ==
    ASSUME NEW row \in Row
    PROVE  Finished(row) \in IdleRow
BY Columns DEF Finished, IdleRow, Row

\* _handle_merge_conflict_retry: at most MaxMergeRetries returns to REBASE.
LEMMA HandleMergeConflictRetryIdle ==
    ASSUME NEW row \in Row
    PROVE  HandleMergeConflictRetry(row) \in IdleRow
<1>1. CASE MayRetryMerge(row)
  <2>1. row.merge + 1 \in 0..MaxMergeRetries
    BY <1>1, BoundsAssumption DEF MayRetryMerge, Row
  <2>2. RetryMergeByRebase(row) \in IdleRow
    BY <2>1, Columns DEF RetryMergeByRebase, IdleRow, Row
  <2> QED  BY <1>1, <2>2 DEF HandleMergeConflictRetry
<1>2. CASE ~MayRetryMerge(row)
  BY <1>2, MarkNeedsAttentionIdle, Columns DEF HandleMergeConflictRetry
<1> QED  BY <1>1, <1>2

-----------------------------------------------------------------------------
(* Rows written by others than their own run.                                *)

LEMMA UnblockedStartsNothing ==
    ASSUME NEW row \in Row, NEW done \in Chunks
    PROVE  StartsNothing(row, Unblocked(row, done))
<1>1. row.blockedBy \ {done} \in SUBSET Chunks
  BY DEF Row
<1> QED  BY <1>1, Columns DEF Unblocked, StartsNothing, Row

\* _recover_from_crash leaves no row RUNNING.
LEMMA RequeuedIdle ==
    ASSUME NEW row \in Row
    PROVE  Requeued(row) \in IdleRow
<1>1. (IF row.api > 0 THEN "waiting" ELSE row.backoff) \in Backoffs
  BY Columns DEF Row
<1> QED  BY <1>1, Columns DEF Requeued, IdleRow, Row

\* A merge completed by the recovery finishes the unit.
LEMMA RecoveredMergedStartsNothing ==
    ASSUME NEW row \in Row
    PROVE  StartsNothing(row, RecoveredMerged(row))
BY Columns DEF RecoveredMerged, StartsNothing, Row

\* The operator's answer makes the row READY.
LEMMA AnswerRowIdle ==
    ASSUME NEW row \in Row
    PROVE  AnswerRow(row) \in IdleRow
BY Columns DEF AnswerRow, IdleRow, Row

\* The operator's retry makes the row READY.
LEMMA RetryRowIdle ==
    ASSUME NEW row \in Row
    PROVE  RetryRow(row) \in IdleRow
BY Columns DEF RetryRow, IdleRow, Row

\* resolve with SERIALIZE makes the unit wait.
LEMMA SerializeAfterStartsNothing ==
    ASSUME NEW row \in Row, NEW other \in Chunks
    PROVE  StartsNothing(row, SerializeAfter(row, other))
<1>1. row.blockedBy \cup {other} \in SUBSET Chunks
  BY DEF Row
<1> QED  BY <1>1, Columns DEF SerializeAfter, StartsNothing, Row

\* resolve with INDEPENDENT releases the unit.
LEMMA ParallelizeWithStartsNothing ==
    ASSUME NEW row \in Row, NEW other \in Chunks
    PROVE  StartsNothing(row, ParallelizeWith(row, other))
<1>1. row.blockedBy \ {other} \in SUBSET Chunks
  BY DEF Row
<1> QED  BY <1>1, Columns DEF ParallelizeWith, StartsNothing, Row

-----------------------------------------------------------------------------
(* The slots and the agents. *)

NoPatchToRunning == "RUNNING" \notin PatchStatuses

SlotsInv == TypeOK /\ QueueOK /\ KeysOK
IInv     == SlotsInv /\ (NoPatchToRunning => AgentsOK)

\* The variables that neither the queue, the keys nor the agents depend on.
SideOK ==
    /\ git \in [Chunks -> Places]
    /\ feedback \in [Chunks -> BOOLEAN]
    /\ patched \subseteq Chunks
    /\ used \in [requests: Nat, crashes: Nat, limits: Nat]

\* No row of the table becomes RUNNING.
TableStartsNothing ==
    /\ db' \in [Chunks -> Row]
    /\ \A d \in Chunks : db'[d].status = "RUNNING" => db[d].status = "RUNNING"

\* No row but that of c becomes RUNNING.
OthersStartNothing(c) ==
    /\ db' \in [Chunks -> Row]
    /\ \A d \in Chunks \ {c} : db'[d].status = "RUNNING" => db[d].status = "RUNNING"

-----------------------------------------------------------------------------
(* Lemmas about the table.                                                   *)

\* A write of an idle row starts nothing, whether or not the row exists.
LEMMA WrittenIdle ==
    ASSUME TypeOK, NEW c \in Chunks, NEW row \in IdleRow, db' = Written(c, row)
    PROVE  TableStartsNothing /\ db'[c].status # "RUNNING"
BY DEF TypeOK, TableStartsNothing, Written, IdleRow, Exists

\* The same of an assignment to one row of the table.
LEMMA AssignedStartsNothing ==
    ASSUME TypeOK, NEW c \in Chunks, NEW row, StartsNothing(db[c], row),
           db' = [db EXCEPT ![c] = row]
    PROVE  TableStartsNothing
BY DEF TypeOK, TableStartsNothing, StartsNothing

\* An idle row starts nothing, whatever the row was before.
LEMMA IdleStartsNothing ==
    ASSUME NEW before, NEW row \in IdleRow
    PROVE  StartsNothing(before, row)
BY DEF IdleRow, StartsNothing

\* unblock_dependents over the whole table.
LEMMA UnblockDependentsStartsNothing ==
    ASSUME NEW table \in [Chunks -> Row], NEW c \in Chunks
    PROVE  /\ UnblockDependents(table, c) \in [Chunks -> Row]
           /\ \A d \in Chunks : UnblockDependents(table, c)[d].status = "RUNNING"
                                    => table[d].status = "RUNNING"
<1>1. \A d \in Chunks : StartsNothing(table[d], Unblocked(table[d], c))
  BY UnblockedStartsNothing
<1> QED  BY <1>1 DEF UnblockDependents, StartsNothing

-----------------------------------------------------------------------------
(* Three ways a step can preserve the invariant.                             *)

\* A step of the API, of the clock or of the recovery writes rows only.
LEMMA RowsStep ==
    ASSUME IInv, db' \in [Chunks -> Row], NoPatchToRunning => TableStartsNothing,
           SideOK', UNCHANGED <<task, running, tick, daemon>>
    PROVE  IInv'
<1> USE DEF IInv, SlotsInv
<1>1. TypeOK'
  BY DEF TypeOK, SideOK
<1>2. QueueOK'
  BY DEF QueueOK
<1>3. KeysOK'
  BY DEF KeysOK, Live
<1>4. AgentsOK /\ NoPatchToRunning => AgentsOK'
  BY DEF AgentsOK, WithStatus, Agents, TableStartsNothing
<1> QED  BY <1>1, <1>2, <1>3, <1>4 DEF NoPatchToRunning

\* A step of the coroutine of c moves that coroutine and leaves the row of c
\* RUNNING only when an agent is, or is about to be, at work.
LEMMA TaskStep ==
    ASSUME IInv, NEW c \in Chunks, NEW t \in Task, Live(c),
           task' = [task EXCEPT ![c] = t],
           OthersStartNothing(c),
           db'[c].status = "RUNNING" => t.at \in {"starting", "agent", "resume"},
           SideOK', UNCHANGED <<running, tick, daemon>>
    PROVE  IInv'
<1> USE DEF IInv, SlotsInv
<1>1. TypeOK'
  BY DEF TypeOK, SideOK, OthersStartNothing
<1>2. QueueOK'
  BY DEF QueueOK
<1>3. KeysOK'
  BY DEF KeysOK, Live, TypeOK
<1>4. AgentsOK => AgentsOK'
  BY DEF AgentsOK, WithStatus, Agents, OthersStartNothing, TypeOK
<1> QED  BY <1>1, <1>2, <1>3, <1>4 DEF NoPatchToRunning

\* A task that leaves is a task.
LEMMA LeavingTyped ==
    ASSUME NEW s \in TaskStates
    PROVE  Leaving(s) \in Task /\ Leaving(s).at = s
<1>1. NoRow \in Row /\ "GOAL" \in Phases
  BY NoRowIdle DEF IdleRow, Phases
<1> QED  BY <1>1 DEF Leaving, NoTask, Task

\* Settle gives the row back and leaves.
LEMMA SettleStep ==
    ASSUME IInv, NEW c \in Chunks, NEW row \in IdleRow, Live(c),
           Settle(c, row), SideOK', UNCHANGED <<running, tick, daemon>>
    PROVE  IInv'
<1>1. TableStartsNothing /\ db'[c].status # "RUNNING"
  BY WrittenIdle DEF Settle, IInv, SlotsInv
<1>2. "exit" \in TaskStates
  BY DEF TaskStates
<1>3. Leaving("exit") \in Task
  BY <1>2, LeavingTyped
<1> QED
  BY <1>1, <1>3, TaskStep DEF Settle, SetTask, TableStartsNothing, OthersStartNothing
-----------------------------------------------------------------------------
(* The API.                                                                  *)

\* inject_endpoint creates READY and BLOCKED rows.
LEMMA InjectStep ==
    ASSUME IInv, NEW c \in Chunks, Inject(c)
    PROVE  IInv'
<1> DEFINE status == IF ActiveBlockers(c) = {} THEN "READY" ELSE "BLOCKED"
<1>1. ActiveBlockers(c) \in SUBSET Chunks
  BY SchedulerAssumption DEF ActiveBlockers
<1>2. PICK phase \in StartPhases :
        db' = [db EXCEPT ![c] = NewRow(status, phase, ActiveBlockers(c),
                                       c \in ExplicitChunks, c \in RetainedChunks)]
  BY DEF Inject
<1> DEFINE row == NewRow(status, phase, ActiveBlockers(c),
                         c \in ExplicitChunks, c \in RetainedChunks)
<1>3. phase \in Phases /\ status \in Statuses
  BY SchedulerAssumption, Columns
<1>f. (c \in ExplicitChunks) \in BOOLEAN /\ (c \in RetainedChunks) \in BOOLEAN
  OBVIOUS
<1>4. row \in Row
  BY <1>1, <1>3, <1>f, NewRowTyped, Zenon
<1>5. row \in IdleRow
  <2>1. row.status = status
    BY DEF NewRow
  <2> QED  BY <1>4, <2>1 DEF IdleRow
<1>6. TableStartsNothing
  BY <1>2, <1>5, AssignedStartsNothing, IdleStartsNothing DEF IInv, SlotsInv
<1> QED
  BY <1>6, RowsStep DEF Inject, IInv, SlotsInv, TypeOK, SideOK, TableStartsNothing

\* The other requests write one row: answer, retry and resolve start nothing,
\* delete removes the row, and a PATCH starts nothing unless it says RUNNING.
LEMMA RequestStep ==
    ASSUME IInv, NEW c \in Chunks,
           \/ Answer(c) \/ Retry(c) \/ PatchRetain(c) \/ Delete(c)
           \/ \E other \in Chunks \ {c} : Resolve(c, other)
           \/ \E s \in PatchStatuses : PatchStatus(c, s)
    PROVE  IInv'
<1>0. TypeOK /\ db[c] \in Row
  BY DEF IInv, SlotsInv, TypeOK
<1>u. ASSUME NEW kind, Request(kind, c)
      PROVE  /\ UNCHANGED <<task, running, tick, daemon>>
             /\ used' \in [requests: Nat, crashes: Nat, limits: Nat]
  BY <1>u, <1>0 DEF Request, TypeOK
<1>1. CASE Answer(c)
  <2>1. TableStartsNothing
    BY <1>0, <1>1, AnswerRowIdle, IdleStartsNothing, AssignedStartsNothing DEF Answer
  <2> QED  BY <1>0, <1>1, <1>u, <2>1, RowsStep DEF Answer, TypeOK, SideOK, TableStartsNothing
<1>2. CASE Retry(c)
  <2>1. TableStartsNothing
    BY <1>0, <1>2, RetryRowIdle, IdleStartsNothing, AssignedStartsNothing DEF Retry
  <2> QED  BY <1>0, <1>2, <1>u, <2>1, RowsStep DEF Retry, TypeOK, SideOK, TableStartsNothing
<1>3. CASE PatchRetain(c)
  <2>1. StartsNothing(db[c], [db[c] EXCEPT !.retain = TRUE])
    BY <1>0 DEF StartsNothing, Row
  <2>2. db' = [db EXCEPT ![c] = [db[c] EXCEPT !.retain = TRUE]]
    BY <1>0, <1>3 DEF PatchRetain, TypeOK
  <2>3. TableStartsNothing
    BY <1>0, <2>1, <2>2, AssignedStartsNothing
  <2> QED  BY <1>0, <1>3, <1>u, <2>3, RowsStep DEF PatchRetain, TypeOK, SideOK, TableStartsNothing
<1>4. CASE Delete(c)
  <2>1. TableStartsNothing
    BY <1>0, <1>4, NoRowIdle, IdleStartsNothing, AssignedStartsNothing DEF Delete
  <2>2. git' \in [Chunks -> Places] /\ feedback' \in [Chunks -> BOOLEAN]
    BY <1>0, <1>4 DEF Delete, TypeOK, Places
  <2> QED  BY <1>0, <1>4, <1>u, <2>1, <2>2, RowsStep DEF Delete, TypeOK, SideOK, TableStartsNothing
<1>5. ASSUME NEW other \in Chunks \ {c}, Resolve(c, other)
      PROVE  IInv'
  <2>1. TableStartsNothing
    BY <1>0, <1>5, SerializeAfterStartsNothing, ParallelizeWithStartsNothing,
       AssignedStartsNothing DEF Resolve
  <2> QED  BY <1>0, <1>5, <1>u, <2>1, RowsStep DEF Resolve, TypeOK, SideOK, TableStartsNothing
<1>6. ASSUME NEW s \in PatchStatuses, PatchStatus(c, s)
      PROVE  IInv'
  <2> DEFINE row == [db[c] EXCEPT !.status = s]
  <2>1. s \in Statuses
    BY SchedulerAssumption
  <2>2. row \in Row /\ row.status = s
    BY <1>0, <2>1 DEF Row
  <2>3. db' = [db EXCEPT ![c] = row]
    BY <1>0, <1>6 DEF PatchStatus, TypeOK
  <2>4. db' \in [Chunks -> Row]
    BY <1>0, <2>2, <2>3 DEF TypeOK
  <2>5. ASSUME NoPatchToRunning PROVE TableStartsNothing
    <3>1. StartsNothing(db[c], row)
      BY <2>2, <2>5 DEF StartsNothing, NoPatchToRunning
    <3> QED  BY <1>0, <2>3, <3>1, AssignedStartsNothing
  <2>6. patched' \subseteq Chunks
    BY <1>0, <1>6 DEF PatchStatus, TypeOK
  <2> QED  BY <1>0, <1>6, <1>u, <2>4, <2>5, <2>6, RowsStep DEF PatchStatus, TypeOK, SideOK
<1> QED  BY <1>1, <1>2, <1>3, <1>4, <1>5, <1>6

\* The end of a PATCH to DONE unblocks dependents.
LEMMA UnblockAfterPatchStep ==
    ASSUME IInv, NEW c \in Chunks, UnblockAfterPatch(c)
    PROVE  IInv'
<1>1. TypeOK
  BY DEF IInv, SlotsInv
<1>2. TableStartsNothing
  BY <1>1, UnblockDependentsStartsNothing DEF UnblockAfterPatch, TypeOK, TableStartsNothing
<1> QED  BY <1>1, <1>2, RowsStep DEF UnblockAfterPatch, TypeOK, SideOK, TableStartsNothing

\* The clock moves a backoff and no status.
LEMMA BackoffElapsesStep ==
    ASSUME IInv, NEW c \in Chunks, BackoffElapses(c)
    PROVE  IInv'
<1> DEFINE row == [db[c] EXCEPT !.backoff = "elapsed"]
<1>1. TypeOK /\ db[c] \in Row
  BY DEF IInv, SlotsInv, TypeOK
<1>2. "elapsed" \in Backoffs
  BY DEF Backoffs
<1>3. StartsNothing(db[c], row)
  BY <1>1, <1>2 DEF StartsNothing, Row
<1>4. db' = [db EXCEPT ![c] = row]
  BY <1>1 DEF BackoffElapses, TypeOK
<1>5. TableStartsNothing
  BY <1>1, <1>3, <1>4, AssignedStartsNothing
<1> QED  BY <1>1, <1>5, RowsStep DEF BackoffElapses, TypeOK, SideOK, TableStartsNothing
-----------------------------------------------------------------------------
(* _run_work_unit, up to the agent.                                          *)

\* A task writes its own row only, and that is no write when the row is gone.
LEMMA WrittenByTask ==
    ASSUME TypeOK, NEW c \in Chunks, NEW row \in Row, db' = Written(c, row)
    PROVE  /\ OthersStartNothing(c)
           /\ ~Exists(db[c]) => db'[c].status # "RUNNING"
BY DEF TypeOK, OthersStartNothing, Written, Exists

\* The TOCTOU guard, the creation of the worktree and the launch.
LEMMA StartingStep ==
    ASSUME IInv, NEW c \in Chunks, Starting(c)
    PROVE  IInv'
<1>0. /\ TypeOK /\ SideOK
      /\ db[c] \in Row /\ task[c] \in Task /\ task[c].row \in Row
  BY DEF IInv, SlotsInv, TypeOK, SideOK, Task
<1>1. CASE StartSkipped(c)
  <2>1. Live(c) /\ task[c].at = "spawned"
    BY <1>1 DEF StartSkipped, TaskAt, Live
  <2>2. NoTask \in Task
    BY NoRowIdle DEF NoTask, Task, TaskStates, Phases, IdleRow
  <2>3. OthersStartNothing(c) /\ SideOK'
    BY <1>0, <1>1 DEF StartSkipped, OthersStartNothing, TypeOK, SideOK
  <2>4. NoPatchToRunning => db'[c].status # "RUNNING"
    BY <1>1, <2>1 DEF IInv, AgentsOK, WithStatus, Agents, StartSkipped, TaskAt, Free, Up
  <2>5. SlotsInv'
    BY <1>0, <1>1, <2>1, <2>2 DEF IInv, SlotsInv, StartSkipped, SetTask,
       TypeOK, QueueOK, KeysOK, Live, NoTask
  <2>6. AgentsOK /\ NoPatchToRunning => AgentsOK'
    BY <1>0, <1>1, <2>1, <2>4 DEF StartSkipped, SetTask, AgentsOK, WithStatus, Agents,
       NoTask, TypeOK
  <2> QED  BY <2>5, <2>6 DEF IInv, NoPatchToRunning
<1>2. CASE Start(c)
  <2> DEFINE t == [task[c] EXCEPT !.at = "starting", !.row = Dispatched(db[c])]
  <2>1. Dispatched(db[c]) \in Row
    BY <1>0, DispatchedTyped
  <2>2. t \in Task /\ t.at = "starting"
    BY <1>0, <2>1 DEF Task, TaskStates
  <2>3. Live(c) /\ OthersStartNothing(c)
    BY <1>0, <1>2, <2>1 DEF Start, TaskAt, Live, OthersStartNothing, TypeOK
  <2>4. SideOK'
    BY <1>0, <1>2 DEF Start, SideOK, Places
  <2> QED  BY <1>2, <2>2, <2>3, <2>4, TaskStep DEF Start, SetTask
<1>3. CASE StartFails(c)
  <2>1. MarkNeedsAttention(db[c], "other") \in IdleRow /\ Live(c)
    BY <1>0, <1>3, MarkNeedsAttentionIdle, Columns DEF StartFails, TaskAt, Live
  <2>2. SideOK'
    BY <1>0, <1>3 DEF StartFails, SideOK, Places
  <2> QED  BY <1>3, <2>1, <2>2, SettleStep DEF StartFails
<1>4. CASE Reroute(c)
  <2>1. RouteBackUnaddressed(task[c].row) \in IdleRow /\ Live(c)
    BY <1>0, <1>4, RouteBackIdle DEF Reroute, TaskAt, Live
  <2> QED  BY <1>0, <1>4, <2>1, SettleStep DEF Reroute, SideOK
<1>5. CASE StopIterating(c)
  <2>1. MarkNeedsAttention(task[c].row, "iterations") \in IdleRow /\ Live(c)
    BY <1>0, <1>5, MarkNeedsAttentionIdle, Columns DEF StopIterating, TaskAt, Live
  <2> QED  BY <1>0, <1>5, <2>1, SettleStep DEF StopIterating, SideOK
<1>6. CASE Launch(c)
  <2>0. Live(c) /\ SideOK' /\ UNCHANGED <<running, tick, daemon>>
    BY <1>0, <1>6 DEF Launch, TaskAt, Live, SideOK
  <2>1. CASE task[c].phase = "IMPLEMENT"
    <3> DEFINE counted == [task[c].row EXCEPT !.impl = @ + 1]
               t == IF Exists(db[c])
                    THEN [task[c] EXCEPT !.at = "agent", !.row = counted]
                    ELSE Leaving("exit")
    <3>1. task[c].row.impl + 1 \in 0..(MaxIterations + 1)
      BY <1>0, <1>6, <2>1, BoundsAssumption DEF Launch, Row
    <3>2. counted \in Row
      BY <1>0, <3>1 DEF Row
    <3>3. db' = Written(c, counted) /\ task' = [task EXCEPT ![c] = t]
      BY <1>6, <2>1 DEF Launch, SetTask
    <3>4. OthersStartNothing(c) /\ (~Exists(db[c]) => db'[c].status # "RUNNING")
      BY <1>0, <3>2, <3>3, WrittenByTask
    <3>5. t \in Task /\ (Exists(db[c]) => t.at = "agent")
      <4>1. CASE Exists(db[c])
        BY <1>0, <3>2, <4>1 DEF Task, TaskStates
      <4>2. CASE ~Exists(db[c])
        BY <4>2, LeavingTyped DEF TaskStates
      <4> QED  BY <4>1, <4>2
    <3> HIDE DEF t, counted
    <3> QED  BY <2>0, <3>3, <3>4, <3>5, TaskStep
  <2>2. CASE task[c].phase # "IMPLEMENT"
    <3> DEFINE t == [task[c] EXCEPT !.at = "agent"]
    <3>1. t \in Task /\ t.at = "agent"
      BY <1>0 DEF Task, TaskStates
    <3>2. OthersStartNothing(c) /\ task' = [task EXCEPT ![c] = t]
      BY <1>0, <1>6, <2>2 DEF Launch, SetTask, OthersStartNothing, TypeOK
    <3> QED  BY <2>0, <3>1, <3>2, TaskStep
  <2> QED  BY <2>1, <2>2
<1> QED  BY <1>1, <1>2, <1>3, <1>4, <1>5, <1>6 DEF Starting

-----------------------------------------------------------------------------
(* Results of agents.                                                        *)

\* What a run knows when its agent returns.
LEMMA RunTyped ==
    ASSUME TypeOK, NEW c \in Chunks
    PROVE  /\ InMemory(c) \in Row
           /\ After(c) \in Row
           /\ Session(c) \in Sessions
           /\ ErrorSessions(c) \subseteq Sessions
<1>1. task[c].row \in Row /\ task[c].phase \in Phases
  BY DEF TypeOK, Task
<1>2. InMemory(c) \in Row
  BY <1>1, AnswerDeliveredTyped DEF InMemory
<1>3. Session(c) \in Sessions
  BY <1>1, SessionAfterTyped DEF Session
<1>4. After(c) \in Row
  BY <1>2, <1>3 DEF After, Row
<1>5. ErrorSessions(c) \subseteq Sessions
  BY <1>3, Columns DEF ErrorSessions
<1> QED  BY <1>2, <1>3, <1>4, <1>5

\* The rows a review decision is applied to.
LEMMA DecisionRowsTyped ==
    ASSUME TypeOK, NEW c \in Chunks, NEW row \in DecisionRows(c)
    PROVE  row \in Row /\ row.phase = After(c).phase
<1>1. After(c) \in Row
  BY RunTyped
<1> QED  BY <1>1, ToolCalledTyped, CountNudgeTyped DEF DecisionRows

\* Every result but an unfinished COMPLETE and a successful finalization gives
\* the row back.
LEMMA ResultStep ==
    ASSUME IInv, NEW c \in Chunks,
           \/ AgentSuspends(c) \/ AgentHitsApiError(c) \/ AgentHitsSessionLimit(c)
           \/ AgentFails(c) \/ PhaseCompletes(c) \/ ReviewNudged(c)
           \/ ReviewUndecided(c) \/ ReviewApproves(c) \/ ReviewFeedsBack(c)
           \/ ReviewEscalates(c) \/ FinalizeConflicts(c) \/ FinalizeFails(c)
    PROVE  IInv'
<1>0. TypeOK /\ SideOK
  BY DEF IInv, SlotsInv, TypeOK, SideOK
<1>r. /\ InMemory(c) \in Row /\ After(c) \in Row
      /\ Session(c) \in Sessions /\ ErrorSessions(c) \subseteq Sessions
  BY <1>0, RunTyped
<1>l. AtWork(c) => Live(c)
  BY DEF AtWork, TaskAt, Live
<1>1. CASE AgentSuspends(c)
  <2>1. Suspended(After(c), Session(c)) \in IdleRow
    BY <1>r, SuspendedIdle
  <2> QED  BY <1>0, <1>l, <1>1, <2>1, SettleStep DEF AgentSuspends, SideOK
<1>2. CASE AgentHitsApiError(c)
  <2>1. PICK session \in ErrorSessions(c) :
          Settle(c, IF After(c).api < MaxApiRetries
                    THEN ScheduleApiRetry(After(c), session)
                    ELSE MarkNeedsAttention(After(c), "api"))
    BY <1>2 DEF AgentHitsApiError
  <2>2. (IF After(c).api < MaxApiRetries
         THEN ScheduleApiRetry(After(c), session)
         ELSE MarkNeedsAttention(After(c), "api")) \in IdleRow
    BY <1>r, ScheduleApiRetryIdle, MarkNeedsAttentionIdle, Columns
  <2> QED  BY <1>0, <1>l, <1>2, <2>1, <2>2, SettleStep DEF AgentHitsApiError, SideOK
<1>3. CASE AgentHitsSessionLimit(c)
  <2>1. \A session \in ErrorSessions(c) : ScheduleSessionRetry(After(c), session) \in IdleRow
    BY <1>r, ScheduleSessionRetryIdle
  <2>2. SideOK'
    BY <1>0, <1>3 DEF AgentHitsSessionLimit, SideOK
  <2> QED  BY <1>l, <1>3, <2>1, <2>2, SettleStep DEF AgentHitsSessionLimit
<1>4. CASE AgentFails(c)
  <2>0. task[c].row \in Row
    BY <1>0 DEF TypeOK, Task
  <2>1. \A row \in {After(c), InMemory(c), task[c].row} : MarkNeedsAttention(row, "other") \in IdleRow
    BY <1>r, <2>0, MarkNeedsAttentionIdle, Columns
  <2> QED  BY <1>0, <1>l, <1>4, <2>1, SettleStep DEF AgentFails, SideOK
<1>5. CASE PhaseCompletes(c)
  <2>1. AdvancePhase(After(c)) \in IdleRow
    BY <1>r, <1>5, AdvancePhaseIdle DEF PhaseCompletes
  <2>2. SideOK'
    BY <1>0, <1>5 DEF PhaseCompletes, SideOK
  <2> QED  BY <1>l, <1>5, <2>1, <2>2, SettleStep DEF PhaseCompletes
<1>6. CASE ReviewNudged(c)
  <2>1. Nudge(After(c), Session(c)) \in IdleRow
    BY <1>r, NudgeIdle
  <2> QED  BY <1>0, <1>l, <1>6, <2>1, SettleStep DEF ReviewNudged, Reviewed, SideOK
<1>7. CASE ReviewUndecided(c)
  <2>1. MarkNeedsAttention(CountNudge(After(c)), "other") \in IdleRow
    BY <1>r, CountNudgeTyped, MarkNeedsAttentionIdle, Columns
  <2> QED  BY <1>0, <1>l, <1>7, <2>1, SettleStep DEF ReviewUndecided, Reviewed, SideOK
<1>8. CASE ReviewApproves(c)
  <2>1. \A row \in DecisionRows(c) : Approve(row) \in IdleRow
    BY <1>0, <1>8, DecisionRowsTyped, ApproveIdle DEF ReviewApproves, Reviewed
  <2> QED  BY <1>0, <1>l, <1>8, <2>1, SettleStep DEF ReviewApproves, Reviewed, SideOK
<1>9. CASE ReviewFeedsBack(c)
  <2>1. \A row \in DecisionRows(c) : FeedBack(row) \in IdleRow
    BY <1>0, DecisionRowsTyped, FeedBackIdle
  <2>2. feedback' \in [Chunks -> BOOLEAN]
    BY <1>0, <1>9 DEF ReviewFeedsBack, SideOK, MayFeedBack
  <2> QED  BY <1>0, <1>l, <1>9, <2>1, <2>2, SettleStep DEF ReviewFeedsBack, Reviewed, SideOK
<1>10. CASE ReviewEscalates(c)
  <2>1. \A row \in DecisionRows(c) : Escalate(row, Session(c)) \in IdleRow
    BY <1>0, <1>r, DecisionRowsTyped, EscalateIdle
  <2> QED  BY <1>0, <1>l, <1>10, <2>1, SettleStep DEF ReviewEscalates, Reviewed, SideOK
<1>11. CASE FinalizeConflicts(c)
  <2>1. /\ HandleMergeConflictRetry(After(c)) \in IdleRow
        /\ MarkNeedsAttention(After(c), "conflict") \in IdleRow
    BY <1>r, HandleMergeConflictRetryIdle, MarkNeedsAttentionIdle, Columns
  <2>2. SideOK'
    BY <1>0, <1>11 DEF FinalizeConflicts, SideOK, Places
  <2> QED
    BY <1>l, <1>11, <2>1, <2>2, SettleStep DEF FinalizeConflicts, Verified, Completing
<1>12. CASE FinalizeFails(c)
  <2>1. MarkNeedsAttention(After(c), "other") \in IdleRow
    BY <1>r, MarkNeedsAttentionIdle, Columns
  <2>2. SideOK'
    BY <1>0, <1>12 DEF FinalizeFails, SideOK, Places
  <2> QED  BY <1>l, <1>12, <2>1, <2>2, SettleStep DEF FinalizeFails, Verified, Completing
<1> QED
  BY <1>1, <1>2, <1>3, <1>4, <1>5, <1>6, <1>7, <1>8, <1>9, <1>10, <1>11, <1>12

\* GOAL.md still says IMPLEMENTING: the agent is resumed with its row RUNNING,
\* or the operator is called.
LEMMA StillImplementingStep ==
    ASSUME IInv, NEW c \in Chunks, StillImplementing(c)
    PROVE  IInv'
<1>0. /\ TypeOK /\ After(c) \in Row /\ task[c] \in Task
      /\ Live(c) /\ SideOK' /\ UNCHANGED <<running, tick, daemon>>
  BY RunTyped DEF IInv, SlotsInv, TypeOK, SideOK, StillImplementing, Completing, AtWork,
     TaskAt, Live
<1>1. CASE After(c).completion >= MaxCompletionRetries
  <2>1. MarkNeedsAttention(After(c), "other") \in IdleRow
    BY <1>0, MarkNeedsAttentionIdle, Columns
  <2> QED  BY <1>0, <1>1, <2>1, SettleStep DEF StillImplementing
<1>2. CASE ~(After(c).completion >= MaxCompletionRetries)
  <2> DEFINE again == [After(c) EXCEPT !.completion = @ + 1]
             t == IF Exists(db[c])
                  THEN [task[c] EXCEPT !.at = "resume", !.row = again]
                  ELSE Leaving("exit")
  <2>1. After(c).completion + 1 \in 0..MaxCompletionRetries
    BY <1>0, <1>2, BoundsAssumption DEF Row
  <2>2. again \in Row
    BY <1>0, <2>1 DEF Row
  <2>3. db' = Written(c, again) /\ task' = [task EXCEPT ![c] = t]
    BY <1>2 DEF StillImplementing, SetTask
  <2>4. OthersStartNothing(c) /\ (~Exists(db[c]) => db'[c].status # "RUNNING")
    BY <1>0, <2>2, <2>3, WrittenByTask
  <2>5. t \in Task /\ (Exists(db[c]) => t.at = "resume")
    <3>1. CASE Exists(db[c])
      BY <1>0, <2>2, <3>1 DEF Task, TaskStates
    <3>2. CASE ~Exists(db[c])
      BY <3>2, LeavingTyped DEF TaskStates
    <3> QED  BY <3>1, <3>2
  <2> HIDE DEF t, again
  <2> QED  BY <1>0, <2>3, <2>4, <2>5, TaskStep
<1> QED  BY <1>1, <1>2

\* The unit is finished: its row becomes DONE, its task goes on to announce it.
LEMMA FinalizedStep ==
    ASSUME IInv, NEW c \in Chunks, FinalizeRetained(c) \/ FinalizeMerged(c)
    PROVE  IInv'
<1> DEFINE t == Leaving(IF Exists(db[c]) THEN "announce" ELSE "exit")
<1>1. /\ TypeOK /\ After(c) \in Row /\ Live(c) /\ UNCHANGED <<running, tick, daemon>>
      /\ WriteDone(c)
  BY RunTyped DEF IInv, SlotsInv, FinalizeRetained, FinalizeMerged, Verified, Completing,
     AtWork, TaskAt, Live
<1>2. SideOK'
  BY <1>1 DEF TypeOK, SideOK, FinalizeRetained, FinalizeMerged, Places
<1>3. TableStartsNothing /\ db'[c].status # "RUNNING"
  BY <1>1, FinishedIdle, WrittenIdle DEF WriteDone
<1>4. t \in Task
  BY LeavingTyped DEF TaskStates
<1>5. task' = [task EXCEPT ![c] = t]
  BY <1>1 DEF WriteDone, SetTask
<1> HIDE DEF t
<1> QED
  BY <1>1, <1>2, <1>3, <1>4, <1>5, TaskStep DEF TableStartsNothing, OthersStartNothing

\* Whatever the agent returns, the invariant is preserved.
LEMMA AgentReturnsStep ==
    ASSUME IInv, NEW c \in Chunks, AgentReturns(c)
    PROVE  IInv'
BY ResultStep, StillImplementingStep, FinalizedStep DEF AgentReturns

-----------------------------------------------------------------------------
(* The end of a task.                                                        *)

\* After the DONE broadcast the dependents are unblocked.
LEMMA AnnounceDoneStep ==
    ASSUME IInv, NEW c \in Chunks, AnnounceDone(c)
    PROVE  IInv'
<1>1. TypeOK /\ Live(c) /\ task[c].at = "announce"
  BY DEF IInv, SlotsInv, AnnounceDone, TaskAt, Live
<1>2. TableStartsNothing
  BY <1>1, UnblockDependentsStartsNothing DEF AnnounceDone, TypeOK, TableStartsNothing
<1>3. Leaving("exit") \in Task /\ Leaving("exit").at = "exit"
  BY LeavingTyped DEF TaskStates
<1>4. SideOK' /\ UNCHANGED <<running, tick, daemon>>
  BY <1>1 DEF AnnounceDone, TypeOK, SideOK
<1>5. NoPatchToRunning => db[c].status # "RUNNING"
  BY <1>1 DEF IInv, AgentsOK, WithStatus, Agents, AnnounceDone, TaskAt, Free, Up
<1>6. SlotsInv'
  BY <1>1, <1>2, <1>3, <1>4 DEF IInv, SlotsInv, AnnounceDone, SetTask, TypeOK, SideOK,
     TableStartsNothing, QueueOK, KeysOK, Live
<1>7. AgentsOK /\ NoPatchToRunning => AgentsOK'
  BY <1>1, <1>2, <1>3, <1>4, <1>5 DEF AnnounceDone, SetTask, AgentsOK, WithStatus, Agents,
     TableStartsNothing, TypeOK
<1> QED  BY <1>6, <1>7 DEF IInv, NoPatchToRunning

\* The key is removed together with the task.
LEMMA ExitStep ==
    ASSUME IInv, NEW c \in Chunks, Exit(c)
    PROVE  IInv'
<1>1. TypeOK /\ task[c].at = "exit" /\ NoTask \in Task
  BY NoRowIdle DEF IInv, SlotsInv, Exit, TaskAt, NoTask, Task, TaskStates, Phases, IdleRow
<1>2. TypeOK'
  BY <1>1 DEF Exit, SetTask, TypeOK
<1>3. QueueOK'
  BY DEF Exit, IInv, SlotsInv, QueueOK
<1>4. KeysOK'
  <2>1. IsFiniteSet(running)
    BY <1>1, SchedulerAssumption, FS_Subset DEF TypeOK
  <2>2. /\ Cardinality(running \ {c}) <= Cardinality(running)
        /\ Cardinality(running \ {c}) \in Nat /\ Cardinality(running) \in Nat
    BY <2>1, FS_Subset, FS_CardinalityType, running \ {c} \subseteq running
  <2>3. tick.queue \in Seq(Chunks)
    BY <1>1 DEF TypeOK, Tick
  <2>4. \A d \in Chunks : Live(d)' => d \in running'
    BY <1>1 DEF Exit, SetTask, IInv, SlotsInv, KeysOK, Live, NoTask, TypeOK
  <2>5. Cardinality(running') + Len(tick'.queue) <= MaxAgents
    BY <2>2, <2>3, SchedulerAssumption DEF Exit, IInv, SlotsInv, KeysOK
  <2> QED  BY <2>4, <2>5 DEF KeysOK
<1>5. AgentsOK => AgentsOK'
  BY <1>1 DEF Exit, SetTask, AgentsOK, WithStatus, Agents, NoTask, TypeOK
<1> QED  BY <1>2, <1>3, <1>4, <1>5 DEF IInv, SlotsInv, NoPatchToRunning

-----------------------------------------------------------------------------
(* The dispatch tick.                                                        *)

\* What the queue of a tick says about it (QueueOK of the next state).
GoodTick(t) ==
    /\ t \in Tick
    /\ t.at # "idle" =>
         /\ t.queue # <<>>
         /\ \A i \in DOMAIN t.queue : t.snap[t.queue[i]].status = "READY"

\* A tick that is not idle stands at a chunk it read as READY: its row, as the
\* tick would write it, is idle.
LEMMA UnitIdle ==
    ASSUME IInv, tick.at # "idle"
    PROVE  /\ Unit \in Chunks /\ UnitRow \in IdleRow /\ Asked \in IdleRow
           /\ tick.queue \in Seq(Chunks) /\ Len(tick.queue) \in Nat \ {0}
<1>1. tick \in Tick /\ tick.queue # <<>>
  BY DEF IInv, SlotsInv, TypeOK, QueueOK
<1>2. /\ tick.queue \in Seq(Chunks) /\ Len(tick.queue) \in Nat \ {0}
      /\ tick.snap \in [Chunks -> Row]
  BY <1>1 DEF Tick
<1>3. Unit = tick.queue[1] /\ 1 \in DOMAIN tick.queue /\ Unit \in Chunks
  BY <1>2 DEF Unit
<1>4. tick.snap[Unit] \in Row /\ tick.snap[Unit].status = "READY"
  BY <1>2, <1>3 DEF IInv, SlotsInv, QueueOK
<1>5. UnitRow \in IdleRow
  BY <1>4, Columns DEF UnitRow, IdleRow, Row
<1>6. Asked \in IdleRow
  BY <1>5, MarkNeedsAttentionIdle, Columns DEF Asked, IdleRow
<1> QED  BY <1>2, <1>3, <1>5, <1>6

\* No tick is going on.
LEMMA IdleTickGood == GoodTick(IdleTick) /\ Len(IdleTick.queue) = 0
<1>1. [c \in Chunks |-> NoRow] \in [Chunks -> Row]
  BY NoRowIdle DEF IdleRow
<1>2. <<>> \in Seq(Chunks) /\ Len(<<>>) = 0
  OBVIOUS
<1> QED  BY <1>1, <1>2 DEF GoodTick, IdleTick, Tick

\* The rest of a queue of two or more.
LEMMA TailFacts ==
    ASSUME NEW q \in Seq(Chunks), Len(q) \in Nat \ {0}, Len(q) # 1
    PROVE  /\ Tail(q) \in Seq(Chunks) /\ Len(Tail(q)) = Len(q) - 1 /\ Tail(q) # <<>>
           /\ \A i \in DOMAIN Tail(q) : i + 1 \in DOMAIN q /\ Tail(q)[i] = q[i + 1]
<1>1. q # <<>>
  OBVIOUS
<1>2. Tail(q) \in Seq(Chunks) /\ Len(Tail(q)) = Len(q) - 1
  BY <1>1
<1>3. \A i \in 1..Len(Tail(q)) : Tail(q)[i] = q[i + 1]
  BY <1>1, <1>2
<1>4. Tail(q) # <<>>
  <2>1. Len(Tail(q)) # 0
    BY <1>2
  <2>2. Len(<<>>) = 0
    OBVIOUS
  <2> QED  BY <2>1, <2>2, Zenon
<1>5. DOMAIN Tail(q) = 1..Len(Tail(q)) /\ DOMAIN q = 1..Len(q)
  BY <1>2
<1>6. \A i \in 1..Len(Tail(q)) : i + 1 \in 1..Len(q)
  BY <1>2
<1> QED  BY <1>2, <1>3, <1>4, <1>5, <1>6

\* Going on with the next unit shortens the queue.
LEMMA NextUnitGood ==
    ASSUME IInv, tick.at # "idle"
    PROVE  GoodTick(NextUnit) /\ Len(NextUnit.queue) + 1 <= Len(tick.queue)
<1>1. tick \in Tick
  BY DEF IInv, SlotsInv, TypeOK
<1>2. tick.queue \in Seq(Chunks) /\ Len(tick.queue) \in Nat \ {0}
  BY UnitIdle
<1>3. CASE Len(tick.queue) = 1
  BY <1>3, IdleTickGood DEF NextUnit
<1>4. CASE Len(tick.queue) # 1
  <2> DEFINE rest == Tail(tick.queue)
             t == [tick EXCEPT !.at = "unit", !.queue = rest, !.blockers = {}]
  <2>1. /\ rest \in Seq(Chunks) /\ Len(rest) = Len(tick.queue) - 1 /\ rest # <<>>
        /\ \A i \in DOMAIN rest : i + 1 \in DOMAIN tick.queue /\ rest[i] = tick.queue[i + 1]
    BY <1>2, <1>4, TailFacts
  <2>2. t \in Tick /\ t.queue = rest /\ t.snap = tick.snap /\ NextUnit = t
    BY <1>1, <1>4, <2>1 DEF Tick, NextUnit
  <2>3. \A i \in DOMAIN tick.queue : tick.snap[tick.queue[i]].status = "READY"
    BY DEF IInv, SlotsInv, QueueOK
  <2> HIDE DEF t, rest
  <2>4. \A i \in DOMAIN rest : tick.snap[rest[i]].status = "READY"
    BY <2>1, <2>3
  <2>5. Len(rest) + 1 <= Len(tick.queue)
    BY <1>2, <2>1
  <2> QED  BY <2>1, <2>2, <2>4, <2>5 DEF GoodTick
<1> QED  BY <1>3, <1>4

\* A tick that dispatches nobody: it may write rows, none of them RUNNING, and
\* its queue does not grow.
LEMMA TickRowsStep ==
    ASSUME IInv, GoodTick(tick'), Len(tick'.queue) <= Len(tick.queue),
           TableStartsNothing, SideOK', UNCHANGED <<task, running, daemon>>
    PROVE  IInv'
<1>1. TypeOK'
  BY DEF IInv, SlotsInv, TypeOK, SideOK, TableStartsNothing, GoodTick
<1>2. QueueOK'
  BY DEF GoodTick, QueueOK
<1>3. KeysOK'
  <2>1. IsFiniteSet(running)
    BY SchedulerAssumption, FS_Subset DEF IInv, SlotsInv, TypeOK
  <2>2. Cardinality(running) \in Nat
    BY <2>1, FS_CardinalityType
  <2>3. Len(tick.queue) \in Nat /\ Len(tick'.queue) \in Nat
    BY DEF IInv, SlotsInv, TypeOK, Tick, GoodTick
  <2>4. Cardinality(running') + Len(tick'.queue) <= MaxAgents
    BY <2>2, <2>3, SchedulerAssumption DEF IInv, SlotsInv, KeysOK
  <2> QED  BY <2>4 DEF IInv, SlotsInv, KeysOK, Live
<1>4. AgentsOK => AgentsOK'
  BY DEF AgentsOK, WithStatus, Agents, TableStartsNothing
<1> QED  BY <1>1, <1>2, <1>3, <1>4 DEF IInv, SlotsInv, NoPatchToRunning

\* The tick writes the row it read, or nothing.
LEMMA TickWroteStartsNothing ==
    ASSUME IInv, tick.at # "idle", NEW fresh, db' = TickWrote(fresh)
    PROVE  TableStartsNothing
<1>1. CASE fresh \/ tick.snap[Unit].backoff = "elapsed"
  BY <1>1, UnitIdle, WrittenIdle DEF TickWrote, IInv, SlotsInv
<1>2. CASE ~(fresh \/ tick.snap[Unit].backoff = "elapsed")
  BY <1>2 DEF TickWrote, TableStartsNothing, IInv, SlotsInv, TypeOK
<1> QED  BY <1>1, <1>2

\* Passing over the unit, blocking it, asking the operator about it, aborting.
LEMMA TickStaysStep ==
    ASSUME IInv, TickSkip \/ TickBlocked \/ TickAsks \/ TickAsked \/ TickAborts
    PROVE  IInv'
<1>0. /\ tick.at # "idle" /\ TypeOK /\ SideOK' /\ tick \in Tick
      /\ UNCHANGED <<task, running, daemon>>
  BY DEF TickSkip, TickBlocked, TickAsks, TickAsked, TickAborts, Eligible, IInv, SlotsInv,
     TypeOK, SideOK
<1>u. /\ Unit \in Chunks /\ UnitRow \in IdleRow /\ Asked \in IdleRow
      /\ Len(tick.queue) \in Nat \ {0}
  BY <1>0, UnitIdle
<1>n. GoodTick(NextUnit) /\ Len(NextUnit.queue) <= Len(tick.queue)
  <2>1. GoodTick(NextUnit) /\ Len(NextUnit.queue) + 1 <= Len(tick.queue)
    BY <1>0, NextUnitGood
  <2>2. Len(NextUnit.queue) \in Nat
    BY <2>1 DEF GoodTick, Tick
  <2> QED  BY <1>u, <2>1, <2>2
<1>i. GoodTick(IdleTick) /\ Len(IdleTick.queue) <= Len(tick.queue)
  BY <1>u, IdleTickGood
<1>s. UNCHANGED db => TableStartsNothing
  BY <1>0 DEF TypeOK, TableStartsNothing
<1>g. ASSUME NEW B \in SUBSET Chunks, NEW row \in IdleRow,
             db' = Written(Unit, [row EXCEPT !.blockedBy = @ \cup B])
      PROVE  TableStartsNothing
  <2>1. [row EXCEPT !.blockedBy = @ \cup B] \in IdleRow
    <3>1. row.blockedBy \cup B \in SUBSET Chunks
      BY <1>g DEF IdleRow, Row
    <3> QED  BY <1>g, <3>1 DEF IdleRow, Row
  <2> QED  BY <1>0, <1>u, <1>g, <2>1, WrittenIdle
<1>1. CASE TickSkip
  BY <1>0, <1>1, <1>n, <1>s, TickRowsStep DEF TickSkip
<1>2. CASE TickBlocked
  <2>1. PICK B \in Conflicts \ {{}}, fresh \in FreshVerdicts :
          IF UnitRow.explicit \/ B = UnitRow.blockedBy
          THEN db' = TickWrote(fresh) /\ tick' = NextUnit
          ELSE /\ db' = Written(Unit, [UnitRow EXCEPT !.blockedBy = @ \cup B])
               /\ tick' = IF Exists(db[Unit]) THEN NextUnit ELSE IdleTick
    BY <1>2 DEF TickBlocked
  <2>2. B \in SUBSET Chunks
    BY DEF Conflicts, OthersWith, WithStatus
  <2>3. TableStartsNothing
    BY <1>0, <1>u, <1>g, <2>1, <2>2, TickWroteStartsNothing
  <2>4. tick' = NextUnit \/ tick' = IdleTick
    BY <2>1
  <2> QED  BY <1>0, <1>n, <1>i, <2>3, <2>4, TickRowsStep
<1>3. CASE TickAsks
  <2>1. PICK B \in SUBSET OthersWith("RUNNING") :
          tick' = [tick EXCEPT !.at = "asking", !.blockers = B]
    BY <1>3 DEF TickAsks
  <2>2. B \in SUBSET Chunks
    BY DEF OthersWith, WithStatus
  <2>3. tick' \in Tick /\ tick'.queue = tick.queue /\ tick'.snap = tick.snap
    BY <1>0, <2>1, <2>2 DEF Tick
  <2>4. GoodTick(tick')
    BY <1>0, <2>3 DEF GoodTick, IInv, SlotsInv, QueueOK
  <2>5. TableStartsNothing
    BY <1>0, <1>3, <1>u, WrittenIdle DEF TickAsks
  <2>6. Len(tick'.queue) <= Len(tick.queue)
    BY <1>u, <2>3
  <2> QED  BY <1>0, <2>4, <2>5, <2>6, TickRowsStep
<1>4. CASE TickAsked
  <2>1. tick.blockers \in SUBSET Chunks
    BY <1>0 DEF Tick
  <2>2. TableStartsNothing
    BY <1>4, <1>s, <1>g, <1>u, <2>1 DEF TickAsked
  <2>3. tick' = NextUnit \/ tick' = IdleTick
    BY <1>4 DEF TickAsked
  <2> QED  BY <1>0, <1>n, <1>i, <2>2, <2>3, TickRowsStep
<1>5. CASE TickAborts
  BY <1>0, <1>5, <1>i, <1>s, TickRowsStep DEF TickAborts
<1> QED  BY <1>1, <1>2, <1>3, <1>4, <1>5

\* A dispatch takes the slot that the unit had in the queue.  No task of the
\* unit exists, since its key is not among the running ones.
LEMMA TickDispatchStep ==
    ASSUME IInv, TickDispatch
    PROVE  IInv'
<1> DEFINE t == [at |-> "spawned", phase |-> UnitRow.phase, row |-> NoRow]
<1>0. /\ tick.at # "idle" /\ TypeOK /\ SideOK' /\ KeysOK /\ Unit \notin running
      /\ task' = [task EXCEPT ![Unit] = t]
      /\ running' = running \cup {Unit} /\ tick' = NextUnit /\ UNCHANGED daemon
  BY DEF TickDispatch, Eligible, IInv, SlotsInv, TypeOK, SideOK
<1>1. Unit \in Chunks /\ UnitRow \in IdleRow /\ Len(tick.queue) \in Nat
  BY <1>0, UnitIdle
<1>2. t \in Task /\ t.at = "spawned"
  BY <1>1, NoRowIdle DEF Task, TaskStates, IdleRow, Row
<1> HIDE DEF t
<1>3. TableStartsNothing
  <2>1. PICK fresh \in FreshVerdicts : db' = TickWrote(fresh)
    BY DEF TickDispatch
  <2> QED  BY <1>0, <2>1, TickWroteStartsNothing
<1>4. GoodTick(tick') /\ Len(tick'.queue) + 1 <= Len(tick.queue)
  BY <1>0, NextUnitGood
<1>5. TypeOK'
  BY <1>0, <1>1, <1>2, <1>3, <1>4 DEF TypeOK, SideOK, TableStartsNothing, GoodTick
<1>6. QueueOK'
  BY <1>4 DEF GoodTick, QueueOK
<1>7. KeysOK'
  <2>1. \A d \in Chunks : Live(d)' => d \in running'
    BY <1>0, <1>1, <1>2 DEF KeysOK, Live, TypeOK
  <2>2. IsFiniteSet(running)
    BY <1>0, SchedulerAssumption, FS_Subset DEF TypeOK
  <2>3. Cardinality(running') = Cardinality(running) + 1
    BY <1>0, <2>2, FS_AddElement
  <2>4. Cardinality(running) \in Nat /\ Len(tick'.queue) \in Nat
    BY <1>4, <2>2, FS_CardinalityType DEF GoodTick, Tick
  <2>5. Cardinality(running) + Len(tick.queue) <= MaxAgents
    BY <1>0 DEF KeysOK
  <2>6. Cardinality(running') + Len(tick'.queue) <= MaxAgents
    BY <1>1, <1>4, <2>3, <2>4, <2>5, SchedulerAssumption
  <2> QED  BY <2>1, <2>6 DEF KeysOK
<1>8. AgentsOK => AgentsOK'
  <2>1. ~Live(Unit)
    BY <1>0, <1>1 DEF KeysOK
  <2> QED
    BY <1>0, <1>1, <1>2, <1>3, <2>1 DEF AgentsOK, WithStatus, Agents, TableStartsNothing,
       TypeOK, Live
<1> QED  BY <1>5, <1>6, <1>7, <1>8 DEF IInv, SlotsInv, NoPatchToRunning

\* get_ready_queue(limit) reads at least one and at most limit chunks that are
\* READY, when there are any.
LEMMA ReadyQueueFacts ==
    ASSUME TypeOK, NEW limit \in Nat \ {0}, WithStatus("READY") # {}, NEW q \in ReadyQueues(limit)
    PROVE  /\ q \in Seq(Chunks) /\ q # <<>> /\ Len(q) <= limit
           /\ \A i \in DOMAIN q : db[q[i]].status = "READY"
<1> DEFINE ready == WithStatus("READY")
           size  == IF Cardinality(ready) < limit THEN Cardinality(ready) ELSE limit
<1>1. ready \subseteq Chunks /\ IsFiniteSet(ready)
  BY SchedulerAssumption, FS_Subset DEF WithStatus
<1>2. Cardinality(ready) \in Nat \ {0}
  BY <1>1, FS_CardinalityType, FS_EmptySet
<1>3. size \in Nat \ {0} /\ size <= limit
  BY <1>2
<1>4. q \in [1..size -> ready]
  BY DEF ReadyQueues
<1> HIDE DEF size
<1>5. q \in [1..size -> Chunks]
  BY <1>1, <1>4
<1>6. q \in Seq(Chunks) /\ Len(q) = size /\ DOMAIN q = 1..size
  BY <1>3, <1>5
<1>7. q # <<>>
  <2>1. Len(<<>>) = 0
    OBVIOUS
  <2> QED  BY <1>3, <1>6, <2>1, Zenon
<1>8. \A i \in DOMAIN q : db[q[i]].status = "READY"
  BY <1>4, <1>6 DEF WithStatus
<1> QED  BY <1>3, <1>6, <1>7, <1>8

\* A tick drops the keys of finished tasks and reads as many READY rows as
\* there are free slots.
LEMMA TickStartStep ==
    ASSUME IInv, TickStart
    PROVE  IInv'
<1>0. /\ TypeOK /\ SideOK' /\ tick \in Tick /\ tick.at = "idle" /\ running' = StillRunning
      /\ UNCHANGED <<db, task, daemon>>
  BY DEF TickStart, IInv, SlotsInv, TypeOK, SideOK
<1>1. IsFiniteSet(running) /\ StillRunning \subseteq running /\ running \subseteq Chunks
  BY <1>0, SchedulerAssumption, FS_Subset DEF TypeOK, StillRunning
<1>2. /\ Cardinality(running) \in Nat /\ Cardinality(StillRunning) \in Nat
      /\ Cardinality(StillRunning) <= Cardinality(running)
  BY <1>1, FS_Subset, FS_CardinalityType
<1>3. Len(tick.queue) \in Nat /\ Cardinality(running) + Len(tick.queue) <= MaxAgents
  BY <1>0 DEF Tick, IInv, SlotsInv, KeysOK
<1>4. GoodTick(tick') /\ Cardinality(StillRunning) + Len(tick'.queue) <= MaxAgents
  <2>1. CASE FreeSlots > 0 /\ WithStatus("READY") # {}
    <3>1. PICK q \in ReadyQueues(FreeSlots) :
            tick' = [at |-> "unit", queue |-> q, snap |-> db, blockers |-> {}]
      BY <2>1 DEF TickStart
    <3>2. FreeSlots \in Nat \ {0} /\ FreeSlots = MaxAgents - Cardinality(StillRunning)
      BY <1>2, <2>1, SchedulerAssumption DEF FreeSlots
    <3>3. /\ q \in Seq(Chunks) /\ q # <<>> /\ Len(q) <= FreeSlots
          /\ \A i \in DOMAIN q : db[q[i]].status = "READY"
      BY <1>0, <2>1, <3>1, <3>2, ReadyQueueFacts
    <3>4. GoodTick(tick')
      BY <1>0, <3>1, <3>3 DEF GoodTick, Tick, TypeOK
    <3>5. Len(q) \in Nat /\ tick'.queue = q
      BY <3>1, <3>3
    <3> QED  BY <1>2, <3>2, <3>3, <3>4, <3>5, SchedulerAssumption
  <2>2. CASE ~(FreeSlots > 0 /\ WithStatus("READY") # {})
    <3>1. tick' = tick
      BY <2>2 DEF TickStart
    <3> QED  BY <1>0, <1>2, <1>3, <3>1, SchedulerAssumption DEF GoodTick
  <2> QED  BY <2>1, <2>2
<1>5. TypeOK'
  BY <1>0, <1>1, <1>4 DEF TypeOK, SideOK, GoodTick
<1>6. QueueOK'
  BY <1>4 DEF GoodTick, QueueOK
<1>7. KeysOK'
  BY <1>0, <1>4 DEF KeysOK, Live, StillRunning, IInv, SlotsInv
<1>8. AgentsOK => AgentsOK'
  BY <1>0 DEF AgentsOK, WithStatus, Agents
<1> QED  BY <1>5, <1>6, <1>7, <1>8 DEF IInv, SlotsInv, NoPatchToRunning

\* Every step of a tick preserves the invariant.
LEMMA TickStepStep ==
    ASSUME IInv, TickStep
    PROVE  IInv'
BY TickStaysStep, TickDispatchStep DEF TickStep

-----------------------------------------------------------------------------
(* Crash, restart, recovery.                                                 *)

\* A crash takes the tasks, their keys and the tick with it; the rows stay,
\* and for a while RUNNING rows have no agent: the daemon is down.
LEMMA CrashStep ==
    ASSUME IInv, Crash \/ \E c \in Chunks : CrashInFinalize(c)
    PROVE  IInv'
<1>1. Fall /\ TypeOK
  BY DEF Crash, CrashInFinalize, IInv, SlotsInv
<1>2. git' \in [Chunks -> Places]
  BY <1>1 DEF Crash, CrashInFinalize, TypeOK, Places
<1>3. NoTask \in Task /\ NoTask.at = "none"
  BY NoRowIdle DEF NoTask, Task, TaskStates, Phases, IdleRow
<1>4. GoodTick(tick') /\ Len(tick'.queue) = 0 /\ tick'.at = "idle"
  BY <1>1, IdleTickGood DEF Fall, IdleTick
<1>5. TypeOK'
  BY <1>1, <1>2, <1>3, <1>4 DEF Fall, TypeOK, Daemon, GoodTick
<1>6. QueueOK'
  BY <1>4 DEF QueueOK
<1>7. KeysOK'
  BY <1>1, <1>3, <1>4, FS_EmptySet, SchedulerAssumption DEF Fall, KeysOK, Live
<1>8. AgentsOK'
  BY <1>1 DEF Fall, AgentsOK
<1> QED  BY <1>5, <1>6, <1>7, <1>8 DEF IInv, SlotsInv

\* Recovery goes through the rows: the first loop puts back every RUNNING row
\* before any task can be created, the rest starts nothing.
LEMMA RecoveryStep ==
    ASSUME IInv, Restart \/ Recovered \/ \E c \in Chunks : Recover(c)
    PROVE  IInv'
<1>0. /\ TypeOK /\ daemon \in Daemon /\ UNCHANGED <<task, running, tick>>
      /\ QueueOK' /\ KeysOK'
  BY DEF IInv, SlotsInv, TypeOK, QueueOK, KeysOK, Live, Restart, Recovered, Recover
<1>s. UNCHANGED <<feedback, patched, used>>
  BY DEF Restart, Recovered, Recover
<1>1. CASE Restart
  <2>1. \A d \in Chunks : Requeued(db[d]) \in IdleRow
    BY <1>0, RequeuedIdle DEF TypeOK
  <2>2. db' \in [Chunks -> Row] /\ \A d \in Chunks : db'[d].status # "RUNNING"
    BY <1>1, <2>1 DEF Restart, IdleRow
  <2>3. daemon' \in Daemon
    BY <1>1 DEF Restart, Daemon
  <2>4. git' \in [Chunks -> Places]
    BY <1>0, <1>1 DEF Restart, TypeOK, Places
  <2>5. TypeOK'
    BY <1>0, <1>s, <2>2, <2>3, <2>4 DEF TypeOK
  <2>6. AgentsOK'
    BY <2>2 DEF AgentsOK, WithStatus
  <2> QED  BY <1>0, <2>5, <2>6 DEF IInv, SlotsInv
<1>2. CASE Recovered
  <2>1. daemon' \in Daemon /\ daemon.mode # "down" /\ UNCHANGED <<db, git>>
    BY <1>0, <1>2 DEF Recovered, Daemon
  <2>2. TypeOK'
    BY <1>0, <1>s, <2>1 DEF TypeOK
  <2>3. AgentsOK => AgentsOK'
    BY <1>0, <2>1 DEF AgentsOK, WithStatus, Agents
  <2> QED  BY <1>0, <2>2, <2>3 DEF IInv, SlotsInv, NoPatchToRunning
<1>3. ASSUME NEW c \in Chunks, Recover(c)
      PROVE  IInv'
  <2>1. daemon' \in Daemon /\ daemon.mode # "down"
    BY <1>0, <1>3 DEF Recover, Daemon
  <2>2. git' \in [Chunks -> Places]
    BY <1>0, <1>3 DEF Recover, TypeOK, Places
  <2>3. TableStartsNothing
    <3> DEFINE row == RecoveredMerged(db[c])
               table == [db EXCEPT ![c] = row]
    <3>1. db[c] \in Row /\ StartsNothing(db[c], row)
      BY <1>0, RecoveredMergedStartsNothing DEF TypeOK
    <3>2. /\ table \in [Chunks -> Row]
          /\ \A d \in Chunks : table[d].status = "RUNNING" => db[d].status = "RUNNING"
      BY <1>0, <3>1 DEF StartsNothing, TypeOK
    <3>3. CASE db' = (IF row = db[c] THEN db ELSE UnblockDependents(table, c))
      <4> HIDE DEF table
      <4>1. CASE row = db[c]
        BY <1>0, <3>3, <4>1 DEF TableStartsNothing, TypeOK
      <4>2. CASE row # db[c]
        <5>1. db' = UnblockDependents(table, c)
          BY <3>3, <4>2
        <5> QED  BY <3>2, <5>1, UnblockDependentsStartsNothing DEF TableStartsNothing
      <4> QED  BY <4>1, <4>2
    <3>4. CASE db' = [db EXCEPT ![c] = MarkNeedsAttention(db[c], "conflict")]
      BY <1>0, <3>1, <3>4, MarkNeedsAttentionIdle, Columns, IdleStartsNothing,
         AssignedStartsNothing
    <3> QED  BY <1>3, <3>3, <3>4 DEF Recover
  <2>4. TypeOK'
    BY <1>0, <1>s, <2>1, <2>2, <2>3 DEF TypeOK, TableStartsNothing
  <2>5. AgentsOK => AgentsOK'
    BY <1>0, <2>1, <2>3 DEF AgentsOK, WithStatus, Agents, TableStartsNothing
  <2> QED  BY <1>0, <2>4, <2>5 DEF IInv, SlotsInv, NoPatchToRunning
<1> QED  BY <1>1, <1>2, <1>3

-----------------------------------------------------------------------------
(* The theorems.                                                             *)

\* The empty table, no task, no tick.
LEMMA InitIInv == Init => IInv
<1> SUFFICES ASSUME Init PROVE IInv
  OBVIOUS
<1>1. NoRow \in Row /\ NoRow.status = "ABSENT" /\ NoTask \in Task /\ NoTask.at = "none"
  BY NoRowIdle DEF NoRow, NewRow, NoTask, Task, TaskStates, Phases, IdleRow
<1>2. GoodTick(IdleTick) /\ Len(IdleTick.queue) = 0 /\ IdleTick.at = "idle"
  BY IdleTickGood DEF IdleTick
<1>3. TypeOK
  BY <1>1, <1>2 DEF Init, TypeOK, GoodTick, Daemon, Places
<1>4. QueueOK
  BY <1>2 DEF Init, QueueOK
<1>5. KeysOK
  BY <1>1, <1>2, FS_EmptySet, SchedulerAssumption DEF Init, KeysOK, Live
<1>6. AgentsOK
  BY <1>1 DEF Init, AgentsOK, WithStatus
<1> QED  BY <1>3, <1>4, <1>5, <1>6 DEF IInv, SlotsInv

\* One step per action of Next.
LEMMA NextIInv == IInv /\ [Next]_vars => IInv'
<1> SUFFICES ASSUME IInv, [Next]_vars PROVE IInv'
  OBVIOUS
<1>1. CASE TickStart
  BY <1>1, TickStartStep
<1>2. CASE TickStep
  BY <1>2, TickStepStep
<1>3. ASSUME NEW c \in Chunks, Operator(c) PROVE IInv'
  BY <1>3, InjectStep, RequestStep DEF Operator
<1>4. ASSUME NEW c \in Chunks, BackoffElapses(c) PROVE IInv'
  BY <1>4, BackoffElapsesStep
<1>5. ASSUME NEW c \in Chunks, Starting(c) PROVE IInv'
  BY <1>5, StartingStep
<1>6. ASSUME NEW c \in Chunks, AgentReturns(c) PROVE IInv'
  BY <1>6, AgentReturnsStep
<1>7. ASSUME NEW c \in Chunks, Ending(c) PROVE IInv'
  BY <1>7, AnnounceDoneStep, UnblockAfterPatchStep, ExitStep DEF Ending
<1>8. CASE Crash \/ \E c \in Chunks : CrashInFinalize(c)
  BY <1>8, CrashStep
<1>9. CASE Restart \/ Recovered \/ \E c \in Chunks : Recover(c)
  BY <1>9, RecoveryStep
<1>10. CASE UNCHANGED vars
  BY <1>10 DEF vars, IInv, SlotsInv, TypeOK, QueueOK, KeysOK, AgentsOK, Live, WithStatus,
     Agents
<1> QED
  BY <1>1, <1>2, <1>3, <1>4, <1>5, <1>6, <1>7, <1>8, <1>9, <1>10 DEF Next

\* IInv is an invariant of the daemon, for any chunks, limits and requests.
THEOREM Invariance == Spec => []IInv
BY InitIInv, NextIInv, PTL DEF Spec

\* The rows, tasks and queues always have their types; the counters of every
\* row stay within the configured limits.
THEOREM TypeCorrect == Spec => []TypeOK
<1>1. IInv => TypeOK
  BY DEF IInv, SlotsInv
<1> QED  BY <1>1, Invariance, PTL

\* However ticks, suspended ticks, early returns, late exits, requests of any
\* kind, crashes and recoveries interleave, at most max_agents tasks exist.
THEOREM SlotsBounded == Spec => []SlotBound
<1>1. IInv => SlotBound
  <2> SUFFICES ASSUME IInv PROVE SlotBound
    OBVIOUS
  <2> DEFINE live == {c \in Chunks : Live(c)}
  <2>1. live \subseteq running /\ IsFiniteSet(running)
    BY SchedulerAssumption, FS_Subset DEF IInv, SlotsInv, KeysOK, TypeOK
  <2>2. /\ Cardinality(live) <= Cardinality(running)
        /\ Cardinality(live) \in Nat /\ Cardinality(running) \in Nat
    BY <2>1, FS_Subset, FS_CardinalityType
  <2>3. Len(tick.queue) \in Nat
    BY DEF IInv, SlotsInv, TypeOK, Tick
  <2>4. Cardinality(running) + Len(tick.queue) <= MaxAgents
    BY DEF IInv, SlotsInv, KeysOK
  <2> QED  BY <2>2, <2>3, <2>4, SchedulerAssumption DEF SlotBound
<1> QED  BY <1>1, Invariance, PTL

\* If no operator PATCHes a row to RUNNING, the whole of SchedulerInv holds.
THEOREM SchedulerCorrect ==
    ASSUME NoPatchToRunning
    PROVE  Spec => []SchedulerInv
<1>1. IInv => SchedulerInv
  BY DEF IInv, SlotsInv, SchedulerInv
<1> QED  BY <1>1, Invariance, PTL

\* If no operator PATCHes a row to RUNNING, every RUNNING row has an agent at
\* work or about to be launched whenever the daemon is up.
THEOREM RunningAgents ==
    ASSUME NoPatchToRunning
    PROVE  Spec => []RunningHasAgent
<1>1. IInv => RunningHasAgent
  BY DEF IInv, AgentsOK, RunningHasAgent, Up
<1> QED  BY <1>1, Invariance, PTL

-----------------------------------------------------------------------------
(***************************************************************************)
(* Proof that a deleted unit stays deleted until it is injected again,     *)
(* although ticks and tasks write rows they read before the deletion.      *)
(*                                                                         *)
(* The writes of ticks and tasks raise on a missing row.  Those of the     *)
(* recovery do not look, but go to rows that existed at the restart, and   *)
(* no request is served before the recovery is over: RecoveryInv.          *)
(***************************************************************************)
\* No row appears in the table.
CreatesNothing == \A d \in Chunks : Exists(db'[d]) => Exists(db[d])

\* What recovery has still to look at exists, and only a recovery has something.
RecoveryInv ==
    /\ daemon.incomplete # {} => daemon.mode = "recovering"
    /\ \A c \in daemon.incomplete : Exists(db[c])

-----------------------------------------------------------------------------
(* Lemmas about the table.                                                   *)

\* update_work_unit raises on a missing row.
LEMMA WrittenCreatesNothing ==
    ASSUME TypeOK, NEW c \in Chunks, NEW row, db' = Written(c, row)
    PROVE  CreatesNothing
BY DEF TypeOK, CreatesNothing, Written

\* A handler that found the row creates none.
LEMMA AssignedCreatesNothing ==
    ASSUME TypeOK, NEW c \in Chunks, Exists(db[c]), NEW row, db' = [db EXCEPT ![c] = row]
    PROVE  CreatesNothing
BY DEF TypeOK, CreatesNothing

\* unblock_dependents changes rows that exist, and they still exist.
LEMMA UnblockDependentsKeepsRows ==
    ASSUME NEW table \in [Chunks -> Row], NEW c \in Chunks, NEW d \in Chunks
    PROVE  Exists(UnblockDependents(table, c)[d]) <=> Exists(table[d])
<1>1. table[d] \in Row
  OBVIOUS
<1>2. Exists(Unblocked(table[d], c)) <=> Exists(table[d])
  BY <1>1 DEF Unblocked, Exists, Row
<1> QED  BY <1>2 DEF UnblockDependents

-----------------------------------------------------------------------------
(* The daemon is up.                                                         *)

\* While the daemon serves, recovery has nothing left to do.
LEMMA UpKeepsRecoveryInv ==
    ASSUME RecoveryInv, Up, UNCHANGED daemon
    PROVE  RecoveryInv'
BY DEF RecoveryInv, Up

\* A tick writes what it read of a row that may be gone.
LEMMA TickCreatesNothing ==
    ASSUME IInv, TickStart \/ TickStep
    PROVE  CreatesNothing
<1>1. TypeOK
  BY DEF IInv, SlotsInv
<1>2. UNCHANGED db => CreatesNothing
  BY DEF CreatesNothing
<1>3. TickStep => Unit \in Chunks
  BY UnitIdle DEF TickStep, TickSkip, TickDispatch, TickBlocked, TickAsks, TickAsked,
     TickAborts, Eligible
<1>4. ASSUME NEW fresh, db' = TickWrote(fresh), TickStep PROVE CreatesNothing
  BY <1>1, <1>2, <1>3, <1>4, WrittenCreatesNothing DEF TickWrote
<1>5. CASE TickStart \/ TickSkip \/ TickAborts
  BY <1>2, <1>5 DEF TickStart, TickSkip, TickAborts
<1>6. CASE TickDispatch
  BY <1>4, <1>6 DEF TickDispatch, TickStep
<1>7. CASE TickBlocked
  BY <1>1, <1>3, <1>4, <1>7, WrittenCreatesNothing DEF TickBlocked, TickStep
<1>8. CASE TickAsks \/ TickAsked
  BY <1>1, <1>2, <1>3, <1>8, WrittenCreatesNothing DEF TickAsks, TickAsked, TickStep
<1> QED  BY <1>5, <1>6, <1>7, <1>8 DEF TickStep

\* A request is about a row that exists; only an injection is not.
LEMMA OperatorCreatesNothing ==
    ASSUME IInv, NEW c \in Chunks, Operator(c), ~Inject(c)
    PROVE  CreatesNothing
<1>1. TypeOK /\ Exists(db[c])
  BY DEF IInv, SlotsInv, Operator, Answer, Retry, Resolve, PatchStatus, PatchRetain, Delete,
     Request
<1>2. \E row : db' = [db EXCEPT ![c] = row]
  BY <1>1 DEF TypeOK, Operator, Answer, Retry, Resolve, PatchStatus, PatchRetain, Delete
<1> QED  BY <1>1, <1>2, AssignedCreatesNothing

\* Whatever a task writes, it writes to its own row, if that is still there.
LEMMA TaskCreatesNothing ==
    ASSUME IInv, NEW c \in Chunks, Starting(c) \/ AgentReturns(c)
    PROVE  CreatesNothing
<1>1. TypeOK
  BY DEF IInv, SlotsInv
<1>2. UNCHANGED db => CreatesNothing
  BY DEF CreatesNothing
<1>3. ASSUME NEW row, Settle(c, row) PROVE CreatesNothing
  BY <1>1, <1>3, WrittenCreatesNothing DEF Settle
<1>4. CASE Start(c)
  <2>1. Exists(db[c]) /\ db' = [db EXCEPT ![c] = Dispatched(db[c])]
    BY <1>4 DEF Start, Exists
  <2> QED  BY <1>1, <2>1, AssignedCreatesNothing
<1>5. CASE StartSkipped(c) \/ StartFails(c) \/ Reroute(c) \/ StopIterating(c)
  BY <1>2, <1>3, <1>5 DEF StartSkipped, StartFails, Reroute, StopIterating
<1>6. CASE Launch(c)
  BY <1>1, <1>2, <1>6, WrittenCreatesNothing DEF Launch
<1>7. CASE \/ AgentSuspends(c) \/ AgentHitsApiError(c) \/ AgentHitsSessionLimit(c)
           \/ AgentFails(c) \/ PhaseCompletes(c)
  BY <1>3, <1>7 DEF AgentSuspends, AgentHitsApiError, AgentHitsSessionLimit, AgentFails,
     PhaseCompletes
<1>8. CASE \/ ReviewNudged(c) \/ ReviewUndecided(c) \/ ReviewApproves(c)
           \/ ReviewFeedsBack(c) \/ ReviewEscalates(c)
  BY <1>3, <1>8 DEF ReviewNudged, ReviewUndecided, ReviewApproves, ReviewFeedsBack,
     ReviewEscalates
<1>9. CASE StillImplementing(c)
  BY <1>1, <1>3, <1>9, WrittenCreatesNothing DEF StillImplementing
<1>10. CASE FinalizeRetained(c) \/ FinalizeMerged(c)
  BY <1>1, <1>10, WrittenCreatesNothing DEF FinalizeRetained, FinalizeMerged, WriteDone
<1>11. CASE FinalizeConflicts(c) \/ FinalizeFails(c)
  BY <1>3, <1>11 DEF FinalizeConflicts, FinalizeFails
<1> QED
  BY <1>4, <1>5, <1>6, <1>7, <1>8, <1>9, <1>10, <1>11 DEF Starting, AgentReturns

\* The end of a task or of a PATCH to DONE unblocks units that exist.
LEMMA EndingCreatesNothing ==
    ASSUME IInv, NEW c \in Chunks, Ending(c)
    PROVE  CreatesNothing
<1>1. db \in [Chunks -> Row]
  BY DEF IInv, SlotsInv, TypeOK
<1> QED
  BY <1>1, UnblockDependentsKeepsRows DEF Ending, AnnounceDone, UnblockAfterPatch, Exit,
     CreatesNothing

\* The clock moves rows that wait.
LEMMA BackoffCreatesNothing ==
    ASSUME IInv, NEW c \in Chunks, BackoffElapses(c)
    PROVE  CreatesNothing
BY DEF BackoffElapses, CreatesNothing, Exists, IInv, SlotsInv, TypeOK, Row

-----------------------------------------------------------------------------
(* Crash and recovery.                                                       *)

\* The first loop puts RUNNING rows back; the list of incomplete finalizations
\* is made from rows that exist.
LEMMA RestartKeepsRows ==
    ASSUME IInv, Restart
    PROVE  CreatesNothing /\ RecoveryInv'
<1>1. \A d \in Chunks : Exists(Requeued(db[d])) <=> Exists(db[d])
  BY DEF IInv, SlotsInv, TypeOK, Requeued, Exists, Row
<1>2. \A d \in Chunks : Exists(db'[d]) <=> Exists(db[d])
  BY <1>1 DEF Restart
<1>3. daemon'.mode = "recovering" /\ \A d \in daemon'.incomplete : d \in Chunks /\ Exists(db[d])
  BY DEF Restart
<1> QED  BY <1>2, <1>3 DEF CreatesNothing, RecoveryInv

\* A finalization that is completed or given up leaves every row in its place.
LEMMA RecoverKeepsRows ==
    ASSUME IInv, RecoveryInv, NEW c \in Chunks, Recover(c)
    PROVE  CreatesNothing /\ RecoveryInv'
<1>1. /\ db \in [Chunks -> Row] /\ db[c] \in Row /\ Exists(db[c])
      /\ daemon.incomplete \subseteq Chunks
  BY DEF IInv, SlotsInv, TypeOK, RecoveryInv, Recover, Daemon
<1>2. ASSUME NEW row \in Row, Exists(row), NEW d \in Chunks
      PROVE  Exists([db EXCEPT ![c] = row][d]) <=> Exists(db[d])
  BY <1>1, <1>2
<1>3. RecoveredMerged(db[c]) \in Row /\ Exists(RecoveredMerged(db[c]))
  BY <1>1, RecoveredMergedStartsNothing DEF RecoveredMerged, StartsNothing, Exists, Row
<1>4. /\ MarkNeedsAttention(db[c], "conflict") \in Row
      /\ Exists(MarkNeedsAttention(db[c], "conflict"))
  <2>1. MarkNeedsAttention(db[c], "conflict") \in Row
    BY <1>1, MarkNeedsAttentionIdle, Columns DEF IdleRow
  <2> QED  BY <1>1, <2>1 DEF MarkNeedsAttention, Exists, Row
<1>5. \A d \in Chunks : Exists(db'[d]) <=> Exists(db[d])
  <2> DEFINE row == RecoveredMerged(db[c])
             table == [db EXCEPT ![c] = row]
  <2>1. table \in [Chunks -> Row] /\ \A d \in Chunks : Exists(table[d]) <=> Exists(db[d])
    BY <1>1, <1>2, <1>3
  <2>2. CASE db' = db
    BY <2>2
  <2>3. CASE db' = UnblockDependents(table, c)
    <3> HIDE DEF table
    <3> QED  BY <2>1, <2>3, UnblockDependentsKeepsRows
  <2>4. CASE db' = [db EXCEPT ![c] = MarkNeedsAttention(db[c], "conflict")]
    BY <1>2, <1>4, <2>4
  <2>5. \/ db' = db
        \/ db' = UnblockDependents(table, c)
        \/ db' = [db EXCEPT ![c] = MarkNeedsAttention(db[c], "conflict")]
    BY DEF Recover
  <2> QED  BY <2>2, <2>3, <2>4, <2>5
<1>6. daemon'.incomplete \subseteq daemon.incomplete /\ daemon'.mode = "recovering"
  BY <1>1 DEF Recover, IInv, SlotsInv, TypeOK, Daemon
<1> QED  BY <1>1, <1>5, <1>6 DEF CreatesNothing, RecoveryInv

-----------------------------------------------------------------------------
\* Every step creates nothing, or is an injection.
LEMMA StepCreatesNothing ==
    ASSUME IInv, RecoveryInv, [Next]_vars
    PROVE  /\ RecoveryInv'
           /\ CreatesNothing \/ \E c \in Chunks : Inject(c)
<1>1. CASE TickStart \/ TickStep
  <2>1. Up /\ UNCHANGED daemon
    BY <1>1 DEF TickStart, TickStep, TickSkip, TickDispatch, TickBlocked, TickAsks, TickAsked,
       TickAborts, Eligible, Free, Up
  <2> QED  BY <1>1, <2>1, TickCreatesNothing, UpKeepsRecoveryInv
<1>2. ASSUME NEW c \in Chunks, Operator(c) \/ BackoffElapses(c)
      PROVE  RecoveryInv' /\ (CreatesNothing \/ Inject(c))
  <2>1. Up /\ UNCHANGED daemon
    BY <1>2 DEF Operator, Inject, Answer, Retry, Resolve, PatchStatus, PatchRetain, Delete,
       Request, BackoffElapses, Free
  <2> QED  BY <1>2, <2>1, OperatorCreatesNothing, BackoffCreatesNothing, UpKeepsRecoveryInv
<1>3. ASSUME NEW c \in Chunks, Starting(c) \/ AgentReturns(c) \/ Ending(c)
      PROVE  RecoveryInv' /\ CreatesNothing
  <2>1. CASE Starting(c)
    <3>1. Up /\ UNCHANGED daemon
      BY <2>1 DEF Starting, StartSkipped, Start, StartFails, Reroute, StopIterating, Launch,
         TaskAt, Free
    <3> QED  BY <2>1, <3>1, TaskCreatesNothing, UpKeepsRecoveryInv
  <2>2. CASE AgentReturns(c)
    <3>1. Up /\ UNCHANGED daemon
      BY <2>2 DEF AgentReturns, AgentSuspends, AgentHitsApiError, AgentHitsSessionLimit,
         AgentFails, PhaseCompletes, ReviewNudged, ReviewUndecided, ReviewApproves,
         ReviewFeedsBack, ReviewEscalates, StillImplementing, FinalizeRetained,
         FinalizeMerged, FinalizeConflicts, FinalizeFails, Reviewed, Verified, Completing,
         AtWork, TaskAt, Free
    <3> QED  BY <2>2, <3>1, TaskCreatesNothing, UpKeepsRecoveryInv
  <2>3. CASE Ending(c)
    <3>1. Up /\ UNCHANGED daemon
      BY <2>3 DEF Ending, AnnounceDone, UnblockAfterPatch, Exit, TaskAt, Free
    <3> QED  BY <2>3, <3>1, EndingCreatesNothing, UpKeepsRecoveryInv
  <2> QED  BY <1>3, <2>1, <2>2, <2>3
<1>4. CASE Crash \/ \E c \in Chunks : CrashInFinalize(c)
  BY <1>4 DEF Crash, CrashInFinalize, Fall, RecoveryInv, CreatesNothing
<1>5. CASE Restart
  BY <1>5, RestartKeepsRows
<1>6. CASE Recovered
  BY <1>6 DEF Recovered, RecoveryInv, CreatesNothing
<1>7. ASSUME NEW c \in Chunks, Recover(c)
      PROVE  RecoveryInv' /\ CreatesNothing
  BY <1>7, RecoverKeepsRows
<1>8. CASE UNCHANGED vars
  BY <1>8 DEF vars, RecoveryInv, CreatesNothing
<1> QED  BY <1>1, <1>2, <1>3, <1>4, <1>5, <1>6, <1>7, <1>8 DEF Next

\* An injection creates the row of its own chunk only.
LEMMA InjectCreatesOne ==
    ASSUME TypeOK, NEW c \in Chunks, Inject(c), NEW d \in Chunks,
           ~Exists(db[d]), Exists(db'[d])
    PROVE  d = c
BY DEF TypeOK, Inject

\* A deleted unit comes back by an injection only: nothing that a tick, a task or
\* a recovery remembers of it is written to the table again.
THEOREM DeletionIsFinal == Spec => NoResurrection
<1> DEFINE OnlyInjected ==
      \A c \in Chunks : ~Exists(db[c]) /\ Exists(db'[c]) => Inject(c)
<1>1. Init => RecoveryInv
  BY DEF Init, RecoveryInv
<1>2. IInv /\ RecoveryInv /\ [Next]_vars => RecoveryInv'
  BY StepCreatesNothing
<1>3. IInv /\ RecoveryInv /\ [Next]_vars => [OnlyInjected]_vars
  <2> SUFFICES ASSUME IInv, RecoveryInv, [Next]_vars,
                      NEW d \in Chunks, ~Exists(db[d]), Exists(db'[d])
               PROVE  Inject(d)
    OBVIOUS
  <2>1. PICK c \in Chunks : Inject(c)
    BY StepCreatesNothing DEF CreatesNothing
  <2>2. d = c
    BY <2>1, InjectCreatesOne DEF IInv, SlotsInv
  <2> QED  BY <2>1, <2>2
<1> QED  BY <1>1, <1>2, <1>3, Invariance, PTL DEF Spec, NoResurrection
=============================================================================
