------------------------------ MODULE StepProofs ------------------------------
(***************************************************************************)
(* Every step of the scheduler as one unit sees it.                        *)
(*                                                                         *)
(* The scheduler has some forty actions, but to a unit only a dozen things *)
(* can happen: its run gives the row back, goes on, or finishes it; a tick *)
(* lists, writes or dispatches it; an operator asks for something; a       *)
(* blocker completes; the daemon falls, restarts, recovers.  Each of them  *)
(* is a predicate below that says what it does to the row, the task, the   *)
(* work and the feedback of the unit; NextUnitStep, the last lemma but     *)
(* one, says that there is nothing else.  The invariants about units, in   *)
(* the second part, are proved of these predicates, not of the actions.    *)
(***************************************************************************)
EXTENDS SchedulerProofs

\* Statuses that some operator may PATCH a row to; whether operators delete units.
Patchable == IF "patch" \in OperatorRequests THEN PatchStatuses ELSE {}
NoDeletes == "delete" \notin OperatorRequests

\* The coroutine of c has its row in memory; or is about to read it.
Working == {"starting", "agent", "resume"}
AtHome(c) == task[c].at \in Working \cup {"spawned"}

\* The tick may still write or dispatch the unit.
Queued(c) == tick.at # "idle" /\ c \in Listed(tick.queue) \ running

\* What only an agent's run can raise.
RaisedReasons == {"question", "iterations", "api"}

-----------------------------------------------------------------------------
(* What the end of a run does to its unit.                                   *)

\* The row that the run of c works with.
RunRow(c) == IF task[c].at = "spawned" THEN db[c] ELSE task[c].row

\* The row given back by a run that did not finish the unit: the phase stays, goes on or is
\* taken back, and with it goes the session; a reminder is for a reviewer only.
Outcome(c, row) ==
    LET r == RunRow(c) IN
    /\ row.status \in {"READY", "NEEDS_ATTENTION"}
    /\ row.blockedBy = r.blockedBy
    /\ task[c].at = "spawned" => db[c].status = "READY" /\ row.status = "NEEDS_ATTENTION"
    /\ \/ /\ row.phase = r.phase
          /\ row.session \in {r.session, SessionAfter(r, task[c].phase), "none"}
       \/ /\ row.status = "READY" /\ row.session = "none"
          /\ \/ r.phase # "COMPLETE" /\ row.phase = NextPhase[r.phase]
             \/ "REVIEW" \in {r.phase, task[c].phase} /\ row.phase = "IMPLEMENT"
             \/ r.phase = "COMPLETE" /\ row.phase = "REBASE"
    /\ row.answer = "nudge" =>
          /\ feedback'[c] = feedback[c]
          /\ IF task[c].at \in {"agent", "resume"}
             THEN \/ r.phase = "REVIEW" /\ row.phase = "REVIEW"
                  \/ r.answer = "nudge" /\ row.phase = r.phase
             ELSE r.answer = "nudge" /\ (row.phase = r.phase \/ feedback[c])
    /\ row.reason \in RaisedReasons =>
          \/ row.reason = r.reason
          \/ task[c].at \in Working /\ row.status = "NEEDS_ATTENTION" /\ git'[c] = git[c]

\* The step is of the coroutine of c, and nothing of another unit changes.
OwnStep(c) ==
    /\ Live(c) /\ Free
    /\ \A d \in Chunks \ {c} : /\ db'[d] = db[d] /\ task'[d] = task[d]
                               /\ git'[d] = git[d] /\ feedback'[d] = feedback[d]
    /\ UNCHANGED <<tick, daemon, patched>>

\* The run of c ends without having finished the unit; a deleted row stays deleted.
GivesBack(c) ==
    /\ OwnStep(c) /\ running' = running /\ AtHome(c)
    /\ IF Exists(db[c]) THEN Outcome(c, db'[c]) ELSE db'[c] = db[c]
    /\ task'[c] = Leaving("exit")
    /\ \/ git'[c] = git[c]
       \/ git'[c] \in {"branch", "worktree"} /\ (git[c] = "worktree" \/ task[c].phase = "PLAN")

\* The end of a run that leaves queue, keys and daemon alone.
Ends(c, row) == Settle(c, row) /\ UNCHANGED <<running, tick, daemon, patched>>

\* Settle, with what it leaves to show.
LEMMA SettleGivesBack ==
  ASSUME TypeOK, NEW c \in Chunks, NEW row, AtHome(c), Free, Ends(c, row), Outcome(c, row),
         NEW place, git' = [git EXCEPT ![c] = place],
         \/ place = git[c]
         \/ place \in {"branch", "worktree"} /\ (git[c] = "worktree" \/ task[c].phase = "PLAN"),
         NEW f, feedback' = [feedback EXCEPT ![c] = f]
  PROVE  GivesBack(c)
<1>1. /\ Live(c) /\ UNCHANGED <<tick, daemon, patched, running>>
      /\ task' = [task EXCEPT ![c] = Leaving("exit")]
      /\ db' = [db EXCEPT ![c] = IF Exists(@) THEN row ELSE @]
  BY DEF Ends, Settle, SetTask, Written, AtHome, Working, Live
<1>2. IF Exists(db[c]) THEN db'[c] = row ELSE db'[c] = db[c]
  BY <1>1 DEF TypeOK
<1>3. git'[c] = place
  BY DEF TypeOK
<1>4. OwnStep(c)
  BY <1>1 DEF OwnStep, TypeOK
<1> QED  BY <1>1, <1>2, <1>3, <1>4 DEF GivesBack, TypeOK

\* What a run knows when its agent returns: the phase it ran in, the row it started with, the
\* answer delivered, and the session it ran in.
LEMMA RunFacts ==
  ASSUME TypeOK, NEW c \in Chunks, AtWork(c)
  PROVE  /\ AtHome(c) /\ Free /\ task[c].at \in {"agent", "resume"}
         /\ RunRow(c) = task[c].row /\ RunRow(c) \in Row /\ After(c) \in Row /\ InMemory(c) \in Row
         /\ \A row \in {After(c), InMemory(c)} :
              /\ row.answer = "none" /\ row.status = RunRow(c).status
              /\ row.phase = RunRow(c).phase /\ row.blockedBy = RunRow(c).blockedBy
              /\ row.reason = RunRow(c).reason /\ row.retain = RunRow(c).retain
              /\ row.session \in {RunRow(c).session, SessionAfter(RunRow(c), task[c].phase)}
         /\ Session(c) = SessionAfter(RunRow(c), task[c].phase)
         /\ ErrorSessions(c) \subseteq {"none", SessionAfter(RunRow(c), task[c].phase)}
<1>1. /\ task[c].at \in {"agent", "resume"} /\ task[c].row \in Row /\ RunRow(c) = task[c].row
      /\ After(c) \in Row /\ InMemory(c) \in Row /\ AtHome(c) /\ Free
  BY RunTyped DEF AtWork, TaskAt, RunRow, TypeOK, Task, AtHome, Working
<1>2. Session(c) = SessionAfter(RunRow(c), task[c].phase)
  BY <1>1 DEF Session
<1>3. ErrorSessions(c) \subseteq {"none", SessionAfter(RunRow(c), task[c].phase)}
  BY <1>2 DEF ErrorSessions
<1>4. /\ InMemory(c) = [RunRow(c) EXCEPT !.answer = "none"]
      /\ \/ After(c) = InMemory(c)
         \/ After(c) = [InMemory(c) EXCEPT !.session = SessionAfter(RunRow(c), task[c].phase)]
  BY <1>1, <1>2 DEF After, InMemory, AnswerDelivered
<1> DEFINE Kept(row) == /\ row.answer = "none" /\ row.status = RunRow(c).status
                        /\ row.phase = RunRow(c).phase /\ row.blockedBy = RunRow(c).blockedBy
                        /\ row.reason = RunRow(c).reason /\ row.retain = RunRow(c).retain
                        /\ row.session \in {RunRow(c).session, SessionAfter(RunRow(c), task[c].phase)}
<1>5. RunRow(c) \in Row
  BY <1>1
<1>6. Kept(InMemory(c))
  BY <1>4, <1>5 DEF Row
<1>7. Kept(After(c))
  BY <1>4, <1>5, ZenonT(40) DEF Row
<1> QED  BY <1>1, <1>2, <1>3, <1>6, <1>7

\* The rows a review decision is applied to differ from the row of the run in counters only.
LEMMA DecisionFacts ==
  ASSUME TypeOK, NEW c \in Chunks, AtWork(c), NEW row \in DecisionRows(c) \cup {CountNudge(After(c))}
  PROVE  /\ row \in Row /\ row.answer = "none" /\ row.phase = RunRow(c).phase
         /\ row.blockedBy = RunRow(c).blockedBy /\ row.reason = RunRow(c).reason
         /\ row.session \in {RunRow(c).session, SessionAfter(RunRow(c), task[c].phase)}
<1>1. row \in {ToolCalled(After(c)), CountNudge(After(c))}
  BY DEF DecisionRows
<1>2. row \in Row
  BY <1>1, RunFacts, ToolCalledTyped, CountNudgeTyped
<1> QED  BY <1>1, <1>2, RunFacts DEF ToolCalled, CountNudge, Row

\* A run of an agent that ends without having finished the unit.
LEMMA ResultGivesBack ==
  ASSUME TypeOK, NEW c \in Chunks,
         \/ AgentSuspends(c) \/ AgentHitsApiError(c) \/ AgentHitsSessionLimit(c)
         \/ AgentFails(c) \/ PhaseCompletes(c) \/ ReviewNudged(c)
         \/ ReviewUndecided(c) \/ ReviewApproves(c) \/ ReviewFeedsBack(c)
         \/ ReviewEscalates(c) \/ FinalizeConflicts(c) \/ FinalizeFails(c)
  PROVE  GivesBack(c)
<1>0. /\ AtWork(c) /\ UNCHANGED <<running, tick, daemon, patched>>
      /\ git = [git EXCEPT ![c] = git[c]] /\ feedback = [feedback EXCEPT ![c] = feedback[c]]
  BY DEF AgentSuspends, AgentHitsApiError, AgentHitsSessionLimit, AgentFails, PhaseCompletes,
     ReviewNudged, ReviewUndecided, ReviewApproves, ReviewFeedsBack, ReviewEscalates,
     FinalizeConflicts, FinalizeFails, Reviewed, Verified, Completing, TypeOK
<1>f. git' = git \/ \E place : git' = [git EXCEPT ![c] = place] /\ place \in {"branch", "worktree"} /\ git[c] = "worktree"
  BY DEF AgentSuspends, AgentHitsApiError, AgentHitsSessionLimit, AgentFails, PhaseCompletes,
     ReviewNudged, ReviewUndecided, ReviewApproves, ReviewFeedsBack, ReviewEscalates,
     FinalizeConflicts, FinalizeFails, Verified
<1>g. feedback' = feedback \/ \E f : feedback' = [feedback EXCEPT ![c] = f]
  BY DEF AgentSuspends, AgentHitsApiError, AgentHitsSessionLimit, AgentFails, PhaseCompletes,
     ReviewNudged, ReviewUndecided, ReviewApproves, ReviewFeedsBack, ReviewEscalates,
     FinalizeConflicts, FinalizeFails
<1> DEFINE Kept(row) == /\ row.answer = "none" /\ row.blockedBy = RunRow(c).blockedBy
                        /\ row.phase = RunRow(c).phase /\ row.reason = RunRow(c).reason
                        /\ row.session \in {RunRow(c).session, SessionAfter(RunRow(c), task[c].phase)}
           fresh == SessionAfter(RunRow(c), task[c].phase)
<1>r. /\ After(c) \in Row /\ InMemory(c) \in Row /\ Kept(After(c)) /\ Kept(InMemory(c))
      /\ Session(c) = fresh /\ ErrorSessions(c) \subseteq {"none", fresh}
      /\ task[c].at \in {"agent", "resume"} /\ AtHome(c) /\ Free
  BY <1>0, RunFacts
<1>d. \A row \in DecisionRows(c) \cup {CountNudge(After(c))} : row \in Row /\ Kept(row)
  BY <1>0, DecisionFacts
<1> HIDE DEF Kept, fresh
<1>q. ASSUME NEW row, Settle(c, row), Outcome(c, row)
      PROVE  GivesBack(c)
  BY <1>0, <1>f, <1>g, <1>q, <1>r, SettleGivesBack DEF Ends
<1>u. ASSUME NEW row \in Row, Kept(row), NEW why \in Reasons, why \notin RaisedReasons \/ git' = git
      PROVE  Outcome(c, MarkNeedsAttention(row, why))
  BY <1>u, <1>r DEF Kept, Outcome, MarkNeedsAttention, Row, fresh, Working
<1>1. CASE AgentSuspends(c)
  <2>1. Outcome(c, Suspended(After(c), Session(c)))
    BY <1>r, <1>1 DEF Outcome, Suspended, MarkNeedsAttention, Row, Kept, fresh, AgentSuspends, Working
  <2> QED  BY <1>1, <1>q, <2>1 DEF AgentSuspends
<1>2. CASE AgentHitsApiError(c)
  <2>1. \A session \in ErrorSessions(c) : Outcome(c, ScheduleApiRetry(After(c), session))
    BY <1>r DEF Outcome, ScheduleApiRetry, Row, Kept, fresh, RaisedReasons
  <2>2. Outcome(c, MarkNeedsAttention(After(c), "api"))
    BY <1>u, <1>r, <1>2 DEF AgentHitsApiError, Reasons
  <2> QED  BY <1>2, <1>q, <2>1, <2>2 DEF AgentHitsApiError
<1>3. CASE AgentHitsSessionLimit(c)
  <2>1. \A session \in ErrorSessions(c) : Outcome(c, ScheduleSessionRetry(After(c), session))
    BY <1>r DEF Outcome, ScheduleSessionRetry, Row, Kept, fresh, RaisedReasons
  <2> QED  BY <1>3, <1>q, <2>1 DEF AgentHitsSessionLimit
<1>4. CASE AgentFails(c)
  <2>1. task[c].row \in Row /\ RunRow(c) = task[c].row
    BY <1>r DEF RunRow, TypeOK, Task
  <2>2. Outcome(c, MarkNeedsAttention(task[c].row, "other"))
    BY <1>4, <1>r, <2>1 DEF AgentFails, Outcome, MarkNeedsAttention, Row, Working, RaisedReasons
  <2> QED  BY <1>4, <1>q, <1>u, <1>r, <2>2 DEF AgentFails, Reasons, RaisedReasons
<1>5. CASE PhaseCompletes(c)
  <2>1. Outcome(c, AdvancePhase(After(c)))
    BY <1>r, <1>5 DEF Outcome, AdvancePhase, Row, Kept, PhaseCompletes, RaisedReasons
  <2> QED  BY <1>5, <1>q, <2>1 DEF PhaseCompletes
<1>6. CASE ReviewNudged(c)
  <2>1. Outcome(c, Nudge(After(c), Session(c)))
    BY <1>r, <1>d, <1>6 DEF Outcome, Nudge, Row, Kept, fresh, ReviewNudged, Reviewed
  <2> QED  BY <1>6, <1>q, <2>1 DEF ReviewNudged
<1>7. CASE ReviewUndecided(c)
  BY <1>7, <1>q, <1>u, <1>d DEF ReviewUndecided, Reasons, RaisedReasons
<1>8. CASE ReviewApproves(c)
  <2>1. ASSUME NEW row \in DecisionRows(c) PROVE Outcome(c, Approve(row))
    <3>1. row \in Row /\ Kept(row) /\ RunRow(c).phase = "REVIEW"
      BY <1>r, <1>d, <1>8 DEF Kept, ReviewApproves, Reviewed
    <3> DEFINE given == [row EXCEPT !.nudges = 0, !.impl = 0]
    <3>2. given \in Row /\ Kept(given)
      BY <3>1, Columns DEF Row, Kept
    <3> HIDE DEF given
    <3>3. Outcome(c, AdvancePhase(given))
      BY <1>r, <3>1, <3>2 DEF Outcome, AdvancePhase, Row, Kept, RaisedReasons
    <3> QED  BY <3>3 DEF Approve, given
  <2> QED  BY <1>8, <1>q, <2>1 DEF ReviewApproves
<1>9. CASE ReviewFeedsBack(c)
  <2>1. ASSUME NEW row \in DecisionRows(c), MayFeedBack(row) PROVE Outcome(c, FeedBack(row))
    <3>1. row \in Row /\ Kept(row) /\ RunRow(c).phase = "REVIEW"
      BY <1>r, <1>d, <1>9 DEF Kept, ReviewFeedsBack, Reviewed
    <3> QED  BY <1>r, <2>1, <3>1 DEF Outcome, FeedBack, Row, Kept, RaisedReasons
  <2>2. \A row \in DecisionRows(c) : ~MayFeedBack(row) => Outcome(c, FeedBack(row))
    BY <1>d, <1>u DEF FeedBack, Reasons, RaisedReasons
  <2> QED  BY <1>9, <1>q, <2>1, <2>2 DEF ReviewFeedsBack
<1>10. CASE ReviewEscalates(c)
  <2>1. \A row \in DecisionRows(c) : Outcome(c, Escalate(row, Session(c)))
    BY <1>r, <1>d, <1>10 DEF Outcome, Escalate, MarkNeedsAttention, Row, Kept, fresh, RaisedReasons
  <2> QED  BY <1>10, <1>q, <2>1 DEF ReviewEscalates
<1>11. CASE FinalizeConflicts(c)
  <2>1. Outcome(c, RetryMergeByRebase(After(c)))
    BY <1>r, <1>11 DEF Outcome, RetryMergeByRebase, Row, Kept, FinalizeConflicts, Verified, Completing, RaisedReasons
  <2>2. Outcome(c, MarkNeedsAttention(After(c), "conflict"))
    BY <1>r, <1>u DEF Reasons, RaisedReasons
  <2> QED  BY <1>11, <1>q, <2>1, <2>2 DEF FinalizeConflicts, HandleMergeConflictRetry
<1>12. CASE FinalizeFails(c)
  BY <1>12, <1>q, <1>u, <1>r DEF FinalizeFails, Reasons, RaisedReasons
<1> QED
  BY <1>1, <1>2, <1>3, <1>4, <1>5, <1>6, <1>7, <1>8, <1>9, <1>10, <1>11, <1>12

\* A unit that is not launched, and an unfinished COMPLETE that was resumed often enough.
LEMMA RefusalGivesBack ==
  ASSUME TypeOK, NEW c \in Chunks,
         \/ StartFails(c) \/ Reroute(c) \/ StopIterating(c)
         \/ StillImplementing(c) /\ After(c).completion >= MaxCompletionRetries
  PROVE  GivesBack(c)
<1>0. /\ UNCHANGED <<running, tick, daemon, patched, feedback>>
      /\ git = [git EXCEPT ![c] = git[c]] /\ feedback = [feedback EXCEPT ![c] = feedback[c]]
  BY DEF StartFails, Reroute, StopIterating, StillImplementing, TypeOK
<1>r. db[c] \in Row /\ task[c].row \in Row
  BY DEF TypeOK, Task
<1>1. CASE StartFails(c)
  <2>1. AtHome(c) /\ Free /\ RunRow(c) = db[c]
    BY <1>1 DEF StartFails, TaskAt, AtHome, RunRow
  <2>2. Outcome(c, MarkNeedsAttention(db[c], "other"))
    BY <1>0, <1>r, <1>1, <2>1 DEF Outcome, MarkNeedsAttention, Row, RaisedReasons, StartFails, TaskAt
  <2>3. \/ git' = git
        \/ git' = [git EXCEPT ![c] = "branch"] /\ task[c].phase = "PLAN"
    BY <1>1 DEF StartFails
  <2> QED  BY <1>0, <1>1, <2>1, <2>2, <2>3, SettleGivesBack DEF StartFails, Ends
<1>2. CASE Reroute(c)
  <2>1. AtHome(c) /\ Free /\ RunRow(c) = task[c].row /\ git' = git
    BY <1>2 DEF Reroute, TaskAt, AtHome, RunRow, Working
  <2>2. Outcome(c, RouteBackUnaddressed(task[c].row))
    BY <1>0, <1>r, <1>2, <2>1 DEF Outcome, RouteBackUnaddressed, Row, RaisedReasons, Reroute, TaskAt
  <2> QED  BY <1>0, <1>2, <2>1, <2>2, SettleGivesBack DEF Reroute, Ends
<1>3. CASE StopIterating(c)
  <2>1. AtHome(c) /\ Free /\ RunRow(c) = task[c].row /\ git' = git
    BY <1>3 DEF StopIterating, TaskAt, AtHome, RunRow, Working
  <2>2. Outcome(c, MarkNeedsAttention(task[c].row, "iterations"))
    BY <1>0, <1>r, <1>3, <2>1
       DEF Outcome, MarkNeedsAttention, Row, RaisedReasons, StopIterating, TaskAt, Working
  <2> QED  BY <1>0, <1>3, <2>1, <2>2, SettleGivesBack DEF StopIterating, Ends
<1>4. CASE StillImplementing(c) /\ After(c).completion >= MaxCompletionRetries
  <2>1. AtWork(c) /\ git' = git /\ Settle(c, MarkNeedsAttention(After(c), "other"))
    BY <1>4 DEF StillImplementing, Completing
  <2>2. Outcome(c, MarkNeedsAttention(After(c), "other"))
    BY <1>0, <2>1, RunFacts DEF Outcome, MarkNeedsAttention, Row, RaisedReasons
  <2> QED  BY <1>0, <1>4, <2>1, <2>2, RunFacts, SettleGivesBack DEF Ends
<1> QED  BY <1>1, <1>2, <1>3, <1>4

\* The agent of c is launched, or resumed to finish COMPLETE, with the row of its run.
GoesOn(c) ==
    LET r == task[c].row
        next == task'[c].row IN
    /\ OwnStep(c) /\ running' = running /\ git' = git /\ feedback' = feedback
    /\ task[c].at \in Working /\ task'[c].phase = task[c].phase
    /\ \/ /\ task[c].at = "starting" /\ task'[c].at = "agent" /\ next.session = r.session
          /\ next.answer = r.answer /\ (task[c].phase = "REVIEW" => ~feedback[c])
       \/ /\ task'[c].at = "resume" /\ r.phase = "COMPLETE" /\ next.answer = "none" /\ Completing(c)
          /\ git[c] = "worktree" /\ next.session \in {r.session, SessionAfter(r, task[c].phase)}
    /\ next \in Row /\ next.phase = r.phase /\ next.status = r.status
    /\ next.reason = r.reason /\ next.blockedBy = r.blockedBy
    /\ db' = db \/ (Exists(db[c]) /\ db'[c] = next)

\* The row of c was deleted before its agent could go on.
Leaves(c) ==
    /\ OwnStep(c) /\ running' = running /\ git' = git /\ feedback' = feedback
    /\ task[c].at \in Working /\ db' = db /\ ~Exists(db[c]) /\ task'[c] = Leaving("exit")

\* The agent is launched or resumed, or its row is gone.
LEMMA LaunchGoesOn ==
  ASSUME TypeOK, NEW c \in Chunks,
         \/ Launch(c)
         \/ StillImplementing(c) /\ ~(After(c).completion >= MaxCompletionRetries)
  PROVE  GoesOn(c) \/ Leaves(c)
<1>0. /\ task[c] \in Task /\ task[c].row \in Row /\ task \in [Chunks -> Task] /\ db \in [Chunks -> Row]
  BY DEF TypeOK, Task
<1>1. CASE Launch(c)
  <2> DEFINE counted == [task[c].row EXCEPT !.impl = @ + 1]
  <2>1. /\ Free /\ Live(c) /\ task[c].at = "starting"
        /\ UNCHANGED <<running, tick, daemon, git, feedback, patched>>
        /\ task[c].phase = "REVIEW" => ~feedback[c]
    BY <1>1 DEF Launch, TaskAt, Live
  <2>2. CASE task[c].phase # "IMPLEMENT"
    <3>1. db' = db /\ task' = [task EXCEPT ![c] = [task[c] EXCEPT !.at = "agent"]]
      BY <1>1, <2>2 DEF Launch, SetTask
    <3>2. task'[c] = [task[c] EXCEPT !.at = "agent"]
      BY <1>0, <3>1
    <3>3. task'[c].at = "agent" /\ task'[c].row = task[c].row /\ task'[c].phase = task[c].phase
      BY <1>0, <3>2 DEF Task
    <3>4. OwnStep(c)
      BY <1>0, <2>1, <3>1 DEF OwnStep
    <3> QED  BY <1>0, <2>1, <3>1, <3>3, <3>4 DEF GoesOn, Working
  <2>3. CASE task[c].phase = "IMPLEMENT" /\ Exists(db[c])
    <3>1. /\ task' = [task EXCEPT ![c] = [task[c] EXCEPT !.at = "agent", !.row = counted]]
          /\ db' = [db EXCEPT ![c] = counted] /\ task[c].row.impl <= MaxIterations
      BY <1>1, <2>3 DEF Launch, SetTask, Written
    <3>2. counted \in Row
      <4>1. task[c].row.impl + 1 \in 0..(MaxIterations + 1)
        BY <1>0, <3>1, BoundsAssumption DEF Row
      <4> QED  BY <1>0, <4>1 DEF Row
    <3>3. /\ task'[c].at = "agent" /\ task'[c].row = counted /\ task'[c].phase = task[c].phase
          /\ db'[c] = counted
      BY <1>0, <3>1 DEF Task
    <3>4. OwnStep(c)
      BY <1>0, <2>1, <3>1 DEF OwnStep
    <3>5. /\ counted.phase = task[c].row.phase /\ counted.status = task[c].row.status
          /\ counted.reason = task[c].row.reason /\ counted.blockedBy = task[c].row.blockedBy
          /\ counted.session = task[c].row.session /\ counted.answer = task[c].row.answer
      BY <1>0 DEF Row
    <3> HIDE DEF counted
    <3> QED  BY <2>1, <2>3, <3>2, <3>3, <3>4, <3>5 DEF GoesOn, Working
  <2>4. CASE task[c].phase = "IMPLEMENT" /\ ~Exists(db[c])
    <3>1. db' = db /\ task' = [task EXCEPT ![c] = Leaving("exit")]
      BY <1>0, <1>1, <2>4 DEF Launch, SetTask, Written
    <3> QED  BY <1>0, <2>1, <2>4, <3>1 DEF Leaves, OwnStep, Working
  <2> QED  BY <2>2, <2>3, <2>4
<1>2. CASE StillImplementing(c) /\ ~(After(c).completion >= MaxCompletionRetries)
  <2> DEFINE again == [After(c) EXCEPT !.completion = @ + 1]
  <2>1. /\ Free /\ Live(c) /\ task[c].at \in {"agent", "resume"} /\ AtWork(c)
        /\ git[c] = "worktree" /\ After(c).phase = "COMPLETE" /\ Completing(c)
        /\ UNCHANGED <<running, tick, daemon, git, feedback, patched>>
    BY <1>2 DEF StillImplementing, Completing, AtWork, TaskAt, Live
  <2>2. /\ After(c) \in Row /\ After(c).answer = "none" /\ RunRow(c) = task[c].row
        /\ After(c).phase = task[c].row.phase /\ After(c).status = task[c].row.status
        /\ After(c).reason = task[c].row.reason /\ After(c).blockedBy = task[c].row.blockedBy
        /\ After(c).session \in {task[c].row.session, SessionAfter(task[c].row, task[c].phase)}
    BY <2>1, RunFacts
  <2>3. again \in Row
    <3>1. After(c).completion + 1 \in 0..MaxCompletionRetries
      BY <1>2, <2>2, BoundsAssumption DEF Row
    <3> QED  BY <2>2, <3>1 DEF Row
  <2>4. /\ again.phase = After(c).phase /\ again.status = After(c).status
        /\ again.reason = After(c).reason /\ again.blockedBy = After(c).blockedBy
        /\ again.session = After(c).session /\ again.answer = After(c).answer
    BY <2>2 DEF Row
  <2>5. /\ db' = Written(c, again)
        /\ task' = [task EXCEPT ![c] = IF Exists(db[c])
                          THEN [task[c] EXCEPT !.at = "resume", !.row = again]
                          ELSE Leaving("exit")]
    BY <1>2 DEF StillImplementing, SetTask
  <2> HIDE DEF again
  <2>6. OwnStep(c)
    BY <1>0, <2>1, <2>5 DEF OwnStep, Written
  <2>7. CASE Exists(db[c])
    <3>1. /\ task'[c].at = "resume" /\ task'[c].row = again /\ task'[c].phase = task[c].phase
          /\ db'[c] = again
      BY <1>0, <2>5, <2>7 DEF Task, Written
    <3> QED  BY <2>1, <2>2, <2>3, <2>4, <2>6, <2>7, <3>1 DEF GoesOn, Working
  <2>8. CASE ~Exists(db[c])
    <3>1. db' = db /\ task'[c] = Leaving("exit")
      BY <1>0, <2>5, <2>8 DEF Written
    <3> QED  BY <2>1, <2>6, <2>8, <3>1 DEF Leaves, Working
  <2> QED  BY <2>7, <2>8
<1> QED  BY <1>1, <1>2

\* The work of c is finished: merged, or its worktree retained.
Finishes(c) ==
    LET r == task[c].row IN
    /\ OwnStep(c) /\ running' = running /\ feedback' = feedback
    /\ task[c].at \in {"agent", "resume"} /\ r.phase = "COMPLETE" /\ git[c] = "worktree"
    /\ IF Exists(db[c])
       THEN /\ task'[c] = Leaving("announce")
            /\ db'[c].status = "DONE" /\ db'[c].phase = "COMPLETE" /\ db'[c].session = "none"
            /\ db'[c].answer = "none" /\ db'[c].reason = r.reason
            /\ git'[c] = "merged" \/ (git'[c] = "worktree" /\ db'[c].retain)
       ELSE db' = db /\ task'[c] = Leaving("exit") /\ git'[c] \in {"merged", "worktree"}

\* A finalization that succeeds finishes the unit.
LEMMA FinalizedFinishes ==
  ASSUME TypeOK, NEW c \in Chunks, FinalizeRetained(c) \/ FinalizeMerged(c)
  PROVE  Finishes(c)
<1>0. /\ task \in [Chunks -> Task] /\ db \in [Chunks -> Row] /\ git \in [Chunks -> Places]
  BY DEF TypeOK
<1>1. /\ WriteDone(c) /\ AtWork(c) /\ After(c).phase = "COMPLETE" /\ git[c] = "worktree"
      /\ UNCHANGED <<running, tick, daemon, feedback, patched>>
  BY DEF FinalizeRetained, FinalizeMerged, Verified, Completing
<1>2. /\ task[c].at \in {"agent", "resume"} /\ Free /\ Live(c) /\ RunRow(c) = task[c].row
      /\ After(c) \in Row /\ After(c).answer = "none" /\ After(c).reason = task[c].row.reason
      /\ task[c].row.phase = "COMPLETE"
  BY <1>1, RunFacts DEF Live
<1>3. /\ Finished(After(c)).status = "DONE" /\ Finished(After(c)).phase = "COMPLETE"
      /\ Finished(After(c)).session = "none" /\ Finished(After(c)).answer = "none"
      /\ Finished(After(c)).reason = task[c].row.reason
      /\ Finished(After(c)).retain = After(c).retain
  BY <1>1, <1>2 DEF Finished, Row
<1>4. \/ git' = git /\ After(c).retain
      \/ git' = [git EXCEPT ![c] = "merged"]
  BY DEF FinalizeRetained, FinalizeMerged
<1>5. /\ db' = Written(c, Finished(After(c)))
      /\ task' = [task EXCEPT ![c] = Leaving(IF Exists(db[c]) THEN "announce" ELSE "exit")]
  BY <1>1 DEF WriteDone, SetTask
<1>6. OwnStep(c)
  BY <1>0, <1>1, <1>2, <1>4, <1>5 DEF OwnStep, Written
<1>7. git'[c] = "merged" \/ (git'[c] = "worktree" /\ After(c).retain)
  BY <1>0, <1>1, <1>4
<1>8. CASE Exists(db[c])
  <2>1. db'[c] = Finished(After(c)) /\ task'[c] = Leaving("announce")
    BY <1>0, <1>5, <1>8 DEF Written
  <2> QED  BY <1>1, <1>2, <1>3, <1>6, <1>7, <1>8, <2>1 DEF Finishes
<1>9. CASE ~Exists(db[c])
  <2>1. db' = db /\ task'[c] = Leaving("exit")
    BY <1>0, <1>5, <1>9 DEF Written
  <2> QED  BY <1>1, <1>2, <1>6, <1>7, <1>9, <2>1 DEF Finishes
<1> QED  BY <1>8, <1>9

\* The run of c starts: the row is marked RUNNING and the worktree is made.
Begins(c) ==
    /\ OwnStep(c) /\ running' = running /\ feedback' = feedback
    /\ task[c].at = "spawned" /\ task'[c].at = "starting" /\ task'[c].phase = task[c].phase
    /\ db[c].status = "READY" /\ db'[c] = task'[c].row /\ git'[c] = "worktree"
    /\ task'[c].row.status = "RUNNING" /\ task'[c].row.phase = db[c].phase
    /\ task'[c].row.session = db[c].session /\ task'[c].row.answer = db[c].answer
    /\ task'[c].row.reason = "none" /\ task'[c].row.blockedBy = {}

\* The start of a run marks the row RUNNING and makes the worktree.
LEMMA StartBegins ==
  ASSUME TypeOK, NEW c \in Chunks, Start(c)
  PROVE  Begins(c)
<1>0. /\ task \in [Chunks -> Task] /\ db \in [Chunks -> Row] /\ git \in [Chunks -> Places]
      /\ db[c] \in Row /\ task[c] \in Task
  BY DEF TypeOK
<1> DEFINE row == Dispatched(db[c])
<1>1. /\ task[c].at = "spawned" /\ Free /\ Live(c) /\ db[c].status = "READY"
      /\ UNCHANGED <<running, tick, daemon, feedback, patched>>
      /\ git' = [git EXCEPT ![c] = "worktree"] /\ db' = [db EXCEPT ![c] = row]
      /\ task' = [task EXCEPT ![c] = [task[c] EXCEPT !.at = "starting", !.row = row]]
  BY DEF Start, SetTask, TaskAt, Live
<1>2. /\ row.status = "RUNNING" /\ row.phase = db[c].phase /\ row.session = db[c].session
      /\ row.answer = db[c].answer /\ row.reason = "none" /\ row.blockedBy = {}
  BY <1>0 DEF Dispatched, Row
<1> HIDE DEF row
<1>3. task'[c].at = "starting" /\ task'[c].row = row /\ task'[c].phase = task[c].phase
  BY <1>0, <1>1 DEF Task
<1>4. db'[c] = row /\ git'[c] = "worktree"
  BY <1>0, <1>1
<1>5. OwnStep(c)
  BY <1>0, <1>1 DEF OwnStep
<1> QED  BY <1>1, <1>2, <1>3, <1>4, <1>5 DEF Begins

\* A task that ends without a trace in the table: passed over at its start, or done.
Vanishes(c) ==
    /\ OwnStep(c) /\ db' = db /\ git' = git /\ feedback' = feedback
    /\ task[c].at \in {"spawned", "exit"} /\ task'[c] = NoTask
    /\ running' = running \/ tick.at = "idle"

\* The TOCTOU guard and the finally clause write nothing.
LEMMA ExitVanishes ==
  ASSUME TypeOK, NEW c \in Chunks, StartSkipped(c) \/ Exit(c)
  PROVE  Vanishes(c)
<1>1. /\ task' = [task EXCEPT ![c] = NoTask] /\ Free /\ Live(c)
      /\ task[c].at \in {"spawned", "exit"}
      /\ UNCHANGED <<db, tick, daemon, git, feedback, patched>>
      /\ \/ running' = running
         \/ running' = running \ {c} /\ tick.at = "idle"
  BY DEF StartSkipped, Exit, SetTask, TaskAt, Live
<1>2. task'[c] = NoTask /\ \A d \in Chunks \ {c} : task'[d] = task[d]
  BY <1>1 DEF TypeOK
<1> QED  BY <1>1, <1>2 DEF Vanishes, OwnStep

\* Every step of a coroutine is one of these, or unblocks the dependents of a unit.
LEMMA TaskShapes ==
  ASSUME TypeOK, NEW c \in Chunks, Starting(c) \/ AgentReturns(c)
  PROVE  GivesBack(c) \/ GoesOn(c) \/ Leaves(c) \/ Finishes(c) \/ Begins(c) \/ Vanishes(c)
<1>1. Starting(c) => GivesBack(c) \/ GoesOn(c) \/ Leaves(c) \/ Begins(c) \/ Vanishes(c)
  BY RefusalGivesBack, LaunchGoesOn, StartBegins, ExitVanishes DEF Starting
<1>2. AgentReturns(c) => GivesBack(c) \/ GoesOn(c) \/ Leaves(c) \/ Finishes(c)
  BY ResultGivesBack, RefusalGivesBack, LaunchGoesOn, FinalizedFinishes DEF AgentReturns
<1> QED  BY <1>1, <1>2

\* unblock_dependents after e was finished, on every row.
Unblocks(e) ==
    /\ Free /\ UNCHANGED <<running, tick, daemon, git, feedback>>
    /\ \A d \in Chunks :
         /\ db'[d].phase = db[d].phase /\ db'[d].session = db[d].session
         /\ db'[d].answer = db[d].answer /\ db'[d].retain = db[d].retain
         /\ db'[d].blockedBy = db[d].blockedBy \ {e}
         /\ \/ /\ db'[d].status = db[d].status /\ db'[d].reason = db[d].reason
               /\ db[d].status = "BLOCKED" => db[d].blockedBy = {} \/ db'[d].blockedBy # {}
            \/ /\ db[d].status \in {"BLOCKED", "NEEDS_ATTENTION"} /\ db[d].blockedBy = {e}
               /\ db'[d].status = "READY" /\ db'[d].reason = "none"
    /\ \A d \in Chunks \ {e} : task'[d] = task[d] /\ (d \in patched' <=> d \in patched)
    /\ \/ task' = task /\ e \in patched /\ patched' = patched \ {e}
       \/ task[e].at = "announce" /\ task'[e] = Leaving("exit") /\ patched' = patched

\* What unblock_dependents does to one row, column by column.
LEMMA UnblockedColumns ==
  ASSUME NEW row \in Row, NEW e \in Chunks
  PROVE  LET after == Unblocked(row, e) IN
         /\ after.phase = row.phase /\ after.session = row.session
         /\ after.answer = row.answer /\ after.retain = row.retain
         /\ after.blockedBy = row.blockedBy \ {e}
         /\ \/ /\ after.status = row.status /\ after.reason = row.reason
               /\ row.status = "BLOCKED" => row.blockedBy = {} \/ after.blockedBy # {}
            \/ /\ row.status \in {"BLOCKED", "NEEDS_ATTENTION"} /\ row.blockedBy = {e}
               /\ after.status = "READY" /\ after.reason = "none"
<1>1. CASE e \notin row.blockedBy
  BY <1>1 DEF Unblocked, Row
<1>2. CASE e \in row.blockedBy /\ row.blockedBy \ {e} = {} /\ row.status \in {"BLOCKED", "NEEDS_ATTENTION"}
  <2>1. row.blockedBy = {e}
    BY <1>2
  <2> QED  BY <1>2, <2>1 DEF Unblocked, Row
<1>3. CASE e \in row.blockedBy /\ ~(row.blockedBy \ {e} = {} /\ row.status \in {"BLOCKED", "NEEDS_ATTENTION"})
  BY <1>3 DEF Unblocked, Row
<1> QED  BY <1>1, <1>2, <1>3

\* The announcement of a completion, by its task or by a PATCH handler, is an unblocking.
LEMMA EndingUnblocks ==
  ASSUME TypeOK, NEW c \in Chunks, AnnounceDone(c) \/ UnblockAfterPatch(c)
  PROVE  Unblocks(c)
<1>1. /\ db' = UnblockDependents(db, c) /\ Free
      /\ UNCHANGED <<running, tick, daemon, git, feedback>>
      /\ \/ task' = task /\ c \in patched /\ patched' = patched \ {c}
         \/ /\ task[c].at = "announce" /\ task' = [task EXCEPT ![c] = Leaving("exit")]
            /\ patched' = patched
  BY DEF AnnounceDone, UnblockAfterPatch, TaskAt, SetTask
<1>2. \A d \in Chunks : db[d] \in Row /\ db'[d] = Unblocked(db[d], c)
  BY <1>1 DEF UnblockDependents, TypeOK
<1>3. /\ \A d \in Chunks \ {c} : task'[d] = task[d] /\ (d \in patched' <=> d \in patched)
      /\ \/ task' = task /\ c \in patched /\ patched' = patched \ {c}
         \/ task[c].at = "announce" /\ task'[c] = Leaving("exit") /\ patched' = patched
  BY <1>1 DEF TypeOK
<1>4. ASSUME NEW d \in Chunks
      PROVE  /\ db'[d].phase = db[d].phase /\ db'[d].session = db[d].session
             /\ db'[d].answer = db[d].answer /\ db'[d].retain = db[d].retain
             /\ db'[d].blockedBy = db[d].blockedBy \ {c}
             /\ \/ /\ db'[d].status = db[d].status /\ db'[d].reason = db[d].reason
                   /\ db[d].status = "BLOCKED" => db[d].blockedBy = {} \/ db'[d].blockedBy # {}
                \/ /\ db[d].status \in {"BLOCKED", "NEEDS_ATTENTION"} /\ db[d].blockedBy = {c}
                   /\ db'[d].status = "READY" /\ db'[d].reason = "none"
  BY <1>2, UnblockedColumns
<1> QED  BY <1>1, <1>3, <1>4 DEF Unblocks

-----------------------------------------------------------------------------
(* The dispatch tick, on the row and the task of its unit.                   *)

\* What the queue of a tick that goes on still lists was listed before.
GoesOnWith(t) ==
    t.at # "idle" => t.snap = tick.snap /\ Listed(t.queue) \subseteq Listed(tick.queue)

\* The tick stands at a unit it listed, and its next state lists nothing new.
LEMMA QueueShrinks ==
  ASSUME IInv, tick.at # "idle"
  PROVE  /\ Unit \in Listed(tick.queue) /\ tick.snap[Unit] \in Row
         /\ tick.snap[Unit].status = "READY"
         /\ GoesOnWith(NextUnit) /\ GoesOnWith(IdleTick) /\ GoesOnWith(tick)
         /\ \A B : GoesOnWith([tick EXCEPT !.at = "asking", !.blockers = B])
<1>1. /\ tick \in Tick /\ tick.queue \in Seq(Chunks) /\ Len(tick.queue) \in Nat \ {0}
      /\ Unit \in Chunks
  BY UnitIdle DEF IInv, SlotsInv, TypeOK
<1>2. Unit = tick.queue[1] /\ 1 \in DOMAIN tick.queue
  BY <1>1 DEF Unit
<1>3. /\ Unit \in Listed(tick.queue) /\ tick.snap[Unit] \in Row
      /\ tick.snap[Unit].status = "READY"
  BY <1>1, <1>2 DEF Listed, Tick, IInv, SlotsInv, QueueOK
<1>4. GoesOnWith(IdleTick) /\ GoesOnWith(tick)
  BY DEF GoesOnWith, IdleTick
<1>5. \A B : GoesOnWith([tick EXCEPT !.at = "asking", !.blockers = B])
  BY <1>1 DEF GoesOnWith, Tick
<1>6. GoesOnWith(NextUnit)
  <2>1. CASE Len(tick.queue) = 1
    BY <1>4, <2>1 DEF NextUnit
  <2>2. CASE Len(tick.queue) # 1
    <3>1. \A i \in DOMAIN Tail(tick.queue) :
             i + 1 \in DOMAIN tick.queue /\ Tail(tick.queue)[i] = tick.queue[i + 1]
      BY <1>1, <2>2, TailFacts
    <3>2. Listed(Tail(tick.queue)) \subseteq Listed(tick.queue)
      BY <3>1 DEF Listed
    <3>3. NextUnit = [tick EXCEPT !.at = "unit", !.queue = Tail(tick.queue), !.blockers = {}]
      BY <2>2 DEF NextUnit
    <3>4. NextUnit.snap = tick.snap /\ NextUnit.queue = Tail(tick.queue)
      BY <1>1, <3>3 DEF Tick
    <3> QED  BY <3>2, <3>4 DEF GoesOnWith
  <2> QED  BY <2>1, <2>2
<1> QED  BY <1>3, <1>4, <1>5, <1>6

\* A suspended tick has not dispatched the unit it asks about.
AskingInv == tick.at = "asking" => Unit \notin running

\* The row that a tick writes is the row it read, READY or in front of the operator.
FromSnapshot(row, read) ==
    /\ row.phase = read.phase /\ row.session = read.session /\ row.answer = read.answer
    /\ row.retain = read.retain
    /\ \/ row.status = "READY" /\ row.reason = read.reason
       \/ row.status = "NEEDS_ATTENTION" /\ row.reason = "conflict"

\* A step of a tick that holds the lock: it may write the row of one unit u of its queue, or
\* dispatch u.
Ticks(u) ==
    /\ tick.at # "idle" /\ Up /\ u \in Chunks
    /\ UNCHANGED <<daemon, git, feedback, patched>>
    /\ \A d \in Chunks \ {u} : db'[d] = db[d] /\ task'[d] = task[d]
    /\ \A d \in Chunks : Queued(d)' => Queued(d) /\ tick'.snap[d] = tick.snap[d]
    /\ \/ db'[u] = db[u]
       \/ Exists(db[u]) /\ Queued(u) /\ FromSnapshot(db'[u], tick.snap[u])
    /\ \/ task'[u] = task[u]
       \/ /\ Queued(u) /\ ~Live(u)
          /\ task'[u] = [at |-> "spawned", phase |-> tick.snap[u].phase, row |-> NoRow]
          /\ u \in running'

\* Every step of a tick is about its unit.
LEMMA TickTicks ==
  ASSUME IInv, AskingInv, TickStep
  PROVE  Ticks(Unit)
<1>0. /\ tick.at # "idle" /\ Up /\ UNCHANGED <<daemon, git, feedback, patched>>
      /\ running \subseteq running'
  BY DEF TickStep, TickSkip, TickDispatch, TickBlocked, TickAsks, TickAsked, TickAborts, Eligible, Up
<1>1. /\ Unit \in Chunks /\ Unit \in Listed(tick.queue) /\ tick.snap[Unit] \in Row
      /\ tick.snap[Unit].status = "READY" /\ db \in [Chunks -> Row] /\ task \in [Chunks -> Task]
  BY <1>0, UnitIdle, QueueShrinks DEF IInv, SlotsInv, TypeOK
<1>2. GoesOnWith(tick')
  <2>1. \/ tick' \in {NextUnit, IdleTick}
        \/ \E B : tick' = [tick EXCEPT !.at = "asking", !.blockers = B]
    BY DEF TickStep, TickSkip, TickDispatch, TickBlocked, TickAsks, TickAsked, TickAborts
  <2> QED  BY <1>0, <2>1, QueueShrinks
<1>3. \A d \in Chunks : Queued(d)' => Queued(d) /\ tick'.snap[d] = tick.snap[d]
  BY <1>0, <1>2 DEF Queued, GoesOnWith
<1>4. UnitRow \in Row /\ FromSnapshot(UnitRow, tick.snap[Unit])
  BY <1>1, Columns DEF UnitRow, FromSnapshot, Row
<1>5. /\ FromSnapshot(Asked, tick.snap[Unit]) /\ Asked \in Row
      /\ \A B \in SUBSET Chunks : /\ FromSnapshot([Asked EXCEPT !.blockedBy = @ \cup B], tick.snap[Unit])
                                  /\ FromSnapshot([UnitRow EXCEPT !.blockedBy = @ \cup B], tick.snap[Unit])
  BY <1>4, UnitIdle, <1>0 DEF Asked, MarkNeedsAttention, FromSnapshot, Row, IdleRow
<1>w. ASSUME NEW row, FromSnapshot(row, tick.snap[Unit]), db' = Written(Unit, row), Queued(Unit)
      PROVE  /\ \A d \in Chunks \ {Unit} : db'[d] = db[d]
             /\ \/ db'[Unit] = db[Unit]
                \/ Exists(db[Unit]) /\ Queued(Unit) /\ FromSnapshot(db'[Unit], tick.snap[Unit])
  BY <1>1, <1>w DEF Written
<1>v. ASSUME NEW fresh, db' = TickWrote(fresh), Queued(Unit)
      PROVE  /\ \A d \in Chunks \ {Unit} : db'[d] = db[d]
             /\ \/ db'[Unit] = db[Unit]
                \/ Exists(db[Unit]) /\ Queued(Unit) /\ FromSnapshot(db'[Unit], tick.snap[Unit])
  BY <1>1, <1>4, <1>v, <1>w DEF TickWrote
<1>6. CASE TickSkip \/ TickAborts
  BY <1>0, <1>1, <1>3, <1>6 DEF Ticks, TickSkip, TickAborts
<1>7. CASE TickDispatch
  <2>1. Unit \notin running /\ Queued(Unit) /\ ~Live(Unit)
    BY <1>0, <1>1, <1>7 DEF TickDispatch, Eligible, Queued, IInv, SlotsInv, KeysOK
  <2>2. /\ task' = [task EXCEPT ![Unit] = [at |-> "spawned", phase |-> UnitRow.phase, row |-> NoRow]]
        /\ Unit \in running' /\ \E fresh : db' = TickWrote(fresh)
    BY <1>7 DEF TickDispatch
  <2>3. /\ task'[Unit] = [at |-> "spawned", phase |-> tick.snap[Unit].phase, row |-> NoRow]
        /\ \A d \in Chunks \ {Unit} : task'[d] = task[d]
    BY <1>1, <1>4, <2>2 DEF FromSnapshot
  <2> QED  BY <1>0, <1>1, <1>3, <1>v, <2>1, <2>2, <2>3 DEF Ticks
<1>8. CASE TickBlocked
  <2>1. Unit \notin running /\ Queued(Unit) /\ task' = task
    BY <1>0, <1>1, <1>8 DEF TickBlocked, Eligible, Queued
  <2>2. \/ \E fresh : db' = TickWrote(fresh)
        \/ \E B \in SUBSET Chunks : db' = Written(Unit, [UnitRow EXCEPT !.blockedBy = @ \cup B])
    <3>1. \A B \in Conflicts : B \subseteq Chunks
      BY <1>4 DEF Conflicts, OthersWith, WithStatus, Row
    <3> QED  BY <1>8, <3>1 DEF TickBlocked
  <2>3. CASE \E fresh : db' = TickWrote(fresh)
    BY <1>0, <1>1, <1>3, <1>v, <2>1, <2>3 DEF Ticks
  <2>4. CASE \E B \in SUBSET Chunks : db' = Written(Unit, [UnitRow EXCEPT !.blockedBy = @ \cup B])
    BY <1>0, <1>1, <1>3, <1>5, <1>w, <2>1, <2>4 DEF Ticks
  <2> QED  BY <2>2, <2>3, <2>4
<1>9. CASE TickAsks
  <2>1. Unit \notin running /\ Queued(Unit) /\ task' = task
    BY <1>0, <1>1, <1>9 DEF TickAsks, Eligible, Queued
  <2> QED  BY <1>0, <1>1, <1>3, <1>5, <1>9, <1>w, <2>1 DEF Ticks, TickAsks
<1>10. CASE TickAsked
  <2>1. Queued(Unit) /\ task' = task
    BY <1>0, <1>1, <1>10 DEF TickAsked, AskingInv, Queued
  <2>2. \/ db' = db
        \/ \E B \in SUBSET Chunks : db' = Written(Unit, [Asked EXCEPT !.blockedBy = @ \cup B])
    <3>1. tick.blockers \in SUBSET Chunks
      BY DEF IInv, SlotsInv, TypeOK, Tick
    <3> QED  BY <1>10, <3>1 DEF TickAsked
  <2>3. CASE db' = db
    BY <1>0, <1>1, <1>3, <2>1, <2>3 DEF Ticks
  <2>4. CASE \E B \in SUBSET Chunks : db' = Written(Unit, [Asked EXCEPT !.blockedBy = @ \cup B])
    BY <1>0, <1>1, <1>3, <1>5, <1>w, <2>1, <2>4 DEF Ticks
  <2> QED  BY <2>2, <2>3, <2>4
<1> QED  BY <1>6, <1>7, <1>8, <1>9, <1>10 DEF TickStep

\* A tick starts: what it lists was just read as READY, and is not running.
Lists ==
    /\ Free /\ tick.at = "idle" /\ running' \subseteq running
    /\ UNCHANGED <<db, task, daemon, git, feedback, patched>>
    /\ \A d \in Chunks : Queued(d)' =>
          db[d].status = "READY" /\ ~Live(d) /\ tick'.snap[d] = db[d]

\* A tick lists what it just read as READY.
LEMMA TickStartLists ==
  ASSUME IInv, TickStart
  PROVE  Lists
<1>1. /\ Free /\ tick.at = "idle" /\ running' = StillRunning
      /\ UNCHANGED <<db, task, daemon, git, feedback, patched>>
  BY DEF TickStart
<1>2. CASE FreeSlots > 0 /\ WithStatus("READY") # {}
  <2>1. PICK q \in ReadyQueues(FreeSlots) :
           tick' = [at |-> "unit", queue |-> q, snap |-> db, blockers |-> {}]
    BY <1>2 DEF TickStart
  <2>2. FreeSlots \in Nat \ {0}
    <3>1. IsFiniteSet(running) /\ StillRunning \subseteq running
      BY SchedulerAssumption, FS_Subset DEF IInv, SlotsInv, TypeOK, StillRunning
    <3>2. Cardinality(StillRunning) \in Nat
      BY <3>1, FS_Subset, FS_CardinalityType
    <3> QED  BY <1>2, <3>2, SchedulerAssumption DEF FreeSlots
  <2>3. \A d \in Listed(q) : db[d].status = "READY"
    BY <1>2, <2>2, ReadyQueueFacts DEF Listed, IInv, SlotsInv
  <2>4. \A d \in Chunks : d \notin running' => ~Live(d)
    BY <1>1 DEF IInv, SlotsInv, KeysOK, StillRunning
  <2> QED  BY <1>1, <2>1, <2>3, <2>4 DEF Lists, Queued, StillRunning
<1>3. CASE ~(FreeSlots > 0 /\ WithStatus("READY") # {})
  BY <1>1, <1>3 DEF Lists, Queued, StillRunning, TickStart
<1> QED  BY <1>2, <1>3

-----------------------------------------------------------------------------
(* The API, the clock, a crash, the recovery.                                *)

\* Nothing of another unit changes.
OthersStand(c) == \A d \in Chunks \ {c} : /\ db'[d] = db[d] /\ task'[d] = task[d]
                                          /\ git'[d] = git[d] /\ feedback'[d] = feedback[d]

\* What a request other than a deletion may do to the row.
Handled(c) ==
    LET row == db[c]
        new == db'[c] IN
    /\ new.phase = row.phase /\ (new.retain = row.retain \/ new.retain)
    /\ new.session \in {row.session, "none"} /\ new.answer \in {row.answer, "operator"}
    /\ \/ /\ row.status = "NEEDS_ATTENTION" /\ new.status = "READY"
          /\ new.reason = "none" /\ new.blockedBy = row.blockedBy
       \/ /\ new.status \in Patchable /\ new.reason = row.reason /\ new.blockedBy = row.blockedBy
       \/ /\ new.status = row.status /\ new.reason = row.reason /\ new.blockedBy = row.blockedBy
          /\ "patch" \in OperatorRequests
       \/ /\ "resolve" \in OperatorRequests /\ new.status = row.status /\ new.reason = row.reason
          /\ new.blockedBy \subseteq row.blockedBy \/ row.status # "NEEDS_ATTENTION"
       \/ /\ "resolve" \in OperatorRequests /\ row.status = "NEEDS_ATTENTION"
          /\ new.status \in {"BLOCKED", "READY"} /\ new.reason = "none"

\* A request of an operator about c.
Requested(c) ==
    /\ Free /\ Exists(db[c]) /\ used'.requests > used.requests
    /\ UNCHANGED <<running, tick, daemon>> /\ task' = task
    /\ OthersStand(c)
    /\ \/ ~NoDeletes /\ db'[c] = NoRow /\ git'[c] = "none" /\ feedback'[c] = FALSE /\ patched' = patched
       \/ /\ Handled(c) /\ git'[c] = git[c] /\ feedback'[c] = feedback[c]
          /\ patched' = patched \/ ("DONE" \in Patchable /\ patched' = patched \cup {c})
          /\ db'[c].status = "DONE" => db[c].status = "DONE" \/ c \in patched'

\* Every request about a unit that exists.
LEMMA OperatorRequested ==
  ASSUME TypeOK, NEW c \in Chunks,
         \/ Answer(c) \/ Retry(c) \/ PatchRetain(c) \/ Delete(c)
         \/ \E other \in Chunks \ {c} : Resolve(c, other)
         \/ \E s \in PatchStatuses : PatchStatus(c, s)
  PROVE  Requested(c)
<1>0. /\ db \in [Chunks -> Row] /\ db[c] \in Row /\ git \in [Chunks -> Places]
      /\ feedback \in [Chunks -> BOOLEAN] /\ used.requests \in Nat
      /\ used \in [requests: Nat, crashes: Nat, limits: Nat]
  BY DEF TypeOK
<1>1. /\ Free /\ Exists(db[c]) /\ used' = [used EXCEPT !.requests = @ + 1]
      /\ UNCHANGED <<running, tick, daemon>> /\ task' = task
  BY DEF Answer, Retry, PatchRetain, Delete, Resolve, PatchStatus, Request
<1>2. used'.requests > used.requests
  BY <1>0, <1>1
<1>a. ASSUME NEW row, db' = [db EXCEPT ![c] = row]
      PROVE  db'[c] = row /\ \A d \in Chunks \ {c} : db'[d] = db[d]
  BY <1>0, <1>a
<1>b. ASSUME UNCHANGED <<git, feedback>>, Handled(c), \A d \in Chunks \ {c} : db'[d] = db[d],
             patched' = patched \/ ("DONE" \in Patchable /\ patched' = patched \cup {c}),
             db'[c].status = "DONE" => db[c].status = "DONE" \/ c \in patched'
      PROVE  Requested(c)
  BY <1>1, <1>2, <1>b DEF Requested, OthersStand
<1>3. CASE Answer(c)
  <2>1. db'[c] = AnswerRow(db[c]) => Handled(c) /\ db'[c].status = "READY"
    BY <1>0, <1>3 DEF AnswerRow, Row, Handled, Answer
  <2> QED  BY <1>3, <1>a, <1>b, <2>1 DEF Answer
<1>4. CASE Retry(c)
  <2>1. db'[c] = RetryRow(db[c]) => Handled(c) /\ db'[c].status = "READY"
    BY <1>0, <1>4 DEF RetryRow, Row, Handled, Retry
  <2> QED  BY <1>4, <1>a, <1>b, <2>1 DEF Retry
<1>5. CASE PatchRetain(c)
  <2>1. db'[c] = [db[c] EXCEPT !.retain = TRUE] => Handled(c) /\ db'[c].status = db[c].status
    BY <1>0, <1>5 DEF Row, Handled, PatchRetain, Request
  <2>2. db' = [db EXCEPT ![c] = [db[c] EXCEPT !.retain = TRUE]] /\ UNCHANGED <<git, feedback, patched>>
    BY <1>0, <1>5 DEF PatchRetain
  <2> QED  BY <1>a, <1>b, <2>1, <2>2
<1>6. CASE Delete(c)
  <2>1. ~NoDeletes
    BY <1>6 DEF Delete, Request, NoDeletes
  <2> QED  BY <1>0, <1>1, <1>2, <1>6, <2>1 DEF Delete, Requested, OthersStand
<1>7. ASSUME NEW other \in Chunks \ {c}, Resolve(c, other)
      PROVE  Requested(c)
  <2>1. "resolve" \in OperatorRequests
    BY <1>7 DEF Resolve, Request
  <2>2. db'[c] = SerializeAfter(db[c], other) => Handled(c) /\ (db'[c].status = "DONE" => db[c].status = "DONE")
    BY <1>0, <2>1 DEF SerializeAfter, Row, Handled
  <2>3. db'[c] = ParallelizeWith(db[c], other) => Handled(c) /\ (db'[c].status = "DONE" => db[c].status = "DONE")
    BY <1>0, <2>1 DEF ParallelizeWith, Row, Handled
  <2> QED  BY <1>7, <1>a, <1>b, <2>2, <2>3 DEF Resolve
<1>8. ASSUME NEW s \in PatchStatuses, PatchStatus(c, s)
      PROVE  Requested(c)
  <2>1. s \in Patchable
    BY <1>8 DEF PatchStatus, Request, Patchable
  <2>2. db'[c] = [db[c] EXCEPT !.status = s] => Handled(c) /\ db'[c].status = s
    BY <1>0, <2>1 DEF Row, Handled
  <2>3. db' = [db EXCEPT ![c] = [db[c] EXCEPT !.status = s]] /\ UNCHANGED <<git, feedback>>
    BY <1>0, <1>8 DEF PatchStatus
  <2>4. /\ patched' = patched \/ ("DONE" \in Patchable /\ patched' = patched \cup {c})
        /\ s = "DONE" => db[c].status = "DONE" \/ c \in patched'
    BY <1>8, <2>1 DEF PatchStatus
  <2> QED  BY <1>a, <1>b, <2>2, <2>3, <2>4
<1> QED  BY <1>3, <1>4, <1>5, <1>6, <1>7, <1>8

\* A chunk is injected.
Injected(c) ==
    /\ Free /\ ~Exists(db[c]) /\ UNCHANGED <<running, tick, daemon, git, feedback, patched>>
    /\ task' = task
    /\ \A d \in Chunks \ {c} : db'[d] = db[d]
    /\ db'[c].phase \in StartPhases /\ db'[c].blockedBy = ActiveBlockers(c)
    /\ db'[c].session = "none" /\ db'[c].answer = "none" /\ db'[c].reason = "none"
    /\ db'[c].status = IF ActiveBlockers(c) = {} THEN "READY" ELSE "BLOCKED"

\* An injection.
LEMMA InjectInjected ==
  ASSUME TypeOK, NEW c \in Chunks, Inject(c)
  PROVE  Injected(c)
<1>1. db \in [Chunks -> Row]
  BY DEF TypeOK
<1> QED  BY <1>1 DEF Inject, Injected, NewRow

\* The clock passes next_retry_at, which nothing here depends on.
Waits(c) ==
    /\ Free /\ UNCHANGED <<running, tick, daemon, git, feedback, patched>> /\ task' = task
    /\ \A d \in Chunks \ {c} : db'[d] = db[d]
    /\ db'[c].phase = db[c].phase /\ db'[c].status = db[c].status /\ db'[c].retain = db[c].retain
    /\ db'[c].session = db[c].session /\ db'[c].answer = db[c].answer
    /\ db'[c].reason = db[c].reason /\ db'[c].blockedBy = db[c].blockedBy

\* The end of a backoff.
LEMMA BackoffWaits ==
  ASSUME TypeOK, NEW c \in Chunks, BackoffElapses(c)
  PROVE  Waits(c)
<1>1. db \in [Chunks -> Row] /\ db[c] \in Row
  BY DEF TypeOK
<1>2. db' = [db EXCEPT ![c] = [db[c] EXCEPT !.backoff = "elapsed"]]
  BY <1>1 DEF BackoffElapses
<1>3. db'[c] = [db[c] EXCEPT !.backoff = "elapsed"] /\ \A d \in Chunks \ {c} : db'[d] = db[d]
  BY <1>1, <1>2
<1> QED  BY <1>1, <1>3 DEF BackoffElapses, Waits, Row

\* A crash, perhaps in the middle of a finalization.
Falls ==
    /\ MaxCrashes # 0 /\ daemon' = [mode |-> "down", incomplete |-> {}] /\ patched' = {}
    /\ tick' = IdleTick /\ running' = {} /\ db' = db /\ feedback' = feedback
    /\ \A d \in Chunks : /\ task'[d] = NoTask
                         /\ \/ git'[d] = git[d]
                            \/ /\ git[d] = "worktree" /\ task[d].at \in {"agent", "resume"}
                               /\ task[d].row.phase = "COMPLETE"
                               /\ git'[d] \in {"branch", "mergedBranch", "merged"}

\* Every crash, those in the middle of a finalization too.
LEMMA CrashFalls ==
  ASSUME TypeOK, Crash \/ \E c \in Chunks : CrashInFinalize(c)
  PROVE  Falls
<1>0. git \in [Chunks -> Places] /\ used.crashes \in Nat
  BY DEF TypeOK
<1>1. CASE Crash
  BY <1>0, <1>1, SchedulerAssumption DEF Crash, Fall, Falls
<1>2. ASSUME NEW c \in Chunks, CrashInFinalize(c)
      PROVE  Falls
  <2>1. /\ AtWork(c) /\ git[c] = "worktree" /\ After(c).phase = "COMPLETE" /\ Fall
        /\ \E place \in {"branch", "mergedBranch", "merged"} : git' = [git EXCEPT ![c] = place]
    BY <1>2 DEF CrashInFinalize, Verified, Completing
  <2>2. task[c].at \in {"agent", "resume"} /\ task[c].row.phase = "COMPLETE"
    BY <2>1, RunFacts
  <2> QED  BY <1>0, <2>1, <2>2, SchedulerAssumption DEF Fall, Falls
<1> QED  BY <1>1, <1>2

\* The start of the recovery.
Restarts ==
    /\ daemon.mode = "down" /\ daemon'.mode = "recovering"
    /\ UNCHANGED <<running, tick, feedback, patched>> /\ task' = task
    /\ \A d \in Chunks :
         /\ d \in daemon'.incomplete => Exists(db[d]) /\ Finalizing(db[d]) /\ git[d] = "branch"
         /\ db'[d].phase = db[d].phase /\ db'[d].retain = db[d].retain
         /\ db'[d].session = db[d].session /\ db'[d].answer = db[d].answer
         /\ db'[d].reason = db[d].reason /\ db'[d].blockedBy = db[d].blockedBy
         /\ IF db[d].status = "RUNNING" THEN db'[d].status = "READY" ELSE db'[d].status = db[d].status
         /\ \/ git'[d] = git[d]
            \/ git[d] = "mergedBranch" /\ git'[d] = "merged"

\* The first loop of the recovery, and the list it makes.
LEMMA RestartRestarts ==
  ASSUME TypeOK, Restart
  PROVE  Restarts
<1>1. ASSUME NEW row \in Row
      PROVE  LET next == Requeued(row) IN
             /\ next.phase = row.phase /\ next.retain = row.retain
             /\ next.session = row.session /\ next.answer = row.answer
             /\ next.reason = row.reason /\ next.blockedBy = row.blockedBy
             /\ IF row.status = "RUNNING" THEN next.status = "READY" ELSE next.status = row.status
  <2>1. CASE row.status # "RUNNING"
    BY <2>1 DEF Requeued
  <2>2. CASE row.status = "RUNNING"
    <3>1. PICK b : Requeued(row) = [row EXCEPT !.status = "READY", !.backoff = b]
      BY <2>2 DEF Requeued
    <3> QED  BY <2>2, <3>1 DEF Row
  <2> QED  BY <2>1, <2>2
<1>2. \A d \in Chunks : db[d] \in Row /\ db'[d] = Requeued(db[d])
  BY DEF TypeOK, Restart
<1>3. \A d \in Chunks : \/ git'[d] = git[d]
                        \/ git[d] = "mergedBranch" /\ git'[d] = "merged"
  BY DEF Restart
<1>4. daemon'.mode = "recovering" /\ \A d \in Chunks :
         d \in daemon'.incomplete => Exists(db[d]) /\ Finalizing(db[d]) /\ git[d] = "branch"
  BY DEF Restart
<1> QED  BY <1>1, <1>2, <1>3, <1>4 DEF Restart, Restarts

\* The completion of e, and what it does to the other rows.
Released(e) ==
    \A d \in Chunks \ {e} :
         /\ db'[d].phase = db[d].phase /\ db'[d].session = db[d].session
         /\ db'[d].answer = db[d].answer /\ db'[d].retain = db[d].retain
         /\ db'[d].blockedBy = db[d].blockedBy \ {e}
         /\ \/ /\ db'[d].status = db[d].status /\ db'[d].reason = db[d].reason
               /\ db[d].status = "BLOCKED" => db[d].blockedBy = {} \/ db'[d].blockedBy # {}
            \/ /\ db[d].status \in {"BLOCKED", "NEEDS_ATTENTION"} /\ db[d].blockedBy = {e}
               /\ db'[d].status = "READY" /\ db'[d].reason = "none"

\* The recovery of an incomplete finalization: merged, and DONE when it was in COMPLETE; or
\* handed to the operator.
Recovers(c) ==
    LET row == db[c]
        new == db'[c] IN
    /\ daemon.mode = "recovering" /\ c \in daemon.incomplete
    /\ daemon'.mode = "recovering" /\ daemon'.incomplete = daemon.incomplete \ {c}
    /\ UNCHANGED <<running, tick, feedback, patched>> /\ task' = task
    /\ \A d \in Chunks \ {c} : git'[d] = git[d]
    /\ new.phase = row.phase /\ new.retain = row.retain /\ new.answer = row.answer
    /\ \/ git'[c] = "merged" /\ db' = db /\ (row.phase # "COMPLETE" \/ row.status = "DONE")
       \/ /\ git'[c] = "merged" /\ row.phase = "COMPLETE" /\ row.status # "DONE"
          /\ new.status = "DONE" /\ new.session = "none" /\ new.reason = row.reason
          /\ Released(c)
       \/ /\ git' = git /\ new.status = "NEEDS_ATTENTION" /\ new.reason = "conflict"
          /\ new.session = row.session /\ new.blockedBy = row.blockedBy
          /\ \A d \in Chunks \ {c} : db'[d] = db[d]

\* The recovery of one incomplete finalization.
LEMMA RecoverRecovers ==
  ASSUME TypeOK, NEW c \in Chunks, Recover(c)
  PROVE  Recovers(c)
<1>0. /\ db \in [Chunks -> Row] /\ db[c] \in Row /\ git \in [Chunks -> Places]
      /\ daemon \in Daemon
  BY DEF TypeOK
<1>1. /\ daemon.mode = "recovering" /\ c \in daemon.incomplete
      /\ daemon'.mode = "recovering" /\ daemon'.incomplete = daemon.incomplete \ {c}
      /\ UNCHANGED <<running, tick, feedback, patched>> /\ task' = task
  BY <1>0 DEF Recover, Daemon
<1>2. CASE /\ git' = git
           /\ db' = [db EXCEPT ![c] = MarkNeedsAttention(@, "conflict")]
  <2>1. /\ db'[c] = MarkNeedsAttention(db[c], "conflict")
        /\ \A d \in Chunks \ {c} : db'[d] = db[d]
    BY <1>0, <1>2
  <2>2. /\ db'[c].status = "NEEDS_ATTENTION" /\ db'[c].reason = "conflict"
        /\ db'[c].phase = db[c].phase /\ db'[c].session = db[c].session
        /\ db'[c].answer = db[c].answer /\ db'[c].retain = db[c].retain
        /\ db'[c].blockedBy = db[c].blockedBy
    BY <1>0, <2>1 DEF MarkNeedsAttention, Row
  <2> QED  BY <1>1, <1>2, <2>1, <2>2 DEF Recovers
<1> DEFINE row == RecoveredMerged(db[c])
           table == [db EXCEPT ![c] = row]
<1>3. CASE /\ git' = [git EXCEPT ![c] = "merged"]
           /\ db' = IF row = db[c] THEN db ELSE UnblockDependents(table, c)
  <2>1. git'[c] = "merged" /\ \A d \in Chunks \ {c} : git'[d] = git[d]
    BY <1>0, <1>3
  <2>2. CASE db[c].phase = "COMPLETE" /\ db[c].status # "DONE"
    <3>1. /\ row.status = "DONE" /\ row.session = "none" /\ row.phase = db[c].phase
          /\ row.retain = db[c].retain /\ row.answer = db[c].answer /\ row.reason = db[c].reason
          /\ row \in Row /\ row # db[c]
      <4>1. row = [db[c] EXCEPT !.status = "DONE", !.session = "none", !.api = 0, !.backoff = "none"]
        BY <2>2 DEF RecoveredMerged
      <4>2. row \in Row
        BY <1>0, RecoveredMergedStartsNothing DEF StartsNothing
      <4> QED  BY <1>0, <2>2, <4>1, <4>2 DEF Row
    <3> HIDE DEF row
    <3>2. db'[c] = Unblocked(row, c) /\ \A d \in Chunks \ {c} : db'[d] = Unblocked(db[d], c)
      BY <1>0, <1>3, <3>1 DEF UnblockDependents
    <3>3. /\ db'[c].status = "DONE" /\ db'[c].session = "none" /\ db'[c].reason = db[c].reason
          /\ db'[c].phase = db[c].phase /\ db'[c].retain = db[c].retain
          /\ db'[c].answer = db[c].answer
      BY <3>1, <3>2, UnblockedColumns
    <3>4. ASSUME NEW d \in Chunks \ {c}
          PROVE  /\ db'[d].phase = db[d].phase /\ db'[d].session = db[d].session
                 /\ db'[d].answer = db[d].answer /\ db'[d].retain = db[d].retain
                 /\ db'[d].blockedBy = db[d].blockedBy \ {c}
                 /\ \/ /\ db'[d].status = db[d].status /\ db'[d].reason = db[d].reason
                       /\ db[d].status = "BLOCKED" => db[d].blockedBy = {} \/ db'[d].blockedBy # {}
                    \/ /\ db[d].status \in {"BLOCKED", "NEEDS_ATTENTION"} /\ db[d].blockedBy = {c}
                       /\ db'[d].status = "READY" /\ db'[d].reason = "none"
      <4>1. db[d] \in Row /\ db'[d] = Unblocked(db[d], c)
        BY <1>0, <3>2
      <4> QED  BY <4>1, UnblockedColumns
    <3>5. Released(c)
      BY <3>4 DEF Released
    <3> QED  BY <1>1, <2>1, <2>2, <3>3, <3>5 DEF Recovers
  <2>3. CASE ~(db[c].phase = "COMPLETE" /\ db[c].status # "DONE")
    <3>1. row = db[c]
      BY <2>3 DEF RecoveredMerged
    <3> QED  BY <1>1, <1>3, <2>1, <2>3, <3>1 DEF Recovers
  <2> QED  BY <2>2, <2>3
<1> QED  BY <1>2, <1>3 DEF Recover

-----------------------------------------------------------------------------
(* Every step, as each unit sees it.                                         *)

\* While the daemon is not up there is no tick, no task and no handler; recovery is only in a
\* recovery.  A run works with a row it marked RUNNING.
SideInv ==
    /\ AskingInv
    /\ ~Up => tick.at = "idle" /\ patched = {} /\ \A c \in Chunks : task[c].at = "none"
    /\ daemon.mode # "recovering" => daemon.incomplete = {}
    /\ \A c \in Agents : task[c].row.status = "RUNNING"

\* What the tick still has to do with d, and recovery with it, stays or goes away.
TickForgets(d) == Queued(d)' => Queued(d) /\ tick'.snap[d] = tick.snap[d]
Surroundings(d) ==
    /\ git'[d] = git[d] /\ feedback'[d] = feedback[d] /\ TickForgets(d)
    /\ daemon'.mode # "down" => daemon.mode # "down"
    /\ d \in daemon'.incomplete <=> d \in daemon.incomplete

\* Nothing happens to d but, perhaps, that a backoff elapses.
Stands(d) ==
    /\ Surroundings(d) /\ task'[d] = task[d]
    /\ db'[d].phase = db[d].phase /\ db'[d].status = db[d].status /\ db'[d].retain = db[d].retain
    /\ db'[d].session = db[d].session /\ db'[d].answer = db[d].answer
    /\ db'[d].reason = db[d].reason /\ db'[d].blockedBy = db[d].blockedBy

\* The completion of another unit is taken from the blockers of d, or its own is announced.
Loses(d) ==
    /\ Surroundings(d)
    /\ task'[d] = task[d] \/ (task[d].at = "announce" /\ task'[d] = Leaving("exit"))
    /\ db'[d].phase = db[d].phase /\ db'[d].session = db[d].session
    /\ db'[d].answer = db[d].answer /\ db'[d].retain = db[d].retain
    /\ \E e \in Chunks :
         /\ e \in patched \/ task[e].at = "announce" \/ db'[e].status = "DONE"
         /\ db'[d].blockedBy = db[d].blockedBy \ {e}
         /\ \/ /\ db'[d].status = db[d].status /\ db'[d].reason = db[d].reason
               /\ db[d].status = "BLOCKED" => db[d].blockedBy = {} \/ db'[d].blockedBy # {}
            \/ /\ db[d].status \in {"BLOCKED", "NEEDS_ATTENTION"} /\ db[d].blockedBy = {e}
               /\ db'[d].status = "READY" /\ db'[d].reason = "none"

\* The coroutine of d does something.
Runs(d) ==
    /\ ~Queued(d)
    /\ GivesBack(d) \/ GoesOn(d) \/ Leaves(d) \/ Finishes(d) \/ Begins(d) \/ Vanishes(d)

\* Everything that can happen to d.
UnitStep(d) ==
    \/ Stands(d) \/ Loses(d)
    \/ Lists \/ Ticks(d) \/ Runs(d)
    \/ Requested(d) \/ Injected(d)
    \/ Falls \/ Restarts \/ Recovers(d)

\* A completion is forgotten only when it is announced to all, or by a crash.
Announces ==
    \/ Falls \/ \E e \in Chunks : Unblocks(e)
    \/ /\ patched \subseteq patched'
       /\ \A d \in Chunks : task[d].at = "announce" => task'[d].at = "announce"

\* A step of a coroutine.
LEMMA RunsUnitStep ==
  ASSUME IInv, SideInv, NEW c \in Chunks,
         GivesBack(c) \/ GoesOn(c) \/ Leaves(c) \/ Finishes(c) \/ Begins(c) \/ Vanishes(c)
  PROVE  SideInv' /\ Announces /\ \A d \in Chunks : UnitStep(d)
<1>1. /\ OwnStep(c) /\ (running' = running \/ tick.at = "idle")
      /\ task'[c].at \in {"starting", "agent", "resume"} => task'[c].row.status = "RUNNING"
  <2>1. CASE GivesBack(c)
    BY <2>1 DEF GivesBack, Leaving, NoTask
  <2>2. CASE GoesOn(c)
    BY <2>2 DEF GoesOn, SideInv, Agents, Working
  <2>3. CASE Leaves(c)
    BY <2>3 DEF Leaves, Leaving, NoTask
  <2>4. CASE Finishes(c)
    BY <2>4 DEF Finishes, Leaving, NoTask
  <2>5. CASE Begins(c)
    BY <2>5 DEF Begins
  <2>6. CASE Vanishes(c)
    BY <2>6 DEF Vanishes, NoTask
  <2> QED  BY <2>1, <2>2, <2>3, <2>4, <2>5, <2>6
<1>2. /\ Live(c) /\ Free /\ UNCHANGED <<tick, daemon, patched>>
      /\ \A d \in Chunks \ {c} : /\ db'[d] = db[d] /\ task'[d] = task[d]
                                 /\ git'[d] = git[d] /\ feedback'[d] = feedback[d]
  BY <1>1 DEF OwnStep
<1>3. c \in running /\ ~Queued(c)
  BY <1>2 DEF IInv, SlotsInv, KeysOK, Queued
<1>4. \A d \in Chunks : Queued(d)' <=> Queued(d)
  BY <1>1, <1>2 DEF Queued
<1>5. \A d \in Chunks \ {c} : Stands(d)
  BY <1>2, <1>4 DEF Stands, Surroundings, TickForgets
<1>6. UnitStep(c)
  BY <1>3 DEF UnitStep, Runs
<1>7. AskingInv'
  BY <1>1, <1>2 DEF SideInv, AskingInv, Unit
<1>8. \A d \in Agents' : task'[d].row.status = "RUNNING"
  BY <1>1, <1>2 DEF SideInv, Agents
<1>9. task[c].at # "announce"
  BY DEF GivesBack, GoesOn, Leaves, Finishes, Begins, Vanishes, AtHome, Working
<1>10. Announces
  BY <1>2, <1>9 DEF Announces
<1> QED  BY <1>2, <1>5, <1>6, <1>7, <1>8, <1>10 DEF SideInv, UnitStep, Free, Up

\* A step of the tick.
LEMMA TickUnitStep ==
  ASSUME IInv, SideInv, TickStart \/ TickStep
  PROVE  SideInv' /\ Announces /\ \A d \in Chunks : UnitStep(d)
<1>1. CASE TickStart
  <2>1. Lists
    BY <1>1, TickStartLists
  <2>2. tick'.at # "asking"
    BY <1>1 DEF TickStart
  <2> QED  BY <2>1, <2>2 DEF UnitStep, Lists, SideInv, AskingInv, Free, Up, Agents, Announces
<1>2. CASE TickStep
  <2>1. Ticks(Unit)
    BY <1>2, TickTicks DEF SideInv
  <2>2. \A d \in Chunks \ {Unit} : Stands(d)
    BY <2>1 DEF Ticks, Stands, Surroundings, TickForgets
  <2>3. AskingInv'
    <3>1. CASE TickAsks
      <4>1. /\ tick \in Tick /\ Unit \notin running /\ running' = running
            /\ \E B : tick' = [tick EXCEPT !.at = "asking", !.blockers = B]
        BY <3>1 DEF TickAsks, Eligible, IInv, SlotsInv, TypeOK
      <4>2. tick'.queue = tick.queue
        BY <4>1 DEF Tick
      <4> QED  BY <4>1, <4>2 DEF AskingInv, Unit
    <3>2. CASE ~TickAsks
      <4>1. tick' \in {NextUnit, IdleTick}
        BY <1>2, <3>2 DEF TickStep, TickSkip, TickDispatch, TickBlocked, TickAsked, TickAborts
      <4>2. NextUnit.at # "asking" /\ IdleTick.at # "asking"
        BY DEF NextUnit, IdleTick, IInv, SlotsInv, TypeOK, Tick
      <4> QED  BY <4>1, <4>2 DEF AskingInv
    <3> QED  BY <3>1, <3>2
  <2>4. \A d \in Agents' : task'[d].row.status = "RUNNING"
    <3>1. \A d \in Chunks : task'[d] = task[d] \/ task'[d].at = "spawned"
      BY <2>1 DEF Ticks
    <3> QED  BY <3>1 DEF Agents, SideInv
  <2>5. Announces
    BY <2>1 DEF Ticks, Announces, Live
  <2> QED  BY <2>1, <2>2, <2>3, <2>4, <2>5 DEF UnitStep, SideInv, Ticks, Up
<1> QED  BY <1>1, <1>2

\* A request, the clock, an unblocking, a crash, a recovery.
LEMMA OtherUnitStep ==
  ASSUME IInv, SideInv,
         \/ \E c \in Chunks : Requested(c) \/ Injected(c) \/ Waits(c) \/ Unblocks(c) \/ Recovers(c)
         \/ Falls \/ Restarts \/ Recovered \/ UNCHANGED vars
  PROVE  SideInv' /\ Announces /\ \A d \in Chunks : UnitStep(d)
<1>1. ASSUME Free, UNCHANGED <<running, tick, daemon>>, task' = task
      PROVE  SideInv' /\ (patched \subseteq patched' => Announces)
  BY <1>1 DEF Announces, SideInv, AskingInv, Unit, Free, Up, Agents
<1>2. ASSUME NEW c \in Chunks, Requested(c)
      PROVE  SideInv' /\ Announces /\ \A d \in Chunks : UnitStep(d)
  <2>0. patched \subseteq patched'
    BY <1>2 DEF Requested
  <2>1. SideInv' /\ Announces
    BY <1>1, <1>2, <2>0 DEF Requested, Free
  <2>2. \A d \in Chunks \ {c} : Stands(d)
    BY <1>2 DEF Requested, OthersStand, Stands, Surroundings, TickForgets, Queued
  <2> QED  BY <1>2, <2>1, <2>2 DEF UnitStep
<1>3. ASSUME NEW c \in Chunks, Injected(c) \/ Waits(c)
      PROVE  SideInv' /\ Announces /\ \A d \in Chunks : UnitStep(d)
  <2>1. SideInv' /\ Announces
    BY <1>1, <1>3 DEF Injected, Waits, Free
  <2>2. \A d \in Chunks \ {c} : Stands(d)
    BY <1>3 DEF Injected, Waits, Stands, Surroundings, TickForgets, Queued
  <2>3. Waits(c) => Stands(c)
    BY DEF Waits, Stands, Surroundings, TickForgets, Queued
  <2> QED  BY <1>3, <2>1, <2>2, <2>3 DEF UnitStep
<1>4. ASSUME NEW c \in Chunks, Unblocks(c)
      PROVE  SideInv' /\ Announces /\ \A d \in Chunks : UnitStep(d)
  <2>1. \A d \in Chunks : task'[d] = task[d] \/ (task[d].at = "announce" /\ task'[d] = Leaving("exit"))
    BY <1>4 DEF Unblocks
  <2>2. \A d \in Chunks : Loses(d)
    BY <1>4, <2>1 DEF Unblocks, Loses, Surroundings, TickForgets, Queued
  <2>3. \A d \in Agents' : task'[d].row.status = "RUNNING"
    BY <2>1 DEF Agents, SideInv, Leaving, NoTask
  <2> QED  BY <1>4, <2>2, <2>3 DEF UnitStep, SideInv, Unblocks, AskingInv, Unit, Free, Up, Announces
<1>5. CASE Falls
  BY <1>5 DEF Announces, Falls, UnitStep, SideInv, AskingInv, IdleTick, Up, Agents, NoTask
<1>6. CASE Restarts
  <2>1. \A d \in Chunks : task[d].at = "none"
    BY <1>6 DEF Restarts, SideInv, Up
  <2> QED  BY <1>6, <2>1 DEF Announces, Restarts, UnitStep, SideInv, AskingInv, Up, Agents
<1>7. ASSUME NEW c \in Chunks, Recovers(c)
      PROVE  SideInv' /\ Announces /\ \A d \in Chunks : UnitStep(d)
  <2>1. /\ tick.at = "idle" /\ \A d \in Chunks : task[d].at = "none"
    BY <1>7 DEF Recovers, SideInv, Up
  <2>2. \A d \in Chunks \ {c} : Surroundings(d) /\ task'[d] = task[d]
    BY <1>7, <2>1 DEF Recovers, Surroundings, TickForgets, Queued
  <2>3. \A d \in Chunks \ {c} : Stands(d) \/ Loses(d)
    BY <1>7, <2>2 DEF Recovers, Stands, Loses, Released
  <2> QED  BY <1>7, <2>1, <2>3 DEF Announces, Recovers, UnitStep, SideInv, AskingInv, Up, Agents
<1>8. CASE Recovered
  <2>1. daemon'.incomplete = {} /\ daemon.incomplete = {} /\ daemon'.mode = "up"
    BY <1>8 DEF Recovered
  <2>2. \A d \in Chunks : Stands(d)
    BY <1>8, <2>1 DEF Recovered, Stands, Surroundings, TickForgets, Queued
  <2> QED  BY <1>8, <2>1, <2>2 DEF Announces, Recovered, UnitStep, SideInv, AskingInv, Up, Agents, Unit
<1>9. CASE UNCHANGED vars
  <2>1. \A d \in Chunks : Stands(d)
    BY <1>9 DEF vars, Stands, Surroundings, TickForgets, Queued
  <2> QED  BY <1>9, <2>1 DEF Announces, vars, UnitStep, SideInv, AskingInv, Up, Agents, Unit
<1> QED  BY <1>2, <1>3, <1>4, <1>5, <1>6, <1>7, <1>8, <1>9

\* Whatever the step is, every unit sees one of these.
LEMMA NextUnitStep ==
  ASSUME IInv, SideInv, [Next]_vars
  PROVE  SideInv' /\ Announces /\ \A d \in Chunks : UnitStep(d)
<1>0. TypeOK
  BY DEF IInv, SlotsInv
<1>1. CASE TickStart \/ TickStep
  BY <1>1, TickUnitStep
<1>2. ASSUME NEW c \in Chunks, Operator(c)
      PROVE  SideInv' /\ Announces /\ \A d \in Chunks : UnitStep(d)
  BY <1>0, <1>2, OperatorRequested, InjectInjected, OtherUnitStep DEF Operator
<1>3. ASSUME NEW c \in Chunks, BackoffElapses(c)
      PROVE  SideInv' /\ Announces /\ \A d \in Chunks : UnitStep(d)
  BY <1>0, <1>3, BackoffWaits, OtherUnitStep
<1>4. ASSUME NEW c \in Chunks, Starting(c) \/ AgentReturns(c)
      PROVE  SideInv' /\ Announces /\ \A d \in Chunks : UnitStep(d)
  BY <1>0, <1>4, TaskShapes, RunsUnitStep
<1>5. ASSUME NEW c \in Chunks, Ending(c)
      PROVE  SideInv' /\ Announces /\ \A d \in Chunks : UnitStep(d)
  BY <1>0, <1>5, EndingUnblocks, ExitVanishes, OtherUnitStep, RunsUnitStep DEF Ending
<1>6. ASSUME NEW c \in Chunks, Recover(c)
      PROVE  SideInv' /\ Announces /\ \A d \in Chunks : UnitStep(d)
  BY <1>0, <1>6, RecoverRecovers, OtherUnitStep
<1>8. CASE \/ Crash \/ Restart \/ Recovered \/ UNCHANGED vars
           \/ \E c \in Chunks : CrashInFinalize(c)
  BY <1>0, <1>8, CrashFalls, RestartRestarts, OtherUnitStep
<1> QED  BY <1>1, <1>2, <1>3, <1>4, <1>5, <1>6, <1>8 DEF Next

\* No tick, no task, no recovery.
LEMMA InitSideInv ==
  ASSUME Init PROVE SideInv
BY DEF Init, SideInv, AskingInv, IdleTick, Up, Agents, NoTask

\* Only a PATCH adds to the completions that a handler has still to announce.
LEMMA NextPatched ==
  ASSUME "patch" \notin OperatorRequests, [Next]_vars
  PROVE  patched' \subseteq patched
BY ZenonT(40) DEF Next, vars, TickStart, TickStep, TickSkip, TickDispatch, TickBlocked, TickAsks,
   TickAsked, TickAborts, Operator, Inject, Answer, Retry, Resolve, PatchStatus, PatchRetain,
   Delete, Request, BackoffElapses, Starting, StartSkipped, Start, StartFails, Reroute,
   StopIterating, Launch, AgentReturns, AgentSuspends, AgentHitsApiError,
   AgentHitsSessionLimit, AgentFails, PhaseCompletes, ReviewNudged, ReviewUndecided,
   ReviewApproves, ReviewFeedsBack, ReviewEscalates, StillImplementing, FinalizeRetained,
   FinalizeMerged, FinalizeConflicts, FinalizeFails, Ending, AnnounceDone,
   UnblockAfterPatch, Exit, Crash, CrashInFinalize, Fall, Restart, Recover, Recovered

-----------------------------------------------------------------------------
(***************************************************************************)
(* What holds of a unit in every behaviour of the scheduler: its sessions  *)
(* fit its phase, DONE means merged, questions stay with the operator, it  *)
(* lives the lifecycle, it is BLOCKED only by what is still to come, and   *)
(* it does not run before its dependencies.                                *)
(*                                                                         *)
(* Each invariant is a predicate of one unit (Prompts, Done, Questions,    *)
(* Life, Blocked, Waiting) that also speaks of the copies of the row the   *)
(* code works with: that of a run in its task, that of a tick in its       *)
(* snapshot.  Without them none is inductive: both are written back after  *)
(* an await.  The ASSUME of a theorem names the requests it has to exclude *)
(* because the code makes no such promise once an operator sent them.      *)
(***************************************************************************)
-----------------------------------------------------------------------------
(* Sessions and reminders.                                                   *)

\* The session and the reminder that are handed to the agent of the next run.
RowFits(row) ==
    /\ row.session \in {"none", row.phase}
    /\ row.answer = "nudge" => row.phase = "REVIEW"

\* The row fits, and so do the copies of it that a run or a tick will write back; a
\* reviewer that is to be reminded does not find feedback to be rerouted for.
Prompts(c) ==
    /\ RowFits(db[c])
    /\ db[c].answer = "nudge" => ~feedback[c]
    /\ Live(c) => Exists(db[c])
    /\ task[c].at = "spawned" => task[c].phase = db[c].phase
    /\ task[c].at \in Working => RowFits(task[c].row) /\ task[c].phase = task[c].row.phase
    /\ task[c].at = "starting" /\ task[c].row.answer = "nudge" => ~feedback[c]
    /\ task[c].at \in {"agent", "resume"} /\ task[c].phase = "REVIEW" => ~feedback[c]
    /\ Queued(c) => /\ Exists(db[c])
                    /\ RowFits(tick.snap[c]) /\ tick.snap[c].phase = db[c].phase
                    /\ tick.snap[c].answer = "nudge" => ~feedback[c]

\* Nothing that can happen to a unit without deletions hands on a wrong session.
LEMMA PromptsStep ==
  ASSUME NoDeletes, TypeOK, SideInv, NEW c \in Chunks, Prompts(c), UnitStep(c)
  PROVE  Prompts(c)'
<1>0. /\ Leaving("exit").at = "exit" /\ Leaving("announce").at = "announce" /\ NoTask.at = "none"
      /\ task[c] \in Task /\ task[c].at \in TaskStates
  BY DEF Leaving, NoTask, TypeOK, Task
<1>1. CASE Stands(c)
  BY <1>1 DEF Stands, Surroundings, TickForgets, Prompts, RowFits, Live, Exists
<1>2. CASE Loses(c)
  BY <1>0, <1>2 DEF Loses, Surroundings, TickForgets, Prompts, RowFits, Live, Exists, Working
<1>3. CASE Lists
  BY <1>3 DEF Lists, Prompts, RowFits, Live, Exists
<1>4. CASE Ticks(c)
  BY <1>4 DEF Ticks, FromSnapshot, Prompts, RowFits, Live, Exists, Working
<1>5. CASE Runs(c)
  <2>0. OwnStep(c) /\ (running' = running \/ tick.at = "idle")
    BY <1>5 DEF Runs, GivesBack, GoesOn, Leaves, Finishes, Begins, Vanishes
  <2>1. ~Queued(c)' /\ Live(c) /\ Exists(db[c])
    BY <1>5, <2>0 DEF Runs, OwnStep, Queued, Prompts
  <2>2. CASE GivesBack(c)
    <3>1. /\ task'[c].at = "exit" /\ Outcome(c, db'[c]) /\ AtHome(c) /\ Live(c)
      BY <1>0, <2>1, <2>2 DEF GivesBack
    <3>2. /\ RowFits(RunRow(c)) /\ task[c].phase = RunRow(c).phase
          /\ task[c].at \in {"spawned", "starting"} /\ RunRow(c).answer = "nudge" => ~feedback[c]
          /\ task[c].at \in {"agent", "resume"} /\ task[c].phase = "REVIEW" => ~feedback[c]
      BY <3>1 DEF Prompts, RunRow, AtHome, Working
    <3>3. RowFits(db'[c]) /\ (db'[c].answer = "nudge" => ~feedback'[c]) /\ Exists(db'[c])
      BY <3>1, <3>2 DEF Outcome, RowFits, SessionAfter, AtHome, Working, Exists
    <3> QED  BY <2>1, <3>1, <3>3 DEF Prompts, Working
  <2>3. CASE GoesOn(c)
    BY <2>1, <2>3 DEF GoesOn, Prompts, RowFits, Live, Exists, Working, SessionAfter, SideInv, Agents
  <2>4. CASE Leaves(c)
    BY <2>1, <2>4 DEF Leaves
  <2>5. CASE Finishes(c)
    BY <1>0, <2>1, <2>5 DEF Finishes, Prompts, RowFits, Exists, Working
  <2>6. CASE Begins(c)
    BY <2>1, <2>6 DEF Begins, Prompts, RowFits, Exists, Working
  <2>7. CASE Vanishes(c)
    BY <1>0, <2>1, <2>7 DEF Vanishes, Prompts, RowFits, Exists, Live, Working
  <2> QED  BY <1>5, <2>2, <2>3, <2>4, <2>5, <2>6, <2>7 DEF Runs
<1>6. CASE Requested(c)
  <2>1. "ABSENT" \notin Patchable
    BY SchedulerAssumption DEF Patchable
  <2>2. Handled(c) /\ Exists(db[c]) => Exists(db'[c]) /\ (RowFits(db[c]) => RowFits(db'[c]))
    BY <2>1 DEF Handled, Exists, RowFits
  <2> QED  BY <1>6, <2>2 DEF Requested, Handled, Queued, Prompts, Exists, Live
<1>7. CASE Injected(c)
  BY <1>7 DEF Injected, Queued, Prompts, RowFits, Exists, Live, Working
<1>8. CASE Falls
  BY <1>0, <1>8 DEF Falls, IdleTick, Queued, Prompts, Live, Working
<1>9. CASE Restarts
  BY <1>9 DEF Restarts, SideInv, Up, Queued, Prompts, RowFits, Live, Working
<1>10. CASE Recovers(c)
  BY <1>10 DEF Recovers, SideInv, Up, Queued, Prompts, RowFits, Live, Working
<1> QED  BY <1>1, <1>2, <1>3, <1>4, <1>5, <1>6, <1>7, <1>8, <1>9, <1>10 DEF UnitStep

\* Of every unit.
PromptsInv == \A c \in Chunks : Prompts(c)

\* An empty table.
LEMMA InitPrompts ==
  ASSUME Init PROVE PromptsInv
BY DEF Init, PromptsInv, Prompts, RowFits, NoRow, NewRow, NoTask, IdleTick, Live, Working, Queued

\* What the step predicates rest on holds always.
LEMMA SideInvariance == Spec => [](IInv /\ SideInv)
<1>1. Init => SideInv
  BY InitSideInv
<1>2. IInv /\ SideInv /\ [Next]_vars => SideInv'
  BY NextUnitStep
<1> QED  BY <1>1, <1>2, Invariance, PTL DEF Spec

\* PromptsFitPhase: an agent is never handed the session or the reminder of another phase.
\* Deletions are excluded: a unit deleted and injected again while a tick is suspended is
\* dispatched in the phase of its earlier life.
THEOREM PromptsAlwaysFit ==
  ASSUME NoDeletes
  PROVE  Spec => []PromptsFitPhase
<1>1. Init => PromptsInv
  BY InitPrompts
<1>2. IInv /\ SideInv /\ PromptsInv /\ [Next]_vars => PromptsInv'
  BY NextUnitStep, PromptsStep DEF PromptsInv, IInv, SlotsInv
<1>3. PromptsInv => PromptsFitPhase
  BY DEF PromptsInv, Prompts, RowFits, PromptsFitPhase
<1> QED  BY <1>1, <1>2, <1>3, SideInvariance, PTL DEF Spec

-----------------------------------------------------------------------------
(* DONE.                                                                     *)

\* DONE is merged or retained, and nothing that will write the row believes otherwise.
Done(c) ==
    /\ db[c].status = "DONE" => git[c] = "merged" \/ (db[c].retain /\ git[c] = "worktree")
    /\ AtHome(c) \/ Queued(c) => db[c].status # "DONE"

\* No way to DONE leaves work behind.
LEMMA DoneStep ==
  ASSUME "DONE" \notin Patchable, IInv, SideInv, NEW c \in Chunks, Done(c), UnitStep(c)
  PROVE  Done(c)'
<1>0. /\ Leaving("exit").at = "exit" /\ Leaving("announce").at = "announce" /\ NoTask.at = "none"
      /\ task[c] \in Task /\ task[c].at \in TaskStates /\ NoRow.status = "ABSENT"
  BY DEF Leaving, NoTask, NoRow, NewRow, IInv, SlotsInv, TypeOK, Task
<1>1. CASE Stands(c)
  BY <1>1 DEF Stands, Surroundings, TickForgets, Done, AtHome
<1>2. CASE Loses(c)
  BY <1>0, <1>2 DEF Loses, Surroundings, TickForgets, Done, AtHome, Working
<1>3. CASE Lists
  BY <1>3 DEF Lists, Done, AtHome
<1>4. CASE Ticks(c)
  BY <1>4 DEF Ticks, FromSnapshot, Done, AtHome, Working
<1>5. CASE Runs(c)
  <2>0. OwnStep(c) /\ (running' = running \/ tick.at = "idle")
    BY <1>5 DEF Runs, GivesBack, GoesOn, Leaves, Finishes, Begins, Vanishes
  <2>1. ~Queued(c)'
    BY <1>5, <2>0 DEF Runs, OwnStep, Queued
  <2>2. CASE GivesBack(c)
    BY <1>0, <2>1, <2>2 DEF GivesBack, Outcome, Done, AtHome, Working, Exists
  <2>3. CASE GoesOn(c)
    BY <2>1, <2>3 DEF GoesOn, Done, AtHome, Working, SideInv, Agents
  <2>4. CASE Leaves(c)
    BY <1>0, <2>1, <2>4 DEF Leaves, Done, AtHome, Working, Exists
  <2>5. CASE Finishes(c)
    BY <1>0, <2>1, <2>5 DEF Finishes, Done, Exists, AtHome, Working
  <2>6. CASE Begins(c)
    BY <2>1, <2>6 DEF Begins, Done
  <2>7. CASE Vanishes(c)
    BY <1>0, <2>1, <2>7 DEF Vanishes, Done, AtHome, Working
  <2> QED  BY <1>5, <2>2, <2>3, <2>4, <2>5, <2>6, <2>7 DEF Runs
<1>6. CASE Requested(c)
  <2>1. Handled(c) => (db'[c].status = "DONE" => db[c].status = "DONE")
    BY DEF Handled
  <2>2. Handled(c) => (db'[c].retain = db[c].retain \/ db'[c].retain)
    BY DEF Handled
  <2> QED  BY <1>0, <1>6, <2>1, <2>2 DEF Requested, Queued, Done, AtHome
<1>7. CASE Injected(c)
  BY <1>7 DEF Injected, Done
<1>8. CASE Falls
  BY <1>0, <1>8 DEF Falls, IdleTick, Queued, Done, AtHome, Working
<1>9. CASE Restarts
  BY <1>9 DEF Restarts, SideInv, Up, Queued, Done, AtHome, Working
<1>10. CASE Recovers(c)
  BY <1>10 DEF Recovers, SideInv, Up, Queued, Done, AtHome, Working
<1> QED  BY <1>1, <1>2, <1>3, <1>4, <1>5, <1>6, <1>7, <1>8, <1>9, <1>10 DEF UnitStep

\* Of every unit.
DoneInv == \A c \in Chunks : Done(c)

\* DoneIsMerged, through conflicts, failures, deletions, crashes and recoveries: unless somebody
\* PATCHes a row to DONE, a unit that is DONE is merged or its worktree retained.
THEOREM DoneIsAlwaysMerged ==
  ASSUME "DONE" \notin Patchable
  PROVE  Spec => []DoneIsMerged
<1>1. Init => DoneInv
  BY DEF Init, DoneInv, Done, NoRow, NewRow
<1>2. IInv /\ SideInv /\ DoneInv /\ [Next]_vars => DoneInv'
  BY NextUnitStep, DoneStep DEF DoneInv
<1>3. DoneInv => DoneIsMerged
  BY DEF DoneInv, Done, DoneIsMerged
<1> QED  BY <1>1, <1>2, <1>3, SideInvariance, PTL DEF Spec

-----------------------------------------------------------------------------
(* What an agent raised.                                                     *)

\* What an agent raised is in a row without blockers, which recovery will not touch, and in no
\* copy of it that a run or a tick will write back.
Questions(c) ==
    /\ db[c].reason \in RaisedReasons =>
          db[c].status = "NEEDS_ATTENTION" /\ db[c].blockedBy = {} /\ git[c] \in {"none", "worktree"}
    /\ AtHome(c) \/ Queued(c) => db[c].reason \notin RaisedReasons
    /\ Queued(c) => tick.snap[c].reason \notin RaisedReasons
    /\ task[c].at \in Working => /\ git[c] \in {"none", "worktree"}
                                 /\ task[c].row.reason \notin RaisedReasons
                                 /\ task[c].row.blockedBy = {}
    /\ c \in daemon.incomplete => git[c] = "branch"

\* Only a request takes from the operator what an agent raised.
LEMMA QuestionsStep ==
  ASSUME Patchable \subseteq {"NEEDS_ATTENTION"}, IInv, SideInv, NEW c \in Chunks,
         Questions(c), UnitStep(c)
  PROVE  /\ Questions(c)'
         /\ /\ db[c].status = "NEEDS_ATTENTION" /\ db[c].reason \in RaisedReasons
            /\ db'[c].status # "NEEDS_ATTENTION"
            => used'.requests > used.requests
<1>0. /\ Leaving("exit").at = "exit" /\ Leaving("announce").at = "announce" /\ NoTask.at = "none"
      /\ task[c] \in Task /\ task[c].at \in TaskStates /\ NoRow.reason = "none"
      /\ RaisedReasons = {"question", "iterations", "api"}
  BY DEF Leaving, NoTask, NoRow, NewRow, IInv, SlotsInv, TypeOK, Task, RaisedReasons
<1>1. CASE Stands(c)
  BY <1>1 DEF Stands, Surroundings, TickForgets, Questions, AtHome
<1>2. CASE Loses(c)
  BY <1>0, <1>2 DEF Loses, Surroundings, TickForgets, Questions, AtHome, Working
<1>3. CASE Lists
  BY <1>3 DEF Lists, Questions, AtHome
<1>4. CASE Ticks(c)
  BY <1>0, <1>4 DEF Ticks, FromSnapshot, Questions, AtHome, Working
<1>5. CASE Runs(c)
  <2>0. OwnStep(c) /\ (running' = running \/ tick.at = "idle") /\ daemon' = daemon
    BY <1>5 DEF Runs, GivesBack, GoesOn, Leaves, Finishes, Begins, Vanishes, OwnStep
  <2>1. ~Queued(c)'
    BY <1>5, <2>0 DEF Runs, OwnStep, Queued
  <2>b. daemon'.incomplete = {}
    BY <2>0 DEF SideInv, OwnStep, Free, Up
  <2>2. CASE GivesBack(c)
    <3>1. /\ AtHome(c) /\ task'[c].at = "exit"
          /\ \/ db'[c] = db[c] /\ ~Exists(db[c])
             \/ Outcome(c, db'[c])
      BY <1>0, <2>2 DEF GivesBack
    <3>2. CASE Outcome(c, db'[c])
      BY <1>0, <2>1, <2>b, <3>1, <3>2 DEF Outcome, Questions, AtHome, Working, RunRow
    <3>3. CASE db'[c] = db[c] /\ ~Exists(db[c])
      BY <1>0, <2>1, <2>b, <3>1, <3>3 DEF Questions, AtHome, Working, Exists
    <3> QED  BY <3>1, <3>2, <3>3
  <2>3. CASE GoesOn(c)
    <3>1. /\ task'[c].at \in Working /\ task[c].at \in Working /\ git' = git
          /\ task'[c].row.reason = task[c].row.reason
          /\ task'[c].row.blockedBy = task[c].row.blockedBy
          /\ db' = db \/ db'[c] = task'[c].row
      BY <2>3 DEF GoesOn, Working
    <3> QED  BY <1>0, <2>1, <2>b, <3>1 DEF Questions, AtHome
  <2>4. CASE Leaves(c)
    BY <1>0, <2>1, <2>b, <2>4 DEF Leaves, Questions, AtHome, Working, Exists
  <2>5. CASE Finishes(c)
    BY <1>0, <2>1, <2>b, <2>5 DEF Finishes, Questions, Exists, AtHome, Working
  <2>6. CASE Begins(c)
    BY <1>0, <2>1, <2>b, <2>6 DEF Begins, Questions, AtHome, Working
  <2>7. CASE Vanishes(c)
    BY <1>0, <2>1, <2>b, <2>7 DEF Vanishes, Questions, AtHome, Working
  <2> QED  BY <1>5, <2>2, <2>3, <2>4, <2>5, <2>6, <2>7 DEF Runs
<1>6. CASE Requested(c)
  <2>1. ASSUME Handled(c), db'[c].reason \in RaisedReasons
        PROVE  /\ db'[c].reason = db[c].reason
               /\ db[c].status = "NEEDS_ATTENTION" /\ db[c].blockedBy = {}
                  => db'[c].status = "NEEDS_ATTENTION" /\ db'[c].blockedBy = {}
    BY <1>0, <2>1 DEF Handled
  <2>2. Handled(c) => db'[c].reason \in {"none", db[c].reason}
    BY DEF Handled
  <2>3. daemon'.incomplete = {}
    BY <1>6 DEF Requested, SideInv, Free, Up
  <2>4. CASE db'[c] = NoRow /\ git'[c] = "none"
    BY <1>0, <1>6, <2>3, <2>4 DEF Requested, Queued, Questions, AtHome, Working
  <2>5. CASE Handled(c) /\ git'[c] = git[c]
    <3>1. Queued(c)' = Queued(c) /\ tick' = tick /\ task' = task
      BY <1>6 DEF Requested, Queued
    <3>2. db'[c].reason \in RaisedReasons =>
             db'[c].status = "NEEDS_ATTENTION" /\ db'[c].blockedBy = {} /\ git[c] \in {"none", "worktree"}
      BY <2>1, <2>5 DEF Questions
    <3> QED  BY <1>0, <1>6, <2>2, <2>3, <2>5, <3>1, <3>2 DEF Requested, Questions, AtHome
  <2> QED  BY <1>6, <2>4, <2>5 DEF Requested
<1>7. CASE Injected(c)
  BY <1>0, <1>7 DEF Injected, Questions, AtHome, Queued, Exists
<1>8. CASE Falls
  BY <1>0, <1>8 DEF Falls, IdleTick, Queued, Questions, AtHome, Working
<1>9. CASE Restarts
  BY <1>0, <1>9 DEF Restarts, SideInv, Up, Queued, Questions, AtHome, Working
<1>10. CASE Recovers(c)
  BY <1>0, <1>10 DEF Recovers, SideInv, Up, Queued, Questions, AtHome, Working
<1> QED  BY <1>1, <1>2, <1>3, <1>4, <1>5, <1>6, <1>7, <1>8, <1>9, <1>10 DEF UnitStep

\* Of every unit.
QuestionsInv == \A c \in Chunks : Questions(c)

\* QuestionsStand: the completion of a blocker, a tick, a late write or a recovery never takes
\* what an agent raised from the operator.  A PATCH to another status leaves the reason in the
\* row, where a later step may take it for its own: such PATCHes are excluded.
THEOREM QuestionsStay ==
  ASSUME Patchable \subseteq {"NEEDS_ATTENTION"}
  PROVE  Spec => QuestionsStand
<1> DEFINE Stay == \A c \in Chunks :
              /\ db[c].status = "NEEDS_ATTENTION"
              /\ db[c].reason \in {"question", "iterations", "api"}
              /\ db'[c].status # "NEEDS_ATTENTION"
              => used'.requests > used.requests
<1>1. Init => QuestionsInv
  BY DEF Init, QuestionsInv, Questions, NoRow, NewRow, NoTask, IdleTick, Working, AtHome, Queued,
     RaisedReasons
<1>2. IInv /\ SideInv /\ QuestionsInv /\ [Next]_vars => QuestionsInv'
  BY NextUnitStep, QuestionsStep DEF QuestionsInv
<1>3. IInv /\ SideInv /\ QuestionsInv /\ [Next]_vars => [Stay]_vars
  BY NextUnitStep, QuestionsStep DEF QuestionsInv, RaisedReasons
<1> QED  BY <1>1, <1>2, <1>3, SideInvariance, PTL DEF Spec, QuestionsStand

-----------------------------------------------------------------------------
(* The lifecycle.                                                            *)

\* Where the work is, by the phase of the unit, and what a run in progress knows of its row.
Life(c) ==
    /\ ~Exists(db[c]) => git[c] = "none"
    /\ git[c] \in {"merged", "mergedBranch"} => db[c].phase = "COMPLETE"
    /\ task[c].at \in Working => /\ db[c].status = "RUNNING" /\ db[c].phase = task[c].row.phase
                                 /\ git[c] = "worktree"
    /\ db[c].status = "RUNNING" /\ daemon.mode # "down" => task[c].at \in Working
    /\ c \in daemon.incomplete => git[c] = "branch" /\ Exists(db[c]) /\ db[c].phase = "COMPLETE"

\* It is inductive together with the two invariants before.
LEMMA LifeStep ==
  ASSUME NoDeletes, Patchable = {}, IInv, SideInv, NEW c \in Chunks,
         Prompts(c), Done(c), Life(c), UnitStep(c)
  PROVE  Life(c)'
<1>0. /\ Leaving("exit").at = "exit" /\ Leaving("announce").at = "announce" /\ NoTask.at = "none"
      /\ task[c] \in Task /\ task[c].at \in TaskStates
  BY DEF Leaving, NoTask, NoRow, NewRow, IInv, SlotsInv, TypeOK, Task
<1>1. CASE Stands(c)
  BY <1>1 DEF Stands, Surroundings, TickForgets, Life, Exists, SideInv
<1>2. CASE Loses(c)
  BY <1>0, <1>2 DEF Loses, Surroundings, Life, Exists, Working
<1>3. CASE Lists
  BY <1>3 DEF Lists, Life
<1>4. CASE Ticks(c)
  BY <1>0, <1>4 DEF Ticks, FromSnapshot, Life, Exists, Working, Prompts, Live, Up, Queued, IInv, SlotsInv, KeysOK
<1>5. CASE Runs(c)
  <2>0. OwnStep(c)
    BY <1>5 DEF Runs, GivesBack, GoesOn, Leaves, Finishes, Begins, Vanishes
  <2>1. Exists(db[c]) /\ daemon'.incomplete = {}
    BY <2>0 DEF Prompts, OwnStep, SideInv, Free, Up
  <2>2. CASE GivesBack(c)
    <3>1. /\ AtHome(c) /\ task'[c].at = "exit" /\ Outcome(c, db'[c])
          /\ \/ git'[c] = git[c]
             \/ git'[c] \in {"branch", "worktree"}
      BY <1>0, <2>1, <2>2 DEF GivesBack
    <3>2. db'[c].status \in {"READY", "NEEDS_ATTENTION"}
      BY <3>1 DEF Outcome
    <3>3. task[c].at = "spawned" => db'[c].phase = db[c].phase
      BY <3>1 DEF Outcome, RunRow
    <3> QED  BY <1>0, <2>1, <3>1, <3>2, <3>3 DEF Life, AtHome, Working, Exists
  <2>3. CASE GoesOn(c)
    <3>1. /\ task'[c].at \in Working /\ task[c].at \in Working /\ git' = git
          /\ task'[c].row.phase = task[c].row.phase
          /\ task'[c].row.status = "RUNNING"
          /\ db' = db \/ db'[c] = task'[c].row
      BY <2>3 DEF GoesOn, Working, SideInv, Agents
    <3> QED  BY <2>0, <2>1, <3>1 DEF Life, Exists, OwnStep
  <2>4. CASE Leaves(c)
    BY <2>1, <2>4 DEF Leaves
  <2>5. CASE Finishes(c)
    BY <1>0, <2>1, <2>5 DEF Finishes, Life, Exists, Working
  <2>6. CASE Begins(c)
    BY <2>1, <2>6 DEF Begins, Life, Exists, Working
  <2>7. CASE Vanishes(c)
    BY <1>0, <2>0, <2>1, <2>7 DEF Vanishes, Life, Working, OwnStep, Exists, Free, Up
  <2> QED  BY <1>5, <2>2, <2>3, <2>4, <2>5, <2>6, <2>7 DEF Runs
<1>6. CASE Requested(c)
  <2>1. Handled(c)
    BY <1>6 DEF Requested
  <2>2. db'[c].phase = db[c].phase /\ Exists(db'[c]) /\ (db'[c].status = "RUNNING" <=> db[c].status = "RUNNING")
    BY <1>6, <2>1 DEF Handled, Requested, Exists
  <2>3. task[c].at \in Working => db'[c].status = "RUNNING"
    BY <2>2 DEF Life
  <2> QED  BY <1>6, <2>2, <2>3 DEF Requested, Life
<1>7. CASE Injected(c)
  <2>1. ~Live(c)
    BY <1>7 DEF Injected, Prompts
  <2> QED  BY <1>7, <2>1 DEF Injected, Life, Exists, Live, Working, SideInv, Free, Up
<1>8. CASE Falls
  BY <1>0, <1>8 DEF Falls, Life, Working, Exists
<1>9. CASE Restarts
  BY <1>9 DEF Restarts, SideInv, Up, Life, Exists, Working, Finalizing, Done
<1>10. CASE Recovers(c)
  BY <1>10 DEF Recovers, SideInv, Up, Life, Exists, Working
<1> QED  BY <1>1, <1>2, <1>3, <1>4, <1>5, <1>6, <1>7, <1>8, <1>9, <1>10 DEF UnitStep

\* The lifecycle as one unit sees it.
LifeMoves(c) == Lifecycle!Step(c) \/ Lifecycle!Idle(c)

\* Whatever happens to a unit is a step of its lifecycle, or none.
LEMMA MovesStep ==
  ASSUME NoDeletes, Patchable = {}, IInv, IInv', SideInv, NEW c \in Chunks,
         Prompts(c), Done(c), Life(c), UnitStep(c)
  PROVE  LifeMoves(c)
<1> DEFINE before == Stage(db[c])
           after == Stage(db'[c])
           in == git[c] \in {"merged", "mergedBranch"}
           in2 == git'[c] \in {"merged", "mergedBranch"}
           same == db'[c].phase = db[c].phase
           Moved == \/ before = after /\ same /\ in2 = in
                    \/ before = "absent" /\ after = "waiting" /\ db'[c].phase \in StartPhases /\ in2 = in
                    \/ before = "waiting" /\ after = "working" /\ same /\ ~in2
                    \/ /\ before = "working" /\ after = "waiting" /\ db[c].phase # "COMPLETE"
                       /\ db'[c].phase = NextPhase[db[c].phase] /\ in2 = in
                    \/ /\ before = "working" /\ after = "waiting" /\ in2 = in
                       /\ \/ db[c].phase = "REVIEW" /\ db'[c].phase = "IMPLEMENT"
                          \/ db[c].phase = "COMPLETE" /\ db'[c].phase = "REBASE"
                    \/ before \in {"working", "stopped"} /\ after = "waiting" /\ same /\ in2 = in
                    \/ before \in {"waiting", "working"} /\ after = "stopped" /\ same /\ in2 = in
                    \/ db[c].phase = "COMPLETE" /\ same /\ in2 /\ before = after
                    \/ /\ db[c].phase = "COMPLETE" /\ same /\ (in => in2) /\ after = "done"
                       /\ before \in {"waiting", "working", "stopped"}
<1>t. /\ db[c] \in Row /\ db'[c] \in Row /\ git[c] \in Places /\ db[c].phase \in Phases
      /\ db[c].status \in Statuses /\ db'[c].status \in Statuses
  BY DEF IInv, SlotsInv, TypeOK, Row
<1>s. /\ before = "absent" <=> db[c].status = "ABSENT"
      /\ before = "waiting" <=> db[c].status \in {"READY", "BLOCKED"}
      /\ before = "working" <=> db[c].status = "RUNNING"
      /\ before = "stopped" <=> db[c].status = "NEEDS_ATTENTION"
      /\ before = "done" <=> db[c].status = "DONE"
  BY <1>t DEF Stage, Statuses
<1>r. /\ after = "absent" <=> db'[c].status = "ABSENT"
      /\ after = "waiting" <=> db'[c].status \in {"READY", "BLOCKED"}
      /\ after = "working" <=> db'[c].status = "RUNNING"
      /\ after = "stopped" <=> db'[c].status = "NEEDS_ATTENTION"
      /\ after = "done" <=> db'[c].status = "DONE"
  BY <1>t DEF Stage, Statuses
<1>i. db'[c].status = db[c].status => before = after
  BY DEF Stage
<1> HIDE DEF before, after
<1>m. Moved
  <2>1. CASE Stands(c)
    BY <1>i, <2>1 DEF Stands, Surroundings
  <2>2. CASE Loses(c)
    BY <1>i, <1>s, <1>r, <2>2 DEF Loses, Surroundings
  <2>3. CASE Lists
    BY <1>i, <2>3 DEF Lists
  <2>4. CASE Ticks(c)
    <3>1. git' = git /\ (db'[c] = db[c] \/ (Queued(c) /\ FromSnapshot(db'[c], tick.snap[c])))
      BY <2>4 DEF Ticks
    <3>2. CASE db'[c] = db[c]
      BY <1>i, <3>1, <3>2
    <3>3. CASE Queued(c) /\ FromSnapshot(db'[c], tick.snap[c])
      <4>1. same /\ db'[c].status \in {"READY", "NEEDS_ATTENTION"}
        BY <3>3 DEF FromSnapshot, Prompts
      <4>2. db[c].status \in {"READY", "BLOCKED", "NEEDS_ATTENTION"}
        <5>1. ~Live(c) /\ daemon.mode = "up"
          BY <2>4, <3>3 DEF Queued, IInv, SlotsInv, KeysOK, Ticks, Up
        <5> QED  BY <1>t, <3>3, <5>1 DEF Statuses, Done, Life, Prompts, Exists, Live, Working
      <4> QED  BY <1>i, <1>s, <1>r, <3>1, <4>1, <4>2
    <3> QED  BY <3>1, <3>2, <3>3
  <2>5. CASE Runs(c)
    <3>0. OwnStep(c) /\ Exists(db[c])
      BY <2>5 DEF Runs, GivesBack, GoesOn, Leaves, Finishes, Begins, Vanishes, OwnStep, Prompts
    <3>1. CASE GivesBack(c)
      <4>1. /\ AtHome(c) /\ Outcome(c, db'[c])
            /\ \/ git'[c] = git[c]
               \/ git'[c] \in {"branch", "worktree"} /\ (git[c] = "worktree" \/ task[c].phase = "PLAN")
        BY <3>0, <3>1 DEF GivesBack
      <4>2. CASE task[c].at = "spawned"
        <5>1. same /\ db[c].status = "READY" /\ db'[c].status = "NEEDS_ATTENTION"
          BY <4>1, <4>2 DEF Outcome, RunRow
        <5>2. in2 = in
          BY <4>1, <4>2 DEF Prompts, Life
        <5> QED  BY <1>s, <1>r, <5>1, <5>2
      <4>3. CASE task[c].at \in Working
        <5>1. /\ db[c].status = "RUNNING" /\ RunRow(c).phase = db[c].phase /\ git[c] = "worktree"
              /\ task[c].phase = db[c].phase
          BY <4>3 DEF Life, Prompts, RunRow, Working
        <5>2. in2 = in
          BY <4>1, <5>1
        <5>3. \/ same /\ db'[c].status \in {"READY", "NEEDS_ATTENTION"}
              \/ /\ db'[c].status = "READY"
                 /\ \/ db[c].phase # "COMPLETE" /\ db'[c].phase = NextPhase[db[c].phase]
                    \/ db[c].phase = "REVIEW" /\ db'[c].phase = "IMPLEMENT"
                    \/ db[c].phase = "COMPLETE" /\ db'[c].phase = "REBASE"
          BY <4>1, <5>1 DEF Outcome
        <5> QED  BY <1>s, <1>r, <5>1, <5>2, <5>3
      <4> QED  BY <4>1, <4>2, <4>3 DEF AtHome
    <3>2. CASE GoesOn(c)
      <4>1. /\ task[c].at \in Working /\ git' = git /\ task'[c].row.phase = task[c].row.phase
            /\ task'[c].row.status = "RUNNING" /\ (db' = db \/ db'[c] = task'[c].row)
        BY <3>2 DEF GoesOn, Working, SideInv, Agents
      <4> QED  BY <1>i, <4>1 DEF Life
    <3>3. CASE Leaves(c)
      BY <3>0, <3>3 DEF Leaves
    <3>4. CASE Finishes(c)
      BY <1>s, <1>r, <3>0, <3>4 DEF Finishes, Life, Working
    <3>5. CASE Begins(c)
      BY <1>s, <1>r, <3>5 DEF Begins
    <3>6. CASE Vanishes(c)
      BY <1>i, <3>6 DEF Vanishes
    <3> QED  BY <2>5, <3>1, <3>2, <3>3, <3>4, <3>5, <3>6 DEF Runs
  <2>6. CASE Requested(c)
    <3>1. Handled(c) /\ git'[c] = git[c]
      BY <2>6 DEF Requested
    <3>2. \/ db'[c].status = db[c].status
          \/ db[c].status = "NEEDS_ATTENTION" /\ db'[c].status \in {"READY", "BLOCKED"}
      BY <3>1 DEF Handled
    <3>3. same
      BY <3>1 DEF Handled
    <3> QED  BY <1>i, <1>s, <1>r, <3>1, <3>2, <3>3
  <2>7. CASE Injected(c)
    BY <1>s, <1>r, <2>7 DEF Injected, Exists
  <2>8. CASE Falls
    <3>1. db' = db
      BY <2>8 DEF Falls
    <3>2. \/ git'[c] = git[c]
          \/ git[c] = "worktree" /\ git'[c] \in {"branch", "mergedBranch", "merged"} /\ db[c].phase = "COMPLETE"
      BY <2>8 DEF Falls, Life, Working
    <3> QED  BY <1>i, <3>1, <3>2
  <2>9. CASE Restarts
    BY <1>i, <1>s, <1>r, <2>9 DEF Restarts
  <2>10. CASE Recovers(c)
    <3>1. /\ git[c] = "branch" /\ db[c].phase = "COMPLETE" /\ db[c].status \notin {"ABSENT", "DONE"} /\ same
      BY <2>10 DEF Recovers, Life, Done, Exists
    <3>2. before \in {"waiting", "working", "stopped"}
      BY <1>t, <1>s, <3>1 DEF Statuses
    <3>3. \/ git'[c] = "merged" /\ db'[c].status = "DONE"
          \/ git' = git /\ db'[c].status = "NEEDS_ATTENTION"
      BY <2>10, <3>1 DEF Recovers
    <3> QED  BY <1>i, <1>s, <1>r, <3>1, <3>2, <3>3
  <2> QED  BY <2>1, <2>2, <2>3, <2>4, <2>5, <2>6, <2>7, <2>8, <2>9, <2>10 DEF UnitStep
<1> QED
  BY <1>m, <1>t DEF LifeMoves, Lifecycle!Step, Lifecycle!Idle, Lifecycle!Submit, Lifecycle!Begin,
     Lifecycle!Advance, Lifecycle!TakeBack, Lifecycle!Requeue, Lifecycle!Stop,
     Lifecycle!Integrate, Lifecycle!Finish, Lifecycle!Moves, Lifecycle!Stays,
     Lifecycle!After, Lifecycle!BackTo, NextPhase, before, after, Phases

\* Of every unit.
LifeInv == \A c \in Chunks : Prompts(c) /\ Done(c) /\ Life(c)

\* Without deletions and PATCHes of a status it always holds.
LEMMA LifeInvariance ==
  ASSUME NoDeletes, Patchable = {}
  PROVE  Spec => [](IInv /\ SideInv /\ LifeInv)
<1>1. Init => LifeInv
  BY InitPrompts DEF Init, LifeInv, PromptsInv, Done, Life, NoRow, NewRow, NoTask, IdleTick,
     Working, AtHome, Queued, Exists
<1>2. IInv /\ SideInv /\ LifeInv /\ [Next]_vars => LifeInv'
  <2> SUFFICES ASSUME IInv, SideInv, LifeInv, [Next]_vars, NEW c \in Chunks
               PROVE  (Prompts(c) /\ Done(c) /\ Life(c))'
    BY DEF LifeInv
  <2>1. UnitStep(c) /\ Prompts(c) /\ Done(c) /\ Life(c) /\ TypeOK
    BY NextUnitStep DEF LifeInv, IInv, SlotsInv
  <2> QED  BY <2>1, PromptsStep, DoneStep, LifeStep
<1> QED  BY <1>1, <1>2, SideInvariance, PTL DEF Spec

\* LifecycleSpec: with its ticks, races, crashes and recoveries the scheduler implements the
\* lifecycle of WorkUnitLifecycle, for every chunk at once.  A deletion ends a life and a PATCH
\* may set any status: both are excluded, the lifecycle has no such steps.
THEOREM LifecycleImplemented ==
  ASSUME NoDeletes, Patchable = {}
  PROVE  Spec => LifecycleSpec
<1>1. Init => Lifecycle!Init
  <2> SUFFICES ASSUME Init PROVE Lifecycle!Init
    OBVIOUS
  <2>1. \A c \in Chunks : /\ Stage(db[c]) = "absent" /\ db[c].phase = "GOAL"
                          /\ git[c] \notin {"merged", "mergedBranch"}
    BY DEF Init, Stage, NoRow, NewRow
  <2>2. [c \in Chunks |-> db[c].phase] \in [Chunks -> {"GOAL"}]
    BY <2>1
  <2>3. [c \in Chunks |-> Stage(db[c])] = [c \in Chunks |-> "absent"]
    BY <2>1
  <2>4. [c \in Chunks |-> git[c] \in {"merged", "mergedBranch"}] = [c \in Chunks |-> FALSE]
    <3>1. \A c \in Chunks : (git[c] \in {"merged", "mergedBranch"}) = FALSE
      BY <2>1
    <3> QED  BY <3>1, Zenon
  <2> QED  BY <2>2, <2>3, <2>4 DEF Lifecycle!Init
<1>2. IInv /\ SideInv /\ LifeInv /\ [Next]_vars => Lifecycle!Next
  <2> SUFFICES ASSUME IInv, SideInv, LifeInv, [Next]_vars, NEW c \in Chunks
               PROVE  LifeMoves(c)
    BY DEF Lifecycle!Next, LifeMoves
  <2>1. UnitStep(c) /\ Prompts(c) /\ Done(c) /\ Life(c)
    BY NextUnitStep DEF LifeInv
  <2> QED  BY <2>1, NextIInv, MovesStep
<1> QED  BY <1>1, <1>2, LifeInvariance, PTL DEF Spec, LifecycleSpec, Lifecycle!Spec

-----------------------------------------------------------------------------
(* BLOCKED.                                                                  *)

\* The completion of d is still to come, or to be announced.
Expected(d) == db[d].status # "DONE" \/ task[d].at = "announce" \/ d \in patched

\* A unit that is BLOCKED has blockers, and the completion of each is still to be heard of.
Blocked(c) == db[c].status = "BLOCKED" =>
    db[c].blockedBy # {} /\ \A d \in db[c].blockedBy : Expected(d)

\* A crash between the DONE write and the announcement loses it, and an operator may serialize
\* a unit after one that is DONE.
NoLostCompletions ==
    MaxCrashes = 0 /\ "resolve" \notin OperatorRequests /\ "BLOCKED" \notin Patchable

\* A unit that is DONE after the step was DONE before, or its completion is to be announced.
LEMMA ExpectedStep ==
  ASSUME NoLostCompletions, IInv, SideInv, Up, NEW d \in Chunks, UnitStep(d), Announces, Expected(d)
  PROVE  Expected(d)' \/ Unblocks(d)
<1>0. ~Falls /\ daemon.mode = "up" /\ NoRow.status # "DONE" /\ Leaving("announce").at = "announce"
  BY DEF NoLostCompletions, Falls, Up, NoRow, NewRow, Leaving, NoTask
<1>1. CASE \E e \in Chunks : Unblocks(e)
  <2>1. PICK e \in Chunks : Unblocks(e)
    BY <1>1
  <2>2. CASE e # d
    BY <2>1, <2>2 DEF Unblocks, Expected
  <2> QED  BY <2>1, <2>2
<1>2. CASE /\ patched \subseteq patched'
           /\ task[d].at = "announce" => task'[d].at = "announce"
  <2>1. CASE db[d].status = "DONE" \/ db'[d].status # "DONE"
    BY <1>2, <2>1 DEF Expected
  <2>2. CASE db[d].status # "DONE" /\ db'[d].status = "DONE"
    <3>1. CASE Ticks(d)
      BY <2>2, <3>1 DEF Ticks, FromSnapshot
    <3>2. CASE Runs(d)
      <4>1. Finishes(d) /\ Exists(db[d])
        BY <2>2, <3>2 DEF Runs, GivesBack, Outcome, GoesOn, Leaves, Finishes, Begins, Vanishes,
           SideInv, Agents, Working
      <4> QED  BY <1>0, <4>1 DEF Finishes, Expected
    <3>3. CASE Requested(d)
      BY <1>0, <2>2, <3>3 DEF Requested, Expected
    <3>4. CASE Injected(d)
      BY <2>2, <3>4 DEF Injected
    <3> QED  BY <1>0, <2>2, <3>1, <3>2, <3>3, <3>4
             DEF UnitStep, Stands, Loses, Lists, Restarts, Recovers
  <2> QED  BY <2>1, <2>2
<1> QED  BY <1>0, <1>1, <1>2 DEF Announces

\* What was BLOCKED by a unit still is, unless that unit was announced.
LEMMA BlockedStep ==
  ASSUME NoLostCompletions, IInv, IInv', SideInv, Up, NEW c \in Chunks, Blocked(c),
         Announces, \A d \in Chunks : UnitStep(d)
  PROVE  Blocked(c)'
<1>0. ~Falls /\ daemon.mode = "up" /\ NoRow.status = "ABSENT"
  BY DEF NoLostCompletions, Falls, Up, NoRow, NewRow
<1>b. db[c].blockedBy \subseteq Chunks /\ db'[c].blockedBy \subseteq Chunks
  BY DEF IInv, SlotsInv, TypeOK, Row
<1>1. CASE db[c].status = "BLOCKED" /\ db'[c].status = "BLOCKED"
  <2>1. db'[c].blockedBy \subseteq db[c].blockedBy /\ db'[c].blockedBy # {}
    <3>1. CASE Stands(c) \/ Lists
      BY <1>1, <3>1 DEF Stands, Lists, Blocked
    <3>2. CASE Loses(c)
      BY <1>1, <3>2 DEF Loses, Blocked
    <3>3. CASE Ticks(c)
      BY <1>1, <3>3 DEF Ticks, FromSnapshot, Blocked
    <3>4. CASE Runs(c)
      BY <1>1, <3>4 DEF Runs, GivesBack, Outcome, GoesOn, Leaves, Finishes, Begins, Vanishes,
           SideInv, Agents, Working, Blocked
    <3>5. CASE Requested(c)
      <4>1. Handled(c)
        BY <1>0, <1>1, <3>5 DEF Requested
      <4> QED  BY <1>1, <4>1 DEF Handled, NoLostCompletions, Blocked
    <3>6. CASE Injected(c)
      BY <1>1, <3>6 DEF Injected, Exists
    <3> QED  BY <1>0, <3>1, <3>2, <3>3, <3>4, <3>5, <3>6 DEF UnitStep, Restarts, Recovers
  <2>2. ASSUME NEW d \in db'[c].blockedBy
        PROVE  Expected(d)'
    <3>1. Expected(d) /\ d \in Chunks
      BY <1>1, <1>b, <2>1, <2>2 DEF Blocked
    <3>2. ~Unblocks(d)
      BY <2>2 DEF Unblocks
    <3> QED  BY <3>1, <3>2, ExpectedStep
  <2> QED  BY <2>1, <2>2 DEF Blocked
<1>2. CASE db[c].status # "BLOCKED" /\ db'[c].status = "BLOCKED"
  <2>1. Injected(c)
    <3>1. CASE Stands(c) \/ Lists
      BY <1>2, <3>1 DEF Stands, Lists
    <3>2. CASE Loses(c)
      BY <1>2, <3>2 DEF Loses
    <3>3. CASE Ticks(c)
      BY <1>2, <3>3 DEF Ticks, FromSnapshot
    <3>4. CASE Runs(c)
      BY <1>2, <3>4 DEF Runs, GivesBack, Outcome, GoesOn, Leaves, Finishes, Begins, Vanishes,
           SideInv, Agents, Working
    <3>5. CASE Requested(c)
      <4>1. Handled(c)
        BY <1>0, <1>2, <3>5 DEF Requested
      <4> QED  BY <1>2, <4>1 DEF Handled, NoLostCompletions
    <3> QED  BY <1>0, <3>1, <3>2, <3>3, <3>4, <3>5 DEF UnitStep, Restarts, Recovers
  <2>2. db'[c].blockedBy = ActiveBlockers(c) /\ ActiveBlockers(c) # {}
    BY <1>2, <2>1 DEF Injected
  <2>3. \A d \in ActiveBlockers(c) : db'[d].status # "DONE"
    BY <1>2, <2>1, <1>b, <2>2 DEF Injected, ActiveBlockers
  <2> QED  BY <2>2, <2>3 DEF Blocked, Expected
<1> QED  BY <1>1, <1>2 DEF Blocked

\* Of every unit, and no crash brings the daemon down.
BlockedInv == Up /\ \A c \in Chunks : Blocked(c)

\* BlockedIsWaiting, with deletions and PATCHes to DONE: without crashes and resolutions no unit
\* is left BLOCKED by units that are DONE and announced.
THEOREM BlockedAlwaysWaits ==
  ASSUME NoLostCompletions
  PROVE  Spec => []BlockedIsWaiting
<1>1. Init => BlockedInv
  BY DEF Init, BlockedInv, Blocked, NoRow, NewRow, Up
<1>2. IInv /\ SideInv /\ BlockedInv /\ [Next]_vars => BlockedInv'
  <2> SUFFICES ASSUME IInv, SideInv, BlockedInv, [Next]_vars
               PROVE  BlockedInv'
    OBVIOUS
  <2>1. Announces /\ \A d \in Chunks : UnitStep(d)
    BY NextUnitStep
  <2>2. Up'
    <3>1. used.crashes \in Nat /\ MaxCrashes = 0 /\ daemon.mode = "up"
      BY DEF IInv, SlotsInv, TypeOK, NoLostCompletions, BlockedInv, Up
    <3>2. ~Crash /\ ~Restart /\ ~Recovered /\ \A c \in Chunks : ~CrashInFinalize(c) /\ ~Recover(c)
      BY <3>1 DEF Crash, CrashInFinalize, Fall, Restart, Recovered, Recover
    <3>3. daemon' = daemon
      BY <3>2, ZenonT(40) DEF Next, vars, TickStart, TickStep, TickSkip, TickDispatch, TickBlocked, TickAsks,
         TickAsked, TickAborts, Operator, Inject, Answer, Retry, Resolve, PatchStatus, PatchRetain,
         Delete, Request, BackoffElapses, Starting, StartSkipped, Start, StartFails, Reroute,
         StopIterating, Launch, AgentReturns, AgentSuspends, AgentHitsApiError,
         AgentHitsSessionLimit, AgentFails, PhaseCompletes, ReviewNudged, ReviewUndecided,
         ReviewApproves, ReviewFeedsBack, ReviewEscalates, StillImplementing, FinalizeRetained,
         FinalizeMerged, FinalizeConflicts, FinalizeFails, Ending, AnnounceDone,
         UnblockAfterPatch, Exit
    <3> QED  BY <3>1, <3>3 DEF Up
  <2>3. \A c \in Chunks : Blocked(c)'
    BY <2>1, BlockedStep, NextIInv DEF BlockedInv
  <2> QED  BY <2>2, <2>3 DEF BlockedInv
<1>3. BlockedInv => BlockedIsWaiting
  BY DEF BlockedInv, Blocked, Expected, BlockedIsWaiting, WithStatus
<1> QED  BY <1>1, <1>2, <1>3, SideInvariance, PTL DEF Spec

-----------------------------------------------------------------------------
(* Dependencies.                                                             *)

\* Operators answer questions and send units back to work, and nothing else.
OnlyAnswers == OperatorRequests \subseteq {"answer", "retry"}

\* A unit has all its dependencies DONE, or is BLOCKED by those that are not; nothing has begun
\* to work on a BLOCKED unit.
Waiting(c) ==
    /\ db[c].status = "BLOCKED" =>
          git[c] = "none" /\ \A d \in Deps[c] : db[d].status = "DONE" \/ d \in db[c].blockedBy
    /\ db[c].status \notin {"ABSENT", "BLOCKED"} => \A d \in Deps[c] : db[d].status = "DONE"
    /\ task[c].at = "announce" => db[c].status = "DONE"
    /\ AtHome(c) \/ Queued(c) => db[c].status \notin {"ABSENT", "BLOCKED"}

\* Of every unit; no PATCH handler has anything to announce.
WaitingInv == patched = {} /\ \A c \in Chunks : Waiting(c)

\* What is DONE stays DONE.
LEMMA DoneStays ==
  ASSUME OnlyAnswers, IInv, SideInv, NEW c \in Chunks, Prompts(c), Done(c), Life(c), UnitStep(c),
         db[c].status = "DONE"
  PROVE  db'[c].status = "DONE"
<1>0. Patchable = {} /\ NoDeletes /\ Exists(db[c])
  BY DEF OnlyAnswers, Patchable, NoDeletes, Exists
<1>1. CASE Stands(c) \/ Lists \/ Falls \/ Restarts
  BY <1>1 DEF Stands, Lists, Falls, Restarts
<1>2. CASE Loses(c)
  BY <1>2 DEF Loses
<1>3. CASE Ticks(c)
  BY <1>3 DEF Ticks, Done
<1>4. CASE Runs(c)
  BY <1>4 DEF Runs, GivesBack, GoesOn, Leaves, Finishes, Begins, Vanishes, Done, AtHome, Working
<1>5. CASE Requested(c)
  BY <1>0, <1>5 DEF Requested, Handled
<1>6. CASE Injected(c)
  BY <1>6 DEF Injected, Exists
<1>7. CASE Recovers(c)
  BY <1>7 DEF Recovers, Done, Life
<1> QED  BY <1>1, <1>2, <1>3, <1>4, <1>5, <1>6, <1>7 DEF UnitStep

\* No unit leaves BLOCKED, and none starts, before its dependencies are DONE.
LEMMA WaitingStep ==
  ASSUME OnlyAnswers, IInv, IInv', SideInv, LifeInv, WaitingInv, NEW c \in Chunks,
         \A d \in Chunks : UnitStep(d)
  PROVE  /\ Waiting(c)'
         /\ db[c].status # "RUNNING" /\ db'[c].status = "RUNNING"
               => \A d \in Deps[c] : db[d].status = "DONE"
<1>0. /\ Patchable = {} /\ NoDeletes /\ "resolve" \notin OperatorRequests /\ Deps[c] \subseteq Chunks
      /\ Prompts(c) /\ Done(c) /\ Life(c) /\ Waiting(c)
  BY SchedulerAssumption DEF OnlyAnswers, Patchable, NoDeletes, LifeInv, WaitingInv
<1>n. /\ NoRow.status = "ABSENT" /\ Leaving("exit").at = "exit" /\ NoTask.at = "none"
      /\ IdleTick.at = "idle" /\ task[c] \in Task /\ db[c] \in Row /\ db'[c] \in Row
      /\ Leaving("announce").at = "announce"
  BY DEF NoRow, NewRow, Leaving, NoTask, IdleTick, IInv, SlotsInv, TypeOK
<1>d. \A d \in Deps[c] : db[d].status = "DONE" => db'[d].status = "DONE"
  BY <1>0, DoneStays DEF LifeInv
<1> DEFINE Met == \A d \in Deps[c] : db[d].status = "DONE"
           Met2 == \A d \in Deps[c] : db'[d].status = "DONE"
           Ready == db[c].status \notin {"ABSENT", "BLOCKED"}
           Ready2 == db'[c].status \notin {"ABSENT", "BLOCKED"}
\* The status: it was ready before, or stays as it is, or it lost its last blocker, or is new.
<1>1. \/ Ready /\ Ready2
      \/ ~Ready /\ db'[c].status = db[c].status /\ git'[c] = git[c] /\ db'[c].blockedBy = db[c].blockedBy
      \/ Loses(c)
      \/ Injected(c)
  <2>1. CASE Stands(c) \/ Lists
    BY <2>1 DEF Stands, Surroundings, Lists
  <2>2. CASE Ticks(c)
    BY <1>0, <2>2 DEF Ticks, FromSnapshot, Waiting
  <2>3. CASE Runs(c)
    <3>1. Vanishes(c) \/ (AtHome(c) /\ Live(c))
      BY <2>3 DEF Runs, GivesBack, GoesOn, Leaves, Finishes, Begins, OwnStep, AtHome, Working
    <3>2. CASE Vanishes(c)
      BY <3>2 DEF Vanishes
    <3>3. CASE AtHome(c) /\ Live(c) /\ ~Vanishes(c)
      <4>1. Ready
        BY <1>0, <3>3 DEF Waiting
      <4>2. Ready2
        BY <2>3, <3>3, <4>1 DEF Runs, GivesBack, Outcome, GoesOn, Leaves, Finishes, Begins, Exists,
           SideInv, Agents, Working
      <4> QED  BY <4>1, <4>2
    <3> QED  BY <3>1, <3>2, <3>3
  <2>4. CASE Requested(c)
    <3>1. Handled(c) /\ git'[c] = git[c] /\ Exists(db[c])
      BY <1>0, <2>4 DEF Requested
    <3>2. "patch" \notin OperatorRequests
      BY DEF OnlyAnswers
    <3> QED  BY <1>0, <3>1, <3>2 DEF Handled
  <2>5. CASE Falls
    BY <1>0, <2>5 DEF Falls, Waiting, Exists, Life
  <2>6. CASE Restarts
    BY <1>0, <2>6 DEF Restarts, Waiting, Exists, Life
  <2>7. CASE Recovers(c)
    BY <1>0, <2>7 DEF Recovers, Waiting, Exists, Life
  <2> QED  BY <2>1, <2>2, <2>3, <2>4, <2>5, <2>6, <2>7 DEF UnitStep
<1>2. /\ Ready2 => Met2
      /\ db'[c].status = "BLOCKED" =>
            git'[c] = "none" /\ \A d \in Deps[c] : db'[d].status = "DONE" \/ d \in db'[c].blockedBy
      /\ db[c].status # "RUNNING" /\ db'[c].status = "RUNNING" => Met
  <2>1. CASE Ready /\ Ready2
    <3>1. Met
      BY <1>0, <2>1 DEF Waiting
    <3> QED  BY <1>d, <2>1, <3>1
  <2>2. CASE ~Ready /\ db'[c].status = db[c].status /\ git'[c] = git[c] /\ db'[c].blockedBy = db[c].blockedBy
    BY <1>0, <1>d, <2>2 DEF Waiting
  <2>3. CASE Loses(c)
    <3>1. PICK e \in Chunks :
            /\ e \in patched \/ task[e].at = "announce" \/ db'[e].status = "DONE"
            /\ db'[c].blockedBy = db[c].blockedBy \ {e}
            /\ \/ db'[c].status = db[c].status
               \/ /\ db[c].status \in {"BLOCKED", "NEEDS_ATTENTION"} /\ db[c].blockedBy = {e}
                  /\ db'[c].status = "READY"
      BY <2>3 DEF Loses
    <3>2. db'[e].status = "DONE"
      <4>1. task[e].at = "announce" => db[e].status = "DONE"
        BY DEF WaitingInv, Waiting
      <4>2. db[e].status = "DONE" => db'[e].status = "DONE"
        BY DoneStays DEF LifeInv
      <4> QED  BY <3>1, <4>1, <4>2 DEF WaitingInv
    <3>3. git'[c] = git[c]
      BY <2>3 DEF Loses, Surroundings
    <3> QED  BY <1>0, <1>d, <3>1, <3>2, <3>3 DEF Waiting
  <2>4. CASE Injected(c)
    <3>1. ~Exists(db[c]) /\ git'[c] = "none" /\ \A d \in Chunks \ {c} : db'[d] = db[d]
      BY <1>0, <2>4 DEF Injected, Life
    <3>2. /\ db'[c].blockedBy = {d \in Deps[c] : db[d].status # "DONE"}
          /\ db'[c].status = IF db'[c].blockedBy = {} THEN "READY" ELSE "BLOCKED"
      BY <2>4 DEF Injected, ActiveBlockers
    <3> QED  BY <1>d, <3>1, <3>2
  <2> QED  BY <1>1, <2>1, <2>2, <2>3, <2>4
<1>3. task'[c].at = "announce" => db'[c].status = "DONE"
  <2>1. task'[c].at = "announce" => task[c].at = "announce" \/ Finishes(c)
    <3>1. Runs(c) => Finishes(c) \/ task'[c].at # "announce"
      BY <1>n DEF Runs, GivesBack, GoesOn, Leaves, Begins, Vanishes
    <3>2. Ticks(c) => task'[c] = task[c] \/ task'[c].at # "announce"
      BY DEF Ticks
    <3>3. Stands(c) \/ Loses(c) \/ Falls => task'[c] = task[c] \/ task'[c].at # "announce"
      BY <1>n DEF Stands, Loses, Falls
    <3>4. Lists \/ Requested(c) \/ Injected(c) \/ Restarts \/ Recovers(c) => task' = task
      BY DEF Lists, Requested, Injected, Restarts, Recovers
    <3> QED  BY <3>1, <3>2, <3>3, <3>4 DEF UnitStep
  <2>2. task[c].at = "announce" => db'[c].status = "DONE"
    BY <1>0, DoneStays DEF Waiting
  <2>3. Finishes(c) /\ task'[c].at = "announce" => db'[c].status = "DONE"
    BY <1>n DEF Finishes
  <2> QED  BY <2>1, <2>2, <2>3
<1>4. AtHome(c)' \/ Queued(c)' => Ready2
  <2>1. ASSUME AtHome(c) \/ Queued(c), (Ready /\ Ready2) \/ db'[c].status = db[c].status
        PROVE  Ready2
    BY <1>0, <2>1 DEF Waiting
  <2>2. CASE Stands(c) \/ Loses(c)
    <3>1. AtHome(c)' \/ Queued(c)' => AtHome(c) \/ Queued(c)
      BY <1>n, <2>2 DEF Stands, Loses, Surroundings, TickForgets, AtHome, Working
    <3>2. Ready => Ready2
      BY <2>2 DEF Stands, Loses
    <3> QED  BY <1>0, <3>1, <3>2 DEF Waiting
  <2>3. CASE Lists
    BY <1>0, <2>3 DEF Lists, AtHome, Waiting
  <2>4. CASE Ticks(c)
    BY <1>0, <1>n, <2>4 DEF Ticks, FromSnapshot, AtHome, Working, Waiting
  <2>5. CASE Runs(c)
    <3>1. ~Queued(c)'
      BY <2>5 DEF Runs, GivesBack, GoesOn, Leaves, Finishes, Begins, Vanishes, OwnStep, Queued
    <3>2. AtHome(c)' => GoesOn(c) \/ Begins(c)
      BY <1>n, <2>5 DEF Runs, GivesBack, Leaves, Finishes, Vanishes, AtHome, Working
    <3>3. GoesOn(c) \/ Begins(c) => Ready2
      BY <1>0 DEF GoesOn, Begins, Waiting, AtHome, Working, SideInv, Agents
    <3> QED  BY <3>1, <3>2, <3>3
  <2>6. CASE Requested(c)
    <3>1. Handled(c) /\ (AtHome(c)' = AtHome(c)) /\ (Queued(c)' = Queued(c))
      BY <1>0, <2>6 DEF Requested, AtHome, Queued
    <3>2. Ready => Ready2
      BY <1>0, <3>1 DEF Handled, OnlyAnswers
    <3> QED  BY <1>0, <3>1, <3>2 DEF Waiting
  <2>7. CASE Injected(c)
    BY <1>0, <2>7 DEF Injected, AtHome, Working, Live, Queued, Prompts, Exists
  <2>8. CASE Falls
    BY <1>n, <2>8 DEF Falls, AtHome, Working, Queued
  <2>9. CASE Restarts \/ Recovers(c)
    BY <2>9 DEF Restarts, Recovers, SideInv, Up, AtHome, Working, Queued
  <2> QED  BY <2>2, <2>3, <2>4, <2>5, <2>6, <2>7, <2>8, <2>9 DEF UnitStep
<1> QED  BY <1>2, <1>3, <1>4 DEF Waiting

\* DependenciesFirst, crashes and recoveries included: when operators answer and retry only, no
\* unit runs before the chunks it declares in depends_on are DONE.
THEOREM DependenciesAlwaysFirst ==
  ASSUME OnlyAnswers
  PROVE  Spec => DependenciesFirst
<1> DEFINE First == \A c \in ExplicitChunks :
              db[c].status # "RUNNING" /\ db'[c].status = "RUNNING" =>
                 \A d \in Deps[c] : db[d].status = "DONE"
<1>0. NoDeletes /\ Patchable = {}
  BY DEF OnlyAnswers, NoDeletes, Patchable
<1>1. Init => WaitingInv
  BY DEF Init, WaitingInv, Waiting, NoRow, NewRow, NoTask, IdleTick, AtHome, Working, Queued
<1>2. IInv /\ SideInv /\ LifeInv /\ WaitingInv /\ [Next]_vars => WaitingInv' /\ [First]_vars
  <2> SUFFICES ASSUME IInv, SideInv, LifeInv, WaitingInv, [Next]_vars
               PROVE  WaitingInv' /\ First
    OBVIOUS
  <2>1. \A d \in Chunks : UnitStep(d)
    BY NextUnitStep
  <2>2. patched' = {}
    <3>1. "patch" \notin OperatorRequests
      BY DEF OnlyAnswers
    <3> QED  BY <3>1, NextPatched DEF WaitingInv
  <2>3. \A c \in Chunks : /\ Waiting(c)'
                          /\ db[c].status # "RUNNING" /\ db'[c].status = "RUNNING" =>
                                \A d \in Deps[c] : db[d].status = "DONE"
    BY <2>1, WaitingStep, NextIInv
  <2>4. WaitingInv'
    BY <2>2, <2>3 DEF WaitingInv
  <2>5. First
    BY <2>3, SchedulerAssumption
  <2> QED  BY <2>4, <2>5
<1> QED  BY <1>0, <1>1, <1>2, LifeInvariance, PTL DEF Spec, DependenciesFirst
=============================================================================
