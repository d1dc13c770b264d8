------------------------------- MODULE Review -------------------------------
(***************************************************************************)
(* The review of one chunk: where its decision is taken from               *)
(* (orchestrator/review_routing.py, review_parsing.py), what it does to    *)
(* the unit and to the feedback that the implementer has to answer, and    *)
(* the decision records that reviewer and operator write by command        *)
(* (reviewers.py, cli/reviewer.py).                                        *)
(*                                                                         *)
(* Module Scheduler has the unit among others, with a decision as it       *)
(* comes.  Here are the files it comes from, which outlive a review: the   *)
(* worktree is the same from iteration to iteration, and a worktree made   *)
(* anew after a merge conflict has what was committed.                     *)
(***************************************************************************)
EXTENDS Naturals, FiniteSets

CONSTANTS
  MaxIterations,  \* METADATA.yaml's loop_detection.max_iterations
  MaxNudges,      \* ReviewRoutingConfig.max_nudges
  MaxRounds,      \* bound: reviews of the chunk
  MaxRequests,    \* bound: answers and retries of the operator
  MaxReviewKills, \* bound: kills of the daemon
  Iterations,     \* iterations with a decision record
  MaxMarks        \* bound: reviews of decisions by operators

ASSUME ReviewBounds ==
  {MaxIterations, MaxNudges, MaxRounds, MaxRequests, MaxReviewKills, MaxMarks} \subseteq Nat

VARIABLES
  row,      \* the row, as far as reviews read and write it
  feedback,  \* whether REVIEW_FEEDBACK.md exists
  leftFile,  \* REVIEW_DECISION.yaml, and the round it was written in
  called,    \* what the run said by the ReviewDecision tool
  round,     \* history: the number of this review
  routed,    \* history: the decision last applied
  given,     \* history: the number of feedback files written
  used,      \* what the environment used of its bounds
  records,   \* docs/reviewers/<reviewer>/decisions/<chunk>_<n>.md
  meant,     \* history: what reviewer and operators last wrote in each
  overlapped,\* history: records written between an operator's read and write
  marking    \* `ve reviewer decisions review' between its read and its write

routeVars == <<row, feedback, leftFile, called, round, routed, given, used>>
recordVars == <<records, meant, overlapped, marking>>
reviewVars == <<routeVars, recordVars>>

Decisions == {"APPROVE", "FEEDBACK", "ESCALATE"}
NoFile == [decision |-> "none", round |-> 0]

RouteInit ==
  /\ row = [phase |-> "IMPLEMENT", status |-> "READY", iteration |-> 0, nudges |-> 0, impl |-> 0]
  /\ feedback = FALSE /\ leftFile = NoFile /\ called = "none"
  /\ round = 0 /\ routed = [decision |-> "none", of |-> 0, at |-> 0, by |-> "none", nudged |-> 0]
  /\ given = 0 /\ used = [requests |-> 0, kills |-> 0]

-----------------------------------------------------------------------------
(* The row.                                                               *)

Running(phase) == row.status = "RUNNING" /\ row.phase = phase

(* _run_work_unit.  A review does not start on feedback that the           *)
(* implementer has not answered by deleting its file.                      *)
Launch ==
  /\ row.status = "READY" /\ row.phase # "DONE"
  /\ row' = IF row.phase = "REVIEW" /\ feedback THEN [row EXCEPT !.phase = "IMPLEMENT"]
             ELSE IF row.phase # "IMPLEMENT" THEN [row EXCEPT !.status = "RUNNING"]
             ELSE IF row.impl > MaxIterations THEN [row EXCEPT !.status = "NEEDS_ATTENTION"]
             ELSE [row EXCEPT !.status = "RUNNING", !.impl = @ + 1]
  /\ called' = "none"
  /\ UNCHANGED <<feedback, leftFile, round, routed, given, used>>

(* The implementer, who may delete the feedback, and the rebase after it.  *)
Implemented ==
  /\ Running("IMPLEMENT") /\ round < MaxRounds
  /\ feedback' \in {feedback, FALSE}
  /\ row' = [row EXCEPT !.phase = "REVIEW", !.status = "READY"]
  /\ round' = round + 1
  /\ UNCHANGED <<leftFile, called, routed, given, used>>

(* Finalization, and _handle_merge_conflict_retry with the rebase after it: *)
(* what lies in the worktree was committed before.                          *)
Completed ==
  /\ Running("COMPLETE")
  /\ \/ row' = [row EXCEPT !.phase = "DONE"] /\ UNCHANGED round
     \/ /\ round < MaxRounds
        /\ row' = [row EXCEPT !.phase = "REVIEW", !.status = "READY"]
        /\ round' = round + 1
  /\ UNCHANGED <<feedback, leftFile, called, routed, given, used>>

(* answer, retry *)
OperatorResumes ==
  /\ row.status = "NEEDS_ATTENTION" /\ used.requests < MaxRequests
  /\ used' = [used EXCEPT !.requests = @ + 1]
  /\ row' = [row EXCEPT !.status = "READY"]
  /\ UNCHANGED <<feedback, leftFile, called, round, routed, given>>

(* An error of the agent, or its question: a decision it made is lost.     *)
RunFails ==
  /\ row.status = "RUNNING" /\ row.phase # "DONE"
  /\ row' = [row EXCEPT !.status = "NEEDS_ATTENTION"]
  /\ UNCHANGED <<feedback, leftFile, called, round, routed, given, used>>

(* A kill and the recovery after it. *)
Killed ==
  /\ row.status = "RUNNING" /\ row.phase # "DONE" /\ used.kills < MaxReviewKills
  /\ used' = [used EXCEPT !.kills = @ + 1]
  /\ row' = [row EXCEPT !.status = "READY"]
  /\ UNCHANGED <<feedback, leftFile, called, round, routed, given>>

-----------------------------------------------------------------------------
(* The reviewer's run, and what becomes of it.                             *)

(* A text that says another word than a decision is one without a decision. *)
SubmitDecision ==
  /\ Running("REVIEW") /\ called = "none"
  /\ called' \in Decisions \cup {"other"}
  /\ UNCHANGED <<row, feedback, leftFile, round, routed, given, used>>

LeaveFile ==
  /\ Running("REVIEW") /\ leftFile.round < round
  /\ \E d \in Decisions \cup {"other"} : leftFile' = [decision |-> d, round |-> round]
  /\ UNCHANGED <<row, feedback, called, round, routed, given, used>>

Said(decision, of, by, nudges) ==
  [decision |-> decision, of |-> of, at |-> round, by |-> by, nudged |-> nudges]

FromTool == IF called \in Decisions THEN {Said(called, round, "tool", row.nudges)} ELSE {}

FromFile ==
  IF leftFile.decision \in Decisions
  THEN {Said(leftFile.decision, leftFile.round, "file", row.nudges + 1)} ELSE {}

(* The log has an event in JSON on each line.  No fence ends a line and no *)
(* line begins with "decision:", so that the parser finds nothing.         *)
FromLog == {}

MayBeNudged == row.nudges + 1 < MaxNudges

\* Mutant: the file is looked for before the reviewer is reminded.
FirstFound == IF FromTool # {} THEN FromTool ELSE FromFile

(* The decision of a run, if there is one: of the tool, and after the last *)
(* nudge of what the file says, whenever it was written.                   *)
ReviewResult ==
  IF FromTool # {} THEN FromTool
  ELSE IF MayBeNudged THEN {} ELSE IF FromFile # {} THEN FromFile ELSE FromLog

Nudged ==
  /\ Running("REVIEW") /\ ReviewResult = {} /\ MayBeNudged
  /\ row' = [row EXCEPT !.nudges = @ + 1, !.status = "READY"]
  /\ UNCHANGED <<feedback, leftFile, called, round, routed, given, used>>

Undecided ==
  /\ Running("REVIEW") /\ ReviewResult = {} /\ ~MayBeNudged
  /\ row' = [row EXCEPT !.nudges = @ + 1, !.status = "NEEDS_ATTENTION"]
  /\ UNCHANGED <<feedback, leftFile, called, round, routed, given, used>>

Approve ==
  [row EXCEPT !.phase = "COMPLETE", !.status = "READY", !.nudges = 0, !.impl = 0]
Escalate == [row EXCEPT !.status = "NEEDS_ATTENTION", !.nudges = 0]
MayFeedBack == row.iteration + 1 < MaxIterations
FeedBack ==
  [row EXCEPT !.phase = "IMPLEMENT", !.status = "READY", !.nudges = 0, !.iteration = @ + 1]
TooManyReviews(r) ==
  [row EXCEPT !.status = "NEEDS_ATTENTION", !.nudges = IF r.by = "tool" THEN 0 ELSE r.nudged]

(* create_review_feedback_file; the row is written after it, and not at    *)
(* all if the daemon dies between.                                         *)
WriteFeedback(after, kills) ==
  /\ feedback' = TRUE /\ given' = given + 1
  /\ row' = after /\ used' = [used EXCEPT !.kills = @ + kills]

ApplyDecision ==
  \E r \in ReviewResult :
    /\ Running("REVIEW")
    /\ routed' = r
    /\ IF r.decision = "FEEDBACK" /\ MayFeedBack
       THEN \/ WriteFeedback(FeedBack, 0)
            \/ used.kills < MaxReviewKills
               /\ WriteFeedback([row EXCEPT !.status = "READY"], 1)
       ELSE /\ row' = CASE r.decision = "APPROVE"  -> Approve
                         [] r.decision = "ESCALATE" -> Escalate
                         [] OTHER                   -> TooManyReviews(r)
            /\ UNCHANGED <<feedback, given, used>>
    /\ UNCHANGED <<leftFile, called, round>>

RouteNext ==
  \/ Launch \/ Implemented \/ Completed \/ OperatorResumes \/ RunFails \/ Killed
  \/ SubmitDecision \/ LeaveFile \/ Nudged \/ Undecided \/ ApplyDecision

-----------------------------------------------------------------------------
(* Decision records.                                                       *)

NoRecord == [decision |-> "absent", mark |-> "null"]
Unfilled  == [decision |-> "null", mark |-> "null"]
NotYet   == [at |-> 0, read |-> NoRecord]
Marked   == [at |-> 0, read |-> Unfilled]

RecordInit ==
  /\ records = [n \in Iterations |-> NoRecord] /\ meant = [n \in Iterations |-> Unfilled]
  /\ overlapped = {} /\ marking = [n \in 1..MaxMarks |-> NotYet]

(* DecisionFrontmatter: a record with another word for a decision, or with *)
(* a feedback of spaces, does not parse.                                   *)
Readable(r) == r.decision \in Decisions \cup {"null"} /\ r.mark # "spaces"

DecisionFiles == {n \in Iterations : records[n] # NoRecord}
IsDecisionFile(n) == n \in DecisionFiles /\ Readable(records[n])

(* What waits for an operator, and what reviewers are shown as examples.   *)
Pending == {n \in DecisionFiles : IsDecisionFile(n) /\ records[n].mark = "null"}
Curated == {n \in DecisionFiles : IsDecisionFile(n) /\ records[n].mark # "null"}

(* `ve reviewer decision create': refused where there is a record.         *)
CreateRecord(n) ==
  /\ n \notin DecisionFiles
  /\ records' = [records EXCEPT ![n] = Unfilled]
  /\ UNCHANGED <<meant, overlapped, marking>>

MarksOf(n) == {k \in 1..MaxMarks : marking[k].at = n}

(* The reviewer fills in the record it created. *)
FillRecord(n) ==
  /\ n \in DecisionFiles
  /\ \E d \in Decisions \cup {"other"} :
       /\ records' = [records EXCEPT ![n].decision = d]
       /\ meant' = [meant EXCEPT ![n].decision = d]
  /\ overlapped' = IF MarksOf(n) = {} THEN overlapped ELSE overlapped \cup {n}
  /\ UNCHANGED marking

(* validate_decision_path, and the read in update_frontmatter_field. *)
StartMark(k, n) ==
  /\ marking[k] = NotYet
  /\ IsDecisionFile(n)
  /\ marking' = [marking EXCEPT ![k] = [at |-> n, read |-> records[n]]]
  /\ UNCHANGED <<records, meant, overlapped>>

(* The write: what was read, with the mark. A command marks once.          *)
WriteMark(k) ==
  LET n == marking[k].at IN
  /\ n # 0
  /\ \E m \in {"good", "bad", "feedback", "spaces"} :
       /\ records' = [records EXCEPT ![n] = [marking[k].read EXCEPT !.mark = m]]
       /\ meant' = [meant EXCEPT ![n].mark = m]
  /\ marking' = [marking EXCEPT ![k] = Marked]
  /\ UNCHANGED overlapped

RecordNext ==
  \/ \E n \in Iterations : CreateRecord(n) \/ FillRecord(n)
  \/ \E k \in 1..MaxMarks : WriteMark(k) \/ \E n \in Iterations : StartMark(k, n)

-----------------------------------------------------------------------------
(* Properties.                                                             *)

(* The type invariant. *)
ReviewTypeOK ==
  /\ row \in [phase : {"IMPLEMENT", "REVIEW", "COMPLETE", "DONE"},
               status : {"READY", "RUNNING", "NEEDS_ATTENTION"},
               iteration : 0..MaxIterations, nudges : Nat, impl : 0..(MaxIterations + 1)]
  /\ feedback \in BOOLEAN /\ round \in 0..MaxRounds /\ given \in Nat
  /\ leftFile \in [decision : Decisions \cup {"none", "other"}, round : 0..MaxRounds]
  /\ overlapped \subseteq Iterations

(* What is applied is what the reviewer said in this review.  Only after   *)
(* the last nudge, in a run that did not decide, can it be the word of an  *)
(* earlier one, left in REVIEW_DECISION.yaml (review_routing.py:254):      *)
(* a chunk can pass on the approval it had before a merge conflict sent it *)
(* back, or on one that the tool took back.                                *)
DecisionIsOfThisReview ==
  routed.of # routed.at => routed.by = "file" /\ routed.nudged >= MaxNudges

(* A review begins on answered feedback, so that no feedback is written    *)
(* over before the implementer deleted it (scheduler.py:714).              *)
FeedbackIsAnswered == Running("REVIEW") => ~feedback

(* The implementer is sent back with a count: as often as review_iterations *)
(* says, and once more for each daemon that died between the feedback file  *)
(* and the row (review_routing.py:341-357).                                 *)
FeedbackIsCounted == given <= row.iteration + used.kills

(* A record says what its reviewer and its operator last wrote, and waits   *)
(* for an operator as long as it has no mark: no creation writes over it,   *)
(* and only a write between the read and the write of a mark is lost        *)
(* (frontmatter.py:195).                                                    *)
RecordsSayWhatWasWritten ==
  \A n \in DecisionFiles \ overlapped :
    /\ records[n] = meant[n]
    /\ Readable(meant[n]) => n \in IF meant[n].mark = "null" THEN Pending ELSE Curated

(* The invariant of the module: its types, whose decision is applied, what *)
(* becomes of feedback, and the records.                                   *)
ReviewInv ==
  /\ ReviewTypeOK
  /\ DecisionIsOfThisReview /\ FeedbackIsAnswered /\ FeedbackIsCounted
  /\ RecordsSayWhatWasWritten
=============================================================================
