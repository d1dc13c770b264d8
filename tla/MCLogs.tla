------------------------------- MODULE MCLogs -------------------------------
(* What a unit's runs leave beside its row: the log files, followed by a   *)
(* dashboard and a `ve orch tail', and the review's files.  The models     *)
(* share no state: a behaviour is of one, while the others stay as they    *)
(* began.                                                                  *)
EXTENDS LogStream, Review

\* Files of one line, and of two where phases come back.
FewLines == <<1, 1, 2, 2, 2, 1>>

VARIABLE part
leftVars == <<logVars, reviewVars, part>>

LeftInit ==
  /\ part \in {"logs", "review", "records"}
  /\ LogInit /\ RouteInit /\ RecordInit
  /\ part # "logs" => unit.phase = IMPLEMENT /\ tail = Blank

LogStep    == part = "logs" /\ LogNext /\ UNCHANGED <<reviewVars, part>>
ReviewStep == part = "review" /\ RouteNext /\ UNCHANGED <<logVars, recordVars, part>>
RecordStep == part = "records" /\ RecordNext /\ UNCHANGED <<logVars, routeVars, part>>

\* The fairness of LogStream.
LeftSpec ==
  /\ LeftInit /\ [][LogStep \/ ReviewStep \/ RecordStep]_leftVars
  /\ LogFairness

(* What is left of a unit's runs is read as it was meant: every line of a  *)
(* log (LogInv), and the decisions of reviewers (ReviewInv).               *)
LeftInv == LogInv /\ ReviewInv
=============================================================================
