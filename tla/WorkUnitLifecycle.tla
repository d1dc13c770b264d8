-------------------------- MODULE WorkUnitLifecycle --------------------------
(***************************************************************************)
(* What the orchestrator promises about each chunk it is given, with no    *)
(* word of queues, tasks, agents or crashes: a chunk goes through its      *)
(* phases one at a time, is taken back only by a review or by a merge      *)
(* conflict, reaches the base branch only from COMPLETE, that is after a   *)
(* review was passed, and is done once and for all only then.              *)
(***************************************************************************)
CONSTANTS Chunks, StartPhases

VARIABLES
    stage,       \* "absent", "waiting", "working", "stopped" or "done"
    phase,       \* the phase the chunk is in
    integrated   \* whether what its agents did is in the base branch

\* What follows a phase that was worked through.
After ==
    [p \in {"GOAL", "PLAN", "IMPLEMENT", "REBASE", "REVIEW"} |->
        CASE p = "GOAL"      -> "PLAN"
          [] p = "PLAN"      -> "IMPLEMENT"
          [] p = "IMPLEMENT" -> "REBASE"
          [] p = "REBASE"    -> "REVIEW"
          [] p = "REVIEW"    -> "COMPLETE"]

\* Where a chunk may be taken back to.
BackTo == [p \in {"REVIEW", "COMPLETE"} |-> IF p = "REVIEW" THEN "IMPLEMENT" ELSE "REBASE"]

Init ==
    /\ stage = [c \in Chunks |-> "absent"]
    /\ integrated = [c \in Chunks |-> FALSE]
    /\ phase \in [Chunks -> {"GOAL"}]

Moves(c, from, to) == stage[c] \in from /\ stage'[c] = to

Stays(c) == phase'[c] = phase[c] /\ integrated'[c] = integrated[c]

Submit(c) ==
    /\ Moves(c, {"absent"}, "waiting")
    /\ phase'[c] \in StartPhases
    /\ integrated'[c] = integrated[c]

\* Work starts on a branch of its own.
Begin(c) ==
    /\ Moves(c, {"waiting"}, "working")
    /\ phase'[c] = phase[c]
    /\ ~integrated'[c]

Advance(c) ==
    /\ Moves(c, {"working"}, "waiting")
    /\ phase[c] # "COMPLETE"
    /\ phase'[c] = After[phase[c]]
    /\ integrated'[c] = integrated[c]

TakeBack(c) ==
    /\ Moves(c, {"working"}, "waiting")
    /\ phase[c] \in DOMAIN BackTo
    /\ phase'[c] = BackTo[phase[c]]
    /\ integrated'[c] = integrated[c]

\* Work was interrupted, or an operator let it go on.
Requeue(c) == Moves(c, {"working", "stopped"}, "waiting") /\ Stays(c)

Stop(c) == Moves(c, {"waiting", "working"}, "stopped") /\ Stays(c)

Integrate(c) ==
    /\ phase[c] = "COMPLETE" /\ phase'[c] = phase[c]
    /\ integrated'[c]
    /\ stage'[c] = stage[c]

Finish(c) ==
    /\ Moves(c, {"waiting", "working", "stopped"}, "done")
    /\ phase[c] = "COMPLETE" /\ phase'[c] = phase[c]
    /\ integrated[c] => integrated'[c]

Step(c) ==
    \/ Submit(c) \/ Begin(c) \/ Advance(c) \/ TakeBack(c)
    \/ Requeue(c) \/ Stop(c) \/ Integrate(c) \/ Finish(c)

Idle(c) == stage'[c] = stage[c] /\ Stays(c)

Next == \A c \in Chunks : Step(c) \/ Idle(c)

Spec == Init /\ [][Next]_<<stage, phase, integrated>>
=============================================================================
