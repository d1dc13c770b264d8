---------------------------- MODULE MCConflicts ----------------------------
(* Conflicts of two or three chunks, with texts for the oracle.            *)
EXTENDS Conflicts, TLC

CONSTANTS a, b, c

Staged(x, y, z, n) ==
  [stage |-> (a :> x @@ b :> y @@ c :> z), located |-> [d \in Chunks |-> FALSE],
   shared |-> [p \in Pairs |-> IF p = {b, c} THEN 0 ELSE IF c \in p THEN 1 ELSE n]]

\* a has two phases to go, the others one.
LateStarts == [x \in Chunks |-> IF x = a THEN 1 ELSE 2]
Starts == [x \in Chunks |-> 1]

\* a and b must be in sequence, c asks about a and is independent of b.
AllVerdicts == {Staged("PLAN", "PLAN", "GOAL", 3)}
\* a and b must be in sequence: by their plans, by their references.
Overlapping == {Staged("PLAN", "PLAN", "PLAN", 3), Staged("COMPLETED", "COMPLETED", "PROPOSED", 1)}
=============================================================================
