------------------------------ MODULE MCScheduler ------------------------------
(***************************************************************************)
(* Instances of Scheduler for TLC: chunk names and dependency graphs.      *)
(***************************************************************************)
EXTENDS Scheduler, TLC

CONSTANTS a, b, c

Alone == {a}
Pair  == {a, b}
Trio  == {a, b, c}

NoDeps    == [x \in Chunks |-> {}]
\* b depends on a.
PairDeps  == [x \in Chunks |-> IF x = b THEN {a} ELSE {}]
\* c depends on a and on b.
JoinDeps  == [x \in Chunks |-> IF x = c THEN {a, b} ELSE {}]

\* Chunks without dependencies are alike.
Interchangeable == Permutations(Chunks)
=============================================================================
