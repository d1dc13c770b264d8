------------------------------ MODULE MCRequests ------------------------------
(***************************************************************************)
(* Scheduler under requests of the operator.  The steps TLC looks at make  *)
(* one of two scenarios, told apart by the unit c: a pair of units with    *)
(* requests of every kind, and three units of which one is deleted behind  *)
(* the unit that a suspended tick asks about.                              *)
(***************************************************************************)
EXTENDS MCScheduler

\* Nobody asks for the deletion of c.
Deletion == \E x \in {a, b} : Exists(db[x]) /\ ~Exists(db'[x])

\* API errors are met by one unit at a time, and by one of a pair only when the last request was
\* made.
Failures ==
    \A x, y \in Chunks : task[x].at = "agent" /\ db'[x].api > db[x].api =>
        /\ y = x \/ db[y].api = 0
        /\ Exists(db[c]) \/ used.requests = MaxRequests

\* The third unit comes first and stays, none is DONE before the deletion; none is BLOCKED,
\* and none stops but for the oracle's question.
TrioStep ==
    /\ Exists(db[c]) \/ (used.requests = 0 /\ ~Exists(db[a]) /\ ~Exists(db[b]))
    /\ used.requests > 0 => \A x \in Chunks : Exists(db'[x]) => Exists(db[x])
    /\ \A x \in Chunks : /\ db'[x].status # "BLOCKED"
                         /\ db'[x].status = "DONE" => used.requests > 0
                         /\ db'[x].status = "NEEDS_ATTENTION" => db'[x].reason = "conflict"
    /\ used'.requests = used.requests \/ (used.requests = 0 /\ Deletion)

Scenario == Failures /\ IF Exists(db'[c]) THEN TrioStep ELSE ~Exists(db[c])

\* In either scenario a and b are alike.
AlikeUnits == Permutations({a, b})
=============================================================================
