----------------------------- MODULE MCCommands -----------------------------
(* Commands of `ve', each a process of its own: those that keep the        *)
(* references of a project, those that move artifacts between the          *)
(* repositories of a task, those that read an external repository through  *)
(* the cache, and the one that injects a batch of chunks.  The models      *)
(* share no state: a behaviour is of one, while the others stay as they    *)
(* began.                                                                  *)
EXTENDS References, Tasks, RepoCache, Batch, TLC

\* As when task_ is replaced by sub_task_init_: the name of a1, which is task_init, is in both
\* new names, whether the rename gives them or other chunks have them, and in task_init.py.
CONSTANTS a1, a2, b1, b2, f2
Prefixed == (a1 :> b1) @@ (a2 :> b2)
Nested == {<<a1, b1>>, <<a1, b2>>, <<a1, f2>>}

\* depends_on of three chunks, in any graph but for the longest lists, and one entry
\* twice; the arguments in order, or a chunk twice, alone and before the others, which
\* are out of order. At most one chunk has a unit when its batch is given.
DependsOnLists ==
  {Unknown, <<>>, <<1, 1>>, <<1, 2>>, <<2, 3>>, <<1, 3>>} \cup {<<c>> : c \in ChunkIds}
Given == {<<1>>, <<1, 2>>, <<1, 1>>, <<1, 2, 3>>, <<1, 1, 3, 2>>}

VARIABLE part
commandVars == <<referenceVars, taskVars, cacheVars, batchVars, part>>

CommandInit ==
  /\ part \in {"references", "task", "cache", "inject"}
  /\ ReferenceInit /\ TaskInit /\ CacheInit /\ BatchInit
  /\ part # "cache" => cache = Absent
  /\ Cardinality({n \in AllNames : Exists(n)}) <= IF part = "inject" THEN 1 ELSE 0

ReferenceStep ==
  part = "references" /\ ReferenceNext /\ UNCHANGED <<taskVars, cacheVars, batchVars, part>>
TaskStep ==
  part = "task" /\ TaskNext /\ UNCHANGED <<referenceVars, cacheVars, batchVars, part>>
CacheStep ==
  part = "cache" /\ CacheNext /\ UNCHANGED <<referenceVars, taskVars, batchVars, part>>
InjectStep ==
  part = "inject" /\ BatchNext /\ UNCHANGED <<referenceVars, taskVars, cacheVars, part>>

CommandSpec ==
  CommandInit /\ [][ReferenceStep \/ TaskStep \/ CacheStep \/ InjectStep]_commandVars
=============================================================================
