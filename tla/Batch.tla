-------------------------------- MODULE Batch ---------------------------------
(***************************************************************************)
(* `ve orch inject' of several chunks: the command reads what each depends *)
(* on, has the daemon list its work units, sorts the chunks so that what a *)
(* chunk depends on comes first, and injects them with one request each.   *)
(* Between two of its requests the daemon's units go on: they finish, are  *)
(* deleted, get another name; and a request may take effect and its answer *)
(* be too late. Names are numbers: their order is the alphabet's.          *)
(***************************************************************************)
EXTENDS Integers, FiniteSets, Sequences, SequencesExt, Functions

CONSTANTS
  ChunkIds,       \* names of chunks, of the project or not
  SpareNames,       \* the names agents may give to chunks
  Declarations,   \* what depends_on may be: Unknown, or a sequence of chunks
  Arguments,      \* what a command may be given: sequences of chunks
  MaxEvents       \* bound on what other units do meanwhile

ASSUME BatchBounds ==
  /\ ChunkIds \union SpareNames \subseteq Nat \ {0}
  /\ ChunkIds \intersect SpareNames = {}
  /\ Declarations \subseteq Seq(ChunkIds) \union {<<0>>}
  /\ Arguments \subseteq Seq(ChunkIds) \ {<<>>}
  /\ MaxEvents \in Nat

VARIABLES
  units,   \* name -> [status, waits], or NoUnit; waits: how often each name is in blocked_by
  inject,  \* the command: [at, arguments, depends, order, posted]
  events,  \* how many there were
  gone     \* history: names deleted, or changed after the command had looked; and what they were changed to
batchVars == <<units, inject, events, gone>>

AllNames == ChunkIds \union SpareNames
Unknown == <<0>>   \* depends_on: null, or no frontmatter
Nobody == [n \in AllNames |-> 0]
NoUnit == [status |-> "NONE", waits |-> Nobody]
Exists(n) == units[n] # NoUnit

-----------------------------------------------------------------------------
(* The pure part: who depends on whom within the batch, and Kahn's sort. *)

Declared(depends, c) == IF depends[c] = Unknown THEN <<>> ELSE depends[c]
Occurrences(s, x) == Cardinality({i \in DOMAIN s : s[i] = x})

\* in_degree counts every entry of depends_on that is in the batch.
Within(arguments, depends, c) ==
  {i \in DOMAIN Declared(depends, c) : Declared(depends, c)[i] \in ToSet(arguments)}
InDegree(arguments, depends) ==
  [c \in ToSet(arguments) |->
     Occurrences(arguments, c) * Cardinality(Within(arguments, depends, c))]

\* The queue holds places in the arguments, for a chunk may be given twice.
Place(arguments, c) == CHOOSE i \in DOMAIN arguments : arguments[i] = c

Start(arguments, depends) ==
  LET degree == InDegree(arguments, depends)
  IN  [degree |-> degree, result |-> <<>>,
       queue |-> {i \in DOMAIN arguments : degree[arguments[i]] = 0}]

\* One turn of the loop: the first chunk of the sorted queue is taken, and each argument
\* that depends on it has one entry less to wait for. A chunk is queued when none is left.
TakeFirst(arguments, depends, st) ==
  LET first == CHOOSE i \in st.queue : \A j \in st.queue : arguments[i] <= arguments[j]
      degree == [c \in ToSet(arguments) |->
                   IF arguments[first] \in ToSet(Declared(depends, c))
                     THEN st.degree[c] - Occurrences(arguments, c) ELSE st.degree[c]]
      freed == {c \in ToSet(arguments) : st.degree[c] > 0 /\ degree[c] <= 0}
  IN  [degree |-> degree, result |-> Append(st.result, first),
       queue |-> (st.queue \ {first}) \union {Place(arguments, c) : c \in freed}]

\* The loop after k turns; it ends when the queue is empty.
Kahn(arguments, depends) ==
  LET Loop[k \in 0 .. Len(arguments)] ==
        IF k = 0 THEN Start(arguments, depends)
        ELSE IF Loop[k - 1].queue = {} THEN Loop[k - 1]
        ELSE TakeFirst(arguments, depends, Loop[k - 1])
  IN  Loop

\* Mutant: the chunks as they were given.
AsGiven(arguments, depends) == arguments

\* The chunks, dependencies first; an empty sequence when some are never reached: there
\* is a cycle, or an argument or an entry is given twice and counted twice.
TopologicalSort(arguments, depends) ==
  LET taken == Kahn(arguments, depends)[Len(arguments)].result
  IN  IF Len(taken) = Len(arguments) THEN [k \in DOMAIN taken |-> arguments[taken[k]]] ELSE <<>>

\* What the batch depends on and does not hold.
Outside(arguments, depends) ==
  (UNION {ToSet(Declared(depends, c)) : c \in ToSet(arguments)}) \ ToSet(arguments)

-----------------------------------------------------------------------------
(* The command. *)

NoCommand == [at |-> "idle", arguments |-> <<>>, depends |-> <<>>, order |-> <<>>, posted |-> 0]

BatchInit ==
  /\ units \in [AllNames -> {NoUnit} \union {[status |-> s, waits |-> Nobody] : s \in {"READY", "DONE"}}]
  /\ \A n \in SpareNames : ~Exists(n)
  /\ inject = NoCommand /\ events = 0 /\ gone = {}

\* The dependencies are read from the chunks' frontmatter.
Read(arguments, depends) ==
  /\ inject.at = "idle"
  /\ inject' = [NoCommand EXCEPT !.at = "look", !.arguments = arguments, !.depends = depends]
  /\ UNCHANGED <<units, events, gone>>

\* No request is made when nothing outside the batch is named; one that fails, or that
\* shows a name to be missing, ends the command. Then the chunks are sorted.
ValidateAndSort(answered) ==
  LET order == TopologicalSort(inject.arguments, inject.depends)
      external == Outside(inject.arguments, inject.depends)
  IN  /\ inject.at = "look"
      /\ IF \E n \in external : ~answered \/ ~Exists(n) THEN inject' = [inject EXCEPT !.at = "missing"]
         ELSE IF order = <<>> THEN inject' = [inject EXCEPT !.at = "cycle"]
         ELSE inject' = [inject EXCEPT !.at = "post", !.order = order]
      /\ UNCHANGED <<units, events, gone>>

Upcoming == inject.order[inject.posted + 1]

\* A dependency that is DONE does not block; one that is not known does.
ActiveBlockers(c) ==
  [n \in AllNames |-> IF units[n].status = "DONE" THEN 0 ELSE Occurrences(Declared(inject.depends, c), n)]

\* POST /work-units/inject. The command goes on when it has the answer in time.
Post(inTime) ==
  /\ inject.at = "post" /\ ~Exists(Upcoming)
  /\ LET waits == ActiveBlockers(Upcoming)
     IN  units' = [units EXCEPT ![Upcoming] =
           [status |-> IF waits = Nobody THEN "READY" ELSE "BLOCKED", waits |-> waits]]
  /\ inject' = [inject EXCEPT !.posted = @ + 1,
       !.at = IF ~inTime THEN "stopped" ELSE IF inject.posted + 1 = Len(inject.order) THEN "done" ELSE "post"]
  /\ UNCHANGED <<events, gone>>

\* The chunk has a unit, or may not be injected: the chunks after it are not.
PostRefused ==
  /\ inject.at = "post"
  /\ inject' = [inject EXCEPT !.at = "stopped"]
  /\ UNCHANGED <<units, events, gone>>

-----------------------------------------------------------------------------
(* What becomes of the units meanwhile. *)

Event == inject.at \notin {"idle", "missing", "cycle"} /\ events < MaxEvents /\ events' = events + 1 /\ UNCHANGED inject

\* The unit's dependents lose one entry for it, and those that have none left are READY.
Complete(n) ==
  /\ Event /\ units[n].status = "READY"
  /\ units' = [m \in AllNames |->
       LET left == [units[m].waits EXCEPT ![n] = @ - 1]
       IN  IF m = n THEN [units[m] EXCEPT !.status = "DONE"]
           ELSE IF units[m].waits[n] = 0 THEN units[m]
           ELSE [waits |-> left, status |-> IF left = Nobody /\ units[m].status = "BLOCKED"
                                            THEN "READY" ELSE units[m].status]]
  /\ UNCHANGED gone

\* A planned unit gets another name, in its row and in those that wait for it.
GiveName(old, new) ==
  /\ Event /\ units[old].status = "READY" /\ ~Exists(new)
  /\ units' = [m \in AllNames |->
       LET u == IF m = new THEN units[old] ELSE IF m = old THEN NoUnit ELSE units[m]
           waits == [u.waits EXCEPT ![new] = u.waits[new] + u.waits[old], ![old] = 0]
       IN  [status |-> u.status, waits |-> waits]]
  /\ gone' = gone \union (IF inject.at = "post" THEN {old} ELSE {})
                 \union (IF old \in gone THEN {new} ELSE {})

\* DELETE does not look who waits for the unit.
DeleteUnit(n) ==
  /\ Event /\ Exists(n)
  /\ units' = [units EXCEPT ![n] = NoUnit]
  /\ gone' = gone \union {n}

BatchNext ==
  \/ \E arguments \in Arguments :
       \E depends \in [ToSet(arguments) -> Declarations] : Read(arguments, depends)
  \/ \E answered \in BOOLEAN : ValidateAndSort(answered)
  \/ \E inTime \in BOOLEAN : Post(inTime)
  \/ PostRefused
  \/ \E n \in AllNames :
       Complete(n) \/ DeleteUnit(n) \/ \E new \in SpareNames : GiveName(n, new)

BatchSpec == BatchInit /\ [][BatchNext]_batchVars

-----------------------------------------------------------------------------
(* Properties. *)

Batched == ToSet(inject.arguments)
DependsOn(c, d) == d \in ToSet(Declared(inject.depends, c))

\* No chunk is given twice. (Taken twice, a chunk frees its dependents twice.)
GivenOnce == IsInjective(inject.arguments)

\* Every argument is injected, each after the arguments it depends on.
DependenciesPostedFirst ==
  inject.at = "post" =>
    /\ \A c \in Batched : Occurrences(inject.order, c) = Occurrences(inject.arguments, c)
    /\ GivenOnce => \A i, j \in DOMAIN inject.order :
                       DependsOn(inject.order[i], inject.order[j]) => j < i

\* A batch is refused for a cycle when it cannot be ordered, and only then, if nothing is
\* given twice. (Given twice, a chunk may hide a cycle or feign one.)
CycleIffNoOrder ==
  LET Ordered == \E rank \in [Batched -> 1 .. Cardinality(Batched)] :
                   \A c, d \in Batched : DependsOn(c, d) => rank[d] < rank[c]
      Once == GivenOnce /\ \A c \in Batched : IsInjective(Declared(inject.depends, c))
  IN  /\ inject.at = "cycle" /\ Once => ~Ordered
      /\ inject.at = "post" /\ Once => Ordered

WaitsFor(n, b) == units[n].waits[b] > 0

\* What a unit waits for exists, but for what was deleted, or overtook the command, and
\* for batches in which a chunk is given twice.
BlockersExist ==
  \A n, b \in AllNames :
    WaitsFor(n, b) => Exists(b) \/ b \in gone \/ (b \in Batched /\ ~GivenOnce)

\* A BLOCKED unit waits for one that is not DONE, but for what was deleted or renamed as
\* above, and for an entry given twice, of which one is never taken away.
BlockedForAReason ==
  \A n \in AllNames :
    /\ units[n].status = "BLOCKED" =>
         \/ \E b \in AllNames : WaitsFor(n, b) /\ (b \in gone \/ units[b].status # "DONE")
         \/ ~IsInjective(Declared(inject.depends, n))
    /\ units[n].status = "READY" => \A b \in AllNames : ~WaitsFor(n, b)

BatchInv == DependenciesPostedFirst /\ CycleIffNoOrder /\ BlockersExist /\ BlockedForAReason
=============================================================================
