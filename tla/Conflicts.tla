----------------------------- MODULE Conflicts -----------------------------
(***************************************************************************)
(* Which chunks may run at a time: the conflict oracle                     *)
(* (src/src/orchestrator/oracle.py), the verdicts that rows and the table  *)
(* conflict_analyses keep, Scheduler._check_conflicts with its questions   *)
(* to the operator, and `ve orch resolve' and `ve orch analyze'.           *)
(*                                                                         *)
(* Module Scheduler has the rest of a unit's life; here a run ends by an   *)
(* advance, a retry, a question or DONE.  A tick yields to other           *)
(* coroutines only where it asks the operator; it keeps the rows it read   *)
(* at its start, and a run keeps the row it read at its own.               *)
(***************************************************************************)
EXTENDS Naturals, Sequences, FiniteSets

CONSTANTS
  Chunks,
  Texts,        \* what the oracle may read: see Text
  First,        \* First[c]: the phase that c is injected at
  MaxAgents,    \* max_agents
  MaxPhases,    \* bound: phases of a unit
  MaxRetries,   \* bound: retries of all units
  MaxRequests   \* bound: requests of the operator

ASSUME ConflictsBounds ==
  /\ MaxAgents \in Nat \ {0} /\ MaxPhases \in Nat \ {0}
  /\ MaxRetries \in Nat /\ MaxRequests \in Nat
  /\ IsFiniteSet(Chunks) /\ First \in [Chunks -> 1..MaxPhases]

VARIABLES
  text,      \* the chunks' documents in the main checkout
  row,       \* the table work_units
  analyses,  \* the table conflict_analyses, by pair
  task,      \* _running_agents: how far the coroutine of a chunk is
  mem,       \* the row that a run holds in memory, NewRow without a run
  queue,     \* what is left of the tick's ready queue: chunks with rows
  check,     \* the suspended _check_conflicts, or none
  requests,
  retries

vars == <<text, row, analyses, task, mem, queue, check, requests, retries>>

Statuses == {"READY", "RUNNING", "BLOCKED", "NEEDS_ATTENTION", "DONE"}
Reasons == {"none", "conflict", "question"}
Verdicts == {"INDEPENDENT", "SERIALIZE", "ASK_OPERATOR"}
Pairs == {p \in SUBSET Chunks : Cardinality(p) = 2}

Row ==
  [status : Statuses, phase : 1..MaxPhases, blockedBy : SUBSET Chunks,
   verdict : [Chunks -> Verdicts \cup {"none"}], reason : Reasons]

NewRow(c) ==
  [status |-> "READY", phase |-> First[c], blockedBy |-> {},
   verdict |-> [d \in Chunks |-> "none"], reason |-> "none"]

-----------------------------------------------------------------------------
(* The oracle.                                                             *)

Stages == {"PROPOSED", "GOAL", "PLAN", "COMPLETED"}

Text ==
  [stage : [Chunks -> Stages],    \* _detect_stage
   located : [Chunks -> BOOLEAN], \* PLAN.md has Location: lines
   shared : [Pairs -> Nat]]       \* terms, files or symbols in common

Located(c) == text.stage[c] = "PLAN" \/ text.located[c]

ProposedVerdict(c, d) == "ASK_OPERATOR"

GoalVerdict(c, d) ==
  IF text.shared[{c, d}] > 0 THEN "ASK_OPERATOR" ELSE "INDEPENDENT"

PlanVerdict(c, d) ==
  IF ~Located(c) \/ ~Located(d) THEN "ASK_OPERATOR"
  ELSE IF text.shared[{c, d}] > 2 THEN "SERIALIZE"
  ELSE GoalVerdict(c, d)

CompletedVerdict(c, d) ==
  IF text.shared[{c, d}] > 0 THEN "SERIALIZE" ELSE "INDEPENDENT"

(* analyze_conflict, by the lesser of the two stages.                      *)
Analysis(c, d) ==
  LET stages == {text.stage[c], text.stage[d]} IN
  IF "PROPOSED" \in stages THEN ProposedVerdict(c, d)
  ELSE IF "GOAL" \in stages THEN GoalVerdict(c, d)
  ELSE IF "PLAN" \in stages THEN PlanVerdict(c, d)
  ELSE CompletedVerdict(c, d)

-----------------------------------------------------------------------------

Init ==
  /\ text \in Texts
  /\ row = [c \in Chunks |-> NewRow(c)]
  /\ analyses = [p \in Pairs |-> "none"]
  /\ task = [c \in Chunks |-> "none"]
  /\ mem = [c \in Chunks |-> NewRow(c)]
  /\ queue = <<>> /\ check = {} /\ requests = 0 /\ retries = 0

WithStatus(s) == {c \in Chunks : row[c].status = s}

(* The tick gives way only at its end and where it waits for a broadcast.  *)
LockFree == queue = <<>> /\ check = {}
Yielded == queue = <<>> \/ check # {}

(* get_ready_queue: the units that most others wait for come first; ties   *)
(* in any order.                                                           *)
BlocksCount(c) ==
  Cardinality({d \in Chunks : row[d].status \in {"BLOCKED", "READY"} /\ c \in row[d].blockedBy})

ReadyQueues ==
  LET n == Cardinality(WithStatus("READY"))
  IN {q \in [1..n -> WithStatus("READY")] :
        /\ \A i, j \in 1..n : i < j => q[i] # q[j] /\ BlocksCount(q[i]) >= BlocksCount(q[j])}

Keys == {c \in Chunks : task[c] \notin {"none", "returned"}}

(* _dispatch_tick: finished tasks are swept, then the queue is cut to the  *)
(* free slots.                                                             *)
TickStart ==
  /\ LockFree
  /\ task' = [c \in Chunks |-> IF c \in Keys THEN task[c] ELSE "none"]
  /\ Cardinality(Keys) < MaxAgents
  /\ \E q \in ReadyQueues :
       queue' = [i \in {j \in DOMAIN q : j + Cardinality(Keys) <= MaxAgents} |->
                   [chunk |-> q[i], unit |-> row[q[i]]]]
  /\ UNCHANGED <<text, row, analyses, mem, check, requests, retries>>

TickSkip ==
  /\ queue # <<>> /\ check = {}
  /\ Head(queue).chunk \in Keys
  /\ queue' = Tail(queue)
  /\ UNCHANGED <<text, row, analyses, task, mem, check, requests, retries>>

(* One call of _check_conflicts: its unit, the chunks it has still to look *)
(* at, those that were RUNNING when it began, and those that block.        *)
Begun ==
  [chunk |-> Head(queue).chunk, unit |-> Head(queue).unit, running |-> WithStatus("RUNNING"),
   left |-> (WithStatus("RUNNING") \cup WithStatus("READY")) \ {Head(queue).chunk},
   blocking |-> {}]

VerdictOn(k, d) ==
  IF k.unit.verdict[d] # "none" THEN k.unit.verdict[d] ELSE Analysis(k.chunk, d)

Asks(k, d) == VerdictOn(k, d) = "ASK_OPERATOR" /\ d \in k.running

\* Mutant: READY units block as RUNNING ones do.
BlockingActive(k, ds) == {d \in ds : VerdictOn(k, d) = "SERIALIZE"}

Blocking(k, ds) == {d \in ds : VerdictOn(k, d) = "SERIALIZE" /\ d \in k.running}

(* The unit after a look at ds, and the rows: a first look is written to   *)
(* both rows, the unit's as it was read, the other's afresh.               *)
Noted(k, ds) ==
  [k.unit EXCEPT !.verdict = [d \in Chunks |-> IF d \in ds THEN VerdictOn(k, d) ELSE @[d]]]

FirstLooks(k, ds) == {d \in ds : k.unit.verdict[d] = "none"}

NotedRows(k, ds) ==
  [d \in Chunks |->
    IF d \in FirstLooks(k, ds) THEN [row[d] EXCEPT !.verdict[k.chunk] = VerdictOn(k, d)]
    ELSE IF d = k.chunk /\ FirstLooks(k, ds) # {} THEN Noted(k, ds)
    ELSE row[d]]

NoteAnalyses(k, ds) ==
  analyses' = [p \in Pairs |->
    IF \E d \in FirstLooks(k, ds) : p = {k.chunk, d}
    THEN Analysis(k.chunk, CHOOSE d \in p : d # k.chunk) ELSE analyses[p]]

(* The looks up to a question: NEEDS_ATTENTION, and it waits.              *)
AskAbout(k, ds, d) ==
  LET seen == ds \cup {d}
      unit == [Noted(k, seen) EXCEPT !.status = "NEEDS_ATTENTION", !.reason = "conflict"]
  IN /\ Asks(k, d)
     /\ NoteAnalyses(k, seen)
     /\ row' = [NotedRows(k, seen) EXCEPT ![k.chunk] = unit]
     /\ check' = {[k EXCEPT !.unit = unit, !.left = @ \ seen,
                            !.blocking = @ \cup Blocking(k, ds) \cup {d}]}
     /\ UNCHANGED <<queue, task>>

(* The rest of the looks: blocked units are written and passed over, with  *)
(* whatever status the unit in memory has; others get a task.              *)
Conclude(k) ==
  LET blocking == k.blocking \cup Blocking(k, k.left)
      unit == Noted(k, k.left)
      rows == NotedRows(k, k.left)
  IN /\ NoteAnalyses(k, k.left)
     /\ IF blocking = {}
        THEN task' = [task EXCEPT ![k.chunk] = "created"] /\ row' = rows
        ELSE /\ row' = IF blocking = unit.blockedBy THEN rows
                       ELSE [rows EXCEPT ![k.chunk] =
                              [unit EXCEPT !.blockedBy = @ \cup blocking]]
             /\ UNCHANGED task
     /\ check' = {}
     /\ queue' = Tail(queue)

Look(k) ==
  \/ (\A d \in k.left : ~Asks(k, d)) /\ Conclude(k)
  \/ \E ds \in SUBSET k.left : \E d \in k.left \ ds :
       (\A e \in ds : ~Asks(k, e)) /\ AskAbout(k, ds, d)

TickCheck ==
  /\ queue # <<>> /\ check = {}
  /\ Head(queue).chunk \notin Keys
  /\ Look(Begun)
  /\ UNCHANGED <<text, mem, requests, retries>>

(* The broadcast is over: it goes on with what it knew.                    *)
TickAsked ==
  /\ \E k \in check : Look(k)
  /\ UNCHANGED <<text, mem, requests, retries>>

-----------------------------------------------------------------------------
(* Coroutines of work units.                                               *)

(* _run_work_unit looks at the row again, and leaves if it is not READY.   *)
Start(c) ==
  /\ Yielded /\ task[c] = "created"
  /\ IF row[c].status = "READY"
     THEN LET unit == [row[c] EXCEPT !.status = "RUNNING", !.blockedBy = {}, !.reason = "none"]
          IN /\ row' = [row EXCEPT ![c] = unit]
             /\ mem' = [mem EXCEPT ![c] = unit]
             /\ task' = [task EXCEPT ![c] = "running"]
     ELSE task' = [task EXCEPT ![c] = "returned"] /\ UNCHANGED <<row, mem>>
  /\ UNCHANGED <<text, analyses, queue, check, requests, retries>>

(* The end of a run writes the row from memory.                            *)
EndRun(c, unit, next) ==
  /\ Yielded /\ task[c] = "running"
  /\ row' = [row EXCEPT ![c] = unit]
  /\ mem' = [mem EXCEPT ![c] = NewRow(c)]
  /\ task' = [task EXCEPT ![c] = next]
  /\ UNCHANGED <<text, analyses, queue, check, requests>>

Advance(c) ==
  /\ mem[c].phase < MaxPhases
  /\ EndRun(c, [mem[c] EXCEPT !.status = "READY", !.phase = @ + 1, !.reason = "none"],
            "advanced")
  /\ UNCHANGED retries

Retry(c) ==
  /\ retries < MaxRetries
  /\ retries' = retries + 1
  /\ EndRun(c, [mem[c] EXCEPT !.status = "READY", !.reason = "none"], "exit")

AskQuestion(c) ==
  EndRun(c, [mem[c] EXCEPT !.status = "NEEDS_ATTENTION", !.reason = "question"], "exit")
  /\ UNCHANGED retries

Finish(c) ==
  /\ mem[c].phase = MaxPhases
  /\ EndRun(c, [mem[c] EXCEPT !.status = "DONE"], "announce")
  /\ UNCHANGED retries

(* _reanalyze_conflicts, after the broadcast of the new phase: the unit's  *)
(* analyses and its own verdicts, the operator's too, are forgotten.       *)
Reanalyze(c) ==
  /\ Yielded /\ task[c] = "advanced"
  /\ analyses' = [p \in Pairs |-> IF c \in p THEN "none" ELSE analyses[p]]
  /\ row' = [row EXCEPT ![c].verdict = [d \in Chunks |-> "none"]]
  /\ task' = [task EXCEPT ![c] = "exit"]
  /\ UNCHANGED <<text, mem, queue, check, requests, retries>>

\* Mutant: only NEEDS_ATTENTION is woken.
UnblockedAsked(r, c) ==
  LET rest == r.blockedBy \ {c} IN
  IF rest = {} /\ c \in r.blockedBy /\ r.status = "NEEDS_ATTENTION"
  THEN [r EXCEPT !.blockedBy = {}, !.status = "READY", !.reason = "none"]
  ELSE [r EXCEPT !.blockedBy = rest]

(* unblock_dependents, after the broadcast of DONE.                        *)
Unblocked(r, c) ==
  LET rest == r.blockedBy \ {c} IN
  IF c \notin r.blockedBy THEN r
  ELSE IF rest = {} /\ r.status \in {"BLOCKED", "NEEDS_ATTENTION"}
  THEN [r EXCEPT !.blockedBy = {}, !.status = "READY", !.reason = "none"]
  ELSE [r EXCEPT !.blockedBy = rest]

UnblockDependents(c) ==
  /\ Yielded /\ task[c] = "announce"
  /\ row' = [d \in Chunks |-> Unblocked(row[d], c)]
  /\ task' = [task EXCEPT ![c] = "exit"]
  /\ UNCHANGED <<text, analyses, mem, queue, check, requests, retries>>

(* The finally clause waits for the tick's lock.                           *)
Exit(c) ==
  /\ LockFree /\ task[c] = "exit"
  /\ task' = [task EXCEPT ![c] = "none"]
  /\ UNCHANGED <<text, row, analyses, mem, queue, check, requests, retries>>

-----------------------------------------------------------------------------
(* The operator.                                                           *)

Request ==
  /\ Yielded
  /\ requests < MaxRequests
  /\ requests' = requests + 1
  /\ UNCHANGED <<text, task, mem, queue, check, retries>>

Answer(c) ==
  /\ Request
  /\ row[c].status = "NEEDS_ATTENTION"
  /\ row' = [row EXCEPT ![c].status = "READY", ![c].reason = "none"]
  /\ UNCHANGED analyses

(* resolve_conflict_endpoint.                                              *)
Serialized(r, d) ==
  LET unit == [r EXCEPT !.verdict[d] = "SERIALIZE", !.blockedBy = @ \cup {d}] IN
  IF r.status = "NEEDS_ATTENTION" THEN [unit EXCEPT !.status = "BLOCKED", !.reason = "none"]
  ELSE unit

Parallelized(r, d) ==
  LET unit == [r EXCEPT !.verdict[d] = "INDEPENDENT", !.blockedBy = @ \ {d}] IN
  IF unit.blockedBy = {} /\ r.status = "NEEDS_ATTENTION" /\ r.reason = "conflict"
  THEN [unit EXCEPT !.status = "READY", !.reason = "none"]
  ELSE unit

Resolve(c, d) ==
  /\ Request
  /\ c # d
  /\ \E r \in {Serialized(row[c], d), Parallelized(row[c], d)} : row' = [row EXCEPT ![c] = r]
  /\ UNCHANGED analyses

(* analyze_conflicts_endpoint writes the table, not the rows.              *)
Analyze(c, d) ==
  /\ Request
  /\ c # d
  /\ analyses' = [analyses EXCEPT ![{c, d}] = Analysis(c, d)]
  /\ UNCHANGED row

Tick == TickStart \/ TickSkip \/ TickCheck \/ TickAsked

Task(c) ==
  \/ Start(c) \/ Advance(c) \/ Retry(c) \/ AskQuestion(c) \/ Finish(c)
  \/ Reanalyze(c) \/ UnblockDependents(c) \/ Exit(c)

Operator ==
  \E c \in Chunks : Answer(c) \/ \E d \in Chunks : Resolve(c, d) \/ Analyze(c, d)

Next == Tick \/ Operator \/ \E c \in Chunks : Task(c)

Spec == Init /\ [][Next]_vars

(* The loop ticks and agents' runs end; the event loop and the lock serve  *)
(* their waiters in turn, so ticks do not starve a coroutine.  The         *)
(* operator owes nothing.                                                  *)
FairSpec == Spec /\ WF_vars(Tick) /\ \A c \in Chunks : SF_vars(Task(c))

-----------------------------------------------------------------------------
(* Properties.                                                             *)

(* A blocker that has told its dependents tells them no more.              *)
Over(c) == row[c].status = "DONE" /\ task[c] # "announce"

(* The units whose waiting ends when others do what they have to: not      *)
(* BLOCKED, or BLOCKED by units of which each comes to its end.            *)
Ending ==
  LET after[n \in 0..Cardinality(Chunks)] ==
        IF n = 0 THEN Chunks \ WithStatus("BLOCKED")
        ELSE {c \in Chunks : \/ c \in after[n - 1]
                             \/ /\ row[c].blockedBy # {}
                                /\ \A d \in row[c].blockedBy : ~Over(d) /\ d \in after[n - 1]}
  IN after[Cardinality(Chunks)]

Stuck == Chunks \ Ending

(* Nothing but a resolve can leave a unit BLOCKED for ever: neither runs   *)
(* that end while the tick is suspended, nor rows written from memory.  A  *)
(* resolve can: it names a finished chunk, closes a circle, or empties     *)
(* blocked_by of a BLOCKED unit (api/conflicts.py:173-189).                *)
WaitsEnd ==
  [][Stuck' \subseteq Stuck \/ \E c, d \in Chunks : Resolve(c, d)]_vars

(* However the oracle speaks and whatever is asked, a READY unit gets its  *)
(* turn: units that hold each other back, or that the cut of the queue to  *)
(* the free slots leaves out, are not passed over for ever.                *)
ReadyGetsTurn ==
  \A c \in Chunks : (row[c].status = "READY") ~> (row[c].status # "READY")

(* docs/chunks/orch_conflict_oracle/GOAL.md: "SERIALIZE (confidence > 0.8  *)
(* overlap) - must sequence".  Without an operator in between, two chunks  *)
(* of which the oracle says so do not run at a time.                       *)
MustSequence ==
  \A c, d \in WithStatus("RUNNING") : c # d => Analysis(c, d) # "SERIALIZE"
=============================================================================
