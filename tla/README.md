# Verification of vibe-engineer

TLA+ models of `vibe-engineer`, the TLC configurations that check them on small instances, and TLAPS proofs of what
holds for every size. Paths below are relative to the repository's `src/` (so `orchestrator/scheduler.py` is
`src/src/orchestrator/scheduler.py` in `PROJECT.json`), those of documents to its `docs/`. `PROJECT.json` maps every
definition to the lines it stands for and lists runs, mutants, findings, hazards and theorems.

- [1. The system](#1-the-system): inventory
- [2. Modules](#2-modules-and-how-they-correspond-to-the-code)
- [3. Runs](#3-runs) · [4. Fairness](#4-fairness) · [5. Proofs](#5-proofs) · [6. Disagreements](#6-disagreements-found)
- [7. Abstractions](#7-abstractions-and-what-is-left-out) · [8. Plan](#8-plan)

## 1. The system

`ve` keeps the engineering artifacts of a repository (chunks, narratives, investigations, subsystems, friction logs) as
Markdown files and drives language-model agents over them. It has a daemon that runs agents (the **orchestrator**), a
**message board** with a local and a hosted server and a client, **entities** (an agent's memory, kept in git), and
commands over **workflow artifacts**, in one repository or across the repositories of a task.

### Orchestrator (`src/orchestrator`)

A daemon with one asyncio loop over a SQLite store. Each *chunk* has one *work unit* row. Agents take it through
`GOAL → PLAN → IMPLEMENT → REBASE → REVIEW → COMPLETE` in a git worktree of its own, and the branch is then merged
into the base branch.

| Part | State | Operations | Correct means |
|---|---|---|---|
| Dispatch loop, `scheduler.py` | `_running_agents` (chunk → task), a lock, `work_units` | `_dispatch_tick`, `_run_work_unit`, `_handle_agent_result`, `_finalize_completed_work_unit`, start, stop, `_recover_from_crash` | never more than `max_agents` agents; a RUNNING row has its agent; a declared dependent waits for its blockers; every unit ends DONE or before the operator; DONE means merged |
| Review routing, `review_routing.py` | nudge, cycle and iteration counters of the row | route, nudge, apply decision | loops are bounded; a reminder only reaches a reviewer |
| API, `api/*.py` | the same rows | inject, answer, retry, resolve, PATCH, DELETE, prune, retry-merge | an operator's write is not lost; nobody is left BLOCKED for ever |
| Store, `state.py` | rows, conflict analyses, status history | create, update (optionally optimistic), get_ready_queue, rename | ready queue order and limit; recorded verdicts are the latest |
| Worktrees and merging, `worktree.py`, `merge.py` | git: worktree, branch, base; `base_branch` file | create, finalize, merge, prune | work reaches the base branch once, and is never discarded unmerged |
| Agents, `agent.py`, `backends/` | a session | run_phase, resume_for_active_status | a session is resumed only in the phase it was opened for |
| Conflict oracle, `oracle.py` | verdict cache in the store | should_serialize | an operator's verdict stands; SERIALIZE pairs do not overlap |
| Daemon, `daemon.py` | pid file, lock | start, stop | one daemon |

How they interact: the loop and the API are coroutines of one event loop that share the rows; agents are
subprocesses whose results come back to a coroutine that has been suspended for minutes with a row in memory; a
crash leaves rows and git behind and loses everything else. Hard behaviours: which coroutine runs at each
suspending await; rows read before an await and written after it; five retry counters that reset each other;
crash points between two git commands and between a write and its follow-up.

### Message board (`leader_board`, `workers/leader-board`, `board`)

Append-only channels of messages with positions.

| Part | State | Operations | Correct means |
|---|---|---|---|
| Core and file storage, `leader_board/core.py`, `fs_storage.py` | `messages.jsonl`, `meta.json`, an event per channel | append, read_after, channel info, compact | a position is one message's; a reader is woken; a message that was taken stays until it is old |
| Local server, `server.py` | connections, watch tasks | watch frames, replies, disconnect | a watch that has a message is answered, on whatever connection |
| Hosted server, `swarm-do.ts` | rows in SQL, watchers in memory and attached to sockets, long polls, gateway keys | send, watch, compact, delete a channel, keys, hibernate | watches survive hibernation; positions are not given twice; the KV index names the stored keys |
| Client, `board/` | cursor files | watch, watch-multi, ack | no message between two cursors is skipped |

### Entities (`entity_repo.py`, `entity_shutdown.py`, `entity_decay.py`, `entities.py`, `cli/entity.py`)

| Part | State | Operations | Correct means |
|---|---|---|---|
| Repository and sessions | a canonical clone, a worktree per project, branches of the origin | attach, push, pull, merge, resolve, abort, detach, a session with its shutdown | no edit is lost or left undigested |
| Memory tiers | journal, consolidated and core files, a snapshot | shutdown (journals, consolidation by a model, decay), touch | no memory is lost by a cycle that ends, fails or is killed |

### Workflow artifacts and tasks

| Part | State | Operations | Correct means |
|---|---|---|---|
| Order, status, creation, `chunks.py`, `artifact_ordering.py`, `state_machine.py` | front matter, `.artifact-order.json` | create, status, activate, complete, list | one current chunk; tips and the cached order are right |
| References, `integrity.py`, `cluster_rename.py`, `narratives.py`, `consolidation.py` | who names whom | validate, cluster-rename, compact, consolidate, update-refs | validate finds what points nowhere; a valid project stays valid |
| Friction logs, `friction.py`, `task/friction.py` | `FRICTION.md` of a project and of the external repository | `ve friction log` | an entry stays; a number is one entry's |
| Tasks, `task/`, `chunk_demote.py` | directories and pointers in several repositories | create, promote, copy, remove, demote | texts are not lost; pointers and lists of dependents agree |
| Repository cache, `repo_cache.py`, `external_resolve.py` | `~/.ve/cache/repos` | ensure_cached, fetch, resolve | what is shown is of one commit, and current |

How these interact: every command is a process of its own over plain files, without a lock but where the tables say so;
the orchestrator's worktree, the artifacts of a chunk and its work unit describe the same chunk in three places.
Hard behaviours: two commands that read, compute and write; a kill between two file operations; a cached order or a
clone that is older than what it is taken for; a long answer of a model awaited with the files as they were before.

## 2. Modules and how they correspond to the code

| Module | What it is |
|---|---|
| `WorkUnits` | The row of `models.WorkUnit` and what each handler does to one row: pure operators, no variables. |
| `Scheduler` | The daemon: loop, coroutines, API, git, crash, recovery. Variables and actions below; the properties are at its end. |
| `WorkUnitLifecycle` | The abstract specification of it: stages and phases of a chunk and whether its work is in the base branch, with no queue, task, agent or crash. |
| `Conflicts` | The oracle, the verdicts rows and table remember, `_check_conflicts` in full, `resolve`, `analyze`. |
| `Finalization` | Branches, worktrees and merges, one git command a step, beside an operator in the same repository. |
| `Renames` | A planner renames its chunk: the propagation over branch, directory, row, references and key. |
| `Batch` | `ve orch inject` of several chunks: validation, topological order, one request each. |
| `Store` | The migrations of the SQLite schema, statement by statement, by several openers. |
| `Daemon` | `ve orch start` and `stop`: PID file, lock, double fork, socket and port files. |
| `AgentTurn` | One turn of an agent: what each backend hears, writes into the worktree and takes back. |
| `LogStream` | The log files of a unit with the dashboard's socket and `ve orch tail -f`. |
| `Review` | Where the decision of a review is taken from, its feedback file, and the decision records. |
| `LeaderBoard` | The local server with its clients. It implements `ChannelLog`. |
| `ChannelLog` | The abstract specification: a log with positions and readers. |
| `FileStorage` | The two files of a channel, file operation by file operation. |
| `SwarmDO` | The hosted server: the durable object. |
| `EntitySync` | The repository of an entity over clone, worktrees and origin. |
| `EntityMemory` | The shutdown's consolidation over the memory tiers. |
| `Workspace` | The artifacts of a project, the ordering index, and the worktree in which a chunk is made current. |
| `References` | What artifacts say of each other, validation and the commands that rewrite references. |
| `Tasks` | The commands over a task, each a list of file steps. |
| `Friction` | The friction logs of projects and of a task. |
| `RepoCache` | The shared clones, one git command a step. |
| `MC*` | Values for TLC. `MCRepository`, `MCCommands`, `MCProcesses` and `MCLogs` put several of the models into one run. |
| `SchedulerProofs` | One lemma per row operator; the inductive invariant of `Scheduler` and its theorems; a deleted unit comes back only by an injection. |
| `StepProofs` | Every step of `Scheduler` as one unit sees it; what holds of a unit, and the refinement of `WorkUnitLifecycle`. |
| `BoardProofs` | The local board and its refinement of `ChannelLog`. |
| `WatchProofs` | The hosted board; the viewers of a unit's logs; its reviews and their records. |
| `ProcessProofs` | Turns of agents, the daemon and its commands, the shutdown of an entity's memory, the propagation of a rename. |
| `CommandProofs` | The cache of external repositories; references, `ve validate` and the commands that rewrite references; the commands over a task; batches of chunks. |
| `EntityProofs` | The repository of an entity: branches and sessions fit, no work is lost. |
| `RepositoryProofs` | What lasts in a repository: DONE work is in a base, and no step loses a commit; database, friction logs and channel files under kills; the order of the artifacts and its cache, the current chunk. |

### The orchestrator

State of `Scheduler`:

- `db`: the table. A missing row is `NoRow` (status `ABSENT`).
- `task[c]`: the coroutine `_run_work_unit` of `c` and where it is suspended: `spawned` (created by the tick, not yet
  run), `starting` (after the RUNNING broadcast), `agent` and `resume` (awaiting the agent), `announce` (after the DONE
  broadcast, dependents not unblocked yet), `exit` (waits for the lock of its `finally` clause). `phase` is taken from
  the tick's snapshot and `row` is its in-memory `work_unit`: results are written from it, as in the code.
- `running`: the keys of `_running_agents`, which are not the live tasks: a task that returned at the TOCTOU guard
  leaves its key to the next tick, one that finished keeps it until it gets the lock.
- `tick`: where `_dispatch_tick` stands, the queue it still has to work through and the rows it read.
- `daemon`: up, down or recovering, and the finalizations recovery has still to look at.
- `git[c]`: where the work is: worktree, branch, merged with the branch not yet deleted, merged.
- `feedback[c]`: whether `REVIEW_FEEDBACK.md` exists. `patched`: PATCH handlers between their write and their
  `unblock_dependents`. `used`: what the environment used of its bounds.

Steps are the stretches between suspending awaits. While `tick.at = "unit"` the tick holds the loop and no other
step is enabled; it lets go only in `asking`, at the broadcast of an ASK_OPERATOR verdict, and there still holds the
lock, so no task can leave. `TickStart`, `TickSkip`, `TickDispatch`, `TickBlocked`, `TickAsks`, `TickAsked` and
`TickAborts` are `_dispatch_tick` with `_check_conflicts`. `StartSkipped`, `Start`, `StartFails`, `Reroute`,
`StopIterating` and `Launch` are `_run_work_unit` up to the agent. `Agent*`, `PhaseCompletes` and `Review*` are
`_handle_agent_result` with the review router. `StillImplementing` and `Finalize*` are `_finalize_completed_work_unit`.
`AnnounceDone` and `Exit` are what follows. `Inject`, `Answer`, `Retry`, `Resolve`, `PatchStatus`, `PatchRetain`,
`UnblockAfterPatch` and `Delete` are the API. `Crash`, `CrashInFinalize`, `Restart`, `Recover` and `Recovered` are
failure and recovery; a `stop()` whose timeout expires cancels tasks and leaves rows, so it is a `Crash` as well.

Several actions of one phase are kept apart when they are decided by the agent (what it returns), by the oracle, or
by git; every write they make (counters, session, reason, backoff) is inside the action.

Refinement: `Lifecycle == INSTANCE WorkUnitLifecycle WITH stage <- Stage(db[c]), phase <- db[c].phase, integrated <-
git[c] \in {"merged", "mergedBranch"}`, and `LifecycleSpec` is checked as a property of `Scheduler`. It says, among
other things, that a phase is never skipped, a chunk is taken back only from REVIEW or COMPLETE, and work is
integrated only from COMPLETE, whatever crash, retry or answer comes in between.

`Conflicts` has the rest of the dispatch: `row` is what `_check_conflicts` reads of `work_units`, `analyses` the table
`conflict_analyses`, `text` how far each chunk's documents are and what they share, from which `Analysis` computes the oracle's
verdict as its stages do. `queue` is the tick's cut queue with the rows it read, `check` a call suspended at the broadcast of a
question, `mem` the row a run holds. `TickCheck` is `AskAbout`, which asks and suspends, or `Conclude`, which
blocks or dispatches; `Advance` drops the
verdicts at a change of phase; `Finish` and `UnblockDependents` are the write of DONE and what follows; `Resolve` and `Analyze` are
the operator's requests.

`Finalization`: `refs` are branches as sets of commits, `head` the branch checked out, `manager` the base branch the manager
knows, `dir[c]` the worktree with what is uncommitted and the persisted base, `job` the finalization, prune or recovery in
progress. `FinCommit`, `FinRemove`, `FinDecide`, `FindCheckedOut` and `MergeNative` or `ReadTarget` and `UpdateRef`, `FinDelete`, `FinRow` are `finalize_work_unit`
command by command; `Operator*` may come between any two, `DaemonCrash` too.

`Renames`: `rows`, `branches`, `folders` and `keys` are the four places of a name, `pairs` the analyses. A step for each stage
of `_propagate_rename`, which share one stretch without an await: nothing of the daemon runs between two, a kill may.

`Batch`: `inject` is the command with its order, `units` the daemon's rows. `ValidateAndSort` is the validation
against the listed units and `topological_sort`: `Kahn` is its loop turn by turn, with a queue of places in the arguments, for a chunk may be given twice; `waits`
counts the entries of `blocked_by`. `Store`: `recorded`, `columns` and
`tables` are what of the schema there is, `opener` where the daemon's two stores and status commands are in it.
`Daemon`: a PID file is a name and an inode (a lock stays with an unlinked file); one step per file operation, signal or fork.
`AgentTurn`: `turn` has what was heard, `told` (history) what the agent did, `settings` the `.cursor` files.
`LogStream`: `log` the lines of each phase's file, `dash` and `tail` the two viewers with position and what they
showed. `Review`: the row of the chunk, `leftFile` (REVIEW_DECISION.yaml), `called` (the tool), `feedback`; and the decision
records with the command that marks them.

### The message board

`LeaderBoard`: `lines` and `meta` are a channel's two files, an append or a compaction one step; `ready` are the watch tasks the event
loop will run, `parked` those that wait, by channel, as the code has an event per channel of a swarm; `down` the frames on their way; `proc`, `cursor` and `ack` the client. `RunWatchTask` is
a task between two waits. A server that stops, a connection that drops, a quiet timeout and a kill of the client come at
any point. Refinement: for each channel `Log(ch) == INSTANCE ChannelLog WITH` the lines as a function from positions to
messages, the furthest position each project was sent, and its cursor; `ChannelsAreLogs` checks it. A server that stops takes
every connection with it, so that in `ChannelLog` several readers may lose what they had at once.

`FileStorage` opens the append (`LockAndRead`, `AppendLine`, `EmptyMeta`, `AppendReturns`) and the compaction
(`StartCompaction`, `ReplaceLines`, `RereadMeta`, `CompactionReturns`) up, for several servers of one directory and with kills. It says in what
`LeaderBoard`'s single steps hold and in which of its named exceptions they do not.

`SwarmDO`: a handler is a step. `watchers` and `polls` are fields, gone at `Hibernate`; `att` is what is attached to sockets; `wants`
and `got` are the clients. `keys` are the gateway's keys in the database and `index` the worker's KV namespace. A request about keys changes
`keys` in one step and then writes the index, an await for each token: `pending` are the requests that still have some to do, and any other
request, about the same token too, runs between. A write may throw (`IndexFails`), and a restart ends what is open. `torn` (history) are the
tokens whose last request met another one or lost its write.

### Entities

`EntitySync`: a branch is its set of commits; `clone` the canonical repository, `wt[p]` a project's worktree with what is
dirty, staged and merged in, `sess[p]` its session. A command's steps are separated where it asks (a
conflict, the operator) or is a process beside others. `EntityMemory`: `files` the tiers, `cycle` the shutdown with each file
operation of the merge a step, `snapshot` the copy taken before. An entry of the model's answer comes from one of the two lists (`key`) and goes
to the tier that its own field names (`tier`), the journals' too; `filed` (history) are the titles that went there.

### Artifacts and tasks

`Workspace`: `doc` the front matter, `index` the cache file and `touched` what was written since (the mtime comparison), `creating` the commands
between check and write, `tree` the orchestrator's worktree with the displaced chunk. `References`: `links` is the set of all
references; each pass of `ve validate` is an operator of its own, and so is each rewriting rule of a rename. A rename replaces the text of
an old name wherever it is in a front matter that has an update: `Inside` says which names contain which, and a reference that
another name's replacement reaches is `Garbled`, to any other text. It finds comments in the files that are `Searched`, those with one of its nine
suffixes that spell the comment as it does; `ve validate` reads all.
`Tasks`: a command computes its list of file steps `todo` from what it reads; `Step` does the first, `Fail` ends it where a
file it needs is not there, a kill ends it anywhere. `Friction`: `logger[k]` is a command with what it read. `RepoCache`: `cache`
the clone, `reader[r]` a command.

## 3. Runs

| Run | Instance | Checks |
|---|---|---|
| `unit` | 1 chunk from GOAL or PLAN, every result of an agent, 1 request (answer, retry), 1 crash, 1 session limit | `PromptsFitPhase`, `DoneIsMerged`, `RunningHasAgent`, `LifecycleSpec`, `UnitsSettle` |
| `deps` | 3 chunks, c depends on a and b, 2 slots, injected in any order, b retained | `SlotBound`, `BlockedIsWaiting`, `DependenciesFirst`, `DependentsReleased` |
| `requests` | chunks in COMPLETE, oracle may say SERIALIZE or ASK_OPERATOR, 3 slots: a pair with 2 requests of any kind; a trio with 1 deletion | `SchedulerInv`, `QuestionsStand`, `NoResurrection` |
| `conflicts` | 3 chunks with each verdict, 2 slots, 2 phases, 1 retry, 1 request | `WaitsEnd`, `ReadyGetsTurn` |
| `board` | 2 channels, 2 messages, 1 project, 2 faults | `BoardInv`, `ChannelsAreLogs`, `WatchAnswered` |
| `swarm` | 1 channel, 2 sockets, 1 long poll, 2 tokens, 2 requests about them, 3 positions, 1 channel deletion, 1 client lost, 1 restart or KV write that throws | `SwarmInv`, `IndexIsKeys`, `PositionsGrow`, `WaitersAnswered` |
| `entity` | 2 projects with slugs of one or two names, 2 edits, 1 merge, a session in one, a branch that git may refuse to delete in the other | `EntityInv`, `WorkSurvives` |
| `repository` | parts `git` (1 chunk, 2 bases, 2 commits of agents, 1 of the operator, 1 switch, 1 crash), `artifacts` (2 chunks, 1 narrative, 2 creators, 1 move, 1 removal), `store` (every version, daemon and 1 status command, 1 kill), `friction` (2 commands, 1 project and the external repository, 2 entries, 1 kill), `channel` (2 servers, 3 appends, 2 kills) | `GitInv`, `WorkSurvives`, `WorkspaceInv`, `CurrentChunkKept`, `FilesInv` (`StoreInv`, `FrictionInv`, `StorageInv`) |
| `commands` | parts `references` (4 chunk names, 3 chunks, 2 links, one of each parent, 2 files of which 1 is searched, an old name whose text is in both new names and in that of a file), `task` (2 projects, 2 artifacts, 3 commands), `cache` (2 commands, 2 pushes, 1 fault), `inject` (3 chunks, 4 arguments, lists of dependencies up to 2 long, 2 events) | `ReferenceInv`, `ValidStaysValid`, `TasksInv`, `TextsKept`, `CacheInv`, `BatchInv` |
| `processes` | parts `daemon` (2 commands, 3 daemons), `agent` (2 backends, 2 turns), `memory` (2 titles, 2 shutdowns, 3 days, 1 kill), `names` (3 names, 2 injections, 2 renames, 1 kill) | `DaemonInv`, `TurnInv`, `MemoryInv`, `RenameInv` |
| `logs` | parts `logs` (6 phases, files of 1 or 2 lines, 1 return), `review` (3 rounds, 2 nudges, 2 iterations, 1 request, 1 kill), `records` (2 records, 2 marks) | `LeftInv` (`LogInv`, `ReviewInv`), `ViewersFollow` |
| `sequence` | 2 chunks that the oracle wants in sequence, no operator | `MustSequence`, expected to be violated, section 6 |

What they show:

- `unit`, `deps`, `requests`: the scheduler implements the lifecycle; DONE is merged; sessions and reminders stay in their phase;
  every unit settles; nobody starts early or is forgotten BLOCKED; a question stands until an operator acts; deletion, re-injection,
  patches and answers in the middle of ticks and runs lose no slot and no agent.
- `conflicts`: only a `resolve` can leave a unit BLOCKED for ever, and a READY unit gets its turn although the queue is cut before units
  are passed over.
- `board`, `swarm`: channels are logs, no cursor passes what was not shown, watches are answered through lost connections and
  hibernation, positions are not given twice. The index agrees with the keys for every token but those whose requests overlapped or
  lost a write; for these it may stay wrong (section 6).
- `entity`, part `memory`: no edit and no memory is lost but where the property says so (detach, an aborted merge, expiry, an answer that files a
  memory among the journals).
- `repository`: no work disappears between git commands but by a request that gives it up; tips and cached order are right; only the
  named commands make a second current chunk; what the schema table records was applied; what was written into a channel or a
  friction log stays, and positions and numbers tell apart, unless a kill or another writer fell between (each exception is a
  history variable of the property).
- `commands`: what `ve validate` finds; that only a rename breaks a reference, and which: what it does not rewrite, comments where it does not
  look, and names it garbles; texts survive promotion and demotion interrupted
  anywhere, but for a collision of names; pointers and lists agree; a batch is posted dependencies first; a cycle is reported exactly when
  there is no order; what the cache shows is of one, current commit.
- `processes`: one daemon, found by its files, as long as commands do not overlap, and never two on one PID file; a turn's
  outcome reaches the scheduler and `.cursor` is restored; a rename leaves every place under one name or, failing, under the old one.
- `logs`: no line is passed over; viewers get to the phase that runs; whose decision is applied, and that feedback is answered and counted.

Runs with parts. Their models share no state: the variable `part` is chosen in the first state, a behaviour is one of that model, and
the others stay as they began, so that the run's states are the sum of the parts', not their product. An invariant that names several
models' invariants is their conjunction for that reason only.

Bounds. `MaxIterations`, `MaxNudges`, `MaxApiRetries`, `MaxCompletionRetries` and `MaxMergeRetries` are configuration
of the code; the defaults are larger, but every guard compares a counter with its limit only, so a limit of 1 or 2 has the
first attempt, the last one and the one too many. `MaxRequests`, `MaxCrashes`, `MaxSessionLimits`, `MaxKills`, `MaxFaults` and their like bound
the environment and with it the instance: two requests suffice for every "written by one, overwritten by another" schedule, in
which one request meets one suspended coroutine; one kill for every cut between two steps of one command, and two in `channel`, where a second
server meets what the first left. Two chunks suffice for a conflict, three for a join. `requests` starts in COMPLETE because what a phase
is does not matter to it. Its `ACTION_CONSTRAINT` keeps two scenarios of the many of three units: a pair of units under requests of
every kind, and a trio, in which a unit is deleted that the tick has queued behind the one it is suspended over: the write to it
raises, and the tick ends there (`TickAborts`).

Three runs leave out combinations, not actions. In `swarm` keys and the board share little (a client is admitted by a key, an open
request keeps the object awake, a restart ends both), so `MCSpec` checks two keys, overlapping requests and lost writes on an empty board;
beside messages and clients there is one key, one request at a time, and either a restart or deaths and deletions. In `memory` an entry of
an answer names another tier than its list's only if it is alone; a memories file that names an upper tier has one entry; and there is no kill
while the model is asked, which leaves what a failed question leaves (`SmallMemory`). In `entity` git refuses to delete only a branch with
work of its own, of the project without a session, before any session and outside of merges; and a merge is killed in the other project only (`Bounded`).
The proofs have none of these bounds.

Larger instances were checked apart, without error: `unit` with the defaults (3 reviews, 3 nudges, 2 completions,
2 merges, 2 API retries; safety only), the git part with 2 switches, the task part with 4 commands (all properties), `Batch` from every
table of rows with two new names and four events (2 970 000 states; the run starts with at most one unit), `Store` with two status commands, `Review` with 4 rounds, 2 requests and 2 kills (811 000
states), `Friction` with 3 entries (433 000 states).

Symmetry is used where no liveness is checked (`requests`, `entity`, `repository`, `processes`). Deadlock is checked in `unit`,
`deps` and `requests`; the other systems do stop (commands end, the environment's bounds are used up), and their
configurations say so.

Each property has a mutant in `PROJECT.json`: a definition replaced by a plausibly wrong version (marked `Mutant:` beside the
original) under which TLC finds the property violated.

## 4. Fairness

`Scheduler!FairSpec`:

- the ticks and the steps of one tick are not postponed for ever: weak fairness of `TickStart` and `TickStep` (`start()` loops with a
  short sleep);
- a coroutine that can go on does: strong fairness of each chunk's steps, because a tick in progress disables them and they
  are enabled between ticks again and again. The event loop runs its callbacks in order and `asyncio.Lock` is
  handed out in order, which is what makes the strong form justified;
- the clock passes `next_retry_at` (strong: `BackoffElapses`); an agent returns (it has a turn budget); a daemon that is
  down is started again and recovers.

Nothing is assumed of operators. What an agent returns is not fair either: it may always fail or be given feedback. Session
limits are the exception to the retry budgets in the code (`_schedule_session_retry` counts nothing), so they are
bounded by `MaxSessionLimits`: without that a unit could be told to wait for ever, in the model and in the code.

- `Conflicts!FairSpec`: weak fairness of the tick, strong fairness of each task, for the same reasons.
- `LogFairness`: the dashboard's loop and the tail's loop go on polling; agents owe nothing.
- `LeaderBoard!Fairness`: a server that stopped is started again; the event loop runs a ready watch task; the client reads what
  arrives, handles it, notices a broken connection and connects again. A send, a compaction or a kill is owed by nobody.
- `SwarmDO!FairSpec`, and `MCSpec` of the run, which is fair in the same way: a client that waits repeats its watch frame (its stale timeout), and the object handles it. Hibernation, deletion and the death of a
  client are owed by nobody.

## 5. Proofs

What TLC checks on an instance is proved here for every value of the constants: any finite set of chunks, every limit and
dependency relation, any number of requests, crashes, channels, projects, sockets.

| Theorem | Statement | Unless |
|---|---|---|
| `TypeCorrect` (`SchedulerProofs`) | `Spec => []TypeOK`: in particular no counter ever passes its limit | |
| `SlotsBounded` | `Spec => []SlotBound`: at most `max_agents` coroutines | |
| `RunningAgents`, `SchedulerCorrect` | `Spec => []RunningHasAgent`, `Spec => []SchedulerInv` | rows are PATCHed to RUNNING |
| `DeletionIsFinal` | `Spec => NoResurrection`: a deleted row appears again only by an injection | |
| `PromptsAlwaysFit` (`StepProofs`) | `Spec => []PromptsFitPhase`: no agent gets the session or reminder of another phase | units are deleted |
| `DoneIsAlwaysMerged` | `Spec => []DoneIsMerged`: DONE is merged or retained | rows are PATCHed to DONE |
| `QuestionsStay` | `Spec => QuestionsStand`: only an operator takes away what an agent raised | rows are PATCHed out of NEEDS_ATTENTION |
| `BlockedAlwaysWaits` | `Spec => []BlockedIsWaiting`: nobody is BLOCKED by units that are DONE and announced | the daemon crashes, or conflicts are resolved |
| `DependenciesAlwaysFirst` | `Spec => DependenciesFirst`: no unit runs before what it declares to depend on is DONE | operators do more than answer and retry |
| `LifecycleImplemented` | `Spec => LifecycleSpec`: the scheduler implements `WorkUnitLifecycle` for every chunk | units are deleted or PATCHed |
| `BoardCorrect` (`BoardProofs`) | `Spec => []BoardInv`: `meta.json` describes the lines, no cursor passes what was not shown | |
| `BoardImplementsLogs` | `Spec => ChannelsAreLogs`: the board implements `ChannelLog` for every channel | |
| `SwarmCorrect` (`WatchProofs`) | `Spec => []SwarmInv`: a watch survives hibernation, restarts and lost clients | |
| `IndexAlwaysKeys` | `Spec => []IndexIsKeys`: the KV index has a token exactly when its key is stored, once its requests are through | requests about the token overlap, or a write of it is lost (likewise) |
| `PositionsAlwaysGrow` | `Spec => PositionsGrow`: no position is given twice while a channel exists | |
| `GitCorrect` (`RepositoryProofs`) | `GitSpec => []GitInv`: the work of a DONE unit is in a base branch, whatever crashed or was switched | |
| `WorkAlwaysSurvives` | `GitSpec => WorkSurvives`: what an agent did stays on a branch or in its worktree, but for a request that gives it up | |
| `FilesCorrect` | `RepositorySpec => []FilesInv`: `StoreCorrect`, `FrictionCorrect` and `StorageCorrect`, together | |
| `StoreCorrect` | `StoreSpec => []StoreInv`: what is recorded as migrated is, in full and in order | |
| `FrictionCorrect` | `FrictionSpec => []FrictionInv`: an entry stays, and its number is its own | commands meet on one log (the properties say how) |
| `StorageCorrect` | `StorageSpec => []StorageInv`: positions tell messages apart, what was taken is kept | a server overtakes a compaction (likewise) |
| `WorkspaceCorrect` | `WorkspaceSpec => []WorkspaceInv`: tips cover what is eligible, the index is right unless stale | a save for another type hid a change (likewise) |
| `CurrentChunkAlwaysKept` | `WorkspaceSpec => CurrentChunkKept`: no activation or merge makes a second current chunk; a displaced one is given back | |
| `TurnCorrect` (`ProcessProofs`) | `TurnSpec => []TurnInv`: the scheduler is told what the agent did, and `.cursor` is given back | a kill or a failed write |
| `DaemonCorrect` | `Daemon!Spec => []DaemonInv`: one daemon, found by its files; never two on one PID file | commands overlap (the first part) |
| `MemoryCorrect` | `MemSpec => []MemoryInv`: no memory is lost by a cycle that ends, fails or is killed; the core keeps its budget | the answer files it as a journal (likewise) |
| `RenamesCorrect` | `RenameSpec => []RenameInv`: a renamed unit is under one name, or, failing, under the old one; references follow | a kill in the middle, a task that another one's key was taken from (likewise) |
| `CacheCorrect` (`CommandProofs`) | `CacheSpec => []CacheInv`: what is shown is of one commit, and current | |
| `ReferencesCorrect` | `ReferenceSpec => []ReferenceInv`: `ve validate` reports exactly what points nowhere | (the kinds it does not read) |
| `ValidAlwaysStays` | `ReferenceSpec => ValidStaysValid`: a valid project stays valid | a rename, for `depends_on`, the friction log, comments where it does not look, and names it garbles (likewise) |
| `TasksCorrect` | `TaskSpec => []TasksInv`: whoever points at an artifact is in its list between commands; no text drops out of the task's lists | a command was interrupted on it, or left the pointer behind (likewise) |
| `TextsAlwaysKept` | `TaskSpec => TextsKept`: no file step loses a text, a demotion that ends is complete, a reference goes on showing its artifact | names collide (likewise) |
| `BatchCorrect` | `BatchSpec => []BatchInv`: a batch is posted dependencies first, or there is no such order; what waits then waits for something | a chunk or an entry is given twice, a unit is deleted or renamed meanwhile (likewise) |
| `EntityCorrect` (`EntityProofs`) | `EntitySpec => []EntityInv`: one worktree for a branch; a session's fallback shows every edit | |
| `WorkKept` | `EntitySpec => WorkSurvives`: no command loses an edit or a commit | detach, or an aborted merge |
| `LeftCorrect` (`WatchProofs`) | `LeftSpec => []LeftInv`: no log line is passed over; whose decision is applied; what records say | the last nudge, an overlapped mark (likewise) |

The last column is the hypothesis, or, where it says "likewise", the exception that the property itself names: the requests or
faults under which the code does not promise this.

### Assumptions

`SchedulerAssumption` and `BoundsAssumption` are the types of the constants (`Chunks` finite); `BoardBounds` says that `Channels` and
`Messages` are finite. `GitBounds` keeps the identifiers of the model apart (commits of agents and of the operator,
and `orch/<chunk>` from the branches that chunks are merged into). `StoreBound`, `FrictionBounds` and `StorageBounds` keep the daemon from the
status commands, the external repository from the projects and "nobody" from the servers, and allow a channel one message. `NamesApart`
says of the artifacts of `Workspace` that they are finitely many, and that each is of one type: an artifact is its
directory, under that of its type; `KindsApart` says the same of those of `References`, `NewNames` that a rename replaces a prefix (different names stay different),
and `Texts` that what is inside a name is a name with that prefix. No assumption keeps a new name from being inside another, or from being one that exists. `TaskConfig` keeps the external repository from the
projects of a task, which are finitely many. `BatchBounds` says that names are numbered from 1, that the names agents give are new ones, and
that a command is given a list of chunks that is not empty. `Hashes` says that no commit of an entity's
repository is named as the two values that stand for "no branch" and "nothing asked". `TurnBounds`, `DaemonBound`, `MemoryBounds`,
`RenameBounds`, `CacheBounds`, `ReferenceBounds`, `TaskBounds`, `LogBounds` and `ReviewBounds` are types of constants. The hypotheses of theorems are about `OperatorRequests`, `PatchStatuses`, `MaxCrashes` and `Verdicts`, and each
excludes something the code does:

- the PATCH handler writes any status to any row: RUNNING, and nobody works on it; DONE, and nothing is merged; and it leaves
  `attention_reason` in the row, where a later step may take it for its own;
- a unit that is deleted and injected again while a tick is suspended over a question is dispatched from the tick's snapshot, in the phase
  of its earlier life (`NoDeletes`);
- a crash between the write of DONE and what follows it loses the unblocking (section 6), and `resolve` with SERIALIZE waits for a
  unit that may be DONE (`NoLostCompletions`);
- an operator who PATCHes, resolves or deletes what a unit depends on takes it out of its list (`OnlyAnswers`).

`unit` and `deps` check these properties within the hypotheses. `requests` checks `QuestionsStand` with PATCHes to DONE as well, which takes
more than its two requests to go wrong: a question that is PATCHed to DONE, serialized after another unit by `resolve`, and
PATCHed to NEEDS_ATTENTION again is READY when the other unit is DONE.

### The scheduler

Neither `SlotBound` nor `RunningHasAgent` is inductive. Slots: a tick computes its free slots once and then dispatches one unit
after the other, so what has to be preserved is that *keys plus the rest of the queue* fit into the slots (`KeysOK`), and that every
live task has its key, since ticks count keys and drop only those of finished tasks. A dispatch takes one from the queue and adds one key.
Agents: no row becomes RUNNING except in `Start`, together with its task; every other write of a tick or of a task that
leaves is a row that is not RUNNING. For ticks this needs `QueueOK`: they write back the row they read, and they had read it as
READY. And a tick replaces a task only if there was none, which again is `KeysOK` with the check `Unit \notin running`. The
invariant `IInv` is `TypeOK /\ QueueOK /\ KeysOK`, plus `AgentsOK` under `NoPatchToRunning`; `SchedulerInv`, its unconditional
form, is an invariant of the run `requests`.

`DeletionIsFinal` is an action property. The writes of ticks and tasks raise on a missing row, but those of the recovery do not look; they are
safe because recovery goes through rows that existed at the restart and the API is not served before it is over (`RecoveryInv`).

The first part of `SchedulerProofs` has a lemma for each row operator; `IdleRow` (a row without an agent) and `StartsNothing` are all that
the rest needs of it. `RowsStep`, `TaskStep`, `SettleStep` and `TickRowsStep` say how a step of the API, of a coroutine or of a tick
preserves `IInv`; each action then has a step that shows it has one of these forms.

### A unit

The other properties of the scheduler are about one unit and its history, and what endangers them is the same: a row is read, an
await lasts, the row is written back. `StepProofs` therefore says once what a step can be to a unit. `UnitStep(c)` is the disjunction of a
dozen predicates (its run gives the row back, goes on, leaves, finishes, begins or vanishes; a tick lists it or writes it from its snapshot; it loses a
blocker; it is requested or injected; the daemon falls, restarts, recovers it) and `NextUnitStep` proves that each of the forty
actions is one of them. `SideInv` is what that needs: where tasks and ticks may stand while the daemon is down or recovering.

The second part of `StepProofs` has for each property an invariant of one unit that also speaks of the copies that will be
written back, `task[c].row` and `tick.snap[c]`:

- `Prompts`: row and copies have a session of their own phase only, and one with a reminder has no feedback that would reroute it.
- `Done`: whoever still has a copy has one of a unit that is not DONE.
- `Questions`: as long as a question stands no tick has the unit in its queue and no run has it in memory.
- `Life`: the copies are in the phase of the row, so that each `UnitStep` is a step of the lifecycle or a stutter. `LifecycleImplemented` proves it with
  `Prompts`, `Done` and `Life` together.
- `Blocked`: the blockers of a row, and those of the copies, are not DONE, or DONE and not announced yet.
- `Waiting`: a unit that may come to run (READY, queued, or with a task) has dependencies that are DONE. It rests on `Prompts`: what excludes
  deletions there excludes here that a dependency disappears.

### The boards

`BoardProofs`. That no cursor passes what was not shown holds because of everything between a client and the server at once, and
`Inductive` says what that is: a frame on its way is the message the client has or the next one, in order (`FramesNext`); the tasks that
will run are to send the same, after it (`TasksNext`); a task that waits has sent all there is (`ParkedAtHead`); the user has
seen a prefix of the log that reaches the cursor file with the acks that are owed (`SeenPrefix`); `watch-multi` saves its
cursor itself and asks for nothing after the next message (`SavesItself`, `AsksSaved`). So a watch that is answered twice, by
the connection that broke and by the new one, cannot skip. `Inductive` was an invariant of TLC's runs of three configurations before it was proved.

The refinement is shown channel by channel, first in a form without `INSTANCE`: `LogAppends`, `LogCompacts`, `LogReads`, `LogLoses`,
`LogAcknowledges` and `LogStutters` say what a step does to the log seen as a function (`LogFrom`), to what each reader has and to its cursor, and
`NextRefines` puts every action under one of them. The proof found that the specification with one `Lose` per reader was too narrow as soon
as there is a second project, which the run does not have: a server that stops cuts all connections.

`WatchProofs`. The two copies of a watch, in memory and attached to the socket, change together (`WatchersAttached`, `WaitingAttached`), for
a message clears a watch in the attachment exactly when it is in reach in memory. Of a token that is not `torn` at most one request has a
write to do, and this write agrees with the key (`IndexFollows`). `MAX(position) + 1` is a new position because the rows of a channel end with `last` and compaction keeps the last row
(`RowsEnd`).

### The repository

`RepositoryProofs`. What endangers a commit is that `merge_without_checkout` reads the target, computes, and then writes the ref over whatever
the target has become. So a base's commits are split: `Firm(b)` are those that the pending write will keep, and no step takes any from
it. The invariant `GitIInv` says of the agents' commits where they may be (`Placed`): what is not committed is in one worktree and on no branch
(`DirtApart`); what two chunks share came from a base and is firm (`SharedIsFirm`); a commit of a base that is not firm is still on
the branch of its chunk (`BasesKeep`). `EffectStep` reduces the git commands, crashes and requests to eight effects on branches,
worktrees and the history `work`, so that each conjunct is shown for an effect and not for an action. `JobLands` follows a finalization to
its end: a branch that is to be deleted is merged, and when the row is written all work has landed (`Landed`), which stays so because a
removed worktree has nothing left to commit. The operator's merges, switches and commits between any two commands need no
hypothesis.

The parts of the run `repository` share no variable, and `PartsAreSpecs` takes a behaviour of the run apart into one of each.

*Database.* Every opener has recorded what comes before the version it is at, and applied what comes before its statement (`Passed`): so the
last statement of a script finds all others done, whoever did them, and a version is recorded after all before it. Without kills a column of an
unrecorded version has its owner, who is past it (`Owned`); and whoever fell behind or failed was overtaken, and who overtook is at the
first version that is not recorded (`Led`).

*Friction logs.* A command reads the file three times and then writes the whole of it, so the invariant is about what it will
write: entries that stand were in what it read (`Body`), links and proposals in its front matter (`Front`), and its number is new unless
another command is about to write as well (`NumberIsNew`), which then makes the two meet.

*Channel files.* Either a server has overtaken a compaction (`overtaken`, for good), or one server is at work and knows the ends of the file as far as it has
read them (`Knows`), with `meta.json` behind the lines by at most the line of a server that died (`HeadIs`).

*Artifacts.* A worktree differs from the branch it was made from in the unit's own chunk and in one displaced chunk,
which the row remembers, or will (`TreeInv`): so restoring that one leaves only the unit's own chunk to merge (`FinishWrites`). An index entry
was built from main files that differ from those there are only in what was touched since, hidden by a save for another type, or came
or went with its directory (`CacheIInv`); if none of this is the case a rebuild gives the same (`IndexDepends`). That
the tips cover what is eligible holds in every state (`TipsAlwaysCover`): among the eligible artifacts after a given one take
one that no other is after, which exists because strict subsets of a finite set are well-founded (`Topmost`).

### Processes that may be killed

`ProcessProofs`. Each invariant says, for every place a process can be at, what of its work the files already show.

*Turns.* What was heard is compared with what the agent did at every step of the stream (`HeardSoFar`), and the files a turn
overwrote are its originals until the clean-up has passed them, in the order it goes (`FilesKnown`).

*The daemon.* Either commands have overlapped, for good, or there is one at work and one daemon alive (`InTurn`), and for each place of
either the three files are what it has made of them (`CommandFits`, `FilesFit`). `OnePerPidFile` needs none of this: a lock is on an
inode, and who has the lock of an inode is alive (`Locks`).

*Memory.* The cycle merges a set it read before, and a failure may come between two deletions: `ReadFits` says of every title it read
where it still is (old file, new file, a journal it was filed as, snapshot, log), `KeepFits` the same of the journals, `CoreFits` how many files the core has
while decay moves them. These are about names only, so a step is described by the names it adds and removes.

*Renames.* A propagation is seven steps over shared tables, and the daemon does nothing else between two of them; but it can be
killed, so two units can stand at different places. Each task says under which name its branch and its worktree are (`BranchOf`, `TreeOf`) and
holds row, branch and worktree there (`Held`); no two tasks have the same new name, and nobody has it before (`NewIsFree`). Keys are
different: a task that was resumed under the name that another gave up can have its key taken (the history `robbed`), and only its own
failure may then find its row gone. `Touches`, `Replaces` and `Spares` say what a step did to rows, branches, worktrees and keys, and
`OthersStay` and `TreesStay` that all that is said of others then stays. The proof found that `NamesAgree` was too strong: after a
kill between the directory's rename and the row's, a worktree stands under a name that has no row, and another chunk injected under it takes it over.

### Commands

`CommandProofs`. *Cache.* Each command has come so far (`Fits`): the commit it resolved is in the clone and was the head after it began, and
what others do moves the checkout forward or replaces it by one as young as the remote's head (`ForwardFits`).
*References.* A creation only adds; what a batch rename does to each reference that it does not garble is a function of it (`Follows`), and its
rules miss the kinds and files named in `RenameKeepsValid` only (`RulesFollow`, `SourceOf`). That `ve validate` finds all is an identity between the union of
its passes and the dangling references, for each kind.

*Tasks.* A command is a list of file steps, computed before the first is done, so `TaskIInv` says what each step still to be done relies on
(`StepsFit`): what is copied is there until it has been, what is filled is no pointer, who is to be listed points or is about to. A
pointer shows an artifact that lists it, unless a step left to do makes it so, or the name was `broken` (`PointersFit`). Every step changes
one directory (`Effect`), so there is one lemma for each kind of clause that it outlives such a change (`FillStays`, `PointStays`, `CopyStays`,
and so on), and one for each of the eight commands that the list it writes satisfies them. A kill drops the list, and what was
owed is then `broken` (`StoppedStays`).

*Batches.* `Kahn` is a recursive function, and what it computes is shown turn by turn without the library's induction: the first turn after which
a fact fails cannot be (`EveryTurn`), which also shows that the function exists (`RunExists`). After each turn a place of the arguments is
queued or taken once (`LoopPlaces`); if no chunk is given twice, what is queued or taken has no dependency left (`LoopOrder`), and what has none
left is queued or taken (`LoopComplete`). So when the queue runs dry early the untaken chunk that a ranking puts lowest would
have been queued: there is no ranking (`NoOrderIsACycle`). Of the units, `WaitsFit` says for each entry of `blocked_by` that it exists, is not
DONE and is not counted twice, each with its exceptions, and `PostedFits` that what was looked at or posted is there or went since. The
proof found three exceptions the properties did not have: a chunk given twice, which frees its dependents twice; a name that takes the place
of one that was deleted; and, in `Tasks`, a pointer left behind.

### The entity

`EntityProofs`. `EntityIInv` speaks of one project at a time, but for branches, which projects share. `StepOf(p)` says what a step of one
project may do to the others; `StepOfIInv` and `StepOfSurvives` that such a step preserves the invariant and the work, and there is one
lemma per command that it is such a step. Until a session ends, each of its edits was digested, or lost, or is held by the worktree or its branch and not in
the baseline the diff is taken from (`Fits`).

### Logs and reviews

`WatchProofs`. The socket's positions are not past the ends of the files, and what it replays ends with the phase it found (`LogIInv`).
The review's route needs its types only (`RouteIInv`), the decision records more: what a command read is still the reviewer's decision, unless
the reviewer wrote since, which is then an overlap (`ReadIsCurrent` in `RecordIInv`).

### Only model-checked

- Liveness (`UnitsSettle`, `DependentsReleased`, `ReadyGetsTurn`, `WaitsEnd`, `WatchAnswered`, `WaitersAnswered`, `ViewersFollow`) is
  out of the prover's reach.
- `ENABLED`, and with it that a specification cannot stop: the runs check deadlock where the system does not end.

Every safety property that a passing run checks is stated by a theorem.

## 6. Disagreements found

`sequence` is a run that TLC is expected to refute: `docs/chunks/orch_conflict_oracle/GOAL.md:102` says "`SERIALIZE` (confidence >
0.8 overlap) - must sequence", but a verdict blocks a unit only if the other's row is RUNNING (`scheduler.py:1366`), and a unit that the
same tick dispatched is still READY.

The following were met while modelling. The models do what the code does, and the properties name these cases as exceptions or leave
them out; no run is devoted to them.

Orchestrator:

- After an unfinished COMPLETE the agent is resumed with the session in the row, which a run that started fresh never recorded, so
  a new session is opened (`orch_verify_active/GOAL.md:59`: "the session_id from the phase run is used to resume").
- API retries of IMPLEMENT count as review iterations, and the unit can be escalated with a retry scheduled
  (`orch_api_retry/GOAL.md:43`: "Manual intervention via NEEDS_ATTENTION is reserved for non-retryable failures and the case where
  retries are exhausted").
- A PATCH accepted while an agent runs is overwritten by the agent's result (`optimistic_locking/GOAL.md:68`: "API-driven
  updates ... are not lost due to scheduler overwrites").
- A crash between the DONE write and the unblocking leaves the dependents BLOCKED (`orch_manual_done_unblock/GOAL.md:42`: "Work units
  whose `blocked_by` dependencies are all DONE automatically transition to READY"). `deps`, which checks the release, has no crash.
- A merge goes to the persisted base branch, but whether there is anything to merge is asked against the manager's
  (`orch_merge_safety/GOAL.md:75`; `worktree.py:1170`).
- Whether the base branch is checked out is looked at before `git merge` runs, and what it merges into is what is checked out then
  (`merge.py:126`, 207): an operator who switches branches in between gets the chunk's work in the other branch (`orch_merge_safety/GOAL.md:69`:
  "This eliminates the race condition where branch changes between worktree creation and merge cause merges to target the wrong branch").
- Two daemons can run when commands overlap: one that leaves unlinks the PID file that another has just locked
  (`docs/subsystems/orchestrator/OVERVIEW.md:164`: "Only one daemon instance allowed per project"; `daemon.py:268`, `304`, `749`).
- `retry-merge` requires "merge to base failed" in the reason (`api/conflicts.py:250`), which nothing writes.
- `rename_work_unit` rewrites a pair of `conflict_analyses` in place, so that the pair may not be in the alphabetical order that lookups go
  by (`state.py:1061`).
- The branch for an ambiguous rename (`scheduler.py:918`) asks for a chunk that is missing from the baseline, and a chunk that was
  activated for PLAN is in it: with no replacement or several the unit goes on, although `_detect_rename` leaves
  these cases to its caller (`scheduler.py:1784`). An activation that fails (`scheduler.py:632`) removes the worktree with the plan of a renamed chunk.
- A dependency given twice is taken away once when it finishes: the unit stays BLOCKED. An argument given twice frees its dependents
  twice: of `3`, `2` and twice `1`, where `2` depends on `1` and `3`, the sort puts `2` before `3` (`dependencies.py:31`: "Chunks in topological order
  (dependencies before dependents)").
- A process killed between `ADD COLUMN` and the record of its version leaves a database on which every start fails.
- REVIEW_DECISION.yaml is never deleted: an old decision is applied to a later review after the last nudge. The parser's
  last source, the agent's log, holds JSON lines in which its pattern cannot match. An operator's feedback that is only spaces
  makes a record unreadable.

Message board:

- A delivery to a watcher in memory returns before the sockets' attachments are looked at (`swarm-do.ts:1084`): a watch that
  only its attachment remembers waits for the client's next frame (`leader_board_hibernate_watch/GOAL.md:33`, 41).
- A server killed between the line and `meta.json` (`fs_storage.py:126`) gives the position again; one killed between the two
  files of a compaction leaves a gap that readers are not told of; one killed inside the write of `meta.json` leaves a
  channel on which every operation fails.
- A PUT and a DELETE of one gateway key change the database at once and then each await their KV write (`swarm-do.ts:263`, 304, 316): the
  writes can end in the other order, throw, or be cut off by a restart, and the index then has a token without a key or lacks one that
  is stored, until the next request about it (`invite_path_routing_fix/GOAL.md:31`: "token→swarm lookups stay in sync with the gateway key store").

Entities, artifacts, tasks:

- `pull` looks whether histories diverged from the branch's upstream and then merges the remote's main (`entity_repo.py:593`, 797), which in an attached worktree can
  be another branch (`entity_sync_ergonomics/GOAL.md`: "Divergent histories trigger the merge automatically").
- `cluster-rename` rewrites neither `depends_on` nor the chunks that the friction log lists, and `ve validate` then reports them. It looks
  for comments in nine suffixes and in one spelling (`cluster_rename.py:345`, 350), while `ve validate` reads those of
  `source_files.py:18` with any white space (`backreferences.py:40`): comments elsewhere keep the old name and are reported
  (`cluster_rename/GOAL.md:79`: "Updates code backreferences in source files").
- In front matter `cluster-rename` replaces the old name's text (`cluster_rename.py:679`, under the comment "Be careful to only replace exact
  matches"): with `task_init` renamed to `job_init`, a file that lists it and `sub_task_init` then lists `sub_job_init`, which is nowhere.
- The updates name files by their places before the directories move: if one is in a moved directory the command fails with the directories moved and
  part of the front matter rewritten (`RenameFails`).
- An answer of the model whose entry has the tier `journal` (or 0) is taken (`entity_shutdown.py:231`, 354): the file of that title in an upper tier
  is unlinked (662) and a journal written, so that the memory is recalled no more, with no expiry logged (`entity_shutdown_memory_wipe/GOAL.md:35`:
  "Demotion of consolidated or core memories is the responsibility of the decay system, never a side effect of consolidation").
- A demotion run again after a kill can drop the chunk's PLAN.md: a target that has GOAL.md is not copied to again.
- A demotion to a project with two entries in the list of dependents drops the first of them, whichever pointer it replaced, so that a
  pointer is left behind that no list names (`PointedAreListed` has the exception).
- Two `ve friction log` at a time lose an entry or give a number twice.

## 7. Abstractions and what is left out

- Texts: a reason is reduced to the substring some guard looks for, an answer to who wrote it, a session to the
  phase that opened it, `next_retry_at` to the side of now it is on. In `Conflicts` documents are what the oracle's
  comparison finds in them. Timestamps and priorities are left out, so ties in the ready queue are broken in any way.
- What an agent, a model or an operator says is a free choice wherever it is asked.
- Optimistic locking: the API reads and writes with `expected_updated_at`; a 409 changes nothing and is not a step.
- `Scheduler` takes the oracle's verdict as a free choice at each tick and DELETE as one step; `Conflicts` and `Finalization`
  have what it leaves out. PATCH of `phase`, `blocked_by`, `worktree` and `attention_reason` is left out. `POST /work-units` does what
  inject does. One repository: the loops over the repositories of a task's worktree are left out.
- A crash inside the first loop of recovery is a crash before `Restart`: that loop is idempotent.
- Broadcasts reach nobody in the model; only that they suspend their caller is kept.
- `Renames` has no DELETE, `Store` no lock timeouts of SQLite, `RepoCache` none of git's own `index.lock`, `Review` one directory of
  decision records, `Friction` no themes, `SwarmDO` no authentication, `LeaderBoard` no parsing of frames.
- `SwarmDO`: a KV write takes effect, if at all, before its request goes on or fails; that KV shows a write late elsewhere is left out.
- `References`: a file lists a chunk once; a source file whose comments are spelled both ways counts as two; that `rg` exits with an error
  over one file, after which no comment is rewritten, is left out.
- `EntityMemory`: memories that a session extracted are dated today, and a memories file has no title twice in a tier.
- `LeaderBoard`: no channel's name contains another's. (The client takes the first active channel whose name occurs in an error's text for the
  one that failed, `client.py:525`.)
- `Finalization`: a `git commit` that exits with 1 and says nothing on stderr had nothing to commit (`worktree.py:1285`); a hook that
  fails silently is left out.
- `Daemon` does not use a PID twice; `Tasks` treats the four kinds of artifact alike.

### Not modelled

- Gateway cryptography, authentication and URL routing: computations without a state of their own.
- `cluster_analysis`, overlap reports, listings and derived statuses: they only read.
- `entity_migration`, `ve init` (`project.py`), `migrations.py`, `task_init`: they write each file once and keep nothing.
- Transcripts, episodic search and `entity_from_transcript`: extraction from texts. `entity_merge` asks a model for the text of a
  conflict, whose outcomes are a choice in `EntitySync`.
- Templates, rendering, log formatting and the wrappers of `cli/`: text.
- Status history and configuration keys of the store, which no guard reads.

`PROJECT.json` has the same per component, with what of a component is modelled.

## 8. Plan

The modules of the plan are written and their safety properties proved. What would come next is breadth:

1. `Scheduler`: PATCH of `phase`, `blocked_by`, `worktree` and `attention_reason`, and DELETE in the steps that `Finalization` has.
2. Worktrees over several repositories of a task, in `Finalization`; DELETE in `Renames`.
3. `entity_migration` and `entity_from_transcript`, if they come to be run beside other commands.
