----------------------------- MODULE LogStream -----------------------------
(***************************************************************************)
(* The logs of a work unit as its operator sees them: one file per phase,  *)
(* which the agent's run appends to (agent.py), the dashboard's log socket *)
(* (api/streaming.py), and `ve orch tail -f' (cli/orch.py).                *)
(*                                                                         *)
(* The phases are here by their place in PHASE_ORDER.  A line is its       *)
(* number in its file.  The socket lives in the daemon's event loop, the   *)
(* tail is a process of its own.                                           *)
(***************************************************************************)
EXTENDS Naturals, FiniteSets

CONSTANTS
  FirstPhases,  \* where a unit may be injected
  MaxLines,     \* MaxLines[p], bound: lines of phase p's file
  MaxReturns    \* bound: returns from REVIEW to IMPLEMENT

ASSUME LogBounds ==
  FirstPhases \subseteq 1..6 /\ MaxLines \in [1..6 -> Nat \ {0}] /\ MaxReturns \in Nat

VARIABLES
  log,      \* the number of lines in each phase's file, 0: no file
  newest,   \* the phase whose file was written last, 0 for none
  unit,     \* the unit's phase and status
  returns,
  dash,     \* the dashboard's socket
  tail      \* the tail process

logVars == <<log, newest, unit, returns, dash, tail>>

Phases == 1..6
IMPLEMENT == 3  REBASE == 4  REVIEW == 5  COMPLETE == 6

(* What a viewer has: how far it is, the phase it follows, its position in *)
(* the files, and the lines it showed.                                     *)
Viewer(pcs) ==
  [pc : pcs, cur : Phases \cup {0}, idx : 0..6, pos : [Phases -> Nat],
   seen : [Phases -> SUBSET Nat]]

Blank == [pc |-> "off", cur |-> 0, idx |-> 0, pos |-> [p \in Phases |-> 0],
          seen |-> [p \in Phases |-> {}]]

Absent == [Blank EXCEPT !.pc = "closed"]

LogInit ==
  /\ log = [p \in Phases |-> 0] /\ newest = 0 /\ returns = 0
  /\ unit \in [phase : FirstPhases, status : {"RUNNING"}]
  /\ \/ dash = Blank /\ tail = Absent    \* viewers do not meet: one at a time
     \/ dash = Absent /\ tail = Blank

-----------------------------------------------------------------------------
(* The agents.                                                             *)

(* create_log_callback *)
WriteLine ==
  /\ unit.status = "RUNNING"
  /\ log[unit.phase] < MaxLines[unit.phase]
  /\ log' = [log EXCEPT ![unit.phase] = @ + 1]
  /\ newest' = unit.phase
  /\ UNCHANGED <<unit, returns, dash, tail>>

NextPhase ==
  /\ unit.status = "RUNNING" /\ newest = unit.phase    \* a run writes lines
  /\ unit' = IF unit.phase = COMPLETE THEN [unit EXCEPT !.status = "DONE"]
             ELSE [unit EXCEPT !.phase = @ + 1]
  /\ UNCHANGED <<log, newest, returns, dash, tail>>

ReturnToImplement ==
  /\ unit.status = "RUNNING" /\ unit.phase = REVIEW /\ newest = REVIEW
  /\ returns < MaxReturns
  /\ returns' = returns + 1
  /\ unit' = [unit EXCEPT !.phase = IMPLEMENT]
  /\ UNCHANGED <<log, newest, dash, tail>>

DeleteUnit ==
  /\ unit.status # "gone"
  /\ unit' = [unit EXCEPT !.status = "gone"]
  /\ UNCHANGED <<log, newest, returns, dash, tail>>

Agents == WriteLine \/ NextPhase \/ ReturnToImplement \/ DeleteUnit

-----------------------------------------------------------------------------
(* The dashboard's log socket.                                             *)

(* _detect_current_phase, by the files' mtime.  The rebase's file is not   *)
(* on its list: while the rebase writes, it finds the phase before.        *)
CurrentPhase ==
  IF newest # REBASE THEN newest ELSE IF log[IMPLEMENT] > 0 THEN IMPLEMENT ELSE 0

(* _stream_log_file: what the file has past `from'. *)
Streamed(v, p, from) == [v EXCEPT !.seen[p] = @ \cup (from + 1)..log[p], !.pos[p] = log[p]]

Open ==
  /\ dash.pc = "off"
  /\ dash' = IF unit.status = "gone" THEN [dash EXCEPT !.pc = "closed"]
             ELSE IF CurrentPhase = 0 THEN [dash EXCEPT !.pc = "poll"]
             ELSE [dash EXCEPT !.pc = "replay", !.cur = CurrentPhase, !.idx = 1]
  /\ UNCHANGED <<log, newest, unit, returns, tail>>

(* The files up to the current phase's, one after the other. *)
Replay ==
  /\ dash.pc = "replay"
  /\ LET p == dash.idx
         shown == IF p # REBASE /\ log[p] > 0 THEN Streamed(dash, p, 0) ELSE dash
     IN dash' = IF p = dash.cur THEN [shown EXCEPT !.pc = "poll"] ELSE [shown EXCEPT !.idx = p + 1]
  /\ UNCHANGED <<log, newest, unit, returns, tail>>

(* A phase that it has not followed, or that it comes back to, is shown    *)
(* from the file's start; what the phase before wrote last is not.         *)
Poll ==
  /\ dash.pc = "poll"
  /\ dash' =
       IF unit.status \in {"gone", "DONE"} THEN [dash EXCEPT !.pc = "closed"]
       ELSE IF CurrentPhase \notin {0, dash.cur}
       THEN [Streamed(dash, CurrentPhase, 0) EXCEPT !.cur = CurrentPhase]
       ELSE IF dash.cur # 0 THEN Streamed(dash, dash.cur, dash.pos[dash.cur])
       ELSE dash
  /\ UNCHANGED <<log, newest, unit, returns, tail>>

Disconnect ==
  /\ dash.pc = "poll"
  /\ dash' = [dash EXCEPT !.pc = "closed"]
  /\ UNCHANGED <<log, newest, unit, returns, tail>>

Dashboard == Open \/ Replay \/ Poll \/ Disconnect

-----------------------------------------------------------------------------
(* `ve orch tail -f'.                                                      *)

Existing == {p \in Phases : log[p] > 0}
LastOf(ps) == CHOOSE p \in ps : \A q \in ps : q <= p

(* get_phase_log_files, display_phase_log.  The index it goes on from      *)
(* counts the files that are there, and is used as a place in PHASE_ORDER. *)
ShowAll ==
  /\ tail.pc = "off"
  /\ Existing # {}
  /\ tail' = [tail EXCEPT !.pc = "seek", !.idx = Cardinality(Existing),
                          !.cur = LastOf(Existing),
                          !.seen = [p \in Phases |-> 1..log[p]]]
  /\ UNCHANGED <<log, newest, unit, returns, dash>>

(* Lines written since the file was shown are passed over.                 *)
SeekEnd ==
  /\ tail.pc = "seek"
  /\ tail' = [tail EXCEPT !.pc = "read", !.pos[tail.cur] = log[tail.cur]]
  /\ UNCHANGED <<log, newest, unit, returns, dash>>

ReadNew ==
  /\ tail.pc = "read"
  /\ tail' = [Streamed(tail, tail.cur, tail.pos[tail.cur]) EXCEPT !.pc = "next"]
  /\ UNCHANGED <<log, newest, unit, returns, dash>>

\* Mutant: the phase after the next is looked for.
LookAhead ==
  LET p == tail.idx + 2 IN
  /\ tail.pc = "next"
  /\ tail' = IF p \in Phases /\ log[p] > 0
             THEN [Streamed(tail, p, 0) EXCEPT !.pc = "seek", !.cur = p, !.idx = p]
             ELSE [tail EXCEPT !.pc = "read"]
  /\ UNCHANGED <<log, newest, unit, returns, dash>>

(* The next phase's file, if there is one, is followed from now on.        *)
LookForNext ==
  LET p == tail.idx + 1 IN
  /\ tail.pc = "next"
  /\ tail' = IF p \in Phases /\ log[p] > 0
             THEN [Streamed(tail, p, 0) EXCEPT !.pc = "seek", !.cur = p, !.idx = p]
             ELSE [tail EXCEPT !.pc = "read"]
  /\ UNCHANGED <<log, newest, unit, returns, dash>>

Tail == ShowAll \/ SeekEnd \/ ReadNew \/ LookForNext

LogNext == Agents \/ Dashboard \/ Tail

LogSpec == LogInit /\ [][LogNext]_logVars

(* The viewers' loops go on; nothing is owed by agents and operator.       *)
LogFairness == WF_logVars(Replay \/ Poll) /\ WF_logVars(SeekEnd \/ ReadNew \/ LookForNext)
LogFairSpec == LogSpec /\ LogFairness

-----------------------------------------------------------------------------
(* Properties.                                                             *)

(* The type invariant. *)
LogTypeOK ==
  /\ log \in [Phases -> Nat] /\ newest \in Phases \cup {0}
  /\ unit \in [phase : Phases, status : {"RUNNING", "DONE", "gone"}]
  /\ returns \in 0..MaxReturns
  /\ dash \in Viewer({"off", "replay", "poll", "closed"})
  /\ tail \in Viewer({"off", "seek", "read", "next", "closed"})

(* What the socket has shown of a file is all of it up to its position:    *)
(* positions survive switches to other phases and back, and no line within *)
(* a file is passed over (streaming.py:188, 233, 248).                     *)
ShownToPosition == \A p \in Phases : dash.seen[p] = 1..dash.pos[p]

(* A dashboard that stays connected shows every line of the phase that     *)
(* runs, unless the unit ends, is deleted or goes on to another phase      *)
(* before the next poll; of a rebase it shows nothing.                     *)
DashboardFollows ==
  \A p \in Phases \ {REBASE} : \A n \in 1..MaxLines[p] :
    (dash.pc = "poll" /\ newest = p /\ n <= log[p])
      ~> (n \in dash.seen[p] \/ newest # p \/ unit.status # "RUNNING" \/ dash.pc = "closed")

(* A tail that was started on a unit with a log of every phase so far gets *)
(* to the phase that runs: it follows from file to file.  (On a unit that  *)
(* was injected at a later phase it stays with its first file for ever:    *)
(* cli/orch.py:957, 985.)                                                  *)
TailMovesOn ==
  \A p \in Phases :
    (tail.pc = "read" /\ \A q \in 1..p : log[q] > 0) ~> (tail.idx >= p)

(* The invariant of the module: its types, and no line of a file is passed *)
(* over by the socket.                                                     *)
LogInv == LogTypeOK /\ ShownToPosition

(* The viewers keep up with the unit.                                      *)
ViewersFollow == DashboardFollows /\ TailMovesOn
=============================================================================
