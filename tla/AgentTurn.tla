----------------------------- MODULE AgentTurn -----------------------------
(***************************************************************************)
(* One turn of an agent: what the backends (backends/claude.py and         *)
(* backends/cursor.py under src/src/orchestrator) hear from the agent's    *)
(* process, what they write into its worktree, and the AgentResult that    *)
(* AgentRunner.run_phase gives to Scheduler._handle_agent_result.          *)
(*                                                                         *)
(* Module Scheduler takes the result as it comes; here it is made.  Turns  *)
(* of one worktree follow each other, and the daemon may be killed in any. *)
(***************************************************************************)
EXTENDS Naturals, Sequences, SequencesExt

CONSTANTS
  Backends,     \* the backends used, of "claude" and "cursor"
  Decisions,    \* APPROVE, FEEDBACK, ESCALATE, or what else a reviewer says
  MaxTurns,     \* bound: turns of the worktree
  MaxSaid       \* bound: review decisions in a turn

ASSUME TurnBounds ==
  Backends \subseteq {"claude", "cursor"} /\ {MaxTurns, MaxSaid} \subseteq Nat

VARIABLES
  backend,  \* OrchestratorConfig's backend, as the daemon started
  settings, \* .cursor/hooks.json and .cursor/mcp.json, with their scripts
  own,      \* history: those files before any turn
  spoiled,  \* history: a daemon was killed, or a write failed, in a turn
  turn,     \* the turn
  told,     \* history: what the agent did in it
  turns

turnVars == <<backend, settings, own, spoiled, turn, told, turns>>

Names == {"hooks", "mcp"}
Contents == {"none", "project", "ours"}

(* SessionRequest and the locals of run(): what was heard, and the files'  *)
(* originals.                                                              *)
Heard == [session : BOOLEAN, completed : BOOLEAN, error : BOOLEAN, result : BOOLEAN,
          question : BOOLEAN, decision : {<<>>} \cup {<<d>> : d \in Decisions}]
Silence == [session |-> FALSE, completed |-> FALSE, error |-> FALSE, result |-> FALSE,
            question |-> FALSE, decision |-> <<>>]

Idle == [pc |-> "idle", review |-> FALSE, heard |-> Silence, originals |-> [n \in Names |-> "none"],
         wrote |-> FALSE]
Nothing == [session |-> FALSE, said |-> <<>>, asked |-> FALSE, failed |-> FALSE, late |-> FALSE]

TurnInit ==
  /\ backend \in Backends
  /\ settings \in [Names -> {"none", "project"}]
  /\ own = settings /\ spoiled = FALSE
  /\ turn = Idle /\ told = Nothing /\ turns = 0

-----------------------------------------------------------------------------

(* run_phase: only a review's request has the review tool. *)
StartTurn ==
  /\ turn.pc \in {"idle", "result"} /\ turns < MaxTurns
  /\ turns' = turns + 1
  /\ \E review \in BOOLEAN :
       turn' = [Idle EXCEPT !.review = review,
                            !.pc = IF backend = "claude" THEN "stream" ELSE "hooks"]
  /\ told' = Nothing
  /\ UNCHANGED <<backend, settings, own, spoiled>>

(* _write_sandbox_hook, _write_cursor_mcp_config: the originals are kept,  *)
(* then written over.                                                      *)
WriteHooks ==
  /\ turn.pc = "hooks"
  /\ turn' = [turn EXCEPT !.originals["hooks"] = settings["hooks"],
                          !.pc = IF turn.review THEN "mcp" ELSE "stream"]
  /\ settings' = [settings EXCEPT !["hooks"] = "ours"]
  /\ UNCHANGED <<backend, own, spoiled, told, turns>>

WriteMcp ==
  /\ turn.pc = "mcp"
  /\ turn' = [turn EXCEPT !.originals["mcp"] = settings["mcp"], !.wrote = TRUE, !.pc = "stream"]
  /\ settings' = [settings EXCEPT !["mcp"] = "ours"]
  /\ UNCHANGED <<backend, own, spoiled, told, turns>>

(* A write fails after another: what it knew of the originals is gone.     *)
WriteFails ==
  /\ turn.pc \in Names
  /\ spoiled' = TRUE
  /\ settings' \in {settings, [settings EXCEPT ![turn.pc] = "ours"]}
  /\ turn' = [turn EXCEPT !.heard.error = TRUE, !.pc = "clean"]
  /\ UNCHANGED <<backend, own, told, turns>>

-----------------------------------------------------------------------------
(* What the agent's process says.                                          *)

Hear(heard) == turn' = [turn EXCEPT !.heard = heard]

Listening == turn.pc = "stream" /\ ~turn.heard.result

ReportSession ==
  /\ Listening
  /\ Hear([turn.heard EXCEPT !.session = TRUE])
  /\ told' = [told EXCEPT !.session = TRUE]
  /\ UNCHANGED <<backend, settings, own, spoiled, turns>>

(* A decision is caught where the call is seen, the first of a turn; a     *)
(* hook of Claude's, if it fires, catches every one.                       *)
CaughtDecisions(d) ==
  LET first == IF turn.heard.decision = <<>> THEN <<d>> ELSE turn.heard.decision
  IN {first} \cup (IF backend = "claude" THEN {<<d>>} ELSE {})

SubmitDecision ==
  /\ Listening /\ turn.review
  /\ Len(told.said) < MaxSaid
  /\ \E d \in Decisions :
       /\ told' = [told EXCEPT !.said = Append(@, d)]
       /\ \E caught \in CaughtDecisions(d) : Hear([turn.heard EXCEPT !.decision = caught])
  /\ UNCHANGED <<backend, settings, own, spoiled, turns>>

(* AskUserQuestion; Cursor has nothing that looks for it. *)
AskUser ==
  /\ Listening
  /\ told' = [told EXCEPT !.asked = TRUE]
  /\ Hear([turn.heard EXCEPT !.question = @ \/ backend = "claude"])
  /\ UNCHANGED <<backend, settings, own, spoiled, turns>>

ReportResult ==
  /\ Listening
  /\ \E failed \in BOOLEAN, session \in {turn.heard.session, TRUE} :
       /\ told' = [told EXCEPT !.failed = failed, !.session = session]
       /\ Hear([turn.heard EXCEPT !.result = TRUE, !.error = failed,
                                  !.completed = ~failed, !.session = session])
  /\ UNCHANGED <<backend, settings, own, spoiled, turns>>

(* The stream ends; a Cursor process that ends without a result, or with   *)
(* an exit code other than 0 before one, is an error.                      *)
EndStream ==
  /\ turn.pc = "stream"
  /\ turn' = [turn EXCEPT !.pc = "clean",
                          !.heard.error = @ \/ (backend = "cursor" /\ ~turn.heard.result)]
  /\ UNCHANGED <<backend, settings, own, spoiled, told, turns>>

(* _PHASE_TIMEOUT_SECONDS, a line longer than the stream's limit, a lost   *)
(* connection.  Claude keeps what it heard; _consume_stream of Cursor      *)
(* gives what it heard at its end alone, so that nothing is left of it.    *)
BreakOff ==
  /\ turn.pc = "stream"
  /\ told' = [told EXCEPT !.late = TRUE]
  /\ turn' = [turn EXCEPT !.pc = "clean",
                          !.heard = [(IF backend = "claude" THEN turn.heard ELSE Silence)
                                       EXCEPT !.error = TRUE]]
  /\ UNCHANGED <<backend, settings, own, spoiled, turns>>

\* Mutant: after an error the files stay.
RestoredIfDone ==
  [n \in Names |-> IF backend = "cursor" /\ ~turn.heard.error THEN turn.originals[n] ELSE settings[n]]

(* _remove_sandbox_hook, _remove_cursor_mcp_config in the finally clause.  *)
Restored ==
  [n \in Names |-> IF backend = "cursor" /\ (n = "mcp" => turn.wrote) THEN turn.originals[n]
                   ELSE settings[n]]

(* Claude's result of a suspended turn holds the question, not a decision. *)
CleanUp ==
  /\ turn.pc = "clean"
  /\ settings' = Restored
  /\ turn' = [turn EXCEPT !.pc = "result",
                          !.heard.decision = IF turn.heard.question THEN <<>> ELSE @]
  /\ UNCHANGED <<backend, own, spoiled, told, turns>>

(* A daemon that is killed restores nothing; the next turn takes what it   *)
(* finds for the project's own.                                            *)
KillDaemon ==
  /\ turn.pc \notin {"idle", "result"}
  /\ turn' = Idle /\ told' = Nothing
  /\ spoiled' = TRUE
  /\ UNCHANGED <<backend, settings, own, turns>>

TurnNext ==
  \/ StartTurn \/ WriteHooks \/ WriteMcp \/ WriteFails
  \/ ReportSession \/ SubmitDecision \/ AskUser \/ ReportResult
  \/ EndStream \/ BreakOff \/ CleanUp \/ KillDaemon

TurnSpec == TurnInit /\ [][TurnNext]_turnVars

-----------------------------------------------------------------------------

(* AgentResult, as _handle_agent_result goes by it. *)
Outcome(heard) ==
  IF heard.question THEN "suspended" ELSE IF heard.error THEN "error"
  ELSE IF heard.completed THEN "completed" ELSE "unknown"

(* Properties.                                                             *)

(* The type invariant. *)
TurnTypeOK ==
  /\ backend \in Backends /\ settings \in [Names -> Contents]
  /\ own \in [Names -> Contents] /\ spoiled \in BOOLEAN
  /\ turn \in [pc : Names \cup {"idle", "stream", "clean", "result"}, review : BOOLEAN,
               heard : Heard, originals : [Names -> Contents], wrote : BOOLEAN]
  /\ turns \in 0..MaxTurns

(* Between turns the project's own .cursor files are as they were before   *)
(* any, however a turn ended (cursor.py:528-539), except after a kill or a *)
(* failed write, which leave files of the orchestrator for good.           *)
ProjectFilesKept ==
  (turn.pc \in {"idle", "result"} /\ ~spoiled) => settings = own

(* What the agent did reaches the scheduler: its question (not through     *)
(* Cursor), else its failure, else its end; its session and a decision of  *)
(* this turn, unless Cursor's stream broke off (cursor.py:469-476) or the  *)
(* turn is suspended (claude.py:581).                                      *)
AgentIsHeard ==
  turn.pc = "result" =>
    LET lost == backend = "cursor" /\ told.late
        heard == turn.heard
    IN /\ (told.asked /\ backend = "claude") <=> Outcome(heard) = "suspended"
       /\ (told.failed /\ ~told.asked) => Outcome(heard) = "error"
       /\ Outcome(heard) = "completed" => ~told.failed /\ ~told.late /\ heard.result
       /\ lost \/ heard.session = told.session
       /\ IF told.said = <<>> \/ lost \/ heard.question THEN heard.decision = <<>>
          ELSE ToSet(heard.decision) \cap ToSet(told.said) # {}

(* The invariant of the module: its types, the project's files and what    *)
(* the scheduler is told.                                                  *)
TurnInv == TurnTypeOK /\ ProjectFilesKept /\ AgentIsHeard
=============================================================================
