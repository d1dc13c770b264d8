----------------------------- MODULE MCProcesses ----------------------------
(* Processes that may be killed at any step: the daemon with the commands  *)
(* that start and stop it, the agent of a turn, the propagation of a       *)
(* chunk's new name, and the shutdown of an entity.  The models share no   *)
(* state: a behaviour is of one, while the others stay as they began.      *)
EXTENDS Daemon, AgentTurn, EntityMemory, Renames, TLC

\* Titles are alike, and so are commands: the same model values, as no part has both.
Alike == Permutations(Titles \cup Commands)

VARIABLE part
processVars == <<vars, turnVars, memVars, renameVars, part>>

ProcessInit ==
  /\ part \in {"daemon", "agent", "memory", "names"}
  /\ Init /\ TurnInit /\ MemInit /\ RenameInit
  /\ part # "agent" =>
       backend = (CHOOSE b \in Backends : TRUE) /\ settings = [n \in Names |-> "none"]

ServiceStep ==
  part = "daemon" /\ Next /\ UNCHANGED <<turnVars, memVars, renameVars, part>>
TurnStep ==
  part = "agent" /\ TurnNext /\ UNCHANGED <<vars, memVars, renameVars, part>>
\* The size of the memories' part. An entry of an answer names another tier than its list's
\* only if it is alone; a memories file that names an upper tier has one entry; a kill while
\* the model is asked leaves what a failed question leaves.
SmallMemory ==
  /\ cycle.pc = "asked" /\ cycle'.pc = "merging" /\ Len(cycle'.todo) > 1 =>
       \A i \in DOMAIN cycle'.todo : cycle'.todo[i].tier = cycle'.todo[i].key
  /\ UpperFiles(files') # UpperFiles(files) /\ cycles' # cycles => Cardinality(files' \ files) <= 1
  /\ cycle'.pc = "crashed" => cycle.pc # "asked"
MemoryStep ==
  part = "memory" /\ MemNext /\ SmallMemory /\ UNCHANGED <<vars, turnVars, renameVars, part>>
RenameStep ==
  part = "names" /\ RenameNext /\ UNCHANGED <<vars, turnVars, memVars, part>>

ProcessSpec ==
  ProcessInit
  /\ [][ServiceStep \/ TurnStep \/ MemoryStep \/ RenameStep]_processVars
=============================================================================
