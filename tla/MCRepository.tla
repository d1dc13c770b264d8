---------------------------- MODULE MCRepository ----------------------------
(* What lasts on disk: the branches and worktrees of the orchestrator, the *)
(* workflow artifacts, the orchestrator's database, the friction logs, and *)
(* a channel of the message board.  The models share no state: a behaviour *)
(* is of one, while the others stay as they began.                         *)
EXTENDS Finalization, Workspace, Store, Friction, FileStorage, TLC

VARIABLE part
repositoryVars ==
  <<gitVars, workspaceVars, storeVars, frictionVars, storageVars, part>>

\* Bases are alike, and so are commits of agents, and chunks: the commits and the chunks are
\* the same model values, as no part has both.
Alike == {b @@ x : b \in Permutations(Bases), x \in Permutations(Work \cup ChunkNames)}

RepositoryInit ==
  /\ part \in {"git", "artifacts", "store", "friction", "channel"}
  /\ GitInit /\ WorkspaceInit /\ StoreInit /\ FrictionInit /\ StorageInit
  /\ part # "store" => ~file

GitStep ==
  /\ part = "git" /\ GitNext
  /\ UNCHANGED <<workspaceVars, storeVars, frictionVars, storageVars, part>>
ArtifactStep ==
  /\ part = "artifacts" /\ WorkspaceNext
  /\ UNCHANGED <<gitVars, storeVars, frictionVars, storageVars, part>>
StoreStep ==
  /\ part = "store" /\ StoreNext
  /\ UNCHANGED <<gitVars, workspaceVars, frictionVars, storageVars, part>>
FrictionStep ==
  /\ part = "friction" /\ FrictionNext
  /\ UNCHANGED <<gitVars, workspaceVars, storeVars, storageVars, part>>
ChannelStep ==
  /\ part = "channel" /\ StorageNext
  /\ UNCHANGED <<gitVars, workspaceVars, storeVars, frictionVars, part>>

RepositorySpec ==
  /\ RepositoryInit
  /\ [][GitStep \/ ArtifactStep \/ StoreStep \/ FrictionStep \/ ChannelStep]_repositoryVars

(* Files that a process may leave half written, or write over what another *)
(* has written: the orchestrator's database (StoreInv), the friction logs  *)
(* (FrictionInv) and a channel's messages (StorageInv).                    *)
FilesInv == StoreInv /\ FrictionInv /\ StorageInv
=============================================================================
