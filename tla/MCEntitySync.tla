---------------------------- MODULE MCEntitySync ----------------------------
(* The repository of an entity in two projects, small enough for TLC. *)
EXTENDS EntitySync, TLC

\* Two bounds. Git refuses to delete a branch only if it has work the origin's main lacks, is of
\* a project without a session, and no session has begun or merge is under way; and a merge is
\* killed in the project with a session only.
Bounded ==
  /\ \A p \in Projects : wt[p].on /\ ~wt'[p].on /\ clone' = clone =>
       /\ ~(Head(p) \subseteq origin.main) /\ p \notin SessionsIn /\ clone.source = Nobody
       /\ \A o \in Projects : sess[o] = NoSession
  /\ clone'.source = "killed" => clone.source \in SessionsIn \union {"killed"}
MCEntitySpec == EntityInit /\ [][EntityNext /\ Bounded]_entityVars

Symmetric == Permutations(Slugs)
=============================================================================
