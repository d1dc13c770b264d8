------------------------------ MODULE EntitySync ------------------------------
(***************************************************************************)
(* An entity with a wiki, kept in git: the canonical clone on a machine,   *)
(* a worktree of it in every project that attached it, the branches of its *)
(* origin, the sessions of agents that edit the wiki, and the commands     *)
(* attach, detach, push, pull, merge and shutdown around them.             *)
(*                                                                         *)
(* A branch is the set of its commits; a commit is an edit of a wiki page  *)
(* or a merge. The operator, the session of each project and other         *)
(* machines act at any time between two steps of a command.                *)
(***************************************************************************)
EXTENDS FiniteSets, Naturals

CONSTANTS
  Projects,
  Slugs,      \* names of project directories
  Edits, NewPages,   \* the edits, and those that make a new page
  Merges,     \* bound on merge commits
  SessionsIn  \* bound: the projects that have a session, one each

ASSUME Subsets == NewPages \subseteq Edits /\ SessionsIn \subseteq Projects

VARIABLES
  slug,    \* project -> the slug of its directory
  origin,  \* [main, branch]: commits of the remote's branches; NoBranch if there is none
  clone,   \* [at, by, main, branch, source]: the canonical clone, its cloner, its
           \* branches, and the project whose merge holds the remote ve-merge-source
  wt,      \* project -> its worktree
  sess,    \* project -> its session
  made     \* commits there ever were
entityVars == <<slug, origin, clone, wt, sess, made>>

NoBranch == {"absent"}
Nobody == "nobody"
Commits == Edits \union Merges
\* A commit is a hash.
ASSUME Hashes == "absent" \notin Commits /\ "none" \notin Commits
Bare == [on |-> FALSE, dirty |-> {}, staged |-> {}, theirs |-> {}, ask |-> "none", want |-> {}]
NotShown == {"none"}
NoSession == [pc |-> "off", base |-> NoBranch, edits |-> {}, shown |-> NotShown,
              digest |-> {}, gone |-> {}, how |-> "none"]

\* project_slug and attach_branch_name: two directories of one name share a branch.
Branch(p) == slug[p]
Head(p) == clone.branch[Branch(p)]
CheckedOut(b) == \E p \in Projects : wt[p].on /\ Branch(p) = b
With(p, w) == wt' = [wt EXCEPT ![p] = w]
Advance(p, commits) == clone' = [clone EXCEPT !.branch[Branch(p)] = commits]

-----------------------------------------------------------------------------
(* attach. *)

\* ensure_canonical_clone, when there is none: git clone.
StartClone(p) ==
  /\ clone.at = "absent"
  /\ clone' = [clone EXCEPT !.at = "partial", !.by = p]

\* The clone is there, with the origin's default branch; or it failed and is removed.
EndClone(p) ==
  /\ clone.at = "partial" /\ clone.by = p
  /\ \/ clone' = [clone EXCEPT !.at = "ready", !.by = Nobody, !.main = origin.main]
     \/ clone' = [clone EXCEPT !.at = "absent", !.by = Nobody]
  /\ UNCHANGED <<slug, origin, wt, sess, made>>

\* do_attach: the branch of the project is used again if it is there, and made from the
\* clone's default branch otherwise. git checks a branch out once.
AddWorktree(p) ==
  /\ clone.at = "ready" /\ ~wt[p].on
  /\ ~CheckedOut(Branch(p))
  /\ With(p, [Bare EXCEPT !.on = TRUE])
  /\ clone' = IF Head(p) = NoBranch
              THEN [clone EXCEPT !.branch[Branch(p)] = clone.main] ELSE clone

\* The command, and the start of a session of an entity that is not attached. With a
\* clone that another command is making the worktree cannot be added.
Attach(p) ==
  /\ \/ StartClone(p) /\ UNCHANGED wt
     \/ AddWorktree(p)
  /\ UNCHANGED <<slug, origin, sess, made>>

\* do_detach: refused with uncommitted changes, unless forced; the branch goes with the
\* worktree, pushed or not, or git refuses to delete it and the command succeeds all the same.
Detach(p, force) ==
  /\ wt[p].on
  /\ force \/ wt[p].dirty \union wt[p].staged \union wt[p].theirs = {}
  /\ With(p, Bare)
  /\ Advance(p, NoBranch) \/ UNCHANGED clone
  /\ sess' = [sess EXCEPT ![p].gone = @ \union sess[p].edits]
  /\ UNCHANGED <<slug, origin, made>>

-----------------------------------------------------------------------------
(* push and pull. *)

\* push_entity: to the branch of the same name, since attach sets no upstream.
Push(p) ==
  /\ wt[p].on
  /\ LET there == origin.branch[Branch(p)]
     IN  there = NoBranch \/ there \subseteq Head(p)
  /\ origin' = [origin EXCEPT !.branch[Branch(p)] = Head(p)]
  /\ UNCHANGED <<slug, clone, wt, sess, made>>

\* Before the first push there is nothing to compare with, and the command fails.
Incoming(p) == origin.branch[Branch(p)] \ Head(p)
LocalOnly(p) == Head(p) \ origin.branch[Branch(p)]
Comparable(p) == wt[p].on /\ origin.branch[Branch(p)] # NoBranch

\* Mutant: git reset --hard to what was fetched.
ResetToIncoming(p) ==
  /\ Comparable(p) /\ Incoming(p) # {}
  /\ wt[p].theirs = {}
  /\ Advance(p, origin.branch[Branch(p)])
  /\ UNCHANGED <<slug, origin, wt, sess, made>>

\* pull_entity with nothing local: git merge --ff-only.
FastForward(p) ==
  /\ Comparable(p) /\ Incoming(p) # {} /\ LocalOnly(p) = {}
  /\ wt[p].theirs = {}
  /\ Advance(p, origin.branch[Branch(p)])
  /\ UNCHANGED <<slug, origin, wt, sess, made>>

-----------------------------------------------------------------------------
(* merge, and pull of branches that diverged: the origin's main branch is merged. *)

Tracked(p) == (wt[p].dirty \ NewPages) \union wt[p].staged \union wt[p].theirs

\* The remote ve-merge-source is added to the configuration all worktrees share.
StartMerge(p, pull) ==
  /\ wt[p].on /\ Tracked(p) = {}
  /\ pull => Comparable(p) /\ Incoming(p) # {} /\ LocalOnly(p) # {}
  /\ clone.source = Nobody
  /\ clone' = [clone EXCEPT !.source = p]
  /\ With(p, [wt[p] EXCEPT !.want = IF pull THEN Incoming(p) ELSE {}])
  /\ UNCHANGED <<slug, origin, sess, made>>

\* A commit of what is staged (or of all there is) ends a merge in progress.
Committed(p, what, merges) ==
  /\ Advance(p, Head(p) \union what \union wt[p].theirs \union merges)
  /\ made' = made \union merges
  /\ With(p, [wt[p] EXCEPT !.dirty = @ \ what, !.staged = @ \ what,
                           !.theirs = {}, !.ask = "none", !.want = {}])

Everything(p) == wt[p].dirty \union wt[p].staged

\* merge_entity from the fetch on. Nothing to merge; a merge without conflicts, committed
\* with all that lies in the worktree; or conflicts, of which the resolver answers all or
\* not. The remote is removed in any case.
MergeFetched(p) ==
  /\ clone.source = p /\ wt[p].on
  /\ LET theirs == origin.main \ Head(p) IN
     \/ /\ theirs = {}
        /\ clone' = [clone EXCEPT !.source = Nobody]
        /\ With(p, [wt[p] EXCEPT !.want = {}]) /\ UNCHANGED made
     \/ /\ theirs # {}
        /\ \E m \in Merges \ made :
             /\ clone' = [clone EXCEPT !.source = Nobody,
                  !.branch[Branch(p)] = @ \union theirs \union Everything(p) \union {m}]
             /\ made' = made \union {m}
             /\ With(p, [wt[p] EXCEPT !.dirty = {}, !.staged = {}, !.want = {}])
     \/ /\ theirs # {}
        /\ clone' = [clone EXCEPT !.source = Nobody]
        /\ \E ask \in {"operator", "manual"} :
             With(p, [wt[p] EXCEPT !.theirs = theirs, !.ask = ask, !.want = {}])
        /\ UNCHANGED made
  /\ UNCHANGED <<slug, origin, sess>>

\* The command is killed between adding the remote and removing it.
MergeKilled(p) ==
  /\ clone.source = p
  /\ clone' = [clone EXCEPT !.source = "killed"]
  /\ UNCHANGED <<slug, origin, wt, sess, made>>

\* Every resolution was approved: commit_resolved_merge; or apply_resolutions, when some
\* conflicts are left to the operator.
ApproveResolutions(p) ==
  /\ wt[p].ask = "operator"
  /\ \/ \E m \in Merges \ made : Committed(p, Everything(p), {m})
     \/ With(p, [wt[p] EXCEPT !.ask = "manual"]) /\ UNCHANGED <<clone, made>>
  /\ UNCHANGED <<slug, origin, sess>>

\* git merge --abort: what is staged goes, what is only in the worktree stays.
Aborted(p) == [wt[p] EXCEPT !.staged = {}, !.theirs = {}, !.ask = "none"]

\* A resolution was rejected, or `ve entity merge --abort'.
AbortMerge(p) ==
  /\ wt[p].on /\ wt[p].theirs # {}
  /\ With(p, Aborted(p))
  /\ sess' = [sess EXCEPT ![p].gone = @ \union wt[p].staged]
  /\ UNCHANGED <<slug, origin, clone, made>>

\* The operator resolved the conflicts by hand: git add, git commit.
CommitByHand(p) ==
  /\ wt[p].ask = "manual"
  /\ \E m \in Merges \ made : Committed(p, Everything(p), {m})
  /\ UNCHANGED <<slug, origin, sess>>

-----------------------------------------------------------------------------
(* Sessions: `ve entity claude'. *)

\* The baseline is the commit before the agent starts (_capture_baseline_ref).
Launch(p) ==
  /\ wt[p].on /\ p \in SessionsIn /\ sess[p] = NoSession
  /\ sess' = [sess EXCEPT ![p] = [NoSession EXCEPT !.pc = "agent", !.base = Head(p)]]
  /\ UNCHANGED <<slug, origin, clone, wt, made>>

\* The agent edits a wiki page.
AgentEdits(p) ==
  /\ sess[p].pc = "agent" /\ wt[p].on
  /\ \E e \in Edits \ made :
       /\ With(p, [wt[p] EXCEPT !.dirty = @ \union {e}])
       /\ sess' = [sess EXCEPT ![p].edits = @ \union {e}]
       /\ made' = made \union {e}
  /\ UNCHANGED <<slug, origin, clone>>

\* It may commit them. During a merge it leaves that to the operator.
AgentCommits(p) ==
  /\ sess[p].pc = "agent" /\ wt[p].on /\ wt[p].theirs = {} /\ Everything(p) # {}
  /\ Committed(p, Everything(p), {})
  /\ UNCHANGED <<slug, origin, sess>>

\* Mutant: only what is staged is shown to the agent.
WikiDiffOfIndex(p, baseline) == Everything(p)

\* extract_wiki_diff stages the wiki and returns what was committed since the baseline
\* and what is staged.
WikiDiff(p, baseline) ==
  (IF baseline = NoBranch THEN {} ELSE Head(p) \ baseline) \union Everything(p)

\* The session ends, and is resumed to shut down.
AgentExits(p) ==
  /\ sess[p].pc = "agent"
  /\ sess' = [sess EXCEPT ![p].pc = "resumed"]
  /\ UNCHANGED <<slug, origin, clone, wt, made>>

\* run_wiki_consolidation up to its agent. The resumed agent calls `ve entity shutdown',
\* which knows no baseline; the fallback has one. No difference, nothing to do.
Extract(p) ==
  /\ sess[p].pc \in {"resumed", "fallback"} /\ sess[p].shown = NotShown /\ wt[p].on
  /\ With(p, [wt[p] EXCEPT !.dirty = {}, !.staged = Everything(p)])
  /\ LET fallback == sess[p].pc = "fallback"
         shown == WikiDiff(p, IF fallback THEN sess[p].base ELSE NoBranch)
     IN  sess' = [sess EXCEPT
           ![p].shown = IF shown = {} THEN NotShown ELSE shown,
           ![p].pc = IF fallback /\ shown = {} THEN "off" ELSE @,
           ![p].base = IF fallback /\ shown = {} THEN NoBranch ELSE @,
           ![p].how = IF fallback /\ shown = {} THEN "wiki" ELSE @]
  /\ UNCHANGED <<slug, origin, clone, made>>

\* The consolidation agent read the difference, and commits what is staged: git add
\* resolved the conflicts of a merge in progress, as they were.
Consolidated(p) ==
  /\ sess[p].shown # NotShown /\ wt[p].on
  /\ sess' = [sess EXCEPT ![p] = [sess[p] EXCEPT !.digest = @ \union sess[p].shown, !.shown = NotShown,
                 !.pc = IF @ = "fallback" THEN "off" ELSE @,
                 !.base = IF sess[p].pc = "fallback" THEN NoBranch ELSE @,
                 !.how = IF sess[p].pc = "fallback" THEN "wiki" ELSE @]]
  /\ IF wt[p].theirs = {} THEN Committed(p, wt[p].staged, {})
     ELSE \E m \in Merges \ made : Committed(p, wt[p].staged, {m})
  /\ UNCHANGED <<slug, origin>>

\* It ends without a result.
ConsolidationFails(p) ==
  /\ sess[p].shown # NotShown
  /\ sess' = [sess EXCEPT ![p].shown = NotShown, ![p].pc = IF @ = "fallback" THEN "off" ELSE @,
                          ![p].how = IF sess[p].pc = "fallback" THEN "failed" ELSE @]
  /\ UNCHANGED <<slug, origin, clone, wt, made>>

\* Exit status 0 ends the command, whatever the agent did; another, or the timeout, leads
\* to the fallback: the transcript if there is no wiki any more.
ResumeEnds(p) ==
  /\ sess[p].pc = "resumed" /\ sess[p].shown = NotShown
  /\ sess' = [sess EXCEPT ![p].pc = "off", ![p].base = NoBranch, ![p].how = "resume"]
  /\ UNCHANGED <<slug, origin, clone, wt, made>>
ResumeFails(p) ==
  /\ sess[p].pc = "resumed"
  /\ sess' = [sess EXCEPT ![p].shown = NotShown, ![p].pc = IF wt[p].on THEN "fallback" ELSE "off",
                          ![p].how = IF wt[p].on THEN @ ELSE "transcript"]
  /\ UNCHANGED <<slug, origin, clone, wt, made>>

-----------------------------------------------------------------------------
(* Outside: a maintainer merges a pushed branch into main, and another machine pushes *)
(* to a project's branch.                                                             *)

MaintainerMerges(b) ==
  /\ origin.branch[b] # NoBranch /\ ~(origin.branch[b] \subseteq origin.main)
  /\ origin' = [origin EXCEPT !.main = @ \union origin.branch[b]]
  /\ UNCHANGED <<slug, clone, wt, sess, made>>

OtherMachinePushes(b) ==
  /\ origin.branch[b] # NoBranch
  /\ \E e \in Edits \ made : /\ origin' = [origin EXCEPT !.branch[b] = @ \union {e}]
                             /\ made' = made \union {e}
  /\ UNCHANGED <<slug, clone, wt, sess>>

-----------------------------------------------------------------------------
EntityInit ==
  /\ slug \in [Projects -> Slugs]
  /\ origin = [main |-> {}, branch |-> [b \in Slugs |-> NoBranch]]
  /\ clone = [at |-> "absent", by |-> Nobody, main |-> {},
              branch |-> [b \in Slugs |-> NoBranch], source |-> Nobody]
  /\ wt = [p \in Projects |-> Bare]
  /\ sess = [p \in Projects |-> NoSession]
  /\ made = {}

Command(p) ==
  \/ Attach(p) \/ EndClone(p) \/ \E force \in BOOLEAN : Detach(p, force)
  \/ Push(p) \/ FastForward(p) \/ \E pull \in BOOLEAN : StartMerge(p, pull)
  \/ MergeFetched(p) \/ MergeKilled(p) \/ ApproveResolutions(p) \/ AbortMerge(p) \/ CommitByHand(p)
Session(p) ==
  \/ Launch(p) \/ AgentEdits(p) \/ AgentCommits(p) \/ AgentExits(p)
  \/ Extract(p) \/ Consolidated(p) \/ ConsolidationFails(p) \/ ResumeEnds(p) \/ ResumeFails(p)

EntityNext == \/ \E p \in Projects : Command(p) \/ Session(p)
              \/ \E b \in Slugs : MaintainerMerges(b) \/ OtherMachinePushes(b)
EntitySpec == EntityInit /\ [][EntityNext]_entityVars

-----------------------------------------------------------------------------
(* Properties. *)

EntityTypeOK ==
  /\ slug \in [Projects -> Slugs]
  /\ origin.main \subseteq Commits /\ clone.main \subseteq Commits
  /\ \A b \in Slugs : \A h \in {origin.branch[b], clone.branch[b]} : h = NoBranch \/ h \subseteq made
  /\ \A p \in Projects :
       /\ wt[p].dirty \union wt[p].staged \union wt[p].theirs \subseteq made
       /\ wt[p].on => clone.at = "ready" /\ Head(p) # NoBranch
       /\ wt[p].ask # "none" <=> wt[p].theirs # {}
       /\ wt[p].dirty \union wt[p].staged \subseteq Edits

\* Two attached worktrees never stand on one branch, whatever the projects' directories
\* are called (do_attach, project_slug).
BranchesApart ==
  \A p, q \in Projects : wt[p].on /\ wt[q].on /\ Branch(p) = Branch(q) => p = q

Local(c) == \/ c \in clone.main
            \/ \E b \in Slugs : clone.branch[b] # NoBranch /\ c \in clone.branch[b]
            \/ \E p \in Projects : c \in wt[p].dirty \union wt[p].staged
Remote(c) == \/ c \in origin.main
             \/ \E b \in Slugs : origin.branch[b] # NoBranch /\ c \in origin.branch[b]

\* No command loses an edit or a commit this machine or the origin has, in whatever order
\* sessions, shutdowns, pulls and merges of the projects run. Two may: detach, which
\* deletes the branch, and the end of a merge by --abort, for what is staged.
WorkSurvives ==
  [][\A c \in made :
       /\ Remote(c) => Remote(c)'
       /\ Local(c) => \/ Local(c)'
                      \/ \E p \in Projects : wt[p].on /\ ~wt'[p].on
                                              /\ c \in Head(p) \union wt[p].dirty \union wt[p].staged
                      \/ \E p \in Projects : c \in wt[p].staged /\ wt[p].theirs # {}
                                               /\ wt'[p].theirs = {}]_entityVars

\* A session that ended by the fallback showed its consolidation agent every edit it made
\* and did not lose, committed or not, and whatever was pulled or merged meanwhile
\* (_capture_baseline_ref, extract_wiki_diff).
FallbackDigests ==
  \A p \in Projects : sess[p].pc = "off" /\ sess[p].how = "wiki" =>
                        sess[p].edits \subseteq sess[p].digest \union sess[p].gone

\* The invariant of the module: its types, one worktree for a branch, and what the
\* consolidation of a session is shown.
EntityInv == EntityTypeOK /\ BranchesApart /\ FallbackDigests
=============================================================================
