--------------------------- MODULE EntityProofs ----------------------------
(***************************************************************************)
(* Proofs that the repository of an entity stays in order and that no      *)
(* command loses work.                                                     *)
(*                                                                         *)
(* The invariant, EntityIInv, speaks of one project at a time, but for the *)
(* branches, which projects share: StepOf says what a step of one project  *)
(* may do to the others, StepOfIInv and StepOfSurvives that such a step    *)
(* preserves the invariant and the work, and one lemma for each command    *)
(* that it is such a step.                                                 *)
(***************************************************************************)
EXTENDS EntitySync, TLAPS

-----------------------------------------------------------------------------
(* The repository of an entity and its sessions. *)

Heads == (SUBSET made) \union {NoBranch}
Origins == [main : SUBSET made, branch : [Slugs -> Heads]]
Clones == [at : {"absent", "partial", "ready"}, by : Projects \union {Nobody}, main : SUBSET made,
           branch : [Slugs -> Heads], source : Projects \union {Nobody, "killed"}]
Trees == [on : BOOLEAN, dirty : SUBSET made, staged : SUBSET made, theirs : SUBSET made,
          ask : {"none", "operator", "manual"}, want : SUBSET made]
Sessions ==
  [pc : {"off", "agent", "resumed", "fallback"}, base : Heads, edits : SUBSET made,
   shown : (SUBSET made) \union {NotShown}, digest : SUBSET made, gone : SUBSET made,
   how : {"none", "wiki", "failed", "resume", "transcript"}]

EntityTypes ==
  /\ slug \in [Projects -> Slugs] /\ made \subseteq Commits
  /\ origin \in Origins /\ clone \in Clones
  /\ wt \in [Projects -> Trees] /\ sess \in [Projects -> Sessions]

\* Before it is complete the clone has no commit.
CloneFits == clone.at # "ready" => clone.main = {} /\ \A b \in Slugs : clone.branch[b] = NoBranch

\* A worktree stands on a branch of the clone; where there is none nothing lies about.
TreeFits(p) ==
  /\ wt[p].on => clone.at = "ready" /\ Head(p) # NoBranch
  /\ ~wt[p].on => wt[p] = Bare
  /\ wt[p].ask # "none" <=> wt[p].theirs # {}
  /\ wt[p].dirty \union wt[p].staged \subseteq Edits

\* What the worktree of a project holds, on its branch or not.
Held(p) == wt[p].dirty \union wt[p].staged \union (IF wt[p].on THEN Head(p) ELSE {})

\* Until a session ends, each of its edits was digested, or lost, or is in the worktree and
\* not in the baseline.
Fits(s, held) ==
  /\ s.pc = "off" /\ s.how = "wiki" => s.edits \subseteq s.digest \union s.gone
  /\ s.pc # "off" => /\ s.base # NoBranch /\ s.edits \intersect s.base = {}
                     /\ s.edits \subseteq s.digest \union s.gone \union held
  /\ s.shown # NotShown => s.pc \in {"resumed", "fallback"}
  /\ s.shown # NotShown /\ s.pc = "fallback" => s.edits \subseteq s.shown \union s.digest \union s.gone
SessionFits(p) == Fits(sess[p], Held(p))

EntityIInv ==
  /\ EntityTypes /\ CloneFits /\ BranchesApart
  /\ \A p \in Projects : TreeFits(p) /\ SessionFits(p)

\* What a step of one project does to the others, to the clone and to the origin, and what
\* it keeps: all but detach, and the end of a merge by --abort.
OriginGrows ==
  /\ origin.main \subseteq origin'.main
  /\ \A b \in Slugs : origin.branch[b] # NoBranch =>
                        origin'.branch[b] # NoBranch /\ origin.branch[b] \subseteq origin'.branch[b]

OriginStep == origin' \in Origins' /\ OriginGrows

CloneStep(p) ==
  /\ clone' \in Clones' /\ CloneFits'
  /\ clone.at = "ready" => clone'.at = "ready"
  /\ \A b \in Slugs \ {Branch(p)} : clone'.branch[b] = clone.branch[b]
  /\ wt[p].on \/ ~CheckedOut(Branch(p)) \/ clone'.branch[Branch(p)] = clone.branch[Branch(p)]

TreeStep(p) ==
  /\ wt' = [wt EXCEPT ![p] = wt'[p]] /\ wt'[p] \in Trees' /\ TreeFits(p)'
  /\ wt'[p].on => wt[p].on \/ ~CheckedOut(Branch(p))

SessionStep(p) ==
  /\ sess' = [sess EXCEPT ![p] = sess'[p]] /\ sess'[p] \in Sessions' /\ SessionFits(p)'

Keeps(p) ==
  \/ wt[p].on /\ ~wt'[p].on /\ clone.main \subseteq clone'.main
  \/ /\ clone.main \subseteq clone'.main
     /\ Head(p) # NoBranch => Head(p)' # NoBranch /\ Head(p) \subseteq Head(p)'
     /\ \A c \in wt[p].dirty \union wt[p].staged :
          \/ c \in wt'[p].dirty \union wt'[p].staged
          \/ Head(p)' # NoBranch /\ c \in Head(p)'
          \/ c \in wt[p].staged /\ wt[p].theirs # {} /\ wt'[p].theirs = {}

StepOf(p) ==
  /\ slug' = slug /\ made \subseteq made' /\ made' \subseteq Commits
  /\ OriginStep /\ CloneStep(p) /\ TreeStep(p) /\ SessionStep(p) /\ Keeps(p)

\* Commits are no sign of a missing branch, or of nothing shown.
LEMMA CommitsAreNot ==
  ASSUME made \subseteq Commits, NEW h \in SUBSET made
  PROVE  h # NoBranch /\ h # NotShown
BY Hashes DEF NoBranch, NotShown

\* With more commits made, what was of a type still is.
LEMMA MoreMade ==
  ASSUME made \subseteq made'
  PROVE  /\ Heads \subseteq Heads' /\ Origins \subseteq Origins' /\ Clones \subseteq Clones'
         /\ Trees \subseteq Trees' /\ Sessions \subseteq Sessions'
<1>1. Heads \subseteq Heads'
  BY DEF Heads
<1>2. Origins \subseteq Origins'
  BY <1>1 DEF Origins
<1>3. Clones \subseteq Clones'
  BY <1>1 DEF Clones
<1>4. Trees \subseteq Trees'
  BY DEF Trees
<1>5. Sessions \subseteq Sessions'
  BY <1>1 DEF Sessions
<1> QED  BY <1>1, <1>2, <1>3, <1>4, <1>5

\* A step of one project preserves the invariant.
LEMMA StepOfIInv ==
  ASSUME EntityIInv, NEW p \in Projects, StepOf(p)
  PROVE  EntityIInv'
<1>1. slug' = slug /\ made \subseteq made' /\ made' \subseteq Commits /\ origin' \in Origins'
      /\ clone' \in Clones' /\ CloneFits' /\ slug \in [Projects -> Slugs]
      /\ wt \in [Projects -> Trees] /\ sess \in [Projects -> Sessions]
  BY DEF StepOf, OriginStep, CloneStep, EntityIInv, EntityTypes
<1>2. wt' \in [Projects -> Trees'] /\ \A q \in Projects \ {p} : wt'[q] = wt[q]
  <2>1. wt \in [Projects -> Trees'] /\ wt' = [wt EXCEPT ![p] = wt'[p]] /\ wt'[p] \in Trees'
    BY <1>1, MoreMade DEF StepOf, TreeStep
  <2> QED  BY <2>1
<1>3. sess' \in [Projects -> Sessions'] /\ \A q \in Projects \ {p} : sess'[q] = sess[q]
  <2>1. sess \in [Projects -> Sessions'] /\ sess' = [sess EXCEPT ![p] = sess'[p]] /\ sess'[p] \in Sessions'
    BY <1>1, MoreMade DEF StepOf, SessionStep
  <2> QED  BY <2>1
<1>4. EntityTypes'
  BY <1>1, <1>2, <1>3 DEF EntityTypes
<1>5. \A q \in Projects \ {p} : wt[q].on => Head(q)' = Head(q)
  <2> SUFFICES ASSUME NEW q \in Projects \ {p}, wt[q].on PROVE Head(q)' = Head(q)
    OBVIOUS
  <2>1. CASE Branch(q) # Branch(p)
    BY <1>1, <2>1 DEF StepOf, CloneStep, Head, Branch
  <2>2. CASE Branch(q) = Branch(p)
    <3>1. ~wt[p].on /\ CheckedOut(Branch(p))
      BY <2>2 DEF EntityIInv, BranchesApart, CheckedOut
    <3>2. clone'.branch[Branch(p)] = clone.branch[Branch(p)]
      BY <3>1 DEF StepOf, CloneStep
    <3> QED  BY <1>1, <2>2, <3>2 DEF Head, Branch
  <2> QED  BY <2>1, <2>2
<1>6. \A q \in Projects \ {p} : TreeFits(q)' /\ SessionFits(q)'
  <2> TAKE q \in Projects \ {p}
  <2>1. TreeFits(q) /\ SessionFits(q) /\ wt'[q] = wt[q] /\ sess'[q] = sess[q]
    BY <1>2, <1>3 DEF EntityIInv
  <2>2. clone.at = "ready" => clone'.at = "ready"
    BY DEF StepOf, CloneStep
  <2>3. wt[q].on => Head(q)' = Head(q)
    BY <1>5
  <2>4. TreeFits(q)'
    BY <2>1, <2>2, <2>3 DEF TreeFits
  <2>5. Held(q)' = Held(q)
    BY <2>1, <2>3 DEF Held
  <2>6. SessionFits(q)'
    BY <2>1, <2>5 DEF SessionFits, Fits
  <2> QED  BY <2>4, <2>6
<1>7. BranchesApart'
  <2> SUFFICES ASSUME NEW q \in Projects, NEW r \in Projects, wt'[q].on, wt'[r].on,
                      Branch(q) = Branch(r)
               PROVE  q = r
    BY <1>1 DEF BranchesApart, Branch
  <2>1. \A x \in Projects \ {p} : wt'[x].on => wt[x].on
    BY <1>2
  <2>2. wt'[p].on => wt[p].on \/ ~CheckedOut(Branch(p))
    BY DEF StepOf, TreeStep
  <2>3. CASE q # p /\ r # p
    BY <2>1, <2>3 DEF EntityIInv, BranchesApart
  <2>4. CASE q = p
    BY <2>1, <2>2, <2>4 DEF EntityIInv, BranchesApart, CheckedOut
  <2>5. CASE r = p
    BY <2>1, <2>2, <2>5 DEF EntityIInv, BranchesApart, CheckedOut
  <2> QED  BY <2>3, <2>4, <2>5
<1>8. TreeFits(p)' /\ SessionFits(p)'
  BY DEF StepOf, TreeStep, SessionStep
<1> QED  BY <1>1, <1>4, <1>6, <1>7, <1>8 DEF EntityIInv

\* And loses no work.
Survival ==
  \A c \in made :
    /\ Remote(c) => Remote(c)'
    /\ Local(c) => \/ Local(c)'
                   \/ \E p \in Projects : wt[p].on /\ ~wt'[p].on
                                           /\ c \in Head(p) \union wt[p].dirty \union wt[p].staged
                   \/ \E p \in Projects : c \in wt[p].staged /\ wt[p].theirs # {}
                                            /\ wt'[p].theirs = {}

LEMMA StepOfSurvives ==
  ASSUME EntityIInv, NEW p \in Projects, StepOf(p)
  PROVE  Survival
<1> SUFFICES ASSUME NEW c \in made
             PROVE  /\ Remote(c) => Remote(c)'
                    /\ Local(c) => \/ Local(c)'
                                   \/ \E q \in Projects : wt[q].on /\ ~wt'[q].on
                                                            /\ c \in Head(q) \union wt[q].dirty \union wt[q].staged
                                   \/ \E q \in Projects : c \in wt[q].staged /\ wt[q].theirs # {}
                                                            /\ wt'[q].theirs = {}
  BY DEF Survival
<1>1. Remote(c) => Remote(c)'
  BY DEF StepOf, OriginStep, OriginGrows, Remote
<1>2. /\ slug' = slug /\ slug \in [Projects -> Slugs] /\ wt \in [Projects -> Trees]
      /\ wt' = [wt EXCEPT ![p] = wt'[p]]
      /\ \A b \in Slugs \ {Branch(p)} : clone'.branch[b] = clone.branch[b]
  BY DEF EntityIInv, EntityTypes, StepOf, TreeStep, CloneStep
<1>3. Branch(p) \in Slugs /\ Head(p) = clone.branch[Branch(p)] /\ Head(p)' = clone'.branch[Branch(p)]
  BY <1>2 DEF Branch, Head
<1>4. CASE wt[p].on /\ ~wt'[p].on
  <2>1. clone.main \subseteq clone'.main
    BY DEF StepOf, Keeps
  <2>2. CASE c \in Head(p) \union wt[p].dirty \union wt[p].staged
    BY <1>1, <1>4, <2>2
  <2>3. CASE c \notin Head(p) \union wt[p].dirty \union wt[p].staged
    <3>1. \A q \in Projects \ {p} : wt'[q] = wt[q]
      BY <1>2
    <3>2. Local(c) => Local(c)'
      BY <1>2, <1>3, <2>1, <2>3, <3>1 DEF Local
    <3> QED  BY <1>1, <3>2
  <2> QED  BY <2>2, <2>3
<1>5. CASE ~(wt[p].on /\ ~wt'[p].on)
  <2>1. /\ clone.main \subseteq clone'.main
        /\ Head(p) # NoBranch => Head(p)' # NoBranch /\ Head(p) \subseteq Head(p)'
        /\ \A d \in wt[p].dirty \union wt[p].staged :
             \/ d \in wt'[p].dirty \union wt'[p].staged
             \/ Head(p)' # NoBranch /\ d \in Head(p)'
             \/ d \in wt[p].staged /\ wt[p].theirs # {} /\ wt'[p].theirs = {}
    BY <1>5 DEF StepOf, Keeps
  <2>4. CASE c \in clone.main
    BY <1>1, <2>1, <2>4 DEF Local
  <2>5. CASE \E b \in Slugs : clone.branch[b] # NoBranch /\ c \in clone.branch[b]
    <3>1. \E b \in Slugs : clone'.branch[b] # NoBranch /\ c \in clone'.branch[b]
      BY <2>1, <1>2, <1>3, <2>5
    <3> QED  BY <1>1, <3>1 DEF Local
  <2>6. CASE \E q \in Projects : c \in wt[q].dirty \union wt[q].staged
    <3>1. PICK q \in Projects : c \in wt[q].dirty \union wt[q].staged
      BY <2>6
    <3>2. CASE q # p
      <4>1. wt'[q] = wt[q]
        BY <1>2, <3>2
      <4> QED  BY <1>1, <3>1, <4>1 DEF Local
    <3>3. CASE q = p
      <4>1. CASE c \in wt'[p].dirty \union wt'[p].staged
        BY <1>1, <4>1 DEF Local
      <4>2. CASE Head(p)' # NoBranch /\ c \in Head(p)'
        BY <1>1, <1>3, <4>2 DEF Local
      <4>3. CASE c \in wt[p].staged /\ wt[p].theirs # {} /\ wt'[p].theirs = {}
        BY <1>1, <4>3
      <4> QED  BY <2>1, <3>1, <3>3, <4>1, <4>2, <4>3
    <3> QED  BY <3>2, <3>3
  <2> QED  BY <1>1, <2>4, <2>5, <2>6 DEF Local
<1> QED  BY <1>4, <1>5

\* The parts of a step that changes nothing there.
LEMMA SameOrigin ==
  ASSUME EntityIInv, origin' = origin, made \subseteq made'
  PROVE  OriginStep
<1>1. origin \in Origins'
  BY MoreMade DEF EntityIInv, EntityTypes
<1> QED  BY <1>1 DEF OriginStep, OriginGrows

LEMMA SameClone ==
  ASSUME EntityIInv, NEW p \in Projects, clone' = clone, slug' = slug, made \subseteq made'
  PROVE  CloneStep(p) /\ Head(p)' = Head(p)
<1>1. clone \in Clones'
  BY MoreMade DEF EntityIInv, EntityTypes
<1>2. CloneFits'
  BY DEF EntityIInv, CloneFits
<1> QED  BY <1>1, <1>2 DEF CloneStep, Head, Branch

LEMMA SameTree ==
  ASSUME EntityIInv, NEW p \in Projects, wt' = wt, CloneStep(p), made \subseteq made',
         wt[p].on => Head(p)' # NoBranch
  PROVE  TreeStep(p)
<1>1. TreeFits(p) /\ wt \in [Projects -> Trees] /\ wt[p] \in Trees'
  BY MoreMade DEF EntityIInv, EntityTypes
<1>2. TreeFits(p)'
  BY <1>1 DEF TreeFits, CloneStep
<1> QED  BY <1>1, <1>2 DEF TreeStep

LEMMA SameSession ==
  ASSUME EntityIInv, NEW p \in Projects, sess' = sess, made \subseteq made',
         sess[p].edits \intersect Held(p) \subseteq Held(p)'
  PROVE  SessionStep(p)
<1>1. SessionFits(p) /\ sess \in [Projects -> Sessions] /\ sess[p] \in Sessions'
  BY MoreMade DEF EntityIInv, EntityTypes
<1>2. SessionFits(p)'
  BY <1>1 DEF SessionFits, Fits
<1> QED  BY <1>1, <1>2 DEF SessionStep

\* A branch of the clone moves.
LEMMA BranchMoves ==
  ASSUME EntityIInv, NEW p \in Projects, NEW h, h \in Heads', slug' = slug,
         made \subseteq made', clone' \in Clones', clone.at = "ready",
         clone'.at = "ready", clone'.branch = [clone.branch EXCEPT ![Branch(p)] = h],
         wt[p].on \/ ~CheckedOut(Branch(p)) \/ h = Head(p)
  PROVE  CloneStep(p) /\ Head(p)' = h
<1>1. clone.branch \in [Slugs -> Heads] /\ Branch(p) \in Slugs
  BY DEF EntityIInv, EntityTypes, Clones, Branch
<1>2. clone'.branch[Branch(p)] = h /\ \A b \in Slugs \ {Branch(p)} : clone'.branch[b] = clone.branch[b]
  BY <1>1
<1>3. CloneFits'
  BY DEF CloneFits
<1> QED  BY <1>2, <1>3 DEF CloneStep, Head, Branch

\* The commits of a branch, and what a project's worktree has.
LEMMA TypesOf ==
  ASSUME EntityIInv, NEW p \in Projects
  PROVE  /\ wt[p] \in Trees /\ sess[p] \in Sessions /\ clone \in Clones /\ origin \in Origins
         /\ Branch(p) \in Slugs /\ Head(p) \in Heads /\ made \subseteq Commits
         /\ TreeFits(p) /\ SessionFits(p)
         /\ Head(p) # NoBranch => Head(p) \subseteq made
         /\ wt[p].on => Head(p) \subseteq made /\ Head(p) # NoBranch /\ clone.at = "ready"
BY DEF EntityIInv, EntityTypes, Clones, Branch, Head, Heads, TreeFits

\* attach
LEMMA CloningStep ==
  ASSUME EntityIInv, NEW p \in Projects, EndClone(p) \/ (StartClone(p) /\ UNCHANGED <<slug, origin, wt, sess, made>>)
  PROVE  StepOf(p)
<1>1. UNCHANGED <<slug, origin, wt, sess, made>> /\ clone.at # "ready"
  BY DEF EndClone, StartClone
<1>2. ~wt[p].on
  BY <1>1, TypesOf
<1>3. /\ clone' \in Clones /\ CloneFits' /\ clone'.branch = clone.branch /\ clone.main \subseteq clone'.main
  <2>1. clone \in Clones /\ origin \in Origins /\ CloneFits
    BY DEF EntityIInv, EntityTypes
  <2>2. CASE clone' = [clone EXCEPT !.at = "partial", !.by = p]
    BY <1>1, <2>1, <2>2 DEF Clones, CloneFits
  <2>3. CASE clone' = [clone EXCEPT !.at = "ready", !.by = Nobody, !.main = origin.main]
    BY <1>1, <2>1, <2>3 DEF Clones, Origins, CloneFits
  <2>4. CASE clone' = [clone EXCEPT !.at = "absent", !.by = Nobody]
    BY <1>1, <2>1, <2>4 DEF Clones, CloneFits
  <2> QED  BY <2>2, <2>3, <2>4 DEF EndClone, StartClone
<1>4. CloneStep(p) /\ Head(p)' = Head(p)
  BY <1>1, <1>3, MoreMade DEF CloneStep, Head, Branch
<1>5. TreeStep(p)
  BY <1>1, <1>2, <1>4, SameTree
<1>6. SessionStep(p)
  <2>1. Held(p)' = Held(p)
    BY <1>1, <1>4 DEF Held
  <2> QED  BY <1>1, <2>1, SameSession
<1>7. Keeps(p)
  BY <1>1, <1>3, <1>4 DEF Keeps
<1>8. OriginStep /\ made \subseteq Commits
  BY <1>1, SameOrigin DEF EntityIInv, EntityTypes
<1> QED  BY <1>1, <1>4, <1>5, <1>6, <1>7, <1>8 DEF StepOf

LEMMA AddWorktreeStep ==
  ASSUME EntityIInv, NEW p \in Projects, AddWorktree(p), UNCHANGED <<slug, origin, sess, made>>
  PROVE  StepOf(p)
<1> DEFINE h == IF Head(p) = NoBranch THEN clone.main ELSE Head(p)
           w == [Bare EXCEPT !.on = TRUE]
<1>1. clone.at = "ready" /\ ~wt[p].on /\ ~CheckedOut(Branch(p)) /\ wt' = [wt EXCEPT ![p] = w]
  BY DEF AddWorktree, With
<1>2. /\ wt[p] = Bare /\ clone \in Clones /\ Branch(p) \in Slugs /\ Head(p) \in Heads
      /\ made \subseteq Commits /\ wt \in [Projects -> Trees] /\ SessionFits(p)
  BY <1>1, TypesOf DEF TreeFits, EntityIInv, EntityTypes
<1>3. h \in Heads /\ h # NoBranch
  BY <1>2, CommitsAreNot DEF Heads, Clones
<1>4. clone' \in Clones /\ clone'.at = "ready" /\ clone'.branch = [clone.branch EXCEPT ![Branch(p)] = h]
      /\ clone'.main = clone.main
  <2>1. CASE Head(p) = NoBranch
    <3>1. clone' = [clone EXCEPT !.branch[Branch(p)] = h]
      BY <2>1 DEF AddWorktree
    <3> HIDE DEF h
    <3> QED  BY <1>1, <1>2, <1>3, <3>1 DEF Clones
  <2>2. CASE Head(p) # NoBranch
    <3>1. clone' = clone /\ h = clone.branch[Branch(p)]
      BY <2>2 DEF AddWorktree, Head
    <3> HIDE DEF h
    <3> QED  BY <1>1, <1>2, <3>1 DEF Clones
  <2> QED  BY <2>1, <2>2
<1> HIDE DEF h
<1>5. CloneStep(p) /\ Head(p)' = h
  BY <1>1, <1>3, <1>4, MoreMade, BranchMoves
<1>6. w \in Trees /\ w.on /\ w.ask = "none" /\ w.theirs = {} /\ w.dirty = {} /\ w.staged = {}
  BY DEF Bare, Trees
<1> HIDE DEF w
<1>7. wt'[p] = w
  BY <1>1, <1>2
<1>8. TreeStep(p)
  <2>1. TreeFits(p)'
    BY <1>3, <1>4, <1>5, <1>6, <1>7 DEF TreeFits
  <2>2. w \in Trees'
    BY <1>6, MoreMade
  <2> QED  BY <1>1, <1>7, <2>1, <2>2 DEF TreeStep
<1>9. SessionStep(p)
  <2>1. Held(p) = {}
    BY <1>1, <1>2 DEF Held, Bare
  <2> QED  BY <2>1, SameSession
<1>10. Keeps(p)
  <2>1. wt[p].dirty \union wt[p].staged = {}
    BY <1>2 DEF Bare
  <2>2. Head(p) # NoBranch => Head(p)' # NoBranch /\ Head(p) \subseteq Head(p)'
    BY <1>5 DEF h
  <2> QED  BY <1>4, <2>1, <2>2 DEF Keeps
<1>11. OriginStep
  BY SameOrigin
<1> QED  BY <1>2, <1>5, <1>8, <1>9, <1>10, <1>11 DEF StepOf

\* detach: the session's edits are lost.
LEMMA DetachStep ==
  ASSUME EntityIInv, NEW p \in Projects, NEW force \in BOOLEAN, Detach(p, force)
  PROVE  StepOf(p)
<1>1. /\ wt[p].on /\ wt' = [wt EXCEPT ![p] = Bare]
      /\ clone' = [clone EXCEPT !.branch[Branch(p)] = NoBranch] \/ clone' = clone
      /\ sess' = [sess EXCEPT ![p].gone = @ \union sess[p].edits]
      /\ UNCHANGED <<slug, origin, made>>
  BY DEF Detach, With, Advance
<1>2. /\ clone \in Clones /\ Branch(p) \in Slugs /\ clone.at = "ready" /\ NoBranch \in Heads
      /\ made \subseteq Commits /\ wt \in [Projects -> Trees] /\ sess \in [Projects -> Sessions]
      /\ SessionFits(p)
  BY <1>1, TypesOf DEF EntityIInv, EntityTypes, Heads
<1>3. ASSUME clone' # clone
      PROVE  /\ clone' \in Clones /\ clone'.at = "ready"
             /\ clone'.branch = [clone.branch EXCEPT ![Branch(p)] = NoBranch]
  BY <1>1, <1>2, <1>3 DEF Clones
<1>4. CloneStep(p)
  <2>1. CASE clone' # clone
    BY <1>1, <1>2, <1>3, <2>1, MoreMade, BranchMoves
  <2>2. CASE clone' = clone
    BY <1>1, <2>2, SameClone
  <2> QED  BY <2>1, <2>2
<1>5. Bare \in Trees /\ ~Bare.on /\ Bare.ask = "none" /\ Bare.theirs = {} /\ Bare.dirty = {} /\ Bare.staged = {}
  BY DEF Bare, Trees
<1>6. wt'[p] = Bare
  BY <1>1, <1>2
<1>7. TreeStep(p)
  <2>1. TreeFits(p)'
    BY <1>5, <1>6 DEF TreeFits
  <2>2. Bare \in Trees'
    BY <1>1, <1>5, MoreMade
  <2> QED  BY <1>1, <1>5, <1>6, <2>1, <2>2 DEF TreeStep
<1>8. SessionStep(p)
  <2> DEFINE s == [sess[p] EXCEPT !.gone = @ \union sess[p].edits]
  <2>1. /\ s \in Sessions /\ s.pc = sess[p].pc /\ s.how = sess[p].how /\ s.base = sess[p].base
        /\ s.edits = sess[p].edits /\ s.shown = sess[p].shown /\ s.digest = sess[p].digest
        /\ s.gone = sess[p].gone \union sess[p].edits
    BY <1>2 DEF Sessions
  <2>2. sess' = [sess EXCEPT ![p] = s] /\ sess'[p] = s
    BY <1>1, <1>2
  <2> HIDE DEF s
  <2>3. SessionFits(p)'
    BY <1>2, <2>1, <2>2 DEF SessionFits, Fits
  <2>4. s \in Sessions'
    BY <1>1, <2>1, MoreMade
  <2> QED  BY <2>2, <2>3, <2>4 DEF SessionStep
<1>9. Keeps(p)
  <2>1. clone'.main = clone.main
    BY <1>1, <1>2 DEF Clones
  <2> QED  BY <1>1, <1>5, <1>6, <2>1 DEF Keeps
<1>10. OriginStep
  BY <1>1, SameOrigin
<1> QED  BY <1>1, <1>2, <1>4, <1>7, <1>8, <1>9, <1>10 DEF StepOf

\* push and pull
LEMMA PushStep ==
  ASSUME EntityIInv, NEW p \in Projects, Push(p)
  PROVE  StepOf(p)
<1>1. /\ wt[p].on /\ UNCHANGED <<slug, clone, wt, sess, made>>
      /\ origin.branch[Branch(p)] = NoBranch \/ origin.branch[Branch(p)] \subseteq Head(p)
      /\ origin' = [origin EXCEPT !.branch[Branch(p)] = Head(p)]
  BY DEF Push
<1>2. origin \in Origins /\ Branch(p) \in Slugs /\ Head(p) \in Heads /\ Head(p) # NoBranch /\ made \subseteq Commits
  BY <1>1, TypesOf
<1>3. /\ origin' \in Origins /\ origin'.main = origin.main
      /\ origin'.branch = [origin.branch EXCEPT ![Branch(p)] = Head(p)]
  BY <1>1, <1>2 DEF Origins
<1>4. OriginStep
  <2>1. origin.branch \in [Slugs -> Heads]
    BY <1>2 DEF Origins
  <2>2. OriginGrows
    BY <1>1, <1>2, <1>3, <2>1 DEF OriginGrows
  <2>3. origin' \in Origins'
    BY <1>1, <1>3, MoreMade
  <2> QED  BY <2>2, <2>3 DEF OriginStep
<1>5. CloneStep(p) /\ Head(p)' = Head(p)
  BY <1>1, SameClone
<1>6. TreeStep(p)
  BY <1>1, <1>2, <1>5, SameTree
<1>7. SessionStep(p)
  <2>1. Held(p)' = Held(p)
    BY <1>1, <1>5 DEF Held
  <2> QED  BY <1>1, <2>1, SameSession
<1>8. Keeps(p)
  BY <1>1, <1>5 DEF Keeps
<1> QED  BY <1>1, <1>2, <1>4, <1>5, <1>6, <1>7, <1>8 DEF StepOf

LEMMA FastForwardStep ==
  ASSUME EntityIInv, NEW p \in Projects, FastForward(p)
  PROVE  StepOf(p)
<1> DEFINE h == origin.branch[Branch(p)]
<1>1. /\ wt[p].on /\ h # NoBranch /\ Head(p) \ h = {}
      /\ clone' = [clone EXCEPT !.branch[Branch(p)] = h]
      /\ UNCHANGED <<slug, origin, wt, sess, made>>
  BY DEF FastForward, Comparable, LocalOnly, Advance
<1>2. /\ origin \in Origins /\ clone \in Clones /\ clone.at = "ready" /\ Branch(p) \in Slugs
      /\ made \subseteq Commits
  BY <1>1, TypesOf
<1>3. h \in Heads
  BY <1>2 DEF Origins
<1> HIDE DEF h
<1>4. /\ clone' \in Clones /\ clone'.at = "ready" /\ clone'.main = clone.main
      /\ clone'.branch = [clone.branch EXCEPT ![Branch(p)] = h]
  BY <1>1, <1>2, <1>3 DEF Clones
<1>5. CloneStep(p) /\ Head(p)' = h
  BY <1>1, <1>2, <1>3, <1>4, MoreMade, BranchMoves
<1>6. TreeStep(p)
  BY <1>1, <1>5, SameTree
<1>7. SessionStep(p)
  <2>1. Held(p) \subseteq Held(p)'
    BY <1>1, <1>5 DEF Held
  <2> QED  BY <1>1, <2>1, SameSession
<1>8. Keeps(p)
  BY <1>1, <1>4, <1>5 DEF Keeps
<1>9. OriginStep
  BY <1>1, SameOrigin
<1> QED  BY <1>1, <1>2, <1>5, <1>6, <1>7, <1>8, <1>9 DEF StepOf

\* A worktree changes, and no branch.
LEMMA WorktreeStep ==
  ASSUME EntityIInv, NEW p \in Projects, wt[p].on,
         clone' \in Clones, clone'.at = clone.at, clone'.main = clone.main, clone'.branch = clone.branch,
         UNCHANGED <<slug, origin, made>>,
         NEW w \in Trees, wt' = [wt EXCEPT ![p] = w], w.on,
         w.ask # "none" <=> w.theirs # {},
         w.dirty \union w.staged \subseteq wt[p].dirty \union wt[p].staged,
         \/ sess' = sess
         \/ sess' = [sess EXCEPT ![p].gone = @ \union wt[p].staged],
         \A c \in wt[p].dirty \union wt[p].staged :
           \/ c \in w.dirty \union w.staged
           \/ c \in wt[p].staged /\ wt[p].theirs # {} /\ w.theirs = {} /\ sess'[p].gone = sess[p].gone \union wt[p].staged
  PROVE  StepOf(p)
<1>1. /\ wt \in [Projects -> Trees] /\ sess \in [Projects -> Sessions] /\ TreeFits(p) /\ SessionFits(p)
      /\ made \subseteq Commits /\ Head(p) # NoBranch /\ clone.at = "ready"
  BY TypesOf DEF EntityIInv, EntityTypes
<1>2. wt'[p] = w /\ OriginStep
  BY <1>1, SameOrigin
<1>3. CloneStep(p) /\ Head(p)' = Head(p)
  <2>1. CloneFits'
    BY DEF EntityIInv, CloneFits
  <2>2. Head(p)' = Head(p)
    BY DEF Head, Branch
  <2> QED  BY <2>1, <2>2, MoreMade DEF CloneStep
<1>4. TreeStep(p)
  <2>1. TreeFits(p)'
    BY <1>1, <1>2, <1>3 DEF TreeFits
  <2>2. w \in Trees'
    BY MoreMade
  <2> QED  BY <1>2, <2>1, <2>2 DEF TreeStep
<1>5. SessionStep(p)
  <2>1. CASE sess' = sess
    <3>1. \A c \in wt[p].dirty \union wt[p].staged : c \in w.dirty \union w.staged \/ c \in sess[p].gone
      BY <1>1, <2>1
    <3>2. Held(p) \subseteq Held(p)' \union sess[p].gone
      BY <1>2, <1>3, <3>1 DEF Held
    <3>3. SessionFits(p)'
      BY <1>1, <2>1, <3>2 DEF SessionFits, Fits
    <3>4. sess[p] \in Sessions'
      BY <1>1, MoreMade
    <3> QED  BY <1>1, <2>1, <3>3, <3>4 DEF SessionStep
  <2>2. CASE sess' = [sess EXCEPT ![p].gone = @ \union wt[p].staged]
    <3> DEFINE s == [sess[p] EXCEPT !.gone = @ \union wt[p].staged]
    <3>1. /\ s \in Sessions /\ s.pc = sess[p].pc /\ s.how = sess[p].how /\ s.base = sess[p].base
          /\ s.edits = sess[p].edits /\ s.shown = sess[p].shown /\ s.digest = sess[p].digest
          /\ s.gone = sess[p].gone \union wt[p].staged
      <4>1. sess[p] \in Sessions /\ wt[p].staged \subseteq made
        BY <1>1 DEF Trees
      <4> QED  BY <4>1 DEF Sessions
    <3>2. sess' = [sess EXCEPT ![p] = s] /\ sess'[p] = s
      BY <1>1, <2>2
    <3> HIDE DEF s
    <3>3. Held(p) \subseteq Held(p)' \union s.gone
      BY <1>2, <1>3, <3>1 DEF Held
    <3>4. SessionFits(p)'
      BY <1>1, <3>1, <3>2, <3>3 DEF SessionFits, Fits
    <3>5. s \in Sessions'
      BY <3>1, MoreMade
    <3> QED  BY <3>2, <3>4, <3>5 DEF SessionStep
  <2> QED  BY <2>1, <2>2
<1>6. Keeps(p)
  BY <1>2, <1>3 DEF Keeps
<1> QED  BY <1>1, <1>2, <1>3, <1>4, <1>5, <1>6 DEF StepOf

LEMMA StartMergeStep ==
  ASSUME EntityIInv, NEW p \in Projects, NEW pull \in BOOLEAN, StartMerge(p, pull)
  PROVE  StepOf(p)
<1> DEFINE want == IF pull THEN Incoming(p) ELSE {}
           w == [wt[p] EXCEPT !.want = want]
<1>1. /\ wt[p].on
      /\ pull => origin.branch[Branch(p)] # NoBranch
      /\ clone' = [clone EXCEPT !.source = p] /\ wt' = [wt EXCEPT ![p] = w]
      /\ UNCHANGED <<slug, origin, sess, made>>
  BY DEF StartMerge, With, Comparable
<1>2. wt[p] \in Trees /\ clone \in Clones /\ TreeFits(p) /\ origin \in Origins /\ Branch(p) \in Slugs
  BY TypesOf
<1>3. want \subseteq made
  <2>1. CASE pull
    <3>1. origin.branch[Branch(p)] \in Heads /\ origin.branch[Branch(p)] # NoBranch
      BY <1>1, <1>2, <2>1 DEF Origins
    <3> QED  BY <2>1, <3>1 DEF Incoming, Heads
  <2>2. CASE ~pull
    BY <2>2
  <2> QED  BY <2>1, <2>2
<1> HIDE DEF want
<1>4. /\ w \in Trees /\ w.on = wt[p].on /\ w.ask = wt[p].ask /\ w.theirs = wt[p].theirs /\ w.dirty = wt[p].dirty
      /\ w.staged = wt[p].staged
  BY <1>2, <1>3 DEF Trees
<1> HIDE DEF w
<1>5. clone' \in Clones /\ clone'.at = clone.at /\ clone'.main = clone.main /\ clone'.branch = clone.branch
  BY <1>1, <1>2 DEF Clones
<1>6. w.ask # "none" <=> w.theirs # {}
  BY <1>2, <1>4 DEF TreeFits
<1> QED  BY <1>1, <1>4, <1>5, <1>6, WorktreeStep

LEMMA MergeKilledStep ==
  ASSUME EntityIInv, NEW p \in Projects, MergeKilled(p)
  PROVE  StepOf(p)
<1>1. clone' = [clone EXCEPT !.source = "killed"] /\ UNCHANGED <<slug, origin, wt, sess, made>>
  BY DEF MergeKilled
<1>2. clone \in Clones /\ CloneFits /\ made \subseteq Commits
  BY DEF EntityIInv, EntityTypes
<1>3. clone' \in Clones /\ clone'.at = clone.at /\ clone'.main = clone.main /\ clone'.branch = clone.branch
  BY <1>1, <1>2 DEF Clones
<1>4. Head(p)' = Head(p)
  BY <1>1, <1>3 DEF Head, Branch
<1>5. CloneStep(p)
  <2>1. CloneFits'
    BY <1>2, <1>3 DEF CloneFits
  <2> QED  BY <1>1, <1>3, <2>1, MoreMade DEF CloneStep
<1>6. TreeStep(p)
  BY <1>1, <1>4, <1>5, TypesOf, SameTree
<1>7. SessionStep(p)
  <2>1. Held(p)' = Held(p)
    BY <1>1, <1>4 DEF Held
  <2> QED  BY <1>1, <2>1, SameSession
<1>8. Keeps(p)
  BY <1>1, <1>3, <1>4 DEF Keeps
<1>9. OriginStep
  BY <1>1, SameOrigin
<1> QED  BY <1>1, <1>2, <1>5, <1>6, <1>7, <1>8, <1>9 DEF StepOf

\* A commit: of what is staged, or of all there is, with a merge in progress.
LEMMA CommitParts ==
  ASSUME EntityIInv, NEW p \in Projects, wt[p].on, slug' = slug, made \subseteq made',
         NEW h \in SUBSET made', made' \subseteq Commits, NEW what \in SUBSET Everything(p),
         Head(p) \union what \subseteq h,
         clone' \in Clones', clone'.at = clone.at, clone'.main = clone.main,
         clone'.branch = [clone.branch EXCEPT ![Branch(p)] = h],
         wt' = [wt EXCEPT ![p] = wt'[p]], wt'[p] \in Trees', wt'[p].on,
         wt'[p].ask # "none" <=> wt'[p].theirs # {}, wt'[p].dirty = wt[p].dirty \ what, wt'[p].staged = wt[p].staged \ what
  PROVE  /\ CloneStep(p) /\ TreeStep(p) /\ Keeps(p) /\ Head(p)' = h
         /\ Held(p) \subseteq Held(p)'
         /\ Held(p)' = wt'[p].dirty \union wt'[p].staged \union h
<1>1. /\ wt \in [Projects -> Trees] /\ TreeFits(p) /\ clone.at = "ready"
      /\ Head(p) \subseteq made /\ Head(p) # NoBranch /\ made \subseteq Commits /\ wt[p] \in Trees
  BY TypesOf DEF EntityIInv, EntityTypes
<1>2. h \in Heads' /\ h # NoBranch
  BY Hashes DEF Heads, NoBranch
<1>3. CloneStep(p) /\ Head(p)' = h
  BY <1>1, <1>2, BranchMoves
<1>4. TreeFits(p)'
  BY <1>1, <1>2, <1>3 DEF TreeFits
<1>5. TreeStep(p)
  BY <1>4 DEF TreeStep
<1>6. Held(p)' = wt'[p].dirty \union wt'[p].staged \union h
  BY <1>3 DEF Held
<1>7. Held(p) \subseteq Held(p)'
  BY <1>6 DEF Held
<1>8. Keeps(p)
  BY <1>2, <1>3 DEF Keeps
<1> QED  BY <1>3, <1>5, <1>6, <1>7, <1>8

LEMMA CommittedParts ==
  ASSUME EntityIInv, NEW p \in Projects, wt[p].on, slug' = slug,
         NEW merges \in SUBSET Merges, NEW what \in SUBSET Everything(p), Committed(p, what, merges)
  PROVE  /\ made \subseteq made' /\ made' \subseteq Commits /\ CloneStep(p) /\ TreeStep(p) /\ Keeps(p)
         /\ Held(p) \subseteq Held(p)' /\ Head(p) \union what \subseteq Held(p)'
<1> DEFINE h == Head(p) \union what \union wt[p].theirs \union merges
           w == [wt[p] EXCEPT !.dirty = @ \ what, !.staged = @ \ what, !.theirs = {}, !.ask = "none", !.want = {}]
<1>1. clone' = [clone EXCEPT !.branch[Branch(p)] = h] /\ made' = made \union merges /\ wt' = [wt EXCEPT ![p] = w]
  BY DEF Committed, Advance, With
<1>2. /\ wt[p] \in Trees /\ clone \in Clones /\ Branch(p) \in Slugs /\ Head(p) \subseteq made /\ made \subseteq Commits
      /\ wt \in [Projects -> Trees]
  BY TypesOf DEF EntityIInv, EntityTypes
<1>3. h \in SUBSET made' /\ made \subseteq made' /\ made' \subseteq Commits /\ Head(p) \union what \subseteq h
  BY <1>1, <1>2 DEF Trees, Everything, Commits
<1> HIDE DEF h
<1>4. clone \in Clones' /\ h \in Heads'
  BY <1>2, <1>3, MoreMade DEF Heads
<1>5. /\ clone' \in Clones' /\ clone'.at = clone.at /\ clone'.main = clone.main
      /\ clone'.branch = [clone.branch EXCEPT ![Branch(p)] = h]
  BY <1>1, <1>2, <1>4 DEF Clones
<1>6. /\ w \in Trees /\ w.on /\ w.theirs = {} /\ w.ask = "none"
      /\ w.dirty = wt[p].dirty \ what /\ w.staged = wt[p].staged \ what
  BY <1>2 DEF Trees
<1>7. w \in Trees'
  BY <1>3, <1>6, MoreMade
<1> HIDE DEF w
<1>8. wt'[p] = w
  BY <1>1, <1>2
<1>9. /\ CloneStep(p) /\ TreeStep(p) /\ Keeps(p) /\ Held(p) \subseteq Held(p)'
      /\ Held(p)' = wt'[p].dirty \union wt'[p].staged \union h
  <2>1. wt' = [wt EXCEPT ![p] = wt'[p]]
    BY <1>1, <1>8
  <2>2. /\ wt'[p] \in Trees' /\ wt'[p].on /\ (wt'[p].ask # "none" <=> wt'[p].theirs # {})
        /\ wt'[p].dirty = wt[p].dirty \ what /\ wt'[p].staged = wt[p].staged \ what
    BY <1>6, <1>7, <1>8
  <2>3. h \in SUBSET made'
    BY <1>3
  <2>4. wt[p].on /\ slug' = slug /\ what \in SUBSET Everything(p)
    OBVIOUS
  <2> QED  BY ONLY EntityIInv, p \in Projects, <1>3, <1>5, <2>1, <2>2, <2>3, <2>4, CommitParts
<1> QED  BY <1>3, <1>9

\* merge from its fetch on
LEMMA MergeFetchedStep ==
  ASSUME EntityIInv, NEW p \in Projects, MergeFetched(p)
  PROVE  StepOf(p)
<1> DEFINE theirs == origin.main \ Head(p)
<1>1. wt[p].on /\ UNCHANGED <<slug, origin, sess>>
  BY DEF MergeFetched
<1>2. /\ wt[p] \in Trees /\ clone \in Clones /\ origin \in Origins /\ Branch(p) \in Slugs /\ TreeFits(p)
      /\ Head(p) \subseteq made /\ made \subseteq Commits /\ wt \in [Projects -> Trees]
  BY <1>1, TypesOf DEF EntityIInv, EntityTypes
<1>3. theirs \subseteq made
  BY <1>2 DEF Origins
<1>4. CASE /\ theirs = {} /\ clone' = [clone EXCEPT !.source = Nobody]
           /\ wt' = [wt EXCEPT ![p] = [wt[p] EXCEPT !.want = {}]] /\ UNCHANGED made
  <2> DEFINE w == [wt[p] EXCEPT !.want = {}]
  <2>1. /\ w \in Trees /\ w.on = wt[p].on /\ w.ask = wt[p].ask /\ w.theirs = wt[p].theirs
        /\ w.dirty = wt[p].dirty /\ w.staged = wt[p].staged
    BY <1>2 DEF Trees
  <2>2. wt' = [wt EXCEPT ![p] = w]
    BY <1>4
  <2> HIDE DEF w
  <2>3. clone' \in Clones /\ clone'.at = clone.at /\ clone'.main = clone.main /\ clone'.branch = clone.branch
    BY <1>2, <1>4 DEF Clones
  <2>4. (w.ask # "none" <=> w.theirs # {}) /\ made' = made
    BY <1>2, <1>4, <2>1 DEF TreeFits
  <2> QED  BY <1>1, <2>1, <2>2, <2>3, <2>4, WorktreeStep
<1>5. CASE \E m \in Merges \ made :
             /\ clone' = [clone EXCEPT !.source = Nobody,
                  !.branch[Branch(p)] = @ \union theirs \union Everything(p) \union {m}]
             /\ made' = made \union {m}
             /\ wt' = [wt EXCEPT ![p] = [wt[p] EXCEPT !.dirty = {}, !.staged = {}, !.want = {}]]
  <2> PICK m \in Merges \ made :
             /\ clone' = [clone EXCEPT !.source = Nobody,
                  !.branch[Branch(p)] = @ \union theirs \union Everything(p) \union {m}]
             /\ made' = made \union {m}
             /\ wt' = [wt EXCEPT ![p] = [wt[p] EXCEPT !.dirty = {}, !.staged = {}, !.want = {}]]
    BY <1>5
  <2> DEFINE h == Head(p) \union theirs \union Everything(p) \union {m}
             w == [wt[p] EXCEPT !.dirty = {}, !.staged = {}, !.want = {}]
  <2>1. /\ w \in Trees /\ w.on = wt[p].on /\ w.ask = wt[p].ask /\ w.theirs = wt[p].theirs
        /\ w.dirty = {} /\ w.staged = {}
    BY <1>2 DEF Trees
  <2>2. wt' = [wt EXCEPT ![p] = w] /\ wt'[p] = w
    BY <1>2
  <2> HIDE DEF w
  <2>3. /\ h \in SUBSET made' /\ made \subseteq made' /\ made' \subseteq Commits
        /\ Head(p) \union Everything(p) \subseteq h
    BY <1>2, <1>3 DEF Everything, Trees, Commits
  <2>4. clone' = [clone EXCEPT !.source = Nobody, !.branch[Branch(p)] = h]
    BY DEF Head
  <2> HIDE DEF h
  <2>5. clone \in Clones' /\ h \in Heads' /\ w \in Trees'
    BY <1>2, <2>1, <2>3, MoreMade DEF Heads
  <2>6. /\ clone' \in Clones' /\ clone'.at = clone.at /\ clone'.main = clone.main
        /\ clone'.branch = [clone.branch EXCEPT ![Branch(p)] = h]
    <3> DEFINE b == [clone.branch EXCEPT ![Branch(p)] = h]
    <3>1. b \in [Slugs -> Heads']
      BY <1>2, <2>5 DEF Clones
    <3>2. clone' = [clone EXCEPT !.source = Nobody, !.branch = b]
      BY <2>4
    <3> HIDE DEF b
    <3>3. clone' \in Clones' /\ clone'.at = clone.at /\ clone'.main = clone.main /\ clone'.branch = b
      BY <2>5, <3>1, <3>2 DEF Clones
    <3> QED  BY <3>3 DEF b
  <2>7. /\ CloneStep(p) /\ TreeStep(p) /\ Keeps(p) /\ Held(p) \subseteq Held(p)'
    <3> DEFINE what == Everything(p)
    <3>1. wt' = [wt EXCEPT ![p] = wt'[p]] /\ slug' = slug /\ wt[p].on
      BY <1>1, <2>2
    <3>2. /\ wt'[p] \in Trees' /\ wt'[p].on /\ (wt'[p].ask # "none" <=> wt'[p].theirs # {})
          /\ wt'[p].dirty = wt[p].dirty \ what /\ wt'[p].staged = wt[p].staged \ what
      BY <1>1, <1>2, <2>1, <2>2, <2>5 DEF TreeFits, Everything
    <3>3. h \in SUBSET made' /\ what \in SUBSET Everything(p)
      BY <2>3
    <3>4. made \subseteq made' /\ made' \subseteq Commits /\ Head(p) \union what \subseteq h
      BY <2>3
    <3> QED  BY ONLY EntityIInv, p \in Projects, <2>6, <3>1, <3>2, <3>3, <3>4, CommitParts
  <2>8. OriginStep /\ SessionStep(p)
    BY <1>1, <2>3, <2>7, SameOrigin, SameSession
  <2> QED  BY <1>1, <2>3, <2>7, <2>8 DEF StepOf
<1>6. CASE /\ theirs # {} /\ clone' = [clone EXCEPT !.source = Nobody] /\ UNCHANGED made
           /\ \E ask \in {"operator", "manual"} :
                wt' = [wt EXCEPT ![p] = [wt[p] EXCEPT !.theirs = theirs, !.ask = ask, !.want = {}]]
  <2> PICK ask \in {"operator", "manual"} :
                wt' = [wt EXCEPT ![p] = [wt[p] EXCEPT !.theirs = theirs, !.ask = ask, !.want = {}]]
    BY <1>6
  <2>1. theirs # {}
    BY <1>6
  <2> HIDE DEF theirs
  <2> DEFINE w == [wt[p] EXCEPT !.theirs = theirs, !.ask = ask, !.want = {}]
  <2>2. /\ w \in Trees /\ w.on = wt[p].on /\ w.ask # "none" /\ w.theirs # {}
        /\ w.dirty = wt[p].dirty /\ w.staged = wt[p].staged
    BY <1>2, <1>3, <2>1 DEF Trees
  <2>3. wt' = [wt EXCEPT ![p] = w]
    OBVIOUS
  <2> HIDE DEF w
  <2>4. clone' \in Clones /\ clone'.at = clone.at /\ clone'.main = clone.main /\ clone'.branch = clone.branch
    BY <1>2, <1>6 DEF Clones
  <2> QED  BY <1>1, <1>6, <2>2, <2>3, <2>4, WorktreeStep
<1> QED  BY <1>4, <1>5, <1>6 DEF MergeFetched, With

\* The end of a merge, by a commit or by --abort
LEMMA EndMergeStep ==
  ASSUME EntityIInv, NEW p \in Projects, wt[p].ask # "none", NEW merges \in SUBSET Merges,
         Committed(p, Everything(p), merges), UNCHANGED <<slug, origin, sess>>
  PROVE  StepOf(p)
<1>1. wt[p].on
  BY TypesOf DEF TreeFits, Bare
<1>2. /\ made \subseteq made' /\ made' \subseteq Commits /\ CloneStep(p) /\ TreeStep(p) /\ Keeps(p)
      /\ Held(p) \subseteq Held(p)'
  <2> DEFINE what == Everything(p)
  <2>1. what \in SUBSET Everything(p) /\ slug' = slug /\ Committed(p, what, merges)
    OBVIOUS
  <2> HIDE DEF what
  <2> QED  BY <1>1, <2>1, CommittedParts
<1>3. OriginStep /\ SessionStep(p)
  BY <1>2, SameOrigin, SameSession
<1> QED  BY <1>2, <1>3 DEF StepOf

LEMMA ApproveStep ==
  ASSUME EntityIInv, NEW p \in Projects, ApproveResolutions(p)
  PROVE  StepOf(p)
<1>1. wt[p].ask = "operator" /\ UNCHANGED <<slug, origin, sess>>
  BY DEF ApproveResolutions
<1>2. CASE \E m \in Merges \ made : Committed(p, Everything(p), {m})
  <2>1. \E merges \in SUBSET Merges : Committed(p, Everything(p), merges)
    BY <1>2
  <2> QED  BY <1>1, <2>1, EndMergeStep
<1>3. CASE wt' = [wt EXCEPT ![p] = [wt[p] EXCEPT !.ask = "manual"]] /\ UNCHANGED <<clone, made>>
  <2> DEFINE w == [wt[p] EXCEPT !.ask = "manual"]
  <2>1. wt[p] \in Trees /\ TreeFits(p) /\ wt[p].on /\ clone \in Clones
    BY <1>1, TypesOf DEF TreeFits, Bare
  <2>2. /\ w \in Trees /\ w.on = wt[p].on /\ w.ask # "none" /\ w.theirs = wt[p].theirs
        /\ w.dirty = wt[p].dirty /\ w.staged = wt[p].staged
    BY <2>1 DEF Trees
  <2>3. wt' = [wt EXCEPT ![p] = w]
    BY <1>3
  <2> HIDE DEF w
  <2>4. w.ask # "none" <=> w.theirs # {}
    BY <1>1, <2>1, <2>2 DEF TreeFits
  <2> QED  BY <1>1, <1>3, <2>1, <2>2, <2>3, <2>4, WorktreeStep
<1> QED  BY <1>2, <1>3 DEF ApproveResolutions, With

LEMMA CommitByHandStep ==
  ASSUME EntityIInv, NEW p \in Projects, CommitByHand(p)
  PROVE  StepOf(p)
<1>1. wt[p].ask # "none" /\ UNCHANGED <<slug, origin, sess>>
  BY DEF CommitByHand
<1>2. \E merges \in SUBSET Merges : Committed(p, Everything(p), merges)
  BY DEF CommitByHand
<1> QED  BY <1>1, <1>2, EndMergeStep

LEMMA AbortMergeStep ==
  ASSUME EntityIInv, NEW p \in Projects, AbortMerge(p)
  PROVE  StepOf(p)
<1> DEFINE w == Aborted(p)
<1>1. /\ wt[p].on /\ wt[p].theirs # {} /\ wt' = [wt EXCEPT ![p] = w] /\ UNCHANGED <<slug, origin, clone, made>>
      /\ sess' = [sess EXCEPT ![p].gone = @ \union wt[p].staged]
  BY DEF AbortMerge, With
<1>2. wt[p] \in Trees /\ clone \in Clones /\ sess \in [Projects -> Sessions]
  BY TypesOf DEF EntityIInv, EntityTypes
<1>3. /\ w \in Trees /\ w.on = wt[p].on /\ w.ask = "none" /\ w.theirs = {}
      /\ w.dirty = wt[p].dirty /\ w.staged = {}
  BY <1>2 DEF Aborted, Trees
<1> HIDE DEF w
<1>4. sess'[p].gone = sess[p].gone \union wt[p].staged
  BY <1>1, <1>2 DEF Sessions
<1> QED  BY <1>1, <1>2, <1>3, <1>4, WorktreeStep

\* A session changes, and nothing else.
LEMMA SessionOnly ==
  ASSUME EntityIInv, NEW p \in Projects, UNCHANGED <<slug, origin, clone, wt, made>>,
         sess' = [sess EXCEPT ![p] = sess'[p]], sess'[p] \in Sessions, Fits(sess'[p], Held(p))
  PROVE  StepOf(p)
<1>1. CloneStep(p) /\ Head(p)' = Head(p) /\ OriginStep /\ made \subseteq Commits
  BY SameClone, SameOrigin DEF EntityIInv, EntityTypes
<1>2. TreeStep(p)
  BY <1>1, TypesOf, SameTree
<1>3. SessionStep(p)
  <2>1. Held(p)' = Held(p)
    BY <1>1 DEF Held
  <2> QED  BY <2>1, MoreMade DEF SessionStep, SessionFits
<1>4. Keeps(p)
  BY <1>1 DEF Keeps
<1> QED  BY <1>1, <1>2, <1>3, <1>4 DEF StepOf

LEMMA SessionEnds ==
  ASSUME EntityIInv, NEW p \in Projects,
         Launch(p) \/ AgentExits(p) \/ ConsolidationFails(p) \/ ResumeEnds(p) \/ ResumeFails(p)
  PROVE  StepOf(p)
<1>1. /\ UNCHANGED <<slug, origin, clone, wt, made>> /\ sess[p] \in Sessions /\ Fits(sess[p], Held(p))
      /\ sess \in [Projects -> Sessions]
  BY TypesOf DEF Launch, AgentExits, ConsolidationFails, ResumeEnds, ResumeFails, SessionFits, EntityIInv, EntityTypes
<1>2. CASE Launch(p)
  <2> DEFINE s == [NoSession EXCEPT !.pc = "agent", !.base = Head(p)]
  <2>1. wt[p].on /\ sess' = [sess EXCEPT ![p] = s]
    BY <1>2 DEF Launch
  <2>2. Head(p) \in Heads /\ Head(p) # NoBranch
    BY <2>1, TypesOf
  <2>3. s \in Sessions /\ s.pc = "agent" /\ s.base = Head(p) /\ s.edits = {} /\ s.shown = NotShown
    BY <2>2 DEF NoSession, Sessions
  <2> HIDE DEF s
  <2>4. Fits(s, Held(p))
    BY <2>2, <2>3 DEF Fits
  <2> QED  BY <1>1, <2>1, <2>3, <2>4, SessionOnly
<1>3. CASE AgentExits(p)
  <2> DEFINE s == [sess[p] EXCEPT !.pc = "resumed"]
  <2>1. sess[p].pc = "agent" /\ sess' = [sess EXCEPT ![p] = s]
    BY <1>3 DEF AgentExits
  <2>2. /\ s \in Sessions /\ s.pc = "resumed" /\ s.how = sess[p].how /\ s.base = sess[p].base
        /\ s.edits = sess[p].edits /\ s.shown = sess[p].shown /\ s.digest = sess[p].digest
        /\ s.gone = sess[p].gone
    BY <1>1 DEF Sessions
  <2> HIDE DEF s
  <2>3. Fits(s, Held(p))
    BY <1>1, <2>1, <2>2 DEF Fits
  <2> QED  BY <1>1, <2>1, <2>2, <2>3, SessionOnly
<1>4. CASE ConsolidationFails(p)
  <2> DEFINE s == [sess[p] EXCEPT !.shown = NotShown, !.pc = IF @ = "fallback" THEN "off" ELSE @,
                                  !.how = IF sess[p].pc = "fallback" THEN "failed" ELSE @]
  <2>1. sess' = [sess EXCEPT ![p] = s]
    BY <1>4 DEF ConsolidationFails
  <2>2. sess[p].shown # NotShown => sess[p].pc \in {"resumed", "fallback"}
    BY <1>1 DEF Fits
  <2>3. /\ s \in Sessions /\ s.base = sess[p].base /\ s.edits = sess[p].edits /\ s.shown = NotShown
        /\ s.digest = sess[p].digest /\ s.gone = sess[p].gone
        /\ sess[p].pc = "fallback" => s.pc = "off" /\ s.how = "failed"
        /\ sess[p].pc # "fallback" => s.pc = sess[p].pc /\ s.how = sess[p].how
    BY <1>1 DEF Sessions
  <2> HIDE DEF s
  <2>4. Fits(s, Held(p))
    BY <1>1, <2>3 DEF Fits
  <2> QED  BY <1>1, <2>1, <2>3, <2>4, SessionOnly
<1>5. CASE ResumeEnds(p)
  <2> DEFINE s == [sess[p] EXCEPT !.pc = "off", !.base = NoBranch, !.how = "resume"]
  <2>1. sess[p].shown = NotShown /\ sess' = [sess EXCEPT ![p] = s]
    BY <1>5 DEF ResumeEnds
  <2>2. s \in Sessions /\ s.pc = "off" /\ s.how = "resume" /\ s.shown = sess[p].shown
    BY <1>1 DEF Sessions, Heads
  <2> HIDE DEF s
  <2>3. Fits(s, Held(p))
    BY <2>1, <2>2 DEF Fits
  <2> QED  BY <1>1, <2>1, <2>2, <2>3, SessionOnly
<1>6. CASE ResumeFails(p)
  <2> DEFINE s == [sess[p] EXCEPT !.shown = NotShown, !.pc = IF wt[p].on THEN "fallback" ELSE "off",
                                  !.how = IF wt[p].on THEN @ ELSE "transcript"]
  <2>1. sess[p].pc = "resumed" /\ sess' = [sess EXCEPT ![p] = s]
    BY <1>6 DEF ResumeFails
  <2>2. /\ s \in Sessions /\ s.base = sess[p].base /\ s.edits = sess[p].edits /\ s.shown = NotShown
        /\ s.digest = sess[p].digest /\ s.gone = sess[p].gone
        /\ s.pc = "fallback" \/ (s.pc = "off" /\ s.how = "transcript")
    <3>1. CASE wt[p].on
      BY <1>1, <3>1 DEF Sessions
    <3>2. CASE ~wt[p].on
      BY <1>1, <3>2 DEF Sessions
    <3> QED  BY <3>1, <3>2
  <2> HIDE DEF s
  <2>3. Fits(s, Held(p))
    BY <1>1, <2>1, <2>2 DEF Fits
  <2> QED  BY <1>1, <2>1, <2>2, <2>3, SessionOnly
<1> QED  BY <1>2, <1>3, <1>4, <1>5, <1>6

\* The agent edits a page: the edit is new, so no baseline has it.
LEMMA AgentEditsStep ==
  ASSUME EntityIInv, NEW p \in Projects, AgentEdits(p)
  PROVE  StepOf(p)
<1>1. PICK e \in Edits \ made :
         /\ wt' = [wt EXCEPT ![p] = [wt[p] EXCEPT !.dirty = @ \union {e}]]
         /\ sess' = [sess EXCEPT ![p].edits = @ \union {e}]
         /\ made' = made \union {e}
  BY DEF AgentEdits, With
<1>2. sess[p].pc = "agent" /\ wt[p].on /\ UNCHANGED <<slug, origin, clone>>
  BY DEF AgentEdits
<1>3. /\ wt[p] \in Trees /\ sess[p] \in Sessions /\ TreeFits(p) /\ Fits(sess[p], Held(p)) /\ made \subseteq Commits
      /\ wt \in [Projects -> Trees] /\ sess \in [Projects -> Sessions]
  BY TypesOf DEF SessionFits, EntityIInv, EntityTypes
<1>4. made \subseteq made' /\ made' \subseteq Commits /\ e \in made' /\ e \notin made
  BY <1>1, <1>3 DEF Commits
<1>5. CloneStep(p) /\ Head(p)' = Head(p) /\ OriginStep
  BY <1>2, <1>4, SameClone, SameOrigin
<1> DEFINE w == [wt[p] EXCEPT !.dirty = @ \union {e}]
           s == [sess[p] EXCEPT !.edits = @ \union {e}]
<1>6. /\ w.on = wt[p].on /\ w.ask = wt[p].ask /\ w.theirs = wt[p].theirs
      /\ w.dirty = wt[p].dirty \union {e} /\ w.staged = wt[p].staged /\ w \in Trees'
  <2>1. wt[p] \in Trees'
    BY <1>3, <1>4, MoreMade
  <2> QED  BY <1>4, <2>1 DEF Trees
<1>7. /\ s \in Sessions' /\ s.pc = "agent" /\ s.how = sess[p].how /\ s.base = sess[p].base
      /\ s.edits = sess[p].edits \union {e} /\ s.shown = sess[p].shown /\ s.digest = sess[p].digest
      /\ s.gone = sess[p].gone
  <2>1. sess[p] \in Sessions'
    BY <1>3, <1>4, MoreMade
  <2> QED  BY <1>2, <1>4, <2>1 DEF Sessions
<1>8. wt' = [wt EXCEPT ![p] = w] /\ wt'[p] = w /\ sess' = [sess EXCEPT ![p] = s] /\ sess'[p] = s
  BY <1>1, <1>3
<1> HIDE DEF w, s
<1>9. TreeStep(p)
  <2>1. TreeFits(p)'
    BY <1>2, <1>3, <1>5, <1>6, <1>8 DEF TreeFits
  <2> QED  BY <1>2, <1>6, <1>8, <2>1 DEF TreeStep
<1>10. SessionStep(p)
  <2>1. Held(p)' = Held(p) \union {e}
    BY <1>2, <1>5, <1>6, <1>8 DEF Held
  <2>2. sess[p].base # NoBranch /\ sess[p].base \in Heads
    BY <1>2, <1>3 DEF Fits, Sessions
  <2>3. e \notin sess[p].base
    BY <1>4, <2>2 DEF Heads
  <2>4. SessionFits(p)'
    BY <1>2, <1>3, <1>7, <1>8, <2>1, <2>3 DEF SessionFits, Fits
  <2> QED  BY <1>7, <1>8, <2>4 DEF SessionStep
<1>11. Keeps(p)
  BY <1>2, <1>5, <1>6, <1>8 DEF Keeps
<1> QED  BY <1>2, <1>4, <1>5, <1>9, <1>10, <1>11 DEF StepOf

LEMMA AgentCommitsStep ==
  ASSUME EntityIInv, NEW p \in Projects, AgentCommits(p)
  PROVE  StepOf(p)
<1> DEFINE what == Everything(p)
           none == {}
<1>1. wt[p].on /\ Committed(p, what, none) /\ UNCHANGED <<slug, origin, sess>>
  BY DEF AgentCommits
<1>2. what \in SUBSET Everything(p) /\ none \in SUBSET Merges
  OBVIOUS
<1> HIDE DEF what, none
<1>3. /\ made \subseteq made' /\ made' \subseteq Commits /\ CloneStep(p) /\ TreeStep(p) /\ Keeps(p)
      /\ Held(p) \subseteq Held(p)'
  BY <1>1, <1>2, CommittedParts
<1>4. OriginStep /\ SessionStep(p)
  BY <1>1, <1>3, SameOrigin, SameSession
<1> QED  BY <1>1, <1>3, <1>4 DEF StepOf

\* run_wiki_consolidation: what the session has and the baseline has not is shown.
LEMMA ExtractStep ==
  ASSUME EntityIInv, NEW p \in Projects, Extract(p)
  PROVE  StepOf(p)
<1> DEFINE fallback == sess[p].pc = "fallback"
           shown == WikiDiff(p, IF fallback THEN sess[p].base ELSE NoBranch)
           w == [wt[p] EXCEPT !.dirty = {}, !.staged = Everything(p)]
           s == [sess[p] EXCEPT !.shown = IF shown = {} THEN NotShown ELSE shown,
                                !.pc = IF fallback /\ shown = {} THEN "off" ELSE @,
                                !.base = IF fallback /\ shown = {} THEN NoBranch ELSE @,
                                !.how = IF fallback /\ shown = {} THEN "wiki" ELSE @]
<1>1. /\ sess[p].pc \in {"resumed", "fallback"} /\ sess[p].shown = NotShown /\ wt[p].on
      /\ UNCHANGED <<slug, origin, clone, made>>
      /\ wt' = [wt EXCEPT ![p] = w] /\ sess' = [sess EXCEPT ![p] = s]
  BY DEF Extract, With
<1>2. /\ wt[p] \in Trees /\ sess[p] \in Sessions /\ TreeFits(p) /\ Fits(sess[p], Held(p)) /\ made \subseteq Commits
      /\ wt \in [Projects -> Trees] /\ sess \in [Projects -> Sessions] /\ Head(p) \subseteq made
  BY <1>1, TypesOf DEF SessionFits, EntityIInv, EntityTypes
<1>3. Everything(p) \subseteq made
  BY <1>2 DEF Everything, Trees
<1>4. shown \subseteq made /\ (fallback => Held(p) \ sess[p].base \subseteq shown)
  BY <1>1, <1>2, <1>3 DEF WikiDiff, Held, Everything, Fits
<1>5. sess[p].base # NoBranch /\ sess[p].edits \intersect sess[p].base = {}
      /\ sess[p].edits \subseteq sess[p].digest \union sess[p].gone \union Held(p)
  BY <1>1, <1>2 DEF Fits
<1>6. fallback => sess[p].edits \subseteq shown \union sess[p].digest \union sess[p].gone
  BY <1>4, <1>5
<1>7. shown # NotShown
  BY <1>2, <1>4, CommitsAreNot
<1> HIDE DEF shown
<1>8. /\ s \in Sessions /\ s.edits = sess[p].edits /\ s.digest = sess[p].digest /\ s.gone = sess[p].gone
      /\ s.shown = IF shown = {} THEN NotShown ELSE shown
      /\ fallback /\ shown = {} => s.pc = "off" /\ s.base = NoBranch /\ s.how = "wiki"
      /\ ~(fallback /\ shown = {}) => s.pc = sess[p].pc /\ s.base = sess[p].base /\ s.how = sess[p].how
  BY <1>2, <1>4 DEF Sessions, Heads
<1>9. /\ w \in Trees /\ w.on /\ w.ask = wt[p].ask /\ w.theirs = wt[p].theirs
      /\ w.dirty = {} /\ w.staged = Everything(p)
  BY <1>1, <1>2, <1>3 DEF Trees
<1>10. wt'[p] = w /\ sess'[p] = s
  BY <1>1, <1>2
<1> HIDE DEF w, s
<1>11. CloneStep(p) /\ Head(p)' = Head(p) /\ OriginStep
  BY <1>1, SameClone, SameOrigin
<1>12. TreeStep(p)
  <2>1. TreeFits(p)'
    BY <1>1, <1>2, <1>9, <1>10, <1>11 DEF TreeFits, Everything
  <2> QED  BY <1>1, <1>9, <1>10, <2>1, MoreMade DEF TreeStep
<1>13. SessionStep(p)
  <2>1. Held(p)' = Held(p)
    BY <1>1, <1>9, <1>10, <1>11 DEF Held, Everything
  <2>2. Fits(s, Held(p))
    BY <1>1, <1>5, <1>6, <1>7, <1>8 DEF Fits
  <2> QED  BY <1>1, <1>8, <1>10, <2>1, <2>2, MoreMade DEF SessionStep, SessionFits
<1>14. Keeps(p)
  BY <1>1, <1>9, <1>10, <1>11 DEF Keeps, Everything
<1> QED  BY <1>1, <1>2, <1>11, <1>12, <1>13, <1>14 DEF StepOf

LEMMA ConsolidatedStep ==
  ASSUME EntityIInv, NEW p \in Projects, Consolidated(p)
  PROVE  StepOf(p)
<1> DEFINE s == [sess[p] EXCEPT !.digest = @ \union sess[p].shown, !.shown = NotShown,
                   !.pc = IF @ = "fallback" THEN "off" ELSE @,
                   !.base = IF sess[p].pc = "fallback" THEN NoBranch ELSE @,
                   !.how = IF sess[p].pc = "fallback" THEN "wiki" ELSE @]
<1>1. /\ sess[p].shown # NotShown /\ wt[p].on /\ UNCHANGED <<slug, origin>>
      /\ sess' = [sess EXCEPT ![p] = s]
  BY Zenon DEF Consolidated
<1>2. /\ sess[p] \in Sessions /\ Fits(sess[p], Held(p)) /\ sess \in [Projects -> Sessions]
  BY TypesOf DEF SessionFits, EntityIInv, EntityTypes
<1>3. \E merges \in SUBSET Merges : Committed(p, wt[p].staged, merges)
  <2>1. CASE wt[p].theirs = {}
    BY <2>1 DEF Consolidated
  <2>2. CASE wt[p].theirs # {}
    BY <2>2 DEF Consolidated
  <2> QED  BY <2>1, <2>2
<1>4. /\ made \subseteq made' /\ made' \subseteq Commits /\ CloneStep(p) /\ TreeStep(p) /\ Keeps(p)
      /\ Held(p) \subseteq Held(p)'
  <2> DEFINE what == wt[p].staged
  <2> PICK merges \in SUBSET Merges : Committed(p, what, merges)
    BY <1>3
  <2>1. what \in SUBSET Everything(p) /\ slug' = slug
    BY <1>1 DEF Everything
  <2> HIDE DEF what
  <2> QED  BY <1>1, <2>1, CommittedParts
<1>5. sess[p].shown \subseteq made /\ sess[p].pc \in {"resumed", "fallback"}
  BY <1>1, <1>2 DEF Sessions, Fits
<1>6. /\ s \in Sessions /\ s.edits = sess[p].edits /\ s.gone = sess[p].gone /\ s.shown = NotShown
      /\ s.digest = sess[p].digest \union sess[p].shown
      /\ sess[p].pc = "fallback" => s.pc = "off" /\ s.how = "wiki"
      /\ sess[p].pc # "fallback" => s.pc = "resumed" /\ s.base = sess[p].base
  BY <1>2, <1>5 DEF Sessions, Heads
<1>7. sess'[p] = s
  BY <1>1, <1>2
<1> HIDE DEF s
<1>8. SessionStep(p)
  <2>1. Fits(s, Held(p)')
    BY <1>1, <1>2, <1>4, <1>5, <1>6 DEF Fits
  <2> QED  BY <1>1, <1>4, <1>6, <1>7, <2>1, MoreMade DEF SessionStep, SessionFits
<1>9. OriginStep
  BY <1>1, <1>4, SameOrigin
<1> QED  BY <1>1, <1>4, <1>8, <1>9 DEF StepOf

\* Every command and session step is a step of its project.
LEMMA ProjectSteps ==
  ASSUME EntityIInv, NEW p \in Projects, Command(p) \/ Session(p)
  PROVE  StepOf(p)
<1>1. CASE Attach(p)
  <2>1. \/ StartClone(p) /\ UNCHANGED <<slug, origin, wt, sess, made>>
        \/ AddWorktree(p) /\ UNCHANGED <<slug, origin, sess, made>>
    BY <1>1 DEF Attach
  <2> QED  BY <2>1, CloningStep, AddWorktreeStep
<1>2. CASE EndClone(p)
  BY <1>2, CloningStep
<1>3. CASE \E force \in BOOLEAN : Detach(p, force)
  BY <1>3, DetachStep
<1>4. CASE Push(p) \/ FastForward(p)
  BY <1>4, PushStep, FastForwardStep
<1>5. CASE \E pull \in BOOLEAN : StartMerge(p, pull)
  BY <1>5, StartMergeStep
<1>6. CASE MergeFetched(p) \/ MergeKilled(p) \/ ApproveResolutions(p) \/ AbortMerge(p) \/ CommitByHand(p)
  BY <1>6, MergeFetchedStep, MergeKilledStep, ApproveStep, AbortMergeStep, CommitByHandStep
<1>7. CASE Session(p)
  BY <1>7, SessionEnds, AgentEditsStep, AgentCommitsStep, ExtractStep, ConsolidatedStep DEF Session
<1> QED  BY <1>1, <1>2, <1>3, <1>4, <1>5, <1>6, <1>7 DEF Command

\* What a maintainer or another machine does to the origin's branches takes nothing away.
LEMMA OriginOnly ==
  ASSUME EntityIInv, OriginStep, UNCHANGED <<slug, clone, wt, sess>>, made \subseteq made', made' \subseteq Commits
  PROVE  EntityIInv' /\ Survival
<1>1. /\ slug \in [Projects -> Slugs] /\ clone \in Clones' /\ origin' \in Origins'
      /\ wt \in [Projects -> Trees] /\ sess \in [Projects -> Sessions]
  BY MoreMade DEF EntityIInv, EntityTypes, OriginStep
<1>2. EntityTypes'
  <2>1. wt' \in [Projects -> Trees'] /\ sess' \in [Projects -> Sessions']
    BY <1>1, MoreMade
  <2> QED  BY <1>1, <2>1 DEF EntityTypes
<1>3. CloneFits' /\ BranchesApart'
  BY DEF EntityIInv, CloneFits, BranchesApart, Branch
<1>4. \A p \in Projects : TreeFits(p)' /\ SessionFits(p)'
  <2> TAKE p \in Projects
  <2>1. TreeFits(p) /\ SessionFits(p) /\ Head(p)' = Head(p)
    BY DEF EntityIInv, Head, Branch
  <2>2. TreeFits(p)'
    BY <2>1 DEF TreeFits
  <2>3. SessionFits(p)'
    BY <2>1 DEF SessionFits, Fits, Held
  <2> QED  BY <2>2, <2>3
<1>5. Survival
  <2> SUFFICES ASSUME NEW c \in made PROVE (Remote(c) => Remote(c)') /\ (Local(c) => Local(c)')
    BY DEF Survival
  <2>1. Remote(c) => Remote(c)'
    BY DEF OriginStep, OriginGrows, Remote
  <2>2. Local(c) => Local(c)'
    BY DEF Local
  <2> QED  BY <2>1, <2>2
<1> QED  BY <1>2, <1>3, <1>4, <1>5 DEF EntityIInv

LEMMA OutsideSteps ==
  ASSUME EntityIInv, NEW b \in Slugs, MaintainerMerges(b) \/ OtherMachinePushes(b)
  PROVE  EntityIInv' /\ Survival
<1>1. /\ origin \in Origins /\ made \subseteq Commits /\ UNCHANGED <<slug, clone, wt, sess>>
      /\ origin.branch[b] # NoBranch /\ origin.branch \in [Slugs -> Heads]
  BY DEF EntityIInv, EntityTypes, Origins, MaintainerMerges, OtherMachinePushes
<1>2. origin.branch[b] \subseteq made
  BY <1>1 DEF Heads
<1>3. CASE MaintainerMerges(b)
  <2>1. origin' = [origin EXCEPT !.main = @ \union origin.branch[b]] /\ made' = made
    BY <1>3 DEF MaintainerMerges
  <2>2. origin' \in Origins /\ origin'.main = origin.main \union origin.branch[b] /\ origin'.branch = origin.branch
    BY <1>1, <1>2, <2>1 DEF Origins
  <2>3. OriginStep
    BY <2>1, <2>2, MoreMade DEF OriginStep, OriginGrows
  <2> QED  BY <1>1, <2>1, <2>3, OriginOnly
<1>4. CASE OtherMachinePushes(b)
  <2> PICK e \in Edits \ made : /\ origin' = [origin EXCEPT !.branch[b] = @ \union {e}]
                                /\ made' = made \union {e}
    BY <1>4 DEF OtherMachinePushes
  <2> DEFINE h == origin.branch[b] \union {e}
             f == [origin.branch EXCEPT ![b] = h]
  <2>1. made \subseteq made' /\ made' \subseteq Commits
    BY <1>1 DEF Commits
  <2>2. h \in SUBSET made' /\ origin.branch[b] \subseteq h
    BY <1>2
  <2>3. h \in Heads' /\ h # NoBranch
    BY <2>1, <2>2, Hashes DEF Heads, NoBranch
  <2> HIDE DEF h
  <2>4. Heads \subseteq Heads' /\ origin \in Origins'
    BY <1>1, <2>1, MoreMade
  <2>5. f \in [Slugs -> Heads'] /\ f[b] = h /\ \A d \in Slugs \ {b} : f[d] = origin.branch[d]
    BY <1>1, <2>3, <2>4
  <2>6. origin' = [origin EXCEPT !.branch = f]
    BY DEF h
  <2> HIDE DEF f
  <2>7. origin' \in Origins' /\ origin'.main = origin.main /\ origin'.branch = f
    BY <2>4, <2>5, <2>6 DEF Origins
  <2>8. OriginStep
    BY <2>2, <2>3, <2>5, <2>7 DEF OriginStep, OriginGrows
  <2> QED  BY <1>1, <2>1, <2>8, OriginOnly
<1> QED  BY <1>3, <1>4

LEMMA EntityIInvInit ==
  ASSUME EntityInit
  PROVE  EntityIInv
<1>1. /\ slug \in [Projects -> Slugs] /\ made = {}
      /\ origin = [main |-> {}, branch |-> [b \in Slugs |-> NoBranch]]
      /\ clone = [at |-> "absent", by |-> Nobody, main |-> {},
                  branch |-> [b \in Slugs |-> NoBranch], source |-> Nobody]
      /\ wt = [p \in Projects |-> Bare] /\ sess = [p \in Projects |-> NoSession]
  BY DEF EntityInit
<1>2. origin \in Origins
  BY <1>1 DEF Origins, Heads
<1>3. clone \in Clones
  BY <1>1 DEF Clones, Heads
<1>4. Bare \in Trees /\ ~Bare.on /\ Bare.ask = "none" /\ Bare.theirs = {} /\ Bare.dirty = {} /\ Bare.staged = {}
  BY DEF Bare, Trees
<1>5. /\ NoSession \in Sessions /\ NoSession.pc = "off" /\ NoSession.how = "none" /\ NoSession.shown = NotShown
  BY DEF NoSession, Sessions, Heads
<1>6. EntityTypes
  BY <1>1, <1>2, <1>3, <1>4, <1>5 DEF EntityTypes
<1>7. CloneFits /\ BranchesApart
  BY <1>1, <1>4 DEF CloneFits, BranchesApart
<1>8. \A p \in Projects : TreeFits(p) /\ SessionFits(p)
  BY <1>1, <1>4, <1>5 DEF TreeFits, SessionFits, Fits
<1> QED  BY <1>6, <1>7, <1>8 DEF EntityIInv

LEMMA EntityIInvSuffices ==
  ASSUME EntityIInv
  PROVE  EntityInv
<1>1. EntityTypeOK
  <2>1. /\ slug \in [Projects -> Slugs] /\ origin.main \subseteq Commits /\ clone.main \subseteq Commits
    BY DEF EntityIInv, EntityTypes, Origins, Clones
  <2>2. \A b \in Slugs : \A h \in {origin.branch[b], clone.branch[b]} : h = NoBranch \/ h \subseteq made
    <3> TAKE b \in Slugs
    <3>1. origin.branch[b] \in Heads /\ clone.branch[b] \in Heads
      BY DEF EntityIInv, EntityTypes, Origins, Clones
    <3> QED  BY <3>1 DEF Heads
  <2>3. ASSUME NEW p \in Projects
        PROVE  /\ wt[p].dirty \union wt[p].staged \union wt[p].theirs \subseteq made
               /\ wt[p].on => clone.at = "ready" /\ Head(p) # NoBranch
               /\ wt[p].ask # "none" <=> wt[p].theirs # {}
               /\ wt[p].dirty \union wt[p].staged \subseteq Edits
    <3>1. wt[p] \in Trees /\ TreeFits(p)
      BY TypesOf
    <3>2. wt[p].dirty \union wt[p].staged \union wt[p].theirs \subseteq made
      BY <3>1 DEF Trees
    <3> QED  BY <3>1, <3>2 DEF TreeFits
  <2> QED  BY <2>1, <2>2, <2>3 DEF EntityTypeOK
<1>2. FallbackDigests
  BY DEF EntityIInv, SessionFits, Fits, FallbackDigests
<1> QED  BY <1>1, <1>2 DEF EntityInv, EntityIInv

LEMMA EntityIInvStep ==
  ASSUME EntityIInv, [EntityNext]_entityVars
  PROVE  EntityIInv' /\ Survival
<1>1. CASE \E p \in Projects : Command(p) \/ Session(p)
  <2> PICK p \in Projects : Command(p) \/ Session(p)
    BY <1>1
  <2> QED  BY ProjectSteps, StepOfIInv, StepOfSurvives
<1>2. CASE \E b \in Slugs : MaintainerMerges(b) \/ OtherMachinePushes(b)
  BY <1>2, OutsideSteps
<1>3. CASE UNCHANGED entityVars
  <2>1. UNCHANGED <<slug, origin, clone, wt, sess, made>> /\ made' \subseteq Commits
    BY <1>3 DEF entityVars, EntityIInv, EntityTypes
  <2> QED  BY <2>1, SameOrigin, OriginOnly
<1> QED  BY <1>1, <1>2, <1>3 DEF EntityNext

\* The types of an entity's repositories, one worktree for a branch, and that a session that
\* ends by the fallback showed its consolidation agent every edit it did not lose: whatever
\* the projects, the commits and the commands that interleave (do_attach, entity_repo.py,
\* run_wiki_consolidation).
THEOREM EntityCorrect == EntitySpec => []EntityInv
<1>1. EntitySpec => []EntityIInv
  BY EntityIInvInit, EntityIInvStep, PTL DEF EntitySpec
<1> QED  BY <1>1, EntityIInvSuffices, PTL

\* No command loses a commit or an edit, but detach and the end of a merge by --abort.
THEOREM WorkKept == EntitySpec => WorkSurvives
<1>1. EntitySpec => []EntityIInv
  BY EntityIInvInit, EntityIInvStep, PTL DEF EntitySpec
<1>2. EntityIInv /\ [EntityNext]_entityVars =>
        [\A c \in made :
           /\ Remote(c) => Remote(c)'
           /\ Local(c) => \/ Local(c)'
                          \/ \E p \in Projects : wt[p].on /\ ~wt'[p].on
                                                  /\ c \in Head(p) \union wt[p].dirty \union wt[p].staged
                          \/ \E p \in Projects : c \in wt[p].staged /\ wt[p].theirs # {}
                                                   /\ wt'[p].theirs = {}]_entityVars
  BY EntityIInvStep DEF Survival
<1> QED  BY <1>1, <1>2, PTL DEF EntitySpec, WorkSurvives
=============================================================================
