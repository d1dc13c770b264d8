------------------------------- MODULE Tasks -------------------------------
(***************************************************************************)
(* Cross-repository tasks: a task directory holds an external artifact     *)
(* repository and several projects.  An artifact lives in the external     *)
(* repository; each project that takes part has a directory with an        *)
(* external.yaml that points at it, and the artifact's front matter lists  *)
(* those dependents.  The commands (src/src/task/, src/src/chunk_demote.py)*)
(* keep the two in step with plain file writes: a command is a list of     *)
(* file steps, decided when it starts, and it can end between any two,     *)
(* killed or with an error.                                                *)
(*                                                                         *)
(* The four kinds of artifact behave alike, so a directory here is one of  *)
(* any kind; statuses and created_after are the Workspace module's.        *)
(***************************************************************************)
EXTENDS Naturals, FiniteSets, Sequences, SequencesExt

CONSTANTS
  Projects,    \* the projects of .ve-task.yaml
  External,    \* its external_artifact_repo
  Names,       \* artifact names, in any repository
  Codes,       \* the sets of projects a code_paths list may be qualified with
  MaxMade,     \* bound: artifacts ever written, each a content of its own
  MaxCommands  \* bound: commands ever started

ASSUME TaskConfig ==
  /\ External \notin Projects /\ IsFiniteSet(Projects)
  /\ Codes \subseteq SUBSET Projects
ASSUME TaskBounds == MaxMade \in Nat \ {0} /\ MaxCommands \in Nat

VARIABLES
  dir,         \* dir[r][n]: docs/<kind>/<n> of repository r
  mounted,     \* the repositories whose checkout the task directory has
  made,        \* artifacts written so far
  started,     \* commands started so far
  todo,        \* the running command's remaining file steps
  broken       \* history, for properties: the names a command was interrupted
               \* on, or that pointers were left behind for

taskVars == <<dir, mounted, made, started, todo, broken>>

Repos == Projects \cup {External}
Contents == 1..MaxMade

(* GOAL.md or OVERVIEW.md: whose text it is, the projects its code_paths   *)
(* are qualified with, the dependents.                                     *)
Dependents == Projects \X Names
Goals == [id : Contents, code : SUBSET Projects, deps : Seq(Dependents)]

(* external.yaml: the artifact's name in the external repository, and the  *)
(* text it was written for (history, for properties).                      *)
Pointers == [to : Names, for : Contents]

(* A file is a set of at most one content.                                 *)
NoDir == [there |-> FALSE, goal |-> {}, plan |-> {}, pointer |-> {}]

Option(S) == {{}} \cup {{x} : x \in S}

Has(r, n) == dir[r][n].there
HasGoal(r, n) == dir[r][n].goal # {}
HasPointer(r, n) == dir[r][n].pointer # {}

(* is_external_artifact, _is_pointer_dir                                   *)
IsPointer(r, n) == HasPointer(r, n) /\ ~HasGoal(r, n)

Goal(r, n) == CHOOSE g \in dir[r][n].goal : TRUE
Target(p, n) == (CHOOSE x \in dir[p][n].pointer : TRUE).to
Deps(n) == IF HasGoal(External, n) THEN Goal(External, n).deps ELSE <<>>

(* The first dependent of project p, whatever it names there. *)
FirstOf(n, p) == SelectInSeq(Deps(n), LAMBDA d : d[1] = p)

(***************************************************************************)
(* What `ve external resolve` shows of a pointer in the task directory:    *)
(* the text of the artifact it names, nothing when that is missing.        *)
(***************************************************************************)
Resolved(p, n) ==
  UNION {dir[External][x.to].goal : x \in
           IF IsPointer(p, n) /\ {p, External} \subseteq mounted
           THEN dir[p][n].pointer ELSE {}}

ResolvedText(p, n) == {g.id : g \in Resolved(p, n)}

(* What the task's lists show: the external repository's artifacts, each   *)
(* with its dependents, and each project's own, pointers left out.         *)
LocalList(p) == {n \in Names : Has(p, n) /\ ~IsPointer(p, n)}

TaskList ==
  [r \in mounted |-> IF r = External THEN {n \in Names : Has(r, n)} ELSE LocalList(r)]

TaskInit ==
  /\ dir = [r \in Repos |-> [n \in Names |-> NoDir]]
  /\ mounted = Repos
  /\ made = 0
  /\ started = 0
  /\ todo = <<>>
  /\ broken = {}

-----------------------------------------------------------------------------
(* The file steps: what is done, where, and with what.                     *)

File(do, r, n, x) == [do |-> do, r |-> r, n |-> n, x |-> x]

Put(r, n, d) == [dir EXCEPT ![r][n] = d]

(* create_external_yaml: the directory may exist, whatever it holds.       *)
WritePointer(f) ==
  LET id == {g.id : g \in dir[External][f.x].goal}
  IN  Put(f.r, f.n, [dir[f.r][f.n] EXCEPT !.there = TRUE,
                       !.pointer = {[to |-> f.x, for |-> i] : i \in id}])

RemovePointer(f) == Put(f.r, f.n, [dir[f.r][f.n] EXCEPT !.pointer = {}])

RemoveIfEmpty(f) ==
  IF HasGoal(f.r, f.n) \/ dir[f.r][f.n].plan # {} THEN dir ELSE Put(f.r, f.n, NoDir)

(* update_frontmatter_field and the rewrites of the whole front matter     *)
WithDeps(f, D(_)) ==
  Put(f.r, f.n, [dir[f.r][f.n] EXCEPT
                   !.goal = {[g EXCEPT !.deps = D(g.deps)] : g \in dir[f.r][f.n].goal}])

SetDependents(f) == WithDeps(f, LAMBDA old : f.x)
(* Mutant: the new dependent replaces the list. *)
ReplaceDependents(f) == WithDeps(f, LAMBDA old : <<f.x>>)

AppendDependent(f) ==
  WithDeps(f, LAMBDA old : IF Contains(old, f.x) THEN old ELSE Append(old, f.x))
\* A list has an entry once (TasksTypeOK).
RemoveDependent(f) == WithDeps(f, LAMBDA old : RemoveFirst(old, f.x))

(* shutil.copy2 of one file from the external repository                   *)
CopyGoal(f) ==
  IF HasGoal(External, f.n)
  THEN Put(f.r, f.n, [dir[f.r][f.n] EXCEPT !.there = TRUE, !.goal = dir[External][f.n].goal])
  ELSE dir

CopyPlan(f) ==
  IF dir[External][f.n].plan # {}
  THEN Put(f.r, f.n, [dir[f.r][f.n] EXCEPT !.there = TRUE, !.plan = dir[External][f.n].plan])
  ELSE dir

(* rewrite_chunk_frontmatter: the target's prefix and the dependents go.   *)
StripFrontmatter(f) ==
  Put(f.r, f.n, [dir[f.r][f.n] EXCEPT
                   !.goal = {[g EXCEPT !.code = g.code \ {f.r}, !.deps = <<>>] :
                               g \in dir[f.r][f.n].goal}])

(* A pointer directory of another project goes, if its checkout is there.  *)
RemovePointerDir(f) ==
  IF f.r \in mounted /\ IsPointer(f.r, f.n) THEN Put(f.r, f.n, NoDir) ELSE dir

Written(f) ==
  CASE f.do = "make" ->
         Put(f.r, f.n, [there |-> TRUE, goal |-> {f.x}, plan |-> {f.x.id}, pointer |-> {}])
    [] f.do = "point" -> WritePointer(f)
    [] f.do = "unpoint" -> RemovePointer(f)
    [] f.do = "rmdir" -> RemoveIfEmpty(f)
    [] f.do = "setDependents" -> SetDependents(f)
    [] f.do = "addDependent" -> AppendDependent(f)
    [] f.do = "dropDependent" -> RemoveDependent(f)
    [] f.do = "copyGoal" -> CopyGoal(f)
    [] f.do = "copyPlan" -> CopyPlan(f)
    [] f.do = "copyTree" -> Put(f.r, f.n, dir[f.x[1]][f.x[2]])
    [] f.do = "empty" -> Put(f.r, f.n, [NoDir EXCEPT !.there = TRUE])
    [] f.do = "strip" -> StripFrontmatter(f)
    [] f.do = "removePointer" -> RemovePointerDir(f)
    [] f.do = "removeTree" -> Put(f.r, f.n, NoDir)

-----------------------------------------------------------------------------
(* The commands: the guard is what is checked first, the program the file  *)
(* steps in their order.                                                   *)

Idle == todo = <<>>

Run(program) ==
  /\ Idle
  /\ started < MaxCommands
  /\ started' = started + 1
  /\ todo' = program
  /\ UNCHANGED <<dir, mounted, broken>>

(* create_task_chunk, _narrative, _investigation, _subsystem: the artifact,*)
(* then a pointer in each project, resolved one by one, then the list.     *)
(* Only a chunk has code_paths.                                            *)
PointersOf(n, ps) == [i \in DOMAIN ps |-> File("point", ps[i], n, n)]

CreateProgram(n, ps, goal) ==
  <<File("make", External, n, goal)>> \o PointersOf(n, ps)
    \o <<File("setDependents", External, n, [i \in DOMAIN ps |-> <<ps[i], n>>])>>

CreateTaskArtifact(n, S, code) ==
  /\ made < MaxMade
  /\ External \in mounted
  /\ ~Has(External, n)
  /\ made' = made + 1
  /\ Run(CreateProgram(n, SetToSeq(S), [id |-> made + 1, code |-> code, deps |-> <<>>]))

CreateTaskChunk(n, S) == \E code \in Codes : CreateTaskArtifact(n, S, code)
CreateTaskNarrative(n, S) == CreateTaskArtifact(n, S, {})
CreateTaskInvestigation(n, S) == CreateTaskArtifact(n, S, {})
CreateTaskSubsystem(n, S) == CreateTaskArtifact(n, S, {})

(* An artifact of a project's own, by the project's commands.              *)
CreateLocal(p, n) ==
  /\ made < MaxMade
  /\ p \in mounted
  /\ ~Has(p, n)
  /\ made' = made + 1
  /\ Run(<<File("make", p, n, [id |-> made + 1, code |-> {}, deps |-> <<>>])>>)

(* Mutant: the directory is emptied before it is copied. *)
PromoteEmptied(p, n, m) ==
  <<File("empty", p, n, {}),
    File("copyTree", External, m, <<p, n>>),
    File("setDependents", External, m, <<<<p, n>>>>),
    File("point", p, n, m)>>

(* promote_artifact: the tree is copied before the files are removed.      *)
PromoteProgram(p, n, m) ==
  <<File("copyTree", External, m, <<p, n>>),
    File("setDependents", External, m, <<<<p, n>>>>),
    File("empty", p, n, {}),
    File("point", p, n, m)>>

Promote(p, n, m) ==
  /\ HasGoal(p, n)
  /\ {p, External} \subseteq mounted
  /\ ~Has(External, m)
  /\ made' = made
  /\ Run(PromoteProgram(p, n, m))

(* copy_artifact_as_external: artifact m, under the name n in the project. *)
CopyAsExternal(m, p, n) ==
  /\ {p, External} \subseteq mounted
  /\ HasGoal(External, m)
  /\ ~Has(p, n)
  /\ made' = made
  /\ Run(<<File("point", p, n, m), File("addDependent", External, m, <<p, n>>)>>)

(* remove_artifact_from_external: by the artifact's name, which must exist *)
(* in the external repository too, whatever the pointer says.              *)
RemoveFromExternal(n, p) ==
  /\ {p, External} \subseteq mounted
  /\ Has(External, n)
  /\ HasPointer(p, n)
  /\ made' = made
  /\ Run(<<File("unpoint", p, n, {}), File("rmdir", p, n, {}),
           File("dropDependent", External, Target(p, n), <<p, n>>)>>)

(* demote_artifact: a copy of the files over the pointer, and the project  *)
(* is dropped from the list.  Without a project, the only dependent's; the *)
(* files come in the order the directory lists them.                       *)
DemoteProgram(n, p, goalFirst) ==
  LET copies == <<File("copyGoal", p, n, {}), File("copyPlan", p, n, {})>>
  IN  <<File("unpoint", p, n, {})>>
        \o (IF goalFirst THEN copies ELSE Reverse(copies))
        \o <<File("dropDependent", External, n, Deps(n)[FirstOf(n, p)])>>

DemoteArtifact(n, p, goalFirst) ==
  /\ {p, External} \subseteq mounted
  /\ FirstOf(n, p) > 0
  /\ HasPointer(p, n)
  /\ made' = made
  /\ Run(DemoteProgram(n, p, goalFirst))

(* `ve chunk complete`, in the task directory or in a project: a chunk of  *)
(* one dependent is demoted to it.  `ve task demote --auto` the same.      *)
CompleteChunk(n) ==
  /\ Len(Deps(n)) = 1
  /\ \E goalFirst \in BOOLEAN : DemoteArtifact(n, Deps(n)[1][1], goalFirst)

(* demote_chunk: the whole collapse.  A target that has a GOAL.md counts   *)
(* as copied; the source and the other projects' pointers go at the end.   *)
OthersProgram(n, p) ==
  LET others == SetToSeq(Projects \ {p})
  IN  [i \in DOMAIN others |-> File("removePointer", others[i], n, {})]

DemoteChunkProgram(n, p) ==
  (IF HasGoal(p, n) THEN <<>>
   ELSE <<File("unpoint", p, n, {}), File("copyGoal", p, n, {}), File("copyPlan", p, n, {})>>)
    \o <<File("strip", p, n, {})>>
    \o OthersProgram(n, p)
    \o (IF Has(External, n) THEN <<File("removeTree", External, n, {})>> ELSE <<>>)

DemoteChunk(n, p) ==
  /\ {p, External} \subseteq mounted
  /\ Has(External, n) \/ HasGoal(p, n)
  /\ \A q \in (Projects \ {p}) \cap mounted : ~HasGoal(q, n)
  /\ \A g \in dir[External][n].goal : g.code \subseteq {p}
  /\ made' = made
  /\ Run(DemoteChunkProgram(n, p))

-----------------------------------------------------------------------------
(* The running command takes its next file step.  A project that cannot be *)
(* resolved ends it there, and what it wrote stays.                        *)
Unresolved == Head(todo).do = "point" /\ Head(todo).r \notin mounted

(* The artifact of a step that leaves a pointer to it behind: its removal, *)
(* and a demotion that drops the project's first entry when that is of     *)
(* another directory's pointer.                                            *)
LeftBehind(f) ==
  {m \in {f.n} : \E p \in Projects, n \in Names : \E x \in dir[p][n].pointer :
                   /\ x.to = m
                   /\ f.do = "removeTree" \/ (f.do = "dropDependent" /\ f.x = <<p, n>>)}

Step ==
  /\ todo # <<>>
  /\ ~Unresolved
  /\ dir' = Written(Head(todo))
  /\ todo' = Tail(todo)
  /\ broken' = broken \cup LeftBehind(Head(todo))
  /\ UNCHANGED <<mounted, made, started>>

Stopped ==
  /\ todo' = <<>>
  /\ broken' = broken \cup {todo[i].n : i \in DOMAIN todo}
  /\ UNCHANGED <<dir, mounted, made, started>>

Fail == todo # <<>> /\ Unresolved /\ Stopped

Kill == todo # <<>> /\ Stopped

(* Between commands a checkout is removed from the task directory or put   *)
(* back.                                                                   *)
Mount(r) ==
  /\ Idle
  /\ mounted' = IF r \in mounted THEN mounted \ {r} ELSE mounted \cup {r}
  /\ UNCHANGED <<dir, made, started, todo, broken>>

TaskNext ==
  \/ \E n \in Names, S \in SUBSET Projects \ {{}} :
       \/ CreateTaskChunk(n, S)
       \/ CreateTaskNarrative(n, S)
       \/ CreateTaskInvestigation(n, S)
       \/ CreateTaskSubsystem(n, S)
  \/ \E p \in Projects, n \in Names : CreateLocal(p, n)
  \/ \E p \in Projects, n, m \in Names : Promote(p, n, m)
  \/ \E m, n \in Names, p \in Projects : CopyAsExternal(m, p, n)
  \/ \E n \in Names, p \in Projects : RemoveFromExternal(n, p)
  \/ \E n \in Names, p \in Projects, goalFirst \in BOOLEAN :
       DemoteArtifact(n, p, goalFirst)
  \/ \E n \in Names : CompleteChunk(n)
  \/ \E n \in Names, p \in Projects : DemoteChunk(n, p)
  \/ Step
  \/ Fail
  \/ Kill
  \/ \E r \in Repos : Mount(r)

TaskSpec == TaskInit /\ [][TaskNext]_taskVars

-----------------------------------------------------------------------------
(* Properties.                                                             *)

(* The type invariant. *)
TasksTypeOK ==
  /\ \A r \in Repos, n \in Names : LET d == dir[r][n] IN
       /\ d.there \in BOOLEAN /\ d.plan \in Option(Contents)
       /\ d.pointer \in Option(Pointers)
       /\ Cardinality(d.goal) <= 1 /\ d.goal \subseteq Goals
       /\ \A g \in d.goal : IsInjective(g.deps)
       /\ ~d.there => d = NoDir
  /\ mounted \subseteq Repos
  /\ made \in 0..MaxMade /\ started \in 0..MaxCommands
  /\ \A i \in DOMAIN todo : todo[i].r \in Repos /\ todo[i].n \in Names
  /\ broken \subseteq Names

Extant(id) == \E r \in Repos, n \in Names : \E g \in dir[r][n].goal : g.id = id

(* An artifact's text is never lost by a promotion, a demotion or an       *)
(* interrupted command, with two exceptions that need two artifacts of one *)
(* name: the copy of a demotion over a project's own artifact, and the     *)
(* removal of the source by demote_chunk when the GOAL.md it found in the  *)
(* target was another artifact's.                                          *)
TextLostOnlyByCollision ==
  [][\A id \in Contents : Extant(id) /\ ~Extant(id)' =>
       LET f == Head(todo)
       IN  \/ /\ f.do = "copyGoal"
              /\ Goal(f.r, f.n).id = id /\ Goal(External, f.n).id # id
           \/ /\ f.do = "removeTree"
              /\ \E p \in Projects : \E g \in dir[p][f.n].goal : g.id # id]_taskVars

(* A reference that resolves goes on showing the same artifact as long as  *)
(* its external.yaml is not rewritten and its checkouts are there.  Only   *)
(* demote_chunk's last step ends that, and only for the pointers it does   *)
(* not look for: those under another name, or in a checkout that is away.  *)
ReferencesKeepTheirArtifact ==
  [][\A p \in Projects, n \in Names :
       (/\ ResolvedText(p, n) # {}
        /\ IsPointer(p, n)' /\ dir'[p][n].pointer = dir[p][n].pointer
        /\ mounted' = mounted) =>
       \/ ResolvedText(p, n)' = ResolvedText(p, n)
       \/ Head(todo).do = "removeTree" /\ Target(p, n) # n]_taskVars

(* Between commands, an artifact no command was interrupted on, and that   *)
(* left no pointer behind, lists every project with a pointer written for  *)
(* it: an artifact that `ve artifact remove-external` reports as orphaned  *)
(* has no reader left.                                                     *)
PointedAreListed ==
  Idle => \A p \in Projects, n \in Names :
    \A x \in dir[p][n].pointer :
      x.to \in broken \/ n \in broken
        \/ \A g \in dir[External][x.to].goal : g.id = x.for => \E i \in DOMAIN g.deps : g.deps[i][1] = p

(* No artifact's text drops out of the task's lists while the checkout it  *)
(* is in is there, whatever references were written over it.               *)
ListsShowEveryText ==
  \A r \in mounted, n \in Names : HasGoal(r, n) => n \in TaskList[r]

Removes(n) == Len(todo) = 1 /\ Head(todo).do = "removeTree" /\ Head(todo).n = n

(* However often demote_chunk was interrupted before, a run that reaches   *)
(* its end leaves the chunk in the target without dependents, without the  *)
(* target's prefix and without an external.yaml that was written for it,   *)
(* and no reference of its name in any checkout that is there; a target    *)
(* that held another artifact of the name is left out (see                 *)
(* TextLostOnlyByCollision).                                               *)
DemotionCompletes ==
  [][\A n \in Names, p \in mounted \ {External} : (Removes(n) /\ dir' # dir) =>
       /\ HasGoal(p, n)' \/ ~HasPointer(p, n)'
       /\ \A g \in dir'[p][n].goal : g.id \in {h.id : h \in dir[External][n].goal} =>
            /\ \A x \in dir'[p][n].pointer : x.for # g.id
            /\ g.deps = <<>> /\ p \notin g.code]_taskVars

(* The invariant of the module: its types, the lists of dependents and the *)
(* listings of the task.                                                   *)
TasksInv == TasksTypeOK /\ PointedAreListed /\ ListsShowEveryText

(* What promotion and demotion owe to the texts they move: none is lost    *)
(* but by a collision of names, a demotion that ends is complete, and a    *)
(* reference goes on showing the same artifact.                            *)
TextsKept == TextLostOnlyByCollision /\ DemotionCompletes /\ ReferencesKeepTheirArtifact
=============================================================================
