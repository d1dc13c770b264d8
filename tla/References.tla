----------------------------- MODULE References -----------------------------
(***************************************************************************)
(* What the workflow artifacts of a project say of each other: chunks name *)
(* the chunks they come after or depend on and the narratives, subsystems, *)
(* investigations and friction entries they belong to; those list their    *)
(* chunks; source files carry comments that name chunks. `ve validate'     *)
(* reports what points nowhere. `ve chunk cluster-rename' renames a group  *)
(* of chunks and what names them, consolidation moves comments from chunks *)
(* to a narrative.                                                         *)
(*                                                                         *)
(* A name that shares the renamed prefix is in the domain of NewName. The  *)
(* text of a name may occur in another (Inside), which replacements of     *)
(* text do not tell apart. One command runs at a time. Nobody removes      *)
(* artifacts (Workspace does).                                             *)
(***************************************************************************)
EXTENDS Integers, FiniteSets, FiniteSetsExt

CONSTANTS
  Chunks, Narratives, Investigations, Subsystems,   \* names
  Files,       \* source files
  NewName,     \* what cluster-rename calls the chunks with the old prefix
  Inside,      \* pairs of such a chunk and another name that has its name's text in it
  Searched,    \* the source files in which cluster-rename finds comments that name chunks
  MaxChunks,   \* bound on the chunk directories
  MaxLinks,    \* bound on the references
  MaxEntries   \* bound on the friction entries

ASSUME NewNames == /\ DOMAIN NewName \subseteq Chunks
                   /\ \A c \in DOMAIN NewName : NewName[c] \in Chunks
                   /\ \A c, d \in DOMAIN NewName : NewName[c] = NewName[d] => c = d
ASSUME Texts == /\ Inside \subseteq (DOMAIN NewName) \X
                     (Chunks \union Narratives \union Investigations \union Subsystems \union Files)
                /\ Searched \subseteq Files
ASSUME ReferenceBounds == {MaxChunks, MaxLinks, MaxEntries} \subseteq Nat

VARIABLES
  here,      \* the directories of docs/chunks
  external,  \* those that hold a pointer to another repository instead of a goal
  parents,   \* the directories of docs/narratives, docs/investigations, docs/subsystems
  entries,   \* the numbers of the entries of FRICTION.md
  links      \* what the files say: a set of [kind, from, to]
referenceVars == <<here, external, parents, entries, links>>

FrictionLog == {"friction_log"}
\* An artifact is its directory, under that of its kind.
ASSUME KindsApart ==
  /\ (Chunks \union Files) \intersect (Narratives \union Investigations \union Subsystems) = {}
  /\ Chunks \intersect Files = {} /\ Subsystems \intersect (Narratives \union Investigations) = {}
  /\ FrictionLog \notin Chunks \union Narratives \union Investigations \union Subsystems
  /\ Chunks \intersect Nat = {}
Renamed == DOMAIN NewName
Local == here \ external
Link(kind, from, to) == [kind |-> kind, from |-> from, to |-> to]

\* The fields that refer to something, the kind of file they are in, and what they may name.
Sources(kind) ==
  CASE kind \in {"after", "depends", "narrative", "investigation", "subsystem", "friction", "code"} -> Local
    [] kind = "lists" -> (parents \ Subsystems) \union {FrictionLog}
    [] kind = "implements" -> parents \intersect Subsystems
    [] OTHER -> Files
Existing(kind) ==
  CASE kind \in {"after", "depends", "lists", "implements", "backref"} -> here
    [] kind \in {"narrative", "narrative_ref"} -> parents \intersect Narratives
    [] kind = "investigation" -> parents \intersect Investigations
    [] kind \in {"subsystem", "subsystem_ref"} -> parents \intersect Subsystems
    [] kind = "friction" -> entries
    [] OTHER -> Files
\* The names a field may have in it, of what exists or not.
Targets(kind) ==
  CASE kind \in {"after", "depends", "lists", "implements", "backref"} -> Chunks
    [] kind \in {"narrative", "narrative_ref"} -> Narratives
    [] kind = "investigation" -> Investigations
    [] kind \in {"subsystem", "subsystem_ref"} -> Subsystems
    [] kind = "friction" -> Nat
    [] OTHER -> Files
LinkKinds == {"after", "depends", "narrative", "investigation", "subsystem", "friction", "code",
              "lists", "implements", "backref", "subsystem_ref", "narrative_ref"}

Dangling == {l \in links : l.to \notin Existing(l.kind)}

-----------------------------------------------------------------------------
(* ve validate. *)

Lists(p) == {l.to : l \in {l \in links : l.kind \in {"lists", "implements"} /\ l.from = p}}
CodeFiles(c) == {l.to : l \in {l \in links : l.kind = "code" /\ l.from = c}}

OutboundErrors(c) ==
  {l \in links : l.from = c /\
     \/ l.kind \in {"narrative", "investigation", "subsystem"} /\ l.to \notin parents
     \/ l.kind = "friction" /\ l.to \notin entries
     \/ l.kind = "depends" /\ l.to \notin Local}
OutboundWarnings(c) ==
  {l \in links : l.from = c /\ l.kind \in {"narrative", "investigation", "subsystem"}
                 /\ l.to \in parents /\ c \notin Lists(l.to)}

NarrativeErrors(n) == {l \in links : l.kind = "lists" /\ l.from = n /\ l.to \notin Local}
InvestigationErrors(i) == {l \in links : l.kind = "lists" /\ l.from = i /\ l.to \notin Local}
FrictionErrors == {l \in links : l.kind = "lists" /\ l.from = FrictionLog /\ l.to \notin Local}

\* Mutant: a pointer is not counted as a chunk.
SubsystemErrorsLocal(s) == {l \in links : l.kind = "implements" /\ l.from = s /\ l.to \notin Local}

SubsystemErrors(s) == {l \in links : l.kind = "implements" /\ l.from = s /\ l.to \notin here}
SubsystemWarnings(s) ==
  {l \in links : l.kind = "implements" /\ l.from = s /\ l.to \in Local
                 /\ Link("subsystem", l.to, s) \notin links}

BackreferenceErrors ==
  {l \in links : \/ l.kind = "backref" /\ l.to \notin here
                 \/ l.kind = "subsystem_ref" /\ l.to \notin parents}
BackreferenceWarnings ==
  {l \in links : l.kind = "backref" /\ l.to \in Local /\ l.from \notin CodeFiles(l.to)}

Errors ==
  (UNION {OutboundErrors(c) : c \in Local})
  \union (UNION {NarrativeErrors(n) : n \in parents \intersect Narratives})
  \union (UNION {InvestigationErrors(i) : i \in parents \intersect Investigations})
  \union (UNION {SubsystemErrors(s) : s \in parents \intersect Subsystems})
  \union FrictionErrors \union BackreferenceErrors
Warnings ==
  (UNION {OutboundWarnings(c) : c \in Local})
  \union (UNION {SubsystemWarnings(s) : s \in parents \intersect Subsystems})
  \union BackreferenceWarnings

\* ve chunk validate, of a chunk whose status allows completion: it needs code
\* references, and nothing outbound may be missing but a chunk it depends on.
ReadyToComplete(c) ==
  /\ CodeFiles(c) # {}
  /\ {l \in OutboundErrors(c) : l.kind # "depends"} = {}

-----------------------------------------------------------------------------
(* Writing. *)

CreateChunk(c, after) ==
  /\ c \notin here /\ Cardinality(here) < MaxChunks
  /\ Cardinality(links) + Cardinality(after) <= MaxLinks
  /\ here' = here \union {c}
  /\ links' = links \union {Link("after", c, p) : p \in after}
  /\ UNCHANGED <<external, parents, entries>>

CreateExternal(c) ==
  /\ c \notin here /\ Cardinality(here) < MaxChunks
  /\ here' = here \union {c} /\ external' = external \union {c}
  /\ UNCHANGED <<parents, entries, links>>

CreateParent(p) ==
  /\ p \notin parents
  /\ parents' = parents \union {p}
  /\ UNCHANGED <<here, external, entries, links>>

\* An agent or the operator writes a reference into a file, or a comment into the code.
AddReference(kind, from, to) ==
  /\ kind \notin {"after", "narrative_ref"}
  /\ Cardinality(links) < MaxLinks
  /\ from \in Sources(kind) /\ to \in Existing(kind) /\ to # from
  /\ Link(kind, from, to) \notin links
  /\ kind \in {"narrative", "investigation"} => \A l \in links : ~(l.kind = kind /\ l.from = from)
  /\ links' = links \union {Link(kind, from, to)}
  /\ UNCHANGED <<here, external, parents, entries>>

\* ve friction log: the new number follows the greatest.
AppendEntry ==
  /\ Cardinality(entries) < MaxEntries
  /\ entries' = entries \union {1 + Max({0} \union entries)}
  /\ UNCHANGED <<here, external, parents, links>>

\* ve narrative compact: a new narrative that lists the chunks; a pointer is a chunk too.
Compact(cs, n) ==
  /\ Cardinality(cs) >= 2 /\ cs \subseteq here /\ n \notin parents
  /\ Cardinality(links) + Cardinality(cs) <= MaxLinks
  /\ parents' = parents \union {n}
  /\ links' = links \union {Link("lists", n, c) : c \in cs}
  /\ UNCHANGED <<here, external, entries>>

\* consolidate_chunks also makes the narrative that of the chunks.
Consolidate(cs, n) ==
  /\ cs # {} /\ cs \subseteq Local /\ n \notin parents
  /\ parents' = parents \union {n}
  /\ LET kept == {l \in links : ~(l.kind = "narrative" /\ l.from \in cs)}
     IN  links' = kept \union {Link("lists", n, c) : c \in cs}
                       \union {Link("narrative", c, n) : c \in cs}
  /\ Cardinality(links') <= MaxLinks
  /\ UNCHANGED <<here, external, entries>>

\* update_backreferences: the comments of one file that name the chunks become one that
\* names the narrative.
Replaced(ls, f, cs, n) ==
  {l \in ls : ~(l.kind = "backref" /\ l.from = f /\ l.to \in cs)} \union {Link("narrative_ref", f, n)}

\* ve narrative update-refs.
UpdateRefs(n, f) ==
  /\ n \in parents
  /\ \E l \in links : l.kind = "backref" /\ l.from = f /\ l.to \in Lists(n)
  /\ links' = Replaced(links, f, Lists(n), n)
  /\ UNCHANGED <<here, external, parents, entries>>

-----------------------------------------------------------------------------
(* ve chunk cluster-rename --execute. *)

Name(c) == IF c \in Renamed THEN NewName[c] ELSE c
Matching == here \intersect Renamed

CreatedAfterUpdates == {l \in links : l.kind = "after" /\ l.to \in Renamed}
\* Mutant: a subsystem's chunks are looked for where the others have theirs.
ListedBySubsystems == {l \in links : l.kind = "lists" /\ l.from \in Subsystems /\ l.to \in Renamed}
SubsystemUpdates == {l \in links : l.kind = "implements" /\ l.to \in Renamed}
NarrativeUpdates == {l \in links : l.kind = "lists" /\ l.from \in Narratives /\ l.to \in Renamed}
InvestigationUpdates == {l \in links : l.kind = "lists" /\ l.from \in Investigations /\ l.to \in Renamed}
FrontmatterUpdates ==
  CreatedAfterUpdates \union SubsystemUpdates \union NarrativeUpdates \union InvestigationUpdates

\* In a file with updates each old name is replaced by the new one wherever its text is in
\* the frontmatter.
OldValues(file, updates) == {u.to : u \in {u \in updates : u.from = file}}
InText(name, text) == name = text \/ <<name, text>> \in Inside

\* A reference that another update of its file reaches, before or after its own.
Garbled(updates) ==
  {l \in links : /\ l.kind # "friction"
                 /\ \E name \in OldValues(l.from, updates) \ {l.to} :
                      \/ InText(name, l.to)
                      \/ l.to \in OldValues(l.from, updates) /\ InText(name, NewName[l.to])}
\* What it then says is left open.
NewTexts(updates) ==
  {text \in [Garbled(updates) -> UNION {Targets(l.kind) : l \in Garbled(updates)}] :
     \A l \in Garbled(updates) : text[l] \in Targets(l.kind)}

FrontmatterUpdated(l, updates, text) ==
  IF l \in Garbled(updates) THEN [l EXCEPT !.to = text[l]]
  ELSE IF l.to \in OldValues(l.from, updates) THEN [l EXCEPT !.to = NewName[l.to]] ELSE l
\* Comments are found by the text of the names, which is where the new ones differ.
BackreferenceUpdated(l) ==
  IF /\ l.kind = "backref" /\ l.from \in Searched /\ l.to \in Renamed
     /\ \E c \in Matching : InText(c, l.to)
  THEN [l EXCEPT !.to = NewName[l.to]] ELSE l
Moved(l) == IF l.from \in Matching THEN [l EXCEPT !.from = Name(@)] ELSE l

\* No new name is taken, but by the chunk itself.
MayRename == Matching # {} /\ \A c \in Matching : NewName[c] = c \/ NewName[c] \notin here
MovedDirectories == {c \in Matching : NewName[c] # c}
DirectoriesRenamed ==
  /\ here' = {Name(c) : c \in here} /\ external' = {Name(c) : c \in external}
  /\ UNCHANGED <<parents, entries>>

\* The updates name files as they were before the directories moved: this succeeds if
\* none is in a moved directory.
RenameSucceeds ==
  /\ MayRename
  /\ \A u \in CreatedAfterUpdates : u.from \notin MovedDirectories
  /\ \E text \in NewTexts(FrontmatterUpdates) :
       links' = {Moved(BackreferenceUpdated(FrontmatterUpdated(l, FrontmatterUpdates, text))) : l \in links}
  /\ DirectoriesRenamed

\* Otherwise the first such file is not found, after the goals before it were written and
\* before anything else was.
RenameFails(written) ==
  /\ MayRename
  /\ \E u \in CreatedAfterUpdates : u.from \in MovedDirectories
  /\ written \subseteq {u.from : u \in CreatedAfterUpdates} \ MovedDirectories
  /\ LET updates == {u \in CreatedAfterUpdates : u.from \in written}
     IN  \E text \in NewTexts(updates) :
           links' = {Moved(FrontmatterUpdated(l, updates, text)) : l \in links}
  /\ DirectoriesRenamed

-----------------------------------------------------------------------------
ReferenceInit == here = {} /\ external = {} /\ parents = {} /\ entries = {} /\ links = {}

WriteStep ==
  \/ \E c \in Chunks : CreateExternal(c) \/ \E after \in SUBSET here : CreateChunk(c, after)
  \/ \E p \in Narratives \union Investigations \union Subsystems : CreateParent(p)
  \/ AppendEntry
  \/ \E kind \in LinkKinds : \E from \in Sources(kind), to \in Existing(kind) : AddReference(kind, from, to)
NarrativeStep ==
  \E n \in Narratives : \/ \E cs \in SUBSET Chunks : Compact(cs, n) \/ Consolidate(cs, n)
                        \/ \E f \in Files : UpdateRefs(n, f)
RenameStep == RenameSucceeds \/ \E written \in SUBSET here : RenameFails(written)
ReferenceNext == WriteStep \/ NarrativeStep \/ RenameStep
ReferenceSpec == ReferenceInit /\ [][ReferenceNext]_referenceVars

-----------------------------------------------------------------------------
(* Properties. *)

\* Every reference stands in a file that exists, also after any rename.
ReferenceTypeOK ==
  /\ external \subseteq here /\ here \subseteq Chunks
  /\ \A l \in links : l.kind \in LinkKinds /\ l.from \in Sources(l.kind)

\* The many passes of `ve validate' find exactly what points nowhere, except created_after,
\* the code a chunk refers to, and comments naming narratives, which none of them reads;
\* and they take a pointer for missing where a chunk depends on it or a narrative,
\* investigation or the friction log lists it.
ValidateFinds ==
  Errors = {l \in Dangling : l.kind \notin {"after", "code", "narrative_ref"}}
           \union {l \in links : l.kind \in {"depends", "lists"} /\ l.to \in external}

\* Only a rename makes `ve validate' report what it did not report before, but for a
\* pointer that a narrative is told to list or a chunk to depend on.
OnlyRenameBreaks ==
  [][ \/ Errors' \subseteq Errors \union {l \in links' : l.to \in external'}
      \/ RenameStep ]_referenceVars

\* A rename that does not fail leaves a valid project valid, but for what it does not
\* rewrite - what a chunk depends on, what the friction log lists, comments where it does not
\* look - and for what it garbles. If it garbles nothing, references that answered each other
\* still do; and a chunk ready to be completed still is, if nothing in its goal was garbled.
RenameKeepsValid ==
  [][ RenameSucceeds =>
        LET garbled == Garbled(FrontmatterUpdates)
        IN  /\ Errors = {} =>
                 \A l \in Errors' : \/ l.kind = "depends" \/ l.from = FrictionLog
                                    \/ l.kind = "backref" /\ l.from \notin Searched
                                    \/ \E g \in garbled : l.kind = g.kind /\ l.from = Name(g.from)
            /\ Errors = {} /\ Warnings = {} /\ garbled = {} => Warnings' = {}
            /\ \A c \in Local : ReadyToComplete(c) /\ (\A g \in garbled : g.from # c)
                                 => ReadyToComplete(Name(c))' ]_referenceVars

\* The invariant of the module: its types, and what `ve validate' finds.
ReferenceInv == ReferenceTypeOK /\ ValidateFinds

\* A valid project stays valid: no command but a rename breaks a reference, and a rename
\* only those it is known not to rewrite or to garble (cluster_rename.py).
ValidStaysValid == OnlyRenameBreaks /\ RenameKeepsValid
=============================================================================
