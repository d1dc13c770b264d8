----------------------------- MODULE EntityMemory -----------------------------
(***************************************************************************)
(* The three memory tiers of a legacy entity and the sleep cycle that      *)
(* consolidates them: one `ve entity shutdown' writes the journals of the  *)
(* session, asks a model how they fit the tiers, merges the answer title   *)
(* by title, deletes the journals and lets what was not reinforced decay.  *)
(* `touch' reinforces a memory at any time, also while the model is asked. *)
(*                                                                         *)
(* Each file operation of the merge is a step, so that a kill can fall     *)
(* between two of them. A day is what the code calls a cycle.              *)
(***************************************************************************)
EXTENDS Integers, Sequences, FiniteSets, FiniteSetsExt

CONSTANTS
  Titles,
  MinJournals,    \* below this many journals, and with no other tier, nothing is asked
  Tier0Expiry, Tier1Decay, Tier2Demote,   \* DecayConfig, in days
  CoreBudget,     \* DecayConfig.tier2_capacity
  MaxDay,         \* bound on the days that pass
  MaxFiles,       \* bound on the memory files of an entity
  MaxAnswer,      \* bound on the entries of one answer
  MaxCycles,      \* bound on shutdowns
  MaxCrashes      \* bound on kills in the middle of a cycle

ASSUME MemoryBounds ==
  /\ {MinJournals, Tier0Expiry, Tier1Decay, Tier2Demote, CoreBudget} \subseteq Nat \ {0}
  /\ {MaxDay, MaxFiles, MaxAnswer, MaxCycles, MaxCrashes} \subseteq Nat

VARIABLES
  files,     \* memories/*/*.md: a set of [tier, title, nth, seen]
  snapshot,  \* .snapshot_pre_consolidation: the [tier, title] of the copied files
  day,       \* the date
  cycle,     \* the running or last shutdown
  cycles,    \* how many there were
  crashes
memVars == <<files, snapshot, day, cycle, cycles, crashes>>

Tiers == {"journal", "consolidated", "core"}
Upper == {"consolidated", "core"}

-----------------------------------------------------------------------------
(* Files. A file name is the time it was written and the title: nth tells the *)
(* files of one title in one tier apart, in the order they were written.      *)

Path(f) == [tier |-> f.tier, title |-> f.title, nth |-> f.nth]
TierFiles(t) == {f \in files : f.tier = t}
UpperFiles(fs) == {f \in fs : f.tier \in Upper}
TitlesOf(fs) == {f.title : f \in fs}

\* write_memory: a new file in the directory of the memory's tier, under a name that no file
\* has and none had that the cycle still knows of.
WriteMemory(fs, tier, title, seen) ==
  LET known == {Path(f) : f \in fs} \union cycle.old
      same == {p.nth : p \in {p \in known : p.tier = tier /\ p.title = title}}
  IN  fs \union {[tier |-> tier, title |-> title, nth |-> 1 + Max({0} \union same), seen |-> seen]}

\* find_memory searches the tiers from the top and touch sets last_reinforced.
TouchMemory(title) ==
  LET found == {f \in files : f.title = title}
      tier == IF \E f \in found : f.tier = "core" THEN "core"
              ELSE IF \E f \in found : f.tier = "consolidated" THEN "consolidated"
              ELSE "journal"
  IN  \E f \in {f \in found : f.tier = tier} :
        /\ f.seen # day
        /\ files' = (files \ {f}) \union {[f EXCEPT !.seen = day]}
        /\ UNCHANGED <<snapshot, day, cycle, cycles, crashes>>

\* recall_memory searches the two upper tiers.
Recalled(query) == {f \in UpperFiles(files) : f.title = query}

-----------------------------------------------------------------------------
(* The cycle. *)

NoCycle == [pc |-> "off", read |-> {}, journals |-> {}, todo |-> <<>>, key |-> "none",
         old |-> {}, keep |-> {}, filed |-> {}, demote |-> {}, events |-> {}]
Running == cycle.pc \notin {"off", "done", "crashed"}

\* Titles to files: of two files with one title the later is remembered.
ByTitle(fs) == {Path(f) : f \in {f \in fs : \A g \in fs : g.title = f.title => g.nth <= f.nth}}

\* What the session's transcript or the memories file says: entries that are no memories
\* are skipped, and an entry that names a tier goes there.
Extracted == {new \in SUBSET [tier : Tiers, title : Titles] : IsFiniteSet(new)}

\* Up to the question: the new memories are on disk and every tier was read.
StartCycle(new) ==
  /\ ~Running /\ cycles < MaxCycles
  /\ Cardinality(files) + Cardinality(new) <= MaxFiles
  /\ files' = files \union UNION {WriteMemory(files, e.tier, e.title, day) : e \in new}
  /\ LET journals == {f \in files' : f.tier = "journal"}
         read == TitlesOf(UpperFiles(files'))
     IN  cycle' = [NoCycle EXCEPT
              !.pc = IF read = {} /\ Cardinality(journals) < MinJournals THEN "done" ELSE "asked",
              !.read = read, !.journals = ByTitle(journals)]
  /\ cycles' = cycles + 1
  /\ UNCHANGED <<snapshot, day, crashes>>

\* The API cannot be reached: the journals stay, and the command fails.
AskFails ==
  /\ cycle.pc = "asked"
  /\ cycle' = NoCycle
  /\ UNCHANGED <<files, snapshot, day, cycles, crashes>>

\* The model may repeat the date it was shown, and may give an entry the field of another
\* tier than the list it is in, the journals' too.
AnswerEntries ==
  {e \in [key : Upper, tier : Tiers, title : Titles, seen : 0 .. day] :
     e.seen = day \/ \E f \in files : f.title = e.title /\ f.seen = e.seen}

\* The entries are merged tier by tier.
Answers ==
  {a \in UNION {[1 .. n -> AnswerEntries] : n \in 0 .. MaxAnswer} :
     \A i, j \in DOMAIN a : i < j /\ a[i].key = "core" => a[j].key = "core"}

\* _snapshot_tiers replaces the snapshot of the cycle before.
SnapshotTiers == snapshot' = {[tier |-> f.tier, title |-> f.title] : f \in UpperFiles(files)}

\* An answer that cannot be parsed is an answer with no entry and nothing to keep.
Answered ==
  /\ cycle.pc = "asked"
  /\ \E a \in Answers, keep \in SUBSET {j.title : j \in cycle.journals} :
       cycle' = [cycle EXCEPT !.pc = "merging", !.todo = a, !.keep = keep]
  /\ SnapshotTiers
  /\ UNCHANGED <<files, day, cycles, crashes>>

\* A tier's titles are looked up once, before its first entry is merged.
LoadTier ==
  /\ cycle.pc = "merging" /\ cycle.todo # <<>>
  /\ cycle.key # Head(cycle.todo).key
  /\ cycle' = [cycle EXCEPT !.key = Head(cycle.todo).key, !.old = ByTitle(TierFiles(Head(cycle.todo).key))]
  /\ UNCHANGED <<files, snapshot, day, cycles, crashes>>

\* Mutant: the tier is replaced by the answer, as it was once.
WipeTier ==
  /\ cycle.pc = "merging" /\ cycle.todo # <<>>
  /\ cycle.key = Head(cycle.todo).key
  /\ files' = {f \in files : f.tier # cycle.key}
  /\ cycle' = [cycle EXCEPT !.pc = "writing"]
  /\ UNCHANGED <<snapshot, day, cycles, crashes>>

\* The file with the entry's title is deleted; a second entry with that title finds it
\* gone, and the command fails.
UnlinkOld ==
  /\ cycle.pc = "merging" /\ cycle.todo # <<>>
  /\ cycle.key = Head(cycle.todo).key
  /\ LET old == {o \in cycle.old : o.title = Head(cycle.todo).title}
         there == old \subseteq {Path(f) : f \in files}
     IN  /\ files' = {f \in files : Path(f) \notin old}
         /\ cycle' = [cycle EXCEPT !.pc = IF there THEN "writing" ELSE "crashed"]
  /\ UNCHANGED <<snapshot, day, cycles, crashes>>

WriteEntry ==
  /\ cycle.pc = "writing"
  /\ LET e == Head(cycle.todo)
     IN  /\ files' = WriteMemory(files, e.tier, e.title, e.seen)
         /\ cycle' = [cycle EXCEPT !.pc = "merging", !.todo = Tail(@),
                         !.filed = IF e.tier = "journal" THEN @ \union {e.title} ELSE @]
  /\ UNCHANGED <<snapshot, day, cycles, crashes>>

\* The journals go, but for the titles the answer calls unconsolidated.
RemoveJournals ==
  /\ cycle.pc = "merging" /\ cycle.todo = <<>>
  /\ files' = {f \in files : Path(f) \notin cycle.journals \/ f.title \in cycle.keep}
  /\ cycle' = [cycle EXCEPT !.pc = "decaying"]
  /\ UNCHANGED <<snapshot, day, cycles, crashes>>

-----------------------------------------------------------------------------
(* Decay: apply_decay decides, run_consolidation carries it out. *)

Age(f) == day - f.seen
Expired(fs) == {f \in fs : \/ f.tier = "journal" /\ Age(f) >= Tier0Expiry
                           \/ f.tier = "consolidated" /\ Age(f) >= Tier1Decay}
\* A lower salience is logged; no file is written for it.
Fading(fs) == {f \in fs : f.tier = "consolidated" /\ Age(f) < Tier1Decay
                          /\ Age(f) >= Tier1Decay \div 2}
Stale(fs) == {f \in fs : f.tier = "core" /\ Age(f) >= Tier2Demote}

\* Stale core memories, and of the others what is over the budget, the least recently
\* reinforced first.
Demoted(fs) ==
  LET core == {f \in fs : f.tier = "core"} \ Stale(fs)
      excess == Max({0, Cardinality(core) - CoreBudget})
  IN  {Stale(fs) \union d : d \in {d \in SUBSET core :
        Cardinality(d) = excess /\ \A f \in d, g \in core \ d : f.seen <= g.seen}}

DecayEvents(fs, demoted) ==
  LET event(gs, action) == {[title |-> f.title, from |-> f.tier, action |-> action] : f \in gs}
  IN  event(Expired(fs), "expired") \union event(Fading(fs), "salience_reduced")
        \union event(demoted, "demoted")

\* The expired files are removed.
Decay ==
  /\ cycle.pc = "decaying"
  /\ \E d \in Demoted(files) :
       cycle' = [cycle EXCEPT !.pc = "demoting", !.events = DecayEvents(files, d),
                              !.demote = {Path(f) : f \in d}]
  /\ files' = files \ Expired(files)
  /\ UNCHANGED <<snapshot, day, cycles, crashes>>

\* A demoted memory is written to the lower tier, and then its core file is removed.
DemoteCopy ==
  /\ cycle.pc = "demoting"
  /\ \E f \in {f \in files : Path(f) \in cycle.demote} :
       /\ files' = WriteMemory(files, "consolidated", f.title, f.seen)
       /\ cycle' = [cycle EXCEPT !.pc = "unlinking", !.old = {Path(f)}]
  /\ UNCHANGED <<snapshot, day, cycles, crashes>>

DemoteUnlink ==
  /\ cycle.pc = "unlinking"
  /\ files' = {f \in files : Path(f) \notin cycle.old}
  /\ cycle' = [cycle EXCEPT !.pc = "demoting", !.demote = @ \ cycle.old]
  /\ UNCHANGED <<snapshot, day, cycles, crashes>>

\* append_decay_events, and the summary.
EndCycle ==
  /\ cycle.pc = "demoting" /\ cycle.demote = {}
  /\ cycle' = [NoCycle EXCEPT !.pc = "done", !.read = cycle.read, !.keep = cycle.keep,
                           !.filed = cycle.filed, !.events = cycle.events]
  /\ UNCHANGED <<files, snapshot, day, cycles, crashes>>

\* The process is killed.
CycleKilled ==
  /\ Running /\ crashes < MaxCrashes
  /\ crashes' = crashes + 1
  /\ cycle' = [NoCycle EXCEPT !.pc = "crashed", !.read = cycle.read]
  /\ UNCHANGED <<files, snapshot, day, cycles>>

NextDay ==
  /\ ~Running /\ day < MaxDay
  /\ day' = day + 1
  /\ UNCHANGED <<files, snapshot, cycle, cycles, crashes>>

CycleStep == \/ AskFails \/ Answered \/ LoadTier \/ UnlinkOld \/ WriteEntry \/ RemoveJournals
             \/ Decay \/ DemoteCopy \/ DemoteUnlink \/ EndCycle \/ CycleKilled

MemNext == \/ CycleStep \/ NextDay
           \/ \E new \in Extracted : StartCycle(new)
           \/ \E t \in Titles : TouchMemory(t)

MemInit == /\ files = {} /\ snapshot = {} /\ day = 0 /\ cycle = NoCycle
           /\ cycles = 0 /\ crashes = 0
MemSpec == MemInit /\ [][MemNext]_memVars

-----------------------------------------------------------------------------
(* Properties. *)

\* The files of the tiers are memories, no two share a name, and the snapshot holds the
\* two upper tiers only (write_memory, _snapshot_tiers).
MemoryTypeOK ==
  /\ files \subseteq [tier : Tiers, title : Titles, nth : Nat \ {0}, seen : 0 .. MaxDay]
  /\ \A f, g \in files : Path(f) = Path(g) => f = g
  /\ snapshot \subseteq [tier : Upper, title : Titles]
  /\ day \in 0 .. MaxDay /\ cycles \in 0 .. MaxCycles /\ crashes \in 0 .. MaxCrashes
  /\ cycle.read \union cycle.keep \union cycle.filed \subseteq Titles

\* Decay removed a memory of the tier with this title and logged it.
ExpiryLogged(title, tier) == [title |-> title, from |-> tier, action |-> "expired"] \in cycle.events

\* A shutdown that ended left every memory it found in an upper tier in one of them,
\* whatever the model forgot, repeated or moved, unless decay logged it as expired: tiers are
\* merged and never replaced (run_consolidation). But an entry of the answer that names the
\* journals' tier takes the memory there, where it is not recalled, and stays or is logged
\* as expired there.
SurvivesShutdown ==
  cycle.pc = "done" =>
    \A t \in cycle.read :
      \/ Recalled(t) # {} \/ ExpiryLogged(t, "consolidated")
      \/ t \in cycle.filed /\ (t \in TitlesOf(TierFiles("journal")) \/ ExpiryLogged(t, "journal"))

\* At every moment of a cycle, and after a kill or a failure in it, each memory that it
\* found in an upper tier is on disk or in the snapshot (_snapshot_tiers comes before the
\* first deletion).
SnapshotRecovers ==
  cycle.read \subseteq TitlesOf(UpperFiles(files)) \union {s.title : s \in snapshot}

\* A journal the model calls unconsolidated is there for the next cycle, unless it was
\* logged as expired (the deletion of journals in run_consolidation).
UnmergedJournalsStay ==
  cycle.pc = "done" =>
    \A t \in cycle.keep : t \in TitlesOf(TierFiles("journal")) \/ ExpiryLogged(t, "journal")

\* The core an ended shutdown leaves is within its budget, stale memories and the answer's
\* new ones included (apply_decay).
CoreWithinBudget ==
  cycle.pc = "done" => Cardinality(TierFiles("core")) <= CoreBudget

\* The invariant of the module: its types, and that no memory is lost by a cycle that
\* ends, fails or is killed (run_consolidation, apply_decay).
MemoryInv ==
  /\ MemoryTypeOK /\ SurvivesShutdown /\ SnapshotRecovers
  /\ UnmergedJournalsStay /\ CoreWithinBudget
=============================================================================
