--------------------------- MODULE CommandProofs ---------------------------
(***************************************************************************)
(* Proofs about what commands do to files that others use at the same      *)
(* time: the cache of external repositories, the references between        *)
(* documents, the artifacts a task moves between repositories; and about   *)
(* the batches of chunks that `ve orch inject' sorts and injects.          *)
(*                                                                         *)
(* Of the cache, the invariant says how far a command has come (Fits).  Of *)
(* references, what a step may remove and where a renamed chunk's go       *)
(* (Follows).  Of tasks, what each file step that is left to do relies on, *)
(* and that a pointer's artifact is there and lists it, or soon will.  Of  *)
(* batches, what the sort's loop knows after each turn, and what a unit    *)
(* may wait for while the others go on.                                    *)
(***************************************************************************)
EXTENDS References, Tasks, RepoCache, Batch, SequenceTheorems, FiniteSetTheorems, WellFoundedInduction, TLAPS

-----------------------------------------------------------------------------
(* The cache of external repositories. *)

\* The checkout is of a commit of origin/HEAD, and origin/HEAD one of the remote; a cache
\* that is no checkout has neither.
CacheFits ==
  /\ cache.origin <= remote
  /\ cache.state = "ready" => cache.head <= cache.origin
  /\ cache.state # "ready" => cache.head = 0

\* How far a command has come: what it made current is as young as the command, what it
\* resolved is a commit of the time since, and the checkout never goes back.
Fits(r) ==
  LET x == reader[r] IN
  x.pc \notin {"idle", "failed"} =>
    /\ x.began <= remote
    /\ cache.state = "ready" /\ x.pc = "reset" => x.began <= cache.origin
    /\ cache.state = "ready" /\ x.pc = "ask" => x.began <= cache.head
    /\ x.pc \in {"list", "shown"} => x.ask = "plan"
    /\ x.ask \in {"text", "plan"} => /\ x.began <= x.sha /\ x.sha <= remote
                                     /\ cache.state = "ready" => x.sha <= cache.head
    /\ x.ask = "plan" => x.text = x.sha
    /\ x.pc = "shown" => x.listed >= x.sha \/ x.listed = 0

CacheIInv == CacheTypeOK /\ CacheFits /\ PartialIsCloning /\ \A r \in Readers : Fits(r)

\* The checkout moves forward, or what was resolved of it is as young as the remote's head.
Forward ==
  /\ remote' \in Nat /\ cache' \in Cache /\ remote' >= remote
  /\ cache'.state = "ready" =>
       \/ cache.state = "ready" /\ cache'.origin >= cache.origin /\ cache'.head >= cache.head
       \/ cache'.head = remote /\ cache'.origin = remote

\* A command that took no part in the step fits after it.
LEMMA ForwardFits ==
  ASSUME CacheIInv, Forward, NEW r \in Readers, reader'[r] = reader[r]
  PROVE  Fits(r)'
<1>1. /\ reader[r].began \in Nat /\ reader[r].sha \in Nat /\ remote \in Nat
      /\ cache.origin \in Nat /\ cache.head \in Nat /\ cache'.origin \in Nat /\ cache'.head \in Nat
      /\ remote' \in Nat
  BY CacheBounds DEF CacheIInv, CacheTypeOK, Reader, Cache, Forward
<1>2. Fits(r)
  BY DEF CacheIInv
<1>3. remote' >= remote
  BY DEF Forward
<1>4. cache'.state = "ready" =>
       \/ cache.state = "ready" /\ cache'.origin >= cache.origin /\ cache'.head >= cache.head
       \/ cache'.head = remote /\ cache'.origin = remote
  BY DEF Forward
<1> SUFFICES ASSUME reader[r].pc \notin {"idle", "failed"}
             PROVE  Fits(r)'
  BY DEF Fits
<1>5. reader[r].began <= remote'
  BY <1>1, <1>2, <1>3 DEF Fits
<1>6. cache'.state = "ready" /\ reader[r].pc = "reset" => reader[r].began <= cache'.origin
  BY <1>1, <1>2, <1>4 DEF Fits
<1>7. cache'.state = "ready" /\ reader[r].pc = "ask" => reader[r].began <= cache'.head
  BY <1>1, <1>2, <1>4 DEF Fits
<1>8. reader[r].ask \in {"text", "plan"} =>
        /\ reader[r].began <= reader[r].sha /\ reader[r].sha <= remote'
        /\ cache'.state = "ready" => reader[r].sha <= cache'.head
  BY <1>1, <1>2, <1>3, <1>4 DEF Fits
<1> QED  BY <1>2, <1>5, <1>6, <1>7, <1>8 DEF Fits

\* What a step of one command has to keep.
Partial(r) ==
  cache'.state = "partial" =>
    \/ killed' \/ reader'[r].pc = "cloning"
    \/ cache.state = "partial" /\ reader[r].pc # "cloning" /\ killed' = killed

LEMMA StepFits ==
  ASSUME CacheIInv, NEW r \in Readers, NEW y \in Reader, reader' = [reader EXCEPT ![r] = y],
         Forward, CacheFits', remote' = remote, faults' \in 0 .. MaxFaults, killed' \in BOOLEAN,
         Fits(r)', Partial(r)
  PROVE  CacheIInv'
<1>1. CacheTypeOK'
  BY DEF CacheIInv, CacheTypeOK, Forward
<1>2. \A q \in Readers : Fits(q)'
  <2> SUFFICES ASSUME NEW q \in Readers PROVE Fits(q)'
    OBVIOUS
  <2>1. CASE q = r
    BY <2>1
  <2>2. CASE q # r
    <3>1. reader'[q] = reader[q]
      BY <2>2 DEF CacheIInv, CacheTypeOK
    <3> QED  BY <3>1, ForwardFits
  <2> QED  BY <2>1, <2>2
<1>3. PartialIsCloning'
  <2> SUFFICES ASSUME cache'.state = "partial" PROVE (killed \/ \E q \in Readers : reader[q].pc = "cloning")'
    BY DEF PartialIsCloning
  <2>1. CASE cache.state = "partial" /\ reader[r].pc # "cloning" /\ killed' = killed
    <3>1. killed \/ \E q \in Readers : reader[q].pc = "cloning"
      BY <2>1 DEF CacheIInv, PartialIsCloning
    <3>2. \A q \in Readers : reader[q].pc = "cloning" => reader'[q] = reader[q]
      BY <2>1 DEF CacheIInv, CacheTypeOK
    <3> QED  BY <2>1, <3>1, <3>2
  <2> QED  BY <2>1 DEF Partial
<1> QED  BY <1>1, <1>2, <1>3 DEF CacheIInv

\* A command that did not touch the cache.
LEMMA SameCache ==
  ASSUME CacheIInv, UNCHANGED <<remote, cache>>
  PROVE  Forward /\ CacheFits'
BY CacheBounds DEF CacheIInv, CacheTypeOK, Cache, CacheFits, Forward

\* It is now at another place, with what it knew.
LEMMA Proceeds ==
  ASSUME CacheIInv, NEW r \in Readers, NEW pc, Proceed(r, pc), pc \in Steps \union {"idle", "shown", "failed"}
  PROVE  LET y == [reader[r] EXCEPT !.pc = pc] IN
           /\ y \in Reader /\ reader' = [reader EXCEPT ![r] = y] /\ reader'[r] = y
           /\ y.pc = pc /\ y.ask = reader[r].ask /\ y.began = reader[r].began
           /\ y.sha = reader[r].sha /\ y.text = reader[r].text /\ y.listed = reader[r].listed
BY DEF CacheIInv, CacheTypeOK, Reader, Proceed

\* A command at a place where it need not know anything of the cache.
LEMMA FitsThere ==
  ASSUME CacheIInv, NEW r \in Readers, Forward,
         NEW pc, pc \notin {"idle", "failed", "reset", "ask", "shown"},
         pc = "list" => reader[r].ask = "plan",
         reader[r].pc \notin {"idle", "failed"},
         reader'[r] = [reader[r] EXCEPT !.pc = pc]
  PROVE  Fits(r)'
<1>1. /\ reader[r].began \in Nat /\ reader[r].sha \in Nat /\ remote \in Nat
      /\ cache.head \in Nat /\ cache'.head \in Nat /\ remote' \in Nat
  BY CacheBounds DEF CacheIInv, CacheTypeOK, Reader, Cache, Forward
<1>2. Fits(r)
  BY DEF CacheIInv
<1>3. /\ reader'[r].pc = pc /\ reader'[r].ask = reader[r].ask /\ reader'[r].began = reader[r].began
      /\ reader'[r].sha = reader[r].sha /\ reader'[r].text = reader[r].text
  BY DEF CacheIInv, CacheTypeOK, Reader
<1>4. reader[r].began <= remote'
  BY <1>1, <1>2 DEF Fits, Forward
<1>5. reader[r].ask \in {"text", "plan"} =>
        /\ reader[r].began <= reader[r].sha /\ reader[r].sha <= remote'
        /\ cache'.state = "ready" => reader[r].sha <= cache'.head
  BY <1>1, <1>2 DEF Fits, Forward
<1> QED  BY <1>2, <1>3, <1>4, <1>5 DEF Fits

\* A git command that could not be run, or that failed.
LEMMA RefusedFits ==
  ASSUME CacheIInv, NEW r \in Readers, Forward, CacheFits', remote' = remote,
         faults' \in 0 .. MaxFaults, killed' = killed,
         reader[r].pc \notin {"idle", "failed"}, Refused(r) \/ Proceed(r, "failed"),
         cache'.state = "partial" => cache.state = "partial" /\ reader[r].pc # "cloning"
  PROVE  CacheIInv'
<1>1. PICK pc \in {"failed", "list"} : Proceed(r, pc) /\ (pc = "list" => reader[r].ask = "plan")
  BY DEF Refused
<1> DEFINE y == [reader[r] EXCEPT !.pc = pc]
<1>2. y \in Reader /\ reader' = [reader EXCEPT ![r] = y] /\ reader'[r] = y /\ y.pc = pc
  BY <1>1, Proceeds DEF Steps
<1>3. Fits(r)'
  <2>1. CASE pc = "failed"
    BY <1>2, <2>1 DEF Fits
  <2>2. CASE pc = "list"
    BY <1>1, <1>2, <2>2, FitsThere
  <2> QED  BY <2>1, <2>2
<1>4. Partial(r) /\ killed' \in BOOLEAN
  BY DEF Partial, CacheIInv, CacheTypeOK
<1> HIDE DEF y
<1> QED  BY <1>2, <1>3, <1>4, StepFits

LEMMA UnusableFits ==
  ASSUME CacheIInv, NEW r \in Readers, UNCHANGED <<remote, cache, killed>>,
         faults' \in 0 .. MaxFaults,
         reader[r].pc \notin {"idle", "failed", "cloning"}, Unusable(r)
  PROVE  CacheIInv'
<1>1. Refused(r) \/ Proceed(r, "failed")
  BY DEF Unusable
<1>2. Forward /\ CacheFits'
  BY SameCache
<1> QED  BY <1>1, <1>2, RefusedFits

\* A step that leaves the cache and goes to a place that asks nothing of it.
LEMMA GoesThere ==
  ASSUME CacheIInv, NEW r \in Readers, Forward, CacheFits',
         remote' = remote, faults' = faults, killed' = killed,
         NEW pc \in Steps \ {"reset", "ask"}, Proceed(r, pc), pc = "list" => reader[r].ask = "plan",
         reader[r].pc \notin {"idle", "failed", "cloning"},
         cache'.state = "partial" => cache.state = "partial" \/ pc = "cloning"
  PROVE  CacheIInv'
<1> DEFINE y == [reader[r] EXCEPT !.pc = pc]
<1>1. y \in Reader /\ reader' = [reader EXCEPT ![r] = y] /\ reader'[r] = y /\ y.pc = pc
  BY Proceeds DEF Steps
<1>2. Fits(r)'
  BY <1>1, FitsThere DEF Steps
<1>3. Partial(r) /\ killed' \in BOOLEAN /\ faults' \in 0 .. MaxFaults
  BY <1>1 DEF Partial, CacheIInv, CacheTypeOK
<1> HIDE DEF y
<1> QED  BY <1>1, <1>2, <1>3, StepFits

LEMMA ResolveFits ==
  ASSUME CacheIInv, NEW r \in Readers, Resolve(r) \/ Again(r) PROVE CacheIInv'
<1>1. UNCHANGED <<remote, cache, faults, killed>> /\ reader[r].pc # "cloning"
  BY DEF Resolve, Again
<1>2. Forward /\ CacheFits'
  BY <1>1, SameCache
<1>3. remote \in Nat /\ faults' \in 0 .. MaxFaults /\ killed' \in BOOLEAN
  BY <1>1, CacheBounds DEF CacheIInv, CacheTypeOK
<1>4. \E y \in Reader : reader' = [reader EXCEPT ![r] = y] /\ Fits(r)'
  <2>1. CASE Resolve(r)
    <3> DEFINE y == [NoReader EXCEPT !.pc = "look", !.began = remote]
    <3>1. y \in Reader /\ y.pc = "look" /\ y.ask = "only" /\ y.began = remote
      BY <1>3 DEF NoReader, Reader, Steps, Asks
    <3>2. reader' = [reader EXCEPT ![r] = y] /\ reader'[r] = y
      BY <2>1 DEF Resolve, CacheIInv, CacheTypeOK
    <3> HIDE DEF y
    <3>3. Fits(r)'
      BY <1>1, <1>3, <3>1, <3>2 DEF Fits
    <3> QED  BY <3>1, <3>2, <3>3
  <2>2. CASE Again(r)
    <3>1. NoReader \in Reader /\ NoReader.pc = "idle"
      BY DEF NoReader, Reader, Steps, Asks
    <3>2. reader' = [reader EXCEPT ![r] = NoReader] /\ reader'[r] = NoReader
      BY <2>2 DEF Again, CacheIInv, CacheTypeOK
    <3>3. Fits(r)'
      BY <3>1, <3>2 DEF Fits
    <3> QED  BY <3>1, <3>2, <3>3
  <2> QED  BY <2>1, <2>2
<1>5. Partial(r)
  BY <1>1 DEF Partial
<1> QED  BY <1>1, <1>2, <1>3, <1>4, <1>5, StepFits

LEMMA LookFits ==
  ASSUME CacheIInv, NEW r \in Readers, Look(r) PROVE CacheIInv'
<1>1. reader[r].pc = "look" /\ UNCHANGED <<remote, cache, faults, killed>>
  BY DEF Look
<1>2. PICK pc \in {"clone", "remove", "fetch"} : Proceed(r, pc)
  BY DEF Look
<1>3. Forward /\ CacheFits'
  BY <1>1, SameCache
<1> QED  BY <1>1, <1>2, <1>3, GoesThere DEF Steps

LEMMA RemoveBareFits ==
  ASSUME CacheIInv, NEW r \in Readers, RemoveBare(r) PROVE CacheIInv'
<1>1. reader[r].pc = "remove" /\ UNCHANGED <<remote, faults, killed>> /\ cache' = Absent
      /\ Proceed(r, IF cache.state = "absent" THEN "failed" ELSE "clone")
  BY DEF RemoveBare
<1>2. /\ Absent \in Cache /\ Absent.state = "absent" /\ Absent.origin = 0 /\ Absent.head = 0
      /\ remote \in Nat /\ faults' \in 0 .. MaxFaults
  BY <1>1, CacheBounds DEF Absent, Cache, CacheIInv, CacheTypeOK
<1>3. Forward /\ CacheFits'
  BY <1>1, <1>2 DEF Forward, CacheFits
<1>4. CASE cache.state = "absent"
  BY <1>1, <1>2, <1>3, <1>4, RefusedFits
<1>5. CASE cache.state # "absent"
  BY <1>1, <1>2, <1>3, <1>5, GoesThere DEF Steps
<1> QED  BY <1>4, <1>5

LEMMA FetchFits ==
  ASSUME CacheIInv, NEW r \in Readers, Fetch(r) PROVE CacheIInv'
<1>1. reader[r].pc = "fetch" /\ UNCHANGED <<remote, faults, killed>>
  BY DEF Fetch
<1>2. faults' \in 0 .. MaxFaults /\ remote \in Nat /\ cache \in Cache /\ killed' \in BOOLEAN
  BY <1>1, CacheBounds DEF CacheIInv, CacheTypeOK
<1>3. CASE cache.state # "ready"
  <2>1. UNCHANGED cache /\ Unusable(r)
    BY <1>3 DEF Fetch
  <2> QED  BY <1>1, <1>2, <2>1, UnusableFits
<1>4. CASE cache.state = "ready"
  <2>1. cache' = [cache EXCEPT !.origin = remote] /\ Proceed(r, "reset")
    BY <1>4 DEF Fetch
  <2>2. /\ cache' \in Cache /\ cache'.state = "ready" /\ cache'.origin = remote /\ cache'.head = cache.head
        /\ cache.origin \in Nat /\ cache.head \in Nat
    BY <1>2, <1>4, <2>1 DEF Cache
  <2>3. cache.head <= cache.origin /\ cache.origin <= remote
    BY <1>4 DEF CacheIInv, CacheFits
  <2>4. Forward /\ CacheFits'
    BY <1>1, <1>2, <1>4, <2>2, <2>3 DEF Forward, CacheFits
  <2> DEFINE y == [reader[r] EXCEPT !.pc = "reset"]
  <2>5. /\ y \in Reader /\ reader' = [reader EXCEPT ![r] = y] /\ reader'[r] = y /\ y.pc = "reset"
        /\ y.ask = reader[r].ask /\ y.began = reader[r].began
        /\ y.sha = reader[r].sha /\ y.text = reader[r].text
    BY <2>1, Proceeds DEF Steps
  <2> HIDE DEF y
  <2>6. Fits(r)'
    <3>1. Fits(r)
      BY DEF CacheIInv
    <3> QED  BY <1>1, <1>4, <2>2, <2>5, <3>1 DEF Fits
  <2>7. Partial(r)
    BY <2>2 DEF Partial
  <2> QED  BY <1>1, <1>2, <2>4, <2>5, <2>6, <2>7, StepFits
<1> QED  BY <1>3, <1>4

LEMMA ResetFits ==
  ASSUME CacheIInv, NEW r \in Readers, Reset(r) PROVE CacheIInv'
<1>1. reader[r].pc = "reset" /\ UNCHANGED <<remote, faults, killed>>
  BY DEF Reset
<1>2. faults' \in 0 .. MaxFaults /\ remote \in Nat /\ cache \in Cache /\ killed' \in BOOLEAN
  BY <1>1, CacheBounds DEF CacheIInv, CacheTypeOK
<1>3. CASE cache.state # "ready"
  <2>1. UNCHANGED cache /\ Unusable(r)
    BY <1>3 DEF Reset
  <2> QED  BY <1>1, <1>2, <2>1, UnusableFits
<1>4. CASE cache.state = "ready"
  <2>1. cache' = [cache EXCEPT !.head = cache.origin] /\ Proceed(r, "ask")
    BY <1>4 DEF Reset
  <2>2. /\ cache' \in Cache /\ cache'.state = "ready" /\ cache'.origin = cache.origin
        /\ cache'.head = cache.origin /\ cache.origin \in Nat /\ cache.head \in Nat
    BY <1>2, <1>4, <2>1 DEF Cache
  <2>3. cache.head <= cache.origin /\ cache.origin <= remote
    BY <1>4 DEF CacheIInv, CacheFits
  <2>4. Forward /\ CacheFits'
    BY <1>1, <1>2, <1>4, <2>2, <2>3 DEF Forward, CacheFits
  <2> DEFINE y == [reader[r] EXCEPT !.pc = "ask"]
  <2>5. /\ y \in Reader /\ reader' = [reader EXCEPT ![r] = y] /\ reader'[r] = y /\ y.pc = "ask"
        /\ y.ask = reader[r].ask /\ y.began = reader[r].began
        /\ y.sha = reader[r].sha /\ y.text = reader[r].text /\ y.began \in Nat /\ y.sha \in Nat
    BY <2>1, Proceeds DEF Steps, Reader
  <2> HIDE DEF y
  <2>6. Fits(r)'
    <3>1. Fits(r)
      BY DEF CacheIInv
    <3> QED  BY <1>1, <1>4, <2>2, <2>3, <2>5, <3>1 DEF Fits
  <2>7. Partial(r)
    BY <2>2 DEF Partial
  <2> QED  BY <1>1, <1>2, <2>4, <2>5, <2>6, <2>7, StepFits
<1> QED  BY <1>3, <1>4

LEMMA CloneBeginsFits ==
  ASSUME CacheIInv, NEW r \in Readers, CloneBegins(r) PROVE CacheIInv'
<1>1. reader[r].pc = "clone" /\ UNCHANGED <<remote, faults, killed>>
  BY DEF CloneBegins
<1>2. faults' \in 0 .. MaxFaults /\ remote \in Nat /\ cache \in Cache
  BY <1>1, CacheBounds DEF CacheIInv, CacheTypeOK
<1>3. CASE cache.state # "absent"
  <2>1. UNCHANGED cache /\ Refused(r)
    BY <1>3 DEF CloneBegins
  <2>2. Forward /\ CacheFits'
    BY <1>1, <2>1, SameCache
  <2> QED  BY <1>1, <1>2, <2>1, <2>2, RefusedFits
<1>4. CASE cache.state = "absent"
  <2>1. cache' = [Absent EXCEPT !.state = "partial"] /\ Proceed(r, "cloning")
    BY <1>4 DEF CloneBegins
  <2>2. cache' \in Cache /\ cache'.state = "partial" /\ cache'.origin = 0 /\ cache'.head = 0
    BY <2>1 DEF Cache, Absent
  <2>3. Forward /\ CacheFits'
    BY <1>1, <1>2, <2>2 DEF Forward, CacheFits
  <2> QED  BY <1>1, <2>1, <2>3, GoesThere DEF Steps
<1> QED  BY <1>3, <1>4

LEMMA CloneEndsFits ==
  ASSUME CacheIInv, NEW r \in Readers, CloneEnds(r) PROVE CacheIInv'
<1>1. reader[r].pc = "cloning" /\ UNCHANGED <<remote, faults, killed>>
  BY DEF CloneEnds
<1>2. faults' \in 0 .. MaxFaults /\ remote \in Nat /\ cache \in Cache /\ killed' \in BOOLEAN
  BY <1>1, CacheBounds DEF CacheIInv, CacheTypeOK
<1>3. CASE cache.state # "partial"
  <2>1. UNCHANGED cache /\ Refused(r)
    BY <1>3 DEF CloneEnds
  <2>2. Forward /\ CacheFits'
    BY <1>1, <2>1, SameCache
  <2> QED  BY <1>1, <1>2, <1>3, <2>1, <2>2, RefusedFits
<1>4. CASE cache.state = "partial"
  <2>1. cache' = [state |-> "ready", origin |-> remote, head |-> remote] /\ Proceed(r, "ask")
    BY <1>4 DEF CloneEnds
  <2>2. cache' \in Cache /\ cache'.state = "ready" /\ cache'.origin = remote /\ cache'.head = remote
    BY <1>2, <2>1 DEF Cache
  <2>3. Forward /\ CacheFits'
    BY <1>1, <1>2, <2>2 DEF Forward, CacheFits
  <2> DEFINE y == [reader[r] EXCEPT !.pc = "ask"]
  <2>4. /\ y \in Reader /\ reader' = [reader EXCEPT ![r] = y] /\ reader'[r] = y /\ y.pc = "ask"
        /\ y.ask = reader[r].ask /\ y.began = reader[r].began
        /\ y.sha = reader[r].sha /\ y.text = reader[r].text
    BY <2>1, Proceeds DEF Steps
  <2> HIDE DEF y
  <2>5. Fits(r)'
    <3>1. Fits(r)
      BY DEF CacheIInv
    <3> QED  BY <1>1, <2>2, <2>4, <3>1 DEF Fits
  <2>6. Partial(r)
    BY <2>2 DEF Partial
  <2> QED  BY <1>1, <1>2, <2>3, <2>4, <2>5, <2>6, StepFits
<1> QED  BY <1>3, <1>4

LEMMA FailureFits ==
  ASSUME CacheIInv, NEW r \in Readers, FetchFails(r) \/ CloneFails(r) \/ AskFails(r) PROVE CacheIInv'
<1>1. UNCHANGED <<remote, killed>> /\ faults' \in 0 .. MaxFaults
  BY CacheBounds DEF FetchFails, CloneFails, AskFails, CacheIInv, CacheTypeOK
<1>2. CASE FetchFails(r) \/ AskFails(r)
  <2>1. reader[r].pc \notin {"idle", "failed", "cloning"} /\ UNCHANGED cache /\ Unusable(r)
    BY <1>2 DEF FetchFails, AskFails
  <2> QED  BY <1>1, <2>1, UnusableFits
<1>3. CASE CloneFails(r)
  <2>1. reader[r].pc = "cloning" /\ Refused(r) /\ cache' = IF cache.state = "partial" THEN Absent ELSE cache
    BY <1>3 DEF CloneFails
  <2>2. /\ Absent \in Cache /\ Absent.state = "absent" /\ Absent.origin = 0 /\ Absent.head = 0
        /\ remote \in Nat
    BY CacheBounds DEF Absent, Cache, CacheIInv, CacheTypeOK
  <2>3. Forward /\ CacheFits'
    <3>1. CASE cache.state = "partial"
      BY <1>1, <2>1, <2>2, <3>1 DEF Forward, CacheFits
    <3>2. CASE cache.state # "partial"
      BY <1>1, <2>1, <3>2, SameCache
    <3> QED  BY <3>1, <3>2
  <2>4. cache'.state # "partial"
    BY <2>1, <2>2
  <2> QED  BY <1>1, <2>1, <2>3, <2>4, RefusedFits
<1> QED  BY <1>2, <1>3

\* A question is answered by the checkout, or asked next.
LEMMA AskedFits ==
  ASSUME CacheIInv, NEW r \in Readers, Cached(r) \/ ResolveRef(r) \/ GetFile(r) \/ GetPlan(r)
  PROVE  CacheIInv'
<1>1. reader[r].pc = "ask" /\ UNCHANGED <<remote, cache, faults, killed>>
  BY DEF Cached, ResolveRef, GetFile, GetPlan, Answered
<1>2. Forward /\ CacheFits'
  BY <1>1, SameCache
<1>3. /\ reader[r] \in Reader /\ remote \in Nat /\ cache.head \in Nat /\ cache.origin \in Nat
      /\ faults' \in 0 .. MaxFaults /\ killed' \in BOOLEAN
  BY <1>1, CacheBounds DEF CacheIInv, CacheTypeOK, Cache
<1>4. Fits(r)
  BY DEF CacheIInv
<1>5. CASE GetPlan(r)
  BY <1>1, <1>2, <1>5, GoesThere DEF GetPlan, Steps
<1>6. CASE Cached(r)
  <2> DEFINE y == [[reader[r] EXCEPT !.pc = "look"] EXCEPT !.ask = "ref"]
  <2>1. y \in Reader /\ y.pc = "look" /\ y.ask = "ref" /\ y.began = reader[r].began
    BY <1>3 DEF Reader, Steps, Asks
  <2>2. reader' = [reader EXCEPT ![r] = y] /\ reader'[r] = y
    BY <1>6 DEF Cached, CacheIInv, CacheTypeOK
  <2> HIDE DEF y
  <2>3. Fits(r)' /\ Partial(r)
    BY <1>1, <1>4, <2>1, <2>2 DEF Fits, Partial
  <2> QED  BY <1>1, <1>2, <1>3, <2>1, <2>2, <2>3, StepFits
<1>7. CASE ResolveRef(r)
  <2> DEFINE y == [[reader[r] EXCEPT !["sha"] = cache.head] EXCEPT !.pc = "look", !.ask = "text"]
  <2>1. y \in Reader /\ y.pc = "look" /\ y.ask = "text" /\ y.began = reader[r].began /\ y.sha = cache.head
    BY <1>3 DEF Reader, Steps, Asks
  <2>2. reader' = [reader EXCEPT ![r] = y] /\ reader'[r] = y /\ cache.state = "ready"
    BY <1>7 DEF ResolveRef, Answered, CacheIInv, CacheTypeOK
  <2> HIDE DEF y
  <2>3. reader[r].began <= cache.head /\ cache.head <= remote
    BY <1>1, <1>3, <1>4, <2>2 DEF Fits, CacheIInv, CacheFits
  <2>4. Fits(r)' /\ Partial(r)
    BY <1>1, <1>3, <1>4, <2>1, <2>2, <2>3 DEF Fits, Partial
  <2> QED  BY <1>1, <1>2, <1>3, <2>1, <2>2, <2>4, StepFits
<1>8. CASE GetFile(r)
  <2> DEFINE y == [[reader[r] EXCEPT !["text"] = reader[r].sha] EXCEPT !.pc = "look", !.ask = "plan"]
  <2>1. /\ y \in Reader /\ y.pc = "look" /\ y.ask = "plan" /\ y.began = reader[r].began
        /\ y.sha = reader[r].sha /\ y.text = reader[r].sha
    BY <1>3 DEF Reader, Steps, Asks
  <2>2. reader' = [reader EXCEPT ![r] = y] /\ reader'[r] = y /\ reader[r].ask = "text"
    BY <1>8 DEF GetFile, Answered, CacheIInv, CacheTypeOK
  <2> HIDE DEF y
  <2>3. Fits(r)' /\ Partial(r)
    BY <1>1, <1>4, <2>1, <2>2 DEF Fits, Partial
  <2> QED  BY <1>1, <1>2, <1>3, <2>1, <2>2, <2>3, StepFits
<1> QED  BY <1>5, <1>6, <1>7, <1>8

LEMMA ListFits ==
  ASSUME CacheIInv, NEW r \in Readers, List(r) PROVE CacheIInv'
<1>1. reader[r].pc = "list" /\ UNCHANGED <<remote, cache, faults, killed>>
  BY DEF List
<1>2. Forward /\ CacheFits'
  BY <1>1, SameCache
<1>3. /\ reader[r] \in Reader /\ cache.head \in Nat /\ cache.state \in {"absent", "partial", "ready", "bare"}
      /\ faults' \in 0 .. MaxFaults /\ killed' \in BOOLEAN
  BY <1>1 DEF CacheIInv, CacheTypeOK, Cache
<1> DEFINE y == [reader[r] EXCEPT !.pc = "shown", !.listed = cache.head]
<1>4. /\ y \in Reader /\ y.pc = "shown" /\ y.listed = cache.head /\ y.ask = reader[r].ask
      /\ y.began = reader[r].began /\ y.sha = reader[r].sha /\ y.text = reader[r].text
      /\ y.sha \in Nat
  BY <1>3 DEF Reader
<1>5. reader' = [reader EXCEPT ![r] = y] /\ reader'[r] = y
  BY DEF List, CacheIInv, CacheTypeOK
<1> HIDE DEF y
<1>6. Fits(r) /\ CacheFits
  BY DEF CacheIInv
<1>7. Fits(r)' /\ Partial(r)
  BY <1>1, <1>3, <1>4, <1>5, <1>6 DEF Fits, Partial, CacheFits
<1> QED  BY <1>1, <1>2, <1>3, <1>4, <1>5, <1>7, StepFits

LEMMA KillReaderFits ==
  ASSUME CacheIInv, NEW r \in Readers, KillReader(r) PROVE CacheIInv'
<1>1. UNCHANGED <<remote, cache>> /\ faults' = faults + 1 /\ faults < MaxFaults
      /\ killed' = (killed \/ reader[r].pc = "cloning") /\ reader' = [reader EXCEPT ![r] = NoReader]
  BY DEF KillReader
<1>2. Forward /\ CacheFits'
  BY <1>1, SameCache
<1>3. NoReader \in Reader /\ NoReader.pc = "idle"
  BY DEF NoReader, Reader, Steps, Asks
<1>4. faults' \in 0 .. MaxFaults /\ killed' \in BOOLEAN
  BY <1>1, CacheBounds DEF CacheIInv, CacheTypeOK
<1>5. reader'[r] = NoReader
  BY <1>1 DEF CacheIInv, CacheTypeOK
<1>6. Fits(r)' /\ Partial(r)
  <2>1. killed \in BOOLEAN
    BY DEF CacheIInv, CacheTypeOK
  <2>2. Partial(r)
    BY <1>1, <2>1 DEF Partial
  <2> QED  BY <1>3, <1>5, <2>2 DEF Fits
<1> QED  BY <1>1, <1>2, <1>3, <1>4, <1>6, StepFits

LEMMA PushFits ==
  ASSUME CacheIInv, Push PROVE CacheIInv'
<1>1. remote <= MaxPushes /\ remote' = remote + 1 /\ UNCHANGED <<cache, reader, faults, killed>>
  BY DEF Push
<1>2. /\ remote \in 1 .. (MaxPushes + 1) /\ cache \in Cache
  BY DEF CacheIInv, CacheTypeOK
<1>3. remote' \in 1 .. (MaxPushes + 1) /\ remote' \in Nat /\ remote' >= remote
  BY <1>1, <1>2, CacheBounds
<1>4. Forward
  BY <1>1, <1>2, <1>3 DEF Forward, Cache
<1>5. CacheFits'
  BY <1>1, <1>2, <1>3 DEF CacheIInv, CacheFits, Cache
<1>6. \A r \in Readers : Fits(r)'
  <2> TAKE r \in Readers
  <2>1. reader'[r] = reader[r]
    BY <1>1
  <2> QED  BY <1>4, <2>1, ForwardFits
<1>7. CacheTypeOK' /\ PartialIsCloning'
  BY <1>1, <1>3 DEF CacheIInv, CacheTypeOK, PartialIsCloning
<1> QED  BY <1>5, <1>6, <1>7 DEF CacheIInv

\* What `ve external resolve' shows is of one commit, the branch's head at some moment since
\* the command began, and a clone that is not complete is being completed or was killed:
\* for any number of commands, pushes and failures (repo_cache.py, external_resolve.py).
THEOREM CacheCorrect == CacheSpec => []CacheInv
<1>1. CacheInit => CacheIInv
  <2> SUFFICES ASSUME CacheInit PROVE CacheIInv
    OBVIOUS
  <2>1. CacheTypeOK
    <3>1. cache \in Cache
      BY DEF CacheInit, Cache, Absent
    <3>2. NoReader \in Reader
      BY DEF Reader, NoReader, Asks, Steps
    <3>3. reader \in [Readers -> Reader]
      BY <3>2 DEF CacheInit
    <3>4. remote = 1 /\ faults = 0 /\ killed = FALSE
      BY DEF CacheInit
    <3>5. 1 \in 1 .. (MaxPushes + 1) /\ 0 \in 0 .. MaxFaults
      BY CacheBounds
    <3> QED  BY <3>1, <3>3, <3>4, <3>5 DEF CacheTypeOK
  <2>2. CacheFits /\ PartialIsCloning
    BY DEF CacheInit, Absent, CacheFits, PartialIsCloning
  <2>3. \A r \in Readers : Fits(r)
    BY DEF CacheInit, NoReader, Fits
  <2> QED  BY <2>1, <2>2, <2>3 DEF CacheIInv
<1>2. CacheIInv /\ [CacheNext]_cacheVars => CacheIInv'
  <2> SUFFICES ASSUME CacheIInv, [CacheNext]_cacheVars PROVE CacheIInv'
    OBVIOUS
  <2>1. CASE Push
    BY <2>1, PushFits
  <2>2. CASE \E r \in Readers : ReaderStep(r)
    <3>1. PICK r \in Readers : ReaderStep(r)
      BY <2>2
    <3> QED  BY <3>1, ResolveFits, LookFits, RemoveBareFits, FetchFits, ResetFits, CloneBeginsFits,
                CloneEndsFits, FailureFits, AskedFits, ListFits, KillReaderFits DEF ReaderStep
  <2>3. CASE UNCHANGED cacheVars
    BY <2>3 DEF cacheVars, CacheIInv, CacheTypeOK, CacheFits, PartialIsCloning, Fits
  <2> QED  BY <2>1, <2>2, <2>3 DEF CacheNext
<1>3. CacheIInv => CacheInv
  BY DEF CacheIInv, CacheInv, ShownIsCurrent, Fits
<1> QED  BY <1>1, <1>2, <1>3, PTL DEF CacheSpec

-----------------------------------------------------------------------------
(* The references. *)

Parents == Narratives \union Investigations \union Subsystems
ToChunks == {"after", "depends", "lists", "implements", "backref"}
FromChunks == {"after", "depends", "narrative", "investigation", "subsystem", "friction", "code"}

\* A reference names something of the kind its field is for, be it there or not.
ToFits(l) ==
  /\ l.kind \in ToChunks => l.to \in Chunks
  /\ l.kind \in {"narrative", "narrative_ref"} => l.to \in Narratives
  /\ l.kind = "investigation" => l.to \in Investigations
  /\ l.kind \in {"subsystem", "subsystem_ref"} => l.to \in Subsystems
  /\ l.kind = "friction" => l.to \in Nat
  /\ l.kind = "code" => l.to \in Files

LinkFits(l) ==
  l = Link(l.kind, l.from, l.to) /\ l.kind \in LinkKinds /\ l.from \in Sources(l.kind) /\ ToFits(l)

ReferenceIInv ==
  /\ external \subseteq here /\ here \subseteq Chunks /\ parents \subseteq Parents
  /\ \E n \in Nat : entries = 1 .. n
  /\ \A l \in links : LinkFits(l)

\* What `ve validate' finds.
Reported ==
  {l \in Dangling : l.kind \notin {"after", "code", "narrative_ref"}}
    \union {l \in links : l.kind \in {"depends", "lists"} /\ l.to \in external}

\* The kinds of files and of what is referred to.
LEMMA KindsOf ==
  ASSUME ReferenceIInv, NEW l \in links
  PROVE  /\ l.kind \in FromChunks => l.from \in Local
         /\ l.kind = "lists" => l.from \in (parents \ Subsystems) \union {FrictionLog}
         /\ l.kind = "implements" => l.from \in parents \intersect Subsystems
         /\ l.kind \notin FromChunks \union {"lists", "implements"} => l.from \in Files
         /\ l.kind \in LinkKinds /\ l = Link(l.kind, l.from, l.to) /\ ToFits(l)
         /\ l.to \in Existing(l.kind) <=>
              /\ l.kind \in ToChunks => l.to \in here
              /\ l.kind \in {"narrative", "investigation", "subsystem", "narrative_ref", "subsystem_ref"} => l.to \in parents
              /\ l.kind = "friction" => l.to \in entries
<1>1. LinkFits(l)
  BY DEF ReferenceIInv
<1>2. l.kind \in LinkKinds /\ l = Link(l.kind, l.from, l.to) /\ ToFits(l) /\ l.from \in Sources(l.kind)
  BY <1>1 DEF LinkFits
<1>3. /\ l.kind \in FromChunks => l.from \in Local
      /\ l.kind = "lists" => l.from \in (parents \ Subsystems) \union {FrictionLog}
      /\ l.kind = "implements" => l.from \in parents \intersect Subsystems
      /\ l.kind \notin FromChunks \union {"lists", "implements"} => l.from \in Files
  BY <1>2 DEF Sources, FromChunks, LinkKinds
<1>4. l.to \in Existing(l.kind) <=>
        /\ l.kind \in ToChunks => l.to \in here
        /\ l.kind \in {"narrative", "investigation", "subsystem", "narrative_ref", "subsystem_ref"} => l.to \in parents
        /\ l.kind = "friction" => l.to \in entries
  BY <1>2 DEF Existing, ToFits, ToChunks, LinkKinds
<1> QED  BY <1>2, <1>3, <1>4

\* The passes of `ve validate', taken together, find these and no others.
LEMMA ValidateFindsAll ==
  ASSUME ReferenceIInv
  PROVE  Errors = Reported
<1> DEFINE Outbound == {l \in links : /\ l.from \in Local
                                      /\ \/ l.kind \in {"narrative", "investigation", "subsystem"} /\ l.to \notin parents
                                         \/ l.kind = "friction" /\ l.to \notin entries
                                         \/ l.kind = "depends" /\ l.to \notin Local}
           Listed == {l \in links : /\ l.kind = "lists" /\ l.to \notin Local
                                    /\ l.from \in (parents \intersect (Narratives \union Investigations)) \union {FrictionLog}}
           Implemented == {l \in links : l.kind = "implements" /\ l.from \in parents \intersect Subsystems /\ l.to \notin here}
<1>1. Errors = Outbound \union Listed \union Implemented \union BackreferenceErrors
  <2> DEFINE O == UNION {OutboundErrors(c) : c \in Local}
             N == UNION {NarrativeErrors(n) : n \in parents \intersect Narratives}
             I == UNION {InvestigationErrors(i) : i \in parents \intersect Investigations}
             S == UNION {SubsystemErrors(s) : s \in parents \intersect Subsystems}
             ByListing(P) == {l \in links : l.kind = "lists" /\ l.to \notin Local /\ l.from \in P}
  <2>1. O = Outbound
    BY DEF OutboundErrors
  <2>2. N = ByListing(parents \intersect Narratives)
    BY DEF NarrativeErrors
  <2>3. I = ByListing(parents \intersect Investigations)
    BY DEF InvestigationErrors
  <2>4. FrictionErrors = ByListing({FrictionLog})
    BY DEF FrictionErrors
  <2>5. S = Implemented
    BY DEF SubsystemErrors
  <2>6. Errors = O \union N \union I \union S \union FrictionErrors \union BackreferenceErrors
    BY DEF Errors
  <2> HIDE DEF O, N, I, S
  <2>7. N \union I \union FrictionErrors = Listed
    BY <2>2, <2>3, <2>4
  <2> HIDE DEF Outbound, Listed, Implemented
  <2> QED  BY <2>1, <2>5, <2>6, <2>7
<1>2. \A l \in links :
        l \in Reported <=> \/ l.kind \notin {"after", "code", "narrative_ref"} /\ l.to \notin Existing(l.kind)
                           \/ l.kind \in {"depends", "lists"} /\ l.to \in external
  BY DEF Reported, Dangling
<1>3. \A l \in links :
        l \in Outbound \union Listed \union Implemented \union BackreferenceErrors <=> l \in Reported
  <2> TAKE l \in links
  <2>1. /\ external \subseteq here /\ Local = here \ external /\ parents \subseteq Parents
    BY DEF ReferenceIInv, Local
  <2>2. CASE l.kind \in {"narrative", "investigation", "subsystem", "friction", "depends"}
    <3>1. l.from \in Local
      BY <2>2, KindsOf DEF FromChunks
    <3>2. l.to \in Existing(l.kind) <=>
              /\ l.kind = "depends" => l.to \in here
              /\ l.kind \in {"narrative", "investigation", "subsystem"} => l.to \in parents
              /\ l.kind = "friction" => l.to \in entries
      BY <2>2, KindsOf DEF ToChunks
    <3> QED  BY <1>2, <2>1, <2>2, <3>1, <3>2 DEF BackreferenceErrors
  <2>3. CASE l.kind = "lists"
    <3>1. l.from \in (parents \intersect (Narratives \union Investigations)) \union {FrictionLog}
      BY <2>1, <2>3, KindsOf DEF Parents
    <3>2. l.to \in Existing(l.kind) <=> l.to \in here
      BY <2>3, KindsOf DEF ToChunks
    <3> QED  BY <1>2, <2>1, <2>3, <3>1, <3>2 DEF BackreferenceErrors
  <2>4. CASE l.kind = "implements"
    <3>1. l.from \in parents \intersect Subsystems
      BY <2>4, KindsOf
    <3>2. l.to \in Existing(l.kind) <=> l.to \in here
      BY <2>4, KindsOf DEF ToChunks
    <3> QED  BY <1>2, <2>4, <3>1, <3>2 DEF BackreferenceErrors
  <2>5. CASE l.kind \in {"backref", "subsystem_ref"}
    <3>1. l.to \in Existing(l.kind) <=> /\ l.kind = "backref" => l.to \in here
                                        /\ l.kind = "subsystem_ref" => l.to \in parents
      BY <2>5, KindsOf DEF ToChunks
    <3> QED  BY <1>2, <2>5, <3>1 DEF BackreferenceErrors
  <2>6. CASE l.kind \in {"after", "code", "narrative_ref"}
    BY <1>2, <2>6 DEF BackreferenceErrors
  <2> QED  BY <2>2, <2>3, <2>4, <2>5, <2>6, KindsOf DEF LinkKinds
<1>4. Outbound \subseteq links /\ Listed \subseteq links /\ Implemented \subseteq links
      /\ BackreferenceErrors \subseteq links /\ Reported \subseteq links
  BY DEF BackreferenceErrors, Reported, Dangling
<1> HIDE DEF Outbound, Listed, Implemented
<1> QED  BY <1>1, <1>3, <1>4

\* A step of which the invariant follows: directories stay, and what is written fits.
LEMMA WritingFits ==
  ASSUME ReferenceIInv, here \subseteq here', here' \subseteq Chunks, external \subseteq external',
         external' \subseteq here', Local \subseteq Local', parents \subseteq parents', parents' \subseteq Parents,
         \E n \in Nat : entries' = 1 .. n,
         \A l \in links' \ links : LinkFits(l)'
  PROVE  ReferenceIInv'
<1>1. \A l \in links : LinkFits(l)'
  <2> TAKE l \in links
  <2>1. LinkFits(l)
    BY DEF ReferenceIInv
  <2>2. l.from \in Sources(l.kind)'
    <3>1. l.kind \in LinkKinds /\ l.from \in Sources(l.kind)
      BY <2>1 DEF LinkFits
    <3> QED  BY <3>1 DEF Sources, LinkKinds
  <2> QED  BY <2>1, <2>2 DEF LinkFits, ToFits
<1> QED  BY <1>1 DEF ReferenceIInv

\* No such step makes `ve validate' report a reference it did not report, but to a pointer.
LEMMA WritingBreaksNothing ==
  ASSUME ReferenceIInv, Errors = Reported, Errors' = Reported', here \subseteq here', parents \subseteq parents', entries \subseteq entries',
         \A l \in links' \ links : l.to \in Existing(l.kind)'
  PROVE  Errors' \subseteq Errors \union {l \in links' : l.to \in external'}
<1> SUFFICES ASSUME NEW l \in Reported', l.to \notin external'
             PROVE  l \in Reported
  BY DEF Reported, Dangling
<1>2. l \in links' /\ l.kind \notin {"after", "code", "narrative_ref"} /\ l.to \notin Existing(l.kind)'
  BY DEF Reported, Dangling
<1>3. l \in links
  BY <1>2
<1>4. l.kind \in LinkKinds
  BY <1>3, KindsOf
<1>5. l.to \notin Existing(l.kind)
  BY <1>2, <1>4 DEF Existing, LinkKinds
<1> QED  BY <1>2, <1>3, <1>5 DEF Reported, Dangling

\* What is written now.
LEMMA NewLinkFits ==
  ASSUME NEW k \in LinkKinds, NEW f, NEW t, here' \subseteq Chunks, parents' \subseteq Parents, entries' \subseteq Nat,
         f \in Sources(k)', t \in Existing(k)'
  PROVE  LinkFits(Link(k, f, t))' /\ Link(k, f, t).to \in Existing(Link(k, f, t).kind)'
<1> DEFINE l == Link(k, f, t)
<1>1. l.kind = k /\ l.from = f /\ l.to = t /\ l = Link(l.kind, l.from, l.to)
  BY DEF Link
<1> HIDE DEF l
<1>2. ToFits(l)
  BY <1>1 DEF ToFits, Existing, LinkKinds, ToChunks
<1> QED  BY <1>1, <1>2 DEF LinkFits, ToFits, l

\* Nothing goes, and what is written names what is there.
Grows ==
  /\ here \subseteq here' /\ parents \subseteq parents' /\ entries \subseteq entries'
  /\ \A l \in links' \ links : l.to \in Existing(l.kind)'

LEMMA WriteStepGrows ==
  ASSUME ReferenceIInv, WriteStep
  PROVE  ReferenceIInv' /\ Grows
<1>1. /\ external \subseteq here /\ here \subseteq Chunks /\ parents \subseteq Parents
      /\ \E n \in Nat : entries = 1 .. n
  BY DEF ReferenceIInv
<1>2. ASSUME NEW c \in Chunks, CreateExternal(c)
      PROVE  ReferenceIInv' /\ Grows
  <2>1. here' = here \union {c} /\ c \notin here /\ external' = external \union {c} /\ UNCHANGED <<parents, entries, links>>
    BY <1>2 DEF CreateExternal
  <2>2. Local \subseteq Local'
    BY <1>1, <2>1 DEF Local
  <2>3. ReferenceIInv'
    BY <1>1, <2>1, <2>2, WritingFits
  <2> QED  BY <2>1, <2>3 DEF Grows
<1>3. ASSUME NEW c \in Chunks, NEW after \in SUBSET here, CreateChunk(c, after)
      PROVE  ReferenceIInv' /\ Grows
  <2>1. /\ here' = here \union {c} /\ c \notin here /\ UNCHANGED <<external, parents, entries>>
        /\ links' = links \union {Link("after", c, p) : p \in after}
    BY <1>3 DEF CreateChunk
  <2>2. Local \subseteq Local' /\ c \in Local'
    BY <1>1, <2>1 DEF Local
  <2>3. ASSUME NEW p \in after
        PROVE  LinkFits(Link("after", c, p))' /\ Link("after", c, p).to \in Existing(Link("after", c, p).kind)'
    <3>1. c \in Sources("after")' /\ p \in Existing("after")' /\ "after" \in LinkKinds /\ entries' \subseteq Nat
      BY <1>1, <2>1, <2>2 DEF Sources, Existing, LinkKinds
    <3> QED  BY <1>1, <2>1, <3>1, NewLinkFits
  <2>4. \A l \in links' \ links : LinkFits(l)' /\ l.to \in Existing(l.kind)'
    BY <2>1, <2>3
  <2>5. ReferenceIInv'
    BY <1>1, <2>1, <2>2, <2>4, WritingFits
  <2> QED  BY <2>1, <2>4, <2>5 DEF Grows
<1>4. ASSUME NEW p \in Parents, CreateParent(p)
      PROVE  ReferenceIInv' /\ Grows
  <2>1. parents' = parents \union {p} /\ UNCHANGED <<here, external, entries, links>>
    BY <1>4 DEF CreateParent
  <2>2. ReferenceIInv'
    BY <1>1, <2>1, WritingFits DEF Local
  <2> QED  BY <2>1, <2>2 DEF Grows
<1>5. ASSUME AppendEntry
      PROVE  ReferenceIInv' /\ Grows
  <2>1. entries' = entries \union {1 + Max({0} \union entries)} /\ UNCHANGED <<here, external, parents, links>>
    BY <1>5 DEF AppendEntry
  <2>2. PICK n \in Nat : entries = 1 .. n
    BY <1>1
  <2>3. Max({0} \union entries) = n
    <3>1. n \in {0} \union entries /\ \A y \in {0} \union entries : y \in Int /\ n >= y
      BY <2>2
    <3>2. \A x \in {0} \union entries : (\A y \in {0} \union entries : x >= y) => x = n
      BY <3>1
    <3>3. \E x \in {0} \union entries : \A y \in {0} \union entries : x >= y
      BY <3>1
    <3>4. Max({0} \union entries) = CHOOSE x \in {0} \union entries : \A y \in {0} \union entries : x >= y
      BY DEF Max
    <3> QED  BY <3>2, <3>3, <3>4
  <2>4. entries' = 1 .. n + 1
    BY <2>1, <2>2, <2>3
  <2>5. \E k \in Nat : entries' = 1 .. k
    BY <2>4
  <2>6. ReferenceIInv'
    BY <1>1, <2>1, <2>5, WritingFits DEF Local
  <2> QED  BY <2>1, <2>6 DEF Grows
<1>6. ASSUME NEW kind \in LinkKinds, NEW from \in Sources(kind), NEW to \in Existing(kind), AddReference(kind, from, to)
      PROVE  ReferenceIInv' /\ Grows
  <2>1. links' = links \union {Link(kind, from, to)} /\ UNCHANGED <<here, external, parents, entries>>
    BY <1>6 DEF AddReference
  <2>2. LinkFits(Link(kind, from, to))' /\ Link(kind, from, to).to \in Existing(Link(kind, from, to).kind)'
    <3>1. from \in Sources(kind)' /\ to \in Existing(kind)' /\ entries' \subseteq Nat
      BY <1>1, <2>1 DEF Sources, Existing, Local
    <3> QED  BY <1>1, <2>1, <3>1, NewLinkFits
  <2>3. ReferenceIInv'
    BY <1>1, <2>1, <2>2, WritingFits DEF Local
  <2> QED  BY <2>1, <2>2, <2>3 DEF Grows
<1> QED  BY <1>2, <1>3, <1>4, <1>5, <1>6 DEF WriteStep, Parents

LEMMA NarrativeStepGrows ==
  ASSUME ReferenceIInv, NarrativeStep
  PROVE  ReferenceIInv' /\ Grows
<1>1. /\ external \subseteq here /\ here \subseteq Chunks /\ parents \subseteq Parents
      /\ \E n \in Nat : entries = 1 .. n
  BY DEF ReferenceIInv
<1>2. ASSUME NEW n \in Narratives, NEW cs \in SUBSET Chunks, Compact(cs, n) \/ Consolidate(cs, n)
      PROVE  ReferenceIInv' /\ Grows
  <2>1. /\ parents' = parents \union {n} /\ cs \subseteq here /\ UNCHANGED <<here, external, entries>> /\ n \notin parents
        /\ \A l \in links' \ links : \E c \in cs : \/ l = Link("lists", n, c)
                                                   \/ l = Link("narrative", c, n) /\ c \in Local
    BY <1>2 DEF Compact, Consolidate, Local
  <2>2. ASSUME NEW c \in cs
        PROVE  LinkFits(Link("lists", n, c))' /\ Link("lists", n, c).to \in Existing(Link("lists", n, c).kind)'
    <3>1. n \in Sources("lists")' /\ c \in Existing("lists")' /\ "lists" \in LinkKinds /\ entries' \subseteq Nat
      BY <1>1, <2>1, KindsApart DEF Sources, Existing, LinkKinds
    <3> QED  BY <1>1, <2>1, <3>1, NewLinkFits DEF Parents
  <2>3. ASSUME NEW c \in cs, c \in Local
        PROVE  LinkFits(Link("narrative", c, n))' /\ Link("narrative", c, n).to \in Existing(Link("narrative", c, n).kind)'
    <3>1. c \in Sources("narrative")' /\ n \in Existing("narrative")' /\ "narrative" \in LinkKinds /\ entries' \subseteq Nat
      BY <1>1, <2>1, <2>3 DEF Sources, Existing, LinkKinds, Local
    <3> QED  BY <1>1, <2>1, <3>1, NewLinkFits DEF Parents
  <2>4. \A l \in links' \ links : LinkFits(l)' /\ l.to \in Existing(l.kind)'
    BY <2>1, <2>2, <2>3
  <2>5. ReferenceIInv'
    BY <1>1, <2>1, <2>4, WritingFits DEF Local, Parents
  <2> QED  BY <2>1, <2>4, <2>5 DEF Grows
<1>3. ASSUME NEW n \in Narratives, NEW f \in Files, UpdateRefs(n, f)
      PROVE  ReferenceIInv' /\ Grows
  <2>1. /\ n \in parents /\ UNCHANGED <<here, external, parents, entries>>
        /\ \A l \in links' \ links : l = Link("narrative_ref", f, n)
    BY <1>3 DEF UpdateRefs, Replaced
  <2>2. LinkFits(Link("narrative_ref", f, n))' /\ Link("narrative_ref", f, n).to \in Existing(Link("narrative_ref", f, n).kind)'
    <3>1. f \in Sources("narrative_ref")' /\ n \in Existing("narrative_ref")' /\ "narrative_ref" \in LinkKinds /\ entries' \subseteq Nat
      BY <1>1, <2>1 DEF Sources, Existing, LinkKinds
    <3> QED  BY <1>1, <2>1, <3>1, NewLinkFits
  <2>3. \A l \in links' \ links : LinkFits(l)' /\ l.to \in Existing(l.kind)'
    BY <2>1, <2>2
  <2>4. ReferenceIInv'
    BY <1>1, <2>1, <2>3, WritingFits DEF Local
  <2> QED  BY <2>1, <2>3, <2>4 DEF Grows
<1> QED  BY <1>2, <1>3 DEF NarrativeStep

\* A rename gives two chunks two names, and no name that is taken.
LEMMA NamesApart ==
  ASSUME ReferenceIInv, MayRename, NEW c \in here, NEW d \in here
  PROVE  /\ Name(c) \in Chunks /\ (Name(c) = Name(d) => c = d)
         /\ c \in Matching <=> c \in Renamed
         /\ c \notin Renamed => Name(c) = c
<1>1. c \in Chunks /\ d \in Chunks
  BY DEF ReferenceIInv
<1>2. \A x \in Renamed : NewName[x] \in Chunks
  BY NewNames DEF Renamed
<1>3. \A x \in here : x \in Renamed => NewName[x] = x \/ NewName[x] \notin here
  BY DEF MayRename, Matching
<1>4. \A x, y \in Renamed : NewName[x] = NewName[y] => x = y
  BY NewNames DEF Renamed
<1> QED  BY <1>1, <1>2, <1>3, <1>4 DEF Name, Matching

\* What becomes of a reference: it stays in its file, which may be called differently, and
\* names what it named or something else of the kind.
Follows(l, m) ==
  /\ m = Link(l.kind, m.from, m.to)
  /\ m.from = IF l.from \in Matching THEN Name(l.from) ELSE l.from
  /\ m.to # l.to => m.to \in Targets(l.kind)

\* What is not a chunk's field for chunks does not have a chunk's name.
LEMMA ToChunk ==
  ASSUME ReferenceIInv, NEW l \in links, l.to \in Renamed
  PROVE  l.kind \in ToChunks /\ Targets(l.kind) = Chunks
<1>1. l.to \in Chunks
  BY NewNames DEF Renamed
<1>2. l.kind \in ToChunks
  BY <1>1, KindsOf, KindsApart DEF ToFits, LinkKinds, ToChunks
<1> QED  BY <1>2 DEF Targets, ToChunks

LEMMA RenameFits ==
  ASSUME ReferenceIInv, MayRename, DirectoriesRenamed, \A m \in links' : \E l \in links : Follows(l, m)
  PROVE  /\ ReferenceIInv'
         /\ \A c \in here : Name(c) \in here' /\ (c \in Local <=> Name(c) \in Local')
<1>1. /\ external \subseteq here /\ here \subseteq Chunks /\ parents \subseteq Parents
      /\ \E n \in Nat : entries = 1 .. n
      /\ here' = {Name(c) : c \in here} /\ external' = {Name(c) : c \in external}
      /\ UNCHANGED <<parents, entries>>
  BY DEF ReferenceIInv, DirectoriesRenamed
<1>2. \A c, d \in here : Name(c) \in Chunks /\ (Name(c) = Name(d) => c = d)
  BY NamesApart
<1>3. \A c \in here : Name(c) \in here' /\ (c \in Local <=> Name(c) \in Local')
  <2> TAKE c \in here
  <2>1. Name(c) \in here'
    BY <1>1
  <2>2. c \in external <=> Name(c) \in external'
    BY <1>1, <1>2
  <2> QED  BY <2>1, <2>2 DEF Local
<1>4. ASSUME NEW m \in links'
      PROVE  LinkFits(m)'
  <2> PICK l \in links : Follows(l, m)
    BY <1>4
  <2>1. /\ l.kind \in LinkKinds /\ ToFits(l)
        /\ l.kind \in FromChunks => l.from \in Local
        /\ l.kind = "lists" => l.from \in (parents \ Subsystems) \union {FrictionLog}
        /\ l.kind = "implements" => l.from \in parents \intersect Subsystems
        /\ l.kind \notin FromChunks \union {"lists", "implements"} => l.from \in Files
    BY KindsOf
  <2>2. m.kind = l.kind /\ m = Link(m.kind, m.from, m.to)
    BY DEF Follows, Link
  <2>3. ToFits(m)
    <3>1. CASE m.to = l.to
      BY <2>1, <2>2, <3>1 DEF ToFits
    <3>2. CASE m.to \in Targets(m.kind)
      BY <3>2 DEF ToFits, Targets, ToChunks
    <3> QED  BY <2>2, <3>1, <3>2 DEF Follows
  <2>4. m.from \in Sources(m.kind)'
    <3>1. CASE l.kind \in FromChunks
      <4>1. l.from \in here /\ l.from \in Local
        BY <2>1, <3>1 DEF Local
      <4>2. m.from = Name(l.from)
        BY <4>1, NamesApart DEF Follows
      <4>3. m.from \in Local'
        BY <1>3, <4>1, <4>2
      <4> QED  BY <2>2, <3>1, <4>3 DEF Sources, FromChunks
    <3>2. CASE l.kind \notin FromChunks
      <4>1. l.from \notin Chunks
        BY <1>1, <2>1, <3>2, KindsApart DEF Parents
      <4>2. m.from = l.from
        BY <1>1, <4>1 DEF Follows, Matching
      <4>3. CASE l.kind = "lists"
        BY <1>1, <2>1, <2>2, <4>2, <4>3 DEF Sources
      <4>4. CASE l.kind = "implements"
        BY <1>1, <2>1, <2>2, <4>2, <4>4 DEF Sources
      <4>5. CASE l.kind \notin FromChunks \union {"lists", "implements"}
        <5>1. Sources(m.kind)' = Files
          BY <2>2, <4>5 DEF Sources, FromChunks
        <5> QED  BY <2>1, <4>2, <4>5, <5>1
      <4> QED  BY <3>2, <4>3, <4>4, <4>5
    <3> QED  BY <3>1, <3>2
  <2> QED  BY <2>1, <2>2, <2>3, <2>4 DEF LinkFits, ToFits
<1>5. here' \subseteq Chunks /\ external' \subseteq here'
  BY <1>1, <1>2
<1> QED  BY <1>1, <1>3, <1>4, <1>5 DEF ReferenceIInv

\* What each rewriting rule does to one reference.
LEMMA RulesFollow ==
  ASSUME ReferenceIInv, MayRename, NEW l \in links, NEW updates,
         \A u \in updates : u.to \in Renamed, NEW text \in NewTexts(updates),
         NEW m, \/ m = Moved(FrontmatterUpdated(l, updates, text))
                \/ m = Moved(BackreferenceUpdated(FrontmatterUpdated(l, updates, text)))
  PROVE  Follows(l, m)
<1>1. l = Link(l.kind, l.from, l.to)
  BY KindsOf
<1> DEFINE f == FrontmatterUpdated(l, updates, text)
<1>2. f = Link(l.kind, l.from, f.to) /\ (f.to # l.to => f.to \in Targets(l.kind))
  <2>1. CASE l \in Garbled(updates)
    <3>1. text[l] \in Targets(l.kind) /\ f = [l EXCEPT !.to = text[l]]
      BY <2>1 DEF FrontmatterUpdated, NewTexts
    <3> HIDE DEF f
    <3> QED  BY <1>1, <3>1 DEF Link
  <2>2. CASE l \notin Garbled(updates) /\ l.to \in OldValues(l.from, updates)
    <3>1. l.to \in Renamed /\ f = [l EXCEPT !.to = NewName[l.to]]
      BY <2>2 DEF FrontmatterUpdated, OldValues
    <3>2. NewName[l.to] \in Targets(l.kind)
      BY <3>1, ToChunk, NewNames DEF Renamed
    <3> HIDE DEF f
    <3> QED  BY <1>1, <3>1, <3>2 DEF Link
  <2>3. CASE l \notin Garbled(updates) /\ l.to \notin OldValues(l.from, updates)
    <3>1. f = l
      BY <2>3 DEF FrontmatterUpdated
    <3> HIDE DEF f
    <3> QED  BY <1>1, <3>1
  <2> QED  BY <2>1, <2>2, <2>3
<1> DEFINE b == BackreferenceUpdated(f)
<1>3. b = Link(l.kind, l.from, b.to) /\ (b.to # l.to => b.to \in Targets(l.kind))
  <2>1. f.kind = l.kind /\ f.from = l.from /\ f = Link(f.kind, f.from, f.to)
    <3> HIDE DEF f
    <3> QED  BY <1>2 DEF Link
  <2> HIDE DEF f
  <2>2. CASE b = [f EXCEPT !.to = NewName[f.to]] /\ l.kind = "backref" /\ f.to \in Renamed
    <3>1. NewName[f.to] \in Targets(l.kind)
      BY <2>2, NewNames DEF Renamed, Targets
    <3> HIDE DEF b
    <3> QED  BY <1>2, <2>1, <2>2, <3>1 DEF Link
  <2>3. CASE b = f
    <3> HIDE DEF b
    <3> QED  BY <1>2, <2>3
  <2> QED  BY <2>1, <2>2, <2>3 DEF BackreferenceUpdated
<1>4. ASSUME NEW x, x = Link(l.kind, l.from, x.to), x.to # l.to => x.to \in Targets(l.kind)
      PROVE  Follows(l, Moved(x))
  <2>1. x.kind = l.kind /\ x.from = l.from
    BY <1>4 DEF Link
  <2>2. CASE l.from \in Matching
    <3>1. Moved(x) = [x EXCEPT !.from = Name(l.from)]
      BY <2>1, <2>2 DEF Moved
    <3>2. Moved(x) = Link(l.kind, Name(l.from), x.to)
      BY <1>4, <3>1 DEF Link
    <3> QED  BY <1>4, <2>2, <3>2 DEF Follows, Link
  <2>3. CASE l.from \notin Matching
    <3>1. Moved(x) = x
      BY <2>1, <2>3 DEF Moved
    <3> QED  BY <1>4, <2>1, <2>3, <3>1 DEF Follows
  <2> QED  BY <2>2, <2>3
<1>5. m = Moved(f) \/ m = Moved(b)
  OBVIOUS
<1> HIDE DEF f, b
<1> QED  BY <1>2, <1>3, <1>4, <1>5

\* A rename that succeeds: the frontmatter of the files with updates and the comments are
\* rewritten, and the directories moved.
Rewritten(l, text) == Moved(BackreferenceUpdated(FrontmatterUpdated(l, FrontmatterUpdates, text)))
RewrittenBy(text) ==
  /\ text \in NewTexts(FrontmatterUpdates) /\ MayRename /\ DirectoriesRenamed
  /\ links' = {Rewritten(l, text) : l \in links}

LEMMA UpdatesAre ==
  ASSUME ReferenceIInv
  PROVE  \A u \in FrontmatterUpdates : u \in links /\ u.to \in Renamed /\ u.from \notin Files
<1> SUFFICES ASSUME NEW u \in FrontmatterUpdates
             PROVE  u \in links /\ u.to \in Renamed /\ u.from \notin Files
  OBVIOUS
<1>1. /\ u \in links /\ u.to \in Renamed
      /\ \/ u.kind = "after" \/ u.kind = "implements"
         \/ u.from \in Narratives \union Investigations
  BY DEF FrontmatterUpdates, CreatedAfterUpdates, SubsystemUpdates, NarrativeUpdates, InvestigationUpdates
<1>2. u.from \in Chunks \/ u.from \in Parents
  <2>1. here \subseteq Chunks /\ Local \subseteq here /\ parents \subseteq Parents
    BY DEF ReferenceIInv, Local
  <2>2. /\ u.kind = "after" => u.from \in Local
        /\ u.kind = "implements" => u.from \in parents
    BY <1>1, KindsOf DEF FromChunks
  <2> QED  BY <1>1, <2>1, <2>2 DEF Parents
<1> QED  BY <1>1, <1>2, KindsApart DEF Parents

LEMMA RenameStepFits ==
  ASSUME ReferenceIInv, RenameStep
  PROVE  ReferenceIInv'
<1>1. CASE RenameSucceeds
  <2>1. PICK text : RewrittenBy(text)
    BY <1>1 DEF RenameSucceeds, RewrittenBy, Rewritten
  <2>2. \A m \in links' : \E l \in links : Follows(l, m)
    <3> DEFINE updates == FrontmatterUpdates
    <3>1. /\ \A u \in updates : u.to \in Renamed
          /\ text \in NewTexts(updates) /\ MayRename
          /\ links' = {Moved(BackreferenceUpdated(FrontmatterUpdated(l, updates, text))) : l \in links}
      BY <2>1, UpdatesAre DEF RewrittenBy, Rewritten
    <3>2. PICK us : us = updates
      OBVIOUS
    <3> HIDE DEF updates
    <3> QED  BY <3>1, <3>2, RulesFollow
  <2> QED  BY <2>1, <2>2, RenameFits DEF RewrittenBy
<1>2. ASSUME NEW written \in SUBSET here, RenameFails(written)
      PROVE  ReferenceIInv'
  <2> DEFINE updates == {u \in CreatedAfterUpdates : u.from \in written}
  <2>1. PICK text \in NewTexts(updates) :
          links' = {Moved(FrontmatterUpdated(l, updates, text)) : l \in links}
    BY <1>2 DEF RenameFails
  <2>2. MayRename /\ DirectoriesRenamed
    BY <1>2 DEF RenameFails
  <2>3. \A u \in updates : u.to \in Renamed
    BY DEF CreatedAfterUpdates
  <2> HIDE DEF updates
  <2>4. \A m \in links' : \E l \in links : Follows(l, m)
    BY <2>1, <2>2, <2>3, RulesFollow
  <2> QED  BY <2>2, <2>4, RenameFits
<1> QED  BY <1>1, <1>2 DEF RenameStep

\* What the rename makes of a reference that it does not garble: the new name if it looks
\* there, and what it was otherwise.
LEMMA RewrittenIs ==
  ASSUME ReferenceIInv, NEW text, RewrittenBy(text), NEW l \in links, l \notin Garbled(FrontmatterUpdates)
  PROVE  /\ Rewritten(l, text).to \in {l.to, Name(l.to)}
         /\ l.kind \notin ToChunks => Rewritten(l, text).to = l.to
         /\ l.to \in here /\ (\/ l.kind = "lists" /\ l.from # FrictionLog
                              \/ l.kind = "implements"
                              \/ l.kind = "backref" /\ l.from \in Searched) =>
              Rewritten(l, text).to = Name(l.to)
<1> DEFINE f == FrontmatterUpdated(l, FrontmatterUpdates, text)
           b == BackreferenceUpdated(f)
<1>1. l = Link(l.kind, l.from, l.to)
  BY KindsOf
<1>2. f = IF l.to \in OldValues(l.from, FrontmatterUpdates) THEN [l EXCEPT !.to = NewName[l.to]] ELSE l
  BY DEF FrontmatterUpdated
<1>3. l.to \in OldValues(l.from, FrontmatterUpdates) => l.to \in Renamed /\ l.from \notin Files
  BY UpdatesAre DEF OldValues
<1>4. l.kind = "backref" => l.from \in Files
  BY KindsOf DEF FromChunks
<1>5. f.kind = l.kind /\ f.from = l.from /\ f.to \in {l.to, Name(l.to)} /\ (l.kind = "backref" => f = l)
      /\ f = Link(l.kind, l.from, f.to)
  <2> HIDE DEF f
  <2> QED  BY <1>1, <1>2, <1>3, <1>4 DEF Link, Name
<1> DEFINE found == /\ l.kind = "backref" /\ l.from \in Searched /\ l.to \in Renamed
                    /\ \E c \in Matching : InText(c, l.to)
<1>6. b = IF found THEN [l EXCEPT !.to = NewName[l.to]] ELSE f
  <2> HIDE DEF f
  <2> QED  BY <1>5 DEF BackreferenceUpdated
<1>7. Rewritten(l, text).to = b.to
  <2>1. Rewritten(l, text) = Moved(b)
    BY DEF Rewritten
  <2> HIDE DEF f, found
  <2>2. b = Link(l.kind, l.from, b.to)
    <3> HIDE DEF b
    <3> QED  BY <1>1, <1>5, <1>6 DEF Link
  <2> HIDE DEF b
  <2>3. Moved(b).to = b.to
    BY <2>2 DEF Moved, Link
  <2> QED  BY <2>1, <2>3
<1>8. b.to \in {l.to, Name(l.to)} /\ (found => b.to = Name(l.to)) /\ (~found => b = f)
  <2>1. found => l.to \in Renamed
    OBVIOUS
  <2> HIDE DEF f, b, found
  <2> QED  BY <1>1, <1>5, <1>6, <2>1 DEF Link, Name
<1>9. l.kind \notin ToChunks => Rewritten(l, text).to = l.to
  <2>1. l.kind \notin ToChunks => Name(l.to) = l.to
    BY ToChunk DEF Name
  <2> HIDE DEF b
  <2> QED  BY <1>7, <1>8, <2>1
<1>10. ASSUME l.to \in here, l.to \in Renamed,
              \/ l.kind = "lists" /\ l.from # FrictionLog
              \/ l.kind = "implements"
              \/ l.kind = "backref" /\ l.from \in Searched
       PROVE  b.to = Name(l.to)
  <2>1. CASE l.kind = "backref" /\ l.from \in Searched
    <3>1. l.to \in Matching
      BY <1>10 DEF Matching
    <3>2. found
      BY <1>10, <2>1, <3>1 DEF InText
    <3> QED  BY <1>8, <3>2
  <2>2. CASE l.kind # "backref"
    <3>1. l \in FrontmatterUpdates
      <4>1. CASE l.kind = "lists" /\ l.from # FrictionLog
        <5>1. l.from \in Narratives \union Investigations
          BY <4>1, KindsOf DEF ReferenceIInv, Parents
        <5> QED  BY <1>10, <4>1, <5>1 DEF FrontmatterUpdates, NarrativeUpdates, InvestigationUpdates
      <4>2. CASE l.kind = "implements"
        BY <1>10, <4>2 DEF FrontmatterUpdates, SubsystemUpdates
      <4> QED  BY <1>10, <2>2, <4>1, <4>2
    <3>2. l.to \in OldValues(l.from, FrontmatterUpdates)
      BY <3>1 DEF OldValues
    <3>3. f.to = Name(l.to)
      <4> HIDE DEF f
      <4> QED  BY <1>1, <1>2, <1>10, <3>2 DEF Link, Name
    <3>4. b = f
      BY <1>8, <2>2
    <3> HIDE DEF f, b
    <3> QED  BY <3>3, <3>4
  <2> QED  BY <1>10, <2>1, <2>2
<1>11. l.to \notin Renamed => Name(l.to) = l.to
  BY DEF Name
<1> HIDE DEF f, b, found
<1> QED  BY <1>7, <1>8, <1>9, <1>10, <1>11

LEMMA RewrittenFits ==
  ASSUME ReferenceIInv, NEW text, RewrittenBy(text)
  PROVE  /\ links' = {Rewritten(l, text) : l \in links} /\ MayRename /\ UNCHANGED <<parents, entries>>
         /\ \A l \in links : Follows(l, Rewritten(l, text))
         /\ \A c \in here : Name(c) \in here' /\ (c \in Local <=> Name(c) \in Local')
<1>1. MayRename /\ DirectoriesRenamed /\ links' = {Rewritten(l, text) : l \in links}
  BY DEF RewrittenBy
<1>2. \A l \in links : Follows(l, Rewritten(l, text))
  <2> DEFINE updates == FrontmatterUpdates
  <2>1. /\ \A u \in updates : u.to \in Renamed
        /\ text \in NewTexts(updates)
        /\ \A l \in links : Rewritten(l, text) = Moved(BackreferenceUpdated(FrontmatterUpdated(l, updates, text)))
    BY UpdatesAre DEF RewrittenBy, Rewritten
  <2> HIDE DEF updates
  <2> QED  BY <1>1, <2>1, RulesFollow
<1>3. \A m \in links' : \E l \in links : Follows(l, m)
  BY <1>1, <1>2
<1>4. \A c \in here : Name(c) \in here' /\ (c \in Local <=> Name(c) \in Local')
  BY <1>1, <1>3, RenameFits
<1> QED  BY <1>1, <1>2, <1>4 DEF DirectoriesRenamed

\* Where a reference stands after the rename.
LEMMA SourceOf ==
  ASSUME ReferenceIInv, NEW text, RewrittenBy(text), NEW l \in links
  PROVE  /\ Rewritten(l, text) = Link(l.kind, Rewritten(l, text).from, Rewritten(l, text).to)
         /\ Rewritten(l, text).kind = l.kind /\ Rewritten(l, text).from = Name(l.from)
         /\ l.kind \in FromChunks => l.from \in here
         /\ l.kind \notin FromChunks => Rewritten(l, text).from = l.from
<1>1. Follows(l, Rewritten(l, text)) /\ MayRename
  BY RewrittenFits
<1>2. CASE l.kind \in FromChunks
  <2>1. l.from \in here
    BY <1>2, KindsOf DEF Local
  <2> QED  BY <1>1, <1>2, <2>1, NamesApart DEF Follows, Link
<1>3. CASE l.kind \notin FromChunks
  <2>1. l.from \notin Chunks
    BY <1>3, KindsOf, KindsApart DEF ReferenceIInv, Parents
  <2>2. l.from \notin Matching /\ l.from \notin Renamed
    BY <2>1, NewNames DEF ReferenceIInv, Matching, Renamed
  <2> QED  BY <1>1, <1>3, <2>2 DEF Follows, Link, Name
<1> QED  BY <1>2, <1>3

\* A comment where the rename does not look still names what it named, which is there only
\* if its name is the same.
LEMMA OldNameGone ==
  ASSUME ReferenceIInv, MayRename, DirectoriesRenamed, NEW c \in here, c \in here'
  PROVE  Name(c) = c
<1>1. PICK d \in here : c = Name(d)
  BY DEF DirectoriesRenamed
<1>2. CASE d \notin Renamed
  BY <1>1, <1>2 DEF Name
<1>3. CASE d \in Renamed
  <2>1. NewName[d] = d \/ NewName[d] \notin here
    BY <1>3 DEF MayRename, Matching
  <2> QED  BY <1>1, <1>3, <2>1 DEF Name
<1> QED  BY <1>2, <1>3

LEMMA RenameBreaksLittle ==
  ASSUME ReferenceIInv, RenameSucceeds, Errors = Reported, Errors' = Reported', Errors = {}
  PROVE  \A m \in Errors' :
           \/ m.kind = "depends" \/ m.from = FrictionLog
           \/ m.kind = "backref" /\ m.from \notin Searched
           \/ \E g \in Garbled(FrontmatterUpdates) : m.kind = g.kind /\ m.from = Name(g.from)
<1> SUFFICES ASSUME NEW m \in Reported', m.kind # "depends", m.from # FrictionLog,
                    m.kind = "backref" => m.from \in Searched,
                    \A g \in Garbled(FrontmatterUpdates) : ~(m.kind = g.kind /\ m.from = Name(g.from))
             PROVE  FALSE
  OBVIOUS
<1>0. PICK text : RewrittenBy(text)
  BY DEF RenameSucceeds, RewrittenBy, Rewritten
<1>1. m \in links' /\ m.kind \notin {"after", "code", "narrative_ref"}
  BY DEF Reported, Dangling
<1>2. PICK l \in links : m = Rewritten(l, text)
  BY <1>0, <1>1, RewrittenFits
<1>3. /\ m.kind = l.kind /\ l.kind \in LinkKinds /\ l.kind \notin {"after", "code", "narrative_ref", "depends"}
      /\ l.kind \in FromChunks \/ m.from = l.from
      /\ m.from = Name(l.from)
  BY <1>0, <1>1, <1>2, SourceOf, KindsOf
<1>4. l.to \in Existing(l.kind) /\ (l.kind = "lists" => l.to \notin external)
  BY <1>3 DEF Reported, Dangling
<1>5. m.to \notin Existing(m.kind)' \/ (m.kind = "lists" /\ m.to \in external')
  BY DEF Reported, Dangling
<1>6. l \notin Garbled(FrontmatterUpdates)
  BY <1>3
<1>7. CASE l.kind \in ToChunks
  <2>1. l.kind \in {"lists", "implements", "backref"} /\ l.to \in here /\ (l.kind = "lists" => l.to \in Local)
    BY <1>3, <1>4, <1>7 DEF ToChunks, Existing, Local
  <2>2. m.to = Name(l.to)
    <3>1. l.kind \notin FromChunks
      BY <2>1 DEF FromChunks
    <3>2. /\ l.kind = "lists" => l.from # FrictionLog
          /\ l.kind = "backref" => l.from \in Searched
      BY <1>3, <3>1
    <3> QED  BY <1>0, <1>2, <1>6, <2>1, <3>2, RewrittenIs
  <2>3. m.to \in here' /\ (l.kind = "lists" => m.to \in Local')
    BY <1>0, <2>1, <2>2, RewrittenFits
  <2> QED  BY <1>3, <1>5, <2>1, <2>3 DEF Existing, Local
<1>8. CASE l.kind \notin ToChunks
  <2>1. m.to = l.to /\ UNCHANGED <<parents, entries>>
    BY <1>0, <1>2, <1>6, <1>8, RewrittenFits, RewrittenIs
  <2>2. Existing(l.kind)' = Existing(l.kind)
    BY <1>8, <2>1 DEF Existing, ToChunks
  <2> QED  BY <1>3, <1>4, <1>5, <1>8, <2>1, <2>2 DEF ToChunks
<1> QED  BY <1>7, <1>8

LEMMA RenameKeepsAnswers ==
  ASSUME ReferenceIInv, RenameSucceeds, Errors = Reported, Errors = {}, Warnings = {},
         Garbled(FrontmatterUpdates) = {}
  PROVE  Warnings' = {}
<1>0. PICK text : RewrittenBy(text)
  BY DEF RenameSucceeds, RewrittenBy, Rewritten
<1>1. /\ \A l \in links : l.kind \notin {"after", "code", "narrative_ref"} => l.to \in Existing(l.kind)
      /\ \A l \in links : l.kind \in {"depends", "lists"} => l.to \notin external
  BY DEF Reported, Dangling
<1>2. /\ \A c \in Local : OutboundWarnings(c) = {}
      /\ \A s \in parents \intersect Subsystems : SubsystemWarnings(s) = {}
      /\ BackreferenceWarnings = {}
  BY DEF Warnings
<1>3. \A m \in links' : \E l \in links : m = Rewritten(l, text)
  BY <1>0, RewrittenFits
<1>4. /\ MayRename /\ UNCHANGED <<parents, entries>> /\ \A l \in links : Rewritten(l, text) \in links'
      /\ \A c \in here : Name(c) \in here' /\ (c \in Local <=> Name(c) \in Local')
      /\ \A l \in links : l.kind \notin ToChunks => Rewritten(l, text).to = l.to
  BY <1>0, RewrittenFits, RewrittenIs
<1>5. ASSUME NEW c \in Local', NEW m \in links', m.from = c, m.kind \in {"narrative", "investigation", "subsystem"},
             m.to \in parents', c \notin Lists(m.to)'
      PROVE  FALSE
  <2> PICK l \in links : m = Rewritten(l, text)
    BY <1>3
  <2>1. /\ m.kind = l.kind /\ l.from \in here /\ c = Name(l.from) /\ m.to = l.to /\ l.from \in Local
    <3>1. m.kind = l.kind
      BY <1>0, SourceOf
    <3>2. l.kind \in FromChunks /\ l.kind \notin ToChunks
      BY <1>5, <3>1 DEF FromChunks, ToChunks
    <3> QED  BY <1>0, <1>4, <1>5, <3>1, <3>2, SourceOf, KindsOf
  <2>2. l.from \in Lists(l.to)
    <3>1. OutboundWarnings(l.from) = {}
      BY <1>2, <2>1
    <3> QED  BY <1>4, <1>5, <2>1, <3>1 DEF OutboundWarnings
  <2>3. PICK k \in links : k.kind \in {"lists", "implements"} /\ k.from = l.to /\ k.to = l.from
    BY <2>2 DEF Lists
  <2>4. k.from # FrictionLog
    <3>1. l.to \in Parents
      BY <2>1, <1>5, KindsOf DEF ToFits, Parents
    <3> QED  BY <1>4, <1>5, <2>1, <2>3, <3>1, KindsApart DEF Parents
  <2>5. Rewritten(k, text).to = Name(l.from)
    BY <1>0, <2>1, <2>3, <2>4, RewrittenIs
  <2>6. Rewritten(k, text).kind = k.kind /\ Rewritten(k, text).from = l.to
    BY <1>0, <2>3, SourceOf DEF FromChunks
  <2>7. Name(l.from) \in Lists(l.to)'
    BY <1>4, <2>3, <2>5, <2>6 DEF Lists
  <2> QED  BY <1>5, <2>1, <2>7
<1>6. ASSUME NEW s \in parents' \intersect Subsystems, NEW m \in links', m.kind = "implements", m.from = s,
             m.to \in Local', Link("subsystem", m.to, s) \notin links'
      PROVE  FALSE
  <2> PICK l \in links : m = Rewritten(l, text)
    BY <1>3
  <2>1. l.kind = "implements" /\ l.from = s /\ l.to \in here
    <3>1. l.kind = "implements" /\ l.from = s
      BY <1>0, <1>6, SourceOf DEF FromChunks
    <3> QED  BY <1>1, <3>1 DEF Existing
  <2>2. m.to = Name(l.to) /\ l.to \in Local
    BY <1>0, <1>4, <1>6, <2>1, RewrittenIs
  <2>3. Link("subsystem", l.to, s) \in links
    BY <1>2, <1>4, <2>1, <2>2 DEF SubsystemWarnings
  <2>4. Rewritten(Link("subsystem", l.to, s), text) = Link("subsystem", Name(l.to), s)
    <3> DEFINE k == Link("subsystem", l.to, s)
    <3>1. k.kind = "subsystem" /\ k.from = l.to /\ k.to = s
      BY DEF Link
    <3>2. k \in links
      BY <2>3
    <3> HIDE DEF k
    <3>3. Rewritten(k, text) = Link("subsystem", Name(l.to), s)
      BY <1>0, <1>4, <3>1, <3>2, SourceOf DEF FromChunks, ToChunks
    <3> QED  BY <3>3 DEF k
  <2> QED  BY <1>4, <1>6, <2>2, <2>3, <2>4
<1>7. ASSUME NEW m \in links', m.kind = "backref", m.to \in Local', m.from \notin CodeFiles(m.to)'
      PROVE  FALSE
  <2> PICK l \in links : m = Rewritten(l, text)
    BY <1>3
  <2>1. l.kind = "backref" /\ l.from = m.from /\ l.to \in here
    <3>1. l.kind = "backref" /\ l.from = m.from
      BY <1>0, <1>7, SourceOf DEF FromChunks
    <3> QED  BY <1>1, <3>1 DEF Existing
  <2>2. m.to = Name(l.to) /\ l.to \in Local
    <3>1. m.to = Name(l.to)
      <4>1. CASE m.to = l.to
        <5>1. DirectoriesRenamed /\ m.to \in here'
          BY <1>0, <1>7 DEF RewrittenBy, Local
        <5> QED  BY <1>4, <2>1, <4>1, <5>1, OldNameGone
      <4> QED  BY <1>0, <2>1, <4>1, RewrittenIs
    <3> QED  BY <1>4, <1>7, <2>1, <3>1
  <2>3. l.from \in CodeFiles(l.to)
    BY <1>2, <2>1, <2>2 DEF BackreferenceWarnings
  <2>4. PICK k \in links : k.kind = "code" /\ k.from = l.to /\ k.to = l.from
    BY <2>3 DEF CodeFiles
  <2>5. /\ Rewritten(k, text).kind = "code" /\ Rewritten(k, text).from = Name(l.to)
        /\ Rewritten(k, text).to = l.from
    BY <1>0, <1>4, <2>4, SourceOf DEF FromChunks, ToChunks
  <2>6. m.from \in CodeFiles(m.to)'
    BY <1>4, <2>1, <2>2, <2>5 DEF CodeFiles
  <2> QED  BY <1>7, <2>6
<1>8. \A c \in Local' : OutboundWarnings(c)' = {}
  BY <1>5 DEF OutboundWarnings
<1>9. \A s \in parents' \intersect Subsystems : SubsystemWarnings(s)' = {}
  BY <1>6 DEF SubsystemWarnings
<1>10. BackreferenceWarnings' = {}
  BY <1>7 DEF BackreferenceWarnings
<1> QED  BY <1>8, <1>9, <1>10 DEF Warnings

\* A chunk that may be completed still may.
LEMMA RenameKeepsReady ==
  ASSUME ReferenceIInv, RenameSucceeds, NEW c \in Local, ReadyToComplete(c),
         \A g \in Garbled(FrontmatterUpdates) : g.from # c
  PROVE  ReadyToComplete(Name(c))'
<1>0. PICK text : RewrittenBy(text)
  BY DEF RenameSucceeds, RewrittenBy, Rewritten
<1>1. /\ MayRename /\ UNCHANGED <<parents, entries>> /\ \A l \in links : Rewritten(l, text) \in links'
      /\ \A m \in links' : \E l \in links : m = Rewritten(l, text)
      /\ \A l \in links : l.kind \notin ToChunks /\ l.from = c => Rewritten(l, text).to = l.to
      /\ c \in here
  BY <1>0, RewrittenFits, RewrittenIs DEF Local
<1>2. CodeFiles(Name(c))' # {}
  <2>1. PICK l \in links : l.kind = "code" /\ l.from = c
    BY DEF ReadyToComplete, CodeFiles
  <2>2. Rewritten(l, text).kind = "code" /\ Rewritten(l, text).from = Name(c) /\ Rewritten(l, text) \in links'
    BY <1>0, <1>1, <2>1, SourceOf DEF FromChunks
  <2> QED  BY <2>2 DEF CodeFiles
<1>3. ASSUME NEW m \in links', m.from = Name(c),
             \/ m.kind \in {"narrative", "investigation", "subsystem"} /\ m.to \notin parents'
             \/ m.kind = "friction" /\ m.to \notin entries'
      PROVE  FALSE
  <2> PICK l \in links : m = Rewritten(l, text)
    BY <1>1
  <2>1. l.kind = m.kind /\ l.kind \in FromChunks /\ l.kind \notin ToChunks
    BY <1>0, <1>3, SourceOf DEF FromChunks, ToChunks
  <2>2. l.from \in here /\ Name(l.from) = Name(c)
    BY <1>0, <1>1, <1>3, <2>1, SourceOf
  <2>3. l.from = c /\ m.to = l.to
    BY <1>1, <2>1, <2>2, NamesApart
  <2>4. l \in OutboundErrors(c) /\ l.kind # "depends"
    BY <1>1, <1>3, <2>1, <2>2, <2>3 DEF OutboundErrors
  <2> QED  BY <2>4 DEF ReadyToComplete
<1>4. {l \in OutboundErrors(Name(c))' : l.kind # "depends"} = {}
  BY <1>3 DEF OutboundErrors
<1> QED  BY <1>2, <1>4 DEF ReadyToComplete

LEMMA ReferenceIInvStep ==
  ASSUME ReferenceIInv, [ReferenceNext]_referenceVars
  PROVE  ReferenceIInv' /\ (Grows \/ RenameStep)
<1>1. CASE UNCHANGED referenceVars
  <2>1. UNCHANGED <<here, external, parents, entries, links>>
    BY <1>1 DEF referenceVars
  <2>2. ReferenceIInv'
    BY <2>1, WritingFits DEF ReferenceIInv, Local
  <2> QED  BY <2>1, <2>2 DEF Grows
<1> QED  BY <1>1, WriteStepGrows, NarrativeStepGrows, RenameStepFits DEF ReferenceNext

LEMMA ReferenceIInvInit ==
  ASSUME ReferenceInit
  PROVE  ReferenceIInv
<1>1. entries = 1 .. 0 /\ 0 \in Nat
  BY DEF ReferenceInit
<1> QED  BY <1>1 DEF ReferenceInit, ReferenceIInv

LEMMA ReferenceAlways == ReferenceSpec => [](ReferenceIInv /\ Errors = Reported)
<1>1. ReferenceSpec => []ReferenceIInv
  BY ReferenceIInvInit, ReferenceIInvStep, PTL DEF ReferenceSpec
<1> QED  BY <1>1, ValidateFindsAll, PTL

\* Every reference stands in a file that exists and the passes of `ve validate' find exactly
\* what points nowhere, but for what none of them reads, after any commands and any renames
\* of any groups of chunks, failed ones too (integrity.py, cluster_rename.py).
THEOREM ReferencesCorrect == ReferenceSpec => []ReferenceInv
<1>1. ReferenceIInv /\ Errors = Reported => ReferenceInv
  <2> SUFFICES ASSUME ReferenceIInv, Errors = Reported PROVE ReferenceInv
    OBVIOUS
  <2>1. ReferenceTypeOK
    BY DEF ReferenceIInv, LinkFits, ReferenceTypeOK
  <2> QED  BY <2>1 DEF ReferenceInv, ValidateFinds, Reported
<1> QED  BY <1>1, ReferenceAlways, PTL

\* Only a rename makes `ve validate' report more, and a rename that succeeds leaves a valid
\* project valid, but for what it is known not to rewrite or to garble; where nothing is
\* garbled, what answered each other still does, and a chunk that could be completed still
\* can, for any new names and any texts in them (cluster_rename.py).
THEOREM ValidAlwaysStays == ReferenceSpec => ValidStaysValid
<1>1. /\ ReferenceIInv /\ Errors = Reported /\ (ReferenceIInv /\ Errors = Reported)' /\ [ReferenceNext]_referenceVars =>
           [Errors' \subseteq Errors \union {l \in links' : l.to \in external'} \/ RenameStep]_referenceVars
  <2> SUFFICES ASSUME ReferenceIInv, Errors = Reported, Errors' = Reported', [ReferenceNext]_referenceVars
               PROVE  Errors' \subseteq Errors \union {l \in links' : l.to \in external'} \/ RenameStep
    OBVIOUS
  <2>1. CASE Grows
    BY <2>1, WritingBreaksNothing DEF Grows
  <2> QED  BY <2>1, ReferenceIInvStep
<1>2. /\ ReferenceIInv /\ Errors = Reported /\ (ReferenceIInv /\ Errors = Reported)' =>
           [RenameSucceeds =>
              LET garbled == Garbled(FrontmatterUpdates)
              IN  /\ Errors = {} =>
                       \A l \in Errors' : \/ l.kind = "depends" \/ l.from = FrictionLog
                                          \/ l.kind = "backref" /\ l.from \notin Searched
                                          \/ \E g \in garbled : l.kind = g.kind /\ l.from = Name(g.from)
                  /\ Errors = {} /\ Warnings = {} /\ garbled = {} => Warnings' = {}
                  /\ \A c \in Local : ReadyToComplete(c) /\ (\A g \in garbled : g.from # c)
                                       => ReadyToComplete(Name(c))']_referenceVars
  <2> SUFFICES ASSUME ReferenceIInv, Errors = Reported, Errors' = Reported', RenameSucceeds
               PROVE  /\ Errors = {} =>
                           \A l \in Errors' :
                             \/ l.kind = "depends" \/ l.from = FrictionLog
                             \/ l.kind = "backref" /\ l.from \notin Searched
                             \/ \E g \in Garbled(FrontmatterUpdates) : l.kind = g.kind /\ l.from = Name(g.from)
                      /\ Errors = {} /\ Warnings = {} /\ Garbled(FrontmatterUpdates) = {} => Warnings' = {}
                      /\ \A c \in Local :
                           ReadyToComplete(c) /\ (\A g \in Garbled(FrontmatterUpdates) : g.from # c)
                             => ReadyToComplete(Name(c))'
    OBVIOUS
  <2> QED  BY RenameBreaksLittle, RenameKeepsAnswers, RenameKeepsReady
<1> QED  BY <1>1, <1>2, ReferenceAlways, PTL DEF ReferenceSpec, ValidStaysValid, OnlyRenameBreaks, RenameKeepsValid

-----------------------------------------------------------------------------
(* The commands over a task.                                               *)

Dirs == [there : BOOLEAN, goal : SUBSET Goals, plan : SUBSET Contents, pointer : SUBSET Pointers]
AtMostOne(S) == \A a, b \in S : a = b
IdsOf(d) == {g.id : g \in d.goal}
Ids(r, n) == IdsOf(dir[r][n])
Pointed(p, n, m) == \E x \in dir[p][n].pointer : x.to = m

\* A directory has at most one file of each kind, of a text that was written.
DirFits(d) ==
  /\ AtMostOne(d.goal) /\ AtMostOne(d.plan) /\ AtMostOne(d.pointer)
  /\ ~d.there => d = NoDir
  /\ \A g \in d.goal : IsInjective(g.deps) /\ g.id <= made

DirTypes ==
  /\ dir \in [Repos -> [Names -> Dirs]]
  /\ \A r \in Repos, n \in Names : DirFits(dir[r][n])
  /\ mounted \subseteq Repos /\ made \in 0..MaxMade /\ started \in 0..MaxCommands
  /\ broken \subseteq Names

\* The steps of the commands, by what they come from.
Families == {{"make", "point", "setDependents"},
             {"copyTree", "setDependents", "empty", "point"},
             {"point", "addDependent"},
             {"unpoint", "rmdir", "dropDependent"},
             {"unpoint", "copyGoal", "copyPlan", "dropDependent"},
             {"unpoint", "copyGoal", "copyPlan", "strip", "removePointer", "removeTree"}}
First == {"make", "copyTree", "unpoint"}
AtExternal == {"copyTree", "setDependents", "addDependent", "dropDependent", "removeTree"}
AtProject  == {"point", "unpoint", "rmdir", "empty", "copyGoal", "copyPlan", "strip", "removePointer"}

FileFits(f) ==
  /\ f.r \in Repos /\ f.n \in Names
  /\ f.do \in AtExternal => f.r = External
  /\ f.do \in AtProject => f.r \in Projects
  /\ f.do = "make" => f.x \in Goals /\ f.x.deps = <<>> /\ f.x.id <= made
  /\ f.do \in {"copyTree", "addDependent", "dropDependent"} => f.x \in Dependents
  /\ f.do = "setDependents" => f.x \in Seq(Dependents) /\ IsInjective(f.x)
  /\ f.do = "point" => f.x \in Names

\* What may not come after what.
After(h, f) ==
  /\ f.do \notin First /\ h.do # "removeTree"
  /\ h.do = "strip" => f.do # "copyGoal"
  /\ h.do = "point" => f.do # "empty"
InOrder(s) == \A i, j \in 1..Len(s) : i < j => After(s[i], s[j])

ToDo == ToSet(todo)

ToDoFits ==
  /\ todo \in Seq(ToDo) /\ InOrder(todo)
  /\ \A f \in ToDo : FileFits(f)
  /\ \E F \in Families : \A f \in ToDo : f.do \in F

Pending(do, r, n) == \E f \in ToDo : f.do = do /\ f.r = r /\ f.n = n
Owes(f, e, m) ==
  /\ f.n = m
  /\ (f.do = "setDependents" /\ e \in ToSet(f.x)) \/ (f.do = "addDependent" /\ f.x = e)
Owed(e, m) == \E f \in ToDo : Owes(f, e, m)
InList(e, m) == \A g \in dir[External][m].goal : e \in ToSet(g.deps)

FillFits(f) ==
  /\ f.do \in {"make", "copyTree"} => dir[f.r][f.n] = NoDir
  /\ f.do = "make" => \A r \in Repos, n \in Names : f.x.id \notin Ids(r, n)
  /\ f.do \in {"make", "copyTree"} => \A c \in ToDo : c.do = "point" => Owed(<<c.r, c.n>>, c.x)
  /\ f.do = "copyTree" => \A c \in ToDo : c.do = "point" => Pending("empty", c.r, c.n)
EmptyFits(f) ==
  f.do = "empty" => \A i \in Ids(f.r, f.n) :
    \/ \E m \in Names : i \in Ids(External, m)
    \/ \E c \in ToDo : c.do = "copyTree" /\ c.x = <<f.r, f.n>>
PointFits(f) ==
  f.do = "point" =>
    /\ Owed(<<f.r, f.n>>, f.x) \/ InList(<<f.r, f.n>>, f.x)
    /\ Pending("empty", f.r, f.n) \/ \A i \in Ids(f.r, f.n) : i \notin Ids(External, f.x)
SetFits(f) ==
  f.do = "setDependents" =>
    /\ \A p \in Projects, n \in Names : Pointed(p, n, f.n) => f.n \in broken \/ <<p, n>> \in ToSet(f.x)
    /\ \A c \in ToDo : c.do = "point" => c.x = f.n /\ <<c.r, c.n>> \in ToSet(f.x)
CopyFits(f) ==
  f.do = "copyGoal" => dir[f.r][f.n].pointer = {} \/ Pending("unpoint", f.r, f.n)

\* A chunk that is being demoted to p.
Demoting(n, p) ==
  /\ \A q \in Projects \intersect mounted : q # p =>
       /\ dir[q][n].goal = {}
       /\ dir[q][n].pointer = {} \/ Pending("removePointer", q, n)
  /\ dir[p][n].goal # {} \/ dir[p][n].pointer = {} \/ Pending("unpoint", p, n)
  /\ dir[p][n].goal # {} \/ dir[External][n].goal = {} \/ Pending("copyGoal", p, n)
  /\ (\A g \in dir[p][n].goal : g.deps = <<>> /\ p \notin g.code) \/ Pending("strip", p, n)
  /\ Pending("copyGoal", p, n) => Pending("strip", p, n)
  /\ \A c \in ToDo : /\ c.do \in {"unpoint", "copyGoal", "copyPlan", "strip"} => c.r = p /\ c.n = n
                     /\ c.do = "removePointer" => c.r # p /\ c.n = n
RemoveFits(f) == f.do = "removeTree" => \E p \in Projects : Demoting(f.n, p)

StepsFit ==
  \A f \in ToDo : FillFits(f) /\ EmptyFits(f) /\ PointFits(f) /\ SetFits(f) /\ CopyFits(f) /\ RemoveFits(f)

\* A pointer's artifact is there, and lists it, or will; a text has no pointer beside it.
PointersFit ==
  \A p \in Projects, n \in Names : \A x \in dir[p][n].pointer :
    /\ x.for \notin Ids(p, n)
    /\ x.to \in broken \/ x.for \in Ids(External, x.to)
    /\ x.to \in broken \/ Owed(<<p, n>>, x.to) \/ InList(<<p, n>>, x.to)

TaskIInv == DirTypes /\ ToDoFits /\ StepsFit /\ PointersFit

-----------------------------------------------------------------------------
(* Lists. *)

\* A set of numbers has a least one.
LEMMA HasLeast ==
  ASSUME NEW I \in SUBSET Nat, I # {}
  PROVE  \E m \in I : \A i \in I : m =< i
<1>1. IsWellFoundedOn(OpToRel(<, Nat), Nat)
  BY NatLessThanWellFounded
<1>2. PICK m \in I : \A i \in I : ~(<<i, m>> \in OpToRel(<, Nat))
  BY <1>1, WFMin
<1>3. ASSUME NEW i \in I PROVE m =< i
  <2>1. <<i, m>> \in Nat \X Nat /\ i \in Nat /\ m \in Nat
    OBVIOUS
  <2>2. ~(i < m)
    BY <1>2, <2>1 DEF OpToRel
  <2> QED  BY <2>1, <2>2
<1> QED  BY <1>3

LEMMA LeastIs ==
  ASSUME NEW I \in SUBSET Nat, I # {}
  PROVE  Min(I) \in I
BY HasLeast DEF Min

\* Removing an entry of a list that has each entry once.
LEMMA FirstIs ==
  ASSUME NEW s \in Seq(Dependents), NEW e, \E i \in 1..Len(s) : s[i] = e
  PROVE  LET k == SelectInSeq(s, LAMBDA v : v = e) IN k \in 1..Len(s) /\ s[k] = e
<1> DEFINE I == {i \in 1..Len(s) : s[i] = e}
<1>1. I # {} /\ I \subseteq Nat
  OBVIOUS
<1>2. SelectInSeq(s, LAMBDA v : v = e) = Min(I)
  BY <1>1 DEF SelectInSeq
<1>3. Min(I) \in I
  BY <1>1, LeastIs
<1> QED  BY <1>2, <1>3

LEMMA RemovedIs ==
  ASSUME NEW s \in Seq(Dependents), IsInjective(s), NEW e \in Dependents
  PROVE  LET t == RemoveFirst(s, e)
         IN  /\ t \in Seq(Dependents) /\ IsInjective(t)
             /\ \A i \in DOMAIN s : s[i] = e \/ \E j \in DOMAIN t : t[j] = s[i]
<1> DEFINE k == SelectInSeq(s, LAMBDA v : v = e)
           a == SubSeq(s, 1, k - 1)
           b == SubSeq(s, k + 1, Len(s))
           t == RemoveFirst(s, e)
<1>1. Len(s) \in Nat /\ DOMAIN s = 1..Len(s) /\ \A i \in 1..Len(s) : s[i] \in Dependents
  OBVIOUS
<1>2. CASE ~\E i \in 1..Len(s) : s[i] = e
  <2>1. t = s
    BY <1>2 DEF RemoveFirst
  <2> QED  BY <1>1, <2>1
<1>3. CASE \E i \in 1..Len(s) : s[i] = e
  <2>1. k \in 1..Len(s) /\ s[k] = e
    BY <1>3, FirstIs
  <2>2. t = a \o b
    BY <1>3 DEF RemoveFirst, RemoveAt
  <2> HIDE DEF k
  <2>3. /\ a \in Seq(Dependents) /\ Len(a) = k - 1 /\ \A i \in 1 .. k - 1 : a[i] = s[i]
        /\ b \in Seq(Dependents) /\ Len(b) = Len(s) - k /\ \A i \in 1 .. Len(s) - k : b[i] = s[k + i]
    <3>1. \A i \in 1 .. k - 1 : s[i] \in Dependents
      BY <1>1, <2>1
    <3>2. \A i \in k + 1 .. Len(s) : s[i] \in Dependents
      BY <1>1, <2>1
    <3>3. 1 \in Int /\ k - 1 \in Int /\ k + 1 \in Int /\ Len(s) \in Int
      BY <1>1, <2>1
    <3>4. /\ a \in Seq(Dependents) /\ Len(a) = IF 1 <= k - 1 THEN (k - 1) - 1 + 1 ELSE 0
          /\ \A i \in 1 .. (k - 1) - 1 + 1 : a[i] = s[1 + i - 1]
      BY <3>1, <3>3, SubSeqProperties
    <3>5. /\ b \in Seq(Dependents) /\ Len(b) = IF k + 1 <= Len(s) THEN Len(s) - (k + 1) + 1 ELSE 0
          /\ \A i \in 1 .. Len(s) - (k + 1) + 1 : b[i] = s[k + 1 + i - 1]
      BY <3>2, <3>3, SubSeqProperties
    <3> HIDE DEF a, b
    <3>6. Len(a) = k - 1 /\ \A i \in 1 .. k - 1 : a[i] = s[i]
      <4>1. \A i \in 1 .. k - 1 : i \in 1 .. (k - 1) - 1 + 1 /\ 1 + i - 1 = i
        BY <1>1, <2>1
      <4> QED  BY <1>1, <2>1, <3>4, <4>1
    <3>7. Len(b) = Len(s) - k /\ \A i \in 1 .. Len(s) - k : b[i] = s[k + i]
      <4>1. Len(b) = Len(s) - k
        <5>1. Len(b) = IF k + 1 <= Len(s) THEN Len(s) - (k + 1) + 1 ELSE 0
          BY <3>5
        <5>2. k \in Nat /\ k <= Len(s) /\ Len(s) \in Nat
          BY <1>1, <2>1
        <5> QED  BY <5>1, <5>2
      <4>2. ASSUME NEW i \in 1 .. Len(s) - k PROVE b[i] = s[k + i]
        <5>1. i \in 1 .. Len(s) - (k + 1) + 1 /\ k + 1 + i - 1 = k + i
          BY <1>1, <2>1
        <5>2. b[i] = s[k + 1 + i - 1]
          BY <3>5, <5>1
        <5> QED  BY <5>1, <5>2
      <4> QED  BY <4>1, <4>2
    <3> QED  BY <3>4, <3>5, <3>6, <3>7
  <2> HIDE DEF a, b, t
  <2>4. /\ t \in Seq(Dependents) /\ Len(t) = Len(a) + Len(b)
        /\ \A i \in 1 .. Len(a) + Len(b) : t[i] = IF i <= Len(a) THEN a[i] ELSE b[i - Len(a)]
    BY <2>2, <2>3, ConcatProperties
  <2>5. Len(t) = Len(s) - 1 /\ DOMAIN t = 1..Len(t) /\ \A i \in 1..Len(t) : t[i] = IF i < k THEN s[i] ELSE s[i + 1]
    <3>1. Len(t) = Len(s) - 1 /\ DOMAIN t = 1..Len(t)
      BY <1>1, <2>1, <2>3, <2>4
    <3>2. ASSUME NEW i \in 1..Len(t) PROVE t[i] = IF i < k THEN s[i] ELSE s[i + 1]
      <4>1. t[i] = IF i <= Len(a) THEN a[i] ELSE b[i - Len(a)]
        BY <2>4
      <4>2. CASE i < k
        <5>1. i <= Len(a) /\ i \in 1 .. k - 1
          BY <1>1, <2>1, <2>3, <4>2
        <5> QED  BY <2>3, <4>1, <4>2, <5>1
      <4>3. CASE ~(i < k)
        <5>1. ~(i <= Len(a)) /\ i - Len(a) \in 1 .. Len(s) - k /\ k + (i - Len(a)) = i + 1
          BY <1>1, <2>1, <2>3, <3>1, <4>3
        <5> QED  BY <2>3, <4>1, <4>3, <5>1
      <4> QED  BY <4>2, <4>3
    <3> QED  BY <3>1, <3>2
  <2>6. IsInjective(t)
    <3> SUFFICES ASSUME NEW i \in 1..Len(t), NEW j \in 1..Len(t), t[i] = t[j] PROVE i = j
      BY <2>5 DEF IsInjective
    <3>1. \A x, y \in 1..Len(s) : s[x] = s[y] => x = y
      BY <1>1 DEF IsInjective
    <3>2. i \in 1..Len(s) /\ i + 1 \in 1..Len(s) /\ j \in 1..Len(s) /\ j + 1 \in 1..Len(s)
      BY <1>1, <2>5
    <3> QED  BY <1>1, <2>1, <2>5, <3>1, <3>2
  <2>7. \A i \in DOMAIN s : s[i] = e \/ \E j \in DOMAIN t : t[j] = s[i]
    <3> SUFFICES ASSUME NEW i \in 1..Len(s), s[i] # e PROVE \E j \in 1..Len(t) : t[j] = s[i]
      BY <1>1, <2>5
    <3>1. CASE i < k
      <4>1. i \in 1..Len(t) /\ t[i] = s[i]
        BY <1>1, <2>1, <2>5, <3>1
      <4> QED  BY <4>1
    <3>2. CASE i > k
      <4>1. i - 1 \in 1..Len(t) /\ ~(i - 1 < k) /\ i - 1 + 1 = i
        BY <1>1, <2>1, <2>5, <3>2
      <4>2. t[i - 1] = s[i]
        BY <2>5, <4>1
      <4> QED  BY <4>1, <4>2
    <3> QED  BY <1>1, <2>1, <3>1, <3>2
  <2> QED  BY <2>4, <2>6, <2>7 DEF t
<1> QED  BY <1>2, <1>3

LEMMA AppendedIs ==
  ASSUME NEW s \in Seq(Dependents), IsInjective(s), NEW e \in Dependents
  PROVE  LET t == IF Contains(s, e) THEN s ELSE Append(s, e)
         IN  /\ t \in Seq(Dependents) /\ IsInjective(t)
             /\ \E j \in DOMAIN t : t[j] = e
             /\ \A i \in DOMAIN s : \E j \in DOMAIN t : t[j] = s[i]
<1>1. Len(s) \in Nat /\ DOMAIN s = 1..Len(s)
  OBVIOUS
<1>2. CASE Contains(s, e)
  BY <1>1, <1>2 DEF Contains
<1>3. CASE ~Contains(s, e)
  <2> DEFINE t == Append(s, e)
  <2>1. t \in Seq(Dependents) /\ Len(t) = Len(s) + 1 /\ DOMAIN t = 1..Len(s) + 1
        /\ (\A i \in 1..Len(s) : t[i] = s[i]) /\ t[Len(s) + 1] = e
    BY <1>1
  <2> HIDE DEF t
  <2>2. \A i \in 1..Len(s) : s[i] # e
    BY <1>3 DEF Contains
  <2>3. IsInjective(t)
    BY <1>1, <2>1, <2>2 DEF IsInjective
  <2>4. Len(s) + 1 \in DOMAIN t /\ \A i \in DOMAIN s : i \in DOMAIN t
    BY <1>1, <2>1
  <2>5. /\ \E j \in DOMAIN t : t[j] = e
        /\ \A i \in DOMAIN s : \E j \in DOMAIN t : t[j] = s[i]
    BY <1>1, <2>1, <2>4
  <2> QED  BY <1>3, <2>1, <2>3, <2>5 DEF t
<1> QED  BY <1>2, <1>3

-----------------------------------------------------------------------------
(* The lists of steps. *)

\* A list of the steps T, in an order they may have.
ListsAll(s, T) == s \in Seq(T) /\ ToSet(s) = T /\ InOrder(s)

LEMMA HeadAndTail ==
  ASSUME NEW T, NEW s, ListsAll(s, T), s # <<>>
  PROVE  /\ Head(s) \in T /\ T = {Head(s)} \union ToSet(Tail(s))
         /\ ListsAll(Tail(s), ToSet(Tail(s)))
         /\ \A f \in ToSet(Tail(s)) : After(Head(s), f)
         /\ Len(s) = 1 <=> ToSet(Tail(s)) = {}
<1> DEFINE t == Tail(s)
<1>1. /\ s \in Seq(T) /\ Len(s) \in Nat \ {0} /\ DOMAIN s = 1..Len(s) /\ Head(s) = s[1]
      /\ t \in Seq(T) /\ Len(t) = Len(s) - 1 /\ DOMAIN t = 1..Len(t) /\ \A i \in 1..Len(t) : t[i] = s[i + 1]
  BY EmptySeq, HeadTailProperties, LenProperties DEF ListsAll
<1> HIDE DEF t
<1>2. ToSet(s) = T /\ InOrder(s)
  BY DEF ListsAll
<1>3. T = {s[1]} \union ToSet(t)
  <2>1. \A i \in 1..Len(s) : i = 1 \/ (i - 1 \in 1..Len(t) /\ t[i - 1] = s[i])
    BY <1>1
  <2>2. T \subseteq {s[1]} \union ToSet(t)
    <3> SUFFICES ASSUME NEW i \in 1..Len(s) PROVE s[i] \in {s[1]} \union ToSet(t)
      BY <1>1, <1>2 DEF ToSet
    <3>1. CASE i - 1 \in 1..Len(t) /\ t[i - 1] = s[i]
      <4> DEFINE j == i - 1
      <4>1. j \in DOMAIN t /\ t[j] = s[i]
        BY <1>1, <3>1
      <4> HIDE DEF j
      <4> QED  BY <4>1 DEF ToSet
    <3> QED  BY <2>1, <3>1
  <2>3. \A i \in 1..Len(t) : i + 1 \in 1..Len(s)
    BY <1>1
  <2>4. ToSet(t) \subseteq T /\ s[1] \in T
    BY <1>1, <1>2, <2>3 DEF ToSet
  <2> QED  BY <2>2, <2>4
<1>4. t \in Seq(ToSet(t))
  BY <1>1 DEF ToSet
<1>5. InOrder(t) /\ \A f \in ToSet(t) : After(s[1], f)
  <2>1. \A i, j \in 1..Len(t) : i < j => i + 1 \in 1..Len(s) /\ j + 1 \in 1..Len(s) /\ i + 1 < j + 1
    BY <1>1
  <2>2. InOrder(t)
    BY <1>1, <1>2, <2>1 DEF InOrder
  <2>3. \A j \in 1..Len(t) : 1 \in 1..Len(s) /\ j + 1 \in 1..Len(s) /\ 1 < j + 1
    BY <1>1
  <2>4. \A j \in 1..Len(t) : After(s[1], t[j])
    BY <1>1, <1>2, <2>3 DEF InOrder
  <2> QED  BY <1>1, <2>2, <2>4 DEF ToSet
<1>6. Len(s) = 1 <=> ToSet(t) = {}
  <2>1. CASE Len(s) = 1
    <3>1. 1..Len(t) = {}
      BY <1>1, <2>1
    <3> QED  BY <1>1, <2>1, <3>1 DEF ToSet
  <2>2. CASE Len(s) # 1
    <3>1. 1 \in 1..Len(t)
      BY <1>1, <2>2
    <3> QED  BY <1>1, <2>2, <3>1 DEF ToSet
  <2> QED  BY <2>1, <2>2
<1> QED  BY <1>1, <1>3, <1>4, <1>5, <1>6 DEF ListsAll, t

LEMMA Joined ==
  ASSUME NEW S, NEW T, NEW s, NEW t, ListsAll(s, S), ListsAll(t, T),
         \A f \in S, g \in T : After(f, g)
  PROVE  ListsAll(s \o t, S \union T)
<1> DEFINE u == s \o t
<1>1. /\ s \in Seq(S) /\ Len(s) \in Nat /\ DOMAIN s = 1..Len(s)
      /\ t \in Seq(T) /\ Len(t) \in Nat /\ DOMAIN t = 1..Len(t)
  BY LenProperties DEF ListsAll
<1>2. /\ u \in Seq(S \union T) /\ Len(u) = Len(s) + Len(t) /\ DOMAIN u = 1..Len(u)
      /\ \A i \in 1..Len(u) : u[i] = IF i <= Len(s) THEN s[i] ELSE t[i - Len(s)]
  <2>1. s \in Seq(S \union T) /\ t \in Seq(S \union T)
    BY <1>1, SeqMonotonic
  <2> QED  BY <2>1, ConcatProperties, LenProperties
<1> HIDE DEF u
<1>3. /\ \A i \in 1..Len(s) : s[i] \in S
      /\ \A i \in 1..Len(t) : t[i] \in T
  BY <1>1
<1>4. InOrder(u)
  <2> SUFFICES ASSUME NEW i \in 1..Len(u), NEW j \in 1..Len(u), i < j PROVE After(u[i], u[j])
    BY DEF InOrder
  <2>1. CASE j <= Len(s)
    <3>1. i \in 1..Len(s) /\ j \in 1..Len(s) /\ u[i] = s[i] /\ u[j] = s[j]
      BY <1>1, <1>2, <2>1
    <3> QED  BY <3>1 DEF ListsAll, InOrder
  <2>2. CASE ~(i <= Len(s))
    <3>1. /\ i - Len(s) \in 1..Len(t) /\ j - Len(s) \in 1..Len(t) /\ i - Len(s) < j - Len(s)
          /\ ~(j <= Len(s))
      BY <1>1, <1>2, <2>2
    <3>2. u[i] = t[i - Len(s)] /\ u[j] = t[j - Len(s)]
      BY <1>2, <2>2, <3>1
    <3> QED  BY <3>1, <3>2 DEF ListsAll, InOrder
  <2>3. CASE i <= Len(s) /\ ~(j <= Len(s))
    <3>1. i \in 1..Len(s) /\ j - Len(s) \in 1..Len(t)
      BY <1>1, <1>2, <2>3
    <3>2. u[i] = s[i] /\ u[j] = t[j - Len(s)]
      BY <1>2, <2>3
    <3> QED  BY <1>3, <3>1, <3>2
  <2> QED  BY <2>1, <2>2, <2>3
<1>5. ToSet(u) = S \union T
  <2>1. S = {s[i] : i \in 1..Len(s)} /\ T = {t[i] : i \in 1..Len(t)}
    BY <1>1 DEF ListsAll, ToSet
  <2>2. ToSet(u) \subseteq S \union T
    BY <1>2 DEF ToSet
  <2>3. ASSUME NEW i \in 1..Len(s) PROVE s[i] \in ToSet(u)
    <3>1. i \in 1..Len(u) /\ u[i] = s[i]
      BY <1>1, <1>2
    <3> QED  BY <1>2, <3>1 DEF ToSet
  <2>4. ASSUME NEW i \in 1..Len(t) PROVE t[i] \in ToSet(u)
    <3>1. i + Len(s) \in 1..Len(u) /\ ~(i + Len(s) <= Len(s)) /\ i + Len(s) - Len(s) = i
      BY <1>1, <1>2
    <3>2. u[i + Len(s)] = t[i]
      BY <1>2, <3>1
    <3> QED  BY <1>2, <3>1, <3>2 DEF ToSet
  <2> QED  BY <2>1, <2>2, <2>3, <2>4
<1> QED  BY <1>2, <1>4, <1>5 DEF ListsAll, u

LEMMA OneStep ==
  ASSUME NEW a PROVE ListsAll(<<a>>, {a})
<1>1. <<a>> \in Seq({a}) /\ Len(<<a>>) = 1 /\ DOMAIN <<a>> = 1..1 /\ <<a>>[1] = a
  OBVIOUS
<1>2. ToSet(<<a>>) = {a}
  BY <1>1 DEF ToSet
<1>3. InOrder(<<a>>)
  BY <1>1 DEF InOrder
<1> QED  BY <1>1, <1>2, <1>3 DEF ListsAll

LEMMA NoStep == ListsAll(<<>>, {})
<1>1. <<>> \in Seq({}) /\ Len(<<>>) = 0 /\ DOMAIN <<>> = 1..0
  BY EmptySeq, LenProperties
<1> QED  BY <1>1 DEF ListsAll, ToSet, InOrder

LEMMA TwoSteps ==
  ASSUME NEW a, NEW b, After(a, b) PROVE ListsAll(<<a, b>>, {a, b})
<1>1. <<a, b>> \in Seq({a, b}) /\ Len(<<a, b>>) = 2 /\ DOMAIN <<a, b>> = 1..2 /\ <<a, b>>[1] = a /\ <<a, b>>[2] = b
  OBVIOUS
<1>2. ToSet(<<a, b>>) = {a, b}
  BY <1>1 DEF ToSet
<1>3. InOrder(<<a, b>>)
  BY <1>1 DEF InOrder
<1> QED  BY <1>1, <1>2, <1>3 DEF ListsAll

LEMMA ThreeSteps ==
  ASSUME NEW a, NEW b, NEW c, After(a, b), After(a, c), After(b, c) PROVE ListsAll(<<a, b, c>>, {a, b, c})
<1>1. <<a, b, c>> = <<a>> \o <<b, c>>
  OBVIOUS
<1>2. ListsAll(<<a>> \o <<b, c>>, {a} \union {b, c})
  BY OneStep, TwoSteps, Joined
<1> QED  BY <1>1, <1>2

\* The sequence of a finite set.
LEMMA SetToSeqIs ==
  ASSUME NEW S, IsFiniteSet(S)
  PROVE  LET s == SetToSeq(S) IN s \in Seq(S) /\ IsInjective(s) /\ ToSet(s) = S
<1> DEFINE n == Cardinality(S)
           s == SetToSeq(S)
<1>1. n \in Nat /\ ExistsBijection(1..n, S)
  BY FS_CardinalityType
<1>2. PICK b \in Bijection(1..n, S) : TRUE
  BY <1>1 DEF ExistsBijection
<1>3. b \in [1..n -> S] /\ IsInjective(b)
  BY <1>2 DEF Bijection, Injection
<1>4. s \in [1..n -> S] /\ IsInjective(s)
  BY <1>3 DEF SetToSeq
<1> HIDE DEF s
<1>5. s \in Seq(S) /\ DOMAIN s = 1..n
  BY <1>1, <1>4
<1>6. s \in Surjection(1..n, S)
  <2>1. s \in Injection(1..n, S)
    BY <1>4 DEF Injection
  <2>2. Cardinality(1..n) = n /\ IsFiniteSet(1..n)
    BY <1>1, FS_Interval
  <2> QED  BY <2>1, <2>2, FS_Injection
<1>7. ToSet(s) = S
  BY <1>4, <1>5, <1>6 DEF Surjection, ToSet
<1> QED  BY <1>4, <1>5, <1>7 DEF s

\* A list of the same steps of many projects.
LEMMA SameSteps ==
  ASSUME NEW T, NEW s \in Seq(T), NEW do \in {"point", "removePointer"}, \A f \in T : f.do = do
  PROVE  ListsAll(s, ToSet(s))
<1>1. s \in [1..Len(s) -> T] /\ Len(s) \in Nat /\ DOMAIN s = 1..Len(s)
      /\ \A i \in 1..Len(s) : s[i] \in T /\ s[i] \in ToSet(s)
  BY LenProperties DEF ToSet
<1>2. s \in Seq(ToSet(s))
  <2>0. SubSeq(s, 1, Len(s)) = s
    BY SubSeqFull, Zenon
  <2>1. 1 \in Int /\ Len(s) \in Int
    BY <1>1
  <2>2. SubSeq(s, 1, Len(s)) \in Seq(ToSet(s))
    BY <1>1, <2>1, SubSeqProperties
  <2> QED  BY <2>0, <2>2
<1>3. InOrder(s)
  BY <1>1 DEF InOrder, After, First
<1> QED  BY <1>2, <1>3 DEF ListsAll

-----------------------------------------------------------------------------
(* What a file step does. *)

Entries(d, e) == \A g \in d.goal : e \in ToSet(g.deps)
Keeps(d, old, e) == \A g \in d.goal : \E h \in old.goal : h.id = g.id /\ \A c \in ToSet(h.deps) : c = e \/ c \in ToSet(g.deps)

\* The directory d that a step f makes of the directory old.
Effect(f, old, d) ==
  /\ f.do = "make" => d.goal = {f.x}
  /\ f.do = "copyTree" => d = dir[f.x[1]][f.x[2]]
  /\ f.do = "copyGoal" => d.goal = IF HasGoal(External, f.n) THEN dir[External][f.n].goal ELSE old.goal
  /\ f.do \in {"point", "unpoint", "rmdir", "copyPlan", "removePointer"} => d.goal = old.goal
  /\ f.do \in {"setDependents", "addDependent", "dropDependent", "strip"} => IdsOf(d) = IdsOf(old)
  /\ f.do \in {"empty", "removeTree"} => d.goal = {}
  /\ f.do = "setDependents" => \A g \in d.goal : g.deps = f.x
  /\ f.do = "addDependent" => Entries(d, f.x)
  /\ f.do \in {"addDependent", "dropDependent"} => Keeps(d, old, f.x)
  /\ f.do = "strip" => \A g \in d.goal : g.deps = <<>> /\ f.r \notin g.code
  /\ f.do = "point" => d.pointer = {[to |-> f.x, for |-> i] : i \in Ids(External, f.x)}
  /\ f.do \in {"setDependents", "addDependent", "dropDependent", "strip", "copyGoal", "copyPlan"} =>
       d.pointer = old.pointer
  /\ f.do \in {"make", "unpoint", "empty", "removeTree"} => d.pointer = {}
  /\ f.do \in {"rmdir", "removePointer"} => d.pointer \subseteq old.pointer
  /\ f.do = "removePointer" /\ f.r \in mounted /\ old.goal = {} => d.pointer = {}

\* Front matter rewritten: each text stays, with other fields.
LEMMA FrontmatterWritten ==
  ASSUME NEW old \in Dirs, DirFits(old), NEW F \in [old.goal -> Goals],
         \A g \in old.goal : F[g].id = g.id /\ IsInjective(F[g].deps),
         NEW d, d = [old EXCEPT !.goal = {F[g] : g \in old.goal}]
  PROVE  /\ d \in Dirs /\ DirFits(d) /\ IdsOf(d) = IdsOf(old) /\ d.pointer = old.pointer
         /\ \A h \in d.goal : \E g \in old.goal : h = F[g]
<1> DEFINE G == {F[g] : g \in old.goal}
<1>1. /\ old.there \in BOOLEAN /\ old.goal \subseteq Goals /\ old.plan \subseteq Contents /\ old.pointer \subseteq Pointers
      /\ AtMostOne(old.goal) /\ AtMostOne(old.plan) /\ AtMostOne(old.pointer)
      /\ \A g \in old.goal : IsInjective(g.deps) /\ g.id <= made
  BY DEF Dirs, DirFits
<1>2. G \subseteq Goals /\ AtMostOne(G)
  BY <1>1 DEF AtMostOne
<1>3. d.goal = G /\ d.there = old.there /\ d.plan = old.plan /\ d.pointer = old.pointer /\ d \in Dirs
  BY <1>1, <1>2 DEF Dirs
<1>7. ~d.there => d = NoDir
  <2> SUFFICES ASSUME ~d.there PROVE d = NoDir
    OBVIOUS
  <2>1. old = NoDir
    BY <1>3 DEF DirFits
  <2>2. old.goal = {}
    BY <2>1 DEF NoDir
  <2>3. G = {}
    BY <2>2
  <2> QED  BY <2>1, <2>3 DEF NoDir
<1>4. IdsOf(d) = IdsOf(old)
  <2>1. \A g \in old.goal : F[g] \in d.goal /\ F[g].id = g.id
    BY <1>3
  <2>2. \A h \in d.goal : \E g \in old.goal : h = F[g] /\ h.id = g.id
    BY <1>3
  <2> QED  BY <2>1, <2>2 DEF IdsOf
<1>5. \A h \in d.goal : \E g \in old.goal : h = F[g]
  BY <1>3
<1>6. \A g \in d.goal : IsInjective(g.deps) /\ g.id <= made
  BY <1>1, <1>5
<1> QED  BY <1>1, <1>2, <1>3, <1>4, <1>5, <1>6, <1>7 DEF DirFits

\* A step as one change of a directory.
StepIs(f, d) == /\ Written(f) = [dir EXCEPT ![f.r][f.n] = d]
                /\ d \in Dirs /\ DirFits(d) /\ Effect(f, dir[f.r][f.n], d)

Kinds == UNION Families

LEMMA DirIs ==
  ASSUME DirTypes, NEW r \in Repos, NEW n \in Names
  PROVE  /\ dir[r][n] \in Dirs /\ DirFits(dir[r][n])
         /\ dir = [dir EXCEPT ![r][n] = dir[r][n]]
         /\ dir[r][n].goal # {} => HasGoal(r, n) /\ dir[r][n].there
BY DEF DirTypes, DirFits, Dirs, HasGoal, NoDir

LEMMA NoDirFits == NoDir \in Dirs /\ DirFits(NoDir) /\ NoDir.goal = {} /\ NoDir.pointer = {} /\ NoDir.plan = {}
BY DEF NoDir, Dirs, DirFits, AtMostOne

LEMMA RewriteIs ==
  ASSUME DirTypes, NEW f, FileFits(f), f.do \in {"setDependents", "addDependent", "dropDependent", "strip"}
  PROVE  \E d : StepIs(f, d)
<1> DEFINE old == dir[f.r][f.n]
<1>1. /\ old \in Dirs /\ DirFits(old) /\ dir = [dir EXCEPT ![f.r][f.n] = old]
      /\ old.goal # {} => old.there
      /\ f.r \in Repos /\ f.n \in Names /\ f.r \in Projects \union {External}
  BY DirIs DEF FileFits, Repos
<1>2. \A g \in old.goal : g \in Goals /\ IsInjective(g.deps) /\ g.id \in Contents /\ g.code \in SUBSET Projects /\ g.deps \in Seq(Dependents)
  BY <1>1 DEF Dirs, DirFits, Goals
<1> HIDE DEF old
<1>3. CASE f.do = "setDependents"
  <2> DEFINE F == [g \in old.goal |-> [g EXCEPT !.deps = f.x]]
             d == [old EXCEPT !.goal = {F[g] : g \in old.goal}]
  <2>1. f.x \in Seq(Dependents) /\ IsInjective(f.x)
    BY <1>3 DEF FileFits
  <2>2. F \in [old.goal -> Goals] /\ \A g \in old.goal : F[g].id = g.id /\ F[g].deps = f.x
    BY <1>2, <2>1 DEF Goals
  <2>3. Written(f) = [dir EXCEPT ![f.r][f.n] = d]
    BY <1>3 DEF Written, SetDependents, WithDeps, Put, old
  <2> HIDE DEF F
  <2>4. /\ d \in Dirs /\ DirFits(d) /\ IdsOf(d) = IdsOf(old) /\ d.pointer = old.pointer
        /\ \A h \in d.goal : \E g \in old.goal : h = F[g]
    BY <1>1, <2>1, <2>2, FrontmatterWritten
  <2> HIDE DEF d
  <2>5. Effect(f, old, d)
    BY <1>3, <2>2, <2>4 DEF Effect
  <2> QED  BY <2>3, <2>4, <2>5 DEF StepIs, old
<1>4. CASE f.do = "addDependent"
  <2> DEFINE F == [g \in old.goal |-> [g EXCEPT !.deps = IF Contains(g.deps, f.x) THEN g.deps ELSE Append(g.deps, f.x)]]
             d == [old EXCEPT !.goal = {F[g] : g \in old.goal}]
  <2>1. \A g \in old.goal : LET t == IF Contains(g.deps, f.x) THEN g.deps ELSE Append(g.deps, f.x) IN
          /\ t \in Seq(Dependents) /\ IsInjective(t) /\ f.x \in ToSet(t)
          /\ \A c \in ToSet(g.deps) : c \in ToSet(t)
    <3> SUFFICES ASSUME NEW g \in old.goal
                 PROVE  LET t == IF Contains(g.deps, f.x) THEN g.deps ELSE Append(g.deps, f.x) IN
                          /\ t \in Seq(Dependents) /\ IsInjective(t) /\ f.x \in ToSet(t)
                          /\ \A c \in ToSet(g.deps) : c \in ToSet(t)
      OBVIOUS
    <3>1. f.x \in Dependents /\ g.deps \in Seq(Dependents) /\ IsInjective(g.deps)
      BY <1>2, <1>4 DEF FileFits
    <3> DEFINE t == IF Contains(g.deps, f.x) THEN g.deps ELSE Append(g.deps, f.x)
    <3>2. /\ t \in Seq(Dependents) /\ IsInjective(t)
          /\ \E j \in DOMAIN t : t[j] = f.x
          /\ \A i \in DOMAIN g.deps : \E j \in DOMAIN t : t[j] = g.deps[i]
      BY <3>1, AppendedIs
    <3> HIDE DEF t
    <3>3. f.x \in ToSet(t) /\ \A c \in ToSet(g.deps) : c \in ToSet(t)
      BY <3>2 DEF ToSet
    <3> QED  BY <3>2, <3>3 DEF t
  <2>2. F \in [old.goal -> Goals] /\ \A g \in old.goal : /\ F[g].id = g.id /\ IsInjective(F[g].deps) /\ f.x \in ToSet(F[g].deps)
                                                        /\ \A c \in ToSet(g.deps) : c \in ToSet(F[g].deps)
    BY <1>2, <2>1 DEF Goals
  <2>3. Written(f) = [dir EXCEPT ![f.r][f.n] = d]
    BY <1>4 DEF Written, AppendDependent, WithDeps, Put, old
  <2> HIDE DEF F
  <2>4. /\ d \in Dirs /\ DirFits(d) /\ IdsOf(d) = IdsOf(old) /\ d.pointer = old.pointer
        /\ \A h \in d.goal : \E g \in old.goal : h = F[g]
    BY <1>1, <2>2, FrontmatterWritten
  <2> HIDE DEF d
  <2>5. Entries(d, f.x)
    BY <2>2, <2>4 DEF Entries
  <2>6. Keeps(d, old, f.x)
    BY <2>2, <2>4 DEF Keeps
  <2>7. Effect(f, old, d)
    BY <1>4, <2>4, <2>5, <2>6 DEF Effect
  <2> QED  BY <2>3, <2>4, <2>7 DEF StepIs, old
<1>5. CASE f.do = "dropDependent"
  <2> DEFINE F == [g \in old.goal |-> [g EXCEPT !.deps = RemoveFirst(g.deps, f.x)]]
             d == [old EXCEPT !.goal = {F[g] : g \in old.goal}]
  <2>1. \A g \in old.goal : LET t == RemoveFirst(g.deps, f.x) IN
          /\ t \in Seq(Dependents) /\ IsInjective(t)
          /\ \A c \in ToSet(g.deps) : c = f.x \/ c \in ToSet(t)
    <3> SUFFICES ASSUME NEW g \in old.goal
                 PROVE  LET t == RemoveFirst(g.deps, f.x) IN
                          /\ t \in Seq(Dependents) /\ IsInjective(t)
                          /\ \A c \in ToSet(g.deps) : c = f.x \/ c \in ToSet(t)
      OBVIOUS
    <3>1. g.deps \in Seq(Dependents) /\ IsInjective(g.deps) /\ f.x \in Dependents
      BY <1>2, <1>5 DEF FileFits
    <3> DEFINE t == RemoveFirst(g.deps, f.x)
    <3>2. /\ t \in Seq(Dependents) /\ IsInjective(t)
          /\ \A i \in DOMAIN g.deps : g.deps[i] = f.x \/ \E j \in DOMAIN t : t[j] = g.deps[i]
      BY <3>1, RemovedIs
    <3> HIDE DEF t
    <3>3. \A c \in ToSet(g.deps) : c = f.x \/ c \in ToSet(t)
      BY <3>2 DEF ToSet
    <3> QED  BY <3>2, <3>3 DEF t
  <2>2. F \in [old.goal -> Goals] /\ \A g \in old.goal : /\ F[g].id = g.id /\ IsInjective(F[g].deps)
                                                        /\ \A c \in ToSet(g.deps) : c = f.x \/ c \in ToSet(F[g].deps)
    BY <1>2, <2>1 DEF Goals
  <2>3. Written(f) = [dir EXCEPT ![f.r][f.n] = d]
    BY <1>5 DEF Written, RemoveDependent, WithDeps, Put, old
  <2> HIDE DEF F
  <2>4. /\ d \in Dirs /\ DirFits(d) /\ IdsOf(d) = IdsOf(old) /\ d.pointer = old.pointer
        /\ \A h \in d.goal : \E g \in old.goal : h = F[g]
    BY <1>1, <2>2, FrontmatterWritten
  <2> HIDE DEF d
  <2>6. Keeps(d, old, f.x)
    BY <2>2, <2>4 DEF Keeps
  <2>7. Effect(f, old, d)
    BY <1>5, <2>4, <2>6 DEF Effect
  <2> QED  BY <2>3, <2>4, <2>7 DEF StepIs, old
<1>6. CASE f.do = "strip"
  <2> DEFINE F == [g \in old.goal |-> [g EXCEPT !.code = g.code \ {f.r}, !.deps = <<>>]]
             d == [old EXCEPT !.goal = {F[g] : g \in old.goal}]
  <2>1. <<>> \in Seq(Dependents) /\ IsInjective(<<>>)
    BY EmptySeq DEF IsInjective
  <2>2. F \in [old.goal -> Goals] /\ \A g \in old.goal : /\ F[g].id = g.id /\ IsInjective(F[g].deps)
                                                        /\ F[g].deps = <<>> /\ f.r \notin F[g].code
    BY <1>2, <2>1 DEF Goals
  <2>3. Written(f) = [dir EXCEPT ![f.r][f.n] = d]
    BY <1>6 DEF Written, StripFrontmatter, Put, old
  <2> HIDE DEF F
  <2>4. /\ d \in Dirs /\ DirFits(d) /\ IdsOf(d) = IdsOf(old) /\ d.pointer = old.pointer
        /\ \A h \in d.goal : \E g \in old.goal : h = F[g]
    BY <1>1, <2>2, FrontmatterWritten
  <2> HIDE DEF d
  <2>7. Effect(f, old, d)
    BY <1>6, <2>2, <2>4 DEF Effect
  <2> QED  BY <2>3, <2>4, <2>7 DEF StepIs, old
<1> QED  BY <1>3, <1>4, <1>5, <1>6

\* A directory written as a whole, or not at all.
LEMMA PlainIs ==
  ASSUME DirTypes, NEW f, FileFits(f), f.do \in {"make", "copyTree", "rmdir", "empty", "removePointer", "removeTree"}
  PROVE  \E d : StepIs(f, d)
<1> DEFINE old == dir[f.r][f.n]
<1>1. /\ old \in Dirs /\ DirFits(old) /\ dir = [dir EXCEPT ![f.r][f.n] = old]
      /\ f.r \in Repos /\ f.n \in Names
  BY DirIs DEF FileFits
<1>2. CASE f.do = "make"
  <2> DEFINE d == [there |-> TRUE, goal |-> {f.x}, plan |-> {f.x.id}, pointer |-> {}]
  <2>1. f.x \in Goals /\ f.x.deps = <<>> /\ f.x.id <= made /\ f.x.id \in Contents
    BY <1>2 DEF FileFits, Goals
  <2>2. IsInjective(<<>>)
    BY DEF IsInjective
  <2>3. d \in Dirs /\ DirFits(d)
    BY <2>1, <2>2 DEF Dirs, DirFits, AtMostOne
  <2>4. Written(f) = [dir EXCEPT ![f.r][f.n] = d]
    BY <1>2 DEF Written, Put
  <2>5. Effect(f, old, d)
    BY <1>2 DEF Effect
  <2> QED  BY <2>3, <2>4, <2>5 DEF StepIs
<1>3. CASE f.do = "copyTree"
  <2> DEFINE d == dir[f.x[1]][f.x[2]]
  <2>1. f.x[1] \in Repos /\ f.x[2] \in Names
    BY <1>3 DEF FileFits, Dependents, Repos
  <2>2. d \in Dirs /\ DirFits(d)
    BY <2>1, DirIs
  <2>3. Written(f) = [dir EXCEPT ![f.r][f.n] = d]
    BY <1>3 DEF Written, Put
  <2>4. Effect(f, old, d)
    BY <1>3 DEF Effect
  <2> QED  BY <2>2, <2>3, <2>4 DEF StepIs
<1>4. CASE f.do = "rmdir"
  <2>1. CASE HasGoal(f.r, f.n) \/ old.plan # {}
    <3>1. Written(f) = dir
      BY <1>4, <2>1 DEF Written, RemoveIfEmpty
    <3>2. Effect(f, old, old)
      BY <1>4 DEF Effect
    <3> QED  BY <1>1, <3>1, <3>2 DEF StepIs
  <2>2. CASE ~(HasGoal(f.r, f.n) \/ old.plan # {})
    <3>1. Written(f) = [dir EXCEPT ![f.r][f.n] = NoDir]
      BY <1>4, <2>2 DEF Written, RemoveIfEmpty, Put
    <3>2. old.goal = {} /\ NoDir.goal = {} /\ NoDir.pointer = {}
      BY <2>2, NoDirFits DEF HasGoal
    <3>3. Effect(f, old, NoDir)
      BY <1>4, <3>2 DEF Effect
    <3> QED  BY <3>1, <3>3, NoDirFits DEF StepIs
  <2> QED  BY <2>1, <2>2
<1>5. CASE f.do = "empty"
  <2> DEFINE d == [NoDir EXCEPT !.there = TRUE]
  <2>1. d \in Dirs /\ DirFits(d) /\ d.goal = {} /\ d.pointer = {}
    BY DEF Dirs, DirFits, AtMostOne, NoDir
  <2>2. Written(f) = [dir EXCEPT ![f.r][f.n] = d]
    BY <1>5 DEF Written, Put
  <2> HIDE DEF d
  <2>3. Effect(f, old, d)
    BY <1>5, <2>1 DEF Effect
  <2> QED  BY <2>1, <2>2, <2>3 DEF StepIs
<1>6. CASE f.do = "removePointer"
  <2>1. CASE f.r \in mounted /\ IsPointer(f.r, f.n)
    <3>1. Written(f) = [dir EXCEPT ![f.r][f.n] = NoDir]
      BY <1>6, <2>1 DEF Written, RemovePointerDir, Put
    <3>2. old.goal = {} /\ NoDir.goal = {} /\ NoDir.pointer = {}
      BY <2>1, NoDirFits DEF IsPointer, HasGoal
    <3>3. Effect(f, old, NoDir)
      BY <1>6, <3>2 DEF Effect
    <3> QED  BY <3>1, <3>3, NoDirFits DEF StepIs
  <2>2. CASE ~(f.r \in mounted /\ IsPointer(f.r, f.n))
    <3>1. Written(f) = dir
      BY <1>6, <2>2 DEF Written, RemovePointerDir
    <3>2. f.r \in mounted /\ old.goal = {} => old.pointer = {}
      BY <2>2 DEF IsPointer, HasGoal, HasPointer
    <3>3. Effect(f, old, old)
      BY <1>6, <3>2 DEF Effect
    <3> QED  BY <1>1, <3>1, <3>3 DEF StepIs
  <2> QED  BY <2>1, <2>2
<1>7. CASE f.do = "removeTree"
  <2>1. Written(f) = [dir EXCEPT ![f.r][f.n] = NoDir]
    BY <1>7 DEF Written, Put
  <2>2. Effect(f, old, NoDir)
    BY <1>7, NoDirFits DEF Effect
  <2> QED  BY <2>1, <2>2, NoDirFits DEF StepIs
<1> QED  BY <1>2, <1>3, <1>4, <1>5, <1>6, <1>7

\* One file of a directory written, or removed.
LEMMA FileIs ==
  ASSUME DirTypes, NEW f, FileFits(f), f.do \in {"point", "unpoint", "copyGoal", "copyPlan"}
  PROVE  \E d : StepIs(f, d)
<1> DEFINE old == dir[f.r][f.n]
<1>1. /\ old \in Dirs /\ DirFits(old) /\ dir = [dir EXCEPT ![f.r][f.n] = old]
      /\ f.r \in Repos /\ f.n \in Names
      /\ dir[External][f.n] \in Dirs /\ DirFits(dir[External][f.n])
  BY DirIs DEF FileFits, Repos
<1>2. /\ old.there \in BOOLEAN /\ old.goal \subseteq Goals /\ old.plan \subseteq Contents /\ old.pointer \subseteq Pointers
      /\ AtMostOne(old.goal) /\ AtMostOne(old.plan) /\ AtMostOne(old.pointer) /\ (~old.there => old = NoDir)
      /\ \A g \in old.goal : IsInjective(g.deps) /\ g.id <= made
  BY <1>1 DEF Dirs, DirFits
<1>3. CASE f.do = "point"
  <2> DEFINE X == {[to |-> f.x, for |-> i] : i \in Ids(External, f.x)}
             d == [old EXCEPT !.there = TRUE, !.pointer = X]
  <2>1. f.x \in Names
    BY <1>3 DEF FileFits
  <2>2. dir[External][f.x] \in Dirs /\ DirFits(dir[External][f.x])
    BY <2>1, DirIs DEF Repos
  <2>3. AtMostOne(Ids(External, f.x)) /\ Ids(External, f.x) \subseteq Contents
    BY <2>2 DEF Dirs, DirFits, AtMostOne, Ids, IdsOf, Goals
  <2>4. X \subseteq Pointers /\ AtMostOne(X)
    BY <2>1, <2>3 DEF Pointers, AtMostOne
  <2>5. Written(f) = [dir EXCEPT ![f.r][f.n] = d]
    BY <1>3 DEF Written, WritePointer, Put, Ids, IdsOf
  <2> HIDE DEF old
  <2>6. d \in Dirs /\ d.goal = old.goal /\ d.plan = old.plan /\ d.pointer = X /\ d.there = TRUE
    BY <1>1, <2>4 DEF Dirs
  <2> HIDE DEF d
  <2>7. DirFits(d)
    BY <1>2, <2>4, <2>6 DEF DirFits
  <2>8. Effect(f, old, d)
    BY <1>3, <2>6 DEF Effect
  <2> QED  BY <2>5, <2>6, <2>7, <2>8 DEF StepIs, old
<1>4. CASE f.do = "unpoint"
  <2> DEFINE d == [old EXCEPT !.pointer = {}]
  <2>1. Written(f) = [dir EXCEPT ![f.r][f.n] = d]
    BY <1>4 DEF Written, RemovePointer, Put
  <2> HIDE DEF old
  <2>2. d \in Dirs /\ d.goal = old.goal /\ d.plan = old.plan /\ d.pointer = {} /\ d.there = old.there
    BY <1>1 DEF Dirs
  <2>3. ~d.there => d = NoDir
    <3>1. old = NoDir => d = [NoDir EXCEPT !.pointer = {}]
      OBVIOUS
    <3>2. [NoDir EXCEPT !.pointer = {}] = NoDir
      BY DEF NoDir
    <3> QED  BY <1>2, <2>2, <3>1, <3>2
  <2> HIDE DEF d
  <2>4. DirFits(d)
    BY <1>2, <2>2, <2>3 DEF DirFits, AtMostOne
  <2>5. Effect(f, old, d)
    BY <1>4, <2>2 DEF Effect
  <2> QED  BY <2>1, <2>2, <2>4, <2>5 DEF StepIs, old
<1>5. CASE f.do = "copyGoal"
  <2>1. CASE HasGoal(External, f.n)
    <3> DEFINE e == dir[External][f.n].goal
               d == [old EXCEPT !.there = TRUE, !.goal = e]
    <3>1. Written(f) = [dir EXCEPT ![f.r][f.n] = d]
      BY <1>5, <2>1 DEF Written, CopyGoal, Put
    <3>2. e \subseteq Goals /\ AtMostOne(e) /\ \A g \in e : IsInjective(g.deps) /\ g.id <= made
      BY <1>1 DEF Dirs, DirFits
    <3> HIDE DEF old, e
    <3>3. d \in Dirs /\ d.goal = e /\ d.plan = old.plan /\ d.pointer = old.pointer /\ d.there = TRUE
      BY <1>1, <3>2 DEF Dirs
    <3> HIDE DEF d
    <3>4. DirFits(d)
      BY <1>2, <3>2, <3>3 DEF DirFits
    <3>5. Effect(f, old, d)
      BY <1>5, <2>1, <3>3 DEF Effect, e
    <3> QED  BY <3>1, <3>3, <3>4, <3>5 DEF StepIs, old
  <2>2. CASE ~HasGoal(External, f.n)
    <3>1. Written(f) = dir
      BY <1>5, <2>2 DEF Written, CopyGoal
    <3>2. Effect(f, old, old)
      BY <1>5, <2>2 DEF Effect
    <3> QED  BY <1>1, <3>1, <3>2 DEF StepIs
  <2> QED  BY <2>1, <2>2
<1>6. CASE f.do = "copyPlan"
  <2>1. CASE dir[External][f.n].plan # {}
    <3> DEFINE e == dir[External][f.n].plan
               d == [old EXCEPT !.there = TRUE, !.plan = e]
    <3>1. Written(f) = [dir EXCEPT ![f.r][f.n] = d]
      BY <1>6, <2>1 DEF Written, CopyPlan, Put
    <3>2. e \subseteq Contents /\ AtMostOne(e)
      BY <1>1 DEF Dirs, DirFits
    <3> HIDE DEF old, e
    <3>3. d \in Dirs /\ d.goal = old.goal /\ d.plan = e /\ d.pointer = old.pointer /\ d.there = TRUE
      BY <1>1, <3>2 DEF Dirs
    <3> HIDE DEF d
    <3>4. DirFits(d)
      BY <1>2, <3>2, <3>3 DEF DirFits
    <3>5. Effect(f, old, d)
      BY <1>6, <3>3 DEF Effect
    <3> QED  BY <3>1, <3>3, <3>4, <3>5 DEF StepIs, old
  <2>2. CASE ~(dir[External][f.n].plan # {})
    <3>1. Written(f) = dir
      BY <1>6, <2>2 DEF Written, CopyPlan
    <3>2. Effect(f, old, old)
      BY <1>6 DEF Effect
    <3> QED  BY <1>1, <3>1, <3>2 DEF StepIs
  <2> QED  BY <2>1, <2>2
<1> QED  BY <1>3, <1>4, <1>5, <1>6

-----------------------------------------------------------------------------
(* A step is taken. *)

Takes(f) ==
  /\ TaskIInv /\ f \in ToDo
  /\ Effect(f, dir[f.r][f.n], dir'[f.r][f.n])
  /\ \A r \in Repos, n \in Names : r # f.r \/ n # f.n => dir'[r][n] = dir[r][n]
  /\ ToDo = {f} \union ToDo' /\ \A g \in ToDo' : After(f, g)
  /\ Len(todo) = 1 <=> ToDo' = {}
  /\ DirTypes' /\ ToDoFits'
  /\ mounted' = mounted /\ made' = made /\ broken' = broken \union LeftBehind(f)

LEMMA StepsTaken ==
  ASSUME TaskIInv, Step PROVE Takes(Head(todo))
<1> DEFINE f == Head(todo)
<1>1. /\ todo # <<>> /\ dir' = Written(f) /\ todo' = Tail(todo) /\ broken' = broken \union LeftBehind(f)
      /\ mounted' = mounted /\ made' = made /\ started' = started
  BY DEF Step
<1>2. ListsAll(todo, ToDo)
  BY DEF TaskIInv, ToDoFits, ToDo, ListsAll
<1>3. /\ f \in ToDo /\ ToDo = {f} \union ToDo' /\ ListsAll(Tail(todo), ToDo')
      /\ \A g \in ToDo' : After(f, g)
      /\ Len(todo) = 1 <=> ToDo' = {}
  BY <1>1, <1>2, HeadAndTail DEF ToDo
<1> HIDE DEF f
<1>4. /\ DirTypes /\ FileFits(f) /\ f.do \in Kinds
  BY <1>3 DEF TaskIInv, ToDoFits, Kinds
<1>5. f.r \in Repos /\ f.n \in Names
  BY <1>4 DEF FileFits
<1>6. PICK d : StepIs(f, d)
  <2>1. f.do \in {"setDependents", "addDependent", "dropDependent", "strip"} \union
                 {"make", "copyTree", "rmdir", "empty", "removePointer", "removeTree"} \union
                 {"point", "unpoint", "copyGoal", "copyPlan"}
    BY <1>4 DEF Kinds, Families
  <2> QED  BY <1>4, <2>1, RewriteIs, PlainIs, FileIs
<1>7. dir' = [dir EXCEPT ![f.r][f.n] = d] /\ d \in Dirs /\ DirFits(d) /\ Effect(f, dir[f.r][f.n], d)
  BY <1>1, <1>6 DEF StepIs
<1>8. /\ dir' \in [Repos -> [Names -> Dirs]] /\ dir'[f.r][f.n] = d
      /\ \A r \in Repos, n \in Names : r # f.r \/ n # f.n => dir'[r][n] = dir[r][n]
  BY <1>4, <1>5, <1>7 DEF DirTypes
<1>9. DirTypes'
  <2>1. \A r \in Repos, n \in Names : DirFits(dir'[r][n])
    BY <1>4, <1>5, <1>7, <1>8 DEF DirTypes
  <2>2. \A r \in Repos, n \in Names : DirFits(dir[r][n])'
    BY <1>1, <2>1 DEF DirFits
  <2>3. LeftBehind(f) \subseteq Names
    BY <1>5 DEF LeftBehind
  <2> QED  BY <1>1, <1>4, <1>8, <2>2, <2>3 DEF DirTypes
<1>10. ToDoFits'
  <2>1. \A g \in ToDo' : FileFits(g)
    BY <1>3 DEF TaskIInv, ToDoFits
  <2>2. \A g \in ToDo' : FileFits(g)'
    BY <1>1, <2>1 DEF FileFits
  <2>3. \E F \in Families : \A g \in ToDo' : g.do \in F
    BY <1>3 DEF TaskIInv, ToDoFits
  <2> QED  BY <1>1, <1>3, <2>2, <2>3 DEF ToDoFits, ListsAll
<1> QED  BY <1>1, <1>3, <1>7, <1>8, <1>9, <1>10 DEF Takes, f

\* Which steps a step may have beside it.
LEMMA Together ==
  ASSUME ToDoFits, NEW f \in ToDo, NEW g \in ToDo
  PROVE  /\ f.do = "point" => g.do \in {"make", "copyTree", "setDependents", "empty", "point", "addDependent"}
         /\ f.do = "empty" => g.do \in {"copyTree", "setDependents", "empty", "point"}
         /\ f.do = "copyGoal" => g.do \in {"unpoint", "copyGoal", "copyPlan", "dropDependent", "strip", "removePointer", "removeTree"}
         /\ f.do = "removeTree" => g.do \in {"unpoint", "copyGoal", "copyPlan", "strip", "removePointer", "removeTree"}
BY DEF ToDoFits, Families

\* The ids of a directory change by few steps, its pointer by few others.
LEMMA IdsMove ==
  ASSUME NEW f, Takes(f), NEW r \in Repos, NEW n \in Names
  PROVE  /\ f.do \notin {"make", "copyTree", "copyGoal", "empty", "removeTree"} => Ids(r, n)' = Ids(r, n)
         /\ r # f.r \/ n # f.n => dir'[r][n] = dir[r][n] /\ Ids(r, n)' = Ids(r, n)
         /\ f.do \notin {"point", "copyTree"} => dir'[r][n].pointer \subseteq dir[r][n].pointer
         /\ r \in Projects /\ f.do # "point" => dir'[r][n].pointer \subseteq dir[r][n].pointer
<1>1. /\ Effect(f, dir[f.r][f.n], dir'[f.r][f.n])
      /\ \A s \in Repos, m \in Names : s # f.r \/ m # f.n => dir'[s][m] = dir[s][m]
      /\ f.do \in UNION Families /\ FileFits(f) /\ f.r \in Repos /\ f.n \in Names
  BY DEF Takes, TaskIInv, ToDoFits, FileFits
<1>2. r # f.r \/ n # f.n => dir'[r][n] = dir[r][n] /\ Ids(r, n)' = Ids(r, n)
  BY <1>1 DEF Ids
<1>3. CASE r = f.r /\ n = f.n
  <2> DEFINE old == dir[r][n]
             d == dir'[r][n]
  <2>1. Effect(f, old, d)
    BY <1>1, <1>3
  <2>2. Ids(r, n)' = IdsOf(d) /\ Ids(r, n) = IdsOf(old)
    BY DEF Ids
  <2> HIDE DEF old, d
  <2>3. f.do \in {"point", "unpoint", "rmdir", "copyPlan", "removePointer"} => IdsOf(d) = IdsOf(old)
    BY <2>1 DEF Effect, IdsOf
  <2>4. f.do \in {"setDependents", "addDependent", "dropDependent", "strip"} => IdsOf(d) = IdsOf(old)
    BY <2>1 DEF Effect
  <2>5. f.do \notin {"make", "copyTree", "copyGoal", "empty", "removeTree"} => IdsOf(d) = IdsOf(old)
    BY <1>1, <2>3, <2>4 DEF Families
  <2>6. f.do \notin {"point", "copyTree"} => d.pointer \subseteq old.pointer
    BY <1>1, <2>1 DEF Effect, Families
  <2>7. f.do = "copyTree" => r = External
    BY <1>1, <1>3 DEF FileFits, AtExternal
  <2> QED  BY <1>3, <2>2, <2>5, <2>6, <2>7, TaskConfig DEF old, d
<1>4. CASE r # f.r \/ n # f.n
  BY <1>2, <1>4
<1> QED  BY <1>3, <1>4

\* An artifact of the external repository stays, until demote_chunk removes it.
LEMMA ExternalStays ==
  ASSUME NEW f, Takes(f), NEW m \in Names, f.do # "removeTree" \/ f.n # m
  PROVE  Ids(External, m) \subseteq Ids(External, m)'
<1>1. /\ FileFits(f) /\ FillFits(f) /\ External \in Repos /\ f.do \in UNION Families
  BY DEF Takes, TaskIInv, ToDoFits, StepsFit, Repos
<1>2. CASE f.do \in {"make", "copyTree"} /\ f.r = External /\ f.n = m
  BY <1>1, <1>2 DEF FillFits, Ids, IdsOf, NoDir
<1>3. CASE f.r # External \/ f.n # m
  BY <1>1, <1>3, IdsMove
<1>4. CASE f.do \notin {"make", "copyTree", "copyGoal", "empty", "removeTree"}
  BY <1>1, <1>4, IdsMove
<1>5. f.do \in {"copyGoal", "empty"} => f.r # External
  BY <1>1, TaskConfig DEF FileFits, AtProject
<1> QED  BY <1>2, <1>3, <1>4, <1>5

\* Who is in the list of an artifact stays there, but for the writes of the whole.
LEMMA ListStays ==
  ASSUME NEW f, Takes(f), NEW m \in Names, NEW e, InList(e, m), dir[External][m] # NoDir,
         f.do = "setDependents" /\ f.n = m => e \in ToSet(f.x),
         f.do = "dropDependent" /\ f.n = m => e # f.x
  PROVE  InList(e, m)'
<1>1. /\ FileFits(f) /\ FillFits(f) /\ External \in Repos /\ f.do \in UNION Families
      /\ Effect(f, dir[f.r][f.n], dir'[f.r][f.n])
  BY DEF Takes, TaskIInv, ToDoFits, StepsFit, Repos
<1>2. CASE f.r # External \/ f.n # m
  BY <1>1, <1>2, IdsMove DEF InList
<1>3. CASE f.r = External /\ f.n = m
  <2> DEFINE old == dir[External][m]
             d == dir'[External][m]
  <2>1. Effect(f, old, d) /\ f.do \notin {"make", "copyTree"} /\ f.do \notin AtProject
    BY <1>1, <1>3, TaskConfig DEF FillFits, FileFits
  <2>2. \A g \in old.goal : e \in ToSet(g.deps)
    BY DEF InList
  <2> HIDE DEF old, d
  <2>3. \A g \in d.goal : e \in ToSet(g.deps)
    <3>1. CASE f.do = "setDependents"
      BY <1>3, <2>1, <3>1 DEF Effect
    <3>2. CASE f.do \in {"addDependent", "dropDependent"}
      <4>1. Keeps(d, old, f.x) /\ (f.do = "addDependent" => Entries(d, f.x))
        BY <2>1, <3>2 DEF Effect
      <4>2. f.do = "dropDependent" => e # f.x
        BY <1>3
      <4> QED  BY <2>2, <3>2, <4>1, <4>2 DEF Keeps, Entries
    <3>3. CASE f.do = "removeTree"
      BY <2>1, <3>3 DEF Effect
    <3>4. f.do \in {"setDependents", "addDependent", "dropDependent", "removeTree"}
      BY <1>1, <2>1 DEF Families, AtProject
    <3> QED  BY <3>1, <3>2, <3>3, <3>4
  <2> QED  BY <2>3 DEF InList, d
<1> QED  BY <1>2, <1>3

\* Who was owed an entry is in the list then.
LEMMA OwedIsListed ==
  ASSUME NEW f, Takes(f), NEW m \in Names, NEW e, Owes(f, e, m)
  PROVE  InList(e, m)'
<1>1. FileFits(f) /\ Effect(f, dir[f.r][f.n], dir'[f.r][f.n])
  BY DEF Takes, TaskIInv, ToDoFits
<1>2. f.r = External /\ f.n = m
  BY <1>1 DEF FileFits, AtExternal, Owes
<1>3. \A g \in dir'[f.r][f.n].goal : e \in ToSet(g.deps)
  BY <1>1 DEF Owes, Effect, Entries
<1> QED  BY <1>2, <1>3 DEF InList

-----------------------------------------------------------------------------
(* The steps that are left fit. *)

LEMMA FillStays ==
  ASSUME NEW f, Takes(f), NEW g \in ToDo'
  PROVE  FillFits(g)'
BY DEF Takes, After, First, FillFits

LEMMA LeftOver ==
  ASSUME NEW f, Takes(f), NEW g \in ToDo'
  PROVE  /\ g \in ToDo /\ f \in ToDo /\ After(f, g) /\ f.r \in Repos /\ f.n \in Names /\ f.do \in Kinds
         /\ FileFits(f) /\ FileFits(g) /\ g.r \in Repos /\ g.n \in Names
         /\ g.do \in AtProject => g.r \in Projects /\ g.r # External
         /\ \A do, r, n : Pending(do, r, n) => Pending(do, r, n)' \/ (f.do = do /\ f.r = r /\ f.n = n)
         /\ \A do, r, n : Pending(do, r, n)' => Pending(do, r, n)
<1>1. ToDo = {f} \union ToDo' /\ f \in ToDo /\ After(f, g) /\ \A h \in ToDo : FileFits(h) /\ h.do \in UNION Families
  BY DEF Takes, TaskIInv, ToDoFits
<1>2. FileFits(f) /\ FileFits(g) /\ f.r \in Repos /\ f.n \in Names /\ g.r \in Repos /\ g.n \in Names
  BY <1>1 DEF FileFits
<1>3. g.do \in AtProject => g.r \in Projects /\ g.r # External
  BY <1>2, TaskConfig DEF FileFits
<1> QED  BY <1>1, <1>2, <1>3 DEF Pending, Kinds

LEMMA CopyStays ==
  ASSUME NEW f, Takes(f), NEW g \in ToDo'
  PROVE  CopyFits(g)'
<1> SUFFICES ASSUME g.do = "copyGoal" PROVE dir'[g.r][g.n].pointer = {}
  BY DEF CopyFits
<1>1. /\ ToDoFits /\ g \in ToDo /\ f \in ToDo /\ g.r \in Repos /\ g.n \in Names
      /\ CopyFits(g)
  BY LeftOver DEF Takes, TaskIInv, StepsFit
<1>2. f.do \notin {"point", "copyTree"}
  BY <1>1, Together
<1>3. CASE dir[g.r][g.n].pointer = {}
  BY <1>1, <1>2, <1>3, IdsMove
<1>4. CASE Pending("unpoint", g.r, g.n)
  <2>1. ~Pending("unpoint", g.r, g.n)'
    BY DEF Takes, After, First, Pending
  <2>2. f.do = "unpoint" /\ f.r = g.r /\ f.n = g.n
    BY <1>4, <2>1, LeftOver
  <2> QED  BY <2>2 DEF Takes, Effect
<1> QED  BY <1>1, <1>3, <1>4 DEF CopyFits

LEMMA EmptyStays ==
  ASSUME NEW f, Takes(f), NEW g \in ToDo'
  PROVE  EmptyFits(g)'
<1> SUFFICES ASSUME g.do = "empty", NEW i \in Ids(g.r, g.n)' PROVE \E m \in Names : i \in Ids(External, m)'
  BY DEF EmptyFits
<1>1. /\ ToDoFits /\ g \in ToDo /\ f \in ToDo /\ g.r \in Repos /\ g.n \in Names /\ g.r # External
      /\ EmptyFits(g) /\ FileFits(f) /\ FillFits(f) /\ f.n \in Names /\ External \in Repos
      /\ Effect(f, dir[f.r][f.n], dir'[f.r][f.n])
  BY LeftOver DEF Takes, TaskIInv, StepsFit, AtProject, Repos
<1>2. f.do \in {"copyTree", "setDependents", "empty", "point"}
  BY <1>1, Together
<1>3. i \in Ids(g.r, g.n)
  <2>1. CASE f.r = g.r /\ f.n = g.n /\ f.do \in {"copyTree", "empty"}
    <3>1. f.do = "empty"
      BY <1>1, <1>2, <2>1 DEF FileFits, AtExternal
    <3>2. dir'[g.r][g.n].goal = {}
      BY <1>1, <2>1, <3>1 DEF Effect
    <3> QED  BY <3>2 DEF Ids, IdsOf
  <2>2. CASE ~(f.r = g.r /\ f.n = g.n /\ f.do \in {"copyTree", "empty"})
    BY <1>1, <1>2, <2>2, IdsMove
  <2> QED  BY <2>1, <2>2
<1>4. CASE \E m \in Names : i \in Ids(External, m)
  <2>1. \A m \in Names : Ids(External, m) \subseteq Ids(External, m)'
    BY <1>2, ExternalStays
  <2> QED  BY <1>4, <2>1
<1>5. CASE \E c \in ToDo : c.do = "copyTree" /\ c.x = <<g.r, g.n>>
  <2>1. f.do = "copyTree" /\ f.x = <<g.r, g.n>>
    BY <1>5 DEF Takes, After, First
  <2>2. f.r = External /\ dir'[External][f.n] = dir[g.r][g.n]
    BY <1>1, <2>1 DEF FileFits, AtExternal, Effect
  <2>3. i \in Ids(External, f.n)'
    BY <1>3, <2>2 DEF Ids
  <2> QED  BY <1>1, <2>3
<1> QED  BY <1>1, <1>3, <1>4, <1>5 DEF EmptyFits

LEMMA SetStays ==
  ASSUME NEW f, Takes(f), NEW g \in ToDo'
  PROVE  SetFits(g)'
<1> SUFFICES ASSUME g.do = "setDependents"
             PROVE  /\ \A p \in Projects, n \in Names : Pointed(p, n, g.n)' => g.n \in broken' \/ <<p, n>> \in ToSet(g.x)
                    /\ \A c \in ToDo' : c.do = "point" => c.x = g.n /\ <<c.r, c.n>> \in ToSet(g.x)
  BY DEF SetFits
<1>1. /\ g \in ToDo /\ f \in ToDo /\ SetFits(g) /\ Projects \subseteq Repos /\ f.r \in Repos /\ f.n \in Names
      /\ broken \subseteq broken' /\ \A c \in ToDo' : c \in ToDo
      /\ Effect(f, dir[f.r][f.n], dir'[f.r][f.n])
  BY LeftOver DEF Takes, TaskIInv, StepsFit, Repos
<1>2. ASSUME NEW p \in Projects, NEW n \in Names, Pointed(p, n, g.n)'
      PROVE  g.n \in broken' \/ <<p, n>> \in ToSet(g.x)
  <2>1. CASE Pointed(p, n, g.n)
    BY <1>1, <2>1 DEF SetFits
  <2>2. CASE ~Pointed(p, n, g.n)
    <3>1. f.do = "point" /\ f.r = p /\ f.n = n
      BY <1>1, <1>2, <2>2, IdsMove DEF Pointed
    <3>2. <<p, n>> \in ToSet(g.x)
      BY <1>1, <3>1 DEF SetFits
    <3> QED  BY <3>2
  <2> QED  BY <2>1, <2>2
<1> QED  BY <1>1, <1>2 DEF SetFits

\* An artifact that is not there and is not made lists nobody, and everybody.
LEMMA AbsentStays ==
  ASSUME NEW f, Takes(f), NEW m \in Names, NEW e, dir[External][m] = NoDir, f.do \notin {"make", "copyTree"}
  PROVE  InList(e, m)'
<1>1. FileFits(f) /\ External \in Repos /\ f.r \in Repos /\ f.n \in Names
      /\ Effect(f, dir[f.r][f.n], dir'[f.r][f.n])
  BY DEF Takes, TaskIInv, ToDoFits, FileFits, Repos
<1>2. Ids(External, m) = {}
  BY DEF Ids, IdsOf, NoDir
<1>3. Ids(External, m)' = {}
  <2>1. CASE f.r = External /\ f.n = m /\ f.do = "removeTree"
    BY <1>1, <2>1 DEF Effect, Ids, IdsOf
  <2>2. f.r = External => f.do \notin {"copyGoal", "empty"}
    BY <1>1, TaskConfig DEF FileFits, AtProject
  <2> QED  BY <1>1, <1>2, <2>1, <2>2, IdsMove
<1>4. dir'[External][m].goal = {}
  BY <1>3 DEF Ids, IdsOf
<1> QED  BY <1>4 DEF InList

LEMMA OwedStays ==
  ASSUME NEW f, Takes(f), NEW e, NEW m \in Names, Owed(e, m)
  PROVE  Owed(e, m)' \/ InList(e, m)'
<1>1. PICK c \in ToDo : Owes(c, e, m)
  BY DEF Owed
<1>2. CASE c = f
  BY <1>1, <1>2, OwedIsListed
<1>3. CASE c \in ToDo'
  BY <1>1, <1>3 DEF Owed, Owes
<1> QED  BY <1>2, <1>3 DEF Takes

LEMMA PointStays ==
  ASSUME NEW f, Takes(f), NEW g \in ToDo'
  PROVE  PointFits(g)'
<1> SUFFICES ASSUME g.do = "point"
             PROVE  /\ Owed(<<g.r, g.n>>, g.x)' \/ InList(<<g.r, g.n>>, g.x)'
                    /\ Pending("empty", g.r, g.n)' \/ \A i \in Ids(g.r, g.n)' : i \notin Ids(External, g.x)'
  BY DEF PointFits
<1>1. /\ ToDoFits /\ g \in ToDo /\ f \in ToDo /\ PointFits(g) /\ FillFits(f) /\ SetFits(f) /\ FileFits(f) /\ FileFits(g)
      /\ g.r \in Repos /\ g.r \in Projects /\ g.r # External /\ External \in Repos /\ g.n \in Names /\ g.x \in Names
      /\ f.r \in Repos /\ f.n \in Names
      /\ Effect(f, dir[f.r][f.n], dir'[f.r][f.n])
  <2>1. g \in ToDo /\ f \in ToDo /\ FileFits(f) /\ FileFits(g) /\ g.r \in Projects /\ g.r # External
        /\ f.r \in Repos /\ f.n \in Names /\ g.r \in Repos /\ g.n \in Names
    BY LeftOver DEF AtProject
  <2>2. g.x \in Names
    BY <2>1 DEF FileFits
  <2> QED  BY <2>1, <2>2 DEF Takes, TaskIInv, StepsFit, Repos
<1>2. f.do \in {"make", "copyTree", "setDependents", "empty", "point", "addDependent"}
  BY <1>1, Together
<1>3. Owed(<<g.r, g.n>>, g.x)' \/ InList(<<g.r, g.n>>, g.x)'
  <2>1. CASE Owed(<<g.r, g.n>>, g.x)
    BY <1>1, <2>1, OwedStays
  <2>2. CASE ~Owed(<<g.r, g.n>>, g.x) /\ InList(<<g.r, g.n>>, g.x)
    <3>1. f.do \notin {"make", "copyTree"}
      BY <1>1, <2>2 DEF FillFits
    <3>2. f.do = "setDependents" => <<g.r, g.n>> \in ToSet(f.x)
      BY <1>1 DEF SetFits
    <3> QED  BY <1>1, <1>2, <2>2, <3>1, <3>2, AbsentStays, ListStays
  <2> QED  BY <1>1, <2>1, <2>2 DEF PointFits
<1>4. Pending("empty", g.r, g.n)' \/ \A i \in Ids(g.r, g.n)' : i \notin Ids(External, g.x)'
  <2>1. CASE f.do \in {"setDependents", "point", "addDependent"}
    <3>1. Ids(g.r, g.n)' = Ids(g.r, g.n) /\ Ids(External, g.x)' = Ids(External, g.x)
      BY <1>1, <2>1, IdsMove
    <3> QED  BY <1>1, <2>1, <3>1, LeftOver DEF PointFits
  <2>2. CASE f.do = "copyTree"
    BY <1>1, <2>2, LeftOver DEF FillFits
  <2>3. CASE f.do = "empty"
    <3>1. f.r # External /\ Ids(External, g.x)' = Ids(External, g.x)
      BY <1>1, <2>3, IdsMove, TaskConfig DEF FileFits, AtProject
    <3>2. CASE f.r = g.r /\ f.n = g.n
      BY <1>1, <2>3, <3>2 DEF Effect, Ids, IdsOf
    <3>3. CASE ~(f.r = g.r /\ f.n = g.n)
      BY <1>1, <2>3, <3>1, <3>3, IdsMove, LeftOver DEF PointFits
    <3> QED  BY <3>2, <3>3
  <2>4. CASE f.do = "make"
    <3>1. /\ dir[f.r][f.n] = NoDir /\ f.x.id \notin Ids(g.r, g.n) /\ f.x.id \notin Ids(External, g.x)
          /\ dir'[f.r][f.n].goal = {f.x}
      BY <1>1, <2>4 DEF FillFits, Effect
    <3>2. Ids(f.r, f.n)' = {f.x.id}
      BY <3>1 DEF Ids, IdsOf
    <3>3. Pending("empty", g.r, g.n) => Pending("empty", g.r, g.n)'
      BY <2>4, LeftOver
    <3>4. CASE f.r = g.r /\ f.n = g.n
      <4>1. Ids(External, g.x)' = Ids(External, g.x)
        BY <1>1, <3>4, IdsMove
      <4> QED  BY <3>1, <3>2, <3>4, <4>1
    <3>5. CASE f.r = External /\ f.n = g.x
      <4>1. Ids(g.r, g.n)' = Ids(g.r, g.n)
        BY <1>1, <3>5, IdsMove
      <4> QED  BY <3>1, <3>2, <3>5, <4>1
    <3>6. CASE ~(f.r = g.r /\ f.n = g.n) /\ ~(f.r = External /\ f.n = g.x)
      <4>1. Ids(g.r, g.n)' = Ids(g.r, g.n) /\ Ids(External, g.x)' = Ids(External, g.x)
        BY <1>1, <3>6, IdsMove
      <4> QED  BY <1>1, <3>3, <4>1 DEF PointFits
    <3> QED  BY <3>4, <3>5, <3>6
  <2> QED  BY <1>2, <2>1, <2>2, <2>3, <2>4
<1> QED  BY <1>3, <1>4

LEMMA PointersStay ==
  ASSUME NEW f, Takes(f)
  PROVE  PointersFit'
<1> SUFFICES ASSUME NEW p \in Projects, NEW n \in Names, NEW x \in dir'[p][n].pointer
             PROVE  /\ x.for \notin Ids(p, n)'
                    /\ x.to \in broken' \/ x.for \in Ids(External, x.to)'
                    /\ x.to \in broken' \/ Owed(<<p, n>>, x.to)' \/ InList(<<p, n>>, x.to)'
  BY DEF PointersFit
<1>1. /\ ToDoFits /\ f \in ToDo /\ PointFits(f) /\ FillFits(f) /\ SetFits(f) /\ CopyFits(f) /\ FileFits(f) /\ PointersFit
      /\ p \in Repos /\ p # External /\ External \in Repos /\ f.r \in Repos /\ f.n \in Names
      /\ broken' = broken \union LeftBehind(f)
      /\ Effect(f, dir[f.r][f.n], dir'[f.r][f.n])
  BY TaskConfig DEF Takes, TaskIInv, ToDoFits, StepsFit, Repos, FileFits
<1>2. x.to \in Names
  <2>1. dir'[p][n] \in Dirs
    BY <1>1 DEF Takes, DirTypes
  <2> QED  BY <2>1 DEF Dirs, Pointers
<1>3. CASE x \in dir[p][n].pointer
  <2>1. /\ x.for \notin Ids(p, n)
        /\ x.to \in broken \/ x.for \in Ids(External, x.to)
        /\ x.to \in broken \/ Owed(<<p, n>>, x.to) \/ InList(<<p, n>>, x.to)
    BY <1>1, <1>3 DEF PointersFit
  <2>2. x.for \notin Ids(p, n)'
    <3>1. CASE f.r = p /\ f.n = n /\ f.do \in {"make", "copyTree", "copyGoal", "empty", "removeTree"}
      <4>1. f.do \notin {"make", "empty", "removeTree"}
        BY <1>1, <3>1 DEF Effect
      <4>2. f.do # "copyTree"
        BY <1>1, <3>1 DEF FileFits, AtExternal
      <4>3. f.do = "copyGoal"
        BY <3>1, <4>1, <4>2
      <4>4. ~Pending("unpoint", p, n)
        BY <4>3 DEF Takes, After, First, Pending
      <4> QED  BY <1>1, <1>3, <3>1, <4>3, <4>4 DEF CopyFits
    <3>2. CASE ~(f.r = p /\ f.n = n /\ f.do \in {"make", "copyTree", "copyGoal", "empty", "removeTree"})
      BY <1>1, <2>1, <3>2, IdsMove
    <3> QED  BY <3>1, <3>2
  <2>3. x.to \in broken' \/ x.for \in Ids(External, x.to)'
    <3>1. CASE f.do = "removeTree" /\ f.n = x.to
      BY <1>1, <1>3, <3>1 DEF LeftBehind
    <3>2. CASE ~(f.do = "removeTree" /\ f.n = x.to)
      BY <1>1, <1>2, <2>1, <3>2, ExternalStays
    <3> QED  BY <3>1, <3>2
  <2>4. x.to \in broken' \/ Owed(<<p, n>>, x.to)' \/ InList(<<p, n>>, x.to)'
    <3>1. CASE x.to \in broken
      BY <1>1, <3>1
    <3>2. CASE Owed(<<p, n>>, x.to)
      BY <1>2, <3>2, OwedStays
    <3>3. CASE x.to \notin broken /\ InList(<<p, n>>, x.to)
      <4>1. dir[External][x.to] # NoDir
        BY <2>1, <3>3 DEF Ids, IdsOf, NoDir
      <4>2. f.do = "setDependents" /\ f.n = x.to => <<p, n>> \in ToSet(f.x)
        BY <1>1, <1>3, <3>3 DEF SetFits, Pointed
      <4>3. f.do = "dropDependent" /\ f.n = x.to /\ f.x = <<p, n>> => x.to \in broken'
        BY <1>1, <1>3 DEF LeftBehind
      <4> QED  BY <1>2, <3>3, <4>1, <4>2, <4>3, ListStays
    <3> QED  BY <2>1, <3>1, <3>2, <3>3
  <2> QED  BY <2>2, <2>3, <2>4
<1>4. CASE x \notin dir[p][n].pointer
  <2>1. f.do = "point" /\ f.r = p /\ f.n = n
    BY <1>1, <1>4, IdsMove
  <2>2. x.to = f.x /\ x.for \in Ids(External, f.x)
    BY <1>1, <2>1 DEF Effect
  <2>3. ~Pending("empty", p, n)
    BY <2>1 DEF Takes, After, Pending
  <2>4. x.for \notin Ids(p, n)
    BY <1>1, <2>1, <2>2, <2>3 DEF PointFits
  <2>5. Ids(p, n)' = Ids(p, n) /\ Ids(External, f.x)' = Ids(External, f.x)
    BY <1>1, <1>2, <2>1, <2>2, IdsMove
  <2>6. Owed(<<p, n>>, x.to)' \/ InList(<<p, n>>, x.to)'
    <3>1. dir[External][x.to] # NoDir
      BY <2>2 DEF Ids, IdsOf, NoDir
    <3>2. Owed(<<p, n>>, x.to) \/ InList(<<p, n>>, x.to)
      BY <1>1, <2>1, <2>2 DEF PointFits
    <3> QED  BY <1>2, <2>1, <3>1, <3>2, OwedStays, ListStays
  <2> QED  BY <2>2, <2>4, <2>5, <2>6
<1> QED  BY <1>3, <1>4

LEMMA RemoveStays ==
  ASSUME NEW f, Takes(f), NEW g \in ToDo'
  PROVE  RemoveFits(g)'
<1> SUFFICES ASSUME g.do = "removeTree", NEW p \in Projects, Demoting(g.n, p) PROVE Demoting(g.n, p)'
  <2>1. g \in ToDo /\ RemoveFits(g)
    BY LeftOver DEF Takes, TaskIInv, StepsFit
  <2> QED  BY <2>1 DEF RemoveFits
<1> DEFINE n == g.n
<1>1. /\ ToDoFits /\ g \in ToDo /\ f \in ToDo /\ f.r \in Repos /\ f.n \in Names /\ n \in Names /\ After(f, g)
      /\ p \in Repos /\ p # External /\ External \in Repos /\ FileFits(f)
      /\ mounted' = mounted /\ \A c \in ToDo' : c \in ToDo
      /\ Effect(f, dir[f.r][f.n], dir'[f.r][f.n])
  BY LeftOver, TaskConfig DEF Takes, TaskIInv, Repos
<1>2. f.do \in {"unpoint", "copyGoal", "copyPlan", "strip", "removePointer"}
  BY <1>1, Together DEF After
<1>3. /\ f.do \in {"unpoint", "copyGoal", "copyPlan", "strip"} => f.r = p /\ f.n = n
      /\ f.do = "removePointer" => f.r # p /\ f.n = n
      /\ f.r # External
  <2>1. \A c \in ToDo : /\ c.do \in {"unpoint", "copyGoal", "copyPlan", "strip"} => c.r = p /\ c.n = n
                        /\ c.do = "removePointer" => c.r # p /\ c.n = n
    BY DEF Demoting
  <2>2. f.r # External
    BY <1>1, <1>2, TaskConfig DEF FileFits, AtProject
  <2> QED  BY <1>1, <2>1, <2>2
<1>4. dir'[External][n] = dir[External][n]
  BY <1>1, <1>3, IdsMove
<1> HIDE DEF n
<1>5. \A do, r : Pending(do, r, n) => Pending(do, r, n)' \/ (f.do = do /\ f.r = r)
  BY LeftOver
<1>6. \A do, r : Pending(do, r, n)' => Pending(do, r, n)
  BY LeftOver
<1>7. ASSUME NEW q \in Projects \intersect mounted, q # p
      PROVE  dir'[q][n].goal = {} /\ (dir'[q][n].pointer = {} \/ Pending("removePointer", q, n)')
  <2>1. dir[q][n].goal = {} /\ (dir[q][n].pointer = {} \/ Pending("removePointer", q, n)) /\ q \in Repos
    BY <1>7 DEF Demoting, n, Repos
  <2>2. CASE f.r = q
    <3>1. f.do = "removePointer" /\ f.n = n /\ f.r \in mounted
      BY <1>2, <1>3, <1>7, <2>2
    <3>2. dir'[q][n].goal = {} /\ dir'[q][n].pointer = {}
      BY <1>1, <2>1, <2>2, <3>1 DEF Effect
    <3> QED  BY <3>2
  <2>3. CASE f.r # q
    <3>1. dir'[q][n] = dir[q][n]
      BY <1>1, <2>1, <2>3, IdsMove DEF n
    <3> QED  BY <1>5, <2>1, <2>3, <3>1
  <2> QED  BY <2>2, <2>3
<1> DEFINE old == dir[p][n]
           d == dir'[p][n]
           ext == dir[External][n].goal
<1>8. /\ old.goal # {} \/ old.pointer = {} \/ Pending("unpoint", p, n)
      /\ old.goal # {} \/ ext = {} \/ Pending("copyGoal", p, n)
      /\ (\A h \in old.goal : h.deps = <<>> /\ p \notin h.code) \/ Pending("strip", p, n)
      /\ Pending("copyGoal", p, n) => Pending("strip", p, n)
  BY DEF Demoting, n
<1>9. f.r # p => d = old
  BY <1>1, IdsMove DEF n
<1>10. f.r = p => Effect(f, old, d) /\ f.do # "removePointer"
  BY <1>1, <1>3, <1>2 DEF n
<1>11. f.r = p /\ f.do = "copyGoal" => d.goal = IF ext # {} THEN ext ELSE old.goal
  BY <1>3, <1>10 DEF Effect, HasGoal
<1> HIDE DEF old, d, ext
<1>12. f.r = p /\ f.do \in {"unpoint", "copyPlan"} => d.goal = old.goal
  BY <1>10 DEF Effect
<1>13. f.r = p /\ f.do = "strip" => (d.goal = {} <=> old.goal = {}) /\ \A h \in d.goal : h.deps = <<>> /\ p \notin h.code
  <2> SUFFICES ASSUME f.r = p, f.do = "strip"
               PROVE  (d.goal = {} <=> old.goal = {}) /\ \A h \in d.goal : h.deps = <<>> /\ p \notin h.code
    OBVIOUS
  <2>1. IdsOf(d) = IdsOf(old) /\ \A h \in d.goal : h.deps = <<>> /\ p \notin h.code
    BY <1>10 DEF Effect
  <2>2. d.goal = {} <=> old.goal = {}
    BY <2>1 DEF IdsOf
  <2> QED  BY <2>1, <2>2
<1>14. d.goal = {} => old.goal = {}
  BY <1>2, <1>9, <1>10, <1>11, <1>12, <1>13
<1>15. d.goal # {} \/ d.pointer = {} \/ Pending("unpoint", p, n)'
  <2>1. f.r = p /\ f.do = "unpoint" => d.pointer = {}
    BY <1>10 DEF Effect
  <2>2. f.r = p /\ f.do \in {"copyGoal", "copyPlan", "strip"} => d.pointer = old.pointer
    BY <1>10 DEF Effect
  <2> QED  BY <1>2, <1>5, <1>8, <1>9, <1>10, <1>14, <2>1, <2>2
<1>16. d.goal # {} \/ ext = {} \/ Pending("copyGoal", p, n)'
  BY <1>5, <1>8, <1>11, <1>14
<1>17. Pending("strip", p, n) => Pending("strip", p, n)' \/ f.do = "strip"
  BY <1>5
<1>18. Pending("copyGoal", p, n)' => Pending("strip", p, n)'
  BY <1>5, <1>6, <1>8, <1>17 DEF Takes, After, Pending
<1>19. (\A h \in d.goal : h.deps = <<>> /\ p \notin h.code) \/ Pending("strip", p, n)'
  <2>1. CASE f.r = p /\ f.do = "strip"
    BY <1>13, <2>1
  <2>2. CASE f.r = p /\ f.do = "copyGoal"
    <3>1. Pending("copyGoal", p, n)
      BY <1>1, <1>3, <2>2 DEF Pending
    <3> QED  BY <1>8, <1>17, <2>2, <3>1
  <2>3. CASE f.r # p \/ f.do \in {"unpoint", "copyPlan"}
    <3>1. d.goal = old.goal /\ f.do # "strip"
      BY <1>3, <1>9, <1>12, <2>3
    <3> QED  BY <1>8, <1>17, <3>1
  <2> QED  BY <1>2, <1>10, <2>1, <2>2, <2>3
<1>20. \A c \in ToDo' : /\ c.do \in {"unpoint", "copyGoal", "copyPlan", "strip"} => c.r = p /\ c.n = n
                       /\ c.do = "removePointer" => c.r # p /\ c.n = n
  BY <1>1 DEF Demoting, n
<1> QED  BY <1>1, <1>4, <1>7, <1>15, <1>16, <1>18, <1>19, <1>20 DEF Demoting, n, old, d, ext

\* A step keeps the invariant.
LEMMA StepStays ==
  ASSUME TaskIInv, Step PROVE TaskIInv'
<1>1. Takes(Head(todo))
  BY StepsTaken
<1> DEFINE f == Head(todo)
<1> HIDE DEF f
<1>2. StepsFit'
  BY <1>1, FillStays, EmptyStays, PointStays, SetStays, CopyStays, RemoveStays DEF StepsFit, f
<1>3. PointersFit'
  BY <1>1, PointersStay
<1> QED  BY <1>1, <1>2, <1>3 DEF TaskIInv, Takes

-----------------------------------------------------------------------------
(* A command starts, ends, or a checkout moves. *)

\* The command's steps are T.
Starts(T) ==
  /\ TaskIInv /\ Idle /\ ListsAll(todo', T)
  /\ dir' = dir /\ mounted' = mounted /\ broken' = broken
  /\ made' \in 0..MaxMade /\ made <= made' /\ started' \in 0..MaxCommands

StepFitsIn(f) == FillFits(f) /\ EmptyFits(f) /\ PointFits(f) /\ SetFits(f) /\ CopyFits(f) /\ RemoveFits(f)

LEMMA NothingToDo ==
  ASSUME Idle PROVE ToDo = {} /\ \A e, m : ~Owed(e, m)
<1>1. ToDo = {}
  BY LenProperties DEF Idle, ToDo, ToSet
<1> QED  BY <1>1 DEF Owed

LEMMA DirsStay ==
  ASSUME DirTypes, dir' = dir, mounted' \subseteq Repos, made' \in 0..MaxMade, made <= made', started' \in 0..MaxCommands,
         broken' \subseteq Names
  PROVE  DirTypes'
<1>1. \A r \in Repos, n \in Names : dir'[r][n] \in Dirs /\ DirFits(dir[r][n])'
  <2> SUFFICES ASSUME NEW r \in Repos, NEW n \in Names PROVE dir'[r][n] \in Dirs /\ DirFits(dir[r][n])'
    OBVIOUS
  <2>1. dir'[r][n] = dir[r][n] /\ dir[r][n] \in Dirs /\ DirFits(dir[r][n])
    BY DirIs
  <2>2. \A g \in dir[r][n].goal : g.id \in Nat /\ g.id <= made /\ made \in Nat /\ made' \in Nat
    BY <2>1, TaskBounds DEF Dirs, DirFits, Goals, Contents, DirTypes
  <2>3. \A g \in dir[r][n].goal : g.id <= made'
    BY <2>2
  <2> QED  BY <2>1, <2>3 DEF DirFits
<1> QED  BY <1>1 DEF DirTypes

LEMMA CommandStays ==
  ASSUME NEW T, Starts(T), \A f \in T : FileFits(f)', \A f \in T : StepFitsIn(f)',
         \E F \in Families : \A f \in T : f.do \in F
  PROVE  TaskIInv'
<1>1. ToDo' = T /\ todo' \in Seq(T) /\ InOrder(todo')
  BY DEF Starts, ListsAll, ToDo
<1>2. ToDoFits'
  BY <1>1 DEF ToDoFits
<1>3. StepsFit'
  BY <1>1 DEF StepsFit, StepFitsIn
<1>4. DirTypes'
  BY DirsStay DEF Starts, TaskIInv, DirTypes
<1>5. PointersFit'
  BY NothingToDo DEF Starts, TaskIInv, PointersFit, InList, Ids
<1> QED  BY <1>2, <1>3, <1>4, <1>5 DEF TaskIInv

LEMMA StoppedStays ==
  ASSUME TaskIInv, Stopped PROVE TaskIInv'
<1>1. /\ todo' = <<>> /\ broken' = broken \union {todo[i].n : i \in DOMAIN todo}
      /\ dir' = dir /\ mounted' = mounted /\ made' = made /\ started' = started
  BY DEF Stopped
<1>2. ToDo' = {}
  BY <1>1, LenProperties DEF ToDo, ToSet
<1>3. ToDoFits'
  <2>1. todo' \in Seq(ToDo') /\ InOrder(todo')
    BY <1>1, <1>2, EmptySeq, LenProperties DEF InOrder
  <2> QED  BY <1>2, <2>1 DEF ToDoFits, Families
<1>4. \A f \in ToDo : f.n \in broken' /\ f.n \in Names
  BY <1>1 DEF TaskIInv, ToDoFits, FileFits, ToDo, ToSet
<1>5. broken' \subseteq Names
  BY <1>1, <1>4 DEF ToDo, ToSet, TaskIInv, DirTypes
<1>6. DirTypes'
  BY <1>1, <1>5, DirsStay DEF TaskIInv, DirTypes
<1>7. PointersFit'
  <2>1. \A e, m : Owed(e, m) => m \in broken'
    BY <1>4 DEF Owed, Owes
  <2> QED  BY <1>1, <2>1 DEF TaskIInv, PointersFit, InList, Ids
<1> QED  BY <1>2, <1>3, <1>6, <1>7 DEF TaskIInv, StepsFit

LEMMA MountStays ==
  ASSUME TaskIInv, NEW r \in Repos, Mount(r) PROVE TaskIInv'
<1>1. /\ Idle /\ mounted' \subseteq Repos /\ todo' = todo /\ dir' = dir /\ broken' = broken
      /\ made' = made /\ started' = started
  BY DEF Mount, TaskIInv, DirTypes
<1>2. ToDo = {} /\ ToDo' = {}
  BY <1>1, NothingToDo DEF ToDo
<1>3. DirTypes'
  BY <1>1, DirsStay DEF TaskIInv, DirTypes
<1>4. ToDoFits'
  BY <1>1, <1>2 DEF ToDoFits, TaskIInv
<1>5. PointersFit'
  BY <1>1, NothingToDo DEF TaskIInv, PointersFit, InList, Ids
<1> QED  BY <1>2, <1>3, <1>4, <1>5 DEF TaskIInv, StepsFit

LEMMA InitFits ==
  ASSUME TaskInit PROVE TaskIInv
<1>1. ToDo = {}
  BY LenProperties DEF TaskInit, ToDo, ToSet
<1>2. \A r \in Repos, n \in Names : dir[r][n] = NoDir
  BY DEF TaskInit
<1>3. DirTypes
  BY <1>2, NoDirFits, TaskBounds DEF DirTypes, TaskInit
<1>4. ToDoFits
  <2>1. todo \in Seq(ToDo) /\ InOrder(todo)
    BY <1>1, EmptySeq, LenProperties DEF InOrder, TaskInit
  <2> QED  BY <1>1, <2>1 DEF ToDoFits, Families
<1>5. PointersFit
  <2>1. \A p \in Projects, n \in Names : dir[p][n].pointer = {}
    BY <1>2 DEF NoDir, Repos
  <2> QED  BY <2>1 DEF PointersFit
<1> QED  BY <1>1, <1>3, <1>4, <1>5 DEF TaskIInv, StepsFit

LEMMA RunStarts ==
  ASSUME TaskIInv, NEW s, Run(s), NEW T, ListsAll(s, T), made' = made \/ (made < MaxMade /\ made' = made + 1)
  PROVE  Starts(T) /\ ToDo' = T /\ ToDo = {}
<1>1. Idle /\ todo' = s /\ dir' = dir /\ mounted' = mounted /\ broken' = broken /\ started < MaxCommands /\ started' = started + 1
  BY DEF Run
<1>2. made \in 0..MaxMade /\ started \in 0..MaxCommands
  BY DEF TaskIInv, DirTypes
<1>3. made' \in 0..MaxMade /\ made <= made'
  BY <1>2, TaskBounds
<1>4. started' \in 0..MaxCommands
  BY <1>1, <1>2, TaskBounds
<1>5. ToDo' = T
  BY <1>1 DEF ListsAll, ToDo
<1> QED  BY <1>1, <1>3, <1>4, <1>5, NothingToDo DEF Starts

\* A text that is not written yet.
LEMMA FreshId ==
  ASSUME DirTypes, NEW r \in Repos, NEW n \in Names
  PROVE  made + 1 \notin Ids(r, n) /\ (~Has(r, n) => dir[r][n] = NoDir)
<1>1. dir[r][n] \in Dirs /\ DirFits(dir[r][n]) /\ made \in Nat
  BY DirIs DEF DirTypes
<1>2. \A g \in dir[r][n].goal : g.id \in Nat /\ g.id <= made
  BY <1>1, TaskBounds DEF Dirs, DirFits, Goals, Contents
<1>3. made + 1 \notin Ids(r, n)
  BY <1>1, <1>2 DEF Ids, IdsOf
<1> QED  BY <1>1, <1>3 DEF DirFits, Has

LEMMA CreateLocalStays ==
  ASSUME TaskIInv, NEW p \in Projects, NEW n \in Names, CreateLocal(p, n) PROVE TaskIInv'
<1>0. PICK goal : goal = [id |-> made + 1, code |-> {}, deps |-> <<>>]
  OBVIOUS
<1> DEFINE mk == File("make", p, n, goal)
<1>1. ListsAll(<<mk>>, {mk})
  BY OneStep
<1>2. made < MaxMade /\ made' = made + 1 /\ Run(<<mk>>) /\ ~Has(p, n)
  BY <1>0 DEF CreateLocal
<1>3. Starts({mk}) /\ ToDo' = {mk} /\ dir' = dir
  BY <1>1, <1>2, RunStarts DEF Starts
<1> DEFINE m == made + 1
<1>4. /\ made \in Nat /\ made <= MaxMade /\ m \in Contents /\ goal \in Goals /\ goal.deps = <<>> /\ goal.id <= made' /\ goal.id = m
      /\ p \in Repos /\ p # External
  BY <1>0, <1>2, TaskBounds, TaskConfig, EmptySeq DEF TaskIInv, DirTypes, Contents, Goals, Repos
<1>5. /\ mk.do = "make" /\ mk.r = p /\ mk.n = n /\ mk.x = goal
  BY DEF File
<1> HIDE DEF mk
<1>6. FileFits(mk)'
  BY <1>4, <1>5 DEF FileFits, AtExternal, AtProject
<1>7. dir[p][n] = NoDir /\ \A r \in Repos, k \in Names : goal.id \notin Ids(r, k)
  BY <1>2, <1>4, FreshId DEF TaskIInv
<1>8. dir'[p][n] = NoDir /\ \A r \in Repos, k \in Names : goal.id \notin Ids(r, k)'
  BY <1>3, <1>7 DEF Ids
<1>9. StepFitsIn(mk)'
  BY <1>3, <1>5, <1>8 DEF StepFitsIn, FillFits, EmptyFits, PointFits, SetFits, CopyFits, RemoveFits
<1>10. \E F \in Families : mk.do \in F
  BY <1>5 DEF Families
<1> QED  BY <1>3, <1>6, <1>9, <1>10, CommandStays

\* The same step in each project of a set.
LEMMA StepsOf ==
  ASSUME NEW S, IsFiniteSet(S), NEW do \in {"point", "removePointer"}, NEW n, NEW x
  PROVE  LET ps == SetToSeq(S)
             s == [i \in DOMAIN ps |-> File(do, ps[i], n, x)]
         IN  ListsAll(s, {File(do, p, n, x) : p \in S})
<1> DEFINE ps == SetToSeq(S)
           s == [i \in DOMAIN ps |-> File(do, ps[i], n, x)]
           T == {File(do, p, n, x) : p \in S}
<1>1. ps \in Seq(S) /\ ToSet(ps) = S
  BY SetToSeqIs
<1> HIDE DEF ps
<1>2. DOMAIN ps = 1..Len(ps) /\ Len(ps) \in Nat /\ \A i \in DOMAIN ps : ps[i] \in S
  BY <1>1, LenProperties
<1>3. s \in Seq(T) /\ DOMAIN s = DOMAIN ps
  BY <1>2
<1>4. ToSet(s) = T
  BY <1>1, <1>2 DEF ToSet
<1>5. \A f \in T : f.do = do
  BY DEF File
<1> HIDE DEF s, T
<1>6. ListsAll(s, ToSet(s))
  BY <1>3, <1>5, SameSteps
<1> QED  BY <1>4, <1>6 DEF s, T, ps

\* The list of the dependents of a new artifact.
LEMMA DependentsOf ==
  ASSUME NEW S \in SUBSET Projects, NEW n \in Names
  PROVE  LET ps == SetToSeq(S)
             l == [i \in DOMAIN ps |-> <<ps[i], n>>]
         IN  l \in Seq(Dependents) /\ IsInjective(l) /\ ToSet(l) = {<<p, n>> : p \in S}
<1> DEFINE ps == SetToSeq(S)
           l == [i \in DOMAIN ps |-> <<ps[i], n>>]
<1>0. IsFiniteSet(S)
  BY TaskConfig, FS_Subset
<1>1. ps \in Seq(S) /\ ToSet(ps) = S /\ IsInjective(ps)
  BY <1>0, SetToSeqIs
<1> HIDE DEF ps
<1>2. DOMAIN ps = 1..Len(ps) /\ Len(ps) \in Nat /\ \A i \in DOMAIN ps : ps[i] \in S
  BY <1>1, LenProperties
<1>3. l \in Seq(Dependents) /\ DOMAIN l = DOMAIN ps
  BY <1>2 DEF Dependents
<1>4. ToSet(l) = {<<p, n>> : p \in S}
  BY <1>1, <1>2 DEF ToSet
<1>5. IsInjective(l)
  BY <1>1 DEF IsInjective
<1> QED  BY <1>3, <1>4, <1>5 DEF ps

LEMMA CreateStays ==
  ASSUME TaskIInv, NEW n \in Names, NEW S \in SUBSET Projects, NEW code \in SUBSET Projects, CreateTaskArtifact(n, S, code)
  PROVE  TaskIInv'
<1>0. PICK goal : goal = [id |-> made + 1, code |-> code, deps |-> <<>>]
  OBVIOUS
<1> DEFINE ps == SetToSeq(S)
           list == [i \in DOMAIN ps |-> <<ps[i], n>>]
           mk == File("make", External, n, goal)
           pt == PointersOf(n, ps)
           st == File("setDependents", External, n, list)
           P == {File("point", p, n, n) : p \in S}
           T == {mk} \union P \union {st}
<1>1. /\ made < MaxMade /\ made' = made + 1 /\ ~Has(External, n)
      /\ Run((<<mk>> \o pt) \o <<st>>)
  BY <1>0 DEF CreateTaskArtifact, CreateProgram
<1>2. list \in Seq(Dependents) /\ IsInjective(list) /\ ToSet(list) = {<<p, n>> : p \in S}
  BY DependentsOf
<1>3. ListsAll(pt, P)
  <2>1. IsFiniteSet(S)
    BY TaskConfig, FS_Subset
  <2> QED  BY <2>1, StepsOf DEF PointersOf
<1> HIDE DEF list, pt
<1>4. /\ mk.do = "make" /\ mk.r = External /\ mk.n = n /\ mk.x = goal
      /\ st.do = "setDependents" /\ st.r = External /\ st.n = n /\ st.x = list
      /\ \A f \in P : f.do = "point" /\ f.r \in S /\ f.n = n /\ f.x = n
  BY DEF File
<1> HIDE DEF mk, st, P
<1>5. ListsAll((<<mk>> \o pt) \o <<st>>, T)
  <2>1. ListsAll(<<mk>>, {mk}) /\ ListsAll(<<st>>, {st})
    BY OneStep
  <2>2. \A f \in P : After(mk, f) /\ After(f, st)
    BY <1>4 DEF After, First
  <2>3. After(mk, st)
    BY <1>4 DEF After, First
  <2>4. ListsAll(<<mk>> \o pt, {mk} \union P)
    BY <1>3, <2>1, <2>2, Joined
  <2>5. \A f \in {mk} \union P, g \in {st} : After(f, g)
    BY <2>2, <2>3
  <2> QED  BY <2>1, <2>4, <2>5, Joined
<1>6. Starts(T) /\ ToDo' = T /\ dir' = dir
  BY <1>1, <1>5, RunStarts DEF Starts
<1>7. /\ made \in Nat /\ made <= MaxMade /\ goal \in Goals /\ goal.deps = <<>> /\ goal.id <= made'
      /\ goal.id = made + 1 /\ External \in Repos /\ External \notin Projects /\ S \subseteq Projects /\ S \subseteq Repos
  BY <1>0, <1>1, TaskBounds, TaskConfig, EmptySeq DEF TaskIInv, DirTypes, Contents, Goals, Repos
<1> HIDE DEF T
<1>8. \A f \in T : FileFits(f)'
  <2>1. FileFits(mk)'
    BY <1>4, <1>7 DEF FileFits, AtExternal, AtProject
  <2>2. FileFits(st)'
    BY <1>2, <1>4, <1>7 DEF FileFits, AtExternal, AtProject
  <2>3. ASSUME NEW f \in P PROVE FileFits(f)'
    BY <1>4, <1>7 DEF FileFits, AtExternal, AtProject
  <2> QED  BY <2>1, <2>2, <2>3 DEF T
<1>9. /\ dir'[External][n] = NoDir
      /\ \A r \in Repos, k \in Names : goal.id \notin Ids(r, k)'
      /\ Ids(External, n)' = {}
  <2>1. dir[External][n] = NoDir /\ \A r \in Repos, k \in Names : goal.id \notin Ids(r, k)
    BY <1>1, <1>7, FreshId DEF TaskIInv
  <2>2. Ids(External, n) = {}
    BY <2>1 DEF Ids, IdsOf, NoDir
  <2> QED  BY <1>6, <2>1, <2>2 DEF Ids
<1>10. \A f \in P : Owes(st, <<f.r, f.n>>, f.x)
  BY <1>2, <1>4 DEF Owes
<1>11. StepFitsIn(mk)'
  <2>1. \A c \in T : c.do = "point" => Owed(<<c.r, c.n>>, c.x)'
    <3>1. \A c \in T : c.do = "point" => c \in P
      BY <1>4 DEF T
    <3>2. st \in ToDo'
      BY <1>6 DEF T
    <3> QED  BY <1>10, <3>1, <3>2 DEF Owed, Owes
  <2> QED  BY <1>4, <1>6, <1>9, <2>1 DEF StepFitsIn, FillFits, EmptyFits, PointFits, SetFits, CopyFits, RemoveFits
<1>12. ASSUME NEW f \in P PROVE StepFitsIn(f)'
  <2>1. Owed(<<f.r, f.n>>, f.x)'
    <3>1. st \in ToDo'
      BY <1>6 DEF T
    <3> QED  BY <1>10, <3>1 DEF Owed, Owes
  <2> QED  BY <1>4, <1>9, <2>1 DEF StepFitsIn, FillFits, EmptyFits, PointFits, SetFits, CopyFits, RemoveFits
<1>13. StepFitsIn(st)'
  <2>1. \A c \in T : c.do = "point" => c.x = n /\ <<c.r, c.n>> \in ToSet(list)
    <3>1. \A c \in T : c.do = "point" => c \in P
      BY <1>4 DEF T
    <3> QED  BY <1>2, <1>4, <3>1
  <2>2. \A p \in Projects, k \in Names : Pointed(p, k, n) => n \in broken
    <3>1. Ids(External, n) = {}
      BY <1>6, <1>9 DEF Ids
    <3>2. \A p \in Projects, k \in Names : \A x \in dir[p][k].pointer : x.to \in broken \/ x.for \in Ids(External, x.to)
      BY DEF TaskIInv, PointersFit
    <3> QED  BY <3>1, <3>2 DEF Pointed
  <2>3. \A p \in Projects, k \in Names : Pointed(p, k, n)' => n \in broken'
    BY <1>6, <2>2 DEF Pointed, Starts
  <2> QED  BY <1>4, <1>6, <2>1, <2>3 DEF StepFitsIn, FillFits, EmptyFits, PointFits, SetFits, CopyFits, RemoveFits
<1>14. \E F \in Families : \A f \in T : f.do \in F
  <2>1. \A f \in T : f.do \in {"make", "point", "setDependents"}
    BY <1>4 DEF T
  <2> QED  BY <2>1 DEF Families
<1> QED  BY <1>6, <1>8, <1>11, <1>12, <1>13, <1>14, CommandStays DEF T

LEMMA PromoteStays ==
  ASSUME TaskIInv, NEW p \in Projects, NEW n \in Names, NEW m \in Names, Promote(p, n, m)
  PROVE  TaskIInv'
<1> DEFINE ct == File("copyTree", External, m, <<p, n>>)
           st == File("setDependents", External, m, <<<<p, n>>>>)
           em == File("empty", p, n, {})
           pt == File("point", p, n, m)
           T == {ct, st} \union {em, pt}
<1>1. ~Has(External, m) /\ made' = made /\ Run(<<ct, st>> \o <<em, pt>>)
  <2>1. <<ct, st, em, pt>> = <<ct, st>> \o <<em, pt>>
    OBVIOUS
  <2> QED  BY <2>1 DEF Promote, PromoteProgram
<1>2. /\ ct.do = "copyTree" /\ ct.r = External /\ ct.n = m /\ ct.x = <<p, n>>
      /\ st.do = "setDependents" /\ st.r = External /\ st.n = m /\ st.x = <<<<p, n>>>>
      /\ em.do = "empty" /\ em.r = p /\ em.n = n
      /\ pt.do = "point" /\ pt.r = p /\ pt.n = n /\ pt.x = m
  BY DEF File
<1>3. <<p, n>> \in Dependents /\ <<<<p, n>>>> \in Seq(Dependents) /\ IsInjective(<<<<p, n>>>>) /\ ToSet(<<<<p, n>>>>) = {<<p, n>>}
  BY DEF Dependents, IsInjective, ToSet
<1> HIDE DEF ct, st, em, pt
<1>4. ListsAll(<<ct, st>> \o <<em, pt>>, T)
  <2>1. After(ct, st) /\ After(em, pt) /\ \A f \in {ct, st}, g \in {em, pt} : After(f, g)
    BY <1>2 DEF After, First
  <2>2. ListsAll(<<ct, st>>, {ct, st}) /\ ListsAll(<<em, pt>>, {em, pt})
    BY <2>1, TwoSteps
  <2> QED  BY <2>1, <2>2, Joined
<1>5. Starts(T) /\ ToDo' = T /\ dir' = dir /\ broken' = broken
  BY <1>1, <1>4, RunStarts DEF Starts
<1>6. External \in Repos /\ External \notin Projects /\ p \in Repos
  BY TaskConfig DEF Repos
<1>7. \A f \in T : FileFits(f)'
  <2>1. FileFits(ct)' /\ FileFits(st)'
    BY <1>2, <1>3, <1>6 DEF FileFits, AtExternal, AtProject
  <2>2. FileFits(em)' /\ FileFits(pt)'
    BY <1>2, <1>3, <1>6 DEF FileFits, AtExternal, AtProject
  <2> QED  BY <2>1, <2>2
<1>8. dir'[External][m] = NoDir /\ \A q \in Projects, k \in Names : Pointed(q, k, m)' => m \in broken'
  <2>1. dir[External][m] = NoDir
    BY <1>1, <1>6, FreshId DEF TaskIInv
  <2>2. Ids(External, m) = {}
    BY <2>1 DEF Ids, IdsOf, NoDir
  <2>3. \A q \in Projects, k \in Names : \A x \in dir[q][k].pointer : x.to \in broken \/ x.for \in Ids(External, x.to)
    BY DEF TaskIInv, PointersFit
  <2> QED  BY <1>5, <2>1, <2>2, <2>3 DEF Pointed
<1>9. ct \in ToDo' /\ st \in ToDo' /\ em \in ToDo' /\ \A c \in T : c.do = "point" => c = pt
  BY <1>2, <1>5
<1>10. Owed(<<p, n>>, m)' /\ Pending("empty", p, n)'
  <2>1. Owes(st, <<p, n>>, m)
    BY <1>2, <1>3 DEF Owes
  <2> QED  BY <1>2, <1>9, <2>1 DEF Owed, Owes, Pending
<1>11. StepFitsIn(ct)'
  BY <1>2, <1>5, <1>8, <1>9, <1>10 DEF StepFitsIn, FillFits, EmptyFits, PointFits, SetFits, CopyFits, RemoveFits
<1>12. StepFitsIn(st)'
  BY <1>2, <1>3, <1>5, <1>8, <1>9 DEF StepFitsIn, FillFits, EmptyFits, PointFits, SetFits, CopyFits, RemoveFits
<1>13. StepFitsIn(em)'
  BY <1>2, <1>9 DEF StepFitsIn, FillFits, EmptyFits, PointFits, SetFits, CopyFits, RemoveFits
<1>14. StepFitsIn(pt)'
  BY <1>2, <1>10 DEF StepFitsIn, FillFits, EmptyFits, PointFits, SetFits, CopyFits, RemoveFits
<1>15. \E F \in Families : \A f \in T : f.do \in F
  BY <1>2 DEF Families
<1> QED  BY <1>5, <1>7, <1>11, <1>12, <1>13, <1>14, <1>15, CommandStays

LEMMA CopyAsExternalStays ==
  ASSUME TaskIInv, NEW m \in Names, NEW p \in Projects, NEW n \in Names, CopyAsExternal(m, p, n)
  PROVE  TaskIInv'
<1> DEFINE pt == File("point", p, n, m)
           ad == File("addDependent", External, m, <<p, n>>)
           T == {pt, ad}
<1>1. ~Has(p, n) /\ made' = made /\ Run(<<pt, ad>>)
  BY DEF CopyAsExternal
<1>2. /\ pt.do = "point" /\ pt.r = p /\ pt.n = n /\ pt.x = m
      /\ ad.do = "addDependent" /\ ad.r = External /\ ad.n = m /\ ad.x = <<p, n>>
  BY DEF File
<1>3. <<p, n>> \in Dependents /\ External \in Repos /\ External \notin Projects /\ p \in Repos
  BY TaskConfig DEF Dependents, Repos
<1> HIDE DEF pt, ad
<1>4. ListsAll(<<pt, ad>>, T)
  <2>1. After(pt, ad)
    BY <1>2 DEF After, First
  <2> QED  BY <2>1, TwoSteps
<1>5. Starts(T) /\ ToDo' = T /\ dir' = dir
  BY <1>1, <1>4, RunStarts DEF Starts
<1>6. FileFits(pt)' /\ FileFits(ad)'
  BY <1>2, <1>3 DEF FileFits, AtExternal, AtProject
<1>7. Ids(p, n)' = {}
  <2>1. dir[p][n] = NoDir
    BY <1>1, <1>3, FreshId DEF TaskIInv
  <2> QED  BY <1>5, <2>1 DEF Ids, IdsOf, NoDir
<1>8. Owed(<<p, n>>, m)'
  BY <1>2, <1>5 DEF Owed, Owes
<1>9. StepFitsIn(pt)'
  BY <1>2, <1>7, <1>8 DEF StepFitsIn, FillFits, EmptyFits, PointFits, SetFits, CopyFits, RemoveFits
<1>10. StepFitsIn(ad)'
  BY <1>2 DEF StepFitsIn, FillFits, EmptyFits, PointFits, SetFits, CopyFits, RemoveFits
<1>11. \E F \in Families : \A f \in T : f.do \in F
  BY <1>2 DEF Families
<1> QED  BY <1>5, <1>6, <1>9, <1>10, <1>11, CommandStays

\* A goal in hand is one that fits.
LEMMA GoalIs ==
  ASSUME DirTypes, NEW r \in Repos, NEW n \in Names, HasGoal(r, n)
  PROVE  Goal(r, n) \in Goals /\ dir[r][n].goal = {Goal(r, n)}
<1>1. Goal(r, n) \in dir[r][n].goal
  BY DEF HasGoal, Goal
<1>2. dir[r][n].goal \subseteq Goals /\ AtMostOne(dir[r][n].goal)
  BY DirIs DEF Dirs, DirFits
<1> QED  BY <1>1, <1>2 DEF AtMostOne

LEMMA PointerIs ==
  ASSUME DirTypes, NEW p \in Repos, NEW n \in Names, HasPointer(p, n)
  PROVE  Target(p, n) \in Names /\ \A x \in dir[p][n].pointer : x.to = Target(p, n)
<1>1. PICK y \in dir[p][n].pointer : Target(p, n) = y.to
  BY DEF HasPointer, Target
<1>2. dir[p][n].pointer \subseteq Pointers /\ AtMostOne(dir[p][n].pointer)
  BY DirIs DEF Dirs, DirFits
<1> QED  BY <1>1, <1>2 DEF AtMostOne, Pointers

LEMMA RemoveFromExternalStays ==
  ASSUME TaskIInv, NEW n \in Names, NEW p \in Projects, RemoveFromExternal(n, p)
  PROVE  TaskIInv'
<1>0. PICK m : m = Target(p, n)
  OBVIOUS
<1> DEFINE un == File("unpoint", p, n, {})
           rm == File("rmdir", p, n, {})
           dr == File("dropDependent", External, m, <<p, n>>)
           T == {un, rm, dr}
<1>1. HasPointer(p, n) /\ made' = made /\ Run(<<un, rm, dr>>)
  BY <1>0 DEF RemoveFromExternal
<1>2. /\ un.do = "unpoint" /\ un.r = p /\ un.n = n
      /\ rm.do = "rmdir" /\ rm.r = p /\ rm.n = n
      /\ dr.do = "dropDependent" /\ dr.r = External /\ dr.n = m /\ dr.x = <<p, n>>
  BY DEF File
<1>3. <<p, n>> \in Dependents /\ External \in Repos /\ External \notin Projects /\ p \in Repos /\ m \in Names
  BY <1>0, <1>1, PointerIs, TaskConfig DEF Dependents, Repos, TaskIInv
<1> HIDE DEF un, rm, dr
<1>4. ListsAll(<<un, rm, dr>>, T)
  <2>1. After(un, rm) /\ After(un, dr) /\ After(rm, dr)
    BY <1>2 DEF After, First
  <2> QED  BY <2>1, ThreeSteps
<1>5. Starts(T)
  BY <1>1, <1>4, RunStarts
<1>6. \A f \in T : FileFits(f)'
  BY <1>2, <1>3 DEF FileFits, AtExternal, AtProject
<1>7. \A f \in T : StepFitsIn(f)'
  BY <1>2 DEF StepFitsIn, FillFits, EmptyFits, PointFits, SetFits, CopyFits, RemoveFits
<1>8. \E F \in Families : \A f \in T : f.do \in F
  BY <1>2 DEF Families
<1> QED  BY <1>5, <1>6, <1>7, <1>8, CommandStays

LEMMA DemoteStays ==
  ASSUME TaskIInv, NEW n \in Names, NEW p \in Projects, NEW goalFirst \in BOOLEAN, DemoteArtifact(n, p, goalFirst)
  PROVE  TaskIInv'
<1>0. PICK e : e = Deps(n)[FirstOf(n, p)]
  OBVIOUS
<1> DEFINE un == File("unpoint", p, n, {})
           cg == File("copyGoal", p, n, {})
           cp == File("copyPlan", p, n, {})
           dr == File("dropDependent", External, n, e)
           T == {un} \union {cg, cp} \union {dr}
           mid == IF goalFirst THEN <<cg, cp>> ELSE <<cp, cg>>
<1>1. FirstOf(n, p) > 0 /\ made' = made /\ Run((<<un>> \o mid) \o <<dr>>)
  <2>1. Reverse(<<cg, cp>>) = <<cp, cg>>
    BY DEF Reverse
  <2> QED  BY <1>0, <2>1 DEF DemoteArtifact, DemoteProgram
<1>2. /\ un.do = "unpoint" /\ un.r = p /\ un.n = n
      /\ cg.do = "copyGoal" /\ cg.r = p /\ cg.n = n
      /\ cp.do = "copyPlan" /\ cp.r = p /\ cp.n = n
      /\ dr.do = "dropDependent" /\ dr.r = External /\ dr.n = n /\ dr.x = e
  BY DEF File
<1> HIDE DEF un, cg, cp, dr
<1>3. External \in Repos /\ External \notin Projects /\ p \in Repos
  BY TaskConfig DEF Repos
<1>4. e \in Dependents
  <2>1. Deps(n) \in Seq(Dependents)
    BY <1>3, GoalIs, EmptySeq DEF Deps, Goals, TaskIInv
  <2> DEFINE s == Deps(n)
             I == {i \in 1..Len(s) : s[i][1] = p}
  <2>2. FirstOf(n, p) = IF I = {} THEN 0 ELSE Min(I)
    BY DEF FirstOf, SelectInSeq
  <2>3. I \in SUBSET Nat /\ I # {}
    BY <1>1, <2>2
  <2>4. FirstOf(n, p) \in 1..Len(s)
    BY <2>2, <2>3, LeastIs
  <2> HIDE DEF s
  <2> QED  BY <1>0, <2>1, <2>4 DEF s
<1>5. ListsAll((<<un>> \o mid) \o <<dr>>, T)
  <2>1. After(un, cg) /\ After(un, cp) /\ After(un, dr) /\ After(cg, cp) /\ After(cp, cg) /\ After(cg, dr) /\ After(cp, dr)
    BY <1>2 DEF After, First
  <2>2. ListsAll(<<un>>, {un}) /\ ListsAll(<<dr>>, {dr})
    BY OneStep
  <2>3. ListsAll(mid, {cg, cp})
    <3>1. ListsAll(<<cg, cp>>, {cg, cp})
      BY <2>1, TwoSteps
    <3>2. ListsAll(<<cp, cg>>, {cp, cg}) /\ {cp, cg} = {cg, cp}
      BY <2>1, TwoSteps
    <3> QED  BY <3>1, <3>2
  <2> HIDE DEF mid
  <2>4. ListsAll(<<un>> \o mid, {un} \union {cg, cp})
    BY <2>1, <2>2, <2>3, Joined
  <2>5. \A f \in {un} \union {cg, cp}, g \in {dr} : After(f, g)
    BY <2>1
  <2> QED  BY <2>2, <2>4, <2>5, Joined
<1>6. Starts(T) /\ ToDo' = T
  BY <1>1, <1>5, RunStarts
<1>7. \A f \in T : FileFits(f)'
  BY <1>2, <1>3, <1>4 DEF FileFits, AtExternal, AtProject
<1>8. StepFitsIn(cg)'
  <2>1. Pending("unpoint", p, n)'
    BY <1>2, <1>6 DEF Pending
  <2> QED  BY <1>2, <2>1 DEF StepFitsIn, FillFits, EmptyFits, PointFits, SetFits, CopyFits, RemoveFits
<1>9. StepFitsIn(un)' /\ StepFitsIn(cp)' /\ StepFitsIn(dr)'
  BY <1>2 DEF StepFitsIn, FillFits, EmptyFits, PointFits, SetFits, CopyFits, RemoveFits
<1>10. \E F \in Families : \A f \in T : f.do \in F
  BY <1>2 DEF Families
<1> QED  BY <1>6, <1>7, <1>8, <1>9, <1>10, CommandStays

LEMMA CompleteStays ==
  ASSUME TaskIInv, NEW n \in Names, CompleteChunk(n)
  PROVE  TaskIInv'
<1>0. PICK p : p = Deps(n)[1][1]
  OBVIOUS
<1>1. Len(Deps(n)) = 1 /\ \E goalFirst \in BOOLEAN : DemoteArtifact(n, p, goalFirst)
  BY <1>0 DEF CompleteChunk
<1>2. Deps(n) \in Seq(Dependents)
  BY GoalIs, EmptySeq DEF Deps, Goals, TaskIInv, Repos
<1>3. p \in Projects
  <2>1. Deps(n)[1] \in Dependents
    BY <1>1, <1>2
  <2> QED  BY <1>0, <2>1 DEF Dependents
<1> QED  BY <1>1, <1>3, DemoteStays

LEMMA DemoteChunkStays ==
  ASSUME TaskIInv, NEW n \in Names, NEW p \in Projects, DemoteChunk(n, p)
  PROVE  TaskIInv'
<1> DEFINE un == File("unpoint", p, n, {})
           cg == File("copyGoal", p, n, {})
           cp == File("copyPlan", p, n, {})
           sp == File("strip", p, n, {})
           rt == File("removeTree", External, n, {})
           R == {File("removePointer", q, n, {}) : q \in Projects \ {p}}
           others == OthersProgram(n, p)
<1>0. PICK copied, away \in BOOLEAN : copied = HasGoal(p, n) /\ away = Has(External, n)
  BY DEF HasGoal, Has, TaskIInv, DirTypes, Dirs, Repos
<1> DEFINE s1 == IF copied THEN <<>> ELSE <<un, cg, cp>>
           T1 == IF copied THEN {} ELSE {un, cg, cp}
           s2 == IF away THEN <<rt>> ELSE <<>>
           T2 == IF away THEN {rt} ELSE {}
           T == ((T1 \union {sp}) \union R) \union T2
<1>1. made' = made /\ Run(((s1 \o <<sp>>) \o others) \o s2)
  BY <1>0 DEF DemoteChunk, DemoteChunkProgram
<1>2. /\ {p, External} \subseteq mounted /\ (away \/ copied)
      /\ \A q \in (Projects \ {p}) \intersect mounted : ~HasGoal(q, n)
  BY <1>0 DEF DemoteChunk
<1>3. /\ un.do = "unpoint" /\ un.r = p /\ un.n = n
      /\ cg.do = "copyGoal" /\ cg.r = p /\ cg.n = n
      /\ cp.do = "copyPlan" /\ cp.r = p /\ cp.n = n
      /\ sp.do = "strip" /\ sp.r = p /\ sp.n = n
      /\ rt.do = "removeTree" /\ rt.r = External /\ rt.n = n
      /\ \A f \in R : f.do = "removePointer" /\ f.r \in Projects /\ f.r # p /\ f.n = n
      /\ \A q \in Projects \ {p} : \E f \in R : f.do = "removePointer" /\ f.r = q /\ f.n = n
  <2>1. ASSUME NEW q \in Projects \ {p} PROVE \E f \in R : f.do = "removePointer" /\ f.r = q /\ f.n = n
    <3>1. File("removePointer", q, n, {}) \in R
      OBVIOUS
    <3>2. LET f == File("removePointer", q, n, {}) IN f.do = "removePointer" /\ f.r = q /\ f.n = n
      BY DEF File
    <3> QED  BY <3>1, <3>2
  <2>2. ASSUME NEW f \in R PROVE f.do = "removePointer" /\ f.r \in Projects /\ f.r # p /\ f.n = n
    BY DEF File
  <2> HIDE DEF R
  <2> QED  BY <2>1, <2>2 DEF File
<1>4. ListsAll(others, R)
  <2>1. IsFiniteSet(Projects \ {p})
    BY TaskConfig, FS_Difference
  <2> QED  BY <2>1, StepsOf DEF OthersProgram
<1> HIDE DEF un, cg, cp, sp, rt, R, others
<1>5. ListsAll(((s1 \o <<sp>>) \o others) \o s2, T)
  <2>1. ListsAll(s1, T1)
    <3>1. After(un, cg) /\ After(un, cp) /\ After(cg, cp)
      BY <1>3 DEF After, First
    <3>2. ListsAll(<<un, cg, cp>>, {un, cg, cp})
      BY <3>1, ThreeSteps
    <3> QED  BY <3>2, NoStep
  <2>2. ListsAll(<<sp>>, {sp})
    BY OneStep
  <2>3. ListsAll(s2, T2)
    BY OneStep, NoStep
  <2>4. \A f \in T1, g \in {sp} : After(f, g)
    BY <1>3 DEF After, First
  <2>5. \A f \in T1 \union {sp}, g \in R : After(f, g)
    BY <1>3 DEF After, First
  <2>6. \A f \in (T1 \union {sp}) \union R, g \in T2 : After(f, g)
    BY <1>3 DEF After, First
  <2> HIDE DEF s1, s2, T1, T2
  <2>7. ListsAll(s1 \o <<sp>>, T1 \union {sp})
    BY <2>1, <2>2, <2>4, Joined
  <2>8. ListsAll((s1 \o <<sp>>) \o others, (T1 \union {sp}) \union R)
    BY <1>4, <2>5, <2>7, Joined
  <2> QED  BY <2>3, <2>6, <2>8, Joined
<1>6. Starts(T) /\ ToDo' = T /\ dir' = dir /\ mounted' = mounted
  <2> HIDE DEF s1, s2, T
  <2> QED  BY <1>1, <1>5, RunStarts DEF Starts
<1>7. External \in Repos /\ External \notin Projects /\ p \in Repos /\ \A q \in Projects : q \in Repos
  BY TaskConfig DEF Repos
<1>8. \A f \in T : f \in {un, cg, cp, sp, rt} \union R
  OBVIOUS
<1>9. \A f \in T : FileFits(f)'
  <2>1. \A f \in {un, cg, cp, sp, rt} : FileFits(f)'
    BY <1>3, <1>7 DEF FileFits, AtExternal, AtProject
  <2>2. ASSUME NEW f \in R PROVE FileFits(f)'
    BY <1>3, <1>7 DEF FileFits, AtExternal, AtProject
  <2> QED  BY <1>8, <2>1, <2>2
<1>10. /\ ~copied => Pending("unpoint", p, n)' /\ Pending("copyGoal", p, n)'
       /\ Pending("strip", p, n)' /\ \A q \in Projects \ {p} : Pending("removePointer", q, n)'
  <2>1. /\ sp \in T /\ R \subseteq T
        /\ ~copied => un \in T /\ cg \in T
    OBVIOUS
  <2> HIDE DEF T
  <2> QED  BY <1>3, <1>6, <2>1 DEF Pending
<1>11. cg \in T => StepFitsIn(cg)'
  <2>1. cg \in T => ~copied
    BY <1>3
  <2> QED  BY <1>3, <1>10, <2>1 DEF StepFitsIn, FillFits, EmptyFits, PointFits, SetFits, CopyFits, RemoveFits
<1>12. StepFitsIn(un)' /\ StepFitsIn(cp)' /\ StepFitsIn(sp)'
  BY <1>3 DEF StepFitsIn, FillFits, EmptyFits, PointFits, SetFits, CopyFits, RemoveFits
<1>13. ASSUME NEW f \in R PROVE StepFitsIn(f)'
  BY <1>3 DEF StepFitsIn, FillFits, EmptyFits, PointFits, SetFits, CopyFits, RemoveFits
<1>14. StepFitsIn(rt)'
  <2>1. \A q \in Projects \intersect mounted : q # p => dir[q][n].goal = {}
    BY <1>2 DEF HasGoal
  <2>2. copied => dir[p][n].goal # {}
    BY <1>0 DEF HasGoal
  <2>3. \A c \in T : /\ c.do \in {"unpoint", "copyGoal", "copyPlan", "strip"} => c.r = p /\ c.n = n
                     /\ c.do = "removePointer" => c.r # p /\ c.n = n
    <3>1. \A c \in {un, cg, cp, sp, rt} : /\ c.do \in {"unpoint", "copyGoal", "copyPlan", "strip"} => c.r = p /\ c.n = n
                                          /\ c.do # "removePointer"
      BY <1>3
    <3>2. \A c \in R : c.do = "removePointer" /\ c.r # p /\ c.n = n
      BY <1>3
    <3> QED  BY <1>8, <3>1, <3>2
  <2> HIDE DEF T
  <2>4. Demoting(n, p)'
    BY <1>6, <1>10, <2>1, <2>2, <2>3 DEF Demoting
  <2> QED  BY <1>3, <2>4 DEF StepFitsIn, FillFits, EmptyFits, PointFits, SetFits, CopyFits, RemoveFits
<1>15. \A f \in T : StepFitsIn(f)'
  BY <1>8, <1>11, <1>12, <1>13, <1>14
<1>16. \E F \in Families : \A f \in T : f.do \in F
  <2>1. \A f \in T : f.do \in {"unpoint", "copyGoal", "copyPlan", "strip", "removePointer", "removeTree"}
    BY <1>3, <1>8
  <2> QED  BY <2>1 DEF Families
<1> HIDE DEF T
<1> QED  BY <1>6, <1>9, <1>15, <1>16, CommandStays

LEMMA TaskStays ==
  ASSUME TaskIInv, [TaskNext]_taskVars PROVE TaskIInv'
<1>1. CASE TaskNext
  <2>1. ASSUME NEW n \in Names, NEW S \in SUBSET Projects,
               \/ CreateTaskChunk(n, S)
               \/ CreateTaskNarrative(n, S)
               \/ CreateTaskInvestigation(n, S)
               \/ CreateTaskSubsystem(n, S)
        PROVE  TaskIInv'
    <3>1. \E code \in SUBSET Projects : CreateTaskArtifact(n, S, code)
      BY <2>1, TaskConfig DEF CreateTaskChunk, CreateTaskNarrative, CreateTaskInvestigation, CreateTaskSubsystem
    <3> QED  BY <3>1, CreateStays
  <2>2. ASSUME NEW p \in Projects, NEW n \in Names, CreateLocal(p, n) PROVE TaskIInv'
    BY <2>2, CreateLocalStays
  <2>3. ASSUME NEW p \in Projects, NEW n \in Names, NEW m \in Names, Promote(p, n, m) PROVE TaskIInv'
    BY <2>3, PromoteStays
  <2>4. ASSUME NEW m \in Names, NEW n \in Names, NEW p \in Projects, CopyAsExternal(m, p, n) PROVE TaskIInv'
    BY <2>4, CopyAsExternalStays
  <2>5. ASSUME NEW n \in Names, NEW p \in Projects, RemoveFromExternal(n, p) PROVE TaskIInv'
    BY <2>5, RemoveFromExternalStays
  <2>6. ASSUME NEW n \in Names, NEW p \in Projects, NEW goalFirst \in BOOLEAN, DemoteArtifact(n, p, goalFirst) PROVE TaskIInv'
    BY <2>6, DemoteStays
  <2>7. ASSUME NEW n \in Names, CompleteChunk(n) PROVE TaskIInv'
    BY <2>7, CompleteStays
  <2>8. ASSUME NEW n \in Names, NEW p \in Projects, DemoteChunk(n, p) PROVE TaskIInv'
    BY <2>8, DemoteChunkStays
  <2>9. CASE Step
    BY <2>9, StepStays
  <2>10. CASE Fail \/ Kill
    BY <2>10, StoppedStays DEF Fail, Kill
  <2>11. ASSUME NEW r \in Repos, Mount(r) PROVE TaskIInv'
    BY <2>11, MountStays
  <2> QED  BY <1>1, <2>1, <2>2, <2>3, <2>4, <2>5, <2>6, <2>7, <2>8, <2>9, <2>10, <2>11 DEF TaskNext
<1>2. CASE UNCHANGED taskVars
  <2>1. /\ dir' = dir /\ mounted' = mounted /\ made' = made /\ started' = started /\ todo' = todo /\ broken' = broken
    BY <1>2 DEF taskVars
  <2>2. ToDo' = ToDo
    BY <2>1 DEF ToDo
  <2>3. DirTypes'
    BY <2>1, DirsStay DEF TaskIInv, DirTypes
  <2>4. ToDoFits'
    BY <2>1, <2>2 DEF TaskIInv, ToDoFits, FileFits
  <2>5. PointersFit'
    BY <2>1, <2>2 DEF TaskIInv, PointersFit, InList, Ids, Owed
  <2>6. StepsFit'
    <3>1. \A do, r, n : Pending(do, r, n)' <=> Pending(do, r, n)
      BY <2>2 DEF Pending
    <3>2. \A e, m : (Owed(e, m)' <=> Owed(e, m)) /\ (InList(e, m)' <=> InList(e, m))
      BY <2>1, <2>2 DEF Owed, InList
    <3>3. \A r, n : Ids(r, n)' = Ids(r, n)
      BY <2>1 DEF Ids
    <3>4. ASSUME NEW f \in ToDo PROVE FillFits(f)' /\ EmptyFits(f)' /\ PointFits(f)'
      <4>1. FillFits(f) /\ EmptyFits(f) /\ PointFits(f)
        BY DEF TaskIInv, StepsFit
      <4>2. FillFits(f)'
        BY <2>1, <2>2, <3>1, <3>2, <3>3, <4>1 DEF FillFits
      <4>3. EmptyFits(f)'
        BY <2>2, <3>3, <4>1 DEF EmptyFits
      <4>4. PointFits(f)'
        BY <3>1, <3>2, <3>3, <4>1 DEF PointFits
      <4> QED  BY <4>2, <4>3, <4>4
    <3>5. ASSUME NEW f \in ToDo PROVE SetFits(f)' /\ CopyFits(f)' /\ RemoveFits(f)'
      <4>1. SetFits(f) /\ CopyFits(f) /\ RemoveFits(f)
        BY DEF TaskIInv, StepsFit
      <4>2. SetFits(f)'
        BY <2>1, <2>2, <4>1 DEF SetFits, Pointed
      <4>3. CopyFits(f)'
        BY <2>1, <3>1, <4>1 DEF CopyFits
      <4>4. RemoveFits(f)'
        BY <2>1, <2>2, <3>1, <4>1 DEF RemoveFits, Demoting
      <4> QED  BY <4>2, <4>3, <4>4
    <3> QED  BY <2>2, <3>4, <3>5 DEF StepsFit
  <2> QED  BY <2>3, <2>4, <2>5, <2>6 DEF TaskIInv
<1> QED  BY <1>1, <1>2

LEMMA TaskIInvAlways == TaskSpec => []TaskIInv
BY InitFits, TaskStays, PTL DEF TaskSpec

-----------------------------------------------------------------------------
(* What the invariant says of lists and texts. *)

LEMMA TypesFollow ==
  ASSUME TaskIInv PROVE TasksTypeOK
<1>1. ASSUME NEW r \in Repos, NEW n \in Names
      PROVE  LET d == dir[r][n] IN
               /\ d.there \in BOOLEAN /\ d.plan \in Option(Contents)
               /\ d.pointer \in Option(Pointers)
               /\ Cardinality(d.goal) <= 1 /\ d.goal \subseteq Goals
               /\ \A g \in d.goal : IsInjective(g.deps)
               /\ ~d.there => d = NoDir
  <2> DEFINE d == dir[r][n]
  <2>1. d \in Dirs /\ DirFits(d)
    BY DirIs DEF TaskIInv
  <2> HIDE DEF d
  <2>2. \A S : AtMostOne(S) => S = {} \/ \E x : S = {x}
    <3> SUFFICES ASSUME NEW S, AtMostOne(S), NEW x \in S PROVE S = {x}
      OBVIOUS
    <3> QED  BY DEF AtMostOne
  <2>3. d.plan \in Option(Contents) /\ d.pointer \in Option(Pointers)
    <3>1. ASSUME NEW S, NEW X, S \subseteq X, AtMostOne(S) PROVE S \in Option(X)
      BY <2>2, <3>1 DEF Option
    <3> QED  BY <2>1, <3>1 DEF Dirs, DirFits
  <2>4. Cardinality(d.goal) <= 1
    <3>1. CASE d.goal = {}
      BY <3>1, FS_EmptySet
    <3>2. ASSUME NEW x, d.goal = {x} PROVE Cardinality(d.goal) <= 1
      <4>1. Cardinality({x}) = 1
        BY FS_Singleton
      <4> QED  BY <3>2, <4>1
    <3> QED  BY <2>1, <2>2, <3>1, <3>2 DEF DirFits
  <2> QED  BY <2>1, <2>3, <2>4 DEF Dirs, DirFits, d
<1>2. \A i \in DOMAIN todo : todo[i].r \in Repos /\ todo[i].n \in Names
  BY DEF TaskIInv, ToDoFits, FileFits, ToDo, ToSet
<1> QED  BY <1>1, <1>2 DEF TasksTypeOK, TaskIInv, DirTypes

LEMMA ListsFollow ==
  ASSUME TaskIInv PROVE PointedAreListed /\ ListsShowEveryText
<1>1. PointedAreListed
  <2> SUFFICES ASSUME Idle, NEW p \in Projects, NEW n \in Names, NEW x \in dir[p][n].pointer,
                      x.to \notin broken, NEW g \in dir[External][x.to].goal
               PROVE  \E i \in DOMAIN g.deps : g.deps[i][1] = p
    BY DEF PointedAreListed
  <2>1. InList(<<p, n>>, x.to)
    BY NothingToDo DEF TaskIInv, PointersFit
  <2>2. <<p, n>> \in ToSet(g.deps)
    BY <2>1 DEF InList
  <2>3. PICK i \in DOMAIN g.deps : g.deps[i] = <<p, n>>
    BY <2>2 DEF ToSet
  <2> QED  BY <2>3
<1>2. ListsShowEveryText
  <2> SUFFICES ASSUME NEW r \in mounted, NEW n \in Names, HasGoal(r, n) PROVE n \in TaskList[r]
    BY DEF ListsShowEveryText
  <2>1. r \in Repos
    BY DEF TaskIInv, DirTypes
  <2>2. Has(r, n)
    BY <2>1, DirIs DEF TaskIInv, Has, HasGoal
  <2> QED  BY <2>2 DEF TaskList, LocalList, IsPointer
<1> QED  BY <1>1, <1>2

\* In every task, between two commands and in the middle of one: who points at an artifact
\* is in its list, and no text drops out of the task's lists (task/, chunk_demote.py).
THEOREM TasksCorrect == TaskSpec => []TasksInv
<1>1. TaskIInv => TasksInv
  BY TypesFollow, ListsFollow DEF TasksInv
<1> QED  BY <1>1, TaskIInvAlways, PTL

\* Only a step changes a directory.
LEMMA OnlySteps ==
  ASSUME TaskIInv, [TaskNext]_taskVars, dir' # dir
  PROVE  Step /\ Takes(Head(todo))
<1>1. Step
  BY DEF TaskNext, taskVars, CreateTaskChunk, CreateTaskNarrative, CreateTaskInvestigation, CreateTaskSubsystem,
         CreateTaskArtifact, CreateLocal, Promote, CopyAsExternal, RemoveFromExternal, DemoteArtifact, CompleteChunk,
         DemoteChunk, Run, Fail, Kill, Stopped, Mount
<1> QED  BY <1>1, StepsTaken

\* The removal of the source is the last step.
LEMMA RemovalIsLast ==
  ASSUME NEW f, Takes(f), f.do = "removeTree"
  PROVE  /\ f.r = External /\ dir'[External][f.n].goal = {}
         /\ \A do, r, n : Pending(do, r, n) => do = "removeTree"
         /\ \E p \in Projects : Demoting(f.n, p)
<1>1. ToDo = {f} /\ RemoveFits(f) /\ FileFits(f) /\ Effect(f, dir[f.r][f.n], dir'[f.r][f.n])
  BY DEF Takes, TaskIInv, StepsFit, ToDoFits, After
<1>2. f.r = External
  BY <1>1 DEF FileFits, AtExternal
<1> QED  BY <1>1, <1>2 DEF RemoveFits, Pending, Effect

LEMMA TextsSurvive ==
  ASSUME TaskIInv, [TaskNext]_taskVars, NEW id \in Contents, Extant(id), ~Extant(id)'
  PROVE  LET f == Head(todo)
         IN  \/ /\ f.do = "copyGoal"
                /\ Goal(f.r, f.n).id = id /\ Goal(External, f.n).id # id
             \/ /\ f.do = "removeTree"
                /\ \E p \in Projects : \E g \in dir[p][f.n].goal : g.id # id
<1> DEFINE f == Head(todo)
<1>1. Takes(f)
  <2>1. dir' # dir
    BY DEF Extant
  <2> QED  BY <2>1, OnlySteps
<1> HIDE DEF f
<1>2. PICK r \in Repos, n \in Names : id \in Ids(r, n)
  BY DEF Extant, Ids, IdsOf
<1>3. \A s \in Repos, m \in Names : id \notin Ids(s, m)'
  BY DEF Extant, Ids, IdsOf
<1>4. /\ f \in ToDo /\ f.r \in Repos /\ f.n \in Names /\ External \in Repos /\ External \notin Projects
      /\ DirTypes /\ ToDoFits /\ FileFits(f) /\ FillFits(f) /\ EmptyFits(f) /\ (\A g \in ToDo' : After(f, g)) /\ ToDo = {f} \union ToDo'
      /\ Effect(f, dir[f.r][f.n], dir'[f.r][f.n])
  BY <1>1, TaskConfig DEF Takes, TaskIInv, ToDoFits, StepsFit, FileFits, Repos
<1>5. f.r = r /\ f.n = n /\ f.do \in {"make", "copyTree", "copyGoal", "empty", "removeTree"}
  BY <1>1, <1>2, <1>3, IdsMove
<1>6. f.do \notin {"make", "copyTree"}
  BY <1>2, <1>4, <1>5 DEF FillFits, Ids, IdsOf, NoDir
<1>7. CASE f.do = "empty"
  <2>1. ~\E c \in ToDo : c.do = "copyTree"
    BY <1>4, <1>7 DEF After, First
  <2>2. PICK m \in Names : id \in Ids(External, m)
    BY <1>2, <1>4, <1>5, <1>7, <2>1 DEF EmptyFits
  <2>3. id \in Ids(External, m)'
    BY <1>1, <1>7, <2>2, ExternalStays
  <2> QED  BY <1>3, <1>4, <2>3
<1>8. CASE f.do = "copyGoal"
  <2>1. HasGoal(f.r, f.n) /\ Goal(f.r, f.n).id = id
    <3>1. HasGoal(r, n)
      BY <1>2 DEF Ids, IdsOf, HasGoal
    <3> QED  BY <1>2, <1>4, <1>5, <3>1, GoalIs DEF Ids, IdsOf
  <2>2. HasGoal(External, f.n) /\ dir'[r][n].goal = dir[External][n].goal
    <3>1. dir'[r][n].goal = IF HasGoal(External, n) THEN dir[External][n].goal ELSE dir[r][n].goal
      BY <1>4, <1>5, <1>8 DEF Effect
    <3> QED  BY <1>2, <1>3, <1>5, <3>1 DEF Ids, IdsOf
  <2>3. Goal(External, f.n).id # id
    <3>1. Goal(External, n) \in dir'[r][n].goal
      BY <1>4, <1>5, <2>2, GoalIs
    <3>2. id \notin Ids(r, n)'
      BY <1>3
    <3> QED  BY <1>5, <3>1, <3>2 DEF Ids, IdsOf
  <2> QED  BY <1>8, <2>1, <2>3 DEF f
<1>9. CASE f.do = "removeTree"
  <2>1. PICK p \in Projects : Demoting(f.n, p)
    BY <1>1, <1>9, RemovalIsLast
  <2>2. f.r = External /\ \A do, s, m : Pending(do, s, m) => do = "removeTree"
    BY <1>1, <1>9, RemovalIsLast
  <2>3. dir[p][n].goal # {}
    <3>1. dir[External][n].goal # {}
      BY <1>2, <1>5, <2>2 DEF Ids, IdsOf
    <3>2. ~Pending("copyGoal", p, n)
      BY <2>2
    <3> QED  BY <1>5, <2>1, <3>1, <3>2 DEF Demoting
  <2>4. PICK g \in dir[p][n].goal : TRUE
    BY <2>3
  <2>5. g.id # id
    <3>1. p \in Repos /\ p # External
      BY <1>4 DEF Repos
    <3>2. Ids(p, n)' = Ids(p, n)
      BY <1>1, <1>2, <2>2, <3>1, IdsMove
    <3> QED  BY <1>2, <1>3, <2>4, <3>1, <3>2 DEF Ids, IdsOf
  <2> QED  BY <1>5, <1>9, <2>4, <2>5 DEF f
<1> QED  BY <1>5, <1>6, <1>7, <1>8, <1>9

LEMMA DemotionIsComplete ==
  ASSUME TaskIInv, [TaskNext]_taskVars, NEW n \in Names, NEW p \in mounted \ {External}, Removes(n), dir' # dir
  PROVE  /\ HasGoal(p, n)' \/ ~HasPointer(p, n)'
         /\ \A g \in dir'[p][n].goal : g.id \in {h.id : h \in dir[External][n].goal} =>
              /\ \A x \in dir'[p][n].pointer : x.for # g.id
              /\ g.deps = <<>> /\ p \notin g.code
<1> DEFINE f == Head(todo)
<1>1. Takes(f) /\ f.do = "removeTree" /\ f.n = n
  BY OnlySteps DEF Removes
<1> HIDE DEF f
<1>2. f.r = External /\ \A do, s, m : Pending(do, s, m) => do = "removeTree"
  BY <1>1, RemovalIsLast
<1>3. PICK t \in Projects : Demoting(n, t)
  BY <1>1, RemovalIsLast
<1>4. p \in Projects /\ p \in Repos /\ p \in Projects \intersect mounted
  BY DEF TaskIInv, DirTypes, Repos
<1>5. dir'[p][n] = dir[p][n]
  BY <1>1, <1>2, <1>4, IdsMove
<1>6. \A x \in dir[p][n].pointer : x.for \notin Ids(p, n)
  BY <1>4 DEF TaskIInv, PointersFit
<1>7. \A x \in dir[p][n].pointer : \A g \in dir[p][n].goal : x.for # g.id
  BY <1>6 DEF Ids, IdsOf
<1>8. CASE p = t
  <2>1. /\ dir[p][n].goal # {} \/ dir[p][n].pointer = {}
        /\ \A g \in dir[p][n].goal : g.deps = <<>> /\ p \notin g.code
    BY <1>2, <1>3, <1>8 DEF Demoting
  <2> QED  BY <1>5, <1>7, <2>1 DEF HasGoal, HasPointer
<1>9. CASE p # t
  <2>1. dir[p][n].goal = {} /\ dir[p][n].pointer = {}
    BY <1>2, <1>3, <1>4, <1>9 DEF Demoting
  <2> QED  BY <1>5, <2>1 DEF HasGoal, HasPointer
<1> QED  BY <1>8, <1>9

LEMMA ReferenceIsKept ==
  ASSUME TaskIInv, [TaskNext]_taskVars, NEW p \in Projects, NEW n \in Names,
         ResolvedText(p, n) # {}, IsPointer(p, n)', dir'[p][n].pointer = dir[p][n].pointer, mounted' = mounted
  PROVE  \/ ResolvedText(p, n)' = ResolvedText(p, n)
         \/ Head(todo).do = "removeTree" /\ Target(p, n) # n
<1>1. IsPointer(p, n) /\ {p, External} \subseteq mounted /\ HasPointer(p, n)
  BY DEF ResolvedText, Resolved, IsPointer
<1>2. PICK m \in Names : m = Target(p, n) /\ \A x \in dir[p][n].pointer : x.to = m
  BY <1>1, PointerIs DEF TaskIInv, Repos
<1>3. dir[p][n].pointer # {} /\ dir'[p][n].pointer # {} /\ \A x \in dir'[p][n].pointer : x.to = m
  BY <1>1, <1>2 DEF HasPointer
<1>4. ResolvedText(p, n) = Ids(External, m)
  <2>1. Resolved(p, n) = dir[External][m].goal
    BY <1>1, <1>2, <1>3 DEF Resolved
  <2> QED  BY <2>1 DEF ResolvedText, Ids, IdsOf
<1>5. ResolvedText(p, n)' = Ids(External, m)'
  <2>1. Resolved(p, n)' = dir'[External][m].goal
    BY <1>1, <1>3 DEF Resolved
  <2> QED  BY <2>1 DEF ResolvedText, Ids, IdsOf
<1>6. CASE dir' = dir
  BY <1>4, <1>5, <1>6 DEF Ids
<1>7. CASE dir' # dir
  <2> DEFINE f == Head(todo)
  <2>1. Takes(f)
    BY <1>7, OnlySteps
  <2> HIDE DEF f
  <2>2. External \in Repos /\ External \notin Projects /\ FileFits(f) /\ FillFits(f)
    BY <2>1, TaskConfig DEF Takes, TaskIInv, ToDoFits, StepsFit, Repos
  <2>3. CASE Ids(External, m)' # Ids(External, m)
    <3>1. f.r = External /\ f.n = m /\ f.do \in {"make", "copyTree", "copyGoal", "empty", "removeTree"}
      BY <2>1, <2>2, <2>3, IdsMove
    <3>2. f.do \notin {"copyGoal", "empty"}
      BY <2>2, <3>1 DEF FileFits, AtProject
    <3>3. f.do \notin {"make", "copyTree"}
      BY <1>4, <2>2, <3>1 DEF FillFits, Ids, IdsOf, NoDir
    <3>4. f.do = "removeTree"
      BY <3>1, <3>2, <3>3
    <3>5. m # n
      <4> SUFFICES ASSUME m = n PROVE FALSE
        OBVIOUS
      <4>1. PICK t \in Projects : Demoting(n, t)
        BY <2>1, <3>1, <3>4, RemovalIsLast
      <4>2. \A do, s, k : Pending(do, s, k) => do = "removeTree"
        BY <2>1, <3>4, RemovalIsLast
      <4>3. dir[p][n].goal = {} /\ dir[p][n].pointer # {} /\ p \in Projects \intersect mounted
        BY <1>1, <1>3 DEF IsPointer, HasGoal
      <4> QED  BY <4>1, <4>2, <4>3 DEF Demoting
    <3> QED  BY <1>2, <3>4, <3>5 DEF f
  <2> QED  BY <1>4, <1>5, <2>3
<1> QED  BY <1>6, <1>7

\* Whatever command runs, however it is interrupted: a text is lost by a collision of two
\* names only, a demotion that ends is complete, and a reference goes on showing the
\* artifact it showed (task/promote.py, task/demote.py, chunk_demote.py).
THEOREM TextsAlwaysKept == TaskSpec => TextsKept
<1>1. TaskIInv /\ [TaskNext]_taskVars =>
        [\A id \in Contents : Extant(id) /\ ~Extant(id)' =>
           LET f == Head(todo)
           IN  \/ /\ f.do = "copyGoal"
                  /\ Goal(f.r, f.n).id = id /\ Goal(External, f.n).id # id
               \/ /\ f.do = "removeTree"
                  /\ \E p \in Projects : \E g \in dir[p][f.n].goal : g.id # id]_taskVars
  BY TextsSurvive
<1>2. TaskIInv /\ [TaskNext]_taskVars =>
        [\A n \in Names, p \in mounted \ {External} : (Removes(n) /\ dir' # dir) =>
           /\ HasGoal(p, n)' \/ ~HasPointer(p, n)'
           /\ \A g \in dir'[p][n].goal : g.id \in {h.id : h \in dir[External][n].goal} =>
                /\ \A x \in dir'[p][n].pointer : x.for # g.id
                /\ g.deps = <<>> /\ p \notin g.code]_taskVars
  BY DemotionIsComplete
<1>3. TaskIInv /\ [TaskNext]_taskVars =>
        [\A p \in Projects, n \in Names :
           (/\ ResolvedText(p, n) # {}
            /\ IsPointer(p, n)' /\ dir'[p][n].pointer = dir[p][n].pointer
            /\ mounted' = mounted) =>
           \/ ResolvedText(p, n)' = ResolvedText(p, n)
           \/ Head(todo).do = "removeTree" /\ Target(p, n) # n]_taskVars
  BY ReferenceIsKept
<1> QED  BY <1>1, <1>2, <1>3, TaskIInvAlways, PTL
            DEF TaskSpec, TextsKept, TextLostOnlyByCollision, DemotionCompletes, ReferencesKeepTheirArtifact

-----------------------------------------------------------------------------
(* Batches: the order. *)

LEMMA EveryTurn ==
  ASSUME NEW n \in Nat, NEW I, 0 \in I, \A k \in 1..n : k - 1 \in I => k \in I
  PROVE  \A k \in 0..n : k \in I
<1> DEFINE B == {k \in 0..n : k \notin I}
<1> SUFFICES ASSUME B # {} PROVE FALSE
  OBVIOUS
<1>1. PICK m \in B : \A k \in B : m =< k
  <2>1. B \in SUBSET Nat
    OBVIOUS
  <2> QED  BY <2>1, HasLeast
<1>2. m \in 1..n /\ m - 1 \in 0..n /\ m - 1 \notin B
  BY <1>1
<1> QED  BY <1>1, <1>2

IsRun(arguments, depends, f, n) ==
  f = [k \in 0..n |-> IF k = 0 THEN Start(arguments, depends)
                      ELSE IF f[k - 1].queue = {} THEN f[k - 1]
                      ELSE TakeFirst(arguments, depends, f[k - 1])]

Turn(arguments, depends, st) ==
  IF st.queue = {} THEN st ELSE TakeFirst(arguments, depends, st)

LEMMA RunIs ==
  ASSUME NEW arguments, NEW depends, NEW f, NEW n \in Nat
  PROVE  IsRun(arguments, depends, f, n) <=>
           /\ f = [k \in 0..n |-> f[k]]
           /\ f[0] = Start(arguments, depends)
           /\ \A k \in 1..n : f[k] = Turn(arguments, depends, f[k - 1])
<1> DEFINE e(k) == IF k = 0 THEN Start(arguments, depends) ELSE Turn(arguments, depends, f[k - 1])
<1>1. IsRun(arguments, depends, f, n) <=> f = [k \in 0..n |-> e(k)]
  BY DEF IsRun, Turn
<1>2. f = [k \in 0..n |-> e(k)] <=> f = [k \in 0..n |-> f[k]] /\ \A k \in 0..n : f[k] = e(k)
  <2> HIDE DEF e
  <2> QED  OBVIOUS
<1>3. (\A k \in 0..n : f[k] = e(k)) <=>
        f[0] = Start(arguments, depends) /\ \A k \in 1..n : f[k] = Turn(arguments, depends, f[k - 1])
  OBVIOUS
<1> HIDE DEF e
<1> QED  BY <1>1, <1>2, <1>3

LEMMA RunExists ==
  ASSUME NEW arguments \in Seq(ChunkIds), NEW depends
  PROVE  \E f : IsRun(arguments, depends, f, Len(arguments))
<1> DEFINE n == Len(arguments)
           I == {k \in 0..n : \E f : IsRun(arguments, depends, f, k)}
<1>1. 0 \in I
  <2> DEFINE f == [k \in 0..0 |-> Start(arguments, depends)]
  <2>1. /\ f = [k \in 0..0 |-> f[k]]
        /\ f[0] = Start(arguments, depends)
        /\ \A k \in 1..0 : f[k] = Turn(arguments, depends, f[k - 1])
    OBVIOUS
  <2> HIDE DEF f
  <2>2. IsRun(arguments, depends, f, 0)
    BY <2>1, RunIs
  <2> QED  BY <2>2
<1>2. ASSUME NEW k \in 1..n, k - 1 \in I PROVE k \in I
  <2>1. PICK f : IsRun(arguments, depends, f, k - 1)
    BY <1>2
  <2>2. f[0] = Start(arguments, depends) /\ \A j \in 1..(k - 1) : f[j] = Turn(arguments, depends, f[j - 1])
    BY <2>1, RunIs
  <2> DEFINE g == [j \in 0..k |-> IF j = k THEN Turn(arguments, depends, f[k - 1]) ELSE f[j]]
  <2>3. /\ g = [j \in 0..k |-> g[j]]
        /\ g[0] = Start(arguments, depends)
        /\ \A j \in 1..k : g[j] = Turn(arguments, depends, g[j - 1])
    BY <2>2
  <2> HIDE DEF g
  <2>4. IsRun(arguments, depends, g, k)
    BY <2>3, RunIs
  <2> QED  BY <2>4
<1>4. n \in Nat
  OBVIOUS
<1> HIDE DEF I
<1>3. \A k \in 0..n : k \in I
  BY <1>1, <1>2, <1>4, EveryTurn
<1> QED  BY <1>3, <1>4 DEF I

\* What the loop does, turn by turn.
LEMMA TurnsOfLoop ==
  ASSUME NEW arguments \in Seq(ChunkIds), NEW depends
  PROVE  LET Loop == Kahn(arguments, depends)
         IN  /\ Loop[0] = Start(arguments, depends)
             /\ \A k \in 1..Len(arguments) :
                  Loop[k] = Turn(arguments, depends, Loop[k - 1])
<1>1. PICK f : IsRun(arguments, depends, f, Len(arguments))
  BY RunExists
<1>2. IsRun(arguments, depends, Kahn(arguments, depends), Len(arguments))
  BY <1>1 DEF Kahn, IsRun
<1> QED  BY <1>2, RunIs

Depends(arguments) == [ToSet(arguments) -> Declarations]
Taken(arguments, st) == {arguments[i] : i \in ToSet(st.result)}
Left(arguments, depends, c, st) ==
  {i \in Within(arguments, depends, c) : Declared(depends, c)[i] \notin Taken(arguments, st)}

LoopTypes(arguments, depends, st) ==
  /\ st.degree \in [ToSet(arguments) -> Int]
  /\ st.queue \subseteq DOMAIN arguments
  /\ st.result \in Seq(DOMAIN arguments)

\* A place is queued or taken once.
LoopPlaces(arguments, depends, st) ==
  /\ IsInjective(st.result)
  /\ ToSet(st.result) \intersect st.queue = {}
  /\ \A i \in DOMAIN arguments :
       st.degree[arguments[i]] > 0 => i \notin st.queue /\ i \notin ToSet(st.result)

\* If no chunk is given twice, what is queued or taken has no dependency left.
LoopOrder(arguments, depends, st) ==
  /\ \A c \in ToSet(arguments) : Cardinality(Left(arguments, depends, c, st)) <= st.degree[c]
  /\ \A i \in st.queue : st.degree[arguments[i]] <= 0
  /\ \A k \in DOMAIN st.result : \A e \in Within(arguments, depends, arguments[st.result[k]]) :
       \E j \in 1..(k - 1) : arguments[st.result[j]] = Declared(depends, arguments[st.result[k]])[e]

\* What has none left is queued or taken.
LoopComplete(arguments, depends, st) ==
  /\ \A c \in ToSet(arguments) : IsInjective(Declared(depends, c)) =>
       st.degree[c] <= Cardinality(Left(arguments, depends, c, st))
  /\ \A i \in DOMAIN arguments :
       st.degree[arguments[i]] <= 0 => i \in st.queue \/ i \in ToSet(st.result)

LoopInv(arguments, depends, st) ==
  /\ LoopTypes(arguments, depends, st)
  /\ LoopPlaces(arguments, depends, st)
  /\ IsInjective(arguments) => LoopOrder(arguments, depends, st) /\ LoopComplete(arguments, depends, st)

LEMMA DeclaredIs ==
  ASSUME NEW arguments \in Seq(ChunkIds), NEW depends \in Depends(arguments), NEW c \in ToSet(arguments)
  PROVE  /\ Declared(depends, c) \in Seq(ChunkIds)
         /\ IsFiniteSet(DOMAIN Declared(depends, c))
         /\ DOMAIN Declared(depends, c) \subseteq Nat
<1>1. Declared(depends, c) \in Seq(ChunkIds)
  <2>1. depends[c] \in Seq(ChunkIds) \union {Unknown}
    BY BatchBounds DEF Depends, Unknown
  <2>2. CASE depends[c] = Unknown
    <3>1. Declared(depends, c) = <<>>
      BY <2>2 DEF Declared
    <3> QED  BY <3>1
  <2>3. CASE depends[c] # Unknown
    BY <2>1, <2>3 DEF Declared
  <2> QED  BY <2>2, <2>3
<1>2. DOMAIN Declared(depends, c) = 1..Len(Declared(depends, c)) /\ Len(Declared(depends, c)) \in Nat
  BY <1>1
<1>3. IsFiniteSet(1..Len(Declared(depends, c)))
  BY <1>2, FS_Interval
<1> QED  BY <1>1, <1>2, <1>3

LEMMA EntriesFinite ==
  ASSUME NEW arguments \in Seq(ChunkIds), NEW depends \in Depends(arguments), NEW c \in ToSet(arguments),
         NEW I \in SUBSET Within(arguments, depends, c)
  PROVE  IsFiniteSet(I) /\ Cardinality(I) \in Nat /\ (Cardinality(I) = 0 <=> I = {})
<1>1. IsFiniteSet(I)
  BY DeclaredIs, FS_Subset DEF Within
<1> QED  BY <1>1, FS_CardinalityType, FS_EmptySet

LEMMA OccurrencesIs ==
  ASSUME NEW s \in Seq(ChunkIds), NEW c
  PROVE  /\ Occurrences(s, c) \in Nat
         /\ Occurrences(s, c) > 0 <=> c \in ToSet(s)
         /\ IsInjective(s) => Occurrences(s, c) <= 1
<1> DEFINE I == {i \in DOMAIN s : s[i] = c}
<1>1. DOMAIN s = 1..Len(s) /\ Len(s) \in Nat
  OBVIOUS
<1>2. IsFiniteSet(I)
  <2>1. IsFiniteSet(1..Len(s))
    BY <1>1, FS_Interval
  <2>2. I \in SUBSET (1..Len(s))
    BY <1>1
  <2> QED  BY <2>1, <2>2, FS_Subset
<1>3. Cardinality(I) \in Nat /\ (Cardinality(I) = 0 <=> I = {})
  BY <1>2, FS_CardinalityType, FS_EmptySet
<1>4. I # {} <=> c \in ToSet(s)
  BY DEF ToSet
<1>5. ASSUME IsInjective(s), I # {} PROVE Cardinality(I) = 1
  <2>1. PICK i \in I : TRUE
    BY <1>5
  <2>2. I = {i}
    BY <1>5, <2>1 DEF IsInjective
  <2> QED  BY <2>2, FS_Singleton
<1> HIDE DEF I
<1>6. Occurrences(s, c) = Cardinality(I)
  BY DEF I, Occurrences
<1> QED  BY <1>3, <1>4, <1>5, <1>6

LEMMA StartIs ==
  ASSUME NEW arguments \in Seq(ChunkIds), NEW depends \in Depends(arguments)
  PROVE  LoopInv(arguments, depends, Start(arguments, depends))
<1> DEFINE st == Start(arguments, depends)
           W(c) == Within(arguments, depends, c)
<1>1. /\ st.degree = InDegree(arguments, depends) /\ st.result = <<>>
      /\ st.queue = {i \in DOMAIN arguments : st.degree[arguments[i]] = 0}
  BY DEF Start
<1>2. \A c \in ToSet(arguments) :
        /\ st.degree[c] = Occurrences(arguments, c) * Cardinality(W(c))
        /\ Occurrences(arguments, c) \in Nat \ {0} /\ Cardinality(W(c)) \in Nat
        /\ IsInjective(arguments) => Occurrences(arguments, c) = 1
        /\ Left(arguments, depends, c, st) = W(c)
  <2> TAKE c \in ToSet(arguments)
  <2>1. Occurrences(arguments, c) \in Nat \ {0} /\ (IsInjective(arguments) => Occurrences(arguments, c) = 1)
    BY OccurrencesIs
  <2>2. Cardinality(W(c)) \in Nat
    BY EntriesFinite
  <2>3. Left(arguments, depends, c, st) = W(c)
    BY <1>1 DEF Left, Taken, ToSet
  <2> QED  BY <1>1, <2>1, <2>2, <2>3 DEF InDegree
<1>3. st.degree \in [ToSet(arguments) -> Nat]
  <2>1. \A c \in ToSet(arguments) : st.degree[c] \in Nat
    BY <1>2
  <2> QED  BY <1>1, <2>1 DEF InDegree
<1> HIDE DEF st
<1>4. \A i \in DOMAIN arguments : arguments[i] \in ToSet(arguments)
  BY DEF ToSet
<1>5. LoopTypes(arguments, depends, st)
  BY <1>1, <1>3 DEF LoopTypes
<1>6. LoopPlaces(arguments, depends, st)
  BY <1>1, <1>3, <1>4 DEF LoopPlaces, IsInjective, ToSet
<1>7. ASSUME IsInjective(arguments) PROVE LoopOrder(arguments, depends, st) /\ LoopComplete(arguments, depends, st)
  <2>1. \A c \in ToSet(arguments) : st.degree[c] = Cardinality(Left(arguments, depends, c, st)) /\ st.degree[c] \in Nat
    BY <1>2, <1>7
  <2> QED  BY <1>1, <1>3, <1>4, <2>1 DEF LoopOrder, LoopComplete
<1> QED  BY <1>5, <1>6, <1>7 DEF LoopInv, st

LEMMA PlaceIs ==
  ASSUME NEW arguments, NEW c \in ToSet(arguments)
  PROVE  /\ Place(arguments, c) \in DOMAIN arguments
         /\ arguments[Place(arguments, c)] = c
BY DEF Place, ToSet

Freed(arguments, st, new) == {c \in ToSet(arguments) : st.degree[c] > 0 /\ new.degree[c] <= 0}

TakesFirst(arguments, depends, st, first, new) ==
  /\ first \in st.queue
  /\ new.degree = [c \in ToSet(arguments) |->
       IF arguments[first] \in ToSet(Declared(depends, c))
         THEN st.degree[c] - Occurrences(arguments, c) ELSE st.degree[c]]
  /\ new.degree \in [ToSet(arguments) -> Int]
  /\ \A c \in ToSet(arguments) : new.degree[c] <= st.degree[c]
  /\ new.result = Append(st.result, first)
  /\ new.queue = (st.queue \ {first}) \union {Place(arguments, c) : c \in Freed(arguments, st, new)}

LEMMA TakeFirstIs ==
  ASSUME NEW arguments \in Seq(ChunkIds), NEW depends \in Depends(arguments), NEW st,
         LoopTypes(arguments, depends, st), st.queue # {}
  PROVE  \E first : TakesFirst(arguments, depends, st, first, TakeFirst(arguments, depends, st))
<1> DEFINE new == TakeFirst(arguments, depends, st)
           first == CHOOSE i \in st.queue : \A j \in st.queue : arguments[i] <= arguments[j]
           V == {arguments[j] : j \in st.queue}
<1>1. first \in st.queue
  <2>1. V \in SUBSET Nat /\ V # {}
    BY BatchBounds DEF LoopTypes
  <2> HIDE DEF V
  <2>2. \E m \in V : \A v \in V : m =< v
    BY <2>1, HasLeast
  <2> QED  BY <2>2 DEF V
<1>2. /\ new.degree = [c \in ToSet(arguments) |->
           IF arguments[first] \in ToSet(Declared(depends, c))
             THEN st.degree[c] - Occurrences(arguments, c) ELSE st.degree[c]]
      /\ new.result = Append(st.result, first)
      /\ new.queue = (st.queue \ {first}) \union {Place(arguments, c) : c \in Freed(arguments, st, new)}
  BY DEF TakeFirst, Freed
<1> HIDE DEF new, first
<1>3. \A c \in ToSet(arguments) : new.degree[c] \in Int /\ new.degree[c] <= st.degree[c]
  <2> TAKE c \in ToSet(arguments)
  <2>1. Occurrences(arguments, c) \in Nat /\ st.degree[c] \in Int
    BY OccurrencesIs DEF LoopTypes
  <2> QED  BY <1>2, <2>1
<1>4. new.degree \in [ToSet(arguments) -> Int]
  BY <1>2, <1>3
<1> QED  BY <1>1, <1>2, <1>3, <1>4 DEF new, TakesFirst

LEMMA AppendIs ==
  ASSUME NEW S, NEW s \in Seq(S), NEW x \in S
  PROVE  LET t == Append(s, x)
         IN  /\ t \in Seq(S) /\ Len(t) = Len(s) + 1 /\ DOMAIN t = 1..(Len(s) + 1) /\ DOMAIN s = 1..Len(s)
             /\ Len(s) \in Nat /\ t[Len(s) + 1] = x /\ \A k \in 1..Len(s) : t[k] = s[k]
             /\ ToSet(t) = ToSet(s) \union {x}
             /\ IsInjective(s) /\ x \notin ToSet(s) => IsInjective(t)
<1> DEFINE t == Append(s, x)
<1>1. /\ t \in Seq(S) /\ Len(t) = Len(s) + 1 /\ DOMAIN t = 1..(Len(s) + 1) /\ DOMAIN s = 1..Len(s)
      /\ Len(s) \in Nat /\ t[Len(s) + 1] = x /\ \A k \in 1..Len(s) : t[k] = s[k]
  OBVIOUS
<1> HIDE DEF t
<1>2. ToSet(t) = ToSet(s) \union {x}
  BY <1>1 DEF ToSet
<1>3. IsInjective(s) /\ x \notin ToSet(s) => IsInjective(t)
  BY <1>1 DEF ToSet, IsInjective
<1> QED  BY <1>1, <1>2, <1>3 DEF t

LEMMA TakeKeepsPlaces ==
  ASSUME NEW arguments \in Seq(ChunkIds), NEW depends \in Depends(arguments), NEW st,
         LoopTypes(arguments, depends, st), LoopPlaces(arguments, depends, st), st.queue # {}
  PROVE  LET new == TakeFirst(arguments, depends, st)
         IN  LoopTypes(arguments, depends, new) /\ LoopPlaces(arguments, depends, new)
<1> DEFINE new == TakeFirst(arguments, depends, st)
           freed == Freed(arguments, st, new)
<1>0. PICK first : TakesFirst(arguments, depends, st, first, new)
  BY TakeFirstIs
<1> HIDE DEF new
<1>1. /\ first \in st.queue
      /\ new.degree \in [ToSet(arguments) -> Int]
      /\ \A c \in ToSet(arguments) : new.degree[c] <= st.degree[c]
      /\ new.result = Append(st.result, first)
      /\ new.queue = (st.queue \ {first}) \union {Place(arguments, c) : c \in freed}
  BY <1>0 DEF TakesFirst
<1>2. \A i \in DOMAIN arguments : arguments[i] \in ToSet(arguments)
  BY DEF ToSet
<1>3. \A c \in freed : /\ c \in ToSet(arguments) /\ st.degree[c] > 0 /\ new.degree[c] <= 0
                        /\ Place(arguments, c) \in DOMAIN arguments /\ arguments[Place(arguments, c)] = c
  BY PlaceIs DEF Freed
<1> HIDE DEF freed
<1>4. /\ st.result \in Seq(DOMAIN arguments) /\ first \in DOMAIN arguments
      /\ first \notin ToSet(st.result) /\ IsInjective(st.result)
      /\ st.degree \in [ToSet(arguments) -> Int]
  BY <1>1 DEF LoopTypes, LoopPlaces
<1>5. /\ new.result \in Seq(DOMAIN arguments) /\ IsInjective(new.result)
      /\ ToSet(new.result) = ToSet(st.result) \union {first}
  BY <1>1, <1>4, AppendIs
<1>6. LoopTypes(arguments, depends, new)
  BY <1>1, <1>3, <1>5 DEF LoopTypes
<1>7. \A c \in freed : Place(arguments, c) \notin st.queue /\ Place(arguments, c) \notin ToSet(st.result)
  BY <1>3 DEF LoopPlaces
<1>8. ToSet(new.result) \intersect new.queue = {}
  BY <1>1, <1>5, <1>7 DEF LoopPlaces
<1>9. ASSUME NEW i \in DOMAIN arguments, new.degree[arguments[i]] > 0
      PROVE  i \notin new.queue /\ i \notin ToSet(new.result)
  <2>1. st.degree[arguments[i]] > 0
    BY <1>1, <1>2, <1>4, <1>9
  <2>2. i \notin st.queue /\ i \notin ToSet(st.result)
    BY <2>1 DEF LoopPlaces
  <2>3. \A c \in freed : Place(arguments, c) # i
    BY <1>1, <1>3, <1>9
  <2> QED  BY <1>1, <1>5, <2>2, <2>3
<1> QED  BY <1>5, <1>6, <1>8, <1>9 DEF LoopPlaces, new

LEMMA TakeKeepsOrder ==
  ASSUME NEW arguments \in Seq(ChunkIds), NEW depends \in Depends(arguments), NEW st,
         LoopInv(arguments, depends, st), IsInjective(arguments), st.queue # {}
  PROVE  LET new == TakeFirst(arguments, depends, st)
         IN  LoopOrder(arguments, depends, new) /\ LoopComplete(arguments, depends, new)
<1> DEFINE new == TakeFirst(arguments, depends, st)
           freed == Freed(arguments, st, new)
           L(c, s) == Left(arguments, depends, c, s)
           W(c) == Within(arguments, depends, c)
<1>0. LoopTypes(arguments, depends, st) /\ LoopPlaces(arguments, depends, st)
      /\ LoopOrder(arguments, depends, st) /\ LoopComplete(arguments, depends, st)
  BY DEF LoopInv
<1>1. PICK first : TakesFirst(arguments, depends, st, first, new)
  BY <1>0, TakeFirstIs
<1>2. LoopTypes(arguments, depends, new) /\ LoopPlaces(arguments, depends, new)
  BY <1>0, TakeKeepsPlaces
<1> HIDE DEF new
<1> DEFINE e == arguments[first]
<1>3. /\ first \in st.queue /\ first \in DOMAIN arguments /\ first \notin ToSet(st.result)
      /\ e \in ToSet(arguments) /\ st.result \in Seq(DOMAIN arguments)
      /\ new.result = Append(st.result, first) /\ ToSet(new.result) = ToSet(st.result) \union {first}
      /\ new.queue = (st.queue \ {first}) \union {Place(arguments, c) : c \in freed}
  <2>1. /\ first \in st.queue /\ first \in DOMAIN arguments /\ first \notin ToSet(st.result)
        /\ st.result \in Seq(DOMAIN arguments)
    BY <1>0, <1>1 DEF LoopTypes, LoopPlaces, TakesFirst
  <2>2. e \in ToSet(arguments)
    BY <2>1 DEF ToSet
  <2> QED  BY <1>1, <2>1, <2>2, AppendIs DEF TakesFirst
<1>4. Taken(arguments, new) = Taken(arguments, st) \union {e} /\ e \notin Taken(arguments, st)
  <2>1. ToSet(st.result) \subseteq DOMAIN arguments
    BY <1>3 DEF ToSet
  <2> QED  BY <1>3, <2>1 DEF Taken, IsInjective
<1>5. ASSUME NEW c \in ToSet(arguments)
      PROVE  /\ new.degree[c] \in Int /\ st.degree[c] \in Int /\ new.degree[c] <= st.degree[c]
             /\ Cardinality(L(c, st)) <= st.degree[c] => Cardinality(L(c, new)) <= new.degree[c]
             /\ IsInjective(Declared(depends, c)) /\ st.degree[c] <= Cardinality(L(c, st)) =>
                  new.degree[c] <= Cardinality(L(c, new))
  <2>1. L(c, st) \subseteq W(c) /\ L(c, new) = {i \in L(c, st) : Declared(depends, c)[i] # e}
    BY <1>4 DEF Left
  <2>2. st.degree[c] \in Int /\ new.degree[c] \in Int /\ new.degree[c] <= st.degree[c]
    BY <1>0, <1>1 DEF LoopTypes, TakesFirst
  <2>3. IsFiniteSet(L(c, st)) /\ Cardinality(L(c, st)) \in Nat
    BY <2>1, EntriesFinite
  <2>4. CASE e \notin ToSet(Declared(depends, c))
    <3>1. L(c, new) = L(c, st)
      BY <2>1, <2>4 DEF Left, Within, ToSet
    <3>2. new.degree[c] = st.degree[c]
      BY <1>1, <2>4 DEF TakesFirst
    <3> QED  BY <2>2, <3>1, <3>2
  <2>5. CASE e \in ToSet(Declared(depends, c))
    <3>1. new.degree[c] = st.degree[c] - 1
      <4>1. Occurrences(arguments, c) = 1
        BY OccurrencesIs
      <4> QED  BY <1>1, <2>5, <4>1 DEF TakesFirst
    <3>2. PICK i \in DOMAIN Declared(depends, c) : Declared(depends, c)[i] = e
      BY <2>5 DEF ToSet
    <3>3. i \in L(c, st)
      BY <1>3, <1>4, <3>2 DEF Left, Within
    <3>4. IsFiniteSet(L(c, st) \ {i}) /\ Cardinality(L(c, st) \ {i}) = Cardinality(L(c, st)) - 1
      BY <2>3, <3>3, FS_RemoveElement
    <3>5. L(c, new) \subseteq L(c, st) \ {i}
      BY <2>1, <3>2
    <3>6. Cardinality(L(c, new)) <= Cardinality(L(c, st)) - 1 /\ Cardinality(L(c, new)) \in Nat
      <4>1. L(c, new) \subseteq W(c)
        BY <2>1
      <4> QED  BY <3>4, <3>5, <4>1, FS_Subset, EntriesFinite
    <3>7. IsInjective(Declared(depends, c)) => L(c, new) = L(c, st) \ {i}
      BY <2>1, <3>2 DEF IsInjective, Left, Within
    <3>8. IsInjective(Declared(depends, c)) => Cardinality(L(c, new)) = Cardinality(L(c, st)) - 1
      BY <3>4, <3>7
    <3> HIDE DEF L
    <3> QED  BY <2>2, <2>3, <3>1, <3>6, <3>8
  <2> QED  BY <2>4, <2>5
<1>6. \A c \in freed : /\ c \in ToSet(arguments) /\ st.degree[c] > 0 /\ new.degree[c] <= 0
                       /\ Place(arguments, c) \in DOMAIN arguments /\ arguments[Place(arguments, c)] = c
  BY PlaceIs DEF Freed
<1>7. \A c \in ToSet(arguments) : st.degree[c] > 0 /\ new.degree[c] <= 0 => c \in freed
  BY DEF Freed
<1> HIDE DEF freed
<1>8. \A i \in DOMAIN arguments : arguments[i] \in ToSet(arguments)
  BY DEF ToSet
<1>9. \A i \in new.queue : new.degree[arguments[i]] <= 0
  <2> TAKE i \in new.queue
  <2>1. CASE i \in st.queue
    <3>1. i \in DOMAIN arguments /\ st.degree[arguments[i]] <= 0
      BY <1>0, <2>1 DEF LoopTypes, LoopOrder
    <3> QED  BY <1>5, <1>8, <3>1
  <2>2. CASE i \notin st.queue
    BY <1>3, <1>6, <2>2
  <2> QED  BY <2>1, <2>2
<1>10. ASSUME NEW k \in DOMAIN new.result, NEW d \in W(arguments[new.result[k]])
       PROVE  \E j \in 1..(k - 1) : arguments[new.result[j]] = Declared(depends, arguments[new.result[k]])[d]
  <2> DEFINE n == Len(st.result)
  <2>1. /\ n \in Nat /\ DOMAIN st.result = 1..n /\ DOMAIN new.result = 1..(n + 1)
        /\ new.result[n + 1] = first /\ \A j \in 1..n : new.result[j] = st.result[j]
    BY <1>3, AppendIs
  <2> HIDE DEF n
  <2>2. CASE k \in 1..n
    <3>1. \E j \in 1..(k - 1) : arguments[st.result[j]] = Declared(depends, arguments[st.result[k]])[d]
      BY <1>0, <1>10, <2>1, <2>2 DEF LoopOrder
    <3>2. new.result[k] = st.result[k] /\ \A j \in 1..(k - 1) : new.result[j] = st.result[j]
      BY <2>1, <2>2
    <3> QED  BY <3>1, <3>2
  <2>3. CASE k = n + 1
    <3>1. new.result[k] = first /\ d \in W(e)
      BY <1>10, <2>1, <2>3
    <3>2. L(e, st) = {}
      <4>1. st.degree[e] <= 0 /\ Cardinality(L(e, st)) <= st.degree[e] /\ st.degree[e] \in Int
        BY <1>0, <1>3 DEF LoopOrder, LoopTypes
      <4>2. Cardinality(L(e, st)) \in Nat /\ (Cardinality(L(e, st)) = 0 <=> L(e, st) = {})
        BY <1>3, EntriesFinite DEF Left
      <4> QED  BY <4>1, <4>2
    <3>3. Declared(depends, e)[d] \in Taken(arguments, st)
      BY <3>1, <3>2 DEF Left
    <3>4. PICK j \in 1..n : arguments[st.result[j]] = Declared(depends, e)[d]
      BY <2>1, <3>3 DEF Taken, ToSet
    <3>5. arguments[new.result[j]] = Declared(depends, arguments[new.result[k]])[d] /\ j \in 1..(k - 1)
      BY <2>1, <2>3, <3>1, <3>4
    <3> QED  BY <3>5
  <2> QED  BY <1>10, <2>1, <2>2, <2>3
<1>11. ASSUME NEW i \in DOMAIN arguments, new.degree[arguments[i]] <= 0
       PROVE  i \in new.queue \/ i \in ToSet(new.result)
  <2>1. CASE st.degree[arguments[i]] <= 0
    BY <1>0, <1>3, <2>1 DEF LoopComplete
  <2>2. CASE ~(st.degree[arguments[i]] <= 0)
    <3>1. arguments[i] \in freed
      BY <1>5, <1>7, <1>8, <1>11, <2>2
    <3>2. Place(arguments, arguments[i]) = i
      BY <1>6, <3>1 DEF IsInjective
    <3> QED  BY <1>3, <3>1, <3>2
  <2> QED  BY <2>1, <2>2
<1>12. \A c \in ToSet(arguments) :
         /\ Cardinality(L(c, new)) <= new.degree[c]
         /\ IsInjective(Declared(depends, c)) => new.degree[c] <= Cardinality(L(c, new))
  BY <1>0, <1>5 DEF LoopOrder, LoopComplete
<1> QED  BY <1>9, <1>10, <1>11, <1>12 DEF LoopOrder, LoopComplete, new

LEMMA LoopCorrect ==
  ASSUME NEW arguments \in Seq(ChunkIds), NEW depends \in Depends(arguments)
  PROVE  LET st == Kahn(arguments, depends)[Len(arguments)]
         IN  LoopInv(arguments, depends, st) /\ (st.queue = {} \/ Len(st.result) = Len(arguments))
<1> DEFINE n == Len(arguments)
           Loop == Kahn(arguments, depends)
           Good(k) == LoopInv(arguments, depends, Loop[k]) /\ (Loop[k].queue = {} \/ Len(Loop[k].result) = k)
           I == {k \in 0..n : Good(k)}
<1>1. n \in Nat
  OBVIOUS
<1>2. Good(0)
  <2>1. Loop[0] = Start(arguments, depends)
    BY TurnsOfLoop
  <2>2. LoopInv(arguments, depends, Start(arguments, depends))
    BY StartIs
  <2>3. Start(arguments, depends).result = <<>>
    BY DEF Start
  <2> QED  BY <2>1, <2>2, <2>3
<1>3. ASSUME NEW k \in 1..n, Good(k - 1) PROVE Good(k)
  <2>1. Loop[k] = Turn(arguments, depends, Loop[k - 1])
    BY TurnsOfLoop
  <2> DEFINE old == Loop[k - 1]
             new == Loop[k]
  <2>2. CASE old.queue = {}
    BY <1>3, <2>1, <2>2 DEF Turn
  <2>3. CASE old.queue # {}
    <3>1. new = TakeFirst(arguments, depends, old)
      BY <2>1, <2>3 DEF Turn
    <3>2. LoopInv(arguments, depends, old) /\ Len(old.result) = k - 1
      BY <1>3, <2>3
    <3> HIDE DEF old, new
    <3>3. LoopTypes(arguments, depends, old) /\ LoopPlaces(arguments, depends, old)
      BY <3>2 DEF LoopInv
    <3>4. LoopInv(arguments, depends, new)
      BY <2>3, <3>1, <3>2, <3>3, TakeKeepsPlaces, TakeKeepsOrder DEF LoopInv
    <3>5. PICK first : TakesFirst(arguments, depends, old, first, new)
      BY <2>3, <3>1, <3>3, TakeFirstIs
    <3>6. Len(new.result) = k
      <4>1. old.result \in Seq(DOMAIN arguments) /\ first \in DOMAIN arguments /\ new.result = Append(old.result, first)
        BY <3>3, <3>5 DEF LoopTypes, TakesFirst
      <4> QED  BY <3>2, <4>1, AppendIs
    <3> QED  BY <3>4, <3>6 DEF new
  <2> QED  BY <2>2, <2>3
<1> HIDE DEF Good
<1>4. 0 \in I /\ \A k \in 1..n : k - 1 \in I => k \in I
  BY <1>1, <1>2, <1>3
<1> HIDE DEF I, n
<1>5. \A k \in 0..n : k \in I
  BY <1>1, <1>4, EveryTurn
<1> QED  BY <1>1, <1>5 DEF I, n, Good

\* The places taken are all there are, each once, if they are as many.
LEMMA AllTaken ==
  ASSUME NEW n \in Nat, NEW s \in Seq(1..n), IsInjective(s)
  PROVE  Len(s) = n <=> ToSet(s) = 1..n
<1>1. IsFiniteSet(1..n) /\ Cardinality(1..n) = n
  BY FS_Interval
<1> DEFINE m == Len(s)
<1>2. DOMAIN s = 1..m /\ m \in Nat /\ s \in [1..m -> 1..n]
  OBVIOUS
<1> HIDE DEF m
<1>3. IsFiniteSet(1..m) /\ Cardinality(1..m) = m
  BY <1>2, FS_Interval
<1>4. s \in Injection(1..m, 1..n)
  BY <1>2 DEF IsInjective, Injection
<1>5. m = n <=> s \in Surjection(1..m, 1..n)
  BY <1>1, <1>3, <1>4, FS_Injection
<1>6. s \in Surjection(1..m, 1..n) <=> \A t \in 1..n : \E k \in 1..m : s[k] = t
  BY <1>2 DEF Surjection
<1>7. (\A t \in 1..n : \E k \in 1..m : s[k] = t) <=> ToSet(s) = 1..n
  BY <1>2 DEF ToSet
<1> QED  BY <1>5, <1>6, <1>7 DEF m

LEMMA OrderIs ==
  ASSUME NEW arguments \in Seq(ChunkIds) \ {<<>>}, NEW depends \in Depends(arguments)
  PROVE  LET order == TopologicalSort(arguments, depends)
             taken == Kahn(arguments, depends)[Len(arguments)].result
         IN  IF Len(taken) = Len(arguments)
             THEN /\ order # <<>> /\ order \in Seq(ChunkIds) /\ DOMAIN order = DOMAIN arguments
                  /\ \A k \in DOMAIN order : order[k] = arguments[taken[k]]
             ELSE order = <<>>
<1> DEFINE taken == Kahn(arguments, depends)[Len(arguments)].result
           order == [k \in DOMAIN taken |-> arguments[taken[k]]]
<1>1. taken \in Seq(DOMAIN arguments)
  BY LoopCorrect DEF LoopInv, LoopTypes
<1>2. TopologicalSort(arguments, depends) = IF Len(taken) = Len(arguments) THEN order ELSE <<>>
  BY DEF TopologicalSort
<1> HIDE DEF taken
<1>3. DOMAIN taken = 1..Len(taken) /\ Len(taken) \in Nat /\ DOMAIN arguments = 1..Len(arguments) /\ Len(arguments) # 0
  BY <1>1
<1>4. \A k \in DOMAIN taken : taken[k] \in DOMAIN arguments /\ arguments[taken[k]] \in ChunkIds
  BY <1>1
<1>5. order \in [1..Len(taken) -> ChunkIds]
  BY <1>3, <1>4
<1>6. order \in Seq(ChunkIds) /\ DOMAIN order = 1..Len(taken) /\ Len(order) = Len(taken)
  BY <1>3, <1>5
<1> QED  BY <1>2, <1>3, <1>6 DEF taken

LEMMA OrderHasAll ==
  ASSUME NEW arguments \in Seq(ChunkIds) \ {<<>>}, NEW depends \in Depends(arguments), NEW c,
         TopologicalSort(arguments, depends) # <<>>
  PROVE  Occurrences(TopologicalSort(arguments, depends), c) = Occurrences(arguments, c)
<1> DEFINE order == TopologicalSort(arguments, depends)
           taken == Kahn(arguments, depends)[Len(arguments)].result
           K == {k \in DOMAIN order : order[k] = c}
           I == {i \in DOMAIN arguments : arguments[i] = c}
           f == [k \in K |-> taken[k]]
<1>1. /\ Len(taken) = Len(arguments) /\ DOMAIN order = DOMAIN arguments
      /\ \A k \in DOMAIN order : order[k] = arguments[taken[k]]
  BY OrderIs
<1>2. taken \in Seq(DOMAIN arguments) /\ IsInjective(taken)
  BY LoopCorrect DEF LoopInv, LoopTypes, LoopPlaces
<1>3. DOMAIN arguments = 1..Len(arguments) /\ Len(arguments) \in Nat
  OBVIOUS
<1> HIDE DEF order, taken
<1>4. DOMAIN taken = DOMAIN arguments /\ ToSet(taken) = DOMAIN arguments
  <2> DEFINE n == Len(arguments)
  <2>1. n \in Nat /\ taken \in Seq(1..n) /\ IsInjective(taken) /\ Len(taken) = n /\ DOMAIN taken = 1..n
    BY <1>1, <1>2, <1>3
  <2> HIDE DEF n
  <2>2. ToSet(taken) = 1..n
    BY <2>1, AllTaken
  <2> QED  BY <1>3, <2>1, <2>2 DEF n
<1>5. f \in Bijection(K, I)
  <2>1. f \in [K -> I] /\ \A k \in K : f[k] = taken[k] /\ k \in DOMAIN taken
    BY <1>1, <1>2, <1>4
  <2>2. \A i \in I : \E k \in K : f[k] = i
    <3> TAKE i \in I
    <3>1. PICK k \in DOMAIN taken : taken[k] = i
      BY <1>4 DEF ToSet
    <3> QED  BY <1>1, <1>4, <3>1
  <2> HIDE DEF f, K, I
  <2>3. IsInjective(f)
    BY <1>2, <2>1 DEF IsInjective
  <2> QED  BY <2>1, <2>2, <2>3 DEF Bijection, Injection, Surjection
<1>6. IsFiniteSet(K)
  <2>1. IsFiniteSet(1..Len(arguments))
    BY <1>3, FS_Interval
  <2>2. K \in SUBSET (1..Len(arguments))
    BY <1>1, <1>3
  <2> QED  BY <2>1, <2>2, FS_Subset
<1> HIDE DEF f, K, I
<1>7. Cardinality(K) = Cardinality(I)
  BY <1>5, <1>6, FS_Bijection DEF ExistsBijection
<1> QED  BY <1>7 DEF Occurrences, K, I, order

\* If no chunk is given twice, an order is one: dependencies come first.
LEMMA OrderGoesByDependencies ==
  ASSUME NEW arguments \in Seq(ChunkIds) \ {<<>>}, NEW depends \in Depends(arguments),
         TopologicalSort(arguments, depends) # <<>>, IsInjective(arguments)
  PROVE  LET order == TopologicalSort(arguments, depends)
         IN  /\ \A i, j \in DOMAIN order : order[j] \in ToSet(Declared(depends, order[i])) => j < i
             /\ IsInjective(order) /\ ToSet(order) = ToSet(arguments) /\ Len(order) = Len(arguments)
<1> DEFINE order == TopologicalSort(arguments, depends)
           st == Kahn(arguments, depends)[Len(arguments)]
           taken == st.result
<1>1. /\ Len(taken) = Len(arguments) /\ DOMAIN order = DOMAIN arguments /\ order \in Seq(ChunkIds)
      /\ \A k \in DOMAIN order : order[k] = arguments[taken[k]]
  BY OrderIs
<1>2. /\ taken \in Seq(DOMAIN arguments) /\ IsInjective(taken)
      /\ LoopOrder(arguments, depends, st)
  BY LoopCorrect DEF LoopInv, LoopTypes, LoopPlaces
<1>3. DOMAIN arguments = 1..Len(arguments) /\ Len(arguments) \in Nat
  OBVIOUS
<1> HIDE DEF order, st
<1>4. DOMAIN taken = DOMAIN arguments /\ \A k \in DOMAIN taken : taken[k] \in DOMAIN arguments
  BY <1>1, <1>2, <1>3
<1>5. \A c : Occurrences(order, c) = Occurrences(arguments, c)
  BY OrderHasAll DEF order
<1>6. ToSet(order) = ToSet(arguments)
  <2>1. \A c : c \in ToSet(order) <=> c \in ToSet(arguments)
    BY <1>1, <1>5, OccurrencesIs
  <2> QED  BY <2>1
<1>7. IsInjective(order)
  BY <1>1, <1>2, <1>4 DEF IsInjective
<1>8. ASSUME NEW i \in DOMAIN order, NEW j \in DOMAIN order, order[j] \in ToSet(Declared(depends, order[i]))
      PROVE  j < i
  <2>1. PICK e \in DOMAIN Declared(depends, order[i]) : Declared(depends, order[i])[e] = order[j]
    BY <1>8 DEF ToSet
  <2>2. order[j] \in ToSet(arguments)
    BY <1>6 DEF ToSet
  <2>3. e \in Within(arguments, depends, order[i]) /\ i \in DOMAIN taken /\ order[i] = arguments[taken[i]]
    BY <1>1, <1>4, <2>1, <2>2 DEF Within
  <2>4. PICK k \in 1..(i - 1) : arguments[taken[k]] = order[j]
    <3>1. e \in Within(arguments, depends, arguments[taken[i]]) /\ i \in DOMAIN taken
      BY <2>3
    <3>2. \E k \in 1..(i - 1) : arguments[taken[k]] = Declared(depends, arguments[taken[i]])[e]
      BY <1>2, <3>1 DEF LoopOrder
    <3> QED  BY <2>1, <2>3, <3>2
  <2>5. k \in DOMAIN order /\ order[k] = order[j]
    BY <1>1, <1>3, <2>4
  <2>6. k = j
    BY <1>7, <2>5 DEF IsInjective
  <2> QED  BY <1>1, <1>3, <2>4, <2>6
<1>9. Len(order) = Len(arguments)
  BY <1>1, <1>3
<1> QED  BY <1>6, <1>7, <1>8, <1>9 DEF order

\* And when there is none, no ranking of the chunks can be one.
LEMMA NoOrderIsACycle ==
  ASSUME NEW arguments \in Seq(ChunkIds) \ {<<>>}, NEW depends \in Depends(arguments),
         TopologicalSort(arguments, depends) = <<>>, IsInjective(arguments),
         \A c \in ToSet(arguments) : IsInjective(Declared(depends, c)),
         NEW rank \in [ToSet(arguments) -> Nat],
         \A c, d \in ToSet(arguments) : d \in ToSet(Declared(depends, c)) => rank[d] < rank[c]
  PROVE  FALSE
<1> DEFINE st == Kahn(arguments, depends)[Len(arguments)]
           U == {i \in DOMAIN arguments : i \notin ToSet(st.result)}
           R == {rank[arguments[i]] : i \in U}
<1>1. Len(st.result) # Len(arguments)
  BY OrderIs
<1>2. /\ LoopInv(arguments, depends, st) /\ st.queue = {}
      /\ LoopTypes(arguments, depends, st) /\ LoopPlaces(arguments, depends, st)
      /\ LoopComplete(arguments, depends, st)
  BY <1>1, LoopCorrect DEF LoopInv
<1> HIDE DEF st
<1>3. U # {}
  <2> DEFINE n == Len(arguments)
             s == st.result
  <2>1. n \in Nat /\ DOMAIN arguments = 1..n /\ s \in Seq(1..n) /\ IsInjective(s) /\ Len(s) # n
    BY <1>1, <1>2 DEF LoopTypes, LoopPlaces
  <2>2. ToSet(s) \subseteq 1..n
    BY <2>1 DEF ToSet
  <2> HIDE DEF n, s
  <2>3. ToSet(s) # 1..n
    BY <2>1, AllTaken
  <2>4. \E i \in 1..n : i \notin ToSet(s)
    BY <2>2, <2>3
  <2> QED  BY <2>1, <2>4 DEF s
<1>4. \A i \in DOMAIN arguments : arguments[i] \in ToSet(arguments)
  BY DEF ToSet
<1>5. PICK u \in U : \A i \in U : rank[arguments[u]] <= rank[arguments[i]]
  <2>1. R \in SUBSET Nat /\ R # {}
    BY <1>3, <1>4
  <2> HIDE DEF R
  <2>2. PICK m \in R : \A x \in R : m =< x
    BY <2>1, HasLeast
  <2> QED  BY <2>2 DEF R
<1> DEFINE c == arguments[u]
<1>6. c \in ToSet(arguments) /\ u \in DOMAIN arguments /\ u \notin ToSet(st.result)
  BY <1>4, <1>5
<1>7. Left(arguments, depends, c, st) = {}
  <2> SUFFICES ASSUME NEW e \in Left(arguments, depends, c, st) PROVE FALSE
    OBVIOUS
  <2> DEFINE d == Declared(depends, c)[e]
  <2>1. /\ e \in DOMAIN Declared(depends, c) /\ d \in ToSet(arguments) /\ d \notin Taken(arguments, st)
        /\ d \in ToSet(Declared(depends, c))
    BY DEF Left, Within, ToSet
  <2>2. PICK i \in DOMAIN arguments : arguments[i] = d
    BY <2>1 DEF ToSet
  <2>3. i \in U
    BY <2>1, <2>2 DEF Taken
  <2>4. rank[d] < rank[c] /\ rank[c] <= rank[d] /\ rank[c] \in Nat /\ rank[d] \in Nat
    BY <1>5, <1>6, <2>1, <2>2, <2>3
  <2> QED  BY <2>4
<1>8. st.degree[c] <= 0
  <2>1. Cardinality(Left(arguments, depends, c, st)) = 0
    BY <1>7, FS_EmptySet
  <2> QED  BY <1>2, <1>6, <2>1 DEF LoopComplete
<1> QED  BY <1>2, <1>6, <1>8 DEF LoopComplete

-----------------------------------------------------------------------------
(* Batches: the units. *)

\* The command has these parts and no other.
IsCommand(c) ==
  /\ c = [at |-> c.at, arguments |-> c.arguments, depends |-> c.depends, order |-> c.order, posted |-> c.posted]
  /\ c.posted \in Nat

BatchTypes ==
  /\ units \in [AllNames -> {NoUnit} \union [status : {"READY", "BLOCKED", "DONE"}, waits : [AllNames -> Nat]]]
  /\ gone \subseteq AllNames
  /\ IsCommand(inject)

\* What the command knows of its batch.
InjectFits ==
  /\ inject.at # "idle" => inject.arguments \in Arguments /\ inject.depends \in Depends(inject.arguments)
  /\ inject.at \in {"idle", "look"} => inject.posted = 0
  /\ inject.at = "cycle" => TopologicalSort(inject.arguments, inject.depends) = <<>>
  /\ inject.at = "post" =>
       /\ inject.order = TopologicalSort(inject.arguments, inject.depends) /\ inject.order # <<>>
       /\ inject.posted < Len(inject.order)

\* What it has looked at or posted is there, or went meanwhile.
PostedFits ==
  inject.at = "post" =>
    /\ \A k \in 1..inject.posted : Exists(inject.order[k]) \/ inject.order[k] \in gone
    /\ \A x \in Outside(inject.arguments, inject.depends) : Exists(x) \/ x \in gone

Repeats(n) == ~IsInjective(Declared(inject.depends, n))

WaitsFit ==
  /\ inject.at \in {"idle", "look"} => \A n, b \in AllNames : ~WaitsFor(n, b)
  /\ \A n \in AllNames : units[n].status = "BLOCKED" <=> \E b \in AllNames : WaitsFor(n, b)
  /\ \A n, b \in AllNames : WaitsFor(n, b) =>
       /\ Exists(b) \/ b \in gone \/ (b \in Batched /\ ~GivenOnce)
       /\ units[b].status # "DONE" \/ b \in gone \/ Repeats(n)
       /\ units[n].waits[b] > 1 => b \in gone \/ Repeats(n)

BatchIInv == BatchTypes /\ InjectFits /\ PostedFits /\ WaitsFit

LEMMA NobodyIs ==
  /\ Nobody \in [AllNames -> Nat] /\ \A b \in AllNames : Nobody[b] = 0
  /\ \A w \in [AllNames -> Nat] : w # Nobody <=> \E b \in AllNames : w[b] > 0
BY DEF Nobody

LEMMA UnitIs ==
  ASSUME BatchTypes, NEW n \in AllNames
  PROVE  /\ units[n].waits \in [AllNames -> Nat]
         /\ units[n].status \in {"NONE", "READY", "BLOCKED", "DONE"}
         /\ units[n] = [status |-> units[n].status, waits |-> units[n].waits]
         /\ Exists(n) <=> units[n].status # "NONE"
         /\ ~Exists(n) => \A b \in AllNames : ~WaitsFor(n, b)
BY NobodyIs DEF BatchTypes, NoUnit, Exists, WaitsFor

LEMMA NamesAre ==
  ASSUME NEW a \in Arguments, NEW d \in Depends(a)
  PROVE  /\ a \in Seq(ChunkIds) \ {<<>>} /\ ToSet(a) \subseteq ChunkIds
         /\ \A c \in ToSet(a) : Declared(d, c) \in Seq(ChunkIds) /\ ToSet(Declared(d, c)) \subseteq ChunkIds
<1>1. a \in Seq(ChunkIds) \ {<<>>}
  BY BatchBounds
<1>2. \A s \in Seq(ChunkIds) : ToSet(s) \subseteq ChunkIds
  BY DEF ToSet
<1> QED  BY <1>1, <1>2, DeclaredIs

LEMMA BatchInitIs == BatchInit => BatchIInv
<1> SUFFICES ASSUME BatchInit PROVE BatchIInv
  OBVIOUS
<1>1. /\ units \in [AllNames -> {NoUnit} \union {[status |-> s, waits |-> Nobody] : s \in {"READY", "DONE"}}]
      /\ inject = NoCommand /\ gone = {}
  BY DEF BatchInit
<1>2. inject.at = "idle" /\ inject.posted = 0 /\ IsCommand(inject)
  BY <1>1 DEF NoCommand, IsCommand
<1>3. BatchTypes
  BY <1>1, <1>2, NobodyIs DEF BatchTypes
<1>4. \A n \in AllNames : units[n].waits = Nobody /\ units[n].status # "BLOCKED"
  BY <1>1 DEF NoUnit
<1>5. WaitsFit
  BY <1>2, <1>4, NobodyIs DEF WaitsFit, WaitsFor
<1> QED  BY <1>2, <1>3, <1>5 DEF BatchIInv, InjectFits, PostedFits

LEMMA ReadStays ==
  ASSUME BatchIInv, NEW arguments \in Arguments, NEW depends \in [ToSet(arguments) -> Declarations],
         Read(arguments, depends)
  PROVE  BatchIInv'
<1>1. /\ inject.at = "idle" /\ UNCHANGED <<units, gone>>
      /\ inject' = [NoCommand EXCEPT !.at = "look", !.arguments = arguments, !.depends = depends]
  BY DEF Read
<1>2. /\ inject'.at = "look" /\ inject'.arguments = arguments /\ inject'.depends = depends
      /\ inject'.posted = 0 /\ IsCommand(inject') /\ depends \in Depends(arguments)
  BY <1>1 DEF NoCommand, IsCommand, Depends
<1>3. \A n, b \in AllNames : ~WaitsFor(n, b)
  BY <1>1 DEF BatchIInv, WaitsFit
<1>4. WaitsFit'
  BY <1>1, <1>3 DEF BatchIInv, WaitsFit, WaitsFor
<1> QED  BY <1>1, <1>2, <1>4 DEF BatchIInv, BatchTypes, InjectFits, PostedFits

LEMMA SortStays ==
  ASSUME BatchIInv, NEW answered, ValidateAndSort(answered)
  PROVE  BatchIInv'
<1> DEFINE order == TopologicalSort(inject.arguments, inject.depends)
           outside == Outside(inject.arguments, inject.depends)
<1>1. /\ inject.at = "look" /\ UNCHANGED <<units, gone>> /\ IsCommand(inject) /\ inject.posted = 0
      /\ inject.arguments \in Arguments /\ inject.depends \in Depends(inject.arguments)
  BY DEF ValidateAndSort, BatchIInv, BatchTypes, InjectFits
<1>2. \A n, b \in AllNames : ~WaitsFor(n, b)
  BY <1>1 DEF BatchIInv, WaitsFit
<1>3. order = <<>> \/ (order \in Seq(ChunkIds) /\ Len(order) > 0 /\ Len(order) \in Nat)
  <2>1. order = <<>> \/ (order \in Seq(ChunkIds) /\ order # <<>>)
    BY <1>1, NamesAre, OrderIs
  <2> QED  BY <2>1
<1>4. \/ inject' = [inject EXCEPT !.at = "missing"]
      \/ order = <<>> /\ inject' = [inject EXCEPT !.at = "cycle"]
      \/ order # <<>> /\ inject' = [inject EXCEPT !.at = "post", !.order = order] /\ \A x \in outside : Exists(x)
  BY DEF ValidateAndSort
<1> HIDE DEF order, outside
<1>5. /\ IsCommand(inject') /\ inject'.posted = 0 /\ inject'.at \in {"missing", "cycle", "post"}
      /\ inject'.arguments = inject.arguments /\ inject'.depends = inject.depends
      /\ inject'.at = "cycle" => order = <<>>
      /\ inject'.at = "post" => inject'.order = order /\ order # <<>> /\ \A x \in outside : Exists(x)
  BY <1>1, <1>4 DEF IsCommand
<1>6. \A x : Exists(x)' <=> Exists(x)
  BY <1>1 DEF Exists
<1>7. PostedFits'
  BY <1>5, <1>6 DEF PostedFits, outside
<1>8. WaitsFit'
  BY <1>1, <1>2, <1>5, <1>6 DEF BatchIInv, WaitsFit, WaitsFor
<1>9. InjectFits'
  BY <1>1, <1>3, <1>5 DEF InjectFits, order
<1> QED  BY <1>1, <1>5, <1>7, <1>8, <1>9 DEF BatchIInv, BatchTypes

\* The first two parts hold after a step that leaves the command as it is, or ends it.
LEMMA RefusedStays ==
  ASSUME BatchIInv, PostRefused
  PROVE  BatchIInv'
<1>1. /\ UNCHANGED <<units, gone>> /\ inject.at = "post" /\ IsCommand(inject)
      /\ inject' = [inject EXCEPT !.at = "stopped"]
  BY DEF PostRefused, BatchIInv, BatchTypes
<1>2. /\ IsCommand(inject') /\ inject'.at = "stopped"
      /\ inject'.arguments = inject.arguments /\ inject'.depends = inject.depends
  BY <1>1 DEF IsCommand
<1>3. WaitsFit'
  BY <1>1, <1>2 DEF BatchIInv, WaitsFit, WaitsFor, Exists, Batched, GivenOnce, Repeats
<1> QED  BY <1>1, <1>2, <1>3 DEF BatchIInv, BatchTypes, InjectFits, PostedFits

\* What a chunk that is posted depends on was posted before, or looked at.
LEMMA DependsOnPosted ==
  ASSUME BatchIInv, inject.at = "post", NEW b \in ToSet(Declared(inject.depends, Upcoming))
  PROVE  /\ b \in ChunkIds
         /\ Exists(b) \/ b \in gone \/ (b \in Batched /\ ~GivenOnce)
<1> DEFINE a == inject.arguments
           d == inject.depends
           order == TopologicalSort(a, d)
           k == inject.posted + 1
<1>1. a \in Arguments /\ d \in Depends(a) /\ order # <<>> /\ inject.order = order
  BY DEF BatchIInv, InjectFits
<1>2. a \in Seq(ChunkIds) \ {<<>>} /\ order \in Seq(ChunkIds)
  BY <1>1, NamesAre, OrderIs
<1>3. k \in DOMAIN order /\ inject.posted \in Nat /\ k \in 1..Len(order)
  BY <1>1, <1>2 DEF BatchIInv, BatchTypes, IsCommand, InjectFits
<1>4. Upcoming = order[k] /\ b \in ToSet(Declared(d, order[k]))
  BY <1>1 DEF Upcoming
<1> HIDE DEF order, k
<1>5. order[k] \in ToSet(a)
  <2>1. Occurrences(order, order[k]) = Occurrences(a, order[k])
    BY <1>1, <1>2, OrderHasAll DEF order
  <2>2. order[k] \in ToSet(order)
    BY <1>3 DEF ToSet
  <2> QED  BY <1>2, <2>1, <2>2, OccurrencesIs
<1>6. b \in ChunkIds
  BY <1>1, <1>4, <1>5, NamesAre
<1>7. CASE b \notin ToSet(a)
  <2>1. b \in Outside(a, d)
    <3>1. ToSet(Declared(d, order[k])) \in {ToSet(Declared(d, c)) : c \in ToSet(a)}
      BY <1>5
    <3>2. b \in UNION {ToSet(Declared(d, c)) : c \in ToSet(a)}
      BY <1>4, <3>1
    <3> QED  BY <1>7, <3>2 DEF Outside
  <2> QED  BY <1>6, <2>1 DEF BatchIInv, PostedFits
<1>8. CASE b \in ToSet(a) /\ IsInjective(a)
  <2>1. /\ \A i, j \in DOMAIN order : order[j] \in ToSet(Declared(d, order[i])) => j < i
        /\ ToSet(order) = ToSet(a)
    BY <1>1, <1>2, <1>8, OrderGoesByDependencies DEF order
  <2>2. PICK j \in DOMAIN order : order[j] = b
    BY <1>8, <2>1 DEF ToSet
  <2>3. j < k /\ j \in Nat /\ j >= 1
    BY <1>2, <1>3, <1>4, <2>1, <2>2
  <2>4. j \in 1..inject.posted
    BY <1>3, <2>3 DEF k
  <2> QED  BY <1>1, <1>6, <2>2, <2>4 DEF BatchIInv, PostedFits
<1> QED  BY <1>6, <1>7, <1>8 DEF Batched, GivenOnce

LEMMA PostStays ==
  ASSUME BatchIInv, NEW inTime \in BOOLEAN, Post(inTime)
  PROVE  BatchIInv'
<1> PICK c : c = Upcoming
  OBVIOUS
<1> PICK waits : waits = ActiveBlockers(c)
  OBVIOUS
<1> PICK new : new = [status |-> IF waits = Nobody THEN "READY" ELSE "BLOCKED", waits |-> waits]
  OBVIOUS
<1> PICK at : at = IF ~inTime THEN "stopped" ELSE IF inject.posted + 1 = Len(inject.order) THEN "done" ELSE "post"
  OBVIOUS
<1>0. BatchTypes /\ InjectFits /\ PostedFits /\ WaitsFit
  BY DEF BatchIInv
<1>1. /\ inject.at = "post" /\ ~Exists(c) /\ units' = [units EXCEPT ![c] = new] /\ gone' = gone
      /\ inject' = [inject EXCEPT !.posted = @ + 1, !.at = at]
  BY DEF Post
<1>2. /\ inject.order = TopologicalSort(inject.arguments, inject.depends)
      /\ inject.order \in Seq(ChunkIds) /\ inject.posted \in Nat /\ inject.posted + 1 \in DOMAIN inject.order
      /\ c = inject.order[inject.posted + 1] /\ c \in ChunkIds /\ inject.posted < Len(inject.order)
      /\ Len(inject.order) \in Nat /\ IsCommand(inject)
      /\ inject.arguments \in Arguments /\ inject.depends \in Depends(inject.arguments)
  <2>1. /\ inject.order = TopologicalSort(inject.arguments, inject.depends) /\ inject.order # <<>>
        /\ inject.arguments \in Arguments /\ inject.depends \in Depends(inject.arguments)
        /\ inject.posted \in Nat /\ inject.posted < Len(inject.order) /\ IsCommand(inject)
    BY <1>0, <1>1 DEF InjectFits, BatchTypes, IsCommand
  <2>2. inject.order \in Seq(ChunkIds)
    BY <2>1, NamesAre, OrderIs
  <2> QED  BY <2>1, <2>2 DEF Upcoming
<1>3. c \in ToSet(inject.arguments)
  <2>1. Occurrences(inject.order, c) = Occurrences(inject.arguments, c)
    BY <1>2, NamesAre, OrderHasAll, OrderIs
  <2>2. c \in ToSet(inject.order)
    BY <1>2 DEF ToSet
  <2> QED  BY <1>2, <2>1, <2>2, NamesAre, OccurrencesIs
<1>4. /\ Declared(inject.depends, c) \in Seq(ChunkIds)
      /\ \A b \in AllNames : /\ Occurrences(Declared(inject.depends, c), b) \in Nat
                             /\ Occurrences(Declared(inject.depends, c), b) > 0 => b \in ToSet(Declared(inject.depends, c))
                             /\ ~Repeats(c) => Occurrences(Declared(inject.depends, c), b) <= 1
  <2>1. Declared(inject.depends, c) \in Seq(ChunkIds)
    BY <1>2, <1>3, NamesAre
  <2> QED  BY <2>1, OccurrencesIs DEF Repeats
<1>5. /\ waits \in [AllNames -> Nat]
      /\ \A b \in AllNames : waits[b] > 0 => /\ Exists(b) \/ b \in gone \/ (b \in Batched /\ ~GivenOnce)
                                             /\ units[b].status # "DONE"
      /\ \A b \in AllNames : waits[b] > 1 => Repeats(c)
  <2>1. waits \in [AllNames -> Nat]
    BY <1>4 DEF ActiveBlockers
  <2>2. ASSUME NEW b \in AllNames
        PROVE  /\ waits[b] > 0 => units[b].status # "DONE" /\ b \in ToSet(Declared(inject.depends, c))
               /\ waits[b] > 1 => Repeats(c)
    BY <1>4 DEF ActiveBlockers
  <2>3. \A b \in ToSet(Declared(inject.depends, c)) : Exists(b) \/ b \in gone \/ (b \in Batched /\ ~GivenOnce)
    BY <1>1, DependsOnPosted
  <2> QED  BY <2>1, <2>2, <2>3
<1>6. /\ new \in [status : {"READY", "BLOCKED", "DONE"}, waits : [AllNames -> Nat]]
      /\ new.waits = waits /\ new.status \in {"READY", "BLOCKED"} /\ new # NoUnit
      /\ new.status = "BLOCKED" <=> \E b \in AllNames : waits[b] > 0
  BY <1>5, NobodyIs DEF NoUnit
<1>7. /\ IsCommand(inject') /\ inject'.posted = inject.posted + 1 /\ inject'.at \notin {"idle", "look", "cycle"}
      /\ inject'.arguments = inject.arguments /\ inject'.depends = inject.depends /\ inject'.order = inject.order
      /\ inject'.at = "post" => inject.posted + 1 # Len(inject.order)
  <2>1. at \in {"stopped", "done", "post"} /\ (at = "post" => inject.posted + 1 # Len(inject.order))
    OBVIOUS
  <2>2. inject' = [at |-> at, arguments |-> inject.arguments, depends |-> inject.depends, order |-> inject.order,
                   posted |-> inject.posted + 1]
    BY <1>1, <1>2 DEF IsCommand
  <2> QED  BY <1>2, <2>1, <2>2 DEF IsCommand
<1>8. units \in [AllNames -> {NoUnit} \union [status : {"READY", "BLOCKED", "DONE"}, waits : [AllNames -> Nat]]]
      /\ c \in AllNames
  BY <1>0, <1>2 DEF BatchTypes, AllNames
<1>9. BatchTypes'
  BY <1>0, <1>1, <1>6, <1>7, <1>8 DEF BatchTypes
<1>10. \A n \in AllNames : /\ Exists(n) => Exists(n)'
                           /\ n = c => Exists(n)' /\ units'[n] = new
                           /\ n # c => units'[n] = units[n]
  BY <1>1, <1>6, <1>8 DEF Exists
<1>11. InjectFits'
  BY <1>0, <1>2, <1>7 DEF InjectFits
<1>12. PostedFits'
  <2>1. \A k \in 1..(inject.posted + 1) : inject.order[k] \in ChunkIds
    BY <1>2
  <2>2. ASSUME NEW k \in 1..(inject.posted + 1) PROVE Exists(inject.order[k])' \/ inject.order[k] \in gone
    <3>1. CASE k = inject.posted + 1
      BY <1>2, <1>7, <1>8, <1>10, <3>1 DEF Exists
    <3>2. CASE k \in 1..inject.posted
      <4>1. Exists(inject.order[k]) \/ inject.order[k] \in gone
        BY <1>0, <1>1, <3>2 DEF PostedFits
      <4> QED  BY <1>7, <1>10, <2>1, <4>1 DEF Exists, AllNames
    <3> QED  BY <1>2, <3>1, <3>2
  <2>3. \A x \in Outside(inject.arguments, inject.depends) : x \in ChunkIds /\ (Exists(x) \/ x \in gone)
    BY <1>0, <1>1, <1>2, NamesAre DEF PostedFits, Outside
  <2> QED  BY <1>1, <1>7, <1>10, <2>2, <2>3 DEF PostedFits, Exists, AllNames
<1>13. WaitsFit'
  <2>1. \A n, b \in AllNames : WaitsFor(n, b)' <=> IF n = c THEN waits[b] > 0 ELSE WaitsFor(n, b)
    BY <1>6, <1>10 DEF WaitsFor
  <2>2. \A b \in AllNames : units[b].status # "DONE" => units'[b].status # "DONE"
    BY <1>6, <1>10
  <2>3. Batched' = Batched /\ GivenOnce' = GivenOnce /\ \A n : Repeats(n)' = Repeats(n)
    BY <1>7 DEF Batched, GivenOnce, Repeats
  <2>4. ASSUME NEW n \in AllNames, NEW b \in AllNames, WaitsFor(n, b)'
        PROVE  /\ Exists(b)' \/ b \in gone' \/ (b \in Batched' /\ ~GivenOnce')
               /\ units'[b].status # "DONE" \/ b \in gone' \/ Repeats(n)'
               /\ units'[n].waits[b] > 1 => b \in gone' \/ Repeats(n)'
    <3>1. CASE n = c
      BY <1>1, <1>5, <1>6, <1>10, <2>1, <2>2, <2>3, <2>4, <3>1
    <3>2. CASE n # c
      BY <1>0, <1>1, <1>10, <2>1, <2>2, <2>3, <2>4, <3>2 DEF WaitsFit
    <3> QED  BY <3>1, <3>2
  <2>5. ASSUME NEW n \in AllNames
        PROVE  units'[n].status = "BLOCKED" <=> \E b \in AllNames : WaitsFor(n, b)'
    BY <1>0, <1>6, <1>10, <2>1 DEF WaitsFit
  <2> QED  BY <1>7, <2>4, <2>5 DEF WaitsFit
<1> QED  BY <1>9, <1>11, <1>12, <1>13 DEF BatchIInv

\* A step that only changes units leaves the command what it knows, if what goes is noted.
LEMMA EventStays ==
  ASSUME BatchIInv, inject' = inject, gone \subseteq gone', BatchTypes', WaitsFit',
         inject.at = "post" => \A n \in AllNames : Exists(n) => Exists(n)' \/ n \in gone'
  PROVE  BatchIInv'
<1>1. InjectFits'
  BY DEF BatchIInv, InjectFits
<1>2. ASSUME inject.at = "post"
      PROVE  /\ \A k \in 1..inject.posted : inject.order[k] \in AllNames
             /\ \A x \in Outside(inject.arguments, inject.depends) : x \in AllNames
  <2>1. /\ inject.order = TopologicalSort(inject.arguments, inject.depends) /\ inject.order # <<>>
        /\ inject.arguments \in Arguments /\ inject.depends \in Depends(inject.arguments)
        /\ inject.posted \in Nat /\ inject.posted < Len(inject.order)
    BY <1>2 DEF BatchIInv, InjectFits, BatchTypes, IsCommand
  <2>2. inject.order \in Seq(ChunkIds)
    BY <2>1, NamesAre, OrderIs
  <2>3. \A k \in 1..inject.posted : inject.order[k] \in ChunkIds
    BY <2>1, <2>2
  <2>4. \A x \in Outside(inject.arguments, inject.depends) : x \in ChunkIds
    BY <2>1, NamesAre DEF Outside
  <2> QED  BY <2>3, <2>4 DEF AllNames
<1>3. PostedFits'
  <2> SUFFICES ASSUME inject.at = "post" PROVE PostedFits'
    BY DEF PostedFits
  <2>1. \A n \in AllNames : Exists(n) \/ n \in gone => Exists(n)' \/ n \in gone'
    OBVIOUS
  <2> QED  BY <1>2, <2>1 DEF BatchIInv, PostedFits
<1> QED  BY <1>1, <1>3 DEF BatchIInv

LEMMA CompletionStays ==
  ASSUME BatchIInv, NEW n \in AllNames, Complete(n)
  PROVE  BatchIInv'
<1>0. BatchTypes /\ InjectFits /\ WaitsFit
  BY DEF BatchIInv
<1>1. /\ inject' = inject /\ gone' = gone /\ units[n].status = "READY"
      /\ inject.at \notin {"idle", "missing", "cycle"}
      /\ units' = [m \in AllNames |->
           LET left == [units[m].waits EXCEPT ![n] = @ - 1]
           IN  IF m = n THEN [units[m] EXCEPT !.status = "DONE"]
               ELSE IF units[m].waits[n] = 0 THEN units[m]
               ELSE [waits |-> left, status |-> IF left = Nobody /\ units[m].status = "BLOCKED"
                                                THEN "READY" ELSE units[m].status]]
  BY DEF Complete, Event
<1>2. \A b \in AllNames : ~WaitsFor(n, b)
  BY <1>0, <1>1 DEF WaitsFit
<1>3. ASSUME NEW m \in AllNames
      PROVE  /\ units'[m].waits \in [AllNames -> Nat]
             /\ units'[m].status \in {"NONE", "READY", "BLOCKED", "DONE"}
             /\ units'[m] \in {NoUnit} \union [status : {"READY", "BLOCKED", "DONE"}, waits : [AllNames -> Nat]]
             /\ units'[m].status = "NONE" <=> units[m].status = "NONE"
             /\ Exists(m)' <=> Exists(m)
             /\ \A b \in AllNames : units'[m].waits[b] =
                  IF b = n /\ WaitsFor(m, n) THEN units[m].waits[b] - 1 ELSE units[m].waits[b]
             /\ m # n /\ units[m].status # "DONE" => units'[m].status # "DONE"
             /\ units'[m].status = "BLOCKED" <=> \E b \in AllNames : units'[m].waits[b] > 0
  <2> PICK left : left = [units[m].waits EXCEPT ![n] = @ - 1]
    OBVIOUS
  <2>1. /\ units[m].waits \in [AllNames -> Nat]
        /\ units[m].status \in {"NONE", "READY", "BLOCKED", "DONE"}
        /\ units[m] = [status |-> units[m].status, waits |-> units[m].waits]
        /\ Exists(m) <=> units[m].status # "NONE"
        /\ units[m].status = "BLOCKED" <=> \E b \in AllNames : WaitsFor(m, b)
        /\ units[m] \in {NoUnit} \union [status : {"READY", "BLOCKED", "DONE"}, waits : [AllNames -> Nat]]
    BY <1>0, UnitIs DEF WaitsFit, BatchTypes
  <2>2. CASE m = n
    <3>1. units'[m] = [status |-> "DONE", waits |-> units[m].waits]
      BY <1>1, <2>1, <2>2
    <3>2. units'[m] # NoUnit
      BY <3>1 DEF NoUnit
    <3> QED  BY <1>1, <1>2, <2>1, <2>2, <3>1, <3>2 DEF WaitsFor, Exists
  <2>3. CASE m # n /\ units[m].waits[n] = 0
    <3>1. units'[m] = units[m]
      BY <1>1, <2>3
    <3> QED  BY <2>1, <2>3, <3>1 DEF WaitsFor, Exists
  <2>4. CASE m # n /\ units[m].waits[n] # 0
    <3>1. units'[m] = [waits |-> left, status |-> IF left = Nobody /\ units[m].status = "BLOCKED"
                                                  THEN "READY" ELSE units[m].status]
      BY <1>1, <2>4
    <3>2. WaitsFor(m, n) /\ units[m].status = "BLOCKED"
      BY <2>1, <2>4 DEF WaitsFor
    <3>3. left \in [AllNames -> Nat] /\ \A b \in AllNames : left[b] = IF b = n THEN units[m].waits[b] - 1 ELSE units[m].waits[b]
      BY <2>1, <3>2 DEF WaitsFor
    <3>4. /\ units'[m].waits = left /\ units'[m].status \in {"READY", "BLOCKED"}
          /\ units'[m].status = "BLOCKED" <=> \E b \in AllNames : left[b] > 0
          /\ units'[m] \in [status : {"READY", "BLOCKED", "DONE"}, waits : [AllNames -> Nat]]
          /\ units'[m] # NoUnit
      BY <3>1, <3>2, <3>3, NobodyIs DEF NoUnit
    <3> QED  BY <2>1, <2>4, <3>2, <3>3, <3>4 DEF Exists
  <2> QED  BY <2>2, <2>3, <2>4
<1>4. BatchTypes'
  <2>1. units' \in [AllNames -> {NoUnit} \union [status : {"READY", "BLOCKED", "DONE"}, waits : [AllNames -> Nat]]]
    BY <1>1, <1>3
  <2> QED  BY <1>0, <1>1, <2>1 DEF BatchTypes
<1>5. Batched' = Batched /\ GivenOnce' = GivenOnce /\ \A m : Repeats(m)' = Repeats(m)
  BY <1>1 DEF Batched, GivenOnce, Repeats
<1>6. \A m, b \in AllNames : units[m].waits[b] \in Nat
  BY <1>0, UnitIs
<1>7. ASSUME NEW m \in AllNames, NEW b \in AllNames, WaitsFor(m, b)'
      PROVE  /\ Exists(b)' \/ b \in gone' \/ (b \in Batched' /\ ~GivenOnce')
             /\ units'[b].status # "DONE" \/ b \in gone' \/ Repeats(m)'
             /\ units'[m].waits[b] > 1 => b \in gone' \/ Repeats(m)'
             /\ WaitsFor(m, b)
  <2>1. WaitsFor(m, b) /\ (units'[m].waits[b] > 1 => units[m].waits[b] > 1)
        /\ (b = n => units[m].waits[b] > 1)
    BY <1>3, <1>6, <1>7 DEF WaitsFor
  <2>2. /\ Exists(b) \/ b \in gone \/ (b \in Batched /\ ~GivenOnce)
        /\ units[b].status # "DONE" \/ b \in gone \/ Repeats(m)
        /\ units[m].waits[b] > 1 => b \in gone \/ Repeats(m)
    BY <1>0, <2>1 DEF WaitsFit
  <2> QED  BY <1>1, <1>3, <1>5, <2>1, <2>2
<1>8. WaitsFit'
  <2>1. inject'.at \in {"idle", "look"} => \A m, b \in AllNames : ~WaitsFor(m, b)'
    BY <1>0, <1>1, <1>7 DEF WaitsFit
  <2>2. \A m \in AllNames : units'[m].status = "BLOCKED" <=> \E b \in AllNames : WaitsFor(m, b)'
    BY <1>3 DEF WaitsFor
  <2> QED  BY <1>7, <2>1, <2>2 DEF WaitsFit
<1> QED  BY <1>1, <1>3, <1>4, <1>8, EventStays

LEMMA GiveNameStays ==
  ASSUME BatchIInv, NEW old \in AllNames, NEW new \in SpareNames, GiveName(old, new)
  PROVE  BatchIInv'
<1>0. BatchTypes /\ InjectFits /\ WaitsFit
  BY DEF BatchIInv
<1>1. /\ inject' = inject /\ units[old].status = "READY" /\ ~Exists(new) /\ new \in AllNames
      /\ inject.at \notin {"idle", "missing", "cycle"}
      /\ units' = [m \in AllNames |->
           LET u == IF m = new THEN units[old] ELSE IF m = old THEN NoUnit ELSE units[m]
               waits == [u.waits EXCEPT ![new] = u.waits[new] + u.waits[old], ![old] = 0]
           IN  [status |-> u.status, waits |-> waits]]
      /\ gone' = gone \union (IF inject.at = "post" THEN {old} ELSE {})
                      \union (IF old \in gone THEN {new} ELSE {})
  BY DEF GiveName, Event, AllNames
<1>2. /\ gone \subseteq gone' /\ gone' \subseteq AllNames
      /\ inject.at = "post" => old \in gone' /\ (old \in gone => new \in gone')
      /\ old \in gone => new \in gone'
  BY <1>0, <1>1 DEF BatchTypes
<1>3. old # new /\ Exists(old) /\ \A b \in AllNames : ~WaitsFor(old, b) /\ ~WaitsFor(new, b)
  BY <1>0, <1>1, UnitIs DEF WaitsFit, Exists, NoUnit
<1>4. ASSUME NEW m \in AllNames
      PROVE  /\ units'[m] \in {NoUnit} \union [status : {"READY", "BLOCKED", "DONE"}, waits : [AllNames -> Nat]]
             /\ m = new => units'[m].status = "READY"
             /\ m = old => units'[m].status = "NONE"
             /\ m \notin {old, new} => units'[m].status = units[m].status
             /\ m # old => (Exists(m) => Exists(m)')
             /\ m = new => Exists(m)'
             /\ \A b \in AllNames : units'[m].waits[b] =
                  IF m \in {old, new} THEN 0
                  ELSE IF b = old THEN 0
                  ELSE IF b = new THEN units[m].waits[new] + units[m].waits[old]
                  ELSE units[m].waits[b]
  <2> PICK u : u = IF m = new THEN units[old] ELSE IF m = old THEN NoUnit ELSE units[m]
    OBVIOUS
  <2> PICK w : w = [u.waits EXCEPT ![new] = u.waits[new] + u.waits[old], ![old] = 0]
    OBVIOUS
  <2>1. \A x \in {old, new, m} :
          /\ units[x].waits \in [AllNames -> Nat]
          /\ units[x].status \in {"NONE", "READY", "BLOCKED", "DONE"}
          /\ units[x] = [status |-> units[x].status, waits |-> units[x].waits]
          /\ Exists(x) <=> units[x].status # "NONE"
          /\ Exists(x) => units[x] \in [status : {"READY", "BLOCKED", "DONE"}, waits : [AllNames -> Nat]]
    BY <1>0, <1>1, UnitIs DEF BatchTypes, Exists
  <2>2. \A b \in AllNames : units[old].waits[b] = 0 /\ units[new].waits[b] = 0 /\ Nobody[b] = 0
    BY <1>1, <1>3, <2>1, NobodyIs DEF WaitsFor
  <2>3. /\ u = [status |-> u.status, waits |-> u.waits] /\ u.waits \in [AllNames -> Nat]
        /\ m \in {old, new} => \A b \in AllNames : u.waits[b] = 0
        /\ m \notin {old, new} => u = units[m]
        /\ u.status = IF m = new THEN "READY" ELSE IF m = old THEN "NONE" ELSE units[m].status
    BY <1>1, <1>3, <2>1, <2>2, NobodyIs DEF NoUnit
  <2>4. w \in [AllNames -> Nat]
        /\ \A b \in AllNames : w[b] = IF b = old THEN 0 ELSE IF b = new THEN u.waits[new] + u.waits[old] ELSE u.waits[b]
    <3>1. old # new /\ old \in AllNames /\ new \in AllNames /\ u.waits \in [AllNames -> Nat]
      BY <1>1, <1>3, <2>3
    <3> QED  BY <3>1
  <2>5. units'[m] = [status |-> u.status, waits |-> w]
    BY <1>1
  <2>6. u.status \in {"NONE", "READY", "BLOCKED", "DONE"} /\ (u.status = "NONE" => \A b \in AllNames : w[b] = 0)
    <3>1. ~Exists(m) => \A b \in AllNames : units[m].waits[b] = 0
      BY <1>0, <2>1, UnitIs DEF WaitsFor
    <3> QED  BY <1>1, <1>3, <2>1, <2>3, <2>4, <3>1
  <2>7. u.status = "NONE" => units'[m] = NoUnit
    <3>1. (\A b \in AllNames : w[b] = 0) => w = Nobody
      BY <2>4 DEF Nobody
    <3> QED  BY <2>5, <2>6, <3>1 DEF NoUnit
  <2>8. units'[m] \in {NoUnit} \union [status : {"READY", "BLOCKED", "DONE"}, waits : [AllNames -> Nat]]
    BY <2>4, <2>5, <2>6, <2>7
  <2>9. Exists(m)' <=> u.status # "NONE"
    BY <2>5, <2>7 DEF Exists, NoUnit
  <2>10. units'[m].status = u.status /\ units'[m].waits = w
    BY <2>5
  <2>11. \A b \in AllNames : units'[m].waits[b] =
           IF m \in {old, new} THEN 0
           ELSE IF b = old THEN 0
           ELSE IF b = new THEN units[m].waits[new] + units[m].waits[old]
           ELSE units[m].waits[b]
    BY <1>1, <2>3, <2>4, <2>10
  <2> QED  BY <1>3, <2>1, <2>3, <2>8, <2>9, <2>10, <2>11
<1>5. BatchTypes'
  <2>1. units' \in [AllNames -> {NoUnit} \union [status : {"READY", "BLOCKED", "DONE"}, waits : [AllNames -> Nat]]]
    BY <1>1, <1>4
  <2> QED  BY <1>0, <1>1, <1>2, <2>1 DEF BatchTypes
<1>6. Batched' = Batched /\ GivenOnce' = GivenOnce /\ \A m : Repeats(m)' = Repeats(m)
  BY <1>1 DEF Batched, GivenOnce, Repeats
<1>7. \A m, b \in AllNames : units[m].waits[b] \in Nat
  BY <1>0, UnitIs
<1>8. \A m \in AllNames : WaitsFor(m, new) => new \in gone
  <2>1. new \notin Batched
    <3>1. inject.arguments \in Arguments
      BY <1>0, <1>1 DEF InjectFits
    <3>2. inject.arguments \in Seq(ChunkIds)
      BY <3>1, BatchBounds
    <3>3. ToSet(inject.arguments) \subseteq ChunkIds
      BY <3>2 DEF ToSet
    <3> QED  BY <3>3, BatchBounds DEF Batched
  <2> QED  BY <1>0, <1>1, <2>1 DEF WaitsFit
<1>9. ASSUME NEW m \in AllNames, NEW b \in AllNames, WaitsFor(m, b)'
      PROVE  /\ Exists(b)' \/ b \in gone' \/ (b \in Batched' /\ ~GivenOnce')
             /\ units'[b].status # "DONE" \/ b \in gone' \/ Repeats(m)'
             /\ units'[m].waits[b] > 1 => b \in gone' \/ Repeats(m)'
             /\ \E x \in AllNames : WaitsFor(m, x)
  <2>1. m \notin {old, new} /\ b # old
    BY <1>4, <1>9 DEF WaitsFor
  <2>2. CASE b = new
    <3>1. units'[m].waits[b] = units[m].waits[new] + units[m].waits[old]
      BY <1>3, <1>4, <2>1, <2>2
    <3>2. \E x \in AllNames : WaitsFor(m, x)
      BY <1>1, <1>7, <1>9, <3>1 DEF WaitsFor
    <3>3. CASE WaitsFor(m, new)
      BY <1>1, <1>2, <1>4, <1>8, <2>2, <3>2, <3>3
    <3>4. CASE ~WaitsFor(m, new)
      <4>1. units[m].waits[new] = 0 /\ units'[m].waits[b] = units[m].waits[old] /\ WaitsFor(m, old)
        BY <1>1, <1>7, <1>9, <3>1, <3>4 DEF WaitsFor
      <4>2. units[m].waits[old] > 1 => old \in gone \/ Repeats(m)
        BY <1>0, <4>1 DEF WaitsFit
      <4> QED  BY <1>1, <1>2, <1>4, <1>6, <2>2, <3>2, <4>1, <4>2
    <3> QED  BY <3>3, <3>4
  <2>3. CASE b # new
    <3>1. units'[m].waits[b] = units[m].waits[b] /\ WaitsFor(m, b)
      BY <1>4, <1>9, <2>1, <2>3 DEF WaitsFor
    <3>2. /\ Exists(b) \/ b \in gone \/ (b \in Batched /\ ~GivenOnce)
          /\ units[b].status # "DONE" \/ b \in gone \/ Repeats(m)
          /\ units[m].waits[b] > 1 => b \in gone \/ Repeats(m)
      BY <1>0, <3>1 DEF WaitsFit
    <3> QED  BY <1>2, <1>4, <1>6, <2>1, <2>3, <3>1, <3>2
  <2> QED  BY <2>2, <2>3
<1>10. WaitsFit'
  <2>1. inject'.at \in {"idle", "look"} => \A m, b \in AllNames : ~WaitsFor(m, b)'
    BY <1>0, <1>1, <1>9 DEF WaitsFit
  <2>2. ASSUME NEW m \in AllNames
        PROVE  units'[m].status = "BLOCKED" <=> \E b \in AllNames : WaitsFor(m, b)'
    <3>1. CASE m \in {old, new}
      BY <1>4, <3>1 DEF WaitsFor
    <3>2. CASE m \notin {old, new}
      <4>1. units'[m].status = "BLOCKED" <=> \E b \in AllNames : WaitsFor(m, b)
        BY <1>0, <1>4, <3>2 DEF WaitsFit
      <4>2. (\E b \in AllNames : WaitsFor(m, b)') => \E b \in AllNames : WaitsFor(m, b)
        BY <1>9
      <4>3. ASSUME NEW b \in AllNames, WaitsFor(m, b) PROVE \E x \in AllNames : WaitsFor(m, x)'
        <5>1. \A x \in AllNames : units'[m].waits[x] =
                IF x = old THEN 0 ELSE IF x = new THEN units[m].waits[new] + units[m].waits[old]
                ELSE units[m].waits[x]
          BY <1>4, <3>2
        <5>2. \A x \in AllNames : units[m].waits[x] \in Nat
          BY <1>7
        <5>3. units'[m].waits[new] = units[m].waits[new] + units[m].waits[old]
          BY <1>1, <1>3, <5>1
        <5>4. CASE b \in {old, new}
          BY <1>1, <4>3, <5>2, <5>3, <5>4 DEF WaitsFor
        <5>5. CASE b \notin {old, new}
          BY <4>3, <5>1, <5>5 DEF WaitsFor
        <5> QED  BY <5>4, <5>5
      <4> QED  BY <4>1, <4>2, <4>3
    <3> QED  BY <3>1, <3>2
  <2> QED  BY <1>9, <2>1, <2>2 DEF WaitsFit
<1> QED  BY <1>1, <1>2, <1>4, <1>5, <1>10, EventStays

LEMMA DeleteStays ==
  ASSUME BatchIInv, NEW n \in AllNames, DeleteUnit(n)
  PROVE  BatchIInv'
<1>0. BatchTypes /\ WaitsFit
  BY DEF BatchIInv
<1>1. /\ inject' = inject /\ units' = [units EXCEPT ![n] = NoUnit] /\ gone' = gone \union {n}
      /\ inject.at \notin {"idle", "missing", "cycle"}
  BY DEF DeleteUnit, Event
<1>2. BatchTypes'
  BY <1>0, <1>1 DEF BatchTypes
<1>3. \A m \in AllNames : /\ m # n => units'[m] = units[m]
                          /\ m = n => units'[m].status = "NONE" /\ \A b \in AllNames : units'[m].waits[b] = 0
  BY <1>0, <1>1, NobodyIs DEF BatchTypes, NoUnit
<1>4. \A m \in AllNames : m # n => (Exists(m)' <=> Exists(m))
  BY <1>3 DEF Exists
<1>5. \A m, b \in AllNames : WaitsFor(m, b)' <=> m # n /\ WaitsFor(m, b)
  BY <1>3 DEF WaitsFor
<1>6. Batched' = Batched /\ GivenOnce' = GivenOnce /\ \A m : Repeats(m)' = Repeats(m)
  BY <1>1 DEF Batched, GivenOnce, Repeats
<1>7. WaitsFit'
  BY <1>0, <1>1, <1>3, <1>4, <1>5, <1>6 DEF WaitsFit
<1> QED  BY <1>1, <1>2, <1>4, <1>7, EventStays

LEMMA BatchStepStays == BatchIInv /\ [BatchNext]_batchVars => BatchIInv'
<1> SUFFICES ASSUME BatchIInv, [BatchNext]_batchVars PROVE BatchIInv'
  OBVIOUS
<1>1. CASE \E arguments \in Arguments : \E depends \in [ToSet(arguments) -> Declarations] : Read(arguments, depends)
  BY <1>1, ReadStays
<1>2. CASE \E answered \in BOOLEAN : ValidateAndSort(answered)
  BY <1>2, SortStays
<1>3. CASE \E inTime \in BOOLEAN : Post(inTime)
  BY <1>3, PostStays
<1>4. CASE PostRefused
  BY <1>4, RefusedStays
<1>5. CASE \E n \in AllNames : Complete(n)
  BY <1>5, CompletionStays
<1>6. CASE \E n \in AllNames : DeleteUnit(n)
  BY <1>6, DeleteStays
<1>7. CASE \E n \in AllNames : \E new \in SpareNames : GiveName(n, new)
  BY <1>7, GiveNameStays
<1>8. CASE UNCHANGED batchVars
  BY <1>8 DEF batchVars, BatchIInv, BatchTypes, InjectFits, PostedFits, WaitsFit, WaitsFor, Exists,
              Batched, GivenOnce, Repeats
<1> QED  BY <1>1, <1>2, <1>3, <1>4, <1>5, <1>6, <1>7, <1>8 DEF BatchNext

LEMMA BatchInvFollows == BatchIInv => BatchInv
<1> SUFFICES ASSUME BatchIInv PROVE BatchInv
  OBVIOUS
<1> DEFINE a == inject.arguments
           d == inject.depends
           order == TopologicalSort(a, d)
           n == Len(order)
<1>0. BatchTypes /\ InjectFits /\ WaitsFit
  BY DEF BatchIInv
<1>1. inject.at # "idle" => a \in Arguments /\ a \in Seq(ChunkIds) \ {<<>>} /\ d \in Depends(a)
  BY <1>0, NamesAre DEF InjectFits
<1>2. inject.at = "post" => inject.order = order /\ order # <<>> /\ order \in Seq(ChunkIds)
  BY <1>0, <1>1, OrderIs DEF InjectFits
<1>3. inject.at = "post" /\ GivenOnce =>
        /\ \A i, j \in DOMAIN order : order[j] \in ToSet(Declared(d, order[i])) => j < i
        /\ IsInjective(order) /\ ToSet(order) = ToSet(a)
  BY <1>1, <1>2, OrderGoesByDependencies DEF GivenOnce
<1>4. DependenciesPostedFirst
  <2>1. inject.at = "post" => \A c : Occurrences(order, c) = Occurrences(a, c)
    BY <1>1, <1>2, OrderHasAll
  <2> HIDE DEF order
  <2> QED  BY <1>2, <1>3, <2>1 DEF DependenciesPostedFirst, DependsOn
<1>5. CycleIffNoOrder
  <2> DEFINE Ordered == \E rank \in [Batched -> 1 .. Cardinality(Batched)] :
                          \A c, e \in Batched : DependsOn(c, e) => rank[e] < rank[c]
             Once == GivenOnce /\ \A c \in Batched : IsInjective(Declared(inject.depends, c))
  <2>1. ASSUME inject.at = "cycle", Once PROVE ~Ordered
    <3> SUFFICES ASSUME NEW rank \in [Batched -> 1 .. Cardinality(Batched)],
                        \A c, e \in Batched : DependsOn(c, e) => rank[e] < rank[c]
                 PROVE  FALSE
      OBVIOUS
    <3>1. rank \in [ToSet(a) -> Nat]
      BY DEF Batched
    <3>2. TopologicalSort(a, d) = <<>> /\ a \in Seq(ChunkIds) \ {<<>>} /\ d \in Depends(a)
      BY <1>0, <1>1, <2>1 DEF InjectFits
    <3>3. IsInjective(a) /\ \A c \in ToSet(a) : IsInjective(Declared(d, c))
      BY <2>1 DEF GivenOnce, Batched
    <3>4. \A c, e \in ToSet(a) : e \in ToSet(Declared(d, c)) => rank[e] < rank[c]
      BY DEF DependsOn, Batched
    <3> HIDE DEF a, d
    <3> QED  BY <3>1, <3>2, <3>3, <3>4, NoOrderIsACycle
  <2>2. ASSUME inject.at = "post", Once PROVE Ordered
    <3>1. /\ \A i, j \in DOMAIN order : order[j] \in ToSet(Declared(d, order[i])) => j < i
          /\ IsInjective(order) /\ ToSet(order) = Batched /\ order \in Seq(ChunkIds)
      BY <1>2, <1>3, <2>2 DEF Batched
    <3> HIDE DEF order, n
    <3>2. DOMAIN order = 1..n /\ n \in Nat
      BY <3>1 DEF n
    <3>3. Cardinality(Batched) = n
      <4>1. order \in Bijection(1..n, Batched)
        BY <3>1, <3>2 DEF Bijection, Injection, Surjection, ToSet, IsInjective, n
      <4>2. IsFiniteSet(1..n) /\ Cardinality(1..n) = n
        BY <3>2, FS_Interval
      <4> QED  BY <4>1, <4>2, FS_Bijection DEF ExistsBijection
    <3> DEFINE rank == [c \in Batched |-> CHOOSE k \in DOMAIN order : order[k] = c]
    <3>4. \A c \in Batched : rank[c] \in 1..n /\ order[rank[c]] = c
      BY <3>1, <3>2 DEF ToSet
    <3>5. rank \in [Batched -> 1 .. Cardinality(Batched)]
      BY <3>3, <3>4
    <3> HIDE DEF rank
    <3>6. \A c, e \in Batched : DependsOn(c, e) => rank[e] < rank[c]
      BY <3>1, <3>2, <3>4 DEF DependsOn
    <3> QED  BY <3>5, <3>6
  <2> QED  BY <2>1, <2>2 DEF CycleIffNoOrder
<1>6. BlockersExist
  BY <1>0 DEF WaitsFit, BlockersExist
<1>7. BlockedForAReason
  BY <1>0 DEF WaitsFit, BlockedForAReason, Repeats
<1> QED  BY <1>4, <1>5, <1>6, <1>7 DEF BatchInv

\* `ve orch inject' of a batch: the chunks are injected in an order of their dependencies,
\* or there is none; and what waits then waits for something.
THEOREM BatchCorrect == BatchSpec => []BatchInv
<1>1. BatchSpec => []BatchIInv
  BY BatchInitIs, BatchStepStays, PTL DEF BatchSpec
<1> QED  BY <1>1, BatchInvFollows, PTL
=============================================================================
