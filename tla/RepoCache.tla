----------------------------- MODULE RepoCache -----------------------------
(***************************************************************************)
(* The cache of external repositories, ~/.ve/cache/repos                   *)
(* (src/src/repo_cache.py), and the command that reads an external         *)
(* artifact through it (resolve_artifact_single_repo in                    *)
(* src/src/external_resolve.py).  Several commands use one cache and hold  *)
(* no lock; each step is one git command.                                  *)
(*                                                                         *)
(* A commit of the remote's default branch is its number; the artifact's   *)
(* text is the commit's number.                                            *)
(***************************************************************************)
EXTENDS Naturals

CONSTANTS
  Readers,    \* commands that run `ve external resolve'
  MaxPushes,  \* bound: commits pushed to the remote
  MaxFaults   \* bound: commands killed, fetches that fail

ASSUME CacheBounds == MaxPushes \in Nat /\ MaxFaults \in Nat

VARIABLES
  remote,   \* the head of the default branch
  cache,    \* the directory: what it is, its origin/HEAD and its checkout
  reader,   \* the commands
  faults,
  killed    \* history: a command was killed while it cloned

cacheVars == <<remote, cache, reader, faults, killed>>

(* "bare": of an older version.  "partial": a clone has begun there.       *)
Cache == [state : {"absent", "partial", "ready", "bare"}, origin : Nat, head : Nat]
Absent == [state |-> "absent", origin |-> 0, head |-> 0]

(* A command makes the cache current before each thing it asks: first      *)
(* alone, then for the ref, the text and the plan; then it lists the       *)
(* checkout's directory.                                                   *)
Asks == {"only", "ref", "text", "plan"}
Steps == {"look", "remove", "fetch", "reset", "clone", "cloning", "ask", "list"}
Reader ==
  [pc : Steps \cup {"idle", "shown", "failed"}, ask : Asks, began : Nat,
   sha : Nat, text : Nat, listed : Nat]
NoReader == [pc |-> "idle", ask |-> "only", began |-> 0, sha |-> 0, text |-> 0, listed |-> 0]

CacheInit ==
  /\ remote = 1 /\ faults = 0 /\ killed = FALSE
  /\ cache \in {Absent, [state |-> "ready", origin |-> 1, head |-> 1],
                [state |-> "bare", origin |-> 1, head |-> 0]}
  /\ reader = [r \in Readers |-> NoReader]

-----------------------------------------------------------------------------

Push ==
  /\ remote <= MaxPushes
  /\ remote' = remote + 1
  /\ UNCHANGED <<cache, reader, faults, killed>>

Resolve(r) ==
  /\ reader[r].pc = "idle"
  /\ reader' = [reader EXCEPT ![r] = [NoReader EXCEPT !.pc = "look", !.began = remote]]
  /\ UNCHANGED <<remote, cache, faults, killed>>

Proceed(r, pc) == reader' = [reader EXCEPT ![r].pc = pc]

(* A git command that fails is the end of the command, unless it was asked *)
(* for the plan: that is left out.                                         *)
Refused(r) == Proceed(r, IF reader[r].ask = "plan" THEN "list" ELSE "failed")

(* In a directory that is gone, no git command starts.                     *)
Unusable(r) == IF cache.state = "absent" THEN Proceed(r, "failed") ELSE Refused(r)

(* ensure_cached: a bare repository of an older version is removed; git in *)
(* a half made clone says neither bare nor not.                            *)
Look(r) ==
  /\ reader[r].pc = "look"
  /\ Proceed(r, CASE cache.state = "absent" -> "clone"
             [] cache.state = "bare" -> "remove"
             [] OTHER -> "fetch")
  /\ UNCHANGED <<remote, cache, faults, killed>>

(* Whatever is there by now. *)
RemoveBare(r) ==
  /\ reader[r].pc = "remove"
  /\ cache' = Absent
  /\ Proceed(r, IF cache.state = "absent" THEN "failed" ELSE "clone")
  /\ UNCHANGED <<remote, faults, killed>>

Fetch(r) ==
  /\ reader[r].pc = "fetch"
  /\ IF cache.state = "ready"
     THEN cache' = [cache EXCEPT !.origin = remote] /\ Proceed(r, "reset")
     ELSE UNCHANGED cache /\ Unusable(r)
  /\ UNCHANGED <<remote, faults, killed>>

FetchFails(r) ==
  /\ reader[r].pc = "fetch" /\ faults < MaxFaults
  /\ faults' = faults + 1
  /\ Unusable(r)
  /\ UNCHANGED <<remote, cache, killed>>

(* git reset --hard origin/HEAD *)
Reset(r) ==
  /\ reader[r].pc = "reset"
  /\ IF cache.state = "ready"
     THEN cache' = [cache EXCEPT !.head = cache.origin] /\ Proceed(r, "ask")
     ELSE UNCHANGED cache /\ Unusable(r)
  /\ UNCHANGED <<remote, faults, killed>>

(* git clone, which refuses a directory that is not empty. *)
CloneBegins(r) ==
  /\ reader[r].pc = "clone"
  /\ IF cache.state = "absent"
     THEN cache' = [Absent EXCEPT !.state = "partial"] /\ Proceed(r, "cloning")
     ELSE UNCHANGED cache /\ Refused(r)
  /\ UNCHANGED <<remote, faults, killed>>

CloneEnds(r) ==
  /\ reader[r].pc = "cloning"
  /\ IF cache.state = "partial"
     THEN cache' = [state |-> "ready", origin |-> remote, head |-> remote] /\ Proceed(r, "ask")
     ELSE UNCHANGED cache /\ Refused(r)
  /\ UNCHANGED <<remote, faults, killed>>

(* The network fails: git removes what it cloned.                          *)
CloneFails(r) ==
  /\ reader[r].pc = "cloning" /\ faults < MaxFaults
  /\ faults' = faults + 1
  /\ cache' = IF cache.state = "partial" THEN Absent ELSE cache
  /\ Refused(r)
  /\ UNCHANGED <<remote, killed>>

(* A question is answered, and the cache is made current for the next.     *)
Answered(r, ask, field, value, next) ==
  /\ reader[r].pc = "ask" /\ reader[r].ask = ask
  /\ cache.state = "ready"
  /\ reader' = [reader EXCEPT ![r] = [[@ EXCEPT ![field] = value]
                                         EXCEPT !.pc = "look", !.ask = next]]
  /\ UNCHANGED <<remote, cache, faults, killed>>

Cached(r) ==
  /\ reader[r].pc = "ask" /\ reader[r].ask = "only"
  /\ reader' = [reader EXCEPT ![r].pc = "look", ![r].ask = "ref"]
  /\ UNCHANGED <<remote, cache, faults, killed>>

ResolveRef(r) == Answered(r, "ref", "sha", cache.head, "text")

\* Mutant: the text is read from the checkout.
GetFileFromCheckout(r) == Answered(r, "text", "text", cache.head, "plan")

(* get_file_at_ref, at the commit that was resolved.                       *)
GetFile(r) == Answered(r, "text", "text", reader[r].sha, "plan")

GetPlan(r) ==
  /\ reader[r].pc = "ask" /\ reader[r].ask = "plan"
  /\ cache.state = "ready"
  /\ Proceed(r, "list")
  /\ UNCHANGED <<remote, cache, faults, killed>>

(* _with_fetch_retry: the fetch and the second try fail as the first did.  *)
AskFails(r) ==
  /\ reader[r].pc = "ask" /\ reader[r].ask # "only"
  /\ cache.state # "ready"
  /\ Unusable(r)
  /\ UNCHANGED <<remote, cache, faults, killed>>

(* The directory is the checkout's, as another command may have reset or   *)
(* removed it; without one the list is empty, here 0.                      *)
List(r) ==
  /\ reader[r].pc = "list"
  /\ reader' = [reader EXCEPT ![r] = [@ EXCEPT !.pc = "shown", !.listed = cache.head]]
  /\ UNCHANGED <<remote, cache, faults, killed>>

Again(r) ==
  /\ reader[r].pc \in {"shown", "failed"}
  /\ reader' = [reader EXCEPT ![r] = NoReader]
  /\ UNCHANGED <<remote, cache, faults, killed>>

(* SIGKILL, a power failure: what was cloned stays.                        *)
KillReader(r) ==
  /\ reader[r].pc \in Steps /\ faults < MaxFaults
  /\ faults' = faults + 1
  /\ killed' = (killed \/ reader[r].pc = "cloning")
  /\ reader' = [reader EXCEPT ![r] = NoReader]
  /\ UNCHANGED <<remote, cache>>

ReaderStep(r) ==
  \/ Resolve(r) \/ Look(r) \/ RemoveBare(r) \/ Fetch(r) \/ FetchFails(r) \/ Reset(r)
  \/ CloneBegins(r) \/ CloneEnds(r) \/ CloneFails(r)
  \/ Cached(r) \/ ResolveRef(r) \/ GetFile(r) \/ GetPlan(r) \/ AskFails(r) \/ List(r) \/ Again(r) \/ KillReader(r)

CacheNext == Push \/ \E r \in Readers : ReaderStep(r)

CacheSpec == CacheInit /\ [][CacheNext]_cacheVars

-----------------------------------------------------------------------------
(* Properties.                                                             *)

(* The type invariant. *)
CacheTypeOK ==
  /\ cache \in Cache /\ reader \in [Readers -> Reader]
  /\ remote \in 1..(MaxPushes + 1) /\ faults \in 0..MaxFaults /\ killed \in BOOLEAN

(* "Always resolves to the tracked branch" (external_resolve.py:265): what *)
(* a command shows is of one commit, that was the branch's head since the  *)
(* command began, whatever other commands did to the cache; only the       *)
(* directory's list may be of a later one, or empty.                       *)
ShownIsCurrent ==
  \A r \in Readers : reader[r].pc = "shown" =>
    /\ reader[r].text = reader[r].sha
    /\ reader[r].began <= reader[r].sha /\ reader[r].sha <= remote
    /\ reader[r].listed >= reader[r].sha \/ reader[r].listed = 0

(* A clone that is not complete is being completed, or a command was       *)
(* killed while it cloned; then it stays, and every command fails on it.   *)
PartialIsCloning ==
  cache.state = "partial" => killed \/ \E r \in Readers : reader[r].pc = "cloning"

(* The invariant of the module: its types, what is shown, and who leaves a *)
(* clone that is not complete.                                             *)
CacheInv == CacheTypeOK /\ ShownIsCurrent /\ PartialIsCloning
=============================================================================
