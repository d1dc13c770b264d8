----------------------------- MODULE FileStorage -----------------------------
(***************************************************************************)
(* The files of one channel of the message board                           *)
(* (src/src/leader_board/fs_storage.py): messages.jsonl with a line per    *)
(* message, and meta.json with the positions of its ends.  LeaderBoard     *)
(* takes an append and a compaction for one step; here each file operation *)
(* is one, a server may be killed between any two, and several servers may *)
(* have one directory.                                                     *)
(*                                                                         *)
(* Only an append holds the channel's lock.  The text of meta.json is      *)
(* written into the emptied file.                                          *)
(***************************************************************************)
EXTENDS Naturals, Sequences

CONSTANTS
  Servers,
  MaxAppends,      \* bound: messages
  MaxServerKills   \* bound: servers killed

ASSUME StorageBounds ==
  MaxAppends \in Nat \ {0} /\ MaxServerKills \in Nat /\ "nobody" \notin Servers

VARIABLES
  lines,      \* messages.jsonl: [pos, id]; ids count the lines ever written
  metaFile,   \* meta.json: [text, head, oldest]; text: "none" without a file, "empty"
  locker,     \* the server that holds the lock, or "nobody"
  at,         \* at[s]: where server s is
  got,        \* got[s]: what it read: [head, oldest, keep]
  sent,       \* the lines written so far
  kills,
  torn,       \* history: ids of lines whose server died before it wrote meta.json
  cut,        \* history: a server died between the two files of a compaction
  overtaken,  \* history: a server worked during another's compaction
  taken,      \* history: ids that append_message has returned
  dropped     \* history: ids that a compaction left out

storageVars ==
  <<lines, metaFile, locker, at, got, sent, kills, torn, cut, overtaken, taken, dropped>>

NoText == [text |-> "none", head |-> 0, oldest |-> 1]
Nothing == [head |-> 0, oldest |-> 1, keep |-> <<>>]
Places == {"idle", "line", "meta", "metaText", "replace", "reread", "oldest", "oldestText"}
Compacting(s) == at[s] \in {"replace", "reread", "oldest", "oldestText"}
Newest == lines[Len(lines)]
Ids(ls) == {ls[i].id : i \in DOMAIN ls}
Goto(s, place) == at' = [at EXCEPT ![s] = place]
Overlap == \E s, t \in Servers : s # t /\ Compacting(s) /\ at[t] # "idle"

StorageInit ==
  /\ lines = <<>> /\ metaFile = NoText /\ locker = "nobody"
  /\ at = [s \in Servers |-> "idle"] /\ got = [s \in Servers |-> Nothing]
  /\ sent = 0 /\ kills = 0
  /\ torn = {} /\ cut = FALSE /\ overtaken = FALSE /\ taken = {} /\ dropped = {}

-----------------------------------------------------------------------------
(* append_message.  On an emptied meta.json json.loads raises.             *)

LockAndRead(s) ==
  /\ at[s] = "idle" /\ locker = "nobody" /\ sent < MaxAppends
  /\ metaFile.text # "empty"
  /\ locker' = s
  /\ got' = [got EXCEPT ![s] = [Nothing EXCEPT !.head = metaFile.head, !.oldest = metaFile.oldest]]
  /\ Goto(s, "line")
  /\ UNCHANGED <<lines, metaFile, sent, kills, torn, cut, taken, dropped>>

NextPosition(s) == got[s].head + 1

AppendLine(s) ==
  /\ at[s] = "line"
  /\ sent' = sent + 1
  /\ lines' = Append(lines, [pos |-> NextPosition(s), id |-> sent'])
  /\ got' = [got EXCEPT ![s].head = NextPosition(s)]
  /\ Goto(s, "meta")
  /\ UNCHANGED <<metaFile, locker, kills, torn, cut, taken, dropped>>

\* _write_meta, here and in compact: the file is emptied, then written.
EmptyMeta(s) ==
  /\ at[s] \in {"meta", "oldest"}
  /\ metaFile' = [metaFile EXCEPT !.text = "empty"]
  /\ Goto(s, IF at[s] = "meta" THEN "metaText" ELSE "oldestText")
  /\ UNCHANGED <<lines, locker, got, sent, kills, torn, cut, taken, dropped>>

WriteMeta(s) ==
  metaFile' = [text |-> "there", head |-> got[s].head, oldest |-> got[s].oldest]

\* The append returns: its message is the last it wrote.
AppendReturns(s) ==
  /\ at[s] = "metaText"
  /\ WriteMeta(s)
  /\ locker' = "nobody"
  /\ taken' = taken \union {sent}
  /\ got' = [got EXCEPT ![s] = Nothing]
  /\ Goto(s, "idle")
  /\ UNCHANGED <<lines, sent, kills, torn, cut, dropped>>

-----------------------------------------------------------------------------
(* compact, without the lock.  The later a line, the younger: what is kept *)
(* is the lines from some line on, and always the newest.                  *)

Kept(first) == SubSeq(lines, first, Len(lines))

StartCompaction(s) ==
  /\ at[s] = "idle"
  /\ \E first \in 2 .. Len(lines) :
       /\ got' = [got EXCEPT ![s].keep = Kept(first)]
       /\ dropped' = dropped \union (Ids(lines) \ Ids(Kept(first)))
  /\ Goto(s, "replace")
  /\ UNCHANGED <<lines, metaFile, locker, sent, kills, torn, cut, taken>>

ReplaceLines(s) ==
  /\ at[s] = "replace"
  /\ lines' = got[s].keep
  /\ Goto(s, "reread")
  /\ UNCHANGED <<metaFile, locker, got, sent, kills, torn, cut, taken, dropped>>

\* Without meta.json that was all; an emptied one raises.
RereadMeta(s) ==
  /\ at[s] = "reread"
  /\ IF metaFile.text = "there"
     THEN /\ got' = [got EXCEPT ![s].head = metaFile.head, ![s].oldest = Head(got[s].keep).pos]
          /\ Goto(s, "oldest") /\ cut' = cut
     ELSE /\ got' = [got EXCEPT ![s] = Nothing]
          /\ Goto(s, "idle") /\ cut' = (cut \/ metaFile.text = "empty")
  /\ UNCHANGED <<lines, metaFile, locker, sent, kills, torn, taken, dropped>>

CompactionReturns(s) ==
  /\ at[s] = "oldestText"
  /\ WriteMeta(s)
  /\ got' = [got EXCEPT ![s] = Nothing]
  /\ Goto(s, "idle")
  /\ UNCHANGED <<lines, locker, sent, kills, torn, cut, taken, dropped>>

-----------------------------------------------------------------------------
(* A killed server gives its lock back; it is started again.               *)
ServerKilled(s) ==
  /\ at[s] # "idle" /\ kills < MaxServerKills
  /\ kills' = kills + 1
  /\ locker' = IF locker = s THEN "nobody" ELSE locker
  /\ torn' = IF at[s] = "meta" THEN torn \union {sent} ELSE torn
  /\ cut' = (cut \/ at[s] \in {"reread", "oldest"})
  /\ got' = [got EXCEPT ![s] = Nothing]
  /\ Goto(s, "idle")
  /\ UNCHANGED <<lines, metaFile, sent, taken, dropped>>

StorageNext ==
  /\ \E s \in Servers :
       \/ LockAndRead(s) \/ AppendLine(s) \/ EmptyMeta(s) \/ AppendReturns(s)
       \/ StartCompaction(s) \/ ReplaceLines(s) \/ RereadMeta(s) \/ CompactionReturns(s)
       \/ ServerKilled(s)
  /\ overtaken' = (overtaken \/ Overlap')

StorageSpec == StorageInit /\ [][StorageNext]_storageVars

-----------------------------------------------------------------------------
(* Properties.                                                             *)

StorageTypeOK ==
  /\ \A i \in DOMAIN lines : lines[i].pos \in 1..MaxAppends /\ lines[i].id \in 1..MaxAppends
  /\ metaFile \in [text : {"none", "empty", "there"}, head : 0..MaxAppends, oldest : 1..MaxAppends]
  /\ locker \in Servers \union {"nobody"} /\ at \in [Servers -> Places]
  /\ \A s \in Servers : at[s] \in {"line", "meta", "metaText"} <=> locker = s

(* Of two lines with one position the earlier is of a server that died     *)
(* between it and meta.json (fs_storage.py:126): a reader that was given   *)
(* that one passes over the message that follows.  The lock keeps servers  *)
(* that share the directory apart, but not from a compaction.              *)
PositionsTellApart ==
  overtaken \/ \A i, j \in DOMAIN lines : i < j =>
    \/ lines[i].pos < lines[j].pos
    \/ lines[i].pos = lines[j].pos /\ lines[i].id \in torn

(* A message whose send was answered is there until a compaction leaves it *)
(* out for its age, through any kill; only a message that another server   *)
(* takes during a compaction can be lost with the replaced file.           *)
TakenAreKept == overtaken \/ taken \subseteq Ids(lines) \union dropped

(* Between operations meta.json tells the ends of the file, so that        *)
(* read_after tells a reader of a gap that compaction left before it; but  *)
(* for the line of a server that died, and for a compaction that was cut   *)
(* between the two files, after which the gap is passed over in silence.   *)
MetaTellsEnds ==
  (\A s \in Servers : at[s] = "idle") /\ metaFile.text = "there" /\ ~overtaken =>
    /\ metaFile.oldest = lines[1].pos \/ (cut /\ metaFile.oldest < lines[1].pos)
    /\ \/ metaFile.head = Newest.pos
       \/ metaFile.head + 1 = Newest.pos /\ Newest.id \in torn

(* An emptied meta.json, on which every operation of the channel fails for *)
(* good, is being written, or a server was killed there.                   *)
EmptyIsBeingWritten ==
  metaFile.text = "empty" =>
    kills > 0 \/ \E s \in Servers : at[s] \in {"metaText", "oldestText"}

(* The invariant of the module.                                            *)
StorageInv ==
  /\ StorageTypeOK
  /\ PositionsTellApart /\ TakenAreKept /\ MetaTellsEnds /\ EmptyIsBeingWritten
=============================================================================
