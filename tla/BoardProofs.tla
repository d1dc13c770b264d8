------------------------------ MODULE BoardProofs ------------------------------
(***************************************************************************)
(* Proofs about the local message board and its clients, for any number of *)
(* channels, messages, projects, reconnects and faults.                    *)
(***************************************************************************)
EXTENDS LeaderBoard, FiniteSetTheorems, TLAPS

-----------------------------------------------------------------------------
(* Types. *)

Tasks == [ch : Channels, after : Nat]
Frames == [type : {"message", "channel_not_found", "cursor_expired"}, ch : Channels, pos : Nat]
Lines == [pos : Nat, msg : Messages]
Processes == [pc : {"off", "recv", "printed", "connect"}, mode : {"watch", "multi", "manual"},
              at : [Channels -> Nat], chs : SUBSET Channels, active : SUBSET Channels,
              conn : BOOLEAN, reg : {0, 1}, attempt : 0 .. MaxRetries, left : Nat,
              ch : Channels \cup {AChannel}]
Acks == [pc : {"off", "asked"}, owed : [Channels -> Nat], head : Int,
         ch : Channels \cup {AChannel}]

Types == /\ lines \in [Channels -> Seq(Lines)]
         /\ meta \in [Channels -> [head : Nat, oldest : Nat]]
         /\ up \in BOOLEAN /\ faults \in Nat
         /\ ready \in [Projects -> Seq(Tasks)]
         /\ parked \in [Projects -> [Channels -> Seq(Tasks)]]
         /\ down \in [Projects -> Seq(Frames)]
         /\ proc \in [Projects -> Processes]
         /\ cursor \in [Projects -> [Channels -> Nat]]
         /\ ack \in [Projects -> Acks]
         /\ printed \in [Projects -> [Channels -> SUBSET Nat]]

-----------------------------------------------------------------------------
(* The inductive invariant. *)

\* The lines of a channel are numbered up to its head, one by one from the oldest.
Numbered(ch) ==
  /\ meta[ch].head <= Cardinality(Messages)
  /\ meta[ch] = NoMeta => lines[ch] = <<>>
  /\ meta[ch] # NoMeta =>
       /\ lines[ch] # <<>> /\ meta[ch].oldest >= 1
       /\ meta[ch].oldest + Len(lines[ch]) = meta[ch].head + 1
       /\ \A i \in DOMAIN lines[ch] : lines[ch][i].pos + 1 = meta[ch].oldest + i

\* A process without a connection has nothing at the server.
Connections(p) ==
  /\ proc[p].pc = "off" => proc[p] = Off
  /\ proc[p].pc \in {"off", "connect"} => ~proc[p].conn /\ down[p] = <<>>
  /\ ~up => ~proc[p].conn
  /\ ~proc[p].conn => ready[p] = <<>> /\ parked[p] = NoneParked

IsMessage(f, ch) == f.type = "message" /\ f.ch = ch

\* What is on the way is the message the client has, or the next one, in order.
FramesNext(p, ch) ==
  /\ \A i \in DOMAIN down[p] : IsMessage(down[p][i], ch) =>
        /\ down[p][i].pos \in {proc[p].at[ch], proc[p].at[ch] + 1}
        /\ down[p][i].pos \in 1 .. HeadOf(ch)
  /\ \A i, j \in DOMAIN down[p] :
        i < j /\ IsMessage(down[p][i], ch) /\ IsMessage(down[p][j], ch)
          => down[p][i].pos <= down[p][j].pos

\* What the tasks that will run are to send is the same, in order and after it.
TasksNext(p, ch) ==
  /\ \A i \in DOMAIN ready[p] : ready[p][i].ch = ch =>
        ready[p][i].after <= proc[p].at[ch] /\ proc[p].at[ch] <= ready[p][i].after + 1
  /\ \A i, j \in DOMAIN ready[p] : i < j /\ ready[p][i].ch = ch /\ ready[p][j].ch = ch
        => ready[p][i].after <= ready[p][j].after
  /\ \A i \in DOMAIN down[p], j \in DOMAIN ready[p] :
        IsMessage(down[p][i], ch) /\ ready[p][j].ch = ch
          => down[p][i].pos <= ready[p][j].after + 1

\* A task that waits has sent everything there is, and so has every other of its channel.
ParkedAtHead(p, ch) ==
  \A i \in DOMAIN parked[p][ch] : /\ parked[p][ch][i] = [ch |-> ch, after |-> HeadOf(ch)]
                                  /\ proc[p].at[ch] = HeadOf(ch)

\* The user has seen a prefix of the log, at least as far as the process is, and as far as
\* the cursor file stands and will be moved by the acks that are owed.
SeenPrefix(p, ch) ==
  \E k \in 0 .. HeadOf(ch) :
    /\ printed[p][ch] = 1 .. k
    /\ proc[p].at[ch] <= k
    /\ cursor[p][ch] + ack[p].owed[ch] <= k
    /\ proc[p].pc # "off" => cursor[p][ch] + ack[p].owed[ch] <= proc[p].at[ch]

\* A watch-multi saves its cursor itself, after each print.
SavesItself(p, ch) ==
  proc[p].mode = "multi" =>
    /\ ack[p].pc = "off" /\ ack[p].owed[ch] = 0
    /\ \/ proc[p].at[ch] = cursor[p][ch]
       \/ /\ proc[p].pc = "printed" /\ proc[p].ch = ch
          /\ proc[p].at[ch] = cursor[p][ch] + 1

\* It asks for nothing that comes later than the message after its saved cursor.
AsksSaved(p, ch) ==
  proc[p].mode = "multi" =>
    /\ \A i \in DOMAIN down[p] : IsMessage(down[p][i], ch) => down[p][i].pos <= cursor[p][ch] + 1
    /\ \A i \in DOMAIN ready[p] : ready[p][i].ch = ch => ready[p][i].after <= cursor[p][ch]
    /\ parked[p][ch] # <<>> => HeadOf(ch) <= cursor[p][ch]

\* An ack that was begun is owed.
AckOwed(p) == ack[p].pc = "asked" => ack[p].ch \in Channels /\ ack[p].owed[ack[p].ch] > 0

Inductive ==
  /\ Types
  /\ \A ch \in Channels : Numbered(ch)
  /\ \A p \in Projects : Connections(p) /\ AckOwed(p)
  /\ \A p \in Projects, ch \in Channels :
       /\ FramesNext(p, ch) /\ TasksNext(p, ch) /\ ParkedAtHead(p, ch)
       /\ SeenPrefix(p, ch) /\ SavesItself(p, ch) /\ AsksSaved(p, ch)
-----------------------------------------------------------------------------
(* Lemmas about the operators of the board. *)

\* The frames of a watch ask for messages after the given cursors.
LEMMA WatchFramesAsk ==
  ASSUME NEW at \in [Channels -> Nat], NEW chs \in SUBSET Channels
  PROVE  /\ WatchFrames(at, chs) \in Seq(Tasks)
         /\ \A i \in DOMAIN WatchFrames(at, chs) :
              WatchFrames(at, chs)[i].after = at[WatchFrames(at, chs)[i].ch]
<1> DEFINE order == SetToSeq(chs)
           n == Cardinality(chs)
<1>1. n \in Nat /\ ExistsBijection(1 .. n, chs)
  BY BoardBounds, FS_Subset, FS_CardinalityType DEF BoardBounds
<1>2. order \in [1 .. n -> chs]
  <2>1. \E f \in [1 .. n -> chs] : IsInjective(f)
    BY <1>1 DEF ExistsBijection, Bijection, Injection, Surjection, IsInjective
  <2> QED  BY <2>1 DEF SetToSeq
<1> HIDE DEF order, n
<1>3. WatchFrames(at, chs) = [i \in 1 .. n |-> [ch |-> order[i], after |-> at[order[i]]]]
  BY <1>2 DEF WatchFrames, Task, order
<1> QED  BY <1>1, <1>2, <1>3 DEF Tasks

\* The first line after a cursor that is not behind the oldest line has the next position.
LEMMA ReadAfterIsNext ==
  ASSUME Types, NEW ch \in Channels, Numbered(ch), meta[ch] # NoMeta,
         NEW c \in Nat, meta[ch].oldest <= c + 1
  PROVE  /\ \A line \in ReadAfter(ch, c) : line.pos = c + 1 /\ c + 1 <= HeadOf(ch)
         /\ ReadAfter(ch, c) = {} => HeadOf(ch) <= c
<1> DEFINE n == Len(lines[ch])
           j == c + 2 - meta[ch].oldest
           later == {i \in DOMAIN lines[ch] : lines[ch][i].pos > c}
<1>1. /\ lines[ch] \in Seq(Lines) /\ DOMAIN lines[ch] = 1 .. n /\ n \in Nat
      /\ meta[ch].oldest \in Nat /\ meta[ch].oldest >= 1 /\ HeadOf(ch) \in Nat
      /\ meta[ch].oldest + n = HeadOf(ch) + 1
      /\ \A i \in 1 .. n : lines[ch][i].pos \in Nat /\ lines[ch][i].pos + 1 = meta[ch].oldest + i
  <2>1. /\ lines[ch] \in Seq(Lines) /\ meta[ch] \in [head : Nat, oldest : Nat]
        /\ meta[ch].oldest >= 1 /\ meta[ch].oldest + n = HeadOf(ch) + 1
    BY DEF Types, Numbered, HeadOf
  <2>2. DOMAIN lines[ch] = 1 .. n /\ n \in Nat /\ HeadOf(ch) \in Nat /\ meta[ch].oldest \in Nat
    BY <2>1 DEF HeadOf
  <2>3. ASSUME NEW i \in 1 .. n
        PROVE  lines[ch][i].pos \in Nat /\ lines[ch][i].pos + 1 = meta[ch].oldest + i
    <3>1. lines[ch][i] \in Lines
      BY <2>1, <2>2
    <3> QED  BY <2>2, <3>1 DEF Lines, Numbered
  <2> QED  BY <2>1, <2>2, <2>3
<1>2. j \in Nat /\ j >= 1
  BY <1>1
<1>3. later = {i \in 1 .. n : i >= j}
  <2>1. ASSUME NEW i \in 1 .. n PROVE lines[ch][i].pos > c <=> i >= j
    <3>1. ASSUME NEW x \in Nat, NEW o \in Nat, x + 1 = o + i PROVE x > c <=> i >= c + 2 - o
      BY <1>1, <3>1
    <3> QED  BY <1>1, <3>1
  <2> QED  BY <1>1, <2>1
<1>4. ReadAfter(ch, c) = {lines[ch][i] : i \in {i \in later : \A k \in later : i <= k}}
  BY DEF ReadAfter
<1> HIDE DEF later, j
<1>5. CASE j > n
  <2>1. later = {}
    BY <1>1, <1>2, <1>3, <1>5
  <2> QED  BY <1>1, <1>4, <1>5, <2>1 DEF j
<1>6. CASE j <= n
  <2>1. {i \in later : \A k \in later : i <= k} = {j}
    BY <1>1, <1>2, <1>3, <1>6
  <2>2. ReadAfter(ch, c) = {lines[ch][j]}
    BY <1>4, <2>1
  <2>3. lines[ch][j].pos + 1 = meta[ch].oldest + j /\ lines[ch][j].pos \in Nat
    BY <1>1, <1>2, <1>6
  <2>4. lines[ch][j].pos = c + 1
    <3>1. ASSUME NEW x \in Nat, NEW o \in Nat, x + 1 = o + (c + 2 - o) PROVE x = c + 1
      BY <3>1
    <3> QED  BY <1>1, <2>3, <3>1 DEF j
  <2>5. c + 1 <= HeadOf(ch)
    BY <1>1, <1>6 DEF j
  <2> QED  BY <2>2, <2>4, <2>5
<1> QED  BY <1>1, <1>2, <1>5, <1>6

\* A watch task sends the message after its cursor, an error, or waits at the head.
LEMMA RepliesAreNext ==
  ASSUME Types, NEW t \in Tasks, Numbered(t.ch)
  PROVE  /\ \A f \in Replies(t) :
              /\ f \in Frames /\ f.ch = t.ch
              /\ f.type = "message" => f.pos = t.after + 1 /\ f.pos \in meta[t.ch].oldest .. HeadOf(t.ch)
         /\ Replies(t) = {} => HeadOf(t.ch) <= t.after
<1>1. t.ch \in Channels /\ t.after \in Nat /\ meta[t.ch].oldest \in Nat
  BY DEF Tasks, Types
<1>2. CASE ~Known(t.ch)
  <2>1. Replies(t) = {[type |-> "channel_not_found", ch |-> t.ch, pos |-> 0]}
    BY <1>2 DEF Replies, Error
  <2>2. \A f \in Replies(t) : f \in Frames /\ f.ch = t.ch /\ f.type # "message"
    BY <1>1, <2>1 DEF Frames
  <2> QED  BY <2>1, <2>2
<1>3. CASE Known(t.ch) /\ t.after + 1 < meta[t.ch].oldest
  <2>1. Replies(t) = {[type |-> "cursor_expired", ch |-> t.ch, pos |-> 0]}
    BY <1>3 DEF Replies, Error
  <2>2. \A f \in Replies(t) : f \in Frames /\ f.ch = t.ch /\ f.type # "message"
    BY <1>1, <2>1 DEF Frames
  <2> QED  BY <2>1, <2>2
<1>4. CASE Known(t.ch) /\ ~(t.after + 1 < meta[t.ch].oldest)
  <2>1. Replies(t) = {Message(t, line) : line \in ReadAfter(t.ch, t.after)}
    BY <1>4 DEF Replies
  <2>2. /\ \A line \in ReadAfter(t.ch, t.after) :
             line.pos = t.after + 1 /\ t.after + 1 <= HeadOf(t.ch)
        /\ ReadAfter(t.ch, t.after) = {} => HeadOf(t.ch) <= t.after
    BY <1>1, <1>4, ReadAfterIsNext DEF Known
  <2>3. \A line \in ReadAfter(t.ch, t.after) :
          LET f == Message(t, line)
          IN  f \in Frames /\ f.type = "message" /\ f.ch = t.ch /\ f.pos = t.after + 1
    BY <1>1, <2>2 DEF Message, Frames
  <2>4. ReadAfter(t.ch, t.after) # {} => t.after + 1 \in meta[t.ch].oldest .. HeadOf(t.ch)
    <3>1. HeadOf(t.ch) \in Nat
      BY <1>1 DEF Types, HeadOf
    <3> QED  BY <1>1, <1>4, <2>2, <3>1
  <2> QED  BY <2>1, <2>2, <2>3, <2>4
<1> QED  BY <1>2, <1>3, <1>4

-----------------------------------------------------------------------------
(* Storage. *)

\* What a step does to a channel: a line at the end, a prefix gone, or nothing.
Grows(ch) ==
  \E m \in Messages :
    /\ lines'[ch] = Append(lines[ch], [pos |-> HeadOf(ch) + 1, msg |-> m])
    /\ HeadOf(ch) < Cardinality(Messages)
    /\ meta'[ch] = [head |-> HeadOf(ch) + 1,
                    oldest |-> IF meta[ch] = NoMeta THEN 1 ELSE meta[ch].oldest]
Shrinks(ch) ==
  \E k \in 2 .. Len(lines[ch]) :
    /\ lines'[ch] = SubSeq(lines[ch], k, Len(lines[ch]))
    /\ meta'[ch] = [head |-> HeadOf(ch), oldest |-> lines[ch][k].pos]
SameLog(ch) == lines'[ch] = lines[ch] /\ meta'[ch] = meta[ch]
ChannelStep(ch) == Grows(ch) \/ Shrinks(ch) \/ SameLog(ch)

\* Send is Grows, for one channel.
LEMMA SendGrows ==
  ASSUME Types, NEW ch \in Channels, NEW m \in Messages, Send(ch, m)
  PROVE  Grows(ch) /\ \A c \in Channels \ {ch} : SameLog(c)
<1>1. meta[ch] \in [head : Nat, oldest : Nat] /\ lines[ch] \in Seq(Lines)
  BY DEF Types
<1>2. meta[ch] = [head |-> meta[ch].head, oldest |-> meta[ch].oldest]
  BY <1>1
<1>3. meta[ch] = NoMeta => meta[ch].head = 0
  BY DEF NoMeta
<1>4. PICK was \in {meta[ch], [head |-> 0, oldest |-> 1]} :
        /\ was = IF Known(ch) THEN meta[ch] ELSE [head |-> 0, oldest |-> 1]
        /\ lines' = [lines EXCEPT ![ch] = Append(@, [pos |-> was.head + 1, msg |-> m])]
        /\ meta' = [meta EXCEPT ![ch] = [was EXCEPT !.head = @ + 1]]
  BY DEF Send, StoreMessage
<1>5. was.head = HeadOf(ch) /\ was.oldest = IF meta[ch] = NoMeta THEN 1 ELSE meta[ch].oldest
  BY <1>3, <1>4 DEF Known, HeadOf
<1>6. [was EXCEPT !.head = @ + 1] = [head |-> was.head + 1, oldest |-> was.oldest]
  BY <1>2, <1>4
<1>7. lines'[ch] = Append(lines[ch], [pos |-> was.head + 1, msg |-> m])
  BY <1>4 DEF Types
<1>8. meta'[ch] = [head |-> was.head + 1, oldest |-> was.oldest]
  BY <1>4, <1>6 DEF Types
<1>9. \A c \in Channels \ {ch} : SameLog(c)
  BY <1>4 DEF Types, SameLog
<1>10. HeadOf(ch) < Cardinality(Messages)
  BY DEF Send
<1> QED  BY <1>5, <1>7, <1>8, <1>9, <1>10 DEF Grows

\* Compact is Shrinks, for one channel.
LEMMA CompactShrinks ==
  ASSUME Types, NEW ch \in Channels, Compact(ch)
  PROVE  Shrinks(ch) /\ \A c \in Channels \ {ch} : SameLog(c)
<1>1. PICK k \in 2 .. Len(lines[ch]) :
        /\ lines' = [lines EXCEPT ![ch] = SubSeq(@, k, Len(@))]
        /\ meta' = [meta EXCEPT ![ch].oldest = lines[ch][k].pos]
  BY DEF Compact
<1>2. meta[ch] \in [head : Nat, oldest : Nat]
  BY DEF Types
<1>3. lines'[ch] = SubSeq(lines[ch], k, Len(lines[ch]))
  BY <1>1 DEF Types
<1>4. meta'[ch] = [head |-> HeadOf(ch), oldest |-> lines[ch][k].pos]
  BY <1>1, <1>2 DEF Types, HeadOf
<1>5. \A c \in Channels \ {ch} : SameLog(c)
  BY <1>1 DEF Types, SameLog
<1> QED  BY <1>3, <1>4, <1>5 DEF Shrinks

\* Lines stay numbered.
LEMMA NumberedStep ==
  ASSUME Types, NEW ch \in Channels, Numbered(ch), ChannelStep(ch)
  PROVE  Numbered(ch)'
<1> DEFINE n == Len(lines[ch])
           h == meta[ch].head
           o == meta[ch].oldest
<1>0. /\ lines[ch] \in Seq(Lines) /\ n \in Nat /\ DOMAIN lines[ch] = 1 .. n
      /\ h \in Nat /\ o \in Nat /\ Cardinality(Messages) \in Nat
      /\ meta[ch] = [head |-> h, oldest |-> o]
      /\ \A i \in 1 .. n : lines[ch][i] \in Lines
  BY BoardBounds, FS_CardinalityType DEF BoardBounds, Types
<1>1. CASE Grows(ch)
  <2>1. PICK m \in Messages :
          /\ lines'[ch] = Append(lines[ch], [pos |-> h + 1, msg |-> m])
          /\ h < Cardinality(Messages)
          /\ meta'[ch] = [head |-> h + 1, oldest |-> IF meta[ch] = NoMeta THEN 1 ELSE o]
    BY <1>1 DEF Grows, HeadOf
  <2>2. /\ lines'[ch] # <<>> /\ Len(lines'[ch]) = n + 1 /\ DOMAIN lines'[ch] = 1 .. n + 1
        /\ \A i \in 1 .. n : lines'[ch][i] = lines[ch][i]
        /\ lines'[ch][n + 1].pos = h + 1
    BY <1>0, <2>1
  <2>3. /\ meta'[ch].head = h + 1 /\ meta'[ch].oldest = IF meta[ch] = NoMeta THEN 1 ELSE o
        /\ meta'[ch] # NoMeta
    BY <1>0, <2>1 DEF NoMeta
  <2>4. IF meta[ch] = NoMeta THEN n = 0 /\ h = 0
        ELSE o >= 1 /\ o + n = h + 1 /\ \A i \in 1 .. n : lines[ch][i].pos + 1 = o + i
    BY <1>0 DEF Numbered, NoMeta
  <2> HIDE DEF n, h, o
  <2>5. \A i \in 1 .. n + 1 : lines'[ch][i].pos + 1 = meta'[ch].oldest + i
    <3>1. ASSUME NEW i \in 1 .. n + 1 PROVE i \in 1 .. n \/ i = n + 1
      BY <1>0
    <3>2. (meta'[ch].oldest + n) + 1 = (h + 1) + 1
      BY <1>0, <2>3, <2>4
    <3>3. lines'[ch][n + 1].pos + 1 = meta'[ch].oldest + (n + 1)
      BY <1>0, <2>2, <2>3, <2>4
    <3>4. \A i \in 1 .. n : lines'[ch][i].pos + 1 = meta'[ch].oldest + i
      <4>1. CASE meta[ch] = NoMeta
        BY <1>0, <2>4, <4>1
      <4>2. CASE meta[ch] # NoMeta
        BY <2>2, <2>3, <2>4, <4>2
      <4> QED  BY <4>1, <4>2
    <3> QED  BY <3>1, <3>3, <3>4
  <2>6. /\ meta'[ch].oldest >= 1 /\ h + 1 <= Cardinality(Messages)
        /\ meta'[ch].oldest + (n + 1) = (h + 1) + 1
    BY <1>0, <2>1, <2>3, <2>4
  <2> QED  BY <2>2, <2>3, <2>5, <2>6 DEF Numbered
<1>2. CASE Shrinks(ch)
  <2>1. PICK k \in 2 .. n : /\ lines'[ch] = SubSeq(lines[ch], k, n)
                            /\ meta'[ch] = [head |-> h, oldest |-> lines[ch][k].pos]
    BY <1>2 DEF Shrinks, HeadOf
  <2>2. /\ meta[ch] # NoMeta /\ o >= 1 /\ o + n = h + 1
        /\ \A i \in 1 .. n : lines[ch][i].pos + 1 = o + i
    <3>1. lines[ch] # <<>>
      BY <1>0, <2>1
    <3> QED  BY <1>0, <3>1 DEF Numbered
  <2>0. h <= Cardinality(Messages)
    BY DEF Numbered
  <2> HIDE DEF n, h, o
  <2>3. /\ Len(lines'[ch]) = n + 1 - k /\ DOMAIN lines'[ch] = 1 .. n + 1 - k
        /\ \A i \in 1 .. n + 1 - k : lines'[ch][i] = lines[ch][i + k - 1]
    BY <1>0, <2>1
  <2>4. lines[ch][k].pos + 1 = o + k /\ lines[ch][k].pos \in Nat
    <3>1. k \in 1 .. n
      BY <1>0
    <3>2. lines[ch][k] \in Lines
      BY <1>0, <3>1
    <3> QED  BY <2>2, <3>1, <3>2 DEF Lines
  <2>5. \A i \in 1 .. n + 1 - k : lines'[ch][i].pos + 1 = lines[ch][k].pos + i
    <3> SUFFICES ASSUME NEW i \in 1 .. n + 1 - k
                 PROVE  lines'[ch][i].pos + 1 = lines[ch][k].pos + i
      OBVIOUS
    <3>1. i + k - 1 \in 1 .. n
      BY <1>0, <2>1, SMTT(30)
    <3>2. lines'[ch][i].pos + 1 = o + (i + k - 1)
      BY <2>2, <2>3, <3>1
    <3>3. ASSUME NEW x \in Nat, x + 1 = o + k PROVE o + (i + k - 1) = x + i
      BY <1>0, <3>3
    <3> QED  BY <2>4, <3>2, <3>3
  <2>6. meta'[ch].head = h /\ meta'[ch].oldest = lines[ch][k].pos
    BY <2>1
  <2>7. lines[ch][k].pos >= 1 /\ lines[ch][k].pos + (n + 1 - k) = h + 1
    <3>1. ASSUME NEW x \in Nat, x + 1 = o + k PROVE x >= 1 /\ x + (n + 1 - k) = h + 1
      BY <1>0, <2>2, <3>1
    <3> QED  BY <2>4, <3>1
  <2>8. meta'[ch] # NoMeta
    BY <2>6, <2>7 DEF NoMeta
  <2>9. lines'[ch] # <<>>
    <3>1. n + 1 - k # 0
      BY <1>0
    <3> QED  BY <2>3, <3>1
  <2> QED  BY <2>0, <2>3, <2>5, <2>6, <2>7, <2>8, <2>9 DEF Numbered
<1>3. CASE SameLog(ch)
  BY <1>3 DEF SameLog, Numbered
<1> QED  BY <1>1, <1>2, <1>3 DEF ChannelStep
-----------------------------------------------------------------------------
(* Types. *)

\* What the process starts from.
LEMMA OffType == Off \in Processes
BY BoardBounds DEF Off, Processes, BoardBounds

\* A process that found its connection broken.
LEMMA FailedType ==
  ASSUME NEW w \in Processes
  PROVE  Failed(w) \in Processes
<1> DEFINE n == w.attempt + 1
           v == [w EXCEPT !.pc = "connect", !.attempt = n, !.conn = FALSE]
<1>1. CASE n > MaxRetries
  BY <1>1, OffType DEF Failed
<1>2. CASE ~(n > MaxRetries)
  <2>1. n \in 0 .. MaxRetries
    BY <1>2, BoardBounds DEF Processes, BoardBounds
  <2>2. Failed(w) = v
    BY <1>2 DEF Failed
  <2> HIDE DEF n
  <2>3. v \in Processes
    BY <2>1 DEF Processes
  <2> QED  BY <2>2, <2>3
<1> QED  BY <1>1, <1>2

\* A fresh connection has no failures.
LEMMA NoAttempts == 0 \in 0 .. MaxRetries
BY BoardBounds DEF BoardBounds

\* The message types of the server's variables.
ServerTypes == /\ ready \in [Projects -> Seq(Tasks)]
               /\ parked \in [Projects -> [Channels -> Seq(Tasks)]]
               /\ down \in [Projects -> Seq(Frames)]

\* A connection that is closed.
LEMMA ClosedTypes ==
  ASSUME Types, NEW p \in Projects, Closed(p)
  PROVE  ServerTypes'
BY DEF Closed, Cancelled, NoneParked, ServerTypes, Types

\* Storage keeps its types.
LEMMA StorageTypes ==
  ASSUME Types, [Next]_vars
  PROVE  (lines \in [Channels -> Seq(Lines)] /\ meta \in [Channels -> [head : Nat, oldest : Nat]])'
<1>1. ASSUME NEW ch \in Channels, NEW m \in Messages, Send(ch, m)
      PROVE  (lines \in [Channels -> Seq(Lines)] /\ meta \in [Channels -> [head : Nat, oldest : Nat]])'
  <2>1. PICK was \in [head : Nat, oldest : Nat] :
          /\ lines' = [lines EXCEPT ![ch] = Append(@, [pos |-> was.head + 1, msg |-> m])]
          /\ meta' = [meta EXCEPT ![ch] = [was EXCEPT !.head = @ + 1]]
    <3>1. meta[ch] \in [head : Nat, oldest : Nat]
      BY DEF Types
    <3> QED  BY <1>1, <3>1 DEF Send, StoreMessage
  <2>2. [pos |-> was.head + 1, msg |-> m] \in Lines
    BY DEF Lines
  <2>3. [was EXCEPT !.head = @ + 1] \in [head : Nat, oldest : Nat]
    OBVIOUS
  <2> QED  BY <2>1, <2>2, <2>3 DEF Types
<1>2. ASSUME NEW ch \in Channels, Compact(ch)
      PROVE  (lines \in [Channels -> Seq(Lines)] /\ meta \in [Channels -> [head : Nat, oldest : Nat]])'
  <2>1. PICK k \in 2 .. Len(lines[ch]) :
          /\ lines' = [lines EXCEPT ![ch] = SubSeq(@, k, Len(@))]
          /\ meta' = [meta EXCEPT ![ch].oldest = lines[ch][k].pos]
    BY <1>2 DEF Compact
  <2>2. lines[ch] \in Seq(Lines) /\ meta[ch] \in [head : Nat, oldest : Nat]
    BY DEF Types
  <2>3. k \in 1 .. Len(lines[ch]) /\ k \in Nat
    BY <2>2
  <2>4. lines[ch][k] \in Lines
    BY <2>2, <2>3
  <2>5. SubSeq(lines[ch], k, Len(lines[ch])) \in Seq(Lines)
    BY <2>2, <2>3
  <2>6. lines' \in [Channels -> Seq(Lines)]
    BY <2>1, <2>5 DEF Types
  <2>7. meta' \in [Channels -> [head : Nat, oldest : Nat]]
    BY <2>1, <2>4 DEF Types, Lines
  <2> QED  BY <2>6, <2>7
<1>3. CASE UNCHANGED storage
  BY <1>3 DEF storage, Types
<1> QED
  BY <1>1, <1>2, <1>3
  DEF Next, vars, RunWatchTask, StartWatch, Recv, Printed, Stale, Drop, FindBroken, Connect, Kill,
      AckAsks, AckSaves, ServerStops, ServerStarts

\* So do the server's queues.
LEMMA QueueTypes ==
  ASSUME Types, \A ch \in Channels : Numbered(ch), [Next]_vars
  PROVE  ServerTypes'
<1> USE DEF ServerTypes
<1>1. ASSUME NEW ch \in Channels, NEW m \in Messages, Send(ch, m) PROVE ServerTypes'
  BY <1>1 DEF Send, WakeReaders, Types
<1>2. ASSUME NEW p \in Projects, RunWatchTask(p) PROVE ServerTypes'
  <2> DEFINE t == Head(ready[p])
  <2>1. ready[p] \in Seq(Tasks) /\ ready[p] # <<>> /\ ready' = [ready EXCEPT ![p] = Tail(@)]
    BY <1>2 DEF RunWatchTask, Types
  <2>2. t \in Tasks /\ Tail(ready[p]) \in Seq(Tasks)
    BY <2>1
  <2>3. t.ch \in Channels
    BY <2>2 DEF Tasks
  <2> HIDE DEF t
  <2>4. CASE parked' = [parked EXCEPT ![p][t.ch] = Append(@, t)] /\ down' = down
    <3>1. Append(parked[p][t.ch], t) \in Seq(Tasks)
      BY <2>2, <2>3 DEF Types
    <3> QED  BY <2>1, <2>2, <2>3, <2>4, <3>1 DEF Types
  <2>5. CASE parked' = parked /\ \E f \in Replies(t) : down' = [down EXCEPT ![p] = Append(@, f)]
    <3>1. \A f \in Replies(t) : f \in Frames
      BY <2>2, <2>3, RepliesAreNext
    <3> QED  BY <2>1, <2>2, <2>5, <3>1 DEF Types
  <2> QED  BY <1>2, <2>4, <2>5 DEF RunWatchTask, t
<1>3. ASSUME NEW p \in Projects, StartWatch(p) PROVE ServerTypes'
  <2>1. PICK chs \in SUBSET Channels :
          ready' = [ready EXCEPT ![p] = IF up THEN WatchFrames(cursor[p], chs) ELSE <<>>]
    BY <1>3 DEF StartWatch
  <2>2. WatchFrames(cursor[p], chs) \in Seq(Tasks)
    BY WatchFramesAsk DEF Types
  <2>3. ready' \in [Projects -> Seq(Tasks)]
    BY <2>1, <2>2 DEF Types
  <2> QED  BY <1>3, <2>3 DEF StartWatch, NoneParked, Types
<1>4. ASSUME NEW p \in Projects, Recv(p) PROVE ServerTypes'
  <2>1. down[p] # <<>> /\ down[p] \in Seq(Frames) /\ Tail(down[p]) \in Seq(Frames)
    BY <1>4 DEF Recv, Types
  <2>2. CASE Closed(p)
    BY <2>2, ClosedTypes
  <2>3. CASE down' = [down EXCEPT ![p] = Tail(@)] /\ UNCHANGED <<ready, parked>>
    BY <2>1, <2>3 DEF Types
  <2> QED  BY <1>4, <2>2, <2>3 DEF Recv, RecvMessage, RecvError, Exit
<1>5. ASSUME NEW p \in Projects, Printed(p) PROVE ServerTypes'
  <2>1. CASE Closed(p)
    BY <2>1, ClosedTypes
  <2>2. CASE ready' = ready /\ UNCHANGED <<parked, down>>
    BY <2>2 DEF Types
  <2>3. CASE /\ proc[p].ch \in proc[p].active /\ UNCHANGED <<parked, down>>
             /\ ready' = [ready EXCEPT ![p] = Append(@, Task(proc[p].at, proc[p].ch))]
    <3>1. Task(proc[p].at, proc[p].ch) \in Tasks
      BY <2>3 DEF Types, Processes, Task, Tasks
    <3> QED  BY <2>3, <3>1 DEF Types
  <2> QED  BY <1>5, <2>1, <2>2, <2>3 DEF Printed, Exit
<1>6. ASSUME NEW p \in Projects, Stale(p) PROVE ServerTypes'
  <2>1. CASE Closed(p)
    BY <2>1, ClosedTypes
  <2>2. CASE /\ ready' = [ready EXCEPT ![p] = @ \o WatchFrames(proc[p].at, proc[p].active)]
             /\ UNCHANGED <<parked, down>>
    <3>1. WatchFrames(proc[p].at, proc[p].active) \in Seq(Tasks)
      BY WatchFramesAsk DEF Types, Processes
    <3>2. ready[p] \o WatchFrames(proc[p].at, proc[p].active) \in Seq(Tasks)
      BY <3>1 DEF Types
    <3> QED  BY <2>2, <3>2 DEF Types
  <2> QED  BY <1>6, <2>1, <2>2 DEF Stale
<1>7. ASSUME NEW p \in Projects, Drop(p) PROVE ServerTypes'
  <2>1. PICK k \in 0 .. Len(down[p]) : down' = [down EXCEPT ![p] = SubSeq(@, 1, k)]
    BY <1>7 DEF Drop
  <2>2. down[p] \in Seq(Frames) /\ SubSeq(down[p], 1, k) \in Seq(Frames)
    BY DEF Types
  <2> QED  BY <1>7, <2>1, <2>2 DEF Drop, Cancelled, NoneParked, Types
<1>8. ASSUME NEW p \in Projects, Connect(p) PROVE ServerTypes'
  <2>1. WatchFrames(proc[p].at, proc[p].chs) \in Seq(Tasks)
    BY WatchFramesAsk DEF Types, Processes
  <2>2. ready' = ready \/ ready' = [ready EXCEPT ![p] = WatchFrames(proc[p].at, proc[p].chs)]
    BY <1>8 DEF Connect
  <2>3. ready' \in [Projects -> Seq(Tasks)]
    BY <2>1, <2>2 DEF Types
  <2> QED  BY <1>8, <2>3 DEF Connect, Types
<1>9. ASSUME NEW p \in Projects, Kill(p) PROVE ServerTypes'
  BY <1>9, ClosedTypes DEF Kill, Exit
<1>10. CASE ServerStops
  BY <1>10 DEF ServerStops, NoneParked
<1>11. CASE UNCHANGED <<ready, parked, down>>
  BY <1>11 DEF Types
<1> QED
  BY <1>1, <1>2, <1>3, <1>4, <1>5, <1>6, <1>7, <1>8, <1>9, <1>10, <1>11
  DEF Next, vars, server, Compact, FindBroken, AckAsks, AckSaves, ServerStarts

\* So do the clients.
LEMMA ProcessTypes ==
  ASSUME Types, [Next]_vars
  PROVE  proc' \in [Projects -> Processes]
<1>1. ASSUME NEW p \in Projects, NEW w \in Processes, proc' = [proc EXCEPT ![p] = w]
      PROVE  proc' \in [Projects -> Processes]
  BY <1>1 DEF Types
<1>2. ASSUME NEW p \in Projects PROVE proc[p] \in Processes
  BY DEF Types
<1>3. ASSUME NEW p \in Projects, StartWatch(p) PROVE proc' \in [Projects -> Processes]
  <2>1. PICK mode \in Modes, chs \in SUBSET Channels, n \in Counts :
          proc' = [proc EXCEPT ![p] =
                     IF up THEN [Off EXCEPT !.pc = "recv", !.mode = mode, !.at = cursor[p],
                                            !.chs = chs, !.active = chs, !.conn = TRUE, !.left = n]
                     ELSE Off]
    BY <1>3 DEF StartWatch
  <2>2. cursor[p] \in [Channels -> Nat] /\ mode \in {"watch", "multi", "manual"} /\ n \in Nat
    BY BoardBounds DEF Types, BoardBounds
  <2>3. [Off EXCEPT !.pc = "recv", !.mode = mode, !.at = cursor[p],
                    !.chs = chs, !.active = chs, !.conn = TRUE, !.left = n] \in Processes
    BY <2>2, OffType DEF Processes
  <2> QED  BY <2>1, <2>3, <1>1, OffType
<1>4. ASSUME NEW p \in Projects, Recv(p) PROVE proc' \in [Projects -> Processes]
  <2> DEFINE f == Head(down[p])
             w == proc[p]
  <2>1. f \in Frames
    BY <1>4 DEF Recv, Types
  <2>2. f.ch \in Channels /\ f.pos \in Nat
    BY <2>1 DEF Frames
  <2>5. RecvMessage(p, f) \/ RecvError(p, f)
    BY <1>4 DEF Recv
  <2>6. w \in Processes /\ proc[p] = w
    BY <1>2
  <2> HIDE DEF f, w
  <2>3. CASE RecvMessage(p, f)
    <3> DEFINE at == [w.at EXCEPT ![f.ch] = f.pos]
               v == [w EXCEPT !.pc = "printed", !.at = at, !.ch = f.ch, !.reg = 0, !.attempt = 0]
    <3>1. at \in [Channels -> Nat]
      BY <2>6, <2>2 DEF Processes
    <3>3. proc' = [proc EXCEPT ![p] = v]
      <4> DEFINE u == [w EXCEPT !.pc = "printed", !.at[f.ch] = f.pos, !.ch = f.ch,
                                !.reg = 0, !.attempt = 0]
      <4>1. proc' = [proc EXCEPT ![p] = u]
        BY <2>3, <2>6 DEF RecvMessage, Types
      <4>2. u = v
        BY <2>6 DEF Processes
      <4> QED  BY <4>1, <4>2
    <3> HIDE DEF at
    <3>4. \A a \in [Channels -> Nat], c \in Channels, n \in 0 .. MaxRetries :
            [w EXCEPT !.pc = "printed", !.at = a, !.ch = c, !.reg = 0, !.attempt = n] \in Processes
      BY <2>6 DEF Processes
    <3>2. v \in Processes
      BY <2>2, <3>1, <3>4, NoAttempts
    <3> QED  BY <1>1, <3>2, <3>3
  <2>4. CASE RecvError(p, f)
    <3> DEFINE v == [w EXCEPT !.active = w.active \ {f.ch}, !.reg = 0]
    <3>1. v \in Processes
      BY <2>6 DEF Processes
    <3>2. proc' = [proc EXCEPT ![p] = v] \/ proc' = [proc EXCEPT ![p] = Off]
      BY <2>4, <2>6 DEF RecvError, Exit, Types
    <3> QED  BY <1>1, <3>1, <3>2, OffType
  <2> QED  BY <2>3, <2>4, <2>5
<1>5. ASSUME NEW p \in Projects, Printed(p) PROVE proc' \in [Projects -> Processes]
  <2> DEFINE n == IF proc[p].left = 0 THEN 0 ELSE proc[p].left - 1
             again == [proc[p] EXCEPT !.pc = "recv", !.left = n]
  <2>0. n \in Nat
    BY <1>2 DEF Processes
  <2>2. \/ proc' = [proc EXCEPT ![p] = Off] \/ proc' = [proc EXCEPT ![p] = Failed(again)]
        \/ proc' = [proc EXCEPT ![p] = again]
    BY <1>5 DEF Printed, Exit
  <2> HIDE DEF n
  <2>1. again \in Processes
    BY <1>2, <2>0, ZenonT(40) DEF Processes
  <2> QED  BY <1>1, <2>1, <2>2, OffType, FailedType
<1>6. ASSUME NEW p \in Projects, Stale(p) PROVE proc' \in [Projects -> Processes]
  <2> DEFINE v == [proc[p] EXCEPT !.reg = 1]
             u == [proc[p] EXCEPT !.pc = "connect", !.conn = FALSE]
  <2>1. v \in Processes /\ u \in Processes
    BY <1>2, ZenonT(40) DEF Processes
  <2>2. proc' = [proc EXCEPT ![p] = v] \/ proc' = [proc EXCEPT ![p] = u]
    BY <1>6 DEF Stale, Types
  <2> QED  BY <1>1, <2>1, <2>2
<1>7. ASSUME NEW p \in Projects, Drop(p) PROVE proc' \in [Projects -> Processes]
  <2> DEFINE v == [proc[p] EXCEPT !.conn = FALSE]
  <2>1. v \in Processes
    BY <1>2 DEF Processes
  <2>2. proc' = [proc EXCEPT ![p] = v]
    BY <1>7 DEF Drop, Types
  <2> QED  BY <1>1, <2>1, <2>2
<1>8. ASSUME NEW p \in Projects, FindBroken(p) \/ Connect(p) PROVE proc' \in [Projects -> Processes]
  <2> DEFINE v == [proc[p] EXCEPT !.pc = "recv", !.attempt = 0, !.reg = 0, !.conn = TRUE,
                                  !.active = proc[p].chs]
  <2>1. v \in Processes
    BY <1>2, NoAttempts, ZenonT(40) DEF Processes
  <2>2. proc' = [proc EXCEPT ![p] = v] \/ proc' = [proc EXCEPT ![p] = Failed(proc[p])]
    BY <1>8 DEF FindBroken, Connect, Types
  <2> QED  BY <1>1, <1>2, <2>1, <2>2, FailedType
<1>9. ASSUME NEW p \in Projects, Kill(p) PROVE proc' \in [Projects -> Processes]
  BY <1>1, <1>9, OffType DEF Kill, Exit
<1>10. CASE ServerStops
  <2>1. ASSUME NEW p \in Projects PROVE [proc[p] EXCEPT !.conn = FALSE] \in Processes
    BY <1>2, ZenonT(40) DEF Processes
  <2> QED  BY <1>10, <2>1 DEF ServerStops
<1>11. CASE UNCHANGED proc
  BY <1>11 DEF Types
<1> QED
  BY <1>3, <1>4, <1>5, <1>6, <1>7, <1>8, <1>9, <1>10, <1>11
  DEF Next, vars, client, Send, Compact, RunWatchTask, AckAsks, AckSaves, ServerStarts

\* And the files of a project.
LEMMA FileTypes ==
  ASSUME Types, \A p \in Projects : AckOwed(p), [Next]_vars
  PROVE  (/\ cursor \in [Projects -> [Channels -> Nat]]
          /\ ack \in [Projects -> Acks]
          /\ printed \in [Projects -> [Channels -> SUBSET Nat]]
          /\ up \in BOOLEAN /\ faults \in Nat)'
<1> DEFINE T == /\ cursor \in [Projects -> [Channels -> Nat]]
                /\ ack \in [Projects -> Acks]
                /\ printed \in [Projects -> [Channels -> SUBSET Nat]]
<1>1. ASSUME NEW p \in Projects, NEW a \in Acks, ack' = [ack EXCEPT ![p] = a]
      PROVE  ack' \in [Projects -> Acks]
  BY <1>1 DEF Types
<1>2. ASSUME NEW p \in Projects PROVE ack[p] \in Acks
  BY DEF Types
<1>3. ASSUME NEW p \in Projects, StartWatch(p) PROVE T'
  <2> DEFINE a == [ack[p] EXCEPT !.owed = [ch \in Channels |-> 0]]
  <2>1. a \in Acks
    BY <1>2 DEF Acks
  <2>2. ack' = [ack EXCEPT ![p] = a]
    BY <1>3 DEF StartWatch, Types
  <2>3. ack' \in [Projects -> Acks]
    BY <1>1, <2>1, <2>2
  <2> QED  BY <1>3, <2>3 DEF StartWatch, Types
<1>4. ASSUME NEW p \in Projects, Recv(p) PROVE T'
  <2> DEFINE f == Head(down[p])
             o == [ack[p].owed EXCEPT ![f.ch] = @ + 1]
             a == [ack[p] EXCEPT !.owed = o]
  <2>1. f \in Frames
    BY <1>4 DEF Recv, Types
  <2>2. f.ch \in Channels /\ f.pos \in Nat
    BY <2>1 DEF Frames
  <2>3. o \in [Channels -> Nat]
    BY <1>2, <2>2 DEF Acks
  <2>4. ack' = ack \/ ack' = [ack EXCEPT ![p] = a]
    <3>1. ack' = ack \/ ack' = [ack EXCEPT ![p].owed[f.ch] = @ + 1]
      BY <1>4 DEF Recv, RecvMessage, RecvError
    <3> QED  BY <1>2, <3>1 DEF Types, Acks
  <2> HIDE DEF o
  <2>8. a \in Acks
    BY <1>2, <2>3 DEF Acks
  <2>5. ack' \in [Projects -> Acks]
    BY <1>1, <2>8, <2>4 DEF Types
  <2>6. \/ printed' = printed
        \/ printed' = [printed EXCEPT ![p][f.ch] = printed[p][f.ch] \cup {f.pos}]
    BY <1>4 DEF Recv, RecvMessage, RecvError
  <2>9. printed[p][f.ch] \cup {f.pos} \in SUBSET Nat
    BY <2>2 DEF Types
  <2>7. printed' \in [Projects -> [Channels -> SUBSET Nat]]
    <3> DEFINE v == printed[p][f.ch] \cup {f.pos}
               g == [printed[p] EXCEPT ![f.ch] = v]
    <3> HIDE DEF f
    <3>1. printed[p] \in [Channels -> SUBSET Nat]
      BY DEF Types
    <3>2. printed' = printed \/ printed' = [printed EXCEPT ![p] = g]
      BY <2>6
    <3> HIDE DEF v
    <3>3. g \in [Channels -> SUBSET Nat]
      BY <2>9, <3>1 DEF v
    <3> HIDE DEF g
    <3> QED  BY <3>2, <3>3 DEF Types
  <2> QED  BY <1>4, <2>5, <2>7 DEF Recv, Types
<1>5. ASSUME NEW p \in Projects, Printed(p) PROVE T'
  <2>1. \/ cursor' = cursor
        \/ cursor' = [cursor EXCEPT ![p][proc[p].ch] = proc[p].at[proc[p].ch]]
    BY <1>5 DEF Printed
  <2>2. ASSUME proc[p].ch \in Channels PROVE proc[p].at[proc[p].ch] \in Nat
    BY <2>2 DEF Types, Processes
  <2>3. cursor' \in [Projects -> [Channels -> Nat]]
    <3> DEFINE ch == proc[p].ch
               v == proc[p].at[ch]
               g == [cursor[p] EXCEPT ![ch] = v]
    <3>1. cursor[p] \in [Channels -> Nat]
      BY DEF Types
    <3>2. cursor' = cursor \/ cursor' = [cursor EXCEPT ![p] = g]
      BY <2>1
    <3>3. ch \in Channels => v \in Nat
      BY <2>2
    <3> HIDE DEF v, ch
    <3>4. g \in [Channels -> Nat]
      BY <3>1, <3>3
    <3> HIDE DEF g
    <3> QED  BY <3>2, <3>4 DEF Types
  <2> QED  BY <1>5, <2>3 DEF Printed, Types
<1>6. ASSUME NEW p \in Projects, AckAsks(p) PROVE T'
  <2>1. PICK ch \in Channels :
          ack' = [ack EXCEPT ![p].pc = "asked", ![p].ch = ch, ![p].head = IF up THEN HeadOf(ch) ELSE -1]
    BY <1>6 DEF AckAsks
  <2> DEFINE h == IF up THEN HeadOf(ch) ELSE -1
             a == [ack[p] EXCEPT !.pc = "asked", !.ch = ch, !.head = h]
  <2>2. h \in Int
    BY DEF HeadOf, Types
  <2>3. ack' = [ack EXCEPT ![p] = a]
    BY <2>1 DEF Types
  <2> HIDE DEF h
  <2>4. a \in Acks
    BY <1>2, <2>2 DEF Acks
  <2> QED  BY <1>1, <1>6, <2>3, <2>4 DEF AckAsks, Types
<1>7. ASSUME NEW p \in Projects, AckSaves(p) PROVE T'
  <2> DEFINE ch == ack[p].ch
             a == [NoAck EXCEPT !.owed = [ack[p].owed EXCEPT ![ch] = @ - 1]]
  <2>1. ch \in Channels /\ ack[p].owed \in [Channels -> Nat] /\ ack[p].owed[ch] > 0
    BY <1>2, <1>7 DEF AckOwed, AckSaves, Acks
  <2>2. [ack[p].owed EXCEPT ![ch] = @ - 1] \in [Channels -> Nat]
    BY <2>1
  <2>3. a \in Acks
    BY <2>2 DEF NoAck, Acks
  <2>4. ack' = [ack EXCEPT ![p] = a]
    BY <1>7 DEF AckSaves
  <2>5. cursor' = cursor \/ cursor' = [cursor EXCEPT ![p][ch] = cursor[p][ch] + 1]
    BY <1>7 DEF AckSaves
  <2>6. cursor' \in [Projects -> [Channels -> Nat]]
    <3>1. cursor[p][ch] + 1 \in Nat
      BY <2>1 DEF Types
    <3> DEFINE v == cursor[p][ch] + 1
               g == [cursor[p] EXCEPT ![ch] = v]
    <3>2. cursor' = cursor \/ cursor' = [cursor EXCEPT ![p] = g]
      BY <2>5
    <3>3. cursor[p] \in [Channels -> Nat]
      BY DEF Types
    <3> HIDE DEF v, ch
    <3>4. g \in [Channels -> Nat]
      BY <3>1, <3>3 DEF v
    <3> HIDE DEF g
    <3> QED  BY <3>2, <3>4 DEF Types
  <2> QED  BY <1>1, <1>7, <2>3, <2>4, <2>6 DEF AckSaves, Types
<1>8. ASSUME UNCHANGED <<cursor, ack, printed>> PROVE T'
  BY <1>8 DEF Types
<1>9. T'
  BY <1>3, <1>4, <1>5, <1>6, <1>7, <1>8
  DEF Next, vars, client, Send, Compact, RunWatchTask, Stale, Drop, FindBroken, Connect, Kill,
      ServerStops, ServerStarts
<1>10. up' \in BOOLEAN
  BY ZenonT(40) DEF Next, vars, client, server, Send, Compact, RunWatchTask, StartWatch, Recv, Printed, Stale,
      Drop, FindBroken, Connect, Kill, AckAsks, AckSaves, ServerStops, ServerStarts, Types
<1>11. faults' = faults \/ faults' = faults + 1
  BY DEF Next, vars, client, server, Send, Compact, RunWatchTask, StartWatch, Recv, Printed, Stale,
      Drop, FindBroken, Connect, Kill, AckAsks, AckSaves, ServerStops, ServerStarts,
      CountFault, CountKill
<1> QED  BY <1>9, <1>10, <1>11 DEF Types

\* Every variable keeps its type.
LEMMA TypesStep ==
  ASSUME Types, \A ch \in Channels : Numbered(ch), \A p \in Projects : AckOwed(p), [Next]_vars
  PROVE  Types'
<1>1. ServerTypes'
  BY QueueTypes
<1> QED  BY <1>1, StorageTypes, ProcessTypes, FileTypes DEF Types, ServerTypes
-----------------------------------------------------------------------------
(* What a step does to a project. *)

SameServer(p) == ready'[p] = ready[p] /\ parked'[p] = parked[p] /\ down'[p] = down[p]
SameFiles(p) == cursor'[p] = cursor[p] /\ ack'[p] = ack[p] /\ printed'[p] = printed[p]
SameHeads == \A ch \in Channels : HeadOf(ch)' = HeadOf(ch)
StillUp == up => up'
Cut(p) == ready'[p] = <<>> /\ parked'[p] = NoneParked

\* The process keeps its cursors, its kind and the channel it printed last.
SameWatch(p) == /\ proc'[p].at = proc[p].at /\ proc'[p].mode = proc[p].mode
                /\ proc'[p].ch = proc[p].ch

\* The cursor file, which a watch-multi saves after a print.
Saves(p) ==
  /\ ack'[p] = ack[p] /\ printed'[p] = printed[p]
  /\ \/ cursor'[p] = cursor[p] /\ (proc[p].pc # "printed" \/ proc[p].mode # "multi")
     \/ /\ proc[p].pc = "printed" /\ proc[p].mode = "multi"
        /\ cursor'[p] = [cursor[p] EXCEPT ![proc[p].ch] = proc[p].at[proc[p].ch]]

\* Watch frames of the process with the cursors `at'.
AskAfter(s, at) == s \in Seq(Tasks) /\ \A i \in DOMAIN s : s[i].after = at[s[i].ch]

\* Nothing, at least for this project.
Unmoved(p) == SameServer(p) /\ SameFiles(p) /\ proc'[p] = proc[p] /\ SameHeads /\ StillUp

\* A message on a channel: its tasks wake.
Wakes(p) ==
  \E ch \in Channels :
    /\ HeadOf(ch)' = HeadOf(ch) + 1 /\ \A c \in Channels \ {ch} : HeadOf(c)' = HeadOf(c)
    /\ ready'[p] = ready[p] \o parked[p][ch]
    /\ parked'[p] = [parked[p] EXCEPT ![ch] = <<>>]
    /\ down'[p] = down[p] /\ SameFiles(p) /\ proc'[p] = proc[p] /\ StillUp

\* A task waits at the head, or sends an error or the next message.
RunsTask(p) ==
  /\ ready[p] # <<>> /\ ready'[p] = Tail(ready[p])
  /\ LET t == Head(ready[p])
     IN  \/ /\ HeadOf(t.ch) <= t.after /\ down'[p] = down[p]
            /\ parked'[p] = [parked[p] EXCEPT ![t.ch] = Append(@, t)]
         \/ /\ parked'[p] = parked[p]
            /\ \E f \in Frames :
                 /\ f.ch = t.ch /\ down'[p] = Append(down[p], f)
                 /\ f.type = "message" => /\ f.pos = t.after + 1
                                          /\ f.pos \in meta[t.ch].oldest .. HeadOf(t.ch)
  /\ SameFiles(p) /\ proc'[p] = proc[p] /\ SameHeads /\ StillUp

\* A watch process begins at the cursors of the files.
Begins(p) ==
  /\ ack[p].pc = "off" /\ up'
  /\ ack'[p].pc = "off" /\ ack'[p].owed = [ch \in Channels |-> 0]
  /\ proc'[p].pc = "recv" /\ proc'[p].at = cursor[p] /\ proc'[p].conn
  /\ AskAfter(ready'[p], cursor[p]) /\ parked'[p] = NoneParked /\ down'[p] = <<>>
  /\ cursor'[p] = cursor[p] /\ printed'[p] = printed[p] /\ SameHeads

\* The process does not begin, since there is no server.
BeginsNot(p) ==
  /\ ack[p].pc = "off" /\ ack'[p].pc = "off" /\ ack'[p].owed = [ch \in Channels |-> 0]
  /\ proc'[p] = Off /\ Cut(p) /\ down'[p] = <<>>
  /\ cursor'[p] = cursor[p] /\ printed'[p] = printed[p] /\ SameHeads /\ StillUp

\* The process ends.
Ends(p) == proc'[p] = Off /\ Cut(p) /\ down'[p] = <<>> /\ Saves(p) /\ SameHeads /\ StillUp

\* It is killed: what it printed is not saved.
Kills(p) == /\ proc'[p] = Off /\ Cut(p) /\ down'[p] = <<>> /\ SameFiles(p)
            /\ SameHeads /\ StillUp

\* The connection is given up and a new one begun.
Breaks(p) == /\ proc[p].pc # "off" /\ proc'[p].pc = "connect" /\ ~proc'[p].conn /\ SameWatch(p)
             /\ Cut(p) /\ down'[p] = <<>> /\ Saves(p) /\ SameHeads /\ StillUp

\* A message is shown.
Shows(p) ==
  /\ proc[p].pc = "recv" /\ down[p] # <<>> /\ down'[p] = Tail(down[p])
  /\ LET f == Head(down[p])
     IN  /\ f.type = "message"
         /\ proc'[p].at = [proc[p].at EXCEPT ![f.ch] = f.pos] /\ proc'[p].ch = f.ch
         /\ printed'[p] = [printed[p] EXCEPT ![f.ch] = @ \cup {f.pos}]
         /\ ack'[p].owed = IF proc[p].mode # "multi" /\ f.pos > proc[p].at[f.ch]
                           THEN [ack[p].owed EXCEPT ![f.ch] = @ + 1] ELSE ack[p].owed
  /\ proc'[p].pc = "printed" /\ proc'[p].mode = proc[p].mode /\ proc'[p].conn = proc[p].conn
  /\ ack'[p].pc = ack[p].pc /\ ack'[p].ch = ack[p].ch /\ cursor'[p] = cursor[p]
  /\ ready'[p] = ready[p] /\ parked'[p] = parked[p] /\ SameHeads /\ StillUp

\* A channel that does not exist is left out.
Skips(p) ==
  /\ proc[p].pc = "recv" /\ proc'[p].pc = "recv" /\ proc'[p].conn = proc[p].conn /\ SameWatch(p)
  /\ down[p] # <<>> /\ Head(down[p]).type # "message" /\ down'[p] = Tail(down[p])
  /\ ready'[p] = ready[p] /\ parked'[p] = parked[p] /\ SameFiles(p) /\ SameHeads /\ StillUp

\* The process goes on after a print, with a new watch frame or without.
GoesOn(p) ==
  /\ proc[p].pc = "printed" /\ proc'[p].pc = "recv" /\ proc'[p].conn = proc[p].conn
  /\ SameWatch(p) /\ Saves(p) /\ parked'[p] = parked[p] /\ down'[p] = down[p]
  /\ \/ ready'[p] = ready[p]
     \/ /\ proc[p].conn /\ proc[p].ch \in Channels
        /\ ready'[p] = Append(ready[p], Task(proc[p].at, proc[p].ch))
  /\ SameHeads /\ StillUp

\* The frames are sent again.
Resends(p) ==
  /\ proc[p].conn /\ down[p] = <<>> /\ proc[p].pc = "recv" /\ proc'[p].pc = "recv"
  /\ proc'[p].conn /\ SameWatch(p)
  /\ \E s : AskAfter(s, proc[p].at) /\ ready'[p] = ready[p] \o s
  /\ parked'[p] = parked[p] /\ down'[p] = down[p] /\ SameFiles(p) /\ SameHeads /\ StillUp

\* The connection breaks, and the client does not know.
Disconnects(p) ==
  /\ proc'[p] = [proc[p] EXCEPT !.conn = FALSE] /\ Cut(p)
  /\ \E k \in 0 .. Len(down[p]) : down'[p] = SubSeq(down[p], 1, k)
  /\ SameFiles(p) /\ SameHeads

\* There is a connection again.
Reconnects(p) ==
  /\ proc[p].pc = "connect" /\ proc'[p].pc = "recv" /\ proc'[p].conn /\ SameWatch(p) /\ up'
  /\ AskAfter(ready'[p], proc[p].at) /\ parked'[p] = parked[p] /\ down'[p] = down[p]
  /\ SameFiles(p) /\ SameHeads

\* An ack begins ...
BeginsAck(p) ==
  /\ ack[p].pc = "off" /\ ack'[p].owed = ack[p].owed
  /\ ack'[p].ch \in Channels /\ ack[p].owed[ack'[p].ch] > 0
  /\ cursor'[p] = cursor[p] /\ printed'[p] = printed[p] /\ proc'[p] = proc[p]
  /\ SameServer(p) /\ SameHeads /\ StillUp

\* ... and ends.
EndsAck(p) ==
  /\ ack[p].pc = "asked" /\ ack'[p].pc = "off"
  /\ LET ch == ack[p].ch
     IN  /\ ack'[p].owed = [ack[p].owed EXCEPT ![ch] = @ - 1]
         /\ cursor'[p] = cursor[p] \/ cursor'[p] = [cursor[p] EXCEPT ![ch] = @ + 1]
  /\ printed'[p] = printed[p] /\ proc'[p] = proc[p]
  /\ SameServer(p) /\ SameHeads /\ StillUp

ProjectStep(p) ==
  \/ Unmoved(p) \/ Wakes(p) \/ RunsTask(p) \/ Begins(p) \/ BeginsNot(p) \/ Ends(p) \/ Kills(p)
  \/ Breaks(p)
  \/ Shows(p) \/ Skips(p) \/ GoesOn(p) \/ Resends(p) \/ Disconnects(p) \/ Reconnects(p)
  \/ BeginsAck(p) \/ EndsAck(p)

\* The actions of a project.
Acts(p) == \/ RunWatchTask(p) \/ StartWatch(p) \/ Recv(p) \/ Printed(p)
           \/ Stale(p) \/ Drop(p) \/ FindBroken(p) \/ Connect(p) \/ Kill(p)
           \/ AckAsks(p) \/ AckSaves(p)

\* An action of one project leaves the others as they are.
LEMMA ActsElsewhere ==
  ASSUME Types, NEW p \in Projects, NEW q \in Projects, p # q, Acts(q)
  PROVE  Unmoved(p)
<1>1. UNCHANGED <<up, meta>>
  BY DEF Acts, RunWatchTask, StartWatch, Recv, Printed, Stale, Drop, FindBroken, Connect, Kill,
     AckAsks, AckSaves, storage, server
<1>2. SameHeads /\ StillUp
  BY <1>1 DEF SameHeads, StillUp, HeadOf
<1>3. Closed(q) => SameServer(p)
  BY DEF Closed, Cancelled, SameServer, Types
<1>4. SameServer(p)
  BY <1>3, ZenonT(40) DEF Acts, RunWatchTask, StartWatch, Recv, RecvMessage, RecvError, Printed, Stale, Drop,
     FindBroken, Connect, Kill, Exit, Cancelled, AckAsks, AckSaves, storage, server, SameServer, Types
<1>5. SameFiles(p)
  BY DEF Acts, RunWatchTask, StartWatch, Recv, RecvMessage, RecvError, Printed, Stale, Drop,
     FindBroken, Connect, Kill, AckAsks, AckSaves, client, SameFiles, Types
<1>6. proc'[p] = proc[p]
  BY DEF Acts, RunWatchTask, StartWatch, Recv, RecvMessage, RecvError, Printed, Stale, Drop,
     FindBroken, Connect, Kill, Exit, AckAsks, AckSaves, client, Types
<1> QED  BY <1>2, <1>4, <1>5, <1>6 DEF Unmoved

\* Its own.
LEMMA ActsStep ==
  ASSUME Types, \A ch \in Channels : Numbered(ch), NEW p \in Projects, Connections(p), AckOwed(p),
         Acts(p)
  PROVE  ProjectStep(p)
<1>0. /\ ready[p] \in Seq(Tasks) /\ parked[p] \in [Channels -> Seq(Tasks)]
      /\ down[p] \in Seq(Frames) /\ proc[p] \in Processes /\ cursor[p] \in [Channels -> Nat]
      /\ ack[p] \in Acks /\ printed[p] \in [Channels -> SUBSET Nat]
  BY DEF Types
<1>1. SameHeads /\ StillUp
  <2>1. UNCHANGED <<up, meta>>
    BY DEF Acts, RunWatchTask, StartWatch, Recv, Printed, Stale, Drop, FindBroken, Connect, Kill,
       AckAsks, AckSaves, storage, server
  <2> QED  BY <2>1 DEF SameHeads, StillUp, HeadOf
<1>2. Closed(p) => Cut(p) /\ down'[p] = <<>>
  BY DEF Closed, Cancelled, Cut, Types
<1>3. CASE RunWatchTask(p)
  <2> DEFINE t == Head(ready[p])
  <2>1. ready[p] # <<>> /\ ready'[p] = Tail(ready[p]) /\ t \in Tasks
    BY <1>0, <1>3 DEF RunWatchTask, Types
  <2>2. SameFiles(p) /\ proc'[p] = proc[p]
    BY <1>3 DEF RunWatchTask, client, SameFiles
  <2>3. t.ch \in Channels
    BY <2>1 DEF Tasks
  <2>4. \/ Replies(t) = {} /\ parked' = [parked EXCEPT ![p][t.ch] = Append(@, t)] /\ down' = down
        \/ parked' = parked /\ \E f \in Replies(t) : down' = [down EXCEPT ![p] = Append(@, f)]
    BY <1>3 DEF RunWatchTask
  <2> HIDE DEF t
  <2>5. /\ \A f \in Replies(t) :
              /\ f \in Frames /\ f.ch = t.ch
              /\ f.type = "message" => /\ f.pos = t.after + 1
                                       /\ f.pos \in meta[t.ch].oldest .. HeadOf(t.ch)
        /\ Replies(t) = {} => HeadOf(t.ch) <= t.after
    BY <2>1, <2>3, RepliesAreNext
  <2>6. \/ /\ HeadOf(t.ch) <= t.after /\ down'[p] = down[p]
           /\ parked'[p] = [parked[p] EXCEPT ![t.ch] = Append(@, t)]
        \/ /\ parked'[p] = parked[p]
           /\ \E f \in Frames :
                /\ f.ch = t.ch /\ down'[p] = Append(down[p], f)
                /\ f.type = "message" => /\ f.pos = t.after + 1
                                         /\ f.pos \in meta[t.ch].oldest .. HeadOf(t.ch)
    BY <1>0, <2>4, <2>5 DEF Types
  <2> QED  BY <1>1, <2>1, <2>2, <2>6 DEF RunsTask, ProjectStep, t
<1>4. CASE StartWatch(p)
  <2>1. /\ ack[p].pc = "off" /\ ack'[p].pc = "off" /\ ack'[p].owed = [ch \in Channels |-> 0]
        /\ cursor'[p] = cursor[p] /\ printed'[p] = printed[p]
        /\ parked'[p] = NoneParked /\ down'[p] = <<>> /\ up' = up
    BY <1>0, <1>4 DEF StartWatch, Types, Acks
  <2>2. PICK mode \in Modes, chs \in SUBSET Channels, n \in Counts :
          /\ proc' = [proc EXCEPT ![p] =
                     IF up THEN [Off EXCEPT !.pc = "recv", !.mode = mode, !.at = cursor[p],
                                            !.chs = chs, !.active = chs, !.conn = TRUE, !.left = n]
                     ELSE Off]
          /\ ready' = [ready EXCEPT ![p] = IF up THEN WatchFrames(cursor[p], chs) ELSE <<>>]
    BY <1>4 DEF StartWatch
  <2>3. CASE up
    <3>1. proc'[p].pc = "recv" /\ proc'[p].at = cursor[p] /\ proc'[p].conn
      BY <1>0, <2>2, <2>3 DEF Types, Off
    <3>2. AskAfter(ready'[p], cursor[p])
      BY <1>0, <2>2, <2>3, WatchFramesAsk DEF Types, AskAfter
    <3>3. up'
      BY <1>1, <2>3 DEF StillUp
    <3> QED  BY <1>1, <2>1, <3>1, <3>2, <3>3 DEF Begins, ProjectStep
  <2>4. CASE ~up
    BY <1>0, <1>1, <2>1, <2>2, <2>4 DEF Types, BeginsNot, Cut, ProjectStep
  <2> QED  BY <2>3, <2>4
<1>5. CASE Recv(p)
  <2> DEFINE f == Head(down[p])
  <2>1. proc[p].pc = "recv" /\ down[p] # <<>> /\ cursor'[p] = cursor[p]
    BY <1>5 DEF Recv
  <2>2. f \in Frames
    BY <1>0, <2>1
  <2>3. f.ch \in Channels
    BY <2>2 DEF Frames
  <2>4. RecvMessage(p, f) \/ RecvError(p, f)
    BY <1>5 DEF Recv
  <2>5. CASE RecvMessage(p, f)
    <3> HIDE DEF f
    <3>1. f.type = "message" /\ down'[p] = Tail(down[p]) /\ ready'[p] = ready[p] /\ parked'[p] = parked[p]
      BY <2>5 DEF RecvMessage, Types
    <3>2. proc'[p] = [proc[p] EXCEPT !.pc = "printed", !.at[f.ch] = f.pos, !.ch = f.ch,
                                     !.reg = 0, !.attempt = 0]
      BY <2>5 DEF RecvMessage, Types
    <3>3. /\ proc'[p].at = [proc[p].at EXCEPT ![f.ch] = f.pos] /\ proc'[p].ch = f.ch
          /\ proc'[p].pc = "printed" /\ proc'[p].mode = proc[p].mode /\ proc'[p].conn = proc[p].conn
      BY <1>0, <3>2 DEF Processes
    <3>4. printed'[p] = [printed[p] EXCEPT ![f.ch] = @ \cup {f.pos}]
      BY <2>5 DEF RecvMessage, Types
    <3>5. /\ ack'[p].owed = IF proc[p].mode # "multi" /\ f.pos > proc[p].at[f.ch]
                            THEN [ack[p].owed EXCEPT ![f.ch] = @ + 1] ELSE ack[p].owed
          /\ ack'[p].pc = ack[p].pc /\ ack'[p].ch = ack[p].ch
      BY <1>0, <2>5 DEF RecvMessage, Types, Acks
    <3> QED  BY <1>1, <2>1, <3>1, <3>3, <3>4, <3>5 DEF Shows, ProjectStep, f
  <2>6. CASE RecvError(p, f)
    <3> HIDE DEF f
    <3>1. f.type # "message" /\ ack'[p] = ack[p] /\ printed'[p] = printed[p]
      BY <2>6 DEF RecvError
    <3>2. CASE Exit(p)
      <4>1. proc'[p] = Off /\ Cut(p) /\ down'[p] = <<>>
        BY <1>2, <3>2 DEF Exit, Types
      <4> QED  BY <1>1, <2>1, <3>1, <4>1 DEF Ends, Saves, ProjectStep
    <3>3. CASE /\ proc' = [proc EXCEPT ![p].active = proc[p].active \ {f.ch}, ![p].reg = 0]
               /\ down' = [down EXCEPT ![p] = Tail(@)] /\ UNCHANGED <<ready, parked>>
      <4>1. /\ proc'[p].pc = "recv" /\ proc'[p].conn = proc[p].conn /\ SameWatch(p)
        BY <1>0, <2>1, <3>3 DEF Types, Processes, SameWatch
      <4>2. down'[p] = Tail(down[p])
        BY <3>3 DEF Types
      <4> QED  BY <1>1, <2>1, <3>1, <3>3, <4>1, <4>2 DEF Skips, SameFiles, ProjectStep, f
    <3> QED  BY <2>6, <3>2, <3>3 DEF RecvError
  <2> QED  BY <2>4, <2>5, <2>6
<1>6. CASE Printed(p)
  <2> DEFINE w == proc[p]
             n == IF w.left = 0 THEN 0 ELSE w.left - 1
             again == [w EXCEPT !.pc = "recv", !.left = n]
  <2>0. n \in Nat
    BY <1>0 DEF Processes
  <2>1. proc[p].pc = "printed"
    BY <1>6 DEF Printed
  <2>2. Saves(p)
    BY <1>0, <1>6 DEF Printed, Saves, Types
  <2>4. \/ Exit(p)
        \/ proc' = [proc EXCEPT ![p] = Failed(again)] /\ Closed(p)
        \/ /\ proc' = [proc EXCEPT ![p] = again] /\ UNCHANGED <<parked, down>>
           /\ \/ ready' = ready
              \/ /\ w.ch \in w.active /\ w.conn
                 /\ ready' = [ready EXCEPT ![p] = Append(@, Task(w.at, w.ch))]
    BY <1>6 DEF Printed
  <2> HIDE DEF n
  <2>3. /\ again.pc = "recv" /\ again.at = w.at /\ again.mode = w.mode /\ again.ch = w.ch
        /\ again.conn = w.conn /\ again \in Processes
    BY <1>0, <2>0 DEF Processes
  <2> HIDE DEF again
  <2>5. CASE Exit(p)
    <3>1. proc'[p] = Off /\ Cut(p) /\ down'[p] = <<>>
      BY <1>2, <2>5 DEF Exit, Types
    <3> QED  BY <1>1, <2>2, <3>1 DEF Ends, ProjectStep
  <2>6. CASE proc' = [proc EXCEPT ![p] = Failed(again)] /\ Closed(p)
    <3>1. Cut(p) /\ down'[p] = <<>> /\ proc'[p] = Failed(again)
      BY <1>2, <2>6 DEF Types
    <3>2. CASE proc'[p] = Off
      BY <1>1, <2>2, <3>1, <3>2 DEF Ends, ProjectStep
    <3>3. CASE proc'[p] = [again EXCEPT !.pc = "connect", !.attempt = @ + 1, !.conn = FALSE]
      <4>1. proc'[p].pc = "connect" /\ ~proc'[p].conn /\ SameWatch(p)
        BY <2>3, <3>3 DEF SameWatch, Processes
      <4> QED  BY <1>1, <2>1, <2>2, <3>1, <4>1 DEF Breaks, ProjectStep
    <3> QED  BY <3>1, <3>2, <3>3 DEF Failed
  <2>7. CASE /\ proc' = [proc EXCEPT ![p] = again] /\ UNCHANGED <<parked, down>>
             /\ \/ ready' = ready
                \/ /\ w.ch \in w.active /\ w.conn
                   /\ ready' = [ready EXCEPT ![p] = Append(@, Task(w.at, w.ch))]
    <3>1. proc'[p].pc = "recv" /\ proc'[p].conn = proc[p].conn /\ SameWatch(p)
      BY <2>3, <2>7 DEF SameWatch, Types
    <3>2. \/ ready'[p] = ready[p]
          \/ /\ proc[p].conn /\ proc[p].ch \in Channels
             /\ ready'[p] = Append(ready[p], Task(proc[p].at, proc[p].ch))
      BY <1>0, <2>7 DEF Types, Processes
    <3> QED  BY <1>1, <2>1, <2>2, <2>7, <3>1, <3>2 DEF GoesOn, ProjectStep
  <2> QED  BY <2>4, <2>5, <2>6, <2>7
<1>7. CASE Stale(p)
  <2>1. /\ proc[p].pc = "recv" /\ down[p] = <<>> /\ proc[p].conn
        /\ cursor' = cursor /\ ack' = ack /\ printed' = printed
    BY <1>7 DEF Stale
  <2>2. CASE /\ proc' = [proc EXCEPT ![p].reg = 1]
             /\ ready' = [ready EXCEPT ![p] = @ \o WatchFrames(proc[p].at, proc[p].active)]
             /\ UNCHANGED <<parked, down>>
    <3>1. /\ proc'[p].pc = "recv" /\ proc'[p].conn = proc[p].conn /\ SameWatch(p)
      BY <1>0, <2>1, <2>2 DEF Types, Processes, SameWatch
    <3>2. AskAfter(WatchFrames(proc[p].at, proc[p].active), proc[p].at)
      BY <1>0, WatchFramesAsk DEF Processes, AskAfter
    <3>3. ready'[p] = ready[p] \o WatchFrames(proc[p].at, proc[p].active)
      BY <2>2 DEF Types
    <3> QED  BY <1>1, <2>1, <2>2, <3>1, <3>2, <3>3 DEF Resends, SameFiles, ProjectStep
  <2>3. CASE proc' = [proc EXCEPT ![p].pc = "connect", ![p].conn = FALSE] /\ Closed(p)
    <3>1. proc'[p].pc = "connect" /\ ~proc'[p].conn /\ SameWatch(p)
      BY <1>0, <2>3 DEF Types, Processes, SameWatch
    <3> QED  BY <1>1, <1>2, <2>1, <2>3, <3>1 DEF Breaks, Saves, ProjectStep
  <2> QED  BY <1>7, <2>2, <2>3 DEF Stale
<1>8. CASE Drop(p)
  <2>1. proc'[p] = [proc[p] EXCEPT !.conn = FALSE] /\ Cut(p)
    BY <1>8 DEF Drop, Cancelled, Cut, Types
  <2>2. \E k \in 0 .. Len(down[p]) : down'[p] = SubSeq(down[p], 1, k)
    BY <1>8 DEF Drop, Types
  <2>3. SameFiles(p)
    BY <1>8 DEF Drop, SameFiles
  <2> QED  BY <1>1, <2>1, <2>2, <2>3 DEF Disconnects, ProjectStep
<1>9. CASE FindBroken(p) \/ (Connect(p) /\ ~up)
  <2>1. /\ proc[p].pc \in {"recv", "connect"} /\ ~proc[p].conn /\ down[p] = <<>>
        /\ proc' = [proc EXCEPT ![p] = Failed(@)] /\ down' = down
        /\ ready' = ready /\ parked' = parked /\ cursor' = cursor /\ ack' = ack /\ printed' = printed
    BY <1>9 DEF FindBroken, Connect, Connections, server
  <2>2. Cut(p) /\ down'[p] = <<>> /\ Saves(p) /\ proc'[p] = Failed(proc[p])
    BY <2>1 DEF Cut, Connections, Saves, Types
  <2>3. CASE proc'[p] = Off
    BY <1>1, <2>2, <2>3 DEF Ends, ProjectStep
  <2>4. CASE proc'[p] = [proc[p] EXCEPT !.pc = "connect", !.attempt = @ + 1, !.conn = FALSE]
    <3>1. proc'[p].pc = "connect" /\ ~proc'[p].conn /\ SameWatch(p)
      BY <1>0, <2>4 DEF SameWatch, Processes
    <3> QED  BY <1>1, <2>1, <2>2, <3>1 DEF Breaks, ProjectStep
  <2> QED  BY <2>2, <2>3, <2>4 DEF Failed
<1>10. CASE Connect(p) /\ up
  <2>1. /\ proc[p].pc = "connect"
        /\ proc' = [proc EXCEPT ![p].pc = "recv", ![p].attempt = 0, ![p].reg = 0,
                                ![p].conn = TRUE, ![p].active = proc[p].chs]
        /\ ready' = [ready EXCEPT ![p] = WatchFrames(proc[p].at, proc[p].chs)]
        /\ parked' = parked /\ down' = down /\ SameFiles(p) /\ up'
    BY <1>10 DEF Connect, SameFiles
  <2>2. proc'[p].pc = "recv" /\ proc'[p].conn /\ SameWatch(p)
    BY <1>0, <2>1 DEF Types, Processes, SameWatch
  <2>3. AskAfter(ready'[p], proc[p].at)
    <3>1. proc[p].at \in [Channels -> Nat] /\ proc[p].chs \in SUBSET Channels
      BY <1>0 DEF Processes
    <3>2. ready'[p] = WatchFrames(proc[p].at, proc[p].chs)
      BY <2>1 DEF Types
    <3> QED  BY <3>1, <3>2, WatchFramesAsk DEF AskAfter
  <2> QED  BY <1>1, <2>1, <2>2, <2>3 DEF Reconnects, ProjectStep
<1>11. CASE Kill(p)
  <2>1. proc'[p] = Off /\ Cut(p) /\ down'[p] = <<>>
    BY <1>2, <1>11 DEF Kill, Exit, Types
  <2>2. cursor'[p] = cursor[p] /\ ack'[p] = ack[p] /\ printed'[p] = printed[p] /\ proc[p].pc # "off"
    BY <1>11 DEF Kill
  <2> QED  BY <1>1, <2>1, <2>2 DEF Kills, SameFiles, ProjectStep
<1>12. CASE AckAsks(p)
  <2>1. PICK ch \in Channels :
          /\ ack[p].owed[ch] > 0
          /\ ack' = [ack EXCEPT ![p].pc = "asked", ![p].ch = ch, ![p].head = IF up THEN HeadOf(ch) ELSE -1]
    BY <1>12 DEF AckAsks
  <2>2. ack'[p].ch = ch /\ ack'[p].owed = ack[p].owed
    BY <1>0, <2>1 DEF Types, Acks
  <2> QED  BY <1>1, <1>12, <2>1, <2>2 DEF AckAsks, BeginsAck, SameServer, server, ProjectStep
<1>13. CASE AckSaves(p)
  <2> DEFINE ch == ack[p].ch
  <2>1. /\ ack[p].pc = "asked"
        /\ cursor' = cursor \/ cursor' = [cursor EXCEPT ![p][ch] = cursor[p][ch] + 1]
        /\ ack' = [ack EXCEPT ![p] = [NoAck EXCEPT !.owed = [ack[p].owed EXCEPT ![ch] = @ - 1]]]
    BY <1>13 DEF AckSaves
  <2>2. ack'[p].pc = "off" /\ ack'[p].owed = [ack[p].owed EXCEPT ![ch] = @ - 1]
    BY <2>1 DEF Types, NoAck
  <2>3. cursor'[p] = cursor[p] \/ cursor'[p] = [cursor[p] EXCEPT ![ch] = @ + 1]
    BY <2>1 DEF Types
  <2> QED  BY <1>1, <1>13, <2>1, <2>2, <2>3 DEF AckSaves, EndsAck, SameServer, server, ProjectStep
<1> QED  BY <1>3, <1>4, <1>5, <1>6, <1>7, <1>8, <1>9, <1>10, <1>11, <1>12, <1>13 DEF Acts

\* Every step is of that kind for every project, and a step of some channel's log.
LEMMA NextProjectStep ==
  ASSUME Types, \A ch \in Channels : Numbered(ch), [Next]_vars, NEW p \in Projects,
         Connections(p), AckOwed(p)
  PROVE  ProjectStep(p)
<1>1. ASSUME NEW ch \in Channels, NEW m \in Messages, Send(ch, m) PROVE ProjectStep(p)
  <2>1. Grows(ch) /\ \A c \in Channels \ {ch} : SameLog(c)
    BY <1>1, SendGrows
  <2>2. HeadOf(ch)' = HeadOf(ch) + 1 /\ \A c \in Channels \ {ch} : HeadOf(c)' = HeadOf(c)
    BY <2>1 DEF Grows, SameLog, HeadOf
  <2>3. /\ ready'[p] = ready[p] \o parked[p][ch]
        /\ parked'[p] = [parked[p] EXCEPT ![ch] = <<>>]
        /\ down'[p] = down[p] /\ SameFiles(p) /\ proc'[p] = proc[p] /\ StillUp
    BY <1>1 DEF Send, WakeReaders, client, SameFiles, StillUp
  <2> QED  BY <2>2, <2>3 DEF Wakes, ProjectStep
<1>2. ASSUME NEW ch \in Channels, Compact(ch) PROVE ProjectStep(p)
  <2>1. Shrinks(ch) /\ \A c \in Channels \ {ch} : SameLog(c)
    BY <1>2, CompactShrinks
  <2>2. SameHeads
    BY <2>1 DEF Shrinks, SameLog, SameHeads, HeadOf
  <2> QED
    BY <1>2, <2>2 DEF Compact, client, server, Unmoved, SameServer, SameFiles, StillUp, ProjectStep
<1>3. ASSUME NEW q \in Projects, Acts(q) PROVE ProjectStep(p)
  BY <1>3, ActsStep, ActsElsewhere DEF ProjectStep
<1>4. CASE ServerStops
  <2>1. proc'[p] = [proc[p] EXCEPT !.conn = FALSE] /\ Cut(p) /\ down'[p] = <<>>
    BY <1>4 DEF ServerStops, Cut
  <2>2. 0 \in 0 .. Len(down[p]) /\ SubSeq(down[p], 1, 0) = <<>>
    BY DEF Types
  <2>3. SameFiles(p) /\ SameHeads
    BY <1>4 DEF ServerStops, storage, SameFiles, SameHeads, HeadOf
  <2> QED  BY <2>1, <2>2, <2>3 DEF Disconnects, ProjectStep
<1>5. CASE ServerStarts
  BY <1>5 DEF ServerStarts, storage, client, Unmoved, SameServer, SameFiles, SameHeads, StillUp, HeadOf,
     ProjectStep
<1>6. CASE UNCHANGED vars
  BY <1>6 DEF vars, storage, server, client, Unmoved, SameServer, SameFiles, SameHeads, StillUp, HeadOf,
     ProjectStep
<1> QED  BY <1>1, <1>2, <1>3, <1>4, <1>5, <1>6 DEF Next, Acts
-----------------------------------------------------------------------------
(* The invariant is kept. *)

\* The types of what belongs to a project.
ProjectTypes(p) ==
  /\ ready[p] \in Seq(Tasks) /\ parked[p] \in [Channels -> Seq(Tasks)]
  /\ down[p] \in Seq(Frames) /\ proc[p] \in Processes /\ cursor[p] \in [Channels -> Nat]
  /\ ack[p] \in Acks /\ printed[p] \in [Channels -> SUBSET Nat]
  /\ \A ch \in Channels : HeadOf(ch) \in Nat

\* They follow from the types of the variables.
LEMMA TypesOfProject == ASSUME Types, NEW p \in Projects PROVE ProjectTypes(p)
BY DEF Types, ProjectTypes, HeadOf

\* The connection of a process.
LEMMA ConnectionsStep ==
  ASSUME NEW p \in Projects, ProjectTypes(p), Connections(p), ProjectStep(p)
  PROVE  Connections(p)'
<1>0. Off.pc = "off" /\ ~Off.conn
  BY DEF Off
<1>1. CASE Unmoved(p)
  BY <1>1 DEF Unmoved, SameServer, Connections, StillUp
<1>2. CASE Wakes(p)
  <2>1. PICK ch \in Channels : /\ ready'[p] = ready[p] \o parked[p][ch]
                               /\ parked'[p] = [parked[p] EXCEPT ![ch] = <<>>]
                               /\ down'[p] = down[p] /\ proc'[p] = proc[p] /\ StillUp
    BY <1>2 DEF Wakes
  <2>2. ASSUME ~proc[p].conn PROVE ready'[p] = <<>> /\ parked'[p] = NoneParked
    <3>1. ready[p] = <<>> /\ parked[p] = NoneParked
      BY <2>2 DEF Connections
    <3>2. parked[p][ch] = <<>>
      BY <3>1 DEF NoneParked
    <3>3. parked'[p] = NoneParked
      BY <2>1, <3>1 DEF NoneParked
    <3> QED  BY <2>1, <3>1, <3>2, <3>3
  <2> QED  BY <2>1, <2>2 DEF Connections, StillUp
<1>3. CASE RunsTask(p)
  <2>1. proc[p].conn
    BY <1>3 DEF RunsTask, Connections
  <2> QED  BY <1>3, <2>1 DEF RunsTask, Connections, StillUp
<1>4. CASE Begins(p) \/ Reconnects(p)
  BY <1>4 DEF Begins, Reconnects, Connections
<1>5. CASE BeginsNot(p) \/ Ends(p) \/ Kills(p)
  BY <1>0, <1>5 DEF BeginsNot, Ends, Kills, Cut, Connections
<1>6. CASE Breaks(p)
  BY <1>6 DEF Breaks, Cut, Connections
<1>7. CASE Shows(p)
  BY <1>7 DEF Shows, Connections, StillUp
<1>8. CASE Skips(p)
  BY <1>8 DEF Skips, Connections, StillUp
<1>9. CASE GoesOn(p)
  BY <1>9 DEF GoesOn, Connections, StillUp
<1>10. CASE Resends(p)
  BY <1>10 DEF Resends, Connections, StillUp
<1>11. CASE Disconnects(p)
  <2>1. ~proc'[p].conn /\ proc'[p].pc = proc[p].pc /\ Cut(p)
    BY <1>11 DEF Disconnects, ProjectTypes, Processes
  <2>2. proc[p].pc = "off" => proc'[p] = Off
    <3>1. [Off EXCEPT !.conn = FALSE] = Off
      <4>1. \A w \in Processes : w.conn = FALSE => [w EXCEPT !.conn = FALSE] = w
        BY DEF Processes
      <4>2. Off.conn = FALSE
        BY DEF Off
      <4> QED  BY <4>1, <4>2, OffType
    <3> QED  BY <1>11, <3>1 DEF Disconnects, Connections
  <2>3. down[p] = <<>> => down'[p] = <<>>
    BY <1>11 DEF Disconnects
  <2> QED  BY <2>1, <2>2, <2>3 DEF Connections, Cut
<1>12. CASE BeginsAck(p) \/ EndsAck(p)
  BY <1>12 DEF BeginsAck, EndsAck, SameServer, Connections, StillUp
<1> QED
  BY <1>1, <1>2, <1>3, <1>4, <1>5, <1>6, <1>7, <1>8, <1>9, <1>10, <1>11, <1>12 DEF ProjectStep

\* The ack of a project.
LEMMA AckOwedStep ==
  ASSUME NEW p \in Projects, ProjectTypes(p), AckOwed(p), ProjectStep(p)
  PROVE  AckOwed(p)'
<1> USE DEF AckOwed
<1>1. CASE ack'[p] = ack[p]
  BY <1>1
<1>2. CASE Begins(p) \/ BeginsNot(p)
  BY <1>2 DEF Begins, BeginsNot
<1>3. CASE Shows(p)
  <2> DEFINE f == Head(down[p])
  <2>1. ack'[p].owed \in {ack[p].owed, [ack[p].owed EXCEPT ![f.ch] = @ + 1]}
    BY <1>3 DEF Shows
  <2>2. ack[p].owed \in [Channels -> Nat]
    BY DEF ProjectTypes, Acks
  <2>3. ack'[p].pc = ack[p].pc /\ ack'[p].ch = ack[p].ch
    BY <1>3 DEF Shows
  <2> HIDE DEF f
  <2> QED  BY <2>1, <2>2, <2>3
<1>4. CASE BeginsAck(p)
  BY <1>4 DEF BeginsAck
<1>5. CASE EndsAck(p)
  BY <1>5 DEF EndsAck
<1> QED
  BY <1>1, <1>2, <1>3, <1>4, <1>5
  DEF ProjectStep, Unmoved, Wakes, RunsTask, Ends, Kills, Breaks, Skips, GoesOn, Resends, Disconnects,
      Reconnects, SameFiles, Saves

\* A frame stays the message the client has, or the next one.
LEMMA FramesStep ==
  ASSUME NEW p \in Projects, ProjectTypes(p), ProjectStep(p), NEW ch \in Channels,
         FramesNext(p, ch), TasksNext(p, ch)
  PROVE  FramesNext(p, ch)'
<1> DEFINE d == down[p]
           at == proc[p].at[ch]
           msg(i) == IsMessage(d[i], ch)
<1>0. /\ d \in Seq(Frames) /\ DOMAIN d = 1 .. Len(d) /\ Len(d) \in Nat
      /\ \A i \in DOMAIN d : d[i] \in Frames /\ d[i].pos \in Nat
      /\ at \in Nat /\ HeadOf(ch) \in Nat
  <2>1. d \in Seq(Frames) /\ at \in Nat /\ HeadOf(ch) \in Nat
    BY DEF ProjectTypes, Processes
  <2>2. DOMAIN d = 1 .. Len(d) /\ Len(d) \in Nat /\ \A i \in DOMAIN d : d[i] \in Frames
    BY <2>1
  <2> HIDE DEF d
  <2> QED  BY <2>1, <2>2 DEF Frames
<1>1. CASE /\ down'[p] = down[p] /\ proc'[p].at = proc[p].at
           /\ HeadOf(ch)' \in {HeadOf(ch), HeadOf(ch) + 1}
  <2>1. \A x \in 1 .. HeadOf(ch) : x \in 1 .. HeadOf(ch)'
    BY <1>0, <1>1
  <2> QED  BY <1>1, <2>1 DEF FramesNext
<1>2. CASE down'[p] = <<>>
  BY <1>2 DEF FramesNext
<1>3. CASE RunsTask(p) /\ down'[p] # down[p]
  <2> DEFINE t == Head(ready[p])
  <2>1. PICK f \in Frames :
          /\ f.ch = t.ch /\ down'[p] = Append(down[p], f)
          /\ f.type = "message" => f.pos = t.after + 1 /\ f.pos <= HeadOf(t.ch)
    BY <1>3 DEF RunsTask
  <2>2. proc'[p] = proc[p] /\ HeadOf(ch)' = HeadOf(ch) /\ ready[p] # <<>>
    BY <1>3 DEF RunsTask, SameHeads
  <2>3. 1 \in DOMAIN ready[p] /\ t = ready[p][1] /\ t \in Tasks
    BY <2>2 DEF ProjectTypes
  <2>4. t.ch = ch => /\ t.after \in Nat /\ t.after <= at /\ at <= t.after + 1
                     /\ \A i \in DOMAIN d : msg(i) => d[i].pos <= t.after + 1
    BY <2>3 DEF TasksNext, Tasks
  <2>5. /\ DOMAIN down'[p] = 1 .. Len(d) + 1 /\ down'[p][Len(d) + 1] = f
        /\ \A i \in DOMAIN d : down'[p][i] = d[i]
    BY <1>0, <2>1
  <2> HIDE DEF t, d
  <2>6. IsMessage(f, ch) => f.pos \in {at, at + 1} /\ f.pos \in 1 .. HeadOf(ch)
    BY <1>0, <2>1, <2>4, SMTT(30) DEF IsMessage
  <2>7. \A i \in DOMAIN down'[p] : i \in DOMAIN d \/ i = Len(d) + 1
    BY <1>0, <2>5
  <2>8. \A i \in DOMAIN down'[p] : IsMessage(down'[p][i], ch) =>
          down'[p][i].pos \in {at, at + 1} /\ down'[p][i].pos \in 1 .. HeadOf(ch)
    BY <2>5, <2>6, <2>7 DEF FramesNext, d
  <2>9. \A i \in DOMAIN d : IsMessage(d[i], ch) /\ IsMessage(f, ch) => d[i].pos <= f.pos
    BY <2>1, <2>4 DEF IsMessage
  <2>10. ASSUME NEW i \in DOMAIN down'[p], NEW j \in DOMAIN down'[p], i < j,
                IsMessage(down'[p][i], ch), IsMessage(down'[p][j], ch)
         PROVE  down'[p][i].pos <= down'[p][j].pos
    <3>1. i \in DOMAIN d
      BY <1>0, <2>5, <2>10
    <3>2. CASE j \in DOMAIN d
      BY <2>5, <2>10, <3>1, <3>2 DEF FramesNext, d
    <3>3. CASE j = Len(d) + 1
      BY <2>5, <2>9, <2>10, <3>1, <3>3
    <3> QED  BY <2>7, <3>2, <3>3
  <2> QED  BY <2>2, <2>8, <2>10 DEF FramesNext
<1>4. CASE Shows(p) \/ Skips(p)
  <2> DEFINE f == Head(d)
  <2>1. d # <<>> /\ down'[p] = Tail(d) /\ HeadOf(ch)' = HeadOf(ch)
    BY <1>4 DEF Shows, Skips, SameHeads
  <2>2. 1 \in DOMAIN d /\ f = d[1] /\ f \in Frames
    BY <1>0, <2>1
  <2>3. IsMessage(f, ch) => /\ f.pos \in {at, at + 1}
                            /\ \A i \in DOMAIN d : i > 1 /\ msg(i) => f.pos <= d[i].pos
    BY <1>0, <2>2 DEF FramesNext
  <2>4. proc'[p].at[ch] = IF IsMessage(f, ch) THEN f.pos ELSE at
    BY <1>4, <2>2 DEF Shows, Skips, SameWatch, IsMessage, ProjectTypes, Processes, Frames
  <2>5. /\ DOMAIN down'[p] = 1 .. Len(d) - 1
        /\ \A i \in DOMAIN down'[p] : down'[p][i] = d[i + 1] /\ i + 1 \in DOMAIN d /\ i + 1 > 1
    BY <1>0, <2>1
  <2> HIDE DEF f, d
  <2>6. ASSUME NEW i \in DOMAIN down'[p], IsMessage(down'[p][i], ch)
        PROVE  /\ down'[p][i].pos \in {proc'[p].at[ch], proc'[p].at[ch] + 1}
               /\ down'[p][i].pos \in 1 .. HeadOf(ch)
    <3>1. /\ IsMessage(d[i + 1], ch) /\ down'[p][i] = d[i + 1] /\ i + 1 \in DOMAIN d
          /\ d[i + 1].pos \in {at, at + 1} /\ d[i + 1].pos \in 1 .. HeadOf(ch)
      BY <2>5, <2>6 DEF FramesNext, d
    <3>2. CASE ~IsMessage(f, ch)
      BY <2>4, <3>1, <3>2
    <3>3. CASE IsMessage(f, ch)
      <4>1. f.pos <= d[i + 1].pos
        BY <2>3, <2>5, <3>1, <3>3
      <4> QED  BY <1>0, <2>3, <2>4, <3>1, <3>3, <4>1
    <3> QED  BY <3>2, <3>3
  <2>7. ASSUME NEW i \in DOMAIN down'[p], NEW j \in DOMAIN down'[p], i < j,
               IsMessage(down'[p][i], ch), IsMessage(down'[p][j], ch)
        PROVE  down'[p][i].pos <= down'[p][j].pos
    <3>1. i + 1 < j + 1
      BY <1>0, <2>5, <2>7
    <3> QED  BY <2>5, <2>7, <3>1 DEF FramesNext, d
  <2> QED  BY <2>1, <2>6, <2>7 DEF FramesNext
<1>5. CASE Disconnects(p)
  <2>1. PICK k \in 0 .. Len(d) : down'[p] = SubSeq(d, 1, k)
    BY <1>5 DEF Disconnects
  <2>2. DOMAIN down'[p] \subseteq DOMAIN d /\ \A i \in DOMAIN down'[p] : down'[p][i] = d[i]
    BY <1>0, <2>1
  <2>3. proc'[p].at = proc[p].at /\ HeadOf(ch)' = HeadOf(ch)
    BY <1>5 DEF Disconnects, SameHeads, ProjectTypes, Processes
  <2> QED  BY <2>2, <2>3 DEF FramesNext
<1> QED
  BY <1>1, <1>2, <1>3, <1>4, <1>5
  DEF ProjectStep, Unmoved, Wakes, RunsTask, Begins, BeginsNot, Ends, Kills, Breaks, GoesOn, Resends,
      Reconnects, BeginsAck, EndsAck, SameServer, SameWatch, SameHeads
\* So do the tasks that will run.
LEMMA TasksStep ==
  ASSUME NEW p \in Projects, ProjectTypes(p), ProjectTypes(p)', ProjectStep(p), Connections(p),
         NEW ch \in Channels, FramesNext(p, ch), TasksNext(p, ch),
         \A c \in Channels : ParkedAtHead(p, c)
  PROVE  TasksNext(p, ch)'
<1> DEFINE d == down[p]
           r == ready[p]
           at == proc[p].at[ch]
<1>0. /\ d \in Seq(Frames) /\ DOMAIN d = 1 .. Len(d) /\ Len(d) \in Nat
      /\ r \in Seq(Tasks) /\ DOMAIN r = 1 .. Len(r) /\ Len(r) \in Nat
      /\ \A i \in DOMAIN d : d[i].pos \in Nat
      /\ \A i \in DOMAIN r : r[i] \in Tasks /\ r[i].after \in Nat
      /\ at \in Nat /\ HeadOf(ch) \in Nat
  <2>1. d \in Seq(Frames) /\ r \in Seq(Tasks) /\ at \in Nat /\ HeadOf(ch) \in Nat
    BY DEF ProjectTypes, Processes
  <2>2. /\ DOMAIN d = 1 .. Len(d) /\ Len(d) \in Nat /\ \A i \in DOMAIN d : d[i] \in Frames
        /\ DOMAIN r = 1 .. Len(r) /\ Len(r) \in Nat /\ \A i \in DOMAIN r : r[i] \in Tasks
    BY <2>1
  <2> HIDE DEF d, r
  <2> QED  BY <2>1, <2>2 DEF Frames, Tasks
<1>1. CASE ready'[p] = r /\ down'[p] = d /\ proc'[p].at = proc[p].at
  BY <1>1 DEF TasksNext
<1>2. CASE ready'[p] = <<>>
  BY <1>2 DEF TasksNext
\* The first task is taken away, and may have sent a frame.
<1>3. CASE RunsTask(p)
  <2> DEFINE t == Head(r)
  <2>1. r # <<>> /\ ready'[p] = Tail(r) /\ proc'[p].at = proc[p].at
    BY <1>3 DEF RunsTask
  <2>2. 1 \in DOMAIN r /\ t = r[1]
    BY <1>0, <2>1
  <2>3. /\ DOMAIN ready'[p] = 1 .. Len(r) - 1
        /\ \A i \in DOMAIN ready'[p] : ready'[p][i] = r[i + 1] /\ i + 1 \in DOMAIN r /\ i + 1 > 1
    BY <1>0, <2>1
  <2>4. \A i \in DOMAIN down'[p] :
          \/ i \in DOMAIN d /\ down'[p][i] = d[i]
          \/ down'[p][i].type = "message" => down'[p][i].ch = t.ch /\ down'[p][i].pos = t.after + 1
    <3>1. CASE down'[p] = d
      BY <3>1
    <3>2. CASE \E f \in Frames : /\ f.ch = t.ch /\ down'[p] = Append(d, f)
                                 /\ f.type = "message" => f.pos = t.after + 1
      BY <1>0, <3>2
    <3> QED  BY <1>3, <3>1, <3>2 DEF RunsTask
  <2> HIDE DEF t, r, d
  <2>5. \A i, j \in DOMAIN ready'[p] : i < j => i + 1 < j + 1
    BY <1>0, <2>3
  <2>6. ASSUME NEW i \in DOMAIN down'[p], NEW j \in DOMAIN ready'[p],
               IsMessage(down'[p][i], ch), ready'[p][j].ch = ch
        PROVE  down'[p][i].pos <= ready'[p][j].after + 1
    <3>1. j + 1 \in DOMAIN r /\ j + 1 > 1 /\ ready'[p][j] = r[j + 1]
      BY <2>3
    <3>2. CASE i \in DOMAIN d /\ down'[p][i] = d[i]
      BY <2>6, <3>1, <3>2 DEF TasksNext, r, d
    <3>3. CASE down'[p][i].ch = t.ch /\ down'[p][i].pos = t.after + 1
      <4>1. r[1].after <= r[j + 1].after
        BY <2>2, <2>6, <3>1, <3>3 DEF TasksNext, IsMessage, r
      <4>2. r[1].after \in Nat /\ r[j + 1].after \in Nat
        BY <1>0, <2>2, <3>1
      <4> QED  BY <2>2, <3>1, <3>3, <4>1, <4>2
    <3> QED  BY <2>4, <2>6, <3>2, <3>3 DEF IsMessage
  <2>7. /\ \A i \in DOMAIN ready'[p] : ready'[p][i].ch = ch =>
             ready'[p][i].after <= at /\ at <= ready'[p][i].after + 1
        /\ \A i, j \in DOMAIN ready'[p] : i < j /\ ready'[p][i].ch = ch /\ ready'[p][j].ch = ch
             => ready'[p][i].after <= ready'[p][j].after
    BY <2>3, <2>5 DEF TasksNext, r
  <2> QED  BY <2>1, <2>6, <2>7 DEF TasksNext
\* Frames were read, messages of other channels or one that moves the process on.
<1>4. CASE Shows(p) \/ Skips(p)
  <2> DEFINE f == Head(d)
  <2>1. d # <<>> /\ down'[p] = Tail(d) /\ ready'[p] = r
    BY <1>4 DEF Shows, Skips
  <2>2. 1 \in DOMAIN d /\ f = d[1]
    BY <1>0, <2>1
  <2>3. /\ DOMAIN down'[p] = 1 .. Len(d) - 1
        /\ \A i \in DOMAIN down'[p] : down'[p][i] = d[i + 1] /\ i + 1 \in DOMAIN d
    BY <1>0, <2>1
  <2>4. proc'[p].at[ch] = IF IsMessage(f, ch) THEN f.pos ELSE at
    <3>1. f \in Frames
      BY <1>0, <2>1
    <3> QED  BY <1>4, <3>1 DEF Shows, Skips, SameWatch, IsMessage, ProjectTypes, Processes, Frames
  <2> HIDE DEF f, d, r
  <2>5. ASSUME NEW i \in DOMAIN r, r[i].ch = ch
        PROVE  r[i].after <= proc'[p].at[ch] /\ proc'[p].at[ch] <= r[i].after + 1
    <3>1. r[i].after <= at /\ at <= r[i].after + 1 /\ r[i].after \in Nat
      BY <1>0, <2>5 DEF TasksNext, r
    <3>2. CASE IsMessage(f, ch)
      <4>1. f.pos <= r[i].after + 1 /\ f.pos \in {at, at + 1}
        BY <2>2, <2>5, <3>2 DEF TasksNext, FramesNext, r, d
      <4> QED  BY <1>0, <2>4, <3>1, <3>2, <4>1
    <3> QED  BY <2>4, <3>1, <3>2
  <2>6. \A i \in DOMAIN down'[p], j \in DOMAIN r :
          IsMessage(down'[p][i], ch) /\ r[j].ch = ch => down'[p][i].pos <= r[j].after + 1
    BY <2>3 DEF TasksNext, r, d
  <2>7. \A i, j \in DOMAIN r : i < j /\ r[i].ch = ch /\ r[j].ch = ch => r[i].after <= r[j].after
    BY DEF TasksNext, r
  <2> QED  BY <2>1, <2>5, <2>6, <2>7 DEF TasksNext
\* New tasks ask for what comes after the process, as the woken do.
<1>5. ASSUME NEW a \in Seq(Tasks), ready'[p] = r \o a, proc'[p].at = proc[p].at, down'[p] = d,
             \A i \in DOMAIN a : a[i].ch = ch =>
               a[i].after = at /\ \A j \in DOMAIN d : IsMessage(d[j], ch) => d[j].pos <= at + 1
      PROVE  TasksNext(p, ch)'
  <2>1. /\ DOMAIN ready'[p] = 1 .. Len(r) + Len(a) /\ DOMAIN a = 1 .. Len(a) /\ Len(a) \in Nat
        /\ \A i \in DOMAIN r : ready'[p][i] = r[i]
        /\ \A i \in DOMAIN ready'[p] : i > Len(r) =>
             i - Len(r) \in DOMAIN a /\ ready'[p][i] = a[i - Len(r)]
    BY <1>0, <1>5
  <2> HIDE DEF r, d
  <2>2. \A i \in DOMAIN ready'[p] : i \in DOMAIN r \/ i > Len(r)
    BY <1>0, <2>1
  <2>3. \A i \in DOMAIN ready'[p] : i \notin DOMAIN r /\ ready'[p][i].ch = ch =>
          ready'[p][i].after = at
    BY <1>5, <2>1, <2>2
  <2>4. \A i \in DOMAIN r : ready'[p][i].ch = ch =>
          ready'[p][i].after <= at /\ at <= ready'[p][i].after + 1 /\ ready'[p][i].after \in Nat
    BY <1>0, <2>1 DEF TasksNext, r
  <2>5. \A i \in DOMAIN ready'[p] : ready'[p][i].ch = ch =>
          ready'[p][i].after <= at /\ at <= ready'[p][i].after + 1
    BY <1>0, <2>3, <2>4
  <2>6. ASSUME NEW i \in DOMAIN ready'[p], NEW j \in DOMAIN ready'[p], i < j,
               ready'[p][i].ch = ch, ready'[p][j].ch = ch
        PROVE  ready'[p][i].after <= ready'[p][j].after
    <3>1. CASE j \in DOMAIN r
      <4>1. i \in DOMAIN r
        BY <1>0, <2>1, <2>6, <3>1
      <4> QED  BY <2>1, <2>6, <3>1, <4>1 DEF TasksNext, r
    <3>2. CASE j \notin DOMAIN r
      BY <2>3, <2>5, <2>6, <3>2
    <3> QED  BY <3>1, <3>2
  <2>7. ASSUME NEW i \in DOMAIN d, NEW j \in DOMAIN ready'[p],
               IsMessage(d[i], ch), ready'[p][j].ch = ch
        PROVE  d[i].pos <= ready'[p][j].after + 1
    <3>1. CASE j \in DOMAIN r
      BY <2>1, <2>7, <3>1 DEF TasksNext, r, d
    <3>2. CASE j \notin DOMAIN r
      BY <1>5, <2>1, <2>2, <2>3, <2>7, <3>2
    <3> QED  BY <3>1, <3>2
  <2> QED  BY <1>5, <2>5, <2>6, <2>7 DEF TasksNext
<1>6. ASSUME NEW j \in DOMAIN d, IsMessage(d[j], ch) PROVE d[j].pos <= at + 1
  <2>1. d[j].pos \in {at, at + 1}
    BY <1>6 DEF FramesNext
  <2> HIDE DEF d, at
  <2> QED  BY <1>0, <2>1
<1>7. CASE Wakes(p)
  <2>1. PICK c \in Channels : ready'[p] = r \o parked[p][c]
    BY <1>7 DEF Wakes
  <2>2. proc'[p].at = proc[p].at /\ down'[p] = d /\ parked[p][c] \in Seq(Tasks)
    BY <1>7 DEF Wakes, ProjectTypes
  <2>3. ASSUME NEW i \in DOMAIN parked[p][c], parked[p][c][i].ch = ch
        PROVE  parked[p][c][i].after = at
    <3>1. parked[p][c][i] = [ch |-> c, after |-> HeadOf(c)] /\ proc[p].at[c] = HeadOf(c)
      BY DEF ParkedAtHead
    <3>2. c = ch
      BY <2>3, <3>1
    <3> QED  BY <3>1, <3>2
  <2> QED  BY <1>5, <1>6, <2>1, <2>2, <2>3
<1>8. CASE GoesOn(p) /\ ready'[p] # r
  <2> DEFINE t == Task(proc[p].at, proc[p].ch)
             a == <<t>>
  <2>1. ready'[p] = Append(r, t) /\ proc[p].ch \in Channels /\ proc'[p].at = proc[p].at /\ down'[p] = d
    BY <1>8 DEF GoesOn, SameWatch
  <2>2. t \in Tasks /\ t = [ch |-> proc[p].ch, after |-> proc[p].at[proc[p].ch]]
    BY <2>1 DEF Task, Tasks, ProjectTypes, Processes
  <2>3. a \in Seq(Tasks) /\ DOMAIN a = {1} /\ a[1] = t
    BY <2>2
  <2>4. r \o a = Append(r, t)
    BY <1>0, <2>2, <2>3
  <2>5. t.ch = ch => t.after = at
    BY <2>2
  <2> HIDE DEF t, a
  <2> QED  BY <1>5, <1>6, <2>1, <2>3, <2>4, <2>5
<1>9. CASE Resends(p)
  <2>1. PICK s : AskAfter(s, proc[p].at) /\ ready'[p] = r \o s
    BY <1>9 DEF Resends
  <2>2. proc'[p].at = proc[p].at /\ down'[p] = d
    BY <1>9 DEF Resends, SameWatch
  <2> QED  BY <1>5, <1>6, <2>1, <2>2 DEF AskAfter
\* A process that begins or reconnects has asked for nothing else.
<1>10. CASE Begins(p) \/ Reconnects(p)
  <2>1. AskAfter(ready'[p], proc'[p].at) /\ down'[p] = <<>>
    BY <1>10 DEF Begins, Reconnects, Connections, SameWatch
  <2>2. \A i \in DOMAIN ready'[p] : ready'[p][i].ch = ch => ready'[p][i].after = proc'[p].at[ch]
    BY <2>1 DEF AskAfter
  <2>3. proc'[p].at[ch] \in Nat
    BY DEF ProjectTypes, Processes
  <2> QED  BY <2>1, <2>2, <2>3 DEF TasksNext
<1> QED
  BY <1>1, <1>2, <1>3, <1>4, <1>7, <1>8, <1>9, <1>10
  DEF ProjectStep, Unmoved, BeginsNot, Ends, Kills, Breaks, GoesOn, Disconnects, BeginsAck, EndsAck,
      SameServer, SameWatch, Cut

\* A task waits only at the head.
LEMMA ParkedStep ==
  ASSUME NEW p \in Projects, ProjectTypes(p), ProjectStep(p), NEW ch \in Channels,
         FramesNext(p, ch), TasksNext(p, ch), ParkedAtHead(p, ch), SeenPrefix(p, ch)
  PROVE  ParkedAtHead(p, ch)'
<1> DEFINE at == proc[p].at[ch]
<1>0. /\ at \in Nat /\ HeadOf(ch) \in Nat /\ at <= HeadOf(ch)
      /\ parked[p] \in [Channels -> Seq(Tasks)]
  BY DEF ProjectTypes, Processes, SeenPrefix
<1>1. CASE parked'[p][ch] = parked[p][ch] /\ proc'[p].at = proc[p].at /\ HeadOf(ch)' = HeadOf(ch)
  BY <1>1 DEF ParkedAtHead
<1>2. CASE parked'[p][ch] = <<>>
  BY <1>2 DEF ParkedAtHead
<1>3. CASE Wakes(p)
  <2>1. PICK c \in Channels : /\ \A e \in Channels \ {c} : HeadOf(e)' = HeadOf(e)
                              /\ parked'[p] = [parked[p] EXCEPT ![c] = <<>>] /\ proc'[p] = proc[p]
    BY <1>3 DEF Wakes
  <2> QED  BY <1>0, <1>1, <1>2, <2>1
<1>4. CASE RunsTask(p) /\ parked'[p] # parked[p]
  <2> DEFINE t == Head(ready[p])
  <2>1. /\ HeadOf(t.ch) <= t.after /\ parked'[p] = [parked[p] EXCEPT ![t.ch] = Append(@, t)]
        /\ proc'[p].at = proc[p].at /\ HeadOf(ch)' = HeadOf(ch) /\ ready[p] # <<>>
    BY <1>4 DEF RunsTask, SameHeads
  <2>2. 1 \in DOMAIN ready[p] /\ t = ready[p][1] /\ t \in Tasks
    BY <2>1 DEF ProjectTypes
  <2> HIDE DEF t
  <2>3. CASE t.ch = ch
    <3>1. t.after <= at /\ t.after \in Nat
      BY <2>2, <2>3 DEF TasksNext, Tasks
    <3>2. t.after = HeadOf(ch) /\ at = HeadOf(ch)
      BY <1>0, <2>1, <2>3, <3>1
    <3>3. t = [ch |-> ch, after |-> HeadOf(ch)]
      BY <2>2, <2>3, <3>2 DEF Tasks
    <3>4. parked'[p][ch] = Append(parked[p][ch], t) /\ parked[p][ch] \in Seq(Tasks)
      BY <1>0, <2>1, <2>3
    <3>5. \A i \in DOMAIN parked'[p][ch] :
            parked'[p][ch][i] = t \/ (i \in DOMAIN parked[p][ch] /\ parked'[p][ch][i] = parked[p][ch][i])
      BY <2>2, <3>4
    <3> QED  BY <2>1, <3>2, <3>3, <3>5 DEF ParkedAtHead
  <2>4. CASE t.ch # ch
    BY <1>0, <1>1, <2>1, <2>4
  <2> QED  BY <2>3, <2>4
<1>5. CASE Shows(p)
  <2> DEFINE f == Head(down[p])
  <2>1. /\ parked'[p] = parked[p] /\ HeadOf(ch)' = HeadOf(ch) /\ down[p] # <<>>
        /\ proc'[p].at = [proc[p].at EXCEPT ![f.ch] = f.pos] /\ f.type = "message"
    BY <1>5 DEF Shows, SameHeads
  <2>2. 1 \in DOMAIN down[p] /\ f = down[p][1] /\ f \in Frames
    BY <2>1 DEF ProjectTypes
  <2> HIDE DEF f
  <2>3. f.ch = ch => f.pos \in {at, at + 1} /\ f.pos \in 1 .. HeadOf(ch)
    BY <2>1, <2>2 DEF FramesNext, IsMessage
  <2>4. proc'[p].at[ch] = IF f.ch = ch THEN f.pos ELSE at
    BY <2>1 DEF ProjectTypes, Processes
  <2>5. at = HeadOf(ch) => proc'[p].at[ch] = HeadOf(ch)
    BY <1>0, <2>3, <2>4
  <2> QED  BY <2>1, <2>5 DEF ParkedAtHead
<1> QED
  BY <1>1, <1>2, <1>3, <1>4, <1>5
  DEF ProjectStep, Unmoved, RunsTask, Begins, BeginsNot, Ends, Kills, Breaks, Skips, GoesOn, Resends,
      Disconnects, Reconnects, BeginsAck, EndsAck, SameServer, SameWatch, SameHeads, Cut, NoneParked

\* What a print saves is what the process has.
LEMMA SavesStep ==
  ASSUME NEW p \in Projects, ProjectTypes(p), Saves(p), NEW ch \in Channels,
         SeenPrefix(p, ch), SavesItself(p, ch)
  PROVE  /\ ack'[p] = ack[p] /\ printed'[p] = printed[p]
         /\ \/ cursor'[p][ch] = cursor[p][ch]
            \/ cursor'[p][ch] = proc[p].at[ch] /\ ack[p].owed[ch] = 0
         /\ proc[p].mode = "multi" => cursor'[p][ch] = proc[p].at[ch]
BY DEF Saves, SeenPrefix, SavesItself, ProjectTypes

\* The user keeps having seen a prefix.
LEMMA SeenStep ==
  ASSUME NEW p \in Projects, ProjectTypes(p), ProjectStep(p), NEW ch \in Channels, AckOwed(p),
         FramesNext(p, ch), SeenPrefix(p, ch), SavesItself(p, ch)
  PROVE  SeenPrefix(p, ch)'
<1> DEFINE at == proc[p].at[ch]
           cur == cursor[p][ch]
           owed == ack[p].owed[ch]
<1>0. /\ at \in Nat /\ cur \in Nat /\ owed \in Nat /\ HeadOf(ch) \in Nat
      /\ HeadOf(ch)' \in {HeadOf(ch), HeadOf(ch) + 1}
  <2>1. at \in Nat /\ cur \in Nat /\ owed \in Nat /\ HeadOf(ch) \in Nat
    BY DEF ProjectTypes, Processes, Acks
  <2>2. SameHeads \/ Wakes(p)
    BY DEF ProjectStep, Unmoved, RunsTask, Begins, BeginsNot, Ends, Kills, Breaks, Shows, Skips, GoesOn,
           Resends, Disconnects, Reconnects, BeginsAck, EndsAck
  <2> QED  BY <2>1, <2>2 DEF SameHeads, Wakes
<1>1. PICK k \in 0 .. HeadOf(ch) :
        /\ printed[p][ch] = 1 .. k /\ at <= k /\ cur + owed <= k
        /\ proc[p].pc # "off" => cur + owed <= at
  BY DEF SeenPrefix
<1>2. k \in 0 .. HeadOf(ch)' /\ k \in Nat
  BY <1>0, <1>1
<1>3. ASSUME printed'[p] = printed[p], proc'[p].at[ch] \in {at, 0, cur},
             cursor'[p][ch] + ack'[p].owed[ch] \in {cur, cur + owed},
             proc'[p].pc # "off" =>
               cursor'[p][ch] + ack'[p].owed[ch] <= proc'[p].at[ch]
      PROVE  SeenPrefix(p, ch)'
  <2>1. cursor'[p][ch] + ack'[p].owed[ch] <= k /\ proc'[p].at[ch] <= k
    BY <1>0, <1>1, <1>3
  <2> QED  BY <1>1, <1>2, <1>3, <2>1 DEF SeenPrefix
<1>4. CASE proc'[p].at = proc[p].at /\ proc'[p].pc = proc[p].pc /\ SameFiles(p)
  BY <1>0, <1>1, <1>3, <1>4 DEF SameFiles
<1>5. CASE Begins(p) \/ BeginsNot(p)
  <2>1. ack'[p].owed[ch] = 0 /\ cursor'[p][ch] = cur /\ printed'[p] = printed[p]
    BY <1>5 DEF Begins, BeginsNot
  <2>2. \/ proc'[p].at[ch] = cur
        \/ proc'[p].at[ch] = 0 /\ proc'[p].pc = "off"
    BY <1>5 DEF Begins, BeginsNot, Off
  <2> QED  BY <1>0, <1>3, <2>1, <2>2
<1>6. CASE Ends(p) \/ Breaks(p) \/ GoesOn(p)
  <2>1. Saves(p) /\ \/ proc'[p].at[ch] = 0 /\ proc'[p].pc = "off"
                    \/ proc'[p].at = proc[p].at /\ proc[p].pc # "off"
    BY <1>6 DEF Ends, Breaks, GoesOn, SameWatch, Off
  <2>2. /\ ack'[p] = ack[p] /\ printed'[p] = printed[p]
        /\ cursor'[p][ch] = cur \/ (cursor'[p][ch] = at /\ owed = 0)
    BY <2>1, SavesStep
  <2>3. cursor'[p][ch] + ack'[p].owed[ch] <= k
    BY <1>0, <1>1, <2>2
  <2>4. proc'[p].at[ch] <= k
    BY <1>0, <1>1, <1>2, <2>1
  <2>5. proc'[p].pc # "off" => cursor'[p][ch] + ack'[p].owed[ch] <= proc'[p].at[ch]
    BY <1>0, <1>1, <2>1, <2>2
  <2> QED  BY <1>1, <1>2, <2>2, <2>3, <2>4, <2>5 DEF SeenPrefix
<1>7. CASE Kills(p)
  <2>1. proc'[p].at[ch] = 0 /\ proc'[p].pc = "off"
    BY <1>7 DEF Kills, Off
  <2> QED  BY <1>0, <1>3, <1>7, <2>1 DEF Kills, SameFiles
<1>8. CASE Shows(p)
  <2> DEFINE f == Head(down[p])
  <2>1. /\ HeadOf(ch)' = HeadOf(ch) /\ down[p] # <<>>
        /\ proc'[p].at = [proc[p].at EXCEPT ![f.ch] = f.pos] /\ f.type = "message"
        /\ printed'[p] = [printed[p] EXCEPT ![f.ch] = @ \cup {f.pos}]
        /\ ack'[p].owed = IF proc[p].mode # "multi" /\ f.pos > proc[p].at[f.ch]
                          THEN [ack[p].owed EXCEPT ![f.ch] = @ + 1] ELSE ack[p].owed
        /\ cursor'[p] = cursor[p] /\ proc[p].pc # "off"
    BY <1>8 DEF Shows, SameHeads
  <2>2. 1 \in DOMAIN down[p] /\ f = down[p][1] /\ f \in Frames
    BY <2>1 DEF ProjectTypes
  <2> HIDE DEF f
  <2>3. /\ proc[p].at \in [Channels -> Nat] /\ ack[p].owed \in [Channels -> Nat]
        /\ printed[p] \in [Channels -> SUBSET Nat]
    BY DEF ProjectTypes, Processes, Acks
  <2>4. CASE f.ch # ch
    <3>1. /\ proc'[p].at[ch] = at /\ printed'[p][ch] = printed[p][ch] /\ ack'[p].owed[ch] = owed
          /\ cursor'[p][ch] = cur
      BY <2>1, <2>3, <2>4
    <3> QED  BY <1>0, <1>1, <1>2, <2>1, <3>1 DEF SeenPrefix
  <2>5. CASE f.ch = ch
    <3>1. f.pos \in {at, at + 1} /\ f.pos \in 1 .. HeadOf(ch)
      BY <2>1, <2>2, <2>5 DEF FramesNext, IsMessage
    <3>2. /\ proc'[p].at[ch] = f.pos /\ printed'[p][ch] = (1 .. k) \cup {f.pos}
          /\ cursor'[p][ch] = cur
      BY <1>1, <2>1, <2>3, <2>5
    <3>3. ack'[p].owed[ch] = owed \/ (f.pos > at /\ ack'[p].owed[ch] = owed + 1)
      BY <2>1, <2>3, <2>5
    <3>4. cursor'[p][ch] + ack'[p].owed[ch] <= f.pos
      BY <1>0, <1>1, <2>1, <3>1, <3>2, <3>3, SMTT(30)
    <3>5. CASE f.pos <= k
      <4>1. printed'[p][ch] = 1 .. k
        BY <1>2, <3>1, <3>2, <3>5
      <4>2. cursor'[p][ch] + ack'[p].owed[ch] <= k
        BY <1>0, <1>2, <3>1, <3>2, <3>3, <3>4, <3>5
      <4> QED  BY <1>2, <3>2, <3>4, <3>5, <4>1, <4>2 DEF SeenPrefix
    <3>6. CASE ~(f.pos <= k)
      <4>1. f.pos = k + 1
        BY <1>0, <1>1, <1>2, <3>1, <3>6
      <4>2. printed'[p][ch] = 1 .. f.pos
        BY <1>2, <3>2, <4>1
      <4>3. f.pos \in 0 .. HeadOf(ch)' /\ f.pos <= f.pos
        BY <2>1, <3>1
      <4> QED  BY <3>2, <3>4, <4>2, <4>3 DEF SeenPrefix
    <3> QED  BY <3>5, <3>6
  <2> QED  BY <2>4, <2>5
<1>9. CASE Skips(p) \/ Resends(p) \/ Reconnects(p)
  <2>1. proc'[p].at = proc[p].at /\ SameFiles(p) /\ proc[p].pc # "off"
    BY <1>9 DEF Skips, Resends, Reconnects, SameWatch
  <2> QED  BY <1>0, <1>1, <1>3, <2>1 DEF SameFiles
<1>10. CASE Disconnects(p)
  BY <1>4, <1>10 DEF Disconnects, ProjectTypes, Processes
<1>11. CASE BeginsAck(p)
  BY <1>0, <1>1, <1>3, <1>11 DEF BeginsAck
<1>12. CASE EndsAck(p)
  <2> DEFINE c == ack[p].ch
  <2>1. /\ c \in Channels /\ ack[p].owed[c] > 0
        /\ ack'[p].owed = [ack[p].owed EXCEPT ![c] = @ - 1]
        /\ cursor'[p] = cursor[p] \/ cursor'[p] = [cursor[p] EXCEPT ![c] = @ + 1]
        /\ printed'[p] = printed[p] /\ proc'[p] = proc[p]
    BY <1>12 DEF EndsAck, AckOwed
  <2>2. ack[p].owed \in [Channels -> Nat] /\ cursor[p] \in [Channels -> Nat]
    BY DEF ProjectTypes, Acks
  <2> HIDE DEF c
  <2>3. cursor'[p][ch] + ack'[p].owed[ch] <= cur + owed /\ cursor'[p][ch] + ack'[p].owed[ch] \in Int
    BY <1>0, <2>1, <2>2
  <2>4. cursor'[p][ch] + ack'[p].owed[ch] <= k
    BY <1>0, <1>1, <1>2, <2>3
  <2>5. proc[p].pc # "off" => cursor'[p][ch] + ack'[p].owed[ch] <= at
    BY <1>0, <1>1, <2>3
  <2> QED  BY <1>1, <1>2, <2>1, <2>4, <2>5 DEF SeenPrefix
<1> QED
  BY <1>4, <1>5, <1>6, <1>7, <1>8, <1>9, <1>10, <1>11, <1>12
  DEF ProjectStep, Unmoved, Wakes, RunsTask

\* And a watch-multi keeps saving what it has printed.
LEMMA SavesItselfStep ==
  ASSUME NEW p \in Projects, ProjectTypes(p), ProjectStep(p), NEW ch \in Channels,
         FramesNext(p, ch), SeenPrefix(p, ch), \A c \in Channels : SavesItself(p, c)
  PROVE  SavesItself(p, ch)'
<1> DEFINE at == proc[p].at[ch]
           cur == cursor[p][ch]
<1>0. proc[p].at \in [Channels -> Nat] /\ cursor[p] \in [Channels -> Nat]
  BY DEF ProjectTypes, Processes
<1>1. CASE SameFiles(p) /\ SameWatch(p) /\ proc'[p].pc = proc[p].pc
  BY <1>1 DEF SameFiles, SameWatch, SavesItself
<1>2. CASE Begins(p)
  BY <1>2 DEF Begins, SavesItself
<1>3. CASE BeginsNot(p) \/ Ends(p) \/ Kills(p)
  BY <1>3 DEF BeginsNot, Ends, Kills, SavesItself, Off
<1>4. CASE Breaks(p) \/ GoesOn(p)
  <2>1. Saves(p) /\ SameWatch(p)
    BY <1>4 DEF Breaks, GoesOn
  <2>2. ack'[p] = ack[p] /\ (proc[p].mode = "multi" => cursor'[p][ch] = at)
    BY <2>1, SavesStep
  <2> QED  BY <2>1, <2>2 DEF SameWatch, SavesItself
<1>5. CASE Shows(p)
  <2> DEFINE f == Head(down[p])
  <2>1. /\ down[p] # <<>> /\ f.type = "message"
        /\ proc'[p].at = [proc[p].at EXCEPT ![f.ch] = f.pos] /\ proc'[p].ch = f.ch
        /\ proc'[p].pc = "printed" /\ proc'[p].mode = proc[p].mode /\ proc[p].pc = "recv"
        /\ proc[p].mode = "multi" => ack'[p].owed = ack[p].owed
        /\ ack'[p].pc = ack[p].pc /\ cursor'[p] = cursor[p]
    BY <1>5 DEF Shows
  <2>2. 1 \in DOMAIN down[p] /\ f = down[p][1] /\ f \in Frames
    BY <2>1 DEF ProjectTypes
  <2> HIDE DEF f
  <2>3. f.ch = ch => f.pos \in {at, at + 1}
    BY <2>1, <2>2 DEF FramesNext, IsMessage
  <2>4. proc'[p].at[ch] = IF f.ch = ch THEN f.pos ELSE at
    BY <1>0, <2>1
  <2>5. proc[p].mode = "multi" => at = cur
    BY <2>1 DEF SavesItself
  <2> QED  BY <2>1, <2>3, <2>4, <2>5 DEF SavesItself
<1>6. CASE Skips(p) \/ Resends(p) \/ Reconnects(p)
  <2>1. SameFiles(p) /\ SameWatch(p) /\ proc[p].pc # "printed"
    BY <1>6 DEF Skips, Resends, Reconnects
  <2> QED  BY <2>1 DEF SameFiles, SameWatch, SavesItself
<1>7. CASE Disconnects(p)
  <2>1. SameWatch(p) /\ proc'[p].pc = proc[p].pc
    BY <1>7 DEF Disconnects, SameWatch, ProjectTypes, Processes
  <2> QED  BY <1>1, <1>7, <2>1 DEF Disconnects
<1>8. CASE BeginsAck(p) \/ EndsAck(p)
  <2>1. proc'[p] = proc[p]
    BY <1>8 DEF BeginsAck, EndsAck
  <2>2. proc[p].mode # "multi"
    BY <1>8 DEF BeginsAck, EndsAck, SavesItself
  <2> QED  BY <2>1, <2>2 DEF SavesItself
<1> QED
  BY <1>1, <1>2, <1>3, <1>4, <1>5, <1>6, <1>7, <1>8 DEF ProjectStep, Unmoved, Wakes, RunsTask, SameWatch

\* What it asks for stays below its saved cursor, which only grows.
LEMMA AsksSavedStep ==
  ASSUME NEW p \in Projects, ProjectTypes(p), ProjectTypes(p)', Connections(p), ProjectStep(p),
         NEW ch \in Channels, SeenPrefix(p, ch), SavesItself(p, ch), AsksSaved(p, ch),
         \A c \in Channels : ParkedAtHead(p, c)
  PROVE  AsksSaved(p, ch)'
<1> DEFINE d == down[p]
           r == ready[p]
           at == proc[p].at[ch]
           cur == cursor[p][ch]
           new == cursor'[p][ch]
<1>0. /\ d \in Seq(Frames) /\ DOMAIN d = 1 .. Len(d) /\ Len(d) \in Nat
      /\ r \in Seq(Tasks) /\ DOMAIN r = 1 .. Len(r) /\ Len(r) \in Nat
      /\ \A i \in DOMAIN d : d[i].pos \in Nat
      /\ \A i \in DOMAIN r : r[i].after \in Nat
      /\ at \in Nat /\ cur \in Nat /\ new \in Nat /\ HeadOf(ch) \in Nat
  <2>1. d \in Seq(Frames) /\ r \in Seq(Tasks) /\ at \in Nat /\ cur \in Nat /\ new \in Nat /\ HeadOf(ch) \in Nat
    BY DEF ProjectTypes, Processes
  <2>2. /\ DOMAIN d = 1 .. Len(d) /\ Len(d) \in Nat /\ \A i \in DOMAIN d : d[i] \in Frames
        /\ DOMAIN r = 1 .. Len(r) /\ Len(r) \in Nat /\ \A i \in DOMAIN r : r[i] \in Tasks
    BY <2>1
  <2> HIDE DEF d, r
  <2> QED  BY <2>1, <2>2 DEF Frames, Tasks
\* More tasks, none of them after the cursor.
<1>1. ASSUME NEW a \in Seq(Tasks), ready'[p] = r \o a, proc'[p].mode = proc[p].mode, cur <= new,
             \A i \in DOMAIN a : a[i].ch = ch /\ proc[p].mode = "multi" => a[i].after <= new
      PROVE  proc[p].mode = "multi" =>
               \A i \in DOMAIN ready'[p] : ready'[p][i].ch = ch => ready'[p][i].after <= new
  <2>1. \A i \in DOMAIN ready'[p] : \/ i \in DOMAIN r /\ ready'[p][i] = r[i]
                                    \/ i - Len(r) \in DOMAIN a /\ ready'[p][i] = a[i - Len(r)]
    BY <1>0, <1>1
  <2>2. ASSUME NEW i \in DOMAIN r, r[i].ch = ch, proc[p].mode = "multi" PROVE r[i].after <= new
    <3>1. r[i].after <= cur /\ r[i].after \in Nat
      BY <1>0, <2>2 DEF AsksSaved
    <3> HIDE DEF r, cur, new
    <3> QED  BY <1>0, <1>1, <3>1
  <2> HIDE DEF r, new
  <2> QED  BY <1>1, <2>1, <2>2
\* Frames that were on the way before, some of them.
<1>2. ASSUME down'[p] = d, cur <= new, proc[p].mode = "multi"
      PROVE  \A i \in DOMAIN down'[p] : IsMessage(down'[p][i], ch) => down'[p][i].pos <= new + 1
  <2> SUFFICES ASSUME NEW i \in DOMAIN d, IsMessage(d[i], ch) PROVE d[i].pos <= new + 1
    BY <1>2
  <2>1. d[i].pos <= cur + 1 /\ d[i].pos \in Nat
    BY <1>0, <1>2 DEF AsksSaved
  <2> HIDE DEF d, cur, new
  <2> QED  BY <1>0, <1>2, <2>1
<1>3. CASE /\ ready'[p] = r /\ parked'[p] = parked[p] /\ down'[p] = d
           /\ proc'[p] = proc[p] /\ cur <= new /\ HeadOf(ch)' = HeadOf(ch)
  <2>1. r \o <<>> = r /\ <<>> \in Seq(Tasks) /\ DOMAIN <<>> = {}
    BY <1>0
  <2>2. proc[p].mode = "multi" =>
          \A i \in DOMAIN ready'[p] : ready'[p][i].ch = ch => ready'[p][i].after <= new
    BY <1>1, <1>3, <2>1
  <2>3. proc[p].mode = "multi" /\ parked[p][ch] # <<>> => HeadOf(ch) <= new
    <3>1. proc[p].mode = "multi" /\ parked[p][ch] # <<>> => HeadOf(ch) <= cur
      BY DEF AsksSaved
    <3> HIDE DEF cur, new
    <3> QED  BY <1>0, <1>3, <3>1
  <2> QED  BY <1>2, <1>3, <2>2, <2>3 DEF AsksSaved
<1>4. CASE Cut(p) /\ down'[p] = <<>>
  BY <1>4 DEF Cut, NoneParked, AsksSaved
<1>5. CASE Wakes(p)
  <2>1. PICK c \in Channels : /\ \A e \in Channels \ {c} : HeadOf(e)' = HeadOf(e)
                              /\ ready'[p] = r \o parked[p][c]
                              /\ parked'[p] = [parked[p] EXCEPT ![c] = <<>>]
    BY <1>5 DEF Wakes
  <2>2. proc'[p] = proc[p] /\ down'[p] = d /\ new = cur /\ parked[p] \in [Channels -> Seq(Tasks)]
    BY <1>5 DEF Wakes, SameFiles, ProjectTypes
  <2>3. ASSUME NEW i \in DOMAIN parked[p][c], parked[p][c][i].ch = ch, proc[p].mode = "multi"
        PROVE  parked[p][c][i].after <= new
    <3>1. parked[p][c][i] = [ch |-> c, after |-> HeadOf(c)]
      BY DEF ParkedAtHead
    <3>2. c = ch /\ parked[p][ch] # <<>>
      BY <2>2, <2>3, <3>1
    <3> QED  BY <2>2, <2>3, <3>1, <3>2 DEF AsksSaved
  <2>4. proc[p].mode = "multi" =>
          \A i \in DOMAIN ready'[p] : ready'[p][i].ch = ch => ready'[p][i].after <= new
    <3>1. parked[p][c] \in Seq(Tasks) /\ proc'[p].mode = proc[p].mode /\ cur <= new
      BY <1>0, <2>2
    <3>2. \A i \in DOMAIN parked[p][c] :
            parked[p][c][i].ch = ch /\ proc[p].mode = "multi" => parked[p][c][i].after <= new
      BY <2>3
    <3> QED  BY <1>1, <2>1, <3>1, <3>2
  <2>5. proc[p].mode = "multi" /\ parked'[p][ch] # <<>> => HeadOf(ch)' <= new
    BY <2>1, <2>2 DEF AsksSaved
  <2> QED  BY <1>0, <1>2, <2>2, <2>4, <2>5 DEF AsksSaved
<1>6. CASE RunsTask(p)
  <2> DEFINE t == Head(r)
  <2>1. /\ r # <<>> /\ ready'[p] = Tail(r) /\ proc'[p] = proc[p] /\ HeadOf(ch)' = HeadOf(ch) /\ new = cur
    BY <1>6 DEF RunsTask, SameHeads, SameFiles
  <2>2. 1 \in DOMAIN r /\ t = r[1] /\ t \in Tasks
    BY <1>0, <2>1
  <2>3. \A i \in DOMAIN ready'[p] : ready'[p][i] = r[i + 1] /\ i + 1 \in DOMAIN r
    BY <1>0, <2>1
  <2>4. proc[p].mode = "multi" /\ t.ch = ch => t.after <= cur /\ t.after \in Nat
    BY <1>0, <2>2 DEF AsksSaved
  <2> HIDE DEF t, r, d
  <2>5. \/ /\ HeadOf(t.ch) <= t.after /\ down'[p] = d
           /\ parked'[p] = [parked[p] EXCEPT ![t.ch] = Append(@, t)]
        \/ /\ parked'[p] = parked[p]
           /\ \E f \in Frames : /\ f.ch = t.ch /\ down'[p] = Append(d, f)
                                /\ f.type = "message" => f.pos = t.after + 1
    BY <1>6 DEF RunsTask, t, r, d
  <2>6. proc[p].mode = "multi" =>
          \A i \in DOMAIN ready'[p] : ready'[p][i].ch = ch => ready'[p][i].after <= new
    BY <2>1, <2>3 DEF AsksSaved, r
  <2>7. CASE /\ HeadOf(t.ch) <= t.after /\ down'[p] = d
             /\ parked'[p] = [parked[p] EXCEPT ![t.ch] = Append(@, t)]
    <3>1. proc[p].mode = "multi" /\ parked'[p][ch] # <<>> => HeadOf(ch) <= cur
      <4>1. CASE t.ch = ch
        BY <1>0, <2>4, <2>7, <4>1
      <4>2. CASE t.ch # ch
        BY <2>7, <4>2 DEF AsksSaved, ProjectTypes
      <4> QED  BY <4>1, <4>2
    <3> QED  BY <1>0, <1>2, <2>1, <2>6, <2>7, <3>1 DEF AsksSaved
  <2>8. CASE /\ parked'[p] = parked[p]
             /\ \E f \in Frames : /\ f.ch = t.ch /\ down'[p] = Append(d, f)
                                  /\ f.type = "message" => f.pos = t.after + 1
    <3>1. PICK f \in Frames : /\ f.ch = t.ch /\ down'[p] = Append(d, f)
                              /\ f.type = "message" => f.pos = t.after + 1
      BY <2>8
    <3>2. \A i \in DOMAIN down'[p] : down'[p][i] = f \/ (i \in DOMAIN d /\ down'[p][i] = d[i])
      BY <1>0, <3>1
    <3>3. proc[p].mode = "multi" /\ IsMessage(f, ch) => f.pos <= cur + 1
      BY <1>0, <2>4, <3>1 DEF IsMessage
    <3>4. proc[p].mode = "multi" =>
            \A i \in DOMAIN down'[p] : IsMessage(down'[p][i], ch) => down'[p][i].pos <= cur + 1
      BY <3>2, <3>3 DEF AsksSaved, d
    <3> QED  BY <2>1, <2>6, <2>8, <3>4 DEF AsksSaved
  <2> QED  BY <2>5, <2>7, <2>8
<1>7. CASE Shows(p) \/ Skips(p)
  <2>1. /\ d # <<>> /\ down'[p] = Tail(d) /\ ready'[p] = r /\ parked'[p] = parked[p] /\ new = cur
        /\ proc'[p].mode = proc[p].mode /\ HeadOf(ch)' = HeadOf(ch)
    BY <1>7 DEF Shows, Skips, SameWatch, SameFiles, SameHeads
  <2>2. \A i \in DOMAIN down'[p] : down'[p][i] = d[i + 1] /\ i + 1 \in DOMAIN d
    BY <1>0, <2>1
  <2> QED  BY <2>1, <2>2 DEF AsksSaved
<1>8. CASE Begins(p) \/ Reconnects(p)
  <2>1. /\ AskAfter(ready'[p], proc'[p].at) /\ down'[p] = <<>> /\ parked'[p] = NoneParked
        /\ proc'[p].mode = "multi" => proc'[p].at[ch] = new
    BY <1>8 DEF Begins, Reconnects, Connections, SameWatch, SameFiles, SavesItself
  <2>2. proc'[p].mode = "multi" =>
          \A i \in DOMAIN ready'[p] : ready'[p][i].ch = ch => ready'[p][i].after <= new
    BY <1>0, <2>1 DEF AskAfter
  <2> QED  BY <2>1, <2>2 DEF AsksSaved, NoneParked
<1>9. CASE GoesOn(p) \/ Resends(p)
  <2>1. /\ proc'[p].mode = proc[p].mode /\ down'[p] = d /\ parked'[p] = parked[p]
        /\ HeadOf(ch)' = HeadOf(ch)
    BY <1>9 DEF GoesOn, Resends, SameWatch, SameHeads
  <2>2. proc[p].mode = "multi" => cur <= new /\ new = at
    <3>1. proc[p].mode = "multi" => at = cur \/ at = cur + 1
      BY DEF SavesItself
    <3>2. CASE GoesOn(p)
      <4>1. proc[p].mode = "multi" => new = at
        BY <3>2, SavesStep DEF GoesOn
      <4> QED  BY <1>0, <3>1, <4>1
    <3>3. CASE Resends(p)
      BY <1>0, <3>3 DEF Resends, SameFiles, SavesItself
    <3> QED  BY <1>9, <3>2, <3>3
  <2>3. PICK a \in Seq(Tasks) : /\ ready'[p] = r \o a
                                /\ \A i \in DOMAIN a : a[i].after = proc[p].at[a[i].ch]
    <3>1. CASE ready'[p] = r
      <4>1. r \o <<>> = r /\ <<>> \in Seq(Tasks) /\ DOMAIN <<>> = {}
        BY <1>0
      <4> QED  BY <3>1, <4>1
    <3>2. CASE proc[p].ch \in Channels /\ ready'[p] = Append(r, Task(proc[p].at, proc[p].ch))
      <4> DEFINE t == Task(proc[p].at, proc[p].ch)
      <4>1. t \in Tasks /\ t.after = proc[p].at[t.ch]
        BY <3>2 DEF Task, Tasks, ProjectTypes, Processes
      <4> HIDE DEF t
      <4>2. <<t>> \in Seq(Tasks) /\ DOMAIN <<t>> = {1} /\ <<t>>[1] = t
        BY <4>1
      <4>3. r \o <<t>> = Append(r, t)
        BY <1>0, <4>1
      <4> QED  BY <3>2, <4>1, <4>2, <4>3 DEF t
    <3>3. CASE Resends(p)
      BY <3>3 DEF Resends, AskAfter
    <3> QED  BY <1>9, <3>1, <3>2, <3>3 DEF GoesOn
  <2>4. ASSUME proc[p].mode = "multi" PROVE AsksSaved(p, ch)'
    <3>1. \A i \in DOMAIN a : a[i].ch = ch => a[i].after <= new
      BY <1>0, <2>2, <2>3, <2>4
    <3>2. \A i \in DOMAIN ready'[p] : ready'[p][i].ch = ch => ready'[p][i].after <= new
      BY <1>1, <2>1, <2>2, <2>3, <2>4, <3>1
    <3>3. parked[p][ch] # <<>> => HeadOf(ch) <= new
      <4>1. parked[p][ch] # <<>> => HeadOf(ch) <= cur
        BY <2>4 DEF AsksSaved
      <4> HIDE DEF cur, new
      <4> QED  BY <1>0, <2>2, <2>4, <4>1
    <3> QED  BY <1>2, <2>1, <2>2, <2>4, <3>2, <3>3 DEF AsksSaved
  <2> QED  BY <2>1, <2>4 DEF AsksSaved
<1>10. CASE Disconnects(p)
  <2>1. PICK k \in 0 .. Len(d) : down'[p] = SubSeq(d, 1, k)
    BY <1>10 DEF Disconnects
  <2>2. \A i \in DOMAIN down'[p] : i \in DOMAIN d /\ down'[p][i] = d[i]
    BY <1>0, <2>1
  <2>3. proc'[p].mode = proc[p].mode /\ new = cur /\ Cut(p)
    BY <1>10 DEF Disconnects, SameFiles, ProjectTypes, Processes
  <2> QED  BY <2>2, <2>3 DEF Cut, NoneParked, AsksSaved
<1>11. CASE EndsAck(p)
  <2>1. new = cur \/ new = cur + 1
    BY <1>11 DEF EndsAck, ProjectTypes
  <2> QED  BY <1>0, <1>3, <1>11, <2>1 DEF EndsAck, SameServer, SameHeads
<1>12. CASE Unmoved(p) \/ BeginsAck(p)
  BY <1>0, <1>3, <1>12 DEF Unmoved, BeginsAck, SameServer, SameFiles, SameHeads
<1> QED
  BY <1>4, <1>5, <1>6, <1>7, <1>8, <1>9, <1>10, <1>11, <1>12
  DEF ProjectStep, BeginsNot, Ends, Kills, Breaks

-----------------------------------------------------------------------------
(* The invariant holds. *)

\* Every step does one of three things to a channel.
LEMMA NextChannelStep ==
  ASSUME Types, [Next]_vars, NEW ch \in Channels
  PROVE  ChannelStep(ch)
<1>1. ASSUME NEW c \in Channels, NEW m \in Messages, Send(c, m) PROVE ChannelStep(ch)
  BY <1>1, SendGrows DEF ChannelStep
<1>2. ASSUME NEW c \in Channels, Compact(c) PROVE ChannelStep(ch)
  BY <1>2, CompactShrinks DEF ChannelStep
<1>3. CASE UNCHANGED storage
  BY <1>3 DEF storage, SameLog, ChannelStep
<1> QED
  BY <1>1, <1>2, <1>3
  DEF Next, vars, RunWatchTask, StartWatch, Recv, Printed, Stale, Drop, FindBroken, Connect, Kill,
      AckAsks, AckSaves, ServerStops, ServerStarts

\* It holds at first, with empty channels and nobody watching.
LEMMA InitiallyInductive == Init => Inductive
<1> SUFFICES ASSUME Init PROVE Inductive
  OBVIOUS
<1>1. NoAck \in Acks /\ NoAck.pc = "off" /\ \A ch \in Channels : NoAck.owed[ch] = 0
  BY DEF NoAck, Acks
<1>2. /\ Off \in Processes /\ Off.pc = "off" /\ ~Off.conn /\ Off.mode = "watch"
      /\ \A ch \in Channels : Off.at[ch] = 0
  BY OffType DEF Off
<1>3. Types
  <2>1. proc \in [Projects -> Processes]
    BY <1>2 DEF Init
  <2>2. ack \in [Projects -> Acks]
    BY <1>1 DEF Init
  <2>3. /\ lines \in [Channels -> Seq(Lines)] /\ meta \in [Channels -> [head : Nat, oldest : Nat]]
        /\ ready \in [Projects -> Seq(Tasks)] /\ down \in [Projects -> Seq(Frames)]
        /\ parked \in [Projects -> [Channels -> Seq(Tasks)]]
    BY DEF Init, NoMeta, NoneParked
  <2>4. /\ up \in BOOLEAN /\ faults \in Nat /\ cursor \in [Projects -> [Channels -> Nat]]
        /\ printed \in [Projects -> [Channels -> SUBSET Nat]]
    BY DEF Init
  <2> QED  BY <2>1, <2>2, <2>3, <2>4 DEF Types
<1>4. ASSUME NEW ch \in Channels PROVE Numbered(ch) /\ HeadOf(ch) = 0
  <2>1. Cardinality(Messages) \in Nat
    BY BoardBounds, FS_CardinalityType DEF BoardBounds
  <2> QED  BY <2>1 DEF Init, Numbered, NoMeta, HeadOf
<1>5. ASSUME NEW p \in Projects PROVE Connections(p) /\ AckOwed(p)
  BY <1>1, <1>2 DEF Init, Connections, AckOwed
<1>6. ASSUME NEW p \in Projects, NEW ch \in Channels
      PROVE  /\ FramesNext(p, ch) /\ TasksNext(p, ch) /\ ParkedAtHead(p, ch)
             /\ SeenPrefix(p, ch) /\ SavesItself(p, ch) /\ AsksSaved(p, ch)
  <2>1. FramesNext(p, ch) /\ TasksNext(p, ch) /\ ParkedAtHead(p, ch)
    BY DEF Init, NoneParked, FramesNext, TasksNext, ParkedAtHead
  <2>2. /\ printed[p][ch] = {} /\ proc[p].at[ch] = 0 /\ cursor[p][ch] = 0 /\ ack[p].owed[ch] = 0
        /\ proc[p].mode = "watch" /\ HeadOf(ch) = 0
    BY <1>1, <1>2, <1>4 DEF Init
  <2>3. SeenPrefix(p, ch)
    BY <2>2 DEF SeenPrefix
  <2> QED  BY <2>1, <2>2, <2>3 DEF SavesItself, AsksSaved
<1> QED  BY <1>3, <1>4, <1>5, <1>6 DEF Inductive

\* Every step keeps it.
LEMMA NextInductive ==
  ASSUME Inductive, [Next]_vars
  PROVE  Inductive'
<1>0. Types /\ \A ch \in Channels : Numbered(ch)
  BY DEF Inductive
<1>1. Types'
  BY <1>0, TypesStep DEF Inductive
<1>2. ASSUME NEW ch \in Channels PROVE Numbered(ch)'
  BY <1>0, NextChannelStep, NumberedStep
<1>3. ASSUME NEW p \in Projects
      PROVE  ProjectTypes(p) /\ ProjectTypes(p)' /\ ProjectStep(p) /\ Connections(p) /\ AckOwed(p)
  <2>1. ProjectTypes(p)'
    BY <1>1 DEF Types, ProjectTypes, HeadOf
  <2>2. Connections(p) /\ AckOwed(p)
    BY DEF Inductive
  <2> QED  BY <1>0, <2>1, <2>2, TypesOfProject, NextProjectStep
<1>4. ASSUME NEW p \in Projects PROVE Connections(p)' /\ AckOwed(p)'
  BY <1>3, ConnectionsStep, AckOwedStep
<1>5. ASSUME NEW p \in Projects, NEW ch \in Channels
      PROVE  /\ FramesNext(p, ch)' /\ TasksNext(p, ch)' /\ ParkedAtHead(p, ch)'
             /\ SeenPrefix(p, ch)' /\ SavesItself(p, ch)' /\ AsksSaved(p, ch)'
  <2>1. \A c \in Channels : /\ FramesNext(p, c) /\ TasksNext(p, c) /\ ParkedAtHead(p, c)
                            /\ SeenPrefix(p, c) /\ SavesItself(p, c) /\ AsksSaved(p, c)
    BY DEF Inductive
  <2>2. FramesNext(p, ch)' /\ ParkedAtHead(p, ch)'
    BY <1>3, <2>1, FramesStep, ParkedStep
  <2>3. TasksNext(p, ch)'
    BY <1>3, <2>1, TasksStep
  <2>4. SeenPrefix(p, ch)' /\ SavesItself(p, ch)' /\ AsksSaved(p, ch)'
    BY <1>3, <2>1, SeenStep, SavesItselfStep, AsksSavedStep
  <2> QED  BY <2>2, <2>3, <2>4
<1> QED  BY <1>1, <1>2, <1>4, <1>5 DEF Inductive

\* The inductive invariant holds in every state of every run of the board.
THEOREM BoardInvariance == Spec => []Inductive
<1>1. Init => Inductive
  BY InitiallyInductive
<1>2. Inductive /\ [Next]_vars => Inductive'
  BY NextInductive
<1> QED  BY <1>1, <1>2, PTL DEF Spec

\* The types of the variables follow from it, meta.json describes the lines of its
\* channel, and no cursor file stands after a message that was not shown.
THEOREM BoardCorrect == Spec => []BoardInv
<1>1. Inductive => BoardInv
  <2> SUFFICES ASSUME Inductive PROVE BoardInv
    OBVIOUS
  <2>1. ASSUME NEW ch \in Channels
        PROVE  /\ Known(ch) <=> lines[ch] # <<>>
               /\ Known(ch) => /\ meta[ch].oldest = lines[ch][1].pos
                               /\ meta[ch].head = Last(lines[ch]).pos
    <3> DEFINE n == Len(lines[ch])
    <3>1. Numbered(ch) /\ lines[ch] \in Seq(Lines) /\ meta[ch] \in [head : Nat, oldest : Nat]
      BY DEF Inductive, Types
    <3>2. Known(ch) <=> lines[ch] # <<>>
      BY <3>1 DEF Numbered, Known
    <3>3. ASSUME Known(ch)
          PROVE  meta[ch].oldest = lines[ch][1].pos /\ meta[ch].head = Last(lines[ch]).pos
      <4>1. n \in Nat /\ 1 \in DOMAIN lines[ch] /\ n \in DOMAIN lines[ch]
        BY <3>1, <3>2, <3>3
      <4>2. lines[ch][1] \in Lines /\ lines[ch][n] \in Lines
        BY <3>1, <4>1
      <4>3. /\ lines[ch][1].pos + 1 = meta[ch].oldest + 1 /\ lines[ch][n].pos + 1 = meta[ch].oldest + n
            /\ meta[ch].oldest + n = meta[ch].head + 1
        BY <3>1, <3>3, <4>1 DEF Numbered, Known
      <4>4. lines[ch][1].pos \in Nat /\ lines[ch][n].pos \in Nat /\ meta[ch].head \in Nat /\ meta[ch].oldest \in Nat
        BY <3>1, <4>2 DEF Lines
      <4>5. ASSUME NEW a \in Nat, NEW b \in Nat, NEW h \in Nat, NEW o \in Nat,
                   a + 1 = o + 1, b + 1 = o + n, o + n = h + 1
            PROVE  o = a /\ h = b
        BY <4>1, <4>5
      <4>6. Last(lines[ch]) = lines[ch][n]
        BY DEF Last
      <4> HIDE DEF n
      <4> QED  BY <4>3, <4>4, <4>5, <4>6
    <3> QED  BY <3>2, <3>3
  <2>2. ASSUME NEW p \in Projects
        PROVE  /\ proc[p].pc \in {"off", "recv", "printed", "connect"}
               /\ proc[p].attempt \in 0 .. MaxRetries
               /\ ack[p].pc \in {"off", "asked"}
               /\ ~up => ~proc[p].conn
               /\ ready[p] # <<>> \/ parked[p] # NoneParked => proc[p].conn
    <3>1. ProjectTypes(p) /\ Connections(p)
      BY TypesOfProject DEF Inductive
    <3> QED  BY <3>1 DEF ProjectTypes, Processes, Acks, Connections
  <2>3. ASSUME NEW p \in Projects, NEW ch \in Channels
        PROVE  /\ cursor[p][ch] \in 0 .. Cardinality(Messages)
               /\ 1 .. cursor[p][ch] \subseteq printed[p][ch]
    <3>1. ProjectTypes(p) /\ SeenPrefix(p, ch) /\ Numbered(ch)
      BY TypesOfProject DEF Inductive
    <3>2. /\ cursor[p][ch] \in Nat /\ ack[p].owed[ch] \in Nat /\ HeadOf(ch) \in Nat
          /\ Cardinality(Messages) \in Nat /\ HeadOf(ch) <= Cardinality(Messages)
      BY <3>1, BoardBounds, FS_CardinalityType DEF BoardBounds, ProjectTypes, Acks, Numbered, HeadOf
    <3>3. PICK k \in 0 .. HeadOf(ch) : /\ printed[p][ch] = 1 .. k
                                       /\ cursor[p][ch] + ack[p].owed[ch] <= k
      BY <3>1 DEF SeenPrefix
    <3>4. k \in Nat /\ cursor[p][ch] <= k /\ k <= HeadOf(ch)
      BY <3>2, <3>3
    <3> QED  BY <3>2, <3>3, <3>4
  <2>4. ASSUME NEW p \in Projects PROVE cursor[p] \in [Channels -> 0 .. Cardinality(Messages)]
    <3>1. cursor[p] \in [Channels -> Nat]
      BY DEF Inductive, Types
    <3> QED  BY <2>3, <3>1
  <2>5. up \in BOOLEAN
    BY DEF Inductive, Types
  <2> QED  BY <2>1, <2>2, <2>3, <2>4, <2>5 DEF BoardInv, BoardTypeOK, SavedIsPrinted
<1> QED  BY <1>1, BoardInvariance, PTL

-----------------------------------------------------------------------------
(* Refinement: the log of a channel as values of its lines and of the frames. *)

\* The log that the lines of a channel hold.
LogFrom(ls) == [q \in {ls[i].pos : i \in DOMAIN ls} |->
                  ls[CHOOSE i \in DOMAIN ls : ls[i].pos = q].msg]

\* The furthest position among those that were shown and those on the way.
Top(shown, d, ch) ==
  LET sent == {f \in Range(d) : f.type = "message" /\ f.ch = ch}
      all == shown \cup {f.pos : f \in sent} \cup {0}
  IN  CHOOSE q \in all : \A o \in all : o <= q

Arriving(d, ch, q) == \E i \in DOMAIN d : IsMessage(d[i], ch) /\ d[i].pos = q

\* Lines that are numbered one by one hold the messages of an interval of positions.
LEMMA LogFromIs ==
  ASSUME NEW ls \in Seq(Lines), NEW o \in Nat, NEW h \in Nat, o + Len(ls) = h + 1,
         \A i \in DOMAIN ls : ls[i].pos + 1 = o + i
  PROVE  LogFrom(ls) = [q \in o .. h |-> ls[q + 1 - o].msg]
<1>1. DOMAIN ls = 1 .. Len(ls) /\ Len(ls) \in Nat /\ \A i \in DOMAIN ls : ls[i].pos \in Nat
  <2>1. DOMAIN ls = 1 .. Len(ls) /\ Len(ls) \in Nat /\ \A i \in DOMAIN ls : ls[i] \in Lines
    OBVIOUS
  <2> QED  BY <2>1 DEF Lines
<1>2. ASSUME NEW q \in o .. h
      PROVE  /\ q + 1 - o \in DOMAIN ls /\ ls[q + 1 - o].pos = q
             /\ \A i \in DOMAIN ls : ls[i].pos = q => i = q + 1 - o
  <2>1. q + 1 - o \in DOMAIN ls
    BY <1>1
  <2>2. ASSUME NEW x \in Nat, NEW i \in Nat, x + 1 = o + i PROVE x = q <=> i = q + 1 - o
    BY <2>2
  <2>3. \A i \in DOMAIN ls : i \in Nat
    BY <1>1
  <2> QED  BY <1>1, <2>1, <2>2, <2>3
<1>3. ASSUME NEW i \in DOMAIN ls PROVE ls[i].pos \in o .. h
  <2>1. ASSUME NEW x \in Nat, x + 1 = o + i PROVE x \in o .. h
    BY <1>1, <2>1
  <2> QED  BY <1>1, <2>1
<1>4. {ls[i].pos : i \in DOMAIN ls} = o .. h
  <2>1. \A q \in o .. h : \E i \in DOMAIN ls : q = ls[i].pos
    BY <1>2
  <2> QED  BY <1>3, <2>1
<1>5. ASSUME NEW q \in o .. h PROVE (CHOOSE i \in DOMAIN ls : ls[i].pos = q) = q + 1 - o
  BY <1>2
<1> QED  BY <1>4, <1>5 DEF LogFrom

\* A line at the end is the message at the next position.
LEMMA LogFromAppend ==
  ASSUME NEW ls \in Seq(Lines), NEW o \in Nat, NEW h \in Nat, o + Len(ls) = h + 1,
         \A i \in DOMAIN ls : ls[i].pos + 1 = o + i, NEW m \in Messages
  PROVE  LogFrom(Append(ls, [pos |-> h + 1, msg |-> m])) =
           [q \in DOMAIN LogFrom(ls) \cup {h + 1} |-> IF q = h + 1 THEN m ELSE LogFrom(ls)[q]]
<1> DEFINE line == [pos |-> h + 1, msg |-> m]
           new == Append(ls, line)
<1>1. line \in Lines
  BY DEF Lines
<1>2. /\ new \in Seq(Lines) /\ Len(new) = Len(ls) + 1 /\ DOMAIN new = 1 .. Len(ls) + 1
      /\ new[Len(ls) + 1] = line /\ \A i \in DOMAIN ls : new[i] = ls[i]
      /\ DOMAIN ls = 1 .. Len(ls) /\ Len(ls) \in Nat
  BY <1>1
<1>3. line.pos = h + 1 /\ line.msg = m
  OBVIOUS
<1> HIDE DEF new, line
<1>4. \A i \in DOMAIN new : new[i].pos + 1 = o + i
  <2>1. \A i \in DOMAIN new : i \in DOMAIN ls \/ i = Len(ls) + 1
    BY <1>2
  <2>2. (h + 1) + 1 = o + (Len(ls) + 1)
    BY <1>2
  <2> QED  BY <1>2, <1>3, <2>1, <2>2
<1>5. LogFrom(new) = [q \in o .. h + 1 |-> new[q + 1 - o].msg]
  <2>1. h + 1 \in Nat /\ o + Len(new) = (h + 1) + 1
    BY <1>2
  <2> QED  BY <1>2, <1>4, <2>1, LogFromIs
<1>6. LogFrom(ls) = [q \in o .. h |-> ls[q + 1 - o].msg]
  BY LogFromIs
<1>7. (o .. h) \cup {h + 1} = o .. h + 1
  BY <1>2
<1>8. ASSUME NEW q \in o .. h + 1
      PROVE  new[q + 1 - o].msg = IF q = h + 1 THEN m ELSE ls[q + 1 - o].msg
  <2>1. CASE q = h + 1
    BY <1>2, <1>3, <2>1
  <2>2. CASE q # h + 1
    <3>1. q + 1 - o \in DOMAIN ls
      BY <1>2, <2>2
    <3> QED  BY <1>2, <2>2, <3>1
  <2> QED  BY <2>1, <2>2
<1>9. ASSUME NEW q \in o .. h + 1
      PROVE  new[q + 1 - o].msg = IF q = h + 1 THEN m ELSE LogFrom(ls)[q]
  <2>1. q # h + 1 => q \in o .. h
    OBVIOUS
  <2>2. q \in o .. h => LogFrom(ls)[q] = ls[q + 1 - o].msg
    BY <1>6
  <2> QED  BY <1>8, <2>1, <2>2
<1>10. LogFrom(new) = [q \in o .. h + 1 |-> IF q = h + 1 THEN m ELSE LogFrom(ls)[q]]
  BY <1>5, <1>9
<1>11. DOMAIN LogFrom(ls) = o .. h
  BY <1>6
<1> QED  BY <1>7, <1>10, <1>11 DEF new, line

\* Without its first lines the log begins at the position of the first that stays.
LEMMA LogFromSuffix ==
  ASSUME NEW ls \in Seq(Lines), NEW o \in Nat, NEW h \in Nat, o + Len(ls) = h + 1,
         \A i \in DOMAIN ls : ls[i].pos + 1 = o + i, NEW k \in 2 .. Len(ls)
  PROVE  /\ ls[k].pos \in DOMAIN LogFrom(ls)
         /\ LogFrom(SubSeq(ls, k, Len(ls))) = [q \in ls[k].pos .. h |-> LogFrom(ls)[q]]
<1> DEFINE n == Len(ls)
           new == SubSeq(ls, k, n)
           p == ls[k].pos
<1>1. /\ n \in Nat /\ DOMAIN ls = 1 .. n /\ k \in 1 .. n /\ ls[k] \in Lines
      /\ new \in Seq(Lines) /\ Len(new) = n + 1 - k /\ DOMAIN new = 1 .. n + 1 - k
      /\ \A i \in 1 .. n + 1 - k : new[i] = ls[i + k - 1]
  OBVIOUS
<1>2. p \in Nat /\ p + 1 = o + k
  BY <1>1 DEF Lines
<1>0. o + n = h + 1
  OBVIOUS
<1> HIDE DEF new, p, n
<1>3. p + (n + 1 - k) = h + 1 /\ p \in o .. h /\ n + 1 - k \in Nat
  BY <1>0, <1>1, <1>2
<1>4. ASSUME NEW i \in DOMAIN new PROVE new[i].pos + 1 = p + i
  <2>0. i \in 1 .. n + 1 - k
    BY <1>1
  <2>1. i + k - 1 \in DOMAIN ls /\ new[i] = ls[i + k - 1]
    <3>1. i + k - 1 \in 1 .. n
      BY <1>1, <2>0
    <3> QED  BY <1>1, <2>0, <3>1
  <2>2. new[i].pos + 1 = o + (i + k - 1)
    BY <2>1
  <2>3. o + (i + k - 1) = p + i
    <3>1. i \in Int /\ k \in Int
      BY <1>1, <2>0
    <3>2. ASSUME NEW x \in Nat, NEW a \in Int, NEW b \in Int, x + 1 = o + b
          PROVE  o + (a + b - 1) = x + a
      BY <3>2
    <3> QED  BY <1>2, <3>1, <3>2
  <2> QED  BY <2>2, <2>3
<1>5. LogFrom(new) = [q \in p .. h |-> new[q + 1 - p].msg]
  <2>1. p + Len(new) = h + 1
    BY <1>1, <1>3
  <2> QED  BY <1>1, <1>2, <1>4, <2>1, LogFromIs
<1>6. LogFrom(ls) = [q \in o .. h |-> ls[q + 1 - o].msg]
  BY LogFromIs
<1>7. ASSUME NEW q \in p .. h PROVE q \in o .. h /\ new[q + 1 - p] = ls[q + 1 - o]
  <2>1. q \in o .. h /\ q + 1 - p \in 1 .. n + 1 - k /\ (q + 1 - p) + k - 1 = q + 1 - o
    BY <1>0, <1>1, <1>2, <1>3
  <2> QED  BY <1>1, <2>1
<1>8. LogFrom(new) = [q \in p .. h |-> LogFrom(ls)[q]]
  BY <1>5, <1>6, <1>7
<1> QED  BY <1>3, <1>6, <1>8 DEF new, p, n

\* A project was sent what it has seen, or the message after that.
LEMMA TopIs ==
  ASSUME NEW k \in Nat, NEW d \in Seq(Frames), NEW ch \in Channels,
         \A i \in DOMAIN d : IsMessage(d[i], ch) => d[i].pos <= k + 1
  PROVE  Top(1 .. k, d, ch) = IF Arriving(d, ch, k + 1) THEN k + 1 ELSE k
<1> DEFINE sent == {f \in Range(d) : f.type = "message" /\ f.ch = ch}
           coming == {f.pos : f \in sent}
           all == (1 .. k) \cup coming \cup {0}
           top == IF Arriving(d, ch, k + 1) THEN k + 1 ELSE k
<1>1. \A i \in DOMAIN d : d[i] \in Frames /\ d[i].pos \in Nat
  <2>1. \A i \in DOMAIN d : d[i] \in Frames
    OBVIOUS
  <2> QED  BY <2>1 DEF Frames
<1>2. \A q : q \in coming <=> Arriving(d, ch, q)
  BY DEF Range, Arriving, IsMessage
<1> HIDE DEF sent, coming
<1>3. \A q : Arriving(d, ch, q) => q \in Nat /\ q <= k + 1
  BY <1>1 DEF Arriving
<1>4. \A q : q \in all <=> q \in 1 .. k \/ q = 0 \/ Arriving(d, ch, q)
  BY <1>2
<1>5. top \in all /\ \A o \in all : o <= top
  <2>1. CASE Arriving(d, ch, k + 1)
    BY <1>3, <1>4, <2>1
  <2>2. CASE ~Arriving(d, ch, k + 1)
    <3>1. \A q : Arriving(d, ch, q) => q <= k
      BY <1>3, <2>2
    <3> QED  BY <1>4, <2>2, <3>1
  <2> QED  BY <2>1, <2>2
<1>6. \A q \in all : q \in Nat
  BY <1>3, <1>4
<1>7. \A q \in all : (\A o \in all : o <= q) => q = top
  BY <1>5, <1>6
<1> HIDE DEF all, top
<1>8. (CHOOSE q \in all : \A o \in all : o <= q) = top
  BY <1>5, <1>7
<1> QED  BY <1>8 DEF Top, all, sent, coming, top

-----------------------------------------------------------------------------
(* Refinement: what a step is to the reader of a log. *)

\* The reader loses what it was sent and had not acknowledged, or part of it ...
Loses(p, ch) == /\ cursor'[p][ch] = cursor[p][ch]
                /\ Furthest(p, ch)' \in cursor[p][ch] .. Furthest(p, ch)

\* ... is sent the very next message ...
Reads(p, ch) == /\ cursor'[p][ch] = cursor[p][ch]
                /\ Furthest(p, ch)' = Furthest(p, ch) + 1
                /\ Furthest(p, ch) + 1 \in meta[ch].oldest .. HeadOf(ch)

\* ... or acknowledges one that it was sent.
Acknowledges(p, ch) == /\ cursor[p][ch] < Furthest(p, ch)
                       /\ cursor'[p][ch] = cursor[p][ch] + 1
                       /\ Furthest(p, ch)' = Furthest(p, ch)

\* The furthest position is one of the log, and no cursor is past it.
LEMMA FurthestIs ==
  ASSUME NEW p \in Projects, ProjectTypes(p), NEW ch \in Channels,
         FramesNext(p, ch), SeenPrefix(p, ch)
  PROVE  \E k \in Nat :
           /\ printed[p][ch] = 1 .. k /\ k <= HeadOf(ch) /\ proc[p].at[ch] <= k
           /\ cursor[p][ch] + ack[p].owed[ch] <= k
           /\ proc[p].pc # "off" => cursor[p][ch] + ack[p].owed[ch] <= proc[p].at[ch]
           /\ \A i \in DOMAIN down[p] : IsMessage(down[p][i], ch) => down[p][i].pos <= k + 1
           /\ Furthest(p, ch) = IF Arriving(down[p], ch, k + 1) THEN k + 1 ELSE k
           /\ Furthest(p, ch) \in cursor[p][ch] .. HeadOf(ch)
<1> DEFINE d == down[p]
           at == proc[p].at[ch]
           cur == cursor[p][ch]
           owed == ack[p].owed[ch]
<1>1. /\ d \in Seq(Frames) /\ HeadOf(ch) \in Nat /\ at \in Nat /\ cur \in Nat /\ owed \in Nat
  BY DEF ProjectTypes, Processes, Acks
<1>2. PICK k \in 0 .. HeadOf(ch) :
        /\ printed[p][ch] = 1 .. k /\ at <= k /\ cur + owed <= k
        /\ proc[p].pc # "off" => cur + owed <= at
  BY DEF SeenPrefix
<1>3. k \in Nat /\ k <= HeadOf(ch) /\ cur <= k
  BY <1>1, <1>2
<1>4. ASSUME NEW i \in DOMAIN d, IsMessage(d[i], ch)
      PROVE  d[i].pos <= k + 1 /\ d[i].pos \in 1 .. HeadOf(ch)
  <2>1. d[i].pos \in {at, at + 1} /\ d[i].pos \in 1 .. HeadOf(ch)
    BY <1>4 DEF FramesNext
  <2> HIDE DEF d, at
  <2> QED  BY <1>1, <1>2, <1>3, <2>1
<1>5. Furthest(p, ch) = Top(printed[p][ch], d, ch)
  BY DEF Furthest, Top
<1> HIDE DEF d, at, cur, owed
<1>6. Furthest(p, ch) = IF Arriving(d, ch, k + 1) THEN k + 1 ELSE k
  BY <1>1, <1>2, <1>3, <1>4, <1>5, TopIs
<1>7. Arriving(d, ch, k + 1) => k + 1 <= HeadOf(ch)
  BY <1>1, <1>3, <1>4 DEF Arriving
<1>8. Furthest(p, ch) \in cur .. HeadOf(ch)
  BY <1>1, <1>3, <1>6, <1>7
<1> QED  BY <1>2, <1>3, <1>4, <1>6, <1>8 DEF d, at, cur, owed

\* A step of a project loses, reads or acknowledges, on each channel.
LEMMA ProjectReads ==
  ASSUME NEW p \in Projects, ProjectTypes(p), ProjectTypes(p)', Connections(p), AckOwed(p),
         ProjectStep(p), SameHeads, NEW ch \in Channels, FramesNext(p, ch), TasksNext(p, ch),
         SeenPrefix(p, ch), SavesItself(p, ch), AsksSaved(p, ch)
  PROVE  Loses(p, ch) \/ Reads(p, ch) \/ Acknowledges(p, ch)
<1> DEFINE d == down[p]
           e == down'[p]
           at == proc[p].at[ch]
           cur == cursor[p][ch]
           owed == ack[p].owed[ch]
           top == Furthest(p, ch)
<1>1. PICK k \in Nat :
        /\ printed[p][ch] = 1 .. k /\ k <= HeadOf(ch) /\ at <= k /\ cur + owed <= k
        /\ proc[p].pc # "off" => cur + owed <= at
        /\ \A i \in DOMAIN d : IsMessage(d[i], ch) => d[i].pos <= k + 1
        /\ top = IF Arriving(d, ch, k + 1) THEN k + 1 ELSE k
        /\ top \in cur .. HeadOf(ch)
  BY FurthestIs
<1>2. /\ d \in Seq(Frames) /\ e \in Seq(Frames) /\ DOMAIN d = 1 .. Len(d) /\ Len(d) \in Nat
      /\ HeadOf(ch) \in Nat /\ at \in Nat /\ cur \in Nat /\ owed \in Nat /\ top \in Nat
      /\ \A i \in DOMAIN d : d[i].pos \in Nat
  <2>1. d \in Seq(Frames) /\ e \in Seq(Frames) /\ HeadOf(ch) \in Nat
    BY DEF ProjectTypes
  <2>2. at \in Nat /\ cur \in Nat /\ owed \in Nat
    BY DEF ProjectTypes, Processes, Acks
  <2>3. DOMAIN d = 1 .. Len(d) /\ Len(d) \in Nat /\ \A i \in DOMAIN d : d[i] \in Frames
    BY <2>1
  <2>4. top \in Nat
    BY <1>1
  <2> HIDE DEF d
  <2> QED  BY <2>1, <2>2, <2>3, <2>4 DEF Frames
<1>3. Furthest(p, ch)' = Top(printed'[p][ch], e, ch)
  BY DEF Furthest, Top
<1> HIDE DEF d, e, at, cur, owed, top
\* No frame arrives that was not on the way, and nothing else is seen.
<1>4. ASSUME printed'[p] = printed[p],
             \A i \in DOMAIN e : IsMessage(e[i], ch) =>
               \E j \in DOMAIN d : d[j] = e[i]
      PROVE  Furthest(p, ch)' \in {k, top}
  <2>1. \A i \in DOMAIN e : IsMessage(e[i], ch) => e[i].pos <= k + 1
    BY <1>1, <1>4
  <2>2. Furthest(p, ch)' = IF Arriving(e, ch, k + 1) THEN k + 1 ELSE k
    BY <1>1, <1>2, <1>3, <1>4, <2>1, TopIs
  <2>3. Arriving(e, ch, k + 1) => Arriving(d, ch, k + 1)
    BY <1>4 DEF Arriving
  <2> QED  BY <1>1, <2>2, <2>3
<1>5. ASSUME Furthest(p, ch)' \in {k, top}, cursor'[p][ch] = cur
      PROVE  Loses(p, ch)
  <2>1. k \in cur .. top /\ top \in cur .. top
    BY <1>1, <1>2
  <2> QED  BY <1>5, <2>1 DEF Loses, cur, top
<1>6. CASE printed'[p] = printed[p] /\ cursor'[p] = cursor[p] /\ (e = d \/ e = <<>>)
  BY <1>4, <1>5, <1>6 DEF cur
<1>7. CASE RunsTask(p) /\ e # d
  <2> DEFINE t == Head(ready[p])
  <2>1. PICK f \in Frames :
          /\ f.ch = t.ch /\ e = Append(d, f)
          /\ f.type = "message" => f.pos = t.after + 1 /\ f.pos \in meta[t.ch].oldest .. HeadOf(t.ch)
    BY <1>7 DEF RunsTask, d, e
  <2>2. printed'[p] = printed[p] /\ cursor'[p] = cursor[p] /\ ready[p] # <<>>
    BY <1>7 DEF RunsTask, SameFiles
  <2>3. 1 \in DOMAIN ready[p] /\ t = ready[p][1] /\ t \in Tasks
    BY <2>2 DEF ProjectTypes
  <2>4. t.ch = ch => t.after \in Nat /\ t.after <= at
    BY <2>3 DEF TasksNext, Tasks, at
  <2>5. /\ \A i \in DOMAIN e : e[i] = f \/ \E j \in DOMAIN d : d[j] = e[i]
        /\ \A j \in DOMAIN d : \E i \in DOMAIN e : e[i] = d[j]
        /\ \E i \in DOMAIN e : e[i] = f
    <3>1. /\ DOMAIN e = 1 .. Len(d) + 1 /\ e[Len(d) + 1] = f
          /\ \A i \in DOMAIN d : e[i] = d[i] /\ i \in DOMAIN e
      BY <1>2, <2>1
    <3>2. \A i \in DOMAIN e : i \in DOMAIN d \/ i = Len(d) + 1
      BY <1>2, <3>1
    <3>3. Len(d) + 1 \in DOMAIN e
      BY <1>2, <3>1
    <3> QED  BY <3>1, <3>2, <3>3
  <2> HIDE DEF t
  <2>6. CASE ~IsMessage(f, ch)
    BY <1>4, <1>5, <2>2, <2>5, <2>6 DEF cur
  <2>7. CASE IsMessage(f, ch)
    <3>1. f.pos <= k + 1 /\ f.pos \in Nat /\ f.pos \in meta[ch].oldest .. HeadOf(ch)
      BY <1>1, <1>2, <2>1, <2>4, <2>7 DEF IsMessage
    <3>2. \A i \in DOMAIN e : IsMessage(e[i], ch) => e[i].pos <= k + 1
      BY <1>1, <2>5, <3>1
    <3>3. Furthest(p, ch)' = IF Arriving(e, ch, k + 1) THEN k + 1 ELSE k
      BY <1>1, <1>2, <1>3, <2>2, <3>2, TopIs, SMTT(30)
    <3>4. Arriving(d, ch, k + 1) => Arriving(e, ch, k + 1)
      BY <2>5 DEF Arriving
    <3>5. Arriving(e, ch, k + 1) => Arriving(d, ch, k + 1) \/ f.pos = k + 1
      BY <2>5 DEF Arriving
    <3>6. \/ Furthest(p, ch)' = top
          \/ top = k /\ Furthest(p, ch)' = k + 1 /\ f.pos = k + 1
      BY <1>1, <3>3, <3>4, <3>5
    <3>7. CASE Furthest(p, ch)' = top
      BY <1>5, <2>2, <3>7 DEF cur
    <3>8. CASE top = k /\ Furthest(p, ch)' = k + 1 /\ f.pos = k + 1
      BY <2>2, <3>1, <3>8 DEF Reads, top
    <3> QED  BY <3>6, <3>7, <3>8
  <2> QED  BY <2>6, <2>7
\* A frame that is read was the next message, or had been seen.
<1>8. CASE Shows(p)
  <2> DEFINE f == Head(d)
  <2>1. /\ d # <<>> /\ e = Tail(d) /\ f.type = "message" /\ cursor'[p] = cursor[p]
        /\ printed'[p] = [printed[p] EXCEPT ![f.ch] = @ \cup {f.pos}]
    BY <1>8 DEF Shows, d, e
  <2>2. f \in Frames /\ \E i \in DOMAIN d : d[i] = f
    <3>1. 1 \in DOMAIN d /\ d[1] = f
      BY <1>2, <2>1
    <3> QED  BY <1>2, <2>1, <3>1
  <2>3. /\ \A i \in DOMAIN e : \E j \in DOMAIN d : d[j] = e[i]
        /\ \A j \in DOMAIN d : d[j] = f \/ \E i \in DOMAIN e : e[i] = d[j]
    <3>1. /\ DOMAIN e = 1 .. Len(d) - 1 /\ \A i \in DOMAIN e : e[i] = d[i + 1]
          /\ f = d[1]
      BY <1>2, <2>1
    <3>2. \A i \in DOMAIN e : i + 1 \in DOMAIN d
      BY <1>2, <3>1
    <3>3. \A j \in DOMAIN d : j = 1 \/ (j - 1 \in DOMAIN e /\ (j - 1) + 1 = j)
      BY <1>2, <3>1
    <3> QED  BY <3>1, <3>2, <3>3
  <2> HIDE DEF f
  <2>4. f.ch \in Channels /\ f.pos \in Nat
    BY <2>2 DEF Frames
  <2>5. printed[p] \in [Channels -> SUBSET Nat]
    BY DEF ProjectTypes
  <2>6. \A q : Arriving(e, ch, q) => Arriving(d, ch, q)
    BY <2>3 DEF Arriving
  <2>7. \A q : Arriving(d, ch, q) => Arriving(e, ch, q) \/ (f.ch = ch /\ f.pos = q)
    BY <2>3 DEF Arriving, IsMessage
  <2>8. CASE f.ch # ch
    <3>1. printed'[p][ch] = 1 .. k
      BY <1>1, <2>1, <2>5, <2>8
    <3>2. \A i \in DOMAIN e : IsMessage(e[i], ch) => e[i].pos <= k + 1
      BY <1>1, <2>3
    <3>3. Furthest(p, ch)' = IF Arriving(e, ch, k + 1) THEN k + 1 ELSE k
      BY <1>2, <1>3, <3>1, <3>2, TopIs
    <3>4. Furthest(p, ch)' = top
      BY <1>1, <2>6, <2>7, <2>8, <3>3
    <3> QED  BY <1>5, <2>1, <3>4 DEF cur
  <2>9. CASE f.ch = ch
    <3>1. f.pos <= k + 1 /\ f.pos >= 1 /\ IsMessage(f, ch)
      <4>1. IsMessage(f, ch)
        BY <2>1, <2>9 DEF IsMessage
      <4>2. f.pos \in 1 .. HeadOf(ch)
        BY <2>2, <4>1 DEF FramesNext, d
      <4> QED  BY <1>1, <1>2, <2>2, <4>1, <4>2
    <3>2. printed'[p][ch] = (1 .. k) \cup {f.pos}
      BY <1>1, <2>1, <2>5, <2>9
    <3>3. CASE f.pos <= k
      <4>1. printed'[p][ch] = 1 .. k
        BY <2>4, <3>1, <3>2, <3>3
      <4>2. \A i \in DOMAIN e : IsMessage(e[i], ch) => e[i].pos <= k + 1
        BY <1>1, <2>3
      <4>3. Furthest(p, ch)' = IF Arriving(e, ch, k + 1) THEN k + 1 ELSE k
        BY <1>2, <1>3, <4>1, <4>2, TopIs
      <4>4. f.pos # k + 1
        BY <2>4, <3>3
      <4>5. Furthest(p, ch)' = top
        BY <1>1, <2>6, <2>7, <4>3, <4>4
      <4> QED  BY <1>5, <2>1, <4>5 DEF cur
    <3>4. CASE ~(f.pos <= k)
      <4>1. f.pos = k + 1
        BY <2>4, <3>1, <3>4
      <4>2. printed'[p][ch] = 1 .. k + 1
        BY <3>2, <4>1
      <4>3. \A i \in DOMAIN e : IsMessage(e[i], ch) => e[i].pos <= k + 1 /\ e[i].pos \in Nat
        BY <1>1, <1>2, <2>3
      <4>4. \A i \in DOMAIN e : IsMessage(e[i], ch) => e[i].pos <= (k + 1) + 1
        BY <4>3
      <4>5. Furthest(p, ch)' = IF Arriving(e, ch, (k + 1) + 1) THEN (k + 1) + 1 ELSE k + 1
        BY <1>2, <1>3, <4>2, <4>4, TopIs
      <4>6. ~Arriving(e, ch, (k + 1) + 1)
        BY <4>3 DEF Arriving
      <4>7. top = k + 1
        BY <1>1, <2>2, <3>1, <4>1 DEF Arriving
      <4>8. Furthest(p, ch)' = top
        BY <4>5, <4>6, <4>7
      <4> QED  BY <1>5, <2>1, <4>8 DEF cur
    <3> QED  BY <3>3, <3>4
  <2> QED  BY <2>8, <2>9
<1>9. CASE Skips(p)
  <2>1. /\ d # <<>> /\ e = Tail(d) /\ cursor'[p] = cursor[p] /\ printed'[p] = printed[p]
    BY <1>9 DEF Skips, SameFiles, d, e
  <2>2. \A i \in DOMAIN e : e[i] = d[i + 1] /\ i + 1 \in DOMAIN d
    BY <1>2, <2>1
  <2> QED  BY <1>4, <1>5, <2>1, <2>2 DEF cur
<1>10. CASE Disconnects(p)
  <2>1. PICK n \in 0 .. Len(d) : e = SubSeq(d, 1, n)
    BY <1>10 DEF Disconnects, d, e
  <2>2. \A i \in DOMAIN e : e[i] = d[i] /\ i \in DOMAIN d
    BY <1>2, <2>1
  <2> QED  BY <1>4, <1>5, <1>10, <2>2 DEF Disconnects, SameFiles, cur
\* A watch-multi that saves has nothing on the way that comes after what it saves.
<1>11. CASE Saves(p) /\ (e = d \/ e = <<>>)
  <2>1. /\ ack'[p] = ack[p] /\ printed'[p] = printed[p]
        /\ cursor'[p][ch] = cur \/ cursor'[p][ch] = at
    BY <1>11, SavesStep DEF cur, at
  <2>2. Furthest(p, ch)' \in {k, top}
    BY <1>4, <1>11, <2>1
  <2>3. CASE cursor'[p][ch] = cur
    BY <1>5, <2>2, <2>3
  <2>4. CASE cursor'[p][ch] # cur
    <3>1. proc[p].mode = "multi" /\ cursor'[p][ch] = at
      BY <1>11, <2>1, <2>4 DEF Saves, cur
    <3>2. at = cur + 1
      BY <2>4, <3>1 DEF SavesItself, at, cur
    <3>3. ~Arriving(d, ch, k + 1)
      <4>1. \A i \in DOMAIN d : IsMessage(d[i], ch) => d[i].pos <= cur + 1
        BY <3>1 DEF AsksSaved, d, cur
      <4>2. cur + 1 <= k
        BY <1>1, <3>2
      <4>3. \A i \in DOMAIN d : IsMessage(d[i], ch) => d[i].pos # k + 1
        BY <1>2, <4>1, <4>2
      <4> QED  BY <4>3 DEF Arriving
    <3>4. top = k /\ Furthest(p, ch)' = k
      BY <1>1, <2>2, <3>3
    <3> QED  BY <1>1, <1>2, <3>1, <3>2, <3>4 DEF Acknowledges, top, cur
  <2> QED  BY <2>3, <2>4
<1>12. CASE EndsAck(p)
  <2>1. e = d /\ printed'[p] = printed[p]
    BY <1>12 DEF EndsAck, SameServer, d, e
  <2>2. Furthest(p, ch)' = top
    BY <1>1, <1>2, <1>3, <2>1, TopIs
  <2>3. cursor'[p][ch] = cur \/ (cursor'[p][ch] = cur + 1 /\ owed > 0)
    <3>1. cursor[p] \in [Channels -> Nat]
      BY DEF ProjectTypes
    <3> QED  BY <1>12, <3>1 DEF EndsAck, AckOwed, cur, owed
  <2>4. CASE cursor'[p][ch] = cur
    BY <1>5, <2>2, <2>4
  <2>5. CASE cursor'[p][ch] = cur + 1 /\ owed > 0
    <3>1. cur < top
      <4>1. cur < k /\ k <= top
        BY <1>1, <1>2, <2>5
      <4> QED  BY <1>2, <4>1
    <3> QED  BY <2>2, <2>5, <3>1 DEF Acknowledges, cur, top
  <2> QED  BY <2>3, <2>4, <2>5
<1>13. CASE Wakes(p)
  <2>1. e = d /\ SameFiles(p)
    BY <1>13 DEF Wakes, d, e
  <2> QED  BY <1>6, <2>1 DEF SameFiles
<1> QED
  BY <1>6, <1>7, <1>8, <1>9, <1>10, <1>11, <1>12, <1>13
  DEF ProjectStep, Unmoved, RunsTask, Begins, BeginsNot, Ends, Kills, Breaks, GoesOn, Resends,
      Reconnects, BeginsAck, SameServer, SameFiles, Connections, d, e

-----------------------------------------------------------------------------
(* Refinement: steps. *)

ReadOf(ch) == [p \in Projects |-> Furthest(p, ch)]
AckedOf(ch) == [p \in Projects |-> cursor[p][ch]]

\* A message is appended.
LEMMA LogAppends ==
  ASSUME NEW ch \in Channels, NEW m \in Messages,
         LogFrom(lines'[ch]) = [q \in DOMAIN LogFrom(lines[ch]) \cup {HeadOf(ch) + 1} |->
                     IF q = HeadOf(ch) + 1 THEN m ELSE LogFrom(lines[ch])[q]],
         HeadOf(ch)' = HeadOf(ch) + 1, ReadOf(ch)' = ReadOf(ch), AckedOf(ch)' = AckedOf(ch)
  PROVE  Log(ch)!Next
<1>1. Log(ch)!Append
  BY DEF Log!Append, LogFrom, ReadOf, AckedOf
<1> QED  BY <1>1 DEF Log!Next

\* A prefix is forgotten.
LEMMA LogCompacts ==
  ASSUME NEW ch \in Channels, NEW o \in DOMAIN LogFrom(lines[ch]),
         LogFrom(lines'[ch]) = [q \in o .. HeadOf(ch) |-> LogFrom(lines[ch])[q]],
         HeadOf(ch)' = HeadOf(ch), ReadOf(ch)' = ReadOf(ch), AckedOf(ch)' = AckedOf(ch)
  PROVE  Log(ch)!Next
<1>1. Log(ch)!Compact
  BY DEF Log!Compact, LogFrom, ReadOf, AckedOf
<1> QED  BY <1>1 DEF Log!Next

\* A reader gets the next message.
LEMMA LogReads ==
  ASSUME NEW ch \in Channels, NEW p \in Projects,
         ReadOf(ch)[p] + 1 \in DOMAIN LogFrom(lines[ch]),
         ReadOf(ch)' = [ReadOf(ch) EXCEPT ![p] = @ + 1],
         LogFrom(lines'[ch]) = LogFrom(lines[ch]), HeadOf(ch)' = HeadOf(ch), AckedOf(ch)' = AckedOf(ch)
  PROVE  Log(ch)!Next
<1>1. Log(ch)!Read(p)
  BY DEF Log!Read, LogFrom, ReadOf, AckedOf
<1> QED  BY <1>1 DEF Log!Next

\* Readers lose what was on the way.
LEMMA LogLoses ==
  ASSUME NEW ch \in Channels, NEW back \in [Projects -> 0 .. HeadOf(ch)],
         \A p \in Projects : back[p] \in AckedOf(ch)[p] .. ReadOf(ch)[p], ReadOf(ch)' = back,
         LogFrom(lines'[ch]) = LogFrom(lines[ch]), HeadOf(ch)' = HeadOf(ch), AckedOf(ch)' = AckedOf(ch)
  PROVE  Log(ch)!Next
<1>1. Log(ch)!Lose
  BY DEF Log!Lose, LogFrom, ReadOf, AckedOf
<1> QED  BY <1>1 DEF Log!Next

\* A reader acknowledges.
LEMMA LogAcknowledges ==
  ASSUME NEW ch \in Channels, NEW p \in Projects,
         AckedOf(ch)[p] < ReadOf(ch)[p],
         AckedOf(ch)' = [AckedOf(ch) EXCEPT ![p] = @ + 1],
         LogFrom(lines'[ch]) = LogFrom(lines[ch]), HeadOf(ch)' = HeadOf(ch), ReadOf(ch)' = ReadOf(ch)
  PROVE  Log(ch)!Next
<1>1. Log(ch)!Acknowledge(p)
  BY DEF Log!Acknowledge, LogFrom, ReadOf, AckedOf
<1> QED  BY <1>1 DEF Log!Next

\* Nothing happens to the log of the channel.
LEMMA LogStutters ==
  ASSUME NEW ch \in Channels,
         LogFrom(lines'[ch]) = LogFrom(lines[ch]), HeadOf(ch)' = HeadOf(ch), ReadOf(ch)' = ReadOf(ch),
         AckedOf(ch)' = AckedOf(ch)
  PROVE  Log(ch)!vars' = Log(ch)!vars
BY DEF Log!vars, LogFrom, ReadOf, AckedOf

\* What the readers have is as before.
LEMMA SameReaders ==
  ASSUME NEW ch \in Channels,
         \A p \in Projects : /\ down'[p] = down[p] /\ printed'[p] = printed[p]
                             /\ cursor'[p] = cursor[p]
  PROVE  ReadOf(ch)' = ReadOf(ch) /\ AckedOf(ch)' = AckedOf(ch)
<1>1. \A p \in Projects : /\ Furthest(p, ch) = Top(printed[p][ch], down[p], ch)
                          /\ Furthest(p, ch)' = Top(printed'[p][ch], down'[p], ch)
  BY DEF Furthest, Top
<1> QED  BY <1>1 DEF ReadOf, AckedOf

\* The readers are given positions of the log.
LEMMA ReadersTypes ==
  ASSUME Inductive, NEW ch \in Channels
  PROVE  /\ ReadOf(ch) \in [Projects -> 0 .. HeadOf(ch)] /\ HeadOf(ch) \in Nat
         /\ \A p \in Projects : AckedOf(ch)[p] \in Nat /\ AckedOf(ch)[p] <= ReadOf(ch)[p]
<1>1. HeadOf(ch) \in Nat
  BY DEF Inductive, Types, HeadOf
<1>2. ASSUME NEW p \in Projects
      PROVE  cursor[p][ch] \in Nat /\ Furthest(p, ch) \in cursor[p][ch] .. HeadOf(ch)
  <2>1. ProjectTypes(p) /\ FramesNext(p, ch) /\ SeenPrefix(p, ch)
    BY TypesOfProject DEF Inductive
  <2>2. cursor[p][ch] \in Nat
    BY <2>1 DEF ProjectTypes
  <2> QED  BY <2>1, <2>2, FurthestIs
<1>3. ASSUME NEW p \in Projects
      PROVE  Furthest(p, ch) \in 0 .. HeadOf(ch) /\ cursor[p][ch] <= Furthest(p, ch)
  BY <1>1, <1>2
<1> QED  BY <1>1, <1>2, <1>3 DEF ReadOf, AckedOf

\* The lines of a channel are numbered, from 1 when there are none.
LEMMA LinesNumbered ==
  ASSUME Types, NEW ch \in Channels, Numbered(ch)
  PROVE  \E o \in Nat :
           /\ lines[ch] \in Seq(Lines) /\ HeadOf(ch) \in Nat
           /\ o + Len(lines[ch]) = HeadOf(ch) + 1
           /\ \A i \in DOMAIN lines[ch] : lines[ch][i].pos + 1 = o + i
           /\ IF meta[ch] = NoMeta THEN o = 1 /\ lines[ch] = <<>> ELSE o = meta[ch].oldest
<1>1. lines[ch] \in Seq(Lines) /\ meta[ch] \in [head : Nat, oldest : Nat] /\ HeadOf(ch) \in Nat
  BY DEF Types, HeadOf
<1>2. CASE meta[ch] = NoMeta
  <2>1. lines[ch] = <<>> /\ HeadOf(ch) = 0
    BY <1>2 DEF Numbered, NoMeta, HeadOf
  <2> QED  BY <1>1, <1>2, <2>1
<1>3. CASE meta[ch] # NoMeta
  <2>1. meta[ch].oldest \in Nat
    BY <1>1
  <2> QED  BY <1>1, <1>3, <2>1 DEF Numbered, HeadOf
<1> QED  BY <1>2, <1>3

\* A step of a channel appends to its log, cuts it, or leaves it alone.
LEMMA StorageRefines ==
  ASSUME Types, NEW ch \in Channels, Numbered(ch),
         ReadOf(ch)' = ReadOf(ch), AckedOf(ch)' = AckedOf(ch), ChannelStep(ch)
  PROVE  [Log(ch)!Next]_(Log(ch)!vars)
<1>1. PICK o \in Nat :
        /\ lines[ch] \in Seq(Lines) /\ HeadOf(ch) \in Nat
        /\ o + Len(lines[ch]) = HeadOf(ch) + 1
        /\ \A i \in DOMAIN lines[ch] : lines[ch][i].pos + 1 = o + i
  BY LinesNumbered
<1>2. CASE Grows(ch)
  <2>1. PICK m \in Messages :
          /\ lines'[ch] = Append(lines[ch], [pos |-> HeadOf(ch) + 1, msg |-> m])
          /\ HeadOf(ch)' = HeadOf(ch) + 1
    BY <1>2 DEF Grows, HeadOf
  <2>2. LogFrom(lines'[ch]) = [q \in DOMAIN LogFrom(lines[ch]) \cup {HeadOf(ch) + 1} |->
                                 IF q = HeadOf(ch) + 1 THEN m ELSE LogFrom(lines[ch])[q]]
    <3> DEFINE h == HeadOf(ch)
               ls == lines[ch]
    <3>1. ls \in Seq(Lines) /\ h \in Nat /\ o + Len(ls) = h + 1 /\ \A i \in DOMAIN ls : ls[i].pos + 1 = o + i
      BY <1>1
    <3>2. lines'[ch] = Append(ls, [pos |-> h + 1, msg |-> m])
      BY <2>1
    <3> HIDE DEF h, ls
    <3>3. LogFrom(Append(ls, [pos |-> h + 1, msg |-> m])) =
            [q \in DOMAIN LogFrom(ls) \cup {h + 1} |-> IF q = h + 1 THEN m ELSE LogFrom(ls)[q]]
      BY <3>1, LogFromAppend
    <3> QED  BY <3>2, <3>3 DEF h, ls
  <2> QED  BY <2>1, <2>2, LogAppends
<1>3. CASE Shrinks(ch)
  <2>1. PICK k \in 2 .. Len(lines[ch]) :
          lines'[ch] = SubSeq(lines[ch], k, Len(lines[ch])) /\ HeadOf(ch)' = HeadOf(ch)
    BY <1>3 DEF Shrinks, HeadOf
  <2>2. /\ lines[ch][k].pos \in DOMAIN LogFrom(lines[ch])
        /\ LogFrom(lines'[ch]) = [q \in lines[ch][k].pos .. HeadOf(ch) |-> LogFrom(lines[ch])[q]]
    BY <1>1, <2>1, LogFromSuffix
  <2> QED  BY <2>1, <2>2, LogCompacts
<1>4. CASE SameLog(ch)
  BY <1>4, LogStutters DEF SameLog, HeadOf
<1> QED  BY <1>2, <1>3, <1>4 DEF ChannelStep

\* An action of a project is a step of one reader of every channel.
LEMMA ActsRefines ==
  ASSUME Inductive, Types', NEW q \in Projects, Acts(q), NEW ch \in Channels
  PROVE  [Log(ch)!Next]_(Log(ch)!vars)
<1>1. lines' = lines /\ meta' = meta
  BY DEF Acts, RunWatchTask, StartWatch, Recv, Printed, Stale, Drop, FindBroken, Connect, Kill,
     AckAsks, AckSaves, storage
<1>2. LogFrom(lines'[ch]) = LogFrom(lines[ch]) /\ HeadOf(ch)' = HeadOf(ch) /\ SameHeads
  BY <1>1 DEF HeadOf, SameHeads
<1>3. ASSUME NEW p \in Projects, p # q
      PROVE  Furthest(p, ch)' = Furthest(p, ch) /\ cursor'[p] = cursor[p]
  <2>1. Unmoved(p)
    BY <1>3, ActsElsewhere DEF Inductive
  <2>2. down'[p] = down[p] /\ printed'[p] = printed[p] /\ cursor'[p] = cursor[p]
    BY <2>1 DEF Unmoved, SameServer, SameFiles
  <2> QED  BY <2>2 DEF Furthest
<1>4. Loses(q, ch) \/ Reads(q, ch) \/ Acknowledges(q, ch)
  <2>1. /\ ProjectTypes(q) /\ Connections(q) /\ AckOwed(q) /\ FramesNext(q, ch) /\ TasksNext(q, ch)
        /\ SeenPrefix(q, ch) /\ SavesItself(q, ch) /\ AsksSaved(q, ch)
    BY TypesOfProject DEF Inductive
  <2>2. ProjectTypes(q)'
    BY DEF Types, ProjectTypes, HeadOf
  <2>3. ProjectStep(q)
    BY <2>1, ActsStep DEF Inductive
  <2> QED  BY <1>2, <2>1, <2>2, <2>3, ProjectReads
<1>5. /\ ReadOf(ch) \in [Projects -> 0 .. HeadOf(ch)] /\ HeadOf(ch) \in Nat
      /\ \A p \in Projects : AckedOf(ch)[p] \in Nat /\ AckedOf(ch)[p] <= ReadOf(ch)[p]
  BY ReadersTypes
<1>6. /\ ReadOf(ch)' = [ReadOf(ch) EXCEPT ![q] = Furthest(q, ch)']
      /\ AckedOf(ch)' = [AckedOf(ch) EXCEPT ![q] = cursor'[q][ch]]
  BY <1>3 DEF ReadOf, AckedOf
<1>7. ReadOf(ch)[q] = Furthest(q, ch) /\ AckedOf(ch)[q] = cursor[q][ch]
  BY DEF ReadOf, AckedOf
<1>8. CASE Loses(q, ch)
  <2>1. AckedOf(ch)' = AckedOf(ch)
    BY <1>6, <1>8 DEF Loses, AckedOf
  <2>2. /\ Furthest(q, ch)' \in AckedOf(ch)[q] .. ReadOf(ch)[q]
        /\ ReadOf(ch)[q] \in 0 .. HeadOf(ch) /\ AckedOf(ch)[q] \in Nat
    BY <1>5, <1>7, <1>8 DEF Loses
  <2>3. ReadOf(ch)' \in [Projects -> 0 .. HeadOf(ch)]
    <3>1. Furthest(q, ch)' \in 0 .. HeadOf(ch)
      BY <1>5, <2>2
    <3> QED  BY <1>5, <1>6, <3>1
  <2>4. \A p \in Projects : ReadOf(ch)'[p] \in AckedOf(ch)[p] .. ReadOf(ch)[p]
    <3>1. \A p \in Projects : ReadOf(ch)[p] \in AckedOf(ch)[p] .. ReadOf(ch)[p]
      BY <1>5
    <3> QED  BY <1>5, <1>6, <2>2, <3>1
  <2> QED  BY <1>2, <2>1, <2>3, <2>4, LogLoses
<1>9. CASE Reads(q, ch)
  <2>1. AckedOf(ch)' = AckedOf(ch)
    BY <1>6, <1>9 DEF Reads, AckedOf
  <2>2. ReadOf(ch)' = [ReadOf(ch) EXCEPT ![q] = @ + 1]
    BY <1>6, <1>7, <1>9 DEF Reads
  <2>3. ReadOf(ch)[q] + 1 \in DOMAIN LogFrom(lines[ch])
    <3>1. PICK o \in Nat :
            /\ lines[ch] \in Seq(Lines) /\ HeadOf(ch) \in Nat
            /\ o + Len(lines[ch]) = HeadOf(ch) + 1
            /\ \A i \in DOMAIN lines[ch] : lines[ch][i].pos + 1 = o + i
            /\ IF meta[ch] = NoMeta THEN o = 1 /\ lines[ch] = <<>> ELSE o = meta[ch].oldest
      BY LinesNumbered DEF Inductive
    <3>2. DOMAIN LogFrom(lines[ch]) = o .. HeadOf(ch)
      <4>1. LogFrom(lines[ch]) = [p \in o .. HeadOf(ch) |-> lines[ch][p + 1 - o].msg]
        BY <3>1, LogFromIs
      <4> QED  BY <4>1
    <3>3. ReadOf(ch)[q] + 1 \in meta[ch].oldest .. HeadOf(ch) /\ ReadOf(ch)[q] \in Nat
      BY <1>5, <1>7, <1>9 DEF Reads
    <3>4. meta[ch] # NoMeta
      <4>1. meta[ch] = NoMeta => HeadOf(ch) = 0
        BY DEF NoMeta, HeadOf
      <4> QED  BY <3>3, <4>1 DEF NoMeta
    <3> QED  BY <3>1, <3>2, <3>3, <3>4
  <2> QED  BY <1>2, <2>1, <2>2, <2>3, LogReads
<1>10. CASE Acknowledges(q, ch)
  <2>1. AckedOf(ch)[q] < ReadOf(ch)[q]
    BY <1>7, <1>10 DEF Acknowledges
  <2>2. AckedOf(ch)' = [AckedOf(ch) EXCEPT ![q] = @ + 1]
    BY <1>6, <1>7, <1>10 DEF Acknowledges
  <2>3. ReadOf(ch)' = ReadOf(ch)
    BY <1>6, <1>10 DEF Acknowledges, ReadOf
  <2> QED  BY <1>2, <2>1, <2>2, <2>3, LogAcknowledges
<1> QED  BY <1>4, <1>8, <1>9, <1>10

\* With nothing on the way, the furthest is what was shown.
LEMMA NothingArrives ==
  ASSUME NEW k \in Nat, NEW ch \in Channels
  PROVE  Top(1 .. k, <<>>, ch) = k
<1>1. \A d : d = <<>> => /\ d \in Seq(Frames)
                          /\ ~Arriving(d, ch, k + 1)
                          /\ \A i \in DOMAIN d : IsMessage(d[i], ch) => d[i].pos <= k + 1
  BY DEF Arriving
<1> QED  BY <1>1, TopIs

\* When the server stops, every reader loses what was on the way.
LEMMA StopRefines ==
  ASSUME Inductive, ServerStops, NEW ch \in Channels
  PROVE  [Log(ch)!Next]_(Log(ch)!vars)
<1>1. /\ lines' = lines /\ meta' = meta /\ cursor' = cursor /\ printed' = printed
      /\ \A p \in Projects : down'[p] = <<>>
  BY DEF ServerStops, storage
<1>2. LogFrom(lines'[ch]) = LogFrom(lines[ch]) /\ HeadOf(ch)' = HeadOf(ch) /\ AckedOf(ch)' = AckedOf(ch)
  BY <1>1 DEF HeadOf, AckedOf
<1>3. ASSUME NEW p \in Projects
      PROVE  Furthest(p, ch)' \in 0 .. HeadOf(ch) /\ Furthest(p, ch)' \in cursor[p][ch] .. Furthest(p, ch)
  <2>1. ProjectTypes(p) /\ FramesNext(p, ch) /\ SeenPrefix(p, ch)
    BY TypesOfProject DEF Inductive
  <2>2. PICK k \in Nat :
          /\ printed[p][ch] = 1 .. k /\ k <= HeadOf(ch) /\ cursor[p][ch] + ack[p].owed[ch] <= k
          /\ Furthest(p, ch) = IF Arriving(down[p], ch, k + 1) THEN k + 1 ELSE k
    BY <2>1, FurthestIs
  <2>3. Furthest(p, ch)' = Top(1 .. k, <<>>, ch)
    BY <1>1, <2>2 DEF Furthest, Top
  <2>4. Furthest(p, ch)' = k
    BY <2>3, NothingArrives
  <2>5. HeadOf(ch) \in Nat /\ cursor[p][ch] \in Nat /\ ack[p].owed[ch] \in Nat
    BY <2>1 DEF ProjectTypes, Acks
  <2> QED  BY <2>2, <2>4, <2>5
<1>4. /\ ReadOf(ch)' \in [Projects -> 0 .. HeadOf(ch)]
      /\ \A p \in Projects : ReadOf(ch)'[p] \in AckedOf(ch)[p] .. ReadOf(ch)[p]
  BY <1>3 DEF ReadOf, AckedOf
<1> QED  BY <1>2, <1>4, LogLoses

\* Every step of the board is one step of each channel's log, or none.
LEMMA NextRefines ==
  ASSUME Inductive, [Next]_vars, NEW ch \in Channels
  PROVE  [Log(ch)!Next]_(Log(ch)!vars)
<1>1. Types /\ Numbered(ch) /\ ChannelStep(ch)
  BY NextChannelStep DEF Inductive
<1>2. CASE UNCHANGED <<down, client>>
  <2>1. ReadOf(ch)' = ReadOf(ch) /\ AckedOf(ch)' = AckedOf(ch)
    BY <1>2, SameReaders DEF client
  <2> QED  BY <1>1, <2>1, StorageRefines
<1>3. ASSUME NEW q \in Projects, Acts(q) PROVE [Log(ch)!Next]_(Log(ch)!vars)
  <2>1. Types'
    BY TypesStep DEF Inductive
  <2> QED  BY <1>3, <2>1, ActsRefines
<1>4. CASE ServerStops
  BY <1>4, StopRefines
<1> QED
  BY <1>2, <1>3, <1>4 DEF Next, Acts, Send, Compact, ServerStarts, vars, server, client

\* At first every log is empty, and nobody has read.
LEMMA InitRefines ==
  ASSUME Init, NEW ch \in Channels
  PROVE  Log(ch)!Init
<1>1. ASSUME NEW p \in Projects PROVE Furthest(p, ch) = 0 /\ cursor[p][ch] = 0
  <2>1. Furthest(p, ch) = Top(1 .. 0, <<>>, ch)
    <3>1. printed[p][ch] = 1 .. 0 /\ down[p] = <<>>
      BY DEF Init
    <3> QED  BY <3>1 DEF Furthest, Top
  <2>2. Top(1 .. 0, <<>>, ch) = 0
    BY NothingArrives
  <2> QED  BY <2>1, <2>2 DEF Init
<1>2. lines[ch] = <<>> /\ HeadOf(ch) = 0
  BY DEF Init, HeadOf, NoMeta
<1>3. {lines[ch][i].pos : i \in DOMAIN lines[ch]} = {}
  BY <1>2
<1>4. ReadOf(ch) = [r \in Projects |-> 0] /\ AckedOf(ch) = [r \in Projects |-> 0]
  BY <1>1 DEF ReadOf, AckedOf
<1>5. LogFrom(lines[ch]) = [q \in {} |-> {}]
  BY <1>3 DEF LogFrom
<1> QED  BY <1>2, <1>4, <1>5 DEF Log!Init, LogFrom, ReadOf, AckedOf

\* Every channel of the board is the log that ChannelLog describes: positions count up by
\* one, only a prefix disappears, no reader is given a message before the one it follows,
\* and no cursor file passes what its reader was given, whatever connection breaks.
THEOREM BoardImplementsLogs == Spec => ChannelsAreLogs
<1>1. Init => \A ch \in Channels : Log(ch)!Init
  BY InitRefines
<1>2. Inductive /\ [Next]_vars => [\A ch \in Channels : [Log(ch)!Next]_(Log(ch)!vars)]_vars
  BY NextRefines
<1> QED  BY <1>1, <1>2, BoardInvariance, PTL DEF Spec, ChannelsAreLogs
================================================================================
