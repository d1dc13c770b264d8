------------------------------ MODULE LeaderBoard ------------------------------
(***************************************************************************)
(* The message board of one swarm: the file storage of the local server,   *)
(* its watch tasks, and the command-line clients. A project runs one watch *)
(* process at a time (`watch', `watch-multi', or `watch-multi              *)
(* --no-auto-ack') and one `ack' after it; each project has cursor files   *)
(* of its own.                                                             *)
(*                                                                         *)
(* The server is one asyncio loop over synchronous storage, so that an     *)
(* append, a compaction and the body of a watch task between two waits are *)
(* single steps.                                                           *)
(***************************************************************************)
EXTENDS Integers, Sequences, SequencesExt, FiniteSets

CONSTANTS
  Channels, Messages, Projects,
  Modes,        \* the kinds of watch process that are started
  Counts,       \* --count: how many messages a watch-multi prints, 0 for no limit
  MaxRetries,   \* --max-reconnects: consecutive failures before a watch gives up
  MaxFaults     \* bound on quiet timeouts, lost connections, kills and server restarts

ASSUME BoardBounds == /\ {MaxRetries, MaxFaults} \subseteq Nat
                      /\ Counts \subseteq Nat
                      /\ IsFiniteSet(Channels) /\ IsFiniteSet(Messages)
                      /\ Modes \subseteq {"watch", "multi", "manual"}

VARIABLES
  lines,    \* [Channels -> Seq([pos, msg])], messages.jsonl
  meta,     \* [Channels -> [head, oldest] or NoMeta], meta.json
  up,       \* the server runs
  ready,    \* [Projects -> Seq([ch, after])]: watch tasks the loop will run, in order
  parked,   \* [Projects -> [Channels -> Seq([ch, after])]]: tasks that wait for the event
  down,     \* [Projects -> Seq(frame)]: frames on the way to the client
  proc,     \* [Projects -> the watch process]
  cursor,   \* [Projects -> [Channels -> Nat]], the cursor files
  ack,      \* [Projects -> the ack process]
  printed,  \* [Projects -> [Channels -> SUBSET Nat]]: positions shown to the user
  faults    \* how many faults there were

storage == <<lines, meta>>
server == <<up, ready, parked, down>>
client == <<proc, cursor, ack, printed>>
vars == <<storage, server, client, faults>>

-----------------------------------------------------------------------------
CountFault == faults < MaxFaults /\ faults' = faults + 1

(* Storage. *)

NoMeta == [head |-> 0, oldest |-> 0]
Known(ch) == meta[ch] # NoMeta
HeadOf(ch) == meta[ch].head

\* Mutant: the newest message is returned instead of the next one.
ReadLatest(ch, c) ==
  LET later == {i \in DOMAIN lines[ch] : lines[ch][i].pos > c}
  IN  {lines[ch][i] : i \in {i \in later : \A j \in later : i >= j}}

\* The first stored message after a cursor, as a set of at most one line.
ReadAfter(ch, c) ==
  LET later == {i \in DOMAIN lines[ch] : lines[ch][i].pos > c}
  IN  {lines[ch][i] : i \in {i \in later : \A j \in later : i <= j}}

Stored == UNION {{lines[ch][i].msg : i \in DOMAIN lines[ch]} : ch \in Channels}

\* append_message and the event that wakes the readers blocked on the channel.
StoreMessage(ch, m) ==
  LET was == IF Known(ch) THEN meta[ch] ELSE [head |-> 0, oldest |-> 1]
  IN  /\ lines' = [lines EXCEPT ![ch] = Append(@, [pos |-> was.head + 1, msg |-> m])]
      /\ meta' = [meta EXCEPT ![ch] = [was EXCEPT !.head = @ + 1]]

\* Mutant: the event is replaced before anybody is woken.
WakeNobody(ch) == UNCHANGED <<ready, parked>>

WakeReaders(ch) ==
  /\ ready' = [p \in Projects |-> ready[p] \o parked[p][ch]]
  /\ parked' = [p \in Projects |-> [parked[p] EXCEPT ![ch] = <<>>]]

Send(ch, m) ==
  /\ up /\ m \notin Stored
  /\ HeadOf(ch) < Cardinality(Messages)
  /\ StoreMessage(ch, m)
  /\ WakeReaders(ch)
  /\ UNCHANGED <<up, down, client, faults>>

\* The messages older than the limit are a prefix, and the last one always stays.
Compact(ch) ==
  /\ up
  /\ \E k \in 2 .. Len(lines[ch]) :
       /\ lines' = [lines EXCEPT ![ch] = SubSeq(@, k, Len(@))]
       /\ meta' = [meta EXCEPT ![ch].oldest = lines[ch][k].pos]
  /\ UNCHANGED <<server, client, faults>>

-----------------------------------------------------------------------------
(* The server's watch tasks. *)

NoneParked == [ch \in Channels |-> <<>>]

Message(t, line) == [type |-> "message", ch |-> t.ch, pos |-> line.pos]
Error(t, code) == [type |-> code, ch |-> t.ch, pos |-> 0]

\* Mutant: a cursor behind the retained messages is answered with the oldest of them.
RepliesIgnoringExpiry(t) ==
  IF ~Known(t.ch) THEN {Error(t, "channel_not_found")}
  ELSE {Message(t, line) : line \in ReadAfter(t.ch, t.after)}

\* One turn of read_after for a task: an error, a message, or another wait.
Replies(t) ==
  IF ~Known(t.ch) THEN {Error(t, "channel_not_found")}
  ELSE IF t.after + 1 < meta[t.ch].oldest THEN {Error(t, "cursor_expired")}
  ELSE {Message(t, line) : line \in ReadAfter(t.ch, t.after)}

RunWatchTask(p) ==
  /\ up /\ ready[p] # <<>>
  /\ LET t == Head(ready[p])
         out == Replies(t)
     IN  IF out = {} THEN parked' = [parked EXCEPT ![p][t.ch] = Append(@, t)] /\ down' = down
                     ELSE /\ \E f \in out : down' = [down EXCEPT ![p] = Append(@, f)]
                          /\ parked' = parked
  /\ ready' = [ready EXCEPT ![p] = Tail(@)]
  /\ UNCHANGED <<storage, up, client, faults>>

\* The server forgets a connection: its watch tasks are cancelled.
Cancelled(p) == /\ ready' = [ready EXCEPT ![p] = <<>>]
                /\ parked' = [parked EXCEPT ![p] = NoneParked]
Closed(p) == Cancelled(p) /\ down' = [down EXCEPT ![p] = <<>>]

-----------------------------------------------------------------------------
(* The watch process. *)

AChannel == CHOOSE ch \in Channels : TRUE
Off == [pc |-> "off", mode |-> "watch", at |-> [ch \in Channels |-> 0], chs |-> {},
        active |-> {}, conn |-> FALSE, reg |-> 0, attempt |-> 0, left |-> 0, ch |-> AChannel]

Task(at, ch) == [ch |-> ch, after |-> at[ch]]
\* Watch frames for a set of channels, in the order of the dictionary.
WatchFrames(at, chs) == LET order == SetToSeq(chs)
                        IN  [i \in DOMAIN order |-> Task(at, order[i])]

CountKill(p) ==
  IF proc[p].pc = "off" THEN faults' = faults
  ELSE CountFault

\* watch, watch-multi: the previous watch process is killed, the cursors are read,
\* and the first connection is not retried.
StartWatch(p) ==
  /\ ack[p].pc = "off"
  /\ CountKill(p)
  /\ \E mode \in Modes : \E chs \in SUBSET Channels \ {{}}, n \in Counts :
       /\ mode = "watch" => (Cardinality(chs) = 1 /\ n = 1)
       /\ proc' = [proc EXCEPT ![p] =
                     IF up THEN [Off EXCEPT !.pc = "recv", !.mode = mode, !.at = cursor[p],
                                            !.chs = chs, !.active = chs, !.conn = TRUE, !.left = n]
                     ELSE Off]
       /\ ready' = [ready EXCEPT ![p] = IF up THEN WatchFrames(cursor[p], chs) ELSE <<>>]
  /\ parked' = [parked EXCEPT ![p] = NoneParked]
  /\ down' = [down EXCEPT ![p] = <<>>]
  /\ ack' = [ack EXCEPT ![p].owed = [ch \in Channels |-> 0]]
  /\ UNCHANGED <<storage, up, cursor, printed>>

Exit(p) == proc' = [proc EXCEPT ![p] = Off] /\ Closed(p)

\* A message frame: the cursor of its channel moves and the text is printed; a
\* steward that gets a new position owes an ack.
RecvMessage(p, f) ==
  /\ f.type = "message"
  /\ proc' = [proc EXCEPT ![p] = [@ EXCEPT !.pc = "printed", !.at[f.ch] = f.pos, !.ch = f.ch,
                                           !.reg = 0, !.attempt = 0]]
  /\ printed' = [printed EXCEPT ![p][f.ch] = @ \cup {f.pos}]
  /\ ack' = IF proc[p].mode # "multi" /\ f.pos > proc[p].at[f.ch]
            THEN [ack EXCEPT ![p].owed[f.ch] = @ + 1] ELSE ack
  /\ down' = [down EXCEPT ![p] = Tail(@)]
  /\ UNCHANGED <<ready, parked>>

\* A channel that does not exist leaves a watch-multi, which goes on with the others;
\* every other error ends the process.
RecvError(p, f) ==
  /\ f.type # "message"
  /\ LET rest == proc[p].active \ {f.ch}
     IN  IF f.type = "channel_not_found" /\ proc[p].mode # "watch" /\ rest # {}
         THEN /\ proc' = [proc EXCEPT ![p].active = rest, ![p].reg = 0]
              /\ down' = [down EXCEPT ![p] = Tail(@)]
              /\ UNCHANGED <<ready, parked>>
         ELSE Exit(p)
  /\ UNCHANGED <<ack, printed>>

Recv(p) ==
  /\ proc[p].pc = "recv" /\ down[p] # <<>>
  /\ RecvMessage(p, Head(down[p])) \/ RecvError(p, Head(down[p]))
  /\ UNCHANGED <<storage, up, cursor, faults>>

\* A connection found broken counts as a failure; too many in a row end the process.
Failed(w) == IF w.attempt + 1 > MaxRetries THEN Off
             ELSE [w EXCEPT !.pc = "connect", !.attempt = @ + 1, !.conn = FALSE]

\* After the print the cursor is saved (watch-multi), and the process ends or goes on,
\* a watch-multi with a new watch frame for the channel, which may find the
\* connection broken.
Printed(p) ==
  /\ proc[p].pc = "printed"
  /\ LET w == proc[p]
         again == [w EXCEPT !.pc = "recv", !.left = IF @ = 0 THEN 0 ELSE @ - 1]
         sends == w.mode = "multi" /\ w.ch \in w.active
     IN  /\ cursor' = IF w.mode = "multi" THEN [cursor EXCEPT ![p][w.ch] = w.at[w.ch]] ELSE cursor
         /\ IF w.left = 1 THEN Exit(p)
            ELSE IF sends /\ ~w.conn
            THEN proc' = [proc EXCEPT ![p] = Failed(again)] /\ Closed(p)
            ELSE /\ proc' = [proc EXCEPT ![p] = again]
                 /\ ready' = IF sends THEN [ready EXCEPT ![p] = Append(@, Task(w.at, w.ch))]
                             ELSE ready
                 /\ UNCHANGED <<parked, down>>
  /\ UNCHANGED <<storage, up, ack, printed, faults>>

\* Nothing arrives for the stale timeout: the frames are sent again, and a second
\* timeout in a row gives the connection up without counting as a failure.
Stale(p) ==
  /\ proc[p].pc = "recv" /\ down[p] = <<>> /\ proc[p].conn
  /\ CountFault
  /\ IF proc[p].reg = 0
     THEN /\ proc' = [proc EXCEPT ![p].reg = 1]
          /\ ready' = [ready EXCEPT ![p] = @ \o WatchFrames(proc[p].at, proc[p].active)]
          /\ UNCHANGED <<parked, down>>
     ELSE /\ proc' = [proc EXCEPT ![p].pc = "connect", ![p].conn = FALSE]
          /\ Closed(p)
  /\ UNCHANGED <<storage, up, cursor, ack, printed>>

\* The connection breaks: the client still reads what has already arrived.
Drop(p) ==
  /\ proc[p].conn /\ CountFault
  /\ proc' = [proc EXCEPT ![p].conn = FALSE]
  /\ \E k \in 0 .. Len(down[p]) : down' = [down EXCEPT ![p] = SubSeq(@, 1, k)]
  /\ Cancelled(p)
  /\ UNCHANGED <<storage, up, cursor, ack, printed>>

FindBroken(p) ==
  /\ proc[p].pc = "recv" /\ ~proc[p].conn /\ down[p] = <<>>
  /\ proc' = [proc EXCEPT ![p] = Failed(@)]
  /\ UNCHANGED <<storage, server, cursor, ack, printed, faults>>

\* _connect_with_retry: success starts the count again and watches every channel
\* the process began with, failure counts.
Connect(p) ==
  /\ proc[p].pc = "connect"
  /\ IF up
     THEN /\ proc' = [proc EXCEPT ![p].pc = "recv", ![p].attempt = 0, ![p].reg = 0,
                                  ![p].conn = TRUE, ![p].active = proc[p].chs]
          /\ ready' = [ready EXCEPT ![p] = WatchFrames(proc[p].at, proc[p].chs)]
     ELSE /\ proc' = [proc EXCEPT ![p] = Failed(@)]
          /\ ready' = ready
  /\ UNCHANGED <<storage, up, parked, down, cursor, ack, printed, faults>>

Kill(p) ==
  /\ proc[p].pc # "off" /\ CountKill(p)
  /\ Exit(p)
  /\ UNCHANGED <<storage, up, cursor, ack, printed>>

-----------------------------------------------------------------------------
(* `ack', and the server process. *)

NoAck == [pc |-> "off", owed |-> [ch \in Channels |-> 0], head |-> 0, ch |-> AChannel]

\* The head is asked from the server (not known when it is down) ...
AckAsks(p) ==
  /\ ack[p].pc = "off"
  /\ \E ch \in Channels :
       /\ ack[p].owed[ch] > 0
       /\ ack' = [ack EXCEPT ![p].pc = "asked", ![p].ch = ch,
                             ![p].head = IF up THEN HeadOf(ch) ELSE -1]
  /\ UNCHANGED <<storage, server, proc, cursor, printed, faults>>

\* ... and a cursor that would pass it stays.
AckSaves(p) ==
  /\ ack[p].pc = "asked"
  /\ LET ch == ack[p].ch
         next == cursor[p][ch] + 1
     IN  /\ cursor' = IF ack[p].head # -1 /\ next > ack[p].head THEN cursor
                      ELSE [cursor EXCEPT ![p][ch] = next]
         /\ ack' = [ack EXCEPT ![p] = [NoAck EXCEPT !.owed = [ack[p].owed EXCEPT ![ch] = @ - 1]]]
  /\ UNCHANGED <<storage, server, proc, printed, faults>>

ServerStops ==
  /\ up /\ CountFault
  /\ up' = FALSE
  /\ ready' = [p \in Projects |-> <<>>]
  /\ parked' = [p \in Projects |-> NoneParked]
  /\ down' = [p \in Projects |-> <<>>]
  /\ proc' = [p \in Projects |-> [proc[p] EXCEPT !.conn = FALSE]]
  /\ UNCHANGED <<storage, cursor, ack, printed>>

ServerStarts ==
  /\ ~up /\ up' = TRUE
  /\ UNCHANGED <<storage, ready, parked, down, client, faults>>

-----------------------------------------------------------------------------
Init ==
  /\ lines = [ch \in Channels |-> <<>>]
  /\ meta = [ch \in Channels |-> NoMeta]
  /\ up = TRUE
  /\ ready = [p \in Projects |-> <<>>]
  /\ parked = [p \in Projects |-> NoneParked]
  /\ down = [p \in Projects |-> <<>>]
  /\ proc = [p \in Projects |-> Off]
  /\ cursor = [p \in Projects |-> [ch \in Channels |-> 0]]
  /\ ack = [p \in Projects |-> NoAck]
  /\ printed = [p \in Projects |-> [ch \in Channels |-> {}]]
  /\ faults = 0

Next ==
  \/ \E ch \in Channels : (\E m \in Messages : Send(ch, m)) \/ Compact(ch)
  \/ \E p \in Projects :
       \/ RunWatchTask(p) \/ StartWatch(p) \/ Recv(p) \/ Printed(p)
       \/ Stale(p) \/ Drop(p) \/ FindBroken(p) \/ Connect(p) \/ Kill(p)
       \/ AckAsks(p) \/ AckSaves(p)
  \/ ServerStops \/ ServerStarts

Spec == Init /\ [][Next]_vars

\* The loop runs its tasks, a client reads and reconnects, and a stopped server is
\* started again; nothing is assumed of timeouts, drops, kills and sends.
Fairness == /\ WF_vars(ServerStarts)
            /\ \A p \in Projects : WF_vars(RunWatchTask(p)) /\ WF_vars(Recv(p))
                                   /\ WF_vars(Printed(p)) /\ WF_vars(FindBroken(p))
                                   /\ WF_vars(Connect(p))
FairSpec == Spec /\ Fairness

-----------------------------------------------------------------------------
(* Properties. *)

\* Every variable holds a value of its type, and meta.json describes messages.jsonl.
BoardTypeOK ==
  /\ \A ch \in Channels :
       /\ Known(ch) <=> lines[ch] # <<>>
       /\ Known(ch) => /\ meta[ch].oldest = lines[ch][1].pos
                       /\ meta[ch].head = Last(lines[ch]).pos
  /\ up \in BOOLEAN
  /\ \A p \in Projects :
       /\ proc[p].pc \in {"off", "recv", "printed", "connect"}
       /\ proc[p].attempt \in 0 .. MaxRetries
       /\ cursor[p] \in [Channels -> 0 .. Cardinality(Messages)]
       /\ ack[p].pc \in {"off", "asked"}
       /\ ~up => ~proc[p].conn
       /\ ready[p] # <<>> \/ parked[p] # NoneParked => proc[p].conn

\* The cursor file stands after messages that were all shown: no message is skipped by
\* a crash, a reconnect, a re-registered watch or an ack (`cursor' in save_cursor and
\* ack_and_advance). A message is lost for good once the cursor has passed it.
SavedIsPrinted ==
  \A p \in Projects, ch \in Channels : 1 .. cursor[p][ch] \subseteq printed[p][ch]

\* The furthest position a project was sent, shown or on the way.
Furthest(p, ch) ==
  LET sent == {f \in Range(down[p]) : f.type = "message" /\ f.ch = ch}
      all == printed[p][ch] \cup {f.pos : f \in sent} \cup {0}
  IN  CHOOSE q \in all : \A o \in all : o <= q

Log(ch) == INSTANCE ChannelLog WITH
             Readers <- Projects,
             log <- [q \in {lines[ch][i].pos : i \in DOMAIN lines[ch]} |->
                       lines[ch][CHOOSE i \in DOMAIN lines[ch] : lines[ch][i].pos = q].msg],
             head <- HeadOf(ch),
             read <- [p \in Projects |-> Furthest(p, ch)],
             acked <- [p \in Projects |-> cursor[p][ch]]

\* Every channel is such a log: positions count up by one, only a prefix disappears,
\* no reader is sent position n + 2 before n + 1, and no cursor passes what was sent.
ChannelsAreLogs ==
  /\ \A ch \in Channels : Log(ch)!Init
  /\ [][\A ch \in Channels : [Log(ch)!Next]_(Log(ch)!vars)]_vars

\* A watch that has a message to get is answered, whatever connection it loses and
\* whether the message was there before the watch or came while it was blocked: the
\* process moves on, ends, or was told that its channel does not exist.
WatchAnswered ==
  \A p \in Projects, ch \in Channels : \A n \in 0 .. Cardinality(Messages) :
    (proc[p].pc \in {"recv", "connect"} /\ proc[p].mode # "manual" /\ ch \in proc[p].active
       /\ proc[p].at[ch] = n /\ n < HeadOf(ch))
      ~> (proc[p].pc = "off" \/ ch \notin proc[p].active \/ proc[p].at[ch] > n)

\* The invariant of the module: its types, and no cursor passes a message that was not
\* shown.
BoardInv == BoardTypeOK /\ SavedIsPrinted
================================================================================
