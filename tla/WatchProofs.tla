---------------------------- MODULE WatchProofs ----------------------------
(***************************************************************************)
(* Proofs about those who follow what others write: the watches of the     *)
(* hosted board, for any number of channels, sockets, long polls and keys; *)
(* the viewers of a unit's logs; and the readers of its review, the        *)
(* dispatch loop and the operator.                                         *)
(*                                                                         *)
(* The three models share no state.  Each has an invariant of its own      *)
(* (LogIInv, RouteIInv and RecordIInv for what a unit's runs leave), and a *)
(* lemma for each action that preserves it.                                *)
(***************************************************************************)
EXTENDS SwarmDO, MCLogs, FiniteSetTheorems, TLAPS

-----------------------------------------------------------------------------
(* The hosted board. *)

\* A value for every socket and channel.
Table(f) == /\ f = [s \in Sockets |-> f[s]]
            /\ \A s \in Sockets : f[s] = [ch \in Channels |-> f[s][ch]]

\* The rows of a channel end with the position given last, 0 when there are none.
RowsEnd(ch) ==
  /\ messages[ch] \subseteq 1 .. MaxPosition
  /\ \/ messages[ch] = {} /\ last[ch] = 0
     \/ last[ch] \in messages[ch] /\ \A q \in messages[ch] : q <= last[ch]

\* Every watch in memory is the one attached to its socket.
WatchersAttached ==
  /\ \A w \in watchers : /\ w.s \in Sockets /\ w.ch \in Channels
                         /\ socket[w.s] # "closed" /\ att[w.s][w.ch] = w.cursor
  /\ \A w, v \in watchers : w.s = v.s /\ w.ch = v.ch => w = v

\* A client waits on an open socket, at the cursor attached to it.
WaitingAttached(s, ch) ==
  wants[s][ch] # None => socket[s] = "open" /\ att[s][ch] = wants[s][ch]

\* Of a token that is not torn at most one request has a write to do; the write agrees with
\* the key, and once there is none the entry does.
IndexFollows(t) ==
  t \notin torn =>
    /\ \A w, v \in pending : t \in w.tokens \cap v.tokens => w = v
    /\ \A w \in pending : t \in w.tokens => (w.op = "put" <=> t \in keys)
    /\ ~Busy(t) => (t \in index <=> t \in keys)

Tables == /\ Table(att) /\ Table(wants)
          /\ messages = [ch \in Channels |-> messages[ch]]
          /\ last = [ch \in Channels |-> last[ch]]
          /\ socket = [s \in Sockets |-> socket[s]]

KeysOK == /\ keys \cup index \cup torn \subseteq Tokens
          /\ pending \subseteq [id : Requests, op : {"put", "delete"}, tokens : (SUBSET Tokens) \ {{}}]

\* The inductive invariant.
Inductive ==
  /\ Tables
  /\ \A ch \in Channels : RowsEnd(ch)
  /\ WatchersAttached
  /\ \A s \in Sockets, ch \in Channels : WaitingAttached(s, ch)
  /\ KeysOK /\ \A t \in Tokens : IndexFollows(t)

\* The part about watches, which every action but those on keys touches.
Watches == /\ Tables
           /\ WatchersAttached
           /\ \A s \in Sockets, ch \in Channels : WaitingAttached(s, ch)

-----------------------------------------------------------------------------
(* Watches. *)

\* What is sent to a socket clears the watch of the socket in both places: in memory the watch
\* was the one attached, and it is in reach of the message exactly when the attachment is.
LEMMA WakeStep ==
  ASSUME Watches, NEW ch \in Channels, NEW p \in 1 .. MaxPosition, NEW fails \in SUBSET Dead,
         WakeWatchers(ch, p, fails), UNCHANGED socket
  PROVE  WatchersAttached' /\ \A s \in Sockets, c \in Channels : WaitingAttached(s, c)'
<1> DEFINE to == Receivers(ch, p, fails)
           hit(s) == \E r \in to : r.s = s
<1>1. /\ watchers' = watchers \ InMemory(ch, p)
      /\ att' = [s \in Sockets |-> IF hit(s) THEN [att[s] EXCEPT ![ch] = None] ELSE att[s]]
      /\ \A s \in Sockets : wants'[s] = IF hit(s) /\ socket[s] = "open"
                                      THEN [wants[s] EXCEPT ![ch] = None] ELSE wants[s]
  BY DEF WakeWatchers
<1>2. \A s \in Sockets : hit(s) => \/ \E w \in InMemory(ch, p) : w.s = s
                                   \/ att[s][ch] \in 0 .. p - 1
  <2> SUFFICES ASSUME NEW s \in Sockets, hit(s)
               PROVE  (\E w \in InMemory(ch, p) : w.s = s) \/ att[s][ch] \in 0 .. p - 1
    OBVIOUS
  <2>1. PICK r \in to : r.s = s  OBVIOUS
  <2>2. \/ r \in {[s |-> w.s, cursor |-> w.cursor] : w \in {w \in InMemory(ch, p) : w.s \notin fails}}
        \/ r \in {[s |-> u, cursor |-> att[u][ch]] : u \in Attached(ch, p) \ fails}
    BY DEF Receivers
  <2> QED  BY <2>1, <2>2 DEF Attached
<1>3. \A s \in Sockets, c \in Channels :
        /\ att'[s][c] = IF hit(s) /\ c = ch THEN None ELSE att[s][c]
        /\ wants'[s][c] = IF hit(s) /\ socket[s] = "open" /\ c = ch THEN None ELSE wants[s][c]
  BY <1>1 DEF Watches, Tables, Table
<1> HIDE DEF hit, to
<1>4. \A w \in watchers' : ~(hit(w.s) /\ w.ch = ch)
  <2> SUFFICES ASSUME NEW w \in watchers', hit(w.s), w.ch = ch PROVE FALSE
    OBVIOUS
  <2>1. w \in watchers /\ ~(w.cursor < p) /\ w.s \in Sockets /\ att[w.s][ch] = w.cursor
    BY <1>1 DEF InMemory, Watches, WatchersAttached
  <2>2. att[w.s][ch] \notin 0 .. p - 1
    BY <2>1
  <2>3. PICK v \in InMemory(ch, p) : v.s = w.s
    BY <1>2, <2>1, <2>2
  <2> QED  BY <2>1, <2>3 DEF InMemory, Watches, WatchersAttached
<1>5. WatchersAttached'
  BY <1>1, <1>3, <1>4 DEF Watches, WatchersAttached
<1>6. \A s \in Sockets, c \in Channels : WaitingAttached(s, c)'
  BY <1>3 DEF Watches, WaitingAttached
<1> QED  BY <1>5, <1>6

\* Both copies of a watch change together.
LEMMA WatchesStep ==
  ASSUME Watches, Tables', [Next]_vars
  PROVE  Watches'
<1> SUFFICES WatchersAttached' /\ \A s \in Sockets, c \in Channels : WaitingAttached(s, c)'
  BY DEF Watches
<1> USE DEF Watches, WatchersAttached, WaitingAttached
<1>1. ASSUME NEW ch \in Channels, HandleSend(ch) PROVE Watches'
  BY <1>1, WakeStep DEF HandleSend, clients
<1>2. ASSUME NEW ch \in Channels, NEW t \in Tokens, GatewayPost(t, ch) PROVE Watches'
  BY <1>2, WakeStep DEF GatewayPost
<1>3. ASSUME NEW s \in Sockets, Connect(s) PROVE Watches'
  <2>1. /\ watchers' = watchers /\ wants' = wants /\ socket[s] = "closed"
        /\ \A u \in Sockets : att'[u] = IF u = s THEN NoWatch ELSE att[u]
        /\ \A u \in Sockets : socket'[u] = IF u = s THEN "open" ELSE socket[u]
    BY <1>3 DEF Connect, memory, clients, Tables, Table
  <2> QED  BY <2>1
<1>4. ASSUME NEW s \in Sockets, Close(s) PROVE Watches'
  <2>1. /\ watchers' = {w \in watchers : w.s # s}
        /\ \A u \in Sockets : att'[u] = IF u = s THEN NoWatch ELSE att[u]
        /\ \A u \in Sockets : wants'[u] = IF u = s THEN NoWatch ELSE wants[u]
        /\ \A u \in Sockets : socket'[u] = IF u = s THEN "closed" ELSE socket[u]
    BY <1>4 DEF Close, RemoveWatcher, Tables, Table
  <2> QED  BY <2>1 DEF NoWatch
<1>5. ASSUME NEW s \in Sockets, Die(s) PROVE Watches'
  <2>1. /\ watchers' = watchers /\ att' = att
        /\ \A u \in Sockets : wants'[u] = IF u = s THEN NoWatch ELSE wants[u]
        /\ \A u \in Sockets : socket'[u] = IF u = s THEN "dead" ELSE socket[u]
    BY <1>5 DEF Die, memory, Tables, Table
  <2> QED  BY <2>1 DEF NoWatch
<1>6. ASSUME NEW s \in Sockets, NEW ch \in Channels, HandleWatch(s, ch) PROVE Watches'
  <2>1. socket' = socket /\ socket[s] = "open"
    BY <1>6 DEF HandleWatch
  <2>2. CASE Answer(s, ch, Ask(s, ch))
    <3>1. /\ watchers' = watchers /\ att' = att
          /\ \A u \in Sockets, c \in Channels :
               wants'[u][c] = IF u = s /\ c = ch THEN None ELSE wants[u][c]
      BY <2>2 DEF Answer, Tables, Table
    <3> QED  BY <2>1, <3>1
  <2>3. CASE Register(s, ch, Ask(s, ch))
    <3> DEFINE k == Ask(s, ch)
    <3>1. /\ watchers' = {w \in watchers : ~(w.s = s /\ w.ch = ch)}
                           \cup {[s |-> s, ch |-> ch, cursor |-> k]}
          /\ \A u \in Sockets, c \in Channels :
               /\ att'[u][c] = IF u = s /\ c = ch THEN k ELSE att[u][c]
               /\ wants'[u][c] = IF u = s /\ c = ch THEN k ELSE wants[u][c]
      BY <2>3 DEF Register, Tables, Table
    <3> HIDE DEF k
    <3> QED  BY <2>1, <3>1
  <2> QED  BY <1>6, <2>2, <2>3 DEF HandleWatch
<1>7. ASSUME NEW ch \in Channels, HandleDeleteChannel(ch) PROVE Watches'
  <2> DEFINE told(s) == \E w \in watchers : w.s = s /\ w.ch = ch
  <2>1. /\ watchers' = {w \in watchers : w.ch # ch} /\ att' = att /\ socket' = socket
        /\ \A s \in Sockets, c \in Channels :
             wants'[s][c] = IF told(s) /\ c = ch THEN None ELSE wants[s][c]
    BY <1>7 DEF HandleDeleteChannel, Tables, Table
  <2> HIDE DEF told
  <2> QED  BY <2>1
<1>8. CASE Hibernate
  BY <1>8 DEF Hibernate, clients
<1>9. CASE Restart
  BY <1>9 DEF Restart, NoWatch
<1>10. CASE UNCHANGED <<watchers, att, wants, socket>>
  BY <1>10
<1> QED
  BY <1>1, <1>2, <1>3, <1>4, <1>5, <1>6, <1>7, <1>8, <1>9, <1>10
  DEF Next, vars, memory, clients, Compact, GatewayWait, PollTimesOut, PutKey, DeleteKey,
      DeleteAllKeys, IndexWritten, IndexFails

\* A table stays one when an entry is overwritten.
LEMMA TableUpdate ==
  ASSUME NEW f, Table(f), NEW s \in Sockets, NEW ch \in Channels, NEW k
  PROVE  Table([f EXCEPT ![s][ch] = k])
<1> DEFINE g == [f[s] EXCEPT ![ch] = k]
           h == [f EXCEPT ![s] = g]
<1>1. g = [c \in Channels |-> g[c]]
  BY DEF Table
<1>2. h = [f EXCEPT ![s][ch] = k]
  OBVIOUS
<1> HIDE DEF g
<1>3. Table(h)
  BY <1>1 DEF Table
<1> QED  BY <1>2, <1>3

\* No action changes the channels or sockets a table has entries for.
LEMMA TablesStep ==
  ASSUME Tables, [Next]_vars
  PROVE  Tables'
<1> USE DEF Tables, Table, Restart
<1>1. (messages = [ch \in Channels |-> messages[ch]] /\ last = [ch \in Channels |-> last[ch]])'
  BY DEF Next, vars, memory, clients, HandleSend, GatewayPost, Stored, HandleDeleteChannel, Compact,
      Connect, Close, Die, HandleWatch, Hibernate,
      GatewayWait, PollTimesOut, PutKey, DeleteKey, DeleteAllKeys, IndexWritten, IndexFails
<1>2. (socket = [s \in Sockets |-> socket[s]])'
  BY DEF Next, vars, memory, clients, HandleSend, GatewayPost, Stored, HandleDeleteChannel, Compact,
      Connect, Close, Die, HandleWatch, Hibernate,
      GatewayWait, PollTimesOut, PutKey, DeleteKey, DeleteAllKeys, IndexWritten, IndexFails
<1>3. ASSUME NEW ch \in Channels, NEW p, NEW fails, WakeWatchers(ch, p, fails)
      PROVE  Table(att)' /\ Table(wants)'
  BY <1>3 DEF WakeWatchers
<1>4. ASSUME NEW s \in Sockets, NEW ch \in Channels, HandleWatch(s, ch)
      PROVE  Table(att)' /\ Table(wants)'
  <2> DEFINE k == Ask(s, ch)
  <2>1. /\ att' = att \/ att' = [att EXCEPT ![s][ch] = k]
        /\ wants' = [wants EXCEPT ![s][ch] = None] \/ wants' = [wants EXCEPT ![s][ch] = k]
    BY <1>4 DEF HandleWatch, Answer, Register
  <2> HIDE DEF k
  <2> HIDE DEF Table
  <2>2. /\ Table([att EXCEPT ![s][ch] = k])
        /\ Table([wants EXCEPT ![s][ch] = None]) /\ Table([wants EXCEPT ![s][ch] = k])
    BY TableUpdate
  <2>3. Table(att)'
    BY <2>1, <2>2
  <2>4. Table(wants)'
    BY <2>1, <2>2
  <2> QED  BY <2>3, <2>4
<1>5. ASSUME NEW s \in Sockets, Connect(s) \/ Close(s) \/ Die(s)
      PROVE  Table(att)' /\ Table(wants)'
  <2>1. /\ att' = att \/ att' = [att EXCEPT ![s] = NoWatch]
        /\ wants' = wants \/ wants' = [wants EXCEPT ![s] = NoWatch]
    BY <1>5 DEF Connect, Close, Die, RemoveWatcher, clients
  <2>2. Table(att)'  BY <2>1 DEF NoWatch
  <2>3. Table(wants)'  BY <2>1 DEF NoWatch
  <2> QED  BY <2>2, <2>3
<1>6. ASSUME NEW ch \in Channels, HandleDeleteChannel(ch)
      PROVE  Table(att)' /\ Table(wants)'
  BY <1>6 DEF HandleDeleteChannel
<1>7. ASSUME UNCHANGED <<att, wants>> \/ Restart PROVE Table(att)' /\ Table(wants)'
  BY <1>7 DEF NoWatch
<1>8. Table(att)' /\ Table(wants)'
  BY <1>3, <1>4, <1>5, <1>6, <1>7
  DEF Next, vars, memory, clients, HandleSend, GatewayPost, Hibernate, Compact,
      GatewayWait, PollTimesOut, PutKey, DeleteKey, DeleteAllKeys, IndexWritten, IndexFails
<1> QED  BY <1>1, <1>2, <1>8

-----------------------------------------------------------------------------
(* Positions. *)

\* MAX(position) is the position given last.
LEMMA MaxIsLast ==
  ASSUME SwarmBounds, NEW ch \in Channels, RowsEnd(ch)
  PROVE  MaxRow(messages[ch]) = last[ch]
<1>1. CASE messages[ch] = {}
  BY <1>1 DEF RowsEnd, MaxRow
<1>2. CASE messages[ch] # {}
  <2>1. /\ last[ch] \in messages[ch] /\ \A q \in messages[ch] : last[ch] >= q
        /\ messages[ch] \subseteq Int
    BY <1>2 DEF RowsEnd, SwarmBounds
  <2>2. \A m \in messages[ch] : (\A q \in messages[ch] : m >= q) => m = last[ch]
    BY <2>1
  <2>3. Max(messages[ch]) = last[ch]
    BY <2>1, <2>2 DEF Max
  <2> QED  BY <1>2, <2>3 DEF MaxRow
<1> QED  BY <1>1, <1>2

\* What a step does to the rows of a channel: a message after the last one, the end of the
\* channel, a compaction that leaves the last message, or nothing.
Appended(ch) == /\ messages'[ch] = messages[ch] \cup {last[ch] + 1}
                /\ last'[ch] = last[ch] + 1 /\ last'[ch] <= MaxPosition
Emptied(ch) == messages'[ch] = {} /\ last'[ch] = 0
Compacted(ch) == /\ \E k \in messages[ch] : k < last[ch] /\ messages'[ch] = {q \in messages[ch] : q > k}
                 /\ last'[ch] = last[ch]
RowsStep(ch) == \/ Appended(ch) \/ Emptied(ch) \/ Compacted(ch)
                \/ messages'[ch] = messages[ch] /\ last'[ch] = last[ch]

\* Every step is of that kind for every channel.
LEMMA NextRowsStep ==
  ASSUME Tables, \A ch \in Channels : RowsEnd(ch), [Next]_vars, NEW d \in Channels
  PROVE  RowsStep(d)
<1> USE DEF Tables
<1>1. ASSUME NEW ch \in Channels, NEW p, Stored(ch, p) PROVE RowsStep(d)
  BY <1>1, MaxIsLast, SwarmBounds DEF Stored, RowsStep, Appended
<1>2. ASSUME NEW ch \in Channels, Compact(ch) PROVE RowsStep(d)
  <2>1. PICK k \in messages[ch] \ {last[ch]} :
          messages' = [messages EXCEPT ![ch] = {q \in @ : q > k}]
    BY <1>2, MaxIsLast, SwarmBounds DEF Compact
  <2>2. k < last[ch]
    BY SwarmBounds DEF RowsEnd, SwarmBounds
  <2>3. last' = last
    BY <1>2 DEF Compact
  <2> QED  BY <2>1, <2>2, <2>3 DEF RowsStep, Compacted
<1>3. ASSUME NEW ch \in Channels, HandleDeleteChannel(ch) PROVE RowsStep(d)
  BY <1>3 DEF HandleDeleteChannel, RowsStep, Emptied
<1>4. CASE UNCHANGED <<messages, last>>
  BY <1>4 DEF RowsStep
<1> QED
  BY <1>1, <1>2, <1>3, <1>4
  DEF Next, vars, memory, clients, HandleSend, GatewayPost, Connect, Close, Die, HandleWatch,
      Hibernate, Restart, GatewayWait, PollTimesOut, PutKey, DeleteKey, DeleteAllKeys, IndexWritten, IndexFails

\* The last row is the one given last, whatever was compacted.
LEMMA RowsEndStep ==
  ASSUME NEW ch \in Channels, RowsEnd(ch), RowsStep(ch)
  PROVE  RowsEnd(ch)'
<1> USE SwarmBounds DEF SwarmBounds, RowsEnd
<1>1. CASE Appended(ch)
  BY <1>1 DEF Appended
<1>2. CASE Emptied(ch)
  BY <1>2 DEF Emptied
<1>3. CASE Compacted(ch)
  BY <1>3 DEF Compacted
<1> QED  BY <1>1, <1>2, <1>3 DEF RowsStep

-----------------------------------------------------------------------------
(* Keys. *)

\* A key and its index entry go the same way one after the other.
LEMMA OpensStep ==
  ASSUME KeysOK, \A t \in Tokens : IndexFollows(t), NEW r \in Requests,
         NEW op \in {"put", "delete"}, NEW ts \in (SUBSET Tokens) \ {{}}, Opens(r, op, ts),
         keys' = IF op = "put" THEN keys \cup ts ELSE keys \ ts, UNCHANGED index
  PROVE  KeysOK' /\ \A t \in Tokens : IndexFollows(t)'
<1> DEFINE n == [id |-> r, op |-> op, tokens |-> ts]
<1>1. /\ pending' = pending \cup {n}
      /\ torn' = (torn \ ts) \cup {t \in ts : Busy(t)}
      /\ n \in [id : Requests, op : {"put", "delete"}, tokens : (SUBSET Tokens) \ {{}}]
      /\ n.op = op /\ n.tokens = ts
  BY DEF Opens
<1> HIDE DEF n
<1>2. KeysOK'
  BY <1>1 DEF KeysOK
<1>3. ASSUME NEW t \in Tokens, t \notin torn' PROVE IndexFollows(t)'
  <2>1. CASE t \in ts
    <3>1. \A w \in pending : t \notin w.tokens
      BY <1>1, <1>3, <2>1 DEF Busy
    <3> QED  BY <1>1, <2>1, <3>1 DEF IndexFollows, Busy
  <2>2. CASE t \notin ts
    BY <1>1, <1>3, <2>2 DEF IndexFollows, Busy
  <2> QED  BY <2>1, <2>2
<1>4. ASSUME NEW t \in Tokens, t \in torn' PROVE IndexFollows(t)'
  BY <1>4 DEF IndexFollows
<1> QED  BY <1>2, <1>3, <1>4

\* The one write of a token that is not torn leaves its entry as the key is.
LEMMA WrittenStep ==
  ASSUME KeysOK, \A t \in Tokens : IndexFollows(t), NEW w \in pending, NEW u \in w.tokens,
         IndexWritten(w, u)
  PROVE  KeysOK' /\ \A t \in Tokens : IndexFollows(t)'
<1> DEFINE rest == [w EXCEPT !.tokens = @ \ {u}]
           left == IF w.tokens = {u} THEN {} ELSE {rest}
<1>1. /\ w \in [id : Requests, op : {"put", "delete"}, tokens : (SUBSET Tokens) \ {{}}]
      /\ u \in Tokens /\ keys' = keys /\ torn' = torn /\ pending' = (pending \ {w}) \cup left
      /\ index' = IF w.op = "put" THEN index \cup {u} ELSE index \ {u}
  BY DEF IndexWritten, KeysOK
<1>2. /\ rest.tokens = w.tokens \ {u} /\ rest.op = w.op
      /\ w.tokens # {u} =>
           rest \in [id : Requests, op : {"put", "delete"}, tokens : (SUBSET Tokens) \ {{}}]
  BY <1>1
<1> HIDE DEF rest
<1>3. KeysOK'
  BY <1>1, <1>2 DEF KeysOK
<1>4. ASSUME NEW t \in Tokens, t \notin torn PROVE IndexFollows(t)'
  <2>1. CASE t = u
    <3>1. \A v \in pending' : t \notin v.tokens
      BY <1>1, <1>2, <1>4, <2>1 DEF IndexFollows
    <3> QED  BY <1>1, <1>4, <2>1, <3>1 DEF IndexFollows
  <2>2. CASE t # u
    <3>1. \A v \in pending' : t \in v.tokens =>
            \E x \in pending : /\ t \in x.tokens /\ x.op = v.op
                              /\ v = IF x = w THEN rest ELSE x
      BY <1>1, <1>2
    <3>2. \A v, x \in pending' : t \in v.tokens \cap x.tokens => v = x
      BY <1>4, <3>1 DEF IndexFollows
    <3>3. \A v \in pending' : t \in v.tokens => (v.op = "put" <=> t \in keys')
      BY <1>1, <1>4, <3>1 DEF IndexFollows
    <3>4. Busy(t) => Busy(t)'
      <4>1. ASSUME NEW v \in pending, t \in v.tokens PROVE \E x \in pending' : t \in x.tokens
        BY <1>1, <1>2, <2>2, <4>1
      <4> QED  BY <4>1 DEF Busy
    <3>5. t \in index' <=> t \in index
      BY <1>1, <2>2
    <3> QED  BY <1>1, <1>4, <3>2, <3>3, <3>4, <3>5 DEF IndexFollows
  <2> QED  BY <2>1, <2>2
<1> QED  BY <1>1, <1>3, <1>4 DEF IndexFollows

\* A key and its index entry go the same way one after the other, or the token is torn.
LEMMA KeysStep ==
  ASSUME KeysOK, \A t \in Tokens : IndexFollows(t), [Next]_vars
  PROVE  KeysOK' /\ \A t \in Tokens : IndexFollows(t)'
<1>1. ASSUME NEW r \in Requests, NEW t \in Tokens, PutKey(r, t)
      PROVE  KeysOK' /\ \A u \in Tokens : IndexFollows(u)'
  <2>1. /\ {t} \in (SUBSET Tokens) \ {{}} /\ Opens(r, "put", {t})
        /\ keys' = keys \cup {t} /\ UNCHANGED index
    BY <1>1 DEF PutKey
  <2> QED  BY <2>1, OpensStep
<1>2. ASSUME NEW r \in Requests, NEW t \in Tokens, DeleteKey(r, t)
      PROVE  KeysOK' /\ \A u \in Tokens : IndexFollows(u)'
  <2>1. /\ {t} \in (SUBSET Tokens) \ {{}} /\ Opens(r, "delete", {t})
        /\ keys' = keys \ {t} /\ UNCHANGED index
    BY <1>2 DEF DeleteKey
  <2> QED  BY <2>1, OpensStep
<1>3. ASSUME NEW r \in Requests, DeleteAllKeys(r)
      PROVE  KeysOK' /\ \A u \in Tokens : IndexFollows(u)'
  <2>1. PICK ts : ts = keys
    OBVIOUS
  <2>2. ts \in (SUBSET Tokens) \ {{}} /\ keys' = {} /\ keys' = keys \ ts /\ UNCHANGED index
    BY <1>3, <2>1 DEF DeleteAllKeys, KeysOK
  <2>3. Opens(r, "delete", keys) /\ keys = ts
    BY <1>3, <2>1 DEF DeleteAllKeys
  <2>4. Opens(r, "delete", ts)
    BY <2>3 DEF Opens
  <2> QED  BY <2>2, <2>4, OpensStep
<1>4. ASSUME NEW w \in pending, NEW t \in w.tokens, IndexWritten(w, t)
      PROVE  KeysOK' /\ \A u \in Tokens : IndexFollows(u)'
  BY <1>4, WrittenStep
<1>5. ASSUME NEW w \in pending, IndexFails(w)
      PROVE  KeysOK' /\ \A t \in Tokens : IndexFollows(t)'
  <2>1. /\ keys' = keys /\ index' = index /\ pending' = pending \ {w} /\ torn' = torn \cup w.tokens
        /\ w.tokens \subseteq Tokens
    BY <1>5 DEF IndexFails, KeysOK
  <2>2. KeysOK'
    BY <2>1 DEF KeysOK
  <2> QED  BY <2>1, <2>2 DEF IndexFollows, Busy
<1>6. CASE Restart
  BY <1>6 DEF Restart, KeysOK, IndexFollows, Busy
<1>7. CASE UNCHANGED gateway
  BY <1>7 DEF gateway, KeysOK, IndexFollows, Busy
<1> QED
  BY <1>1, <1>2, <1>3, <1>4, <1>5, <1>6, <1>7
  DEF Next, vars, HandleSend, GatewayPost, Compact, HandleDeleteChannel, Connect, Close, Die,
      HandleWatch, Hibernate, GatewayWait, PollTimesOut

-----------------------------------------------------------------------------
(* Theorems. *)

\* The invariant holds always.
THEOREM SwarmInvariance == Spec => []Inductive
<1>1. Init => Inductive
  <2> SUFFICES ASSUME Init PROVE Inductive
    OBVIOUS
  <2>1. Tables
    BY DEF Init, Tables, Table, NoWatch
  <2>2. \A ch \in Channels : RowsEnd(ch)
    BY DEF Init, RowsEnd
  <2>3. WatchersAttached /\ \A s \in Sockets, ch \in Channels : WaitingAttached(s, ch)
    BY DEF Init, WatchersAttached, WaitingAttached, NoWatch
  <2>4. KeysOK /\ \A t \in Tokens : IndexFollows(t)
    BY DEF Init, KeysOK, IndexFollows, Busy
  <2> QED  BY <2>1, <2>2, <2>3, <2>4 DEF Inductive
<1>2. Inductive /\ [Next]_vars => Inductive'
  <2> SUFFICES ASSUME Inductive, [Next]_vars PROVE Inductive'
    OBVIOUS
  <2>1. Tables'
    BY TablesStep DEF Inductive
  <2>2. Watches'
    BY <2>1, WatchesStep DEF Inductive, Watches
  <2>3. ASSUME NEW ch \in Channels PROVE RowsEnd(ch)'
    BY NextRowsStep, RowsEndStep DEF Inductive
  <2>4. KeysOK' /\ \A t \in Tokens : IndexFollows(t)'
    BY KeysStep DEF Inductive
  <2> QED  BY <2>1, <2>2, <2>3, <2>4 DEF Inductive, Watches
<1> QED  BY <1>1, <1>2, PTL DEF Spec

\* SwarmInv: the watch a client waits at is in the attachment of its socket, whatever the memory
\* of the object still holds, so that it survives hibernation; the copy in memory never differs
\* from it.
THEOREM SwarmCorrect == Spec => []SwarmInv
<1>1. Inductive => SwarmInv
  <2> SUFFICES ASSUME Inductive PROVE SwarmInv
    OBVIOUS
  <2>1. ASSUME NEW s \in Sockets, wants[s] # NoWatch PROVE socket[s] = "open"
    <3>1. wants[s] = [ch \in Channels |-> wants[s][ch]]
      BY DEF Inductive, Tables, Table
    <3>2. PICK ch \in Channels : wants[s][ch] # None
      BY <2>1, <3>1 DEF NoWatch
    <3> QED  BY <3>2 DEF Inductive, WaitingAttached
  <2>2. SwarmTypeOK
    <3>1. \A w \in pending : w.id \in Requests /\ w.tokens # {} /\ w.tokens \subseteq Tokens
      BY DEF Inductive, KeysOK
    <3> QED  BY <2>1, <3>1 DEF Inductive, SwarmTypeOK, RowsEnd, KeysOK, WatchersAttached
  <2>3. WatchSurvives
    BY DEF Inductive, WatchSurvives, WaitingAttached
  <2> QED  BY <2>2, <2>3 DEF SwarmInv
<1> QED  BY <1>1, SwarmInvariance, PTL

\* IndexIsKeys: requests about keys overlap, fail and are cut off by a restart between the change
\* of the database and that of the KV store; the two agree on every token whose last request
\* was through before another one touched the token.
THEOREM IndexAlwaysKeys == Spec => []IndexIsKeys
<1>1. Inductive => IndexIsKeys
  BY DEF Inductive, IndexIsKeys, IndexFollows
<1> QED  BY <1>1, SwarmInvariance, PTL

\* PositionsGrow: MAX(position) + 1 never gives a position twice while a channel exists, because
\* compaction keeps the last row.
THEOREM PositionsAlwaysGrow == Spec => PositionsGrow
<1>1. ASSUME Inductive, [Next]_vars
      PROVE  [\A ch \in Channels : \A p \in messages'[ch] \ messages[ch] : p > last[ch]]_vars
  <2>1. ASSUME NEW ch \in Channels, NEW p \in messages'[ch] \ messages[ch] PROVE p > last[ch]
    <3>1. RowsStep(ch) /\ RowsEnd(ch)
      BY <1>1, NextRowsStep DEF Inductive
    <3>2. last[ch] \in Nat
      BY <3>1, SwarmBounds DEF RowsEnd, SwarmBounds
    <3> QED  BY <3>1, <3>2 DEF RowsStep, Appended, Emptied, Compacted
  <2> QED  BY <2>1
<1> QED  BY <1>1, SwarmInvariance, PTL DEF Spec, PositionsGrow

-----------------------------------------------------------------------------
(* The logs and their viewers.                                             *)

DashAt == dash.pc = "replay" => /\ dash.cur \in Phases /\ dash.idx \in 1 .. dash.cur
DashBehind == \A p \in Phases : dash.pos[p] <= log[p]
TailAt == tail.pc \in {"seek", "read", "next"} => tail.cur \in Phases

\* The socket's places are in its files: what it replays ends with the phase that it
\* found, and its positions are not past the ends.
LogIInv == LogInv /\ DashAt /\ DashBehind /\ TailAt

DashViews == Viewer({"off", "replay", "poll", "closed"})
TailViews == Viewer({"off", "seek", "read", "next", "closed"})

\* What a viewer's record is made of.
LEMMA ViewerFields ==
  ASSUME NEW v, v \in DashViews \/ v \in TailViews
  PROVE  /\ v = [pc |-> v.pc, cur |-> v.cur, idx |-> v.idx, pos |-> v.pos, seen |-> v.seen]
         /\ v.cur \in Phases \union {0} /\ v.idx \in 0..6
         /\ v.pos \in [Phases -> Nat] /\ v.seen \in [Phases -> SUBSET Nat]
BY DEF Viewer, DashViews, TailViews

\* What is streamed of a file goes on from where the viewer was.
LEMMA StreamedRecord ==
  ASSUME NEW v, v \in DashViews \/ v \in TailViews, NEW p \in Phases, NEW from \in Nat,
         log \in [Phases -> Nat]
  PROVE  LET w == Streamed(v, p, from)
         IN  /\ w = [pc |-> v.pc, cur |-> v.cur, idx |-> v.idx, pos |-> w.pos, seen |-> w.seen]
             /\ w.pos \in [Phases -> Nat] /\ w.seen \in [Phases -> SUBSET Nat]
             /\ w.pos[p] = log[p] /\ w.seen[p] = v.seen[p] \union (from + 1)..log[p]
             /\ \A q \in Phases \ {p} : w.pos[q] = v.pos[q] /\ w.seen[q] = v.seen[q]
<1> DEFINE seen == [v.seen EXCEPT ![p] = v.seen[p] \union (from + 1)..log[p]]
           pos  == [v.pos EXCEPT ![p] = log[p]]
<1>1. v = [pc |-> v.pc, cur |-> v.cur, idx |-> v.idx, pos |-> v.pos, seen |-> v.seen]
      /\ v.pos \in [Phases -> Nat] /\ v.seen \in [Phases -> SUBSET Nat]
  BY ViewerFields
<1>2. [v EXCEPT !.seen = seen].pos = v.pos
  BY <1>1
<1>3. Streamed(v, p, from) = [[v EXCEPT !.seen = seen] EXCEPT !.pos = pos]
  BY <1>2 DEF Streamed
<1>4. pos \in [Phases -> Nat] /\ pos[p] = log[p] /\ \A q \in Phases \ {p} : pos[q] = v.pos[q]
  BY <1>1
<1>5. /\ seen \in [Phases -> SUBSET Nat] /\ seen[p] = v.seen[p] \union (from + 1)..log[p]
      /\ \A q \in Phases \ {p} : seen[q] = v.seen[q]
  <2>1. (from + 1)..log[p] \in SUBSET Nat
    OBVIOUS
  <2> QED  BY <1>1, <2>1
<1> HIDE DEF seen, pos
<1>6. Streamed(v, p, from) = [pc |-> v.pc, cur |-> v.cur, idx |-> v.idx, pos |-> pos, seen |-> seen]
  BY <1>1, <1>3
<1>7. Streamed(v, p, from).pos = pos /\ Streamed(v, p, from).seen = seen
  BY <1>6
<1> QED  BY <1>4, <1>5, <1>6, <1>7

LEMMA StreamedDash ==
  ASSUME NEW v \in DashViews, NEW p \in Phases, NEW from \in Nat, log \in [Phases -> Nat]
  PROVE  /\ Streamed(v, p, from) \in DashViews
         /\ Streamed(v, p, from).pc = v.pc /\ Streamed(v, p, from).cur = v.cur
<1> DEFINE w == Streamed(v, p, from)
<1>1. /\ w = [pc |-> v.pc, cur |-> v.cur, idx |-> v.idx, pos |-> w.pos, seen |-> w.seen]
      /\ w.pos \in [Phases -> Nat] /\ w.seen \in [Phases -> SUBSET Nat]
  BY StreamedRecord
<1>2. v.pc \in {"off", "replay", "poll", "closed"} /\ v.cur \in Phases \union {0} /\ v.idx \in 0..6
  BY DEF Viewer, DashViews
<1> HIDE DEF w
<1>3. w \in DashViews /\ w.pc = v.pc /\ w.cur = v.cur
  BY <1>1, <1>2 DEF Viewer, DashViews
<1> QED  BY <1>3 DEF w

LEMMA StreamedTail ==
  ASSUME NEW v \in TailViews, NEW p \in Phases, NEW from \in Nat, log \in [Phases -> Nat]
  PROVE  Streamed(v, p, from) \in TailViews /\ Streamed(v, p, from).cur = v.cur
<1> DEFINE w == Streamed(v, p, from)
<1>1. /\ w = [pc |-> v.pc, cur |-> v.cur, idx |-> v.idx, pos |-> w.pos, seen |-> w.seen]
      /\ w.pos \in [Phases -> Nat] /\ w.seen \in [Phases -> SUBSET Nat]
  BY StreamedRecord
<1>2. v.pc \in {"off", "seek", "read", "next", "closed"} /\ v.cur \in Phases \union {0} /\ v.idx \in 0..6
  BY DEF Viewer, TailViews
<1> HIDE DEF w
<1>3. w \in TailViews /\ w.cur = v.cur
  BY <1>1, <1>2 DEF Viewer, TailViews
<1> QED  BY <1>3 DEF w

\* A viewer's record changed field by field.
LEMMA TailSet ==
  ASSUME NEW v \in TailViews, NEW pc \in {"off", "seek", "read", "next", "closed"},
         NEW cur \in Phases \union {0}, NEW idx \in 0..6, NEW pos \in [Phases -> Nat],
         NEW seen \in [Phases -> SUBSET Nat]
  PROVE  [pc |-> pc, cur |-> cur, idx |-> idx, pos |-> pos, seen |-> seen] \in TailViews
BY DEF Viewer, TailViews

\* The phase the socket finds has a file, and is not the rebase.
LEMMA CurrentIsThere ==
  ASSUME LogTypeOK
  PROVE  CurrentPhase \in (Phases \ {REBASE}) \union {0}
BY DEF LogTypeOK, CurrentPhase, Phases, REBASE, IMPLEMENT

\* A set of phases has a last one.
LEMMA LastIsThere ==
  ASSUME NEW ps \in SUBSET Phases, ps # {}
  PROVE  LastOf(ps) \in ps
<1>1. \E p \in ps : \A q \in ps : q <= p
  <2>1. CASE 6 \in ps
    BY <2>1 DEF Phases
  <2>2. CASE 6 \notin ps /\ 5 \in ps
    BY <2>2 DEF Phases
  <2>3. CASE 6 \notin ps /\ 5 \notin ps /\ 4 \in ps
    BY <2>3 DEF Phases
  <2>4. CASE 6 \notin ps /\ 5 \notin ps /\ 4 \notin ps /\ 3 \in ps
    BY <2>4 DEF Phases
  <2>5. CASE ps \subseteq {1, 2} /\ 2 \in ps
    BY <2>5
  <2>6. CASE ps \subseteq {1}
    <3>1. PICK p \in ps : TRUE
      OBVIOUS
    <3>2. \A q \in ps : q = 1
      BY <2>6
    <3>3. \A q \in ps : q <= p
      BY <3>1, <3>2
    <3> QED  BY <3>3
  <2> QED  BY <2>1, <2>2, <2>3, <2>4, <2>5, <2>6 DEF Phases
<1> QED  BY <1>1 DEF LastOf

LEMMA FewExist == Cardinality(Existing) \in 0..6
<1>1. IsFiniteSet(1..6) /\ Cardinality(1..6) = 6
  <2>1. \A a, b \in Int : IsFiniteSet(a..b) /\ Cardinality(a..b) = IF a > b THEN 0 ELSE b - a + 1
    BY FS_Interval
  <2>2. \A n \in Nat : IsFiniteSet(1..n) /\ Cardinality(1..n) = n
    <3> SUFFICES ASSUME NEW n \in Nat PROVE IsFiniteSet(1..n) /\ Cardinality(1..n) = n
      OBVIOUS
    <3>1. IsFiniteSet(1..n) /\ Cardinality(1..n) = IF 1 > n THEN 0 ELSE n - 1 + 1
      BY <2>1
    <3> QED  BY <3>1
  <2> QED  BY <2>2
<1>2. Existing \subseteq 1..6
  BY DEF Existing, Phases
<1>3. IsFiniteSet(Existing) /\ Cardinality(Existing) <= 6
  BY <1>1, <1>2, FS_Subset
<1>4. Cardinality(Existing) \in Nat
  BY <1>3, FS_CardinalityType
<1> QED  BY <1>3, <1>4

\* A step of a dashboard that shows a file from what it had of it keeps its place.
LEMMA ShownGoesOn ==
  ASSUME LogIInv, NEW p \in Phases, NEW from \in {0, dash.pos[p]}
  PROVE  LET v == Streamed(dash, p, from)
         IN  \A q \in Phases : v.seen[q] = 1..v.pos[q] /\ v.pos[q] <= log[q]
<1> DEFINE v == Streamed(dash, p, from)
<1>1. dash \in DashViews /\ log \in [Phases -> Nat]
  BY DEF LogIInv, LogInv, LogTypeOK, DashViews, TailViews
<1>2. dash.pos \in [Phases -> Nat] /\ dash.seen \in [Phases -> SUBSET Nat] /\ from \in Nat
  BY <1>1 DEF Viewer, DashViews, TailViews
<1>3. /\ v.pos[p] = log[p] /\ v.seen[p] = dash.seen[p] \union (from + 1)..log[p]
      /\ \A q \in Phases \ {p} : v.pos[q] = dash.pos[q] /\ v.seen[q] = dash.seen[q]
  BY <1>1, <1>2, StreamedRecord
<1>4. \A q \in Phases : dash.seen[q] = 1..dash.pos[q] /\ dash.pos[q] <= log[q]
  BY DEF LogIInv, LogInv, ShownToPosition, DashBehind
<1>5. (1..dash.pos[p]) \union ((from + 1)..log[p]) = 1..log[p]
  BY <1>1, <1>2, <1>4
<1> HIDE DEF v
<1>6. v.seen[p] = 1..log[p] /\ v.pos[p] = log[p]
  BY <1>3, <1>4, <1>5
<1>7. \A q \in Phases \ {p} : v.seen[q] = dash.seen[q] /\ v.pos[q] = dash.pos[q]
  BY <1>3
<1>8. \A q \in Phases : v.seen[q] = 1..v.pos[q] /\ v.pos[q] <= log[q]
  BY <1>1, <1>4, <1>6, <1>7
<1> QED  BY <1>8 DEF v

\* What a step does not touch goes on holding.
LEMMA DashUntouched ==
  ASSUME LogIInv, log' \in [Phases -> Nat], \A p \in Phases : log[p] <= log'[p], dash' = dash
  PROVE  /\ dash' \in DashViews
         /\ (ShownToPosition /\ DashAt /\ DashBehind)'
<1>1. dash \in DashViews /\ log \in [Phases -> Nat]
  BY DEF LogIInv, LogInv, LogTypeOK, DashViews, TailViews
<1>2. DashBehind'
  <2> SUFFICES ASSUME NEW p \in Phases PROVE dash.pos[p] <= log'[p]
    BY DEF DashBehind
  <2>1. dash.pos[p] \in Nat /\ log[p] \in Nat /\ log'[p] \in Nat
    BY <1>1 DEF Viewer, DashViews, TailViews
  <2>2. dash.pos[p] <= log[p] /\ log[p] <= log'[p]
    BY DEF LogIInv, DashBehind
  <2> QED  BY <2>1, <2>2
<1> QED  BY <1>1, <1>2 DEF LogIInv, LogInv, ShownToPosition, DashAt

LEMMA AgentsStep ==
  ASSUME LogIInv, LogBounds, Agents
  PROVE  LogIInv'
<1>1. log \in [Phases -> Nat] /\ newest \in Phases \union {0}
      /\ unit \in [phase : Phases, status : {"RUNNING", "DONE", "gone"}]
      /\ returns \in 0..MaxReturns /\ MaxReturns \in Nat
  BY DEF LogIInv, LogInv, LogTypeOK, LogBounds
<1>2. dash' = dash /\ tail' = tail
  BY DEF Agents, WriteLine, NextPhase, ReturnToImplement, DeleteUnit
<1>3. log' \in [Phases -> Nat] /\ \A p \in Phases : log[p] <= log'[p]
  <2>1. CASE WriteLine
    BY <1>1, <2>1 DEF WriteLine
  <2>2. CASE log' = log
    BY <1>1, <2>2
  <2> QED  BY <2>1, <2>2 DEF Agents, NextPhase, ReturnToImplement, DeleteUnit
<1>4. newest' \in Phases \union {0}
  BY <1>1 DEF Agents, WriteLine, NextPhase, ReturnToImplement, DeleteUnit
<1>5. unit' \in [phase : Phases, status : {"RUNNING", "DONE", "gone"}]
  <2>1. CASE WriteLine
    BY <1>1, <2>1 DEF WriteLine
  <2>2. CASE NextPhase
    BY <1>1, <2>2 DEF NextPhase, Phases, COMPLETE
  <2>3. CASE ReturnToImplement
    BY <1>1, <2>3 DEF ReturnToImplement, Phases, IMPLEMENT
  <2>4. CASE DeleteUnit
    BY <1>1, <2>4 DEF DeleteUnit
  <2> QED  BY <2>1, <2>2, <2>3, <2>4 DEF Agents
<1>6. returns' \in 0..MaxReturns
  BY <1>1 DEF Agents, WriteLine, NextPhase, ReturnToImplement, DeleteUnit
<1>7. tail' \in TailViews /\ TailAt'
  BY <1>2 DEF LogIInv, LogInv, LogTypeOK, TailAt, DashViews, TailViews
<1> QED  BY <1>2, <1>3, <1>4, <1>5, <1>6, <1>7, DashUntouched DEF LogIInv, LogInv, LogTypeOK, DashViews, TailViews

\* The socket's next state, and what must be shown of it.
LEMMA DashboardMoves ==
  ASSUME LogIInv, UNCHANGED <<log, newest, unit, returns, tail>>,
         dash' \in DashViews, DashAt',
         \A q \in Phases : dash'.seen[q] = 1..dash'.pos[q] /\ dash'.pos[q] <= log[q]
  PROVE  LogIInv'
BY DEF LogIInv, LogInv, LogTypeOK, ShownToPosition, DashBehind, TailAt, DashViews

LEMMA DashboardStep ==
  ASSUME LogIInv, Dashboard
  PROVE  LogIInv'
<1>1. log \in [Phases -> Nat] /\ dash \in DashViews
  BY DEF LogIInv, LogInv, LogTypeOK, DashViews, TailViews
<1>2. UNCHANGED <<log, newest, unit, returns, tail>>
  BY DEF Dashboard, Open, Replay, Poll, Disconnect
<1>3. dash.pos \in [Phases -> Nat] /\ \A q \in Phases : dash.seen[q] = 1..dash.pos[q] /\ dash.pos[q] <= log[q]
  BY <1>1 DEF LogIInv, LogInv, ShownToPosition, DashBehind, Viewer, DashViews
<1> DEFINE Good(w) == w \in DashViews /\ \A q \in Phases : w.seen[q] = 1..w.pos[q] /\ w.pos[q] <= log[q]
<1>5. ASSUME NEW v, Good(v), NEW pc \in {"off", "replay", "poll", "closed"}
      PROVE  Good([v EXCEPT !.pc = pc]) /\ [v EXCEPT !.pc = pc].pc = pc
  BY <1>5 DEF Viewer, DashViews, TailViews
<1>6. ASSUME NEW v, Good(v), NEW cur \in Phases \union {0}
      PROVE  Good([v EXCEPT !.cur = cur]) /\ [v EXCEPT !.cur = cur].pc = v.pc
  BY <1>6 DEF Viewer, DashViews, TailViews
<1>7. ASSUME NEW v, Good(v), NEW idx \in 0..6
      PROVE  /\ Good([v EXCEPT !.idx = idx]) /\ [v EXCEPT !.idx = idx].idx = idx
             /\ [v EXCEPT !.idx = idx].pc = v.pc /\ [v EXCEPT !.idx = idx].cur = v.cur
  BY <1>7 DEF Viewer, DashViews, TailViews
<1>8. Good(dash) /\ \A p \in Phases : \A from \in {0, dash.pos[p]} : Good(Streamed(dash, p, from))
  BY <1>1, <1>3, StreamedDash, ShownGoesOn
<1>9. ASSUME Good(dash'), DashAt' PROVE LogIInv'
  BY <1>2, <1>9, DashboardMoves
<1> HIDE DEF Good
<1>10. CASE Open
  <2>1. CASE unit.status = "gone" \/ CurrentPhase = 0
    <3>1. PICK pc \in {"poll", "closed"} : dash' = [dash EXCEPT !.pc = pc]
      BY <1>10, <2>1 DEF Open
    <3>2. Good(dash') /\ dash'.pc = pc
      BY <3>1, <1>5, <1>8
    <3> QED  BY <3>2, <1>9 DEF DashAt
  <2>2. CASE unit.status # "gone" /\ CurrentPhase # 0
    <3> DEFINE one == [dash EXCEPT !.pc = "replay"]
               two == [one EXCEPT !.cur = CurrentPhase]
    <3>1. dash' = [two EXCEPT !.idx = 1]
      BY <1>10, <2>2 DEF Open
    <3>2. CurrentPhase \in Phases
      BY <2>2, CurrentIsThere DEF LogIInv, LogInv
    <3>3. Good(one) /\ one.pc = "replay"
      BY <1>5, <1>8
    <3> HIDE DEF one
    <3>4. Good(two) /\ two.cur = CurrentPhase
      <4>1. two.cur = CurrentPhase
        BY <3>3 DEF Good, DashViews, Viewer
      <4> QED  BY <1>6, <3>2, <3>3, <4>1
    <3> HIDE DEF two
    <3>5. Good(dash') /\ dash'.idx = 1 /\ dash'.cur = CurrentPhase
      <4>1. 1 \in 0..6
        OBVIOUS
      <4>2. Good([two EXCEPT !.idx = 1]) /\ [two EXCEPT !.idx = 1].idx = 1 /\ [two EXCEPT !.idx = 1].cur = two.cur
        BY <1>7, <3>4, <4>1
      <4> QED  BY <3>1, <3>4, <4>2
    <3>6. DashAt'
      BY <3>2, <3>5 DEF DashAt, Phases
    <3> QED  BY <1>9, <3>5, <3>6
  <2> QED  BY <2>1, <2>2
<1>11. CASE Replay
  <2> DEFINE p == dash.idx
             shown == IF p # REBASE /\ log[p] > 0 THEN Streamed(dash, p, 0) ELSE dash
  <2>1. dash.pc = "replay" /\ dash.cur \in Phases /\ p \in 1 .. dash.cur /\ p \in Phases
    BY <1>11 DEF Replay, LogIInv, DashAt, Phases
  <2>2. Good(shown) /\ shown.pc = "replay" /\ shown.cur = dash.cur
    BY <1>1, <1>8, <2>1, StreamedDash 
  <2>3. dash' = IF p = dash.cur THEN [shown EXCEPT !.pc = "poll"] ELSE [shown EXCEPT !.idx = p + 1]
    BY <1>11 DEF Replay
  <2> HIDE DEF shown
  <2>4. CASE p = dash.cur
    BY <1>5, <1>9, <2>2, <2>3, <2>4 DEF DashAt
  <2>5. CASE p # dash.cur
    <3>1. p + 1 \in 0..6 /\ p + 1 \in 1 .. dash.cur
      BY <2>1, <2>5 DEF Phases
    <3>2. Good(dash') /\ dash'.idx = p + 1 /\ dash'.cur = dash.cur
      BY <1>7, <2>2, <2>3, <2>5, <3>1
    <3> QED  BY <1>9, <2>1, <3>1, <3>2 DEF DashAt
  <2> QED  BY <2>4, <2>5
<1>12. CASE Poll
  <2>1. CASE dash' = [dash EXCEPT !.pc = "closed"]
    BY <2>1, <1>5, <1>8, <1>9 DEF DashAt
  <2>2. CASE CurrentPhase \notin {0, dash.cur}
             /\ dash' = [Streamed(dash, CurrentPhase, 0) EXCEPT !.cur = CurrentPhase]
    <3>1. CurrentPhase \in Phases
      BY <2>2, CurrentIsThere DEF LogIInv, LogInv
    <3>2. Good(Streamed(dash, CurrentPhase, 0)) /\ Streamed(dash, CurrentPhase, 0).pc = "poll"
      BY <1>1, <1>8, <1>12, <3>1, StreamedDash DEF Poll
    <3> QED  BY <1>6, <1>9, <2>2, <3>1, <3>2 DEF DashAt
  <2>3. CASE dash.cur # 0 /\ dash' = Streamed(dash, dash.cur, dash.pos[dash.cur])
    <3>1. dash.cur \in Phases
      BY <1>1, <2>3 DEF Viewer, DashViews, TailViews
    <3>2. dash.pos[dash.cur] \in Nat
      BY <1>3, <3>1
    <3>3. Good(dash')
      BY <1>8, <2>3, <3>1
    <3>4. dash'.pc = "poll"
      <4>1. dash.pc = "poll"
        BY <1>12 DEF Poll
      <4>2. Streamed(dash, dash.cur, dash.pos[dash.cur]).pc = dash.pc
        BY <1>1, <3>1, <3>2, StreamedDash
      <4> QED  BY <2>3, <4>1, <4>2
    <3> QED  BY <1>9, <3>3, <3>4 DEF DashAt
  <2>4. CASE dash' = dash
    BY <1>8, <1>9, <1>12, <2>4 DEF DashAt, Poll
  <2> QED  BY <1>12, <2>1, <2>2, <2>3, <2>4 DEF Poll
<1>13. CASE Disconnect
  BY <1>5, <1>8, <1>9, <1>13 DEF DashAt, Disconnect
<1> QED  BY <1>10, <1>11, <1>12, <1>13 DEF Dashboard

LEMMA TailStep ==
  ASSUME LogIInv, Tail
  PROVE  LogIInv'
<1>1. log \in [Phases -> Nat] /\ tail \in TailViews
  BY DEF LogIInv, LogInv, LogTypeOK, DashViews, TailViews
<1>2. UNCHANGED <<log, newest, unit, returns, dash>>
  BY DEF Tail, ShowAll, SeekEnd, ReadNew, LookForNext
<1>3. ASSUME tail' \in TailViews, TailAt' PROVE LogIInv'
  BY <1>2, <1>3 DEF LogIInv, LogInv, LogTypeOK, ShownToPosition, DashAt, DashBehind, TailViews
<1>4. CASE ShowAll
  <2>1. [p \in Phases |-> 1..log[p]] \in [Phases -> SUBSET Nat]
    <3>1. \A p \in Phases : 1..log[p] \in SUBSET Nat
      BY <1>1
    <3> QED  BY <3>1
  <2>2. LastOf(Existing) \in Phases
    BY <1>4, LastIsThere DEF ShowAll, Existing
  <2> DEFINE shown == [p \in Phases |-> 1..log[p]]
             n     == Cardinality(Existing)
             l     == LastOf(Existing)
  <2>3. tail' = [tail EXCEPT !.pc = "seek", !.idx = n, !.cur = l, !.seen = shown]
    BY <1>4 DEF ShowAll
  <2>4. n \in 0..6 /\ l \in Phases /\ shown \in [Phases -> SUBSET Nat]
    BY <2>1, <2>2, FewExist
  <2> HIDE DEF n, l, shown
  <2>5. tail = [pc |-> tail.pc, cur |-> tail.cur, idx |-> tail.idx, pos |-> tail.pos, seen |-> tail.seen]
        /\ tail.pos \in [Phases -> Nat]
    BY <1>1, ViewerFields
  <2>6. tail' = [pc |-> "seek", cur |-> l, idx |-> n, pos |-> tail.pos, seen |-> shown]
    BY <2>3, <2>5
  <2>7. tail' \in TailViews /\ tail'.cur = l
    BY <1>1, <2>4, <2>5, <2>6, TailSet
  <2> QED  BY <1>3, <2>4, <2>7 DEF TailAt
<1>5. CASE SeekEnd
  <2>1. tail.cur \in Phases
    BY <1>5 DEF SeekEnd, LogIInv, TailAt
  <2>2. tail.pos \in [Phases -> Nat] /\ [tail.pos EXCEPT ![tail.cur] = log[tail.cur]] \in [Phases -> Nat]
    BY <1>1, <2>1 DEF Viewer, DashViews, TailViews
  <2>3. tail' = [tail EXCEPT !.pc = "read", !.pos = [tail.pos EXCEPT ![tail.cur] = log[tail.cur]]]
    BY <1>1, <1>5 DEF SeekEnd, Viewer
  <2>4. tail' \in TailViews /\ tail'.cur = tail.cur
    BY <1>1, <2>2, <2>3 DEF Viewer, DashViews, TailViews
  <2> QED  BY <1>3, <2>1, <2>4 DEF TailAt
<1>6. CASE ReadNew
  <2>1. tail.cur \in Phases
    BY <1>6 DEF ReadNew, LogIInv, TailAt
  <2>2. tail.pos[tail.cur] \in Nat
    BY <1>1, <2>1 DEF Viewer, DashViews, TailViews
  <2>3. /\ Streamed(tail, tail.cur, tail.pos[tail.cur]) \in TailViews
        /\ Streamed(tail, tail.cur, tail.pos[tail.cur]).cur = tail.cur
    BY <1>1, <2>1, <2>2, StreamedTail
  <2>4. tail' = [Streamed(tail, tail.cur, tail.pos[tail.cur]) EXCEPT !.pc = "next"]
    BY <1>6 DEF ReadNew
  <2>5. tail' \in TailViews /\ tail'.cur = tail.cur
    BY <2>3, <2>4 DEF Viewer, DashViews, TailViews
  <2> QED  BY <1>3, <2>1, <2>5 DEF TailAt
<1>7. CASE LookForNext
  <2> DEFINE p == tail.idx + 1
  <2>1. CASE p \in Phases /\ log[p] > 0
    <3>1. Streamed(tail, p, 0) \in TailViews
      BY <1>1, <2>1, StreamedTail
    <3>2. tail' = [Streamed(tail, p, 0) EXCEPT !.pc = "seek", !.cur = p, !.idx = p]
      BY <1>7, <2>1 DEF LookForNext
    <3> DEFINE v == Streamed(tail, p, 0)
    <3>3. /\ v = [pc |-> v.pc, cur |-> v.cur, idx |-> v.idx, pos |-> v.pos, seen |-> v.seen]
          /\ v.pos \in [Phases -> Nat] /\ v.seen \in [Phases -> SUBSET Nat]
      BY <3>1, ViewerFields
    <3> HIDE DEF v
    <3>4. tail' = [pc |-> "seek", cur |-> p, idx |-> p, pos |-> v.pos, seen |-> v.seen]
      BY <3>2, <3>3 DEF v
    <3>5. p \in 0..6
      BY <2>1 DEF Phases
    <3>6. tail' \in TailViews /\ tail'.cur = p
      BY <1>1, <2>1, <3>3, <3>4, <3>5, TailSet
    <3> QED  BY <1>3, <2>1, <3>6 DEF TailAt
  <2>2. CASE ~(p \in Phases /\ log[p] > 0)
    <3>1. tail.pc = "next" /\ tail' = [tail EXCEPT !.pc = "read"]
      BY <1>7, <2>2 DEF LookForNext
    <3>2. tail' \in TailViews /\ tail'.cur = tail.cur
      BY <1>1, <3>1 DEF Viewer, DashViews, TailViews
    <3> QED  BY <1>3, <3>1, <3>2 DEF TailAt, LogIInv
  <2> QED  BY <2>1, <2>2
<1> QED  BY <1>4, <1>5, <1>6, <1>7 DEF Tail

LEMMA LogIInvInit ==
  ASSUME LogInit, LogBounds
  PROVE  LogIInv
<1>1. log = [p \in Phases |-> 0] /\ newest = 0 /\ returns = 0
      /\ unit \in [phase : FirstPhases, status : {"RUNNING"}] /\ FirstPhases \subseteq Phases
      /\ MaxReturns \in Nat
  BY DEF LogInit, LogBounds, Phases
<1>2. /\ dash \in DashViews
      /\ tail \in TailViews
  BY DEF LogInit, Blank, Absent, Viewer, DashViews, TailViews
<1>3. dash.pc \in {"off", "closed"} /\ tail.pc \in {"off", "closed"}
      /\ dash.pos = [p \in Phases |-> 0] /\ dash.seen = [p \in Phases |-> {}]
  <2>1. Blank.pc = "off" /\ Blank.pos = [p \in Phases |-> 0] /\ Blank.seen = [p \in Phases |-> {}]
    BY DEF Blank
  <2>2. Absent.pc = "closed" /\ Absent.pos = Blank.pos /\ Absent.seen = Blank.seen
    BY DEF Absent, Blank
  <2> QED  BY <2>1, <2>2 DEF LogInit
<1>4. 1..0 = {}
  OBVIOUS
<1>5. ShownToPosition /\ DashBehind
  BY <1>1, <1>3, <1>4 DEF ShownToPosition, DashBehind
<1>6. DashAt /\ TailAt
  BY <1>3 DEF DashAt, TailAt
<1>7. LogTypeOK
  <2>1. log \in [Phases -> Nat] /\ newest \in Phases \union {0} /\ returns \in 0..MaxReturns
    BY <1>1
  <2>2. unit \in [phase : Phases, status : {"RUNNING", "DONE", "gone"}]
    BY <1>1
  <2> QED  BY <1>2, <2>1, <2>2 DEF LogTypeOK, DashViews, TailViews
<1> QED  BY <1>5, <1>6, <1>7 DEF LogIInv, LogInv

LEMMA LogIInvStep ==
  ASSUME LogIInv, LogBounds, LogNext
  PROVE  LogIInv'
BY AgentsStep, DashboardStep, TailStep DEF LogNext

LEMMA LogUnchanged ==
  ASSUME LogIInv, UNCHANGED logVars
  PROVE  LogIInv'
BY DEF LogIInv, LogInv, LogTypeOK, ShownToPosition, DashAt, DashBehind, TailAt, logVars

-----------------------------------------------------------------------------
(* The review's route.                                                     *)

Rows == [phase : {"IMPLEMENT", "REVIEW", "COMPLETE", "DONE"},
         status : {"READY", "RUNNING", "NEEDS_ATTENTION"},
         iteration : 0..MaxIterations, nudges : Nat, impl : 0..(MaxIterations + 1)]
Files == [decision : Decisions \union {"none", "other"}, round : 0..MaxRounds]

RouteTypes ==
  /\ row \in Rows /\ feedback \in BOOLEAN /\ round \in 0..MaxRounds /\ given \in Nat
  /\ leftFile \in Files /\ called \in Decisions \union {"none", "other"}
  /\ used \in [requests : Nat, kills : Nat]

RouteIInv == RouteTypes /\ DecisionIsOfThisReview /\ FeedbackIsAnswered /\ FeedbackIsCounted

Bounds ==
  /\ MaxIterations \in Nat /\ MaxNudges \in Nat /\ MaxRounds \in Nat
  /\ MaxRequests \in Nat /\ MaxReviewKills \in Nat /\ MaxMarks \in Nat

LEMMA BoundsAreNumbers == Bounds
BY ReviewBounds DEF Bounds

\* A row's fields, one changed after the other.
LEMMA RowFields ==
  ASSUME row \in Rows
  PROVE  /\ row = [phase |-> row.phase, status |-> row.status, iteration |-> row.iteration,
                   nudges |-> row.nudges, impl |-> row.impl]
         /\ row.phase \in {"IMPLEMENT", "REVIEW", "COMPLETE", "DONE"}
         /\ row.status \in {"READY", "RUNNING", "NEEDS_ATTENTION"}
         /\ row.iteration \in 0..MaxIterations /\ row.nudges \in Nat /\ row.impl \in 0..(MaxIterations + 1)
BY DEF Rows

LEMMA RowSet ==
  ASSUME NEW phase \in {"IMPLEMENT", "REVIEW", "COMPLETE", "DONE"},
         NEW status \in {"READY", "RUNNING", "NEEDS_ATTENTION"},
         NEW iteration \in 0..MaxIterations, NEW nudges \in Nat, NEW impl \in 0..(MaxIterations + 1),
         row' = [phase |-> phase, status |-> status, iteration |-> iteration,
                 nudges |-> nudges, impl |-> impl]
  PROVE  /\ row' \in Rows /\ row'.phase = phase /\ row'.status = status
         /\ row'.iteration = iteration
BY DEF Rows

\* A step that leaves the decision applied and the count of feedback alone keeps the
\* invariant if the row is one, of the same iteration, and no review begins on feedback.
LEMMA RouteMoves ==
  ASSUME RouteIInv, row' \in Rows, row'.iteration >= row.iteration, UNCHANGED <<routed, given>>,
         feedback' \in BOOLEAN, round' \in 0..MaxRounds, leftFile' \in Files,
         called' \in Decisions \union {"none", "other"},
         used' \in [requests : Nat, kills : Nat], used'.kills >= used.kills,
         FeedbackIsAnswered'
  PROVE  RouteIInv'
<1>1. row.iteration \in Nat /\ row'.iteration \in Nat /\ used.kills \in Nat /\ used'.kills \in Nat
  BY BoundsAreNumbers DEF RouteIInv, RouteTypes, Rows, Bounds
<1>2. FeedbackIsCounted'
  BY <1>1 DEF RouteIInv, RouteTypes, FeedbackIsCounted
<1>3. DecisionIsOfThisReview'
  BY DEF RouteIInv, DecisionIsOfThisReview
<1> QED  BY <1>2, <1>3 DEF RouteIInv, RouteTypes

LEMMA RowMoves ==
  ASSUME RouteIInv, row' \in Rows, row'.iteration >= row.iteration, row'.status # "RUNNING",
         UNCHANGED <<leftFile, called, routed, given>>,
         feedback' \in BOOLEAN, round' \in 0..MaxRounds,
         used' \in [requests : Nat, kills : Nat], used'.kills >= used.kills
  PROVE  RouteIInv'
<1>1. FeedbackIsAnswered'
  BY DEF FeedbackIsAnswered, Running
<1> QED  BY <1>1, RouteMoves DEF RouteIInv, RouteTypes

LEMMA LaunchStep ==
  ASSUME RouteIInv, Launch
  PROVE  RouteIInv'
<1>1. row \in Rows /\ used \in [requests : Nat, kills : Nat]
  BY DEF RouteIInv, RouteTypes
<1>2. UNCHANGED <<feedback, leftFile, round, routed, given, used>> /\ called' = "none"
  BY DEF Launch
<1>3. \/ row.phase = "REVIEW" /\ feedback /\ row' = [row EXCEPT !.phase = "IMPLEMENT"]
      \/ row.phase # "REVIEW" /\ row' = [row EXCEPT !.status = "RUNNING"]
      \/ ~feedback /\ row' = [row EXCEPT !.status = "RUNNING"]
      \/ row' = [row EXCEPT !.status = "NEEDS_ATTENTION"]
      \/ /\ row.phase = "IMPLEMENT" /\ ~(row.impl > MaxIterations)
         /\ row' = [row EXCEPT !.status = "RUNNING", !.impl = @ + 1]
  BY DEF Launch
<1>4. row.impl \in Nat /\ row.status = "READY"
  BY <1>1, BoundsAreNumbers DEF Rows, Bounds, Launch
<1>5. row' \in Rows /\ row'.iteration = row.iteration /\ row'.phase \in {row.phase, "IMPLEMENT"}
      /\ (row'.status # "RUNNING" \/ row'.phase # "REVIEW" \/ ~feedback)
  <2>1. CASE row' = [row EXCEPT !.phase = "IMPLEMENT"]
    BY <1>1, <1>4, <2>1 DEF Rows
  <2>2. CASE row.phase # "REVIEW" /\ row' = [row EXCEPT !.status = "RUNNING"]
    BY <1>1, <2>2 DEF Rows
  <2>3. CASE ~feedback /\ row' = [row EXCEPT !.status = "RUNNING"]
    BY <1>1, <2>3 DEF Rows
  <2>4. CASE row' = [row EXCEPT !.status = "NEEDS_ATTENTION"]
    BY <1>1, <2>4 DEF Rows
  <2>5. CASE /\ row.phase = "IMPLEMENT" /\ ~(row.impl > MaxIterations)
             /\ row' = [row EXCEPT !.status = "RUNNING", !.impl = @ + 1]
    <3>1. row.impl + 1 \in 0..(MaxIterations + 1)
      BY <1>4, <2>5, BoundsAreNumbers DEF Bounds
    <3>2. row' = [phase |-> row.phase, status |-> "RUNNING", iteration |-> row.iteration,
                  nudges |-> row.nudges, impl |-> row.impl + 1]
      BY <1>1, <2>5, RowFields
    <3> QED  BY <1>1, <2>5, <3>1, <3>2, RowFields, RowSet
  <2> QED  BY <1>3, <2>1, <2>2, <2>3, <2>4, <2>5
<1>6. FeedbackIsAnswered'
  BY <1>2, <1>5 DEF FeedbackIsAnswered, Running
<1>7. row.iteration \in Nat /\ used.kills \in Nat
  BY <1>1, BoundsAreNumbers DEF Rows, Bounds
<1> QED  BY <1>2, <1>5, <1>6, <1>7, RouteMoves DEF RouteIInv, RouteTypes

LEMMA RowSteps ==
  ASSUME RouteIInv, Implemented \/ Completed \/ OperatorResumes \/ RunFails \/ Killed \/ Nudged \/ Undecided
  PROVE  RouteIInv'
<1>1. row \in Rows /\ used \in [requests : Nat, kills : Nat] /\ round \in 0..MaxRounds /\ feedback \in BOOLEAN
  BY DEF RouteIInv, RouteTypes
<1>2. UNCHANGED <<leftFile, called, routed, given>>
  BY DEF Implemented, Completed, OperatorResumes, RunFails, Killed, Nudged, Undecided
<1>3. row.iteration \in Nat /\ row.nudges \in Nat /\ used.kills \in Nat /\ used.requests \in Nat
  BY <1>1, BoundsAreNumbers DEF Rows, Bounds
<1>4. \/ row' = [row EXCEPT !.phase = "REVIEW", !.status = "READY"]
      \/ row' = [row EXCEPT !.phase = "DONE"] /\ Running("COMPLETE")
      \/ row' = [row EXCEPT !.status = "READY"]
      \/ row' = [row EXCEPT !.status = "NEEDS_ATTENTION"]
      \/ row' = [row EXCEPT !.nudges = @ + 1, !.status = "READY"]
      \/ row' = [row EXCEPT !.nudges = @ + 1, !.status = "NEEDS_ATTENTION"]
  BY DEF Implemented, Completed, OperatorResumes, RunFails, Killed, Nudged, Undecided
<1>5. /\ row' \in Rows /\ row'.iteration = row.iteration
      /\ row'.status # "RUNNING" \/ row'.phase = "DONE"
  <2>1. CASE row' = [row EXCEPT !.phase = "REVIEW", !.status = "READY"]
    BY <1>1, <2>1 DEF Rows
  <2>2. CASE row' = [row EXCEPT !.phase = "DONE"] /\ Running("COMPLETE")
    BY <1>1, <2>2 DEF Rows
  <2>3. CASE row' = [row EXCEPT !.status = "READY"]
    BY <1>1, <2>3 DEF Rows
  <2>4. CASE row' = [row EXCEPT !.status = "NEEDS_ATTENTION"]
    BY <1>1, <2>4 DEF Rows
  <2>5. ASSUME NEW status \in {"READY", "NEEDS_ATTENTION"},
               row' = [row EXCEPT !.nudges = @ + 1, !.status = status]
        PROVE  <1>5!1 /\ <1>5!2
    <3>1. row' = [phase |-> row.phase, status |-> status, iteration |-> row.iteration,
                  nudges |-> row.nudges + 1, impl |-> row.impl]
      BY <1>1, <2>5, RowFields
    <3>2. row.nudges + 1 \in Nat
      BY <1>3
    <3> QED  BY <1>1, <3>1, <3>2, RowFields, RowSet
  <2> QED  BY <1>4, <2>1, <2>2, <2>3, <2>4, <2>5
<1>6. feedback' \in BOOLEAN
  BY <1>1 DEF Implemented, Completed, OperatorResumes, RunFails, Killed, Nudged, Undecided
<1>7. round' \in 0..MaxRounds
  <2>1. round' = round \/ (round < MaxRounds /\ round' = round + 1)
    <3>1. CASE Implemented
      BY <3>1 DEF Implemented
    <3>2. CASE Completed
      BY <3>2 DEF Completed
    <3>3. CASE OperatorResumes \/ RunFails \/ Killed \/ Nudged \/ Undecided
      BY <3>3 DEF OperatorResumes, RunFails, Killed, Nudged, Undecided
    <3> QED  BY <3>1, <3>2, <3>3
  <2> QED  BY <1>1, <2>1, BoundsAreNumbers DEF Bounds
<1>8. used' \in [requests : Nat, kills : Nat] /\ used'.kills >= used.kills
  <2>1. CASE used' = used
    BY <1>1, <1>3, <2>1
  <2>2. CASE used' = [used EXCEPT !.requests = @ + 1]
    BY <1>1, <1>3, <2>2
  <2>3. CASE used' = [used EXCEPT !.kills = @ + 1]
    BY <1>1, <1>3, <2>3
  <2> QED  BY <2>1, <2>2, <2>3 DEF Implemented, Completed, OperatorResumes, RunFails, Killed, Nudged, Undecided
<1>9. FeedbackIsAnswered'
  BY <1>5 DEF FeedbackIsAnswered, Running
<1> QED  BY <1>2, <1>3, <1>5, <1>6, <1>7, <1>8, <1>9, RouteMoves DEF RouteIInv, RouteTypes

LEMMA ReviewerSteps ==
  ASSUME RouteIInv, SubmitDecision \/ LeaveFile
  PROVE  RouteIInv'
<1>1. UNCHANGED <<row, feedback, round, routed, given, used>>
  BY DEF SubmitDecision, LeaveFile
<1>2. called' \in Decisions \union {"none", "other"}
  BY DEF SubmitDecision, LeaveFile, RouteIInv, RouteTypes
<1>3. leftFile' \in Files
  BY DEF SubmitDecision, LeaveFile, RouteIInv, RouteTypes, Files
<1> QED
  BY <1>1, <1>2, <1>3
     DEF RouteIInv, RouteTypes, DecisionIsOfThisReview, FeedbackIsAnswered, FeedbackIsCounted, Running

\* A decision is the tool's, of this review, or after the last nudge the file's.
LEMMA ResultIsMeant ==
  ASSUME RouteIInv, NEW r \in ReviewResult
  PROVE  /\ r.at = round /\ r.nudged \in Nat
         /\ r.of # r.at => r.by = "file" /\ r.nudged >= MaxNudges
<1>1. row.nudges \in Nat /\ MaxNudges \in Nat
  BY BoundsAreNumbers DEF RouteIInv, RouteTypes, Rows, Bounds
<1>2. CASE r \in FromTool
  BY <1>1, <1>2 DEF FromTool, Said
<1>3. CASE r \in FromFile /\ ~MayBeNudged
  <2>1. r = Said(leftFile.decision, leftFile.round, "file", row.nudges + 1)
    BY <1>3 DEF FromFile
  <2>2. r.at = round /\ r.by = "file" /\ r.nudged = row.nudges + 1
    BY <2>1 DEF Said
  <2> QED  BY <1>1, <1>3, <2>2 DEF MayBeNudged
<1> QED  BY <1>2, <1>3 DEF ReviewResult, FromLog

LEMMA ApplyStep ==
  ASSUME RouteIInv, ApplyDecision
  PROVE  RouteIInv'
<1>1. /\ row \in Rows /\ used \in [requests : Nat, kills : Nat] /\ feedback \in BOOLEAN /\ given \in Nat
      /\ round \in 0..MaxRounds
  BY DEF RouteIInv, RouteTypes
<1>2. PICK r \in ReviewResult :
        /\ routed' = r
        /\ IF r.decision = "FEEDBACK" /\ MayFeedBack
           THEN \/ WriteFeedback(FeedBack, 0)
                \/ used.kills < MaxReviewKills /\ WriteFeedback([row EXCEPT !.status = "READY"], 1)
           ELSE /\ row' = CASE r.decision = "APPROVE"  -> Approve
                             [] r.decision = "ESCALATE" -> Escalate
                             [] OTHER                   -> TooManyReviews(r)
                /\ UNCHANGED <<feedback, given, used>>
        /\ UNCHANGED <<leftFile, called, round>>
  BY DEF ApplyDecision
<1>3. row.iteration \in Nat /\ row.nudges \in Nat /\ used.kills \in Nat /\ given <= row.iteration + used.kills
  BY <1>1, BoundsAreNumbers DEF Rows, Bounds, RouteIInv, FeedbackIsCounted
<1>4. DecisionIsOfThisReview'
  BY <1>2, ResultIsMeant DEF DecisionIsOfThisReview
<1>5. r.nudged \in Nat
  BY ResultIsMeant
<1>6. ASSUME NEW k \in {0, 1}, used' = [used EXCEPT !.kills = @ + k]
      PROVE  used' \in [requests : Nat, kills : Nat] /\ used'.kills = used.kills + k
  BY <1>1, <1>3, <1>6
<1>7. CASE WriteFeedback(FeedBack, 0) /\ MayFeedBack
  <2>1. row' = [phase |-> "IMPLEMENT", status |-> "READY", iteration |-> row.iteration + 1,
                nudges |-> 0, impl |-> row.impl]
    BY <1>1, <1>7, RowFields DEF WriteFeedback, FeedBack
  <2>2. row.iteration + 1 \in 0..MaxIterations
    BY <1>3, <1>7, BoundsAreNumbers DEF MayFeedBack, Bounds
  <2>3. row' \in Rows /\ row'.status = "READY" /\ row'.iteration = row.iteration + 1
    BY <1>1, <2>1, <2>2, RowFields, RowSet
  <2>4. /\ feedback' = TRUE /\ given' = given + 1
        /\ used' \in [requests : Nat, kills : Nat] /\ used'.kills = used.kills + 0
    BY <1>6, <1>7 DEF WriteFeedback
  <2>5. FeedbackIsCounted'
    BY <1>1, <1>3, <2>3, <2>4 DEF FeedbackIsCounted
  <2>6. FeedbackIsAnswered'
    BY <2>3 DEF FeedbackIsAnswered, Running
  <2> QED  BY <1>1, <1>2, <1>4, <2>3, <2>4, <2>5, <2>6 DEF RouteIInv, RouteTypes
<1>8. CASE WriteFeedback([row EXCEPT !.status = "READY"], 1)
  <2>1. row' \in Rows /\ row'.status = "READY" /\ row'.iteration = row.iteration
    BY <1>1, <1>8 DEF WriteFeedback, Rows
  <2>2. /\ feedback' = TRUE /\ given' = given + 1
        /\ used' \in [requests : Nat, kills : Nat] /\ used'.kills = used.kills + 1
    BY <1>6, <1>8 DEF WriteFeedback
  <2>3. FeedbackIsCounted'
    BY <1>1, <1>3, <2>1, <2>2 DEF FeedbackIsCounted
  <2>4. FeedbackIsAnswered'
    BY <2>1 DEF FeedbackIsAnswered, Running
  <2> QED  BY <1>1, <1>2, <1>4, <2>1, <2>2, <2>3, <2>4 DEF RouteIInv, RouteTypes
<1>9. CASE UNCHANGED <<feedback, given, used>> /\ row' \in {Approve, Escalate, TooManyReviews(r)}
  <2>1. row' \in Rows /\ row'.status # "RUNNING" /\ row'.iteration = row.iteration
    <3>1. CASE row' = Approve
      <4>1. row' = [phase |-> "COMPLETE", status |-> "READY", iteration |-> row.iteration,
                    nudges |-> 0, impl |-> 0]
        BY <1>1, <3>1, RowFields DEF Approve
      <4>2. 0 \in 0..(MaxIterations + 1)
        BY BoundsAreNumbers DEF Bounds
      <4> QED  BY <1>1, <4>1, <4>2, RowFields, RowSet
    <3>2. CASE row' = Escalate
      <4>1. row' = [phase |-> row.phase, status |-> "NEEDS_ATTENTION", iteration |-> row.iteration,
                    nudges |-> 0, impl |-> row.impl]
        BY <1>1, <3>2, RowFields DEF Escalate
      <4> QED  BY <1>1, <4>1, RowFields, RowSet
    <3>3. CASE row' = TooManyReviews(r)
      <4> DEFINE n == IF r.by = "tool" THEN 0 ELSE r.nudged
      <4>1. row' = [phase |-> row.phase, status |-> "NEEDS_ATTENTION", iteration |-> row.iteration,
                    nudges |-> n, impl |-> row.impl]
        BY <1>1, <3>3, RowFields DEF TooManyReviews
      <4>2. n \in Nat
        BY <1>5
      <4> QED  BY <1>1, <4>1, <4>2, RowFields, RowSet
    <3> QED  BY <1>9, <3>1, <3>2, <3>3
  <2>2. FeedbackIsAnswered' /\ FeedbackIsCounted'
    BY <1>3, <1>9, <2>1 DEF FeedbackIsAnswered, FeedbackIsCounted, Running
  <2> QED  BY <1>1, <1>2, <1>4, <1>9, <2>1, <2>2 DEF RouteIInv, RouteTypes
<1> QED
  <2>1. CASE r.decision = "FEEDBACK" /\ MayFeedBack
    BY <1>2, <1>7, <1>8, <2>1
  <2>2. CASE ~(r.decision = "FEEDBACK" /\ MayFeedBack)
    BY <1>2, <1>9, <2>2
  <2> QED  BY <2>1, <2>2

LEMMA RouteIInvStep ==
  ASSUME RouteIInv, RouteNext
  PROVE  RouteIInv'
BY LaunchStep, RowSteps, ReviewerSteps, ApplyStep DEF RouteNext

LEMMA RouteUnchanged ==
  ASSUME RouteIInv, UNCHANGED routeVars
  PROVE  RouteIInv'
BY DEF RouteIInv, RouteTypes, DecisionIsOfThisReview, FeedbackIsAnswered, FeedbackIsCounted, Running, routeVars

LEMMA RouteIInvInit ==
  ASSUME RouteInit
  PROVE  RouteIInv
<1>1. row \in Rows
  BY BoundsAreNumbers DEF RouteInit, Rows, Bounds
<1>2. leftFile \in Files /\ round \in 0..MaxRounds /\ used \in [requests : Nat, kills : Nat]
  BY BoundsAreNumbers DEF RouteInit, Files, NoFile, Bounds
<1>3. FeedbackIsCounted
  BY DEF RouteInit, FeedbackIsCounted
<1> QED  BY <1>1, <1>2, <1>3 DEF RouteInit, RouteIInv, RouteTypes, DecisionIsOfThisReview, FeedbackIsAnswered

-----------------------------------------------------------------------------
(* The decision records.                                                   *)

Records == [decision : Decisions \union {"null", "other", "absent"},
            mark : {"null", "good", "bad", "feedback", "spaces"}]

RecordTypes ==
  /\ records \in [Iterations -> Records] /\ meant \in [Iterations -> Records]
  /\ overlapped \subseteq Iterations
  /\ marking \in [1..MaxMarks -> [at : Iterations \union {0}, read : Records]]

\* A record that is not there has never been written, and one that is there was not lost.
NeverLost == \A n \in Iterations :
  /\ records[n] = NoRecord => meant[n] = Unfilled
  /\ records[n].decision = "absent" => records[n] = NoRecord

AsMeant == \A n \in Iterations : records[n] # NoRecord /\ n \notin overlapped => records[n] = meant[n]

\* What a command read still is the reviewer's decision, unless the reviewer wrote since.
ReadIsCurrent == \A k \in 1..MaxMarks : LET n == marking[k].at IN
  n # 0 => /\ records[n] # NoRecord
           /\ marking[k].read.decision \in Decisions \union {"null"}
           /\ n \notin overlapped => marking[k].read.decision = records[n].decision

RecordIInv == RecordTypes /\ NeverLost /\ AsMeant /\ ReadIsCurrent

LEMMA RecordsAsWritten ==
  ASSUME RecordIInv
  PROVE  RecordsSayWhatWasWritten
BY DEF RecordIInv, AsMeant, RecordsSayWhatWasWritten, Pending, Curated, IsDecisionFile, DecisionFiles

LEMMA CreateStep ==
  ASSUME RecordIInv, NEW n \in Iterations, CreateRecord(n)
  PROVE  RecordIInv'
<1>1. /\ records[n] = NoRecord /\ records' = [records EXCEPT ![n] = Unfilled]
      /\ UNCHANGED <<meant, overlapped, marking>>
  BY DEF CreateRecord, DecisionFiles
<1>2. RecordTypes
  BY DEF RecordIInv
<1>3. Unfilled \in Records /\ Unfilled # NoRecord /\ Unfilled.decision = "null"
  BY DEF Unfilled, NoRecord, Records
<1>4. records'[n] = Unfilled /\ \A x \in Iterations \ {n} : records'[x] = records[x]
  BY <1>1, <1>2 DEF RecordTypes
<1>5. RecordTypes'
  BY <1>1, <1>2, <1>3 DEF RecordTypes
<1>6. meant[n] = Unfilled
  BY <1>1 DEF RecordIInv, NeverLost
<1>7. NeverLost' /\ AsMeant'
  BY <1>1, <1>3, <1>4, <1>6 DEF RecordIInv, NeverLost, AsMeant
<1>8. ReadIsCurrent'
  <2> SUFFICES ASSUME NEW k \in 1..MaxMarks, marking[k].at # 0
               PROVE  /\ records'[marking[k].at] # NoRecord
                      /\ marking[k].read.decision \in Decisions \union {"null"}
                      /\ marking[k].at \notin overlapped =>
                           marking[k].read.decision = records'[marking[k].at].decision
    BY <1>1 DEF ReadIsCurrent
  <2>1. marking[k].at # n /\ marking[k].at \in Iterations
    BY <1>1, <1>2 DEF RecordIInv, ReadIsCurrent, RecordTypes
  <2> QED  BY <1>4, <2>1 DEF RecordIInv, ReadIsCurrent
<1> QED  BY <1>5, <1>7, <1>8 DEF RecordIInv

LEMMA FillStep ==
  ASSUME RecordIInv, NEW n \in Iterations, FillRecord(n)
  PROVE  RecordIInv'
<1>1. PICK d \in Decisions \union {"other"} :
        /\ records' = [records EXCEPT ![n].decision = d]
        /\ meant' = [meant EXCEPT ![n].decision = d]
  BY DEF FillRecord
<1>2. /\ records[n] # NoRecord /\ marking' = marking
      /\ overlapped' = IF MarksOf(n) = {} THEN overlapped ELSE overlapped \union {n}
  BY DEF FillRecord, DecisionFiles
<1>3. RecordTypes
  BY DEF RecordIInv
<1>4. records[n] \in Records /\ meant[n] \in Records
  BY <1>3 DEF RecordTypes
<1>5. /\ records' \in [Iterations -> Records] /\ meant' \in [Iterations -> Records]
      /\ records'[n] = [decision |-> d, mark |-> records[n].mark]
      /\ meant'[n] = [decision |-> d, mark |-> meant[n].mark]
      /\ \A x \in Iterations \ {n} : records'[x] = records[x] /\ meant'[x] = meant[x]
  <2>1. /\ [records[n] EXCEPT !.decision = d] = [decision |-> d, mark |-> records[n].mark]
        /\ [meant[n] EXCEPT !.decision = d] = [decision |-> d, mark |-> meant[n].mark]
        /\ [records[n] EXCEPT !.decision = d] \in Records /\ [meant[n] EXCEPT !.decision = d] \in Records
    BY <1>4 DEF Records
  <2>2. /\ records' = [records EXCEPT ![n] = [records[n] EXCEPT !.decision = d]]
        /\ meant' = [meant EXCEPT ![n] = [meant[n] EXCEPT !.decision = d]]
    BY <1>1
  <2> QED  BY <1>3, <2>1, <2>2 DEF RecordTypes
<1>6. records'[n].decision = d /\ d # "absent" /\ records'[n] # NoRecord
  BY <1>5 DEF NoRecord, Decisions
<1>7. RecordTypes'
  BY <1>2, <1>3, <1>5 DEF RecordTypes
<1>8. NeverLost'
  BY <1>5, <1>6 DEF RecordIInv, NeverLost
<1>9. overlapped \subseteq overlapped'
  BY <1>2
<1>10. AsMeant'
  BY <1>2, <1>5, <1>9 DEF RecordIInv, AsMeant
<1>11. ReadIsCurrent'
  <2> SUFFICES ASSUME NEW k \in 1..MaxMarks, marking[k].at # 0
               PROVE  /\ records'[marking[k].at] # NoRecord
                      /\ marking[k].read.decision \in Decisions \union {"null"}
                      /\ marking[k].at \notin overlapped' =>
                           marking[k].read.decision = records'[marking[k].at].decision
    BY <1>2 DEF ReadIsCurrent
  <2>1. marking[k].at \in Iterations
    BY <1>3 DEF RecordTypes, RecordIInv
  <2>2. /\ records[marking[k].at] # NoRecord
        /\ marking[k].read.decision \in Decisions \union {"null"}
        /\ marking[k].at \notin overlapped => marking[k].read.decision = records[marking[k].at].decision
    BY DEF RecordIInv, ReadIsCurrent
  <2>3. CASE marking[k].at = n
    <3>1. n \in overlapped'
      BY <1>2, <2>3 DEF MarksOf
    <3> QED  BY <1>6, <2>2, <2>3, <3>1
  <2>4. CASE marking[k].at # n
    BY <1>5, <1>9, <2>1, <2>2, <2>4
  <2> QED  BY <2>3, <2>4
<1> QED  BY <1>7, <1>8, <1>10, <1>11 DEF RecordIInv

LEMMA StartMarkStep ==
  ASSUME RecordIInv, NEW k \in 1..MaxMarks, NEW n \in Iterations, StartMark(k, n)
  PROVE  RecordIInv'
<1>1. /\ records[n] # NoRecord /\ records[n].decision \in Decisions \union {"null"}
      /\ marking' = [marking EXCEPT ![k] = [at |-> n, read |-> records[n]]]
      /\ UNCHANGED <<records, meant, overlapped>>
  BY DEF StartMark, IsDecisionFile, DecisionFiles, Readable
<1>2. RecordTypes
  BY DEF RecordIInv
<1>3. [at |-> n, read |-> records[n]] \in [at : Iterations \union {0}, read : Records]
  BY <1>2 DEF RecordTypes
<1>4. RecordTypes'
  BY <1>1, <1>2, <1>3 DEF RecordTypes
<1>5. marking'[k].at = n /\ marking'[k].read = records[n] /\ \A j \in (1..MaxMarks) \ {k} : marking'[j] = marking[j]
  BY <1>1, <1>2 DEF RecordTypes
<1>6. ReadIsCurrent'
  BY <1>1, <1>5 DEF RecordIInv, ReadIsCurrent
<1> QED  BY <1>1, <1>4, <1>6 DEF RecordIInv, NeverLost, AsMeant

LEMMA WriteMarkStep ==
  ASSUME RecordIInv, NEW k \in 1..MaxMarks, WriteMark(k)
  PROVE  RecordIInv'
<1> DEFINE n == marking[k].at
           read == marking[k].read
<1>1. PICK m \in {"good", "bad", "feedback", "spaces"} :
        /\ records' = [records EXCEPT ![n] = [read EXCEPT !.mark = m]]
        /\ meant' = [meant EXCEPT ![n].mark = m]
  BY DEF WriteMark
<1>2. n # 0 /\ marking' = [marking EXCEPT ![k] = Marked] /\ overlapped' = overlapped
  BY DEF WriteMark
<1>3. RecordTypes
  BY DEF RecordIInv
<1>4. n \in Iterations /\ read \in Records /\ records[n] \in Records /\ meant[n] \in Records
  BY <1>2, <1>3 DEF RecordTypes
<1>5. /\ records[n] # NoRecord /\ read.decision \in Decisions \union {"null"}
      /\ n \notin overlapped => read.decision = records[n].decision
  BY <1>2 DEF RecordIInv, ReadIsCurrent
<1> HIDE DEF n, read
<1>6. /\ [read EXCEPT !.mark = m] = [decision |-> read.decision, mark |-> m]
      /\ [meant[n] EXCEPT !.mark = m] = [decision |-> meant[n].decision, mark |-> m]
      /\ [read EXCEPT !.mark = m] \in Records /\ [meant[n] EXCEPT !.mark = m] \in Records
  BY <1>4 DEF Records
<1>7. meant' = [meant EXCEPT ![n] = [meant[n] EXCEPT !.mark = m]]
  BY <1>1
<1>8. /\ records' \in [Iterations -> Records] /\ meant' \in [Iterations -> Records]
      /\ records'[n] = [decision |-> read.decision, mark |-> m]
      /\ meant'[n] = [decision |-> meant[n].decision, mark |-> m]
      /\ \A x \in Iterations \ {n} : records'[x] = records[x] /\ meant'[x] = meant[x]
  BY <1>1, <1>3, <1>4, <1>6, <1>7 DEF RecordTypes
<1>9. /\ marking' \in [1..MaxMarks -> [at : Iterations \union {0}, read : Records]]
      /\ marking'[k].at = 0 /\ \A j \in (1..MaxMarks) \ {k} : marking'[j] = marking[j]
  <2>1. Marked \in [at : Iterations \union {0}, read : Records] /\ Marked.at = 0
    BY DEF Marked, Unfilled, Records
  <2> QED  BY <1>2, <1>3, <2>1 DEF RecordTypes
<1>10. records'[n].decision = read.decision /\ read.decision # "absent" /\ records'[n] # NoRecord
  BY <1>5, <1>8 DEF NoRecord, Decisions
<1>11. RecordTypes'
  BY <1>2, <1>3, <1>8, <1>9 DEF RecordTypes
<1>12. NeverLost'
  BY <1>8, <1>10 DEF RecordIInv, NeverLost
<1>13. AsMeant'
  <2>1. n \notin overlapped => read.decision = meant[n].decision
    BY <1>4, <1>5 DEF RecordIInv, AsMeant
  <2> QED  BY <1>2, <1>8, <2>1 DEF RecordIInv, AsMeant
<1>14. ReadIsCurrent'
  <2> SUFFICES ASSUME NEW j \in (1..MaxMarks) \ {k}, marking[j].at # 0
               PROVE  /\ records'[marking[j].at] # NoRecord
                      /\ marking[j].read.decision \in Decisions \union {"null"}
                      /\ marking[j].at \notin overlapped =>
                           marking[j].read.decision = records'[marking[j].at].decision
    BY <1>2, <1>9 DEF ReadIsCurrent
  <2>1. marking[j].at \in Iterations
    BY <1>3 DEF RecordTypes
  <2>2. /\ records[marking[j].at] # NoRecord
        /\ marking[j].read.decision \in Decisions \union {"null"}
        /\ marking[j].at \notin overlapped => marking[j].read.decision = records[marking[j].at].decision
    BY DEF RecordIInv, ReadIsCurrent
  <2>3. CASE marking[j].at = n
    BY <1>5, <1>10, <2>2, <2>3
  <2>4. CASE marking[j].at # n
    BY <1>8, <2>1, <2>2, <2>4
  <2> QED  BY <2>3, <2>4
<1> QED  BY <1>11, <1>12, <1>13, <1>14 DEF RecordIInv

LEMMA RecordIInvStep ==
  ASSUME RecordIInv, RecordNext
  PROVE  RecordIInv'
BY CreateStep, FillStep, StartMarkStep, WriteMarkStep DEF RecordNext

LEMMA RecordUnchanged ==
  ASSUME RecordIInv, UNCHANGED recordVars
  PROVE  RecordIInv'
BY DEF RecordIInv, RecordTypes, NeverLost, AsMeant, ReadIsCurrent, recordVars

LEMMA RecordIInvInit ==
  ASSUME RecordInit
  PROVE  RecordIInv
<1>1. NoRecord \in Records /\ Unfilled \in Records /\ NoRecord # Unfilled
  BY DEF NoRecord, Unfilled, Records
<1>2. RecordTypes
  BY <1>1 DEF RecordInit, RecordTypes, NotYet
<1>3. NeverLost /\ AsMeant
  BY DEF RecordInit, NeverLost, AsMeant
<1>4. ReadIsCurrent
  BY DEF RecordInit, ReadIsCurrent, NotYet
<1> QED  BY <1>2, <1>3, <1>4 DEF RecordIInv

-----------------------------------------------------------------------------
(* What is left of a unit's runs.                                          *)

LeftIInv == LogIInv /\ RouteIInv /\ RecordIInv

\* What is left of a unit's runs is read as it was meant: the dashboard shows every line
\* of a file up to where it is; the decision applied is of this review but for one left
\* in a file after the last nudge; no review begins on feedback that was not answered,
\* and feedback is counted; a decision record says what was last written in it but for
\* a write between an operator's read and write.
THEOREM LeftCorrect == LeftSpec => []LeftInv
<1>1. LeftInit => LeftIInv
  BY LogBounds, LogIInvInit, RouteIInvInit, RecordIInvInit DEF LeftInit, LeftIInv
<1>2. LeftIInv /\ [LogStep \/ ReviewStep \/ RecordStep]_leftVars => LeftIInv'
  <2> SUFFICES ASSUME LeftIInv, [LogStep \/ ReviewStep \/ RecordStep]_leftVars PROVE LeftIInv'
    OBVIOUS
  <2>1. CASE LogStep
    BY <2>1, LogBounds, LogIInvStep, RouteUnchanged, RecordUnchanged
       DEF LeftIInv, LogStep, reviewVars
  <2>2. CASE ReviewStep
    BY <2>2, LogUnchanged, RouteIInvStep, RecordUnchanged DEF LeftIInv, ReviewStep
  <2>3. CASE RecordStep
    BY <2>3, LogUnchanged, RouteUnchanged, RecordIInvStep DEF LeftIInv, RecordStep
  <2>4. CASE UNCHANGED leftVars
    BY <2>4, LogUnchanged, RouteUnchanged, RecordUnchanged DEF LeftIInv, leftVars, reviewVars
  <2> QED  BY <2>1, <2>2, <2>3, <2>4
<1>3. LeftIInv => LeftInv
  <2> SUFFICES ASSUME LeftIInv PROVE LeftInv
    OBVIOUS
  <2>1. LogInv /\ RecordsSayWhatWasWritten
    BY RecordsAsWritten DEF LeftIInv, LogIInv
  <2>2. ReviewTypeOK
    BY DEF LeftIInv, RouteIInv, RouteTypes, ReviewTypeOK, Rows, Files, RecordIInv, RecordTypes
  <2> QED  BY <2>1, <2>2 DEF LeftIInv, LeftInv, ReviewInv, RouteIInv
<1> QED  BY <1>1, <1>2, <1>3, PTL DEF LeftSpec
=============================================================================
