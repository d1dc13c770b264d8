-------------------------------- MODULE SwarmDO --------------------------------
(***************************************************************************)
(* The hosted message board: one durable object per swarm. A handler runs  *)
(* without interruption, except that requests about keys await the KV      *)
(* store: other requests, about the same key too, run meanwhile. Between   *)
(* handlers the object may hibernate: its fields are gone, its database,   *)
(* its sockets and what was attached to them stay. A blocked watch is      *)
(* therefore kept twice, in `watchers' and in the socket's attachment.     *)
(* Long polls of the HTTP gateway are kept in memory only, and an open     *)
(* request keeps the object awake.                                         *)
(***************************************************************************)
EXTENDS Integers, FiniteSets, FiniteSetsExt

CONSTANTS
  Channels, Sockets, Polls, Tokens,
  Requests,     \* requests about keys that may be open at a time
  MaxPosition,  \* bound on the messages of a channel
  MaxDeletes,   \* bound on channel deletions
  MaxDeaths,    \* bound on clients that vanish without closing
  MaxFaults     \* bound on KV writes that throw and restarts of the object

ASSUME SwarmBounds == {MaxPosition, MaxDeletes, MaxDeaths, MaxFaults} \subseteq Nat

VARIABLES
  messages,  \* [Channels -> SUBSET positions], the rows of the database
  keys,      \* the gateway keys that are stored, a subset of Tokens
  index,     \* the tokens that the worker's KV store maps to this swarm
  watchers,  \* set of [s, ch, cursor], in memory
  att,       \* [Sockets -> [Channels -> cursor or None]], attachments
  socket,    \* [Sockets -> "closed" | "open" | "dead"]; dead: nobody is behind it
  polls,     \* set of [id, ch, cursor], pending in memory
  pending,   \* requests with KV writes to do: set of [id, op, tokens]
  torn,      \* history: tokens of which the last KV write overlapped another or was lost
  wants,     \* [Sockets -> [Channels -> cursor or None]]: watches not answered yet
  got,       \* [Sockets -> [Channels -> Nat]]: the cursor each client has reached
  last,      \* [Channels -> Nat]: the last position given since the channel is new
  spent      \* [deletes, deaths, faults]

memory == <<watchers, polls>>
gateway == <<keys, index, pending, torn>>
clients == <<wants, got>>
vars == <<messages, gateway, memory, att, socket, clients, last, spent>>

None == -1
After(ch, c) == {q \in messages[ch] : q > c}
NoWatch == [ch \in Channels |-> None]

\* SELECT MAX(position), 0 for an empty channel.
MaxRow(rows) == IF rows = {} THEN 0 ELSE Max(rows)

-----------------------------------------------------------------------------
(* wakeWatchers, after a message got position p; `fails' are the sends that throw. *)

\* Watchers in memory that the message is for.
InMemory(ch, p) == {w \in watchers : w.ch = ch /\ w.cursor < p}

\* Sockets whose attachment holds a watch that the message is for.
Attached(ch, p) == {s \in Sockets : socket[s] # "closed" /\ att[s][ch] \in 0 .. p - 1}

\* Whom the message goes to, with the cursor of the watch: the watchers in memory, and
\* the attachments when none of those could be reached.
Receivers(ch, p, fails) ==
  LET reached == {w \in InMemory(ch, p) : w.s \notin fails}
  IN  IF reached # {} THEN {[s |-> w.s, cursor |-> w.cursor] : w \in reached}
      ELSE {[s |-> s, cursor |-> att[s][ch]] : s \in Attached(ch, p) \ fails}

WakeWatchers(ch, p, fails) ==
  LET to == Receivers(ch, p, fails)
      rows == messages[ch] \cup {p}
      hit(s) == \E r \in to : r.s = s
      next(s) == Min({q \in rows : q > (CHOOSE r \in to : r.s = s).cursor})
      shown(s) == hit(s) /\ socket[s] = "open"
  IN  /\ watchers' = watchers \ InMemory(ch, p)
      /\ att' = [s \in Sockets |-> IF hit(s) THEN [att[s] EXCEPT ![ch] = None] ELSE att[s]]
      /\ got' = [s \in Sockets |-> IF shown(s) THEN [got[s] EXCEPT ![ch] = next(s)] ELSE got[s]]
      /\ wants' = [s \in Sockets |-> IF shown(s) THEN [wants[s] EXCEPT ![ch] = None] ELSE wants[s]]

\* appendMessage: the next position is MAX + 1.
Stored(ch, p) == /\ p = MaxRow(messages[ch]) + 1 /\ p <= MaxPosition
                 /\ messages' = [messages EXCEPT ![ch] = @ \cup {p}]
                 /\ last' = [last EXCEPT ![ch] = p]

Dead == {s \in Sockets : socket[s] = "dead"}

\* A `send' frame of some socket: watchers are woken, long polls are not. When its sender is
\* gone the acknowledgement throws, and nobody is woken.
HandleSend(ch) ==
  /\ \E p \in 1 .. MaxPosition, fails \in SUBSET Dead :
       Stored(ch, p) /\ (WakeWatchers(ch, p, fails) \/ UNCHANGED <<watchers, att, clients>>)
  /\ UNCHANGED <<gateway, polls, socket, spent>>

\* A token of the gateway works while its key is stored.
Admitted(t) == t \in keys

\* Every long poll on the channel is answered.
Woken(ch) == polls' = {q \in polls : q.ch # ch}

\* POST and webhook of the gateway: watchers and long polls are woken.
GatewayPost(t, ch) ==
  /\ Admitted(t)
  /\ \E p \in 1 .. MaxPosition, fails \in SUBSET Dead :
       Stored(ch, p) /\ WakeWatchers(ch, p, fails)
  /\ Woken(ch)
  /\ UNCHANGED <<gateway, socket, spent>>

-----------------------------------------------------------------------------
(* Sockets. *)

\* Upgrade, challenge and handshake.
Connect(s) ==
  /\ socket[s] = "closed"
  /\ socket' = [socket EXCEPT ![s] = "open"]
  /\ att' = [att EXCEPT ![s] = NoWatch]
  /\ UNCHANGED <<messages, gateway, memory, clients, last, spent>>

\* The client asks for the message after its cursor; asked again, the same frame.
Ask(s, ch) == IF wants[s][ch] = None THEN got[s][ch] ELSE wants[s][ch]

\* Mutant: the watch is kept in memory only.
RegisterInMemory(s, ch, c) ==
  /\ watchers' = {w \in watchers : ~(w.s = s /\ w.ch = ch)}
                   \cup {[s |-> s, ch |-> ch, cursor |-> c]}
  /\ wants' = [wants EXCEPT ![s][ch] = c]
  /\ UNCHANGED <<att, got>>

\* A watch that has to wait replaces an older one of the same socket and channel.
Register(s, ch, c) ==
  /\ watchers' = {w \in watchers : ~(w.s = s /\ w.ch = ch)}
                   \cup {[s |-> s, ch |-> ch, cursor |-> c]}
  /\ att' = [att EXCEPT ![s][ch] = c]
  /\ wants' = [wants EXCEPT ![s][ch] = c]
  /\ got' = got

\* A watch that can be answered is, and leaves older registrations as they are.
Answer(s, ch, c) ==
  /\ wants' = [wants EXCEPT ![s][ch] = None]
  /\ got' = IF messages[ch] = {} \/ c + 1 < Min(messages[ch]) THEN got
            ELSE [got EXCEPT ![s][ch] = Min(After(ch, c))]
  /\ UNCHANGED <<watchers, att>>

\* Mutant: a re-sent watch frame finds its watch registered and is ignored.
WatchOnce(s, ch) ==
  /\ socket[s] = "open" /\ wants[s][ch] = None
  /\ LET c == Ask(s, ch)
     IN  IF messages[ch] = {} \/ c + 1 < Min(messages[ch]) \/ After(ch, c) # {}
         THEN Answer(s, ch, c) ELSE Register(s, ch, c)
  /\ UNCHANGED <<messages, gateway, polls, socket, last, spent>>

\* A watch frame: an error for an unknown channel or an expired cursor, the next
\* message, or a registration.
HandleWatch(s, ch) ==
  /\ socket[s] = "open"
  /\ LET c == Ask(s, ch)
     IN  IF messages[ch] = {} \/ c + 1 < Min(messages[ch]) \/ After(ch, c) # {}
         THEN Answer(s, ch, c) ELSE Register(s, ch, c)
  /\ UNCHANGED <<messages, gateway, polls, socket, last, spent>>

\* webSocketClose, webSocketError.
RemoveWatcher(s) ==
  /\ watchers' = {w \in watchers : w.s # s}
  /\ att' = [att EXCEPT ![s] = NoWatch]

Close(s) ==
  /\ socket[s] # "closed"
  /\ socket' = [socket EXCEPT ![s] = "closed"]
  /\ RemoveWatcher(s)
  /\ wants' = [wants EXCEPT ![s] = NoWatch]
  /\ UNCHANGED <<messages, gateway, polls, got, last, spent>>

\* The client is gone and the object does not know.
Die(s) ==
  /\ socket[s] = "open" /\ spent.deaths < MaxDeaths
  /\ spent' = [spent EXCEPT !.deaths = @ + 1]
  /\ socket' = [socket EXCEPT ![s] = "dead"]
  /\ wants' = [wants EXCEPT ![s] = NoWatch]
  /\ UNCHANGED <<messages, gateway, memory, att, got, last>>

\* The object is evicted while nothing keeps it busy.
Hibernate ==
  /\ watchers # {} /\ polls = {} /\ pending = {}
  /\ watchers' = {}
  /\ UNCHANGED <<messages, gateway, polls, att, socket, clients, last, spent>>

-----------------------------------------------------------------------------
(* Channels. *)

\* Mutant: the newest message goes with the others when all are old.
CompactAll(ch) ==
  /\ \E k \in messages[ch] : messages' = [messages EXCEPT ![ch] = {q \in @ : q > k}]
  /\ UNCHANGED <<gateway, memory, att, socket, clients, last, spent>>

\* alarm: old messages go, the newest of the channel stays.
Compact(ch) ==
  /\ \E k \in messages[ch] \ {MaxRow(messages[ch])} :
       messages' = [messages EXCEPT ![ch] = {q \in @ : q > k}]
  /\ UNCHANGED <<gateway, memory, att, socket, clients, last, spent>>

\* The rows go, watchers in memory are told, pending polls get an error; what
\* attachments hold stays.
HandleDeleteChannel(ch) ==
  /\ messages[ch] # {} /\ spent.deletes < MaxDeletes
  /\ spent' = [spent EXCEPT !.deletes = @ + 1]
  /\ messages' = [messages EXCEPT ![ch] = {}]
  /\ last' = [last EXCEPT ![ch] = 0]
  /\ LET told(s) == \E w \in watchers : w.s = s /\ w.ch = ch
     IN  wants' = [s \in Sockets |-> IF told(s) THEN [wants[s] EXCEPT ![ch] = None]
                                     ELSE wants[s]]
  /\ watchers' = {w \in watchers : w.ch # ch}
  /\ polls' = {q \in polls : q.ch # ch}
  /\ UNCHANGED <<gateway, att, socket, got>>

-----------------------------------------------------------------------------
(* The HTTP gateway. *)

\* GET with wait: an answer at once when there are messages, else a pending poll.
GatewayWait(t, id, ch) ==
  /\ Admitted(t) /\ \A q \in polls : q.id # id
  /\ \E c \in 0 .. MaxPosition :
       /\ After(ch, c) = {}
       /\ polls' = polls \cup {[id |-> id, ch |-> ch, cursor |-> c]}
  /\ UNCHANGED <<messages, gateway, watchers, att, socket, clients, last, spent>>

PollTimesOut(q) ==
  /\ polls' = polls \ {q}
  /\ UNCHANGED <<messages, gateway, watchers, att, socket, clients, last, spent>>

\* Some request has a KV write of the token to do.
Busy(t) == \E w \in pending : t \in w.tokens

\* A handler has changed the database and goes on with the KV writes of `ts'.
Opens(r, op, ts) ==
  /\ \A w \in pending : w.id # r
  /\ pending' = pending \cup {[id |-> r, op |-> op, tokens |-> ts]}
  /\ torn' = (torn \ ts) \cup {t \in ts : Busy(t)}

\* PUT and DELETE of a key change the database and then wait for the KV store.
PutKey(r, t) ==
  /\ keys' = keys \cup {t}
  /\ Opens(r, "put", {t})
  /\ UNCHANGED <<messages, index, memory, att, socket, clients, last, spent>>

DeleteKey(r, t) ==
  /\ t \in keys
  /\ keys' = keys \ {t}
  /\ Opens(r, "delete", {t})
  /\ UNCHANGED <<messages, index, memory, att, socket, clients, last, spent>>

\* Mutant: the keys are listed after they were deleted.
DeleteAllUnlisted(r) ==
  /\ keys # {} /\ keys' = {}
  /\ UNCHANGED <<messages, index, pending, torn, memory, att, socket, clients, last, spent>>

\* The keys are listed and deleted in one statement, then their index entries one by one.
DeleteAllKeys(r) ==
  /\ keys # {} /\ keys' = {}
  /\ Opens(r, "delete", keys)
  /\ UNCHANGED <<messages, index, memory, att, socket, clients, last, spent>>

\* The KV store answers; the request goes on with its next token, or ends.
IndexWritten(w, t) ==
  /\ index' = IF w.op = "put" THEN index \cup {t} ELSE index \ {t}
  /\ pending' = (pending \ {w}) \cup
                   (IF w.tokens = {t} THEN {} ELSE {[w EXCEPT !.tokens = @ \ {t}]})
  /\ UNCHANGED <<messages, keys, torn, memory, att, socket, clients, last, spent>>

\* The KV store throws: the request ends with what it had left to write.
IndexFails(w) ==
  /\ spent.faults < MaxFaults
  /\ spent' = [spent EXCEPT !.faults = @ + 1]
  /\ pending' = pending \ {w}
  /\ torn' = torn \cup w.tokens
  /\ UNCHANGED <<messages, keys, index, memory, att, socket, clients, last>>

\* The object is restarted: requests, long polls and sockets end with it.
Restart ==
  /\ pending # {} \/ polls # {} \/ \E s \in Sockets : socket[s] # "closed"
  /\ spent.faults < MaxFaults
  /\ spent' = [spent EXCEPT !.faults = @ + 1]
  /\ watchers' = {} /\ polls' = {} /\ pending' = {}
  /\ torn' = torn \cup {t \in Tokens : Busy(t)}
  /\ socket' = [s \in Sockets |-> "closed"]
  /\ att' = [s \in Sockets |-> NoWatch]
  /\ wants' = [s \in Sockets |-> NoWatch]
  /\ UNCHANGED <<messages, keys, index, got, last>>

-----------------------------------------------------------------------------
Init ==
  /\ messages = [ch \in Channels |-> {}]
  /\ keys = {} /\ index = {} /\ pending = {} /\ torn = {}
  /\ watchers = {} /\ polls = {}
  /\ att = [s \in Sockets |-> NoWatch]
  /\ socket = [s \in Sockets |-> "closed"]
  /\ wants = [s \in Sockets |-> NoWatch]
  /\ got = [s \in Sockets |-> [ch \in Channels |-> 0]]
  /\ last = [ch \in Channels |-> 0]
  /\ spent = [deletes |-> 0, deaths |-> 0, faults |-> 0]

Next ==
  \/ \E ch \in Channels : HandleSend(ch) \/ Compact(ch) \/ HandleDeleteChannel(ch)
  \/ \E s \in Sockets : Connect(s) \/ Close(s) \/ Die(s)
  \/ \E s \in Sockets, ch \in Channels : HandleWatch(s, ch)
  \/ \E t \in Tokens, ch \in Channels :
       GatewayPost(t, ch) \/ \E id \in Polls : GatewayWait(t, id, ch)
  \/ \E q \in polls : PollTimesOut(q)
  \/ \E r \in Requests : DeleteAllKeys(r) \/ \E t \in Tokens : PutKey(r, t) \/ DeleteKey(r, t)
  \/ \E w \in pending : IndexFails(w) \/ \E t \in w.tokens : IndexWritten(w, t)
  \/ Hibernate \/ Restart

Spec == Init /\ [][Next]_vars

\* A client that waits sends its watch frame again after the stale timeout, always.
FairSpec == Spec /\ \A s \in Sockets, ch \in Channels :
                      WF_vars(wants[s][ch] # None /\ HandleWatch(s, ch))

-----------------------------------------------------------------------------
(* Properties. *)

\* Types, and the two copies of a watch agree: every watch in memory is attached to its
\* socket with the same cursor unless its channel was deleted.
SwarmTypeOK ==
  /\ \A ch \in Channels : messages[ch] \subseteq 1 .. MaxPosition
  /\ keys \cup index \cup torn \subseteq Tokens
  /\ \A w \in pending : w.id \in Requests /\ w.tokens # {} /\ w.tokens \subseteq Tokens
  /\ \A w \in watchers : socket[w.s] # "closed" /\ att[w.s][w.ch] = w.cursor
  /\ \A w, v \in watchers : w.s = v.s /\ w.ch = v.ch => w = v
  /\ \A s \in Sockets : wants[s] # NoWatch => socket[s] = "open"

\* A blocked watch survives hibernation: its socket still carries it with the cursor the
\* client waits at (serializeAttachment), until it is answered.
WatchSurvives ==
  \A s \in Sockets, ch \in Channels : wants[s][ch] # None => att[s][ch] = wants[s][ch]

\* A position is given once in the life of a channel, whatever compaction removed: the
\* newest row is never compacted, so MAX + 1 goes on counting.
PositionsGrow ==
  [][\A ch \in Channels : \A p \in messages'[ch] \ messages[ch] : p > last[ch]]_vars

\* A client that waits for a message that exists gets an answer in the end, if only by
\* its own repeated watch frame (no registration blocks the answer), unless the message
\* is deleted with its channel.
WaitersAnswered ==
  \A s \in Sockets, ch \in Channels :
    (wants[s][ch] # None /\ After(ch, wants[s][ch]) # {}) 
      ~> (wants[s][ch] = None \/ After(ch, wants[s][ch]) = {})

\* The index maps a token exactly when its key is stored, once no request has the token's
\* entry to write, whatever fell between the database and the KV store: but for tokens of
\* which the last request began while another's write was on its way, so that the two may
\* reach the KV store in either order, or of which it threw or ended with the object.
IndexIsKeys == \A t \in Tokens \ torn : ~Busy(t) => (t \in index <=> t \in keys)

\* The invariant of the module: its types, and watches that survive hibernation.
SwarmInv == SwarmTypeOK /\ WatchSurvives
================================================================================
