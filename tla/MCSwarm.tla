------------------------------- MODULE MCSwarm -------------------------------
(***************************************************************************)
(* SwarmDO on small instances. Keys and the board hardly meet: a client is *)
(* admitted by a key, an open request keeps the object awake, a restart    *)
(* ends both. So two keys, overlapping requests and writes that are lost   *)
(* are checked on an empty board; beside messages and clients there is one *)
(* key, one request at a time, and either a restart or clients that die   *)
(* and channels that are deleted.                                          *)
(***************************************************************************)
EXTENDS SwarmDO, TLC

CONSTANTS c1, s1, s2, q1, t1, t2, r1, r2

EmptyBoard == /\ polls = {} /\ \A s \in Sockets : socket[s] = "closed"
              /\ \A ch \in Channels : messages[ch] = {}

Simple == /\ Cardinality(pending) <= 1 /\ \A w \in pending : w.id = r1
          /\ torn = {} /\ keys \cup index \subseteq {t1}
          /\ spent.faults = 0 \/ spent.deletes + spent.deaths = 0

MCNext == Next /\ (EmptyBoard' \/ Simple')

MCSpec == Init /\ [][MCNext]_vars /\ \A s \in Sockets, ch \in Channels :
            WF_vars(wants[s][ch] # None /\ HandleWatch(s, ch))
==============================================================================
