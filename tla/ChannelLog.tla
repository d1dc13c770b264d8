------------------------------ MODULE ChannelLog ------------------------------
(***************************************************************************)
(* What the message board promises of one channel: a log whose messages    *)
(* get the positions 1, 2, 3, ... in the order of the sends, and that      *)
(* forgets only a prefix; readers that get every message of it in order,   *)
(* each at least once, and acknowledge only what they got. LeaderBoard,    *)
(* the program, is shown to implement it.                                  *)
(***************************************************************************)
EXTENDS Integers

CONSTANTS Messages, Readers

VARIABLES log,    \* the retained messages: a function from oldest .. head
          head,   \* the position of the last message, 0 before the first
          read,   \* the furthest position each reader was given
          acked   \* the position each reader would start again from

vars == <<log, head, read, acked>>

Init == /\ log = [p \in {} |-> {}]
        /\ head = 0
        /\ read = [r \in Readers |-> 0]
        /\ acked = [r \in Readers |-> 0]

\* A message gets the position after the last one.
Append == /\ \E m \in Messages :
               log' = [p \in DOMAIN log \cup {head + 1} |->
                         IF p = head + 1 THEN m ELSE log[p]]
          /\ head' = head + 1
          /\ UNCHANGED <<read, acked>>

\* A prefix that leaves out the last message is forgotten.
Compact == /\ \E oldest \in DOMAIN log : log' = [p \in oldest .. head |-> log[p]]
           /\ UNCHANGED <<head, read, acked>>

\* A reader gets the very next message, which the log still has ...
Read(r) == /\ read[r] + 1 \in DOMAIN log
           /\ read' = [read EXCEPT ![r] = @ + 1]
           /\ UNCHANGED <<log, head, acked>>

\* ... unless connections break before it arrives, those of several readers at once when
\* the server stops,
Lose == /\ \E back \in [Readers -> 0 .. head] :
             /\ \A r \in Readers : back[r] \in acked[r] .. read[r]
             /\ read' = back
        /\ UNCHANGED <<log, head, acked>>

\* and acknowledges it.
Acknowledge(r) == /\ acked[r] < read[r]
                  /\ acked' = [acked EXCEPT ![r] = @ + 1]
                  /\ UNCHANGED <<log, head, read>>

Next == Append \/ Compact \/ Lose \/ \E r \in Readers : Read(r) \/ Acknowledge(r)

Spec == Init /\ [][Next]_vars
===============================================================================
