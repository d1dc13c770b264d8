------------------------------- MODULE MCBoard -------------------------------
(* LeaderBoard on small instances. *)
EXTENDS LeaderBoard, TLC

CONSTANTS c1, c2, m1, m2, m3, p1

MCChannels == {c1, c2}
MCMessages == {m1, m2, m3}
MCProjects == {p1}
MessageSymmetry == Permutations(MCMessages)
==============================================================================
