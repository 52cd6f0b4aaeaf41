---------------------------- MODULE MCQueueList ----------------------------
(* Instances of QueueList for TLC.                                          *)
EXTENDS QueueList

CONSTANTS n1, n2, n3, m1, m2

ThreeNodes == {n1, n2, n3}
TwoMessages == {m1, m2}
SomeIndices == {1, 2, 3}
=============================================================================
