---------------------------- MODULE MCQueuePool ----------------------------
(* Instances of QueuePool for TLC.                                          *)
EXTENDS QueuePool

CONSTANTS a, b, c, x1, x2, x3, x4

ThreeNames == {a, b, c}
FourQueues == {x1, x2, x3, x4}
=============================================================================
