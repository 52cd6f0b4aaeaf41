------------------------------ MODULE MCBroker ------------------------------
(* Instances of Broker for TLC.                                              *)
EXTENDS Broker, TLC

CONSTANTS q1, q2, t1, t2

TwoQueues == {q1, q2}
TwoThreads == {t1, t2}
Interchangeable == Permutations(TwoThreads)

OnQueue(type, q) == [type |-> type, queueName |-> q, index |-> 0, data |-> None]
Produces(q) == [type |-> "produce", queueName |-> q, index |-> 0, data |-> q1]
Adds(q) == [type |-> "addQueue", queueName |-> None, index |-> 0, data |-> q]
Gets(q, i) == [type |-> "get", queueName |-> q, index |-> i, data |-> None]

OneQueue == {q1}

OneQueueUpdates == {Produces(q1), OnQueue("consume", q1), Adds(q1), OnQueue("removeQueue", q1)}

Updates == OneQueueUpdates \cup {Produces(q2), Adds(q2), OnQueue("removeQueue", q2)}

Reads == {Gets(q1, 0), Gets(q1, 1), Gets(q1, 2), OnQueue("getAll", q1),
          [OnQueue("length", q1) EXCEPT !.data = q1], OnQueue("length", q1),
          OnQueue("getAllQueueNames", None)}

UnknownTypes == {OnQueue("other", q1), OnQueue(None, q1)}

UpdatesAndReads == OneQueueUpdates \cup Reads
UpdatesAndUnknown == OneQueueUpdates \cup UnknownTypes
=============================================================================
