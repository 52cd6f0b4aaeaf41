----------------------------- MODULE FifoStore -----------------------------
(***************************************************************************)
(* What the broker promises its clients about stored messages (README.md,  *)
(* "Usage"): independent queues that are made and removed by name, each    *)
(* handing out its messages in the order in which they were put in.  A     *)
(* message is the number it was given when it was offered.                 *)
(*                                                                         *)
(* The removal of a queue is the one operation that takes time: it throws  *)
(* the messages away one by one, oldest first, with nobody else at the     *)
(* queue, and can be given up at any point, which leaves the newest ones.  *)
(***************************************************************************)
EXTENDS Integers

CONSTANT QueueName

VARIABLES
  exists,    \* the queues there are
  stored,    \* per queue, the messages in it
  removing,  \* the queues that are being removed
  last,      \* per queue, the last message handed to a client
  offered    \* the number of messages offered so far, and so the latest one

vars == <<exists, stored, removing, last, offered>>

Oldest(q, m) == m \in stored[q] /\ \A n \in stored[q] : m <= n

Init ==
  /\ exists = {}
  /\ stored = [q \in QueueName |-> {}]
  /\ removing = {}
  /\ last = [q \in QueueName |-> 0]
  /\ offered = 0

Create(q) ==
  /\ q \notin exists
  /\ exists' = exists \cup {q}
  /\ UNCHANGED <<stored, removing, last, offered>>

Offer ==
  /\ offered' = offered + 1
  /\ UNCHANGED <<exists, stored, removing, last>>

\* The latest message offered enters a queue, once, behind all that are there.
Put(q) ==
  /\ q \in exists \ removing
  /\ \A p \in QueueName : last[p] < offered /\ \A n \in stored[p] : n < offered
  /\ stored' = [stored EXCEPT ![q] = @ \cup {offered}]
  /\ UNCHANGED <<exists, removing, last, offered>>

Take(q, m) ==
  /\ q \in exists \ removing
  /\ Oldest(q, m)
  /\ stored' = [stored EXCEPT ![q] = @ \ {m}]
  /\ last' = [last EXCEPT ![q] = m]
  /\ UNCHANGED <<exists, removing, offered>>

BeginRemoval(q) ==
  /\ q \in exists \ removing
  /\ removing' = removing \cup {q}
  /\ UNCHANGED <<exists, stored, last, offered>>

Discard(q, m) ==
  /\ q \in removing
  /\ Oldest(q, m)
  /\ stored' = [stored EXCEPT ![q] = @ \ {m}]
  /\ UNCHANGED <<exists, removing, last, offered>>

EndRemoval(q) ==
  /\ q \in removing
  /\ stored[q] = {}
  /\ exists' = exists \ {q}
  /\ removing' = removing \ {q}
  /\ UNCHANGED <<stored, last, offered>>

GiveUp(q) ==
  /\ q \in removing
  /\ removing' = removing \ {q}
  /\ UNCHANGED <<exists, stored, last, offered>>

Next ==
  \/ Offer
  \/ \E q \in QueueName :
       \/ Create(q) \/ Put(q) \/ BeginRemoval(q) \/ EndRemoval(q) \/ GiveUp(q)
       \/ \E m \in stored[q] : Take(q, m) \/ Discard(q, m)

Spec == Init /\ [][Next]_vars
=============================================================================
