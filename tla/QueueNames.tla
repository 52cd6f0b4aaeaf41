----------------------------- MODULE QueueNames -----------------------------
(***************************************************************************)
(* What the queue pool promises about the names of queues, in memory and   *)
(* on disk: the pool is filled from the disk before the server listens;    *)
(* from then on a queue is made in both or in neither, and never twice,    *)
(* and removed from both or from neither; the end of the process loses     *)
(* what is in memory and nothing else.                                     *)
(***************************************************************************)
CONSTANT QueueName

VARIABLES
  status,  \* of the process: "down", "loading" or "up"
  pool,    \* the names of the queues in memory
  dirs     \* the names of the queues on disk

vars == <<status, pool, dirs>>

Init ==
  /\ status = "down"
  /\ pool = {}
  /\ dirs = {}

Start ==
  /\ status = "down"
  /\ status' = "loading"
  /\ UNCHANGED <<pool, dirs>>

Load(n) ==
  /\ status = "loading"
  /\ n \in dirs \ pool
  /\ pool' = pool \cup {n}
  /\ UNCHANGED <<status, dirs>>

Listen ==
  /\ status = "loading"
  /\ pool = dirs
  /\ status' = "up"
  /\ UNCHANGED <<pool, dirs>>

Add(n) ==
  /\ status = "up"
  /\ n \notin pool \cup dirs
  /\ pool' = pool \cup {n}
  /\ dirs' = dirs \cup {n}
  /\ UNCHANGED status

Remove(n) ==
  /\ status = "up"
  /\ n \in pool \cap dirs
  /\ pool' = pool \ {n}
  /\ dirs' = dirs \ {n}
  /\ UNCHANGED status

Stop ==
  /\ status # "down"
  /\ status' = "down"
  /\ pool' = {}
  /\ UNCHANGED dirs

Next ==
  \/ Start \/ Listen \/ Stop
  \/ \E n \in QueueName : Load(n) \/ Add(n) \/ Remove(n)

Spec == Init /\ [][Next]_vars
=============================================================================
