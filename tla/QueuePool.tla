------------------------------ MODULE QueuePool ------------------------------
(***************************************************************************)
(* The queue pool in memory (queue/queue_pool.c): an array of pointers to  *)
(* queues, in a block that is allocated with the first queue, reallocated  *)
(* with each other one and freed with the last, and the exit of the        *)
(* process, which destructs it.  A step is a call, made under the mutex.   *)
(*                                                                         *)
(* A definition "Bug: ..." is no part of the model: it is what the         *)
(* definition after it would be if the code had that bug.                  *)
(***************************************************************************)
EXTENDS Integers, Sequences

CONSTANTS
  Name,         \* the names of queues
  Queue,        \* the addresses malloc gives to queues
  PersistFails, \* may the disk refuse to add or remove a queue?
  Null

ASSUME NameAssumption == Name # {}
ASSUME NullAssumption == Null \notin Queue
ASSUME PersistAssumption == PersistFails \in BOOLEAN

VARIABLES
  status,     \* of the process: "down", "loading" or "up"
  array,      \* the entries of the array: Len(array) is the pool's length
  block,      \* the memory the pool's pointer leads to: "none", "live" or "freed"
  name,       \* per queue, its name
  allocated,  \* queues that are allocated
  dirs,       \* queue directories in ./data
  lastExit    \* history: how the process last exited, "clean" or with a "double free"

vars == <<status, array, block, name, allocated, dirs, lastExit>>

\* queue_pool_get_all_names.
Names == [k \in 1 .. Len(array) |-> name[array[k]]]

\* Bug: the loop ends one entry early.
FindButLast(n) ==
  {k \in 1 .. Len(array) - 1 : Names[k] = n /\ \A j \in 1 .. k - 1 : Names[j] # n}

\* The entry queue_pool_get_by_name finds, if any.
Find(n) ==
  {k \in 1 .. Len(array) : Names[k] = n /\ \A j \in 1 .. k - 1 : Names[j] # n}

\* Bug: the entry is set to NULL, and stays.
CompactNothing(a, i) == [a EXCEPT ![i] = Null]

\* Bug: the last entry fills the gap.
CompactBySwap(a, i) == SubSeq([a EXCEPT ![i] = a[Len(a)]], 1, Len(a) - 1)

\* queue_pool_clear_nulls: the entries that are left move up.
Compact(a, i) == SubSeq(a, 1, i - 1) \o SubSeq(a, i + 1, Len(a))

\* Bug: the block is allocated when there is no pointer to one.
AppendIfNull(q) ==
  /\ array' = Append(array, q)
  /\ block' = IF block = "none" THEN "live" ELSE block

\* The block is allocated anew for the first queue and grows for the others.
AppendQueue(q) ==
  /\ array' = Append(array, q)
  /\ block' = "live"

\* Queue_new.
NewQueue(q, n) ==
  /\ q \notin allocated
  /\ allocated' = allocated \cup {q}
  /\ name' = [name EXCEPT ![q] = n]

\* The process is gone, with its memory.
Gone ==
  /\ status' = "down"
  /\ array' = <<>>
  /\ block' = "none"
  /\ allocated' = {}
  /\ UNCHANGED <<name, dirs>>

Init ==
  /\ status = "down"
  /\ array = <<>>
  /\ block = "none"
  /\ name = [q \in Queue |-> CHOOSE n \in Name : TRUE]
  /\ allocated = {}
  /\ dirs = {}
  /\ lastExit = "clean"

\* queue_pool_init.
Start ==
  /\ status = "down"
  /\ status' = "loading"
  /\ UNCHANGED <<array, block, name, allocated, dirs, lastExit>>

\* One turn of the loop of queue_pool_load: readdir lists each directory once.
Load(q, n) ==
  /\ status = "loading"
  /\ n \in dirs
  /\ \A k \in DOMAIN array : Names[k] # n
  /\ NewQueue(q, n)
  /\ AppendQueue(q)
  /\ UNCHANGED <<status, dirs, lastExit>>

Loaded ==
  /\ status = "loading"
  /\ \A n \in dirs : \E k \in DOMAIN array : Names[k] = n
  /\ status' = "up"
  /\ UNCHANGED <<array, block, name, allocated, dirs, lastExit>>

\* Bug: nobody looks for a queue of that name.
AddAnyway(q, n) ==
  /\ status = "up"
  /\ NewQueue(q, n)
  /\ \/ dirs' = dirs \cup {n} /\ AppendQueue(q)
     \/ PersistFails /\ UNCHANGED <<dirs, array, block>>
  /\ UNCHANGED <<status, lastExit>>

\* add_queue and queue_pool_add. The queue is made before its directory; when that
\* fails, the queue joins nothing, and nobody frees it.
Add(q, n) ==
  /\ status = "up"
  /\ Find(n) = {}
  /\ NewQueue(q, n)
  /\ \/ dirs' = dirs \cup {n} /\ AppendQueue(q)
     \/ PersistFails /\ UNCHANGED <<dirs, array, block>>
  /\ UNCHANGED <<status, lastExit>>

\* queue_pool_remove_by_name, once the disk has removed the queue: the pointer to the
\* block outlives the block when it is freed with the last queue.
Remove(n) ==
  /\ status = "up"
  /\ dirs' = dirs \ {n}
  /\ \E k \in Find(n) :
       /\ allocated' = allocated \ {array[k]}
       /\ array' = Compact(array, k)
  /\ block' = IF array' = <<>> THEN "freed" ELSE "live"
  /\ UNCHANGED <<status, name, lastExit>>

\* exit runs app_close, which destructs the pool: it frees the block once more.
Exit ==
  /\ status = "up"
  /\ lastExit' = IF block = "freed" THEN "double free" ELSE "clean"
  /\ Gone

Crash ==
  /\ status # "down"
  /\ Gone
  /\ UNCHANGED lastExit

Next ==
  \/ Start \/ Loaded \/ Exit \/ Crash
  \/ \E n \in Name : Remove(n) \/ \E q \in Queue : Load(q, n) \/ Add(q, n)

Spec == Init /\ [][Next]_vars
-----------------------------------------------------------------------------
(* Properties                                                               *)

\* Every variable has its type; the array holds no NULL between two calls.
TypeOK ==
  /\ status \in {"down", "loading", "up"}
  /\ array \in Seq(Queue)
  /\ block \in {"none", "live", "freed"}
  /\ name \in [Queue -> Name]
  /\ allocated \in SUBSET Queue
  /\ dirs \in SUBSET Name
  /\ lastExit \in {"clean", "double free"}

\* No two queues of the pool have one name, as README.md:20 promises, across
\* restarts and refused requests.
NamesAreUnique == \A j, k \in DOMAIN array : Names[j] = Names[k] => j = k

\* A name leads to a queue exactly if the queue is on disk.
FoundByName == status = "up" => \A n \in Name : n \in dirs <=> Find(n) # {}

\* The entries lie in a live block and lead to queues that are allocated, each to its
\* own.
EntriesAreLive ==
  array # <<>> =>
    /\ block = "live"
    /\ \A k \in DOMAIN array : array[k] \in allocated
    /\ \A j, k \in DOMAIN array : array[j] = array[k] => j = k

\* Of the queues that getAllQueueNames lists before and after a call, the order is the
\* same: a removal moves the others up and adds none in between.
OrderIsKept ==
  [][status = "up" /\ status' = "up" =>
       \A i, j \in DOMAIN array : \A k, l \in DOMAIN array' :
         i < j /\ Names[i] = Names'[k] /\ Names[j] = Names'[l] => k < l]_vars

\* The names of the queues in the array, and those on disk.
PoolNames == INSTANCE QueueNames WITH
  QueueName <- Name,
  pool      <- {Names[k] : k \in DOMAIN array}

\* To whoever looks queues up by name the array is a set of names that is the disk's as
\* soon as it is loaded: no call, and no call the disk refuses, changes one without the
\* other. It is what Broker takes the pool to be.
ImplementsNames == PoolNames!Spec

\* app_close is the "cleanup before closing the app" of app.c:21: it frees what is
\* allocated, once.
ExitIsClean == lastExit = "clean"
-----------------------------------------------------------------------------
(* The inductive invariant: while the pool loads, a part of the directories *)
(* has its queue; once it is up, all have.                                 *)

PoolInv ==
  /\ NamesAreUnique
  /\ EntriesAreLive
  /\ status = "down" => array = <<>>
  /\ \A k \in DOMAIN array : Names[k] \in dirs
  /\ status = "up" => \A n \in dirs : \E k \in DOMAIN array : Names[k] = n

IndInv == TypeOK /\ PoolInv
=============================================================================
