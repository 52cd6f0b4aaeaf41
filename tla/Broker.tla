------------------------------- MODULE Broker -------------------------------
(***************************************************************************)
(* The message broker at work: threads that each serve one request         *)
(* (server/s_thread.c), the operations of the broker (broker/broker.c) on  *)
(* the queue pool (queue/queue_pool.c, queue/queue.c) and the copy of it   *)
(* on disk (persist/persist.c), a directory per queue and a file per node. *)
(*                                                                         *)
(* A step is what lies between two system calls that change the disk, so   *)
(* that the process can stop between any two of them.  A message is named  *)
(* by its serial number: the k-th produce the broker starts carries        *)
(* message k.  Nodes and node files are the same records, and a queue is   *)
(* the sequence of its nodes from the tail (oldest, consumed next) to the  *)
(* root (newest).                                                          *)
(*                                                                         *)
(* A definition "Bug: ..." is no part of the model: it is what the         *)
(* definition after it would be if the code had that bug.                  *)
(***************************************************************************)
EXTENDS Integers, Sequences, FiniteSets

CONSTANTS
  QueueName,    \* the queue names clients use
  Thread,       \* the broker threads that can be alive at once
  Request,      \* the requests clients send
  Faults,       \* the system calls that may fail
  MayCrash,     \* may the process be stopped at any point?
  MaxMessages,  \* bound: how many messages are ever produced
  None          \* NULL: an absent parameter, a free lock

Operations == {"consume", "produce", "length", "get", "getAll",
               "addQueue", "getAllQueueNames", "removeQueue"}

\* broker_dispatch: operations that need a queue name, operations that need data.
NeedsQueue == {"consume", "produce", "length", "get", "getAll", "removeQueue"}
NeedsData  == {"produce", "length", "addQueue"}

\* A parsed request. A type that is no operation is "other", a missing one None.
\* The index is 0 when there is none; an empty parameter is none. Only addQueue looks
\* at which text data holds, so texts are queue names.
UShort == 0 .. 2^16 - 1
RequestRecord ==
  [type: Operations \cup {"other", None}, queueName: QueueName \cup {None},
   index: UShort, data: QueueName \cup {None}]

FaultyCalls == {"opendir", "mkdir", "fopen", "write", "unlink", "rmdir",
                "send"}

ASSUME RequestAssumption == Request \subseteq RequestRecord
ASSUME FaultAssumption == Faults \subseteq FaultyCalls
ASSUME CrashAssumption == MayCrash \in BOOLEAN
ASSUME BoundAssumption == MaxMessages \in Nat
ASSUME NoneAssumption == None \notin QueueName \cup Thread \cup Operations

VARIABLES
  status,   \* of the process: "down", "loading" (before listen) or "up"
  pool,     \* names of the queues in the QueuePool
  nodes,    \* per queue, its linked list, tail first
  dirs,     \* queue directories in ./data
  files,    \* per queue directory, its node files
  lock,     \* holder of the mutex, or None
  pc,       \* per thread, the next step
  req,      \* per thread, its request
  node,     \* per thread, the local newNode (produce) or node (consume)
  todo,     \* per thread, node files persist_remove_queue has yet to unlink
  res,      \* per thread, its response
  serial,   \* history: messages named so far
  lastOut,  \* history: per queue, the last message consumed from it
  acked,    \* history: messages whose produce was answered with success
  removed   \* history: messages consumed, or unlinked to remove their queue

process == <<status, pool, nodes, lock, pc, req, node, todo, res>>
disk    == <<dirs, files>>
history == <<serial, lastOut, acked, removed>>
vars    == <<process, disk, history>>

Node == [id: Nat, msg: Nat, whole: BOOLEAN]
NullNode == [id |-> 0, msg |-> 0, whole |-> FALSE]

NoRequest == [type |-> None, queueName |-> None, index |-> 0, data |-> None]

\* A response: success, the numbers in its data, the queue names in its data.
Response == [ok: BOOLEAN, data: Seq(Nat), names: SUBSET QueueName]
Failed   == [ok |-> FALSE, data |-> <<>>, names |-> {}]
Success(data) == [ok |-> TRUE, data |-> data, names |-> {}]

\* The text of a node or a node file: its message, or none (0) if it was never written, or
\* read from a file that was not.
Contents(n) == IF n.whole THEN n.msg ELSE 0

Steps == {"closed", "lock", "dispatch", "QueueAdd", "WriteNode", "QueuePoll",
          "UnlinkNext", "unlock", "send"} \cup Operations

\* Steps between pthread_mutex_lock and pthread_mutex_unlock.
Critical == Steps \ {"closed", "lock", "send"}

NodesOf(q) == {nodes[q][k] : k \in DOMAIN nodes[q]}
Ids(fs) == {f.id : f \in fs}

\* Bug: the id of the last node file, not the one after it.
NextIdsTaken(fs) ==
  IF fs = {} THEN {1} ELSE {f.id : f \in {g \in fs : \A h \in fs : h.id <= g.id}}

\* The id get_next_node_id returns for a directory that holds fs, as a singleton.
NextIds(fs) ==
  IF fs = {} THEN {1}
  ELSE {f.id + 1 : f \in {g \in fs : \A h \in fs : h.id <= g.id}}

\* Bug: the order in which readdir happens to list them.
Unsorted(fs) ==
  {s \in [1 .. Cardinality(fs) -> fs] : \A f \in fs : \E k \in DOMAIN s : s[k] = f}

\* The node files fs in the order read_queue sorts them, as a singleton.
Sorted(fs) ==
  {s \in [1 .. Cardinality(fs) -> fs] :
     /\ \A j, k \in DOMAIN s : j < k => s[j].id < s[k].id
     /\ \A f \in fs : \E k \in DOMAIN s : s[k] = f}

Goto(t, step) == pc' = [pc EXCEPT ![t] = step]
Answer(t, response) == res' = [res EXCEPT ![t] = response] /\ Goto(t, "unlock")

\* The process ends, by a crash or by following a NULL pointer: all it kept in
\* memory is gone, the disk stays.
Die ==
  /\ status' = "down"
  /\ pool' = {}
  /\ nodes' = [q \in QueueName |-> <<>>]
  /\ lock' = None
  /\ pc' = [t \in Thread |-> "closed"]
  /\ req' = [t \in Thread |-> NoRequest]
  /\ node' = [t \in Thread |-> NullNode]
  /\ todo' = [t \in Thread |-> {}]
  /\ res' = [t \in Thread |-> Failed]
  /\ UNCHANGED <<disk, history>>

Init ==
  /\ status = "down"
  /\ pool = {}
  /\ nodes = [q \in QueueName |-> <<>>]
  /\ dirs = {}
  /\ files = [q \in QueueName |-> {}]
  /\ lock = None
  /\ pc = [t \in Thread |-> "closed"]
  /\ req = [t \in Thread |-> NoRequest]
  /\ node = [t \in Thread |-> NullNode]
  /\ todo = [t \in Thread |-> {}]
  /\ res = [t \in Thread |-> Failed]
  /\ serial = 0
  /\ lastOut = [q \in QueueName |-> 0]
  /\ acked = {}
  /\ removed = {}

-----------------------------------------------------------------------------
(* Startup: app_init runs before main accepts, so nothing interleaves.      *)

Start ==
  /\ status = "down"
  /\ status' = "loading"
  /\ UNCHANGED <<pool, nodes, lock, pc, req, node, todo, res, disk, history>>

\* One iteration of the loop of queue_pool_load: a queue that is on disk and not
\* yet in the pool is added with its nodes in ascending order of id.
LoadQueue(q) ==
  /\ status = "loading"
  /\ q \in dirs \ pool
  /\ \E ns \in Sorted(files[q]) : nodes' = [nodes EXCEPT ![q] = ns]
  /\ pool' = pool \cup {q}
  /\ UNCHANGED <<status, lock, pc, req, node, todo, res, disk, history>>

\* Bug: the loop ends one queue early.
ListenEarly ==
  /\ status = "loading"
  /\ Cardinality(dirs \ pool) <= 1
  /\ status' = "up"
  /\ UNCHANGED <<pool, nodes, lock, pc, req, node, todo, res, disk, history>>

Listen ==
  /\ status = "loading"
  /\ dirs \subseteq pool
  /\ status' = "up"
  /\ UNCHANGED <<pool, nodes, lock, pc, req, node, todo, res, disk, history>>

\* queue_pool_load exits when a directory or a node file cannot be read.
LoadFails ==
  /\ status = "loading"
  /\ {"opendir", "fopen"} \cap Faults # {}
  /\ Die

-----------------------------------------------------------------------------
(* The frame of broker_thread around the operations.                        *)

\* Bound: a produce is only sent while there is a number left for its message.
WithinBound(r) ==
  r.type = "produce" =>
    serial + Cardinality({t \in Thread : /\ pc[t] \in {"lock", "dispatch", "produce"}
                                         /\ req[t].type = "produce"}) < MaxMessages

\* A connection is accepted and its request received and parsed: main,
\* Server_accept and broker_thread up to the lock.
Accept(t, r) ==
  /\ status = "up"
  /\ pc[t] = "closed"
  /\ WithinBound(r)
  /\ req' = [req EXCEPT ![t] = r]
  /\ Goto(t, "lock")
  /\ UNCHANGED <<status, pool, nodes, lock, node, todo, res, disk, history>>

\* Bug: a mutex of each thread's own.
LockNothing(t) ==
  /\ pc[t] = "lock"
  /\ lock' = t
  /\ Goto(t, "dispatch")
  /\ UNCHANGED <<status, pool, nodes, req, node, todo, res, disk, history>>

Lock(t) ==
  /\ pc[t] = "lock"
  /\ lock = None
  /\ lock' = t
  /\ Goto(t, "dispatch")
  /\ UNCHANGED <<status, pool, nodes, req, node, todo, res, disk, history>>

\* broker_dispatch sets errMsg: the queue name is missing or names no queue of
\* the pool, the index is missing (or 0), the data is missing.
Rejected(r) ==
  \/ r.type \in NeedsQueue /\ r.queueName \notin pool
  \/ r.type = "get" /\ r.index = 0
  \/ r.type \in NeedsData /\ r.data = None

\* Bug: an invalid request returns past the unlock.
DispatchReturns(t) ==
  /\ pc[t] = "dispatch"
  /\ req[t].type \in Operations
  /\ \/ Rejected(req[t]) /\ res' = [res EXCEPT ![t] = Failed] /\ Goto(t, "send")
     \/ ~Rejected(req[t]) /\ Goto(t, req[t].type) /\ UNCHANGED res
  /\ UNCHANGED <<status, pool, nodes, lock, req, node, todo, disk, history>>

Dispatch(t) ==
  /\ pc[t] = "dispatch"
  /\ req[t].type \in Operations
  /\ \/ Rejected(req[t]) /\ Answer(t, Failed)
     \/ ~Rejected(req[t]) /\ Goto(t, req[t].type) /\ UNCHANGED res
  /\ UNCHANGED <<status, pool, nodes, lock, req, node, todo, disk, history>>

\* No branch of broker_dispatch matches: res is returned uninitialized. A missing
\* type is a NULL argument of strcmp.
DispatchOther(t) ==
  /\ pc[t] = "dispatch"
  /\ req[t].type \notin Operations
  /\ \/ Die
     \/ /\ req[t].type # None
        /\ \E ok \in BOOLEAN : Answer(t, [ok |-> ok, data |-> <<>>, names |-> {}])
        /\ UNCHANGED <<status, pool, nodes, lock, req, node, todo, disk, history>>

\* Bug: a mutex that is not unlocked after a failed operation.
UnlockSuccess(t) ==
  /\ pc[t] = "unlock"
  /\ lock' = IF res[t].ok THEN None ELSE lock
  /\ Goto(t, "send")
  /\ UNCHANGED <<status, pool, nodes, req, node, todo, res, disk, history>>

Unlock(t) ==
  /\ pc[t] = "unlock"
  /\ lock' = None
  /\ Goto(t, "send")
  /\ UNCHANGED <<status, pool, nodes, req, node, todo, res, disk, history>>

\* The response is sent and the thread ends. When the client has gone, send raises
\* SIGPIPE, which nobody handles.
Send(t) ==
  /\ pc[t] = "send"
  /\ \/ /\ acked' = IF req[t].type = "produce" /\ res[t].ok
                     THEN acked \cup {node[t].msg} ELSE acked
        /\ req' = [req EXCEPT ![t] = NoRequest]
        /\ node' = [node EXCEPT ![t] = NullNode]
        /\ res' = [res EXCEPT ![t] = Failed]
        /\ Goto(t, "closed")
        /\ UNCHANGED <<status, pool, nodes, lock, todo, disk, serial, lastOut, removed>>
     \/ "send" \in Faults /\ Die

-----------------------------------------------------------------------------
(* produce                                                                  *)

\* Asks for the next id and makes the node. Without an answer the id is read
\* through a NULL pointer.
Produce(t) ==
  /\ pc[t] = "produce"
  /\ \/ /\ req[t].queueName \in dirs
        /\ \E i \in NextIds(files[req[t].queueName]) :
             node' = [node EXCEPT ![t] = [id |-> i, msg |-> serial + 1, whole |-> TRUE]]
        /\ serial' = serial + 1
        /\ Goto(t, "QueueAdd")
        /\ UNCHANGED <<status, pool, nodes, lock, req, todo, res, disk, lastOut, acked, removed>>
     \/ /\ "opendir" \in Faults \/ req[t].queueName \notin dirs
        /\ Die

\* Queue_add asks for the next id again and opens the node file under that name,
\* which creates it empty. When that fails produce answers as if it had not.
QueueAdd(t) ==
  LET q == req[t].queueName
  IN  /\ pc[t] = "QueueAdd"
      /\ \/ /\ q \in dirs
            /\ \E i \in NextIds(files[q]) :
                 files' = [files EXCEPT ![q] =
                   {f \in @ : f.id # i} \cup {[id |-> i, msg |-> node[t].msg, whole |-> FALSE]}]
            /\ Goto(t, "WriteNode")
            /\ UNCHANGED <<status, pool, nodes, dirs, lock, req, node, todo, res, history>>
         \/ /\ q \in dirs /\ "fopen" \in Faults
            /\ Answer(t, Success(<<>>))
            /\ UNCHANGED <<status, pool, nodes, lock, req, node, todo, disk, history>>
         \/ /\ "opendir" \in Faults \/ q \notin dirs
            /\ Die

\* Bug: a failed write is noticed, and the node forgotten without its file.
WriteNodeOrGiveUp(t) ==
  LET q == req[t].queueName
      written(f) == IF f.msg = node[t].msg THEN [f EXCEPT !.whole = TRUE] ELSE f
  IN  /\ pc[t] = "WriteNode"
      /\ \/ /\ files' = [files EXCEPT ![q] = {written(f) : f \in @}]
            /\ nodes' = [nodes EXCEPT ![q] = Append(@, node[t])]
            /\ Answer(t, Success(<<>>))
         \/ "write" \in Faults /\ UNCHANGED <<files, nodes>> /\ Answer(t, Failed)
      /\ UNCHANGED <<status, pool, dirs, lock, req, node, todo, history>>

\* The message is written (nobody checks fprintf and fclose) and the node linked
\* as the new root.
WriteNode(t) ==
  LET q == req[t].queueName
      written(f) == IF f.msg = node[t].msg THEN [id |-> f.id, msg |-> f.msg, whole |-> TRUE]
                    ELSE f
  IN  /\ pc[t] = "WriteNode"
      /\ \/ files' = [files EXCEPT ![q] = {written(f) : f \in @}]
         \/ "write" \in Faults /\ UNCHANGED files
      /\ nodes' = [nodes EXCEPT ![q] = Append(@, node[t])]
      /\ Answer(t, Success(<<>>))
      /\ UNCHANGED <<status, pool, dirs, lock, req, node, todo, history>>

-----------------------------------------------------------------------------
(* consume                                                                  *)

\* Bug: no response is created for an empty queue.
ConsumeUnanswered(t) ==
  LET q == req[t].queueName
  IN  /\ pc[t] = "consume"
      /\ \/ nodes[q] = <<>> /\ Answer(t, None) /\ UNCHANGED node
         \/ /\ nodes[q] # <<>>
            /\ node' = [node EXCEPT ![t] = Head(nodes[q])]
            /\ Goto(t, "QueuePoll")
            /\ UNCHANGED res
      /\ UNCHANGED <<status, pool, nodes, lock, req, todo, disk, history>>

\* Finds the queue empty, or takes hold of its tail.
Consume(t) ==
  LET q == req[t].queueName
  IN  /\ pc[t] = "consume"
      /\ \/ /\ nodes[q] = <<>>
            /\ Answer(t, Failed)
            /\ UNCHANGED node
         \/ /\ nodes[q] # <<>>
            /\ node' = [node EXCEPT ![t] = Head(nodes[q])]
            /\ Goto(t, "QueuePoll")
            /\ UNCHANGED res
      /\ UNCHANGED <<status, pool, nodes, lock, req, todo, disk, history>>

\* Bug: a queue whose flag persist stayed false after loading.
QueuePollInMemory(t) ==
  LET q == req[t].queueName
  IN  /\ pc[t] = "QueuePoll"
      /\ removed' = removed \cup {node[t].msg}
      /\ nodes' = [nodes EXCEPT ![q] = Tail(@)]
      /\ lastOut' = [lastOut EXCEPT ![q] = node[t].msg]
      /\ Answer(t, Success(<<Contents(node[t])>>))
      /\ UNCHANGED <<status, pool, disk, lock, req, node, todo, serial, acked>>

\* Queue_poll unlinks the tail's file and then the tail; consume answers with the
\* message. When the file cannot be unlinked Queue_poll returns NULL and consume
\* reads the message of that.
QueuePoll(t) ==
  LET q == req[t].queueName
      f == {g \in files[q] : g.id = node[t].id}
  IN  /\ pc[t] = "QueuePoll"
      /\ \/ /\ f # {}
            /\ files' = [files EXCEPT ![q] = @ \ f]
            /\ removed' = removed \cup {node[t].msg}
            /\ nodes' = [nodes EXCEPT ![q] = Tail(@)]
            /\ lastOut' = [lastOut EXCEPT ![q] = node[t].msg]
            /\ Answer(t, Success(<<Contents(node[t])>>))
            /\ UNCHANGED <<status, pool, dirs, lock, req, node, todo, serial, acked>>
         \/ /\ "unlink" \in Faults \/ f = {}
            /\ Die

-----------------------------------------------------------------------------
(* addQueue and removeQueue                                                 *)

\* Bug: the queue joins the pool whether or not the directory could be made.
AddQueueAnyway(t) ==
  LET q == req[t].data
  IN  /\ pc[t] = "addQueue"
      /\ IF q \in pool
         THEN Answer(t, Failed) /\ UNCHANGED <<pool, nodes, dirs>>
         ELSE /\ \/ dirs' = dirs \cup {q}
                 \/ "mkdir" \in Faults /\ UNCHANGED dirs
              /\ pool' = pool \cup {q}
              /\ nodes' = [nodes EXCEPT ![q] = <<>>]
              /\ Answer(t, Success(<<>>))
      /\ UNCHANGED <<status, files, lock, req, node, todo, history>>

\* The directory is made, unless it exists, and the queue joins the pool.
AddQueue(t) ==
  LET q == req[t].data
  IN  /\ pc[t] = "addQueue"
      /\ \/ /\ q \in pool
            /\ Answer(t, Failed)
            /\ UNCHANGED <<pool, nodes, dirs>>
         \/ /\ q \notin pool
            /\ dirs' = dirs \cup {q}
            /\ pool' = pool \cup {q}
            /\ nodes' = [nodes EXCEPT ![q] = <<>>]
            /\ Answer(t, Success(<<>>))
         \/ /\ q \notin pool
            /\ "opendir" \in Faults \/ ("mkdir" \in Faults /\ q \notin dirs)
            /\ Answer(t, Failed)
            /\ UNCHANGED <<pool, nodes, dirs>>
      /\ UNCHANGED <<status, files, lock, req, node, todo, history>>

\* persist_remove_queue opens the directory, lists its node files and counts them.
\* It unlinks as many as it counted, none when the directory cannot be opened then,
\* and reads a list that is NULL when the directory could not be opened for that.
RemoveQueue(t) ==
  LET q == req[t].queueName
  IN  /\ pc[t] = "removeQueue"
      /\ \/ /\ q \in dirs
            /\ \/ todo' = [todo EXCEPT ![t] = Ids(files[q])]
               \/ "opendir" \in Faults /\ todo' = [todo EXCEPT ![t] = {}]
            /\ Goto(t, "UnlinkNext")
            /\ UNCHANGED <<status, pool, nodes, lock, req, node, res, disk, history>>
         \/ /\ "opendir" \in Faults \/ q \notin dirs
            /\ Answer(t, Failed)
            /\ UNCHANGED <<status, pool, nodes, lock, req, node, todo, disk, history>>
         \/ /\ "opendir" \in Faults /\ files[q] # {}
            /\ Die

\* Bug: the node files are unlinked newest first.
UnlinkNewest(t) ==
  LET q == req[t].queueName
  IN  /\ pc[t] = "UnlinkNext"
      /\ \E i \in todo[t] :
           LET f == {g \in files[q] : g.id = i}
           IN  /\ \A j \in todo[t] : j <= i
               /\ files' = [files EXCEPT ![q] = @ \ f]
               /\ removed' = removed \cup {g.msg : g \in f}
               /\ todo' = [todo EXCEPT ![t] = @ \ {i}]
      /\ UNCHANGED <<status, pool, nodes, dirs, lock, pc, req, node, res, serial, lastOut, acked>>

\* Its loop unlinks them in ascending order and gives up at the first failure.
UnlinkNext(t) ==
  LET q == req[t].queueName
  IN  /\ pc[t] = "UnlinkNext"
      /\ \E i \in todo[t] :
           LET f == {g \in files[q] : g.id = i}
           IN  /\ \A j \in todo[t] : i <= j
               /\ \/ /\ f # {}
                     /\ files' = [files EXCEPT ![q] = @ \ f]
                     /\ removed' = removed \cup {g.msg : g \in f}
                     /\ todo' = [todo EXCEPT ![t] = @ \ {i}]
                     /\ UNCHANGED <<pc, res>>
                  \/ /\ "unlink" \in Faults \/ f = {}
                     /\ todo' = [todo EXCEPT ![t] = {}]
                     /\ Answer(t, Failed)
                     /\ UNCHANGED <<files, removed>>
      /\ UNCHANGED <<status, pool, nodes, dirs, lock, req, node, serial, lastOut, acked>>

\* The empty directory is removed, then the queue and its nodes leave the pool.
RemoveDir(t) ==
  LET q == req[t].queueName
  IN  /\ pc[t] = "UnlinkNext"
      /\ todo[t] = {}
      /\ \/ /\ files[q] = {}
            /\ dirs' = dirs \ {q}
            /\ pool' = pool \ {q}
            /\ nodes' = [nodes EXCEPT ![q] = <<>>]
            /\ Answer(t, Success(<<>>))
         \/ /\ "rmdir" \in Faults \/ files[q] # {}
            /\ Answer(t, Failed)
            /\ UNCHANGED <<dirs, pool, nodes>>
      /\ UNCHANGED <<status, files, lock, req, node, todo, history>>

-----------------------------------------------------------------------------
(* The operations that only read                                            *)

\* Bug: indices count from the tail.
FromTail(q, index) == Contents(nodes[q][index + 1])

\* Indices count from the root, from 0.
FromRoot(q, index) == Contents(nodes[q][Len(nodes[q]) - index])

Length(t) ==
  /\ pc[t] = "length"
  /\ Answer(t, Success(<<Len(nodes[req[t].queueName])>>))

Get(t) ==
  LET q == req[t].queueName
  IN  /\ pc[t] = "get"
      /\ IF Len(nodes[q]) > req[t].index
         THEN Answer(t, Success(<<FromRoot(q, req[t].index)>>))
         ELSE Answer(t, Failed)

GetAll(t) ==
  LET q == req[t].queueName
  IN  /\ pc[t] = "getAll"
      /\ Answer(t, Success([k \in 1 .. Len(nodes[q]) |-> FromRoot(q, k - 1)]))

GetAllQueueNames(t) ==
  /\ pc[t] = "getAllQueueNames"
  /\ Answer(t, [ok |-> TRUE, data |-> <<>>, names |-> pool])

Read(t) ==
  /\ Length(t) \/ Get(t) \/ GetAll(t) \/ GetAllQueueNames(t)
  /\ UNCHANGED <<status, pool, nodes, lock, req, node, todo, disk, history>>

-----------------------------------------------------------------------------

\* What a broker thread does by itself once its connection is accepted.
Handle(t) ==
  \/ Lock(t) \/ Dispatch(t) \/ DispatchOther(t) \/ Unlock(t) \/ Send(t)
  \/ Produce(t) \/ QueueAdd(t) \/ WriteNode(t)
  \/ Consume(t) \/ QueuePoll(t)
  \/ AddQueue(t) \/ RemoveQueue(t) \/ UnlinkNext(t) \/ RemoveDir(t)
  \/ Read(t)

Startup == Start \/ (\E q \in QueueName : LoadQueue(q)) \/ Listen \/ LoadFails

Crash == MayCrash /\ status # "down" /\ Die

Next ==
  \/ Startup
  \/ Crash
  \/ \E t \in Thread : (\E r \in Request : Accept(t, r)) \/ Handle(t)

Spec == Init /\ [][Next]_vars

\* The kernel runs every thread that can run, and somebody starts the program.
FairSpec == Spec /\ WF_vars(Startup) /\ \A t \in Thread : WF_vars(Handle(t))
-----------------------------------------------------------------------------
(* Properties                                                               *)

\* Every variable has its type: the queues' lists are sequences of nodes, the
\* node files of a directory finitely many.
TypeOK ==
  /\ status \in {"down", "loading", "up"}
  /\ pool \in SUBSET QueueName
  /\ nodes \in [QueueName -> Seq(Node)]
  /\ dirs \in SUBSET QueueName
  /\ files \in [QueueName -> SUBSET Node]
  /\ \A q \in QueueName : IsFiniteSet(files[q])
  /\ lock \in Thread \cup {None}
  /\ pc \in [Thread -> Steps]
  /\ req \in [Thread -> RequestRecord]
  /\ node \in [Thread -> Node]
  /\ todo \in [Thread -> SUBSET Nat]
  /\ res \in [Thread -> Response]
  /\ serial \in Nat
  /\ lastOut \in [QueueName -> Nat]
  /\ acked \in SUBSET Nat
  /\ removed \in SUBSET Nat

\* While nobody holds the lock, what a restart would load is what the process has
\* in memory: the same queues, and in each the same nodes in the same order.
MemoryMatchesDisk ==
  status = "up" /\ lock = None =>
    /\ pool = dirs
    /\ \A q \in pool :
         /\ files[q] = NodesOf(q)
         /\ \A j, k \in DOMAIN nodes[q] : j < k => nodes[q][j].id < nodes[q][k].id

\* Each queue is first in, first out, across crashes and restarts: its list is in
\* the order of production, and whatever is in the list or on disk is younger than
\* everything consumed, so that nothing overtakes and nothing is consumed twice.
OldestFirst ==
  \A q \in QueueName :
    /\ \A j, k \in DOMAIN nodes[q] : j < k => nodes[q][j].msg < nodes[q][k].msg
    /\ \A f \in files[q] \cup NodesOf(q) : lastOut[q] < f.msg

Stored(m) == \E q \in dirs : \E f \in files[q] : f.msg = m /\ f.whole

\* A message whose produce was answered with success is on disk, and in full, until
\* it is consumed or its queue is removed, whatever crash comes in between.
AckedStored == \A m \in acked : m \in removed \/ Stored(m)

\* When produce answers "Message produced." the message is in its queue, in memory:
\* the confirmation of README.md:46.
ProducedIsQueued ==
  \A t \in Thread :
    pc[t] = "unlock" /\ req[t].type = "produce" /\ res[t].ok =>
      \E f \in NodesOf(req[t].queueName) : f.msg = node[t].msg

\* Every node file of a queue of the pool is a node of that queue, or the one a
\* thread is about to link, so that no restart brings back what a client has seen
\* leave the queue. This holds whatever system calls fail.
NoOrphanFiles ==
  \A q \in pool : \A f \in files[q] :
    \/ \E g \in NodesOf(q) : g.id = f.id /\ g.msg = f.msg
    \/ \E t \in Thread : /\ pc[t] = "WriteNode" /\ req[t].queueName = q
                         /\ node[t].id = f.id /\ node[t].msg = f.msg

\* A queue of the pool has its directory as long as the process serves requests, so
\* that get_next_node_id finds it and produce reads no id through NULL.
PoolHasDirs == status = "up" => pool = dirs

Younger(q, f) == {g \in files[q] : g.id > f.id}

\* The text at index i is what the file holds that i files are younger than.
IsAt(q, text, i) == \E f \in files[q] : Contents(f) = text /\ Cardinality(Younger(q, f)) = i

ReadMatchesDisk(t) ==
  LET q == req[t].queueName
      d == res[t].data
  IN  /\ req[t].type = "length" => d = <<Cardinality(files[q])>>
      /\ req[t].type = "get" => IsAt(q, d[1], req[t].index)
      /\ req[t].type = "getAll" => /\ Len(d) = Cardinality(files[q])
                                   /\ \A k \in DOMAIN d : IsAt(q, d[k], k - 1)
      /\ req[t].type = "getAllQueueNames" => res[t].names = dirs

\* What length, get, getAll and getAllQueueNames read in memory is what is on disk: as many
\* messages, and at each index the text its file holds, an empty one if the file is empty.
ReadsMatchDisk == \A t \in Thread : pc[t] = "unlock" /\ res[t].ok => ReadMatchesDisk(t)

\* The queues whose node files a thread unlinks.
Removing == {req[t].queueName : t \in {u \in Thread : pc[u] = "UnlinkNext"}}

\* A queue on disk is the queue a client sees: the messages of its node files. It is
\* being removed while a thread unlinks them.
Store == INSTANCE FifoStore WITH
  exists   <- dirs,
  stored   <- [q \in QueueName |-> {f.msg : f \in files[q]}],
  removing <- Removing,
  last     <- lastOut,
  offered  <- serial

\* The threads together implement the queues of FifoStore, whatever crashes come in
\* between and whatever system calls fail but rmdir: when that fails the ids of the
\* unlinked files are given out again while their nodes are still in memory.
ImplementsStore == Store!Spec

\* The names of queues, in the pool and on disk.
PoolNames == INSTANCE QueueNames

\* Whatever system calls fail, the threads change the queues in memory and the queues on
\* disk as if each operation did both at once, as QueuePool does with its array.
ImplementsNames == PoolNames!Spec

\* No request the broker knows ends the process: none follows a NULL node or id.
ServerSurvives == [][status = "up" => status' = "up"]_vars

\* Whoever holds the lock lets go of it.
LockIsReleased == \A t \in Thread : lock = t ~> lock # t

\* When clients stop sending, every request that was accepted is answered.
ArrivalsStop == <>[][\A t \in Thread : pc[t] = "closed" => pc'[t] = "closed"]_vars
AllAnswered == ArrivalsStop => \A t \in Thread : pc[t] = "lock" ~> pc[t] = "closed"
-----------------------------------------------------------------------------
(* The inductive invariant: why OldestFirst, NoOrphanFiles and PoolHasDirs  *)
(* hold whatever system calls fail and wherever the process stops.          *)

\* The mutex admits one thread to the operations, and only while the server is up.
Locking ==
  /\ \A t \in Thread : pc[t] \in Critical <=> lock = t
  /\ status # "up" => \A t \in Thread : pc[t] = "closed"

\* What is not in the pool has no nodes, what has no directory has no files.
Pooling ==
  /\ PoolHasDirs
  /\ pool \subseteq dirs
  /\ status = "down" => pool = {}
  /\ \A q \in QueueName : /\ q \notin pool => nodes[q] = <<>>
                          /\ q \notin dirs => files[q] = {}

\* An operation on a queue is at a queue of the pool until it is done.
Serving ==
  \A t \in Thread :
    /\ pc[t] \in NeedsQueue \cup {"QueueAdd", "WriteNode", "QueuePoll", "UnlinkNext"} =>
         req[t].queueName \in pool
    /\ pc[t] = "addQueue" => req[t].data \in QueueName
    /\ pc[t] = "QueuePoll" => /\ nodes[req[t].queueName] # <<>>
                              /\ node[t] = Head(nodes[req[t].queueName])

\* A message that is being produced is the youngest there is, and its file gets the
\* id of the node.
Producing ==
  \A t \in Thread :
    LET r == req[t].queueName
    IN  /\ pc[t] \in {"QueueAdd", "WriteNode"} =>
             /\ node[t].msg = serial
             /\ \A q \in QueueName : /\ lastOut[q] < serial
                                     /\ \A f \in NodesOf(q) : f.msg < serial
        /\ pc[t] = "QueueAdd" => /\ node[t].id \in NextIds(files[r])
                                 /\ \A q \in QueueName : \A f \in files[q] : f.msg < serial
        /\ pc[t] = "WriteNode" =>
             \A q \in QueueName : \A f \in files[q] :
               f.msg = serial => q = r /\ f.id = node[t].id

\* Files are in the order of their messages, and no message is above serial.
FilesOrdered ==
  \A q \in QueueName :
    /\ lastOut[q] <= serial
    /\ \A f \in files[q] \cup NodesOf(q) : f.msg <= serial
    /\ \A f, g \in files[q] : /\ f.id < g.id => f.msg < g.msg
                              /\ f.id = g.id => f = g

IndInv ==
  /\ Locking /\ Pooling /\ Serving /\ Producing
  /\ FilesOrdered /\ OldestFirst /\ NoOrphanFiles
-----------------------------------------------------------------------------
(* What is inductive as well when rmdir does not fail: why ImplementsStore  *)
(* holds, and with less that fails AckedStored and MemoryMatchesDisk.       *)

\* No id of a list is given out again: the newest node has its file, or they are all
\* gone and the directory follows.
IdsAscend ==
  \A q \in QueueName :
    /\ \A j, k \in DOMAIN nodes[q] : j < k => nodes[q][j].id < nodes[q][k].id
    /\ nodes[q] # <<>> =>
         \/ \E f \in files[q] : \A g \in NodesOf(q) : g.id <= f.id
         \/ q \in Removing /\ files[q] = {}

\* A node is linked behind those of smaller ids, and has its file by then.
Linking ==
  \A t \in Thread : \A q \in QueueName : pc[t] = "WriteNode" /\ req[t].queueName = q =>
    /\ \A g \in NodesOf(q) : g.id < node[t].id
    /\ \E f \in files[q] : f.id = node[t].id /\ f.msg = node[t].msg

\* A removal has all that is left of the files on its list, unless it could not open the
\* directory.
Unlinking ==
  \A t \in Thread : \A q \in QueueName : pc[t] = "UnlinkNext" /\ req[t].queueName = q =>
    todo[t] \in {{}, Ids(files[q])}

StoreInv == TypeOK /\ IndInv /\ IdsAscend /\ Linking /\ Unlinking

\* A thread works at the operation its request asks for.
Working ==
  \A t \in Thread :
    /\ pc[t] \in Operations => pc[t] = req[t].type
    /\ pc[t] \in {"QueueAdd", "WriteNode"} => req[t].type = "produce" /\ node[t].whole
    /\ pc[t] = "QueuePoll" => req[t].type = "consume"
    /\ pc[t] = "UnlinkNext" => req[t].type = "removeQueue"

\* A success that is on its way to the client is stored like one that has arrived.
AckInv ==
  /\ Working /\ AckedStored
  /\ \A t \in Thread :
       pc[t] \in {"unlock", "send"} /\ req[t].type = "produce" /\ res[t].ok =>
         node[t].msg \in removed \/ Stored(node[t].msg)

\* A node has its file, if perhaps an empty one.
Filed(q, g) == \E f \in files[q] : f.id = g.id /\ f.msg = g.msg

\* Every node of the pool has its file, but for those that a removal has unlinked. (That
\* every file has its node is NoOrphanFiles.)
MemoryInv ==
  /\ Working
  /\ \A q \in pool :
       \/ \A g \in NodesOf(q) : Filed(q, g)
       \/ \E t \in Thread :
            pc[t] = "UnlinkNext" /\ req[t].queueName = q /\ todo[t] = Ids(files[q])

\* A node in memory and its file are whole, or neither is.
WholeInv ==
  \A q \in pool : \A f \in files[q] : \A g \in NodesOf(q) : f.id = g.id => f.whole = g.whole
=============================================================================
