------------------------------ MODULE QueueList ------------------------------
(***************************************************************************)
(* A queue in memory (queue/queue.c, queue/queue_node.c): nodes linked     *)
(* from the root, the newest, to the tail, the oldest.  Its functions are  *)
(* called one at a time, by the broker under the mutex and by the pool.    *)
(* A call is a few loops over the list; a step is one turn of a loop, or   *)
(* what the call does between two loops.                                   *)
(*                                                                         *)
(* A definition "Bug: ..." is no part of the model: it is what the         *)
(* definition after it would be if the code had that bug.                  *)
(***************************************************************************)
EXTENDS Integers, Sequences

CONSTANTS
  Node,         \* the addresses malloc gives to nodes
  Message,      \* the messages
  Index,        \* the indices get is called with (0 never passes validate_request)
  Null

ASSUME NullAssumption == Null \notin Node
ASSUME MessageAssumption == Message # {}
ASSUME IndexAssumption == Index \subseteq Nat

VARIABLES
  exists,     \* has the queue been made, and not been destructed?
  root, tail, \* of the Queue
  next,       \* per node, its next
  message,    \* per node, its message
  allocated,  \* nodes that are allocated
  chain,      \* history: the nodes in the queue in the order they were added
  pc,         \* where the call under way is
  op,         \* which it is
  index,      \* the index get is asked for, or getAll has come to
  el,         \* the node its loop is at
  counter,    \* the nodes Queue_size has counted
  left,       \* the turns Queue_get has yet to take
  nextTail,   \* what Queue_get_next_tail found
  array,      \* nodes gathered, by getAll for its answer, by Queue_clear to free them
  answer      \* of the last call that returned

list   == <<exists, root, tail, next, message, allocated, chain>>
locals == <<op, index, el, counter, left, nextTail, array>>
vars   == <<list, pc, locals, answer>>

Calls == {"length", "get", "getAll", "poll", "clear"}

Refused == [ok |-> FALSE, data |-> <<>>]
Answered(data) == [ok |-> TRUE, data |-> data]

\* A call returns, and its locals are gone.
Return(a) ==
  /\ answer' = a
  /\ pc' = "idle"
  /\ op' = "length" /\ index' = 0 /\ el' = Null /\ counter' = 0
  /\ left' = 0 /\ nextTail' = Null /\ array' = <<>>

Messages(nodes) == [k \in DOMAIN nodes |-> message[nodes[k]]]

\* Queue_get(k) from its first turn on.
GetFrom(k) == el' = root /\ left' = k /\ pc' = "get"

Init ==
  /\ exists = FALSE
  /\ root = Null /\ tail = Null
  /\ next = [n \in Node |-> Null]
  /\ message = [n \in Node |-> CHOOSE m \in Message : TRUE]
  /\ allocated = {}
  /\ chain = <<>>
  /\ pc = "idle" /\ op = "length" /\ index = 0 /\ el = Null
  /\ counter = 0 /\ left = 0 /\ nextTail = Null /\ array = <<>>
  /\ answer = Refused

\* Queue_new: mem_alloc, then Queue_reset.
New ==
  /\ ~exists
  /\ exists' = TRUE
  /\ root' = Null /\ tail' = Null
  /\ UNCHANGED <<next, message, allocated, chain, pc, locals, answer>>

\* A new node with its message, as produce and queue_pool_load make it, becomes the
\* root. When the disk refuses it, it is not linked, and nobody frees it.
Add(n, m) ==
  /\ exists /\ pc = "idle"
  /\ n \notin allocated
  /\ allocated' = allocated \cup {n}
  /\ message' = [message EXCEPT ![n] = m]
  /\ \/ /\ next' = [next EXCEPT ![n] = root]
        /\ root' = n
        /\ tail' = IF root = Null THEN n ELSE tail
        /\ chain' = Append(chain, n)
        /\ Return(Answered(<<>>))
     \/ /\ next' = [next EXCEPT ![n] = Null]
        /\ Return(Refused)
        /\ UNCHANGED <<root, tail, chain>>
  /\ UNCHANGED exists

\* Every other call begins with Queue_size. (Poll asks for it three times in a row,
\* in consume, in Queue_poll and in Queue_get_next_tail: the list is the same.)
Begin(o, k) ==
  /\ exists /\ pc = "idle"
  /\ pc' = "size"
  /\ op' = o /\ index' = k
  /\ el' = root
  /\ counter' = IF root = Null THEN 0 ELSE 1
  /\ UNCHANGED <<list, left, nextTail, array, answer>>

CountNext ==
  /\ pc = "size"
  /\ el # Null /\ next[el] # Null
  /\ el' = next[el]
  /\ counter' = counter + 1
  /\ UNCHANGED <<list, pc, op, index, left, nextTail, array, answer>>

Counted == pc = "size" /\ (IF el = Null THEN TRUE ELSE next[el] = Null)

\* length: the size is the answer.
Length ==
  /\ Counted /\ op = "length"
  /\ Return(Answered(<<counter>>))
  /\ UNCHANGED list

Get ==
  /\ Counted /\ op = "get"
  /\ \/ /\ counter > index
        /\ GetFrom(index)
        /\ UNCHANGED <<op, index, counter, nextTail, array, answer>>
     \/ /\ counter <= index
        /\ Return(Refused)
  /\ UNCHANGED list

\* Bug: the loop begins at index 1.
GetAllButRoot ==
  /\ Counted /\ op = "getAll"
  /\ \/ /\ counter > 1
        /\ index' = 1
        /\ GetFrom(1)
        /\ UNCHANGED <<op, counter, nextTail, array, answer>>
     \/ /\ counter <= 1
        /\ Return(Answered(<<>>))
  /\ UNCHANGED list

\* get_all calls Queue_get with each index from 0.
GetAll ==
  /\ Counted /\ op = "getAll"
  /\ \/ /\ counter > 0
        /\ index' = 0
        /\ GetFrom(0)
        /\ UNCHANGED <<op, counter, nextTail, array, answer>>
     \/ /\ counter = 0
        /\ Return(Answered(<<>>))
  /\ UNCHANGED list

\* Bug: the tail itself is its next tail.
PollToTail ==
  /\ Counted /\ op = "poll"
  /\ \/ /\ counter = 0
        /\ Return(Refused)
     \/ /\ counter = 1
        /\ nextTail' = Null
        /\ pc' = "unlink"
        /\ UNCHANGED <<op, index, el, counter, left, array, answer>>
     \/ /\ counter > 1
        /\ GetFrom(counter - 1)
        /\ UNCHANGED <<op, index, counter, nextTail, array, answer>>
  /\ UNCHANGED list

\* Bug: Queue_get_next_tail looks for a next tail in a queue of one.
PollOfOne ==
  /\ Counted /\ op = "poll"
  /\ \/ /\ counter = 0
        /\ Return(Refused)
     \/ /\ counter > 0
        /\ GetFrom(counter - 2)
        /\ UNCHANGED <<op, index, counter, nextTail, array, answer>>
  /\ UNCHANGED list

\* consume finds the queue empty, or Queue_get_next_tail looks for the node before
\* the last.
Poll ==
  /\ Counted /\ op = "poll"
  /\ \/ /\ counter = 0
        /\ Return(Refused)
     \/ /\ counter = 1
        /\ nextTail' = Null
        /\ pc' = "unlink"
        /\ UNCHANGED <<op, index, el, counter, left, array, answer>>
     \/ /\ counter > 1
        /\ GetFrom(counter - 2)
        /\ UNCHANGED <<op, index, counter, nextTail, array, answer>>
  /\ UNCHANGED list

\* Queue_clear begins to gather the nodes, unless there are none.
Clear ==
  /\ Counted /\ op = "clear"
  /\ el' = root
  /\ pc' = "clear"
  /\ UNCHANGED <<list, op, index, counter, left, nextTail, array, answer>>

GetNext ==
  /\ pc = "get" /\ left > 0
  /\ el' = next[el]
  /\ left' = left - 1
  /\ UNCHANGED <<list, pc, op, index, counter, nextTail, array, answer>>

Found == pc = "get" /\ left = 0

GetDone ==
  /\ Found /\ op = "get"
  /\ Return(Answered(<<message[el]>>))
  /\ UNCHANGED list

\* get_all adds the node to its answer and goes on with the next index, if any.
GetAllNext ==
  /\ Found /\ op = "getAll"
  /\ \/ /\ index + 1 < counter
        /\ array' = Append(array, el)
        /\ index' = index + 1
        /\ GetFrom(index + 1)
        /\ UNCHANGED <<op, counter, nextTail, answer>>
     \/ /\ index + 1 >= counter
        /\ Return(Answered(Messages(Append(array, el))))
  /\ UNCHANGED list

PollFound ==
  /\ Found /\ op = "poll"
  /\ nextTail' = el
  /\ pc' = "unlink"
  /\ UNCHANGED <<list, op, index, el, counter, left, array, answer>>

\* Bug: the new tail still points to the old one.
UnlinkHalf ==
  /\ pc = "unlink"
  /\ IF nextTail # Null
     THEN tail' = nextTail /\ UNCHANGED root
     ELSE root' = Null /\ tail' = Null
  /\ allocated' = allocated \ {tail}
  /\ chain' = Tail(chain)
  /\ Return(Answered(<<message[tail]>>))
  /\ UNCHANGED <<exists, next, message>>

\* Queue_poll takes the tail out of the list; consume reads its message and frees it.
Unlink ==
  /\ pc = "unlink"
  /\ \/ /\ nextTail # Null
        /\ next' = [next EXCEPT ![nextTail] = Null]
        /\ tail' = nextTail
        /\ UNCHANGED root
     \/ /\ nextTail = Null
        /\ root' = Null /\ tail' = Null
        /\ UNCHANGED next
  /\ allocated' = allocated \ {tail}
  /\ chain' = Tail(chain)
  /\ Return(Answered(<<message[tail]>>))
  /\ UNCHANGED <<exists, message>>

\* Bug: a poll that the disk refuses begins again.
UnlinkRetries ==
  /\ pc = "unlink"
  /\ pc' = "size"
  /\ el' = root
  /\ counter' = 1
  /\ UNCHANGED <<list, op, index, left, nextTail, array, answer>>

\* The disk refuses: Queue_poll returns NULL, which consume follows, and the process
\* ends with all its memory.
UnlinkFails ==
  /\ pc = "unlink"
  /\ exists' = FALSE
  /\ allocated' = {}
  /\ chain' = <<>>
  /\ Return(Answered(<<>>))
  /\ UNCHANGED <<root, tail, next, message>>

ClearNext ==
  /\ pc = "clear" /\ el # Null
  /\ array' = Append(array, el)
  /\ el' = next[el]
  /\ UNCHANGED <<list, pc, op, index, counter, left, nextTail, answer>>

\* Bug: the loop that frees the nodes ends one early.
DestructAllButOne ==
  /\ pc = "clear" /\ el = Null
  /\ allocated' = allocated \ {array[k] : k \in 1 .. counter - 1}
  /\ exists' = FALSE
  /\ chain' = <<>>
  /\ Return(Answered(<<>>))
  /\ UNCHANGED <<root, tail, next, message>>

\* The nodes gathered are freed, as many as were counted, and then, by Queue_destruct,
\* the queue.
Destruct ==
  /\ pc = "clear" /\ el = Null
  /\ allocated' = allocated \ {array[k] : k \in 1 .. counter}
  /\ exists' = FALSE
  /\ chain' = <<>>
  /\ Return(Answered(<<>>))
  /\ UNCHANGED <<root, tail, next, message>>

\* What a call does once it has begun.
Step ==
  \/ CountNext
  \/ Length \/ Get \/ GetAll \/ Poll \/ Clear
  \/ GetNext \/ GetDone \/ GetAllNext \/ PollFound
  \/ Unlink \/ UnlinkFails \/ ClearNext \/ Destruct

Next ==
  \/ New
  \/ \E n \in Node, m \in Message : Add(n, m)
  \/ \E k \in Index : Begin("get", k)
  \/ \E o \in Calls \ {"get"} : Begin(o, 0)
  \/ Step

Spec == Init /\ [][Next]_vars

\* The thread that has called runs.
FairSpec == Spec /\ WF_vars(Step)
-----------------------------------------------------------------------------
(* Properties                                                               *)

Linked == {chain[k] : k \in DOMAIN chain}

\* Every variable has its type.
TypeOK ==
  /\ exists \in BOOLEAN
  /\ root \in Node \cup {Null}
  /\ tail \in Node \cup {Null}
  /\ next \in [Node -> Node \cup {Null}]
  /\ message \in [Node -> Message]
  /\ allocated \in SUBSET Node
  /\ chain \in Seq(Node)
  /\ pc \in {"idle", "size", "get", "unlink", "clear"}
  /\ op \in Calls
  /\ index \in Nat
  /\ el \in Node \cup {Null}
  /\ counter \in Nat
  /\ left \in Nat
  /\ nextTail \in Node \cup {Null}
  /\ array \in Seq(Node)
  /\ answer \in [ok : BOOLEAN, data : Seq(Message \cup Nat)]

\* The pointers are the queue: from the root, next leads through the nodes from the
\* last that was added to the first, which is the tail and has no next.
ListIsChain ==
  exists =>
    /\ root = IF chain = <<>> THEN Null ELSE chain[Len(chain)]
    /\ tail = IF chain = <<>> THEN Null ELSE chain[1]
    /\ \A k \in DOMAIN chain : next[chain[k]] = IF k = 1 THEN Null ELSE chain[k - 1]
    /\ \A j, k \in DOMAIN chain : chain[j] = chain[k] => j = k

\* No loop follows a NULL pointer or reads a node that was freed.
PointersAreLive ==
  /\ pc = "get" => el \in allocated
  /\ pc \in {"size", "clear"} /\ el # Null => el \in allocated
  /\ pc = "unlink" => /\ tail \in allocated
                      /\ nextTail # Null => nextTail \in allocated \ {tail}

\* A node that leaves the queue is freed by the call that takes it out, the last one of
\* Queue_clear too. (One that the disk refuses never joins, and is never freed.)
NothingLeaks == [][\A n \in Linked \ Linked' : n \notin allocated']_vars

\* The functions of the queue implement a sequence of messages: consume takes the
\* oldest, get and getAll number them from the newest.
Sequence == INSTANCE Fifo WITH items <- Messages(chain)
ImplementsFifo == Sequence!Spec

\* Every call returns: no loop runs round a list that is a cycle.
CallsReturn == pc # "idle" ~> pc = "idle"
-----------------------------------------------------------------------------
(* The inductive invariant: where each loop is in the list.                 *)

\* The node at an index, counted from the root.
At(k) == chain[Len(chain) - k]

\* The first k nodes from the root.
First(k) == [j \in 1 .. k |-> At(j - 1)]

\* The index that Queue_get is called with.
Target == IF op = "poll" THEN counter - 2 ELSE index

Counting ==
  pc = "size" =>
    /\ array = <<>>
    /\ chain = <<>> => el = Null /\ counter = 0
    /\ chain # <<>> => counter \in 1 .. Len(chain) /\ el = At(counter - 1)

Getting ==
  pc = "get" =>
    /\ op \in {"get", "getAll", "poll"}
    /\ counter = Len(chain)
    /\ Target \in 0 .. counter - 1
    /\ left \in 0 .. Target
    /\ el = At(Target - left)
    /\ array = IF op = "getAll" THEN First(index) ELSE <<>>

Unlinking ==
  pc = "unlink" =>
    /\ chain # <<>>
    /\ nextTail = IF Len(chain) = 1 THEN Null ELSE chain[2]

Clearing ==
  pc = "clear" =>
    /\ counter = Len(chain)
    /\ Len(array) \in 0 .. counter
    /\ array = First(Len(array))
    /\ el = IF Len(array) = counter THEN Null ELSE At(Len(array))

ListInv ==
  /\ ListIsChain
  /\ pc # "idle" => exists
  /\ pc = "idle" => array = <<>>
  /\ Linked \subseteq allocated
  /\ ~exists => chain = <<>>
  /\ Counting /\ Getting /\ Unlinking /\ Clearing

IndInv == TypeOK /\ ListInv
=============================================================================
