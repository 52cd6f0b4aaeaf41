# A verification of bmb

bmb is a message broker in C: clients send HTTP requests to a server that keeps
queues of messages in memory and a copy of them on disk, one directory per queue
and one file per message. This directory holds TLA+ models of it, the TLC runs
that check them on small instances and TLAPS proofs that hold for instances of
every size. Paths below are relative to the repository; `broker.c` is
`src/src/broker/broker.c` where `src/` is the root of the repository.

| file | what it is |
| --- | --- |
| `Broker.tla` | threads, broker, queues, pool and disk: the model of the program |
| `FifoStore.tla` | the abstract queues that the broker promises |
| `MCBroker.tla`, `MCBroker_*.cfg` | the instances TLC checks |
| `BrokerProofs.tla` | theorems about `Broker` that hold whatever fails |
| `StoreProofs.tla` | theorems about `Broker` that hold as long as some system calls do not fail |
| `QueueList.tla`, `Fifo.tla` | the linked list of a queue, and the sequence it implements |
| `MCQueueList.tla`, `MCQueueList_*.cfg`, `QueueListProofs.tla` | its instances and its theorems |
| `QueuePool.tla` | the array of queues, over restarts and to the exit of the process |
| `QueueNames.tla` | the set of names that `QueuePool` and `Broker` both implement |
| `MCQueuePool.tla`, `MCQueuePool_*.cfg`, `QueuePoolProofs.tla` | its instances and its theorems |
| `HttpRequest.tla` | the receive buffer of a thread, the parser, the response |
| `MCHttpRequest.tla`, `MCHttpRequest_*.cfg`, `HttpRequestProofs.tla` | its instances and its theorems |
| `MessageText.tla` | the bytes of a message: node file, restart, URL decoding |
| `MCMessageText.tla`, `MCMessageText_*.cfg`, `MessageTextProofs.tla` | its instances and its theorems |
| `Process.tla` | start, SIGINT and exit of the process; its threads, descriptors and counters |
| `MCProcess.tla`, `MCProcess_*.cfg`, `ProcessProofs.tla` | its instances and its theorems |
| `NaturalLemmas.tla` | lemmas about natural numbers: least elements, induction, recursion |
| `PROJECT.json` | components, runs, mutants, source lines, findings, hazards |

## The system

| component | state | operations | used by |
| --- | --- | --- | --- |
| process and socket (`app.c`, `server/server.c`) | the global `server`, the listening socket, `requestCounter` | `app_init` before `main`, the accept loop, `close_signal_handler`, `app_close` at exit | the operating system |
| broker threads (`server/s_thread.c`) | one joinable thread per connection, which nobody joins or detaches; the mutex `lock` | receive, parse, lock, `Response_handle`, unlock, assemble, send, close | `main` |
| HTTP request (`http/request`) | method and list of parameters | `Request_parse` | threads, outside the mutex |
| HTTP response (`http/response`) | status, headers, JSON body | `handle` (calls the broker), `assemble` | threads; `handle` inside the mutex |
| broker (`broker/broker.c`) | the pool | `broker_dispatch` and its eight operations | `Response_get_response` |
| queue pool (`queue/queue_pool.c`) | array of queues and its length | load, add, get by name, names, remove, destruct | broker, `app_close` |
| queue (`queue/queue.c`, `queue_node.c`) | linked list from `root` (newest) to `tail` (oldest), the flag `persist` | add, poll, get, size, clear | broker, pool |
| persistence (`persist/persist.c`) | `./data/<queue>/<id>` | eight requests of `persist_dispatch` | pool, queue, broker |
| util, mem (`util/`) | the counters `mem_allocated`, `mem_freed` | sort, decode, format, allocate | everybody |

A request goes down the table and its answer comes back up, all of it by calls.
Threads share everything below the mutex. Startup runs before the first `accept`
and fills the pool from the disk. The process ends by a signal, by `exit(1)` when
startup fails, or by following a NULL pointer when a failed system call was not
expected; nothing is written on the way out.

What is hard to test here, and the properties that answer it, is the list
`hazards` in `PROJECT.json`. In short, per component, correct means:

* threads: operations do not overlap; every accepted request is answered;
* broker and queue: first in, first out; nothing is consumed twice or comes back;
  an acknowledged message is not lost; answers tell what is there;
* pool and persistence: between requests, memory is what a restart would load;
  every partial failure leaves a state the next request and the next start can
  live with;
* process: no valid request ends it, a crash at any point is survived;
* request, response, util: what a client sends is what the broker is asked; the
  bytes sent are the answer; decoding and formatting do what their comments say;
* mem: a counter is never ahead of what it counts.

## The model

`Broker` has one action per part of an operation that ends in a system call which
changes the disk, because the process can stop between any two of those. Between
two such steps nothing else that is shared can change: the mutex is held.

| in the model | in the code |
| --- | --- |
| `status` | `"down"`; `"loading"` from `app_init` to `listen`; `"up"` |
| `pool`, `nodes[q]` | names of the pool's queues; the list of `q`, tail first |
| `dirs`, `files[q]` | `./data/q`; its files, `id` the name, `msg` the content, `whole` if all of it was written |
| `lock`, `pc[t]` | the mutex; the next step of thread `t` |
| `req[t]`, `node[t]`, `todo[t]`, `res[t]` | locals: the broker request, `newNode` or `node`, the rest of the list in `persist_remove_queue`, the broker response |
| `serial`, `lastOut`, `acked`, `removed` | history, read by the properties only |

| action | code |
| --- | --- |
| `Start`, `LoadQueue`, `Listen`, `LoadFails` | `app_init`, one turn of the loop of `queue_pool_load`, `listen`, the `exit(1)`s |
| `Accept`, `Lock`, `Unlock`, `Send` | `main` and `broker_thread` |
| `Dispatch`, `DispatchOther` | `broker_dispatch`, for known and unknown types |
| `Produce`, `QueueAdd`, `WriteNode` | `produce` up to the new node; `Queue_add` up to `fopen`; writing, closing, linking |
| `Consume`, `QueuePoll` | `consume` up to the tail; `unlink`, unlinking from the list, the answer |
| `AddQueue` | `add_queue`, `queue_pool_add`, `create_queue_dir` |
| `RemoveQueue`, `UnlinkNext`, `RemoveDir` | `persist_remove_queue`: the list, one turn of the loop, `rmdir` and the removal from the pool |
| `Length`, `Get`, `GetAll`, `GetAllQueueNames` | the operations that only read |
| `Crash`, `Die` | the end of the process; what is on disk stays |

A message is the number of the produce that brought it, and its text is the same number if
all of it was written, or nothing: `Contents`. `Faults` is the set of
system calls that may fail, any time they are called; a call also fails when the
state of the disk makes it fail. `MayCrash` lets the process end anywhere.

A definition with the comment `Bug:` belongs to no specification. It is a version of the
definition after it with a plausible mistake; `PROJECT.json` pairs each with the
property that must, and does, fail when it takes the place of the original.

`FifoStore` is the promise of README.md ("Usage"): independent queues, each a set of
numbered messages that are put in order and taken oldest first. Removal is the
only operation that takes time there. `Broker!Store` maps the disk to it, not the
memory, so that a crash is no step of the abstract queues at all.

### The linked list

`QueueList` opens what is the sequence `nodes[q]` in `Broker`: `root` and `tail` are the
pointers of the queue, `next[n]` and `message[n]` those of node `n`, `allocated` what
malloc has given out and nobody has freed. One step is one turn of a loop, so that
what a loop does with the pointers is a property and not an assumption: `pc` says which
loop runs, `el`, `counter`, `left`, `index`, `array` are its locals. The mutex serves
one call at a time, so no call starts while another is under way. `chain` is a history
variable, the nodes in the order they were added; the pointers never read it.

| action | code |
| --- | --- |
| `New`, `Add` | `Queue_new`, `Queue_add` with the node `produce` made |
| `Begin`, `CountNext`, `Counted` | `Queue_size`, with which every other call begins |
| `Length`, `Get`, `GetAll`, `Poll`, `Clear` | what the call does with the size |
| `GetNext`, `GetDone`, `GetAllNext`, `PollFound` | `Queue_get`, and what its caller does with the node |
| `Unlink`, `UnlinkFails` | `Queue_poll` from the removal on disk on, and `consume` |
| `ClearNext`, `Destruct` | the two loops of `Queue_clear`, `Queue_destruct` |

`Fifo` is a sequence of messages and an answer to each call. `QueueList` maps to it the
messages of `chain` and its own `answer`: every step inside a loop is a stutter, and
the step that returns is the abstract call.

### The pool

`QueuePool` opens what is the set `pool` in `Broker`: `array` is the pool's array, its
length the pool's `length`, `block` the state of the memory the pointer leads to. A step
is a call, which the mutex makes atomic; loading is one step per directory. `Remove` is
the call after the disk has removed the queue; a removal the disk refuses changes
nothing here. `Exit` is `app_close` in a process whose threads are idle.

`QueueNames` is what the two have in common, and what entitles `Broker` to treat the pool as a
set: names in memory and names on disk, where a queue is made in both at once and never twice,
and removed from both at once, between a start that loads the disk and an end that loses the memory. `QueuePool`
maps the names in its array to it. `Broker` maps its variables of the same names; there an operation
takes several steps, of which one is the abstract one (`AddQueue`, `RemoveDir`) and the others,
failures included, are stutters.

### The request and the response

`HttpRequest` follows a connection from accept to close. A text is a sequence of cells: a
word, a separator, or the name of a parameter with its `=`; it may be of any length. Nothing clears the
buffer, which is an array on the stack of the thread, and nothing marks the end of what `recv` puts there. What
ends it are the zeros of a stack nobody has used: threads are joinable, nobody joins or detaches them, so
the stack of one that has ended is never given to another. A text that fills the buffer is
not ended by anything; then the string goes on with a member of `Behind`, the texts that may stand there.

| in the model | in the code |
| --- | --- |
| `buffer[s]`, `got[s]` | `msg` of `broker_thread`; what `recv` returned, which the code ignores |
| `client[s]` | what the client sends, with the parameters it means |
| `req[s]`, `res[s]` | the parsed `Request`; the `Response` with its statuses, body and text |

| action | code |
| --- | --- |
| `Accept` | `main`, `Server_accept`, a thread on a stack of its own |
| `Receive`, `ReceiveNothing` | the one `recv`, for all of a text, a part of it, as much as the buffer holds, nothing |
| `Parse` | `Request_parse`: the method, the parameters that go with it, the pairs |
| `Handle` | `Response_handle` and `Response_get_response`; the broker's answer is any it may give |
| `Assemble` | `Response_assemble` |
| `Send` | `send`, the destructors, `close` |
| `Die` | the process follows NULL, runs off the buffer, or uses a response that is not set |

A response is a sequence of pieces of which only the length counts and whether it is a newline;
`Blocks` lists the blocks it is written to, with the bytes that are asked of `malloc` and those that are written.

`ParametersArrive` is about the parameters a client means, which `IsMessage` only asks to stand somewhere behind the
method: in the path, in a header, at the end of a body. It claims the value of each that has arrived
in full and does not end where the buffer ends, provided that its name does not occur before it. That
is where its claim ends: a value that contains the name of another parameter takes that one's place,
and an index of 65536 or more is cut to 16 bits, as the code does it.

### The bytes of a message

`MessageText` opens what is a number in `Broker`. `Produce` writes the file, `Restart` with
`ReadByte` and `ReadEnd` is the loop of `read_node`, `Consume` with `DecodeByte`, `Decoded`
and `DecodeFails` is `consume` and the loop of `url_decode`, one step per turn; `Send` ends the
answer. `NameSize` and `NameLength` are what `int_to_string` asks for and what it writes. A
message has a text, the bytes it means, and where in the text each of them ends.

### The process

`Process` has the main thread with the handler of SIGINT, which runs on it, and the threads as
far as they matter to it: a thread uses the pool and `server`, opens and closes files, and
allocates.

| in the model | in the code |
| --- | --- |
| `phase`, `asking` | `app_init`, `main`, `app_close`; `getchar` in `close_signal_handler` |
| `memory` | what `server` leads to: `server->broker` not set yet, live, the pool freed, all freed |
| `pool` | the block of the queue pool: none, a block, or a pointer to a freed one |
| `pc[t]`, `todo[t]`, `lock` | the place of thread `t`, the files it has still to open, the mutex |
| `doing` | what the thread in the mutex does: it adds a queue, removes one, or neither |
| `stacks` | threads created since the start; their stacks stay reserved when they end |
| `used` | descriptors in use |
| `blocks`, `counter`, `loaded[a]` | blocks allocated; `mem_allocated`; the value an actor has read of it |
| `leaked`, `raced`, `idleExit`, `misused` | history, read by the properties only |

| action | code |
| --- | --- |
| `Start`, `Listen`, `ListenFails`, `LoadFails` | `app_init`, with the two ways it exits |
| `Interrupt`, `AnswerNo`, `AnswerYes` | `close_signal_handler` |
| `Accept`, `AcceptFails`, `CreateFails` | `main`, `Server_accept`, `pthread_create` |
| `DestroyPool`, `FreeServer`, `FollowUnset`, `Ended` | `app_close`, step by step |
| `Recv`, `Parse`, `Lock`, `Unlock`, `Send` | `broker_thread`; with `Unlock` the pool is what the operation leaves (`LeavesPool`) |
| `Handle`, `Remove`, `Open`, `OpenFails`, `CloseFile` | what a request does with descriptors; `Remove` is `persist_remove_queue`, which opens a directory and never closes it |
| `Allocate`, `Count` | `mem_alloc`: the block, and the write of the increment |

## What TLC checks

All instances of `Broker` have two threads, which is what it takes to have one inside the
mutex and one waiting; a third would only wait too. Three messages are enough for
one to be consumed between two others, and for ids to be used again; two queues
for an operation on one to disturb the other. `WithinBound` enforces
`MaxMessages`; connections are not bounded. Threads are interchangeable, and
symmetry is used where no liveness is checked.

| run | instance | result |
| --- | --- | --- |
| `crash` | 2 queues, 3 messages, crashes, `opendir`, `mkdir` and `send` fail | `StoreInv`, `MemoryMatchesDisk`, `AckedStored`, `ImplementsStore` hold |
| `faults` | 1 queue, 3 messages, crashes, every failure, unknown types | `OldestFirst`, `NoOrphanFiles`, `PoolHasDirs`, `IndInv`, `ImplementsNames` hold |
| `reads` | 1 queue, 3 messages, fair, `mkdir` and `fopen` fail | `ReadsMatchDisk`, `ServerSurvives`, `LockIsReleased`, `AllAnswered` hold |
| `lost_ack` | `fopen` fails | `ProducedIsQueued` is violated |
| `failed_rmdir` | `rmdir` fails | `AckedStored` is violated |
| `list` | 3 nodes, 2 messages, any call to the disk refused, fair | `ListIsChain`, `PointersAreLive`, `IndInv`, `NothingLeaks`, `ImplementsFifo`, `CallsReturn` hold |
| `pool` | 3 names, 4 queues, refusals, crashes, exits | `NamesAreUnique`, `FoundByName`, `EntriesAreLive`, `IndInv`, `OrderIsKept`, `ImplementsNames` hold |
| `exit` | the same without refusals | `ExitIsClean` is violated |
| `http` | one thread at a time, eight kinds of clients, four cuts | `RequestInv`, `ParametersArrive`, `HeadEndsBeforeBody`, `TextFits` hold |
| `overflow` | the same | `BlocksFit` is violated |
| `text` | texts of up to two encoded bytes and a tail, three ids | `DecodingStaysInside`, `RestartKeepsText`, `AnswerIsMeant`, `MessageInv`, `NameFits` hold |
| `process` | two threads, five descriptors, five stacks, two allocations, fair | `ProcessInv`, `OnlyRemovalsLeak`, `OnlyLeaksEndServer`, `IdleExitIsSafe`, `CounterOnlyLoses`, `ReceivedIsAnswered` hold |

Bounds, by run:

* `list`: three nodes give lists of length 0, 1, 2 and 3: the three cases of
  `Queue_get_next_tail`, and one with a node between root and tail; addresses are used
  again once freed. The indices of `get` are 1 to 3, past the end of any list; 0 does not
  pass the validation in `broker_dispatch`.
* `pool`: three names let a queue be removed from the front, the middle and the end of the
  array; the fourth address lets a name come back while a refused queue still takes up one.
* `reads`: the failures are those after which the properties can hold. After a failed `write` the file of
  an acknowledged message is empty while memory has its text, so answers and disk
  differ; after a failed `unlink`, `rmdir` or `opendir` the process can end. `fopen` fails in the middle of
  `produce`, `mkdir` in `addQueue`: both are refused or go on with the lock held.
* `http`: threads share nothing here but a process that may end, so one at a time is enough, and it is
  used again and again. The buffer has 14 cells: of the eight texts two leave
  one cell, which stays a NUL, one is longer by one, so that the buffer is full, and the others are shorter. The cuts 1, 5, 7 and 9 fall behind
  the method, between two parameters, at the end of a value and behind the name of the last parameter. The clients send a message with a word
  that looks like a parameter, a body whose last value nothing ends, a query with a second parameter of the same name
  behind it, a request that the buffer cuts within a value, an index that does not fit 16 bits and a
  NUL, a text that begins with a space, one without a space, and nothing. Behind the buffer
  stand nothing, a word, or what looks like another parameter.
* `text`: the pieces are a letter and a digit, which may also be read as part of an escape, 0xFF, a
  plus sign, and escapes of a percent sign, a letter and NUL; the tails are broken
  escapes of each form. Two pieces let an escape follow a byte of each kind. Ids 1, 10 and 99
  are around a power of ten. `Garbage` is what may stand behind an undecoded message. `char`
  is signed, as on x86.
* `process`: five descriptors are the listening socket, two connections, a file, and one for
  removals to leak; a second leak or a third connection makes `fopen` or `accept` fail. Five stacks are one more than
  the connections that would fill the table if each kept its socket, so that a leak of sockets shows before
  stacks run out; and they do run out. `MaxOpens`, the files of one request, is 2 where `produce` opens up to five: they
  are opened and closed one at a time, so a further one meets nothing new. Two
  allocations overlap or follow one another.

**Fairness.** `FairSpec` has weak fairness of every thread's own steps (the kernel
runs each runnable thread) and of startup (somebody starts the program). None is
assumed of `Accept`, `Crash` or a failure. A thread that waits for the mutex is
enabled only now and then, and pthread mutexes promise no order, so while new
requests keep coming one thread may wait forever; `AllAnswered` therefore assumes
that arrivals stop. `QueueList!FairSpec` has weak fairness of `Step`, the steps of the call
that is under way: the thread that holds the mutex runs. `CallsReturn` then says
that no loop runs round a cycle. `Process!FairSpec` has weak fairness of what a thread does on
its own, the completion of an increment included, and of nothing else: not of `Recv` (clients
may stay silent), not of `Accept`, not of the answer to the handler's question. `ReceivedIsAnswered` assumes,
like `AllAnswered`, that arrivals stop.

### What the code does that its documentation does not say

Each of these has a run that shows it:

* `lost_ack`: `produce` answers "Message produced." when the node file could not be opened and
  the message was stored nowhere (`broker.c:496`, README.md:46).
* `failed_rmdir`: after a failed `rmdir` node ids start again at 1 below nodes that still exist.
  Consuming the old node deletes the file of a new message (README.md:70). This is the
  one failure that the abstract queues do not allow, and why most of `StoreProofs` excludes it.
* `exit`: `app_close`, the cleanup before closing, frees the block of the pool a second time when
  the last queue was removed and none was added since: the pointer outlives the block
  (`queue_pool.c:81`, `queue_pool.c:239`, `app.c:21`).
* `overflow`: the block of the header Connection is two bytes shorter than the header with its NUL, because the `+ 1`
  stands inside `strlen` (`response.c:199`). `malloc` may have rounded the block up, which is not
  part of what the code asks of it (`mem.c:9`).

These are visible in one place of the code and have no run of their own:

* A removal that fails half way keeps nodes in memory whose files are gone
  (`persist.c:390`); every consume of such a node ends the process (`queue.c:245`,
  `broker.c:189`) until a restart forgets them (README.md:33).
* `length` as documented is refused: it is listed among the operations that need
  data (`broker.c:21`, README.md:92).
* A write that fails is not noticed (`persist.c:167`): the message is acknowledged and its file is empty.
* The stacks of ended threads are never given back (`app.c:96`), nor are the directories that
  removals open (`persist.c:378`), so a server that runs long enough ends itself. `OnlyLeaksEndServer` says that these
  are the only reasons.
* `getAll` numbers nodes from 0, `get` takes 0 for a missing index (`broker.c:87`,
  README.md:121).

## What is proved

`BrokerProofs` proves, for any sets of queues, threads and requests, any `Faults`, with or
without crashes and for any bound, from the five assumptions on the constants in
`Broker`:

| theorem | states |
| --- | --- |
| `Inductive` | `Spec => [](TypeOK /\ IndInv)` |
| `TypeCorrect` | `Spec => []TypeOK` |
| `FirstInFirstOut` | `Spec => []OldestFirst` |
| `NoMessageComesBack` | `Spec => []NoOrphanFiles` |
| `EveryQueueHasItsDir` | `Spec => []PoolHasDirs` |
| `QueuesAreNames` | `Spec => ImplementsNames` |

None of the four invariants after the first is inductive. `TypeOK` needs `Serving`: `QueuePoll` takes the
tail of a list that must not be empty, and an operation looks up a queue name that
must not be NULL. `OldestFirst` speaks of lists, but a restart builds them from
files, so the files must be ordered as well (`FilesOrdered`), a message that is
about to be stored must be younger than everything (`Producing`), and what leaves
the list must leave the disk, or it would come back (`NoOrphanFiles`).
`NoOrphanFiles` needs the id of the node to be the id its file will get, although
the code asks for it twice (`Producing`), which holds because the mutex admits one
thread (`Locking`). `IndInv` is the conjunction of all these. The proof has one
lemma per action (`ProduceInd`, `QueueAddInd`, ...), each with a step per
conjunct that the action can disturb, and `NextInd` puts them together. `IndInv`
is also checked by TLC in the run `faults`. `QueuesAreNames` follows from it (`NamesStep`): a
queue that is added has neither an entry nor a directory (`Pooling`), one that is removed has both.

`StoreProofs` goes on from there. What it proves depends on what may fail, and each theorem
excludes the failures its argument cannot do without; all other constants stay free, but
for `ServerStaysUp`, which also assumes that nobody kills the process and that clients send only
types that the broker knows:

| theorem | states | system calls that do not fail |
| --- | --- | --- |
| `StoreInductive` | `Spec => []StoreInv` | `rmdir` |
| `StoreImplements` | `Spec => ImplementsStore` | `rmdir` |
| `AckedAreStored` | `Spec => []AckedStored` | `rmdir`, `fopen`, `write` |
| `ConfirmedIsQueued` | `Spec => []ProducedIsQueued` | `fopen` |
| `RestartRestores` | `Spec => []MemoryMatchesDisk` | `rmdir`, `unlink`, `write` |
| `ReadsAreRight` | `Spec => []ReadsMatchDisk` | `rmdir`, `unlink`, `write` |
| `ServerStaysUp` | `Spec => ServerSurvives` | `rmdir`, `unlink`, `opendir`, `send` |

`StoreInv` adds to `IndInv` that ids ascend along a list and the newest node still has its file
(`IdsAscend`), so that the next id, which is taken from the files, is above every node; that
a node is linked behind smaller ids, with its file written (`Linking`); and that a removal works on
a list of all files that are left (`Unlinking`), so that it is all of them or the directory
stays. When `rmdir` fails the files are gone and the list is not, and `IdsAscend` fails: that is
the run `failed_rmdir`. From `StoreInv` every step of `Broker` is a step of `FifoStore` or a
stutter (`StepRefines`, with one lemma per action): the file a consume unlinks is the oldest
(`HeadFile`), a new file is behind all others (`FileWritten`).

For `AckedStored` the invariant is `AckInv`: a success is stored from the moment it is decided,
while its answer is still on its way. `WholeFileStays` says which step can take a whole file off
the disk, and that each of them records the message as consumed or removed. `ProducedIsQueued` is
what the run `lost_ack` violates when `fopen` fails; `ConfirmedIsQueued` says that nothing else can
violate it, a failed `rmdir` included.

`MemoryInv` says that every node of the pool has its file, except in the middle of a removal, which has all
that is left of the files on its list; that every file has its node is `NoOrphanFiles`. A
write that fails does not matter to it, since the file is there, if empty. It is enough for
the places in `ReadsMatchDisk`: that the n-th node from the root has n files
younger than its own is a bijection between the files and the nodes (`Indexed`). It
is enough for `ServerSurvives` too: a poll finds the file of its node (`PolledIsStored`).
`MemoryMatchesDisk` and the answers of `get` and `getAll` compare contents, and need `WholeInv` besides: a node and its file are whole, or
neither is. TLC checks these properties on the runs `crash` and `reads`; that they hold with more failures
than those runs have is what the proofs add.

`QueueListProofs` proves, for any sets of addresses, messages and indices and lists of any
length, from the three assumptions in `QueueList`:

| theorem | states |
| --- | --- |
| `ListInductive` | `Spec => []IndInv` |
| `QueueTypeCorrect` | `Spec => []TypeOK` |
| `QueueStaysLinked` | `Spec => []ListIsChain` |
| `QueuePointersLive` | `Spec => []PointersAreLive` |
| `QueueImplementsFifo` | `Spec => ImplementsFifo` |
| `QueueLeaksNothing` | `Spec => NothingLeaks` |

`IndInv` is `TypeOK` and `ListInv`, and `ListInv` says where each loop is: `Queue_size` has counted up to its node (`Counting`),
`Queue_get` is as many nodes from its target as it has turns left (`Getting`),
`Queue_clear` has gathered the nodes before its node (`Clearing`), and between the two
loops of a poll the next tail is the node before the last (`Unlinking`). That is
needed for the types, since `next[el]` must not be `next[Null]`, and for the
refinement: the answer of `get` is the message at the index because of where its loop
is. `NextOfAt`, that next leads from the k-th node from the root to the one after it, is
the lemma everything rests on.

`QueuePoolProofs` proves, for any sets of names and addresses and from the three
assumptions in `QueuePool`:

| theorem | states |
| --- | --- |
| `PoolInductive` | `Spec => []IndInv` |
| `PoolTypeCorrect` | `Spec => []TypeOK` |
| `NamesStayUnique` | `Spec => []NamesAreUnique` |
| `QueuesAreFound` | `Spec => []FoundByName` |
| `EntriesStayLive` | `Spec => []EntriesAreLive` |
| `OrderStaysKept` | `Spec => OrderIsKept` |
| `PoolImplementsNames` | `Spec => ImplementsNames` |

`IndInv` is `TypeOK` and `PoolInv`, and `PoolInv` adds to names and entries what they depend on: the names in the array are
directories, and once the pool is loaded all directories are in it. Without that
`add_queue`, which looks for a duplicate in memory, could not know that there is none on
disk. `CompactProperties` says where `queue_pool_clear_nulls` leaves each entry. That the array
implements a set rests on `AppendedNames` and `RemovedNames`: appending adds one name, and clearing one
entry and closing the gap takes one name away, because no other entry has it (`NamesAreUnique`).

`HttpRequestProofs` proves, for any texts that clients send, of any length, any cuts, any
size of the buffer and anything that may stand behind it:

| theorem | states |
| --- | --- |
| `InvariantHolds` | `Spec => []RequestInv` |
| `TypeCorrect` | `Spec => []TypeOK` |
| `RequestsAreUnderstood` | `Spec => []ParametersArrive` |
| `HeadsEnd` | `Spec => []HeadEndsBeforeBody` |
| `ResponsesFit` | `Spec => []TextFits` |

`RequestInv` says that a thread begins with a buffer nobody has written to, that what has arrived stands at its front
until it is parsed, and that a response on its way was put together from a status and a
body (`Ready`). The proof follows the parser: the string agrees with the client's text up to the first
NUL of that text, to its end or to the end of the buffer, whichever comes first (`StringIsFront`); the method is
the cell before the first space (`MethodIsFirst`); a parameter that is received and the first of its name is the first
match in the string, and its value ends at a separator or at the end of the string (`ParseUnderstands`).
What may stand behind the buffer is left open, and neither the process' end there nor a value that
reaches the end of the buffer is excluded.

The last two are about one response, of which `Ready` says how it was made; its JSON may have any length. `HeadEndsOnce` follows the text line by line: no piece before the date is
a newline, so two newlines meet only behind the date, where the body starts. For `ResponsesFit`
`Bytes`, which adds up the pieces, is a function that is defined by recursion; `BytesDef` and
`BytesAdd` give it its equations, and with them the sum the code makes in a loop of its own (`TotalSize`)
is what `strcat` writes. The other blocks are not part of it: one of them is too short (run `overflow`).

`MessageTextProofs` proves, for messages of any length and number:

| theorem | states |
| --- | --- |
| `InvariantHolds` | `Spec => []MessageInv` |
| `TypeCorrect` | `Spec => []TypeOK` |
| `DecodingIsSafe` | `Spec => []DecodingStaysInside` |
| `RestartsKeepText` | `Spec => []RestartKeepsText` |
| `AnswersAreMeant` | `Spec => []AnswerIsMeant` |
| `NamesFit` | `Spec => []NameFits` |

Its invariant places the loop of `url_decode` behind the encoding of a meant byte (`Progress`).
The bytes between two such places decode to the one meant there and to no other. `NamesFit` holds
for ids of any size: a number lies between two powers of ten, the greater of which bounds its
digits (`NameHasRoom`).

`ProcessProofs` proves, for any finite set of threads, any size of the descriptor table and room for any number of stacks:

| theorem | states |
| --- | --- |
| `ProcessInductive` | `Spec => []ProcessInv` |
| `ProcessTypeCorrect` | `Spec => []TypeOK` |
| `ThreadsLeakNothing` | `Spec => []OnlyRemovalsLeak` |
| `OnlyLeaksEnd` | `Spec => OnlyLeaksEndServer` |
| `IdleExitsAreSafe` | `Spec => []IdleExitIsSafe` |
| `CounterIsNeverAhead` | `Spec => []CounterOnlyLoses` |

`ProcessInv` has four parts beside the types and `OnlyRemovalsLeak`: what `server` leads to in each phase (`Startup`), who holds the
mutex (`Locking`, which makes the open files at most one), that nobody is left after an exit
without clients, and memory is misused then only because the block of the pool was freed already (`Idle`), and how far
the counter is behind (`Counting`). `OnlyLeaksEnd` goes through the exits (`ExitsFromUp`): when `accept` finds the table full,
at most one thread has a file open, and the rest that is in use are connections and leaks (`FullOfLeaks`).
`IdleExitsAreSafe` is about exits after the load and with no connection. An exit while threads run, or within the
load, does use what is freed or not set; an exit after the last removal frees the block of the pool twice, here as
in the run `exit`.

`NaturalLemmas` is what the proofs about sums and powers rest on. The provers cannot use an
induction theorem whose parameter is an operator, so its lemmas take sets and functions instead: a set
that holds 0 and is closed under successors is `Nat` (`Induction`), and a first value and a step
function have a function that follows them (`Recursion`), so that the `CHOOSE` in a recursive
definition has something to choose. Both come from the least element of a set of numbers (`Least`).

Every safety property that a passing run checks is the statement of a theorem. Only model-checked are the
liveness properties `LockIsReleased`, `AllAnswered`, `CallsReturn` and `ReceivedIsAnswered`: fairness
and ENABLED are out of the provers' reach.

## What is not modelled

* What is in a message is in `MessageText`, what is in a request in `HttpRequest`; elsewhere
  they are model values. JSON is cJSON's, a library that is not in the repository. Log output.
* What stands behind a full buffer (`CLIENT_MESSAGE_SIZE`) is one of a set of texts, which the run chooses and the
  proofs leave open; `Request_extract_method`, when it runs on there, ends the process.
* Queue names have no length: that a path fits its 50 bytes (`persist.c:26`) is neither checked
  nor proved.
* Failing allocations, `regcomp` and `regexec`, which `exit` from a broker thread, a `realloc`
  that fails, and failures of cJSON.
* A second SIGINT within the handler or `app_close`, an exit
  before `server` is allocated. A failing `socket` is like a failing `bind`, without the
  descriptor.
* `mem_freed` is incremented like `mem_allocated`. `requestCounter` is only printed.
* An operating system that loses completed writes when the power fails: the code
  never calls `fsync`, so `Crash` is the end of the process, not of the machine.
* `./data` itself is taken to exist.
* `Queue_display_all`, `Queue_peek`, `Queue_get_root` and `get_epoch_milis`: nobody calls the
  first three, nobody reads what the last one sets.

## Plan

*Done*, in this order: `Broker`, `FifoStore` and `BrokerProofs`; `QueueList`, shown to implement
`Fifo`, and `QueuePool`, with their proofs; `Process`, `HttpRequest` and `MessageText`, with theirs;
`StoreProofs`; `QueueNames`, shown to be implemented by both `QueuePool` and `Broker`; the proofs about the text
of a response and about the names of nodes.

Left, the most useful first:

1. `HttpRequest` composed with `Broker`: a request that arrives in parts, up to what it
   does to the disk.
2. The exits from a broker thread, which run `app_close` while that thread holds the mutex.
3. The lengths of paths, should names get a bound in the code.
