------------------------------ MODULE Process ------------------------------
(***************************************************************************)
(* The process around the broker: app.c, server/server.c, the life of a    *)
(* thread in server/s_thread.c, the file descriptors they and persist.c    *)
(* use, the stacks of its threads, the block of the queue pool, which the  *)
(* last removal frees and exit frees too, and the counter of util/mem.c.   *)
(* What a request does to queues and disk is in Broker; here it opens and  *)
(* closes files and uses the memory that app_close frees.                  *)
(*                                                                         *)
(* A definition "Bug: ..." is no part of the model: it is what the         *)
(* definition after it would be if the code had that bug.                  *)
(***************************************************************************)
EXTENDS Integers, FiniteSets

CONSTANTS
  Thread,     \* broker threads, bounds the connections open at a time
  Main,       \* the main thread
  MaxFds,     \* size of the descriptor table, what is open from the start not counted
  MaxStacks,  \* threads for which there is room: their stacks are never given back
  MaxOpens,   \* bound: files one request opens and closes, one after the other
  MaxBlocks,  \* bound: blocks one process allocates
  None

ASSUME ThreadAssumption == IsFiniteSet(Thread) /\ Main \notin Thread
ASSUME BoundsAssumption ==
  MaxFds \in Nat \ {0} /\ MaxStacks \in Nat /\ MaxOpens \in Nat /\ MaxBlocks \in Nat
ASSUME NoneAssumption == None \notin Thread /\ None \notin Nat

Actor == Thread \cup {Main}

VARIABLES
  phase,     \* "down", "loading" (app_init), "up" (main) or "exiting" (app_close)
  asking,    \* the main thread waits in close_signal_handler for an answer
  memory,    \* what server leads to: "unset", "live", "poolFreed", "freed"
  pool,      \* the block of the queue pool: "none", "block", or "dangling" when it is freed
  pc,        \* per thread, what it does next, "none" if there is no such thread
  todo,      \* per thread, the files its request has still to open
  doing,     \* what the holder of the mutex does: "add" or "remove" a queue, or "other"
  lock,      \* who holds the mutex
  used,      \* descriptors in use
  leaked,    \* history: directories removals have opened, sockets that got no thread
  stacks,    \* threads created: nobody joins or detaches them, so their stacks stay
  blocks,    \* history: blocks malloc has returned
  counter,   \* mem_allocated
  loaded,    \* per actor, the counter it has read and not yet written back
  raced,     \* history: two actors have counted at a time
  idleExit,  \* history: exit began with server->broker set and without a connection
  misused    \* history: freed or unset memory has been used

vars == <<phase, asking, memory, pool, pc, todo, doing, lock, used, leaked, stacks, blocks,
          counter, loaded, raced, idleExit, misused>>
running == <<phase, asking, memory, pool, idleExit>>
requests == <<pc, todo, doing, lock>>
descriptors == <<used, leaked>>
allocations == <<blocks, counter, loaded, raced>>
counts == <<stacks, allocations>>

\* The state of no process.
Gone ==
  [phase |-> "down", asking |-> FALSE, memory |-> "unset", pool |-> "none",
   pc |-> [t \in Thread |-> "none"], todo |-> [t \in Thread |-> 0], doing |-> "other",
   lock |-> None, used |-> 0, leaked |-> 0, stacks |-> 0, blocks |-> 0, counter |-> 0,
   loaded |-> [a \in Actor |-> None], raced |-> FALSE, idleExit |-> FALSE, misused |-> FALSE]

Init ==
  /\ phase = Gone.phase /\ asking = Gone.asking /\ memory = Gone.memory /\ pool = Gone.pool
  /\ pc = Gone.pc /\ todo = Gone.todo /\ doing = Gone.doing /\ lock = Gone.lock
  /\ used = Gone.used /\ leaked = Gone.leaked /\ stacks = Gone.stacks
  /\ blocks = Gone.blocks /\ counter = Gone.counter /\ loaded = Gone.loaded
  /\ raced = Gone.raced /\ idleExit = Gone.idleExit /\ misused = Gone.misused

Die ==
  /\ phase' = Gone.phase /\ asking' = Gone.asking /\ memory' = Gone.memory /\ pool' = Gone.pool
  /\ pc' = Gone.pc /\ todo' = Gone.todo /\ doing' = Gone.doing /\ lock' = Gone.lock
  /\ used' = Gone.used /\ leaked' = Gone.leaked /\ stacks' = Gone.stacks
  /\ blocks' = Gone.blocks /\ counter' = Gone.counter /\ loaded' = Gone.loaded
  /\ raced' = Gone.raced /\ idleExit' = Gone.idleExit /\ misused' = Gone.misused

Connected == {t \in Thread : pc[t] # "none"}
Holding == {t \in Thread : pc[t] = "holding"}
-----------------------------------------------------------------------------
(* The main thread                                                          *)

\* The main thread runs its program: no handler interrupts it, it is in no increment.
MainRuns == ~asking /\ loaded[Main] = None

\* exit: the main thread runs app_close.
RunsAppClose ==
  /\ phase' = "exiting" /\ asking' = FALSE
  /\ idleExit' = (phase = "up" /\ Connected = {})
  /\ UNCHANGED <<memory, pool, requests, counts, misused>>

Exit == RunsAppClose /\ UNCHANGED descriptors

\* app_init: Server_init begins to load the queues.
Start ==
  /\ phase = "down"
  /\ phase' = "loading"
  /\ UNCHANGED <<asking, memory, pool, idleExit, requests, descriptors, counts, misused>>

\* The queues are loaded, if there are any; server->broker is set, the socket listens.
Listen ==
  /\ phase = "loading" /\ MainRuns
  /\ phase' = "up" /\ memory' = "live" /\ pool' \in {"none", "block"} /\ used' = 1
  /\ UNCHANGED <<asking, idleExit, requests, leaked, counts, misused>>

\* The queues are loaded, but the socket cannot be bound: Server_error exits.
ListenFails ==
  /\ phase = "loading" /\ MainRuns
  /\ phase' = "exiting" /\ memory' = "live" /\ pool' \in {"none", "block"} /\ used' = 1
  /\ idleExit' = TRUE
  /\ UNCHANGED <<asking, requests, leaked, counts, misused>>

\* An exit(1) of queue_pool_load.
LoadFails == phase = "loading" /\ MainRuns /\ Exit

\* SIGINT, which the handler ignores while it asks.
Interrupt ==
  /\ phase \in {"loading", "up"} /\ ~asking
  /\ asking' = TRUE
  /\ UNCHANGED <<phase, memory, pool, idleExit, requests, descriptors, counts, misused>>

AnswerNo ==
  /\ asking
  /\ asking' = FALSE
  /\ UNCHANGED <<phase, memory, pool, idleExit, requests, descriptors, counts, misused>>

AnswerYes == asking /\ Exit

\* Bug: the handler does not interrupt the main thread, which accepts while app_close runs.
AcceptAtExit(t) ==
  /\ phase \in {"up", "exiting"} /\ pc[t] = "none" /\ used < MaxFds /\ stacks < MaxStacks
  /\ pc' = [pc EXCEPT ![t] = "recv"] /\ used' = used + 1 /\ stacks' = stacks + 1
  /\ UNCHANGED <<running, todo, doing, lock, leaked, allocations, misused>>

\* main and Server_accept: a connection gets its thread.
Accept(t) ==
  /\ phase = "up" /\ MainRuns /\ pc[t] = "none" /\ used < MaxFds /\ stacks < MaxStacks
  /\ pc' = [pc EXCEPT ![t] = "recv"] /\ used' = used + 1 /\ stacks' = stacks + 1
  /\ UNCHANGED <<running, todo, doing, lock, leaked, allocations, misused>>

\* accept needs a descriptor; without one Server_error exits.
AcceptFails == phase = "up" /\ MainRuns /\ used = MaxFds /\ Exit

\* pthread_create needs a stack; without one Server_error exits, the client's socket open.
CreateFails ==
  /\ phase = "up" /\ MainRuns /\ used < MaxFds /\ stacks = MaxStacks
  /\ used' = used + 1 /\ leaked' = leaked + 1
  /\ RunsAppClose

\* app_close follows server->broker, which Server_init sets last, after the load.
FollowUnset ==
  /\ phase = "exiting" /\ memory = "unset"
  /\ misused' = TRUE
  /\ UNCHANGED <<running, requests, descriptors, counts>>

\* queue_pool_destruct frees the block of the pool, even one that has been freed already.
DestroyPool ==
  /\ phase = "exiting" /\ memory = "live"
  /\ memory' = "poolFreed" /\ misused' = (misused \/ pool = "dangling")
  /\ UNCHANGED <<phase, asking, pool, idleExit, requests, descriptors, counts>>

\* Server_destruct.
FreeServer ==
  /\ phase = "exiting" /\ memory = "poolFreed"
  /\ memory' = "freed"
  /\ UNCHANGED <<phase, asking, pool, idleExit, requests, descriptors, counts, misused>>

\* The end of exit, or of what came of following server->broker.
Ended == phase = "exiting" /\ (IF memory = "unset" THEN misused ELSE memory = "freed") /\ Die
-----------------------------------------------------------------------------
(* A broker thread                                                          *)

\* The thread is at that place, and in no increment.
At(t, place) == pc[t] = place /\ loaded[t] = None

\* What a thread does with server or the pool while app_close is at work.
Uses(freed) == misused' = (misused \/ memory \in freed)

\* Bug: the mutex is held while recv waits.
RecvLocked(t) ==
  /\ At(t, "recv") /\ lock \in {None, t}
  /\ IF lock = None THEN lock' = t /\ pc' = pc ELSE lock' = None /\ pc' = [pc EXCEPT ![t] = "parse"]
  /\ UNCHANGED <<running, todo, doing, descriptors, counts, misused>>

\* The client sends something. It may as well be silent.
Recv(t) ==
  /\ At(t, "recv")
  /\ pc' = [pc EXCEPT ![t] = "parse"]
  /\ UNCHANGED <<running, todo, doing, lock, descriptors, counts, misused>>

\* Request_parse and Response_new, which reads server->broker.
Parse(t) ==
  /\ At(t, "parse")
  /\ pc' = [pc EXCEPT ![t] = "lock"]
  /\ Uses({"freed"})
  /\ UNCHANGED <<running, todo, doing, lock, descriptors, counts>>

Lock(t) ==
  /\ At(t, "lock") /\ lock = None
  /\ lock' = t /\ pc' = [pc EXCEPT ![t] = "handle"]
  /\ UNCHANGED <<running, todo, doing, descriptors, counts, misused>>

\* handle looks for the queue in the pool; the request, which removes no queue, opens n files.
Handle(t, n) ==
  /\ At(t, "handle")
  /\ pc' = [pc EXCEPT ![t] = "files"] /\ todo' = [todo EXCEPT ![t] = n]
  /\ doing' \in {"add", "other"}
  /\ Uses({"poolFreed", "freed"})
  /\ UNCHANGED <<running, lock, descriptors, counts>>

\* A queue in the pool is removed: persist_remove_queue opens the directory first, and never
\* closes it; the rest of the removal opens n files.
Remove(t, n) ==
  /\ At(t, "handle") /\ used < MaxFds /\ pool = "block"
  /\ used' = used + 1 /\ leaked' = leaked + 1 /\ doing' = "remove"
  /\ pc' = [pc EXCEPT ![t] = "files"] /\ todo' = [todo EXCEPT ![t] = n]
  /\ Uses({"poolFreed", "freed"})
  /\ UNCHANGED <<running, lock, counts>>

\* opendir or fopen.
Open(t) ==
  /\ At(t, "files") /\ todo[t] > 0 /\ used < MaxFds
  /\ used' = used + 1 /\ pc' = [pc EXCEPT ![t] = "holding"]
  /\ todo' = [todo EXCEPT ![t] = todo[t] - 1]
  /\ UNCHANGED <<running, doing, lock, leaked, counts, misused>>

\* Without a descriptor the request goes on without the file, or follows NULL.
OpenFails(t) ==
  /\ At(t, "files") /\ todo[t] > 0 /\ used = MaxFds
  /\ \/ /\ todo' = [todo EXCEPT ![t] = todo[t] - 1]
        /\ UNCHANGED <<running, pc, doing, lock, descriptors, counts, misused>>
     \/ Die

\* closedir or fclose.
CloseFile(t) ==
  /\ At(t, "holding")
  /\ used' = used - 1 /\ pc' = [pc EXCEPT ![t] = "files"]
  /\ UNCHANGED <<running, todo, doing, lock, leaked, counts, misused>>

\* What the operation may leave of the pool's block: a queue that could be added has one,
\* and the removal of the last queue frees it and keeps its address.
LeavesPool ==
  CASE doing = "add"    -> {pool, "block"}
    [] doing = "remove" -> {"block", "dangling"}
    [] OTHER            -> {pool}

\* The operation is over; memory and disk have been changed.
Unlock(t) ==
  /\ At(t, "files") /\ todo[t] = 0
  /\ lock' = None /\ pc' = [pc EXCEPT ![t] = "send"] /\ doing' = "other"
  /\ pool' \in LeavesPool
  /\ Uses({"poolFreed", "freed"})
  /\ UNCHANGED <<phase, asking, memory, idleExit, todo, descriptors, counts>>

\* Bug: the socket is not closed.
SendKeeps(t) ==
  /\ At(t, "send")
  /\ \/ /\ pc' = [pc EXCEPT ![t] = "none"]
        /\ UNCHANGED <<running, todo, doing, lock, descriptors, counts, misused>>
     \/ Die

\* send, close and the end of the thread; SIGPIPE if the client has gone.
Send(t) ==
  /\ At(t, "send")
  /\ \/ /\ used' = used - 1 /\ pc' = [pc EXCEPT ![t] = "none"]
        /\ UNCHANGED <<running, todo, doing, lock, leaked, counts, misused>>
     \/ Die
-----------------------------------------------------------------------------
(* mem_alloc, of any block, by anybody: mem_allocated++ reads and writes.   *)
(* mem_free does the same with mem_freed.                                   *)

Allocates(a) ==
  IF a = Main THEN phase \in {"loading", "up"} /\ ~asking
  ELSE pc[a] \in {"parse", "handle", "files", "holding", "send"}

Allocate(a) ==
  /\ Allocates(a) /\ loaded[a] = None /\ blocks < MaxBlocks
  /\ blocks' = blocks + 1
  /\ loaded' = [loaded EXCEPT ![a] = counter]
  /\ raced' = (raced \/ \E b \in Actor : loaded[b] # None)
  /\ UNCHANGED <<running, requests, descriptors, stacks, counter, misused>>

\* Bug: mem_allocated = mem_allocated++.
CountedAsRead(n) == n

\* What an actor that has read n writes back.
Counted(n) == n + 1

Count(a) ==
  /\ Allocates(a) /\ loaded[a] # None
  /\ counter' = Counted(loaded[a])
  /\ loaded' = [loaded EXCEPT ![a] = None]
  /\ UNCHANGED <<running, requests, descriptors, stacks, blocks, raced, misused>>
-----------------------------------------------------------------------------
Step(t) ==
  \/ Parse(t) \/ Lock(t)
  \/ \E n \in 0 .. MaxOpens : Handle(t, n) \/ Remove(t, n)
  \/ Open(t) \/ OpenFails(t) \/ CloseFile(t) \/ Unlock(t) \/ Send(t)

Next ==
  \/ Start \/ Listen \/ ListenFails \/ LoadFails \/ Interrupt \/ AnswerNo \/ AnswerYes
  \/ AcceptFails \/ CreateFails \/ FollowUnset \/ DestroyPool \/ FreeServer \/ Ended
  \/ \E t \in Thread : Accept(t) \/ Recv(t) \/ Step(t)
  \/ \E a \in Actor : Allocate(a) \/ Count(a)

Spec == Init /\ [][Next]_vars

\* The kernel runs every thread that can go on. Clients need not send, nobody need answer
\* the question of the handler, and nobody need connect.
FairSpec == Spec /\ \A t \in Thread : WF_vars(Step(t)) /\ WF_vars(Count(t))
-----------------------------------------------------------------------------
(* Properties                                                               *)

TypeOK ==
  /\ phase \in {"down", "loading", "up", "exiting"} /\ asking \in BOOLEAN
  /\ memory \in {"unset", "live", "poolFreed", "freed"} /\ pool \in {"none", "block", "dangling"}
  /\ pc \in [Thread -> {"none", "recv", "parse", "lock", "handle", "files", "holding", "send"}]
  /\ todo \in [Thread -> 0 .. MaxOpens] /\ doing \in {"add", "remove", "other"}
  /\ lock \in Thread \cup {None}
  /\ used \in 0 .. MaxFds /\ leaked \in Nat /\ stacks \in 0 .. MaxStacks
  /\ blocks \in Nat /\ counter \in Nat /\ loaded \in [Actor -> Nat \cup {None}]
  /\ raced \in BOOLEAN /\ idleExit \in BOOLEAN /\ misused \in BOOLEAN

\* Every path of a thread gives back what it has opened, the paths of errors too: what is
\* in use is the listening socket, a socket per connection, a file of the thread in the
\* mutex, a directory per removal, and the socket of the client that got no thread.
OnlyRemovalsLeak ==
  used = (IF memory = "unset" THEN 0 ELSE 1) + Cardinality(Connected) + Cardinality(Holding) + leaked

\* The server, once it listens, ends itself only when it is told to, when no stack is left
\* for another thread, or when the directories of removals leave no descriptor beside those
\* of the clients that are connected: serving requests that remove no queue does not use up
\* the descriptor table, whatever they do and whichever of their files cannot be opened.
OnlyLeaksEndServer ==
  [][phase = "up" /\ phase' = "exiting" =>
       \/ asking
       \/ stacks = MaxStacks
       \/ leaked + 2 + Cardinality(Connected) >= MaxFds]_vars

\* An exit while no client is connected, that of a server which cannot bind its socket too,
\* uses no memory that is freed or was never set, unless the last queue has been removed and
\* none added since: the thread that would accept new clients is the one that runs
\* app_close. Exits while clients are served and while the queues are loaded are not safe.
IdleExitIsSafe == idleExit /\ pool # "dangling" => ~misused

\* Lost updates only make mem_allocated too small, and it is exact where no two threads have
\* counted at a time.
CounterOnlyLoses ==
  /\ counter <= blocks
  /\ ~raced /\ (\A a \in Actor : loaded[a] = None) => counter = blocks

-----------------------------------------------------------------------------
(* The inductive invariant                                                  *)

\* What server leads to, by phase; before it leads anywhere there are no threads. The
\* handler has not begun to exit.
Startup ==
  /\ asking => phase \in {"loading", "up"}
  /\ phase \in {"down", "loading"} => memory = "unset"
  /\ phase = "up" => memory = "live"
  /\ memory = "unset" => Connected = {} /\ leaked = 0

\* The thread between Lock and Unlock is the one that holds the mutex.
Locking == \A t \in Thread : pc[t] \in {"handle", "files", "holding"} <=> lock = t

\* After an exit without clients nobody is left who could use what is freed.
Idle ==
  /\ idleExit => phase = "exiting" /\ Connected = {} /\ memory # "unset" /\ (misused => pool = "dangling")
  /\ misused => phase = "exiting"

\* What has been read and not yet written back is behind; alone, it is one behind.
Counting ==
  /\ counter <= blocks
  /\ \A a \in Actor : loaded[a] # None => loaded[a] < blocks
  /\ ~raced =>
       \/ counter = blocks /\ \A a \in Actor : loaded[a] = None
       \/ \E a \in Actor : /\ loaded[a] = counter /\ counter + 1 = blocks
                           /\ \A b \in Actor \ {a} : loaded[b] = None

\* What makes the properties last.
ProcessInv == TypeOK /\ OnlyRemovalsLeak /\ Startup /\ Locking /\ Idle /\ Counting
-----------------------------------------------------------------------------
(* Liveness                                                                 *)

\* When clients stop coming, a request that has arrived is answered or the process ends: a
\* client that is silent, and a question nobody answers, hold up nobody else.
ArrivalsStop == <>[][\A t \in Thread : pc[t] = "none" => pc'[t] = "none"]_vars
ReceivedIsAnswered ==
  ArrivalsStop => \A t \in Thread : pc[t] = "parse" ~> pc[t] = "none"
=============================================================================
