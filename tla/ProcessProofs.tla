---------------------------- MODULE ProcessProofs ----------------------------
(***************************************************************************)
(* Proofs about Process, for any number of threads and descriptors.        *)
(***************************************************************************)
EXTENDS Process, FiniteSetTheorems, TLAPS

Places == {"none", "recv", "parse", "lock", "handle", "files", "holding", "send"}
Working == {"handle", "files", "holding"}

\* What a step of a thread leaves alone, and the types of what only some steps change.
server == <<phase, asking, memory, idleExit>>
Small ==
  /\ pool \in {"none", "block", "dangling"} /\ doing \in {"add", "remove", "other"}
  /\ stacks \in 0 .. MaxStacks

\* The sets that are counted are finite.
LEMMA CountsAreNumbers ==
  /\ IsFiniteSet(Connected) /\ IsFiniteSet(Holding)
  /\ Cardinality(Connected) \in Nat /\ Cardinality(Holding) \in Nat
<1>1. Connected \subseteq Thread /\ Holding \subseteq Thread
  BY DEF Connected, Holding
<1>2. IsFiniteSet(Connected) /\ IsFiniteSet(Holding)
  BY <1>1, ThreadAssumption, FS_Subset
<1> QED BY <1>2, FS_CardinalityType

\* A step that moves no thread moves none into the sets.
LEMMA Unmoved ==
  ASSUME pc' = pc
  PROVE  Connected' = Connected /\ Holding' = Holding
BY DEF Connected, Holding

\* A thread that goes from one place to another changes the sets it is counted in.
LEMMA Moved ==
  ASSUME pc \in [Thread -> Places], NEW t \in Thread, NEW place \in Places,
         pc' = [pc EXCEPT ![t] = place]
  PROVE  /\ pc' \in [Thread -> Places]
         /\ Connected' = IF place = "none" THEN Connected \ {t} ELSE Connected \cup {t}
         /\ Holding' = IF place = "holding" THEN Holding \cup {t} ELSE Holding \ {t}
<1>1. pc'[t] = place /\ \A u \in Thread \ {t} : pc'[u] = pc[u]
  OBVIOUS
<1>2. Connected' = IF place = "none" THEN Connected \ {t} ELSE Connected \cup {t}
  BY <1>1 DEF Connected
<1>3. Holding' = IF place = "holding" THEN Holding \cup {t} ELSE Holding \ {t}
  BY <1>1 DEF Holding
<1> QED BY <1>2, <1>3

\* The numbers of connections and held files after a thread has moved.
LEMMA CountsMoved ==
  ASSUME pc \in [Thread -> Places], NEW t \in Thread, NEW place \in Places,
         pc' = [pc EXCEPT ![t] = place]
  PROVE  /\ Cardinality(Connected') =
              Cardinality(Connected) + (IF place # "none" THEN 1 ELSE 0)
                                     - (IF pc[t] # "none" THEN 1 ELSE 0)
         /\ Cardinality(Holding') =
              Cardinality(Holding) + (IF place = "holding" THEN 1 ELSE 0)
                                   - (IF pc[t] = "holding" THEN 1 ELSE 0)
<1> DEFINE C == Cardinality(Connected)
           H == Cardinality(Holding)
<1>1. IsFiniteSet(Connected) /\ IsFiniteSet(Holding) /\ C \in Nat /\ H \in Nat
  BY CountsAreNumbers
<1>2. /\ Connected' = IF place = "none" THEN Connected \ {t} ELSE Connected \cup {t}
      /\ Holding' = IF place = "holding" THEN Holding \cup {t} ELSE Holding \ {t}
  BY Moved
<1>3. (t \in Connected <=> pc[t] # "none") /\ (t \in Holding <=> pc[t] = "holding")
  BY DEF Connected, Holding
<1>4. /\ Cardinality(Connected \cup {t}) = IF t \in Connected THEN C ELSE C + 1
      /\ Cardinality(Holding \cup {t}) = IF t \in Holding THEN H ELSE H + 1
  BY <1>1, FS_AddElement
<1>5. /\ Cardinality(Connected \ {t}) = IF t \in Connected THEN C - 1 ELSE C
      /\ Cardinality(Holding \ {t}) = IF t \in Holding THEN H - 1 ELSE H
  BY <1>1, FS_RemoveElement
<1> HIDE DEF C, H
<1>6. Cardinality(Connected') = C + (IF place # "none" THEN 1 ELSE 0)
                                  - (IF pc[t] # "none" THEN 1 ELSE 0)
  BY <1>1, <1>2, <1>3, <1>4, <1>5
<1>7. Cardinality(Holding') = H + (IF place = "holding" THEN 1 ELSE 0)
                                - (IF pc[t] = "holding" THEN 1 ELSE 0)
  BY <1>1, <1>2, <1>3, <1>4, <1>5
<1> QED BY <1>6, <1>7 DEF C, H
-----------------------------------------------------------------------------
\* Parts of the invariant that a step leaves alone when it leaves their variables alone.
LEMMA KeepsCounting ==
  ASSUME Counting, UNCHANGED counts
  PROVE  Counting'
BY DEF Counting, counts, allocations

\* A step that leaves the small variables alone keeps their types.
LEMMA SmallKept ==
  ASSUME ProcessInv, UNCHANGED <<pool, doing, stacks>>
  PROVE  Small'
BY DEF ProcessInv, TypeOK, Small

\* The state of no process satisfies the invariant.
LEMMA GoneIsFine ==
  ASSUME Init
  PROVE  ProcessInv
<1>1. /\ phase = "down" /\ asking = FALSE /\ memory = "unset" /\ pool = "none"
      /\ pc = [t \in Thread |-> "none"] /\ todo = [t \in Thread |-> 0] /\ doing = "other"
      /\ lock = None /\ used = 0 /\ leaked = 0 /\ stacks = 0 /\ blocks = 0 /\ counter = 0
      /\ loaded = [a \in Actor |-> None] /\ raced = FALSE /\ idleExit = FALSE /\ misused = FALSE
  BY DEF Init, Gone
<1>2. Connected = {} /\ Holding = {}
  BY <1>1 DEF Connected, Holding
<1>3. TypeOK
  <2>1. /\ todo \in [Thread -> 0 .. MaxOpens] /\ used \in 0 .. MaxFds
        /\ stacks \in 0 .. MaxStacks
    BY <1>1, BoundsAssumption
  <2>2. /\ pc \in [Thread -> {"none", "recv", "parse", "lock", "handle", "files", "holding", "send"}]
        /\ loaded \in [Actor -> Nat \cup {None}]
    BY <1>1
  <2> QED BY <1>1, <2>1, <2>2 DEF TypeOK
<1>4. OnlyRemovalsLeak
  BY <1>1, <1>2, FS_EmptySet DEF OnlyRemovalsLeak
<1>5. Locking
  BY <1>1, NoneAssumption DEF Locking
<1>6. Counting
  BY <1>1 DEF Counting
<1> QED BY <1>1, <1>2, <1>3, <1>4, <1>5, <1>6 DEF ProcessInv, Startup, Idle

\* So does the state after the end of a process.
LEMMA DieKeeps ==
  ASSUME Die
  PROVE  ProcessInv'
<1>1. /\ phase' = "down" /\ asking' = FALSE /\ memory' = "unset" /\ pool' = "none"
      /\ pc' = [t \in Thread |-> "none"] /\ todo' = [t \in Thread |-> 0] /\ doing' = "other"
      /\ lock' = None /\ used' = 0 /\ leaked' = 0 /\ stacks' = 0 /\ blocks' = 0 /\ counter' = 0
      /\ loaded' = [a \in Actor |-> None] /\ raced' = FALSE /\ idleExit' = FALSE /\ misused' = FALSE
  BY DEF Die, Gone
<1>2. Connected' = {} /\ Holding' = {}
  BY <1>1 DEF Connected, Holding
<1>3. TypeOK'
  <2>1. /\ todo' \in [Thread -> 0 .. MaxOpens] /\ used' \in 0 .. MaxFds
        /\ stacks' \in 0 .. MaxStacks
    BY <1>1, BoundsAssumption
  <2>2. /\ pc' \in [Thread -> {"none", "recv", "parse", "lock", "handle", "files", "holding", "send"}]
        /\ loaded' \in [Actor -> Nat \cup {None}]
    BY <1>1
  <2> QED BY <1>1, <2>1, <2>2 DEF TypeOK
<1>4. OnlyRemovalsLeak'
  BY <1>1, <1>2, FS_EmptySet DEF OnlyRemovalsLeak
<1>5. Locking'
  BY <1>1, NoneAssumption DEF Locking
<1>6. Counting'
  BY <1>1 DEF Counting
<1> QED BY <1>1, <1>2, <1>3, <1>4, <1>5, <1>6 DEF ProcessInv, Startup, Idle
-----------------------------------------------------------------------------
\* A step of the main thread that moves no thread and opens nothing keeps what is
\* counted, locked and leaked.
LEMMA MainKeeps ==
  ASSUME ProcessInv, UNCHANGED <<requests, descriptors, counts>>,
         memory' = "unset" <=> memory = "unset"
  PROVE  /\ OnlyRemovalsLeak' /\ Locking' /\ Counting'
         /\ Connected' = Connected /\ leaked' = leaked
<1>1. Connected' = Connected /\ Holding' = Holding
  BY Unmoved DEF requests
<1>2. OnlyRemovalsLeak'
  BY <1>1 DEF ProcessInv, OnlyRemovalsLeak, descriptors
<1>3. Locking'
  BY DEF ProcessInv, Locking, requests
<1>4. Counting'
  BY KeepsCounting DEF ProcessInv
<1> QED BY <1>1, <1>2, <1>3, <1>4 DEF descriptors

\* Start keeps the invariant.
LEMMA StartKeeps ==
  ASSUME ProcessInv, Start
  PROVE  ProcessInv'
<1>1. UNCHANGED <<requests, descriptors, counts>> /\ memory' = memory
  BY DEF Start
<1>2. OnlyRemovalsLeak' /\ Locking' /\ Counting' /\ Connected' = Connected /\ leaked' = leaked
  BY <1>1, MainKeeps
<1>3. TypeOK'
  BY DEF Start, ProcessInv, TypeOK, requests, descriptors, counts, allocations
<1> QED BY <1>1, <1>2, <1>3 DEF Start, ProcessInv, Startup, Idle

\* The question of the signal handler keeps the invariant.
LEMMA InterruptKeeps ==
  ASSUME ProcessInv, Interrupt \/ AnswerNo
  PROVE  ProcessInv'
<1>1. /\ UNCHANGED <<phase, memory, pool, idleExit, misused, requests, descriptors, counts>>
      /\ asking' \in BOOLEAN /\ (asking' => phase \in {"loading", "up"})
  BY DEF Interrupt, AnswerNo
<1>2. OnlyRemovalsLeak' /\ Locking' /\ Counting' /\ Connected' = Connected /\ leaked' = leaked
  BY <1>1, MainKeeps
<1>3. TypeOK'
  BY <1>1 DEF ProcessInv, TypeOK, requests, descriptors, counts, allocations
<1> QED BY <1>1, <1>2, <1>3 DEF ProcessInv, Startup, Idle

\* exit keeps the invariant: when it calls itself idle, nobody is connected.
LEMMA ExitKeeps ==
  ASSUME ProcessInv, phase \in {"loading", "up"}, Exit
  PROVE  ProcessInv'
<1>1. /\ UNCHANGED <<memory, pool, misused, requests, descriptors, counts>> /\ phase' = "exiting"
      /\ asking' = FALSE /\ idleExit' = (phase = "up" /\ Connected = {})
  BY DEF Exit, RunsAppClose
<1>2. OnlyRemovalsLeak' /\ Locking' /\ Counting' /\ Connected' = Connected /\ leaked' = leaked
  BY <1>1, MainKeeps
<1>3. TypeOK'
  BY <1>1 DEF ProcessInv, TypeOK, requests, descriptors, counts, allocations
<1>4. Startup'
  BY <1>1, <1>2 DEF ProcessInv, Startup
<1>5. Idle'
  BY <1>1, <1>2 DEF ProcessInv, Startup, Idle
<1> QED BY <1>2, <1>3, <1>4, <1>5 DEF ProcessInv

\* So does the exit for want of a stack: the socket that stays open is counted.
LEMMA CreateFailsKeeps ==
  ASSUME ProcessInv, CreateFails
  PROVE  ProcessInv'
<1>1. /\ UNCHANGED <<memory, pool, misused, requests, counts>> /\ phase' = "exiting"
      /\ phase = "up" /\ memory # "unset" /\ asking' = FALSE /\ idleExit' = (Connected = {})
      /\ used < MaxFds /\ used' = used + 1 /\ leaked' = leaked + 1
  BY DEF CreateFails, RunsAppClose, ProcessInv, Startup
<1>2. Connected' = Connected /\ Holding' = Holding
  BY <1>1, Unmoved DEF requests
<1>3. used \in 0 .. MaxFds /\ leaked \in Nat /\ MaxFds \in Nat
  BY BoundsAssumption DEF ProcessInv, TypeOK
<1>4. OnlyRemovalsLeak'
  <2>1. Cardinality(Connected) \in Nat /\ Cardinality(Holding) \in Nat
    BY CountsAreNumbers
  <2>2. used = 1 + Cardinality(Connected) + Cardinality(Holding) + leaked
    BY <1>1 DEF ProcessInv, OnlyRemovalsLeak
  <2>3. used' = 1 + Cardinality(Connected) + Cardinality(Holding) + leaked'
    BY <1>1, <1>3, <2>1, <2>2
  <2> QED BY <1>1, <1>2, <2>3 DEF OnlyRemovalsLeak
<1>5. TypeOK'
  <2>1. used' \in 0 .. MaxFds /\ leaked' \in Nat
    BY <1>1, <1>3
  <2> QED BY <1>1, <2>1 DEF ProcessInv, TypeOK, requests, counts, allocations
<1>6. Locking' /\ Counting'
  BY <1>1, KeepsCounting DEF ProcessInv, Locking, requests
<1>7. Startup'
  BY <1>1, <1>2 DEF ProcessInv, Startup
<1>8. Idle'
  BY <1>1, <1>2 DEF ProcessInv, Startup, Idle
<1> QED BY <1>4, <1>5, <1>6, <1>7, <1>8 DEF ProcessInv

\* The end of app_init keeps the invariant: the socket is the first descriptor.
LEMMA ListenKeeps ==
  ASSUME ProcessInv, Listen \/ ListenFails
  PROVE  ProcessInv'
<1>1. /\ UNCHANGED <<asking, misused, requests, leaked, counts>> /\ ~asking
      /\ phase = "loading" /\ phase' \in {"up", "exiting"} /\ memory' = "live" /\ used' = 1
      /\ pool' \in {"none", "block", "dangling"}
      /\ idleExit' = idleExit \/ (phase' = "exiting" /\ idleExit' = TRUE)
  BY DEF Listen, ListenFails, MainRuns
<1>2. memory = "unset" /\ Connected = {} /\ leaked = 0
  BY <1>1 DEF ProcessInv, Startup
<1>3. Connected' = {} /\ Holding' = {}
  <2>1. Connected' = Connected /\ Holding' = Holding
    BY <1>1, Unmoved DEF requests
  <2>2. Holding \subseteq Connected
    BY DEF Holding, Connected
  <2> QED BY <1>2, <2>1, <2>2
<1>4. TypeOK'
  <2>1. used' \in 0 .. MaxFds
    BY <1>1, BoundsAssumption
  <2> QED BY <1>1, <2>1 DEF ProcessInv, TypeOK, requests, counts, allocations
<1>5. OnlyRemovalsLeak'
  BY <1>1, <1>2, <1>3, FS_EmptySet DEF OnlyRemovalsLeak
<1>6. Locking'
  BY <1>1 DEF ProcessInv, Locking, requests
<1>7. Counting'
  BY <1>1, KeepsCounting DEF ProcessInv
<1> QED BY <1>1, <1>3, <1>4, <1>5, <1>6, <1>7 DEF ProcessInv, Startup, Idle

\* app_close keeps the invariant: what it frees was set, unless the exit was not
\* idle, and is freed once, unless the last removal has freed it.
LEMMA CloseKeeps ==
  ASSUME ProcessInv, FollowUnset \/ DestroyPool \/ FreeServer
  PROVE  ProcessInv'
<1>1. /\ UNCHANGED <<phase, asking, pool, idleExit, requests, descriptors, counts>>
      /\ phase = "exiting" /\ (memory' = "unset" <=> memory = "unset")
      /\ memory' \in {"unset", "live", "poolFreed", "freed"}
      /\ misused' \in BOOLEAN /\ (misused' = misused \/ memory = "unset" \/ pool = "dangling")
  BY DEF FollowUnset, DestroyPool, FreeServer, running, ProcessInv, TypeOK
<1>2. OnlyRemovalsLeak' /\ Locking' /\ Counting' /\ Connected' = Connected /\ leaked' = leaked
  BY <1>1, MainKeeps
<1>3. TypeOK'
  BY <1>1 DEF ProcessInv, TypeOK, requests, descriptors, counts, allocations
<1>4. Startup'
  BY <1>1, <1>2 DEF ProcessInv, Startup
<1>5. Idle'
  BY <1>1, <1>2 DEF ProcessInv, Idle
<1> QED BY <1>2, <1>3, <1>4, <1>5 DEF ProcessInv
-----------------------------------------------------------------------------
\* The sum of OnlyRemovalsLeak after each of its parts has changed.
LEMMA Sum ==
  ASSUME NEW C \in Int, NEW H \in Int, NEW l \in Int, NEW m \in Int,
         NEW a \in Int, NEW b \in Int, NEW c \in Int, NEW d \in Int
  PROVE  (1 + C + H + l) + a - b + c - d + (m - l) = 1 + (C + a - b) + (H + c - d) + m
OBVIOUS

\* A step of a thread, or of main for it, keeps the invariant if the descriptors follow
\* the thread's place and the mutex follows its work.
LEMMA MoveKeeps ==
  ASSUME ProcessInv, NEW t \in Thread, NEW place \in Places,
         pc' = [pc EXCEPT ![t] = place], memory # "unset",
         pc[t] # "none" \/ phase = "up",
         todo' \in [Thread -> 0 .. MaxOpens],
         UNCHANGED <<server, allocations>>, Small',
         misused' = misused \/ (misused' \in BOOLEAN /\ phase = "exiting"),
         leaked' \in Nat, used' \in 0 .. MaxFds,
         used' = used + (IF place # "none" THEN 1 ELSE 0) - (IF pc[t] # "none" THEN 1 ELSE 0)
                      + (IF place = "holding" THEN 1 ELSE 0) - (IF pc[t] = "holding" THEN 1 ELSE 0)
                      + (leaked' - leaked),
         lock' = IF pc[t] \in Working /\ place \notin Working THEN None
                 ELSE IF pc[t] \notin Working /\ place \in Working THEN t ELSE lock,
         pc[t] \notin Working /\ place \in Working => lock = None
  PROVE  ProcessInv'
<1>1. TypeOK /\ pc \in [Thread -> Places] /\ used \in Nat /\ leaked \in Nat
  BY BoundsAssumption DEF ProcessInv, TypeOK, Places
<1>2. TypeOK'
  <2>1. pc' \in [Thread -> Places] /\ lock' \in Thread \cup {None}
    BY <1>1 DEF TypeOK
  <2> QED BY <1>1, <2>1 DEF TypeOK, Places, server, allocations, Small
<1>3. OnlyRemovalsLeak'
  <2> DEFINE C == Cardinality(Connected)
             D == Cardinality(Connected')
             H == Cardinality(Holding)
             I == Cardinality(Holding')
             a == IF place # "none" THEN 1 ELSE 0
             b == IF pc[t] # "none" THEN 1 ELSE 0
             c == IF place = "holding" THEN 1 ELSE 0
             d == IF pc[t] = "holding" THEN 1 ELSE 0
  <2>1. C \in Nat /\ H \in Nat
    BY CountsAreNumbers
  <2>2. D = C + a - b /\ I = H + c - d
    BY <1>1, CountsMoved
  <2>3. used = 1 + C + H + leaked
    BY DEF ProcessInv, OnlyRemovalsLeak
  <2>4. used' = used + a - b + c - d + (leaked' - leaked)
    OBVIOUS
  <2>5. a \in Nat /\ b \in Nat /\ c \in Nat /\ d \in Nat
    OBVIOUS
  <2> HIDE DEF C, D, H, I, a, b, c, d
  <2>6. used' = 1 + D + I + leaked'
    <3>1. /\ C \in Int /\ H \in Int /\ a \in Int /\ b \in Int /\ c \in Int /\ d \in Int
          /\ leaked \in Int /\ leaked' \in Int
      BY <1>1, <2>1, <2>5
    <3>2. used' = (1 + C + H + leaked) + a - b + c - d + (leaked' - leaked)
      BY <2>3, <2>4
    <3>3. (1 + C + H + leaked) + a - b + c - d + (leaked' - leaked)
            = 1 + (C + a - b) + (H + c - d) + leaked'
      BY <3>1, Sum
    <3> QED BY <2>2, <3>2, <3>3
  <2>7. memory' # "unset"
    BY DEF server
  <2> QED BY <2>6, <2>7 DEF OnlyRemovalsLeak, D, I
<1>4. Locking'
  <2> SUFFICES ASSUME NEW u \in Thread
               PROVE  pc'[u] \in Working <=> lock' = u
    BY DEF Locking, Working
  <2>1. \A v \in Thread : pc[v] \in Working <=> lock = v
    BY DEF ProcessInv, Locking, Working
  <2>2. None \notin Thread /\ lock \in Thread \cup {None}
    BY <1>1, NoneAssumption DEF TypeOK
  <2>3. CASE u = t
    <3>1. pc'[u] = place
      BY <1>1, <2>3
    <3> HIDE DEF Working
    <3> QED BY <2>1, <2>2, <2>3, <3>1
  <2>4. CASE u # t
    <3>1. pc'[u] = pc[u]
      BY <1>1, <2>4
    <3> HIDE DEF Working
    <3> QED BY <2>1, <2>2, <2>4, <3>1
  <2> QED BY <2>3, <2>4
<1>5. Counting'
  BY DEF ProcessInv, Counting, allocations
<1>6. Startup' /\ Idle'
  <2>1. phase' = phase /\ asking' = asking /\ memory' = memory /\ idleExit' = idleExit
    BY DEF server
  <2>2. ~idleExit
    <3>1. pc[t] # "none" => t \in Connected
      BY DEF Connected
    <3> QED BY <3>1 DEF ProcessInv, Idle
  <2>3. Startup'
    BY <2>1 DEF ProcessInv, Startup
  <2>4. Idle'
    BY <2>1, <2>2 DEF ProcessInv, Idle
  <2> QED BY <2>3, <2>4
<1> QED BY <1>2, <1>3, <1>4, <1>5, <1>6 DEF ProcessInv

\* While a thread exists, server leads somewhere, and no exit has been idle.
LEMMA ThreadsAreServed ==
  ASSUME ProcessInv, NEW t \in Thread, pc[t] # "none"
  PROVE  /\ memory # "unset" /\ memory \in {"live", "poolFreed", "freed"}
         /\ pc \in [Thread -> Places] /\ todo \in [Thread -> 0 .. MaxOpens]
         /\ used \in 0 .. MaxFds /\ leaked \in Nat /\ MaxFds \in Nat
         /\ lock \in Thread \cup {None} /\ misused \in BOOLEAN
<1>1. t \in Connected
  BY DEF Connected
<1> QED BY <1>1, BoundsAssumption DEF ProcessInv, Startup, TypeOK, Places

\* Memory that is freed is used in no phase but the last.
LEMMA UsesAtExit ==
  ASSUME ProcessInv, NEW freed \in SUBSET {"poolFreed", "freed"}, Uses(freed)
  PROVE  misused' = misused \/ (misused' \in BOOLEAN /\ phase = "exiting")
<1>1. CASE memory \in freed
  <2>1. phase = "exiting"
    BY <1>1 DEF ProcessInv, Startup, TypeOK
  <2> QED BY <2>1 DEF Uses
<1>2. CASE memory \notin freed
  <2>1. misused' = misused
    BY <1>2 DEF Uses, ProcessInv, TypeOK
  <2> QED BY <2>1
<1> QED BY <1>1, <1>2

\* A connected thread accounts for a descriptor beside the listening socket, a holding one
\* for one more.
LEMMA OwnDescriptors ==
  ASSUME ProcessInv, NEW t \in Thread, pc[t] # "none"
  PROVE  used >= 2 /\ (pc[t] = "holding" => used >= 3)
<1>1. Cardinality(Connected) \in Nat /\ Cardinality(Connected) >= 1
  <2>1. Connected # {} /\ IsFiniteSet(Connected) /\ Cardinality(Connected) \in Nat
    BY CountsAreNumbers DEF Connected
  <2>2. Cardinality(Connected) # 0
    BY <2>1, FS_EmptySet
  <2> QED BY <2>1, <2>2
<1>2. Cardinality(Holding) \in Nat /\ (pc[t] = "holding" => Cardinality(Holding) >= 1)
  <2>1. IsFiniteSet(Holding) /\ Cardinality(Holding) \in Nat
    BY CountsAreNumbers
  <2>2. pc[t] = "holding" => Holding # {}
    BY DEF Holding
  <2>3. Holding # {} => Cardinality(Holding) # 0
    BY <2>1, FS_EmptySet
  <2> QED BY <2>1, <2>2, <2>3
<1>3. used = 1 + Cardinality(Connected) + Cardinality(Holding) + leaked /\ leaked \in Nat
  BY ThreadsAreServed DEF ProcessInv, OnlyRemovalsLeak
<1> QED BY <1>1, <1>2, <1>3

\* Accept keeps the invariant.
LEMMA AcceptKeeps ==
  ASSUME ProcessInv, NEW t \in Thread, Accept(t)
  PROVE  ProcessInv'
<1>1. /\ pc[t] = "none" /\ phase = "up" /\ memory # "unset"
      /\ used \in 0 .. MaxFds /\ MaxFds \in Nat /\ leaked \in Nat
      /\ todo \in [Thread -> 0 .. MaxOpens] /\ used < MaxFds
  BY BoundsAssumption DEF Accept, ProcessInv, Startup, TypeOK
<1>2. /\ pc' = [pc EXCEPT ![t] = "recv"] /\ used' = used + 1 /\ leaked' = leaked
      /\ todo' = todo /\ lock' = lock /\ misused' = misused
      /\ UNCHANGED <<server, allocations>>
  BY DEF Accept, running, counts, server
<1>3. used' \in 0 .. MaxFds /\ used' = used + 1 - 0 + 0 - 0 + (leaked' - leaked)
  BY <1>1, <1>2
<1>4. "recv" \in Places /\ "recv" \notin Working /\ "none" \notin Working
  BY DEF Places, Working
<1>5. Small'
  BY BoundsAssumption DEF Accept, ProcessInv, TypeOK, Small, running
<1> QED BY <1>1, <1>2, <1>3, <1>4, <1>5, MoveKeeps

\* Recv keeps the invariant.
LEMMA RecvKeeps ==
  ASSUME ProcessInv, NEW t \in Thread, Recv(t)
  PROVE  ProcessInv'
<1>1. /\ pc[t] = "recv" /\ pc' = [pc EXCEPT ![t] = "parse"] /\ todo' = todo /\ lock' = lock
      /\ used' = used /\ leaked' = leaked /\ misused' = misused
      /\ UNCHANGED <<server, allocations>>
  BY DEF Recv, At, descriptors, running, counts, server
<1>2. /\ memory # "unset" /\ todo \in [Thread -> 0 .. MaxOpens]
      /\ used \in 0 .. MaxFds /\ leaked \in Nat /\ MaxFds \in Nat
  BY <1>1, ThreadsAreServed
<1>3. used' = used + 1 - 1 + 0 - 0 + (leaked' - leaked)
  BY <1>1, <1>2
<1>4. "parse" \in Places /\ "recv" \notin Working /\ "parse" \notin Working
  BY DEF Places, Working
<1>5. Small'
  BY SmallKept DEF Recv, running, counts
<1> QED BY <1>1, <1>2, <1>3, <1>4, <1>5, MoveKeeps

\* Parse keeps the invariant.
LEMMA ParseKeeps ==
  ASSUME ProcessInv, NEW t \in Thread, Parse(t)
  PROVE  ProcessInv'
<1>1. /\ pc[t] = "parse" /\ pc' = [pc EXCEPT ![t] = "lock"] /\ todo' = todo /\ lock' = lock
      /\ used' = used /\ leaked' = leaked /\ UNCHANGED <<server, allocations>>
  BY DEF Parse, At, descriptors, running, counts, server
<1>2. /\ memory # "unset" /\ todo \in [Thread -> 0 .. MaxOpens]
      /\ used \in 0 .. MaxFds /\ leaked \in Nat /\ MaxFds \in Nat
  BY <1>1, ThreadsAreServed
<1>3. misused' = misused \/ (misused' \in BOOLEAN /\ phase = "exiting")
  BY UsesAtExit DEF Parse
<1>4. used' = used + 1 - 1 + 0 - 0 + (leaked' - leaked)
  BY <1>1, <1>2
<1>5. "parse" \in Places /\ "lock" \in Places /\ "lock" \notin Working /\ "parse" \notin Working
  BY DEF Places, Working
<1>6. Small'
  BY SmallKept DEF Parse, running, counts
<1> QED BY <1>1, <1>2, <1>3, <1>4, <1>5, <1>6, MoveKeeps

\* Lock keeps the invariant.
LEMMA LockKeeps ==
  ASSUME ProcessInv, NEW t \in Thread, Lock(t)
  PROVE  ProcessInv'
<1>1. /\ pc[t] = "lock" /\ pc' = [pc EXCEPT ![t] = "handle"] /\ todo' = todo /\ lock = None
      /\ lock' = t /\ used' = used /\ leaked' = leaked /\ misused' = misused
      /\ UNCHANGED <<server, allocations>>
  BY DEF Lock, At, descriptors, running, counts, server
<1>2. /\ memory # "unset" /\ todo \in [Thread -> 0 .. MaxOpens]
      /\ used \in 0 .. MaxFds /\ leaked \in Nat /\ MaxFds \in Nat
  BY <1>1, ThreadsAreServed
<1>3. used' = used + 1 - 1 + 0 - 0 + (leaked' - leaked)
  BY <1>1, <1>2
<1>4. "handle" \in Places /\ "lock" \notin Working /\ "handle" \in Working
  BY DEF Places, Working
<1>5. Small'
  BY SmallKept DEF Lock, running, counts
<1> QED BY <1>1, <1>2, <1>3, <1>4, <1>5, MoveKeeps

\* Handle and Remove keep the invariant.
LEMMA HandleKeeps ==
  ASSUME ProcessInv, NEW t \in Thread, NEW n \in 0 .. MaxOpens, Handle(t, n) \/ Remove(t, n)
  PROVE  ProcessInv'
<1>1. /\ pc[t] = "handle" /\ pc' = [pc EXCEPT ![t] = "files"] /\ todo' = [todo EXCEPT ![t] = n]
      /\ lock' = lock /\ UNCHANGED <<server, allocations>>
      /\ \/ used' = used /\ leaked' = leaked
         \/ used' = used + 1 /\ leaked' = leaked + 1 /\ used < MaxFds
  BY DEF Handle, Remove, At, descriptors, running, counts, server
<1>2. /\ memory # "unset" /\ todo \in [Thread -> 0 .. MaxOpens]
      /\ used \in 0 .. MaxFds /\ leaked \in Nat /\ MaxFds \in Nat
  BY <1>1, ThreadsAreServed
<1>3. misused' = misused \/ (misused' \in BOOLEAN /\ phase = "exiting")
  BY UsesAtExit DEF Handle, Remove
<1>4. /\ used' = used + 1 - 1 + 0 - 0 + (leaked' - leaked) /\ used' \in 0 .. MaxFds
      /\ leaked' \in Nat
  BY <1>1, <1>2
<1>5. "files" \in Places /\ "handle" \in Working /\ "files" \in Working
  BY DEF Places, Working
<1>6. todo' \in [Thread -> 0 .. MaxOpens]
  BY <1>1, <1>2
<1>7. Small'
  BY DEF Handle, Remove, ProcessInv, TypeOK, Small, running, counts
<1> QED BY <1>1, <1>2, <1>3, <1>4, <1>5, <1>6, <1>7, MoveKeeps

\* What is left to open, when one file less is.
LEMMA OneLess ==
  ASSUME NEW t \in Thread, todo \in [Thread -> 0 .. MaxOpens], todo[t] > 0,
         todo' = [todo EXCEPT ![t] = todo[t] - 1]
  PROVE  todo' \in [Thread -> 0 .. MaxOpens]
<1>1. todo[t] - 1 \in 0 .. MaxOpens
  BY BoundsAssumption
<1> QED BY <1>1

\* Open keeps the invariant.
LEMMA OpenKeeps ==
  ASSUME ProcessInv, NEW t \in Thread, Open(t)
  PROVE  ProcessInv'
<1>1. /\ pc[t] = "files" /\ pc' = [pc EXCEPT ![t] = "holding"] /\ lock' = lock
      /\ used' = used + 1 /\ used < MaxFds /\ leaked' = leaked /\ misused' = misused
      /\ UNCHANGED <<server, allocations>>
  BY DEF Open, At, running, counts, server
<1>2. /\ memory # "unset" /\ todo \in [Thread -> 0 .. MaxOpens]
      /\ used \in 0 .. MaxFds /\ leaked \in Nat /\ MaxFds \in Nat
  BY <1>1, ThreadsAreServed
<1>3. used' = used + 1 - 1 + 1 - 0 + (leaked' - leaked) /\ used' \in 0 .. MaxFds
  BY <1>1, <1>2
<1>4. "holding" \in Places /\ "files" \in Working /\ "holding" \in Working
  BY DEF Places, Working
<1>5. todo' \in [Thread -> 0 .. MaxOpens]
  BY <1>2, OneLess DEF Open
<1>6. Small'
  BY SmallKept DEF Open, running, counts
<1> QED BY <1>1, <1>2, <1>3, <1>4, <1>5, <1>6, MoveKeeps

\* CloseFile keeps the invariant.
LEMMA CloseFileKeeps ==
  ASSUME ProcessInv, NEW t \in Thread, CloseFile(t)
  PROVE  ProcessInv'
<1>1. /\ pc[t] = "holding" /\ pc' = [pc EXCEPT ![t] = "files"] /\ lock' = lock
      /\ used' = used - 1 /\ leaked' = leaked /\ misused' = misused /\ todo' = todo
      /\ UNCHANGED <<server, allocations>>
  BY DEF CloseFile, At, running, counts, server
<1>2. /\ memory # "unset" /\ todo \in [Thread -> 0 .. MaxOpens]
      /\ used \in 0 .. MaxFds /\ leaked \in Nat /\ MaxFds \in Nat /\ used >= 2
  BY <1>1, ThreadsAreServed, OwnDescriptors
<1>3. used' = used + 1 - 1 + 0 - 1 + (leaked' - leaked) /\ used' \in 0 .. MaxFds
  BY <1>1, <1>2
<1>4. "files" \in Places /\ "files" \in Working /\ "holding" \in Working
  BY DEF Places, Working
<1>5. Small'
  BY SmallKept DEF CloseFile, running, counts
<1> QED BY <1>1, <1>2, <1>3, <1>4, <1>5, MoveKeeps

\* OpenFails keeps the invariant: the thread stays where it is.
LEMMA OpenFailsKeeps ==
  ASSUME ProcessInv, NEW t \in Thread, OpenFails(t)
  PROVE  ProcessInv'
<1>1. CASE Die
  BY <1>1, DieKeeps
<1>2. CASE /\ todo' = [todo EXCEPT ![t] = todo[t] - 1]
           /\ UNCHANGED <<running, pc, doing, lock, descriptors, counts, misused>>
  <2>1. Connected' = Connected /\ Holding' = Holding
    BY <1>2, Unmoved
  <2>2. todo' \in [Thread -> 0 .. MaxOpens]
    BY <1>2, OneLess DEF OpenFails, ProcessInv, TypeOK
  <2>3. TypeOK'
    BY <1>2, <2>2 DEF ProcessInv, TypeOK, running, descriptors, counts, allocations
  <2>4. OnlyRemovalsLeak'
    BY <1>2, <2>1 DEF ProcessInv, OnlyRemovalsLeak, running, descriptors
  <2>5. Locking' /\ Counting'
    BY <1>2, KeepsCounting DEF ProcessInv, Locking
  <2>6. Startup' /\ Idle'
    BY <1>2, <2>1 DEF ProcessInv, Startup, Idle, running, descriptors
  <2> QED BY <2>3, <2>4, <2>5, <2>6 DEF ProcessInv
<1> QED BY <1>1, <1>2 DEF OpenFails

\* Unlock keeps the invariant.
LEMMA UnlockKeeps ==
  ASSUME ProcessInv, NEW t \in Thread, Unlock(t)
  PROVE  ProcessInv'
<1>1. /\ pc[t] = "files" /\ pc' = [pc EXCEPT ![t] = "send"] /\ todo' = todo /\ lock' = None
      /\ used' = used /\ leaked' = leaked /\ UNCHANGED <<server, allocations>>
  BY DEF Unlock, At, descriptors, running, counts, server
<1>2. /\ memory # "unset" /\ todo \in [Thread -> 0 .. MaxOpens]
      /\ used \in 0 .. MaxFds /\ leaked \in Nat /\ MaxFds \in Nat
  BY <1>1, ThreadsAreServed
<1>3. misused' = misused \/ (misused' \in BOOLEAN /\ phase = "exiting")
  BY UsesAtExit DEF Unlock
<1>4. used' = used + 1 - 1 + 0 - 0 + (leaked' - leaked)
  BY <1>1, <1>2
<1>5. "send" \in Places /\ "send" \notin Working /\ "files" \in Working
  BY DEF Places, Working
<1>6. Small'
  BY DEF Unlock, LeavesPool, ProcessInv, TypeOK, Small, counts
<1> QED BY <1>1, <1>2, <1>3, <1>4, <1>5, <1>6, MoveKeeps

\* Send keeps the invariant.
LEMMA SendKeepsInv ==
  ASSUME ProcessInv, NEW t \in Thread, Send(t)
  PROVE  ProcessInv'
<1>1. CASE Die
  BY <1>1, DieKeeps
<1>2. CASE ~Die
  <2>1. /\ pc[t] = "send" /\ pc' = [pc EXCEPT ![t] = "none"] /\ todo' = todo /\ lock' = lock
        /\ used' = used - 1 /\ leaked' = leaked /\ misused' = misused
        /\ UNCHANGED <<server, allocations>>
    BY <1>2 DEF Send, At, running, counts, server
  <2>2. /\ memory # "unset" /\ todo \in [Thread -> 0 .. MaxOpens]
        /\ used \in 0 .. MaxFds /\ leaked \in Nat /\ MaxFds \in Nat /\ used >= 2
    BY <2>1, ThreadsAreServed, OwnDescriptors
  <2>3. used' = used + 0 - 1 + 0 - 0 + (leaked' - leaked) /\ used' \in 0 .. MaxFds
    BY <2>1, <2>2
  <2>4. "none" \in Places /\ "send" \notin Working /\ "none" \notin Working
    BY DEF Places, Working
  <2>5. Small'
    BY <1>2, SmallKept DEF Send, running, counts
  <2> QED BY <2>1, <2>2, <2>3, <2>4, <2>5, MoveKeeps
<1> QED BY <1>1, <1>2
-----------------------------------------------------------------------------
\* A step that only counts keeps the rest of the invariant.
LEMMA CountingKeepsRest ==
  ASSUME ProcessInv, UNCHANGED <<running, requests, descriptors, misused>>
  PROVE  OnlyRemovalsLeak' /\ Startup' /\ Locking' /\ Idle'
<1>1. /\ phase' = phase /\ asking' = asking /\ memory' = memory /\ pool' = pool
      /\ idleExit' = idleExit
      /\ misused' = misused /\ pc' = pc /\ lock' = lock /\ used' = used /\ leaked' = leaked
  BY DEF running, requests, descriptors
<1>2. Connected' = Connected /\ Holding' = Holding
  BY <1>1, Unmoved
<1>3. OnlyRemovalsLeak'
  BY <1>1, <1>2 DEF ProcessInv, OnlyRemovalsLeak
<1>4. Startup' /\ Idle'
  BY <1>1, <1>2 DEF ProcessInv, Startup, Idle
<1>5. Locking'
  BY <1>1 DEF ProcessInv, Locking
<1> QED BY <1>3, <1>4, <1>5

\* Allocate keeps the invariant: what is read is behind the block just allocated.
LEMMA AllocateKeeps ==
  ASSUME ProcessInv, NEW a \in Actor, Allocate(a)
  PROVE  ProcessInv'
<1>1. /\ loaded[a] = None /\ blocks' = blocks + 1 /\ loaded' = [loaded EXCEPT ![a] = counter]
      /\ raced' = (raced \/ \E b \in Actor : loaded[b] # None) /\ counter' = counter
      /\ UNCHANGED <<running, requests, descriptors, stacks, misused>>
  BY DEF Allocate
<1>2. /\ TypeOK /\ Counting /\ blocks \in Nat /\ counter \in Nat
      /\ loaded \in [Actor -> Nat \cup {None}] /\ raced \in BOOLEAN /\ None \notin Nat
  BY NoneAssumption DEF ProcessInv, TypeOK
<1>3. loaded'[a] = counter /\ \A b \in Actor \ {a} : loaded'[b] = loaded[b]
  BY <1>1, <1>2
<1>4. TypeOK'
  <2>1. blocks' \in Nat /\ counter' \in Nat /\ loaded' \in [Actor -> Nat \cup {None}]
    BY <1>1, <1>2
  <2>2. raced' \in BOOLEAN
    BY <1>1
  <2> QED BY <1>1, <1>2, <2>1, <2>2 DEF TypeOK, running, requests, descriptors
<1>5. Counting'
  <2>1. counter' <= blocks'
    BY <1>1, <1>2 DEF Counting
  <2>2. ASSUME NEW b \in Actor, loaded'[b] # None PROVE loaded'[b] < blocks'
    <3>1. CASE b = a
      BY <1>1, <1>2, <1>3, <3>1 DEF Counting
    <3>2. CASE b # a
      <4>1. loaded[b] \in Nat /\ loaded[b] < blocks /\ loaded'[b] = loaded[b]
        BY <1>2, <1>3, <2>2, <3>2 DEF Counting
      <4> QED BY <1>1, <1>2, <4>1
    <3> QED BY <3>1, <3>2
  <2>3. ASSUME ~raced'
        PROVE  /\ loaded'[a] = counter' /\ counter' + 1 = blocks'
               /\ \A b \in Actor \ {a} : loaded'[b] = None
    <3>1. ~raced /\ \A b \in Actor : loaded[b] = None
      BY <1>1, <2>3
    <3>2. counter = blocks
      BY <1>2, <3>1 DEF Counting
    <3> QED BY <1>1, <1>2, <1>3, <3>1, <3>2
  <2> QED BY <2>1, <2>2, <2>3 DEF Counting
<1>6. OnlyRemovalsLeak' /\ Startup' /\ Locking' /\ Idle'
  BY <1>1, CountingKeepsRest
<1> QED BY <1>4, <1>5, <1>6 DEF ProcessInv

\* Count keeps the invariant: an actor writes back no more than there are blocks.
LEMMA CountKeeps ==
  ASSUME ProcessInv, NEW a \in Actor, Count(a)
  PROVE  ProcessInv'
<1>1. /\ loaded[a] # None /\ counter' = loaded[a] + 1 /\ loaded' = [loaded EXCEPT ![a] = None]
      /\ blocks' = blocks /\ raced' = raced
      /\ UNCHANGED <<running, requests, descriptors, stacks, misused>>
  BY DEF Count, Counted
<1>2. /\ TypeOK /\ Counting /\ blocks \in Nat /\ counter \in Nat
      /\ loaded \in [Actor -> Nat \cup {None}] /\ raced \in BOOLEAN /\ None \notin Nat
  BY NoneAssumption DEF ProcessInv, TypeOK
<1>3. loaded[a] \in Nat /\ loaded[a] < blocks
  BY <1>1, <1>2 DEF Counting
<1>4. loaded'[a] = None /\ \A b \in Actor \ {a} : loaded'[b] = loaded[b]
  BY <1>1, <1>2
<1>5. TypeOK'
  <2>1. counter' \in Nat /\ loaded' \in [Actor -> Nat \cup {None}]
    BY <1>1, <1>2, <1>3
  <2> QED BY <1>1, <1>2, <2>1 DEF TypeOK, running, requests, descriptors
<1>6. Counting'
  <2>1. counter' <= blocks'
    BY <1>1, <1>2, <1>3
  <2>2. \A b \in Actor : loaded'[b] # None => loaded'[b] < blocks'
    BY <1>1, <1>2, <1>4 DEF Counting
  <2>3. ASSUME ~raced' PROVE counter' = blocks' /\ \A b \in Actor : loaded'[b] = None
    <3>1. PICK c \in Actor : /\ loaded[c] = counter /\ counter + 1 = blocks
                             /\ \A b \in Actor \ {c} : loaded[b] = None
      BY <1>1, <1>2, <2>3 DEF Counting
    <3>2. c = a
      BY <1>1, <3>1
    <3> QED BY <1>1, <1>4, <3>1, <3>2
  <2> QED BY <2>1, <2>2, <2>3 DEF Counting
<1>7. OnlyRemovalsLeak' /\ Startup' /\ Locking' /\ Idle'
  BY <1>1, CountingKeepsRest
<1> QED BY <1>5, <1>6, <1>7 DEF ProcessInv

\* Every step keeps the invariant.
LEMMA NextKeeps ==
  ASSUME ProcessInv, [Next]_vars
  PROVE  ProcessInv'
<1>1. CASE UNCHANGED vars
  <2>1. UNCHANGED <<running, requests, descriptors, counts, misused>>
    BY <1>1 DEF vars, running, requests, descriptors, counts, allocations
  <2>2. OnlyRemovalsLeak' /\ Startup' /\ Locking' /\ Idle' /\ Counting'
    BY <2>1, CountingKeepsRest, KeepsCounting DEF ProcessInv
  <2>3. TypeOK'
    BY <1>1 DEF vars, ProcessInv, TypeOK
  <2> QED BY <2>2, <2>3 DEF ProcessInv
<1>2. CASE LoadFails \/ AnswerYes \/ AcceptFails
  <2>1. phase \in {"loading", "up"} /\ Exit
    BY <1>2 DEF LoadFails, AnswerYes, AcceptFails, ProcessInv, Startup
  <2> QED BY <2>1, ExitKeeps
<1>7. CASE CreateFails
  BY <1>7, CreateFailsKeeps
<1>3. CASE Ended
  BY <1>3, DieKeeps DEF Ended
<1>4. CASE Start \/ Listen \/ ListenFails \/ Interrupt \/ AnswerNo \/ FollowUnset \/ DestroyPool \/ FreeServer
  BY <1>4, StartKeeps, ListenKeeps, InterruptKeeps, CloseKeeps
<1>5. ASSUME NEW t \in Thread, Accept(t) \/ Recv(t) \/ Step(t)
      PROVE  ProcessInv'
  BY <1>5, AcceptKeeps, RecvKeeps, ParseKeeps, LockKeeps, HandleKeeps, OpenKeeps, OpenFailsKeeps,
     CloseFileKeeps, UnlockKeeps, SendKeepsInv DEF Step
<1>6. ASSUME NEW a \in Actor, Allocate(a) \/ Count(a)
      PROVE  ProcessInv'
  BY <1>6, AllocateKeeps, CountKeeps
<1> QED BY <1>1, <1>2, <1>3, <1>4, <1>5, <1>6, <1>7 DEF Next

\* The strengthened invariant.
THEOREM ProcessInductive == Spec => []ProcessInv
<1>1. Init => ProcessInv
  BY GoneIsFine
<1>2. ProcessInv /\ [Next]_vars => ProcessInv'
  BY NextKeeps
<1> QED BY <1>1, <1>2, PTL DEF Spec

\* Every variable keeps its type; no descriptor is closed twice.
THEOREM ProcessTypeCorrect == Spec => []TypeOK
<1>1. ProcessInv => TypeOK
  BY DEF ProcessInv
<1> QED BY <1>1, ProcessInductive, PTL

\* Every path of a thread gives its descriptors back, but for the directory of a removal.
THEOREM ThreadsLeakNothing == Spec => []OnlyRemovalsLeak
<1>1. ProcessInv => OnlyRemovalsLeak
  BY DEF ProcessInv
<1> QED BY <1>1, ProcessInductive, PTL

\* The descriptor table is full only with connections and what is leaked, for every size
\* of it.
LEMMA FullOfLeaks ==
  ASSUME ProcessInv, phase = "up", used = MaxFds
  PROVE  leaked + 2 + Cardinality(Connected) >= MaxFds
<1>1. Cardinality(Holding) \in {0, 1}
  <2>1. \A t, u \in Holding : t = u
    BY DEF ProcessInv, Locking, Holding
  <2>2. CASE Holding = {}
    BY <2>2, FS_EmptySet
  <2>3. CASE Holding # {}
    <3>1. PICK t \in Holding : TRUE
      BY <2>3
    <3>2. Holding = {t}
      BY <2>1, <3>1
    <3> QED BY <3>2, FS_Singleton
  <2> QED BY <2>2, <2>3
<1>2. Cardinality(Connected) \in Nat /\ leaked \in Nat /\ MaxFds \in Nat
  BY CountsAreNumbers, BoundsAssumption DEF ProcessInv, TypeOK
<1>3. used = 1 + Cardinality(Connected) + Cardinality(Holding) + leaked
  BY DEF ProcessInv, Startup, OnlyRemovalsLeak
<1> QED BY <1>1, <1>2, <1>3

\* The steps after which the server exits, while it listens.
LEMMA ExitsFromUp ==
  ASSUME Next, phase = "up", phase' = "exiting"
  PROVE  asking \/ (used = MaxFds) \/ (stacks = MaxStacks)
<1>1. CASE Die
  BY <1>1 DEF Die, Gone
<1>2. CASE LoadFails \/ AnswerYes \/ AcceptFails \/ CreateFails
  BY <1>2 DEF LoadFails, AnswerYes, AcceptFails, CreateFails
<1>3. CASE Start \/ Listen \/ ListenFails \/ Interrupt \/ AnswerNo \/ FollowUnset \/ DestroyPool \/ FreeServer
  BY <1>3 DEF Start, Listen, ListenFails, Interrupt, AnswerNo, FollowUnset, DestroyPool, FreeServer
<1>4. ASSUME NEW t \in Thread, Accept(t) \/ Recv(t) \/ Step(t), ~Die
      PROVE  phase' = phase
  <2>1. CASE Accept(t) \/ Recv(t) \/ Parse(t) \/ Lock(t)
    BY <2>1 DEF Accept, Recv, Parse, Lock, running
  <2>2. CASE Open(t) \/ OpenFails(t) \/ CloseFile(t) \/ Unlock(t) \/ Send(t)
    BY <1>4, <2>2 DEF Open, OpenFails, CloseFile, Unlock, Send, running
  <2>3. CASE \E n \in 0 .. MaxOpens : Handle(t, n) \/ Remove(t, n)
    BY <2>3 DEF Handle, Remove, running
  <2> QED BY <1>4, <2>1, <2>2, <2>3 DEF Step
<1>5. ASSUME NEW a \in Actor, Allocate(a) \/ Count(a)
      PROVE  phase' = phase
  BY <1>5 DEF Allocate, Count, running
<1> QED BY <1>1, <1>2, <1>3, <1>4, <1>5 DEF Next, Ended

\* However large the table, and whatever the requests that remove no queue do: only an
\* answer to SIGINT, the stacks and the directories of removals end a server that listens.
THEOREM OnlyLeaksEnd == Spec => OnlyLeaksEndServer
<1>1. ASSUME ProcessInv, [Next]_vars
      PROVE  [phase = "up" /\ phase' = "exiting" =>
                \/ asking
                \/ stacks = MaxStacks
                \/ leaked + 2 + Cardinality(Connected) >= MaxFds]_vars
  <2> SUFFICES ASSUME vars' # vars, phase = "up", phase' = "exiting"
               PROVE  \/ asking
                      \/ stacks = MaxStacks
                      \/ leaked + 2 + Cardinality(Connected) >= MaxFds
    OBVIOUS
  <2>1. asking \/ (used = MaxFds) \/ (stacks = MaxStacks)
    BY <1>1, ExitsFromUp
  <2> QED BY <1>1, <2>1, FullOfLeaks
<1> QED BY <1>1, ProcessInductive, PTL DEF Spec, OnlyLeaksEndServer

\* An exit that begins while no client is connected misuses no memory, however many clients
\* want to connect meanwhile, unless the last queue is removed: then it frees a block twice.
THEOREM IdleExitsAreSafe == Spec => []IdleExitIsSafe
<1>1. ProcessInv => IdleExitIsSafe
  BY DEF ProcessInv, Idle, IdleExitIsSafe
<1> QED BY <1>1, ProcessInductive, PTL

\* mem_allocated is never ahead, and behind only after a race, for any number of threads.
THEOREM CounterIsNeverAhead == Spec => []CounterOnlyLoses
<1>1. ASSUME ProcessInv PROVE CounterOnlyLoses
  <2>1. \A a \in Actor : loaded[a] = None => loaded[a] # counter
    BY <1>1, NoneAssumption DEF ProcessInv, TypeOK
  <2> QED BY <1>1, <2>1 DEF ProcessInv, Counting, CounterOnlyLoses
<1> QED BY <1>1, ProcessInductive, PTL
=============================================================================
