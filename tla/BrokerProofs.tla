---------------------------- MODULE BrokerProofs ----------------------------
(***************************************************************************)
(* Proofs about Broker, for any sets of queue names, threads and requests, *)
(* any system calls that may fail and any number of messages.              *)
(***************************************************************************)
EXTENDS Broker, FiniteSetTheorems, SequenceTheorems, TLAPS

\* The definitions an action is written with.
USE DEF Goto, Answer, disk, history

-----------------------------------------------------------------------------
(* Types                                                                    *)

LEMMA NullTypes ==
  /\ 0 \in UShort
  /\ NoRequest \in RequestRecord
  /\ NullNode \in Node
  /\ Failed \in Response
  /\ Success(<<>>) \in Response
  /\ \A d \in Seq(Nat) : Success(d) \in Response
  BY EmptySeq DEF UShort, NoRequest, RequestRecord, NullNode, Node, Failed, Response, Success

LEMMA DieType == ASSUME TypeOK, Die PROVE TypeOK'
  BY NullTypes, FS_EmptySet DEF TypeOK, Die, Steps

\* The next id and the order of loading are what they are for: an id, a list.
LEMMA NextIdType ==
  ASSUME NEW fs \in SUBSET Node, NEW i \in NextIds(fs)
  PROVE  i \in Nat
  BY DEF NextIds, Node

LEMMA SortedType ==
  ASSUME NEW fs \in SUBSET Node, IsFiniteSet(fs), NEW ns \in Sorted(fs)
  PROVE  ns \in Seq(Node)
<1>1. Cardinality(fs) \in Nat
  BY FS_CardinalityType
<1>2. ns \in [1 .. Cardinality(fs) -> Node]
  BY DEF Sorted
<1>3. QED
  BY <1>1, <1>2, IsASeq

LEMMA FromRootType ==
  ASSUME TypeOK, NEW q \in QueueName, NEW i \in Nat, i < Len(nodes[q])
  PROVE  FromRoot(q, i) \in Nat
<1>1. nodes[q] \in Seq(Node) /\ Len(nodes[q]) \in Nat
  BY LenProperties DEF TypeOK
<1>2. Len(nodes[q]) - i \in 1 .. Len(nodes[q])
  BY <1>1
<1>3. nodes[q][Len(nodes[q]) - i] \in Node
  BY <1>1, <1>2, ElementOfSeq
<1>4. QED
  BY <1>3 DEF FromRoot, Contents, Node

\* A request is what its type says, and so are its parts.
LEMMA RequestType ==
  ASSUME NEW r \in RequestRecord
  PROVE  /\ r.type \in Operations \cup {"other", None}
         /\ r.queueName \in QueueName \cup {None}
         /\ r.index \in Nat
         /\ r.data \in QueueName \cup {None}
<1>1. UShort \subseteq Nat
  BY DEF UShort
<1>2. QED
  BY <1>1 DEF RequestRecord

\* Every step keeps the types. That takes Serving: a thread that polls or reads a
\* queue does so at a queue there is.
LEMMA NextType == ASSUME TypeOK, Serving, [Next]_vars PROVE TypeOK'
<1> USE DEF TypeOK
<1>1. CASE UNCHANGED vars
  BY <1>1 DEF vars, process
<1>2. CASE Startup
  <2>1. CASE Start
    BY <2>1 DEF Start
  <2>2. ASSUME NEW q \in QueueName, LoadQueue(q) PROVE TypeOK'
    <3>1. \A ns \in Sorted(files[q]) : ns \in Seq(Node)
      BY SortedType
    <3>2. nodes' \in [QueueName -> Seq(Node)]
      BY <2>2, <3>1 DEF LoadQueue
    <3>3. QED
      BY <2>2, <3>2 DEF LoadQueue
  <2>3. CASE Listen
    BY <2>3 DEF Listen
  <2>4. CASE LoadFails
    BY <2>4, DieType DEF LoadFails
  <2>5. QED
    BY <1>2, <2>1, <2>2, <2>3, <2>4 DEF Startup
<1>3. CASE Crash
  BY <1>3, DieType DEF Crash
<1>4. ASSUME NEW t \in Thread, NEW r \in Request, Accept(t, r) PROVE TypeOK'
  <2>1. r \in RequestRecord
    BY RequestAssumption
  <2>2. QED
    BY <1>4, <2>1 DEF Accept, Steps
<1>5. ASSUME NEW t \in Thread, Handle(t) PROVE TypeOK'
  <2>1. /\ req[t] \in RequestRecord
        /\ node[t] \in Node
        /\ Success(<<>>) \in Response /\ Failed \in Response
        /\ pc[t] \in Steps
    BY NullTypes
  <2>2. CASE Lock(t)
    BY <2>2 DEF Lock, Steps
  <2>3. CASE Dispatch(t)
    BY <2>3, <2>1 DEF Dispatch, Steps
  <2>4. CASE DispatchOther(t)
    <3>1. CASE Die
      BY <3>1, DieType
    <3>2. ASSUME NEW ok \in BOOLEAN PROVE [ok |-> ok, data |-> <<>>, names |-> {}] \in Response
      BY DEF Response
    <3>3. QED
      BY <2>4, <3>1, <3>2, <2>1 DEF DispatchOther, Steps
  <2>5. CASE Unlock(t)
    BY <2>5 DEF Unlock, Steps
  <2>6. CASE Send(t)
    <3>1. node[t].msg \in Nat
      BY <2>1 DEF Node
    <3>2. CASE Die
      BY <3>2, DieType
    <3>3. QED
      BY <2>6, <3>1, <3>2, NullTypes DEF Send, Steps
  <2>7. CASE Produce(t)
    <3>1. CASE Die
      BY <3>1, DieType
    <3>2. CASE ~Die
      <4>1. req[t].queueName \in QueueName
        BY <2>7, <3>2 DEF Produce
      <4>2. \A i \in NextIds(files[req[t].queueName]) : i \in Nat
        BY <4>1, NextIdType
      <4>3. \A i \in NextIds(files[req[t].queueName]) :
              [id |-> i, msg |-> serial + 1, whole |-> TRUE] \in Node
        BY <4>2 DEF Node
      <4>4. node' \in [Thread -> Node]
        BY <2>7, <3>2, <4>3 DEF Produce
      <4>5. /\ UNCHANGED <<status, pool, nodes, lock, req, todo, res, disk, lastOut, acked, removed>>
            /\ pc' = [pc EXCEPT ![t] = "QueueAdd"]
            /\ serial' = serial + 1
        BY <2>7, <3>2 DEF Produce
      <4>6. QED
        BY <4>4, <4>5 DEF Steps
    <3>3. QED
      BY <3>1, <3>2
  <2>8. CASE QueueAdd(t)
    <3>1. CASE Die
      BY <3>1, DieType
    <3>2. CASE ~Die
      <4> DEFINE q == req[t].queueName
      <4>1. q \in QueueName
        BY <2>8, <3>2 DEF QueueAdd
      <4>2. ASSUME NEW i \in NextIds(files[q])
            PROVE  LET new == {f \in files[q] : f.id # i}
                                \cup {[id |-> i, msg |-> node[t].msg, whole |-> FALSE]}
                   IN  new \in SUBSET Node /\ IsFiniteSet(new)
        <5>1. i \in Nat
          BY <4>1, <4>2, NextIdType
        <5>2. [id |-> i, msg |-> node[t].msg, whole |-> FALSE] \in Node
          BY <2>1, <5>1 DEF Node
        <5>3. IsFiniteSet({f \in files[q] : f.id # i})
          BY <4>1, FS_Subset
        <5>4. QED
          BY <4>1, <5>2, <5>3, FS_AddElement
      <4>3. \/ UNCHANGED files
            \/ \E new \in SUBSET Node : IsFiniteSet(new) /\ files' = [files EXCEPT ![q] = new]
        BY <2>8, <3>2, <4>1, <4>2 DEF QueueAdd
      <4>4. /\ files' \in [QueueName -> SUBSET Node]
            /\ \A p \in QueueName : IsFiniteSet(files'[p])
        BY <4>1, <4>3
      <4>5. QED
        BY <2>8, <3>2, <4>4, <2>1 DEF QueueAdd, Steps
    <3>3. QED
      BY <3>1, <3>2
  <2>9. CASE WriteNode(t)
    <3> DEFINE q == req[t].queueName
               written(f) == IF f.msg = node[t].msg
                             THEN [id |-> f.id, msg |-> f.msg, whole |-> TRUE]
                             ELSE f
               new == {written(f) : f \in files[q]}
    <3>1. ASSUME q \in QueueName PROVE new \in SUBSET Node /\ IsFiniteSet(new)
      <4>1. \A f \in Node : written(f) \in Node
        BY DEF Node
      <4>2. new \in SUBSET Node
        BY <3>1, <4>1
      <4>3. [f \in files[q] |-> written(f)] \in Surjection(files[q], new)
        BY DEF Surjection
      <4>4. IsFiniteSet(new)
        BY <3>1, <4>3, FS_Surjection
      <4>5. QED
        BY <4>2, <4>4
    <3>2. /\ files' \in [QueueName -> SUBSET Node]
          /\ \A p \in QueueName : IsFiniteSet(files'[p])
      BY <2>9, <3>1 DEF WriteNode
    <3>3. nodes' \in [QueueName -> Seq(Node)]
      <4>1. \A s \in Seq(Node) : Append(s, node[t]) \in Seq(Node)
        BY <2>1, AppendProperties
      <4>2. QED
        BY <2>9, <4>1 DEF WriteNode
    <3>4. QED
      BY <2>9, <3>2, <3>3, <2>1 DEF WriteNode, Steps
  <2>10. CASE Consume(t)
    <3> DEFINE q == req[t].queueName
    <3>1. q \in QueueName
      BY <2>10 DEF Consume, Serving, NeedsQueue
    <3>2. nodes[q] # <<>> => Head(nodes[q]) \in Node
      BY <3>1, HeadTailProperties
    <3>3. node' \in [Thread -> Node]
      BY <2>10, <3>2 DEF Consume
    <3>4. QED
      BY <2>10, <2>1, <3>3 DEF Consume, Steps
  <2>11. CASE QueuePoll(t)
    <3>1. CASE Die
      BY <3>1, DieType
    <3>2. CASE ~Die
      <4> DEFINE q == req[t].queueName
                 f == {g \in files[q] : g.id = node[t].id}
      <4>1. q \in QueueName /\ nodes[q] # <<>>
        BY <2>11 DEF QueuePoll, Serving
      <4>2. Tail(nodes[q]) \in Seq(Node)
        BY <4>1, HeadTailProperties
      <4>3. files[q] \ f \in SUBSET Node /\ IsFiniteSet(files[q] \ f)
        BY <4>1, FS_Subset
      <4>4. node[t].msg \in Nat
        BY <2>1 DEF Node
      <4>5. Success(<<Contents(node[t])>>) \in Response
        <5>1. Contents(node[t]) \in Nat
          BY <4>4 DEF Contents
        <5>2. QED
          BY <5>1 DEF Success, Response
      <4>6. /\ files' = [files EXCEPT ![q] = @ \ f]
            /\ nodes' = [nodes EXCEPT ![q] = Tail(@)]
        BY <2>11, <3>2 DEF QueuePoll
      <4>7. /\ files' \in [QueueName -> SUBSET Node]
            /\ \A p \in QueueName : IsFiniteSet(files'[p])
            /\ nodes' \in [QueueName -> Seq(Node)]
        BY <4>1, <4>2, <4>3, <4>6
      <4>8. QED
        <5>1. UNCHANGED <<status, pool, dirs, lock, req, node, todo, serial, acked>>
          BY <2>11, <3>2 DEF QueuePoll
        <5>2. /\ lastOut' \in [QueueName -> Nat]
              /\ removed' \in SUBSET Nat
          BY <2>11, <3>2, <4>1, <4>4 DEF QueuePoll
        <5>3. /\ res' \in [Thread -> Response]
              /\ pc' \in [Thread -> Steps]
          <6>1. Answer(t, Success(<<Contents(node[t])>>))
            BY <2>11, <3>2 DEF QueuePoll
          <6>2. QED
            BY <4>5, <6>1 DEF Steps
        <5>4. QED
          BY <4>7, <5>1, <5>2, <5>3
    <3>3. QED
      BY <3>1, <3>2
  <2>12. CASE AddQueue(t)
    <3>1. req[t].data \in QueueName
      BY <2>12 DEF AddQueue, Serving
    <3>2. nodes' \in [QueueName -> Seq(Node)]
      <4>1. nodes' = nodes \/ nodes' = [nodes EXCEPT ![req[t].data] = <<>>]
        BY <2>12 DEF AddQueue
      <4>2. <<>> \in Seq(Node)
        BY EmptySeq
      <4>3. QED
        BY <4>1, <4>2
    <3>3. pool' \in SUBSET QueueName /\ dirs' \in SUBSET QueueName
      BY <2>12, <3>1 DEF AddQueue
    <3>4. /\ res' \in [Thread -> Response]
          /\ pc' \in [Thread -> Steps]
      BY <2>12, <2>1 DEF AddQueue, Steps
    <3>5. QED
      BY <2>12, <3>2, <3>3, <3>4 DEF AddQueue
  <2>13. CASE RemoveQueue(t)
    <3>1. CASE Die
      BY <3>1, DieType
    <3>2. CASE ~Die
      <4> DEFINE q == req[t].queueName
      <4>1. q \in QueueName
        BY <2>13 DEF RemoveQueue, Serving, NeedsQueue
      <4>2. Ids(files[q]) \in SUBSET Nat
        BY <4>1 DEF Ids, Node
      <4>3. todo' \in [Thread -> SUBSET Nat]
        BY <2>13, <3>2, <4>2 DEF RemoveQueue
      <4>4. QED
        BY <2>13, <2>1, <3>2, <4>3 DEF RemoveQueue, Steps
    <3>3. QED
      BY <3>1, <3>2
  <2>14. CASE UnlinkNext(t)
    <3> DEFINE q == req[t].queueName
               ofId(i) == {g \in files[q] : g.id = i}
    <3>1. q \in QueueName
      BY <2>14 DEF UnlinkNext, Serving
    <3>2. PICK i \in todo[t] :
            \/ /\ files' = [files EXCEPT ![q] = @ \ ofId(i)]
               /\ removed' = removed \cup {g.msg : g \in ofId(i)}
               /\ todo' = [todo EXCEPT ![t] = @ \ {i}]
               /\ UNCHANGED <<pc, res>>
            \/ /\ todo' = [todo EXCEPT ![t] = {}]
               /\ Answer(t, Failed)
               /\ UNCHANGED <<files, removed>>
      BY <2>14 DEF UnlinkNext
    <3>3. files[q] \ ofId(i) \in SUBSET Node /\ IsFiniteSet(files[q] \ ofId(i))
      BY <3>1, FS_Subset
    <3>4. /\ files' \in [QueueName -> SUBSET Node]
          /\ \A p \in QueueName : IsFiniteSet(files'[p])
      BY <3>1, <3>2, <3>3
    <3>5. removed' \in SUBSET Nat
      <4>1. \A g \in ofId(i) : g.msg \in Nat
        BY <3>1 DEF Node
      <4>2. {g.msg : g \in ofId(i)} \in SUBSET Nat
        BY <4>1
      <4> HIDE DEF ofId
      <4>3. removed' = removed \cup {g.msg : g \in ofId(i)} \/ UNCHANGED removed
        BY <3>2
      <4>4. QED
        BY <4>2, <4>3
    <3>6. /\ todo' \in [Thread -> SUBSET Nat]
          /\ pc' \in [Thread -> Steps]
          /\ res' \in [Thread -> Response]
      BY <3>2, <2>1 DEF Steps
    <3>7. QED
      BY <2>14, <3>4, <3>5, <3>6 DEF UnlinkNext
  <2>15. CASE RemoveDir(t)
    <3>1. nodes' \in [QueueName -> Seq(Node)]
      <4>1. nodes' = nodes \/ nodes' = [nodes EXCEPT ![req[t].queueName] = <<>>]
        BY <2>15 DEF RemoveDir
      <4>2. <<>> \in Seq(Node)
        BY EmptySeq
      <4>3. QED
        BY <4>1, <4>2
    <3>2. pool' \in SUBSET QueueName /\ dirs' \in SUBSET QueueName
      BY <2>15 DEF RemoveDir
    <3>3. /\ res' \in [Thread -> Response]
          /\ pc' \in [Thread -> Steps]
      <4>1. Answer(t, Success(<<>>)) \/ Answer(t, Failed)
        BY <2>15 DEF RemoveDir
      <4>2. QED
        BY <2>1, <4>1 DEF Steps
    <3>4. QED
      BY <2>15, <3>1, <3>2, <3>3 DEF RemoveDir
  <2>16. CASE Read(t)
    <3> DEFINE q == req[t].queueName
    <3>1. pc[t] \in {"length", "get", "getAll"} => q \in QueueName
      BY DEF Serving, NeedsQueue
    <3>2. pc[t] \in {"length", "get", "getAll"} => Len(nodes[q]) \in Nat
      BY <3>1, LenProperties
    <3>3. ASSUME Length(t) PROVE res' \in [Thread -> Response]
      <4>1. Len(nodes[q]) \in Nat
        BY <3>2, <3>3 DEF Length
      <4>2. Success(<<Len(nodes[q])>>) \in Response
        BY <4>1 DEF Success, Response
      <4>3. QED
        BY <3>3, <4>2 DEF Length
    <3>4. ASSUME Get(t) PROVE res' \in [Thread -> Response]
      <4>1. Len(nodes[q]) > req[t].index => FromRoot(q, req[t].index) \in Nat
        BY <2>1, <3>1, <3>2, <3>4, FromRootType, RequestType DEF Get
      <4>2. Len(nodes[q]) > req[t].index => Success(<<FromRoot(q, req[t].index)>>) \in Response
        BY <4>1 DEF Success, Response
      <4>3. QED
        BY <2>1, <3>4, <4>2 DEF Get
    <3>5. ASSUME GetAll(t) PROVE res' \in [Thread -> Response]
      <4> DEFINE all == [k \in 1 .. Len(nodes[q]) |-> FromRoot(q, k - 1)]
      <4>1. \A k \in 1 .. Len(nodes[q]) : FromRoot(q, k - 1) \in Nat
        BY <3>1, <3>2, <3>5, FromRootType DEF GetAll
      <4>2. \A n \in Nat : \A s \in [1 .. n -> Nat] : s \in Seq(Nat)
        BY SeqDef
      <4>3. all \in Seq(Nat)
        BY <3>2, <3>5, <4>1, <4>2 DEF GetAll
      <4>4. QED
        BY <3>5, <4>3, NullTypes DEF GetAll
    <3>6. ASSUME GetAllQueueNames(t) PROVE res' \in [Thread -> Response]
      <4>1. [ok |-> TRUE, data |-> <<>>, names |-> pool] \in Response
        BY EmptySeq DEF Response
      <4>2. QED
        BY <3>6, <4>1 DEF GetAllQueueNames
    <3>7. res' \in [Thread -> Response] /\ pc' = [pc EXCEPT ![t] = "unlock"]
      BY <2>16, <3>3, <3>4, <3>5, <3>6
      DEF Read, Length, Get, GetAll, GetAllQueueNames
    <3>8. QED
      BY <2>16, <3>7 DEF Read, Steps
  <2>20. QED
    BY <1>5, <2>2, <2>3, <2>4, <2>5, <2>6, <2>7, <2>8, <2>9, <2>10, <2>11, <2>12,
       <2>13, <2>14, <2>15, <2>16 DEF Handle
<1>6. QED
  BY <1>1, <1>2, <1>3, <1>4, <1>5 DEF Next

-----------------------------------------------------------------------------
(* Ids                                                                      *)

\* The next id is one, and above every id in the directory.
LEMMA NextIdAbove ==
  ASSUME NEW fs \in SUBSET Node, NEW i \in NextIds(fs)
  PROVE  \A f \in fs : f.id < i
  BY DEF NextIds, Node

LEMMA NextIdUnique ==
  ASSUME NEW fs \in SUBSET Node, NEW i \in NextIds(fs), NEW j \in NextIds(fs)
  PROVE  i = j
  BY DEF NextIds, Node

-----------------------------------------------------------------------------
(* The inductive invariant                                                  *)

LEMMA CriticalSteps ==
  /\ {"closed", "lock", "send"} \cap Critical = {}
  /\ Operations \cup NeedsQueue \cup {"dispatch", "QueueAdd", "WriteNode", "QueuePoll",
        "UnlinkNext", "unlock"} \subseteq Critical
  BY DEF Critical, Steps, Operations, NeedsQueue

LEMMA InitInd == Init => TypeOK /\ IndInv
<1> SUFFICES ASSUME Init PROVE TypeOK /\ IndInv
  OBVIOUS
<1>1. TypeOK
  BY NullTypes, EmptySeq, FS_EmptySet DEF Init, TypeOK, Steps
<1>2. Locking
  BY CriticalSteps, NoneAssumption DEF Init, Locking
<1>3. Pooling /\ Serving /\ Producing /\ FilesOrdered /\ OldestFirst /\ NoOrphanFiles
  BY DEF Init, Pooling, PoolHasDirs, Serving, Producing, FilesOrdered, OldestFirst,
         NoOrphanFiles, NodesOf, NeedsQueue
<1>4. QED
  BY <1>1, <1>2, <1>3 DEF IndInv

\* What the end of the process leaves is the disk, and nothing of it is in use.
LEMMA DieInd == ASSUME TypeOK, IndInv, Die PROVE IndInv'
<1>1. Locking'
  BY CriticalSteps, NoneAssumption DEF Die, Locking
<1>2. Pooling'
  BY DEF Die, TypeOK, IndInv, Pooling, PoolHasDirs
<1>3. Serving' /\ Producing'
  BY DEF Die, Serving, Producing, NeedsQueue
<1>4. (FilesOrdered /\ OldestFirst /\ NoOrphanFiles)'
  BY DEF Die, TypeOK, IndInv, FilesOrdered, OldestFirst, NoOrphanFiles, NodesOf
<1>5. QED
  BY <1>1, <1>2, <1>3, <1>4 DEF IndInv

\* A thread in an operation is alone there, and the server is up.
LEMMA Alone ==
  ASSUME IndInv, NEW t \in Thread, pc[t] \in Critical
  PROVE  /\ status = "up" /\ pool = dirs
         /\ \A u \in Thread \ {t} : pc[u] \notin Critical
  BY CriticalSteps DEF IndInv, Locking, Pooling, PoolHasDirs

\* A step of t within its operation, or out of it, leaves the mutex as it should be.
LEMMA InsideLocking ==
  ASSUME TypeOK, IndInv, NEW t \in Thread, pc[t] \in Critical, NEW step \in Critical,
         UNCHANGED <<status, lock>>, pc' = [pc EXCEPT ![t] = step]
  PROVE  Locking'
  BY Alone, CriticalSteps DEF IndInv, Locking, TypeOK

\* A step of t that changes neither the queues nor a message on its way to one keeps
\* everything but what t is about to do.
LEMMA QuietStep ==
  ASSUME TypeOK, IndInv, NEW t \in Thread,
         UNCHANGED <<status, pool, nodes, dirs, files, serial, lastOut>>,
         \A u \in Thread \ {t} : UNCHANGED <<pc[u], req[u], node[u]>>,
         pc[t] # "WriteNode",
         pc'[t] \notin {"QueueAdd", "WriteNode"},
         pc'[t] \in NeedsQueue \cup {"QueuePoll", "UnlinkNext"} => req'[t].queueName \in pool,
         pc'[t] = "addQueue" => req'[t].data \in QueueName,
         pc'[t] = "QueuePoll" => /\ nodes[req'[t].queueName] # <<>>
                                 /\ node'[t] = Head(nodes[req'[t].queueName])
  PROVE  (Pooling /\ Serving /\ Producing /\ FilesOrdered /\ OldestFirst /\ NoOrphanFiles)'
<1>1. Pooling' /\ FilesOrdered' /\ OldestFirst'
  BY DEF IndInv, Pooling, PoolHasDirs, FilesOrdered, OldestFirst, NodesOf
<1>2. Serving'
  BY DEF IndInv, Serving
<1>3. Producing'
  BY DEF IndInv, Producing, NodesOf
<1>4. NoOrphanFiles'
  BY DEF IndInv, NoOrphanFiles, NodesOf
<1>5. QED
  BY <1>1, <1>2, <1>3, <1>4

\* Startup: nothing runs but the loop that copies the disk into memory.
LEMMA StartupInd == ASSUME TypeOK, IndInv, Startup PROVE IndInv'
<1> USE DEF IndInv
<1>1. CASE Start
  BY <1>1 DEF Start, Locking, Pooling, PoolHasDirs, Serving, Producing, FilesOrdered,
              OldestFirst, NoOrphanFiles, NodesOf
<1>2. ASSUME NEW q \in QueueName, LoadQueue(q) PROVE IndInv'
  <2>1. PICK ns \in Sorted(files[q]) : nodes' = [nodes EXCEPT ![q] = ns]
    BY <1>2 DEF LoadQueue
  <2>2. /\ \A k \in DOMAIN ns : ns[k] \in files[q]
        /\ \A f \in files[q] : \E k \in DOMAIN ns : ns[k] = f
        /\ \A j, k \in DOMAIN ns : j < k => ns[j].id < ns[k].id
    BY <2>1 DEF Sorted
  <2>3. nodes'[q] = ns /\ \A p \in QueueName \ {q} : nodes'[p] = nodes[p]
    BY <2>1 DEF TypeOK
  <2>4. UNCHANGED <<status, lock, pc, req, node, files, dirs, serial, lastOut>>
    BY <1>2 DEF LoadQueue
  <2>5. NodesOf(q)' = files[q] /\ \A p \in QueueName \ {q} : NodesOf(p)' = NodesOf(p)
    BY <2>2, <2>3 DEF NodesOf
  <2>6. \A t \in Thread : pc[t] = "closed"
    BY <1>2 DEF LoadQueue, Locking
  <2>7. Locking' /\ Serving' /\ Producing'
    BY <2>4, <2>6 DEF Locking, Serving, Producing, NeedsQueue
  <2>8. Pooling'
    BY <1>2, <2>3 DEF LoadQueue, Pooling, PoolHasDirs
  <2>9. FilesOrdered'
    BY <2>4, <2>5 DEF FilesOrdered
  <2>10. OldestFirst'
    <3>1. \A j, k \in DOMAIN ns : j < k => ns[j].msg < ns[k].msg
      BY <2>2 DEF FilesOrdered
    <3>2. \A p \in QueueName : \A f \in files'[p] \cup NodesOf(p)' : lastOut'[p] < f.msg
      BY <2>4, <2>5 DEF OldestFirst
    <3>3. \A p \in QueueName : \A j, k \in DOMAIN nodes'[p] :
            j < k => nodes'[p][j].msg < nodes'[p][k].msg
      BY <2>3, <3>1 DEF OldestFirst
    <3>4. QED
      BY <3>2, <3>3 DEF OldestFirst, NodesOf
  <2>11. NoOrphanFiles'
    <3>1. ASSUME NEW p \in pool', NEW f \in files'[p]
          PROVE  \E g \in NodesOf(p)' : g.id = f.id /\ g.msg = f.msg
      <4>1. CASE p = q
        BY <2>4, <2>5, <4>1
      <4>2. CASE p # q
        <5>1. p \in pool
          BY <1>2, <4>2 DEF LoadQueue
        <5>2. p \in QueueName
          BY <5>1 DEF TypeOK
        <5>3. QED
          BY <2>4, <2>5, <2>6, <4>2, <5>1, <5>2 DEF NoOrphanFiles
      <4>3. QED
        BY <4>1, <4>2
    <3>2. QED
      BY <3>1 DEF NoOrphanFiles
  <2>12. QED
    BY <2>7, <2>8, <2>9, <2>10, <2>11
<1>3. CASE Listen
  <2>1. Pooling'
    BY <1>3 DEF Listen, Pooling, PoolHasDirs
  <2>2. Locking' /\ Serving' /\ Producing'
    BY <1>3 DEF Listen, Locking, Serving, Producing, NodesOf
  <2>3. (FilesOrdered /\ OldestFirst /\ NoOrphanFiles)'
    BY <1>3 DEF Listen, FilesOrdered, OldestFirst, NoOrphanFiles, NodesOf
  <2>4. QED
    BY <2>1, <2>2, <2>3
<1>4. CASE LoadFails
  BY <1>4, DieInd DEF LoadFails
<1>5. QED
  BY <1>1, <1>2, <1>3, <1>4 DEF Startup

\* The frame of broker_thread.
LEMMA AcceptInd ==
  ASSUME TypeOK, IndInv, NEW t \in Thread, NEW r \in Request, Accept(t, r) PROVE IndInv'
<1>1. Locking'
  BY CriticalSteps DEF Accept, TypeOK, IndInv, Locking
<1>2. (Pooling /\ Serving /\ Producing /\ FilesOrdered /\ OldestFirst /\ NoOrphanFiles)'
  <2>1. pc'[t] = "lock" /\ pc[t] = "closed"
    BY DEF Accept, TypeOK
  <2>2. /\ UNCHANGED <<status, pool, nodes, dirs, files, serial, lastOut>>
        /\ \A u \in Thread \ {t} : UNCHANGED <<pc[u], req[u], node[u]>>
    BY DEF Accept, TypeOK
  <2>3. QED
    BY <2>1, <2>2, QuietStep DEF NeedsQueue
<1>3. QED
  BY <1>1, <1>2 DEF IndInv

LEMMA FrameInd ==
  ASSUME TypeOK, IndInv, NEW t \in Thread,
         Lock(t) \/ Dispatch(t) \/ DispatchOther(t) \/ Unlock(t) \/ Send(t)
  PROVE  IndInv'
<1>1. CASE Die
  BY <1>1, DieInd
<1>2. CASE ~Die
  <2>1. Locking'
    <3>1. CASE Lock(t)
      BY <3>1, CriticalSteps, NoneAssumption DEF Lock, TypeOK, IndInv, Locking
    <3>2. CASE Dispatch(t) \/ DispatchOther(t)
      <4>1. \E step \in Critical : pc' = [pc EXCEPT ![t] = step]
        BY <1>2, <3>2, CriticalSteps DEF Dispatch, DispatchOther
      <4>2. QED
        BY <1>2, <3>2, <4>1, InsideLocking, CriticalSteps DEF Dispatch, DispatchOther
    <3>3. CASE Unlock(t)
      BY <3>3, CriticalSteps, NoneAssumption DEF Unlock, TypeOK, IndInv, Locking
    <3>4. CASE Send(t)
      BY <1>2, <3>4, CriticalSteps DEF Send, TypeOK, IndInv, Locking
    <3>5. QED
      BY <3>1, <3>2, <3>3, <3>4
  <2>2. /\ pc'[t] \in {"dispatch", "unlock", "send", "closed"} \cup Operations
        /\ pc'[t] \in Operations => pc'[t] = req[t].type /\ ~Rejected(req[t])
        /\ pc[t] # "WriteNode"
    BY <1>2 DEF Lock, Dispatch, DispatchOther, Unlock, Send, TypeOK, Operations
  <2>3. /\ UNCHANGED <<status, pool, nodes, dirs, files, serial, lastOut>>
        /\ \A u \in Thread \ {t} : UNCHANGED <<pc[u], req[u], node[u]>>
        /\ pc'[t] \in Operations => req' = req
    BY <1>2 DEF Lock, Dispatch, DispatchOther, Unlock, Send, TypeOK, Operations
  <2>4. /\ pc'[t] \in NeedsQueue => req'[t].queueName \in pool
        /\ pc'[t] = "addQueue" => req'[t].data \in QueueName
    <3>1. req[t].data \in QueueName \cup {None}
      BY RequestType DEF TypeOK
    <3>2. QED
      BY <2>2, <2>3, <3>1 DEF Rejected, NeedsQueue, NeedsData, Operations
  <2>5. pc'[t] \notin {"QueueAdd", "WriteNode", "QueuePoll", "UnlinkNext"}
    BY <2>2 DEF Operations
  <2>6. (Pooling /\ Serving /\ Producing /\ FilesOrdered /\ OldestFirst /\ NoOrphanFiles)'
    BY <2>2, <2>3, <2>4, <2>5, QuietStep
  <2>7. QED
    BY <2>1, <2>6 DEF IndInv
<1>3. QED
  BY <1>1, <1>2

-----------------------------------------------------------------------------
(* The operations, one lemma each                                           *)

LEMMA NodeTypes ==
  ASSUME TypeOK
  PROVE  /\ \A f \in Node : f.id \in Nat /\ f.msg \in Nat
         /\ \A q \in QueueName : /\ files[q] \subseteq Node
                                 /\ NodesOf(q) \subseteq Node
                                 /\ nodes[q] \in Seq(Node)
                                 /\ Len(nodes[q]) \in Nat
                                 /\ DOMAIN nodes[q] = 1 .. Len(nodes[q])
                                 /\ \A k \in DOMAIN nodes[q] : nodes[q][k] \in Node
                                 /\ lastOut[q] \in Nat
<1>1. \A f \in Node : f.id \in Nat /\ f.msg \in Nat
  BY DEF Node
<1>2. ASSUME NEW q \in QueueName
      PROVE  /\ nodes[q] \in Seq(Node)
             /\ Len(nodes[q]) \in Nat
             /\ DOMAIN nodes[q] = 1 .. Len(nodes[q])
             /\ \A k \in DOMAIN nodes[q] : nodes[q][k] \in Node
  BY LenProperties, ElementOfSeq DEF TypeOK
<1>3. QED
  BY <1>1, <1>2 DEF TypeOK, NodesOf

LEMMA ProduceInd == ASSUME TypeOK, IndInv, NEW t \in Thread, Produce(t) PROVE IndInv'
<1> DEFINE q == req[t].queueName
<1>1. CASE Die
  BY <1>1, DieInd
<1>2. CASE ~Die
  <2>1. PICK i \in NextIds(files[q]) :
          node' = [node EXCEPT ![t] = [id |-> i, msg |-> serial + 1, whole |-> TRUE]]
    BY <1>2 DEF Produce
  <2>2. /\ serial' = serial + 1
        /\ pc' = [pc EXCEPT ![t] = "QueueAdd"]
        /\ UNCHANGED <<status, pool, nodes, dirs, files, lock, req, lastOut>>
        /\ pc[t] = "produce"
    BY <1>2 DEF Produce
  <2>3. q \in pool /\ pc[t] \in Critical
    BY <2>2, CriticalSteps DEF IndInv, Serving, NeedsQueue, Operations
  <2>4. \A u \in Thread \ {t} : pc'[u] = pc[u] /\ pc[u] \notin Critical
    BY <2>2, <2>3, Alone DEF TypeOK
  <2>5. pc'[t] = "QueueAdd" /\ node'[t] = [id |-> i, msg |-> serial + 1, whole |-> TRUE]
    BY <2>1, <2>2 DEF TypeOK
  <2>6. Locking'
    BY <2>2, <2>3, InsideLocking, CriticalSteps
  <2>7. Pooling' /\ OldestFirst'
    BY <2>2 DEF IndInv, Pooling, PoolHasDirs, OldestFirst, NodesOf
  <2>8. Serving'
    BY <2>2, <2>3, <2>4, <2>5, CriticalSteps DEF Serving, NeedsQueue, Operations
  <2>9. serial \in Nat /\ \A p \in QueueName :
          /\ lastOut[p] \in Nat /\ lastOut[p] <= serial
          /\ \A f \in files[p] \cup NodesOf(p) : f.msg \in Nat /\ f.msg <= serial
    BY NodeTypes DEF IndInv, FilesOrdered, TypeOK
  <2>10. FilesOrdered'
    BY <2>2, <2>9 DEF IndInv, FilesOrdered, NodesOf
  <2>11. Producing'
    <3>1. \A u \in Thread \ {t} : pc'[u] \notin {"QueueAdd", "WriteNode"}
      BY <2>4, CriticalSteps
    <3>2. NodesOf(q)' = NodesOf(q) /\ \A p \in QueueName : NodesOf(p)' = NodesOf(p)
      BY <2>2 DEF NodesOf
    <3>3. \A p \in QueueName :
            /\ lastOut'[p] < serial'
            /\ \A f \in files'[p] \cup NodesOf(p)' : f.msg < serial'
      BY <2>2, <2>9, <3>2
    <3>4. node'[t].msg = serial' /\ node'[t].id \in NextIds(files'[q])
      BY <2>2, <2>5
    <3>5. QED
      BY <2>2, <2>5, <3>1, <3>3, <3>4 DEF Producing
  <2>12. NoOrphanFiles'
    BY <2>2, <2>4, <2>5, CriticalSteps DEF IndInv, NoOrphanFiles, NodesOf
  <2>13. QED
    BY <2>6, <2>7, <2>8, <2>10, <2>11, <2>12 DEF IndInv
<1>3. QED
  BY <1>1, <1>2

\* An answer from within an operation that has changed nothing.
LEMMA AnswerInd ==
  ASSUME TypeOK, IndInv, NEW t \in Thread, pc[t] \in Critical \ {"WriteNode"},
         NEW response, Answer(t, response),
         UNCHANGED <<status, pool, nodes, dirs, files, lock, req, node, serial, lastOut>>
  PROVE  IndInv'
<1>1. Locking'
  BY InsideLocking, CriticalSteps
<1>2. pc'[t] = "unlock" /\ \A u \in Thread \ {t} : UNCHANGED <<pc[u], req[u], node[u]>>
  BY DEF TypeOK
<1>3. (Pooling /\ Serving /\ Producing /\ FilesOrdered /\ OldestFirst /\ NoOrphanFiles)'
  BY <1>2, QuietStep DEF NeedsQueue
<1>4. QED
  BY <1>1, <1>3 DEF IndInv

LEMMA ReadInd == ASSUME TypeOK, IndInv, NEW t \in Thread, Read(t) PROVE IndInv'
<1>1. pc[t] \in Critical \ {"WriteNode"}
  BY CriticalSteps DEF Read, Length, Get, GetAll, GetAllQueueNames, Operations
<1>2. \E response : Answer(t, response)
  BY DEF Read, Length, Get, GetAll, GetAllQueueNames
<1>3. QED
  BY <1>1, <1>2, AnswerInd DEF Read

LEMMA ConsumeInd == ASSUME TypeOK, IndInv, NEW t \in Thread, Consume(t) PROVE IndInv'
<1> DEFINE q == req[t].queueName
<1>1. pc[t] = "consume" /\ pc[t] \in Critical \ {"WriteNode"}
  BY CriticalSteps DEF Consume, Operations
<1>2. UNCHANGED <<status, pool, nodes, dirs, files, lock, req, serial, lastOut>>
  BY DEF Consume
<1>3. CASE nodes[q] = <<>>
  BY <1>1, <1>2, <1>3, AnswerInd DEF Consume
<1>4. CASE nodes[q] # <<>>
  <2>1. node' = [node EXCEPT ![t] = Head(nodes[q])] /\ pc' = [pc EXCEPT ![t] = "QueuePoll"]
    BY <1>4 DEF Consume
  <2>2. q \in pool
    BY <1>1 DEF IndInv, Serving, NeedsQueue
  <2>3. Locking'
    BY <1>1, <1>2, <2>1, InsideLocking, CriticalSteps
  <2>4. pc'[t] = "QueuePoll" /\ node'[t] = Head(nodes[q])
    BY <2>1 DEF TypeOK
  <2>5. \A u \in Thread \ {t} : UNCHANGED <<pc[u], req[u], node[u]>>
    BY <1>2, <2>1 DEF TypeOK
  <2>6. (Pooling /\ Serving /\ Producing /\ FilesOrdered /\ OldestFirst /\ NoOrphanFiles)'
    BY <1>1, <1>2, <1>4, <2>2, <2>4, <2>5, QuietStep
  <2>7. QED
    BY <2>3, <2>6 DEF IndInv
<1>5. QED
  BY <1>3, <1>4

LEMMA RemoveQueueInd == ASSUME TypeOK, IndInv, NEW t \in Thread, RemoveQueue(t) PROVE IndInv'
<1> DEFINE q == req[t].queueName
<1>1. pc[t] = "removeQueue" /\ pc[t] \in Critical \ {"WriteNode"}
  BY CriticalSteps DEF RemoveQueue, Operations
<1>2. CASE Die
  BY <1>2, DieInd
<1>3. CASE ~Die
  <2>1. UNCHANGED <<status, pool, nodes, dirs, files, lock, req, node, serial, lastOut>>
    BY <1>3 DEF RemoveQueue
  <2>2. CASE Answer(t, Failed)
    BY <1>1, <2>1, <2>2, AnswerInd
  <2>3. CASE pc' = [pc EXCEPT ![t] = "UnlinkNext"]
    <3>1. q \in pool
      BY <1>1 DEF IndInv, Serving, NeedsQueue
    <3>2. Locking'
      BY <1>1, <2>1, <2>3, InsideLocking, CriticalSteps
    <3>3. pc'[t] = "UnlinkNext" /\ \A u \in Thread \ {t} : UNCHANGED <<pc[u], req[u], node[u]>>
      BY <2>1, <2>3 DEF TypeOK
    <3>4. (Pooling /\ Serving /\ Producing /\ FilesOrdered /\ OldestFirst /\ NoOrphanFiles)'
      BY <1>1, <2>1, <3>1, <3>3, QuietStep
    <3>5. QED
      BY <3>2, <3>4 DEF IndInv
  <2>4. QED
    BY <1>3, <2>2, <2>3 DEF RemoveQueue
<1>4. QED
  BY <1>2, <1>3

\* The id Queue_add asks for again is the id of the node, and above all others.
LEMMA FileAdded ==
  ASSUME TypeOK, IndInv, NEW t \in Thread, pc[t] = "QueueAdd", NEW q \in QueueName,
         q = req[t].queueName,
         \E i \in NextIds(files[q]) :
           files' = [files EXCEPT ![q] = {f \in @ : f.id # i}
                       \cup {[id |-> i, msg |-> node[t].msg, whole |-> FALSE]}]
  PROVE  /\ files'[q] = files[q] \cup {[id |-> node[t].id, msg |-> serial, whole |-> FALSE]}
         /\ \A p \in QueueName \ {q} : files'[p] = files[p]
         /\ node[t].id \in Nat /\ \A f \in files[q] : f.id \in Nat /\ f.id < node[t].id
<1> DEFINE i == node[t].id
<1>1. i \in NextIds(files[q]) /\ node[t].msg = serial
  BY DEF IndInv, Producing
<1>2. i \in Nat /\ \A f \in files[q] : f.id \in Nat /\ f.id < i
  <2>1. i \in Nat /\ \A f \in files[q] : f.id \in Nat
    BY NodeTypes DEF TypeOK
  <2>2. QED
    BY <1>1, <2>1, NextIdAbove, NodeTypes
<1>3. \A j \in NextIds(files[q]) : j = i
  BY <1>1, NextIdUnique, NodeTypes
<1>4. files' = [files EXCEPT ![q] = {f \in files[q] : f.id # i}
                  \cup {[id |-> i, msg |-> serial, whole |-> FALSE]}]
  <2>1. PICK j \in NextIds(files[q]) :
          files' = [files EXCEPT ![q] = {f \in files[q] : f.id # j}
                      \cup {[id |-> j, msg |-> node[t].msg, whole |-> FALSE]}]
    OBVIOUS
  <2>2. j = i
    BY <1>3
  <2>3. QED
    BY <1>1, <2>1, <2>2
<1>5. {f \in files[q] : f.id # i} = files[q]
  BY <1>2
<1>6. QED
  BY <1>2, <1>4, <1>5 DEF TypeOK

LEMMA QueueAddInd == ASSUME TypeOK, IndInv, NEW t \in Thread, QueueAdd(t) PROVE IndInv'
<1> DEFINE q == req[t].queueName
<1>1. pc[t] = "QueueAdd" /\ pc[t] \in Critical \ {"WriteNode"}
  BY CriticalSteps DEF QueueAdd
<1>2. CASE Die
  BY <1>2, DieInd
<1>3. CASE Answer(t, Success(<<>>)) /\ UNCHANGED disk /\ ~Die
  BY <1>1, <1>3, AnswerInd DEF QueueAdd
<1>4. CASE /\ ~Die
           /\ pc' = [pc EXCEPT ![t] = "WriteNode"]
           /\ \E i \in NextIds(files[q]) :
                files' = [files EXCEPT ![q] = {f \in @ : f.id # i}
                            \cup {[id |-> i, msg |-> node[t].msg, whole |-> FALSE]}]
           /\ UNCHANGED <<status, pool, nodes, dirs, lock, req, node, todo, res, history>>
  <2>1. q \in pool /\ q \in QueueName
    BY <1>1 DEF IndInv, Serving, TypeOK
  <2>2. /\ node[t].id \in NextIds(files[q])
        /\ node[t].msg = serial
        /\ \A p \in QueueName : /\ lastOut[p] < serial
                                /\ \A f \in files[p] \cup NodesOf(p) : f.msg < serial
    BY <1>1 DEF IndInv, Producing
  <2> DEFINE i == node[t].id
             new == [id |-> i, msg |-> serial, whole |-> FALSE]
  <2>3. \A f \in files[q] : f.id < i /\ f.id \in Nat /\ i \in Nat
    BY <1>1, <1>4, <2>1, FileAdded
  <2>4. /\ files'[q] = files[q] \cup {new}
        /\ \A p \in QueueName \ {q} : files'[p] = files[p]
    BY <1>1, <1>4, <2>1, FileAdded
  <2>5. pc'[t] = "WriteNode" /\ \A u \in Thread \ {t} : pc'[u] = pc[u] /\ pc[u] \notin Critical
    BY <1>1, <1>4, Alone DEF TypeOK
  <2>6. UNCHANGED <<status, pool, nodes, dirs, lock, req, node, serial, lastOut>>
    BY <1>4
  <2>7. \A p \in QueueName : NodesOf(p)' = NodesOf(p)
    BY <2>6 DEF NodesOf
  <2>8. Locking'
    BY <1>1, <1>4, <2>6, InsideLocking, CriticalSteps
  <2>9. Pooling'
    BY <2>1, <2>4, <2>6 DEF IndInv, Pooling, PoolHasDirs
  <2>10. Serving'
    BY <2>1, <2>5, <2>6, CriticalSteps DEF Serving, NeedsQueue, Operations
  <2>11. new.id = i /\ new.msg = serial
    OBVIOUS
  <2> HIDE DEF new
  <2>12. Producing'
    <3>1. \A p \in QueueName : \A f \in files'[p] : f.msg = serial => p = q /\ f.id = i
      BY <2>2, <2>4, <2>11, NodeTypes DEF TypeOK
    <3>2. QED
      BY <2>2, <2>5, <2>6, <2>7, <3>1, CriticalSteps DEF Producing
  <2>13. FilesOrdered'
    <3>1. \A p \in QueueName : /\ lastOut[p] <= serial
                               /\ \A f \in files'[p] \cup NodesOf(p) : f.msg <= serial
      <4>1. serial \in Nat /\ \A p \in QueueName :
              /\ lastOut[p] \in Nat
              /\ \A f \in files[p] \cup NodesOf(p) : f.msg \in Nat
        BY NodeTypes DEF TypeOK
      <4>2. QED
        BY <2>2, <2>4, <2>11, <4>1
    <3>2. \A p \in QueueName : \A f, g \in files[p] : /\ f.id < g.id => f.msg < g.msg
                                                      /\ f.id = g.id => f = g
      BY DEF IndInv, FilesOrdered
    <3>3. \A f, g \in files'[q] : /\ f.id < g.id => f.msg < g.msg
                                  /\ f.id = g.id => f = g
      <4>1. i \in Nat
        BY NodeTypes DEF TypeOK
      <4>2. \A f \in files[q] : f.msg < serial /\ f.id < i /\ f.id \in Nat
        BY <2>1, <2>2, <2>3
      <4>3. QED
        BY <2>1, <2>4, <2>11, <3>2, <4>1, <4>2
    <3>4. QED
      BY <2>4, <2>6, <2>7, <3>1, <3>2, <3>3 DEF FilesOrdered
  <2>14. OldestFirst'
    <3>1. \A p \in QueueName : \A f \in files'[p] \cup NodesOf(p) : lastOut[p] < f.msg
      BY <2>2, <2>4, <2>11 DEF IndInv, OldestFirst
    <3>2. QED
      BY <2>6, <2>7, <3>1 DEF IndInv, OldestFirst
  <2>15. NoOrphanFiles'
    <3>1. \A p \in pool : \A f \in files[p] : \E g \in NodesOf(p) : g.id = f.id /\ g.msg = f.msg
      BY <1>1, <2>5, CriticalSteps DEF IndInv, NoOrphanFiles
    <3>2. pool \subseteq QueueName
      BY DEF TypeOK
    <3>3. QED
      BY <2>2, <2>4, <2>5, <2>6, <2>7, <2>11, <3>1, <3>2 DEF NoOrphanFiles
  <2>16. QED
    BY <2>8, <2>9, <2>10, <2>12, <2>13, <2>14, <2>15 DEF IndInv
<1>5. QED
  BY <1>2, <1>3, <1>4 DEF QueueAdd

\* What Append and Tail do to a list, for the nodes in it.
LEMMA Appended ==
  ASSUME TypeOK, NEW q \in QueueName, NEW n \in Node,
         nodes' = [nodes EXCEPT ![q] = Append(@, n)]
  PROVE  /\ Len(nodes'[q]) = Len(nodes[q]) + 1 /\ Len(nodes[q]) \in Nat
         /\ DOMAIN nodes'[q] = 1 .. Len(nodes[q]) + 1 /\ DOMAIN nodes[q] = 1 .. Len(nodes[q])
         /\ \A k \in 1 .. Len(nodes[q]) : nodes'[q][k] = nodes[q][k]
         /\ nodes'[q][Len(nodes[q]) + 1] = n
         /\ \A p \in QueueName \ {q} : nodes'[p] = nodes[p]
         /\ NodesOf(q)' = NodesOf(q) \cup {n}
         /\ \A p \in QueueName \ {q} : NodesOf(p)' = NodesOf(p)
<1>1. /\ Len(nodes'[q]) = Len(nodes[q]) + 1 /\ Len(nodes[q]) \in Nat
      /\ DOMAIN nodes'[q] = 1 .. Len(nodes[q]) + 1 /\ DOMAIN nodes[q] = 1 .. Len(nodes[q])
      /\ \A k \in 1 .. Len(nodes[q]) : nodes'[q][k] = nodes[q][k]
      /\ nodes'[q][Len(nodes[q]) + 1] = n
      /\ \A p \in QueueName \ {q} : nodes'[p] = nodes[p]
  <2>1. nodes'[q] = Append(nodes[q], n) /\ \A p \in QueueName \ {q} : nodes'[p] = nodes[p]
    BY DEF TypeOK
  <2>2. nodes[q] \in Seq(Node)
    BY DEF TypeOK
  <2>3. Append(nodes[q], n) \in Seq(Node)
    BY <2>2, AppendProperties
  <2>4. QED
    BY <2>1, <2>2, <2>3, AppendProperties, LenProperties
<1>2. NodesOf(q)' = NodesOf(q) \cup {n}
  <2>1. \A k \in DOMAIN nodes'[q] :
          \/ k \in DOMAIN nodes[q] /\ nodes'[q][k] = nodes[q][k]
          \/ k = Len(nodes[q]) + 1 /\ nodes'[q][k] = n
    <3>1. \A m \in Nat : \A k \in 1 .. m + 1 : k \in 1 .. m \/ k = m + 1
      OBVIOUS
    <3>2. \A k \in DOMAIN nodes'[q] : k \in DOMAIN nodes[q] \/ k = Len(nodes[q]) + 1
      BY <1>1, <3>1
    <3>3. QED
      BY <1>1, <3>2
  <2>2. DOMAIN nodes[q] \subseteq DOMAIN nodes'[q] /\ Len(nodes[q]) + 1 \in DOMAIN nodes'[q]
    BY <1>1
  <2>3. NodesOf(q)' \subseteq NodesOf(q) \cup {n}
    BY <2>1 DEF NodesOf
  <2>4. NodesOf(q) \cup {n} \subseteq NodesOf(q)'
    BY <1>1, <2>2 DEF NodesOf
  <2>5. QED
    BY <2>3, <2>4
<1>3. QED
  BY <1>1, <1>2 DEF NodesOf

LEMMA WriteNodeInd == ASSUME TypeOK, IndInv, NEW t \in Thread, WriteNode(t) PROVE IndInv'
<1> DEFINE q == req[t].queueName
           written(f) == IF f.msg = node[t].msg
                         THEN [id |-> f.id, msg |-> f.msg, whole |-> TRUE]
                         ELSE f
<1>1. pc[t] = "WriteNode" /\ pc[t] \in Critical
  BY CriticalSteps DEF WriteNode
<1>2. q \in pool /\ q \in QueueName
  BY <1>1 DEF IndInv, Serving, TypeOK
<1>3. /\ node[t].msg = serial
      /\ \A p \in QueueName : lastOut[p] < serial /\ \A f \in NodesOf(p) : f.msg < serial
      /\ \A f \in files[q] : f.msg = serial => f.id = node[t].id
  BY <1>1, <1>2 DEF IndInv, Producing
<1>4. /\ pc' = [pc EXCEPT ![t] = "unlock"]
      /\ UNCHANGED <<status, pool, dirs, lock, req, node, serial, lastOut>>
      /\ nodes' = [nodes EXCEPT ![q] = Append(@, node[t])]
  BY DEF WriteNode
<1>5. /\ \A p \in QueueName \ {q} : files'[p] = files[p]
      /\ files'[q] = files[q] \/ files'[q] = {written(f) : f \in files[q]}
  BY <1>2 DEF WriteNode, TypeOK
<1>6. \A p \in QueueName : \A f \in files'[p] : \E g \in files[p] :
        g.id = f.id /\ g.msg = f.msg /\ (f = g \/ f = written(g))
  BY <1>5
<1>7. /\ Len(nodes'[q]) = Len(nodes[q]) + 1 /\ Len(nodes[q]) \in Nat
      /\ DOMAIN nodes'[q] = 1 .. Len(nodes[q]) + 1 /\ DOMAIN nodes[q] = 1 .. Len(nodes[q])
      /\ \A k \in 1 .. Len(nodes[q]) : nodes'[q][k] = nodes[q][k]
      /\ nodes'[q][Len(nodes[q]) + 1] = node[t]
      /\ \A p \in QueueName \ {q} : nodes'[p] = nodes[p]
  BY <1>2, <1>4, Appended DEF TypeOK
<1>8. /\ NodesOf(q)' = NodesOf(q) \cup {node[t]}
      /\ \A p \in QueueName \ {q} : NodesOf(p)' = NodesOf(p)
  BY <1>2, <1>4, Appended DEF TypeOK
<1>9. pc'[t] = "unlock" /\ \A u \in Thread \ {t} : pc'[u] = pc[u] /\ pc[u] \notin Critical
  BY <1>1, <1>4, Alone DEF TypeOK
<1>10. Locking'
  BY <1>1, <1>4, InsideLocking, CriticalSteps
<1>11. Pooling'
  BY <1>2, <1>4, <1>5, <1>7 DEF IndInv, Pooling, PoolHasDirs
<1>12. Serving' /\ Producing'
  BY <1>9, CriticalSteps DEF Serving, Producing, NeedsQueue, Operations
<1>13. FilesOrdered'
  <2>1. \A p \in QueueName : /\ lastOut[p] <= serial
                             /\ \A f \in files'[p] \cup NodesOf(p)' : f.msg <= serial
    <3>1. serial \in Nat /\ \A p \in QueueName :
            /\ lastOut[p] <= serial
            /\ \A f \in files[p] \cup NodesOf(p) : f.msg <= serial
      BY DEF IndInv, FilesOrdered, TypeOK
    <3>2. node[t].msg <= serial
      BY <1>3, <3>1
    <3>3. \A p \in QueueName : \A f \in files'[p] : f.msg <= serial
      BY <1>6, <3>1
    <3>4. \A p \in QueueName : NodesOf(p)' \subseteq NodesOf(p) \cup {node[t]}
      BY <1>4, <1>8
    <3>5. QED
      BY <3>1, <3>2, <3>3, <3>4
  <2>2. \A p \in QueueName : \A f, g \in files'[p] : f.id < g.id => f.msg < g.msg
    BY <1>6 DEF IndInv, FilesOrdered
  <2>3. ASSUME NEW p \in QueueName, NEW f \in files'[p], NEW g \in files'[p], f.id = g.id
        PROVE  f = g
    <3>1. CASE files'[p] = files[p]
      BY <2>3, <3>1 DEF IndInv, FilesOrdered
    <3>2. CASE p = q /\ files'[q] = {written(h) : h \in files[q]}
      <4>1. PICK a \in files[q], b \in files[q] : f = written(a) /\ g = written(b)
        BY <3>2
      <4>2. a.id = f.id /\ b.id = g.id
        BY <4>1
      <4>3. QED
        BY <1>2, <2>3, <4>1, <4>2 DEF IndInv, FilesOrdered
    <3>3. QED
      BY <1>5, <3>1, <3>2
  <2>4. QED
    BY <1>4, <2>1, <2>2, <2>3 DEF FilesOrdered
<1>14. OldestFirst'
  <2>1. \A p \in QueueName : \A f \in files'[p] \cup NodesOf(p)' : lastOut[p] < f.msg
    <3>1. \A p \in QueueName : \A f \in files[p] \cup NodesOf(p) : lastOut[p] < f.msg
      BY DEF IndInv, OldestFirst
    <3>2. \A p \in QueueName : \A f \in files'[p] : lastOut[p] < f.msg
      BY <1>6, <3>1
    <3>3. \A p \in QueueName : NodesOf(p)' \subseteq NodesOf(p) \cup {node[t]}
      BY <1>4, <1>8
    <3>4. QED
      BY <1>3, <1>4, <3>1, <3>2, <3>3
  <2>2. \A k \in 1 .. Len(nodes[q]) : nodes[q][k].msg < serial
    BY <1>2, <1>3, <1>7 DEF NodesOf
  <2>3. \A j, k \in DOMAIN nodes'[q] : j < k => nodes'[q][j].msg < nodes'[q][k].msg
    <3>1. \A j, k \in 1 .. Len(nodes[q]) : j < k => nodes[q][j].msg < nodes[q][k].msg
      BY <1>2, <1>7 DEF IndInv, OldestFirst
    <3>2. ASSUME NEW j \in 1 .. Len(nodes[q]) + 1, NEW k \in 1 .. Len(nodes[q]) + 1, j < k
          PROVE  nodes'[q][j].msg < nodes'[q][k].msg
      <4>1. j \in 1 .. Len(nodes[q])
        BY <1>7, <3>2
      <4>2. CASE k = Len(nodes[q]) + 1
        BY <1>3, <1>7, <2>2, <4>1, <4>2
      <4>3. CASE k # Len(nodes[q]) + 1
        <5>1. k \in 1 .. Len(nodes[q])
          BY <1>7, <4>3
        <5>2. QED
          BY <1>7, <3>1, <3>2, <4>1, <5>1
      <4>4. QED
        BY <4>2, <4>3
    <3>3. QED
      BY <1>7, <3>2
  <2>4. QED
    BY <1>4, <1>7, <2>1, <2>3 DEF IndInv, OldestFirst
<1>15. NoOrphanFiles'
  <2>1. ASSUME NEW p \in pool, NEW f \in files[p]
        PROVE  \E g \in NodesOf(p)' : g.id = f.id /\ g.msg = f.msg
    <3>1. p \in QueueName /\ NodesOf(p) \subseteq NodesOf(p)'
      BY <1>4, <1>8 DEF TypeOK
    <3>2. CASE \E g \in NodesOf(p) : g.id = f.id /\ g.msg = f.msg
      BY <3>1, <3>2
    <3>3. CASE \E u \in Thread : /\ pc[u] = "WriteNode" /\ req[u].queueName = p
                                 /\ node[u].id = f.id /\ node[u].msg = f.msg
      <4>1. p = q /\ node[t].id = f.id /\ node[t].msg = f.msg
        BY <1>9, <3>3, CriticalSteps
      <4>2. QED
        BY <1>4, <1>8, <4>1
    <3>4. QED
      BY <3>2, <3>3 DEF IndInv, NoOrphanFiles
  <2>2. QED
    BY <1>4, <1>6, <2>1 DEF NoOrphanFiles, TypeOK
<1>16. QED
  BY <1>10, <1>11, <1>12, <1>13, <1>14, <1>15 DEF IndInv

\* The files that are left after some of one queue are unlinked keep what they had.
LEMMA FewerFiles ==
  ASSUME TypeOK, IndInv, NEW t \in Thread, pc[t] \in Critical \ {"WriteNode"}, NEW q \in QueueName,
         NEW gone \in SUBSET files[q], files' = [files EXCEPT ![q] = @ \ gone],
         UNCHANGED <<status, pool, nodes, dirs, req, node, serial, lastOut>>,
         \A u \in Thread \ {t} : UNCHANGED pc[u],
         pc'[t] \in {"UnlinkNext", "unlock"}, pc'[t] = "UnlinkNext" => req[t].queueName \in pool
  PROVE  (Pooling /\ Serving /\ Producing /\ FilesOrdered /\ OldestFirst /\ NoOrphanFiles)'
<1>1. \A p \in QueueName : files'[p] \subseteq files[p]
  BY DEF TypeOK
<1>2. \A p \in QueueName : NodesOf(p)' = NodesOf(p)
  BY DEF NodesOf
<1>3. \A u \in Thread \ {t} : pc'[u] \notin Critical
  BY Alone
<1>4. Pooling'
  BY <1>1 DEF IndInv, Pooling, PoolHasDirs
<1>5. Serving' /\ Producing'
  BY <1>3, CriticalSteps DEF Serving, Producing, NeedsQueue, Operations
<1>6. FilesOrdered'
  BY <1>1, <1>2 DEF IndInv, FilesOrdered
<1>7. OldestFirst'
  BY <1>1, <1>2 DEF IndInv, OldestFirst
<1>8. \A p \in pool : \A f \in files[p] : \E g \in NodesOf(p) : g.id = f.id /\ g.msg = f.msg
  BY Alone, CriticalSteps DEF IndInv, NoOrphanFiles
<1>9. NoOrphanFiles'
  BY <1>1, <1>2, <1>8 DEF NoOrphanFiles, TypeOK
<1>10. QED
  BY <1>4, <1>5, <1>6, <1>7, <1>9

LEMMA UnlinkNextInd == ASSUME TypeOK, IndInv, NEW t \in Thread, UnlinkNext(t) PROVE IndInv'
<1> DEFINE q == req[t].queueName
<1>1. pc[t] = "UnlinkNext" /\ pc[t] \in Critical \ {"WriteNode"}
  BY CriticalSteps DEF UnlinkNext
<1>2. q \in pool /\ q \in QueueName
  BY <1>1 DEF IndInv, Serving, TypeOK
<1>3. UNCHANGED <<status, pool, nodes, dirs, lock, req, node, serial, lastOut>>
  BY DEF UnlinkNext
<1>4. CASE Answer(t, Failed) /\ UNCHANGED files
  BY <1>1, <1>3, <1>4, AnswerInd
<1>5. CASE UNCHANGED pc /\ \E gone \in SUBSET files[q] : files' = [files EXCEPT ![q] = @ \ gone]
  <2>1. Locking'
    BY <1>3, <1>5 DEF IndInv, Locking
  <2>2. (Pooling /\ Serving /\ Producing /\ FilesOrdered /\ OldestFirst /\ NoOrphanFiles)'
    BY <1>1, <1>2, <1>3, <1>5, FewerFiles
  <2>3. QED
    BY <2>1, <2>2 DEF IndInv
<1>6. QED
  BY <1>4, <1>5 DEF UnlinkNext

\* What Tail does to a list: its head leaves it.
LEMMA Tailed ==
  ASSUME TypeOK, NEW q \in QueueName, nodes[q] # <<>>, nodes' = [nodes EXCEPT ![q] = Tail(@)]
  PROVE  \E n \in Nat :
           /\ DOMAIN nodes[q] = 1 .. n + 1 /\ DOMAIN nodes'[q] = 1 .. n
           /\ nodes[q][1] = Head(nodes[q])
           /\ \A k \in 1 .. n : /\ nodes'[q][k] = nodes[q][k + 1]
                               /\ k + 1 \in 1 .. n + 1 /\ 1 < k + 1
           /\ 1 \in 1 .. n + 1
           /\ NodesOf(q) = NodesOf(q)' \cup {Head(nodes[q])}
           /\ \A p \in QueueName \ {q} : nodes'[p] = nodes[p] /\ NodesOf(p)' = NodesOf(p)
<1>1. nodes'[q] = Tail(nodes[q]) /\ \A p \in QueueName \ {q} : nodes'[p] = nodes[p]
  BY DEF TypeOK
<1>2. PICK n \in Nat :
        /\ DOMAIN nodes[q] = 1 .. n + 1 /\ DOMAIN nodes'[q] = 1 .. n
        /\ nodes[q][1] = Head(nodes[q])
        /\ \A k \in 1 .. n : nodes'[q][k] = nodes[q][k + 1]
  <2>1. nodes[q] \in Seq(Node)
    BY DEF TypeOK
  <2>2. /\ Tail(nodes[q]) \in Seq(Node) /\ Len(Tail(nodes[q])) = Len(nodes[q]) - 1
        /\ \A k \in 1 .. Len(Tail(nodes[q])) : Tail(nodes[q])[k] = nodes[q][k + 1]
    BY <2>1, HeadTailProperties
  <2>3. /\ DOMAIN nodes[q] = 1 .. Len(nodes[q]) /\ Len(nodes[q]) \in Nat
        /\ DOMAIN Tail(nodes[q]) = 1 .. Len(Tail(nodes[q])) /\ Len(Tail(nodes[q])) \in Nat
    BY <2>1, <2>2, LenProperties
  <2>4. Head(nodes[q]) = nodes[q][1]
    BY <2>1
  <2>5. Len(nodes[q]) = Len(Tail(nodes[q])) + 1
    BY <2>2, <2>3
  <2>6. QED
    BY <1>1, <2>2, <2>3, <2>4, <2>5
<1>3. /\ \A k \in 1 .. n : k + 1 \in 1 .. n + 1 /\ 1 < k + 1
      /\ \A k \in 1 .. n + 1 : k = 1 \/ (k - 1 \in 1 .. n /\ k - 1 + 1 = k)
      /\ 1 \in 1 .. n + 1
  OBVIOUS
<1>4. NodesOf(q)' \cup {Head(nodes[q])} \subseteq NodesOf(q)
  <2>1. ASSUME NEW k \in 1 .. n PROVE nodes'[q][k] \in NodesOf(q)
    BY <1>2, <1>3 DEF NodesOf
  <2>2. Head(nodes[q]) \in NodesOf(q)
    BY <1>2, <1>3 DEF NodesOf
  <2>3. QED
    BY <1>2, <2>1, <2>2 DEF NodesOf
<1>5. NodesOf(q) \subseteq NodesOf(q)' \cup {Head(nodes[q])}
  <2>1. ASSUME NEW k \in 1 .. n + 1
        PROVE  nodes[q][k] = Head(nodes[q]) \/ nodes[q][k] \in NodesOf(q)'
    <3>1. CASE k = 1
      BY <1>2, <3>1
    <3>2. CASE k - 1 \in 1 .. n /\ k - 1 + 1 = k
      <4>1. nodes'[q][k - 1] = nodes[q][k]
        BY <1>2, <3>2
      <4>2. QED
        BY <1>2, <3>2, <4>1 DEF NodesOf
    <3>3. QED
      BY <1>3, <3>1, <3>2
  <2>2. \A g \in NodesOf(q) : \E k \in 1 .. n + 1 : g = nodes[q][k]
    BY <1>2 DEF NodesOf
  <2>3. QED
    BY <2>1, <2>2
<1>6. NodesOf(q) = NodesOf(q)' \cup {Head(nodes[q])}
  BY <1>4, <1>5
<1>7. \A p \in QueueName \ {q} : nodes'[p] = nodes[p] /\ NodesOf(p)' = NodesOf(p)
  BY <1>1 DEF NodesOf
<1>8. QED
  BY <1>2, <1>3, <1>6, <1>7

LEMMA QueuePollInd == ASSUME TypeOK, IndInv, NEW t \in Thread, QueuePoll(t) PROVE IndInv'
<1> DEFINE q == req[t].queueName
           f == {g \in files[q] : g.id = node[t].id}
<1>1. pc[t] = "QueuePoll" /\ pc[t] \in Critical \ {"WriteNode"}
  BY CriticalSteps DEF QueuePoll
<1>2. CASE Die
  BY <1>2, DieInd
<1>3. CASE ~Die
  <2>1. /\ q \in pool /\ q \in QueueName
        /\ nodes[q] # <<>> /\ node[t] = Head(nodes[q])
    BY <1>1 DEF IndInv, Serving, TypeOK
  <2>2. /\ files' = [files EXCEPT ![q] = @ \ f]
        /\ nodes' = [nodes EXCEPT ![q] = Tail(@)]
        /\ lastOut' = [lastOut EXCEPT ![q] = node[t].msg]
        /\ pc' = [pc EXCEPT ![t] = "unlock"]
        /\ UNCHANGED <<status, pool, dirs, lock, req, node, serial>>
    BY <1>3 DEF QueuePoll
  <2>same. pool' = pool /\ req' = req /\ serial' = serial
    BY <2>2
  <2>3. /\ files'[q] = files[q] \ f /\ nodes'[q] = Tail(nodes[q]) /\ lastOut'[q] = node[t].msg
        /\ \A p \in QueueName \ {q} :
             files'[p] = files[p] /\ nodes'[p] = nodes[p] /\ lastOut'[p] = lastOut[p]
    BY <2>1, <2>2 DEF TypeOK
  <2>4. PICK n \in Nat :
          /\ DOMAIN nodes[q] = 1 .. n + 1 /\ DOMAIN nodes'[q] = 1 .. n
          /\ nodes[q][1] = node[t]
          /\ \A k \in 1 .. n : /\ nodes'[q][k] = nodes[q][k + 1]
                              /\ k + 1 \in 1 .. n + 1 /\ 1 < k + 1
          /\ 1 \in 1 .. n + 1
          /\ NodesOf(q) = NodesOf(q)' \cup {node[t]}
          /\ \A p \in QueueName \ {q} : NodesOf(p)' = NodesOf(p)
    BY <2>1, <2>2, <2>same, Tailed
  <2>5. \A j, k \in 1 .. n : j < k => j + 1 < k + 1
    OBVIOUS
  <2>6. NodesOf(q)' \subseteq NodesOf(q) /\ \A p \in QueueName \ {q} : NodesOf(p)' = NodesOf(p)
    BY <2>4
  <2>7. \A g \in NodesOf(q) : g = node[t] \/ g \in NodesOf(q)'
    BY <2>4
  <2>8. \A g \in NodesOf(q)' : node[t].msg < g.msg
    <3>1. \A j, k \in 1 .. n + 1 : j < k => nodes[q][j].msg < nodes[q][k].msg
      BY <2>1, <2>4 DEF IndInv, OldestFirst
    <3>2. ASSUME NEW k \in 1 .. n PROVE node[t].msg < nodes'[q][k].msg
      <4>1. nodes'[q][k] = nodes[q][k + 1] /\ nodes[q][1] = node[t]
        BY <2>4
      <4>2. QED
        BY <2>5, <3>1, <4>1
    <3>3. QED
      BY <2>same, <2>4, <3>2 DEF NodesOf
  <2>9. \A g \in files'[q] : \E h \in NodesOf(q)' : h.id = g.id /\ h.msg = g.msg
    <3>1. ASSUME NEW g \in files[q], g.id # node[t].id
          PROVE  \E h \in NodesOf(q)' : h.id = g.id /\ h.msg = g.msg
      <4>1. PICK h \in NodesOf(q) : h.id = g.id /\ h.msg = g.msg
        BY <1>1, <2>1, Alone, CriticalSteps DEF IndInv, NoOrphanFiles
      <4>2. QED
        BY <2>7, <3>1, <4>1
    <3>2. QED
      BY <2>3, <3>1
  <2>10. pc'[t] = "unlock" /\ \A u \in Thread \ {t} : pc'[u] = pc[u] /\ pc[u] \notin Critical
    BY <1>1, <2>2, Alone DEF TypeOK
  <2>11. Locking'
    BY <1>1, <2>2, InsideLocking, CriticalSteps
  <2>12. Pooling'
    BY <2>1, <2>2, <2>3 DEF IndInv, Pooling, PoolHasDirs
  <2>13. Serving' /\ Producing'
    BY <2>10, CriticalSteps DEF Serving, Producing, NeedsQueue, Operations
  <2>14. FilesOrdered'
    <3>1. node[t].msg <= serial
      BY <2>1, <2>4, <2>5 DEF IndInv, FilesOrdered, NodesOf
    <3>2. \A p \in QueueName : files'[p] \subseteq files[p]
      BY <2>3
    <3>3. \A p \in QueueName : lastOut'[p] <= serial'
      BY <2>2, <2>3, <3>1 DEF IndInv, FilesOrdered
    <3>4. \A p \in QueueName : \A g \in files'[p] \cup NodesOf(p)' : g.msg <= serial'
      BY <2>2, <2>6, <3>2 DEF IndInv, FilesOrdered
    <3>5. QED
      BY <3>2, <3>3, <3>4 DEF IndInv, FilesOrdered
  <2>15. OldestFirst'
    <3>1. \A j, k \in DOMAIN nodes'[q] : j < k => nodes'[q][j].msg < nodes'[q][k].msg
      <4>1. \A j, k \in 1 .. n + 1 : j < k => nodes[q][j].msg < nodes[q][k].msg
        BY <2>1, <2>4 DEF IndInv, OldestFirst
      <4>2. ASSUME NEW j \in 1 .. n, NEW k \in 1 .. n, j < k
            PROVE  nodes[q][j + 1].msg < nodes[q][k + 1].msg
        <5>1. j + 1 \in 1 .. n + 1 /\ k + 1 \in 1 .. n + 1 /\ j + 1 < k + 1
          BY <4>2
        <5>2. QED
          BY <4>1, <5>1
      <4>3. ASSUME NEW j \in 1 .. n, NEW k \in 1 .. n, j < k
            PROVE  nodes'[q][j].msg < nodes'[q][k].msg
        <5>1. nodes'[q][j] = nodes[q][j + 1] /\ nodes'[q][k] = nodes[q][k + 1]
          BY <2>4
        <5>2. QED
          BY <4>2, <4>3, <5>1
      <4>4. QED
        BY <2>4, <4>3
    <3>2. \A g \in files'[q] \cup NodesOf(q)' : lastOut'[q] < g.msg
      BY <2>2, <2>3, <2>8, <2>9
    <3>3. QED
      BY <2>2, <2>3, <2>6, <3>1, <3>2 DEF IndInv, OldestFirst
  <2>16. NoOrphanFiles'
    <3>1. ASSUME NEW p \in pool', NEW g \in files'[p]
          PROVE  \E h \in NodesOf(p)' : h.id = g.id /\ h.msg = g.msg
      <4>1. CASE p = q
        BY <2>2, <2>9, <4>1
      <4>2. CASE p # q
        <5>1. p \in pool /\ p \in QueueName
          BY <2>2 DEF TypeOK
        <5>2. g \in files[p] /\ NodesOf(p)' = NodesOf(p)
          BY <2>3, <2>6, <4>2, <5>1
        <5>3. \A u \in Thread : pc[u] # "WriteNode"
          BY <1>1, Alone, CriticalSteps
        <5>4. QED
          BY <5>1, <5>2, <5>3 DEF IndInv, NoOrphanFiles
      <4>3. QED
        BY <4>1, <4>2
    <3>2. QED
      BY <3>1 DEF NoOrphanFiles
  <2>17. QED
    BY <2>11, <2>12, <2>13, <2>14, <2>15, <2>16 DEF IndInv
<1>4. QED
  BY <1>2, <1>3

LEMMA AddQueueInd == ASSUME TypeOK, IndInv, NEW t \in Thread, AddQueue(t) PROVE IndInv'
<1> DEFINE q == req[t].data
<1>1. pc[t] = "addQueue" /\ pc[t] \in Critical \ {"WriteNode"}
  BY CriticalSteps DEF AddQueue, Operations
<1>2. UNCHANGED <<status, files, lock, req, node, serial, lastOut>>
  BY DEF AddQueue
<1>3. CASE Answer(t, Failed) /\ UNCHANGED <<pool, nodes, dirs>>
  BY <1>1, <1>2, <1>3, AnswerInd
<1>4. CASE /\ q \notin pool
           /\ dirs' = dirs \cup {q}
           /\ pool' = pool \cup {q}
           /\ nodes' = [nodes EXCEPT ![q] = <<>>]
           /\ Answer(t, Success(<<>>))
  <2>1. q \in QueueName
    BY <1>1 DEF IndInv, Serving
  <2>2. status = "up" /\ pool = dirs /\ nodes[q] = <<>> /\ files[q] = {}
    BY <1>1, <1>4, <2>1, Alone DEF IndInv, Pooling
  <2>3. nodes' = nodes
    BY <1>4, <2>1, <2>2 DEF TypeOK
  <2>4. \A p \in QueueName : NodesOf(p)' = NodesOf(p)
    BY <2>3 DEF NodesOf
  <2>5. pc'[t] = "unlock" /\ \A u \in Thread \ {t} : pc'[u] = pc[u] /\ pc[u] \notin Critical
    BY <1>1, <1>4, Alone DEF TypeOK
  <2>6. Locking'
    BY <1>1, <1>2, <1>4, InsideLocking, CriticalSteps
  <2>7. Pooling'
    BY <1>2, <1>4, <2>1, <2>2, <2>3 DEF IndInv, Pooling, PoolHasDirs
  <2>8. Serving' /\ Producing'
    BY <2>5, CriticalSteps DEF Serving, Producing, NeedsQueue, Operations
  <2>9. FilesOrdered' /\ OldestFirst'
    BY <1>2, <2>3, <2>4 DEF IndInv, FilesOrdered, OldestFirst
  <2>10. NoOrphanFiles'
    <3>1. ASSUME NEW p \in pool, NEW f \in files[p]
          PROVE  \E g \in NodesOf(p) : g.id = f.id /\ g.msg = f.msg
      BY <1>1, Alone, CriticalSteps DEF IndInv, NoOrphanFiles
    <3>2. pool \subseteq QueueName
      BY DEF TypeOK
    <3>3. QED
      BY <1>2, <1>4, <2>2, <2>4, <3>1, <3>2 DEF NoOrphanFiles
  <2>11. QED
    BY <2>6, <2>7, <2>8, <2>9, <2>10 DEF IndInv
<1>5. QED
  BY <1>3, <1>4 DEF AddQueue

LEMMA RemoveDirInd == ASSUME TypeOK, IndInv, NEW t \in Thread, RemoveDir(t) PROVE IndInv'
<1> DEFINE q == req[t].queueName
<1>1. pc[t] = "UnlinkNext" /\ pc[t] \in Critical \ {"WriteNode"}
  BY CriticalSteps DEF RemoveDir
<1>2. UNCHANGED <<status, files, lock, req, node, serial, lastOut>>
  BY DEF RemoveDir
<1>3. CASE Answer(t, Failed) /\ UNCHANGED <<dirs, pool, nodes>>
  BY <1>1, <1>2, <1>3, AnswerInd
<1>4. CASE /\ files[q] = {}
           /\ dirs' = dirs \ {q}
           /\ pool' = pool \ {q}
           /\ nodes' = [nodes EXCEPT ![q] = <<>>]
           /\ Answer(t, Success(<<>>))
  <2>1. q \in QueueName
    BY <1>1 DEF IndInv, Serving, TypeOK
  <2>2. nodes'[q] = <<>> /\ \A p \in QueueName \ {q} : nodes'[p] = nodes[p]
    BY <1>4, <2>1 DEF TypeOK
  <2>3. NodesOf(q)' = {} /\ \A p \in QueueName \ {q} : NodesOf(p)' = NodesOf(p)
    BY <1>2, <2>2 DEF NodesOf
  <2>4. pc'[t] = "unlock" /\ \A u \in Thread \ {t} : pc'[u] = pc[u] /\ pc[u] \notin Critical
    BY <1>1, <1>4, Alone DEF TypeOK
  <2>5. Locking'
    BY <1>1, <1>2, <1>4, InsideLocking, CriticalSteps
  <2>6. Pooling'
    BY <1>2, <1>4, <2>2 DEF IndInv, Pooling, PoolHasDirs
  <2>7. Serving' /\ Producing'
    BY <2>4, CriticalSteps DEF Serving, Producing, NeedsQueue, Operations
  <2>8. \A p \in QueueName : NodesOf(p)' \subseteq NodesOf(p)
    BY <1>2, <2>3
  <2>9. FilesOrdered'
    BY <1>2, <2>8 DEF IndInv, FilesOrdered
  <2>10. OldestFirst'
    <3>1. \A p \in QueueName : \A f \in files'[p] \cup NodesOf(p)' : lastOut'[p] < f.msg
      BY <1>2, <2>8 DEF IndInv, OldestFirst
    <3>2. \A p \in QueueName : \A j, k \in DOMAIN nodes'[p] :
            j < k => nodes'[p][j].msg < nodes'[p][k].msg
      BY <2>2 DEF IndInv, OldestFirst
    <3>3. QED
      BY <3>1, <3>2 DEF OldestFirst
  <2>11. NoOrphanFiles'
    <3>1. ASSUME NEW p \in pool, p # q, NEW f \in files[p]
          PROVE  \E g \in NodesOf(p)' : g.id = f.id /\ g.msg = f.msg
      <4>1. \E g \in NodesOf(p) : g.id = f.id /\ g.msg = f.msg
        BY <1>1, Alone, CriticalSteps DEF IndInv, NoOrphanFiles
      <4>2. QED
        BY <2>3, <3>1, <4>1 DEF TypeOK
    <3>2. QED
      BY <1>2, <1>4, <3>1 DEF NoOrphanFiles
  <2>12. QED
    BY <2>5, <2>6, <2>7, <2>9, <2>10, <2>11 DEF IndInv
<1>5. QED
  BY <1>3, <1>4 DEF RemoveDir

-----------------------------------------------------------------------------
(* The theorems                                                             *)

LEMMA NextInd == ASSUME TypeOK, IndInv, [Next]_vars PROVE IndInv'
<1>1. CASE UNCHANGED vars
  <2>1. UNCHANGED <<status, pool, nodes, dirs, files, lock, pc, req, node, serial, lastOut>>
    BY <1>1 DEF vars, process
  <2>2. Locking' /\ Pooling' /\ Serving'
    BY <2>1 DEF IndInv, Locking, Pooling, PoolHasDirs, Serving
  <2>3. Producing' /\ FilesOrdered'
    BY <2>1 DEF IndInv, Producing, FilesOrdered, NodesOf
  <2>4. OldestFirst' /\ NoOrphanFiles'
    BY <2>1 DEF IndInv, OldestFirst, NoOrphanFiles, NodesOf
  <2>5. QED
    BY <2>2, <2>3, <2>4 DEF IndInv
<1>2. CASE Startup
  BY <1>2, StartupInd
<1>3. CASE Crash
  BY <1>3, DieInd DEF Crash
<1>4. ASSUME NEW t \in Thread, NEW r \in Request, Accept(t, r) PROVE IndInv'
  BY <1>4, AcceptInd
<1>5. ASSUME NEW t \in Thread, Handle(t) PROVE IndInv'
  BY <1>5, FrameInd, ProduceInd, QueueAddInd, WriteNodeInd, ConsumeInd, QueuePollInd,
     AddQueueInd, RemoveQueueInd, UnlinkNextInd, RemoveDirInd, ReadInd DEF Handle
<1>6. QED
  BY <1>1, <1>2, <1>3, <1>4, <1>5 DEF Next

\* Every reachable state has its types and satisfies the inductive invariant,
\* whatever system calls fail and wherever the process stops (broker.c, queue.c,
\* queue_pool.c, persist.c under the mutex of s_thread.c).
THEOREM Inductive == Spec => [](TypeOK /\ IndInv)
<1>1. Init => TypeOK /\ IndInv
  BY InitInd
<1>2. TypeOK /\ IndInv /\ [Next]_vars => (TypeOK /\ IndInv)'
  BY NextType, NextInd DEF IndInv
<1>3. QED
  BY <1>1, <1>2, PTL DEF Spec

\* Every variable keeps its type: in particular the tail that Queue_poll takes
\* (queue.c:237) and the nodes that get and getAll read are there.
THEOREM TypeCorrect == Spec => []TypeOK
  BY Inductive, PTL

\* Whatever system calls fail and wherever the process stops, a queue hands out its
\* messages in the order they were produced and none of them twice, across restarts
\* (Queue_add, Queue_poll, queue_pool_load, get_next_node_id).
THEOREM FirstInFirstOut == Spec => []OldestFirst
<1>1. TypeOK /\ IndInv => OldestFirst
  BY DEF IndInv
<1>2. QED
  BY <1>1, Inductive, PTL

\* Whatever fails, no directory of a queue in the pool holds a file of a message the
\* clients no longer see there (create_node_file, remove_node, persist_remove_queue).
THEOREM NoMessageComesBack == Spec => []NoOrphanFiles
<1>1. TypeOK /\ IndInv => NoOrphanFiles
  BY DEF IndInv
<1>2. QED
  BY <1>1, Inductive, PTL

\* While requests are served, the queues of the pool are the directories on disk, so
\* that produce finds an id unless opendir itself fails (broker.c:488, queue.c:64).
THEOREM EveryQueueHasItsDir == Spec => []PoolHasDirs
<1>1. TypeOK /\ IndInv => PoolHasDirs
  BY DEF IndInv, Pooling
<1>2. QED
  BY <1>1, Inductive, PTL

\* The end of the process is the end of the pool, and no step when it is down already.
LEMMA DieStops == ASSUME IndInv, Die PROVE [PoolNames!Next]_(PoolNames!vars)
<1>1. status' = "down" /\ pool' = {} /\ dirs' = dirs
  BY DEF Die
<1>2. CASE status = "down"
  BY <1>1, <1>2 DEF IndInv, Pooling, PoolNames!vars
<1>3. CASE status # "down"
  BY <1>1, <1>3 DEF PoolNames!Stop, PoolNames!Next
<1>4. QED
  BY <1>2, <1>3

\* Every step of Broker is a step of QueueNames, or none.
LEMMA NamesStep ==
  ASSUME TypeOK, IndInv, [Next]_vars
  PROVE  [PoolNames!Next]_(PoolNames!vars)
<1> DEFINE Quiet == UNCHANGED PoolNames!vars
<1> USE DEF PoolNames!vars
<1>1. CASE UNCHANGED vars
  BY <1>1 DEF vars, process
<1>2. CASE Start
  BY <1>2 DEF Start, PoolNames!Start, PoolNames!Next
<1>3. ASSUME NEW q \in QueueName, LoadQueue(q) PROVE PoolNames!Next
  <2>1. PoolNames!Load(q)
    BY <1>3 DEF LoadQueue, PoolNames!Load
  <2>2. QED
    BY <2>1 DEF PoolNames!Next
<1>4. CASE Listen
  <2>1. pool = dirs
    BY <1>4 DEF Listen, IndInv, Pooling
  <2>2. QED
    BY <1>4, <2>1 DEF Listen, PoolNames!Listen, PoolNames!Next
<1>5. CASE LoadFails \/ Crash
  BY <1>5, DieStops DEF LoadFails, Crash
<1>6. ASSUME NEW t \in Thread, NEW r \in Request, Accept(t, r) PROVE Quiet
  BY <1>6 DEF Accept
<1>7. ASSUME NEW t \in Thread, Lock(t) \/ Dispatch(t) \/ Unlock(t) \/ Consume(t) \/ Read(t)
      PROVE  Quiet
  BY <1>7 DEF Lock, Dispatch, Unlock, Consume, Read
<1>8. ASSUME NEW t \in Thread, WriteNode(t) \/ UnlinkNext(t) PROVE Quiet
  BY <1>8 DEF WriteNode, UnlinkNext
<1>9. ASSUME NEW t \in Thread, DispatchOther(t) \/ Send(t) \/ Produce(t) PROVE Quiet \/ Die
  BY <1>9 DEF DispatchOther, Send, Produce
<1>10. ASSUME NEW t \in Thread, QueueAdd(t) \/ QueuePoll(t) \/ RemoveQueue(t)
       PROVE  Quiet \/ Die
  BY <1>10 DEF QueueAdd, QueuePoll, RemoveQueue
<1>11. ASSUME NEW t \in Thread, AddQueue(t) PROVE Quiet \/ PoolNames!Next
  <2>1. pc[t] = "addQueue" /\ pc[t] \in Critical
    BY <1>11, CriticalSteps DEF AddQueue, Operations
  <2>2. req[t].data \in QueueName /\ status = "up" /\ pool = dirs
    BY <2>1, Alone DEF IndInv, Serving
  <2>3. Quiet \/ PoolNames!Add(req[t].data)
    BY <1>11, <2>2 DEF AddQueue, PoolNames!Add
  <2>4. QED
    BY <2>2, <2>3 DEF PoolNames!Next
<1>12. ASSUME NEW t \in Thread, RemoveDir(t) PROVE Quiet \/ PoolNames!Next
  <2>1. req[t].queueName \in pool /\ status = "up" /\ pool = dirs
    BY <1>12, Alone, CriticalSteps DEF RemoveDir, IndInv, Serving
  <2>2. req[t].queueName \in QueueName
    BY <2>1 DEF TypeOK
  <2>3. Quiet \/ PoolNames!Remove(req[t].queueName)
    BY <1>12, <2>1 DEF RemoveDir, PoolNames!Remove
  <2>4. QED
    BY <2>2, <2>3 DEF PoolNames!Next
<1>13. ASSUME NEW t \in Thread, Handle(t) PROVE Quiet \/ Die \/ PoolNames!Next
  BY <1>7, <1>8, <1>9, <1>10, <1>11, <1>12, <1>13 DEF Handle
<1>14. QED
  BY <1>1, <1>2, <1>3, <1>4, <1>5, <1>6, <1>13, DieStops DEF Next, Startup

\* Queues are made and removed in memory and on disk as if both happened at once, never
\* twice and never in one place only, whatever system calls fail and wherever the process
\* stops (add_queue, remove_queue, queue_pool_load).
THEOREM QueuesAreNames == Spec => ImplementsNames
<1>1. Init => PoolNames!Init
  BY DEF Init, PoolNames!Init
<1>2. TypeOK /\ IndInv /\ [Next]_vars => [PoolNames!Next]_(PoolNames!vars)
  BY NamesStep
<1>3. QED
  BY <1>1, <1>2, Inductive, PTL DEF Spec, ImplementsNames, PoolNames!Spec
=============================================================================
