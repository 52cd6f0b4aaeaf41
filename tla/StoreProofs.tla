---------------------------- MODULE StoreProofs ----------------------------
(***************************************************************************)
(* Proofs about what Broker promises as long as some system calls do not   *)
(* fail: without rmdir failing it implements the queues of FifoStore, and  *)
(* with less that fails no acknowledged message is lost and memory stays   *)
(* what is on disk.                                                        *)
(***************************************************************************)
EXTENDS BrokerProofs

\* The definitions an action is written with.
USE DEF Goto, Answer, disk, history

\* What StoreInv adds to the invariant of BrokerProofs.
IdInv == IdsAscend /\ Linking /\ Unlinking

LEMMA InitStore == Init => StoreInv
<1> SUFFICES ASSUME Init PROVE StoreInv
  OBVIOUS
<1>1. TypeOK /\ IndInv
  BY InitInd
<1>2. IdsAscend /\ Linking /\ Unlinking
  BY DEF Init, IdsAscend, Linking, Unlinking
<1>3. QED
  BY <1>1, <1>2 DEF StoreInv

-----------------------------------------------------------------------------
(* The ids, one lemma per kind of step                                      *)

LEMMA DieStore == ASSUME Die PROVE IdInv'
  BY DEF Die, IdInv, IdsAscend, Linking, Unlinking

\* Nothing moves that the ids depend on.
LEMMA StillStore ==
  ASSUME StoreInv, UNCHANGED <<nodes, files, pc, req, node, todo>>
  PROVE  IdInv'
<1>1. Removing' = Removing /\ \A q \in QueueName : NodesOf(q)' = NodesOf(q)
  BY DEF Removing, NodesOf
<1>2. QED
  BY <1>1 DEF StoreInv, IdInv, IdsAscend, Linking, Unlinking, Ids

\* A step of t that changes no list and no file, ends no removal and writes no file.
LEMMA QuietStore ==
  ASSUME StoreInv, NEW t \in Thread, UNCHANGED <<nodes, files>>,
         \A u \in Thread \ {t} : UNCHANGED <<pc[u], req[u], node[u], todo[u]>>,
         pc[t] # "UnlinkNext", pc'[t] # "WriteNode",
         \A q \in QueueName : pc'[t] = "UnlinkNext" /\ req'[t].queueName = q =>
           todo'[t] \in {{}, Ids(files[q])}
  PROVE  IdInv'
<1>1. Removing \subseteq Removing' /\ \A q \in QueueName : NodesOf(q)' = NodesOf(q)
  BY DEF Removing, NodesOf
<1>2. IdsAscend'
  BY <1>1 DEF StoreInv, IdsAscend
<1>3. Linking'
  BY <1>1 DEF StoreInv, Linking
<1>4. Unlinking'
  BY DEF StoreInv, Unlinking, Ids
<1>5. QED
  BY <1>2, <1>3, <1>4 DEF IdInv

\* No queue is being removed but by the thread that is in the operations.
LEMMA RemovingAlone ==
  ASSUME NEW t \in Thread, \A u \in Thread \ {t} : pc[u] \notin Critical
  PROVE  Removing = IF pc[t] = "UnlinkNext" THEN {req[t].queueName} ELSE {}
  BY CriticalSteps DEF Removing

LEMMA LoadStore ==
  ASSUME StoreInv, NEW q \in QueueName, LoadQueue(q) PROVE IdInv'
<1>1. PICK ns \in Sorted(files[q]) : nodes' = [nodes EXCEPT ![q] = ns]
  BY DEF LoadQueue
<1>2. PICK n \in Nat : /\ DOMAIN ns = 1 .. n
                       /\ \A k \in DOMAIN ns : ns[k] \in files[q]
                       /\ \A f \in files[q] : \E k \in DOMAIN ns : ns[k] = f
                       /\ \A j, k \in DOMAIN ns : j < k => ns[j].id < ns[k].id
                       /\ n = 0 => ns = <<>>
  <2>1. Cardinality(files[q]) \in Nat
    BY FS_CardinalityType DEF StoreInv, TypeOK
  <2>2. ns \in Seq(Node)
    BY <1>1, SortedType DEF StoreInv, TypeOK
  <2>3. DOMAIN ns = 1 .. Cardinality(files[q])
    BY DEF Sorted
  <2>4. Cardinality(files[q]) = 0 => ns = <<>>
    BY <2>2, <2>3, LenProperties, EmptySeq
  <2>5. QED
    BY <2>1, <2>3, <2>4 DEF Sorted
<1>3. nodes'[q] = ns /\ \A p \in QueueName \ {q} : nodes'[p] = nodes[p]
  BY <1>1 DEF StoreInv, TypeOK
<1>4. NodesOf(q)' = files[q] /\ \A p \in QueueName \ {q} : NodesOf(p)' = NodesOf(p)
  BY <1>2, <1>3 DEF NodesOf
<1>5. UNCHANGED <<files, pc, req>> /\ \A t \in Thread : pc[t] = "closed"
  BY DEF LoadQueue, StoreInv, IndInv, Locking
<1>6. ns # <<>> => \E f \in files[q] : \A g \in files[q] : g.id <= f.id
  <2>1. ASSUME ns # <<>> PROVE n \in 1 .. n
    BY <1>2, <2>1
  <2>2. ASSUME n \in 1 .. n, NEW k \in 1 .. n PROVE ns[k].id <= ns[n].id
    <3>1. ns[n].id \in Nat /\ ns[k].id \in Nat
      BY <1>2, <2>2, NodeTypes DEF StoreInv
    <3>2. k = n \/ k < n
      BY <2>2
    <3>3. k < n => ns[k].id < ns[n].id
      BY <1>2, <2>2
    <3>4. QED
      BY <3>1, <3>2, <3>3
  <2>3. QED
    BY <1>2, <2>1, <2>2
<1>7. IdsAscend'
  BY <1>2, <1>3, <1>4, <1>5, <1>6 DEF StoreInv, IdsAscend, Removing
<1>8. Linking' /\ Unlinking'
  BY <1>5 DEF Linking, Unlinking
<1>9. QED
  BY <1>7, <1>8 DEF IdInv

LEMMA QueueAddStore ==
  ASSUME StoreInv, NEW t \in Thread, QueueAdd(t) PROVE IdInv'
<1> USE DEF StoreInv
<1>1. pc[t] = "QueueAdd" /\ pc[t] \in Critical
  BY CriticalSteps DEF QueueAdd
<1>2. PICK q \in QueueName : q = req[t].queueName
  BY <1>1 DEF IndInv, Serving, TypeOK
<1>3. CASE Die
  BY <1>3, DieStore
<1>4. CASE /\ ~Die
           /\ UNCHANGED <<files, nodes, req, node, todo>>
           /\ pc' = [pc EXCEPT ![t] = "unlock"]
  <2>1. pc'[t] = "unlock" /\ \A u \in Thread \ {t} : UNCHANGED <<pc[u], req[u], node[u], todo[u]>>
    BY <1>4 DEF TypeOK
  <2>2. QED
    BY <1>1, <1>4, <2>1, QuietStore
<1>5. CASE /\ ~Die
           /\ pc' = [pc EXCEPT ![t] = "WriteNode"]
           /\ \E i \in NextIds(files[q]) :
                files' = [files EXCEPT ![q] = {f \in @ : f.id # i}
                            \cup {[id |-> i, msg |-> node[t].msg, whole |-> FALSE]}]
           /\ UNCHANGED <<status, pool, nodes, dirs, lock, req, node, todo, res, history>>
  <2> DEFINE new == [id |-> node[t].id, msg |-> serial, whole |-> FALSE]
  <2>1. /\ files'[q] = files[q] \cup {new}
        /\ \A p \in QueueName \ {q} : files'[p] = files[p]
        /\ node[t].id \in Nat /\ \A f \in files[q] : f.id \in Nat /\ f.id < node[t].id
    BY <1>1, <1>2, <1>5, FileAdded
  <2>2. pc'[t] = "WriteNode" /\ \A u \in Thread \ {t} : pc'[u] = pc[u] /\ pc[u] \notin Critical
    BY <1>1, <1>5, Alone DEF TypeOK
  <2>3. Removing = {}
    BY <1>1, <2>2, RemovingAlone
  <2>4. nodes' = nodes /\ req' = req /\ node' = node /\ \A p \in QueueName : NodesOf(p)' = NodesOf(p)
    BY <1>5 DEF NodesOf
  <2>5. \A p \in QueueName : files[p] \subseteq files'[p]
    BY <2>1
  <2>6. \A p \in QueueName : nodes[p] # <<>> =>
          \E f \in files[p] : \A g \in NodesOf(p) : g.id <= f.id
    BY <2>3 DEF IdsAscend
  <2>7. IdsAscend'
    BY <2>4, <2>5, <2>6 DEF IdsAscend
  <2>8. \A g \in NodesOf(q) : g.id < node[t].id
    <3>1. CASE nodes[q] = <<>>
      BY <3>1 DEF NodesOf
    <3>2. CASE nodes[q] # <<>>
      <4>1. PICK f \in files[q] : \A g \in NodesOf(q) : g.id <= f.id
        BY <2>6, <3>2
      <4>2. \A g \in NodesOf(q) : g.id \in Nat
        BY NodeTypes
      <4>3. QED
        BY <2>1, <4>1, <4>2
    <3>3. QED
      BY <3>1, <3>2
  <2>9. node[t].msg = serial /\ new.id = node[t].id /\ new.msg = serial
    BY <1>1 DEF IndInv, Producing
  <2>10. new \in files'[q]
    BY <2>1
  <2>11. Linking'
    <3>1. \A u \in Thread : pc'[u] = "WriteNode" => u = t
      BY <2>2, CriticalSteps
    <3>2. \E f \in files'[q] : f.id = node[t].id /\ f.msg = node[t].msg
      BY <2>9, <2>10
    <3>3. QED
      BY <1>2, <2>4, <2>8, <3>1, <3>2 DEF Linking
  <2>12. Unlinking'
    BY <2>2, CriticalSteps DEF Unlinking
  <2>13. QED
    BY <2>7, <2>11, <2>12 DEF IdInv
<1>6. QED
  BY <1>2, <1>3, <1>4, <1>5 DEF QueueAdd

\* What is written into a file is not its name.
LEMMA FileWritten ==
  ASSUME TypeOK, NEW t \in Thread, WriteNode(t), NEW q \in QueueName, q = req[t].queueName
  PROVE  /\ \A p \in QueueName \ {q} : files'[p] = files[p]
         /\ \A f \in files[q] : \E g \in files'[q] : g.id = f.id /\ g.msg = f.msg
         /\ \A g \in files'[q] : \E f \in files[q] : g.id = f.id /\ g.msg = f.msg
         /\ \A f \in files[q] : f.msg # node[t].msg => f \in files'[q]
         /\ "write" \notin Faults =>
              \A f \in files[q] : f.msg = node[t].msg =>
                [id |-> f.id, msg |-> f.msg, whole |-> TRUE] \in files'[q]
         /\ "write" \notin Faults =>
              \A g \in files'[q] : g.msg = node[t].msg => g.whole
<1> DEFINE written(f) == IF f.msg = node[t].msg
                         THEN [id |-> f.id, msg |-> f.msg, whole |-> TRUE]
                         ELSE f
<1>1. /\ \A p \in QueueName \ {q} : files'[p] = files[p]
      /\ \/ files'[q] = {written(f) : f \in files[q]}
         \/ "write" \in Faults /\ files'[q] = files[q]
  BY DEF WriteNode, TypeOK
<1>2. \A f : written(f).id = f.id /\ written(f).msg = f.msg
  OBVIOUS
<1>3. \A f : f.msg = node[t].msg => /\ written(f) = [id |-> f.id, msg |-> f.msg, whole |-> TRUE]
                                   /\ written(f).whole
  OBVIOUS
<1>4. \A f : f.msg # node[t].msg => written(f) = f
  OBVIOUS
<1> HIDE DEF written
<1>5. CASE files'[q] = files[q] /\ "write" \in Faults
  BY <1>1, <1>5
<1>6. CASE files'[q] = {written(f) : f \in files[q]}
  <2>1. /\ \A f \in files[q] : written(f) \in files'[q]
        /\ \A g \in files'[q] : \E f \in files[q] : g = written(f)
    BY <1>6
  <2>2. \A f \in files[q] : f.msg # node[t].msg => f \in files'[q]
    BY <1>4, <2>1
  <2>3. \A f \in files[q] : f.msg = node[t].msg =>
          [id |-> f.id, msg |-> f.msg, whole |-> TRUE] \in files'[q]
    BY <1>3, <2>1
  <2>4. \A g \in files'[q] : g.msg = node[t].msg => g.whole
    BY <1>2, <1>3, <2>1
  <2>5. QED
    BY <1>1, <1>2, <2>1, <2>2, <2>3, <2>4
<1>7. QED
  BY <1>1, <1>5, <1>6

LEMMA WriteNodeStore ==
  ASSUME StoreInv, NEW t \in Thread, WriteNode(t) PROVE IdInv'
<1> USE DEF StoreInv
<1>1. pc[t] = "WriteNode" /\ pc[t] \in Critical
  BY CriticalSteps DEF WriteNode
<1>2. PICK q \in QueueName : q = req[t].queueName
  BY <1>1 DEF IndInv, Serving, TypeOK
<1>3. pc'[t] = "unlock" /\ \A u \in Thread \ {t} : pc'[u] = pc[u] /\ pc[u] \notin Critical
  BY <1>1, Alone DEF WriteNode, TypeOK
<1>4. node[t] \in Node /\ nodes' = [nodes EXCEPT ![q] = Append(@, node[t])]
  BY <1>2 DEF WriteNode, TypeOK
<1>5. /\ Len(nodes[q]) \in Nat
      /\ DOMAIN nodes'[q] = 1 .. Len(nodes[q]) + 1 /\ DOMAIN nodes[q] = 1 .. Len(nodes[q])
      /\ \A k \in 1 .. Len(nodes[q]) : nodes'[q][k] = nodes[q][k]
      /\ nodes'[q][Len(nodes[q]) + 1] = node[t]
      /\ \A p \in QueueName \ {q} : nodes'[p] = nodes[p]
      /\ NodesOf(q)' = NodesOf(q) \cup {node[t]}
      /\ \A p \in QueueName \ {q} : NodesOf(p)' = NodesOf(p)
  BY <1>4, Appended
<1>6. /\ \A p \in QueueName \ {q} : files'[p] = files[p]
      /\ \A f \in files[q] : \E g \in files'[q] : g.id = f.id
  BY <1>2, FileWritten
<1>7. /\ \A g \in NodesOf(q) : g.id < node[t].id
      /\ \E f \in files[q] : f.id = node[t].id
  BY <1>1, <1>2 DEF Linking
<1>8. Removing = {}
  BY <1>1, <1>3, RemovingAlone
<1>9. \A j, k \in DOMAIN nodes'[q] : j < k => nodes'[q][j].id < nodes'[q][k].id
  <2>1. \A k \in 1 .. Len(nodes[q]) : nodes[q][k].id < node[t].id
    BY <1>5, <1>7 DEF NodesOf
  <2>2. \A j, k \in 1 .. Len(nodes[q]) : j < k => nodes[q][j].id < nodes[q][k].id
    BY <1>5 DEF IdsAscend
  <2>3. ASSUME NEW j \in 1 .. Len(nodes[q]) + 1, NEW k \in 1 .. Len(nodes[q]) + 1, j < k
        PROVE  nodes'[q][j].id < nodes'[q][k].id
    <3>1. j \in 1 .. Len(nodes[q])
      BY <1>5, <2>3
    <3>2. CASE k = Len(nodes[q]) + 1
      BY <1>5, <2>1, <3>1, <3>2
    <3>3. CASE k # Len(nodes[q]) + 1
      <4>1. k \in 1 .. Len(nodes[q])
        BY <1>5, <3>3
      <4>2. QED
        BY <1>5, <2>2, <2>3, <3>1, <4>1
    <3>4. QED
      BY <3>2, <3>3
  <2>4. QED
    BY <1>5, <2>3
<1>10. \E f \in files'[q] : \A g \in NodesOf(q)' : g.id <= f.id
  <2>1. PICK f \in files'[q] : f.id = node[t].id
    BY <1>6, <1>7
  <2>2. node[t].id \in Nat /\ \A g \in NodesOf(q) : g.id \in Nat
    BY <1>4, NodeTypes
  <2>3. \A g \in NodesOf(q)' : g.id <= node[t].id
    BY <1>5, <1>7, <2>2
  <2>4. QED
    BY <2>1, <2>3
<1>11. IdsAscend'
  <2>1. \A p \in QueueName \ {q} : nodes'[p] # <<>> =>
          \E f \in files'[p] : \A g \in NodesOf(p)' : g.id <= f.id
    BY <1>5, <1>6, <1>8 DEF IdsAscend
  <2>2. \A p \in QueueName \ {q} : \A j, k \in DOMAIN nodes'[p] :
          j < k => nodes'[p][j].id < nodes'[p][k].id
    BY <1>5 DEF IdsAscend
  <2>3. QED
    <3>1. \A p \in QueueName :
            /\ \A j, k \in DOMAIN nodes'[p] : j < k => nodes'[p][j].id < nodes'[p][k].id
            /\ nodes'[p] # <<>> => \E f \in files'[p] : \A g \in NodesOf(p)' : g.id <= f.id
      BY <1>9, <1>10, <2>1, <2>2
    <3>2. QED
      BY <3>1 DEF IdsAscend
<1>12. Linking' /\ Unlinking'
  BY <1>3, CriticalSteps DEF Linking, Unlinking
<1>13. QED
  BY <1>11, <1>12 DEF IdInv

\* Within an operation that links no node every file has its node.
LEMMA NodeOfFile ==
  ASSUME StoreInv, NEW t \in Thread, pc[t] \in Critical \ {"WriteNode"}, NEW q \in pool
  PROVE  \A f \in files[q] : \E g \in NodesOf(q) : g.id = f.id /\ g.msg = f.msg
  BY Alone, CriticalSteps DEF StoreInv, IndInv, NoOrphanFiles

\* The tail that is polled is the oldest node by id and by message, and so is its file.
LEMMA HeadFile ==
  ASSUME StoreInv, NEW t \in Thread, pc[t] = "QueuePoll", NEW q \in QueueName,
         q = req[t].queueName
  PROVE  /\ q \in pool /\ nodes[q] # <<>> /\ node[t] = Head(nodes[q])
         /\ \A h \in NodesOf(q) : h = node[t] \/ (node[t].id < h.id /\ node[t].msg < h.msg)
         /\ \A g \in files[q] :
              \/ g.id = node[t].id /\ g.msg = node[t].msg
              \/ node[t].id < g.id /\ node[t].msg < g.msg
<1> USE DEF StoreInv
<1>1. q \in pool /\ nodes[q] # <<>> /\ node[t] = Head(nodes[q])
  BY DEF IndInv, Serving
<1>2. /\ nodes[q][1] = node[t] /\ 1 \in DOMAIN nodes[q]
      /\ \A k \in DOMAIN nodes[q] : k = 1 \/ 1 < k
  <2>1. nodes[q] \in Seq(Node)
    BY DEF TypeOK
  <2>2. Len(nodes[q]) \in Nat /\ DOMAIN nodes[q] = 1 .. Len(nodes[q]) /\ Len(nodes[q]) # 0
    BY <1>1, <2>1, LenProperties, EmptySeq
  <2>3. nodes[q][1] = node[t]
    BY <1>1, <2>1
  <2>4. QED
    BY <2>2, <2>3
<1>3. \A k \in DOMAIN nodes[q] :
        nodes[q][k] = node[t] \/ (node[t].id < nodes[q][k].id /\ node[t].msg < nodes[q][k].msg)
  BY <1>2 DEF IdsAscend, IndInv, OldestFirst
<1>4. \A h \in NodesOf(q) : h = node[t] \/ (node[t].id < h.id /\ node[t].msg < h.msg)
  BY <1>3 DEF NodesOf
<1>5. \A g \in files[q] : \E h \in NodesOf(q) : h.id = g.id /\ h.msg = g.msg
  BY <1>1, NodeOfFile, CriticalSteps
<1>6. ASSUME NEW g \in files[q]
      PROVE  \/ g.id = node[t].id /\ g.msg = node[t].msg
             \/ node[t].id < g.id /\ node[t].msg < g.msg
  <2>1. PICK h \in NodesOf(q) : h.id = g.id /\ h.msg = g.msg
    BY <1>5
  <2>2. h = node[t] \/ (node[t].id < h.id /\ node[t].msg < h.msg)
    BY <1>4
  <2>3. QED
    BY <2>1, <2>2
<1>7. QED
  BY <1>1, <1>4, <1>6

LEMMA QueuePollStore ==
  ASSUME StoreInv, NEW t \in Thread, QueuePoll(t) PROVE IdInv'
<1> USE DEF StoreInv
<1>1. pc[t] = "QueuePoll" /\ pc[t] \in Critical
  BY CriticalSteps DEF QueuePoll
<1>2. PICK q \in QueueName : q = req[t].queueName
  BY <1>1 DEF IndInv, Serving, TypeOK
<1>3. CASE Die
  BY <1>3, DieStore
<1>4. CASE ~Die
  <2>1. /\ files' = [files EXCEPT ![q] = @ \ {g \in files[q] : g.id = node[t].id}]
        /\ nodes' = [nodes EXCEPT ![q] = Tail(@)]
        /\ pc' = [pc EXCEPT ![t] = "unlock"]
    BY <1>2, <1>4 DEF QueuePoll
  <2>2. pc'[t] = "unlock" /\ \A u \in Thread \ {t} : pc'[u] = pc[u] /\ pc[u] \notin Critical
    BY <1>1, <2>1, Alone DEF TypeOK
  <2>3. /\ files'[q] = {g \in files[q] : g.id # node[t].id}
        /\ \A p \in QueueName \ {q} : files'[p] = files[p]
    BY <2>1 DEF TypeOK
  <2>4. /\ nodes[q] # <<>>
        /\ \A h \in NodesOf(q) : h = node[t] \/ node[t].id < h.id
        /\ node[t] = Head(nodes[q])
    BY <1>1, <1>2, HeadFile
  <2>5. PICK n \in Nat :
          /\ DOMAIN nodes[q] = 1 .. n + 1 /\ DOMAIN nodes'[q] = 1 .. n
          /\ nodes[q][1] = node[t]
          /\ \A k \in 1 .. n : /\ nodes'[q][k] = nodes[q][k + 1]
                              /\ k + 1 \in 1 .. n + 1 /\ 1 < k + 1
          /\ 1 \in 1 .. n + 1
          /\ NodesOf(q) = NodesOf(q)' \cup {node[t]}
          /\ \A p \in QueueName \ {q} : nodes'[p] = nodes[p] /\ NodesOf(p)' = NodesOf(p)
    BY <2>1, <2>4, Tailed
  <2>6. Removing = {}
    BY <1>1, <2>2, RemovingAlone
  <2>7. \A p \in QueueName :
          /\ \A j, k \in DOMAIN nodes[p] : j < k => nodes[p][j].id < nodes[p][k].id
          /\ nodes[p] # <<>> => \E f \in files[p] : \A g \in NodesOf(p) : g.id <= f.id
    BY <2>6 DEF IdsAscend
  <2>8. \A j, k \in DOMAIN nodes'[q] : j < k => nodes'[q][j].id < nodes'[q][k].id
    <3>1. \A j, k \in 1 .. n : j < k => j + 1 < k + 1
      OBVIOUS
    <3>2. ASSUME NEW j \in 1 .. n, NEW k \in 1 .. n, j < k
          PROVE  nodes'[q][j].id < nodes'[q][k].id
      <4>1. j + 1 \in DOMAIN nodes[q] /\ k + 1 \in DOMAIN nodes[q] /\ j + 1 < k + 1
        BY <2>5, <3>1, <3>2
      <4>2. nodes[q][j + 1].id < nodes[q][k + 1].id
        BY <2>7, <4>1
      <4>3. QED
        BY <2>5, <4>2
    <3>3. QED
      BY <2>5, <3>2
  <2>9. nodes'[q] # <<>> => \E f \in files'[q] : \A g \in NodesOf(q)' : g.id <= f.id
    <3>1. PICK f \in files[q] : \A g \in NodesOf(q) : g.id <= f.id
      BY <2>4, <2>7
    <3>2. ASSUME NEW k \in 1 .. n PROVE f.id # node[t].id
      <4>1. nodes'[q][k] \in NodesOf(q) /\ nodes[q][1].id < nodes[q][k + 1].id
        BY <2>5, <2>7 DEF NodesOf
      <4>2. node[t].id < nodes'[q][k].id /\ nodes'[q][k].id <= f.id
        BY <2>5, <3>1, <4>1
      <4>3. node[t].id \in Nat /\ nodes'[q][k].id \in Nat /\ f.id \in Nat
        BY <4>1, NodeTypes DEF TypeOK
      <4>4. QED
        BY <4>2, <4>3
    <3>3. nodes'[q] # <<>> => \E k \in 1 .. n : TRUE
      <4>1. nodes'[q] \in Seq(Node)
        BY <2>1, <2>4, HeadTailProperties DEF TypeOK
      <4>2. nodes'[q] # <<>> => 1 \in 1 .. n
        BY <2>5, <4>1, LenProperties, EmptySeq
      <4>3. QED
        BY <4>2
    <3>4. nodes'[q] # <<>> => f \in files'[q]
      BY <2>3, <3>2, <3>3
    <3>5. \A g \in NodesOf(q)' : g.id <= f.id
      BY <2>5, <3>1
    <3>6. QED
      BY <3>4, <3>5
  <2>10. IdsAscend'
    <3>1. \A p \in QueueName :
            /\ \A j, k \in DOMAIN nodes'[p] : j < k => nodes'[p][j].id < nodes'[p][k].id
            /\ nodes'[p] # <<>> => \E f \in files'[p] : \A g \in NodesOf(p)' : g.id <= f.id
      BY <2>3, <2>5, <2>7, <2>8, <2>9
    <3>2. QED
      BY <3>1 DEF IdsAscend
  <2>11. Linking' /\ Unlinking'
    BY <2>2, CriticalSteps DEF Linking, Unlinking
  <2>12. QED
    BY <2>10, <2>11 DEF IdInv
<1>5. QED
  BY <1>3, <1>4

\* The file a removal unlinks next is the oldest on disk; what is left is on its list.
UnlinksNext(t, q, i, f) ==
  /\ \A g \in files[q] : g = f \/ (f.id < g.id /\ f.msg < g.msg)
  /\ \A g \in files[q] : g.id = i <=> g = f
  /\ todo[t] = Ids(files[q]) /\ todo[t] \ {i} = Ids(files[q] \ {f})

LEMMA NextUnlinked ==
  ASSUME StoreInv, NEW t \in Thread, pc[t] = "UnlinkNext", NEW q \in QueueName,
         q = req[t].queueName, NEW i \in todo[t], \A j \in todo[t] : i <= j
  PROVE  \E f \in files[q] : UnlinksNext(t, q, i, f)
<1> USE DEF StoreInv
<1>1. todo[t] = Ids(files[q])
  BY DEF Unlinking
<1>2. PICK f \in files[q] : f.id = i
  BY <1>1 DEF Ids
<1>3. \A g \in files[q] : f.id <= g.id /\ f.id \in Nat /\ g.id \in Nat
  BY <1>1, <1>2, NodeTypes DEF Ids
<1>4. \A g \in files[q] : /\ f.id < g.id => f.msg < g.msg
                          /\ f.id = g.id => f = g
  BY DEF IndInv, FilesOrdered
<1>5. \A g \in files[q] : g = f \/ (f.id < g.id /\ f.msg < g.msg)
  BY <1>3, <1>4
<1>6. \A g \in files[q] : g.id = i <=> g = f
  BY <1>2, <1>4
<1>7. todo[t] \ {i} = Ids(files[q] \ {f})
  BY <1>1, <1>2, <1>4 DEF Ids
<1>8. QED
  BY <1>1, <1>2, <1>5, <1>6, <1>7 DEF UnlinksNext

LEMMA UnlinkNextStore ==
  ASSUME StoreInv, NEW t \in Thread, UnlinkNext(t) PROVE IdInv'
<1> USE DEF StoreInv
<1>1. pc[t] = "UnlinkNext" /\ pc[t] \in Critical \ {"WriteNode"}
  BY CriticalSteps DEF UnlinkNext
<1>2. PICK q \in QueueName : q = req[t].queueName /\ q \in pool
  BY <1>1 DEF IndInv, Serving, TypeOK
<1>3. PICK i \in todo[t] :
        /\ \A j \in todo[t] : i <= j
        /\ \/ /\ files' = [files EXCEPT ![q] = @ \ {g \in files[q] : g.id = i}]
              /\ todo' = [todo EXCEPT ![t] = @ \ {i}]
              /\ UNCHANGED pc
           \/ /\ todo' = [todo EXCEPT ![t] = {}]
              /\ pc' = [pc EXCEPT ![t] = "unlock"]
              /\ UNCHANGED files
  BY <1>2 DEF UnlinkNext
<1>4. UNCHANGED <<nodes, req, node>> /\ \A p \in QueueName : NodesOf(p)' = NodesOf(p)
  BY DEF UnlinkNext, NodesOf
<1>5. \A u \in Thread \ {t} : pc'[u] = pc[u] /\ pc[u] \notin Critical
  BY <1>1, <1>3, Alone DEF TypeOK
<1>6. Removing = {q}
  BY <1>1, <1>2, <1>5, RemovingAlone
<1>7. PICK f \in files[q] : UnlinksNext(t, q, i, f)
  <2>1. \A j \in todo[t] : i <= j
    BY <1>3
  <2>2. pc[t] = "UnlinkNext" /\ q = req[t].queueName
    BY <1>1, <1>2
  <2>3. QED
    BY <2>1, <2>2, NextUnlinked
<1>8. nodes[q] # <<>> => \E g \in files[q] : \A h \in NodesOf(q) : h.id <= g.id
  BY <1>7 DEF IdsAscend, UnlinksNext
<1>9. \A p \in QueueName : \A j, k \in DOMAIN nodes[p] : j < k => nodes[p][j].id < nodes[p][k].id
  BY DEF IdsAscend
<1>10. \A p \in QueueName \ {q} :
         nodes[p] # <<>> => \E g \in files[p] : \A h \in NodesOf(p) : h.id <= g.id
  BY <1>6 DEF IdsAscend
<1>11. CASE /\ todo' = [todo EXCEPT ![t] = {}]
            /\ pc' = [pc EXCEPT ![t] = "unlock"]
            /\ UNCHANGED files
  <2>1. IdsAscend'
    <3>1. \A p \in QueueName :
            /\ \A j, k \in DOMAIN nodes'[p] : j < k => nodes'[p][j].id < nodes'[p][k].id
            /\ nodes'[p] # <<>> => \E g \in files'[p] : \A h \in NodesOf(p)' : h.id <= g.id
      BY <1>4, <1>8, <1>9, <1>10, <1>11
    <3>2. QED
      BY <3>1 DEF IdsAscend
  <2>2. pc'[t] = "unlock"
    BY <1>11 DEF TypeOK
  <2>3. Linking' /\ Unlinking'
    BY <1>5, <2>2, CriticalSteps DEF Linking, Unlinking
  <2>4. QED
    BY <2>1, <2>3 DEF IdInv
<1>12. CASE /\ files' = [files EXCEPT ![q] = @ \ {g \in files[q] : g.id = i}]
            /\ todo' = [todo EXCEPT ![t] = @ \ {i}]
            /\ UNCHANGED pc
  <2>1. /\ files'[q] = files[q] \ {f}
        /\ \A p \in QueueName \ {q} : files'[p] = files[p]
        /\ todo'[t] = todo[t] \ {i}
    BY <1>7, <1>12 DEF TypeOK, UnlinksNext
  <2>2. Removing' = {q}
    BY <1>4, <1>6, <1>12 DEF Removing
  <2>3. ASSUME nodes[q] # <<>>, files'[q] # {}
        PROVE  \E g \in files'[q] : \A h \in NodesOf(q) : h.id <= g.id
    <3>1. PICK g \in files[q] : \A h \in NodesOf(q) : h.id <= g.id
      BY <1>8, <2>3
    <3>2. CASE g # f
      BY <2>1, <3>1, <3>2
    <3>3. CASE g = f
      <4>1. PICK a \in files[q] : a # f /\ f.id < a.id
        BY <1>7, <2>1, <2>3 DEF UnlinksNext
      <4>2. PICK h \in NodesOf(q) : h.id = a.id
        BY <1>1, <1>2, NodeOfFile
      <4>3. a.id <= f.id /\ a.id \in Nat /\ f.id \in Nat
        BY <3>1, <3>3, <4>2, NodeTypes
      <4>4. QED
        BY <4>1, <4>3
    <3>4. QED
      BY <3>2, <3>3
  <2>4. IdsAscend'
    <3>1. \A p \in QueueName :
            /\ \A j, k \in DOMAIN nodes'[p] : j < k => nodes'[p][j].id < nodes'[p][k].id
            /\ nodes'[p] # <<>> =>
                 \/ \E g \in files'[p] : \A h \in NodesOf(p)' : h.id <= g.id
                 \/ p \in Removing' /\ files'[p] = {}
      BY <1>4, <1>9, <1>10, <2>1, <2>2, <2>3
    <3>2. QED
      BY <3>1 DEF IdsAscend
  <2>5. Linking'
    BY <1>1, <1>5, <1>12, CriticalSteps DEF Linking
  <2>6. Unlinking'
    <3>1. \A u \in Thread : pc'[u] = "UnlinkNext" => u = t
      BY <1>5, CriticalSteps
    <3>2. todo'[t] = Ids(files'[q])
      BY <1>7, <2>1 DEF UnlinksNext
    <3>3. QED
      BY <1>2, <1>4, <3>1, <3>2 DEF Unlinking, Ids
  <2>7. QED
    BY <2>4, <2>5, <2>6 DEF IdInv
<1>13. QED
  BY <1>3, <1>11, <1>12

\* The only step that must not fail: a directory that is empty leaves, and the list with it.
LEMMA RemoveDirStore ==
  ASSUME StoreInv, "rmdir" \notin Faults, NEW t \in Thread, RemoveDir(t) PROVE IdInv'
<1> USE DEF StoreInv
<1>1. pc[t] = "UnlinkNext" /\ pc[t] \in Critical
  BY CriticalSteps DEF RemoveDir
<1>2. PICK q \in QueueName : q = req[t].queueName
  BY <1>1 DEF IndInv, Serving, TypeOK
<1>3. /\ UNCHANGED <<files, req, node>>
      /\ pc'[t] = "unlock" /\ \A u \in Thread \ {t} : pc'[u] = pc[u] /\ pc[u] \notin Critical
  BY <1>1, Alone DEF RemoveDir, TypeOK
<1>4. Removing = {q}
  BY <1>1, <1>2, <1>3, RemovingAlone
<1>5. \/ nodes'[q] = <<>>
      \/ nodes'[q] = nodes[q] /\ files[q] # {}
  BY <1>2 DEF RemoveDir, TypeOK
<1>6. \A p \in QueueName \ {q} : nodes'[p] = nodes[p]
  BY <1>2 DEF RemoveDir, TypeOK
<1>7. \A p \in QueueName : nodes'[p] = nodes[p] => NodesOf(p)' = NodesOf(p)
  BY DEF NodesOf
<1>8. IdsAscend'
  <2>1. ASSUME NEW p \in QueueName
        PROVE  /\ \A j, k \in DOMAIN nodes'[p] : j < k => nodes'[p][j].id < nodes'[p][k].id
               /\ nodes'[p] # <<>> => \E f \in files'[p] : \A g \in NodesOf(p)' : g.id <= f.id
    <3>1. CASE nodes'[p] = <<>>
      BY <3>1
    <3>2. CASE nodes'[p] # <<>>
      <4>1. nodes'[p] = nodes[p] /\ ~(p \in Removing /\ files[p] = {})
        BY <1>4, <1>5, <1>6, <3>2
      <4>2. QED
        BY <1>3, <1>7, <4>1 DEF IdsAscend
    <3>3. QED
      BY <3>1, <3>2
  <2>2. QED
    BY <2>1 DEF IdsAscend
<1>9. Linking' /\ Unlinking'
  BY <1>3, CriticalSteps DEF Linking, Unlinking
<1>10. QED
  BY <1>8, <1>9 DEF IdInv

\* The steps that change no list and no file.
LEMMA OtherStore ==
  ASSUME StoreInv, NEW t \in Thread,
         \/ \E r \in Request : Accept(t, r)
         \/ Lock(t) \/ Dispatch(t) \/ DispatchOther(t) \/ Unlock(t) \/ Send(t)
         \/ Produce(t) \/ Consume(t) \/ AddQueue(t) \/ RemoveQueue(t) \/ Read(t)
  PROVE  IdInv'
<1> USE DEF StoreInv
<1>1. CASE Die
  BY <1>1, DieStore
<1>2. CASE ~Die
  <2>1. UNCHANGED <<nodes, files>>
    <3>1. CASE AddQueue(t)
      <4>1. req[t].data \in QueueName /\ pc[t] = "addQueue" /\ files' = files
        BY <3>1 DEF AddQueue, IndInv, Serving
      <4>2. req[t].data \notin pool => nodes[req[t].data] = <<>>
        BY <4>1 DEF IndInv, Pooling
      <4>3. nodes' = nodes
        BY <3>1, <4>1, <4>2 DEF AddQueue, TypeOK
      <4>4. QED
        BY <4>1, <4>3
    <3>2. CASE ~AddQueue(t)
      BY <1>2, <3>2 DEF Accept, Lock, Dispatch, DispatchOther, Unlock, Send, Produce, Consume,
                        RemoveQueue, Read
    <3>3. QED
      BY <3>1, <3>2
  <2>2. /\ \A u \in Thread \ {t} : UNCHANGED <<pc[u], req[u], node[u], todo[u]>>
        /\ pc[t] \notin {"UnlinkNext", "WriteNode"}
    BY <1>2 DEF Accept, Lock, Dispatch, DispatchOther, Unlock, Send, Produce, Consume,
                AddQueue, RemoveQueue, Read, Length, Get, GetAll, GetAllQueueNames,
                TypeOK
  <2>3. /\ pc'[t] # "WriteNode"
        /\ pc'[t] = "UnlinkNext" => RemoveQueue(t)
    BY <1>2 DEF Accept, Lock, Dispatch, DispatchOther, Unlock, Send, Produce, Consume,
                AddQueue, Read, Length, Get, GetAll, GetAllQueueNames, RemoveQueue,
                TypeOK, Operations
  <2>4. ASSUME NEW q \in QueueName, RemoveQueue(t), pc'[t] = "UnlinkNext", req'[t].queueName = q
        PROVE  todo'[t] \in {{}, Ids(files[q])}
    BY <1>2, <2>4 DEF RemoveQueue, TypeOK
  <2>5. QED
    BY <2>1, <2>2, <2>3, <2>4, QuietStore
<1>3. QED
  BY <1>1, <1>2

LEMMA StoreStep ==
  ASSUME StoreInv, "rmdir" \notin Faults, [Next]_vars PROVE StoreInv'
<1>1. TypeOK' /\ IndInv'
  BY NextType, NextInd DEF StoreInv, IndInv
<1>2. IdInv'
  <2>1. CASE UNCHANGED vars
    BY <2>1, StillStore DEF vars, process
  <2>2. CASE Startup
    <3>1. CASE Start \/ Listen
      BY <3>1, StillStore DEF Start, Listen
    <3>2. CASE LoadFails
      BY <3>2, DieStore DEF LoadFails
    <3>3. QED
      BY <2>2, <3>1, <3>2, LoadStore DEF Startup
  <2>3. CASE Crash
    BY <2>3, DieStore DEF Crash
  <2>4. ASSUME NEW t \in Thread, NEW r \in Request, Accept(t, r) PROVE IdInv'
    BY <2>4, OtherStore
  <2>5. ASSUME NEW t \in Thread, Handle(t) PROVE IdInv'
    BY <2>5, OtherStore, QueueAddStore, WriteNodeStore, QueuePollStore, UnlinkNextStore,
       RemoveDirStore DEF Handle
  <2>6. QED
    BY <2>1, <2>2, <2>3, <2>4, <2>5 DEF Next
<1>3. QED
  BY <1>1, <1>2 DEF StoreInv, IdInv

\* As long as rmdir does not fail, the ids of a queue's nodes ascend and none is given out
\* twice, and a removal knows all files that are left (get_next_node_id, create_node_file,
\* persist_remove_queue).
THEOREM StoreInductive ==
  ASSUME "rmdir" \notin Faults PROVE Spec => []StoreInv
<1>1. Init => StoreInv
  BY InitStore
<1>2. StoreInv /\ [Next]_vars => StoreInv'
  BY StoreStep
<1>3. QED
  BY <1>1, <1>2, PTL DEF Spec

-----------------------------------------------------------------------------
(* The refinement: what each step is to the queues of FifoStore             *)

\* The messages of the node files fs.
Messages(fs) == {f.msg : f \in fs}

\* A change of the files of one queue is a change of that queue.
LEMMA StoredAt ==
  ASSUME NEW q \in QueueName, NEW new, Messages(files'[q]) = new,
         \A p \in QueueName \ {q} : files'[p] = files[p]
  PROVE  [p \in QueueName |-> {f.msg : f \in files'[p]}]
           = [[p \in QueueName |-> {f.msg : f \in files[p]}] EXCEPT ![q] = new]
  BY DEF Messages

\* Nothing that a client can tell from before.
LEMMA Stutter ==
  ASSUME UNCHANGED <<dirs, files, serial, lastOut>>, Removing' = Removing
  PROVE  UNCHANGED Store!vars
  BY DEF Store!vars

\* The end of the process gives up a removal that is under way.
LEMMA DieRefines ==
  ASSUME StoreInv, Die PROVE [Store!Next]_(Store!vars)
<1>1. Removing' = {} /\ UNCHANGED <<dirs, files, serial, lastOut>>
  BY DEF Die, Removing
<1>2. CASE Removing = {}
  BY <1>1, <1>2, Stutter
<1>3. CASE Removing # {}
  <2>1. PICK t \in Thread : pc[t] = "UnlinkNext"
    BY <1>3 DEF Removing
  <2>2. PICK q \in QueueName : q = req[t].queueName
    BY <2>1 DEF StoreInv, IndInv, Serving, TypeOK
  <2>3. Removing = {q}
    BY <2>1, <2>2, Alone, RemovingAlone, CriticalSteps DEF StoreInv
  <2>4. Store!GiveUp(q)
    BY <1>1, <2>3 DEF Store!GiveUp
  <2>5. QED
    BY <2>4 DEF Store!Next
<1>4. QED
  BY <1>2, <1>3

LEMMA ProduceRefines ==
  ASSUME StoreInv, NEW t \in Thread, Produce(t) PROVE [Store!Next]_(Store!vars)
<1>1. CASE Die
  BY <1>1, DieRefines
<1>2. CASE ~Die
  <2>1. /\ serial' = serial + 1
        /\ UNCHANGED <<dirs, files, lastOut, req>>
        /\ pc[t] = "produce" /\ pc' = [pc EXCEPT ![t] = "QueueAdd"]
    BY <1>2 DEF Produce
  <2>2. Removing' = Removing
    BY <2>1 DEF Removing, StoreInv, TypeOK
  <2>3. Store!Offer
    BY <2>1, <2>2 DEF Store!Offer
  <2>4. QED
    BY <2>3 DEF Store!Next
<1>3. QED
  BY <1>1, <1>2

LEMMA QueueAddRefines ==
  ASSUME StoreInv, NEW t \in Thread, QueueAdd(t) PROVE [Store!Next]_(Store!vars)
<1> USE DEF StoreInv
<1>1. pc[t] = "QueueAdd" /\ pc[t] \in Critical
  BY CriticalSteps DEF QueueAdd
<1>2. PICK q \in QueueName : q = req[t].queueName /\ q \in pool
  BY <1>1 DEF IndInv, Serving, TypeOK
<1>3. CASE Die
  BY <1>3, DieRefines
<1>4. CASE /\ ~Die
           /\ UNCHANGED <<files, dirs, req, serial, lastOut>>
           /\ pc' = [pc EXCEPT ![t] = "unlock"]
  <2>1. Removing' = Removing
    BY <1>1, <1>4 DEF Removing, TypeOK
  <2>2. QED
    BY <1>4, <2>1, Stutter
<1>5. CASE /\ ~Die
           /\ pc' = [pc EXCEPT ![t] = "WriteNode"]
           /\ \E i \in NextIds(files[q]) :
                files' = [files EXCEPT ![q] = {f \in @ : f.id # i}
                            \cup {[id |-> i, msg |-> node[t].msg, whole |-> FALSE]}]
           /\ UNCHANGED <<status, pool, nodes, dirs, lock, req, node, todo, res, history>>
  <2>1. \E new : /\ new.msg = serial /\ files'[q] = files[q] \cup {new}
                 /\ \A p \in QueueName \ {q} : files'[p] = files[p]
    <3>1. /\ files'[q] = files[q] \cup {[id |-> node[t].id, msg |-> serial, whole |-> FALSE]}
          /\ \A p \in QueueName \ {q} : files'[p] = files[p]
      BY <1>1, <1>2, <1>5, FileAdded
    <3>2. [id |-> node[t].id, msg |-> serial, whole |-> FALSE].msg = serial
      OBVIOUS
    <3>3. QED
      BY <3>1, <3>2
  <2>2. Messages(files'[q]) = Messages(files[q]) \cup {serial}
    BY <2>1 DEF Messages
  <2>3. \A u \in Thread \ {t} : pc[u] \notin Critical
    BY <1>1, Alone
  <2>4. Removing = {} /\ Removing' = {}
    BY <1>1, <1>5, <2>3, RemovingAlone, CriticalSteps DEF Removing, TypeOK
  <2>5. \A p \in QueueName : lastOut[p] < serial /\ \A f \in files[p] : f.msg < serial
    BY <1>1 DEF IndInv, Producing
  <2>6. q \in dirs
    BY <1>1, <1>2, Alone
  <2>7. Store!Put(q)
    <3>1. [p \in QueueName |-> {f.msg : f \in files'[p]}]
            = [[p \in QueueName |-> {f.msg : f \in files[p]}] EXCEPT ![q] = @ \cup {serial}]
      BY <2>1, <2>2, StoredAt DEF Messages
    <3>2. QED
      BY <1>5, <2>4, <2>5, <2>6, <3>1 DEF Store!Put
  <2>8. QED
    BY <2>7 DEF Store!Next
<1>6. QED
  BY <1>2, <1>3, <1>4, <1>5 DEF QueueAdd

LEMMA WriteNodeRefines ==
  ASSUME StoreInv, NEW t \in Thread, WriteNode(t) PROVE [Store!Next]_(Store!vars)
<1>1. PICK q \in QueueName : q = req[t].queueName
  BY DEF WriteNode, StoreInv, IndInv, Serving, TypeOK
<1>2. Removing' = Removing
  BY DEF WriteNode, Removing, StoreInv, TypeOK
<1>3. Messages(files'[q]) = Messages(files[q]) /\ \A p \in QueueName \ {q} : files'[p] = files[p]
  BY <1>1, FileWritten DEF Messages, StoreInv
<1>4. [p \in QueueName |-> {f.msg : f \in files'[p]}] = [p \in QueueName |-> {f.msg : f \in files[p]}]
  BY <1>3 DEF Messages
<1>5. UNCHANGED <<dirs, serial, lastOut>>
  BY DEF WriteNode
<1>6. QED
  BY <1>2, <1>4, <1>5 DEF Store!vars

LEMMA QueuePollRefines ==
  ASSUME StoreInv, NEW t \in Thread, QueuePoll(t) PROVE [Store!Next]_(Store!vars)
<1> USE DEF StoreInv
<1>1. pc[t] = "QueuePoll" /\ pc[t] \in Critical
  BY CriticalSteps DEF QueuePoll
<1>2. PICK q \in QueueName : q = req[t].queueName
  BY <1>1 DEF IndInv, Serving, TypeOK
<1>3. CASE Die
  BY <1>3, DieRefines
<1>4. CASE ~Die
  <2>0. PICK m \in Nat : m = node[t].msg
    BY NodeTypes DEF TypeOK
  <2>1. /\ files' = [files EXCEPT ![q] = @ \ {g \in files[q] : g.id = node[t].id}]
        /\ lastOut' = [lastOut EXCEPT ![q] = m]
        /\ pc' = [pc EXCEPT ![t] = "unlock"]
        /\ UNCHANGED <<dirs, serial, req>>
    BY <1>2, <1>4, <2>0 DEF QueuePoll
  <2>2. PICK f \in files[q] : f.id = node[t].id
    BY <1>2, <1>4 DEF QueuePoll
  <2>3. /\ q \in pool
        /\ \A g \in files[q] :
             \/ g.id = node[t].id /\ g.msg = m
             \/ node[t].id < g.id /\ m < g.msg
    BY <1>1, <1>2, <2>0, HeadFile
  <2>4. /\ files'[q] = {g \in files[q] : g.id # node[t].id}
        /\ \A p \in QueueName \ {q} : files'[p] = files[p]
    BY <2>1 DEF TypeOK
  <2>5. node[t].id \in Nat /\ \A g \in files[q] : g.msg \in Nat /\ g.id \in Nat
    BY NodeTypes DEF TypeOK
  <2>6. \A g \in files[q] : (g.id # node[t].id <=> g.msg # m) /\ m <= g.msg
    BY <2>3, <2>5
  <2>7. f.msg = m
    BY <2>2, <2>6
  <2>8. Messages(files'[q]) = Messages(files[q]) \ {m} /\ m \in Messages(files[q])
    BY <2>2, <2>4, <2>6, <2>7 DEF Messages
  <2>9. \A u \in Thread \ {t} : pc[u] \notin Critical
    BY <1>1, Alone
  <2>10. Removing = {} /\ Removing' = {}
    BY <1>1, <2>1, <2>9, RemovingAlone, CriticalSteps DEF Removing, TypeOK
  <2>11. q \in dirs
    BY <1>1, <2>3, Alone
  <2>12. Store!Take(q, m)
    <3>1. [p \in QueueName |-> {g.msg : g \in files'[p]}]
            = [[p \in QueueName |-> {g.msg : g \in files[p]}] EXCEPT ![q] = @ \ {m}]
      BY <2>4, <2>8, StoredAt DEF Messages
    <3>2. Store!Oldest(q, m)
      BY <2>6, <2>8 DEF Store!Oldest, Messages
    <3>3. QED
      BY <2>1, <2>10, <2>11, <3>1, <3>2 DEF Store!Take
  <2>13. m \in [p \in QueueName |-> {g.msg : g \in files[p]}][q]
    BY <2>8 DEF Messages
  <2>14. QED
    BY <2>12, <2>13 DEF Store!Next
<1>5. QED
  BY <1>3, <1>4

LEMMA AddQueueRefines ==
  ASSUME StoreInv, NEW t \in Thread, AddQueue(t) PROVE [Store!Next]_(Store!vars)
<1> USE DEF StoreInv
<1>1. pc[t] = "addQueue" /\ pc[t] \in Critical
  BY CriticalSteps DEF AddQueue, Operations
<1>2. PICK q \in QueueName : q = req[t].data
  BY <1>1 DEF IndInv, Serving
<1>3. pc' = [pc EXCEPT ![t] = "unlock"] /\ UNCHANGED <<files, req, serial, lastOut>>
  BY DEF AddQueue
<1>4. Removing = {} /\ Removing' = {}
  <2>1. \A u \in Thread \ {t} : pc[u] \notin Critical
    BY <1>1, Alone
  <2>2. QED
    BY <1>1, <1>3, <2>1, RemovingAlone, CriticalSteps DEF Removing, TypeOK
<1>5. CASE UNCHANGED dirs
  BY <1>3, <1>4, <1>5, Stutter
<1>6. CASE q \notin pool /\ dirs' = dirs \cup {q}
  <2>1. Store!Create(q)
    BY <1>1, <1>3, <1>4, <1>6, Alone DEF Store!Create
  <2>2. QED
    BY <2>1 DEF Store!Next
<1>7. QED
  BY <1>2, <1>5, <1>6 DEF AddQueue

LEMMA RemoveQueueRefines ==
  ASSUME StoreInv, NEW t \in Thread, RemoveQueue(t) PROVE [Store!Next]_(Store!vars)
<1> USE DEF StoreInv
<1>1. pc[t] = "removeQueue" /\ pc[t] \in Critical
  BY CriticalSteps DEF RemoveQueue, Operations
<1>2. PICK q \in QueueName : q = req[t].queueName
  BY <1>1 DEF IndInv, Serving, NeedsQueue, TypeOK
<1>3. Removing = {} /\ \A u \in Thread \ {t} : pc[u] \notin Critical
  BY <1>1, Alone, RemovingAlone
<1>4. CASE Die
  BY <1>4, DieRefines
<1>5. CASE pc' = [pc EXCEPT ![t] = "unlock"] /\ UNCHANGED <<req, dirs, files, serial, lastOut>>
  <2>1. Removing' = {}
    BY <1>3, <1>5, CriticalSteps DEF Removing, TypeOK
  <2>2. QED
    BY <1>3, <1>5, <2>1, Stutter
<1>6. CASE /\ pc' = [pc EXCEPT ![t] = "UnlinkNext"]
           /\ q \in dirs /\ UNCHANGED <<req, dirs, files, serial, lastOut>>
  <2>1. pc'[t] = "UnlinkNext" /\ \A u \in Thread \ {t} : pc'[u] # "UnlinkNext"
    BY <1>3, <1>6, CriticalSteps DEF TypeOK
  <2>2. Removing' = {q}
    BY <1>2, <1>6, <2>1 DEF Removing
  <2>3. Store!BeginRemoval(q)
    BY <1>3, <1>6, <2>2 DEF Store!BeginRemoval
  <2>4. QED
    BY <2>3 DEF Store!Next
<1>7. QED
  BY <1>2, <1>4, <1>5, <1>6 DEF RemoveQueue

\* A removal that ends without its directory leaves the newest messages, and the queue.
LEMMA RemovalGivenUp ==
  ASSUME StoreInv, NEW t \in Thread, pc[t] = "UnlinkNext", pc' = [pc EXCEPT ![t] = "unlock"],
         UNCHANGED <<req, dirs, files, serial, lastOut>>
  PROVE  [Store!Next]_(Store!vars)
<1> USE DEF StoreInv
<1>1. PICK q \in QueueName : q = req[t].queueName
  BY DEF IndInv, Serving, TypeOK
<1>2. \A u \in Thread \ {t} : pc[u] \notin Critical
  BY Alone, CriticalSteps
<1>3. Removing = {q} /\ Removing' = {}
  BY <1>1, <1>2, RemovingAlone, CriticalSteps DEF Removing, TypeOK
<1>4. Store!GiveUp(q)
  BY <1>3 DEF Store!GiveUp
<1>5. QED
  BY <1>4 DEF Store!Next

LEMMA UnlinkNextRefines ==
  ASSUME StoreInv, NEW t \in Thread, UnlinkNext(t) PROVE [Store!Next]_(Store!vars)
<1> USE DEF StoreInv
<1>1. pc[t] = "UnlinkNext" /\ pc[t] \in Critical
  BY CriticalSteps DEF UnlinkNext
<1>2. PICK q \in QueueName : q = req[t].queueName
  BY <1>1 DEF IndInv, Serving, TypeOK
<1>3. PICK i \in todo[t] :
        /\ \A j \in todo[t] : i <= j
        /\ \/ /\ files' = [files EXCEPT ![q] = @ \ {g \in files[q] : g.id = i}]
              /\ UNCHANGED pc
           \/ /\ pc' = [pc EXCEPT ![t] = "unlock"]
              /\ UNCHANGED files
  BY <1>2 DEF UnlinkNext
<1>4. UNCHANGED <<req, dirs, serial, lastOut>>
  BY DEF UnlinkNext
<1>5. CASE pc' = [pc EXCEPT ![t] = "unlock"] /\ UNCHANGED files
  BY <1>1, <1>4, <1>5, RemovalGivenUp
<1>6. CASE files' = [files EXCEPT ![q] = @ \ {g \in files[q] : g.id = i}] /\ UNCHANGED pc
  <2>1. PICK f \in files[q] : UnlinksNext(t, q, i, f)
    <3>1. pc[t] = "UnlinkNext" /\ q = req[t].queueName /\ \A j \in todo[t] : i <= j
      BY <1>1, <1>2, <1>3
    <3>2. QED
      BY <3>1, NextUnlinked
  <2>2. PICK m \in Nat : m = f.msg
    BY NodeTypes
  <2>3. \A g \in files[q] : g.msg \in Nat /\ (g = f \/ m < g.msg)
    BY <2>1, <2>2, NodeTypes DEF UnlinksNext
  <2>4. \A g \in files[q] : (g.msg = m <=> g = f) /\ m <= g.msg
    BY <2>2, <2>3
  <2>5. files'[q] = files[q] \ {f} /\ \A p \in QueueName \ {q} : files'[p] = files[p]
    BY <1>6, <2>1 DEF TypeOK, UnlinksNext
  <2>6. Messages(files'[q]) = Messages(files[q]) \ {m} /\ m \in Messages(files[q])
    BY <2>2, <2>4, <2>5 DEF Messages
  <2>7. Removing = {q} /\ Removing' = {q}
    <3>1. \A u \in Thread \ {t} : pc[u] \notin Critical
      BY <1>1, Alone
    <3>2. Removing = {q}
      BY <1>1, <1>2, <3>1, RemovingAlone
    <3>3. QED
      BY <1>4, <1>6, <3>2 DEF Removing
  <2>8. Store!Discard(q, m)
    <3>1. [p \in QueueName |-> {g.msg : g \in files'[p]}]
            = [[p \in QueueName |-> {g.msg : g \in files[p]}] EXCEPT ![q] = @ \ {m}]
      BY <2>5, <2>6, StoredAt DEF Messages
    <3>2. Store!Oldest(q, m)
      BY <2>4, <2>6 DEF Store!Oldest, Messages
    <3>3. QED
      BY <1>4, <2>7, <3>1, <3>2 DEF Store!Discard
  <2>9. m \in [p \in QueueName |-> {g.msg : g \in files[p]}][q]
    BY <2>6 DEF Messages
  <2>10. QED
    BY <2>8, <2>9 DEF Store!Next
<1>7. QED
  BY <1>3, <1>5, <1>6

LEMMA RemoveDirRefines ==
  ASSUME StoreInv, NEW t \in Thread, RemoveDir(t) PROVE [Store!Next]_(Store!vars)
<1> USE DEF StoreInv
<1>1. pc[t] = "UnlinkNext" /\ pc[t] \in Critical
  BY CriticalSteps DEF RemoveDir
<1>2. PICK q \in QueueName : q = req[t].queueName
  BY <1>1 DEF IndInv, Serving, TypeOK
<1>3. pc' = [pc EXCEPT ![t] = "unlock"] /\ UNCHANGED <<req, files, serial, lastOut>>
  BY DEF RemoveDir
<1>4. CASE UNCHANGED dirs
  BY <1>1, <1>3, <1>4, RemovalGivenUp
<1>5. CASE files[q] = {} /\ dirs' = dirs \ {q}
  <2>1. \A u \in Thread \ {t} : pc[u] \notin Critical
    BY <1>1, Alone
  <2>2. Removing = {q} /\ Removing' = {}
    BY <1>1, <1>2, <1>3, <2>1, RemovingAlone, CriticalSteps DEF Removing, TypeOK
  <2>3. Store!EndRemoval(q)
    BY <1>3, <1>5, <2>2 DEF Store!EndRemoval
  <2>4. QED
    BY <2>3 DEF Store!Next
<1>6. QED
  BY <1>2, <1>4, <1>5 DEF RemoveDir

\* The steps no client can tell from before.
LEMMA QuietRefines ==
  ASSUME StoreInv, NEW t \in Thread,
         \/ \E r \in Request : Accept(t, r)
         \/ Lock(t) \/ Dispatch(t) \/ DispatchOther(t) \/ Unlock(t) \/ Send(t)
         \/ Consume(t) \/ Read(t)
  PROVE  [Store!Next]_(Store!vars)
<1> USE DEF StoreInv
<1>1. CASE Die
  BY <1>1, DieRefines
<1>2. CASE ~Die
  <2>1. UNCHANGED <<dirs, files, serial, lastOut>>
    BY <1>2 DEF Accept, Lock, Dispatch, DispatchOther, Unlock, Send, Consume, Read
  <2>2. /\ \A u \in Thread \ {t} : UNCHANGED <<pc[u], req[u]>>
        /\ pc[t] # "UnlinkNext"
    BY <1>2 DEF Accept, Lock, Dispatch, DispatchOther, Unlock, Send, Consume,
                Read, Length, Get, GetAll, GetAllQueueNames, TypeOK
  <2>3. pc'[t] # "UnlinkNext"
    BY <1>2 DEF Accept, Lock, Dispatch, DispatchOther, Unlock, Send, Consume,
                Read, Length, Get, GetAll, GetAllQueueNames, TypeOK, Operations
  <2>4. Removing' = Removing
    BY <2>2, <2>3 DEF Removing
  <2>5. QED
    BY <2>1, <2>4, Stutter
<1>3. QED
  BY <1>1, <1>2

LEMMA StepRefines ==
  ASSUME StoreInv, [Next]_vars PROVE [Store!Next]_(Store!vars)
<1>1. CASE UNCHANGED vars
  BY <1>1, Stutter DEF vars, process, Removing
<1>2. CASE Startup
  <2>1. CASE LoadFails
    BY <2>1, DieRefines DEF LoadFails
  <2>2. CASE ~LoadFails
    BY <1>2, <2>2, Stutter DEF Startup, Start, LoadQueue, Listen, Removing
  <2>3. QED
    BY <2>1, <2>2
<1>3. CASE Crash
  BY <1>3, DieRefines DEF Crash
<1>4. ASSUME NEW t \in Thread, NEW r \in Request, Accept(t, r) PROVE [Store!Next]_(Store!vars)
  BY <1>4, QuietRefines
<1>5. ASSUME NEW t \in Thread, Handle(t) PROVE [Store!Next]_(Store!vars)
  BY <1>5, QuietRefines, ProduceRefines, QueueAddRefines, WriteNodeRefines, QueuePollRefines,
     AddQueueRefines, RemoveQueueRefines, UnlinkNextRefines, RemoveDirRefines DEF Handle
<1>6. QED
  BY <1>1, <1>2, <1>3, <1>4, <1>5 DEF Next

\* Whatever crashes come in between and whatever system calls fail but rmdir, the queues on
\* disk are first in, first out, and a removal throws away the oldest messages of a queue
\* that nobody else is at (create_node_file, Queue_poll, persist_remove_queue).
THEOREM StoreImplements ==
  ASSUME "rmdir" \notin Faults PROVE Spec => ImplementsStore
<1>1. Init => Store!Init
  BY DEF Init, Store!Init, Removing
<1>2. StoreInv /\ [Next]_vars => [Store!Next]_(Store!vars)
  BY StepRefines
<1>3. QED
  BY <1>1, <1>2, StoreInductive, PTL DEF Spec, ImplementsStore, Store!Spec

-----------------------------------------------------------------------------
(* No acknowledged message is lost                                          *)

\* What a thread does by itself, that is all but the end of the process.
LEMMA OneThread ==
  ASSUME TypeOK, NEW t \in Thread, ~Die, (\E r \in Request : Accept(t, r)) \/ Handle(t)
  PROVE  \A u \in Thread \ {t} : UNCHANGED <<pc[u], req[u], node[u], res[u], todo[u]>>
<1>1. CASE \/ \E r \in Request : Accept(t, r)
           \/ Lock(t) \/ Dispatch(t) \/ DispatchOther(t) \/ Unlock(t) \/ Send(t) \/ Read(t)
  BY <1>1 DEF Accept, Lock, Dispatch, DispatchOther, Unlock, Send, Read, Length, Get, GetAll,
              GetAllQueueNames, TypeOK
<1>2. CASE Produce(t) \/ QueueAdd(t) \/ WriteNode(t) \/ Consume(t) \/ QueuePoll(t)
  BY <1>2 DEF Produce, QueueAdd, WriteNode, Consume, QueuePoll, TypeOK
<1>3. CASE AddQueue(t) \/ RemoveQueue(t) \/ UnlinkNext(t) \/ RemoveDir(t)
  BY <1>3 DEF AddQueue, RemoveQueue, UnlinkNext, RemoveDir, TypeOK
<1>4. QED
  BY <1>1, <1>2, <1>3 DEF Handle

LEMMA WorkingStep == ASSUME TypeOK, Working, [Next]_vars PROVE Working'
<1>1. CASE UNCHANGED vars
  BY <1>1 DEF vars, process, Working
<1>2. CASE Die
  BY <1>2 DEF Die, Working, Operations
<1>3. CASE ~Die /\ (Startup \/ Crash)
  BY <1>3 DEF Startup, Start, LoadQueue, Listen, LoadFails, Crash, Working
<1>4. ASSUME NEW t \in Thread, ~Die, (\E r \in Request : Accept(t, r)) \/ Handle(t)
      PROVE  Working'
  <2>1. \A u \in Thread \ {t} : UNCHANGED <<pc[u], req[u], node[u]>>
    BY <1>4, OneThread
  <2> DEFINE works(u) ==
        /\ pc[u] \in Operations => pc[u] = req[u].type
        /\ pc[u] \in {"QueueAdd", "WriteNode"} => req[u].type = "produce" /\ node[u].whole
        /\ pc[u] = "QueuePoll" => req[u].type = "consume"
        /\ pc[u] = "UnlinkNext" => req[u].type = "removeQueue"
  <2>2. works(t)
    BY DEF Working
  <2>3. works(t)'
    <3>1. CASE \/ \E r \in Request : Accept(t, r)
               \/ Lock(t) \/ Dispatch(t) \/ DispatchOther(t) \/ Unlock(t) \/ Send(t) \/ Read(t)
      BY <1>4, <2>2, <3>1 DEF Accept, Lock, Dispatch, DispatchOther, Unlock, Send, Read, Length,
                              Get, GetAll, GetAllQueueNames, TypeOK, Operations
    <3>2. CASE Produce(t)
      BY <1>4, <2>2, <3>2 DEF Produce, TypeOK, Operations
    <3>3. CASE QueueAdd(t) \/ WriteNode(t) \/ Consume(t) \/ QueuePoll(t)
      BY <1>4, <2>2, <3>3 DEF QueueAdd, WriteNode, Consume, QueuePoll, TypeOK, Operations
    <3>4. CASE AddQueue(t) \/ RemoveQueue(t) \/ UnlinkNext(t) \/ RemoveDir(t)
      BY <1>4, <2>2, <3>4 DEF AddQueue, RemoveQueue, UnlinkNext, RemoveDir, TypeOK, Operations
    <3>5. QED
      BY <1>4, <3>1, <3>2, <3>3, <3>4 DEF Handle
  <2>4. QED
    BY <2>1, <2>3 DEF Working
<1>5. QED
  BY <1>1, <1>2, <1>3, <1>4 DEF Next

\* On disk in full, or taken from there as it should be.
Safe(m) == m \in removed \/ Stored(m)

LEMMA FilesStay ==
  ASSUME StoreInv, NEW t \in Thread, QueueAdd(t)
  PROVE  \A p \in QueueName : files[p] \subseteq files'[p]
<1> USE DEF StoreInv
<1>1. pc[t] = "QueueAdd"
  BY DEF QueueAdd
<1>2. PICK q \in QueueName : q = req[t].queueName
  BY <1>1 DEF IndInv, Serving, TypeOK
<1>3. CASE UNCHANGED files
  BY <1>3
<1>4. CASE \E i \in NextIds(files[q]) :
             files' = [files EXCEPT ![q] = {f \in @ : f.id # i}
                         \cup {[id |-> i, msg |-> node[t].msg, whole |-> FALSE]}]
  <2>1. /\ files'[q] = files[q] \cup {[id |-> node[t].id, msg |-> serial, whole |-> FALSE]}
        /\ \A p \in QueueName \ {q} : files'[p] = files[p]
    BY <1>1, <1>2, <1>4, FileAdded
  <2>2. QED
    BY <2>1
<1>5. QED
  BY <1>2, <1>3, <1>4 DEF QueueAdd, Die

\* A whole file stays, or its message is handed out or goes with its queue.
LEMMA WholeFileStays ==
  ASSUME StoreInv, [Next]_vars, NEW q \in dirs, NEW h \in files[q], h.whole
  PROVE  /\ removed \subseteq removed'
         /\ \/ h.msg \in removed'
            \/ q \in dirs' /\ \E f \in files'[q] : f.msg = h.msg /\ f.whole
<1> USE DEF StoreInv
<1>1. CASE UNCHANGED <<dirs, files, removed>>
  BY <1>1
<1>2. ASSUME NEW t \in Thread, ~Die, QueueAdd(t)
      PROVE  removed' = removed /\ q \in dirs' /\ h \in files'[q]
  BY <1>2, FilesStay DEF QueueAdd, TypeOK
<1>3. ASSUME NEW t \in Thread, WriteNode(t)
      PROVE  removed' = removed /\ q \in dirs' /\ \E f \in files'[q] : f.msg = h.msg /\ f.whole
  <2>1. UNCHANGED <<dirs, removed>>
    BY <1>3 DEF WriteNode
  <2>2. PICK r \in QueueName : r = req[t].queueName
    BY <1>3 DEF WriteNode, IndInv, Serving, TypeOK
  <2>3. CASE UNCHANGED files
    BY <2>1, <2>3
  <2>4. CASE ~UNCHANGED files
    <3> DEFINE written(f) == IF f.msg = node[t].msg
                             THEN [id |-> f.id, msg |-> f.msg, whole |-> TRUE]
                             ELSE f
    <3>1. files' = [files EXCEPT ![r] = {written(f) : f \in @}]
      BY <1>3, <2>2, <2>4 DEF WriteNode
    <3>2. written(h).msg = h.msg /\ written(h).whole
      OBVIOUS
    <3>3. q = r => written(h) \in files'[q]
      BY <3>1 DEF TypeOK
    <3>4. q # r => files'[q] = files[q]
      BY <3>1 DEF TypeOK
    <3>5. q = r \/ q # r
      OBVIOUS
    <3> HIDE DEF written
    <3>6. QED
      BY <2>1, <3>2, <3>3, <3>4, <3>5
  <2>5. QED
    BY <2>3, <2>4
<1>4. ASSUME NEW t \in Thread, ~Die, QueuePoll(t)
      PROVE  /\ removed \subseteq removed'
             /\ h.msg \in removed' \/ (q \in dirs' /\ h \in files'[q])
  <2>1. pc[t] = "QueuePoll"
    BY <1>4 DEF QueuePoll
  <2>2. PICK r \in QueueName : r = req[t].queueName
    BY <2>1 DEF IndInv, Serving, TypeOK
  <2>3. PICK m \in Nat : m = node[t].msg
    BY NodeTypes DEF TypeOK
  <2>4. /\ files' = [files EXCEPT ![r] = @ \ {f \in files[r] : f.id = node[t].id}]
        /\ removed' = removed \cup {m} /\ dirs' = dirs
    BY <1>4, <2>2, <2>3 DEF QueuePoll
  <2>5. \A f \in files[r] : f.msg = m \/ node[t].id < f.id
    BY <2>1, <2>2, <2>3, HeadFile
  <2>6. node[t].id \in Nat /\ \A f \in files[r] : f.id \in Nat
    BY NodeTypes DEF TypeOK
  <2>7. \A f \in files[r] : f.msg = m \/ f \in files'[r]
    BY <2>4, <2>5, <2>6 DEF TypeOK
  <2>8. q # r => files'[q] = files[q]
    BY <2>4 DEF TypeOK
  <2>9. QED
    BY <2>4, <2>7, <2>8
<1>5. ASSUME NEW t \in Thread, UnlinkNext(t)
      PROVE  /\ removed \subseteq removed'
             /\ h.msg \in removed' \/ (q \in dirs' /\ h \in files'[q])
  <2>1. PICK r \in QueueName : r = req[t].queueName
    BY <1>5 DEF UnlinkNext, IndInv, Serving, TypeOK
  <2>2. PICK i \in todo[t] :
          \/ /\ files' = [files EXCEPT ![r] = @ \ {f \in files[r] : f.id = i}]
             /\ removed' = removed \cup {f.msg : f \in {g \in files[r] : g.id = i}}
          \/ UNCHANGED <<files, removed>>
    BY <1>5, <2>1 DEF UnlinkNext
  <2>3. dirs' = dirs
    BY <1>5 DEF UnlinkNext
  <2>4. CASE UNCHANGED <<files, removed>>
    BY <2>3, <2>4
  <2>5. CASE /\ files' = [files EXCEPT ![r] = @ \ {f \in files[r] : f.id = i}]
             /\ removed' = removed \cup {f.msg : f \in {g \in files[r] : g.id = i}}
    <3>1. q # r => files'[q] = files[q]
      BY <2>5 DEF TypeOK
    <3>2. q = r => h \in files'[q] \/ h.msg \in removed'
      BY <2>5 DEF TypeOK
    <3>3. QED
      BY <2>3, <2>5, <3>1, <3>2
  <2>6. QED
    BY <2>2, <2>4, <2>5
<1>6. ASSUME NEW t \in Thread, RemoveDir(t)
      PROVE  removed' = removed /\ q \in dirs' /\ h \in files'[q]
  BY <1>6 DEF RemoveDir
<1>7. ASSUME NEW t \in Thread, AddQueue(t)
      PROVE  removed' = removed /\ q \in dirs' /\ h \in files'[q]
  BY <1>7 DEF AddQueue
<1>8. CASE \/ UNCHANGED vars
           \/ Die \/ Startup \/ Crash
           \/ \E t \in Thread :
                \/ \E r \in Request : Accept(t, r)
                \/ Lock(t) \/ Dispatch(t) \/ DispatchOther(t) \/ Unlock(t) \/ Send(t)
                \/ Produce(t) \/ Consume(t) \/ RemoveQueue(t) \/ Read(t)
  BY <1>1, <1>8 DEF vars, Die, Startup, Start, LoadQueue, Listen, LoadFails, Crash, Accept, Lock,
                    Dispatch, DispatchOther, Unlock, Send, Produce, Consume, RemoveQueue, Read
<1>9. QED
  BY <1>2, <1>3, <1>4, <1>5, <1>6, <1>7, <1>8 DEF Next, Handle

LEMMA RemovedGrows == ASSUME [Next]_vars PROVE removed \subseteq removed'
<1>1. CASE UNCHANGED vars \/ Die \/ Startup \/ Crash
  BY <1>1 DEF vars, Die, Startup, Start, LoadQueue, Listen, LoadFails, Crash
<1>2. ASSUME NEW t \in Thread, ~Die, (\E r \in Request : Accept(t, r)) \/ Handle(t)
      PROVE  removed \subseteq removed'
  BY <1>2 DEF Handle, Accept, Lock, Dispatch, DispatchOther, Unlock, Send, Produce, QueueAdd,
              WriteNode, Consume, QueuePoll, AddQueue, RemoveQueue, UnlinkNext, RemoveDir, Read
<1>3. QED
  BY <1>1, <1>2 DEF Next

LEMMA SafeStays ==
  ASSUME StoreInv, [Next]_vars, NEW m, Safe(m) PROVE Safe(m)'
<1>1. CASE m \in removed
  BY <1>1, RemovedGrows DEF Safe
<1>2. CASE Stored(m)
  <2>1. PICK q \in dirs : \E f \in files[q] : f.msg = m /\ f.whole
    BY <1>2 DEF Stored
  <2>2. PICK f \in files[q] : f.msg = m /\ f.whole
    BY <2>1
  <2>3. \/ f.msg \in removed'
        \/ q \in dirs' /\ \E g \in files'[q] : g.msg = f.msg /\ g.whole
    BY <2>2, WholeFileStays
  <2>4. QED
    BY <2>2, <2>3 DEF Safe, Stored
<1>3. QED
  BY <1>1, <1>2 DEF Safe

\* The file is whole when the node is linked, so that success is answered for what is stored.
LEMMA WriteNodeStored ==
  ASSUME StoreInv, "write" \notin Faults, NEW t \in Thread, WriteNode(t)
  PROVE  Stored(node[t].msg)'
<1> USE DEF StoreInv
<1>1. pc[t] = "WriteNode"
  BY DEF WriteNode
<1>2. PICK q \in QueueName : q = req[t].queueName /\ q \in dirs
  BY <1>1, Alone, CriticalSteps DEF IndInv, Serving, TypeOK
<1>3. \E f \in files[q] : f.msg = node[t].msg
  BY <1>1, <1>2 DEF Linking
<1>4. \E g \in files'[q] : g.msg = node[t].msg /\ g.whole
  BY <1>2, <1>3, FileWritten
<1>5. UNCHANGED <<dirs, node>>
  BY DEF WriteNode
<1>6. QED
  BY <1>2, <1>4, <1>5 DEF Stored

\* A success of a produce that t is about to send is new only when its node was linked.
LEMMA NewSuccess ==
  ASSUME TypeOK, Working, "fopen" \notin Faults, NEW t \in Thread, ~Die,
         (\E r \in Request : Accept(t, r)) \/ Handle(t),
         pc'[t] \in {"unlock", "send"}, req'[t].type = "produce", res'[t].ok
  PROVE  /\ node'[t] = node[t]
         /\ \/ WriteNode(t)
            \/ pc[t] \in {"unlock", "send"} /\ req[t].type = "produce" /\ res[t].ok
<1>1. CASE (\E r \in Request : Accept(t, r)) \/ Lock(t) \/ Send(t) \/ Produce(t)
  BY <1>1 DEF Accept, Lock, Send, Produce, TypeOK
<1>2. CASE Dispatch(t) \/ DispatchOther(t)
  BY <1>2 DEF Dispatch, DispatchOther, TypeOK, Operations, Failed
<1>3. CASE QueueAdd(t)
  BY <1>3 DEF QueueAdd, TypeOK
<1>4. CASE Unlock(t)
  BY <1>4 DEF Unlock, TypeOK
<1>5. CASE Consume(t) \/ QueuePoll(t) \/ AddQueue(t) \/ RemoveQueue(t)
  BY <1>5 DEF Working, Consume, QueuePoll, AddQueue, RemoveQueue, Operations, TypeOK
<1>6. CASE UnlinkNext(t) \/ RemoveDir(t) \/ Read(t)
  BY <1>6 DEF Working, UnlinkNext, RemoveDir, Read, Length, Get, GetAll, GetAllQueueNames,
              Operations, TypeOK
<1>7. CASE WriteNode(t)
  BY <1>7 DEF WriteNode
<1>8. QED
  BY <1>1, <1>2, <1>3, <1>4, <1>5, <1>6, <1>7 DEF Handle

\* What is acknowledged was a success on its way.
LEMMA NewlyAcked ==
  ASSUME TypeOK, [Next]_vars, NEW m \in acked'
  PROVE  \/ m \in acked
         \/ \E t \in Thread : /\ pc[t] = "send" /\ req[t].type = "produce" /\ res[t].ok
                              /\ m = node[t].msg
<1>1. CASE UNCHANGED vars \/ Die \/ Startup \/ Crash
  BY <1>1 DEF vars, Die, Startup, Start, LoadQueue, Listen, LoadFails, Crash
<1>2. ASSUME NEW t \in Thread, ~Die, Send(t)
      PROVE  m \in acked \/ (/\ pc[t] = "send" /\ req[t].type = "produce" /\ res[t].ok
                            /\ m = node[t].msg)
  BY <1>2 DEF Send
<1>3. ASSUME NEW t \in Thread, ~Die, ~Send(t), (\E r \in Request : Accept(t, r)) \/ Handle(t)
      PROVE  acked' = acked
  BY <1>3 DEF Handle, Accept, Lock, Dispatch, DispatchOther, Unlock, Produce, QueueAdd,
              WriteNode, Consume, QueuePoll, AddQueue, RemoveQueue, UnlinkNext, RemoveDir, Read
<1>4. QED
  BY <1>1, <1>2, <1>3 DEF Next

LEMMA AckStep ==
  ASSUME StoreInv, AckInv, "fopen" \notin Faults, "write" \notin Faults, [Next]_vars
  PROVE  AckInv'
<1> DEFINE onItsWay(t) == pc[t] \in {"unlock", "send"} /\ req[t].type = "produce" /\ res[t].ok
<1>1. Working'
  BY WorkingStep DEF StoreInv, AckInv
<1>2. \A m : Safe(m) => Safe(m)'
  BY SafeStays
<1>3. /\ \A m \in acked : Safe(m)
      /\ \A t \in Thread : onItsWay(t) => Safe(node[t].msg)
  BY DEF AckInv, AckedStored, Safe
<1>4. ASSUME NEW m \in acked' PROVE Safe(m)'
  <2>1. Safe(m)
    BY <1>3, NewlyAcked DEF StoreInv
  <2>2. QED
    BY <1>2, <2>1
<1>5. ASSUME NEW t \in Thread, onItsWay(t)' PROVE Safe(node[t].msg)'
  <2>1. PICK m : m = node[t].msg'
    OBVIOUS
  <2>2. ~Die
    BY <1>5 DEF Die
  <2>3. CASE UNCHANGED vars \/ Startup \/ Crash
    <3>1. UNCHANGED <<pc, req, res, node>>
      BY <2>2, <2>3 DEF vars, process, Startup, Start, LoadQueue, Listen, LoadFails, Crash
    <3>2. Safe(m)'
      BY <1>2, <1>3, <1>5, <2>1, <3>1
    <3>3. QED
      BY <2>1, <3>2 DEF Safe, Stored
  <2>4. ASSUME NEW u \in Thread, (\E r \in Request : Accept(u, r)) \/ Handle(u)
        PROVE  Safe(node[t].msg)'
    <3>1. CASE t # u
      <4>1. UNCHANGED <<pc[t], req[t], res[t], node[t]>>
        BY <2>2, <2>4, <3>1, OneThread DEF StoreInv
      <4>2. Safe(m)'
        BY <1>2, <1>3, <1>5, <2>1, <4>1
      <4>3. QED
        BY <2>1, <4>2 DEF Safe, Stored
    <3>2. CASE t = u
      <4>1. node'[t] = node[t] /\ (WriteNode(t) \/ onItsWay(t))
        BY <1>5, <2>2, <2>4, <3>2, NewSuccess DEF AckInv, StoreInv
      <4>2. CASE WriteNode(t)
        <5>1. Stored(node[t].msg)'
          BY <4>2, WriteNodeStored
        <5>2. QED
          BY <5>1 DEF Safe
      <4>3. CASE onItsWay(t)
        <5>1. Safe(m)'
          BY <1>2, <1>3, <2>1, <4>1, <4>3
        <5>2. QED
          BY <2>1, <5>1 DEF Safe, Stored
      <4>4. QED
        BY <4>1, <4>2, <4>3
    <3>3. QED
      BY <3>1, <3>2
  <2>5. QED
    BY <2>3, <2>4 DEF Next
<1>6. AckedStored'
  BY <1>4 DEF AckedStored, Safe
<1>7. QED
  BY <1>1, <1>5, <1>6 DEF AckInv, Safe

\* When neither fopen, the write nor rmdir fails, a message whose produce was answered with
\* success is on disk in full until it is consumed or goes with its queue, wherever the
\* process stops (create_node_file, Queue_add, Queue_poll, persist_remove_queue).
THEOREM AckedAreStored ==
  ASSUME "fopen" \notin Faults, "write" \notin Faults, "rmdir" \notin Faults
  PROVE  Spec => []AckedStored
<1>1. Init => AckInv
  BY DEF Init, AckInv, Working, AckedStored, Operations
<1>2. StoreInv /\ AckInv /\ [Next]_vars => AckInv'
  BY AckStep
<1>3. AckInv => AckedStored
  BY DEF AckInv
<1>4. QED
  BY <1>1, <1>2, <1>3, StoreInductive, PTL DEF Spec

-----------------------------------------------------------------------------
(* A message that was confirmed is in its queue                             *)

LEMMA QueuedStep ==
  ASSUME TypeOK, IndInv, Working, ProducedIsQueued, "fopen" \notin Faults, [Next]_vars
  PROVE  ProducedIsQueued'
<1> DEFINE confirms(t) == pc[t] = "unlock" /\ req[t].type = "produce" /\ res[t].ok
<1> SUFFICES ASSUME NEW t \in Thread, confirms(t)'
             PROVE  (\E f \in NodesOf(req[t].queueName) : f.msg = node[t].msg)'
  BY DEF ProducedIsQueued
<1>1. ~Die
  BY DEF Die
<1>2. CASE confirms(t) /\ UNCHANGED <<nodes, req[t], node[t]>>
  BY <1>2 DEF ProducedIsQueued, NodesOf
<1>3. CASE UNCHANGED vars \/ Startup \/ Crash
  <2>1. UNCHANGED <<pc, req, res, node>> /\ (UNCHANGED nodes \/ status = "loading")
    BY <1>1, <1>3 DEF vars, process, Startup, Start, LoadQueue, Listen, LoadFails, Crash
  <2>2. status = "up"
    BY <2>1, Alone, CriticalSteps
  <2>3. QED
    BY <1>2, <2>1, <2>2
<1>4. ASSUME NEW u \in Thread \ {t}, (\E r \in Request : Accept(u, r)) \/ Handle(u)
      PROVE  (\E f \in NodesOf(req[t].queueName) : f.msg = node[t].msg)'
  <2>1. UNCHANGED <<pc[t], req[t], res[t], node[t]>>
    BY <1>1, <1>4, OneThread
  <2>2. pc[u] \notin Critical
    BY <2>1, Alone, CriticalSteps
  <2>3. (\E r \in Request : Accept(u, r)) \/ Lock(u) \/ Send(u)
    BY <1>4, <2>2, CriticalSteps
       DEF Handle, Dispatch, DispatchOther, Unlock, Produce, QueueAdd, WriteNode, Consume,
           QueuePoll, AddQueue, RemoveQueue, UnlinkNext, RemoveDir, Read, Length, Get, GetAll,
           GetAllQueueNames, Operations
  <2>4. UNCHANGED nodes
    BY <1>1, <2>3 DEF Accept, Lock, Send
  <2>5. QED
    BY <1>2, <2>1, <2>4
<1>5. ASSUME (\E r \in Request : Accept(t, r)) \/ Handle(t)
      PROVE  (\E f \in NodesOf(req[t].queueName) : f.msg = node[t].msg)'
  <2>1. node'[t] = node[t] /\ (WriteNode(t) \/ pc[t] \in {"unlock", "send"})
    BY <1>1, <1>5, NewSuccess
  <2>2. pc[t] \notin {"unlock", "send"}
    <3>1. ASSUME pc[t] \in {"unlock", "send"} PROVE Unlock(t) \/ Send(t)
      BY <1>5, <3>1
         DEF Handle, Accept, Lock, Dispatch, DispatchOther, Produce, QueueAdd, WriteNode, Consume,
             QueuePoll, AddQueue, RemoveQueue, UnlinkNext, RemoveDir, Read, Length, Get, GetAll,
             GetAllQueueNames
    <3>2. QED
      BY <1>1, <3>1 DEF Unlock, Send, TypeOK
  <2>3. PICK q \in QueueName : q = req[t].queueName
    <3>1. pc[t] = "WriteNode" /\ pool \subseteq QueueName
      BY <2>1, <2>2 DEF WriteNode, TypeOK
    <3>2. req[t].queueName \in pool
      BY <3>1 DEF IndInv, Serving
    <3>3. QED
      BY <3>1, <3>2
  <2>4. /\ nodes' = [nodes EXCEPT ![q] = Append(@, node[t])] /\ UNCHANGED req
        /\ node[t] \in Node
    <3>1. WriteNode(t) /\ node[t] \in Node
      BY <2>1, <2>2 DEF TypeOK
    <3>2. QED
      BY <2>3, <3>1 DEF WriteNode
  <2>5. NodesOf(q)' = NodesOf(q) \cup {node[t]}
    BY <2>4, Appended
  <2>6. QED
    BY <2>1, <2>3, <2>4, <2>5
<1>6. QED
  BY <1>3, <1>4, <1>5 DEF Next

\* A failed fopen is the only way to a "Message produced." for a message that is not in its
\* queue: whatever else fails and wherever the process stops, produce confirms what it has
\* linked (broker.c: produce, queue.c: Queue_add).
THEOREM ConfirmedIsQueued ==
  ASSUME "fopen" \notin Faults PROVE Spec => []ProducedIsQueued
<1>1. Init => Working /\ ProducedIsQueued
  BY DEF Init, Working, Operations, ProducedIsQueued
<1>2. TypeOK /\ IndInv /\ Working /\ ProducedIsQueued /\ [Next]_vars =>
        Working' /\ ProducedIsQueued'
  BY WorkingStep, QueuedStep
<1>3. QED
  BY <1>1, <1>2, Inductive, PTL DEF Spec

-----------------------------------------------------------------------------
(* Memory is what is on disk                                                *)

\* While no removal is under way every node has its file.
LEMMA Settled ==
  ASSUME MemoryInv, NEW q \in pool, \A u \in Thread : pc[u] # "UnlinkNext"
  PROVE  \A g \in NodesOf(q) : Filed(q, g)
  BY DEF MemoryInv

\* A step that takes no file away and adds no node, while no removal is under way.
LEMMA QuietMemory ==
  ASSUME MemoryInv, Working', pool' \subseteq pool,
         \A q \in pool : NodesOf(q)' \subseteq NodesOf(q) /\ files[q] \subseteq files'[q],
         \A u \in Thread : pc[u] # "UnlinkNext"
  PROVE  MemoryInv'
<1>1. ASSUME NEW q \in pool', NEW g \in NodesOf(q)' PROVE Filed(q, g)'
  <2>1. q \in pool /\ Filed(q, g)
    BY <1>1, Settled
  <2>2. QED
    BY <2>1 DEF Filed
<1>2. QED
  BY <1>1 DEF MemoryInv

\* Loading a queue makes a node of each of its files.
LEMMA LoadedNodes ==
  ASSUME StoreInv, NEW q \in QueueName, LoadQueue(q)
  PROVE  NodesOf(q)' = files[q] /\ \A p \in QueueName \ {q} : NodesOf(p)' = NodesOf(p)
<1>1. PICK ns \in Sorted(files[q]) : nodes' = [nodes EXCEPT ![q] = ns]
  BY DEF LoadQueue
<1>2. /\ \A k \in DOMAIN ns : ns[k] \in files[q]
      /\ \A f \in files[q] : \E k \in DOMAIN ns : ns[k] = f
  BY DEF Sorted
<1>3. nodes'[q] = ns /\ \A p \in QueueName \ {q} : nodes'[p] = nodes[p]
  BY <1>1 DEF StoreInv, TypeOK
<1>4. QED
  BY <1>2, <1>3 DEF NodesOf

LEMMA LoadMemory ==
  ASSUME StoreInv, MemoryInv, Working', NEW q \in QueueName, LoadQueue(q) PROVE MemoryInv'
<1> USE DEF StoreInv
<1>1. \A u \in Thread : pc[u] # "UnlinkNext"
  BY DEF LoadQueue, IndInv, Locking
<1>2. NodesOf(q)' = files[q] /\ \A p \in QueueName \ {q} : NodesOf(p)' = NodesOf(p)
  BY LoadedNodes
<1>3. pool' = pool \cup {q} /\ files' = files /\ pool \subseteq QueueName
  BY DEF LoadQueue, TypeOK
<1>4. ASSUME NEW p \in pool', NEW g \in NodesOf(p)' PROVE Filed(p, g)'
  <2>1. CASE p = q
    BY <1>2, <1>3, <1>4, <2>1 DEF Filed
  <2>2. CASE p # q
    <3>1. p \in pool /\ g \in NodesOf(p)
      BY <1>2, <1>3, <1>4, <2>2
    <3>2. Filed(p, g)
      BY <1>1, <3>1, Settled
    <3>3. QED
      BY <1>3, <3>2 DEF Filed
  <2>3. QED
    BY <2>1, <2>2
<1>5. QED
  BY <1>4 DEF MemoryInv

LEMMA WriteNodeMemory ==
  ASSUME StoreInv, MemoryInv, Working', NEW t \in Thread, WriteNode(t) PROVE MemoryInv'
<1> USE DEF StoreInv
<1>1. pc[t] = "WriteNode" /\ pc[t] \in Critical
  BY CriticalSteps DEF WriteNode
<1>2. PICK q \in QueueName : q = req[t].queueName /\ q \in pool
  BY <1>1 DEF IndInv, Serving, TypeOK
<1>3. \A u \in Thread : pc[u] # "UnlinkNext"
  BY <1>1, Alone, CriticalSteps
<1>4. /\ \A p \in QueueName \ {q} : files'[p] = files[p]
      /\ \A f \in files[q] : \E g \in files'[q] : g.id = f.id /\ g.msg = f.msg
  BY <1>2, FileWritten
<1>5. /\ nodes' = [nodes EXCEPT ![q] = Append(@, node[t])] /\ pool' = pool
      /\ node[t] \in Node /\ pool \subseteq QueueName
  BY <1>2 DEF WriteNode, TypeOK
<1>6. NodesOf(q)' = NodesOf(q) \cup {node[t]} /\ \A p \in QueueName \ {q} : NodesOf(p)' = NodesOf(p)
  BY <1>5, Appended
<1>7. Filed(q, node[t])
  BY <1>1, <1>2 DEF Linking, Filed
<1>8. ASSUME NEW p \in pool', NEW g \in NodesOf(p)' PROVE Filed(p, g)'
  <2>1. p \in pool /\ p \in QueueName
    BY <1>5
  <2>2. (g = node[t] /\ p = q) \/ g \in NodesOf(p)
    BY <1>6, <1>8, <2>1
  <2>3. Filed(p, g)
    BY <1>3, <1>7, <2>1, <2>2, Settled
  <2>4. QED
    BY <1>4, <2>1, <2>3 DEF Filed
<1>9. QED
  BY <1>8 DEF MemoryInv

LEMMA QueuePollMemory ==
  ASSUME StoreInv, MemoryInv, Working', NEW t \in Thread, QueuePoll(t), ~Die PROVE MemoryInv'
<1> USE DEF StoreInv
<1>1. pc[t] = "QueuePoll" /\ pc[t] \in Critical
  BY CriticalSteps DEF QueuePoll
<1>2. PICK q \in QueueName : q = req[t].queueName
  BY <1>1 DEF IndInv, Serving, TypeOK
<1>3. \A u \in Thread : pc[u] # "UnlinkNext"
  BY <1>1, Alone, CriticalSteps
<1>4. /\ files' = [files EXCEPT ![q] = @ \ {g \in files[q] : g.id = node[t].id}]
      /\ nodes' = [nodes EXCEPT ![q] = Tail(@)]
      /\ pool' = pool
  BY <1>2 DEF QueuePoll
<1>5. /\ q \in pool /\ nodes[q] # <<>> /\ node[t] = Head(nodes[q])
      /\ \A h \in NodesOf(q) : h = node[t] \/ node[t].id < h.id
  BY <1>1, <1>2, HeadFile
<1>6. /\ NodesOf(q)' \subseteq NodesOf(q) /\ node[t] \notin NodesOf(q)'
      /\ \A p \in QueueName \ {q} : NodesOf(p)' = NodesOf(p)
  <2>1. PICK n \in Nat :
          /\ DOMAIN nodes[q] = 1 .. n + 1 /\ DOMAIN nodes'[q] = 1 .. n
          /\ nodes[q][1] = node[t]
          /\ \A k \in 1 .. n : /\ nodes'[q][k] = nodes[q][k + 1]
                              /\ k + 1 \in 1 .. n + 1 /\ 1 < k + 1
          /\ 1 \in 1 .. n + 1
          /\ NodesOf(q) = NodesOf(q)' \cup {node[t]}
          /\ \A p \in QueueName \ {q} : nodes'[p] = nodes[p] /\ NodesOf(p)' = NodesOf(p)
    BY <1>4, <1>5, Tailed
  <2>2. ASSUME NEW k \in 1 .. n PROVE nodes'[q][k] # node[t]
    <3>1. nodes[q][1].id < nodes[q][k + 1].id
      BY <2>1 DEF IdsAscend
    <3>2. node[t].id < nodes'[q][k].id
      BY <2>1, <3>1
    <3>3. node[t].id \in Nat
      BY NodeTypes DEF TypeOK
    <3>4. QED
      BY <3>2, <3>3
  <2>3. node[t] \notin NodesOf(q)'
    BY <2>1, <2>2 DEF NodesOf
  <2>4. QED
    BY <2>1, <2>3
<1>7. ASSUME NEW p \in pool', NEW g \in NodesOf(p)' PROVE Filed(p, g)'
  <2>1. p \in pool /\ p \in QueueName /\ g \in NodesOf(p)
    BY <1>4, <1>6, <1>7 DEF TypeOK
  <2>2. PICK f \in files[p] : f.id = g.id /\ f.msg = g.msg
    BY <1>3, <2>1, Settled DEF Filed
  <2>3. CASE p # q
    BY <1>4, <2>1, <2>2, <2>3 DEF Filed, TypeOK
  <2>4. CASE p = q
    <3>1. g # node[t] /\ node[t].id < g.id /\ node[t].id \in Nat
      BY <1>5, <1>6, <1>7, <2>1, <2>4, NodeTypes DEF TypeOK
    <3>2. f \in files'[q]
      BY <1>4, <2>2, <2>4, <3>1 DEF TypeOK
    <3>3. QED
      BY <2>2, <2>4, <3>2 DEF Filed
  <2>5. QED
    BY <2>3, <2>4
<1>8. QED
  BY <1>7 DEF MemoryInv

LEMMA UnlinkNextMemory ==
  ASSUME StoreInv, MemoryInv, Working', "unlink" \notin Faults, NEW t \in Thread, UnlinkNext(t)
  PROVE  MemoryInv'
<1>1. pc[t] = "UnlinkNext" /\ pc[t] \in Critical
  BY CriticalSteps DEF UnlinkNext
<1>2. PICK q \in QueueName : q = req[t].queueName
  BY <1>1 DEF StoreInv, IndInv, Serving, TypeOK
<1>3. PICK i \in todo[t] :
        /\ \A j \in todo[t] : i <= j
        /\ \/ /\ files' = [files EXCEPT ![q] = @ \ {g \in files[q] : g.id = i}]
              /\ todo' = [todo EXCEPT ![t] = @ \ {i}]
              /\ UNCHANGED pc
           \/ {g \in files[q] : g.id = i} = {}
  BY <1>2 DEF UnlinkNext
<1>4. UNCHANGED <<pool, nodes, req>> /\ \A p \in QueueName : NodesOf(p)' = NodesOf(p)
  BY DEF UnlinkNext, NodesOf
<1>5. PICK f \in files[q] : UnlinksNext(t, q, i, f)
  <2>1. \A j \in todo[t] : i <= j
    BY <1>3
  <2>2. pc[t] = "UnlinkNext" /\ q = req[t].queueName
    BY <1>1, <1>2
  <2>3. QED
    BY <2>1, <2>2, NextUnlinked
<1>6. /\ files' = [files EXCEPT ![q] = @ \ {g \in files[q] : g.id = i}]
      /\ todo' = [todo EXCEPT ![t] = @ \ {i}]
      /\ UNCHANGED pc
  BY <1>3, <1>5 DEF UnlinksNext
<1>7. /\ files'[q] = files[q] \ {f} /\ \A p \in QueueName \ {q} : files'[p] = files[p]
      /\ todo'[t] = Ids(files'[q])
  BY <1>5, <1>6 DEF StoreInv, TypeOK, UnlinksNext
<1>8. \A u \in Thread \ {t} : pc[u] # "UnlinkNext"
  BY <1>1, Alone, CriticalSteps DEF StoreInv
<1>9. ASSUME NEW p \in pool' \ {q}, NEW g \in NodesOf(p)' PROVE Filed(p, g)'
  <2>1. p \in pool /\ p \in QueueName /\ g \in NodesOf(p) /\ p # req[t].queueName
    BY <1>2, <1>4, <1>9 DEF StoreInv, TypeOK
  <2>2. Filed(p, g)
    BY <1>8, <2>1 DEF MemoryInv
  <2>3. QED
    BY <1>7, <1>9, <2>1, <2>2 DEF Filed
<1>10. pc'[t] = "UnlinkNext" /\ req'[t].queueName = q /\ todo'[t] = Ids(files[q])'
  BY <1>1, <1>2, <1>4, <1>6, <1>7 DEF Ids
<1>11. QED
  BY <1>9, <1>10 DEF MemoryInv

LEMMA RemoveDirMemory ==
  ASSUME StoreInv, MemoryInv, Working', "rmdir" \notin Faults, NEW t \in Thread, RemoveDir(t)
  PROVE  MemoryInv'
<1> USE DEF StoreInv
<1>1. pc[t] = "UnlinkNext" /\ pc[t] \in Critical /\ todo[t] = {} /\ files' = files
  BY CriticalSteps DEF RemoveDir
<1>2. PICK q \in QueueName : q = req[t].queueName
  BY <1>1 DEF IndInv, Serving, TypeOK
<1>3. \A u \in Thread \ {t} : pc[u] # "UnlinkNext"
  BY <1>1, Alone, CriticalSteps
<1>4. /\ files[q] # {} => UNCHANGED <<pool, nodes>>
      /\ files[q] = {} => pool' = pool \ {q} /\ nodes' = [nodes EXCEPT ![q] = <<>>]
  BY <1>2 DEF RemoveDir
<1>5. \A p \in QueueName \ {q} : NodesOf(p)' = NodesOf(p)
  BY <1>4 DEF NodesOf, TypeOK
<1>6. ASSUME NEW p \in pool', NEW g \in NodesOf(p)' PROVE Filed(p, g)'
  <2>1. CASE p # q
    <3>1. p \in pool /\ g \in NodesOf(p) /\ p # req[t].queueName
      BY <1>2, <1>4, <1>5, <1>6, <2>1 DEF TypeOK
    <3>2. Filed(p, g)
      BY <1>3, <3>1 DEF MemoryInv
    <3>3. QED
      BY <1>1, <3>2 DEF Filed
  <2>2. CASE p = q
    <3>1. files[q] # {} /\ q \in pool /\ g \in NodesOf(q)
      BY <1>4, <1>6, <2>2 DEF NodesOf
    <3>2. todo[t] # Ids(files[q])
      BY <1>1, <3>1 DEF Ids
    <3>3. Filed(q, g)
      BY <1>3, <3>1, <3>2 DEF MemoryInv
    <3>4. QED
      BY <1>1, <2>2, <3>3 DEF Filed
  <2>3. QED
    BY <2>1, <2>2
<1>7. QED
  BY <1>6 DEF MemoryInv

\* An added queue is empty, in memory and on disk.
LEMMA AddedNodes ==
  ASSUME StoreInv, NEW t \in Thread, AddQueue(t)
  PROVE  /\ files' = files /\ dirs \subseteq dirs'
         /\ \A p \in pool' : /\ NodesOf(p)' = NodesOf(p)
                             /\ p \notin pool => files[p] = {} /\ NodesOf(p) = {}
         /\ \A u \in Thread : pc[u] \notin {"WriteNode", "UnlinkNext"}
<1> USE DEF StoreInv
<1>1. pc[t] = "addQueue" /\ pc[t] \in Critical /\ files' = files
  BY CriticalSteps DEF AddQueue, Operations
<1>2. PICK q \in QueueName : q = req[t].data
  BY <1>1 DEF IndInv, Serving
<1>3. \A u \in Thread : pc[u] \notin {"WriteNode", "UnlinkNext"}
  BY <1>1, Alone, CriticalSteps
<1>4. CASE UNCHANGED <<pool, nodes, dirs>>
  BY <1>1, <1>3, <1>4 DEF NodesOf
<1>5. CASE /\ q \notin pool /\ pool' = pool \cup {q} /\ nodes' = [nodes EXCEPT ![q] = <<>>]
           /\ dirs \subseteq dirs'
  <2>1. files[q] = {} /\ nodes[q] = <<>> /\ nodes' = nodes
    BY <1>1, <1>5, Alone DEF IndInv, Pooling, TypeOK
  <2>2. NodesOf(q) = {} /\ \A p : NodesOf(p)' = NodesOf(p)
    BY <2>1 DEF NodesOf
  <2>3. QED
    BY <1>1, <1>3, <1>5, <2>1, <2>2
<1>6. QED
  BY <1>2, <1>4, <1>5 DEF AddQueue

LEMMA AddQueueMemory ==
  ASSUME StoreInv, MemoryInv, Working', NEW t \in Thread, AddQueue(t) PROVE MemoryInv'
<1>1. /\ files' = files
      /\ \A p \in pool' : /\ NodesOf(p)' = NodesOf(p)
                          /\ p \notin pool => NodesOf(p) = {}
      /\ \A u \in Thread : pc[u] # "UnlinkNext"
  BY AddedNodes
<1>2. ASSUME NEW p \in pool', NEW g \in NodesOf(p)' PROVE Filed(p, g)'
  <2>1. p \in pool /\ g \in NodesOf(p)
    BY <1>1, <1>2
  <2>2. Filed(p, g)
    BY <1>1, <2>1, Settled
  <2>3. QED
    BY <1>1, <2>2 DEF Filed
<1>3. QED
  BY <1>2 DEF MemoryInv

LEMMA MemoryStep ==
  ASSUME StoreInv, MemoryInv, "unlink" \notin Faults, "rmdir" \notin Faults, [Next]_vars
  PROVE  MemoryInv'
<1>1. Working'
  BY WorkingStep DEF StoreInv, MemoryInv
<1>2. CASE UNCHANGED vars
  BY <1>2 DEF vars, process, MemoryInv, Working, NodesOf, Ids, Filed
<1>3. CASE Die
  BY <1>1, <1>3 DEF Die, MemoryInv
<1>4. CASE Startup /\ ~Die
  <2>1. CASE Start \/ Listen
    <3>1. \A u \in Thread : pc[u] # "UnlinkNext"
      BY <2>1 DEF Start, Listen, StoreInv, IndInv, Locking
    <3>2. QED
      BY <1>1, <2>1, <3>1, QuietMemory DEF Start, Listen, NodesOf
  <2>2. QED
    BY <1>1, <1>4, <2>1, LoadMemory DEF Startup, LoadFails
<1>5. ASSUME NEW t \in Thread, ~Die,
             \/ \E r \in Request : Accept(t, r)
             \/ Lock(t) \/ Dispatch(t) \/ DispatchOther(t) \/ Unlock(t) \/ Send(t)
             \/ Produce(t) \/ Consume(t) \/ RemoveQueue(t) \/ Read(t)
      PROVE  MemoryInv'
  <2>1. UNCHANGED <<nodes, files, pool>>
    BY <1>5 DEF Accept, Lock, Dispatch, DispatchOther, Unlock, Send, Produce, Consume,
                RemoveQueue, Read
  <2>2. pc[t] # "UnlinkNext"
    BY <1>5 DEF Accept, Lock, Dispatch, DispatchOther, Unlock, Send, Produce, Consume,
                RemoveQueue, Read, Length, Get, GetAll, GetAllQueueNames
  <2>3. CASE \A u \in Thread : pc[u] # "UnlinkNext"
    BY <1>1, <2>1, <2>3, QuietMemory DEF NodesOf
  <2>4. CASE \E u \in Thread : pc[u] = "UnlinkNext"
    <3>1. PICK u \in Thread : pc[u] = "UnlinkNext"
      BY <2>4
    <3>2. \A v \in Thread \ {u} : pc[v] # "UnlinkNext"
      BY <3>1, Alone, CriticalSteps DEF StoreInv
    <3>3. UNCHANGED <<pc[u], req[u], todo[u]>>
      BY <1>5, <2>2, <3>1, OneThread DEF Handle, StoreInv
    <3>4. \A q : NodesOf(q)' = NodesOf(q) /\ Ids(files[q])' = Ids(files[q])
      BY <2>1 DEF NodesOf, Ids
    <3>5. \A q, g : Filed(q, g)' = Filed(q, g)
      BY <2>1 DEF Filed
    <3>6. QED
      BY <1>1, <2>1, <3>1, <3>2, <3>3, <3>4, <3>5 DEF MemoryInv
  <2>5. QED
    BY <2>3, <2>4
<1>6. ASSUME NEW t \in Thread, QueueAdd(t), ~Die PROVE MemoryInv'
  <2>1. \A u \in Thread : pc[u] # "UnlinkNext"
    BY <1>6, Alone, CriticalSteps DEF QueueAdd, StoreInv
  <2>2. \A q \in pool : NodesOf(q)' \subseteq NodesOf(q) /\ files[q] \subseteq files'[q]
    BY <1>6, FilesStay DEF QueueAdd, NodesOf, StoreInv, TypeOK
  <2>3. pool' \subseteq pool
    BY <1>6 DEF QueueAdd
  <2>4. QED
    BY <1>1, <2>1, <2>2, <2>3, QuietMemory
<1>7. ASSUME NEW t \in Thread, ~Die,
             WriteNode(t) \/ QueuePoll(t) \/ AddQueue(t) \/ UnlinkNext(t) \/ RemoveDir(t)
      PROVE  MemoryInv'
  BY <1>1, <1>7, WriteNodeMemory, QueuePollMemory, AddQueueMemory, UnlinkNextMemory,
     RemoveDirMemory
<1>8. QED
  BY <1>2, <1>3, <1>4, <1>5, <1>6, <1>7 DEF Next, Handle, Crash

-----------------------------------------------------------------------------
(* What is in a file is what is in its node                                 *)

\* A step with no new node and no new file.
LEMMA LessIsWhole ==
  ASSUME WholeInv, pool' \subseteq pool,
         \A q \in pool : NodesOf(q)' \subseteq NodesOf(q) /\ files'[q] \subseteq files[q]
  PROVE  WholeInv'
  BY DEF WholeInv

LEMMA LoadWhole ==
  ASSUME StoreInv, WholeInv, NEW q \in QueueName, LoadQueue(q) PROVE WholeInv'
<1> USE DEF StoreInv
<1>1. NodesOf(q)' = files[q] /\ \A p \in QueueName \ {q} : NodesOf(p)' = NodesOf(p)
  BY LoadedNodes
<1>2. pool' = pool \cup {q} /\ files' = files /\ pool \subseteq QueueName
  BY DEF LoadQueue, TypeOK
<1>3. \A f, g \in files[q] : f.id = g.id => f = g
  BY DEF IndInv, FilesOrdered
<1>4. QED
  BY <1>1, <1>2, <1>3 DEF WholeInv

LEMMA QueueAddWhole ==
  ASSUME StoreInv, StoreInv', WholeInv, NEW t \in Thread, QueueAdd(t), ~Die PROVE WholeInv'
<1>1. pc[t] = "QueueAdd"
  BY DEF QueueAdd
<1>2. PICK q \in QueueName : q = req[t].queueName
  BY <1>1 DEF StoreInv, IndInv, Serving, TypeOK
<1>3. UNCHANGED <<pool, nodes, node, req>> /\ \A p : NodesOf(p)' = NodesOf(p)
  BY DEF QueueAdd, NodesOf
<1>4. CASE UNCHANGED files
  BY <1>3, <1>4, LessIsWhole
<1>5. CASE /\ pc' = [pc EXCEPT ![t] = "WriteNode"]
           /\ \E i \in NextIds(files[q]) :
                files' = [files EXCEPT ![q] = {f \in @ : f.id # i}
                            \cup {[id |-> i, msg |-> node[t].msg, whole |-> FALSE]}]
  <2>1. /\ files'[q] = files[q] \cup {[id |-> node[t].id, msg |-> serial, whole |-> FALSE]}
        /\ \A p \in QueueName \ {q} : files'[p] = files[p]
    BY <1>1, <1>2, <1>5, FileAdded DEF StoreInv
  <2>2. \A g \in NodesOf(q) : g.id < node[t].id /\ g.id \in Nat
    BY <1>2, <1>3, <1>5, NodeTypes DEF StoreInv, Linking, TypeOK
  <2>3. ASSUME NEW p \in pool', NEW f \in files'[p], NEW g \in NodesOf(p)', f.id = g.id
        PROVE  f.whole = g.whole
    <3>1. p \in pool /\ p \in QueueName /\ g \in NodesOf(p)
      BY <1>3, <2>3 DEF StoreInv, TypeOK
    <3>2. f \in files[p]
      <4>1. CASE p # q
        BY <2>1, <2>3, <3>1, <4>1
      <4>2. CASE p = q
        <5>1. f.id # node[t].id
          BY <2>2, <2>3, <3>1, <4>2
        <5>2. QED
          BY <2>1, <2>3, <4>2, <5>1
      <4>3. QED
        BY <4>1, <4>2
    <3>3. QED
      BY <2>3, <3>1, <3>2 DEF WholeInv
  <2>4. QED
    BY <2>3 DEF WholeInv
<1>6. QED
  BY <1>2, <1>4, <1>5 DEF QueueAdd

LEMMA WriteNodeWhole ==
  ASSUME StoreInv, Working, WholeInv, "write" \notin Faults, NEW t \in Thread, WriteNode(t)
  PROVE  WholeInv'
<1> USE DEF StoreInv
<1>1. pc[t] = "WriteNode"
  BY DEF WriteNode
<1>2. PICK q \in QueueName : q = req[t].queueName
  BY <1>1 DEF IndInv, Serving, TypeOK
<1>3. /\ nodes' = [nodes EXCEPT ![q] = Append(@, node[t])] /\ pool' = pool
      /\ node[t] \in Node /\ node[t].whole = TRUE /\ pool \subseteq QueueName
  BY <1>1, <1>2 DEF WriteNode, TypeOK, Working, Node
<1>4. NodesOf(q)' = NodesOf(q) \cup {node[t]} /\ \A p \in QueueName \ {q} : NodesOf(p)' = NodesOf(p)
  BY <1>3, Appended
<1> DEFINE written(f) == IF f.msg = node[t].msg
                         THEN [id |-> f.id, msg |-> f.msg, whole |-> TRUE]
                         ELSE f
<1>5. /\ \A p \in QueueName \ {q} : files'[p] = files[p]
      /\ files'[q] = {written(f) : f \in files[q]}
  BY <1>2 DEF WriteNode, TypeOK
<1>6. \A f \in files[q] : f.msg = node[t].msg <=> f.id = node[t].id
  <2>1. PICK h \in files[q] : h.id = node[t].id /\ h.msg = node[t].msg
    BY <1>1, <1>2 DEF Linking
  <2>2. \A f \in files[q] : f.id = node[t].id => f = h
    BY <2>1 DEF IndInv, FilesOrdered
  <2>3. \A f \in files[q] : f.msg = node[t].msg => f.id = node[t].id
    BY <1>1, <1>2 DEF IndInv, Producing
  <2>4. QED
    BY <2>1, <2>2, <2>3
<1>7. \A f : written(f).id = f.id
  OBVIOUS
<1>8. \A f \in files[q] : /\ f.id = node[t].id => written(f).whole = TRUE
                          /\ f.id # node[t].id => written(f) = f
  BY <1>6
<1> HIDE DEF written
<1>9. \A g \in NodesOf(q) : g.id < node[t].id /\ g.id \in Nat
  BY <1>1, <1>2, NodeTypes DEF Linking
<1>10. ASSUME NEW p \in pool', NEW f \in files'[p], NEW g \in NodesOf(p)', f.id = g.id
       PROVE  f.whole = g.whole
  <2>1. CASE p # q
    BY <1>3, <1>4, <1>5, <1>10, <2>1 DEF WholeInv
  <2>2. CASE p = q
    <3>1. PICK h \in files[q] : f = written(h)
      BY <1>5, <2>2
    <3>2. h.id = g.id
      BY <1>7, <1>10, <3>1
    <3>3. CASE g = node[t]
      BY <1>3, <1>8, <3>1, <3>2, <3>3
    <3>4. CASE g \in NodesOf(q)
      <4>1. h.id # node[t].id
        BY <1>9, <3>2, <3>4
      <4>2. f = h /\ q \in pool
        BY <1>3, <1>8, <2>2, <3>1, <4>1
      <4>3. QED
        BY <3>2, <3>4, <4>2 DEF WholeInv
    <3>5. QED
      BY <1>4, <1>10, <2>2, <3>3, <3>4
  <2>3. QED
    BY <2>1, <2>2
<1>11. QED
  BY <1>10 DEF WholeInv

LEMMA WholeStep ==
  ASSUME StoreInv, StoreInv', Working, WholeInv, "write" \notin Faults, [Next]_vars
  PROVE  WholeInv'
<1>1. CASE UNCHANGED vars
  BY <1>1, LessIsWhole DEF vars, process, NodesOf
<1>2. CASE Die
  BY <1>2 DEF Die, WholeInv
<1>3. CASE Startup /\ ~Die
  <2>1. CASE Start \/ Listen
    BY <2>1, LessIsWhole DEF Start, Listen, NodesOf
  <2>2. QED
    BY <1>3, <2>1, LoadWhole DEF Startup, LoadFails
<1>4. ASSUME NEW t \in Thread, ~Die,
             \/ \E r \in Request : Accept(t, r)
             \/ Lock(t) \/ Dispatch(t) \/ DispatchOther(t) \/ Unlock(t) \/ Send(t)
             \/ Produce(t) \/ Consume(t) \/ RemoveQueue(t) \/ Read(t)
      PROVE  WholeInv'
  <2>1. UNCHANGED <<nodes, files, pool>>
    BY <1>4 DEF Accept, Lock, Dispatch, DispatchOther, Unlock, Send, Produce, Consume,
                RemoveQueue, Read
  <2>2. QED
    BY <2>1, LessIsWhole DEF NodesOf
<1>5. ASSUME NEW t \in Thread, AddQueue(t) PROVE WholeInv'
  <2>1. /\ files' = files
        /\ \A p \in pool' : NodesOf(p)' = NodesOf(p) /\ (p \notin pool => NodesOf(p) = {})
    BY <1>5, AddedNodes
  <2>2. QED
    BY <2>1 DEF WholeInv
<1>6. ASSUME NEW t \in Thread, UnlinkNext(t) PROVE WholeInv'
  <2>1. PICK q \in QueueName : q = req[t].queueName
    BY <1>6 DEF UnlinkNext, StoreInv, IndInv, Serving, TypeOK
  <2>2. UNCHANGED <<nodes, pool>> /\ \A p : NodesOf(p)' = NodesOf(p)
    BY <1>6 DEF UnlinkNext, NodesOf
  <2>3. files' = files \/ \E S : files' = [files EXCEPT ![q] = @ \ S]
    BY <1>6, <2>1 DEF UnlinkNext
  <2>4. \A p \in QueueName : files'[p] \subseteq files[p]
    BY <2>3 DEF StoreInv, TypeOK
  <2>5. pool \subseteq QueueName
    BY DEF StoreInv, TypeOK
  <2>6. QED
    BY <2>2, <2>4, <2>5, LessIsWhole
<1>7. ASSUME NEW t \in Thread, RemoveDir(t) PROVE WholeInv'
  <2>1. /\ files' = files /\ pool' \subseteq pool
        /\ \A q \in QueueName : nodes'[q] = nodes[q] \/ nodes'[q] = <<>>
    BY <1>7 DEF RemoveDir, StoreInv, TypeOK
  <2>2. \A q \in QueueName : NodesOf(q)' \subseteq NodesOf(q)
    BY <2>1 DEF NodesOf
  <2>3. QED
    BY <2>1, <2>2, LessIsWhole DEF StoreInv, TypeOK
<1>8. ASSUME NEW t \in Thread, QueuePoll(t), ~Die PROVE WholeInv'
  <2>1. PICK q \in QueueName : q = req[t].queueName /\ nodes[q] # <<>>
    BY <1>8 DEF QueuePoll, StoreInv, IndInv, Serving, TypeOK
  <2>2. /\ nodes' = [nodes EXCEPT ![q] = Tail(@)] /\ pool' = pool
        /\ \E S : files' = [files EXCEPT ![q] = @ \ S]
    BY <1>8, <2>1 DEF QueuePoll
  <2>3. \A p \in QueueName : files'[p] \subseteq files[p]
    BY <2>2 DEF StoreInv, TypeOK
  <2>4. \A p \in QueueName : NodesOf(p)' \subseteq NodesOf(p)
    BY <2>1, <2>2, Tailed DEF StoreInv
  <2>5. pool \subseteq QueueName
    BY DEF StoreInv, TypeOK
  <2>6. QED
    BY <2>2, <2>3, <2>4, <2>5, LessIsWhole
<1>9. ASSUME NEW t \in Thread, ~Die, QueueAdd(t) \/ WriteNode(t) PROVE WholeInv'
  BY <1>9, QueueAddWhole, WriteNodeWhole
<1>10. QED
  BY <1>1, <1>2, <1>3, <1>4, <1>5, <1>6, <1>7, <1>8, <1>9 DEF Next, Handle, Crash

\* While no operation is in between, files and nodes are the same records.
LEMMA SameRecords ==
  ASSUME StoreInv, MemoryInv, WholeInv, NEW q \in pool,
         \A u \in Thread : pc[u] \notin {"WriteNode", "UnlinkNext"}
  PROVE  files[q] = NodesOf(q)
<1>1. q \in QueueName /\ files[q] \subseteq Node /\ NodesOf(q) \subseteq Node
  BY NodeTypes DEF StoreInv, TypeOK
<1>2. \A f \in files[q], g \in NodesOf(q) : f.id = g.id /\ f.msg = g.msg => f = g
  BY <1>1 DEF WholeInv, Node
<1>3. \A f \in files[q] : \E g \in NodesOf(q) : g.id = f.id /\ g.msg = f.msg
  BY DEF StoreInv, IndInv, NoOrphanFiles
<1>4. \A g \in NodesOf(q) : \E f \in files[q] : f.id = g.id /\ f.msg = g.msg
  BY Settled DEF Filed
<1>5. QED
  BY <1>2, <1>3, <1>4

\* When neither the write, unlink nor rmdir fails, a restart between two requests loads what
\* the process had in memory: the same queues, and the same nodes in the same order
\* (queue_pool_load, read_queue, create_node_file, remove_node).
THEOREM RestartRestores ==
  ASSUME "write" \notin Faults, "unlink" \notin Faults, "rmdir" \notin Faults
  PROVE  Spec => []MemoryMatchesDisk
<1>1. Init => MemoryInv /\ WholeInv
  BY DEF Init, MemoryInv, Working, Operations, WholeInv
<1>2. StoreInv /\ StoreInv' /\ MemoryInv /\ WholeInv /\ [Next]_vars => MemoryInv' /\ WholeInv'
  BY MemoryStep, WholeStep DEF MemoryInv
<1>3. StoreInv /\ MemoryInv /\ WholeInv => MemoryMatchesDisk
  <2> SUFFICES ASSUME StoreInv, MemoryInv, WholeInv, status = "up", lock = None
               PROVE  /\ pool = dirs
                      /\ \A q \in pool :
                           /\ files[q] = NodesOf(q)
                           /\ \A j, k \in DOMAIN nodes[q] :
                                j < k => nodes[q][j].id < nodes[q][k].id
    BY DEF MemoryMatchesDisk
  <2>1. \A t \in Thread : pc[t] \notin {"WriteNode", "UnlinkNext"}
    BY CriticalSteps, NoneAssumption DEF StoreInv, IndInv, Locking
  <2>2. \A q \in pool : files[q] = NodesOf(q) /\ q \in QueueName
    BY <2>1, SameRecords DEF StoreInv, TypeOK
  <2>3. QED
    BY <2>2 DEF StoreInv, IndInv, Pooling, PoolHasDirs, IdsAscend
<1>4. QED
  BY <1>1, <1>2, <1>3, StoreInductive, PTL DEF Spec

-----------------------------------------------------------------------------
(* What the clients read                                                    *)

\* What can be counted off has as many elements as the count.
LEMMA CountedOff ==
  ASSUME NEW n \in Nat, NEW S, NEW f \in [1 .. n -> S],
         \A j, k \in 1 .. n : f[j] = f[k] => j = k,
         \A s \in S : \E k \in 1 .. n : f[k] = s
  PROVE  Cardinality(S) = n
<1>1. ExistsBijection(1 .. n, S)
  BY DEF ExistsBijection, Bijection, Injection, Surjection, IsInjective
<1>2. QED
  BY <1>1, FS_CountingElements

\* A queue whose nodes have their files, and whose files have their nodes, has as many files as
\* nodes, and the text of place k of its list is in the file that Len - k files are younger than.
LEMMA Indexed ==
  ASSUME StoreInv, NEW q \in QueueName, NEW n, n = Len(nodes[q]),
         \A g \in NodesOf(q) : Filed(q, g),
         \A f \in files[q] : \E g \in NodesOf(q) : g.id = f.id /\ g.msg = f.msg,
         \A f \in files[q] : \A g \in NodesOf(q) : f.id = g.id => f.whole = g.whole
  PROVE  /\ n \in Nat /\ Cardinality(files[q]) = n
         /\ \A k \in 1 .. n : IsAt(q, Contents(nodes[q][k]), n - k)
<1> DEFINE s == [k \in 1 .. n |-> CHOOSE f \in files[q] : /\ f.id = nodes[q][k].id
                                                         /\ f.msg = nodes[q][k].msg]
<1>1. n \in Nat /\ DOMAIN nodes[q] = 1 .. n
  BY NodeTypes, LenProperties DEF StoreInv, TypeOK
<1>2. \A k \in 1 .. n : /\ s[k] \in files[q] /\ s[k].id \in Nat
                        /\ s[k].id = nodes[q][k].id /\ s[k].msg = nodes[q][k].msg
  <2> SUFFICES ASSUME NEW k \in 1 .. n
               PROVE  /\ s[k] \in files[q] /\ s[k].id \in Nat
                      /\ s[k].id = nodes[q][k].id /\ s[k].msg = nodes[q][k].msg
    OBVIOUS
  <2>1. nodes[q][k] \in NodesOf(q) /\ nodes[q][k].id \in Nat
    BY <1>1, NodeTypes DEF NodesOf, StoreInv
  <2>2. \E f \in files[q] : f.id = nodes[q][k].id /\ f.msg = nodes[q][k].msg
    BY <2>1 DEF Filed
  <2>3. QED
    BY <2>1, <2>2
<1> HIDE DEF s
<1>3. \A j, k \in 1 .. n : j < k => s[j].id < s[k].id
  BY <1>1, <1>2 DEF StoreInv, IdsAscend
<1>4. \A f \in files[q] : \E k \in 1 .. n : s[k] = f
  <2> SUFFICES ASSUME NEW f \in files[q] PROVE \E k \in 1 .. n : s[k] = f
    OBVIOUS
  <2>1. PICK k \in 1 .. n : nodes[q][k].id = f.id
    BY <1>1 DEF NodesOf
  <2>2. s[k] \in files[q] /\ s[k].id = f.id
    BY <1>2, <2>1
  <2>3. QED
    BY <2>2 DEF StoreInv, IndInv, FilesOrdered
<1>5. \A j, k \in 1 .. n : /\ s[j] = s[k] => j = k
                           /\ s[k].id < s[j].id => k < j
  <2> SUFFICES ASSUME NEW j \in 1 .. n, NEW k \in 1 .. n
               PROVE  (s[j] = s[k] => j = k) /\ (s[k].id < s[j].id => k < j)
    OBVIOUS
  <2>1. j < k \/ j = k \/ k < j
    BY <1>1
  <2>2. s[j].id \in Nat /\ s[k].id \in Nat /\ (j < k => s[j].id < s[k].id)
        /\ (k < j => s[k].id < s[j].id)
    BY <1>2, <1>3
  <2>3. QED
    BY <2>1, <2>2
<1>6. Cardinality(files[q]) = n
  <2>1. s \in [1 .. n -> files[q]]
    BY <1>2 DEF s
  <2>2. \A j, k \in 1 .. n : s[j] = s[k] => j = k
    BY <1>5
  <2>3. QED
    BY <1>1, <1>4, <2>1, <2>2, CountedOff
<1>7. ASSUME NEW k \in 1 .. n PROVE Cardinality(Younger(q, s[k])) = n - k
  <2> DEFINE above == [j \in 1 .. n - k |-> s[k + j]]
  <2>1. n - k \in Nat /\ \A j \in 1 .. n - k : k + j \in 1 .. n /\ k < k + j
    BY <1>1
  <2>2. ASSUME NEW j \in 1 .. n - k PROVE s[k + j] \in Younger(q, s[k])
    BY <1>2, <1>3, <2>1 DEF Younger
  <2>3. above \in [1 .. n - k -> Younger(q, s[k])]
    BY <2>2
  <2>4. ASSUME NEW i \in 1 .. n - k, NEW j \in 1 .. n - k, above[i] = above[j] PROVE i = j
    <3>1. k + i \in 1 .. n /\ k + j \in 1 .. n /\ s[k + i] = s[k + j]
      BY <2>1, <2>4
    <3>2. k + i = k + j
      BY <1>5, <3>1
    <3>3. QED
      BY <1>1, <3>2
  <2>5. ASSUME NEW f \in Younger(q, s[k]) PROVE \E j \in 1 .. n - k : above[j] = f
    <3>1. PICK j \in 1 .. n : s[j] = f
      BY <1>4 DEF Younger
    <3>2. k < j
      BY <1>5, <3>1 DEF Younger
    <3>3. j - k \in 1 .. n - k /\ k + (j - k) = j
      BY <1>1, <3>2
    <3>4. above[j - k] = f
      BY <3>1, <3>3
    <3>5. QED
      BY <3>3, <3>4
  <2> HIDE DEF above
  <2>6. QED
    BY <2>1, <2>3, <2>4, <2>5, CountedOff
<1>8. ASSUME NEW k \in 1 .. n PROVE Contents(s[k]) = Contents(nodes[q][k])
  <2>1. nodes[q][k] \in NodesOf(q)
    BY <1>1 DEF NodesOf
  <2>2. s[k].whole = nodes[q][k].whole
    BY <1>2, <2>1
  <2>3. QED
    BY <1>2, <2>2 DEF Contents
<1>9. QED
  BY <1>1, <1>2, <1>6, <1>7, <1>8 DEF IsAt

LEMMA ReadIsRight ==
  ASSUME StoreInv, MemoryInv, WholeInv, NEW t \in Thread, Read(t), res'[t].ok
  PROVE  ReadMatchesDisk(t)'
<1> USE DEF StoreInv
<1>1. /\ pc[t] \in {"length", "get", "getAll", "getAllQueueNames"}
      /\ pc[t] = req[t].type /\ pc[t] \in Critical
      /\ UNCHANGED <<files, dirs, req>>
  BY CriticalSteps DEF Read, Length, Get, GetAll, GetAllQueueNames, MemoryInv, Working, Operations
<1>2. \A u \in Thread : pc[u] \notin {"WriteNode", "UnlinkNext"}
  BY <1>1, Alone, CriticalSteps
<1>3. CASE pc[t] = "getAllQueueNames"
  <2>1. res'[t].names = dirs
    BY <1>1, <1>3, Alone DEF Read, Length, Get, GetAll, GetAllQueueNames, TypeOK
  <2>2. QED
    BY <1>1, <1>3, <2>1 DEF ReadMatchesDisk
<1>4. CASE pc[t] # "getAllQueueNames"
  <2>1. PICK q \in QueueName : q = req[t].queueName /\ q \in pool
    BY <1>1, <1>4 DEF IndInv, Serving, NeedsQueue, TypeOK
  <2>2. PICK n \in Nat : n = Len(nodes[q])
    BY NodeTypes
  <2>3. /\ Cardinality(files[q]) = n
        /\ \A k \in 1 .. n : IsAt(q, Contents(nodes[q][k]), n - k)
    <3>1. \A g \in NodesOf(q) : Filed(q, g)
      BY <1>2, <2>1, Settled
    <3>2. \A f \in files[q] : \E g \in NodesOf(q) : g.id = f.id /\ g.msg = f.msg
      BY <1>2, <2>1 DEF IndInv, NoOrphanFiles
    <3>3. \A f \in files[q] : \A g \in NodesOf(q) : f.id = g.id => f.whole = g.whole
      BY <2>1 DEF WholeInv
    <3>4. QED
      BY <2>2, <3>1, <3>2, <3>3, Indexed
  <2>4. ASSUME NEW i \in Nat, i < n PROVE IsAt(q, FromRoot(q, i), i)
    <3>1. n - i \in 1 .. n /\ n - (n - i) = i
      BY <2>4
    <3>2. IsAt(q, Contents(nodes[q][n - i]), i)
      BY <2>3, <3>1
    <3>3. QED
      BY <2>2, <3>2 DEF FromRoot
  <2>5. CASE pc[t] = "length"
    <3>1. res'[t].data = <<n>>
      BY <2>1, <2>2, <2>5 DEF Read, Length, Get, GetAll, GetAllQueueNames, Success, TypeOK
    <3>2. QED
      BY <1>1, <2>1, <2>3, <2>5, <3>1 DEF ReadMatchesDisk
  <2>6. CASE pc[t] = "get"
    <3>1. PICK i \in Nat : i = req[t].index
      BY RequestType DEF TypeOK
    <3>2. i < n /\ res'[t] = Success(<<FromRoot(q, i)>>)
      BY <2>1, <2>2, <2>6, <3>1 DEF Read, Length, Get, GetAll, GetAllQueueNames, Failed, TypeOK
    <3>3. res'[t].data[1] = FromRoot(q, i)
      BY <3>2 DEF Success
    <3>4. IsAt(q, res'[t].data[1], i)
      BY <2>4, <3>2, <3>3
    <3>5. IsAt(q, res[t].data[1], i)'
      BY <1>1, <3>4 DEF IsAt, Younger
    <3>6. QED
      BY <1>1, <2>1, <2>6, <3>1, <3>5 DEF ReadMatchesDisk
  <2>7. CASE pc[t] = "getAll"
    <3>1. res'[t].data = [k \in 1 .. n |-> FromRoot(q, k - 1)]
      BY <2>1, <2>2, <2>7 DEF Read, Length, Get, GetAll, GetAllQueueNames, Success, TypeOK
    <3>2. Len(res'[t].data) = n /\ DOMAIN res'[t].data = 1 .. n
      BY <3>1
    <3>3. ASSUME NEW k \in 1 .. n PROVE IsAt(q, res'[t].data[k], k - 1)
      <4>1. k - 1 \in Nat /\ k - 1 < n /\ res'[t].data[k] = FromRoot(q, k - 1)
        BY <3>1
      <4>2. QED
        BY <2>4, <4>1
    <3>4. \A k \in DOMAIN res'[t].data : IsAt(q, res[t].data[k], k - 1)'
      BY <1>1, <3>2, <3>3 DEF IsAt, Younger
    <3>5. QED
      BY <1>1, <2>1, <2>3, <2>7, <3>2, <3>4 DEF ReadMatchesDisk
  <2>8. QED
    BY <1>1, <1>4, <2>5, <2>6, <2>7
<1>5. QED
  BY <1>3, <1>4

LEMMA ReadsStep ==
  ASSUME StoreInv, MemoryInv, WholeInv, ReadsMatchDisk, [Next]_vars PROVE ReadsMatchDisk'
<1> SUFFICES ASSUME NEW t \in Thread, pc'[t] = "unlock", res'[t].ok
             PROVE  ReadMatchesDisk(t)'
  BY DEF ReadsMatchDisk
<1>1. ~Die
  BY DEF Die
<1>2. CASE pc[t] = "unlock" /\ UNCHANGED <<files, dirs, req[t], res[t]>>
  BY <1>2 DEF ReadsMatchDisk, ReadMatchesDisk, IsAt, Younger
<1>3. CASE UNCHANGED vars \/ Startup \/ Crash
  BY <1>1, <1>2, <1>3 DEF vars, process, Startup, Start, LoadQueue, Listen, LoadFails, Crash
<1>4. ASSUME Handle(t) \/ \E r \in Request : Accept(t, r) PROVE ReadMatchesDisk(t)'
  <2>1. CASE Read(t)
    BY <2>1, ReadIsRight
  <2>2. CASE ~Read(t)
    <3>1. \/ req'[t].type \notin {"length", "get", "getAll", "getAllQueueNames"}
          \/ ~res'[t].ok
      <4>1. CASE \/ \E r \in Request : Accept(t, r)
                 \/ Lock(t) \/ Dispatch(t) \/ DispatchOther(t) \/ Unlock(t) \/ Send(t)
        BY <1>1, <4>1 DEF Accept, Lock, Dispatch, DispatchOther, Unlock, Send, Failed,
                          StoreInv, TypeOK, Operations
      <4>2. CASE Produce(t) \/ QueueAdd(t) \/ WriteNode(t) \/ Consume(t) \/ QueuePoll(t)
        BY <1>1, <4>2 DEF Produce, QueueAdd, WriteNode, Consume, QueuePoll, MemoryInv, Working,
                          Operations
      <4>3. CASE AddQueue(t) \/ RemoveQueue(t) \/ UnlinkNext(t) \/ RemoveDir(t)
        BY <1>1, <4>3 DEF AddQueue, RemoveQueue, UnlinkNext, RemoveDir, MemoryInv, Working,
                          Operations
      <4>4. QED
        BY <1>4, <2>2, <4>1, <4>2, <4>3 DEF Handle
    <3>2. QED
      BY <3>1 DEF ReadMatchesDisk
  <2>3. QED
    BY <2>1, <2>2
<1>5. ASSUME NEW u \in Thread \ {t}, Handle(u) \/ \E r \in Request : Accept(u, r)
      PROVE  ReadMatchesDisk(t)'
  <2>1. UNCHANGED <<pc[t], req[t], res[t]>>
    BY <1>1, <1>5, OneThread DEF StoreInv
  <2>2. pc[t] = "unlock" /\ pc[u] \notin Critical
    BY <2>1, Alone, CriticalSteps DEF StoreInv
  <2>3. (\E r \in Request : Accept(u, r)) \/ Lock(u) \/ Send(u)
    BY <1>5, <2>2, CriticalSteps
       DEF Handle, Dispatch, DispatchOther, Unlock, Produce, QueueAdd, WriteNode, Consume,
           QueuePoll, AddQueue, RemoveQueue, UnlinkNext, RemoveDir, Read, Length, Get, GetAll,
           GetAllQueueNames, Operations
  <2>4. UNCHANGED <<files, dirs>>
    BY <1>1, <2>3 DEF Accept, Lock, Send
  <2>5. QED
    BY <1>2, <2>1, <2>2, <2>4
<1>6. QED
  BY <1>3, <1>4, <1>5 DEF Next

\* When neither write, unlink nor rmdir fails, what the reading operations find in memory is what
\* is on disk: the number of messages, the text at an index counted from the newest, all texts in
\* that order, the names of the queues (broker.c: length, get, getAll, getAllQueueNames). A file
\* that a crash has left empty is read as an empty text (persist.c: read_node) and answered so.
THEOREM ReadsAreRight ==
  ASSUME "write" \notin Faults, "unlink" \notin Faults, "rmdir" \notin Faults
  PROVE  Spec => []ReadsMatchDisk
<1>1. Init => MemoryInv /\ WholeInv /\ ReadsMatchDisk
  BY DEF Init, MemoryInv, Working, Operations, WholeInv, ReadsMatchDisk
<1>2. /\ StoreInv /\ StoreInv' /\ MemoryInv /\ WholeInv /\ ReadsMatchDisk /\ [Next]_vars
      => MemoryInv' /\ WholeInv' /\ ReadsMatchDisk'
  BY MemoryStep, WholeStep, ReadsStep DEF MemoryInv
<1>3. QED
  BY <1>1, <1>2, StoreInductive, PTL DEF Spec

-----------------------------------------------------------------------------
(* What the server survives                                                 *)

\* A thread with a connection works at something a client has asked.
Asked == \A t \in Thread : pc[t] # "closed" => req[t] \in Request

LEMMA AskedStep == ASSUME TypeOK, Asked, [Next]_vars PROVE Asked'
<1>1. CASE UNCHANGED vars \/ Die
  BY <1>1 DEF vars, process, Die, Asked
<1>2. CASE ~Die /\ (Startup \/ Crash)
  BY <1>2 DEF Startup, Start, LoadQueue, Listen, LoadFails, Crash, Asked
<1>3. ASSUME NEW t \in Thread, ~Die, (\E r \in Request : Accept(t, r)) \/ Handle(t)
      PROVE  Asked'
  <2>1. \A u \in Thread \ {t} : UNCHANGED <<pc[u], req[u]>>
    BY <1>3, OneThread
  <2>2. pc'[t] # "closed" => req'[t] \in Request
    <3>1. CASE \E r \in Request : Accept(t, r)
      BY <3>1 DEF Accept, TypeOK
    <3>2. CASE Send(t)
      BY <1>3, <3>2 DEF Send, TypeOK
    <3>3. CASE \/ Lock(t) \/ Dispatch(t) \/ DispatchOther(t) \/ Unlock(t) \/ Read(t)
               \/ Produce(t) \/ QueueAdd(t) \/ WriteNode(t) \/ Consume(t) \/ QueuePoll(t)
      BY <1>3, <3>3 DEF Lock, Dispatch, DispatchOther, Unlock, Read, Length, Get, GetAll,
           GetAllQueueNames, Produce, QueueAdd, WriteNode, Consume, QueuePoll, Asked, TypeOK
    <3>4. CASE AddQueue(t) \/ RemoveQueue(t) \/ UnlinkNext(t) \/ RemoveDir(t)
      BY <1>3, <3>4 DEF AddQueue, RemoveQueue, UnlinkNext, RemoveDir, Asked, TypeOK
    <3>5. QED
      BY <1>3, <3>1, <3>2, <3>3, <3>4 DEF Handle
  <2>3. QED
    BY <2>1, <2>2 DEF Asked
<1>4. QED
  BY <1>1, <1>2, <1>3 DEF Next

\* The node that is polled has its file, so Queue_poll does not return NULL.
LEMMA PolledIsStored ==
  ASSUME StoreInv, MemoryInv, NEW t \in Thread, pc[t] = "QueuePoll"
  PROVE  {g \in files[req[t].queueName] : g.id = node[t].id} # {}
<1>1. PICK q \in QueueName : q = req[t].queueName
  BY DEF StoreInv, IndInv, Serving, TypeOK
<1>2. q \in pool /\ nodes[q] # <<>> /\ node[t] = Head(nodes[q])
  BY <1>1, HeadFile
<1>3. \A u \in Thread : pc[u] \notin {"WriteNode", "UnlinkNext"}
  BY Alone, CriticalSteps DEF StoreInv
<1>4. node[t] \in NodesOf(q)
  <2>1. nodes[q] \in Seq(Node)
    BY DEF StoreInv, TypeOK
  <2>2. 1 \in DOMAIN nodes[q] /\ nodes[q][1] = node[t]
    BY <1>2, <2>1, LenProperties, EmptySeq
  <2>3. QED
    BY <2>2 DEF NodesOf
<1>5. Filed(q, node[t])
  BY <1>2, <1>3, <1>4, Settled
<1>6. QED
  BY <1>1, <1>5 DEF Filed

LEMMA StaysUp ==
  ASSUME StoreInv, MemoryInv, Asked, [Next]_vars, status = "up", ~MayCrash,
         "opendir" \notin Faults, "unlink" \notin Faults, "send" \notin Faults,
         \A r \in Request : r.type \in Operations
  PROVE  status' = "up"
<1>1. CASE UNCHANGED vars
  BY <1>1 DEF vars, process
<1>2. CASE Startup \/ Crash
  BY <1>2 DEF Startup, Start, LoadQueue, Listen, LoadFails, Crash
<1>3. ASSUME NEW t \in Thread, (\E r \in Request : Accept(t, r)) \/ Handle(t)
      PROVE  status' = "up"
  <2>1. CASE \/ \E r \in Request : Accept(t, r)
             \/ Lock(t) \/ Dispatch(t) \/ Unlock(t) \/ Send(t) \/ Read(t)
    BY <2>1 DEF Accept, Lock, Dispatch, Unlock, Send, Read
  <2>2. CASE DispatchOther(t)
    BY <2>2 DEF DispatchOther, Asked
  <2>3. CASE Produce(t) \/ QueueAdd(t)
    <3>1. req[t].queueName \in dirs
      BY <2>3 DEF Produce, QueueAdd, StoreInv, IndInv, Serving, Pooling, NeedsQueue
    <3>2. QED
      BY <2>3, <3>1 DEF Produce, QueueAdd
  <2>4. CASE QueuePoll(t)
    BY <2>4, PolledIsStored DEF QueuePoll
  <2>5. CASE RemoveQueue(t)
    BY <2>5 DEF RemoveQueue
  <2>6. CASE WriteNode(t) \/ Consume(t) \/ AddQueue(t) \/ UnlinkNext(t) \/ RemoveDir(t)
    BY <2>6 DEF WriteNode, Consume, AddQueue, UnlinkNext, RemoveDir
  <2>7. QED
    BY <1>3, <2>1, <2>2, <2>3, <2>4, <2>5, <2>6 DEF Handle
<1>4. QED
  BY <1>1, <1>2, <1>3 DEF Next

\* When neither opendir, unlink, rmdir nor send fails and nobody kills it, no request of a
\* type the broker knows ends the process: produce finds the directory of its queue
\* (broker.c: produce), and the node that Queue_poll takes has its file, so that consume does not
\* read the message of NULL (broker.c:189).
THEOREM ServerStaysUp ==
  ASSUME ~MayCrash, "opendir" \notin Faults, "unlink" \notin Faults, "rmdir" \notin Faults,
         "send" \notin Faults, \A r \in Request : r.type \in Operations
  PROVE  Spec => ServerSurvives
<1>1. Init => MemoryInv /\ Asked
  BY DEF Init, MemoryInv, Working, Operations, Asked
<1>2. StoreInv /\ MemoryInv /\ Asked /\ [Next]_vars => MemoryInv' /\ Asked'
  BY MemoryStep, AskedStep DEF StoreInv
<1>3. StoreInv /\ MemoryInv /\ Asked /\ [Next]_vars => [status = "up" => status' = "up"]_vars
  BY StaysUp
<1>4. QED
  BY <1>1, <1>2, <1>3, StoreInductive, PTL DEF Spec, ServerSurvives
=============================================================================
