-------------------------- MODULE QueueListProofs --------------------------
(***************************************************************************)
(* Proofs about QueueList, for any sets of nodes, messages and indices, and *)
(* lists of any length.                                                    *)
(***************************************************************************)
EXTENDS QueueList, SequenceTheorems, TLAPS

USE DEF list, locals

-----------------------------------------------------------------------------
(* The list, numbered from the root.                                        *)

LEMMA ChainType ==
  ASSUME TypeOK
  PROVE  /\ Len(chain) \in Nat
         /\ \A k \in 1 .. Len(chain) : chain[k] \in Node
         /\ DOMAIN chain = 1 .. Len(chain)
         /\ chain = <<>> <=> Len(chain) = 0
  BY LenProperties, ElementOfSeq, EmptySeq DEF TypeOK

\* next leads from the node at an index to the one at the next index, if any.
LEMMA NextOfAt ==
  ASSUME TypeOK, ListIsChain, exists, NEW k \in 0 .. Len(chain) - 1
  PROVE  /\ At(k) \in Node
         /\ At(k) \in Linked
         /\ next[At(k)] = IF k = Len(chain) - 1 THEN Null ELSE At(k + 1)
<1>0. Len(chain) \in Nat /\ k \in Nat
  BY ChainType
<1>1. Len(chain) - k \in 1 .. Len(chain)
  BY <1>0
<1>2. next[chain[Len(chain) - k]] =
        IF Len(chain) - k = 1 THEN Null ELSE chain[Len(chain) - k - 1]
  <2>1. \A j \in DOMAIN chain : next[chain[j]] = IF j = 1 THEN Null ELSE chain[j - 1]
    BY DEF ListIsChain
  <2>2. Len(chain) - k \in DOMAIN chain
    BY <1>1, ChainType
  <2>3. QED
    BY <2>1, <2>2
<1>3. Len(chain) - k - 1 = Len(chain) - (k + 1)
  BY <1>0
<1>4. Len(chain) - k = 1 <=> k = Len(chain) - 1
  BY <1>0
<1>5. chain[Len(chain) - k] \in Node
  BY <1>1, ChainType
<1>6. chain[Len(chain) - k] \in Linked
  BY <1>1, ChainType DEF Linked
<1>7. QED
  BY <1>2, <1>3, <1>4, <1>5, <1>6 DEF At

LEMMA RootIsFirst ==
  ASSUME TypeOK, ListIsChain, exists
  PROVE  /\ chain # <<>> => root = At(0) /\ root # Null
         /\ chain = <<>> => root = Null
<1>1. CASE chain # <<>>
  <2>1. 0 \in 0 .. Len(chain) - 1
    BY <1>1, ChainType
  <2>2. Len(chain) - 0 = Len(chain)
    BY ChainType
  <2>3. At(0) \in Node
    BY <2>1, NextOfAt
  <2>4. root = At(0)
    BY <1>1, <2>2 DEF ListIsChain, At
  <2>5. QED
    BY <1>1, <2>3, <2>4, NullAssumption
<1>2. CASE chain = <<>>
  BY <1>2 DEF ListIsChain
<1>3. QED
  BY <1>1, <1>2

\* When its loop ends, Queue_size has counted every node.
LEMMA CountedAll ==
  ASSUME TypeOK, ListInv, Counted
  PROVE  counter = Len(chain) /\ exists /\ array = <<>>
<1>1. exists /\ ListIsChain /\ Counting /\ pc = "size"
  BY DEF ListInv, Counted
<1>2. CASE chain = <<>>
  BY <1>1, <1>2, ChainType DEF Counting
<1>3. CASE chain # <<>>
  <2>1. counter \in 1 .. Len(chain) /\ el = At(counter - 1)
    BY <1>1, <1>3 DEF Counting
  <2>2. counter - 1 \in 0 .. Len(chain) - 1
    BY <2>1, ChainType
  <2>3. el \in Node /\ (next[el] = Null => counter - 1 = Len(chain) - 1)
    <3>1. el \in Node
      BY <1>1, <2>1, <2>2, NextOfAt
    <3>2. counter - 1 # Len(chain) - 1 => next[el] = At(counter - 1 + 1)
      BY <1>1, <2>1, <2>2, NextOfAt
    <3>3. counter - 1 # Len(chain) - 1 => counter - 1 + 1 \in 0 .. Len(chain) - 1
      BY <2>2, ChainType
    <3>4. counter - 1 # Len(chain) - 1 => At(counter - 1 + 1) \in Node
      BY <1>1, <3>3, NextOfAt
    <3>5. QED
      BY <3>1, <3>2, <3>4, NullAssumption
  <2>4. next[el] = Null
    BY <2>3, NullAssumption DEF Counted
  <2>5. QED
    BY <1>1, <2>1, <2>3, <2>4, ChainType DEF Counting
<1>4. QED
  BY <1>2, <1>3

-----------------------------------------------------------------------------
(* Types                                                                    *)

LEMMA EmptyAnswers ==
  /\ Refused \in [ok : BOOLEAN, data : Seq(Message \cup Nat)]
  /\ \A d \in Seq(Message \cup Nat) :
       Answered(d) \in [ok : BOOLEAN, data : Seq(Message \cup Nat)]
  /\ <<>> \in Seq(Message \cup Nat)
  BY EmptySeq DEF Refused, Answered

LEMMA MessagesType ==
  ASSUME TypeOK, NEW nodes \in Seq(Node)
  PROVE  Messages(nodes) \in Seq(Message \cup Nat)
<1>1. Len(nodes) \in Nat /\ DOMAIN nodes = 1 .. Len(nodes)
  BY LenProperties
<1>2. \A k \in 1 .. Len(nodes) : nodes[k] \in Node
  BY ElementOfSeq
<1>3. \A k \in 1 .. Len(nodes) : message[nodes[k]] \in Message \cup Nat
  BY <1>2 DEF TypeOK
<1>4. QED
  BY <1>1, <1>3, IsASeq DEF Messages

LEMMA ReturnType ==
  ASSUME TypeOK, NEW a \in [ok : BOOLEAN, data : Seq(Message \cup Nat)], Return(a)
  PROVE  /\ answer' \in [ok : BOOLEAN, data : Seq(Message \cup Nat)]
         /\ pc' \in {"idle", "size", "get", "unlink", "clear"}
         /\ op' \in Calls /\ index' \in Nat /\ el' \in Node \cup {Null}
         /\ counter' \in Nat /\ left' \in Nat
         /\ nextTail' \in Node \cup {Null} /\ array' \in Seq(Node)
  BY EmptySeq DEF Return, Calls

\* Queue_get is at a node of the list in each of its turns.
LEMMA GettingEl ==
  ASSUME TypeOK, ListInv, pc = "get"
  PROVE  /\ exists /\ ListIsChain /\ Getting
         /\ Target - left \in 0 .. Len(chain) - 1
         /\ el = At(Target - left)
         /\ el \in Node /\ el \in Linked
<1>1. exists /\ ListIsChain /\ Getting
  BY DEF ListInv
<1>2. /\ counter = Len(chain) /\ counter \in Nat
      /\ Target \in 0 .. counter - 1 /\ left \in 0 .. Target
      /\ el = At(Target - left)
  BY <1>1 DEF Getting, TypeOK
<1>3. Target - left \in 0 .. Len(chain) - 1
  BY <1>2
<1>4. QED
  BY <1>1, <1>2, <1>3, NextOfAt

LEMMA UnlinkingTail ==
  ASSUME TypeOK, ListInv, pc = "unlink"
  PROVE  /\ exists /\ ListIsChain /\ Unlinking
         /\ chain # <<>> /\ Len(chain) >= 1
         /\ tail = chain[1] /\ tail \in Node /\ tail \in Linked
<1>1. exists /\ ListIsChain /\ Unlinking
  BY DEF ListInv
<1>2. chain # <<>>
  BY <1>1 DEF Unlinking
<1>3. Len(chain) \in Nat /\ Len(chain) # 0
  BY <1>2, ChainType
<1>4. 1 \in 1 .. Len(chain)
  BY <1>3
<1>5. chain[1] \in Node /\ chain[1] \in Linked
  BY <1>4, ChainType DEF Linked
<1>6. tail = chain[1]
  BY <1>1, <1>2 DEF ListIsChain
<1>7. QED
  BY <1>1, <1>2, <1>3, <1>5, <1>6

\* Every step keeps the types. That takes ListInv: a loop that follows next is at a
\* node, and Unlink takes the tail from a list that has one.
LEMMA NextType == ASSUME TypeOK, ListInv, [Next]_vars PROVE TypeOK'
<1> USE DEF TypeOK
<1>1. CASE UNCHANGED vars
  BY <1>1 DEF vars
<1>2. CASE New
  BY <1>2 DEF New
<1>3. ASSUME NEW n \in Node, NEW m \in Message, Add(n, m) PROVE TypeOK'
  <2>1. Answered(<<>>) \in [ok : BOOLEAN, data : Seq(Message \cup Nat)]
    BY EmptyAnswers
  <2>2. Append(chain, n) \in Seq(Node)
    BY AppendProperties
  <2>3. CASE Return(Answered(<<>>)) /\ chain' = Append(chain, n) /\ root' = n
             /\ tail' = (IF root = Null THEN n ELSE tail) /\ next' = [next EXCEPT ![n] = root]
    BY <1>3, <2>1, <2>2, <2>3, ReturnType DEF Add
  <2>4. CASE Return(Refused) /\ UNCHANGED <<root, tail, chain>>
             /\ next' = [next EXCEPT ![n] = Null]
    BY <1>3, <2>4, EmptyAnswers, ReturnType DEF Add
  <2>5. QED
    BY <1>3, <2>3, <2>4 DEF Add
<1>4. ASSUME NEW k \in Index, Begin("get", k) PROVE TypeOK'
  BY <1>4, IndexAssumption DEF Begin, Calls
<1>5. ASSUME NEW o \in Calls \ {"get"}, Begin(o, 0) PROVE TypeOK'
  BY <1>5 DEF Begin
<1>6. CASE Step
  <2>1. CASE CountNext
    BY <2>1 DEF CountNext
  <2>2. CASE Length
    <3>1. <<counter>> \in Seq(Message \cup Nat)
      OBVIOUS
    <3>2. Answered(<<counter>>) \in [ok : BOOLEAN, data : Seq(Message \cup Nat)]
      BY <3>1, EmptyAnswers
    <3>3. QED
      BY <2>2, <3>2, ReturnType DEF Length
  <2>3. CASE Get
    <3>1. CASE Return(Refused) /\ UNCHANGED list
      BY <3>1, EmptyAnswers, ReturnType
    <3>2. CASE GetFrom(index) /\ UNCHANGED <<op, index, counter, nextTail, array, answer, list>>
      BY <3>2 DEF GetFrom
    <3>3. QED
      BY <2>3, <3>1, <3>2 DEF Get
  <2>4. CASE GetAll
    <3>1. CASE Return(Answered(<<>>)) /\ UNCHANGED list
      BY <3>1, EmptyAnswers, ReturnType
    <3>2. CASE index' = 0 /\ GetFrom(0) /\ UNCHANGED <<op, counter, nextTail, array, answer, list>>
      BY <3>2 DEF GetFrom
    <3>3. QED
      BY <2>4, <3>1, <3>2 DEF GetAll
  <2>5. CASE Poll
    <3>1. CASE Return(Refused) /\ UNCHANGED list
      BY <3>1, EmptyAnswers, ReturnType
    <3>2. CASE counter > 1 /\ GetFrom(counter - 2)
               /\ UNCHANGED <<op, index, counter, nextTail, array, answer, list>>
      BY <3>2 DEF GetFrom
    <3>3. CASE nextTail' = Null /\ pc' = "unlink"
               /\ UNCHANGED <<op, index, el, counter, left, array, answer, list>>
      BY <3>3
    <3>4. QED
      BY <2>5, <3>1, <3>2, <3>3 DEF Poll
  <2>6. CASE Clear
    BY <2>6 DEF Clear
  <2>7. CASE GetNext
    <3>1. el \in Node
      BY <2>7, GettingEl DEF GetNext
    <3>2. QED
      BY <2>7, <3>1 DEF GetNext
  <2>8. CASE GetDone
    <3>1. message[el] \in Message
      BY <2>8, GettingEl DEF GetDone, Found
    <3>2. <<message[el]>> \in Seq(Message \cup Nat)
      BY <3>1
    <3>3. Answered(<<message[el]>>) \in [ok : BOOLEAN, data : Seq(Message \cup Nat)]
      BY <3>2, EmptyAnswers
    <3>4. QED
      BY <2>8, <3>3, ReturnType DEF GetDone
  <2>9. CASE GetAllNext
    <3>1. el \in Node
      BY <2>9, GettingEl DEF GetAllNext, Found
    <3>2. Append(array, el) \in Seq(Node)
      BY <3>1, AppendProperties
    <3>3. Answered(Messages(Append(array, el))) \in [ok : BOOLEAN, data : Seq(Message \cup Nat)]
      BY <3>2, MessagesType, EmptyAnswers
    <3>4. CASE Return(Answered(Messages(Append(array, el)))) /\ UNCHANGED list
      BY <3>3, <3>4, ReturnType
    <3>5. CASE /\ array' = Append(array, el) /\ index' = index + 1 /\ GetFrom(index + 1)
               /\ UNCHANGED <<op, counter, nextTail, answer, list>>
      BY <3>2, <3>5 DEF GetFrom
    <3>6. QED
      BY <2>9, <3>4, <3>5 DEF GetAllNext
  <2>10. CASE PollFound
    BY <2>10 DEF PollFound
  <2>11. CASE Unlink
    <3>1. message[tail] \in Message /\ Tail(chain) \in Seq(Node)
      BY <2>11, UnlinkingTail, HeadTailProperties DEF Unlink
    <3>2. <<message[tail]>> \in Seq(Message \cup Nat)
      BY <3>1
    <3>3. Answered(<<message[tail]>>) \in [ok : BOOLEAN, data : Seq(Message \cup Nat)]
      BY <3>2, EmptyAnswers
    <3>4. /\ root' \in Node \cup {Null} /\ tail' \in Node \cup {Null}
          /\ next' \in [Node -> Node \cup {Null}]
      BY <2>11 DEF Unlink
    <3>5. QED
      BY <2>11, <3>1, <3>3, <3>4, ReturnType DEF Unlink
  <2>12. CASE UnlinkFails
    BY <2>12, EmptyAnswers, EmptySeq, ReturnType DEF UnlinkFails
  <2>13. CASE ClearNext
    <3>1. el \in Node
      BY <2>13 DEF ClearNext
    <3>2. Append(array, el) \in Seq(Node)
      BY <3>1, AppendProperties
    <3>3. QED
      BY <2>13, <3>1, <3>2 DEF ClearNext
  <2>14. CASE Destruct
    BY <2>14, EmptyAnswers, EmptySeq, ReturnType DEF Destruct
  <2>15. QED
    BY <1>6, <2>1, <2>2, <2>3, <2>4, <2>5, <2>6, <2>7, <2>8, <2>9, <2>10, <2>11, <2>12,
       <2>13, <2>14 DEF Step
<1>7. QED
  BY <1>1, <1>2, <1>3, <1>4, <1>5, <1>6 DEF Next

-----------------------------------------------------------------------------
(* The invariant                                                            *)

\* A step that leaves the list alone has only its own loop to account for.
LEMMA SameList ==
  ASSUME ListInv, UNCHANGED list
  PROVE  /\ ListIsChain'
         /\ Linked' \subseteq allocated'
         /\ ~exists' => chain' = <<>>
         /\ \A k : At(k)' = At(k) /\ First(k)' = First(k)
  BY DEF ListInv, ListIsChain, Linked, At, First

\* A call that returns leaves no loop.
LEMMA NoLoop ==
  ASSUME pc' = "idle"
  PROVE  Counting' /\ Getting' /\ Unlinking' /\ Clearing'
  BY DEF Counting, Getting, Unlinking, Clearing

LEMMA ReturnInd ==
  ASSUME ListInv, NEW a, Return(a), UNCHANGED list
  PROVE  ListInv'
<1>1. pc' = "idle" /\ array' = <<>>
  BY DEF Return
<1>2. QED
  BY <1>1, NoLoop, SameList DEF ListInv

\* Queue_get starts from the root, with the turns to its index left.
LEMMA GetFromInd ==
  ASSUME TypeOK, ListInv, UNCHANGED list,
         NEW k \in 0 .. Len(chain) - 1, GetFrom(k),
         op' \in {"get", "getAll", "poll"}, counter' = Len(chain), Target' = k,
         array' = IF op' = "getAll" THEN First(index') ELSE <<>>, exists
  PROVE  ListInv'
<1>1. ListIsChain
  BY DEF ListInv
<1>2. Len(chain) \in Nat /\ k \in Nat /\ chain # <<>>
  BY ChainType
<1>3. left' = k /\ el' = root /\ pc' = "get"
  BY DEF GetFrom
<1>4. Target' - left' = 0
  BY <1>2, <1>3
<1>5. root = At(0)
  BY <1>1, <1>2, RootIsFirst
<1>6. el' = At(Target - left)'
  BY <1>3, <1>4, <1>5 DEF At
<1>7. Getting'
  BY <1>2, <1>3, <1>6 DEF Getting, First, At
<1>8. Counting' /\ Unlinking' /\ Clearing'
  BY <1>3 DEF Counting, Unlinking, Clearing
<1>9. QED
  BY <1>3, <1>7, <1>8, SameList DEF ListInv

LEMMA NewInd == ASSUME ListInv, New PROVE ListInv'
<1>1. chain = <<>> /\ chain' = <<>> /\ exists' /\ pc' = pc /\ pc = "idle" /\ allocated' = allocated
  BY DEF New, ListInv
<1>2. ListIsChain'
  BY <1>1 DEF New, ListIsChain
<1>3. Linked' \subseteq allocated'
  BY <1>1 DEF Linked
<1>4. array' = <<>>
  BY <1>1 DEF New, ListInv
<1>5. QED
  BY <1>1, <1>2, <1>3, <1>4, NoLoop DEF ListInv

LEMMA BeginInd ==
  ASSUME TypeOK, ListInv, NEW o, NEW k, Begin(o, k)
  PROVE  ListInv'
<1>1. /\ ListIsChain /\ exists /\ pc' = "size" /\ UNCHANGED list /\ array' = <<>>
      /\ el' = root /\ counter' = IF root = Null THEN 0 ELSE 1
  BY DEF ListInv, Begin
<1>2. chain = <<>> => el' = Null /\ counter' = 0
  BY <1>1, RootIsFirst
<1>3. chain # <<>> => counter' = 1 /\ el' = At(0)
  BY <1>1, RootIsFirst
<1>4. chain # <<>> => counter' \in 1 .. Len(chain) /\ counter' - 1 = 0
  BY <1>3, ChainType
<1>5. Counting'
  BY <1>1, <1>2, <1>3, <1>4 DEF Counting, At
<1>6. Getting' /\ Unlinking' /\ Clearing'
  BY <1>1 DEF Getting, Unlinking, Clearing
<1>7. QED
  BY <1>1, <1>5, <1>6, SameList DEF ListInv

LEMMA CountNextInd ==
  ASSUME TypeOK, ListInv, CountNext
  PROVE  ListInv'
<1>1. /\ ListIsChain /\ exists /\ pc = "size" /\ pc' = "size" /\ Counting
      /\ UNCHANGED list /\ UNCHANGED array /\ el # Null /\ next[el] # Null
      /\ el' = next[el] /\ counter' = counter + 1
  BY DEF ListInv, CountNext
<1>2. chain # <<>> /\ counter \in 1 .. Len(chain) /\ el = At(counter - 1)
  BY <1>1 DEF Counting
<1>3. counter - 1 \in 0 .. Len(chain) - 1 /\ counter - 1 + 1 = counter' - 1
  BY <1>1, <1>2, ChainType
<1>4. counter - 1 # Len(chain) - 1 /\ el' = At(counter' - 1)
  BY <1>1, <1>2, <1>3, NextOfAt
<1>5. counter' \in 1 .. Len(chain)
  <2>1. Len(chain) \in Nat
    BY ChainType
  <2>2. QED
    BY <1>1, <1>2, <1>4, <2>1
<1>6. Counting'
  BY <1>1, <1>2, <1>4, <1>5 DEF Counting, At
<1>7. Getting' /\ Unlinking' /\ Clearing'
  BY <1>1 DEF Getting, Unlinking, Clearing
<1>8. QED
  BY <1>1, <1>6, <1>7, SameList DEF ListInv

LEMMA GetInd ==
  ASSUME TypeOK, ListInv, Get
  PROVE  ListInv'
<1>1. counter = Len(chain) /\ exists /\ array = <<>> /\ op = "get" /\ UNCHANGED list
  BY CountedAll DEF Get
<1>2. CASE Return(Refused)
  BY <1>1, <1>2, ReturnInd
<1>3. CASE /\ counter > index /\ GetFrom(index)
           /\ UNCHANGED <<op, index, counter, nextTail, array, answer>>
  <2>1. index \in 0 .. Len(chain) - 1
    BY <1>1, <1>3 DEF TypeOK
  <2>2. Target' = index
    BY <1>1, <1>3 DEF Target
  <2>3. QED
    BY <1>1, <1>3, <2>1, <2>2, GetFromInd
<1>4. QED
  BY <1>2, <1>3 DEF Get

LEMMA GetAllInd ==
  ASSUME TypeOK, ListInv, GetAll
  PROVE  ListInv'
<1>1. counter = Len(chain) /\ exists /\ array = <<>> /\ op = "getAll" /\ UNCHANGED list
  BY CountedAll DEF GetAll
<1>2. CASE Return(Answered(<<>>))
  BY <1>1, <1>2, ReturnInd
<1>3. CASE /\ counter > 0 /\ index' = 0 /\ GetFrom(0)
           /\ UNCHANGED <<op, counter, nextTail, array, answer>>
  <2>1. 0 \in 0 .. Len(chain) - 1
    BY <1>1, <1>3, ChainType
  <2>2. op' = "getAll" /\ Target' = 0
    BY <1>1, <1>3 DEF Target
  <2>3. First(index') = <<>>
    BY <1>3 DEF First
  <2>4. QED
    BY <1>1, <1>3, <2>1, <2>2, <2>3, GetFromInd
<1>4. QED
  BY <1>2, <1>3 DEF GetAll

LEMMA PollInd ==
  ASSUME TypeOK, ListInv, Poll
  PROVE  ListInv'
<1>1. /\ counter = Len(chain) /\ exists /\ array = <<>> /\ op = "poll" /\ pc = "size"
      /\ UNCHANGED list /\ Len(chain) \in Nat
  BY CountedAll, ChainType DEF Poll, Counted
<1>2. CASE Return(Refused)
  BY <1>1, <1>2, ReturnInd
<1>3. CASE /\ counter = 1 /\ nextTail' = Null /\ pc' = "unlink"
           /\ UNCHANGED <<op, index, el, counter, left, array, answer>>
  <2>1. Unlinking'
    BY <1>1, <1>3, ChainType DEF Unlinking
  <2>2. Counting' /\ Getting' /\ Clearing'
    BY <1>3 DEF Counting, Getting, Clearing
  <2>3. QED
    BY <1>1, <1>3, <2>1, <2>2, SameList DEF ListInv
<1>4. CASE /\ counter > 1 /\ GetFrom(counter - 2)
           /\ UNCHANGED <<op, index, counter, nextTail, array, answer>>
  <2>1. counter - 2 \in 0 .. Len(chain) - 1
    BY <1>1, <1>4
  <2>2. op' = "poll" /\ Target' = counter - 2
    BY <1>1, <1>4 DEF Target
  <2>3. QED
    BY <1>1, <1>4, <2>1, <2>2, GetFromInd
<1>5. QED
  BY <1>2, <1>3, <1>4 DEF Poll

LEMMA ClearInd ==
  ASSUME TypeOK, ListInv, Clear
  PROVE  ListInv'
<1>1. /\ counter = Len(chain) /\ exists /\ array = <<>> /\ ListIsChain
      /\ UNCHANGED list /\ Len(chain) \in Nat
      /\ el' = root /\ pc' = "clear" /\ counter' = counter /\ array' = array
  BY CountedAll, ChainType DEF Clear, ListInv
<1>2. Len(array') = 0 /\ First(0) = <<>>
  BY <1>1 DEF First
<1>3. el' = IF 0 = Len(chain) THEN Null ELSE At(0)
  BY <1>1, RootIsFirst, ChainType
<1>4. Clearing'
  BY <1>1, <1>2, <1>3 DEF Clearing, First, At
<1>5. Counting' /\ Getting' /\ Unlinking'
  BY <1>1 DEF Counting, Getting, Unlinking
<1>6. QED
  BY <1>1, <1>4, <1>5, SameList DEF ListInv

LEMMA GetNextInd ==
  ASSUME TypeOK, ListInv, GetNext
  PROVE  ListInv'
<1>1. /\ exists /\ ListIsChain /\ Getting /\ UNCHANGED list
      /\ pc = "get" /\ pc' = "get" /\ left > 0 /\ left' = left - 1 /\ el' = next[el]
      /\ UNCHANGED <<op, index, counter, array>>
  BY GettingEl DEF GetNext
<1>2. Len(chain) \in Nat /\ left \in Nat
  BY ChainType DEF TypeOK
<1>3. /\ counter = Len(chain) /\ Target \in 0 .. counter - 1 /\ left \in 0 .. Target
      /\ el = At(Target - left)
  BY <1>1 DEF Getting
<1>4. /\ Target - left \in 0 .. Len(chain) - 1 /\ Target - left # Len(chain) - 1
      /\ Target - left + 1 = Target - left' /\ left' \in 0 .. Target
  BY <1>1, <1>2, <1>3
<1>5. el' = At(Target - left')
  BY <1>1, <1>3, <1>4, NextOfAt
<1>6. Target' = Target /\ \A k : At(k)' = At(k) /\ First(k)' = First(k)
  BY <1>1, SameList DEF Target
<1>7. At(Target - left)' = At(Target - left')
  BY <1>1, <1>6 DEF At
<1>8. Getting'
  BY <1>1, <1>3, <1>4, <1>5, <1>6, <1>7 DEF Getting
<1>9. Counting' /\ Unlinking' /\ Clearing'
  BY <1>1 DEF Counting, Unlinking, Clearing
<1>10. QED
  BY <1>1, <1>8, <1>9, SameList DEF ListInv

LEMMA GetDoneInd ==
  ASSUME ListInv, GetDone
  PROVE  ListInv'
BY ReturnInd DEF GetDone

\* The nodes gathered, and the one after them.
LEMMA FirstNext ==
  ASSUME TypeOK, ListIsChain, exists, NEW k \in 0 .. Len(chain) - 1
  PROVE  /\ First(k) \in Seq(Node) /\ Len(First(k)) = k
         /\ Append(First(k), At(k)) = First(k + 1)
<1>1. Len(chain) \in Nat /\ k \in Nat
  BY ChainType
<1>2. \A j \in 1 .. k : At(j - 1) \in Node
  <2>1. \A j \in 1 .. k : j - 1 \in 0 .. Len(chain) - 1
    BY <1>1
  <2>2. QED
    BY <2>1, NextOfAt
<1>3. First(k) \in Seq(Node)
  BY <1>1, <1>2, IsASeq DEF First
<1>4. Len(First(k)) = k
  BY <1>1, <1>3, LenProperties DEF First
<1>5. At(k) \in Node
  BY NextOfAt
<1>6. /\ Append(First(k), At(k)) \in Seq(Node)
      /\ Len(Append(First(k), At(k))) = k + 1
      /\ \A j \in 1 .. k : Append(First(k), At(k))[j] = First(k)[j]
      /\ Append(First(k), At(k))[k + 1] = At(k)
  BY <1>3, <1>4, <1>5, AppendProperties
<1>7. Append(First(k), At(k)) = [j \in 1 .. k + 1 |-> Append(First(k), At(k))[j]]
  BY <1>6, LenProperties
<1>8. \A j \in 1 .. k + 1 : Append(First(k), At(k))[j] = At(j - 1)
  <2>1. ASSUME NEW j \in 1 .. k + 1 PROVE Append(First(k), At(k))[j] = At(j - 1)
    <3>1. CASE j = k + 1
      <4>1. j - 1 = k
        BY <1>1, <3>1
      <4>2. QED
        BY <1>6, <3>1, <4>1
    <3>2. CASE j # k + 1
      <4>1. j \in 1 .. k
        BY <1>1, <3>2
      <4>2. First(k)[j] = At(j - 1)
        BY <4>1 DEF First
      <4>3. QED
        BY <1>6, <4>1, <4>2
    <3>3. QED
      BY <3>1, <3>2
  <2>2. QED
    BY <2>1
<1>9. QED
  BY <1>3, <1>4, <1>7, <1>8 DEF First

LEMMA GetAllNextInd ==
  ASSUME TypeOK, ListInv, GetAllNext
  PROVE  ListInv'
<1>1. /\ exists /\ ListIsChain /\ Getting /\ UNCHANGED list /\ pc = "get" /\ op = "getAll"
      /\ Len(chain) \in Nat /\ index \in Nat /\ left = 0
  BY GettingEl, ChainType DEF GetAllNext, Found, TypeOK
<1>2. /\ counter = Len(chain) /\ index \in 0 .. Len(chain) - 1 /\ el = At(index - 0)
      /\ array = First(index)
  BY <1>1 DEF Getting, Target
<1>3. el = At(index)
  BY <1>1, <1>2
<1>4. CASE Return(Answered(Messages(Append(array, el))))
  BY <1>1, <1>4, ReturnInd
<1>5. CASE /\ index + 1 < counter
           /\ array' = Append(array, el)
           /\ index' = index + 1
           /\ GetFrom(index + 1)
           /\ UNCHANGED <<op, counter, nextTail, answer>>
  <2>1. index + 1 \in 0 .. Len(chain) - 1
    BY <1>1, <1>2, <1>5
  <2>2. op' = "getAll" /\ counter' = Len(chain) /\ Target' = index + 1
    BY <1>1, <1>2, <1>5 DEF Target
  <2>3. array' = First(index + 1)
    BY <1>1, <1>2, <1>3, <1>5, FirstNext
  <2>4. First(index') = First(index + 1)
    BY <1>5
  <2>5. QED
    BY <1>1, <1>5, <2>1, <2>2, <2>3, <2>4, GetFromInd
<1>6. QED
  BY <1>4, <1>5 DEF GetAllNext

LEMMA PollFoundInd ==
  ASSUME TypeOK, ListInv, PollFound
  PROVE  ListInv'
<1>1. /\ exists /\ ListIsChain /\ Getting /\ UNCHANGED list /\ pc = "get" /\ pc' = "unlink"
      /\ op = "poll" /\ left = 0 /\ nextTail' = el /\ Len(chain) \in Nat
  BY GettingEl, ChainType DEF PollFound, Found
<1>2. /\ counter = Len(chain) /\ Len(chain) - 2 \in 0 .. Len(chain) - 1
      /\ el = At(Len(chain) - 2 - 0)
  BY <1>1 DEF Getting, Target
<1>3. Len(chain) >= 2 /\ Len(chain) - (Len(chain) - 2 - 0) = 2
  BY <1>1, <1>2
<1>4. chain # <<>> /\ el = chain[2]
  BY <1>2, <1>3, ChainType DEF At
<1>5. Unlinking'
  BY <1>1, <1>3, <1>4 DEF Unlinking
<1>6. Counting' /\ Getting' /\ Clearing'
  BY <1>1 DEF Counting, Getting, Clearing
<1>7. QED
  BY <1>1, <1>5, <1>6, SameList DEF ListInv

LEMMA ClearNextInd ==
  ASSUME TypeOK, ListInv, ClearNext
  PROVE  ListInv'
<1>1. /\ exists /\ ListIsChain /\ Clearing /\ UNCHANGED list /\ pc = "clear" /\ pc' = "clear"
      /\ el # Null /\ array' = Append(array, el) /\ el' = next[el] /\ counter' = counter
      /\ Len(chain) \in Nat
  BY ChainType DEF ClearNext, ListInv
<1> DEFINE k == Len(array)
<1>2. counter = Len(chain) /\ k \in 0 .. Len(chain) - 1 /\ array = First(k) /\ el = At(k)
  BY <1>1 DEF Clearing
<1>3. k \in Nat /\ k + 1 \in 0 .. Len(chain)
  BY <1>1, <1>2
<1>4. array' = First(k + 1)
  BY <1>1, <1>2, FirstNext
<1>5. Len(array') = k + 1
  BY <1>1, <1>2, AppendProperties, NextOfAt DEF TypeOK
<1>6. el' = IF k + 1 = Len(chain) THEN Null ELSE At(k + 1)
  <2>1. next[At(k)] = IF k = Len(chain) - 1 THEN Null ELSE At(k + 1)
    BY <1>1, <1>2, NextOfAt
  <2>2. k = Len(chain) - 1 <=> k + 1 = Len(chain)
    BY <1>1, <1>3
  <2>3. QED
    BY <1>1, <1>2, <2>1, <2>2
<1>7. Clearing'
  BY <1>1, <1>2, <1>3, <1>4, <1>5, <1>6, SameList DEF Clearing
<1>8. Counting' /\ Getting' /\ Unlinking'
  BY <1>1 DEF Counting, Getting, Unlinking
<1>9. QED
  BY <1>1, <1>7, <1>8, SameList DEF ListInv

\* A new root points to the old one, and is none of the nodes in the list.
LEMMA AddInd ==
  ASSUME TypeOK, ListInv, NEW n \in Node, NEW m, Add(n, m)
  PROVE  ListInv'
<1>1. /\ exists /\ exists' /\ pc' = "idle" /\ array' = <<>> /\ ListIsChain /\ Linked \subseteq allocated
      /\ n \notin allocated /\ allocated' = allocated \cup {n} /\ Len(chain) \in Nat
  BY ChainType DEF Add, Return, ListInv
<1>2. \A k \in 1 .. Len(chain) : chain[k] \in Node /\ chain[k] \in allocated /\ chain[k] # n
  BY <1>1, ChainType DEF Linked
<1>3. CASE /\ next' = [next EXCEPT ![n] = root]
           /\ root' = n
           /\ tail' = IF root = Null THEN n ELSE tail
           /\ chain' = Append(chain, n)
  <2>1. /\ chain' \in Seq(Node) /\ Len(chain') = Len(chain) + 1
        /\ \A k \in 1 .. Len(chain) : chain'[k] = chain[k]
        /\ chain'[Len(chain) + 1] = n
    BY <1>3, AppendProperties DEF TypeOK
  <2>2. DOMAIN chain' = 1 .. Len(chain) + 1 /\ chain' # <<>>
    BY <2>1, <1>1, LenProperties
  <2>3. \A k \in DOMAIN chain' : k \in 1 .. Len(chain) \/ k = Len(chain) + 1
    BY <2>2, <1>1
  <2>4. root' = chain'[Len(chain')]
    BY <1>3, <2>1
  <2>5. tail' = chain'[1]
    <3>1. CASE chain = <<>>
      BY <1>1, <1>3, <2>1, <3>1, ChainType, RootIsFirst
    <3>2. CASE chain # <<>>
      <4>1. 1 \in 1 .. Len(chain)
        BY <1>1, <3>2, ChainType
      <4>2. root # Null /\ tail = chain[1]
        BY <1>1, <3>2, RootIsFirst DEF ListIsChain
      <4>3. QED
        BY <1>3, <2>1, <4>1, <4>2
    <3>3. QED
      BY <3>1, <3>2
  <2>6. ASSUME NEW k \in DOMAIN chain'
        PROVE  next'[chain'[k]] = IF k = 1 THEN Null ELSE chain'[k - 1]
    <3>1. CASE k \in 1 .. Len(chain)
      <4>1. next'[chain'[k]] = next[chain[k]]
        BY <1>2, <1>3, <2>1, <3>1 DEF TypeOK
      <4>2. next[chain[k]] = IF k = 1 THEN Null ELSE chain[k - 1]
        BY <1>1, <3>1, ChainType DEF ListIsChain
      <4>3. k # 1 => k - 1 \in 1 .. Len(chain)
        BY <1>1, <3>1
      <4>4. QED
        BY <2>1, <4>1, <4>2, <4>3
    <3>2. CASE k = Len(chain) + 1
      <4>1. next'[n] = root
        BY <1>3 DEF TypeOK
      <4>2. CASE chain = <<>>
        BY <1>1, <2>1, <3>2, <4>1, <4>2, ChainType, RootIsFirst
      <4>3. CASE chain # <<>>
        <5>1. Len(chain) \in 1 .. Len(chain) /\ k # 1 /\ k - 1 = Len(chain)
          BY <1>1, <3>2, <4>3, ChainType
        <5>2. root = chain[Len(chain)]
          BY <1>1, <4>3 DEF ListIsChain
        <5>3. QED
          BY <2>1, <3>2, <4>1, <5>1, <5>2
      <4>4. QED
        BY <4>2, <4>3
    <3>3. QED
      BY <2>3, <3>1, <3>2
  <2>7. ASSUME NEW j \in DOMAIN chain', NEW k \in DOMAIN chain', chain'[j] = chain'[k]
        PROVE  j = k
    <3>1. CASE j \in 1 .. Len(chain) /\ k \in 1 .. Len(chain)
      BY <1>1, <2>1, <2>7, <3>1, ChainType DEF ListIsChain
    <3>2. CASE j = Len(chain) + 1 \/ k = Len(chain) + 1
      BY <1>2, <2>1, <2>3, <2>7, <3>2
    <3>3. QED
      BY <2>3, <3>1, <3>2
  <2>8. ListIsChain'
    BY <2>2, <2>4, <2>5, <2>6, <2>7 DEF ListIsChain
  <2>9. Linked' \subseteq allocated'
    <3>1. \A k \in DOMAIN chain' : chain'[k] \in allocated'
      BY <1>1, <1>2, <2>1, <2>3
    <3>2. QED
      BY <3>1 DEF Linked
  <2>10. QED
    BY <1>1, <2>8, <2>9, NoLoop DEF ListInv
<1>4. CASE next' = [next EXCEPT ![n] = Null] /\ UNCHANGED <<root, tail, chain>>
  <2>1. \A k \in 1 .. Len(chain) : next'[chain[k]] = next[chain[k]]
    BY <1>2, <1>4 DEF TypeOK
  <2>2. ListIsChain'
    BY <1>1, <1>4, <2>1, ChainType DEF ListIsChain
  <2>3. Linked' \subseteq allocated'
    BY <1>1, <1>4 DEF Linked
  <2>4. QED
    BY <1>1, <2>2, <2>3, NoLoop DEF ListInv
<1>5. QED
  BY <1>3, <1>4 DEF Add

\* The list without its tail ends at the next tail.
LEMMA UnlinkInd ==
  ASSUME TypeOK, ListInv, Unlink
  PROVE  ListInv'
<1>1. /\ exists /\ exists' /\ pc = "unlink" /\ pc' = "idle" /\ array' = <<>> /\ ListIsChain
      /\ Unlinking /\ chain # <<>> /\ Len(chain) >= 1 /\ tail = chain[1] /\ Linked \subseteq allocated
      /\ allocated' = allocated \ {tail} /\ chain' = Tail(chain) /\ Len(chain) \in Nat
  BY UnlinkingTail, ChainType DEF Unlink, Return, ListInv
<1>2. /\ chain' \in Seq(Node) /\ Len(chain') = Len(chain) - 1
      /\ \A k \in 1 .. Len(chain) - 1 : chain'[k] = chain[k + 1]
  BY <1>1, HeadTailProperties DEF TypeOK
<1>3. DOMAIN chain' = 1 .. Len(chain) - 1
  BY <1>2, LenProperties
<1>4. \A j, k \in 1 .. Len(chain) : chain[j] = chain[k] => j = k
  BY <1>1, ChainType DEF ListIsChain
<1>5. \A k \in DOMAIN chain' : k \in Nat /\ k >= 1 /\ k + 1 \in 2 .. Len(chain) /\ k + 1 # 1
  BY <1>1, <1>3
<1>6. \A k \in 1 .. Len(chain) : chain[k] \in Node /\ chain[k] \in allocated
  BY <1>1, ChainType DEF Linked
<1>7. Linked' \subseteq allocated'
  <2>1. \A k \in DOMAIN chain' : chain'[k] = chain[k + 1]
    BY <1>2, <1>3
  <2>2. 1 \in 1 .. Len(chain)
    BY <1>1
  <2>3. \A k \in DOMAIN chain' : k + 1 \in 1 .. Len(chain) /\ chain[k + 1] # chain[1]
    BY <1>1, <1>4, <1>5, <2>2
  <2>4. \A k \in DOMAIN chain' : chain'[k] \in allocated'
    BY <1>1, <1>6, <2>1, <2>3
  <2>5. QED
    BY <2>4 DEF Linked
<1>8. \A j, k \in DOMAIN chain' : chain'[j] = chain'[k] => j = k
  <2>1. ASSUME NEW j \in DOMAIN chain', NEW k \in DOMAIN chain', chain'[j] = chain'[k]
        PROVE  j = k
    <3>1. j + 1 \in 1 .. Len(chain) /\ k + 1 \in 1 .. Len(chain) /\ chain[j + 1] = chain[k + 1]
      BY <1>2, <1>3, <1>5, <2>1
    <3>2. j + 1 = k + 1
      BY <1>4, <3>1
    <3>3. QED
      BY <1>5, <3>2
  <2>2. QED
    BY <2>1
<1>9. CASE Len(chain) = 1
  <2>1. nextTail = Null
    BY <1>1, <1>9 DEF Unlinking
  <2>2. root' = Null /\ tail' = Null
    BY <2>1 DEF Unlink
  <2>3. chain' = <<>> /\ DOMAIN chain' = {}
    BY <1>2, <1>3, <1>9, EmptySeq
  <2>4. ListIsChain'
    BY <2>2, <2>3 DEF ListIsChain
  <2>5. QED
    BY <1>1, <1>7, <2>4, NoLoop DEF ListInv
<1>10. CASE Len(chain) >= 2
  <2>0. Len(chain) \in Nat /\ Len(chain) >= 2 /\ Len(chain) # 1
    BY <1>1, <1>10
  <2>1. 2 \in 1 .. Len(chain) /\ Len(chain) \in 1 .. Len(chain)
    BY <2>0
  <2>2. nextTail = chain[2] /\ nextTail \in Node /\ nextTail # Null
    BY <1>1, <1>6, <2>0, <2>1, NullAssumption DEF Unlinking
  <2>3. next' = [next EXCEPT ![chain[2]] = Null] /\ tail' = chain[2] /\ root' = root
    BY <2>2 DEF Unlink
  <2>4. chain' # <<>> /\ Len(chain') \in 1 .. Len(chain) - 1 /\ 1 \in 1 .. Len(chain) - 1
    <3>1. Len(chain') = Len(chain) - 1
      BY <1>2
    <3>2. Len(chain') \in 1 .. Len(chain) - 1 /\ 1 \in 1 .. Len(chain) - 1
      BY <2>0, <3>1
    <3>3. QED
      BY <2>0, <3>1, <3>2, EmptySeq
  <2>5. root' = chain'[Len(chain')]
    <3>1. root = chain[Len(chain)]
      BY <1>1 DEF ListIsChain
    <3>2. chain'[Len(chain')] = chain[Len(chain') + 1]
      BY <1>2, <2>4
    <3>3. Len(chain') + 1 = Len(chain)
      BY <1>1, <1>2
    <3>4. QED
      BY <2>3, <3>1, <3>2, <3>3
  <2>6. tail' = chain'[1]
    <3>1. chain'[1] = chain[1 + 1]
      BY <1>2, <2>4
    <3>2. QED
      BY <2>3, <3>1
  <2>7. ASSUME NEW k \in DOMAIN chain'
        PROVE  next'[chain'[k]] = IF k = 1 THEN Null ELSE chain'[k - 1]
    <3>1. chain'[k] = chain[k + 1] /\ k + 1 \in 1 .. Len(chain) /\ k \in Nat /\ k >= 1
      BY <1>1, <1>2, <1>3, <1>5
    <3>2. CASE k = 1
      BY <1>6, <2>1, <2>3, <3>1, <3>2 DEF TypeOK
    <3>3. CASE k # 1
      <4>1. k + 1 # 2 /\ k + 1 - 1 = k /\ k - 1 \in 1 .. Len(chain) - 1 /\ k - 1 + 1 = k
        BY <1>3, <3>1, <3>3
      <4>2. chain[k + 1] # chain[2]
        BY <1>4, <2>1, <3>1, <4>1
      <4>3. next'[chain[k + 1]] = next[chain[k + 1]]
        BY <1>6, <2>3, <3>1, <4>2 DEF TypeOK
      <4>4. next[chain[k + 1]] = chain[k + 1 - 1]
        BY <1>1, <1>5, <3>1, ChainType DEF ListIsChain
      <4>5. chain'[k - 1] = chain[k - 1 + 1]
        BY <1>2, <4>1
      <4>6. QED
        BY <3>1, <3>3, <4>1, <4>3, <4>4, <4>5
    <3>4. QED
      BY <3>2, <3>3
  <2>8. ListIsChain'
    BY <1>8, <2>4, <2>5, <2>6, <2>7 DEF ListIsChain
  <2>9. QED
    BY <1>1, <1>7, <2>8, NoLoop DEF ListInv
<1>11. Len(chain) = 1 \/ Len(chain) >= 2
  <2>1. \A k \in Nat : k >= 1 => k = 1 \/ k >= 2
    OBVIOUS
  <2>2. Len(chain) \in Nat /\ Len(chain) >= 1
    BY <1>1
  <2>3. QED
    BY <2>1, <2>2, Zenon
<1>12. QED
  BY <1>9, <1>10, <1>11

\* No list is left to speak of.
LEMMA GoneInd ==
  ASSUME ~exists', chain' = <<>>, pc' = "idle", array' = <<>>
  PROVE  ListInv'
<1>1. ListIsChain' /\ Linked' \subseteq allocated'
  BY DEF ListIsChain, Linked
<1>2. QED
  BY <1>1, NoLoop DEF ListInv

LEMMA NextInd == ASSUME TypeOK, ListInv, [Next]_vars PROVE ListInv'
<1>1. CASE UNCHANGED vars
  BY <1>1 DEF vars, ListInv, ListIsChain, Linked, Counting, Getting, Unlinking, Clearing,
             Target, At, First
<1>2. CASE New
  BY <1>2, NewInd
<1>3. ASSUME NEW n \in Node, NEW m \in Message, Add(n, m) PROVE ListInv'
  BY <1>3, AddInd
<1>4. ASSUME NEW k \in Index, Begin("get", k) PROVE ListInv'
  BY <1>4, BeginInd
<1>5. ASSUME NEW o \in Calls \ {"get"}, Begin(o, 0) PROVE ListInv'
  BY <1>5, BeginInd
<1>6. CASE Step
  <2>1. CASE Length
    BY <2>1, ReturnInd DEF Length
  <2>2. CASE UnlinkFails
    BY <2>2, GoneInd DEF UnlinkFails, Return
  <2>3. CASE Destruct
    BY <2>3, GoneInd DEF Destruct, Return
  <2>4. QED
    BY <1>6, <2>1, <2>2, <2>3, CountNextInd, GetInd, GetAllInd, PollInd, ClearInd, GetNextInd,
       GetDoneInd, GetAllNextInd, PollFoundInd, UnlinkInd, ClearNextInd DEF Step
<1>7. QED
  BY <1>1, <1>2, <1>3, <1>4, <1>5, <1>6 DEF Next

-----------------------------------------------------------------------------
(* The theorems                                                             *)

\* In every state of a queue each variable has its type, and every loop of queue.c is
\* at the node of the list it is meant to be at.
THEOREM ListInductive == Spec => []IndInv
<1>1. Init => TypeOK /\ ListInv
  <2> SUFFICES ASSUME Init PROVE TypeOK /\ ListInv
    OBVIOUS
  <2>1. (CHOOSE m \in Message : TRUE) \in Message
    BY MessageAssumption
  <2>2. TypeOK
    BY <2>1, EmptySeq, EmptyAnswers DEF Init, TypeOK, Calls
  <2>3. ListInv
    BY DEF Init, ListInv, ListIsChain, Linked, Counting, Getting, Unlinking, Clearing
  <2>4. QED
    BY <2>2, <2>3
<1>2. TypeOK /\ ListInv /\ [Next]_vars => TypeOK' /\ ListInv'
  BY NextType, NextInd
<1>3. QED
  BY <1>1, <1>2, PTL DEF Spec, IndInv

\* Every variable of the queue has its type in every state.
THEOREM QueueTypeCorrect == Spec => []TypeOK
BY ListInductive, PTL DEF IndInv

\* However nodes are added and polled, next leads from the root to the tail through
\* every node of the queue, once, from the newest to the oldest.
THEOREM QueueStaysLinked == Spec => []ListIsChain
<1>1. ListInv => ListIsChain
  BY DEF ListInv
<1>2. QED
  BY <1>1, ListInductive, PTL DEF IndInv

\* The loops of Queue_size, Queue_get and Queue_clear, and Queue_poll between them,
\* never follow NULL and never touch a node that was freed.
THEOREM QueuePointersLive == Spec => []PointersAreLive
<1>1. ASSUME TypeOK, ListInv PROVE PointersAreLive
  <2>1. Linked \subseteq allocated /\ Len(chain) \in Nat
    BY <1>1, ChainType DEF ListInv
  <2>2. pc = "get" => el \in allocated
    BY <1>1, <2>1, GettingEl
  <2>3. ASSUME pc = "size", el # Null PROVE el \in allocated
    <3>1. exists /\ ListIsChain /\ Counting
      BY <1>1, <2>3 DEF ListInv
    <3>2. counter \in 1 .. Len(chain) /\ el = At(counter - 1)
      BY <2>3, <3>1 DEF Counting
    <3>3. counter - 1 \in 0 .. Len(chain) - 1
      BY <2>1, <3>2
    <3>4. QED
      BY <1>1, <2>1, <3>1, <3>2, <3>3, NextOfAt
  <2>4. ASSUME pc = "clear", el # Null PROVE el \in allocated
    <3>1. exists /\ ListIsChain /\ Clearing
      BY <1>1, <2>4 DEF ListInv
    <3>2. Len(array) \in 0 .. Len(chain) /\ Len(array) # Len(chain) /\ el = At(Len(array))
      BY <2>4, <3>1 DEF Clearing
    <3>3. Len(array) \in 0 .. Len(chain) - 1
      BY <2>1, <3>2
    <3>4. QED
      BY <1>1, <2>1, <3>1, <3>2, <3>3, NextOfAt
  <2>5. ASSUME pc = "unlink" PROVE tail \in allocated /\ (nextTail # Null => nextTail \in allocated \ {tail})
    <3>1. /\ exists /\ ListIsChain /\ Unlinking /\ Len(chain) >= 1 /\ tail = chain[1]
          /\ tail \in Linked
      BY <1>1, <2>5, UnlinkingTail
    <3>2. ASSUME nextTail # Null PROVE nextTail \in allocated \ {tail}
      <4>1. Len(chain) # 1 /\ nextTail = chain[2]
        BY <2>5, <3>1, <3>2 DEF Unlinking
      <4>2. 1 \in DOMAIN chain /\ 2 \in DOMAIN chain
        BY <1>1, <2>1, <3>1, <4>1, ChainType
      <4>3. chain[2] # chain[1] /\ chain[2] \in Linked
        BY <3>1, <4>2 DEF ListIsChain, Linked
      <4>4. QED
        BY <2>1, <3>1, <4>1, <4>3
    <3>3. QED
      BY <2>1, <3>1, <3>2
  <2>6. QED
    BY <2>2, <2>3, <2>4, <2>5 DEF PointersAreLive
<1>2. QED
  BY <1>1, ListInductive, PTL DEF IndInv

-----------------------------------------------------------------------------
(* The sequence of messages                                                 *)

LEMMA MessagesOf ==
  ASSUME TypeOK, NEW s \in Seq(Node)
  PROVE  /\ Messages(s) \in Seq(Message)
         /\ Len(Messages(s)) = Len(s)
         /\ Len(s) \in Nat
         /\ \A k \in 1 .. Len(s) : Messages(s)[k] = message[s[k]]
<1>1. Len(s) \in Nat /\ DOMAIN s = 1 .. Len(s)
  BY LenProperties
<1>2. \A k \in 1 .. Len(s) : message[s[k]] \in Message
  BY ElementOfSeq DEF TypeOK
<1>3. Messages(s) = [k \in 1 .. Len(s) |-> message[s[k]]]
  BY <1>1 DEF Messages
<1>4. Messages(s) \in Seq(Message)
  BY <1>1, <1>2, <1>3, IsASeq
<1>5. Len(Messages(s)) = Len(s)
  BY <1>1, <1>3, <1>4, LenProperties
<1>6. QED
  BY <1>1, <1>3, <1>4, <1>5

\* The messages of a list are numbered as its nodes are.
LEMMA ItemOf ==
  ASSUME TypeOK, NEW k \in 0 .. Len(chain) - 1
  PROVE  Sequence!Item(k) = message[At(k)]
<1>1. Len(Messages(chain)) = Len(chain) /\ Len(chain) \in Nat
      /\ \A j \in 1 .. Len(chain) : Messages(chain)[j] = message[chain[j]]
  BY MessagesOf DEF TypeOK
<1>2. Len(chain) - k \in 1 .. Len(chain)
  BY <1>1
<1>3. QED
  BY <1>1, <1>2 DEF Sequence!Item, At

LEMMA SameItems ==
  ASSUME UNCHANGED <<chain, message>>
  PROVE  UNCHANGED Messages(chain)
BY DEF Messages

LEMMA AddMapped ==
  ASSUME TypeOK, ListInv, NEW n \in Node, NEW m \in Message, Add(n, m)
  PROVE  Sequence!Next
<1>1. /\ n \notin allocated /\ Linked \subseteq allocated /\ chain \in Seq(Node)
      /\ message' = [message EXCEPT ![n] = m] /\ message \in [Node -> Message]
  BY DEF Add, ListInv, TypeOK
<1>2. \A k \in 1 .. Len(chain) : chain[k] \in Node /\ chain[k] # n
  BY <1>1, ChainType DEF Linked
<1>3. \A k \in 1 .. Len(chain) : message'[chain[k]] = message[chain[k]]
  BY <1>1, <1>2
<1>4. CASE chain' = Append(chain, n) /\ answer' = Answered(<<>>)
  <2>1. /\ chain' \in Seq(Node) /\ Len(chain') = Len(chain) + 1
        /\ \A k \in 1 .. Len(chain) : chain'[k] = chain[k]
        /\ chain'[Len(chain) + 1] = n
    BY <1>1, <1>4, AppendProperties
  <2>2. /\ Messages(chain) \in Seq(Message) /\ Len(Messages(chain)) = Len(chain)
        /\ Len(chain) \in Nat
        /\ \A k \in 1 .. Len(chain) : Messages(chain)[k] = message[chain[k]]
    BY <1>1, MessagesOf
  <2>3. Messages(chain)' = [k \in 1 .. Len(chain) + 1 |-> message'[chain'[k]]]
    BY <2>1, <2>2, LenProperties DEF Messages
  <2>4. /\ Append(Messages(chain), m) \in Seq(Message)
        /\ Len(Append(Messages(chain), m)) = Len(chain) + 1
        /\ \A k \in 1 .. Len(chain) : Append(Messages(chain), m)[k] = Messages(chain)[k]
        /\ Append(Messages(chain), m)[Len(chain) + 1] = m
    BY <2>2, AppendProperties
  <2>5. Append(Messages(chain), m) =
          [k \in 1 .. Len(chain) + 1 |-> Append(Messages(chain), m)[k]]
    BY <2>4, LenProperties
  <2>6. ASSUME NEW k \in 1 .. Len(chain) + 1
        PROVE  message'[chain'[k]] = Append(Messages(chain), m)[k]
    <3>1. k \in 1 .. Len(chain) \/ k = Len(chain) + 1
      BY <2>2
    <3>2. message'[n] = m
      BY <1>1
    <3>3. QED
      BY <1>3, <2>1, <2>2, <2>4, <3>1, <3>2
  <2>7. Messages(chain)' = Append(Messages(chain), m)
    BY <2>3, <2>5, <2>6
  <2>8. Sequence!Add(m)
    BY <1>4, <2>7 DEF Sequence!Add, Sequence!Answered, Answered
  <2>9. QED
    BY <2>8 DEF Sequence!Next
<1>5. CASE chain' = chain /\ answer' = Refused
  <2>1. Messages(chain)' = Messages(chain)
    BY <1>3, <1>5, ChainType DEF Messages
  <2>2. Sequence!Refuse
    BY <1>5, <2>1 DEF Sequence!Refuse, Sequence!Refused, Refused
  <2>3. QED
    BY <2>2 DEF Sequence!Next
<1>6. QED
  BY <1>4, <1>5 DEF Add, Return

LEMMA RefuseMapped ==
  ASSUME UNCHANGED list, Return(Refused)
  PROVE  Sequence!Next
BY SameItems DEF Return, Sequence!Next, Sequence!Refuse, Sequence!Refused, Refused

LEMMA GetAllMapped ==
  ASSUME TypeOK, UNCHANGED list,
         answer' = Answered([k \in 1 .. Len(chain) |-> message[At(k - 1)]])
  PROVE  Sequence!Next
<1>1. Len(Messages(chain)) = Len(chain) /\ Len(chain) \in Nat
  BY MessagesOf DEF TypeOK
<1>2. \A k \in 1 .. Len(chain) : k - 1 \in 0 .. Len(chain) - 1
  BY <1>1
<1>3. \A k \in 1 .. Len(chain) : message[At(k - 1)] = Sequence!Item(k - 1)
  BY <1>2, ItemOf
<1>4. [k \in 1 .. Len(Messages(chain)) |-> Sequence!Item(k - 1)] =
        [k \in 1 .. Len(chain) |-> message[At(k - 1)]]
  BY <1>1, <1>3
<1>5. Sequence!GetAll
  BY <1>4, SameItems DEF Sequence!GetAll, Sequence!Answered, Answered
<1>6. QED
  BY <1>5 DEF Sequence!Next

LEMMA UnlinkMapped ==
  ASSUME TypeOK, ListInv, Unlink
  PROVE  Sequence!Next
<1>1. /\ chain \in Seq(Node) /\ chain # <<>> /\ tail = chain[1] /\ Len(chain) >= 1
      /\ chain' = Tail(chain) /\ message' = message /\ answer' = Answered(<<message[tail]>>)
  BY UnlinkingTail DEF Unlink, Return, TypeOK
<1>2. /\ Messages(chain) \in Seq(Message) /\ Len(Messages(chain)) = Len(chain)
      /\ Len(chain) \in Nat
      /\ \A k \in 1 .. Len(chain) : Messages(chain)[k] = message[chain[k]]
  BY <1>1, MessagesOf
<1>3. Messages(chain) # <<>>
  BY <1>1, <1>2, EmptySeq
<1>4. /\ chain' \in Seq(Node) /\ Len(chain') = Len(chain) - 1
      /\ \A k \in 1 .. Len(chain) - 1 : chain'[k] = chain[k + 1]
  BY <1>1, HeadTailProperties
<1>5. /\ Tail(Messages(chain)) \in Seq(Message) /\ Len(Tail(Messages(chain))) = Len(chain) - 1
      /\ \A k \in 1 .. Len(chain) - 1 : Tail(Messages(chain))[k] = Messages(chain)[k + 1]
      /\ Head(Messages(chain)) = Messages(chain)[1]
  BY <1>2, <1>3, HeadTailProperties
<1>6. Messages(chain)' = [k \in 1 .. Len(chain) - 1 |-> message[chain'[k]]]
  BY <1>1, <1>4, LenProperties DEF Messages
<1>7. Tail(Messages(chain)) = [k \in 1 .. Len(chain) - 1 |-> Tail(Messages(chain))[k]]
  BY <1>5, LenProperties
<1>8. \A k \in 1 .. Len(chain) - 1 : k + 1 \in 1 .. Len(chain)
  BY <1>2
<1>9. \A k \in 1 .. Len(chain) - 1 : message[chain'[k]] = Tail(Messages(chain))[k]
  BY <1>2, <1>4, <1>5, <1>8
<1>10. Messages(chain)' = Tail(Messages(chain))
  BY <1>6, <1>7, <1>9
<1>11. message[tail] = Head(Messages(chain))
  <2>1. 1 \in 1 .. Len(chain)
    BY <1>1, <1>2
  <2>2. QED
    BY <1>1, <1>2, <1>5, <2>1
<1>12. Sequence!Poll
  BY <1>1, <1>3, <1>10, <1>11 DEF Sequence!Poll, Sequence!Answered, Answered
<1>13. QED
  BY <1>12 DEF Sequence!Next

LEMMA DiscardMapped ==
  ASSUME chain' = <<>>, answer' = Answered(<<>>)
  PROVE  Sequence!Next
<1>1. Messages(chain)' = <<>>
  BY DEF Messages
<1>2. Sequence!Discard
  BY <1>1 DEF Sequence!Discard, Sequence!Answered, Answered
<1>3. QED
  BY <1>2 DEF Sequence!Next

\* A step of the loops changes no message and gives no answer; the step that returns
\* gives the answer of the sequence.
LEMMA StepMapped ==
  ASSUME TypeOK, ListInv, Step
  PROVE  Sequence!Next \/ UNCHANGED Sequence!vars
<1>1. ASSUME UNCHANGED <<list, answer>> PROVE UNCHANGED Sequence!vars
  BY <1>1, SameItems DEF Sequence!vars
<1>2. CASE CountNext \/ Clear \/ GetNext \/ PollFound \/ ClearNext
  BY <1>1, <1>2 DEF CountNext, Clear, GetNext, PollFound, ClearNext
<1>3. CASE Length
  <2>1. counter = Len(Messages(chain))
    BY <1>3, CountedAll, MessagesOf DEF Length, TypeOK
  <2>2. Sequence!Length
    BY <1>3, <2>1, SameItems DEF Length, Return, Sequence!Length, Sequence!Answered, Answered
  <2>3. QED
    BY <2>2 DEF Sequence!Next
<1>4. CASE Get
  BY <1>1, <1>4, RefuseMapped DEF Get, GetFrom
<1>5. CASE GetAll
  <2>1. CASE UNCHANGED <<list, answer>>
    BY <1>1, <2>1
  <2>2. CASE counter = 0 /\ Return(Answered(<<>>)) /\ UNCHANGED list
    <3>1. Len(chain) = 0
      BY <1>5, <2>2, CountedAll DEF GetAll
    <3>2. [k \in 1 .. Len(chain) |-> message[At(k - 1)]] = <<>>
      BY <3>1
    <3>3. QED
      BY <2>2, <3>2, GetAllMapped DEF Return
  <2>3. QED
    BY <1>5, <2>1, <2>2 DEF GetAll
<1>6. CASE Poll
  BY <1>1, <1>6, RefuseMapped DEF Poll, GetFrom
<1>7. CASE GetDone
  <2>1. /\ Getting /\ pc = "get" /\ op = "get" /\ left = 0 /\ Len(chain) \in Nat
        /\ UNCHANGED list /\ answer' = Answered(<<message[el]>>)
    BY <1>7, ChainType DEF GetDone, Found, Return, ListInv
  <2>2. index \in 0 .. Len(chain) - 1 /\ el = At(index - 0)
    BY <2>1 DEF Getting, Target
  <2>3. index - 0 = index
    BY <2>1, <2>2
  <2>4. message[el] = Sequence!Item(index)
    BY <2>2, <2>3, ItemOf
  <2>5. index \in 0 .. Len(Messages(chain)) - 1
    BY <2>2, MessagesOf DEF TypeOK
  <2>6. Sequence!Get(index)
    BY <2>1, <2>4, SameItems DEF Sequence!Get, Sequence!Answered, Answered
  <2>7. QED
    BY <2>5, <2>6 DEF Sequence!Next
<1>8. CASE GetAllNext
  <2>1. CASE UNCHANGED <<list, answer>>
    BY <1>1, <2>1
  <2>2. CASE /\ index + 1 >= counter
             /\ Return(Answered(Messages(Append(array, el))))
             /\ UNCHANGED list
    <3>1. /\ exists /\ ListIsChain /\ Getting /\ pc = "get" /\ op = "getAll" /\ left = 0
          /\ Len(chain) \in Nat
      BY <1>8, GettingEl, ChainType DEF GetAllNext, Found
    <3>2. counter = Len(chain) /\ index \in 0 .. Len(chain) - 1 /\ el = At(index - 0)
          /\ array = First(index)
      BY <3>1 DEF Getting, Target
    <3>3. index - 0 = index /\ index + 1 = Len(chain)
      BY <2>2, <3>1, <3>2
    <3>4. Append(array, el) = First(Len(chain))
      BY <3>1, <3>2, <3>3, FirstNext
    <3>5. Messages(First(Len(chain))) = [k \in 1 .. Len(chain) |-> message[At(k - 1)]]
      BY DEF Messages, First
    <3>6. answer' = Answered([k \in 1 .. Len(chain) |-> message[At(k - 1)]])
      BY <2>2, <3>4, <3>5 DEF Return
    <3>7. QED
      BY <2>2, <3>6, GetAllMapped
  <2>3. QED
    BY <1>8, <2>1, <2>2 DEF GetAllNext
<1>9. CASE Unlink
  BY <1>9, UnlinkMapped
<1>10. CASE UnlinkFails \/ Destruct
  BY <1>10, DiscardMapped DEF UnlinkFails, Destruct, Return
<1>11. QED
  BY <1>2, <1>3, <1>4, <1>5, <1>6, <1>7, <1>8, <1>9, <1>10 DEF Step

\* The functions of queue.c, pointer by pointer and loop turn by loop turn, implement
\* a sequence of messages and its answers: poll takes the oldest, get and getAll
\* number from the newest, length counts all.
THEOREM QueueImplementsFifo == Spec => ImplementsFifo
<1>1. Init => Sequence!Init
  <2>1. ASSUME chain = <<>> PROVE Messages(chain) = <<>>
    BY <2>1 DEF Messages
  <2>2. QED
    BY <2>1 DEF Init, Sequence!Init, Refused, Sequence!Refused
<1>2. ASSUME TypeOK, ListInv, [Next]_vars PROVE [Sequence!Next]_(Sequence!vars)
  <2>1. CASE UNCHANGED vars
    BY <2>1, SameItems DEF vars, Sequence!vars
  <2>2. CASE New
    BY <2>2, SameItems DEF New, Sequence!vars
  <2>3. ASSUME NEW o, NEW k, Begin(o, k) PROVE UNCHANGED Sequence!vars
    BY <2>3, SameItems DEF Begin, Sequence!vars
  <2>4. QED
    BY <1>2, <2>1, <2>2, <2>3, AddMapped, StepMapped DEF Next
<1>3. QED
  BY <1>1, <1>2, ListInductive, PTL DEF IndInv, Spec, ImplementsFifo, Sequence!Spec

-----------------------------------------------------------------------------
(* Memory                                                                   *)

\* All that Unlink takes out of the list is the tail, which it frees.
LEMMA UnlinkFrees ==
  ASSUME TypeOK, ListInv, Unlink, NEW n \in Linked \ Linked'
  PROVE  n \notin allocated'
<1>1. /\ allocated' = allocated \ {chain[1]} /\ chain' = Tail(chain) /\ chain # <<>>
      /\ Len(chain) \in Nat
  BY UnlinkingTail, ChainType DEF Unlink
<1>2. /\ DOMAIN chain' = 1 .. Len(chain) - 1
      /\ \A k \in 1 .. Len(chain) - 1 : chain'[k] = chain[k + 1]
  BY <1>1, HeadTailProperties, LenProperties DEF TypeOK
<1>3. PICK k \in 1 .. Len(chain) : n = chain[k]
  BY ChainType DEF Linked
<1>4. CASE k = 1
  BY <1>1, <1>3, <1>4
<1>5. CASE k # 1
  <2>1. k - 1 \in 1 .. Len(chain) - 1 /\ k - 1 + 1 = k
    BY <1>1, <1>3, <1>5
  <2>2. chain'[k - 1] = n
    BY <1>2, <1>3, <2>1
  <2>3. n \in Linked'
    BY <1>2, <2>1, <2>2 DEF Linked
  <2>4. QED
    BY <2>3
<1>6. QED
  BY <1>4, <1>5

\* The nodes gathered by Queue_clear are all of them.
LEMMA DestructFrees ==
  ASSUME TypeOK, ListInv, Destruct, NEW n \in Linked
  PROVE  n \notin allocated'
<1>1. /\ Clearing /\ ListIsChain /\ exists /\ pc = "clear" /\ el = Null /\ Len(chain) \in Nat
      /\ allocated' = allocated \ {array[k] : k \in 1 .. counter}
  BY ChainType DEF Destruct, ListInv
<1>2. counter = Len(chain) /\ Len(array) \in 0 .. Len(chain) /\ array = First(Len(array))
  BY <1>1 DEF Clearing
<1>3. Len(array) = Len(chain)
  <2>1. SUFFICES ASSUME Len(array) # Len(chain) PROVE FALSE
    OBVIOUS
  <2>2. Len(array) \in 0 .. Len(chain) - 1 /\ el = At(Len(array))
    BY <1>1, <1>2, <2>1 DEF Clearing
  <2>3. QED
    BY <1>1, <2>2, NextOfAt, NullAssumption
<1>4. array = First(Len(chain))
  BY <1>2, <1>3
<1>5. PICK j \in 1 .. Len(chain) : n = chain[j]
  BY ChainType DEF Linked
<1>6. Len(chain) - j + 1 \in 1 .. Len(chain) /\ Len(chain) - (Len(chain) - j + 1 - 1) = j
  BY <1>1, <1>5
<1>7. array[Len(chain) - j + 1] = n
  BY <1>4, <1>5, <1>6 DEF First, At
<1>8. QED
  BY <1>1, <1>2, <1>6, <1>7

\* Whatever the disk refuses, a node that was in the queue does not outlive its place
\* there: consume frees the node it took, Queue_clear every node there is.
THEOREM QueueLeaksNothing == Spec => NothingLeaks
<1> DEFINE Freed == \A n \in Linked \ Linked' : n \notin allocated'
<1>1. ASSUME TypeOK, ListInv, [Next]_vars PROVE [Freed]_vars
  <2>1. ASSUME UNCHANGED chain PROVE Freed
    BY <2>1 DEF Linked
  <2>2. CASE UNCHANGED vars \/ New
    BY <2>1, <2>2 DEF vars, New
  <2>3. ASSUME NEW n \in Node, NEW m, Add(n, m) PROVE Freed
    <3>1. CASE chain' = Append(chain, n)
      <4>1. /\ Len(chain) \in Nat /\ DOMAIN chain = 1 .. Len(chain)
            /\ DOMAIN chain' = 1 .. Len(chain) + 1
            /\ \A k \in 1 .. Len(chain) : chain'[k] = chain[k]
        BY <1>1, <3>1, ChainType, AppendProperties, LenProperties DEF TypeOK
      <4>2. Linked \subseteq Linked'
        BY <4>1 DEF Linked
      <4>3. QED
        BY <4>2
    <3>2. QED
      BY <2>1, <2>3, <3>1 DEF Add
  <2>4. ASSUME NEW o, NEW k, Begin(o, k) PROVE Freed
    <3>1. UNCHANGED chain
      BY <2>4 DEF Begin
    <3>2. QED
      BY <2>1, <3>1
  <2>5. ASSUME Step PROVE Freed
    <3>1. CASE UnlinkFails
      BY <3>1 DEF UnlinkFails
    <3>2. CASE Unlink
      BY <1>1, <3>2, UnlinkFrees
    <3>3. CASE Destruct
      BY <1>1, <3>3, DestructFrees
    <3>4. Unlink \/ UnlinkFails \/ Destruct \/ UNCHANGED chain
      BY <2>5
      DEF Step, CountNext, Length, Get, GetAll, Poll, Clear, GetNext, GetDone, GetAllNext,
          PollFound, ClearNext
    <3>5. QED
      BY <2>1, <3>1, <3>2, <3>3, <3>4
  <2>6. QED
    BY <1>1, <2>2, <2>3, <2>4, <2>5 DEF Next
<1>2. QED
  BY <1>1, ListInductive, PTL DEF IndInv, Spec, NothingLeaks
=============================================================================
