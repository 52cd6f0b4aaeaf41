-------------------------- MODULE QueuePoolProofs --------------------------
(***************************************************************************)
(* Proofs about QueuePool, for any sets of names and queues and pools of    *)
(* any length.                                                             *)
(***************************************************************************)
EXTENDS QueuePool, SequenceTheorems, TLAPS

-----------------------------------------------------------------------------
(* The array                                                                *)

LEMMA ArrayType ==
  ASSUME TypeOK
  PROVE  /\ Len(array) \in Nat
         /\ DOMAIN array = 1 .. Len(array)
         /\ \A k \in 1 .. Len(array) : array[k] \in Queue
         /\ \A k \in 1 .. Len(array) : Names[k] = name[array[k]] /\ Names[k] \in Name
         /\ array = <<>> <=> Len(array) = 0
  BY LenProperties, ElementOfSeq, EmptySeq DEF TypeOK, Names

\* Where a removal leaves the other entries.
LEMMA CompactProperties ==
  ASSUME NEW S, NEW a \in Seq(S), NEW i \in 1 .. Len(a)
  PROVE  /\ Compact(a, i) \in Seq(S)
         /\ Len(Compact(a, i)) = Len(a) - 1
         /\ \A k \in 1 .. Len(a) - 1 : Compact(a, i)[k] = IF k < i THEN a[k] ELSE a[k + 1]
<1>1. Len(a) \in Nat /\ i \in Nat /\ i >= 1 /\ i <= Len(a)
  BY LenProperties
<1>2. \A k \in 1 .. Len(a) : a[k] \in S
  BY ElementOfSeq
<1> DEFINE front == SubSeq(a, 1, i - 1)
           back  == SubSeq(a, i + 1, Len(a))
<1>3. /\ front \in Seq(S) /\ Len(front) = i - 1
      /\ \A k \in 1 .. i - 1 : front[k] = a[k]
  <2>1. i - 1 \in Int /\ 1 \in Int /\ \A k \in 1 .. i - 1 : a[k] \in S
    BY <1>1, <1>2
  <2>2. /\ front \in Seq(S) /\ Len(front) = IF 1 <= i - 1 THEN i - 1 - 1 + 1 ELSE 0
        /\ \A k \in 1 .. i - 1 - 1 + 1 : front[k] = a[1 + k - 1]
    BY <2>1, SubSeqProperties
  <2>3. \A k \in 1 .. i - 1 : k \in 1 .. i - 1 - 1 + 1 /\ 1 + k - 1 = k
    BY <1>1
  <2>4. QED
    BY <1>1, <2>2, <2>3
<1>4. /\ back \in Seq(S) /\ Len(back) = Len(a) - i
      /\ \A k \in 1 .. Len(a) - i : back[k] = a[i + k]
  <2>1. i + 1 \in Int /\ Len(a) \in Int /\ \A k \in i + 1 .. Len(a) : a[k] \in S
    BY <1>1, <1>2
  <2>2. /\ back \in Seq(S) /\ Len(back) = IF i + 1 <= Len(a) THEN Len(a) - (i + 1) + 1 ELSE 0
        /\ \A k \in 1 .. Len(a) - (i + 1) + 1 : back[k] = a[i + 1 + k - 1]
    BY <2>1, SubSeqProperties
  <2>3. \A k \in 1 .. Len(a) - i : k \in 1 .. Len(a) - (i + 1) + 1 /\ i + 1 + k - 1 = i + k
    BY <1>1
  <2>4. (IF i + 1 <= Len(a) THEN Len(a) - (i + 1) + 1 ELSE 0) = Len(a) - i
    BY <1>1
  <2>5. \A k \in 1 .. Len(a) - i : back[k] = a[i + k]
    BY <2>2, <2>3
  <2>6. QED
    BY <2>2, <2>4, <2>5
<1>5. /\ front \o back \in Seq(S)
      /\ Len(front \o back) = Len(front) + Len(back)
      /\ \A k \in 1 .. Len(front) + Len(back) :
           (front \o back)[k] = IF k <= Len(front) THEN front[k] ELSE back[k - Len(front)]
  BY <1>3, <1>4, ConcatProperties
<1>6. Compact(a, i) = front \o back
  BY DEF Compact
<1>7. Len(front) + Len(back) = Len(a) - 1
  <2>1. (i - 1) + (Len(a) - i) = Len(a) - 1
    BY <1>1
  <2>2. Len(front) = i - 1 /\ Len(back) = Len(a) - i
    BY <1>3, <1>4
  <2>3. QED
    BY <2>1, <2>2, Zenon
<1>8. ASSUME NEW k \in 1 .. Len(a) - 1
      PROVE  Compact(a, i)[k] = IF k < i THEN a[k] ELSE a[k + 1]
  <2>1. CASE k < i
    <3>1. k \in 1 .. i - 1 /\ k <= i - 1
      BY <1>1, <2>1
    <3>2. QED
      BY <1>3, <1>5, <1>6, <1>7, <2>1, <3>1
  <2>2. CASE ~(k < i)
    <3>1. ~(k <= i - 1) /\ k - (i - 1) \in 1 .. Len(a) - i /\ i + (k - (i - 1)) = k + 1
      BY <1>1, <2>2
    <3>2. back[k - (i - 1)] = a[k + 1]
      BY <1>4, <3>1
    <3>3. QED
      BY <1>3, <1>5, <1>6, <1>7, <2>2, <3>1, <3>2
  <2>3. QED
    BY <2>1, <2>2
<1>9. QED
  BY <1>5, <1>6, <1>7, <1>8

\* A name is found exactly if it is in the array.
LEMMA FindWorks ==
  ASSUME TypeOK, NamesAreUnique, NEW n
  PROVE  Find(n) = {k \in DOMAIN array : Names[k] = n}
<1>1. Len(array) \in Nat /\ DOMAIN array = 1 .. Len(array)
  BY ArrayType
<1>2. ASSUME NEW k \in 1 .. Len(array), Names[k] = n, NEW j \in 1 .. k - 1
      PROVE  Names[j] # n
  <2>1. j \in 1 .. Len(array) /\ j # k
    BY <1>1
  <2>2. QED
    BY <1>1, <1>2, <2>1 DEF NamesAreUnique
<1>3. QED
  BY <1>1, <1>2 DEF Find

\* A new queue at the end of the array.
LEMMA AppendedArray ==
  ASSUME TypeOK, NEW q \in Queue, NEW n \in Name, NewQueue(q, n), AppendQueue(q),
         \A k \in DOMAIN array : array[k] \in allocated
  PROVE  /\ array' \in Seq(Queue) /\ Len(array') = Len(array) + 1
         /\ Len(array) \in Nat
         /\ DOMAIN array' = 1 .. Len(array) + 1
         /\ \A k \in 1 .. Len(array) : array'[k] = array[k] /\ Names'[k] = Names[k] /\ array[k] # q
         /\ array'[Len(array) + 1] = q /\ Names'[Len(array) + 1] = n
         /\ \A k \in DOMAIN array' : k \in 1 .. Len(array) \/ k = Len(array) + 1
<1>1. /\ array \in Seq(Queue) /\ array' = Append(array, q) /\ q \notin allocated
      /\ name' = [name EXCEPT ![q] = n] /\ name \in [Queue -> Name]
  BY DEF TypeOK, NewQueue, AppendQueue
<1>2. /\ array' \in Seq(Queue) /\ Len(array') = Len(array) + 1
      /\ \A k \in 1 .. Len(array) : array'[k] = array[k]
      /\ array'[Len(array) + 1] = q
  BY <1>1, AppendProperties
<1>3. Len(array) \in Nat /\ DOMAIN array' = 1 .. Len(array) + 1
  BY <1>2, ArrayType, LenProperties
<1>4. \A k \in 1 .. Len(array) : array[k] \in Queue /\ array[k] # q
  BY <1>1, ArrayType
<1>5. \A k \in 1 .. Len(array) + 1 : Names'[k] = name'[array'[k]]
  BY <1>2 DEF Names
<1>6. \A k \in 1 .. Len(array) : k \in 1 .. Len(array) + 1 /\ Names[k] = name[array[k]]
  BY <1>3, ArrayType
<1>7. \A k \in 1 .. Len(array) : Names'[k] = Names[k]
  BY <1>1, <1>2, <1>4, <1>5, <1>6
<1>8. Len(array) + 1 \in 1 .. Len(array) + 1 /\ Names'[Len(array) + 1] = n
  BY <1>1, <1>2, <1>3, <1>5
<1>9. \A k \in 1 .. Len(array) + 1 : k \in 1 .. Len(array) \/ k = Len(array) + 1
  BY <1>3
<1>10. QED
  BY <1>2, <1>3, <1>4, <1>7, <1>8, <1>9

-----------------------------------------------------------------------------
(* The invariant                                                            *)


LEMMA AppendInd ==
  ASSUME TypeOK, PoolInv, NEW q \in Queue, NEW n \in Name, NewQueue(q, n), AppendQueue(q),
         \A k \in DOMAIN array : Names[k] # n,
         status' = status, status # "down",
         dirs' = dirs \cup {n}
  PROVE  PoolInv'
<1>1. /\ array' \in Seq(Queue) /\ Len(array') = Len(array) + 1
      /\ Len(array) \in Nat
      /\ DOMAIN array' = 1 .. Len(array) + 1 /\ DOMAIN array = 1 .. Len(array)
      /\ \A k \in 1 .. Len(array) : array'[k] = array[k] /\ Names'[k] = Names[k] /\ array[k] # q
      /\ array'[Len(array) + 1] = q /\ Names'[Len(array) + 1] = n
      /\ \A k \in DOMAIN array' : k \in 1 .. Len(array) \/ k = Len(array) + 1
  <2>1. \A k \in DOMAIN array : array[k] \in allocated
    BY EmptySeq, ArrayType DEF PoolInv, EntriesAreLive
  <2>2. QED
    BY <2>1, AppendedArray, ArrayType
<1>2. ASSUME NEW j \in DOMAIN array', NEW k \in DOMAIN array', Names'[j] = Names'[k]
      PROVE  j = k
  <2>1. CASE j \in 1 .. Len(array) /\ k \in 1 .. Len(array)
    BY <1>1, <1>2, <2>1 DEF PoolInv, NamesAreUnique
  <2>2. CASE j = Len(array) + 1 \/ k = Len(array) + 1
    BY <1>1, <1>2, <2>2
  <2>3. QED
    BY <1>1, <2>1, <2>2
<1>3. ASSUME NEW j \in DOMAIN array', NEW k \in DOMAIN array', array'[j] = array'[k]
      PROVE  j = k
  <2>1. CASE j \in 1 .. Len(array) /\ k \in 1 .. Len(array)
    <3>1. array # <<>>
      BY <1>1, <2>1, ArrayType
    <3>2. QED
      BY <1>1, <1>3, <2>1, <3>1 DEF PoolInv, EntriesAreLive
  <2>2. CASE j = Len(array) + 1 \/ k = Len(array) + 1
    BY <1>1, <1>3, <2>2
  <2>3. QED
    BY <1>1, <2>1, <2>2
<1>4. ASSUME NEW k \in DOMAIN array' PROVE array'[k] \in allocated'
  <2>1. allocated' = allocated \cup {q}
    BY DEF NewQueue
  <2>2. CASE k \in 1 .. Len(array)
    <3>1. array # <<>>
      BY <1>1, <2>2, ArrayType
    <3>2. QED
      BY <1>1, <2>1, <2>2, <3>1 DEF PoolInv, EntriesAreLive
  <2>3. QED
    BY <1>1, <2>1, <2>2
<1>5. block' = "live"
  BY DEF AppendQueue
<1>6. ASSUME NEW k \in DOMAIN array' PROVE Names'[k] \in dirs'
  BY <1>1 DEF PoolInv
<1>7. ASSUME status' = "up", NEW x \in dirs' PROVE \E k \in DOMAIN array' : Names'[k] = x
  <2>1. CASE x = n
    <3>1. Len(array) + 1 \in DOMAIN array'
      BY <1>1
    <3>2. QED
      BY <1>1, <2>1, <3>1
  <2>2. CASE x \in dirs
    <3>1. PICK k \in 1 .. Len(array) : Names[k] = x
      BY <1>1, <1>7, <2>2 DEF PoolInv
    <3>2. k \in DOMAIN array' /\ Names'[k] = x
      BY <1>1, <3>1
    <3>3. QED
      BY <3>2
  <2>3. QED
    BY <1>7, <2>1, <2>2
<1>8. NamesAreUnique' /\ EntriesAreLive'
  BY <1>2, <1>3, <1>4, <1>5 DEF NamesAreUnique, EntriesAreLive
<1>9. QED
  BY <1>6, <1>7, <1>8 DEF PoolInv

\* A queue that is made but joins nothing changes no name in the array.
LEMMA NotAppendedInd ==
  ASSUME TypeOK, PoolInv, NEW q \in Queue, NEW n \in Name, NewQueue(q, n),
         UNCHANGED <<status, array, block, dirs>>
  PROVE  PoolInv'
<1>1. /\ q \notin allocated /\ allocated' = allocated \cup {q}
      /\ name' = [name EXCEPT ![q] = n] /\ name \in [Queue -> Name]
  BY DEF NewQueue, TypeOK
<1>2. \A k \in DOMAIN array : array[k] \in allocated /\ array[k] \in Queue
  BY ArrayType DEF PoolInv, EntriesAreLive
<1>3. \A k \in DOMAIN array : name'[array[k]] = name[array[k]]
  BY <1>1, <1>2
<1>4. Names' = Names
  BY <1>3, ArrayType DEF Names
<1>5. NamesAreUnique' /\ EntriesAreLive'
  BY <1>1, <1>4 DEF PoolInv, NamesAreUnique, EntriesAreLive
<1>6. QED
  BY <1>4, <1>5 DEF PoolInv

\* The arrays before and after a removal.
LEMMA RemovedArray ==
  ASSUME TypeOK, PoolInv, NEW n \in Name, Remove(n)
  PROVE  \E i \in 1 .. Len(array) :
           /\ Names[i] = n /\ allocated' = allocated \ {array[i]}
           /\ array' \in Seq(Queue) /\ Len(array') = Len(array) - 1
           /\ DOMAIN array' = 1 .. Len(array) - 1
           /\ \A k \in 1 .. Len(array) - 1 :
                \E j \in 1 .. Len(array) :
                  /\ j = (IF k < i THEN k ELSE k + 1) /\ j # i
                  /\ array'[k] = array[j] /\ Names'[k] = Names[j]
<1>1. PICK i \in Find(n) : allocated' = allocated \ {array[i]} /\ array' = Compact(array, i)
  BY DEF Remove
<1>2. i \in 1 .. Len(array) /\ Names[i] = n /\ Len(array) \in Nat
  BY ArrayType DEF Find
<1>3. /\ array' \in Seq(Queue) /\ Len(array') = Len(array) - 1
      /\ \A k \in 1 .. Len(array) - 1 : array'[k] = IF k < i THEN array[k] ELSE array[k + 1]
  BY <1>1, <1>2, CompactProperties DEF TypeOK
<1>4. DOMAIN array' = 1 .. Len(array) - 1
  BY <1>3, LenProperties
<1>5. \A k \in 1 .. Len(array) - 1 : Names'[k] = name'[array'[k]]
  BY <1>3 DEF Names
<1>6. name' = name
  BY DEF Remove
<1>7. ASSUME NEW k \in 1 .. Len(array) - 1
      PROVE  \E j \in 1 .. Len(array) :
               /\ j = (IF k < i THEN k ELSE k + 1) /\ j # i
               /\ array'[k] = array[j] /\ Names'[k] = Names[j]
  <2> DEFINE j == IF k < i THEN k ELSE k + 1
  <2>1. j \in 1 .. Len(array) /\ j # i
    BY <1>2
  <2>2. array'[k] = array[j]
    BY <1>3
  <2>3. Names[j] = name[array[j]]
    BY <2>1, ArrayType
  <2>4. Names'[k] = Names[j]
    BY <1>5, <1>6, <2>2, <2>3
  <2>5. QED
    BY <2>1, <2>2, <2>4
<1>8. QED
  BY <1>1, <1>2, <1>3, <1>4, <1>7

LEMMA RemoveInd ==
  ASSUME TypeOK, PoolInv, NEW n \in Name, Remove(n)
  PROVE  PoolInv'
<1>1. PICK i \in 1 .. Len(array) :
        /\ Names[i] = n /\ allocated' = allocated \ {array[i]}
        /\ array' \in Seq(Queue) /\ Len(array') = Len(array) - 1
        /\ DOMAIN array' = 1 .. Len(array) - 1
        /\ \A k \in 1 .. Len(array) - 1 :
             \E j \in 1 .. Len(array) :
               /\ j = (IF k < i THEN k ELSE k + 1) /\ j # i
               /\ array'[k] = array[j] /\ Names'[k] = Names[j]
  BY RemovedArray
<1>2. Len(array) \in Nat /\ DOMAIN array = 1 .. Len(array) /\ array # <<>>
  BY <1>1, ArrayType
<1>3. status = "up" /\ status' = "up" /\ dirs' = dirs \ {n}
      /\ block' = (IF array' = <<>> THEN "freed" ELSE "live")
  BY DEF Remove
<1>4. \A j, k \in 1 .. Len(array) : Names[j] = Names[k] \/ array[j] = array[k] => j = k
  BY <1>2 DEF PoolInv, NamesAreUnique, EntriesAreLive
<1>5. ASSUME NEW j \in DOMAIN array', NEW k \in DOMAIN array',
             Names'[j] = Names'[k] \/ array'[j] = array'[k]
      PROVE  j = k
  <2>1. PICK jj \in 1 .. Len(array) :
          jj = (IF j < i THEN j ELSE j + 1) /\ array'[j] = array[jj] /\ Names'[j] = Names[jj]
    BY <1>1
  <2>2. PICK kk \in 1 .. Len(array) :
          kk = (IF k < i THEN k ELSE k + 1) /\ array'[k] = array[kk] /\ Names'[k] = Names[kk]
    BY <1>1
  <2>3. jj = kk
    BY <1>4, <1>5, <2>1, <2>2
  <2>4. j \in Nat /\ k \in Nat /\ i \in Nat
    BY <1>1, <1>2
  <2>5. QED
    BY <2>1, <2>2, <2>3, <2>4
<1>6. ASSUME NEW k \in DOMAIN array'
      PROVE  array'[k] \in allocated' /\ Names'[k] \in dirs'
  <2>1. PICK kk \in 1 .. Len(array) : kk # i /\ array'[k] = array[kk] /\ Names'[k] = Names[kk]
    BY <1>1
  <2>2. array[kk] # array[i] /\ Names[kk] # n
    BY <1>1, <1>4, <2>1
  <2>3. array[kk] \in allocated /\ Names[kk] \in dirs
    BY <1>2, <2>1 DEF PoolInv, EntriesAreLive
  <2>4. QED
    BY <1>1, <1>3, <2>1, <2>2, <2>3
<1>7. ASSUME NEW x \in dirs' PROVE \E k \in DOMAIN array' : Names'[k] = x
  <2>1. PICK l \in 1 .. Len(array) : Names[l] = x
    BY <1>2, <1>3, <1>7 DEF PoolInv
  <2>2. l # i
    BY <1>1, <1>3, <1>7, <2>1
  <2> DEFINE k == IF l < i THEN l ELSE l - 1
  <2>3. k \in 1 .. Len(array) - 1 /\ l = (IF k < i THEN k ELSE k + 1)
    BY <1>1, <1>2, <2>1, <2>2
  <2>4. Names'[k] = Names[l]
    <3>1. PICK j \in 1 .. Len(array) : j = (IF k < i THEN k ELSE k + 1) /\ Names'[k] = Names[j]
      BY <1>1, <2>3
    <3>2. QED
      BY <2>3, <3>1
  <2>5. QED
    BY <1>1, <2>1, <2>3, <2>4
<1>8. NamesAreUnique'
  BY <1>5 DEF NamesAreUnique
<1>9. EntriesAreLive'
  BY <1>3, <1>5, <1>6 DEF EntriesAreLive
<1>10. QED
  BY <1>3, <1>6, <1>7, <1>8, <1>9 DEF PoolInv

\* With an empty array there is nothing to be wrong.
LEMMA EmptyInd ==
  ASSUME array = <<>>
  PROVE  NamesAreUnique /\ EntriesAreLive /\ \A k \in DOMAIN array : Names[k] \in dirs
BY DEF NamesAreUnique, EntriesAreLive

LEMMA SamePool ==
  ASSUME PoolInv, UNCHANGED <<array, block, name, allocated, dirs>>,
         status' = "down" => status = "down",
         status' = "up" => \A n \in dirs : \E k \in DOMAIN array : Names[k] = n
  PROVE  PoolInv'
<1>1. Names' = Names
  BY DEF Names
<1>2. NamesAreUnique' /\ EntriesAreLive'
  BY <1>1 DEF PoolInv, NamesAreUnique, EntriesAreLive
<1>3. QED
  BY <1>1, <1>2 DEF PoolInv

\* Every call keeps the types.
LEMMA NextType == ASSUME TypeOK, PoolInv, [Next]_vars PROVE TypeOK'
<1> USE DEF TypeOK
<1>1. CASE UNCHANGED vars
  BY <1>1 DEF vars
<1>2. CASE Start \/ Loaded
  BY <1>2 DEF Start, Loaded
<1>3. CASE Exit \/ Crash
  BY <1>3, EmptySeq DEF Exit, Crash, Gone
<1>4. ASSUME NEW n \in Name, Remove(n) PROVE TypeOK'
  <2>1. array' \in Seq(Queue)
    BY <1>4, RemovedArray
  <2>2. QED
    BY <1>4, <2>1 DEF Remove
<1>5. ASSUME NEW q \in Queue, NEW n \in Name, Load(q, n) \/ Add(q, n) PROVE TypeOK'
  <2>1. Append(array, q) \in Seq(Queue)
    BY AppendProperties
  <2>2. QED
    BY <1>5, <2>1 DEF Load, Add, NewQueue, AppendQueue
<1>6. QED
  BY <1>1, <1>2, <1>3, <1>4, <1>5 DEF Next

LEMMA NextInd == ASSUME TypeOK, PoolInv, [Next]_vars PROVE PoolInv'
<1>1. CASE UNCHANGED vars
  BY <1>1, SamePool DEF vars, PoolInv
<1>2. CASE Start
  <2>1. array' = <<>> /\ status' = "loading"
    BY <1>2 DEF Start, PoolInv
  <2>2. NamesAreUnique' /\ EntriesAreLive' /\ \A k \in DOMAIN array' : Names'[k] \in dirs'
    BY <2>1 DEF NamesAreUnique, EntriesAreLive
  <2>3. QED
    BY <2>1, <2>2 DEF PoolInv
<1>3. CASE Loaded
  BY <1>3, SamePool DEF Loaded
<1>4. CASE Exit \/ Crash
  <2>1. array' = <<>> /\ status' = "down"
    BY <1>4 DEF Exit, Crash, Gone
  <2>2. NamesAreUnique' /\ EntriesAreLive' /\ \A k \in DOMAIN array' : Names'[k] \in dirs'
    BY <2>1 DEF NamesAreUnique, EntriesAreLive
  <2>3. QED
    BY <2>1, <2>2 DEF PoolInv
<1>5. ASSUME NEW n \in Name, Remove(n) PROVE PoolInv'
  BY <1>5, RemoveInd
<1>6. ASSUME NEW q \in Queue, NEW n \in Name, Load(q, n) PROVE PoolInv'
  <2>1. dirs' = dirs \cup {n}
    BY <1>6 DEF Load
  <2>2. QED
    BY <1>6, <2>1, AppendInd DEF Load
<1>7. ASSUME NEW q \in Queue, NEW n \in Name, Add(q, n) PROVE PoolInv'
  <2>1. CASE dirs' = dirs \cup {n} /\ AppendQueue(q)
    <3>1. \A k \in DOMAIN array : Names[k] # n
      BY <1>7, FindWorks DEF Add, PoolInv
    <3>2. QED
      BY <1>7, <2>1, <3>1, AppendInd DEF Add
  <2>2. CASE UNCHANGED <<dirs, array, block>>
    BY <1>7, <2>2, NotAppendedInd DEF Add
  <2>3. QED
    BY <1>7, <2>1, <2>2 DEF Add
<1>8. QED
  BY <1>1, <1>2, <1>3, <1>4, <1>5, <1>6, <1>7 DEF Next

-----------------------------------------------------------------------------
(* The names in the array                                                   *)

\* An appended queue adds its name to those in the array.
LEMMA AppendedNames ==
  ASSUME TypeOK, PoolInv, NEW q \in Queue, NEW n \in Name, NewQueue(q, n), AppendQueue(q)
  PROVE  {Names'[k] : k \in DOMAIN array'} = {Names[k] : k \in DOMAIN array} \cup {n}
<1>1. \A k \in DOMAIN array : array[k] \in allocated
  BY EmptySeq, ArrayType DEF PoolInv, EntriesAreLive
<1>2. /\ Len(array) \in Nat
      /\ DOMAIN array = 1 .. Len(array) /\ DOMAIN array' = 1 .. Len(array) + 1
      /\ \A k \in 1 .. Len(array) : Names'[k] = Names[k]
      /\ Names'[Len(array) + 1] = n
      /\ \A k \in DOMAIN array' : k \in 1 .. Len(array) \/ k = Len(array) + 1
  BY <1>1, AppendedArray, ArrayType
<1>3. \A k \in DOMAIN array : k \in DOMAIN array'
  BY <1>2
<1>4. Len(array) + 1 \in DOMAIN array'
  BY <1>2
<1>5. QED
  BY <1>2, <1>3, <1>4

\* A removal takes one name out of the array, and no other goes with it.
LEMMA RemovedNames ==
  ASSUME TypeOK, PoolInv, NEW n \in Name, Remove(n)
  PROVE  /\ n \in {Names[k] : k \in DOMAIN array}
         /\ {Names'[k] : k \in DOMAIN array'} = {Names[k] : k \in DOMAIN array} \ {n}
<1>1. PICK i \in 1 .. Len(array) :
        /\ Names[i] = n
        /\ DOMAIN array' = 1 .. Len(array) - 1
        /\ \A k \in 1 .. Len(array) - 1 :
             \E j \in 1 .. Len(array) :
               j = (IF k < i THEN k ELSE k + 1) /\ j # i /\ Names'[k] = Names[j]
  BY RemovedArray
<1>2. Len(array) \in Nat /\ DOMAIN array = 1 .. Len(array)
  BY ArrayType
<1>3. \A j \in DOMAIN array : j # i => Names[j] # n
  BY <1>1, <1>2 DEF PoolInv, NamesAreUnique
<1>4. \A k \in DOMAIN array' : \E j \in DOMAIN array : Names'[k] = Names[j] /\ Names[j] # n
  BY <1>1, <1>2, <1>3
<1>5. ASSUME NEW j \in DOMAIN array, Names[j] # n
      PROVE  \E k \in DOMAIN array' : Names'[k] = Names[j]
  <2> DEFINE k == IF j < i THEN j ELSE j - 1
  <2>1. k \in 1 .. Len(array) - 1 /\ j = IF k < i THEN k ELSE k + 1
    BY <1>1, <1>2, <1>5
  <2>2. PICK l \in 1 .. Len(array) : l = (IF k < i THEN k ELSE k + 1) /\ Names'[k] = Names[l]
    BY <1>1, <2>1
  <2>3. k \in DOMAIN array' /\ Names'[k] = Names[j]
    BY <1>1, <2>1, <2>2
  <2>4. QED
    BY <2>3
<1>6. \A m \in {Names'[k] : k \in DOMAIN array'} : m \in {Names[k] : k \in DOMAIN array} \ {n}
  BY <1>4
<1>7. \A m \in {Names[k] : k \in DOMAIN array} \ {n} : m \in {Names'[k] : k \in DOMAIN array'}
  BY <1>5
<1>8. i \in DOMAIN array /\ Names[i] = n
  BY <1>1, <1>2
<1>9. n \in {Names[k] : k \in DOMAIN array}
  BY <1>8
<1>10. QED
  BY <1>6, <1>7, <1>9

-----------------------------------------------------------------------------
(* The theorems                                                             *)

\* In every state of the pool each variable has its type, and array, names, memory and
\* disk agree.
THEOREM PoolInductive == Spec => []IndInv
<1>1. Init => TypeOK /\ PoolInv
  <2> SUFFICES ASSUME Init PROVE TypeOK /\ PoolInv
    OBVIOUS
  <2>1. (CHOOSE n \in Name : TRUE) \in Name
    BY NameAssumption
  <2>2. TypeOK
    BY <2>1, EmptySeq DEF Init, TypeOK
  <2>3. PoolInv
    BY EmptyInd DEF Init, PoolInv
  <2>4. QED
    BY <2>2, <2>3
<1>2. TypeOK /\ PoolInv /\ [Next]_vars => TypeOK' /\ PoolInv'
  BY NextType, NextInd
<1>3. QED
  BY <1>1, <1>2, PTL DEF Spec, IndInv

\* Every variable of the pool has its type; the array holds no NULL between two calls.
THEOREM PoolTypeCorrect == Spec => []TypeOK
BY PoolInductive, PTL DEF IndInv

\* No sequence of requests, refusals, crashes and restarts makes two queues of one name.
THEOREM NamesStayUnique == Spec => []NamesAreUnique
<1>1. PoolInv => NamesAreUnique
  BY DEF PoolInv
<1>2. QED
  BY <1>1, PoolInductive, PTL DEF IndInv

\* While the server is up a queue is found in memory exactly if it is on disk.
THEOREM QueuesAreFound == Spec => []FoundByName
<1>1. ASSUME TypeOK, PoolInv PROVE FoundByName
  <2>1. ASSUME status = "up", NEW n \in Name PROVE n \in dirs <=> Find(n) # {}
    <3>1. Find(n) = {k \in DOMAIN array : Names[k] = n}
      BY <1>1, FindWorks DEF PoolInv
    <3>2. QED
      BY <1>1, <2>1, <3>1 DEF PoolInv
  <2>2. QED
    BY <2>1 DEF FoundByName
<1>2. QED
  BY <1>1, PoolInductive, PTL DEF IndInv

\* The entries of the array lead to live queues, each to its own, and the array lies
\* in a live block.
THEOREM EntriesStayLive == Spec => []EntriesAreLive
<1>1. PoolInv => EntriesAreLive
  BY DEF PoolInv
<1>2. QED
  BY <1>1, PoolInductive, PTL DEF IndInv

\* Neither a request nor its refusal changes the order in which getAllQueueNames lists
\* the queues that it leaves.
THEOREM OrderStaysKept == Spec => OrderIsKept
<1> DEFINE Kept == \A i, j \in DOMAIN array : \A k, l \in DOMAIN array' :
                     i < j /\ Names[i] = Names'[k] /\ Names[j] = Names'[l] => k < l
<1>1. ASSUME TypeOK, PoolInv, UNCHANGED array, Names' = Names PROVE Kept
  BY <1>1 DEF PoolInv, NamesAreUnique
<1>2. ASSUME TypeOK, PoolInv, NEW q \in Queue, NEW n \in Name, Add(q, n) PROVE Kept
  <2>1. CASE UNCHANGED <<dirs, array, block>>
    <3>1. \A k \in DOMAIN array : array[k] \in allocated /\ array[k] \in Queue
      BY <1>2, ArrayType DEF PoolInv, EntriesAreLive
    <3>2. \A k \in DOMAIN array : name'[array[k]] = name[array[k]]
      BY <1>2, <3>1 DEF Add, NewQueue, TypeOK
    <3>3. Names' = Names
      BY <1>2, <2>1, <3>2, ArrayType DEF Names
    <3>4. QED
      BY <1>1, <1>2, <2>1, <3>3
  <2>2. CASE AppendQueue(q)
    <3>1. \A k \in DOMAIN array : Names[k] # n
      BY <1>2, FindWorks DEF Add, PoolInv
    <3>2. \A k \in DOMAIN array : array[k] \in allocated
      BY <1>2, EmptySeq, ArrayType DEF PoolInv, EntriesAreLive
    <3>3. /\ \A k \in 1 .. Len(array) : Names'[k] = Names[k]
          /\ Names'[Len(array) + 1] = n
          /\ \A k \in DOMAIN array' : k \in 1 .. Len(array) \/ k = Len(array) + 1
      BY <1>2, <2>2, <3>2, AppendedArray DEF Add
    <3>4. \A i \in DOMAIN array : \A k \in DOMAIN array' : Names[i] = Names'[k] => i = k
      BY <1>2, <3>1, <3>3, ArrayType DEF PoolInv, NamesAreUnique
    <3>5. QED
      BY <3>4
  <2>3. QED
    BY <1>2, <2>1, <2>2 DEF Add
<1>3. ASSUME TypeOK, PoolInv, NEW n \in Name, Remove(n) PROVE Kept
  <2>1. PICK r \in 1 .. Len(array) :
          /\ Names[r] = n /\ allocated' = allocated \ {array[r]}
          /\ array' \in Seq(Queue) /\ Len(array') = Len(array) - 1
          /\ DOMAIN array' = 1 .. Len(array) - 1
          /\ \A k \in 1 .. Len(array) - 1 :
               \E j \in 1 .. Len(array) :
                 /\ j = (IF k < r THEN k ELSE k + 1) /\ j # r
                 /\ array'[k] = array[j] /\ Names'[k] = Names[j]
    BY <1>3, RemovedArray
  <2>2. Len(array) \in Nat /\ DOMAIN array = 1 .. Len(array)
    BY <1>3, ArrayType
  <2>3. ASSUME NEW i \in DOMAIN array, NEW k \in DOMAIN array', Names[i] = Names'[k]
        PROVE  i = IF k < r THEN k ELSE k + 1
    <3>1. PICK j \in 1 .. Len(array) : j = (IF k < r THEN k ELSE k + 1) /\ Names'[k] = Names[j]
      BY <2>1
    <3>2. i = j
      BY <1>3, <2>2, <2>3, <3>1 DEF PoolInv, NamesAreUnique
    <3>3. QED
      BY <3>1, <3>2
  <2>4. \A k, l \in 1 .. Len(array) - 1 :
          (IF k < r THEN k ELSE k + 1) < (IF l < r THEN l ELSE l + 1) => k < l
    BY <2>2
  <2>5. QED
    BY <2>1, <2>3, <2>4
<1>4. ASSUME TypeOK, PoolInv, [Next]_vars, status = "up", status' = "up" PROVE Kept
  <2>1. CASE UNCHANGED vars
    BY <1>1, <1>4, <2>1 DEF vars, Names
  <2>2. ~(Start \/ Loaded \/ Exit \/ Crash)
    BY <1>4 DEF Start, Loaded, Exit, Crash, Gone
  <2>3. ASSUME NEW q \in Queue, NEW n \in Name PROVE ~Load(q, n)
    BY <1>4 DEF Load
  <2>4. QED
    BY <1>2, <1>3, <1>4, <2>1, <2>2, <2>3 DEF Next
<1>5. TypeOK /\ PoolInv /\ [Next]_vars => [status = "up" /\ status' = "up" => Kept]_vars
  BY <1>4
<1>6. QED
  BY <1>5, PoolInductive, PTL DEF IndInv, Spec, OrderIsKept

\* To whoever looks queues up by name, the array with its appends, moves and frees is the
\* set of names of QueueNames, made and removed together with the directories.
THEOREM PoolImplementsNames == Spec => ImplementsNames
<1> DEFINE pool == {Names[k] : k \in DOMAIN array}
<1> USE DEF PoolNames!vars
<1>1. Init => PoolNames!Init
  BY EmptySeq DEF Init, PoolNames!Init
<1>2. ASSUME TypeOK, PoolInv, UNCHANGED <<status, array, dirs>>,
             \A k \in DOMAIN array : name'[array[k]] = name[array[k]]
      PROVE  UNCHANGED PoolNames!vars
  <2>1. Names' = Names
    BY <1>2, ArrayType DEF Names
  <2>2. QED
    BY <1>2, <2>1
<1>3. ASSUME TypeOK, PoolInv, Start \/ Loaded PROVE PoolNames!Next
  <2>1. Names' = Names /\ array' = array
    BY <1>3 DEF Start, Loaded, Names
  <2>2. pool' = pool
    BY <2>1
  <2>3. CASE Start
    BY <2>2, <2>3 DEF Start, PoolNames!Start, PoolNames!Next
  <2>4. CASE Loaded
    <3>1. pool = dirs
      BY <1>3, <2>4 DEF Loaded, PoolInv
    <3>2. PoolNames!Listen
      BY <2>2, <2>4, <3>1 DEF Loaded, PoolNames!Listen
    <3>3. QED
      BY <3>2 DEF PoolNames!Next
  <2>5. QED
    BY <1>3, <2>3, <2>4
<1>4. ASSUME Exit \/ Crash PROVE PoolNames!Next
  <2>1. status # "down" /\ status' = "down" /\ array' = <<>> /\ dirs' = dirs
    BY <1>4 DEF Exit, Crash, Gone
  <2>2. pool' = {}
    BY <2>1
  <2>3. QED
    BY <2>1, <2>2 DEF PoolNames!Stop, PoolNames!Next
<1>5. ASSUME TypeOK, PoolInv, NEW q \in Queue, NEW n \in Name, Load(q, n) PROVE PoolNames!Next
  <2>1. n \in dirs \ pool
    BY <1>5 DEF Load
  <2>2. pool' = pool \cup {n}
    BY <1>5, AppendedNames DEF Load
  <2>3. PoolNames!Load(n)
    BY <1>5, <2>1, <2>2 DEF Load, PoolNames!Load
  <2>4. QED
    BY <2>3 DEF PoolNames!Next
<1>6. ASSUME TypeOK, PoolInv, NEW q \in Queue, NEW n \in Name, Add(q, n)
      PROVE  [PoolNames!Next]_(PoolNames!vars)
  <2>1. CASE UNCHANGED <<dirs, array, block>>
    <3>1. \A k \in DOMAIN array : array[k] \in allocated /\ array[k] \in Queue
      BY <1>6, ArrayType DEF PoolInv, EntriesAreLive
    <3>2. \A k \in DOMAIN array : name'[array[k]] = name[array[k]]
      BY <1>6, <3>1 DEF Add, NewQueue, TypeOK
    <3>3. UNCHANGED PoolNames!vars
      BY <1>2, <1>6, <2>1, <3>2 DEF Add
    <3>4. QED
      BY <3>3
  <2>2. CASE dirs' = dirs \cup {n} /\ AppendQueue(q)
    <3>1. n \notin pool
      BY <1>6, FindWorks DEF Add, PoolInv
    <3>2. n \notin dirs
      BY <1>6, <3>1 DEF Add, PoolInv
    <3>3. pool' = pool \cup {n}
      BY <1>6, <2>2, AppendedNames DEF Add
    <3>4. PoolNames!Add(n)
      BY <1>6, <2>2, <3>1, <3>2, <3>3 DEF Add, PoolNames!Add
    <3>5. QED
      BY <3>4 DEF PoolNames!Next
  <2>3. QED
    BY <1>6, <2>1, <2>2 DEF Add
<1>7. ASSUME TypeOK, PoolInv, NEW n \in Name, Remove(n) PROVE PoolNames!Next
  <2>1. n \in pool /\ pool' = pool \ {n}
    BY <1>7, RemovedNames
  <2>2. n \in dirs
    BY <1>7, <2>1 DEF PoolInv
  <2>3. PoolNames!Remove(n)
    BY <1>7, <2>1, <2>2 DEF Remove, PoolNames!Remove
  <2>4. QED
    BY <2>3 DEF PoolNames!Next
<1>8. ASSUME TypeOK, PoolInv, [Next]_vars PROVE [PoolNames!Next]_(PoolNames!vars)
  <2>1. CASE UNCHANGED vars
    BY <1>2, <1>8, <2>1 DEF vars
  <2>2. CASE Next
    BY <1>3, <1>4, <1>5, <1>6, <1>7, <1>8, <2>2 DEF Next
  <2>3. QED
    BY <1>8, <2>1, <2>2
<1>9. QED
  BY <1>1, <1>8, PoolInductive, PTL DEF Spec, IndInv, ImplementsNames, PoolNames!Spec
=============================================================================
