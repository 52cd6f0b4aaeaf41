------------------------- MODULE HttpRequestProofs -------------------------
(***************************************************************************)
(* Proofs about HttpRequest: whatever clients send, and however much of it *)
(* recv returns, what has arrived is understood, and responses are whole.  *)
(***************************************************************************)
EXTENDS HttpRequest, NaturalLemmas, SequenceTheorems, TLAPS

\* Before finds the first of the cells, if there is one.
LEMMA BeforeIsFirst ==
  ASSUME NEW text \in Seq(Cell), NEW cells, \E i \in 1 .. Len(text) : text[i] \in cells
  PROVE  /\ Before(cells, text) \in 0 .. Len(text) - 1
         /\ text[Before(cells, text) + 1] \in cells
         /\ \A k \in 1 .. Before(cells, text) : text[k] \notin cells
<1> DEFINE T == {i \in 1 .. Len(text) : text[i] \in cells}
<1>1. Len(text) \in Nat
  OBVIOUS
<1>2. PICK x \in T : \A y \in T : x <= y
  <2>1. T \in SUBSET Nat /\ T # {}
    BY <1>1
  <2> HIDE DEF T
  <2> QED BY <2>1, Least
<1>3. /\ x - 1 \in 0 .. Len(text) - 1
      /\ text[(x - 1) + 1] \in cells
      /\ \A k \in 1 .. x - 1 : text[k] \notin cells
  BY <1>1, <1>2
<1> QED BY <1>3 DEF Before

\* Run ends at the first separator from i on, or at the end of the text.
LEMMA RunEnds ==
  ASSUME NEW text \in Seq(Cell), NEW i \in 1 .. Len(text) + 1
  PROVE  /\ Run(text, i) \in 0 .. Len(text) - i + 1
         /\ i + Run(text, i) <= Len(text) => text[i + Run(text, i)] \in Separators
         /\ \A k \in i .. i + Run(text, i) - 1 : text[k] \notin Separators
<1> DEFINE T == {n \in 0 .. Len(text) - i + 1 :
                   i + n <= Len(text) => text[i + n] \in Separators}
<1>1. Len(text) \in Nat
  OBVIOUS
<1>2. Len(text) - i + 1 \in T
  BY <1>1
<1>3. PICK x \in T : \A y \in T : x <= y
  <2>1. 0 .. Len(text) - i + 1 \subseteq Nat
    OBVIOUS
  <2>2. T \subseteq 0 .. Len(text) - i + 1
    OBVIOUS
  <2> HIDE DEF T
  <2>3. T \in SUBSET Nat /\ T # {}
    BY <1>2, <2>1, <2>2
  <2> QED BY <2>3, Least
<1>4. \A k \in i .. i + x - 1 : text[k] \notin Separators
  <2> SUFFICES ASSUME NEW k \in i .. i + x - 1, text[k] \in Separators PROVE FALSE
    OBVIOUS
  <2>1. k - i \in 0 .. Len(text) - i + 1 /\ k - i < x /\ i + (k - i) = k
    <3>1. x \in 0 .. Len(text) - i + 1
      BY <1>3
    <3> QED BY <1>1, <3>1
  <2>2. k - i \in T
    BY <2>1
  <2>3. x \in Nat /\ k - i \in Nat
    BY <1>3, <2>1
  <2> HIDE DEF T
  <2>4. x <= k - i
    BY <1>3, <2>2
  <2> QED BY <2>1, <2>3, <2>4
<1>5. \E n \in 0 .. Len(text) - i + 1 :
        /\ i + n <= Len(text) => text[i + n] \in Separators
        /\ \A k \in i .. i + n - 1 : text[k] \notin Separators
  BY <1>3, <1>4
<1> QED BY <1>5 DEF Run

\* A value is a text, empty when there is none.
LEMMA ValueIsText ==
  ASSUME NEW text \in Seq(Cell), NEW key
  PROVE  ValueOf(text, key) \in Seq(Cell)
<1>1. CASE \A i \in DOMAIN text : text[i] # key
  BY <1>1 DEF ValueOf
<1>2. CASE \E i \in 1 .. Len(text) : text[i] = key
  <2> DEFINE at == CHOOSE i \in DOMAIN text : text[i] = key /\ \A j \in 1 .. i - 1 : text[j] # key
  <2>1. Len(text) \in Nat /\ DOMAIN text = 1 .. Len(text)
    BY LenProperties
  <2>2. at \in 1 .. Len(text)
    <3>1. \E i \in 1 .. Len(text) : text[i] \in {key}
      BY <1>2
    <3>2. /\ Before({key}, text) + 1 \in DOMAIN text
          /\ text[Before({key}, text) + 1] = key
          /\ \A j \in 1 .. (Before({key}, text) + 1) - 1 : text[j] # key
      BY <2>1, <3>1, BeforeIsFirst
    <3> QED BY <2>1, <3>2
  <2> HIDE DEF at
  <2>3. Run(text, at + 1) \in 0 .. Len(text) - at
    BY <2>1, <2>2, RunEnds
  <2>4. SubSeq(text, at + 1, at + Run(text, at + 1)) \in Seq(Cell)
    BY <2>1, <2>2, <2>3, SubSeqProperties, ElementOfSeq
  <2> QED BY <1>2, <2>1, <2>4 DEF ValueOf, at
<1> QED BY <1>1, <1>2

\* The text contains the parameter, for the first time with this value, and a separator or
\* the end of the text closes the value.
Carries(text, key, value) ==
  \E i \in DOMAIN text :
    /\ text[i] = key
    /\ \A j \in 1 .. i - 1 : text[j] # key
    /\ i + Len(value) <= Len(text)
    /\ \A k \in DOMAIN value : text[i + k] = value[k] /\ value[k] \notin Separators
    /\ i + Len(value) < Len(text) => text[i + Len(value) + 1] \in Separators

\* A parameter that the text carries is found, with its value.
LEMMA ValueIsFound ==
  ASSUME NEW text \in Seq(Cell), NEW key, NEW value \in Seq(Cell), Carries(text, key, value)
  PROVE  ValueOf(text, key) = value
<1>1. Len(text) \in Nat /\ DOMAIN text = 1 .. Len(text) /\ Len(value) \in Nat
      /\ DOMAIN value = 1 .. Len(value)
  BY LenProperties
<1>2. PICK i \in DOMAIN text :
        /\ text[i] = key
        /\ \A j \in 1 .. i - 1 : text[j] # key
        /\ i + Len(value) <= Len(text)
        /\ \A k \in DOMAIN value : text[i + k] = value[k] /\ value[k] \notin Separators
        /\ i + Len(value) < Len(text) => text[i + Len(value) + 1] \in Separators
  BY DEF Carries
<1> DEFINE at == CHOOSE j \in DOMAIN text : text[j] = key /\ \A l \in 1 .. j - 1 : text[l] # key
<1>3. at = i
  <2>1. at \in DOMAIN text /\ text[at] = key /\ \A l \in 1 .. at - 1 : text[l] # key
    BY <1>2
  <2> HIDE DEF at
  <2>2. ~(at < i) /\ ~(i < at)
    BY <1>1, <1>2, <2>1
  <2> QED BY <1>1, <2>1, <2>2
<1>4. Run(text, i + 1) = Len(value)
  <2> DEFINE n == Run(text, i + 1)
  <2>1. /\ n \in 0 .. Len(text) - i
        /\ i + 1 + n <= Len(text) => text[i + 1 + n] \in Separators
        /\ \A k \in i + 1 .. i + n : text[k] \notin Separators
    <3>1. i + 1 \in 1 .. Len(text) + 1
      BY <1>1
    <3>2. /\ n \in 0 .. Len(text) - (i + 1) + 1
          /\ i + 1 + n <= Len(text) => text[i + 1 + n] \in Separators
          /\ \A k \in i + 1 .. i + 1 + n - 1 : text[k] \notin Separators
      BY <3>1, RunEnds
    <3> HIDE DEF n
    <3>3. n \in Nat /\ i + 1 + n - 1 = i + n /\ Len(text) - (i + 1) + 1 = Len(text) - i
      BY <1>1, <3>2
    <3> QED BY <3>2, <3>3
  <2> HIDE DEF n
  <2>2. ASSUME n < Len(value) PROVE FALSE
    <3>1. n + 1 \in DOMAIN value /\ i + (n + 1) = i + 1 + n /\ i + 1 + n <= Len(text)
      BY <1>1, <1>2, <2>1, <2>2
    <3>2. text[i + 1 + n] \notin Separators
      BY <1>2, <3>1
    <3> QED BY <2>1, <3>1, <3>2
  <2>3. ASSUME Len(value) < n PROVE FALSE
    <3>1. i + Len(value) + 1 \in i + 1 .. i + n /\ i + Len(value) < Len(text)
      BY <1>1, <1>2, <2>1, <2>3
    <3> QED BY <1>2, <2>1, <3>1
  <2>4. n = Len(value)
    <3>1. n \in Nat
      BY <2>1
    <3>2. Len(value) \in Nat
      BY <1>1
    <3>3. ~(n < Len(value)) /\ ~(Len(value) < n)
      BY <2>2, <2>3
    <3> HIDE DEF n
    <3> QED BY <3>1, <3>2, <3>3
  <2> QED BY <2>4 DEF n
<1>5. SubSeq(text, i + 1, i + Len(value)) = value
  <2> DEFINE sub == SubSeq(text, i + 1, i + Len(value))
  <2>1. /\ sub \in Seq(Cell)
        /\ Len(sub) = IF i + 1 <= i + Len(value) THEN i + Len(value) - (i + 1) + 1 ELSE 0
        /\ \A k \in 1 .. i + Len(value) - (i + 1) + 1 : sub[k] = text[i + 1 + k - 1]
    BY <1>1, <1>2, SubSeqProperties, ElementOfSeq
  <2> HIDE DEF sub
  <2>2. Len(sub) = Len(value) /\ \A k \in 1 .. Len(value) : sub[k] = value[k]
    <3>1. Len(sub) = Len(value) /\ i + Len(value) - (i + 1) + 1 = Len(value)
      BY <1>1, <2>1
    <3>2. ASSUME NEW k \in 1 .. Len(value) PROVE sub[k] = value[k]
      <4>1. i + 1 + k - 1 = i + k
        BY <1>1
      <4> QED BY <1>1, <1>2, <2>1, <3>1, <4>1
    <3> QED BY <3>1, <3>2
  <2>3. sub = value
    BY <1>1, <2>1, <2>2, SeqEqual
  <2> QED BY <2>3 DEF sub
<1>6. ~ \A j \in DOMAIN text : text[j] # key
  BY <1>2
<1> HIDE DEF at
<1>7. ValueOf(text, key) = SubSeq(text, at + 1, at + Run(text, at + 1))
  BY <1>6 DEF ValueOf, at
<1> QED BY <1>3, <1>4, <1>5, <1>7

\* The front of the buffer, up to where it holds no NUL, is the front of the string in it;
\* what the string has behind is in the buffer, as far as that goes.
LEMMA StringIsFront ==
  ASSUME NEW b \in [1 .. BufferSize -> Cell], NEW text \in Strings(b),
         NEW e \in 0 .. BufferSize, \A i \in 1 .. e : b[i] # NUL
  PROVE  /\ text \in Seq(Cell) /\ Len(text) >= e
         /\ \A i \in 1 .. e : text[i] = b[i]
         /\ e < BufferSize /\ e < Len(text) => text[e + 1] = b[e + 1] /\ b[e + 1] # NUL
<1>1. BufferSize \in Nat /\ e \in Nat /\ e <= BufferSize
  BY SizeAssumption
<1>2. b \in Seq(Cell) /\ Len(b) = BufferSize /\ DOMAIN b = 1 .. BufferSize
  BY <1>1
<1>3. CASE \E i \in DOMAIN b : b[i] = NUL
  <2> DEFINE end == Before({NUL}, b)
  <2>1. end \in 0 .. BufferSize - 1 /\ b[end + 1] = NUL /\ \A k \in 1 .. end : b[k] # NUL
    <3>1. \E i \in 1 .. Len(b) : b[i] \in {NUL}
      BY <1>2, <1>3
    <3> QED BY <1>2, <3>1, BeforeIsFirst
  <2>2. text = SubSeq(b, 1, end)
    BY <1>3 DEF Strings
  <2> HIDE DEF end
  <2>3. e <= end
    <3>1. ~(end + 1 \in 1 .. e)
      BY <2>1
    <3> QED BY <1>1, <2>1, <3>1
  <2>4. /\ text \in Seq(Cell) /\ Len(text) = IF 1 <= end THEN end - 1 + 1 ELSE 0
        /\ \A i \in 1 .. end - 1 + 1 : text[i] = b[1 + i - 1]
    <3>1. \A i \in 1 .. end : b[i] \in Cell
      BY <1>1, <2>1
    <3> QED BY <2>1, <2>2, <3>1, SubSeqProperties
  <2>5. Len(text) = end
    BY <2>1, <2>4
  <2>6. ASSUME NEW i \in 1 .. end PROVE text[i] = b[i]
    <3>1. i \in 1 .. end - 1 + 1 /\ 1 + i - 1 = i
      BY <2>1
    <3> QED BY <2>4, <3>1
  <2>7. \A i \in 1 .. e : text[i] = b[i]
    BY <1>1, <2>1, <2>3, <2>6
  <2>8. e < Len(text) => text[e + 1] = b[e + 1] /\ b[e + 1] # NUL
    BY <1>1, <2>1, <2>5, <2>6
  <2> QED BY <2>3, <2>4, <2>5, <2>7, <2>8
<1>4. CASE ~ \E i \in DOMAIN b : b[i] = NUL
  <2>1. PICK tail \in Behind : text = b \o tail
    BY <1>4 DEF Strings
  <2>2. tail \in Seq(Cell) /\ Len(tail) \in Nat
    BY BehindAssumption, LenProperties
  <2>3. /\ text \in Seq(Cell) /\ Len(text) = Len(b) + Len(tail)
        /\ \A j \in 1 .. Len(b) + Len(tail) : text[j] = IF j <= Len(b) THEN b[j] ELSE tail[j - Len(b)]
    BY <1>2, <2>1, <2>2, ConcatProperties
  <2>4. ASSUME NEW i \in 1 .. BufferSize PROVE text[i] = b[i] /\ b[i] # NUL
    <3>1. i \in 1 .. Len(b) + Len(tail) /\ i <= Len(b)
      BY <1>1, <1>2, <2>2
    <3> QED BY <1>2, <1>4, <2>3, <3>1
  <2>5. \A i \in 1 .. e : text[i] = b[i]
    BY <1>1, <2>4
  <2>6. e < BufferSize => text[e + 1] = b[e + 1] /\ b[e + 1] # NUL
    BY <1>1, <2>4
  <2>7. Len(text) >= e
    BY <1>1, <1>2, <2>2, <2>3
  <2> QED BY <2>3, <2>5, <2>6, <2>7
<1> QED BY <1>3, <1>4

\* The method of a text is a text; it is the first cell when a space is the second.
LEMMA MethodIsFirst ==
  ASSUME NEW text \in Seq(Cell)
  PROVE  /\ Method(text) \in Seq(Cell)
         /\ Len(text) >= 2 /\ text[1] # " " /\ text[2] = " " => Method(text) = <<text[1]>>
<1> DEFINE l == Len(text)
<1>1. l \in Nat /\ DOMAIN text = 1 .. l /\ \A i \in 1 .. l : text[i] \in Cell
  BY LenProperties, ElementOfSeq
<1> HIDE DEF l
<1>2. CASE \A i \in 1 .. l : text[i] # " "
  <2>1. Method(text) = text
    BY <1>1, <1>2 DEF Method
  <2>2. l >= 2 => 2 \in 1 .. l
    BY <1>1
  <2>3. l >= 2 => text[2] # " "
    BY <1>2, <2>2
  <2> QED BY <2>1, <2>3 DEF l
<1>3. CASE \E i \in 1 .. l : text[i] = " "
  <2> DEFINE n == Before({" "}, text)
  <2>1. /\ n \in 0 .. l - 1 /\ text[n + 1] = " "
        /\ \A k \in 1 .. n : text[k] # " "
    <3>1. \E i \in 1 .. Len(text) : text[i] \in {" "}
      BY <1>3 DEF l
    <3> QED BY <3>1, BeforeIsFirst DEF l
  <2>2. Method(text) = SubSeq(text, 1, n)
    BY <1>1, <1>3 DEF Method
  <2> HIDE DEF n
  <2>3. n \in Nat /\ n < l
    <3>1. l \in Nat
      BY <1>1
    <3>2. n \in 0 .. l - 1
      BY <2>1
    <3> QED BY <3>1, <3>2
  <2> DEFINE sub == SubSeq(text, 1, n)
  <2>4. /\ sub \in Seq(Cell)
        /\ Len(sub) = IF 1 <= n THEN n - 1 + 1 ELSE 0
        /\ \A i \in 1 .. n - 1 + 1 : sub[i] = text[1 + i - 1]
    <3>1. \A i \in 1 .. n : i \in 1 .. l
      BY <1>1, <2>3
    <3>2. \A i \in 1 .. n : text[i] \in Cell
      BY <1>1, <3>1
    <3>3. 1 \in Int /\ n \in Int
      BY <2>3
    <3> QED BY <3>2, <3>3, SubSeqProperties
  <2> HIDE DEF sub
  <2>5. ASSUME l >= 2, text[1] # " ", text[2] = " "
        PROVE  sub = <<text[1]>>
    <3>1. n = 1
      <4>1. n # 0
        <5>1. n = 0 => n + 1 = 1
          OBVIOUS
        <5>2. text[n + 1] = " "
          BY <2>1
        <5>3. text[1] # " "
          BY <2>5
        <5> QED BY <5>1, <5>2, <5>3
      <4>2. ~(2 \in 1 .. n)
        BY <2>1, <2>5
      <4> QED BY <2>3, <4>1, <4>2
    <3>2. Len(sub) = 1 /\ sub[1] = text[1]
      <4>1. 1 \in 1 .. n - 1 + 1 /\ 1 + 1 - 1 = 1 /\ n - 1 + 1 = 1
        BY <3>1
      <4> QED BY <2>4, <3>1, <4>1
    <3> DEFINE c == text[1]
    <3> HIDE DEF c
    <3>3. sub = <<c>>
      BY <2>4, <3>2 DEF c
    <3> QED BY <3>3 DEF c
  <2> QED BY <2>2, <2>4, <2>5 DEF sub, l
<1> QED BY <1>2, <1>3

\* The broker gets the value of a parameter that is looked for and found.
LEMMA PairIsFound ==
  ASSUME NEW text \in Seq(Cell), NEW keys, NEW key \in keys, ValueOf(text, key) # <<>>
  PROVE  GetValue(Pairs(text, keys), key) = ValueOf(text, key)
<1> DEFINE pair == [key |-> key, value |-> ValueOf(text, key)]
           body == Pairs(text, keys)
<1>1. pair \in body /\ pair.key = key
  BY DEF Pairs
<1>2. \A p \in body : p.key = key => p = pair
  BY DEF Pairs
<1> HIDE DEF pair, body
<1>3. (CHOOSE p \in body : p.key = key) = pair
  BY <1>1, <1>2
<1>4. GetValue(body, key) = pair.value
  BY <1>1, <1>3 DEF GetValue
<1> QED BY <1>4 DEF pair, body
-----------------------------------------------------------------------------
\* The buffer of a message of which n cells have arrived.
Front(m, n) == [i \in 1 .. BufferSize |-> IF i <= n THEN m.text[i] ELSE NUL]

\* The buffer is fresh when recv is called, and holds what has arrived when it is parsed.
ArrivedInFront ==
  \A s \in Thread :
    /\ pc[s] = "recv" => buffer[s] = Fresh
    /\ pc[s] = "parse" => got[s] <= Len(client[s].text) /\ buffer[s] = Front(client[s], got[s])

Parsed == {"handle", "assemble", "send"}

\* What Request_parse makes of a string.
RequestOf(text) ==
  IF text = <<>> THEN NullRequest
  ELSE [method |-> Method(text), body |-> Pairs(text, KeysOf(Method(text)))]

\* An index that a short can hold is kept.
LEMMA SmallIsKept ==
  ASSUME NEW n \in Nat, n < 2^16
  PROVE  n % 2^16 = n
<1>1. 2^16 = 65536
  BY SMT
<1> QED BY <1>1, SMT

\* A parameter that has been received in full, as the first of its name, is carried by the
\* string that is parsed.
LEMMA ReceivedIsCarried ==
  ASSUME NEW m, IsMessage(m), NEW n \in 0 .. BufferSize, n <= Len(m.text),
         NEW b \in [1 .. BufferSize -> Cell], b = Front(m, n), NEW text \in Strings(b),
         NEW p \in m.params, Received(p, n), IsFirst(p, m.text)
  PROVE  /\ text \in Seq(Cell) /\ text # <<>> /\ Carries(text, p.key, p.value)
         /\ Method(text) = <<m.text[1]>> /\ p.key \in KeysOf(Method(text))
         /\ p.value \in Seq(Cell) /\ p.value # <<>>
<1> DEFINE t == m.text
           l == Len(p.value)
           e == p.at + l
<1>1. /\ t \in Seq(Cell) /\ StandsIn(p, t) /\ p.key \in KeysOf(<<t[1]>>) /\ p.key \in Keys
      /\ p.value \in Seq(Cell) /\ p.at \in Nat
      /\ t[1] # " " /\ t[2] = " "
  BY DEF IsMessage
<1>2. /\ Len(t) \in Nat /\ DOMAIN t = 1 .. Len(t) /\ l \in Nat /\ DOMAIN p.value = 1 .. l
      /\ BufferSize \in Nat /\ n \in Nat
  <2> HIDE DEF t, l
  <2>1. Len(t) \in Nat /\ DOMAIN t = 1 .. Len(t)
    BY <1>1, LenProperties
  <2>2. l \in Nat /\ DOMAIN p.value = 1 .. l
    BY <1>1, LenProperties DEF l
  <2>3. BufferSize \in Nat /\ n \in Nat
    BY SizeAssumption
  <2> QED BY <2>1, <2>2, <2>3
<1>3. /\ p.at \in 1 .. Len(t) /\ t[p.at] = p.key /\ p.value # <<>> /\ e <= Len(t)
      /\ \A k \in 1 .. l : t[p.at + k] = p.value[k] /\ p.value[k] \notin Separators \cup {NUL}
      /\ e < Len(t) => t[e + 1] \in Separators
  BY <1>1, <1>2 DEF StandsIn
<1>4. l >= 1
  <2>1. l # 0
    BY <1>1, <1>3, EmptySeq
  <2> HIDE DEF l
  <2> QED BY <1>2, <2>1
<1>5. e <= n /\ e < BufferSize
  BY DEF Received
<1>6. \A j \in 1 .. p.at - 1 : t[j] # p.key /\ t[j] # NUL
  BY DEF IsFirst
<1>7. p.key # NUL
  BY <1>1 DEF Keys, NUL
<1>8. \A i \in 1 .. BufferSize : b[i] = IF i <= n THEN t[i] ELSE NUL
  BY DEF Front
<1> HIDE DEF t, l
<1>9. e \in 0 .. BufferSize /\ e >= 2 /\ p.at < e
  BY <1>2, <1>3, <1>4, <1>5
<1>10. ASSUME NEW i \in 1 .. e PROVE b[i] = t[i] /\ t[i] # NUL
  <2>1. i <= n /\ i \in 1 .. BufferSize
    BY <1>2, <1>3, <1>5
  <2>2. b[i] = t[i]
    BY <1>8, <2>1
  <2>3. CASE i < p.at
    <3>1. i \in 1 .. p.at - 1
      BY <1>3, <2>3
    <3> QED BY <1>6, <2>2, <3>1
  <2>4. CASE i = p.at
    BY <1>3, <1>7, <2>2, <2>4
  <2>5. CASE i > p.at
    <3>1. i - p.at \in 1 .. l /\ p.at + (i - p.at) = i
      BY <1>2, <1>3, <2>5
    <3>2. t[i] = p.value[i - p.at] /\ p.value[i - p.at] # NUL
      BY <1>3, <3>1
    <3> QED BY <2>2, <3>2
  <2> QED BY <1>3, <2>3, <2>4, <2>5
<1>11. /\ text \in Seq(Cell) /\ Len(text) >= e
       /\ \A i \in 1 .. e : text[i] = b[i]
       /\ e < BufferSize /\ e < Len(text) => text[e + 1] = b[e + 1] /\ b[e + 1] # NUL
  <2> HIDE DEF e
  <2>1. \A i \in 1 .. e : b[i] # NUL
    BY <1>10
  <2> QED BY <1>9, <2>1, StringIsFront
<1>12. Len(text) \in Nat /\ DOMAIN text = 1 .. Len(text)
  BY <1>11, LenProperties
<1>13. \A i \in 1 .. e : text[i] = t[i]
  BY <1>10, <1>11
<1>14. e < Len(text) => text[e + 1] \in Separators
  <2> SUFFICES ASSUME e < Len(text) PROVE text[e + 1] \in Separators
    OBVIOUS
  <2>1. text[e + 1] = b[e + 1] /\ b[e + 1] # NUL
    BY <1>5, <1>11
  <2>2. e + 1 \in 1 .. BufferSize
    BY <1>2, <1>5, <1>9
  <2>3. e + 1 <= n
    BY <1>8, <2>1, <2>2
  <2>4. b[e + 1] = t[e + 1] /\ e < Len(t)
    BY <1>2, <1>8, <1>9, <2>2, <2>3 DEF t
  <2> QED BY <1>3, <2>1, <2>4
<1>15. Carries(text, p.key, p.value)
  <2>1. p.at \in DOMAIN text /\ text[p.at] = p.key
    <3>1. p.at \in 1 .. e /\ p.at \in 1 .. Len(text)
      BY <1>2, <1>3, <1>9, <1>11, <1>12
    <3> QED BY <1>3, <1>12, <1>13, <3>1
  <2>2. \A j \in 1 .. p.at - 1 : text[j] # p.key
    <3> SUFFICES ASSUME NEW j \in 1 .. p.at - 1 PROVE text[j] # p.key
      OBVIOUS
    <3>1. j \in 1 .. e
      BY <1>2, <1>3
    <3> QED BY <1>6, <1>13, <3>1
  <2>3. \A k \in 1 .. l : text[p.at + k] = p.value[k] /\ p.value[k] \notin Separators
    <3> SUFFICES ASSUME NEW k \in 1 .. l
                 PROVE  text[p.at + k] = p.value[k] /\ p.value[k] \notin Separators
      OBVIOUS
    <3>1. p.at + k \in 1 .. e
      BY <1>2, <1>3
    <3> QED BY <1>3, <1>13, <3>1
  <2> QED BY <1>2, <1>11, <1>14, <2>1, <2>2, <2>3 DEF Carries, l
<1>16. Method(text) = <<t[1]>>
  <2>1. 1 \in 1 .. e /\ 2 \in 1 .. e /\ Len(text) >= 2
    BY <1>2, <1>9, <1>11, <1>12
  <2>2. text[1] = t[1] /\ text[2] = t[2]
    BY <1>13, <2>1
  <2>3. Len(text) >= 2 /\ text[1] # " " /\ text[2] = " "
    BY <1>1, <2>1, <2>2
  <2> QED BY <1>11, <2>2, <2>3, MethodIsFirst
<1>17. text # <<>>
  BY <1>9, <1>11, <1>12, EmptySeq
<1> QED BY <1>1, <1>3, <1>11, <1>15, <1>16, <1>17 DEF t

\* Parsing what has arrived gives a request that is understood.
LEMMA ParseUnderstands ==
  ASSUME NEW m, IsMessage(m), NEW n \in 0 .. BufferSize, n <= Len(m.text),
         NEW b \in [1 .. BufferSize -> Cell], b = Front(m, n), NEW text \in Strings(b)
  PROVE  Understood(m, n, RequestOf(text))
<1>1. ASSUME n = 0 PROVE RequestOf(text) = NullRequest
  <2>1. b[1] = NUL /\ BufferSize > 0
    <3>1. 1 \in 1 .. BufferSize /\ ~(1 <= n)
      BY <1>1, SizeAssumption
    <3> QED BY <3>1, SizeAssumption DEF Front
  <2>2. /\ text \in Seq(Cell)
        /\ 0 < BufferSize /\ 0 < Len(text) => b[0 + 1] # NUL
    <3>1. 0 \in 0 .. BufferSize /\ \A i \in 1 .. 0 : b[i] # NUL
      BY SizeAssumption
    <3> QED BY <3>1, StringIsFront
  <2>3. Len(text) = 0
    BY <2>1, <2>2, LenProperties
  <2>4. text = <<>>
    BY <2>2, <2>3, EmptySeq
  <2> QED BY <2>4 DEF RequestOf
<1>2. ASSUME NEW p \in m.params, Received(p, n), IsFirst(p, m.text)
      PROVE  AsMeant(BrokerRequest(RequestOf(text)), p)
  <2> DEFINE r == RequestOf(text)
             value == p.value
             ask == BrokerRequest(r)
  <2>1. /\ text \in Seq(Cell) /\ text # <<>> /\ Carries(text, p.key, value)
        /\ p.key \in KeysOf(Method(text))
        /\ value \in Seq(Cell) /\ value # <<>>
    BY <1>2, ReceivedIsCarried
  <2>2. ValueOf(text, p.key) = value
    <3> HIDE DEF value
    <3> QED BY <2>1, ValueIsFound
  <2>3. GetValue(Pairs(text, KeysOf(Method(text))), p.key) = value
    BY <2>1, <2>2, PairIsFound
  <2>4. r.body = Pairs(text, KeysOf(Method(text)))
    BY <2>1 DEF RequestOf
  <2> HIDE DEF r, value
  <2>5. /\ ask.type = GetValue(r.body, "type=") /\ ask.queueName = GetValue(r.body, "queue=")
        /\ ask.data = GetValue(r.body, "data=")
        /\ ask.index = IndexOf(GetValue(r.body, "index="))
    BY DEF BrokerRequest
  <2> HIDE DEF ask
  <2>6. GetValue(r.body, p.key) = value
    BY <2>3, <2>4
  <2>7. ASSUME p.key = "index=", value \in DOMAIN NumberOf, NumberOf[value] < 2^16
        PROVE  ask.index = NumberOf[value]
    <3>1. NumberOf[value] \in Nat
      BY <2>7, NumberAssumption
    <3>2. NumberOf[value] % 2^16 = NumberOf[value]
      BY <2>7, <3>1, SmallIsKept
    <3>3. IndexOf(value) = NumberOf[value] % 2^16
      BY <2>7 DEF IndexOf
    <3>4. ask.index = IndexOf(value)
      BY <2>5, <2>6, <2>7
    <3> QED BY <3>2, <3>3, <3>4
  <2>8. /\ p.key = "type=" => ask.type = value
        /\ p.key = "queue=" => ask.queueName = value
        /\ p.key = "data=" => ask.data = value
    BY <2>5, <2>6
  <2>9. AsMeant(ask, p)
    BY <2>7, <2>8 DEF AsMeant, value
  <2> QED BY <2>9 DEF ask, r
<1> QED BY <1>1, <1>2 DEF Understood
-----------------------------------------------------------------------------
(* The text of a response                                                   *)

\* One sequence behind another.
LEMMA Joined ==
  ASSUME NEW P, NEW s \in Seq(P), NEW t \in Seq(P), NEW m, m = Len(s), NEW n, n = Len(t)
  PROVE  /\ s \o t \in Seq(P) /\ Len(s \o t) = m + n
         /\ \A j \in 1 .. m : (s \o t)[j] = s[j]
         /\ \A j \in 1 .. n : (s \o t)[m + j] = t[j]
<1>1. m \in Nat /\ n \in Nat
  BY LenProperties
<1>2. /\ s \o t \in Seq(P) /\ Len(s \o t) = m + n
      /\ \A j \in 1 .. m + n : (s \o t)[j] = IF j <= m THEN s[j] ELSE t[j - m]
  BY ConcatProperties
<1>3. ASSUME NEW j \in 1 .. n PROVE (s \o t)[m + j] = t[j]
  <2>1. m + j \in 1 .. m + n /\ ~(m + j <= m) /\ (m + j) - m = j
    BY <1>1
  <2>2. QED
    BY <1>2, <2>1
<1>4. ASSUME NEW j \in 1 .. m PROVE (s \o t)[j] = s[j]
  <2>1. j \in 1 .. m + n /\ j <= m
    BY <1>1
  <2>2. QED
    BY <1>2, <2>1
<1>5. QED
  BY <1>2, <1>3, <1>4

\* How many bytes the first pieces of a text have, for every number of them.
IsCount(f, text) ==
  /\ f \in [0 .. Len(text) -> Nat]
  /\ f[0] = 0
  /\ \A k \in 1 .. Len(text) : f[k] = f[k - 1] + text[k].length

\* Bytes is the last of those numbers.
LEMMA BytesDef ==
  ASSUME NEW text \in Text
  PROVE  \E f : IsCount(f, text) /\ Bytes(text) = f[Len(text)]
<1> DEFINE n == Len(text)
           size(k) == IF k \in 1 .. n THEN text[k].length ELSE 0
           plus == [k \in Nat |-> [x \in Nat |-> x + size(k + 1)]]
           solves(f) == f = [k \in 0 .. n |-> IF k = 0 THEN 0 ELSE f[k - 1] + text[k].length]
<1>1. n \in Nat /\ \A k \in 1 .. n : text[k].length \in Nat
  <2>1. \A k \in 1 .. n : text[k] \in Pieces
    BY ElementOfSeq DEF Text
  <2>2. QED
    BY <2>1 DEF Text, Pieces
<1> HIDE DEF n
<1>2. \A k \in Nat : size(k) \in Nat
  BY <1>1
<1>3. plus \in [Nat -> [Nat -> Nat]]
  <2> HIDE DEF size
  <2>1. QED
    BY <1>2
<1>4. PICK h \in [Nat -> Nat] : Follows(h, 0, plus)
  <2> HIDE DEF plus
  <2>1. 0 \in Nat
    OBVIOUS
  <2>2. QED
    BY <1>3, <2>1, Recursion
<1> DEFINE f == [k \in 0 .. n |-> h[k]]
<1>5. f \in [0 .. n -> Nat] /\ f[0] = 0
  BY <1>1, <1>4 DEF Follows
<1>6. ASSUME NEW k \in 1 .. n PROVE f[k] = f[k - 1] + text[k].length
  <2>1. k - 1 \in Nat /\ (k - 1) + 1 = k /\ k - 1 \in 0 .. n /\ k \in 0 .. n
    BY <1>1
  <2>2. h[k] = plus[k - 1][h[k - 1]]
    BY <1>4, <2>1 DEF Follows
  <2>3. h[k - 1] \in Nat
    BY <1>4, <2>1
  <2>4. plus[k - 1][h[k - 1]] = h[k - 1] + size(k)
    <3> HIDE DEF size
    <3>1. QED
      BY <2>1, <2>3
  <2>5. QED
    BY <2>1, <2>2, <2>4
<1>7. IsCount(f, text)
  <2> HIDE DEF f
  <2>1. QED
    BY <1>5, <1>6 DEF IsCount, n
<1>8. solves(f)
  <2>1. ASSUME NEW k \in 0 .. n
        PROVE  f[k] = IF k = 0 THEN 0 ELSE f[k - 1] + text[k].length
    <3> HIDE DEF f
    <3>1. QED
      BY <1>1, <1>5, <1>6
  <2>2. f = [k \in 0 .. n |-> f[k]]
    OBVIOUS
  <2> HIDE DEF f
  <2>3. QED
    BY <2>1, <2>2
<1> DEFINE g == CHOOSE e : solves(e)
<1>9. solves(g)
  <2> HIDE DEF solves, f
  <2>1. QED
    BY <1>8
<1>10. Bytes(text) = g[n]
  BY DEF Bytes, n
<1> HIDE DEF g, f
<1>11. g[0] = 0 /\ \A k \in 1 .. n : g[k] = g[k - 1] + text[k].length
  <2>1. 0 \in 0 .. n /\ \A k \in 1 .. n : k \in 0 .. n /\ k # 0
    BY <1>1
  <2>2. ASSUME NEW k \in 0 .. n
        PROVE  g[k] = IF k = 0 THEN 0 ELSE g[k - 1] + text[k].length
    <3>1. g = [i \in 0 .. n |-> IF i = 0 THEN 0 ELSE g[i - 1] + text[i].length]
      BY <1>9
    <3> DEFINE e(i) == IF i = 0 THEN 0 ELSE g[i - 1] + text[i].length
    <3>2. g = [i \in 0 .. n |-> e(i)]
      BY <3>1
    <3> HIDE DEF e
    <3>3. g[k] = e(k)
      BY <3>2
    <3>4. QED
      BY <3>3 DEF e
  <2>3. QED
    BY <2>1, <2>2
<1>12. \A k \in 0 .. n : g[k] \in Nat
  <2> DEFINE T == {k \in Nat : g[k] \in Nat}
  <2>1. 0 \in T
    BY <1>11
  <2>2. ASSUME NEW k \in 0 .. n - 1, k \in T PROVE k + 1 \in T
    <3>1. k + 1 \in 1 .. n /\ (k + 1) - 1 = k
      BY <1>1
    <3>2. g[k + 1] = g[k] + text[k + 1].length
      BY <1>11, <3>1
    <3>3. QED
      BY <1>1, <2>2, <3>1, <3>2
  <2> HIDE DEF T
  <2>3. 0 .. n \subseteq T
    BY <1>1, <2>1, <2>2, InductionTo
  <2>4. QED
    BY <2>3 DEF T
<1>13. g \in [0 .. n -> Nat]
  <2>1. g = [k \in 0 .. n |-> g[k]]
    BY <1>9
  <2> HIDE DEF solves
  <2>2. QED
    BY <1>12, <2>1
<1>14. QED
  BY <1>10, <1>11, <1>13 DEF IsCount, n

\* The bytes of a text are a number, and those of a text behind another add to its.
LEMMA BytesAdd ==
  ASSUME NEW s \in Text, NEW t \in Text
  PROVE  /\ s \o t \in Text
         /\ Bytes(s) \in Nat /\ Bytes(t) \in Nat
         /\ Bytes(s \o t) = Bytes(s) + Bytes(t)
<1> DEFINE m == Len(s)
           n == Len(t)
<1>1. /\ s \o t \in Text /\ m \in Nat /\ n \in Nat /\ Len(s \o t) = m + n
      /\ \A k \in 1 .. m : (s \o t)[k] = s[k]
      /\ \A k \in 1 .. n : (s \o t)[m + k] = t[k]
  BY Joined, LenProperties DEF Text
<1>2. PICK f : IsCount(f, s) /\ Bytes(s) = f[m]
  BY BytesDef
<1>3. PICK g : IsCount(g, t) /\ Bytes(t) = g[n]
  BY BytesDef
<1>4. PICK h : IsCount(h, s \o t) /\ Bytes(s \o t) = h[m + n]
  <2>1. \E h : IsCount(h, s \o t) /\ Bytes(s \o t) = h[Len(s \o t)]
    BY <1>1, BytesDef
  <2>2. QED
    BY <1>1, <2>1
<1>5. Bytes(s) \in Nat /\ Bytes(t) \in Nat
  BY <1>1, <1>2, <1>3 DEF IsCount
<1>6. /\ f[0] = 0 /\ \A k \in 1 .. m : f[k] = f[k - 1] + s[k].length
      /\ g[0] = 0 /\ \A k \in 1 .. n : g[k] = g[k - 1] + t[k].length
      /\ h[0] = 0 /\ \A k \in 1 .. m + n : h[k] = h[k - 1] + (s \o t)[k].length
      /\ \A k \in 0 .. n : g[k] \in Nat
      /\ \A k \in 1 .. n : t[k].length \in Nat
  <2>1. \A k \in 1 .. n : t[k] \in Pieces
    BY ElementOfSeq DEF Text
  <2>2. QED
    BY <1>1, <1>2, <1>3, <1>4, <2>1 DEF IsCount, Pieces
<1> HIDE DEF m, n
<1>7. h[m] = f[m]
  <2> DEFINE T == {k \in Nat : h[k] = f[k]}
  <2>1. 0 \in T
    BY <1>6
  <2>2. ASSUME NEW k \in 0 .. m - 1, k \in T PROVE k + 1 \in T
    <3>1. k + 1 \in 1 .. m /\ k + 1 \in 1 .. m + n /\ (k + 1) - 1 = k /\ k + 1 \in Nat
      BY <1>1
    <3>2. h[k + 1] = h[k] + (s \o t)[k + 1].length /\ f[k + 1] = f[k] + s[k + 1].length
      BY <1>6, <3>1
    <3>3. QED
      BY <1>1, <2>2, <3>1, <3>2
  <2> HIDE DEF T
  <2>3. 0 .. m \subseteq T
    BY <1>1, <2>1, <2>2, InductionTo
  <2>4. QED
    BY <1>1, <2>3 DEF T
<1>8. h[m + n] = f[m] + g[n]
  <2> DEFINE T == {k \in Nat : h[m + k] = f[m] + g[k]}
  <2>0. f[m] \in Nat
    BY <1>2, <1>5
  <2>1. 0 \in T
    BY <1>1, <1>6, <1>7, <2>0
  <2>2. ASSUME NEW k \in 0 .. n - 1, k \in T PROVE k + 1 \in T
    <3>1. k + 1 \in 1 .. n /\ m + (k + 1) \in 1 .. m + n /\ (k + 1) - 1 = k
          /\ (m + (k + 1)) - 1 = m + k /\ k + 1 \in Nat /\ k \in 0 .. n
      BY <1>1
    <3>2. h[m + (k + 1)] = h[m + k] + t[k + 1].length /\ g[k + 1] = g[k] + t[k + 1].length
      BY <1>1, <1>6, <3>1
    <3>3. h[m + k] = f[m] + g[k] /\ g[k] \in Nat /\ t[k + 1].length \in Nat
      BY <1>6, <2>2, <3>1
    <3>4. QED
      BY <2>0, <3>1, <3>2, <3>3
  <2> HIDE DEF T
  <2>3. 0 .. n \subseteq T
    BY <1>1, <2>1, <2>2, InductionTo
  <2>4. QED
    BY <1>1, <2>3 DEF T
<1>9. QED
  BY <1>1, <1>2, <1>3, <1>4, <1>5, <1>8

\* A text of one piece has its bytes.
LEMMA BytesOfPiece ==
  ASSUME NEW p \in Pieces
  PROVE  <<p>> \in Text /\ Bytes(<<p>>) = p.length
<1> DEFINE s == <<p>>
<1>1. s \in Text /\ Len(s) = 1 /\ s[1] = p
  BY DEF Text
<1> HIDE DEF s
<1>2. PICK f : IsCount(f, s) /\ Bytes(s) = f[Len(s)]
  BY <1>1, BytesDef
<1>3. f[1] = f[1 - 1] + p.length /\ f[0] = 0
  BY <1>1, <1>2 DEF IsCount
<1>4. Bytes(s) = p.length
  BY <1>1, <1>2, <1>3 DEF Pieces
<1>5. QED
  BY <1>1, <1>4 DEF s

\* A piece of one of the names.
LEMMA PieceType ==
  ASSUME NEW name \in PieceName, NEW n \in Nat
  PROVE  /\ Piece(name, n) \in Pieces
         /\ Piece(name, n).length = n
BY DEF Piece, Pieces

\* The headers are texts.
LEMMA HeadersAreTexts ==
  /\ Len(Headers) = 5 /\ DOMAIN Headers = 1 .. 5
  /\ \A k \in 1 .. 5 : Headers[k] \in Text
  /\ <<Newline>> \in Text /\ Bytes(<<Newline>>) = 1
<1> DEFINE P == Pieces
<1>1. Newline \in P /\ Newline.length = 1
  <2>1. "\n" \in PieceName
    BY DEF PieceName
  <2>2. QED
    BY <2>1, PieceType DEF Newline
<1>2. \A k \in 1 .. 5 : Headers[k] \in Text
  <2>1. /\ "Access-Control-Allow-Origin" \in PieceName /\ "Connection" \in PieceName
        /\ "Content-type" \in PieceName /\ "Host" \in PieceName /\ "Date" \in PieceName
    BY DEF PieceName
  <2> DEFINE p1 == Piece("Access-Control-Allow-Origin", 30)
             p2 == Piece("Connection", 17)
             p3 == Piece("Content-type", 39)
             p4 == Piece("Host", 20)
             p5 == Piece("Date", 30)
  <2>2. p1 \in P /\ p2 \in P /\ p3 \in P /\ p4 \in P /\ p5 \in P
    BY <2>1, PieceType
  <2>3. Headers = <<<<p1>>, <<p2>>, <<p3>>, <<p4>>, <<p5, Newline>>>>
    BY DEF Headers
  <2> HIDE DEF p1, p2, p3, p4, p5, P
  <2>4. /\ <<p1>> \in Seq(P) /\ <<p2>> \in Seq(P) /\ <<p3>> \in Seq(P) /\ <<p4>> \in Seq(P)
        /\ <<p5, Newline>> \in Seq(P)
    BY <1>1, <2>2
  <2>5. /\ Headers[1] = <<p1>> /\ Headers[2] = <<p2>> /\ Headers[3] = <<p3>>
        /\ Headers[4] = <<p4>> /\ Headers[5] = <<p5, Newline>>
    BY <2>3
  <2>6. \A k \in 1 .. 5 : k = 1 \/ k = 2 \/ k = 3 \/ k = 4 \/ k = 5
    OBVIOUS
  <2>7. QED
    BY <2>4, <2>5, <2>6 DEF Text, P
<1>3. Len(Headers) = 5 /\ DOMAIN Headers = 1 .. 5
  BY DEF Headers
<1>4. QED
  BY <1>1, <1>2, <1>3, BytesOfPiece

\* The text of a response up to each of its headers.
IsHead(t, status) ==
  /\ t[0] = <<status, Newline>>
  /\ \A k \in 1 .. 5 : t[k] = t[k - 1] \o Headers[k] \o <<Newline>>

\* What Response_assemble writes ends with the body.
LEMMA AssembledDef ==
  ASSUME NEW r
  PROVE  \E t : IsHead(t, Statuses[Latest(r.statuses)]) /\ Assembled(r) = t[5] \o r.body
<1> DEFINE first == <<Statuses[Latest(r.statuses)], Newline>>
           then(s, k) == s \o Headers[k] \o <<Newline>>
           solves(f) == f = [k \in 0 .. Len(Headers) |->
                               IF k = 0 THEN first ELSE f[k - 1] \o Headers[k] \o <<Newline>>]
           f1 == then(first, 1)
           f2 == then(f1, 2)
           f3 == then(f2, 3)
           f4 == then(f3, 4)
           f5 == then(f4, 5)
           f == [k \in 0 .. 5 |->
                   IF k = 0 THEN first ELSE IF k = 1 THEN f1 ELSE IF k = 2 THEN f2
                   ELSE IF k = 3 THEN f3 ELSE IF k = 4 THEN f4 ELSE f5]
<1> HIDE DEF first
<1>1. solves(f)
  <2> HIDE DEF then
  <2>1. ASSUME NEW k \in 0 .. 5
        PROVE  f[k] = IF k = 0 THEN first ELSE then(f[k - 1], k)
    <3> HIDE DEF f1, f2, f3, f4, f5
    <3>1. f1 = then(first, 1) /\ f2 = then(f1, 2) /\ f3 = then(f2, 3) /\ f4 = then(f3, 4)
          /\ f5 = then(f4, 5)
      BY DEF f1, f2, f3, f4, f5
    <3>2. k = 0 \/ k = 1 \/ k = 2 \/ k = 3 \/ k = 4 \/ k = 5
      OBVIOUS
    <3>3. f[0] = first /\ f[1] = f1 /\ f[2] = f2 /\ f[3] = f3 /\ f[4] = f4 /\ f[5] = f5
      OBVIOUS
    <3> HIDE DEF f
    <3>4. QED
      BY <3>1, <3>2, <3>3
  <2>2. f = [k \in 0 .. 5 |-> f[k]]
    OBVIOUS
  <2> HIDE DEF f
  <2>3. f = [k \in 0 .. 5 |-> IF k = 0 THEN first ELSE then(f[k - 1], k)]
    BY <2>1, <2>2
  <2>4. QED
    BY <2>3, HeadersAreTexts DEF then
<1> DEFINE t == CHOOSE e : solves(e)
<1>2. Assembled(r) = t[Len(Headers)] \o r.body
  BY DEF Assembled, first
<1>3. solves(t)
  <2> HIDE DEF solves, f
  <2>1. QED
    BY <1>1
<1> HIDE DEF t, f
<1>4. t = [k \in 0 .. 5 |-> IF k = 0 THEN first ELSE then(t[k - 1], k)]
  BY <1>3, HeadersAreTexts
<1>5. \A k \in 0 .. 5 : t[k] = IF k = 0 THEN first ELSE then(t[k - 1], k)
  <2> HIDE DEF then
  <2>1. QED
    BY <1>4
<1>6. \A k \in 1 .. 5 : k \in 0 .. 5 /\ k # 0
  OBVIOUS
<1>7. IsHead(t, Statuses[Latest(r.statuses)])
  <2>1. t[0] = first
    BY <1>5
  <2>2. ASSUME NEW k \in 1 .. 5 PROVE t[k] = then(t[k - 1], k)
    <3> HIDE DEF then
    <3>1. QED
      BY <1>5, <1>6
  <2>3. QED
    BY <2>1, <2>2 DEF IsHead, first
<1>8. QED
  BY <1>2, <1>7, HeadersAreTexts

\* The size of the headers, each with its newline, up to each of them.
IsSize(n) == n[0] = 0 /\ \A k \in 1 .. 5 : n[k] = n[k - 1] + Bytes(Headers[k]) + 1

\* What Response_assemble asks malloc for counts them all.
LEMMA TotalSizeDef ==
  ASSUME NEW r
  PROVE  \E n : /\ IsSize(n)
                /\ TotalSize(r) =
                     Statuses[Latest(r.statuses)].length + 1 + n[5] + Bytes(r.body) + 1
<1> DEFINE then(x, k) == x + Bytes(Headers[k]) + 1
           solves(f) == f = [k \in 0 .. Len(Headers) |->
                               IF k = 0 THEN 0 ELSE f[k - 1] + Bytes(Headers[k]) + 1]
           f1 == then(0, 1)
           f2 == then(f1, 2)
           f3 == then(f2, 3)
           f4 == then(f3, 4)
           f5 == then(f4, 5)
           f == [k \in 0 .. 5 |->
                   IF k = 0 THEN 0 ELSE IF k = 1 THEN f1 ELSE IF k = 2 THEN f2
                   ELSE IF k = 3 THEN f3 ELSE IF k = 4 THEN f4 ELSE f5]
<1>1. solves(f)
  <2> HIDE DEF then
  <2>1. ASSUME NEW k \in 0 .. 5
        PROVE  f[k] = IF k = 0 THEN 0 ELSE then(f[k - 1], k)
    <3> HIDE DEF f1, f2, f3, f4, f5
    <3>1. f1 = then(0, 1) /\ f2 = then(f1, 2) /\ f3 = then(f2, 3) /\ f4 = then(f3, 4)
          /\ f5 = then(f4, 5)
      BY DEF f1, f2, f3, f4, f5
    <3>2. k = 0 \/ k = 1 \/ k = 2 \/ k = 3 \/ k = 4 \/ k = 5
      OBVIOUS
    <3>3. f[0] = 0 /\ f[1] = f1 /\ f[2] = f2 /\ f[3] = f3 /\ f[4] = f4 /\ f[5] = f5
      OBVIOUS
    <3> HIDE DEF f
    <3>4. QED
      BY <3>1, <3>2, <3>3
  <2>2. f = [k \in 0 .. 5 |-> f[k]]
    OBVIOUS
  <2> HIDE DEF f
  <2>3. f = [k \in 0 .. 5 |-> IF k = 0 THEN 0 ELSE then(f[k - 1], k)]
    BY <2>1, <2>2
  <2>4. QED
    BY <2>3, HeadersAreTexts DEF then
<1> DEFINE n == CHOOSE e : solves(e)
<1>2. TotalSize(r) =
        Statuses[Latest(r.statuses)].length + 1 + n[Len(Headers)] + Bytes(r.body) + 1
  BY DEF TotalSize
<1>3. solves(n)
  <2> HIDE DEF solves, f
  <2>1. QED
    BY <1>1
<1> HIDE DEF n, f
<1>4. n = [k \in 0 .. 5 |-> IF k = 0 THEN 0 ELSE then(n[k - 1], k)]
  BY <1>3, HeadersAreTexts
<1>5. \A k \in 0 .. 5 : n[k] = IF k = 0 THEN 0 ELSE then(n[k - 1], k)
  <2> HIDE DEF then
  <2>1. QED
    BY <1>4
<1>6. \A k \in 1 .. 5 : k \in 0 .. 5 /\ k # 0
  OBVIOUS
<1>7. IsSize(n)
  BY <1>5, <1>6 DEF IsSize
<1>8. QED
  BY <1>2, <1>7, HeadersAreTexts

\* So is every status.
LEMMA StatusesArePieces ==
  /\ DOMAIN Statuses = {200, 204, 400, 500}
  /\ \A code \in DOMAIN Statuses : Statuses[code] \in Pieces
<1> DEFINE length(code) == CASE code = 200 -> 15 [] code = 204 -> 23
                             [] code = 400 -> 24 [] code = 500 -> 34
<1>1. \A code \in {200, 204, 400, 500} : length(code) \in Nat
  OBVIOUS
<1>2. Statuses = [code \in {200, 204, 400, 500} |-> Piece("status", length(code))]
  BY DEF Statuses
<1>3. "status" \in PieceName
  BY DEF PieceName
<1> HIDE DEF length
<1>4. ASSUME NEW code \in {200, 204, 400, 500}
      PROVE  Piece("status", length(code)) \in Pieces
  <2> DEFINE n == length(code)
  <2>1. n \in Nat
    BY <1>1
  <2> HIDE DEF n
  <2>2. Piece("status", n) \in Pieces
    BY <1>3, <2>1, PieceType
  <2>3. QED
    BY <2>2 DEF n
<1>5. QED
  BY <1>2, <1>4

\* An assembled text is a text and has, with its NUL, the size that was asked for.
LEMMA SizeIsRight ==
  ASSUME NEW r, Latest(r.statuses) \in DOMAIN Statuses, r.body \in Text
  PROVE  /\ Assembled(r) \in Text /\ Bytes(Assembled(r)) \in Nat
         /\ TotalSize(r) = Bytes(Assembled(r)) + 1
<1> DEFINE status == Statuses[Latest(r.statuses)]
           body == r.body
<1>1. status \in Pieces
  BY StatusesArePieces
<1> HIDE DEF status, body
<1>2. PICK t : IsHead(t, status) /\ Assembled(r) = t[5] \o body
  BY AssembledDef DEF status, body
<1>3. PICK n : IsSize(n) /\ TotalSize(r) = status.length + 1 + n[5] + Bytes(body) + 1
  BY TotalSizeDef DEF status, body
<1>4. body \in Text
  BY DEF body
<1>5. \A k \in 1 .. 5 : Bytes(Headers[k]) \in Nat
  BY BytesAdd, HeadersAreTexts
<1> DEFINE good(k) == /\ t[k] \in Text /\ n[k] \in Nat
                      /\ Bytes(t[k]) = status.length + 1 + n[k]
           T == {k \in Nat : good(k)}
<1>6. 0 \in T
  <2>1. t[0] = <<status>> \o <<Newline>>
    BY <1>1, <1>2 DEF IsHead
  <2>2. <<status>> \in Text /\ Bytes(<<status>>) = status.length
    BY <1>1, BytesOfPiece
  <2>3. <<Newline>> \in Text /\ Bytes(<<Newline>>) = 1
    BY HeadersAreTexts
  <2>4. t[0] \in Text /\ Bytes(t[0]) = status.length + 1
    <3>1. /\ <<status>> \o <<Newline>> \in Text
          /\ Bytes(<<status>> \o <<Newline>>) = Bytes(<<status>>) + Bytes(<<Newline>>)
      BY <2>2, <2>3, BytesAdd
    <3>2. QED
      BY <2>1, <2>2, <2>3, <3>1
  <2>5. n[0] = 0 /\ status.length \in Nat
    BY <1>1, <1>3 DEF IsSize, Pieces
  <2>6. QED
    BY <2>4, <2>5
<1>7. ASSUME NEW k \in 0 .. 5 - 1, k \in T PROVE k + 1 \in T
  <2> DEFINE h == Headers[k + 1]
  <2>1. k + 1 \in 1 .. 5 /\ (k + 1) - 1 = k /\ k + 1 \in Nat
    OBVIOUS
  <2>2. good(k)
    BY <1>7
  <2>3. t[k + 1] = t[k] \o h \o <<Newline>> /\ n[k + 1] = n[k] + Bytes(h) + 1
    BY <1>2, <1>3, <2>1 DEF IsHead, IsSize
  <2>4. h \in Text /\ Bytes(h) \in Nat /\ <<Newline>> \in Text /\ Bytes(<<Newline>>) = 1
    BY <1>5, <2>1, HeadersAreTexts
  <2> HIDE DEF h
  <2>5. t[k] \o h \in Text /\ Bytes(t[k] \o h) = Bytes(t[k]) + Bytes(h)
    BY <2>2, <2>4, BytesAdd
  <2>6. /\ t[k] \o h \o <<Newline>> \in Text
        /\ Bytes(t[k] \o h \o <<Newline>>) = Bytes(t[k] \o h) + Bytes(<<Newline>>)
    BY <2>4, <2>5, BytesAdd
  <2>7. status.length \in Nat
    BY <1>1 DEF Pieces
  <2>8. t[k + 1] \in Text /\ Bytes(t[k + 1]) = Bytes(t[k]) + Bytes(h) + 1
    BY <2>3, <2>4, <2>5, <2>6
  <2>9. good(k + 1)
    <3> DEFINE before == Bytes(t[k])
    <3>1. before = status.length + 1 + n[k]
      BY <2>2
    <3>2. Bytes(t[k + 1]) = before + Bytes(h) + 1
      BY <2>8
    <3> HIDE DEF before
    <3>3. Bytes(t[k + 1]) = status.length + 1 + (n[k] + Bytes(h) + 1) /\ n[k] + Bytes(h) + 1 \in Nat
      BY <2>2, <2>4, <2>7, <3>1, <3>2
    <3>4. QED
      BY <2>3, <2>8, <3>3
  <2>10. QED
    BY <2>1, <2>9
<1> HIDE DEF T
<1>8. 0 .. 5 \subseteq T
  <2>1. 5 \in Nat
    OBVIOUS
  <2>2. QED
    BY <1>6, <1>7, <2>1, InductionTo
<1>9. good(5)
  BY <1>8 DEF T
<1> HIDE DEF good
<1>10. /\ t[5] \in Text /\ n[5] \in Nat /\ Bytes(t[5]) = status.length + 1 + n[5]
       /\ status.length \in Nat
  BY <1>1, <1>9 DEF good, Pieces
<1>11. /\ t[5] \o body \in Text /\ Bytes(t[5]) \in Nat /\ Bytes(body) \in Nat
       /\ Bytes(t[5] \o body) = Bytes(t[5]) + Bytes(body)
  BY <1>4, <1>10, BytesAdd
<1>12. QED
  BY <1>2, <1>3, <1>10, <1>11

\* A text with one more line of one piece.
LEMMA LineBehind ==
  ASSUME NEW P, NEW s \in Seq(P), NEW p \in P, NEW q \in P, NEW m, m = Len(s),
         NEW v, v = s \o <<p>> \o <<q>>
  PROVE  /\ v \in Seq(P) /\ Len(v) = m + 2
         /\ \A j \in 1 .. m : v[j] = s[j]
         /\ v[m + 1] = p /\ v[m + 2] = q
<1> DEFINE u == s \o <<p>>
<1>1. /\ <<p>> \in Seq(P) /\ 1 = Len(<<p>>) /\ <<p>>[1] = p
      /\ <<q>> \in Seq(P) /\ 1 = Len(<<q>>) /\ <<q>>[1] = q
      /\ m \in Nat
  BY LenProperties
<1>2. /\ u \in Seq(P) /\ Len(u) = m + 1
      /\ \A j \in 1 .. m : u[j] = s[j]
      /\ \A j \in 1 .. 1 : u[m + j] = <<p>>[j]
  BY <1>1, Joined
<1>3. v = u \o <<q>>
  OBVIOUS
<1> HIDE DEF u
<1>4. /\ v \in Seq(P) /\ Len(v) = m + 1 + 1
      /\ \A j \in 1 .. m + 1 : v[j] = u[j]
      /\ \A j \in 1 .. 1 : v[m + 1 + j] = <<q>>[j]
  <2> DEFINE w == u \o <<q>>
             l == m + 1
  <2>1. u \in Seq(P) /\ l = Len(u)
    BY <1>2
  <2> HIDE DEF l
  <2>2. /\ w \in Seq(P) /\ Len(w) = l + 1
        /\ \A j \in 1 .. l : w[j] = u[j]
        /\ \A j \in 1 .. 1 : w[l + j] = <<q>>[j]
    BY <1>1, <2>1, Joined
  <2>3. QED
    BY <1>3, <2>2 DEF l
<1>5. 1 \in 1 .. 1 /\ m + 1 \in 1 .. m + 1 /\ m + 1 + 1 = m + 2 /\ \A j \in 1 .. m : j \in 1 .. m + 1
  BY <1>1
<1>6. v[m + 1] = p
  BY <1>1, <1>2, <1>4, <1>5
<1>7. v[m + 2] = q
  <2>1. v[m + 1 + 1] = q
    BY <1>1, <1>4, <1>5
  <2>2. QED
    BY <1>5, <2>1
<1>8. QED
  BY <1>2, <1>4, <1>5, <1>6, <1>7

\* The headers before the date are one piece each that is no newline, the date ends with
\* one.
LEMMA HeadersEnd ==
  /\ \A k \in 1 .. 4 : \E p \in Pieces : p # Newline /\ Headers[k] = <<p>>
  /\ \E p \in Pieces : p # Newline /\ Headers[5] = <<p>> \o <<Newline>>
<1>1. \A name \in PieceName, n \in Nat : name # "\n" => Piece(name, n) # Newline
  BY DEF Piece, Newline
<1> DEFINE p1 == Piece("Access-Control-Allow-Origin", 30)
           p2 == Piece("Connection", 17)
           p3 == Piece("Content-type", 39)
           p4 == Piece("Host", 20)
           p5 == Piece("Date", 30)
<1>2. /\ "Access-Control-Allow-Origin" \in PieceName /\ "Connection" \in PieceName
      /\ "Content-type" \in PieceName /\ "Host" \in PieceName /\ "Date" \in PieceName
  BY DEF PieceName
<1>3. p1 \in Pieces /\ p2 \in Pieces /\ p3 \in Pieces /\ p4 \in Pieces /\ p5 \in Pieces
  BY <1>2, PieceType DEF Pieces
<1>4. p1 # Newline /\ p2 # Newline /\ p3 # Newline /\ p4 # Newline /\ p5 # Newline
  BY DEF Piece, Newline
<1>5. Headers = <<<<p1>>, <<p2>>, <<p3>>, <<p4>>, <<p5, Newline>>>>
  BY DEF Headers
<1> HIDE DEF p1, p2, p3, p4, p5
<1>6. /\ Headers[1] = <<p1>> /\ Headers[2] = <<p2>> /\ Headers[3] = <<p3>>
      /\ Headers[4] = <<p4>> /\ Headers[5] = <<p5, Newline>>
  BY <1>5
<1>7. <<p5, Newline>> = <<p5>> \o <<Newline>>
  OBVIOUS
<1>8. \A k \in 1 .. 4 : k = 1 \/ k = 2 \/ k = 3 \/ k = 4
  OBVIOUS
<1>9. QED
  BY <1>3, <1>4, <1>6, <1>7, <1>8

\* Two newlines meet behind the date and nowhere before it.
LEMMA HeadEndsOnce ==
  ASSUME NEW r, Latest(r.statuses) \in DOMAIN Statuses, r.body \in Text
  PROVE  LET text == Assembled(r)
             empty(k) == text[k - 1] = Newline /\ text[k] = Newline
         IN  \E k \in 2 .. Len(text) : /\ empty(k) /\ \A j \in 2 .. k - 1 : ~empty(j)
                                       /\ SubSeq(text, k + 1, Len(text)) = r.body
<1> DEFINE status == Statuses[Latest(r.statuses)]
           body == r.body
           text == Assembled(r)
<1>1. status \in Pieces /\ status # Newline
  <2>1. status.name = "status"
    BY StatusesArePieces DEF Statuses, Piece
  <2>2. Newline.name = "\n"
    BY DEF Newline, Piece
  <2>3. status \in Pieces
    BY StatusesArePieces DEF Pieces
  <2>4. QED
    BY <2>1, <2>2, <2>3
<1>2. body \in Seq(Pieces) /\ Newline \in Pieces
  <2>1. "\n" \in PieceName
    BY DEF PieceName
  <2>2. QED
    BY <2>1, PieceType DEF Newline, Text, Pieces
<1> HIDE DEF status, body
<1>3. PICK t : IsHead(t, status) /\ text = t[5] \o body
  BY AssembledDef DEF status, body
<1> HIDE DEF text
<1> DEFINE good(k) == /\ t[k] \in Seq(Pieces) /\ Len(t[k]) = 2 * k + 2
                      /\ \A j \in 1 .. 2 * k + 2 : t[k][j] = Newline <=> j % 2 = 0
           T == {k \in Nat : good(k)}
<1>4. 0 \in T
  <2>1. t[0] = <<status, Newline>>
    BY <1>3 DEF IsHead
  <2>2. \A j \in 1 .. 2 : j = 1 \/ j = 2
    OBVIOUS
  <2>3. good(0)
    BY <1>1, <1>2, <2>1, <2>2
  <2>4. QED
    BY <2>3
<1>5. ASSUME NEW k \in 0 .. 4 - 1, k \in T PROVE k + 1 \in T
  <2>1. k + 1 \in 1 .. 5 /\ k + 1 \in 1 .. 4 /\ (k + 1) - 1 = k
    OBVIOUS
  <2>2. PICK p \in Pieces : p # Newline /\ Headers[k + 1] = <<p>>
    BY <2>1, HeadersEnd
  <2>3. t[k + 1] = t[k] \o <<p>> \o <<Newline>>
    BY <1>3, <2>1, <2>2 DEF IsHead
  <2>4. good(k)
    BY <1>5
  <2> DEFINE m == 2 * k + 2
  <2>5. /\ t[k + 1] \in Seq(Pieces) /\ Len(t[k + 1]) = m + 2
        /\ \A j \in 1 .. m : t[k + 1][j] = t[k][j]
        /\ t[k + 1][m + 1] = p /\ t[k + 1][m + 2] = Newline
    <3> DEFINE s == t[k]
               v == t[k + 1]
    <3>1. s \in Seq(Pieces) /\ m = Len(s)
      BY <2>4
    <3>2. v = s \o <<p>> \o <<Newline>>
      BY <2>3
    <3> HIDE DEF m, good, s, v
    <3>3. /\ v \in Seq(Pieces) /\ Len(v) = m + 2
          /\ \A j \in 1 .. m : v[j] = s[j]
          /\ v[m + 1] = p /\ v[m + 2] = Newline
      BY <1>2, <3>1, <3>2, LineBehind
    <3>4. QED
      BY <3>3 DEF s, v
  <2>6. m + 2 = 2 * (k + 1) + 2 /\ m \in Nat /\ m % 2 = 0
    OBVIOUS
  <2>7. \A j \in 1 .. m : t[k][j] = Newline <=> j % 2 = 0
    BY <2>4
  <2> HIDE DEF m, good
  <2>8. ASSUME NEW j \in 1 .. m + 2 PROVE t[k + 1][j] = Newline <=> j % 2 = 0
    <3>1. CASE j \in 1 .. m
      BY <2>5, <2>7, <3>1
    <3>2. CASE j = m + 1
      <4>1. j % 2 # 0
        BY <2>6, <3>2
      <4>2. QED
        BY <2>2, <2>5, <3>2, <4>1
    <3>3. CASE j = m + 2
      <4>1. j % 2 = 0
        BY <2>6, <3>3
      <4>2. QED
        BY <2>5, <3>3, <4>1
    <3>4. QED
      BY <2>6, <3>1, <3>2, <3>3
  <2>9. good(k + 1)
    BY <2>5, <2>6, <2>8 DEF good
  <2>10. QED
    BY <2>9
<1> HIDE DEF T
<1>6. 0 .. 4 \subseteq T
  <2>1. 4 \in Nat
    OBVIOUS
  <2>2. QED
    BY <1>4, <1>5, <2>1, InductionTo
<1>7. /\ t[4] \in Seq(Pieces) /\ Len(t[4]) = 10
      /\ \A j \in 1 .. 10 : t[4][j] = Newline <=> j % 2 = 0
  <2>1. 4 \in T
    BY <1>6
  <2>2. good(4)
    BY <2>1 DEF T
  <2>3. 2 * 4 + 2 = 10
    OBVIOUS
  <2>4. QED
    BY <2>2, <2>3
<1> HIDE DEF good
<1>8. PICK p \in Pieces : p # Newline /\ Headers[5] = <<p>> \o <<Newline>>
  BY HeadersEnd
<1> DEFINE date == <<p>> \o <<Newline>>
           head == t[5]
<1>9. /\ head \in Seq(Pieces) /\ Len(head) = 13
      /\ \A j \in 1 .. 10 : head[j] = t[4][j]
      /\ head[11] = p /\ head[12] = Newline /\ head[13] = Newline
  <2> DEFINE s == t[4]
             a == s \o date
  <2>1. head = a \o <<Newline>>
    <3>1. 5 \in 1 .. 5 /\ 5 - 1 = 4
      OBVIOUS
    <3>2. QED
      BY <1>3, <1>8, <3>1 DEF IsHead
  <2>2. /\ date \in Seq(Pieces) /\ 2 = Len(date) /\ date[1] = p /\ date[2] = Newline
    BY <1>2
  <2>3. s \in Seq(Pieces) /\ 10 = Len(s)
    BY <1>7
  <2> HIDE DEF date, s
  <2>4. /\ a \in Seq(Pieces) /\ Len(a) = 10 + 2
        /\ \A j \in 1 .. 10 : a[j] = s[j]
        /\ \A j \in 1 .. 2 : a[10 + j] = date[j]
    <3>1. /\ s \o date \in Seq(Pieces) /\ Len(s \o date) = Len(s) + Len(date)
          /\ \A j \in 1 .. Len(s) : (s \o date)[j] = s[j]
          /\ \A j \in 1 .. Len(date) : (s \o date)[Len(s) + j] = date[j]
      <4>1. s \in Seq(Pieces) /\ date \in Seq(Pieces)
        BY <2>2, <2>3
      <4>2. QED
        BY <4>1, Joined
    <3>2. QED
      BY <2>2, <2>3, <3>1
  <2> HIDE DEF a, head
  <2>5. 12 = Len(a) /\ a[11] = p /\ a[12] = Newline
    BY <2>2, <2>4
  <2>6. <<Newline>> \in Seq(Pieces) /\ 1 = Len(<<Newline>>) /\ <<Newline>>[1] = Newline
    BY <1>2
  <2>7. /\ a \o <<Newline>> \in Seq(Pieces) /\ Len(a \o <<Newline>>) = 12 + 1
        /\ \A j \in 1 .. 12 : (a \o <<Newline>>)[j] = a[j]
        /\ \A j \in 1 .. 1 : (a \o <<Newline>>)[12 + j] = <<Newline>>[j]
    <3>1. /\ a \o <<Newline>> \in Seq(Pieces) /\ Len(a \o <<Newline>>) = Len(a) + Len(<<Newline>>)
          /\ \A j \in 1 .. Len(a) : (a \o <<Newline>>)[j] = a[j]
          /\ \A j \in 1 .. Len(<<Newline>>) : (a \o <<Newline>>)[Len(a) + j] = <<Newline>>[j]
      <4>1. a \in Seq(Pieces) /\ <<Newline>> \in Seq(Pieces)
        BY <2>4, <2>5, <2>6
      <4>2. QED
        BY <4>1, Joined
    <3>2. QED
      BY <2>4, <2>5, <2>6, <3>1
  <2>8. /\ head \in Seq(Pieces) /\ Len(head) = 13
        /\ \A j \in 1 .. 12 : head[j] = a[j]
        /\ head[13] = Newline
    BY <2>1, <2>6, <2>7
  <2>9. head[11] = p /\ head[12] = Newline
    BY <2>5, <2>8
  <2>10. \A j \in 1 .. 10 : head[j] = s[j]
    BY <2>4, <2>8
  <2>11. QED
    BY <2>8, <2>9, <2>10 DEF s
<1> HIDE DEF date, head
<1>10. text = head \o body
  BY <1>3 DEF head
<1> DEFINE n == Len(body)
<1> HIDE DEF n
<1>11. /\ text \in Seq(Pieces) /\ Len(text) = 13 + n /\ n \in Nat
       /\ \A j \in 1 .. 13 : text[j] = head[j]
       /\ \A j \in 1 .. n : text[13 + j] = body[j]
  <2>1. n = Len(body) /\ n \in Nat /\ 13 = Len(head)
    BY <1>2, <1>9, LenProperties DEF n
  <2>2. /\ head \o body \in Seq(Pieces) /\ Len(head \o body) = 13 + n
        /\ \A j \in 1 .. 13 : (head \o body)[j] = head[j]
        /\ \A j \in 1 .. n : (head \o body)[13 + j] = body[j]
    <3>1. /\ head \o body \in Seq(Pieces) /\ Len(head \o body) = Len(head) + Len(body)
          /\ \A j \in 1 .. Len(head) : (head \o body)[j] = head[j]
          /\ \A j \in 1 .. Len(body) : (head \o body)[Len(head) + j] = body[j]
      <4>1. head \in Seq(Pieces) /\ body \in Seq(Pieces)
        BY <1>2, <1>9, <2>1
      <4>2. QED
        BY <4>1, Joined
    <3>2. QED
      BY <1>2, <1>9, <2>1, <3>1
  <2>3. QED
    BY <1>10, <2>1, <2>2
<1>12. /\ \A j \in 1 .. 10 : text[j] = Newline <=> j % 2 = 0
       /\ text[11] # Newline /\ text[12] = Newline /\ text[13] = Newline
  <2>1. 11 \in 1 .. 13 /\ 12 \in 1 .. 13 /\ 13 \in 1 .. 13 /\ \A j \in 1 .. 10 : j \in 1 .. 13
    OBVIOUS
  <2>2. \A j \in 1 .. 10 : text[j] = t[4][j]
    BY <1>9, <1>11, <2>1
  <2>3. text[11] # Newline /\ text[12] = Newline /\ text[13] = Newline
    BY <1>8, <1>9, <1>11, <2>1
  <2>4. QED
    BY <1>7, <2>2, <2>3
<1>13. ASSUME NEW j \in 2 .. 12, text[j - 1] = Newline, text[j] = Newline PROVE FALSE
  <2>1. CASE j \in 2 .. 10
    <3>1. j \in 1 .. 10 /\ j - 1 \in 1 .. 10 /\ (j % 2 # 0 \/ (j - 1) % 2 # 0)
      BY <2>1
    <3>2. QED
      BY <1>12, <1>13, <3>1
  <2>2. CASE j = 11 \/ j - 1 = 11
    BY <1>12, <1>13, <2>2
  <2>3. QED
    BY <2>1, <2>2
<1>14. SubSeq(text, 13 + 1, Len(text)) = body
  <2> DEFINE sub == SubSeq(text, 14, 13 + n)
  <2>0. \A j \in 14 .. 13 + n : text[j] \in Pieces
    BY <1>11, ElementOfSeq
  <2>1. /\ sub \in Seq(Pieces)
        /\ Len(sub) = IF 14 <= 13 + n THEN 13 + n - 14 + 1 ELSE 0
        /\ \A j \in 1 .. 13 + n - 14 + 1 : sub[j] = text[14 + j - 1]
    <3>1. 14 \in Int /\ 13 + n \in Int
      BY <1>11
    <3>2. QED
      BY <1>11, <2>0, <3>1, SubSeqProperties
  <2> HIDE DEF sub
  <2>2. Len(sub) = n
    BY <1>11, <2>1
  <2>3. ASSUME NEW j \in 1 .. n PROVE sub[j] = body[j]
    <3>1. j \in 1 .. 13 + n - 14 + 1 /\ 14 + j - 1 = 13 + j
      BY <1>11
    <3>2. QED
      BY <1>11, <2>1, <3>1
  <2>4. sub = body
    BY <1>2, <2>1, <2>2, <2>3, SeqEqual DEF n
  <2>5. QED
    BY <1>11, <2>4 DEF sub, n
<1>15. 13 \in 2 .. Len(text) /\ text[13 - 1] = Newline /\ text[13] = Newline /\ 2 .. 13 - 1 = 2 .. 12
  BY <1>11, <1>12
<1>16. QED
  BY <1>13, <1>14, <1>15 DEF text, body

-----------------------------------------------------------------------------
(* The invariant                                                            *)

AllUnderstood == \A s \in Thread : pc[s] \in Parsed => Understood(client[s], got[s], req[s])

LEMMA InvIsParts ==
  RequestInv <=> TypeOK /\ ArrivedInFront /\ AllUnderstood /\ Ready
BY DEF RequestInv, ArrivedInFront, Front, AllUnderstood, ParametersArrive, Parsed

LEMMA FreshIsTyped ==
  /\ Fresh \in [1 .. BufferSize -> Cell] /\ BufferSize \in 1 .. BufferSize /\ 0 \in 0 .. BufferSize
BY CellAssumption, SizeAssumption DEF Fresh

LEMMA SilenceIsTyped ==
  /\ Silence.text = <<>> /\ Len(Silence.text) = 0 /\ IsMessage(Silence)
  /\ NullRequest \in [method: Seq(Cell), body: SUBSET Pair]
  /\ NoResponse \in Response
<1>1. Silence.text = <<>> /\ Silence.params = {} /\ Silence = [text |-> <<>>, params |-> {}]
  BY DEF Silence
<1>2. IsMessage(Silence)
  BY <1>1 DEF IsMessage
<1> QED BY <1>1, <1>2 DEF NullRequest, NoResponse, Text, Response

\* What a client sends is a message, and so is silence.
LEMMA ClientsSendMessages ==
  ASSUME TypeOK, NEW s \in Thread
  PROVE  /\ IsMessage(client[s])
         /\ client[s].text \in Seq(Cell) /\ Len(client[s].text) \in Nat
         /\ DOMAIN client[s].text = 1 .. Len(client[s].text)
<1>1. IsMessage(client[s])
  BY MessageAssumption, SilenceIsTyped DEF TypeOK
<1> QED BY <1>1, LenProperties DEF IsMessage

\* Every body is a text.
LEMMA BodiesAreTexts == Bodies \subseteq Text
<1> DEFINE p == Piece("Empty request received.", 23)
           q == Piece("Failed to create final JSON response.", 37)
<1>1. /\ "Empty request received." \in PieceName /\ "json" \in PieceName
      /\ "Failed to create final JSON response." \in PieceName
  BY DEF PieceName
<1>2. p \in Pieces /\ q \in Pieces
  BY <1>1, PieceType
<1>3. EmptyRequest = <<p>> /\ NoJson = <<q>>
  BY DEF EmptyRequest, NoJson
<1> HIDE DEF p, q
<1>4. EmptyRequest \in Text /\ NoJson \in Text
  BY <1>2, <1>3 DEF Text
<1>5. ASSUME NEW n \in JsonLength PROVE Json(n) \in Text
  <2> DEFINE j == Piece("json", n)
  <2>1. n \in Nat
    BY SizeAssumption
  <2>2. j \in Pieces
    BY <1>1, <2>1, PieceType
  <2>3. Json(n) = <<j>>
    BY DEF Json
  <2> HIDE DEF j
  <2>4. QED
    BY <2>2, <2>3 DEF Text
<1>6. QED
  BY <1>4, <1>5 DEF Bodies

\* The text of a response depends on its status and its body alone.
LEMMA SameText ==
  ASSUME NEW r, NEW q, r.statuses = q.statuses, r.body = q.body
  PROVE  Assembled(r) = Assembled(q)
<1> DEFINE status == Statuses[Latest(r.statuses)]
<1>1. PICK t : IsHead(t, status) /\ Assembled(r) = t[5] \o r.body
  BY AssembledDef
<1>2. status = Statuses[Latest(q.statuses)]
  OBVIOUS
<1> HIDE DEF status
<1>3. PICK u : IsHead(u, status) /\ Assembled(q) = u[5] \o q.body
  BY <1>2, AssembledDef
<1> DEFINE T == {k \in Nat : t[k] = u[k]}
<1>4. 0 \in T
  BY <1>1, <1>3 DEF IsHead
<1>5. ASSUME NEW k \in 0 .. 5 - 1, k \in T PROVE k + 1 \in T
  <2>1. k + 1 \in 1 .. 5 /\ (k + 1) - 1 = k /\ k + 1 \in Nat
    OBVIOUS
  <2>2. QED
    BY <1>1, <1>3, <1>5, <2>1 DEF IsHead
<1> HIDE DEF T
<1>6. 0 .. 5 \subseteq T
  <2>1. 5 \in Nat
    OBVIOUS
  <2>2. QED
    BY <1>4, <1>5, <2>1, InductionTo
<1>7. t[5] = u[5]
  BY <1>6 DEF T
<1>8. QED
  BY <1>1, <1>3, <1>7

\* A response that is ready gives a text.
LEMMA ReadyIsText ==
  ASSUME NEW r, r.statuses \in Seq(DOMAIN Statuses), r.statuses # <<>>, r.body \in Bodies
  PROVE  /\ Latest(r.statuses) \in DOMAIN Statuses /\ r.body \in Text
         /\ Assembled(r) \in Text
<1> DEFINE codes == r.statuses
<1>1. codes[Len(codes)] \in DOMAIN Statuses
  <2>1. codes \in Seq(DOMAIN Statuses) /\ codes # <<>>
    OBVIOUS
  <2> HIDE DEF codes
  <2>2. Len(codes) \in 1 .. Len(codes)
    BY <2>1, EmptySeq
  <2>3. QED
    BY <2>1, <2>2, ElementOfSeq
<1>2. Latest(r.statuses) \in DOMAIN Statuses /\ r.body \in Text
  BY <1>1, BodiesAreTexts DEF Latest
<1>3. QED
  BY <1>2, SizeIsRight

LEMMA InitKeeps == Init => RequestInv
<1> SUFFICES ASSUME Init
             PROVE  TypeOK /\ ArrivedInFront /\ AllUnderstood /\ Ready
  BY InvIsParts
<1>1. TypeOK
  BY FreshIsTyped, SilenceIsTyped DEF Init, TypeOK, Steps
<1>2. ArrivedInFront /\ AllUnderstood /\ Ready
  BY DEF Init, ArrivedInFront, AllUnderstood, Parsed, Ready
<1> QED BY <1>1, <1>2

LEMMA DieKeeps == Die => (TypeOK /\ ArrivedInFront /\ AllUnderstood)'
<1> SUFFICES ASSUME Die PROVE (TypeOK /\ ArrivedInFront /\ AllUnderstood)'
  OBVIOUS
<1>1. TypeOK'
  BY FreshIsTyped, SilenceIsTyped DEF Die, TypeOK, Steps
<1>2. ArrivedInFront' /\ AllUnderstood'
  BY DEF Die, ArrivedInFront, AllUnderstood, Parsed
<1> QED BY <1>1, <1>2

\* Whatever part of a text arrives, it is all the buffer holds.
LEMMA PutKeeps ==
  ASSUME RequestInv, NEW s \in Thread, pc[s] = "recv", NEW n \in 0 .. BufferSize,
         n <= Len(client[s].text), Put(s, n)
  PROVE  (TypeOK /\ ArrivedInFront /\ AllUnderstood)'
<1>0. TypeOK /\ ArrivedInFront /\ AllUnderstood
  BY InvIsParts
<1> DEFINE b == Front(client[s], n)
           t == client[s].text
<1>1. /\ buffer' = [buffer EXCEPT ![s] =
                      [i \in 1 .. BufferSize |-> IF i <= n THEN client[s].text[i] ELSE @[i]]]
      /\ got' = [got EXCEPT ![s] = n] /\ pc' = [pc EXCEPT ![s] = "parse"]
      /\ client' = client /\ req' = req /\ res' = res
  BY DEF Put, Goto
<1>2. buffer[s] = [i \in 1 .. BufferSize |-> NUL] /\ buffer \in [Thread -> [1 .. BufferSize -> Cell]]
  BY <1>0 DEF ArrivedInFront, Fresh, TypeOK
<1>3. buffer'[s] = b /\ \A u \in Thread : u # s => buffer'[u] = buffer[u]
  <2>1. \A i \in 1 .. BufferSize : buffer[s][i] = NUL
    BY <1>2
  <2>2. buffer'[s] = [i \in 1 .. BufferSize |-> IF i <= n THEN client[s].text[i] ELSE buffer[s][i]]
    BY <1>1, <1>2
  <2> QED BY <1>1, <1>2, <2>1, <2>2 DEF Front
<1>4. b \in [1 .. BufferSize -> Cell]
  <2>1. t \in Seq(Cell) /\ Len(t) \in Nat /\ DOMAIN t = 1 .. Len(t)
    BY <1>0, ClientsSendMessages
  <2>2. ASSUME NEW i \in 1 .. BufferSize, i <= n PROVE t[i] \in Cell
    <3>1. i \in 1 .. Len(t)
      BY <2>1, <2>2
    <3> HIDE DEF t
    <3> QED BY <2>1, <3>1
  <2>3. NUL \in Cell
    BY CellAssumption
  <2> QED BY <2>2, <2>3 DEF Front
<1>5. TypeOK'
  <2>1. got' \in [Thread -> 0 .. BufferSize]
    BY <1>0, <1>1 DEF TypeOK
  <2>2. buffer' \in [Thread -> [1 .. BufferSize -> Cell]]
    <3>1. buffer' = [u \in Thread |-> buffer'[u]]
      BY <1>1, <1>2
    <3> HIDE DEF b
    <3> QED BY <1>2, <1>3, <1>4, <3>1
  <2> QED BY <1>0, <1>1, <2>1, <2>2 DEF TypeOK, Steps
<1>6. ArrivedInFront'
  <2> SUFFICES ASSUME NEW u \in Thread
               PROVE  /\ pc'[u] = "recv" => buffer'[u] = Fresh
                      /\ pc'[u] = "parse" => /\ got'[u] <= Len(client'[u].text)
                                            /\ buffer'[u] = Front(client'[u], got'[u])
    BY DEF ArrivedInFront, Front, Fresh
  <2>1. CASE u = s
    <3>1. got'[s] = n /\ pc'[s] = "parse" /\ client'[s] = client[s]
      BY <1>0, <1>1 DEF TypeOK
    <3> QED BY <1>3, <2>1, <3>1
  <2>2. CASE u # s
    <3>1. got'[u] = got[u] /\ pc'[u] = pc[u] /\ client'[u] = client[u] /\ buffer'[u] = buffer[u]
      BY <1>0, <1>1, <1>3, <2>2 DEF TypeOK
    <3> QED BY <1>0, <3>1 DEF ArrivedInFront
  <2> QED BY <2>1, <2>2
<1>7. AllUnderstood'
  BY <1>0, <1>1 DEF TypeOK, AllUnderstood, Parsed
<1> QED BY <1>5, <1>6, <1>7

LEMMA ParseKeeps ==
  ASSUME RequestInv, NEW s \in Thread, Parse(s)
  PROVE  (TypeOK /\ ArrivedInFront /\ AllUnderstood)'
<1>0. TypeOK /\ ArrivedInFront /\ AllUnderstood /\ pc[s] = "parse"
  BY InvIsParts DEF Parse
<1>1. CASE Die
  BY <1>1, DieKeeps
<1>2. ASSUME NEW text \in Strings(buffer[s]), req' = [req EXCEPT ![s] = RequestOf(text)],
             pc' = [pc EXCEPT ![s] = "handle"], UNCHANGED <<buffer, client, got, res>>
      PROVE  (TypeOK /\ ArrivedInFront /\ AllUnderstood)'
  <2> DEFINE b == buffer[s]
             m == client[s]
             n == got[s]
             r == RequestOf(text)
  <2>1. /\ b \in [1 .. BufferSize -> Cell] /\ n \in 0 .. BufferSize /\ n <= Len(m.text)
        /\ b = Front(m, n) /\ IsMessage(m)
    BY <1>0, ClientsSendMessages DEF TypeOK, ArrivedInFront
  <2>2. Understood(m, n, r)
    <3> HIDE DEF b, m, n
    <3>1. text \in Strings(b)
      BY DEF b
    <3> QED BY <2>1, <3>1, ParseUnderstands
  <2>3. text \in Seq(Cell)
    <3>1. 0 \in 0 .. BufferSize /\ \A i \in 1 .. 0 : b[i] # NUL
      BY SizeAssumption
    <3> HIDE DEF b
    <3>2. text \in Strings(b)
      BY DEF b
    <3> QED BY <2>1, <3>1, <3>2, StringIsFront
  <2>4. r \in [method: Seq(Cell), body: SUBSET Pair]
    <3>1. Pairs(text, KeysOf(Method(text))) \in SUBSET Pair
      <4>1. \A key : ValueOf(text, key) \in Seq(Cell)
        BY <2>3, ValueIsText
      <4>2. KeysOf(Method(text)) \subseteq Keys
        BY DEF KeysOf, Keys
      <4> QED BY <4>1, <4>2 DEF Pairs, Pair
    <3>2. Method(text) \in Seq(Cell)
      BY <2>3, MethodIsFirst
    <3> QED BY <3>1, <3>2, SilenceIsTyped DEF RequestOf
  <2>5. TypeOK'
    BY <1>0, <1>2, <2>4 DEF TypeOK, Steps
  <2>6. ArrivedInFront'
    BY <1>0, <1>2 DEF ArrivedInFront, TypeOK
  <2>7. AllUnderstood'
    <3> SUFFICES ASSUME NEW u \in Thread, (pc[u] \in Parsed)'
                 PROVE  Understood(client[u], got[u], req'[u])
      BY <1>2 DEF AllUnderstood
    <3> HIDE DEF r
    <3>1. CASE u = s
      <4>1. req'[s] = r
        BY <1>0, <1>2 DEF TypeOK, r
      <4> QED BY <2>2, <3>1, <4>1
    <3>2. CASE u # s
      BY <1>0, <1>2, <3>2 DEF TypeOK, AllUnderstood
    <3> QED BY <3>1, <3>2
  <2> QED BY <2>5, <2>6, <2>7
<1> QED BY <1>1, <1>2 DEF Parse, RequestOf, Goto

\* Response_handle ends the process or gives a status and a body.
LEMMA HandleResponds ==
  ASSUME NEW s \in Thread, Handle(s)
  PROVE  \/ Die
         \/ \E codes \in Seq(DOMAIN Statuses), body \in Bodies :
              /\ codes # <<>>
              /\ res' = [res EXCEPT ![s] = [statuses |-> codes, body |-> body, text |-> <<>>]]
              /\ pc[s] = "handle" /\ pc' = [pc EXCEPT ![s] = "assemble"]
              /\ UNCHANGED <<buffer, client, got, req>>
<1> DEFINE respond(codes, body) ==
             /\ res' = [res EXCEPT ![s] = [statuses |-> codes, body |-> body, text |-> <<>>]]
             /\ pc' = [pc EXCEPT ![s] = "assemble"]
             /\ UNCHANGED <<buffer, client, got, req>>
           C == DOMAIN Statuses
<1>1. \/ Die
      \/ respond(<<400>>, EmptyRequest)
      \/ \E code : \/ \E n \in JsonLength : respond(<<Status(code)>>, Json(n))
                   \/ respond(<<Status(code), 500>>, NoJson)
  BY DEF Handle, Goto
<1>2. 400 \in C /\ 500 \in C /\ \A code : Status(code) \in C
  BY StatusesArePieces DEF Status
<1>3. pc[s] = "handle"
  BY DEF Handle
<1>4. EmptyRequest \in Bodies /\ NoJson \in Bodies /\ \A n \in JsonLength : Json(n) \in Bodies
  BY DEF Bodies
<1> HIDE DEF C
<1>5. <<400>> \in Seq(C) /\ <<400>> # <<>>
  BY <1>2
<1>6. ASSUME NEW code
      PROVE  /\ <<Status(code)>> \in Seq(C) /\ <<Status(code)>> # <<>>
             /\ <<Status(code), 500>> \in Seq(C) /\ <<Status(code), 500>> # <<>>
  <2> DEFINE c == Status(code)
  <2>1. c \in C
    BY <1>2
  <2> HIDE DEF c
  <2>2. QED
    BY <1>2, <2>1 DEF c
<1> DEFINE goal == \E codes \in Seq(C), body \in Bodies : codes # <<>> /\ respond(codes, body)
<1> HIDE DEF respond
<1>7. CASE respond(<<400>>, EmptyRequest)
  <2>1. goal
    BY <1>4, <1>5, <1>7
  <2>2. QED
    BY <1>3, <2>1 DEF respond, C
<1>8. ASSUME NEW code, NEW n \in JsonLength, respond(<<Status(code)>>, Json(n))
      PROVE  goal
  BY <1>4, <1>6, <1>8
<1>9. ASSUME NEW code, respond(<<Status(code), 500>>, NoJson)
      PROVE  goal
  BY <1>4, <1>6, <1>9
<1>10. CASE goal
  BY <1>3, <1>10 DEF respond, C
<1> HIDE DEF goal
<1>11. QED
  BY <1>1, <1>7, <1>8, <1>9, <1>10

\* A step leaves every response ready.
LEMMA ReadyKeeps ==
  ASSUME RequestInv, [Next]_vars
  PROVE  Ready' /\ (\A s \in Thread : Assemble(s) => Assembled(res[s]) \in Text)
<1>1. TypeOK /\ Ready
  BY InvIsParts
<1>2. pc \in [Thread -> Steps] /\ res \in [Thread -> Response]
  BY <1>1 DEF TypeOK
<1> DEFINE given(r) == r.statuses # <<>> /\ r.body \in Bodies
<1>3. \A s \in Thread : res[s].statuses \in Seq(DOMAIN Statuses)
  BY <1>2 DEF Response
<1>4. ASSUME NEW s \in Thread, Assemble(s) PROVE Assembled(res[s]) \in Text
  <2>1. given(res[s])
    BY <1>1, <1>4 DEF Ready, Assemble
  <2>2. QED
    BY <1>3, <2>1, ReadyIsText
<1>5. ASSUME Die PROVE Ready'
  BY <1>5 DEF Die, Ready
<1>6. ASSUME NEW s \in Thread, NEW step \in {"recv", "parse", "handle", "idle"},
             pc' = [pc EXCEPT ![s] = step],
             \A u \in Thread : u # s => res'[u] = res[u]
      PROVE  Ready'
  <2>1. ASSUME NEW u \in Thread, pc'[u] \in {"assemble", "send"}
        PROVE  pc'[u] = pc[u] /\ res'[u] = res[u]
    BY <1>2, <1>6, <2>1
  <2>2. QED
    BY <1>1, <2>1 DEF Ready
<1>7. ASSUME NEW s \in Thread, Handle(s) PROVE Ready'
  <2>1. CASE \E codes \in Seq(DOMAIN Statuses), body \in Bodies :
               /\ codes # <<>>
               /\ res' = [res EXCEPT ![s] = [statuses |-> codes, body |-> body, text |-> <<>>]]
               /\ pc' = [pc EXCEPT ![s] = "assemble"]
    <3>1. given(res'[s]) /\ pc'[s] = "assemble"
      BY <1>2, <2>1
    <3>2. \A u \in Thread : u # s => res'[u] = res[u] /\ pc'[u] = pc[u]
      BY <1>2, <2>1
    <3>3. QED
      BY <1>1, <3>1, <3>2 DEF Ready
  <2>2. QED
    BY <1>5, <1>7, <2>1, HandleResponds
<1>8. ASSUME NEW s \in Thread, Assemble(s) PROVE Ready'
  <2>1. /\ given(res[s]) /\ pc'[s] = "send"
        /\ \A u \in Thread : u # s => res'[u] = res[u] /\ pc'[u] = pc[u]
    BY <1>1, <1>2, <1>8 DEF Ready, Assemble, Goto
  <2> DEFINE r == res[s]
             q == res'[s]
  <2>2. q.statuses = r.statuses /\ q.body = r.body /\ q.text = Assembled(r)
    BY <1>2, <1>8 DEF Assemble, Response
  <2>3. given(q) /\ q.text = Assembled(q)
    <3>1. given(r)
      BY <2>1
    <3> HIDE DEF r, q
    <3>2. Assembled(q) = Assembled(r)
      BY <2>2, SameText
    <3>3. QED
      BY <2>2, <3>1, <3>2
  <2>4. QED
    BY <1>1, <2>1, <2>3 DEF Ready
<1>9. ASSUME UNCHANGED vars PROVE Ready'
  BY <1>1, <1>9 DEF Ready, vars
<1>10. ASSUME NEW s \in Thread, NEW m \in Message, Accept(s, m) PROVE Ready'
  BY <1>6, <1>10 DEF Accept, Goto
<1>11. ASSUME NEW s \in Thread, Receive(s) \/ ReceiveNothing(s) PROVE Ready'
  BY <1>6, <1>11 DEF Receive, ReceiveNothing, Put, Goto
<1>12. ASSUME NEW s \in Thread, Parse(s) PROVE Ready'
  BY <1>5, <1>6, <1>12 DEF Parse, Goto
<1>13. ASSUME NEW s \in Thread, Send(s) PROVE Ready'
  BY <1>2, <1>6, <1>13 DEF Send, Goto
<1>14. QED
  BY <1>4, <1>7, <1>8, <1>9, <1>10, <1>11, <1>12, <1>13 DEF Next

LEMMA NextKeeps ==
  ASSUME RequestInv, [Next]_vars
  PROVE  RequestInv'
<1>1. TypeOK /\ ArrivedInFront /\ AllUnderstood
  BY InvIsParts
<1>2. (TypeOK /\ ArrivedInFront /\ AllUnderstood)'
  <2>1. ASSUME NEW s \in Thread, NEW m \in Message, Accept(s, m)
        PROVE  (TypeOK /\ ArrivedInFront /\ AllUnderstood)'
    <3>1. TypeOK'
      BY <1>1, <2>1, FreshIsTyped DEF TypeOK, Accept, Goto, Steps
    <3>2. ArrivedInFront' /\ AllUnderstood'
      BY <1>1, <2>1 DEF TypeOK, ArrivedInFront, AllUnderstood, Parsed, Accept, Goto
    <3> QED BY <3>1, <3>2
  <2>2. ASSUME NEW s \in Thread, Receive(s) \/ ReceiveNothing(s)
        PROVE  (TypeOK /\ ArrivedInFront /\ AllUnderstood)'
    <3>1. Len(client[s].text) \in Nat /\ BufferSize \in Nat
      BY <1>1, ClientsSendMessages, SizeAssumption
    <3>2. PICK n \in 0 .. BufferSize : n <= Len(client[s].text) /\ Put(s, n)
      BY <2>2, <3>1 DEF Receive, ReceiveNothing, Arriving
    <3>3. pc[s] = "recv"
      BY <2>2 DEF Receive, ReceiveNothing
    <3> QED BY <3>2, <3>3, PutKeeps
  <2>3. ASSUME NEW s \in Thread, Parse(s)
        PROVE  (TypeOK /\ ArrivedInFront /\ AllUnderstood)'
    BY <2>3, ParseKeeps
  <2>4. ASSUME NEW s \in Thread, Handle(s) \/ Assemble(s)
        PROVE  (TypeOK /\ ArrivedInFront /\ AllUnderstood)'
    <3>1. CASE Die
      BY <3>1, DieKeeps
    <3>2. CASE /\ pc[s] \in {"handle", "assemble"} /\ pc' \in {[pc EXCEPT ![s] = "assemble"], [pc EXCEPT ![s] = "send"]}
               /\ UNCHANGED <<buffer, client, got, req>> /\ res' \in [Thread -> Response]
      <4>1. TypeOK'
        BY <1>1, <3>2 DEF TypeOK, Steps
      <4>2. ArrivedInFront' /\ AllUnderstood'
        BY <1>1, <3>2 DEF TypeOK, ArrivedInFront, AllUnderstood, Parsed
      <4> QED BY <4>1, <4>2
    <3>3. res \in [Thread -> Response]
      BY <1>1 DEF TypeOK
    <3>4. CASE Handle(s) /\ ~Die
      <4>1. PICK codes \in Seq(DOMAIN Statuses), body \in Bodies :
              /\ res' = [res EXCEPT ![s] = [statuses |-> codes, body |-> body, text |-> <<>>]]
              /\ pc[s] = "handle" /\ pc' = [pc EXCEPT ![s] = "assemble"]
              /\ UNCHANGED <<buffer, client, got, req>>
        BY <3>4, HandleResponds
      <4>2. [statuses |-> codes, body |-> body, text |-> <<>>] \in Response
        BY DEF Response, Text
      <4>3. res' \in [Thread -> Response]
        BY <3>3, <4>1, <4>2
      <4> QED BY <3>2, <4>1, <4>3
    <3>5. CASE Assemble(s)
      <4>1. Assembled(res[s]) \in Text
        BY <3>5, ReadyKeeps
      <4>2. res' = [res EXCEPT ![s].text = Assembled(res[s])]
        BY <3>5 DEF Assemble
      <4>3. res' \in [Thread -> Response]
        BY <3>3, <4>1, <4>2 DEF Response
      <4> QED BY <3>2, <3>5, <4>3 DEF Assemble, Goto
    <3> QED BY <2>4, <3>1, <3>4, <3>5
  <2>5. ASSUME NEW s \in Thread, Send(s)
        PROVE  (TypeOK /\ ArrivedInFront /\ AllUnderstood)'
    <3>1. TypeOK'
      BY <1>1, <2>5, SilenceIsTyped, FreshIsTyped DEF TypeOK, Send, Goto, Steps
    <3>2. ArrivedInFront' /\ AllUnderstood'
      BY <1>1, <2>5 DEF TypeOK, ArrivedInFront, AllUnderstood, Parsed, Send, Goto
    <3> QED BY <3>1, <3>2
  <2>6. CASE UNCHANGED vars
    BY <1>1, <2>6 DEF vars, TypeOK, ArrivedInFront, AllUnderstood
  <2> QED BY <2>1, <2>2, <2>3, <2>4, <2>5, <2>6 DEF Next
<1>3. Ready'
  BY ReadyKeeps
<1>4. (TypeOK /\ ArrivedInFront /\ AllUnderstood /\ Ready)'
  BY <1>2, <1>3
<1> QED BY <1>4 DEF RequestInv, ArrivedInFront, Front, AllUnderstood, ParametersArrive, Parsed

\* What is sent has been assembled of a status and a body.
LEMMA SentIsAssembled ==
  ASSUME RequestInv, NEW s \in Thread, pc[s] = "send"
  PROVE  /\ Latest(res[s].statuses) \in DOMAIN Statuses /\ res[s].body \in Text
         /\ res[s].text = Assembled(res[s])
<1>1. TypeOK /\ Ready
  BY InvIsParts
<1>2. res[s].statuses \in Seq(DOMAIN Statuses)
  BY <1>1 DEF TypeOK, Response
<1>3. res[s].statuses # <<>> /\ res[s].body \in Bodies /\ res[s].text = Assembled(res[s])
  BY <1>1 DEF Ready
<1> QED BY <1>2, <1>3, ReadyIsText

\* Nobody but recv has written into the buffer that is parsed, what has arrived stands at its
\* front, and every response that is sent is put together, for any messages and any sizes.
THEOREM InvariantHolds == Spec => []RequestInv
<1>1. Init => RequestInv
  BY InitKeeps
<1>2. RequestInv /\ [Next]_vars => RequestInv'
  BY NextKeeps
<1> QED BY <1>1, <1>2, PTL DEF Spec

\* The type invariant: in particular no parameter of a request is empty.
THEOREM TypeCorrect == Spec => []TypeOK
<1>1. RequestInv => TypeOK
  BY DEF RequestInv
<1> QED BY <1>1, InvariantHolds, PTL

\* Every parameter recv has returned in full reaches the broker with its value, for every
\* text of any length, however much of it has arrived and whatever stands behind the buffer.
THEOREM RequestsAreUnderstood == Spec => []ParametersArrive
<1>1. RequestInv => ParametersArrive
  BY DEF RequestInv
<1> QED BY <1>1, InvariantHolds, PTL

\* A client finds the body behind the first empty line of every response.
THEOREM HeadsEnd == Spec => []HeadEndsBeforeBody
<1>1. RequestInv => HeadEndsBeforeBody
  <2> SUFFICES ASSUME RequestInv, NEW s \in Thread, pc[s] = "send"
               PROVE  LET text == res[s].text
                          empty(k) == text[k - 1] = Newline /\ text[k] = Newline
                      IN  \E k \in 2 .. Len(text) :
                            /\ empty(k) /\ \A j \in 2 .. k - 1 : ~empty(j)
                            /\ SubSeq(text, k + 1, Len(text)) = res[s].body
    BY DEF HeadEndsBeforeBody
  <2>1. /\ Latest(res[s].statuses) \in DOMAIN Statuses /\ res[s].body \in Text
        /\ res[s].text = Assembled(res[s])
    BY SentIsAssembled
  <2> QED BY <2>1, HeadEndsOnce
<1> QED BY <1>1, InvariantHolds, PTL

\* The text of a response has room in the block whose size is added up for it, whatever the
\* length of the answer.
THEOREM ResponsesFit == Spec => []TextFits
<1>1. RequestInv => TextFits
  <2> SUFFICES ASSUME RequestInv, NEW s \in Thread, pc[s] = "send"
               PROVE  Bytes(res[s].text) + 1 <= TotalSize(res[s])
    BY DEF TextFits
  <2>1. /\ Latest(res[s].statuses) \in DOMAIN Statuses /\ res[s].body \in Text
        /\ res[s].text = Assembled(res[s])
    BY SentIsAssembled
  <2>2. TotalSize(res[s]) = Bytes(res[s].text) + 1 /\ Bytes(res[s].text) \in Nat
    BY <2>1, SizeIsRight
  <2> QED BY <2>2
<1> QED BY <1>1, InvariantHolds, PTL
=============================================================================
