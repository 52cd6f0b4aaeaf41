------------------------- MODULE MessageTextProofs -------------------------
(***************************************************************************)
(* Proofs about MessageText, for texts of any length.                      *)
(***************************************************************************)
EXTENDS MessageText, NaturalLemmas, SequenceTheorems, TLAPS

\* A byte of a text is a byte, and no NUL.
LEMMA BytesOfTexts == \A b \in 1 .. 255 : b # 0 /\ b \in 0 .. 255
OBVIOUS

\* A text is a sequence of bytes.
LEMMA TextsAreBytes ==
  ASSUME NEW bytes \in Seq(1 .. 255)
  PROVE  bytes \in Seq(0 .. 255)
<1>1. Len(bytes) \in Nat /\ bytes \in [1 .. Len(bytes) -> 1 .. 255]
  BY LenProperties
<1>2. bytes \in [1 .. Len(bytes) -> 0 .. 255]
  BY <1>1, BytesOfTexts
<1> QED BY <1>1, <1>2, SeqDef

\* String stops before the first NUL.
LEMMA StringType ==
  ASSUME NEW bytes \in Seq(0 .. 255)
  PROVE  String(bytes) \in Seq(1 .. 255)
<1>1. Len(bytes) \in Nat /\ DOMAIN bytes = 1 .. Len(bytes)
      /\ \A k \in 1 .. Len(bytes) : bytes[k] \in 0 .. 255
  BY LenProperties, ElementOfSeq
<1>2. CASE \A k \in DOMAIN bytes : bytes[k] # 0
  <2>1. ASSUME NEW k \in 1 .. Len(bytes) PROVE bytes[k] \in 1 .. 255
    <3>1. bytes[k] \in 0 .. 255 /\ bytes[k] # 0
      BY <1>1, <1>2
    <3> QED BY <3>1
  <2>2. bytes \in Seq(1 .. 255)
    BY <1>1, <2>1, SeqDef
  <2> QED BY <1>2, <2>2 DEF String
<1>3. CASE \E k \in DOMAIN bytes : bytes[k] = 0
  <2> DEFINE T == {k \in DOMAIN bytes : bytes[k] = 0}
             z == CHOOSE k \in DOMAIN bytes : bytes[k] = 0 /\ \A j \in 1 .. k - 1 : bytes[j] # 0
  <2>1. T \in SUBSET Nat /\ T # {}
    BY <1>1, <1>3
  <2>2. PICK x \in T : \A y \in T : x <= y
    <3> HIDE DEF T
    <3> QED BY <2>1, Least
  <2>3. x \in DOMAIN bytes /\ bytes[x] = 0 /\ \A j \in 1 .. x - 1 : bytes[j] # 0
    BY <1>1, <2>2
  <2>4. z \in DOMAIN bytes /\ \A j \in 1 .. z - 1 : bytes[j] # 0
    BY <2>3
  <2> HIDE DEF z
  <2>5. \A j \in 1 .. z - 1 : bytes[j] \in 1 .. 255
    BY <1>1, <2>4
  <2>6. SubSeq(bytes, 1, z - 1) \in Seq(1 .. 255)
    <3>1. z - 1 \in Int
      BY <1>1, <2>4
    <3> QED BY <2>5, <3>1, SubSeqProperties
  <2> QED BY <1>3, <2>6 DEF String, z
<1> QED BY <1>2, <1>3

\* String keeps what has no NUL.
LEMMA StringOfPlain ==
  ASSUME NEW bytes \in Seq(0 .. 255), \A k \in DOMAIN bytes : bytes[k] # 0
  PROVE  String(bytes) = bytes
BY DEF String

\* A string with its first NUL at the end is all of it but the NUL.
LEMMA StringEnds ==
  ASSUME NEW bytes \in Seq(0 .. 255), NEW n \in Nat, Len(bytes) = n + 1, bytes[n + 1] = 0,
         \A k \in 1 .. n : bytes[k] # 0
  PROVE  String(bytes) = SubSeq(bytes, 1, n)
<1> DEFINE z == CHOOSE k \in DOMAIN bytes : bytes[k] = 0 /\ \A j \in 1 .. k - 1 : bytes[j] # 0
<1>1. DOMAIN bytes = 1 .. n + 1
  BY LenProperties
<1>2. n + 1 \in DOMAIN bytes /\ bytes[n + 1] = 0 /\ \A j \in 1 .. (n + 1) - 1 : bytes[j] # 0
  BY <1>1
<1>3. z \in DOMAIN bytes /\ bytes[z] = 0
  BY <1>2
<1> HIDE DEF z
<1>4. z \in 1 .. n + 1 /\ z \notin 1 .. n
  BY <1>1, <1>3
<1>5. z = n + 1
  BY <1>4
<1>6. z - 1 = n
  BY <1>5
<1>7. ~ \A k \in DOMAIN bytes : bytes[k] # 0
  BY <1>2
<1>8. String(bytes) = SubSeq(bytes, 1, z - 1)
  BY <1>7 DEF String, z
<1> QED BY <1>6, <1>8
-----------------------------------------------------------------------------
\* What MessageAssumption says of a message holds of NoMessage as well.
IsMessage(m) ==
  /\ m.text \in Seq(1 .. 255) /\ m.means \in Seq(0 .. 255) /\ m.ends \in Seq(Nat)
  /\ Len(m.ends) = Len(m.means)
  /\ \A k \in 1 .. Len(m.means) :
       /\ m.ends[k] <= Len(m.text)
       /\ Encodes(m.text, EndOf(m, k - 1), m.ends[k], m.means[k])
  /\ EndOf(m, Len(m.means)) = Len(m.text) \/ BrokenAt(m.text, EndOf(m, Len(m.means)))

\* Every message the state holds is one of the assumption, or none.
LEMMA MessagesAre ==
  ASSUME TypeOK
  PROVE  IsMessage(message)
<1>1. CASE message \in Message
  <2> DEFINE m == message
  <2>1. /\ m.text \in Seq(1 .. 255) /\ m.means \in Seq(0 .. 255) /\ m.ends \in Seq(Nat)
        /\ Len(m.ends) = Len(m.means)
    BY <1>1, MessageAssumption
  <2>2. \A k \in 1 .. Len(m.means) :
          /\ m.ends[k] <= Len(m.text)
          /\ Encodes(m.text, EndOf(m, k - 1), m.ends[k], m.means[k])
    BY <1>1, MessageAssumption
  <2>3. EndOf(m, Len(m.means)) = Len(m.text) \/ BrokenAt(m.text, EndOf(m, Len(m.means)))
    BY <1>1, MessageAssumption
  <2> QED BY <2>1, <2>2, <2>3 DEF IsMessage
<1>2. CASE message = NoMessage
  <2>1. NoMessage.text = <<>> /\ NoMessage.means = <<>> /\ NoMessage.ends = <<>> /\ Len(<<>>) = 0
    BY DEF NoMessage
  <2> QED BY <1>2, <2>1 DEF IsMessage, EndOf
<1> QED BY <1>1, <1>2 DEF TypeOK

\* The lengths and places of a message are numbers.
LEMMA PlacesAreNumbers ==
  ASSUME NEW m, IsMessage(m)
  PROVE  /\ Len(m.text) \in Nat /\ DOMAIN m.text = 1 .. Len(m.text)
         /\ Len(m.means) \in Nat /\ DOMAIN m.means = 1 .. Len(m.means)
         /\ \A k \in 1 .. Len(m.text) : m.text[k] \in 1 .. 255
         /\ \A k \in 1 .. Len(m.means) : m.means[k] \in 0 .. 255
         /\ \A k \in 0 .. Len(m.means) : EndOf(m, k) \in Nat /\ EndOf(m, k) <= Len(m.text)
<1>1. /\ Len(m.text) \in Nat /\ DOMAIN m.text = 1 .. Len(m.text)
      /\ \A k \in 1 .. Len(m.text) : m.text[k] \in 1 .. 255
  BY LenProperties, ElementOfSeq DEF IsMessage
<1>2. /\ Len(m.means) \in Nat /\ DOMAIN m.means = 1 .. Len(m.means)
      /\ \A k \in 1 .. Len(m.means) : m.means[k] \in 0 .. 255
  BY LenProperties, ElementOfSeq DEF IsMessage
<1>3. \A k \in 1 .. Len(m.means) : m.ends[k] \in Nat /\ m.ends[k] <= Len(m.text)
  BY ElementOfSeq DEF IsMessage
<1>4. ASSUME NEW k \in 0 .. Len(m.means) PROVE EndOf(m, k) \in Nat /\ EndOf(m, k) <= Len(m.text)
  <2>1. CASE k = 0
    BY <1>1, <2>1 DEF EndOf
  <2>2. CASE k # 0
    <3>1. k \in 1 .. Len(m.means)
      BY <1>2, <2>2
    <3> QED BY <1>3, <2>2, <3>1 DEF EndOf
  <2> QED BY <2>1, <2>2
<1> QED BY <1>1, <1>2, <1>3, <1>4

\* Two digits make a byte.
LEMMA HexIsByte ==
  ASSUME NEW c \in Hexadecimal, NEW d \in Hexadecimal
  PROVE  16 * HexValue(c) + HexValue(d) \in 0 .. 255
<1>1. \A e \in Hexadecimal : HexValue(e) \in 0 .. 15
  BY DEF Hexadecimal, HexValue, Digit, Upper, Lower
<1>2. HexValue(c) \in 0 .. 15 /\ HexValue(d) \in 0 .. 15
  BY <1>1
<1> HIDE DEF HexValue
<1> QED BY <1>2

\* A byte of the node's string, or the NUL: no percent sign and no digit of an escape lies
\* behind the text.
LEMMA AtIsByte ==
  ASSUME text \in Seq(1 .. 255)
  PROVE  /\ Len(text) \in Nat
         /\ \A n \in Nat \ {0} : At(n) \in 0 .. 255 /\ (n > Len(text) => At(n) = 0)
<1>1. Len(text) \in Nat /\ \A k \in 1 .. Len(text) : text[k] \in 1 .. 255
  BY LenProperties, ElementOfSeq
<1> QED BY <1>1 DEF At

\* What a turn at a percent sign reads is no further than the NUL.
LEMMA EscapesStayInside ==
  ASSUME text \in Seq(1 .. 255), in \in Nat, in <= Len(text), At(in + 1) = PERCENT
  PROVE  EscapeLength \in {2, 3} /\ in + EscapeLength <= Len(text) + 1
<1>1. Len(text) \in Nat /\ \A n \in Nat \ {0} : n > Len(text) => At(n) = 0
  BY AtIsByte
<1>2. 0 \notin Hexadecimal /\ PERCENT # 0
  BY DEF Hexadecimal, Digit, Upper, Lower, PERCENT
<1>3. in + 1 <= Len(text)
  BY <1>1, <1>2
<1>4. CASE At(in + 2) \in Hexadecimal
  <2>1. in + 2 <= Len(text)
    BY <1>1, <1>2, <1>4
  <2> QED BY <1>1, <1>4, <2>1 DEF EscapeLength
<1>5. CASE At(in + 2) \notin Hexadecimal
  BY <1>1, <1>3, <1>5 DEF EscapeLength
<1> QED BY <1>4, <1>5
-----------------------------------------------------------------------------
\* The first n meant bytes are decoded.
DecodedUpTo(n, bytes) == Len(bytes) >= n /\ \A j \in 1 .. n : bytes[j] = message.means[j]

\* Progress, with a name for its common part.
LEMMA ProgressIs ==
  Progress <=>
    \/ \E k \in 0 .. Len(message.means) :
         in = EndOf(message, k) /\ Len(out) = k /\ DecodedUpTo(k, out)
    \/ /\ in = Len(text) + 1 /\ EndOf(message, Len(message.means)) = Len(text)
       /\ Len(out) = Len(message.means) + 1 /\ DecodedUpTo(Len(message.means), out)
       /\ out[Len(message.means) + 1] = 0
BY DEF Progress, DecodedUpTo

\* While bytes are left, url_decode stands at the encoding of the next meant byte, at the
\* NUL, or at the broken escape.
LEMMA WhereItStands ==
  ASSUME TypeOK, text = message.text, Progress, in <= Len(text)
  PROVE  \E k \in 0 .. Len(message.means) :
           /\ in = EndOf(message, k) /\ Len(out) = k /\ DecodedUpTo(k, out)
           /\ \/ /\ k < Len(message.means)
                 /\ EndOf(message, k + 1) <= Len(text)
                 /\ Encodes(text, in, EndOf(message, k + 1), message.means[k + 1])
              \/ k = Len(message.means) /\ (in = Len(text) \/ BrokenAt(text, in))
<1>1. IsMessage(message)
  BY MessagesAre
<1>2. Len(message.means) \in Nat /\ Len(text) \in Nat
  BY <1>1, PlacesAreNumbers
<1>3. PICK k \in 0 .. Len(message.means) :
        in = EndOf(message, k) /\ Len(out) = k /\ DecodedUpTo(k, out)
  BY <1>2, ProgressIs
<1>4. CASE k = Len(message.means)
  <2>1. EndOf(message, k) = Len(message.text) \/ BrokenAt(message.text, EndOf(message, k))
    BY <1>1, <1>4 DEF IsMessage
  <2> QED BY <1>3, <1>4, <2>1
<1>5. CASE k # Len(message.means)
  <2>1. k + 1 \in 1 .. Len(message.means) /\ k < Len(message.means) /\ k + 1 # 0 /\ (k + 1) - 1 = k
    BY <1>2, <1>5
  <2>2. /\ message.ends[k + 1] <= Len(message.text)
        /\ Encodes(message.text, EndOf(message, (k + 1) - 1), message.ends[k + 1], message.means[k + 1])
    BY <1>1, <2>1 DEF IsMessage
  <2>3. EndOf(message, k + 1) = message.ends[k + 1]
    BY <2>1 DEF EndOf
  <2> QED BY <1>3, <2>1, <2>2, <2>3
<1> QED BY <1>4, <1>5

\* A turn of the loop decodes the next meant byte, or writes the NUL.
LEMMA TurnKeepsProgress ==
  ASSUME TypeOK, text = message.text, Progress, DecodeByte
  PROVE  Progress'
<1>1. /\ in \in Nat /\ in <= Len(text) /\ out \in Seq(0 .. 255)
      /\ message' = message /\ text' = text
  BY DEF TypeOK, DecodeByte
<1>2. Len(text) \in Nat /\ \A n \in Nat \ {0} : n > Len(text) => At(n) = 0
  BY AtIsByte DEF TypeOK
<1>3. Len(message.means) \in Nat
  BY MessagesAre, PlacesAreNumbers
<1>4. PICK k \in 0 .. Len(message.means) :
        /\ in = EndOf(message, k) /\ Len(out) = k /\ DecodedUpTo(k, out)
        /\ \/ /\ k < Len(message.means)
              /\ EndOf(message, k + 1) <= Len(text)
              /\ Encodes(text, in, EndOf(message, k + 1), message.means[k + 1])
           \/ k = Len(message.means) /\ (in = Len(text) \/ BrokenAt(text, in))
  BY <1>1, WhereItStands
<1>5. ASSUME NEW b, out' = Append(out, b)
      PROVE  Len(out') = k + 1 /\ out'[k + 1] = b /\ \A j \in 1 .. k : out'[j] = out[j]
  <2>1. Len(out) = k /\ k \in Nat
    BY <1>3, <1>4
  <2> QED BY <1>1, <1>5, <2>1, AppendProperties
<1>6. CASE /\ k < Len(message.means) /\ EndOf(message, k + 1) <= Len(text)
           /\ Encodes(text, in, EndOf(message, k + 1), message.means[k + 1])
  <2> DEFINE to == EndOf(message, k + 1)
             b == message.means[k + 1]
  <2>1. in' = to /\ out' = Append(out, b)
    <3>1. \A n \in 1 .. Len(text) : At(n) = text[n]
      BY DEF At
    <3>2. CASE to = in + 1 /\ text[to] = b /\ b \notin {PLUS, PERCENT}
      <4>1. At(in + 1) = b
        BY <1>1, <1>2, <1>6, <3>1, <3>2
      <4> QED BY <3>2, <4>1 DEF DecodeByte, Plain
    <3>3. CASE to = in + 1 /\ text[to] = PLUS /\ b = SPACE
      <4>1. At(in + 1) = PLUS /\ PLUS # PERCENT
        BY <1>1, <1>2, <1>6, <3>1, <3>3 DEF PLUS, PERCENT
      <4> QED BY <3>3, <4>1 DEF DecodeByte, Plain
    <3>4. CASE /\ to = in + 3 /\ text[in + 1] = PERCENT
               /\ text[in + 2] \in Hexadecimal /\ text[to] \in Hexadecimal
               /\ b = 16 * HexValue(text[in + 2]) + HexValue(text[to])
      <4>1. At(in + 1) = text[in + 1] /\ At(in + 2) = text[in + 2] /\ At(in + 3) = text[in + 3]
        <5>1. to <= Len(text) /\ to = in + 3
          BY <1>6, <3>4
        <5> HIDE DEF to
        <5>2. in + 1 \in 1 .. Len(text) /\ in + 2 \in 1 .. Len(text) /\ in + 3 \in 1 .. Len(text)
          BY <1>1, <1>2, <5>1
        <5> QED BY <3>1, <5>2
      <4>2. At(in + 1) = PERCENT /\ At(in + 2) \in Hexadecimal /\ At(in + 3) \in Hexadecimal
            /\ b = 16 * HexValue(At(in + 2)) + HexValue(At(in + 3))
        BY <3>4, <4>1
      <4>3. EscapeLength = 3
        BY <4>2 DEF EscapeLength
      <4> QED BY <3>4, <4>2, <4>3 DEF DecodeByte
    <3> QED BY <1>6, <3>2, <3>3, <3>4 DEF Encodes
  <2>2. k + 1 \in 0 .. Len(message.means)
    BY <1>3, <1>6
  <2>3. Len(out') = k + 1 /\ out'[k + 1] = message.means[k + 1] /\ \A j \in 1 .. k : out'[j] = out[j]
    BY <1>5, <2>1
  <2>4. \A j \in 1 .. k + 1 : out'[j] = message.means[j]
    <3>1. k \in Nat /\ \A j \in 1 .. k : out[j] = message.means[j]
      BY <1>3, <1>4 DEF DecodedUpTo
    <3> QED BY <2>3, <3>1
  <2>5. /\ in' = EndOf(message', k + 1) /\ Len(out') = k + 1 /\ Len(out') >= k + 1
        /\ \A j \in 1 .. k + 1 : out'[j] = message'.means[j]
    BY <1>1, <2>1, <2>2, <2>3, <2>4
  <2> QED BY <1>1, <2>2, <2>5 DEF Progress
<1>7. CASE k = Len(message.means) /\ in = Len(text)
  <2>1. At(in + 1) = 0 /\ 0 # PERCENT /\ 0 # PLUS
    BY <1>1, <1>2, <1>7 DEF PERCENT, PLUS
  <2>2. in' = in + 1 /\ out' = Append(out, 0)
    BY <2>1 DEF DecodeByte, Plain
  <2>3. Len(out') = k + 1 /\ out'[k + 1] = 0 /\ \A j \in 1 .. k : out'[j] = out[j]
    BY <1>5, <2>2
  <2>4. /\ in' = Len(text') + 1 /\ EndOf(message', Len(message'.means)) = Len(text')
        /\ Len(out') = Len(message'.means) + 1 /\ Len(out') >= Len(message'.means)
        /\ out'[Len(message'.means) + 1] = 0
        /\ \A j \in 1 .. Len(message'.means) : out'[j] = message'.means[j]
    BY <1>1, <1>3, <1>4, <1>7, <2>2, <2>3 DEF DecodedUpTo
  <2> QED BY <2>4 DEF Progress
<1>8. CASE k = Len(message.means) /\ BrokenAt(text, in)
  <2>1. in < Len(text) /\ text[in + 1] = PERCENT
    BY <1>8 DEF BrokenAt
  <2>2. At(in + 1) = PERCENT
    BY <1>1, <1>2, <2>1 DEF At
  <2>3. 0 \notin Hexadecimal
    BY DEF Hexadecimal, Digit, Upper, Lower
  <2>4. CASE in + 1 = Len(text) \/ text[in + 2] \notin Hexadecimal
    <3>1. At(in + 2) \notin Hexadecimal
      BY <1>1, <1>2, <2>3, <2>4 DEF At
    <3> QED BY <2>2, <3>1 DEF DecodeByte, IsEscape
  <2>5. CASE in + 2 = Len(text) \/ text[in + 3] \notin Hexadecimal
    <3>1. At(in + 3) \notin Hexadecimal
      BY <1>1, <1>2, <2>3, <2>5 DEF At
    <3> QED BY <2>2, <3>1 DEF DecodeByte, IsEscape
  <2> QED BY <1>8, <2>4, <2>5 DEF BrokenAt
<1> QED BY <1>4, <1>6, <1>7, <1>8

\* A turn of the loop writes a byte and reads as many as it has, or more.
LEMMA TurnStaysInside ==
  ASSUME TypeOK, DecodingStaysInside, DecodeByte
  PROVE  out' \in Seq(0 .. 255) /\ in' \in Nat /\ in' <= Len(text) + 1 /\ Len(out') <= in'
<1>1. Len(text) \in Nat /\ \A n \in Nat \ {0} : At(n) \in 0 .. 255
  BY AtIsByte DEF TypeOK
<1>2. in \in Nat /\ in <= Len(text) /\ out \in Seq(0 .. 255) /\ Len(out) \in Nat /\ Len(out) <= in
  <2>1. in \in Nat /\ in <= Len(text) /\ out \in Seq(0 .. 255) /\ Len(out) <= in
    BY DEF TypeOK, DecodingStaysInside, DecodeByte
  <2> QED BY <2>1, LenProperties
<1>3. ASSUME NEW b \in 0 .. 255, out' = Append(out, b)
      PROVE  out' \in Seq(0 .. 255) /\ Len(out') = Len(out) + 1
  BY <1>2, <1>3, AppendProperties
<1>4. CASE in' = in + 1 /\ out' = Append(out, Plain(At(in + 1)))
  <2>1. Plain(At(in + 1)) \in 0 .. 255
    <3>1. in + 1 \in Nat \ {0}
      BY <1>2
    <3>2. At(in + 1) \in 0 .. 255
      BY <1>1, <3>1
    <3> QED BY <3>2 DEF Plain, SPACE
  <2>2. out' \in Seq(0 .. 255) /\ Len(out') = Len(out) + 1
    BY <1>3, <1>4, <2>1
  <2> QED BY <1>1, <1>2, <1>4, <2>2
<1>5. CASE /\ At(in + 1) = PERCENT /\ IsEscape /\ in' = in + EscapeLength
           /\ out' = Append(out, 16 * HexValue(At(in + 2)) + HexValue(At(in + 3)))
  <2>1. EscapeLength \in {2, 3} /\ in + EscapeLength <= Len(text) + 1
    BY <1>2, <1>5, EscapesStayInside DEF TypeOK
  <2>2. 16 * HexValue(At(in + 2)) + HexValue(At(in + 3)) \in 0 .. 255
    BY <1>5, HexIsByte DEF IsEscape
  <2>3. out' \in Seq(0 .. 255) /\ Len(out') = Len(out) + 1
    BY <1>3, <1>5, <2>2
  <2> QED BY <1>1, <1>2, <1>5, <2>1, <2>3
<1> QED BY <1>4, <1>5 DEF DecodeByte

\* The answer is what was meant, when url_decode has come to the end of the text.
LEMMA DecodedIsMeant ==
  ASSUME TypeOK, text = message.text, Progress, Decoded,
         \A k \in 1 .. Len(message.means) : message.means[k] # 0
  PROVE  answer' = message.means /\ SubSeq(answer', 1, Len(message.means)) = message.means
<1> DEFINE n == Len(message.means)
<1>1. IsMessage(message)
  BY MessagesAre
<1>2. n \in Nat /\ message.means \in Seq(0 .. 255) /\ Len(text) \in Nat
      /\ \A k \in 0 .. n : EndOf(message, k) \in Nat /\ EndOf(message, k) <= Len(text)
  BY <1>1, PlacesAreNumbers DEF IsMessage
<1>3. in > Len(text) /\ in \in Nat /\ answer' = String(out) /\ out \in Seq(0 .. 255)
  BY DEF Decoded, TypeOK
<1>4. Len(out) = n + 1 /\ DecodedUpTo(n, out) /\ out[n + 1] = 0
  <2>1. ~ \E k \in 0 .. n : in = EndOf(message, k)
    BY <1>2, <1>3
  <2> QED BY <2>1, ProgressIs
<1> HIDE DEF n
<1>5. \A k \in 1 .. n : out[k] = message.means[k] /\ out[k] # 0
  BY <1>4 DEF DecodedUpTo, n
<1>6. String(out) = SubSeq(out, 1, n)
  BY <1>2, <1>3, <1>4, <1>5, StringEnds
<1>7. SubSeq(out, 1, n) = message.means
  <2> DEFINE sub == SubSeq(out, 1, n)
  <2>1. \A i \in 1 .. n : out[i] \in 0 .. 255
    BY <1>2, <1>5, ElementOfSeq DEF n
  <2>2. /\ sub \in Seq(0 .. 255)
        /\ Len(sub) = IF 1 <= n THEN n - 1 + 1 ELSE 0
        /\ \A i \in 1 .. n - 1 + 1 : sub[i] = out[1 + i - 1]
    BY <1>2, <2>1, SubSeqProperties
  <2> HIDE DEF sub
  <2>3. Len(sub) = n
    BY <1>2, <2>2
  <2>4. ASSUME NEW i \in 1 .. n PROVE sub[i] = message.means[i]
    <3>1. i \in 1 .. n - 1 + 1 /\ 1 + i - 1 = i
      BY <1>2
    <3> QED BY <1>5, <2>2, <3>1
  <2>5. sub = message.means
    BY <1>2, <2>2, <2>3, <2>4, SeqEqual DEF n
  <2> QED BY <2>5 DEF sub
<1>8. SubSeq(message.means, 1, n) = message.means
  BY <1>2, SubSeqFull DEF n
<1> QED BY <1>3, <1>6, <1>7, <1>8 DEF n

\* At a broken escape the answer begins with what was meant, and the text goes on.
LEMMA FailedIsMeant ==
  ASSUME TypeOK, text = message.text, Progress, DecodeFails,
         \A k \in 1 .. Len(message.means) : message.means[k] # 0
  PROVE  /\ SubSeq(answer', 1, Len(message.means)) = message.means
         /\ EndOf(message, Len(message.means)) # Len(message.text)
<1> DEFINE n == Len(message.means)
<1>1. IsMessage(message)
  BY MessagesAre
<1>2. n \in Nat /\ message.means \in Seq(0 .. 255) /\ Len(text) \in Nat
  BY <1>1, PlacesAreNumbers DEF IsMessage
<1>3. /\ in \in Nat /\ in <= Len(text) /\ At(in + 1) = PERCENT /\ ~IsEscape
      /\ out \in Seq(0 .. 255)
  BY DEF DecodeFails, TypeOK
<1>4. \A i \in Nat \ {0} : i > Len(text) => At(i) = 0
  BY AtIsByte DEF TypeOK
<1>5. in + 1 <= Len(text)
  BY <1>2, <1>3, <1>4 DEF PERCENT
<1>6. PICK k \in 0 .. n :
        /\ in = EndOf(message, k) /\ Len(out) = k /\ DecodedUpTo(k, out)
        /\ \/ /\ k < n
              /\ EndOf(message, k + 1) <= Len(text)
              /\ Encodes(text, in, EndOf(message, k + 1), message.means[k + 1])
           \/ k = n /\ (in = Len(text) \/ BrokenAt(text, in))
  BY <1>3, WhereItStands
<1>7. k = n
  <2> SUFFICES ASSUME EndOf(message, k + 1) <= Len(text),
                      Encodes(text, in, EndOf(message, k + 1), message.means[k + 1])
               PROVE  FALSE
    BY <1>6
  <2> DEFINE to == EndOf(message, k + 1)
  <2>1. \A i \in 1 .. Len(text) : At(i) = text[i]
    BY DEF At
  <2>2. text[in + 1] = PERCENT
    BY <1>2, <1>3, <1>5, <2>1
  <2>3. to = in + 3 /\ text[in + 2] \in Hexadecimal /\ text[to] \in Hexadecimal
    BY <2>2 DEF Encodes, PLUS, PERCENT
  <2>4. in + 2 \in 1 .. Len(text) /\ in + 3 \in 1 .. Len(text)
    <3>1. to <= Len(text) /\ to = in + 3
      BY <2>3
    <3> HIDE DEF to
    <3> QED BY <1>2, <1>3, <3>1
  <2> QED BY <1>3, <2>1, <2>3, <2>4 DEF IsEscape
<1>8. EndOf(message, n) # Len(message.text)
  BY <1>2, <1>3, <1>5, <1>6, <1>7
<1>9. PICK rest \in Garbage : answer' = String(out \o rest)
  BY DEF DecodeFails
<1> DEFINE all == out \o rest
<1>10. rest \in Seq(1 .. 255) /\ rest \in Seq(0 .. 255)
  <2>1. rest \in Seq(1 .. 255)
    BY GarbageAssumption
  <2> QED BY <2>1, TextsAreBytes
<1>11. /\ all \in Seq(0 .. 255) /\ Len(all) = Len(out) + Len(rest)
       /\ \A i \in 1 .. Len(out) + Len(rest) :
            all[i] = IF i <= Len(out) THEN out[i] ELSE rest[i - Len(out)]
  BY <1>3, <1>10, ConcatProperties
<1> HIDE DEF n
<1>12. \A i \in 1 .. n : out[i] = message.means[i] /\ out[i] # 0
  BY <1>6, <1>7 DEF DecodedUpTo, n
<1>13. Len(out) = n /\ Len(rest) \in Nat /\ \A i \in 1 .. Len(rest) : rest[i] # 0
  <2>1. \A i \in 1 .. Len(rest) : rest[i] \in 1 .. 255
    BY <1>10, ElementOfSeq
  <2>2. ASSUME NEW i \in 1 .. Len(rest) PROVE rest[i] # 0
    <3>1. rest[i] \in 1 .. 255
      BY <2>1
    <3> QED BY <3>1, BytesOfTexts
  <2>3. Len(rest) \in Nat
    BY <1>10, LenProperties
  <2> QED BY <1>6, <1>7, <2>2, <2>3
<1> HIDE DEF all
<1>14. \A i \in DOMAIN all : all[i] # 0
  <2>1. DOMAIN all = 1 .. n + Len(rest)
    BY <1>11, <1>13, LenProperties
  <2> SUFFICES ASSUME NEW i \in 1 .. n + Len(rest) PROVE all[i] # 0
    BY <2>1
  <2>2. CASE i <= n
    BY <1>2, <1>11, <1>12, <1>13, <2>2
  <2>3. CASE ~(i <= n)
    <3>1. i - n \in 1 .. Len(rest)
      BY <1>2, <1>13, <2>3 DEF n
    <3>2. all[i] = rest[i - n]
      BY <1>11, <1>13, <2>3
    <3> QED BY <1>13, <3>1, <3>2
  <2> QED BY <2>2, <2>3
<1>15. answer' = all
  BY <1>9, <1>11, <1>14, StringOfPlain DEF all
<1>16. SubSeq(all, 1, n) = message.means
  <2> DEFINE sub == SubSeq(all, 1, n)
  <2>1. ASSUME NEW i \in 1 .. n PROVE all[i] = message.means[i] /\ all[i] \in 0 .. 255
    <3>1. i \in 1 .. Len(out) + Len(rest) /\ i <= Len(out)
      BY <1>2, <1>13 DEF n
    <3>2. all[i] = message.means[i]
      BY <1>11, <1>12, <3>1
    <3> QED BY <1>2, <3>2, ElementOfSeq DEF n
  <2>2. n \in Nat
    BY <1>2 DEF n
  <2>3. /\ sub \in Seq(0 .. 255)
        /\ Len(sub) = IF 1 <= n THEN n - 1 + 1 ELSE 0
        /\ \A i \in 1 .. n - 1 + 1 : sub[i] = all[1 + i - 1]
    BY <2>1, <2>2, SubSeqProperties
  <2> HIDE DEF sub
  <2>4. Len(sub) = n
    BY <2>2, <2>3
  <2>5. ASSUME NEW i \in 1 .. n PROVE sub[i] = message.means[i]
    <3>1. i \in 1 .. n - 1 + 1 /\ 1 + i - 1 = i
      BY <2>2
    <3> QED BY <2>1, <2>3, <3>1
  <2>6. sub = message.means
    BY <1>2, <2>3, <2>4, <2>5, SeqEqual DEF n
  <2> QED BY <2>6 DEF sub
<1> QED BY <1>8, <1>15, <1>16 DEF n

-----------------------------------------------------------------------------
\* The invariant holds at the start.
LEMMA InitKeeps ==
  ASSUME Init
  PROVE  MessageInv
<1>1. <<>> \in Seq(1 .. 255) /\ <<>> \in Seq(0 .. 255) /\ Len(<<>>) = 0
  BY EmptySeq
<1>2. TypeOK
  <2>1. message \in Message \cup {NoMessage}
    BY DEF Init
  <2>2. text \in Seq(1 .. 255) /\ out \in Seq(0 .. 255) /\ answer \in Seq(1 .. 255)
    BY <1>1 DEF Init
  <2>3. pc = "idle" /\ in \in Nat /\ id \in Nat \ {0}
    BY DEF Init
  <2>4. onDisk \in BOOLEAN
    BY DEF Init
  <2> QED BY <2>1, <2>2, <2>3, <2>4 DEF TypeOK
<1>3. DecodingStaysInside
  BY <1>1 DEF Init, DecodingStaysInside
<1> QED BY <1>2, <1>3 DEF Init, MessageInv, RestartKeepsText, AnswerIsMeant

\* Produce keeps the invariant.
LEMMA ProduceKeeps ==
  ASSUME MessageInv, NEW m \in Message, NEW i \in Id, Produce(m, i)
  PROVE  MessageInv'
<1>1. m.text \in Seq(1 .. 255)
  BY MessageAssumption
<1>2. i \in Nat \ {0}
  BY IdAssumption
<1>3. in = 0 /\ out = <<>> /\ Len(out) = 0
  BY DEF MessageInv, Produce
<1>4. Len(m.text) \in Nat
  BY <1>1, LenProperties
<1>5. TypeOK'
  BY <1>1, <1>2 DEF MessageInv, TypeOK, Produce
<1>6. DecodingStaysInside'
  BY <1>3, <1>4 DEF Produce, DecodingStaysInside
<1> QED BY <1>3, <1>5, <1>6 DEF Produce, MessageInv, RestartKeepsText, AnswerIsMeant

\* Restart keeps the invariant.
LEMMA RestartKeeps ==
  ASSUME MessageInv, Restart
  PROVE  MessageInv'
<1>1. <<>> \in Seq(1 .. 255) /\ <<>> \in Seq(0 .. 255) /\ Len(<<>>) = 0 /\ DOMAIN <<>> = {}
  BY EmptySeq
<1>2. TypeOK'
  BY <1>1 DEF MessageInv, TypeOK, Restart
<1>3. DecodingStaysInside'
  BY <1>1 DEF Restart, DecodingStaysInside
<1>4. IsMessage(message)'
  <2>1. IsMessage(message)
    BY MessagesAre DEF MessageInv
  <2>2. IsMessage(NoMessage)
    <3>1. NoMessage.text = <<>> /\ NoMessage.means = <<>> /\ NoMessage.ends = <<>>
      BY DEF NoMessage
    <3> QED BY <1>1, <3>1, EmptySeq DEF IsMessage, EndOf
  <2>3. CASE onDisk
    <3>1. message' = message
      BY <2>3 DEF Restart
    <3> QED BY <2>1, <3>1 DEF IsMessage, Encodes, BrokenAt, EndOf
  <2>4. CASE ~onDisk
    <3>1. message' = NoMessage
      BY <2>4 DEF Restart
    <3> QED BY <2>2, <3>1 DEF IsMessage, Encodes, BrokenAt, EndOf
  <2> QED BY <2>3, <2>4
<1>5. Len(message'.text) \in Nat
  BY <1>4, LenProperties DEF IsMessage
<1>6. CASE onDisk
  BY <1>1, <1>2, <1>3, <1>5, <1>6 DEF Restart, MessageInv, RestartKeepsText, AnswerIsMeant
<1>7. CASE ~onDisk
  <2>1. message' = NoMessage /\ pc' = "idle" /\ text' = <<>> /\ in' = 0 /\ out' = <<>>
    BY <1>7 DEF Restart
  <2> QED BY <1>2, <1>3, <2>1 DEF MessageInv, RestartKeepsText, AnswerIsMeant
<1> QED BY <1>6, <1>7

\* ReadByte keeps the invariant.
LEMMA ReadByteKeeps ==
  ASSUME MessageInv, ReadByte
  PROVE  MessageInv'
<1>1. IsMessage(message) /\ text \in Seq(1 .. 255)
  BY MessagesAre DEF MessageInv, TypeOK
<1>2. Len(message.text) \in Nat /\ Len(text) \in Nat /\ DOMAIN text = 1 .. Len(text)
      /\ \A k \in 1 .. Len(message.text) : message.text[k] \in 1 .. 255
  BY <1>1, PlacesAreNumbers, LenProperties
<1>3. Len(text) < Len(message.text)
  BY <1>2 DEF ReadByte, AtEnd
<1>4. message.text[Len(text) + 1] \in 1 .. 255
  <2>1. Len(text) + 1 \in 1 .. Len(message.text)
    BY <1>2, <1>3
  <2> QED BY <1>2, <2>1
<1>5. /\ text' \in Seq(1 .. 255) /\ Len(text') = Len(text) + 1
      /\ \A k \in 1 .. Len(text) : text'[k] = text[k]
      /\ text'[Len(text) + 1] = message.text[Len(text) + 1]
  BY <1>1, <1>4, AppendProperties DEF ReadByte
<1>6. in = 0 /\ out = <<>> /\ in' = 0 /\ out' = <<>> /\ Len(out') = 0 /\ pc' = "reading" /\ message' = message
  BY DEF MessageInv, ReadByte
<1>7. TypeOK'
  BY <1>5 DEF MessageInv, TypeOK, ReadByte
<1>8. DecodingStaysInside'
  BY <1>2, <1>5, <1>6 DEF DecodingStaysInside
<1>9. \A k \in DOMAIN text' : text'[k] = message'.text[k]
  <2>1. \A k \in 1 .. Len(text) : text[k] = message.text[k]
    BY <1>2 DEF MessageInv, ReadByte
  <2>2. DOMAIN text' = 1 .. Len(text) + 1
    BY <1>5, LenProperties
  <2> QED BY <1>2, <1>5, <1>6, <2>1, <2>2
<1>10. Len(text') <= Len(message'.text)
  BY <1>2, <1>3, <1>5, <1>6
<1> QED BY <1>6, <1>7, <1>8, <1>9, <1>10 DEF MessageInv, RestartKeepsText, AnswerIsMeant

\* ReadEnd keeps the invariant.
LEMMA ReadEndKeeps ==
  ASSUME MessageInv, ReadEnd
  PROVE  MessageInv'
<1>1. IsMessage(message) /\ text \in Seq(1 .. 255)
  BY MessagesAre DEF MessageInv, TypeOK
<1>2. /\ Len(message.text) \in Nat /\ DOMAIN message.text = 1 .. Len(message.text)
      /\ Len(text) \in Nat /\ DOMAIN text = 1 .. Len(text)
  BY <1>1, PlacesAreNumbers, LenProperties
<1>3. in = 0 /\ out = <<>> /\ Len(text) <= Len(message.text)
      /\ \A k \in DOMAIN text : text[k] = message.text[k]
  BY DEF MessageInv, ReadEnd
<1>4. ASSUME Readable(message) PROVE text = message.text
  <2>1. ~(Len(text) < Len(message.text))
    <3> SUFFICES ASSUME Len(text) < Len(message.text) PROVE FALSE
      OBVIOUS
    <3>1. message.text[Len(text) + 1] = EOF
      BY DEF ReadEnd, AtEnd
    <3>2. Len(text) + 1 \in DOMAIN message.text
      BY <1>2
    <3> QED BY <1>4, <3>1, <3>2 DEF Readable
  <2>2. Len(text) = Len(message.text)
    BY <1>2, <1>3, <2>1
  <2>3. message.text \in Seq(1 .. 255)
    BY <1>1 DEF IsMessage
  <2> QED BY <1>1, <1>2, <1>3, <2>2, <2>3, SeqEqual
<1>5. /\ pc' = "stored" /\ message' = message /\ text' = text /\ in' = in /\ out' = out
      /\ id' = id /\ onDisk' = onDisk /\ answer' = answer
  BY DEF ReadEnd
<1>6. TypeOK'
  BY <1>5 DEF MessageInv, TypeOK
<1>7. DecodingStaysInside'
  BY <1>5 DEF MessageInv, DecodingStaysInside
<1>8. RestartKeepsText'
  BY <1>4, <1>5 DEF RestartKeepsText, Readable
<1> QED BY <1>3, <1>5, <1>6, <1>7, <1>8 DEF MessageInv, AnswerIsMeant

\* Consume keeps the invariant.
LEMMA ConsumeKeeps ==
  ASSUME MessageInv, Consume
  PROVE  MessageInv'
<1>1. /\ pc = "stored" /\ pc' = "decoding" /\ message' = message /\ text' = text /\ in' = in
      /\ out' = out /\ id' = id /\ onDisk' = FALSE /\ answer' = answer
  BY DEF Consume
<1>2. in = 0 /\ out = <<>>
  BY <1>1 DEF MessageInv
<1>3. TypeOK'
  BY <1>1 DEF MessageInv, TypeOK
<1>4. DecodingStaysInside'
  BY <1>1 DEF MessageInv, DecodingStaysInside
<1>5. RestartKeepsText'
  BY <1>1 DEF MessageInv, RestartKeepsText, Readable
<1>6. Progress'
  <2>1. Len(message.means) \in Nat
    BY MessagesAre, PlacesAreNumbers DEF MessageInv
  <2>2. 0 \in 0 .. Len(message'.means) /\ EndOf(message', 0) = 0 /\ Len(out') = 0
    BY <1>1, <1>2, <2>1 DEF EndOf
  <2>3. /\ in' = EndOf(message', 0) /\ Len(out') = 0 /\ Len(out') >= 0
        /\ \A j \in 1 .. 0 : out'[j] = message'.means[j]
    BY <1>1, <1>2, <2>2
  <2> QED BY <2>2, <2>3 DEF Progress
<1> QED BY <1>1, <1>3, <1>4, <1>5, <1>6 DEF MessageInv, AnswerIsMeant

\* DecodeByte keeps the invariant.
LEMMA DecodeByteKeeps ==
  ASSUME MessageInv, DecodeByte
  PROVE  MessageInv'
<1>1. /\ pc = "decoding" /\ pc' = pc /\ message' = message /\ text' = text
      /\ id' = id /\ onDisk' = onDisk /\ answer' = answer
  BY DEF DecodeByte
<1>2. out' \in Seq(0 .. 255) /\ in' \in Nat /\ in' <= Len(text) + 1 /\ Len(out') <= in'
  BY TurnStaysInside DEF MessageInv
<1>3. TypeOK'
  BY <1>1, <1>2 DEF MessageInv, TypeOK
<1>4. DecodingStaysInside'
  BY <1>1, <1>2 DEF DecodingStaysInside
<1>5. RestartKeepsText'
  BY <1>1 DEF MessageInv, RestartKeepsText, Readable
<1>6. ASSUME Readable(message) PROVE Progress'
  <2>1. text = message.text /\ Progress
    BY <1>1, <1>6 DEF MessageInv, RestartKeepsText
  <2> QED BY <2>1, TurnKeepsProgress DEF MessageInv
<1>7. Readable(message)' => Progress'
  BY <1>1, <1>6 DEF Readable
<1> QED BY <1>1, <1>3, <1>4, <1>5, <1>7 DEF MessageInv, AnswerIsMeant

\* Decoded keeps the invariant.
LEMMA DecodedKeeps ==
  ASSUME MessageInv, Decoded
  PROVE  MessageInv'
<1>1. /\ pc = "decoding" /\ pc' = "answered" /\ message' = message /\ text' = text /\ in' = in
      /\ out' = out /\ id' = id /\ onDisk' = onDisk /\ answer' = String(out)
  BY DEF Decoded
<1>2. TypeOK'
  <2>1. String(out) \in Seq(1 .. 255)
    BY StringType DEF MessageInv, TypeOK
  <2> QED BY <1>1, <2>1 DEF MessageInv, TypeOK
<1>3. DecodingStaysInside'
  BY <1>1 DEF MessageInv, DecodingStaysInside
<1>4. RestartKeepsText'
  BY <1>1 DEF MessageInv, RestartKeepsText, Readable
<1>5. ASSUME Readable(message), \A k \in 1 .. Len(message.means) : message.means[k] # 0
      PROVE  answer' = message.means /\ SubSeq(answer', 1, Len(message.means)) = message.means
  <2>1. text = message.text /\ Progress
    BY <1>1, <1>5 DEF MessageInv, RestartKeepsText
  <2> QED BY <1>5, <2>1, DecodedIsMeant DEF MessageInv
<1>6. AnswerIsMeant'
  BY <1>1, <1>5 DEF AnswerIsMeant, Readable, EndOf
<1> QED BY <1>1, <1>2, <1>3, <1>4, <1>6 DEF MessageInv

\* DecodeFails keeps the invariant.
LEMMA DecodeFailsKeeps ==
  ASSUME MessageInv, DecodeFails
  PROVE  MessageInv'
<1>1. /\ pc = "decoding" /\ pc' = "answered" /\ message' = message /\ text' = text
      /\ in' = in + EscapeLength /\ out' = out /\ id' = id /\ onDisk' = onDisk
  BY DEF DecodeFails
<1>2. in' \in Nat /\ in <= in' /\ in' <= Len(text) + 1
  <2>1. in \in Nat /\ in <= Len(text) /\ At(in + 1) = PERCENT /\ text \in Seq(1 .. 255)
    BY DEF DecodeFails, MessageInv, TypeOK
  <2>2. EscapeLength \in {2, 3} /\ in + EscapeLength <= Len(text) + 1
    BY <2>1, EscapesStayInside
  <2> HIDE DEF EscapeLength
  <2> QED BY <1>1, <2>1, <2>2
<1>3. answer' \in Seq(1 .. 255)
  <2>1. PICK rest \in Garbage : answer' = String(out \o rest)
    BY DEF DecodeFails
  <2>2. rest \in Seq(0 .. 255)
    <3>1. rest \in Seq(1 .. 255)
      BY GarbageAssumption
    <3> QED BY <3>1, TextsAreBytes
  <2>3. out \o rest \in Seq(0 .. 255)
    BY <2>2, ConcatProperties DEF MessageInv, TypeOK
  <2> QED BY <2>1, <2>3, StringType
<1>4. TypeOK'
  BY <1>1, <1>2, <1>3 DEF MessageInv, TypeOK
<1>5. DecodingStaysInside'
  <2>1. Len(out) \in Nat /\ Len(out) <= in /\ in \in Nat
    BY LenProperties DEF MessageInv, TypeOK, DecodingStaysInside
  <2> QED BY <1>1, <1>2, <2>1 DEF DecodingStaysInside
<1>6. RestartKeepsText'
  BY <1>1 DEF MessageInv, RestartKeepsText, Readable
<1>7. ASSUME Readable(message), \A k \in 1 .. Len(message.means) : message.means[k] # 0
      PROVE  /\ SubSeq(answer', 1, Len(message.means)) = message.means
             /\ EndOf(message, Len(message.means)) # Len(message.text)
  <2>1. text = message.text /\ Progress
    BY <1>1, <1>7 DEF MessageInv, RestartKeepsText
  <2> QED BY <1>7, <2>1, FailedIsMeant DEF MessageInv
<1>8. AnswerIsMeant'
  BY <1>1, <1>7 DEF AnswerIsMeant, Readable, EndOf
<1> QED BY <1>1, <1>4, <1>5, <1>6, <1>8 DEF MessageInv

\* Send keeps the invariant.
LEMMA SendKeeps ==
  ASSUME MessageInv, Send
  PROVE  MessageInv'
<1>1. <<>> \in Seq(1 .. 255) /\ <<>> \in Seq(0 .. 255) /\ Len(<<>>) = 0
  BY EmptySeq
<1>2. TypeOK'
  BY <1>1 DEF MessageInv, TypeOK, Send
<1>3. DecodingStaysInside'
  BY <1>1 DEF Send, DecodingStaysInside
<1> QED BY <1>2, <1>3 DEF Send, MessageInv, RestartKeepsText, AnswerIsMeant

\* Every step keeps the invariant.
LEMMA NextKeeps ==
  ASSUME MessageInv, [Next]_vars
  PROVE  MessageInv'
<1>1. CASE UNCHANGED vars
  BY <1>1 DEF vars, MessageInv, TypeOK, DecodingStaysInside, RestartKeepsText, AnswerIsMeant,
              Progress, Readable, EndOf
<1> QED BY <1>1, ProduceKeeps, RestartKeeps, ReadByteKeeps, ReadEndKeeps, ConsumeKeeps,
           DecodeByteKeeps, DecodedKeeps, DecodeFailsKeeps, SendKeeps DEF Next

\* The strengthened invariant: where the loops of read_node and url_decode are.
THEOREM InvariantHolds == Spec => []MessageInv
<1>1. Init => MessageInv
  BY InitKeeps
<1>2. MessageInv /\ [Next]_vars => MessageInv'
  BY NextKeeps
<1> QED BY <1>1, <1>2, PTL DEF Spec

\* The types of the variables: no text of a node and no answer holds a NUL.
THEOREM TypeCorrect == Spec => []TypeOK
<1>1. MessageInv => TypeOK
  BY DEF MessageInv
<1> QED BY <1>1, InvariantHolds, PTL

\* url_decode reads no byte behind the NUL of a message, however it ends, and writes no more
\* than the array consume gives it has room for.
THEOREM DecodingIsSafe == Spec => []DecodingStaysInside
<1>1. MessageInv => DecodingStaysInside
  BY DEF MessageInv
<1> QED BY <1>1, InvariantHolds, PTL

\* read_node gives a node the text it had, whenever the process was stopped, if no byte of
\* it looks like the end of the file.
THEOREM RestartsKeepText == Spec => []RestartKeepsText
<1>1. MessageInv => RestartKeepsText
  BY DEF MessageInv
<1> QED BY <1>1, InvariantHolds, PTL

\* A consumer is answered with the bytes the producer has encoded, for every text and every
\* number of restarts.
THEOREM AnswersAreMeant == Spec => []AnswerIsMeant
<1>1. MessageInv => AnswerIsMeant
  BY DEF MessageInv
<1> QED BY <1>1, InvariantHolds, PTL

-----------------------------------------------------------------------------
(* The names of node files                                                  *)

\* The equations of PowerOf10, which the definition chooses a solution of.
LEMMA PowerOf10Def ==
  /\ PowerOf10 \in [Nat -> Nat] /\ PowerOf10[0] = 1
  /\ \A k \in Nat : PowerOf10[k + 1] = 10 * PowerOf10[k]
<1> DEFINE times == [k \in Nat |-> [x \in Nat |-> 10 * x]]
           solves(f) == f = [k \in Nat |-> IF k = 0 THEN 1 ELSE 10 * f[k - 1]]
<1>1. times \in [Nat -> [Nat -> Nat]]
  OBVIOUS
<1>2. PICK f \in [Nat -> Nat] : Follows(f, 1, times)
  <2> HIDE DEF times
  <2>1. 1 \in Nat
    OBVIOUS
  <2>2. QED
    BY <1>1, <2>1, Recursion
<1>3. solves(f)
  <2>1. ASSUME NEW k \in Nat PROVE f[k] = IF k = 0 THEN 1 ELSE 10 * f[k - 1]
    <3>1. CASE k # 0
      <4>1. k - 1 \in Nat /\ (k - 1) + 1 = k
        BY <3>1
      <4>2. f[k] = 10 * f[k - 1]
        BY <1>2, <4>1 DEF Follows
      <4>3. QED
        BY <3>1, <4>2
    <3>2. QED
      BY <1>2, <3>1 DEF Follows
  <2>2. QED
    BY <1>2, <2>1
<1>4. solves(PowerOf10)
  <2>1. PowerOf10 = CHOOSE g : solves(g)
    BY DEF PowerOf10
  <2> HIDE DEF solves
  <2>2. QED
    BY <1>3, <2>1
<1>5. PowerOf10[0] = 1
  BY <1>4
<1>6. \A k \in Nat : PowerOf10[k + 1] = 10 * PowerOf10[k]
  <2>1. \A k \in Nat : k + 1 \in Nat /\ k + 1 # 0 /\ (k + 1) - 1 = k
    OBVIOUS
  <2>2. QED
    BY <1>4, <2>1
<1>7. \A k \in Nat : PowerOf10[k] \in Nat
  <2> DEFINE T == {k \in Nat : PowerOf10[k] \in Nat}
  <2>1. T \in SUBSET Nat /\ 0 \in T /\ \A k \in T : k + 1 \in T
    BY <1>5, <1>6
  <2> HIDE DEF T
  <2>2. T = Nat
    BY <2>1, Induction
  <2>3. QED
    BY <2>2 DEF T
<1>8. QED
  BY <1>4, <1>5, <1>6, <1>7

\* Every number is below its own power of ten.
LEMMA BelowPower ==
  ASSUME NEW i \in Nat
  PROVE  i < PowerOf10[i]
<1> DEFINE T == {n \in Nat : n < PowerOf10[n]}
<1>1. 0 \in T
  BY PowerOf10Def
<1>2. ASSUME NEW n \in T PROVE n + 1 \in T
  <2>1. n \in Nat /\ n < PowerOf10[n] /\ PowerOf10[n] \in Nat
    BY PowerOf10Def
  <2>2. PowerOf10[n + 1] = 10 * PowerOf10[n]
    BY <2>1, PowerOf10Def
  <2>3. n + 1 < 10 * PowerOf10[n]
    BY <2>1
  <2>4. QED
    BY <2>1, <2>2, <2>3
<1>3. T \in SUBSET Nat
  OBVIOUS
<1> HIDE DEF T
<1>4. T = Nat
  BY <1>1, <1>2, <1>3, Induction
<1>5. QED
  BY <1>4 DEF T

\* Powers grow with their exponents.
LEMMA PowersGrow ==
  ASSUME NEW j \in Nat, NEW k \in Nat, j <= k
  PROVE  PowerOf10[j] <= PowerOf10[k]
<1> DEFINE T == {n \in Nat : PowerOf10[j] <= PowerOf10[j + n]}
<1>1. 0 \in T
  BY PowerOf10Def
<1>2. ASSUME NEW n \in T PROVE n + 1 \in T
  <2>1. /\ j + n \in Nat /\ (j + n) + 1 = j + (n + 1) /\ n + 1 \in Nat
        /\ PowerOf10[j] <= PowerOf10[j + n]
    OBVIOUS
  <2>2. PowerOf10[j + (n + 1)] = 10 * PowerOf10[j + n]
    BY <2>1, PowerOf10Def
  <2>3. PowerOf10[j] \in Nat /\ PowerOf10[j + n] \in Nat
    BY <2>1, PowerOf10Def
  <2>4. PowerOf10[j] <= PowerOf10[j + (n + 1)]
    BY <2>1, <2>2, <2>3
  <2>5. QED
    BY <2>1, <2>4
<1>3. T \in SUBSET Nat
  OBVIOUS
<1> HIDE DEF T
<1>4. T = Nat
  BY <1>1, <1>2, <1>3, Induction
<1>5. k - j \in Nat /\ j + (k - j) = k
  OBVIOUS
<1>6. k - j \in T
  BY <1>4, <1>5
<1>7. QED
  BY <1>5, <1>6 DEF T

\* What ceil(log10(i)) is: the choice has something to choose from.
LEMMA CeilLog10Def ==
  ASSUME NEW i \in Nat
  PROVE  CeilLog10(i) \in 0 .. i /\ i <= PowerOf10[CeilLog10(i)]
<1> DEFINE T == {k \in Nat : i <= PowerOf10[k]}
           least(k) == i <= PowerOf10[k] /\ \A j \in 0 .. k - 1 : PowerOf10[j] < i
<1>1. i \in T
  BY BelowPower, PowerOf10Def
<1>2. PICK k \in T : \A j \in T : k <= j
  <2>1. T \in SUBSET Nat /\ T # {}
    BY <1>1
  <2> HIDE DEF T
  <2>2. QED
    BY <2>1, Least
<1>3. k \in 0 .. i
  BY <1>1, <1>2
<1>4. ASSUME NEW j \in 0 .. k - 1 PROVE PowerOf10[j] < i
  <2>1. j \in Nat /\ j \notin T
    BY <1>2
  <2>2. QED
    BY <2>1, PowerOf10Def
<1>5. least(k)
  BY <1>2, <1>4
<1>6. CeilLog10(i) = CHOOSE n \in 0 .. i : least(n)
  BY DEF CeilLog10
<1> HIDE DEF least
<1>7. CeilLog10(i) \in 0 .. i /\ least(CeilLog10(i))
  BY <1>3, <1>5, <1>6
<1>8. QED
  BY <1>7 DEF least

\* How many digits a number has: there is such a number of digits.
LEMMA DigitsDef ==
  ASSUME NEW i \in Nat \ {0}
  PROVE  \E d \in 1 .. i : /\ PowerOf10[d - 1] <= i /\ i < PowerOf10[d]
                           /\ NameLength(i) = d + 1
<1> DEFINE T == {d \in Nat : i < PowerOf10[d]}
           digits(d) == PowerOf10[d - 1] <= i /\ i < PowerOf10[d]
<1>1. i \in T
  BY BelowPower
<1>2. PICK d \in T : \A j \in T : d <= j
  <2>1. T \in SUBSET Nat /\ T # {}
    BY <1>1
  <2> HIDE DEF T
  <2>2. QED
    BY <2>1, Least
<1>3. d # 0
  BY <1>2, PowerOf10Def
<1>4. d \in 1 .. i /\ d - 1 \in Nat
  BY <1>1, <1>2, <1>3
<1>5. d - 1 \notin T
  BY <1>2, <1>4
<1>6. digits(d)
  BY <1>2, <1>4, <1>5, PowerOf10Def
<1>7. NameLength(i) = (CHOOSE n \in 1 .. i : digits(n)) + 1
  BY DEF NameLength
<1> HIDE DEF digits
<1>8. PICK n \in 1 .. i : digits(n) /\ n = CHOOSE m \in 1 .. i : digits(m)
  BY <1>4, <1>6
<1>9. QED
  BY <1>7, <1>8 DEF digits

\* A number with more digits than its logarithm allows would not be below the next power.
LEMMA NameHasRoom ==
  ASSUME NEW i \in Nat \ {0}
  PROVE  NameLength(i) <= NameSize(i)
<1>1. PICK d \in 1 .. i : /\ PowerOf10[d - 1] <= i /\ i < PowerOf10[d] /\ NameLength(i) = d + 1
  BY DigitsDef
<1>2. PICK c \in Nat : c = CeilLog10(i) /\ i <= PowerOf10[c]
  BY CeilLog10Def
<1>3. d <= c + 1
  <2> SUFFICES ASSUME c + 1 < d PROVE FALSE
    BY <1>1, <1>2
  <2>1. c + 1 \in Nat /\ d - 1 \in Nat /\ c + 1 <= d - 1
    BY <1>1, <1>2
  <2>2. PowerOf10[c + 1] <= PowerOf10[d - 1]
    BY <2>1, PowersGrow
  <2>3. PowerOf10[c + 1] = 10 * PowerOf10[c] /\ PowerOf10[c] \in Nat /\ PowerOf10[d - 1] \in Nat
    BY <1>2, <2>1, PowerOf10Def
  <2>4. QED
    BY <1>1, <1>2, <2>2, <2>3
<1>4. NameSize(i) = c + 1 + 1
  BY <1>2 DEF NameSize
<1>5. QED
  BY <1>1, <1>2, <1>3, <1>4

\* The block of int_to_string (util.c) holds the digits of every node id and their NUL,
\* however large the id: rounding the logarithm up never costs a digit.
THEOREM NamesFit == Spec => []NameFits
<1>1. TypeOK => NameFits
  BY NameHasRoom DEF TypeOK, NameFits
<1>2. QED
  BY <1>1, TypeCorrect, PTL

=============================================================================
