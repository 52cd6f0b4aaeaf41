---------------------------- MODULE MessageText ----------------------------
(***************************************************************************)
(* The bytes of one message: written to its node file, read back by a      *)
(* restart (read_node of persist/persist.c), and decoded when it is        *)
(* consumed (url_decode of util/util.c).  One step is one turn of a loop.  *)
(* Broker, where a message is a number, models what happens around this.   *)
(*                                                                         *)
(* A text is a sequence of bytes without the NUL behind it.                *)
(*                                                                         *)
(* A definition "Bug: ..." is no part of the model: it is what the         *)
(* definition after it would be if the code had that bug.                  *)
(***************************************************************************)
EXTENDS Integers, Sequences

CONSTANTS
  Message,  \* what producers send, see MessageAssumption
  Id,       \* ids of nodes
  Garbage   \* bound: what can stand in memory that nobody has written, up to a NUL

PLUS    == 43
PERCENT == 37
SPACE   == 32
EOF     == 255  \* what (char) EOF is, where char is signed as on x86

Digit == 48 .. 57
Upper == 65 .. 70
Lower == 97 .. 102

\* is_hexadecimal.
Hexadecimal == Digit \cup Upper \cup Lower

\* sscanf's %2x, for one digit.
HexValue(c) == IF c \in Digit THEN c - 48 ELSE IF c \in Upper THEN c - 55 ELSE c - 87

\* The bytes of the text from the one behind "from" up to "to" are an encoding of byte b.
Encodes(text, from, to, b) ==
  \/ to = from + 1 /\ text[to] = b /\ b \notin {PLUS, PERCENT}
  \/ to = from + 1 /\ text[to] = PLUS /\ b = SPACE
  \/ /\ to = from + 3 /\ text[from + 1] = PERCENT
     /\ text[from + 2] \in Hexadecimal /\ text[to] \in Hexadecimal
     /\ b = 16 * HexValue(text[from + 2]) + HexValue(text[to])

\* Behind the first n bytes there is a percent sign with less than two digits.
BrokenAt(text, n) ==
  /\ n < Len(text) /\ text[n + 1] = PERCENT
  /\ \/ n + 1 = Len(text) \/ text[n + 2] \notin Hexadecimal
     \/ n + 2 = Len(text) \/ text[n + 3] \notin Hexadecimal

\* ends[k] is where the encoding of the k-th meant byte ends.
EndOf(m, k) == IF k = 0 THEN 0 ELSE m.ends[k]

\* What producers send: a text that encodes the bytes that are meant, one after the
\* other, up to its end or to a broken escape.
ASSUME MessageAssumption ==
  \A m \in Message :
    /\ m = [text |-> m.text, means |-> m.means, ends |-> m.ends]
    /\ m.text \in Seq(1 .. 255) /\ m.means \in Seq(0 .. 255)
    /\ m.ends \in Seq(Nat) /\ Len(m.ends) = Len(m.means)
    /\ \A k \in 1 .. Len(m.means) :
         /\ m.ends[k] <= Len(m.text)
         /\ Encodes(m.text, EndOf(m, k - 1), m.ends[k], m.means[k])
    /\ LET n == EndOf(m, Len(m.means)) IN n = Len(m.text) \/ BrokenAt(m.text, n)
ASSUME IdAssumption == Id \subseteq Nat \ {0}
ASSUME GarbageAssumption == Garbage \subseteq Seq(1 .. 255)

VARIABLES
  pc,       \* the loop that runs, or "stored", "answered"
  message,  \* what was produced
  id,       \* its id
  onDisk,   \* whether its file exists
  text,     \* the text of its node
  in,       \* how many bytes url_decode has read
  out,      \* decodedMessage
  answer    \* the data of the response

vars == <<pc, message, id, onDisk, text, in, out, answer>>

NoMessage == [text |-> <<>>, means |-> <<>>, ends |-> <<>>]

Init ==
  /\ pc = "idle" /\ message = NoMessage /\ id = 1 /\ onDisk = FALSE
  /\ text = <<>> /\ in = 0 /\ out = <<>> /\ answer = <<>>
-----------------------------------------------------------------------------
\* produce and create_node_file.
Produce(m, i) ==
  /\ pc = "idle"
  /\ pc' = "stored" /\ message' = m /\ id' = i /\ onDisk' = TRUE /\ text' = m.text
  /\ UNCHANGED <<in, out, answer>>

\* The process stops and is started again. A message on disk is read into a new node.
Restart ==
  /\ pc' = IF onDisk THEN "reading" ELSE "idle"
  /\ message' = IF onDisk THEN message ELSE NoMessage
  /\ text' = <<>> /\ in' = 0 /\ out' = <<>> /\ answer' = <<>>
  /\ UNCHANGED <<id, onDisk>>

\* Bug: the last byte is taken for the end of the file.
AtEndEarly(read, file) == IF read + 1 < Len(file) THEN file[read + 1] = EOF ELSE TRUE

\* The test of read_node's loop: fgetc returns EOF at the end of the file, and at a byte
\* that is EOF when it is cut to a char.
AtEnd(read, file) == IF read < Len(file) THEN file[read + 1] = EOF ELSE TRUE

ReadByte ==
  /\ pc = "reading" /\ ~AtEnd(Len(text), message.text)
  /\ text' = Append(text, message.text[Len(text) + 1])
  /\ UNCHANGED <<pc, message, id, onDisk, in, out, answer>>

ReadEnd ==
  /\ pc = "reading" /\ AtEnd(Len(text), message.text)
  /\ pc' = "stored"
  /\ UNCHANGED <<message, id, onDisk, text, in, out, answer>>

\* consume: Queue_poll removes the file, url_decode is called.
Consume ==
  /\ pc = "stored"
  /\ pc' = "decoding" /\ onDisk' = FALSE
  /\ UNCHANGED <<message, id, text, in, out, answer>>

\* The n-th byte of the node's string, the NUL behind its text included.
At(n) == IF n <= Len(text) THEN text[n] ELSE 0

\* Bug: both bytes behind a percent sign are read before they are looked at.
EscapeLengthEager == 3

\* How many bytes a turn of the loop reads at a percent sign: the second digit only if the
\* first is one.
EscapeLength == IF At(in + 2) \in Hexadecimal THEN 3 ELSE 2

IsEscape == At(in + 2) \in Hexadecimal /\ At(in + 3) \in Hexadecimal

\* Bug: a plus sign stands for itself.
PlainAsIs(c) == c

\* A byte that begins no escape.
Plain(c) == IF c = PLUS THEN SPACE ELSE c

\* A turn of url_decode's loop, the last one for the NUL.
DecodeByte ==
  /\ pc = "decoding" /\ in <= Len(text)
  /\ \/ /\ At(in + 1) # PERCENT
        /\ out' = Append(out, Plain(At(in + 1)))
        /\ in' = in + 1
     \/ /\ At(in + 1) = PERCENT /\ IsEscape
        /\ out' = Append(out, 16 * HexValue(At(in + 2)) + HexValue(At(in + 3)))
        /\ in' = in + EscapeLength
  /\ UNCHANGED <<pc, message, id, onDisk, text, answer>>

\* The text up to its first NUL.
String(bytes) ==
  IF \A k \in DOMAIN bytes : bytes[k] # 0 THEN bytes
  ELSE SubSeq(bytes, 1, (CHOOSE k \in DOMAIN bytes :
                           bytes[k] = 0 /\ \A j \in 1 .. k - 1 : bytes[j] # 0) - 1)

\* consume copies decodedMessage, as a string, into the response.
Decoded ==
  /\ pc = "decoding" /\ in > Len(text)
  /\ pc' = "answered" /\ answer' = String(out)
  /\ UNCHANGED <<message, id, onDisk, text, in, out>>

\* url_decode returns -1, which consume does not look at: the string goes on with what
\* stands behind in memory.
DecodeFails ==
  /\ pc = "decoding" /\ in <= Len(text) /\ At(in + 1) = PERCENT /\ ~IsEscape
  /\ \E rest \in Garbage : answer' = String(out \o rest)
  /\ in' = in + EscapeLength
  /\ pc' = "answered"
  /\ UNCHANGED <<message, id, onDisk, text, out>>

\* The response is sent.
Send ==
  /\ pc = "answered"
  /\ pc' = "idle" /\ message' = NoMessage /\ text' = <<>> /\ in' = 0 /\ out' = <<>>
  /\ answer' = <<>>
  /\ UNCHANGED <<id, onDisk>>

Next ==
  \/ \E m \in Message, i \in Id : Produce(m, i)
  \/ Restart \/ ReadByte \/ ReadEnd
  \/ Consume \/ DecodeByte \/ Decoded \/ DecodeFails \/ Send

Spec == Init /\ [][Next]_vars
-----------------------------------------------------------------------------
(* The name of a node file                                                  *)

PowerOf10[k \in Nat] == IF k = 0 THEN 1 ELSE 10 * PowerOf10[k - 1]

\* The least k with i <= 10^k, which is ceil(log10(i)).
CeilLog10(i) ==
  CHOOSE k \in 0 .. i : i <= PowerOf10[k] /\ \A j \in 0 .. k - 1 : PowerOf10[j] < i

\* Bug: as many bytes as digits are asked for.
NameSizeExact(i) == CeilLog10(i) + 1

\* What int_to_string asks malloc for.
NameSize(i) == CeilLog10(i) + 1 + 1

\* What sprintf's %d writes: digits and NUL.
NameLength(i) == (CHOOSE d \in 1 .. i : PowerOf10[d - 1] <= i /\ i < PowerOf10[d]) + 1
-----------------------------------------------------------------------------
(* Properties                                                               *)

TypeOK ==
  /\ pc \in {"idle", "stored", "reading", "decoding", "answered"}
  /\ message \in Message \cup {NoMessage}
  /\ id \in Nat \ {0} /\ onDisk \in BOOLEAN
  /\ text \in Seq(1 .. 255) /\ in \in Nat
  /\ out \in Seq(0 .. 255) /\ answer \in Seq(1 .. 255)

\* url_decode reads no byte behind the NUL of the message, even when an escape is cut off
\* by its end, and writes no more than it has read, so that the array of strlen + 1 bytes
\* that consume gives it is enough.
DecodingStaysInside == in <= Len(text) + 1 /\ Len(out) <= in

\* The message has no byte that read_node takes for the end of its file.
Readable(m) == \A k \in DOMAIN m.text : m.text[k] # EOF

\* The text of a node does not depend on restarts, unless it has such a byte.
RestartKeepsText ==
  pc \in {"stored", "decoding", "answered"} /\ Readable(message) => text = message.text

\* The consumer gets what the producer has encoded, byte by byte, through any number of
\* restarts; up to the escape if there is a broken one.
AnswerIsMeant ==
  LET n == Len(message.means)
  IN  pc = "answered" /\ Readable(message) /\ (\A k \in 1 .. n : message.means[k] # 0) =>
        /\ SubSeq(answer, 1, n) = message.means
        /\ EndOf(message, n) = Len(message.text) => answer = message.means

\* Where the loop of url_decode is: behind the encoding of a meant byte, with the bytes up
\* to it decoded, or behind the NUL with all of them.
Progress ==
  LET n == Len(message.means)
      decoded(k) == Len(out) >= k /\ \A j \in 1 .. k : out[j] = message.means[j]
  IN  \/ \E k \in 0 .. n : in = EndOf(message, k) /\ Len(out) = k /\ decoded(k)
      \/ /\ in = Len(text) + 1 /\ EndOf(message, n) = Len(text)
         /\ Len(out) = n + 1 /\ decoded(n) /\ out[n + 1] = 0

\* What makes the properties last: read_node has read the front of the file, and
\* url_decode begins at the first byte and makes progress.
MessageInv ==
  /\ TypeOK /\ DecodingStaysInside /\ RestartKeepsText /\ AnswerIsMeant
  /\ pc = "reading" =>
       /\ Len(text) <= Len(message.text)
       /\ \A k \in DOMAIN text : text[k] = message.text[k]
  /\ pc \in {"idle", "stored", "reading"} => in = 0 /\ out = <<>>
  /\ pc = "decoding" /\ Readable(message) => Progress

\* The name of every node fits the block int_to_string asks for, at powers of ten too.
NameFits == NameLength(id) <= NameSize(id)

=============================================================================
