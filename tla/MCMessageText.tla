--------------------------- MODULE MCMessageText ---------------------------
(* An instance of MessageText. *)
EXTENDS MessageText, SequencesExt

\* Encodings of a byte: as it is, as a plus sign, as an escape in digits or letters.
Piece ==
  {[bytes |-> <<97>>, means |-> 97], [bytes |-> <<50>>, means |-> 50],
   [bytes |-> <<EOF>>, means |-> EOF], [bytes |-> <<PLUS>>, means |-> SPACE],
   [bytes |-> <<PERCENT, 50, 53>>, means |-> PERCENT],
   [bytes |-> <<PERCENT, 52, 97>>, means |-> 74],
   [bytes |-> <<PERCENT, 48, 48>>, means |-> 0]}

\* What can stand at the end of a text: nothing, or a broken escape and more.
Tail0 == {<<>>, <<PERCENT>>, <<PERCENT, 50>>, <<PERCENT, 65, 71, 97>>, <<PERCENT, PERCENT, 50, 53>>}

Sent(pieces, tail) ==
  [text  |-> FlattenSeq([k \in DOMAIN pieces |-> pieces[k].bytes]) \o tail,
   means |-> [k \in DOMAIN pieces |-> pieces[k].means],
   ends  |-> [k \in DOMAIN pieces |->
                Len(FlattenSeq([j \in 1 .. k |-> pieces[j].bytes]))]]

MCMessage == {Sent(pieces, tail) : pieces \in BoundedSeq(Piece, 2), tail \in Tail0}
MCGarbage == {<<>>, <<97>>}
=============================================================================

