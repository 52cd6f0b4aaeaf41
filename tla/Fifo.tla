-------------------------------- MODULE Fifo --------------------------------
(***************************************************************************)
(* What a queue in memory is to its callers: a sequence of messages with   *)
(* the oldest at the head, and an answer to each call.                     *)
(***************************************************************************)
EXTENDS Integers, Sequences

CONSTANT Message

VARIABLES
  items,   \* the messages, oldest first
  answer   \* of the last call that returned

vars == <<items, answer>>

Refused == [ok |-> FALSE, data |-> <<>>]
Answered(data) == [ok |-> TRUE, data |-> data]

\* Indices count from the newest message, from 0.
Item(k) == items[Len(items) - k]

Init == items = <<>> /\ answer = Refused

Add(m)  == items' = Append(items, m) /\ answer' = Answered(<<>>)
Poll    == items # <<>> /\ items' = Tail(items) /\ answer' = Answered(<<Head(items)>>)
Length  == answer' = Answered(<<Len(items)>>) /\ UNCHANGED items
Get(k)  == answer' = Answered(<<Item(k)>>) /\ UNCHANGED items
GetAll  == answer' = Answered([k \in 1 .. Len(items) |-> Item(k - 1)]) /\ UNCHANGED items
Refuse  == answer' = Refused /\ UNCHANGED items
Discard == items' = <<>> /\ answer' = Answered(<<>>)

Next ==
  \/ \E m \in Message : Add(m)
  \/ \E k \in 0 .. Len(items) - 1 : Get(k)
  \/ Poll \/ Length \/ GetAll \/ Refuse \/ Discard

Spec == Init /\ [][Next]_vars
=============================================================================
