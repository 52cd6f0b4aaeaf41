----------------------------- MODULE MCProcess -----------------------------
(* An instance of Process. *)
EXTENDS Process

CONSTANTS t1, t2
=============================================================================
