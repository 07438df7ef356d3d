------------------------------ MODULE MCRowSync ------------------------------
(* RowSync with rings of two and four rows, old rows and a slow output     *)
(* thread, and with one that keeps up on a ring that retires nothing.      *)
EXTENDS RowSync

Slow(capacity, firstHead, maxHead) ==
  [capacity |-> capacity, oldBelow |-> 1, senderKeepsUp |-> FALSE,
   firstHead |-> firstHead, maxHead |-> maxHead]

MCSetups ==
  {Slow(2, 2, 4), Slow(4, 4, 5),
   [capacity |-> 9, oldBelow |-> 0, senderKeepsUp |-> TRUE, firstHead |-> 3, maxHead |-> 4]}
==============================================================================
