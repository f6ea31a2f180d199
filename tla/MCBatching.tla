----------------------------- MODULE MCBatching -----------------------------
(***************************************************************************)
(* Three debits of one unit and half of a split that does not come out     *)
(* even; a batch is full with two of them.                                 *)
(***************************************************************************)
EXTENDS Batching

CONSTANTS c1, c2, c3

MCDebits == [c \in Debits |-> IF c = c3 THEN 2 ELSE 1]
=============================================================================
