----------------------------- MODULE MCPayPage -----------------------------
(***************************************************************************)
(* The playground of one resource's page, and nobody else.                 *)
(***************************************************************************)
EXTENDS PayPage

CONSTANTS page, n1, n2

MCKindOf == [p \in Payers |-> "page"]
=============================================================================
