--------------------------- MODULE MCStakingVault ---------------------------
(***************************************************************************)
(* A small instance of StakingVault: a creator with a bond, a second       *)
(* depositor, an operator who holds every role, one resource.  As in the   *)
(* source, the dispute window is shorter than the cooldown.                *)
(***************************************************************************)
EXTENDS StakingVault

CONSTANTS creator, other, operator, zero, vault, r1

MCAccounts == {creator, other, operator}
MCAdmins   == {operator}
MCSupply   == [a \in MCAccounts |-> IF a = operator THEN 0 ELSE 2]
=============================================================================
