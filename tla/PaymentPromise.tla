--------------------------- MODULE PaymentPromise ---------------------------
(***************************************************************************)
(* What the payment path promises a buyer, without contract, store or      *)
(* process: an authorization is first reserved, then its nonce is charged  *)
(* at most once, for at most the signed cap.                               *)
(*                                                                         *)
(* PaymentEscrow implements it with every nonce reserved from the start    *)
(* (the contract knows no reservations); Facilitator implements it in      *)
(* full.                                                                   *)
(***************************************************************************)
EXTENDS Naturals

CONSTANTS SignedAuths,      \* authorizations, records with a nonce and a cap
          ReservedAtStart   \* nonces that count as reserved from the start

VARIABLES reserved,         \* nonces ever reserved
          charges           \* [nonce, buyer, resourceId, amount] records

promiseVars == <<reserved, charges>>

Charge(a, amount) ==
  [nonce |-> a.nonce, buyer |-> a.buyer, resourceId |-> a.resourceId,
   amount |-> amount]

Reserve(nonce) ==
  /\ reserved' = reserved \cup {nonce}
  /\ UNCHANGED charges

Settle(a, amount) ==
  /\ a \in SignedAuths
  /\ a.nonce \in reserved
  /\ amount <= a.maxAmount
  /\ \A c \in charges : c.nonce # a.nonce
  /\ charges' = charges \cup {Charge(a, amount)}
  /\ UNCHANGED reserved

PromiseNext ==
  \E a \in SignedAuths :
    \/ Reserve(a.nonce)
    \/ \E amount \in 0..a.maxAmount : Settle(a, amount)

PromiseInit == reserved = ReservedAtStart /\ charges = {}
PromiseSpec == PromiseInit /\ [][PromiseNext]_promiseVars
=============================================================================
