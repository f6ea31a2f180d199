--------------------------- MODULE MCPaymentEscrow ---------------------------
(***************************************************************************)
(* A small instance of PaymentEscrow: one buyer, the relayer, who is also  *)
(* the treasury and every administrator, one resource.  Two authorizations *)
(* share a nonce, one is altered after signing, one expires.               *)
(***************************************************************************)
EXTENDS PaymentEscrow

CONSTANTS buyer, relayer, zero, escrow, r1, n1, n2

MCAccounts == {buyer, relayer}
MCAdmins   == {relayer}

MCAuth(n, cap, t) == [buyer |-> buyer, resourceId |-> r1, maxAmount |-> cap,
                      nonce |-> n, validBefore |-> t]

MCSigned == {MCAuth(n1, 1, 1), MCAuth(n1, 3, 1), MCAuth(n2, 1, 0)}
MCAuths  == MCSigned \cup {MCAuth(n2, 3, 1)}
MCSupply == [a \in MCAccounts |-> IF a = buyer THEN 4 ELSE 0]
=============================================================================
