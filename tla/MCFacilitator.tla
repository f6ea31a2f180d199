---------------------------- MODULE MCFacilitator ----------------------------
(***************************************************************************)
(* Small instances of Facilitator: one buyer, one resource, up to three    *)
(* calls.  c1 and c2 carry the same authorization (a replay of X-PAYMENT), *)
(* or each call its own, depending on the configuration.                   *)
(***************************************************************************)
EXTENDS Facilitator, TLC

CONSTANTS buyer, relayer, zero, escrow, r1, n1, n2, n3, c1, c2, c3,
          Deposit0,         \* what the buyer deposited
          Replay,           \* do c1 and c2 share their authorization?
          Cap1, Expiry      \* cap and validBefore of the authorizations

MCAccounts == {buyer, relayer}
MCAdmins   == {relayer}

MCAuth(n) == [buyer |-> buyer, resourceId |-> r1, maxAmount |-> Cap1,
              nonce |-> n, validBefore |-> Expiry]
MCAuths  == {MCAuth(n) : n \in Nonces}
MCAuthOf == [c \in Calls |->
               CASE c = c1 -> MCAuth(n1)
                 [] c = c2 -> IF Replay THEN MCAuth(n1) ELSE MCAuth(n2)
                 [] OTHER  -> IF Replay THEN MCAuth(n2) ELSE MCAuth(n3)]
MCMounted == [c \in Calls |-> r1]
MCFunds   == [a \in MCAccounts \cup {zero} |-> IF a = buyer THEN Deposit0 ELSE 0]
MCSupply  == [a \in MCAccounts |-> 0]
MCSplit   == [r \in {r1} |->
               [creator |-> relayer, treasury |-> relayer, creatorBps |-> 5000,
                active |-> TRUE, bond |-> 0, exists |-> TRUE]]

\* A replay and what it replays are one and the other.
MCReplays == Permutations({c1, c2})
=============================================================================
