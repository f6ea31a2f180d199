---------------------------- MODULE PaymentEscrow ----------------------------
(***************************************************************************)
(* The PaymentEscrow contract: internal USDC balances that buyers fund by  *)
(* deposit and empty by withdraw, and that the relayer debits against a    *)
(* DebitAuthorization the buyer signed off chain.                          *)
(*                                                                         *)
(* A signature is abstracted to the tuple it signs: _verify succeeds iff   *)
(* the calldata equals a member of SignedAuths.  The event log is the      *)
(* sequence debited.  The token itself is external; usdcOf is what         *)
(* transfer and transferFrom do to it.                                     *)
(***************************************************************************)
EXTENDS ResourceRegistry, Sequences, Functions

CONSTANTS Escrow,           \* address(this)
          Nonces,           \* bytes32 payment nonces
          Auths,            \* authorizations a caller may put in calldata
          SignedAuths,      \* those that carry their buyer's signature
          Amounts,          \* amounts a caller may pass
          BpsValues,        \* basis points a registry admin may pass
          Relayer,          \* the admin the constructor is given
          Supply            \* accounts -> USDC held outside at the start

DebitAuthorization ==
  [buyer : Accounts, resourceId : ResourceIds, maxAmount : Nat,
   nonce : Nonces, validBefore : Nat]

ASSUME EscrowAssumption ==
  /\ Escrow \notin Accounts
  /\ IsFiniteSet(Nonces)               \* bytes32
  /\ Auths \subseteq DebitAuthorization
  /\ SignedAuths \subseteq Auths
  /\ Amounts \subseteq Nat
  /\ BpsValues \subseteq Nat
  /\ Relayer \in Accounts
  /\ Supply \in [Accounts -> Nat]

VARIABLES balanceOf,        \* internal balances
          usedNonce,        \* consumed nonces
          admin,            \* the relayer
          usdcOf,           \* token balances, the contract's own included
          debited           \* the Debited events, in order

escrowVars == <<balanceOf, usedNonce, admin, usdcOf, debited>>

Debited == [nonce : Nonces, resourceId : ResourceIds, buyer : Accounts,
            amount : Nat, toCreator : Nat, toTreasury : Nat]

EscrowTypeOK ==
  /\ balanceOf \in [Addresses -> Nat]
  /\ usedNonce \subseteq Nonces
  /\ admin \in Accounts
  /\ usdcOf \in [Accounts \cup {Escrow} -> Nat]
  /\ debited \in Seq(Debited)

EscrowInit ==
  /\ balanceOf = [a \in Addresses |-> 0]
  /\ usedNonce = {}
  /\ admin = Relayer
  /\ usdcOf = [a \in Accounts \cup {Escrow} |->
                 IF a = Escrow THEN 0 ELSE Supply[a]]
  /\ debited = <<>>

-----------------------------------------------------------------------------
SetAdmin(sender, newAdmin) ==
  /\ sender \in DefaultAdmins
  /\ admin' = newAdmin
  /\ UNCHANGED <<balanceOf, usedNonce, usdcOf, debited>>

Deposit(sender, amount) ==
  /\ amount # 0
  /\ usdcOf[sender] >= amount          \* safeTransferFrom reverts otherwise
  /\ usdcOf' = [usdcOf EXCEPT ![sender] = @ - amount, ![Escrow] = @ + amount]
  /\ balanceOf' = [balanceOf EXCEPT ![sender] = @ + amount]
  /\ UNCHANGED <<usedNonce, admin, debited>>

Withdraw(sender, amount) ==
  /\ amount # 0
  /\ balanceOf[sender] >= amount       \* checked subtraction
  /\ usdcOf[Escrow] >= amount          \* safeTransfer reverts otherwise
  /\ balanceOf' = [balanceOf EXCEPT ![sender] = @ - amount]
  /\ usdcOf' = [usdcOf EXCEPT ![Escrow] = @ - amount, ![sender] = @ + amount]
  /\ UNCHANGED <<usedNonce, admin, debited>>

\* The floored share; the remainder, rounding dust included, is the treasury's.
CreatorShare(amount, bps) == (amount * bps) \div BPS_DENOMINATOR

\* Everything debit checks before it writes, in the order of the source.
NonceFree(a)       == a.nonce \notin usedNonce
Unexpired(a)       == now <= a.validBefore
SignedByBuyer(a)   == a \in SignedAuths
ResourceActive(a)  == resources[a.resourceId].exists
                        /\ resources[a.resourceId].active
Funded(a, amount)  == balanceOf[a.buyer] >= amount

\* Faulty variants of a definition are named after it; they only serve to show
\* that the properties below can fail.
DebitAllowedReplay(sender, a, amount) ==
  /\ sender = admin
  /\ Unexpired(a) /\ amount <= a.maxAmount /\ SignedByBuyer(a)
  /\ ResourceActive(a) /\ Funded(a, amount)

DebitAllowedUncapped(sender, a, amount) ==
  /\ sender = admin
  /\ NonceFree(a) /\ Unexpired(a) /\ SignedByBuyer(a)
  /\ ResourceActive(a) /\ Funded(a, amount)

DebitAllowedUnfunded(sender, a, amount) ==
  /\ sender = admin
  /\ NonceFree(a) /\ Unexpired(a) /\ amount <= a.maxAmount
  /\ SignedByBuyer(a) /\ ResourceActive(a)

DebitAllowed(sender, a, amount) ==
  /\ sender = admin
  /\ NonceFree(a)
  /\ Unexpired(a)
  /\ amount <= a.maxAmount
  /\ SignedByBuyer(a)
  /\ ResourceActive(a)
  /\ Funded(a, amount)

AfterSplitDustLost(b, a, amount) ==
  LET r  == resources[a.resourceId]
      b1 == [b  EXCEPT ![a.buyer]    = @ - amount]
      b2 == [b1 EXCEPT ![r.creator]  = @ + CreatorShare(amount, r.creatorBps)]
  IN  [b2 EXCEPT ![r.treasury] =
         @ + CreatorShare(amount, BPS_DENOMINATOR - r.creatorBps)]

\* Charges msg.sender where the buyer is meant.
AfterSplitChargesSender(b, a, amount) ==
  LET r  == resources[a.resourceId]
      tc == CreatorShare(amount, r.creatorBps)
      b1 == [b  EXCEPT ![admin]      = @ - amount]
      b2 == [b1 EXCEPT ![r.creator]  = @ + tc]
  IN  [b2 EXCEPT ![r.treasury] = @ + (amount - tc)]

\* The balances after the three writes, applied one after the other because
\* buyer, creator and treasury may be the same account.
AfterSplit(b, a, amount) ==
  LET r  == resources[a.resourceId]
      tc == CreatorShare(amount, r.creatorBps)
      b1 == [b  EXCEPT ![a.buyer]    = @ - amount]
      b2 == [b1 EXCEPT ![r.creator]  = @ + tc]
  IN  [b2 EXCEPT ![r.treasury] = @ + (amount - tc)]

DebitedEvent(a, amount) ==
  LET tc == CreatorShare(amount, resources[a.resourceId].creatorBps)
  IN  [nonce |-> a.nonce, resourceId |-> a.resourceId, buyer |-> a.buyer,
       amount |-> amount, toCreator |-> tc, toTreasury |-> amount - tc]

Debit(sender, a, amount) ==
  /\ DebitAllowed(sender, a, amount)
  /\ usedNonce' = usedNonce \cup {a.nonce}
  /\ balanceOf' = AfterSplit(balanceOf, a, amount)
  /\ debited' = Append(debited, DebitedEvent(a, amount))
  /\ UNCHANGED <<admin, usdcOf>>

-----------------------------------------------------------------------------
(***************************************************************************)
(* The contract with its registry, called by anyone in any order.          *)
(***************************************************************************)
EscrowCall ==
  /\ UNCHANGED <<registryVars, now>>
  /\ \/ \E s, n \in Accounts : SetAdmin(s, n)
     \/ \E s \in Accounts, x \in Amounts : Deposit(s, x)
     \/ \E s \in Accounts, x \in Amounts : Withdraw(s, x)
     \/ \E s \in Accounts, a \in Auths, x \in Amounts : Debit(s, a, x)

RegistryConfigCall ==
  /\ UNCHANGED <<escrowVars, now>>
  /\ \E s \in Accounts, r \in ResourceIds :
       \/ \E c, t \in Addresses, bps \in BpsValues : Register(s, r, c, t, bps)
       \/ \E t \in Addresses, bps \in BpsValues : Update(s, r, t, bps)
       \/ Pause(s, r)
       \/ Unpause(s, r)

BlockTime == Tick /\ UNCHANGED <<registryVars, escrowVars>>

escrowSystemVars == <<registryVars, now, escrowVars>>

EscrowSystemInit == RegistryInit /\ EscrowInit
EscrowSystemNext == EscrowCall \/ RegistryConfigCall \/ BlockTime
EscrowSpec == EscrowSystemInit /\ [][EscrowSystemNext]_escrowSystemVars

-----------------------------------------------------------------------------
(***************************************************************************)
(* What the two contracts promise.                                         *)
(***************************************************************************)

\* The mappings keep the ranges Solidity gives them; in particular no checked
\* subtraction goes below zero.
EscrowSystemTypeOK == RegistryTypeOK /\ EscrowTypeOK

\* The contract can always pay out: the tokens it holds are exactly the sum of
\* the internal balances, whatever the order of deposits, debits (whose split
\* rounds) and withdrawals, and when one account plays several parts.
Solvent == usdcOf[Escrow] = FoldFunction(+, 0, balanceOf)

\* A nonce pays once: the consumed nonces are those of the Debited events, and
\* no two events carry the same nonce, although a buyer may have signed two
\* different authorizations with it.
NonceSingleUse ==
  /\ usedNonce = {debited[i].nonce : i \in DOMAIN debited}
  /\ \A i, j \in DOMAIN debited : debited[i].nonce = debited[j].nonce => i = j

\* Every charge is one its buyer signed: same nonce, same resource, and at most
\* the signed cap.  The relayer can charge less but never more or elsewhere.
ChargedAsSigned ==
  \A i \in DOMAIN debited :
    \E a \in SignedAuths :
      /\ a.nonce = debited[i].nonce
      /\ a.buyer = debited[i].buyer
      /\ a.resourceId = debited[i].resourceId
      /\ debited[i].amount <= a.maxAmount

\* No share is stranded at address(0), which nobody can withdraw from: an
\* unregistered or badly configured resource never receives a debit.
NothingAtZero == balanceOf[ZeroAddress] = 0

\* The contract implements the abstract promise, every nonce counting as
\* reserved: whatever order the calls come in, charges happen at most once per
\* nonce and as signed.
Charges == {[nonce |-> debited[i].nonce, buyer |-> debited[i].buyer,
             resourceId |-> debited[i].resourceId, amount |-> debited[i].amount]
              : i \in DOMAIN debited}
Promise == INSTANCE PaymentPromise
             WITH ReservedAtStart <- Nonces, reserved <- Nonces, charges <- Charges
ImplementsPromise == Promise!PromiseSpec

\* An account's internal balance falls only when that account withdraws the
\* tokens itself or is the buyer of the debit just logged.
PayerConsents ==
  [][\A acc \in Addresses :
       balanceOf'[acc] < balanceOf[acc] =>
         \/ /\ acc \in Accounts
            /\ usdcOf'[acc] - usdcOf[acc] = balanceOf[acc] - balanceOf'[acc]
         \/ /\ Len(debited') = Len(debited) + 1
            /\ debited'[Len(debited')].buyer = acc]_escrowSystemVars
=============================================================================
