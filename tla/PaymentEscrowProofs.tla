------------------------- MODULE PaymentEscrowProofs -------------------------
(***************************************************************************)
(* The promises of PaymentEscrow, proved for every set of accounts,        *)
(* resources, authorizations and amounts.                                  *)
(***************************************************************************)
EXTENDS PaymentEscrow, FiniteSums

-----------------------------------------------------------------------------
\* A registered resource always names two real accounts, so a debit, which
\* needs one, credits real accounts.
PayeesNamed ==
  \A r \in ResourceIds :
    resources[r].exists => /\ resources[r].creator # ZeroAddress
                           /\ resources[r].treasury # ZeroAddress

\* The inductive invariant of the contract.
EscrowInv ==
  /\ EscrowSystemTypeOK
  /\ PayeesNamed
  /\ NonceSingleUse
  /\ ChargedAsSigned
  /\ NothingAtZero

-----------------------------------------------------------------------------
\* The floored share of the creator never exceeds the amount it is taken from
\* (the split of debit).
LEMMA ShareBounded ==
  ASSUME NEW amount \in Nat, NEW bps \in 0..BPS_DENOMINATOR
  PROVE  CreatorShare(amount, bps) \in 0..amount
<1> DEFINE p == amount * bps
<1>1. CreatorShare(amount, bps) = p \div 10000
  BY DEF CreatorShare, BPS_DENOMINATOR
<1>2. p \in Nat /\ p <= amount * 10000
  BY SMT DEF BPS_DENOMINATOR
<1>3. p \div 10000 \in 0..amount
  <2> HIDE DEF p
  <2> QED BY <1>2, SMT
<1> QED BY <1>1, <1>3

\* The three writes of a debit keep the balances natural, leave address(0)
\* alone, and lower nobody's balance but the buyer's.
LEMMA SplitSound ==
  ASSUME RegistryTypeOK, PayeesNamed,
         balanceOf \in [Addresses -> Nat],
         NEW a \in DebitAuthorization, NEW amount \in Nat,
         ResourceActive(a), Funded(a, amount)
  PROVE  /\ AfterSplit(balanceOf, a, amount) \in [Addresses -> Nat]
         /\ AfterSplit(balanceOf, a, amount)[ZeroAddress] = balanceOf[ZeroAddress]
         /\ \A acc \in Addresses :
              AfterSplit(balanceOf, a, amount)[acc] < balanceOf[acc] => acc = a.buyer
<1> DEFINE r  == resources[a.resourceId]
           tc == CreatorShare(amount, r.creatorBps)
           b1 == [balanceOf EXCEPT ![a.buyer] = @ - amount]
           b2 == [b1 EXCEPT ![r.creator] = @ + tc]
           b3 == [b2 EXCEPT ![r.treasury] = @ + (amount - tc)]
<1>1. /\ a.buyer \in Addresses /\ a.buyer # ZeroAddress
      /\ a.resourceId \in ResourceIds
  BY RegistryAssumption DEF DebitAuthorization, Addresses
<1>2. r \in Resource
  BY <1>1 DEF RegistryTypeOK
<1>3. /\ r.creator \in Addresses \ {ZeroAddress}
      /\ r.treasury \in Addresses \ {ZeroAddress}
      /\ r.creatorBps \in 0..BPS_DENOMINATOR
  BY <1>1, <1>2 DEF ResourceActive, PayeesNamed, Resource
<1>4. tc \in Nat /\ amount - tc \in Nat
  <2> HIDE DEF r
  <2>1. tc \in 0..amount
    BY <1>3, ShareBounded
  <2> QED BY <2>1, SMT
<1>5. AfterSplit(balanceOf, a, amount) = b3
  BY DEF AfterSplit
<1>6. balanceOf[a.buyer] >= amount
  BY DEF Funded
<1> HIDE DEF r, tc
<1>7. b1 \in [Addresses -> Nat]
  BY <1>1, <1>6, SMT
<1>8. b2 \in [Addresses -> Nat]
  <2> HIDE DEF b1
  <2> QED BY <1>3, <1>4, <1>7, SMT
<1>9. b3 \in [Addresses -> Nat]
  <2> HIDE DEF b1, b2
  <2> QED BY <1>3, <1>4, <1>8, SMT
<1>10. ZeroAddress \in Addresses
  BY DEF Addresses
<1>11. b3[ZeroAddress] = balanceOf[ZeroAddress]
  BY <1>1, <1>3, <1>10
<1>12. ASSUME NEW acc \in Addresses, acc # a.buyer
       PROVE  ~(b3[acc] < balanceOf[acc])
  BY <1>1, <1>3, <1>4, <1>12, SMT
<1> QED BY <1>5, <1>9, <1>11, <1>12

\* What a step that logs nothing and consumes nothing leaves true.
LEMMA LogUnchanged ==
  ASSUME NonceSingleUse, ChargedAsSigned, UNCHANGED <<usedNonce, debited>>
  PROVE  NonceSingleUse' /\ ChargedAsSigned'
BY DEF NonceSingleUse, ChargedAsSigned

\* Whatever an authorization in calldata is made of, it is well typed.
LEMMA AuthTyped ==
  ASSUME NEW a \in Auths
  PROVE  /\ a \in DebitAuthorization
         /\ a.buyer \in Accounts /\ a.resourceId \in ResourceIds
         /\ a.nonce \in Nonces /\ a.maxAmount \in Nat /\ a.validBefore \in Nat
BY EscrowAssumption DEF DebitAuthorization

\* A debit logs one well-typed event, for the nonce it consumes, the buyer who
\* signed and an amount within the cap.
LEMMA DebitLogs ==
  ASSUME RegistryTypeOK, NEW sender, NEW a \in Auths, NEW amount \in Nat,
         Debit(sender, a, amount)
  PROVE  /\ DebitedEvent(a, amount) \in Debited
         /\ DebitedEvent(a, amount).nonce = a.nonce
         /\ DebitedEvent(a, amount).buyer = a.buyer
         /\ DebitedEvent(a, amount).resourceId = a.resourceId
         /\ DebitedEvent(a, amount).amount = amount
         /\ debited' = Append(debited, DebitedEvent(a, amount))
         /\ a \in SignedAuths /\ a.nonce \notin usedNonce
         /\ amount <= a.maxAmount
<1> DEFINE bps == resources[a.resourceId].creatorBps
           tc  == CreatorShare(amount, bps)
<1>1. bps \in 0..BPS_DENOMINATOR
  BY AuthTyped DEF RegistryTypeOK, Resource
<1>2. tc \in Nat /\ amount - tc \in Nat
  <2> HIDE DEF bps
  <2>1. tc \in 0..amount
    BY <1>1, ShareBounded
  <2> QED BY <2>1, SMT
<1>3. DebitedEvent(a, amount) =
        [nonce |-> a.nonce, resourceId |-> a.resourceId, buyer |-> a.buyer,
         amount |-> amount, toCreator |-> tc, toTreasury |-> amount - tc]
  BY DEF DebitedEvent
<1> HIDE DEF tc
<1>4. DebitedEvent(a, amount) \in Debited
  BY <1>2, <1>3, AuthTyped DEF Debited
<1> QED BY <1>3, <1>4 DEF Debit, DebitAllowed, NonceFree, SignedByBuyer

-----------------------------------------------------------------------------
\* debit keeps the invariant.
LEMMA DebitPreserves ==
  ASSUME EscrowInv, NEW sender \in Accounts, NEW a \in Auths, NEW amount \in Nat,
         Debit(sender, a, amount), UNCHANGED <<registryVars, now>>
  PROVE  EscrowInv'
<1> DEFINE e == DebitedEvent(a, amount)
<1>1. /\ RegistryTypeOK /\ EscrowTypeOK /\ PayeesNamed
      /\ NonceSingleUse /\ ChargedAsSigned /\ NothingAtZero
  BY DEF EscrowInv, EscrowSystemTypeOK
<1>2. /\ e \in Debited /\ e.nonce = a.nonce /\ e.buyer = a.buyer
      /\ e.resourceId = a.resourceId /\ e.amount = amount
      /\ debited' = Append(debited, e)
      /\ a \in SignedAuths /\ a.nonce \notin usedNonce
      /\ amount <= a.maxAmount
  BY <1>1, DebitLogs
<1>3. /\ balanceOf' \in [Addresses -> Nat]
      /\ balanceOf'[ZeroAddress] = balanceOf[ZeroAddress]
  BY <1>1, AuthTyped, SplitSound DEF EscrowTypeOK, Debit, DebitAllowed
<1>4. /\ usedNonce' = usedNonce \cup {a.nonce} /\ usedNonce' \subseteq Nonces
      /\ UNCHANGED <<admin, usdcOf, resources, pendingSlashes, now>>
  BY <1>1, AuthTyped DEF EscrowTypeOK, Debit, registryVars
<1> HIDE DEF e
<1>5. /\ debited' \in Seq(Debited)
      /\ Len(debited) \in Nat
      /\ DOMAIN debited = 1..Len(debited)
      /\ DOMAIN debited' = 1..(Len(debited) + 1)
      /\ \A i \in DOMAIN debited : debited'[i] = debited[i]
      /\ debited'[Len(debited) + 1] = e
  BY <1>1, <1>2 DEF EscrowTypeOK
<1>6. EscrowSystemTypeOK' /\ PayeesNamed' /\ NothingAtZero'
  BY <1>1, <1>3, <1>4, <1>5
     DEF EscrowSystemTypeOK, RegistryTypeOK, EscrowTypeOK, PayeesNamed, NothingAtZero
<1>7. \A i \in DOMAIN debited' :
        \/ i \in DOMAIN debited /\ debited'[i] = debited[i]
        \/ i = Len(debited) + 1 /\ debited'[i] = e
  BY <1>5
<1>8. NonceSingleUse'
  <2>1. \A i \in DOMAIN debited : debited[i].nonce \in usedNonce
    BY <1>1 DEF NonceSingleUse
  <2>2. \A n \in usedNonce' : \E i \in DOMAIN debited' : debited'[i].nonce = n
    <3> TAKE n \in usedNonce'
    <3>1. CASE n \in usedNonce
      BY <1>1, <1>5, <3>1 DEF NonceSingleUse
    <3>2. CASE n = a.nonce
      BY <1>2, <1>5, <3>2
    <3> QED BY <1>4, <3>1, <3>2
  <2>3. \A i \in DOMAIN debited' : debited'[i].nonce \in usedNonce'
    BY <1>2, <1>4, <1>7, <2>1
  <2>4. \A i, j \in DOMAIN debited' : debited'[i].nonce = debited'[j].nonce => i = j
    BY <1>1, <1>2, <1>7, <2>1 DEF NonceSingleUse
  <2> QED BY <2>2, <2>3, <2>4 DEF NonceSingleUse
<1>9. ChargedAsSigned'
  <2> SUFFICES ASSUME NEW i \in DOMAIN debited'
               PROVE  \E s \in SignedAuths :
                        /\ s.nonce = debited'[i].nonce
                        /\ s.buyer = debited'[i].buyer
                        /\ s.resourceId = debited'[i].resourceId
                        /\ debited'[i].amount <= s.maxAmount
    BY DEF ChargedAsSigned
  <2>1. CASE i \in DOMAIN debited /\ debited'[i] = debited[i]
    BY <1>1, <2>1 DEF ChargedAsSigned
  <2>2. CASE debited'[i] = e
    BY <1>2, <2>2
  <2> QED BY <1>7, <2>1, <2>2
<1> QED BY <1>6, <1>8, <1>9 DEF EscrowInv

\* setAdmin, deposit and withdraw keep the invariant: they move tokens between
\* an account and the contract, never below zero, and log no event.
LEMMA FundingPreserves ==
  ASSUME EscrowInv, UNCHANGED <<registryVars, now>>,
         NEW sender \in Accounts,
         \/ \E newAdmin \in Accounts : SetAdmin(sender, newAdmin)
         \/ \E amount \in Nat : Deposit(sender, amount) \/ Withdraw(sender, amount)
  PROVE  EscrowInv'
<1>1. /\ RegistryTypeOK /\ EscrowTypeOK /\ PayeesNamed
      /\ NonceSingleUse /\ ChargedAsSigned /\ NothingAtZero
  BY DEF EscrowInv, EscrowSystemTypeOK
<1>2. UNCHANGED <<usedNonce, debited, resources, pendingSlashes, now>>
  BY DEF SetAdmin, Deposit, Withdraw, registryVars
<1>3. RegistryTypeOK' /\ PayeesNamed' /\ NonceSingleUse' /\ ChargedAsSigned'
  BY <1>1, <1>2, LogUnchanged DEF RegistryTypeOK, PayeesNamed
<1>4. /\ sender \in Addresses /\ sender # ZeroAddress /\ ZeroAddress \in Addresses
      /\ sender \in Accounts \cup {Escrow} /\ sender # Escrow
      /\ Escrow \in Accounts \cup {Escrow}
  BY RegistryAssumption, EscrowAssumption DEF Addresses
<1>5. EscrowTypeOK' /\ NothingAtZero'
  <2>1. CASE \E newAdmin \in Accounts : SetAdmin(sender, newAdmin)
    BY <1>1, <2>1 DEF SetAdmin, EscrowTypeOK, NothingAtZero
  <2>2. ASSUME NEW amount \in Nat, Deposit(sender, amount)
        PROVE  EscrowTypeOK' /\ NothingAtZero'
    <3>1. balanceOf' \in [Addresses -> Nat] /\ balanceOf'[ZeroAddress] = 0
      BY <1>1, <1>4, <2>2 DEF Deposit, EscrowTypeOK, NothingAtZero
    <3>2. usdcOf' \in [Accounts \cup {Escrow} -> Nat]
      BY <1>1, <1>4, <2>2 DEF Deposit, EscrowTypeOK
    <3> QED BY <1>1, <2>2, <3>1, <3>2 DEF Deposit, EscrowTypeOK, NothingAtZero
  <2>3. ASSUME NEW amount \in Nat, Withdraw(sender, amount)
        PROVE  EscrowTypeOK' /\ NothingAtZero'
    <3>1. balanceOf' \in [Addresses -> Nat] /\ balanceOf'[ZeroAddress] = 0
      BY <1>1, <1>4, <2>3 DEF Withdraw, EscrowTypeOK, NothingAtZero
    <3>2. usdcOf' \in [Accounts \cup {Escrow} -> Nat]
      BY <1>1, <1>4, <2>3 DEF Withdraw, EscrowTypeOK
    <3> QED BY <1>1, <2>3, <3>1, <3>2 DEF Withdraw, EscrowTypeOK, NothingAtZero
  <2> QED BY <2>1, <2>2, <2>3
<1> QED BY <1>3, <1>5 DEF EscrowInv, EscrowSystemTypeOK

\* The registry keeps the invariant: whatever an administrator configures, a
\* registered resource names real payees and a split of at most 100%.
LEMMA RegistryPreserves ==
  ASSUME EscrowInv, RegistryConfigCall
  PROVE  EscrowInv'
<1>1. /\ RegistryTypeOK /\ EscrowTypeOK /\ PayeesNamed
      /\ NonceSingleUse /\ ChargedAsSigned /\ NothingAtZero
  BY DEF EscrowInv, EscrowSystemTypeOK
<1>2. /\ UNCHANGED <<balanceOf, usedNonce, admin, usdcOf, debited, now>>
      /\ UNCHANGED pendingSlashes
  BY DEF RegistryConfigCall, escrowVars, Register, Update, Pause, Unpause, SetActive
<1>3. EscrowTypeOK' /\ NonceSingleUse' /\ ChargedAsSigned' /\ NothingAtZero'
  BY <1>1, <1>2, LogUnchanged DEF EscrowTypeOK, NothingAtZero
<1>4. resources' \in [ResourceIds -> Resource] /\ PayeesNamed'
  <2>1. PICK s \in Accounts, r \in ResourceIds :
          \/ \E c, t \in Addresses, bps \in BpsValues : Register(s, r, c, t, bps)
          \/ \E t \in Addresses, bps \in BpsValues : Update(s, r, t, bps)
          \/ Pause(s, r)
          \/ Unpause(s, r)
    BY DEF RegistryConfigCall
  <2>2. ASSUME NEW c \in Addresses, NEW t \in Addresses, NEW bps \in BpsValues,
               Register(s, r, c, t, bps)
        PROVE  resources' \in [ResourceIds -> Resource] /\ PayeesNamed'
    <3>1. bps \in 0..BPS_DENOMINATOR
      BY <2>2, EscrowAssumption DEF Register, BPS_DENOMINATOR
    <3> QED BY <1>1, <2>2, <3>1 DEF Register, RegistryTypeOK, Resource, PayeesNamed
  <2>3. ASSUME NEW t \in Addresses, NEW bps \in BpsValues, Update(s, r, t, bps)
        PROVE  resources' \in [ResourceIds -> Resource] /\ PayeesNamed'
    <3>1. bps <= BPS_DENOMINATOR /\ bps \in Nat
      BY <2>3, EscrowAssumption, Zenon DEF Update
    <3>2. bps \in 0..BPS_DENOMINATOR
      BY <3>1 DEF BPS_DENOMINATOR
    <3> QED BY <1>1, <2>3, <3>2 DEF Update, RegistryTypeOK, Resource, PayeesNamed
  <2>4. CASE Pause(s, r) \/ Unpause(s, r)
    <3>1. PICK flag \in BOOLEAN : resources' = [resources EXCEPT ![r].active = flag]
      BY <2>4, Zenon DEF Pause, Unpause, SetActive
    <3>2. resources' \in [ResourceIds -> Resource]
      BY <1>1, <3>1 DEF RegistryTypeOK, Resource
    <3>3. \A q \in ResourceIds : /\ resources'[q].exists = resources[q].exists
                                 /\ resources'[q].creator = resources[q].creator
                                 /\ resources'[q].treasury = resources[q].treasury
      BY <1>1, <3>1 DEF RegistryTypeOK, Resource
    <3> QED BY <1>1, <3>2, <3>3 DEF PayeesNamed
  <2> QED BY <2>1, <2>2, <2>3, <2>4
<1> QED BY <1>1, <1>2, <1>3, <1>4 DEF EscrowInv, EscrowSystemTypeOK, RegistryTypeOK

\* Time passing keeps the invariant.
LEMMA BlockTimePreserves ==
  ASSUME EscrowInv, BlockTime
  PROVE  EscrowInv'
<1>1. /\ UNCHANGED <<balanceOf, usedNonce, admin, usdcOf, debited>>
      /\ UNCHANGED <<resources, pendingSlashes>>
  BY DEF BlockTime, registryVars, escrowVars
<1>2. now \in Nat => now' \in Nat
  BY DEF BlockTime, Tick
<1>3. NonceSingleUse' /\ ChargedAsSigned'
  BY <1>1, LogUnchanged DEF EscrowInv
<1> QED BY <1>1, <1>2, <1>3
     DEF EscrowInv, EscrowSystemTypeOK, RegistryTypeOK, EscrowTypeOK, PayeesNamed,
         NothingAtZero

\* Every step of the contracts keeps the invariant.
LEMMA EscrowStep ==
  ASSUME EscrowInv, [EscrowSystemNext]_escrowSystemVars
  PROVE  EscrowInv'
<1>1. CASE EscrowCall
  <2>1. CASE \E s \in Accounts, a \in Auths, x \in Amounts : Debit(s, a, x)
    BY <1>1, <2>1, DebitPreserves, EscrowAssumption DEF EscrowCall
  <2>2. CASE \E s \in Accounts : \/ \E n \in Accounts : SetAdmin(s, n)
                                 \/ \E x \in Amounts : Deposit(s, x) \/ Withdraw(s, x)
    BY <1>1, <2>2, FundingPreserves, EscrowAssumption DEF EscrowCall
  <2> QED BY <1>1, <2>1, <2>2 DEF EscrowCall
<1>2. CASE RegistryConfigCall
  BY <1>2, RegistryPreserves
<1>3. CASE BlockTime
  BY <1>3, BlockTimePreserves
<1>4. CASE UNCHANGED escrowSystemVars
  <2>1. /\ UNCHANGED <<balanceOf, usedNonce, admin, usdcOf, debited>>
        /\ UNCHANGED <<resources, pendingSlashes, now>>
    BY <1>4 DEF escrowSystemVars, registryVars, escrowVars
  <2>2. NonceSingleUse' /\ ChargedAsSigned'
    BY <2>1, LogUnchanged DEF EscrowInv
  <2> QED BY <2>1, <2>2
       DEF EscrowInv, EscrowSystemTypeOK, RegistryTypeOK, EscrowTypeOK, PayeesNamed,
           NothingAtZero
<1> QED BY <1>1, <1>2, <1>3, <1>4 DEF EscrowSystemNext

\* The deployed, empty contracts satisfy the invariant.
LEMMA EscrowStart == EscrowSystemInit => EscrowInv
<1> SUFFICES ASSUME EscrowSystemInit PROVE EscrowInv
  OBVIOUS
<1>1. RegistryTypeOK /\ PayeesNamed
  BY DEF EscrowSystemInit, RegistryInit, RegistryTypeOK, PayeesNamed, NoResource,
         NoPendingSlash, Resource, PendingSlash, Addresses, BPS_DENOMINATOR
<1>2. EscrowTypeOK
  BY EscrowAssumption DEF EscrowSystemInit, EscrowInit, EscrowTypeOK
<1>3. debited = <<>> /\ usedNonce = {}
  BY DEF EscrowSystemInit, EscrowInit
<1>4. NonceSingleUse /\ ChargedAsSigned
  BY <1>3 DEF NonceSingleUse, ChargedAsSigned
<1>5. NothingAtZero
  BY DEF EscrowSystemInit, EscrowInit, NothingAtZero, Addresses
<1> QED BY <1>1, <1>2, <1>4, <1>5 DEF EscrowInv, EscrowSystemTypeOK

\* EscrowInv holds in every reachable state.
THEOREM EscrowInvariant == EscrowSpec => []EscrowInv
<1>1. EscrowInv /\ [EscrowSystemNext]_escrowSystemVars => EscrowInv'
  BY EscrowStep
<1> QED BY <1>1, EscrowStart, PTL DEF EscrowSpec

-----------------------------------------------------------------------------
\* The mappings keep their ranges: no subtraction the Solidity compiler checks
\* is ever below zero, no split is above 100%.
THEOREM EscrowTypesHold == EscrowSpec => []EscrowSystemTypeOK
<1>1. EscrowInv => EscrowSystemTypeOK
  BY DEF EscrowInv
<1> QED BY <1>1, EscrowInvariant, PTL

\* debit consumes each nonce once, whatever is signed with it.
THEOREM NoncesSingleUse == EscrowSpec => []NonceSingleUse
<1>1. EscrowInv => NonceSingleUse
  BY DEF EscrowInv
<1> QED BY <1>1, EscrowInvariant, PTL

\* debit charges only what the buyer signed, for the resource it signed.
THEOREM ChargesAsSigned == EscrowSpec => []ChargedAsSigned
<1>1. EscrowInv => ChargedAsSigned
  BY DEF EscrowInv
<1> QED BY <1>1, EscrowInvariant, PTL

\* No split of a debit strands tokens at address(0).
THEOREM NothingStranded == EscrowSpec => []NothingAtZero
<1>1. EscrowInv => NothingAtZero
  BY DEF EscrowInv
<1> QED BY <1>1, EscrowInvariant, PTL

-----------------------------------------------------------------------------
\* The step relation of PayerConsents: who may see its balance fall.
ConsentingStep ==
  \A acc \in Addresses :
    balanceOf'[acc] < balanceOf[acc] =>
      \/ /\ acc \in Accounts
         /\ usdcOf'[acc] - usdcOf[acc] = balanceOf[acc] - balanceOf'[acc]
      \/ /\ Len(debited') = Len(debited) + 1
         /\ debited'[Len(debited')].buyer = acc

\* Only withdraw by its owner, and debit of its buyer, lower a balance.
LEMMA StepConsents ==
  ASSUME EscrowInv, EscrowSystemNext
  PROVE  ConsentingStep
<1>1. RegistryTypeOK /\ EscrowTypeOK /\ PayeesNamed
  BY DEF EscrowInv, EscrowSystemTypeOK
<1>2. \A acc \in Addresses : balanceOf[acc] \in Nat
  BY <1>1 DEF EscrowTypeOK
<1>3. ASSUME NEW s \in Accounts, NEW a \in Auths, NEW x \in Amounts, Debit(s, a, x)
      PROVE  ConsentingStep
  <2>1. /\ x \in Nat /\ a \in DebitAuthorization
        /\ balanceOf \in [Addresses -> Nat]
        /\ balanceOf' = AfterSplit(balanceOf, a, x)
        /\ ResourceActive(a) /\ Funded(a, x)
    BY <1>1, <1>3, AuthTyped, EscrowAssumption DEF EscrowTypeOK, Debit, DebitAllowed
  <2>2. \A acc \in Addresses : balanceOf'[acc] < balanceOf[acc] => acc = a.buyer
    BY <1>1, <2>1, SplitSound
  <2>3. /\ debited' = Append(debited, DebitedEvent(a, x))
        /\ DebitedEvent(a, x).buyer = a.buyer
        /\ DebitedEvent(a, x) \in Debited
    BY <1>1, <1>3, <2>1, DebitLogs
  <2>4. /\ Len(debited') = Len(debited) + 1
        /\ debited'[Len(debited')] = DebitedEvent(a, x)
    BY <1>1, <2>3 DEF EscrowTypeOK
  <2> QED BY <2>2, <2>3, <2>4 DEF ConsentingStep
<1>4. ASSUME NEW s \in Accounts, NEW x \in Amounts, Withdraw(s, x)
      PROVE  ConsentingStep
  <2>1. /\ x \in Nat /\ s \in Addresses /\ s # Escrow
        /\ balanceOf' = [balanceOf EXCEPT ![s] = @ - x]
        /\ usdcOf' = [usdcOf EXCEPT ![Escrow] = @ - x, ![s] = @ + x]
        /\ usdcOf[s] \in Nat /\ balanceOf[s] \in Nat
        /\ DOMAIN usdcOf = Accounts \cup {Escrow}
        /\ DOMAIN balanceOf = Addresses
    BY <1>1, <1>4, EscrowAssumption DEF EscrowTypeOK, Withdraw, Addresses
  <2>2. usdcOf'[s] = usdcOf[s] + x /\ balanceOf'[s] = balanceOf[s] - x
    BY <2>1
  <2>3. \A acc \in Addresses : acc # s => balanceOf'[acc] = balanceOf[acc]
    BY <2>1
  <2>4. usdcOf'[s] - usdcOf[s] = balanceOf[s] - balanceOf'[s]
    BY <2>1, <2>2
  <2> QED BY <1>2, <2>3, <2>4 DEF ConsentingStep
<1>5. ASSUME NEW s \in Accounts, NEW x \in Amounts, Deposit(s, x)
      PROVE  ConsentingStep
  <2>1. /\ x \in Nat /\ s \in Addresses /\ DOMAIN balanceOf = Addresses
        /\ balanceOf' = [balanceOf EXCEPT ![s] = @ + x]
    BY <1>1, <1>5, EscrowAssumption DEF EscrowTypeOK, Deposit, Addresses
  <2>2. \A acc \in Addresses : ~(balanceOf'[acc] < balanceOf[acc])
    BY <1>2, <2>1
  <2> QED BY <2>2 DEF ConsentingStep
<1>6. ASSUME UNCHANGED balanceOf
      PROVE  ConsentingStep
  BY <1>2, <1>6 DEF ConsentingStep
<1>7. CASE EscrowCall
  <2>1. CASE \E s, n \in Accounts : SetAdmin(s, n)
    BY <1>6, <2>1 DEF SetAdmin
  <2> QED BY <1>3, <1>4, <1>5, <1>7, <2>1 DEF EscrowCall
<1>8. CASE RegistryConfigCall \/ BlockTime
  BY <1>6, <1>8 DEF RegistryConfigCall, BlockTime, escrowVars
<1> QED BY <1>7, <1>8 DEF EscrowSystemNext

\* A balance falls only with its owner's consent.
THEOREM PayersConsent == EscrowSpec => PayerConsents
<1>1. EscrowInv /\ [EscrowSystemNext]_escrowSystemVars
        => [ConsentingStep]_escrowSystemVars
  BY StepConsents
<1>2. EscrowSpec => [][ConsentingStep]_escrowSystemVars
  BY <1>1, EscrowInvariant, PTL DEF EscrowSpec
<1> QED BY <1>2 DEF PayerConsents, ConsentingStep

\* A debit adds one charge, as signed, for a nonce without one.
LEMMA DebitCharges ==
  ASSUME EscrowInv, NEW s \in Accounts, NEW a \in Auths, NEW x \in Nat,
         Debit(s, a, x)
  PROVE  /\ a \in SignedAuths /\ x <= a.maxAmount
         /\ \A c \in Charges : c.nonce # a.nonce
         /\ Charges' = Charges \cup
              {[nonce |-> a.nonce, buyer |-> a.buyer, resourceId |-> a.resourceId,
                amount |-> x]}
<1> DEFINE e == DebitedEvent(a, x)
<1>1. a.nonce \in Nonces /\ a.maxAmount \in Nat
  BY AuthTyped
<1>2. RegistryTypeOK /\ EscrowTypeOK /\ NonceSingleUse
  BY DEF EscrowInv, EscrowSystemTypeOK
<1>3. /\ e \in Debited /\ e.nonce = a.nonce /\ e.buyer = a.buyer
      /\ e.resourceId = a.resourceId /\ e.amount = x
      /\ debited' = Append(debited, e)
      /\ a \in SignedAuths /\ a.nonce \notin usedNonce
      /\ x <= a.maxAmount
  BY <1>1, <1>2, DebitLogs
<1> HIDE DEF e
<1>4. /\ DOMAIN debited = 1..Len(debited) /\ Len(debited) \in Nat
      /\ DOMAIN debited' = 1..(Len(debited) + 1)
      /\ \A i \in DOMAIN debited : debited'[i] = debited[i]
      /\ debited'[Len(debited) + 1] = e
  BY <1>2, <1>3 DEF EscrowTypeOK
<1>5. \A c \in Charges : c.nonce # a.nonce
  BY <1>2, <1>3 DEF NonceSingleUse, Charges
<1> DEFINE rec(ev) == [nonce |-> ev.nonce, buyer |-> ev.buyer,
                       resourceId |-> ev.resourceId, amount |-> ev.amount]
           new     == [nonce |-> a.nonce, buyer |-> a.buyer,
                       resourceId |-> a.resourceId, amount |-> x]
<1>6. Charges' = Charges \cup {new}
  <2>1. Charges = {rec(debited[i]) : i \in DOMAIN debited}
    BY DEF Charges
  <2>2. Charges' = {rec(debited'[i]) : i \in DOMAIN debited'}
    BY DEF Charges
  <2>3. rec(e) = new
    BY <1>3
  <2>4. DOMAIN debited' = DOMAIN debited \cup {Len(debited) + 1}
    BY <1>4
  <2> HIDE DEF rec, new
  <2> QED BY <1>4, <2>1, <2>2, <2>3, <2>4
<1> QED BY <1>3, <1>5, <1>6

-----------------------------------------------------------------------------
\* A debit is a Settle of the promise.
LEMMA DebitSettles ==
  ASSUME EscrowInv, NEW s \in Accounts, NEW a \in Auths, NEW x \in Amounts,
         Debit(s, a, x)
  PROVE  Promise!PromiseNext
<1>1. x \in Nat /\ a.nonce \in Nonces /\ a.maxAmount \in Nat
  BY EscrowAssumption, AuthTyped
<1>2. /\ a \in SignedAuths /\ x <= a.maxAmount
      /\ \A c \in Charges : c.nonce # a.nonce
      /\ Charges' = Charges \cup {Promise!Charge(a, x)}
  BY <1>1, DebitCharges DEF Promise!Charge
<1> QED BY <1>1, <1>2 DEF Promise!PromiseNext, Promise!Settle

\* No other step of the contracts touches a charge.
LEMMA StepRefines ==
  ASSUME EscrowInv, [EscrowSystemNext]_escrowSystemVars
  PROVE  [Promise!PromiseNext]_(Promise!promiseVars)
<1>1. CASE \E s \in Accounts, a \in Auths, x \in Amounts : Debit(s, a, x)
  BY <1>1, DebitSettles
<1>2. CASE UNCHANGED debited
  BY <1>2 DEF Promise!promiseVars, Charges
<1>3. \/ \E s \in Accounts, a \in Auths, x \in Amounts : Debit(s, a, x)
      \/ UNCHANGED debited
  BY DEF EscrowSystemNext, EscrowCall, RegistryConfigCall, BlockTime, SetAdmin,
         Deposit, Withdraw, escrowVars, escrowSystemVars
<1> QED BY <1>1, <1>2, <1>3

\* The contract implements the abstract promise: at most one charge a nonce,
\* and each as signed.
THEOREM EscrowImplementsPromise == EscrowSpec => ImplementsPromise
<1>1. EscrowSystemInit => Promise!PromiseInit
  BY DEF EscrowSystemInit, EscrowInit, Promise!PromiseInit, Charges
<1>2. EscrowInv /\ [EscrowSystemNext]_escrowSystemVars
        => [Promise!PromiseNext]_(Promise!promiseVars)
  BY StepRefines
<1> QED BY <1>1, <1>2, EscrowInvariant, PTL
     DEF EscrowSpec, ImplementsPromise, Promise!PromiseSpec

-----------------------------------------------------------------------------
(***************************************************************************)
(* Solvency: the tokens the contract holds are the sum of the balances.    *)
(***************************************************************************)
\* What Solvent adds up, without the fold.
BalanceSum(b) == SumOver(b, Addresses)

LEMMA BalancesAdd ==
  ASSUME NEW b, b \in [Addresses -> Nat]
  PROVE  FoldFunction(+, 0, b) = BalanceSum(b)
BY FoldIsSum DEF BalanceSum

\* The sum of the balances is an integer, and one balance that changes changes
\* it by as much.
LEMMA BalanceSumInt ==
  ASSUME NEW b, b \in [Addresses -> Nat]
  PROVE  BalanceSum(b) \in Int
<1>1. IsFiniteSet(Addresses)
  BY RegistryAssumption, FS_AddElement DEF Addresses
<1> QED BY <1>1, SumInt DEF BalanceSum

LEMMA OneBalance ==
  ASSUME NEW b, b \in [Addresses -> Nat], NEW c, c \in [Addresses -> Nat],
         NEW acc \in Addresses, NEW v,
         \A x \in Addresses : x # acc => c[x] = b[x],
         c[acc] - b[acc] = v
  PROVE  BalanceSum(c) = BalanceSum(b) + v
<1>1. IsFiniteSet(Addresses)
  BY RegistryAssumption, FS_AddElement DEF Addresses
<1>2. \A x \in Addresses : b[x] \in Int /\ c[x] \in Int
  OBVIOUS
<1>3. \A x \in Addresses : x # acc => b[x] = c[x]
  OBVIOUS
<1>4. SumOver(c, Addresses) = SumOver(b, Addresses) + v
  BY <1>1, <1>2, <1>3, SumShift
<1> QED BY <1>4 DEF BalanceSum

\* A debit only redistributes: what the buyer loses is what the creator and the
\* treasury get, rounding included.
LEMMA SplitConserves ==
  ASSUME RegistryTypeOK, PayeesNamed,
         balanceOf \in [Addresses -> Nat],
         NEW a \in DebitAuthorization, NEW amount \in Nat,
         ResourceActive(a), Funded(a, amount)
  PROVE  BalanceSum(AfterSplit(balanceOf, a, amount)) = BalanceSum(balanceOf)
<1> DEFINE r  == resources[a.resourceId]
           tc == CreatorShare(amount, r.creatorBps)
           b1 == [balanceOf EXCEPT ![a.buyer] = @ - amount]
           b2 == [b1 EXCEPT ![r.creator] = @ + tc]
           b3 == [b2 EXCEPT ![r.treasury] = @ + (amount - tc)]
<1>1. a.buyer \in Addresses /\ a.resourceId \in ResourceIds
  BY DEF DebitAuthorization, Addresses
<1>2. /\ r.creator \in Addresses /\ r.treasury \in Addresses
      /\ r.creatorBps \in 0..BPS_DENOMINATOR
  BY <1>1 DEF RegistryTypeOK, Resource
<1>3. tc \in Nat /\ amount - tc \in Nat
  <2> HIDE DEF r
  <2>1. tc \in 0..amount
    BY <1>2, ShareBounded
  <2> QED BY <2>1, SMT
<1>4. AfterSplit(balanceOf, a, amount) = b3
  BY DEF AfterSplit
<1>5. balanceOf[a.buyer] >= amount
  BY DEF Funded
<1> HIDE DEF r, tc
<1>6. /\ b1 \in [Addresses -> Nat] /\ b1[a.buyer] - balanceOf[a.buyer] = 0 - amount
      /\ \A x \in Addresses : x # a.buyer => b1[x] = balanceOf[x]
  BY <1>1, <1>5
<1>7. /\ b2 \in [Addresses -> Nat] /\ b2[r.creator] - b1[r.creator] = tc
      /\ \A x \in Addresses : x # r.creator => b2[x] = b1[x]
  <2> HIDE DEF b1
  <2> QED BY <1>2, <1>3, <1>6
<1>8. /\ b3 \in [Addresses -> Nat] /\ b3[r.treasury] - b2[r.treasury] = amount - tc
      /\ \A x \in Addresses : x # r.treasury => b3[x] = b2[x]
  <2> HIDE DEF b1, b2
  <2> QED BY <1>2, <1>3, <1>7
<1> HIDE DEF b1, b2, b3
<1>9. BalanceSum(b1) = BalanceSum(balanceOf) + (0 - amount)
  BY <1>1, <1>6, OneBalance
<1>10. BalanceSum(b2) = BalanceSum(b1) + tc
  BY <1>2, <1>6, <1>7, OneBalance
<1>11. BalanceSum(b3) = BalanceSum(b2) + (amount - tc)
  BY <1>2, <1>7, <1>8, OneBalance
<1>12. BalanceSum(balanceOf) \in Int
  BY BalanceSumInt
<1> QED BY <1>3, <1>4, <1>9, <1>10, <1>11, <1>12

\* Solvent, with the sum in place of the fold.
Balanced == usdcOf[Escrow] = BalanceSum(balanceOf)

\* Every step keeps what the contract holds equal to what it owes.
LEMMA BalancedStep ==
  ASSUME EscrowInv, Balanced, [EscrowSystemNext]_escrowSystemVars
  PROVE  Balanced'
<1>1. /\ RegistryTypeOK /\ EscrowTypeOK /\ PayeesNamed
      /\ balanceOf \in [Addresses -> Nat]
      /\ usdcOf \in [Accounts \cup {Escrow} -> Nat]
  BY DEF EscrowInv, EscrowSystemTypeOK, EscrowTypeOK
<1>2. balanceOf' \in [Addresses -> Nat]
  BY EscrowStep DEF EscrowInv, EscrowSystemTypeOK, EscrowTypeOK
<1>3. BalanceSum(balanceOf) \in Int
  BY <1>1, BalanceSumInt
<1>4. \A s \in Accounts : s \in Addresses /\ s # Escrow
  BY EscrowAssumption DEF Addresses
<1>5. ASSUME NEW s \in Accounts, NEW a \in Auths, NEW x \in Amounts, Debit(s, a, x)
      PROVE  Balanced'
  <2>1. /\ x \in Nat /\ a \in DebitAuthorization
        /\ balanceOf' = AfterSplit(balanceOf, a, x)
        /\ usdcOf' = usdcOf
        /\ ResourceActive(a) /\ Funded(a, x)
    BY <1>5, EscrowAssumption DEF Debit, DebitAllowed
  <2>2. BalanceSum(balanceOf') = BalanceSum(balanceOf)
    BY <1>1, <2>1, SplitConserves
  <2> QED BY <2>1, <2>2 DEF Balanced
<1>6. ASSUME NEW s \in Accounts, NEW x \in Amounts, Deposit(s, x)
      PROVE  Balanced'
  <2>1. x \in Nat /\ s \in Addresses /\ s # Escrow
    BY <1>4, EscrowAssumption
  <2>2. /\ \A y \in Addresses : y # s => balanceOf'[y] = balanceOf[y]
        /\ balanceOf'[s] - balanceOf[s] = x
    BY <1>1, <1>6, <2>1 DEF Deposit
  <2>3. BalanceSum(balanceOf') = BalanceSum(balanceOf) + x
    BY <1>1, <1>2, <2>1, <2>2, OneBalance
  <2>4. usdcOf'[Escrow] = usdcOf[Escrow] + x
    BY <1>1, <1>6, <2>1 DEF Deposit
  <2> QED BY <2>3, <2>4 DEF Balanced
<1>7. ASSUME NEW s \in Accounts, NEW x \in Amounts, Withdraw(s, x)
      PROVE  Balanced'
  <2>1. x \in Nat /\ s \in Addresses /\ s # Escrow /\ 0 - x \in Int
    BY <1>4, EscrowAssumption
  <2>2. /\ \A y \in Addresses : y # s => balanceOf'[y] = balanceOf[y]
        /\ balanceOf'[s] - balanceOf[s] = 0 - x
    BY <1>1, <1>7, <2>1 DEF Withdraw
  <2>3. BalanceSum(balanceOf') = BalanceSum(balanceOf) + (0 - x)
    BY <1>1, <1>2, <2>1, <2>2, OneBalance
  <2>4. usdcOf'[Escrow] = usdcOf[Escrow] - x
    BY <1>1, <1>7, <2>1 DEF Withdraw
  <2>5. usdcOf[Escrow] \in Nat
    BY <1>1
  <2> QED BY <1>3, <2>1, <2>3, <2>4, <2>5 DEF Balanced
<1>8. ASSUME UNCHANGED <<balanceOf, usdcOf>>
      PROVE  Balanced'
  BY <1>8 DEF Balanced, BalanceSum
<1>9. CASE EscrowCall
  <2>1. CASE \E s, n \in Accounts : SetAdmin(s, n)
    BY <1>8, <2>1 DEF SetAdmin
  <2> QED BY <1>5, <1>6, <1>7, <1>9, <2>1 DEF EscrowCall
<1>10. CASE RegistryConfigCall \/ BlockTime \/ UNCHANGED escrowSystemVars
  BY <1>8, <1>10 DEF RegistryConfigCall, BlockTime, escrowVars, escrowSystemVars
<1> QED BY <1>9, <1>10 DEF EscrowSystemNext

\* The empty contract owes nothing.
LEMMA BalancedStart == EscrowSystemInit => Balanced
<1> SUFFICES ASSUME EscrowSystemInit PROVE Balanced
  OBVIOUS
<1>1. usdcOf[Escrow] = 0 /\ \A x \in Addresses : balanceOf[x] = 0
  BY DEF EscrowSystemInit, EscrowInit
<1>2. IsFiniteSet(Addresses)
  BY RegistryAssumption, FS_AddElement DEF Addresses
<1>3. SumOver(balanceOf, Addresses) = 0
  BY <1>1, <1>2, SumZero
<1> QED BY <1>1, <1>3 DEF Balanced, BalanceSum

\* The contract can always pay out everybody: it holds the sum of the balances,
\* however deposits, debits with their rounding and withdrawals follow each
\* other, and whoever is buyer, creator and treasury of a resource.
THEOREM EscrowSolvent == EscrowSpec => []Solvent
<1>1. EscrowInv /\ Balanced /\ [EscrowSystemNext]_escrowSystemVars => Balanced'
  BY BalancedStep
<1>2. EscrowSpec => []Balanced
  BY <1>1, BalancedStart, EscrowInvariant, PTL DEF EscrowSpec
<1>3. EscrowInv /\ Balanced => Solvent
  <2> SUFFICES ASSUME EscrowInv, Balanced PROVE Solvent
    OBVIOUS
  <2>1. balanceOf \in [Addresses -> Nat]
    BY DEF EscrowInv, EscrowSystemTypeOK, EscrowTypeOK
  <2>2. FoldFunction(+, 0, balanceOf) = BalanceSum(balanceOf)
    BY <2>1, BalancesAdd
  <2> QED BY <2>2, Zenon DEF Solvent, Balanced
<1> QED BY <1>2, <1>3, EscrowInvariant, PTL
=============================================================================
