------------------------- MODULE StakingVaultProofs -------------------------
(***************************************************************************)
(* The promises of StakingVault, proved for every set of accounts,         *)
(* resources and amounts, every cooldown and every dispute window.         *)
(***************************************************************************)
EXTENDS StakingVault, FiniteSums

-----------------------------------------------------------------------------
\* Events of one resource do not occur in the log after position i.
QuietSince(log, i, r) ==
  \A k \in (i + 1)..Len(log) : log[k].resourceId # r

\* Position i of the log is the authorization p of resource r, and it still is
\* the latest event of that resource.
Records(log, i, r, p) ==
  /\ i \in 1..Len(log)
  /\ log[i].kind = "authorized"
  /\ log[i].resourceId = r
  /\ log[i].amount = p.amount
  /\ log[i].at + DisputeWindow = p.executableAt
  /\ QuietSince(log, i, r)

\* Every pending authorization is the latest event of its resource.
PendingRecorded ==
  \A r \in ResourceIds :
    pendingSlashes[r].amount # 0
      => \E i \in 1..Len(slashLog) : Records(slashLog, i, r, pendingSlashes[r])

\* A deposit is never in the future.
DepositsPast == \A r \in ResourceIds : bondedAt[r] <= now

\* The inductive invariant of the vault.
VaultInv ==
  /\ VaultTypeOK
  /\ PendingRecorded
  /\ SlashesTimelocked
  /\ DepositsPast
  /\ CooldownCoversDeposit

-----------------------------------------------------------------------------
LEMMA VaultStart == VaultInit => VaultInv
<1> SUFFICES ASSUME VaultInit PROVE VaultInv
  OBVIOUS
<1>1. VaultTypeOK
  <2>1. usdcOf \in [Accounts \cup {Vault} -> Nat]
    BY VaultAssumption DEF VaultInit
  <2>2. RegistryTypeOK
    BY DEF VaultInit, RegistryInit, RegistryTypeOK, NoResource, Resource,
           NoPendingSlash, PendingSlash, Addresses, BPS_DENOMINATOR
  <2>3. slashLog \in Seq(SlashEvent)
    BY DEF VaultInit
  <2> QED BY <2>1, <2>2, <2>3 DEF VaultInit, VaultTypeOK, Addresses
<1>2. PendingRecorded /\ DepositsPast /\ CooldownCoversDeposit
  BY DEF VaultInit, RegistryInit, NoPendingSlash, PendingRecorded, DepositsPast,
         CooldownCoversDeposit
<1>3. SlashesTimelocked
  BY DEF VaultInit, SlashesTimelocked
<1> QED BY <1>1, <1>2, <1>3 DEF VaultInv

-----------------------------------------------------------------------------
\* What Log does to the log (one event of the source per call).
LEMMA LogAppends ==
  ASSUME VaultTypeOK, NEW kind \in {"authorized", "cancelled", "slashed"},
         NEW r \in ResourceIds, NEW amount \in Nat, Log(kind, r, amount)
  PROVE  /\ slashLog' \in Seq(SlashEvent)
         /\ Len(slashLog) \in Nat
         /\ Len(slashLog') = Len(slashLog) + 1
         /\ \A i \in 1..Len(slashLog) : slashLog'[i] = slashLog[i]
         /\ slashLog'[Len(slashLog) + 1] =
              [kind |-> kind, resourceId |-> r, amount |-> amount, at |-> now]
<1> DEFINE e == [kind |-> kind, resourceId |-> r, amount |-> amount, at |-> now]
<1>1. e \in SlashEvent /\ slashLog \in Seq(SlashEvent)
  BY DEF VaultTypeOK, RegistryTypeOK, SlashEvent
<1>2. slashLog' = Append(slashLog, e)
  BY DEF Log
<1> HIDE DEF e
<1>3. /\ slashLog' \in Seq(SlashEvent)
      /\ Len(slashLog) \in Nat
      /\ Len(slashLog') = Len(slashLog) + 1
      /\ \A i \in 1..Len(slashLog) : slashLog'[i] = slashLog[i]
      /\ slashLog'[Len(slashLog) + 1] = e
  BY <1>1, <1>2
<1> QED BY <1>3 DEF e

\* An event of resource r leaves the recorded authorizations of the others the
\* latest of their resource.
LEMMA OthersStayRecorded ==
  ASSUME VaultTypeOK, PendingRecorded,
         NEW kind \in {"authorized", "cancelled", "slashed"},
         NEW r \in ResourceIds, NEW amount \in Nat, Log(kind, r, amount),
         NEW q \in ResourceIds, q # r, pendingSlashes[q].amount # 0
  PROVE  \E i \in 1..Len(slashLog') : Records(slashLog', i, q, pendingSlashes[q])
<1>1. PICK i \in 1..Len(slashLog) : Records(slashLog, i, q, pendingSlashes[q])
  BY DEF PendingRecorded
<1>2. /\ Len(slashLog) \in Nat
      /\ Len(slashLog') = Len(slashLog) + 1
      /\ \A k \in 1..Len(slashLog) : slashLog'[k] = slashLog[k]
      /\ slashLog'[Len(slashLog) + 1].resourceId = r
  <2>1. /\ slashLog' \in Seq(SlashEvent)
        /\ Len(slashLog) \in Nat
        /\ Len(slashLog') = Len(slashLog) + 1
        /\ \A k \in 1..Len(slashLog) : slashLog'[k] = slashLog[k]
        /\ slashLog'[Len(slashLog) + 1] =
             [kind |-> kind, resourceId |-> r, amount |-> amount, at |-> now]
    BY LogAppends
  <2> QED BY <2>1
<1>3. QuietSince(slashLog', i, q)
  <2> SUFFICES ASSUME NEW k \in (i + 1)..Len(slashLog')
               PROVE  slashLog'[k].resourceId # q
    BY DEF QuietSince
  <2>1. CASE k = Len(slashLog) + 1
    BY <1>2, <2>1
  <2>2. CASE k # Len(slashLog) + 1
    <3>1. k \in (i + 1)..Len(slashLog)
      BY <1>2, <2>2
    <3> QED BY <1>1, <1>2, <3>1 DEF Records, QuietSince
  <2> QED BY <2>1, <2>2
<1>4. i \in 1..Len(slashLog') /\ slashLog'[i] = slashLog[i]
  BY <1>2
<1> QED BY <1>1, <1>3, <1>4 DEF Records

\* A new event that is no slash keeps the slashes of the log timelocked.
LEMMA OldSlashesStay ==
  ASSUME VaultTypeOK, SlashesTimelocked,
         NEW kind \in {"authorized", "cancelled", "slashed"},
         NEW r \in ResourceIds, NEW amount \in Nat, Log(kind, r, amount),
         NEW j \in 1..Len(slashLog), slashLog'[j].kind = "slashed"
  PROVE  \E i \in 1..(j - 1) :
           /\ slashLog'[i].kind = "authorized"
           /\ slashLog'[i].resourceId = slashLog'[j].resourceId
           /\ slashLog'[i].amount = slashLog'[j].amount
           /\ slashLog'[i].at + DisputeWindow <= slashLog'[j].at
           /\ \A k \in (i + 1)..(j - 1) :
                slashLog'[k].resourceId # slashLog'[j].resourceId
<1>1. /\ Len(slashLog) \in Nat
      /\ DOMAIN slashLog = 1..Len(slashLog)
      /\ \A k \in 1..Len(slashLog) : slashLog'[k] = slashLog[k]
  <2>1. /\ slashLog' \in Seq(SlashEvent)
        /\ Len(slashLog) \in Nat
        /\ Len(slashLog') = Len(slashLog) + 1
        /\ \A k \in 1..Len(slashLog) : slashLog'[k] = slashLog[k]
        /\ slashLog'[Len(slashLog) + 1] =
             [kind |-> kind, resourceId |-> r, amount |-> amount, at |-> now]
    BY LogAppends
  <2>2. DOMAIN slashLog = 1..Len(slashLog)
    BY DEF VaultTypeOK
  <2> QED BY <2>1, <2>2
<1>2. PICK i \in 1..(j - 1) :
        /\ slashLog[i].kind = "authorized"
        /\ slashLog[i].resourceId = slashLog[j].resourceId
        /\ slashLog[i].amount = slashLog[j].amount
        /\ slashLog[i].at + DisputeWindow <= slashLog[j].at
        /\ \A k \in (i + 1)..(j - 1) : slashLog[k].resourceId # slashLog[j].resourceId
  BY <1>1 DEF SlashesTimelocked
<1>3. i \in 1..Len(slashLog) /\ \A k \in (i + 1)..(j - 1) : k \in 1..Len(slashLog)
  BY <1>1, <1>2
<1>4. /\ slashLog'[i] = slashLog[i] /\ slashLog'[j] = slashLog[j]
      /\ \A k \in (i + 1)..(j - 1) : slashLog'[k] = slashLog[k]
  BY <1>1, <1>3
<1> QED BY <1>2, <1>4

-----------------------------------------------------------------------------
\* slash executes the recorded authorization and keeps the invariant.
LEMMA SlashPreserves ==
  ASSUME VaultInv, SlashCall
  PROVE  VaultInv'
<1>1. PICK s \in Accounts, r \in ResourceIds, x \in Amounts :
        Slash(s, r, x) /\ Log("slashed", r, x)
  BY DEF SlashCall
<1>2. x \in Nat /\ now' = now /\ now \in Nat
  BY VaultAssumption DEF SlashCall, VaultInv, VaultTypeOK, RegistryTypeOK
<1>3. /\ pendingSlashes[r].amount = x /\ x # 0
      /\ now >= pendingSlashes[r].executableAt
      /\ pendingSlashes' = [pendingSlashes EXCEPT ![r] = NoPendingSlash]
      /\ resources' = resources
      /\ x <= bonds[r]
      /\ bonds' = [bonds EXCEPT ![r] = @ - x]
      /\ insurancePoolBalance' = insurancePoolBalance + x
      /\ UNCHANGED <<bondOwner, bondedAt, cooldownEnds, usdcOf>>
  BY <1>1 DEF Slash, ConsumeSlashAuthorization
<1>4. VaultTypeOK /\ PendingRecorded /\ SlashesTimelocked
  BY DEF VaultInv
<1>5. /\ slashLog' \in Seq(SlashEvent)
      /\ Len(slashLog) \in Nat
      /\ Len(slashLog') = Len(slashLog) + 1
      /\ \A i \in 1..Len(slashLog) : slashLog'[i] = slashLog[i]
      /\ slashLog'[Len(slashLog) + 1] =
           [kind |-> "slashed", resourceId |-> r, amount |-> x, at |-> now]
  BY <1>1, <1>2, <1>4, LogAppends
<1>6. VaultTypeOK'
  <2>1. pendingSlashes' \in [ResourceIds -> PendingSlash]
    BY <1>3, <1>4 DEF VaultTypeOK, RegistryTypeOK, NoPendingSlash, PendingSlash
  <2>2. bonds' \in [ResourceIds -> Nat]
    BY <1>2, <1>3, <1>4 DEF VaultTypeOK
  <2>3. insurancePoolBalance' \in Nat
    BY <1>2, <1>3, <1>4 DEF VaultTypeOK
  <2> QED BY <1>2, <1>3, <1>4, <1>5, <2>1, <2>2, <2>3
          DEF VaultTypeOK, RegistryTypeOK
<1>7. PendingRecorded'
  <2> SUFFICES ASSUME NEW q \in ResourceIds, pendingSlashes'[q].amount # 0
               PROVE  \E i \in 1..Len(slashLog') :
                        Records(slashLog', i, q, pendingSlashes'[q])
    BY DEF PendingRecorded
  <2>1. q # r /\ pendingSlashes'[q] = pendingSlashes[q]
    BY <1>3, <1>4 DEF VaultTypeOK, RegistryTypeOK, NoPendingSlash
  <2> QED BY <1>1, <1>2, <1>4, <2>1, OthersStayRecorded
<1>8. SlashesTimelocked'
  <2> SUFFICES ASSUME NEW j \in DOMAIN slashLog', slashLog'[j].kind = "slashed"
               PROVE  \E i \in 1..(j - 1) :
                        /\ slashLog'[i].kind = "authorized"
                        /\ slashLog'[i].resourceId = slashLog'[j].resourceId
                        /\ slashLog'[i].amount = slashLog'[j].amount
                        /\ slashLog'[i].at + DisputeWindow <= slashLog'[j].at
                        /\ \A k \in (i + 1)..(j - 1) :
                             slashLog'[k].resourceId # slashLog'[j].resourceId
    BY DEF SlashesTimelocked
  <2>1. j \in 1..(Len(slashLog) + 1)
    BY <1>5
  <2>2. CASE j \in 1..Len(slashLog)
    BY <1>1, <1>2, <1>4, <2>2, OldSlashesStay
  <2>3. CASE j = Len(slashLog) + 1
    <3>1. PICK i \in 1..Len(slashLog) : Records(slashLog, i, r, pendingSlashes[r])
      BY <1>2, <1>3, <1>4 DEF PendingRecorded
    <3>2. /\ slashLog'[i] = slashLog[i]
          /\ \A k \in (i + 1)..Len(slashLog) : slashLog'[k] = slashLog[k]
          /\ j - 1 = Len(slashLog)
      BY <1>5, <2>3, <3>1
    <3>3. slashLog[i].at + DisputeWindow <= now
      BY <1>3, <3>1 DEF Records
    <3> QED BY <1>3, <1>5, <2>3, <3>1, <3>2, <3>3 DEF Records, QuietSince
  <2> QED BY <1>5, <2>1, <2>2, <2>3
<1>9. DepositsPast' /\ CooldownCoversDeposit'
  BY <1>2, <1>3 DEF VaultInv, DepositsPast, CooldownCoversDeposit
<1> QED BY <1>6, <1>7, <1>8, <1>9 DEF VaultInv
-----------------------------------------------------------------------------
\* authorize makes the new event the latest of its resource; cancel forgets the
\* authorization it logs.
LEMMA RegistrySlashPreserves ==
  ASSUME VaultInv, RegistrySlashCall
  PROVE  VaultInv'
<1>1. /\ now' = now /\ now \in Nat
      /\ UNCHANGED <<bonds, bondOwner, cooldownEnds, bondedAt,
                     insurancePoolBalance, usdcOf>>
  BY DEF RegistrySlashCall, bondVars, VaultInv, VaultTypeOK, RegistryTypeOK
<1>2. VaultTypeOK /\ PendingRecorded /\ SlashesTimelocked
  BY DEF VaultInv
<1>3. PICK s \in Accounts, r \in ResourceIds :
        \/ \E x \in Amounts : SlashAuthorization(s, r, x) /\ Log("authorized", r, x)
        \/ /\ CancelSlashAuthorization(s, r)
           /\ Log("cancelled", r, pendingSlashes[r].amount)
  BY DEF RegistrySlashCall
<1>4. PICK kind \in {"authorized", "cancelled"}, x \in Nat :
        /\ Log(kind, r, x)
        /\ resources' = resources
        /\ pendingSlashes' = [pendingSlashes EXCEPT ![r] =
              IF kind = "authorized"
                THEN [amount |-> x, executableAt |-> now + DisputeWindow]
                ELSE NoPendingSlash]
  <2>1. CASE \E x \in Amounts : SlashAuthorization(s, r, x) /\ Log("authorized", r, x)
    <3>1. PICK x \in Amounts : SlashAuthorization(s, r, x) /\ Log("authorized", r, x)
      BY <2>1
    <3> QED BY <3>1, VaultAssumption DEF SlashAuthorization
  <2>2. CASE /\ CancelSlashAuthorization(s, r)
             /\ Log("cancelled", r, pendingSlashes[r].amount)
    <3>1. pendingSlashes[r].amount \in Nat
      BY <1>2 DEF VaultTypeOK, RegistryTypeOK, PendingSlash
    <3> QED BY <2>2, <3>1 DEF CancelSlashAuthorization
  <2> QED BY <1>3, <2>1, <2>2
<1>5. /\ slashLog' \in Seq(SlashEvent)
      /\ Len(slashLog) \in Nat
      /\ Len(slashLog') = Len(slashLog) + 1
      /\ \A i \in 1..Len(slashLog) : slashLog'[i] = slashLog[i]
      /\ slashLog'[Len(slashLog) + 1] =
           [kind |-> kind, resourceId |-> r, amount |-> x, at |-> now]
  BY <1>2, <1>4, LogAppends
<1>6. VaultTypeOK'
  <2>1. pendingSlashes' \in [ResourceIds -> PendingSlash]
    BY <1>1, <1>2, <1>4, RegistryAssumption
       DEF VaultTypeOK, RegistryTypeOK, NoPendingSlash, PendingSlash
  <2> QED BY <1>1, <1>2, <1>4, <1>5, <2>1 DEF VaultTypeOK, RegistryTypeOK
<1>7. PendingRecorded'
  <2> SUFFICES ASSUME NEW q \in ResourceIds, pendingSlashes'[q].amount # 0
               PROVE  \E i \in 1..Len(slashLog') :
                        Records(slashLog', i, q, pendingSlashes'[q])
    BY DEF PendingRecorded
  <2>1. CASE q # r
    <3>1. pendingSlashes'[q] = pendingSlashes[q]
      BY <1>2, <1>4, <2>1 DEF VaultTypeOK, RegistryTypeOK
    <3> QED BY <1>2, <1>4, <2>1, <3>1, OthersStayRecorded
  <2>2. CASE q = r
    <3>1. /\ kind = "authorized"
          /\ pendingSlashes'[q] = [amount |-> x, executableAt |-> now + DisputeWindow]
      BY <1>2, <1>4, <2>2 DEF VaultTypeOK, RegistryTypeOK, NoPendingSlash
    <3> DEFINE i == Len(slashLog) + 1
    <3>2. i \in 1..Len(slashLog') /\ QuietSince(slashLog', i, q)
      BY <1>5 DEF QuietSince
    <3>3. Records(slashLog', i, q, pendingSlashes'[q])
      BY <1>5, <2>2, <3>1, <3>2 DEF Records
    <3> QED BY <3>2, <3>3
  <2> QED BY <2>1, <2>2
<1>8. SlashesTimelocked'
  <2> SUFFICES ASSUME NEW j \in DOMAIN slashLog', slashLog'[j].kind = "slashed"
               PROVE  \E i \in 1..(j - 1) :
                        /\ slashLog'[i].kind = "authorized"
                        /\ slashLog'[i].resourceId = slashLog'[j].resourceId
                        /\ slashLog'[i].amount = slashLog'[j].amount
                        /\ slashLog'[i].at + DisputeWindow <= slashLog'[j].at
                        /\ \A k \in (i + 1)..(j - 1) :
                             slashLog'[k].resourceId # slashLog'[j].resourceId
    BY DEF SlashesTimelocked
  <2>1. j \in 1..Len(slashLog)
    BY <1>5
  <2> QED BY <1>2, <1>4, <2>1, OldSlashesStay
<1>9. DepositsPast' /\ CooldownCoversDeposit'
  BY <1>1 DEF VaultInv, DepositsPast, CooldownCoversDeposit
<1> QED BY <1>6, <1>7, <1>8, <1>9 DEF VaultInv

\* What the steps that leave registry, time and log alone need not re-establish.
LEMMA SlashesUntouched ==
  ASSUME VaultInv, UNCHANGED <<pendingSlashes, slashLog>>
  PROVE  PendingRecorded' /\ SlashesTimelocked' /\ slashLog' \in Seq(SlashEvent)
BY DEF VaultInv, VaultTypeOK, PendingRecorded, SlashesTimelocked

\* The calls on bonds: a deposit moves the deposit time and drops the cooldown,
\* a request sets the cooldown after every earlier deposit.
LEMMA BondCallPreserves ==
  ASSUME VaultInv, BondCall
  PROVE  VaultInv'
<1>1. /\ UNCHANGED <<resources, pendingSlashes, now, slashLog>>
      /\ VaultTypeOK /\ RegistryTypeOK' /\ now \in Nat
  BY DEF BondCall, registryVars, VaultInv, VaultTypeOK, RegistryTypeOK
<1>2. PendingRecorded' /\ SlashesTimelocked' /\ slashLog' \in Seq(SlashEvent)
  BY <1>1, SlashesUntouched
<1>3. SUFFICES
        /\ bonds' \in [ResourceIds -> Nat]
        /\ bondOwner' \in [ResourceIds -> Addresses]
        /\ cooldownEnds' \in [ResourceIds -> Nat]
        /\ bondedAt' \in [ResourceIds -> Nat]
        /\ insurancePoolBalance' \in Nat
        /\ usdcOf' \in [Accounts \cup {Vault} -> Nat]
        /\ DepositsPast' /\ CooldownCoversDeposit'
  BY <1>1, <1>2 DEF VaultInv, VaultTypeOK
<1>4. PICK s \in Accounts :
        \/ \E r \in ResourceIds :
             \/ \E x \in Amounts : BondDeposit(s, r, x)
             \/ RequestWithdraw(s, r)
             \/ WithdrawBond(s, r)
        \/ \E p \in Accounts, x \in Amounts : Refund(s, p, x)
  BY DEF BondCall
<1>5. ASSUME NEW r \in ResourceIds, NEW x \in Amounts, BondDeposit(s, r, x)
      PROVE  <1>3!1
  <2>1. /\ x \in Nat /\ s # Vault /\ s \in Addresses /\ usdcOf[s] >= x
        /\ usdcOf' = [usdcOf EXCEPT ![s] = @ - x, ![Vault] = @ + x]
        /\ bonds' = [bonds EXCEPT ![r] = @ + x]
        /\ bondOwner' = [bondOwner EXCEPT ![r] = s]
        /\ bondedAt' = [bondedAt EXCEPT ![r] = now]
        /\ cooldownEnds' = [cooldownEnds EXCEPT ![r] = 0]
        /\ insurancePoolBalance' = insurancePoolBalance
    BY <1>5, VaultAssumption DEF BondDeposit, Addresses
  <2>2. usdcOf' \in [Accounts \cup {Vault} -> Nat]
    BY <1>1, <2>1 DEF VaultTypeOK
  <2>3. /\ bonds' \in [ResourceIds -> Nat]
        /\ bondOwner' \in [ResourceIds -> Addresses]
        /\ cooldownEnds' \in [ResourceIds -> Nat]
        /\ bondedAt' \in [ResourceIds -> Nat]
        /\ insurancePoolBalance' \in Nat
    BY <1>1, <2>1 DEF VaultTypeOK
  <2>4. DepositsPast'
    BY <1>1, <2>1 DEF VaultInv, VaultTypeOK, DepositsPast
  <2>5. CooldownCoversDeposit'
    BY <1>1, <2>1 DEF VaultInv, VaultTypeOK, CooldownCoversDeposit
  <2> QED BY <2>2, <2>3, <2>4, <2>5
<1>6. ASSUME NEW r \in ResourceIds, RequestWithdraw(s, r)
      PROVE  <1>3!1
  <2>1. /\ cooldownEnds' = [cooldownEnds EXCEPT ![r] = now + Cooldown]
        /\ UNCHANGED <<bonds, bondOwner, bondedAt, insurancePoolBalance, usdcOf>>
        /\ Cooldown \in Nat
    BY <1>6, VaultAssumption DEF RequestWithdraw
  <2>2. cooldownEnds' \in [ResourceIds -> Nat]
    BY <1>1, <2>1 DEF VaultTypeOK
  <2>3. DepositsPast'
    BY <1>1, <2>1 DEF VaultInv, DepositsPast
  <2>4. CooldownCoversDeposit'
    BY <1>1, <2>1 DEF VaultInv, VaultTypeOK, DepositsPast, CooldownCoversDeposit
  <2> QED BY <1>1, <2>1, <2>2, <2>3, <2>4 DEF VaultTypeOK
<1>7. ASSUME NEW r \in ResourceIds, WithdrawBond(s, r)
      PROVE  <1>3!1
  <2>1. /\ s # Vault /\ usdcOf[Vault] >= bonds[r]
        /\ usdcOf' = [usdcOf EXCEPT ![Vault] = @ - bonds[r], ![s] = @ + bonds[r]]
        /\ bonds' = [bonds EXCEPT ![r] = 0]
        /\ cooldownEnds' = [cooldownEnds EXCEPT ![r] = 0]
        /\ UNCHANGED <<bondOwner, bondedAt, insurancePoolBalance>>
    BY <1>7, VaultAssumption DEF WithdrawBond
  <2>2. usdcOf' \in [Accounts \cup {Vault} -> Nat]
    BY <1>1, <2>1 DEF VaultTypeOK
  <2>3. /\ bonds' \in [ResourceIds -> Nat]
        /\ cooldownEnds' \in [ResourceIds -> Nat]
    BY <1>1, <2>1 DEF VaultTypeOK
  <2>4. DepositsPast' /\ CooldownCoversDeposit'
    BY <1>1, <2>1 DEF VaultInv, VaultTypeOK, DepositsPast, CooldownCoversDeposit
  <2> QED BY <1>1, <2>1, <2>2, <2>3, <2>4 DEF VaultTypeOK
<1>8. ASSUME NEW p \in Accounts, NEW x \in Amounts, Refund(s, p, x)
      PROVE  <1>3!1
  <2>1. /\ x \in Nat /\ p # Vault
        /\ x <= insurancePoolBalance /\ usdcOf[Vault] >= x
        /\ insurancePoolBalance' = insurancePoolBalance - x
        /\ usdcOf' = [usdcOf EXCEPT ![Vault] = @ - x, ![p] = @ + x]
        /\ UNCHANGED <<bonds, bondOwner, bondedAt, cooldownEnds>>
    BY <1>8, VaultAssumption DEF Refund
  <2>2. usdcOf' \in [Accounts \cup {Vault} -> Nat]
    BY <1>1, <2>1 DEF VaultTypeOK
  <2>3. insurancePoolBalance' \in Nat
    BY <1>1, <2>1 DEF VaultTypeOK
  <2>4. DepositsPast' /\ CooldownCoversDeposit'
    BY <1>1, <2>1 DEF VaultInv, DepositsPast, CooldownCoversDeposit
  <2> QED BY <1>1, <2>1, <2>2, <2>3, <2>4 DEF VaultTypeOK
<1> QED BY <1>4, <1>5, <1>6, <1>7, <1>8

\* Registration and the bond mirror touch only the registry's resources.
LEMMA SetupPreserves ==
  ASSUME VaultInv, RegistrySetup
  PROVE  VaultInv'
<1>1. PICK s \in Accounts, r \in ResourceIds :
        \/ \E c \in Accounts : Register(s, r, c, c, BPS_DENOMINATOR)
        \/ \E x \in Amounts : SetBond(s, r, x)
  BY DEF RegistrySetup
<1>2. /\ UNCHANGED <<now, bonds, bondOwner, cooldownEnds, bondedAt,
                     insurancePoolBalance, usdcOf, slashLog, pendingSlashes>>
      /\ VaultTypeOK
  BY <1>1 DEF RegistrySetup, bondVars, Register, SetBond, VaultInv
<1>3. resources' \in [ResourceIds -> Resource]
  <2>1. CASE \E c \in Accounts : Register(s, r, c, c, BPS_DENOMINATOR)
    <3>1. PICK c \in Accounts : Register(s, r, c, c, BPS_DENOMINATOR)
      BY <2>1
    <3>2. [creator |-> c, treasury |-> c, creatorBps |-> BPS_DENOMINATOR,
           active |-> TRUE, bond |-> 0, exists |-> TRUE] \in Resource
      BY DEF Resource, Addresses, BPS_DENOMINATOR
    <3> QED BY <1>2, <3>1, <3>2 DEF Register, VaultTypeOK, RegistryTypeOK
  <2>2. CASE \E x \in Amounts : SetBond(s, r, x)
    <3>1. PICK x \in Nat : SetBond(s, r, x)
      BY <2>2, VaultAssumption
    <3> QED BY <1>2, <3>1 DEF SetBond, VaultTypeOK, RegistryTypeOK, Resource
  <2> QED BY <1>1, <2>1, <2>2
<1>4. PendingRecorded' /\ SlashesTimelocked'
  BY <1>2, SlashesUntouched
<1>5. VaultTypeOK'
  BY <1>2, <1>3 DEF VaultTypeOK, RegistryTypeOK
<1>6. DepositsPast' /\ CooldownCoversDeposit'
  BY <1>2 DEF VaultInv, DepositsPast, CooldownCoversDeposit
<1> QED BY <1>4, <1>5, <1>6 DEF VaultInv

\* Every step of the vault and its registry keeps the invariant.
LEMMA VaultStep == VaultInv /\ [VaultNext]_vaultVars => VaultInv'
<1> SUFFICES ASSUME VaultInv, [VaultNext]_vaultVars PROVE VaultInv'
  OBVIOUS
<1>1. CASE BondCall
  BY <1>1, BondCallPreserves
<1>2. CASE SlashCall
  BY <1>2, SlashPreserves
<1>3. CASE RegistrySlashCall
  BY <1>3, RegistrySlashPreserves
<1>4. CASE RegistrySetup
  BY <1>4, SetupPreserves
<1>5. CASE VaultTime
  <2>1. /\ now' = now + 1
        /\ UNCHANGED <<resources, pendingSlashes, bonds, bondOwner, cooldownEnds,
                       bondedAt, insurancePoolBalance, usdcOf, slashLog>>
    BY <1>5 DEF VaultTime, Tick, registryVars, bondVars
  <2>2. PendingRecorded' /\ SlashesTimelocked'
    BY <2>1, SlashesUntouched
  <2>3. VaultTypeOK'
    BY <2>1 DEF VaultInv, VaultTypeOK, RegistryTypeOK
  <2>4. DepositsPast' /\ CooldownCoversDeposit'
    BY <2>1 DEF VaultInv, VaultTypeOK, RegistryTypeOK, DepositsPast,
                CooldownCoversDeposit
  <2> QED BY <2>2, <2>3, <2>4 DEF VaultInv
<1>6. CASE UNCHANGED vaultVars
  <2>1. UNCHANGED <<resources, pendingSlashes, now, bonds, bondOwner, cooldownEnds,
                    bondedAt, insurancePoolBalance, usdcOf, slashLog>>
    BY <1>6 DEF vaultVars, registryVars, bondVars
  <2>2. PendingRecorded' /\ SlashesTimelocked'
    BY <2>1, SlashesUntouched
  <2>3. VaultTypeOK' /\ DepositsPast' /\ CooldownCoversDeposit'
    BY <2>1 DEF VaultInv, VaultTypeOK, RegistryTypeOK, DepositsPast,
                CooldownCoversDeposit
  <2> QED BY <2>2, <2>3 DEF VaultInv
<1> QED BY <1>1, <1>2, <1>3, <1>4, <1>5, <1>6 DEF VaultNext

\* The invariant holds in every reachable state.
THEOREM VaultInvariant == VaultSpec => []VaultInv
<1>1. VaultInit => VaultInv
  BY VaultStart
<1>2. VaultInv /\ [VaultNext]_vaultVars => VaultInv'
  BY VaultStep
<1> QED BY <1>1, <1>2, PTL DEF VaultSpec

\* No mapping of the vault ever leaves its Solidity range: no subtraction of
\* deposit, slash, withdraw or refund goes below zero.
THEOREM VaultTypesHold == VaultSpec => []VaultTypeOK
<1>1. VaultInv => VaultTypeOK
  BY DEF VaultInv
<1> QED BY <1>1, VaultInvariant, PTL

\* slash executes only an authorization that waited out the dispute window and
\* was neither cancelled, overwritten nor executed in between.
THEOREM SlashesAreTimelocked == VaultSpec => []SlashesTimelocked
<1>1. VaultInv => SlashesTimelocked
  BY DEF VaultInv
<1> QED BY <1>1, VaultInvariant, PTL

\* deposit and requestWithdraw together expose every deposit to slashing for a
\* full cooldown.
THEOREM CooldownCovers == VaultSpec => []CooldownCoversDeposit
<1>1. VaultInv => CooldownCoversDeposit
  BY DEF VaultInv
<1> QED BY <1>1, VaultInvariant, PTL

-----------------------------------------------------------------------------
\* What BondsAreSafe says of one step.
BondSafeStep ==
  \A r \in ResourceIds :
    /\ bondOwner[r] # ZeroAddress => bondOwner'[r] = bondOwner[r]
    /\ bonds'[r] < bonds[r] =>
         \/ insurancePoolBalance' - insurancePoolBalance = bonds[r] - bonds'[r]
         \/ /\ usdcOf'[bondOwner[r]] - usdcOf[bondOwner[r]] = bonds[r] - bonds'[r]
            /\ now >= bondedAt[r] + Cooldown

\* Only slash and withdraw lower a bond: the one into the pool, the other to the
\* owner after the cooldown.
LEMMA BondStep == VaultInv /\ [VaultNext]_vaultVars => BondSafeStep \/ UNCHANGED vaultVars
<1> SUFFICES ASSUME VaultInv, VaultNext PROVE BondSafeStep
  OBVIOUS
<1>1. VaultTypeOK /\ CooldownCoversDeposit
  BY DEF VaultInv
<1>2. CASE BondCall
  <2>1. PICK s \in Accounts :
          \/ \E r \in ResourceIds :
               \/ \E x \in Amounts : BondDeposit(s, r, x)
               \/ RequestWithdraw(s, r)
               \/ WithdrawBond(s, r)
          \/ \E p \in Accounts, x \in Amounts : Refund(s, p, x)
    BY <1>2 DEF BondCall
  <2>2. ASSUME NEW q \in ResourceIds, NEW x \in Amounts, BondDeposit(s, q, x)
        PROVE  BondSafeStep
    <3>1. /\ x \in Nat
          /\ bondOwner[q] \in {ZeroAddress, s}
          /\ bonds' = [bonds EXCEPT ![q] = @ + x]
          /\ bondOwner' = [bondOwner EXCEPT ![q] = s]
      BY <2>2, VaultAssumption DEF BondDeposit
    <3>2. bonds \in [ResourceIds -> Nat] /\ bondOwner \in [ResourceIds -> Addresses]
      BY <1>1 DEF VaultTypeOK
    <3> QED BY <3>1, <3>2 DEF BondSafeStep
  <2>3. ASSUME NEW q \in ResourceIds, RequestWithdraw(s, q)
        PROVE  BondSafeStep
    BY <1>1, <2>3 DEF RequestWithdraw, BondSafeStep, VaultTypeOK
  <2>4. ASSUME NEW q \in ResourceIds, WithdrawBond(s, q)
        PROVE  BondSafeStep
    <3>1. /\ s = bondOwner[q] /\ s # Vault
          /\ cooldownEnds[q] # 0 /\ now >= cooldownEnds[q]
          /\ usdcOf' = [usdcOf EXCEPT ![Vault] = @ - bonds[q], ![s] = @ + bonds[q]]
          /\ bonds' = [bonds EXCEPT ![q] = 0]
          /\ bondOwner' = bondOwner
      BY <2>4, VaultAssumption DEF WithdrawBond
    <3>2. /\ bonds \in [ResourceIds -> Nat] /\ usdcOf \in [Accounts \cup {Vault} -> Nat]
          /\ bondedAt \in [ResourceIds -> Nat] /\ cooldownEnds \in [ResourceIds -> Nat]
          /\ now \in Nat /\ Cooldown \in Nat
      BY <1>1, VaultAssumption DEF VaultTypeOK, RegistryTypeOK
    <3>3. now >= bondedAt[q] + Cooldown
      BY <1>1, <3>1, <3>2 DEF CooldownCoversDeposit
    <3>4. usdcOf'[s] - usdcOf[s] = bonds[q] - bonds'[q]
      BY <3>1, <3>2
    <3>5. \A r \in ResourceIds : r # q => bonds'[r] = bonds[r]
      BY <3>1, <3>2
    <3> QED BY <3>1, <3>2, <3>3, <3>4, <3>5 DEF BondSafeStep
  <2>5. ASSUME NEW p \in Accounts, NEW x \in Amounts, Refund(s, p, x)
        PROVE  BondSafeStep
    BY <1>1, <2>5 DEF Refund, BondSafeStep, VaultTypeOK
  <2> QED BY <2>1, <2>2, <2>3, <2>4, <2>5
<1>3. CASE SlashCall
  <2>1. PICK s \in Accounts, q \in ResourceIds, x \in Amounts : Slash(s, q, x)
    BY <1>3 DEF SlashCall
  <2>2. /\ x \in Nat /\ x <= bonds[q]
        /\ bonds' = [bonds EXCEPT ![q] = @ - x]
        /\ insurancePoolBalance' = insurancePoolBalance + x
        /\ bondOwner' = bondOwner
        /\ bonds \in [ResourceIds -> Nat] /\ insurancePoolBalance \in Nat
    BY <1>1, <2>1, VaultAssumption DEF Slash, VaultTypeOK
  <2>3. \A r \in ResourceIds : r # q => bonds'[r] = bonds[r]
    BY <2>2
  <2>4. insurancePoolBalance' - insurancePoolBalance = bonds[q] - bonds'[q]
    BY <2>2
  <2> QED BY <2>2, <2>3, <2>4 DEF BondSafeStep
<1>4. CASE RegistrySlashCall \/ RegistrySetup \/ VaultTime
  <2>1. UNCHANGED <<bonds, bondOwner>>
    BY <1>4 DEF RegistrySlashCall, RegistrySetup, VaultTime, bondVars
  <2> QED BY <1>1, <2>1 DEF BondSafeStep, VaultTypeOK
<1> QED BY <1>2, <1>3, <1>4 DEF VaultNext

\* A bond falls only into the insurance pool by slash, or to its owner by
\* withdraw once the cooldown after the latest deposit is over; deposit never
\* hands a bond to another owner.
THEOREM BondsStaySafe == VaultSpec => BondsAreSafe
<1>1. VaultInv /\ [VaultNext]_vaultVars => BondSafeStep \/ UNCHANGED vaultVars
  BY BondStep
<1>2. BondsAreSafe <=> [][BondSafeStep]_vaultVars
  BY DEF BondsAreSafe, BondSafeStep
<1>3. VaultSpec => [][BondSafeStep]_vaultVars
  BY <1>1, VaultInvariant, PTL DEF VaultSpec
<1> QED BY <1>2, <1>3

-----------------------------------------------------------------------------
(***************************************************************************)
(* Custody: the vault's tokens are the bonds and the pool.                 *)
(***************************************************************************)
\* What Custody adds up, without the fold.
BondSum(b) == SumOver(b, ResourceIds)

LEMMA BondsAdd ==
  ASSUME NEW b, b \in [ResourceIds -> Nat]
  PROVE  FoldFunction(+, 0, b) = BondSum(b)
BY FoldIsSum DEF BondSum

LEMMA BondSumInt ==
  ASSUME NEW b, b \in [ResourceIds -> Nat]
  PROVE  BondSum(b) \in Int
BY RegistryAssumption, SumInt DEF BondSum

\* One bond that changes changes the sum by as much.
LEMMA OneBond ==
  ASSUME NEW b, b \in [ResourceIds -> Nat], NEW c, c \in [ResourceIds -> Nat],
         NEW r \in ResourceIds, NEW v,
         \A q \in ResourceIds : q # r => c[q] = b[q],
         c[r] - b[r] = v
  PROVE  BondSum(c) = BondSum(b) + v
<1>1. \A q \in ResourceIds : b[q] \in Int /\ c[q] \in Int
  OBVIOUS
<1>2. \A q \in ResourceIds : q # r => b[q] = c[q]
  OBVIOUS
<1>3. SumOver(c, ResourceIds) = SumOver(b, ResourceIds) + v
  BY <1>1, <1>2, RegistryAssumption, SumShift
<1> QED BY <1>3 DEF BondSum

\* Custody, with the sum in place of the fold.
Held == usdcOf[Vault] = insurancePoolBalance + BondSum(bonds)

\* A deposit and a withdraw move the vault's tokens with a bond, a refund with
\* the pool; a slash moves them from a bond to the pool.
LEMMA HeldStep ==
  ASSUME VaultInv, Held, [VaultNext]_vaultVars
  PROVE  Held'
<1>1. /\ bonds \in [ResourceIds -> Nat] /\ insurancePoolBalance \in Nat
      /\ usdcOf \in [Accounts \cup {Vault} -> Nat]
      /\ bonds' \in [ResourceIds -> Nat]
  BY VaultStep DEF VaultInv, VaultTypeOK
<1>2. BondSum(bonds) \in Int
  BY <1>1, BondSumInt
<1>3. \A s \in Accounts : s # Vault
  BY VaultAssumption
<1>4. ASSUME NEW s \in Accounts, NEW r \in ResourceIds, NEW x \in Amounts,
             BondDeposit(s, r, x)
      PROVE  Held'
  <2>1. /\ x \in Nat /\ insurancePoolBalance' = insurancePoolBalance
        /\ usdcOf'[Vault] = usdcOf[Vault] + x
        /\ \A q \in ResourceIds : q # r => bonds'[q] = bonds[q]
        /\ bonds'[r] - bonds[r] = x
    BY <1>1, <1>3, <1>4, VaultAssumption DEF BondDeposit
  <2>2. BondSum(bonds') = BondSum(bonds) + x
    BY <1>1, <2>1, OneBond
  <2> QED BY <1>1, <1>2, <2>1, <2>2 DEF Held
<1>5. ASSUME NEW s \in Accounts, NEW r \in ResourceIds, WithdrawBond(s, r)
      PROVE  Held'
  <2>1. /\ insurancePoolBalance' = insurancePoolBalance
        /\ usdcOf'[Vault] = usdcOf[Vault] - bonds[r]
        /\ \A q \in ResourceIds : q # r => bonds'[q] = bonds[q]
        /\ bonds'[r] - bonds[r] = 0 - bonds[r]
        /\ bonds[r] \in Nat
    BY <1>1, <1>3, <1>5 DEF WithdrawBond
  <2>2. BondSum(bonds') = BondSum(bonds) + (0 - bonds[r])
    BY <1>1, <2>1, OneBond
  <2> QED BY <1>1, <1>2, <2>1, <2>2 DEF Held
<1>6. ASSUME NEW s \in Accounts, NEW p \in Accounts, NEW x \in Amounts, Refund(s, p, x)
      PROVE  Held'
  <2>1. /\ x \in Nat /\ bonds' = bonds
        /\ insurancePoolBalance' = insurancePoolBalance - x
        /\ usdcOf'[Vault] = usdcOf[Vault] - x
    BY <1>1, <1>3, <1>6, VaultAssumption DEF Refund
  <2> QED BY <1>1, <1>2, <2>1 DEF Held
<1>7. ASSUME NEW s \in Accounts, NEW r \in ResourceIds, NEW x \in Amounts, Slash(s, r, x)
      PROVE  Held'
  <2>1. /\ x \in Nat /\ insurancePoolBalance' = insurancePoolBalance + x
        /\ usdcOf' = usdcOf
        /\ \A q \in ResourceIds : q # r => bonds'[q] = bonds[q]
        /\ bonds'[r] - bonds[r] = 0 - x
    BY <1>1, <1>7, VaultAssumption DEF Slash
  <2>2. BondSum(bonds') = BondSum(bonds) + (0 - x)
    BY <1>1, <2>1, OneBond
  <2> QED BY <1>1, <1>2, <2>1, <2>2 DEF Held
<1>8. ASSUME UNCHANGED <<bonds, insurancePoolBalance, usdcOf>>
      PROVE  Held'
  BY <1>8 DEF Held
<1>9. CASE BondCall
  <2>1. ASSUME NEW s \in Accounts, NEW r \in ResourceIds, RequestWithdraw(s, r)
        PROVE  Held'
    BY <1>8, <2>1 DEF RequestWithdraw
  <2> QED BY <1>4, <1>5, <1>6, <1>9, <2>1 DEF BondCall
<1>10. CASE SlashCall
  BY <1>7, <1>10 DEF SlashCall
<1>11. CASE RegistrySlashCall \/ RegistrySetup \/ VaultTime \/ UNCHANGED vaultVars
  BY <1>8, <1>11 DEF RegistrySlashCall, RegistrySetup, VaultTime, vaultVars, bondVars
<1> QED BY <1>9, <1>10, <1>11 DEF VaultNext

\* The empty vault owes nothing.
LEMMA HeldStart == VaultInit => Held
<1> SUFFICES ASSUME VaultInit PROVE Held
  OBVIOUS
<1>1. /\ usdcOf[Vault] = 0 /\ insurancePoolBalance = 0
      /\ \A r \in ResourceIds : bonds[r] = 0
  BY DEF VaultInit
<1>2. SumOver(bonds, ResourceIds) = 0
  BY <1>1, RegistryAssumption, SumZero
<1> QED BY <1>1, <1>2 DEF Held, BondSum

\* The vault holds exactly the bonds and the insurance pool, however deposits,
\* slashes, withdraws and refunds follow each other: no refund is ever paid out
\* of a bond, and a slashed bond is not lost.
THEOREM VaultKeepsCustody == VaultSpec => []Custody
<1>1. VaultInv /\ Held /\ [VaultNext]_vaultVars => Held'
  BY HeldStep
<1>2. VaultSpec => []Held
  BY <1>1, HeldStart, VaultInvariant, PTL DEF VaultSpec
<1>3. VaultInv /\ Held => Custody
  <2> SUFFICES ASSUME VaultInv, Held PROVE Custody
    OBVIOUS
  <2>1. bonds \in [ResourceIds -> Nat]
    BY DEF VaultInv, VaultTypeOK
  <2>2. FoldFunction(+, 0, bonds) = BondSum(bonds)
    BY <2>1, BondsAdd
  <2> QED BY <2>2, Zenon DEF Custody, Held
<1> QED BY <1>2, <1>3, VaultInvariant, PTL
=============================================================================
