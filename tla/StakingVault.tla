---------------------------- MODULE StakingVault ----------------------------
(***************************************************************************)
(* The StakingVault contract over the ResourceRegistry it consumes slash   *)
(* authorizations from: creators' bonds, the withdraw cooldown, slashing   *)
(* into the insurance pool, and refunds out of it.                         *)
(*                                                                         *)
(* slashLog is the sequence of the events SlashAuthorized,                 *)
(* SlashAuthorizationCancelled (registry) and Slashed (vault), each with   *)
(* the block time it carries; bondedAt is the block time of a resource's   *)
(* latest BondDeposited event.                                             *)
(***************************************************************************)
EXTENDS ResourceRegistry, Sequences, Functions

CONSTANTS Vault,            \* address(this)
          VaultSlashers,    \* holders of the vault's own SLASHER_ROLE
          TreasuryAdmins,   \* holders of TREASURY_ADMIN_ROLE
          Cooldown,         \* COOLDOWN, in clock ticks
          MinBond,          \* MIN_BOND_BASE_UNITS
          Amounts,          \* amounts a caller may pass
          MaxLog,           \* bound on slashLog when an authorization is recorded
          Supply            \* accounts -> USDC held at the start

ASSUME VaultAssumption ==
  /\ Vault \notin Accounts
  /\ VaultRole = Vault
  /\ VaultSlashers \subseteq Accounts
  /\ TreasuryAdmins \subseteq Accounts
  /\ Cooldown \in Nat \ {0}
  /\ MinBond \in Nat
  /\ Amounts \subseteq Nat
  /\ MaxLog \in Nat
  /\ Supply \in [Accounts -> Nat]

VARIABLES bonds,            \* resourceId -> bond
          bondOwner,        \* resourceId -> who may withdraw it
          cooldownEnds,     \* resourceId -> end of the cooldown, 0 if none
          bondedAt,         \* resourceId -> time of the latest deposit
          insurancePoolBalance,
          usdcOf,           \* token balances, the vault's own included
          slashLog

bondVars  == <<bonds, bondOwner, cooldownEnds, bondedAt, insurancePoolBalance, usdcOf>>
vaultVars == <<registryVars, now, bondVars, slashLog>>

SlashEvent == [kind : {"authorized", "cancelled", "slashed"},
               resourceId : ResourceIds, amount : Nat, at : Nat]

VaultInit ==
  /\ RegistryInit
  /\ bonds = [r \in ResourceIds |-> 0]
  /\ bondOwner = [r \in ResourceIds |-> ZeroAddress]
  /\ cooldownEnds = [r \in ResourceIds |-> 0]
  /\ bondedAt = [r \in ResourceIds |-> 0]
  /\ insurancePoolBalance = 0
  /\ usdcOf = [a \in Accounts \cup {Vault} |->
                 IF a = Vault THEN 0 ELSE Supply[a]]
  /\ slashLog = <<>>

-----------------------------------------------------------------------------
\* The first depositor owns the bond; a deposit forgets a requested withdraw.
BondDepositKeepsRequest(sender, r, amount) ==
  /\ amount # 0
  /\ bondOwner[r] \in {ZeroAddress, sender}
  /\ usdcOf[sender] >= amount
  /\ bonds[r] + amount >= MinBond
  /\ usdcOf' = [usdcOf EXCEPT ![sender] = @ - amount, ![Vault] = @ + amount]
  /\ bonds' = [bonds EXCEPT ![r] = @ + amount]
  /\ bondOwner' = [bondOwner EXCEPT ![r] = sender]
  /\ bondedAt' = [bondedAt EXCEPT ![r] = now]
  /\ UNCHANGED <<cooldownEnds, insurancePoolBalance>>

BondDeposit(sender, r, amount) ==
  /\ amount # 0
  /\ bondOwner[r] \in {ZeroAddress, sender}
  /\ usdcOf[sender] >= amount
  /\ bonds[r] + amount >= MinBond
  /\ usdcOf' = [usdcOf EXCEPT ![sender] = @ - amount, ![Vault] = @ + amount]
  /\ bonds' = [bonds EXCEPT ![r] = @ + amount]
  /\ bondOwner' = [bondOwner EXCEPT ![r] = sender]
  /\ bondedAt' = [bondedAt EXCEPT ![r] = now]
  /\ cooldownEnds' = [cooldownEnds EXCEPT ![r] = 0]
  /\ UNCHANGED insurancePoolBalance

SlashUncapped(sender, r, amount) ==
  /\ sender \in VaultSlashers
  /\ ConsumeSlashAuthorization(Vault, r, amount)
  /\ bonds' = [bonds EXCEPT ![r] = IF @ > amount THEN @ - amount ELSE 0]
  /\ insurancePoolBalance' = insurancePoolBalance + amount
  /\ UNCHANGED <<bondOwner, bondedAt, cooldownEnds, usdcOf>>

\* The vault is the caller of consumeSlashAuthorization.
Slash(sender, r, amount) ==
  /\ sender \in VaultSlashers
  /\ ConsumeSlashAuthorization(Vault, r, amount)
  /\ amount <= bonds[r]
  /\ bonds' = [bonds EXCEPT ![r] = @ - amount]
  /\ insurancePoolBalance' = insurancePoolBalance + amount
  /\ UNCHANGED <<bondOwner, bondedAt, cooldownEnds, usdcOf>>

RequestWithdraw(sender, r) ==
  /\ sender = bondOwner[r]
  /\ cooldownEnds' = [cooldownEnds EXCEPT ![r] = now + Cooldown]
  /\ UNCHANGED <<bonds, bondOwner, bondedAt, insurancePoolBalance, usdcOf>>

WithdrawBondEarly(sender, r) ==
  /\ sender = bondOwner[r]
  /\ cooldownEnds[r] # 0
  /\ bonds[r] # 0
  /\ usdcOf[Vault] >= bonds[r]
  /\ usdcOf' = [usdcOf EXCEPT ![Vault] = @ - bonds[r], ![sender] = @ + bonds[r]]
  /\ bonds' = [bonds EXCEPT ![r] = 0]
  /\ cooldownEnds' = [cooldownEnds EXCEPT ![r] = 0]
  /\ UNCHANGED <<bondOwner, bondedAt, insurancePoolBalance>>

WithdrawBond(sender, r) ==
  /\ sender = bondOwner[r]
  /\ cooldownEnds[r] # 0 /\ now >= cooldownEnds[r]
  /\ bonds[r] # 0
  /\ usdcOf[Vault] >= bonds[r]         \* safeTransfer reverts otherwise
  /\ usdcOf' = [usdcOf EXCEPT ![Vault] = @ - bonds[r], ![sender] = @ + bonds[r]]
  /\ bonds' = [bonds EXCEPT ![r] = 0]
  /\ cooldownEnds' = [cooldownEnds EXCEPT ![r] = 0]
  /\ UNCHANGED <<bondOwner, bondedAt, insurancePoolBalance>>

RefundUncovered(sender, payer, amount) ==
  /\ sender \in TreasuryAdmins
  /\ amount # 0
  /\ usdcOf[Vault] >= amount
  /\ insurancePoolBalance' = insurancePoolBalance - amount
  /\ usdcOf' = [usdcOf EXCEPT ![Vault] = @ - amount, ![payer] = @ + amount]
  /\ UNCHANGED <<bonds, bondOwner, bondedAt, cooldownEnds>>

Refund(sender, payer, amount) ==
  /\ sender \in TreasuryAdmins
  /\ amount # 0
  /\ amount <= insurancePoolBalance
  /\ usdcOf[Vault] >= amount           \* safeTransfer reverts otherwise
  /\ insurancePoolBalance' = insurancePoolBalance - amount
  /\ usdcOf' = [usdcOf EXCEPT ![Vault] = @ - amount, ![payer] = @ + amount]
  /\ UNCHANGED <<bonds, bondOwner, bondedAt, cooldownEnds>>

-----------------------------------------------------------------------------
Log(kind, r, amount) ==
  slashLog' = Append(slashLog, [kind |-> kind, resourceId |-> r,
                                amount |-> amount, at |-> now])

BondCall ==
  /\ UNCHANGED <<registryVars, now, slashLog>>
  /\ \E s \in Accounts :
       \/ \E r \in ResourceIds :
            \/ \E x \in Amounts : BondDeposit(s, r, x)
            \/ RequestWithdraw(s, r)
            \/ WithdrawBond(s, r)
       \/ \E p \in Accounts, x \in Amounts : Refund(s, p, x)

SlashCall ==
  /\ UNCHANGED now
  /\ \E s \in Accounts, r \in ResourceIds, x \in Amounts :
       Slash(s, r, x) /\ Log("slashed", r, x)

RegistrySlashCall ==
  /\ UNCHANGED <<now, bondVars>>
  /\ \E s \in Accounts, r \in ResourceIds :
       \/ /\ Len(slashLog) < MaxLog
          /\ \E x \in Amounts :
               SlashAuthorization(s, r, x) /\ Log("authorized", r, x)
       \/ /\ CancelSlashAuthorization(s, r)
          /\ Log("cancelled", r, pendingSlashes[r].amount)

RegistrySetup ==
  /\ UNCHANGED <<now, bondVars, slashLog>>
  /\ \E s \in Accounts, r \in ResourceIds :
       \/ \E c \in Accounts : Register(s, r, c, c, BPS_DENOMINATOR)
       \/ \E x \in Amounts : SetBond(s, r, x)

VaultTime == Tick /\ UNCHANGED <<registryVars, bondVars, slashLog>>

VaultNext ==
  BondCall \/ SlashCall \/ RegistrySlashCall \/ RegistrySetup \/ VaultTime
VaultSpec == VaultInit /\ [][VaultNext]_vaultVars

-----------------------------------------------------------------------------
\* The mappings keep the ranges Solidity gives them.
VaultTypeOK ==
  /\ RegistryTypeOK
  /\ bonds \in [ResourceIds -> Nat]
  /\ bondOwner \in [ResourceIds -> Addresses]
  /\ cooldownEnds \in [ResourceIds -> Nat]
  /\ bondedAt \in [ResourceIds -> Nat]
  /\ insurancePoolBalance \in Nat
  /\ usdcOf \in [Accounts \cup {Vault} -> Nat]
  /\ slashLog \in Seq(SlashEvent)

\* The vault holds exactly the bonds and the pool: slashing only moves tokens
\* between the two, a refund never pays out of a bond.
Custody ==
  usdcOf[Vault] = insurancePoolBalance + FoldFunction(+, 0, bonds)

\* Every slash executes an authorization of the same resource and amount,
\* recorded at least a dispute window earlier, and nothing happened to that
\* authorization in between: it was not cancelled, overwritten or used before.
SlashesTimelocked ==
  \A j \in DOMAIN slashLog : slashLog[j].kind = "slashed" =>
    \E i \in 1..(j - 1) :
      /\ slashLog[i].kind = "authorized"
      /\ slashLog[i].resourceId = slashLog[j].resourceId
      /\ slashLog[i].amount = slashLog[j].amount
      /\ slashLog[i].at + DisputeWindow <= slashLog[j].at
      /\ \A k \in (i + 1)..(j - 1) : slashLog[k].resourceId # slashLog[j].resourceId

\* Whatever was deposited stays exposed to slashing for a full cooldown: a
\* withdraw requested before the latest deposit never counts.
CooldownCoversDeposit ==
  \A r \in ResourceIds :
    cooldownEnds[r] # 0 => cooldownEnds[r] >= bondedAt[r] + Cooldown

\* A bond falls only into the insurance pool, or to its owner once the cooldown
\* it asked for is over; and nobody takes a bond over.
BondsAreSafe ==
  [][\A r \in ResourceIds :
       /\ bondOwner[r] # ZeroAddress => bondOwner'[r] = bondOwner[r]
       /\ bonds'[r] < bonds[r] =>
            \/ insurancePoolBalance' - insurancePoolBalance = bonds[r] - bonds'[r]
            \/ /\ usdcOf'[bondOwner[r]] - usdcOf[bondOwner[r]] = bonds[r] - bonds'[r]
               /\ now >= bondedAt[r] + Cooldown]_vaultVars

\* A bond is not withdrawn while a slash of it is pending.
WithdrawCannotDodge ==
  [][\A r \in ResourceIds :
       bonds[r] # 0 /\ bonds'[r] = 0 /\ UNCHANGED insurancePoolBalance
         => pendingSlashes[r].amount = 0]_vaultVars
=============================================================================
