-------------------------- MODULE ResourceRegistry --------------------------
(***************************************************************************)
(* The ResourceRegistry contract: the split configuration PaymentEscrow    *)
(* reads on every debit, and the slash authorizations StakingVault         *)
(* consumes.  A call that reverts leaves the chain unchanged, so a revert  *)
(* is the absence of a step: every `revert` of the source is a guard here. *)
(*                                                                         *)
(* Roles (OpenZeppelin AccessControl, a library) are constant sets of      *)
(* accounts; sender is msg.sender.  The metadata fields agentId and        *)
(* pricingHash, which no contract reads back, are left out.                *)
(***************************************************************************)
EXTENDS Naturals, FiniteSets

CONSTANTS Accounts,         \* externally owned accounts and contracts
          ZeroAddress,      \* address(0)
          ResourceIds,      \* bytes32 ids
          RegistryAdmins,   \* holders of REGISTRY_ADMIN_ROLE
          Slashers,         \* holders of SLASHER_ROLE
          DefaultAdmins,    \* the holder of DEFAULT_ADMIN_ROLE
          VaultRole,        \* holder of VAULT_ROLE, the StakingVault
          DisputeWindow,    \* SLASH_DISPUTE_WINDOW, in clock ticks
          MaxTime           \* bound on the clock

BPS_DENOMINATOR == 10000

\* Addresses have 20 bytes and resource ids 32.
ASSUME RegistryAssumption ==
  /\ IsFiniteSet(Accounts)
  /\ IsFiniteSet(ResourceIds)
  /\ ZeroAddress \notin Accounts
  /\ RegistryAdmins \subseteq Accounts
  /\ Slashers \subseteq Accounts
  /\ DefaultAdmins \subseteq Accounts
  /\ DisputeWindow \in Nat
  /\ MaxTime \in Nat

VARIABLES resources,        \* resourceId -> Resource struct
          pendingSlashes,   \* resourceId -> PendingSlash struct
          now               \* block.timestamp

registryVars == <<resources, pendingSlashes>>

Addresses == Accounts \cup {ZeroAddress}

Resource == [creator : Addresses, treasury : Addresses,
             creatorBps : 0..BPS_DENOMINATOR, active : BOOLEAN,
             bond : Nat, exists : BOOLEAN]

PendingSlash == [amount : Nat, executableAt : Nat]

\* What a mapping read returns before anything was written.
NoResource == [creator |-> ZeroAddress, treasury |-> ZeroAddress,
               creatorBps |-> 0, active |-> FALSE, bond |-> 0,
               exists |-> FALSE]
NoPendingSlash == [amount |-> 0, executableAt |-> 0]

RegistryTypeOK ==
  /\ resources \in [ResourceIds -> Resource]
  /\ pendingSlashes \in [ResourceIds -> PendingSlash]
  /\ now \in Nat

RegistryInit ==
  /\ resources = [r \in ResourceIds |-> NoResource]
  /\ pendingSlashes = [r \in ResourceIds |-> NoPendingSlash]
  /\ now = 0

-----------------------------------------------------------------------------
RegisterZeroTreasury(sender, r, creator, treasury, bps) ==
  /\ sender \in RegistryAdmins
  /\ ~resources[r].exists
  /\ creator # ZeroAddress
  /\ bps <= BPS_DENOMINATOR
  /\ resources' = [resources EXCEPT ![r] =
       [creator |-> creator, treasury |-> treasury, creatorBps |-> bps,
        active |-> TRUE, bond |-> 0, exists |-> TRUE]]
  /\ UNCHANGED pendingSlashes

Register(sender, r, creator, treasury, bps) ==
  /\ sender \in RegistryAdmins
  /\ ~resources[r].exists
  /\ creator # ZeroAddress /\ treasury # ZeroAddress
  /\ bps <= BPS_DENOMINATOR
  /\ resources' = [resources EXCEPT ![r] =
       [creator |-> creator, treasury |-> treasury, creatorBps |-> bps,
        active |-> TRUE, bond |-> 0, exists |-> TRUE]]
  /\ UNCHANGED pendingSlashes

Update(sender, r, treasury, bps) ==
  /\ sender \in RegistryAdmins
  /\ resources[r].exists
  /\ treasury # ZeroAddress
  /\ bps <= BPS_DENOMINATOR
  /\ resources' = [resources EXCEPT ![r].treasury = treasury,
                                    ![r].creatorBps = bps]
  /\ UNCHANGED pendingSlashes

SetActive(sender, r, flag) ==
  /\ sender \in RegistryAdmins
  /\ resources[r].exists
  /\ resources' = [resources EXCEPT ![r].active = flag]
  /\ UNCHANGED pendingSlashes

Pause(sender, r)   == SetActive(sender, r, FALSE)
Unpause(sender, r) == SetActive(sender, r, TRUE)

SetBond(sender, r, bond) ==
  /\ sender \in RegistryAdmins
  /\ resources[r].exists
  /\ resources' = [resources EXCEPT ![r].bond = bond]
  /\ UNCHANGED pendingSlashes

\* Overwrites any authorization already pending and restarts its window.
SlashAuthorization(sender, r, amount) ==
  /\ sender \in Slashers
  /\ resources[r].exists
  /\ amount # 0
  /\ pendingSlashes' = [pendingSlashes EXCEPT ![r] =
       [amount |-> amount, executableAt |-> now + DisputeWindow]]
  /\ UNCHANGED resources

\* The source has no upper bound in time: an authorization that has matured
\* but was not consumed can still be cancelled.
CancelSlashAuthorization(sender, r) ==
  /\ sender \in DefaultAdmins
  /\ pendingSlashes[r].amount # 0
  /\ pendingSlashes' = [pendingSlashes EXCEPT ![r] = NoPendingSlash]
  /\ UNCHANGED resources

ConsumeKeepsAuthorization(sender, r, amount) ==
  /\ sender = VaultRole
  /\ pendingSlashes[r].amount # 0
  /\ pendingSlashes[r].amount = amount
  /\ now >= pendingSlashes[r].executableAt
  /\ UNCHANGED <<pendingSlashes, resources>>

\* Called by StakingVault inside slash.
ConsumeSlashAuthorization(sender, r, amount) ==
  /\ sender = VaultRole
  /\ pendingSlashes[r].amount # 0
  /\ pendingSlashes[r].amount = amount
  /\ now >= pendingSlashes[r].executableAt
  /\ pendingSlashes' = [pendingSlashes EXCEPT ![r] = NoPendingSlash]
  /\ UNCHANGED resources

Tick ==
  /\ now < MaxTime
  /\ now' = now + 1
=============================================================================
