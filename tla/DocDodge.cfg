SPECIFICATION VaultSpec
CONSTANTS
  creator = creator
  other = other
  operator = operator
  zero = zero
  vault = vault
  r1 = r1
  Accounts <- MCAccounts
  ZeroAddress = zero
  ResourceIds = {r1}
  RegistryAdmins <- MCAdmins
  Slashers <- MCAdmins
  DefaultAdmins <- MCAdmins
  VaultRole = vault
  DisputeWindow = 1
  MaxTime = 4
  Vault = vault
  VaultSlashers <- MCAdmins
  TreasuryAdmins <- MCAdmins
  Cooldown = 2
  MinBond = 2
  Amounts = {0, 1, 2}
  MaxLog = 2
  Supply <- MCSupply
CHECK_DEADLOCK FALSE
PROPERTIES
  WithdrawCannotDodge
