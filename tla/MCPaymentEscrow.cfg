SPECIFICATION EscrowSpec
CONSTANTS
  buyer = buyer
  relayer = relayer
  zero = zero
  escrow = escrow
  r1 = r1
  n1 = n1
  n2 = n2
  Accounts <- MCAccounts
  ZeroAddress = zero
  ResourceIds = {r1}
  RegistryAdmins <- MCAdmins
  Slashers = {}
  DefaultAdmins <- MCAdmins
  VaultRole = relayer
  DisputeWindow = 1
  MaxTime = 1
  Escrow = escrow
  Nonces = {n1, n2}
  Auths <- MCAuths
  SignedAuths <- MCSigned
  Amounts = {0, 1, 3}
  BpsValues = {3333, 10001}
  Relayer = relayer
  Supply <- MCSupply
INVARIANTS
  EscrowSystemTypeOK
  Solvent
  NonceSingleUse
  ChargedAsSigned
  NothingAtZero
PROPERTIES
  PayerConsents
  ImplementsPromise
