SPECIFICATION Spec
CONSTANTS
  buyer = buyer
  relayer = relayer
  zero = zero
  escrow = escrow
  r1 = r1
  n1 = n1
  n2 = n2
  n3 = n3
  c1 = c1
  c2 = c2
  c3 = c3
  NoCall = NoCall
  NoResult = NoResult
  Accounts <- MCAccounts
  ZeroAddress = zero
  ResourceIds = {r1}
  RegistryAdmins <- MCAdmins
  Slashers = {}
  DefaultAdmins <- MCAdmins
  VaultRole = relayer
  DisputeWindow = 1
  Escrow = escrow
  BpsValues = {}
  Amounts = {}
  Relayer = relayer
  Auths <- MCAuths
  SignedAuths <- MCAuths
  Supply <- MCSupply
  AuthOf <- MCAuthOf
  MountedOn <- MCMounted
  Funds <- MCFunds
  Split <- MCSplit
  Calls = {c1, c2}
  Nonces = {n1}
  Deposit0 = 3
  Replay = TRUE
  Cap1 = 2
  Expiry = 9
  MaxTime = 0
  Computed = {1, 3}
  Faults = {"crash", "gatecrash", "lost", "throw", "ttl", "resultttl", "lockttl"}
  RevertNamed = TRUE
CHECK_DEADLOCK FALSE
INVARIANTS
  PaidMeansMined
  SpentMeansMined
PROPERTIES
  KeepsPromise
