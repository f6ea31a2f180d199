SPECIFICATION Spec
CONSTANTS
  buyer = buyer
  relayer = relayer
  zero = zero
  escrow = escrow
  r1 = r1
  n1 = n1
  n2 = n2
  n3 = n3
  c1 = c1
  c2 = c2
  c3 = c3
  NoCall = NoCall
  NoResult = NoResult
  Accounts <- MCAccounts
  ZeroAddress = zero
  ResourceIds = {r1}
  RegistryAdmins <- MCAdmins
  Slashers = {}
  DefaultAdmins <- MCAdmins
  VaultRole = relayer
  DisputeWindow = 1
  Escrow = escrow
  BpsValues = {}
  Amounts = {}
  Relayer = relayer
  Auths <- MCAuths
  SignedAuths <- MCAuths
  Supply <- MCSupply
  AuthOf <- MCAuthOf
  MountedOn <- MCMounted
  Funds <- MCFunds
  Split <- MCSplit
  Calls = {c1, c2, c3}
  Nonces = {n1, n2}
  Deposit0 = 1
  Replay = TRUE
  Cap1 = 1
  Expiry = 1
  MaxTime = 0
  Computed = {1}
  Faults = {"throw", "withdraw", "pause", "resultttl"}
  RevertNamed = TRUE
SYMMETRY MCReplays
CHECK_DEADLOCK FALSE
INVARIANTS
  TypeOK
  OneAnswerPerDebit
  ExclusiveReservation
  ReservedWithinDeposit
