SPECIFICATION ServicesSpec
CONSTANTS
  Calls = {"c1", "c2", "c3"}
  AmountOf <- AmountIs
  PerPayerCap = 2
  Window = 3
  MaxLatency = 1
  MaxTime = 5
  Stores = {"redis", "memory"}
  Debits = {"c1", "c2", "c3"}
  DebitOf <- DebitIs
  CreatorBps = 3333
  MaxBatchCount = 2
  MaxBatchSeconds = 1
  MinEconomical = 3
  BatchCap = 9
  MaxSeq = 3
  MaxClock = 1
  Faults = {"crash", "throw", "revert"}
  Requests = {"q1", "q2", "q3", "q4", "q5"}
  Listed = {"q1", "q2", "q3", "q5"}
  Credentialed = {"q1", "q2", "q3"}
  Large = {"q3"}
  Addresses = {"public", "private"}
  Blocked = {"private"}
  CallBudget = 1
  ByteBudget = 2
  ResponseBytes = {1}
  Ticks = {"t1", "t2"}
  StrikeLimit = 3
  MaxFolds = 5
  Publishes = {"p1", "p2"}
  Claimants = {"x", "y"}
  Owner = "own"
  Payments = {"p1", "p2", "p3"}
  Payer <- PayerIs
  Runs = {"r1", "r3"}
  WindowOf <- WindowIs
  Affected <- InWindow
  InitialPool = 3
  MaxRetries = 1
  BuyerCalls = {"c1", "c2", "c3"}
  ToolOf <- ToolIs
  CardCap <- QuotesAt
  Served = {0, 1, 3}
  Ceiling = 2
  PerToolCap = 2
  PerDayCap = 3
  Days = 2
  Gated = {"s1", "s3"}
  Broken = {"s3"}
  MaxPasses = 3
  Payers = {"page", "caller", "runner"}
  KindOf <- IsNamed
  Bound = {"runner"}
  Nonces = {"n1", "n2"}
  MaxCap = 2
  MaxIntents = 1
  Visitors = {"v1", "v2"}
  Criteria = {"all", "some"}
  Windows = {"page_ip", "page_all", "create"}
  LimitOf <- TwoForAll
  LengthOf <- LastsTwo
  KeyOf <- Keyed
  BrowseWindows = {"page_ip", "page_all"}
  MaxKeys = 1
  MaxMemo = 1
  MemoTtl = 2
  MaxNow = 2
  MaxPages = 2
  MaxCreates = 1
  Accounts = {"maker", "fund", "other"}
  SplitCreator = "maker"
  Denominator = 10
  Splits = {3, 7}
  Values = {1, 2}
  MaxReceived = 5
  Wallets = {"a", "b"}
  BondOwner = "a"
  Fundings = {"f1", "f2"}
  NeededCap = 2
  Sums = {1}
  StartUsdc = 3
  MaxFlows = 2
  MaxSwitches = 1
  MaxElsewhere = 1
  MaxHour = 2
  Verifies = {"v1", "v2", "v3"}
  Finishers = {"f1", "f2"}
  ResNonceOf <- ReservedOf
  KindsOf <- Finishes
  ReserveTtl = 2
  LockLapses = FALSE
  MaxResTime = 2
CHECK_DEADLOCK FALSE
INVARIANTS
  ServicesOK
  CapHoldsPerWindow
  RefundsAreComplete
  NeverOvercharged
  SettledMeansMined
  DeactivationJustified
  RefundsSettled
  GatesKept
  BudgetHolds
  CreatorKept
PROPERTIES
  DenialsAreJustified
