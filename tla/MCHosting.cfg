SPECIFICATION HostingSpec
CONSTANTS
  None = None
  Deploys = {"d1"}
  Resources = {"r1", "r2"}
  Slugs = {"s1"}
  SlugOf <- OneSlug
  Wants <- AnyOf
  MaxContainers = 4
  MaxFaults = 3
  Schedules = {"c1", "c2"}
  PoolSize = 2
  MaxSandboxes = 5
  MaxStopFaults = 2
  Handlers = {"h1", "h2"}
  Hung = {"h2"}
  Clients = {"store", "pool"}
  MaxTicks = 2
  Builds = {"b1", "b2"}
  BuildOf <- Makes
  Readers = {"e1", "e2"}
  ReaderOf <- Watches
  MaxStreams = 1
  MaxBuilds = 1
  MaxReaders = 1
  ModelFiles = {"handler.ts"}
  MaxAttempts = 2
  MaxRepairs = 2
CHECK_DEADLOCK FALSE
INVARIANTS
  HostingOK
  PoolsCloseQuiet
PROPERTIES
  HostingSettles
  OrphansCollected
  ScalesToZero
  ReadersReturn
