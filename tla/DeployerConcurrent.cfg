SPECIFICATION DeployerSpec
CONSTANTS
  d1 = d1
  d2 = d2
  r1 = r1
  r2 = r2
  s1 = s1
  None = None
  Resources = {r1, r2}
  Deploys = {d1, d2}
  Slugs = {s1}
  SlugOf <- OneSlug
  Wants <- AskFor
  MaxContainers = 4
  MaxFaults = 1
CHECK_DEADLOCK FALSE
INVARIANTS
  Isolated
  LaunchIntact
