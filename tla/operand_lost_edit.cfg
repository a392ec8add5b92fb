CONSTANTS
  role = role
  datasources = datasources
  port = port
  grafana = grafana
  executor = executor
  cert = cert
  evictioner = evictioner
  agent = agent
  none = none
  Operands <- MCOperands
  NoOperand = none
  Kind <- MCKind
  Listed <- MCListed
  Mounts <- MCMounts
  Refreshes <- MCRefreshes
  Switches <- MCSwitches
  SwitchRank <- MCSwitchRank
  Needs <- MCNeeds
  Removes <- MCRemoves
  Undefaulted <- MCUndefaulted
  Overlooked <- MCOverlooked
  Lagging = {}
  Flippable = {"gui"}
  Tamperable = {}
  CanFail = {}
  MaxEvents = 1
SPECIFICATION FairSpec
INVARIANT RestMeansApplied
