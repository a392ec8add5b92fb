CONSTANTS
  role = role
  datasources = datasources
  port = port
  grafana = grafana
  executor = executor
  cert = cert
  evictioner = evictioner
  agent = agent
  none = none
  Operands <- MCOperands
  NoOperand = none
  Kind <- MCKind
  Listed <- MCListed
  Mounts <- MCMounts
  Refreshes <- MCRefreshes
  Switches <- MCSwitches
  SwitchRank <- MCSwitchRank
  Needs <- MCNeeds
  Removes <- MCRemoves
  Undefaulted <- MCUndefaulted
  Overlooked <- MCOverlooked
  Lagging = {datasources, grafana}
  Flippable = {"gui", "execution", "vpa", "weavescope"}
  Tamperable = {grafana, datasources}
  CanFail = {"sync", "uninstall", "record", "restart", "restartUninstall"}
  MaxEvents = 2
SPECIFICATION FairSpec
INVARIANTS TypeOK RecordMeansApplied
PROPERTIES Settles Quiesces NoChurn
