CONSTANTS
  Components = {"ai", "grafana"}
  GlobalLists <- MCGlobalLists
  SectionLists <- MCSectionLists
  ClaimLag = TRUE
  CanFail = {"create", "write", "delete", "record", "restart"}
  MaxFailures = 1
  MaxEdits = 1
  Services = {"a", "b"}
  Consumers = {"a", "b"}
  Records = {"x", "y"}
SPECIFICATION MCSpec
CHECK_DEADLOCK FALSE
INVARIANTS TypeOK ListsAgree NeverPanics NamedClaimsExist StoragesApplied RestMeansExposed RestMeansPatched SchemasApart DropsUnused
PROPERTIES OnlyEphemeralDeletes StoragesSettle CalmSettles RulesSettle LimaKept ConsumersComeBack
