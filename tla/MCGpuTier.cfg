SPECIFICATION TierSpec
CONSTANTS
  Width = 4
  Height = 3
  Threshold = 2
  PassStages = {"PostGeometry"}
  Priorities = {1, 80}
  MaxPasses = 2
  Configs <- MCConfigs
  CloudsOn = TRUE
  Failures <- MCFailures
  Suns = {0, 1, 2, 4}
  ZenithOf <- MCZenith
  Mapped <- MCMapped
  Memory <- MCMemory
  MaxFrame = 3
INVARIANTS InputsAreThisFrames SkyFollowsSun
PROPERTIES BindingsKept
CHECK_DEADLOCK FALSE
