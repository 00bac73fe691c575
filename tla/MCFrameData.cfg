\* Every update collects from one of these worlds; only the camera's tracker
\* throws or faults, and ENB may refuse the group of the fog.
CONSTANTS
    Nil = Nil
    LightCandidates = 3
    CloudLayers = 2
    Soaked = 2
    JitterCycle = 1
    Files <- AllFiles
    Overrides <- NoOverrides
    Worlds <- AnyWorld
    Faulty = {"camera"}
    DisableThreshold = 1
    RetryInterval = 1
    Frames = 2
    Rules <- AllRules
    Refusable = {"fog"}
SPECIFICATION Spec
INVARIANTS HealthyMeansFresh EnbIsCurrent ReadersAgree
