\* Two passes of two priorities at one stage, two render targets, three frames, one resize.
SPECIFICATION Spec
CONSTANTS
  PassStages = {"PostGeometry"}
  Priorities = {1, 2}
  MaxPasses = 2
  RTs = {rtA, rtB}
  NoRT = NoRT
  GeometryDraws = 1
  MaxFrames = 3
  MaxResizes = 1
INVARIANT RanOnce
PROPERTY RanInOrder
INVARIANT FlagsAreThisFrames
INVARIANT SceneIsRecent
SYMMETRY Symmetry
CONSTRAINT Apart
