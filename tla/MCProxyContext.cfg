\* One cached state, one cached slot and one that is not, one buffer.
SPECIFICATION BothSpec
CONSTANTS
  States = {blend}
  NumSlots = 2
  CachedSlots = 1
  Objects = {tA}
  Own = {tP}
  Null = Null
  Buffers = {b1}
  Contents = {Zero, x}
  Zero = Zero
  Pointers = {p1}
  VertexPointers = {v1}
  Programs <- MCPrograms
  VertexNames = {"vertex"}
  Sizes = {1, 2}
  Failures <- MCFailures
  MaxCreated = 2
  MaxLost = 4
INVARIANT CacheIsCurrent
INVARIANT OnlyDefaultsLost
INVARIANT OnlyZeroesLost
INVARIANT GameImageKept
INVARIANT TargetsHoldTheirKind
INVARIANT GBufferIsThisFrames
INVARIANT LeaksOnce
