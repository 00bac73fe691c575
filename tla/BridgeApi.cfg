\* Two consumers against one producer and teardown; two words can tear.
CONSTANTS
  Readers = {r1, r2}
  Producer = producer
  Closer = closer
  NoThread = nobody
  Words = {lo, hi}
  MaxFrames = 3
SPECIFICATION Spec
INVARIANTS CopyCoherent CopyNotStale
PROPERTY CellSpec
CHECK_DEADLOCK FALSE
