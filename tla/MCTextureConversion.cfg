\* Two loaders, two of the three kinds of source, two game processes.
SPECIFICATION Spec
CONSTANTS
  Loaders = {l1, l2}
  Nobody = Nobody
  Exts <- ExtsInUse
  Refresh = TRUE
  MaxTime = 2
  MaxSessions = 2
INVARIANT ServedIsCurrent
PROPERTY TranscodedOnce
PROPERTY ScanIsIdempotent
SYMMETRY Symmetry
