\* Patient tools of both kinds, a game that may die and be started again.
CONSTANTS
  Kinds = {"py", "cpp"}
  MaxCalls = 3
  SeqMod = 5
  MaxStarts = 3
  MaxFaults = 2
  Timeouts = FALSE
SPECIFICATION FairSpec
INVARIANT AtMostOnce
PROPERTIES PayloadStable RpcSpec RequestsAnswered
CHECK_DEADLOCK FALSE
