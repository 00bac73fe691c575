\* sb_command_client.py alone, giving up whenever it likes; few enough numbers
\* for one to run past the end of the field.
CONSTANTS
  Kinds = {"py"}
  MaxCalls = 4
  SeqMod = 3
  MaxStarts = 2
  MaxFaults = 2
  Timeouts = TRUE
SPECIFICATION Spec
INVARIANT AnswerIsOwn
CHECK_DEADLOCK FALSE
