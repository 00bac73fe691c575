SPECIFICATION Spec
CONSTANTS
  Nil = Nil
  Weathers = {"clear", "rain"}
  Fields <- MCFields
  Group <- MCGroup
  Cells <- MCCells
  Lives <- MCLives
  Pristine <- MCPristine
  Lines <- MCLines
  Dumps <- MCDumps
  Ruled = {"beam"}
  RuleValues = {0}
  Natives = {"capture", "apply", "revert", "load", "save", "compare", "force", "reflect", "verify"}
  MaxEdits = 1
  MaxCalls = 3
INVARIANTS NoForeignValues GameShowsSnapshot
