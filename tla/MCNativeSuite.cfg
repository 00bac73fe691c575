SPECIFICATION SuiteSpec
CONSTANTS
  Files <- MCFiles
  Worlds <- MCWorlds
  Registered <- MCRegistered
  Compiled <- CompileMathExpr
  Lookups <- Uses
  Outcome <- Value
  Nought <- Zero1
  Nobody = Nobody
  FormTypes <- MCFormTypes
  Forms <- MCForms
  Names = {"", "first", "second"}
  Readers = {r1, r2}
  Absent = Absent
  Shipped = Shipped
  Worldspaces <- MCWorldspaces
  NoForm = NoForm
  Records <- MCRecords
  Tods = {"Day", "Night"}
  ColorTypes = {"SkyUpper"}
  Layers = {"0", "31"}
  Profiles <- MCProfiles
  Inis <- MCInis
  LatePlugins = {"KiLoader", "AELAS", "ENBWorldspaceWeatherlists"}
  OutsideNames <- MCOutside
  Folders <- MCFolders
  Sessions = 2
INVARIANTS CompiledAsMeant DefinitionsHold OneOwner ActiveListInPlace RoutesSurviveImport ReferencesHold
PROPERTIES RecordsAsWritten
CHECK_DEADLOCK FALSE
