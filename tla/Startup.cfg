SPECIFICATION Spec
CONSTANTS
  Word <- Words
  MaxWords = 3
  Ini <- Files
  DefaultIni = "config.ini"
  Name = {"", "other.ini", "missing.ini", "tree/", "log--no-parse", "="}
  TreeName = {"tree/"}
  NoName = ""
  Unset = Unset
INVARIANTS TypeOK Resolved MaintenanceStoresNothing WebThreadReady
