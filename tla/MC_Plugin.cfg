\* Two hosts on one database, two changes of the host, one edit, one stop of Main.
SPECIFICATION Spec
CHECK_DEADLOCK FALSE
CONSTANTS
  Providers = {"p1", "p2"}
  Models = {"m1", "m2", "m3"}
  Hosts <- MCHosts
  NoProvider = NoProvider
  TaskTypes = {"general", "coding"}
  Timezones = {"UTC"}
  SchemaVersion = 100
  Main = Main
  Other = Other
  RawConfigs <- MCRawConfigs
  Edits <- MCEdits
  MaxChanges = 2
  MaxEdits = 1
  MaxStops = 1
  NoTx = NoTx
INVARIANTS
  TypeOK
  DirectoryHasPolicies
  QuietDirectoryIsCurrent
  SchemaMatchesVersions
  UpMeansUsable
