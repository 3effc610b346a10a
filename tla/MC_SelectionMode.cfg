\* Two tabs, two switches or changes of the default, one dispose or restart.
SPECIFICATION FairSpec
CONSTANTS
  Tabs = {t1, t2}
  Models = {"m1", "m2"}
  FirstModel = "m1"
  Defaults = {"credit_first", "manual"}
  Rows <- MCRows
  Tasks = {"coding"}
  NoSelection = NoSelection
  MaxSwitches = 2
  MaxCloses = 1
INVARIANTS
  TypeOK
  LogIsByRevision
  NothingUnconfirmed
PROPERTIES
  ModeChangeReported
  UserChangeSettles
