\* Two tabs, two switches, one dispose or restart.
SPECIFICATION Spec
CONSTANTS
  Tabs = {t1, t2}
  Models = {"m1", "m2"}
  FirstModel = "m1"
  Defaults = {"credit_first"}
  Rows <- MCRows
  Tasks = {"coding"}
  NoSelection = NoSelection
  MaxSwitches = 2
  MaxCloses = 1
PROPERTIES SwitchesRaiseRevision
