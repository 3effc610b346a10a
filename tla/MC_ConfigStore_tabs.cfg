\* Two tabs that save the routing settings with the same expected revision.
SPECIFICATION Spec
CONSTANTS
  Clients = {c1, c2}
  Routes = {m1}
  Users = {u1}
  Fields = {limit, allow}
  Values = {v0, v1}
  AllowField = allow
  NoRows = v0
  Yaml <- MCYaml
  PatchChoices <- MCPatches
  Absent = Absent
  MaxWrites = 2
  MaxCrashes = 0
CHECK_DEADLOCK FALSE
INVARIANTS
  OneWinnerPerRevision
