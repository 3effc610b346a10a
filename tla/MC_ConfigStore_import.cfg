\* The process ends during the first import.
SPECIFICATION Spec
CONSTANTS
  Clients = {c1}
  Routes = {m1, m2}
  Users = {u1}
  Fields = {limit, allow}
  Values = {v0, v1}
  AllowField = allow
  NoRows = v0
  Yaml <- MCYaml
  PatchChoices <- MCPatches
  Absent = Absent
  MaxWrites = 1
  MaxCrashes = 1
CHECK_DEADLOCK FALSE
INVARIANTS
  YamlIsImported
