\* Two routing updates, model and user updates, an end of the process.
SPECIFICATION Spec
CONSTANTS
  Clients = {c1, c2}
  Routes = {m1, m2}
  Users = {u1}
  Fields = {limit, allow}
  Values = {v0, v1}
  AllowField = allow
  NoRows = v0
  Yaml <- MCYaml
  PatchChoices <- MCPatches
  Absent = Absent
  MaxWrites = 2
  MaxCrashes = 1
CHECK_DEADLOCK FALSE
SYMMETRY Symmetry
INVARIANTS
  TypeOK
  MemoryIsStore
  RevisionChain
  StaleUpdatesRefused
PROPERTIES
  ChangesAreAudited
  UpdatesAreAtomic
