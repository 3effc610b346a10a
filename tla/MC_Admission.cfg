\* Two sessions, two users, three calls, three changes of policies, providers or bindings.
SPECIFICATION Spec
CONSTANTS
  Routes = {1, 2, 3}
  Providers = {"p1", "p2"}
  ProviderOf <- MCProviderOf
  Tasks = {"general"}
  Needs = {"vision"}
  Missing = Missing
  Sessions = {s1, s2}
  Users = {u1, u2}
  NoUser = NoUser
  Nano = 2
  Ppm = 1
  Part = 2
  TokensPerCredit = 3
  TokenCounts = {1, 3}
  MaxCost = 4
  MaxAttempts = 2
  LightRoute = 2
  MonthLength = 6
  Offset <- MCOffset
  MaxMonth = 1
  FirstTime = 6
  MaxTime = 8
  InitDirectory <- MCDirectory
  InitUsers <- MCUsers
  ModelChoices <- MCModelChoices
  UserChoices <- MCUserChoices
  ProviderChoices <- MCProviderChoices
  RequestChoices <- MCRequests
  SettingsChoices <- MCSettings
  MaxCalls = 3
  MaxChanges = 3
SYMMETRY Symmetry
INVARIANTS
  TypeOK
  ChargesAreCounted
  OverrunBounded
PROPERTIES
  SelectionPermitted
