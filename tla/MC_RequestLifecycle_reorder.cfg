\* A turn/end that overtakes the step it ends, and the failure of its call.
SPECIFICATION Spec
CONSTANTS
  Sessions = {s1}
  Routes = {r1, r2}
  NoRoute = NoRoute
  MaxTurn = 1
  MaxStep = 1
  MaxRequests = 2
  MaxAttempts = 2
  MaxCrashes = 0
  SettingsChoices <- OneSetting
  CleanupMayReorder = TRUE
INVARIANTS
  NoRouteTriedTwice
