\* One session, settings that change under way, no crash.
SPECIFICATION Spec
CONSTANTS
  Sessions = {s1}
  Routes = {r1, r2, r3}
  NoRoute = NoRoute
  MaxTurn = 1
  MaxStep = 1
  MaxRequests = 2
  MaxAttempts = 3
  MaxCrashes = 0
  SettingsChoices <- MCSettings
  CleanupMayReorder = FALSE
SYMMETRY RouteSymmetry
INVARIANTS
  NoRouteTriedTwice
  NoFallbackAfterOutput
  StepCallsBounded
  NotDispatchedIsTrue
  TerminalHasUsage
PROPERTIES
  AttemptStatesForward
