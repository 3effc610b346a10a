\* One session over two turns, a crash and a restart, cleanup in any order; no
\* symmetry, as liveness needs.
SPECIFICATION FairSpec
CONSTANTS
  Sessions = {s1}
  Routes = {r1, r2}
  NoRoute = NoRoute
  MaxTurn = 2
  MaxStep = 1
  MaxRequests = 2
  MaxAttempts = 2
  MaxCrashes = 1
  SettingsChoices <- OneSetting
  CleanupMayReorder = TRUE
INVARIANTS
  TypeOK
  CallsAreCommitted
  CommittedIsDurable
  LoopHoldsDecision
  UsageMatchesCall
PROPERTIES
  AuditedCalls
  DecisionsAreFinal
  StepSettles
  ReconcileSettles
