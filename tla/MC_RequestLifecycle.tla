----------------------- MODULE MC_RequestLifecycle -----------------------
(* Instances of RequestLifecycle for TLC.                                 *)
EXTENDS RequestLifecycle, TLC

Policy(enabled, attempts, after) ==
  [fallbackEnabled |-> enabled, maxAttempts |-> attempts, afterPartialOutput |-> after]

\* An administrator lowers the limit, allows fallback after output, turns it off.
MCSettings == {Policy(TRUE, MaxAttempts, FALSE), Policy(TRUE, 1, FALSE),
               Policy(TRUE, MaxAttempts, TRUE), Policy(FALSE, MaxAttempts, FALSE)}
OneSetting == {Policy(TRUE, MaxAttempts, FALSE)}

RouteSymmetry == Permutations(Routes)
==========================================================================
