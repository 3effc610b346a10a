------------------------------ MODULE Routing ------------------------------
(***************************************************************************)
(* How a route is chosen: access, the common filter, and the strategies    *)
(* manual, quality first, credit first and auto.  Everything here is a     *)
(* function of one routing input; the service builds the input, calls the  *)
(* strategy of the mode and records the outcome in one synchronous stretch.*)
(*                                                                         *)
(* Routes are numbered in the lexicographic order of their names, the last *)
(* tie-break of every strategy.  A directory is a function from the listed *)
(* routes to snapshots.  An input carries the answer of its quota check,   *)
(* which is the same for every route of one selection.                     *)
(***************************************************************************)
EXTENDS Integers

CONSTANTS
  Routes,        \* canonical routes, as positions in their order
  Providers, ProviderOf,
  Tasks,         \* the task types quality is stated for
  Needs,         \* the capabilities and modalities a request may require
  Missing        \* "no quality for this task"

NoRoute == -1
Complexities == {"low", "medium", "high"}
Strategies == {"quality_first", "credit_first", "auto"}
Modes == {"manual"} \cup Strategies
Percent == 0 .. 100

ASSUME RoutesAssumption ==
  /\ Routes \subseteq Nat
  /\ ProviderOf \in [Routes -> Providers]
  /\ Missing \notin Percent

\* unsupported: the modalities a declared list of modalities leaves out.
Snapshots ==
  [enabled : BOOLEAN, listed : BOOLEAN, ppm : Nat,
   quality : [Tasks -> Percent \cup {Missing}],
   capabilities : SUBSET Needs, unsupported : SUBSET Needs]

IsDirectory(d) == DOMAIN d \subseteq Routes /\ d \in [DOMAIN d -> Snapshots]

\* FilterInput; allow is the allow list of the user, empty without one.
IsInput(in) ==
  /\ IsDirectory(in.directory)
  /\ in.active \subseteq Providers /\ in.unavailable \subseteq Providers
  /\ in.allow \subseteq Routes /\ in.excluded \subseteq Routes
  /\ in.capabilities \subseteq Needs /\ in.modalities \subseteq Needs
  /\ in.quota \in BOOLEAN

Classifications == [task : Tasks, complexity : Complexities, confidence : Percent]

\* The routing settings a strategy reads.
SettingsRecords ==
  [minimum : Percent, onNoMatch : {"quality_first", "none"}, confidence : Percent,
   thresholds : [Complexities -> Percent], fallback : Strategies]

-----------------------------------------------------------------------------
(* Access and the common filter.                                            *)

Callable(in, r) ==
  /\ in.directory[r].enabled
  /\ ProviderOf[r] \in in.active \ in.unavailable

\* What a user without an allow list may use.
GlobalDefault(in) == {r \in DOMAIN in.directory : Callable(in, r)}

Allowed(in, r) == IF in.allow # {} THEN r \in in.allow ELSE r \in GlobalDefault(in)

Capable(in, r) ==
  /\ in.capabilities \subseteq in.directory[r].capabilities
  /\ in.modalities \cap in.directory[r].unsupported = {}

\* The checks of filterCandidates, in its order, each with the reason it gives.
Checks(in, r, unlisted) ==
  <<[holds |-> ProviderOf[r] \in in.active,         reason |-> "not_active_provider"],
    [holds |-> in.directory[r].enabled,             reason |-> "disabled"],
    [holds |-> unlisted \/ in.directory[r].listed,  reason |-> "model_not_listed"],
    [holds |-> ProviderOf[r] \notin in.unavailable, reason |-> "provider_unavailable"],
    [holds |-> Allowed(in, r),                      reason |-> "access_denied"],
    [holds |-> Capable(in, r),                      reason |-> "capability_not_supported"],
    [holds |-> r \notin in.excluded,                reason |-> "excluded_in_request"],
    [holds |-> in.quota,                            reason |-> "quota_exceeded"]>>

Passes(in, r, unlisted) ==
  \A i \in 1 .. 8 : Checks(in, r, unlisted)[i].holds

\* The reason recorded for a route that does not pass: its first failed check.
ExclusionReason(in, r, unlisted) ==
  LET checks == Checks(in, r, unlisted)
      first == CHOOSE i \in 1 .. 8 : /\ ~checks[i].holds
                                     /\ \A j \in 1 .. i - 1 : checks[j].holds
  IN checks[first].reason

\* What the checks are for: a route the user may use for this request now.
Permitted(in, r) ==
  /\ r \in DOMAIN in.directory /\ Callable(in, r) /\ Capable(in, r)
  /\ in.allow = {} \/ r \in in.allow
  /\ r \notin in.excluded /\ in.quota

FilterCandidates(in) == {r \in DOMAIN in.directory : Passes(in, r, FALSE)}

-----------------------------------------------------------------------------
(* The strategies.  An outcome is a selected route or an error code.        *)

Selected(r) == [route |-> r, code |-> "selected"]
Rejected(code) == [route |-> NoRoute, code |-> code]

ManualCode(reason) ==
  CASE reason = "disabled" -> "MODEL_DISABLED"
    [] reason = "provider_unavailable" -> "PROVIDER_UNAVAILABLE"
    [] reason = "access_denied" -> "MODEL_ACCESS_DENIED"
    [] reason = "capability_not_supported" -> "CAPABILITY_NOT_SUPPORTED"
    [] reason = "quota_exceeded" -> "QUOTA_EXCEEDED"
    [] OTHER -> "MODEL_NOT_FOUND"

\* The route asked for or an error; a route off the provider's list still passes.
RouteManual(in, requested) ==
  IF requested \notin DOMAIN in.directory THEN Rejected("MODEL_NOT_FOUND")
  ELSE IF Passes(in, requested, TRUE) THEN Selected(requested)
  ELSE Rejected(ManualCode(ExclusionReason(in, requested, TRUE)))

QualityOf(in, r, task) == in.directory[r].quality[task]
PpmOf(in, r) == in.directory[r].ppm

\* The candidates with a quality for the task of at least the minimum.
GoodEnough(in, task, minimum) ==
  {r \in FilterCandidates(in) : /\ QualityOf(in, r, task) # Missing
                                /\ QualityOf(in, r, task) >= minimum}

QualityBefore(in, task, a, b) ==
  \/ QualityOf(in, a, task) > QualityOf(in, b, task)
  \/ /\ QualityOf(in, a, task) = QualityOf(in, b, task)
     /\ \/ PpmOf(in, a) < PpmOf(in, b)
        \/ PpmOf(in, a) = PpmOf(in, b) /\ a < b

CreditBefore(in, task, a, b) ==
  \/ PpmOf(in, a) < PpmOf(in, b)
  \/ /\ PpmOf(in, a) = PpmOf(in, b)
     /\ \/ QualityOf(in, a, task) > QualityOf(in, b, task)
        \/ QualityOf(in, a, task) = QualityOf(in, b, task) /\ a < b

\* The head of the sorted candidates.
RouteQualityFirst(in, task) ==
  LET rated == GoodEnough(in, task, 0)
  IN IF rated = {} THEN Rejected("NO_MODEL_MATCHED")
     ELSE Selected(CHOOSE a \in rated :
                     \A b \in rated \ {a} : QualityBefore(in, task, a, b))

RouteCreditFirst(in, task, minimum, onNoMatch) ==
  LET good == GoodEnough(in, task, minimum)
  IN IF good # {} THEN Selected(CHOOSE a \in good :
                                  \A b \in good \ {a} : CreditBefore(in, task, a, b))
     ELSE IF onNoMatch = "quality_first" THEN RouteQualityFirst(in, task)
     ELSE Rejected("NO_MODEL_MATCHED")

\* A classification below the confidence threshold is routed by quality alone.
RouteAuto(in, class, settings) ==
  IF class.confidence < settings.confidence THEN RouteQualityFirst(in, class.task)
  ELSE RouteCreditFirst(in, class.task, settings.thresholds[class.complexity], "none")

RouteByStrategy(strategy, in, class, settings) ==
  CASE strategy = "quality_first" -> RouteQualityFirst(in, class.task)
    [] strategy = "credit_first" ->
         RouteCreditFirst(in, class.task, settings.minimum, settings.onNoMatch)
    [] strategy = "auto" -> RouteAuto(in, class, settings)

\* A requested route that failed in this request is the one exception to manual.
ManualFallback(in, requested, fallbackOn) == fallbackOn /\ requested \in in.excluded

Route(mode, in, requested, class, settings, fallbackOn) ==
  IF mode # "manual" THEN RouteByStrategy(mode, in, class, settings)
  ELSE IF ManualFallback(in, requested, fallbackOn)
       THEN RouteByStrategy(settings.fallback, in, class, settings)
       ELSE RouteManual(in, requested)
=============================================================================
