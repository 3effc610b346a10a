--------------------------- MODULE Routing_proofs ---------------------------
(***************************************************************************)
(* What the strategies of Routing promise for every directory, user and    *)
(* request: a selected route passed every check, manual selects the route  *)
(* it was asked for, the strategies select a best candidate of their       *)
(* order, and none of them gives up while a route would do.                *)
(***************************************************************************)
EXTENDS Routing, TLAPS, WellFoundedInduction

LEMMA LeastElement ==
  ASSUME NEW S \in SUBSET Nat, S # {}
  PROVE  \E x \in S : \A y \in S : x <= y
<1>1. PICK x \in S : \A y \in S : <<y, x>> \notin OpToRel(<, Nat)
  BY NatLessThanWellFounded, WFMin, Zenon
<1>2. \A y \in S : ~ (y < x)
  BY <1>1 DEF OpToRel
<1> QED
  BY <1>2

\* The facts about a snapshot the orders compare.
LEMMA SnapshotTypes ==
  ASSUME NEW in, IsInput(in), NEW task \in Tasks, NEW r \in DOMAIN in.directory
  PROVE  /\ r \in Nat /\ PpmOf(in, r) \in Nat
         /\ QualityOf(in, r, task) # Missing => QualityOf(in, r, task) \in Percent
<1>1. in.directory[r] \in Snapshots /\ r \in Routes
  BY DEF IsInput, IsDirectory
<1> QED
  BY <1>1, RoutesAssumption DEF Snapshots, PpmOf, QualityOf

\* Among rated routes one comes first in the order of credit first.
LEMMA CreditFirstHasHead ==
  ASSUME NEW in, IsInput(in), NEW task \in Tasks,
         NEW S \in SUBSET DOMAIN in.directory, S # {},
         \A r \in S : QualityOf(in, r, task) # Missing
  PROVE  \E a \in S : \A b \in S \ {a} : CreditBefore(in, task, a, b)
<1> DEFINE Cheap(p) == {r \in S : PpmOf(in, r) = p}
           Good(p, q) == {r \in Cheap(p) : 100 - QualityOf(in, r, task) = q}
<1>1. \A r \in S : r \in Nat /\ PpmOf(in, r) \in Nat /\ QualityOf(in, r, task) \in Percent
  BY SnapshotTypes
<1>2. PICK p \in {PpmOf(in, r) : r \in S} : \A y \in {PpmOf(in, r) : r \in S} : p <= y
  <2>1. {PpmOf(in, r) : r \in S} \in SUBSET Nat /\ {PpmOf(in, r) : r \in S} # {}
    BY <1>1
  <2> QED BY <2>1, LeastElement
<1>3. Cheap(p) # {} /\ p \in Nat
  BY <1>1, <1>2
<1>4. PICK q \in {100 - QualityOf(in, r, task) : r \in Cheap(p)} :
        \A y \in {100 - QualityOf(in, r, task) : r \in Cheap(p)} : q <= y
  <2>1. \A r \in Cheap(p) : 100 - QualityOf(in, r, task) \in Nat
    BY <1>1 DEF Percent
  <2>2. {100 - QualityOf(in, r, task) : r \in Cheap(p)} \in SUBSET Nat
    BY <2>1
  <2>3. {100 - QualityOf(in, r, task) : r \in Cheap(p)} # {}
    BY <1>3
  <2> QED BY <2>2, <2>3, LeastElement
<1>5. Good(p, q) # {}
  BY <1>4
<1>6. PICK a \in Good(p, q) : \A b \in Good(p, q) : a <= b
  <2>1. Good(p, q) \in SUBSET Nat
    BY <1>1
  <2> QED BY <1>5, <2>1, LeastElement
<1>7. ASSUME NEW b \in S \ {a} PROVE CreditBefore(in, task, a, b)
  <2>1. PpmOf(in, a) = p /\ p <= PpmOf(in, b)
    BY <1>2, <1>6
  <2>2. CASE PpmOf(in, b) = p
    <3>1. 100 - QualityOf(in, a, task) <= 100 - QualityOf(in, b, task)
      BY <1>4, <1>6, <2>2
    <3>2. QualityOf(in, a, task) >= QualityOf(in, b, task)
      BY <3>1, <1>1, <1>6 DEF Percent
    <3>3. QualityOf(in, a, task) = QualityOf(in, b, task) => a <= b
      BY <1>6, <2>2
    <3> QED BY <1>1, <1>6, <2>1, <2>2, <3>2, <3>3 DEF CreditBefore, Percent
  <2>3. CASE PpmOf(in, b) # p
    BY <1>1, <1>3, <2>1, <2>3 DEF CreditBefore
  <2> QED BY <2>2, <2>3
<1> QED
  BY <1>6, <1>7

\* Among rated routes one comes first in the order of quality first.
LEMMA QualityFirstHasHead ==
  ASSUME NEW in, IsInput(in), NEW task \in Tasks,
         NEW S \in SUBSET DOMAIN in.directory, S # {},
         \A r \in S : QualityOf(in, r, task) # Missing
  PROVE  \E a \in S : \A b \in S \ {a} : QualityBefore(in, task, a, b)
<1> DEFINE Good(q) == {r \in S : 100 - QualityOf(in, r, task) = q}
           Cheap(q, p) == {r \in Good(q) : PpmOf(in, r) = p}
<1>1. \A r \in S : r \in Nat /\ PpmOf(in, r) \in Nat /\ QualityOf(in, r, task) \in Percent
  BY SnapshotTypes
<1>2. PICK q \in {100 - QualityOf(in, r, task) : r \in S} :
        \A y \in {100 - QualityOf(in, r, task) : r \in S} : q <= y
  <2>1. \A r \in S : 100 - QualityOf(in, r, task) \in Nat
    BY <1>1 DEF Percent
  <2>2. {100 - QualityOf(in, r, task) : r \in S} \in SUBSET Nat
    BY <2>1
  <2>3. {100 - QualityOf(in, r, task) : r \in S} # {}
    OBVIOUS
  <2> QED BY <2>2, <2>3, LeastElement
<1>3. Good(q) # {}
  BY <1>2
<1>4. PICK p \in {PpmOf(in, r) : r \in Good(q)} :
        \A y \in {PpmOf(in, r) : r \in Good(q)} : p <= y
  <2>1. {PpmOf(in, r) : r \in Good(q)} \in SUBSET Nat
    BY <1>1
  <2>2. {PpmOf(in, r) : r \in Good(q)} # {}
    BY <1>3
  <2> QED BY <2>1, <2>2, LeastElement
<1>5. Cheap(q, p) # {} /\ p \in Nat
  BY <1>1, <1>4
<1>6. PICK a \in Cheap(q, p) : \A b \in Cheap(q, p) : a <= b
  <2>1. Cheap(q, p) \in SUBSET Nat
    BY <1>1
  <2> QED BY <1>5, <2>1, LeastElement
<1>7. ASSUME NEW b \in S \ {a} PROVE QualityBefore(in, task, a, b)
  <2>1. 100 - QualityOf(in, a, task) = q /\ q <= 100 - QualityOf(in, b, task)
    BY <1>2, <1>6
  <2>2. QualityOf(in, a, task) >= QualityOf(in, b, task)
    BY <2>1, <1>1, <1>6 DEF Percent
  <2>3. CASE QualityOf(in, b, task) = QualityOf(in, a, task)
    <3>1. b \in Good(q)
      BY <2>1, <2>3
    <3>2. PpmOf(in, a) = p /\ p <= PpmOf(in, b)
      BY <1>4, <1>6, <3>1
    <3>3. PpmOf(in, b) = p => a <= b
      BY <1>6, <3>1
    <3> QED BY <1>1, <1>5, <1>6, <2>3, <3>2, <3>3 DEF QualityBefore
  <2>4. CASE QualityOf(in, b, task) # QualityOf(in, a, task)
    BY <1>1, <1>6, <2>2, <2>4 DEF QualityBefore, Percent
  <2> QED BY <2>3, <2>4
<1> QED
  BY <1>6, <1>7

-----------------------------------------------------------------------------

\* A route passes the filter exactly if each of its eight checks holds.
LEMMA PassesMeans ==
  ASSUME NEW in, NEW r, NEW unlisted \in BOOLEAN
  PROVE  Passes(in, r, unlisted) <=>
           /\ ProviderOf[r] \in in.active /\ in.directory[r].enabled
           /\ unlisted \/ in.directory[r].listed
           /\ ProviderOf[r] \notin in.unavailable
           /\ Allowed(in, r) /\ Capable(in, r) /\ r \notin in.excluded /\ in.quota
<1> DEFINE checks == Checks(in, r, unlisted)
<1>1. /\ checks[1].holds = (ProviderOf[r] \in in.active)
      /\ checks[2].holds = in.directory[r].enabled
      /\ checks[3].holds = (unlisted \/ in.directory[r].listed)
      /\ checks[4].holds = (ProviderOf[r] \notin in.unavailable)
      /\ checks[5].holds = Allowed(in, r) /\ checks[6].holds = Capable(in, r)
      /\ checks[7].holds = (r \notin in.excluded) /\ checks[8].holds = in.quota
  BY DEF Checks
<1>2. 1 .. 8 = {1, 2, 3, 4, 5, 6, 7, 8}
  OBVIOUS
<1>3. Passes(in, r, unlisted) <=>
        /\ checks[1].holds /\ checks[2].holds /\ checks[3].holds /\ checks[4].holds
        /\ checks[5].holds /\ checks[6].holds /\ checks[7].holds /\ checks[8].holds
  BY <1>2, Zenon DEF Passes
<1> QED
  BY <1>1, <1>3, Zenon

\* A route that passes the filter is permitted, listed or not.
LEMMA PassedIsPermitted ==
  ASSUME NEW in, NEW r \in DOMAIN in.directory, NEW unlisted \in BOOLEAN,
         Passes(in, r, unlisted)
  PROVE  Permitted(in, r)
<1>1. in.allow = {} \/ r \in in.allow
  BY PassesMeans DEF Allowed
<1> QED
  BY <1>1, PassesMeans DEF Permitted, Callable

\* Quality first selects a rated candidate that comes first, if there is one.
LEMMA QualityFirstOutcome ==
  ASSUME NEW in, IsInput(in), NEW task \in Tasks
  PROVE  LET rated == GoodEnough(in, task, 0)
             outcome == RouteQualityFirst(in, task)
         IN /\ rated = {} => outcome = Rejected("NO_MODEL_MATCHED")
            /\ rated # {} => /\ outcome.code = "selected" /\ outcome.route \in rated
                             /\ \A b \in rated \ {outcome.route} :
                                  QualityBefore(in, task, outcome.route, b)
<1> DEFINE rated == GoodEnough(in, task, 0)
           head == CHOOSE a \in rated : \A b \in rated \ {a} : QualityBefore(in, task, a, b)
<1>1. CASE rated = {}
  BY <1>1 DEF RouteQualityFirst
<1>2. CASE rated # {}
  <2>1. rated \in SUBSET DOMAIN in.directory /\ \A r \in rated : QualityOf(in, r, task) # Missing
    BY DEF GoodEnough, FilterCandidates
  <2>2. \E a \in rated : \A b \in rated \ {a} : QualityBefore(in, task, a, b)
    BY <1>2, <2>1, QualityFirstHasHead
  <2>3. head \in rated /\ \A b \in rated \ {head} : QualityBefore(in, task, head, b)
    BY <2>2, Zenon
  <2>4. RouteQualityFirst(in, task) = Selected(head)
    BY <1>2 DEF RouteQualityFirst
  <2>5. Selected(head).code = "selected" /\ Selected(head).route = head
    BY DEF Selected
  <2> QED BY <1>2, <2>3, <2>4, <2>5
<1> QED
  BY <1>1, <1>2

\* Credit first selects the cheapest candidate that is good enough, if there is one.
LEMMA CreditFirstOutcome ==
  ASSUME NEW in, IsInput(in), NEW task \in Tasks, NEW minimum, NEW onNoMatch
  PROVE  LET good == GoodEnough(in, task, minimum)
             outcome == RouteCreditFirst(in, task, minimum, onNoMatch)
         IN /\ good = {} => outcome = IF onNoMatch = "quality_first"
                                      THEN RouteQualityFirst(in, task)
                                      ELSE Rejected("NO_MODEL_MATCHED")
            /\ good # {} => /\ outcome.code = "selected" /\ outcome.route \in good
                            /\ \A b \in good \ {outcome.route} :
                                 CreditBefore(in, task, outcome.route, b)
<1> DEFINE good == GoodEnough(in, task, minimum)
           head == CHOOSE a \in good : \A b \in good \ {a} : CreditBefore(in, task, a, b)
<1>1. CASE good = {}
  BY <1>1 DEF RouteCreditFirst
<1>2. CASE good # {}
  <2>1. good \in SUBSET DOMAIN in.directory /\ \A r \in good : QualityOf(in, r, task) # Missing
    BY DEF GoodEnough, FilterCandidates
  <2>2. \E a \in good : \A b \in good \ {a} : CreditBefore(in, task, a, b)
    BY <1>2, <2>1, CreditFirstHasHead
  <2>3. head \in good /\ \A b \in good \ {head} : CreditBefore(in, task, head, b)
    BY <2>2, Zenon
  <2>4. RouteCreditFirst(in, task, minimum, onNoMatch) = Selected(head)
    BY <1>2 DEF RouteCreditFirst
  <2>5. Selected(head).code = "selected" /\ Selected(head).route = head
    BY DEF Selected
  <2> QED BY <1>2, <2>3, <2>4, <2>5
<1> QED
  BY <1>1, <1>2

\* A good enough candidate passed the filter.
LEMMA GoodEnoughIsPermitted ==
  ASSUME NEW in, NEW task, NEW minimum, NEW r \in GoodEnough(in, task, minimum)
  PROVE  Permitted(in, r)
BY PassedIsPermitted DEF GoodEnough, FilterCandidates

LEMMA StrategySelectsPermitted ==
  ASSUME NEW in, IsInput(in), NEW strategy \in Strategies,
         NEW class \in Classifications, NEW settings \in SettingsRecords,
         RouteByStrategy(strategy, in, class, settings).code = "selected"
  PROVE  Permitted(in, RouteByStrategy(strategy, in, class, settings).route)
<1> DEFINE task == class.task
<1>1. task \in Tasks
  BY DEF Classifications
<1>2. \A code : Rejected(code).code = code
  BY DEF Rejected
<1>3. RouteQualityFirst(in, task).code = "selected" =>
        Permitted(in, RouteQualityFirst(in, task).route)
  BY <1>1, <1>2, QualityFirstOutcome, GoodEnoughIsPermitted
<1>4. \A minimum, onNoMatch :
        RouteCreditFirst(in, task, minimum, onNoMatch).code = "selected" =>
          Permitted(in, RouteCreditFirst(in, task, minimum, onNoMatch).route)
  BY <1>1, <1>2, <1>3, CreditFirstOutcome, GoodEnoughIsPermitted
<1>5. RouteAuto(in, class, settings).code = "selected" =>
        Permitted(in, RouteAuto(in, class, settings).route)
  BY <1>3, <1>4 DEF RouteAuto
<1> QED
  BY <1>3, <1>4, <1>5 DEF RouteByStrategy, Strategies

\* Whatever the mode, a selected route is in the directory, enabled, callable at an
\* available provider, allowed to the user, capable of the request, within quota and
\* not one that failed in this request (filter.ts, evaluator.ts).
THEOREM SelectedIsPermitted ==
  ASSUME NEW in, IsInput(in), NEW mode \in Modes, NEW requested \in Routes,
         NEW class \in Classifications, NEW settings \in SettingsRecords,
         NEW fallbackOn \in BOOLEAN,
         Route(mode, in, requested, class, settings, fallbackOn).code = "selected"
  PROVE  Permitted(in, Route(mode, in, requested, class, settings, fallbackOn).route)
<1> DEFINE outcome == Route(mode, in, requested, class, settings, fallbackOn)
<1>1. CASE mode # "manual"
  <2>1. mode \in Strategies /\ outcome = RouteByStrategy(mode, in, class, settings)
    BY <1>1 DEF Modes, Route
  <2> QED BY <2>1, StrategySelectsPermitted
<1>2. CASE mode = "manual" /\ ManualFallback(in, requested, fallbackOn)
  <2>1. /\ settings.fallback \in Strategies
        /\ outcome = RouteByStrategy(settings.fallback, in, class, settings)
    BY <1>2 DEF SettingsRecords, Route
  <2> QED BY <2>1, StrategySelectsPermitted
<1>3. CASE mode = "manual" /\ ~ManualFallback(in, requested, fallbackOn)
  <2>1. outcome = RouteManual(in, requested)
    BY <1>3 DEF Route
  <2>2. \A reason : ManualCode(reason) # "selected"
    BY DEF ManualCode
  <2>3. requested \in DOMAIN in.directory /\ Passes(in, requested, TRUE)
    <3>1. RouteManual(in, requested).code = "selected"
      BY <2>1
    <3>2. \A code : Rejected(code).code = code
      BY DEF Rejected
    <3>3. ManualCode(ExclusionReason(in, requested, TRUE)) # "selected"
      BY <2>2
    <3> QED BY <3>1, <3>2, <3>3 DEF RouteManual
  <2>4. outcome.route = requested
    BY <2>1, <2>3 DEF RouteManual, Selected
  <2> QED BY <2>3, <2>4, PassedIsPermitted
<1> QED
  BY <1>1, <1>2, <1>3

\* Manual selects the route it was asked for or none; another one only after that one
\* failed in this request and with fallback on (strategies.ts:68, service.ts:801).
THEOREM ManualNeverSubstitutes ==
  ASSUME NEW in, NEW requested, NEW class, NEW settings, NEW fallbackOn \in BOOLEAN,
         ~ManualFallback(in, requested, fallbackOn)
  PROVE  Route("manual", in, requested, class, settings, fallbackOn).route
           \in {requested, NoRoute}
BY DEF Route, RouteManual, Selected, Rejected

\* Credit first: no route a request could have used with the minimum quality is
\* cheaper than the selected one; it gives up, or falls back to quality, only if there
\* is none (strategies.ts:191).
THEOREM CreditFirstIsCheapest ==
  ASSUME NEW in, IsInput(in), NEW task \in Tasks, NEW minimum,
         NEW onNoMatch, NEW r \in GoodEnough(in, task, minimum)
  PROVE  LET outcome == RouteCreditFirst(in, task, minimum, onNoMatch)
         IN /\ outcome.route \in GoodEnough(in, task, minimum)
            /\ PpmOf(in, outcome.route) <= PpmOf(in, r)
<1> DEFINE o == RouteCreditFirst(in, task, minimum, onNoMatch).route
<1>1. o \in GoodEnough(in, task, minimum)
  BY CreditFirstOutcome
<1>2. r # o => CreditBefore(in, task, o, r)
  BY CreditFirstOutcome
<1>3. PpmOf(in, o) \in Nat /\ PpmOf(in, r) \in Nat
  BY <1>1, SnapshotTypes DEF GoodEnough, FilterCandidates
<1> QED
  BY <1>1, <1>2, <1>3 DEF CreditBefore

\* Quality first: no candidate is better for the task than the selected one, and of the
\* equally good ones none is cheaper (strategies.ts:129).
THEOREM QualityFirstIsBest ==
  ASSUME NEW in, IsInput(in), NEW task \in Tasks, NEW r \in GoodEnough(in, task, 0)
  PROVE  LET o == RouteQualityFirst(in, task).route
         IN /\ o \in GoodEnough(in, task, 0)
            /\ QualityOf(in, r, task) <= QualityOf(in, o, task)
            /\ QualityOf(in, r, task) = QualityOf(in, o, task) =>
                 PpmOf(in, o) <= PpmOf(in, r)
<1> DEFINE o == RouteQualityFirst(in, task).route
<1>1. o \in GoodEnough(in, task, 0)
  BY QualityFirstOutcome
<1>2. r # o => QualityBefore(in, task, o, r)
  BY QualityFirstOutcome
<1>3. /\ PpmOf(in, o) \in Nat /\ PpmOf(in, r) \in Nat
      /\ QualityOf(in, o, task) \in Percent /\ QualityOf(in, r, task) \in Percent
  BY <1>1, SnapshotTypes DEF GoodEnough, FilterCandidates
<1> QED
  BY <1>1, <1>2, <1>3 DEF QualityBefore, Percent

\* Auto with a confident classification selects a route of at least the quality its
\* complexity asks for, or none (strategies.ts:270).
THEOREM AutoMeetsThreshold ==
  ASSUME NEW in, IsInput(in), NEW class \in Classifications, NEW settings \in SettingsRecords,
         class.confidence >= settings.confidence,
         RouteAuto(in, class, settings).code = "selected"
  PROVE  QualityOf(in, RouteAuto(in, class, settings).route, class.task)
           >= settings.thresholds[class.complexity]
<1> DEFINE minimum == settings.thresholds[class.complexity]
           outcome == RouteCreditFirst(in, class.task, minimum, "none")
<1>1. /\ class.task \in Tasks /\ class.confidence \in Percent
      /\ settings.confidence \in Percent
  BY DEF Classifications, SettingsRecords
<1>2. RouteAuto(in, class, settings) = outcome
  BY <1>1 DEF RouteAuto, Percent
<1>3. GoodEnough(in, class.task, minimum) # {}
  <2>1. GoodEnough(in, class.task, minimum) = {} => outcome = Rejected("NO_MODEL_MATCHED")
    BY <1>1, CreditFirstOutcome
  <2> QED BY <1>2, <2>1 DEF Rejected
<1>4. outcome.route \in GoodEnough(in, class.task, minimum)
  BY <1>1, <1>3, CreditFirstOutcome
<1> QED
  BY <1>2, <1>4 DEF GoodEnough

-----------------------------------------------------------------------------
(* A request is refused only for a reason.                                  *)

\* The checks of the filter are the permission, no more: what may be used passes.
LEMMA PermittedPasses ==
  ASSUME NEW in, NEW r, NEW unlisted \in BOOLEAN, Permitted(in, r),
         unlisted \/ in.directory[r].listed
  PROVE  Passes(in, r, unlisted)
<1>1. Allowed(in, r)
  BY DEF Permitted, Allowed, GlobalDefault
<1> QED
  BY <1>1, PassesMeans DEF Permitted, Callable

\* Manual serves a route exactly if it may be used, on its provider's list or not
\* (strategies.ts:68).
THEOREM ManualServesPermitted ==
  ASSUME NEW in, NEW requested
  PROVE  RouteManual(in, requested).code = "selected" <=> Permitted(in, requested)
<1>1. CASE requested \notin DOMAIN in.directory
  BY <1>1 DEF RouteManual, Rejected, Permitted
<1>2. CASE requested \in DOMAIN in.directory /\ Passes(in, requested, TRUE)
  <2>1. Permitted(in, requested)
    BY <1>2, PassedIsPermitted
  <2>2. RouteManual(in, requested).code = "selected"
    BY <1>2 DEF RouteManual, Selected
  <2> QED BY <2>1, <2>2
<1>3. CASE requested \in DOMAIN in.directory /\ ~Passes(in, requested, TRUE)
  <2>1. ~Permitted(in, requested)
    BY <1>3, PermittedPasses
  <2>2. \A reason : ManualCode(reason) # "selected"
    BY DEF ManualCode
  <2>3. RouteManual(in, requested).code # "selected"
    BY <1>3, <2>2 DEF RouteManual, Rejected
  <2> QED BY <2>1, <2>3
<1> QED
  BY <1>1, <1>2, <1>3

\* The quality below which a strategy has nothing to select.
Floor(strategy, class, settings) ==
  IF strategy = "credit_first" /\ settings.onNoMatch = "none" THEN settings.minimum
  ELSE IF strategy = "auto" /\ class.confidence >= settings.confidence
       THEN settings.thresholds[class.complexity] ELSE 0

\* A strategy gives up only if no listed route the user may use now is rated for the task
\* as high as the strategy insists on: a floor, where the configuration sets one, and any
\* rating at all where it falls back to quality (strategies.ts:129, 191, 270).
THEOREM GivesUpOnlyForWant ==
  ASSUME NEW in, IsInput(in), NEW strategy \in Strategies,
         NEW class \in Classifications, NEW settings \in SettingsRecords,
         RouteByStrategy(strategy, in, class, settings).code # "selected",
         NEW r, Permitted(in, r), in.directory[r].listed
  PROVE  \/ QualityOf(in, r, class.task) = Missing
         \/ QualityOf(in, r, class.task) < Floor(strategy, class, settings)
<1> DEFINE task == class.task
           q == QualityOf(in, r, task)
<1> SUFFICES ASSUME q # Missing, ~(q < Floor(strategy, class, settings)) PROVE FALSE
  OBVIOUS
<1>1. /\ task \in Tasks /\ class.confidence \in Percent /\ settings.confidence \in Percent
      /\ settings.minimum \in Percent /\ class.complexity \in Complexities
      /\ settings.thresholds \in [Complexities -> Percent]
      /\ settings.onNoMatch \in {"quality_first", "none"}
  BY DEF Classifications, SettingsRecords
<1>2. r \in FilterCandidates(in) /\ r \in DOMAIN in.directory
  BY PermittedPasses DEF FilterCandidates, Permitted
<1>3. q \in Percent
  BY <1>1, <1>2, SnapshotTypes
<1>4. r \in GoodEnough(in, task, 0)
  BY <1>2, <1>3 DEF GoodEnough, Percent
<1>5. RouteQualityFirst(in, task).code = "selected"
  BY <1>1, <1>4, QualityFirstOutcome
<1>6. \A minimum \in Percent : q >= minimum =>
        \A onNoMatch : RouteCreditFirst(in, task, minimum, onNoMatch).code = "selected"
  <2>1. \A minimum \in Percent : q >= minimum => r \in GoodEnough(in, task, minimum)
    BY <1>2 DEF GoodEnough
  <2> QED BY <1>1, <2>1, CreditFirstOutcome
<1>7. \A minimum : RouteCreditFirst(in, task, minimum, "quality_first").code = "selected"
  BY <1>1, <1>5, CreditFirstOutcome
<1> HIDE DEF q
<1>8. CASE strategy = "quality_first"
  BY <1>5, <1>8 DEF RouteByStrategy
<1>9. CASE strategy = "credit_first"
  <2>1. settings.onNoMatch = "none" => q >= settings.minimum
    BY <1>1, <1>3, <1>9 DEF Floor, Percent, q
  <2>2. RouteCreditFirst(in, task, settings.minimum, settings.onNoMatch).code = "selected"
    BY <1>1, <1>6, <1>7, <2>1
  <2> QED BY <1>9, <2>2 DEF RouteByStrategy
<1>10. CASE strategy = "auto"
  <2>1. ~(class.confidence < settings.confidence) => class.confidence >= settings.confidence
    BY <1>1 DEF Percent
  <2>2. class.confidence >= settings.confidence => q >= settings.thresholds[class.complexity]
    BY <1>1, <1>3, <1>10 DEF Floor, Percent, q
  <2>3. settings.thresholds[class.complexity] \in Percent
    BY <1>1
  <2>4. RouteAuto(in, class, settings).code = "selected"
    BY <1>5, <1>6, <2>1, <2>2, <2>3 DEF RouteAuto
  <2> QED BY <1>10, <2>4 DEF RouteByStrategy
<1> QED
  BY <1>8, <1>9, <1>10 DEF Strategies
=============================================================================
