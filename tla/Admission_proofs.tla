-------------------------- MODULE Admission_proofs --------------------------
(***************************************************************************)
(* Theorems about Admission, for every set of sessions, users and routes,  *)
(* every price, policy and calendar the assumptions allow and every bound. *)
(*                                                                         *)
(* Sound is inductive for every zone.  Accounts is so for every zone whose *)
(* offsets are read right (OffsetsAreRead).  The quota check reads a       *)
(* window; that it holds this month's charges needs the calendar           *)
(* (MonthOfNow), the windows still to come being empty and the history     *)
(* variables being its split.  The overrun is bounded because own charges  *)
(* plus a full price for every call under way never grow between two       *)
(* admissions.  Where offsets are not read right, LateChargesAreMissed     *)
(* says what happens.                                                      *)
(***************************************************************************)
EXTENDS Admission, FiniteSetTheorems, Routing_proofs

LEMMA Division ==
  ASSUME NEW a \in Int, NEW b \in Nat \ {0}
  PROVE  /\ a \div b \in Int
         /\ b * (a \div b) <= a /\ a < b * (a \div b) + b
OBVIOUS

LEMMA CeilDivision ==
  ASSUME NEW a \in Nat, NEW b \in Nat \ {0}
  PROVE  /\ CeilDiv(a, b) \in Nat
         /\ CeilDiv(a, b) * b >= a /\ CeilDiv(a, b) * b < a + b
<1>1. /\ (a + b - 1) \div b \in Int
      /\ b * ((a + b - 1) \div b) <= a + b - 1 /\ a + b - 1 < b * ((a + b - 1) \div b) + b
  BY Division
<1> QED BY <1>1 DEF CeilDiv

LEMMA ProductNat ==
  ASSUME NEW a \in Nat, NEW b \in Nat
  PROVE  a * b \in Nat /\ (a > 0 /\ b > 0 => a * b > 0)
OBVIOUS

\* A call costs its exact share of credits rounded up: never less, and by less than a
\* nano more (credits/calc.ts:44).
THEOREM CostIsRoundedUp ==
  ASSUME NEW tokens \in Nat, NEW ppm \in Nat
  PROVE  LET share == TokensPerCredit * Ppm
             cost == CreditNanos(tokens, ppm)
         IN /\ cost \in Nat
            /\ cost * share >= tokens * ppm * Nano
            /\ cost * share < tokens * ppm * Nano + share
<1> DEFINE a == tokens * ppm * Nano
           b == TokensPerCredit * Ppm
<1>1. a \in Nat
  BY CostAssumption, ProductNat
<1>2. b \in Nat \ {0}
  BY CostAssumption, ProductNat
<1> HIDE DEF a, b
<1>3. /\ CeilDiv(a, b) \in Nat /\ CeilDiv(a, b) * b >= a /\ CeilDiv(a, b) * b < a + b
  BY <1>1, <1>2, CeilDivision
<1>4. CreditNanos(tokens, ppm) = CeilDiv(a, b)
  BY DEF CreditNanos, a, b
<1> QED
  BY <1>3, <1>4 DEF a, b

-----------------------------------------------------------------------------

LEMMA MonthTypes ==
  ASSUME NEW m \in 0 .. MaxMonth + 1
  PROVE  m * MonthLength \in Times /\ m * MonthLength \in Nat /\ MonthStart(m) \in Int
<1>1. m \in Nat /\ MonthLength \in Nat /\ MaxMonth \in Nat /\ m <= MaxMonth + 1
  BY CalendarAssumption
<1>2. m * MonthLength \in Nat /\ m * MonthLength <= MonthLength * (MaxMonth + 1)
  BY <1>1
<1>3. m * MonthLength \in Times
  BY <1>1, <1>2 DEF Times
<1>4. Offset[m * MonthLength] \in Int
  BY <1>3, CalendarAssumption
<1> QED
  BY <1>2, <1>3, <1>4 DEF MonthStart

\* An instant of the run has a month on local clocks and a window.
LEMMA Instants ==
  ASSUME NEW t \in FirstTime .. MaxTime
  PROVE  /\ t \in Times /\ t \in Nat /\ LocalTime(t) \in Int
         /\ LocalMonth(t) \in Months /\ WindowOf(t) \in Months /\ InWindow(t, WindowOf(t))
<1>1. t \in Times /\ t \in Nat
  BY CalendarAssumption
<1>2. LocalTime(t) \in Int
  BY <1>1, CalendarAssumption DEF LocalTime
<1>3. LocalMonth(t) \in Months /\ \E m \in Months : InWindow(t, m)
  BY CalendarAssumption
<1> QED
  BY <1>1, <1>2, <1>3 DEF WindowOf

\* Where offsets are read right, the month of an instant on local clocks is the one month
\* whose window it is in.
LEMMA MonthOfNow ==
  ASSUME OffsetsAreRead, NEW t \in FirstTime .. MaxTime
  PROVE  WindowOf(t) = LocalMonth(t)
<1> DEFINE m == WindowOf(t)
           q == LocalMonth(t)
<1>1. /\ t \in Nat /\ MonthLength \in Nat \ {0} /\ MaxMonth \in Nat /\ LocalTime(t) \in Int
      /\ m \in Months /\ q \in Months /\ InWindow(t, m)
  BY CalendarAssumption, Instants
<1>2. q * MonthLength <= LocalTime(t) /\ LocalTime(t) < (q + 1) * MonthLength
  <2>1. /\ q \in Int /\ MonthLength * q <= LocalTime(t)
        /\ LocalTime(t) < MonthLength * q + MonthLength
    BY <1>1, Division DEF LocalMonth
  <2> HIDE DEF q
  <2> QED BY <1>1, <2>1
<1>3. m * MonthLength <= LocalTime(t) /\ LocalTime(t) < (m + 1) * MonthLength
  <2>1. m \in 0 .. MaxMonth + 1 /\ m + 1 \in 0 .. MaxMonth + 1
    BY <1>1 DEF Months
  <2>2. MonthStart(m) <= t /\ t < MonthStart(m + 1)
    BY <1>1 DEF InWindow
  <2> HIDE DEF m, q
  <2>3. MonthStart(m + 1) \in Int /\ (m + 1) * MonthLength \in Int
    BY <2>1, MonthTypes
  <2>4. m * MonthLength <= LocalTime(t)
    BY <2>1, <2>2 DEF OffsetsAreRead
  <2>5. ~((m + 1) * MonthLength <= LocalTime(t))
    <3>1. ~(MonthStart(m + 1) <= t)
      BY <1>1, <2>2, <2>3
    <3> QED BY <2>1, <3>1 DEF OffsetsAreRead
  <2> QED BY <1>1, <2>3, <2>4, <2>5
<1> HIDE DEF m, q
<1>4. m * MonthLength < (q + 1) * MonthLength /\ q * MonthLength < (m + 1) * MonthLength
  BY <1>1, <1>2, <1>3 DEF Months
<1>5. m < q + 1 /\ q < m + 1
  BY <1>1, <1>4 DEF Months
<1> QED
  BY <1>1, <1>5 DEF Months, m, q

\* Local months do not go back.
LEMMA MonthsAdvance ==
  ASSUME OffsetsAreRead, NEW t \in FirstTime .. MaxTime, t + 1 \in FirstTime .. MaxTime
  PROVE  LocalMonth(t) <= LocalMonth(t + 1)
<1> DEFINE q == LocalMonth(t)
           p == LocalMonth(t + 1)
<1>1. /\ t \in Nat /\ q \in Months /\ p \in Months /\ LocalTime(t) \in Int
      /\ LocalTime(t + 1) \in Int /\ MonthLength \in Nat \ {0} /\ MaxMonth \in Nat
  BY CalendarAssumption, Instants
<1>2. MonthLength * q <= LocalTime(t) /\ LocalTime(t + 1) < MonthLength * p + MonthLength
  BY <1>1, Division DEF LocalMonth
<1> HIDE DEF q, p
<1>3. q \in 0 .. MaxMonth + 1 /\ q * MonthLength <= LocalTime(t)
  BY <1>1, <1>2 DEF Months
<1>4. MonthStart(q) <= t /\ MonthStart(q) \in Int
  BY <1>3, MonthTypes DEF OffsetsAreRead
<1>5. q * MonthLength <= LocalTime(t + 1)
  <2>1. MonthStart(q) <= t + 1
    BY <1>1, <1>4
  <2> QED BY <1>3, <2>1 DEF OffsetsAreRead
<1>6. q * MonthLength < (p + 1) * MonthLength
  BY <1>1, <1>2, <1>5 DEF Months
<1>7. q < p + 1
  BY <1>1, <1>6 DEF Months
<1> QED
  BY <1>1, <1>7 DEF Months, q, p

\* When the offset that is read for a month is right: it holds from two shifts before local
\* midnight, as UTC, to the start it gives, and clocks are not set back over that start
\* later.  America/New_York is such a zone on 1 November 2026, Australia/Sydney is not
\* on 1 October 2028 (credits/quota.ts:68).
THEOREM QuietStartsAreRead ==
  ASSUME NEW shift \in Nat,
         \A t \in Times : Offset[t] \in (0 - shift) .. shift,
         \A m \in 0 .. MaxMonth + 1, t \in Times :
           /\ m * MonthLength - 2 * shift <= t /\ t <= MonthStart(m)
                => Offset[t] = Offset[m * MonthLength]
           /\ MonthStart(m) < t /\ t <= m * MonthLength + 2 * shift
                => m * MonthLength <= LocalTime(t)
  PROVE  OffsetsAreRead
<1> SUFFICES ASSUME NEW m \in 0 .. MaxMonth + 1, NEW t \in FirstTime .. MaxTime
             PROVE  MonthStart(m) <= t <=> m * MonthLength <= LocalTime(t)
  BY DEF OffsetsAreRead
<1> DEFINE k == m * MonthLength
<1>1. k \in Times /\ k \in Nat /\ t \in Times /\ t \in Nat
  BY MonthTypes, Instants
<1>2. /\ Offset[k] \in Int /\ Offset[k] >= 0 - shift /\ Offset[k] <= shift
      /\ Offset[t] \in Int /\ Offset[t] >= 0 - shift /\ Offset[t] <= shift
  BY <1>1
<1>3. /\ k - 2 * shift <= t /\ t <= k - Offset[k] => Offset[t] = Offset[k]
      /\ k - Offset[k] < t /\ t <= k + 2 * shift => k <= t + Offset[t]
  BY <1>1 DEF MonthStart, LocalTime
<1> HIDE DEF k
<1>4. k - Offset[k] <= t <=> k <= t + Offset[t]
  BY <1>1, <1>2, <1>3
<1> QED
  BY <1>4 DEF MonthStart, LocalTime, k

-----------------------------------------------------------------------------
(* The inductive invariant.                                                 *)

\* The calls of a user that were admitted and are not charged.
InFlight(u) ==
  {s \in Sessions : call[s].phase \in {"committing", "streaming"} /\ call[s].admitted = u}

\* The prices in use are those CostAssumption bounds; a call has a user and a retry has
\* an attempt left.
CallsKnown ==
  /\ \A r \in DOMAIN directory : directory[r].ppm \in Prices
  /\ \A s \in Sessions : call[s].phase = "streaming" =>
       call[s].ppm \in Prices /\ call[s].user \in Users
  /\ \A s \in Sessions : call[s].phase = "committing" => bound[s] \in Users
  /\ \A s \in Sessions : call[s].phase = "failed" => call[s].attempts < MaxAttempts

WindowsToCome == \A u \in Users, m \in Months : m > LocalMonth(now) => spent[u][m] = 0

OwnIsCharged == \A u \in Users : own[u] <= charged[u]

\* Own charges and a full price for every call under way stay below the bound.
AccountOf(u) ==
  \/ own[u] = 0 /\ InFlight(u) = {}
  \/ /\ ceiling[u] > 0
     /\ own[u] + Cardinality(InFlight(u)) * MaxCost
          < ceiling[u] + Cardinality(Sessions) * MaxCost

Sound == TypeOK /\ CallsKnown

Accounts ==
  /\ Sound /\ WindowsToCome /\ ChargesAreCounted /\ OwnIsCharged
  /\ \A u \in Users : AccountOf(u)

\* A step that ends calls, or takes them on, without touching the books.
OffBooks ==
  /\ UNCHANGED <<spent, now, charged, own, ceiling>>
  /\ \A u \in Users : InFlight(u)' \subseteq InFlight(u)

LEMMA SessionCount ==
  /\ Cardinality(Sessions) \in Nat
  /\ \A u : /\ IsFiniteSet(InFlight(u)) /\ Cardinality(InFlight(u)) \in Nat
            /\ Cardinality(InFlight(u)) <= Cardinality(Sessions)
<1>1. IsFiniteSet(Sessions) /\ Cardinality(Sessions) \in Nat
  BY ChoicesAssumption, FS_CardinalityType
<1>2. ASSUME NEW T \in SUBSET Sessions
      PROVE  IsFiniteSet(T) /\ Cardinality(T) \in Nat /\ Cardinality(T) <= Cardinality(Sessions)
  BY <1>1, FS_Subset, FS_CardinalityType
<1>3. \A u : InFlight(u) \in SUBSET Sessions
  BY DEF InFlight
<1> QED
  BY <1>1, <1>2, <1>3

LEMMA InitSound == Init => Sound
<1> SUFFICES ASSUME Init PROVE Sound
  OBVIOUS
<1>1. TypeOK
  <2>1. directory \in [DOMAIN InitDirectory -> Snapshots]
    BY ChoicesAssumption DEF Init, IsDirectory
  <2>2. /\ settings \in SettingsChoices /\ users \in [Users -> UserPolicies]
        /\ providers \in ProviderChoices /\ settings.local \in Users \cup {NoUser}
    BY ChoicesAssumption DEF Init
  <2>3. /\ calls \in 0 .. MaxCalls /\ changes \in 0 .. MaxChanges
        /\ now \in FirstTime .. MaxTime
    BY ChoicesAssumption, CalendarAssumption DEF Init
  <2>4. spent \in [Users -> [Months -> Nat]]
    BY DEF Init
  <2> QED BY <2>1, <2>2, <2>3, <2>4 DEF Init, TypeOK
<1>2. CallsKnown
  BY DEF Init, CallsKnown, Prices, Idle
<1> QED
  BY <1>1, <1>2 DEF Sound

LEMMA InitAccounts == Init => Accounts
<1> SUFFICES ASSUME Init PROVE Accounts
  OBVIOUS
<1>1. WindowsToCome /\ ChargesAreCounted
  <2>1. LocalMonth(now) \in Months
    BY InitSound, Instants DEF Sound, TypeOK
  <2> QED BY <2>1 DEF Init, WindowsToCome, ChargesAreCounted, UsedCreditsNanos
<1>2. OwnIsCharged
  BY DEF Init, OwnIsCharged
<1>3. \A u \in Users : AccountOf(u)
  <2>1. \A u \in Users : InFlight(u) = {}
    BY DEF Init, InFlight, Idle
  <2> QED BY <2>1 DEF Init, AccountOf
<1> QED
  BY <1>1, <1>2, <1>3, InitSound DEF Accounts

\* A step that leaves the books alone keeps their part of the invariant.
LEMMA BooksKept ==
  ASSUME Accounts, UNCHANGED <<spent, now, charged, own>>
  PROVE  WindowsToCome' /\ ChargesAreCounted' /\ OwnIsCharged'
BY DEF Accounts, WindowsToCome, ChargesAreCounted, OwnIsCharged, UsedCreditsNanos, LocalMonth,
       LocalTime

\* A step after which a user has no more calls under way keeps the user's account.
LEMMA AccountKept ==
  ASSUME Accounts, NEW u \in Users, InFlight(u)' \subseteq InFlight(u),
         own'[u] = own[u], ceiling'[u] = ceiling[u]
  PROVE  AccountOf(u)'
<1> DEFINE k == Cardinality(InFlight(u))
           l == Cardinality(InFlight(u)')
           n == Cardinality(Sessions)
<1>1. k \in Nat /\ l \in Nat /\ l <= k /\ n \in Nat
  BY SessionCount, FS_Subset, FS_CardinalityType
<1>2. own[u] \in Nat /\ ceiling[u] \in Nat /\ MaxCost \in Nat
  BY CostAssumption DEF Accounts, Sound, TypeOK
<1>3. AccountOf(u)
  BY DEF Accounts
<1>4. CASE own[u] = 0 /\ InFlight(u) = {}
  BY <1>4 DEF AccountOf
<1>5. CASE ceiling[u] > 0 /\ own[u] + k * MaxCost < ceiling[u] + n * MaxCost
  <2> HIDE DEF k, l, n
  <2>1. l * MaxCost <= k * MaxCost
    BY <1>1, <1>2
  <2>2. own[u] + l * MaxCost < ceiling[u] + n * MaxCost
    BY <1>1, <1>2, <1>5, <2>1
  <2> QED BY <1>5, <2>2 DEF AccountOf, l, n
<1> QED
  BY <1>3, <1>4, <1>5 DEF AccountOf

\* What a call looks like.
LEMMA CallTypes ==
  ASSUME TypeOK, NEW s \in Sessions, call[s].phase # "idle"
  PROVE  call[s] \in Calls
BY DEF TypeOK, Idle

LEMMA MultiplierKnown ==
  ASSUME Sound, NEW r
  PROVE  GetMultiplierPpm(directory, r) \in Prices /\ GetMultiplierPpm(directory, r) \in Nat
<1>1. GetMultiplierPpm(directory, r) \in Prices
  BY DEF Sound, CallsKnown, GetMultiplierPpm, Prices
<1>2. \A x \in DOMAIN directory : directory[x].ppm \in Nat
  BY DEF Sound, TypeOK, Snapshots
<1> QED
  BY <1>1, <1>2, CostAssumption DEF GetMultiplierPpm

LEMMA FilterInputTypes ==
  ASSUME TypeOK, NEW u \in Users, NEW request \in Requests, NEW excluded \in SUBSET Routes
  PROVE  IsInput(BuildFilterInput(u, request, excluded))
<1> DEFINE in == BuildFilterInput(u, request, excluded)
<1>1. /\ in.directory = directory /\ in.active = providers.active
      /\ in.unavailable = providers.unavailable /\ in.allow = users[u].allow
      /\ in.excluded = excluded /\ in.capabilities = request.capabilities
      /\ in.modalities = request.modalities /\ in.quota = ~IsQuotaExceeded(u)
  BY DEF BuildFilterInput
<1>2. IsDirectory(directory)
  BY ChoicesAssumption DEF TypeOK, IsDirectory
<1>3. /\ providers \in [active : SUBSET Providers, unavailable : SUBSET Providers]
      /\ users[u] \in UserPolicies
  BY ChoicesAssumption DEF TypeOK
<1>4. (~IsQuotaExceeded(u)) \in BOOLEAN
  BY DEF IsQuotaExceeded
<1> HIDE DEF in
<1>5. in.active \subseteq Providers /\ in.unavailable \subseteq Providers /\ in.allow \subseteq Routes
  BY <1>1, <1>3 DEF UserPolicies
<1>6. in.capabilities \subseteq Needs /\ in.modalities \subseteq Needs
  BY <1>1 DEF Requests
<1> QED
  BY <1>1, <1>2, <1>4, <1>5, <1>6 DEF IsInput, in

\* A selection of the service selects a route its user may use now.
LEMMA OutcomePermitted ==
  ASSUME TypeOK, NEW u \in Users, NEW request \in Requests, NEW excluded \in SUBSET Routes,
         Outcome(u, request, excluded).code = "selected"
  PROVE  Permitted(BuildFilterInput(u, request, excluded), Outcome(u, request, excluded).route)
<1>1. IsInput(BuildFilterInput(u, request, excluded))
  BY FilterInputTypes
<1>2. /\ request.mode \in Modes /\ request.requested \in Routes
      /\ request.class \in Classifications
  BY DEF Requests
<1>3. settings.routing \in SettingsRecords /\ settings.fallbackOn \in BOOLEAN
  BY ChoicesAssumption DEF TypeOK
<1> QED
  BY <1>1, <1>2, <1>3, SelectedIsPermitted DEF Outcome

LEMMA PermittedHere ==
  ASSUME TypeOK, NEW u \in Users, NEW request \in Requests, NEW excluded \in SUBSET Routes,
         NEW r, Permitted(BuildFilterInput(u, request, excluded), r)
  PROVE  /\ r \in DOMAIN directory /\ r \in Routes /\ directory[r].enabled
         /\ ProviderOf[r] \in providers.active \ providers.unavailable
         /\ users[u].allow = {} \/ r \in users[u].allow
         /\ r \notin excluded /\ ~IsQuotaExceeded(u)
<1>1. DOMAIN directory \subseteq Routes
  BY ChoicesAssumption DEF TypeOK, IsDirectory
<1> QED
  BY <1>1 DEF Permitted, Callable, BuildFilterInput

\* Quota in credit nanos.
LEMMA QuotaTypes ==
  ASSUME TypeOK, NEW u \in Users
  PROVE  LimitNanos(u) \in Nat /\ UsedCreditsNanos(u) \in Nat
<1>1. users[u].credits \in Nat /\ Part \in Nat \ {0} /\ Nano \in Nat
  BY CostAssumption DEF TypeOK, UserPolicies
<1>2. users[u].credits \div Part \in Nat
  <2>1. /\ users[u].credits \div Part \in Int
        /\ users[u].credits < Part * (users[u].credits \div Part) + Part
    <3> DEFINE a == users[u].credits
    <3>1. a \in Int
      BY <1>1
    <3> HIDE DEF a
    <3>2. a \div Part \in Int /\ a < Part * (a \div Part) + Part
      BY <1>1, <3>1, Division
    <3> QED BY <3>2 DEF a
  <2> DEFINE q == users[u].credits \div Part
  <2>2. q \in Int /\ 0 < Part * (q + 1)
    <3> HIDE DEF q
    <3> QED BY <1>1, <2>1 DEF q
  <2> HIDE DEF q
  <2>3. 0 < q + 1
    BY <1>1, <2>2
  <2> QED BY <2>2, <2>3 DEF q
<1>3. UsedCreditsNanos(u) \in Nat
  <2>1. LocalMonth(now) \in Months
    BY Instants DEF TypeOK
  <2> QED BY <2>1 DEF TypeOK, UsedCreditsNanos
<1> QED
  BY <1>1, <1>2, <1>3, ProductNat DEF LimitNanos

\* The account of a user whose call was just admitted: used credits, own ones among
\* them, are below the limit, and there is one call per session at most.
LEMMA AdmissionOpens ==
  ASSUME Accounts, NEW u \in Users, ~IsQuotaExceeded(u), own' = own,
         ceiling' = [ceiling EXCEPT ![u] = Larger(@, LimitNanos(u))]
  PROVE  AccountOf(u)'
<1> DEFINE l == Cardinality(InFlight(u)')
           n == Cardinality(Sessions)
<1>1. l \in Nat /\ n \in Nat /\ l <= n
  <2>1. InFlight(u)' \in SUBSET Sessions
    BY DEF InFlight
  <2>2. IsFiniteSet(Sessions)
    BY ChoicesAssumption
  <2> QED BY <2>1, <2>2, FS_Subset, FS_CardinalityType
<1>2. own[u] \in Nat /\ ceiling[u] \in Nat /\ MaxCost \in Nat /\ LimitNanos(u) \in Nat
  BY CostAssumption, QuotaTypes DEF Accounts, Sound, TypeOK
<1>3. own[u] < LimitNanos(u)
  <2>1. own[u] <= charged[u] /\ charged[u] = UsedCreditsNanos(u)
    BY DEF Accounts, OwnIsCharged, ChargesAreCounted
  <2>2. UsedCreditsNanos(u) \in Nat /\ ~(UsedCreditsNanos(u) >= LimitNanos(u))
    BY QuotaTypes DEF Accounts, Sound, IsQuotaExceeded
  <2> QED BY <1>2, <2>1, <2>2
<1>4. ceiling'[u] >= LimitNanos(u) /\ ceiling'[u] \in Nat /\ own'[u] = own[u]
  BY <1>2 DEF Accounts, Sound, TypeOK, Larger
<1> HIDE DEF l, n
<1>5. l * MaxCost <= n * MaxCost /\ l * MaxCost \in Nat /\ n * MaxCost \in Nat
  BY <1>1, <1>2
<1>6. ceiling'[u] > 0 /\ own'[u] + l * MaxCost < ceiling'[u] + n * MaxCost
  BY <1>2, <1>3, <1>4, <1>5
<1> QED
  BY <1>6 DEF AccountOf, l, n

\* A selection either ends the step or begins a commit.
LEMMA Selects ==
  ASSUME Sound, NEW s \in Sessions, NEW request \in Requests, NEW excluded \in SUBSET Routes,
         NEW attempts \in 0 .. MaxAttempts - 1, SelectModel(s, request, excluded, attempts)
  PROVE  /\ bound[s] \in Users
         /\ UNCHANGED <<settings, directory, users, providers, bound, spent, now, calls,
                        changes, charged, own>>
         /\ \/ call' = [call EXCEPT ![s] = Idle] /\ ceiling' = ceiling
            \/ /\ \E c \in Calls : /\ call' = [call EXCEPT ![s] = c]
                                   /\ c.phase = "committing" /\ c.admitted = bound[s]
               /\ ceiling' = [ceiling EXCEPT ![bound[s]] = Larger(@, LimitNanos(bound[s]))]
               /\ ~IsQuotaExceeded(bound[s])
<1> DEFINE u == bound[s]
           o == Outcome(u, request, excluded)
           c == [phase |-> "committing", request |-> request, excluded |-> excluded,
                 attempts |-> attempts + 1, route |-> o.route,
                 user |-> NoUser, admitted |-> u, ppm |-> 0]
<1>1. TypeOK /\ u \in Users
  BY DEF Sound, TypeOK, SelectModel
<1>2. MaxAttempts \in Nat \ {0}
  BY ChoicesAssumption
<1>3. UNCHANGED <<settings, directory, users, providers, bound, spent, now, calls,
                  changes, charged, own>>
  BY DEF SelectModel
<1>4. CASE o.code # "selected"
  <2>1. call' = [call EXCEPT ![s] = Idle] /\ ceiling' = ceiling
    BY <1>4 DEF SelectModel
  <2> QED BY <1>1, <1>3, <2>1
<1>5. CASE o.code = "selected"
  <2>1. call' = [call EXCEPT ![s] = c] /\ ceiling' = [ceiling EXCEPT ![u] = Larger(@, LimitNanos(u))]
    BY <1>5 DEF SelectModel
  <2>2. o.route \in Routes /\ ~IsQuotaExceeded(u)
    BY <1>1, <1>5, OutcomePermitted, PermittedHere
  <2>3. c \in Calls /\ c.phase = "committing" /\ c.admitted = u
    BY <1>1, <1>2, <2>2 DEF Calls, Phases
  <2> HIDE DEF c, o
  <2> QED BY <1>1, <1>3, <2>1, <2>2, <2>3
<1> QED
  BY <1>4, <1>5

LEMMA SelectModelSound ==
  ASSUME Sound, NEW s \in Sessions, NEW request \in Requests, NEW excluded \in SUBSET Routes,
         NEW attempts \in 0 .. MaxAttempts - 1, SelectModel(s, request, excluded, attempts)
  PROVE  Sound'
<1>1. TypeOK /\ CallsKnown
  BY DEF Sound
<1>2. PICK d \in Calls \cup {Idle} :
        call' = [call EXCEPT ![s] = d] /\ d.phase \in {"idle", "committing"}
  <2>1. Idle \in Calls \cup {Idle} /\ Idle.phase = "idle"
    BY DEF Idle
  <2>2. CASE call' = [call EXCEPT ![s] = Idle]
    BY <2>1, <2>2
  <2>3. ASSUME NEW c \in Calls, call' = [call EXCEPT ![s] = c], c.phase = "committing"
        PROVE  \E d \in Calls \cup {Idle} :
                 call' = [call EXCEPT ![s] = d] /\ d.phase \in {"idle", "committing"}
    BY <2>3
  <2>4. \/ call' = [call EXCEPT ![s] = Idle]
        \/ \E c \in Calls : call' = [call EXCEPT ![s] = c] /\ c.phase = "committing"
    BY Selects
  <2> QED BY <2>2, <2>3, <2>4
<1>3. /\ bound[s] \in Users
      /\ UNCHANGED <<settings, directory, users, providers, bound, spent, now, calls,
                     changes, charged, own>>
  BY Selects
<1>4. ceiling' \in [Users -> Nat]
  <2>1. LimitNanos(bound[s]) \in Nat
    BY <1>1, <1>3, QuotaTypes
  <2>2. ceiling' = ceiling \/ ceiling' = [ceiling EXCEPT ![bound[s]] = Larger(@, LimitNanos(bound[s]))]
    BY Selects
  <2> QED BY <1>1, <1>3, <2>1, <2>2 DEF TypeOK, Larger
<1>5. TypeOK'
  BY <1>1, <1>2, <1>3, <1>4 DEF TypeOK
<1>6. CallsKnown'
  BY <1>1, <1>2, <1>3 DEF CallsKnown, TypeOK
<1> QED
  BY <1>5, <1>6 DEF Sound

LEMMA SelectModelKeeps ==
  ASSUME Accounts, NEW s \in Sessions, NEW request \in Requests, NEW excluded \in SUBSET Routes,
         NEW attempts \in 0 .. MaxAttempts - 1, SelectModel(s, request, excluded, attempts),
         call[s].phase \notin {"committing", "streaming"}
  PROVE  Accounts'
<1>1. Sound /\ TypeOK /\ bound[s] \in Users /\ UNCHANGED <<spent, now, charged, own>>
  BY Selects DEF Accounts, Sound
<1>2. Sound'
  BY <1>1, SelectModelSound
<1>3. \A v \in Users : AccountOf(v)'
  <2>1. CASE call' = [call EXCEPT ![s] = Idle] /\ ceiling' = ceiling
    <3>1. \A v \in Users : InFlight(v)' \subseteq InFlight(v)
      BY <1>1, <2>1 DEF InFlight, TypeOK, Idle
    <3> QED BY <1>1, <2>1, <3>1, AccountKept
  <2>2. ASSUME NEW c \in Calls, call' = [call EXCEPT ![s] = c], c.admitted = bound[s],
               ceiling' = [ceiling EXCEPT ![bound[s]] = Larger(@, LimitNanos(bound[s]))],
               ~IsQuotaExceeded(bound[s])
        PROVE  \A v \in Users : AccountOf(v)'
    <3>1. TAKE v \in Users
    <3>2. CASE v = bound[s]
      BY <1>1, <2>2, <3>2, AdmissionOpens
    <3>3. CASE v # bound[s]
      <4>1. InFlight(v)' \subseteq InFlight(v)
        BY <1>1, <2>2, <3>3 DEF InFlight, TypeOK
      <4>2. ceiling'[v] = ceiling[v]
        BY <1>1, <2>2, <3>3 DEF TypeOK
      <4> QED BY <1>1, <4>1, <4>2, AccountKept
    <3> QED BY <3>2, <3>3
  <2> QED BY <1>1, <2>1, <2>2, Selects
<1> QED
  BY <1>1, <1>2, <1>3, BooksKept DEF Accounts

LEMMA OffBooksKeeps ==
  ASSUME Accounts, Sound', OffBooks
  PROVE  Accounts'
<1>1. \A u \in Users : AccountOf(u)'
  BY AccountKept DEF OffBooks
<1> QED
  BY <1>1, BooksKept DEF Accounts, OffBooks

LEMMA CommitFailsSound ==
  ASSUME Sound, NEW s \in Sessions, CommitFails(s)
  PROVE  Sound' /\ OffBooks
<1>1. TypeOK /\ CallsKnown
  BY DEF Sound
<1>2. TypeOK'
  BY <1>1 DEF TypeOK, CommitFails
<1>3. CallsKnown'
  BY <1>1 DEF CallsKnown, TypeOK, CommitFails, Idle
<1>4. OffBooks
  BY <1>1 DEF OffBooks, InFlight, TypeOK, CommitFails, Idle
<1> QED
  BY <1>2, <1>3, <1>4 DEF Sound

LEMMA CrashSound ==
  ASSUME Sound, Crash
  PROVE  Sound' /\ OffBooks
<1>1. TypeOK'
  BY DEF Sound, TypeOK, Crash
<1>2. CallsKnown'
  BY DEF Sound, CallsKnown, Crash, Idle
<1>3. OffBooks
  BY DEF OffBooks, InFlight, Crash, Idle
<1> QED
  BY <1>1, <1>2, <1>3 DEF Sound

LEMMA DispatchSound ==
  ASSUME Sound, NEW s \in Sessions, Dispatch(s)
  PROVE  Sound' /\ OffBooks
<1> DEFINE c == call[s]
           p == GetMultiplierPpm(directory, c.route)
           d == [c EXCEPT !.phase = "streaming", !.user = bound[s], !.ppm = p]
<1>1. TypeOK /\ CallsKnown /\ c.phase = "committing" /\ calls < MaxCalls
  BY DEF Sound, Dispatch
<1>2. c \in Calls
  BY <1>1, CallTypes
<1>3. p \in Prices /\ p \in Nat
  BY <1>1, MultiplierKnown
<1>4. bound[s] \in Users
  BY <1>1 DEF CallsKnown
<1> HIDE DEF c, p
<1>5. d \in Calls /\ d.phase = "streaming" /\ d.ppm = p /\ d.user = bound[s]
      /\ d.admitted = c.admitted
  BY <1>2, <1>3, <1>4 DEF Calls, Phases
<1>6. call' = [call EXCEPT ![s] = d]
  BY <1>1 DEF Dispatch, TypeOK, c, p
<1> HIDE DEF d
<1>7. TypeOK'
  <2>1. calls' \in 0 .. MaxCalls
    BY <1>1, ChoicesAssumption DEF Dispatch, TypeOK
  <2>2. call' \in [Sessions -> Calls \cup {Idle}]
    BY <1>1, <1>5, <1>6 DEF TypeOK
  <2> QED BY <1>1, <2>1, <2>2 DEF TypeOK, Dispatch
<1>8. CallsKnown'
  BY <1>1, <1>3, <1>4, <1>5, <1>6 DEF CallsKnown, TypeOK, Dispatch
<1>9. OffBooks
  BY <1>1, <1>5, <1>6 DEF OffBooks, InFlight, TypeOK, c, Dispatch
<1> QED
  BY <1>7, <1>8, <1>9 DEF Sound

LEMMA FailedSound ==
  ASSUME Sound, NEW s \in Sessions, NEW retryable \in BOOLEAN, Failed(s, retryable)
  PROVE  Sound' /\ OffBooks
<1> DEFINE c == call[s]
           retry == retryable /\ settings.fallbackOn /\ c.attempts < MaxAttempts
           d == [c EXCEPT !.phase = "failed", !.excluded = @ \cup {c.route},
                          !.user = NoUser, !.ppm = 0]
<1>1. TypeOK /\ CallsKnown /\ c.phase = "streaming"
  BY DEF Sound, Failed
<1>2. c \in Calls
  BY <1>1, CallTypes
<1>3. call' = [call EXCEPT ![s] = IF retry THEN d ELSE Idle]
  BY DEF Failed
<1>4. retry => d \in Calls /\ d.phase = "failed" /\ d.attempts < MaxAttempts
  <2> HIDE DEF c
  <2> QED BY <1>2 DEF Calls, Phases
<1> DEFINE e == IF retry THEN d ELSE Idle
<1>5. /\ e \in Calls \cup {Idle} /\ e.phase \in {"failed", "idle"}
      /\ e.phase = "failed" => e.attempts < MaxAttempts
  BY <1>4 DEF Idle
<1> HIDE DEF e
<1>6. call' = [call EXCEPT ![s] = e]
  BY <1>3 DEF e
<1>7. TypeOK'
  BY <1>1, <1>5, <1>6 DEF TypeOK, Failed
<1>8. CallsKnown'
  BY <1>1, <1>5, <1>6 DEF CallsKnown, TypeOK, Failed
<1>9. OffBooks
  BY <1>1, <1>5, <1>6 DEF OffBooks, InFlight, TypeOK, Failed
<1> QED
  BY <1>7, <1>8, <1>9 DEF Sound

LEMMA ChangesSound ==
  ASSUME Sound,
         \/ \E s \in Sessions, u \in Users : BindIdentity(s, u)
         \/ \E r \in Routes, snapshot \in ModelChoices : UpdateModel(r, snapshot)
         \/ \E u \in Users, policy \in UserChoices : UpdateUser(u, policy)
         \/ \E p \in ProviderChoices : RefreshModelDirectory(p)
  PROVE  Sound' /\ OffBooks
<1>1. TypeOK /\ CallsKnown
  BY DEF Sound
<1>2. /\ changes' \in 0 .. MaxChanges
      /\ UNCHANGED <<settings, call, spent, now, calls, charged, own, ceiling>>
  BY <1>1, ChoicesAssumption
     DEF TypeOK, BindIdentity, UpdateModel, UpdateUser, RefreshModelDirectory
<1>3. directory' \in [DOMAIN InitDirectory -> Snapshots]
  BY <1>1, ChoicesAssumption
     DEF TypeOK, BindIdentity, UpdateModel, UpdateUser, RefreshModelDirectory
<1>4. users' \in [Users -> UserPolicies]
  BY <1>1, ChoicesAssumption
     DEF TypeOK, BindIdentity, UpdateModel, UpdateUser, RefreshModelDirectory
<1>5. bound' \in [Sessions -> Users \cup {NoUser}] /\ \A s \in Sessions : bound[s] \in Users => bound'[s] \in Users
  BY <1>1 DEF TypeOK, BindIdentity, UpdateModel, UpdateUser, RefreshModelDirectory
<1>6. providers' \in ProviderChoices
  BY <1>1 DEF TypeOK, BindIdentity, UpdateModel, UpdateUser, RefreshModelDirectory
<1>7. TypeOK'
  BY <1>1, <1>2, <1>3, <1>4, <1>5, <1>6 DEF TypeOK
<1>8. CallsKnown'
  <2>1. \A r \in DOMAIN directory' : directory'[r].ppm \in Prices
    BY <1>1 DEF TypeOK, CallsKnown, Prices, BindIdentity, UpdateModel, UpdateUser,
                RefreshModelDirectory
  <2> QED BY <1>1, <1>2, <1>5, <2>1 DEF CallsKnown
<1>9. OffBooks
  BY <1>2 DEF OffBooks, InFlight
<1> QED
  BY <1>7, <1>8, <1>9 DEF Sound

LEMMA TickSound ==
  ASSUME Sound, Tick
  PROVE  /\ Sound' /\ now + 1 \in FirstTime .. MaxTime /\ now' = now + 1
         /\ LocalMonth(now') = LocalMonth(now + 1) /\ LocalMonth(now)' = LocalMonth(now + 1)
<1>1. /\ TypeOK /\ now \in FirstTime .. MaxTime /\ now + 1 \in FirstTime .. MaxTime
      /\ now' = now + 1
      /\ UNCHANGED <<settings, directory, users, providers, bound, call, spent, calls,
                     changes, ceiling>>
  BY CalendarAssumption DEF Sound, TypeOK, Tick
<1>2. charged' \in [Users -> Nat] /\ own' \in [Users -> Nat]
  BY <1>1 DEF Tick, TypeOK
<1>3. TypeOK'
  BY <1>1, <1>2 DEF TypeOK
<1>4. CallsKnown'
  BY <1>1 DEF Sound, CallsKnown
<1> QED
  BY <1>1, <1>3, <1>4 DEF Sound, LocalMonth, LocalTime

LEMMA TickKeeps ==
  ASSUME OffsetsAreRead, Accounts, Tick
  PROVE  Accounts'
<1> DEFINE m == LocalMonth(now)
           n == LocalMonth(now + 1)
           none == [u \in Users |-> 0]
<1>1. /\ Sound /\ Sound' /\ TypeOK /\ now' = now + 1
      /\ UNCHANGED <<call, spent, ceiling>>
  BY TickSound DEF Accounts, Sound, Tick
<1>2. m \in Months /\ n \in Months /\ m <= n /\ LocalMonth(now') = n /\ LocalMonth(now)' = n
  <2>1. now \in FirstTime .. MaxTime /\ now + 1 \in FirstTime .. MaxTime
    BY <1>1, TickSound DEF TypeOK
  <2> QED BY <1>1, <2>1, TickSound, Instants, MonthsAdvance
<1>3. /\ charged' = IF n # m THEN none ELSE charged
      /\ own' = IF n # m THEN none ELSE own
  BY <1>1, <1>2 DEF Tick
<1> HIDE DEF m, n
<1>6. WindowsToCome'
  <2>1. \A u \in Users, k \in Months : k > m => spent[u][k] = 0
    BY DEF Accounts, WindowsToCome, m
  <2>2. \A k \in Months : k > n => k > m
    BY <1>2 DEF Months
  <2>3. \A u \in Users, k \in Months : k > n => spent'[u][k] = 0
    BY <1>1, <2>1, <2>2
  <2> QED BY <1>2, <2>3 DEF WindowsToCome
<1>7. ChargesAreCounted'
  <2>1. SUFFICES ASSUME NEW u \in Users PROVE UsedCreditsNanos(u)' = charged'[u]
    BY DEF ChargesAreCounted
  <2>2. UsedCreditsNanos(u)' = spent[u][n]
    BY <1>1, <1>2 DEF UsedCreditsNanos
  <2>3. UsedCreditsNanos(u) = charged[u] /\ UsedCreditsNanos(u) = spent[u][m]
    BY DEF Accounts, ChargesAreCounted, UsedCreditsNanos, m
  <2>4. CASE n = m
    BY <1>3, <2>2, <2>3, <2>4
  <2>5. CASE n # m
    <3>1. n > m
      BY <1>2, <2>5 DEF Months
    <3>2. spent[u][n] = 0
      BY <1>2, <3>1 DEF Accounts, WindowsToCome, m
    <3> QED BY <1>3, <2>2, <2>5, <3>2
  <2> QED BY <2>4, <2>5
<1>8. OwnIsCharged'
  BY <1>3 DEF Accounts, OwnIsCharged
<1>9. \A u \in Users : AccountOf(u)'
  <2>1. TAKE u \in Users
  <2>2. InFlight(u)' = InFlight(u) /\ ceiling'[u] = ceiling[u]
    BY <1>1 DEF InFlight
  <2>3. CASE own'[u] = own[u]
    BY <2>2, <2>3, AccountKept
  <2>4. CASE own'[u] = 0
    <3> DEFINE k == Cardinality(InFlight(u))
               c == Cardinality(Sessions)
    <3>1. AccountOf(u) /\ own[u] \in Nat /\ ceiling[u] \in Nat /\ MaxCost \in Nat
      BY <1>1, CostAssumption DEF Accounts, TypeOK
    <3>2. k \in Nat /\ c \in Nat
      BY SessionCount
    <3>3. CASE InFlight(u) = {}
      BY <2>2, <2>4, <3>3 DEF AccountOf
    <3>4. CASE ceiling[u] > 0 /\ own[u] + k * MaxCost < ceiling[u] + c * MaxCost
      <4> HIDE DEF k, c
      <4>1. k * MaxCost \in Nat /\ c * MaxCost \in Nat
        BY <3>1, <3>2
      <4>2. 0 + k * MaxCost < ceiling[u] + c * MaxCost
        BY <3>1, <3>4, <4>1
      <4> QED BY <2>2, <2>4, <3>4, <4>2 DEF AccountOf, k, c
    <3> QED BY <3>1, <3>3, <3>4 DEF AccountOf
  <2> QED BY <1>1, <1>3, <2>1, <2>3, <2>4
<1> QED
  BY <1>1, <1>6, <1>7, <1>8, <1>9 DEF Accounts

\* A usage row of a user, of now.
Charge(u, cost) ==
  /\ spent' = [spent EXCEPT ![u][WindowOf(now)] = @ + cost]
  /\ charged' = [charged EXCEPT ![u] = @ + cost]
  /\ now' = now

LEMMA ChargeTypes ==
  ASSUME TypeOK, NEW u \in Users, NEW cost \in Nat, Charge(u, cost)
  PROVE  /\ spent' \in [Users -> [Months -> Nat]] /\ charged' \in [Users -> Nat]
         /\ WindowOf(now) \in Months
         /\ \A v \in Users, m \in Months :
              spent'[v][m] = IF v = u /\ m = WindowOf(now) THEN spent[v][m] + cost ELSE spent[v][m]
<1>1. WindowOf(now) \in Months
  BY Instants DEF TypeOK
<1> QED
  BY <1>1 DEF Charge, TypeOK

LEMMA ChargeKeepsBooks ==
  ASSUME OffsetsAreRead, Accounts, NEW u \in Users, NEW cost \in Nat, Charge(u, cost)
  PROVE  WindowsToCome' /\ ChargesAreCounted'
<1> DEFINE m == LocalMonth(now)
<1>1. TypeOK
  BY DEF Accounts, Sound
<1>2. m \in Months /\ WindowOf(now) = m /\ LocalMonth(now)' = m
  <2>1. now' = now /\ now \in FirstTime .. MaxTime
    BY <1>1 DEF Charge, TypeOK
  <2> QED BY <2>1, Instants, MonthOfNow DEF LocalMonth, LocalTime
<1> HIDE DEF m
<1>3. \A v \in Users, k \in Months :
        spent'[v][k] = IF v = u /\ k = m THEN spent[v][k] + cost ELSE spent[v][k]
  BY <1>1, <1>2, ChargeTypes
<1>4. WindowsToCome'
  <2>1. \A v \in Users, k \in Months : k > m => spent[v][k] = 0
    BY DEF Accounts, WindowsToCome, m
  <2>2. \A v \in Users, k \in Months : k > m => spent'[v][k] = spent[v][k]
    BY <1>2, <1>3 DEF Months
  <2> QED BY <1>2, <2>1, <2>2 DEF WindowsToCome
<1>5. ChargesAreCounted'
  <2>1. SUFFICES ASSUME NEW v \in Users PROVE UsedCreditsNanos(v)' = charged'[v]
    BY DEF ChargesAreCounted
  <2>2. UsedCreditsNanos(v)' = spent'[v][m] /\ spent[v][m] = charged[v]
    BY <1>2 DEF Accounts, ChargesAreCounted, UsedCreditsNanos, m
  <2>3. charged'[v] = IF v = u THEN charged[v] + cost ELSE charged[v]
    BY <1>1 DEF Charge, TypeOK
  <2> QED BY <1>2, <1>3, <2>2, <2>3
<1> QED
  BY <1>4, <1>5

\* A charge moves at most one price from the calls under way to the own charges.
LEMMA ChargeKeepsAccount ==
  ASSUME Accounts, NEW u \in Users, NEW s \in InFlight(u), InFlight(u)' = InFlight(u) \ {s},
         NEW cost \in 0 .. MaxCost, own'[u] \in {own[u], own[u] + cost}, ceiling' = ceiling
  PROVE  AccountOf(u)'
<1> DEFINE k == Cardinality(InFlight(u))
           l == Cardinality(InFlight(u)')
           n == Cardinality(Sessions)
<1>1. k \in Nat /\ n \in Nat /\ l = k - 1
  BY SessionCount, FS_RemoveElement
<1>2. own[u] \in Nat /\ ceiling[u] \in Nat /\ MaxCost \in Nat
  BY CostAssumption DEF Accounts, Sound, TypeOK
<1>3. ceiling[u] > 0 /\ own[u] + k * MaxCost < ceiling[u] + n * MaxCost
  BY DEF Accounts, AccountOf
<1> HIDE DEF k, l, n
<1>4. k * MaxCost = l * MaxCost + MaxCost /\ k * MaxCost \in Nat /\ n * MaxCost \in Nat
  BY <1>1, <1>2
<1>5. own'[u] + l * MaxCost < ceiling[u] + n * MaxCost
  BY <1>1, <1>2, <1>3, <1>4
<1> QED
  BY <1>3, <1>5 DEF AccountOf, l, n

\* What a call that completes does, with its parts named.
LEMMA Completes ==
  ASSUME Sound, NEW s \in Sessions, NEW tokens \in TokenCounts, Completed(s, tokens)
  PROVE  /\ call[s].phase = "streaming" /\ call[s].user \in Users /\ call[s].admitted \in Users
         /\ \E cost \in 0 .. MaxCost :
              /\ cost \in Nat /\ Charge(call[s].user, cost)
              /\ own' = IF call[s].user = call[s].admitted
                        THEN [own EXCEPT ![call[s].user] = @ + cost] ELSE own
         /\ call' = [call EXCEPT ![s] = Idle]
         /\ UNCHANGED <<settings, directory, users, providers, bound, now, calls, changes,
                        ceiling>>
<1> DEFINE c == call[s]
           cost == CreditNanos(tokens, c.ppm)
<1>1. TypeOK /\ CallsKnown /\ c.phase = "streaming"
  BY DEF Sound, Completed
<1>2. c \in Calls /\ c.user \in Users /\ c.ppm \in Prices /\ c.admitted \in Users
  <2>1. c \in Calls /\ c.user \in Users /\ c.ppm \in Prices
    BY <1>1, CallTypes DEF CallsKnown
  <2> QED BY <2>1 DEF Calls
<1>3. cost \in 0 .. MaxCost /\ MaxCost \in Nat
  BY <1>2, CostAssumption
<1>4. /\ Charge(c.user, cost)
      /\ own' = IF c.user = c.admitted THEN [own EXCEPT ![c.user] = @ + cost] ELSE own
      /\ call' = [call EXCEPT ![s] = Idle]
      /\ UNCHANGED <<settings, directory, users, providers, bound, now, calls, changes,
                     ceiling>>
  BY DEF Completed, Charge
<1> HIDE DEF cost
<1>5. cost \in Nat
  BY <1>3
<1> QED
  BY <1>1, <1>2, <1>3, <1>4, <1>5

LEMMA CompletedSound ==
  ASSUME Sound, NEW s \in Sessions, NEW tokens \in TokenCounts, Completed(s, tokens)
  PROVE  Sound'
<1> DEFINE u == call[s].user
<1>1. TypeOK /\ CallsKnown /\ u \in Users
  BY Completes DEF Sound
<1>2. PICK cost \in Nat :
        /\ Charge(u, cost)
        /\ own' = IF u = call[s].admitted THEN [own EXCEPT ![u] = @ + cost] ELSE own
  BY Completes
<1>3. /\ call' = [call EXCEPT ![s] = Idle]
      /\ UNCHANGED <<settings, directory, users, providers, bound, now, calls, changes,
                     ceiling>>
  BY Completes
<1> HIDE DEF u
<1>4. spent' \in [Users -> [Months -> Nat]] /\ charged' \in [Users -> Nat]
  BY <1>1, <1>2, ChargeTypes
<1>5. TypeOK'
  BY <1>1, <1>2, <1>3, <1>4 DEF TypeOK
<1>6. CallsKnown'
  BY <1>1, <1>3 DEF CallsKnown, TypeOK, Idle
<1> QED
  BY <1>5, <1>6 DEF Sound

LEMMA CompletedKeeps ==
  ASSUME OffsetsAreRead, Accounts, NEW s \in Sessions, NEW tokens \in TokenCounts,
         Completed(s, tokens)
  PROVE  Accounts'
<1> DEFINE u == call[s].user
           a == call[s].admitted
<1>1. Sound /\ TypeOK /\ call[s].phase = "streaming" /\ u \in Users /\ a \in Users
  BY Completes DEF Accounts, Sound
<1>2. PICK cost \in 0 .. MaxCost :
        /\ cost \in Nat /\ Charge(u, cost)
        /\ own' = IF u = a THEN [own EXCEPT ![u] = @ + cost] ELSE own
  BY <1>1, Completes
<1>3. call' = [call EXCEPT ![s] = Idle] /\ ceiling' = ceiling
  BY <1>1, Completes
<1>4. Sound'
  BY <1>1, CompletedSound
<1> HIDE DEF u, a
<1>5. WindowsToCome' /\ ChargesAreCounted'
  BY <1>1, <1>2, ChargeKeepsBooks
<1>6. OwnIsCharged'
  <2>1. \A v \in Users : own[v] <= charged[v] /\ own[v] \in Nat /\ charged[v] \in Nat
    BY <1>1 DEF Accounts, OwnIsCharged, TypeOK
  <2>2. \A v \in Users : /\ own'[v] \in {own[v], own[v] + cost}
                         /\ own'[v] # own[v] => v = u
                         /\ charged'[v] = IF v = u THEN charged[v] + cost ELSE charged[v]
    BY <1>1, <1>2 DEF TypeOK, Charge
  <2> QED BY <1>2, <2>1, <2>2 DEF OwnIsCharged
<1>7. \A v \in Users : AccountOf(v)'
  <2>1. TAKE v \in Users
  <2>2. CASE v = a
    <3>1. s \in InFlight(v)
      BY <1>1, <2>2 DEF InFlight, a
    <3>2. InFlight(v)' = InFlight(v) \ {s}
      BY <1>1, <1>3 DEF InFlight, TypeOK, Idle
    <3>3. own'[v] \in {own[v], own[v] + cost}
      BY <1>1, <1>2 DEF TypeOK
    <3> QED BY <1>2, <1>3, <3>1, <3>2, <3>3, ChargeKeepsAccount
  <2>3. CASE v # a
    <3>1. InFlight(v)' \subseteq InFlight(v)
      BY <1>1, <1>3 DEF InFlight, TypeOK, Idle
    <3>2. own'[v] = own[v] /\ ceiling'[v] = ceiling[v]
      BY <1>1, <1>2, <1>3, <2>3 DEF TypeOK
    <3> QED BY <3>1, <3>2, AccountKept
  <2> QED BY <2>2, <2>3
<1> QED
  BY <1>4, <1>5, <1>6, <1>7 DEF Accounts

\* What a classification does, with its parts named.
LEMMA Classifies ==
  ASSUME Sound, NEW tokens \in TokenCounts, ClassifierCall(tokens)
  PROVE  /\ \/ UNCHANGED <<spent, charged, now>>
            \/ /\ settings.local \in Users
               /\ \E cost \in 0 .. MaxCost : cost \in Nat /\ Charge(settings.local, cost)
         /\ calls' \in 0 .. MaxCalls
         /\ UNCHANGED <<settings, directory, users, providers, bound, call, now, changes, own,
                        ceiling>>
<1> DEFINE cost == CreditNanos(tokens, GetMultiplierPpm(directory, LightRoute))
<1>1. TypeOK /\ settings.local \in Users \cup {NoUser} /\ NoUser \notin Users
  BY ChoicesAssumption DEF Sound, TypeOK
<1>2. GetMultiplierPpm(directory, LightRoute) \in Prices
  BY MultiplierKnown
<1>3. cost \in 0 .. MaxCost /\ MaxCost \in Nat
  BY <1>2, CostAssumption
<1>4. calls' \in 0 .. MaxCalls
  BY <1>1, ChoicesAssumption DEF ClassifierCall, TypeOK
<1>5. /\ settings.local = NoUser => UNCHANGED <<spent, charged, now>>
      /\ settings.local # NoUser => Charge(settings.local, cost)
      /\ UNCHANGED <<settings, directory, users, providers, bound, call, now, changes, own,
                     ceiling>>
  BY DEF ClassifierCall, Charge
<1> HIDE DEF cost
<1>6. cost \in Nat
  BY <1>3
<1> QED
  BY <1>1, <1>3, <1>4, <1>5, <1>6

LEMMA ClassifierSound ==
  ASSUME Sound, NEW tokens \in TokenCounts, ClassifierCall(tokens)
  PROVE  Sound'
<1>1. TypeOK /\ CallsKnown
  BY DEF Sound
<1>2. /\ calls' \in 0 .. MaxCalls
      /\ UNCHANGED <<settings, directory, users, providers, bound, call, now, changes, own,
                     ceiling>>
  BY Classifies
<1>3. spent' \in [Users -> [Months -> Nat]] /\ charged' \in [Users -> Nat]
  <2>1. CASE UNCHANGED <<spent, charged, now>>
    BY <1>1, <2>1 DEF TypeOK
  <2>2. ASSUME NEW u \in Users, NEW cost \in Nat, Charge(u, cost)
        PROVE  spent' \in [Users -> [Months -> Nat]] /\ charged' \in [Users -> Nat]
    BY <1>1, <2>2, ChargeTypes
  <2> QED BY <2>1, <2>2, Classifies
<1>4. TypeOK'
  BY <1>1, <1>2, <1>3 DEF TypeOK
<1>5. CallsKnown'
  BY <1>1, <1>2 DEF CallsKnown
<1> QED
  BY <1>4, <1>5 DEF Sound

LEMMA ClassifierKeeps ==
  ASSUME OffsetsAreRead, Accounts, NEW tokens \in TokenCounts, ClassifierCall(tokens)
  PROVE  Accounts'
<1>1. Sound /\ TypeOK /\ Sound'
  BY ClassifierSound DEF Accounts, Sound
<1>2. UNCHANGED <<call, own, ceiling>>
  BY <1>1, Classifies
<1>3. \A u \in Users : AccountOf(u)'
  <2>1. \A u \in Users : InFlight(u)' \subseteq InFlight(u)
    BY <1>2 DEF InFlight
  <2> QED BY <1>2, <2>1, AccountKept
<1>4. CASE UNCHANGED <<spent, charged, now>>
  BY <1>1, <1>2, <1>3, <1>4, BooksKept DEF Accounts
<1>5. ASSUME NEW u \in Users, NEW cost \in Nat, Charge(u, cost) PROVE Accounts'
  <2>1. WindowsToCome' /\ ChargesAreCounted'
    BY <1>5, ChargeKeepsBooks
  <2>2. OwnIsCharged'
    <3>1. \A v \in Users : own[v] <= charged[v] /\ own[v] \in Nat /\ charged[v] \in Nat
      BY <1>1 DEF Accounts, OwnIsCharged, TypeOK
    <3>2. \A v \in Users : charged'[v] = IF v = u THEN charged[v] + cost ELSE charged[v]
      BY <1>1, <1>5 DEF TypeOK, Charge
    <3> QED BY <1>2, <3>1, <3>2 DEF OwnIsCharged
  <2> QED BY <1>1, <1>3, <2>1, <2>2 DEF Accounts
<1> QED
  BY <1>1, <1>4, <1>5, Classifies

LEMMA FirstAttemptIsSelect ==
  ASSUME NEW s \in Sessions, NEW request \in RequestChoices, FirstAttempt(s, request)
  PROVE  /\ request \in Requests /\ {} \in SUBSET Routes /\ 0 \in 0 .. MaxAttempts - 1
         /\ SelectModel(s, request, {}, 0)
         /\ call[s].phase \notin {"committing", "streaming"}
BY ChoicesAssumption DEF FirstAttempt

LEMMA RetryIsSelect ==
  ASSUME Sound, NEW s \in Sessions, Retry(s)
  PROVE  /\ call[s].request \in Requests /\ call[s].excluded \in SUBSET Routes
         /\ call[s].attempts \in 0 .. MaxAttempts - 1
         /\ SelectModel(s, call[s].request, call[s].excluded, call[s].attempts)
         /\ call[s].phase \notin {"committing", "streaming"}
<1>1. call[s] \in Calls
  BY CallTypes DEF Sound, Retry
<1>2. call[s].attempts < MaxAttempts
  BY DEF Sound, CallsKnown, Retry
<1> QED
  BY <1>1, <1>2, ChoicesAssumption DEF Retry, Calls

\* The steps that neither select, nor charge, nor let time pass.
LEMMA QuietSteps ==
  ASSUME Sound,
         \/ UNCHANGED vars
         \/ \E s \in Sessions : CommitFails(s) \/ Dispatch(s)
         \/ \E s \in Sessions, retryable \in BOOLEAN : Failed(s, retryable)
         \/ \E s \in Sessions, u \in Users : BindIdentity(s, u)
         \/ \E r \in Routes, snapshot \in ModelChoices : UpdateModel(r, snapshot)
         \/ \E u \in Users, policy \in UserChoices : UpdateUser(u, policy)
         \/ \E p \in ProviderChoices : RefreshModelDirectory(p)
         \/ Crash
  PROVE  Sound' /\ OffBooks
<1>1. CASE UNCHANGED vars
  <2>1. TypeOK'
    BY <1>1 DEF Sound, TypeOK, vars
  <2>2. CallsKnown'
    BY <1>1 DEF Sound, CallsKnown, vars
  <2>3. OffBooks
    BY <1>1 DEF OffBooks, InFlight, vars
  <2> QED BY <2>1, <2>2, <2>3 DEF Sound
<1> QED
  BY <1>1, CommitFailsSound, DispatchSound, FailedSound, ChangesSound, CrashSound

LEMMA NextSound == Sound /\ [Next]_vars => Sound'
<1> SUFFICES ASSUME Sound, [Next]_vars PROVE Sound'
  OBVIOUS
<1>1. ASSUME NEW s \in Sessions, NEW request \in RequestChoices, FirstAttempt(s, request)
      PROVE  Sound'
  BY <1>1, FirstAttemptIsSelect, SelectModelSound
<1>2. ASSUME NEW s \in Sessions, Retry(s) PROVE Sound'
  BY <1>2, RetryIsSelect, SelectModelSound
<1> QED
  BY <1>1, <1>2, QuietSteps, CompletedSound, ClassifierSound, TickSound DEF Next

LEMMA NextAccounts == OffsetsAreRead /\ Accounts /\ [Next]_vars => Accounts'
<1> SUFFICES ASSUME OffsetsAreRead, Accounts, [Next]_vars PROVE Accounts'
  OBVIOUS
<1>0. Sound
  BY DEF Accounts
<1>1. ASSUME NEW s \in Sessions, NEW request \in RequestChoices, FirstAttempt(s, request)
      PROVE  Accounts'
  BY <1>1, FirstAttemptIsSelect, SelectModelKeeps
<1>2. ASSUME NEW s \in Sessions, Retry(s) PROVE Accounts'
  BY <1>0, <1>2, RetryIsSelect, SelectModelKeeps
<1>3. Sound' /\ OffBooks => Accounts'
  BY OffBooksKeeps
<1> QED
  BY <1>0, <1>1, <1>2, <1>3, QuietSteps, CompletedKeeps, ClassifierKeeps, TickKeeps DEF Next

\* What holds of every execution in every zone.
THEOREM AlwaysSound == Spec => []Sound
<1> QED
  BY InitSound, NextSound, PTL DEF Spec

\* The inductive invariant holds of every execution where offsets are read right.
THEOREM AlwaysAccounts == OffsetsAreRead => (Spec => []Accounts)
<1> SUFFICES ASSUME OffsetsAreRead PROVE Spec => []Accounts
  OBVIOUS
<1>1. Accounts /\ [Next]_vars => Accounts'
  BY NextAccounts
<1> QED
  BY <1>1, InitAccounts, PTL DEF Spec

\* Every variable keeps its type; an attempt beyond MaxAttempts would break it.
THEOREM TypeCorrect == Spec => []TypeOK
<1>1. Sound => TypeOK
  BY DEF Sound
<1> QED
  BY <1>1, AlwaysSound, PTL

\* The window the quota check reads holds exactly the charges of the user's month on
\* local clocks, those of classifications too, for every zone whose offsets are read
\* right; QuietStartsAreRead says which do, LateChargesAreMissed what happens otherwise.
THEOREM WindowsAreRight == OffsetsAreRead => (Spec => []ChargesAreCounted)
<1> SUFFICES ASSUME OffsetsAreRead PROVE Spec => []ChargesAreCounted
  OBVIOUS
<1>1. Accounts => ChargesAreCounted
  BY DEF Accounts
<1> QED
  BY <1>1, AlwaysAccounts, PTL

\* A limit is passed by less than the cost of one call per session by the calls a user was
\* admitted for, however many sessions of the user run and whatever changes while they do.
THEOREM OverrunIsBounded == OffsetsAreRead => (Spec => []OverrunBounded)
<1> SUFFICES ASSUME OffsetsAreRead PROVE Spec => []OverrunBounded
  OBVIOUS
<1>1. Accounts => OverrunBounded
  <2> SUFFICES ASSUME Accounts, NEW u \in Users, own[u] # 0
               PROVE  own[u] < ceiling[u] + Cardinality(Sessions) * MaxCost
    BY DEF OverrunBounded
  <2> DEFINE k == Cardinality(InFlight(u))
             n == Cardinality(Sessions)
  <2>1. k \in Nat /\ n \in Nat /\ MaxCost \in Nat /\ own[u] \in Nat /\ ceiling[u] \in Nat
    BY SessionCount, CostAssumption DEF Accounts, Sound, TypeOK
  <2>2. own[u] + k * MaxCost < ceiling[u] + n * MaxCost
    BY DEF Accounts, AccountOf
  <2> HIDE DEF k, n
  <2>3. k * MaxCost \in Nat /\ n * MaxCost \in Nat
    BY <2>1
  <2>4. own[u] < ceiling[u] + n * MaxCost
    BY <2>1, <2>2, <2>3
  <2> QED BY <2>4 DEF n
<1> QED
  BY <1>1, AlwaysAccounts, PTL

\* Two kinds of charges need no admission: those of classifications in local mode, and of a
\* call whose session is bound to another user between admission and dispatch.
UnadmittedCharge ==
  \/ settings.local # NoUser /\ \E tokens \in TokenCounts : ClassifierCall(tokens)
  \/ \E s \in Sessions, u \in Users : call[s].phase = "committing" /\ BindIdentity(s, u)

\* The bound for all that a user is charged.
AllBounded ==
  \A u \in Users : \/ charged[u] = 0
                   \/ charged[u] < ceiling[u] + Cardinality(Sessions) * MaxCost

\* Every charge is its user's own, and every call is charged to the user admitted for it.
AllOwn ==
  /\ own = charged
  /\ \A s \in Sessions :
       /\ call[s].phase = "committing" => bound[s] = call[s].admitted
       /\ call[s].phase = "streaming" => call[s].user = call[s].admitted

LEMMA OwnStep ==
  ASSUME Sound, AllOwn, [Next]_vars, ~UnadmittedCharge
  PROVE  AllOwn'
<1>1. TypeOK
  BY DEF Sound
<1>2. ASSUME NEW s \in Sessions, NEW request \in Requests, NEW excluded \in SUBSET Routes,
             NEW attempts \in 0 .. MaxAttempts - 1, SelectModel(s, request, excluded, attempts)
      PROVE  AllOwn'
  <2>1. UNCHANGED <<bound, charged, own>>
    BY <1>2, Selects
  <2>2. PICK d \in Calls \cup {Idle} :
          /\ call' = [call EXCEPT ![s] = d]
          /\ d.phase = "idle" \/ (d.phase = "committing" /\ d.admitted = bound[s])
    <3>1. Idle \in Calls \cup {Idle} /\ Idle.phase = "idle"
      BY DEF Idle
    <3>2. \/ call' = [call EXCEPT ![s] = Idle]
          \/ \E c \in Calls : /\ call' = [call EXCEPT ![s] = c]
                             /\ c.phase = "committing" /\ c.admitted = bound[s]
      BY <1>2, Selects
    <3>3. CASE call' = [call EXCEPT ![s] = Idle]
      BY <3>1, <3>3
    <3> QED BY <3>2, <3>3
  <2> QED BY <1>1, <2>1, <2>2 DEF AllOwn, TypeOK
<1>3. ASSUME NEW s \in Sessions, NEW tokens \in TokenCounts, Completed(s, tokens) PROVE AllOwn'
  <2>1. PICK cost \in Nat :
          /\ charged' = [charged EXCEPT ![call[s].user] = @ + cost]
          /\ own' = IF call[s].user = call[s].admitted
                    THEN [own EXCEPT ![call[s].user] = @ + cost] ELSE own
    BY <1>3, Completes DEF Charge
  <2>2. call[s].phase = "streaming" /\ call' = [call EXCEPT ![s] = Idle] /\ bound' = bound
    BY <1>3, Completes
  <2>3. own' = charged'
    BY <2>1, <2>2 DEF AllOwn
  <2> QED BY <1>1, <2>2, <2>3 DEF AllOwn, TypeOK, Idle
<1>4. ASSUME NEW tokens \in TokenCounts, ClassifierCall(tokens) PROVE AllOwn'
  <2>1. settings.local = NoUser
    BY <1>4 DEF UnadmittedCharge
  <2>2. UNCHANGED <<call, bound, own, charged>>
    BY <1>4, <2>1 DEF ClassifierCall
  <2> QED BY <2>2 DEF AllOwn
<1>5. CASE Tick
  <2>1. call' = call /\ bound' = bound /\ own' = charged'
    BY <1>5 DEF Tick, AllOwn
  <2> QED BY <2>1 DEF AllOwn
<1>6. ASSUME NEW s \in Sessions, Dispatch(s) PROVE AllOwn'
  <2> DEFINE c == call[s]
             p == GetMultiplierPpm(directory, c.route)
             d == [c EXCEPT !.phase = "streaming", !.user = bound[s], !.ppm = p]
  <2>1. c \in Calls /\ c.phase = "committing"
    BY <1>1, <1>6, CallTypes DEF Dispatch
  <2>2. call' = [call EXCEPT ![s] = d] /\ UNCHANGED <<bound, charged, own>>
    BY <1>6, <2>1 DEF Dispatch
  <2>3. d.phase = "streaming" /\ d.user = bound[s] /\ d.admitted = c.admitted
    BY <2>1 DEF Calls
  <2>4. bound[s] = c.admitted
    BY <2>1 DEF AllOwn
  <2> HIDE DEF d, c, p
  <2> QED BY <1>1, <2>2, <2>3, <2>4 DEF AllOwn, TypeOK
<1>7. ASSUME NEW s \in Sessions, NEW retryable \in BOOLEAN, Failed(s, retryable) PROVE AllOwn'
  <2> DEFINE c == call[s]
             d == [c EXCEPT !.phase = "failed", !.excluded = @ \cup {c.route},
                            !.user = NoUser, !.ppm = 0]
  <2>1. c \in Calls
    BY <1>1, <1>7, CallTypes DEF Failed
  <2>2. /\ call' = [call EXCEPT ![s] = d] \/ call' = [call EXCEPT ![s] = Idle]
        /\ UNCHANGED <<bound, charged, own>>
    BY <1>7, Zenon DEF Failed
  <2>3. d.phase = "failed"
    BY <2>1 DEF Calls
  <2> HIDE DEF d, c
  <2> QED BY <1>1, <2>2, <2>3 DEF AllOwn, TypeOK, Idle
<1>8. ASSUME NEW s \in Sessions, NEW u \in Users, BindIdentity(s, u) PROVE AllOwn'
  <2>1. call[s].phase # "committing"
    BY <1>8 DEF UnadmittedCharge
  <2> QED BY <1>1, <1>8, <2>1 DEF AllOwn, TypeOK, BindIdentity
<1>9. CASE \/ UNCHANGED vars
           \/ \E s \in Sessions : CommitFails(s)
           \/ \E r \in Routes, snapshot \in ModelChoices : UpdateModel(r, snapshot)
           \/ \E u \in Users, policy \in UserChoices : UpdateUser(u, policy)
           \/ \E p \in ProviderChoices : RefreshModelDirectory(p)
           \/ Crash
  <2>1. /\ UNCHANGED <<bound, charged, own>>
        /\ \/ call' = call \/ call' = [z \in Sessions |-> Idle]
           \/ \E s \in Sessions : call' = [call EXCEPT ![s] = Idle]
    BY <1>9, Zenon DEF vars, CommitFails, UpdateModel, UpdateUser, RefreshModelDirectory, Crash
  <2> QED BY <1>1, <2>1 DEF AllOwn, TypeOK, Idle
<1> QED
  BY <1>2, <1>3, <1>4, <1>5, <1>6, <1>7, <1>8, <1>9, FirstAttemptIsSelect, RetryIsSelect DEF Next

\* These two are the only ways past the bound: without them all that a user is charged keeps
\* to it (plugin/mod.ts:552, plugin/service.ts:603).
THEOREM OnlyUnadmittedExceeds ==
  OffsetsAreRead => (Spec /\ [][~UnadmittedCharge]_vars => []AllBounded)
<1> SUFFICES ASSUME OffsetsAreRead
             PROVE  Spec /\ [][~UnadmittedCharge]_vars => []AllBounded
  OBVIOUS
<1>1. Init => AllOwn
  BY DEF Init, AllOwn, Idle
<1>2. Sound /\ AllOwn /\ [Next]_vars /\ [~UnadmittedCharge]_vars => AllOwn'
  <2>1. CASE UNCHANGED vars
    BY <2>1 DEF AllOwn, vars
  <2> QED BY <2>1, OwnStep
<1>3. OverrunBounded /\ AllOwn => AllBounded
  BY DEF OverrunBounded, AllOwn, AllBounded
<1> QED
  BY <1>1, <1>2, <1>3, AlwaysSound, OverrunIsBounded, PTL DEF Spec

-----------------------------------------------------------------------------

LEMMA SelectModelSelects ==
  ASSUME Sound, NEW s \in Sessions, NEW request \in Requests, NEW excluded \in SUBSET Routes,
         NEW attempts \in 0 .. MaxAttempts - 1, SelectModel(s, request, excluded, attempts),
         NEW z \in Sessions
  PROVE  SelectionStep(z)
<1> DEFINE u == bound[s]
           o == Outcome(u, request, excluded)
           in == BuildFilterInput(u, request, excluded)
           c == [phase |-> "committing", request |-> request, excluded |-> excluded,
                 attempts |-> attempts + 1, route |-> o.route,
                 user |-> NoUser, admitted |-> u, ppm |-> 0]
<1>1. TypeOK /\ u \in Users
  BY DEF Sound, TypeOK, SelectModel
<1>2. call' = [call EXCEPT ![s] = IF o.code = "selected" THEN c ELSE Idle]
  BY DEF SelectModel
<1>3. z # s => call'[z] = call[z]
  BY <1>1, <1>2 DEF TypeOK
<1>4. CASE z = s /\ o.code = "selected"
  <2>1. Permitted(in, o.route)
    BY <1>1, <1>4, OutcomePermitted
  <2>7. o.route \in Routes
    BY <1>1, <2>1, PermittedHere
  <2>2. /\ o.route \in DOMAIN directory /\ directory[o.route].enabled
        /\ ProviderOf[o.route] \in providers.active \ providers.unavailable
        /\ users[u].allow = {} \/ o.route \in users[u].allow
        /\ o.route \notin excluded /\ ~IsQuotaExceeded(u)
    BY <1>1, <2>1, PermittedHere
  <2>3. UsedCreditsNanos(u) < LimitNanos(u)
    BY <1>1, <2>2, QuotaTypes DEF IsQuotaExceeded
  <2>4. request.mode = "manual" =>
          \/ o.route = request.requested
          \/ settings.fallbackOn /\ request.requested \in excluded
    <3> SUFFICES ASSUME request.mode = "manual",
                        ~(settings.fallbackOn /\ request.requested \in excluded)
                 PROVE  o.route = request.requested
      OBVIOUS
    <3>1. ~ManualFallback(in, request.requested, settings.fallbackOn)
      BY DEF ManualFallback, BuildFilterInput
    <3>2. o = RouteManual(in, request.requested)
      BY <3>1 DEF Outcome, Route
    <3>3. o.route \in {request.requested, NoRoute}
      BY <3>2 DEF RouteManual, Selected, Rejected
    <3>4. o.route \in Routes
      <4> HIDE DEF o, in
      <4> QED BY <2>7
    <3>5. o.route \in Nat
      BY <3>4, RoutesAssumption
    <3> HIDE DEF o, in
    <3> QED BY <3>3, <3>5 DEF NoRoute
  <2>5. call'[s] = c
    BY <1>1, <1>2, <1>4 DEF TypeOK
  <2>6. /\ c.route = o.route /\ c.excluded = excluded /\ c.request = request
    OBVIOUS
  <2> HIDE DEF c, o
  <2> QED BY <1>4, <2>2, <2>3, <2>4, <2>5, <2>6 DEF SelectionStep
<1>5. CASE z = s /\ o.code # "selected"
  <2>1. call'[s].phase = "idle"
    BY <1>1, <1>2, <1>5 DEF TypeOK, Idle
  <2> QED BY <1>5, <2>1 DEF SelectionStep
<1>6. CASE z # s
  BY <1>3, <1>6 DEF SelectionStep
<1> QED
  BY <1>4, <1>5, <1>6

\* No other step begins a commit.
LEMMA OthersSelectNothing ==
  ASSUME Sound, NEW z \in Sessions,
         \/ UNCHANGED call
         \/ Crash
         \/ \E s \in Sessions : CommitFails(s) \/ Dispatch(s)
         \/ \E s \in Sessions, tokens \in TokenCounts : Completed(s, tokens)
         \/ \E s \in Sessions, retryable \in BOOLEAN : Failed(s, retryable)
  PROVE  SelectionStep(z)
<1>1. call \in [Sessions -> Calls \cup {Idle}]
  BY DEF Sound, TypeOK
<1>2. CASE UNCHANGED call
  BY <1>2 DEF SelectionStep
<1>3. CASE Crash
  <2>1. call'[z].phase = "idle"
    BY <1>3 DEF Crash, Idle
  <2> QED BY <2>1 DEF SelectionStep
<1>4. ASSUME NEW s \in Sessions, CommitFails(s) PROVE SelectionStep(z)
  <2>1. call'[z] = call[z] \/ call'[z].phase = "idle"
    BY <1>1, <1>4 DEF CommitFails, Idle
  <2> QED BY <2>1 DEF SelectionStep
<1>5. ASSUME NEW s \in Sessions, Dispatch(s) PROVE SelectionStep(z)
  <2>1. call'[z] = call[z] \/ call'[z].phase # "committing"
    <3>1. z # s => call'[z] = call[z]
      BY <1>1, <1>5 DEF Dispatch
    <3>2. z = s => call'[z].phase # "committing"
      <4>1. call[s] \in Calls
        BY <1>5, CallTypes DEF Sound, Dispatch
      <4> QED BY <1>1, <1>5, <4>1 DEF Dispatch, Calls
    <3> QED BY <3>1, <3>2
  <2> QED BY <2>1 DEF SelectionStep
<1>6. ASSUME NEW s \in Sessions, NEW tokens \in TokenCounts, Completed(s, tokens)
      PROVE  SelectionStep(z)
  <2>1. call'[z] = call[z] \/ call'[z].phase = "idle"
    BY <1>1, <1>6 DEF Completed, Idle
  <2> QED BY <2>1 DEF SelectionStep
<1>7. ASSUME NEW s \in Sessions, NEW retryable \in BOOLEAN, Failed(s, retryable)
      PROVE  SelectionStep(z)
  <2>1. call'[z] = call[z] \/ call'[z].phase # "committing"
    <3>1. z # s => call'[z] = call[z]
      BY <1>1, <1>7 DEF Failed
    <3>2. z = s => call'[z].phase # "committing"
      <4>1. call[s] \in Calls
        BY <1>7, CallTypes DEF Sound, Failed
      <4> QED BY <1>1, <1>7, <4>1 DEF Failed, Calls, Idle
    <3> QED BY <3>1, <3>2
  <2> QED BY <2>1 DEF SelectionStep
<1> QED
  BY <1>2, <1>3, <1>4, <1>5, <1>6, <1>7

LEMMA StepSelects ==
  ASSUME Sound, [Next]_vars, NEW z \in Sessions
  PROVE  SelectionStep(z)
<1>1. ASSUME NEW s \in Sessions, NEW request \in RequestChoices, FirstAttempt(s, request)
      PROVE  SelectionStep(z)
  BY <1>1, FirstAttemptIsSelect, SelectModelSelects
<1>2. ASSUME NEW s \in Sessions, Retry(s) PROVE SelectionStep(z)
  BY <1>2, RetryIsSelect, SelectModelSelects
<1>3. CASE \/ UNCHANGED vars \/ Tick
           \/ \E tokens \in TokenCounts : ClassifierCall(tokens)
           \/ \E s \in Sessions, u \in Users : BindIdentity(s, u)
           \/ \E r \in Routes, snapshot \in ModelChoices : UpdateModel(r, snapshot)
           \/ \E u \in Users, policy \in UserChoices : UpdateUser(u, policy)
           \/ \E p \in ProviderChoices : RefreshModelDirectory(p)
  <2>1. UNCHANGED call
    BY <1>3 DEF vars, Tick, ClassifierCall, BindIdentity, UpdateModel, UpdateUser, RefreshModelDirectory
  <2> QED BY <2>1, OthersSelectNothing
<1> QED
  BY <1>1, <1>2, <1>3, OthersSelectNothing DEF Next

\* Every selection of every execution is of a route its user may use at that moment.
THEOREM SelectionsArePermitted == Spec => SelectionPermitted
<1>1. Sound /\ [Next]_vars => [\A s \in Sessions : SelectionStep(s)]_vars
  BY StepSelects
<1> QED
  BY <1>1, AlwaysSound, PTL DEF Spec, SelectionPermitted

-----------------------------------------------------------------------------
(* What is charged stays charged, and a request ends.                       *)

\* Usage changes only in the window of now and by at most one price: for the user of a
\* governed call that completes, or for the local user when a classification does.
UsageStep(u, m) ==
  \/ spent'[u][m] = spent[u][m]
  \/ /\ m = WindowOf(now)
     /\ \/ u = settings.local /\ UNCHANGED call
        \/ \E s \in Sessions :
             call[s].phase = "streaming" /\ call[s].user = u /\ call'[s].phase = "idle"
     /\ spent'[u][m] \in spent[u][m] .. spent[u][m] + MaxCost

UsageIsFinal == [][\A u \in Users, m \in Months : UsageStep(u, m)]_vars

LEMMA ChargeIsOnePrice ==
  ASSUME TypeOK, NEW v \in Users, NEW cost \in 0 .. MaxCost, Charge(v, cost),
         NEW u \in Users, NEW m \in Months
  PROVE  \/ spent'[u][m] = spent[u][m]
         \/ u = v /\ m = WindowOf(now) /\ spent'[u][m] \in spent[u][m] .. spent[u][m] + MaxCost
<1>1. MaxCost \in Nat /\ cost \in Nat /\ cost <= MaxCost /\ spent[u][m] \in Nat
  BY CostAssumption DEF TypeOK
<1>2. spent'[u][m] = IF u = v /\ m = WindowOf(now) THEN spent[u][m] + cost ELSE spent[u][m]
  BY <1>1, ChargeTypes
<1> QED
  BY <1>1, <1>2

\* A window that is over is never charged again and nothing is ever taken back, whatever
\* becomes of the binding, the prices and the calendar: a governed call is charged once, to
\* the user it was dispatched for, and a classification to the local user, at its end
\* (service.ts:1153, mod.ts:579, storage/repository.ts:688).
THEOREM ClosedMonthsAreFinal == Spec => UsageIsFinal
<1>1. ASSUME Sound, [Next]_vars, NEW u \in Users, NEW m \in Months
      PROVE  UsageStep(u, m)
  <2>0. TypeOK
    BY <1>1 DEF Sound
  <2>1. ASSUME NEW s \in Sessions, NEW tokens \in TokenCounts, Completed(s, tokens)
        PROVE  UsageStep(u, m)
    <3>1. /\ call[s].phase = "streaming" /\ call[s].user \in Users
          /\ call' = [call EXCEPT ![s] = Idle]
      BY <1>1, <2>1, Completes
    <3>2. call'[s].phase = "idle"
      BY <2>0, <3>1 DEF TypeOK, Idle
    <3>3. PICK cost \in 0 .. MaxCost : Charge(call[s].user, cost)
      BY <1>1, <2>1, Completes
    <3> QED BY <2>0, <3>1, <3>2, <3>3, ChargeIsOnePrice DEF UsageStep
  <2>2. ASSUME NEW tokens \in TokenCounts, ClassifierCall(tokens) PROVE UsageStep(u, m)
    <3>1. UNCHANGED call
      BY <1>1, <2>2, Classifies
    <3>2. CASE UNCHANGED spent
      BY <3>2 DEF UsageStep
    <3>3. ASSUME NEW cost \in 0 .. MaxCost, settings.local \in Users,
                 Charge(settings.local, cost)
          PROVE  UsageStep(u, m)
      BY <2>0, <3>1, <3>3, ChargeIsOnePrice DEF UsageStep
    <3> QED BY <1>1, <2>2, <3>2, <3>3, Classifies
  <2>3. CASE UNCHANGED spent
    BY <2>3 DEF UsageStep
  <2>4. \/ UNCHANGED spent
        \/ \E s \in Sessions, tokens \in TokenCounts : Completed(s, tokens)
        \/ \E tokens \in TokenCounts : ClassifierCall(tokens)
    BY <1>1, Zenon DEF Next, vars, FirstAttempt, Retry, SelectModel, CommitFails, Dispatch, Failed,
       BindIdentity, UpdateModel, UpdateUser, RefreshModelDirectory, Tick, Crash
  <2> QED BY <2>1, <2>2, <2>3, <2>4
<1>2. Sound /\ [Next]_vars => [\A u \in Users, m \in Months : UsageStep(u, m)]_vars
  BY <1>1
<1> QED
  BY <1>2, AlwaysSound, PTL DEF Spec, UsageIsFinal

\* At an instant whose window is not its local month's, no step changes what the quota
\* check reads.
MissedStep ==
  WindowOf(now) # LocalMonth(now) =>
    \/ now' # now
    \/ \A u \in Users : UsedCreditsNanos(u)' = UsedCreditsNanos(u)

\* Where an offset is not read right there is an instant whose charges the quota check of
\* that instant does not read: a charge then leaves what the check reads as it was, and
\* admissions go on (credits/quota.ts:68, service.ts:753).
THEOREM LateChargesAreMissed == Spec => [][MissedStep]_vars
<1>1. ASSUME Sound, [Next]_vars, \A u \in Users, m \in Months : UsageStep(u, m)
      PROVE  MissedStep
  <2> SUFFICES ASSUME WindowOf(now) # LocalMonth(now), now' = now, NEW u \in Users
               PROVE  UsedCreditsNanos(u)' = UsedCreditsNanos(u)
    BY DEF MissedStep
  <2>1. LocalMonth(now) \in Months
    BY <1>1, Instants DEF Sound, TypeOK
  <2>2. spent'[u][LocalMonth(now)] = spent[u][LocalMonth(now)]
    BY <1>1, <2>1 DEF UsageStep
  <2> QED BY <2>2 DEF UsedCreditsNanos, LocalMonth, LocalTime
<1>2. Sound /\ [Next]_vars /\ [\A u \in Users, m \in Months : UsageStep(u, m)]_vars
        => [MissedStep]_vars
  BY <1>1
<1> QED
  BY <1>2, AlwaysSound, ClosedMonthsAreFinal, PTL DEF Spec, UsageIsFinal

\* What a request still has to go: three steps an attempt.
Stage(c) == IF c.phase = "committing" THEN 2 ELSE IF c.phase = "streaming" THEN 1 ELSE 0
ToGo(c) == 3 * (MaxAttempts - c.attempts) + Stage(c)

RequestStep(s) ==
  LET c == call[s]
      d == call'[s]
  IN c.phase # "idle" =>
       \/ d = c
       \/ d = Idle
       \/ /\ d.request = c.request /\ c.excluded \subseteq d.excluded
          /\ d.phase = "failed" => c.route \in d.excluded
          /\ ToGo(d) \in Nat /\ ToGo(d) < ToGo(c)

RequestsDescend == [][\A s \in Sessions : RequestStep(s)]_vars

LEMMA RequestStays ==
  ASSUME call' = call \/ \E s \in Sessions : call' = [call EXCEPT ![s] = Idle],
         call \in [Sessions -> Calls \cup {Idle}], NEW z \in Sessions
  PROVE  RequestStep(z)
BY DEF RequestStep

\* The session of a step goes on with a call that has less to go; the others stay.
LEMMA RequestGoes ==
  ASSUME TypeOK, NEW s \in Sessions, NEW d, call' = [call EXCEPT ![s] = d],
         \/ call[s].phase = "idle" \/ d = Idle
         \/ /\ d.request = call[s].request /\ call[s].excluded \subseteq d.excluded
            /\ d.phase = "failed" => call[s].route \in d.excluded
            /\ ToGo(d) \in Nat /\ ToGo(d) < ToGo(call[s]),
         NEW z \in Sessions
  PROVE  RequestStep(z)
<1>1. call'[z] = IF z = s THEN d ELSE call[z]
  BY DEF TypeOK
<1> QED
  BY <1>1 DEF RequestStep

LEMMA SelectModelGoes ==
  ASSUME Sound, NEW s \in Sessions,
         \/ \E request \in RequestChoices : FirstAttempt(s, request)
         \/ Retry(s),
         NEW z \in Sessions
  PROVE  RequestStep(z)
<1>1. TypeOK
  BY DEF Sound
<1>2. ASSUME NEW request \in RequestChoices, FirstAttempt(s, request) PROVE RequestStep(z)
  <2>1. call[s].phase = "idle"
    BY <1>2 DEF FirstAttempt
  <2>2. \E d : call' = [call EXCEPT ![s] = d]
    BY <1>2, Zenon DEF FirstAttempt, SelectModel
  <2> QED BY <1>1, <2>1, <2>2, RequestGoes
<1>3. CASE Retry(s)
  <2> DEFINE c == call[s]
             u == bound[s]
             o == Outcome(u, c.request, c.excluded)
             d == [phase |-> "committing", request |-> c.request, excluded |-> c.excluded,
                   attempts |-> c.attempts + 1, route |-> o.route,
                   user |-> NoUser, admitted |-> u, ppm |-> 0]
  <2>1. c \in Calls /\ c.phase = "failed" /\ c.attempts < MaxAttempts
    BY <1>1, <1>3, CallTypes DEF Retry, Sound, CallsKnown
  <2>2. c.attempts \in Nat /\ MaxAttempts \in Nat
    BY <2>1, ChoicesAssumption DEF Calls
  <2>3. /\ d.phase = "committing" /\ d.request = c.request /\ d.excluded = c.excluded
        /\ d.attempts = c.attempts + 1
    OBVIOUS
  <2>4. call' = [call EXCEPT ![s] = d] \/ call' = [call EXCEPT ![s] = Idle]
    BY <1>3, Zenon DEF Retry, SelectModel
  <2> HIDE DEF d, c, o, u
  <2>5. /\ ToGo(d) = 3 * (MaxAttempts - c.attempts - 1) + 2
        /\ ToGo(c) = 3 * (MaxAttempts - c.attempts)
    BY <2>1, <2>2, <2>3 DEF ToGo, Stage
  <2>6. ToGo(d) \in Nat /\ ToGo(d) < ToGo(c)
    BY <2>1, <2>2, <2>5
  <2> QED BY <1>1, <2>3, <2>4, <2>6, RequestGoes DEF c
<1> QED
  BY <1>2, <1>3

LEMMA DispatchGoes ==
  ASSUME Sound, NEW s \in Sessions, Dispatch(s), NEW z \in Sessions
  PROVE  RequestStep(z)
<1> DEFINE c == call[s]
           ppm == GetMultiplierPpm(directory, c.route)
           d == [c EXCEPT !.phase = "streaming", !.user = bound[s], !.ppm = ppm]
<1>1. TypeOK /\ c \in Calls /\ c.phase = "committing"
  BY CallTypes DEF Sound, Dispatch
<1>2. call' = [call EXCEPT ![s] = d]
  BY <1>1 DEF Dispatch, TypeOK
<1>3. /\ d.phase = "streaming" /\ d.request = c.request /\ d.excluded = c.excluded
      /\ d.attempts = c.attempts
  BY <1>1 DEF Calls
<1>4. c.attempts \in 0 .. MaxAttempts /\ MaxAttempts \in Nat
  BY <1>1, ChoicesAssumption DEF Calls
<1> HIDE DEF d, c, ppm
<1>5. ToGo(d) \in Nat /\ ToGo(d) < ToGo(c)
  BY <1>1, <1>3, <1>4 DEF ToGo, Stage
<1> QED
  BY <1>1, <1>2, <1>3, <1>5, RequestGoes DEF c

LEMMA FailedGoes ==
  ASSUME Sound, NEW s \in Sessions, NEW retryable \in BOOLEAN, Failed(s, retryable),
         NEW z \in Sessions
  PROVE  RequestStep(z)
<1> DEFINE c == call[s]
           d == [c EXCEPT !.phase = "failed", !.excluded = @ \cup {c.route},
                          !.user = NoUser, !.ppm = 0]
<1>1. TypeOK /\ c \in Calls /\ c.phase = "streaming"
  BY CallTypes DEF Sound, Failed
<1>2. call' = [call EXCEPT ![s] = d] \/ call' = [call EXCEPT ![s] = Idle]
  BY Zenon DEF Failed
<1>3. /\ d.phase = "failed" /\ d.request = c.request
      /\ d.excluded = c.excluded \cup {c.route} /\ d.attempts = c.attempts
  BY <1>1 DEF Calls
<1>4. c.attempts \in 0 .. MaxAttempts /\ MaxAttempts \in Nat
  BY <1>1, ChoicesAssumption DEF Calls
<1> HIDE DEF d, c
<1>5. ToGo(d) \in Nat /\ ToGo(d) < ToGo(c)
  BY <1>1, <1>3, <1>4 DEF ToGo, Stage
<1> QED
  BY <1>1, <1>2, <1>3, <1>5, RequestGoes DEF c

\* A request never goes back: while it lasts it stays the request it was, a route that
\* failed stays excluded, and every step of it, a retry too, leaves less to go, of at most
\* three steps an attempt.  Rebinding, new policies and new prices cannot restart it
\* (fallback/mod.ts:79, service.ts:862).
THEOREM RequestsComeToAnEnd == Spec => RequestsDescend
<1>1. ASSUME Sound, [Next]_vars, NEW z \in Sessions PROVE RequestStep(z)
  <2>0. call \in [Sessions -> Calls \cup {Idle}]
    BY <1>1 DEF Sound, TypeOK
  <2>1. ASSUME NEW s \in Sessions,
               \/ \E request \in RequestChoices : FirstAttempt(s, request)
               \/ Retry(s) \/ Dispatch(s)
               \/ \E retryable \in BOOLEAN : Failed(s, retryable)
        PROVE  RequestStep(z)
    BY <1>1, <2>1, SelectModelGoes, DispatchGoes, FailedGoes
  <2>2. ASSUME NEW s \in Sessions,
               CommitFails(s) \/ \E tokens \in TokenCounts : Completed(s, tokens)
        PROVE  RequestStep(z)
    <3>1. call' = [call EXCEPT ![s] = Idle]
      BY <2>2, Zenon DEF CommitFails, Completed
    <3> QED BY <2>0, <3>1, RequestStays
  <2>3. CASE Crash
    <3>1. call'[z] = Idle
      BY <2>3 DEF Crash
    <3> QED BY <3>1 DEF RequestStep
  <2>4. CASE \/ UNCHANGED vars \/ Tick
             \/ \E tokens \in TokenCounts : ClassifierCall(tokens)
             \/ \E s \in Sessions, u \in Users : BindIdentity(s, u)
             \/ \E r \in Routes, snapshot \in ModelChoices : UpdateModel(r, snapshot)
             \/ \E u \in Users, policy \in UserChoices : UpdateUser(u, policy)
             \/ \E p \in ProviderChoices : RefreshModelDirectory(p)
    <3>1. call' = call
      BY <2>4 DEF vars, Tick, ClassifierCall, BindIdentity, UpdateModel, UpdateUser, RefreshModelDirectory
    <3> QED BY <2>0, <3>1, RequestStays
  <2> QED BY <1>1, <2>1, <2>2, <2>3, <2>4 DEF Next
<1>2. Sound /\ [Next]_vars => [\A s \in Sessions : RequestStep(s)]_vars
  BY <1>1
<1> QED
  BY <1>2, AlwaysSound, PTL DEF Spec, RequestsDescend
=============================================================================
