----------------------------- MODULE Admission -----------------------------
(***************************************************************************)
(* Selection, provider calls and credits of concurrent sessions.  A        *)
(* selection routes with the policies, the providers and the quota of that *)
(* moment; then the decision is made durable, the call is started, streamed*)
(* and charged, and between any two of these steps the other sessions run, *)
(* administrators change policies, providers come and go, a session is     *)
(* bound to another user, the month ends and the process may die.  Light   *)
(* models that classify are called in between, and charged, unadmitted.    *)
(*                                                                         *)
(* Credits are counted in nanos: Nano of them make one credit and Ppm is   *)
(* the multiplier of a model that costs 1x.  A user's usage rows of one    *)
(* quota window are kept as their sum.  bound is what getIdentity answers: *)
(* in local mode the one local user, settings.local, else what bindIdentity*)
(* wrote to memory and SQLite, so a restart changes nothing.               *)
(***************************************************************************)
EXTENDS Routing, FiniteSets

CONSTANTS
  Sessions, Users,
  NoUser,            \* "no identity bound", "no user"
  Nano, Ppm,         \* nanos per credit, multiplier of 1x
  Part,              \* monthly credits are stated in 1/Part of a credit
  TokensPerCredit,
  TokenCounts,       \* what a call may use
  MaxCost,           \* no call costs more
  MaxAttempts,
  LightRoute,        \* the model that classifies
  MonthLength, Offset,             \* the calendar and the zone's offsets
  MaxMonth, FirstTime, MaxTime,
  InitDirectory, InitUsers,
  ModelChoices,      \* the snapshots an administrator may give a route
  UserChoices,       \* the policies an administrator may give a user
  ProviderChoices,   \* pairs of active and unavailable providers
  RequestChoices, SettingsChoices,
  MaxCalls, MaxChanges             \* bounds

Months == 0 .. MaxMonth
Times == 0 .. MonthLength * (MaxMonth + 1)

UserPolicies == [allow : SUBSET Routes, credits : Nat]

Requests ==
  [mode : Modes, requested : Routes, class : Classifications,
   capabilities : SUBSET Needs, modalities : SUBSET Needs]

-----------------------------------------------------------------------------
(* What a call costs.                                                       *)

CeilDiv(a, b) == (a + b - 1) \div b

\* computeCreditNanos: the exact share of credits, rounded up to a nano.
CreditNanos(tokens, ppm) ==
  CeilDiv(tokens * ppm * Nano, TokensPerCredit * Ppm)

\* The multiplier of the directory of that moment, 1x for a route that left it.
GetMultiplierPpm(directory, r) == IF r \in DOMAIN directory THEN directory[r].ppm ELSE Ppm

-----------------------------------------------------------------------------
(* The quota window.  Offset is what local clocks add to UTC; a month is    *)
(* MonthLength long.  zonedTimeToUtc reads the offset at the instant that   *)
(* local midnight would be if it were UTC.                                  *)

LocalTime(t) == t + Offset[t]
LocalMonth(t) == LocalTime(t) \div MonthLength

MonthStart(m) == m * MonthLength - Offset[m * MonthLength]

\* The window a usage row of time t is counted in: those of the months tile time.
InWindow(t, m) == MonthStart(m) <= t /\ t < MonthStart(m + 1)
WindowOf(t) == CHOOSE m \in Months : InWindow(t, m)

\* The multipliers a route can have.
Prices == {Ppm} \cup {snapshot.ppm : snapshot \in ModelChoices}
            \cup {InitDirectory[r].ppm : r \in DOMAIN InitDirectory}

ASSUME CostAssumption ==
  /\ Nano \in Nat \ {0} /\ Ppm \in Nat \ {0} /\ Part \in Nat \ {0}
  /\ TokensPerCredit \in Nat \ {0}
  /\ TokenCounts \subseteq Nat /\ MaxCost \in Nat
  /\ \A tokens \in TokenCounts, p \in Prices : CreditNanos(tokens, p) \in 0 .. MaxCost

\* Months are longer than offsets: an instant of the run has a month and a window.
ASSUME CalendarAssumption ==
  /\ MonthLength \in Nat \ {0} /\ MaxMonth \in Nat /\ Offset \in [Times -> Int]
  /\ FirstTime \in Nat /\ MaxTime \in Nat /\ FirstTime <= MaxTime
  /\ FirstTime .. MaxTime \subseteq Times
  /\ \A t \in FirstTime .. MaxTime :
       LocalMonth(t) \in Months /\ \E m \in Months : InWindow(t, m)

\* The offset that is read for the start of a month puts every instant on that side of
\* the start where local clocks have it.  Not so if the clocks change between the two:
\* in Australia/Sydney on 1 October 2028 the window begins an hour early.
OffsetsAreRead ==
  \A m \in 0 .. MaxMonth + 1, t \in FirstTime .. MaxTime :
    MonthStart(m) <= t <=> m * MonthLength <= LocalTime(t)

ASSUME ChoicesAssumption ==
  /\ IsFiniteSet(Sessions)
  /\ NoUser \notin Users /\ LightRoute \in Routes
  /\ IsDirectory(InitDirectory) /\ ModelChoices \subseteq Snapshots
  /\ InitUsers \in [Users -> UserPolicies] /\ UserChoices \subseteq UserPolicies
  /\ ProviderChoices \subseteq [active : SUBSET Providers, unavailable : SUBSET Providers]
  /\ RequestChoices \subseteq Requests
  /\ SettingsChoices \subseteq
       [routing : SettingsRecords, fallbackOn : BOOLEAN, local : Users \cup {NoUser}]
  /\ MaxAttempts \in Nat \ {0} /\ MaxCalls \in Nat /\ MaxChanges \in Nat

VARIABLES
  settings, directory, users, providers,
  bound,      \* the user of a session
  call,       \* the step a session is in
  spent,      \* successful usage rows of a user, summed by quota window
  now, calls, changes,
  charged,    \* history: what a user was charged this month of its local calendar
  own,        \* history: the part of it for calls the user itself was admitted for
  ceiling     \* history: the highest limit a call of the user was admitted under

vars == <<settings, directory, users, providers, bound, call, spent, now, calls, changes,
          charged, own, ceiling>>

Phases == {"idle", "committing", "streaming", "failed"}

Calls ==
  [phase : Phases \ {"idle"}, request : Requests, excluded : SUBSET Routes, attempts : 0 .. MaxAttempts,
   route : Routes, user : Users \cup {NoUser}, admitted : Users, ppm : Nat]

Idle == [phase |-> "idle"]

Init ==
  /\ settings \in SettingsChoices
  /\ directory = InitDirectory /\ users = InitUsers
  /\ providers \in ProviderChoices
  /\ bound = [s \in Sessions |-> settings.local] /\ call = [s \in Sessions |-> Idle]
  /\ spent = [u \in Users |-> [m \in Months |-> 0]]
  /\ now = FirstTime /\ calls = 0 /\ changes = 0
  /\ charged = [u \in Users |-> 0] /\ own = [u \in Users |-> 0]
  /\ ceiling = [u \in Users |-> 0]

-----------------------------------------------------------------------------
(* Quota and selection.                                                     *)

\* The whole credits of the policy, in nanos.
LimitNanos(u) == (users[u].credits \div Part) * Nano

UsedCreditsNanosFaulty(u) == spent[u][now \div MonthLength]

UsedCreditsNanos(u) == spent[u][LocalMonth(now)]

IsQuotaExceededFaulty(u) == UsedCreditsNanos(u) > LimitNanos(u)

IsQuotaExceeded(u) == UsedCreditsNanos(u) >= LimitNanos(u)

BuildFilterInputFaulty(u, request, excluded) ==
  [directory |-> directory, active |-> providers.active,
   unavailable |-> providers.unavailable, allow |-> users[u].allow, excluded |-> {},
   capabilities |-> request.capabilities, modalities |-> request.modalities,
   quota |-> ~IsQuotaExceeded(u)]

BuildFilterInput(u, request, excluded) ==
  [directory |-> directory, active |-> providers.active,
   unavailable |-> providers.unavailable, allow |-> users[u].allow, excluded |-> excluded,
   capabilities |-> request.capabilities, modalities |-> request.modalities,
   quota |-> ~IsQuotaExceeded(u)]

Outcome(u, request, excluded) ==
  Route(request.mode, BuildFilterInput(u, request, excluded), request.requested,
        request.class, settings.routing, settings.fallbackOn)

Larger(a, b) == IF a < b THEN b ELSE a

\* selectModel up to the await of commitDecision.  A session without an identity
\* and a request no route fits are refused and the step ends.
SelectModel(s, request, excluded, attempts) ==
  LET u == bound[s]
      outcome == Outcome(u, request, excluded)
      ok == outcome.code = "selected"
  IN /\ u # NoUser
     /\ call' = [call EXCEPT ![s] =
          IF ok THEN [phase |-> "committing", request |-> request, excluded |-> excluded,
                      attempts |-> attempts + 1, route |-> outcome.route,
                      user |-> NoUser, admitted |-> u, ppm |-> 0]
          ELSE Idle]
     /\ ceiling' = IF ok THEN [ceiling EXCEPT ![u] = Larger(@, LimitNanos(u))] ELSE ceiling
     /\ UNCHANGED <<settings, directory, users, providers, bound, spent, now, calls,
                    changes, charged, own>>

FirstAttempt(s, request) ==
  call[s].phase = "idle" /\ calls < MaxCalls /\ SelectModel(s, request, {}, 0)

Retry(s) ==
  /\ call[s].phase = "failed"
  /\ SelectModel(s, call[s].request, call[s].excluded, call[s].attempts)

CommitFails(s) ==
  /\ call[s].phase = "committing"
  /\ call' = [call EXCEPT ![s] = Idle]
  /\ UNCHANGED <<settings, directory, users, providers, bound, spent, now, calls, changes,
                 charged, own, ceiling>>

\* llm/stream of a governed call: the user and the price are those of this moment.
Dispatch(s) ==
  /\ call[s].phase = "committing" /\ calls < MaxCalls
  /\ call' = [call EXCEPT ![s].phase = "streaming", ![s].user = bound[s],
                          ![s].ppm = GetMultiplierPpm(directory, call[s].route)]
  /\ calls' = calls + 1
  /\ UNCHANGED <<settings, directory, users, providers, bound, spent, now, changes,
                 charged, own, ceiling>>

\* onUsage of a governed call that completed.
Completed(s, tokens) ==
  LET c == call[s]
      cost == CreditNanos(tokens, c.ppm)
  IN /\ c.phase = "streaming"
     /\ spent' = [spent EXCEPT ![c.user][WindowOf(now)] = @ + cost]
     /\ charged' = [charged EXCEPT ![c.user] = @ + cost]
     /\ own' = IF c.user = c.admitted THEN [own EXCEPT ![c.user] = @ + cost] ELSE own
     /\ call' = [call EXCEPT ![s] = Idle]
     /\ UNCHANGED <<settings, directory, users, providers, bound, now, calls, changes,
                    ceiling>>

FailedFaulty(s, retryable) ==
  LET c == call[s] IN
  /\ c.phase = "streaming"
  /\ call' = [call EXCEPT ![s] =
       IF retryable /\ settings.fallbackOn /\ c.attempts <= MaxAttempts
       THEN [c EXCEPT !.phase = "failed", !.excluded = @ \cup {c.route},
                      !.user = NoUser, !.ppm = 0]
       ELSE Idle]
  /\ UNCHANGED <<settings, directory, users, providers, bound, spent, now, calls, changes,
                 charged, own, ceiling>>

\* A call that failed is recorded and not charged; the route is excluded, and a
\* retryable failure selects again while attempts are left.
Failed(s, retryable) ==
  LET c == call[s] IN
  /\ c.phase = "streaming"
  /\ call' = [call EXCEPT ![s] =
       IF retryable /\ settings.fallbackOn /\ c.attempts < MaxAttempts
       THEN [c EXCEPT !.phase = "failed", !.excluded = @ \cup {c.route},
                      !.user = NoUser, !.ppm = 0]
       ELSE Idle]
  /\ UNCHANGED <<settings, directory, users, providers, bound, spent, now, calls, changes,
                 charged, own, ceiling>>

\* llm/stream and onUsage of a light-model call that a step makes before it selects, and
\* that may outlive the step.  Nothing admits it.  Its session is a fresh id with no
\* binding: local mode has its user all the same, the other modes charge nobody.  Only
\* its end changes anything, and only if it completed; the price is that of its end.
ClassifierCall(tokens) ==
  LET u == settings.local
      cost == CreditNanos(tokens, GetMultiplierPpm(directory, LightRoute))
      local == u # NoUser
  IN /\ calls < MaxCalls /\ calls' = calls + 1
     /\ spent' = IF local THEN [spent EXCEPT ![u][WindowOf(now)] = @ + cost] ELSE spent
     /\ charged' = IF local THEN [charged EXCEPT ![u] = @ + cost] ELSE charged
     /\ UNCHANGED <<settings, directory, users, providers, bound, call, now, changes, own,
                    ceiling>>

-----------------------------------------------------------------------------
(* What happens meanwhile.                                                  *)

\* Local mode has no provider of identities and binds nothing.
BindIdentity(s, u) ==
  /\ bound[s] # u /\ settings.local = NoUser
  /\ changes < MaxChanges /\ changes' = changes + 1
  /\ bound' = [bound EXCEPT ![s] = u]
  /\ UNCHANGED <<settings, directory, users, providers, call, spent, now, calls, charged, own, ceiling>>

UpdateModel(r, snapshot) ==
  /\ r \in DOMAIN directory /\ directory[r] # snapshot
  /\ changes < MaxChanges /\ changes' = changes + 1
  /\ directory' = [directory EXCEPT ![r] = snapshot]
  /\ UNCHANGED <<settings, users, providers, bound, call, spent, now, calls, charged, own, ceiling>>

UpdateUser(u, policy) ==
  /\ users[u] # policy
  /\ changes < MaxChanges /\ changes' = changes + 1
  /\ users' = [users EXCEPT ![u] = policy]
  /\ UNCHANGED <<settings, directory, providers, bound, call, spent, now, calls, charged, own, ceiling>>

RefreshModelDirectory(p) ==
  /\ providers # p
  /\ changes < MaxChanges /\ changes' = changes + 1
  /\ providers' = p
  /\ UNCHANGED <<settings, directory, users, bound, call, spent, now, calls, charged, own, ceiling>>

\* A new local month starts every user's account again.
Tick ==
  /\ now < MaxTime
  /\ now' = now + 1
  /\ LET turned == LocalMonth(now') # LocalMonth(now)
         none == [u \in Users |-> 0]
     IN /\ charged' = IF turned THEN none ELSE charged
        /\ own' = IF turned THEN none ELSE own
  /\ UNCHANGED <<settings, directory, users, providers, bound, call, spent, calls, changes,
                 ceiling>>

\* The process dies with the calls under way; what they used is never recorded.
Crash ==
  /\ call' = [s \in Sessions |-> Idle]
  /\ UNCHANGED <<settings, directory, users, providers, bound, spent, now, calls, changes,
                 charged, own, ceiling>>

Next ==
  \/ \E s \in Sessions :
       \/ \E request \in RequestChoices : FirstAttempt(s, request)
       \/ Retry(s) \/ CommitFails(s) \/ Dispatch(s)
       \/ \E tokens \in TokenCounts : Completed(s, tokens)
       \/ \E retryable \in BOOLEAN : Failed(s, retryable)
       \/ \E u \in Users : BindIdentity(s, u)
  \/ \E r \in Routes, snapshot \in ModelChoices : UpdateModel(r, snapshot)
  \/ \E u \in Users, policy \in UserChoices : UpdateUser(u, policy)
  \/ \E p \in ProviderChoices : RefreshModelDirectory(p)
  \/ \E tokens \in TokenCounts : ClassifierCall(tokens)
  \/ Tick \/ Crash

Spec == Init /\ [][Next]_vars

-----------------------------------------------------------------------------
(* Properties.                                                              *)

TypeOK ==
  /\ settings \in SettingsChoices
  /\ directory \in [DOMAIN InitDirectory -> Snapshots]
  /\ users \in [Users -> UserPolicies]
  /\ providers \in ProviderChoices
  /\ bound \in [Sessions -> Users \cup {NoUser}]
  /\ call \in [Sessions -> Calls \cup {Idle}]
  /\ spent \in [Users -> [Months -> Nat]]
  /\ now \in FirstTime .. MaxTime /\ calls \in 0 .. MaxCalls /\ changes \in 0 .. MaxChanges
  /\ charged \in [Users -> Nat] /\ own \in [Users -> Nat] /\ ceiling \in [Users -> Nat]

\* What the quota check reads is what the user was charged since its month began on
\* local clocks, classifications included: no charge of the month is left out of the
\* window and none of an earlier month is in it, through a clock change and for every
\* zone with OffsetsAreRead (credits/quota.ts, service.ts:753).
ChargesAreCounted == \A u \in Users : UsedCreditsNanos(u) = charged[u]

\* Calls under way are not counted when a call is admitted, so what a user is charged for
\* calls it was admitted for can pass the limit; by less than the cost of one call per
\* session (service.ts:774).  Two kinds of charges need no admission and come on top,
\* without a bound: classifications in local mode, and calls whose session was bound to
\* the user after somebody else was admitted.
OverrunBounded ==
  \A u \in Users : \/ own[u] = 0
                   \/ own[u] < ceiling[u] + Cardinality(Sessions) * MaxCost

\* A selected route may be used by the bound user at that moment, has not failed in
\* this request, and manual keeps to the requested route unless that one failed and
\* fallback is on (strategies.ts, service.ts:862).
SelectionStep(s) ==
  LET c == call'[s] IN
  call[s].phase # "committing" /\ c.phase = "committing" =>
    /\ c.route \in DOMAIN directory /\ directory[c.route].enabled
    /\ ProviderOf[c.route] \in providers.active \ providers.unavailable
    /\ users[bound[s]].allow = {} \/ c.route \in users[bound[s]].allow
    /\ UsedCreditsNanos(bound[s]) < LimitNanos(bound[s])
    /\ c.route \notin c.excluded
    /\ c.request.mode = "manual" =>
         \/ c.route = c.request.requested
         \/ settings.fallbackOn /\ c.request.requested \in c.excluded

SelectionPermitted == [][\A s \in Sessions : SelectionStep(s)]_vars
=============================================================================
