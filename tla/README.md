# Verification of the Governor plugin

`dsh-llm-governor` is a DSH host plugin. It sits between an agent loop and the
LLM providers: it classifies each request, selects a model route under a policy
and a credit quota, writes every decision to an audit trail before the provider
is called, accounts for the usage, and falls back to another route when a call
fails. This directory holds TLA+ models of its core, TLC configurations that
check them on small instances, and proofs of their main properties.

Paths below are relative to the repository's `src/` where they name a file of
the implementation; line numbers are those of the commit the models were written
from. `PROJECT.json` maps every definition to its lines.

## 1. Inventory

Everything runs in one Node.js process: handlers interleave at `await`s only.
SQLite (`node:sqlite`, synchronous) is shared by all of them, and by other hosts
on the same database. The Session log belongs to the host and is written
asynchronously. Browser tabs call the service over the host's remote channel.

| component | code | state | operations | what is hard | what makes it correct |
|---|---|---|---|---|---|
| request lifecycle | `plugin/mod.ts` (hooks), `plugin/service.ts` | `_requestStates`, `_currentTurnStep` | `agent/pre-step`, `agent/request`, `llm/stream`, `agent/request-error`, `session/event`, `session/disposed` | cleanup, disposal, settings and crash between any two awaits | no call without its committed decision; bounded retries; usage under the attempt it measured; nothing left behind |
| audit pipeline | `plugin/audit-pipeline.ts`, `dsh-adapter/session-events.ts` | rows of `routing_decisions`, Session Events | `commitDecision`, `reconcile`, `commitSelectionMode` | two stores, one asynchronous; crash between them | fail closed; a committed row always has its durable event; final decisions |
| fallback | `fallback/mod.ts` | attempts, excluded routes, partial output | `recordAttempt`, `excludeRoute`, `shouldRetry` | limits captured at different times | no route twice, no fallback after output, at most `max_attempts` calls |
| usage observation | `usage/observer.ts`, `usage_events` | rows | `observeStream`, `recordUsage` | keys read at the start, written at the end of a stream | one row per attempt, before the terminal state |
| configuration store | `service.ts`, `repository.ts`, `database.ts` | `config_revision`, policies, `audit_log`, copies in memory | first import, `updateRoutingSettings`, `updateModel`, `updateUser`, reload | stale check across an await, import that stops half way, rollback | memory = rows; compare and set; every change audited |
| session selection mode | `service.ts:1930-2060`, `client/browser.ts:330-560` | mode and revision per session, `selection_mode_change` events, a tab's copy | `setSessionSelectionMode`, read, dispose; the tab's change, readiness, fallback | awaits between check and write and in the tab; disposal, re-rendering | one event per revision; nothing shown before it is durable; controls unlock |
| model directory | `service.ts:497-620`, `model/canonical.ts`, `mod.ts` (events) | snapshots, active providers, generation | `refreshModelDirectory`, `updateModel` | overlapping refreshes, provider failures, edits meanwhile | the newest refresh wins; policies in force are shown |
| routing and access | `routing/*.ts`, `access/evaluator.ts` | none (pure) | filter, four strategies, tie-break | order of filters, ties, thresholds | a permitted, available, unexcluded route, the best by the policy |
| classifier | `classifier/*.ts`, `mod.ts:260-380` | cache table, in-flight table | hint, rule, LLM chain | single flight, failure of the shared call, revision change, a stream that hangs | no failed or stale result is served; it ends |
| credits and quota | `credits/*.ts`, `service.ts:740-790`, `mod.ts:546-660` | `usage_events` | cost, monthly window, limit check, charges of governed calls and of classifications | rounding, calls in flight, charges nobody admitted, month boundaries and clock changes | admission by what was recorded, a bounded overrun of what was admitted |
| plugin startup, migrations | `mod.ts:720-900`, `storage/database.ts` | `schema_migrations`, SQLite's lock | load, open, `migrate`, build, refresh, wire | failure half way; two hosts at once | each version all or nothing; a host that is up can work |
| configuration schema | `config/schema.ts` | none (pure) | `resolveConfig`, `toRuntimeConfig` | fields required by the value of others | what is accepted can be used |
| identity, extensions, capabilities, remote service | `identity`, `extensions`, `security`, `plugin/remote-*.ts` | small maps | bind, register, authorise, forward | rebinding between selection and call | refusal when absent |
| compatibility API, operations, aggregator | `ui/api.ts`, `ops`, `usage/aggregator.ts` | sums for display | forward, read | none | reports only |

Interactions: the host's loop calls the hooks in the order pre-step, request,
stream, (request-error, request, stream)*. Pre-step classifies; `selectModel`
reads the mode of the session, the configuration copies, the directory and the
quota, calls routing and `commitDecision`, which writes SQLite, appends a Session
Event and awaits the store's acknowledgement; `llm/stream` reads the request
state that cleanup events delete, and the identity and price of that moment;
management updates write SQLite and the copies; tabs call the service through
the permission check; the start of the plugin migrates, imports, reloads, refreshes
the directory, registers the listeners and runs `reconcile`.

## 2. Modules

| module | models | instance | proofs |
|---|---|---|---|
| `RequestLifecycle` | request lifecycle, audit pipeline, fallback, usage rows, cleanup, crash, reconciliation | `MC_RequestLifecycle` | `RequestLifecycle_proofs` |
| `AuditedCall` | the abstract promise about one provider call | refined by `RequestLifecycle` | |
| `ConfigStore` | configuration rows, revision, audit log, import, updates, restart | `MC_ConfigStore` | `ConfigStore_proofs` |
| `AtomicConfig` | the abstract promise about the configuration | refined by `ConfigStore` | |
| `Routing` | access, the filter and the strategies, as operators | through `Admission` | `Routing_proofs` |
| `Admission` | `Routing` composed with quota, concurrent calls, charges, policy changes | `MC_Admission` | `Admission_proofs` |
| `SelectionMode` | Auto and Manual of one session: service, log, tabs | `MC_SelectionMode` | `SelectionMode_proofs` |
| `Classifier` | the classification chain, its cache and shared calls | `MC_Classifier` | `Classifier_proofs` |
| `ConfigSchema` | validation and normalisation of `governor.yaml`, as operators | through `Plugin` | `ConfigSchema_proofs` |
| `ModelDirectory` | overlapping refreshes of the directory | through `Plugin` | in `Plugin_proofs` |
| `Plugin` | `ConfigSchema` and `ModelDirectory` composed with start, migrations, stop | `MC_Plugin` | `Plugin_proofs` |

A definition whose name ends in `Faulty`, or in a suffix such as `Forgotten`,
`Undefined`, `Restarts`, `PerRequest`, `FirstIndex`, `Quietly`, is not part of
the model. It stands right before the definition it varies and is one plausible
mistake in it. The *sensitivity checks* (`mutants` in `PROJECT.json`) put it in
the place of the original and expect the named property to fail, so that no
property holds merely by the shape of the model.

### RequestLifecycle

One action is one synchronous stretch of a handler. `selectModel` is
`SelectModel` (the prefix: state, candidate, pending row, appended event) and,
after the await, one of `FlushAcked`, `FlushFailed`, `CommitFails`; everything
else may happen between. `pc`, `at`, `selection`, `stream` are the host's agent
loop per session. Choices made:

- A request id is the number of the request in its session: `uuid` freshness is
  taken from the library. `DECISION_CONFLICT` cannot occur with fresh ids; its
  guard is kept (`Insertable`).
- `Dispatch` is a governed call. The branch of `llm/stream` for the light model
  (`mod.ts:552-598`) records usage under an id of its own and touches no request
  state; no property here depends on it. `Admission` has its charges, `Classifier`
  its calls.
- `Candidates` stands for routing: any route outside the excluded ones, or none.
  `Routing` and `Admission` say which.
- A repository is present. With `storage.enabled = false`, `commitDecision`
  returns at once and there is no audit to check.
- The in-memory copies of attempt states and decisions are diagnostic mirrors
  and are left out. HMR reload and custom strategies are not modelled.
- The session store may write an appended event at any time (`Persist`), tell
  the plugin so (`FlushAcked`), or fail to (`FlushFailed`).
- The host does not call a provider for a session whose abort signal is set
  (`Dispatch` requires the session to be live), closes a stream before it
  reports its error, and opens a disposed session again only after its loop has
  ended. These three are assumptions on the host.
- `calls` and `delivered` are history: no action reads them, except that
  `PartialOutput` fires once per call.

### AuditedCall

A decision is recorded, committed, and then called at most once, while somebody
waits for it; one that was given up may still be committed, by reconciliation,
but never called. `AuditedCalls` is the refinement: `phase` is computed from rows
and calls, `awaited` from what the loops hold.

### ConfigStore

A policy is a function from `Fields` to `Values`, an update a patch of some
fields. `updateModel` and `updateUser` contain no await and are one action each;
`updateRoutingSettings` is `BeginRouting` (check and snapshot) and `EndRouting`
(merge, transaction, memory). `Start` to `Load` are the constructor; the import
commits statement by statement, so each is an action and `Crash` may fall between.
A refused or rolled-back update changes nothing and is no step, except
`FailRouting`, which ends a pending call. Choices made:

- One process, one database, a repository present.
- The allowed routes of a user are one field, imported by one statement after
  the row of the user; the code writes one row per route.
- `bootstrap_source` is left out: nothing reads it. Routes that only the host's
  directory knows are left out.
- `expected` in an audit row is history; the table does not store it.

### AtomicConfig

One versioned configuration: the first start settles it, a process serves it, and
each update replaces one policy by compare-and-set, raises the version by one and
logs it. `ConfigStore` maps to it by what a start *would* load
(`config <- LoadedPolicies`), by whether an import is still to come
(`settled <- Imported`) and by `serving <- phase = "up"`: memory, tables, pending
calls and crashes disappear. `UpdatesAreAtomic` says that every step is one of its steps, a
stutter, or a `StaleCommit` (divergence 3).

### Routing and Admission

`Checks` lists the tests of `filterCandidates` in the order of the code;
`ExclusionReason` is the first that fails, and `ManualCode` maps it to the error.
A strategy takes the head of the sorted candidates, written as the element that
comes before all others. Routes are numbered in the order of their names, which
is the last tie-break.

`Admission` runs `Route` inside `SelectModel`, with the policies, the providers
and the quota of that instant, for several sessions of several users. A call is
committed, dispatched (user and multiplier are read again here, as
`llm/stream` does), completed or failed, and retried. Meanwhile policies and
providers change, sessions are rebound, light models classify, the month ends, the
process dies. Choices made:

- Nanos, ppm and tokens keep their formula and rounding but small units; the
  2^53 limit of what is stored is left out.
- Time is discrete and a zone is its table of offsets, any table: `MonthStart` reads
  the offset where `zonedTimeToUtc` does, and `CalendarAssumption` only says that
  the instants of a run have a month and a window. `OffsetsAreRead` says that the
  offset read for a month is the right one. It does not hold of every accepted
  zone (section 5), so it is a hypothesis of the theorems that need it and, for
  the zone of the run, an assumption of `MC_Admission`.
- `ClassifierCall` is the light model's branch of `llm/stream`. Nothing admits such a
  call. `getIdentity` of its fresh id has a user in local mode only
  (`settings.local`; local mode binds nothing, so `BindIdentity` is for the other
  modes), and its row then counts in the user's sum like any other
  (`repository.ts:727` does not ask for the kind). The call is one action, at its
  end: what happens before changes nothing here, and it may outlive its step.
- `OverrunBounded` is therefore about `own`, the charges of calls the user was admitted
  for. A classification in local mode and a call whose session was rebound between
  admission and dispatch come on top of it, without a bound.
- The classification, the capabilities and the modalities of a request come from
  the environment; so does the price of an unlisted route (1x).
- `charged`, `own` and `ceiling` are history.

### SelectionMode

A switch crosses the tab (`ChooseAuto`, `ChooseModel`, `ChangeEffort`,
`Fallback`, `ReadinessAnswered`, `HostSelects`), the remote permission
(`Denied`), the service (`StartSwitch`, then `FlushEnds`) and comes back
(`Answer`, and after a failure `ReadSelection`, `ReadEnds`). `SelectModel` is
the stretch of an attempt that reads the mode and takes the mark of a changed
one. `UpdateRouting` is the part of a routing update that concerns the mode: a session
nobody switched runs in `routing.default`, whatever that is at the time of the
attempt. Choices made:

- One session. The log holds selection events only.
- Of a routing update only the new default is here; `ConfigStore` has the rest. The
  cause `config_change`, which a retry in the same step reports after it
  (`service.ts:1080`), is left out; the first attempt of the next step has no cause
  for it.
- A session is opened again when the writes under way for it have ended.
- The code has no restoring of the mode from the log, so `Reopen` restores
  none; `Forget` is what `handleSessionDispose` deletes.
- `mounted` is the `cancelled` flag of the fallback's effect.

### Classifier

`classify` is one synchronous stretch up to its await: hint, rule, cache,
joining the call under way or starting one. The call may deliver (`Chunk`), end
(`Done`), fail (`CallFails`) or meet its deadline (`Timeout`); `Settle` answers
all its waiters. Choices made:

- The number of an input stands for its text, so equal keys mean equal inputs;
  hashing and the HMAC key are left out.
- The database cache is present; the in-memory one behaves alike with a size
  limit.
- The rules are a table in the order of `classifyByRule`; what the regular
  expressions match is given with the input.

### ConfigSchema, ModelDirectory, Plugin

`ConfigSchema` describes values of the YAML file by what they are and gives each
section a table of fields and kinds, as the assertions of `schema.ts` do;
`Accepted` is `resolveConfig` without its messages, `RuntimeConfig` what the
service receives. `Usable` states what the rest of the plugin takes for granted.

`ModelDirectory` keeps each refresh under way as a record of what it still has
to ask; `ReadModels` and `ReadAvailability` are the awaits, `Publish` its last
stretch, guarded by the generation.

`Plugin` lets two hosts load one file on one database: `Open` reads the versions,
`Begin`, `Statement`, `Commit` and `MigrationFails` are a migration's
transaction under SQLite's rules (a deferred BEGIN reads what is committed at its
first statement; one writer; a write after somebody else's commit fails), then
`Build`, the first refresh, `Wire`, `Mount`. The directory is `Main`'s. `Stop`
loses memory and transaction. Choices made:

- A migration is the sequence of its statements, a statement the object it
  creates and whether IF NOT EXISTS guards it.
- The host's directory is one of `Hosts`; before the first refresh its changes
  are in the choice of `Init`.
- Names, prices and modalities of the directory's rows are left out.

## 3. Runs

| run | question | bounds | result |
|---|---|---|---|
| `lifecycle_step` | does fallback keep its limits while settings change? | 1 session, 3 routes, 3 attempts, 4 settings, 2 requests | passes, 111 k states |
| `lifecycle_audit` | is the audit fail closed through crash, restart, disposal and cleanup in any order, does it implement `AuditedCall`, do steps and reconciliation end? | 1 session, 2 routes, 2 turns, 2 attempts, 1 crash, fairness | passes, 389 k states |
| `lifecycle_reorder` | no route twice when a turn/end overtakes its step? | 2 routes, 1 turn, no crash | violated (divergence 1) |
| `lifecycle_leak` | does a disposed session leave nothing behind? | 1 session | violated (divergence 2) |
| `config` | do memory, rows, revision and log stay one, and do they implement `AtomicConfig`? | 2 models, 1 user, 2 fields with 2 values, 2 pending calls, 2 changes, 1 crash | passes, 183 k states |
| `config_tabs` | one winner per expected revision? | 2 callers, no crash | violated (divergence 3) |
| `config_import` | is the first import complete? | 2 models, 1 crash | violated (divergence 4) |
| `admission` | are quota and permission kept by calls that overlap? | 2 sessions, 2 users, 3 routes of 2 providers, 3 calls (governed or light), 3 changes, 3 instants with a month's end and a clock change, local mode and binding | passes, 1.39 M states |
| `selection` | is a mode used or shown only when durable, does a switch end? | 2 tabs, 2 models, 2 defaults, 2 switches or changes of the default, 1 disposal or restart, fairness | passes, 774 k states |
| `selection_race` | does every accepted switch raise the revision? | 2 tabs, 2 switches | violated (divergence 5) |
| `classifier` | one call per input, nothing failed or foreign reused, an end in time? | 2 steps, 3 inputs, 4 classifications, 1 configuration change, 1 restart, fairness | passes |
| `plugin` | does a start give a usable service on a whole schema, and a current directory? | 2 hosts, 8 files, 3 host directories, 2 host changes, 1 edit, 1 stop | passes, 978 k states |

Why these bounds:

- *Lifecycle.* Three routes let a fallback have a choice twice and exhaust it; two
  attempts are the least with a fallback, three the least with a limit lowered
  in between; two request ids let a fresh state collide with what is left of an
  old one; one crash with one restart exposes each partial state to
  reconciliation. Sessions share only the crash and the reconciliation, and the
  theorems hold for any number of them.
- *Configuration.* Two changes are enough for two updates to compete; a routing
  update that sets the revision *back* needs three and is covered by the
  theorems. A user patch changes one field, so that the merge with the other
  one matters.
- *Admission.* Two sessions of one user share a limit, a rebinding gives a call
  a second user, three calls allow two under way and one refused. The instants are 6,
  7 and 8: the second month starts at 7, and at 8 the clocks are set back over its
  first hour, as in America/New_York on 1 November 2026, so that the local month's
  first hour comes twice. A charge can fall on each of them.
- *Selection.* Two tabs and two switches give every race of two; the disposal may
  fall in either switch. A change of the default counts as one of the two, which is
  enough for attempts before and after it, and for a switch before or after it.
- *Classifier.* Two steps share a call, the third classification meets the cache,
  the fourth a new revision or an empty in-flight table; time passes the budget
  and the lifetime of an entry.
- *Plugin.* The second host is what a migration can race with; two changes of the
  directory make an older refresh end after a newer one, or fail.

The bounds in the guards are `MaxTurn`, `MaxStep`, `MaxRequests` (with `Spare`
and `MayCreate`), the attempt counter in `SelectModel`, `MaxCrashes`; `MaxWrites`;
`MaxCalls`, `MaxChanges`, `MaxTime`; `MaxSwitches`, `MaxCloses`; `MaxClassify`,
`MaxRestarts`, `MaxRevision`; `MaxEdits`, `MaxStops`. `CleanupMayReorder` is an
assumption on the host: FALSE says that a turn/end comes after the step it ends.
It is TRUE in `lifecycle_audit` (the audit does not depend on it) and in
`lifecycle_reorder`. `CHECK_DEADLOCK FALSE` stands in `config` and `plugin`: after
the last bounded change no administrator and no host has to do anything more.

### Properties

| property | of | what it rules out |
|---|---|---|
| `CallsAreCommitted`, `CommittedIsDurable`, `LoopHoldsDecision` | lifecycle | a provider call without a committed decision, a commit without its durable event, at any crash |
| `DecisionsAreFinal` | | a rewritten, reverted or premature row |
| `AuditedCalls` | | any step that `AuditedCall` does not allow |
| `NoRouteTriedTwice`, `NoFallbackAfterOutput`, `StepCallsBounded` | | a fallback beyond the limits its step began with |
| `UsageMatchesCall`, `TerminalHasUsage`, `NotDispatchedIsTrue`, `AttemptStatesForward` | | usage under another attempt's name, an attempt that ends without usage or goes back |
| `StepSettles`, `ReconcileSettles` | | a step or a start that never ends |
| `MemoryIsStore`, `RevisionChain`, `StaleUpdatesRefused`, `ChangesAreAudited` | configuration | decisions from a configuration that a restart would not load; two model or user updates from one revision; an unaudited change |
| `UpdatesAreAtomic` | | any step that `AtomicConfig` does not allow, but the commit of a stale routing update |
| `ChargesAreCounted`, `OverrunBounded`, `SelectionPermitted` | admission | a charge, of a call or a classification, in another month; an overrun by admitted calls beyond those under way; a route the policies of the moment forbid |
| `LogIsByRevision`, `NothingUnconfirmed`, `ModeChangeReported`, `UserChangeSettles` | selection | two events of one revision, a mode used before it is durable, an unreported switch, a locked seat |
| `OneCallPerKey`, `AnswersAreFresh`, `FailuresAreNotReused`, `ClassificationsEnd` | classifier | duplicate light calls, a foreign answer, a cached failure, a hanging step |
| `SchemaMatchesVersions`, `UpMeansUsable`, `DirectoryHasPolicies`, `QuietDirectoryIsCurrent` | plugin | a half-applied migration, a service missing what it needs, a directory with old policies or of an old host |

`DisposedSessionsForgotten`, `OneWinnerPerRevision`, `YamlIsImported` and
`SwitchesRaiseRevision` are what the documents ask for and the code does not keep;
section 4 has theorems that say under what condition it does. `TypeOK` is an
invariant of one run of each specification.

### Fairness

Every condition is weak: an action stays enabled until it or an alternative of
the same await fires. Nothing is assumed of users, administrators, crashes,
restarts, cleanup or host changes.

- `RequestLifecycle!FairSpec`: promises settle. The session store answers a flush
  one way or the other (the sink turns a missing listener into a failure), a
  provider stream ends or fails, the host's loop runs on after each hook, and a
  started `reconcile()` proceeds through its rows.
- `SelectionMode!FairSpec`: a call made is answered: `Server(t)` is the service's
  part of the call of a tab, `Client(t)` the tab's continuation. A tab that
  nobody touches owes nothing.
- `Classifier!FairSpec`: time passes (`Tick`) and timers fire (`Timeout(s)`).
  A light model's stream owes nothing: it may hang for ever.

## 4. Proofs

TLC shows a property on the instances above; TLAPS proves it for every value of
the constants that satisfies the assumptions of the module. The assumptions say
that null values are not members of the sets they are null for
(`ConstantsAssumption`, `PoliciesAssumption`, `RoutesAssumption`), that bounds are
natural numbers (`BoundsAssumption`, in the others part of the module's one
assumption), that inputs are typed (`ChoicesAssumption`, `SelectionAssumption`,
`ClassifierAssumption`, `DirectoryAssumption`, `PluginAssumption`), that a price
is what `CostAssumption` says, and that a month is longer than an offset
(`CalendarAssumption`). TLC evaluates each in the runs. Two theorems have a hypothesis
on the zone besides, `OffsetsAreRead`, which TLC evaluates for the zone of its run.

`RequestLifecycle_proofs`. `FailClosed` is inductive: `TypeOK`,
`LoopHoldsDecision`, `CallsAreCommitted` and `CommittedIsDurable`.
`CallsAreCommitted` alone is not: `Dispatch` needs to know that what the loop
holds at `selected` is committed for exactly that route, which is
`LoopHoldsDecision`; that in turn needs, while flushing, that the inserted row
is still there with its route. `RowsNext` proves that no step moves a row back
(`RowsForward`), from which the parts follow for the sessions that do not act.

`Accounted`, inductive together with `FailClosed`, is about which attempts exist:
request ids of a session are distinct and created, and a stored row belongs to an
attempt already counted (`Fresh`), so a new decision id is new; the attempt a
loop works on is the one its request state stands at, if the state is still
there, and its stored attempt state is what the loop has reached (`Current`).
From it follow the usage and attempt-state properties, through every cleanup,
and, step by step (`AuditedCalls`, with `PhaseOf` and `Waiting` as the mapping),
the refinement of `AuditedCall`.

`Bounded` is about one step of the agent loop, and holds where cleanup keeps its
order (`~CleanupMayReorder`; otherwise `lifecycle_reorder` shows a route tried
twice). Its core is
`Counted`: what a request state says of the calls of its step, stage by stage:
their routes are excluded (or the one selected last), output shown is noted, and
`attemptCount` is not behind them. `Ordered` says that steps come one after the
other and start without state or calls, so that `Counted` begins true. The five
lemmas `StageKnown`, `NewKnown`, `BegunKnown`, `CalledKnown` and `ExcludedKnown`
carry it from one stage to the next; a fallback beyond its limits would need a
call that `Counted` does not know.

Why a step ends is proved as far as it is a matter of safety. `Remaining` counts
the stages a step still has before it: those of its attempt, and six for each
attempt left to a session that is open. `StepsComeToAnEnd` says that it is positive while
the step goes on, that no step of anyone raises it, and that every answer lowers
it, except a turn/end that overtakes the step. It needs `Limited`: a step that asks for
a model has an attempt left in its request state, or a fresh state. What fairness
adds, and `StepSettles` checks, is that the answers come. `ReconcileComesToAnEnd` does
the same for the rows of a reconciliation. `ForgottenUnlessAsked` says that the entry
of divergence 2 is made by a step that asks after the disposal and in no other way
(`OnlyOpenSessionsAsk` is the hypothesis, a property of the host's timing).

`ConfigStore_proofs`. `Consistent` is inductive. `MemoryIsStore` alone is not: a
reload prefers rows to YAML as soon as a table has one, so `ImportProgress`
carries that no phase after the import finds an empty table, and that the loop
writes absent rows only. `StaleUpdatesRefused` needs that revisions grow
strictly over a stretch of the log without a routing update. An induction over
the log in one state is out of the prover's reach; `AuditGrows` is therefore
kept as an invariant over pairs of rows and proved when a row is appended.

The refinement of `AtomicConfig` is one case per action (`AtomicOrStale`). A start
and an import are `Bootstrap` and `Settle` because a reload would make the same of the
rows before and after them; `EndRouting` is `Update` exactly if neither the revision nor the
settings moved in its await, and `StaleCommit` otherwise. From `[][~StaleCommit]_vars`
(`NeverStale`) it follows that the specification implements `AtomicConfig`
(`AtomicUnlessStale`), and from that alone that revisions count updates and one
update wins per expected revision (`OneWinnerUnlessStale`): the await in
`updateRoutingSettings` is the whole of divergence 3. `ImportedUnlessInterrupted` does the
same for divergence 4: if a process ends only when it is up (`EndsOnlyWhenUp`), the
YAML file is imported whole. `config_tabs` and `config_import` show that neither
hypothesis can be dropped; callers that wait for each other's answers satisfy the first,
starts that are not interrupted the second.

`Routing_proofs`. No state: theorems about the operators for every input. A
strategy takes the candidate that comes before all others, which `CHOOSE` finds
only if there is one: `CreditFirstHasHead` and `QualityFirstHasHead` prove that
any non-empty set of candidates has one, by taking a least element three times
(price, quality, name: `LeastElement`, from the well-foundedness of `<`). That
the set is finite is not needed. `CreditFirstIsCheapest` assumes that some permitted
route is good enough, as the fallback to quality in the code does otherwise.
The converse is proved too: the filter excludes nothing that may be used
(`PermittedPasses`), so manual serves whatever is permitted, and a strategy
gives up only if no listed and permitted route reaches the quality it insists on
(`Floor`).

`Admission_proofs`. `Sound` (types, and what a call under way knows) is inductive for
every zone, `Accounts` for every zone with `OffsetsAreRead`. `ChargesAreCounted`
compares the sum the quota check would read with a history of charges; it needs that
the window of an instant is the month in which it lies (`MonthOfNow`, from
`OffsetsAreRead`), that months only advance, and that nothing is spent in a month to
come. `QuietStartsAreRead` says in terms of the clocks when `OffsetsAreRead` holds:
from twice the largest offset before local midnight, taken as UTC, to the start of the
month they do not change, and no later change sets them back over the start. That covers a
change after the start, as in New York in November 2026. For the other zones
`LateChargesAreMissed` says what happens: at an instant whose window is not its month's,
a charge changes nothing the check of that instant reads. `OverrunBounded` is `AccountOf`: a user's own
charges and a full price for every call under way stay below the highest limit
an admission saw, plus one price per session; counting the calls under way is
what carries it over a charge. It says nothing of charges without an admission, and
`OnlyUnadmittedExceeds` says that these are all there is beyond the bound: without
classifications in local mode and without a rebinding between admission and dispatch
(`UnadmittedCharge`), `own` is all of `charged` (`AllOwn`) and the bound holds of every
charge. `CostIsRoundedUp` is arithmetic about the division
and the remainder test of `calc.ts`. Two action properties hold for every zone, and TLC
agreed with them on the instance of `admission`: `ClosedMonthsAreFinal` (a charge goes to
the window of the moment, to the user the call was dispatched for or the local user
of a classification, and nothing is taken back) and `RequestsComeToAnEnd` (`ToGo`, three
steps for each attempt left, only ever falls).

`SelectionMode_proofs`. `SwitchesSound` is `ServerSound` (the service's mode has a
durable revision, the log is by revision), `TabsSound` (what a tab shows or is
about to be answered is durable, and a switch that waits for its flush still
finds its event in the log), `WorldSound` (types) and `AttemptCurrent` (in a session that
was switched, the last attempt ran in the mode of the last switch, unless that is
still to be reported). The event of a waiting switch is the hard part: the log is cut by a restart, and
another tab may append the same revision in between (divergence 5).

That overlap is all there is to divergence 5: where no two switches wait for their
flush at once (`OneSwitchAtATime`), every successful switch raises the revision
(`RaisesUnlessOverlapping`), so with a single tab always (`OneTabRaises`). The invariant is that a waiting switch is newer than the
service's revision (`WaitingIsNewer`). `EveryAnswerCounts` is the ranking for
`UserChangeSettles`: `Left` counts the answers a user's change still needs, a change
always has a call under way for it, and each answer to the tab lowers it.

`Classifier_proofs`. `Settled` is `Types` and `Agreement`: the cache holds
answers of their key (`CacheSound`), a call under way is for its key and revision
(`CallsSound`), its waiters wait for that (`WaitersSound`), the in-flight table
and the calls point to each other (`InflightSound`), and what was answered was
one of these (`AnswerSound`). `WaitsEndInTime` adds `Budgeted`: the call a step waits for
is cut off at most a budget after the step began to wait, and its deadline is never put
off. Fairness of time and timer is all that `ClassificationsEnd` needs beyond it.

`ConfigSchema_proofs`. `AcceptedIsUsable` follows the sections of the file: what
each assertion of `schema.ts` demands is what the constructors take for granted.

`Plugin_proofs`. `PluginSound` is `SchemaSound`, `DirectorySound`, `LifeSound` and
`RestSound`. `SchemaSound`: the draft of a transaction is what it began with and
the objects of a prefix of its migration, the writer began with what is
committed, and what a host has seen of the versions is still there.
`DirectorySound`: the newest refresh under way has read what the host still
holds, unless the host changed unheard, and has not published; two refreshes
never share a generation. `LifeSound`: the directory is used between `Build` and
`Stop`. The whole is a composition: a step of one part leaves the other
untouched (`DirectoryUntouched`, `SchemaUntouched`).

| module | theorems, and the properties they establish |
|---|---|
| `RequestLifecycle_proofs` | `TypeCorrect`, `EveryCallIsCommitted` (`CallsAreCommitted`), `EveryCommitIsDurable` (`CommittedIsDurable`), `SelectionIsCommitted` (`LoopHoldsDecision`), `DecisionsImmutable` (`DecisionsAreFinal`), `UsageIsAttributed` (`UsageMatchesCall`), `EndedHasUsage` (`TerminalHasUsage`), `AttemptsGoForward` (`AttemptStatesForward`), `CallsAreAudited` (`AuditedCalls`), and, where cleanup keeps its order, `RoutesAreTriedOnce` (`NoRouteTriedTwice`), `OutputEndsFallback` (`NoFallbackAfterOutput`), `CallsAreBounded` (`StepCallsBounded`), `NotDispatchedIsKept` (`NotDispatchedIsTrue`); `StepsComeToAnEnd`, `ReconcileComesToAnEnd`; `ForgottenUnlessAsked` (`DisposedSessionsForgotten`, if no step asks after the disposal) |
| `ConfigStore_proofs` | `TypeCorrect`, `MemoryStaysCurrent` (`MemoryIsStore`), `AuditExplainsRevision` (`RevisionChain`), `StaleUpdatesAreRefused`, `NothingUnaudited` (`ChangesAreAudited`), `AtomicOrStale` (`UpdatesAreAtomic`); without stale commits `AtomicUnlessStale`, `OneWinnerUnlessStale` (`OneWinnerPerRevision`); without interrupted imports `ImportedUnlessInterrupted` (`YamlIsImported`) |
| `Routing_proofs` | `SelectedIsPermitted`, `ManualNeverSubstitutes`, `CreditFirstIsCheapest`, `QualityFirstIsBest`, `AutoMeetsThreshold`, `ManualServesPermitted`, `GivesUpOnlyForWant` |
| `Admission_proofs` | `CostIsRoundedUp`, `TypeCorrect`, `WindowsAreRight` (`ChargesAreCounted`), `OverrunIsBounded`, `SelectionsArePermitted`, `ClosedMonthsAreFinal`, `RequestsComeToAnEnd`; without unadmitted charges `OnlyUnadmittedExceeds`; on zones `QuietStartsAreRead`, `LateChargesAreMissed` |
| `SelectionMode_proofs` | `TypeCorrect`, `OneEventPerRevision` (`LogIsByRevision`), `OnlyPersistedIsShown` (`NothingUnconfirmed`), `ChangesAreReported` (`ModeChangeReported`), `PersistedEventsStay`, `EveryAnswerCounts`; without overlapping switches `RaisesUnlessOverlapping`, `OneTabRaises` (`SwitchesRaiseRevision`) |
| `Classifier_proofs` | `TypeCorrect`, `CallsAreShared` (`OneCallPerKey`), `AnswersBelong` (`AnswersAreFresh`), `FailuresStayOut` (`FailuresAreNotReused`), `WaitsEndInTime` |
| `ConfigSchema_proofs` | `AcceptedIsUsable` |
| `Plugin_proofs` | `TypeCorrect`, `MigrationsAreWhole` (`SchemaMatchesVersions`), `ServiceIsUsable` (`UpMeansUsable`), `PoliciesAreShown` (`DirectoryHasPolicies`), `QuietIsCurrent` (`QuietDirectoryIsCurrent`) |

Only model-checked: liveness (`StepSettles`, `ReconcileSettles`,
`UserChangeSettles`, `ClassificationsEnd`), for fairness and ENABLED are out of
the prover's reach. The ranking theorems prove the other half of each: that
every step of what must end brings it nearer to its end and nothing sends it back.
The violated properties are shown by their runs, and proved under the condition that
rules out the one behaviour that breaks them (`RoutesAreTriedOnce` is of that kind
too).

## 5. Where the code and its documents disagree

Shown by a run:

1. `plugin/service.ts:1121`: a failed call whose request state a turn/end or a
   disposal has removed starts over with a fresh state; the failed route can be
   called again (`lifecycle_reorder`; `docs/OPTIMIZATION_REQUIREMENTS.md:272`).
2. `service.ts:871`: a request that reaches `selectModel` after its session was
   disposed sets a `_currentTurnStep` entry no cleanup deletes
   (`lifecycle_leak`; `docs/OPTIMIZATION_REQUIREMENTS.md:269`).
3. `service.ts:1312`: the routing update commits the revision and the settings
   it read before its await; two updates that expect the same revision both
   succeed and the revision may go back
   (`config_tabs`; `docs/OPTIMIZATION_REQUIREMENTS.md:259`).
4. `service.ts:388`: the first import is not one transaction and is skipped when
   the table is not empty; after a process that ended in the middle, the models
   not yet written are gone from the service
   (`config_import`; `service.ts:385`).
5. `service.ts:1990`: a selection switch compares the expected revision, awaits
   the durable event, and then writes memory; two tabs that switch from the same
   revision both succeed with the same new one, and if the modes differ, the
   session runs in a mode its log does not hold
   (`selection_race`; `docs/OPTIMIZATION_REQUIREMENTS.md:224`).

Met while modelling, kept in the models as the code has it, and not the subject
of a run:

- A selection mode is not restored when a session is opened again or resumed; a
  switch that follows a failed flush of the same revision is confirmed while the
  log keeps the mode of the first; a disposal during a switch is undone by it.
- `client/browser.ts:513`: the clean-up of the fallback's effect suppresses the
  unlocking of the seat together with the answer; the seat stays locked until it
  is mounted again. `UserChangeSettles` is therefore about the user's changes.
- The multiplier of a charge is the one at dispatch, not the one of the decision
  (compare the comment at `service.ts:882`), and the user charged is the one
  bound at dispatch; `Admission` has both, which is why `OverrunBounded` counts
  what was charged to the user a call was admitted for.
- Two hosts that start on a new database at once: one of them fails to load
  (`SchemaMatchesVersions` says it fails whole). The handle of a database whose
  migration failed is not closed.
- A host change during the first refresh of `apply` is not noticed until the next
  event (`mod.ts:833`); a newest refresh that fails discards the success of an
  older one, and nobody retries. `QuietDirectoryIsCurrent` names both.
- The classifier's threshold is read when it is built, not when it is used; a
  classifier registered as an extension has no time limit.
- Fractional credits are truncated; a user configured without `monthly_credits`
  gets 100 and not `default_monthly_credits`.
- `credits/quota.ts:68`: the start of a month is computed with the offset in force at
  local midnight read as UTC. East of Greenwich that is hours after the start, west
  of it hours before, and where the clocks change between the two the start is off by
  the shift, against `quota.ts:34` ("能正确处理 DST 切换", handles clock changes
  correctly). Australia/Sydney is such a zone on 1 October 2023 and 2028: clocks are
  set forward two hours after local midnight, the code reads +11 and the window
  begins at 13:00Z instead of 14:00Z. What is charged in that hour counts in
  October, and the quota check, which still reads September then, does not see it.
  America/New_York on 1 November 2026 is read right: the change comes after the
  instant that is read. `LateChargesAreMissed` is the theorem; the run has a zone of
  the second kind.
- `mod.ts:552-598`: a classification is charged without an admission. In local mode
  each step of a user whose quota is used up may still be charged for one, so the
  user's charges pass the limit without a bound; in the other modes the user of a
  classification is `unknown` and nobody is charged, where
  `docs/OPTIMIZATION_REQUIREMENTS.md:329` counts the credits for the calling user.
- `service.ts:899, 1437`: when `routing.default` changes, a session without a mode of
  its own runs its next attempt in the new one, and the decision of the first attempt
  of a step has no cause that says so (a retry has `config_change`).
  `ModeChangeReported` is therefore about sessions that were switched.

## 6. Plan

Done, in this order: `RequestLifecycle` and `AuditedCall`, `ConfigStore` (later
with `AtomicConfig`),
`Routing`, `Admission`, `SelectionMode`, `Classifier`, `ModelDirectory`,
`ConfigSchema`, `Plugin`, and a proof module for each. What is left:

1. `ConfigStore` with several processes on one database: `service.ts:1550` reads
   the revision before BEGIN, and memory is never reloaded. Every process would
   carry its own copy of each policy.
2. `ConfigStore` without a repository, and routes the host's directory only
   advises of.
3. The composition of `SelectionMode` with `RequestLifecycle`: the mode an
   attempt reads is a parameter of routing in one and of no effect in the other.

## 7. Not modelled, and why

- Hashing, canonical JSON, truncation and redaction of decisions: encodings.
- Identity tokens and headers, HTTP parsing, the compatibility API: parsing and
  cryptography without state of their own. What the providers' constructors
  refuse is in `Plugin`; the user they bind is a choice of `BindIdentity`.
- Usage aggregator, metrics, export: sums and reports; no decision reads them.
- Capabilities and remote service: an awaited, stateless check before each call;
  `SelectionMode` has it for the selection calls.
- Extensions registry: slots in a map; the task classifier's is in `Classifier`,
  custom strategies are not modelled.
- Client pages other than the model seat: they render what they read.
- Time zones as such: `Admission` takes a table of offsets.
- Values beyond 2^53.
