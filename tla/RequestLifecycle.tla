-------------------------- MODULE RequestLifecycle --------------------------
(***************************************************************************)
(* The life of one LLM request inside the Governor plugin: classification, *)
(* model selection, the two-sided audit commit (SQLite row, then Session   *)
(* Event, then compare-and-set to committed), the provider call, usage     *)
(* accounting, fallback to another route, the cleanup notifications, a     *)
(* crash of the process and the reconciliation pass of the next start.     *)
(*                                                                         *)
(* The plugin is single-threaded JavaScript: one action is one synchronous *)
(* stretch of a handler, from one await to the next.  Everything another   *)
(* session, the session store or the process can do may fall in between.   *)
(*                                                                         *)
(* Which route the policies choose is the subject of module Routing.  Here *)
(* a selection is any route outside the request's excluded set, or none.   *)
(*                                                                         *)
(* A definition named ...Faulty, or with another suffix and placed right   *)
(* before the definition it varies, is a deliberate mistake: the           *)
(* sensitivity checks of README.md put it in place of the original.        *)
(***************************************************************************)
EXTENDS Integers, FiniteSets

CONSTANTS
  Sessions,             \* DSH session ids
  Routes,               \* canonical provider:model routes
  NoRoute,              \* "no route": a rejected decision, nothing selected yet
  MaxTurn, MaxStep,     \* bound: turns per session, steps per turn
  MaxRequests,          \* bound: request ids a session may create
  MaxAttempts,          \* largest fallback.max_attempts of SettingsChoices
  MaxCrashes,           \* bound: crashes of the plugin process
  SettingsChoices,      \* fallback settings an administrator switches between
  CleanupMayReorder     \* may turn/end overtake the step it ends?

Settings == [fallbackEnabled : BOOLEAN, maxAttempts : 1..MaxAttempts,
             afterPartialOutput : BOOLEAN]

ASSUME ConstantsAssumption ==
  /\ NoRoute \notin Routes
  /\ MaxTurn \in Nat \ {0} /\ MaxStep \in Nat /\ MaxCrashes \in Nat
  /\ MaxRequests \in Nat /\ MaxAttempts \in Nat \ {0}
  /\ SettingsChoices \subseteq Settings
  /\ SettingsChoices # {}
  /\ CleanupMayReorder \in BOOLEAN

VARIABLES
  up,               \* is the plugin process running?
  crashes,          \* crashes so far
  live,             \* sessions the SessionStore resolves
  settings,         \* _fallbackEnabled, _maxAttempts, _afterPartialOutput
  requestStates,    \* _requestStates: session -> step key -> request state
  currentTurnStep,  \* _currentTurnStep: session -> step key
  created,          \* request ids created so far, per session
  rows,             \* SQLite routing_decisions
  attemptStates,    \* SQLite attempt_states
  usage,            \* SQLite usage_events
  sessionLog,       \* decision events in the logs of live sessions
  durableLog,       \* decision events the session store has made durable
  reconciling,      \* the reconcile() pass of the current start
  pc, at, selection, stream,  \* the host's agent loop, per session
  calls, delivered  \* history: provider calls; calls that showed output

memory == <<requestStates, currentTurnStep, created>>
storage == <<rows, attemptStates, usage>>
logs == <<sessionLog, durableLog>>
loop == <<pc, at, selection, stream>>
history == <<calls, delivered>>
process == <<up, crashes, live, settings, reconciling>>
vars == <<process, memory, storage, logs, loop, history>>

-----------------------------------------------------------------------------
(* Data.  A request id is the n-th one its session created; a decision id   *)
(* is request id and fallbackIndex, as in sealDecision.                     *)

Keys == (1..MaxTurn) \X (1..MaxStep)
NoKey == <<0, 0>>
Decisions == Sessions \X (1..MaxRequests) \X (0..MaxAttempts)
Unknown == <<"unknown", 0, 0>>      \* requestId 'unknown', fallbackIndex 0
NoDecision == <<"none", 0, 0>>

RequestState ==
  [requestId : 0..MaxRequests, maxAttempts : 1..MaxAttempts,
   afterPartialOutput : BOOLEAN, attemptCount : 0..MaxAttempts + 1,
   fallbackIndex : 0..MaxAttempts, excludedRoutes : SUBSET Routes,
   partialOutput : BOOLEAN, selectedRoute : Routes \cup {NoRoute}]

\* The Map has no entry: getOrCreateRequestState makes one from the settings.
NoState ==
  [requestId |-> 0, maxAttempts |-> 1, afterPartialOutput |-> FALSE,
   attemptCount |-> 0, fallbackIndex |-> 0, excludedRoutes |-> {},
   partialOutput |-> FALSE, selectedRoute |-> NoRoute]

Row == [state : {"absent", "pending", "committed"}, route : Routes \cup {NoRoute}]
NoRow == [state |-> "absent", route |-> NoRoute]
Terminal == {"completed", "failed"}
AttemptState == {"absent", "not_dispatched", "dispatch_started"} \cup Terminal

Stages == {"idle", "classifying", "request", "flushing", "selected",
           "streaming", "failed", "done"}

ProcessTypeOK ==
  /\ up \in BOOLEAN /\ crashes \in 0..MaxCrashes /\ live \subseteq Sessions
  /\ settings \in SettingsChoices
  /\ reconciling \in [todo : SUBSET Decisions,
                      current : Decisions \cup {NoDecision}]
MemoryTypeOK ==
  /\ requestStates \in [Sessions -> [Keys -> RequestState]]
  /\ currentTurnStep \in [Sessions -> Keys \cup {NoKey}]
  /\ created \in [Sessions -> 0..MaxRequests]
StorageTypeOK ==
  /\ rows \in [Decisions -> Row]
  /\ attemptStates \in [Decisions -> AttemptState]
  /\ usage \subseteq [attempt : Decisions \cup {Unknown}, route : Routes]
LogsTypeOK ==
  /\ sessionLog \subseteq Decisions
  /\ durableLog \subseteq Decisions
LoopTypeOK ==
  /\ pc \in [Sessions -> Stages]
  /\ at \in [Sessions -> (1..MaxTurn) \X (0..MaxStep)]
  /\ selection \in [Sessions -> [attempt : Decisions \cup {NoDecision},
                                 route : Routes \cup {NoRoute}]]
  /\ stream \in [Sessions -> Decisions \cup {Unknown, NoDecision}]
HistoryTypeOK ==
  /\ calls \subseteq [key : Keys, attempt : Decisions, route : Routes,
                      limit : 1..MaxAttempts, sticky : BOOLEAN]
  /\ delivered \subseteq Decisions

\* The values the variables take.
TypeOK == /\ ProcessTypeOK /\ MemoryTypeOK /\ StorageTypeOK
          /\ LogsTypeOK /\ LoopTypeOK /\ HistoryTypeOK

Init ==
  /\ up = TRUE /\ crashes = 0 /\ live = Sessions
  /\ settings \in SettingsChoices
  /\ requestStates = [s \in Sessions |-> [k \in Keys |-> NoState]]
  /\ currentTurnStep = [s \in Sessions |-> NoKey]
  /\ created = [s \in Sessions |-> 0]
  /\ rows = [d \in Decisions |-> NoRow]
  /\ attemptStates = [d \in Decisions |-> "absent"]
  /\ usage = {} /\ sessionLog = {} /\ durableLog = {}
  /\ reconciling = [todo |-> {}, current |-> NoDecision]
  /\ pc = [s \in Sessions |-> "idle"]
  /\ at = [s \in Sessions |-> <<1, 0>>]
  /\ selection = [s \in Sessions |-> [attempt |-> NoDecision, route |-> NoRoute]]
  /\ stream = [s \in Sessions |-> NoDecision]
  /\ calls = {} /\ delivered = {}

-----------------------------------------------------------------------------
(* Request states: one Map entry per (session, turn, step).                 *)

Present(s, k) == requestStates[s][k].requestId # 0

\* A fresh state captures max_attempts and after_partial_output for its life.
GetOrCreateRequestState(s, k) ==
  IF Present(s, k) THEN requestStates[s][k]
  ELSE [NoState EXCEPT !.requestId = created[s] + 1,
                       !.maxAttempts = settings.maxAttempts,
                       !.afterPartialOutput = settings.afterPartialOutput]

\* Bounds: a new step, and a cleanup that overtakes the agent loop, happen only
\* while a request id is left for the state the loop may have to make again.
Spare(s) == created[s] < MaxRequests
MayCreate(s, k) == Present(s, k) \/ Spare(s)

SetState(s, k, st) ==
  /\ MayCreate(s, k)
  /\ requestStates' = [requestStates EXCEPT ![s][k] = st]
  /\ created' = [created EXCEPT ![s] = IF Present(s, k) THEN @ ELSE @ + 1]

DeleteStates(s, keys) ==
  requestStates' = [requestStates EXCEPT
                      ![s] = [k \in Keys |-> IF k \in keys THEN NoState ELSE @[k]]]

\* A failure is an error code, known as retryable or not, and an HTTP status.
Failures == [code : {"retryable", "other"}, status : {0, 400, 401, 403, 429, 500, 599}]
IsRetryable(failure) ==
  /\ failure.status \notin {401, 403}
  /\ \/ failure.code = "retryable"
     \/ failure.status \in 500..599 \cup {429}

\* FallbackState: the attempts so far include the one that failed.
CanRetryFaulty(st) == st.attemptCount <= st.maxAttempts
CanRetry(st) == st.attemptCount < st.maxAttempts
ShouldRetryFaulty(st, failure) == IsRetryable(failure) /\ CanRetry(st)
ShouldRetry(st, failure) ==
  /\ IsRetryable(failure)
  /\ CanRetry(st)
  /\ st.partialOutput => st.afterPartialOutput

DecisionId(s, st) == <<s, st.requestId, st.fallbackIndex>>
SessionOf(d) == d[1]
MoveTo(s, stage) == pc' = [pc EXCEPT ![s] = stage]

-----------------------------------------------------------------------------
(* agent/pre-step: classification, then the state of the step.              *)

PreStep(s) ==
  /\ up /\ s \in live /\ pc[s] = "idle"
  /\ at[s][2] < MaxStep /\ Spare(s)
  /\ at' = [at EXCEPT ![s][2] = @ + 1]
  /\ MoveTo(s, "classifying")
  /\ UNCHANGED <<process, memory, storage, logs, selection, stream, history>>

ClassifyStep(s) ==
  /\ up /\ pc[s] = "classifying"
  /\ SetState(s, at[s], GetOrCreateRequestState(s, at[s]))
  /\ MoveTo(s, "request")
  /\ UNCHANGED <<process, currentTurnStep, storage, logs, at, selection, stream,
                 history>>

-----------------------------------------------------------------------------
(* agent/request: selectModel up to the await of the durable ack.           *)

RecordAttempt(st) == [st EXCEPT !.attemptCount = @ + 1]

\* The state after the decision: a rejection keeps the earlier selectedRoute.
Decided(st, route) ==
  [st EXCEPT !.fallbackIndex = st.attemptCount - 1,
             !.selectedRoute = IF route = NoRoute THEN @ ELSE route]

\* The session's current step; the stored attempt states are not touched before
\* the decision is committed.
EnterRequestFaulty(s) ==
  LET st == requestStates[s][at[s]]
  IN  /\ currentTurnStep' = [currentTurnStep EXCEPT ![s] = at[s]]
      /\ attemptStates' = IF st.requestId = 0 THEN attemptStates
                          ELSE [attemptStates EXCEPT
                                  ![DecisionId(s, st)] = "not_dispatched"]
EnterRequest(s) ==
  /\ currentTurnStep' = [currentTurnStep EXCEPT ![s] = at[s]]
  /\ UNCHANGED attemptStates

\* filterCandidates drops the routes this request has excluded.
Candidates(st) == Routes \ st.excludedRoutes

\* insertSealedDecision accepts a new id, or the same decision once more.
Insertable(d, route) == rows[d].state = "absent" \/ rows[d].route = route

InsertDecision(d, route) ==
  rows' = [rows EXCEPT ![d] =
             IF @.state = "absent" THEN [state |-> "pending", route |-> route]
             ELSE @]

\* appendGovernorDecision adds an event once per decision id.
AppendDecision(d) == sessionLog' = sessionLog \cup {d}

\* SQLite holds the pending row; the Session Event goes to the log of a live
\* session, and selectModel waits for the flush.  A session that is not live
\* ends the attempt with AUDIT_PERSIST_FAILED and leaves the row pending.
SelectModel(s) ==
  LET began == RecordAttempt(GetOrCreateRequestState(s, at[s]))
  IN  /\ up /\ pc[s] = "request"
      /\ MayCreate(s, at[s]) /\ began.attemptCount <= MaxAttempts + 1   \* bounds
      /\ \E route \in Candidates(began) \cup {NoRoute} :
           LET st == Decided(began, route)
               d == DecisionId(s, st)
           IN  /\ Insertable(d, route)
               /\ SetState(s, at[s], st)
               /\ InsertDecision(d, route)
               /\ selection' = [selection EXCEPT
                                  ![s] = [attempt |-> d, route |-> route]]
               /\ IF s \in live
                  THEN AppendDecision(d) /\ MoveTo(s, "flushing")
                  ELSE UNCHANGED sessionLog /\ MoveTo(s, "done")
      /\ EnterRequest(s)
      /\ UNCHANGED <<process, usage, durableLog, at, stream, history>>

\* No identity is bound, or SQLite refuses the row: nothing is recorded.
SelectModelFails(s) ==
  LET began == RecordAttempt(GetOrCreateRequestState(s, at[s]))
  IN  /\ up /\ pc[s] = "request"
      /\ MayCreate(s, at[s]) /\ began.attemptCount <= MaxAttempts + 1   \* bounds
      /\ \E route \in Candidates(began) \cup {NoRoute} :
           \E st \in {began, Decided(began, route)} : SetState(s, at[s], st)
      /\ EnterRequest(s)
      /\ MoveTo(s, "done")
      /\ UNCHANGED <<process, rows, usage, logs, at, selection, stream, history>>

\* The store acknowledged the event: markDecisionCommitted, then the attempt
\* state of a selected route.  A rejected decision ends the request.
FlushAcked(s) ==
  LET d == selection[s].attempt
  IN  /\ up /\ pc[s] = "flushing"
      /\ durableLog' = durableLog \cup {d}
      /\ rows' = [rows EXCEPT ![d].state = "committed"]
      /\ IF selection[s].route = NoRoute
         THEN UNCHANGED attemptStates /\ MoveTo(s, "done")
         ELSE /\ attemptStates' = [attemptStates EXCEPT ![d] = "not_dispatched"]
              /\ MoveTo(s, "selected")
      /\ UNCHANGED <<process, memory, usage, sessionLog, at, selection, stream,
                     history>>

\* No durability listener took part, or it failed: AUDIT_PERSIST_FAILED.
FlushFailedFaulty(s) ==
  /\ up /\ pc[s] = "flushing"
  /\ MoveTo(s, IF selection[s].route = NoRoute THEN "done" ELSE "selected")
  /\ UNCHANGED <<process, memory, storage, logs, at, selection, stream, history>>
FlushFailed(s) ==
  /\ up /\ pc[s] = "flushing"
  /\ MoveTo(s, "done")
  /\ UNCHANGED <<process, memory, storage, logs, at, selection, stream, history>>

\* SQLite fails after the ack: at the compare-and-set, or at the attempt state.
CommitFails(s) ==
  LET d == selection[s].attempt
  IN  /\ up /\ pc[s] = "flushing"
      /\ durableLog' = durableLog \cup {d}
      /\ \E committed \in BOOLEAN :
           rows' = IF committed THEN [rows EXCEPT ![d].state = "committed"] ELSE rows
      /\ MoveTo(s, "done")
      /\ UNCHANGED <<process, memory, attemptStates, usage, sessionLog, at,
                     selection, stream, history>>

-----------------------------------------------------------------------------
(* llm/stream: the provider call and its observation.                       *)

StateAt(s, k) == IF k = NoKey THEN NoState ELSE requestStates[s][k]

\* markDispatchStarted and markAttemptTerminal write only while the Map still
\* holds the state; requestId and fallbackIndex are read once, at the start.
SetAttemptFaulty(s, k, value) ==
  LET st == StateAt(s, k)
  IN  attemptStates' = IF st.requestId = 0 \/ value = "dispatch_started"
                       THEN attemptStates
                       ELSE [attemptStates EXCEPT ![DecisionId(s, st)] = value]
SetAttempt(s, k, value) ==
  LET st == StateAt(s, k)
  IN  attemptStates' = IF st.requestId = 0 THEN attemptStates
                       ELSE [attemptStates EXCEPT ![DecisionId(s, st)] = value]

\* The host calls the provider with the config selectModel returned, unless the
\* session has been disposed (its abort signal is set) meanwhile.
Dispatch(s) ==
  LET k == currentTurnStep[s]
      st == StateAt(s, k)
  IN  /\ up /\ s \in live /\ pc[s] = "selected"
      /\ stream' = [stream EXCEPT ![s] = IF st.requestId = 0 THEN Unknown
                                         ELSE DecisionId(s, st)]
      /\ SetAttempt(s, k, "dispatch_started")
      /\ calls' = calls \cup {[key |-> at[s], attempt |-> selection[s].attempt,
                               route |-> selection[s].route,
                               limit |-> st.maxAttempts,
                               sticky |-> ~st.afterPartialOutput]}
      /\ MoveTo(s, "streaming")
      /\ UNCHANGED <<process, memory, rows, usage, logs, at, selection, delivered>>

\* The user aborts between selection and call: selected, never executed.
Abandon(s) ==
  /\ up /\ pc[s] = "selected"
  /\ MoveTo(s, "done")
  /\ UNCHANGED <<process, memory, storage, logs, at, selection, stream, history>>

\* The first text, reasoning or tool-call delta reaches the consumer.
PartialOutput(s) ==
  /\ up /\ pc[s] = "streaming"
  /\ selection[s].attempt \notin delivered
  /\ delivered' = delivered \cup {selection[s].attempt}
  /\ requestStates' = IF Present(s, at[s])
                      THEN [requestStates EXCEPT ![s][at[s]].partialOutput = TRUE]
                      ELSE requestStates
  /\ UNCHANGED <<process, currentTurnStep, created, storage, logs, loop, calls>>

\* insertUsageEvent: INSERT OR IGNORE on (request_id, fallback_index).
RecordUsagePerRequest(attempt, route) ==
  usage' = IF \E u \in usage : u.attempt[1] = attempt[1] /\ u.attempt[2] = attempt[2]
           THEN usage ELSE usage \cup {[attempt |-> attempt, route |-> route]}
RecordUsageFirstIndex(attempt, route) ==
  LET first == <<attempt[1], attempt[2], 0>>
  IN  usage' = IF \E u \in usage : u.attempt = first THEN usage
               ELSE usage \cup {[attempt |-> first, route |-> route]}
RecordUsage(attempt, route) ==
  usage' = IF \E u \in usage : u.attempt = attempt THEN usage
           ELSE usage \cup {[attempt |-> attempt, route |-> route]}

\* The observed stream ends: usage first, then the terminal attempt state.
CloseStream(s) ==
  /\ up /\ pc[s] = "streaming"
  /\ RecordUsage(stream[s], selection[s].route)
  /\ \E terminal \in Terminal :
       /\ SetAttempt(s, at[s], terminal)
       /\ MoveTo(s, IF terminal = "completed" THEN "done" ELSE "failed")
  /\ stream' = [stream EXCEPT ![s] = NoDecision]
  /\ UNCHANGED <<process, memory, rows, logs, at, selection, history>>

\* The usage row cannot be written: the stream fails before the terminal state.
CloseStreamFails(s) ==
  /\ up /\ pc[s] = "streaming"
  /\ MoveTo(s, "failed")
  /\ stream' = [stream EXCEPT ![s] = NoDecision]
  /\ UNCHANGED <<process, memory, storage, logs, at, selection, history>>

-----------------------------------------------------------------------------
(* agent/request-error: exclude the failed route and retry, or give up.     *)

ExcludeRouteForgotten(st) == st
ExcludeRouteUndefined(st) == [st EXCEPT !.excludedRoutes = @ \cup {st.selectedRoute}]
ExcludeRouteRestarts(st) == [st EXCEPT !.excludedRoutes = {}, !.attemptCount = 0]
ExcludeRoute(st) ==
  [st EXCEPT !.excludedRoutes = @ \cup ({st.selectedRoute} \ {NoRoute})]

RequestError(s) ==
  LET st == GetOrCreateRequestState(s, at[s])
  IN  /\ up /\ pc[s] = "failed"
      /\ \E failure \in Failures :
           LET retry == settings.fallbackEnabled /\ ShouldRetry(st, failure)
           IN  /\ IF settings.fallbackEnabled
                  THEN SetState(s, at[s], IF retry THEN ExcludeRoute(st) ELSE st)
                  ELSE UNCHANGED <<requestStates, created>>
               /\ MoveTo(s, IF retry THEN "request" ELSE "done")
      /\ UNCHANGED <<process, currentTurnStep, storage, logs, at, selection,
                     stream, history>>

-----------------------------------------------------------------------------
(* session/event and session/disposed: cleanup notifications.               *)

\* step/end, which a failing plugin may swallow: turn/end then cleans up.
StepEnd(s) ==
  /\ up /\ pc[s] = "done"
  /\ \/ DeleteStates(s, {at[s]})
     \/ UNCHANGED requestStates
  /\ MoveTo(s, "idle")
  /\ UNCHANGED <<process, currentTurnStep, created, storage, logs, at, selection,
                 stream, history>>

TurnEnd(s) ==
  /\ up /\ pc[s] = "idle" /\ s \in live
  /\ at[s][2] > 0 /\ at[s][1] < MaxTurn
  /\ DeleteStates(s, {k \in Keys : k[1] = at[s][1]})
  /\ at' = [at EXCEPT ![s] = <<@[1] + 1, 0>>]
  /\ UNCHANGED <<process, currentTurnStep, created, storage, logs, pc, selection,
                 stream, history>>

\* turn/end delivered while the last step of the turn is still on its way.
EarlyTurnEnd(s) ==
  /\ CleanupMayReorder
  /\ up /\ pc[s] \in {"flushing", "selected", "streaming", "failed"}
  /\ Present(s, at[s]) /\ Spare(s)
  /\ DeleteStates(s, {k \in Keys : k[1] = at[s][1]})
  /\ UNCHANGED <<process, currentTurnStep, created, storage, logs, loop, history>>

\* handleSessionDispose, whatever the agent loop of the session is doing.
SessionDispose(s) ==
  /\ up /\ s \in live
  /\ pc[s] \in {"idle", "done"} \/ Spare(s)
  /\ live' = live \ {s}
  /\ DeleteStates(s, Keys)
  /\ currentTurnStep' = [currentTurnStep EXCEPT ![s] = NoKey]
  /\ sessionLog' = {d \in sessionLog : SessionOf(d) # s}
  /\ UNCHANGED <<up, crashes, settings, reconciling, created, storage, durableLog,
                 loop, history>>

-----------------------------------------------------------------------------
(* The environment: session store, administrator, process.                  *)

\* A disposed session is opened again once its old agent loop has wound down;
\* its log is what the store had made durable.
SessionOpen(s) ==
  /\ up /\ s \notin live /\ pc[s] \in {"idle", "done"}
  /\ live' = live \cup {s}
  /\ sessionLog' = sessionLog \cup {d \in durableLog : SessionOf(d) = s}
  /\ UNCHANGED <<up, crashes, settings, reconciling, memory, storage, durableLog,
                 loop, history>>

\* The store writes logged events on its own as well, acknowledged or not.
Persist(d) ==
  /\ d \in sessionLog \ durableLog
  /\ durableLog' = durableLog \cup {d}
  /\ UNCHANGED <<process, memory, storage, sessionLog, loop, history>>

UpdateSettings ==
  /\ up
  /\ settings' \in SettingsChoices \ {settings}
  /\ UNCHANGED <<up, crashes, live, reconciling, memory, storage, logs, loop,
                 history>>

\* Everything in memory is gone: request states, live logs, agent loops.
Crash ==
  /\ up /\ crashes < MaxCrashes
  /\ up' = FALSE /\ crashes' = crashes + 1 /\ live' = {}
  /\ requestStates' = [s \in Sessions |-> [k \in Keys |-> NoState]]
  /\ currentTurnStep' = [s \in Sessions |-> NoKey]
  /\ sessionLog' = {}
  /\ reconciling' = [todo |-> {}, current |-> NoDecision]
  /\ pc' = [s \in Sessions |-> "idle"]
  /\ stream' = [s \in Sessions |-> NoDecision]
  /\ UNCHANGED <<settings, created, storage, durableLog, at, selection, history>>

-----------------------------------------------------------------------------
(* The start: handlers are registered, then reconcile() walks the rows that *)
(* were pending, while requests may already arrive.                         *)

Pending == {d \in Decisions : rows[d].state = "pending"}

\* Some sessions are live again before the plugin is applied.
Restart ==
  /\ ~up
  /\ up' = TRUE
  /\ live' \in SUBSET Sessions
  /\ sessionLog' = {d \in durableLog : SessionOf(d) \in live'}
  /\ reconciling' = [todo |-> Pending, current |-> NoDecision]
  /\ UNCHANGED <<crashes, settings, memory, storage, durableLog, loop, history>>

\* hasDecision finds nothing: the sink is built without a list of sessions.
\* The event is appended (once) to a live session.  Any other row stays pending,
\* and so may a rejected decision, whose event finds no route to be carried by.
ReconcileAppend(d) ==
  /\ up /\ reconciling.current = NoDecision /\ d \in reconciling.todo
  /\ \/ /\ SessionOf(d) \in live
        /\ AppendDecision(d)
        /\ reconciling' = [reconciling EXCEPT !.current = d]
     \/ /\ SessionOf(d) \notin live \/ rows[d].route = NoRoute
        /\ reconciling' = [reconciling EXCEPT !.todo = @ \ {d}]
        /\ UNCHANGED sessionLog
  /\ UNCHANGED <<up, crashes, live, settings, memory, storage, durableLog, loop,
                 history>>

ReconcileDoneFaulty == reconciling' = [reconciling EXCEPT !.current = NoDecision]
ReconcileDone ==
  reconciling' = [todo |-> reconciling.todo \ {reconciling.current},
                  current |-> NoDecision]

ReconcileAcked ==
  LET d == reconciling.current
  IN  /\ up /\ d # NoDecision
      /\ durableLog' = durableLog \cup {d}
      /\ rows' = [rows EXCEPT ![d].state = IF @ = "pending" THEN "committed" ELSE @]
      /\ ReconcileDone
      /\ UNCHANGED <<up, crashes, live, settings, memory, attemptStates, usage,
                     sessionLog, loop, history>>

ReconcileFailedFaulty ==
  /\ up /\ reconciling.current # NoDecision
  /\ rows' = [rows EXCEPT ![reconciling.current].state = "committed"]
  /\ ReconcileDone
  /\ UNCHANGED <<up, crashes, live, settings, memory, attemptStates, usage, logs,
                 loop, history>>
ReconcileFailed ==
  /\ up /\ reconciling.current # NoDecision
  /\ ReconcileDone
  /\ UNCHANGED <<up, crashes, live, settings, memory, storage, logs, loop, history>>

-----------------------------------------------------------------------------
Request(s) ==
  \/ PreStep(s) \/ ClassifyStep(s)
  \/ SelectModel(s) \/ SelectModelFails(s)
  \/ FlushAcked(s) \/ FlushFailed(s) \/ CommitFails(s)
  \/ Dispatch(s) \/ Abandon(s) \/ PartialOutput(s)
  \/ CloseStream(s) \/ CloseStreamFails(s) \/ RequestError(s)

Cleanup(s) ==
  \/ StepEnd(s) \/ TurnEnd(s) \/ EarlyTurnEnd(s)
  \/ SessionDispose(s) \/ SessionOpen(s)

Reconcile ==
  \/ \E d \in Decisions : ReconcileAppend(d)
  \/ ReconcileAcked \/ ReconcileFailed

Next ==
  \/ \E s \in Sessions : Request(s) \/ Cleanup(s)
  \/ \E d \in Decisions : Persist(d)
  \/ UpdateSettings \/ Crash \/ Restart
  \/ Reconcile

Spec == Init /\ [][Next]_vars

-----------------------------------------------------------------------------
(* Safety.                                                                  *)

Called == {c.attempt : c \in calls}
SameStep(c1, c2) ==
  SessionOf(c1.attempt) = SessionOf(c2.attempt) /\ c1.key = c2.key
Later(d2, d1) == d1[2] < d2[2] \/ (d1[2] = d2[2] /\ d1[3] < d2[3])

\* Fail closed (AuditPipeline.commitDecision): whenever a provider was called,
\* the selected decision for exactly that route is committed in SQLite and its
\* Session Event is durable - in every later state, across crashes.
CallsAreCommitted ==
  \A c \in calls : /\ rows[c.attempt] = [state |-> "committed", route |-> c.route]
                   /\ c.attempt \in durableLog

\* A committed row is never ahead of the Session Event log, whether
\* commitDecision or the reconcile() of a later start committed it.
CommittedIsDurable ==
  \A d \in Decisions : rows[d].state = "committed" => d \in durableLog

\* What the agent loop holds at each stage: while it waits for the store, the
\* decision whose row it inserted; once agent/request has answered, and while the
\* provider streams, a decision for that route that is committed and durable.
HeldDecision(s) ==
  LET d == selection[s].attempt
  IN  /\ pc[s] # "idle" => at[s] \in Keys
      /\ pc[s] = "flushing" =>
           /\ d \in Decisions
           /\ rows[d].state # "absent" /\ rows[d].route = selection[s].route
      /\ pc[s] \in {"selected", "streaming"} =>
           /\ d \in durableLog /\ selection[s].route \in Routes
           /\ rows[d] = [state |-> "committed", route |-> selection[s].route]
      /\ pc[s] = "streaming" => stream[s] # NoDecision

LoopHoldsDecision == \A s \in Sessions : HeldDecision(s)

\* The stored decisions only grow: a row keeps its route, a committed one keeps
\* everything, and none becomes committed before its Session Event is durable.
RowsForward ==
  /\ durableLog \subseteq durableLog'
  /\ \A d \in Decisions :
       /\ rows[d].state # "absent" =>
            /\ rows'[d].state # "absent" /\ rows'[d].route = rows[d].route
       /\ rows[d].state = "committed" => rows'[d] = rows[d]
       /\ rows'[d].state = "committed" =>
            rows[d].state = "committed" \/ d \in durableLog'

\* RoutingDecision is immutable (insertSealedDecision, markDecisionCommitted): no
\* handler, crash or reconciliation rewrites or reverts one.
DecisionsAreFinal == [][RowsForward]_vars

\* Fallback never calls a route of the same step a second time
\* (excludeRouteAndCheckRetry, FallbackState.excludedRoutes).
NoRouteTriedTwice ==
  \A c1, c2 \in calls : SameStep(c1, c2) /\ c1 # c2 => c1.route # c2.route

\* Once a call has shown output to the user, no later call of the step follows,
\* unless after_partial_output allowed it when the request began.
NoFallbackAfterOutput ==
  \A c1, c2 \in calls :
    SameStep(c1, c2) /\ Later(c2.attempt, c1.attempt) /\ c1.attempt \in delivered
      => ~c2.sticky

\* One step makes at most the max_attempts calls its request began with, however
\* the setting changes meanwhile (FallbackState.canRetry).
StepCallsBounded ==
  \A c \in calls : Cardinality({c2 \in calls : SameStep(c, c2)}) <= c.limit

\* A usage row is filed under the decision of the call it measured: same
\* requestId and fallbackIndex, same route (GOV-ATTEMPT-001, llm/stream handler).
UsageMatchesCall ==
  \A u \in usage : u.attempt = Unknown
                   \/ \E c \in calls : c.attempt = u.attempt /\ c.route = u.route

\* "Selected, not executed": an attempt stored as not_dispatched was not called.
NotDispatchedIsTrue ==
  \A d \in Called : attemptStates[d] # "not_dispatched"

\* A terminal attempt has its usage row: recordUsage comes first.
TerminalHasUsage ==
  \A d \in Decisions :
    attemptStates[d] \in Terminal => \E u \in usage : u.attempt = d

Moves == {<<"absent", "not_dispatched">>, <<"not_dispatched", "dispatch_started">>}
         \cup ({"dispatch_started"} \X Terminal)

AttemptForward ==
  \A d \in Decisions :
    attemptStates'[d] # attemptStates[d] => <<attemptStates[d], attemptStates'[d]>> \in Moves

\* upsertAttemptState overwrites blindly; its callers never take an attempt back:
\* terminal is final, and a started attempt only becomes terminal.
AttemptStatesForward == [][AttemptForward]_vars

\* OPTIMIZATION_REQUIREMENTS.md:269: an ended, failed or cancelled request leaves
\* no _currentTurnStep entry.  Only handleSessionDispose deletes one, so a session
\* that is disposed and has wound down must not have one.
DisposedSessionsForgotten ==
  \A s \in Sessions : s \notin live /\ pc[s] = "idle" => currentTurnStep[s] = NoKey

-----------------------------------------------------------------------------
(* The abstract promise, and how this state shows it.                       *)

PhaseOf(d) == IF d \in Called THEN "called"
              ELSE IF rows[d].state = "absent" THEN "none" ELSE rows[d].state

Waiting(s) == pc[s] \in {"flushing", "selected"} /\ selection[s].route # NoRoute

AuditPhase == [d \in Decisions |-> PhaseOf(d)]
Awaited == {selection[s].attempt : s \in {t \in Sessions : Waiting(t)}}

Audit == INSTANCE AuditedCall WITH phase <- AuditPhase, awaited <- Awaited

\* Every step of the plugin, of its crashes and of its reconciliation records,
\* commits or calls as AuditedCall allows: no call ahead of its commit, no
\* decision called twice, none called after its attempt was given up or lost.
AuditedCalls == Audit!Spec

-----------------------------------------------------------------------------
(* Liveness.  Promises settle: the store answers a flush, a provider stream *)
(* ends, and the host's agent loop runs on.  Users, administrators, crashes *)
(* and the cleanup notifications are under no obligation.                   *)

Fairness ==
  /\ \A s \in Sessions :
       /\ WF_vars(ClassifyStep(s))
       /\ WF_vars(SelectModel(s) \/ SelectModelFails(s))
       /\ WF_vars(FlushAcked(s) \/ FlushFailed(s) \/ CommitFails(s))
       /\ WF_vars(Dispatch(s) \/ Abandon(s))
       /\ WF_vars(CloseStream(s) \/ CloseStreamFails(s))
       /\ WF_vars(RequestError(s))
  /\ WF_vars(Reconcile)

FairSpec == Spec /\ Fairness

\* Fallback comes to an end: a step that asks for a model ends in an answer or an
\* error (or with the process), whatever fails and whatever is retried.
StepSettles == \A s \in Sessions : pc[s] = "request" ~> pc[s] \in {"done", "idle"}

\* The reconciliation of a start gets through the rows it found pending.
ReconcileSettles == reconciling.todo # {} ~> reconciling.todo = {}

=============================================================================
