----------------------- MODULE RequestLifecycle_proofs -----------------------
(***************************************************************************)
(* Proofs about RequestLifecycle, for any sets of sessions and routes and  *)
(* any bounds: the variables keep their types; the audit is fail closed,   *)
(* through crashes, restarts and reconciliation; usage and attempt states  *)
(* tell the truth about the calls; and the lifecycle implements            *)
(* AuditedCall.  Where cleanup keeps its order, fallback keeps its rules.  *)
(* Every answer brings a step, and a reconciliation, nearer to its end; an *)
(* entry of a disposed session is made by a step that asks after it.       *)
(***************************************************************************)
EXTENDS RequestLifecycle, TLAPS, FiniteSetTheorems

USE ConstantsAssumption

-----------------------------------------------------------------------------
(* Request states.                                                          *)

LEMMA NoStateType == NoState \in RequestState /\ NoState.requestId = 0
BY DEF NoState, RequestState

LEMMA SettingsType ==
  ASSUME ProcessTypeOK
  PROVE  /\ settings.maxAttempts \in 1..MaxAttempts
         /\ settings.afterPartialOutput \in BOOLEAN
         /\ settings.fallbackEnabled \in BOOLEAN
BY DEF ProcessTypeOK, Settings

\* The state a handler works on is a request state with an id, if one is left.
LEMMA GetOrCreateType ==
  ASSUME ProcessTypeOK, MemoryTypeOK, NEW s \in Sessions, NEW k \in Keys,
         MayCreate(s, k)
  PROVE  /\ GetOrCreateRequestState(s, k) \in RequestState
         /\ GetOrCreateRequestState(s, k).requestId \in 1..MaxRequests
<1>1. CASE Present(s, k)
  BY <1>1 DEF MemoryTypeOK, GetOrCreateRequestState, Present, RequestState
<1>2. CASE ~Present(s, k)
  <2>1. created[s] + 1 \in 1..MaxRequests
    BY <1>2 DEF MemoryTypeOK, MayCreate, Spare
  <2>2. GetOrCreateRequestState(s, k) =
          [requestId |-> created[s] + 1, maxAttempts |-> settings.maxAttempts,
           afterPartialOutput |-> settings.afterPartialOutput, attemptCount |-> 0,
           fallbackIndex |-> 0, excludedRoutes |-> {}, partialOutput |-> FALSE,
           selectedRoute |-> NoRoute]
    BY <1>2 DEF GetOrCreateRequestState, NoState
  <2>3. QED  BY <2>1, <2>2, SettingsType DEF RequestState
<1>3. QED  BY <1>1, <1>2

LEMMA SetStateType ==
  ASSUME MemoryTypeOK, NEW s \in Sessions, NEW k \in Keys,
         NEW st \in RequestState, SetState(s, k, st)
  PROVE  /\ requestStates' \in [Sessions -> [Keys -> RequestState]]
         /\ created' \in [Sessions -> 0..MaxRequests]
<1>1. requestStates' \in [Sessions -> [Keys -> RequestState]]
  BY DEF MemoryTypeOK, SetState
<1>2. created' \in [Sessions -> 0..MaxRequests]
  BY DEF MemoryTypeOK, SetState, MayCreate, Spare
<1>3. QED  BY <1>1, <1>2

LEMMA DeleteStatesType ==
  ASSUME MemoryTypeOK, NEW s \in Sessions, NEW keys, DeleteStates(s, keys)
  PROVE  requestStates' \in [Sessions -> [Keys -> RequestState]]
BY NoStateType DEF MemoryTypeOK, DeleteStates

\* A begun attempt, and the decision made on it, are request states again.
LEMMA DecidedType ==
  ASSUME NEW st \in RequestState, st.attemptCount < MaxAttempts + 1,
         NEW route \in Routes \cup {NoRoute}
  PROVE  LET began == RecordAttempt(st)
         IN  /\ began \in RequestState
             /\ began.requestId = st.requestId
             /\ Decided(began, route) \in RequestState
             /\ Decided(began, route).requestId = st.requestId
             /\ Decided(began, route).fallbackIndex = st.attemptCount
<1> DEFINE began == RecordAttempt(st)
<1>1. began \in RequestState /\ began.attemptCount = st.attemptCount + 1
      /\ began.requestId = st.requestId
  BY DEF RecordAttempt, RequestState
<1>2. st.attemptCount \in 0..MaxAttempts
  BY DEF RequestState
<1>3. ASSUME NEW b \in RequestState, b.attemptCount = st.attemptCount + 1
      PROVE  /\ Decided(b, route) \in RequestState
             /\ Decided(b, route).requestId = b.requestId
             /\ Decided(b, route).fallbackIndex = st.attemptCount
  <2>1. b.attemptCount - 1 = st.attemptCount
    BY <1>2, <1>3
  <2>2. (IF route = NoRoute THEN b.selectedRoute ELSE route) \in Routes \cup {NoRoute}
    BY <1>3 DEF RequestState
  <2>3. QED  BY <1>2, <1>3, <2>1, <2>2 DEF Decided, RequestState
<1>4. /\ Decided(began, route) \in RequestState
      /\ Decided(began, route).requestId = st.requestId
      /\ Decided(began, route).fallbackIndex = st.attemptCount
  BY <1>1, <1>3
<1>5. QED  BY <1>1, <1>4

LEMMA DecisionIdType ==
  ASSUME NEW s \in Sessions, NEW st \in RequestState, st.requestId # 0
  PROVE  DecisionId(s, st) \in Decisions
BY DEF DecisionId, Decisions, RequestState

LEMMA NoDecisionType == NoDecision \notin Decisions /\ Unknown \notin Decisions
BY DEF NoDecision, Unknown, Decisions

-----------------------------------------------------------------------------
(* Every step keeps the types.  The agent loop needs to know what it holds. *)

LEMMA Kept ==
  /\ ProcessTypeOK /\ UNCHANGED process => ProcessTypeOK'
  /\ MemoryTypeOK /\ UNCHANGED memory => MemoryTypeOK'
  /\ StorageTypeOK /\ UNCHANGED storage => StorageTypeOK'
  /\ LogsTypeOK /\ UNCHANGED logs => LogsTypeOK'
  /\ LoopTypeOK /\ UNCHANGED loop => LoopTypeOK'
  /\ HistoryTypeOK /\ UNCHANGED history => HistoryTypeOK'
<1>1. ProcessTypeOK /\ UNCHANGED process => ProcessTypeOK'
  BY DEF ProcessTypeOK, process
<1>2. MemoryTypeOK /\ UNCHANGED memory => MemoryTypeOK'
  BY DEF MemoryTypeOK, memory
<1>3. StorageTypeOK /\ UNCHANGED storage => StorageTypeOK'
  BY DEF StorageTypeOK, storage
<1>4. LogsTypeOK /\ UNCHANGED logs => LogsTypeOK'
  BY DEF LogsTypeOK, logs
<1>5. LoopTypeOK /\ UNCHANGED loop => LoopTypeOK'
  BY DEF LoopTypeOK, loop
<1>6. HistoryTypeOK /\ UNCHANGED history => HistoryTypeOK'
  BY DEF HistoryTypeOK, history
<1>7. QED  BY <1>1, <1>2, <1>3, <1>4, <1>5, <1>6

LEMMA SetAttemptType ==
  ASSUME StorageTypeOK, NEW s, NEW k, NEW value \in AttemptState,
         SetAttempt(s, k, value)
  PROVE  attemptStates' \in [Decisions -> AttemptState]
BY DEF StorageTypeOK, SetAttempt

LEMMA PreStepType ==
  ASSUME TypeOK, NEW s \in Sessions, PreStep(s)  PROVE TypeOK'
<1>1. LoopTypeOK'
  <2>1. at' \in [Sessions -> (1..MaxTurn) \X (0..MaxStep)]
    BY DEF PreStep, TypeOK, LoopTypeOK
  <2>2. pc' \in [Sessions -> Stages]
    BY DEF PreStep, MoveTo, TypeOK, LoopTypeOK, Stages
  <2>3. QED  BY <2>1, <2>2 DEF PreStep, TypeOK, LoopTypeOK
<1>2. QED  BY <1>1, Kept DEF PreStep, TypeOK

LEMMA ClassifyStepType ==
  ASSUME TypeOK, LoopHoldsDecision, NEW s \in Sessions, ClassifyStep(s)
  PROVE  TypeOK'
<1>1. at[s] \in Keys
  BY DEF ClassifyStep, LoopHoldsDecision, HeldDecision
<1>2. MemoryTypeOK'
  <2>1. GetOrCreateRequestState(s, at[s]) \in RequestState
    BY <1>1, GetOrCreateType DEF ClassifyStep, SetState, TypeOK
  <2>2. QED
    BY <1>1, <2>1, SetStateType DEF ClassifyStep, TypeOK, MemoryTypeOK
<1>3. LoopTypeOK'
  BY DEF ClassifyStep, MoveTo, TypeOK, LoopTypeOK, Stages
<1>4. QED
  <2>1. UNCHANGED <<process, storage, logs, history>>  BY DEF ClassifyStep
  <2>2. QED  BY <1>2, <1>3, <2>1, Kept DEF TypeOK

\* What a handler of agent/request leaves behind, whether it decides or fails.
LEMMA EnterRequestType ==
  ASSUME TypeOK, NEW s \in Sessions, at[s] \in Keys, EnterRequest(s)
  PROVE  /\ currentTurnStep' \in [Sessions -> Keys \cup {NoKey}]
         /\ attemptStates' \in [Decisions -> AttemptState]
BY DEF EnterRequest, TypeOK, MemoryTypeOK, StorageTypeOK

\* The attempt of agent/request, and the decision made on it.
LEMMA BeganType ==
  ASSUME TypeOK, NEW s \in Sessions, at[s] \in Keys, MayCreate(s, at[s]),
         RecordAttempt(GetOrCreateRequestState(s, at[s])).attemptCount
            <= MaxAttempts + 1,
         NEW route \in Routes \cup {NoRoute}
  PROVE  LET st == GetOrCreateRequestState(s, at[s])
             began == RecordAttempt(st)
             decided == Decided(began, route)
         IN  /\ st \in RequestState /\ st.attemptCount \in 0..MaxAttempts
             /\ began \in RequestState
             /\ decided \in RequestState
             /\ DecisionId(s, decided) = <<s, st.requestId, st.attemptCount>>
             /\ DecisionId(s, decided) \in Decisions
<1> DEFINE st == GetOrCreateRequestState(s, at[s])
<1>1. st \in RequestState /\ st.requestId \in 1..MaxRequests
  BY GetOrCreateType DEF TypeOK
<1>2. RecordAttempt(st).attemptCount = st.attemptCount + 1
      /\ st.attemptCount \in Nat
  BY <1>1 DEF RecordAttempt, RequestState
<1> HIDE DEF st
<1>3. RecordAttempt(st).attemptCount <= MaxAttempts + 1
  BY DEF st
<1>4. st.attemptCount < MaxAttempts + 1 /\ st.attemptCount \in 0..MaxAttempts
  BY <1>2, <1>3
<1>5. /\ RecordAttempt(st) \in RequestState
      /\ Decided(RecordAttempt(st), route) \in RequestState
      /\ Decided(RecordAttempt(st), route).requestId = st.requestId
      /\ Decided(RecordAttempt(st), route).fallbackIndex = st.attemptCount
  BY <1>1, <1>4, DecidedType
<1>6. DecisionId(s, Decided(RecordAttempt(st), route))
        = <<s, st.requestId, st.attemptCount>>
  BY <1>5 DEF DecisionId
<1>7. <<s, st.requestId, st.attemptCount>> \in Decisions
  BY <1>1, <1>4 DEF Decisions
<1>8. QED  BY <1>1, <1>4, <1>5, <1>6, <1>7 DEF st

LEMMA SelectModelType ==
  ASSUME TypeOK, LoopHoldsDecision, NEW s \in Sessions, SelectModel(s)
  PROVE  TypeOK'
<1> DEFINE began == RecordAttempt(GetOrCreateRequestState(s, at[s]))
<1>1. at[s] \in Keys
  BY DEF SelectModel, LoopHoldsDecision, HeldDecision
<1>2. MayCreate(s, at[s]) /\ began.attemptCount <= MaxAttempts + 1
  BY DEF SelectModel
<1>3. PICK route \in Candidates(began) \cup {NoRoute} :
        LET st == Decided(began, route)
            d == DecisionId(s, st)
        IN  /\ SetState(s, at[s], st)
            /\ InsertDecision(d, route)
            /\ selection' = [selection EXCEPT ![s] = [attempt |-> d, route |-> route]]
            /\ \/ AppendDecision(d) /\ MoveTo(s, "flushing")
               \/ UNCHANGED sessionLog /\ MoveTo(s, "done")
  BY Zenon DEF SelectModel
<1> DEFINE st == Decided(began, route)
           d == DecisionId(s, st)
<1>4. route \in Routes \cup {NoRoute}
  BY DEF Candidates
<1>5. st \in RequestState /\ d \in Decisions
  BY <1>1, <1>2, <1>4, BeganType
<1> HIDE DEF st, d
<1>6. MemoryTypeOK'
  <2>1. SetState(s, at[s], st)  BY <1>3 DEF st
  <2>2. QED
    BY <1>1, <1>5, <2>1, SetStateType, EnterRequestType
    DEF SelectModel, TypeOK, MemoryTypeOK
<1>7. StorageTypeOK'
  <2>1. rows' \in [Decisions -> Row]
    <3>1. InsertDecision(d, route)  BY <1>3 DEF st, d
    <3>2. QED
      BY <1>4, <1>5, <3>1 DEF InsertDecision, TypeOK, StorageTypeOK, Row
  <2>2. QED
    BY <1>1, <2>1, EnterRequestType DEF SelectModel, TypeOK, StorageTypeOK
<1>8. LogsTypeOK'
  <2>1. AppendDecision(d) \/ UNCHANGED sessionLog  BY <1>3 DEF st, d
  <2>2. QED  BY <1>5, <2>1 DEF AppendDecision, SelectModel, TypeOK, LogsTypeOK
<1>9. LoopTypeOK'
  <2>1. selection' = [selection EXCEPT ![s] = [attempt |-> d, route |-> route]]
    BY <1>3 DEF st, d
  <2>2. MoveTo(s, "flushing") \/ MoveTo(s, "done")  BY <1>3
  <2>3. QED
    BY <1>4, <1>5, <2>1, <2>2 DEF SelectModel, MoveTo, TypeOK, LoopTypeOK, Stages
<1>10. QED
  <2>1. UNCHANGED <<process, history>>  BY DEF SelectModel
  <2>2. QED  BY <1>6, <1>7, <1>8, <1>9, <2>1, Kept DEF TypeOK

LEMMA SelectModelFailsType ==
  ASSUME TypeOK, LoopHoldsDecision, NEW s \in Sessions, SelectModelFails(s)
  PROVE  TypeOK'
<1> DEFINE began == RecordAttempt(GetOrCreateRequestState(s, at[s]))
<1>1. at[s] \in Keys
  BY DEF SelectModelFails, LoopHoldsDecision, HeldDecision
<1>2. MayCreate(s, at[s]) /\ began.attemptCount <= MaxAttempts + 1
  BY DEF SelectModelFails
<1>3. PICK route \in Candidates(began) \cup {NoRoute} :
        \E st \in {began, Decided(began, route)} : SetState(s, at[s], st)
  BY DEF SelectModelFails
<1>4. route \in Routes \cup {NoRoute}
  BY DEF Candidates
<1>5. began \in RequestState /\ Decided(began, route) \in RequestState
  BY <1>1, <1>2, <1>4, BeganType
<1> HIDE DEF began
<1>6. MemoryTypeOK'
  <2>1. PICK st \in RequestState : SetState(s, at[s], st)
    BY <1>3, <1>5
  <2>2. QED
    BY <1>1, <2>1, SetStateType, EnterRequestType
    DEF SelectModelFails, TypeOK, MemoryTypeOK
<1>7. StorageTypeOK'
  BY <1>1, EnterRequestType DEF SelectModelFails, TypeOK, StorageTypeOK
<1>8. LoopTypeOK'
  BY DEF SelectModelFails, MoveTo, TypeOK, LoopTypeOK, Stages
<1>9. QED
  <2>1. UNCHANGED <<process, logs, history>>  BY DEF SelectModelFails
  <2>2. QED  BY <1>6, <1>7, <1>8, <2>1, Kept DEF TypeOK

LEMMA FlushType ==
  ASSUME TypeOK, LoopHoldsDecision, NEW s \in Sessions,
         FlushAcked(s) \/ FlushFailed(s) \/ CommitFails(s)
  PROVE  TypeOK'
<1> DEFINE d == selection[s].attempt
<1>1. d \in Decisions
  BY DEF FlushAcked, FlushFailed, CommitFails, LoopHoldsDecision, HeldDecision
<1> HIDE DEF d
<1>2. StorageTypeOK'
  <2>1. ASSUME rows' = [rows EXCEPT ![d].state = "committed"]
        PROVE  rows' \in [Decisions -> Row]
    BY <1>1, <2>1 DEF TypeOK, StorageTypeOK, Row
  <2>2. ASSUME attemptStates' = [attemptStates EXCEPT ![d] = "not_dispatched"]
        PROVE  attemptStates' \in [Decisions -> AttemptState]
    BY <1>1, <2>2 DEF TypeOK, StorageTypeOK, AttemptState
  <2>3. CASE FlushAcked(s)
    BY <2>1, <2>2, <2>3 DEF FlushAcked, d, TypeOK, StorageTypeOK
  <2>4. CASE FlushFailed(s)
    BY <2>4, Kept DEF FlushFailed, TypeOK
  <2>5. CASE CommitFails(s)
    BY <2>1, <2>5 DEF CommitFails, d, TypeOK, StorageTypeOK
  <2>6. QED  BY <2>3, <2>4, <2>5
<1>3. LogsTypeOK'
  BY <1>1 DEF FlushAcked, FlushFailed, CommitFails, d, TypeOK, LogsTypeOK, logs
<1>4. LoopTypeOK'
  BY DEF FlushAcked, FlushFailed, CommitFails, MoveTo, TypeOK, LoopTypeOK, Stages
<1>5. QED
  <2>1. UNCHANGED <<process, memory, history>>
    BY DEF FlushAcked, FlushFailed, CommitFails
  <2>2. QED  BY <1>2, <1>3, <1>4, <2>1, Kept DEF TypeOK

LEMMA StateAtType ==
  ASSUME MemoryTypeOK, NEW s \in Sessions, NEW k \in Keys \cup {NoKey}
  PROVE  StateAt(s, k) \in RequestState
BY NoStateType DEF MemoryTypeOK, StateAt

LEMMA DispatchType ==
  ASSUME TypeOK, LoopHoldsDecision, NEW s \in Sessions, Dispatch(s)
  PROVE  TypeOK'
<1> DEFINE k == currentTurnStep[s]
           st == StateAt(s, k)
<1>1. st \in RequestState
  BY StateAtType DEF TypeOK, MemoryTypeOK
<1>2. /\ at[s] \in Keys /\ selection[s].attempt \in Decisions
      /\ selection[s].route \in Routes
  BY DEF Dispatch, LoopHoldsDecision, HeldDecision, TypeOK, LogsTypeOK
<1> HIDE DEF st
<1>3. StorageTypeOK'
  <2>1. SetAttempt(s, k, "dispatch_started")  BY DEF Dispatch
  <2>2. attemptStates' \in [Decisions -> AttemptState]
    BY <2>1, SetAttemptType DEF AttemptState, TypeOK
  <2>3. QED  BY <2>2 DEF Dispatch, TypeOK, StorageTypeOK
<1>4. LoopTypeOK'
  <2>1. stream' = [stream EXCEPT ![s] = IF st.requestId = 0 THEN Unknown
                                        ELSE DecisionId(s, st)]
    BY DEF Dispatch, st
  <2>2. st.requestId # 0 => DecisionId(s, st) \in Decisions
    BY <1>1, DecisionIdType
  <2>3. QED
    BY <2>1, <2>2 DEF Dispatch, MoveTo, TypeOK, LoopTypeOK, Stages
<1>5. HistoryTypeOK'
  <2>1. calls' = calls \cup {[key |-> at[s], attempt |-> selection[s].attempt,
                              route |-> selection[s].route,
                              limit |-> st.maxAttempts,
                              sticky |-> ~st.afterPartialOutput]}
    BY DEF Dispatch, st
  <2>2. st.maxAttempts \in 1..MaxAttempts /\ (~st.afterPartialOutput) \in BOOLEAN
    BY <1>1 DEF RequestState
  <2>3. [key |-> at[s], attempt |-> selection[s].attempt,
         route |-> selection[s].route, limit |-> st.maxAttempts,
         sticky |-> ~st.afterPartialOutput]
        \in [key : Keys, attempt : Decisions, route : Routes,
             limit : 1..MaxAttempts, sticky : BOOLEAN]
    BY <1>2, <2>2
  <2>4. QED  BY <2>1, <2>3 DEF Dispatch, TypeOK, HistoryTypeOK
<1>6. QED
  <2>1. UNCHANGED <<process, memory, logs>>  BY DEF Dispatch
  <2>2. QED  BY <1>3, <1>4, <1>5, <2>1, Kept DEF TypeOK

LEMMA AbandonType ==
  ASSUME TypeOK, NEW s \in Sessions, Abandon(s)  PROVE TypeOK'
<1>1. LoopTypeOK'
  BY DEF Abandon, MoveTo, TypeOK, LoopTypeOK, Stages
<1>2. QED  BY <1>1, Kept DEF Abandon, TypeOK

LEMMA PartialOutputType ==
  ASSUME TypeOK, LoopHoldsDecision, NEW s \in Sessions, PartialOutput(s)
  PROVE  TypeOK'
<1>1. selection[s].attempt \in Decisions
  BY DEF PartialOutput, LoopHoldsDecision, HeldDecision, TypeOK, LogsTypeOK
<1>2. MemoryTypeOK'
  <2>1. at[s] \in Keys
    BY DEF PartialOutput, LoopHoldsDecision, HeldDecision
  <2>2. requestStates[s][at[s]] \in RequestState
    BY <2>1 DEF TypeOK, MemoryTypeOK
  <2>3. [requestStates[s][at[s]] EXCEPT !.partialOutput = TRUE] \in RequestState
    BY <2>2 DEF RequestState
  <2>4. requestStates' \in [Sessions -> [Keys -> RequestState]]
    BY <2>1, <2>3 DEF PartialOutput, TypeOK, MemoryTypeOK
  <2>5. QED  BY <2>4 DEF PartialOutput, TypeOK, MemoryTypeOK
<1>3. HistoryTypeOK'
  BY <1>1 DEF PartialOutput, TypeOK, HistoryTypeOK
<1>4. QED
  <2>1. UNCHANGED <<process, storage, logs, loop>>  BY DEF PartialOutput
  <2>2. QED  BY <1>2, <1>3, <2>1, Kept DEF TypeOK

LEMMA CloseStreamType ==
  ASSUME TypeOK, LoopHoldsDecision, NEW s \in Sessions, CloseStream(s)
  PROVE  TypeOK'
<1>1. stream[s] \in Decisions \cup {Unknown} /\ selection[s].route \in Routes
  BY DEF CloseStream, LoopHoldsDecision, HeldDecision, TypeOK, LoopTypeOK
<1>2. PICK terminal \in Terminal :
        /\ SetAttempt(s, at[s], terminal)
        /\ MoveTo(s, IF terminal = "completed" THEN "done" ELSE "failed")
  BY DEF CloseStream
<1>3. StorageTypeOK'
  <2>1. attemptStates' \in [Decisions -> AttemptState]
    BY <1>2, SetAttemptType DEF AttemptState, TypeOK
  <2>2. usage' \subseteq [attempt : Decisions \cup {Unknown}, route : Routes]
    BY <1>1 DEF CloseStream, RecordUsage, TypeOK, StorageTypeOK
  <2>3. QED  BY <2>1, <2>2 DEF CloseStream, TypeOK, StorageTypeOK
<1>4. LoopTypeOK'
  BY <1>2 DEF CloseStream, MoveTo, TypeOK, LoopTypeOK, Stages
<1>5. QED
  <2>1. UNCHANGED <<process, memory, logs, history>>  BY DEF CloseStream
  <2>2. QED  BY <1>3, <1>4, <2>1, Kept DEF TypeOK

LEMMA CloseStreamFailsType ==
  ASSUME TypeOK, NEW s \in Sessions, CloseStreamFails(s)  PROVE TypeOK'
<1>1. LoopTypeOK'
  BY DEF CloseStreamFails, MoveTo, TypeOK, LoopTypeOK, Stages
<1>2. QED  BY <1>1, Kept DEF CloseStreamFails, TypeOK

LEMMA RequestErrorType ==
  ASSUME TypeOK, LoopHoldsDecision, NEW s \in Sessions, RequestError(s)
  PROVE  TypeOK'
<1> DEFINE st == GetOrCreateRequestState(s, at[s])
<1>1. at[s] \in Keys
  BY DEF RequestError, LoopHoldsDecision, HeldDecision
<1>2. MemoryTypeOK'
  <2>1. CASE SetState(s, at[s], st) \/ SetState(s, at[s], ExcludeRoute(st))
    <3>1. st \in RequestState
      BY <1>1, <2>1, GetOrCreateType DEF SetState, TypeOK
    <3>2. ExcludeRoute(st) \in RequestState
      <4> HIDE DEF st
      <4>1. QED  BY <3>1 DEF ExcludeRoute, RequestState
    <3>3. QED
      BY <1>1, <2>1, <3>1, <3>2, SetStateType DEF RequestError, TypeOK, MemoryTypeOK
  <2>2. CASE UNCHANGED <<requestStates, created>>
    BY <2>2 DEF RequestError, TypeOK, MemoryTypeOK
  <2>3. QED  BY <2>1, <2>2, Zenon DEF RequestError
<1>3. LoopTypeOK'
  <2>1. MoveTo(s, "request") \/ MoveTo(s, "done")
    BY Zenon DEF RequestError
  <2>2. QED  BY <2>1 DEF RequestError, MoveTo, TypeOK, LoopTypeOK, Stages
<1>4. QED
  <2>1. UNCHANGED <<process, storage, logs, history>>  BY DEF RequestError
  <2>2. QED  BY <1>2, <1>3, <2>1, Kept DEF TypeOK

LEMMA StepEndType ==
  ASSUME TypeOK, NEW s \in Sessions, StepEnd(s)  PROVE TypeOK'
<1>1. MemoryTypeOK'
  BY DeleteStatesType DEF StepEnd, TypeOK, MemoryTypeOK
<1>2. LoopTypeOK'
  BY DEF StepEnd, MoveTo, TypeOK, LoopTypeOK, Stages
<1>3. QED  BY <1>1, <1>2, Kept DEF StepEnd, TypeOK

LEMMA TurnEndType ==
  ASSUME TypeOK, NEW s \in Sessions, TurnEnd(s)  PROVE TypeOK'
<1>1. MemoryTypeOK'
  BY DeleteStatesType DEF TurnEnd, TypeOK, MemoryTypeOK
<1>2. at' \in [Sessions -> (1..MaxTurn) \X (0..MaxStep)]
  BY DEF TurnEnd, TypeOK, LoopTypeOK
<1>3. LoopTypeOK'
  BY <1>2 DEF TurnEnd, TypeOK, LoopTypeOK
<1>4. QED  BY <1>1, <1>3, Kept DEF TurnEnd, TypeOK

LEMMA EarlyTurnEndType ==
  ASSUME TypeOK, NEW s \in Sessions, EarlyTurnEnd(s)  PROVE TypeOK'
<1>1. MemoryTypeOK'
  BY DeleteStatesType DEF EarlyTurnEnd, TypeOK, MemoryTypeOK
<1>2. QED  BY <1>1, Kept DEF EarlyTurnEnd, TypeOK

LEMMA SessionDisposeType ==
  ASSUME TypeOK, NEW s \in Sessions, SessionDispose(s)  PROVE TypeOK'
<1>1. ProcessTypeOK'
  BY DEF SessionDispose, TypeOK, ProcessTypeOK
<1>2. MemoryTypeOK'
  BY DeleteStatesType DEF SessionDispose, TypeOK, MemoryTypeOK
<1>3. LogsTypeOK'
  BY DEF SessionDispose, TypeOK, LogsTypeOK
<1>4. QED  BY <1>1, <1>2, <1>3, Kept DEF SessionDispose, TypeOK

LEMMA SessionOpenType ==
  ASSUME TypeOK, NEW s \in Sessions, SessionOpen(s)  PROVE TypeOK'
<1>1. ProcessTypeOK'
  BY DEF SessionOpen, TypeOK, ProcessTypeOK
<1>2. LogsTypeOK'
  BY DEF SessionOpen, TypeOK, LogsTypeOK
<1>3. QED  BY <1>1, <1>2, Kept DEF SessionOpen, TypeOK

LEMMA PersistType ==
  ASSUME TypeOK, NEW d \in Decisions, Persist(d)  PROVE TypeOK'
<1>1. LogsTypeOK'
  BY DEF Persist, TypeOK, LogsTypeOK
<1>2. QED  BY <1>1, Kept DEF Persist, TypeOK

LEMMA UpdateSettingsType ==
  ASSUME TypeOK, UpdateSettings  PROVE TypeOK'
<1>1. ProcessTypeOK'
  BY DEF UpdateSettings, TypeOK, ProcessTypeOK
<1>2. QED  BY <1>1, Kept DEF UpdateSettings, TypeOK

LEMMA CrashType ==
  ASSUME TypeOK, Crash  PROVE TypeOK'
<1>1. ProcessTypeOK'
  <2>1. crashes' \in 0..MaxCrashes
    BY DEF Crash, TypeOK, ProcessTypeOK
  <2>2. reconciling' \in [todo : SUBSET Decisions, current : Decisions \cup {NoDecision}]
    BY DEF Crash
  <2>3. up' \in BOOLEAN /\ live' \subseteq Sessions /\ settings' \in SettingsChoices
    BY DEF Crash, TypeOK, ProcessTypeOK
  <2>4. QED  BY <2>1, <2>2, <2>3 DEF ProcessTypeOK
<1>2. MemoryTypeOK'
  BY NoStateType DEF Crash, TypeOK, MemoryTypeOK
<1>3. LogsTypeOK'
  BY DEF Crash, TypeOK, LogsTypeOK
<1>4. LoopTypeOK'
  BY DEF Crash, TypeOK, LoopTypeOK, Stages
<1>5. UNCHANGED <<storage, history>>
  BY DEF Crash
<1>6. QED  BY <1>1, <1>2, <1>3, <1>4, <1>5, Kept DEF TypeOK

LEMMA RestartType ==
  ASSUME TypeOK, Restart  PROVE TypeOK'
<1>1. ProcessTypeOK'
  BY DEF Restart, Pending, TypeOK, ProcessTypeOK
<1>2. LogsTypeOK'
  BY DEF Restart, TypeOK, LogsTypeOK
<1>3. QED  BY <1>1, <1>2, Kept DEF Restart, TypeOK

LEMMA ReconcileAppendType ==
  ASSUME TypeOK, NEW d \in Decisions, ReconcileAppend(d)  PROVE TypeOK'
<1>1. ProcessTypeOK'
  BY DEF ReconcileAppend, TypeOK, ProcessTypeOK
<1>2. LogsTypeOK'
  BY DEF ReconcileAppend, AppendDecision, TypeOK, LogsTypeOK
<1>3. QED  BY <1>1, <1>2, Kept DEF ReconcileAppend, TypeOK

LEMMA ReconcileEndType ==
  ASSUME TypeOK, ReconcileAcked \/ ReconcileFailed  PROVE TypeOK'
<1>1. ProcessTypeOK'
  BY DEF ReconcileAcked, ReconcileFailed, ReconcileDone, TypeOK, ProcessTypeOK
<1>2. CASE ReconcileAcked
  <2> DEFINE d == reconciling.current
  <2>1. d \in Decisions
    BY <1>2 DEF ReconcileAcked, TypeOK, ProcessTypeOK
  <2>2. rows' \in [Decisions -> Row]
    BY <1>2, <2>1 DEF ReconcileAcked, TypeOK, StorageTypeOK, Row
  <2>3. StorageTypeOK' /\ LogsTypeOK'
    BY <1>2, <2>1, <2>2 DEF ReconcileAcked, TypeOK, StorageTypeOK, LogsTypeOK
  <2>4. QED  BY <1>1, <1>2, <2>3, Kept DEF ReconcileAcked, TypeOK
<1>3. CASE ReconcileFailed
  BY <1>1, <1>3, Kept DEF ReconcileFailed, TypeOK
<1>4. QED  BY <1>2, <1>3

LEMMA TypeInit == Init => TypeOK
<1> SUFFICES ASSUME Init  PROVE TypeOK
  OBVIOUS
<1>1. ProcessTypeOK  BY DEF Init, ProcessTypeOK
<1>2. MemoryTypeOK  BY NoStateType DEF Init, MemoryTypeOK
<1>3. StorageTypeOK  BY DEF Init, StorageTypeOK, Row, NoRow, AttemptState
<1>4. LogsTypeOK  BY DEF Init, LogsTypeOK
<1>5. LoopTypeOK  BY DEF Init, LoopTypeOK, Stages
<1>6. HistoryTypeOK  BY DEF Init, HistoryTypeOK
<1>7. QED  BY <1>1, <1>2, <1>3, <1>4, <1>5, <1>6 DEF TypeOK

LEMMA TypeNext == TypeOK /\ LoopHoldsDecision /\ [Next]_vars => TypeOK'
<1> SUFFICES ASSUME TypeOK, LoopHoldsDecision, [Next]_vars  PROVE TypeOK'
  OBVIOUS
<1>1. ASSUME NEW s \in Sessions, Request(s)  PROVE TypeOK'
  BY <1>1, PreStepType, ClassifyStepType, SelectModelType, SelectModelFailsType,
     FlushType, DispatchType, AbandonType, PartialOutputType, CloseStreamType,
     CloseStreamFailsType, RequestErrorType
  DEF Request
<1>2. ASSUME NEW s \in Sessions, Cleanup(s)  PROVE TypeOK'
  BY <1>2, StepEndType, TurnEndType, EarlyTurnEndType, SessionDisposeType,
     SessionOpenType
  DEF Cleanup
<1>3. CASE Reconcile
  BY <1>3, ReconcileAppendType, ReconcileEndType DEF Reconcile
<1>4. CASE UNCHANGED vars
  BY <1>4, Kept DEF vars, TypeOK
<1>5. QED
  BY <1>1, <1>2, <1>3, <1>4, PersistType, UpdateSettingsType, CrashType, RestartType
  DEF Next

-----------------------------------------------------------------------------
(* The inductive invariant.  CallsAreCommitted alone is not inductive: the  *)
(* call of Dispatch is committed because the agent loop holds a committed   *)
(* decision, which FlushAcked made of the row SelectModel inserted.         *)

FailClosed ==
  /\ TypeOK
  /\ LoopHoldsDecision
  /\ CallsAreCommitted
  /\ CommittedIsDurable

\* A step that leaves rows alone, and loses no durable event.
LEMMA RowsUnchanged ==
  ASSUME UNCHANGED rows, durableLog \subseteq durableLog'
  PROVE  RowsForward
BY DEF RowsForward

\* A step that commits one row, with its event durable.
LEMMA RowCommitted ==
  ASSUME TypeOK, NEW d \in Decisions,
         rows' = [rows EXCEPT ![d].state = "committed"],
         durableLog' = durableLog \cup {d},
         rows[d].state # "absent"
  PROVE  RowsForward
<1>1. \A e \in Decisions : e # d => rows'[e] = rows[e]
  BY DEF TypeOK, StorageTypeOK
<1>2. rows'[d].state = "committed" /\ rows'[d].route = rows[d].route
      /\ (rows[d].state = "committed" => rows'[d] = rows[d])
  BY DEF TypeOK, StorageTypeOK, Row
<1>3. QED  BY <1>1, <1>2 DEF RowsForward

LEMMA RowInserted ==
  ASSUME TypeOK, NEW d \in Decisions, NEW route, InsertDecision(d, route),
         UNCHANGED durableLog
  PROVE  RowsForward
<1>1. \A e \in Decisions : rows[e].state # "absent" => rows'[e] = rows[e]
  BY DEF InsertDecision, TypeOK, StorageTypeOK
<1>2. \A e \in Decisions :
        rows[e].state = "absent" => rows'[e].state \in {"absent", "pending"}
  BY DEF InsertDecision, TypeOK, StorageTypeOK
<1>3. QED  BY <1>1, <1>2 DEF RowsForward

\* SelectModel inserts the decision it then waits for, or gives up.
LEMMA SelectModelInserts ==
  ASSUME TypeOK, LoopHoldsDecision, NEW s \in Sessions, SelectModel(s)
  PROVE  LET d == selection'[s].attempt
             route == selection'[s].route
         IN  /\ d \in Decisions /\ Insertable(d, route) /\ InsertDecision(d, route)
             /\ pc'[s] \in {"flushing", "done"}
<1> DEFINE began == RecordAttempt(GetOrCreateRequestState(s, at[s]))
<1>1. at[s] \in Keys
  BY DEF SelectModel, LoopHoldsDecision, HeldDecision
<1>2. MayCreate(s, at[s]) /\ began.attemptCount <= MaxAttempts + 1
  BY DEF SelectModel
<1>3. PICK route \in Candidates(began) \cup {NoRoute} :
        LET d == DecisionId(s, Decided(began, route))
        IN  /\ Insertable(d, route) /\ InsertDecision(d, route)
            /\ selection' = [selection EXCEPT ![s] = [attempt |-> d, route |-> route]]
            /\ MoveTo(s, "flushing") \/ MoveTo(s, "done")
  BY Zenon DEF SelectModel
<1> DEFINE d == DecisionId(s, Decided(began, route))
<1>4. route \in Routes \cup {NoRoute}
  BY DEF Candidates
<1>5. d \in Decisions
  BY <1>1, <1>2, <1>4, BeganType
<1> HIDE DEF d
<1>6. selection'[s] = [attempt |-> d, route |-> route]
  BY <1>3 DEF d, TypeOK, LoopTypeOK
<1>7. pc'[s] \in {"flushing", "done"}
  BY <1>3 DEF MoveTo, TypeOK, LoopTypeOK
<1>8. Insertable(d, route) /\ InsertDecision(d, route)
  BY <1>3 DEF d
<1>9. QED  BY <1>5, <1>6, <1>7, <1>8

LEMMA RowsNext == FailClosed /\ [Next]_vars => RowsForward
<1> SUFFICES ASSUME FailClosed, [Next]_vars  PROVE RowsForward
  OBVIOUS
<1> USE DEF FailClosed
<1>1. ASSUME NEW s \in Sessions, SelectModel(s)  PROVE RowsForward
  <2>1. UNCHANGED durableLog  BY <1>1 DEF SelectModel
  <2>2. QED  BY <1>1, <2>1, SelectModelInserts, RowInserted
<1>2. ASSUME NEW s \in Sessions, FlushAcked(s) \/ CommitFails(s)  PROVE RowsForward
  <2> DEFINE d == selection[s].attempt
  <2>1. d \in Decisions /\ rows[d].state # "absent"
    BY <1>2 DEF FlushAcked, CommitFails, LoopHoldsDecision, HeldDecision
  <2>2. durableLog' = durableLog \cup {d}
    BY <1>2 DEF FlushAcked, CommitFails
  <2>3. rows' = [rows EXCEPT ![d].state = "committed"] \/ rows' = rows
    BY <1>2 DEF FlushAcked, CommitFails
  <2>4. QED  BY <2>1, <2>2, <2>3, RowCommitted, RowsUnchanged
<1>3. ASSUME NEW s \in Sessions, Request(s),
             ~SelectModel(s), ~FlushAcked(s), ~CommitFails(s)
      PROVE  RowsForward
  <2>1. UNCHANGED rows /\ UNCHANGED durableLog
    BY <1>3 DEF Request, PreStep, ClassifyStep, SelectModelFails, FlushFailed, Dispatch,
       Abandon, PartialOutput, CloseStream, CloseStreamFails, RequestError,
       storage, logs
  <2>2. QED  BY <2>1, RowsUnchanged
<1>4. ASSUME NEW s \in Sessions, Cleanup(s)  PROVE RowsForward
  <2>1. UNCHANGED rows /\ UNCHANGED durableLog
    BY <1>4 DEF Cleanup, StepEnd, TurnEnd, EarlyTurnEnd, SessionDispose, SessionOpen,
       storage, logs
  <2>2. QED  BY <2>1, RowsUnchanged
<1>5. CASE ReconcileAcked
  <2> DEFINE d == reconciling.current
  <2>1. d \in Decisions
    BY <1>5 DEF ReconcileAcked, TypeOK, ProcessTypeOK
  <2>2. durableLog' = durableLog \cup {d}
    BY <1>5 DEF ReconcileAcked
  <2>3. CASE rows[d].state = "pending"
    <3>1. rows' = [rows EXCEPT ![d].state = "committed"]
      BY <1>5, <2>3 DEF ReconcileAcked
    <3>2. QED  BY <2>1, <2>2, <2>3, <3>1, RowCommitted
  <2>4. CASE rows[d].state # "pending"
    <3>1. rows' = rows
      BY <1>5, <2>1, <2>4 DEF ReconcileAcked, TypeOK, StorageTypeOK, Row
    <3>2. QED  BY <2>2, <3>1, RowsUnchanged
  <2>5. QED  BY <2>3, <2>4
<1>6. CASE ReconcileFailed \/ (\E d \in Decisions : ReconcileAppend(d) \/ Persist(d))
           \/ UpdateSettings \/ Crash \/ Restart \/ UNCHANGED vars
  <2>1. UNCHANGED rows /\ durableLog \subseteq durableLog'
    BY <1>6 DEF ReconcileFailed, ReconcileAppend, Persist, UpdateSettings, Crash, Restart,
       vars, storage, logs
  <2>2. QED  BY <2>1, RowsUnchanged
<1>7. QED
  BY <1>1, <1>2, <1>3, <1>4, <1>5, <1>6 DEF Next, Reconcile

-----------------------------------------------------------------------------
(* What each agent loop holds, from step to step.                           *)

LoopKept(s) ==
  pc'[s] = pc[s] /\ at'[s] = at[s] /\ selection'[s] = selection[s]
  /\ stream'[s] = stream[s]

LEMMA HeldKept ==
  ASSUME TypeOK, RowsForward, NEW s \in Sessions, HeldDecision(s), LoopKept(s)
  PROVE  HeldDecision(s)'
BY DEF TypeOK, LogsTypeOK, RowsForward, HeldDecision, LoopKept

\* A loop that waits for nothing holds nothing.
LEMMA HoldsNothing ==
  ASSUME NEW s \in Sessions,
         pc'[s] = "idle"
         \/ (pc'[s] \in {"classifying", "request", "failed", "done"} /\ at'[s] \in Keys)
  PROVE  HeldDecision(s)'
BY DEF HeldDecision

\* A handler of one session leaves the loops of the others alone.
LEMMA OtherLoopsKept ==
  ASSUME TypeOK, NEW s \in Sessions, Request(s) \/ Cleanup(s),
         NEW t \in Sessions \ {s}
  PROVE  LoopKept(t)
<1> USE DEF LoopKept, TypeOK, LoopTypeOK, MoveTo, loop
<1>1. CASE PreStep(s) \/ ClassifyStep(s) \/ SelectModelFails(s)
  BY <1>1 DEF PreStep, ClassifyStep, SelectModelFails
<1>2. CASE SelectModel(s)
  <2>1. \E stage \in Stages : MoveTo(s, stage)
    BY <1>2 DEF SelectModel, Stages
  <2>2. \E sel : selection' = [selection EXCEPT ![s] = sel]
    BY <1>2 DEF SelectModel
  <2>3. QED  BY <1>2, <2>1, <2>2 DEF SelectModel
<1>3. CASE FlushAcked(s) \/ FlushFailed(s) \/ CommitFails(s)
  BY <1>3 DEF FlushAcked, FlushFailed, CommitFails
<1>4. CASE Dispatch(s) \/ Abandon(s) \/ PartialOutput(s)
  BY <1>4 DEF Dispatch, Abandon, PartialOutput
<1>5. CASE CloseStream(s) \/ CloseStreamFails(s)
  BY <1>5 DEF CloseStream, CloseStreamFails
<1>6. CASE RequestError(s)
  <2>1. MoveTo(s, "request") \/ MoveTo(s, "done")
    BY <1>6, Zenon DEF RequestError
  <2>2. QED  BY <1>6, <2>1 DEF RequestError
<1>7. CASE Cleanup(s)
  BY <1>7 DEF Cleanup, StepEnd, TurnEnd, EarlyTurnEnd, SessionDispose, SessionOpen
<1>8. QED  BY <1>1, <1>2, <1>3, <1>4, <1>5, <1>6, <1>7 DEF Request

LEMMA HeldByRequest ==
  ASSUME FailClosed, RowsForward, NEW s \in Sessions, Request(s)
  PROVE  HeldDecision(s)'
<1> USE DEF FailClosed, MoveTo
<1>1. HeldDecision(s)
  BY DEF LoopHoldsDecision
<1>2. CASE PreStep(s)
  <2>1. at'[s] \in Keys /\ pc'[s] = "classifying"
    BY <1>2 DEF PreStep, TypeOK, LoopTypeOK, Keys
  <2>2. QED  BY <2>1, HoldsNothing
<1>3. CASE ClassifyStep(s) \/ SelectModelFails(s) \/ FlushFailed(s) \/ CommitFails(s)
           \/ Abandon(s) \/ CloseStreamFails(s)
  <2>1. at'[s] \in Keys /\ pc'[s] \in {"request", "failed", "done"}
    BY <1>1, <1>3 DEF ClassifyStep, SelectModelFails, FlushFailed, CommitFails, Abandon,
       CloseStreamFails, HeldDecision, TypeOK, LoopTypeOK
  <2>2. QED  BY <2>1, HoldsNothing
<1>4. CASE CloseStream(s) \/ RequestError(s)
  <2>1. \E stage \in {"request", "failed", "done"} : MoveTo(s, stage)
    BY <1>4, Zenon DEF CloseStream, RequestError
  <2>2. at'[s] \in Keys
    BY <1>1, <1>4 DEF CloseStream, RequestError, HeldDecision, loop
  <2>3. pc'[s] \in {"request", "failed", "done"}
    BY <2>1 DEF TypeOK, LoopTypeOK
  <2>4. QED  BY <2>2, <2>3, HoldsNothing
<1>5. CASE SelectModel(s)
  <2> DEFINE d == selection'[s].attempt
             route == selection'[s].route
  <2>1. d \in Decisions /\ Insertable(d, route) /\ InsertDecision(d, route)
        /\ pc'[s] \in {"flushing", "done"}
    BY <1>5, SelectModelInserts
  <2>2. at'[s] \in Keys
    BY <1>1, <1>5 DEF SelectModel, HeldDecision
  <2>3. rows'[d].state # "absent" /\ rows'[d].route = route
    <3> HIDE DEF d, route
    <3>1. QED  BY <2>1 DEF InsertDecision, Insertable, TypeOK, StorageTypeOK
  <2>4. QED  BY <2>1, <2>2, <2>3 DEF HeldDecision
<1>6. CASE FlushAcked(s)
  <2> DEFINE d == selection[s].attempt
  <2>1. at'[s] \in Keys /\ selection' = selection
    BY <1>1, <1>6 DEF FlushAcked, HeldDecision
  <2>2. CASE selection[s].route = NoRoute
    BY <1>6, <2>1, <2>2, HoldsNothing DEF FlushAcked, TypeOK, LoopTypeOK
  <2>3. CASE selection[s].route # NoRoute
    <3>1. pc'[s] = "selected" /\ selection[s].route \in Routes
      BY <1>6, <2>3 DEF FlushAcked, TypeOK, LoopTypeOK
    <3>2. d \in Decisions /\ rows[d].route = selection[s].route
      BY <1>1, <1>6 DEF FlushAcked, HeldDecision
    <3>3. d \in durableLog'
      BY <1>6 DEF FlushAcked
    <3>4. rows'[d] = [state |-> "committed", route |-> selection[s].route]
      BY <1>6, <3>2 DEF FlushAcked, TypeOK, StorageTypeOK, Row
    <3>5. QED  BY <2>1, <3>1, <3>3, <3>4 DEF HeldDecision
  <2>4. QED  BY <2>2, <2>3
<1>7. CASE Dispatch(s)
  <2>1. /\ pc[s] = "selected" /\ pc'[s] = "streaming"
        /\ selection' = selection /\ at' = at /\ rows' = rows
        /\ UNCHANGED durableLog
    BY <1>7 DEF Dispatch, TypeOK, LoopTypeOK, logs
  <2>2. stream'[s] # NoDecision
    <3> DEFINE st == StateAt(s, currentTurnStep[s])
    <3>1. st \in RequestState
      BY StateAtType DEF TypeOK, MemoryTypeOK
    <3>2. stream'[s] = IF st.requestId = 0 THEN Unknown ELSE DecisionId(s, st)
      BY <1>7 DEF Dispatch, TypeOK, LoopTypeOK
    <3> HIDE DEF st
    <3>3. st.requestId # 0 => DecisionId(s, st) \in Decisions
      BY <3>1, DecisionIdType
    <3>4. Unknown # NoDecision
      BY DEF Unknown, NoDecision
    <3>5. QED  BY <3>2, <3>3, <3>4, NoDecisionType
  <2>3. QED  BY <1>1, <2>1, <2>2 DEF HeldDecision
<1>8. CASE PartialOutput(s)
  <2>1. LoopKept(s)  BY <1>8 DEF PartialOutput, LoopKept, loop
  <2>2. QED  BY <1>1, <2>1, HeldKept
<1>9. QED
  BY <1>2, <1>3, <1>4, <1>5, <1>6, <1>7, <1>8 DEF Request

LEMMA HeldByCleanup ==
  ASSUME FailClosed, RowsForward, NEW s \in Sessions, Cleanup(s)
  PROVE  HeldDecision(s)'
<1> USE DEF FailClosed
<1>1. CASE StepEnd(s) \/ TurnEnd(s)
  <2>1. pc'[s] = "idle"
    BY <1>1 DEF StepEnd, TurnEnd, MoveTo, TypeOK, LoopTypeOK
  <2>2. QED  BY <2>1, HoldsNothing
<1>2. CASE EarlyTurnEnd(s) \/ SessionDispose(s) \/ SessionOpen(s)
  <2>1. LoopKept(s)
    BY <1>2 DEF EarlyTurnEnd, SessionDispose, SessionOpen, LoopKept, loop
  <2>2. QED  BY <2>1, HeldKept DEF LoopHoldsDecision
<1>3. QED  BY <1>1, <1>2 DEF Cleanup

LEMMA HeldNext ==
  FailClosed /\ RowsForward /\ [Next]_vars => LoopHoldsDecision'
<1> SUFFICES ASSUME FailClosed, RowsForward, [Next]_vars, NEW t \in Sessions
             PROVE  HeldDecision(t)'
  BY DEF LoopHoldsDecision
<1> USE DEF FailClosed
<1>1. ASSUME NEW s \in Sessions, Request(s) \/ Cleanup(s)  PROVE HeldDecision(t)'
  <2>1. CASE t = s
    BY <1>1, <2>1, HeldByRequest, HeldByCleanup
  <2>2. CASE t # s
    BY <1>1, <2>2, OtherLoopsKept, HeldKept DEF LoopHoldsDecision
  <2>3. QED  BY <2>1, <2>2
<1>2. CASE Crash
  BY <1>2, HoldsNothing DEF Crash
<1>3. CASE Reconcile \/ (\E d \in Decisions : Persist(d))
           \/ UpdateSettings \/ Restart \/ UNCHANGED vars
  <2>1. LoopKept(t)
    BY <1>3 DEF Reconcile, ReconcileAppend, ReconcileAcked, ReconcileFailed, Persist,
       UpdateSettings, Restart, vars, LoopKept, loop
  <2>2. QED  BY <2>1, HeldKept DEF LoopHoldsDecision
<1>4. QED  BY <1>1, <1>2, <1>3 DEF Next

-----------------------------------------------------------------------------
(* Calls.                                                                   *)

LEMMA CallsNext ==
  FailClosed /\ RowsForward /\ [Next]_vars
    => CallsAreCommitted' /\ CommittedIsDurable'
<1> SUFFICES ASSUME FailClosed, RowsForward, [Next]_vars
             PROVE  CallsAreCommitted' /\ CommittedIsDurable'
  OBVIOUS
<1> USE DEF FailClosed
<1>1. CommittedIsDurable'
  BY DEF CommittedIsDurable, RowsForward
<1>2. \A c \in calls : /\ rows'[c.attempt] = [state |-> "committed", route |-> c.route]
                       /\ c.attempt \in durableLog'
  <2>1. TAKE c \in calls
  <2>2. c.attempt \in Decisions
    BY DEF TypeOK, HistoryTypeOK
  <2>3. rows[c.attempt] = [state |-> "committed", route |-> c.route]
        /\ c.attempt \in durableLog
    BY DEF CallsAreCommitted
  <2>4. rows[c.attempt].state = "committed"
    BY <2>3
  <2>5. rows'[c.attempt] = rows[c.attempt] /\ c.attempt \in durableLog'
    BY <2>2, <2>3, <2>4 DEF RowsForward
  <2>6. QED  BY <2>3, <2>5
<1>3. \A c \in calls' \ calls :
        /\ rows'[c.attempt] = [state |-> "committed", route |-> c.route]
        /\ c.attempt \in durableLog'
  <2>1. ASSUME NEW s \in Sessions, Dispatch(s), NEW c \in calls' \ calls
        PROVE  /\ rows'[c.attempt] = [state |-> "committed", route |-> c.route]
               /\ c.attempt \in durableLog'
    <3>1. c.attempt = selection[s].attempt /\ c.route = selection[s].route
      BY <2>1 DEF Dispatch
    <3>2. /\ selection[s].attempt \in durableLog
          /\ rows[selection[s].attempt]
                = [state |-> "committed", route |-> selection[s].route]
      BY <2>1 DEF Dispatch, LoopHoldsDecision, HeldDecision
    <3>3. UNCHANGED rows /\ UNCHANGED durableLog
      BY <2>1 DEF Dispatch, logs
    <3>4. QED  BY <3>1, <3>2, <3>3
  <2>2. ASSUME NEW s \in Sessions, Request(s), ~Dispatch(s)  PROVE calls' = calls
    BY <2>2 DEF Request, PreStep, ClassifyStep, SelectModel, SelectModelFails,
       FlushAcked, FlushFailed, CommitFails, Abandon, PartialOutput, CloseStream,
       CloseStreamFails, RequestError, history
  <2>3. ASSUME NEW s \in Sessions, Cleanup(s)  PROVE calls' = calls
    BY <2>3 DEF Cleanup, StepEnd, TurnEnd, EarlyTurnEnd, SessionDispose, SessionOpen,
       history
  <2>4. CASE Reconcile \/ (\E d \in Decisions : Persist(d))
             \/ UpdateSettings \/ Crash \/ Restart \/ UNCHANGED vars
    <3>1. calls' = calls
      BY <2>4 DEF Reconcile, ReconcileAppend, ReconcileAcked, ReconcileFailed, Persist,
         UpdateSettings, Crash, Restart, vars, history
    <3>2. QED  BY <3>1
  <2>5. QED  BY <2>1, <2>2, <2>3, <2>4 DEF Next
<1>4. CallsAreCommitted'
  BY <1>2, <1>3 DEF CallsAreCommitted
<1>5. QED  BY <1>1, <1>4

LEMMA FailClosedInit == Init => FailClosed
<1> SUFFICES ASSUME Init  PROVE FailClosed
  OBVIOUS
<1>1. TypeOK  BY TypeInit
<1>2. LoopHoldsDecision  BY DEF Init, LoopHoldsDecision, HeldDecision
<1>3. CallsAreCommitted /\ CommittedIsDurable
  BY DEF Init, CallsAreCommitted, CommittedIsDurable, NoRow
<1>4. QED  BY <1>1, <1>2, <1>3 DEF FailClosed

LEMMA FailClosedNext == FailClosed /\ [Next]_vars => FailClosed'
<1> SUFFICES ASSUME FailClosed, [Next]_vars  PROVE FailClosed'
  OBVIOUS
<1>1. RowsForward  BY RowsNext
<1>2. TypeOK'  BY TypeNext DEF FailClosed
<1>3. LoopHoldsDecision'  BY <1>1, HeldNext
<1>4. CallsAreCommitted' /\ CommittedIsDurable'  BY <1>1, CallsNext
<1>5. QED  BY <1>2, <1>3, <1>4 DEF FailClosed

-----------------------------------------------------------------------------
(* The theorems.                                                            *)

\* FailClosed is an invariant: it strengthens what follows.
THEOREM Inductive == Spec => []FailClosed
<1>1. Init => FailClosed  BY FailClosedInit
<1>2. FailClosed /\ [Next]_vars => FailClosed'  BY FailClosedNext
<1>3. QED  BY <1>1, <1>2, PTL DEF Spec

\* Every variable keeps its type, for any sessions, routes and bounds.
THEOREM TypeCorrect == Spec => []TypeOK
<1>1. FailClosed => TypeOK  BY DEF FailClosed
<1>2. QED  BY <1>1, Inductive, PTL

\* AuditPipeline.commitDecision is fail closed: no provider call, in any
\* interleaving and across any crashes, without its committed, durable decision.
THEOREM EveryCallIsCommitted == Spec => []CallsAreCommitted
<1>1. FailClosed => CallsAreCommitted  BY DEF FailClosed
<1>2. QED  BY <1>1, Inductive, PTL

\* SQLite never says "committed" ahead of the Session Event log, whoever commits:
\* commitDecision of a request or reconcile of a later start.
THEOREM EveryCommitIsDurable == Spec => []CommittedIsDurable
<1>1. FailClosed => CommittedIsDurable  BY DEF FailClosed
<1>2. QED  BY <1>1, Inductive, PTL

\* agent/request answers with a route only when its decision is committed.
THEOREM SelectionIsCommitted == Spec => []LoopHoldsDecision
<1>1. FailClosed => LoopHoldsDecision  BY DEF FailClosed
<1>2. QED  BY <1>1, Inductive, PTL

\* No step rewrites or reverts a stored decision.
THEOREM DecisionsImmutable == Spec => DecisionsAreFinal
<1>1. FailClosed /\ [Next]_vars => [RowsForward]_vars  BY RowsNext
<1>2. QED  BY <1>1, Inductive, PTL DEF Spec, DecisionsAreFinal

-----------------------------------------------------------------------------
(* Which ids and attempts exist.                                            *)

\* The request ids of a session are distinct and were created; its rows belong to
\* created requests and to attempts already counted.
Fresh(s) ==
  /\ \A k \in Keys : requestStates[s][k].requestId <= created[s]
  /\ \A k, l \in Keys :
       Present(s, k) /\ requestStates[s][k].requestId = requestStates[s][l].requestId
         => k = l
  /\ \A d \in Decisions :
       SessionOf(d) = s /\ rows[d].state # "absent" =>
         /\ d[2] <= created[s]
         /\ \A k \in Keys : requestStates[s][k].requestId = d[2] =>
                              d[3] < requestStates[s][k].attemptCount

\* The attempt a loop works on is its session's and the one its request state, if
\* still there, stands at; what is stored about it is what the loop has reached.
Current(s) ==
  LET d == selection[s].attempt IN
  /\ pc[s] \in {"flushing", "selected", "streaming"} =>
       /\ SessionOf(d) = s
       /\ Present(s, at[s]) => d = DecisionId(s, requestStates[s][at[s]])
  /\ pc[s] \in {"flushing", "selected"} =>
       /\ d \notin Called
       /\ s \in live => currentTurnStep[s] = at[s]
       /\ attemptStates[d] = IF pc[s] = "flushing" THEN "absent" ELSE "not_dispatched"
  /\ pc[s] = "streaming" =>
       /\ stream[s] \in {Unknown, d}
       /\ \E c \in calls : c.attempt = d /\ c.route = selection[s].route
       /\ \A c \in calls : c.attempt = d => c.key = at[s]
       /\ Present(s, at[s]) => stream[s] = d /\ attemptStates[d] = "dispatch_started"

\* Nothing is stored of an attempt without its decision, no usage without its call,
\* and a process that is down has no loops.
Stored ==
  /\ \A d \in Decisions : attemptStates[d] # "absent" => rows[d].state # "absent"
  /\ delivered \subseteq Called
  /\ ~up => \A s \in Sessions : pc[s] = "idle"

Accounted ==
  /\ Stored /\ UsageMatchesCall /\ TerminalHasUsage
  /\ \A s \in Sessions : Fresh(s) /\ Current(s)

-----------------------------------------------------------------------------
(* The request states, before and after a handler of session s.             *)

\* What a handler works on is the state that is there, or one with a new id.
LEMMA GetOrCreateIs ==
  ASSUME TypeOK, NEW s \in Sessions, NEW k \in Keys, MayCreate(s, k)
  PROVE  LET st == GetOrCreateRequestState(s, k)
         IN  /\ st \in RequestState /\ st.requestId # 0
             /\ Present(s, k) => st = requestStates[s][k]
             /\ ~Present(s, k) =>
                  /\ st.requestId = created[s] + 1 /\ st.attemptCount = 0
                  /\ ~st.partialOutput /\ st.maxAttempts \in 1..MaxAttempts
<1>1. GetOrCreateRequestState(s, k) \in RequestState
      /\ GetOrCreateRequestState(s, k).requestId # 0
  BY GetOrCreateType DEF TypeOK
<1>2. CASE Present(s, k)
  BY <1>1, <1>2 DEF GetOrCreateRequestState
<1>3. CASE ~Present(s, k)
  <2>1. GetOrCreateRequestState(s, k) =
          [requestId |-> created[s] + 1, maxAttempts |-> settings.maxAttempts,
           afterPartialOutput |-> settings.afterPartialOutput, attemptCount |-> 0,
           fallbackIndex |-> 0, excludedRoutes |-> {}, partialOutput |-> FALSE,
           selectedRoute |-> NoRoute]
    BY <1>3 DEF GetOrCreateRequestState, NoState
  <2>2. QED  BY <1>1, <1>3, <2>1, SettingsType DEF TypeOK
<1>4. QED  BY <1>2, <1>3

LEMMA SetStateIs ==
  ASSUME TypeOK, NEW s \in Sessions, NEW k \in Keys, NEW st, SetState(s, k, st)
  PROVE  /\ requestStates'[s][k] = st
         /\ \A l \in Keys \ {k} : requestStates'[s][l] = requestStates[s][l]
         /\ created'[s] = IF Present(s, k) THEN created[s] ELSE created[s] + 1
         /\ MayCreate(s, k)
         /\ \A t \in Sessions \ {s} :
              requestStates'[t] = requestStates[t] /\ created'[t] = created[t]
BY DEF SetState, TypeOK, MemoryTypeOK

\* A handler that does not decide leaves ids and counters as they are, or removes the
\* state.
Steady(s) ==
  \A k \in Keys :
    \/ /\ requestStates'[s][k].requestId = requestStates[s][k].requestId
       /\ requestStates'[s][k].attemptCount = requestStates[s][k].attemptCount
    \/ requestStates'[s][k] = NoState

LEMMA DeleteSteady ==
  ASSUME TypeOK, NEW s \in Sessions, NEW keys, DeleteStates(s, keys)
  PROVE  /\ Steady(s)
         /\ \A k \in Keys : \/ requestStates'[s][k] = requestStates[s][k]
                            \/ requestStates'[s][k] = NoState
         /\ \A t \in Sessions \ {s} : requestStates'[t] = requestStates[t]
BY DEF DeleteStates, Steady, TypeOK, MemoryTypeOK

\* No row of session s appears.
NoNewRow(s) ==
  \A d \in Decisions :
    SessionOf(d) = s /\ rows'[d].state # "absent" => rows[d].state # "absent"

LEMMA FreshSteady ==
  ASSUME TypeOK, NEW s \in Sessions, Fresh(s), Steady(s), created'[s] = created[s],
         NoNewRow(s)
  PROVE  Fresh(s)'
<1>1. created[s] \in Nat /\ NoState.requestId = 0
  BY DEF TypeOK, MemoryTypeOK, NoState
<1>2. \A d \in Decisions : d[2] # 0
  BY DEF Decisions
<1>3. \A k \in Keys : requestStates'[s][k].requestId <= created'[s]
  BY <1>1 DEF Fresh, Steady
<1>4. \A k, l \in Keys :
        Present(s, k)' /\ requestStates'[s][k].requestId = requestStates'[s][l].requestId
          => k = l
  <2> SUFFICES ASSUME NEW k \in Keys, NEW l \in Keys, requestStates'[s][k].requestId # 0,
                      requestStates'[s][k].requestId = requestStates'[s][l].requestId
               PROVE  k = l
    BY DEF Present
  <2>1. requestStates'[s][k].requestId = requestStates[s][k].requestId
        /\ requestStates'[s][l].requestId = requestStates[s][l].requestId
    BY <1>1 DEF Steady
  <2>2. QED  BY <2>1 DEF Fresh, Present
<1>5. ASSUME NEW d \in Decisions, SessionOf(d) = s, rows'[d].state # "absent"
      PROVE  /\ d[2] <= created'[s]
             /\ \A k \in Keys : requestStates'[s][k].requestId = d[2] =>
                                  d[3] < requestStates'[s][k].attemptCount
  BY <1>1, <1>2, <1>5 DEF Fresh, Steady, NoNewRow
<1>6. QED  BY <1>3, <1>4, <1>5 DEF Fresh

\* A handler that sets a state keeps its id and counts its attempts up; a row it
\* inserts belongs to an attempt that is counted.
LEMMA FreshSet ==
  ASSUME TypeOK, NEW s \in Sessions, Fresh(s), NEW k \in Keys, NEW new \in RequestState,
         SetState(s, k, new),
         new.requestId = GetOrCreateRequestState(s, k).requestId,
         new.attemptCount >= GetOrCreateRequestState(s, k).attemptCount,
         \A d \in Decisions :
           SessionOf(d) = s /\ rows'[d].state # "absent" =>
             \/ rows[d].state # "absent"
             \/ d[2] = new.requestId /\ d[3] < new.attemptCount
  PROVE  Fresh(s)'
<1> DEFINE st == GetOrCreateRequestState(s, k)
<1>1. /\ requestStates'[s][k] = new
      /\ \A l \in Keys \ {k} : requestStates'[s][l] = requestStates[s][l]
      /\ created'[s] = IF Present(s, k) THEN created[s] ELSE created[s] + 1
      /\ MayCreate(s, k)
  BY SetStateIs
<1>2. /\ st \in RequestState /\ st.requestId # 0
      /\ Present(s, k) => st = requestStates[s][k]
      /\ ~Present(s, k) => st.requestId = created[s] + 1
  BY <1>1, GetOrCreateIs
<1> HIDE DEF st
<1>3. new.requestId = st.requestId /\ new.attemptCount >= st.attemptCount
  BY DEF st
<1>4. created[s] \in Nat /\ \A l \in Keys : requestStates[s][l] \in RequestState
  BY DEF TypeOK, MemoryTypeOK
<1>5. \A l \in Keys : requestStates'[s][l].requestId <= created'[s]
  BY <1>1, <1>2, <1>3, <1>4 DEF Fresh, RequestState
<1>6. \A l \in Keys \ {k} : requestStates[s][l].requestId # new.requestId
  <2>1. CASE Present(s, k)
    BY <1>2, <1>3, <2>1 DEF Fresh
  <2>2. CASE ~Present(s, k)
    BY <1>2, <1>3, <1>4, <2>2 DEF Fresh, RequestState
  <2>3. QED  BY <2>1, <2>2
<1>7. \A l, m \in Keys :
        Present(s, l)' /\ requestStates'[s][l].requestId = requestStates'[s][m].requestId
          => l = m
  <2> SUFFICES ASSUME NEW l \in Keys, NEW m \in Keys, requestStates'[s][l].requestId # 0,
                      requestStates'[s][l].requestId = requestStates'[s][m].requestId
               PROVE  l = m
    BY DEF Present
  <2>1. CASE l # k /\ m # k
    BY <1>1, <2>1 DEF Fresh, Present
  <2>2. CASE l = k \/ m = k
    BY <1>1, <1>6, <2>2
  <2>3. QED  BY <2>1, <2>2
<1>8. ASSUME NEW d \in Decisions, SessionOf(d) = s, rows'[d].state # "absent"
      PROVE  /\ d[2] <= created'[s]
             /\ \A l \in Keys : requestStates'[s][l].requestId = d[2] =>
                                  d[3] < requestStates'[s][l].attemptCount
  <2>1. d[2] \in Nat /\ d[3] \in Nat
    BY DEF Decisions
  <2>2. CASE rows[d].state # "absent"
    <3>1. d[2] <= created[s]
          /\ \A l \in Keys : requestStates[s][l].requestId = d[2] =>
                               d[3] < requestStates[s][l].attemptCount
      BY <1>8, <2>2 DEF Fresh
    <3>2. d[2] <= created'[s]
      BY <1>1, <1>4, <2>1, <3>1
    <3>3. \A l \in Keys \ {k} : requestStates'[s][l].requestId = d[2] =>
                                  d[3] < requestStates'[s][l].attemptCount
      BY <1>1, <3>1
    <3>4. new.requestId = d[2] => d[3] < new.attemptCount
      <4> HAVE new.requestId = d[2]
      <4>1. Present(s, k) /\ st = requestStates[s][k]
        BY <1>2, <1>3, <1>4, <2>1, <3>1
      <4>2. d[3] < st.attemptCount
        BY <1>3, <3>1, <4>1
      <4>3. st.attemptCount \in Nat /\ new.attemptCount \in Nat
        BY <1>2 DEF RequestState
      <4>4. QED  BY <1>3, <2>1, <4>2, <4>3
    <3>5. QED  BY <1>1, <3>2, <3>3, <3>4
  <2>3. CASE rows[d].state = "absent"
    <3>1. d[2] = new.requestId /\ d[3] < new.attemptCount
      BY <1>8, <2>3
    <3>2. d[2] <= created'[s]
      BY <1>1, <1>5, <3>1
    <3>3. QED  BY <1>1, <1>6, <3>1, <3>2
  <2>4. QED  BY <2>2, <2>3
<1>9. QED  BY <1>5, <1>7, <1>8 DEF Fresh

-----------------------------------------------------------------------------
(* What a step of another session leaves alone.                             *)

CallsOf(s) == {c \in calls : SessionOf(c.attempt) = s}

Untouched(t) ==
  /\ LoopKept(t)
  /\ requestStates'[t] = requestStates[t] /\ created'[t] = created[t]
  /\ currentTurnStep'[t] = currentTurnStep[t]
  /\ t \in live' => t \in live
  /\ NoNewRow(t)
  /\ \A d \in Decisions : SessionOf(d) = t => attemptStates'[d] = attemptStates[d]
  /\ CallsOf(t)' = CallsOf(t)

LEMMA FreshUntouched ==
  ASSUME TypeOK, NEW t \in Sessions, Fresh(t), Untouched(t)
  PROVE  Fresh(t)'
BY FreshSteady DEF Untouched, Steady

LEMMA CurrentUntouched ==
  ASSUME TypeOK, NEW t \in Sessions, HeldDecision(t), Current(t), Untouched(t)
  PROVE  Current(t)'
<1> DEFINE d == selection[t].attempt
<1>1. pc'[t] = pc[t] /\ at'[t] = at[t] /\ selection'[t] = selection[t] /\ stream'[t] = stream[t]
  BY DEF Untouched, LoopKept
<1>2. requestStates'[t] = requestStates[t] /\ currentTurnStep'[t] = currentTurnStep[t]
      /\ (t \in live' => t \in live)
  BY DEF Untouched
<1>3. \A e \in Decisions : SessionOf(e) = t => attemptStates'[e] = attemptStates[e]
  BY DEF Untouched
<1>4. ASSUME NEW e, SessionOf(e) = t
      PROVE  {c \in calls' : c.attempt = e} = {c \in calls : c.attempt = e}
  BY <1>4 DEF Untouched, CallsOf
<1>5. pc[t] \in {"flushing", "selected", "streaming"} => d \in Decisions /\ SessionOf(d) = t
  BY DEF HeldDecision, Current, TypeOK, LogsTypeOK
<1>6. Present(t, at[t])' <=> Present(t, at[t])
  BY <1>1, <1>2 DEF Present
<1>7. DecisionId(t, requestStates[t][at[t]])' = DecisionId(t, requestStates[t][at[t]])
  BY <1>1, <1>2 DEF DecisionId
<1> HIDE DEF d
<1>8. pc[t] \in {"flushing", "selected", "streaming"} =>
        /\ SessionOf(d) = t
        /\ Present(t, at[t])' => d = DecisionId(t, requestStates[t][at[t]])'
  BY <1>6, <1>7 DEF Current, d
<1>9. pc[t] \in {"flushing", "selected"} =>
        /\ d \notin Called'
        /\ t \in live' => currentTurnStep'[t] = at'[t]
        /\ attemptStates'[d] = IF pc[t] = "flushing" THEN "absent" ELSE "not_dispatched"
  <2> SUFFICES ASSUME pc[t] \in {"flushing", "selected"}
      PROVE  /\ d \notin Called'
             /\ t \in live' => currentTurnStep'[t] = at'[t]
             /\ attemptStates'[d] = IF pc[t] = "flushing" THEN "absent" ELSE "not_dispatched"
    OBVIOUS
  <2>1. d \notin Called
    BY DEF Current, d
  <2>2. d \notin Called'
    BY <1>4, <1>5, <2>1 DEF Called
  <2>3. QED  BY <1>1, <1>2, <1>3, <1>5, <2>2 DEF Current, d
<1>10. pc[t] = "streaming" =>
         /\ stream'[t] \in {Unknown, d}
         /\ \E c \in calls' : c.attempt = d /\ c.route = selection[t].route
         /\ \A c \in calls' : c.attempt = d => c.key = at[t]
         /\ Present(t, at[t])' => stream'[t] = d /\ attemptStates'[d] = "dispatch_started"
  <2> SUFFICES ASSUME pc[t] = "streaming"
      PROVE /\ stream'[t] \in {Unknown, d}
            /\ \E c \in calls' : c.attempt = d /\ c.route = selection[t].route
            /\ \A c \in calls' : c.attempt = d => c.key = at[t]
            /\ Present(t, at[t])' => stream'[t] = d /\ attemptStates'[d] = "dispatch_started"
    OBVIOUS
  <2>1. /\ stream[t] \in {Unknown, d}
        /\ \E c \in calls : c.attempt = d /\ c.route = selection[t].route
        /\ \A c \in calls : c.attempt = d => c.key = at[t]
        /\ Present(t, at[t]) => stream[t] = d /\ attemptStates[d] = "dispatch_started"
    BY DEF Current, d
  <2>2. {c \in calls' : c.attempt = d} = {c \in calls : c.attempt = d}
    BY <1>4, <1>5
  <2>3. /\ \E c \in calls' : c.attempt = d /\ c.route = selection[t].route
        /\ \A c \in calls' : c.attempt = d => c.key = at[t]
    BY <2>1, <2>2
  <2>4. QED  BY <1>1, <1>3, <1>5, <1>6, <2>1, <2>3
<1>11. QED
  <2>1. d = selection'[t].attempt
    BY <1>1 DEF d
  <2>2. QED  BY <1>1, <1>8, <1>9, <1>10, <2>1 DEF Current

-----------------------------------------------------------------------------
(* What a step does to the stored attempts and their usage.                 *)

\* A session moves the attempt its loop works on, forward, and records its usage
\* before the end of it.
AttemptMove(s, d) ==
  /\ d = selection[s].attempt /\ d \in Decisions /\ SessionOf(d) = s
  /\ rows[d].state # "absent"
  /\ \E value \in AttemptState :
       /\ attemptStates' = [attemptStates EXCEPT ![d] = value]
       /\ <<attemptStates[d], value>> \in Moves
       /\ value \in Terminal => \E u \in usage' : u.attempt = d

LEMMA FlushMoves ==
  ASSUME TypeOK, NEW s \in Sessions, HeldDecision(s), Current(s), FlushAcked(s)
  PROVE  UNCHANGED attemptStates \/ AttemptMove(s, selection[s].attempt)
<1> DEFINE d == selection[s].attempt
<1>1. d \in Decisions /\ rows[d].state # "absent" /\ SessionOf(d) = s
      /\ attemptStates[d] = "absent"
  BY DEF FlushAcked, HeldDecision, Current
<1>2. UNCHANGED attemptStates \/ attemptStates' = [attemptStates EXCEPT ![d] = "not_dispatched"]
  BY DEF FlushAcked
<1>3. "not_dispatched" \in AttemptState /\ "not_dispatched" \notin Terminal
      /\ <<"absent", "not_dispatched">> \in Moves
  BY DEF AttemptState, Terminal, Moves
<1>4. QED  BY <1>1, <1>2, <1>3 DEF AttemptMove

LEMMA SetAttemptIs ==
  ASSUME NEW s \in Sessions, NEW value, at[s] \in Keys, SetAttempt(s, at[s], value)
  PROVE  IF Present(s, at[s])
         THEN attemptStates' = [attemptStates EXCEPT
                                  ![DecisionId(s, requestStates[s][at[s]])] = value]
         ELSE UNCHANGED attemptStates
<1>1. at[s] # NoKey
  BY DEF Keys, NoKey
<1>2. QED  BY <1>1 DEF SetAttempt, StateAt, Present

LEMMA DispatchMoves ==
  ASSUME TypeOK, NEW s \in Sessions, HeldDecision(s), Current(s), Dispatch(s)
  PROVE  /\ \/ ~Present(s, at[s]) /\ UNCHANGED attemptStates
            \/ AttemptMove(s, selection[s].attempt)
         /\ stream'[s] = IF Present(s, at[s]) THEN selection[s].attempt ELSE Unknown
         /\ Present(s, at[s]) => attemptStates'[selection[s].attempt] = "dispatch_started"
         /\ calls' = calls \cup
              {[key |-> at[s], attempt |-> selection[s].attempt, route |-> selection[s].route,
                limit |-> requestStates[s][at[s]].maxAttempts,
                sticky |-> ~requestStates[s][at[s]].afterPartialOutput]}
         /\ at[s] \in Keys /\ selection[s].attempt \in Decisions /\ selection[s].route \in Routes
         /\ selection[s].attempt \notin Called
<1> DEFINE d == selection[s].attempt
<1>1. /\ d \in Decisions /\ rows[d].state # "absent" /\ SessionOf(d) = s
      /\ attemptStates[d] = "not_dispatched" /\ at[s] \in Keys /\ currentTurnStep[s] = at[s]
      /\ Present(s, at[s]) => d = DecisionId(s, requestStates[s][at[s]])
      /\ selection[s].route \in Routes /\ d \notin Called
  BY DEF Dispatch, HeldDecision, Current, TypeOK, LogsTypeOK
<1>2. at[s] # NoKey
  BY <1>1 DEF Keys, NoKey
<1> HIDE DEF d
<1>3. SetAttempt(s, at[s], "dispatch_started")
  BY <1>1 DEF Dispatch
<1>4. IF Present(s, at[s])
      THEN attemptStates' = [attemptStates EXCEPT ![d] = "dispatch_started"]
      ELSE UNCHANGED attemptStates
  BY <1>1, <1>3, SetAttemptIs
<1>5. "dispatch_started" \in AttemptState /\ "dispatch_started" \notin Terminal
      /\ <<"not_dispatched", "dispatch_started">> \in Moves
  BY DEF AttemptState, Terminal, Moves
<1>6. \/ ~Present(s, at[s]) /\ UNCHANGED attemptStates
      \/ AttemptMove(s, d)
  BY <1>1, <1>4, <1>5 DEF AttemptMove, d
<1>7. StateAt(s, currentTurnStep[s]) = requestStates[s][at[s]]
  BY <1>1, <1>2 DEF StateAt
<1>8. stream'[s] = IF Present(s, at[s]) THEN d ELSE Unknown
  BY <1>1, <1>7 DEF Dispatch, Present, TypeOK, LoopTypeOK
<1>9. calls' = calls \cup
         {[key |-> at[s], attempt |-> d, route |-> selection[s].route,
           limit |-> requestStates[s][at[s]].maxAttempts,
           sticky |-> ~requestStates[s][at[s]].afterPartialOutput]}
  BY <1>7 DEF Dispatch, d
<1>10. Present(s, at[s]) => attemptStates'[d] = "dispatch_started"
  BY <1>1, <1>4 DEF TypeOK, StorageTypeOK
<1>11. QED  BY <1>1, <1>6, <1>8, <1>9, <1>10 DEF d

LEMMA UsageRecorded ==
  ASSUME NEW attempt, NEW route, RecordUsage(attempt, route)
  PROVE  /\ usage \subseteq usage' /\ \E u \in usage' : u.attempt = attempt
         /\ \A u \in usage' \ usage : u.attempt = attempt /\ u.route = route
<1>1. CASE \E u \in usage : u.attempt = attempt
  BY <1>1 DEF RecordUsage
<1>2. CASE ~\E u \in usage : u.attempt = attempt
  <2> DEFINE row == [attempt |-> attempt, route |-> route]
  <2>1. usage' = usage \cup {row}
    BY <1>2 DEF RecordUsage
  <2>2. row.attempt = attempt /\ row.route = route
    OBVIOUS
  <2> HIDE DEF row
  <2>3. QED  BY <2>1, <2>2
<1>3. QED  BY <1>1, <1>2

LEMMA CloseMoves ==
  ASSUME TypeOK, NEW s \in Sessions, HeldDecision(s), Current(s), CloseStream(s)
  PROVE  UNCHANGED attemptStates \/ AttemptMove(s, selection[s].attempt)
<1> DEFINE d == selection[s].attempt
<1>1. /\ d \in Decisions /\ rows[d].state # "absent" /\ SessionOf(d) = s /\ at[s] \in Keys
      /\ Present(s, at[s]) => /\ d = DecisionId(s, requestStates[s][at[s]])
                              /\ stream[s] = d /\ attemptStates[d] = "dispatch_started"
  BY DEF CloseStream, HeldDecision, Current, TypeOK, LogsTypeOK
<1> HIDE DEF d
<1>2. PICK terminal \in Terminal : SetAttempt(s, at[s], terminal)
  BY DEF CloseStream
<1>3. IF Present(s, at[s])
      THEN attemptStates' = [attemptStates EXCEPT ![d] = terminal]
      ELSE UNCHANGED attemptStates
  BY <1>1, <1>2, SetAttemptIs
<1>4. terminal \in AttemptState /\ <<"dispatch_started", terminal>> \in Moves
  BY DEF AttemptState, Moves
<1>5. \E u \in usage' : u.attempt = stream[s]
  BY UsageRecorded DEF CloseStream
<1>6. QED  BY <1>1, <1>3, <1>4, <1>5 DEF AttemptMove, d

\* Nothing else writes attempt states or usage.
LEMMA OthersKeepAttempts ==
  ASSUME NEW s \in Sessions, Request(s) \/ Cleanup(s)
  PROVE  /\ ~FlushAcked(s) /\ ~Dispatch(s) /\ ~CloseStream(s) => UNCHANGED attemptStates
         /\ ~CloseStream(s) => UNCHANGED usage
         /\ ~Dispatch(s) => UNCHANGED calls
         /\ ~PartialOutput(s) => UNCHANGED delivered
<1> USE DEF storage, history
<1>1. CASE PreStep(s) \/ ClassifyStep(s) \/ FlushFailed(s) \/ CommitFails(s) \/ Abandon(s)
           \/ FlushAcked(s) \/ Dispatch(s)
  BY <1>1 DEF PreStep, ClassifyStep, FlushFailed, CommitFails, Abandon, FlushAcked, Dispatch
<1>2. CASE SelectModel(s) \/ SelectModelFails(s)
  BY <1>2 DEF SelectModel, SelectModelFails, EnterRequest
<1>3. CASE CloseStream(s) \/ CloseStreamFails(s) \/ PartialOutput(s) \/ RequestError(s)
  BY <1>3 DEF CloseStream, CloseStreamFails, PartialOutput, RequestError
<1>4. CASE Cleanup(s)
  BY <1>4 DEF Cleanup, StepEnd, TurnEnd, EarlyTurnEnd, SessionDispose, SessionOpen
<1>5. QED  BY <1>1, <1>2, <1>3, <1>4 DEF Request

LEMMA SystemKeepsAttempts ==
  ASSUME Reconcile \/ (\E d \in Decisions : Persist(d)) \/ UpdateSettings \/ Crash \/ Restart
         \/ UNCHANGED vars
  PROVE  UNCHANGED <<attemptStates, usage, calls, delivered, created>>
BY DEF Reconcile, ReconcileAppend, ReconcileAcked, ReconcileFailed, Persist, UpdateSettings,
   Crash, Restart, vars, memory, storage, history

LEMMA AttemptsMove ==
  ASSUME TypeOK, LoopHoldsDecision, \A s \in Sessions : Current(s), [Next]_vars
  PROVE  \/ UNCHANGED attemptStates
         \/ \E s \in Sessions : AttemptMove(s, selection[s].attempt)
<1>1. ASSUME NEW s \in Sessions, Request(s) \/ Cleanup(s)
      PROVE  UNCHANGED attemptStates \/ AttemptMove(s, selection[s].attempt)
  <2>1. HeldDecision(s) /\ Current(s)
    BY DEF LoopHoldsDecision
  <2>2. QED  BY <1>1, <2>1, FlushMoves, DispatchMoves, CloseMoves, OthersKeepAttempts
<1>2. CASE Reconcile \/ (\E d \in Decisions : Persist(d)) \/ UpdateSettings \/ Crash \/ Restart
           \/ UNCHANGED vars
  BY <1>2, SystemKeepsAttempts
<1>3. QED  BY <1>1, <1>2 DEF Next

LEMMA MovesForward ==
  ASSUME TypeOK, NEW s \in Sessions, AttemptMove(s, selection[s].attempt)
  PROVE  AttemptForward
<1>1. PICK d \in Decisions, value \in AttemptState :
        attemptStates' = [attemptStates EXCEPT ![d] = value] /\ <<attemptStates[d], value>> \in Moves
  BY DEF AttemptMove
<1>2. QED  BY <1>1 DEF AttemptForward, TypeOK, StorageTypeOK

-----------------------------------------------------------------------------
(* What the handlers of a session do to its state.                          *)

\* A state that has begun an attempt and decided on a route, or on none.
Begun(new, st, route) ==
  /\ new \in RequestState
  /\ new.requestId = st.requestId /\ new.attemptCount = st.attemptCount + 1
  /\ new.fallbackIndex = st.attemptCount
  /\ new.maxAttempts = st.maxAttempts /\ new.afterPartialOutput = st.afterPartialOutput
  /\ new.excludedRoutes = st.excludedRoutes /\ new.partialOutput = st.partialOutput
  /\ new.selectedRoute = IF route = NoRoute THEN st.selectedRoute ELSE route

LEMMA DecidedIsBegun ==
  ASSUME NEW st \in RequestState, st.attemptCount < MaxAttempts + 1,
         NEW route \in Routes \cup {NoRoute}
  PROVE  Begun(Decided(RecordAttempt(st), route), st, route)
<1>1. Decided(RecordAttempt(st), route) \in RequestState
  BY DecidedType
<1>2. PICK began : began = RecordAttempt(st)
  OBVIOUS
<1>3. /\ began \in RequestState /\ began.requestId = st.requestId
      /\ began.attemptCount = st.attemptCount + 1 /\ began.maxAttempts = st.maxAttempts
      /\ began.excludedRoutes = st.excludedRoutes
      /\ began.selectedRoute = st.selectedRoute
  BY <1>2, DecidedType DEF RecordAttempt, RequestState
<1>4. began.afterPartialOutput = st.afterPartialOutput /\ began.partialOutput = st.partialOutput
  BY <1>2, Zenon DEF RecordAttempt, RequestState
<1>5. PICK new : new = Decided(began, route)
  OBVIOUS
<1>6. /\ new.requestId = began.requestId /\ new.attemptCount = began.attemptCount
      /\ new.fallbackIndex = began.attemptCount - 1 /\ new.maxAttempts = began.maxAttempts
      /\ new.excludedRoutes = began.excludedRoutes
      /\ new.selectedRoute = IF route = NoRoute THEN began.selectedRoute ELSE route
  BY <1>3, <1>5 DEF Decided, RequestState
<1>7. new.afterPartialOutput = began.afterPartialOutput /\ new.partialOutput = began.partialOutput
  BY <1>3, <1>5, Zenon DEF Decided, RequestState
<1>8. st.attemptCount \in Nat
  BY DEF RequestState
<1>9. new \in RequestState /\ new = Decided(RecordAttempt(st), route)
  BY <1>1, <1>2, <1>5
<1>10. Begun(new, st, route)
  <2>1. new.fallbackIndex = st.attemptCount
    BY <1>3, <1>6, <1>8
  <2>2. new.afterPartialOutput = st.afterPartialOutput /\ new.partialOutput = st.partialOutput
    BY <1>4, <1>7, Zenon
  <2>3. QED  BY <1>3, <1>6, <1>9, <2>1, <2>2 DEF Begun
<1>11. QED  BY <1>9, <1>10

\* agent/request decides for the attempt its state stands at, on a route that is not
\* excluded.
Selects(s, st, new, route) ==
  LET d == <<s, st.requestId, st.attemptCount>> IN
  /\ route \in (Routes \ st.excludedRoutes) \cup {NoRoute}
  /\ SetState(s, at[s], new) /\ Begun(new, st, route)
  /\ d \in Decisions /\ InsertDecision(d, route)
  /\ selection'[s] = [attempt |-> d, route |-> route]
  /\ pc'[s] = IF s \in live THEN "flushing" ELSE "done"
  /\ currentTurnStep'[s] = at[s] /\ UNCHANGED <<at, attemptStates>>

LEMMA SelectModelSelects ==
  ASSUME TypeOK, NEW s \in Sessions, HeldDecision(s), SelectModel(s)
  PROVE  \E new, route : Selects(s, GetOrCreateRequestState(s, at[s]), new, route)
<1>1. at[s] \in Keys
  BY DEF SelectModel, HeldDecision
<1>2. PICK st : st = GetOrCreateRequestState(s, at[s])
  OBVIOUS
<1>3. PICK route \in Candidates(RecordAttempt(st)) \cup {NoRoute} :
        LET new == Decided(RecordAttempt(st), route)
            d == DecisionId(s, new)
        IN  /\ SetState(s, at[s], new)
            /\ InsertDecision(d, route)
            /\ selection' = [selection EXCEPT ![s] = [attempt |-> d, route |-> route]]
            /\ IF s \in live THEN MoveTo(s, "flushing") ELSE MoveTo(s, "done")
  BY <1>2, Zenon DEF SelectModel
<1>4. MayCreate(s, at[s]) /\ RecordAttempt(st).attemptCount <= MaxAttempts + 1
  BY <1>2 DEF SelectModel
<1>5. route \in Routes \cup {NoRoute}
  BY <1>3 DEF Candidates
<1>6. PICK new : new = Decided(RecordAttempt(st), route)
  OBVIOUS
<1>7. /\ st \in RequestState /\ st.attemptCount \in 0..MaxAttempts
      /\ DecisionId(s, new) = <<s, st.requestId, st.attemptCount>>
      /\ DecisionId(s, new) \in Decisions
  BY <1>1, <1>2, <1>4, <1>5, <1>6, BeganType
<1>8. Begun(new, st, route)
  BY <1>5, <1>6, <1>7, DecidedIsBegun
<1>9. RecordAttempt(st).excludedRoutes = st.excludedRoutes
  BY <1>7 DEF RecordAttempt, RequestState
<1>10. route \in (Routes \ st.excludedRoutes) \cup {NoRoute}
  BY <1>3, <1>9 DEF Candidates
<1>11. SetState(s, at[s], new) /\ InsertDecision(DecisionId(s, new), route)
       /\ selection' = [selection EXCEPT ![s] = [attempt |-> DecisionId(s, new), route |-> route]]
       /\ IF s \in live THEN MoveTo(s, "flushing") ELSE MoveTo(s, "done")
  BY <1>3, <1>6, Zenon
<1>12. currentTurnStep'[s] = at[s] /\ UNCHANGED <<at, attemptStates>>
  BY DEF SelectModel, EnterRequest, TypeOK, MemoryTypeOK
<1>13. /\ selection'[s] = [attempt |-> DecisionId(s, new), route |-> route]
       /\ pc'[s] = IF s \in live THEN "flushing" ELSE "done"
  BY <1>11 DEF MoveTo, TypeOK, LoopTypeOK
<1>14. Selects(s, st, new, route)
  BY <1>7, <1>8, <1>10, <1>11, <1>12, <1>13 DEF Selects
<1>15. QED  BY <1>2, <1>14

\* One that fails has begun an attempt, and decided or not.
LEMMA SelectModelFailsBegins ==
  ASSUME TypeOK, NEW s \in Sessions, HeldDecision(s), SelectModelFails(s)
  PROVE  \E new \in RequestState :
           /\ SetState(s, at[s], new)
           /\ new.requestId = GetOrCreateRequestState(s, at[s]).requestId
           /\ new.attemptCount = GetOrCreateRequestState(s, at[s]).attemptCount + 1
<1>1. at[s] \in Keys
  BY DEF SelectModelFails, HeldDecision
<1>2. PICK st : st = GetOrCreateRequestState(s, at[s])
  OBVIOUS
<1>3. PICK route \in Candidates(RecordAttempt(st)) \cup {NoRoute} :
        \E new \in {RecordAttempt(st), Decided(RecordAttempt(st), route)} : SetState(s, at[s], new)
  BY <1>2 DEF SelectModelFails
<1>4. MayCreate(s, at[s]) /\ RecordAttempt(st).attemptCount <= MaxAttempts + 1
  BY <1>2 DEF SelectModelFails
<1>5. route \in Routes \cup {NoRoute}
  BY <1>3 DEF Candidates
<1>6. st \in RequestState /\ st.attemptCount \in 0..MaxAttempts /\ RecordAttempt(st) \in RequestState
  BY <1>1, <1>2, <1>4, <1>5, BeganType
<1>7. Begun(Decided(RecordAttempt(st), route), st, route)
  BY <1>5, <1>6, DecidedIsBegun
<1>8. RecordAttempt(st).requestId = st.requestId
      /\ RecordAttempt(st).attemptCount = st.attemptCount + 1
  BY <1>6 DEF RecordAttempt, RequestState
<1>9. PICK new \in {RecordAttempt(st), Decided(RecordAttempt(st), route)} : SetState(s, at[s], new)
  BY <1>3
<1>10. new \in RequestState /\ new.requestId = st.requestId
       /\ new.attemptCount = st.attemptCount + 1
  BY <1>6, <1>7, <1>8, <1>9 DEF Begun
<1>11. QED  BY <1>2, <1>9, <1>10

\* Excluding the failed route leaves the rest.
LEMMA ExcludeRouteIs ==
  ASSUME NEW st \in RequestState
  PROVE  LET new == ExcludeRoute(st)
         IN  /\ new \in RequestState
             /\ new.requestId = st.requestId /\ new.attemptCount = st.attemptCount
             /\ new.maxAttempts = st.maxAttempts
             /\ new.afterPartialOutput = st.afterPartialOutput
             /\ new.partialOutput = st.partialOutput
             /\ new.excludedRoutes = st.excludedRoutes \cup ({st.selectedRoute} \ {NoRoute})
<1>1. PICK new : new = ExcludeRoute(st)
  OBVIOUS
<1>2. PICK excluded \in SUBSET Routes :
        excluded = st.excludedRoutes \cup ({st.selectedRoute} \ {NoRoute})
  BY DEF RequestState
<1>3. new = [st EXCEPT !.excludedRoutes = excluded]
  BY <1>1, <1>2 DEF ExcludeRoute
<1>4. /\ new \in RequestState
      /\ new.requestId = st.requestId /\ new.attemptCount = st.attemptCount
      /\ new.maxAttempts = st.maxAttempts /\ new.excludedRoutes = excluded
  BY <1>3 DEF RequestState
<1>5. new.afterPartialOutput = st.afterPartialOutput /\ new.partialOutput = st.partialOutput
  BY <1>3, Zenon DEF RequestState
<1>6. QED  BY <1>1, <1>2, <1>4, <1>5

\* agent/request-error retries or ends the request; it may exclude the failed route.
LEMMA RequestErrorIs ==
  ASSUME TypeOK, NEW s \in Sessions, HeldDecision(s), RequestError(s)
  PROVE  /\ at[s] \in Keys /\ UNCHANGED at
         /\ \/ /\ pc'[s] = "done" /\ UNCHANGED <<requestStates, created>>
            \/ /\ pc'[s] = "done"
               /\ SetState(s, at[s], GetOrCreateRequestState(s, at[s]))
            \/ /\ pc'[s] = "request"
               /\ CanRetry(GetOrCreateRequestState(s, at[s]))
               /\ GetOrCreateRequestState(s, at[s]).partialOutput
                    => GetOrCreateRequestState(s, at[s]).afterPartialOutput
               /\ SetState(s, at[s], ExcludeRoute(GetOrCreateRequestState(s, at[s])))
<1>1. at[s] \in Keys /\ UNCHANGED at
  BY DEF RequestError, HeldDecision
<1>2. PICK st : st = GetOrCreateRequestState(s, at[s])
  OBVIOUS
<1>3. PICK failure \in Failures :
        LET retry == settings.fallbackEnabled /\ ShouldRetry(st, failure)
        IN  /\ IF settings.fallbackEnabled
               THEN SetState(s, at[s], IF retry THEN ExcludeRoute(st) ELSE st)
               ELSE UNCHANGED <<requestStates, created>>
            /\ MoveTo(s, IF retry THEN "request" ELSE "done")
  BY <1>2, Zenon DEF RequestError
<1>4. CASE ~settings.fallbackEnabled
  <2>1. UNCHANGED <<requestStates, created>> /\ MoveTo(s, "done")
    BY <1>3, <1>4, Zenon
  <2>2. QED  BY <1>1, <2>1 DEF MoveTo, TypeOK, LoopTypeOK
<1>5. CASE settings.fallbackEnabled /\ ShouldRetry(st, failure)
  <2>1. SetState(s, at[s], ExcludeRoute(st)) /\ MoveTo(s, "request")
    BY <1>3, <1>5, Zenon
  <2>2. CanRetry(st) /\ (st.partialOutput => st.afterPartialOutput)
    BY <1>5, Zenon DEF ShouldRetry
  <2>3. QED  BY <1>1, <1>2, <2>1, <2>2 DEF MoveTo, TypeOK, LoopTypeOK
<1>6. CASE settings.fallbackEnabled /\ ~ShouldRetry(st, failure)
  <2>1. SetState(s, at[s], st) /\ MoveTo(s, "done")
    BY <1>3, <1>6, Zenon
  <2>2. QED  BY <1>1, <1>2, <2>1 DEF MoveTo, TypeOK, LoopTypeOK
<1>7. QED  BY <1>4, <1>5, <1>6

-----------------------------------------------------------------------------
(* Ids, attempts and what is stored of them, from step to step.             *)

\* Handlers that leave the Map alone.
LEMMA MapUnchanged ==
  ASSUME NEW s \in Sessions,
         PreStep(s) \/ FlushAcked(s) \/ FlushFailed(s) \/ CommitFails(s) \/ Dispatch(s)
         \/ Abandon(s) \/ CloseStream(s) \/ CloseStreamFails(s) \/ SessionOpen(s)
  PROVE  UNCHANGED memory
<1>1. CASE PreStep(s) \/ FlushAcked(s) \/ FlushFailed(s) \/ CommitFails(s)
  BY <1>1 DEF PreStep, FlushAcked, FlushFailed, CommitFails
<1>2. CASE Dispatch(s) \/ Abandon(s) \/ CloseStream(s) \/ CloseStreamFails(s)
  BY <1>2 DEF Dispatch, Abandon, CloseStream, CloseStreamFails
<1>3. CASE SessionOpen(s)
  BY <1>3 DEF SessionOpen
<1>4. QED  BY <1>1, <1>2, <1>3

\* The rows that a step of session s can make appear.
LEMMA RowsOfSession ==
  ASSUME TypeOK, LoopHoldsDecision, NEW s \in Sessions, Request(s) \/ Cleanup(s),
         NEW e \in Decisions, rows'[e].state # "absent", rows[e].state = "absent"
  PROVE  SelectModel(s) /\ e = selection'[s].attempt
<1>1. CASE SelectModel(s)
  <2>1. PICK new, route : Selects(s, GetOrCreateRequestState(s, at[s]), new, route)
    BY <1>1, SelectModelSelects DEF LoopHoldsDecision
  <2>2. PICK d \in Decisions : InsertDecision(d, route) /\ selection'[s].attempt = d
    BY <2>1 DEF Selects
  <2>3. QED  BY <1>1, <2>2 DEF InsertDecision, TypeOK, StorageTypeOK
<1>2. CASE FlushAcked(s) \/ CommitFails(s)
  <2> DEFINE d == selection[s].attempt
  <2>1. d \in Decisions /\ rows[d].state # "absent"
    BY <1>2 DEF FlushAcked, CommitFails, LoopHoldsDecision, HeldDecision
  <2>2. rows' = [rows EXCEPT ![d].state = "committed"] \/ rows' = rows
    BY <1>2 DEF FlushAcked, CommitFails
  <2> HIDE DEF d
  <2>3. QED  BY <2>1, <2>2 DEF TypeOK, StorageTypeOK, Row
<1>3. CASE ~SelectModel(s) /\ ~FlushAcked(s) /\ ~CommitFails(s)
  <2>1. UNCHANGED rows
    BY <1>3 DEF Request, PreStep, ClassifyStep, SelectModelFails, FlushFailed, Dispatch, Abandon,
       PartialOutput, CloseStream, CloseStreamFails, RequestError, Cleanup, StepEnd, TurnEnd,
       EarlyTurnEnd, SessionDispose, SessionOpen, storage
  <2>2. QED  BY <2>1
<1>4. QED  BY <1>1, <1>2, <1>3

LEMMA NoOtherRows ==
  ASSUME TypeOK, LoopHoldsDecision, NEW s \in Sessions, Request(s) \/ Cleanup(s)
  PROVE  /\ \A t \in Sessions \ {s} : NoNewRow(t)
         /\ ~SelectModel(s) => NoNewRow(s)
<1>1. ASSUME NEW t \in Sessions \ {s}, NEW d \in Decisions, SessionOf(d) = t,
             rows'[d].state # "absent", rows[d].state = "absent"
      PROVE  FALSE
  <2>1. SelectModel(s) /\ d = selection'[s].attempt
    BY <1>1, RowsOfSession
  <2>2. PICK new, route : Selects(s, GetOrCreateRequestState(s, at[s]), new, route)
    BY <2>1, SelectModelSelects DEF LoopHoldsDecision
  <2>3. SessionOf(d) = s
    BY <2>1, <2>2 DEF Selects, SessionOf
  <2>4. QED  BY <1>1, <2>3
<1>2. ~SelectModel(s) => NoNewRow(s)
  BY RowsOfSession DEF NoNewRow
<1>3. QED  BY <1>1, <1>2 DEF NoNewRow

\* A handler of session s touches no other session.
LEMMA OthersUntouched ==
  ASSUME TypeOK, LoopHoldsDecision, NEW s \in Sessions, Current(s), Request(s) \/ Cleanup(s),
         NEW t \in Sessions \ {s}
  PROVE  Untouched(t)
<1>0. HeldDecision(s) /\ (pc[s] # "idle" => at[s] \in Keys)
  BY DEF LoopHoldsDecision, HeldDecision
<1>1. LoopKept(t)
  BY OtherLoopsKept
<1>2. /\ requestStates'[t] = requestStates[t] /\ created'[t] = created[t]
      /\ currentTurnStep'[t] = currentTurnStep[t]
  <2>1. CASE PreStep(s) \/ FlushAcked(s) \/ FlushFailed(s) \/ CommitFails(s) \/ Dispatch(s)
             \/ Abandon(s) \/ CloseStream(s) \/ CloseStreamFails(s) \/ SessionOpen(s)
    BY <2>1, MapUnchanged DEF memory
  <2>2. CASE ClassifyStep(s)
    BY <1>0, <2>2, SetStateIs DEF ClassifyStep
  <2>3. CASE SelectModel(s)
    <3>1. \E new : SetState(s, at[s], new)
      BY <1>0, <2>3, SelectModelSelects DEF Selects
    <3>2. currentTurnStep'[t] = currentTurnStep[t]
      BY <2>3 DEF SelectModel, EnterRequest, TypeOK, MemoryTypeOK
    <3>3. at[s] \in Keys
      BY <1>0, <2>3 DEF SelectModel
    <3>4. QED  BY <3>1, <3>2, <3>3, SetStateIs
  <2>4. CASE SelectModelFails(s)
    <3>1. \E new : SetState(s, at[s], new)
      BY <1>0, <2>4, SelectModelFailsBegins
    <3>2. currentTurnStep'[t] = currentTurnStep[t]
      BY <2>4 DEF SelectModelFails, EnterRequest, TypeOK, MemoryTypeOK
    <3>3. at[s] \in Keys
      BY <1>0, <2>4 DEF SelectModelFails
    <3>4. QED  BY <3>1, <3>2, <3>3, SetStateIs
  <2>5. CASE PartialOutput(s)
    BY <1>0, <2>5 DEF PartialOutput, TypeOK, MemoryTypeOK
  <2>6. CASE RequestError(s)
    <3>1. UNCHANGED currentTurnStep
      BY <2>6 DEF RequestError
    <3>2. UNCHANGED <<requestStates, created>> \/ \E new : SetState(s, at[s], new)
      BY <1>0, <2>6, RequestErrorIs
    <3>3. at[s] \in Keys
      BY <1>0, <2>6 DEF RequestError
    <3>4. QED  BY <3>1, <3>2, <3>3, SetStateIs
  <2>7. CASE StepEnd(s) \/ TurnEnd(s) \/ EarlyTurnEnd(s) \/ SessionDispose(s)
    <3>1. UNCHANGED requestStates \/ \E keys : DeleteStates(s, keys)
      BY <2>7 DEF StepEnd, TurnEnd, EarlyTurnEnd, SessionDispose
    <3>2. requestStates'[t] = requestStates[t]
      BY <3>1, DeleteSteady
    <3>3. created' = created /\ currentTurnStep'[t] = currentTurnStep[t]
      BY <2>7 DEF StepEnd, TurnEnd, EarlyTurnEnd, SessionDispose, TypeOK, MemoryTypeOK
    <3>4. QED  BY <3>2, <3>3
  <2>8. QED
    BY <2>1, <2>2, <2>3, <2>4, <2>5, <2>6, <2>7 DEF Request, Cleanup
<1>3. t \in live' => t \in live
  BY DEF Request, PreStep, ClassifyStep, SelectModel, SelectModelFails, FlushAcked, FlushFailed,
     CommitFails, Dispatch, Abandon, PartialOutput, CloseStream, CloseStreamFails, RequestError,
     Cleanup, StepEnd, TurnEnd, EarlyTurnEnd, SessionDispose, SessionOpen, process
<1>4. NoNewRow(t)
  BY NoOtherRows
<1>5. \A d \in Decisions : SessionOf(d) = t => attemptStates'[d] = attemptStates[d]
  <2>1. UNCHANGED attemptStates \/ AttemptMove(s, selection[s].attempt)
    BY <1>0, FlushMoves, DispatchMoves, CloseMoves, OthersKeepAttempts
  <2>2. CASE AttemptMove(s, selection[s].attempt)
    <3>1. PICK e \in Decisions, value \in AttemptState :
            SessionOf(e) = s /\ attemptStates' = [attemptStates EXCEPT ![e] = value]
      BY <2>2 DEF AttemptMove
    <3>2. QED  BY <3>1 DEF TypeOK, StorageTypeOK
  <2>3. QED  BY <2>1, <2>2
<1>6. CallsOf(t)' = CallsOf(t)
  <2>1. CASE Dispatch(s)
    <3>1. SessionOf(selection[s].attempt) = s
      BY <2>1 DEF Dispatch, Current
    <3>2. PICK c : c.attempt = selection[s].attempt /\ calls' = calls \cup {c}
      BY <1>0, <2>1, DispatchMoves
    <3>3. QED  BY <3>1, <3>2 DEF CallsOf
  <2>2. CASE ~Dispatch(s)
    BY <2>2, OthersKeepAttempts DEF CallsOf
  <2>3. QED  BY <2>1, <2>2
<1>7. QED  BY <1>1, <1>2, <1>3, <1>4, <1>5, <1>6 DEF Untouched

LEMMA FreshOfSession ==
  ASSUME TypeOK, NEW s \in Sessions, LoopHoldsDecision, Fresh(s), Request(s) \/ Cleanup(s)
  PROVE  Fresh(s)'
<1>0. HeldDecision(s) /\ (pc[s] # "idle" => at[s] \in Keys)
  BY DEF LoopHoldsDecision, HeldDecision
<1>1. ~SelectModel(s) => NoNewRow(s)
  BY NoOtherRows
<1>2. CASE PreStep(s) \/ FlushAcked(s) \/ FlushFailed(s) \/ CommitFails(s) \/ Dispatch(s)
           \/ Abandon(s) \/ CloseStream(s) \/ CloseStreamFails(s) \/ SessionOpen(s)
  <2>1. requestStates' = requestStates /\ created' = created
    BY <1>2, MapUnchanged DEF memory
  <2>2. NoNewRow(s)
    BY <1>1, <1>2 DEF PreStep, FlushAcked, FlushFailed, CommitFails, Dispatch, Abandon,
       CloseStream, CloseStreamFails, SessionOpen, SelectModel
  <2>3. QED  BY <2>1, <2>2, FreshSteady DEF Steady
<1>3. CASE ClassifyStep(s) \/ SelectModelFails(s) \/ RequestError(s)
  <2>1. at[s] \in Keys
    BY <1>0, <1>3 DEF ClassifyStep, SelectModelFails, RequestError
  <2>2. PICK st : st = GetOrCreateRequestState(s, at[s])
    OBVIOUS
  <2>3. \/ UNCHANGED <<requestStates, created>>
        \/ \E new \in RequestState :
             /\ SetState(s, at[s], new) /\ new.requestId = st.requestId
             /\ new.attemptCount >= st.attemptCount
    <3> DEFINE Goal == \E new \in RequestState :
                         /\ SetState(s, at[s], new) /\ new.requestId = st.requestId
                         /\ new.attemptCount >= st.attemptCount
    <3>1. MayCreate(s, at[s]) => st \in RequestState /\ st.attemptCount \in Nat
      BY <2>1, <2>2, GetOrCreateIs DEF RequestState
    <3>2. SetState(s, at[s], st) => Goal
      <4> HAVE SetState(s, at[s], st)
      <4>1. st \in RequestState /\ st.attemptCount >= st.attemptCount
        BY <3>1 DEF SetState
      <4>2. QED  BY <4>1
    <3>3. SetState(s, at[s], ExcludeRoute(st)) => Goal
      <4> HAVE SetState(s, at[s], ExcludeRoute(st))
      <4>1. st \in RequestState /\ st.attemptCount \in Nat
        BY <3>1 DEF SetState
      <4>2. ExcludeRoute(st) \in RequestState /\ ExcludeRoute(st).requestId = st.requestId
            /\ ExcludeRoute(st).attemptCount = st.attemptCount
        BY <4>1, ExcludeRouteIs
      <4>3. QED  BY <4>1, <4>2
    <3>4. CASE ClassifyStep(s)
      BY <2>2, <3>2, <3>4 DEF ClassifyStep
    <3>5. CASE SelectModelFails(s)
      <4>1. PICK new \in RequestState : /\ SetState(s, at[s], new)
                                        /\ new.requestId = st.requestId
                                        /\ new.attemptCount = st.attemptCount + 1
        BY <1>0, <2>2, <3>5, SelectModelFailsBegins
      <4>2. new.attemptCount >= st.attemptCount
        BY <3>1, <4>1 DEF SetState
      <4>3. QED  BY <4>1, <4>2
    <3>6. CASE RequestError(s)
      BY <1>0, <2>2, <3>2, <3>3, <3>6, RequestErrorIs
    <3>7. QED  BY <1>3, <3>4, <3>5, <3>6
  <2>4. NoNewRow(s)
    BY <1>1, <1>3 DEF ClassifyStep, SelectModelFails, RequestError, SelectModel, NoNewRow
  <2>5. CASE UNCHANGED <<requestStates, created>>
    BY <2>4, <2>5, FreshSteady DEF Steady
  <2>6. ASSUME NEW new \in RequestState, SetState(s, at[s], new), new.requestId = st.requestId,
               new.attemptCount >= st.attemptCount
        PROVE  Fresh(s)'
    BY <2>1, <2>2, <2>4, <2>6, FreshSet DEF NoNewRow
  <2>7. QED  BY <2>3, <2>5, <2>6
<1>4. CASE SelectModel(s)
  <2>1. at[s] \in Keys
    BY <1>0, <1>4 DEF SelectModel
  <2>2. PICK st : st = GetOrCreateRequestState(s, at[s])
    OBVIOUS
  <2>3. PICK new, route : Selects(s, st, new, route)
    BY <1>0, <1>4, <2>2, SelectModelSelects
  <2>4. /\ SetState(s, at[s], new) /\ new \in RequestState
        /\ new.requestId = st.requestId /\ new.attemptCount = st.attemptCount + 1
        /\ selection'[s].attempt = <<s, st.requestId, st.attemptCount>>
    BY <2>3 DEF Selects, Begun
  <2>5. st.attemptCount \in Nat
    BY <2>1, <2>2, <2>4, GetOrCreateIs DEF SetState, RequestState
  <2>6. \A d \in Decisions :
          SessionOf(d) = s /\ rows'[d].state # "absent" =>
            \/ rows[d].state # "absent"
            \/ d[2] = new.requestId /\ d[3] < new.attemptCount
    <3> TAKE d \in Decisions
    <3>1. rows'[d].state # "absent" /\ rows[d].state = "absent" =>
            d = <<s, st.requestId, st.attemptCount>>
      BY <1>4, <2>4, RowsOfSession
    <3>2. QED  BY <2>4, <2>5, <3>1
  <2>7. QED  BY <2>1, <2>2, <2>4, <2>5, <2>6, FreshSet
<1>5. CASE PartialOutput(s)
  <2>1. at[s] \in Keys /\ created' = created /\ NoNewRow(s)
    BY <1>0, <1>1, <1>5 DEF PartialOutput, SelectModel
  <2>2. Steady(s)
    BY <1>5, <2>1 DEF PartialOutput, Steady, TypeOK, MemoryTypeOK, RequestState
  <2>3. QED  BY <2>1, <2>2, FreshSteady
<1>6. CASE StepEnd(s) \/ TurnEnd(s) \/ EarlyTurnEnd(s) \/ SessionDispose(s)
  <2>1. UNCHANGED requestStates \/ \E keys : DeleteStates(s, keys)
    BY <1>6 DEF StepEnd, TurnEnd, EarlyTurnEnd, SessionDispose
  <2>2. Steady(s)
    BY <2>1, DeleteSteady DEF Steady
  <2>3. created' = created /\ rows' = rows
    BY <1>6 DEF StepEnd, TurnEnd, EarlyTurnEnd, SessionDispose, storage
  <2>4. QED  BY <2>2, <2>3, FreshSteady DEF NoNewRow
<1>7. QED
  BY <1>2, <1>3, <1>4, <1>5, <1>6 DEF Request, Cleanup

\* A loop that is at no attempt has none to keep track of.
LEMMA CurrentElsewhere ==
  ASSUME NEW s \in Sessions, pc'[s] \notin {"flushing", "selected", "streaming"}
  PROVE  Current(s)'
BY DEF Current

\* The state of the step may go, and the session be disposed of, under the loop.
LEMMA CurrentKept ==
  ASSUME NEW s \in Sessions, Current(s), LoopKept(s), UNCHANGED <<attemptStates, calls>>,
         Present(s, at[s])' =>
           /\ Present(s, at[s])
           /\ DecisionId(s, requestStates[s][at[s]])' = DecisionId(s, requestStates[s][at[s]]),
         s \in live' => s \in live /\ currentTurnStep'[s] = currentTurnStep[s]
  PROVE  Current(s)'
<1> DEFINE d == selection[s].attempt
<1>1. pc'[s] = pc[s] /\ at'[s] = at[s] /\ selection'[s] = selection[s] /\ stream'[s] = stream[s]
  BY DEF LoopKept
<1>2. Called' = Called
  BY DEF Called
<1>3. pc[s] \in {"flushing", "selected", "streaming"} =>
        /\ SessionOf(d) = s
        /\ Present(s, at[s])' => d = DecisionId(s, requestStates[s][at[s]])'
  BY DEF Current
<1>4. pc[s] \in {"flushing", "selected"} =>
        /\ d \notin Called
        /\ s \in live' => currentTurnStep'[s] = at[s]
        /\ attemptStates[d] = IF pc[s] = "flushing" THEN "absent" ELSE "not_dispatched"
  BY DEF Current
<1>5. pc[s] = "streaming" =>
        /\ stream[s] \in {Unknown, d}
        /\ \E c \in calls : c.attempt = d /\ c.route = selection[s].route
        /\ \A c \in calls : c.attempt = d => c.key = at[s]
        /\ Present(s, at[s])' => stream[s] = d /\ attemptStates[d] = "dispatch_started"
  BY DEF Current
<1>6. QED  BY <1>1, <1>2, <1>3, <1>4, <1>5 DEF Current

\* The decision of an attempt that is selected is new.
LEMMA SelectedIsNew ==
  ASSUME TypeOK, NEW s \in Sessions, Fresh(s), NEW k \in Keys, MayCreate(s, k),
         <<s, GetOrCreateRequestState(s, k).requestId,
              GetOrCreateRequestState(s, k).attemptCount>> \in Decisions
  PROVE  rows[<<s, GetOrCreateRequestState(s, k).requestId,
                   GetOrCreateRequestState(s, k).attemptCount>>].state = "absent"
<1>1. PICK st : st = GetOrCreateRequestState(s, k)
  OBVIOUS
<1>2. /\ st \in RequestState
      /\ Present(s, k) => st = requestStates[s][k]
      /\ ~Present(s, k) => st.requestId = created[s] + 1
  BY <1>1, GetOrCreateIs
<1>3. PICK d \in Decisions : d = <<s, st.requestId, st.attemptCount>>
  BY <1>1
<1>4. SessionOf(d) = s /\ d[2] = st.requestId /\ d[3] = st.attemptCount
  BY <1>3 DEF SessionOf
<1>5. created[s] \in Nat /\ st.attemptCount \in Nat
  BY <1>2 DEF TypeOK, MemoryTypeOK, RequestState
<1>6. rows[d].state = "absent"
  BY <1>2, <1>4, <1>5 DEF Fresh
<1>7. QED  BY <1>1, <1>3, <1>6

LEMMA CurrentOfSession ==
  ASSUME TypeOK, NEW s \in Sessions, LoopHoldsDecision, CallsAreCommitted, Stored, Fresh(s),
         Current(s), Request(s) \/ Cleanup(s)
  PROVE  Current(s)'
<1>0. HeldDecision(s) /\ (pc[s] # "idle" => at[s] \in Keys)
  BY DEF LoopHoldsDecision, HeldDecision
<1>1. CASE PreStep(s) \/ ClassifyStep(s) \/ SelectModelFails(s) \/ FlushFailed(s) \/ CommitFails(s)
           \/ Abandon(s) \/ CloseStreamFails(s) \/ StepEnd(s) \/ TurnEnd(s)
  <2>1. pc'[s] \in {"classifying", "request", "done", "failed", "idle"}
    BY <1>1 DEF PreStep, ClassifyStep, SelectModelFails, FlushFailed, CommitFails, Abandon,
       CloseStreamFails, StepEnd, TurnEnd, MoveTo, TypeOK, LoopTypeOK
  <2>2. QED  BY <2>1, CurrentElsewhere
<1>2. CASE CloseStream(s) \/ RequestError(s)
  <2>1. \E stage \in {"request", "failed", "done"} : MoveTo(s, stage)
    BY <1>2, Zenon DEF CloseStream, RequestError
  <2>2. pc'[s] \in {"request", "failed", "done"}
    BY <2>1 DEF MoveTo, TypeOK, LoopTypeOK
  <2>3. QED  BY <2>2, CurrentElsewhere
<1>3. CASE SelectModel(s)
  <2>1. at[s] \in Keys
    BY <1>0, <1>3 DEF SelectModel
  <2>2. PICK st : st = GetOrCreateRequestState(s, at[s])
    OBVIOUS
  <2>3. PICK new, route : Selects(s, st, new, route)
    BY <1>0, <1>3, <2>2, SelectModelSelects
  <2>4. PICK d : d = <<s, st.requestId, st.attemptCount>>
    OBVIOUS
  <2>5. /\ SetState(s, at[s], new) /\ d \in Decisions /\ selection'[s].attempt = d
        /\ pc'[s] = IF s \in live THEN "flushing" ELSE "done"
        /\ currentTurnStep'[s] = at[s] /\ at' = at /\ attemptStates' = attemptStates
        /\ new.requestId = st.requestId /\ new.fallbackIndex = st.attemptCount
    BY <2>3, <2>4 DEF Selects, Begun
  <2>6. MayCreate(s, at[s]) /\ requestStates'[s][at[s]] = new
    BY <2>1, <2>5, SetStateIs
  <2>7. rows[d].state = "absent"
    BY <2>1, <2>2, <2>4, <2>5, <2>6, SelectedIsNew
  <2>8. d \notin Called /\ attemptStates[d] = "absent"
    <3>1. ASSUME NEW c \in calls, c.attempt = d  PROVE FALSE
      <4>1. rows[d] = [state |-> "committed", route |-> c.route]
        BY <3>1 DEF CallsAreCommitted
      <4>2. QED  BY <2>7, <4>1
    <3>2. attemptStates[d] = "absent"
      BY <2>5, <2>7 DEF Stored
    <3>3. QED  BY <3>1, <3>2 DEF Called
  <2>9. calls' = calls
    BY <1>3 DEF SelectModel, history
  <2>10. SessionOf(d) = s /\ DecisionId(s, requestStates[s][at[s]])' = d
    BY <2>4, <2>5, <2>6 DEF SessionOf, DecisionId
  <2>11. QED  BY <2>5, <2>8, <2>9, <2>10 DEF Current, Called
<1>4. CASE FlushAcked(s)
  <2> DEFINE d == selection[s].attempt
  <2>1. /\ d \in Decisions /\ SessionOf(d) = s /\ d \notin Called
        /\ Present(s, at[s]) => d = DecisionId(s, requestStates[s][at[s]])
        /\ s \in live => currentTurnStep[s] = at[s]
    BY <1>0, <1>4 DEF FlushAcked, HeldDecision, Current
  <2>2. UNCHANGED <<requestStates, currentTurnStep, calls, live, at, selection>>
    BY <1>4 DEF FlushAcked, memory, process, history
  <2>3. \/ pc'[s] = "done"
        \/ pc'[s] = "selected" /\ attemptStates'[d] = "not_dispatched"
    BY <1>4, <2>1 DEF FlushAcked, MoveTo, TypeOK, LoopTypeOK, StorageTypeOK
  <2>4. QED  BY <2>1, <2>2, <2>3 DEF Current, Called, Present, DecisionId
<1>5. CASE Dispatch(s)
  <2> DEFINE d == selection[s].attempt
  <2>1. /\ stream'[s] = IF Present(s, at[s]) THEN d ELSE Unknown
        /\ Present(s, at[s]) => attemptStates'[d] = "dispatch_started"
        /\ d \notin Called
    BY <1>0, <1>5, DispatchMoves
  <2>2. PICK c : /\ calls' = calls \cup {c}
                 /\ c.attempt = d /\ c.route = selection[s].route /\ c.key = at[s]
    <3> DEFINE call == [key |-> at[s], attempt |-> d, route |-> selection[s].route,
                        limit |-> requestStates[s][at[s]].maxAttempts,
                        sticky |-> ~requestStates[s][at[s]].afterPartialOutput]
    <3>1. calls' = calls \cup {call}
      BY <1>0, <1>5, DispatchMoves
    <3>2. call.attempt = d /\ call.route = selection[s].route /\ call.key = at[s]
      OBVIOUS
    <3> HIDE DEF call
    <3>3. QED  BY <3>1, <3>2
  <2>3. SessionOf(d) = s /\ (Present(s, at[s]) => d = DecisionId(s, requestStates[s][at[s]]))
    BY <1>5 DEF Dispatch, Current
  <2>4. UNCHANGED <<requestStates, at, selection>> /\ pc'[s] = "streaming"
    BY <1>5 DEF Dispatch, memory, MoveTo, TypeOK, LoopTypeOK
  <2>5. \A e \in calls' : e.attempt = d => e.key = at[s]
    BY <2>1, <2>2 DEF Called
  <2> HIDE DEF d
  <2>6. selection'[s].attempt = d /\ selection'[s].route = selection[s].route
    BY <2>4 DEF d
  <2>7. QED  BY <2>1, <2>2, <2>3, <2>4, <2>5, <2>6 DEF Current, Present, DecisionId
<1>6. CASE PartialOutput(s)
  <2>1. LoopKept(s) /\ UNCHANGED <<attemptStates, calls, live, currentTurnStep, at>>
    BY <1>6 DEF PartialOutput, LoopKept, loop, storage, process
  <2>2. at[s] \in Keys
    BY <1>0, <1>6 DEF PartialOutput
  <2>3. /\ requestStates'[s][at[s]].requestId = requestStates[s][at[s]].requestId
        /\ requestStates'[s][at[s]].fallbackIndex = requestStates[s][at[s]].fallbackIndex
    BY <1>6, <2>2 DEF PartialOutput, TypeOK, MemoryTypeOK, RequestState
  <2>4. QED  BY <2>1, <2>3, CurrentKept DEF Present, DecisionId
<1>7. CASE EarlyTurnEnd(s) \/ SessionDispose(s)
  <2>1. LoopKept(s) /\ UNCHANGED <<attemptStates, calls, at>>
    BY <1>7 DEF EarlyTurnEnd, SessionDispose, LoopKept, loop, storage, history
  <2>2. s \in live' => s \in live /\ currentTurnStep'[s] = currentTurnStep[s]
    BY <1>7 DEF EarlyTurnEnd, SessionDispose, process
  <2>3. CASE at[s] \in Keys
    <3>1. \/ requestStates'[s][at[s]] = requestStates[s][at[s]]
          \/ requestStates'[s][at[s]] = NoState
      BY <1>7, <2>3, DeleteSteady DEF EarlyTurnEnd, SessionDispose
    <3>2. NoState.requestId = 0
      BY NoStateType
    <3>3. QED  BY <2>1, <2>2, <3>1, <3>2, CurrentKept DEF Present, DecisionId
  <2>4. CASE at[s] \notin Keys
    <3>1. pc'[s] = "idle"
      BY <1>0, <2>1, <2>4 DEF LoopKept
    <3>2. QED  BY <3>1, CurrentElsewhere
  <2>5. QED  BY <2>3, <2>4
<1>8. CASE SessionOpen(s)
  BY <1>8, CurrentElsewhere DEF SessionOpen, loop
<1>9. QED
  BY <1>1, <1>2, <1>3, <1>4, <1>5, <1>6, <1>7, <1>8 DEF Request, Cleanup

LEMMA UsageGrows ==
  ASSUME TypeOK, LoopHoldsDecision, UsageMatchesCall, \A s \in Sessions : Current(s), [Next]_vars
  PROVE  usage \subseteq usage' /\ calls \subseteq calls' /\ UsageMatchesCall'
<1>1. ASSUME NEW s \in Sessions, CloseStream(s)
      PROVE  usage \subseteq usage' /\ calls' = calls /\ UsageMatchesCall'
  <2> DEFINE d == selection[s].attempt
  <2>1. /\ usage \subseteq usage'
        /\ \A u \in usage' \ usage : u.attempt = stream[s] /\ u.route = selection[s].route
    BY <1>1, UsageRecorded DEF CloseStream
  <2>2. /\ stream[s] \in {Unknown, d}
        /\ \E c \in calls : c.attempt = d /\ c.route = selection[s].route
    BY <1>1 DEF CloseStream, Current
  <2>3. calls' = calls
    BY <1>1 DEF CloseStream, history
  <2>4. QED  BY <2>1, <2>2, <2>3 DEF UsageMatchesCall
<1>2. ASSUME NEW s \in Sessions, Request(s) \/ Cleanup(s), ~CloseStream(s)
      PROVE  usage' = usage /\ calls \subseteq calls'
  <2>1. CASE Dispatch(s)
    BY <1>2, <2>1, OthersKeepAttempts DEF Dispatch
  <2>2. CASE ~Dispatch(s)
    BY <1>2, <2>2, OthersKeepAttempts
  <2>3. QED  BY <2>1, <2>2
<1>3. ASSUME Reconcile \/ (\E d \in Decisions : Persist(d)) \/ UpdateSettings \/ Crash \/ Restart
             \/ UNCHANGED vars
      PROVE  usage' = usage /\ calls' = calls
  BY <1>3, SystemKeepsAttempts
<1>4. usage \subseteq usage' /\ calls \subseteq calls' /\ (usage' = usage \/ UsageMatchesCall')
  BY <1>1, <1>2, <1>3 DEF Next
<1>5. usage' = usage => UsageMatchesCall'
  BY <1>4 DEF UsageMatchesCall
<1>6. QED  BY <1>4, <1>5

LEMMA DeliveredCalled ==
  ASSUME TypeOK, LoopHoldsDecision, Stored, UsageMatchesCall,
         \A s \in Sessions : Current(s), [Next]_vars
  PROVE  delivered' \subseteq Called'
<1>1. Called \subseteq Called'
  BY UsageGrows DEF Called
<1>2. ASSUME NEW s \in Sessions, PartialOutput(s)  PROVE delivered' \subseteq Called'
  <2>1. selection[s].attempt \in Called
    BY <1>2 DEF PartialOutput, Current, Called
  <2>2. QED  BY <1>1, <1>2, <2>1 DEF PartialOutput, Stored
<1>3. (\A s \in Sessions : ~PartialOutput(s)) => delivered' = delivered
  BY OthersKeepAttempts, SystemKeepsAttempts DEF Next
<1>4. QED  BY <1>1, <1>2, <1>3 DEF Stored

LEMMA DownIsIdle ==
  ASSUME TypeOK, Stored, [Next]_vars
  PROVE  ~up' => \A s \in Sessions : pc'[s] = "idle"
<1>1. ASSUME NEW s \in Sessions, Request(s) \/ Cleanup(s)  PROVE up'
  BY <1>1 DEF Request, PreStep, ClassifyStep, SelectModel, SelectModelFails, FlushAcked,
     FlushFailed, CommitFails, Dispatch, Abandon, PartialOutput, CloseStream, CloseStreamFails,
     RequestError, Cleanup, StepEnd, TurnEnd, EarlyTurnEnd, SessionDispose, SessionOpen, process
<1>2. CASE Crash
  BY <1>2 DEF Crash
<1>3. CASE Reconcile \/ UpdateSettings \/ Restart
  BY <1>3 DEF Reconcile, ReconcileAppend, ReconcileAcked, ReconcileFailed, UpdateSettings, Restart
<1>4. CASE (\E d \in Decisions : Persist(d)) \/ UNCHANGED vars
  BY <1>4 DEF Persist, vars, process, loop, Stored
<1>5. QED  BY <1>1, <1>2, <1>3, <1>4 DEF Next

\* Reconciliation, the store and the administrator touch no session.
LEMMA SystemUntouched ==
  ASSUME TypeOK, NEW t \in Sessions,
         Reconcile \/ (\E d \in Decisions : Persist(d)) \/ UpdateSettings \/ UNCHANGED vars
  PROVE  Untouched(t)
<1>1. LoopKept(t) /\ UNCHANGED <<memory, live, attemptStates, calls>>
  BY DEF Reconcile, ReconcileAppend, ReconcileAcked, ReconcileFailed, Persist, UpdateSettings,
     vars, loop, LoopKept, process, storage, history
<1>2. NoNewRow(t)
  <2>1. CASE ReconcileAcked
    <3>1. reconciling.current \in Decisions
      BY <2>1 DEF ReconcileAcked, TypeOK, ProcessTypeOK
    <3>2. QED  BY <2>1, <3>1 DEF ReconcileAcked, NoNewRow, TypeOK, StorageTypeOK, Row
  <2>2. CASE ~ReconcileAcked
    BY <2>2 DEF Reconcile, ReconcileAppend, ReconcileFailed, Persist, UpdateSettings, vars,
       storage, NoNewRow
  <2>3. QED  BY <2>1, <2>2
<1>3. QED  BY <1>1, <1>2 DEF Untouched, memory, CallsOf

LEMMA SessionsNext ==
  ASSUME FailClosed, Accounted, [Next]_vars
  PROVE  \A t \in Sessions : Fresh(t)' /\ Current(t)'
<1> TAKE t \in Sessions
<1> USE DEF FailClosed, Accounted
<1>0. HeldDecision(t)
  BY DEF LoopHoldsDecision
<1>1. ASSUME NEW s \in Sessions, Request(s) \/ Cleanup(s)  PROVE Fresh(t)' /\ Current(t)'
  <2>1. CASE t = s
    BY <1>1, <2>1, FreshOfSession, CurrentOfSession
  <2>2. CASE t # s
    <3>1. Untouched(t)
      BY <1>1, <2>2, OthersUntouched
    <3>2. QED  BY <1>0, <3>1, FreshUntouched, CurrentUntouched
  <2>3. QED  BY <2>1, <2>2
<1>2. CASE Crash
  <2>1. Steady(t) /\ created' = created /\ rows' = rows /\ pc'[t] = "idle"
    BY <1>2 DEF Crash, Steady, storage
  <2>2. QED  BY <2>1, FreshSteady, CurrentElsewhere DEF NoNewRow
<1>3. CASE Restart
  <2>1. Steady(t) /\ created' = created /\ rows' = rows /\ pc'[t] = "idle"
    BY <1>3 DEF Restart, Steady, memory, storage, loop, Stored
  <2>2. QED  BY <2>1, FreshSteady, CurrentElsewhere DEF NoNewRow
<1>4. CASE Reconcile \/ (\E d \in Decisions : Persist(d)) \/ UpdateSettings \/ UNCHANGED vars
  <2>1. Untouched(t)
    BY <1>4, SystemUntouched
  <2>2. QED  BY <1>0, <2>1, FreshUntouched, CurrentUntouched
<1>5. QED  BY <1>1, <1>2, <1>3, <1>4 DEF Next

LEMMA AccountedInit == Init => Accounted
<1> SUFFICES ASSUME Init  PROVE Accounted
  OBVIOUS
<1>1. Stored
  BY DEF Init, Stored, Called
<1>2. UsageMatchesCall /\ TerminalHasUsage
  BY DEF Init, UsageMatchesCall, TerminalHasUsage, Terminal
<1>3. ASSUME NEW s \in Sessions  PROVE Fresh(s) /\ Current(s)
  <2>1. \A k \in Keys : requestStates[s][k].requestId = 0
    BY NoStateType DEF Init
  <2>2. created[s] = 0 /\ \A d \in Decisions : rows[d].state = "absent"
    BY DEF Init, NoRow
  <2>3. Fresh(s)
    BY <2>1, <2>2 DEF Fresh, Present
  <2>4. Current(s)
    BY DEF Init, Current
  <2>5. QED  BY <2>3, <2>4
<1>4. QED  BY <1>1, <1>2, <1>3 DEF Accounted

LEMMA AccountedNext == FailClosed /\ Accounted /\ [Next]_vars => Accounted' /\ AttemptForward
<1> SUFFICES ASSUME FailClosed, Accounted, [Next]_vars  PROVE Accounted' /\ AttemptForward
  OBVIOUS
<1> USE DEF FailClosed
<1>1. Stored /\ UsageMatchesCall /\ TerminalHasUsage /\ \A s \in Sessions : Current(s)
  BY DEF Accounted
<1>2. \/ UNCHANGED attemptStates
      \/ \E s \in Sessions : AttemptMove(s, selection[s].attempt)
  BY <1>1, AttemptsMove
<1>3. AttemptForward
  BY <1>2, MovesForward DEF AttemptForward
<1>4. RowsForward
  BY RowsNext
<1>5. usage \subseteq usage' /\ UsageMatchesCall'
  BY <1>1, UsageGrows
<1>6. Stored'
  <2>1. \A d \in Decisions : attemptStates'[d] # "absent" => rows'[d].state # "absent"
    <3>1. CASE UNCHANGED attemptStates
      BY <1>1, <1>4, <3>1 DEF Stored, RowsForward
    <3>2. ASSUME NEW s \in Sessions, AttemptMove(s, selection[s].attempt)
          PROVE  \A d \in Decisions : attemptStates'[d] # "absent" => rows'[d].state # "absent"
      <4>1. PICK e \in Decisions, value \in AttemptState :
              /\ rows[e].state # "absent" /\ attemptStates' = [attemptStates EXCEPT ![e] = value]
        BY <3>2 DEF AttemptMove
      <4>2. QED  BY <1>1, <1>4, <4>1 DEF Stored, RowsForward, TypeOK, StorageTypeOK
    <3>3. QED  BY <1>2, <3>1, <3>2
  <2>2. QED  BY <1>1, <2>1, DeliveredCalled, DownIsIdle DEF Stored
<1>7. TerminalHasUsage'
  <2>1. CASE UNCHANGED attemptStates
    BY <1>1, <1>5, <2>1 DEF TerminalHasUsage
  <2>2. ASSUME NEW s \in Sessions, AttemptMove(s, selection[s].attempt)  PROVE TerminalHasUsage'
    <3>1. PICK e \in Decisions, value \in AttemptState :
            /\ attemptStates' = [attemptStates EXCEPT ![e] = value]
            /\ value \in Terminal => \E u \in usage' : u.attempt = e
      BY <2>2 DEF AttemptMove
    <3>2. QED  BY <1>1, <1>5, <3>1 DEF TerminalHasUsage, TypeOK, StorageTypeOK
  <2>3. QED  BY <1>2, <2>1, <2>2
<1>8. \A t \in Sessions : Fresh(t)' /\ Current(t)'
  BY SessionsNext
<1>9. QED  BY <1>3, <1>5, <1>6, <1>7, <1>8 DEF Accounted

\* FailClosed and Accounted together are inductive.
THEOREM AlwaysAccounted == Spec => [](FailClosed /\ Accounted)
<1>1. Init => FailClosed /\ Accounted  BY FailClosedInit, AccountedInit
<1>2. FailClosed /\ Accounted /\ [Next]_vars => (FailClosed /\ Accounted)'
  BY FailClosedNext, AccountedNext
<1>3. QED  BY <1>1, <1>2, PTL DEF Spec

\* llm/stream files usage under the attempt it measured, whatever cleanup removed the
\* request state while it ran.
THEOREM UsageIsAttributed == Spec => []UsageMatchesCall
<1>1. Accounted => UsageMatchesCall  BY DEF Accounted
<1>2. QED  BY <1>1, AlwaysAccounted, PTL

\* An attempt that ended has its usage row.
THEOREM EndedHasUsage == Spec => []TerminalHasUsage
<1>1. Accounted => TerminalHasUsage  BY DEF Accounted
<1>2. QED  BY <1>1, AlwaysAccounted, PTL

\* No handler takes an attempt state back.
THEOREM AttemptsGoForward == Spec => AttemptStatesForward
<1>1. FailClosed /\ Accounted /\ [Next]_vars => [AttemptForward]_vars  BY AccountedNext
<1>2. QED  BY <1>1, AlwaysAccounted, PTL DEF Spec, AttemptStatesForward

-----------------------------------------------------------------------------
(* The refinement: every step is one of AuditedCall.                        *)

LEMMA PhaseKept ==
  ASSUME calls' = calls, \A d \in Decisions : rows'[d].state = rows[d].state
  PROVE  AuditPhase' = AuditPhase
BY DEF AuditPhase, PhaseOf, Called

LEMMA AwaitedKept ==
  ASSUME \A t \in Sessions : Waiting(t)' => Waiting(t) /\ selection'[t] = selection[t]
  PROVE  Awaited' \in SUBSET Awaited
BY DEF Awaited

LEMMA OtherWaits ==
  ASSUME TypeOK, NEW s \in Sessions, Request(s) \/ Cleanup(s), NEW t \in Sessions \ {s}
  PROVE  (Waiting(t)' <=> Waiting(t)) /\ selection'[t] = selection[t]
BY OtherLoopsKept DEF LoopKept, Waiting

\* A row that becomes committed was not called, and is its decision's step.
LEMMA CommitStep ==
  ASSUME TypeOK, CallsAreCommitted, NEW d \in Decisions, rows[d].state = "pending",
         rows' = [rows EXCEPT ![d].state = "committed"], calls' = calls,
         Awaited' \in {Awaited, Awaited \ {d}}
  PROVE  Audit!Commit(d)
<1>1. ASSUME NEW c \in calls  PROVE c.attempt # d
  <2>1. rows[c.attempt] = [state |-> "committed", route |-> c.route]
    BY DEF CallsAreCommitted
  <2>2. rows[c.attempt].state = "committed"
    BY <2>1
  <2>3. QED  BY <2>2
<1>2. d \notin Called /\ Called' = Called
  BY <1>1 DEF Called
<1>3. rows'[d].state = "committed" /\ \A e \in Decisions \ {d} : rows'[e] = rows[e]
  BY DEF TypeOK, StorageTypeOK, Row
<1>4. AuditPhase[d] = "pending"
  BY <1>2 DEF AuditPhase, PhaseOf
<1>5. AuditPhase' = [AuditPhase EXCEPT ![d] = "committed"]
  <2>1. PhaseOf(d)' = "committed" /\ \A e \in Decisions \ {d} : PhaseOf(e)' = PhaseOf(e)
    BY <1>2, <1>3 DEF PhaseOf
  <2>2. QED  BY <2>1, Zenon DEF AuditPhase
<1>6. QED  BY <1>4, <1>5 DEF Audit!Commit

LEMMA CommittingStep ==
  ASSUME TypeOK, CallsAreCommitted, NEW d \in Decisions, rows[d].state # "absent",
         rows' = [rows EXCEPT ![d].state = "committed"] \/ rows' = rows, calls' = calls,
         Awaited' \in {Awaited, Awaited \ {d}}
  PROVE  Audit!Next
<1>1. CASE rows[d].state = "pending" /\ rows' = [rows EXCEPT ![d].state = "committed"]
  BY <1>1, CommitStep DEF Audit!Next
<1>2. CASE rows[d].state # "pending" \/ rows' = rows
  <2>1. \A e \in Decisions : rows'[e].state = rows[e].state
    BY <1>2 DEF TypeOK, StorageTypeOK, Row
  <2>2. Audit!GiveUp
    BY <2>1, PhaseKept DEF Audit!GiveUp
  <2>3. QED  BY <2>2 DEF Audit!Next
<1>3. QED  BY <1>1, <1>2

\* The loops of two sessions wait for different decisions.
LEMMA AwaitedWithout ==
  ASSUME NEW s \in Sessions, \A t \in Sessions : Current(t),
         pc[s] \in {"flushing", "selected"}, ~Waiting(s)',
         \A t \in Sessions \ {s} : (Waiting(t)' <=> Waiting(t)) /\ selection'[t] = selection[t]
  PROVE  Awaited' = Awaited \ {selection[s].attempt}
<1>1. \A t \in Sessions \ {s} : Waiting(t) => selection[t].attempt # selection[s].attempt
  BY DEF Waiting, Current
<1>2. QED  BY <1>1 DEF Awaited

LEMMA FlushStep ==
  ASSUME FailClosed, Accounted, NEW s \in Sessions, FlushAcked(s) \/ CommitFails(s)
  PROVE  Audit!Next
<1> DEFINE d == selection[s].attempt
<1>1. d \in Decisions /\ rows[d].state # "absent" /\ pc[s] = "flushing"
  BY DEF FlushAcked, CommitFails, FailClosed, LoopHoldsDecision, HeldDecision
<1>2. (rows' = [rows EXCEPT ![d].state = "committed"] \/ rows' = rows) /\ calls' = calls
      /\ selection' = selection
  BY DEF FlushAcked, CommitFails, history
<1>3. \A t \in Sessions \ {s} : (Waiting(t)' <=> Waiting(t)) /\ selection'[t] = selection[t]
  BY OtherWaits DEF FailClosed, Request
<1>4. Waiting(s)' => Waiting(s)
  BY <1>1, <1>2 DEF Waiting
<1>5. Awaited' \in {Awaited, Awaited \ {d}}
  <2>1. CASE Waiting(s)'
    BY <1>2, <1>3, <1>4, <2>1 DEF Awaited
  <2>2. CASE ~Waiting(s)'
    BY <1>1, <1>3, <2>2, AwaitedWithout DEF Accounted
  <2>3. QED  BY <2>1, <2>2
<1> HIDE DEF d
<1>6. QED  BY <1>1, <1>2, <1>5, CommittingStep DEF FailClosed

LEMMA SelectStep ==
  ASSUME FailClosed, Accounted, NEW s \in Sessions, SelectModel(s)
  PROVE  Audit!Next
<1>0. TypeOK /\ HeldDecision(s) /\ at[s] \in Keys /\ pc[s] = "request" /\ calls' = calls
  BY DEF SelectModel, FailClosed, LoopHoldsDecision, HeldDecision, history
<1>1. PICK st : st = GetOrCreateRequestState(s, at[s])
  OBVIOUS
<1>2. PICK new, route : Selects(s, st, new, route)
  BY <1>0, <1>1, SelectModelSelects
<1>3. PICK d \in Decisions : d = <<s, st.requestId, st.attemptCount>>
  BY <1>2 DEF Selects
<1>4. InsertDecision(d, route) /\ selection'[s].attempt = d /\ MayCreate(s, at[s])
  BY <1>2, <1>3 DEF Selects, SetState
<1>5. rows[d].state = "absent"
  BY <1>0, <1>1, <1>3, <1>4, SelectedIsNew DEF Accounted
<1>6. ASSUME NEW c \in calls  PROVE c.attempt # d
  <2>1. rows[c.attempt] = [state |-> "committed", route |-> c.route]
    BY DEF CallsAreCommitted, FailClosed
  <2>2. rows[c.attempt].state = "committed"
    BY <2>1
  <2>3. QED  BY <1>5, <2>2
<1>7. d \notin Called /\ Called' = Called
  BY <1>0, <1>6 DEF Called
<1>8. rows'[d].state = "pending" /\ \A e \in Decisions \ {d} : rows'[e] = rows[e]
  BY <1>0, <1>4, <1>5 DEF InsertDecision, TypeOK, StorageTypeOK
<1>9. AuditPhase[d] = "none" /\ AuditPhase' = [AuditPhase EXCEPT ![d] = "pending"]
  BY <1>5, <1>7, <1>8 DEF AuditPhase, PhaseOf
<1>10. \A t \in Sessions \ {s} : (Waiting(t)' <=> Waiting(t)) /\ selection'[t] = selection[t]
  BY <1>0, OtherWaits DEF Request
<1>11. ~Waiting(s)
  BY <1>0 DEF Waiting
<1>12. Awaited' \in {Awaited, Awaited \cup {d}}
  BY <1>4, <1>10, <1>11 DEF Awaited
<1>13. Audit!Record(d)
  BY <1>9, <1>12 DEF Audit!Record
<1>14. QED  BY <1>13 DEF Audit!Next

LEMMA DispatchStep ==
  ASSUME FailClosed, Accounted, NEW s \in Sessions, Dispatch(s)
  PROVE  Audit!Next
<1> DEFINE d == selection[s].attempt
<1>0. TypeOK /\ HeldDecision(s) /\ Current(s)
  BY DEF FailClosed, Accounted, LoopHoldsDecision
<1>1. d \in Decisions /\ d \notin Called /\ selection[s].route \in Routes
  BY <1>0, DispatchMoves
<1>2. PICK c : c.attempt = d /\ calls' = calls \cup {c}
  <2> DEFINE call == [key |-> at[s], attempt |-> d, route |-> selection[s].route,
                      limit |-> requestStates[s][at[s]].maxAttempts,
                      sticky |-> ~requestStates[s][at[s]].afterPartialOutput]
  <2>1. calls' = calls \cup {call}
    BY <1>0, DispatchMoves
  <2>2. call.attempt = d
    OBVIOUS
  <2> HIDE DEF call
  <2>3. QED  BY <2>1, <2>2
<1>3. /\ pc[s] = "selected" /\ pc'[s] = "streaming" /\ selection' = selection /\ rows' = rows
  BY <1>0 DEF Dispatch, MoveTo, TypeOK, LoopTypeOK
<1>4. rows[d].state = "committed"
  BY <1>0, <1>3 DEF HeldDecision
<1>5. Called' = Called \cup {d}
  BY <1>2 DEF Called
<1>6. AuditPhase[d] = "committed"
  BY <1>1, <1>4 DEF AuditPhase, PhaseOf
<1>7. AuditPhase' = [AuditPhase EXCEPT ![d] = "called"]
  BY <1>1, <1>3, <1>5 DEF AuditPhase, PhaseOf
<1>8. \A t \in Sessions \ {s} : (Waiting(t)' <=> Waiting(t)) /\ selection'[t] = selection[t]
  BY <1>0, OtherWaits DEF Request
<1>9. ~Waiting(s)'
  BY <1>3 DEF Waiting
<1>10. Awaited' = Awaited \ {d}
  BY <1>3, <1>8, <1>9, AwaitedWithout DEF Accounted
<1>11. d \in Awaited
  BY <1>1, <1>3 DEF Awaited, Waiting
<1>12. Audit!Call(d)
  BY <1>6, <1>7, <1>10, <1>11 DEF Audit!Call
<1>13. QED  BY <1>1, <1>12 DEF Audit!Next

\* Any other handler at most gives a decision up.
LEMMA OtherSteps ==
  ASSUME FailClosed, NEW s \in Sessions, Request(s) \/ Cleanup(s),
         ~SelectModel(s), ~FlushAcked(s), ~CommitFails(s), ~Dispatch(s)
  PROVE  Audit!Next
<1>1. UNCHANGED rows /\ UNCHANGED calls
  BY DEF Request, PreStep, ClassifyStep, SelectModelFails, FlushFailed, Abandon,
     PartialOutput, CloseStream, CloseStreamFails, RequestError, Cleanup, StepEnd, TurnEnd,
     EarlyTurnEnd, SessionDispose, SessionOpen, storage, history
<1>2. \A t \in Sessions \ {s} : (Waiting(t)' <=> Waiting(t)) /\ selection'[t] = selection[t]
  BY OtherWaits DEF FailClosed
<1>3. UNCHANGED selection
  BY DEF Request, PreStep, ClassifyStep, SelectModelFails, FlushFailed, Abandon,
     PartialOutput, CloseStream, CloseStreamFails, RequestError, Cleanup, StepEnd, TurnEnd,
     EarlyTurnEnd, SessionDispose, SessionOpen, loop
<1>4. Waiting(s)' => Waiting(s)
  <2>1. CASE CloseStream(s) \/ RequestError(s)
    <3>1. \E stage \in {"request", "failed", "done"} : MoveTo(s, stage)
      BY <2>1, Zenon DEF CloseStream, RequestError
    <3>2. QED  BY <3>1 DEF MoveTo, Waiting, FailClosed, TypeOK, LoopTypeOK
  <2>2. CASE ~CloseStream(s) /\ ~RequestError(s)
    <3>1. pc'[s] \in {"classifying", "request", "done", "failed", "idle"} \/ pc' = pc
      BY <2>2 DEF Request, PreStep, ClassifyStep, SelectModelFails, FlushFailed, Abandon,
         PartialOutput, CloseStreamFails, Cleanup, StepEnd, TurnEnd, EarlyTurnEnd,
         SessionDispose, SessionOpen, loop, MoveTo, FailClosed, TypeOK, LoopTypeOK
    <3>2. QED  BY <1>3, <3>1 DEF Waiting
  <2>3. QED  BY <2>1, <2>2
<1>5. Audit!GiveUp
  BY <1>1, <1>2, <1>3, <1>4, PhaseKept, AwaitedKept DEF Audit!GiveUp
<1>6. QED  BY <1>5 DEF Audit!Next

LEMMA SystemStep ==
  ASSUME FailClosed, Reconcile \/ (\E d \in Decisions : Persist(d)) \/ UpdateSettings \/ Crash
                     \/ Restart \/ UNCHANGED vars
  PROVE  Audit!Next
<1>1. CASE ReconcileAcked
  <2> DEFINE d == reconciling.current
  <2>1. d \in Decisions /\ calls' = calls /\ UNCHANGED loop
        /\ rows' = [rows EXCEPT ![d].state = IF @ = "pending" THEN "committed" ELSE @]
    BY <1>1 DEF ReconcileAcked, FailClosed, TypeOK, ProcessTypeOK, history
  <2>2. Awaited' = Awaited
    BY <2>1 DEF loop, Awaited, Waiting
  <2> HIDE DEF d
  <2>3. CASE rows[d].state = "pending"
    <3>1. rows' = [rows EXCEPT ![d].state = "committed"]
      BY <2>1, <2>3
    <3>2. QED  BY <2>1, <2>2, <2>3, <3>1, CommitStep DEF Audit!Next, FailClosed
  <2>4. CASE rows[d].state # "pending"
    <3>1. \A e \in Decisions : rows'[e].state = rows[e].state
      BY <2>1, <2>4 DEF FailClosed, TypeOK, StorageTypeOK, Row
    <3>2. Audit!GiveUp
      BY <2>1, <2>2, <3>1, PhaseKept DEF Audit!GiveUp
    <3>3. QED  BY <3>2 DEF Audit!Next
  <2>5. QED  BY <2>3, <2>4
<1>2. CASE ~ReconcileAcked
  <2>1. UNCHANGED rows /\ calls' = calls
    BY <1>2, SystemKeepsAttempts DEF Reconcile, ReconcileAppend, ReconcileFailed, Persist,
       UpdateSettings, Crash, Restart, vars, storage
  <2>2. \A t \in Sessions : Waiting(t)' => Waiting(t) /\ selection'[t] = selection[t]
    <3>1. CASE Crash
      BY <3>1 DEF Crash, Waiting
    <3>2. CASE ~Crash
      <4>1. UNCHANGED loop
        BY <1>2, <3>2 DEF Reconcile, ReconcileAppend, ReconcileFailed, Persist, UpdateSettings,
           Restart, vars
      <4>2. QED  BY <4>1 DEF loop, Waiting
    <3>3. QED  BY <3>1, <3>2
  <2>3. Audit!GiveUp
    BY <2>1, <2>2, PhaseKept, AwaitedKept DEF Audit!GiveUp
  <2>4. QED  BY <2>3 DEF Audit!Next
<1>3. QED  BY <1>1, <1>2

LEMMA AuditInit == Init => Audit!Init
BY DEF Init, Audit!Init, AuditPhase, PhaseOf, Called, NoRow, Awaited, Waiting

LEMMA AuditNext == FailClosed /\ Accounted /\ [Next]_vars => Audit!Next
<1> SUFFICES ASSUME FailClosed, Accounted, [Next]_vars  PROVE Audit!Next
  OBVIOUS
<1>1. ASSUME NEW s \in Sessions, Request(s) \/ Cleanup(s)  PROVE Audit!Next
  BY <1>1, SelectStep, FlushStep, DispatchStep, OtherSteps
<1>2. QED  BY <1>1, SystemStep DEF Next

\* The plugin implements AuditedCall: what it does to decisions, across crashes and
\* reconciliation, is to record, commit, call once while awaited, or give up.
THEOREM CallsAreAudited == Spec => AuditedCalls
<1>1. Init => Audit!Init  BY AuditInit
<1>2. FailClosed /\ Accounted /\ [Next]_vars => [Audit!Next]_<<AuditPhase, Awaited>>
  BY AuditNext
<1>3. QED  BY <1>1, <1>2, AlwaysAccounted, PTL DEF Spec, AuditedCalls, Audit!Spec

-----------------------------------------------------------------------------
(* One step, when cleanup keeps its order.                                  *)

NotAfter(k, l) == k[1] < l[1] \/ (k[1] = l[1] /\ k[2] <= l[2])
Mine(s) == {c \in calls : SessionOf(c.attempt) = s /\ c.key = at[s]}
Deciding == {"request", "flushing", "selected"}
Working == Deciding \cup {"streaming", "failed"}

\* The steps of a session come one after the other; a new one starts from nothing.
Ordered(s) ==
  /\ \A k \in Keys : Present(s, k) => NotAfter(k, at[s])
  /\ \A c \in calls : SessionOf(c.attempt) = s => NotAfter(c.key, at[s])
  /\ pc[s] = "classifying" => ~Present(s, at[s]) /\ Mine(s) = {}
  /\ pc[s] = "streaming" => \A c \in Mine(s) : ~Later(c.attempt, selection[s].attempt)

\* What a request state knows of the calls of its step: whose they are and on which
\* routes, that one has shown output, how many they are.
RoutesKnown(st, own, stage, route) ==
  /\ \A c \in own : c.attempt[2] = st.requestId /\ c.limit = st.maxAttempts
  /\ stage \in Deciding => \A c \in own : c.route \in st.excludedRoutes
  /\ stage \in {"flushing", "selected"} =>
       /\ route \notin st.excludedRoutes
       /\ route # NoRoute => st.selectedRoute = route
  /\ stage \in {"streaming", "failed"} =>
       /\ \A c \in own : c.route \in st.excludedRoutes \cup {st.selectedRoute}
       /\ st.selectedRoute \in Routes
OutputKnown(st, own, shown, stage) ==
  /\ \A c \in own : c.attempt \in shown => st.partialOutput
  /\ stage \in Deciding => (st.partialOutput => st.afterPartialOutput)
NumberKnown(st, number, stage) ==
  /\ stage = "request" => number <= st.attemptCount /\ st.attemptCount < st.maxAttempts
  /\ stage \in {"flushing", "selected"} =>
       /\ number < st.attemptCount /\ st.attemptCount <= st.maxAttempts
       /\ st.attemptCount = st.fallbackIndex + 1
  /\ stage \in {"streaming", "failed"} => number <= st.attemptCount

Counted(s) ==
  LET st == requestStates[s][at[s]] IN
  /\ Present(s, at[s])
  /\ RoutesKnown(st, Mine(s), pc[s], selection[s].route)
  /\ OutputKnown(st, Mine(s), delivered, pc[s])
  /\ NumberKnown(st, Cardinality(Mine(s)), pc[s])

InOrder ==
  /\ NoRouteTriedTwice /\ NoFallbackAfterOutput /\ StepCallsBounded /\ NotDispatchedIsTrue
  /\ IsFiniteSet(calls)
  /\ \A s \in Sessions : Ordered(s) /\ (s \in live /\ pc[s] \in Working => Counted(s))

Bounded == ~CleanupMayReorder => InOrder

-----------------------------------------------------------------------------
(* What a request state knows, from stage to stage.                         *)

\* While a step is under way nothing but its stage changes.
LEMMA StageKnown ==
  ASSUME NEW st, NEW own, NEW shown, NEW number, NEW stage, NEW next, NEW route,
         RoutesKnown(st, own, stage, route), OutputKnown(st, own, shown, stage),
         NumberKnown(st, number, stage),
         \/ stage = "flushing" /\ next = "selected"
         \/ stage = "streaming" /\ next = "failed"
  PROVE  /\ RoutesKnown(st, own, next, route) /\ OutputKnown(st, own, shown, next)
         /\ NumberKnown(st, number, next)
<1>1. RoutesKnown(st, own, next, route)
  BY DEF RoutesKnown, Deciding
<1>2. OutputKnown(st, own, shown, next)
  BY Zenon DEF OutputKnown, Deciding
<1>3. NumberKnown(st, number, next)
  BY DEF NumberKnown
<1>4. QED  BY <1>1, <1>2, <1>3

\* A new state: nothing was called.
LEMMA NewKnown ==
  ASSUME NEW st \in RequestState, st.attemptCount = 0, ~st.partialOutput, NEW shown, NEW route
  PROVE  /\ RoutesKnown(st, {}, "request", route) /\ OutputKnown(st, {}, shown, "request")
         /\ NumberKnown(st, 0, "request")
<1>1. RoutesKnown(st, {}, "request", route)
  BY DEF RoutesKnown
<1>2. OutputKnown(st, {}, shown, "request")
  BY Zenon DEF OutputKnown
<1>3. NumberKnown(st, 0, "request")
  BY DEF NumberKnown, RequestState
<1>4. QED  BY <1>1, <1>2, <1>3

LEMMA BegunKnown ==
  ASSUME NEW st \in RequestState, NEW own, NEW shown, NEW number \in Nat, NEW new, NEW before,
         NEW route \in (Routes \ st.excludedRoutes) \cup {NoRoute}, Begun(new, st, route),
         RoutesKnown(st, own, "request", before), OutputKnown(st, own, shown, "request"),
         NumberKnown(st, number, "request")
  PROVE  /\ RoutesKnown(new, own, "flushing", route) /\ OutputKnown(new, own, shown, "flushing")
         /\ NumberKnown(new, number, "flushing")
<1>1. RoutesKnown(new, own, "flushing", route)
  BY DEF RoutesKnown, Begun, Deciding, RequestState
<1>2. OutputKnown(new, own, shown, "flushing")
  <2>1. new.partialOutput = st.partialOutput /\ new.afterPartialOutput = st.afterPartialOutput
    BY DEF Begun
  <2>2. QED  BY <2>1, Zenon DEF OutputKnown, Deciding
<1>3. NumberKnown(new, number, "flushing")
  BY DEF NumberKnown, Begun, RequestState
<1>4. QED  BY <1>1, <1>2, <1>3

\* A call that is made is one of its step, on a route the state holds.
LEMMA CalledKnown ==
  ASSUME NEW st \in RequestState, NEW own, NEW shown, NEW number \in Nat,
         NEW route \in Routes, NEW c, c.attempt[2] = st.requestId, c.limit = st.maxAttempts,
         c.route = route, c.attempt \notin shown,
         RoutesKnown(st, own, "selected", route), OutputKnown(st, own, shown, "selected"),
         NumberKnown(st, number, "selected")
  PROVE  /\ RoutesKnown(st, own \cup {c}, "streaming", route)
         /\ OutputKnown(st, own \cup {c}, shown, "streaming")
         /\ NumberKnown(st, number + 1, "streaming")
<1>1. RoutesKnown(st, own \cup {c}, "streaming", route)
  BY DEF RoutesKnown, Deciding
<1>2. OutputKnown(st, own \cup {c}, shown, "streaming")
  BY Zenon DEF OutputKnown, Deciding
<1>3. NumberKnown(st, number + 1, "streaming")
  BY DEF NumberKnown, RequestState
<1>4. QED  BY <1>1, <1>2, <1>3

LEMMA ExcludedKnown ==
  ASSUME NEW st \in RequestState, NEW own, NEW shown, NEW number \in Nat, NEW route,
         CanRetry(st), st.partialOutput => st.afterPartialOutput,
         RoutesKnown(st, own, "failed", route), OutputKnown(st, own, shown, "failed"),
         NumberKnown(st, number, "failed")
  PROVE  LET new == ExcludeRoute(st)
         IN  /\ RoutesKnown(new, own, "request", route)
             /\ OutputKnown(new, own, shown, "request")
             /\ NumberKnown(new, number, "request")
<1>1. PICK new : new = ExcludeRoute(st)
  OBVIOUS
<1>2. /\ new.requestId = st.requestId /\ new.attemptCount = st.attemptCount
      /\ new.maxAttempts = st.maxAttempts
      /\ new.excludedRoutes = st.excludedRoutes \cup ({st.selectedRoute} \ {NoRoute})
  BY <1>1, ExcludeRouteIs
<1>3. new.afterPartialOutput = st.afterPartialOutput /\ new.partialOutput = st.partialOutput
  BY <1>1, ExcludeRouteIs
<1>4. RoutesKnown(new, own, "request", route)
  <2>1. st.selectedRoute # NoRoute
    BY DEF RoutesKnown
  <2>2. QED  BY <1>2, <2>1 DEF RoutesKnown, Deciding
<1>5. OutputKnown(new, own, shown, "request")
  BY <1>3, Zenon DEF OutputKnown
<1>6. NumberKnown(new, number, "request")
  BY <1>2 DEF NumberKnown, CanRetry, RequestState
<1>7. QED  BY <1>1, <1>4, <1>5, <1>6

-----------------------------------------------------------------------------
(* The steps of a session keep their order.                                 *)

LEMMA AtType ==
  ASSUME TypeOK, NEW s \in Sessions
  PROVE  /\ at[s] \in (1..MaxTurn) \X (0..MaxStep) /\ at[s][1] \in Nat /\ at[s][2] \in Nat
         /\ NotAfter(at[s], at[s])
BY DEF TypeOK, LoopTypeOK, NotAfter

\* States may go, and the state of the current step may come.
LEMMA OrderedKept ==
  ASSUME TypeOK, NEW s \in Sessions, Ordered(s), at'[s] = at[s], CallsOf(s)' = CallsOf(s),
         \A k \in Keys :
           Present(s, k)' => Present(s, k) \/ (k = at[s] /\ pc'[s] # "classifying"),
         pc'[s] = "classifying" => pc[s] = "classifying" /\ at[s] \in Keys,
         pc'[s] = "streaming" => pc[s] = "streaming" /\ selection'[s] = selection[s]
  PROVE  Ordered(s)' /\ Mine(s)' = Mine(s)
<1>1. Mine(s)' = Mine(s) /\ \A c \in calls' : SessionOf(c.attempt) = s => c \in calls
  BY DEF Mine, CallsOf
<1>2. \A k \in Keys : Present(s, k)' => NotAfter(k, at'[s])
  BY AtType DEF Ordered
<1>3. \A c \in calls' : SessionOf(c.attempt) = s => NotAfter(c.key, at'[s])
  BY <1>1 DEF Ordered
<1>4. pc'[s] = "classifying" => ~Present(s, at[s])' /\ Mine(s)' = {}
  <2>1. pc'[s] = "classifying" => ~Present(s, at[s]) /\ Mine(s) = {} /\ at[s] \in Keys
    BY DEF Ordered
  <2>2. QED  BY <1>1, <2>1 DEF Present
<1>5. pc'[s] = "streaming" => \A c \in Mine(s)' : ~Later(c.attempt, selection'[s].attempt)
  BY <1>1 DEF Ordered
<1>6. QED  BY <1>1, <1>2, <1>3, <1>4, <1>5 DEF Ordered, Present

\* A session moves on to its next step, or to its next turn.
LEMMA OrderedForward ==
  ASSUME TypeOK, NEW s \in Sessions, Ordered(s), UNCHANGED calls,
         \A k \in Keys : Present(s, k)' => Present(s, k),
         \/ /\ at'[s] = <<at[s][1], at[s][2] + 1>> /\ pc'[s] = "classifying" /\ at'[s] \in Keys
            /\ UNCHANGED requestStates
         \/ at'[s] = <<at[s][1] + 1, 0>> /\ pc'[s] = "idle"
  PROVE  Ordered(s)'
<1>1. at[s][1] \in Nat /\ at[s][2] \in Nat
  BY AtType
<1>2. /\ \A k \in Keys : NotAfter(k, at[s]) => NotAfter(k, at'[s])
      /\ \A k \in Keys : NotAfter(k, at[s]) => k # at'[s]
  BY <1>1 DEF NotAfter, Keys
<1>3. \A c \in calls : c.key \in Keys
  BY DEF TypeOK, HistoryTypeOK
<1>4. /\ \A k \in Keys : Present(s, k)' => NotAfter(k, at'[s])
      /\ \A c \in calls' : SessionOf(c.attempt) = s => NotAfter(c.key, at'[s])
  BY <1>2, <1>3 DEF Ordered
<1>5. ASSUME pc'[s] = "classifying"  PROVE ~Present(s, at[s])' /\ Mine(s)' = {}
  <2>1. at'[s] \in Keys /\ ~Present(s, at'[s]) /\ requestStates' = requestStates
    BY <1>2, <1>5 DEF Ordered
  <2>2. Mine(s)' = {}
    BY <1>2, <1>3 DEF Ordered, Mine
  <2>3. QED  BY <2>1, <2>2 DEF Present
<1>6. pc'[s] # "streaming"
  OBVIOUS
<1>7. QED  BY <1>4, <1>5, <1>6 DEF Ordered, Present

\* What the calls of a step have in common with the one that is made now.
LEMMA DispatchCalls ==
  ASSUME TypeOK, LoopHoldsDecision, NEW s \in Sessions, Current(s), Dispatch(s)
  PROVE  \E c : /\ calls' = calls \cup {c} /\ c.key = at[s] /\ at[s] \in Keys
                /\ c.attempt = selection[s].attempt /\ c.attempt \in Decisions
                /\ c.attempt \notin Called /\ SessionOf(c.attempt) = s
                /\ c.route = selection[s].route /\ c.route \in Routes
                /\ c.limit = requestStates[s][at[s]].maxAttempts
                /\ c.sticky = ~requestStates[s][at[s]].afterPartialOutput
                /\ Present(s, at[s]) =>
                     c.attempt = DecisionId(s, requestStates[s][at[s]])
<1> DEFINE c == [key |-> at[s], attempt |-> selection[s].attempt, route |-> selection[s].route,
                 limit |-> requestStates[s][at[s]].maxAttempts,
                 sticky |-> ~requestStates[s][at[s]].afterPartialOutput]
<1>1. HeldDecision(s)
  BY DEF LoopHoldsDecision
<1>2. /\ calls' = calls \cup {c} /\ at[s] \in Keys /\ selection[s].attempt \in Decisions
      /\ selection[s].route \in Routes /\ selection[s].attempt \notin Called
  BY <1>1, DispatchMoves
<1>3. /\ c.key = at[s] /\ c.attempt = selection[s].attempt /\ c.route = selection[s].route
      /\ c.limit = requestStates[s][at[s]].maxAttempts
      /\ c.sticky = ~requestStates[s][at[s]].afterPartialOutput
  OBVIOUS
<1>4. /\ SessionOf(selection[s].attempt) = s
      /\ Present(s, at[s]) => selection[s].attempt = DecisionId(s, requestStates[s][at[s]])
  BY DEF Dispatch, Current
<1> HIDE DEF c
<1>5. c.sticky = ~requestStates[s][at[s]].afterPartialOutput
  BY <1>3
<1>6. /\ c.key = at[s] /\ at[s] \in Keys
      /\ c.attempt = selection[s].attempt /\ c.attempt \in Decisions
      /\ c.attempt \notin Called /\ SessionOf(c.attempt) = s
      /\ c.route = selection[s].route /\ c.route \in Routes
      /\ c.limit = requestStates[s][at[s]].maxAttempts
      /\ Present(s, at[s]) => c.attempt = DecisionId(s, requestStates[s][at[s]])
  BY <1>2, <1>3, <1>4
<1>7. QED  BY <1>2, <1>5, <1>6, Zenon

\* The attempts of a step are numbered as they are made.
LEMMA DispatchIsLatest ==
  ASSUME TypeOK, CallsAreCommitted, NEW s \in Sessions, at[s] \in Keys, Fresh(s), Present(s, at[s]),
         NEW c \in Mine(s), c.attempt[2] = requestStates[s][at[s]].requestId,
         requestStates[s][at[s]].attemptCount = requestStates[s][at[s]].fallbackIndex + 1
  PROVE  ~Later(c.attempt, DecisionId(s, requestStates[s][at[s]]))
<1>1. c \in calls /\ c.attempt \in Decisions /\ SessionOf(c.attempt) = s
  BY DEF Mine, TypeOK, HistoryTypeOK
<1>2. rows[c.attempt] = [state |-> "committed", route |-> c.route]
  BY <1>1 DEF CallsAreCommitted
<1>3. c.attempt[3] < requestStates[s][at[s]].attemptCount
  <2>1. rows[c.attempt].state # "absent"
    BY <1>2
  <2>2. QED  BY <1>1, <2>1 DEF Fresh
<1>4. c.attempt[3] \in Nat /\ requestStates[s][at[s]].fallbackIndex \in Nat
      /\ requestStates[s][at[s]].requestId \in Nat
  BY <1>1 DEF Decisions, TypeOK, MemoryTypeOK, RequestState
<1>5. QED  BY <1>3, <1>4 DEF Later, DecisionId

LEMMA OrderedOfSession ==
  ASSUME TypeOK, LoopHoldsDecision, CallsAreCommitted, NEW s \in Sessions, Fresh(s), Current(s),
         Ordered(s), s \in live /\ pc[s] \in Working => Counted(s), Request(s) \/ Cleanup(s)
  PROVE  Ordered(s)'
<1>0. HeldDecision(s) /\ (pc[s] # "idle" => at[s] \in Keys)
  BY DEF LoopHoldsDecision, HeldDecision
<1>1. CASE PreStep(s)
  <2>1. UNCHANGED <<calls, requestStates>>
    BY <1>1 DEF PreStep, history, memory
  <2>2. pc'[s] = "classifying" /\ at'[s] = <<at[s][1], at[s][2] + 1>> /\ at'[s] \in Keys
    BY <1>1, AtType DEF PreStep, MoveTo, Keys, TypeOK, LoopTypeOK
  <2>3. QED  BY <2>1, <2>2, OrderedForward DEF Present
<1>2. CASE TurnEnd(s)
  <2>1. /\ UNCHANGED calls /\ \A k \in Keys : Present(s, k)' => Present(s, k)
    BY <1>2, DeleteSteady, NoStateType DEF TurnEnd, history, Present
  <2>2. pc'[s] = "idle" /\ at'[s] = <<at[s][1] + 1, 0>>
    BY <1>2 DEF TurnEnd, TypeOK, LoopTypeOK
  <2>3. QED  BY <2>1, <2>2, OrderedForward
<1>3. CASE ClassifyStep(s) \/ SelectModel(s) \/ SelectModelFails(s) \/ RequestError(s)
  <2>1. at[s] \in Keys /\ UNCHANGED <<at, calls>>
    BY <1>0, <1>3 DEF ClassifyStep, SelectModel, SelectModelFails, RequestError, history
  <2>2. pc'[s] \in {"request", "flushing", "done"}
    <3>1. \E stage \in {"request", "flushing", "done"} : MoveTo(s, stage)
      BY <1>3, Zenon DEF ClassifyStep, SelectModel, SelectModelFails, RequestError
    <3>2. QED  BY <3>1 DEF MoveTo, TypeOK, LoopTypeOK
  <2>3. UNCHANGED requestStates \/ \E new : SetState(s, at[s], new)
    <3>1. CASE ClassifyStep(s)
      BY <3>1 DEF ClassifyStep
    <3>2. CASE SelectModel(s)
      BY <1>0, <3>2, SelectModelSelects DEF Selects
    <3>3. CASE SelectModelFails(s)
      BY <1>0, <3>3, SelectModelFailsBegins
    <3>4. CASE RequestError(s)
      BY <1>0, <3>4, RequestErrorIs
    <3>5. QED  BY <1>3, <3>1, <3>2, <3>3, <3>4
  <2>4. \A k \in Keys : Present(s, k)' => Present(s, k) \/ k = at[s]
    BY <2>1, <2>3, SetStateIs DEF Present
  <2>5. QED  BY <2>1, <2>2, <2>4, OrderedKept DEF CallsOf
<1>4. CASE FlushAcked(s) \/ FlushFailed(s) \/ CommitFails(s) \/ Abandon(s) \/ CloseStream(s)
           \/ CloseStreamFails(s)
  <2>1. UNCHANGED <<at, calls, requestStates>>
    BY <1>4 DEF FlushAcked, FlushFailed, CommitFails, Abandon, CloseStream, CloseStreamFails,
       memory, history
  <2>2. pc'[s] \in {"selected", "failed", "done"}
    <3>1. \E stage \in {"selected", "failed", "done"} : MoveTo(s, stage)
      BY <1>4, Zenon DEF FlushAcked, FlushFailed, CommitFails, Abandon, CloseStream,
         CloseStreamFails
    <3>2. QED  BY <3>1 DEF MoveTo, TypeOK, LoopTypeOK
  <2>3. QED  BY <2>1, <2>2, OrderedKept DEF CallsOf, Present
<1>5. CASE Dispatch(s)
  <2>1. PICK c : /\ calls' = calls \cup {c} /\ c.key = at[s] /\ c.attempt = selection[s].attempt
                 /\ SessionOf(c.attempt) = s /\ at[s] \in Keys /\ c.attempt \in Decisions
                 /\ Present(s, at[s]) => c.attempt = DecisionId(s, requestStates[s][at[s]])
    BY <1>5, DispatchCalls
  <2>2. pc[s] = "selected" /\ s \in live
    BY <1>5 DEF Dispatch
  <2>3. /\ Present(s, at[s])
        /\ \A e \in Mine(s) : e.attempt[2] = requestStates[s][at[s]].requestId
        /\ requestStates[s][at[s]].attemptCount = requestStates[s][at[s]].fallbackIndex + 1
    BY <2>2 DEF Counted, RoutesKnown, NumberKnown, Working, Deciding
  <2>4. \A e \in Mine(s) : ~Later(e.attempt, c.attempt)
    BY <2>1, <2>3, DispatchIsLatest
  <2>5. ~Later(c.attempt, c.attempt)
    BY <2>1 DEF Later, Decisions
  <2>6. UNCHANGED <<at, selection, requestStates>> /\ pc'[s] = "streaming"
    BY <1>5 DEF Dispatch, memory, MoveTo, TypeOK, LoopTypeOK
  <2>7. \A e \in calls' : SessionOf(e.attempt) = s => NotAfter(e.key, at'[s])
    BY <2>1, <2>6, AtType DEF Ordered
  <2>8. \A e \in Mine(s)' : ~Later(e.attempt, selection'[s].attempt)
    BY <2>1, <2>4, <2>5, <2>6 DEF Mine
  <2>9. QED  BY <2>6, <2>7, <2>8 DEF Ordered, Present
<1>6. CASE PartialOutput(s)
  <2>1. LoopKept(s) /\ UNCHANGED calls /\ pc[s] = "streaming" /\ at[s] \in Keys
    BY <1>0, <1>6 DEF PartialOutput, LoopKept, loop
  <2>2. \A k \in Keys : Present(s, k)' => Present(s, k)
    BY <1>6, <2>1 DEF PartialOutput, Present, TypeOK, MemoryTypeOK, RequestState
  <2>3. QED  BY <2>1, <2>2, OrderedKept DEF LoopKept, CallsOf
<1>7. CASE StepEnd(s) \/ EarlyTurnEnd(s) \/ SessionDispose(s) \/ SessionOpen(s)
  <2>1. UNCHANGED requestStates \/ \E keys : DeleteStates(s, keys)
    BY <1>7 DEF StepEnd, EarlyTurnEnd, SessionDispose, SessionOpen, memory
  <2>2. \A k \in Keys : Present(s, k)' => Present(s, k)
    BY <2>1, DeleteSteady, NoStateType DEF Present
  <2>3. UNCHANGED <<at, calls, selection>> /\ (pc'[s] = "idle" \/ pc'[s] = pc[s])
    BY <1>7 DEF StepEnd, EarlyTurnEnd, SessionDispose, SessionOpen, loop, history, MoveTo, TypeOK,
       LoopTypeOK
  <2>4. QED  BY <1>0, <2>2, <2>3, OrderedKept DEF CallsOf
<1>8. QED
  BY <1>1, <1>2, <1>3, <1>4, <1>5, <1>6, <1>7 DEF Request, Cleanup

-----------------------------------------------------------------------------
(* The request state knows the calls of its step.                           *)

\* The calls a session has made and shown, as a state st of its step sees them.
Knows(s, st, stage) ==
  /\ RoutesKnown(st, Mine(s)', stage, selection'[s].route)
  /\ OutputKnown(st, Mine(s)', delivered', stage)
  /\ NumberKnown(st, Cardinality(Mine(s)'), stage)

LEMMA KnowsCounted ==
  ASSUME NEW s \in Sessions, Present(s, at[s])', NEW st, NEW stage,
         requestStates'[s][at'[s]] = st, pc'[s] = stage, Knows(s, st, stage)
  PROVE  Counted(s)'
BY DEF Counted, Knows

LEMMA MineFinite ==
  ASSUME IsFiniteSet(calls), NEW s \in Sessions
  PROVE  IsFiniteSet(Mine(s)) /\ Cardinality(Mine(s)) \in Nat
BY FS_Subset, FS_CardinalityType DEF Mine

\* Classification makes the state; nothing of the step was called yet.
LEMMA CountedByClassify ==
  ASSUME TypeOK, NEW s \in Sessions, HeldDecision(s), Ordered(s), ClassifyStep(s)
  PROVE  Counted(s)'
<1>1. at[s] \in Keys /\ pc[s] = "classifying" /\ UNCHANGED <<at, calls, selection, delivered>>
  BY DEF ClassifyStep, HeldDecision, history
<1>2. PICK st : st = GetOrCreateRequestState(s, at[s])
  OBVIOUS
<1>3. SetState(s, at[s], st) /\ pc'[s] = "request"
  BY <1>2 DEF ClassifyStep, MoveTo, TypeOK, LoopTypeOK
<1>4. requestStates'[s][at[s]] = st /\ MayCreate(s, at[s])
  BY <1>1, <1>3, SetStateIs
<1>5. ~Present(s, at[s]) /\ Mine(s) = {}
  BY <1>1 DEF Ordered
<1>6. st \in RequestState /\ st.requestId # 0 /\ st.attemptCount = 0 /\ ~st.partialOutput
  BY <1>1, <1>2, <1>4, <1>5, GetOrCreateIs
<1>7. Mine(s)' = {} /\ Cardinality({}) = 0
  BY <1>1, <1>5, FS_EmptySet DEF Mine
<1>8. Knows(s, st, "request")
  BY <1>6, <1>7, NewKnown DEF Knows
<1>9. Present(s, at[s])'
  BY <1>1, <1>4, <1>6 DEF Present
<1>10. QED  BY <1>1, <1>3, <1>4, <1>8, <1>9, KnowsCounted

LEMMA CountedBySelect ==
  ASSUME TypeOK, NEW s \in Sessions, HeldDecision(s), IsFiniteSet(calls), Counted(s), s \in live,
         SelectModel(s)
  PROVE  Counted(s)'
<1>1. at[s] \in Keys /\ pc[s] = "request" /\ UNCHANGED <<at, calls, delivered>>
  BY DEF SelectModel, HeldDecision, history
<1>2. PICK st : st = GetOrCreateRequestState(s, at[s])
  OBVIOUS
<1>3. PICK new, route : Selects(s, st, new, route)
  BY <1>2, SelectModelSelects
<1>4. /\ SetState(s, at[s], new) /\ Begun(new, st, route) /\ pc'[s] = "flushing"
      /\ route \in (Routes \ st.excludedRoutes) \cup {NoRoute} /\ selection'[s].route = route
  BY <1>3 DEF Selects
<1>5. requestStates'[s][at[s]] = new /\ MayCreate(s, at[s])
  BY <1>1, <1>4, SetStateIs
<1>6. /\ Present(s, at[s])
      /\ RoutesKnown(requestStates[s][at[s]], Mine(s), "request", selection[s].route)
      /\ OutputKnown(requestStates[s][at[s]], Mine(s), delivered, "request")
      /\ NumberKnown(requestStates[s][at[s]], Cardinality(Mine(s)), "request")
  BY <1>1 DEF Counted
<1>7. st \in RequestState /\ st.requestId # 0 /\ st = requestStates[s][at[s]]
  BY <1>1, <1>2, <1>5, <1>6, GetOrCreateIs
<1>8. Mine(s)' = Mine(s) /\ Cardinality(Mine(s)) \in Nat
  BY <1>1, MineFinite DEF Mine
<1>9. Knows(s, new, "flushing")
  <2>1. PICK number : number = Cardinality(Mine(s))
    OBVIOUS
  <2>2. number \in Nat /\ NumberKnown(st, number, "request")
    BY <1>6, <1>7, <1>8, <2>1
  <2>3. /\ RoutesKnown(new, Mine(s), "flushing", route)
        /\ OutputKnown(new, Mine(s), delivered, "flushing")
        /\ NumberKnown(new, number, "flushing")
    BY <1>4, <1>6, <1>7, <2>2, BegunKnown
  <2>4. QED  BY <1>1, <1>4, <1>8, <2>1, <2>3 DEF Knows
<1>10. Present(s, at[s])'
  BY <1>1, <1>4, <1>5, <1>7 DEF Present, Begun
<1>11. QED  BY <1>1, <1>4, <1>5, <1>9, <1>10, KnowsCounted

\* The flush and the end of the stream only move the step on.
LEMMA CountedByStage ==
  ASSUME TypeOK, NEW s \in Sessions, Counted(s),
         UNCHANGED <<requestStates, at, selection, calls, delivered>>,
         \/ pc[s] = "flushing" /\ pc'[s] = "selected"
         \/ pc[s] = "streaming" /\ pc'[s] = "failed"
  PROVE  Counted(s)'
<1>1. PICK st, stage : st = requestStates[s][at[s]] /\ stage = pc'[s]
  OBVIOUS
<1>2. Mine(s)' = Mine(s)
  BY DEF Mine
<1>3. Knows(s, st, stage)
  BY <1>1, <1>2, StageKnown DEF Counted, Knows
<1>4. Present(s, at[s])' /\ requestStates'[s][at'[s]] = st
  BY <1>1 DEF Counted, Present
<1>5. QED  BY <1>1, <1>3, <1>4, KnowsCounted

LEMMA CountedByDispatch ==
  ASSUME TypeOK, LoopHoldsDecision, NEW s \in Sessions, Current(s), Stored, IsFiniteSet(calls),
         Counted(s), Dispatch(s)
  PROVE  Counted(s)'
<1>1. PICK c : /\ calls' = calls \cup {c} /\ c.key = at[s] /\ c.attempt \notin Called
               /\ SessionOf(c.attempt) = s /\ at[s] \in Keys
               /\ c.route = selection[s].route /\ c.route \in Routes
               /\ c.limit = requestStates[s][at[s]].maxAttempts
               /\ Present(s, at[s]) => c.attempt = DecisionId(s, requestStates[s][at[s]])
  BY DispatchCalls
<1>2. pc[s] = "selected" /\ pc'[s] = "streaming"
      /\ UNCHANGED <<requestStates, at, selection, delivered>>
  BY DEF Dispatch, memory, MoveTo, TypeOK, LoopTypeOK
<1>3. PICK st : st = requestStates[s][at[s]]
  OBVIOUS
<1>4. /\ Present(s, at[s]) /\ st \in RequestState
      /\ RoutesKnown(st, Mine(s), "selected", c.route)
      /\ OutputKnown(st, Mine(s), delivered, "selected")
      /\ NumberKnown(st, Cardinality(Mine(s)), "selected")
  BY <1>1, <1>2, <1>3 DEF Counted, TypeOK, MemoryTypeOK
<1>5. c.attempt[2] = st.requestId /\ c.attempt \notin delivered
  BY <1>1, <1>3, <1>4 DEF DecisionId, Stored
<1>6. Mine(s)' = Mine(s) \cup {c} /\ c \notin Mine(s)
  BY <1>1, <1>2 DEF Mine, Called
<1>7. Cardinality(Mine(s)') = Cardinality(Mine(s)) + 1 /\ Cardinality(Mine(s)) \in Nat
  BY <1>6, MineFinite, FS_AddElement
<1>8. PICK own, number : own = Mine(s) /\ number = Cardinality(Mine(s))
  OBVIOUS
<1>9. /\ RoutesKnown(st, own \cup {c}, "streaming", c.route)
      /\ OutputKnown(st, own \cup {c}, delivered, "streaming")
      /\ NumberKnown(st, number + 1, "streaming")
  <2>1. number \in Nat /\ c.limit = st.maxAttempts /\ c.route \in Routes
        /\ RoutesKnown(st, own, "selected", c.route)
        /\ OutputKnown(st, own, delivered, "selected") /\ NumberKnown(st, number, "selected")
    BY <1>1, <1>3, <1>4, <1>7, <1>8
  <2>2. QED  BY <1>4, <1>5, <2>1, CalledKnown
<1>10. Knows(s, st, "streaming")
  BY <1>1, <1>2, <1>6, <1>7, <1>8, <1>9 DEF Knows
<1>11. Present(s, at[s])' /\ requestStates'[s][at'[s]] = st
  BY <1>2, <1>3, <1>4 DEF Present
<1>12. QED  BY <1>2, <1>10, <1>11, KnowsCounted

\* The first output is noted in the request state.
LEMMA CountedByOutput ==
  ASSUME TypeOK, NEW s \in Sessions, HeldDecision(s), Counted(s), PartialOutput(s)
  PROVE  Counted(s)'
<1>1. at[s] \in Keys /\ pc[s] = "streaming" /\ UNCHANGED <<at, calls, selection, pc>>
  BY DEF PartialOutput, HeldDecision, loop
<1>2. PICK st, new : /\ st = requestStates[s][at[s]]
                     /\ new = [st EXCEPT !.partialOutput = TRUE]
  OBVIOUS
<1>3. /\ Present(s, at[s]) /\ st \in RequestState
      /\ RoutesKnown(st, Mine(s), "streaming", selection[s].route)
      /\ NumberKnown(st, Cardinality(Mine(s)), "streaming")
  BY <1>1, <1>2 DEF Counted, TypeOK, MemoryTypeOK
<1>4. requestStates'[s][at[s]] = new
  BY <1>1, <1>2, <1>3 DEF PartialOutput, TypeOK, MemoryTypeOK
<1>5. /\ new.requestId = st.requestId /\ new.attemptCount = st.attemptCount
      /\ new.maxAttempts = st.maxAttempts /\ new.excludedRoutes = st.excludedRoutes
      /\ new.selectedRoute = st.selectedRoute
  BY <1>2, <1>3 DEF RequestState
<1>6. new.partialOutput
  BY <1>2, <1>3, Zenon DEF RequestState
<1>7. Mine(s)' = Mine(s)
  BY <1>1 DEF Mine
<1>8. PICK own : own = Mine(s)
  OBVIOUS
<1>9. RoutesKnown(new, own, "streaming", selection[s].route)
  BY <1>3, <1>5, <1>8 DEF RoutesKnown, Deciding
<1>10. OutputKnown(new, own, delivered', "streaming")
  BY <1>6, Zenon DEF OutputKnown, Deciding
<1>11. NumberKnown(new, Cardinality(own), "streaming")
  BY <1>3, <1>5, <1>8 DEF NumberKnown
<1>12. Knows(s, new, "streaming")
  BY <1>1, <1>7, <1>8, <1>9, <1>10, <1>11 DEF Knows
<1>13. Present(s, at[s])'
  BY <1>1, <1>3, <1>2, <1>4, <1>5 DEF Present
<1>14. QED  BY <1>1, <1>4, <1>12, <1>13, KnowsCounted

\* A retry excludes the route that failed.
LEMMA CountedByRetry ==
  ASSUME TypeOK, NEW s \in Sessions, HeldDecision(s), IsFiniteSet(calls), Counted(s),
         RequestError(s), pc'[s] = "request"
  PROVE  Counted(s)'
<1>1. at[s] \in Keys /\ pc[s] = "failed" /\ UNCHANGED <<at, calls, delivered, selection>>
  BY DEF RequestError, HeldDecision, history
<1>2. PICK st : st = GetOrCreateRequestState(s, at[s])
  OBVIOUS
<1>3. PICK new : new = ExcludeRoute(st)
  OBVIOUS
<1>4. /\ SetState(s, at[s], new) /\ CanRetry(st)
      /\ st.partialOutput => st.afterPartialOutput
  BY <1>2, <1>3, RequestErrorIs
<1>5. requestStates'[s][at[s]] = new /\ MayCreate(s, at[s])
  BY <1>1, <1>4, SetStateIs
<1>6. /\ Present(s, at[s])
      /\ RoutesKnown(requestStates[s][at[s]], Mine(s), "failed", selection[s].route)
      /\ OutputKnown(requestStates[s][at[s]], Mine(s), delivered, "failed")
      /\ NumberKnown(requestStates[s][at[s]], Cardinality(Mine(s)), "failed")
  BY <1>1 DEF Counted
<1>7. st \in RequestState /\ st.requestId # 0 /\ st = requestStates[s][at[s]]
  BY <1>1, <1>2, <1>5, <1>6, GetOrCreateIs
<1>8. Mine(s)' = Mine(s) /\ Cardinality(Mine(s)) \in Nat
  BY <1>1, MineFinite DEF Mine
<1>9. PICK own, number, route :
        own = Mine(s) /\ number = Cardinality(Mine(s)) /\ route = selection[s].route
  OBVIOUS
<1>10. /\ RoutesKnown(new, own, "request", route)
       /\ OutputKnown(new, own, delivered, "request")
       /\ NumberKnown(new, number, "request")
  <2>1. number \in Nat /\ RoutesKnown(st, own, "failed", route)
        /\ OutputKnown(st, own, delivered, "failed") /\ NumberKnown(st, number, "failed")
    BY <1>6, <1>7, <1>8, <1>9
  <2>2. QED  BY <1>3, <1>4, <1>7, <2>1, ExcludedKnown
<1>11. Knows(s, new, "request")
  BY <1>1, <1>8, <1>9, <1>10 DEF Knows
<1>12. new.requestId # 0
  BY <1>3, <1>7, ExcludeRouteIs
<1>13. Present(s, at[s])'
  BY <1>1, <1>5, <1>12 DEF Present
<1>14. QED  BY <1>1, <1>5, <1>11, <1>13, KnowsCounted

LEMMA CountedOfSession ==
  ASSUME TypeOK, LoopHoldsDecision, Stored, NEW s \in Sessions, Current(s), Ordered(s),
         IsFiniteSet(calls), s \in live /\ pc[s] \in Working => Counted(s), ~CleanupMayReorder,
         Request(s) \/ Cleanup(s), s \in live', pc'[s] \in Working
  PROVE  Counted(s)'
<1>0. HeldDecision(s)
  BY DEF LoopHoldsDecision
<1> USE DEF Working, Deciding
<1>1. CASE PreStep(s) \/ SelectModelFails(s) \/ FlushFailed(s) \/ CommitFails(s) \/ Abandon(s)
           \/ StepEnd(s) \/ TurnEnd(s)
  <2>1. pc'[s] \in {"classifying", "done", "idle"}
    BY <1>1 DEF PreStep, SelectModelFails, FlushFailed, CommitFails, Abandon, StepEnd, TurnEnd,
       MoveTo, TypeOK, LoopTypeOK
  <2>2. QED  BY <2>1
<1>2. CASE EarlyTurnEnd(s) \/ SessionDispose(s)
  BY <1>2 DEF EarlyTurnEnd, SessionDispose
<1>3. CASE SessionOpen(s)
  BY <1>3 DEF SessionOpen, loop
<1>4. CASE ClassifyStep(s)
  BY <1>0, <1>4, CountedByClassify
<1>5. CASE SelectModel(s)
  <2>1. s \in live /\ pc[s] = "request"
    BY <1>5 DEF SelectModel, process
  <2>2. QED  BY <1>0, <1>5, <2>1, CountedBySelect
<1>6. CASE FlushAcked(s) \/ CloseStream(s) \/ CloseStreamFails(s)
  <2>1. s \in live /\ UNCHANGED <<requestStates, at, selection, calls, delivered>>
    BY <1>6 DEF FlushAcked, CloseStream, CloseStreamFails, process, memory, history
  <2>2. \/ pc[s] = "flushing" /\ pc'[s] \in {"selected", "done"}
        \/ pc[s] = "streaming" /\ pc'[s] \in {"failed", "done"}
    BY <1>6 DEF FlushAcked, CloseStream, CloseStreamFails, MoveTo, TypeOK, LoopTypeOK
  <2>3. QED  BY <2>1, <2>2, CountedByStage
<1>7. CASE Dispatch(s)
  <2>1. s \in live /\ pc[s] = "selected"
    BY <1>7 DEF Dispatch
  <2>2. QED  BY <1>7, <2>1, CountedByDispatch
<1>8. CASE PartialOutput(s)
  <2>1. s \in live /\ pc[s] = "streaming"
    BY <1>8 DEF PartialOutput, process
  <2>2. QED  BY <1>0, <1>8, <2>1, CountedByOutput
<1>9. CASE RequestError(s)
  <2>1. s \in live /\ pc[s] = "failed"
    BY <1>9 DEF RequestError, process
  <2>2. pc'[s] = "request"
    BY <1>0, <1>9, RequestErrorIs
  <2>3. QED  BY <1>0, <1>9, <2>1, <2>2, CountedByRetry
<1>10. QED
  BY <1>1, <1>2, <1>3, <1>4, <1>5, <1>6, <1>7, <1>8, <1>9 DEF Request, Cleanup

\* What another session does.
LEMMA OthersOrdered ==
  ASSUME TypeOK, NEW t \in Sessions, HeldDecision(t), Untouched(t), Ordered(t),
         t \in live /\ pc[t] \in Working => Counted(t),
         \A c \in CallsOf(t) : c.attempt \in delivered' => c.attempt \in delivered
  PROVE  Ordered(t)' /\ (t \in live' /\ pc'[t] \in Working => Counted(t)')
<1>1. /\ pc'[t] = pc[t] /\ at'[t] = at[t] /\ selection'[t] = selection[t]
      /\ requestStates'[t] = requestStates[t] /\ CallsOf(t)' = CallsOf(t)
      /\ t \in live' => t \in live
  BY DEF Untouched, LoopKept
<1>2. Ordered(t)' /\ Mine(t)' = Mine(t)
  BY <1>1, OrderedKept DEF Present, HeldDecision
<1>3. ASSUME Counted(t)  PROVE Counted(t)'
  <2>1. PICK st, stage, own : st = requestStates[t][at[t]] /\ stage = pc[t] /\ own = Mine(t)
    OBVIOUS
  <2>2. /\ RoutesKnown(st, own, stage, selection[t].route) /\ OutputKnown(st, own, delivered, stage)
        /\ NumberKnown(st, Cardinality(own), stage)
    BY <1>3, <2>1 DEF Counted
  <2>3. \A c \in own : c.attempt \in delivered' => c.attempt \in delivered
    BY <2>1 DEF Mine, CallsOf
  <2>4. OutputKnown(st, own, delivered', stage)
    BY <2>2, <2>3, Zenon DEF OutputKnown
  <2>5. Knows(t, st, stage)
    BY <1>1, <1>2, <2>1, <2>2, <2>4 DEF Knows
  <2>6. Present(t, at[t])'
    BY <1>1, <1>3 DEF Counted, Present
  <2>7. QED  BY <1>1, <2>1, <2>5, <2>6, KnowsCounted
<1>4. QED  BY <1>1, <1>2, <1>3

-----------------------------------------------------------------------------
(* The calls of a step, against one another.                                *)

LEMMA NotDispatchedNext ==
  ASSUME TypeOK, LoopHoldsDecision, NEW s \in Sessions, Current(s), NotDispatchedIsTrue,
         Request(s) \/ Cleanup(s), Dispatch(s) => Present(s, at[s])
  PROVE  NotDispatchedIsTrue'
<1>0. HeldDecision(s) /\ (\A c \in calls : c.attempt \in Decisions)
  BY DEF LoopHoldsDecision, TypeOK, HistoryTypeOK
<1>1. CASE FlushAcked(s)
  <2>1. selection[s].attempt \notin Called /\ selection[s].attempt \in Decisions
    BY <1>0, <1>1 DEF FlushAcked, Current, HeldDecision
  <2>2. /\ calls' = calls
        /\ UNCHANGED attemptStates
           \/ attemptStates' = [attemptStates EXCEPT ![selection[s].attempt] = "not_dispatched"]
    BY <1>1 DEF FlushAcked, history
  <2>3. \A e \in Called : attemptStates'[e] = attemptStates[e]
    BY <1>0, <2>1, <2>2 DEF Called, TypeOK, StorageTypeOK
  <2>4. QED  BY <2>2, <2>3 DEF NotDispatchedIsTrue, Called
<1>2. CASE Dispatch(s)
  <2>1. PICK c : calls' = calls \cup {c} /\ c.attempt = selection[s].attempt
    BY <1>2, DispatchCalls
  <2>2. attemptStates'[c.attempt] = "dispatch_started" /\ AttemptMove(s, c.attempt)
    BY <1>0, <1>2, <2>1, DispatchMoves
  <2>3. \A e \in Decisions : e # c.attempt => attemptStates'[e] = attemptStates[e]
    BY <2>2 DEF AttemptMove, TypeOK, StorageTypeOK
  <2>4. QED  BY <1>0, <2>1, <2>2, <2>3 DEF NotDispatchedIsTrue, Called
<1>3. CASE CloseStream(s)
  <2>1. at[s] \in Keys /\ calls' = calls
    BY <1>0, <1>3 DEF CloseStream, HeldDecision, history
  <2>2. PICK terminal \in Terminal : SetAttempt(s, at[s], terminal)
    BY <1>3 DEF CloseStream
  <2>3. UNCHANGED attemptStates
        \/ \E d : attemptStates' = [attemptStates EXCEPT ![d] = terminal]
    BY <2>1, <2>2, SetAttemptIs
  <2>4. terminal # "not_dispatched"
    BY DEF Terminal
  <2>5. \A e \in Called : attemptStates'[e] \in {attemptStates[e], terminal}
    BY <1>0, <2>3 DEF Called, TypeOK, StorageTypeOK
  <2>6. QED  BY <2>1, <2>4, <2>5 DEF NotDispatchedIsTrue, Called
<1>4. CASE ~FlushAcked(s) /\ ~Dispatch(s) /\ ~CloseStream(s)
  BY <1>4, OthersKeepAttempts DEF NotDispatchedIsTrue, Called
<1>5. QED  BY <1>1, <1>2, <1>3, <1>4

\* The call that is made now and the earlier ones of its step.
LEMMA RulesByDispatch ==
  ASSUME TypeOK, LoopHoldsDecision, NEW s \in Sessions, Current(s), Stored, IsFiniteSet(calls),
         Counted(s), Dispatch(s), NoRouteTriedTwice, NoFallbackAfterOutput, StepCallsBounded
  PROVE  NoRouteTriedTwice' /\ NoFallbackAfterOutput' /\ StepCallsBounded'
<1>1. PICK c : /\ calls' = calls \cup {c} /\ c.key = at[s] /\ at[s] \in Keys
               /\ c.attempt \notin Called /\ SessionOf(c.attempt) = s
               /\ c.route = selection[s].route /\ c.route \in Routes
               /\ c.limit = requestStates[s][at[s]].maxAttempts
               /\ c.sticky = ~requestStates[s][at[s]].afterPartialOutput
               /\ c.attempt \in Decisions
  BY DispatchCalls, Zenon
<1>2. pc[s] = "selected" /\ delivered' = delivered
  BY DEF Dispatch
<1>3. PICK st : st = requestStates[s][at[s]]
  OBVIOUS
<1>4. /\ Present(s, at[s]) /\ st \in RequestState
      /\ RoutesKnown(st, Mine(s), "selected", c.route)
      /\ OutputKnown(st, Mine(s), delivered, "selected")
      /\ NumberKnown(st, Cardinality(Mine(s)), "selected")
  BY <1>1, <1>2, <1>3 DEF Counted, TypeOK, MemoryTypeOK
<1>5. /\ \A e \in calls : SameStep(e, c) => e \in Mine(s)
      /\ \A e \in calls : SameStep(c, e) => e \in Mine(s)
      /\ \A e \in Mine(s) : e \in calls /\ SameStep(c, e)
      /\ SameStep(c, c)
  BY <1>1 DEF SameStep, Mine
<1>6. \A e \in Mine(s) : e.route # c.route
  BY <1>4 DEF RoutesKnown, Deciding
<1>7. NoRouteTriedTwice'
  <2>1. \A e \in calls : SameStep(e, c) \/ SameStep(c, e) => e.route # c.route
    BY <1>5, <1>6
  <2>2. \A c1, c2 \in calls' : SameStep(c1, c2) /\ c1 # c2 => c1.route # c2.route
    BY <1>1, <2>1 DEF NoRouteTriedTwice
  <2>3. QED  BY <2>2 DEF NoRouteTriedTwice, SameStep
<1>8. NoFallbackAfterOutput'
  <2>1. c.attempt \notin delivered
    BY <1>1 DEF Stored
  <2>2. ASSUME NEW e \in calls, SameStep(e, c), e.attempt \in delivered  PROVE ~c.sticky
    <3>1. e \in Mine(s)
      BY <1>5, <2>2
    <3>2. st.partialOutput /\ (st.partialOutput => st.afterPartialOutput)
      BY <1>4, <2>2, <3>1, Zenon DEF OutputKnown, Deciding
    <3>3. c.sticky = ~st.afterPartialOutput
      BY <1>1, <1>3, Zenon
    <3>4. QED  BY <3>2, <3>3, Zenon
  <2>3. ASSUME NEW c1 \in calls', NEW c2 \in calls', SameStep(c1, c2),
               Later(c2.attempt, c1.attempt), c1.attempt \in delivered
        PROVE  ~c2.sticky
    <3>1. c1 \in calls
      BY <1>1, <2>1, <2>3
    <3>2. CASE c2 \in calls
      BY <2>3, <3>1, <3>2, Zenon DEF NoFallbackAfterOutput
    <3>3. CASE c2 = c
      BY <2>2, <2>3, <3>1, <3>3, Zenon
    <3>4. QED  BY <1>1, <3>2, <3>3
  <2>4. QED  BY <1>2, <2>3, Zenon DEF NoFallbackAfterOutput, SameStep, Later, SessionOf
<1>9. StepCallsBounded'
  <2>1. Cardinality(Mine(s) \cup {c}) <= st.maxAttempts
    <3>1. c \notin Mine(s)
      BY <1>1 DEF Mine, Called
    <3>2. Cardinality(Mine(s) \cup {c}) = Cardinality(Mine(s)) + 1
          /\ Cardinality(Mine(s)) \in Nat
      BY <3>1, MineFinite, FS_AddElement
    <3>3. QED  BY <1>4, <3>2 DEF NumberKnown, RequestState
  <2>2. \A e \in Mine(s) \cup {c} : e.limit = st.maxAttempts
    BY <1>1, <1>3, <1>4 DEF RoutesKnown
  <2>3. ASSUME NEW e \in calls'
        PROVE  Cardinality({e2 \in calls' : SameStep(e, e2)}) <= e.limit
    <3>1. CASE e \in Mine(s) \cup {c}
      <4>1. {e2 \in calls' : SameStep(e, e2)} = Mine(s) \cup {c}
        BY <1>1, <3>1 DEF SameStep, Mine
      <4>2. QED  BY <2>1, <2>2, <3>1, <4>1
    <3>2. CASE e \notin Mine(s) \cup {c}
      <4>1. e \in calls /\ {e2 \in calls' : SameStep(e, e2)} = {e2 \in calls : SameStep(e, e2)}
        BY <1>1, <3>2 DEF SameStep, Mine
      <4>2. QED  BY <4>1 DEF StepCallsBounded
    <3>3. QED  BY <3>1, <3>2
  <2>4. QED  BY <2>3 DEF StepCallsBounded, SameStep
<1>10. QED  BY <1>7, <1>8, <1>9

\* Output is shown by the latest call of its step.
LEMMA OutputIsLatest ==
  ASSUME TypeOK, NEW s \in Sessions, Current(s), Ordered(s), PartialOutput(s),
         NoFallbackAfterOutput
  PROVE  NoFallbackAfterOutput'
<1>1. pc[s] = "streaming" /\ calls' = calls
      /\ delivered' = delivered \cup {selection[s].attempt}
  BY DEF PartialOutput
<1>2. \A c \in calls : c.attempt = selection[s].attempt => c.key = at[s] /\ SessionOf(c.attempt) = s
  BY <1>1 DEF Current
<1>3. \A c \in Mine(s) : ~Later(c.attempt, selection[s].attempt)
  BY <1>1 DEF Ordered
<1>4. ASSUME NEW c1 \in calls, NEW c2 \in calls, SameStep(c1, c2),
             Later(c2.attempt, c1.attempt), c1.attempt \in delivered'
      PROVE  c1.attempt \in delivered
  <2>1. c1.attempt = selection[s].attempt => c2 \in Mine(s)
    BY <1>2, <1>4 DEF SameStep, Mine
  <2>2. QED  BY <1>1, <1>3, <1>4, <2>1
<1>5. QED  BY <1>1, <1>4, Zenon DEF NoFallbackAfterOutput, SameStep, Later, SessionOf

LEMMA RulesKept ==
  ASSUME UNCHANGED <<calls, delivered, attemptStates>>, InOrder
  PROVE  /\ (NoRouteTriedTwice /\ NoFallbackAfterOutput /\ StepCallsBounded)'
         /\ NotDispatchedIsTrue' /\ IsFiniteSet(calls)'
<1>1. NoFallbackAfterOutput'
  BY Zenon DEF InOrder, NoFallbackAfterOutput, SameStep, Later, SessionOf
<1>2. QED
  BY <1>1 DEF InOrder, NoRouteTriedTwice, StepCallsBounded, NotDispatchedIsTrue, Called, SameStep

LEMMA RulesNext ==
  ASSUME FailClosed, Accounted, InOrder, NEW s \in Sessions, Request(s) \/ Cleanup(s)
  PROVE  /\ (NoRouteTriedTwice /\ NoFallbackAfterOutput /\ StepCallsBounded)'
         /\ NotDispatchedIsTrue' /\ IsFiniteSet(calls)'
<1>0. /\ TypeOK /\ LoopHoldsDecision /\ CallsAreCommitted /\ Stored /\ Fresh(s) /\ Current(s)
      /\ IsFiniteSet(calls) /\ Ordered(s) /\ NotDispatchedIsTrue
  BY DEF FailClosed, Accounted, InOrder
<1>1. Dispatch(s) => Counted(s)
  BY DEF InOrder, Dispatch, Working, Deciding
<1>2. NotDispatchedIsTrue'
  BY <1>0, <1>1, NotDispatchedNext DEF Counted
<1>3. CASE Dispatch(s)
  <2>1. (NoRouteTriedTwice /\ NoFallbackAfterOutput /\ StepCallsBounded)'
    BY <1>0, <1>1, <1>3, RulesByDispatch DEF InOrder
  <2>2. IsFiniteSet(calls)'
    BY <1>0, <1>3, DispatchCalls, FS_AddElement
  <2>3. QED  BY <1>2, <2>1, <2>2
<1>4. CASE PartialOutput(s)
  <2>1. NoFallbackAfterOutput' /\ calls' = calls
    BY <1>0, <1>4, OutputIsLatest DEF InOrder, PartialOutput
  <2>2. NoRouteTriedTwice' /\ StepCallsBounded' /\ IsFiniteSet(calls)'
    BY <2>1 DEF InOrder, NoRouteTriedTwice, StepCallsBounded, SameStep
  <2>3. QED  BY <1>2, <2>1, <2>2
<1>5. CASE ~Dispatch(s) /\ ~PartialOutput(s)
  <2>1. UNCHANGED <<calls, delivered>>
    BY <1>5, OthersKeepAttempts
  <2>2. NoFallbackAfterOutput'
    BY <2>1, Zenon DEF InOrder, NoFallbackAfterOutput, SameStep, Later, SessionOf
  <2>3. NoRouteTriedTwice' /\ StepCallsBounded' /\ IsFiniteSet(calls)'
    BY <2>1 DEF InOrder, NoRouteTriedTwice, StepCallsBounded, SameStep
  <2>4. QED  BY <1>2, <2>2, <2>3
<1>6. QED  BY <1>3, <1>4, <1>5

LEMMA StepsNext ==
  ASSUME FailClosed, Accounted, InOrder, ~CleanupMayReorder, [Next]_vars
  PROVE  \A t \in Sessions : Ordered(t)' /\ (t \in live' /\ pc'[t] \in Working => Counted(t)')
<1> TAKE t \in Sessions
<1>0. TypeOK /\ LoopHoldsDecision /\ CallsAreCommitted /\ Stored /\ IsFiniteSet(calls)
  BY DEF FailClosed, Accounted, InOrder
<1>1. \A s \in Sessions : /\ Fresh(s) /\ Current(s) /\ HeldDecision(s) /\ Ordered(s)
                          /\ s \in live /\ pc[s] \in Working => Counted(s)
  BY DEF FailClosed, LoopHoldsDecision, Accounted, InOrder
<1>2. ASSUME NEW s \in Sessions, Request(s) \/ Cleanup(s)
      PROVE  Ordered(t)' /\ (t \in live' /\ pc'[t] \in Working => Counted(t)')
  <2>1. CASE t = s
    <3>1. Ordered(s)'
      BY <1>0, <1>1, <1>2, OrderedOfSession
    <3>2. s \in live' /\ pc'[s] \in Working => Counted(s)'
      BY <1>0, <1>1, <1>2, CountedOfSession
    <3>3. QED  BY <2>1, <3>1, <3>2
  <2>2. CASE t # s
    <3>1. Untouched(t)
      BY <1>0, <1>1, <1>2, <2>2, OthersUntouched
    <3>2. \A c \in CallsOf(t) : c.attempt \in delivered' => c.attempt \in delivered
      <4>1. CASE PartialOutput(s)
        <5>1. SessionOf(selection[s].attempt) = s
              /\ delivered' = delivered \cup {selection[s].attempt}
          BY <1>1, <4>1 DEF PartialOutput, Current
        <5>2. QED  BY <2>2, <5>1 DEF CallsOf
      <4>2. CASE ~PartialOutput(s)
        BY <1>2, <4>2, OthersKeepAttempts
      <4>3. QED  BY <4>1, <4>2
    <3>3. QED  BY <1>0, <1>1, <3>1, <3>2, OthersOrdered
  <2>3. QED  BY <2>1, <2>2
<1>3. CASE Crash \/ Restart
  <2>1. pc'[t] = "idle" /\ UNCHANGED <<at, calls>>
    BY <1>0, <1>3 DEF Crash, Restart, Stored, loop, history
  <2>2. \A k \in Keys : Present(t, k)' => Present(t, k)
    BY <1>3, NoStateType DEF Crash, Restart, memory, Present
  <2>3. Ordered(t)'
    BY <1>0, <1>1, <2>1, <2>2, OrderedKept DEF CallsOf
  <2>4. QED  BY <2>1, <2>3 DEF Working, Deciding
<1>4. CASE Reconcile \/ (\E d \in Decisions : Persist(d)) \/ UpdateSettings \/ UNCHANGED vars
  <2>1. Untouched(t) /\ delivered' = delivered
    BY <1>0, <1>4, SystemUntouched, SystemKeepsAttempts
  <2>2. QED  BY <1>0, <1>1, <2>1, OthersOrdered
<1>5. QED  BY <1>2, <1>3, <1>4 DEF Next

LEMMA BoundedInit == Init => Bounded
<1> SUFFICES ASSUME Init  PROVE InOrder
  BY DEF Bounded
<1>1. calls = {} /\ IsFiniteSet({}) /\ Called = {}
  BY FS_EmptySet DEF Init, Called
<1>2. NoRouteTriedTwice /\ NoFallbackAfterOutput /\ StepCallsBounded /\ NotDispatchedIsTrue
  BY <1>1 DEF NoRouteTriedTwice, NoFallbackAfterOutput, StepCallsBounded, NotDispatchedIsTrue
<1>3. ASSUME NEW s \in Sessions  PROVE Ordered(s) /\ pc[s] \notin Working
  <2>1. pc[s] = "idle" /\ \A k \in Keys : ~Present(s, k)
    BY NoStateType DEF Init, Present
  <2>2. QED  BY <1>1, <2>1 DEF Ordered, Working, Deciding
<1>4. QED  BY <1>1, <1>2, <1>3 DEF InOrder

LEMMA BoundedNext == FailClosed /\ Accounted /\ Bounded /\ [Next]_vars => Bounded'
<1> SUFFICES ASSUME FailClosed, Accounted, InOrder, ~CleanupMayReorder, [Next]_vars
             PROVE  InOrder'
  BY DEF Bounded
<1>1. ASSUME Reconcile \/ (\E d \in Decisions : Persist(d)) \/ UpdateSettings \/ Crash \/ Restart
             \/ UNCHANGED vars
      PROVE  /\ (NoRouteTriedTwice /\ NoFallbackAfterOutput /\ StepCallsBounded)'
             /\ NotDispatchedIsTrue' /\ IsFiniteSet(calls)'
  BY <1>1, SystemKeepsAttempts, RulesKept
<1>2. /\ (NoRouteTriedTwice /\ NoFallbackAfterOutput /\ StepCallsBounded)'
      /\ NotDispatchedIsTrue' /\ IsFiniteSet(calls)'
  BY <1>1, RulesNext DEF Next
<1>3. QED  BY <1>2, StepsNext DEF InOrder

LEMMA AlwaysBounded == Spec => []Bounded
<1>1. Init => FailClosed /\ Accounted /\ Bounded
  BY FailClosedInit, AccountedInit, BoundedInit
<1>2. FailClosed /\ Accounted /\ Bounded /\ [Next]_vars => (FailClosed /\ Accounted /\ Bounded)'
  BY FailClosedNext, AccountedNext, BoundedNext
<1>3. QED  BY <1>1, <1>2, PTL DEF Spec

\* Where turn/end never overtakes a step, fallback never calls a route of the step a
\* second time (excludeRouteAndCheckRetry).
THEOREM RoutesAreTriedOnce == Spec => [](~CleanupMayReorder => NoRouteTriedTwice)
<1>1. Bounded => (~CleanupMayReorder => NoRouteTriedTwice)  BY DEF Bounded, InOrder
<1>2. QED  BY <1>1, AlwaysBounded, PTL

\* There, no call follows one that has shown output, unless the request began with
\* after_partial_output.
THEOREM OutputEndsFallback == Spec => [](~CleanupMayReorder => NoFallbackAfterOutput)
<1>1. Bounded => (~CleanupMayReorder => NoFallbackAfterOutput)  BY DEF Bounded, InOrder
<1>2. QED  BY <1>1, AlwaysBounded, PTL

\* There, a step makes at most the max_attempts calls its request began with.
THEOREM CallsAreBounded == Spec => [](~CleanupMayReorder => StepCallsBounded)
<1>1. Bounded => (~CleanupMayReorder => StepCallsBounded)  BY DEF Bounded, InOrder
<1>2. QED  BY <1>1, AlwaysBounded, PTL

\* There, an attempt stored as not_dispatched was not called.
THEOREM NotDispatchedIsKept == Spec => [](~CleanupMayReorder => NotDispatchedIsTrue)
<1>1. Bounded => (~CleanupMayReorder => NotDispatchedIsTrue)  BY DEF Bounded, InOrder
<1>2. QED  BY <1>1, AlwaysBounded, PTL

-----------------------------------------------------------------------------
(* Why a step comes to an end.                                              *)

Going(s) == pc[s] \in Working

\* The attempts a step has begun, of the most a request may begin.
Begins(s) == IF Present(s, at[s]) THEN requestStates[s][at[s]].attemptCount ELSE 0

StageRank(stage) ==
  IF stage = "flushing" THEN 5
  ELSE IF stage = "selected" THEN 4
  ELSE IF stage = "streaming" THEN 3
  ELSE IF stage = "failed" THEN 2
  ELSE IF stage = "request" THEN 1
  ELSE 0

\* How many answers a step still waits for, at most.  The agent loop of a session that
\* is not live ends at its next request.
Remaining(s) ==
  (IF s \in live THEN 6 * (MaxAttempts - Begins(s)) ELSE 0) + StageRank(pc[s])

\* A step that waits for a model has an attempt left, whatever was cleaned up under it;
\* the key of a new step has no state.
Limited(s) ==
  /\ \A k \in Keys : Present(s, k) => NotAfter(k, at[s])
  /\ pc[s] = "classifying" => ~Present(s, at[s])
  /\ Going(s) /\ Present(s, at[s]) =>
       LET st == requestStates[s][at[s]]
       IN  IF pc[s] = "request" THEN st.attemptCount < st.maxAttempts
           ELSE st.attemptCount <= st.maxAttempts

\* Session s answers its own step: the store, the provider or the plugin.
Answered(s) ==
  \/ SelectModel(s) \/ SelectModelFails(s)
  \/ FlushAcked(s) \/ FlushFailed(s) \/ CommitFails(s)
  \/ Dispatch(s) \/ Abandon(s)
  \/ CloseStream(s) \/ CloseStreamFails(s) \/ RequestError(s)

Descends(s) ==
  Going(s) =>
    \/ pc'[s] \in {"done", "idle"}
    \/ EarlyTurnEnd(s)
    \/ /\ Going(s)' /\ Remaining(s)' <= Remaining(s)
       /\ Answered(s) => Remaining(s)' < Remaining(s)

FallbackDescends ==
  /\ [](\A s \in Sessions : Going(s) => Remaining(s) \in Nat /\ 0 < Remaining(s))
  /\ [][\A s \in Sessions : Descends(s)]_vars

\* Handlers that make no state: those that are left keep their counts.
CountsKept(s) ==
  \A k \in Keys : Present(s, k)' =>
    /\ Present(s, k)
    /\ requestStates'[s][k].attemptCount = requestStates[s][k].attemptCount
    /\ requestStates'[s][k].maxAttempts = requestStates[s][k].maxAttempts

LEMMA MapKeepsCounts ==
  ASSUME UNCHANGED requestStates, NEW s \in Sessions
  PROVE  CountsKept(s)
BY DEF CountsKept, Present

LEMMA DeleteKeepsCounts ==
  ASSUME TypeOK, NEW s \in Sessions, NEW keys, DeleteStates(s, keys)
  PROVE  CountsKept(s)
<1>1. \A k \in Keys : \/ requestStates'[s][k] = requestStates[s][k]
                      \/ requestStates'[s][k] = NoState
  BY DeleteSteady
<1>2. QED  BY <1>1, NoStateType DEF CountsKept, Present

LEMMA OutputKeepsCounts ==
  ASSUME TypeOK, NEW s \in Sessions, HeldDecision(s), PartialOutput(s)
  PROVE  /\ CountsKept(s) /\ UNCHANGED <<at, pc, live>>
         /\ \A k \in Keys : Present(s, k) => Present(s, k)'
<1>1. at[s] \in Keys /\ UNCHANGED <<at, pc, live>>
  BY DEF PartialOutput, HeldDecision, loop, process
<1>2. CASE ~Present(s, at[s])
  BY <1>1, <1>2, MapKeepsCounts DEF PartialOutput, Present
<1>3. CASE Present(s, at[s])
  <2> DEFINE new == [requestStates[s][at[s]] EXCEPT !.partialOutput = TRUE]
  <2>1. /\ new.requestId = requestStates[s][at[s]].requestId
        /\ new.attemptCount = requestStates[s][at[s]].attemptCount
        /\ new.maxAttempts = requestStates[s][at[s]].maxAttempts
    BY <1>1 DEF TypeOK, MemoryTypeOK, RequestState
  <2>2. requestStates' = [requestStates EXCEPT ![s][at[s]].partialOutput = TRUE]
    BY <1>3 DEF PartialOutput
  <2>3. \A k \in Keys : requestStates'[s][k] = IF k = at[s] THEN new ELSE requestStates[s][k]
    BY <1>1, <2>2 DEF TypeOK, MemoryTypeOK
  <2> HIDE DEF new
  <2>4. QED  BY <1>1, <1>3, <2>1, <2>3 DEF CountsKept, Present
<1>4. QED  BY <1>1, <1>2, <1>3

\* The step stays, or moves on from a stage with the same counts.
LEMMA LimitedKept ==
  ASSUME TypeOK, NEW s \in Sessions, Limited(s), HeldDecision(s), CountsKept(s), at'[s] = at[s],
         \/ pc'[s] \notin Working \cup {"classifying"}
         \/ pc'[s] = pc[s]
         \/ pc[s] \in Working /\ pc'[s] \in Working \ {"request"}
  PROVE  Limited(s)'
<1>1. \A k \in Keys : Present(s, k)' => NotAfter(k, at'[s])
  BY DEF Limited, CountsKept
<1>2. pc'[s] = "classifying" => ~Present(s, at[s])'
  BY DEF Limited, CountsKept, HeldDecision, Working, Deciding
<1>3. ASSUME Going(s)', Present(s, at[s])'
      PROVE  IF pc'[s] = "request"
             THEN requestStates'[s][at'[s]].attemptCount < requestStates'[s][at'[s]].maxAttempts
             ELSE requestStates'[s][at'[s]].attemptCount <= requestStates'[s][at'[s]].maxAttempts
  <2>1. Going(s) /\ at[s] \in Keys
    BY <1>3 DEF Going, Working, Deciding, HeldDecision
  <2>2. /\ Present(s, at[s])
        /\ requestStates'[s][at[s]].attemptCount = requestStates[s][at[s]].attemptCount
        /\ requestStates'[s][at[s]].maxAttempts = requestStates[s][at[s]].maxAttempts
    BY <1>3, <2>1 DEF CountsKept
  <2>3. requestStates[s][at[s]].attemptCount \in Nat /\ requestStates[s][at[s]].maxAttempts \in Nat
    BY <2>1 DEF TypeOK, MemoryTypeOK, RequestState
  <2>4. pc'[s] = "request" => pc[s] = "request"
    BY <1>3 DEF Going
  <2>5. QED  BY <2>1, <2>2, <2>3, <2>4 DEF Limited
<1>4. QED  BY <1>1, <1>2, <1>3 DEF Limited, Present

\* A handler that sets the state of its step.
LEMMA LimitedSet ==
  ASSUME TypeOK, NEW s \in Sessions, Limited(s), at[s] \in Keys, at'[s] = at[s], NEW st,
         SetState(s, at[s], st), pc'[s] # "classifying",
         pc'[s] \in Working =>
           IF pc'[s] = "request" THEN st.attemptCount < st.maxAttempts
           ELSE st.attemptCount <= st.maxAttempts
  PROVE  Limited(s)'
<1>1. /\ requestStates'[s][at[s]] = st
      /\ \A l \in Keys \ {at[s]} : requestStates'[s][l] = requestStates[s][l]
  BY SetStateIs
<1>2. \A k \in Keys : Present(s, k)' => NotAfter(k, at'[s])
  BY <1>1, AtType DEF Limited, Present
<1>3. QED  BY <1>1, <1>2 DEF Limited, Going

LEMMA BeginsType ==
  ASSUME TypeOK, NEW s \in Sessions, HeldDecision(s), Limited(s), Going(s)
  PROVE  /\ at[s] \in Keys /\ Begins(s) \in 0 .. MaxAttempts
         /\ pc[s] = "request" => Begins(s) < MaxAttempts
         /\ MayCreate(s, at[s]) =>
              /\ GetOrCreateRequestState(s, at[s]) \in RequestState
              /\ GetOrCreateRequestState(s, at[s]).attemptCount = Begins(s)
              /\ pc[s] = "request" =>
                   Begins(s) < GetOrCreateRequestState(s, at[s]).maxAttempts
<1>1. at[s] \in Keys
  BY DEF Going, Working, Deciding, HeldDecision
<1>2. requestStates[s][at[s]] \in RequestState
  BY <1>1 DEF TypeOK, MemoryTypeOK
<1>3. Begins(s) \in 0 .. MaxAttempts /\ (pc[s] = "request" => Begins(s) < MaxAttempts)
  <2>1. CASE Present(s, at[s])
    BY <1>2, <2>1 DEF Begins, Limited, RequestState, ConstantsAssumption
  <2>2. CASE ~Present(s, at[s])
    BY <2>2 DEF Begins, ConstantsAssumption
  <2>3. QED  BY <2>1, <2>2
<1>4. ASSUME MayCreate(s, at[s])
      PROVE  /\ GetOrCreateRequestState(s, at[s]) \in RequestState
             /\ GetOrCreateRequestState(s, at[s]).attemptCount = Begins(s)
             /\ pc[s] = "request" =>
                  Begins(s) < GetOrCreateRequestState(s, at[s]).maxAttempts
  <2>1. PICK st : st = GetOrCreateRequestState(s, at[s])
    OBVIOUS
  <2>2. /\ st \in RequestState /\ (Present(s, at[s]) => st = requestStates[s][at[s]])
        /\ ~Present(s, at[s]) => st.attemptCount = 0 /\ st.maxAttempts \in 1 .. MaxAttempts
    BY <1>1, <1>4, <2>1, GetOrCreateIs
  <2>3. CASE Present(s, at[s])
    BY <2>1, <2>2, <2>3 DEF Begins, Limited
  <2>4. CASE ~Present(s, at[s])
    BY <2>1, <2>2, <2>4 DEF Begins
  <2>5. QED  BY <2>3, <2>4
<1>5. QED  BY <1>1, <1>3, <1>4

-----------------------------------------------------------------------------
(* Every handler of a session, its limit and its descent.                   *)

\* What of a step decides its measure.
LEMMA RemainingIs ==
  ASSUME NEW s \in Sessions, NEW n \in 0 .. MaxAttempts, NEW m \in 0 .. MaxAttempts,
         Begins(s) = n, Begins(s)' = m, s \in live' => s \in live,
         \/ m = n /\ StageRank(pc'[s]) <= StageRank(pc[s])
         \/ m = n + 1 /\ s \in live /\ s \in live'
  PROVE  /\ Remaining(s)' <= Remaining(s)
         /\ \/ m = n + 1
            \/ StageRank(pc'[s]) < StageRank(pc[s])
            => Remaining(s)' < Remaining(s)
<1>1. MaxAttempts \in Nat
  BY DEF ConstantsAssumption
<1>2. PICK a, b : a = StageRank(pc[s]) /\ b = StageRank(pc'[s])
  OBVIOUS
<1>3. a \in 0 .. 5 /\ b \in 0 .. 5
  BY <1>2 DEF StageRank
<1>4. /\ Remaining(s) = (IF s \in live THEN 6 * (MaxAttempts - n) ELSE 0) + a
      /\ Remaining(s)' = (IF s \in live' THEN 6 * (MaxAttempts - m) ELSE 0) + b
  BY <1>2 DEF Remaining
<1>5. QED  BY <1>1, <1>2, <1>3, <1>4

LEMMA StageOnly ==
  ASSUME TypeOK, NEW s \in Sessions, HeldDecision(s), Limited(s), Going(s),
         FlushAcked(s) \/ FlushFailed(s) \/ CommitFails(s) \/ Dispatch(s) \/ Abandon(s)
         \/ CloseStream(s) \/ CloseStreamFails(s)
  PROVE  Limited(s)' /\ Descends(s)
<1>1. UNCHANGED <<requestStates, at, live>>
  <2>1. UNCHANGED memory
    BY MapUnchanged
  <2>2. UNCHANGED <<at, live>>
    BY DEF FlushAcked, FlushFailed, CommitFails, Dispatch, Abandon, CloseStream, CloseStreamFails,
       process
  <2>3. QED  BY <2>1, <2>2 DEF memory
<1>2. \/ pc'[s] = "done"
      \/ pc[s] = "flushing" /\ pc'[s] = "selected"
      \/ pc[s] = "selected" /\ pc'[s] = "streaming"
      \/ pc[s] = "streaming" /\ pc'[s] = "failed"
  <2>1. \/ MoveTo(s, "done")
        \/ pc[s] = "flushing" /\ MoveTo(s, "selected")
        \/ pc[s] = "selected" /\ MoveTo(s, "streaming")
        \/ pc[s] = "streaming" /\ MoveTo(s, "failed")
    BY Zenon DEF FlushAcked, FlushFailed, CommitFails, Dispatch, Abandon, CloseStream,
       CloseStreamFails
  <2>2. QED  BY <2>1 DEF MoveTo, TypeOK, LoopTypeOK
<1>3. CountsKept(s)
  BY <1>1, MapKeepsCounts
<1>4. Limited(s)'
  BY <1>1, <1>2, <1>3, LimitedKept DEF Working, Deciding
<1>5. CASE pc'[s] = "done"
  BY <1>4, <1>5 DEF Descends
<1>6. CASE pc'[s] # "done"
  <2>1. Begins(s)' = Begins(s)
    BY <1>1 DEF Begins, Present
  <2>2. StageRank(pc'[s]) < StageRank(pc[s]) /\ StageRank(pc'[s]) <= StageRank(pc[s])
    BY <1>2, <1>6 DEF StageRank
  <2>3. Remaining(s)' < Remaining(s) /\ Remaining(s)' <= Remaining(s)
    BY <1>1, <2>1, <2>2, BeginsType, RemainingIs
  <2>4. Going(s)'
    BY <1>2, <1>6 DEF Going, Working, Deciding
  <2>5. QED  BY <1>4, <2>3, <2>4 DEF Descends
<1>7. QED  BY <1>5, <1>6

LEMMA SelectDescends ==
  ASSUME TypeOK, NEW s \in Sessions, HeldDecision(s), Limited(s), SelectModel(s)
  PROVE  Limited(s)' /\ Descends(s)
<1>1. Going(s) /\ pc[s] = "request" /\ UNCHANGED <<at, live>>
  BY DEF SelectModel, Going, Working, Deciding, process
<1>2. PICK st : st = GetOrCreateRequestState(s, at[s])
  OBVIOUS
<1>3. PICK new, route : Selects(s, st, new, route)
  BY <1>2, SelectModelSelects
<1>4. /\ SetState(s, at[s], new) /\ MayCreate(s, at[s])
      /\ new \in RequestState /\ new.requestId = st.requestId
      /\ new.attemptCount = st.attemptCount + 1 /\ new.maxAttempts = st.maxAttempts
      /\ pc'[s] = IF s \in live THEN "flushing" ELSE "done"
  BY <1>3 DEF Selects, Begun, SetState
<1>5. /\ at[s] \in Keys /\ st \in RequestState /\ st.attemptCount = Begins(s)
      /\ Begins(s) < st.maxAttempts /\ Begins(s) \in 0 .. MaxAttempts /\ Begins(s) < MaxAttempts
  BY <1>1, <1>2, <1>4, BeginsType
<1>6. new.attemptCount <= new.maxAttempts
  BY <1>4, <1>5 DEF RequestState
<1>7. Limited(s)'
  BY <1>1, <1>4, <1>5, <1>6, LimitedSet
<1>8. CASE s \notin live
  BY <1>4, <1>7, <1>8 DEF Descends
<1>9. CASE s \in live
  <2>1. st.requestId # 0
    BY <1>2, <1>4, <1>5, GetOrCreateIs
  <2>2. requestStates'[s][at[s]] = new
    BY <1>4, <1>5, SetStateIs
  <2>3. Begins(s)' = Begins(s) + 1
    BY <1>1, <1>4, <1>5, <2>1, <2>2 DEF Begins, Present
  <2>4. PICK n, m : n = Begins(s) /\ m = Begins(s)'
    OBVIOUS
  <2>5. n \in 0 .. MaxAttempts /\ m \in 0 .. MaxAttempts /\ m = n + 1
    BY <1>5, <2>3, <2>4 DEF ConstantsAssumption
  <2>6. Remaining(s)' < Remaining(s) /\ Remaining(s)' <= Remaining(s)
    BY <1>1, <1>9, <2>4, <2>5, RemainingIs
  <2>7. Going(s)'
    BY <1>4, <1>9 DEF Going, Working, Deciding
  <2>8. QED  BY <1>7, <2>6, <2>7 DEF Descends
<1>10. QED  BY <1>8, <1>9

LEMMA ErrorDescends ==
  ASSUME TypeOK, NEW s \in Sessions, HeldDecision(s), Limited(s), RequestError(s)
  PROVE  Limited(s)' /\ Descends(s)
<1>1. Going(s) /\ pc[s] = "failed" /\ UNCHANGED live
  BY DEF RequestError, Going, Working, Deciding, process
<1>2. PICK st : st = GetOrCreateRequestState(s, at[s])
  OBVIOUS
<1>3. at[s] \in Keys /\ UNCHANGED at
  BY RequestErrorIs
<1>4. CASE pc'[s] = "done"
  <2>1. UNCHANGED requestStates \/ SetState(s, at[s], st)
    BY <1>2, <1>4, RequestErrorIs
  <2>2. UNCHANGED requestStates => Limited(s)'
    BY <1>3, <1>4, MapKeepsCounts, LimitedKept DEF Working, Deciding
  <2>3. SetState(s, at[s], st) => Limited(s)'
    BY <1>3, <1>4, LimitedSet DEF Working, Deciding
  <2>4. QED  BY <1>4, <2>1, <2>2, <2>3 DEF Descends
<1>5. CASE pc'[s] # "done"
  <2>1. /\ pc'[s] = "request" /\ CanRetry(st) /\ SetState(s, at[s], ExcludeRoute(st))
        /\ MayCreate(s, at[s])
    BY <1>2, <1>5, RequestErrorIs DEF SetState
  <2>2. PICK new : new = ExcludeRoute(st)
    OBVIOUS
  <2>3. /\ st \in RequestState /\ st.attemptCount = Begins(s) /\ Begins(s) \in 0 .. MaxAttempts
        /\ st.requestId # 0
    BY <1>1, <1>2, <2>1, BeginsType, GetOrCreateIs
  <2>4. /\ new.requestId = st.requestId /\ new.attemptCount = st.attemptCount
        /\ new.maxAttempts = st.maxAttempts
    BY <2>2, <2>3, ExcludeRouteIs
  <2>5. Limited(s)'
    BY <1>3, <2>1, <2>2, <2>4, LimitedSet DEF CanRetry
  <2>6. requestStates'[s][at[s]] = new
    BY <1>3, <2>1, <2>2, SetStateIs
  <2>7. Begins(s)' = Begins(s)
    BY <1>3, <2>3, <2>4, <2>6 DEF Begins, Present
  <2>8. StageRank(pc'[s]) < StageRank(pc[s]) /\ StageRank(pc'[s]) <= StageRank(pc[s])
    BY <1>1, <2>1 DEF StageRank
  <2>9. Remaining(s)' < Remaining(s) /\ Remaining(s)' <= Remaining(s)
    BY <1>1, <2>3, <2>7, <2>8, RemainingIs
  <2>10. Going(s)'
    BY <2>1 DEF Going, Working, Deciding
  <2>11. QED  BY <2>5, <2>9, <2>10 DEF Descends
<1>6. QED  BY <1>4, <1>5

\* Every answer moves its step on.
LEMMA AnswersMove ==
  ASSUME TypeOK, NEW s \in Sessions, Answered(s)
  PROVE  pc'[s] # pc[s]
<1>1. CASE SelectModel(s) \/ SelectModelFails(s)
  <2>1. pc[s] = "request" /\ (MoveTo(s, "flushing") \/ MoveTo(s, "done"))
    BY <1>1, Zenon DEF SelectModel, SelectModelFails
  <2>2. QED  BY <2>1 DEF MoveTo, TypeOK, LoopTypeOK
<1>2. CASE RequestError(s)
  <2>1. pc[s] = "failed" /\ (MoveTo(s, "request") \/ MoveTo(s, "done"))
    BY <1>2, Zenon DEF RequestError
  <2>2. QED  BY <2>1 DEF MoveTo, TypeOK, LoopTypeOK
<1>3. CASE FlushAcked(s) \/ FlushFailed(s) \/ CommitFails(s) \/ Dispatch(s) \/ Abandon(s)
           \/ CloseStream(s) \/ CloseStreamFails(s)
  <2>1. \/ pc[s] = "flushing" /\ (MoveTo(s, "selected") \/ MoveTo(s, "done"))
        \/ pc[s] = "selected" /\ (MoveTo(s, "streaming") \/ MoveTo(s, "done"))
        \/ pc[s] = "streaming" /\ (MoveTo(s, "failed") \/ MoveTo(s, "done"))
    BY <1>3, Zenon DEF FlushAcked, FlushFailed, CommitFails, Dispatch, Abandon, CloseStream,
       CloseStreamFails
  <2>2. QED  BY <2>1 DEF MoveTo, TypeOK, LoopTypeOK
<1>4. QED  BY <1>1, <1>2, <1>3 DEF Answered

\* A step of which nothing changes, and one whose session is disposed of.
LEMMA SameMeasure ==
  ASSUME TypeOK, NEW s \in Sessions, HeldDecision(s), Limited(s), CountsKept(s),
         at'[s] = at[s], pc'[s] = pc[s], s \in live' => s \in live,
         Going(s) /\ s \in live' => Begins(s)' = Begins(s)
  PROVE  Descends(s)
<1> SUFFICES ASSUME Going(s)
             PROVE  Going(s)' /\ Remaining(s)' <= Remaining(s) /\ ~Answered(s)
  BY DEF Descends
<1>1. ~Answered(s) /\ Going(s)'
  BY AnswersMove DEF Going
<1>2. Begins(s) \in 0 .. MaxAttempts
  BY BeginsType
<1>3. PICK a, n : a = StageRank(pc[s]) /\ n = Begins(s)
  OBVIOUS
<1>4. a \in 0 .. 5 /\ n \in 0 .. MaxAttempts /\ MaxAttempts \in Nat
  BY <1>2, <1>3 DEF StageRank, ConstantsAssumption
<1>5. /\ Remaining(s) = (IF s \in live THEN 6 * (MaxAttempts - n) ELSE 0) + a
      /\ Remaining(s)' = (IF s \in live' THEN 6 * (MaxAttempts - n) ELSE 0) + a
  BY <1>3 DEF Remaining
<1>6. QED  BY <1>1, <1>4, <1>5

LEMMA OwnDescends ==
  ASSUME TypeOK, NEW s \in Sessions, HeldDecision(s), Limited(s), Request(s) \/ Cleanup(s)
  PROVE  Limited(s)' /\ Descends(s)
<1>0. pc[s] # "idle" => at[s] \in Keys
  BY DEF HeldDecision
<1>1. CASE PreStep(s)
  <2>1. /\ UNCHANGED requestStates /\ ~Going(s)
        /\ at'[s] = <<at[s][1], at[s][2] + 1>> /\ pc'[s] = "classifying"
    BY <1>1 DEF PreStep, memory, Going, Working, Deciding, MoveTo, TypeOK, LoopTypeOK
  <2>2. at[s][1] \in Nat /\ at[s][2] \in Nat
    BY AtType
  <2>3. \A k \in Keys : Present(s, k)' => NotAfter(k, at'[s])
    BY <2>1, <2>2 DEF Limited, Present, NotAfter, Keys
  <2>4. ~Present(s, at[s])'
    <3>1. at'[s] \in Keys => ~Present(s, at'[s])
      BY <2>1, <2>2 DEF Limited, NotAfter, Keys
    <3>2. at'[s] \in Keys
      BY <1>1, <2>1 DEF PreStep, TypeOK, LoopTypeOK, Keys
    <3>3. QED  BY <2>1, <3>1, <3>2 DEF Present
  <2>5. QED  BY <2>1, <2>3, <2>4 DEF Limited, Descends, Going, Working, Deciding
<1>2. CASE ClassifyStep(s)
  <2>1. PICK st : st = GetOrCreateRequestState(s, at[s])
    OBVIOUS
  <2>2. /\ SetState(s, at[s], st) /\ MayCreate(s, at[s]) /\ pc[s] = "classifying"
        /\ pc'[s] = "request" /\ at'[s] = at[s]
    BY <1>2, <2>1 DEF ClassifyStep, SetState, MoveTo, TypeOK, LoopTypeOK
  <2>3. ~Present(s, at[s]) /\ at[s] \in Keys
    BY <1>0, <2>2 DEF Limited
  <2>4. st.attemptCount = 0 /\ st.maxAttempts \in 1 .. MaxAttempts
    BY <2>1, <2>2, <2>3, GetOrCreateIs
  <2>5. Limited(s)'
    BY <2>2, <2>3, <2>4, LimitedSet
  <2>6. QED  BY <2>2, <2>5 DEF Descends, Going, Working, Deciding
<1>3. CASE SelectModel(s)
  BY <1>3, SelectDescends
<1>4. CASE SelectModelFails(s)
  <2>1. PICK new : SetState(s, at[s], new)
    BY <1>4, SelectModelFailsBegins
  <2>2. pc'[s] = "done" /\ at'[s] = at[s] /\ at[s] \in Keys
    BY <1>0, <1>4 DEF SelectModelFails, MoveTo, TypeOK, LoopTypeOK
  <2>3. QED  BY <2>1, <2>2, LimitedSet DEF Descends, Working, Deciding
<1>5. CASE FlushAcked(s) \/ FlushFailed(s) \/ CommitFails(s) \/ Dispatch(s) \/ Abandon(s)
           \/ CloseStream(s) \/ CloseStreamFails(s)
  <2>1. Going(s)
    BY <1>5 DEF FlushAcked, FlushFailed, CommitFails, Dispatch, Abandon, CloseStream,
       CloseStreamFails, Going, Working, Deciding
  <2>2. QED  BY <1>5, <2>1, StageOnly
<1>6. CASE RequestError(s)
  BY <1>6, ErrorDescends
<1>7. CASE PartialOutput(s)
  <2>1. CountsKept(s) /\ UNCHANGED <<at, pc, live>> /\ pc[s] = "streaming"
    BY <1>7, OutputKeepsCounts DEF PartialOutput
  <2>2. Limited(s)'
    BY <2>1, LimitedKept
  <2>3. ASSUME Going(s)  PROVE Begins(s)' = Begins(s)
    <3>1. at[s] \in Keys
      BY <1>0, <2>1
    <3>2. PICK k : k = at[s] /\ k = at'[s] /\ k \in Keys
      BY <2>1, <3>1
    <3>3. Present(s, k) => Present(s, k)'
      BY <1>7, <3>2, OutputKeepsCounts
    <3>4. QED  BY <2>1, <3>2, <3>3 DEF CountsKept, Begins, Present
  <2>4. QED  BY <1>7, <2>1, <2>2, <2>3, SameMeasure
<1>8. CASE StepEnd(s)
  <2>1. CountsKept(s)
    BY <1>8, MapKeepsCounts, DeleteKeepsCounts DEF StepEnd
  <2>2. pc[s] = "done" /\ pc'[s] = "idle" /\ at'[s] = at[s]
    BY <1>8 DEF StepEnd, MoveTo, TypeOK, LoopTypeOK
  <2>3. QED  BY <2>1, <2>2, LimitedKept DEF Descends, Going, Working, Deciding
<1>9. CASE TurnEnd(s)
  <2>1. CountsKept(s)
    BY <1>9, DeleteKeepsCounts DEF TurnEnd
  <2>2. pc[s] = "idle" /\ pc'[s] = "idle" /\ at'[s] = <<at[s][1] + 1, 0>>
    BY <1>9 DEF TurnEnd, TypeOK, LoopTypeOK
  <2>3. at[s][1] \in Nat /\ at[s][2] \in Nat
    BY AtType
  <2>4. \A k \in Keys : Present(s, k)' => NotAfter(k, at'[s])
    BY <2>1, <2>2, <2>3 DEF Limited, CountsKept, NotAfter, Keys
  <2>5. QED  BY <2>2, <2>4 DEF Limited, Descends, Going, Working, Deciding
<1>10. CASE EarlyTurnEnd(s)
  <2>1. CountsKept(s) /\ UNCHANGED <<at, pc>>
    BY <1>10, DeleteKeepsCounts DEF EarlyTurnEnd, loop
  <2>2. QED  BY <1>10, <2>1, LimitedKept DEF Descends
<1>11. CASE SessionDispose(s)
  <2>1. CountsKept(s) /\ UNCHANGED <<at, pc>>
    BY <1>11, DeleteKeepsCounts DEF SessionDispose, loop
  <2>2. s \in live /\ s \notin live'
    BY <1>11 DEF SessionDispose
  <2>3. Limited(s)'
    BY <2>1, LimitedKept
  <2>4. QED  BY <2>1, <2>2, <2>3, SameMeasure
<1>12. CASE SessionOpen(s)
  <2>1. CountsKept(s) /\ UNCHANGED <<at, pc>> /\ ~Going(s)
    BY <1>12, MapKeepsCounts DEF SessionOpen, loop, memory, Going, Working, Deciding
  <2>2. QED  BY <2>1, LimitedKept DEF Descends
<1>13. QED
  BY <1>1, <1>2, <1>3, <1>4, <1>5, <1>6, <1>7, <1>8, <1>9, <1>10, <1>11, <1>12
     DEF Request, Cleanup

LEMMA UntouchedDescends ==
  ASSUME TypeOK, NEW t \in Sessions, HeldDecision(t), Limited(t), Untouched(t)
  PROVE  Limited(t)' /\ Descends(t)
<1>1. CountsKept(t) /\ at'[t] = at[t] /\ pc'[t] = pc[t] /\ (t \in live' => t \in live)
  BY DEF Untouched, LoopKept, CountsKept, Present
<1>2. Begins(t)' = Begins(t)
  BY <1>1 DEF Untouched, Begins, Present
<1>3. QED  BY <1>1, <1>2, LimitedKept, SameMeasure

LEMMA DescendsNext ==
  ASSUME FailClosed, Accounted, \A s \in Sessions : Limited(s), [Next]_vars, NEW t \in Sessions
  PROVE  Limited(t)' /\ Descends(t)
<1> USE DEF FailClosed, Accounted
<1>0. HeldDecision(t) /\ Limited(t)
  BY DEF LoopHoldsDecision
<1>1. ASSUME NEW s \in Sessions, Request(s) \/ Cleanup(s)  PROVE Limited(t)' /\ Descends(t)
  <2>1. CASE t = s
    BY <1>0, <1>1, <2>1, OwnDescends
  <2>2. CASE t # s
    <3>1. Untouched(t)
      BY <1>1, <2>2, OthersUntouched
    <3>2. QED  BY <1>0, <3>1, UntouchedDescends
  <2>3. QED  BY <2>1, <2>2
<1>2. CASE Crash
  <2>1. pc'[t] = "idle" /\ at'[t] = at[t] /\ \A k \in Keys : requestStates'[t][k] = NoState
    BY <1>2 DEF Crash
  <2>2. CountsKept(t)
    BY <2>1, NoStateType DEF CountsKept, Present
  <2>3. QED  BY <1>0, <2>1, <2>2, LimitedKept DEF Descends, Working, Deciding
<1>3. CASE Restart
  <2>1. UNCHANGED <<requestStates, at, pc>> /\ pc[t] = "idle"
    BY <1>3 DEF Restart, memory, loop, Stored
  <2>2. QED  BY <1>0, <2>1, MapKeepsCounts, LimitedKept DEF Descends, Going, Working, Deciding
<1>4. CASE Reconcile \/ (\E d \in Decisions : Persist(d)) \/ UpdateSettings \/ UNCHANGED vars
  BY <1>0, <1>4, SystemUntouched, UntouchedDescends
<1>5. QED  BY <1>1, <1>2, <1>3, <1>4 DEF Next

\* A step that asks for a model always has an attempt of its limit left, whatever cleanup
\* removed; and until it is over, every answer of the store, of the provider and of the
\* plugin leaves it fewer answers to wait for, and nothing else gives it more, but a
\* turn/end that overtakes it.  With the promises that settle, that is why it ends.
THEOREM StepsComeToAnEnd == Spec => FallbackDescends
<1>1. Init => \A s \in Sessions : Limited(s)
  BY NoStateType DEF Init, Limited, Present, Going, Working, Deciding
<1>2. FailClosed /\ Accounted /\ (\A s \in Sessions : Limited(s)) /\ [Next]_vars
        => (\A s \in Sessions : Limited(s))' /\ [\A s \in Sessions : Descends(s)]_vars
  BY DescendsNext
<1>3. FailClosed /\ Accounted /\ (\A s \in Sessions : Limited(s))
        => \A s \in Sessions : Going(s) => Remaining(s) \in Nat /\ 0 < Remaining(s)
  <2> SUFFICES ASSUME TypeOK, NEW s \in Sessions, HeldDecision(s), Limited(s), Going(s)
               PROVE  Remaining(s) \in Nat /\ 0 < Remaining(s)
    BY DEF FailClosed, LoopHoldsDecision
  <2>1. Begins(s) \in 0 .. MaxAttempts /\ MaxAttempts \in Nat
    BY BeginsType DEF ConstantsAssumption
  <2>2. StageRank(pc[s]) \in 1 .. 5
    BY DEF StageRank, Going, Working, Deciding
  <2>3. PICK a, n : a = StageRank(pc[s]) /\ n = Begins(s)
    OBVIOUS
  <2>4. Remaining(s) = (IF s \in live THEN 6 * (MaxAttempts - n) ELSE 0) + a
    BY <2>3 DEF Remaining
  <2>5. QED  BY <2>1, <2>2, <2>3, <2>4
<1>4. QED
  BY <1>1, <1>2, <1>3, AlwaysAccounted, PTL DEF Spec, FallbackDescends

-----------------------------------------------------------------------------
(* Why the reconciliation of a start comes to an end.                       *)

\* The row that is reconciled is still on the list, and so are only rows there are.
Listed ==
  /\ reconciling.current # NoDecision => reconciling.current \in reconciling.todo
  /\ \A d \in reconciling.todo : d \in Decisions /\ rows[d].state # "absent"

\* While the process is up nothing is added to the list.  A step of the reconciliation
\* takes a row up, or one off the list and has none in hand.
ListShrinks ==
  up /\ up' =>
    /\ reconciling'.todo \subseteq reconciling.todo
    /\ Reconcile =>
         \/ /\ reconciling.current = NoDecision /\ reconciling'.current \in Decisions
            /\ reconciling'.todo = reconciling.todo
         \/ /\ reconciling'.current = NoDecision
            /\ reconciling'.todo # reconciling.todo

ReconcileDescends == []Listed /\ [][ListShrinks]_vars

\* The reconciliation takes up every row it found at most once, and each of its steps,
\* acknowledged, failed or given up, brings it nearer to the end of its list: requests,
\* disposals and openings that go on meanwhile add nothing to it.
THEOREM ReconcileComesToAnEnd == Spec => ReconcileDescends
<1>1. Init => Listed
  BY DEF Init, Listed
<1>2. ASSUME FailClosed, Listed, [Next]_vars  PROVE Listed' /\ ListShrinks
  <2>0. /\ reconciling \in [todo : SUBSET Decisions, current : Decisions \cup {NoDecision}]
        /\ NoDecision \notin Decisions
    BY <1>2, NoDecisionType DEF FailClosed, TypeOK, ProcessTypeOK
  <2>1. \A d \in Decisions : rows[d].state # "absent" => rows'[d].state # "absent"
    BY <1>2, RowsNext DEF RowsForward
  <2>2. ASSUME UNCHANGED <<reconciling>>  PROVE Listed'
    BY <1>2, <2>1, <2>2 DEF Listed
  <2>3. ASSUME NEW d \in Decisions, ReconcileAppend(d)  PROVE Listed' /\ ListShrinks
    <3>1. CASE reconciling' = [reconciling EXCEPT !.current = d]
      BY <1>2, <2>0, <2>1, <2>3, <3>1 DEF ReconcileAppend, Listed, ListShrinks
    <3>2. CASE reconciling' = [reconciling EXCEPT !.todo = @ \ {d}]
      BY <1>2, <2>0, <2>1, <2>3, <3>2 DEF ReconcileAppend, Listed, ListShrinks
    <3>3. QED  BY <2>3, <3>1, <3>2 DEF ReconcileAppend
  <2>4. CASE ReconcileAcked \/ ReconcileFailed
    <3>1. /\ reconciling.current # NoDecision
          /\ reconciling' = [todo |-> reconciling.todo \ {reconciling.current},
                             current |-> NoDecision]
      BY <2>4 DEF ReconcileAcked, ReconcileFailed, ReconcileDone
    <3>2. reconciling.current \in reconciling.todo
      BY <1>2, <3>1 DEF Listed
    <3>3. QED  BY <1>2, <2>0, <2>1, <3>1, <3>2 DEF Listed, ListShrinks
  <2>5. CASE Crash
    BY <2>5 DEF Crash, Listed, ListShrinks
  <2>6. CASE Restart
    BY <1>2, <2>1, <2>6 DEF Restart, Listed, ListShrinks, Pending
  <2>7. ASSUME UNCHANGED <<reconciling>>, ~Reconcile  PROVE Listed' /\ ListShrinks
    BY <2>2, <2>7 DEF ListShrinks
  <2>8. CASE (\E s \in Sessions : Request(s) \/ Cleanup(s)) \/ (\E d \in Decisions : Persist(d))
             \/ UpdateSettings \/ UNCHANGED vars
    <3>1. UNCHANGED reconciling
      BY <2>8, Zenon DEF Request, PreStep, ClassifyStep, SelectModel, SelectModelFails,
         FlushAcked, FlushFailed, CommitFails, Dispatch, Abandon, PartialOutput, CloseStream,
         CloseStreamFails, RequestError, Cleanup, StepEnd, TurnEnd, EarlyTurnEnd,
         SessionDispose, SessionOpen, Persist, UpdateSettings, vars, process
    <3>2. CASE Reconcile
      BY <2>3, <2>4, <3>2 DEF Reconcile
    <3>3. QED  BY <2>7, <3>1, <3>2
  <2>9. QED  BY <1>2, <2>3, <2>4, <2>5, <2>6, <2>8 DEF Next, Reconcile
<1>3. QED
  BY <1>1, <1>2, Inductive, PTL DEF Spec, ReconcileDescends

-----------------------------------------------------------------------------
(* What leaves a current step behind.                                       *)

\* No step of a session that was disposed of still asks for a model.
OnlyOpenSessionsAsk ==
  [][\A s \in Sessions : SelectModel(s) \/ SelectModelFails(s) => s \in live]_vars

NotLiveForgotten ==
  /\ ~up => live = {}
  /\ \A s \in Sessions : s \notin live => currentTurnStep[s] = NoKey

\* That is the only way: the entry a disposed session leaves in _currentTurnStep is made
\* by a step that asks for a model after the disposal, never one that was there before.
THEOREM ForgottenUnlessAsked == Spec /\ OnlyOpenSessionsAsk => []DisposedSessionsForgotten
<1> DEFINE Asks == \A s \in Sessions : SelectModel(s) \/ SelectModelFails(s) => s \in live
<1>1. Init => NotLiveForgotten
  BY DEF Init, NotLiveForgotten
<1>2. ASSUME TypeOK, NotLiveForgotten, [Next]_vars, [Asks]_vars  PROVE NotLiveForgotten'
  <2>0. currentTurnStep \in [Sessions -> Keys \cup {NoKey}]
    BY <1>2 DEF TypeOK, MemoryTypeOK
  <2>1. ASSUME NEW s \in Sessions, Request(s), ~SelectModel(s), ~SelectModelFails(s)
        PROVE  UNCHANGED <<up, live, currentTurnStep>>
    BY <2>1, Zenon DEF Request, PreStep, ClassifyStep, FlushAcked, FlushFailed, CommitFails,
       Dispatch, Abandon, PartialOutput, CloseStream, CloseStreamFails, RequestError, process,
       memory
  <2>2. ASSUME NEW s \in Sessions, SelectModel(s) \/ SelectModelFails(s)
        PROVE  NotLiveForgotten'
    <3>1. EnterRequest(s) /\ UNCHANGED <<up, live>> /\ up /\ pc[s] = "request" /\ pc'[s] # "request"
      BY <1>2, <2>2 DEF SelectModel, SelectModelFails, process, MoveTo, TypeOK, LoopTypeOK
    <3>2. s \in live
      BY <1>2, <2>2, <3>1 DEF vars, loop
    <3>3. currentTurnStep' = [currentTurnStep EXCEPT ![s] = at[s]]
      BY <3>1 DEF EnterRequest
    <3>4. QED  BY <1>2, <2>0, <3>1, <3>2, <3>3 DEF NotLiveForgotten
  <2>3. ASSUME NEW s \in Sessions, SessionDispose(s)  PROVE NotLiveForgotten'
    BY <1>2, <2>0, <2>3 DEF SessionDispose, NotLiveForgotten
  <2>4. ASSUME NEW s \in Sessions, SessionOpen(s)  PROVE NotLiveForgotten'
    BY <1>2, <2>4 DEF SessionOpen, NotLiveForgotten, memory
  <2>5. ASSUME NEW s \in Sessions, StepEnd(s) \/ TurnEnd(s) \/ EarlyTurnEnd(s)
        PROVE  UNCHANGED <<up, live, currentTurnStep>>
    BY <2>5 DEF StepEnd, TurnEnd, EarlyTurnEnd, process
  <2>6. CASE Crash
    BY <2>6 DEF Crash, NotLiveForgotten
  <2>7. CASE Restart
    BY <1>2, <2>7 DEF Restart, NotLiveForgotten, memory
  <2>8. ASSUME Reconcile \/ (\E d \in Decisions : Persist(d)) \/ UpdateSettings \/ UNCHANGED vars
        PROVE  UNCHANGED <<up, live, currentTurnStep>>
    BY <2>8 DEF Reconcile, ReconcileAppend, ReconcileAcked, ReconcileFailed, Persist,
       UpdateSettings, vars, process, memory
  <2>9. UNCHANGED <<up, live, currentTurnStep>> => NotLiveForgotten'
    BY <1>2 DEF NotLiveForgotten
  <2>10. QED
    BY <1>2, <2>1, <2>2, <2>3, <2>4, <2>5, <2>6, <2>7, <2>8, <2>9 DEF Next, Cleanup
<1>3. NotLiveForgotten => DisposedSessionsForgotten
  BY DEF NotLiveForgotten, DisposedSessionsForgotten
<1> HIDE DEF Asks
<1>4. OnlyOpenSessionsAsk <=> [][Asks]_vars
  BY DEF OnlyOpenSessionsAsk, Asks
<1>5. QED
  BY <1>1, <1>2, <1>3, <1>4, TypeCorrect, PTL DEF Spec

=============================================================================
