-------------------------- MODULE Classifier_proofs --------------------------
(***************************************************************************)
(* Theorems of Classifier, for any steps, inputs, outputs and bounds: one  *)
(* call at a time for an input, answers of the step's own input and        *)
(* revision, no failure served from the cache, and a bound on how long a   *)
(* step can be kept waiting.                                               *)
(*                                                                         *)
(* The table of calls under way, the calls and the steps that wait must    *)
(* agree: a call is registered under its key, its own step waits for it,   *)
(* and everybody who waits asked for that key (Agreement).                 *)
(***************************************************************************)
EXTENDS Classifier, TLAPS

\* What the cache holds was sure enough, and computed for the key it is stored under.
CacheSound ==
  \A k \in Keys : cache[k] # NoEntry =>
    /\ cache[k] \in Entries /\ cache[k].under = k
    /\ cache[k].result.confidence >= Threshold

CallsSound ==
  \A s \in Steps : call[s] # NoCall =>
    /\ call[s] \in OpenCalls /\ call[s].under = call[s].key
    /\ inflight[call[s].key] = s
    /\ step[s].phase = "waiting" /\ step[s].on = s

WaitersSound ==
  \A s \in Steps : step[s].phase = "waiting" =>
    call[step[s].on] # NoCall /\ call[step[s].on].key = step[s].asked

InflightSound ==
  \A k \in Keys : inflight[k] # NoStep => call[inflight[k]] # NoCall /\ call[inflight[k]].key = k

AnswerSound(a) ==
  a.phase = "answered" =>
    /\ a.answer.under = a.asked
    /\ a.answer.by = "cache" =>
         a.began - a.answer.at <= Ttl /\ a.answer.result.confidence >= Threshold

Agreement ==
  /\ CacheSound /\ CallsSound /\ WaitersSound /\ InflightSound
  /\ \A s \in Steps : AnswerSound(step[s])

Types ==
  /\ revision \in Revisions
  /\ cache \in [Keys -> Entries \cup {NoEntry}]
  /\ inflight \in [Keys -> Steps \cup {NoStep}]
  /\ call \in [Steps -> OpenCalls \cup {NoCall}]
  /\ step \in [Steps -> StepRecords]
  /\ extension \in BOOLEAN
  /\ now \in 0 .. MaxTime /\ classified \in 0 .. MaxClassify /\ restarts \in 0 .. MaxRestarts

Settled == Types /\ Agreement

-----------------------------------------------------------------------------
(* Records.                                                                 *)

LEMMA OpenIsCall ==
  ASSUME NEW c \in OpenCalls \cup {NoCall}
  PROVE  c.open <=> c # NoCall
<1>1. NoCall.open = FALSE
  BY DEF NoCall
<1>2. CASE c \in OpenCalls
  <2>1. c.open = TRUE
    BY <1>2 DEF OpenCalls
  <2> QED
    BY <1>1, <2>1, Zenon
<1>3. CASE c = NoCall
  BY <1>1, <1>3, Zenon
<1> QED
  BY <1>2, <1>3

\* Every answer has its type.
LEMMA ResultsTyped ==
  /\ Default \in Results
  /\ \A in \in Inputs : Hinted(in) => ByHint(in) \in Results
  /\ \A in \in Inputs : Matching(in) # {} => ByRule(in) \in Results
  /\ \A o \in Outputs : Parsed(o) \in Results
<1>1. Default \in Results
  BY ClassifierAssumption DEF ClassifierAssumption, Default, Result, Results, Sources
<1>2. ASSUME NEW in \in Inputs, Hinted(in) PROVE ByHint(in) \in Results
  <2>1. in.hint \in TaskTypes \cup {"none"} /\ {"vision", "tool_use"} \subseteq TaskTypes
    BY ClassifierAssumption DEF ClassifierAssumption, InputRecords
  <2> QED
    BY <1>2, <2>1 DEF ByHint, Result, Results, Sources
<1>3. ASSUME NEW in \in Inputs, Matching(in) # {} PROVE ByRule(in) \in Results
  <2>1. \A i \in 1 .. Len(Rules) : Rules[i].result \in Results
    BY ClassifierAssumption DEF ClassifierAssumption, Rules, Result, Results, Sources
  <2>2. \E i \in Matching(in) : \A j \in Matching(in) : i <= j
    <3>1. Len(Rules) = 5
      BY DEF Rules
    <3>2. Matching(in) \subseteq {1, 2, 3, 4, 5}
      BY <3>1 DEF Matching
    <3> QED
      BY <1>3, <3>2
  <2> DEFINE least == CHOOSE i \in Matching(in) : \A j \in Matching(in) : i <= j
  <2>3. least \in Matching(in)
    BY <2>2
  <2> QED
    BY <2>1, <2>3 DEF ByRule, Matching
<1>4. ASSUME NEW o \in Outputs PROVE Parsed(o) \in Results
  <2>1. o.confidence \in Int
    BY ClassifierAssumption DEF ClassifierAssumption
  <2>2. Clamped(o.confidence) \in 0 .. 100
    BY <2>1 DEF Clamped
  <2> QED
    BY <1>1, <2>2 DEF Parsed, Result, Results, Sources
<1> QED
  BY <1>1, <1>2, <1>3, <1>4

\* An answered step has its type.
LEMMA AnsweredTyped ==
  ASSUME NEW asked \in Keys, NEW began \in Nat, NEW result \in Results,
         NEW by \in {"static", "cache", "call"}, NEW at \in 0 .. MaxTime, NEW under \in Keys
  PROVE  Answered(asked, began, result, by, at, under) \in StepRecords
BY DEF Answered, StepRecords, Answers

LEMMA KeyTyped ==
  ASSUME NEW in \in Inputs, Types
  PROVE  Key(in) \in Keys /\ Key(in) = <<in, revision>>
BY DEF Key, Keys, Types

-----------------------------------------------------------------------------
(* The steps.                                                               *)

LEMMA InitSettled == Init => Settled
<1> SUFFICES ASSUME Init PROVE Settled
  OBVIOUS
<1>1. Types
  <2>1. /\ revision \in Revisions /\ now \in 0 .. MaxTime
        /\ classified \in 0 .. MaxClassify /\ restarts \in 0 .. MaxRestarts
    BY ClassifierAssumption DEF ClassifierAssumption, Init, Revisions
  <2>2. /\ cache \in [Keys -> Entries \cup {NoEntry}]
        /\ inflight \in [Keys -> Steps \cup {NoStep}]
        /\ call \in [Steps -> OpenCalls \cup {NoCall}]
    BY DEF Init
  <2>3. step \in [Steps -> StepRecords]
    BY DEF Init, Idle, StepRecords
  <2>4. extension \in BOOLEAN
    BY Zenon DEF Init
  <2> QED
    BY <2>1, <2>2, <2>3, <2>4, Zenon DEF Types
<1>2. Agreement
  BY DEF Init, Agreement, CacheSound, CallsSound, WaitersSound, InflightSound, AnswerSound,
         Idle
<1> QED
  BY <1>1, <1>2 DEF Settled

\* A step that waits for nothing moves to where it waits for nothing.
LEMMA StepMoves ==
  ASSUME Settled, NEW s \in Steps, NEW r \in StepRecords, r.phase # "waiting", AnswerSound(r),
         step[s].phase # "waiting", step' = [step EXCEPT ![s] = r],
         UNCHANGED <<revision, cache, inflight, call, extension, now, restarts>>,
         classified' \in 0 .. MaxClassify
  PROVE  Settled'
<1>1. Types'
  BY DEF Settled, Types
<1>2. CacheSound' /\ InflightSound'
  BY DEF Settled, Agreement, CacheSound, InflightSound
<1>3. CallsSound'
  BY DEF Settled, Agreement, CallsSound, Types
<1>4. WaitersSound' /\ \A t \in Steps : AnswerSound(step'[t])
  BY DEF Settled, Agreement, WaitersSound, Types
<1> QED
  BY <1>1, <1>2, <1>3, <1>4 DEF Settled, Agreement

\* A step that asks for a key somebody's call is under way for waits for that call.
LEMMA StepWaits ==
  ASSUME Settled, NEW s \in Steps, NEW in \in Inputs, NEW w \in Steps,
         call[w] # NoCall, call[w].key = <<in, revision>>,
         step[s].phase # "waiting", step' = [step EXCEPT ![s] = WaitingOn(in, w)],
         UNCHANGED <<revision, cache, inflight, call, extension, now, restarts>>,
         classified' \in 0 .. MaxClassify
  PROVE  Settled'
<1>1. /\ WaitingOn(in, w) \in StepRecords /\ WaitingOn(in, w).phase = "waiting"
      /\ WaitingOn(in, w).on = w /\ WaitingOn(in, w).asked = <<in, revision>>
  BY ClassifierAssumption
     DEF ClassifierAssumption, WaitingOn, StepRecords, Keys, Settled, Types
<1>2. Types'
  BY <1>1 DEF Settled, Types
<1>3. CacheSound' /\ InflightSound'
  BY DEF Settled, Agreement, CacheSound, InflightSound
<1>4. CallsSound'
  BY DEF Settled, Agreement, CallsSound, Types
<1>5. WaitersSound' /\ \A t \in Steps : AnswerSound(step'[t])
  BY <1>1 DEF Settled, Agreement, WaitersSound, Types, AnswerSound
<1> QED
  BY <1>2, <1>3, <1>4, <1>5 DEF Settled, Agreement

\* A call is started for a key nobody's call is under way for, by a step without one.
LEMMA StartsKeeps ==
  ASSUME Settled, NEW s \in Steps, NEW in \in Inputs, ClassifyAlone(s, in)
  PROVE  Settled'
<1> DEFINE k == <<in, revision>>
           c == [open |-> TRUE, key |-> k, deadline |-> now + Budget, heard |-> FALSE,
                 under |-> k]
<1>0. /\ k \in Keys /\ Key(in) = k /\ now \in Nat /\ Budget \in Nat /\ NoStep \notin Steps
      /\ step[s].phase # "waiting" /\ call[s] = NoCall /\ inflight[k] = NoStep
  BY KeyTyped, ClassifierAssumption
     DEF ClassifierAssumption, ClassifyAlone, NeedsModel, Begins, Settled, Types, Agreement,
         CallsSound
<1>1. /\ call' = [call EXCEPT ![s] = c] /\ inflight' = [inflight EXCEPT ![k] = s]
      /\ step' = [step EXCEPT ![s] = WaitingOn(in, s)]
      /\ UNCHANGED <<revision, cache, extension, now, restarts>>
      /\ classified' \in 0 .. MaxClassify
  BY <1>0, ClassifierAssumption
     DEF ClassifierAssumption, ClassifyAlone, NeedsModel, Begins, Starts, Settled, Types
<1>2. c \in OpenCalls /\ c # NoCall /\ c.key = k /\ c.under = k
  BY <1>0 DEF OpenCalls, NoCall
<1>3. /\ WaitingOn(in, s) \in StepRecords /\ WaitingOn(in, s).phase = "waiting"
      /\ WaitingOn(in, s).on = s /\ WaitingOn(in, s).asked = k
  BY <1>0 DEF WaitingOn, StepRecords
<1> HIDE DEF c, k
<1>4. Types'
  BY <1>0, <1>1, <1>2, <1>3 DEF Settled, Types
<1>5. CacheSound'
  BY <1>1 DEF Settled, Agreement, CacheSound
<1>6. CallsSound'
  <2> SUFFICES ASSUME NEW t \in Steps, call'[t] # NoCall
               PROVE  /\ call'[t] \in OpenCalls /\ call'[t].under = call'[t].key
                      /\ inflight'[call'[t].key] = t
                      /\ step'[t].phase = "waiting" /\ step'[t].on = t
    BY DEF CallsSound
  <2>1. CASE t = s
    BY <1>0, <1>1, <1>2, <1>3, <2>1 DEF Settled, Types
  <2>2. CASE t # s
    <3>1. call'[t] = call[t] /\ step'[t] = step[t]
      BY <1>1, <2>2 DEF Settled, Types
    <3>2. /\ call[t] \in OpenCalls /\ call[t].under = call[t].key
          /\ inflight[call[t].key] = t /\ step[t].phase = "waiting" /\ step[t].on = t
      BY <3>1 DEF Settled, Agreement, CallsSound
    <3>3. call[t].key # k /\ call[t].key \in Keys
      BY <1>0, <3>2 DEF OpenCalls
    <3> QED
      BY <1>1, <3>1, <3>2, <3>3 DEF Settled, Types
  <2> QED
    BY <2>1, <2>2
<1>7. WaitersSound'
  BY <1>0, <1>1, <1>2, <1>3 DEF Settled, Agreement, WaitersSound, Types, StepRecords
<1>8. InflightSound'
  BY <1>0, <1>1, <1>2, <1>3 DEF Settled, Agreement, InflightSound, Types
<1>9. \A t \in Steps : AnswerSound(step'[t])
  BY <1>1, <1>3 DEF Settled, Agreement, AnswerSound, Types
<1> QED
  BY <1>4, <1>5, <1>6, <1>7, <1>8, <1>9 DEF Settled, Agreement

LEMMA ChunkKeeps ==
  ASSUME Settled, NEW s \in Steps, Chunk(s)
  PROVE  Settled'
<1> DEFINE c == [call[s] EXCEPT !.heard = TRUE]
<1>1. call[s] \in OpenCalls
  BY OpenIsCall DEF Settled, Types, Chunk
<1>2. c \in OpenCalls /\ c # NoCall /\ c.key = call[s].key /\ c.under = call[s].under
  BY <1>1 DEF OpenCalls, NoCall
<1>3. call' = [call EXCEPT ![s] = c]
      /\ UNCHANGED <<revision, cache, inflight, step, extension, now, classified, restarts>>
  BY Zenon DEF Chunk
<1>4. call[s] # NoCall
  BY <1>1, OpenIsCall, Zenon DEF Chunk
<1> HIDE DEF c
<1>5. Types' /\ CacheSound'
  BY <1>2, <1>3 DEF Settled, Types, Agreement, CacheSound
<1>6. CallsSound'
  BY <1>2, <1>3, <1>4 DEF Settled, Types, Agreement, CallsSound
<1>7. WaitersSound'
  BY <1>2, <1>3, <1>4 DEF Settled, Types, Agreement, WaitersSound, StepRecords
<1>8. InflightSound' /\ \A t \in Steps : AnswerSound(step'[t])
  BY <1>2, <1>3, <1>4 DEF Settled, Types, Agreement, InflightSound
<1> QED
  BY <1>5, <1>6, <1>7, <1>8 DEF Settled, Agreement

\* A call ends: everybody who waits for it is answered, and only they; an answer that
\* is stored is sure enough and the call's own.
LEMMA SettleKeeps ==
  ASSUME Settled, NEW s \in Steps, call[s].open, NEW result \in Results, Settle(s, result),
         \/ cache' = cache
         \/ cache' = Stored(s, result) /\ result.confidence >= Threshold
  PROVE  Settled'
<1> DEFINE c == call[s]
<1>1. /\ c \in OpenCalls /\ c # NoCall /\ c.key \in Keys /\ c.under = c.key
      /\ inflight[c.key] = s /\ NoStep \notin Steps
  BY OpenIsCall, ClassifierAssumption
     DEF ClassifierAssumption, Settled, Types, Agreement, CallsSound, OpenCalls
<1>2. /\ call' = [call EXCEPT ![s] = NoCall] /\ inflight' = [inflight EXCEPT ![c.key] = NoStep]
      /\ UNCHANGED <<revision, extension, now, classified, restarts>>
  BY DEF Settle
<1>3. ASSUME NEW t \in Steps, step[t].phase = "waiting", step[t].on = s
      PROVE  /\ step'[t] \in StepRecords /\ step'[t].phase = "answered" /\ AnswerSound(step'[t])
  <2>1. step'[t] = Answered(step[t].asked, step[t].began, result, "call", now, c.under)
    BY <1>3 DEF Settle
  <2>2. step[t].asked \in Keys /\ step[t].began \in Nat /\ step[t].asked = c.key
        /\ now \in 0 .. MaxTime
    BY <1>3 DEF Settled, Types, StepRecords, Agreement, WaitersSound
  <2>3. step'[t] \in StepRecords
    BY <1>1, <2>1, <2>2, AnsweredTyped
  <2>4. /\ step'[t].phase = "answered" /\ step'[t].asked = c.key
        /\ step'[t].answer.under = c.key /\ step'[t].answer.by = "call"
    BY <1>1, <2>1, <2>2 DEF Answered
  <2> QED
    BY <2>3, <2>4 DEF AnswerSound
<1>4. ASSUME NEW t \in Steps, ~(step[t].phase = "waiting" /\ step[t].on = s)
      PROVE  step'[t] = step[t]
  BY <1>4 DEF Settle
<1>5. cache' \in [Keys -> Entries \cup {NoEntry}] /\ CacheSound'
  <2> DEFINE e == [result |-> result, at |-> now, under |-> c.under]
  <2>1. e \in Entries /\ e.under = c.key /\ e.result = result
    BY <1>1 DEF Entries, Settled, Types
  <2>2. cache' = cache \/ cache' = [cache EXCEPT ![c.key] = e]
    BY DEF Stored
  <2>3. CASE cache' = cache
    BY <2>3 DEF Settled, Types, Agreement, CacheSound
  <2>4. CASE cache' = [cache EXCEPT ![c.key] = e] /\ result.confidence >= Threshold
    <3> HIDE DEF e, c
    <3> QED
      BY <1>1, <2>1, <2>4 DEF Settled, Types, Agreement, CacheSound
  <2> QED
    BY <2>3, <2>4 DEF Stored
<1>6. step' \in [Steps -> StepRecords]
  <2>1. \A t \in Steps : step'[t] \in StepRecords
    BY <1>3, <1>4 DEF Settled, Types
  <2>2. DOMAIN step' = Steps /\ step' = [t \in Steps |-> step'[t]]
    BY DEF Settle
  <2> QED
    BY <2>1, <2>2
<1>7. Types'
  BY <1>1, <1>2, <1>5, <1>6 DEF Settled, Types
<1>8. CallsSound'
  <2> SUFFICES ASSUME NEW t \in Steps, call'[t] # NoCall
               PROVE  /\ call'[t] \in OpenCalls /\ call'[t].under = call'[t].key
                      /\ inflight'[call'[t].key] = t
                      /\ step'[t].phase = "waiting" /\ step'[t].on = t
    BY DEF CallsSound
  <2>1. t # s /\ call'[t] = call[t]
    BY <1>2 DEF Settled, Types
  <2>2. /\ call[t] \in OpenCalls /\ call[t].under = call[t].key
        /\ inflight[call[t].key] = t /\ step[t].phase = "waiting" /\ step[t].on = t
    BY <2>1 DEF Settled, Agreement, CallsSound
  <2>3. step'[t] = step[t] /\ call[t].key # c.key /\ call[t].key \in Keys
    BY <1>1, <1>4, <2>1, <2>2 DEF OpenCalls
  <2> QED
    BY <1>2, <2>1, <2>2, <2>3 DEF Settled, Types
<1>9. WaitersSound'
  <2> SUFFICES ASSUME NEW t \in Steps, step'[t].phase = "waiting"
               PROVE  call'[step'[t].on] # NoCall /\ call'[step'[t].on].key = step'[t].asked
    BY DEF WaitersSound
  <2>1. step'[t] = step[t] /\ step[t].phase = "waiting" /\ step[t].on # s
    BY <1>3, <1>4
  <2>2. step[t].on \in Steps
    BY <2>1 DEF Settled, Types, StepRecords
  <2> QED
    BY <1>2, <2>1, <2>2 DEF Settled, Types, Agreement, WaitersSound
<1>10. InflightSound'
  <2> SUFFICES ASSUME NEW k \in Keys, inflight'[k] # NoStep
               PROVE  call'[inflight'[k]] # NoCall /\ call'[inflight'[k]].key = k
    BY DEF InflightSound
  <2>1. k # c.key /\ inflight'[k] = inflight[k]
    BY <1>1, <1>2 DEF Settled, Types
  <2>2. inflight[k] \in Steps /\ call[inflight[k]] # NoCall /\ call[inflight[k]].key = k
    BY <2>1 DEF Settled, Types, Agreement, InflightSound
  <2>3. inflight[k] # s
    BY <2>1, <2>2
  <2> QED
    BY <1>2, <2>1, <2>2, <2>3 DEF Settled, Types
<1>11. \A t \in Steps : AnswerSound(step'[t])
  BY <1>3, <1>4 DEF Settled, Agreement
<1> QED
  BY <1>5, <1>7, <1>8, <1>9, <1>10, <1>11 DEF Settled, Agreement

\* A classification that needs no call of its own: by hint or rule, from the table,
\* from an extension, or not at all.
LEMMA WithoutCallKeeps ==
  ASSUME Settled, NEW s \in Steps,
         \/ \E in \in Inputs : ClassifyStatic(s, in) \/ ClassifyCached(s, in) \/ ClassifyFails(s, in)
         \/ ClassifyExtension(s)
         \/ \E phase \in {"idle", "failed"} : ExtensionEnds(s, phase)
  PROVE  Settled'
<1>0. /\ now \in 0 .. MaxTime /\ now \in Nat /\ classified \in 0 .. MaxClassify
      /\ MaxClassify \in Nat
  BY ClassifierAssumption DEF ClassifierAssumption, Settled, Types
<1>1. ASSUME NEW in \in Inputs, ClassifyStatic(s, in) PROVE Settled'
  <2> DEFINE result == IF Hinted(in) THEN ByHint(in) ELSE ByRule(in)
             r == Answered(<<in, revision>>, now, result, "static", now, <<in, revision>>)
  <2>1. result \in Results /\ <<in, revision>> \in Keys
    BY <1>1, ResultsTyped, KeyTyped DEF ClassifyStatic, Settled
  <2>2. r \in StepRecords
    BY <1>0, <2>1, AnsweredTyped
  <2>3. r.phase = "answered" /\ AnswerSound(r)
    BY DEF Answered, AnswerSound
  <2> HIDE DEF result
  <2>4. /\ step[s].phase # "waiting" /\ step' = [step EXCEPT ![s] = r]
        /\ UNCHANGED <<revision, cache, inflight, call, extension, now, restarts>>
        /\ classified' \in 0 .. MaxClassify
    BY <1>0, <1>1 DEF ClassifyStatic, Begins, result
  <2> HIDE DEF r
  <2> QED
    BY <2>2, <2>3, <2>4, StepMoves
<1>2. ASSUME NEW in \in Inputs, ClassifyCached(s, in) PROVE Settled'
  <2> DEFINE e == cache[Key(in)]
             r == Answered(<<in, revision>>, now, e.result, "cache", e.at, e.under)
  <2>1. /\ <<in, revision>> \in Keys /\ Key(in) = <<in, revision>>
        /\ e \in Entries /\ e.under = <<in, revision>> /\ e.result.confidence >= Threshold
        /\ now - e.at <= Ttl
    BY <1>2, KeyTyped DEF ClassifyCached, Cached, Settled, Agreement, CacheSound
  <2>2. r \in StepRecords
    BY <1>0, <2>1, AnsweredTyped DEF Entries
  <2>3. r.phase = "answered" /\ AnswerSound(r)
    BY <2>1 DEF Answered, AnswerSound
  <2>4. /\ step[s].phase # "waiting" /\ step' = [step EXCEPT ![s] = r]
        /\ UNCHANGED <<revision, cache, inflight, call, extension, now, restarts>>
        /\ classified' \in 0 .. MaxClassify
    BY <1>0, <1>2 DEF ClassifyCached, NeedsModel, Begins
  <2> HIDE DEF r
  <2> QED
    BY <2>2, <2>3, <2>4, StepMoves
<1>3. ASSUME NEW phase \in {"idle", "failed", "extension"}, step[s].phase # "waiting",
             step' = [step EXCEPT ![s] = [phase |-> phase]],
             UNCHANGED <<revision, cache, inflight, call, extension, now, restarts>>,
             classified' \in 0 .. MaxClassify
      PROVE  Settled'
  <2>1. [phase |-> phase] \in StepRecords /\ [phase |-> phase].phase = phase
    BY DEF StepRecords
  <2>2. AnswerSound([phase |-> phase])
    BY <2>1 DEF AnswerSound
  <2> QED
    BY <1>3, <2>1, <2>2, StepMoves
<1>4. ASSUME NEW in \in Inputs, ClassifyFails(s, in) PROVE Settled'
  BY <1>0, <1>3, <1>4 DEF ClassifyFails, NeedsModel, Begins
<1>5. CASE ClassifyExtension(s)
  BY <1>0, <1>3, <1>5 DEF ClassifyExtension, Begins
<1>6. ASSUME NEW phase \in {"idle", "failed"}, ExtensionEnds(s, phase) PROVE Settled'
  BY <1>0, <1>3, <1>6 DEF ExtensionEnds
<1> QED
  BY <1>1, <1>2, <1>4, <1>5, <1>6

LEMMA SharedKeeps ==
  ASSUME Settled, NEW s \in Steps, NEW in \in Inputs, ClassifyShared(s, in)
  PROVE  Settled'
<1> DEFINE w == inflight[Key(in)]
<1>1. /\ w \in Steps /\ call[w] # NoCall /\ call[w].key = <<in, revision>>
  BY KeyTyped DEF ClassifyShared, Settled, Types, Agreement, InflightSound
<1>2. /\ step[s].phase # "waiting" /\ step' = [step EXCEPT ![s] = WaitingOn(in, w)]
      /\ UNCHANGED <<revision, cache, inflight, call, extension, now, restarts>>
      /\ classified' \in 0 .. MaxClassify
  BY ClassifierAssumption
     DEF ClassifierAssumption, ClassifyShared, NeedsModel, Begins, Settled, Types
<1> QED
  BY <1>1, <1>2, StepWaits

\* The call of a step ends, in one of its ways.
LEMMA CallEndsKeeps ==
  ASSUME Settled, NEW s \in Steps,
         CallFails(s) \/ Timeout(s) \/ \E o \in Outputs : Done(s, o)
  PROVE  Settled'
<1>1. CASE CallFails(s)
  BY <1>1, ResultsTyped, SettleKeeps DEF CallFails
<1>2. CASE Timeout(s)
  BY <1>2, ResultsTyped, SettleKeeps DEF Timeout
<1>3. ASSUME NEW o \in Outputs, Done(s, o) PROVE Settled'
  <2>1. /\ Parsed(o) \in Results /\ Settle(s, Parsed(o)) /\ call[s].open
        /\ \/ cache' = cache
           \/ cache' = Stored(s, Parsed(o)) /\ Parsed(o).confidence >= Threshold
    BY <1>3, ResultsTyped DEF Done
  <2> QED
    BY <2>1, SettleKeeps
<1> QED
  BY <1>1, <1>2, <1>3

\* The configuration, the extension and the clock change nothing that was answered.
LEMMA MeanwhileKeeps ==
  ASSUME Settled, UpdateConfig \/ RegisterTaskClassifier \/ Tick \/ UNCHANGED vars
  PROVE  Settled'
<1>1. UNCHANGED <<cache, inflight, call, step, classified, restarts>>
  BY DEF UpdateConfig, RegisterTaskClassifier, Tick, vars
<1>2. revision' \in Revisions /\ now' \in 0 .. MaxTime
  BY ClassifierAssumption
     DEF ClassifierAssumption, UpdateConfig, RegisterTaskClassifier, Tick, vars, Settled, Types,
         Revisions
<1>3. extension' \in BOOLEAN
  BY Zenon DEF UpdateConfig, RegisterTaskClassifier, Tick, vars, Settled, Types
<1>4. Types'
  BY <1>1, <1>2, <1>3, Zenon DEF Settled, Types
<1>5. Agreement'
  BY <1>1 DEF Settled, Agreement, CacheSound, CallsSound, WaitersSound, InflightSound
<1> QED
  BY <1>4, <1>5 DEF Settled

\* After a restart nothing waits; the table keeps what it had.
LEMMA RestartKeeps ==
  ASSUME Settled, Restart
  PROVE  Settled'
<1>1. /\ inflight' = [k \in Keys |-> NoStep] /\ call' = [s \in Steps |-> NoCall]
      /\ step' = [s \in Steps |-> Idle] /\ UNCHANGED <<revision, cache, now, classified>>
      /\ restarts' \in 0 .. MaxRestarts
  BY ClassifierAssumption DEF ClassifierAssumption, Restart, Settled, Types
<1>2. extension' \in BOOLEAN
  BY Zenon DEF Restart
<1>3. step' \in [Steps -> StepRecords]
  BY <1>1 DEF Idle, StepRecords
<1>4. Types'
  BY <1>1, <1>2, <1>3 DEF Settled, Types
<1>5. Agreement'
  BY <1>1 DEF Settled, Agreement, CacheSound, CallsSound, WaitersSound, InflightSound,
              AnswerSound, Idle
<1> QED
  BY <1>4, <1>5 DEF Settled

LEMMA NextSettled == Settled /\ [Next]_vars => Settled'
BY StartsKeeps, WithoutCallKeeps, SharedKeeps, ChunkKeeps, CallEndsKeeps, MeanwhileKeeps,
   RestartKeeps DEF Next

-----------------------------------------------------------------------------
(* Theorems.                                                                *)

\* The inductive invariant holds of every execution.
THEOREM AlwaysSettled == Spec => []Settled
<1> QED
  BY InitSettled, NextSettled, PTL DEF Spec

\* Every variable keeps its type: an answer's confidence is clamped to 0 .. 100
\* whatever the light model writes.
THEOREM TypeCorrect == Spec => []TypeOK
<1>1. Settled => TypeOK
  BY DEF Settled, Types, TypeOK
<1> QED
  BY <1>1, AlwaysSettled, PTL

\* However many steps ask for an input, one call for it is under way at a time.
THEOREM CallsAreShared == Spec => []OneCallPerKey
<1>1. Settled => OneCallPerKey
  <2> SUFFICES ASSUME Settled, NEW s \in Steps, NEW t \in Steps, call[s].open, call[t].open,
                      call[s].key = call[t].key
               PROVE  s = t
    BY DEF OneCallPerKey
  <2>1. call[s] # NoCall /\ call[t] # NoCall
    BY OpenIsCall DEF Settled, Types
  <2> QED
    BY <2>1 DEF Settled, Agreement, CallsSound
<1> QED
  BY <1>1, AlwaysSettled, PTL

\* Every answer was computed for the step's own input, under the revision current when
\* it began, by whichever step and before or after whichever change.
THEOREM AnswersBelong == Spec => []AnswersAreFresh
<1>1. Settled => AnswersAreFresh
  BY DEF Settled, Agreement, AnswerSound, AnswersAreFresh
<1> QED
  BY <1>1, AlwaysSettled, PTL

\* What is answered from the table was sure enough when it was stored.
THEOREM FailuresStayOut == Spec => []FailuresAreNotReused
<1>1. Settled => FailuresAreNotReused
  BY DEF Settled, Agreement, AnswerSound, FailuresAreNotReused
<1> QED
  BY <1>1, AlwaysSettled, PTL

-----------------------------------------------------------------------------
(* Why a classification ends.                                               *)

\* No call may take longer than its budget, from now or from when a step began to wait.
Budgeted ==
  /\ \A s \in Steps : call[s] # NoCall => call[s].deadline <= now + Budget
  /\ \A s \in Steps :
       step[s].phase = "waiting" => call[step[s].on].deadline <= step[s].began + Budget

\* The call a step waits for, and by when it is cut off.
WaitBounded(s) ==
  LET c == call[step[s].on] IN
  step[s].phase = "waiting" =>
    c.open /\ c.key = step[s].asked /\ c.deadline <= step[s].began + Budget

DeadlineKept(s) == call[s].open /\ call'[s].open => call'[s].deadline = call[s].deadline

WaitsAreBounded ==
  /\ [](\A s \in Steps : WaitBounded(s))
  /\ [][\A s \in Steps : DeadlineKept(s)]_vars

\* Steps that leave the calls alone and make no step wait.
LEMMA CallsLeftBudgeted ==
  ASSUME Settled, Budgeted, UNCHANGED call, now' \in Nat, now <= now',
         \A s \in Steps : step'[s].phase = "waiting" => step'[s] = step[s]
  PROVE  Budgeted' /\ \A s \in Steps : DeadlineKept(s)
<1>1. \A s \in Steps : call[s] # NoCall => call[s].deadline \in Nat
  BY DEF Settled, Types, OpenCalls
<1>2. now \in Nat /\ Budget \in Nat
  BY ClassifierAssumption DEF ClassifierAssumption, Settled, Types
<1>3. \A s \in Steps : call'[s] # NoCall => call'[s].deadline <= now' + Budget
  BY <1>1, <1>2 DEF Budgeted
<1>4. \A s \in Steps : step'[s].phase = "waiting" =>
        call'[step'[s].on].deadline <= step'[s].began + Budget
  BY DEF Budgeted
<1> QED
  BY <1>3, <1>4 DEF Budgeted, DeadlineKept

\* A step begins to wait, for a call of its own or for one under way.
LEMMA WaitingBudgeted ==
  ASSUME Settled, Budgeted, NEW s \in Steps, NEW in \in Inputs,
         ClassifyAlone(s, in) \/ ClassifyShared(s, in)
  PROVE  Budgeted' /\ \A t \in Steps : DeadlineKept(t)
<1>0. /\ now \in Nat /\ Budget \in Nat /\ UNCHANGED now
      /\ step \in [Steps -> StepRecords] /\ call \in [Steps -> OpenCalls \cup {NoCall}]
  BY ClassifierAssumption
     DEF ClassifierAssumption, Settled, Types, ClassifyAlone, ClassifyShared, NeedsModel, Begins
<1>1. \A t, w \in Steps : step[t].phase = "waiting" /\ step[t].on = w => call[w] # NoCall
  BY DEF Settled, Agreement, WaitersSound
<1>2. \A w : /\ WaitingOn(in, w).phase = "waiting" /\ WaitingOn(in, w).on = w
             /\ WaitingOn(in, w).began = now
  BY DEF WaitingOn
<1>3. \A t \in Steps : step[t].phase = "waiting" => step[t].on \in Steps
  BY <1>0 DEF StepRecords
<1>4. CASE ClassifyAlone(s, in)
  <2> DEFINE c == [open |-> TRUE, key |-> Key(in), deadline |-> now + Budget, heard |-> FALSE,
                   under |-> <<in, revision>>]
  <2>1. c.deadline = now + Budget /\ NoCall.open = FALSE
    BY DEF NoCall
  <2>2. call' = [call EXCEPT ![s] = c] /\ step' = [step EXCEPT ![s] = WaitingOn(in, s)]
    BY <1>4, Zenon DEF ClassifyAlone, Starts
  <2>3. call[s] = NoCall
    BY <1>4 DEF ClassifyAlone, NeedsModel, Begins, Settled, Agreement, CallsSound
  <2> HIDE DEF c
  <2>4. \A t \in Steps : call'[t] = IF t = s THEN c ELSE call[t]
    BY <1>0, <2>2
  <2>5. \A t \in Steps : step'[t] = IF t = s THEN WaitingOn(in, s) ELSE step[t]
    BY <1>0, <2>2
  <2>6. \A t \in Steps : call'[t] # NoCall => call'[t].deadline <= now' + Budget
    BY <1>0, <2>1, <2>4 DEF Budgeted
  <2>7. ASSUME NEW t \in Steps, step'[t].phase = "waiting"
        PROVE  call'[step'[t].on].deadline <= step'[t].began + Budget
    <3>1. CASE t = s
      BY <1>0, <1>2, <2>1, <2>4, <2>5, <3>1
    <3>2. CASE t # s
      <4>1. step'[t] = step[t] /\ step[t].on \in Steps /\ step[t].on # s
        BY <1>1, <1>3, <2>3, <2>5, <2>7, <3>2
      <4> QED BY <2>4, <2>7, <4>1 DEF Budgeted
    <3> QED BY <3>1, <3>2
  <2>8. \A t \in Steps : DeadlineKept(t)
    BY <2>1, <2>3, <2>4 DEF DeadlineKept
  <2> QED BY <2>6, <2>7, <2>8 DEF Budgeted
<1>5. CASE ClassifyShared(s, in)
  <2> DEFINE w == inflight[Key(in)]
  <2>1. w \in Steps /\ call[w] # NoCall
    BY <1>5, KeyTyped DEF ClassifyShared, Settled, Types, Agreement, InflightSound
  <2>2. UNCHANGED call /\ step' = [step EXCEPT ![s] = WaitingOn(in, w)]
    BY <1>5, Zenon DEF ClassifyShared
  <2> HIDE DEF w
  <2>3. \A t \in Steps : step'[t] = IF t = s THEN WaitingOn(in, w) ELSE step[t]
    BY <1>0, <2>2
  <2>4. call[w].deadline <= now + Budget
    BY <2>1 DEF Budgeted
  <2>5. \A t \in Steps : step'[t].phase = "waiting" =>
          call'[step'[t].on].deadline <= step'[t].began + Budget
    BY <1>2, <2>2, <2>3, <2>4 DEF Budgeted
  <2> QED BY <1>0, <2>2, <2>5 DEF Budgeted, DeadlineKept
<1> QED
  BY <1>4, <1>5

\* A call goes on without a new deadline, or it is over for all who wait for it.
LEMMA CallBudgeted ==
  ASSUME Settled, Budgeted, NEW s \in Steps,
         Chunk(s) \/ (call[s].open /\ \E result : Settle(s, result))
  PROVE  Budgeted' /\ \A t \in Steps : DeadlineKept(t)
<1>0. /\ UNCHANGED now /\ call \in [Steps -> OpenCalls \cup {NoCall}]
      /\ step \in [Steps -> StepRecords]
      /\ \A t \in Steps : step[t].phase = "waiting" => step[t].on \in Steps
  BY DEF Chunk, Settle, Settled, Types, StepRecords
<1>1. CASE Chunk(s)
  <2> DEFINE c == [call[s] EXCEPT !.heard = TRUE]
  <2>1. call' = [call EXCEPT ![s] = c] /\ UNCHANGED step
    BY <1>1, Zenon DEF Chunk
  <2>2. call[s] # NoCall /\ call[s] \in OpenCalls /\ c.deadline = call[s].deadline
    BY <1>0, <1>1, OpenIsCall DEF Chunk, OpenCalls
  <2> HIDE DEF c
  <2>3. \A t \in Steps : call'[t] = IF t = s THEN c ELSE call[t]
    BY <1>0, <2>1
  <2> QED BY <1>0, <2>1, <2>2, <2>3 DEF Budgeted, DeadlineKept
<1>2. ASSUME NEW result, Settle(s, result) PROVE Budgeted' /\ \A t \in Steps : DeadlineKept(t)
  <2>1. \A t \in Steps : call'[t] = IF t = s THEN NoCall ELSE call[t]
    BY <1>0, <1>2 DEF Settle
  <2>2. \A t \in Steps : step'[t].phase = "waiting" => step'[t] = step[t] /\ step[t].on # s
    BY <1>2 DEF Settle, Answered
  <2>3. NoCall.open = FALSE
    BY DEF NoCall
  <2>4. \A t \in Steps : DeadlineKept(t)
    BY <2>1, <2>3 DEF DeadlineKept
  <2> QED BY <1>0, <2>1, <2>2, <2>4 DEF Budgeted
<1> QED
  BY <1>1, <1>2

\* A step waits for an open call of its own input and revision, its own or another step's;
\* that call is cut off, at the latest, a budget after the step began to wait, and nothing
\* puts its deadline off: not a chunk, not a step that joins, not a configuration change.
\* So once a budget has passed the timer is all that is missing for the answer.
THEOREM WaitsEndInTime == Spec => WaitsAreBounded
<1>1. Init => Budgeted
  BY DEF Init, Budgeted, Idle
<1>2. ASSUME Settled, Budgeted, [Next]_vars
      PROVE  Budgeted' /\ \A s \in Steps : DeadlineKept(s)
  <2>0. now \in Nat
    BY <1>2 DEF Settled, Types
  <2>1. ASSUME NEW s \in Steps,
               \/ \E in \in Inputs : ClassifyStatic(s, in) \/ ClassifyCached(s, in)
                                       \/ ClassifyFails(s, in)
               \/ ClassifyExtension(s)
               \/ \E phase \in {"idle", "failed"} : ExtensionEnds(s, phase)
        PROVE  Budgeted' /\ \A t \in Steps : DeadlineKept(t)
    <3>1. UNCHANGED <<call, now>>
      BY <2>1, Zenon DEF ClassifyStatic, ClassifyCached, ClassifyFails, ClassifyExtension,
         ExtensionEnds, NeedsModel, Begins
    <3>2. \E r : r.phase # "waiting" /\ step' = [step EXCEPT ![s] = r]
      <4>1. \A asked, began, result, by, at, under :
              Answered(asked, began, result, by, at, under).phase # "waiting"
        BY DEF Answered
      <4>2. [phase |-> "idle"].phase # "waiting" /\ [phase |-> "failed"].phase # "waiting"
            /\ [phase |-> "extension"].phase # "waiting"
        OBVIOUS
      <4>3. ASSUME NEW in, ClassifyStatic(s, in) \/ ClassifyCached(s, in)
            PROVE  \E r : r.phase # "waiting" /\ step' = [step EXCEPT ![s] = r]
        <5>1. CASE ClassifyStatic(s, in)
          <6> DEFINE r == Answered(<<in, revision>>, now,
                                   IF Hinted(in) THEN ByHint(in) ELSE ByRule(in),
                                   "static", now, <<in, revision>>)
          <6>1. r.phase # "waiting"
            BY <4>1
          <6>2. step' = [step EXCEPT ![s] = r]
            BY <5>1, Zenon DEF ClassifyStatic
          <6> HIDE DEF r
          <6> QED BY <6>1, <6>2, Zenon
        <5>2. CASE ClassifyCached(s, in)
          <6> DEFINE e == cache[Key(in)]
                     r == Answered(<<in, revision>>, now, e.result, "cache", e.at, e.under)
          <6>1. r.phase # "waiting"
            BY <4>1
          <6>2. step' = [step EXCEPT ![s] = r]
            BY <5>2, Zenon DEF ClassifyCached
          <6> HIDE DEF r
          <6> QED BY <6>1, <6>2, Zenon
        <5> QED BY <4>3, <5>1, <5>2
      <4>4. ASSUME NEW phase, phase # "waiting", step' = [step EXCEPT ![s] = [phase |-> phase]]
            PROVE  \E r : r.phase # "waiting" /\ step' = [step EXCEPT ![s] = r]
        <5>1. [phase |-> phase].phase # "waiting"
          BY <4>4
        <5> QED BY <4>4, <5>1, Zenon
      <4>5. ASSUME NEW in, ClassifyFails(s, in)
            PROVE  \E r : r.phase # "waiting" /\ step' = [step EXCEPT ![s] = r]
        BY <4>2, <4>5, Zenon DEF ClassifyFails
      <4>6. CASE ClassifyExtension(s)
        BY <4>2, <4>6, Zenon DEF ClassifyExtension
      <4>7. ASSUME NEW phase \in {"idle", "failed"}, ExtensionEnds(s, phase)
            PROVE  \E r : r.phase # "waiting" /\ step' = [step EXCEPT ![s] = r]
        BY <4>4, <4>7 DEF ExtensionEnds
      <4> QED BY <2>1, <4>3, <4>5, <4>6, <4>7
    <3>3. \A t \in Steps : step'[t].phase = "waiting" => step'[t] = step[t]
      BY <1>2, <3>2 DEF Settled, Types
    <3> QED BY <1>2, <2>0, <3>1, <3>3, CallsLeftBudgeted
  <2>2. ASSUME NEW s \in Steps, NEW in \in Inputs, ClassifyAlone(s, in) \/ ClassifyShared(s, in)
        PROVE  Budgeted' /\ \A t \in Steps : DeadlineKept(t)
    BY <1>2, <2>2, WaitingBudgeted
  <2>3. ASSUME NEW s \in Steps,
               Chunk(s) \/ CallFails(s) \/ Timeout(s) \/ \E o \in Outputs : Done(s, o)
        PROVE  Budgeted' /\ \A t \in Steps : DeadlineKept(t)
    <3>1. Chunk(s) \/ (call[s].open /\ \E result : Settle(s, result))
      BY <2>3, Zenon DEF CallFails, Timeout, Done
    <3> QED BY <1>2, <3>1, CallBudgeted
  <2>4. CASE UpdateConfig \/ RegisterTaskClassifier \/ Tick \/ UNCHANGED vars
    <3>1. UNCHANGED <<call, step>> /\ now' \in Nat /\ now <= now'
      BY <2>0, <2>4 DEF UpdateConfig, RegisterTaskClassifier, Tick, vars
    <3> QED BY <1>2, <3>1, CallsLeftBudgeted
  <2>5. CASE Restart
    BY <2>5 DEF Restart, Budgeted, DeadlineKept, Idle, NoCall
  <2> QED
    BY <1>2, <2>1, <2>2, <2>3, <2>4, <2>5 DEF Next
<1>3. Settled /\ Budgeted => \A s \in Steps : WaitBounded(s)
  <2> SUFFICES ASSUME Settled, Budgeted, NEW s \in Steps, step[s].phase = "waiting"
               PROVE  WaitBounded(s)
    BY DEF WaitBounded
  <2>1. step[s].on \in Steps /\ call[step[s].on] # NoCall /\ call[step[s].on].key = step[s].asked
    BY DEF Settled, Types, StepRecords, Agreement, WaitersSound
  <2>2. call[step[s].on].open
    BY <2>1, OpenIsCall DEF Settled, Types
  <2> QED BY <2>1, <2>2 DEF WaitBounded, Budgeted
<1> QED
  BY <1>1, <1>2, <1>3, AlwaysSettled, PTL DEF Spec, WaitsAreBounded
==============================================================================
