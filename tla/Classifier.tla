----------------------------- MODULE Classifier -----------------------------
(***************************************************************************)
(* The classification of a step for Auto routing: a hint of the context, a *)
(* rule over the text, else one call of a light model, shared by the steps *)
(* that ask for the same input at the same time and cached when it is sure *)
(* enough.  A call is a stream that may deliver, end, fail or hang; all of *)
(* it has one budget of time.  Meanwhile other steps classify, the         *)
(* configuration changes, an extension takes over and the process          *)
(* restarts; the cache table survives.                                     *)
(*                                                                         *)
(* The number of an input stands for its canonical text; confidence is in  *)
(* hundredths.                                                             *)
(***************************************************************************)
EXTENDS Integers, Sequences

CONSTANTS
  Steps,
  TaskTypes,
  Patterns,      \* the patterns of the rules
  Inputs,
  Outputs,       \* what the light model may write
  Threshold,     \* confidence from which an answer is cached
  Budget, Ttl,   \* of a call, of a cached answer
  NoStep, NoEntry,
  MaxRevision, MaxTime, MaxClassify, MaxRestarts     \* bounds

Sources == {"hint", "rule", "llm"}
Results == [task : TaskTypes, confidence : 0 .. 100, source : Sources]

InputRecords ==
  [text : Nat, hint : TaskTypes \cup {"none"}, image : BOOLEAN, tool : BOOLEAN,
   matches : SUBSET Patterns]

ASSUME ClassifierAssumption ==
  /\ {"general", "coding", "data_analysis", "writing", "vision", "tool_use"} \subseteq TaskTypes
  /\ {"fence", "stack", "sql", "table", "long"} \subseteq Patterns
  /\ Inputs \subseteq InputRecords
  /\ \A o \in Outputs : o.confidence \in Int
  /\ Threshold \in 0 .. 100 /\ Budget \in Nat \ {0} /\ Ttl \in Nat
  /\ NoStep \notin Steps
  /\ MaxRevision \in Nat \ {0} /\ {MaxTime, MaxClassify, MaxRestarts} \subseteq Nat

Revisions == 1 .. MaxRevision
Keys == Inputs \X Revisions

-----------------------------------------------------------------------------
(* What needs no model.                                                     *)

Result(task, confidence, source) ==
  [task |-> task, confidence |-> confidence, source |-> source]

Hinted(in) == in.hint # "none" \/ in.image \/ in.tool

\* classifyByHint
ByHint(in) ==
  Result(IF in.hint # "none" THEN in.hint ELSE IF in.image THEN "vision" ELSE "tool_use",
         100, "hint")

\* The rules of classifyByRule, in their order.
Rules ==
  <<[pattern |-> "fence", result |-> Result("coding", 80, "rule")],
    [pattern |-> "stack", result |-> Result("coding", 75, "rule")],
    [pattern |-> "sql",   result |-> Result("data_analysis", 75, "rule")],
    [pattern |-> "table", result |-> Result("data_analysis", 70, "rule")],
    [pattern |-> "long",  result |-> Result("writing", 60, "rule")]>>

Matching(in) == {i \in 1 .. Len(Rules) : Rules[i].pattern \in in.matches}

ByRule(in) ==
  Rules[CHOOSE i \in Matching(in) : \A j \in Matching(in) : i <= j].result

\* A failed call, as every other failure, is answered by the default.
Default == Result("general", 0, "rule")

ClampedFaulty(confidence) == IF confidence < 0 THEN 0 ELSE confidence

Clamped(confidence) ==
  IF confidence < 0 THEN 0 ELSE IF confidence > 100 THEN 100 ELSE confidence

\* parseClassification; an output of another form fails.
Parsed(o) ==
  IF o.task \in TaskTypes THEN Result(o.task, Clamped(o.confidence), "llm") ELSE Default

-----------------------------------------------------------------------------
VARIABLES
  revision,      \* of the configuration
  cache,         \* the classifier_cache table
  inflight,      \* the step whose call is shared for a key
  call,          \* the call a step started
  step,
  extension,     \* a custom task classifier is registered
  now, classified, restarts

vars == <<revision, cache, inflight, call, step, extension, now, classified, restarts>>

\* under: history, the input and the revision the call that gave the answer began with.
Entries == [result : Results, at : 0 .. MaxTime, under : Keys]
NoCall == [open |-> FALSE]
OpenCalls ==
  [open : {TRUE}, key : Keys, deadline : Nat, heard : BOOLEAN, under : Keys]

Answers == [result : Results, by : {"static", "cache", "call"}, at : 0 .. MaxTime, under : Keys]
StepRecords ==
  [phase : {"idle", "failed", "extension"}]
    \cup [phase : {"waiting"}, asked : Keys, began : Nat, on : Steps]
    \cup [phase : {"answered"}, asked : Keys, began : Nat, answer : Answers]

Idle == [phase |-> "idle"]

Init ==
  /\ revision = 1
  /\ cache = [k \in Keys |-> NoEntry] /\ inflight = [k \in Keys |-> NoStep]
  /\ call = [s \in Steps |-> NoCall] /\ step = [s \in Steps |-> Idle]
  /\ extension = FALSE
  /\ now = 0 /\ classified = 0 /\ restarts = 0

KeyFaulty(in) == <<in, 1>>

\* The key of a classification that begins now.
Key(in) == <<in, revision>>

\* get: an entry that is too old counts as none.
Cached(k) == cache[k] # NoEntry /\ now - cache[k].at <= Ttl

Answered(asked, began, result, by, at, under) ==
  [phase |-> "answered", asked |-> asked, began |-> began,
   answer |-> [result |-> result, by |-> by, at |-> at, under |-> under]]

WaitingOn(in, s) ==
  [phase |-> "waiting", asked |-> <<in, revision>>, began |-> now, on |-> s]

-----------------------------------------------------------------------------
(* classify, up to its await.                                               *)

Begins(s) ==
  /\ step[s].phase \notin {"waiting", "extension"}
  /\ classified < MaxClassify /\ classified' = classified + 1
  /\ UNCHANGED <<revision, cache, extension, now, restarts>>

ClassifyStatic(s, in) ==
  /\ Begins(s) /\ ~extension
  /\ Hinted(in) \/ Matching(in) # {}
  /\ step' = [step EXCEPT ![s] =
       Answered(<<in, revision>>, now, IF Hinted(in) THEN ByHint(in) ELSE ByRule(in),
                "static", now, <<in, revision>>)]
  /\ UNCHANGED <<inflight, call>>

NeedsModel(s, in) == Begins(s) /\ ~extension /\ ~Hinted(in) /\ Matching(in) = {}

ClassifyCached(s, in) ==
  LET entry == cache[Key(in)] IN
  /\ NeedsModel(s, in) /\ Cached(Key(in))
  /\ step' = [step EXCEPT ![s] =
       Answered(<<in, revision>>, now, entry.result, "cache", entry.at, entry.under)]
  /\ UNCHANGED <<inflight, call>>

\* The table cannot be read: the classification throws.
ClassifyFails(s, in) ==
  /\ NeedsModel(s, in)
  /\ step' = [step EXCEPT ![s] = [phase |-> "failed"]]
  /\ UNCHANGED <<inflight, call>>

Starts(s, in, k) ==
  /\ now + Budget <= MaxTime
  /\ call' = [call EXCEPT ![s] =
       [open |-> TRUE, key |-> k, deadline |-> now + Budget, heard |-> FALSE,
        under |-> <<in, revision>>]]
  /\ inflight' = [inflight EXCEPT ![k] = s]
  /\ step' = [step EXCEPT ![s] = WaitingOn(in, s)]

ClassifyAloneFaulty(s, in) ==
  /\ NeedsModel(s, in) /\ ~Cached(Key(in))
  /\ Starts(s, in, Key(in))

\* singleFlight.run: a call of one's own, or the one under way.
ClassifyAlone(s, in) ==
  /\ NeedsModel(s, in) /\ ~Cached(Key(in)) /\ inflight[Key(in)] = NoStep
  /\ Starts(s, in, Key(in))

ClassifyShared(s, in) ==
  /\ NeedsModel(s, in) /\ ~Cached(Key(in)) /\ inflight[Key(in)] # NoStep
  /\ step' = [step EXCEPT ![s] = WaitingOn(in, inflight[Key(in)])]
  /\ UNCHANGED <<inflight, call>>

\* A custom classifier is asked instead; it answers, fails, or never ends.
ClassifyExtension(s) ==
  /\ Begins(s) /\ extension
  /\ step' = [step EXCEPT ![s] = [phase |-> "extension"]]
  /\ UNCHANGED <<inflight, call>>

ExtensionEnds(s, phase) ==
  /\ step[s].phase = "extension"
  /\ step' = [step EXCEPT ![s] = [phase |-> phase]]
  /\ UNCHANGED <<revision, cache, inflight, call, extension, now, classified, restarts>>

-----------------------------------------------------------------------------
(* The call.                                                                *)

Chunk(s) ==
  /\ call[s].open /\ ~call[s].heard
  /\ call' = [call EXCEPT ![s].heard = TRUE]
  /\ UNCHANGED <<revision, cache, inflight, step, extension, now, classified, restarts>>

\* The call of s has ended: every step that waits for it is answered.
Settle(s, result) ==
  /\ call' = [call EXCEPT ![s] = NoCall]
  /\ inflight' = [inflight EXCEPT ![call[s].key] = NoStep]
  /\ step' = [w \in Steps |->
       IF step[w].phase = "waiting" /\ step[w].on = s
       THEN Answered(step[w].asked, step[w].began, result, "call", now, call[s].under)
       ELSE step[w]]
  /\ UNCHANGED <<revision, extension, now, classified, restarts>>

Stored(s, result) ==
  [cache EXCEPT ![call[s].key] = [result |-> result, at |-> now, under |-> call[s].under]]

DoneFaulty(s, o) ==
  /\ call[s].open /\ now < call[s].deadline
  /\ Settle(s, Parsed(o)) /\ cache' = Stored(s, Parsed(o))

\* The stream ended in time; an answer that is sure enough is cached.
Done(s, o) ==
  LET result == Parsed(o) IN
  /\ call[s].open /\ now < call[s].deadline
  /\ Settle(s, result)
  /\ cache' = IF result.source = "llm" /\ result.confidence >= Threshold
              THEN Stored(s, result) ELSE cache

\* The stream failed, or its answer could not be stored.
CallFails(s) ==
  /\ call[s].open
  /\ Settle(s, Default) /\ cache' = cache

TimeoutFaulty(s) ==
  /\ call[s].open /\ call[s].heard /\ now >= call[s].deadline
  /\ Settle(s, Default) /\ cache' = cache

\* Every wait for a chunk, the first as well, races the rest of the budget.
Timeout(s) ==
  /\ call[s].open /\ now >= call[s].deadline
  /\ Settle(s, Default) /\ cache' = cache

-----------------------------------------------------------------------------
(* Meanwhile.                                                               *)

UpdateConfig ==
  /\ revision < MaxRevision /\ revision' = revision + 1
  /\ UNCHANGED <<cache, inflight, call, step, extension, now, classified, restarts>>

RegisterTaskClassifier ==
  /\ extension' = ~extension
  /\ UNCHANGED <<revision, cache, inflight, call, step, now, classified, restarts>>

Tick ==
  /\ now < MaxTime /\ now' = now + 1
  /\ UNCHANGED <<revision, cache, inflight, call, step, extension, classified, restarts>>

Restart ==
  /\ restarts < MaxRestarts /\ restarts' = restarts + 1
  /\ inflight' = [k \in Keys |-> NoStep] /\ call' = [s \in Steps |-> NoCall]
  /\ step' = [s \in Steps |-> Idle] /\ extension' = FALSE
  /\ UNCHANGED <<revision, cache, now, classified>>

Next ==
  \/ \E s \in Steps :
       \/ \E in \in Inputs :
            \/ ClassifyStatic(s, in) \/ ClassifyCached(s, in) \/ ClassifyFails(s, in)
            \/ ClassifyAlone(s, in) \/ ClassifyShared(s, in)
       \/ ClassifyExtension(s)
       \/ \E phase \in {"idle", "failed"} : ExtensionEnds(s, phase)
       \/ Chunk(s) \/ CallFails(s) \/ Timeout(s)
       \/ \E o \in Outputs : Done(s, o)
  \/ UpdateConfig \/ RegisterTaskClassifier \/ Tick \/ Restart

Spec == Init /\ [][Next]_vars

\* Time passes and timers fire; a stream need not deliver anything.
FairSpec == Spec /\ WF_vars(Tick) /\ \A s \in Steps : WF_vars(Timeout(s))

-----------------------------------------------------------------------------
(* Properties.                                                              *)

TypeOK ==
  /\ revision \in Revisions
  /\ \A k \in Keys : cache[k] = NoEntry \/ cache[k] \in Entries
  /\ inflight \in [Keys -> Steps \cup {NoStep}]
  /\ \A s \in Steps : call[s] = NoCall \/ call[s] \in OpenCalls
  /\ \A s \in Steps : step[s] \in StepRecords
  /\ extension \in BOOLEAN
  /\ now \in 0 .. MaxTime /\ classified \in 0 .. MaxClassify /\ restarts \in 0 .. MaxRestarts

\* The light model is asked once for an input at a time, however many steps ask
\* (sqlite-cache.ts:132).
OneCallPerKey ==
  \A s, t \in Steps : call[s].open /\ call[t].open /\ call[s].key = call[t].key => s = t

\* A step is answered by a call made for its input under the revision that was
\* current when it began, also when the answer comes from the table or from a call
\* another step made before or after a configuration change; a cached one is not
\* older than the time to live (index.ts:141).
AnswersAreFresh ==
  \A s \in Steps :
    step[s].phase = "answered" =>
      /\ step[s].answer.under = step[s].asked
      /\ step[s].answer.by = "cache" => step[s].began - step[s].answer.at <= Ttl

\* A failed, late, invalid or unsure answer reaches only the steps that waited for
\* that call; it is never an answer to a step that began after it (index.ts:158).
FailuresAreNotReused ==
  \A s \in Steps :
    step[s].phase = "answered" /\ step[s].answer.by = "cache" =>
      step[s].answer.result.confidence >= Threshold

\* Every classification the built-in chain makes ends, even when the stream never
\* delivers its first chunk (mod.ts:319).
ClassificationsEnd == \A s \in Steps : step[s].phase = "waiting" ~> step[s].phase # "waiting"
=============================================================================
