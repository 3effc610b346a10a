------------------------ MODULE SelectionMode_proofs ------------------------
(***************************************************************************)
(* Theorems of SelectionMode, for any number of tabs, models, switches and *)
(* restarts: the log holds one event per revision, nothing is shown or     *)
(* used before its event is persisted, and a mode that a switch changed is *)
(* reported.                                                               *)
(* Successful switches raise the revision unless one starts while another  *)
(* waits for its flush, which is what the code does not prevent; what is   *)
(* persisted is never taken back; and every answer brings a change of the  *)
(* user nearer to its end, which is why it ends.                           *)
(*                                                                         *)
(* What a tab holds must be bounded by what is persisted, and a switch     *)
(* that waits for its flush must still find its event in the log: that is  *)
(* Sound, kept for every tab while the log grows and is cut.               *)
(***************************************************************************)
EXTENDS SelectionMode, SequenceTheorems, TLAPS

Confirmed(selection, d) == selection # NoSelection => selection.revision <= d

\* A tab whose knowledge is persisted (d events are) and whose event is in the log of n;
\* the host is asked for a model.
Sound(c, d, n) ==
  /\ c \in TabRecords
  /\ Confirmed(c.shown, d) /\ Confirmed(c.reply, d)
  /\ c.phase = "flushing" => c.next \in 1 .. n
  /\ c.phase = "choosing" => c.model \in Models

ServerSound ==
  /\ log \in Seq(Selections) /\ durable \in 0 .. Len(log)
  /\ state \in Selections \cup {NoSelection} /\ Confirmed(state, durable)
  /\ LogIsByRevision

TabsSound ==
  /\ tab \in [Tabs -> TabRecords]
  /\ \A t \in Tabs : Sound(tab[t], durable, Len(log))

WorldSound ==
  /\ default \in Defaults /\ current \in Models
  /\ live \in BOOLEAN /\ pending \in BOOLEAN
  /\ attempt \in Defaults \cup SessionModes \cup {NoSelection}
  /\ switches \in 0 .. MaxSwitches /\ closes \in 0 .. MaxCloses

\* An attempt ran in the mode the session was switched to, unless the switch is still to
\* be reported.
AttemptCurrent ==
  attempt # NoSelection /\ ~pending /\ state # NoSelection => attempt = state.mode

SwitchesSound == ServerSound /\ TabsSound /\ WorldSound /\ AttemptCurrent

-----------------------------------------------------------------------------
(* The tabs.                                                                *)

\* What is persisted grows, and the log is not cut under a switch that waits.
LEMMA StaysSound ==
  ASSUME NEW c, NEW d \in Nat, NEW n \in Nat, NEW d2 \in Nat, NEW n2 \in Nat,
         Sound(c, d, n), d <= d2, c.phase = "flushing" => n <= n2
  PROVE  Sound(c, d2, n2)
BY DEF Sound, Confirmed, TabRecords, Selections

\* A step that replaces one tab's record and leaves the server alone.
LEMMA OneTab ==
  ASSUME TabsSound, NEW t \in Tabs, NEW r, Sound(r, durable, Len(log)),
         tab' = [tab EXCEPT ![t] = r], UNCHANGED <<log, durable>>
  PROVE  TabsSound'
<1>1. \A u \in Tabs : Sound(tab'[u], durable, Len(log))
  BY DEF TabsSound
<1>2. tab' \in [Tabs -> TabRecords]
  BY DEF TabsSound, Sound
<1> QED
  BY <1>1, <1>2 DEF TabsSound

\* A rendering suppresses the answers of fallbacks, no more.
LEMMA RenderedSound ==
  ASSUME NEW tabs \in [Tabs -> TabRecords], NEW d \in Nat, NEW n \in Nat,
         \A t \in Tabs : Sound(tabs[t], d, n)
  PROVE  /\ Rerendered(tabs) \in [Tabs -> TabRecords]
         /\ \A t \in Tabs : Sound(Rerendered(tabs)[t], d, n)
<1>1. ASSUME NEW t \in Tabs
      PROVE  Sound(Rerendered(tabs)[t], d, n)
  <2>1. ASSUME NEW c, Sound(c, d, n)
        PROVE  Sound([c EXCEPT !.mounted = FALSE], d, n)
    BY <2>1 DEF Sound, Confirmed, TabRecords
  <2> QED
    BY <2>1 DEF Rerendered
<1> QED
  BY <1>1 DEF Rerendered, Sound

LEMMA RestingSound ==
  ASSUME NEW shown \in Selections \cup {NoSelection}, NEW saving \in BOOLEAN,
         NEW uncovered \in BOOLEAN, NEW tried \in {NoSelection} \cup (Nat \X Models),
         NEW d \in Nat, NEW n \in Nat, Confirmed(shown, d)
  PROVE  Sound(Resting(shown, saving, uncovered, tried), d, n)
BY DEF Resting, Sound, Confirmed, TabRecords, Phases, SessionModes

LEMMA FlagsSound ==
  ASSUME NEW c, NEW d \in Nat, NEW n \in Nat, Sound(c, d, n), NEW b \in BOOLEAN
  PROVE  Sound([c EXCEPT !.saving = b], d, n) /\ Sound([c EXCEPT !.uncovered = b], d, n)
BY DEF Sound, Confirmed, TabRecords

LEMMA RereadSound ==
  ASSUME NEW t \in Tabs, NEW d \in Nat, NEW n \in Nat, Sound(tab[t], d, n)
  PROVE  Sound(Reread(t), d, n)
BY DEF Reread, Sound, Confirmed, TabRecords, Phases

\* A tab that is answered holds a selection that is persisted, or none.
LEMMA AnsweredSound ==
  ASSUME NEW t \in Tabs, NEW d \in Nat, NEW n \in Nat, Sound(tab[t], d, n),
         NEW reply \in Selections \cup {NoSelection}, Confirmed(reply, d)
  PROVE  Sound([tab[t] EXCEPT !.phase = "answered", !.reply = reply], d, n)
BY DEF Sound, Confirmed, TabRecords, Phases

\* The answer of getSessionSelectionMode is of a revision that is persisted.
LEMMA SelectionSound ==
  ASSUME ServerSound
  PROVE  Selection \in Selections /\ Confirmed(Selection, durable)
BY DEF ServerSound, Selection, Selections, SessionModes, Confirmed

-----------------------------------------------------------------------------
(* The log.                                                                 *)

\* A switch finds the event of its revision in the log, or appends it as the next one.
LEMMA SwitchAppends ==
  ASSUME ServerSound, NEW mode \in SessionModes
  PROVE  LET next == Selection.revision + 1
             grown == AppendSelection([revision |-> next, mode |-> mode])
         IN /\ grown \in Seq(Selections) /\ Len(log) <= Len(grown)
            /\ next \in 1 .. Len(grown)
            /\ \A i \in 1 .. Len(grown) : grown[i].revision = i
<1> DEFINE next == Selection.revision + 1
           event == [revision |-> next, mode |-> mode]
<1>1. next \in Nat /\ 1 <= next /\ next <= Len(log) + 1
  BY SelectionSound, SelectionAssumption
     DEF SelectionAssumption, ServerSound, Confirmed, Selections
<1>2. event \in Selections
  BY <1>1 DEF Selections
<1>3. CASE next <= Len(log)
  <2>1. Logged(next)
    BY <1>1, <1>3 DEF Logged, ServerSound, LogIsByRevision
  <2> QED
    BY <2>1, <1>1, <1>3 DEF AppendSelection, ServerSound, LogIsByRevision
<1>4. CASE next = Len(log) + 1
  <2>1. ~Logged(next)
    BY <1>4 DEF Logged, ServerSound, LogIsByRevision
  <2>2. AppendSelection(event) = Append(log, event)
    BY <2>1 DEF AppendSelection
  <2>3. /\ Append(log, event) \in Seq(Selections) /\ Len(Append(log, event)) = Len(log) + 1
        /\ \A i \in 1 .. Len(log) : Append(log, event)[i] = log[i]
        /\ Append(log, event)[Len(log) + 1] = event
    BY <1>2, AppendProperties DEF ServerSound
  <2> QED
    BY <2>2, <2>3, <1>4 DEF ServerSound, LogIsByRevision
<1> QED
  BY <1>1, <1>3, <1>4 DEF ServerSound

\* What was not persisted is cut off.
LEMMA CutLog ==
  ASSUME ServerSound
  PROVE  LET kept == SubSeq(log, 1, durable)
         IN /\ kept \in Seq(Selections) /\ Len(kept) = durable
            /\ \A i \in 1 .. Len(kept) : kept[i].revision = i
BY SubSeqProperties DEF ServerSound, LogIsByRevision

-----------------------------------------------------------------------------
(* The steps.                                                               *)

LEMMA InitSound == Init => SwitchesSound
<1> SUFFICES ASSUME Init PROVE SwitchesSound
  OBVIOUS
<1>1. ServerSound
  BY DEF Init, ServerSound, Confirmed, LogIsByRevision
<1>2. Sound(Mounted, 0, 0)
  BY DEF Mounted, Resting, Sound, Confirmed, TabRecords, Phases, SessionModes
<1>3. TabsSound
  BY <1>2 DEF Init, TabsSound, Sound
<1>4. WorldSound
  <2>1. default \in Defaults /\ current \in Models
    BY SelectionAssumption DEF SelectionAssumption, Init
  <2>2. live \in BOOLEAN /\ pending \in BOOLEAN
    BY Zenon DEF Init
  <2>3. attempt \in Defaults \cup SessionModes \cup {NoSelection}
    BY Zenon DEF Init
  <2>4. switches \in 0 .. MaxSwitches /\ closes \in 0 .. MaxCloses
    BY SelectionAssumption DEF SelectionAssumption, Init
  <2> QED
    BY <2>1, <2>2, <2>3, <2>4, Zenon DEF WorldSound
<1>5. AttemptCurrent
  BY Zenon DEF Init, AttemptCurrent
<1> QED
  BY <1>1, <1>3, <1>4, <1>5 DEF SwitchesSound

\* Steps that change no more of the server and of the world than the counters, the host's
\* model and the default.
LEMMA TabsOnly ==
  ASSUME SwitchesSound, TabsSound', UNCHANGED <<server, live, attempt>>, default' \in Defaults,
         current' \in Models, switches' \in 0 .. MaxSwitches, closes' \in 0 .. MaxCloses
  PROVE  SwitchesSound'
<1>1. ServerSound'
  BY DEF SwitchesSound, ServerSound, server, LogIsByRevision, Confirmed
<1>2. WorldSound'
  BY DEF SwitchesSound, WorldSound, server
<1>3. AttemptCurrent'
  BY Zenon DEF SwitchesSound, AttemptCurrent, server
<1> QED
  BY <1>1, <1>2, <1>3 DEF SwitchesSound

\* The user, or the fallback, starts a change: a tab moves on, nothing else.
LEMMA BeginKeeps ==
  ASSUME SwitchesSound, NEW t \in Tabs, NEW phase \in {"readiness", "choosing"},
         NEW mode \in SessionModes, NEW model \in Models, Begin(t, phase, mode, model)
  PROVE  SwitchesSound'
<1>1. ASSUME NEW c, Sound(c, durable, Len(log)), NEW uncovered \in BOOLEAN
      PROVE  Sound([c EXCEPT !.phase = phase, !.kind = "user", !.saving = TRUE,
                             !.target = mode, !.model = model, !.uncovered = uncovered],
                   durable, Len(log))
  BY <1>1 DEF Sound, Confirmed, TabRecords, Phases
<1> DEFINE uncovered == phase # "readiness" /\ tab[t].uncovered
           r == [tab[t] EXCEPT !.phase = phase, !.kind = "user", !.saving = TRUE,
                               !.target = mode, !.model = model, !.uncovered = uncovered]
<1>2. uncovered \in BOOLEAN
  OBVIOUS
<1>4. tab' = [tab EXCEPT ![t] = r]
  BY Zenon DEF Begin
<1>3. TabsSound'
  BY <1>1, <1>2, <1>4, OneTab DEF Begin, SwitchesSound, TabsSound, server
<1>5. UNCHANGED <<server, live, attempt>> /\ default' \in Defaults /\ current' \in Models
      /\ switches' \in 0 .. MaxSwitches /\ closes' \in 0 .. MaxCloses
  BY SelectionAssumption DEF SelectionAssumption, Begin, world, SwitchesSound, WorldSound
<1> QED
  BY <1>3, <1>5, TabsOnly

\* Readiness of Auto is answered: the change goes on, or the selection is read again.
LEMMA ReadinessKeeps ==
  ASSUME SwitchesSound, NEW t \in Tabs, NEW issue, Readiness(t, issue)
  PROVE  SwitchesSound'
<1> DEFINE c == tab[t]
           d == IF issue = "none" THEN [c EXCEPT !.phase = "authorizing"] ELSE Reread(t)
           r == [d EXCEPT !.uncovered = issue = "quality"]
<1>1. Sound(c, durable, Len(log)) /\ durable \in Nat /\ Len(log) \in Nat
  BY DEF SwitchesSound, TabsSound, ServerSound
<1>2. ASSUME NEW x, Sound(x, durable, Len(log))
      PROVE  Sound([x EXCEPT !.phase = "authorizing"], durable, Len(log))
  BY <1>2 DEF Sound, Confirmed, TabRecords, Phases
<1>3. Sound(d, durable, Len(log))
  BY <1>1, <1>2, RereadSound
<1>4. Sound(r, durable, Len(log))
  BY <1>1, <1>3, FlagsSound
<1>5. tab' = [tab EXCEPT ![t] = r]
  BY DEF Readiness
<1>6. TabsSound'
  BY <1>4, <1>5, OneTab DEF Readiness, SwitchesSound, server
<1> QED
  BY <1>6, TabsOnly DEF Readiness, server, world, SwitchesSound, WorldSound

\* The host takes the model, which renders the tabs again, or refuses.
LEMMA HostSelectsKeeps ==
  ASSUME SwitchesSound, NEW t \in Tabs, NEW accepted \in BOOLEAN, HostSelects(t, accepted)
  PROVE  SwitchesSound'
<1> DEFINE moved == [tab EXCEPT ![t].phase = "authorizing"]
<1>1. Sound(tab[t], durable, Len(log)) /\ durable \in Nat /\ Len(log) \in Nat
  BY DEF SwitchesSound, TabsSound, ServerSound
<1>2. ASSUME NEW x, Sound(x, durable, Len(log))
      PROVE  Sound([x EXCEPT !.phase = "authorizing"], durable, Len(log))
  BY <1>2 DEF Sound, Confirmed, TabRecords, Phases
<1>3. /\ moved \in [Tabs -> TabRecords]
      /\ \A u \in Tabs : Sound(moved[u], durable, Len(log))
  BY <1>1, <1>2 DEF SwitchesSound, TabsSound, Sound
<1>4. CASE accepted
  <2>1. tab' = moved \/ tab' = Rerendered(moved)
    BY <1>4 DEF HostSelects
  <2>2. /\ tab' \in [Tabs -> TabRecords]
        /\ \A u \in Tabs : Sound(tab'[u], durable, Len(log))
    BY <1>1, <1>3, <2>1, RenderedSound
  <2>3. TabsSound'
    BY <2>2 DEF TabsSound, HostSelects, server
  <2>4. current' \in Models
    <3>1. tab[t].model \in Models
      BY <1>1 DEF HostSelects, Sound
    <3> QED
      BY <1>4, <3>1 DEF HostSelects
  <2> QED
    BY <2>3, <2>4, TabsOnly DEF HostSelects, server, SwitchesSound, WorldSound
<1>5. CASE ~accepted
  <2>1. TabsSound'
    BY <1>1, <1>5, OneTab, RereadSound DEF HostSelects, SwitchesSound, server
  <2> QED
    BY <1>5, <2>1, TabsOnly DEF HostSelects, server, SwitchesSound, WorldSound
<1> QED
  BY <1>4, <1>5

\* The fallback starts its own change, to the host's model.
LEMMA FallbackKeeps ==
  ASSUME SwitchesSound, NEW t \in Tabs, Fallback(t)
  PROVE  SwitchesSound'
<1> DEFINE key == <<tab[t].shown.revision, current>>
           r == [tab[t] EXCEPT !.phase = "authorizing", !.kind = "fallback", !.saving = TRUE,
                        !.target = "manual", !.model = current, !.tried = key, !.mounted = TRUE]
<1>1. Sound(tab[t], durable, Len(log)) /\ durable \in Nat /\ Len(log) \in Nat
      /\ current \in Models
  BY DEF SwitchesSound, TabsSound, ServerSound, WorldSound
<1>2. tab[t].shown \in Selections
  BY <1>1 DEF Fallback, Controls, Sound, TabRecords
<1>3. key \in Nat \X Models
  BY <1>1, <1>2 DEF Selections
<1>4. r \in TabRecords
  <2>1. ASSUME NEW x \in TabRecords, NEW k \in {NoSelection} \cup (Nat \X Models)
        PROVE  [x EXCEPT !.phase = "authorizing", !.kind = "fallback", !.saving = TRUE,
                  !.target = "manual", !.model = current, !.tried = k, !.mounted = TRUE]
                 \in TabRecords
    BY <1>1 DEF TabRecords, Phases, SessionModes
  <2> QED
    BY <1>1, <1>3, <2>1 DEF Sound
<1>5. Sound(r, durable, Len(log))
  BY <1>1, <1>4 DEF Sound, Confirmed, TabRecords
<1>6. tab' = [tab EXCEPT ![t] = r]
  BY Zenon DEF Fallback
<1>7. TabsSound'
  BY <1>5, <1>6, OneTab DEF Fallback, SwitchesSound, server
<1>8. switches' \in 0 .. MaxSwitches
  BY SelectionAssumption DEF SelectionAssumption, Fallback, SwitchesSound, WorldSound
<1> QED
  BY <1>7, <1>8, TabsOnly DEF Fallback, server, world, SwitchesSound, WorldSound

\* A call that is refused, or answered with the selection in force.
LEMMA AnsweredKeeps ==
  ASSUME SwitchesSound, NEW t \in Tabs, NEW reply \in Selections \cup {NoSelection},
         Confirmed(reply, durable), NEW phase \in {"answered", "read"},
         tab' = [tab EXCEPT ![t].phase = phase, ![t].reply = reply],
         UNCHANGED <<server, world, switches>>
  PROVE  SwitchesSound'
<1> DEFINE r == [tab[t] EXCEPT !.phase = phase, !.reply = reply]
<1>1. Sound(tab[t], durable, Len(log))
  BY DEF SwitchesSound, TabsSound
<1>2. ASSUME NEW x, Sound(x, durable, Len(log))
      PROVE  Sound([x EXCEPT !.phase = phase, !.reply = reply], durable, Len(log))
  BY <1>2 DEF Sound, Confirmed, TabRecords, Phases
<1>3. tab' = [tab EXCEPT ![t] = r]
  BY Zenon
<1>4. TabsSound'
  BY <1>1, <1>2, <1>3, OneTab DEF SwitchesSound, server
<1> QED
  BY <1>4, TabsOnly DEF server, world, SwitchesSound, WorldSound

LEMMA DeniedKeeps ==
  ASSUME SwitchesSound, NEW t \in Tabs, Denied(t)
  PROVE  SwitchesSound'
<1>1. Confirmed(NoSelection, durable)
  BY DEF Confirmed
<1> QED
  BY <1>1, AnsweredKeeps DEF Denied, Answered

LEMMA ReadSelectionKeeps ==
  ASSUME SwitchesSound, NEW t \in Tabs, ReadSelection(t)
  PROVE  SwitchesSound'
BY SelectionSound, AnsweredKeeps DEF ReadSelection, SwitchesSound

\* A switch that is not refused has its event in the log when it waits for the flush.
LEMMA StartSwitchKeeps ==
  ASSUME SwitchesSound, NEW t \in Tabs, StartSwitch(t)
  PROVE  SwitchesSound'
<1> DEFINE next == Selection.revision + 1
           conflict == tab[t].shown.revision # Selection.revision
           grown == AppendSelection([revision |-> next, mode |-> tab[t].target])
           r == [tab[t] EXCEPT !.phase = "flushing", !.next = next]
<1>0. UNCHANGED <<durable, state, pending, world, switches>>
  BY DEF StartSwitch
<1>1. CASE conflict \/ ~live
  <2>1. tab' = Answered(t, NoSelection) /\ log' = log
    BY <1>1, Zenon DEF StartSwitch
  <2>2. Confirmed(NoSelection, durable)
    BY DEF Confirmed
  <2> QED
    BY <1>0, <2>1, <2>2, AnsweredKeeps DEF Answered, server
<1>2. CASE ~(conflict \/ ~live)
  <2>1. log' = grown /\ tab' = [tab EXCEPT ![t].phase = "flushing", ![t].next = next]
    BY <1>2, Zenon DEF StartSwitch
  <2>2. tab' = [tab EXCEPT ![t] = r]
    BY <2>1, Zenon
  <2>3. Sound(tab[t], durable, Len(log)) /\ durable \in Nat /\ Len(log) \in Nat
        /\ tab[t].target \in SessionModes
    BY DEF SwitchesSound, TabsSound, ServerSound, TabRecords
  <2>4. /\ grown \in Seq(Selections) /\ Len(log) <= Len(grown) /\ next \in 1 .. Len(grown)
        /\ \A i \in 1 .. Len(grown) : grown[i].revision = i
    BY <2>3, SwitchAppends DEF SwitchesSound
  <2> DEFINE n == Len(grown)
  <2>12. n \in Nat /\ next \in Nat
    BY <2>4
  <2> HIDE DEF grown, next, n
  <2>5. ASSUME NEW x, Sound(x, durable, Len(log))
        PROVE  Sound([x EXCEPT !.phase = "flushing", !.next = next], durable, n)
    BY <2>3, <2>4, <2>5, <2>12 DEF Sound, Confirmed, TabRecords, Phases, n
  <2>6. \A u \in Tabs : Sound(tab[u], durable, n)
    <3>1. Len(log) <= n /\ durable <= durable
      BY <2>3, <2>4 DEF n
    <3>2. \A u \in Tabs : Sound(tab[u], durable, Len(log))
      BY DEF SwitchesSound, TabsSound
    <3> QED
      BY <3>1, <3>2, <2>3, <2>12, StaysSound
  <2>7. Sound(r, durable, n)
    BY <2>3, <2>5
  <2>8. TabsSound'
    <3>1. \A u \in Tabs : Sound(tab'[u], durable, n)
      BY <2>2, <2>6, <2>7 DEF SwitchesSound, TabsSound
    <3>2. tab' \in [Tabs -> TabRecords]
      BY <2>2, <2>7 DEF SwitchesSound, TabsSound, Sound
    <3> QED
      BY <3>1, <3>2, <2>1, <1>0 DEF TabsSound, n
  <2>9. ServerSound'
    BY <1>0, <2>1, <2>4 DEF SwitchesSound, ServerSound, LogIsByRevision
  <2>10. WorldSound'
    BY <1>0 DEF SwitchesSound, WorldSound, world
  <2>11. AttemptCurrent'
    BY <1>0, Zenon DEF SwitchesSound, AttemptCurrent, world
  <2> QED
    BY <2>8, <2>9, <2>10, <2>11 DEF SwitchesSound
<1> QED
  BY <1>1, <1>2

\* A switch is confirmed with the revision whose event the flush persisted, or refused.
LEMMA FlushEndsKeeps ==
  ASSUME SwitchesSound, NEW t \in Tabs, NEW participated \in BOOLEAN,
         FlushEnds(t, participated)
  PROVE  SwitchesSound'
<1> DEFINE reply == [revision |-> tab[t].next, mode |-> tab[t].target]
           r == [tab[t] EXCEPT !.phase = "answered", !.reply = reply]
<1>1. CASE ~participated
  <2>1. UNCHANGED <<server, world, switches>> /\ tab' = Answered(t, NoSelection)
    BY <1>1, Zenon DEF FlushEnds, server
  <2>2. Confirmed(NoSelection, durable)
    BY DEF Confirmed
  <2> QED
    BY <2>1, <2>2, AnsweredKeeps DEF Answered
<1>2. CASE participated
  <2>1. /\ durable' = Len(log) /\ state' = reply /\ pending' = TRUE
        /\ tab' = Answered(t, reply) /\ UNCHANGED <<log, world, switches>>
    BY <1>2, Zenon DEF FlushEnds
  <2>2. tab' = [tab EXCEPT ![t] = r]
    BY <2>1, Zenon DEF Answered
  <2>3. /\ Sound(tab[t], durable, Len(log)) /\ tab[t].phase = "flushing"
        /\ durable \in Nat /\ Len(log) \in Nat /\ durable <= Len(log)
    BY DEF SwitchesSound, TabsSound, ServerSound, FlushEnds
  <2>4. reply \in Selections /\ Confirmed(reply, Len(log))
    BY <2>3 DEF Sound, Selections, TabRecords, Confirmed
  <2>5. \A u \in Tabs : Sound(tab[u], Len(log), Len(log))
    <3>1. \A u \in Tabs : Sound(tab[u], durable, Len(log))
      BY DEF SwitchesSound, TabsSound
    <3> QED
      BY <3>1, <2>3, StaysSound
  <2> HIDE DEF reply
  <2>6. Sound(r, Len(log), Len(log))
    BY <2>3, <2>4, <2>5, AnsweredSound
  <2>7. TabsSound'
    <3>1. \A u \in Tabs : Sound(tab'[u], Len(log), Len(log))
      BY <2>2, <2>5, <2>6 DEF SwitchesSound, TabsSound
    <3>2. tab' \in [Tabs -> TabRecords]
      BY <2>2, <2>6 DEF SwitchesSound, TabsSound, Sound
    <3> QED
      BY <3>1, <3>2, <2>1 DEF TabsSound
  <2>8. ServerSound'
    BY <2>1, <2>3, <2>4 DEF SwitchesSound, ServerSound, LogIsByRevision
  <2>9. WorldSound'
    BY <2>1, Zenon DEF SwitchesSound, WorldSound, world
  <2>10. AttemptCurrent'
    BY <2>1, Zenon DEF AttemptCurrent
  <2> QED
    BY <2>7, <2>8, <2>9, <2>10 DEF SwitchesSound
<1> QED
  BY <1>1, <1>2

\* The answer reaches the tab: it shows what was confirmed, what it showed, or asks.
LEMMA AnswerKeeps ==
  ASSUME SwitchesSound, NEW t \in Tabs, Answer(t)
  PROVE  SwitchesSound'
<1> DEFINE c == tab[t]
           r == IF c.kind = "fallback" /\ ~c.mounted
                THEN [Rest(t, c.shown) EXCEPT !.saving = TRUE]
                ELSE IF c.reply # NoSelection THEN Rest(t, c.reply)
                ELSE IF c.kind = "user" THEN Reread(t)
                ELSE Rest(t, c.shown)
<1>1. Sound(c, durable, Len(log)) /\ durable \in Nat /\ Len(log) \in Nat
  BY DEF SwitchesSound, TabsSound, ServerSound
<1>2. /\ c.shown \in Selections \cup {NoSelection} /\ c.reply \in Selections \cup {NoSelection}
      /\ Confirmed(c.shown, durable) /\ Confirmed(c.reply, durable)
      /\ c.uncovered \in BOOLEAN /\ c.tried \in {NoSelection} \cup (Nat \X Models)
  BY <1>1 DEF Sound, TabRecords
<1>3. Sound(Rest(t, c.shown), durable, Len(log)) /\ Sound(Rest(t, c.reply), durable, Len(log))
  BY <1>1, <1>2, RestingSound DEF Rest
<1>5. Sound([Rest(t, c.shown) EXCEPT !.saving = TRUE], durable, Len(log))
  BY <1>1, <1>3, FlagsSound
<1>6. Sound(Reread(t), durable, Len(log))
  BY <1>1, RereadSound
<1>7. Sound(r, durable, Len(log))
  BY <1>3, <1>5, <1>6
<1>8. tab' = [tab EXCEPT ![t] = r] /\ UNCHANGED <<server, world, switches>>
  BY Zenon DEF Answer
<1> HIDE DEF r
<1>9. TabsSound'
  BY <1>7, <1>8, OneTab DEF SwitchesSound, server
<1> QED
  BY <1>8, <1>9, TabsOnly DEF server, world, SwitchesSound, WorldSound

LEMMA ReadEndsKeeps ==
  ASSUME SwitchesSound, NEW t \in Tabs, NEW ok \in BOOLEAN, NEW uncovered \in BOOLEAN,
         ReadEnds(t, ok, uncovered)
  PROVE  SwitchesSound'
<1> DEFINE c == tab[t]
           shown == IF ok THEN c.reply ELSE c.shown
           r == [Rest(t, shown) EXCEPT !.uncovered = uncovered]
<1>1. Sound(c, durable, Len(log)) /\ durable \in Nat /\ Len(log) \in Nat
  BY DEF SwitchesSound, TabsSound, ServerSound
<1>2. /\ shown \in Selections \cup {NoSelection} /\ Confirmed(shown, durable)
      /\ c.uncovered \in BOOLEAN /\ c.tried \in {NoSelection} \cup (Nat \X Models)
  BY <1>1 DEF Sound, TabRecords
<1>3. Sound(Rest(t, shown), durable, Len(log))
  BY <1>1, <1>2, RestingSound DEF Rest
<1>4. Sound(r, durable, Len(log))
  BY <1>1, <1>3, FlagsSound
<1>5. tab' = [tab EXCEPT ![t] = r] /\ UNCHANGED <<server, world, switches>>
  BY Zenon DEF ReadEnds
<1> HIDE DEF r
<1>6. TabsSound'
  BY <1>4, <1>5, OneTab DEF SwitchesSound, server
<1> QED
  BY <1>5, <1>6, TabsOnly DEF server, world, SwitchesSound, WorldSound

\* An attempt runs in the mode in force and takes the mark of a change.
LEMMA SelectModelKeeps ==
  ASSUME SwitchesSound, SelectModel
  PROVE  SwitchesSound'
<1>1. TabsSound' /\ ServerSound'
  BY DEF SelectModel, SwitchesSound, TabsSound, ServerSound, LogIsByRevision, Confirmed
<1>2. attempt' \in Defaults \cup SessionModes
  BY DEF SelectModel, SwitchesSound, WorldSound, ServerSound, Selections
<1>3. WorldSound'
  BY <1>2, Zenon DEF SelectModel, SwitchesSound, WorldSound
<1>4. AttemptCurrent'
  BY Zenon DEF SelectModel, AttemptCurrent
<1> QED
  BY <1>1, <1>3, <1>4 DEF SwitchesSound

LEMMA RerenderKeeps ==
  ASSUME SwitchesSound, tab' = Rerendered(tab), UNCHANGED <<server, default, live, attempt,
         closes, switches>>, current' \in Models
  PROVE  SwitchesSound'
<1>1. TabsSound'
  BY RenderedSound DEF SwitchesSound, TabsSound, ServerSound, server
<1> QED
  BY <1>1, TabsOnly DEF SwitchesSound, WorldSound

\* A dispose forgets the state and the log's tail stays, so that a switch that waits
\* for its flush still finds its event.
LEMMA DisposeKeeps ==
  ASSUME SwitchesSound, Dispose
  PROVE  SwitchesSound'
<1>1. TabsSound'
  BY DEF Dispose, SwitchesSound, TabsSound
<1>2. ServerSound'
  BY DEF Dispose, Forget, SwitchesSound, ServerSound, LogIsByRevision, Confirmed
<1>3. closes' \in 0 .. MaxCloses
  BY SelectionAssumption DEF SelectionAssumption, Dispose, SwitchesSound, WorldSound
<1>4. WorldSound'
  BY <1>3, Zenon DEF Dispose, Forget, SwitchesSound, WorldSound
<1>5. AttemptCurrent'
  BY Zenon DEF Dispose, Forget, AttemptCurrent
<1> QED
  BY <1>1, <1>2, <1>4, <1>5 DEF SwitchesSound

\* A restart fails the calls under way before the log is cut.
LEMMA RestartKeeps ==
  ASSUME SwitchesSound, Restart
  PROVE  SwitchesSound'
<1>1. durable \in Nat /\ durable <= Len(log) /\ Len(log) \in Nat /\ ServerSound
  BY DEF SwitchesSound, ServerSound
<1>2. log' \in Seq(Selections) /\ Len(log') = durable /\ \A i \in 1 .. Len(log') : log'[i].revision = i
  BY <1>1, CutLog DEF Restart
<1>3. Confirmed(NoSelection, durable)
  BY DEF Confirmed
<1>4. ASSUME NEW t \in Tabs
      PROVE  Sound(tab'[t], durable, durable)
  <2>1. Sound(tab[t], durable, Len(log))
    BY DEF SwitchesSound, TabsSound
  <2>2. CASE tab[t].phase \in {"authorizing", "flushing", "answered"}
    <3>1. tab'[t] = [tab[t] EXCEPT !.phase = "answered", !.reply = NoSelection]
      BY <2>2 DEF Restart, Answered, SwitchesSound, TabsSound
    <3>2. ASSUME NEW x, Sound(x, durable, Len(log))
          PROVE  Sound([x EXCEPT !.phase = "answered", !.reply = NoSelection], durable, durable)
      BY <1>1, <1>3, <3>2 DEF Sound, Confirmed, TabRecords, Phases
    <3> QED
      BY <2>1, <3>1, <3>2
  <2>3. CASE tab[t].phase \in {"readiness", "choosing"}
    <3>1. tab'[t] = Reread(t)
      BY <2>3 DEF Restart
    <3>2. Sound(Reread(t), durable, Len(log)) /\ Reread(t).phase = "reading"
      BY <1>1, <2>1, RereadSound DEF Reread, Sound, TabRecords
    <3> QED
      BY <1>1, <3>1, <3>2 DEF Sound
  <2>4. CASE tab[t].phase \notin {"authorizing", "flushing", "answered", "readiness", "choosing"}
    <3>1. tab'[t] = tab[t]
      BY <2>4 DEF Restart
    <3> QED
      BY <1>1, <2>1, <2>4, <3>1 DEF Sound
  <2> QED
    BY <2>2, <2>3, <2>4
<1>5. tab' \in [Tabs -> TabRecords]
  <2>1. DOMAIN tab' = Tabs /\ tab' = [t \in Tabs |-> tab'[t]]
    BY DEF Restart
  <2> QED
    BY <1>4, <2>1 DEF Sound
<1>6. TabsSound'
  BY <1>2, <1>4, <1>5 DEF Restart, TabsSound
<1>7. ServerSound'
  BY <1>1, <1>2 DEF Restart, Forget, ServerSound, LogIsByRevision, Confirmed
<1>8. closes' \in 0 .. MaxCloses
  BY SelectionAssumption DEF SelectionAssumption, Restart, SwitchesSound, WorldSound
<1>9. WorldSound'
  BY <1>8, Zenon DEF Restart, Forget, SwitchesSound, WorldSound
<1>10. AttemptCurrent'
  BY Zenon DEF Restart, Forget, AttemptCurrent
<1> QED
  BY <1>6, <1>7, <1>9, <1>10 DEF SwitchesSound

\* The log is cut when no switch waits for its flush.
LEMMA ReopenKeeps ==
  ASSUME SwitchesSound, Reopen
  PROVE  SwitchesSound'
<1>1. durable \in Nat /\ durable <= Len(log) /\ Len(log) \in Nat /\ ServerSound
  BY DEF SwitchesSound, ServerSound
<1>2. log' \in Seq(Selections) /\ Len(log') = durable /\ \A i \in 1 .. Len(log') : log'[i].revision = i
  BY <1>1, CutLog DEF Reopen
<1>3. TabsSound'
  BY <1>1, <1>2 DEF Reopen, SwitchesSound, TabsSound, Sound
<1>4. ServerSound'
  BY <1>1, <1>2 DEF Reopen, ServerSound, LogIsByRevision, Confirmed
<1>5. WorldSound'
  BY Zenon DEF Reopen, SwitchesSound, WorldSound
<1>6. AttemptCurrent'
  BY Zenon DEF Reopen, SwitchesSound, AttemptCurrent
<1> QED
  BY <1>3, <1>4, <1>5, <1>6 DEF SwitchesSound

\* A change of the default is no change of a session that was switched.
LEMMA UpdateRoutingKeeps ==
  ASSUME SwitchesSound, NEW mode \in Defaults, UpdateRouting(mode)
  PROVE  SwitchesSound'
<1>1. TabsSound'
  BY DEF UpdateRouting, server, SwitchesSound, TabsSound
<1>2. switches' \in 0 .. MaxSwitches
  BY SelectionAssumption DEF SelectionAssumption, UpdateRouting, SwitchesSound, WorldSound
<1> QED
  BY <1>1, <1>2, TabsOnly DEF UpdateRouting, SwitchesSound, WorldSound

LEMMA StutterKeeps ==
  ASSUME SwitchesSound, UNCHANGED vars
  PROVE  SwitchesSound'
<1>1. TabsSound'
  BY DEF vars, server, SwitchesSound, TabsSound
<1> QED
  BY <1>1, TabsOnly DEF vars, world, SwitchesSound, WorldSound

LEMMA NextSound == SwitchesSound /\ [Next]_vars => SwitchesSound'
<1> SUFFICES ASSUME SwitchesSound, [Next]_vars PROVE SwitchesSound'
  OBVIOUS
<1>1. ASSUME NEW t \in Tabs, Server(t) PROVE SwitchesSound'
  BY <1>1, DeniedKeeps, StartSwitchKeeps, FlushEndsKeeps, ReadSelectionKeeps DEF Server
<1>2. ASSUME NEW t \in Tabs, Client(t) PROVE SwitchesSound'
  BY <1>2, ReadinessKeeps, HostSelectsKeeps, AnswerKeeps, ReadEndsKeeps
     DEF Client, ReadinessAnswered
<1>3. ASSUME NEW t \in Tabs,
             \/ ChooseAuto(t) \/ ChangeEffort(t) \/ Fallback(t)
             \/ \E model \in Models : ChooseModel(t, model)
      PROVE  SwitchesSound'
  <2>1. current \in Models
    BY DEF SwitchesSound, WorldSound
  <2> QED
    BY <1>3, <2>1, BeginKeeps, FallbackKeeps
       DEF ChooseAuto, ChangeEffort, ChooseModel, SessionModes
<1>4. CASE Rerender
  BY <1>4, RerenderKeeps DEF Rerender, world, SwitchesSound, WorldSound
<1>5. ASSUME NEW model \in Models, HostModel(model) PROVE SwitchesSound'
  BY <1>5, RerenderKeeps DEF HostModel
<1>6. CASE SelectModel \/ Dispose \/ Restart \/ Reopen \/ UNCHANGED vars
  BY <1>6, SelectModelKeeps, DisposeKeeps, RestartKeeps, ReopenKeeps, StutterKeeps
<1>7. ASSUME NEW mode \in Defaults, UpdateRouting(mode) PROVE SwitchesSound'
  BY <1>7, UpdateRoutingKeeps
<1> QED
  BY <1>1, <1>2, <1>3, <1>4, <1>5, <1>6, <1>7 DEF Next

-----------------------------------------------------------------------------
(* Theorems.                                                                *)

\* The inductive invariant holds of every execution.
THEOREM AlwaysSound == Spec => []SwitchesSound
<1> QED
  BY InitSound, NextSound, PTL DEF Spec

\* Every variable keeps its type, for any number of tabs, switches and restarts.
THEOREM TypeCorrect == Spec => []TypeOK
<1>1. SwitchesSound => TypeOK
  BY DEF SwitchesSound, ServerSound, TabsSound, WorldSound, TypeOK
<1> QED
  BY <1>1, AlwaysSound, PTL

\* The log has exactly one event per revision, in order, whatever tabs compete, fail
\* to flush, reopen or restart.
THEOREM OneEventPerRevision == Spec => []LogIsByRevision
<1>1. SwitchesSound => LogIsByRevision
  BY DEF SwitchesSound, ServerSound
<1> QED
  BY <1>1, AlwaysSound, PTL

\* Neither a tab nor an attempt ever has a revision whose event is not persisted.
THEOREM OnlyPersistedIsShown == Spec => []NothingUnconfirmed
<1>1. SwitchesSound => NothingUnconfirmed
  BY DEF SwitchesSound, ServerSound, TabsSound, Sound, Confirmed, NothingUnconfirmed
<1> QED
  BY <1>1, AlwaysSound, PTL

\* An attempt in another mode than the attempt before it takes the mark that a switch
\* left, unless nobody has switched the session, for which the default alone decides.
THEOREM ChangesAreReported == Spec => ModeChangeReported
<1> DEFINE Reported == attempt # NoSelection /\ attempt' # NoSelection /\ attempt' # attempt
                         => (pending /\ ~pending') \/ state = NoSelection
<1>1. SwitchesSound /\ [Next]_vars => [Reported]_vars
  <2> SUFFICES ASSUME SwitchesSound, Next, attempt # NoSelection, attempt' # NoSelection,
                      attempt' # attempt, state # NoSelection
               PROVE  pending /\ ~pending'
    BY Zenon
  <2>1. ASSUME NEW t \in Tabs, Server(t) PROVE FALSE
    BY <2>1, Zenon DEF Server, Denied, StartSwitch, FlushEnds, ReadSelection, world
  <2>2. ASSUME NEW t \in Tabs, Client(t) PROVE FALSE
    BY <2>2, Zenon DEF Client, ReadinessAnswered, Readiness, HostSelects, Answer, ReadEnds, world
  <2>3. ASSUME NEW t \in Tabs,
               \/ ChooseAuto(t) \/ ChangeEffort(t) \/ Fallback(t)
               \/ \E model \in Models : ChooseModel(t, model)
        PROVE  FALSE
    BY <2>3, Zenon DEF ChooseAuto, ChangeEffort, ChooseModel, Begin, Fallback, world
  <2>4. ASSUME NEW model \in Models, HostModel(model) PROVE FALSE
    BY <2>4, Zenon DEF HostModel
  <2>5. ~(Rerender \/ Dispose \/ Restart \/ Reopen) /\ ~\E mode \in Defaults : UpdateRouting(mode)
    BY Zenon DEF Rerender, Dispose, Restart, Reopen, UpdateRouting, Forget, world
  <2>6. SelectModel
    BY <2>1, <2>2, <2>3, <2>4, <2>5 DEF Next
  <2> QED
    BY <2>6, Zenon DEF SelectModel, SwitchesSound, AttemptCurrent
<1> QED
  BY <1>1, AlwaysSound, PTL DEF Spec, ModeChangeReported

-----------------------------------------------------------------------------
(* When the revision of a session goes up.                                  *)

\* No two switches wait for their flush at the same time.
OneSwitchAtATime ==
  \A t, u \in Tabs : tab[t].phase = "flushing" /\ tab[u].phase = "flushing" => t = u

\* A switch that waits for its flush will raise the revision in force.
WaitingIsNewer ==
  state # NoSelection =>
    \A t \in Tabs : tab[t].phase = "flushing" => state.revision < tab[t].next

Raises == state # NoSelection /\ state' # NoSelection /\ state' # state
            => state'.revision > state.revision

\* Steps that leave the state, and make no tab wait.
LEMMA NewerKept ==
  ASSUME WaitingIsNewer, UNCHANGED state \/ state' = NoSelection,
         \A t \in Tabs : tab'[t].phase = "flushing" => tab'[t] = tab[t]
                                                       \/ /\ tab[t].phase = "flushing"
                                                          /\ tab'[t].next = tab[t].next
  PROVE  WaitingIsNewer' /\ Raises
BY DEF WaitingIsNewer, Raises

LEMMA ServerRaises ==
  ASSUME SwitchesSound, OneSwitchAtATime, WaitingIsNewer, NEW t \in Tabs, Server(t)
  PROVE  WaitingIsNewer' /\ Raises
<1> USE DEF SwitchesSound, TabsSound
<1>1. CASE Denied(t) \/ ReadSelection(t)
  <2>1. UNCHANGED state
    BY <1>1 DEF Denied, ReadSelection, server
  <2>2. tab'[t].phase # "flushing" /\ \A u \in Tabs \ {t} : tab'[u] = tab[u]
    BY <1>1 DEF Denied, ReadSelection, Answered, TabRecords
  <2> QED BY <2>1, <2>2, NewerKept
<1>2. CASE StartSwitch(t)
  <2>1. UNCHANGED state /\ \A u \in Tabs \ {t} : tab'[u] = tab[u]
    BY <1>2 DEF StartSwitch, Answered
  <2>2. ASSUME state # NoSelection, tab'[t].phase = "flushing"
        PROVE  state.revision < tab'[t].next
    <3>1. tab[t].phase = "authorizing"
      BY <1>2 DEF StartSwitch
    <3>2. tab' # Answered(t, NoSelection)
      BY <2>2 DEF Answered, TabRecords
    <3>3. tab'[t].next = Selection.revision + 1
      BY <1>2, <3>2 DEF StartSwitch, TabRecords
    <3>4. Selection = state /\ state \in Selections
      BY <2>2 DEF Selection, ServerSound
    <3> QED BY <3>3, <3>4 DEF Selections
  <2>3. WaitingIsNewer'
    BY <2>1, <2>2 DEF WaitingIsNewer
  <2> QED BY <2>1, <2>3 DEF Raises
<1>3. ASSUME NEW participated \in BOOLEAN, FlushEnds(t, participated)
      PROVE  WaitingIsNewer' /\ Raises
  <2>1. tab[t].phase = "flushing"
    BY <1>3 DEF FlushEnds
  <2>2. \A u \in Tabs \ {t} : tab'[u] = tab[u]
    BY <1>3 DEF FlushEnds, Answered
  <2>3. tab'[t].phase = "answered"
    BY <1>3 DEF FlushEnds, Answered, TabRecords
  <2>4. \A u \in Tabs : tab'[u].phase # "flushing"
    BY <2>1, <2>2, <2>3 DEF OneSwitchAtATime
  <2>5. WaitingIsNewer'
    BY <2>4 DEF WaitingIsNewer
  <2>6. Raises
    <3>1. UNCHANGED state \/ state' = [revision |-> tab[t].next, mode |-> tab[t].target]
      BY <1>3, Zenon DEF FlushEnds
    <3>2. state # NoSelection => state.revision < tab[t].next
      BY <2>1 DEF WaitingIsNewer
    <3>3. state # NoSelection => state.revision \in Nat /\ tab[t].next \in Nat
      BY DEF ServerSound, Selections, TabRecords
    <3> QED BY <3>1, <3>2, <3>3 DEF Raises
  <2> QED BY <2>5, <2>6
<1> QED BY <1>1, <1>2, <1>3 DEF Server

LEMMA NextRaises ==
  ASSUME SwitchesSound, OneSwitchAtATime, WaitingIsNewer, [Next]_vars
  PROVE  WaitingIsNewer' /\ Raises
<1> USE DEF SwitchesSound, TabsSound
<1>1. ASSUME NEW t \in Tabs, Server(t) PROVE WaitingIsNewer' /\ Raises
  BY <1>1, ServerRaises
<1>2. ASSUME NEW t \in Tabs, Client(t) PROVE WaitingIsNewer' /\ Raises
  <2>1. UNCHANGED state
    BY <1>2, Zenon DEF Client, ReadinessAnswered, Readiness, HostSelects, Answer, ReadEnds, server
  <2>2. \A u \in Tabs : tab'[u].phase = "flushing" =>
          tab'[u] = tab[u] \/ (tab[u].phase = "flushing" /\ tab'[u].next = tab[u].next)
    <3>1. ASSUME ReadinessAnswered(t)
          PROVE  tab'[t].phase # "flushing" /\ \A u \in Tabs \ {t} : tab'[u] = tab[u]
      BY <3>1 DEF ReadinessAnswered, Readiness, Reread, TabRecords
    <3>2. ASSUME Answer(t) \/ \E ok, uncovered \in BOOLEAN : ReadEnds(t, ok, uncovered)
          PROVE  tab'[t].phase # "flushing" /\ \A u \in Tabs \ {t} : tab'[u] = tab[u]
      <4>1. \A u \in Tabs \ {t} : tab'[u] = tab[u]
        BY <3>2 DEF Answer, ReadEnds
      <4>2. /\ \A shown : Rest(t, shown).phase = "idle" /\ Reread(t).phase = "reading"
            /\ \A shown, b : [Rest(t, shown) EXCEPT !.saving = b].phase = "idle"
            /\ \A shown, b : [Rest(t, shown) EXCEPT !.uncovered = b].phase = "idle"
        BY DEF Reread, Rest, Resting, TabRecords
      <4>3. CASE Answer(t)
        <5> DEFINE c == tab[t]
                   r == IF c.kind = "fallback" /\ ~c.mounted
                        THEN [Rest(t, c.shown) EXCEPT !.saving = TRUE]
                        ELSE IF c.reply # NoSelection THEN Rest(t, c.reply)
                        ELSE IF c.kind = "user" THEN Reread(t)
                        ELSE Rest(t, c.shown)
        <5>1. tab' = [tab EXCEPT ![t] = r]
          BY <4>3, Zenon DEF Answer
        <5>2. r.phase \in {"idle", "reading"}
          BY <4>2
        <5> QED BY <4>1, <5>1, <5>2
      <4>4. ASSUME NEW ok \in BOOLEAN, NEW uncovered \in BOOLEAN, ReadEnds(t, ok, uncovered)
            PROVE  tab'[t].phase # "flushing"
        <5> DEFINE r == [Rest(t, IF ok THEN tab[t].reply ELSE tab[t].shown)
                           EXCEPT !.uncovered = uncovered]
        <5>1. tab' = [tab EXCEPT ![t] = r]
          BY <4>4, Zenon DEF ReadEnds
        <5>2. r.phase = "idle"
          BY <4>2
        <5> QED BY <5>1, <5>2
      <4> QED BY <3>2, <4>1, <4>3, <4>4
    <3>3. ASSUME NEW accepted \in BOOLEAN, HostSelects(t, accepted), NEW u \in Tabs,
                 tab'[u].phase = "flushing"
          PROVE  tab[u].phase = "flushing" /\ tab'[u].next = tab[u].next
      <4> DEFINE moved == [tab EXCEPT ![t].phase = "authorizing"]
      <4>1. /\ moved[t].phase = "authorizing"
            /\ \A v \in Tabs \ {t} : moved[v] = tab[v]
            /\ moved \in [Tabs -> TabRecords]
        BY DEF TabRecords, Phases
      <4> HIDE DEF moved
      <4>2. tab' = moved \/ tab' = Rerendered(moved) \/ tab' = [tab EXCEPT ![t] = Reread(t)]
        BY <3>3 DEF HostSelects, moved
      <4>3. Rerendered(moved)[u].phase = moved[u].phase /\ Rerendered(moved)[u].next = moved[u].next
        BY <4>1 DEF Rerendered, TabRecords
      <4>4. Reread(t).phase = "reading"
        BY DEF Reread, TabRecords
      <4> QED BY <3>3, <4>1, <4>2, <4>3, <4>4
    <3> QED BY <1>2, <3>1, <3>2, <3>3 DEF Client
  <2> QED BY <2>1, <2>2, NewerKept
<1>3. ASSUME NEW t \in Tabs,
             \/ ChooseAuto(t) \/ ChangeEffort(t) \/ Fallback(t)
             \/ \E model \in Models : ChooseModel(t, model)
      PROVE  WaitingIsNewer' /\ Raises
  <2>1. UNCHANGED state
    BY <1>3, Zenon DEF ChooseAuto, ChangeEffort, Fallback, ChooseModel, Begin, server
  <2>2. \A u \in Tabs \ {t} : tab'[u] = tab[u]
    BY <1>3 DEF ChooseAuto, ChangeEffort, Fallback, ChooseModel, Begin
  <2>3. ASSUME NEW phase \in {"readiness", "choosing"}, NEW mode, NEW model,
               Begin(t, phase, mode, model)
        PROVE  tab'[t].phase # "flushing"
    <3> DEFINE r == [tab[t] EXCEPT !.phase = phase, !.kind = "user", !.saving = TRUE,
                                   !.target = mode, !.model = model,
                                   !.uncovered = phase # "readiness" /\ @]
    <3>1. tab' = [tab EXCEPT ![t] = r]
      BY <2>3, Zenon DEF Begin
    <3>2. r.phase = phase
      BY DEF TabRecords
    <3> HIDE DEF r
    <3> QED BY <3>1, <3>2
  <2>4. ASSUME Fallback(t) PROVE tab'[t].phase # "flushing"
    <3> DEFINE r == [tab[t] EXCEPT !.phase = "authorizing", !.kind = "fallback", !.saving = TRUE,
                        !.target = "manual", !.model = current,
                        !.tried = <<tab[t].shown.revision, current>>, !.mounted = TRUE]
    <3>1. tab' = [tab EXCEPT ![t] = r]
      BY <2>4, Zenon DEF Fallback
    <3>2. r.phase = "authorizing"
      BY DEF TabRecords
    <3> HIDE DEF r
    <3> QED BY <3>1, <3>2
  <2>5. tab'[t].phase # "flushing"
    BY <1>3, <2>3, <2>4 DEF ChooseAuto, ChangeEffort, ChooseModel
  <2> QED BY <2>1, <2>2, <2>5, NewerKept
<1>4. ASSUME tab' = Rerendered(tab), UNCHANGED state PROVE WaitingIsNewer' /\ Raises
  <2>1. \A u \in Tabs : tab'[u].phase = tab[u].phase /\ tab'[u].next = tab[u].next
    BY <1>4 DEF Rerendered, TabRecords
  <2> QED BY <1>4, <2>1, NewerKept
<1>5. CASE Rerender
  BY <1>4, <1>5 DEF Rerender, server
<1>6. ASSUME NEW model \in Models, HostModel(model) PROVE WaitingIsNewer' /\ Raises
  BY <1>4, <1>6 DEF HostModel, server
<1>7. CASE \/ SelectModel \/ Dispose \/ Reopen \/ UNCHANGED vars
           \/ \E mode \in Defaults : UpdateRouting(mode)
  <2>1. tab' = tab /\ (UNCHANGED state \/ state' = NoSelection)
    BY <1>7, Zenon DEF SelectModel, Dispose, Forget, Reopen, UpdateRouting, vars, server
  <2> QED BY <2>1, NewerKept
<1>8. CASE Restart
  BY <1>8 DEF Restart, Forget, WaitingIsNewer, Raises
<1> QED
  BY <1>1, <1>2, <1>3, <1>5, <1>6, <1>7, <1>8 DEF Next

\* Every successful switch raises the revision as long as no two wait for their flush
\* at the same time: the overlap is all that breaks SwitchesRaiseRevision, and no
\* failure, disposal, reopening or restart does.
THEOREM RaisesUnlessOverlapping == Spec /\ []OneSwitchAtATime => SwitchesRaiseRevision
<1>1. Init => WaitingIsNewer
  BY DEF Init, WaitingIsNewer
<1>2. SwitchesSound /\ OneSwitchAtATime /\ WaitingIsNewer /\ [Next]_vars
        => WaitingIsNewer' /\ [Raises]_vars
  BY NextRaises
<1>3. Spec /\ []OneSwitchAtATime => [][Raises]_vars
  BY <1>1, <1>2, AlwaysSound, PTL DEF Spec
<1> QED BY <1>3 DEF SwitchesRaiseRevision, Raises

\* So a session that one tab at most controls always keeps the promise.
THEOREM OneTabRaises == (\A t, u \in Tabs : t = u) => (Spec => SwitchesRaiseRevision)
<1> SUFFICES ASSUME \A t, u \in Tabs : t = u PROVE Spec => SwitchesRaiseRevision
  OBVIOUS
<1>1. OneSwitchAtATime
  BY DEF OneSwitchAtATime
<1>2. []OneSwitchAtATime
  BY <1>1, PTL
<1> QED BY <1>2, RaisesUnlessOverlapping

-----------------------------------------------------------------------------
(* The persisted events.                                                    *)

\* What is persisted stays, event by event, and only grows.
DurableIsKept ==
  [][durable <= durable' /\ \A i \in 1 .. durable : log'[i] = log[i]]_vars

\* Nothing takes back a persisted selection event, whatever switches compete, whatever
\* flush fails, and wherever a disposal or a restart cuts the log.
THEOREM PersistedEventsStay == Spec => DurableIsKept
<1> DEFINE Kept == durable <= durable' /\ \A i \in 1 .. durable : log'[i] = log[i]
<1>1. ASSUME SwitchesSound, [Next]_vars PROVE Kept
  <2> USE DEF SwitchesSound, ServerSound
  <2>0. log \in Seq(Selections) /\ durable \in Nat /\ Len(log) \in Nat /\ durable <= Len(log)
    BY <1>1
  <2>1. ASSUME UNCHANGED <<log, durable>> PROVE Kept
    BY <2>0, <2>1
  <2>2. ASSUME NEW t \in Tabs, Server(t) PROVE Kept
    <3>1. CASE Denied(t) \/ ReadSelection(t)
      BY <2>1, <3>1, Zenon DEF Denied, ReadSelection, server
    <3>2. CASE StartSwitch(t)
      <4> DEFINE event == [revision |-> Selection.revision + 1, mode |-> tab[t].target]
      <4>1. durable' = durable /\ (log' = log \/ log' = AppendSelection(event))
        BY <3>2, Zenon DEF StartSwitch
      <4>2. event \in Selections
        BY <1>1, SelectionSound DEF Selections, TabsSound, TabRecords
      <4> HIDE DEF event
      <4>3. \A i \in 1 .. Len(log) : Append(log, event)[i] = log[i]
        BY <2>0, <4>2, AppendProperties
      <4>4. \A i \in 1 .. Len(log) : AppendSelection(event)[i] = log[i]
        BY <4>3 DEF AppendSelection
      <4> QED BY <2>0, <4>1, <4>4
    <3>3. ASSUME NEW participated \in BOOLEAN, FlushEnds(t, participated) PROVE Kept
      <4>1. log' = log /\ (durable' = durable \/ durable' = Len(log))
        BY <3>3, Zenon DEF FlushEnds
      <4> QED BY <2>0, <4>1
    <3> QED BY <2>2, <3>1, <3>2, <3>3 DEF Server
  <2>3. ASSUME NEW t \in Tabs, Client(t) PROVE Kept
    BY <2>1, <2>3, Zenon
       DEF Client, ReadinessAnswered, Readiness, HostSelects, Answer, ReadEnds, server
  <2>4. ASSUME NEW t \in Tabs,
               \/ ChooseAuto(t) \/ ChangeEffort(t) \/ Fallback(t)
               \/ \E model \in Models : ChooseModel(t, model)
        PROVE  Kept
    BY <2>1, <2>4, Zenon DEF ChooseAuto, ChangeEffort, Fallback, ChooseModel, Begin, server
  <2>5. ASSUME NEW model \in Models, HostModel(model) PROVE Kept
    BY <2>1, <2>5, Zenon DEF HostModel, server
  <2>6. CASE \/ SelectModel \/ Rerender \/ Dispose \/ UNCHANGED vars
             \/ \E mode \in Defaults : UpdateRouting(mode)
    BY <2>1, <2>6, Zenon DEF SelectModel, Rerender, Dispose, UpdateRouting, server, vars
  <2>7. CASE Restart \/ Reopen
    <3>1. log' = SubSeq(log, 1, durable) /\ durable' = durable
      BY <2>7, Zenon DEF Restart, Reopen
    <3>2. \A i \in 1 .. durable : SubSeq(log, 1, durable)[i] = log[i]
      BY <2>0, SubSeqProperties
    <3> QED BY <2>0, <3>1, <3>2
  <2> QED BY <1>1, <2>2, <2>3, <2>4, <2>5, <2>6, <2>7 DEF Next
<1>2. Spec => [][Kept]_vars
  BY <1>1, AlwaysSound, PTL DEF Spec
<1> QED BY <1>2 DEF DurableIsKept

-----------------------------------------------------------------------------
(* Why a change the user made comes to an end.                              *)

UserChange(c) == c.kind = "user" /\ c.saving

\* How many answers a change still waits for, at most.
Left(phase) ==
  IF phase \in {"readiness", "choosing"} THEN 6
  ELSE IF phase = "authorizing" THEN 5
  ELSE IF phase = "flushing" THEN 4
  ELSE IF phase = "answered" THEN 3
  ELSE IF phase = "reading" THEN 2
  ELSE IF phase = "read" THEN 1
  ELSE 0

Over(r) == r.phase = "idle" /\ r.kind = "load"

\* A call is over, and a change of the user with its controls free, or it goes on with
\* fewer answers to come.
Goes(c, r) ==
  \/ Over(r) /\ (c.kind = "user" => ~r.saving)
  \/ /\ r.kind = c.kind /\ (c.saving => r.saving)
     /\ 0 < Left(r.phase) /\ Left(r.phase) < Left(c.phase)

LEMMA CallGoesOn ==
  ASSUME SwitchesSound, NEW t \in Tabs, Server(t) \/ Client(t)
  PROVE  Goes(tab[t], tab'[t])
<1> USE DEF Goes, Over, Left
<1>0. tab \in [Tabs -> TabRecords] /\ tab[t] \in TabRecords
  BY DEF SwitchesSound, TabsSound
<1>1. ASSUME NEW phase \in Phases, NEW reply,
             tab' = [tab EXCEPT ![t].phase = phase, ![t].reply = reply]
      PROVE  tab'[t].kind = tab[t].kind /\ (tab[t].saving => tab'[t].saving) /\ tab'[t].phase = phase
  BY <1>0, <1>1 DEF TabRecords
<1>2. ASSUME NEW phase \in Phases, NEW next,
             tab' = [tab EXCEPT ![t].phase = phase, ![t].next = next]
      PROVE  tab'[t].kind = tab[t].kind /\ (tab[t].saving => tab'[t].saving) /\ tab'[t].phase = phase
  BY <1>0, <1>2 DEF TabRecords
<1>3. /\ Reread(t).kind = tab[t].kind /\ (tab[t].saving => Reread(t).saving)
      /\ Reread(t).phase = "reading"
  BY <1>0 DEF Reread, TabRecords
<1>4. \A shown : ~Rest(t, shown).saving /\ Over(Rest(t, shown))
  BY DEF Rest, Resting
<1>5. CASE Denied(t)
  <2>1. tab[t].phase = "authorizing" /\ tab' = Answered(t, NoSelection)
    BY <1>5, Zenon DEF Denied
  <2>2. tab'[t].kind = tab[t].kind /\ (tab[t].saving => tab'[t].saving) /\ tab'[t].phase = "answered"
    BY <1>1, <2>1 DEF Answered, Phases
  <2> QED BY <2>1, <2>2
<1>6. CASE ReadSelection(t)
  <2>1. tab[t].phase = "reading"
        /\ tab' = [tab EXCEPT ![t].phase = "read", ![t].reply = Selection]
    BY <1>6, Zenon DEF ReadSelection
  <2>2. tab'[t].kind = tab[t].kind /\ (tab[t].saving => tab'[t].saving) /\ tab'[t].phase = "read"
    BY <1>1, <2>1 DEF Phases
  <2> QED BY <2>1, <2>2
<1>7. CASE StartSwitch(t)
  <2>1. tab[t].phase = "authorizing"
    BY <1>7 DEF StartSwitch
  <2>2. CASE tab' = Answered(t, NoSelection)
    <3>1. tab'[t].kind = tab[t].kind /\ (tab[t].saving => tab'[t].saving) /\ tab'[t].phase = "answered"
      BY <1>1, <2>2 DEF Answered, Phases
    <3> QED BY <2>1, <3>1
  <2>3. CASE tab' = [tab EXCEPT ![t].phase = "flushing", ![t].next = Selection.revision + 1]
    <3>1. tab'[t].kind = tab[t].kind /\ (tab[t].saving => tab'[t].saving) /\ tab'[t].phase = "flushing"
      BY <1>2, <2>3 DEF Phases
    <3> QED BY <2>1, <3>1
  <2> QED BY <1>7, <2>2, <2>3, Zenon DEF StartSwitch
<1>8. ASSUME NEW participated \in BOOLEAN, FlushEnds(t, participated)
      PROVE  Goes(tab[t], tab'[t])
  <2>1. tab[t].phase = "flushing" /\ \E reply : tab' = Answered(t, reply)
    BY <1>8, Zenon DEF FlushEnds
  <2>2. PICK reply : tab' = Answered(t, reply)
    BY <2>1
  <2>3. tab'[t].kind = tab[t].kind /\ (tab[t].saving => tab'[t].saving) /\ tab'[t].phase = "answered"
    BY <1>1, <2>2 DEF Answered, Phases
  <2> QED BY <2>1, <2>3
<1>9. ASSUME NEW issue, Readiness(t, issue) PROVE Goes(tab[t], tab'[t])
  <2> DEFINE d == IF issue = "none" THEN [tab[t] EXCEPT !.phase = "authorizing"] ELSE Reread(t)
             r == [d EXCEPT !.uncovered = issue = "quality"]
  <2>1. tab' = [tab EXCEPT ![t] = r] /\ tab[t].phase = "readiness"
    BY <1>9, Zenon DEF Readiness
  <2>2. d \in TabRecords /\ d.kind = tab[t].kind /\ (tab[t].saving => d.saving) /\ d.phase \in {"authorizing", "reading"}
    <3>1. [tab[t] EXCEPT !.phase = "authorizing"] \in TabRecords
      BY <1>0 DEF TabRecords, Phases
    <3>2. Reread(t) \in TabRecords
      BY <1>0 DEF Reread, TabRecords, Phases
    <3>3. [tab[t] EXCEPT !.phase = "authorizing"].kind = tab[t].kind
          /\ (tab[t].saving => [tab[t] EXCEPT !.phase = "authorizing"].saving)
          /\ [tab[t] EXCEPT !.phase = "authorizing"].phase = "authorizing"
      BY <1>0 DEF TabRecords
    <3> QED BY <1>3, <3>1, <3>2, <3>3
  <2> HIDE DEF d
  <2>3. r.kind = d.kind /\ (d.saving => r.saving) /\ r.phase = d.phase
    BY <2>2 DEF TabRecords
  <2> HIDE DEF r
  <2>4. tab'[t] = r
    BY <1>0, <2>1
  <2> QED BY <2>1, <2>2, <2>3, <2>4
<1>10. ASSUME NEW accepted \in BOOLEAN, HostSelects(t, accepted) PROVE Goes(tab[t], tab'[t])
  <2> DEFINE moved == [tab EXCEPT ![t].phase = "authorizing"]
  <2>1. /\ moved[t].phase = "authorizing" /\ moved[t].kind = tab[t].kind
        /\ (tab[t].saving => moved[t].saving)
    BY <1>0 DEF TabRecords
  <2> HIDE DEF moved
  <2>2. tab' = moved \/ tab' = Rerendered(moved) \/ tab' = [tab EXCEPT ![t] = Reread(t)]
    BY <1>10 DEF HostSelects, moved
  <2>3. /\ Rerendered(moved)[t].phase = moved[t].phase
        /\ Rerendered(moved)[t].kind = moved[t].kind
        /\ moved[t].saving => Rerendered(moved)[t].saving
    BY <1>0 DEF Rerendered, moved
  <2>4. tab[t].phase = "choosing"
    BY <1>10 DEF HostSelects
  <2>5. tab'[t] = moved[t] \/ tab'[t] = Rerendered(moved)[t] \/ tab'[t] = Reread(t)
    BY <1>0, <2>2
  <2>6. /\ tab'[t].kind = tab[t].kind /\ (tab[t].saving => tab'[t].saving)
        /\ tab'[t].phase \in {"authorizing", "reading"}
    BY <1>3, <2>1, <2>3, <2>5
  <2> QED BY <2>4, <2>6
<1>11. CASE Answer(t)
  <2> DEFINE c == tab[t]
  <2>1. c.phase = "answered"
        /\ tab' = [tab EXCEPT ![t] =
             IF c.kind = "fallback" /\ ~c.mounted THEN [Rest(t, c.shown) EXCEPT !.saving = TRUE]
             ELSE IF c.reply # NoSelection THEN Rest(t, c.reply)
             ELSE IF c.kind = "user" THEN Reread(t)
             ELSE Rest(t, c.shown)]
    BY <1>11, Zenon DEF Answer
  <2>2. CASE c.kind = "fallback" /\ ~c.mounted
    <3>1. tab'[t] = [Rest(t, c.shown) EXCEPT !.saving = TRUE]
      BY <1>0, <2>1, <2>2
    <3>2. Over(tab'[t])
      BY <3>1 DEF Rest, Resting
    <3> QED BY <2>2, <3>2
  <2>3. CASE ~(c.kind = "fallback" /\ ~c.mounted)
    <3>1. (\E shown : tab'[t] = Rest(t, shown)) \/ tab'[t] = Reread(t)
      BY <1>0, <2>1, <2>3
    <3> QED BY <1>3, <1>4, <2>1, <3>1
  <2> QED BY <2>2, <2>3
<1>12. ASSUME NEW ok \in BOOLEAN, NEW uncovered \in BOOLEAN, ReadEnds(t, ok, uncovered)
       PROVE  Goes(tab[t], tab'[t])
  <2> DEFINE d == Rest(t, IF ok THEN tab[t].reply ELSE tab[t].shown)
  <2>1. tab' = [tab EXCEPT ![t] = [d EXCEPT !.uncovered = uncovered]]
    BY <1>12, Zenon DEF ReadEnds
  <2>2. ~[d EXCEPT !.uncovered = uncovered].saving /\ Over([d EXCEPT !.uncovered = uncovered])
    BY DEF Rest, Resting
  <2> QED BY <1>0, <2>1, <2>2
<1> QED
  BY <1>5, <1>6, <1>7, <1>8, <1>9, <1>10, <1>11, <1>12 DEF Server, Client, ReadinessAnswered

\* A call is under way for a change of the user, and only that makes it one.
Ordinary == \A t \in Tabs : tab[t].kind = "user" => tab[t].saving /\ 0 < Left(tab[t].phase)

\* One tab's view of a step: no later phase comes before an earlier one, and an answer
\* brings the next.
Comes(t) ==
  UserChange(tab[t]) =>
    \/ ~tab'[t].saving
    \/ /\ UserChange(tab'[t]) /\ Left(tab'[t].phase) <= Left(tab[t].phase)
       /\ Server(t) \/ Client(t) => Left(tab'[t].phase) < Left(tab[t].phase)

ChangesCome == [](\A t \in Tabs : UserChange(tab[t]) => 0 < Left(tab[t].phase))
               /\ [][\A t \in Tabs : Comes(t)]_vars

\* Whatever is not an answer to the tab, or a new change of it, leaves its change alone;
\* a restart answers what the server held and makes the others read again.
LEMMA OthersLeaveIt ==
  ASSUME SwitchesSound, [Next]_vars, NEW t \in Tabs, ~(Server(t) \/ Client(t))
  PROVE  \/ tab[t].kind # "user" /\ tab'[t].kind # "user"
         \/ ~tab[t].saving /\ tab'[t].kind = "user" /\ tab'[t].saving
              /\ tab'[t].phase \in {"readiness", "choosing"}
         \/ ~tab[t].saving /\ tab'[t].kind # "user"
         \/ /\ tab'[t].kind = tab[t].kind /\ (tab[t].saving => tab'[t].saving)
            /\ \/ tab'[t].phase = tab[t].phase
               \/ 0 < Left(tab'[t].phase) /\ Left(tab'[t].phase) <= Left(tab[t].phase)
<1>0. tab \in [Tabs -> TabRecords] /\ tab[t] \in TabRecords
  BY DEF SwitchesSound, TabsSound
<1> DEFINE Same == /\ tab'[t].kind = tab[t].kind /\ (tab[t].saving => tab'[t].saving)
                   /\ tab'[t].phase = tab[t].phase
<1>1. \A tabs : tabs \in [Tabs -> TabRecords] =>
        /\ Rerendered(tabs)[t].kind = tabs[t].kind
        /\ tabs[t].saving => Rerendered(tabs)[t].saving
        /\ Rerendered(tabs)[t].phase = tabs[t].phase
  BY DEF Rerendered, TabRecords
<1>2. ASSUME NEW u \in Tabs, u # t, Server(u) \/ Client(u) PROVE Same
  <2>1. ASSUME NEW accepted \in BOOLEAN, HostSelects(u, accepted) PROVE Same
    <3> DEFINE moved == [tab EXCEPT ![u].phase = "authorizing"]
    <3>1. moved[t] = tab[t] /\ moved \in [Tabs -> TabRecords]
      BY <1>0, <1>2 DEF TabRecords, Phases
    <3> HIDE DEF moved
    <3>2. tab' = moved \/ tab' = Rerendered(moved) \/ tab' = [tab EXCEPT ![u] = Reread(u)]
      BY <2>1 DEF HostSelects, moved
    <3>3. tab' = [tab EXCEPT ![u] = Reread(u)] => tab'[t] = tab[t]
      BY <1>0, <1>2
    <3> QED BY <1>1, <3>1, <3>2, <3>3
  <2>2. ASSUME ~\E accepted \in BOOLEAN : HostSelects(u, accepted) PROVE tab'[t] = tab[t]
    <3>1. \E r : tab' = [tab EXCEPT ![u] = r]
      BY <1>2, <2>2, Zenon DEF Server, Client, Denied, StartSwitch, FlushEnds, ReadSelection,
         ReadinessAnswered, Readiness, Answer, ReadEnds, Answered
    <3> QED BY <1>0, <1>2, <3>1
  <2> QED BY <2>1, <2>2
<1>3. ASSUME NEW u \in Tabs, NEW phase \in {"readiness", "choosing"}, NEW mode, NEW model,
             Begin(u, phase, mode, model)
      PROVE  Same \/ (~tab[t].saving /\ tab'[t].kind = "user" /\ tab'[t].saving
                        /\ tab'[t].phase = phase)
  BY <1>0, <1>3 DEF Begin, Controls, TabRecords
<1>4. ASSUME NEW u \in Tabs, Fallback(u)
      PROVE  Same \/ (~tab[t].saving /\ tab'[t].kind = "fallback")
  BY <1>0, <1>4 DEF Fallback, Controls, TabRecords
<1>5. CASE Rerender \/ \E model \in Models : HostModel(model)
  <2>1. tab' = Rerendered(tab)
    BY <1>5, Zenon DEF Rerender, HostModel
  <2> QED BY <1>0, <1>1, <2>1
<1>6. CASE \/ SelectModel \/ Dispose \/ Reopen \/ UNCHANGED vars
           \/ \E mode \in Defaults : UpdateRouting(mode)
  <2>1. tab' = tab
    BY <1>6, Zenon DEF SelectModel, Dispose, Reopen, UpdateRouting, vars
  <2> QED BY <2>1
<1>7. CASE Restart
  <2>1. CASE tab[t].phase \in {"authorizing", "flushing", "answered"}
    <3>1. tab'[t] = Answered(t, NoSelection)[t]
      BY <1>7, <2>1, Zenon DEF Restart
    <3>2. tab'[t].kind = tab[t].kind /\ (tab[t].saving => tab'[t].saving)
          /\ tab'[t].phase = "answered"
      BY <1>0, <3>1 DEF Answered, TabRecords
    <3> QED BY <2>1, <3>2 DEF Left
  <2>2. CASE tab[t].phase \in {"readiness", "choosing"}
    <3>1. tab'[t] = Reread(t)
      BY <1>7, <2>2, Zenon DEF Restart
    <3>2. tab'[t].kind = tab[t].kind /\ (tab[t].saving => tab'[t].saving)
          /\ tab'[t].phase = "reading"
      BY <1>0, <3>1 DEF Reread, TabRecords
    <3> QED BY <2>2, <3>2 DEF Left
  <2>3. CASE tab[t].phase \notin {"authorizing", "flushing", "answered", "readiness", "choosing"}
    <3>1. tab'[t] = tab[t]
      BY <1>7, <2>3, Zenon DEF Restart
    <3> QED BY <3>1
  <2> QED BY <2>1, <2>2, <2>3
<1>8. ASSUME Next, NEW u \in Tabs,
             ChooseAuto(u) \/ ChangeEffort(u) \/ \E model \in Models : ChooseModel(u, model)
      PROVE  \E phase \in {"readiness", "choosing"} : \E mode, model : Begin(u, phase, mode, model)
  BY <1>8, Zenon DEF ChooseAuto, ChangeEffort, ChooseModel
<1> QED
  BY <1>2, <1>3, <1>4, <1>5, <1>6, <1>7, <1>8 DEF Next

\* A change of the user is never without a call under way for it; no step of anyone sends
\* it back, and every answer to the tab brings it nearer to its end, through conflicts,
\* refusals, lost answers and restarts.  With the answers that must come, that is the
\* reason why it ends.
THEOREM EveryAnswerCounts == Spec => ChangesCome
<1>1. Init => Ordinary
  BY DEF Init, Ordinary, Mounted, Resting
<1>2. ASSUME SwitchesSound, Ordinary, [Next]_vars, NEW t \in Tabs
      PROVE  /\ Comes(t)
             /\ tab'[t].kind = "user" => tab'[t].saving /\ 0 < Left(tab'[t].phase)
  <2>0. tab[t] \in TabRecords
    BY <1>2 DEF SwitchesSound, TabsSound
  <2>1. CASE Server(t) \/ Client(t)
    <3>1. Goes(tab[t], tab'[t])
      BY <1>2, <2>1, CallGoesOn
    <3>2. Left(tab[t].phase) \in 0 .. 6 /\ Left(tab'[t].phase) \in 0 .. 6
      BY DEF Left
    <3>3. CASE Over(tab'[t]) /\ (tab[t].kind = "user" => ~tab'[t].saving)
      BY <3>3 DEF Over, Comes, UserChange
    <3>4. CASE /\ tab'[t].kind = tab[t].kind /\ (tab[t].saving => tab'[t].saving)
               /\ 0 < Left(tab'[t].phase) /\ Left(tab'[t].phase) < Left(tab[t].phase)
      <4>1. Left(tab'[t].phase) <= Left(tab[t].phase)
        BY <3>2, <3>4
      <4> QED BY <1>2, <3>4, <4>1, Zenon DEF Comes, UserChange, Ordinary
    <3> QED BY <3>1, <3>3, <3>4 DEF Goes
  <2>2. CASE ~(Server(t) \/ Client(t))
    <3>1. Left(tab[t].phase) <= Left(tab[t].phase) /\ 0 < Left("readiness") /\ 0 < Left("choosing")
      BY DEF Left
    <3>2. tab'[t].phase = tab[t].phase => Left(tab'[t].phase) <= Left(tab[t].phase)
      BY <3>1
    <3>3. tab'[t].phase = tab[t].phase => Left(tab'[t].phase) = Left(tab[t].phase)
      OBVIOUS
    <3> HIDE DEF Left
    <3> QED
      BY <1>2, <2>2, <3>1, <3>2, <3>3, OthersLeaveIt, Zenon DEF Comes, UserChange, Ordinary
  <2> QED BY <2>1, <2>2
<1>3. SwitchesSound /\ Ordinary /\ [Next]_vars => Ordinary' /\ [\A t \in Tabs : Comes(t)]_vars
  BY <1>2 DEF Ordinary
<1>4. Ordinary => \A t \in Tabs : UserChange(tab[t]) => 0 < Left(tab[t].phase)
  BY DEF Ordinary, UserChange
<1> QED
  BY <1>1, <1>3, <1>4, AlwaysSound, PTL DEF Spec, ChangesCome
=============================================================================
