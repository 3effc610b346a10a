--------------------------- MODULE SelectionMode ---------------------------
(***************************************************************************)
(* The selection mode of one session, Auto or Manual, and the browser tabs *)
(* that change it.  A switch passes the tab (readiness of Auto, the host's *)
(* own model selection), the remote service (permission), the service      *)
(* (expected revision), the session log (append, flush) and comes back;    *)
(* each hop is awaited.  Meanwhile other tabs switch, steps of the agent   *)
(* read the mode, tabs render again, an administrator changes the default  *)
(* for sessions without a mode of their own, the session is disposed of and*)
(* opened again, and the process restarts.                                 *)
(*                                                                         *)
(* The log holds the selection events of the session; its first durable    *)
(* ones survive the session.  A session is opened again when the writes    *)
(* under way for it have ended, with what was persisted.                   *)
(***************************************************************************)
EXTENDS Integers, Sequences, FiniteSets

CONSTANTS
  Tabs,
  Models, FirstModel,   \* the models of the host's own selector, the one selected first
  Defaults,      \* the values routing.default may have
  Rows,          \* what listModels may answer: sets of rows
  Tasks,         \* the task types Auto must cover
  NoSelection,   \* nothing loaded, no reply, no state, no event
  MaxSwitches, MaxCloses         \* bounds

SessionModes == {"auto", "manual"}
Selections == [revision : Nat, mode : SessionModes]

ASSUME SelectionAssumption ==
  /\ Defaults \subseteq {"manual", "quality_first", "credit_first", "auto"}
  /\ \A rows \in Rows : rows \subseteq [enabled : BOOLEAN, available : BOOLEAN, tasks : SUBSET Tasks]
  /\ FirstModel \in Models
  /\ NoSelection \notin Selections
  /\ MaxSwitches \in Nat /\ MaxCloses \in Nat

VARIABLES
  default,    \* routing.default
  log,        \* selection events of the session
  durable,    \* how many of them are persisted
  live,       \* the session is open
  state,      \* the service's selection state of the session, if any
  pending,    \* the next attempt reports a changed mode
  attempt,    \* the mode of the last attempt of this opening of the session
  current,    \* the host's model
  tab,
  switches,   \* changes begun, of the selection or of the default
  closes

server == <<log, durable, state, pending>>
world == <<default, live, attempt, current, closes>>
vars == <<server, world, tab, switches>>

Phases == {"idle", "readiness", "choosing", "authorizing", "flushing", "answered",
           "reading", "read"}

TabRecords ==
  [phase : Phases, kind : {"load", "user", "fallback"}, shown : Selections \cup {NoSelection},
   saving : BOOLEAN, target : SessionModes, model : Models \cup {NoSelection}, next : Nat,
   reply : Selections \cup {NoSelection}, uncovered : BOOLEAN, mounted : BOOLEAN,
   tried : {NoSelection} \cup (Nat \X Models)]

-----------------------------------------------------------------------------
(* The service.                                                             *)

\* autoSetupIssue: Auto needs an enabled and available model for every task.
AutoSetupIssue(rows) ==
  LET usable == {row \in rows : row.enabled /\ row.available}
  IN IF usable = {} THEN "setup"
     ELSE IF UNION {row.tasks : row \in usable} # Tasks THEN "quality"
     ELSE "none"

SelectionFaulty ==
  IF state # NoSelection THEN state ELSE [revision |-> 0, mode |-> default]

\* getSessionSelectionMode
Selection ==
  IF state # NoSelection THEN state
  ELSE [revision |-> 0, mode |-> IF default = "manual" THEN "manual" ELSE "auto"]

Logged(revision) == \E i \in 1 .. Len(log) : log[i].revision = revision

AppendSelectionFaulty(event) == Append(log, event)

\* appendGovernorSelectionMode: one event per revision.
AppendSelection(event) == IF Logged(event.revision) THEN log ELSE Append(log, event)

-----------------------------------------------------------------------------
(* The tabs.                                                                *)

\* No call under way; what the calls carry is forgotten.
Resting(shown, saving, uncovered, tried) ==
  [phase |-> "idle", kind |-> "load", shown |-> shown, saving |-> saving, target |-> "auto",
   model |-> NoSelection, next |-> 0, reply |-> NoSelection, uncovered |-> uncovered,
   mounted |-> TRUE, tried |-> tried]

Rest(t, shown) == Resting(shown, FALSE, tab[t].uncovered, tab[t].tried)

\* The seat mounts: it asks for the selection and for the readiness of Auto.
Mounted == [Resting(NoSelection, FALSE, FALSE, NoSelection) EXCEPT !.phase = "reading"]

Init ==
  /\ default \in Defaults
  /\ log = <<>> /\ durable = 0 /\ live = TRUE
  /\ state = NoSelection /\ pending = FALSE /\ attempt = NoSelection
  /\ current = FirstModel
  /\ tab = [t \in Tabs |-> Mounted]
  /\ switches = 0 /\ closes = 0

\* The effect of a fallback is cleaned up when what it depends on changes.
Rerendered(tabs) ==
  [t \in Tabs |-> IF tabs[t].kind = "fallback" /\ tabs[t].phase # "idle"
                  THEN [tabs[t] EXCEPT !.mounted = FALSE] ELSE tabs[t]]

\* The seat is not read-only: no change is saved and, here, no agent runs.
Controls(t) == tab[t].phase = "idle" /\ ~tab[t].saving /\ tab[t].shown # NoSelection

Begin(t, phase, mode, model) ==
  /\ Controls(t)
  /\ switches < MaxSwitches /\ switches' = switches + 1
  /\ tab' = [tab EXCEPT ![t].phase = phase, ![t].kind = "user", ![t].saving = TRUE,
                        ![t].target = mode, ![t].model = model,
                        ![t].uncovered = phase # "readiness" /\ @]
  /\ UNCHANGED <<server, world>>

\* onChange and onEffortChange.
ChooseAuto(t) == Begin(t, "readiness", "auto", current)
ChooseModel(t, model) == Begin(t, "choosing", "manual", model)
ChangeEffort(t) == Begin(t, "choosing", "manual", current)

\* A change that fails reads the selection again.
Reread(t) == [tab[t] EXCEPT !.phase = "reading", !.reply = NoSelection]

\* refreshAutoIssue; listModels may fail.
Readiness(t, issue) ==
  /\ tab[t].phase = "readiness"
  /\ tab' = [tab EXCEPT ![t] =
       [(IF issue = "none" THEN [@ EXCEPT !.phase = "authorizing"] ELSE Reread(t))
          EXCEPT !.uncovered = issue = "quality"]]
  /\ UNCHANGED <<server, world, switches>>

ReadinessAnswered(t) ==
  \/ \E rows \in Rows : Readiness(t, AutoSetupIssue(rows))
  \/ Readiness(t, "setup")

\* The host selects the model, or refuses.
HostSelects(t, accepted) ==
  /\ tab[t].phase = "choosing"
  /\ IF accepted
     THEN /\ current' = tab[t].model
          /\ tab' = LET moved == [tab EXCEPT ![t].phase = "authorizing"]
                    IN IF current' = current THEN moved ELSE Rerendered(moved)
     ELSE current' = current /\ tab' = [tab EXCEPT ![t] = Reread(t)]
  /\ UNCHANGED <<server, default, live, attempt, closes, switches>>

\* The effect that leaves an Auto which is not ready; once per revision and model.
Fallback(t) ==
  LET key == <<tab[t].shown.revision, current>> IN
  /\ Controls(t) /\ tab[t].shown.mode = "auto" /\ tab[t].uncovered
  /\ tab[t].tried # key
  /\ switches < MaxSwitches /\ switches' = switches + 1
  /\ tab' = [tab EXCEPT ![t].phase = "authorizing", ![t].kind = "fallback", ![t].saving = TRUE,
                        ![t].target = "manual", ![t].model = current, ![t].tried = key,
                        ![t].mounted = TRUE]
  /\ UNCHANGED <<server, world>>

-----------------------------------------------------------------------------
(* A switch on the server.                                                  *)

Answered(t, reply) == [tab EXCEPT ![t].phase = "answered", ![t].reply = reply]

\* The permission was refused or could not be read.
Denied(t) ==
  /\ tab[t].phase = "authorizing"
  /\ tab' = Answered(t, NoSelection)
  /\ UNCHANGED <<server, world, switches>>

\* setSessionSelectionMode up to the await of the flush.
StartSwitch(t) ==
  LET next == Selection.revision + 1
      conflict == tab[t].shown.revision # Selection.revision
  IN /\ tab[t].phase = "authorizing"
     /\ IF conflict \/ ~live
        THEN tab' = Answered(t, NoSelection) /\ log' = log
        ELSE /\ log' = AppendSelection([revision |-> next, mode |-> tab[t].target])
             /\ tab' = [tab EXCEPT ![t].phase = "flushing", ![t].next = next]
     /\ UNCHANGED <<durable, state, pending, world, switches>>

FlushEndsFaulty(t, participated) ==
  /\ tab[t].phase = "flushing"
  /\ LET reply == [revision |-> tab[t].next, mode |-> tab[t].target]
     IN /\ durable' = IF participated THEN Len(log) ELSE durable
        /\ state' = reply /\ pending' = TRUE
        /\ tab' = Answered(t, reply)
  /\ UNCHANGED <<log, world, switches>>

FlushEndsQuietly(t, participated) ==
  /\ tab[t].phase = "flushing"
  /\ IF participated
     THEN LET reply == [revision |-> tab[t].next, mode |-> tab[t].target]
          IN /\ durable' = Len(log) /\ state' = reply /\ pending' = pending
             /\ tab' = Answered(t, reply)
     ELSE /\ UNCHANGED <<durable, state, pending>>
          /\ tab' = Answered(t, NoSelection)
  /\ UNCHANGED <<log, world, switches>>

\* The rest of it: the state is set from what was read before the flush.
FlushEnds(t, participated) ==
  /\ tab[t].phase = "flushing"
  /\ IF participated
     THEN LET reply == [revision |-> tab[t].next, mode |-> tab[t].target]
          IN /\ durable' = Len(log) /\ state' = reply /\ pending' = TRUE
             /\ tab' = Answered(t, reply)
     ELSE /\ UNCHANGED <<durable, state, pending>>
          /\ tab' = Answered(t, NoSelection)
  /\ UNCHANGED <<log, world, switches>>

AnswerFaulty(t) ==
  LET c == tab[t] IN
  /\ c.phase = "answered"
  /\ tab' = [tab EXCEPT ![t] =
       IF c.reply # NoSelection /\ c.mounted THEN Rest(t, c.reply)
       ELSE [Rest(t, c.shown) EXCEPT !.kind = c.kind, !.saving = TRUE]]
  /\ UNCHANGED <<server, world, switches>>

\* The answer reaches the tab.  A fallback whose effect was cleaned up ignores it and
\* leaves the tab saving.
Answer(t) ==
  LET c == tab[t] IN
  /\ c.phase = "answered"
  /\ tab' = [tab EXCEPT ![t] =
       IF c.kind = "fallback" /\ ~c.mounted THEN [Rest(t, c.shown) EXCEPT !.saving = TRUE]
       ELSE IF c.reply # NoSelection THEN Rest(t, c.reply)
       ELSE IF c.kind = "user" THEN Reread(t)
       ELSE Rest(t, c.shown)]
  /\ UNCHANGED <<server, world, switches>>

\* The server answers a tab that reads the selection; the answer travels.
ReadSelection(t) ==
  /\ tab[t].phase = "reading"
  /\ tab' = [tab EXCEPT ![t].phase = "read", ![t].reply = Selection]
  /\ UNCHANGED <<server, world, switches>>

\* The answer arrives, or the call failed and the tab keeps what it shows.  A tab that
\* loads learns as well whether models are missing for Auto, which is all it keeps of that.
ReadEnds(t, ok, uncovered) ==
  LET c == tab[t] IN
  /\ c.phase = "read"
  /\ c.kind = "load" \/ uncovered = c.uncovered
  /\ tab' = [tab EXCEPT ![t] =
       [Rest(t, IF ok THEN c.reply ELSE c.shown) EXCEPT !.uncovered = uncovered]]
  /\ UNCHANGED <<server, world, switches>>

-----------------------------------------------------------------------------
(* The agent, the host and the process.                                     *)

\* selectModel reads the mode, or the default of that moment, and takes the mark of a
\* changed mode in one stretch.
SelectModel ==
  /\ live
  /\ attempt' = IF state = NoSelection THEN default ELSE state.mode
  /\ pending' = FALSE
  /\ UNCHANGED <<log, durable, state, default, live, current, closes, tab, switches>>

\* updateRoutingSettings changes the default under every session, and marks none.
UpdateRouting(mode) ==
  /\ mode # default /\ default' = mode
  /\ switches < MaxSwitches /\ switches' = switches + 1
  /\ UNCHANGED <<server, live, attempt, current, closes, tab>>

\* The agent starts or stops, which locks the seat meanwhile.
Rerender ==
  /\ tab' = Rerendered(tab) /\ tab' # tab
  /\ UNCHANGED <<server, world, switches>>

HostModel(model) ==
  /\ model # current /\ current' = model /\ tab' = Rerendered(tab)
  /\ UNCHANGED <<server, default, live, attempt, closes, switches>>

Forget == state' = NoSelection /\ pending' = FALSE /\ attempt' = NoSelection

\* handleSessionDispose: a switch under way goes on.
Dispose ==
  /\ live /\ closes < MaxCloses /\ closes' = closes + 1
  /\ live' = FALSE /\ Forget
  /\ UNCHANGED <<log, durable, default, current, tab, switches>>

\* What was not persisted is gone, every call of a tab fails.
Restart ==
  /\ closes < MaxCloses /\ closes' = closes + 1
  /\ live' = FALSE /\ Forget
  /\ log' = SubSeq(log, 1, durable)
  /\ tab' = [t \in Tabs |->
       CASE tab[t].phase \in {"authorizing", "flushing", "answered"} -> Answered(t, NoSelection)[t]
         [] tab[t].phase \in {"readiness", "choosing"} -> Reread(t)
         [] OTHER -> tab[t]]
  /\ UNCHANGED <<durable, default, current, switches>>

\* The selection is not restored from the log.
Reopen ==
  /\ ~live /\ live' = TRUE
  /\ \A t \in Tabs : tab[t].phase # "flushing"
  /\ log' = SubSeq(log, 1, durable)
  /\ UNCHANGED <<durable, state, pending, default, attempt, current, closes, tab,
                 switches>>

Server(t) ==
  \/ Denied(t) \/ StartSwitch(t)
  \/ \E participated \in BOOLEAN : FlushEnds(t, participated)
  \/ ReadSelection(t)

Client(t) ==
  \/ ReadinessAnswered(t)
  \/ \E accepted \in BOOLEAN : HostSelects(t, accepted)
  \/ Answer(t)
  \/ \E ok, uncovered \in BOOLEAN : ReadEnds(t, ok, uncovered)

Next ==
  \/ \E t \in Tabs :
       \/ Server(t) \/ Client(t)
       \/ ChooseAuto(t) \/ ChangeEffort(t) \/ Fallback(t)
       \/ \E model \in Models : ChooseModel(t, model)
  \/ SelectModel \/ Rerender \/ Dispose \/ Restart \/ Reopen
  \/ \E model \in Models : HostModel(model)
  \/ \E mode \in Defaults : UpdateRouting(mode)

Spec == Init /\ [][Next]_vars

\* Calls that were made are answered.
FairSpec == Spec /\ \A t \in Tabs : WF_vars(Server(t)) /\ WF_vars(Client(t))

-----------------------------------------------------------------------------
(* Properties.                                                              *)

TypeOK ==
  /\ default \in Defaults /\ current \in Models
  /\ log \in Seq(Selections) /\ durable \in 0 .. Len(log)
  /\ live \in BOOLEAN /\ pending \in BOOLEAN /\ attempt \in Defaults \cup SessionModes \cup {NoSelection}
  /\ state \in Selections \cup {NoSelection}
  /\ tab \in [Tabs -> TabRecords]
  /\ switches \in 0 .. MaxSwitches /\ closes \in 0 .. MaxCloses

\* Whatever fails or restarts, the log has one event per revision, in order: two
\* tabs, a repeated switch after a failed flush, or the revisions that start again
\* after a reopening, append no second one (dsh-adapter/session-events.ts:228).
LogIsByRevision == \A i \in 1 .. Len(log) : log[i].revision = i

\* No tab shows, and no attempt uses, a revision whose event is not persisted
\* (service.ts:2006; audit-pipeline.ts:123).
NothingUnconfirmed ==
  LET Persisted(r) == r <= durable IN
  /\ state # NoSelection => Persisted(state.revision)
  /\ \A t \in Tabs : tab[t].shown # NoSelection => Persisted(tab[t].shown.revision)

\* An attempt that runs in another mode than the attempt before it in this opening of the
\* session says so, with the mark that a switch left for it (service.ts:1075).  The one
\* exception is a session nobody has switched: it runs in routing.default, and a change
\* of that between two of its attempts leaves no mark (service.ts:899, 1437).
ModeChangeReported ==
  [][attempt # NoSelection /\ attempt' # NoSelection /\ attempt' # attempt
       => (pending /\ ~pending') \/ state = NoSelection]_vars

\* Every successful switch raises the revision, so that of two tabs that switch from
\* the same one only the first succeeds (service.ts:1973; session-events.ts:86).
SwitchesRaiseRevision ==
  [][state # NoSelection /\ state' # NoSelection /\ state' # state
       => state'.revision > state.revision]_vars

\* A change the user made in a tab ends and the controls work again: whatever is
\* refused, conflicts or fails on the way (browser.ts:409, 448).
UserChangeSettles ==
  \A t \in Tabs : tab[t].kind = "user" /\ tab[t].saving ~> ~tab[t].saving
=============================================================================
