---------------------------- MODULE AtomicConfig ----------------------------
(***************************************************************************)
(* What the administrative side of the configuration promises, with no     *)
(* word about tables, memory or awaits: one versioned configuration that   *)
(* the first start settles, that every update replaces by compare-and-set, *)
(* and that the end of the process takes nothing from.                     *)
(***************************************************************************)
EXTENDS Integers, Sequences

CONSTANTS Targets,     \* what an update may change
          Configs,     \* the configurations
          Anything     \* the version an unconditional update expects

VARIABLES config,
          settled,     \* the first start has written all of it
          version,     \* 0 before the first start
          log,         \* the updates
          serving      \* a process decides from config

Init ==
  /\ config \in Configs /\ settled = FALSE
  /\ version = 0 /\ log = <<>> /\ serving = FALSE

Bootstrap ==
  /\ ~serving /\ version = 0 /\ version' = 1
  /\ UNCHANGED <<config, settled, log, serving>>

\* The first import, in pieces; it ends once.
Settle ==
  /\ ~serving /\ ~settled
  /\ config' \in Configs /\ settled' \in BOOLEAN
  /\ UNCHANGED <<version, log, serving>>

Serve ==
  /\ ~serving /\ settled /\ version # 0
  /\ serving' = TRUE
  /\ UNCHANGED <<config, settled, version, log>>

Stop ==
  /\ serving /\ serving' = FALSE
  /\ UNCHANGED <<config, settled, version, log>>

Update(t, expected) ==
  /\ serving
  /\ config' \in Configs /\ config'[t] # config[t]
  /\ \A u \in Targets \ {t} : config'[u] = config[u]
  /\ version' = version + 1
  /\ log' = Append(log, [target |-> t, old |-> version, new |-> version + 1,
                         expected |-> expected])
  /\ UNCHANGED <<settled, serving>>

Next ==
  \/ Bootstrap \/ Settle \/ Serve \/ Stop
  \/ \E t \in Targets, expected \in {version, Anything} : Update(t, expected)

Spec == Init /\ [][Next]_<<config, settled, version, log, serving>>
=============================================================================
