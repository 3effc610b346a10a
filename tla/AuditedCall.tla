---------------------------- MODULE AuditedCall ----------------------------
(***************************************************************************)
(* What the Governor promises about one provider call, with no word about  *)
(* sessions, storage or processes: a decision is recorded, then committed, *)
(* and only then may its call be made, once, while somebody still waits    *)
(* for it.  A decision that nobody waits for any more (the attempt failed, *)
(* the process crashed) may still be committed later, by reconciliation,   *)
(* but it is never called.                                                 *)
(***************************************************************************)
CONSTANT Decisions

VARIABLES phase,     \* how far each decision is
          awaited    \* decisions whose caller is still waiting

Phases == {"none", "pending", "committed", "called"}

AuditTypeOK == phase \in [Decisions -> Phases] /\ awaited \subseteq Decisions

Init == phase = [d \in Decisions |-> "none"] /\ awaited = {}

Record(d) ==
  /\ phase[d] = "none"
  /\ phase' = [phase EXCEPT ![d] = "pending"]
  /\ awaited' \in {awaited, awaited \cup {d}}

Commit(d) ==
  /\ phase[d] = "pending"
  /\ phase' = [phase EXCEPT ![d] = "committed"]
  /\ awaited' \in {awaited, awaited \ {d}}

Call(d) ==
  /\ phase[d] = "committed" /\ d \in awaited
  /\ phase' = [phase EXCEPT ![d] = "called"]
  /\ awaited' = awaited \ {d}

GiveUp ==
  /\ awaited' \in SUBSET awaited
  /\ UNCHANGED phase

Next == GiveUp \/ \E d \in Decisions : Record(d) \/ Commit(d) \/ Call(d)

Spec == Init /\ [][Next]_<<phase, awaited>>
=============================================================================
