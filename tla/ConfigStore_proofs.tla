------------------------ MODULE ConfigStore_proofs ------------------------
(***************************************************************************)
(* Theorems about ConfigStore, for every set of clients, routes, users,    *)
(* fields and values and every bound.                                      *)
(*                                                                         *)
(* Consistent is the inductive invariant.  The start-up import decides by  *)
(* an empty table, so ImportProgress says what each phase has written; the *)
(* routing update commits what it read before its await, so CallsChecked   *)
(* says what a pending one holds; AuditGrows carries the strict growth of  *)
(* the revision over stretches of the log without a routing update.        *)
(*                                                                         *)
(* From it follow the refinement of AtomicConfig and two conditions under  *)
(* which what the code does not promise holds after all: NeverStale for    *)
(* OneWinnerPerRevision, EndsOnlyWhenUp for YamlIsImported.                *)
(***************************************************************************)
EXTENDS ConfigStore, SequenceTheorems, TLAPS

\* What each phase of the constructor has written and has still to write.
ImportProgress ==
  /\ phase \in {"down", "revision", "up"} => todo = {}
  /\ phase = "revision" => revision = 0
  /\ phase \notin {"down", "revision"} => revision # 0
  /\ phase = "models" =>
       /\ todo \subseteq Routes /\ (NoneStored(Routes) => todo = Routes)
       /\ \A r \in todo : stored[r] = Absent
  /\ phase \in {"users", "allow", "up"} => ~NoneStored(Routes)
  /\ phase \in {"users", "allow"} =>
       /\ todo \subseteq Users /\ (NoneStored(Users) => todo = Users)
  /\ phase = "users" => \A u \in todo : stored[u] = Absent
  /\ phase = "allow" =>
       \A u, v \in todo : (stored[u] # Absent /\ stored[v] # Absent) => u = v
  /\ phase = "up" => ~NoneStored(Users)

\* A routing update under way holds an accepted revision.
CallsChecked ==
  \A c \in Clients : call[c] # Absent =>
    /\ phase = "up"
    /\ call[c].expected \in {call[c].current, Absent}

\* Memory is what SQLite holds; only the routing settings may have no row yet.
MemoryIsRows ==
  phase = "up" => \A p \in Policies :
    memory[p] = IF p = Routing /\ stored[p] = Absent THEN Yaml[p] ELSE stored[p]

\* Every audited update adds one to the revision it expected, and over a stretch
\* without a routing update the revisions grow strictly.
AuditGrows ==
  /\ revision = 0 => audit = <<>>
  /\ \A i \in 1..Len(audit) :
       /\ audit[i].new = audit[i].old + 1
       /\ audit[i].expected \in {audit[i].old, Absent}
  /\ \A i, j \in 1..Len(audit) :
       (i < j /\ \A k \in i + 1..j : audit[k].target # Routing)
         => audit[i].old < audit[j].old

Consistent ==
  TypeOK /\ ImportProgress /\ CallsChecked /\ MemoryIsRows /\ RevisionChain /\ AuditGrows

-----------------------------------------------------------------------------
(* The operators of the updates.                                            *)

\* A patched policy is a policy.
LEMMA PatchedIsPolicy ==
  ASSUME NEW policy \in PolicyValues, NEW patch \in Patches
  PROVE  Patched(policy, patch) \in PolicyValues
<1>1. \A f \in DOMAIN patch : patch[f] \in Values
  BY DEF Patches
<1> QED BY <1>1 DEF Patched, PolicyValues

\* What a start loads has the type of the policies.
LEMMA LoadedIsTyped ==
  ASSUME TypeOK
  PROVE  LoadedPolicies \in [Policies -> PolicyValues \cup {Absent}]
<1>1. \A S \in SUBSET Policies : \A p \in S :
        Loaded(S)[p] \in PolicyValues \cup {Absent}
  BY PoliciesAssumption DEF Loaded, TypeOK
<1>2. {Routing} \subseteq Policies /\ Routes \subseteq Policies /\ Users \subseteq Policies
  BY DEF Policies
<1>3. ASSUME NEW p \in Policies
      PROVE  LoadedPolicies[p] \in PolicyValues \cup {Absent}
  <2>1. p = Routing \/ p \in Routes \/ p \in Users
    BY DEF Policies
  <2> QED BY <1>1, <1>2, <2>1 DEF LoadedPolicies
<1> QED BY <1>3 DEF LoadedPolicies

\* With rows in both tables, a start takes every model and user from its row.
LEMMA LoadedIsRows ==
  ASSUME TypeOK, ~NoneStored(Routes), ~NoneStored(Users)
  PROVE  \A p \in Policies :
           LoadedPolicies[p] = IF p = Routing /\ stored[p] = Absent THEN Yaml[p]
                               ELSE stored[p]
<1> SUFFICES ASSUME NEW p \in Policies
             PROVE  LoadedPolicies[p] =
                      IF p = Routing /\ stored[p] = Absent THEN Yaml[p] ELSE stored[p]
  OBVIOUS
<1>1. CASE p = Routing
  <2>1. LoadedPolicies[p] = Loaded({Routing})[Routing]
    BY <1>1 DEF LoadedPolicies
  <2>2. Loaded({Routing})[Routing] =
          IF NoneStored({Routing}) THEN Yaml[Routing] ELSE stored[Routing]
    BY DEF Loaded
  <2>3. NoneStored({Routing}) <=> stored[Routing] = Absent
    BY DEF NoneStored
  <2> QED BY <1>1, <2>1, <2>2, <2>3
<1>2. CASE p # Routing /\ p \in Routes
  BY <1>2 DEF LoadedPolicies, Loaded
<1>3. CASE p # Routing /\ p \notin Routes
  <2>1. p \in Users
    BY <1>3 DEF Policies
  <2> QED BY <1>3, <2>1 DEF LoadedPolicies, Loaded
<1> QED BY <1>1, <1>2, <1>3

\* A transaction keeps the types of the tables.
LEMMA CommitIsTyped ==
  ASSUME TypeOK, NEW p \in Policies, NEW policy \in PolicyValues, NEW current \in Nat,
         NEW expected \in Nat \cup {Absent}, Commit(p, policy, current, expected)
  PROVE  /\ stored' \in [Policies -> PolicyValues \cup {Absent}]
         /\ revision' \in Nat
         /\ audit' \in Seq(AuditRows)
<1>1. [target |-> p, old |-> current, new |-> current + 1, expected |-> expected]
        \in AuditRows
  BY DEF AuditRows
<1>2. audit' \in Seq(AuditRows)
  BY <1>1, AppendProperties DEF Commit, TypeOK
<1> QED BY <1>2 DEF Commit, TypeOK

\* A transaction adds one audit row and keeps the others.
LEMMA CommitAppends ==
  ASSUME TypeOK, NEW p \in Policies, NEW policy \in PolicyValues, NEW current \in Nat,
         NEW expected \in Nat \cup {Absent}, Commit(p, policy, current, expected)
  PROVE  /\ Len(audit) \in Nat /\ Len(audit') = Len(audit) + 1
         /\ \A i \in 1..Len(audit) : audit'[i] = audit[i]
         /\ audit'[Len(audit')] = [target |-> p, old |-> current, new |-> current + 1,
                                   expected |-> expected]
         /\ \A i \in 1..Len(audit) : audit[i] \in AuditRows
<1>1. [target |-> p, old |-> current, new |-> current + 1, expected |-> expected]
        \in AuditRows
  BY DEF AuditRows
<1> QED BY <1>1, AppendProperties, LenProperties, ElementOfSeq DEF Commit, TypeOK

-----------------------------------------------------------------------------
(* Each part of the invariant, step by step.                                *)

LEMMA InitConsistent == Init => Consistent
<1> SUFFICES ASSUME Init PROVE Consistent
  OBVIOUS
<1>1. TypeOK
  BY EmptySeq DEF Init, TypeOK, NoPolicies
<1>2. ImportProgress /\ CallsChecked /\ MemoryIsRows
  BY DEF Init, ImportProgress, CallsChecked, MemoryIsRows
<1>3. Len(audit) = 0
  BY EmptySeq DEF Init
<1>4. RevisionChain /\ AuditGrows
  BY <1>3 DEF Init, RevisionChain, AuditGrows
<1> QED BY <1>1, <1>2, <1>4 DEF Consistent

\* The types.
LEMMA StepTyped ==
  ASSUME TypeOK, MemoryIsRows, [Next]_vars
  PROVE  TypeOK'
<1> USE PoliciesAssumption
<1>1. CASE Start
  BY <1>1 DEF Start, TypeOK, ToImport
<1>2. CASE BootstrapRevision
  BY <1>2 DEF BootstrapRevision, TypeOK, ToImport
<1>3. CASE ModelsImported
  BY <1>3 DEF ModelsImported, TypeOK, ToImport
<1>4. CASE Load
  BY <1>4, LoadedIsTyped DEF Load, TypeOK
<1>5. CASE Crash
  BY <1>5 DEF Crash, TypeOK, NoPolicies
<1>6. ASSUME NEW r \in Routes, ImportModel(r) PROVE TypeOK'
  BY <1>6 DEF ImportModel, TypeOK, Policies
<1>7. ASSUME NEW u \in Users, ImportUser(u) PROVE TypeOK'
  <2>1. [Yaml[u] EXCEPT ![AllowField] = NoRows] \in PolicyValues
    BY DEF Policies, PolicyValues
  <2> QED BY <1>7, <2>1 DEF ImportUser, TypeOK, Policies
<1>8. ASSUME NEW u \in Users, ImportAllow(u) PROVE TypeOK'
  BY <1>8 DEF ImportAllow, TypeOK, Policies
<1>9. ASSUME NEW patch \in PatchChoices, NEW expected \in ExpectedRevisions,
             NEW r \in Routes, UpdateModel(r, patch, expected)
      PROVE  TypeOK'
  <2> DEFINE policy == Patched(memory[r], patch)
  <2>1. r \in Policies /\ policy \in PolicyValues
    BY <1>9, PatchedIsPolicy DEF UpdateModel, TypeOK, Policies
  <2>2. expected \in Nat \cup {Absent}
    BY BoundsAssumption DEF ExpectedRevisions
  <2>3. CASE Commit(r, policy, revision, expected)
    BY <1>9, <2>1, <2>2, <2>3, CommitIsTyped DEF UpdateModel, TypeOK
  <2>4. CASE policy = memory[r]
    BY <1>9, <2>1, <2>4 DEF UpdateModel, TypeOK
  <2> QED BY <1>9, <2>3, <2>4 DEF UpdateModel
<1>10. ASSUME NEW patch \in PatchChoices, NEW expected \in ExpectedRevisions,
              NEW u \in Users, UpdateUser(u, patch, expected)
       PROVE  TypeOK'
  <2> DEFINE policy == Patched(memory[u], patch)
  <2>1. u \in Policies /\ policy \in PolicyValues
    BY <1>10, PatchedIsPolicy DEF UpdateUser, TypeOK, Policies
  <2>2. expected \in Nat \cup {Absent}
    BY BoundsAssumption DEF ExpectedRevisions
  <2> QED BY <1>10, <2>1, <2>2, CommitIsTyped DEF UpdateUser, TypeOK
<1>11. ASSUME NEW patch \in PatchChoices, NEW expected \in ExpectedRevisions,
              NEW c \in Clients, BeginRouting(c, patch, expected)
       PROVE  TypeOK'
  <2>1. expected \in Nat \cup {Absent} /\ Routing \in Policies
    BY BoundsAssumption DEF ExpectedRevisions, Policies
  <2>2. memory[Routing] # Absent
    BY <1>11 DEF BeginRouting, MemoryIsRows, TypeOK, Policies
  <2> QED BY <1>11, <2>1, <2>2 DEF BeginRouting, TypeOK, RoutingCalls
<1>12. ASSUME NEW c \in Clients, EndRouting(c) PROVE TypeOK'
  <2>1. call[c] \in RoutingCalls
    BY <1>12 DEF EndRouting, TypeOK
  <2> DEFINE policy == Patched(call[c].snapshot, call[c].patch)
  <2>2. Routing \in Policies /\ policy \in PolicyValues
    BY <2>1, PatchedIsPolicy DEF RoutingCalls, Policies
  <2>3. CASE Commit(Routing, policy, call[c].current, call[c].expected)
             /\ memory' = [memory EXCEPT ![Routing] = policy]
    BY <1>12, <2>1, <2>2, <2>3, CommitIsTyped DEF EndRouting, TypeOK, RoutingCalls
  <2>4. CASE UNCHANGED <<stored, revision, audit, memory>>
    BY <1>12, <2>4 DEF EndRouting, TypeOK
  <2> QED BY <1>12, <2>3, <2>4 DEF EndRouting
<1>13. ASSUME NEW c \in Clients, FailRouting(c) PROVE TypeOK'
  BY <1>13 DEF FailRouting, TypeOK
<1>14. CASE UNCHANGED vars
  BY <1>14 DEF vars, TypeOK
<1> QED BY <1>1, <1>2, <1>3, <1>4, <1>5, <1>6, <1>7, <1>8, <1>9, <1>10, <1>11, <1>12,
           <1>13, <1>14 DEF Next
\* The import: what a phase relies on is there when the phase begins.
LEMMA StepImport ==
  ASSUME TypeOK, MemoryIsRows, ImportProgress, [Next]_vars
  PROVE  ImportProgress'
<1> USE PoliciesAssumption DEF ImportProgress
<1>1. CASE Start
  <2>1. phase' \in {"revision", "models"} /\ UNCHANGED <<stored, revision>>
    BY <1>1 DEF Start
  <2>2. CASE revision = 0
    BY <1>1, <2>2 DEF Start
  <2>3. CASE revision # 0
    BY <1>1, <2>3 DEF Start, ToImport, NoneStored
  <2> QED BY <2>2, <2>3
<1>2. CASE BootstrapRevision
  BY <1>2 DEF BootstrapRevision, ToImport, NoneStored
<1>3. CASE ModelsImported
  BY <1>3 DEF ModelsImported, ToImport, NoneStored
<1>4. CASE Load
  BY <1>4 DEF Load, NoneStored
<1>5. CASE Crash
  BY <1>5 DEF Crash
<1>6. ASSUME NEW r \in Routes, ImportModel(r) PROVE ImportProgress'
  <2>1. stored'[r] # Absent
    BY <1>6 DEF ImportModel, TypeOK, Policies
  <2>2. \A q \in Routes \ {r} : stored'[q] = stored[q]
    BY <1>6 DEF ImportModel, TypeOK, Policies
  <2> QED BY <1>6, <2>1, <2>2 DEF ImportModel, NoneStored
<1>7. ASSUME NEW u \in Users, ImportUser(u) PROVE ImportProgress'
  <2>1. [Yaml[u] EXCEPT ![AllowField] = NoRows] \in PolicyValues
    BY DEF Policies, PolicyValues
  <2>2. stored'[u] # Absent /\ \A p \in Policies \ {u} : stored'[p] = stored[p]
    BY <1>7, <2>1 DEF ImportUser, TypeOK, Policies
  <2>3. ~NoneStored(Routes)'
    BY <1>7, <2>2 DEF ImportUser, NoneStored, Policies
  <2> QED BY <1>7, <2>2, <2>3 DEF ImportUser, NoneStored, Policies
<1>8. ASSUME NEW u \in Users, ImportAllow(u) PROVE ImportProgress'
  <2>1. stored'[u] # Absent /\ \A p \in Policies \ {u} : stored'[p] = stored[p]
    BY <1>8 DEF ImportAllow, TypeOK, Policies
  <2>2. ~NoneStored(Routes)' /\ ~NoneStored(Users)'
    BY <1>8, <2>1 DEF ImportAllow, NoneStored, Policies
  <2> QED BY <1>8, <2>1, <2>2 DEF ImportAllow, Policies
<1>9. ASSUME phase = "up", phase' = "up", todo' = todo, revision' # 0,
             \A p \in Policies : stored[p] # Absent => stored'[p] # Absent
      PROVE  ImportProgress'
  BY <1>9 DEF NoneStored, Policies
<1>10. ASSUME NEW patch \in PatchChoices, NEW expected \in ExpectedRevisions,
              NEW r \in Routes, UpdateModel(r, patch, expected)
       PROVE  ImportProgress'
  <2>1. r \in Policies /\ Patched(memory[r], patch) \in PolicyValues
    BY <1>10, PatchedIsPolicy DEF UpdateModel, TypeOK, Policies
  <2>2. stored' = [stored EXCEPT ![r] = Patched(memory[r], patch)]
    BY <1>10 DEF UpdateModel, Commit
  <2>3. revision' = revision \/ revision' = revision + 1
    BY <1>10 DEF UpdateModel, Commit
  <2>4. revision' # 0
    BY <1>10, <2>3 DEF UpdateModel, TypeOK
  <2>5. \A p \in Policies : stored[p] # Absent => stored'[p] # Absent
    BY <2>1, <2>2 DEF TypeOK
  <2> QED BY <1>9, <1>10, <2>4, <2>5 DEF UpdateModel
<1>11. ASSUME NEW patch \in PatchChoices, NEW expected \in ExpectedRevisions,
              NEW u \in Users, UpdateUser(u, patch, expected)
       PROVE  ImportProgress'
  <2>1. u \in Policies /\ Patched(memory[u], patch) \in PolicyValues
    BY <1>11, PatchedIsPolicy DEF UpdateUser, TypeOK, Policies
  <2>2. \A p \in Policies : stored[p] # Absent => stored'[p] # Absent
    BY <1>11, <2>1 DEF UpdateUser, Commit, TypeOK
  <2>3. revision' # 0
    BY <1>11 DEF UpdateUser, Commit, TypeOK
  <2> QED BY <1>9, <1>11, <2>2, <2>3 DEF UpdateUser
<1>12. ASSUME NEW patch \in PatchChoices, NEW expected \in ExpectedRevisions,
              NEW c \in Clients, BeginRouting(c, patch, expected)
       PROVE  ImportProgress'
  BY <1>9, <1>12 DEF BeginRouting
<1>13. ASSUME NEW c \in Clients, EndRouting(c) PROVE ImportProgress'
  <2>1. call[c] \in RoutingCalls
    BY <1>13 DEF EndRouting, TypeOK
  <2> DEFINE policy == Patched(call[c].snapshot, call[c].patch)
  <2>2. Routing \in Policies /\ policy \in PolicyValues
    BY <2>1, PatchedIsPolicy DEF RoutingCalls, Policies
  <2>3. CASE Commit(Routing, policy, call[c].current, call[c].expected)
    <3>1. \A p \in Policies : stored[p] # Absent => stored'[p] # Absent
      BY <2>2, <2>3 DEF Commit, TypeOK
    <3>2. revision' # 0
      BY <2>1, <2>3 DEF Commit, RoutingCalls
    <3> QED BY <1>9, <1>13, <3>1, <3>2 DEF EndRouting
  <2>4. CASE UNCHANGED <<stored, revision, audit, memory>>
    BY <1>9, <1>13, <2>4 DEF EndRouting
  <2> QED BY <1>13, <2>3, <2>4 DEF EndRouting
<1>14. ASSUME NEW c \in Clients, FailRouting(c) PROVE ImportProgress'
  BY <1>9, <1>14 DEF FailRouting
<1>15. CASE UNCHANGED vars
  BY <1>15 DEF vars, NoneStored
<1> QED BY <1>1, <1>2, <1>3, <1>4, <1>5, <1>6, <1>7, <1>8, <1>10, <1>11, <1>12,
           <1>13, <1>14, <1>15 DEF Next

\* A pending routing update was accepted, and ends with the process.
LEMMA StepCalls ==
  ASSUME TypeOK, ImportProgress, CallsChecked, [Next]_vars
  PROVE  CallsChecked'
<1> USE DEF CallsChecked
<1>1. CASE Start
  BY <1>1 DEF Start
<1>2. CASE BootstrapRevision
  BY <1>2 DEF BootstrapRevision
<1>3. CASE ModelsImported
  BY <1>3 DEF ModelsImported
<1>4. CASE Load
  BY <1>4 DEF Load
<1>5. CASE Crash
  BY <1>5 DEF Crash
<1>6. ASSUME NEW r \in Routes, ImportModel(r) PROVE CallsChecked'
  BY <1>6 DEF ImportModel
<1>7. ASSUME NEW u \in Users, ImportUser(u) \/ ImportAllow(u) PROVE CallsChecked'
  BY <1>7 DEF ImportUser, ImportAllow
<1>8. ASSUME NEW patch \in PatchChoices, NEW expected \in ExpectedRevisions, NEW p,
             UpdateModel(p, patch, expected) \/ UpdateUser(p, patch, expected)
      PROVE  CallsChecked'
  BY <1>8 DEF UpdateModel, UpdateUser
<1>9. ASSUME NEW patch \in PatchChoices, NEW expected \in ExpectedRevisions,
             NEW c \in Clients, BeginRouting(c, patch, expected)
      PROVE  CallsChecked'
  BY <1>9 DEF BeginRouting, RevisionAccepted, TypeOK
<1>10. ASSUME NEW c \in Clients, EndRouting(c) \/ FailRouting(c) PROVE CallsChecked'
  BY <1>10 DEF EndRouting, FailRouting, TypeOK
<1>11. CASE UNCHANGED vars
  BY <1>11 DEF vars
<1> QED BY <1>1, <1>2, <1>3, <1>4, <1>5, <1>6, <1>7, <1>8, <1>9, <1>10, <1>11 DEF Next

\* Memory follows the rows: set from them at Load, and together with them after.
LEMMA StepMemory ==
  ASSUME TypeOK, ImportProgress, MemoryIsRows, [Next]_vars
  PROVE  MemoryIsRows'
<1> USE PoliciesAssumption DEF MemoryIsRows
<1>1. CASE Start \/ BootstrapRevision \/ ModelsImported \/ Crash
  <2>1. phase' # "up"
    BY <1>1 DEF Start, BootstrapRevision, ModelsImported, Crash
  <2> QED BY <2>1
<1>2. CASE Load
  <2>1. ~NoneStored(Routes) /\ ~NoneStored(Users)
    BY <1>2 DEF Load, ImportProgress
  <2> QED BY <1>2, <2>1, LoadedIsRows DEF Load
<1>3. ASSUME NEW r \in Routes, ImportModel(r) PROVE MemoryIsRows'
  BY <1>3 DEF ImportModel
<1>4. ASSUME NEW u \in Users, ImportUser(u) \/ ImportAllow(u) PROVE MemoryIsRows'
  BY <1>4 DEF ImportUser, ImportAllow
<1>5. ASSUME NEW p \in Policies, NEW policy \in PolicyValues, phase = "up",
             stored' = [stored EXCEPT ![p] = policy],
             memory' = [memory EXCEPT ![p] = policy]
      PROVE  MemoryIsRows'
  BY <1>5 DEF TypeOK
<1>6. ASSUME NEW patch \in PatchChoices, NEW expected \in ExpectedRevisions,
             NEW p \in Routes \cup Users,
             UpdateModel(p, patch, expected) \/ UpdateUser(p, patch, expected)
      PROVE  MemoryIsRows'
  <2>1. p \in Policies /\ Patched(memory[p], patch) \in PolicyValues
    BY <1>6, PatchedIsPolicy DEF UpdateModel, UpdateUser, TypeOK, Policies
  <2>2. phase = "up"
    BY <1>6 DEF UpdateModel, UpdateUser
  <2>3. /\ stored' = [stored EXCEPT ![p] = Patched(memory[p], patch)]
        /\ memory' = [memory EXCEPT ![p] = Patched(memory[p], patch)]
    BY <1>6 DEF UpdateModel, UpdateUser, Commit
  <2> QED BY <1>5, <2>1, <2>2, <2>3
<1>7. ASSUME NEW patch \in PatchChoices, NEW expected \in ExpectedRevisions,
             NEW c \in Clients, BeginRouting(c, patch, expected)
      PROVE  MemoryIsRows'
  BY <1>7 DEF BeginRouting
<1>8. ASSUME NEW c \in Clients, EndRouting(c) PROVE MemoryIsRows'
  <2>1. call[c] \in RoutingCalls
    BY <1>8 DEF EndRouting, TypeOK
  <2> DEFINE policy == Patched(call[c].snapshot, call[c].patch)
  <2>2. Routing \in Policies /\ policy \in PolicyValues
    BY <2>1, PatchedIsPolicy DEF RoutingCalls, Policies
  <2>3. CASE /\ Commit(Routing, policy, call[c].current, call[c].expected)
             /\ memory' = [memory EXCEPT ![Routing] = policy]
    <3>1. stored' = [stored EXCEPT ![Routing] = policy]
      BY <2>3 DEF Commit
    <3> QED BY <1>5, <1>8, <2>2, <2>3, <3>1 DEF EndRouting
  <2>4. CASE UNCHANGED <<stored, revision, audit, memory>>
    BY <1>8, <2>4 DEF EndRouting
  <2> QED BY <1>8, <2>3, <2>4 DEF EndRouting
<1>9. ASSUME NEW c \in Clients, FailRouting(c) PROVE MemoryIsRows'
  BY <1>9 DEF FailRouting
<1>10. CASE UNCHANGED vars
  BY <1>10 DEF vars
<1> QED BY <1>1, <1>2, <1>3, <1>4, <1>6, <1>7, <1>8, <1>9, <1>10 DEF Next

\* An update that commits p at the revision it checked; only a routing update may
\* have checked an older one than the current.
Updates(p, policy, current, expected) ==
  /\ Commit(p, policy, current, expected)
  /\ expected \in {current, Absent}
  /\ p # Routing => current = revision

\* Nothing but a bootstrap and an update moves the revision or the audit log.
LEMMA WhoMovesTheRevision ==
  ASSUME TypeOK, ImportProgress, CallsChecked, MemoryIsRows, [Next]_vars
  PROVE  \/ UNCHANGED <<revision, audit>>
         \/ revision = 0 /\ revision' = 1 /\ UNCHANGED audit
         \/ /\ revision # 0
            /\ \E p \in Policies, policy \in PolicyValues, current \in Nat,
                  expected \in Nat \cup {Absent} : Updates(p, policy, current, expected)
<1> DEFINE Goal == \/ UNCHANGED <<revision, audit>>
                   \/ revision = 0 /\ revision' = 1 /\ UNCHANGED audit
                   \/ /\ revision # 0
                      /\ \E p \in Policies, policy \in PolicyValues, current \in Nat,
                            expected \in Nat \cup {Absent} :
                           Updates(p, policy, current, expected)
<1>1. CASE Start \/ ModelsImported \/ Load \/ Crash \/ UNCHANGED vars
  BY <1>1 DEF Start, ModelsImported, Load, Crash, vars
<1>2. CASE BootstrapRevision
  BY <1>2 DEF BootstrapRevision, ImportProgress
<1>3. ASSUME NEW p, ImportModel(p) \/ ImportUser(p) \/ ImportAllow(p)
      PROVE  UNCHANGED <<revision, audit>>
  BY <1>3 DEF ImportModel, ImportUser, ImportAllow
<1>4. ASSUME NEW patch \in PatchChoices, NEW expected \in ExpectedRevisions,
             NEW p \in Routes \cup Users,
             UpdateModel(p, patch, expected) \/ UpdateUser(p, patch, expected)
      PROVE  Goal
  <2>1. p \in Policies /\ Patched(memory[p], patch) \in PolicyValues
    BY <1>4, PatchedIsPolicy, PoliciesAssumption
       DEF UpdateModel, UpdateUser, TypeOK, Policies
  <2>2. expected \in Nat \cup {Absent} /\ revision \in Nat /\ revision # 0
    BY <1>4, BoundsAssumption
       DEF ExpectedRevisions, TypeOK, ImportProgress, UpdateModel, UpdateUser
  <2>3. CASE Commit(p, Patched(memory[p], patch), revision, expected)
    <3>1. Updates(p, Patched(memory[p], patch), revision, expected)
      BY <1>4, <2>3 DEF Updates, UpdateModel, UpdateUser, RevisionAccepted
    <3> QED BY <2>1, <2>2, <3>1
  <2>4. CASE UNCHANGED <<revision, audit>>
    BY <2>4
  <2> QED BY <1>4, <2>3, <2>4 DEF UpdateModel, UpdateUser
<1>5. ASSUME NEW c \in Clients, NEW patch, NEW expected,
             BeginRouting(c, patch, expected)
      PROVE  Goal
  BY <1>5 DEF BeginRouting
<1>6. ASSUME NEW c \in Clients, EndRouting(c) PROVE Goal
  <2>1. call[c] \in RoutingCalls
    BY <1>6 DEF EndRouting, TypeOK
  <2> DEFINE policy == Patched(call[c].snapshot, call[c].patch)
  <2>2. Routing \in Policies /\ policy \in PolicyValues
    BY <2>1, PatchedIsPolicy DEF RoutingCalls, Policies
  <2>3. /\ call[c].current \in Nat /\ call[c].expected \in Nat \cup {Absent}
        /\ revision # 0
    BY <1>6, <2>1 DEF RoutingCalls, EndRouting, ImportProgress
  <2>4. CASE Commit(Routing, policy, call[c].current, call[c].expected)
    <3>1. Updates(Routing, policy, call[c].current, call[c].expected)
      BY <1>6, <2>4 DEF Updates, CallsChecked, EndRouting
    <3> QED BY <2>2, <2>3, <3>1
  <2>5. CASE UNCHANGED <<revision, audit>>
    BY <2>5
  <2> QED BY <1>6, <2>4, <2>5 DEF EndRouting
<1>7. ASSUME NEW c \in Clients, FailRouting(c) PROVE Goal
  BY <1>7 DEF FailRouting
<1> QED BY <1>1, <1>2, <1>3, <1>4, <1>5, <1>6, <1>7 DEF Next

\* The audit log continues the revisions of the one before it.
LEMMA StepAudit ==
  ASSUME Consistent, [Next]_vars
  PROVE  RevisionChain' /\ AuditGrows'
<1> USE DEF Consistent
<1>1. CASE UNCHANGED <<revision, audit>>
  BY <1>1 DEF RevisionChain, AuditGrows, RevisionBefore
<1>2. CASE revision = 0 /\ revision' = 1 /\ UNCHANGED audit
  <2>1. audit = <<>> /\ Len(audit) = 0
    BY <1>2, EmptySeq DEF AuditGrows
  <2> QED BY <1>2, <2>1 DEF RevisionChain, AuditGrows, RevisionBefore
<1>3. ASSUME NEW p \in Policies, NEW policy \in PolicyValues, NEW current \in Nat,
             NEW expected \in Nat \cup {Absent}, revision # 0,
             Updates(p, policy, current, expected)
      PROVE  RevisionChain' /\ AuditGrows'
  <2> DEFINE n == Len(audit)
             row == [target |-> p, old |-> current, new |-> current + 1,
                     expected |-> expected]
  <2>1. /\ n \in Nat /\ Len(audit') = n + 1
        /\ \A i \in 1..n : audit'[i] = audit[i]
        /\ audit'[n + 1] = row
        /\ \A i \in 1..n : audit[i] \in AuditRows
    BY <1>3, CommitAppends DEF Updates
  <2>2. revision' = current + 1 /\ revision = RevisionBefore(n + 1)
    BY <1>3 DEF Updates, Commit, RevisionChain
  <2>3. p # Routing => current = revision
    BY <1>3 DEF Updates
  <2> HIDE DEF n, row
  <2>4. RevisionChain'
    <3>1. \A i \in 1..n + 1 : RevisionBefore(i)' = RevisionBefore(i)
      BY <2>1 DEF RevisionBefore
    <3>2. RevisionBefore(Len(audit) + 1)' = current + 1
      BY <2>1 DEF RevisionBefore, row
    <3>3. ASSUME NEW i \in 1..n + 1, audit'[i].target # Routing
          PROVE  audit'[i].old = RevisionBefore(i)'
      <4>1. CASE i = n + 1
        BY <2>1, <2>2, <2>3, <3>1, <3>3, <4>1 DEF row
      <4>2. CASE i \in 1..n
        BY <2>1, <3>1, <3>3, <4>2 DEF RevisionChain, n
      <4> QED BY <2>1, <4>1, <4>2
    <3> QED BY <2>1, <2>2, <3>2, <3>3 DEF RevisionChain
  <2>5. AuditGrows'
    <3>1. revision' # 0
      BY <2>2
    <3>2. ASSUME NEW i \in 1..n + 1
          PROVE  /\ audit'[i].new = audit'[i].old + 1
                 /\ audit'[i].expected \in {audit'[i].old, Absent}
      <4>1. CASE i = n + 1
        BY <1>3, <2>1, <4>1 DEF row, Updates
      <4>2. CASE i \in 1..n
        BY <2>1, <4>2 DEF AuditGrows, n
      <4> QED BY <2>1, <4>1, <4>2
    <3>3. ASSUME NEW i \in 1..n + 1, NEW j \in 1..n + 1, i < j,
                 \A k \in i + 1..j : audit'[k].target # Routing
          PROVE  audit'[i].old < audit'[j].old
      <4>1. CASE j \in 1..n
        <5>1. \A k \in i + 1..j : audit[k].target # Routing
          BY <2>1, <3>3, <4>1
        <5> QED BY <2>1, <3>3, <4>1, <5>1 DEF AuditGrows, n
      <4>2. CASE j = n + 1
        <5>1. p # Routing /\ n \in 1..n /\ i \in 1..n
          BY <2>1, <3>3, <4>2 DEF row
        <5>2. audit[n].old \in Nat /\ audit[i].old \in Nat
          BY <2>1, <5>1 DEF AuditRows
        <5>3. current = audit[n].old + 1
          BY <2>1, <2>2, <2>3, <5>1, <5>2 DEF RevisionBefore, AuditGrows, n
        <5>4. audit[i].old <= audit[n].old
          <6>1. CASE i = n
            BY <5>2, <6>1
          <6>2. CASE i # n
            <7>1. \A k \in i + 1..n : audit[k].target # Routing
              BY <2>1, <3>3, <4>2, <5>1
            <7>2. i < n
              BY <2>1, <5>1, <6>2
            <7>3. audit[i].old < audit[n].old
              BY <5>1, <7>1, <7>2 DEF AuditGrows, n
            <7> QED BY <5>2, <7>3
          <6> QED BY <6>1, <6>2
        <5> QED BY <2>1, <4>2, <5>1, <5>2, <5>3, <5>4 DEF row
      <4> QED BY <2>1, <4>1, <4>2
    <3> QED BY <2>1, <3>1, <3>2, <3>3 DEF AuditGrows
  <2> QED BY <2>4, <2>5
<1> QED BY <1>1, <1>2, <1>3, WhoMovesTheRevision

LEMMA StepConsistent == Consistent /\ [Next]_vars => Consistent'
BY StepTyped, StepImport, StepCalls, StepMemory, StepAudit DEF Consistent

-----------------------------------------------------------------------------
(* The theorems.                                                            *)

\* The invariant holds in every reachable state.
THEOREM AlwaysConsistent == Spec => []Consistent
BY InitConsistent, StepConsistent, PTL DEF Spec

\* Every variable keeps its type, for every value of the constants.
THEOREM TypeCorrect == Spec => []TypeOK
<1>1. Consistent => TypeOK
  BY DEF Consistent
<1> QED BY <1>1, AlwaysConsistent, PTL

\* A process that is up decides from what its next start would load.
THEOREM MemoryStaysCurrent == Spec => []MemoryIsStore
<1>1. Consistent => MemoryIsStore
  <2> SUFFICES ASSUME Consistent, phase = "up" PROVE memory = LoadedPolicies
    BY DEF MemoryIsStore
  <2>1. \A p \in Policies : memory[p] = LoadedPolicies[p]
    BY LoadedIsRows DEF Consistent, MemoryIsRows, ImportProgress
  <2>2. memory \in [Policies -> PolicyValues \cup {Absent}]
    BY DEF Consistent, TypeOK
  <2> QED BY <2>1, <2>2 DEF LoadedPolicies
<1> QED BY <1>1, AlwaysConsistent, PTL

\* The audit log explains the revision, across any number of restarts.
THEOREM AuditExplainsRevision == Spec => []RevisionChain
<1>1. Consistent => RevisionChain
  BY DEF Consistent
<1> QED BY <1>1, AlwaysConsistent, PTL

\* Model and user updates compare and set: of two that expect one revision the
\* second is refused, unless a routing update brought the revision back between.
THEOREM StaleUpdatesAreRefused == Spec => []StaleUpdatesRefused
<1>1. Consistent => StaleUpdatesRefused
  <2> SUFFICES ASSUME Consistent,
                      NEW i \in 1..Len(audit), NEW j \in 1..Len(audit), i < j,
                      audit[i].expected = audit[j].expected,
                      audit[i].expected # Absent,
                      \A k \in i + 1..j : audit[k].target # Routing
               PROVE  FALSE
    BY DEF StaleUpdatesRefused
  <2>1. audit[i].old < audit[j].old
    BY DEF Consistent, AuditGrows
  <2>2. audit[i].expected = audit[i].old /\ audit[j].expected = audit[j].old
    BY DEF Consistent, AuditGrows
  <2>3. audit[i].old \in Nat /\ audit[j].old \in Nat
    <3>1. audit \in Seq(AuditRows)
      BY DEF Consistent, TypeOK
    <3>2. audit[i] \in AuditRows /\ audit[j] \in AuditRows
      BY <3>1, ElementOfSeq
    <3> QED BY <3>2 DEF AuditRows
  <2>4. audit[i].old = audit[j].old
    BY <2>2
  <2>5. \A a, b \in Nat : a < b => a # b
    OBVIOUS
  <2> QED BY <2>1, <2>3, <2>4, <2>5
<1> QED BY <1>1, AlwaysConsistent, PTL

\* No restart, no import and no update that is refused rewrites a stored policy.
THEOREM NothingUnaudited == Spec => ChangesAreAudited
<1> DEFINE Audited ==
      \A p \in Policies :
        (stored[p] # Absent /\ stored'[p] # stored[p])
          => \/ phase = "allow" /\ p \in todo
             \/ /\ Len(audit') = Len(audit) + 1
                /\ audit'[Len(audit')].target = p
<1>1. Consistent /\ [Next]_vars => [Audited]_vars
  <2> SUFFICES ASSUME Consistent, Next,
                      NEW p \in Policies, stored[p] # Absent, stored'[p] # stored[p]
               PROVE  \/ phase = "allow" /\ p \in todo
                      \/ /\ Len(audit') = Len(audit) + 1
                         /\ audit'[Len(audit')].target = p
    OBVIOUS
  <2> USE PoliciesAssumption DEF Consistent
  <2>1. CASE Start \/ BootstrapRevision \/ ModelsImported \/ Load \/ Crash
    BY <2>1 DEF Start, BootstrapRevision, ModelsImported, Load, Crash
  <2>2. ASSUME NEW r \in Routes, ImportModel(r) PROVE FALSE
    BY <2>2 DEF ImportModel, ImportProgress, TypeOK
  <2>3. ASSUME NEW u \in Users, ImportUser(u) PROVE FALSE
    BY <2>3 DEF ImportUser, ImportProgress, TypeOK
  <2>4. ASSUME NEW u \in Users, ImportAllow(u) PROVE phase = "allow" /\ p \in todo
    BY <2>4 DEF ImportAllow, TypeOK
  <2>5. ASSUME NEW q \in Policies, NEW policy \in PolicyValues, NEW current \in Nat,
               NEW expected \in Nat \cup {Absent}, Commit(q, policy, current, expected)
        PROVE  Len(audit') = Len(audit) + 1 /\ audit'[Len(audit')].target = p
    <3>1. q = p
      BY <2>5 DEF Commit, TypeOK
    <3>2. /\ Len(audit') = Len(audit) + 1
          /\ audit'[Len(audit')] = [target |-> q, old |-> current, new |-> current + 1,
                                    expected |-> expected]
      BY <2>5, CommitAppends
    <3> QED BY <3>1, <3>2
  <2>6. ASSUME NEW patch \in PatchChoices, NEW expected \in ExpectedRevisions,
               NEW q \in Routes \cup Users,
               UpdateModel(q, patch, expected) \/ UpdateUser(q, patch, expected)
        PROVE  Len(audit') = Len(audit) + 1 /\ audit'[Len(audit')].target = p
    <3>1. q \in Policies /\ Patched(memory[q], patch) \in PolicyValues
      BY <2>6, PatchedIsPolicy DEF UpdateModel, UpdateUser, TypeOK, Policies
    <3>2. expected \in Nat \cup {Absent} /\ revision \in Nat
      BY BoundsAssumption DEF ExpectedRevisions, TypeOK
    <3>3. CASE Commit(q, Patched(memory[q], patch), revision, expected)
      BY <2>5, <3>1, <3>2, <3>3
    <3>4. CASE stored' = [stored EXCEPT ![q] = memory[q]]
      <4>1. memory[q] = stored[q]
        BY <2>6, <3>1 DEF MemoryIsRows, UpdateModel, UpdateUser
      <4> QED BY <3>1, <3>4, <4>1 DEF TypeOK
    <3> QED BY <2>6, <3>3, <3>4 DEF UpdateModel, UpdateUser
  <2>7. ASSUME NEW c \in Clients, NEW patch, NEW expected,
               BeginRouting(c, patch, expected)
        PROVE  FALSE
    BY <2>7 DEF BeginRouting
  <2>8. ASSUME NEW c \in Clients, FailRouting(c) PROVE FALSE
    BY <2>8 DEF FailRouting
  <2>9. ASSUME NEW c \in Clients, EndRouting(c)
        PROVE  Len(audit') = Len(audit) + 1 /\ audit'[Len(audit')].target = p
    <3>1. call[c] \in RoutingCalls
      BY <2>9 DEF EndRouting, TypeOK
    <3> DEFINE policy == Patched(call[c].snapshot, call[c].patch)
    <3>2. Routing \in Policies /\ policy \in PolicyValues
      BY <3>1, PatchedIsPolicy DEF RoutingCalls, Policies
    <3>3. call[c].current \in Nat /\ call[c].expected \in Nat \cup {Absent}
      BY <3>1 DEF RoutingCalls
    <3>4. Commit(Routing, policy, call[c].current, call[c].expected)
      BY <2>9 DEF EndRouting
    <3> QED BY <2>5, <3>2, <3>3, <3>4
  <2> QED BY <2>1, <2>2, <2>3, <2>4, <2>6, <2>7, <2>8, <2>9 DEF Next
<1>2. Spec => [][Audited]_vars
  BY <1>1, AlwaysConsistent, PTL DEF Spec
<1> QED BY <1>2 DEF ChangesAreAudited

-----------------------------------------------------------------------------
(* ConfigStore implements AtomicConfig.                                     *)

Rows == [p \in Policies |-> IF p = Routing /\ stored[p] = Absent THEN Yaml[p] ELSE stored[p]]

\* What a start loads is typed, and once both tables have rows it is the rows.
LEMMA LoadedNow ==
  /\ TypeOK => LoadedPolicies \in [Policies -> PolicyValues \cup {Absent}]
  /\ TypeOK /\ Imported => LoadedPolicies = Rows
<1>1. TypeOK => LoadedPolicies \in [Policies -> PolicyValues \cup {Absent}]
  BY LoadedIsTyped
<1>2. ASSUME TypeOK, Imported PROVE LoadedPolicies = Rows
  <2>1. \A p \in Policies : LoadedPolicies[p] = Rows[p]
    BY <1>2, LoadedIsRows DEF Imported, Rows
  <2> QED BY <2>1 DEF LoadedPolicies, Rows
<1> QED BY <1>1, <1>2

\* The same after a step.
LEMMA LoadedNext ==
  /\ TypeOK' => LoadedPolicies' \in [Policies -> PolicyValues \cup {Absent}]
  /\ TypeOK' /\ Imported' => LoadedPolicies' = Rows'
<1> DEFINE Now == /\ TypeOK => LoadedPolicies \in [Policies -> PolicyValues \cup {Absent}]
                  /\ TypeOK /\ Imported => LoadedPolicies = Rows
<1>1. Now
  BY LoadedNow
<1> HIDE DEF Now
<1>2. Now'
  BY <1>1, PTL
<1> QED BY <1>2 DEF Now

\* An accepted update that is not stale is an update of the abstract configuration.
LEMMA UpdateIsAtomic ==
  ASSUME Consistent, TypeOK', phase = "up", phase' = "up", todo' = todo,
         NEW p \in Policies, NEW policy \in PolicyValues, policy # memory[p],
         NEW expected \in {revision, Absent}, Commit(p, policy, revision, expected)
  PROVE  Atomic!Update(p, expected)
<1> USE PoliciesAssumption
<1>1. TypeOK /\ Imported
  BY DEF Consistent, ImportProgress, Imported
<1>2. \A q \in Policies : stored'[q] = IF q = p THEN policy ELSE stored[q]
  BY <1>1 DEF Commit, TypeOK
<1>3. Imported'
  <2>1. \A q \in Policies : stored[q] # Absent => stored'[q] # Absent
    BY <1>2
  <2> QED BY <1>1, <2>1 DEF Imported, NoneStored, Policies
<1>4. LoadedPolicies = Rows /\ LoadedPolicies' = Rows'
  BY <1>1, <1>3, LoadedNow, LoadedNext
<1>5. LoadedPolicies' \in [Policies -> PolicyValues \cup {Absent}]
  BY LoadedNext
<1>6. LoadedPolicies'[p] = policy /\ LoadedPolicies[p] = memory[p]
  BY <1>2, <1>4 DEF Rows, Consistent, MemoryIsRows
<1>7. \A q \in Policies \ {p} : LoadedPolicies'[q] = LoadedPolicies[q]
  BY <1>2, <1>4 DEF Rows
<1>8. /\ revision' = revision + 1
      /\ audit' = Append(audit, [target |-> p, old |-> revision, new |-> revision + 1,
                                 expected |-> expected])
  BY DEF Commit
<1> HIDE PoliciesAssumption
<1> QED BY <1>1, <1>3, <1>5, <1>6, <1>7, <1>8 DEF Atomic!Update

\* What the abstract configuration sees.
Seen == <<LoadedPolicies, Imported, revision, audit, phase = "up">>

\* A step that writes no row and opens or ends no import loop is not seen in the
\* configuration.
LEMMA RowsUnchanged ==
  ASSUME UNCHANGED stored
  PROVE  /\ LoadedPolicies' = LoadedPolicies
         /\ (todo' = {} <=> todo = {}) \/ NoneStored(Routes) \/ NoneStored(Users)
              => Imported' = Imported
BY DEF LoadedPolicies, Loaded, NoneStored, Imported

\* Every step is a step of the abstract configuration, is not seen, or is the commit
\* of a stale routing update.
LEMMA StepIsAtomic ==
  ASSUME Consistent, TypeOK', [Next]_vars
  PROVE  Atomic!Next \/ StaleCommit \/ UNCHANGED Seen
<1> USE PoliciesAssumption DEF Consistent
<1> DEFINE Goal == Atomic!Next \/ StaleCommit \/ UNCHANGED Seen
<1>typed. LoadedPolicies' \in [Policies -> PolicyValues \cup {Absent}]
  BY LoadedNext
<1>settle. ASSUME phase # "up", phase' # "up", ~Imported, UNCHANGED <<revision, audit>>
           PROVE  Goal
  <2>1. Imported' \in BOOLEAN
    BY DEF Imported
  <2>2. Atomic!Settle
    BY <1>settle, <1>typed, <2>1 DEF Atomic!Settle
  <2> QED BY <2>2 DEF Atomic!Next
<1>1. CASE Start
  <2>1. UNCHANGED <<stored, revision, audit>> /\ phase # "up" /\ phase' # "up"
    BY <1>1 DEF Start
  <2>2. (todo' = {} <=> todo = {}) \/ NoneStored(Routes)
    BY <1>1 DEF Start, ToImport, ImportProgress
  <2> QED BY <2>1, <2>2, RowsUnchanged DEF Seen
<1>2. CASE BootstrapRevision
  <2>1. /\ UNCHANGED <<stored, audit>> /\ phase # "up" /\ phase' # "up"
        /\ revision = 0 /\ revision' = 1
    BY <1>2 DEF BootstrapRevision, ImportProgress
  <2>2. (todo' = {} <=> todo = {}) \/ NoneStored(Routes)
    BY <1>2 DEF BootstrapRevision, ToImport, ImportProgress
  <2>3. Atomic!Bootstrap
    BY <2>1, <2>2, RowsUnchanged DEF Atomic!Bootstrap
  <2> QED BY <2>3 DEF Atomic!Next
<1>3. CASE ModelsImported
  <2>1. UNCHANGED <<stored, revision, audit>> /\ phase # "up" /\ phase' # "up"
    BY <1>3 DEF ModelsImported
  <2>2. (todo' = {} <=> todo = {}) \/ NoneStored(Users)
    BY <1>3 DEF ModelsImported, ToImport
  <2> QED BY <2>1, <2>2, RowsUnchanged DEF Seen
<1>4. CASE Load
  <2>1. /\ UNCHANGED <<stored, todo, revision, audit>> /\ phase # "up" /\ phase' = "up"
        /\ revision # 0
    BY <1>4 DEF Load, ImportProgress
  <2>2. Imported
    BY <1>4 DEF Load, ImportProgress, Imported
  <2>3. Atomic!Serve
    BY <2>1, <2>2, RowsUnchanged DEF Atomic!Serve
  <2> QED BY <2>3 DEF Atomic!Next
<1>5. CASE Crash
  <2>1. UNCHANGED <<stored, revision, audit>> /\ phase' = "down" /\ todo' = {}
    BY <1>5 DEF Crash
  <2>2. CASE todo = {}
    <3>1. LoadedPolicies' = LoadedPolicies /\ Imported' = Imported
      BY <2>1, <2>2, RowsUnchanged
    <3>2. CASE phase = "up"
      <4>1. Atomic!Stop
        BY <2>1, <3>1, <3>2 DEF Atomic!Stop
      <4> QED BY <4>1 DEF Atomic!Next
    <3>3. CASE phase # "up"
      BY <2>1, <3>1, <3>3 DEF Seen
    <3> QED BY <3>2, <3>3
  <2>3. CASE todo # {}
    <3>1. ~Imported /\ phase # "up"
      BY <2>3 DEF Imported, ImportProgress
    <3> QED BY <1>settle, <2>1, <3>1
  <2> QED BY <2>2, <2>3
<1>6. ASSUME NEW r \in Routes \cup Users, ImportModel(r) \/ ImportUser(r) \/ ImportAllow(r)
      PROVE  Goal
  <2>1. /\ UNCHANGED <<revision, audit>> /\ phase # "up" /\ phase' # "up" /\ todo # {}
    BY <1>6 DEF ImportModel, ImportUser, ImportAllow
  <2> QED BY <1>settle, <2>1 DEF Imported
<1>7. ASSUME NEW patch \in PatchChoices, NEW expected \in ExpectedRevisions,
             NEW p \in Routes \cup Users,
             UpdateModel(p, patch, expected) \/ UpdateUser(p, patch, expected)
      PROVE  Goal
  <2>1. p \in Policies /\ Patched(memory[p], patch) \in PolicyValues
    BY <1>7, PatchedIsPolicy DEF UpdateModel, UpdateUser, TypeOK, Policies
  <2>2. phase = "up" /\ phase' = "up" /\ todo' = todo /\ expected \in {revision, Absent}
    BY <1>7 DEF UpdateModel, UpdateUser, RevisionAccepted
  <2>3. CASE /\ Patched(memory[p], patch) # memory[p]
             /\ Commit(p, Patched(memory[p], patch), revision, expected)
    <3>1. Atomic!Update(p, expected)
      BY <2>1, <2>2, <2>3, UpdateIsAtomic
    <3> QED BY <2>1, <2>2, <3>1 DEF Atomic!Next
  <2>4. CASE stored' = [stored EXCEPT ![p] = memory[p]] /\ UNCHANGED <<revision, audit>>
    <3>1. memory[p] = stored[p]
      BY <1>7, <2>1, <2>2 DEF MemoryIsRows, UpdateModel, UpdateUser
    <3>2. stored' = stored
      BY <2>1, <2>4, <3>1 DEF TypeOK
    <3> QED BY <2>2, <2>4, <3>2, RowsUnchanged DEF Seen
  <2> QED BY <1>7, <2>3, <2>4 DEF UpdateModel, UpdateUser
<1>8. ASSUME NEW c \in Clients, NEW patch, NEW expected,
             BeginRouting(c, patch, expected) \/ FailRouting(c)
      PROVE  Goal
  <2>1. UNCHANGED <<stored, todo, revision, audit, phase>>
    BY <1>8 DEF BeginRouting, FailRouting
  <2> QED BY <2>1, RowsUnchanged DEF Seen
<1>9. ASSUME NEW c \in Clients, EndRouting(c) PROVE Goal
  <2>1. call[c] \in RoutingCalls
    BY <1>9 DEF EndRouting, TypeOK
  <2> DEFINE policy == Patched(call[c].snapshot, call[c].patch)
             expected == call[c].expected
  <2>2. Routing \in Policies /\ policy \in PolicyValues
    BY <2>1, PatchedIsPolicy DEF RoutingCalls, Policies
  <2>3. phase = "up" /\ phase' = "up" /\ todo' = todo /\ call[c] # Absent /\ call'[c] = Absent
    BY <1>9 DEF EndRouting, TypeOK
  <2>4. CASE UNCHANGED <<stored, revision, audit, memory>>
    BY <2>3, <2>4, RowsUnchanged DEF Seen
  <2>5. CASE /\ policy # call[c].snapshot
             /\ Commit(Routing, policy, call[c].current, expected)
    <3>1. CASE call[c].current = revision /\ call[c].snapshot = memory[Routing]
      <4>1. expected \in {revision, Absent}
        BY <2>3, <3>1 DEF CallsChecked
      <4>2. policy # memory[Routing] /\ Commit(Routing, policy, revision, expected)
        BY <2>5, <3>1
      <4> HIDE DEF policy, expected
      <4>3. Atomic!Update(Routing, expected)
        BY <2>2, <2>3, <4>1, <4>2, UpdateIsAtomic
      <4> QED BY <2>2, <4>1, <4>3 DEF Atomic!Next
    <3>2. CASE call[c].current # revision \/ call[c].snapshot # memory[Routing]
      <4>1. call[c].current \in Nat /\ expected \in Nat \cup {Absent}
        BY <2>1 DEF RoutingCalls
      <4>2. Len(audit') = Len(audit) + 1 /\ Len(audit) \in Nat
        BY <2>2, <2>5, <4>1, CommitAppends
      <4>3. audit' # audit
        BY <4>2
      <4> QED BY <2>3, <3>2, <4>3 DEF StaleCommit
    <3> QED BY <3>1, <3>2
  <2> QED BY <1>9, <2>4, <2>5 DEF EndRouting
<1>10. CASE UNCHANGED vars
  <2>1. UNCHANGED <<stored, todo, revision, audit, phase>>
    BY <1>10 DEF vars
  <2> QED BY <2>1, RowsUnchanged DEF Seen
<1> QED BY <1>1, <1>2, <1>3, <1>4, <1>5, <1>6, <1>7, <1>8, <1>9, <1>10 DEF Next

LEMMA InitIsAtomic == Init => Atomic!Init
<1> SUFFICES ASSUME Init PROVE Atomic!Init
  OBVIOUS
<1>1. LoadedPolicies \in [Policies -> PolicyValues \cup {Absent}]
  BY InitConsistent, LoadedNow DEF Consistent
<1>2. ~Imported
  BY PoliciesAssumption DEF Init, Imported, NoneStored, NoPolicies, Policies
<1>3. revision = 0 /\ audit = <<>> /\ phase # "up"
  BY DEF Init
<1> QED BY <1>1, <1>2, <1>3 DEF Atomic!Init

\* The code's updates are compare-and-set of one versioned configuration, all but the
\* commit of a routing update that went stale in its await: in any interleaving with
\* imports, restarts and failures, for every set of clients, routes and users.
THEOREM AtomicOrStale == Spec => UpdatesAreAtomic
<1>1. Consistent /\ TypeOK' /\ [Next]_vars => [Atomic!Next \/ StaleCommit]_Seen
  BY StepIsAtomic
<1>2. Consistent => TypeOK
  BY DEF Consistent
<1>3. Spec => Atomic!Init /\ [][Atomic!Next \/ StaleCommit]_Seen
  BY <1>1, <1>2, InitIsAtomic, AlwaysConsistent, PTL DEF Spec
<1> QED BY <1>3 DEF UpdatesAreAtomic, Seen

\* No routing update is committed after another update did since its check.
NeverStale == [][~StaleCommit]_vars

\* Without stale routing updates the configuration implements the abstract one.
THEOREM AtomicUnlessStale == Spec /\ NeverStale => Atomic!Spec
<1>1. ASSUME Consistent, TypeOK', [Next]_vars, [~StaleCommit]_vars
      PROVE  [Atomic!Next]_Seen
  <2>1. CASE UNCHANGED vars
    <3>1. UNCHANGED <<stored, todo, revision, audit, phase>>
      BY <2>1 DEF vars
    <3> QED BY <3>1, RowsUnchanged DEF Seen
  <2>2. CASE ~StaleCommit
    BY <1>1, <2>2, StepIsAtomic
  <2> QED BY <1>1, <2>1, <2>2
<1>2. Consistent => TypeOK
  BY DEF Consistent
<1>3. Spec /\ NeverStale => Atomic!Init /\ [][Atomic!Next]_Seen
  BY <1>1, <1>2, InitIsAtomic, AlwaysConsistent, PTL DEF Spec, NeverStale
<1> QED BY <1>3 DEF Atomic!Spec, Seen

\* The revision counts the updates.
UpdatesAreNumbered ==
  /\ revision # 0 => revision = Len(audit) + 1
  /\ \A i \in 1..Len(audit) : audit[i].old = i

LEMMA AtomicUpdatesAreNumbered ==
  ASSUME Consistent, UpdatesAreNumbered, [Atomic!Next]_Seen
  PROVE  UpdatesAreNumbered'
<1> USE DEF UpdatesAreNumbered
<1>1. audit \in Seq(AuditRows) /\ Len(audit) \in Nat /\ revision \in Nat
  BY LenProperties DEF Consistent, TypeOK
<1>2. CASE UNCHANGED <<revision, audit>>
  BY <1>2
<1>3. CASE Atomic!Bootstrap
  <2>1. revision = 0 /\ revision' = 1 /\ audit' = audit /\ audit = <<>>
    BY <1>3 DEF Atomic!Bootstrap, Consistent, AuditGrows
  <2> QED BY <2>1
<1>4. ASSUME NEW p \in Policies, NEW expected \in {revision, Absent},
             Atomic!Update(p, expected)
      PROVE  UpdatesAreNumbered'
  <2> DEFINE row == [target |-> p, old |-> revision, new |-> revision + 1,
                     expected |-> expected]
  <2>1. /\ revision' = revision + 1 /\ audit' = Append(audit, row)
        /\ phase = "up"
    BY <1>4 DEF Atomic!Update
  <2>2. revision # 0
    BY <2>1 DEF Consistent, ImportProgress
  <2>3. row \in AuditRows
    BY <1>1, <1>4 DEF AuditRows
  <2>4. row.old = revision
    OBVIOUS
  <2> HIDE DEF row
  <2>5. /\ Len(audit') = Len(audit) + 1
        /\ \A i \in 1..Len(audit) : audit'[i] = audit[i]
        /\ audit'[Len(audit) + 1] = row
    BY <1>1, <2>1, <2>3, AppendProperties
  <2> QED BY <1>1, <2>1, <2>2, <2>4, <2>5
<1>5. Atomic!Settle \/ Atomic!Serve \/ Atomic!Stop => UNCHANGED <<revision, audit>>
  BY DEF Atomic!Settle, Atomic!Serve, Atomic!Stop
<1> QED BY <1>2, <1>3, <1>4, <1>5 DEF Atomic!Next, Seen

\* What the requirements ask of two updates that expect one revision holds whenever no
\* routing update goes stale in its await, and then the revision counts the updates.
THEOREM OneWinnerUnlessStale == Spec /\ NeverStale => [](OneWinnerPerRevision /\ UpdatesAreNumbered)
<1>1. Atomic!Spec => [][Atomic!Next]_Seen
  BY PTL DEF Atomic!Spec, Seen
<1>2. Init => UpdatesAreNumbered
  <2> SUFFICES ASSUME Init PROVE UpdatesAreNumbered
    OBVIOUS
  <2>1. revision = 0 /\ Len(audit) = 0
    BY EmptySeq DEF Init
  <2> QED BY <2>1 DEF UpdatesAreNumbered
<1>3. Consistent /\ UpdatesAreNumbered /\ [Atomic!Next]_Seen => UpdatesAreNumbered'
  BY AtomicUpdatesAreNumbered
<1>4. Consistent /\ UpdatesAreNumbered => OneWinnerPerRevision
  <2> SUFFICES ASSUME Consistent, UpdatesAreNumbered,
                      NEW i \in 1..Len(audit), NEW j \in 1..Len(audit),
                      audit[i].expected = audit[j].expected, audit[i].expected # Absent
               PROVE  i = j
    BY DEF OneWinnerPerRevision
  <2>1. audit[i].expected = audit[i].old /\ audit[j].expected = audit[j].old
    BY DEF Consistent, AuditGrows
  <2> QED BY <2>1 DEF UpdatesAreNumbered
<1> QED BY <1>1, <1>2, <1>3, <1>4, AtomicUnlessStale, AlwaysConsistent, PTL DEF Spec

-----------------------------------------------------------------------------
(* The first import.                                                        *)

\* Both tables were imported whole, and hold the file until the first update.
ImportedWhole ==
  /\ Imported
  /\ audit = <<>> => \A p \in Routes \cup Users : stored[p] = Yaml[p]

\* How far the first import is; the rows it has still to write are missing.
Importing ==
  /\ phase # "up"
  /\ phase \in {"down", "revision", "models"} => \A u \in Users : stored[u] = Absent
  /\ phase \in {"down", "revision"} => \A r \in Routes : stored[r] = Absent
  /\ phase = "models" => \A r \in Routes : r \notin todo => stored[r] = Yaml[r]
  /\ phase \in {"users", "allow"} =>
       /\ \A r \in Routes : stored[r] = Yaml[r]
       /\ \A u \in Users : u \notin todo => stored[u] = Yaml[u]

LEMMA StepWhole ==
  ASSUME Consistent, [Next]_vars, ImportedWhole
  PROVE  ImportedWhole'
<1> USE PoliciesAssumption DEF ImportedWhole, Consistent
<1>1. CASE Start
  BY <1>1 DEF Start, ToImport, Imported, NoneStored
<1>2. CASE BootstrapRevision
  BY <1>2 DEF BootstrapRevision, ToImport, Imported, NoneStored
<1>3. CASE ModelsImported
  BY <1>3 DEF ModelsImported, ToImport, Imported, NoneStored
<1>4. CASE Load \/ Crash
  BY <1>4 DEF Load, Crash, Imported, NoneStored
<1>5. ASSUME NEW r, ImportModel(r) \/ ImportUser(r) \/ ImportAllow(r) PROVE FALSE
  BY <1>5 DEF ImportModel, ImportUser, ImportAllow, Imported
<1>6. ASSUME NEW p \in Policies, NEW policy \in PolicyValues, NEW current, NEW expected,
             Commit(p, policy, current, expected), todo' = todo
      PROVE  ImportedWhole'
  <2> DEFINE row == [target |-> p, old |-> current, new |-> current + 1,
                     expected |-> expected]
  <2>1. audit' = Append(audit, row) /\ audit \in Seq(AuditRows)
    BY <1>6 DEF Commit, TypeOK
  <2> HIDE DEF row
  <2>2. audit' # <<>>
    BY <2>1
  <2>3. \A q \in Policies : stored[q] # Absent => stored'[q] # Absent
    BY <1>6 DEF Commit, TypeOK
  <2> QED BY <1>6, <2>2, <2>3 DEF Imported, NoneStored, Policies
<1>7. ASSUME NEW patch \in PatchChoices, NEW expected \in ExpectedRevisions,
             NEW p \in Routes \cup Users,
             UpdateModel(p, patch, expected) \/ UpdateUser(p, patch, expected)
      PROVE  ImportedWhole'
  <2>1. p \in Policies /\ Patched(memory[p], patch) \in PolicyValues
    BY <1>7, PatchedIsPolicy DEF UpdateModel, UpdateUser, TypeOK, Policies
  <2>2. phase = "up" /\ todo' = todo
    BY <1>7 DEF UpdateModel, UpdateUser
  <2>3. CASE Commit(p, Patched(memory[p], patch), revision, expected)
    BY <1>6, <2>1, <2>2, <2>3
  <2>4. CASE stored' = [stored EXCEPT ![p] = memory[p]] /\ audit' = audit
    <3>1. memory[p] = stored[p]
      BY <1>7, <2>1, <2>2 DEF MemoryIsRows, UpdateModel, UpdateUser
    <3>2. stored' = stored
      BY <2>1, <2>4, <3>1 DEF TypeOK
    <3> QED BY <2>2, <2>4, <3>2 DEF Imported, NoneStored
  <2> QED BY <1>7, <2>3, <2>4 DEF UpdateModel, UpdateUser
<1>8. ASSUME NEW c \in Clients, NEW patch, NEW expected,
             BeginRouting(c, patch, expected) \/ FailRouting(c)
      PROVE  ImportedWhole'
  BY <1>8 DEF BeginRouting, FailRouting, Imported, NoneStored
<1>9. ASSUME NEW c \in Clients, EndRouting(c) PROVE ImportedWhole'
  <2>1. call[c] \in RoutingCalls
    BY <1>9 DEF EndRouting, TypeOK
  <2>2. Routing \in Policies /\ Patched(call[c].snapshot, call[c].patch) \in PolicyValues
    BY <2>1, PatchedIsPolicy DEF RoutingCalls, Policies
  <2>3. todo' = todo
    BY <1>9 DEF EndRouting
  <2>4. CASE Commit(Routing, Patched(call[c].snapshot, call[c].patch), call[c].current,
                    call[c].expected)
    BY <1>6, <2>2, <2>3, <2>4
  <2>5. CASE UNCHANGED <<stored, revision, audit, memory>>
    BY <2>3, <2>5 DEF Imported, NoneStored
  <2> QED BY <1>9, <2>4, <2>5 DEF EndRouting
<1>10. CASE UNCHANGED vars
  BY <1>10 DEF vars, Imported, NoneStored
<1> QED BY <1>1, <1>2, <1>3, <1>4, <1>5, <1>7, <1>8, <1>9, <1>10 DEF Next

\* No process ends before it is up.
EndsOnlyWhenUp == [][phase' = "down" => phase = "up"]_vars

LEMMA StepImporting ==
  ASSUME Consistent, Consistent', [Next]_vars, [phase' = "down" => phase = "up"]_vars,
         Importing
  PROVE  Importing' \/ ImportedWhole'
<1> USE PoliciesAssumption DEF Importing, Consistent
<1>1. CASE Start
  BY <1>1 DEF Start, ToImport, NoneStored
<1>2. CASE BootstrapRevision
  BY <1>2 DEF BootstrapRevision, ToImport, NoneStored
<1>3. CASE ModelsImported
  BY <1>3 DEF ModelsImported, ToImport, NoneStored
<1>4. CASE Load
  <2>1. /\ \A p \in Routes \cup Users : stored[p] = Yaml[p]
        /\ stored' = stored /\ todo' = todo /\ todo = {}
    BY <1>4 DEF Load
  <2>2. \A p \in Routes \cup Users : Yaml[p] # Absent
    BY DEF Policies
  <2>3. Imported'
    BY <2>1, <2>2 DEF Imported, NoneStored
  <2> QED BY <2>1, <2>3 DEF ImportedWhole
<1>5. CASE Crash
  BY <1>5 DEF Crash, vars
<1>6. ASSUME NEW r \in Routes, ImportModel(r) PROVE Importing'
  BY <1>6 DEF ImportModel, TypeOK, Policies
<1>7. ASSUME NEW u \in Users, ImportUser(u) PROVE Importing'
  BY <1>7 DEF ImportUser, TypeOK, Policies
<1>8. ASSUME NEW u \in Users, ImportAllow(u) PROVE Importing'
  BY <1>8 DEF ImportAllow, TypeOK, Policies
<1>9. ASSUME NEW p, NEW patch, NEW expected,
             \/ UpdateModel(p, patch, expected) \/ UpdateUser(p, patch, expected)
             \/ BeginRouting(p, patch, expected) \/ FailRouting(p) \/ EndRouting(p)
      PROVE  FALSE
  BY <1>9 DEF UpdateModel, UpdateUser, BeginRouting, FailRouting, EndRouting
<1>10. CASE UNCHANGED vars
  BY <1>10 DEF vars
<1> QED BY <1>1, <1>2, <1>3, <1>4, <1>5, <1>6, <1>7, <1>8, <1>9, <1>10 DEF Next

\* Only a process that ends during the first import breaks it: otherwise every process
\* that is up serves the routes and users of the YAML file until the first update,
\* through any number of restarts.
THEOREM ImportedUnlessInterrupted == Spec /\ EndsOnlyWhenUp => []YamlIsImported
<1>1. Init => Importing
  BY PoliciesAssumption DEF Init, Importing, NoPolicies, Policies
<1>2. ASSUME Consistent, Consistent', [Next]_vars, [phase' = "down" => phase = "up"]_vars,
             Importing \/ ImportedWhole
      PROVE  (Importing \/ ImportedWhole)'
  BY <1>2, StepImporting, StepWhole
<1>3. Consistent /\ (Importing \/ ImportedWhole) => YamlIsImported
  BY PoliciesAssumption
     DEF Consistent, MemoryIsRows, Importing, ImportedWhole, YamlIsImported, Policies
<1> QED BY <1>1, <1>2, <1>3, AlwaysConsistent, PTL DEF Spec, EndsOnlyWhenUp
===========================================================================
