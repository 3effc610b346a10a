---------------------------- MODULE ConfigStore ----------------------------
(***************************************************************************)
(* The governance configuration of one plugin process: the routing         *)
(* settings, the model policies and the user policies in SQLite, the copy  *)
(* the service decides from, the configuration revision and the audit log; *)
(* the first import of the YAML file, the administrative updates, a        *)
(* process that dies and starts again.                                     *)
(*                                                                         *)
(* A policy is a function from Fields to Values, an update a patch of some *)
(* of them.  updateModel and updateUser run without an await and are one   *)
(* action; updateRoutingSettings has an await between its revision check   *)
(* and its transaction and is two.  The start-up import commits statement  *)
(* by statement and is one action per statement.                           *)
(*                                                                         *)
(* A definition named ...Faulty right before the definition it varies is a *)
(* deliberate mistake, used by the sensitivity checks of README.md.        *)
(***************************************************************************)
EXTENDS Integers, Sequences

CONSTANTS
  Clients,          \* the callers that may have a routing update under way
  Routes, Users,    \* routes and users of the YAML file
  Fields, Values,   \* fields of a policy and their valid values
  AllowField,       \* the field of a user policy kept in rows of its own
  NoRows,           \* its value while the rows are missing
  Yaml,             \* the policies of the YAML file
  PatchChoices,     \* the patches administrators send
  Absent,           \* "no such row", "no call under way", "no expected revision"
  MaxWrites,        \* bound: updates that change something
  MaxCrashes        \* bound: ends of the process

Routing == "routing"
Policies == {Routing} \cup Routes \cup Users
PolicyValues == [Fields -> Values]
Patches == UNION {[S -> Values] : S \in SUBSET Fields}

ASSUME PoliciesAssumption ==
  /\ Routing \notin Routes \cup Users /\ Routes \cap Users = {}
  /\ Routes # {} /\ Users # {}
  /\ AllowField \in Fields /\ NoRows \in Values
  /\ Yaml \in [Policies -> PolicyValues]
  /\ PatchChoices \subseteq Patches
  /\ Absent \notin PolicyValues /\ Absent \notin Int

ASSUME BoundsAssumption == MaxWrites \in Nat /\ MaxCrashes \in Nat

VARIABLES
  phase,      \* where the constructor is: down, revision, models, users, allow, up
  todo,       \* YAML entries the running import loop has still to write
  stored,     \* the rows: routing_settings_v1, model_policies, user_policies
  revision,   \* config_revision, 0 before the first start
  audit,      \* audit_log
  memory,     \* _models, _users and the routing fields of the service
  call,       \* updateRoutingSettings between its check and its transaction
  crashes

vars == <<phase, todo, stored, revision, audit, memory, call, crashes>>

\* An audit row; expected is what the caller asked for and is not in the table.
AuditRows == [target : Policies, old : Nat, new : Nat, expected : Nat \cup {Absent}]

RoutingCalls == [expected : Nat \cup {Absent}, current : Nat,
                 snapshot : PolicyValues, patch : Patches]

NoPolicies == [p \in Policies |-> Absent]

Init ==
  /\ phase = "down" /\ todo = {} /\ stored = NoPolicies /\ revision = 0
  /\ audit = <<>> /\ memory = NoPolicies /\ call = [c \in Clients |-> Absent]
  /\ crashes = 0

-----------------------------------------------------------------------------
(* The constructor.                                                         *)

NoneStored(S) == \A p \in S : stored[p] = Absent

ToImportFaulty(S) == S

\* An import loop runs over the whole YAML section if the table is empty.
ToImport(S) == IF NoneStored(S) THEN S ELSE {}

StartFaulty ==
  /\ phase = "down"
  /\ memory' = Yaml
  /\ phase' = "revision" /\ todo' = {}
  /\ UNCHANGED <<stored, revision, audit, call, crashes>>

Start ==
  /\ phase = "down"
  /\ memory' = Yaml
  /\ phase' = IF revision = 0 THEN "revision" ELSE "models"
  /\ todo' = IF revision = 0 THEN {} ELSE ToImport(Routes)
  /\ UNCHANGED <<stored, revision, audit, call, crashes>>

BootstrapRevision ==
  /\ phase = "revision"
  /\ revision' = 1
  /\ phase' = "models" /\ todo' = ToImport(Routes)
  /\ UNCHANGED <<stored, audit, memory, call, crashes>>

ImportModel(r) ==
  /\ phase = "models" /\ r \in todo
  /\ stored' = [stored EXCEPT ![r] = Yaml[r]]
  /\ todo' = todo \ {r}
  /\ UNCHANGED <<phase, revision, audit, memory, call, crashes>>

ModelsImported ==
  /\ phase = "models" /\ todo = {}
  /\ phase' = "users" /\ todo' = ToImport(Users)
  /\ UNCHANGED <<stored, revision, audit, memory, call, crashes>>

\* upsertUserPolicy; the allow rows follow in statements of their own.
ImportUser(u) ==
  /\ phase = "users" /\ u \in todo
  /\ stored' = [stored EXCEPT ![u] = [Yaml[u] EXCEPT ![AllowField] = NoRows]]
  /\ phase' = "allow"
  /\ UNCHANGED <<todo, revision, audit, memory, call, crashes>>

ImportAllow(u) ==
  /\ phase = "allow" /\ u \in todo /\ stored[u] # Absent
  /\ stored' = [stored EXCEPT ![u] = Yaml[u]]
  /\ phase' = "users" /\ todo' = todo \ {u}
  /\ UNCHANGED <<revision, audit, memory, call, crashes>>

\* What a start makes of the rows: a table that has any replaces the YAML section.
Loaded(S) == [p \in S |-> IF NoneStored(S) THEN Yaml[p] ELSE stored[p]]

LoadedPolicies ==
  [p \in Policies |-> IF p = Routing THEN Loaded({Routing})[p]
                      ELSE IF p \in Routes THEN Loaded(Routes)[p]
                      ELSE Loaded(Users)[p]]

Load ==
  /\ phase = "users" /\ todo = {}
  /\ memory' = LoadedPolicies
  /\ phase' = "up"
  /\ UNCHANGED <<todo, stored, revision, audit, call, crashes>>

\* The process ends, in any phase, and takes the calls under way with it.
Crash ==
  /\ phase # "down" /\ crashes < MaxCrashes
  /\ phase' = "down" /\ todo' = {} /\ crashes' = crashes + 1
  /\ memory' = NoPolicies /\ call' = [c \in Clients |-> Absent]
  /\ UNCHANGED <<stored, revision, audit>>

-----------------------------------------------------------------------------
(* Administrative updates.  One that is refused, because its value is not   *)
(* valid, the revision is not the expected one or the transaction fails,    *)
(* changes nothing.                                                         *)

Spare == Len(audit) < MaxWrites
ExpectedRevisions == (1..MaxWrites + 1) \cup {Absent}

PatchedFaulty(policy, patch) == patch

Patched(policy, patch) ==
  [f \in Fields |-> IF f \in DOMAIN patch THEN patch[f] ELSE policy[f]]

RevisionAcceptedFaulty(expected) == TRUE

\* options.expectedRevision, when given, must be the current revision.
RevisionAccepted(expected) == expected \in {revision, Absent}

\* The transaction of an update: the policy, the next revision, the audit row.
Commit(p, policy, current, expected) ==
  /\ stored' = [stored EXCEPT ![p] = policy]
  /\ revision' = current + 1
  /\ audit' = Append(audit, [target |-> p, old |-> current, new |-> current + 1,
                             expected |-> expected])

\* The upsert happens even when nothing changes; revision and audit only if so.
UpdateModel(r, patch, expected) ==
  /\ phase = "up" /\ memory[r] # Absent
  /\ RevisionAccepted(expected)
  /\ LET policy == Patched(memory[r], patch) IN
       /\ IF policy # memory[r]
          THEN Spare /\ Commit(r, policy, revision, expected)
          ELSE /\ stored' = [stored EXCEPT ![r] = policy]
               /\ UNCHANGED <<revision, audit>>
       /\ memory' = [memory EXCEPT ![r] = policy]
  /\ UNCHANGED <<phase, todo, call, crashes>>

UpdateUser(u, patch, expected) ==
  /\ phase = "up" /\ memory[u] # Absent
  /\ RevisionAccepted(expected)
  /\ LET policy == Patched(memory[u], patch) IN
       /\ policy # memory[u]
       /\ Spare /\ Commit(u, policy, revision, expected)
       /\ memory' = [memory EXCEPT ![u] = policy]
  /\ UNCHANGED <<phase, todo, call, crashes>>

\* The check and the snapshot of the settings, up to the await.
BeginRouting(c, patch, expected) ==
  /\ phase = "up" /\ call[c] = Absent
  /\ RevisionAccepted(expected)
  /\ call' = [call EXCEPT ![c] = [expected |-> expected, current |-> revision,
                                  snapshot |-> memory[Routing], patch |-> patch]]
  /\ UNCHANGED <<phase, todo, stored, revision, audit, memory, crashes>>

\* Memory is replaced before the transaction, which may then fail.
EndRoutingFaulty(c) ==
  /\ phase = "up" /\ call[c] # Absent
  /\ LET policy == Patched(call[c].snapshot, call[c].patch) IN
       /\ \/ /\ policy # call[c].snapshot
             /\ Spare /\ Commit(Routing, policy, call[c].current, call[c].expected)
          \/ UNCHANGED <<stored, revision, audit>>
       /\ memory' = [memory EXCEPT ![Routing] = policy]
  /\ call' = [call EXCEPT ![c] = Absent]
  /\ UNCHANGED <<phase, todo, crashes>>

\* After the await: the next settings come from the snapshot, the next revision
\* from the one that was checked.  Unchanged settings end the call.
EndRouting(c) ==
  /\ phase = "up" /\ call[c] # Absent
  /\ LET policy == Patched(call[c].snapshot, call[c].patch) IN
       \/ /\ policy # call[c].snapshot
          /\ Spare /\ Commit(Routing, policy, call[c].current, call[c].expected)
          /\ memory' = [memory EXCEPT ![Routing] = policy]
       \/ /\ policy = call[c].snapshot
          /\ UNCHANGED <<stored, revision, audit, memory>>
  /\ call' = [call EXCEPT ![c] = Absent]
  /\ UNCHANGED <<phase, todo, crashes>>

\* The merged settings are not valid, or the transaction is rolled back.
FailRouting(c) ==
  /\ phase = "up" /\ call[c] # Absent
  /\ call' = [call EXCEPT ![c] = Absent]
  /\ UNCHANGED <<phase, todo, stored, revision, audit, memory, crashes>>

Next ==
  \/ Start \/ BootstrapRevision \/ ModelsImported \/ Load \/ Crash
  \/ \E r \in Routes : ImportModel(r)
  \/ \E u \in Users : ImportUser(u) \/ ImportAllow(u)
  \/ \E patch \in PatchChoices, expected \in ExpectedRevisions :
       \/ \E r \in Routes : UpdateModel(r, patch, expected)
       \/ \E u \in Users : UpdateUser(u, patch, expected)
       \/ \E c \in Clients : BeginRouting(c, patch, expected)
  \/ \E c \in Clients : EndRouting(c) \/ FailRouting(c)

Spec == Init /\ [][Next]_vars

-----------------------------------------------------------------------------
(* Properties.                                                              *)

\* Every variable has its type.
TypeOK ==
  /\ phase \in {"down", "revision", "models", "users", "allow", "up"}
  /\ todo \in SUBSET (Routes \cup Users)
  /\ stored \in [Policies -> PolicyValues \cup {Absent}]
  /\ revision \in Nat
  /\ audit \in Seq(AuditRows)
  /\ memory \in [Policies -> PolicyValues \cup {Absent}]
  /\ call \in [Clients -> RoutingCalls \cup {Absent}]
  /\ crashes \in Nat

\* What the service decides from is what a restart would load from SQLite, after
\* every update in any interleaving, also one that failed or changed nothing.
MemoryIsStore == phase = "up" => memory = LoadedPolicies

\* The revision the i-th audited update found, if no update was under way.
RevisionBefore(i) == IF i = 1 THEN 1 ELSE audit[i - 1].new

\* The audit log explains the revision across restarts: the revision is the one
\* of the last audited update, and a model or user update continues the one of
\* the update before it, even after a routing update that set the revision back.
RevisionChain ==
  /\ revision # 0 => revision = RevisionBefore(Len(audit) + 1)
  /\ \A i \in 1..Len(audit) :
       audit[i].target # Routing => audit[i].old = RevisionBefore(i)

\* Two updates that expected the same revision are accepted only if a routing
\* update, the one with an await inside, comes between them or is the second.
StaleUpdatesRefused ==
  \A i, j \in 1..Len(audit) :
    (i < j /\ audit[i].expected = audit[j].expected /\ audit[i].expected # Absent)
      => \E k \in i + 1..j : audit[k].target = Routing

\* A stored policy is only ever rewritten together with its audit row: no restart
\* and no import takes back what an administrator changed.
ChangesAreAudited ==
  [][\A p \in Policies :
       (stored[p] # Absent /\ stored'[p] # stored[p])
         => \/ phase = "allow" /\ p \in todo
            \/ /\ Len(audit') = Len(audit) + 1
               /\ audit'[Len(audit')].target = p]_vars

\* Of two updates that expect the same revision one is accepted (what
\* docs/OPTIMIZATION_REQUIREMENTS.md:259 requires; the code does not keep it).
OneWinnerPerRevision ==
  \A i, j \in 1..Len(audit) :
    (audit[i].expected = audit[j].expected /\ audit[i].expected # Absent) => i = j

\* A process that is up serves every route and user of the YAML file, with its
\* allowed routes, unless an administrator changed them (what the comment at
\* service.ts:385 says of the first start; a process that ends during it breaks it).
YamlIsImported ==
  (phase = "up" /\ audit = <<>>) => \A p \in Routes \cup Users : memory[p] = Yaml[p]

-----------------------------------------------------------------------------
(* The abstract promise.                                                    *)

\* No start imports into a table any more, and none is importing.
Imported == todo = {} /\ ~NoneStored(Routes) /\ ~NoneStored(Users)

Atomic == INSTANCE AtomicConfig
            WITH Targets <- Policies, Configs <- [Policies -> PolicyValues \cup {Absent}],
                 Anything <- Absent, config <- LoadedPolicies, settled <- Imported,
                 version <- revision, log <- audit, serving <- phase = "up"

\* A routing update commits after another update did since its check.
StaleCommit ==
  /\ audit' # audit
  /\ \E c \in Clients :
       /\ call[c] # Absent /\ call'[c] = Absent
       /\ \/ call[c].current # revision
          \/ call[c].snapshot # memory[Routing]

\* Starts, imports, crashes, refused, failed and accepted updates make one versioned
\* configuration that only compare-and-set updates change; the commit of a stale
\* routing update is all that is not one (service.ts:1561).
UpdatesAreAtomic ==
  /\ Atomic!Init
  /\ [][Atomic!Next \/ StaleCommit]_<<LoadedPolicies, Imported, revision, audit, phase = "up">>
=============================================================================
