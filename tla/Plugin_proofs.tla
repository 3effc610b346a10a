---------------------------- MODULE Plugin_proofs ----------------------------
(***************************************************************************)
(* Proofs about loading the plugin: the database never holds half of a     *)
(* migration, whoever else is migrating it, and a host that has built its  *)
(* service has a configuration that can be used and the whole schema.      *)
(***************************************************************************)
EXTENDS Plugin, ConfigSchema_proofs

-----------------------------------------------------------------------------
(* The migrations.                                                          *)

LEMMA Lists ==
  /\ DOMAIN Migrations = 1..3
  /\ Migrations[1].version = 1 /\ Migrations[2].version = 2 /\ Migrations[3].version = 3
  /\ Len(Migrations[1].up) = 1 /\ Len(Migrations[2].up) = 3 /\ Len(Migrations[3].up) = 2
  /\ Migrations[1].up[1].object = "tables"
  /\ Migrations[2].up[1].object = "backup" /\ Migrations[2].up[2].object = "decisions"
  /\ Migrations[2].up[3].object = "audit"
  /\ Migrations[3].up[1].object = "usage_kind" /\ Migrations[3].up[2].object = "usage_index"
  /\ DOMAIN Migrations[1].up = 1..1 /\ DOMAIN Migrations[2].up = 1..3 /\ DOMAIN Migrations[3].up = 1..2
BY DEF Migrations

LEMMA MigrationIsItsVersion ==
  /\ Versions = {1, 2, 3}
  /\ \A v \in Versions : Statements(v) = Migrations[v].up
<1>1. Versions = {1, 2, 3}
  BY Lists DEF Versions
<1>2. \A v \in Versions : Up(v) = v
  <2> SUFFICES ASSUME NEW v \in Versions PROVE Up(v) = v
    OBVIOUS
  <2>1. v \in DOMAIN Migrations /\ Migrations[v].version = v
    BY <1>1, Lists
  <2>2. \A i \in DOMAIN Migrations : Migrations[i].version = v => i = v
    BY <1>1, Lists
  <2> QED
    BY <2>1, <2>2 DEF Up
<1> QED
  BY <1>1, <1>2 DEF Statements

\* Two migrations create nothing in common, and each creates something.
LEMMA ObjectsAreOwn ==
  /\ \A v \in Versions : ObjectsOf(v) # {} /\ ObjectsOf(v) \subseteq Objects
  /\ \A v, w \in Versions : v # w => ObjectsOf(v) \cap ObjectsOf(w) = {}
<1>1. /\ ObjectsOf(1) = {"tables"} /\ ObjectsOf(2) = {"backup", "decisions", "audit"}
      /\ ObjectsOf(3) = {"usage_kind", "usage_index"}
  <2>1. 1 \in Versions /\ 2 \in Versions /\ 3 \in Versions
    BY MigrationIsItsVersion
  <2>2. ObjectsOf(1) = {Migrations[1].up[i].object : i \in 1..1}
    BY <2>1, MigrationIsItsVersion, Lists DEF ObjectsOf
  <2>3. ObjectsOf(2) = {Migrations[2].up[i].object : i \in 1..3}
    BY <2>1, MigrationIsItsVersion, Lists DEF ObjectsOf
  <2>4. ObjectsOf(3) = {Migrations[3].up[i].object : i \in 1..2}
    BY <2>1, MigrationIsItsVersion, Lists DEF ObjectsOf
  <2>5. 1..1 = {1} /\ 1..3 = {1, 2, 3} /\ 1..2 = {1, 2}
    OBVIOUS
  <2> QED
    BY <2>2, <2>3, <2>4, <2>5, Lists
<1>2. \A v, w \in {1, 2, 3} : v # w => ObjectsOf(v) \cap ObjectsOf(w) = {}
  BY <1>1
<1> QED
  BY <1>1, <1>2, MigrationIsItsVersion DEF Objects

\* The objects of the first n statements of a migration.
Applied(v, n) == {Statements(v)[i].object : i \in 1..n}

LEMMA AppliedGrows ==
  /\ \A v \in Versions : Applied(v, 0) = {}
  /\ \A v \in Versions : Applied(v, Len(Statements(v))) = ObjectsOf(v)
  /\ \A v \in Versions, n \in Nat \ {0} : Applied(v, n) = Applied(v, n - 1) \cup {Statements(v)[n].object}
  /\ \A v \in Versions : Len(Statements(v)) \in Nat
<1>1. \A v \in Versions : Len(Statements(v)) \in Nat /\ DOMAIN Statements(v) = 1..Len(Statements(v))
  BY Lists, MigrationIsItsVersion
<1>2. \A v \in Versions : Applied(v, Len(Statements(v))) = ObjectsOf(v)
  BY <1>1 DEF Applied, ObjectsOf
<1>3. \A n \in Nat \ {0} : 1..n = 1..(n - 1) \cup {n}
  OBVIOUS
<1>4. \A v \in Versions, n \in Nat \ {0} :
        Applied(v, n) = Applied(v, n - 1) \cup {Statements(v)[n].object}
  BY <1>3 DEF Applied
<1>5. 1..0 = {}
  OBVIOUS
<1> QED
  BY <1>1, <1>2, <1>4, <1>5 DEF Applied

-----------------------------------------------------------------------------
(* The schema.                                                              *)

SchemaTypes ==
  /\ phase \in [Hosting -> Phases] /\ seen \in [Hosting -> SUBSET Versions]
  /\ tx \in [Hosting -> Transactions \cup {NoTx}]
  /\ \A p \in Hosting : tx[p] # NoTx => tx[p].next \in 1..Len(Statements(tx[p].version)) + 1
  /\ lock \in Hosting \cup {NoTx} /\ db \in Databases

\* A transaction holds what it began with and the statements it has run.
Drafted(t) ==
  /\ t.draft.versions = t.base.versions
  /\ t.draft.objects = t.base.objects \cup Applied(t.version, t.next - 1)
TxSound == \A p \in Hosting : tx[p] # NoTx => phase[p] = "migrating" /\ Drafted(tx[p])

\* The writer began with what is committed.
LockSound == \A p \in Hosting : lock = p => tx[p] # NoTx /\ tx[p].base = db

SeenSound == \A p \in Hosting : seen[p] \subseteq db.versions

Built == {"building", "refreshing", "wired", "up"}
PhaseSound ==
  \A p \in Hosting :
    /\ phase[p] \notin {"down", "failed"} => file \in AcceptedFiles
    /\ phase[p] \in {"opening", "migrating"} => config.storage
    /\ phase[p] \in Built /\ config.storage => db.versions = Versions

SchemaSound ==
  SchemaTypes /\ TxSound /\ LockSound /\ SeenSound /\ PhaseSound /\ SchemaMatchesVersions

schemaVars == <<file, phase, seen, tx, lock, db>>

LEMMA InitSchema ==
  ASSUME Init
  PROVE  SchemaSound
<1>1. SchemaTypes
  BY DEF Init, SchemaTypes, Phases, Databases
<1>2. TxSound /\ SeenSound
  BY DEF Init, TxSound, SeenSound
<1>3. LockSound
  BY PluginAssumption DEF Init, LockSound, PluginAssumption
<1>4. PhaseSound
  BY DEF Init, PhaseSound, Built
<1>5. SchemaMatchesVersions
  BY ObjectsAreOwn DEF Init, SchemaMatchesVersions
<1> QED
  BY <1>1, <1>2, <1>3, <1>4, <1>5 DEF SchemaSound

\* A host goes on to a phase it is ready for, outside its transactions.
LEMMA PhaseStep ==
  ASSUME SchemaSound, NEW p \in Hosting, NEW to \in Phases, Goes(p, to), tx[p] = NoTx,
         UNCHANGED <<file, tx, lock, db>>,
         seen' = seen \/ seen' = [seen EXCEPT ![p] = db.versions],
         to \notin {"down", "failed"} => file \in AcceptedFiles,
         to \in {"opening", "migrating"} => config.storage,
         to \in Built /\ config.storage => db.versions = Versions
  PROVE  SchemaSound'
<1> USE DEF SchemaSound
<1>1. phase' = [phase EXCEPT ![p] = to] /\ phase \in [Hosting -> Phases]
  BY DEF Goes, SchemaTypes
<1>2. db.versions \subseteq Versions
  BY DEF SchemaTypes, Databases
<1>3. SchemaTypes'
  BY <1>1, <1>2 DEF SchemaTypes
<1>4. TxSound'
  BY <1>1 DEF TxSound
<1>5. LockSound'
  BY DEF LockSound
<1>6. SeenSound'
  BY DEF SeenSound, SchemaTypes
<1>7. PhaseSound'
  BY <1>1 DEF PhaseSound, config
<1>8. SchemaMatchesVersions'
  BY DEF SchemaMatchesVersions
<1> QED
  BY <1>3, <1>4, <1>5, <1>6, <1>7, <1>8

\* A host gives up what it was doing, its transaction with it.
LEMMA AbortStep ==
  ASSUME SchemaSound, NEW p \in Hosting, NEW to \in {"down", "failed"}, Goes(p, to),
         tx' = [tx EXCEPT ![p] = NoTx], lock' = Unlocked(p), UNCHANGED <<file, db>>,
         seen' = seen \/ seen' = [seen EXCEPT ![p] = {}]
  PROVE  SchemaSound'
<1> USE DEF SchemaSound
<1>1. phase' = [phase EXCEPT ![p] = to] /\ phase \in [Hosting -> Phases]
  BY DEF Goes, SchemaTypes
<1>2. tx \in [Hosting -> Transactions \cup {NoTx}]
  BY DEF SchemaTypes
<1>3. SchemaTypes'
  BY <1>1, <1>2 DEF SchemaTypes, Unlocked, Phases
<1>4. TxSound'
  BY <1>1, <1>2 DEF TxSound
<1>5. LockSound'
  BY <1>2, PluginAssumption DEF LockSound, Unlocked, PluginAssumption
<1>6. SeenSound'
  BY DEF SeenSound, SchemaTypes
<1>7. PhaseSound'
  BY <1>1 DEF PhaseSound, config, Built
<1>8. SchemaMatchesVersions'
  BY DEF SchemaMatchesVersions
<1> QED
  BY <1>3, <1>4, <1>5, <1>6, <1>7, <1>8

LEMMA BeginStep ==
  ASSUME SchemaSound, NEW p \in Hosting, Begin(p)
  PROVE  SchemaSound'
<1> USE DEF SchemaSound
<1> DEFINE v == CHOOSE w \in Pending(p) : \A x \in Pending(p) : w <= x
           t == [version |-> v, next |-> 1, base |-> db, draft |-> db]
<1>1. /\ phase[p] = "migrating" /\ tx[p] = NoTx /\ Pending(p) # {} /\ tx' = [tx EXCEPT ![p] = t]
      /\ UNCHANGED <<file, phase, seen, lock, db>>
  BY DEF Begin
<1>2. v \in Versions
  <2>1. \E w \in Pending(p) : \A x \in Pending(p) : w <= x
    <3>1. Pending(p) \subseteq {1, 2, 3} /\ Pending(p) # {}
      BY <1>1, MigrationIsItsVersion DEF Pending
    <3> QED
      BY <3>1
  <2> QED
    BY <2>1 DEF Pending
<1> HIDE DEF v
<1>3. t \in Transactions /\ t.next \in 1..Len(Statements(t.version)) + 1
  BY <1>2, AppliedGrows DEF SchemaTypes, Transactions
<1>4. Drafted(t)
  <2>1. t.draft.objects = t.base.objects /\ t.version \in Versions /\ t.next - 1 = 0
    BY <1>2
  <2>2. Applied(t.version, t.next - 1) = {}
    BY <2>1, AppliedGrows
  <2> QED
    BY <2>1, <2>2 DEF Drafted
<1> HIDE DEF t
<1>5. tx \in [Hosting -> Transactions \cup {NoTx}] /\ t # NoTx
  BY <1>3, PluginAssumption DEF SchemaTypes, PluginAssumption
<1>6. SchemaTypes'
  BY <1>1, <1>3, <1>5 DEF SchemaTypes
<1>7. TxSound'
  BY <1>1, <1>4, <1>5 DEF TxSound
<1>8. LockSound'
  BY <1>1, <1>5 DEF LockSound
<1>9. SeenSound' /\ PhaseSound' /\ SchemaMatchesVersions'
  BY <1>1 DEF SeenSound, PhaseSound, SchemaMatchesVersions, config
<1> QED
  BY <1>6, <1>7, <1>8, <1>9

LEMMA StatementStep ==
  ASSUME SchemaSound, NEW p \in Hosting, Statement(p)
  PROVE  SchemaSound'
<1> USE DEF SchemaSound
<1> DEFINE s == Statements(tx[p].version)[tx[p].next]
           t == [tx[p] EXCEPT !.next = @ + 1, !.draft.objects = @ \cup {s.object}]
<1>1. /\ tx[p] # NoTx /\ tx[p].next <= Len(Statements(tx[p].version))
      /\ UNCHANGED <<file, phase, seen, db>>
  BY DEF Statement
<1>2. tx' = [tx EXCEPT ![p] = t]
  BY Zenon DEF Statement
<1>3. \/ lock' = lock
      \/ CanWrite(p) /\ lock' = p
  BY Zenon DEF Statement
<1>4. tx \in [Hosting -> Transactions \cup {NoTx}] /\ tx[p] \in Transactions
  BY <1>1 DEF SchemaTypes
<1>5. tx[p].version \in Versions /\ tx[p].next \in Nat /\ tx[p].next >= 1
      /\ Len(Statements(tx[p].version)) \in Nat
  BY <1>1, <1>4, AppliedGrows DEF SchemaTypes, Transactions
<1>6. s.object \in Objects
  <2>1. s.object \in Applied(tx[p].version, Len(Statements(tx[p].version)))
    BY <1>1, <1>5 DEF Applied
  <2> QED
    BY <2>1, <1>5, AppliedGrows, ObjectsAreOwn
<1> HIDE DEF s
<1>7. /\ t \in Transactions /\ t.version = tx[p].version /\ t.next = tx[p].next + 1
      /\ t.base = tx[p].base /\ t.draft.versions = tx[p].draft.versions
      /\ t.draft.objects = tx[p].draft.objects \cup {s.object}
  <2> DEFINE drafted == [tx[p].draft EXCEPT !.objects = @ \cup {s.object}]
  <2>1. t = [tx[p] EXCEPT !.next = @ + 1, !.draft = drafted]
    BY Zenon
  <2>2. /\ drafted \in Databases /\ drafted.versions = tx[p].draft.versions
        /\ drafted.objects = tx[p].draft.objects \cup {s.object}
    BY <1>4, <1>6 DEF Transactions, Databases
  <2>3. tx[p] \in Transactions
    BY <1>4
  <2> HIDE DEF t, drafted
  <2>4. ASSUME NEW x \in Transactions, NEW d \in Databases
        PROVE  LET y == [x EXCEPT !.next = @ + 1, !.draft = d]
               IN /\ y \in Transactions /\ y.version = x.version /\ y.next = x.next + 1
                  /\ y.base = x.base /\ y.draft = d
    <3> DEFINE y == [x EXCEPT !.next = x.next + 1]
               z == [y EXCEPT !.draft = d]
    <3>1. [x EXCEPT !.next = @ + 1, !.draft = d] = z
      BY Zenon
    <3>2. /\ y \in Transactions /\ y.version = x.version /\ y.next = x.next + 1 /\ y.base = x.base
      BY SMT DEF Transactions
    <3> HIDE DEF y
    <3>3. /\ z \in Transactions /\ z.version = y.version /\ z.next = y.next /\ z.base = y.base
          /\ z.draft = d
      BY <3>2, SMT DEF Transactions
    <3> HIDE DEF z
    <3> QED
      BY <3>1, <3>2, <3>3, Zenon
  <2>5. t \in Transactions /\ t.version = tx[p].version /\ t.next = tx[p].next + 1
        /\ t.base = tx[p].base /\ t.draft = drafted
    BY <2>1, <2>2, <2>3, <2>4, Zenon
  <2> QED
    BY <2>2, <2>5, Zenon
<1> HIDE DEF t
<1>8. t # NoTx /\ t.next \in 1..Len(Statements(t.version)) + 1
  BY <1>1, <1>5, <1>7, PluginAssumption DEF PluginAssumption
<1>9. Drafted(tx[p]) /\ phase[p] = "migrating"
  BY <1>1 DEF TxSound
<1>10. Drafted(t)
  <2>1. t.next - 1 = tx[p].next /\ tx[p].next \in Nat \ {0}
    BY <1>5, <1>7
  <2>2. Applied(t.version, t.next - 1) = Applied(tx[p].version, tx[p].next - 1) \cup {s.object}
    BY <2>1, <1>5, <1>7, AppliedGrows DEF s
  <2> QED
    BY <2>2, <1>7, <1>9 DEF Drafted
<1>11. SchemaTypes'
  BY <1>1, <1>2, <1>3, <1>4, <1>7, <1>8 DEF SchemaTypes
<1>12. TxSound'
  BY <1>1, <1>2, <1>4, <1>9, <1>10 DEF TxSound
<1>13. LockSound'
  <2>1. \A q \in Hosting : q # p => tx'[q] = tx[q]
    BY <1>2, <1>4
  <2>2. tx'[p] # NoTx /\ tx'[p].base = tx[p].base
    BY <1>2, <1>4, <1>7, <1>8
  <2>3. CASE lock' = lock
    BY <2>1, <2>2, <2>3, <1>1 DEF LockSound
  <2>4. CASE CanWrite(p) /\ lock' = p
    <3>1. tx[p].base = db
      BY <2>4 DEF CanWrite, LockSound
    <3> QED
      BY <2>1, <2>2, <2>4, <3>1, <1>1 DEF LockSound
  <2> QED
    BY <2>3, <2>4, <1>3
<1>14. SeenSound' /\ PhaseSound' /\ SchemaMatchesVersions'
  BY <1>1 DEF SeenSound, PhaseSound, SchemaMatchesVersions, config
<1> QED
  BY <1>11, <1>12, <1>13, <1>14

\* A commit adds the version and exactly its objects to what is committed.
LEMMA CommitStep ==
  ASSUME SchemaSound, NEW p \in Hosting, Commit(p)
  PROVE  SchemaSound'
<1> USE DEF SchemaSound
<1> DEFINE v == tx[p].version
<1>1. /\ tx[p] # NoTx /\ tx[p].next > Len(Statements(v)) /\ v \notin tx[p].draft.versions
      /\ CanWrite(p) /\ db' = [tx[p].draft EXCEPT !.versions = @ \cup {v}]
      /\ seen' = [seen EXCEPT ![p] = @ \cup {v}] /\ tx' = [tx EXCEPT ![p] = NoTx] /\ lock' = NoTx
      /\ UNCHANGED <<file, phase>>
  BY DEF Commit
<1>2. tx \in [Hosting -> Transactions \cup {NoTx}] /\ tx[p] \in Transactions
  BY <1>1 DEF SchemaTypes
<1>3. v \in Versions /\ tx[p].draft \in Databases /\ Len(Statements(v)) \in Nat
      /\ tx[p].next = Len(Statements(v)) + 1
  BY <1>1, <1>2, AppliedGrows DEF Transactions, SchemaTypes
<1>4. tx[p].base = db
  BY <1>1 DEF CanWrite, LockSound
<1>5. tx[p].draft.versions = db.versions /\ tx[p].draft.objects = db.objects \cup ObjectsOf(v)
  <2>1. Drafted(tx[p])
    BY <1>1 DEF TxSound
  <2>2. tx[p].next - 1 = Len(Statements(v))
    BY <1>3
  <2>3. Applied(v, tx[p].next - 1) = ObjectsOf(v)
    BY <2>2, <1>3, AppliedGrows
  <2> QED
    BY <2>1, <2>3, <1>4 DEF Drafted
<1>6. db' \in Databases /\ db'.versions = db.versions \cup {v} /\ db'.objects = db.objects \cup ObjectsOf(v)
  BY <1>1, <1>3, <1>5 DEF Databases
<1>7. v \notin db.versions
  BY <1>1, <1>5
<1> HIDE DEF v
<1>8. SchemaTypes'
  BY <1>1, <1>2, <1>3, <1>6 DEF SchemaTypes
<1>9. TxSound'
  BY <1>1, <1>2 DEF TxSound
<1>10. LockSound'
  BY <1>1, PluginAssumption DEF LockSound, PluginAssumption
<1>11. SeenSound'
  BY <1>1, <1>6 DEF SeenSound, SchemaTypes
<1>12. PhaseSound'
  <2>1. db.versions \subseteq db'.versions /\ db'.versions \subseteq Versions
    BY <1>6 DEF Databases
  <2> QED
    BY <2>1, <1>1 DEF PhaseSound, config
<1>13. SchemaMatchesVersions'
  <2> SUFFICES ASSUME NEW w \in Versions
               PROVE  /\ w \in db'.versions <=> ObjectsOf(w) \subseteq db'.objects
                      /\ w \notin db'.versions => ObjectsOf(w) \cap db'.objects = {}
    BY DEF SchemaMatchesVersions
  <2>1. /\ w \in db.versions <=> ObjectsOf(w) \subseteq db.objects
        /\ w \notin db.versions => ObjectsOf(w) \cap db.objects = {}
    BY DEF SchemaMatchesVersions
  <2>2. CASE w = v
    BY <2>2, <1>6
  <2>3. CASE w # v
    <3>1. ObjectsOf(w) \cap ObjectsOf(v) = {} /\ ObjectsOf(w) # {}
      BY <2>3, <1>3, ObjectsAreOwn
    <3> QED
      BY <2>1, <2>3, <3>1, <1>6
  <2> QED
    BY <2>2, <2>3
<1> QED
  BY <1>8, <1>9, <1>10, <1>11, <1>12, <1>13

-----------------------------------------------------------------------------
(* The model directory.                                                     *)

Catalogue(providers) == UNION {{p} \X host.listed[p] : p \in providers}

\* A refresh is consistent with itself, whatever happened since it started.
WellFormed(r) ==
  /\ r \in Refreshes /\ r.gen \in 1..generation /\ r.todo \subseteq r.providers
  /\ r.asking # NoProvider => r.asking \in r.providers \ r.todo /\ r.scoped
  /\ ~r.scoped => r.unusable = {}
  /\ ~wired => ~r.scoped

\* The newest one has read what the host still holds, unless the host changed unheard.
Newest(r) ==
  r.gen = generation /\ ~missed =>
    /\ r.providers = DOMAIN host.listed
    /\ r.rows = Catalogue(r.providers \ r.todo)
    /\ wired => r.scoped = scoped
    /\ r.scoped => host.unready \cap ((r.providers \ r.todo) \ {r.asking}) \subseteq r.unusable

RunningSound ==
  /\ \A r \in running :
       /\ WellFormed(r) /\ Newest(r) /\ (r.todo # {} \/ r.asking # NoProvider)
       /\ r.gen = generation => published # generation
  /\ \A r, s \in running : r.gen = s.gen => r = s

PoliciesTyped(rows) == DOMAIN rows \subseteq Routes /\ \A r \in DOMAIN rows : rows[r] \in BOOLEAN

SnapshotTypes ==
  /\ host \in Hosts /\ scoped \in BOOLEAN /\ wired \in BOOLEAN /\ missed \in BOOLEAN
  /\ PoliciesTyped(policies)
  /\ DOMAIN directory \subseteq Routes
  /\ \A r \in DOMAIN directory : directory[r] \in [enabled : BOOLEAN, listed : BOOLEAN]
  /\ active \subseteq Providers /\ unavailable \subseteq Providers
  /\ generation \in Nat /\ published \in 0..generation

\* The newest refresh has published and the host has not changed unheard since.
SnapshotCurrent ==
  generation > 0 /\ published = generation /\ ~missed =>
    /\ active = DOMAIN host.listed
    /\ directory = Published(Catalogue(active), active)
    /\ wired => IF scoped THEN host.unready \cap active \subseteq unavailable ELSE unavailable = {}

DirectorySound ==
  /\ SnapshotTypes /\ RunningSound /\ DirectoryHasPolicies /\ SnapshotCurrent
  /\ ~wired => unavailable = {}

\* What is published is a directory of routes that shows the policies in force.
LEMMA PublishedShowsPolicies ==
  ASSUME PoliciesTyped(policies), NEW rows \in SUBSET Routes, NEW providers
  PROVE  LET d == Published(rows, providers)
         IN /\ DOMAIN d \subseteq Routes
            /\ \A r \in DOMAIN d : d[r] \in [enabled : BOOLEAN, listed : BOOLEAN]
            /\ \A r \in DOMAIN d : d[r].enabled = Enabled(r)
<1> DEFINE d == Published(rows, providers)
           m == Merged(rows, providers)
           f == FromPolicies(policies)
<1>1. \A r \in Routes : Enabled(r) \in BOOLEAN
  BY DEF Enabled
<1>2. /\ DOMAIN m \subseteq Routes
      /\ \A r \in DOMAIN m : m[r] = [enabled |-> Enabled(r), listed |-> r \in rows]
  BY DEF Merged, PoliciesTyped
<1>3. \A r \in DOMAIN m :
        m[r] \in [enabled : BOOLEAN, listed : BOOLEAN] /\ m[r].enabled = Enabled(r)
  <2> SUFFICES ASSUME NEW r \in DOMAIN m
               PROVE  m[r] \in [enabled : BOOLEAN, listed : BOOLEAN] /\ m[r].enabled = Enabled(r)
    OBVIOUS
  <2>1. m[r] = [enabled |-> Enabled(r), listed |-> r \in rows] /\ Enabled(r) \in BOOLEAN
    BY <1>1, <1>2
  <2>2. (r \in rows) \in BOOLEAN
    OBVIOUS
  <2>3. ASSUME NEW x, NEW a \in BOOLEAN, NEW l \in BOOLEAN, x = [enabled |-> a, listed |-> l]
        PROVE  x \in [enabled : BOOLEAN, listed : BOOLEAN] /\ x.enabled = a
    BY <2>3, SMT
  <2> HIDE DEF m
  <2> QED
    BY <2>1, <2>2, <2>3, Zenon
<1>4. \A r \in DOMAIN policies : Enabled(r) = policies[r]
  <2>1. \A r \in DOMAIN policies : policies[r] \in BOOLEAN
    BY DEF PoliciesTyped
  <2> QED
    BY <2>1, Zenon DEF Enabled
<1>5. /\ DOMAIN f \subseteq Routes
      /\ \A r \in DOMAIN f : f[r] \in [enabled : BOOLEAN, listed : BOOLEAN] /\ f[r].enabled = Enabled(r)
  <2>1. /\ DOMAIN f = DOMAIN policies
        /\ \A r \in DOMAIN policies : f[r] = [enabled |-> policies[r], listed |-> FALSE]
    BY DEF FromPolicies
  <2>2. ASSUME NEW x, NEW a \in BOOLEAN, x = [enabled |-> a, listed |-> FALSE]
        PROVE  x \in [enabled : BOOLEAN, listed : BOOLEAN] /\ x.enabled = a
    BY <2>2, SMT
  <2>3. \A r \in DOMAIN policies : policies[r] \in BOOLEAN
    BY DEF PoliciesTyped
  <2>4. DOMAIN policies \subseteq Routes
    BY DEF PoliciesTyped
  <2> HIDE DEF f
  <2> QED
    BY <2>1, <2>2, <2>3, <2>4, <1>4, Zenon
<1>6. d = f \/ d = m
  BY DEF Published
<1> HIDE DEF d, f, m
<1>7. /\ DOMAIN d \subseteq Routes
      /\ \A r \in DOMAIN d : d[r] \in [enabled : BOOLEAN, listed : BOOLEAN]
      /\ \A r \in DOMAIN d : d[r].enabled = Enabled(r)
  BY <1>2, <1>3, <1>5, <1>6, Zenon
<1> QED
  BY <1>7 DEF d

\* The host's catalogues are of routes, and none is of NoProvider.
LEMMA HostIsTyped ==
  ASSUME host \in Hosts
  PROVE  /\ DOMAIN host.listed \subseteq Providers /\ host.unready \subseteq Providers
         /\ NoProvider \notin Providers
         /\ \A p \in DOMAIN host.listed : host.listed[p] \subseteq Models
         /\ Catalogue(DOMAIN host.listed) \subseteq Routes
<1>1. /\ DOMAIN host.listed \subseteq Providers /\ host.unready \subseteq Providers
      /\ NoProvider \notin Providers
      /\ \A p \in DOMAIN host.listed : host.listed[p] \subseteq Models
  BY DirectoryAssumption DEF DirectoryAssumption
<1> QED
  BY <1>1 DEF Catalogue, Routes

\* A refresh whose last answer is in publishes what it has, if nothing newer started.
LEMMA PublishStep ==
  ASSUME DirectorySound, NEW old \in running, NEW r, r.gen = old.gen,
         Publish(r, running \ {old}), r.todo = {}, r.asking = NoProvider,
         UNCHANGED <<host, scoped, wired, policies, generation, missed>>,
         WellFormed(r), Newest(r)
  PROVE  DirectorySound'
<1> USE DEF DirectorySound
<1>1. running' = running \ {old}
  BY DEF Publish
<1>2. CASE r.gen = generation
  <2>1. /\ directory' = Published(r.rows, r.providers)
        /\ active' = r.providers /\ unavailable' = r.unusable /\ published' = generation
    BY <1>2 DEF Publish
  <2>2. r \in Refreshes /\ r.gen \in Nat
    BY DEF WellFormed
  <2>3. r.rows \in SUBSET Routes /\ r.providers \subseteq Providers /\ r.unusable \subseteq Providers
    BY <2>2 DEF Refreshes
  <2> DEFINE d == Published(r.rows, r.providers)
  <2>4. PoliciesTyped(policies)
    BY DEF SnapshotTypes
  <2>5. /\ DOMAIN d \subseteq Routes
        /\ \A q \in DOMAIN d : d[q] \in [enabled : BOOLEAN, listed : BOOLEAN]
        /\ \A q \in DOMAIN d : d[q].enabled = Enabled(q)
    BY <2>3, <2>4, PublishedShowsPolicies
  <2> HIDE DEF d
  <2>6. SnapshotTypes'
    BY <2>1, <2>3, <2>5 DEF SnapshotTypes, PoliciesTyped, d
  <2>7. DirectoryHasPolicies'
    <3>1. \A q : Enabled(q)' = Enabled(q)
      BY DEF Enabled
    <3>2. directory' = d
      BY <2>1 DEF d
    <3> QED
      BY <2>5, <3>1, <3>2 DEF DirectoryHasPolicies
  <2>8. SnapshotCurrent'
    <3> SUFFICES ASSUME ~missed
                 PROVE  /\ active' = DOMAIN host.listed
                        /\ directory' = Published(Catalogue(active'), active')
                        /\ wired => IF scoped THEN host.unready \cap active' \subseteq unavailable'
                                              ELSE unavailable' = {}
      BY DEF SnapshotCurrent, Published, Merged, FromPolicies, Enabled, Catalogue
    <3>1. /\ r.providers = DOMAIN host.listed /\ r.rows = Catalogue(r.providers \ r.todo)
          /\ wired => r.scoped = scoped
          /\ r.scoped => host.unready \cap ((r.providers \ r.todo) \ {r.asking}) \subseteq r.unusable
      BY <1>2 DEF Newest
    <3>2. r.rows = Catalogue(r.providers)
      BY <3>1
    <3>3. host.unready \cap ((r.providers \ r.todo) \ {r.asking}) = host.unready \cap r.providers
      BY <2>3, HostIsTyped DEF SnapshotTypes
    <3>4. wired => IF scoped THEN host.unready \cap r.providers \subseteq r.unusable
                             ELSE r.unusable = {}
      BY <3>1, <3>3 DEF WellFormed
    <3> QED
      BY <2>1, <3>1, <3>2, <3>4
  <2>9. ~wired => unavailable' = {}
    BY <2>1 DEF WellFormed
  <2>10. RunningSound'
    <3>1. \A s \in running \ {old} : s.gen # generation
      BY <1>2 DEF RunningSound
    <3>2. \A s \in running \ {old} :
            WellFormed(s) /\ Newest(s) /\ (s.todo # {} \/ s.asking # NoProvider)
      BY DEF RunningSound
    <3>3. \A s \in running \ {old} : (WellFormed(s) => WellFormed(s)') /\ (Newest(s) => Newest(s)')
      BY DEF WellFormed, Newest, Catalogue
    <3>4. \A s, t \in running \ {old} : s.gen = t.gen => s = t
      BY DEF RunningSound
    <3> QED
      BY <1>1, <3>1, <3>2, <3>3, <3>4 DEF RunningSound
  <2> QED
    BY <2>6, <2>7, <2>8, <2>9, <2>10
<1>3. CASE r.gen # generation
  <2>1. UNCHANGED <<directory, active, unavailable, published>>
    BY <1>3 DEF Publish
  <2>2. RunningSound'
    BY <1>1, <2>1 DEF RunningSound, WellFormed, Newest, Catalogue
  <2> QED
    BY <2>1, <2>2 DEF SnapshotTypes, PoliciesTyped, DirectoryHasPolicies, SnapshotCurrent,
                      Published, Merged, FromPolicies, Enabled, Catalogue
<1> QED
  BY <1>2, <1>3

\* A refresh that has more to ask goes on with what it has.
LEMMA AdvanceStep ==
  ASSUME DirectorySound, NEW old \in running, NEW r, r.gen = old.gen,
         Advance(r, running \ {old}),
         UNCHANGED <<host, scoped, wired, policies, generation, missed>>,
         WellFormed(r), Newest(r)
  PROVE  DirectorySound'
<1>1. CASE r.todo = {} /\ r.asking = NoProvider
  BY <1>1, PublishStep DEF Advance
<1>2. CASE ~(r.todo = {} /\ r.asking = NoProvider)
  <2>1. running' = (running \ {old}) \cup {r} /\ UNCHANGED <<directory, active, unavailable, published>>
    BY <1>2 DEF Advance
  <2>2. RunningSound'
    BY <1>2, <2>1 DEF DirectorySound, RunningSound, WellFormed, Newest, Catalogue
  <2> QED
    BY <2>1, <2>2 DEF DirectorySound, SnapshotTypes, PoliciesTyped, DirectoryHasPolicies,
                      SnapshotCurrent, Published, Merged, FromPolicies, Enabled, Catalogue
<1> QED
  BY <1>1, <1>2

\* A refresh that starts knows the host of now; without providers it ends at once.
LEMMA StartStep ==
  ASSUME DirectorySound, NEW s \in BOOLEAN, StartRefresh(s), host' \in Hosts, scoped' = s,
         wired' = TRUE, policies' = policies
  PROVE  DirectorySound'
<1> USE DEF DirectorySound
<1> PICK r : r = [gen |-> generation + 1, scoped |-> s, providers |-> DOMAIN host'.listed,
                  todo |-> DOMAIN host'.listed, asking |-> NoProvider, rows |-> {}, unusable |-> {}]
  OBVIOUS
<1>1. generation' = generation + 1 /\ missed' = FALSE /\ Advance(r, running)
  BY DEF StartRefresh
<1>2. /\ r.gen = generation' /\ r.scoped = s /\ r.providers = DOMAIN host'.listed
      /\ r.todo = r.providers /\ r.asking = NoProvider /\ r.rows = {} /\ r.unusable = {}
  BY <1>1
<1>3. generation \in Nat /\ published \in 0..generation
  BY DEF SnapshotTypes
<1>4. /\ DOMAIN host'.listed \subseteq Providers /\ host'.unready \subseteq Providers
      /\ NoProvider \notin Providers
  BY HostIsTyped, DirectoryAssumption DEF DirectoryAssumption
<1>5. r \in Refreshes
  BY <1>3, <1>4 DEF Refreshes
<1>6. Catalogue({}) = {} /\ Catalogue({})' = {}
  BY DEF Catalogue
<1>7. \A q \in running : q.gen # generation'
  BY <1>1, <1>3 DEF RunningSound, WellFormed
<1>8. \A q \in running : WellFormed(q)' /\ Newest(q)' /\ (q.todo # {} \/ q.asking # NoProvider)
  <2> SUFFICES ASSUME NEW q \in running
               PROVE  WellFormed(q)' /\ Newest(q)' /\ (q.todo # {} \/ q.asking # NoProvider)
    OBVIOUS
  <2>1. WellFormed(q) /\ (q.todo # {} \/ q.asking # NoProvider)
    BY DEF RunningSound
  <2>2. Newest(q)'
    BY <1>7 DEF Newest
  <2>3. 1..generation \subseteq 1..generation'
    BY <1>1, <1>3
  <2> QED
    BY <2>1, <2>2, <2>3 DEF WellFormed
<1>a. scoped' \in BOOLEAN /\ wired' \in BOOLEAN /\ missed' \in BOOLEAN
  BY <1>1, Zenon
<1>b. PoliciesTyped(policies)'
  BY DEF SnapshotTypes, PoliciesTyped
<1>9. CASE r.todo = {}
  <2>1. /\ running' = running /\ directory' = Published({}, {}) /\ active' = {} /\ unavailable' = {}
        /\ published' = generation' /\ DOMAIN host'.listed = {}
    BY <1>1, <1>2, <1>9 DEF Advance, Publish
  <2>2. PoliciesTyped(policies)
    BY DEF SnapshotTypes
  <2> DEFINE d == Published({}, {})
  <2>3. /\ DOMAIN d \subseteq Routes
        /\ \A q \in DOMAIN d : d[q] \in [enabled : BOOLEAN, listed : BOOLEAN]
        /\ \A q \in DOMAIN d : d[q].enabled = Enabled(q)
    BY <2>2, PublishedShowsPolicies
  <2> HIDE DEF d
  <2>4. SnapshotTypes'
    <3>1. generation' \in Nat /\ published' \in 0..generation'
      BY <2>1, <1>1, <1>3
    <3>2. directory' = d
      BY <2>1 DEF d
    <3>3. active' \subseteq Providers /\ unavailable' \subseteq Providers
      BY <2>1
    <3> QED
      BY <2>3, <3>1, <3>2, <3>3, <1>a, <1>b, Zenon DEF SnapshotTypes
  <2>5. DirectoryHasPolicies'
    BY <2>1, <2>3 DEF DirectoryHasPolicies, Enabled, d
  <2>6. SnapshotCurrent'
    <3>1. directory' = Published({}, {})'
      BY <2>1 DEF Published, Merged, FromPolicies, Enabled
    <3>2. (Published(Catalogue(active), active) = Published({}, {}))'
      BY <2>1, <1>6
    <3> QED
      BY <2>1, <3>1, <3>2 DEF SnapshotCurrent
  <2>7. RunningSound'
    BY <2>1, <1>7, <1>8 DEF RunningSound
  <2> QED
    BY <2>1, <2>4, <2>5, <2>6, <2>7
<1>10. CASE r.todo # {}
  <2>1. running' = running \cup {r} /\ UNCHANGED <<directory, active, unavailable, published>>
    BY <1>1, <1>2, <1>10 DEF Advance
  <2>2. WellFormed(r)' /\ Newest(r)'
    <3>1. r.gen \in 1..generation'
      BY <1>1, <1>2, <1>3
    <3>2. r.providers \ r.todo = {}
      BY <1>2
    <3>3. WellFormed(r)'
      BY <3>1, <1>2, <1>5 DEF WellFormed
    <3>4. Newest(r)'
      BY <3>2, <1>2, <1>6 DEF Newest
    <3> QED
      BY <3>3, <3>4
  <2>3. published' # generation'
    BY <2>1, <1>1, <1>3
  <2>4. RunningSound'
    <3>1. \A q \in running' : q \in running \/ q = r
      BY <2>1
    <3>2. \A q \in running' :
            /\ WellFormed(q)' /\ Newest(q)' /\ (q.todo # {} \/ q.asking # NoProvider)
            /\ q.gen = generation' => published' # generation'
      BY <3>1, <2>2, <2>3, <1>8, <1>10, Zenon
    <3>3. \A q, t \in running : q.gen = t.gen => q = t
      BY DEF RunningSound
    <3>4. \A q, t \in running' : q.gen = t.gen => q = t
      BY <3>1, <3>3, <1>2, <1>7, Zenon
    <3> QED
      BY <3>2, <3>4, Zenon DEF RunningSound
  <2>5. SnapshotTypes'
    <3>1. generation' \in Nat /\ published' \in 0..generation'
      BY <2>1, <1>1, <1>3
    <3> QED
      BY <2>1, <3>1, <1>a, <1>b DEF SnapshotTypes
  <2>6. DirectoryHasPolicies'
    BY <2>1 DEF DirectoryHasPolicies, Enabled
  <2>7. SnapshotCurrent'
    BY <2>3 DEF SnapshotCurrent
  <2> QED
    BY <2>4, <2>5, <2>6, <2>7
<1> QED
  BY <1>9, <1>10

\* The catalogue of the next provider is read; a scoped refresh then asks about it.
LEMMA ReadModelsStep ==
  ASSUME DirectorySound, NEW old \in running, ReadModels(old)
  PROVE  DirectorySound'
<1> DEFINE p == CHOOSE q \in old.todo : TRUE
           catalogue == IF p \in DOMAIN host.listed THEN host.listed[p] ELSE {}
<1> PICK r : r = [old EXCEPT !.todo = @ \ {p}, !.rows = @ \cup ({p} \X catalogue),
                             !.asking = IF old.scoped THEN p ELSE NoProvider]
  OBVIOUS
<1>1. /\ old.asking = NoProvider /\ Advance(r, running \ {old})
      /\ UNCHANGED <<host, scoped, wired, policies, generation, missed>>
  BY DEF ReadModels
<1>2. /\ WellFormed(old) /\ Newest(old) /\ old.todo # {}
  BY <1>1 DEF DirectorySound, RunningSound
<1>3. p \in old.todo
  BY <1>2
<1>4. old \in Refreshes /\ old.todo \subseteq old.providers /\ old.providers \subseteq Providers
  BY <1>2 DEF WellFormed, Refreshes
<1>5. /\ r.gen = old.gen /\ r.scoped = old.scoped /\ r.providers = old.providers
      /\ r.todo = old.todo \ {p} /\ r.rows = old.rows \cup ({p} \X catalogue)
      /\ r.asking = IF old.scoped THEN p ELSE NoProvider
      /\ r.unusable = old.unusable
      /\ r = [gen |-> r.gen, scoped |-> r.scoped, providers |-> r.providers, todo |-> r.todo,
              asking |-> r.asking, rows |-> r.rows, unusable |-> r.unusable]
  BY <1>4 DEF Refreshes
<1>6. {p} \X catalogue \subseteq Routes
  BY <1>3, <1>4, HostIsTyped DEF DirectorySound, SnapshotTypes, Routes
<1>7. r \in Refreshes
  BY <1>3, <1>4, <1>5, <1>6 DEF Refreshes
<1>8. WellFormed(r)
  <2>1. r.gen \in 1..generation /\ (~r.scoped => r.unusable = {}) /\ (~wired => ~r.scoped)
    BY <1>2, <1>5 DEF WellFormed
  <2>2. r.todo \subseteq r.providers
    BY <1>4, <1>5
  <2>3. r.asking # NoProvider => r.asking \in r.providers \ r.todo /\ r.scoped
    BY <1>3, <1>4, <1>5
  <2> QED
    BY <1>7, <2>1, <2>2, <2>3 DEF WellFormed
<1>9. Newest(r)
  <2> SUFFICES ASSUME r.gen = generation, ~missed
               PROVE  /\ r.providers = DOMAIN host.listed
                      /\ r.rows = Catalogue(r.providers \ r.todo)
                      /\ wired => r.scoped = scoped
                      /\ r.scoped => host.unready \cap ((r.providers \ r.todo) \ {r.asking}) \subseteq r.unusable
    BY DEF Newest
  <2>1. /\ old.providers = DOMAIN host.listed /\ old.rows = Catalogue(old.providers \ old.todo)
        /\ wired => old.scoped = scoped
        /\ old.scoped => host.unready \cap ((old.providers \ old.todo) \ {old.asking}) \subseteq old.unusable
    BY <1>2, <1>5 DEF Newest
  <2>2. catalogue = host.listed[p]
    BY <1>3, <1>4, <2>1
  <2> HIDE DEF p, catalogue
  <2>3. r.providers \ r.todo = (old.providers \ old.todo) \cup {p}
    BY <1>3, <1>4, <1>5
  <2>4. Catalogue((old.providers \ old.todo) \cup {p}) =
          Catalogue(old.providers \ old.todo) \cup ({p} \X host.listed[p])
    BY DEF Catalogue
  <2>5. r.rows = Catalogue(r.providers \ r.todo)
    BY <1>5, <2>1, <2>2, <2>3, <2>4
  <2>6. r.scoped => host.unready \cap ((r.providers \ r.todo) \ {r.asking}) \subseteq r.unusable
    <3>1. r.scoped => r.asking = p
      BY <1>5
    <3>2. old.asking \notin Providers
      BY <1>1, HostIsTyped DEF DirectorySound, SnapshotTypes
    <3> QED
      BY <3>1, <3>2, <2>1, <2>3, <1>4, <1>5
  <2> QED
    BY <2>1, <2>5, <2>6, <1>5
<1> QED
  BY <1>1, <1>5, <1>8, <1>9, AdvanceStep

LEMMA ReadModelsFailsStep ==
  ASSUME DirectorySound, NEW old \in running, ReadModelsFails(old)
  PROVE  DirectorySound'
<1>1. /\ running' = running \ {old}
      /\ UNCHANGED <<host, scoped, wired, policies, directory, active, unavailable, generation,
                     published, missed>>
  BY DEF ReadModelsFails
<1>2. RunningSound'
  BY <1>1 DEF DirectorySound, RunningSound, WellFormed, Newest, Catalogue
<1> QED
  BY <1>1, <1>2 DEF DirectorySound, SnapshotTypes, PoliciesTyped, DirectoryHasPolicies,
                    SnapshotCurrent, Published, Merged, FromPolicies, Enabled, Catalogue

\* The availability of the provider asked about is in; when in doubt it is unusable.
LEMMA ReadAvailabilityStep ==
  ASSUME DirectorySound, NEW old \in running, ReadAvailability(old)
  PROVE  DirectorySound'
<1>1. /\ old.asking # NoProvider
      /\ UNCHANGED <<host, scoped, wired, policies, generation, missed>>
  BY DEF ReadAvailability
<1> PICK fails \in BOOLEAN :
      LET unusable == fails \/ old.asking \in host.unready \/ ~scoped
      IN Advance([old EXCEPT !.asking = NoProvider,
                             !.unusable = IF unusable THEN @ \cup {old.asking} ELSE @],
                 running \ {old})
  BY DEF ReadAvailability
<1> DEFINE unusable == fails \/ old.asking \in host.unready \/ ~scoped
           found == IF unusable THEN old.unusable \cup {old.asking} ELSE old.unusable
<1> PICK r : r = [old EXCEPT !.asking = NoProvider,
                             !.unusable = IF unusable THEN @ \cup {old.asking} ELSE @]
  OBVIOUS
<1>2. Advance(r, running \ {old})
  OBVIOUS
<1>3. WellFormed(old) /\ Newest(old)
  BY DEF DirectorySound, RunningSound
<1>4. /\ old \in Refreshes /\ old.providers \subseteq Providers
      /\ old.asking \in old.providers \ old.todo /\ old.scoped
  BY <1>1, <1>3 DEF WellFormed, Refreshes
<1>5. r = [old EXCEPT !.asking = NoProvider, !.unusable = found]
  OBVIOUS
<1>6. found \subseteq Providers /\ old.unusable \subseteq found
      /\ (old.asking \in host.unready => old.asking \in found)
  BY <1>4 DEF Refreshes
<1> HIDE DEF found, unusable
<1>7. /\ r \in Refreshes /\ r.gen = old.gen /\ r.scoped = old.scoped /\ r.providers = old.providers
      /\ r.todo = old.todo /\ r.rows = old.rows /\ r.asking = NoProvider /\ r.unusable = found
  BY <1>4, <1>5, <1>6 DEF Refreshes
<1>8. WellFormed(r)
  BY <1>3, <1>4, <1>7 DEF WellFormed
<1>9. Newest(r)
  <2> SUFFICES ASSUME r.gen = generation, ~missed
               PROVE  /\ r.providers = DOMAIN host.listed
                      /\ r.rows = Catalogue(r.providers \ r.todo)
                      /\ wired => r.scoped = scoped
                      /\ r.scoped => host.unready \cap ((r.providers \ r.todo) \ {r.asking}) \subseteq r.unusable
    BY DEF Newest
  <2>1. /\ old.providers = DOMAIN host.listed /\ old.rows = Catalogue(old.providers \ old.todo)
        /\ wired => old.scoped = scoped
        /\ old.scoped => host.unready \cap ((old.providers \ old.todo) \ {old.asking}) \subseteq old.unusable
    BY <1>3, <1>7 DEF Newest
  <2>2. host.unready \cap ((r.providers \ r.todo) \ {r.asking}) \subseteq r.unusable
    BY <2>1, <1>4, <1>6, <1>7
  <2> QED
    BY <2>1, <2>2, <1>7
<1> QED
  BY <1>1, <1>2, <1>7, <1>8, <1>9, AdvanceStep

\* An edit changes the policy and its row; rows and policies stay those of a snapshot.
LEMMA UpdateModelStep ==
  ASSUME DirectorySound, NEW route \in Routes, NEW on \in BOOLEAN, UpdateModel(route, on)
  PROVE  DirectorySound'
<1> USE DEF DirectorySound
<1>1. /\ route \in DOMAIN directory
      /\ policies' = [r \in DOMAIN policies \cup {route} |-> IF r = route THEN on ELSE policies[r]]
      /\ directory' = [directory EXCEPT ![route].enabled = on]
      /\ UNCHANGED <<host, scoped, wired, active, unavailable, generation, running, published, missed>>
  BY DEF UpdateModel
<1>2. \A r \in DOMAIN directory : directory[r] \in [enabled : BOOLEAN, listed : BOOLEAN]
  BY DEF SnapshotTypes
<1>3. /\ DOMAIN directory' = DOMAIN directory
      /\ \A r \in DOMAIN directory : r # route => directory'[r] = directory[r]
      /\ directory'[route] = [directory[route] EXCEPT !.enabled = on]
  BY <1>1, Zenon
<1>4. directory'[route] = [enabled |-> on, listed |-> directory[route].listed]
      /\ directory'[route] \in [enabled : BOOLEAN, listed : BOOLEAN] /\ directory'[route].enabled = on
  <2>1. ASSUME NEW x \in [enabled : BOOLEAN, listed : BOOLEAN], NEW y, y = [x EXCEPT !.enabled = on]
        PROVE  /\ y = [enabled |-> on, listed |-> x.listed]
               /\ y \in [enabled : BOOLEAN, listed : BOOLEAN] /\ y.enabled = on
    BY <2>1, SMT
  <2> QED
    BY <2>1, <1>1, <1>2, <1>3, Zenon
<1>5. PoliciesTyped(policies)'
  <2>1. DOMAIN policies' = DOMAIN policies \cup {route}
    BY <1>1
  <2>2. \A r \in DOMAIN policies' : policies'[r] \in BOOLEAN
    BY <1>1, Zenon DEF SnapshotTypes, PoliciesTyped
  <2> QED
    BY <2>1, <2>2 DEF SnapshotTypes, PoliciesTyped
<1>6. SnapshotTypes'
  BY <1>1, <1>2, <1>3, <1>4, <1>5, Zenon DEF SnapshotTypes
<1>7. /\ Enabled(route)' = on
      /\ \A r : r # route => Enabled(r)' = Enabled(r)
  BY <1>1, Zenon DEF Enabled
<1>8. DirectoryHasPolicies'
  <2>1. \A r \in DOMAIN directory : directory[r].enabled = Enabled(r)
    BY DEF DirectoryHasPolicies
  <2>2. \A r \in DOMAIN directory : directory'[r].enabled = Enabled(r)'
    <3> SUFFICES ASSUME NEW r \in DOMAIN directory PROVE directory'[r].enabled = Enabled(r)'
      OBVIOUS
    <3>1. CASE r = route
      BY <3>1, <1>4, <1>7, Zenon
    <3>2. CASE r # route
      BY <3>2, <2>1, <1>3, <1>7, Zenon
    <3> QED
      BY <3>1, <3>2
  <2> QED
    BY <2>2, <1>3, Zenon DEF DirectoryHasPolicies
<1>9. RunningSound'
  BY <1>1 DEF RunningSound, WellFormed, Newest, Catalogue
<1>10. SnapshotCurrent'
  <2> SUFFICES ASSUME generation > 0, published = generation, ~missed
               PROVE  directory' = Published(Catalogue(active), active)'
    BY <1>1 DEF SnapshotCurrent
  <2>1. /\ active = DOMAIN host.listed
        /\ directory = Published(Catalogue(active), active)
    BY DEF SnapshotCurrent
  <2> DEFINE rows == Catalogue(active)
             kept == {q \in DOMAIN policies : q[1] \in active}
  <2>2. \A q \in rows : q[1] \in active
    BY DEF Catalogue
  <2>3. rows' = rows
    BY <1>1 DEF Catalogue
  <2>4. DOMAIN policies' = DOMAIN policies \cup {route}
    BY <1>1
  <2>5. CASE rows \cup kept = {}
    <3>1. directory = FromPolicies(policies) /\ DOMAIN directory = DOMAIN policies
      BY <2>1, <2>5 DEF Published, Merged, FromPolicies
    <3>2. DOMAIN policies' = DOMAIN policies
      BY <3>1, <2>4, <1>1
    <3>3. rows' \cup kept' = {}
      BY <3>2, <2>3, <2>5, <1>1
    <3>4. Published(rows, active)' = FromPolicies(policies)'
      BY <3>3 DEF Published, Merged
    <3>5. directory' = FromPolicies(policies)'
      <4>1. \A r \in DOMAIN policies : r # route => directory'[r] = [enabled |-> policies'[r], listed |-> FALSE]
        BY <3>1, <1>1, <1>3 DEF FromPolicies
      <4>2. directory[route].listed = FALSE /\ policies'[route] = on
        BY <3>1, <1>1 DEF FromPolicies
      <4>3. directory'[route] = [enabled |-> policies'[route], listed |-> FALSE]
        BY <4>2, <1>4
      <4>4. \A r \in DOMAIN policies : directory'[r] = [enabled |-> policies'[r], listed |-> FALSE]
        BY <4>1, <4>3
      <4>5. directory' = [r \in DOMAIN directory' |-> directory'[r]]
        BY <1>1
      <4> QED
        BY <4>4, <4>5, <3>1, <3>2, <1>3 DEF FromPolicies
    <3> QED
      BY <3>4, <3>5
  <2>6. CASE rows \cup kept # {}
    <3>1. directory = Merged(rows, active) /\ DOMAIN directory = rows \cup kept
      BY <2>1, <2>6 DEF Published, Merged
    <3>2. rows' \cup kept' = rows \cup kept
      <4>1. route[1] \in active
        BY <3>1, <2>2, <1>1
      <4>2. kept' = kept \cup {route}
        BY <4>1, <2>4, <1>1
      <4> QED
        BY <4>2, <2>3, <3>1, <1>1
    <3>3. Published(rows, active)' = Merged(rows, active)'
      BY <3>2, <2>6 DEF Published, Merged
    <3>4. \A r \in rows \cup kept : directory'[r] = [enabled |-> Enabled(r)', listed |-> r \in rows]
      <4>1. \A r \in rows \cup kept : directory[r] = [enabled |-> Enabled(r), listed |-> r \in rows]
        BY <3>1 DEF Merged
      <4>2. route \in rows \cup kept
        BY <3>1, <1>1
      <4>3. directory[route].listed = (route \in rows)
        <5>1. ASSUME NEW x, NEW a, NEW l \in BOOLEAN, x = [enabled |-> a, listed |-> l]
              PROVE  x.listed = l
          BY <5>1, SMT
        <5>2. (route \in rows) \in BOOLEAN
          OBVIOUS
        <5>3. directory[route] = [enabled |-> Enabled(route), listed |-> route \in rows]
          BY <4>1, <4>2, Zenon
        <5> QED
          BY <5>1, <5>2, <5>3, Zenon
      <4>4. directory'[route] = [enabled |-> Enabled(route)', listed |-> route \in rows]
        BY <4>3, <1>4, <1>7
      <4>5. \A r \in rows \cup kept : r # route =>
              directory'[r] = [enabled |-> Enabled(r)', listed |-> r \in rows]
        BY <4>1, <1>3, <1>7, <3>1
      <4> QED
        BY <4>4, <4>5
    <3>5. directory' = [r \in DOMAIN directory' |-> directory'[r]]
      BY <1>1
    <3>6. directory' = Merged(rows, active)'
      BY <3>1, <3>2, <3>4, <3>5, <2>3, <1>3 DEF Merged
    <3> QED
      BY <3>3, <3>6
  <2> QED
    BY <2>5, <2>6
<1> QED
  BY <1>1, <1>6, <1>8, <1>9, <1>10

-----------------------------------------------------------------------------
(* The whole plugin.                                                        *)

Living == {"refreshing", "wired", "up"}

\* The directory is used between Build and Stop.
LifeSound ==
  /\ phase[Main] \notin {"wired", "up"} => ~wired
  /\ phase[Main] \notin Living => running = {}
  /\ phase[Main] \in Living => generation > 0

RestSound ==
  /\ file \in DOMAIN RawConfigs /\ PoliciesTyped(stored)
  /\ changes \in 0..MaxChanges /\ edits \in 0..MaxEdits /\ stops \in 0..MaxStops

PluginSound == SchemaSound /\ DirectorySound /\ LifeSound /\ RestSound

\* A step that leaves the directory alone leaves it sound.
LEMMA DirectoryUntouched ==
  ASSUME DirectorySound, UNCHANGED directoryVars
  PROVE  DirectorySound'
BY DEF DirectorySound, directoryVars, SnapshotTypes, PoliciesTyped, DirectoryHasPolicies,
       SnapshotCurrent, Published, Merged, FromPolicies, Enabled, Catalogue, RunningSound,
       WellFormed, Newest

LEMMA SchemaUntouched ==
  ASSUME SchemaSound, UNCHANGED schemaVars
  PROVE  SchemaSound'
BY DEF SchemaSound, schemaVars, SchemaTypes, TxSound, Drafted, LockSound, SeenSound, PhaseSound,
       config, SchemaMatchesVersions

LEMMA InitSound ==
  ASSUME Init
  PROVE  PluginSound
<1>1. SchemaSound
  BY InitSchema
<1>2. DirectorySound
  <2>1. SnapshotTypes
    <3>1. /\ PoliciesTyped(NoRoutes) /\ DOMAIN NoRoutes = {}
      BY DEF PoliciesTyped, NoRoutes
    <3>2. wired \in BOOLEAN /\ missed \in BOOLEAN
      BY Zenon DEF Init
    <3> QED
      BY <3>1, <3>2 DEF Init, SnapshotTypes
  <2>2. DirectoryHasPolicies
    BY DEF Init, DirectoryHasPolicies, NoRoutes
  <2> QED
    BY <2>1, <2>2 DEF Init, DirectorySound, RunningSound, SnapshotCurrent
<1>3. LifeSound
  BY PluginAssumption DEF Init, LifeSound, Living, Hosting
<1>4. RestSound
  BY PluginAssumption DEF Init, RestSound, PoliciesTyped, NoRoutes, PluginAssumption
<1> QED
  BY <1>1, <1>2, <1>3, <1>4 DEF PluginSound

LEMMA ConfiguredAreTyped ==
  ASSUME file \in AcceptedFiles
  PROVE  PoliciesTyped(ConfiguredPolicies)
<1> DEFINE models == Sub(RawConfigs[file], "models").of
<1>1. Accepted(RawConfigs[file]) /\ config = RuntimeConfig(RawConfigs[file])
  BY DEF AcceptedFiles, config, Configs
<1>2. config.models = [r \in DOMAIN models |-> RuntimeModel(models[r])]
  BY <1>1 DEF RuntimeConfig
<1>3. \A r \in DOMAIN models : RuntimeModel(models[r]).enabled \in BOOLEAN
  BY <1>1, ModelEnabled DEF Accepted, ModelsAccepted
<1>4. DOMAIN config.models \subseteq Routes
  BY PluginAssumption DEF PluginAssumption, config
<1> HIDE DEF models
<1>5. \A r \in DOMAIN config.models : ConfiguredPolicies[r] \in BOOLEAN
  BY <1>2, <1>3, Zenon DEF ConfiguredPolicies
<1> QED
  BY <1>4, <1>5 DEF PoliciesTyped, ConfiguredPolicies

\* The steps before there is a service.
LEMMA LoadingStep ==
  ASSUME PluginSound, NEW p \in Hosting,
         Load(p) \/ Open(p) \/ Begin(p) \/ Statement(p) \/ Commit(p) \/ MigrationFails(p)
         \/ Migrated(p) \/ BuildFails(p)
  PROVE  PluginSound'
<1> USE DEF PluginSound
<1>1. UNCHANGED <<directoryVars, file, stored, changes, edits, stops>>
  BY DEF Load, Open, Begin, Statement, Commit, MigrationFails, Migrated, BuildFails
<1>2. phase[p] # "migrating" => tx[p] = NoTx
  BY DEF SchemaSound, TxSound
<1>3. /\ "failed" \in Phases /\ "opening" \in Phases /\ "migrating" \in Phases /\ "building" \in Phases
  BY DEF Phases
<1>4. /\ phase[p] \notin {"down", "failed"} => file \in AcceptedFiles
      /\ phase[p] \in {"opening", "migrating"} => config.storage
  BY DEF SchemaSound, PhaseSound
<1>5. phase[p] \notin Living
      /\ ((UNCHANGED phase) \/ \E to \in {"failed", "opening", "migrating", "building"} : Goes(p, to))
  BY DEF Load, Open, Begin, Statement, Commit, MigrationFails, Migrated, BuildFails, Living,
         SchemaSound, TxSound
<1>6. SchemaSound'
  <2>1. CASE Load(p)
    <3>1. CASE file \notin AcceptedFiles
      BY <2>1, <3>1, <1>2, <1>3, PhaseStep DEF Load, Built
    <3>2. CASE file \in AcceptedFiles /\ config.storage
      BY <2>1, <3>2, <1>2, <1>3, PhaseStep DEF Load, Built
    <3>3. CASE file \in AcceptedFiles /\ ~config.storage
      BY <2>1, <3>3, <1>2, <1>3, PhaseStep DEF Load, Built
    <3> QED
      BY <3>1, <3>2, <3>3
  <2>2. CASE Open(p)
    BY <2>2, <1>2, <1>3, <1>4, PhaseStep DEF Open, Built
  <2>3. CASE Begin(p)
    BY <2>3, BeginStep
  <2>4. CASE Statement(p)
    BY <2>4, StatementStep
  <2>5. CASE Commit(p)
    BY <2>5, CommitStep
  <2>6. CASE MigrationFails(p)
    BY <2>6, AbortStep DEF MigrationFails
  <2>7. CASE Migrated(p)
    <3>1. db.versions = Versions
      BY <2>7 DEF Migrated, Pending, SchemaSound, SeenSound, SchemaTypes, Databases
    <3> QED
      BY <2>7, <3>1, <1>3, <1>4, PhaseStep DEF Migrated, Built
  <2>8. CASE BuildFails(p)
    BY <2>8, <1>2, <1>3, PhaseStep DEF BuildFails, Built
  <2> QED
    BY <2>1, <2>2, <2>3, <2>4, <2>5, <2>6, <2>7, <2>8
<1>7. DirectorySound'
  BY <1>1, DirectoryUntouched
<1>8. LifeSound'
  <2>1. UNCHANGED <<wired, running, generation>>
    BY <1>1 DEF directoryVars
  <2>2. phase \in [Hosting -> Phases]
    BY DEF SchemaSound, SchemaTypes
  <2> QED
    BY <1>5, <2>1, <2>2 DEF LifeSound, Living, Goes, Hosting
<1>9. RestSound'
  BY <1>1 DEF RestSound, PoliciesTyped
<1> QED
  BY <1>6, <1>7, <1>8, <1>9

\* The service's first directory: the policies, until the host has answered.
LEMMA FirstRefresh ==
  ASSUME DirectorySound, ~wired, NEW rows, PoliciesTyped(rows), policies' = rows,
         generation' = 1, directory' = FromPolicies(rows), unavailable' = {}, missed' = FALSE,
         UNCHANGED <<host, scoped, wired>>,
         NEW r, r = [gen |-> 1, scoped |-> FALSE, providers |-> DOMAIN host.listed,
                     todo |-> DOMAIN host.listed, asking |-> NoProvider, rows |-> {},
                     unusable |-> {}],
         running' = IF r.todo = {} THEN {} ELSE {r},
         published' = IF r.todo = {} THEN 1 ELSE 0,
         active' = IF r.todo = {} THEN {} ELSE {q[1] : q \in DOMAIN rows}
  PROVE  DirectorySound'
<1>1. /\ host \in Hosts /\ DOMAIN host.listed \subseteq Providers
  BY HostIsTyped DEF DirectorySound, SnapshotTypes
<1>2. /\ r.gen = 1 /\ r.scoped = FALSE /\ r.providers = DOMAIN host.listed
      /\ r.todo = r.providers /\ r.asking = NoProvider /\ r.rows = {} /\ r.unusable = {}
      /\ r \in Refreshes
  BY <1>1 DEF Refreshes
<1>3. /\ DOMAIN directory' = DOMAIN rows
      /\ \A q \in DOMAIN rows : directory'[q] = [enabled |-> rows[q], listed |-> FALSE]
  BY DEF FromPolicies
<1>4. \A q \in DOMAIN rows : rows[q] \in BOOLEAN
  BY DEF PoliciesTyped
<1>5. \A q \in DOMAIN rows : /\ directory'[q] \in [enabled : BOOLEAN, listed : BOOLEAN]
                             /\ directory'[q].enabled = rows[q]
  <2>1. ASSUME NEW x, NEW a \in BOOLEAN, x = [enabled |-> a, listed |-> FALSE]
        PROVE  x \in [enabled : BOOLEAN, listed : BOOLEAN] /\ x.enabled = a
    BY <2>1, SMT
  <2> QED
    BY <2>1, <1>3, <1>4, Zenon
<1>6. SnapshotTypes'
  <2>1. scoped' \in BOOLEAN /\ wired' \in BOOLEAN /\ missed' \in BOOLEAN
    BY Zenon DEF DirectorySound, SnapshotTypes
  <2>2. generation' \in Nat /\ published' \in 0..generation'
    OBVIOUS
  <2>3. active' \subseteq Providers
    BY DEF PoliciesTyped, Routes
  <2>4. DOMAIN rows \subseteq Routes /\ PoliciesTyped(policies)'
    BY DEF PoliciesTyped
  <2> QED
    BY <2>1, <2>2, <2>3, <2>4, <1>1, <1>3, <1>5 DEF SnapshotTypes
<1>7. DirectoryHasPolicies'
  <2>1. \A q \in DOMAIN rows : Enabled(q)' = rows[q]
    BY <1>4, Zenon DEF Enabled
  <2> QED
    BY <2>1, <1>3, <1>5, Zenon DEF DirectoryHasPolicies
<1>8. SnapshotCurrent'
  <2> SUFFICES ASSUME r.todo = {}
               PROVE  active' = DOMAIN host.listed /\ directory' = Published(Catalogue(active), active)'
    BY DEF SnapshotCurrent, DirectorySound
  <2>1. active' = {} /\ DOMAIN host.listed = {} /\ (Catalogue({}) = {})'
    BY <1>2 DEF Catalogue
  <2>2. (DOMAIN Merged({}, {}) = {})'
    BY DEF Merged
  <2>3. (Published({}, {}) = FromPolicies(policies))'
    BY <2>2 DEF Published
  <2>4. directory' = FromPolicies(policies)'
    BY DEF FromPolicies
  <2> QED
    BY <2>1, <2>3, <2>4
<1>9. RunningSound'
  <2>1. WellFormed(r)' /\ Newest(r)'
    <3>1. WellFormed(r)'
      BY <1>2 DEF WellFormed
    <3>2. r.providers \ r.todo = {} /\ Catalogue({})' = {}
      BY <1>2 DEF Catalogue
    <3>3. Newest(r)'
      BY <3>2, <1>2 DEF Newest
    <3> QED
      BY <3>1, <3>3
  <2>2. \A q \in running' : q = r /\ r.todo # {}
    OBVIOUS
  <2>3. r.todo # {} => published' # generation'
    OBVIOUS
  <2> QED
    BY <2>1, <2>2, <2>3, Zenon DEF RunningSound
<1> QED
  BY <1>6, <1>7, <1>8, <1>9 DEF DirectorySound

LEMMA BuildStep ==
  ASSUME PluginSound, NEW p \in Hosting, Build(p)
  PROVE  PluginSound'
<1> USE DEF PluginSound
<1> DEFINE rows == IF config.storage /\ DOMAIN stored' # {} THEN stored' ELSE ConfiguredPolicies
           to == IF p = Main THEN "refreshing" ELSE "up"
<1>1. /\ phase[p] = "building" /\ Goes(p, to)
      /\ stored' \in {stored, ConfiguredPolicies}
      /\ UNCHANGED <<file, seen, tx, lock, db, changes, edits, stops>>
  BY Zenon DEF Build
<1>2. file \in AcceptedFiles /\ (config.storage => db.versions = Versions)
  BY <1>1 DEF SchemaSound, PhaseSound, Built
<1>3. PoliciesTyped(stored)' /\ PoliciesTyped(rows)
  <2>1. PoliciesTyped(stored) /\ PoliciesTyped(ConfiguredPolicies)
    BY <1>2, ConfiguredAreTyped DEF RestSound
  <2>2. PoliciesTyped(stored)'
    BY <2>1, <1>1 DEF PoliciesTyped
  <2>3. rows \in {stored, ConfiguredPolicies}
    BY <1>1, Zenon
  <2> QED
    BY <2>1, <2>2, <2>3
<1>4. SchemaSound'
  <2>1. to \in Phases /\ to \in Built /\ to \notin {"down", "failed", "opening", "migrating"}
    BY DEF Phases, Built
  <2>2. tx[p] = NoTx
    BY <1>1 DEF SchemaSound, TxSound
  <2> HIDE DEF to
  <2> QED
    BY <2>1, <2>2, <1>1, <1>2, PhaseStep
<1>5. RestSound'
  BY <1>1, <1>3 DEF RestSound
<1>6. phase \in [Hosting -> Phases] /\ Main \in Hosting
  BY DEF SchemaSound, SchemaTypes, Hosting
<1>7. CASE p = Main
  <2>1. ~wired /\ running = {}
    BY <1>1, <1>7 DEF LifeSound, Living
  <2> DEFINE r == [gen |-> 1, scoped |-> FALSE, providers |-> DOMAIN host.listed,
                   todo |-> DOMAIN host.listed, asking |-> NoProvider, rows |-> {},
                   unusable |-> {}]
  <2>2. /\ policies' = rows /\ generation' = 1
        /\ running' = IF r.todo = {} THEN {} ELSE {r}
        /\ published' = IF r.todo = {} THEN 1 ELSE 0
        /\ active' = IF r.todo = {} THEN {} ELSE {q[1] : q \in DOMAIN rows}
        /\ directory' = FromPolicies(rows) /\ unavailable' = {} /\ missed' = FALSE
        /\ UNCHANGED <<host, scoped, wired>>
    BY <1>7, Zenon DEF Build
  <2> PICK e : e = r
    OBVIOUS
  <2> PICK kept : kept = rows
    OBVIOUS
  <2> HIDE DEF r, rows
  <2>3. PoliciesTyped(kept)
    BY <1>3
  <2>4. DirectorySound'
    BY <2>1, <2>2, <2>3, FirstRefresh DEF r
  <2>5. LifeSound'
    BY <2>2, <1>1, <1>6, <1>7 DEF LifeSound, Living, Goes
  <2> QED
    BY <2>4, <2>5, <1>4, <1>5
<1>8. CASE p # Main
  <2>1. UNCHANGED directoryVars
    BY <1>8 DEF Build
  <2>2. DirectorySound'
    BY <2>1, DirectoryUntouched
  <2>3. LifeSound'
    BY <2>1, <1>1, <1>6, <1>8 DEF LifeSound, Goes, directoryVars
  <2> QED
    BY <2>2, <2>3, <1>4, <1>5
<1> QED
  BY <1>7, <1>8

\* The host moves while the service lives; the events are heard once they are wired.
LEMMA HostMovesStep ==
  ASSUME PluginSound, HostMoves
  PROVE  PluginSound'
<1> USE DEF PluginSound
<1>1. /\ phase[Main] \in Living /\ changes < MaxChanges /\ changes' = changes + 1
      /\ UNCHANGED <<file, phase, seen, tx, lock, db, stored, edits, stops>>
  BY DEF HostMoves, Living
<1>2. generation > 0
  BY <1>1 DEF LifeSound
<1>3. DirectorySound' /\ generation' > 0
  <2>1. scoped \in BOOLEAN /\ (~scoped) \in BOOLEAN /\ host \in Hosts /\ wired \in BOOLEAN
        /\ generation \in Nat
    BY Zenon DEF DirectorySound, SnapshotTypes
  <2>2. ASSUME NEW new \in Hosts, HostChanges(new)
        PROVE  DirectorySound' /\ generation' > 0
    <3>1. host' = new /\ UNCHANGED <<scoped, wired, policies>>
      BY <2>2 DEF HostChanges
    <3>2. CASE wired
      <4>1. StartRefresh(scoped)
        BY <2>2, <3>2 DEF HostChanges
      <4>2. wired' = TRUE
        BY <2>1, <3>1, <3>2
      <4>3. PICK s \in BOOLEAN : s = scoped
        BY <2>1
      <4>4. StartRefresh(s) /\ scoped' = s /\ host' \in Hosts /\ policies' = policies
        BY <4>1, <4>3, <2>1, <3>1, Zenon
      <4>5. DirectorySound'
        BY <4>2, <4>4, StartStep, Zenon
      <4>6. generation' = generation + 1
        BY <4>1 DEF StartRefresh
      <4> QED
        BY <4>5, <4>6, <2>1, <1>2
    <3>3. CASE ~wired
      <4>1. missed' = TRUE /\ UNCHANGED <<directory, active, unavailable, generation, running, published>>
        BY <2>2, <3>3 DEF HostChanges
      <4>2. missed' \in BOOLEAN
        BY <4>1, Zenon
      <4>3. RunningSound'
        BY <3>1, <4>1 DEF DirectorySound, RunningSound, WellFormed, Newest
      <4>4. SnapshotTypes'
        BY <3>1, <4>1, <4>2 DEF DirectorySound, SnapshotTypes, PoliciesTyped
      <4>5. DirectoryHasPolicies' /\ SnapshotCurrent'
        BY <3>1, <4>1 DEF DirectorySound, DirectoryHasPolicies, SnapshotCurrent, Enabled
      <4> QED
        BY <4>1, <4>3, <4>4, <4>5, <3>1, <1>2 DEF DirectorySound
    <3> QED
      BY <3>2, <3>3
  <2>3. ASSUME ScopeChanges
        PROVE  DirectorySound' /\ generation' > 0
    <3>1. scoped' = ~scoped /\ UNCHANGED <<host, wired, policies>>
      BY <2>3 DEF ScopeChanges
    <3>2. CASE wired
      <4>1. StartRefresh(~scoped)
        BY <2>3, <3>2 DEF ScopeChanges
      <4>2. wired' = TRUE
        BY <2>1, <3>1, <3>2
      <4>3. PICK s \in BOOLEAN : s = (~scoped)
        BY <2>1
      <4>4. StartRefresh(s) /\ scoped' = s /\ host' \in Hosts /\ policies' = policies
        BY <4>1, <4>3, <2>1, <3>1, Zenon
      <4>5. DirectorySound'
        BY <4>2, <4>4, StartStep, Zenon
      <4>6. generation' = generation + 1
        BY <4>1 DEF StartRefresh
      <4> QED
        BY <4>5, <4>6, <2>1, <1>2
    <3>3. CASE ~wired
      <4>1. UNCHANGED <<directory, active, unavailable, generation, running, published, missed>>
        BY <2>3, <3>3 DEF ScopeChanges
      <4>2. scoped' \in BOOLEAN
        BY <3>1, Zenon
      <4>3. RunningSound'
        BY <3>1, <3>3, <4>1 DEF DirectorySound, RunningSound, WellFormed, Newest, Catalogue
      <4>4. SnapshotTypes'
        BY <3>1, <4>1, <4>2 DEF DirectorySound, SnapshotTypes, PoliciesTyped
      <4>5. DirectoryHasPolicies'
        BY <3>1, <4>1 DEF DirectorySound, DirectoryHasPolicies, Enabled
      <4>6. SnapshotCurrent'
        BY <3>1, <3>3, <4>1 DEF DirectorySound, SnapshotCurrent, Published, Merged, FromPolicies,
                               Enabled, Catalogue
      <4> QED
        BY <4>1, <4>3, <4>4, <4>5, <4>6, <3>1, <1>2 DEF DirectorySound
    <3> QED
      BY <3>2, <3>3
  <2> QED
    BY <2>2, <2>3 DEF HostMoves
<1>4. SchemaSound'
  BY <1>1, SchemaUntouched DEF schemaVars
<1>5. LifeSound'
  <2>1. wired' = wired
    BY DEF HostMoves, HostChanges, ScopeChanges
  <2> QED
    BY <2>1, <1>1, <1>3 DEF LifeSound
<1>6. RestSound'
  BY <1>1, PluginAssumption DEF RestSound, PoliciesTyped, PluginAssumption
<1> QED
  BY <1>3, <1>4, <1>5, <1>6

\* The first reconciliation starts with the events, when the services are there.
LEMMA WireStep ==
  ASSUME PluginSound, Wire
  PROVE  PluginSound'
<1> USE DEF PluginSound
<1>1. /\ phase[Main] = "refreshing" /\ running = {} /\ WireEvents /\ Goes(Main, "wired")
      /\ UNCHANGED <<file, seen, tx, lock, db, stored, changes, edits, stops>>
  BY DEF Wire
<1>2. generation > 0 /\ Main \in Hosting /\ phase \in [Hosting -> Phases]
  BY <1>1 DEF LifeSound, Living, Hosting, SchemaSound, SchemaTypes
<1>3. SchemaSound'
  <2>1. "wired" \in Phases /\ tx[Main] = NoTx /\ file \in AcceptedFiles
        /\ (config.storage => db.versions = Versions)
    BY <1>1, <1>2 DEF Phases, SchemaSound, TxSound, PhaseSound, Built
  <2> QED
    BY <2>1, <1>1, <1>2, PhaseStep
<1>4. DirectorySound' /\ generation' > 0
  <2>1. wired' = TRUE /\ UNCHANGED <<host, scoped, policies>> /\ host \in Hosts /\ scoped \in BOOLEAN
        /\ wired' \in BOOLEAN /\ generation \in Nat
    BY <1>1, Zenon DEF WireEvents, DirectorySound, SnapshotTypes
  <2>2. CASE scoped
    <3>1. StartRefresh(TRUE) /\ scoped' = TRUE
      BY <1>1, <2>1, <2>2 DEF WireEvents
    <3>2. DirectorySound'
      BY <3>1, <2>1, StartStep, Zenon
    <3>3. generation' = generation + 1
      BY <3>1 DEF StartRefresh
    <3> QED
      BY <3>2, <3>3, <2>1, <1>2
  <2>3. CASE ~scoped
    <3>1. UNCHANGED <<directory, active, unavailable, generation, running, published, missed>>
      BY <1>1, <2>3 DEF WireEvents
    <3>2. RunningSound'
      BY <1>1, <3>1 DEF RunningSound
    <3>3. SnapshotTypes'
      BY <2>1, <3>1 DEF DirectorySound, SnapshotTypes, PoliciesTyped
    <3>4. DirectoryHasPolicies'
      BY <2>1, <3>1 DEF DirectorySound, DirectoryHasPolicies, Enabled
    <3>5. ~wired
      BY <1>1 DEF LifeSound
    <3>6. SnapshotCurrent'
      BY <2>1, <2>3, <3>1, <3>5 DEF DirectorySound, SnapshotCurrent, Published, Merged, FromPolicies,
                                    Enabled, Catalogue
    <3> QED
      BY <2>1, <3>1, <3>2, <3>3, <3>4, <3>6, <1>2 DEF DirectorySound
  <2> QED
    BY <2>2, <2>3
<1>5. LifeSound'
  BY <1>1, <1>2, <1>4 DEF LifeSound, Living, Goes
<1>6. RestSound'
  BY <1>1 DEF RestSound, PoliciesTyped
<1> QED
  BY <1>3, <1>4, <1>5, <1>6

LEMMA MountStep ==
  ASSUME PluginSound, Mount
  PROVE  PluginSound'
<1> USE DEF PluginSound
<1>1. /\ phase[Main] = "wired" /\ Goes(Main, "up")
      /\ UNCHANGED <<directoryVars, file, seen, tx, lock, db, stored, changes, edits, stops>>
  BY DEF Mount
<1>2. Main \in Hosting /\ phase \in [Hosting -> Phases]
  BY DEF Hosting, SchemaSound, SchemaTypes
<1>3. SchemaSound'
  <2>1. "up" \in Phases /\ tx[Main] = NoTx /\ file \in AcceptedFiles
        /\ (config.storage => db.versions = Versions)
    BY <1>1, <1>2 DEF Phases, SchemaSound, TxSound, PhaseSound, Built
  <2> QED
    BY <2>1, <1>1, <1>2, PhaseStep
<1>4. DirectorySound'
  BY <1>1, DirectoryUntouched
<1>5. LifeSound'
  BY <1>1, <1>2 DEF LifeSound, Living, Goes, directoryVars
<1>6. RestSound'
  BY <1>1 DEF RestSound, PoliciesTyped
<1> QED
  BY <1>3, <1>4, <1>5, <1>6

LEMMA RefreshStep ==
  ASSUME PluginSound, Refresh
  PROVE  PluginSound'
<1> USE DEF PluginSound
<1>1. UNCHANGED pluginVars
  BY DEF Refresh
<1>2. PICK r \in running : ReadModels(r) \/ ReadModelsFails(r) \/ ReadAvailability(r)
  BY DEF Refresh
<1>3. DirectorySound'
  BY <1>2, ReadModelsStep, ReadModelsFailsStep, ReadAvailabilityStep
<1>4. SchemaSound'
  BY <1>1, SchemaUntouched DEF schemaVars, pluginVars
<1>5. wired' = wired /\ generation' = generation
  BY <1>2 DEF ReadModels, ReadModelsFails, ReadAvailability
<1>6. phase[Main] \in Living
  BY <1>2 DEF LifeSound
<1>7. LifeSound'
  BY <1>1, <1>5, <1>6 DEF LifeSound, pluginVars
<1>8. RestSound'
  BY <1>1 DEF RestSound, PoliciesTyped, pluginVars
<1> QED
  BY <1>3, <1>4, <1>7, <1>8

LEMMA EditStep ==
  ASSUME PluginSound, Edit
  PROVE  PluginSound'
<1> USE DEF PluginSound
<1>1. /\ phase[Main] \in Living /\ edits < MaxEdits /\ edits' = edits + 1
      /\ UNCHANGED <<file, phase, seen, tx, lock, db, changes, stops>>
  BY DEF Edit, Living
<1>2. PICK e \in Edits : /\ UpdateModel(e[1], e[2])
                         /\ stored' = IF config.storage THEN policies' ELSE stored
  BY DEF Edit
<1>3. e[1] \in Routes /\ e[2] \in BOOLEAN
  BY PluginAssumption DEF PluginAssumption
<1>4. DirectorySound'
  BY <1>2, <1>3, UpdateModelStep, Zenon
<1>5. UNCHANGED <<wired, generation, running>>
  BY <1>2 DEF UpdateModel
<1>6. PoliciesTyped(stored)'
  <2>1. PoliciesTyped(policies)' /\ PoliciesTyped(stored)
    BY <1>4 DEF DirectorySound, SnapshotTypes, RestSound
  <2>2. stored' = policies' \/ stored' = stored
    BY <1>2, Zenon
  <2> QED
    BY <2>1, <2>2 DEF PoliciesTyped
<1>7. SchemaSound'
  BY <1>1, SchemaUntouched DEF schemaVars
<1>8. LifeSound'
  BY <1>1, <1>5 DEF LifeSound
<1>9. RestSound'
  BY <1>1, <1>6, PluginAssumption DEF RestSound, PluginAssumption
<1> QED
  BY <1>4, <1>7, <1>8, <1>9

\* Nothing of a process outlives it but the database.
LEMMA StopStep ==
  ASSUME PluginSound, Stop
  PROVE  PluginSound'
<1> USE DEF PluginSound
<1>1. /\ stops < MaxStops /\ stops' = stops + 1
      /\ Goes(Main, "down") /\ seen' = [seen EXCEPT ![Main] = {}]
      /\ tx' = [tx EXCEPT ![Main] = NoTx] /\ lock' = Unlocked(Main)
      /\ UNCHANGED <<host, scoped, file, db, stored, changes, edits>>
  BY DEF Stop
<1>2. /\ wired' = FALSE /\ policies' = NoRoutes /\ directory' = NoRoutes
      /\ active' = {} /\ unavailable' = {} /\ generation' = 0 /\ published' = 0
      /\ running' = {} /\ missed' = FALSE
  BY DEF Stop
<1>3. Main \in Hosting /\ phase \in [Hosting -> Phases]
  BY DEF Hosting, SchemaSound, SchemaTypes
<1>4. SchemaSound'
  BY <1>1, <1>3, AbortStep
<1>5. DirectorySound'
  <2>1. scoped' \in BOOLEAN /\ wired' \in BOOLEAN /\ missed' \in BOOLEAN
    BY <1>1, <1>2, Zenon DEF DirectorySound, SnapshotTypes
  <2>2. DOMAIN NoRoutes = {}
    BY DEF NoRoutes
  <2>3. SnapshotTypes'
    BY <2>1, <2>2, <1>1, <1>2 DEF DirectorySound, SnapshotTypes, PoliciesTyped
  <2>4. DirectoryHasPolicies'
    BY <2>2, <1>2 DEF DirectoryHasPolicies
  <2> QED
    BY <2>3, <2>4, <1>2 DEF DirectorySound, RunningSound, SnapshotCurrent
<1>6. LifeSound'
  BY <1>1, <1>2, <1>3 DEF LifeSound, Living, Goes
<1>7. RestSound'
  BY <1>1, PluginAssumption DEF RestSound, PoliciesTyped, PluginAssumption
<1> QED
  BY <1>4, <1>5, <1>6, <1>7

LEMMA StutterStep ==
  ASSUME PluginSound, UNCHANGED vars
  PROVE  PluginSound'
<1>1. UNCHANGED directoryVars /\ UNCHANGED pluginVars
  BY DEF vars
<1>2. SchemaSound' /\ DirectorySound'
  BY <1>1, SchemaUntouched, DirectoryUntouched DEF schemaVars, pluginVars, PluginSound
<1> QED
  BY <1>1, <1>2 DEF PluginSound, LifeSound, RestSound, PoliciesTyped, directoryVars, pluginVars

(* The invariant: what a transaction holds against what is committed, what a host knows
   of the schema, and what the newest refresh knows of the host.                       *)
THEOREM AlwaysSound == Spec => []PluginSound
<1>1. Init => PluginSound
  BY InitSound
<1>2. PluginSound /\ [Next]_vars => PluginSound'
  <2> SUFFICES ASSUME PluginSound, [Next]_vars PROVE PluginSound'
    OBVIOUS
  <2>1. ASSUME NEW p \in Hosting, Step(p) PROVE PluginSound'
    BY <2>1, LoadingStep, BuildStep DEF Step
  <2>2. CASE Wire
    BY <2>2, WireStep
  <2>3. CASE Mount
    BY <2>3, MountStep
  <2>4. CASE Refresh
    BY <2>4, RefreshStep
  <2>5. CASE HostMoves
    BY <2>5, HostMovesStep
  <2>6. CASE Edit
    BY <2>6, EditStep
  <2>7. CASE Stop
    BY <2>7, StopStep
  <2>8. CASE UNCHANGED vars
    BY <2>8, StutterStep
  <2> QED
    BY <2>1, <2>2, <2>3, <2>4, <2>5, <2>6, <2>7, <2>8 DEF Next
<1> QED
  BY <1>1, <1>2, PTL DEF Spec

(* A migration is applied whole or not at all and recorded exactly then, for two hosts
   that migrate the same database and fail at any statement (database.ts).            *)
THEOREM MigrationsAreWhole == Spec => []SchemaMatchesVersions
<1>1. PluginSound => SchemaMatchesVersions
  BY DEF PluginSound, SchemaSound
<1> QED
  BY <1>1, AlwaysSound, PTL

(* A host that has built its service has a configuration that can be used and, if it
   stores anything, the whole schema (mod.ts, config/schema.ts, database.ts).         *)
THEOREM ServiceIsUsable == Spec => []UpMeansUsable
<1>1. ASSUME PluginSound, NEW p \in Hosting, phase[p] \in Built
      PROVE  Usable(config) /\ (config.storage => db.versions = Versions)
  <2>1. file \in AcceptedFiles /\ (config.storage => db.versions = Versions)
    BY <1>1 DEF PluginSound, SchemaSound, PhaseSound, Built
  <2>2. Accepted(RawConfigs[file]) /\ config = RuntimeConfig(RawConfigs[file])
    BY <2>1 DEF AcceptedFiles, config, Configs
  <2> QED
    BY <2>1, <2>2, AcceptedIsUsable
<1>2. PluginSound => UpMeansUsable
  BY <1>1 DEF UpMeansUsable, Built
<1> QED
  BY <1>2, AlwaysSound, PTL

(* A published snapshot shows the policies in force, however edits and refreshes overlap
   (mergeModel and updateModel of service.ts).                                          *)
THEOREM PoliciesAreShown == Spec => []DirectoryHasPolicies
<1>1. PluginSound => DirectoryHasPolicies
  BY DEF PluginSound, DirectorySound
<1> QED
  BY <1>1, AlwaysSound, PTL

(* Whatever refreshes overlapped, once they are over the directory is the host's, unless
   the newest failed or a change was not heard (refreshModelDirectory of service.ts).   *)
THEOREM QuietIsCurrent == Spec => []QuietDirectoryIsCurrent
<1>1. PluginSound => QuietDirectoryIsCurrent
  <2> SUFFICES ASSUME PluginSound, wired, published = generation, ~missed
               PROVE  /\ active = DOMAIN host.listed
                      /\ directory = Published(UNION {{p} \X host.listed[p] : p \in DOMAIN host.listed}, active)
                      /\ IF scoped THEN host.unready \cap active \subseteq unavailable
                         ELSE unavailable = {}
    BY DEF QuietDirectoryIsCurrent
  <2>1. generation > 0
    BY DEF PluginSound, LifeSound, Living
  <2> QED
    BY <2>1 DEF PluginSound, DirectorySound, SnapshotCurrent, Catalogue
<1> QED
  BY <1>1, AlwaysSound, PTL

(* The state keeps its type: a directory of known routes, transactions of known versions
   within their statements, counters within their bounds.                               *)
THEOREM TypeCorrect == Spec => []TypeOK
<1>1. PluginSound => TypeOK
  <2> SUFFICES ASSUME PluginSound PROVE TypeOK
    OBVIOUS
  <2>1. DirectoryTypeOK
    <3>1. \A r \in running : r \in Refreshes /\ r.gen <= generation
      BY DEF PluginSound, DirectorySound, RunningSound, WellFormed, SnapshotTypes
    <3> QED
      BY <3>1, Zenon DEF PluginSound, DirectorySound, SnapshotTypes, PoliciesTyped, DirectoryTypeOK
  <2> QED
    BY <2>1, Zenon DEF PluginSound, SchemaSound, SchemaTypes, RestSound, PoliciesTyped, TypeOK
<1> QED
  BY <1>1, AlwaysSound, PTL
==============================================================================
