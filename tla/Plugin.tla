------------------------------- MODULE Plugin -------------------------------
(***************************************************************************)
(* Loading the plugin, from governor.yaml to the events it listens to: the *)
(* configuration is checked, the database is opened and migrated while     *)
(* another host may do the same, the service is built from what it stores, *)
(* and the model directory is joined with the host's.                      *)
(***************************************************************************)
EXTENDS ModelDirectory, ConfigSchema

CONSTANTS
  Main, Other, \* two hosts on one database; the directory is Main's
  RawConfigs,  \* governor.yaml files, by name
  Edits,       \* model updates: <<route, enabled>>
  MaxChanges, MaxEdits, MaxStops, \* bounds: host changes, edits, stops of Main
  NoTx

VARIABLES
  file,     \* the name of the file both hosts load
  phase,    \* of each host
  seen,     \* the versions each host found in the database
  tx,       \* the migration each host is in: [version, next, base, draft]
  lock,     \* the host with SQLite's write lock, or NoTx
  db,       \* committed: [versions, objects]
  stored,   \* model_policies
  changes, edits, stops \* how often, up to the bounds

pluginVars == <<file, phase, seen, tx, lock, db, stored, changes, edits, stops>>
vars == <<directoryVars, pluginVars>>

Hosting == {Main, Other}

\* What each migration creates.  A guarded statement (IF NOT EXISTS) passes over what
\* is there; the others fail on it.
Migrations ==
  <<[version |-> 1, up |-> <<[object |-> "tables", guarded |-> TRUE]>>],
    [version |-> 2, up |-> <<[object |-> "backup", guarded |-> FALSE],
                             [object |-> "decisions", guarded |-> FALSE],
                             [object |-> "audit", guarded |-> TRUE]>>],
    [version |-> 3, up |-> <<[object |-> "usage_kind", guarded |-> FALSE],
                             [object |-> "usage_index", guarded |-> TRUE]>>]>>

Versions == {Migrations[i].version : i \in DOMAIN Migrations}
Up(v) == (CHOOSE i \in DOMAIN Migrations : Migrations[i].version = v)
Statements(v) == Migrations[Up(v)].up
ObjectsOf(v) == {Statements(v)[i].object : i \in DOMAIN Statements(v)}
Objects == UNION {ObjectsOf(v) : v \in Versions}
Databases == [versions : SUBSET Versions, objects : SUBSET Objects]
Transactions == [version : Versions, next : Nat, base : Databases, draft : Databases]

Phases == {"down", "failed", "opening", "migrating", "building", "refreshing", "wired", "up"}

TypeOK ==
  /\ DirectoryTypeOK
  /\ file \in DOMAIN RawConfigs
  /\ phase \in [Hosting -> Phases]
  /\ seen \in [Hosting -> SUBSET Versions]
  /\ tx \in [Hosting -> Transactions \cup {NoTx}]
  /\ \A p \in Hosting : tx[p] # NoTx => tx[p].next \in 1..Len(Statements(tx[p].version)) + 1
  /\ lock \in Hosting \cup {NoTx} /\ db \in Databases
  /\ DOMAIN stored \subseteq Routes /\ \A r \in DOMAIN stored : stored[r] \in BOOLEAN
  /\ changes \in 0..MaxChanges /\ edits \in 0..MaxEdits /\ stops \in 0..MaxStops

AcceptedFiles == {f \in DOMAIN RawConfigs : Accepted(RawConfigs[f])}
Configs == [f \in AcceptedFiles |-> RuntimeConfig(RawConfigs[f])]
config == Configs[file]

ASSUME PluginAssumption ==
  /\ Main # Other /\ NoTx \notin Transactions \cup Hosting
  /\ \A f \in AcceptedFiles : DOMAIN Configs[f].models \subseteq Routes
  /\ \A e \in Edits : e \in Routes \X BOOLEAN
  /\ MaxChanges \in Nat /\ MaxEdits \in Nat /\ MaxStops \in Nat

NoRoutes == [r \in {} |-> FALSE]

Init ==
  /\ file \in DOMAIN RawConfigs
  /\ phase = [p \in Hosting |-> "down"] /\ seen = [p \in Hosting |-> {}]
  /\ tx = [p \in Hosting |-> NoTx] /\ lock = NoTx
  /\ db = [versions |-> {}, objects |-> {}] /\ stored = NoRoutes
  /\ changes = 0 /\ edits = 0 /\ stops = 0
  /\ host \in Hosts /\ scoped \in BOOLEAN /\ wired = FALSE
  /\ policies = NoRoutes /\ directory = NoRoutes /\ active = {} /\ unavailable = {}
  /\ generation = 0 /\ published = 0 /\ running = {} /\ missed = FALSE

-----------------------------------------------------------------------------
(* apply, up to the service.                                                *)

Goes(p, to) == phase' = [phase EXCEPT ![p] = to]

\* A file that is not accepted keeps the plugin from loading.
Load(p) ==
  /\ phase[p] = "down"
  /\ Goes(p, IF file \notin AcceptedFiles THEN "failed" ELSE IF config.storage THEN "opening" ELSE "building")
  /\ UNCHANGED <<directoryVars, file, seen, tx, lock, db, stored, changes, edits, stops>>

\* The versions are read once, before any transaction.
Open(p) ==
  /\ phase[p] = "opening"
  /\ seen' = [seen EXCEPT ![p] = db.versions]
  /\ Goes(p, "migrating")
  /\ UNCHANGED <<directoryVars, file, tx, lock, db, stored, changes, edits, stops>>

Pending(p) == Versions \ seen[p]

\* BEGIN is deferred: the transaction reads what is committed at its first statement.
Begin(p) ==
  /\ phase[p] = "migrating" /\ tx[p] = NoTx /\ Pending(p) # {}
  /\ LET v == CHOOSE w \in Pending(p) : \A x \in Pending(p) : w <= x
     IN tx' = [tx EXCEPT ![p] = [version |-> v, next |-> 1, base |-> db, draft |-> db]]
  /\ UNCHANGED <<directoryVars, file, phase, seen, lock, db, stored, changes, edits, stops>>

\* A write needs the lock, and that nobody has committed since.
CanWrite(p) == lock = p \/ (lock = NoTx /\ tx[p].base = db)

Statement(p) ==
  /\ tx[p] # NoTx /\ tx[p].next <= Len(Statements(tx[p].version))
  /\ LET s == Statements(tx[p].version)[tx[p].next]
         exists == s.object \in tx[p].draft.objects
     IN /\ exists => s.guarded
        /\ exists \/ CanWrite(p)
        /\ tx' = [tx EXCEPT ![p].next = @ + 1, ![p].draft.objects = @ \cup {s.object}]
        /\ lock' = IF exists THEN lock ELSE p
  /\ UNCHANGED <<directoryVars, file, phase, seen, db, stored, changes, edits, stops>>

CommitFaulty(p) ==
  /\ tx[p] # NoTx /\ tx[p].next > Len(Statements(tx[p].version)) - 1
  /\ tx[p].version \notin tx[p].draft.versions
  /\ CanWrite(p)
  /\ db' = [tx[p].draft EXCEPT !.versions = @ \cup {tx[p].version}]
  /\ seen' = [seen EXCEPT ![p] = @ \cup {tx[p].version}]
  /\ tx' = [tx EXCEPT ![p] = NoTx] /\ lock' = NoTx
  /\ UNCHANGED <<directoryVars, file, phase, stored, changes, edits, stops>>

\* The version's row and COMMIT; a row that is there is a constraint violation.
Commit(p) ==
  /\ tx[p] # NoTx /\ tx[p].next > Len(Statements(tx[p].version))
  /\ tx[p].version \notin tx[p].draft.versions
  /\ CanWrite(p)
  /\ db' = [tx[p].draft EXCEPT !.versions = @ \cup {tx[p].version}]
  /\ seen' = [seen EXCEPT ![p] = @ \cup {tx[p].version}]
  /\ tx' = [tx EXCEPT ![p] = NoTx] /\ lock' = NoTx
  /\ UNCHANGED <<directoryVars, file, phase, stored, changes, edits, stops>>

Unlocked(p) == IF lock = p THEN NoTx ELSE lock

\* A statement fails, because it may not run or because the disk says so: ROLLBACK,
\* and the plugin does not load.
MigrationFails(p) ==
  /\ tx[p] # NoTx
  /\ tx' = [tx EXCEPT ![p] = NoTx] /\ lock' = Unlocked(p)
  /\ Goes(p, "failed")
  /\ UNCHANGED <<directoryVars, file, seen, db, stored, changes, edits, stops>>

Migrated(p) ==
  /\ phase[p] = "migrating" /\ tx[p] = NoTx /\ Pending(p) = {}
  /\ Goes(p, "building")
  /\ UNCHANGED <<directoryVars, file, seen, tx, lock, db, stored, changes, edits, stops>>

\* buildIdentityProvider and the providers' constructors; a key file may be missing.
ProviderRefuses ==
  \/ config.identity["provider"] = Str("jwt") /\ Has(config.identity, "jwt_key_file")
  \/ /\ config.identity["provider"] = Str("jwt")
     /\ LET algorithms == config.identity["jwt_algorithms"].items
        IN \E i \in DOMAIN algorithms : algorithms[i] = Str("none")
ProviderMayBeBuilt ==
  config.identity["provider"] = Str("jwt") =>
    LET algorithms == config.identity["jwt_algorithms"].items
    IN \A i \in DOMAIN algorithms : algorithms[i] # Str("none")

BuildFails(p) ==
  /\ phase[p] = "building"
  /\ ProviderRefuses \/ (config.storage /\ DOMAIN stored = {} /\ lock # NoTx)
  /\ Goes(p, "failed")
  /\ UNCHANGED <<directoryVars, file, seen, tx, lock, db, stored, changes, edits, stops>>

ConfiguredPolicies == [r \in DOMAIN config.models |-> config.models[r].enabled]

\* GovernorService's constructor: an empty database takes the file's policies, another
\* one overrides them.  Main goes straight on to its first refresh, which knows nothing
\* of credentials.
Build(p) ==
  /\ phase[p] = "building" /\ ProviderMayBeBuilt
  /\ config.storage /\ DOMAIN stored = {} => lock = NoTx
  /\ stored' = IF config.storage /\ DOMAIN stored = {} THEN ConfiguredPolicies ELSE stored
  /\ LET rows == IF config.storage /\ DOMAIN stored' # {} THEN stored' ELSE ConfiguredPolicies
     IN IF p = Main
        THEN /\ Goes(p, "refreshing")
             /\ policies' = rows /\ generation' = 1
             /\ LET r == [gen |-> 1, scoped |-> FALSE, providers |-> DOMAIN host.listed,
                          todo |-> DOMAIN host.listed, asking |-> NoProvider, rows |-> {},
                          unusable |-> {}]
                IN /\ running' = IF r.todo = {} THEN {} ELSE {r}
                   /\ published' = IF r.todo = {} THEN 1 ELSE 0
                   /\ active' = IF r.todo = {} THEN {} ELSE {q[1] : q \in DOMAIN rows}
             /\ directory' = FromPolicies(rows) /\ unavailable' = {} /\ missed' = FALSE
             /\ UNCHANGED <<host, scoped, wired>>
        ELSE Goes(p, "up") /\ UNCHANGED directoryVars
  /\ UNCHANGED <<file, seen, tx, lock, db, changes, edits, stops>>

-----------------------------------------------------------------------------
(* The rest of Main's life.                                                 *)

Wire ==
  /\ phase[Main] = "refreshing" /\ running = {}
  /\ WireEvents
  /\ Goes(Main, "wired")
  /\ UNCHANGED <<file, seen, tx, lock, db, stored, changes, edits, stops>>

\* The reconciliation is over and the HTTP surface is mounted.
Mount ==
  /\ phase[Main] = "wired"
  /\ Goes(Main, "up")
  /\ UNCHANGED <<directoryVars, file, seen, tx, lock, db, stored, changes, edits, stops>>

Refresh ==
  /\ \E r \in running : ReadModels(r) \/ ReadModelsFails(r) \/ ReadAvailability(r)
  /\ UNCHANGED pluginVars

\* What the host does before there is a service is in the choice of Init.
HostMoves ==
  /\ phase[Main] \in {"refreshing", "wired", "up"}
  /\ changes < MaxChanges /\ changes' = changes + 1
  /\ (\E new \in Hosts : HostChanges(new)) \/ ScopeChanges
  /\ UNCHANGED <<file, phase, seen, tx, lock, db, stored, edits, stops>>

\* The management surfaces reach the service as soon as it is registered.  A database
\* that is locked refuses the change, and memory keeps what it had.
Edit ==
  /\ phase[Main] \in {"refreshing", "wired", "up"}
  /\ edits < MaxEdits /\ edits' = edits + 1
  /\ config.storage => lock = NoTx
  /\ \E e \in Edits :
       /\ UpdateModel(e[1], e[2])
       /\ stored' = IF config.storage THEN policies' ELSE stored
  /\ UNCHANGED <<file, phase, seen, tx, lock, db, changes, stops>>

\* The plugin is disposed of or its process dies: memory and transaction are gone.
Stop ==
  /\ phase[Main] # "down" /\ stops < MaxStops /\ stops' = stops + 1
  /\ Goes(Main, "down")
  /\ seen' = [seen EXCEPT ![Main] = {}]
  /\ tx' = [tx EXCEPT ![Main] = NoTx] /\ lock' = Unlocked(Main)
  /\ wired' = FALSE /\ policies' = NoRoutes /\ directory' = NoRoutes
  /\ active' = {} /\ unavailable' = {} /\ generation' = 0 /\ published' = 0
  /\ running' = {} /\ missed' = FALSE
  /\ UNCHANGED <<host, scoped, file, db, stored, changes, edits>>

Step(p) ==
  \/ Load(p) \/ Open(p) \/ Begin(p) \/ Statement(p) \/ Commit(p) \/ MigrationFails(p)
  \/ Migrated(p) \/ Build(p) \/ BuildFails(p)

Next ==
  \/ \E p \in Hosting : Step(p)
  \/ Wire \/ Mount \/ Refresh \/ HostMoves \/ Edit \/ Stop

Spec == Init /\ [][Next]_vars

-----------------------------------------------------------------------------
(* A migration is recorded when all of it was applied, and only then, whichever
   statement failed and whoever else was migrating.                           *)
SchemaMatchesVersions ==
  \A v \in Versions :
    /\ v \in db.versions <=> ObjectsOf(v) \subseteq db.objects
    /\ v \notin db.versions => ObjectsOf(v) \cap db.objects = {}

(* A host that has built its service has a configuration the rest of the plugin can
   use, and a database with every migration unless it stores nothing.              *)
UpMeansUsable ==
  (\E p \in Hosting : phase[p] \in {"building", "refreshing", "wired", "up"}) =>
    /\ Usable(config)
    /\ config.storage => db.versions = Versions
=============================================================================
