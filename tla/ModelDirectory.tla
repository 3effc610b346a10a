--------------------------- MODULE ModelDirectory ---------------------------
(***************************************************************************)
(* The model directory of a governor process: the join of the host's       *)
(* adapters, their catalogues, the credentials behind them and the         *)
(* governor's own model policies, recomputed by asynchronous refreshes     *)
(* that overlap with one another, with host changes and with edits.        *)
(***************************************************************************)
EXTENDS Integers, FiniteSets

CONSTANTS
  Providers,   \* provider ids
  Models,      \* model ids
  Hosts,       \* what the host may hold: [listed, unready]
  NoProvider

VARIABLES
  host,        \* listed: active provider -> catalogue; unready: no credential
  scoped,      \* the host has the settings and credentials services
  wired,       \* the event listeners are registered
  policies,    \* _models: route -> enabled
  directory,   \* _modelDirectory: route -> [enabled, listed]
  active,      \* _activeProviders
  unavailable, \* _unavailableProviders
  generation,  \* _directoryRefreshGeneration
  running,     \* the refreshes under way
  published,   \* history: the generation of the last refresh that published
  missed       \* history: the host changed and no refresh followed

directoryVars ==
  <<host, scoped, wired, policies, directory, active, unavailable, generation, running,
    published, missed>>

ASSUME DirectoryAssumption ==
  /\ NoProvider \notin Providers
  /\ \A h \in Hosts :
       /\ DOMAIN h.listed \subseteq Providers /\ h.unready \subseteq Providers
       /\ \A p \in DOMAIN h.listed : h.listed[p] \subseteq Models

Routes == Providers \X Models

\* A refresh: the providers it listed, those it has still to ask, the one whose
\* availability it is asking for, the catalogue rows it has and what it found unusable.
Refreshes ==
  [gen : Nat, scoped : BOOLEAN, providers : SUBSET Providers, todo : SUBSET Providers,
   asking : Providers \cup {NoProvider}, rows : SUBSET Routes, unusable : SUBSET Providers]

DirectoryTypeOK ==
  /\ host \in Hosts /\ scoped \in BOOLEAN /\ wired \in BOOLEAN /\ missed \in BOOLEAN
  /\ DOMAIN policies \subseteq Routes /\ \A r \in DOMAIN policies : policies[r] \in BOOLEAN
  /\ DOMAIN directory \subseteq Routes
  /\ \A r \in DOMAIN directory : directory[r] \in [enabled : BOOLEAN, listed : BOOLEAN]
  /\ active \subseteq Providers /\ unavailable \subseteq Providers
  /\ generation \in Nat /\ published \in 0..generation
  /\ \A r \in running : r \in Refreshes /\ r.gen <= generation

-----------------------------------------------------------------------------
(* What is published.                                                       *)

Enabled(route) == route \in DOMAIN policies => policies[route]

FromPoliciesFaulty(rows) == [r \in DOMAIN rows |-> [enabled |-> rows[r]]]

\* The policies alone, before the host has been asked or when it has nothing.
FromPolicies(rows) == [r \in DOMAIN rows |-> [enabled |-> rows[r], listed |-> FALSE]]

\* mergeModel over buildModelDirectory: the catalogues' rows, and the policies of
\* active providers the catalogues lack.
Merged(rows, providers) ==
  [r \in rows \cup {q \in DOMAIN policies : q[1] \in providers} |->
     [enabled |-> Enabled(r), listed |-> r \in rows]]

Published(rows, providers) ==
  IF DOMAIN Merged(rows, providers) = {} THEN FromPolicies(policies)
  ELSE Merged(rows, providers)

\* The end of a refresh, with the last answer: only the newest publishes.
PublishFaulty(r, ongoing) ==
  /\ running' = ongoing
  /\ directory' = Published(r.rows, r.providers)
  /\ active' = r.providers /\ unavailable' = r.unusable
  /\ published' = IF r.gen = generation' THEN r.gen ELSE published

Publish(r, ongoing) ==
  /\ running' = ongoing
  /\ IF r.gen = generation'
     THEN /\ directory' = Published(r.rows, r.providers)
          /\ active' = r.providers /\ unavailable' = r.unusable /\ published' = r.gen
     ELSE UNCHANGED <<directory, active, unavailable, published>>

\* One answer later; the loop over the providers goes on or the refresh ends.
Advance(r, ongoing) ==
  IF r.todo = {} /\ r.asking = NoProvider THEN Publish(r, ongoing)
  ELSE running' = ongoing \cup {r} /\ UNCHANGED <<directory, active, unavailable, published>>

\* refreshModelDirectory up to its first await; without providers it has none.
StartRefresh(withScope) ==
  /\ generation' = generation + 1
  /\ missed' = FALSE
  /\ Advance([gen |-> generation + 1, scoped |-> withScope, providers |-> DOMAIN host'.listed,
              todo |-> DOMAIN host'.listed, asking |-> NoProvider, rows |-> {},
              unusable |-> {}], running)

-----------------------------------------------------------------------------
(* The answers the refreshes wait for.                                      *)

\* The host answers with the catalogue it has now.
ReadModels(r) ==
  /\ r.asking = NoProvider
  /\ UNCHANGED <<host, scoped, wired, policies, generation, missed>>
  /\ LET p == CHOOSE q \in r.todo : TRUE
         catalogue == IF p \in DOMAIN host.listed THEN host.listed[p] ELSE {}
     IN Advance([r EXCEPT !.todo = @ \ {p}, !.rows = @ \cup ({p} \X catalogue),
                          !.asking = IF r.scoped THEN p ELSE NoProvider], running \ {r})

\* An adapter that fails ends the refresh; nobody starts another.
ReadModelsFails(r) ==
  /\ r.asking = NoProvider
  /\ running' = running \ {r}
  /\ UNCHANGED <<host, scoped, wired, policies, directory, active, unavailable, generation,
                 published, missed>>

\* resolveGovernorProviderAvailability, where a check that fails counts against the
\* provider.
ReadAvailability(r) ==
  /\ r.asking # NoProvider
  /\ UNCHANGED <<host, scoped, wired, policies, generation, missed>>
  /\ \E fails \in BOOLEAN :
       LET unusable == fails \/ r.asking \in host.unready \/ ~scoped
       IN Advance([r EXCEPT !.asking = NoProvider,
                            !.unusable = IF unusable THEN @ \cup {r.asking} ELSE @],
                  running \ {r})

-----------------------------------------------------------------------------
(* What the refreshes overlap with.                                         *)

\* An adapter, a credential or a setting changes, and the host says so.
HostChanges(new) ==
  /\ new # host
  /\ host' = new
  /\ IF wired THEN StartRefresh(scoped)
     ELSE missed' = TRUE /\ UNCHANGED <<directory, active, unavailable, generation, running,
                                        published>>
  /\ UNCHANGED <<scoped, wired, policies>>

\* The optional services are loaded or unloaded.
ScopeChanges ==
  /\ scoped' = ~scoped
  /\ UNCHANGED host
  /\ IF wired THEN StartRefresh(~scoped)
     ELSE UNCHANGED <<directory, active, unavailable, generation, running, published, missed>>
  /\ UNCHANGED <<wired, policies>>

\* wireGovernorEvents: services that are there already refresh at once.
WireEvents ==
  /\ wired' = TRUE
  /\ UNCHANGED <<host, scoped, policies>>
  /\ IF scoped THEN StartRefresh(TRUE)
     ELSE UNCHANGED <<directory, active, unavailable, generation, running, published, missed>>

UpdateModelFaulty(route, on) ==
  /\ route \in DOMAIN directory
  /\ policies' = [r \in DOMAIN policies \cup {route} |-> IF r = route THEN on ELSE policies[r]]
  /\ UNCHANGED <<host, scoped, wired, directory, active, unavailable, generation, running,
                 published, missed>>

\* updateModel, once the change is stored: policy and snapshot change together.
UpdateModel(route, on) ==
  /\ route \in DOMAIN directory
  /\ policies' = [r \in DOMAIN policies \cup {route} |-> IF r = route THEN on ELSE policies[r]]
  /\ directory' = [directory EXCEPT ![route].enabled = on]
  /\ UNCHANGED <<host, scoped, wired, active, unavailable, generation, running, published,
                 missed>>

-----------------------------------------------------------------------------
(* A snapshot shows the policy in force, whatever edits came while the refresh that
   published it was waiting (the policies are read after its last await).          *)
DirectoryHasPolicies ==
  \A r \in DOMAIN directory : directory[r].enabled = Enabled(r)

(* Once the events are wired and no refresh is under way, the directory is the host's:
   its routes, its active providers and the providers it cannot use - unless the
   newest refresh failed, or the host changed before anyone listened.              *)
QuietDirectoryIsCurrent ==
  wired /\ running = {} /\ published = generation /\ ~missed =>
    /\ active = DOMAIN host.listed
    /\ directory = Published(UNION {{p} \X host.listed[p] : p \in DOMAIN host.listed}, active)
    /\ IF scoped THEN host.unready \cap active \subseteq unavailable
       ELSE unavailable = {}
=============================================================================
