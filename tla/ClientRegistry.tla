--------------------------- MODULE ClientRegistry ---------------------------
(***************************************************************************)
(* The registration of applications, which lives in two systems: the OAuth *)
(* clients in Ory Hydra and the catalog of managed apps in PostgreSQL, and *)
(* the session policy, one row in PostgreSQL whose lifetimes are copied    *)
(* into every client.  No transaction spans the two.  Shauth orders its    *)
(* calls with advisory locks, one per client identifier, one for the       *)
(* policy and one for the reconciliation every starting replica performs,  *)
(* and compensates for steps that fail.                                    *)
(*                                                                         *)
(* A request is an operator's (internal/app/operations.go), a replica is a *)
(* starting process (bootstrapApps in internal/app/app.go).  Every call to *)
(* Hydra may fail with or without its effect, every statement and every    *)
(* commit may fail, and a request or a process may end between any two     *)
(* steps: PostgreSQL then rolls its transaction back and drops its locks.  *)
(* A request whose browser left ends the same way, because its context     *)
(* makes every later call fail, the compensating ones included.            *)
(***************************************************************************)
EXTENDS Integers, FiniteSets

CONSTANTS
    Client,     \* OAuth client identifiers
    Slug,       \* catalog slugs
    Contract,   \* what a client registers: redirect and logout coordinates
    Policy,     \* valid session policies
    Config,     \* bootstrap configurations replicas start with
    Serving,    \* those of the replicas that answer requests
    Request,    \* operators' requests
    Replica,    \* starting replicas
    NoClient, NoRow, Nobody

\* A row that ValidateManagedApp accepts: its client, and the hash of what the
\* client registered.
Entry == [client : Client, contract : Contract]

Declares(config, s) == s \in DOMAIN config

\* input.validate, ValidateManagedApp and the two duplicate checks refuse
\* every other configuration before a lock is taken.
ASSUME ConfigAssumption ==
    /\ \A config \in Config :
          /\ DOMAIN config \subseteq Slug
          /\ \A s \in DOMAIN config : config[s] \in Entry
          /\ \A s, t \in DOMAIN config : config[s].client = config[t].client => s = t
    /\ Serving \subseteq Config

ASSUME NamesAssumption ==
    /\ Contract # {}
    /\ NoClient \notin [life : Policy, contract : Contract]
    /\ NoRow \notin Entry
    /\ Nobody \notin Request \cup Replica
    /\ Request \cap Replica = {}

VARIABLES
    clients,    \* Hydra's clients, with lifetimes and contract
    rows,       \* managed_apps, by slug
    policy,     \* session_policy
    clientLock, \* WithOIDCClientLock
    policyLock, \* WithSessionPolicyLock
    bootLock,   \* LockBootstrapManagedApps
    task,       \* what each request is doing
    boot,       \* how far each replica's start has come
    unrestored  \* history: a policy change ended half applied and no
                \* later one has gone through all clients

vars == <<clients, rows, policy, clientLock, policyLock, bootLock, task, boot,
          unrestored>>

\* A client that oidcClientInput.validate accepted: its token lifetimes, and
\* the rest of it.
Registration == [life : Policy, contract : Contract]

Existing == {c \in Client : clients[c] # NoClient}

Uses(c) == \E s \in Slug : rows[s] # NoRow /\ rows[s].client = c

Idle == [op |-> "idle"]

Deleting == [op : {"deleting"}, client : Client]

Creating == [op : {"creating"}, client : Client, slug : Slug, contract : Contract]

Changing == [op : {"applying", "restoring"}, to : Policy, todo : SUBSET Client]

Task == {Idle} \cup Deleting \cup Creating \cup Changing

Down == [step |-> "down"]

Between == [step : {"listing", "asserting"}, config : Config]

Visiting == [step : {"checking", "reconciling"}, config : Config,
             seen : SUBSET Client, todo : SUBSET Slug]

Writing == [step : {"locked", "written", "undoing", "verifying"}, config : Config,
            seen : SUBSET Client, todo : SUBSET Slug, slug : Slug]

Comparing == [step : {"comparing"}, config : Config,
              listed : [Slug -> Entry \cup {NoRow}], stale : SUBSET Slug]

Repairing == [step : {"repairing"}, config : Config, live : [Slug -> Contract],
              todo : SUBSET Slug, stale : SUBSET Slug]

Boot == {Down} \cup Between \cup Visiting \cup Writing \cup Comparing \cup Repairing

Init ==
    /\ clients = [c \in Client |-> NoClient]
    /\ rows = [s \in Slug |-> NoRow]
    /\ policy \in Policy
    /\ clientLock = [c \in Client |-> Nobody]
    /\ policyLock = Nobody
    /\ bootLock = Nobody
    /\ task = [p \in Request |-> Idle]
    /\ boot = [r \in Replica |-> Down]
    /\ unrestored = FALSE

-----------------------------------------------------------------------------
\* Locks and transactions

\* The locks a process holds end with its transaction or its connection.
Unlock(p) ==
    /\ clientLock' = [c \in Client |-> IF clientLock[c] = p THEN Nobody ELSE clientLock[c]]
    /\ policyLock' = IF policyLock = p THEN Nobody ELSE policyLock

\* pg_advisory_xact_lock on one client identifier.
Lock_Skipped(p, c) == c \in Client /\ clientLock' = clientLock
Lock(p, c) ==
    /\ clientLock[c] = Nobody
    /\ clientLock' = [clientLock EXCEPT ![c] = p]

\* The policy lock can be had.
PolicyFree_Ignored == TRUE
PolicyFree == policyLock = Nobody

\* A catalog transaction locks every row it can see and its own slug.  Only a
\* replica's is open for longer than a step: between the reconciliation of a
\* row and the commit that follows the verification of its client.
CatalogFree(s) ==
    \A r \in Replica :
        boot[r].step = "verifying" =>
            /\ boot[r].slug # s
            /\ \A t \in Slug : rows[t] = NoRow

-----------------------------------------------------------------------------
\* OAuth clients

\* createOIDCClient.  Reading the policy and posting the client are one
\* critical section of the policy lock; what Hydra answers changes nothing
\* here, for nothing follows the answer.
RegisterClient(c, k) ==
    /\ PolicyFree
    /\ clients[c] = NoClient
    /\ clients' = [clients EXCEPT ![c] = [life |-> policy, contract |-> k]]
    /\ UNCHANGED <<rows, policy, clientLock, policyLock, bootLock, task, boot, unrestored>>

\* isBootstrapClient: some serving replica does not declare the client.
Removable(c) == \E config \in Serving : \A s \in DOMAIN config : config[s].client # c

\* deleteOIDCClient up to the deletion: a replica that declares the client
\* refuses, and so does the usage check under the client's lock.
DeleteClient(p, c) ==
    /\ task[p] = Idle
    /\ Removable(c)
    /\ Lock(p, c)
    /\ ~Uses(c)
    /\ task' = [task EXCEPT ![p] = [op |-> "deleting", client |-> c]]
    /\ UNCHANGED <<clients, rows, policy, policyLock, bootLock, boot, unrestored>>

\* deleteHydraClient, whatever it answers, and the end of the lock.
DeleteHydraClient(p) ==
    /\ task[p].op = "deleting"
    /\ clients' = [clients EXCEPT ![task[p].client] = NoClient]
    /\ task' = [task EXCEPT ![p] = Idle]
    /\ Unlock(p)
    /\ UNCHANGED <<rows, policy, bootLock, boot, unrestored>>

-----------------------------------------------------------------------------
\* The catalog

\* validateManagedAppClient, of the client Hydra lists: one that is not there
\* fails, and one whose coordinates are not the app's ends the request.
Verified(c) == clients[c] # NoClient

\* createApp up to the catalog: the client must be registered, and its
\* contract is what the catalog will record.
CreateApp_Unverified(p, s, c) ==
    /\ task[p] = Idle
    /\ Lock(p, c)
    /\ task' = [task EXCEPT ![p] =
                  [op |-> "creating", client |-> c, slug |-> s,
                   contract |-> IF clients[c] = NoClient THEN NoClient ELSE clients[c].contract]]
    /\ UNCHANGED <<clients, rows, policy, policyLock, bootLock, boot, unrestored>>
CreateApp(p, s, c) ==
    /\ task[p] = Idle
    /\ Lock(p, c)
    /\ Verified(c)
    /\ task' = [task EXCEPT ![p] = [op |-> "creating", client |-> c, slug |-> s,
                                    contract |-> clients[c].contract]]
    /\ UNCHANGED <<clients, rows, policy, policyLock, bootLock, boot, unrestored>>

\* CreateManagedApp and the commit of the lock's transaction.  The slug and
\* the client are unique in the table.
CreateManagedApp(p) ==
    /\ task[p].op = "creating"
    /\ CatalogFree(task[p].slug)
    /\ IF rows[task[p].slug] = NoRow /\ ~Uses(task[p].client)
       THEN rows' = [rows EXCEPT ![task[p].slug] =
                        [client |-> task[p].client, contract |-> task[p].contract]]
       ELSE UNCHANGED rows
    /\ task' = [task EXCEPT ![p] = Idle]
    /\ Unlock(p)
    /\ UNCHANGED <<clients, policy, bootLock, boot, unrestored>>

\* isBootstrapSlug: some serving replica does not declare the app.
Deletable_Always(s) == s \in Slug
Deletable(s) == \E config \in Serving : ~Declares(config, s)

\* deleteApp.  A replica that started listing the catalog before will not find
\* the row again by its identifier, even when its slug is registered anew.
DeleteApp(s) ==
    /\ rows[s] # NoRow
    /\ Deletable(s)
    /\ CatalogFree(s)
    /\ rows' = [rows EXCEPT ![s] = NoRow]
    /\ boot' = [r \in Replica |->
                  IF boot[r].step \in {"comparing", "repairing"}
                  THEN [boot[r] EXCEPT !.stale = @ \cup {s}]
                  ELSE boot[r]]
    /\ UNCHANGED <<clients, policy, clientLock, policyLock, bootLock, task, unrestored>>

-----------------------------------------------------------------------------
\* The session policy

\* updateSessionPolicy up to the list of the clients to change.
ChangePolicy(p, to) ==
    /\ task[p] = Idle
    /\ PolicyFree
    /\ policyLock' = p
    /\ task' = [task EXCEPT ![p] = [op |-> "applying", to |-> to, todo |-> Existing]]
    /\ UNCHANGED <<clients, rows, policy, clientLock, bootLock, boot, unrestored>>

\* What replaceSessionPolicy does when a step fails: it applies the previous
\* policy to all clients; when that fails too it only says so.
Restore(p) ==
    \/ /\ task[p].op = "applying"
       /\ task' = [task EXCEPT ![p] = [op |-> "restoring", to |-> policy,
                                       todo |-> {c \in Client : clients'[c] # NoClient}]]
       /\ UNCHANGED <<clientLock, policyLock, unrestored>>
    \/ /\ task[p].op = "restoring"
       /\ task' = [task EXCEPT ![p] = Idle]
       /\ unrestored' = TRUE
       /\ Unlock(p)

\* One round of applyHydraSessionPolicy: PUT lifespans of one client.
PutLifespans(p) ==
    /\ task[p].op \in {"applying", "restoring"}
    /\ \E c \in task[p].todo :
          /\ clients[c] # NoClient
          /\ clients' = [clients EXCEPT ![c].life = task[p].to]
          /\ task' = [task EXCEPT ![p].todo = @ \ {c}]
    /\ UNCHANGED <<rows, policy, clientLock, policyLock, bootLock, boot, unrestored>>

\* A round that fails: Hydra does not answer 200, though it may have changed
\* the client, or the client has been deleted since it was listed.
PutFails(p) ==
    /\ task[p].op \in {"applying", "restoring"}
    /\ \E c \in task[p].todo :
          \/ UNCHANGED clients
          \/ /\ clients[c] # NoClient
             /\ clients' = [clients EXCEPT ![c].life = task[p].to]
    /\ Restore(p)
    /\ UNCHANGED <<rows, policy, bootLock, boot>>

\* UpdateSessionPolicy and the commit of the lock's transaction.
StorePolicy(p) ==
    /\ task[p].op = "applying"
    /\ task[p].todo = {}
    /\ policy' = task[p].to
    /\ unrestored' = FALSE
    /\ task' = [task EXCEPT ![p] = Idle]
    /\ Unlock(p)
    /\ UNCHANGED <<clients, rows, bootLock, boot>>

\* UpdateSessionPolicy fails, and the clients are restored.
StoreFails(p) ==
    /\ task[p].op = "applying"
    /\ task[p].todo = {}
    /\ UNCHANGED <<clients, rows, policy, bootLock, boot>>
    /\ Restore(p)

\* The previous policy has reached every client.
Restored(p) ==
    /\ task[p].op = "restoring"
    /\ task[p].todo = {}
    /\ unrestored' = FALSE
    /\ task' = [task EXCEPT ![p] = Idle]
    /\ Unlock(p)
    /\ UNCHANGED <<clients, rows, policy, bootLock, boot>>

\* A request ends early: a failure before its next step has an effect, a lock
\* timeout, a commit that fails, a browser that left, a process that died.
\* A policy change then leaves the clients as they are.
Abandon(p) ==
    /\ task[p] # Idle
    /\ task' = [task EXCEPT ![p] = Idle]
    /\ unrestored' = (unrestored \/ task[p].op \in {"applying", "restoring"})
    /\ Unlock(p)
    /\ UNCHANGED <<clients, rows, policy, bootLock, boot>>

-----------------------------------------------------------------------------
\* bootstrapApps

\* The registration a replica is working on.
Current(r) == boot[r].config[boot[r].slug]

\* LockBootstrapManagedApps.
LockBootstrap(r, config) ==
    /\ boot[r] = Down
    /\ bootLock = Nobody
    /\ bootLock' = r
    /\ boot' = [boot EXCEPT ![r] = [step |-> "listing", config |-> config]]
    /\ UNCHANGED <<clients, rows, policy, clientLock, policyLock, task, unrestored>>

\* The list of Hydra's clients, read once for all registrations.
ListClients(r) ==
    /\ boot[r].step = "listing"
    /\ boot' = [boot EXCEPT ![r] = [step |-> "checking", config |-> boot[r].config,
                                    seen |-> Existing, todo |-> DOMAIN boot[r].config]]
    /\ UNCHANGED <<clients, rows, policy, clientLock, policyLock, bootLock, task, unrestored>>

\* ValidateBootstrapManagedAppOwnership.
Conflict(s, entry) ==
    \E t \in Slug : /\ rows[t] # NoRow
                    /\ t = s \/ rows[t].client = entry.client
                    /\ t # s \/ rows[t].client # entry.client

\* The pair is in the catalog, or neither the row nor the client exists.
CheckOwnership(r, s) ==
    /\ boot[r].step = "checking"
    /\ s \in boot[r].todo
    /\ ~Conflict(s, boot[r].config[s])
    /\ boot[r].config[s].client \in boot[r].seen => rows[s] # NoRow
    /\ boot' = [boot EXCEPT ![r].todo = @ \ {s}]
    /\ UNCHANGED <<clients, rows, policy, clientLock, policyLock, bootLock, task, unrestored>>

Checked(r) ==
    /\ boot[r].step = "checking"
    /\ boot[r].todo = {}
    /\ boot' = [boot EXCEPT ![r].step = "reconciling", ![r].todo = DOMAIN boot[r].config]
    /\ UNCHANGED <<clients, rows, policy, clientLock, policyLock, bootLock, task, unrestored>>

LockRegistration(r, s) ==
    /\ boot[r].step = "reconciling"
    /\ s \in boot[r].todo
    /\ Lock(r, boot[r].config[s].client)
    /\ boot' = [boot EXCEPT ![r] = [step |-> "locked", config |-> boot[r].config,
                                    seen |-> boot[r].seen, todo |-> boot[r].todo,
                                    slug |-> s]]
    /\ UNCHANGED <<clients, rows, policy, policyLock, bootLock, task, unrestored>>

\* updateHydraClient or createHydraClient, by what the list said.  The policy
\* lock is taken inside the client lock's transaction and ends with it.
Writable(r) ==
    clients[Current(r).client] # NoClient <=> Current(r).client \in boot[r].seen

WriteClient(r) ==
    /\ boot[r].step = "locked"
    /\ PolicyFree
    /\ Writable(r)
    /\ clients' = [clients EXCEPT ![Current(r).client] =
                      [life |-> policy, contract |-> Current(r).contract]]
    /\ policyLock' = r
    /\ boot' = [boot EXCEPT ![r].step = "written"]
    /\ UNCHANGED <<rows, policy, clientLock, bootLock, task, unrestored>>

\* ReconcileBootstrapManagedApp inside the lock's transaction.
ReconcileRow(r) ==
    /\ boot[r].step = "written"
    /\ ~Conflict(boot[r].slug, Current(r))
    /\ boot' = [boot EXCEPT ![r].step = "verifying"]
    /\ UNCHANGED <<clients, rows, policy, clientLock, policyLock, bootLock, task, unrestored>>

\* It refuses or fails after the client was created: the client is removed.
ReconcileFails(r) ==
    /\ boot[r].step = "written"
    /\ Current(r).client \notin boot[r].seen
    /\ boot' = [boot EXCEPT ![r].step = "undoing"]
    /\ UNCHANGED <<clients, rows, policy, clientLock, policyLock, bootLock, task, unrestored>>

\* The end of a start that did not succeed.
StartEnds(r) ==
    /\ boot' = [boot EXCEPT ![r] = Down]
    /\ bootLock' = Nobody
    /\ Unlock(r)

UndoClient(r) ==
    /\ boot[r].step = "undoing"
    /\ clients' = [clients EXCEPT ![Current(r).client] = NoClient]
    /\ StartEnds(r)
    /\ UNCHANGED <<rows, policy, task, unrestored>>

\* assertHydraClientReconciled, and the commit that makes the row visible.
VerifyClient(r) ==
    /\ boot[r].step = "verifying"
    /\ clients[Current(r).client] # NoClient
    /\ clients[Current(r).client].contract = Current(r).contract
    /\ rows' = [rows EXCEPT ![boot[r].slug] = Current(r)]
    /\ boot' = [boot EXCEPT ![r] = [step |-> "reconciling", config |-> boot[r].config,
                                    seen |-> boot[r].seen,
                                    todo |-> boot[r].todo \ {boot[r].slug}]]
    /\ Unlock(r)
    /\ UNCHANGED <<clients, policy, bootLock, task, unrestored>>

Reconciled(r) ==
    /\ boot[r].step = "reconciling"
    /\ boot[r].todo = {}
    /\ boot' = [boot EXCEPT ![r] = [step |-> "asserting", config |-> boot[r].config]]
    /\ UNCHANGED <<clients, rows, policy, clientLock, policyLock, bootLock, task, unrestored>>

\* assertManagedAppRegistrations: the catalog first, the clients after it.
ListApps(r) ==
    /\ boot[r].step = "asserting"
    /\ boot' = [boot EXCEPT ![r] = [step |-> "comparing", config |-> boot[r].config,
                                    listed |-> rows, stale |-> {}]]
    /\ UNCHANGED <<clients, rows, policy, clientLock, policyLock, bootLock, task, unrestored>>

CompareClients(r) ==
    /\ boot[r].step = "comparing"
    /\ LET listed == boot[r].listed
           apps == {s \in Slug : listed[s] # NoRow}
           live == [s \in apps |-> clients[listed[s].client].contract]
       IN  /\ \A s \in apps : clients[listed[s].client] # NoClient
           /\ boot' = [boot EXCEPT ![r] =
                 [step |-> "repairing", config |-> boot[r].config,
                  live |-> [s \in Slug |-> IF s \in apps THEN live[s]
                                           ELSE CHOOSE k \in Contract : TRUE],
                  todo |-> {s \in apps : listed[s].contract # live[s]},
                  stale |-> boot[r].stale]]
    /\ UNCHANGED <<clients, rows, policy, clientLock, policyLock, bootLock, task, unrestored>>

\* ReconcileManagedAppOIDCContract, by the identifier that was listed.
RepairContract(r, s) ==
    /\ boot[r].step = "repairing"
    /\ s \in boot[r].todo \ boot[r].stale
    /\ rows' = [rows EXCEPT ![s].contract = boot[r].live[s]]
    /\ boot' = [boot EXCEPT ![r].todo = @ \ {s}]
    /\ UNCHANGED <<clients, policy, clientLock, policyLock, bootLock, task, unrestored>>

\* New returns the server, and the lock ends.
Start(r) ==
    /\ boot[r].step = "repairing"
    /\ boot[r].todo = {}
    /\ StartEnds(r)
    /\ UNCHANGED <<clients, rows, policy, task, unrestored>>

\* A start is refused, a call of it fails, or its process dies.  A client it
\* has just posted or put may be changed all the same.
StartFails(r) ==
    /\ boot[r] # Down
    /\ \/ UNCHANGED clients
       \/ /\ boot[r].step = "locked"
          /\ PolicyFree
          /\ Writable(r)
          /\ clients' = [clients EXCEPT ![Current(r).client] =
                            [life |-> policy, contract |-> Current(r).contract]]
    /\ StartEnds(r)
    /\ UNCHANGED <<rows, policy, task, unrestored>>

-----------------------------------------------------------------------------
RequestStep(p) ==
    \/ \E c \in Client : DeleteClient(p, c)
    \/ DeleteHydraClient(p)
    \/ \E s \in Slug, c \in Client : CreateApp(p, s, c)
    \/ CreateManagedApp(p)
    \/ \E to \in Policy : ChangePolicy(p, to)
    \/ PutLifespans(p)
    \/ PutFails(p)
    \/ StorePolicy(p)
    \/ StoreFails(p)
    \/ Restored(p)
    \/ Abandon(p)

ReplicaStep(r) ==
    \/ \E config \in Config : LockBootstrap(r, config)
    \/ ListClients(r)
    \/ \E s \in Slug : CheckOwnership(r, s)
    \/ Checked(r)
    \/ \E s \in Slug : LockRegistration(r, s)
    \/ WriteClient(r)
    \/ ReconcileRow(r)
    \/ ReconcileFails(r)
    \/ UndoClient(r)
    \/ VerifyClient(r)
    \/ Reconciled(r)
    \/ ListApps(r)
    \/ CompareClients(r)
    \/ \E s \in Slug : RepairContract(r, s)
    \/ Start(r)
    \/ StartFails(r)

Next ==
    \/ \E c \in Client, k \in Contract : RegisterClient(c, k)
    \/ \E s \in Slug : DeleteApp(s)
    \/ \E p \in Request : RequestStep(p)
    \/ \E r \in Replica : ReplicaStep(r)

Spec == Init /\ [][Next]_vars

-----------------------------------------------------------------------------
\* Every variable holds a value of its type.
TypeOK ==
    /\ clients \in [Client -> Registration \cup {NoClient}]
    /\ rows \in [Slug -> Entry \cup {NoRow}]
    /\ policy \in Policy
    /\ clientLock \in [Client -> Request \cup Replica \cup {Nobody}]
    /\ policyLock \in Request \cup Replica \cup {Nobody}
    /\ bootLock \in Replica \cup {Nobody}
    /\ task \in [Request -> Task]
    /\ boot \in [Replica -> Boot]
    /\ unrestored \in BOOLEAN

\* An app of the catalog always has its OAuth client (WithOIDCClientLock:
\* otherwise "single sign-on for that application is broken from that moment
\* on"), whatever operators delete, replicas roll back and processes leave
\* undone, and whatever configurations they run with.
AppsHaveClients ==
    \A s \in Slug : rows[s] # NoRow => clients[rows[s].client] # NoClient

\* While nobody holds the policy lock, every client carries the stored
\* policy's lifetimes, unless a policy change was cut off or its restoration
\* failed and none has gone through since (updateSessionPolicy: "so the
\* provider and PostgreSQL cannot disagree").
PolicyAgrees ==
    policyLock = Nobody /\ ~unrestored =>
        \A c \in Client : clients[c] # NoClient => clients[c].life = policy

\* When a replica starts, every app its configuration declares is in the
\* catalog with its client and its contract, and the client is registered
\* with that contract; of the apps that every serving replica declares too,
\* for the others may be deleted meanwhile (bootstrapApps, deleteApp).
StartsRegistered ==
    [][\A r \in Replica : Start(r) =>
          \A s \in DOMAIN boot[r].config :
             (\A config \in Serving :
                 Declares(config, s) /\ config[s].client = boot[r].config[s].client) =>
                /\ rows[s] = boot[r].config[s]
                /\ clients[rows[s].client] # NoClient
                /\ clients[rows[s].client].contract = rows[s].contract]_vars
=============================================================================
