------------------------ MODULE ClientRegistryProofs ------------------------
(***************************************************************************)
(* What ClientRegistry.tla promises, for any number of clients, apps,      *)
(* requests and replicas and for any configurations.                       *)
(***************************************************************************)
EXTENDS ClientRegistry, TLAPS

-----------------------------------------------------------------------------
\* Shapes

\* A request's record has the fields of the operation it is in.
LEMMA TaskShape ==
    ASSUME NEW x \in Task
    PROVE  /\ x.op = "deleting" => x \in Deleting
           /\ x.op = "creating" => x \in Creating
           /\ x.op \in {"applying", "restoring"} => x \in Changing
BY DEF Task, Idle, Deleting, Creating, Changing

\* A replica's record has the fields of the step it is at.
LEMMA BootShape ==
    ASSUME NEW x \in Boot
    PROVE  /\ x.step \in {"listing", "asserting"} => x \in Between
           /\ x.step \in {"checking", "reconciling"} => x \in Visiting
           /\ x.step \in {"locked", "written", "undoing", "verifying"} => x \in Writing
           /\ x.step = "comparing" => x \in Comparing
           /\ x.step = "repairing" => x \in Repairing
BY DEF Boot, Down, Between, Visiting, Writing, Comparing, Repairing

\* What a replica has still to do is declared by its configuration.
Shaped ==
    \A r \in Replica :
        /\ boot[r].step \in {"checking", "reconciling", "locked", "written",
                             "undoing", "verifying"} =>
              boot[r].todo \subseteq DOMAIN boot[r].config
        /\ boot[r].step \in {"locked", "written", "undoing", "verifying"} =>
              boot[r].slug \in DOMAIN boot[r].config

\* A row that was listed is still there unless it has been marked stale.
Kept ==
    \A r \in Replica :
        /\ boot[r].step = "comparing" =>
              \A s \in Slug : boot[r].listed[s] # NoRow /\ s \notin boot[r].stale =>
                                  rows[s] # NoRow
        /\ boot[r].step = "repairing" =>
              \A s \in boot[r].todo \ boot[r].stale : rows[s] # NoRow

TInv == TypeOK /\ Shaped /\ Kept

\* The registration a replica is writing is an entry of its configuration.
LEMMA CurrentIsEntry ==
    ASSUME TypeOK, Shaped, NEW r \in Replica,
           boot[r].step \in {"locked", "written", "undoing", "verifying"}
    PROVE  /\ boot[r] \in Writing
           /\ Current(r) \in Entry
           /\ Current(r).client \in Client
           /\ Current(r).contract \in Contract
<1>1. boot[r] \in Writing
  BY BootShape DEF TypeOK
<1>2. boot[r].config \in Config /\ boot[r].slug \in DOMAIN boot[r].config
  BY <1>1 DEF Writing, Shaped
<1>3. Current(r) \in Entry
  BY <1>2, ConfigAssumption DEF Current
<1> QED
  BY <1>1, <1>3 DEF Entry

\* Ending a transaction keeps the locks' types.
LEMMA UnlockType ==
    ASSUME TypeOK, NEW p, Unlock(p)
    PROVE  /\ clientLock' \in [Client -> Request \cup Replica \cup {Nobody}]
           /\ policyLock' \in Request \cup Replica \cup {Nobody}
BY DEF TypeOK, Unlock

LEMMA InitTyped == Init => TInv
<1> SUFFICES ASSUME Init PROVE TInv
  OBVIOUS
<1>1. TypeOK
  BY DEF Init, TypeOK, Task, Boot
<1>2. \A r \in Replica : boot[r].step = "down"
  BY DEF Init, Down
<1>3. Shaped /\ Kept
  BY <1>2 DEF Shaped, Kept
<1> QED
  BY <1>1, <1>3 DEF TInv

\* A step of a request leaves the replicas alone.
LEMMA RequestTyped ==
    ASSUME TInv, NEW p \in Request, RequestStep(p)
    PROVE  TInv'
<1> USE DEF TInv
<1>t. task[p] \in Task
  BY DEF TypeOK
<1>1. ASSUME NEW c \in Client, DeleteClient(p, c) PROVE TInv'
  <2>1. TypeOK'
    BY <1>1 DEF DeleteClient, Lock, TypeOK, Task, Deleting
  <2> QED
    BY <1>1, <2>1 DEF DeleteClient, Shaped, Kept
<1>2. CASE DeleteHydraClient(p)
  <2>1. TypeOK'
    BY <1>2, <1>t, UnlockType DEF DeleteHydraClient, TypeOK, Task
  <2> QED
    BY <1>2, <2>1 DEF DeleteHydraClient, Shaped, Kept
<1>3. ASSUME NEW s \in Slug, NEW c \in Client, CreateApp(p, s, c) PROVE TInv'
  <2>1. clients[c].contract \in Contract
    BY <1>3 DEF CreateApp, Verified, TypeOK, Registration
  <2>2. TypeOK'
    BY <1>3, <2>1 DEF CreateApp, Verified, Lock, TypeOK, Task, Creating
  <2> QED
    BY <1>3, <2>2 DEF CreateApp, Verified, Shaped, Kept
<1>4. CASE CreateManagedApp(p)
  <2>1. task[p] \in Creating
    BY <1>4, <1>t, TaskShape DEF CreateManagedApp
  <2>2. rows' \in [Slug -> Entry \cup {NoRow}]
    BY <1>4, <2>1 DEF CreateManagedApp, TypeOK, Creating, Entry
  <2>3. TypeOK'
    BY <1>4, <2>2, UnlockType DEF CreateManagedApp, TypeOK, Task
  <2>4. \A s \in Slug : rows[s] # NoRow => rows'[s] # NoRow
    BY <1>4, <2>1, NamesAssumption DEF CreateManagedApp, TypeOK, Creating, Entry
  <2>5. Shaped'
    BY <1>4 DEF CreateManagedApp, Shaped
  <2>6. Kept'
    <3>1. UNCHANGED boot
      BY <1>4 DEF CreateManagedApp
    <3>2. \A r \in Replica : boot[r].step = "repairing" => boot[r].todo \subseteq Slug
      BY BootShape DEF TypeOK, Repairing
    <3> QED
      BY <3>1, <3>2, <2>4 DEF Kept
  <2> QED
    BY <2>3, <2>5, <2>6
<1>5. ASSUME NEW to \in Policy, ChangePolicy(p, to) PROVE TInv'
  <2>1. TypeOK'
    BY <1>5 DEF ChangePolicy, TypeOK, Task, Changing, Existing
  <2> QED
    BY <1>5, <2>1 DEF ChangePolicy, Shaped, Kept
<1>6. CASE PutLifespans(p)
  <2>1. task[p] \in Changing
    BY <1>6, <1>t, TaskShape DEF PutLifespans
  <2>2. PICK c \in task[p].todo :
           /\ clients[c] # NoClient
           /\ clients' = [clients EXCEPT ![c].life = task[p].to]
           /\ task' = [task EXCEPT ![p].todo = @ \ {c}]
    BY <1>6 DEF PutLifespans
  <2>3. c \in Client /\ task[p].to \in Policy /\ clients[c] \in Registration
    BY <2>1, <2>2 DEF Changing, TypeOK
  <2>4. clients' \in [Client -> Registration \cup {NoClient}]
    BY <2>2, <2>3 DEF TypeOK, Registration
  <2>5. [task[p] EXCEPT !.todo = @ \ {c}] \in Changing
    BY <2>1 DEF Changing
  <2>6. task' \in [Request -> Task]
    BY <2>2, <2>5 DEF TypeOK, Task
  <2>7. TypeOK'
    BY <1>6, <2>4, <2>6 DEF PutLifespans, TypeOK
  <2> QED
    BY <1>6, <2>7 DEF PutLifespans, Shaped, Kept
<1>7. ASSUME clients' \in [Client -> Registration \cup {NoClient}], Restore(p),
             UNCHANGED <<rows, policy, bootLock, boot>>
      PROVE  TInv'
  <2>1. CASE task[p].op = "applying"
    <3>1. /\ task' = [task EXCEPT ![p] = [op |-> "restoring", to |-> policy,
                                         todo |-> {c \in Client : clients'[c] # NoClient}]]
          /\ UNCHANGED <<clientLock, policyLock, unrestored>>
      BY <1>7, <2>1 DEF Restore
    <3>2. TypeOK'
      BY <3>1, <1>7 DEF TypeOK, Task, Changing
    <3> QED
      BY <1>7, <3>2 DEF Shaped, Kept
  <2>2. CASE task[p].op = "restoring"
    <3>1. task' = [task EXCEPT ![p] = Idle] /\ unrestored' = TRUE /\ Unlock(p)
      BY <1>7, <2>2 DEF Restore
    <3>2. TypeOK'
      BY <3>1, <1>7, UnlockType DEF TypeOK, Task
    <3> QED
      BY <1>7, <3>2 DEF Shaped, Kept
  <2> QED
    BY <1>7, <2>1, <2>2 DEF Restore
<1>8. CASE PutFails(p)
  <2>1. task[p] \in Changing
    BY <1>8, <1>t, TaskShape DEF PutFails
  <2>2. PICK c \in task[p].todo :
           \/ UNCHANGED clients
           \/ /\ clients[c] # NoClient
              /\ clients' = [clients EXCEPT ![c].life = task[p].to]
    BY <1>8 DEF PutFails
  <2>3. c \in Client /\ task[p].to \in Policy
    BY <2>1, <2>2 DEF Changing
  <2>4. clients' \in [Client -> Registration \cup {NoClient}]
    BY <2>2, <2>3 DEF TypeOK, Registration
  <2> QED
    BY <1>7, <1>8, <2>4 DEF PutFails
<1>9. CASE StorePolicy(p)
  <2>1. task[p] \in Changing
    BY <1>9, <1>t, TaskShape DEF StorePolicy
  <2>2. TypeOK'
    BY <1>9, <2>1, UnlockType DEF StorePolicy, TypeOK, Task, Changing
  <2> QED
    BY <1>9, <2>2 DEF StorePolicy, Shaped, Kept
<1>10. CASE StoreFails(p)
  BY <1>7, <1>10 DEF StoreFails, TypeOK
<1>11. CASE Restored(p)
  <2>1. TypeOK'
    BY <1>11, UnlockType DEF Restored, TypeOK, Task
  <2> QED
    BY <1>11, <2>1 DEF Restored, Shaped, Kept
<1>12. CASE Abandon(p)
  <2>1. TypeOK'
    BY <1>12, UnlockType DEF Abandon, TypeOK, Task
  <2> QED
    BY <1>12, <2>1 DEF Abandon, Shaped, Kept
<1> QED
  BY <1>1, <1>2, <1>3, <1>4, <1>5, <1>6, <1>8, <1>9, <1>10, <1>11, <1>12 DEF RequestStep

\* A replica that moves on with a well-formed record, and with nothing changed
\* that the other replicas refer to, keeps the types.
LEMMA ReplicaMoves ==
    ASSUME TInv, NEW r \in Replica, NEW x \in Boot, boot' = [boot EXCEPT ![r] = x],
           /\ x.step \in {"checking", "reconciling", "locked", "written",
                          "undoing", "verifying"} => x.todo \subseteq DOMAIN x.config
           /\ x.step \in {"locked", "written", "undoing", "verifying"} =>
                x.slug \in DOMAIN x.config
           /\ x.step = "comparing" =>
                \A s \in Slug : x.listed[s] # NoRow /\ s \notin x.stale => rows'[s] # NoRow
           /\ x.step = "repairing" => \A s \in x.todo \ x.stale : rows'[s] # NoRow,
           \A s \in Slug : rows[s] # NoRow => rows'[s] # NoRow
    PROVE  boot' \in [Replica -> Boot] /\ Shaped' /\ Kept'
<1> USE DEF TInv
<1>1. boot' \in [Replica -> Boot]
  BY DEF TypeOK
<1>2. boot'[r] = x /\ \A q \in Replica \ {r} : boot'[q] = boot[q]
  BY DEF TypeOK
<1>3. Shaped'
  BY <1>2 DEF Shaped
<1>4. \A q \in Replica : boot[q].step = "repairing" => boot[q].todo \subseteq Slug
  BY BootShape DEF TypeOK, Repairing
<1>5. Kept'
  BY <1>2, <1>4 DEF Kept
<1> QED
  BY <1>1, <1>3, <1>5

LEMMA ReplicaTyped ==
    ASSUME TInv, NEW r \in Replica, ReplicaStep(r)
    PROVE  TInv'
<1> USE DEF TInv
<1>b. boot[r] \in Boot
  BY DEF TypeOK
<1>c. ASSUME NEW config \in Config
      PROVE  DOMAIN config \subseteq Slug
  BY ConfigAssumption
<1>d. Down \in Boot /\ Down.step = "down"
  BY DEF Down, Boot
<1>1. ASSUME NEW config \in Config, LockBootstrap(r, config) PROVE TInv'
  <2> DEFINE x == [step |-> "listing", config |-> config]
  <2>1. x \in Boot /\ x.step = "listing"
    BY DEF Boot, Between
  <2>2. boot' = [boot EXCEPT ![r] = x] /\ UNCHANGED rows
    BY <1>1 DEF LockBootstrap
  <2> HIDE DEF x
  <2>3. boot' \in [Replica -> Boot] /\ Shaped' /\ Kept'
    BY <2>1, <2>2, ReplicaMoves
  <2> QED
    BY <1>1, <2>3 DEF LockBootstrap, TypeOK
<1>2. CASE ListClients(r)
  <2> DEFINE x == [step |-> "checking", config |-> boot[r].config,
                   seen |-> Existing, todo |-> DOMAIN boot[r].config]
  <2>1. boot[r] \in Between
    BY <1>2, <1>b, BootShape DEF ListClients
  <2>2. boot[r].config \in Config
    BY <2>1 DEF Between
  <2>3. /\ x \in Visiting /\ x.step = "checking"
        /\ x.todo = DOMAIN boot[r].config /\ x.config = boot[r].config
    BY <2>2, <1>c DEF Visiting, Existing
  <2>4. x \in Boot
    BY <2>3 DEF Boot
  <2>5. boot' = [boot EXCEPT ![r] = x] /\ UNCHANGED rows
    BY <1>2 DEF ListClients
  <2> HIDE DEF x
  <2>6. boot' \in [Replica -> Boot] /\ Shaped' /\ Kept'
    BY <2>3, <2>4, <2>5, ReplicaMoves
  <2> QED
    BY <1>2, <2>6 DEF ListClients, TypeOK
<1>3. ASSUME NEW s \in Slug, CheckOwnership(r, s) PROVE TInv'
  <2> DEFINE x == [boot[r] EXCEPT !.todo = @ \ {s}]
  <2>1. boot[r] \in Visiting /\ boot[r].step = "checking"
    BY <1>3, <1>b, BootShape DEF CheckOwnership
  <2>2. /\ x \in Visiting /\ x.step = "checking"
        /\ x.todo \subseteq boot[r].todo /\ x.config = boot[r].config
    BY <2>1 DEF Visiting
  <2>3. x \in Boot
    BY <2>2 DEF Boot
  <2>4. boot' = [boot EXCEPT ![r] = x] /\ UNCHANGED rows
    BY <1>3 DEF CheckOwnership
  <2>5. x.todo \subseteq DOMAIN x.config
    BY <2>1, <2>2 DEF Shaped
  <2> HIDE DEF x
  <2>6. boot' \in [Replica -> Boot] /\ Shaped' /\ Kept'
    BY <2>2, <2>3, <2>4, <2>5, ReplicaMoves
  <2> QED
    BY <1>3, <2>6 DEF CheckOwnership, TypeOK
<1>4. CASE Checked(r)
  <2> DEFINE x == [boot[r] EXCEPT !.step = "reconciling", !.todo = DOMAIN boot[r].config]
  <2>1. boot[r] \in Visiting
    BY <1>4, <1>b, BootShape DEF Checked
  <2>2. boot[r].config \in Config
    BY <2>1 DEF Visiting
  <2>3. /\ x \in Visiting /\ x.step = "reconciling"
        /\ x.todo = DOMAIN boot[r].config /\ x.config = boot[r].config
    BY <2>1, <2>2, <1>c DEF Visiting
  <2>4. x \in Boot
    BY <2>3 DEF Boot
  <2>5. boot' = [boot EXCEPT ![r] = x] /\ UNCHANGED rows
    BY <1>4 DEF Checked
  <2> HIDE DEF x
  <2>6. boot' \in [Replica -> Boot] /\ Shaped' /\ Kept'
    BY <2>3, <2>4, <2>5, ReplicaMoves
  <2> QED
    BY <1>4, <2>6 DEF Checked, TypeOK
<1>5. ASSUME NEW s \in Slug, LockRegistration(r, s) PROVE TInv'
  <2> DEFINE x == [step |-> "locked", config |-> boot[r].config, seen |-> boot[r].seen,
                   todo |-> boot[r].todo, slug |-> s]
  <2>1. boot[r] \in Visiting /\ boot[r].step = "reconciling" /\ s \in boot[r].todo
    BY <1>5, <1>b, BootShape DEF LockRegistration
  <2>2. /\ x \in Writing /\ x.step = "locked"
        /\ x.todo = boot[r].todo /\ x.config = boot[r].config /\ x.slug = s
    BY <2>1 DEF Visiting, Writing
  <2>3. x \in Boot
    BY <2>2 DEF Boot
  <2>4. boot' = [boot EXCEPT ![r] = x] /\ UNCHANGED rows
    BY <1>5 DEF LockRegistration
  <2>5. x.todo \subseteq DOMAIN x.config /\ x.slug \in DOMAIN x.config
    BY <2>1, <2>2 DEF Shaped
  <2> HIDE DEF x
  <2>6. boot' \in [Replica -> Boot] /\ Shaped' /\ Kept'
    BY <2>2, <2>3, <2>4, <2>5, ReplicaMoves
  <2> QED
    BY <1>5, <2>6 DEF LockRegistration, Lock, TypeOK
\* Steps inside the client lock move from one step of Writing to another.
<1>w. ASSUME NEW next \in {"written", "undoing", "verifying"},
             boot[r].step \in {"locked", "written"},
             boot' = [boot EXCEPT ![r].step = next], UNCHANGED rows
      PROVE  boot' \in [Replica -> Boot] /\ Shaped' /\ Kept'
  <2> DEFINE x == [boot[r] EXCEPT !.step = next]
  <2>1. boot[r] \in Writing
    BY <1>w, <1>b, BootShape
  <2>2. /\ x \in Writing /\ x.step = next /\ x.todo = boot[r].todo
        /\ x.config = boot[r].config /\ x.slug = boot[r].slug
    BY <2>1, <1>w DEF Writing
  <2>3. x \in Boot
    BY <2>2 DEF Boot
  <2>4. x.todo \subseteq DOMAIN x.config /\ x.slug \in DOMAIN x.config
    BY <1>w, <2>2 DEF Shaped
  <2>5. boot' = [boot EXCEPT ![r] = x]
    BY <1>w
  <2> HIDE DEF x
  <2> QED
    BY <1>w, <2>2, <2>3, <2>4, <2>5, ReplicaMoves
<1>6. CASE WriteClient(r)
  <2>1. boot' \in [Replica -> Boot] /\ Shaped' /\ Kept'
    BY <1>6, <1>w DEF WriteClient
  <2>2. clients' \in [Client -> Registration \cup {NoClient}]
    BY <1>6, CurrentIsEntry DEF WriteClient, TypeOK, Registration
  <2> QED
    BY <1>6, <2>1, <2>2 DEF WriteClient, TypeOK
<1>7. CASE ReconcileRow(r)
  <2>1. boot' \in [Replica -> Boot] /\ Shaped' /\ Kept'
    BY <1>7, <1>w DEF ReconcileRow
  <2> QED
    BY <1>7, <2>1 DEF ReconcileRow, TypeOK
<1>8. CASE ReconcileFails(r)
  <2>1. boot' \in [Replica -> Boot] /\ Shaped' /\ Kept'
    BY <1>8, <1>w DEF ReconcileFails
  <2> QED
    BY <1>8, <2>1 DEF ReconcileFails, TypeOK
\* A start that ends, with or without success.
<1>e. ASSUME StartEnds(r), clients' \in [Client -> Registration \cup {NoClient}],
             UNCHANGED <<rows, policy, task, unrestored>>
      PROVE  TInv'
  <2>1. boot' \in [Replica -> Boot] /\ Shaped' /\ Kept'
    BY <1>e, <1>d, ReplicaMoves DEF StartEnds
  <2> QED
    BY <1>e, <2>1, UnlockType DEF StartEnds, TypeOK
<1>9. CASE UndoClient(r)
  <2>1. clients' \in [Client -> Registration \cup {NoClient}]
    BY <1>9 DEF UndoClient, TypeOK
  <2> QED
    BY <1>9, <1>e, <2>1 DEF UndoClient
<1>10. CASE VerifyClient(r)
  <2> DEFINE x == [step |-> "reconciling", config |-> boot[r].config,
                   seen |-> boot[r].seen, todo |-> boot[r].todo \ {boot[r].slug}]
  <2>1. boot[r] \in Writing /\ Current(r) \in Entry
    BY <1>10, CurrentIsEntry DEF VerifyClient
  <2>2. /\ x \in Visiting /\ x.step = "reconciling"
        /\ x.todo \subseteq boot[r].todo /\ x.config = boot[r].config
    BY <2>1 DEF Visiting, Writing
  <2>3. x \in Boot
    BY <2>2 DEF Boot
  <2>4. x.todo \subseteq DOMAIN x.config
    BY <1>10, <2>2 DEF Shaped, VerifyClient
  <2>5. /\ rows' \in [Slug -> Entry \cup {NoRow}]
        /\ \A s \in Slug : rows[s] # NoRow => rows'[s] # NoRow
    BY <1>10, <2>1, NamesAssumption DEF VerifyClient, TypeOK
  <2>6. boot' = [boot EXCEPT ![r] = x]
    BY <1>10 DEF VerifyClient
  <2> HIDE DEF x
  <2>7. boot' \in [Replica -> Boot] /\ Shaped' /\ Kept'
    BY <2>2, <2>3, <2>4, <2>5, <2>6, ReplicaMoves
  <2> QED
    BY <1>10, <2>5, <2>7, UnlockType DEF VerifyClient, TypeOK
<1>11. CASE Reconciled(r)
  <2> DEFINE x == [step |-> "asserting", config |-> boot[r].config]
  <2>1. boot[r] \in Visiting
    BY <1>11, <1>b, BootShape DEF Reconciled
  <2>2. x \in Boot /\ x.step = "asserting"
    BY <2>1 DEF Boot, Between, Visiting
  <2>3. boot' = [boot EXCEPT ![r] = x] /\ UNCHANGED rows
    BY <1>11 DEF Reconciled
  <2> HIDE DEF x
  <2>4. boot' \in [Replica -> Boot] /\ Shaped' /\ Kept'
    BY <2>2, <2>3, ReplicaMoves
  <2> QED
    BY <1>11, <2>4 DEF Reconciled, TypeOK
<1>12. CASE ListApps(r)
  <2> DEFINE x == [step |-> "comparing", config |-> boot[r].config,
                   listed |-> rows, stale |-> {}]
  <2>1. boot[r] \in Between
    BY <1>12, <1>b, BootShape DEF ListApps
  <2>2. x \in Comparing /\ x.step = "comparing" /\ x.listed = rows
    BY <2>1 DEF Comparing, Between, TypeOK
  <2>3. x \in Boot
    BY <2>2 DEF Boot
  <2>4. boot' = [boot EXCEPT ![r] = x] /\ UNCHANGED rows
    BY <1>12 DEF ListApps
  <2> HIDE DEF x
  <2>5. boot' \in [Replica -> Boot] /\ Shaped' /\ Kept'
    BY <2>2, <2>3, <2>4, ReplicaMoves
  <2> QED
    BY <1>12, <2>5 DEF ListApps, TypeOK
<1>13. CASE CompareClients(r)
  <2> DEFINE listed == boot[r].listed
             apps == {s \in Slug : listed[s] # NoRow}
             live == [s \in apps |-> clients[listed[s].client].contract]
             any == CHOOSE k \in Contract : TRUE
             x == [step |-> "repairing", config |-> boot[r].config,
                   live |-> [s \in Slug |-> IF s \in apps THEN live[s] ELSE any],
                   todo |-> {s \in apps : listed[s].contract # live[s]},
                   stale |-> boot[r].stale]
  <2>1. boot[r] \in Comparing
    BY <1>13, <1>b, BootShape DEF CompareClients
  <2>2. any \in Contract
    BY NamesAssumption
  <2>3. ASSUME NEW s \in apps PROVE live[s] \in Contract
    <3>1. listed[s] \in Entry
      BY <2>1 DEF Comparing
    <3>2. listed[s].client \in Client
      BY <3>1 DEF Entry
    <3>3. clients[listed[s].client] \in Registration
      BY <1>13, <3>2 DEF CompareClients, TypeOK
    <3> QED
      BY <3>3 DEF Registration
  <2>4. [s \in Slug |-> IF s \in apps THEN live[s] ELSE any] \in [Slug -> Contract]
    <3> HIDE DEF any, live
    <3> QED
      BY <2>2, <2>3
  <2>5. x \in Repairing /\ x.step = "repairing"
    <3>1. boot[r].config \in Config /\ boot[r].stale \in SUBSET Slug
      BY <2>1 DEF Comparing
    <3>2. {s \in apps : listed[s].contract # live[s]} \in SUBSET Slug
      OBVIOUS
    <3> HIDE DEF any, live
    <3> QED
      BY <3>1, <3>2, <2>4 DEF Repairing
  <2>6. x \in Boot
    BY <2>5 DEF Boot
  <2>7. boot' = [boot EXCEPT ![r] = x] /\ UNCHANGED rows
    BY <1>13 DEF CompareClients
  <2>8. \A s \in x.todo \ x.stale : rows'[s] # NoRow
    BY <1>13, <2>7 DEF Kept, CompareClients
  <2> HIDE DEF x
  <2>9. boot' \in [Replica -> Boot] /\ Shaped' /\ Kept'
    BY <2>5, <2>6, <2>7, <2>8, ReplicaMoves
  <2> QED
    BY <1>13, <2>9 DEF CompareClients, TypeOK
<1>14. ASSUME NEW s \in Slug, RepairContract(r, s) PROVE TInv'
  <2> DEFINE x == [boot[r] EXCEPT !.todo = @ \ {s}]
  <2>1. boot[r] \in Repairing /\ boot[r].step = "repairing"
    BY <1>14, <1>b, BootShape DEF RepairContract
  <2>2. /\ x \in Repairing /\ x.step = "repairing"
        /\ x.todo \subseteq boot[r].todo /\ x.stale = boot[r].stale
    BY <2>1 DEF Repairing
  <2>3. x \in Boot
    BY <2>2 DEF Boot
  <2>4. rows[s] # NoRow /\ boot[r].live[s] \in Contract
    BY <1>14, <2>1 DEF RepairContract, Kept, Repairing
  <2>5. [rows[s] EXCEPT !.contract = boot[r].live[s]] \in Entry
    BY <2>4 DEF TypeOK, Entry
  <2>6. /\ rows' \in [Slug -> Entry \cup {NoRow}]
        /\ \A t \in Slug : rows[t] # NoRow => rows'[t] # NoRow
    BY <1>14, <2>5, NamesAssumption DEF RepairContract, TypeOK
  <2>7. boot' = [boot EXCEPT ![r] = x]
    BY <1>14 DEF RepairContract
  <2>8. \A t \in x.todo \ x.stale : rows'[t] # NoRow
    BY <2>1, <2>2, <2>6 DEF Kept, Repairing
  <2> HIDE DEF x
  <2>9. boot' \in [Replica -> Boot] /\ Shaped' /\ Kept'
    BY <2>2, <2>3, <2>6, <2>7, <2>8, ReplicaMoves
  <2> QED
    BY <1>14, <2>6, <2>9 DEF RepairContract, TypeOK
<1>15. CASE Start(r)
  BY <1>15, <1>e DEF Start, TypeOK
<1>16. CASE StartFails(r)
  <2>1. clients' \in [Client -> Registration \cup {NoClient}]
    BY <1>16, CurrentIsEntry DEF StartFails, TypeOK, Registration
  <2> QED
    BY <1>16, <1>e, <2>1 DEF StartFails
<1> QED
  BY <1>1, <1>2, <1>3, <1>4, <1>5, <1>6, <1>7, <1>8, <1>9, <1>10, <1>11, <1>12,
     <1>13, <1>14, <1>15, <1>16 DEF ReplicaStep

LEMMA NextTyped == TInv /\ [Next]_vars => TInv'
<1> USE DEF TInv
<1> SUFFICES ASSUME TInv, [Next]_vars PROVE TInv'
  OBVIOUS
<1>1. ASSUME NEW c \in Client, NEW k \in Contract, RegisterClient(c, k) PROVE TInv'
  <2>1. TypeOK'
    BY <1>1 DEF RegisterClient, TypeOK, Registration
  <2> QED
    BY <1>1, <2>1 DEF RegisterClient, Shaped, Kept
<1>2. ASSUME NEW s \in Slug, DeleteApp(s) PROVE TInv'
  <2>1. ASSUME NEW r \in Replica
        PROVE  /\ boot'[r] \in Boot
               /\ boot'[r].step = boot[r].step
               /\ boot[r].step \notin {"comparing", "repairing"} => boot'[r] = boot[r]
               /\ boot[r].step = "comparing" =>
                     /\ boot'[r].listed = boot[r].listed
                     /\ boot'[r].stale = boot[r].stale \cup {s}
               /\ boot[r].step = "repairing" =>
                     /\ boot'[r].todo = boot[r].todo
                     /\ boot'[r].stale = boot[r].stale \cup {s}
    <3>1. boot[r] \in Boot
      BY DEF TypeOK
    <3>2. CASE boot[r].step = "comparing"
      <4>1. boot[r] \in Comparing /\ boot'[r] = [boot[r] EXCEPT !.stale = @ \cup {s}]
        BY <1>2, <3>1, <3>2, BootShape DEF DeleteApp
      <4> QED
        BY <3>2, <4>1 DEF Boot, Comparing
    <3>3. CASE boot[r].step = "repairing"
      <4>1. boot[r] \in Repairing /\ boot'[r] = [boot[r] EXCEPT !.stale = @ \cup {s}]
        BY <1>2, <3>1, <3>3, BootShape DEF DeleteApp
      <4> QED
        BY <3>3, <4>1 DEF Boot, Repairing
    <3> QED
      BY <1>2, <3>1, <3>2, <3>3 DEF DeleteApp
  <2>2. boot' \in [Replica -> Boot]
    BY <1>2, <2>1 DEF DeleteApp
  <2>3. TypeOK'
    BY <1>2, <2>2 DEF DeleteApp, TypeOK
  <2>4. Shaped'
    BY <2>1 DEF Shaped
  <2>5. \A r \in Replica : boot[r].step = "repairing" => boot[r].todo \subseteq Slug
    BY BootShape DEF TypeOK, Repairing
  <2>6. Kept'
    BY <1>2, <2>1, <2>5 DEF Kept, DeleteApp, TypeOK
  <2> QED
    BY <2>3, <2>4, <2>6
<1>3. CASE UNCHANGED vars
  BY <1>3 DEF vars, TypeOK, Shaped, Kept
<1> QED
  BY <1>1, <1>2, <1>3, RequestTyped, ReplicaTyped DEF Next

\* Every variable keeps its type through every step of ClientRegistry.tla:
\* what a replica repairs it has listed and still finds, what it writes its
\* configuration declares.
THEOREM TypeCorrect == Spec => []TypeOK
<1>1. TInv => TypeOK
  BY DEF TInv
<1> QED
  BY <1>1, InitTyped, NextTyped, PTL DEF Spec

-----------------------------------------------------------------------------
\* Apps have their clients

\* Whoever works on a client holds its lock.
Holding ==
    /\ \A p \in Request : task[p].op \in {"deleting", "creating"} =>
          clientLock[task[p].client] = p
    /\ \A r \in Replica : boot[r].step \in {"locked", "written", "undoing", "verifying"} =>
          clientLock[Current(r).client] = r

\* What the lock's holder has read of the client is still so.
Known ==
    /\ \A p \in Request :
          /\ task[p].op = "creating" => clients[task[p].client] # NoClient
          /\ task[p].op = "deleting" => ~Uses(task[p].client)
    /\ \A r \in Replica :
          /\ boot[r].step \in {"written", "verifying"} => clients[Current(r).client] # NoClient
          /\ boot[r].step = "written" /\ Current(r).client \notin boot[r].seen =>
                ~Uses(Current(r).client)
          /\ boot[r].step = "undoing" => ~Uses(Current(r).client)

RInv == TInv /\ Holding /\ Known /\ AppsHaveClients

\* The clients requests and replicas work on are clients.
LEMMA Named ==
    ASSUME TInv
    PROVE  /\ \A p \in Request : task[p].op \in {"deleting", "creating"} =>
                  task[p].client \in Client
           /\ \A r \in Replica :
                  boot[r].step \in {"locked", "written", "undoing", "verifying"} =>
                      Current(r).client \in Client
           /\ \A s \in Slug : rows[s] # NoRow => rows[s].client \in Client
<1>1. \A p \in Request : task[p].op \in {"deleting", "creating"} => task[p].client \in Client
  BY TaskShape DEF TInv, TypeOK, Deleting, Creating
<1>2. \A r \in Replica : boot[r].step \in {"locked", "written", "undoing", "verifying"} =>
          Current(r).client \in Client
  BY CurrentIsEntry DEF TInv
<1>3. \A s \in Slug : rows[s] # NoRow => rows[s].client \in Client
  BY DEF TInv, TypeOK, Entry
<1> QED
  BY <1>1, <1>2, <1>3

\* The part of Holding and Known that is about one process.
Mine(p) ==
    /\ p \in Request =>
          /\ task[p].op \in {"deleting", "creating"} => clientLock[task[p].client] = p
          /\ task[p].op = "creating" => clients[task[p].client] # NoClient
          /\ task[p].op = "deleting" => ~Uses(task[p].client)
    /\ p \in Replica =>
          /\ boot[p].step \in {"locked", "written", "undoing", "verifying"} =>
                clientLock[Current(p).client] = p
          /\ boot[p].step \in {"written", "verifying"} => clients[Current(p).client] # NoClient
          /\ boot[p].step = "written" /\ Current(p).client \notin boot[p].seen =>
                ~Uses(Current(p).client)
          /\ boot[p].step = "undoing" => ~Uses(Current(p).client)

LEMMA MineSuffices == (\A p \in Request \cup Replica : Mine(p)) <=> Holding /\ Known
<1>1. (\A p \in Request \cup Replica : Mine(p)) => Holding /\ Known
  BY DEF Mine, Holding, Known
<1>2. Holding /\ Known => \A p \in Request \cup Replica : Mine(p)
  BY DEF Mine, Holding, Known
<1> QED
  BY <1>1, <1>2

Working == {"locked", "written", "undoing", "verifying"}

\* What a step of p may do to the others: it leaves their records and their
\* locks alone, deletes no client and adds no row unless p holds the client's
\* lock.
Frame(p) ==
    /\ \A c \in Client : clientLock[c] \notin {p, Nobody} => clientLock'[c] = clientLock[c]
    /\ \A q \in Request \ {p} : task'[q] = task[q]
    /\ \A q \in Replica \ {p} : /\ boot'[q].step = boot[q].step
                                /\ boot[q].step \in Working => boot'[q] = boot[q]
    /\ \A c \in Client : clients[c] # NoClient /\ clientLock[c] # p => clients'[c] # NoClient
    /\ \A c \in Client : Uses(c)' => Uses(c) \/ clientLock[c] = p

\* The others then rely on what still holds.
LEMMA FrameKeeps ==
    ASSUME RInv, NEW p \in Request \cup Replica \cup {Nobody}, Frame(p),
           NEW q \in (Request \cup Replica) \ {p}
    PROVE  Mine(q)'
<1>1. Mine(q)
  BY MineSuffices DEF RInv
<1>2. CASE q \in Request
  <2>1. q \notin Replica /\ q # Nobody /\ task'[q] = task[q]
    BY <1>2, NamesAssumption DEF Frame
  <2>2. task[q].op \in {"deleting", "creating"} => task[q].client \in Client
    BY <1>2, Named DEF RInv
  <2> QED
    BY <1>1, <1>2, <2>1, <2>2 DEF Mine, Frame
<1>3. CASE q \in Replica
  <2>1. q \notin Request /\ q # Nobody
    BY <1>3, NamesAssumption
  <2>2. CASE boot[q].step \in Working
    <3>1. boot'[q] = boot[q] /\ Current(q).client \in Client
      BY <1>3, <2>2, Named DEF RInv, Frame, Working
    <3>2. Current(q)' = Current(q)
      BY <3>1 DEF Current
    <3>3. clientLock[Current(q).client] = q
      BY <1>1, <1>3, <2>2 DEF Mine, Working
    <3>4. clientLock'[Current(q).client] = q
      BY <3>1, <3>3, <2>1 DEF Frame
    <3>5. clients[Current(q).client] # NoClient => clients'[Current(q).client] # NoClient
      BY <3>1, <3>3 DEF Frame
    <3>6. ~Uses(Current(q).client) => ~Uses(Current(q).client)'
      <4> DEFINE c == Current(q).client
      <4>1. c' = c
        BY <3>2
      <4> QED
        BY <3>1, <3>2, <3>3 DEF Frame, Uses
    <3> QED
      BY <1>1, <1>3, <2>1, <3>1, <3>2, <3>4, <3>5, <3>6 DEF Mine
  <2>3. CASE boot[q].step \notin Working
    <3>1. boot'[q].step \notin Working
      BY <1>3, <2>3 DEF Frame
    <3> QED
      BY <2>1, <3>1 DEF Mine, Working
  <2> QED
    BY <2>2, <2>3
<1> QED
  BY <1>2, <1>3

\* It remains to see to p itself and to the apps.
LEMMA StepKeeps ==
    ASSUME RInv, TInv', NEW p \in Request \cup Replica \cup {Nobody}, Frame(p),
           p # Nobody => Mine(p)', AppsHaveClients'
    PROVE  RInv'
<1>1. \A q \in Request \cup Replica : Mine(q)'
  BY FrameKeeps, NamesAssumption
<1>2. Holding' /\ Known'
  BY <1>1 DEF Mine, Holding, Known
<1> QED
  BY <1>2 DEF RInv

\* The end of a transaction, and a lock that is taken, change no other lock.
LEMMA UnlockKeeps ==
    ASSUME TypeOK, NEW p, Unlock(p), NEW c \in Client, clientLock[c] \notin {p, Nobody}
    PROVE  clientLock'[c] = clientLock[c]
BY DEF Unlock, TypeOK

LEMMA LockKeeps ==
    ASSUME TypeOK, NEW p, NEW c \in Client, Lock(p, c)
    PROVE  /\ clientLock'[c] = p
           /\ \A d \in Client : clientLock[d] \notin {p, Nobody} => clientLock'[d] = clientLock[d]
BY DEF Lock, TypeOK

\* A request that ends has nothing left to rely on.
LEMMA IdleMine ==
    ASSUME TypeOK, NEW p \in Request, task' = [task EXCEPT ![p] = Idle]
    PROVE  Mine(p)'
BY NamesAssumption DEF TypeOK, Mine, Idle

LEMMA RequestKeeps ==
    ASSUME RInv, TInv', NEW p \in Request, RequestStep(p)
    PROVE  RInv'
<1> USE DEF RInv, TInv
<1>p. p \notin Replica /\ p # Nobody
  BY NamesAssumption
<1>t. task[p] \in Task
  BY DEF TypeOK
\* Most steps keep the catalog and the set of the clients.
<1>q. ASSUME UNCHANGED <<rows, boot>>,
             \A c \in Client : clients'[c] # NoClient <=> clients[c] # NoClient,
             \A q \in Request \ {p} : task'[q] = task[q],
             \A c \in Client : clientLock[c] \notin {p, Nobody} => clientLock'[c] = clientLock[c],
             Mine(p)'
      PROVE  RInv'
  <2>1. Frame(p)
    BY <1>q DEF Frame, Uses
  <2>2. AppsHaveClients'
    BY <1>q, Named DEF AppsHaveClients
  <2> QED
    BY <1>q, <2>1, <2>2, StepKeeps
<1>1. ASSUME NEW c \in Client, DeleteClient(p, c) PROVE RInv'
  <2>1. Mine(p)'
    BY <1>1, <1>p, LockKeeps DEF DeleteClient, Mine, TypeOK, Uses
  <2> QED
    BY <1>1, <1>q, <2>1, LockKeeps DEF DeleteClient, TypeOK
<1>2. CASE DeleteHydraClient(p)
  <2> DEFINE c == task[p].client
  <2>1. c \in Client /\ clientLock[c] = p /\ ~Uses(c)
    BY <1>2, Named DEF DeleteHydraClient, Holding, Known
  <2>2. clients' = [clients EXCEPT ![c] = NoClient] /\ UNCHANGED <<rows, boot>>
    BY <1>2 DEF DeleteHydraClient
  <2> HIDE DEF c
  <2>3. \A d \in Client \ {c} : clients'[d] = clients[d]
    BY <2>2 DEF TypeOK
  <2>4. Frame(p)
    BY <1>2, <2>1, <2>2, <2>3, UnlockKeeps DEF Frame, DeleteHydraClient, TypeOK, Uses
  <2>5. AppsHaveClients'
    BY <2>1, <2>2, <2>3, Named DEF AppsHaveClients, Uses
  <2>6. Mine(p)'
    BY <1>2, IdleMine DEF DeleteHydraClient
  <2> QED
    BY <2>4, <2>5, <2>6, StepKeeps
<1>3. ASSUME NEW s \in Slug, NEW c \in Client, CreateApp(p, s, c) PROVE RInv'
  <2>1. Mine(p)'
    BY <1>3, <1>p, LockKeeps DEF CreateApp, Verified, Mine, TypeOK
  <2> QED
    BY <1>3, <1>q, <2>1, LockKeeps DEF CreateApp, Verified, TypeOK
<1>4. CASE CreateManagedApp(p)
  <2> DEFINE c == task[p].client
  <2>1. /\ c \in Client /\ clientLock[c] = p /\ clients[c] # NoClient
        /\ task[p].slug \in Slug
    BY <1>4, <1>t, Named, TaskShape DEF CreateManagedApp, Holding, Known, Creating
  <2>2. /\ UNCHANGED <<clients, boot>>
        /\ \A s \in Slug : rows'[s] = rows[s] \/ rows'[s].client = c
    BY <1>4, <2>1 DEF CreateManagedApp, TypeOK
  <2> HIDE DEF c
  <2>3. \A d \in Client : Uses(d)' => Uses(d) \/ clientLock[d] = p
    BY <2>1, <2>2 DEF Uses
  <2>4. Frame(p)
    BY <1>4, <2>2, <2>3, UnlockKeeps DEF Frame, CreateManagedApp, TypeOK
  <2>5. AppsHaveClients'
    BY <2>1, <2>2 DEF AppsHaveClients
  <2>6. Mine(p)'
    BY <1>4, IdleMine DEF CreateManagedApp
  <2> QED
    BY <2>4, <2>5, <2>6, StepKeeps
<1>5. ASSUME NEW to \in Policy, ChangePolicy(p, to) PROVE RInv'
  <2>1. Mine(p)'
    BY <1>5, <1>p DEF ChangePolicy, Mine, TypeOK
  <2> QED
    BY <1>5, <1>q, <2>1 DEF ChangePolicy, TypeOK
<1>6. CASE PutLifespans(p)
  <2>1. task[p] \in Changing /\ task[p].op \in {"applying", "restoring"}
    BY <1>6, <1>t, TaskShape DEF PutLifespans
  <2>2. PICK c \in task[p].todo :
           /\ clients[c] # NoClient
           /\ clients' = [clients EXCEPT ![c].life = task[p].to]
           /\ task' = [task EXCEPT ![p].todo = @ \ {c}]
    BY <1>6 DEF PutLifespans
  <2>3. task'[p].op = task[p].op
    BY <2>1, <2>2 DEF TypeOK, Changing
  <2>4. Mine(p)'
    BY <1>p, <2>1, <2>3 DEF Mine
  <2>5. c \in Client
    BY <2>1 DEF Changing
  <2>6. [clients[c] EXCEPT !.life = task[p].to] \in Registration
    BY <2>1, <2>2, <2>5 DEF TypeOK, Registration, Changing
  <2>7. \A d \in Client : clients'[d] # NoClient <=> clients[d] # NoClient
    BY <2>2, <2>5, <2>6, NamesAssumption DEF TypeOK, Registration
  <2> QED
    BY <1>6, <1>q, <2>2, <2>4, <2>7 DEF PutLifespans, TypeOK
<1>7. ASSUME Restore(p), UNCHANGED <<rows, boot>>,
             \A c \in Client : clients'[c] # NoClient <=> clients[c] # NoClient
      PROVE  RInv'
  <2>1. CASE task[p].op = "applying"
    <3>1. Mine(p)'
      BY <1>7, <1>p, <2>1 DEF Restore, Mine, TypeOK
    <3> QED
      BY <1>7, <1>q, <2>1, <3>1 DEF Restore, TypeOK
  <2>2. CASE task[p].op = "restoring"
    <3>1. Mine(p)'
      BY <1>7, <2>2, IdleMine DEF Restore
    <3> QED
      BY <1>7, <1>q, <2>2, <3>1, UnlockKeeps DEF Restore, TypeOK
  <2> QED
    BY <1>7, <2>1, <2>2 DEF Restore
<1>8. CASE PutFails(p)
  <2>1. task[p] \in Changing
    BY <1>8, <1>t, TaskShape DEF PutFails
  <2>2. PICK c \in task[p].todo :
           \/ UNCHANGED clients
           \/ /\ clients[c] # NoClient
              /\ clients' = [clients EXCEPT ![c].life = task[p].to]
    BY <1>8 DEF PutFails
  <2>3. CASE UNCHANGED clients
    BY <1>7, <1>8, <2>3 DEF PutFails
  <2>4. CASE clients[c] # NoClient /\ clients' = [clients EXCEPT ![c].life = task[p].to]
    <3>1. c \in Client
      BY <2>1 DEF Changing
    <3>2. [clients[c] EXCEPT !.life = task[p].to] \in Registration
      BY <2>1, <2>4, <3>1 DEF TypeOK, Registration, Changing
    <3>3. \A d \in Client : clients'[d] # NoClient <=> clients[d] # NoClient
      BY <2>4, <3>1, <3>2, NamesAssumption DEF TypeOK, Registration
    <3> QED
      BY <1>7, <1>8, <3>3 DEF PutFails
  <2> QED
    BY <2>2, <2>3, <2>4
<1>9. CASE StorePolicy(p)
  BY <1>9, <1>q, IdleMine, UnlockKeeps DEF StorePolicy, TypeOK
<1>10. CASE StoreFails(p)
  BY <1>7, <1>10 DEF StoreFails
<1>11. CASE Restored(p)
  BY <1>11, <1>q, IdleMine, UnlockKeeps DEF Restored, TypeOK
<1>12. CASE Abandon(p)
  BY <1>12, <1>q, IdleMine, UnlockKeeps DEF Abandon, TypeOK
<1> QED
  BY <1>1, <1>2, <1>3, <1>4, <1>5, <1>6, <1>8, <1>9, <1>10, <1>11, <1>12 DEF RequestStep

LEMMA ReplicaKeeps ==
    ASSUME RInv, TInv', NEW r \in Replica, ReplicaStep(r)
    PROVE  RInv'
<1> USE DEF RInv, TInv
<1>r. r \notin Request /\ r # Nobody
  BY NamesAssumption
<1>b. boot[r] \in Boot
  BY DEF TypeOK
\* A replica outside a client's lock relies on nothing.
<1>m. ASSUME boot'[r].step \notin Working PROVE Mine(r)'
  BY <1>m, <1>r DEF Mine, Working
\* Steps that keep the catalog, the clients and the requests.
<1>q. ASSUME UNCHANGED <<rows, task>>, NEW x, boot' = [boot EXCEPT ![r] = x],
             \A c \in Client : clients[c] # NoClient => clients'[c] # NoClient,
             \A c \in Client : clientLock[c] \notin {r, Nobody} => clientLock'[c] = clientLock[c],
             Mine(r)'
      PROVE  RInv'
  <2>1. Frame(r)
    BY <1>q DEF Frame, Uses, TypeOK
  <2>2. AppsHaveClients'
    BY <1>q, Named DEF AppsHaveClients
  <2> QED
    BY <1>q, <2>1, <2>2, StepKeeps
<1>1. ASSUME NEW config \in Config, LockBootstrap(r, config) PROVE RInv'
  <2>1. Mine(r)'
    BY <1>1, <1>m DEF LockBootstrap, TypeOK, Working
  <2> QED
    BY <1>1, <1>q, <2>1 DEF LockBootstrap
<1>2. CASE ListClients(r)
  <2>1. Mine(r)'
    BY <1>2, <1>m DEF ListClients, TypeOK, Working
  <2> QED
    BY <1>2, <1>q, <2>1 DEF ListClients
<1>3. ASSUME NEW s \in Slug, CheckOwnership(r, s) PROVE RInv'
  <2>1. boot[r] \in Visiting
    BY <1>3, <1>b, BootShape DEF CheckOwnership
  <2>2. boot'[r].step = "checking"
    BY <1>3, <2>1 DEF CheckOwnership, TypeOK, Visiting
  <2>3. Mine(r)'
    BY <2>2, <1>m DEF Working
  <2> QED
    BY <1>3, <1>q, <2>3 DEF CheckOwnership
<1>4. CASE Checked(r)
  <2>1. boot[r] \in Visiting
    BY <1>4, <1>b, BootShape DEF Checked
  <2>2. boot'[r].step = "reconciling"
    BY <1>4, <2>1 DEF Checked, TypeOK, Visiting
  <2>3. Mine(r)'
    BY <2>2, <1>m DEF Working
  <2> QED
    BY <1>4, <1>q, <2>3 DEF Checked
<1>5. ASSUME NEW s \in Slug, LockRegistration(r, s) PROVE RInv'
  <2> DEFINE c == boot[r].config[s].client
  <2>1. boot[r] \in Visiting /\ s \in DOMAIN boot[r].config
    BY <1>5, <1>b, BootShape DEF LockRegistration, Shaped
  <2>2. c \in Client
    BY <2>1, ConfigAssumption DEF Visiting, Entry
  <2>3. boot'[r].step = "locked" /\ Current(r)'.client = c
    BY <1>5 DEF LockRegistration, TypeOK, Current
  <2>4. Lock(r, c)
    BY <1>5 DEF LockRegistration
  <2> HIDE DEF c
  <2>5. Mine(r)'
    BY <1>r, <2>2, <2>3, <2>4, LockKeeps DEF Mine
  <2> QED
    BY <1>5, <1>q, <2>2, <2>4, <2>5, LockKeeps DEF LockRegistration
\* Inside the lock the registration stays the same.
<1>w. ASSUME NEW next \in Working, boot[r].step \in Working,
             boot' = [boot EXCEPT ![r].step = next]
      PROVE  /\ boot'[r].step = next /\ Current(r)' = Current(r)
             /\ boot'[r].seen = boot[r].seen
             /\ Current(r).client \in Client /\ clientLock[Current(r).client] = r
  <2>1. boot[r] \in Writing /\ Current(r).client \in Client
    BY <1>w, CurrentIsEntry DEF Working
  <2>2. boot'[r] = [boot[r] EXCEPT !.step = next]
    BY <1>w DEF TypeOK
  <2> QED
    BY <1>w, <2>1, <2>2 DEF Writing, Current, Holding, Working
<1>6. CASE WriteClient(r)
  <2> DEFINE c == Current(r).client
  <2>1. /\ boot'[r].step = "written" /\ Current(r)'.client = c
        /\ boot'[r].seen = boot[r].seen /\ c \in Client /\ clientLock[c] = r
    BY <1>6, <1>w DEF WriteClient, Working
  <2>2. UNCHANGED <<rows, clientLock, task>>
    BY <1>6 DEF WriteClient
  <2>3. /\ clients' = [clients EXCEPT ![c] = [life |-> policy, contract |-> Current(r).contract]]
        /\ clients[c] # NoClient <=> c \in boot[r].seen
    BY <1>6 DEF WriteClient, Writable
  <2>4. [life |-> policy, contract |-> Current(r).contract] \in Registration
    BY <1>6, CurrentIsEntry DEF WriteClient, TypeOK, Registration
  <2>5. [life |-> policy, contract |-> Current(r).contract] # NoClient
    BY <2>4, NamesAssumption DEF Registration
  <2>6. c \notin boot[r].seen => ~Uses(c)
    BY <2>3 DEF AppsHaveClients, Uses
  <2> HIDE DEF c
  <2>7. /\ clients'[c] # NoClient
        /\ \A d \in Client : clients[d] # NoClient => clients'[d] # NoClient
    BY <2>1, <2>3, <2>5 DEF TypeOK
  <2>9. Mine(r)'
    BY <1>r, <2>1, <2>2, <2>6, <2>7 DEF Mine, Uses
  <2> QED
    BY <1>6, <1>q, <2>2, <2>7, <2>9 DEF WriteClient
<1>7. CASE ReconcileRow(r)
  <2>0. /\ boot'[r].step = "verifying" /\ Current(r)' = Current(r)
        /\ clientLock[Current(r).client] = r /\ clients[Current(r).client] # NoClient
        /\ UNCHANGED <<clients, clientLock>>
    BY <1>7, <1>w DEF ReconcileRow, Known, Working
  <2>1. Mine(r)'
    BY <1>r, <2>0 DEF Mine
  <2> QED
    BY <1>7, <1>q, <2>1 DEF ReconcileRow
<1>8. CASE ReconcileFails(r)
  <2>1. Mine(r)'
    BY <1>8, <1>r, <1>w DEF ReconcileFails, Mine, Known, Working, Uses
  <2> QED
    BY <1>8, <1>q, <2>1 DEF ReconcileFails
\* The end of a start.
<1>e. ASSUME StartEnds(r)
      PROVE  /\ Mine(r)'
             /\ boot' = [boot EXCEPT ![r] = Down]
             /\ \A c \in Client : clientLock[c] \notin {r, Nobody} => clientLock'[c] = clientLock[c]
  BY <1>e, <1>m, UnlockKeeps DEF StartEnds, Down, TypeOK, Working
<1>9. CASE UndoClient(r)
  <2> DEFINE c == Current(r).client
  <2>1. c \in Client /\ clientLock[c] = r /\ ~Uses(c)
    BY <1>9, Named DEF UndoClient, Holding, Known
  <2>2. /\ clients' = [clients EXCEPT ![c] = NoClient] /\ UNCHANGED <<rows, task>>
        /\ StartEnds(r)
    BY <1>9 DEF UndoClient
  <2> HIDE DEF c
  <2>3. \A d \in Client \ {c} : clients'[d] = clients[d]
    BY <2>2 DEF TypeOK
  <2>4. Frame(r)
    BY <1>e, <2>1, <2>2, <2>3 DEF Frame, TypeOK, Uses
  <2>5. AppsHaveClients'
    BY <2>1, <2>2, <2>3, Named DEF AppsHaveClients, Uses
  <2> QED
    BY <1>e, <2>2, <2>4, <2>5, StepKeeps
<1>10. CASE VerifyClient(r)
  <2> DEFINE c == Current(r).client
  <2>1. c \in Client /\ clientLock[c] = r /\ clients[c] # NoClient
    BY <1>10, Named DEF VerifyClient, Holding
  <2>2. /\ UNCHANGED <<clients, task>>
        /\ \A s \in Slug : rows'[s] = rows[s] \/ rows'[s].client = c
    BY <1>10 DEF VerifyClient, TypeOK
  <2>3. boot'[r].step = "reconciling" /\ \A q \in Replica \ {r} : boot'[q] = boot[q]
    BY <1>10 DEF VerifyClient, TypeOK
  <2> HIDE DEF c
  <2>4. \A d \in Client : Uses(d)' => Uses(d) \/ clientLock[d] = r
    BY <2>1, <2>2 DEF Uses
  <2>5. Frame(r)
    BY <1>10, <2>2, <2>3, <2>4, UnlockKeeps DEF Frame, VerifyClient
  <2>6. AppsHaveClients'
    BY <2>1, <2>2 DEF AppsHaveClients
  <2>7. Mine(r)'
    BY <2>3, <1>m DEF Working
  <2> QED
    BY <2>5, <2>6, <2>7, StepKeeps
<1>11. CASE Reconciled(r)
  <2>1. Mine(r)'
    BY <1>11, <1>m DEF Reconciled, TypeOK, Working
  <2> QED
    BY <1>11, <1>q, <2>1 DEF Reconciled
<1>12. CASE ListApps(r)
  <2>1. Mine(r)'
    BY <1>12, <1>m DEF ListApps, TypeOK, Working
  <2> QED
    BY <1>12, <1>q, <2>1 DEF ListApps
<1>13. CASE CompareClients(r)
  <2>1. Mine(r)'
    BY <1>13, <1>m DEF CompareClients, TypeOK, Working
  <2> QED
    BY <1>13, <1>q, <2>1 DEF CompareClients
<1>14. ASSUME NEW s \in Slug, RepairContract(r, s) PROVE RInv'
  <2>1. boot[r] \in Repairing /\ rows[s] # NoRow
    BY <1>14, <1>b, BootShape DEF RepairContract, Kept
  <2>2. boot'[r].step = "repairing" /\ \A q \in Replica \ {r} : boot'[q] = boot[q]
    BY <1>14, <2>1 DEF RepairContract, TypeOK, Repairing
  <2>3. rows[s] \in Entry /\ rows' = [rows EXCEPT ![s].contract = boot[r].live[s]]
    BY <1>14, <2>1 DEF RepairContract, TypeOK
  <2>4. \A t \in Slug : /\ rows'[t] # NoRow => rows[t] # NoRow
                        /\ rows[t] # NoRow => rows'[t].client = rows[t].client
    BY <2>1, <2>3 DEF TypeOK, Entry
  <2>5. \A c \in Client : Uses(c)' => Uses(c)
    BY <2>4 DEF Uses
  <2>6. Frame(r)
    BY <1>14, <2>2, <2>5 DEF Frame, RepairContract
  <2>7. AppsHaveClients'
    BY <1>14, <2>4 DEF AppsHaveClients, RepairContract
  <2>8. Mine(r)'
    BY <2>2, <1>m DEF Working
  <2> QED
    BY <2>6, <2>7, <2>8, StepKeeps
<1>15. CASE Start(r)
  BY <1>15, <1>e, <1>q DEF Start
<1>16. CASE StartFails(r)
  <2>1. UNCHANGED <<rows, task>> /\ StartEnds(r)
    BY <1>16 DEF StartFails
  <2>2. \A c \in Client : clients[c] # NoClient => clients'[c] # NoClient
    <3>1. CASE UNCHANGED clients
      BY <3>1
    <3>2. CASE ~UNCHANGED clients
      <4>1. /\ boot[r].step = "locked"
            /\ clients' = [clients EXCEPT ![Current(r).client] =
                              [life |-> policy, contract |-> Current(r).contract]]
        BY <1>16, <3>2 DEF StartFails
      <4>2. [life |-> policy, contract |-> Current(r).contract] # NoClient
        BY <4>1, CurrentIsEntry, NamesAssumption DEF TypeOK, Registration
      <4> QED
        BY <4>1, <4>2 DEF TypeOK
    <3> QED
      BY <3>1, <3>2
  <2> QED
    BY <1>e, <1>q, <2>1, <2>2
<1> QED
  BY <1>1, <1>2, <1>3, <1>4, <1>5, <1>6, <1>7, <1>8, <1>9, <1>10, <1>11, <1>12,
     <1>13, <1>14, <1>15, <1>16 DEF ReplicaStep

LEMMA InitKeeps == Init => RInv
<1> SUFFICES ASSUME Init PROVE RInv
  OBVIOUS
<1>1. /\ \A p \in Request : task[p].op = "idle"
      /\ \A r \in Replica : boot[r].step = "down"
      /\ \A s \in Slug : rows[s] = NoRow
  BY DEF Init, Idle, Down
<1>2. Holding /\ Known /\ AppsHaveClients
  BY <1>1 DEF Holding, Known, AppsHaveClients
<1> QED
  BY <1>2, InitTyped DEF RInv

LEMMA NextKeeps == RInv /\ [Next]_vars => RInv'
<1> SUFFICES ASSUME RInv, [Next]_vars PROVE RInv'
  OBVIOUS
<1>0. TInv'
  BY NextTyped DEF RInv
<1>n. Nobody \notin Request /\ Nobody \notin Replica
  BY NamesAssumption
<1>1. ASSUME NEW c \in Client, NEW k \in Contract, RegisterClient(c, k) PROVE RInv'
  <2>1. [life |-> policy, contract |-> k] # NoClient
    BY NamesAssumption DEF RInv, TInv, TypeOK
  <2>2. \A d \in Client : clients[d] # NoClient => clients'[d] # NoClient
    BY <1>1, <2>1 DEF RegisterClient, RInv, TInv, TypeOK
  <2>3. Frame(Nobody)
    BY <1>1, <2>2 DEF RegisterClient, Frame, Uses
  <2>4. AppsHaveClients'
    BY <1>1, <2>2, Named DEF RegisterClient, AppsHaveClients, RInv
  <2> QED
    BY <1>0, <2>3, <2>4, StepKeeps
<1>2. ASSUME NEW s \in Slug, DeleteApp(s) PROVE RInv'
  <2>1. \A t \in Slug : rows'[t] # NoRow => rows'[t] = rows[t]
    BY <1>2 DEF DeleteApp, RInv, TInv, TypeOK
  <2>2. \A r \in Replica : /\ boot[r].step \in Working => boot'[r] = boot[r]
                           /\ boot'[r].step = boot[r].step
    <3> SUFFICES ASSUME NEW r \in Replica
                 PROVE  /\ boot[r].step \in Working => boot'[r] = boot[r]
                        /\ boot'[r].step = boot[r].step
      OBVIOUS
    <3>1. CASE boot[r].step \in {"comparing", "repairing"}
      <4>1. boot'[r] = [boot[r] EXCEPT !.stale = @ \cup {s}]
        BY <1>2, <3>1 DEF DeleteApp
      <4>2. boot[r] \in Comparing \/ boot[r] \in Repairing
        BY <3>1, BootShape DEF RInv, TInv, TypeOK
      <4> QED
        BY <3>1, <4>1, <4>2 DEF Comparing, Repairing, Working
    <3> QED
      BY <1>2, <3>1 DEF DeleteApp
  <2>3. \A c \in Client : Uses(c)' => Uses(c)
    BY <2>1 DEF Uses
  <2>4. Frame(Nobody)
    BY <1>2, <2>2, <2>3 DEF DeleteApp, Frame
  <2>5. AppsHaveClients'
    BY <1>2, <2>1 DEF DeleteApp, AppsHaveClients, RInv
  <2> QED
    BY <1>0, <2>4, <2>5, StepKeeps
<1>3. CASE UNCHANGED vars
  BY <1>0, <1>3 DEF vars, RInv, Holding, Known, AppsHaveClients, Uses, Current
<1> QED
  BY <1>0, <1>1, <1>2, <1>3, RequestKeeps, ReplicaKeeps DEF Next

\* No app of the catalog ever loses its OAuth client: deleteOIDCClient, createApp
\* and bootstrapApps, their compensations and their crashes included, cannot
\* cross on one client, because each reads and writes under that client's lock.
THEOREM AppsKeepTheirClients == Spec => []AppsHaveClients
<1>1. RInv => AppsHaveClients
  BY DEF RInv
<1> QED
  BY <1>1, InitKeeps, NextKeeps, PTL DEF Spec

-----------------------------------------------------------------------------
\* Clients carry the policy

ChangingPolicy(p) == task[p].op \in {"applying", "restoring"}

\* A request holds the policy lock exactly while it changes the policy.
OneChanges == \A p \in Request : policyLock = p <=> ChangingPolicy(p)

\* The clients a change has been through carry the lifetimes it applies.
Applied ==
    \A p \in Request : ChangingPolicy(p) =>
        /\ \A c \in Client : clients[c] # NoClient /\ c \notin task[p].todo =>
              clients[c].life = task[p].to
        /\ task[p].op = "restoring" => task[p].to = policy

\* While no request changes it, the stored policy is every client's.
Agreed ==
    policyLock \notin Request /\ ~unrestored =>
        \A c \in Client : clients[c] # NoClient => clients[c].life = policy

LInv == TInv /\ OneChanges /\ Applied /\ Agreed

\* A step that neither begins nor ends a policy change, and gives a client no
\* lifetimes but the stored ones, and those only while nobody changes them.
LEMMA OutsideChanges ==
    ASSUME LInv, TInv', UNCHANGED <<policy, unrestored>>,
           \A p \in Request : ChangingPolicy(p) \/ ChangingPolicy(p)' => task'[p] = task[p],
           \A p \in Request : policyLock' = p <=> policyLock = p,
           \A c \in Client : clients'[c] # NoClient =>
              \/ clients'[c] = clients[c]
              \/ policyLock \notin Request /\ clients'[c].life = policy
    PROVE  LInv'
<1>1. OneChanges'
  BY DEF LInv, OneChanges, ChangingPolicy
<1>2. Applied'
  BY DEF LInv, OneChanges, Applied, ChangingPolicy
<1>3. policyLock' \notin Request => policyLock \notin Request
  OBVIOUS
<1>4. Agreed'
  BY <1>3 DEF LInv, Agreed
<1> QED
  BY <1>1, <1>2, <1>4 DEF LInv

LEMMA RequestAgrees ==
    ASSUME LInv, TInv', NEW p \in Request, RequestStep(p)
    PROVE  LInv'
<1> USE DEF LInv, TInv
<1>p. p # Nobody /\ p \notin Replica
  BY NamesAssumption
<1>t. task[p] \in Task
  BY DEF TypeOK
\* The end of p's own change of the policy.
<1>e. ASSUME ChangingPolicy(p), task' = [task EXCEPT ![p] = Idle], Unlock(p), Agreed'
      PROVE  LInv'
  <2>1. /\ policyLock = p /\ policyLock' = Nobody
        /\ \A q \in Request : ~ChangingPolicy(q)'
    BY <1>e DEF OneChanges, Unlock, TypeOK, Idle, ChangingPolicy
  <2>2. OneChanges' /\ Applied'
    BY <2>1, NamesAssumption DEF OneChanges, Applied
  <2> QED
    BY <1>e, <2>2
<1>1. ASSUME NEW c \in Client, DeleteClient(p, c) PROVE LInv'
  BY <1>1, OutsideChanges DEF DeleteClient, TypeOK, Idle, ChangingPolicy
<1>2. CASE DeleteHydraClient(p)
  <2>1. policyLock # p /\ task[p].op = "deleting"
    BY <1>2 DEF DeleteHydraClient, OneChanges, ChangingPolicy
  <2>2. policyLock' = policyLock
    BY <1>2, <2>1 DEF DeleteHydraClient, Unlock
  <2> QED
    BY <1>2, <2>1, <2>2, OutsideChanges DEF DeleteHydraClient, TypeOK, Idle, ChangingPolicy
<1>3. ASSUME NEW s \in Slug, NEW c \in Client, CreateApp(p, s, c) PROVE LInv'
  BY <1>3, OutsideChanges DEF CreateApp, Verified, TypeOK, Idle, ChangingPolicy
<1>4. CASE CreateManagedApp(p)
  <2>1. policyLock # p /\ task[p].op = "creating"
    BY <1>4 DEF CreateManagedApp, OneChanges, ChangingPolicy
  <2>2. policyLock' = policyLock
    BY <1>4, <2>1 DEF CreateManagedApp, Unlock
  <2> QED
    BY <1>4, <2>1, <2>2, OutsideChanges DEF CreateManagedApp, TypeOK, Idle, ChangingPolicy
<1>5. ASSUME NEW to \in Policy, ChangePolicy(p, to) PROVE LInv'
  <2>1. /\ policyLock = Nobody /\ policyLock' = p
        /\ task'[p] = [op |-> "applying", to |-> to, todo |-> Existing]
        /\ \A q \in Request \ {p} : task'[q] = task[q]
        /\ UNCHANGED clients
    BY <1>5 DEF ChangePolicy, PolicyFree, TypeOK
  <2>2. \A q \in Request : ~ChangingPolicy(q)
    BY <2>1, NamesAssumption DEF OneChanges
  <2>3. OneChanges'
    BY <2>1, <2>2 DEF OneChanges, ChangingPolicy
  <2>4. Applied'
    BY <2>1, <2>2 DEF Applied, ChangingPolicy, Existing
  <2>5. Agreed'
    BY <2>1 DEF Agreed
  <2> QED
    BY <2>3, <2>4, <2>5
<1>6. CASE PutLifespans(p)
  <2>1. task[p] \in Changing /\ ChangingPolicy(p) /\ policyLock = p
    BY <1>6, <1>t, TaskShape DEF PutLifespans, ChangingPolicy, OneChanges
  <2>2. PICK c \in task[p].todo :
           /\ clients[c] # NoClient
           /\ clients' = [clients EXCEPT ![c].life = task[p].to]
           /\ task' = [task EXCEPT ![p].todo = @ \ {c}]
    BY <1>6 DEF PutLifespans
  <2>3. c \in Client
    BY <2>1 DEF Changing
  <2>4. /\ task'[p].op = task[p].op /\ task'[p].to = task[p].to
        /\ task'[p].todo = task[p].todo \ {c}
        /\ \A q \in Request \ {p} : task'[q] = task[q]
    BY <2>1, <2>2 DEF TypeOK, Changing
  <2>5. \A q \in Request : ChangingPolicy(q)' <=> q = p
    BY <2>1, <2>4 DEF ChangingPolicy, OneChanges
  <2>6. UNCHANGED <<policy, policyLock, unrestored>>
    BY <1>6 DEF PutLifespans
  <2>7. clients[c] \in Registration
    BY <2>2, <2>3 DEF TypeOK
  <2>8. /\ clients'[c].life = task[p].to
        /\ \A d \in Client \ {c} : clients'[d] = clients[d]
    BY <2>2, <2>3, <2>7 DEF TypeOK, Registration
  <2>9. OneChanges'
    BY <2>1, <2>5, <2>6 DEF OneChanges
  <2>10. Applied'
    BY <2>1, <2>4, <2>5, <2>6, <2>8 DEF Applied
  <2>11. Agreed'
    BY <2>1, <2>6 DEF Agreed
  <2> QED
    BY <2>9, <2>10, <2>11
\* The previous policy is about to be restored, or the restoration has failed.
<1>7. ASSUME ChangingPolicy(p), Restore(p), UNCHANGED policy
      PROVE  LInv'
  <2>1. CASE task[p].op = "applying"
    <3>1. /\ task'[p] = [op |-> "restoring", to |-> policy,
                         todo |-> {c \in Client : clients'[c] # NoClient}]
          /\ \A q \in Request \ {p} : task'[q] = task[q]
          /\ UNCHANGED policyLock
      BY <1>7, <2>1 DEF Restore, TypeOK
    <3>2. policyLock = p /\ \A q \in Request : ChangingPolicy(q)' <=> q = p
      BY <1>7, <3>1 DEF OneChanges, ChangingPolicy
    <3>3. OneChanges'
      BY <3>1, <3>2 DEF OneChanges
    <3>4. Applied'
      BY <1>7, <3>1, <3>2 DEF Applied
    <3>5. Agreed'
      BY <3>1, <3>2 DEF Agreed
    <3> QED
      BY <3>3, <3>4, <3>5
  <2>2. CASE task[p].op = "restoring"
    BY <1>7, <2>2, <1>e DEF Restore, Agreed
  <2> QED
    BY <1>7, <2>1, <2>2 DEF Restore
<1>8. CASE PutFails(p)
  BY <1>7, <1>8 DEF PutFails, ChangingPolicy
<1>9. CASE StorePolicy(p)
  <2>1. ChangingPolicy(p) /\ task[p].todo = {}
    BY <1>9 DEF StorePolicy, ChangingPolicy
  <2>2. \A c \in Client : clients[c] # NoClient => clients[c].life = task[p].to
    BY <2>1 DEF Applied
  <2>3. Agreed'
    BY <1>9, <2>2 DEF StorePolicy, Agreed
  <2> QED
    BY <1>9, <1>e, <2>1, <2>3 DEF StorePolicy
<1>10. CASE StoreFails(p)
  BY <1>7, <1>10 DEF StoreFails, ChangingPolicy
<1>11. CASE Restored(p)
  <2>1. ChangingPolicy(p) /\ task[p].todo = {} /\ task[p].op = "restoring"
    BY <1>11 DEF Restored, ChangingPolicy
  <2>2. \A c \in Client : clients[c] # NoClient => clients[c].life = policy
    BY <2>1 DEF Applied
  <2>3. Agreed'
    BY <1>11, <2>2 DEF Restored, Agreed
  <2> QED
    BY <1>11, <1>e, <2>1, <2>3 DEF Restored
<1>12. CASE Abandon(p)
  <2>1. CASE ChangingPolicy(p)
    <3>1. unrestored' = TRUE
      BY <1>12, <2>1 DEF Abandon, ChangingPolicy
    <3>2. Agreed'
      BY <3>1 DEF Agreed
    <3> QED
      BY <1>12, <1>e, <2>1, <3>2 DEF Abandon
  <2>2. CASE ~ChangingPolicy(p)
    <3>1. policyLock' = policyLock /\ unrestored' = unrestored
      BY <1>12, <2>2 DEF Abandon, Unlock, OneChanges, ChangingPolicy, TypeOK
    <3> QED
      BY <1>12, <2>2, <3>1, OutsideChanges DEF Abandon, TypeOK, Idle, ChangingPolicy
  <2> QED
    BY <2>1, <2>2
<1> QED
  BY <1>1, <1>2, <1>3, <1>4, <1>5, <1>6, <1>8, <1>9, <1>10, <1>11, <1>12 DEF RequestStep

\* A replica writes a client only while nobody holds the policy lock.
LEMMA ReplicaAgrees ==
    ASSUME LInv, TInv', NEW r \in Replica, ReplicaStep(r)
    PROVE  LInv'
<1> USE DEF LInv, TInv
<1>r. r # Nobody /\ r \notin Request /\ Nobody \notin Request
  BY NamesAssumption
<1>q. ASSUME UNCHANGED <<policy, task, unrestored>>,
             \A p \in Request : policyLock' = p <=> policyLock = p,
             \A c \in Client : clients'[c] # NoClient =>
                \/ clients'[c] = clients[c]
                \/ policyLock \notin Request /\ clients'[c].life = policy
      PROVE  LInv'
  BY <1>q, OutsideChanges
<1>u. ASSUME Unlock(r) PROVE \A p \in Request : policyLock' = p <=> policyLock = p
  BY <1>u, <1>r DEF Unlock
<1>w. ASSUME PolicyFree, boot[r].step = "locked",
             clients' = [clients EXCEPT ![Current(r).client] =
                            [life |-> policy, contract |-> Current(r).contract]]
      PROVE  /\ policyLock \notin Request
             /\ \A c \in Client : clients'[c] = clients[c] \/ clients'[c].life = policy
  BY <1>w, <1>r, CurrentIsEntry DEF PolicyFree, TypeOK
<1>1. ASSUME NEW config \in Config, LockBootstrap(r, config) PROVE LInv'
  BY <1>1, <1>q DEF LockBootstrap
<1>2. CASE ListClients(r)
  BY <1>2, <1>q DEF ListClients
<1>3. ASSUME NEW s \in Slug, CheckOwnership(r, s) PROVE LInv'
  BY <1>3, <1>q DEF CheckOwnership
<1>4. CASE Checked(r)
  BY <1>4, <1>q DEF Checked
<1>5. ASSUME NEW s \in Slug, LockRegistration(r, s) PROVE LInv'
  BY <1>5, <1>q DEF LockRegistration
<1>6. CASE WriteClient(r)
  BY <1>6, <1>q, <1>r, <1>w DEF WriteClient
<1>7. CASE ReconcileRow(r)
  BY <1>7, <1>q DEF ReconcileRow
<1>8. CASE ReconcileFails(r)
  BY <1>8, <1>q DEF ReconcileFails
<1>9. CASE UndoClient(r)
  BY <1>9, <1>q, <1>u DEF UndoClient, StartEnds, TypeOK
<1>10. CASE VerifyClient(r)
  BY <1>10, <1>q, <1>u DEF VerifyClient
<1>11. CASE Reconciled(r)
  BY <1>11, <1>q DEF Reconciled
<1>12. CASE ListApps(r)
  BY <1>12, <1>q DEF ListApps
<1>13. CASE CompareClients(r)
  BY <1>13, <1>q DEF CompareClients
<1>14. ASSUME NEW s \in Slug, RepairContract(r, s) PROVE LInv'
  BY <1>14, <1>q DEF RepairContract
<1>15. CASE Start(r)
  BY <1>15, <1>q, <1>u DEF Start, StartEnds
<1>16. CASE StartFails(r)
  BY <1>16, <1>q, <1>u, <1>w DEF StartFails, StartEnds
<1> QED
  BY <1>1, <1>2, <1>3, <1>4, <1>5, <1>6, <1>7, <1>8, <1>9, <1>10, <1>11, <1>12,
     <1>13, <1>14, <1>15, <1>16 DEF ReplicaStep

LEMMA InitAgrees == Init => LInv
<1> SUFFICES ASSUME Init PROVE LInv
  OBVIOUS
<1>1. /\ \A p \in Request : ~ChangingPolicy(p)
      /\ \A c \in Client : clients[c] = NoClient
      /\ policyLock \notin Request
  BY NamesAssumption DEF Init, Idle, ChangingPolicy
<1>2. OneChanges /\ Applied /\ Agreed
  BY <1>1 DEF OneChanges, Applied, Agreed
<1> QED
  BY <1>2, InitTyped DEF LInv

LEMMA NextAgrees == LInv /\ [Next]_vars => LInv'
<1> SUFFICES ASSUME LInv, [Next]_vars PROVE LInv'
  OBVIOUS
<1>0. TInv'
  BY NextTyped DEF LInv
<1>1. ASSUME NEW c \in Client, NEW k \in Contract, RegisterClient(c, k) PROVE LInv'
  <2>1. policyLock \notin Request
    BY <1>1, NamesAssumption DEF RegisterClient, PolicyFree
  <2>2. \A d \in Client : clients'[d] = clients[d] \/ clients'[d].life = policy
    BY <1>1 DEF RegisterClient, LInv, TInv, TypeOK
  <2> QED
    BY <1>0, <1>1, <2>1, <2>2, OutsideChanges DEF RegisterClient
<1>2. ASSUME NEW s \in Slug, DeleteApp(s) PROVE LInv'
  BY <1>0, <1>2, OutsideChanges DEF DeleteApp
<1>3. CASE UNCHANGED vars
  BY <1>0, <1>3, OutsideChanges DEF vars
<1> QED
  BY <1>0, <1>1, <1>2, <1>3, RequestAgrees, ReplicaAgrees DEF Next

\* Hydra and PostgreSQL agree on the lifetimes whenever nobody holds the policy
\* lock and no change was cut off: a client registered or reconciled beside a
\* policy change cannot keep the old lifetimes, and a failed change whose
\* restoration succeeds leaves no trace (replaceSessionPolicy, createHydraClient,
\* updateHydraClient).
THEOREM ProvidersAgree == Spec => []PolicyAgrees
<1>1. LInv => PolicyAgrees
  BY NamesAssumption DEF LInv, Agreed, PolicyAgrees
<1> QED
  BY <1>1, InitAgrees, NextAgrees, PTL DEF Spec

-----------------------------------------------------------------------------
\* A replica that starts is registered

\* The app is in the replica's configuration and, with the same client, in that
\* of every serving replica: no operator can delete either.
Firm(config, s) ==
    /\ s \in DOMAIN config
    /\ \A other \in Serving : Declares(other, s) /\ other[s].client = config[s].client

\* The replica has been through the registration of s.
Visited(x, s) ==
    \/ x.step \in {"reconciling", "locked", "written", "undoing", "verifying"} /\ s \notin x.todo
    \/ x.step \in {"asserting", "comparing", "repairing"}

\* The app is in the catalog as declared, and its client in Hydra.
Registered(e, s) ==
    /\ rows[s] = e
    /\ clients[e.client] # NoClient
    /\ clients[e.client].contract = e.contract

\* What a replica under way has registered is still there, what it compares it
\* with is what it declared, and it has nothing to repair there.
Stands(r) ==
    /\ boot[r].step \in {"locked", "written", "undoing", "verifying"} =>
          boot[r].slug \in boot[r].todo
    /\ \A s \in Slug : Firm(boot[r].config, s) =>
          /\ Visited(boot[r], s) => Registered(boot[r].config[s], s)
          /\ boot[r].step = "comparing" => boot[r].listed[s] = boot[r].config[s]
          /\ boot[r].step = "repairing" => s \notin boot[r].todo

\* One replica starts at a time.
OneStarts == \A r \in Replica : boot[r].step # "down" => bootLock = r

OnlyRemovable ==
    \A p \in Request : task[p].op = "deleting" => Removable(task[p].client)

SInv ==
    /\ TInv
    /\ OneStarts
    /\ OnlyRemovable
    /\ \A r \in Replica : boot[r].step # "down" => Stands(r)

\* A replica under way has a configuration.
LEMMA HasConfig ==
    ASSUME TypeOK, NEW r \in Replica, boot[r].step # "down"
    PROVE  boot[r].config \in Config
<1>1. boot[r] \in Boot
  BY DEF TypeOK
<1> QED
  BY <1>1 DEF Boot, Down, Between, Visiting, Writing, Comparing, Repairing

\* Neither an app that every serving replica declares nor its client can be
\* deleted (isBootstrapSlug, isBootstrapClient).
LEMMA FirmIsSafe ==
    ASSUME NEW config \in Config, NEW s, Firm(config, s)
    PROVE  /\ s \in Slug /\ config[s] \in Entry /\ config[s].client \in Client
           /\ config[s] # NoRow
           /\ ~Deletable(s) /\ ~Removable(config[s].client)
<1>1. s \in Slug /\ config[s] \in Entry
  BY ConfigAssumption DEF Firm
<1>2. config[s].client \in Client /\ config[s] # NoRow
  BY <1>1, NamesAssumption DEF Entry
<1>3. ~Deletable(s)
  BY DEF Firm, Deletable
<1>4. ~Removable(config[s].client)
  BY DEF Firm, Removable, Declares
<1> QED
  BY <1>1, <1>2, <1>3, <1>4

\* A step that takes no replica further, and spares the rows and clients that
\* cannot be deleted.
LEMMA OutsideSpares ==
    ASSUME SInv, TInv', UNCHANGED bootLock,
           \A p \in Request : task'[p].op = "deleting" => Removable(task'[p].client),
           \A s \in Slug : rows[s] # NoRow /\ ~Deletable(s) => rows'[s] = rows[s],
           \A c \in Client : clients[c] # NoClient /\ ~Removable(c) =>
              clients'[c] # NoClient /\ clients'[c].contract = clients[c].contract,
           \A r \in Replica :
              \/ boot'[r] = boot[r]
              \/ /\ boot[r].step \in {"comparing", "repairing"}
                 /\ boot'[r].step = boot[r].step /\ boot'[r].config = boot[r].config
                 /\ boot[r].step = "comparing" => boot'[r].listed = boot[r].listed
                 /\ boot[r].step = "repairing" => boot'[r].todo = boot[r].todo
    PROVE  SInv'
<1>1. \A r \in Replica : boot'[r].step = boot[r].step
  OBVIOUS
<1>2. OneStarts' /\ OnlyRemovable'
  BY <1>1 DEF SInv, OneStarts, OnlyRemovable
<1>3. ASSUME NEW r \in Replica, boot'[r].step # "down" PROVE Stands(r)'
  <2>1. boot[r].step # "down" /\ Stands(r) /\ boot[r].config \in Config
    BY <1>1, <1>3, HasConfig DEF SInv, TInv
  <2>2. boot'[r].config = boot[r].config
    OBVIOUS
  <2>3. boot[r].step \in {"locked", "written", "undoing", "verifying"} => boot'[r] = boot[r]
    OBVIOUS
  <2>4. ASSUME NEW s \in Slug, Firm(boot[r].config, s)
        PROVE  /\ Visited(boot'[r], s) =>
                    /\ rows'[s] = boot[r].config[s]
                    /\ clients'[boot[r].config[s].client] # NoClient
                    /\ clients'[boot[r].config[s].client].contract = boot[r].config[s].contract
               /\ boot'[r].step = "comparing" => boot'[r].listed[s] = boot[r].config[s]
               /\ boot'[r].step = "repairing" => s \notin boot'[r].todo
    <3>1. /\ boot[r].config[s].client \in Client /\ boot[r].config[s] # NoRow
          /\ ~Deletable(s) /\ ~Removable(boot[r].config[s].client)
      BY <2>1, <2>4, FirmIsSafe
    <3>2. Visited(boot'[r], s) => Visited(boot[r], s)
      BY <1>1 DEF Visited
    <3>3. Visited(boot[r], s) => Registered(boot[r].config[s], s)
      BY <2>1, <2>4 DEF Stands
    <3>4. /\ boot'[r].step = "comparing" => boot'[r].listed[s] = boot[r].config[s]
          /\ boot'[r].step = "repairing" => s \notin boot'[r].todo
      BY <1>1, <2>1, <2>4 DEF Stands
    <3> QED
      BY <3>1, <3>2, <3>3, <3>4 DEF Registered
  <2> QED
    BY <2>1, <2>2, <2>3, <2>4 DEF Stands, Registered
<1> QED
  BY <1>2, <1>3 DEF SInv

\* No request takes away what cannot be deleted: deleteOIDCClient asks whether a
\* replica declares the client before it locks it, and a policy change keeps the
\* contracts.
LEMMA RequestSpares ==
    ASSUME SInv, TInv', NEW p \in Request, RequestStep(p)
    PROVE  SInv'
<1> USE DEF SInv, TInv
<1>t. task[p] \in Task
  BY DEF TypeOK
\* A request that deletes no client, and takes no row.
<1>q. ASSUME UNCHANGED <<bootLock, boot>>, task'[p].op # "deleting",
             \A q \in Request \ {p} : task'[q] = task[q],
             \A s \in Slug : rows[s] # NoRow => rows'[s] = rows[s],
             \A c \in Client : clients[c] # NoClient =>
                clients'[c] # NoClient /\ clients'[c].contract = clients[c].contract
      PROVE  SInv'
  <2>1. \A q \in Request : task'[q].op = "deleting" => Removable(task'[q].client)
    BY <1>q DEF OnlyRemovable
  <2> QED
    BY <1>q, <2>1, OutsideSpares
\* New lifetimes are put into a client that is there.
<1>l. ASSUME NEW c \in Client, NEW to \in Policy, clients[c] # NoClient,
             clients' = [clients EXCEPT ![c].life = to]
      PROVE  \A d \in Client : clients[d] # NoClient =>
                clients'[d] # NoClient /\ clients'[d].contract = clients[d].contract
  <2>1. clients[c] \in Registration
    BY <1>l DEF TypeOK
  <2>2. [clients[c] EXCEPT !.life = to] \in Registration
    BY <2>1 DEF Registration
  <2>3. [clients[c] EXCEPT !.life = to].contract = clients[c].contract
    BY <2>1 DEF Registration
  <2>4. \A d \in Client : clients'[d] = IF d = c THEN [clients[c] EXCEPT !.life = to]
                                        ELSE clients[d]
    BY <1>l DEF TypeOK
  <2> QED
    BY <2>2, <2>3, <2>4, NamesAssumption DEF Registration
<1>1. ASSUME NEW c \in Client, DeleteClient(p, c) PROVE SInv'
  <2>1. \A q \in Request : task'[q].op = "deleting" => Removable(task'[q].client)
    BY <1>1 DEF DeleteClient, TypeOK, OnlyRemovable
  <2> QED
    BY <1>1, <2>1, OutsideSpares DEF DeleteClient
<1>2. CASE DeleteHydraClient(p)
  <2>1. task[p] \in Deleting /\ Removable(task[p].client)
    BY <1>2, <1>t, TaskShape DEF DeleteHydraClient, OnlyRemovable
  <2>2. \A q \in Request : task'[q].op = "deleting" => Removable(task'[q].client)
    BY <1>2 DEF DeleteHydraClient, TypeOK, OnlyRemovable, Idle
  <2>3. \A c \in Client : ~Removable(c) => clients'[c] = clients[c]
    BY <1>2, <2>1 DEF DeleteHydraClient, TypeOK
  <2> QED
    BY <1>2, <2>2, <2>3, OutsideSpares DEF DeleteHydraClient
<1>3. ASSUME NEW s \in Slug, NEW c \in Client, CreateApp(p, s, c) PROVE SInv'
  BY <1>3, <1>q DEF CreateApp, TypeOK
<1>4. CASE CreateManagedApp(p)
  <2>1. task[p] \in Creating
    BY <1>4, <1>t, TaskShape DEF CreateManagedApp
  <2>2. \A s \in Slug : rows[s] # NoRow => rows'[s] = rows[s]
    BY <1>4, <2>1 DEF CreateManagedApp, TypeOK, Creating
  <2> QED
    BY <1>4, <1>q, <2>2 DEF CreateManagedApp, TypeOK, Idle
<1>5. ASSUME NEW to \in Policy, ChangePolicy(p, to) PROVE SInv'
  BY <1>5, <1>q DEF ChangePolicy, TypeOK
<1>6. CASE PutLifespans(p)
  <2>1. task[p] \in Changing
    BY <1>6, <1>t, TaskShape DEF PutLifespans
  <2>2. PICK c \in task[p].todo :
           /\ clients[c] # NoClient
           /\ clients' = [clients EXCEPT ![c].life = task[p].to]
           /\ task' = [task EXCEPT ![p].todo = @ \ {c}]
    BY <1>6 DEF PutLifespans
  <2>3. c \in Client /\ task[p].to \in Policy
    BY <2>1, <2>2 DEF Changing
  <2>4. task'[p].op # "deleting" /\ \A q \in Request \ {p} : task'[q] = task[q]
    BY <2>1, <2>2 DEF TypeOK, Changing
  <2> QED
    BY <1>6, <1>l, <1>q, <2>2, <2>3, <2>4 DEF PutLifespans
\* The end of a change, or the beginning of its restoration.
<1>7. ASSUME Restore(p) PROVE task'[p].op # "deleting" /\ \A q \in Request \ {p} : task'[q] = task[q]
  BY <1>7 DEF Restore, TypeOK, Idle
<1>8. CASE PutFails(p)
  <2>1. task[p] \in Changing
    BY <1>8, <1>t, TaskShape DEF PutFails
  <2>2. PICK c \in task[p].todo :
           \/ UNCHANGED clients
           \/ /\ clients[c] # NoClient
              /\ clients' = [clients EXCEPT ![c].life = task[p].to]
    BY <1>8 DEF PutFails
  <2>3. c \in Client /\ task[p].to \in Policy
    BY <2>1, <2>2 DEF Changing
  <2>4. \A d \in Client : clients[d] # NoClient =>
           clients'[d] # NoClient /\ clients'[d].contract = clients[d].contract
    BY <1>l, <2>2, <2>3
  <2> QED
    BY <1>7, <1>8, <1>q, <2>4 DEF PutFails
<1>9. CASE StorePolicy(p)
  BY <1>9, <1>q DEF StorePolicy, TypeOK, Idle
<1>10. CASE StoreFails(p)
  BY <1>7, <1>10, <1>q DEF StoreFails
<1>11. CASE Restored(p)
  BY <1>11, <1>q DEF Restored, TypeOK, Idle
<1>12. CASE Abandon(p)
  BY <1>12, <1>q DEF Abandon, TypeOK, Idle
<1> QED
  BY <1>1, <1>2, <1>3, <1>4, <1>5, <1>6, <1>8, <1>9, <1>10, <1>11, <1>12 DEF RequestStep

\* A step of the one replica under way concerns no other.
LEMMA OneMoves ==
    ASSUME SInv, TInv', NEW r \in Replica, UNCHANGED task,
           boot[r].step # "down" \/ bootLock = Nobody,
           \A q \in Replica \ {r} : boot'[q] = boot[q],
           boot'[r].step # "down" => bootLock' = r /\ Stands(r)'
    PROVE  SInv'
<1>1. \A q \in Replica \ {r} : boot[q].step = "down"
  BY NamesAssumption DEF SInv, OneStarts
<1>2. OneStarts' /\ OnlyRemovable'
  BY <1>1 DEF SInv, OneStarts, OnlyRemovable
<1> QED
  BY <1>1, <1>2 DEF SInv

\* A step by which a replica reaches no further app, and changes none it reached.
LEMMA StandsOn ==
    ASSUME SInv, TypeOK', NEW r \in Replica, boot[r].step # "down", boot'[r].step # "down",
           boot'[r].config = boot[r].config,
           boot'[r].step \in {"locked", "written", "undoing", "verifying"} =>
              boot'[r].slug \in boot'[r].todo,
           \A s \in Slug : Visited(boot'[r], s) /\ Firm(boot[r].config, s) =>
              /\ Visited(boot[r], s)
              /\ rows'[s] = rows[s]
              /\ clients'[boot[r].config[s].client] = clients[boot[r].config[s].client],
           \A s \in Slug : Firm(boot[r].config, s) /\ boot'[r].step = "comparing" =>
              boot'[r].listed[s] = boot[r].config[s],
           \A s \in Slug : Firm(boot[r].config, s) /\ boot'[r].step = "repairing" =>
              s \notin boot'[r].todo
    PROVE  Stands(r)'
BY DEF SInv, Stands, Registered

LEMMA ReplicaSpares ==
    ASSUME SInv, TInv', NEW r \in Replica, ReplicaStep(r)
    PROVE  SInv'
<1> USE DEF SInv, TInv
<1>b. boot[r] \in Boot
  BY DEF TypeOK
<1>o. boot[r].step # "down" => bootLock = r /\ Stands(r)
  BY DEF OneStarts
<1>m. ASSUME boot[r].step # "down" \/ bootLock = Nobody, UNCHANGED task,
             NEW x, boot' = [boot EXCEPT ![r] = x],
             x.step # "down" => bootLock' = r /\ Stands(r)'
      PROVE  SInv'
  <2>1. boot'[r] = x /\ \A q \in Replica \ {r} : boot'[q] = boot[q]
    BY <1>m DEF TypeOK
  <2> QED
    BY <1>m, <2>1, OneMoves
\* Steps within the reconciliation that reach no further app.
<1>v. ASSUME boot[r].step # "down", UNCHANGED <<task, bootLock>>,
             NEW x, boot' = [boot EXCEPT ![r] = x], x.step # "down",
             x.config = boot[r].config,
             x.step \in {"locked", "written", "undoing", "verifying"} => x.slug \in x.todo,
             \A s \in Slug : Visited(x, s) /\ Firm(boot[r].config, s) =>
                /\ Visited(boot[r], s)
                /\ rows'[s] = rows[s]
                /\ clients'[boot[r].config[s].client] = clients[boot[r].config[s].client],
             \A s \in Slug : Firm(boot[r].config, s) /\ x.step = "comparing" =>
                x.listed[s] = boot[r].config[s],
             \A s \in Slug : Firm(boot[r].config, s) /\ x.step = "repairing" => s \notin x.todo
      PROVE  SInv'
  <2>1. boot'[r] = x
    BY <1>v DEF TypeOK
  <2>2. Stands(r)'
    BY <1>v, <2>1, StandsOn
  <2> QED
    BY <1>m, <1>o, <1>v, <2>2
\* A start that ends leaves nothing to show.
<1>e. ASSUME StartEnds(r), boot[r].step # "down", UNCHANGED task PROVE SInv'
  BY <1>e, <1>m DEF StartEnds, Down
<1>1. ASSUME NEW config \in Config, LockBootstrap(r, config) PROVE SInv'
  <2>1. boot'[r].step = "listing" /\ bootLock = Nobody /\ bootLock' = r
    BY <1>1 DEF LockBootstrap, TypeOK
  <2>2. Stands(r)'
    BY <2>1 DEF Stands, Visited
  <2> QED
    BY <1>1, <1>m, <2>1, <2>2 DEF LockBootstrap
<1>2. CASE ListClients(r)
  <2> DEFINE x == [step |-> "checking", config |-> boot[r].config,
                   seen |-> Existing, todo |-> DOMAIN boot[r].config]
  <2>1. x.step = "checking" /\ x.config = boot[r].config /\ \A s \in Slug : ~Visited(x, s)
    BY DEF Visited
  <2>2. boot' = [boot EXCEPT ![r] = x]
    BY <1>2 DEF ListClients
  <2> HIDE DEF x
  <2> QED
    BY <1>2, <1>v, <2>1, <2>2 DEF ListClients
<1>3. ASSUME NEW s \in Slug, CheckOwnership(r, s) PROVE SInv'
  <2> DEFINE x == [boot[r] EXCEPT !.todo = @ \ {s}]
  <2>1. boot[r] \in Visiting /\ boot[r].step = "checking"
    BY <1>3, <1>b, BootShape DEF CheckOwnership
  <2>2. x.step = "checking" /\ x.config = boot[r].config
    BY <2>1 DEF Visiting
  <2>3. boot' = [boot EXCEPT ![r] = x]
    BY <1>3 DEF CheckOwnership
  <2> HIDE DEF x
  <2>4. \A t \in Slug : ~Visited(x, t)
    BY <2>2 DEF Visited
  <2> QED
    BY <1>3, <1>v, <2>1, <2>2, <2>3, <2>4 DEF CheckOwnership
<1>4. CASE Checked(r)
  <2> DEFINE x == [boot[r] EXCEPT !.step = "reconciling", !.todo = DOMAIN boot[r].config]
  <2>1. boot[r] \in Visiting /\ boot[r].step = "checking"
    BY <1>4, <1>b, BootShape DEF Checked
  <2>2. /\ x.step = "reconciling" /\ x.config = boot[r].config
        /\ x.todo = DOMAIN boot[r].config
    BY <2>1 DEF Visiting
  <2>3. boot' = [boot EXCEPT ![r] = x]
    BY <1>4 DEF Checked
  <2> HIDE DEF x
  <2>4. \A t \in Slug : Firm(boot[r].config, t) => ~Visited(x, t)
    BY <2>2 DEF Visited, Firm
  <2> QED
    BY <1>4, <1>v, <2>1, <2>2, <2>3, <2>4 DEF Checked
<1>5. ASSUME NEW s \in Slug, LockRegistration(r, s) PROVE SInv'
  <2> DEFINE x == [step |-> "locked", config |-> boot[r].config, seen |-> boot[r].seen,
                   todo |-> boot[r].todo, slug |-> s]
  <2>1. boot[r].step = "reconciling" /\ s \in boot[r].todo
    BY <1>5 DEF LockRegistration
  <2>2. /\ x.step = "locked" /\ x.config = boot[r].config
        /\ x.todo = boot[r].todo /\ x.slug = s
    OBVIOUS
  <2>3. boot' = [boot EXCEPT ![r] = x]
    BY <1>5 DEF LockRegistration
  <2> HIDE DEF x
  <2>4. \A t \in Slug : Visited(x, t) => Visited(boot[r], t)
    BY <2>1, <2>2 DEF Visited
  <2> QED
    BY <1>5, <1>v, <2>1, <2>2, <2>3, <2>4 DEF LockRegistration
\* Steps inside the client lock: only the client of the app still to do is
\* touched, and no other app of the configuration has it.
<1>w. ASSUME NEW next \in {"written", "undoing", "verifying"},
             boot[r].step \in {"locked", "written"},
             boot' = [boot EXCEPT ![r].step = next],
             UNCHANGED <<rows, bootLock, task>>,
             \A c \in Client \ {Current(r).client} : clients'[c] = clients[c]
      PROVE  SInv'
  <2> DEFINE x == [boot[r] EXCEPT !.step = next]
  <2>1. boot[r] \in Writing
    BY <1>w, <1>b, BootShape
  <2>2. /\ x.step = next /\ x.todo = boot[r].todo
        /\ x.config = boot[r].config /\ x.slug = boot[r].slug
    BY <2>1, <1>w DEF Writing
  <2>3. boot' = [boot EXCEPT ![r] = x]
    BY <1>w
  <2> HIDE DEF x
  <2>4. boot[r].slug \in boot[r].todo
    BY <1>w DEF Stands
  <2>5. boot[r].config \in Config /\ boot[r].slug \in DOMAIN boot[r].config
    BY <2>1, <1>w DEF Writing, Shaped
  <2>6. \A t \in Slug : Visited(x, t) => Visited(boot[r], t) /\ t # boot[r].slug
    BY <1>w, <2>2, <2>4 DEF Visited
  <2>7. ASSUME NEW t \in Slug, Firm(boot[r].config, t), t # boot[r].slug
        PROVE  clients'[boot[r].config[t].client] = clients[boot[r].config[t].client]
    <3>1. boot[r].config[t].client \in Client
      BY <2>5, <2>7, FirmIsSafe
    <3>2. boot[r].config[t].client # Current(r).client
      BY <2>5, <2>7, ConfigAssumption DEF Firm, Current
    <3> QED
      BY <1>w, <3>1, <3>2
  <2> QED
    BY <1>v, <1>w, <2>2, <2>3, <2>4, <2>6, <2>7
<1>6. CASE WriteClient(r)
  <2>1. \A c \in Client \ {Current(r).client} : clients'[c] = clients[c]
    BY <1>6 DEF WriteClient, TypeOK
  <2> QED
    BY <1>6, <1>w, <2>1 DEF WriteClient
<1>7. CASE ReconcileRow(r)
  BY <1>7, <1>w DEF ReconcileRow
<1>8. CASE ReconcileFails(r)
  BY <1>8, <1>w DEF ReconcileFails
<1>9. CASE UndoClient(r)
  BY <1>9, <1>e DEF UndoClient
<1>10. CASE VerifyClient(r)
  <2> DEFINE x == [step |-> "reconciling", config |-> boot[r].config,
                   seen |-> boot[r].seen, todo |-> boot[r].todo \ {boot[r].slug}]
  <2>1. /\ x.step = "reconciling" /\ x.config = boot[r].config
        /\ x.todo = boot[r].todo \ {boot[r].slug}
    OBVIOUS
  <2>2. boot' = [boot EXCEPT ![r] = x] /\ UNCHANGED <<clients, bootLock, task>>
    BY <1>10 DEF VerifyClient
  <2> HIDE DEF x
  <2>3. boot[r].step = "verifying" /\ boot'[r] = x /\ Stands(r)
    BY <1>10, <1>o, <2>2 DEF VerifyClient, TypeOK
  <2>4. boot[r].slug \in Slug
    BY <2>3, <1>b, BootShape DEF Writing
  <2>5. /\ rows'[boot[r].slug] = Current(r)
        /\ clients[Current(r).client] # NoClient
        /\ clients[Current(r).client].contract = Current(r).contract
        /\ \A t \in Slug \ {boot[r].slug} : rows'[t] = rows[t]
    BY <1>10, <2>4 DEF VerifyClient, TypeOK
  <2>6. ASSUME NEW t \in Slug, Firm(boot[r].config, t), Visited(x, t)
        PROVE  /\ rows'[t] = boot[r].config[t]
               /\ clients[boot[r].config[t].client] # NoClient
               /\ clients[boot[r].config[t].client].contract = boot[r].config[t].contract
    <3>1. CASE t = boot[r].slug
      BY <2>5, <3>1 DEF Current
    <3>2. CASE t # boot[r].slug
      <4>1. Visited(boot[r], t)
        BY <2>1, <2>3, <2>6, <3>2 DEF Visited
      <4> QED
        BY <2>3, <2>5, <2>6, <3>2, <4>1 DEF Stands, Registered
    <3> QED
      BY <3>1, <3>2
  <2>7. Stands(r)'
    BY <2>1, <2>2, <2>3, <2>6 DEF Stands, Registered
  <2> QED
    BY <1>m, <1>o, <2>1, <2>2, <2>3, <2>7
<1>11. CASE Reconciled(r)
  <2> DEFINE x == [step |-> "asserting", config |-> boot[r].config]
  <2>1. x.step = "asserting" /\ x.config = boot[r].config
    OBVIOUS
  <2>2. boot' = [boot EXCEPT ![r] = x]
    BY <1>11 DEF Reconciled
  <2> HIDE DEF x
  <2>3. boot[r].step = "reconciling" /\ \A t \in Slug : Visited(boot[r], t)
    BY <1>11 DEF Reconciled, Visited
  <2> QED
    BY <1>11, <1>v, <2>1, <2>2, <2>3 DEF Reconciled
<1>12. CASE ListApps(r)
  <2> DEFINE x == [step |-> "comparing", config |-> boot[r].config,
                   listed |-> rows, stale |-> {}]
  <2>1. x.step = "comparing" /\ x.config = boot[r].config /\ x.listed = rows
    OBVIOUS
  <2>2. boot' = [boot EXCEPT ![r] = x]
    BY <1>12 DEF ListApps
  <2> HIDE DEF x
  <2>3. boot[r].step = "asserting" /\ \A t \in Slug : Visited(boot[r], t)
    BY <1>12 DEF ListApps, Visited
  <2>4. \A t \in Slug : Firm(boot[r].config, t) => rows[t] = boot[r].config[t]
    BY <1>o, <2>3 DEF Stands, Registered
  <2> QED
    BY <1>12, <1>v, <2>1, <2>2, <2>3, <2>4 DEF ListApps
<1>13. CASE CompareClients(r)
  <2> DEFINE listed == boot[r].listed
             apps == {s \in Slug : listed[s] # NoRow}
             live == [s \in apps |-> clients[listed[s].client].contract]
             x == [step |-> "repairing", config |-> boot[r].config,
                   live |-> [s \in Slug |-> IF s \in apps THEN live[s]
                                            ELSE CHOOSE k \in Contract : TRUE],
                   todo |-> {s \in apps : listed[s].contract # live[s]},
                   stale |-> boot[r].stale]
  <2>1. /\ x.step = "repairing" /\ x.config = boot[r].config
        /\ x.todo = {s \in apps : listed[s].contract # live[s]}
    OBVIOUS
  <2>2. boot' = [boot EXCEPT ![r] = x]
    BY <1>13 DEF CompareClients
  <2> HIDE DEF x
  <2>3. boot[r].step = "comparing" /\ \A t \in Slug : Visited(boot[r], t)
    BY <1>13 DEF CompareClients, Visited
  <2>4. ASSUME NEW t \in Slug, Firm(boot[r].config, t) PROVE t \notin x.todo
    <3>1. /\ boot[r].listed[t] = boot[r].config[t]
          /\ clients[boot[r].config[t].client].contract = boot[r].config[t].contract
      BY <1>o, <2>3, <2>4 DEF Stands, Registered
    <3> QED
      BY <2>1, <3>1
  <2> QED
    BY <1>13, <1>v, <2>1, <2>2, <2>3, <2>4 DEF CompareClients
<1>14. ASSUME NEW s \in Slug, RepairContract(r, s) PROVE SInv'
  <2> DEFINE x == [boot[r] EXCEPT !.todo = @ \ {s}]
  <2>1. boot[r] \in Repairing /\ boot[r].step = "repairing" /\ s \in boot[r].todo
    BY <1>14, <1>b, BootShape DEF RepairContract
  <2>2. /\ x.step = "repairing" /\ x.config = boot[r].config
        /\ x.todo = boot[r].todo \ {s}
    BY <2>1 DEF Repairing
  <2>3. boot' = [boot EXCEPT ![r] = x]
    BY <1>14 DEF RepairContract
  <2> HIDE DEF x
  <2>4. \A t \in Slug : /\ Visited(boot[r], t)
                        /\ Firm(boot[r].config, t) => t \notin boot[r].todo
    BY <1>o, <2>1 DEF Stands, Visited
  <2>5. \A t \in Slug \ {s} : rows'[t] = rows[t]
    BY <1>14 DEF RepairContract, TypeOK
  <2> QED
    BY <1>14, <1>v, <2>1, <2>2, <2>3, <2>4, <2>5 DEF RepairContract
<1>15. CASE Start(r)
  BY <1>15, <1>e DEF Start
<1>16. CASE StartFails(r)
  <2>1. boot[r].step # "down"
    BY <1>16, <1>b DEF StartFails, Boot, Down, Between, Visiting, Writing, Comparing, Repairing
  <2> QED
    BY <1>16, <1>e, <2>1 DEF StartFails
<1> QED
  BY <1>1, <1>2, <1>3, <1>4, <1>5, <1>6, <1>7, <1>8, <1>9, <1>10, <1>11, <1>12,
     <1>13, <1>14, <1>15, <1>16 DEF ReplicaStep

LEMMA InitSpares == Init => SInv
<1> SUFFICES ASSUME Init PROVE SInv
  OBVIOUS
<1>1. /\ \A p \in Request : task[p].op = "idle"
      /\ \A r \in Replica : boot[r].step = "down"
  BY DEF Init, Idle, Down
<1> QED
  BY <1>1, InitTyped DEF SInv, OneStarts, OnlyRemovable

LEMMA NextSpares == SInv /\ [Next]_vars => SInv'
<1> SUFFICES ASSUME SInv, [Next]_vars PROVE SInv'
  OBVIOUS
<1>0. TInv'
  BY NextTyped DEF SInv
<1>1. ASSUME NEW c \in Client, NEW k \in Contract, RegisterClient(c, k) PROVE SInv'
  <2>1. \A d \in Client : clients[d] # NoClient => clients'[d] = clients[d]
    BY <1>1 DEF RegisterClient, SInv, TInv, TypeOK
  <2> QED
    BY <1>0, <1>1, <2>1, OutsideSpares DEF RegisterClient, SInv, OnlyRemovable
<1>2. ASSUME NEW s \in Slug, DeleteApp(s) PROVE SInv'
  <2>1. \A t \in Slug : ~Deletable(t) => rows'[t] = rows[t]
    BY <1>2 DEF DeleteApp, SInv, TInv, TypeOK
  <2>2. \A r \in Replica :
              \/ boot'[r] = boot[r]
              \/ /\ boot[r].step \in {"comparing", "repairing"}
                 /\ boot'[r].step = boot[r].step /\ boot'[r].config = boot[r].config
                 /\ boot[r].step = "comparing" => boot'[r].listed = boot[r].listed
                 /\ boot[r].step = "repairing" => boot'[r].todo = boot[r].todo
    <3> SUFFICES ASSUME NEW r \in Replica, boot[r].step \in {"comparing", "repairing"}
                 PROVE  /\ boot'[r].step = boot[r].step /\ boot'[r].config = boot[r].config
                        /\ boot[r].step = "comparing" => boot'[r].listed = boot[r].listed
                        /\ boot[r].step = "repairing" => boot'[r].todo = boot[r].todo
      BY <1>2 DEF DeleteApp
    <3>1. boot'[r] = [boot[r] EXCEPT !.stale = @ \cup {s}]
      BY <1>2 DEF DeleteApp
    <3>2. boot[r] \in Comparing \/ boot[r] \in Repairing
      BY BootShape DEF SInv, TInv, TypeOK
    <3> QED
      BY <3>1, <3>2 DEF Comparing, Repairing
  <2> QED
    BY <1>0, <1>2, <2>1, <2>2, OutsideSpares DEF DeleteApp, SInv, OnlyRemovable
<1>3. CASE UNCHANGED vars
  BY <1>0, <1>3, OutsideSpares DEF vars, SInv, OnlyRemovable
<1> QED
  BY <1>0, <1>1, <1>2, <1>3, RequestSpares, ReplicaSpares DEF Next

\* A replica never starts without what it declares: when New returns the server,
\* every app of its configuration that no serving replica lets an operator
\* delete is in the catalog, and its client in Hydra, both as declared
\* (bootstrapApps, reconcileBootstrapRegistration, assertManagedAppRegistrations).
THEOREM StartedMeansRegistered == Spec => StartsRegistered
<1>1. ASSUME SInv, [Next]_vars, NEW r \in Replica, Start(r), NEW s \in DOMAIN boot[r].config,
             \A config \in Serving :
                Declares(config, s) /\ config[s].client = boot[r].config[s].client
      PROVE  /\ rows[s] = boot[r].config[s]
             /\ clients[rows[s].client] # NoClient
             /\ clients[rows[s].client].contract = rows[s].contract
  <2>1. boot[r].step = "repairing" /\ Stands(r) /\ boot[r].config \in Config
    BY <1>1, HasConfig DEF Start, SInv, TInv
  <2>2. Firm(boot[r].config, s) /\ s \in Slug
    BY <1>1, <2>1, FirmIsSafe DEF Firm
  <2> QED
    BY <2>1, <2>2 DEF Stands, Visited, Registered
<1>2. SInv /\ [Next]_vars =>
         [\A r \in Replica : Start(r) =>
             \A s \in DOMAIN boot[r].config :
                (\A config \in Serving :
                    Declares(config, s) /\ config[s].client = boot[r].config[s].client) =>
                   /\ rows[s] = boot[r].config[s]
                   /\ clients[rows[s].client] # NoClient
                   /\ clients[rows[s].client].contract = rows[s].contract]_vars
  BY <1>1
<1> QED
  BY <1>2, InitSpares, NextSpares, PTL DEF Spec, StartsRegistered

=============================================================================
