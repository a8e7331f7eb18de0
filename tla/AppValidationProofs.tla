------------------------ MODULE AppValidationProofs ------------------------
(***************************************************************************)
(* Proofs about the validation queue, for any number of apps, identities,  *)
(* workers and concurrent requests.                                        *)
(***************************************************************************)
EXTENDS AppValidation, FiniteSetTheorems, TLAPS

-----------------------------------------------------------------------------
(* Type correctness. *)

\* The witness of an app is another app of the ring, or nothing.
LEMMA WitnessType ==
  ASSUME NEW a, NEW ring
  PROVE  Witness(a, ring) \in ring \cup {None}
BY DEF Witness

\* New runs are rows of the table.
LEMMA RunsType ==
  ASSUME NEW ring, ring \subseteq App, NEW targets, targets \subseteq ring,
         NEW version, \A a \in ring : version[a] \in Rev,
         NEW t \in Nat
  PROVE  NewRuns(targets, ring, version, t) \subseteq Row
<1>1. SUFFICES ASSUME NEW a \in targets, NEW d \in Direction
               PROVE  NewRun(a, d, ring, version, t) \in Row
  BY DEF NewRuns
<1>2. Witness(a, ring) \in ring \cup {None}
  BY WitnessType
<1>3. CASE Witness(a, ring) = None
  BY <1>3 DEF NewRun, Row
<1>4. CASE Witness(a, ring) # None
  BY <1>2, <1>4 DEF NewRun, Row
<1> QED BY <1>3, <1>4

\* Enqueueing keeps the queue and the clock well typed.
LEMMA EnqueueType ==
  ASSUME NEW ring, ring \subseteq App, NEW targets, targets \subseteq ring,
         NEW version, \A a \in ring : version[a] \in Rev,
         NEW waiting, waiting \subseteq Row, NEW active, clock \in Nat,
         Enqueue(targets, ring, version, waiting, active)
  PROVE  queued' \subseteq Row /\ clock' \in Nat
<1>1. NewRuns(targets, ring, version, clock + 1) \subseteq Row
  BY RunsType
<1> QED BY <1>1 DEF Enqueue

LEMMA TypeInit == Init => TypeOK
<1> SUFFICES ASSUME Init PROVE TypeOK
  OBVIOUS
<1>1. rev \in [App -> Rev \cup {None}]
  BY DEF Init
<1>2. catalog \subseteq App /\ \A a \in catalog : rev[a] \in Rev
  BY <1>1 DEF catalog, Listed
<1>3. done \subseteq Row
  BY <1>2, RunsType DEF Init
<1> QED BY <1>1, <1>3 DEF Init, TypeOK

\* Every step keeps the types: the runs it queues are those of a ring of
\* registered apps.
LEMMA TypeStep == TypeOK /\ [Next]_vars => TypeOK'
<1> SUFFICES ASSUME TypeOK, [Next]_vars PROVE TypeOK'
  OBVIOUS
<1>a. catalog \subseteq App /\ \A a \in catalog : rev[a] \in Rev
  BY DEF TypeOK, catalog, Listed
<1>1. ASSUME NEW o \in Operator, NEW a \in App, BeginCreate(o, a)
      PROVE  TypeOK'
  BY <1>1, <1>a DEF TypeOK, BeginCreate, Load, shop, runs, workers
<1>2. ASSUME NEW o \in Operator, NEW a \in catalog \cup {All}, BeginEnqueue(o, a)
      PROVE  TypeOK'
  <2>1. o \notin creates
    BY <1>2, NoneIsNothing DEF TypeOK, BeginEnqueue, Load
  <2> QED BY <1>2, <1>a, <2>1 DEF TypeOK, BeginEnqueue, Load, shop, runs, workers
<1>3. ASSUME NEW o \in Operator, NEW v \in Rev, CommitCreate(o, v)
      PROVE  TypeOK'
  <2> DEFINE ring == Locked(o) \cup {op[o]}
  <2>1. op[o] \in App
    BY <1>3 DEF TypeOK, CommitCreate
  <2>2. ring \subseteq App
    BY <2>1, <1>a DEF Locked
  <2>3. rev' = [rev EXCEPT ![op[o]] = v]
    BY <1>3 DEF CommitCreate
  <2>4. rev' \in [App -> Rev \cup {None}]
    BY <2>1, <2>3 DEF TypeOK
  <2>5. \A a \in ring : rev'[a] \in Rev
    BY <2>1, <2>3, <1>a DEF TypeOK, Locked
  <2>6. Enqueue(ring, ring, rev', queued, running)
    BY <1>3 DEF CommitCreate
  <2>7. queued' \subseteq Row /\ clock' \in Nat
    <3> HIDE DEF ring
    <3> QED BY <2>2, <2>5, <2>6, EnqueueType DEF TypeOK
  <2> QED BY <1>3, <2>4, <2>7 DEF TypeOK, CommitCreate, Close, workers
<1>4. ASSUME NEW o \in Operator, CommitEnqueue(o)
      PROVE  TypeOK'
  <2> DEFINE targets == IF op[o] = All THEN Locked(o) ELSE Locked(o) \cap {op[o]}
  <2>1. targets \subseteq Locked(o) /\ Locked(o) \subseteq App
    BY <1>a DEF Locked
  <2>2. \A a \in Locked(o) : rev[a] \in Rev
    BY <1>a DEF Locked
  <2>3. queued' \subseteq Row /\ clock' \in Nat
    <3>1. CASE targets = {}
      BY <1>4, <3>1 DEF CommitEnqueue, TypeOK
    <3>2. CASE targets # {}
      <4>1. Enqueue(targets, Locked(o), rev, queued, running)
        BY <1>4, <3>2 DEF CommitEnqueue
      <4> HIDE DEF targets
      <4> QED BY <4>1, <2>1, <2>2, EnqueueType DEF TypeOK
    <3> QED BY <3>1, <3>2
  <2> QED BY <1>4, <2>3 DEF TypeOK, CommitEnqueue, Close, workers
<1>5. ASSUME NEW a \in App, DeleteManagedApp(a)
      PROVE  TypeOK'
  <2> DEFINE ring == catalog \ {a}
  <2>1. ring \subseteq App /\ \A b \in ring : rev[b] \in Rev
    BY <1>a
  <2>2. {r \in queued : r.app # a} \subseteq Row
    BY DEF TypeOK
  <2>3. Enqueue(ring, ring, rev, {r \in queued : r.app # a},
                running \ {r \in running : r.app = a})
    BY <1>5 DEF DeleteManagedApp
  <2>4. queued' \subseteq Row /\ clock' \in Nat
    <3> HIDE DEF ring
    <3> QED BY <2>1, <2>2, <2>3, EnqueueType DEF TypeOK
  <2> QED BY <1>5, <2>4 DEF TypeOK, DeleteManagedApp, Freed, operators, workers
<1>6. ASSUME NEW a \in App, NEW v \in Rev, Reconcile(a, v)
      PROVE  TypeOK'
  <2>1. rev' = [rev EXCEPT ![a] = v] /\ a \in catalog
    BY <1>6 DEF Reconcile
  <2>2. rev' \in [App -> Rev \cup {None}] /\ \A b \in catalog : rev'[b] \in Rev
    BY <2>1, <1>a DEF TypeOK
  <2>3. Enqueue(catalog, catalog, rev', queued, running)
    BY <1>6 DEF Reconcile
  <2>4. queued' \subseteq Row /\ clock' \in Nat
    BY <2>2, <2>3, <1>a, EnqueueType DEF TypeOK
  <2> QED BY <1>6, <2>2, <2>4 DEF TypeOK, Reconcile, operators, workers
<1>7. ASSUME NEW w \in Worker, NEW r \in queued, NEW i \in Identity,
             ClaimAppValidation(w, r, i)
      PROVE  TypeOK'
  BY <1>7 DEF TypeOK, ClaimAppValidation, Answer, FreedLapsed, Freed, shop, operators
<1>8. ASSUME NEW w \in Worker, CreateBrowserBootstraps(w)
      PROVE  TypeOK'
  BY <1>8 DEF TypeOK, CreateBrowserBootstraps, shop, runs, operators
<1>9. ASSUME NEW w \in Worker, FinishCheck(w)
      PROVE  TypeOK'
  BY <1>9 DEF TypeOK, FinishCheck, shop, runs, operators
<1>10. ASSUME NEW w \in Worker, CompleteAppValidation(w)
       PROVE  TypeOK'
  BY <1>10 DEF TypeOK, CompleteAppValidation, Leave, Freed, shop, operators
<1>11. ASSUME NEW w \in Worker, Crash(w)
       PROVE  TypeOK'
  BY <1>11 DEF TypeOK, Crash, Leave, shop, runs, operators
<1>12. ASSUME ExpireAbandonedAppValidation
       PROVE  TypeOK'
  BY <1>12 DEF TypeOK, ExpireAbandonedAppValidation, FreedLapsed, Freed,
               shop, operators, workers
<1>13. ASSUME NEW r \in running, LeaseExpires(r)
       PROVE  TypeOK'
  BY <1>13 DEF TypeOK, LeaseExpires, shop, operators, workers
<1>14. CASE UNCHANGED vars
  BY <1>14 DEF TypeOK, vars, shop, runs, operators, workers
<1> QED BY <1>1, <1>2, <1>3, <1>4, <1>5, <1>6, <1>7, <1>8, <1>9, <1>10, <1>11,
           <1>12, <1>13, <1>14 DEF Next, Catalog, Claim, Work

\* The tables and the workers hold only what they can hold.
THEOREM TypeCorrect == Spec => []TypeOK
BY TypeInit, TypeStep, PTL DEF Spec

-----------------------------------------------------------------------------
(* The table: roles, identities and the limit. *)

\* A claim starts one run whose apps no run that is left uses; it is not among
\* those, because a run uses its own app.
LEMMA ClaimEffect ==
  ASSUME TypeOK, NEW w \in Worker, NEW r \in queued, NEW i \in Identity,
         ClaimAppValidation(w, r, i)
  PROVE  /\ r.app \in Roles(r)
         /\ \A s \in running \ lapsed : Roles(r) \cap Roles(s) = {}
         /\ r \notin running \ lapsed
         /\ running' = (running \ lapsed) \cup {r}
         /\ holder' = [j \in Identity |->
              IF j = i THEN r ELSE IF holder[j] \in lapsed THEN None ELSE holder[j]]
         /\ holder[i] = None \/ holder[i] \in lapsed
<1>1. r.app \in Roles(r)
  BY NoneIsNothing DEF TypeOK, Row, Roles
<1>2. \A s \in running \ lapsed : Roles(r) \cap Roles(s) = {}
  BY DEF ClaimAppValidation, Answer, Head, Claimable, Busy
<1>3. r \notin running \ lapsed
  BY <1>1, <1>2
<1> QED BY <1>1, <1>2, <1>3 DEF ClaimAppValidation, Answer, FreedLapsed, Freed, TypeOK

\* Some runs end and give their identities back.
Ends(R) == /\ running' = running \ R
           /\ holder' = [i \in Identity |->
                           IF holder[i] \in R THEN None ELSE holder[i]]
SomeEnd == \E R : Ends(R)

\* Every step but a claim only ends runs, or none.
LEMMA OtherEffect ==
  ASSUME TypeOK, [Next]_vars, ~ \E w \in Worker : Claim(w)
  PROVE  SomeEnd
<1>0. ASSUME UNCHANGED <<running, holder>> PROVE SomeEnd
  <2>1. Ends({})
    BY <1>0 DEF Ends, TypeOK
  <2> QED BY <2>1 DEF SomeEnd
<1>1. ASSUME NEW o \in Operator, NEW a \in App, BeginCreate(o, a)
      PROVE  SomeEnd
  BY <1>0, <1>1 DEF BeginCreate, Load, runs
<1>2. ASSUME NEW o \in Operator, NEW a \in catalog \cup {All}, BeginEnqueue(o, a)
      PROVE  SomeEnd
  BY <1>0, <1>2 DEF BeginEnqueue, Load, runs
<1>3. ASSUME NEW o \in Operator, NEW v \in Rev, CommitCreate(o, v)
      PROVE  SomeEnd
  BY <1>0, <1>3 DEF CommitCreate
<1>4. ASSUME NEW o \in Operator, CommitEnqueue(o)
      PROVE  SomeEnd
  BY <1>0, <1>4 DEF CommitEnqueue
<1>5. ASSUME NEW a \in App, DeleteManagedApp(a)
      PROVE  SomeEnd
  <2>1. Ends({r \in running : r.app = a})
    BY <1>5 DEF DeleteManagedApp, Freed, Ends
  <2> QED BY <2>1 DEF SomeEnd
<1>6. ASSUME NEW a \in App, NEW v \in Rev, Reconcile(a, v)
      PROVE  SomeEnd
  BY <1>0, <1>6 DEF Reconcile
<1>7. ASSUME NEW w \in Worker, CreateBrowserBootstraps(w) \/ FinishCheck(w) \/ Crash(w)
      PROVE  SomeEnd
  BY <1>0, <1>7 DEF CreateBrowserBootstraps, FinishCheck, Crash, runs
<1>8. ASSUME NEW w \in Worker, CompleteAppValidation(w)
      PROVE  SomeEnd
  <2>1. UNCHANGED <<running, holder>> \/ Ends({job[w]})
    BY <1>8 DEF CompleteAppValidation, Freed, Ends
  <2> QED BY <2>1, <1>0 DEF SomeEnd
<1>9. ASSUME ExpireAbandonedAppValidation
      PROVE  SomeEnd
  <2>1. Ends(lapsed)
    BY <1>9 DEF ExpireAbandonedAppValidation, FreedLapsed, Freed, Ends
  <2> QED BY <2>1 DEF SomeEnd
<1>10. ASSUME NEW r \in running, LeaseExpires(r)
       PROVE  SomeEnd
  BY <1>0, <1>10 DEF LeaseExpires
<1>11. CASE UNCHANGED vars
  BY <1>0, <1>11 DEF vars, runs
<1> QED BY <1>1, <1>2, <1>3, <1>4, <1>5, <1>6, <1>7, <1>8, <1>9, <1>10, <1>11
        DEF Next, Catalog, Work

\* What the table says of the running runs, as it is proved.
Table == OneRole /\ Checkout /\ IsFiniteSet(running) /\ Cardinality(running) <= Limit

LEMMA TableInit == Init => Table
BY FS_EmptySet, PoolFitsLimit, NoneIsNothing DEF Init, Table, OneRole, Checkout

LEMMA TableStep == TypeOK /\ Table /\ [Next]_vars => Table'
<1> SUFFICES ASSUME TypeOK, Table, [Next]_vars PROVE Table'
  OBVIOUS
<1>0. None \notin running /\ lapsed \subseteq running
  BY NoneIsNothing DEF TypeOK
<1>1. ASSUME NEW w \in Worker, Claim(w)
      PROVE  Table'
  <2>1. PICK r \in queued, i \in Identity : ClaimAppValidation(w, r, i)
    BY <1>1 DEF Claim
  <2> DEFINE live == running \ lapsed
  <2>2. /\ \A s \in live : Roles(r) \cap Roles(s) = {}
        /\ r \notin live
        /\ running' = live \cup {r}
        /\ holder' = [j \in Identity |->
              IF j = i THEN r ELSE IF holder[j] \in lapsed THEN None ELSE holder[j]]
        /\ holder[i] = None \/ holder[i] \in lapsed
    BY <2>1, ClaimEffect
  <2>3. OneRole'
    BY <2>2 DEF Table, OneRole
  <2>4. r # None
    BY NoneIsNothing DEF TypeOK
  <2>5. Checkout'
    <3>1. ASSUME NEW s \in running' PROVE \E j \in Identity : holder'[j] = s
      <4>1. CASE s = r
        BY <2>2, <4>1
      <4>2. CASE s \in live
        <5>1. PICK j \in Identity : holder[j] = s
          BY <4>2 DEF Table, Checkout
        <5>2. j # i
          BY <5>1, <4>2, <2>2, <1>0
        <5> QED BY <5>1, <5>2, <4>2, <2>2
      <4> QED BY <4>1, <4>2, <2>2
    <3>2. ASSUME NEW j \in Identity, NEW k \in Identity, holder'[j] # None
          PROVE  holder'[j] \in running' /\ (j # k => holder'[j] # holder'[k])
      <4>1. CASE j = i
        BY <3>2, <4>1, <2>2, <2>4 DEF Table, Checkout
      <4>2. CASE j # i
        <5>1. holder'[j] = holder[j] /\ holder[j] # None /\ holder[j] \notin lapsed
          BY <3>2, <4>2, <2>2
        <5>2. holder[j] \in live
          BY <5>1 DEF Table, Checkout
        <5> QED BY <5>1, <5>2, <2>2 DEF Table, Checkout
      <4> QED BY <4>1, <4>2
    <3> QED BY <3>1, <3>2 DEF Checkout
  <2>6. IsFiniteSet(live) /\ Cardinality(live) \in Nat
    BY FS_Subset, FS_CardinalityType DEF Table
  <2>7. Cardinality(live) < Limit
    BY <2>1 DEF ClaimAppValidation, Answer, Room
  <2>8. IsFiniteSet(running') /\ Cardinality(running') = Cardinality(live) + 1
    <3> HIDE DEF live
    <3> QED BY <2>2, <2>6, FS_AddElement
  <2>9. Cardinality(running') <= Limit
    BY <2>6, <2>7, <2>8, PoolFitsLimit
  <2> QED BY <2>3, <2>5, <2>8, <2>9 DEF Table
<1>2. ASSUME ~ \E w \in Worker : Claim(w)
      PROVE  Table'
  <2>1. PICK R : /\ running' = running \ R
                 /\ holder' = [i \in Identity |->
                                 IF holder[i] \in R THEN None ELSE holder[i]]
    BY <1>2, OtherEffect DEF SomeEnd, Ends
  <2>2. OneRole'
    BY <2>1 DEF Table, OneRole
  <2>3. Checkout'
    <3>1. ASSUME NEW s \in running' PROVE \E j \in Identity : holder'[j] = s
      BY <2>1, <3>1 DEF Table, Checkout
    <3>2. ASSUME NEW j \in Identity, NEW k \in Identity, holder'[j] # None
          PROVE  holder'[j] \in running' /\ (j # k => holder'[j] # holder'[k])
      BY <2>1, <3>2 DEF Table, Checkout
    <3> QED BY <3>1, <3>2 DEF Checkout
  <2>4. IsFiniteSet(running') /\ Cardinality(running') <= Cardinality(running)
    BY <2>1, FS_Subset DEF Table
  <2>5. Cardinality(running') \in Nat /\ Cardinality(running) \in Nat
    BY <2>4, FS_CardinalityType DEF Table
  <2> QED BY <2>2, <2>3, <2>4, <2>5, PoolFitsLimit DEF Table
<1> QED BY <1>1, <1>2

\* If every identity were checked out, as many runs would be running.
LEMMA TablePool == TypeOK /\ Table => PoolSuffices
<1> SUFFICES ASSUME TypeOK, Table PROVE PoolSuffices
  OBVIOUS
<1>1. ASSUME \A i \in Identity : holder[i] # None
      PROVE  Cardinality(Identity) <= Cardinality(running)
  <2>1. holder \in Injection(Identity, running)
    BY <1>1 DEF Injection, IsInjective, TypeOK, Table, Checkout
  <2> QED BY <2>1, FS_Injection DEF Table
<1>2. /\ Cardinality(running) \in Nat /\ Cardinality(Identity) \in Nat
      /\ Limit \in Nat /\ Limit <= Cardinality(Identity)
  BY FS_CardinalityType, PoolFitsLimit DEF Table
<1> QED BY <1>1, <1>2 DEF PoolSuffices, Table

LEMMA TableInvariance == Spec => []Table
BY TableInit, TableStep, TypeCorrect, PTL DEF Spec

\* "An app is never a target and a witness at the same time", for every ring
\* and every order of claims, lapses, completions and deletions.
THEOREM AppsHaveOneRole == Spec => []OneRole
<1>1. Table => OneRole
  BY DEF Table
<1> QED BY <1>1, TableInvariance, PTL

\* No identity is shared or leaked, whatever workers die or apps are deleted.
THEOREM IdentitiesAreCheckedOut == Spec => []Checkout
<1>1. Table => Checkout
  BY DEF Table
<1> QED BY <1>1, TableInvariance, PTL

\* A claim below the limit always finds a free identity, whenever the pool has
\* as many accounts as the limit allows runs.
THEOREM PoolNeverRunsDry == Spec => []PoolSuffices
BY TypeCorrect, TableInvariance, TablePool, PTL

-----------------------------------------------------------------------------
(* The browsers: a worker keeps what it was given until its app is deleted. *)

\* The worker has a job, and the app that it checks is there.
Kept(w) == step[w] # "idle" /\ job[w].app \notin deleted

\* Such a worker has its job alone; the run is running, its lease is not over,
\* and the account the browser signs in as is checked out to it.
Jobs ==
  \A w \in Worker : Kept(w) =>
    /\ job[w] \in running \ lapsed
    /\ \A v \in Worker : v # w /\ step[v] # "idle" => job[v] # job[w]
    /\ step[w] = "check" => subject[w] \in Identity /\ holder[subject[w]] = job[w]

\* A deletion leaves the other apps' runs and identities alone; nothing else but
\* its worker, or the end of the lease that outlasts the worker, ends a run.
LEMMA JobsStep ==
  ASSUME TypeOK, Table, Jobs, [Next]_vars
  PROVE  Jobs'
<1>0. ASSUME UNCHANGED <<deleted, running, lapsed, holder, job, step, subject>>
      PROVE  Jobs'
  BY <1>0 DEF Jobs, Kept
<1>1. ASSUME NEW o \in Operator, NEW a \in App, BeginCreate(o, a)
      PROVE  Jobs'
  BY <1>0, <1>1 DEF BeginCreate, Load, shop, runs, workers
<1>2. ASSUME NEW o \in Operator, NEW a \in catalog \cup {All}, BeginEnqueue(o, a)
      PROVE  Jobs'
  BY <1>0, <1>2 DEF BeginEnqueue, Load, shop, runs, workers
<1>3. ASSUME NEW o \in Operator, NEW v \in Rev, CommitCreate(o, v)
      PROVE  Jobs'
  BY <1>0, <1>3 DEF CommitCreate, workers
<1>4. ASSUME NEW o \in Operator, CommitEnqueue(o)
      PROVE  Jobs'
  BY <1>0, <1>4 DEF CommitEnqueue, workers
<1>5. ASSUME NEW a \in App, DeleteManagedApp(a)
      PROVE  Jobs'
  <2> DEFINE gone == {r \in running : r.app = a}
  <2>1. /\ deleted' = deleted \cup {a} /\ running' = running \ gone
        /\ lapsed' = lapsed \ gone /\ UNCHANGED <<job, step, subject>>
        /\ holder' = [i \in Identity |-> IF holder[i] \in gone THEN None ELSE holder[i]]
    BY <1>5 DEF DeleteManagedApp, Freed, workers
  <2>2. \A w \in Worker : Kept(w)' => Kept(w) /\ job[w] \notin gone
    BY <2>1 DEF Kept
  <2> QED BY <2>1, <2>2 DEF Jobs
<1>6. ASSUME NEW a \in App, NEW v \in Rev, Reconcile(a, v)
      PROVE  Jobs'
  BY <1>0, <1>6 DEF Reconcile, workers
<1>7. ASSUME NEW w \in Worker, Claim(w)
      PROVE  Jobs'
  <2>1. PICK r \in queued, i \in Identity : ClaimAppValidation(w, r, i)
    BY <1>7 DEF Claim
  <2> DEFINE live == running \ lapsed
  <2>2. /\ r \notin live
        /\ running' = live \cup {r}
        /\ holder' = [j \in Identity |->
              IF j = i THEN r ELSE IF holder[j] \in lapsed THEN None ELSE holder[j]]
        /\ holder[i] = None \/ holder[i] \in lapsed
    BY <2>1, ClaimEffect
  <2>3. lapsed' = {} /\ UNCHANGED <<subject, deleted>> /\ step[w] = "idle"
    BY <2>1 DEF ClaimAppValidation, Answer, shop
  <2>4. None \notin running
    BY NoneIsNothing DEF TypeOK
  <2>5. \A v \in Worker : Kept(v) /\ step[v] = "check" =>
          subject[v] \in Identity /\ holder'[subject[v]] = job[v]
    BY <2>2, <2>4 DEF Jobs
  <2>6. CASE UNCHANGED <<job, step>>
    BY <2>2, <2>3, <2>5, <2>6 DEF Jobs, Kept
  <2>7. CASE job' = [job EXCEPT ![w] = r] /\ step' = [step EXCEPT ![w] = "start"]
    <3>1. job'[w] = r /\ step'[w] = "start"
      BY <2>7 DEF TypeOK
    <3>2. \A v \in Worker : v # w => job'[v] = job[v] /\ step'[v] = step[v]
      BY <2>7 DEF TypeOK
    <3>3. \A v \in Worker : Kept(v) => job[v] \in live
      BY DEF Jobs
    <3>4. \A v \in Worker : v # w => (Kept(v)' <=> Kept(v))
      BY <2>3, <3>2 DEF Kept
    <3>5. ASSUME NEW v \in Worker, v # w, step[v] # "idle", r.app \notin deleted
          PROVE  job[v] # r
      BY <3>3, <3>5, <2>2 DEF Kept
    <3>6. Kept(w)' => r.app \notin deleted
      BY <2>3, <3>1 DEF Kept
    <3>7. ASSUME NEW v \in Worker, Kept(v)'
          PROVE  /\ job'[v] \in running' \ lapsed'
                 /\ \A u \in Worker : u # v /\ step'[u] # "idle" => job'[u] # job'[v]
                 /\ step'[v] = "check" =>
                      subject'[v] \in Identity /\ holder'[subject'[v]] = job'[v]
      <4>1. CASE v = w
        BY <3>1, <3>2, <3>5, <3>6, <3>7, <4>1, <2>2, <2>3
      <4>2. CASE v # w
        <5>1. Kept(v) /\ job'[v] = job[v] /\ step'[v] = step[v] /\ job[v] \in live
          BY <3>2, <3>3, <3>4, <3>7, <4>2
        <5>2. \A u \in Worker : u # v /\ step'[u] # "idle" => job'[u] # job'[v]
          BY <3>1, <3>2, <5>1, <2>2 DEF Jobs
        <5> QED BY <5>1, <5>2, <2>2, <2>3, <2>5
      <4> QED BY <4>1, <4>2
    <3> QED BY <3>7 DEF Jobs
  <2> QED BY <2>1, <2>6, <2>7 DEF ClaimAppValidation, Answer
<1>8. ASSUME NEW w \in Worker, CreateBrowserBootstraps(w)
      PROVE  Jobs'
  BY <1>8 DEF CreateBrowserBootstraps, Jobs, Kept, TypeOK, shop, runs
<1>9. ASSUME NEW w \in Worker, FinishCheck(w)
      PROVE  Jobs'
  BY <1>9 DEF FinishCheck, Jobs, Kept, TypeOK, shop, runs
<1>10. ASSUME NEW w \in Worker, CompleteAppValidation(w)
       PROVE  Jobs'
  <2>1. step'[w] = "idle" /\ step[w] # "idle" /\ deleted' = deleted
    BY <1>10 DEF CompleteAppValidation, Leave, TypeOK, shop
  <2>2. \A v \in Worker : v # w => /\ job'[v] = job[v] /\ step'[v] = step[v]
                                   /\ subject'[v] = subject[v]
    BY <1>10 DEF CompleteAppValidation, Leave, TypeOK
  <2>3. ASSUME NEW v \in Worker, Kept(v)'
        PROVE  /\ job'[v] \in running' \ lapsed'
               /\ step'[v] = "check" => /\ subject'[v] \in Identity
                                        /\ holder'[subject'[v]] = job'[v]
    <3>1. v # w /\ Kept(v) /\ job[v] # job[w]
      BY <2>1, <2>2, <2>3 DEF Jobs, Kept
    <3> QED BY <3>1, <2>2, <1>10 DEF CompleteAppValidation, Freed, Jobs
  <2>4. \A v \in Worker : Kept(v)' => v # w /\ Kept(v)
    BY <2>1, <2>2 DEF Kept
  <2> QED BY <2>1, <2>2, <2>3, <2>4 DEF Jobs
<1>11. ASSUME NEW w \in Worker, Crash(w)
       PROVE  Jobs'
  BY <1>11 DEF Crash, Leave, Jobs, Kept, TypeOK, shop, runs
<1>12. ASSUME ExpireAbandonedAppValidation
       PROVE  Jobs'
  BY <1>12 DEF ExpireAbandonedAppValidation, FreedLapsed, Freed, Jobs, Kept, shop, workers
<1>13. ASSUME NEW r \in running, LeaseExpires(r)
       PROVE  Jobs'
  BY <1>13 DEF LeaseExpires, Jobs, Kept, shop, workers
<1>14. CASE UNCHANGED vars
  BY <1>0, <1>14 DEF vars, shop, runs, workers
<1> QED BY <1>1, <1>2, <1>3, <1>4, <1>5, <1>6, <1>7, <1>8, <1>9, <1>10, <1>11,
           <1>12, <1>13, <1>14 DEF Next, Catalog, Work

\* Workers have their jobs in every reachable state.
LEMMA JobsInvariance == Spec => []Jobs
<1>1. Init => Jobs
  BY DEF Init, Jobs, Kept
<1>2. TypeOK /\ Table /\ Jobs /\ [Next]_vars => Jobs'
  BY JobsStep
<1> QED BY <1>1, <1>2, TypeCorrect, TableInvariance, PTL DEF Spec

\* Browsers at work on apps that are still in the catalog use different accounts
\* and different apps: the deletion of the target of a check is the only thing
\* that takes its account and its witness from under it.
SurvivorsApart ==
  \A v, w \in Worker :
    /\ v # w /\ step[v] = "check" /\ step[w] = "check"
    /\ job[v].app \notin deleted /\ job[w].app \notin deleted
    => subject[v] # subject[w] /\ Roles(job[v]) \cap Roles(job[w]) = {}

\* No two browsers use one account or one app at a time, unless the app that one
\* of them checks was deleted under it: the reservation in the table outlasts
\* the check, whatever other apps, witnesses included, are deleted meanwhile.
THEOREM SurvivingChecksAreApart == Spec => []SurvivorsApart
<1>1. Table /\ Jobs => SurvivorsApart
  BY DEF Table, OneRole, Jobs, Kept, SurvivorsApart
<1> QED BY <1>1, TableInvariance, JobsInvariance, PTL

\* Where every app is declared by the deployment, so that none is deleted, no
\* two browsers use one account or one app at a time.  (Deletion breaks this:
\* ValidationDeletedApp.)
THEOREM DeclaredAppsAreCheckedApart ==
  ASSUME App \subseteq DeploymentOwned
  PROVE  Spec => []ChecksApart
<1> DEFINE NoneDeleted == deleted = {}
<1>1. Init => NoneDeleted
  BY DEF Init
<1>2. NoneDeleted /\ [Next]_vars => NoneDeleted'
  <2> SUFFICES ASSUME deleted = {}, [Next]_vars PROVE deleted' = {}
    OBVIOUS
  <2>1. ASSUME NEW a \in App, DeleteManagedApp(a) PROVE FALSE
    BY <2>1 DEF DeleteManagedApp
  <2> QED BY <2>1 DEF Next, Catalog, BeginCreate, BeginEnqueue, Load, CommitCreate,
          CommitEnqueue, Reconcile, Claim, ClaimAppValidation, Work,
          CreateBrowserBootstraps, FinishCheck, CompleteAppValidation, Crash,
          ExpireAbandonedAppValidation, LeaseExpires, vars, shop
<1>3. NoneDeleted /\ SurvivorsApart => ChecksApart
  BY DEF SurvivorsApart, ChecksApart
<1> HIDE DEF NoneDeleted
<1> QED BY <1>1, <1>2, <1>3, SurvivingChecksAreApart, PTL DEF Spec

-----------------------------------------------------------------------------
(* The ring: unless requests overlap, every check it needs is there. *)

\* Which check a run is does not depend on when it was requested.
LEMMA AnyTime ==
  ASSUME NEW r, NEW a, NEW d, NEW ring, NEW version, NEW t, NEW u,
         SameCheck(r, NewRun(a, d, ring, version, t))
  PROVE  SameCheck(r, NewRun(a, d, ring, version, u)) /\ r.app = a
BY DEF SameCheck, NewRun

\* After a request every target has its checks pending.
LEMMA EnqueueCovers ==
  ASSUME NEW targets, NEW ring, NEW version, NEW waiting, NEW active,
         Enqueue(targets, ring, version, waiting, active),
         NEW a \in targets, NEW d \in Direction
  PROVE  \E r \in queued' \cup active :
           SameCheck(r, NewRun(a, d, ring, version, clock'))
<1> DEFINE new == NewRuns(targets, ring, version, clock + 1)
           s == NewRun(a, d, ring, version, clock + 1)
           kept == {r \in waiting : r.app \in targets => \E n \in new : SameCheck(r, n)}
<1>1. s \in new
  BY DEF NewRuns
<1>2. clock' = clock + 1 /\ queued' = kept \cup
        {n \in new : ~ \E r \in kept \cup active : SameCheck(r, n)}
  BY DEF Enqueue
<1>3. SameCheck(s, s)
  BY DEF SameCheck
<1> HIDE DEF new, s, kept
<1>4. \E r \in queued' \cup active : SameCheck(r, s)
  BY <1>1, <1>2, <1>3
<1> QED BY <1>2, <1>4 DEF s

Covered ==
  \A a \in catalog, d \in Direction : \E r \in queued \cup running \cup done :
    SameCheck(r, NewRun(a, d, catalog, rev, clock))

\* The one request under way has seen every app, though some may be gone.
SawAll == \A o \in Operator : op[o] # None => catalog \subseteq seen[o]

\* Moving runs from one status to the next loses no check.
LEMMA CoveredFrame ==
  ASSUME Covered, rev' = rev,
         queued \cup running \cup done \subseteq (queued \cup running \cup done)'
  PROVE  Covered'
<1> SUFFICES ASSUME NEW a \in catalog, NEW d \in Direction
             PROVE  \E r \in (queued \cup running \cup done)' :
                      SameCheck(r, NewRun(a, d, catalog, rev, clock'))
  BY DEF Covered, catalog
<1>1. PICK r \in queued \cup running \cup done :
        SameCheck(r, NewRun(a, d, catalog, rev, clock))
  BY DEF Covered
<1> QED BY <1>1, AnyTime

\* The request saw every app that is in the catalog, and it ends with this step.
Fresh(o) == catalog \subseteq seen[o]
Commits(o) == op[o] # None /\ op'[o] = None

\* The requests that queue the whole ring: changes and deletions, which lock
\* before they read, and registrations and requests for all apps that saw it.
Refreshes ==
  \/ \E a \in App : DeleteManagedApp(a) \/ \E v \in Rev : Reconcile(a, v)
  \/ \E o \in Operator : /\ Fresh(o)
                         /\ \/ \E v \in Rev : CommitCreate(o, v)
                            \/ op[o] = All /\ CommitEnqueue(o)

\* A registration that saw the catalog covers it, with the new app.
LEMMA CreateCovers ==
  ASSUME TypeOK, NEW o \in Operator, NEW v \in Rev, CommitCreate(o, v), Fresh(o)
  PROVE  Covered'
<1> DEFINE ring == Locked(o) \cup {op[o]}
<1>1. op[o] \in App /\ Locked(o) = catalog
  BY DEF TypeOK, CommitCreate, Fresh, Locked
<1>2. rev' = [rev EXCEPT ![op[o]] = v] /\ v # None
  BY NoneIsNothing DEF CommitCreate
<1>3. catalog' = ring
  BY <1>1, <1>2 DEF catalog, Listed, TypeOK
<1>4. Enqueue(ring, ring, rev', queued, running) /\ running' = running
  BY DEF CommitCreate
<1> HIDE DEF ring
<1> QED BY <1>3, <1>4, EnqueueCovers DEF Covered

\* A deletion covers the ring that is left.
LEMMA DeleteCovers ==
  ASSUME TypeOK, NEW a \in App, DeleteManagedApp(a)
  PROVE  Covered' /\ catalog' \subseteq catalog
<1> DEFINE ring == catalog \ {a}
           left == running \ {r \in running : r.app = a}
<1>1. rev' = [rev EXCEPT ![a] = None] /\ running' = left
  BY DEF DeleteManagedApp
<1>2. catalog' = ring
  BY <1>1 DEF catalog, Listed, TypeOK
<1>3. Enqueue(ring, ring, rev, {r \in queued : r.app # a}, left)
  BY DEF DeleteManagedApp
<1>4. ASSUME NEW b \in ring, NEW d \in Direction
      PROVE  NewRun(b, d, ring, rev', clock') = NewRun(b, d, ring, rev, clock')
  <2>1. Witness(b, ring) \in ring \cup {None}
    BY WitnessType
  <2>2. \A c \in ring : rev'[c] = rev[c]
    BY <1>1 DEF TypeOK, catalog, Listed
  <2> QED BY <2>1, <2>2 DEF NewRun
<1>5. Covered'
  <2> SUFFICES ASSUME NEW b \in ring, NEW d \in Direction
               PROVE  \E r \in (queued \cup running \cup done)' :
                        SameCheck(r, NewRun(b, d, ring, rev', clock'))
    BY <1>2 DEF Covered
  <2> HIDE DEF ring, left
  <2>1. \E r \in queued' \cup left : SameCheck(r, NewRun(b, d, ring, rev, clock'))
    BY <1>3, EnqueueCovers
  <2> QED BY <2>1, <1>1, <1>4
<1> QED BY <1>2, <1>5

\* A changed contract covers the ring.
LEMMA ReconcileCovers ==
  ASSUME TypeOK, NEW a \in App, NEW v \in Rev, Reconcile(a, v)
  PROVE  Covered' /\ catalog' = catalog
<1>1. /\ rev' = [rev EXCEPT ![a] = v] /\ a \in catalog /\ v # None
      /\ running' = running
  BY NoneIsNothing DEF Reconcile
<1>2. catalog' = catalog
  BY <1>1 DEF catalog, Listed, TypeOK
<1>3. Enqueue(catalog, catalog, rev', queued, running)
  BY DEF Reconcile
<1> QED BY <1>1, <1>2, <1>3, EnqueueCovers DEF Covered

\* A request for validation that saw the catalog covers its targets, and leaves
\* the checks of other apps as they are.
LEMMA RequestCovers ==
  ASSUME NEW o \in Operator, CommitEnqueue(o), Fresh(o), Covered \/ op[o] = All
  PROVE  Covered'
<1> DEFINE targets == IF op[o] = All THEN Locked(o) ELSE Locked(o) \cap {op[o]}
<1>1. Locked(o) = catalog /\ catalog' = catalog /\ rev' = rev
  BY DEF CommitEnqueue, catalog, Fresh, Locked
<1>2. running' = running /\ done' = done
  BY DEF CommitEnqueue
<1>3. CASE targets = {}
  <2>1. queued' = queued
    BY <1>3 DEF CommitEnqueue
  <2>2. CASE Covered
    BY <2>1, <2>2, <1>1, <1>2, CoveredFrame
  <2>3. CASE op[o] = All
    BY <2>3, <1>1, <1>3 DEF Covered
  <2> QED BY <2>2, <2>3
<1>4. CASE targets # {}
  <2>1. Enqueue(targets, catalog, rev, queued, running)
    BY <1>4, <1>1 DEF CommitEnqueue
  <2>2. op[o] = All => targets = catalog
    BY <1>1
  <2> HIDE DEF targets
  <2> SUFFICES ASSUME NEW a \in catalog, NEW d \in Direction
               PROVE  \E r \in (queued \cup running \cup done)' :
                        SameCheck(r, NewRun(a, d, catalog, rev, clock'))
    BY <1>1 DEF Covered
  <2>3. CASE a \in targets
    BY <2>1, <2>3, <1>2, EnqueueCovers
  <2>4. CASE a \notin targets
    <3>1. PICK r \in queued \cup running \cup done :
            SameCheck(r, NewRun(a, d, catalog, rev, clock))
      BY <2>2, <2>4 DEF Covered
    <3>2. r.app = a /\ SameCheck(r, NewRun(a, d, catalog, rev, clock'))
      BY <3>1, AnyTime
    <3>3. r \in (queued \cup running \cup done)'
      BY <2>1, <2>4, <3>2, <1>2 DEF Enqueue
    <3> QED BY <3>2, <3>3
  <2> QED BY <2>3, <2>4
<1> QED BY <1>3, <1>4

\* Steps that are not requests, or only the beginning of one, lose no check.
LEMMA QuietStepCovers ==
  ASSUME Covered, [Next]_vars,
         ~ \E o \in Operator : CommitEnqueue(o) \/ \E v \in Rev : CommitCreate(o, v),
         ~ \E a \in App : DeleteManagedApp(a) \/ \E v \in Rev : Reconcile(a, v)
  PROVE  Covered' /\ catalog' = catalog
<1>0. ASSUME rev' = rev,
             queued \cup running \cup done \subseteq (queued \cup running \cup done)'
      PROVE  Covered' /\ catalog' = catalog
  BY <1>0, CoveredFrame DEF catalog
<1>1. ASSUME NEW o \in Operator, NEW a, NEW new \in BOOLEAN, Load(o, a, new)
      PROVE  Covered' /\ catalog' = catalog
  BY <1>0, <1>1 DEF Load, shop, runs
<1>2. ASSUME NEW w \in Worker, Claim(w)
      PROVE  Covered' /\ catalog' = catalog
  BY <1>0, <1>2 DEF Claim, ClaimAppValidation, Answer, shop
<1>3. ASSUME NEW w \in Worker, CreateBrowserBootstraps(w) \/ FinishCheck(w) \/ Crash(w)
      PROVE  Covered' /\ catalog' = catalog
  BY <1>0, <1>3 DEF CreateBrowserBootstraps, FinishCheck, Crash, shop, runs
<1>4. ASSUME NEW w \in Worker, CompleteAppValidation(w)
      PROVE  Covered' /\ catalog' = catalog
  BY <1>0, <1>4 DEF CompleteAppValidation, shop
<1>5. ASSUME ExpireAbandonedAppValidation
      PROVE  Covered' /\ catalog' = catalog
  BY <1>0, <1>5 DEF ExpireAbandonedAppValidation, shop
<1>6. ASSUME NEW r \in running, LeaseExpires(r)
      PROVE  Covered' /\ catalog' = catalog
  BY <1>0, <1>6 DEF LeaseExpires, shop
<1>7. CASE UNCHANGED vars
  BY <1>0, <1>7 DEF vars, shop, runs
<1> QED BY <1>1, <1>2, <1>3, <1>4, <1>5, <1>6, <1>7
        DEF Next, Catalog, Work, BeginCreate, BeginEnqueue

\* Both commits are ends of requests.
LEMMA CommitsEnd ==
  ASSUME TypeOK, NEW o \in Operator,
         CommitEnqueue(o) \/ \E v \in Rev : CommitCreate(o, v)
  PROVE  Commits(o)
<1>1. op[o] # None
  BY NoneIsNothing DEF TypeOK, CommitEnqueue, CommitCreate
<1>2. op'[o] = None
  BY DEF TypeOK, CommitEnqueue, CommitCreate, Close
<1> QED BY <1>1, <1>2 DEF Commits

\* A step loses coverage only if it ends a request with an outdated view.
LEMMA CoveredStep ==
  ASSUME TypeOK, Covered, [Next]_vars, \A o \in Operator : Commits(o) => Fresh(o)
  PROVE  Covered'
<1>1. ASSUME NEW o \in Operator, CommitEnqueue(o) \/ \E v \in Rev : CommitCreate(o, v)
      PROVE  Covered'
  BY <1>1, CommitsEnd, RequestCovers, CreateCovers
<1>2. ASSUME NEW a \in App, DeleteManagedApp(a) \/ \E v \in Rev : Reconcile(a, v)
      PROVE  Covered'
  BY <1>2, DeleteCovers, ReconcileCovers
<1> QED BY <1>1, <1>2, QuietStepCovers

\* While one request follows another, what it saw stays all there is.
LEMMA SawAllStep ==
  ASSUME \A o, p \in Operator : o = p, TypeOK, Covered, SawAll, [Next]_vars
  PROVE  SawAll'
<1>1. ASSUME NEW o \in Operator, NEW a, NEW new \in BOOLEAN, Load(o, a, new)
      PROVE  SawAll'
  <2>1. seen'[o] = catalog /\ catalog' = catalog
    BY <1>1 DEF Load, shop, TypeOK, catalog
  <2> QED BY <2>1 DEF SawAll
<1>2. ASSUME NEW o \in Operator, CommitEnqueue(o) \/ \E v \in Rev : CommitCreate(o, v)
      PROVE  SawAll'
  <2>1. op'[o] = None
    BY <1>2, CommitsEnd DEF Commits
  <2> QED BY <2>1 DEF SawAll
<1>3. ASSUME UNCHANGED operators, catalog' \subseteq catalog
      PROVE  SawAll'
  BY <1>3 DEF operators, SawAll
<1>4. ASSUME NEW a \in App, DeleteManagedApp(a) \/ \E v \in Rev : Reconcile(a, v)
      PROVE  SawAll'
  <2>1. UNCHANGED operators
    BY <1>4 DEF DeleteManagedApp, Reconcile
  <2> QED BY <2>1, <1>3, <1>4, DeleteCovers, ReconcileCovers
<1>5. CASE ~ \E a \in App : DeleteManagedApp(a) \/ \E v \in Rev : Reconcile(a, v)
  <2>1. CASE \E o \in Operator : CommitEnqueue(o) \/ \E v \in Rev : CommitCreate(o, v)
    BY <2>1, <1>2
  <2>2. CASE ~ \E o \in Operator : CommitEnqueue(o) \/ \E v \in Rev : CommitCreate(o, v)
    <3>1. catalog' = catalog
      BY <2>2, <1>5, QuietStepCovers
    <3>2. CASE UNCHANGED operators
      BY <3>1, <3>2, <1>3
    <3>3. CASE \E o \in Operator : \/ \E a \in App : BeginCreate(o, a)
                                   \/ \E a \in catalog \cup {All} : BeginEnqueue(o, a)
      BY <3>3, <1>1 DEF BeginCreate, BeginEnqueue
    <3> QED BY <3>2, <3>3, <2>2, <1>5
            DEF Next, Catalog, Claim, ClaimAppValidation, Answer, Work,
                CreateBrowserBootstraps, FinishCheck, CompleteAppValidation, Crash,
                ExpireAbandonedAppValidation, LeaseExpires, vars, operators
  <2> QED BY <2>1, <2>2
<1> QED BY <1>4, <1>5

\* The ring is covered at first.
LEMMA CoveredInit == Init => Covered /\ SawAll
<1> SUFFICES ASSUME Init PROVE Covered /\ SawAll
  OBVIOUS
<1>1. ASSUME NEW a \in catalog, NEW d \in Direction
      PROVE  \E r \in done : SameCheck(r, NewRun(a, d, catalog, rev, clock))
  <2>1. NewRun(a, d, catalog, rev, 0) \in done
    BY DEF Init, NewRuns
  <2>2. SameCheck(NewRun(a, d, catalog, rev, 0), NewRun(a, d, catalog, rev, clock))
    BY DEF SameCheck, NewRun
  <2> QED BY <2>1, <2>2
<1> QED BY <1>1 DEF Init, Covered, SawAll

\* While requests that read the catalog follow one another, every registered
\* app is checked, or queued for it, against the ring as it is.  (What is left
\* of this when they overlap is OnlyOutdatedViewsUncover.)
THEOREM SerialRequestsCoverTheRing ==
  ASSUME \A o, p \in Operator : o = p
  PROVE  Spec => []RingCovered
<1>1. Init => Covered /\ SawAll
  BY CoveredInit
<1>2. TypeOK /\ Covered /\ SawAll /\ [Next]_vars => Covered' /\ SawAll'
  <2> SUFFICES ASSUME TypeOK, Covered, SawAll, [Next]_vars PROVE Covered' /\ SawAll'
    OBVIOUS
  <2>1. \A o \in Operator : Commits(o) => Fresh(o)
    BY DEF SawAll, Commits, Fresh
  <2> QED BY <2>1, CoveredStep, SawAllStep
<1>3. Covered => RingCovered
  BY DEF Covered, RingCovered
<1> QED BY <1>1, <1>2, <1>3, TypeCorrect, PTL DEF Spec

\* Coverage is lost only by a request that commits although the catalog has an
\* app it did not see, and every request that queues the whole ring restores it.
CoverageRecovers ==
  [][/\ Covered /\ ~Covered' => \E o \in Operator : Commits(o) /\ ~Fresh(o)
     /\ Refreshes => Covered']_vars

\* With any number of overlapping requests: nothing but an outdated view loses a
\* check the ring needs, neither workers, lost answers, deletions nor changes of
\* contracts do, and what is lost comes back with the next change, deletion or
\* request for all apps that is not overtaken by a registration.
THEOREM OnlyOutdatedViewsUncover == Spec => CoverageRecovers
<1> DEFINE Recovers ==
      /\ Covered /\ ~Covered' => \E o \in Operator : Commits(o) /\ ~Fresh(o)
      /\ Refreshes => Covered'
<1>1. TypeOK /\ [Next]_vars => [Recovers]_vars
  <2> SUFFICES ASSUME TypeOK, [Next]_vars PROVE Recovers
    OBVIOUS
  <2>1. Covered /\ ~Covered' => \E o \in Operator : Commits(o) /\ ~Fresh(o)
    BY CoveredStep
  <2>2. Refreshes => Covered'
    BY DeleteCovers, ReconcileCovers, CreateCovers, RequestCovers DEF Refreshes
  <2> QED BY <2>1, <2>2
<1> QED BY <1>1, TypeCorrect, PTL DEF Spec, CoverageRecovers

-----------------------------------------------------------------------------
(* The life of a run: queued, then running, then done, and never back. *)

\* A run has one status, and was requested at a time that has come.
Statuses == /\ queued \cap running = {} /\ (queued \cup running) \cap done = {}
            /\ \A r \in queued \cup running \cup done : r.at <= clock

\* What RunsSettleOnce asks of a step.
Settles == /\ queued' \cap (running \cup done) = {}
           /\ running' \subseteq running \cup queued
           /\ done' \subseteq done \cup running
           /\ running' \cap (done \cup done') = {}

\* A request queues runs that were queued before, or that are new: a new one
\* bears a time that no run has.
LEMMA EnqueueIsNew ==
  ASSUME NEW targets, NEW ring, NEW version, NEW waiting, NEW active,
         TypeOK, Statuses, waiting \subseteq queued,
         Enqueue(targets, ring, version, waiting, active)
  PROVE  /\ clock' = clock + 1
         /\ \A r \in queued' : r \in queued \/ r.at = clock'
         /\ \A r \in queued' : r \notin running \cup done
<1>1. clock' = clock + 1 /\ clock \in Nat
  BY DEF Enqueue, TypeOK
<1>2. \A r \in NewRuns(targets, ring, version, clock + 1) : r.at = clock'
  BY <1>1 DEF NewRuns, NewRun
<1>3. \A r \in queued' : r \in queued \/ r.at = clock'
  BY <1>2 DEF Enqueue
<1>4. ASSUME NEW r \in running \cup done, r.at = clock + 1 PROVE FALSE
  <2>1. r.at \in Nat /\ r.at <= clock
    BY DEF Statuses, TypeOK, Row
  <2> QED BY <2>1, <1>1, <1>4
<1> QED BY <1>1, <1>3, <1>4 DEF Statuses

\* A request moves no run: it queues new ones, and drops runs or keeps them.
LEMMA RequestSettles ==
  ASSUME NEW targets, NEW ring, NEW version, NEW waiting, NEW active,
         TypeOK, Statuses, waiting \subseteq queued,
         Enqueue(targets, ring, version, waiting, active),
         running' \subseteq running, done' \subseteq done
  PROVE  Statuses' /\ Settles
<1>1. /\ clock' = clock + 1
      /\ \A r \in queued' : r \in queued \/ r.at = clock'
      /\ \A r \in queued' : r \notin running \cup done
  BY EnqueueIsNew
<1>2. clock \in Nat /\ \A r \in queued \cup running \cup done : r.at \in Nat
  BY DEF TypeOK, Row
<1>3. \A r \in (queued \cup running \cup done)' : r.at <= clock'
  BY <1>1, <1>2 DEF Statuses
<1> QED BY <1>1, <1>3 DEF Statuses, Settles

\* No step gives a run two statuses, and none takes one back.
LEMMA StatusesStep == TypeOK /\ Statuses /\ [Next]_vars => Statuses' /\ Settles
<1> SUFFICES ASSUME TypeOK, Statuses, [Next]_vars PROVE Statuses' /\ Settles
  OBVIOUS
<1>0. ASSUME UNCHANGED <<clock, queued, running, done>> PROVE Statuses' /\ Settles
  BY <1>0 DEF Statuses, Settles
<1>1. ASSUME NEW o \in Operator, NEW a, NEW new \in BOOLEAN, Load(o, a, new)
      PROVE  Statuses' /\ Settles
  BY <1>0, <1>1 DEF Load, shop, runs
<1>2. ASSUME NEW o \in Operator, NEW v \in Rev, CommitCreate(o, v)
      PROVE  Statuses' /\ Settles
  <2> DEFINE locked == Locked(o) \cup {op[o]}
  <2>1. /\ Enqueue(locked, locked, rev', queued, running)
        /\ running' = running /\ done' = done
    BY <1>2 DEF CommitCreate
  <2> HIDE DEF locked
  <2> QED BY <2>1, RequestSettles
<1>3. ASSUME NEW o \in Operator, CommitEnqueue(o)
      PROVE  Statuses' /\ Settles
  <2> DEFINE targets == IF op[o] = All THEN Locked(o) ELSE Locked(o) \cap {op[o]}
  <2>1. running' = running /\ done' = done
    BY <1>3 DEF CommitEnqueue
  <2>2. CASE targets = {}
    BY <1>0, <1>3, <2>1, <2>2 DEF CommitEnqueue
  <2>3. CASE targets # {}
    <3>1. Enqueue(targets, Locked(o), rev, queued, running)
      BY <1>3, <2>3 DEF CommitEnqueue
    <3> HIDE DEF targets
    <3> QED BY <3>1, <2>1, RequestSettles
  <2> QED BY <2>2, <2>3
<1>4. ASSUME NEW a \in App, DeleteManagedApp(a)
      PROVE  Statuses' /\ Settles
  <2> DEFINE left == catalog \ {a}
             stays == running \ {r \in running : r.app = a}
             waits == {r \in queued : r.app # a}
  <2>1. Enqueue(left, left, rev, waits, stays)
    BY <1>4 DEF DeleteManagedApp
  <2>2. running' \subseteq running /\ done' \subseteq done /\ waits \subseteq queued
    BY <1>4 DEF DeleteManagedApp
  <2> HIDE DEF left, stays, waits
  <2> QED BY <2>1, <2>2, RequestSettles
<1>5. ASSUME NEW a \in App, NEW v \in Rev, Reconcile(a, v)
      PROVE  Statuses' /\ Settles
  <2>1. /\ Enqueue(catalog, catalog, rev', queued, running)
        /\ running' = running /\ done' = done
    BY <1>5 DEF Reconcile
  <2> QED BY <2>1, RequestSettles
<1>6. ASSUME NEW w \in Worker, Claim(w)
      PROVE  Statuses' /\ Settles
  <2>1. PICK r \in queued, i \in Identity : ClaimAppValidation(w, r, i)
    BY <1>6 DEF Claim
  <2>2. /\ queued' = queued \ {r} /\ running' = (running \ lapsed) \cup {r}
        /\ done' = done \cup lapsed /\ clock' = clock
    BY <2>1 DEF ClaimAppValidation, Answer, shop
  <2>3. lapsed \subseteq running
    BY DEF TypeOK
  <2> QED BY <2>2, <2>3 DEF Statuses, Settles
<1>7. ASSUME NEW w \in Worker, CreateBrowserBootstraps(w) \/ FinishCheck(w) \/ Crash(w)
      PROVE  Statuses' /\ Settles
  BY <1>0, <1>7 DEF CreateBrowserBootstraps, FinishCheck, Crash, shop, runs
<1>8. ASSUME NEW w \in Worker, CompleteAppValidation(w)
      PROVE  Statuses' /\ Settles
  <2>1. queued' = queued /\ clock' = clock
    BY <1>8 DEF CompleteAppValidation, shop
  <2>2. CASE UNCHANGED <<running, done>>
    BY <1>0, <2>1, <2>2
  <2>3. CASE /\ job[w] \in running /\ running' = running \ {job[w]}
             /\ done' = done \cup {job[w]}
    BY <2>1, <2>3 DEF Statuses, Settles
  <2> QED BY <1>8, <2>2, <2>3 DEF CompleteAppValidation
<1>9. ASSUME ExpireAbandonedAppValidation
      PROVE  Statuses' /\ Settles
  <2>1. /\ queued' = queued /\ running' = running \ lapsed
        /\ done' = done \cup lapsed /\ clock' = clock
    BY <1>9 DEF ExpireAbandonedAppValidation, shop
  <2>2. lapsed \subseteq running
    BY DEF TypeOK
  <2> QED BY <2>1, <2>2 DEF Statuses, Settles
<1>10. ASSUME NEW r \in running, LeaseExpires(r)
       PROVE  Statuses' /\ Settles
  BY <1>0, <1>10 DEF LeaseExpires, shop
<1>11. CASE UNCHANGED vars
  BY <1>0, <1>11 DEF vars, shop, runs
<1> QED BY <1>1, <1>2, <1>3, <1>4, <1>5, <1>6, <1>7, <1>8, <1>9, <1>10, <1>11
        DEF Next, Catalog, Work, BeginCreate, BeginEnqueue

\* A run is claimed once and settled once, for any number of workers, requests
\* and lost answers: a run is known by when it was requested, so that a request
\* that repeats a check makes another run, and one that is claimed or settled
\* never comes back.
THEOREM RunsAreSettledOnce == Spec => RunsSettleOnce
<1>1. Init => Statuses
  <2> SUFFICES ASSUME Init PROVE Statuses
    OBVIOUS
  <2>1. \A r \in done : r.at <= clock
    BY DEF Init, NewRuns, NewRun
  <2> QED BY <2>1 DEF Init, Statuses
<1>2. TypeOK /\ Statuses /\ [Next]_vars => Statuses' /\ [Settles]_vars
  BY StatusesStep
<1>3. [Settles]_vars <=>
        [/\ queued' \cap (running \cup done) = {}
         /\ running' \subseteq running \cup queued
         /\ done' \subseteq done \cup running
         /\ running' \cap (done \cup done') = {}]_vars
  BY DEF Settles
<1> QED BY <1>1, <1>2, <1>3, TypeCorrect, PTL DEF Spec, RunsSettleOnce
=============================================================================
