--------------------------- MODULE AppValidation ---------------------------
(***************************************************************************)
(* The queue of browser validations and the pool of validation identities. *)
(*                                                                         *)
(* PostgreSQL holds the catalog of managed apps, the validation runs and   *)
(* which run has checked out which identity.  A transaction is one step,   *)
(* but for the two that read the catalog before they wait for its row      *)
(* locks: under READ COMMITTED such a transaction goes on with the rows    *)
(* its statement saw, in their newest version, and misses the apps that    *)
(* were inserted meanwhile.  Validator workers are processes that may die  *)
(* at any point and whose calls may get lost.                              *)
(*                                                                         *)
(* A run is the record of what it checks and of when it was requested; the *)
(* outcome of a check, passed or failed, is not told apart.                *)
(*                                                                         *)
(* An operator X_Y is X with the slip Y, a plausible mistake in the code:  *)
(* nothing uses it, and put in X's place it must break a property.         *)
(***************************************************************************)
EXTENDS Naturals, FiniteSets

CONSTANTS App,              \* ids of managed apps, numbered in the order of the slugs
          Rev,              \* versions of an app's registration and release
          Clash,            \* pairs of apps with the same client or origin
          DeploymentOwned,  \* apps the deployment declares: never deleted
          Identity,         \* the validation accounts
          Worker,           \* validator processes
          Operator,         \* requests that read the catalog, in flight at once
          Limit,            \* appValidationConcurrencyLimit
          MaxRequests,      \* bound on requests for validation
          None,
          Faulty            \* may calls get lost and workers die?

Direction == {"from_shauth", "from_app"}

Row == [app : App, dir : Direction, rev : Rev, wit : App \cup {None},
        wrev : Rev \cup {None}, at : Nat]

ASSUME AppsAreOrdered == App \subseteq Nat \ {0}
ASSUME NoneIsNothing == None \notin App \cup Rev \cup Identity \cup Row
ASSUME PoolFitsLimit == /\ Limit \in Nat /\ IsFiniteSet(Identity)
                        /\ Limit <= Cardinality(Identity)
ASSUME RequestsBounded == MaxRequests \in Nat
ASSUME FaultyIsBoolean == Faulty \in BOOLEAN

VARIABLES
  rev,       \* managed_apps: of each app the version its contract covers
  deleted,   \* ids that are used up
  clock,     \* requests so far: requested_at
  queued,    \* app_validation_runs by status
  running,
  done,
  lapsed,    \* running runs whose lease is over
  holder,    \* users.validation_run_id of each identity
  op,        \* of an operator: the app it creates or asks for, All, or None
  creates,   \* operators that insert their app
  seen,      \* of an operator: the apps its statement saw
  job,       \* of a worker: the run it claimed
  step,
  subject    \* of a worker: the identity its browser signs in as

shop == <<rev, deleted, clock>>
runs == <<queued, running, done, lapsed, holder>>
operators == <<op, creates, seen>>
workers == <<job, step, subject>>
vars == <<shop, runs, operators, workers>>

All == 0

\* The apps with a row in managed_apps.
Listed(version) == {a \in App : version[a] # None}
catalog == Listed(rev)

-----------------------------------------------------------------------------
(* The witness ring and the enqueueing of checks. *)

\* validationWitness: the next app round the ring, in the order of the slugs,
\* with another client and another origin.
NoLater(a, c, d) == IF (c > a) = (d > a) THEN c <= d ELSE c > a
Witness(a, ring) ==
  LET fit == {c \in ring \ {a} : <<a, c>> \notin Clash}
      next == {c \in fit : \A d \in fit : NoLater(a, c, d)}
  IN  IF next = {} THEN None ELSE CHOOSE c \in next : TRUE

\* A run of app a, requested at t; its contract covers the app's and the
\* witness's version.  A version counts the changes the contract sees on either
\* side: that of an app's description, health or monitoring address, which only
\* its own contract covers and no witness's, is not told apart.
NewRun(a, d, ring, version, t) ==
  LET w == Witness(a, ring)
  IN  [app |-> a, dir |-> d, rev |-> version[a], wit |-> w,
       wrev |-> IF w = None THEN None ELSE version[w], at |-> t]

NewRuns(targets, ring, version, t) ==
  {NewRun(a, d, ring, version, t) : a \in targets, d \in Direction}

\* The unique index of pending runs: app, direction and contract hash.
SameCheck(r, s) == /\ r.app = s.app /\ r.dir = s.dir /\ r.rev = s.rev
                   /\ r.wit = s.wit /\ r.wrev = s.wrev

\* enqueueAppValidation for every target: queued runs of another contract are
\* superseded, and a check that is queued or running already is joined.
Enqueue_JoinsAny(targets, ring, version, waiting, active) ==
  LET new == NewRuns(targets, ring, version, clock + 1)
      kept == {r \in waiting : r.app \in targets => \E s \in new : SameCheck(r, s)}
  IN  /\ clock < MaxRequests
      /\ clock' = clock + 1
      /\ queued' = kept \cup
           {s \in new : ~ \E r \in kept \cup active : r.app = s.app /\ r.dir = s.dir}
Enqueue(targets, ring, version, waiting, active) ==
  LET new == NewRuns(targets, ring, version, clock + 1)
      kept == {r \in waiting : r.app \in targets => \E s \in new : SameCheck(r, s)}
  IN  /\ clock < MaxRequests
      /\ clock' = clock + 1
      /\ queued' = kept \cup
           {s \in new : ~ \E r \in kept \cup active : SameCheck(r, s)}
-----------------------------------------------------------------------------
(* The catalog, and requests for validation. *)

\* No transaction begins once the bound on requests is reached.
Load(o, a, new) ==
  /\ op[o] = None /\ clock < MaxRequests
  /\ op' = [op EXCEPT ![o] = a]
  /\ creates' = IF new THEN creates \cup {o} ELSE creates
  /\ seen' = [seen EXCEPT ![o] = catalog]
  /\ UNCHANGED <<shop, runs, workers>>

\* CreateManagedApp, ReconcileBootstrapManagedApp of a new slug: up to the
\* statement that reads the catalog.
BeginCreate(o, a) ==
  /\ a \notin catalog \cup deleted
  /\ \A p \in creates : op[p] # a
  /\ Load(o, a, TRUE)

\* EnqueueAppValidations of one app, or of all.
BeginEnqueue(o, a) == Load(o, a, FALSE)

\* What the transaction works on once it has the row locks.
Locked(o) == seen[o] \cap catalog

Close(o) ==
  /\ op' = [op EXCEPT ![o] = None]
  /\ creates' = creates \ {o}
  /\ seen' = [seen EXCEPT ![o] = {}]

CommitCreate(o, v) ==
  LET a == op[o]
      ring == Locked(o) \cup {a}
  IN  /\ o \in creates
      /\ rev' = [rev EXCEPT ![a] = v]
      /\ Enqueue(ring, ring, rev', queued, running)
      /\ Close(o)
      /\ UNCHANGED <<deleted, running, done, lapsed, holder, workers>>

\* No app matches: ErrManagedAppNotFound.
CommitEnqueue(o) ==
  LET targets == IF op[o] = All THEN Locked(o) ELSE Locked(o) \cap {op[o]}
  IN  /\ op[o] # None /\ o \notin creates
      /\ IF targets = {} THEN UNCHANGED <<clock, queued>>
         ELSE Enqueue(targets, Locked(o), rev, queued, running)
      /\ Close(o)
      /\ UNCHANGED <<rev, deleted, running, done, lapsed, holder, workers>>

\* ReconcileBootstrapManagedApp of a known slug, ReconcileManagedAppOIDCContract:
\* a changed contract queues the whole ring again.
Reconcile(a, v) ==
  /\ a \in catalog /\ rev[a] # v
  /\ rev' = [rev EXCEPT ![a] = v]
  /\ Enqueue(catalog, catalog, rev', queued, running)
  /\ UNCHANGED <<deleted, running, done, lapsed, holder, operators, workers>>

\* UPDATE users SET validation_run_id=NULL WHERE validation_run_id = ANY(R).
Freed(R) == [i \in Identity |-> IF holder[i] \in R THEN None ELSE holder[i]]

\* DeleteManagedApp: the app's runs go with it, running ones too, and the ring
\* that is left is queued again.  Unlike a registration it is one step: it sees
\* the catalog as it is.
DeleteManagedApp(a) ==
  LET gone == {r \in running : r.app = a}
      ring == catalog \ {a}
  IN  /\ a \in catalog \ DeploymentOwned
      /\ rev' = [rev EXCEPT ![a] = None]
      /\ deleted' = deleted \cup {a}
      /\ running' = running \ gone /\ lapsed' = lapsed \ gone
      /\ done' = {r \in done : r.app # a}
      /\ holder' = Freed(gone)
      /\ Enqueue(ring, ring, rev, {r \in queued : r.app # a}, running \ gone)
      /\ UNCHANGED <<operators, workers>>

-----------------------------------------------------------------------------
(* Claiming, checking and completing. *)

Roles(r) == {r.app, r.wit} \ {None}
Busy_Targets(R) == {r.app : r \in R}
Busy(R) == UNION {Roles(r) : r \in R}

\* The queue's head: the oldest run whose app and witness nobody uses.
Claimable(r, live) == Roles(r) \cap Busy(live) = {}
Head(r, live) == /\ Claimable(r, live)
                 /\ \A s \in queued : Claimable(s, live) => r.at <= s.at

\* Runs whose lease is over fail, and give their identities back.
FreedLapsed_Kept == holder
FreedLapsed == Freed(lapsed)

Room_Inclusive(live) == Cardinality(live) <= Limit
Room(live) == Cardinality(live) < Limit

\* claim: the answer reaches the worker, or is lost.
Answer(w, r) ==
  \/ /\ job' = [job EXCEPT ![w] = r]
     /\ step' = [step EXCEPT ![w] = "start"]
  \/ Faulty /\ UNCHANGED <<job, step>>

\* ClaimAppValidation: reaps, then takes the head if the limit allows, and
\* checks out an identity for it.
ClaimAppValidation(w, r, i) ==
  LET live == running \ lapsed
  IN  /\ step[w] = "idle"
      /\ Room(live)
      /\ r \in queued /\ Head(r, live)
      /\ FreedLapsed[i] = None
      /\ holder' = [FreedLapsed EXCEPT ![i] = r]
      /\ queued' = queued \ {r}
      /\ running' = live \cup {r}
      /\ done' = done \cup lapsed
      /\ lapsed' = {}
      /\ Answer(w, r)
      /\ UNCHANGED <<shop, operators, subject>>

\* ExpireAbandonedAppValidation, or a claim that reaps and finds no work.
ExpireAbandonedAppValidation_Requeues ==
  /\ lapsed # {}
  /\ running' = running \ lapsed
  /\ queued' = queued \cup lapsed
  /\ lapsed' = {}
  /\ holder' = FreedLapsed
  /\ UNCHANGED <<shop, done, operators, workers>>
ExpireAbandonedAppValidation_WhenQueued ==
  /\ lapsed # {} /\ queued # {}
  /\ running' = running \ lapsed
  /\ done' = done \cup lapsed
  /\ lapsed' = {}
  /\ holder' = FreedLapsed
  /\ UNCHANGED <<shop, queued, operators, workers>>
ExpireAbandonedAppValidation ==
  /\ lapsed # {}
  /\ running' = running \ lapsed
  /\ done' = done \cup lapsed
  /\ lapsed' = {}
  /\ holder' = FreedLapsed
  /\ UNCHANGED <<shop, queued, operators, workers>>

\* validateJob: a check needs a second app to witness the logout.
ValidJob(r) == r.wit # None

\* CreateValidationBrowserBootstraps for the identity the run holds; the worker
\* reports a failure when there is none, or when the job or its links are bad.
CreateBrowserBootstraps(w) ==
  /\ step[w] = "start"
  /\ \/ \E i \in Identity :
          /\ ValidJob(job[w])
          /\ holder[i] = job[w]
          /\ subject' = [subject EXCEPT ![w] = i]
          /\ step' = [step EXCEPT ![w] = "check"]
     \/ step' = [step EXCEPT ![w] = "report"] /\ UNCHANGED subject
  /\ UNCHANGED <<shop, runs, operators, job>>

\* run: the browser ends within eight minutes, and is killed otherwise.
FinishCheck(w) ==
  /\ step[w] = "check"
  /\ step' = [step EXCEPT ![w] = "report"]
  /\ subject' = [subject EXCEPT ![w] = None]
  /\ UNCHANGED <<shop, runs, operators, job>>

Leave_Retrying(w) ==
  /\ job' = [job EXCEPT ![w] = None]
  /\ subject' = [subject EXCEPT ![w] = None]
  /\ UNCHANGED step
Leave(w) ==
  /\ job' = [job EXCEPT ![w] = None]
  /\ step' = [step EXCEPT ![w] = "idle"]
  /\ subject' = [subject EXCEPT ![w] = None]

\* completeOnce: the report is refused, or never arrives.
Unreported(w) == job[w] \notin running \/ Faulty

\* completeWithRetry, CompleteAppValidation: only a running run is completed, a
\* refusal is final, and so is the fifth lost attempt.
CompleteAppValidation(w) ==
  /\ step[w] = "report"
  /\ \/ /\ job[w] \in running
        /\ running' = running \ {job[w]} /\ lapsed' = lapsed \ {job[w]}
        /\ done' = done \cup {job[w]}
        /\ holder' = Freed({job[w]})
     \/ /\ Unreported(w)
        /\ UNCHANGED <<running, lapsed, done, holder>>
  /\ Leave(w)
  /\ UNCHANGED <<shop, queued, operators>>

Crash(w) ==
  /\ Faulty
  /\ step[w] # "idle"
  /\ Leave(w)
  /\ UNCHANGED <<shop, runs, operators>>

\* The lease of thirty minutes outlasts every worker that is alive.
LeaseExpires_Short(r) ==
  /\ r \in running \ lapsed
  /\ lapsed' = lapsed \cup {r}
  /\ UNCHANGED <<shop, queued, running, done, holder, operators, workers>>
LeaseExpires(r) ==
  /\ r \in running \ lapsed
  /\ \A w \in Worker : job[w] # r
  /\ lapsed' = lapsed \cup {r}
  /\ UNCHANGED <<shop, queued, running, done, holder, operators, workers>>

-----------------------------------------------------------------------------
\* A deployment that registered some of its own apps, and checked them.
Init ==
  /\ \E ring \in SUBSET DeploymentOwned, v \in Rev :
       rev = [a \in App |-> IF a \in ring THEN v ELSE None]
  /\ deleted = {} /\ clock = 0
  /\ queued = {} /\ running = {} /\ lapsed = {}
  /\ done = NewRuns(catalog, catalog, rev, 0)
  /\ holder = [i \in Identity |-> None]
  /\ op = [o \in Operator |-> None] /\ creates = {}
  /\ seen = [o \in Operator |-> {}]
  /\ job = [w \in Worker |-> None] /\ step = [w \in Worker |-> "idle"]
  /\ subject = [w \in Worker |-> None]

Catalog ==
  \/ \E o \in Operator : \/ \E a \in App : BeginCreate(o, a)
                         \/ \E a \in catalog \cup {All} : BeginEnqueue(o, a)
                         \/ \E v \in Rev : CommitCreate(o, v)
                         \/ CommitEnqueue(o)
  \/ \E a \in App : DeleteManagedApp(a) \/ \E v \in Rev : Reconcile(a, v)

Claim(w) == \E r \in queued, i \in Identity : ClaimAppValidation(w, r, i)
Work(w) == CreateBrowserBootstraps(w) \/ FinishCheck(w) \/ CompleteAppValidation(w)

Next ==
  \/ Catalog
  \/ \E w \in Worker : Claim(w) \/ Work(w) \/ Crash(w)
  \/ ExpireAbandonedAppValidation
  \/ \E r \in running : LeaseExpires(r)

Spec == Init /\ [][Next]_vars

-----------------------------------------------------------------------------
(* Properties. *)

\* Every variable holds what the tables and the workers can hold; a worker that
\* is not idle has a job.
TypeOK ==
  /\ rev \in [App -> Rev \cup {None}] /\ deleted \subseteq App /\ clock \in Nat
  /\ queued \subseteq Row /\ running \subseteq Row /\ done \subseteq Row
  /\ lapsed \subseteq running
  /\ holder \in [Identity -> Row \cup {None}]
  /\ op \in [Operator -> App \cup {All, None}] /\ creates \subseteq Operator
  /\ \A o \in creates : op[o] \in App
  /\ seen \in [Operator -> SUBSET App]
  /\ job \in [Worker -> Row \cup {None}]
  /\ step \in [Worker -> {"idle", "start", "check", "report"}]
  /\ subject \in [Worker -> Identity \cup {None}]
  /\ \A w \in Worker : step[w] # "idle" => job[w] \in Row

\* "An app is never a target and a witness at the same time": the running runs
\* use different apps, in whatever role, although rings change under them.
OneRole == \A r, s \in running : r # s => Roles(r) \cap Roles(s) = {}

\* Every running run has an identity of its own, and an identity is checked out
\* to a running run only: neither a lost worker nor a deleted app leaks one.
Checkout ==
  /\ \A r \in running : \E i \in Identity : holder[i] = r
  /\ \A i, j \in Identity : holder[i] # None => /\ holder[i] \in running
                                                /\ i # j => holder[i] # holder[j]

\* At most Limit runs at once, and below the limit there is a free identity, as
\* ClaimAppValidation relies on after it counted the running runs.
PoolSuffices ==
  /\ IsFiniteSet(running) /\ Cardinality(running) <= Limit
  /\ Cardinality(running) < Limit => \E i \in Identity : holder[i] = None

\* Once no request is under way, every app of the catalog has been or will be
\* checked, from both directions, against the ring as it is.
RingCovered ==
  (\A o \in Operator : op[o] = None) =>
    \A a \in catalog, d \in Direction :
      \E r \in queued \cup running \cup done :
        SameCheck(r, NewRun(a, d, catalog, rev, clock))

\* Checks that run at the same time sign in as different accounts and use
\* different apps: what two browsers do, not what the table says of them.
ChecksApart ==
  \A v, w \in Worker : v # w /\ step[v] = "check" /\ step[w] = "check" =>
    subject[v] # subject[w] /\ Roles(job[v]) \cap Roles(job[w]) = {}

\* A run is claimed once and settled once: whatever answers get lost, workers
\* die and leases run out, a run that was claimed is never handed out again, one
\* that is settled is never reopened, and nothing is settled that nobody claimed
\* (ClaimAppValidation, CompleteAppValidation, ExpireAbandonedAppValidation).
RunsSettleOnce ==
  [][/\ queued' \cap (running \cup done) = {}
     /\ running' \subseteq running \cup queued
     /\ done' \subseteq done \cup running
     /\ running' \cap (done \cup done') = {}]_vars
=============================================================================
