# Verification of Shauth

TLA+ models of the parts of Shauth whose correctness depends on what happens
between two database transactions, two calls to Ory Hydra or two processes, with
TLC runs on small instances and TLAPS proofs for all instances. Paths are
relative to the repository; every definition that models code is listed, with its
lines, under `map` in `PROJECT.json`.

## 1. The system

Shauth is an OpenID Connect provider. One Go service (`cmd/shauth`,
`internal/app`, `internal/identity`) keeps accounts, browser sessions, access
rules, the application catalog and the validation queue in PostgreSQL and drives
Ory Hydra, which issues the tokens. Several replicas may serve at once: nothing
that matters is kept in memory. A validator process (`cmd/shauth-validator`)
checks applications with a browser, and a gateway (`internal/gateway`,
`cmd/shauth-gateway`) is a relying party with its own tables.

| Component | State it keeps | Operations | Talks to |
|---|---|---|---|
| Sessions, correlation and global logout (`app.go`, `operations.go`, `token_hook.go`, `store.go`) | `users.disabled_at`, `sessions`, `hydra_login_sessions`, `logout_correlation_grants` | start a session, accept Hydra's login, consent and logout requests, the token hook, `/logout`, completion, recovery loop, revoke, disable, enable | Hydra's admin API; Hydra calls the token hook and tells applications about logouts |
| Validation queue (`store.go`, `cmd/shauth-validator`) | `managed_apps`, `app_validation_runs`, `users.validation_run_id` | register, change, delete, enqueue, claim, bootstrap, complete, reap | the validator polls over HTTP; its browser signs in through Shauth |
| Client registry and bootstrap (`app.go`, `operations.go`, `store.go`) | Hydra's clients, `managed_apps`, `session_policy`, three kinds of lock | register and delete clients and apps, change the policy, reconcile at start | Hydra's client API |
| GitHub access rules (`app.go`, `operations.go`, `store.go`, `github/teams.go`) | `github_role_mappings`, `users.role` | sign in, bind an old rule, create and delete rules, revoke | GitHub's API; the revocations of the first component |
| Gateway (`internal/gateway`) | its sessions, logout tombstones and spent logout tokens; two cookies of the browser | login, callback, logout, front- and back-channel logout, session check | the provider |
| Accounts (`store.go`, `operations.go`, `app.go`) | `users`, `invitations` | create, promote and provision at start, invite, mail, accept, revoke, find, link or create at a GitHub or Entra sign-in | mailer, GitHub, Entra |
| Password sign-in and session policy (`app.go`, `store.go`) | `sign_in.failed` records, `session_policy`, lifetimes of `sessions` | throttle, check, record, start a session, change the policy | the accounts |
| Admin API and pages, monitoring, logs, traffic, audit, mailer, configuration, templates, migrations | records nothing else decides on | requests over the operations above | |

What is hard here, and where:

* **Two stores, no common transaction.** PostgreSQL commits and Hydra is called
  before or after. Each order leaves a window: a provider session that Hydra
  accepted and Shauth has not recorded, a client without a catalog row, a policy
  that reached half of the clients.
* **Decisions on what was read earlier.** Handlers read the browser session, the
  rules, the list of clients or the ring of apps and act after other calls. Some
  reads are repeated under a lock, some are not.
* **Work that must survive its process.** A logout's remaining deletions, a claimed
  validation run and a checked-out identity belong to whoever died with them.
* **Time.** Grants, leases, tombstones and tokens expire; a lifetime that is a
  little too short undoes a guarantee silently.
* **Counting what is recorded later.** The throttle counts failures that requests in
  flight have yet to record; a session gets the lifetime of a policy read before.
* **Identity by address.** Starts, invitations and sign-ins find accounts by an
  address that the same operations change.
* **Late deliveries.** Codes are exchanged, redirects followed and logout tokens
  delivered in any order, or twice.

`PROJECT.json` lists each hazard at its line with the property that would catch it.

## 2. The modules

| Module | Models | Extended by |
|---|---|---|
| `GlobalLogout` | sessions, correlation, global logout | `MCGlobalLogout`, `GlobalLogoutProofs` |
| `AppValidation` | catalog ring, queue, identities, workers | `MCAppValidation`, `AppValidationProofs` |
| `Gateway` | the relying-party gateway and the provider it sees | `MCGateway`, `GatewayProofs` |
| `ClientRegistry` | Hydra clients, catalog rows, policy, bootstrap | `MCClientRegistry`, `ClientRegistryProofs` |
| `GitHubAccess` | access rules, sign-ins, demotion, revocation | `MCGitHubAccess`, `GitHubAccessProofs` |
| `Accounts` | accounts, invitations, Entra and GitHub accounts, starts | `SignIn`, `AccountsProofs` |
| `SignIn` | password throttle, start of sessions, session policy, on `Accounts` | `MCSignIn`, `SignInProofs` |
| `RelyingParty` | abstract: an application that never forgets a logout | instantiated by `Gateway` and `GlobalLogout` |
| `SingleLogout` | abstract: what Shauth promises of signing out | instantiated by `GlobalLogout` |

An `MC` module holds the small instance's sets, the symmetry and, for liveness,
the fairness. An operator `X_Y` is `X` with the plausible slip `Y`; no
specification uses it, and put in `X`'s place it must break the property
`mutants` names.

**GlobalLogout.** A browser session is `active`, `aged` (unrevoked but expired or
idle, which some queries exclude and others do not) or `revoked`. `corr` is
`hydra_login_sessions`. A grant goes `open`, `consumed`, `completed`, with its
snapshot of browser sessions (`snapshot`), of provider sessions (`sids`) and of
those of the asking browser (`own`). Each store method that locks the user's row
is one step; each call to Hydra is one step that may fail when `Faulty`; `req`
holds what a handler has still to do, so that every handler can be overtaken, or
die, between two of them. Hydra is the external part: a login session is live
once the browser follows the accepted login's redirect, however late; following the
redirect of an accepted consent is a step of its own too (`ConfirmConsent`), late or
never; deleting a login session by its identifier tells its applications, deleting it
with its subject does not. The deletion with its subject is two calls, of the login
sessions and of the consents, and either may fail.
An application keeps a tombstone of every identifier it was told to log out, as
Shauth's own gateway does. `logout`'s fallback when no grant can be created is
`RevokeUserSessions`.

**AppValidation.** Apps are numbered in the order of their slugs, so that the
witness ring of `validationWitness` is arithmetic on them; a version stands for
an app's contract. `BeginCreate` and `BeginEnqueue` read the catalog, the `Commit`
actions act under the row locks on what is left of what was read, which is what
READ COMMITTED with `FOR UPDATE` does. Other catalog changes lock before they
read and are one step. `holder` is `users.validation_run_id`. `job`, `step` and
`subject` are what a validator process and its browser really use, which may
differ from what the table says.

**Gateway.** A clock, and every duration a constant. A transaction goes from
`login` through the provider to a `callback` of four steps; the session a
callback creates is named by its transaction. Reading the session store and
revoking a session may fail: a callback that cannot read the store goes on without
replacing the session its browser has (`unread` remembers it), one whose revocation
fails ends; a revocation that reports a failure may have been done. `stamp` is the clock reading that
`Create` works with, older than the moment it commits. A logout token is one for
each ended provider session and may be delivered any number of times by
overlapping requests, each of which reads the clock twice.

**ClientRegistry.** `clients` is Hydra, `rows` the catalog; `clientLock`,
`policyLock` and `bootLock` are the advisory locks. Requests and starting
replicas are processes with a step for each call and each commit. Replicas may
run different configurations, as during a deployment: `Serving` are those that
answer requests. A call that fails may have taken effect or not.

**GitHubAccess.** Rules by identifier; a user rule recorded before GitHub IDs were
kept has none and is bound at a sign-in. A sign-in holds the rules as it read
them. GitHub has no state: each question about a login or a membership may get
any answer. A team and an organization rule are both group rules. `backing`
remembers which rules were behind an account's role, or that the account is
excused: a sign-in of it overlapped the deletion of a rule it had read, or a
revocation failed and somebody was told.

**Accounts.** An account is its username, which never changes; its row has the
columns that decide something and two that are history: the person it was made
for and the invitation it came from. A person stands behind each address and each
upstream identity (`OwnerOf`, `PersonOf`), which is how "the right account" can be
said at all. An Entra sign-in is its three statements (`FindEntraUser`,
`LinkEntraUser`, `CreateEntraUser`), which run without a transaction; creating an
invitation is recorded, mailed and, if the mail failed, withdrawn. What a unique
index refuses is a step that is not taken. GitHub reports verified addresses of
the account's person, or none; an ID token's address is the person's if it is
verified, and any address otherwise.

**SignIn.** A request counts the failures in the window, checks the password,
records the outcome, reads the policy and inserts its session, each a step. The
fifteen-minute window is a set of records that may leave it at any time. A session
is the time from its creation to its expiry, so that a change of the policy is
arithmetic on it. `late` and `overtaken` are history: they mark a session whose
request had read an earlier policy.

**RelyingParty.** What `GlobalLogout` needs of an application, and all it needs:
a provider session it was told to log out has no session there, for good.
`Gateway`'s `SignedIn` (provider sessions with a row in force) and `told` implement
it; `GlobalLogout`'s `rp` and `tomb` are an instance of it. Both directions are
proved, so that the two modules meet at one specification instead of at a sentence.

**SingleLogout.** What a person or an application may rely on, with no provider
session, grant, lease or handler in it: a logout ends all of its account's browser
sessions in one step or, if the one that asked was over before, none; a logout that
was asked for stays pending until it is completed, once; and a session is reported
as ended only when no application is signed in under it, after which none ever is.
`GlobalLogout` implements it: a session is over when its row is revoked (an expired
one is not, since a logout still has to end it), a logout is pending while its grant
is open or consumed and ends what the grant's snapshot holds, and a browser session
is signed in while some application holds a session under a provider session
correlated with it, unless Hydra's notice to it is out, or the exception of
`EndedMeansSignedOut` applies. Steps of handlers, leases, retries and recovery are
stutters there, or applications that sign out.

The modules meet where one component uses another. `GitHubAccess` reduces
`revokeUserSessions` to its two halves, which `GlobalLogout` models step by step;
`GlobalLogout` relies on `RelyingParty`, which `Gateway` implements; `SignIn`'s
disabling is `Accounts`' with the sessions it ends, which `GlobalLogout` follows to
Hydra; the role a GitHub sign-in gets in `Accounts` is any, and `GitHubAccess` says
which; `AppValidation` and
`ClientRegistry` share `managed_apps` but no variable: one needs its versions and
order, the other its link to a client.

## 3. What the runs check

Times are with two workers.

| Run | Instance | Distinct states | Asks |
|---|---|---|---|
| `LogoutRaces` | 1 account, 1 browser session, 2 provider sessions, 1 grant, 2 handlers, no failures | 2.7 million, 1:40 | `SnapshotComplete`, `EndedMeansSignedOut` |
| `LogoutAccounts` | 2 accounts, 2 browser sessions, 1 provider session, 1 grant, 1 handler, failures | 1.8 million, 2:10 | `TypeOK`, `EndedMeansSignedOut`, `DisabledMeansNoSession`, `TokenMatchesAccount`, `LogsOutAsOne` |
| `LogoutCompletion` | 1 of everything, failures for a while | 56 thousand, 0:20 | `LogoutCompletes` |
| `LogoutAfterReauthentication` | 1 account, 2 browser sessions | counterexample | `LogoutEndsEveryApplication` |
| `ValidationQueue` | 3 apps, 2 of one origin, 2 versions, 1 worker, limit 1, 2 requests | 0.4 million, 0:40 | `TypeOK`, `Checkout`, `PoolSuffices`, `RingCovered`, `RunsSettleOnce` |
| `ValidationDrains` | 4 apps, 2 workers, limit 2, 1 request, failures | 265 thousand, 2:10 | `OneRole`, `ChecksApart`, `QueueDrains` |
| `ValidationDeletedApp` | 2 apps of the deployment, 1 an operator owns, 2 workers, 3 requests | counterexample | `ChecksApart` |
| `GatewayLogout` | 1 provider session, 2 transactions, 1 browser, clock to 5 | 1.8 million, 0:30 | `TypeOK`, `LoggedOutStaysOut`, `ReplaysRejected`, `SignInReplaces`, `LogsOutForGood` |
| `RegistryRaces` | 2 apps, clients, contracts, policies, requests and replicas | 0.9 million, 0:50 | `TypeOK`, `AppsHaveClients`, `PolicyAgrees`, `StartsRegistered` |
| `SignInRaces` | 2 people, 2 addresses, 2 usernames, 1 invitation, 2 Entra callbacks; 2 password requests, limits 1 and 2, 1 session, 2 lifetimes | 247 thousand, 1:35 | `AccountTypeOK`, `LinkedToItsOwner`, `VerifiedIsVouched`, `ValidationApart`, `InvitationsSettle`, `TypeOK`, `GuessesBounded`, `PolicyReachesSessions`, `LifetimesOnlyShrink`, `IdentitiesStay` |
| `AccessRules` | 2 accounts, 1 login, 1 group, 2 rules, 2 sign-ins, 1 operator | 2.2 million, 2:30 | `TypeOK`, `RuleNamesOne`, `RoleOutlivesNoRule` |
| `DemotionRetried` | the same with 1 sign-in | counterexample | `DemotionEndsTokens` |

**Why the bounds are enough.** Each instance is the smallest in which the cases
its properties are about happen, which the mutants confirm: each property is
violated in its own run once the code's guard, order or boundary is changed.
`LogoutRaces` needs two handlers, for a sign-in against a logout against
recovery, and a second provider session that is recorded but not yet followed by
its browser (`OneConfirmed` keeps the second from going further, which two
concurrent logins of one browser would need four more steps for).
`LogoutAccounts` needs two accounts in turn in one browser and failures at every
call; one handler at a time is enough there because the interleavings of two are
the other run's. `ValidationQueue` has a pool larger than its limit, so that a
leak is told from a shortage, and two apps of one origin, so that the ring skips
one; `MaxRequests` bounds the clock of requests, and two are enough to supersede
a queued run by a later contract. `ValidationDrains` has four apps, since two
checks at once use a target and a witness each. `GatewayLogout` keeps the durations in the
order of the code's (a token's life below a transaction's, a transaction's below a
tombstone's) and lets the clock pass all of them. `AccessRules` starts with an
old rule and lets a rule of any kind be created. `SignInRaces` has the second
person's address as that of a validation identity in one deployment and of the
break-glass administrator in another, so that starts, tokens and administrators
compete for it; its limits are one and two, so that two requests in flight pass
both. No cfg replaces a definition; a `CONSTRAINT` is used twice, in `LogoutRaces`
and in `SignInRaces`. The latter, `OneHalf`, explores the accounts without sign-ins,
and the sign-ins on at most one account: the steps of either half read of the other
only whether an account exists, is disabled or has a password, all of which a
single account passes through. The proofs need no such split.
Symmetry is used where identifiers are only compared, and not for liveness.
Deadlock checking is off where the system may stop: `AppValidation` when the
bounded requests are used up, `Gateway` when the clock stands at its bound.

**Fairness.** `LogoutCompletion` assumes that a running handler takes its next
step when calls succeed (Go schedules it and every call has a timeout), that time
passes (grants expire, cleanup times come, leases end), that the recovery loop,
which ticks every five seconds beside the requests, is not starved by them
(strong fairness of its claim, since the lease of another may disable it now and
then), and that outages end: from some point on no call fails and no process
dies. Browsers get no fairness: they may abandon a logout at any point.
`ValidationDrains` assumes that workers poll and their browser runs end (the
validator kills one after eight minutes), that leases end and that the server
reaps every five seconds. Workers may still die over and over; a lost run fails
and is settled.

**What the passing runs show.**

* `SnapshotComplete`: no sign-in in flight adds a provider session to a browser
  session that a logout has ended. It rests on `RecordHydraLoginSession` checking
  the browser session again under the user's lock.
* `EndedMeansSignedOut`: what a logout, a revocation or a disabling reported as
  ended has no application session left, including tokens whose hook was
  approved before and that reach the application after. The one exception is
  named in the property: provider sessions deleted with their subject, whose
  applications are not told.
* `TokenMatchesAccount`, `DisabledMeansNoSession`: accounts switched in one
  browser do not mix, and no sign-in under way revives a disabled account.
* `LogsOutAsOne`: between them, the steps of sign-ins, logouts, recovery and
  administration do to browser sessions and applications what `SingleLogout` allows
  and nothing else: a logout that leaves out an expired session, is dropped, or is
  reported too early is no step of it.
* `LogoutCompletes`: a durable logout is finished even if the browser never
  comes back and handlers die.
* `OneRole`, `Checkout`, `PoolSuffices`, `ChecksApart`, `QueueDrains`: apps and
  identities are used by one run at a time, none is leaked, a claim below the
  limit finds an identity, and every request is settled.
* `RunsSettleOnce`: a run goes from queued to running to done and never back: it is
  not handed out twice, and not settled by the reaper and its worker both.
* `RingCovered`: after every change of the catalog each app has, or will get, a
  check against the ring as it now is, if requests do not overlap.
* `LoggedOutStaysOut`, `ReplaysRejected`: a callback under way neither escapes a
  logout nor undoes it after the tombstone has gone; a logout token is accepted once
  while it is fresh.
* `SignInReplaces`: once a callback has created its session, the one its browser
  came with is not in force, however callbacks, logouts and expiries interleave and
  whichever revocation fails. The exception is named in the property: a callback
  that could not read the store (`unread`).
* `LogsOutForGood`: the gateway, with all its expiries, is the application that
  `GlobalLogout` relies on.
* `LinkedToItsOwner`, `VerifiedIsVouched`: no order of Entra sign-ins, address
  changes, invitations and restarts gives an Entra identity another person's
  account, or leaves a verified mark on an address that was not verified for it.
  The addresses a deployment names as its break-glass administrator's are excepted:
  each start marks them verified, whoever's account has them.
* `ValidationApart`: no start, sign-in or administrator gives a validation identity
  a credential, a role or a disabled state, although its address may be configured
  for something else.
* `IdentitiesStay`: no account is lost and none loses or changes the Entra or GitHub
  identity it has, although starts reset accounts by name and sign-ins link them by
  address.
* `InvitationsSettle`: an invitation makes one account or none; accepting, revoking
  and withdrawing it exclude one another.
* `GuessesBounded`: requests that overlap get past the throttle by their number and
  no more.
* `PolicyReachesSessions`, `LifetimesOnlyShrink`: a shorter policy reaches every
  session but those whose sign-in had read the longer one, and none is extended.
* `AppsHaveClients`, `PolicyAgrees`, `StartsRegistered`: no app loses its client,
  whatever is deleted by whom; provider and database agree on lifetimes unless a
  change was cut off; a start that succeeds has registered what it declares.
* `RuleNamesOne`, `RoleOutlivesNoRule`: a user rule admits one account for ever,
  and no role in force outlives the rules behind it, with the exceptions above.

**Disagreements with the documentation** (`findings`), each shown by a run that
expects the violation:

* `LogoutAfterReauthentication`: re-authenticating revokes the earlier browser
  session in the store only; a logout that follows does not cover its
  applications, although every logout is said to end every correlated one.
* `ValidationDeletedApp`: deleting an app during its check frees its witness and
  its identity while the browser is still using both. `SurvivingChecksAreApart` proves
  that this is the only way two browsers meet.
* `DemotionRetried`: the role is lowered before the administrator's sessions are
  ended; when ending them fails, the retry the page asks for sees no demotion.

Met while modelling, and recorded as notes of hazards or in the statement of a
property rather than as runs: deleting provider sessions with their subject tells
no application; two overlapping catalog requests can leave an app uncovered until
the next request for all apps, and nothing else can (`OnlyOutdatedViewsUncover`); a logout token is accepted again exactly at its
expiry; of two overlapping callbacks of one browser each replaces the session it
saw, not the other's; a callback that cannot read the session store goes on and
leaves the earlier cookie's session in force (src/internal/gateway/server.go:394 looks
at no error of `currentSession`), although the comment above it says that a sign-in
replaces the previous session outright; a sign-in that overlaps the deletion of its rule keeps its
session until its next sign-in; a start that is cut off between creating a client
and committing its row leaves what makes every later start refuse, until somebody
deletes the client, although the bootstrap is called idempotent
(docs/integrating-apps.md:122); a session that is inserted across a shortening of
the policy keeps its longer lifetime; a break-glass administrator whose linked
address an ID token has changed makes the next start collide on the username; a
failed password whose audit record is lost is not counted; a validator's link works
until it expires, whether or not its run has ended; a callback with an outdated state
clears the transaction cookie of a newer sign-in in another tab, which then fails; of
two sign-ins of one account that bind an old rule at once one is refused, and ends the
sessions of the other.

## 4. What is proved

TLAPS checks every theorem for all values of the constants. Assumptions are the
named `ASSUME`s of the modules, which TLC evaluates in every run: identifiers are
distinct from the markers for "none"; configurations are those that validation
lets through; `TombstoneOutlasts`, that a tombstone outlasts a transaction and the
last step of its callback; that the identity pool is at least as large as the
limit; that every address and every upstream identity is one person's; and that the
limits of the throttle are positive.

| Module | Theorems | Inductive invariant, and why it is needed |
|---|---|---|
| `GlobalLogoutProofs` | `TypeCorrect`, `SnapshotsAreComplete`, `LogoutIsGlobal`, `DisabledAccountsAreOut`, `TokensMatchAccounts`, `ApplicationsAreRelyingParties`, `GlobalLogoutIsOneLogout` | `IInv`. A revoked browser session stays revoked, so its set of provider sessions is final; whatever an application may hold under one of them Hydra will announce (`Tracked`); and a handler that ends browser sessions has on its list every provider session of theirs that is not safe yet (`Progress`), because it listed them after they were revoked. `AInv` does the same for owners: a sid is correlated with sessions of its subject only. The refinement needs `IInv` on both sides of a step: what is reported as ended has nobody signed in (`SignedInIsAllowed`), so that every step of an application is a `Browse`; each step of a handler then ends sessions, asks, completes, reports or stutters (`LogoutStep`). |
| `AppValidationProofs` | `TypeCorrect`, `AppsHaveOneRole`, `IdentitiesAreCheckedOut`, `PoolNeverRunsDry`, `SurvivingChecksAreApart`, `DeclaredAppsAreCheckedApart`, `SerialRequestsCoverTheRing`, `OnlyOutdatedViewsUncover`, `RunsAreSettledOnce` | `Table` ties runs, roles, identities and the limit; the pool follows by counting. `Jobs`: the run of a worker is running, unlapsed and its alone, as long as the app it checks is not deleted; so only such a deletion makes two browsers meet, and none does where the deployment owns every app. `Covered` is kept and restored by every request that saw the whole catalog, which needs no invariant but the types; `SawAll` (what a request read includes the catalog) adds that requests that do not overlap always have. `Statuses`: a run has one status and was requested at a time that has come, so that a new run is none of the old. |
| `GatewayProofs` | `TypeCorrect`, `LogoutIsFinal`, `TokensAreAcceptedOnce`, `SignInsReplace`, `GatewayIsARelyingParty` | `IInv`: a code is older than its session's end, and a callback no older than its transaction's life and its own (`Timely`); the tombstone of a recorded logout stands that long (`Buried`); so no row is created after it (`Out`). `RInv` and `CInv` carry the replay records and the cookie a callback came with, which is revoked before the callback creates its session unless the store could not be read (`unread`). The refinement uses `IInv` before and after each step: a session that is created is of a provider session not logged out, and the rows `Create` sweeps had expired. |
| `ClientRegistryProofs` | `TypeCorrect`, `AppsKeepTheirClients`, `ProvidersAgree`, `StartedMeansRegistered` | `RInv`: who is creating, deleting or writing a client holds its lock (`Holding`) and knows it to exist or to be unused (`Known`). `LInv`: one request changes the policy, every client is either on its list or has the new lifetimes (`Applied`), and otherwise all agree (`Agreed`). `SInv`: of an app that every serving replica declares with this client, what a start has reconciled stays as it left it (`Stands`) until it serves, since no two starts reconcile at once (`OneStarts`) and operators can delete neither the row nor the client (`OnlyRemovable`, `Firm`). |
| `GitHubAccessProofs` | `TypeCorrect`, `RulesNameOneAccount`, `RolesEndWithTheirRules` | `NInv`: an account a user rule admitted is the one the rule is bound to (`Named`), and what sign-ins have read is older than what is stored in this respect only (`Snapshot`, `Agreed`). `OInv`: the rules behind a role existed and granted it (`Lineage`), sign-ins that are not excused carry rules that exist (`Fresh`), and an account whose last rule is gone is on somebody's list (`Held`, by cases `Pending`, `Doomed`, `Listed`). |
| `AccountsProofs` | `AccountsAreTyped`, `EntraIdentitiesAreSafe`, `VerifiedAddressesAreVouched`, `ValidationIdentitiesStayApart`, `InvitationsAreSettled`, `AccountsStayTheirPersons` | `AccountInv`. An account without an Entra identity has an address of its person, so that linking by a doubly verified address finds the right one; one with an Entra identity may have any address, but not a verified one (`RowOK`). Invitations are followed by the origin of each account, which no step but an acceptance changes (`Settled`). That a start takes no identity away needs `RowOK` too: the rows it resets are validation identities, which have none. |
| `SignInProofs` | `SignInsKeepAccounts`, `SignInsAreTyped`, `GuessesAreBounded`, `PolicyReachesEverySession`, `LifetimesNeverGrow` | `SignIn` implements `Accounts`, so that the theorems above hold of it. A request whose policy has not changed since it read it holds a lifetime within it (`Timely`). `GuessesBounded` is inductive: a request is admitted below the limit, and a recorded refusal replaces the request that met it, by counting finite sets. |

`TypeCorrect` of each module also says that every process has at hand the operands
of its next step, which the other proofs use.

Two properties are stated with their proofs and are in no run: `SurvivorsApart` and
`CoverageRecovers` are about deletions and overlapping requests together with two
workers or operators, which takes more states than a run should.

Only model-checked: the liveness properties (`LogoutCompletes`, `QueueDrains`) and
the three violations, which are counterexamples. Liveness
under fairness, `ENABLED`, and what a recursive definition computes for every
input are out of the prover's reach; no module here declares a `RECURSIVE`
operator.

## 5. What is not modelled

* That a validator's bootstrap link works once: one UPDATE. Issuing it is in
  `AppValidation`, the sign-in it leads to in `SignIn`.
* Password hashing and its timing, tokens and their hashes: an account has a
  password or not, and a link names its row.
* Other lifetimes than the absolute one: the idle limit ages a session in
  `GlobalLogout`, token lifetimes are a policy's in `ClientRegistry`.
* github_login's own unique index, which can make a GitHub sign-in fail; a failed
  sign-in is no step.
* The admin API and pages: request and response layers over the operations the
  models have.
* Monitoring, logs, traffic counters, runtime status: one process's latest samples,
  on which nothing decides. Of the audit records the failed sign-ins are in `SignIn`,
  because the throttle reads them; no decision reads the others.
* Row locks below a transaction: PostgreSQL may abort one of two transactions that
  lock in different orders, which is a request that fails.
* A call that takes effect in Hydra after its caller gave up.
* The browser script of the validator: one step that ends within its deadline.
* The parts of an app that are outside its contract hash (description, health and
  monitoring addresses): a version in `AppValidation` stands for the whole app, so
  that each change of it is a new contract.
* `DeleteManagedApp` between its statements: it is one step in `AppValidation`, so a
  deletion whose own view of the catalog misses a concurrent registration is not
  met. The registrations that miss one another are.
* That the listing of accounts to revoke leaves out disabled ones: `GitHubAccess`
  has no disabled accounts. A disabling ends the sessions itself, and reports it
  when it cannot.
* The moment in which the row of a validation identity is locked by somebody else
  and the claim skips it (`SKIP LOCKED`): the claim then finds no identity and is
  tried again at the next poll.
* A request whose context is cancelled while the pool of `revokeOtherHydraSessions`
  has provider sessions unsent: the pool reports no error, but every later call with
  that context fails, so it is the handler that dies (`Crash`) in `GlobalLogout`.
* Mailer, configuration, templates, migrations, health probes.

## 6. Plan

Done, in this order: `GlobalLogout`, `AppValidation`, `Gateway`, `ClientRegistry`,
`GitHubAccess`, `Accounts`, `SignIn`, each with its proofs; `RelyingParty` with
the proofs that `Gateway` implements it and `GlobalLogout` is an instance of it; and
`SingleLogout` with the proof that `GlobalLogout` implements it. Every safety
property of a passing run is proved.

1. The worker pool of `revokeOtherHydraSessions` with its bound and its first
   error, which is one deletion at a time in `GlobalLogout`.
2. An abstract access policy (an account's role is one a rule grants it) that
   `GitHubAccess` implements but for the sign-ins and failures it excuses.
