# Beluga Manager: formal verification

TLA+ modules for the parts of Beluga that keep state or decide something: the
Manager's SSO change requests (an admin asks for a change of
`gitops/values/sso.yaml`; the Manager records it, opens a pull request, follows it
through review and deployment and cleans up behind failures), the domain API
around them with its clients and caches, the web console, the policy compiler and
the dependency gates. TLC checks the modules on small instances, and TLAPS proves,
for instances of any size, all safety properties of the change requests and those
of the store's pool, the configuration source, the HTTP client, the decision
bulkhead and the edit form.

## 1. Inventory

| Part | State | Operations | Hard because | Correct when | Module |
|---|---|---|---|---|---|
| Audit store (`store/ssoChangeStore.ts`, migration) | request rows, audit events, lease | submit, transition (compare-and-set), listings | replicas and requests at once; commit answers are lost; the lease drops with its connection | one active row; rows follow the state machine | `SsoChangeStore` |
| its pool | pool, CA fingerprint, readiness | run, discard, probe | the CA file and the server change while queries run | no pool leaks; trust comes back | `StorePool` |
| Routes (`routes/ssoChanges.ts`) | a row held across awaits | submit, cancel | a row read before two GitHub calls is used after them | no write without an audit row; no cancel under a writer | `SsoChangeRoutes` |
| GitHub writer (`sso-change/githubApp.ts`) | token, pause | createChangePr, closePr, look-ups | a timed-out write may still happen; callers share a token | only the request's own pull request is touched; calls end in time | `ChangeWriter`, `GithubRepo`, `GithubTransport` |
| Reconciler, compensation | timer, `sweptAt` | tick: recover, check, sweep | works on snapshots while others move the rows | every request settles; merged and applied are true | `SsoReconciler`, `ChangeWriter` |
| SSO source (`adapters/sso`) | snapshot, refresh, back-off, invalid commit | getSsoConfig, readBase | refreshes, main and readers overlap | what is served was on main recently; a base is of one commit | `SsoSource` |
| Edit engine (`sso-change/editEngine.ts`, `schema/sso.ts`) | none | buildChange, resolve | YAML aliases, comments, repeated groups | an edit changes its endpoint only | `SsoEdit` |
| Server start and stop (`server.ts`, `wiring.ts`, `config.ts`) | what was wired | load, serve, drain | optional parts combine freely | what is accepted is followed up | `ApiStartup` |
| Authentication (`auth/*`, group gate) | key cache, audited refusals | verify, refuse | keys rotate while requests wait | who is let in holds a genuine token | `ApiAuth` |
| Upstream memo and HTTP client (`adapters/upstream`) | cache, weights, slots, line | memo, acquire/release | eviction under a pending load; a waiter times out as it is served | the account matches; no slot is lost | `UpstreamMemo`, `UpstreamHttpClient` |
| Catalog source (`lakekeeperCatalog.ts`) | memo, prefix | list, get | pages change under a traversal; a stale prefix | complete, or says it is not | `CatalogSource` |
| Flink adapter (`adapters/flink`) | snapshot, slots, health | refresh, look-up, map | a budget cuts requests off in any state | complete, or says it is not | `FlinkAdapter`, `FlinkMapping` |
| Decision provider (`decision`) | slots | decide | a run outlives its caller | slots exact, late answers dropped | `IsolatedProvider` |
| Service registry, Kubernetes readers | shared reads | resolve | a roll-out moves between two reads | healthy was rolled out | `ServiceRegistry`, `EventFeed` |
| Read routes (`routes/*`, `lib/*`, `correlation/*`, SQL redaction) | none | list, correlate, redact | encodings, boundaries | pages partition; ids address one asset; literals stay hidden | `ListRoutes`, `AssetId`, `Correlation`, `SqlRedaction` |
| Web console: session | session, token, cache, storage | OIDC events, 401, logout | order of events, reloads | no stale data, no login loop | `WebSession` |
| Web console: change form, banner | draft, preview, key | preview, submit, poll | lost answers; the file moves | what is submitted was previewed; one request per draft | `WebSsoChange` |
| Web console: views | tab, targets, sorting, chunks | follow, sort, retry | remounts, lazy chunks | a link shows its target | `WebNavigation`, `WebTable`, `WebEditor` |
| Policy compiler (`packages/policy-compiler`) | files; database and Keycloak | validate, compile, deploy, drift | three targets with different rules; re-runs | granted as declared, everywhere | `PolicyDeclaration`, `PolicyRego`, `PolicyDeploy`, `PolicyCtl` |
| Dependency gates (`scripts/ci`) | lock file, exceptions | check | expressions, expiry | a pass means covered | `LicenseGate`, `VulnerabilityGate` |

The parts of the change service meet in the request row: the routes and the
reconciler communicate through it only, by compare-and-set, and through GitHub,
which is also changed by people and by requests that outlived their client. The
other components share no state with each other in the modules; where one uses
another, it has that one's interface as its environment (the console's server is
an external record keeper, the catalog source contains its memo entries and
deadlines). `PROJECT.json` lists the components with their sources, and under
`hazards` what is hard to test, at the line where it bites.

## 2. Modules

```
SsoChangeStore   rows, submit, transition, listings, intents, lease
  GithubRepo     branches, pull requests, requests in flight, people
    ChangeWriter processes; createChangePr call by call, compare-and-set, compensation
      SsoChangeRoutes   submit and cancel
      SsoReconciler     tick, recovery, checks, sweep; ArgoCD
        SsoChange       composition, fairness, properties, inductive invariant
          MCSsoChange          instances for TLC
          SsoChangeProofs      its safety properties and the refinement, for any instance
SsoLifecycle     the abstract state machine that SsoChange implements

UpstreamHttpClient             slots, line and timers of the upstream client
CatalogSource                  listings and reads of the catalog over memo and prefix
  UpstreamProofs               what client and catalog promise, for any instance
  MCUpstream     + UpstreamMemo, FlinkAdapter, IsolatedProvider, ServiceRegistry,
                   EventFeed
MCDomainApi      GithubTransport, StorePool, SsoSource, SsoEdit, ApiStartup, ApiAuth,
                 ListRoutes, AssetId, SqlRedaction, Correlation, FlinkMapping
  DomainApiProofs              what source, transport, sign-in and start-up promise
MCBuildTools     PolicyRego and PolicyDeploy (both extend PolicyDeclaration),
                 PolicyCtl, LicenseGate, VulnerabilityGate
MCWebConsole     WebSession, WebSsoChange, WebNavigation, WebTable, WebEditor
  WebConsoleProofs             what the edit form and the session promise
MCProgress       the components with timers, retries or polling, under fairness
```

The four collective modules and `MCProgress` instantiate each component one or
more times, or extend it: `MCUpstream` extends `UpstreamHttpClient`,
`CatalogSource` and `IsolatedProvider`, `MCDomainApi` extends `StorePool`, `SsoSource`,
`GithubTransport`, `ApiAuth` and `ApiStartup`, and `MCWebConsole` extends `WebSsoChange` and
`WebSession`, so that the property TLC checks and the one the proofs are about are the
same definition. A variable `part` is chosen in the initial state and never changes: it
names the instance that runs, and the variables of the others rest. Components
that share no state gain nothing from being interleaved, so a behaviour of the
collective module is a behaviour of one instance, and one run checks them all. A
property of the collective module is the property of that name in the
component's module, where it is stated and explained, guarded by the part it is
about where the constants of the instances differ. Assumptions on constants are
definitions in the components, stated as `InstanceAssumption` by the module that
instantiates them.

**State.** A row is `[stage, seq, fresh, pr]`. `seq` stands for `created_at`.
`updated_at` is used by the code for two questions, so the model keeps the
answers: `fresh` (younger than `SUBMITTED_GRACE_MS`) and `sameVersion` (the
version a process read is still the current one). The audit event of a
transition is written in the row's own transaction, so the stage stands for
both; the events that precede a cancel are `intents`. A process is a program
counter with the row it works on, the stage its next compare-and-set expects
and the pull request it found. `todo` holds the snapshots a reconciler has
still to visit. GitHub is `branches` (what `sso.yaml` holds there: base, edited
or foreign content), `prs` and `inflight`, the writes whose client gave up.

**Steps.** One action per GitHub or database call; between two of them every
other process may run. A step is the whole effect of the call: a transition
updates stage, number, freshness and version together. Actions carry the names
of the functions; the map in `PROJECT.json` gives their lines. Failures are
actions of their own: `WriteUnknown` (timeout, 5xx, rate limit, deadline; the
write may still be carried out by `LateWrite`), `WriteRefused`, `CloseUnknown`,
`CallFails`, `Crash`, `LeaseLost`, `SweepListFails`, and people who reopen, push
or delete (`Meddler`). Each spends one unit of `budget`.

**Time.** `GraceExpires` ages a submitted row. With `GraceCoversWrite` it does so
only when no process is between the update that starts a write and the one that
ends it: `createChangePr` is cut off after 60 s and the database calls after
seconds, against a grace period of 120 s. The run `late_writer` drops that
assumption. A reconciler judges the age of the version it listed; when the row
was written since, that older version may or may not be past its grace period,
and `TakeRecord` allows both.

**Upstream client.** A call of `getJson` is followed through its awaits (token, slot,
head, body, cancelling of a body). JavaScript runs one callback at a time, so
the code between two awaits is one step; in particular the release of a slot and
the wakeup of the first in line are one. The client's timers and the upstream's
reactions are separate actions (`Timers`, `Upstream`). Error classes are left out of
the client; the memo, which treats them differently, has its own.

**Upstream memo.** The Map in insertion order is a sequence of entry identities. A
load settles any time after it started; `isLive` is membership in the sequence.
`Evict` is the loop of `evict()` as the least number of old entries to drop. Expiry is
an action instead of a clock. A weight is any integer that the callers' weight
functions return, with `MaxWeight + 1` for all that are too heavy.

**Time elsewhere.** `GithubTransport`, `SsoSource`, `CatalogSource`, `FlinkAdapter`, `ServiceRegistry` and
`ApiAuth` have a clock, because their properties are about deadlines, lives and
pauses. It advances by one and never past a timer that is due: timers are
punctual, answers come at any time before them. In `CatalogSource` a request's timer
starts when the token has been read and its caller hears of it when the body has
been cancelled, so both fall anywhere in a window. The Flink adapter has two
clocks, as the code does: timers run on monotonic time, its caches on
`Date.now()`.

**Data.** Tokens, commits and statements are numbers or model values. Where an
encoding is the subject (`AssetId`, `SqlRedaction`, `LicenseGate`) names are sequences over
a small alphabet that has every character the code tells apart, and every
sequence up to the bound is tried. An environment (`ApiStartup`) is a record of
classes of values, a class being what the loader of that variable distinguishes.
A compiled policy (`PolicyRego`) is the set of its rules, evaluated as OPA does, two
different values of a complete rule being an error; a PostgreSQL database
(`PolicyDeploy`) is the set of facts its statements add.

**External systems**, modelled from how the code uses them and marked so in the
map: GitHub, PostgreSQL's TLS check, `jose`'s key cache, npm's audit report, Keycloak,
OPA, `oidc-client-ts`, React (when it mounts, draws and runs effects), TanStack Table
and the browser's collator.

**Simplifications of the change requests.** One file path (the code has one). Forks' pull requests are
not represented: `isOurs` filters them out of every look-up. `rebuild` is pure; its
failure is `CallFails`. The listing of lost rows is assumed to fit `SWEEP_BATCH`
and `SWEEP_WINDOW`. A look-up that only explains a refusal is part of the refused
call's step. ArgoCD follows main and does not go back. A PATCH that closes a
merged pull request is answered 200 and changes nothing.

## 3. Runs

| Run | Instance | Shows |
|---|---|---|
| `one_request` | 1 key, 2 handlers, 1 replica, 1 disturbance | `Audited` (`NothingUnaudited` and `CancelIsAudited`): fail closed (D-MSSO-11, 18g). `NoCancelUnderWrite`: grace period, touch and version together keep a cancel away from a writer (D-MSSO-18f/h/i). `ImplementsLifecycle`. `TypeOK`. |
| `two_replicas` | 1 key, 1 handler, 2 replicas, 1 disturbance, a pull request on the branch that is older than the skew, or within it and so adopted, or none | ticks that overlap after a lost lease: `MergedIsMerged`, `AppliedIsDeployed`, `NoCancelUnderWrite`, and the inductive invariant `SystemInv`. |
| `next_request` | 2 keys, an open pull request on the branch of one, older than its request by more than the 5-minute skew `PR_ADOPT_SKEW_MS`, 1 handler, 1 disturbance, listing of 1, no ArgoCD reader | `OneActive`, `ActiveIsListed`, `WorksOnOwnPr`: no row or process works with what is older than the skew. |
| `progress` | 1 key, 1 handler, 1 replica with an ArgoCD reader, fair | `Settles`, `ReviewIsSeen`, and `MergedIsApplied`, which is claimed where every replica has an ArgoCD reader: without one a row stays merged (config.ts:250, reconciler.ts:280, D-MSSO-16), as in `next_request`. |
| `late_writer` | as `progress`, without the timing assumption | `OrphansAreClosed`. |
| `upstream` | `MCUpstream`, 12 parts | below |
| `domain_api` | `MCDomainApi`, 14 parts | below |
| `build_tools` | `MCBuildTools`, 10 parts | below |
| `web_console` | `MCWebConsole`, 7 parts | below |
| `eventually` | `MCProgress`, 9 parts, fair | below |
| `cancel_vs_merge`, `session_renewed` | | violated: see Findings |

A property of a collective run is the conjunction of what is said of one component;
each conjunct is a definition of its own in the component's module or the MC module,
with its comment. They are listed here in brackets.

`upstream`. The client with 5 callers, 2 slots and 2 places in line: `SlotsExact`,
`LineIsExact`, `NoBarging`.

* `MemoExact`, with 3 keys, 3 loads, 2 entries and weight 3 (`Accounting` of memo.ts:10,
  `Bounded`, `LimitsNotKept`, `SingleFlight`, `NoComeback`, `OversizeSparesOthers`).
* `CatalogHonest`, with two readers, three names, two pages and a budget that ends in
  the middle of a request: the part `traversal` edits the catalog under listings and
  reads, the part `moved` moves the warehouse under reads, the part `drained` lets
  listings run to the end of their budget and past it (`CompleteOrSaid`,
  `UnsafeIsHidden`, `CatalogInTime`, `StalePrefixHeals`). What `CatalogInTime` bounds is
  the budget plus one reading of the token's file (`TokenTime`, an assumption: the code
  sets no timer on it) and one cancel of an unread body (`CancelTime`,
  `DISCARD_TIMEOUT_MS`): both are paid once, not once a page.
* `FlinkHonest`, snapshots of 2 and 3 jobs (`FlinkSlotsExact`, `FlinkCompleteOrSaid`,
  `FlinkInBudget`, `HealthIsRecent`, `TransientNotKept`).
* `BulkheadHolds` (`BulkheadExact`, `LateIsDropped`).
* `ClusterShownAsRead`, roll-outs, shared reads and the events of two namespaces
  (`HealthyWasRolledOut`, `FreshWhenAlone`, `Isolated`, `NewestKept`, `MissingIsSaid`).

`domain_api`.

* `TransportOrderly`, a reader and a writer on one GitHub token through a revocation
  and a rate limit (`RenewalWorks`, `CallsEndInTime`, `PauseHonoured`).
* `PoolOrderly`, two operations and the probe through two CA changes
  (`OnlyCurrentOpen`, `StaleIsNoticed`).
* `SourceHonest`, two readers and three commits, one of them invalid (`ServedIsRecent`,
  `BaseIsOneCommit`, `BrokenIsNotStale`).
* `EditsPrecise`, edits of every small file (`MergeChangesOnlyTarget`,
  `MergeKeepsServing`, `NoopIsExact`, `EntriesKeepComments`, `OneDomain`).
* `StartupSound`, every environment with at most one invalid variable
  (`FailsFastAndOnlyThen`, `AcceptedIsWatched`, `RebuiltWithSameDomain`, `HealthIsHonest`).
  `FailsFastAndOnlyThen` says what the loaders do: an exit has a value that one of them
  refuses, and a server that listens has none. The domain of a process that reads the
  file source and has neither a reconciler nor a Kubernetes adapter is checked by no
  loader; that every start checks it is a claim of the comments, among the findings.
* `AuthSound`, two requests with genuine and forged tokens of two subjects through a key
  rotation and outages (`AdmittedIsGenuine`,
  `OutageIsUnavailable`, `RefusalEndsWithCooldown`, `AdminIsTopLevel`, and, where there is a
  change store to write to, `DeniedIsAudited`).
* `ReadsExact`, over all small inputs (`PagesPartition`, `AddressedExactly`,
  `ContextIsTheTable`, `StatementNamesTable`, `LiteralsHidden`, `NumbersHidden`, `Idempotent`).
* `LinksModest`, over all small inventories (`OnlyDeclared`, `GuessesAreModest`,
  `MoreNeverSurer`, `OwnGuessesOnly`, `HealthyIsClean`).

`build_tools`.

* `PolicyAsDeclared`, declarations written entry by entry, over roles that include
  each other or share a group (`NoEvalConflict`, `RefusedConflictIsReal`,
  `AllowsAsDeclared`, `OptOutKeepsOwnMask`, `PiiIsMasked`, `RowsAreFiltered`, `NoDeadGrant`,
  `CatalogGrantsGiveNoData`).
* `DeployedAsDeclared`, every accepted declaration of two roles and two logins, and
  revisions of one over crashes and changes by hand (`LoginsWork`,
  `NothingBeyondDeclared`, `FailsForCause`, `CleanMeansEqual`, `ReportIsHonest`). The
  declared tables and their schema may be missing when the job starts, and a table be
  created or dropped by hand: a grant on what is missing fails the script. A login whose name
  an earlier declaration gave to a role keeps that role's NOLOGIN, since the script
  creates only what is not there; `LoginsWork` claims the attribute for the others.
* `OutputsWhole`, `policyctl` beside its editing author (`SuccessIsWhole`,
  `OnlyValidWritten`, `MessageMeansUntouched`, `ArgsAsUsage`).
* `GatesSound` (`PassMeansLicensed`, `LicenseFailHasReason`, `PassMeansCovered`,
  `ChainIsReviewed`, `AdvisoryFailHasReason`).

`web_console`.

* `SessionSound`, for providers with and without refresh tokens and an end-session
  endpoint and browsers that do or do not block storage (`ConfiguredIsGated`, `NoStaleData`,
  `NoLoginLoop`, `ErrorIsReal`, and, without refresh tokens and with storage,
  `OnlyManualLogin`).
* `FormSound`, a form that submits up to three times, and whose answers are lost, while
  the file moves: the row is committed first and the POST answered when GitHub has
  been asked, so a replay in between is answered with `submitted`
  (`SubmittedWasPreviewed`, `OneRequestPerDraft`, `NoMismatch`, `SpentNotReplayed`,
  `OpenedIsReal`).
* `ViewsFollow` (`FollowedLinkShows`, `NoLeftoverTarget`, `QueryShowsPicked`,
  `PreferencesKept`; `EmptiesLast`, `OrderAsAnnounced`, `PagesExact`, `ButtonToggles`;
  `ShowsStatement`, `HealthyStays`, `RetryIsAnswered`). `EmptiesLast` is said of what
  `dataTableSort.ts` decides: null and NaN are last in both directions; an undefined
  cell, which the table library orders itself (`sortUndefined: 1`), is last only in an
  ascending column.

`eventually`.

* `AlwaysAnswered`: nothing external has to react (`CallsAnswered`, `DecisionsAnswered`,
  `RequestsAnswered`, `ShutdownEnds`).
* `Recovers` (`TrustRestored`; `LossIsReported`, once the pool's established connections
  have ended, since one of them goes on answering the probe after the certificate of the
  server is no longer good; `JobSucceeds` over two crashes, where the declared tables are there;
  `TokenlessSignsOut`, `BannerCatchesUp`, `CopyStateClears`, `LoadingEnds`).

**Bounds.** `Keys`, `Handlers` and `Reconcilers` are the actors; two of a kind are
enough for every race between a pair, and the proofs cover any number.
`MaxPrs` is the number of pull requests that can exist: a retry after a lost
answer needs two, a leftover one more. `MaxDisturbances` is the number of
failures in a behaviour; one is enough to lose any single call, process or
lease at any point. With two and no leftover, `two_replicas` explored 2.9 million states
without a violation before it was stopped. `ListLimit = 1` makes the limit bite
with two rows. Handlers are interchangeable, hence the symmetry in the safety
runs; none is used with liveness. In the collective runs two callers share what
is shared, limits are one less than what arrives (more callers than slots, more
keys than entries, more jobs than a snapshot holds, a budget that ends inside a
request), and `MaxTime` leaves room for the longest life that a property speaks of
plus one. Every bound is a constant named `Max...` in its module.

**Deadlock** is not checked in the collective runs: a process that stopped, a
check that has run or a clock at `MaxTime` has nothing left to do.

**Fairness.** Weak fairness of the steps of running handlers and reconcilers
(they crash by an action of their own), of starting a tick (the interval
timer), of the grace period and the recheck interval (clocks), of ArgoCD's sync
and of requests in flight, which are carried out or vanish. Nobody has to
submit, cancel or review. In `MCProgress` fairness is stated for the part that runs
and only of what the process, the browser or the cluster does by itself: the
client's timers and the reading of the token file; the provider's timer; the
probe that `/health` starts again and again, its timeout and the end of its
cached answer (that an idle connection ends is not assumed: the probes keep it in use); the next step of start-up and the drain's timer; the clock, the
key fetch's timeout and what a request does without waiting; the next statement
of the job, which Kubernetes restarts; the promises of the session that the
library settles; the banner's interval; React's drawing, the copy timer and the
end of an import. No upstream, provider or user has to act. The liveness
properties hold once the disturbances are used up: they say what the system
does after the failures, not during an endless outage.

**Mutants.** `PROJECT.json` names, for each property of a passing run, one or more mutated
forms of a definition (`Bad...` and `Late...` operators beside the originals) under which
TLC finds the property violated; where several are named they break different
conjuncts.

**Findings.**

* `CancelSparesMerged` is violated. A cancel looks the pull request up
  and closes it in a second call; a merge between the two is reported by the
  answer of the close, which is not read, and the row becomes `failed` although
  its change is on main. `routes-sso-change-m4.test.ts:220` expects 409 "when the PR
  was merged in the meantime (the reconciler will record it)".
* `OnlyManualLogin` is violated once refresh tokens are in use. `signedIn` clears the
  stored logout for whoever announces a user, and `authClient.ts:96` announces every
  renewed token: a renewal in flight at a local logout completes after it and
  signs the user in again. `App.auth.test.tsx:161` and `:178` say that after the fallback
  the console "only logs in on manual action".

Other places where the code does not do what a comment or document next to it
says. Each is a property of the module, and TLC finds it violated on an
instance of the size used above, with the change named in the last column.

| Property | Code | Says | Instance |
|---|---|---|---|
| `GithubTransport!BudgetCovers` | githubApp.ts:175: a `createChangePr` that joins a mint started without a deadline waits past its own | ADR 0009:216, a 60 s budget for "all calls" | `BackoffLimit` 2, `TokenLife` 3, `MaxTokens` 3, `MaxInstant` 5 |
| `GithubTransport!PauseLasts` | githubApp.ts:145: a later rate-limit answer shortens the pause | api-reference.md:99 "until `x-ratelimit-reset`" | the same |
| `SsoSource!InvalidNotMasked` | githubSsoAdapter.ts:121: within the TTL the older value is served | githubSsoAdapter.ts:23 "never masked by stale data" | `MaxBackoff` 2, `MaxTime` 5 |
| `SsoSource!FreshIsCurrent` | githubSsoAdapter.ts:137: a fresh base joins an older refresh | ssoAdapter.ts:46 "resolve current main now" | the same |
| `SsoSource!BackoffKept` | githubSsoAdapter.ts:162, 189: the back-off is replaced | githubSsoAdapter.ts:153 "never a retry inside the window" | the same |
| `CatalogSource!AnsweredInBudget` | httpClient.ts:99, 150: the token is read before the budget of the request runs, and a body is cancelled for up to 1 s after it | dataAssetSource.ts:38 "its own, shorter operation budget" | as `upstream` |
| `IsolatedProvider!NeverThrows` | isolatedProvider.ts:57: the latency is negative after the wall clock is set back | isolatedProvider.ts:71 never throws | as `upstream` |
| `FlinkAdapter!TransientNotKept` | adapter.ts:34: an expired entry is fresh again after the clock is set back | adapter.ts:47 never cached | as part `limits`, `MaxBack` 1 |
| `FlinkAdapter!NotFoundIsAbsent` | adapter.ts:233: jobs past `MAX_JOBS` answer 404 | pipelines.ts:46 "No pipeline exists" | the same |
| `FlinkMapping!OnlyRunningHealthy` | mapping.ts:44: FINISHED is healthy | mapping.ts:3 only RUNNING is | as `domain_api` |
| `SqlRedaction!UnterminatedRedacted` | sqlRedaction.ts:33: an open quoted identifier is copied | sqlRedaction.ts:3 "redacted to the end of input" | as `domain_api` |
| `ListRoutes!WarningsAreOfThePage` | envelope.ts:20: warnings of the whole source | envelope.ts:17 of the page only | 4 items |
| `ApiStartup!ProductionDomainDeclared` | ssoAdapter.ts:216: the file source falls back to the default domain | config.ts:109 a ConfigError in production | as `domain_api` |
| `ApiStartup!EveryStartIsChecked` | ssoAdapter.ts:216: the file source takes an invalid `BASE_DOMAIN` unchecked | config.ts:3 an invalid value fails at start, not at a request; wiring.ts:3 "fail-fast" | as `domain_api` |
| `ApiAuth!RefusedIsBad` | oidc.ts:49: within the cooldown a token of a new key is 401 | oidc.ts:38 only a bad token is | as `domain_api` |
| `PolicyDeploy!LoginsWork` | validate.ts:453: a database in capitals passes, and is folded | validate.ts:451 | databases shop and Shop, which `FoldOf` maps to shop |
| `WebNavigation!QueryShowsPicked` | QueryWorkspaceView.tsx:38: a table past the first page | catalogToQueryJourney.test.tsx:16 "table identity" survives | 3 tables, `PageSize` 2 |
| `WebTable!OrderIsTotal` | dataTableSort.ts:27: 1.5, "1.7" and 1.25 are in a circle | dataTableSort.ts:23 "total and deterministic" | numbers 125 and 150, text `<<1, 7>>`, 3 rows |
| `WebTable!AllEmptiesLast` | DataTable.tsx:135: `sortUndefined` is left at its default, so undefined cells (DataCatalogView.tsx:228) come first in a descending column | DataTable.tsx:62 empties "always last in both directions" | as `web_console` |
| `LicenseGate!PassMeansLicensed` | check-license-policy.mjs:118: splits at OR inside a group | :123 "all parts must be approved" | `Shapes` with "grouped" |
| `VulnerabilityGate!PassMeansAudited` | check-dependency-vulnerabilities.mjs:120: an error object is a clean report | :396 | as `build_tools` |

## 4. Proofs

All theorems hold for every value of the constants that satisfies the named
assumptions, which TLC evaluates on every run: for the change requests
`StoreAssumption`, `RepoAssumption`, `WriterAssumption`, `ArgocdAssumption` and `GraceAssumption`; for the limiter
`CallsAssumption` (finitely many callers) and `LimitAssumption` (the constructor's
`Math.max`); for the others the assumption that the collective modules state of their
instances (`PoolAssumption`, `SourceAssumption`, `TransportAssumption`, `AuthAssumption`,
`StartAssumption`, `ProviderAssumption`, `CatalogAssumption`, `BoundAssumption`, `SessionAssumption`). The bounds of the models (`MaxPrs`, `MaxTime`, `MaxKeys`, `MaxDisturbances`...) are constants too: a
theorem holds for any value of them. Every inductive invariant below was checked
with TLC before it was proved.

**Change requests** (`SsoChangeProofs`). The invariant is `SystemInv`, defined in `SsoChange`
and checked in `two_replicas`; it has three parts, proved one after the other.

* `StageInv`. `TypeCorrect`: `Spec => []TypeOK`. Types alone are not inductive: a process
  that leaves a rest point needs a key. So `ProcInv` says that at each point of the
  code a process holds a row and a stage that fits the point (`Fits`), and `OrderInv` that
  `created_at` orders the rows and an active row is the newest. Every step does one of
  three things to the table (`NextStore`): it keeps all stages, submits, or moves one
  row along an edge. The edge is legal because of `ProcInv`, and no edge leads back to
  an active stage (`NoRevival`). `OneActiveAlways` and `ActiveIsListedAlways` follow from
  `StageInv`, and `LifecycleImplemented`, the refinement, from `NextStore`.
* `TruthInv`: what rows, processes, listings and requests in flight say of GitHub and
  ArgoCD is true. None of it is ever undone (`Kept`): a row keeps its number, a merge is
  for good, intents and synced revisions only grow. What another process knows
  therefore survives every step, and a step has to account only for what it
  changes itself (`Preserves`). From it: `WorksOnOwnPrAlways`, `MergedIsMergedAlways`,
  `AppliedIsDeployedAlways`, `AuditedAlways`. `Audited` needs `TruthInv` for the request that
  outlives its client: the row or intent was committed before it was sent.
* `WriterInv`: who writes, while the grace period outlasts every writer. A writer's row
  is inside its grace period (`WriterInGrace`); while the submitter writes nobody else
  holds its row, and a listing that shows it shows the version it inserted
  (`SubmitterAlone`); a cancel whose version is still current has no writer beside it
  (`CancelAlone`). Each needs the others: a recovery becomes a writer only by the
  touch, which makes the version of a cancel stale. `NoCancelUnderWriteAlways` assumes
  `GraceCoversWrite`, as the runs do: `CREATE_PR_DEADLINE_MS` is 60 s and the grace period
  120 s. The rest of `SystemInv` is proved without it.

**Store pool** (`StorePool`). `PoolOrderlyAlways`. `StaleIsNoticed` is not inductive: it
needs that the mounted file never goes back to a generation read before (`Mounted`)
and that `getPool` takes the fingerprint before the CA, so that it is never ahead of
the CA it stands for (`TrustInv`).

**SSO configuration source** (`DomainApiProofs`). `SourceHonestAlways`. The invariant bounds
when main last was at each commit the adapter holds, through the expiry of the
request in flight: timers are punctual, so a request that expires at e was sent no
earlier than e - `Timeout`. A head that was answered is one request old, a
snapshot two when it is confirmed, a base three (`RefreshInv`, `SnapshotInv`, `CallerInv`).

**GitHub transport** (`DomainApiProofs`). `TransportOrderlyAlways`. A caller may join a mint
that another began, so the invariant bounds the mint by the clock (`MintInv`) and each
phase of a call by what its first and second attempt may have taken (`InTime`). That a
renewal works needs that the second attempt carries a token minted after the
revocation, unless another was revoked meanwhile (`Renewed`); that the pause is honoured
needs that it is never shorter than the last answer asked for (`PauseInv`).

**Sign-in** (`DomainApiProofs`). `AuthSoundAlways`. The theorem says how long a withdrawn key is
still accepted, so the invariant dates every key in the cache: a key is withdrawn only
after it was published, hence a fetch that brought it had begun by then, and fetches
end within `FetchTimeout` (`KeysInv`). A request goes on after a fetch before time passes
(`WaitInv`), and the map that spaces audits of refusals agrees with what was sent to the
store (`AuditInv`).

**Start-up** (`DomainApiProofs`). `StartupSoundAlways`, for every environment over the classes
of values the loaders tell apart and any number of invalid ones. `Passed` says of each
phase what the loaders before it have found and built; a process that serves has
passed them all, so no value that a loader checks is invalid, and an exit is always due
to such a value. Nothing is claimed of the one value no loader may look at
(`DomainValidated` says when one does).

**HTTP client** (`UpstreamProofs`). `SlotsExactAlways`, `LineIsExactAlways`,
`NoBargingAlways`: `TypeOK`, `SlotsExact` and `LineIsExact` are inductive together (`LimiterInv`).
Neither half is alone: that a wakeup keeps the count needs a line of waiting
callers without duplicates, and that the line is empty beside a free slot needs
the count.

**Catalog source** (`UpstreamProofs`). `CatalogHonestAlways`. The answers of the last step say
nothing of the next one, so `CatalogInv` speaks of what is under way. A listing that
does not yet say it is truncated has collected every addressable child that was there
since it began, up to the token of its next page (`ListOk`); a page keeps this because it
is an initial part of what is left (`PageIsInitial`, by cardinality), and edits because
they only take from what was there all the time. Each response is used by the deadline of
its traversal plus the reading of one token (`ExpiryInTime`), what is not used is cancelled
for `CancelTime` more, and a traversal that waits for the shared prefix look-up does so for one
that ends no later, although another reader set its timer (`LoadOk`): hence the time of
whoever joins (`ReaderInv`, `AnsweredInTime`). A prefix the warehouse has left is kept for at most
`PrefixTtl` after the move (`LookupInv`), a traversal that uses it ends within a budget and
the two delays more (a 404 whose body is still being cancelled included), and the memo keeps its answer for `Ttl` (`InLife`): these three make up the bound of
`StalePrefixHeals`.

**Decision bulkhead** (`IsolatedProvider`). `BulkheadHoldsAlways`: the count of busy runs is
inductive with the types (`ProviderInv`), whoever still waits for them.

**Edit form** (`WebConsoleProofs`). `FormSoundAlways`. The invariant speaks of everything
that was sent and is not lost (`Sends`: the wire and the server's records). One key
has one payload (`SendsInv`); what was sent under the form's key carries the payload
the key was drawn for (`KeyInv`); what this form sent in the current series of retries
has the form's key or one the form was told is spent (`SeriesInv`).

**Session** (`WebConsoleProofs`). `SessionSoundAlways`. `SessionSound` alone is not inductive. A
page whose start-up has not settled has nothing of a session (`PageInv`), so the
sign-in screen of a first visit, the only one that signs in by itself, is shown
before anything was fetched or signed out. Whoever may still go to the provider by
itself has not been there since the user last acted (`LoopInv`); a code that is not fresh
when it comes back was denied or interrupted (`CodeInv`); and without renewals and with
storage the tab remembers a logout from before the sign-out that shows it until the
user undoes it (`LogoutInv`). The finding `OnlyManualLogin` above is why this last part
excludes providers with refresh tokens.

Only model-checked:

* liveness (`progress`, `late_writer`, `eventually`): fairness and ENABLED are out of the
  prover's reach;
* `MemoExact`: the account is a fold over a sequence, and what it computes needs an
  induction over data;
* `EditsPrecise`, `ReadsExact`, `LinksModest`, `OutputsWhole`, `GatesSound`, `PolicyAsDeclared` and
  `DeployedAsDeclared`: what algorithms over sequences, names and closures compute, which
  needs the same induction;
* `FlinkHonest`, `ClusterShownAsRead` and `ViewsFollow`: they join what is checked on
  several instances of a component, and count or sort sequences (events, rows, the
  Flink client's line) as those above do.

## 5. Not modelled

* The file source of the SSO configuration (`FileSsoAdapter`): for development, with
  synchronous reads of local files.
* `prText.ts`, the diff of a preview, the rendering of table metadata, the OpenAPI
  document, CORS and the error envelope: text and layout.
* The drawing of the console's views, its translations and the static guards over
  them: no state beyond what `WebNavigation`, `WebTable` and `WebEditor` have.
* The grammar of row filters and the escaping in generated Rego and SQL.
* `operations_agent.py`, the live drift check, release and CI checkers over charts and
  manifests: single passes over text or command output, with nothing beside them.
* Helm charts, Terraform, Vagrant and installation scripts: declarative.

## 6. Plan

1. Done: the change requests with their proofs, and every component of section 1.
2. Done: the theorems of section 4.
3. Theorems worth proving next: `FreshWhenAlone` and `Isolated` of the service registry, which
   need no sum; and `SingleFlight` and `NoComeback` of the memo, which need none either, but
   what `SelectSeq` keeps of a sequence.
