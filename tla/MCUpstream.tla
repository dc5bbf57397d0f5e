----------------------------- MODULE MCUpstream -----------------------------
(* What stands between the domain API and the systems it reads, for TLC: the   *)
(* HTTP client, the catalog source and the isolated decision provider, which   *)
(* this module extends, the memo, the Flink adapter, the service registry and  *)
(* the event feed.                                                             *)
(* The parts share no state, so one behaviour runs one of them (part) and the  *)
(* others rest.                                                                *)
EXTENDS UpstreamHttpClient, CatalogSource, IsolatedProvider, TLC

CONSTANTS k1, k2, k3, e1, e2, e3, u1, u2, None

VARIABLES
  part,
  entry, cache, totalWeight,
  time, flinkWall, jobs, jobEdits, client, build, snapshot, overview, lastOk, flinkCaller, flinkGiven,
  now, changes, cluster, read, caller, shown,
  stored, task, severity, feed

clientVars == <<call, inFlight, waiters>>
memoVars == <<entry, cache, totalWeight>>
flinkVars == <<time, flinkWall, jobs, jobEdits, client, build, snapshot, overview, lastOk, flinkCaller, flinkGiven>>
registryVars == <<now, changes, cluster, read, caller, shown>>
feedVars == <<stored, task, severity, feed>>

----------------------------------------------------------------------------
(* Instances *)

\* Three keys share room for two entries and for a weight of three; three loads at once.
Memo == INSTANCE UpstreamMemo WITH
  Keys <- {k1, k2, k3}, Ids <- {e1, e2, e3}, MaxEntries <- 2, MaxWeight <- 3,
  KeepsValues <- TRUE, KeepsErrors <- TRUE

\* Two slots and one place in line for the requests of a snapshot of two jobs.
Snapshots == INSTANCE FlinkAdapter WITH
  wall <- flinkWall, edits <- jobEdits, caller <- flinkCaller, given <- flinkGiven,
  Callers <- {u1, u2}, N <- 2, Unmappable <- {}, Asked <- {2}, MaxJobs <- 2, MaxConcurrency <- 1,
  MaxQueue <- 1, Timeout <- 1, SnapshotBudget <- 1, CacheTtl <- 1, NegativeTtl <- 1,
  MaxEdits <- 1, MaxBack <- 0, MaxTime <- 2

\* More jobs than a snapshot may hold, one of them unmappable, and one slot.
Limits == INSTANCE FlinkAdapter WITH
  wall <- flinkWall, edits <- jobEdits, caller <- flinkCaller, given <- flinkGiven,
  Callers <- {u1, u2}, N <- 3, Unmappable <- {3}, Asked <- {3}, MaxJobs <- 2, MaxConcurrency <- 1,
  MaxQueue <- 0, Timeout <- 1, SnapshotBudget <- 2, CacheTtl <- 1, NegativeTtl <- 1,
  MaxEdits <- 0, MaxBack <- 0, MaxTime <- 3

\* The roll-out of two workloads, the second of which the chart may leave out.
Rollout == INSTANCE ServiceRegistry WITH
  given <- shown, Callers <- {u1}, Names <- {"coordinator", "worker"}, Optional <- {"worker"},
  Resource <- "deployments", KubeTimeout <- 2, AdapterTimeout <- 3, MaxTime <- 2, MaxChanges <- 3

\* Two requests share the reads of one workload.
Sharing == INSTANCE ServiceRegistry WITH
  given <- shown, Callers <- {u1, u2}, Names <- {"kafka"}, Optional <- {}, Resource <- "kafkas",
  KubeTimeout <- 1, AdapterTimeout <- 2, MaxTime <- 3, MaxChanges <- 1

\* Two namespaces of up to two pages each.
Feed == INSTANCE EventFeed WITH
  answer <- feed, Namespaces <- {"n1", "n2"}, Apps <- {"app"}, MAX_EVENTS <- 1, MAX_PAGES <- 2,
  Times <- {1, 2}

\* A namespace with more events than are read.
LongFeed == INSTANCE EventFeed WITH
  answer <- feed, Namespaces <- {"n1"}, Apps <- {"app"}, MAX_EVENTS <- 2, MAX_PAGES <- 1,
  Times <- {1, 2}

ASSUME InstanceAssumption ==
  /\ Memo!LimitAssumption /\ Memo!TtlAssumption
  /\ CatalogAssumption
  /\ Snapshots!FlinkAssumption /\ Limits!FlinkAssumption
  /\ ProviderAssumption /\ Feed!FeedAssumption /\ LongFeed!FeedAssumption
  /\ Rollout!TimeoutsAssumption /\ Sharing!TimeoutsAssumption

\* The two callers of the parts that have two.
Symmetry == Permutations({u1, u2})

----------------------------------------------------------------------------
(* Specification *)

\* Bound: the clock of the part that lists as well.
TraversalTime == Budget

UpstreamInit ==
  /\ part \in {"client", "memo", "traversal", "moved", "drained", "snapshots", "limits", "provider",
               "rollout", "sharing", "feed", "longFeed"}
  /\ Init
  /\ Memo!Init
  /\ CatalogInit /\ (part # "traversal" => children = [k \in Kinds |-> 1..N])
  /\ IF part = "limits" THEN Limits!Init
     ELSE Snapshots!Init /\ (part # "snapshots" => jobs = {})
  /\ ProviderInit
  /\ IF part = "rollout" THEN Rollout!Init ELSE Sharing!Init
  /\ CASE part = "feed" -> Feed!Init
       [] part = "longFeed" -> LongFeed!Init
       [] OTHER -> stored = None /\ task = None /\ severity = None /\ feed = None

ClientStep ==
  /\ part = "client" /\ Next
  /\ UNCHANGED <<part, memoVars, catalogVars, flinkVars, providerVars, registryVars, feedVars>>

MemoStep ==
  /\ part = "memo" /\ Memo!Next
  /\ UNCHANGED <<part, clientVars, catalogVars, flinkVars, providerVars, registryVars, feedVars>>

\* Listings and reads while a name comes or goes (traversal), reads while the warehouse
\* moves (moved), and listings to the end of their budget and past it (drained).
CatalogStep ==
  /\ CatalogNext
  /\ \/ part = "traversal" /\ clock' <= TraversalTime /\ UNCHANGED prefix
     \/ part = "moved" /\ load'["list"] = NoLoad /\ UNCHANGED children
     \/ part = "drained" /\ load'["get"] = NoLoad /\ UNCHANGED upstream
  /\ UNCHANGED <<part, clientVars, memoVars, flinkVars, providerVars, registryVars, feedVars>>

FlinkStep ==
  /\ \/ part = "snapshots" /\ Snapshots!Next
     \/ part = "limits" /\ Limits!Next
  /\ UNCHANGED <<part, clientVars, memoVars, catalogVars, providerVars, registryVars, feedVars>>

BulkheadStep ==
  /\ part = "provider" /\ ProviderNext
  /\ UNCHANGED <<part, clientVars, memoVars, catalogVars, flinkVars, registryVars, feedVars>>

RegistryStep ==
  /\ \/ part = "rollout" /\ Rollout!Next
     \/ part = "sharing" /\ Sharing!Next
  /\ UNCHANGED <<part, clientVars, memoVars, catalogVars, flinkVars, providerVars, feedVars>>

FeedStep ==
  /\ \/ part = "feed" /\ Feed!Next
     \/ part = "longFeed" /\ LongFeed!Next
  /\ UNCHANGED <<part, clientVars, memoVars, catalogVars, flinkVars, providerVars, registryVars>>

UpstreamNext ==
  ClientStep \/ MemoStep \/ CatalogStep \/ FlinkStep \/ BulkheadStep \/ RegistryStep \/ FeedStep

UpstreamSpec ==
  UpstreamInit /\ [][UpstreamNext]_<<part, clientVars, memoVars, catalogVars, flinkVars, providerVars,
                                     registryVars, feedVars>>

----------------------------------------------------------------------------
(* Properties of the instances, each stated and explained in its module *)

\* The memo's weight is the sum of its live entries, in whatever order loads settle
\* and entries are evicted, replaced or invalidated (memo.ts:10).
Accounting == part = "memo" => Memo!Accounting

\* The memo's memory is bounded after every operation (memo.ts).
Bounded == part = "memo" => Memo!Bounded

\* A timeout or an overload of our own is never what a later reader is given.
LimitsNotKept == part = "memo" => Memo!LimitsNotKept

\* While a live load of a key is pending no second one starts.
SingleFlight == [][part = "memo" => Memo!SingleFlightStep]_memoVars

\* What was evicted or invalidated never comes back: a reader after an invalidation
\* is never given a load from before it.
NoComeback == [][part = "memo" => Memo!NoComebackStep]_memoVars

\* A result too large to keep costs the other entries nothing.
OversizeSparesOthers == [][part = "memo" => Memo!OversizeSparesOthersStep]_memoVars

\* The Flink client's slots and queue are exact whatever was aborted while it waited.
FlinkSlotsExact == part = "snapshots" => Snapshots!SlotsExact

\* A pipeline answered with 200 was read with its detail, and a list shows every job
\* that was there all the time or carries a warning.
FlinkCompleteOrSaid ==
  /\ part = "snapshots" => Snapshots!CompleteOrSaid
  /\ part = "limits" => Limits!CompleteOrSaid

\* Nobody waits longer than the snapshot's budget, nor for health longer than a request.
FlinkInBudget == part = "limits" => Limits!AnsweredInBudget

\* "healthy" is said of a cluster that answered within the life of the cache.
HealthIsRecent == part = "snapshots" => Snapshots!HealthIsRecent

\* While the clock is not set back, a snapshot with a transient failure in it is never
\* served from the cache (TRANSIENT_KINDS).
TransientNotKept == part = "snapshots" => Snapshots!TransientNotKept

\* A service shown healthy had its latest generation rolled out at a moment after the
\* read began.
HealthyWasRolledOut ==
  /\ part = "rollout" => Rollout!HealthyWasRolledOut
  /\ part = "sharing" => Sharing!HealthyWasRolledOut

\* A request that finds no other under way is answered from reads begun after it.
FreshWhenAlone == part = "sharing" => Sharing!FreshWhenAlone

\* A failed read shows as unknown, never as the registry's fallback, in adapter time.
Isolated == part = "sharing" => Sharing!Isolated

\* An event that was read and fits the filter is left out only for as many newer ones.
NewestKept ==
  /\ part = "feed" => Feed!NewestKept
  /\ part = "longFeed" => LongFeed!NewestKept

\* What the answer does not say is missing was read, and a warning stands for a
\* source that really failed.
MissingIsSaid ==
  /\ part = "feed" => Feed!MissingIsSaid
  /\ part = "longFeed" => LongFeed!MissingIsSaid

----------------------------------------------------------------------------
(* What the run checks: the properties above, component by component *)

\* The memo: exact accounting and bounded memory in every order of settling, evicting
\* and invalidating; no error of our own kept, no second load of a key, no comeback of
\* what was dropped, and no harm from a result too large to keep (memo.ts).
MemoExact ==
  [](Accounting /\ Bounded /\ LimitsNotKept) /\ SingleFlight /\ NoComeback /\ OversizeSparesOthers

\* Flink: slots are exact, an answer is whole or warns, comes within the budget, and
\* neither an old "healthy" nor a transient failure is served from the cache
\* (flink/client.ts, flink/adapter.ts).
FlinkHonest ==
  FlinkSlotsExact /\ FlinkCompleteOrSaid /\ FlinkInBudget /\ HealthIsRecent /\ TransientNotKept

\* The cluster is shown as it was read: services rolled out, fresh and isolated from each
\* other's failures, events the newest, and what is missing said (kubeWorkload.ts, events.ts).
ClusterShownAsRead ==
  HealthyWasRolledOut /\ FreshWhenAlone /\ Isolated /\ NewestKept /\ MissingIsSaid
=============================================================================
