----------------------------- MODULE FlinkAdapter ------------------------------
(***************************************************************************)
(* The Flink adapter (flink/adapter.ts) over its REST client               *)
(* (flink/client.ts): one snapshot of the pipelines at a time, built from  *)
(* the overview of the jobs and one request for each job, shared by all    *)
(* callers, kept for as long as it was good, and cut off by a budget.      *)
(* Beside it the overview of the cluster, behind the health of the         *)
(* service, shares the slots of the client.  Timers run on monotonic time, *)
(* the caches on the wall clock.                                           *)
(***************************************************************************)
EXTENDS Integers, Sequences, FiniteSets, TLC

CONSTANTS
  Callers,
  N,               \* jobs the cluster may have: 1..N, in the order it lists them
  Unmappable,      \* jobs that pipelineSchema refuses
  Asked,           \* the pipelines that callers ask for
  MaxJobs,         \* MAX_JOBS
  MaxConcurrency, MaxQueue,
  Timeout,         \* of one request
  SnapshotBudget,
  CacheTtl, NegativeTtl,
  MaxEdits,        \* bound: jobs that come or go
  MaxBack,         \* how far the wall clock may be set back
  MaxTime          \* bound: the clock

\* Assumed of the constants; the module that instantiates this one states it.
FlinkAssumption ==
  /\ IsFiniteSet(Callers) /\ N \in Nat /\ Unmappable \cup Asked \subseteq 1..N
  /\ {MaxJobs, MaxConcurrency, Timeout, SnapshotBudget} \subseteq Nat \ {0}
  /\ {MaxQueue, CacheTtl, NegativeTtl, MaxEdits, MaxBack, MaxTime} \subseteq Nat

Symmetry     == Permutations(Callers)
Jobs         == 1..N
JobsOverview == 0            \* GET /jobs/overview
Overview     == N + 1        \* GET /overview
Requests     == 0..(N + 1)   \* GET /jobs/{i} is request i

VARIABLES
  time, wall,
  jobs, edits,   \* upstream: the jobs there are, and how often they changed
  client,        \* slots, queue, and each request's state and deadline
  build,         \* the snapshot being built
  snapshot,      \* entry of snapshotCache
  overview,      \* entry of overviewCache: until when "healthy" is served
  lastOk,        \* when the cluster last answered /overview (history)
  caller, given  \* what callers wait for, the answers of the last step

upstream == <<jobs, edits>>
vars == <<time, wall, upstream, client, build, snapshot, overview, lastOk, caller, given>>

NoBuild  == [at |-> "none", todo |-> <<>>, got |-> [j \in Jobs |-> "none"], budget |-> 0,
             more |-> FALSE, always |-> {}]
(* reach: "ok", or the way in which the overview of the jobs failed. *)
Unread(reach) == [reach |-> reach, shown |-> {}, incomplete |-> {}, transient |-> reach = "transient",
                  warned |-> TRUE, always |-> {}]
NoEntry  == [value |-> Unread("none"), expiresAt |-> 0]
Idle     == [want |-> "none", id |-> 0, began |-> 0]

Init ==
  /\ time = 0 /\ wall = MaxBack
  /\ jobs \in SUBSET Jobs /\ edits = 0
  /\ client = [active |-> 0, waiters |-> <<>>, st |-> [q \in Requests |-> "none"],
               until |-> [q \in Requests |-> 0]]
  /\ build = NoBuild /\ snapshot = NoEntry /\ overview = 0 /\ lastOk = -1
  /\ caller = [c \in Callers |-> Idle] /\ given = {}

Lesser(a, b) == IF a < b THEN a ELSE b
Members(s)   == {s[i] : i \in DOMAIN s}

-------------------------------------------------------------------------------
(* The client: acquire and release. *)

Free(cl) == Lesser(MaxConcurrency - cl.active, N + 2)
Room(cl) == MaxQueue - Len(cl.waiters)

(* How many of the requests s, made one after the other, get a slot or wait; *)
(* the others are refused ("overloaded").                                    *)
Admitted(cl, s) == Lesser(Len(s), Free(cl) + Room(cl))

Admit(cl, s) ==
  LET a    == Lesser(Len(s), Free(cl))
      run  == SubSeq(s, 1, a)
      wait == SubSeq(s, a + 1, Admitted(cl, s))
  IN [active  |-> cl.active + a,
      waiters |-> cl.waiters \o wait,
      st      |-> [q \in Requests |-> IF q \in Members(run) THEN "active"
                                      ELSE IF q \in Members(wait) THEN "waiting" ELSE cl.st[q]],
      until   |-> [q \in Requests |-> IF q \in Members(run) \cup Members(wait)
                                      THEN time + Timeout ELSE cl.until[q]]]

(* Mutant: a slot handed to a waiter is also counted as free. *)
BadRelease(cl, q) ==
  IF cl.waiters = <<>> THEN [cl EXCEPT !.active = @ - 1, !.st[q] = "none"]
  ELSE [cl EXCEPT !.active = @ - 1, !.waiters = Tail(@),
                  !.st = [@ EXCEPT ![q] = "none", ![Head(cl.waiters)] = "active"]]

(* release: the slot goes to the first waiter. *)
Release(cl, q) ==
  IF cl.waiters = <<>> THEN [cl EXCEPT !.active = @ - 1, !.st[q] = "none"]
  ELSE [cl EXCEPT !.waiters = Tail(@),
                  !.st = [@ EXCEPT ![q] = "none", ![Head(cl.waiters)] = "active"]]

(* A request ends: with a slot it gives it back, in the queue it leaves it. *)
Ends(cl, q) ==
  IF cl.st[q] = "active" THEN Release([cl EXCEPT !.until[q] = 0], q)
  ELSE [cl EXCEPT !.until[q] = 0, !.st[q] = "none", !.waiters = SelectSeq(@, LAMBDA w : w # q)]

-------------------------------------------------------------------------------
(* Answers. *)

(* getPipeline and its route. *)
Lookup(snap, id) ==
  IF snap.reach # "ok" THEN 503
  ELSE IF id \in snap.shown THEN IF id \in snap.incomplete THEN 503 ELSE 200
  ELSE 404

Reply(c, snap, cached) ==
  [want |-> c.want, id |-> c.id, snap |-> snap, cached |-> cached,
   code |-> IF c.want = "pipeline" THEN Lookup(snap, c.id) ELSE 200]

Waiting == {c \in Callers : caller[c].want \in {"list", "pipeline"}}

(* Mutant: what a failed snapshot may be kept for depends on the overview of *)
(* the jobs only.                                                            *)
BadTtlOf(snap, genuine) ==
  IF snap.reach = "transient" THEN 0 ELSE IF genuine THEN Lesser(CacheTtl, NegativeTtl) ELSE CacheTtl

TtlOf(snap, genuine) ==
  IF snap.transient THEN 0 ELSE IF genuine THEN Lesser(CacheTtl, NegativeTtl) ELSE CacheTtl

(* The snapshot is ready: it is kept and all who wait get it. *)
Publish(snap, genuine) ==
  /\ build' = NoBuild
  /\ snapshot' = [value |-> snap, expiresAt |-> wall + TtlOf(snap, genuine)]
  /\ given' = {Reply(caller[c], snap, FALSE) : c \in Waiting}
  /\ caller' = [c \in Callers |-> IF c \in Waiting THEN Idle ELSE caller[c]]

-------------------------------------------------------------------------------
(* buildSnapshot *)

(* Mutant: jobs beyond the limit are left out without a word. *)
BadSnapshotOf(b) ==
  LET selected == {j \in Jobs : b.got[j] # "none"}
      failed   == {j \in selected : b.got[j] # "ok"}
  IN [reach |-> "ok", shown |-> selected \ Unmappable, incomplete |-> failed,
      transient |-> \E j \in failed : b.got[j] = "transient",
      warned |-> failed # {} \/ selected \cap Unmappable # {}, always |-> b.always]

SnapshotOf(b) ==
  LET selected == {j \in Jobs : b.got[j] # "none"}
      failed   == {j \in selected : b.got[j] # "ok"}
  IN [reach |-> "ok", shown |-> selected \ Unmappable, incomplete |-> failed,
      transient |-> \E j \in failed : b.got[j] = "transient",
      warned |-> b.more \/ failed # {} \/ selected \cap Unmappable # {}, always |-> b.always]

Genuine(b) == \E j \in Jobs : b.got[j] = "genuine" \/ (b.got[j] # "none" /\ j \in Unmappable)

(* k workers of mapLimited take the next jobs.  One that is refused takes    *)
(* the next job at once, and finds the queue as full as before.              *)
Take(cl, b, k) ==
  LET s   == SubSeq(b.todo, 1, Lesser(k, Len(b.todo)))
      adm == Admitted(cl, s)
      out == IF adm < Len(s) THEN Members(SubSeq(b.todo, adm + 1, Len(b.todo))) ELSE {}
  IN [cl |-> Admit(cl, s),
      b  |-> [b EXCEPT !.todo = IF out = {} THEN SubSeq(@, Len(s) + 1, Len(@)) ELSE <<>>,
                       !.got = [j \in Jobs |-> IF j \in out THEN "transient"
                                               ELSE IF j \in Members(s) THEN "pending" ELSE @[j]]]]

Done(b) == b.todo = <<>> /\ \A j \in Jobs : b.got[j] # "pending"

(* After the step that leads to client cl and build b. *)
Proceed(cl, b) ==
  /\ client' = cl
  /\ IF Done(b) THEN Publish(SnapshotOf(b), Genuine(b))
     ELSE build' = b /\ given' = {} /\ UNCHANGED <<snapshot, caller>>

Listed == CHOOSE s \in [1..Cardinality(jobs) -> jobs] : \A i, j \in DOMAIN s : i < j => s[i] < s[j]

(* The overview of the jobs: the first MaxJobs are read. *)
JobsListed ==
  /\ build.at = "list" /\ client.st[JobsOverview] = "active"
  /\ LET n == Lesser(MaxJobs, Len(Listed))
         b == [build EXCEPT !.at = "details", !.todo = SubSeq(Listed, 1, n), !.more = Len(Listed) > n]
         t == Take(Ends(client, JobsOverview), b, MaxConcurrency)
     IN Proceed(t.cl, t.b)
  /\ UNCHANGED <<time, wall, upstream, overview, lastOk>>

(* An answer that is an error or no overview, no connection, or the timer. *)
ListFails(kind) ==
  /\ build.at = "list" /\ client.st[JobsOverview] # "none"
  /\ IF client.st[JobsOverview] = "waiting" \/ kind = "timeout"
     THEN kind = "timeout" /\ client.until[JobsOverview] = time
     ELSE TRUE
  /\ client' = Ends(client, JobsOverview)
  /\ Publish(Unread(IF kind = "genuine" THEN "genuine" ELSE "transient"), kind = "genuine")
  /\ UNCHANGED <<time, wall, upstream, overview, lastOk>>

(* The request of job j ends, and its worker goes on. *)
JobEnds(j, outcome) ==
  /\ build.at = "details" /\ build.got[j] = "pending"
  /\ client.st[j] = "waiting" => outcome = "transient" /\ client.until[j] = time
  /\ outcome = "ok" => j \in jobs         \* a job that is gone answers 404: genuine
  /\ LET b == [build EXCEPT !.got[j] = outcome]
         t == Take(Ends(client, j), b, 1)
     IN Proceed(t.cl, t.b)
  /\ UNCHANGED <<time, wall, upstream, overview, lastOk>>

(* The budget is over: requests under way or in the queue are aborted, jobs  *)
(* not yet asked for are not asked for.                                      *)
BudgetTimer ==
  /\ build.at # "none" /\ build.budget = time
  /\ LET mine == {q \in Requests \ {Overview} : client.st[q] # "none"}
         open == {q \in mine : client.st[q] = "active"}
         wake == Overview \in Members(client.waiters) /\ open # {}
     IN client' = [client EXCEPT
          !.active  = @ - Cardinality(open) + (IF wake THEN 1 ELSE 0),
          !.waiters = IF wake THEN <<>> ELSE SelectSeq(@, LAMBDA w : w = Overview),
          !.st      = [q \in Requests |-> IF q \in mine THEN "none"
                                          ELSE IF q = Overview /\ wake THEN "active" ELSE @[q]],
          !.until   = [q \in Requests |-> IF q \in mine THEN 0 ELSE @[q]]]
  /\ IF build.at = "list" THEN Publish(Unread("transient"), FALSE)
     ELSE Publish(SnapshotOf([build EXCEPT !.got =
            [j \in Jobs |-> IF @[j] = "pending" \/ j \in Members(build.todo) THEN "transient" ELSE @[j]]]),
            FALSE)
  /\ UNCHANGED <<time, wall, upstream, overview, lastOk>>

-------------------------------------------------------------------------------
(* listPipelines, getPipeline, getHealth, up to the first await. *)

(* Mutant: an entry is served once, then looked at. *)
BadFresh(expiresAt) == expiresAt > 0

Fresh(expiresAt) == wall < expiresAt

Wants == [want : {"list"}, id : {0}, began : {time}] \cup [want : {"pipeline"}, id : Asked, began : {time}]

FromCache(c) ==
  /\ caller[c] = Idle /\ Fresh(snapshot.expiresAt)
  /\ \E w \in Wants : given' = {Reply(w, snapshot.value, TRUE)}
  /\ UNCHANGED <<time, wall, upstream, client, build, snapshot, overview, lastOk, caller>>

Join(c) ==
  /\ caller[c] = Idle /\ ~Fresh(snapshot.expiresAt) /\ build.at # "none"
  /\ \E w \in Wants : caller' = [caller EXCEPT ![c] = w]
  /\ given' = {}
  /\ UNCHANGED <<time, wall, upstream, client, build, snapshot, overview, lastOk>>

Start(c) ==
  /\ caller[c] = Idle /\ ~Fresh(snapshot.expiresAt) /\ build.at = "none"
  /\ \E w \in Wants :
       \/ /\ Admitted(client, <<JobsOverview>>) = 1
          /\ client' = Admit(client, <<JobsOverview>>)
          /\ build' = [NoBuild EXCEPT !.at = "list", !.budget = time + SnapshotBudget, !.always = jobs]
          /\ caller' = [caller EXCEPT ![c] = w] /\ given' = {}
          /\ UNCHANGED snapshot
       \/ /\ Admitted(client, <<JobsOverview>>) = 0
          /\ snapshot' = [value |-> Unread("transient"), expiresAt |-> wall]
          /\ given' = {Reply(w, Unread("transient"), FALSE)}
          /\ UNCHANGED <<client, build, caller>>
  /\ UNCHANGED <<time, wall, upstream, overview, lastOk>>

HealthReply(status) == [want |-> "health", id |-> 0, snap |-> Unread("none"), cached |-> FALSE, code |-> status]

(* getHealth: from the cache, with the request under way, or with one more. *)
Health(c) ==
  /\ caller[c] = Idle
  /\ \/ Fresh(overview) /\ given' = {HealthReply("healthy")} /\ UNCHANGED <<client, caller>>
     \/ /\ ~Fresh(overview) /\ client.st[Overview] = "none" /\ Admitted(client, <<Overview>>) = 0
        /\ given' = {HealthReply("unknown")} /\ UNCHANGED <<client, caller>>
     \/ /\ ~Fresh(overview) /\ (client.st[Overview] = "none" => Admitted(client, <<Overview>>) = 1)
        /\ client' = IF client.st[Overview] = "none" THEN Admit(client, <<Overview>>) ELSE client
        /\ caller' = [caller EXCEPT ![c] = [want |-> "health", id |-> 0, began |-> time]]
        /\ given' = {}
  /\ UNCHANGED <<time, wall, upstream, build, snapshot, overview, lastOk>>

(* The overview of the cluster ends: only an answer is kept; an error of the *)
(* server is "degraded", everything else is "unknown".                       *)
OverviewEnds(status) ==
  LET asking == {c \in Callers : caller[c].want = "health"} IN
  /\ client.st[Overview] # "none"
  /\ client.st[Overview] = "waiting" => status = "unknown" /\ client.until[Overview] = time
  /\ client' = Ends(client, Overview)
  /\ IF status = "healthy" THEN overview' = wall + CacheTtl /\ lastOk' = time
     ELSE UNCHANGED <<overview, lastOk>>
  /\ given' = IF asking = {} THEN {} ELSE {HealthReply(status)}
  /\ caller' = [c \in Callers |-> IF c \in asking THEN Idle ELSE caller[c]]
  /\ UNCHANGED <<time, wall, upstream, build, snapshot>>

-------------------------------------------------------------------------------
(* The cluster and the clocks. *)

Edit ==
  /\ edits < MaxEdits /\ edits' = edits + 1
  /\ \E j \in Jobs :
       /\ jobs' = IF j \in jobs THEN jobs \ {j} ELSE jobs \cup {j}
       /\ build' = [build EXCEPT !.always = @ \ {j}]
  /\ given' = {}
  /\ UNCHANGED <<time, wall, client, snapshot, overview, lastOk, caller>>

SetBack ==
  /\ wall = time + MaxBack /\ MaxBack > 0 /\ wall' = wall - MaxBack
  /\ given' = {}
  /\ UNCHANGED <<time, upstream, client, build, snapshot, overview, lastOk, caller>>

(* Timers that are due fire before time goes on. *)
Tick ==
  /\ time < MaxTime
  /\ \A q \in Requests : client.st[q] # "none" => client.until[q] > time
  /\ build.at # "none" => build.budget > time
  /\ time' = time + 1 /\ wall' = wall + 1 /\ given' = {}
  /\ UNCHANGED <<upstream, client, build, snapshot, overview, lastOk, caller>>

Next ==
  \/ \E c \in Callers : FromCache(c) \/ Join(c) \/ Start(c) \/ Health(c)
  \/ JobsListed \/ BudgetTimer \/ Edit \/ SetBack \/ Tick
  \/ \E kind \in {"genuine", "transient", "timeout"} : ListFails(kind)
  \/ \E j \in Jobs, o \in {"ok", "genuine", "transient"} : JobEnds(j, o)
  \/ \E s \in {"healthy", "degraded", "unknown"} : OverviewEnds(s)

Spec == Init /\ [][Next]_vars

-------------------------------------------------------------------------------
(* Properties. *)

Active == {q \in Requests : client.st[q] = "active"}

(* The slots are exact: active counts the requests under way, the queue      *)
(* holds those that wait, each once, and nobody waits beside a free slot,    *)
(* whatever was aborted while it waited or ran.                              *)
SlotsExact ==
  /\ client.active = Cardinality(Active) /\ client.active <= MaxConcurrency
  /\ Members(client.waiters) = {q \in Requests : client.st[q] = "waiting"}
  /\ Len(client.waiters) = Cardinality(Members(client.waiters)) /\ Len(client.waiters) <= MaxQueue
  /\ client.waiters # <<>> => client.active = MaxConcurrency

(* A pipeline answered with 200 was read with its detail, and a list shows   *)
(* every job that was there all the time or carries a warning.               *)
CompleteOrSaid ==
  \A a \in given :
    /\ a.want = "pipeline" /\ a.code = 200 => a.id \in a.snap.shown \ a.snap.incomplete
    /\ a.want = "list" /\ ~a.snap.warned => a.snap.always \subseteq a.snap.shown

(* Nobody waits for a snapshot longer than its budget, nor for the health of *)
(* the service longer than one request.                                      *)
AnsweredInBudget ==
  \A c \in Callers :
    /\ caller[c].want \in {"list", "pipeline"} => time <= caller[c].began + SnapshotBudget
    /\ caller[c].want = "health" => time <= caller[c].began + Timeout

(* "healthy" is said of a cluster that answered within the life of the cache. *)
HealthIsRecent ==
  \A a \in given : a.want = "health" /\ a.code = "healthy" => lastOk >= 0 /\ time <= lastOk + CacheTtl

(* What the comment on TRANSIENT_KINDS says: a snapshot with a transient     *)
(* failure in it is never served from the cache.                             *)
TransientNotKept == \A a \in given : a.cached => ~a.snap.transient

(* What the description of the 404 says: no pipeline exists with this id.    *)
NotFoundIsAbsent == \A a \in given : a.want = "pipeline" /\ a.code = 404 => a.id \notin a.snap.always
===============================================================================
