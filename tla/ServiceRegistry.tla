---------------------------- MODULE ServiceRegistry ----------------------------
(***************************************************************************)
(* ServiceAdapterRegistry (adapters/registry.ts) with one adapter that     *)
(* reads a service's workloads from Kubernetes (kubeWorkload.ts,           *)
(* kubeClient.ts) and one that answers, throws or hangs.  A request        *)
(* resolves the adapters side by side, each under a timer; the reads of    *)
(* the workloads are shared while they are under way, and a controller     *)
(* rolls the workloads out meanwhile.                                      *)
(***************************************************************************)
EXTENDS Integers, FiniteSets, FiniteSetsExt, Functions

CONSTANTS
  Callers,
  Names, Optional,      \* workloads of the service; the ones that may be missing
  Resource,             \* "deployments" or "kafkas"
  None,
  KubeTimeout,          \* timeoutMs of KubeClient (2500)
  AdapterTimeout,       \* DEFAULT_ADAPTER_TIMEOUT_MS (3000)
  MaxTime, MaxChanges   \* bounds: the clock, changes in the cluster

\* Assumed of the constants; the module that instantiates this one states it.
TimeoutsAssumption ==
  /\ Optional \subseteq Names /\ Resource \in {"deployments", "kafkas"}
  /\ KubeTimeout \in Nat /\ AdapterTimeout \in Nat /\ 0 < KubeTimeout /\ KubeTimeout < AdapterTimeout

VARIABLES
  now, changes,
  cluster,      \* workloads: absent, or spec and status
  read,         \* pending: the shared read, with what the API server said of each workload
  caller,       \* requests under way
  given         \* answers of the last step

vars == <<now, changes, cluster, read, caller, given>>

Absent == [exists |-> FALSE, current |-> TRUE, desired |-> 0, ready |-> 0, updated |-> 0, available |-> 0]

Idle == [on |-> FALSE, since |-> 0, alone |-> FALSE, kube |-> None, plain |-> None]

Init ==
  /\ now = 0 /\ changes = 0 /\ read = None /\ given = {}
  /\ cluster = [n \in Names |-> [Absent EXCEPT !.exists = TRUE, !.desired = 1, !.ready = 1,
                                               !.updated = 1, !.available = 1]]
  /\ caller = [c \in Callers |-> Idle]

-------------------------------------------------------------------------------
(* The snapshot of a read. *)

(* Mutant: the generation the controller has observed is not looked at. *)
BadReadyOf(w) == Min({w.ready, w.updated, w.available, w.desired})

(* Replicas that count; for a Kafka resource, its Ready condition. *)
ReadyOf(w) ==
  IF ~w.current \/ ~w.exists THEN 0
  ELSE IF Resource = "kafkas" THEN w.ready
  ELSE Min({w.ready, w.updated, w.available, w.desired})

DesiredOf(w) == IF ~w.exists THEN 0 ELSE IF Resource = "kafkas" THEN 1 ELSE w.desired

Unknown == [status |-> "unknown", ready |-> 0, desired |-> 0, said |-> <<>>, since |-> 0]

(* said: what the API server said of each workload, and when. *)
SnapshotOf(r) ==
  LET said    == r.said
      ready   == MapThenSumSet(LAMBDA n : ReadyOf(said[n].w), Names)
      desired == MapThenSumSet(LAMBDA n : DesiredOf(said[n].w), Names)
      missing == \E n \in Names \ Optional : ~said[n].w.exists
  IN [status |-> IF ready = 0 THEN "unavailable" ELSE IF ~missing /\ ready = desired THEN "healthy" ELSE "degraded",
      ready |-> ready, desired |-> desired, said |-> said, since |-> r.since]

(* What the registry answers for an adapter that threw or was too slow. *)
Fallback == [Unknown EXCEPT !.status = "fallback"]

-------------------------------------------------------------------------------
(* Requests. *)

NewRead == [since |-> now, said |-> [n \in Names |-> None], back |-> {}]

(* Mutant: the read is kept for later requests after it has settled. *)
BadSettle(snapshot) ==
  /\ read' = IF snapshot.status = "unknown" THEN None ELSE [read EXCEPT !.back = {}]
  /\ caller' = [c \in Callers |-> IF caller[c].on /\ caller[c].kube = None
                                  THEN [caller[c] EXCEPT !.kube = snapshot] ELSE caller[c]]

(* The promise settles: pending is cleared and every waiting request served. *)
Settle(snapshot) ==
  /\ read' = None
  /\ caller' = [c \in Callers |-> IF caller[c].on /\ caller[c].kube = None
                                  THEN [caller[c] EXCEPT !.kube = snapshot] ELSE caller[c]]

Quiet == UNCHANGED <<now, changes, cluster>> /\ given' = {}

(* listServices: all adapters, or with ?type= (and in getService) one.       *)
Ask(c, all) ==
  /\ ~caller[c].on
  /\ read' = IF read = None THEN NewRead ELSE read
  /\ caller' = [caller EXCEPT ![c] = [on |-> TRUE, since |-> now, kube |-> None,
                                      alone |-> \A d \in Callers : ~caller[d].on,
                                      plain |-> IF all THEN None ELSE "notAsked"]]
  /\ Quiet

(* The API server evaluates the request for a workload ... *)
Serve(n) ==
  /\ read # None /\ read.said[n] = None
  /\ read' = [read EXCEPT !.said[n] = [w |-> cluster[n], at |-> now]]
  /\ UNCHANGED caller /\ Quiet

(* ... and its reply arrives; the last one settles the read. *)
Reply(n) ==
  /\ read # None /\ read.said[n] # None /\ n \notin read.back
  /\ IF read.back \cup {n} = Names THEN Settle(SnapshotOf(read))
     ELSE read' = [read EXCEPT !.back = @ \cup {n}] /\ UNCHANGED caller
  /\ Quiet

(* Unreachable, a status other than 200 and 404, malformed: all of the read  *)
(* is unknown.                                                               *)
ReplyFails(n) == read # None /\ n \notin read.back /\ Settle(Unknown) /\ Quiet

(* The timers of the requests of a read fire together. *)
KubeTimer == read # None /\ now = read.since + KubeTimeout /\ Settle(Unknown) /\ Quiet

PlainAnswers(c, a) ==
  /\ caller[c].on /\ caller[c].plain = None
  /\ caller' = [caller EXCEPT ![c].plain = a]
  /\ UNCHANGED read /\ Quiet

Expired(r) == [r EXCEPT !.kube = IF @ = None THEN Fallback ELSE @, !.plain = IF @ = None THEN "unknown" ELSE @]

(* The timers of resolve: adapters without an answer fall back. *)
AdapterTimer(c) ==
  /\ caller[c].on /\ now = caller[c].since + AdapterTimeout /\ (caller[c].kube = None \/ caller[c].plain = None)
  /\ caller' = [caller EXCEPT ![c] = Expired(@)]
  /\ UNCHANGED read /\ Quiet

Settled(c) == caller[c].on /\ caller[c].kube # None /\ caller[c].plain # None

(* Promise.all of the adapters. *)
Answer(c) ==
  /\ Settled(c)
  /\ given' = {[caller[c] EXCEPT !.on = FALSE]}
  /\ caller' = [caller EXCEPT ![c] = Idle]
  /\ UNCHANGED <<now, changes, cluster, read>>

(* Timers fire when they are due, and a settled request is answered at once. *)
Tick ==
  /\ now < MaxTime
  /\ read # None => now < read.since + KubeTimeout
  /\ \A c \in Callers : ~Settled(c) /\ (caller[c].on => now < caller[c].since + AdapterTimeout)
  /\ now' = now + 1 /\ given' = {}
  /\ UNCHANGED <<changes, cluster, read, caller>>

-------------------------------------------------------------------------------
(* The cluster. *)

Change(n, w) ==
  /\ changes < MaxChanges /\ changes' = changes + 1
  /\ cluster' = [cluster EXCEPT ![n] = w] /\ given' = {}
  /\ UNCHANGED <<now, read, caller>>

(* A new generation, with the pods of the old one still ready. *)
Apply(n, d) == cluster[n].exists /\ Change(n, [cluster[n] EXCEPT !.current = FALSE, !.desired = d])

(* The controller notices it, replaces the pods, and they become ready. *)
Observe(n) == ~cluster[n].current /\ Change(n, [cluster[n] EXCEPT !.current = TRUE, !.updated = 0])
Replace(n) == cluster[n].current /\ cluster[n].updated # cluster[n].desired
                /\ Change(n, [cluster[n] EXCEPT !.updated = @ + 1, !.ready = 0, !.available = 0])
Readied(n) == cluster[n].exists /\ cluster[n].ready = 0 /\ Change(n, [cluster[n] EXCEPT !.ready = 1, !.available = 1])
Delete(n) == cluster[n].exists /\ Change(n, Absent)

Next ==
  \/ \E c \in Callers : \/ \E all \in BOOLEAN : Ask(c, all)
                        \/ \E a \in {"ok", "unknown"} : PlainAnswers(c, a)
                        \/ AdapterTimer(c)
                        \/ Answer(c)
  \/ \E n \in Names : \/ Serve(n) \/ Reply(n) \/ ReplyFails(n)
                      \/ \E d \in {0, 1} : Apply(n, d)
                      \/ Observe(n) \/ Replace(n) \/ Readied(n) \/ Delete(n)
  \/ KubeTimer
  \/ Tick

Spec == Init /\ [][Next]_vars

-------------------------------------------------------------------------------
(* Properties. *)

(* A service shown healthy had, for each workload that is to have replicas,  *)
(* the latest generation rolled out and the replicas ready at a moment after *)
(* the read began; one workload at least has replicas, and none the chart    *)
(* requires is missing.                                                      *)
HealthyWasRolledOut ==
  \A g \in given :
    g.kube.status = "healthy" =>
      /\ \E n \in Names : g.kube.said[n].w.desired > 0
      /\ \A n \in Names :
           LET s == g.kube.said[n] IN
             /\ s.at >= g.kube.since
             /\ n \notin Optional => s.w.exists
             /\ s.w.exists /\ s.w.desired > 0 => s.w.current /\ s.w.ready >= s.w.desired
                                /\ (Resource = "deployments" => s.w.updated >= s.w.desired)

(* A request that finds no other under way is answered from reads begun      *)
(* after it was made: "subsequent requests always fetch fresh state".        *)
FreshWhenAlone ==
  \A g \in given : g.alone /\ g.kube.status \notin {"unknown", "fallback"} => g.kube.since >= g.since

(* Each adapter stands for itself: a failed read shows as unknown with the   *)
(* time it was checked, never as the registry's fallback, and no request is  *)
(* longer under way than one adapter may take.                               *)
Isolated ==
  /\ \A g \in given : g.kube.status # "fallback"
  /\ \A c \in Callers : caller[c].on => now - caller[c].since <= AdapterTimeout
===============================================================================
