----------------------------- MODULE ApiStartup -----------------------------
(***************************************************************************)
(* How the Domain API process starts, serves and stops: server.ts loads    *)
(* the listen address and calls createAppFromEnv (wiring.ts), which reads  *)
(* the environment variables one loader after the other; a ConfigError     *)
(* ends the process.  An environment is a record of CLASSES of values: a   *)
(* class is what the loader of that variable tells apart.  Once it serves, *)
(* requests meet the gates of routes/ssoChanges.ts with whatever was       *)
(* wired, and SIGTERM drains the reconciler.                               *)
(***************************************************************************)
EXTENDS Naturals, FiniteSets

CONSTANTS
    NodeEnvs,      \* the values of NODE_ENV considered: "production", "development"
    Sources,    \* the values of SSO_SOURCE considered, of the four below
    MaxBad      \* how many variables of one environment may be invalid

\* Every other value of NODE_ENV is taken for "development" (config.ts, wiring.ts ask for "production").
StartAssumption ==
    /\ NodeEnvs \subseteq {"production", "development"} /\ Sources \subseteq {"unset", "github", "file", "bad"}
    /\ MaxBad \in Nat

\* "bad": a value that the loader refuses.
Environments == {e \in
    [node : NodeEnvs,
     auth : {"oidc", "disabled", "bad"},            \* AUTH_MODE, unset is "oidc"
     issuer : {"unset", "chart", "other", "bad"},   \* OIDC_ISSUER: "chart" is https://sso.<domain>/realms/<realm>
     domain : {"unset", "given", "bad"},            \* BASE_DOMAIN
     source : Sources,                              \* SSO_SOURCE: "unset", "github", "file", "bad"
     kube : {"unset", "ok", "unreadable", "bad"},   \* KUBE_API_*
     db : {"unset", "ok", "bad"},                   \* MANAGER_DB_*
     write : {"off", "on", "bad"},                  \* SSO_WRITE_ENABLED
     app : {"unset", "ok", "unreadable"},           \* GITHUB_APP_*: ids that are not numbers count as unset
     flink : {"unset", "ok", "bad"},                \* BELUGA_FLINK_*
     upstream : {"unset", "ok", "bad"},             \* BELUGA_TRINO_*, BELUGA_LAKEKEEPER_*
     listen : {"unset", "bad"},                     \* LISTEN_HOST
     interval : {"unset", "bad"}] :                 \* SSO_RECONCILE_INTERVAL_MS
    Cardinality({v \in DOMAIN e : e[v] = "bad"}) <= MaxBad}

VARIABLES
    env,        \* process.env
    phase,      \* the loader that runs next, then "serving", "draining", "stopped"; "exited" after a ConfigError
    wired,      \* what createAppFromEnv has built
    tick,       \* is a tick of the reconciler in flight
    submitted   \* the answer of the last step to a submit, {} if it gave none

startVars == <<env, phase, wired, tick, submitted>>

Production == env.node = "production"

\* resolveBaseDomain: where the domain comes from, "error" when it throws.
ResolveBaseDomain ==
    CASE env.domain = "given" -> "given"
      [] env.domain = "bad" -> "error"
      [] env.domain = "unset" /\ ~Production -> "default"
      [] env.domain = "unset" /\ Production /\ env.issuer = "chart" -> "issuer"
      [] OTHER -> "error"

Nothing == [source |-> "none", reconciler |-> "none", verifier |-> FALSE, store |-> FALSE, writer |-> FALSE,
            reader |-> FALSE, writeEnabled |-> FALSE, kubeClient |-> FALSE, live |-> {}]

StartInit ==
    /\ env \in Environments
    /\ phase = "listenHost"
    /\ wired = Nothing
    /\ tick = FALSE
    /\ submitted = {}

Step(here, next, fails, built) ==
    /\ phase = here
    /\ phase' = IF fails THEN "exited" ELSE next
    /\ wired' = IF fails THEN wired ELSE built
    /\ UNCHANGED <<env, tick, submitted>>

LoadListenHost == Step("listenHost", "auditDb", env.listen = "bad", wired)

\* The host alone decides whether there is a store; the pool connects later.
LoadAuditDb == Step("auditDb", "writeEnabled", env.db = "bad", [wired EXCEPT !.store = env.db = "ok"])

LoadWriteEnabled == Step("writeEnabled", "interval", env.write = "bad", [wired EXCEPT !.writeEnabled = env.write = "on"])

LoadReconcileInterval == Step("interval", "kubeApi", env.interval = "bad", wired)

LoadKubeApi == Step("kubeApi", "runtime", env.kube = "bad", [wired EXCEPT !.kubeClient = env.kube # "unset"])

\* loadFlinkAdapterConfig throws: the URL is not a bare http origin without credentials, or a number is out of range.
FlinkRefused == env.flink = "bad"

\* createRuntime: the Flink adapter, and with a Kubernetes client the adapters that need a domain.
CreateRuntime ==
    Step("runtime", "upstream",
         FlinkRefused \/ (wired.kubeClient /\ ResolveBaseDomain = "error"),
         [wired EXCEPT !.live = (IF env.flink = "ok" THEN {"flink"} ELSE {})
                                \cup (IF wired.kubeClient THEN {"services", "events"} ELSE {})])

\* A switch that is neither true nor false, or an enabled adapter without its URL, its token or its acknowledgement,
\* or with a number out of range.
UpstreamRefused == env.upstream = "bad"

\* loadUpstreamWiring: "unset" returns before any other variable is read.
LoadUpstreamWiring ==
    Step("upstream", "ssoAdapter", UpstreamRefused,
         [wired EXCEPT !.live = @ \cup (IF env.upstream = "ok" THEN {"trino", "lakekeeper"} ELSE {})])

SourceOf == IF env.source = "unset" /\ ~Production THEN "file" ELSE env.source

\* The file source takes BASE_DOMAIN as it stands, valid or not, else the default, in production too.
SourceDomain ==
    CASE SourceOf = "github" -> ResolveBaseDomain
      [] SourceOf # "github" /\ env.domain = "unset" -> "default"
      [] SourceOf # "github" /\ env.domain = "given" -> "given"
      [] OTHER -> "unchecked"

CreateSsoAdapter ==
    Step("ssoAdapter", "authConfig", SourceOf \notin {"github", "file"} \/ SourceDomain = "error",
         [wired EXCEPT !.source = SourceDomain])

LoadAuth ==
    Step("authConfig", "writers",
         \/ env.auth = "bad"
         \/ env.auth = "disabled" /\ Production
         \/ env.auth = "oidc" /\ env.issuer \in {"unset", "bad"},
         [wired EXCEPT !.verifier = env.auth = "oidc"])

\* createGitWriter and createArgocdReader: what cannot be read is "not configured", never an error.
CreateWriters ==
    Step("writers", "reconciler", FALSE,
         [wired EXCEPT !.writer = env.app = "ok", !.reader = env.kube = "ok"])

BadHasReconciler == wired.store /\ wired.writer /\ wired.reader

HasReconciler == wired.store /\ wired.writer

\* The reconciler qualifies the host labels of the edits that it rebuilds; server.ts then starts it and listens.
CreateReconciler ==
    Step("reconciler", "serving", HasReconciler /\ ResolveBaseDomain = "error",
         [wired EXCEPT !.reconciler = IF HasReconciler THEN ResolveBaseDomain ELSE @])

Listening == phase \in {"serving", "draining"}

\* POST /api/v1/sso/change-requests: the authentication middleware, then the gates in the order of the route.
Refusal(caller, ready) ==
    CASE wired.verifier /\ caller = "nobody" -> "UNAUTHENTICATED"
      [] ~wired.verifier -> "UNAUTHENTICATED"           \* no principal was set
      [] caller = "user" -> "FORBIDDEN"
      [] ~wired.writeEnabled -> "CONSUMER_NOT_DEPLOYED"
      [] ~wired.store \/ ~ready -> "AUDIT_UNAVAILABLE"
      [] ~wired.writer -> "GIT_WRITER_UNCONFIGURED"
      [] OTHER -> "none"

\* An admitted submit ends with a committed row; the routes behind the gates are in SsoChangeRoutes.
Submit ==
    /\ Listening
    /\ \E caller \in {"nobody", "user", "admin"}, ready \in BOOLEAN :
          submitted' = {[caller |-> caller, code |-> Refusal(caller, ready)]}
    /\ UNCHANGED <<env, phase, wired, tick>>

\* GET /api/v1/health: which optional parts are wired.
Health ==
    [auditStore |-> IF wired.store THEN "configured" ELSE "not-configured",
     gitWriter |-> IF wired.writer THEN "configured" ELSE "unconfigured",
     fixtures |-> IF "flink" \in wired.live \/ wired.kubeClient THEN "partial" ELSE "stub"]

HasTimer == phase = "serving" /\ wired.reconciler # "none"

\* SsoChangeReconciler.tick: single flight; a tick may never settle.
TickStarts == HasTimer /\ ~tick /\ tick' = TRUE /\ submitted' = {} /\ UNCHANGED <<env, phase, wired>>

TickEnds == Listening /\ tick /\ tick' = FALSE /\ submitted' = {} /\ UNCHANGED <<env, phase, wired>>

\* SIGTERM: stopAndDrain with a reconciler, the default of Node without one.
Signal ==
    /\ phase = "serving"
    /\ phase' = IF wired.reconciler # "none" THEN "draining" ELSE "stopped"
    /\ submitted' = {}
    /\ UNCHANGED <<env, wired, tick>>

\* The tick in flight has settled, or SHUTDOWN_DRAIN_MS have passed, whichever comes first.
Drained == phase = "draining" /\ phase' = "stopped" /\ submitted' = {} /\ UNCHANGED <<env, wired, tick>>

Load ==
    \/ LoadListenHost \/ LoadAuditDb \/ LoadWriteEnabled \/ LoadReconcileInterval \/ LoadKubeApi
    \/ CreateRuntime \/ LoadUpstreamWiring \/ CreateSsoAdapter \/ LoadAuth \/ CreateWriters \/ CreateReconciler

StartNext == Load \/ Submit \/ TickStarts \/ TickEnds \/ Signal \/ Drained

\* A loader is synchronous code, and the limit of the drain is a timer: both come.
StartSpec == StartInit /\ [][StartNext]_startVars /\ WF_startVars(Load) /\ WF_startVars(Drained)

-----------------------------------------------------------------------------
Domains == {"none", "given", "default", "issuer", "unchecked"}

StartTypeOK ==
    /\ env \in Environments
    /\ wired.source \in Domains /\ wired.reconciler \in Domains
    /\ tick \in BOOLEAN
    /\ submitted \subseteq [caller : {"nobody", "user", "admin"},
                            code : {"UNAUTHENTICATED", "FORBIDDEN", "CONSUMER_NOT_DEPLOYED", "AUDIT_UNAVAILABLE",
                                    "GIT_WRITER_UNCONFIGURED", "none"}]

\* No valid domain is declared: BASE_DOMAIN is invalid, or in production there is none and no issuer to derive it from.
DomainUnusable == env.domain = "bad" \/ (env.domain = "unset" /\ Production /\ env.issuer # "chart")

\* The parts of a process that ask resolveBaseDomain for it; the file source does not.
DomainValidated == SourceOf = "github" \/ env.kube # "unset" \/ (env.db = "ok" /\ env.app = "ok")

\* The reasons the comments of the loaders give for stopping a start.
StartRefused ==
    \/ \E v \in DOMAIN env \ {"issuer", "domain"} : env[v] = "bad"
    \/ env.auth = "oidc" /\ env.issuer \in {"unset", "bad"}
    \/ Production /\ (env.auth = "disabled" \/ env.source = "unset")
    \/ DomainValidated /\ DomainUnusable

Misconfigured == StartRefused \/ DomainUnusable

\* The process exits with a ConfigError only for a value that a loader checks, whichever loader meets it first: a
\* Secret that is not mounted yet, or no key for the GitHub App, never stops a start (config.ts 192-197, 231-235).
\* One that listens has valid values, with ONE exception: the file source takes its domain unchecked
\* (ssoAdapter.ts 216), and then no reconciler and no Kubernetes adapter works with that domain (EveryStartIsChecked
\* is the claim without the exception).
FailsFastAndOnlyThen ==
    /\ phase = "exited" => StartRefused
    /\ Listening => ~StartRefused
    /\ Listening /\ Misconfigured =>
         SourceOf = "file" /\ DomainUnusable /\ wired.reconciler = "none" /\ ~wired.kubeClient

\* A change that is accepted was submitted by an authenticated admin, and a reconciler of the same process follows
\* it: no combination of optional parts accepts a request that nothing would then move on (wiring.ts 85-98).
AcceptedIsWatched ==
    \A g \in submitted : g.code = "none" =>
        g.caller = "admin" /\ env.auth = "oidc" /\ env.write = "on" /\ wired.store /\ wired.reconciler # "none"

\* The edit of an accepted request is rebuilt by the reconciler with the domain it was built with (reconciler.ts
\* rebuilds from the base text), outside the case of Production with the file source (ProductionDomainDeclared).
RebuiltWithSameDomain ==
    (\E g \in submitted : g.code = "none") /\ ~(Production /\ SourceOf = "file") => wired.reconciler = wired.source

\* What the public health answer calls not configured refuses every submit, and what it calls configured is never
\* the reason of a refusal (health.ts 62-70 and ssoChanges.ts look at different values).
HealthIsHonest ==
    \A g \in submitted :
        /\ g.code = "none" => Health.gitWriter = "configured" /\ Health.auditStore = "configured"
        /\ g.code = "GIT_WRITER_UNCONFIGURED" => Health.gitWriter = "unconfigured"

\* A process exits for a value that a loader refuses and only then, and one that runs does what /health says and
\* finishes what it accepts.
StartupSound == FailsFastAndOnlyThen /\ AcceptedIsWatched /\ RebuiltWithSameDomain /\ HealthIsHonest

\* In production every part serves hosts of a declared domain (config.ts 109-112: a missing value is a ConfigError,
\* "silently falling back to local.beluga.internal on another environment would serve wrong hosts").
ProductionDomainDeclared == Production /\ Listening => wired.source # "default"

\* An invalid value is refused at the start, not at a request (config.ts 3, wiring.ts 3).
EveryStartIsChecked == Listening => ~Misconfigured

\* A signal ends the process even when a tick never settles: the drain is bounded (reconciler.ts 99-111).
ShutdownEnds == (phase = "draining") ~> (phase = "stopped")

=============================================================================
