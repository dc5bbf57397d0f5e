----------------------------- MODULE MCProgress -----------------------------
(* What must eventually happen outside the SSO change service, for TLC: small  *)
(* instances of the components with timers, retries or polling.  They share no *)
(* state, so one behaviour runs one of them (part), under the fairness its     *)
(* module states, and the others rest.                                         *)
EXTENDS Integers, Sequences, FiniteSets

CONSTANTS c1, c2, c3, o1, p1, p2, p3, r1, r2, Nil

VARIABLES
  part,
  call, inFlight, waiters,
  wall, activeCalls, running, decision, answer,
  file, latest, server, pool, current, fp, op, probing, ready, fresh,
  env, phase, wired, tick, submitted,
  now, signingKey, retired, cache, fetch, req, deniedAt, audited, told,
  decl, todo, job, pg, kc, report, revisions, crashes, manual,
  setting, oidc, page, view, mem, tab, http, idp, sessionGhost,
  form, wire, blob, records, banner, formGhost,
  loader, ed, copy

clientVars == <<call, inFlight, waiters>>
providerVars == <<wall, activeCalls, running, decision, answer>>
poolVars == <<file, latest, server, pool, current, fp, op, probing, ready, fresh>>
startVars == <<env, phase, wired, tick, submitted>>
authVars == <<now, signingKey, retired, cache, fetch, req, deniedAt, audited, told>>
deployVars == <<decl, todo, job, pg, kc, report, revisions, crashes, manual>>
sessionVars == <<setting, oidc, page, view, mem, tab, http, idp, sessionGhost>>
formVars == <<form, wire, blob, records, banner, formGhost>>
editorVars == <<loader, ed, copy>>
serverVars == <<clientVars, providerVars, poolVars, startVars, authVars, deployVars>>
webVars == <<sessionVars, formVars, editorVars>>

----------------------------------------------------------------------------
(* Instances *)

\* Three callers for one slot and one place in line.
Client == INSTANCE UpstreamHttpClient WITH
  Calls <- {c1, c2, c3}, MaxConcurrent <- 1, MaxQueued <- 1, HasTokenProvider <- FALSE

Provider == INSTANCE IsolatedProvider WITH
  Callers <- {c1, c2}, MaxConcurrentRuns <- 1, Required <- {"cpu"}, Optional <- {},
  MaxAge <- 1, Runs <- {r1, r2}, MaxClock <- 1

Recovery == INSTANCE StorePool WITH None <- Nil, Ops <- {o1}, Pools <- {p1, p2, p3}, MaxCa <- 2

Startup == INSTANCE ApiStartup WITH
  NodeEnvs <- {"production"}, Sources <- {"github"}, MaxBad <- 0

Auth == INSTANCE ApiAuth WITH
  Requests <- {c1, c2}, MaxKid <- 2, Subjects <- {"s1"},
  Tokens <- [kid : 1..2, flaw : {"none"}, exp : 0..4, sub : {"s1"}, item : {<<"/", "admins">>}],
  Cooldown <- 2, MaxAge <- 3, FetchTimeout <- 1, Tolerance <- 1, HasStore <- FALSE, DeniedInterval <- 2,
  MaxSubjects <- 1, MaxNow <- 4

\* A grant that is narrowed and given back, over two crashes and one grant by hand.
Roles == {"a", "b"}
Privilege(roles, privileges) ==
  [roles |-> roles, privileges |-> privileges, columnMask |-> <<>>, rowFilter |-> "none", allowUnmasked |-> FALSE]
Declared(grants) ==
  [roles |-> Roles, includes |-> [r \in Roles |-> IF r = "a" THEN {"b"} ELSE {}], groups |-> <<>>,
   entries |-> <<[resource |-> "public.orders", engine |-> "postgres", pii |-> FALSE,
                  sensitiveColumns |-> {}, grants |-> grants]>>,
   catalogGrants |-> {}, logins |-> {[name |-> "l", memberOf |-> {"a"}, database |-> "shop"]}]
Wide == Declared({Privilege({"b"}, {"select", "insert"})})
Narrow == Declared({Privilege({"b"}, {"select"}), Privilege({"a"}, {"update"})})

Reruns == INSTANCE PolicyDeploy WITH
  Names <- Roles, RoleNames <- Roles, Groups <- {}, Columns <- {}, Kinds <- {},
  Logins <- {"l"}, Databases <- {"shop"}, PgOf <- [n \in Roles \cup {"l"} |-> n],
  FoldOf <- [db \in {"shop"} |-> db], Declarations <- {Wide, Narrow},
  Present <- {{"public", "public.orders"}},
  MaxRevisions <- 1, MaxCrashes <- 2, MaxManual <- 0

Session == INSTANCE WebSession WITH
  MaxTokens <- 2, MaxTries <- 2, MaxAway <- 2, MaxReloads <- 0,
  Settings <- {[refresh |-> FALSE, endSession |-> FALSE, blocked |-> FALSE]}

Banner == INSTANCE WebSsoChange WITH ghost <- formGhost,
  Groups <- {}, Reasons <- {""}, MaxKeys <- 1, MaxBlobs <- 1, MaxForms <- 1,
  MaxPosts <- 1, WithBanner <- TRUE

Editor == INSTANCE WebEditor WITH
  Editors <- {"e1"}, Statements <- {"s1", "s2"}, MaxLazies <- 3, MaxCopies <- 2

ASSUME InstanceAssumption ==
  /\ Provider!ProviderAssumption /\ Recovery!PoolAssumption /\ Startup!StartAssumption /\ Auth!AuthAssumption
  /\ Reruns!NamesAssumption /\ Reruns!PgAssumption
  /\ Session!SessionAssumption /\ Banner!BoundAssumption /\ Editor!BoundAssumption

----------------------------------------------------------------------------
(* Specification *)

Init ==
  /\ part \in {"client", "provider", "recovery", "startup", "auth", "reruns", "session",
               "banner", "editor"}
  /\ Client!Init /\ Provider!ProviderInit /\ Recovery!PoolInit /\ Auth!AuthInit /\ Banner!Init /\ Editor!Init
  /\ IF part = "startup" THEN Startup!StartInit
     ELSE env = Nil /\ phase = Nil /\ wired = Nil /\ tick = FALSE /\ submitted = {}
  /\ Reruns!Init /\ (part # "reruns" => decl = Wide)
  /\ Session!SessionInit /\ oidc = Session!GoodSection

Next ==
  \/ /\ part = "client" /\ Client!Next
     /\ UNCHANGED <<part, providerVars, poolVars, startVars, authVars, deployVars, webVars>>
  \/ /\ part = "provider" /\ Provider!ProviderNext
     /\ UNCHANGED <<part, clientVars, poolVars, startVars, authVars, deployVars, webVars>>
  \/ /\ part = "recovery" /\ Recovery!PoolNext
     /\ UNCHANGED <<part, clientVars, providerVars, startVars, authVars, deployVars, webVars>>
  \/ /\ part = "startup" /\ Startup!StartNext
     /\ UNCHANGED <<part, clientVars, providerVars, poolVars, authVars, deployVars, webVars>>
  \/ /\ part = "auth" /\ Auth!AuthNext
     /\ UNCHANGED <<part, clientVars, providerVars, poolVars, startVars, deployVars, webVars>>
  \/ /\ part = "reruns" /\ Reruns!Next
     /\ UNCHANGED <<part, clientVars, providerVars, poolVars, startVars, authVars, webVars>>
  \/ /\ part = "session" /\ Session!SessionNext
     /\ UNCHANGED <<part, serverVars, formVars, editorVars>>
  \/ /\ part = "banner" /\ Banner!Next
     /\ UNCHANGED <<part, serverVars, sessionVars, editorVars>>
  \/ /\ part = "editor" /\ Editor!Next
     /\ UNCHANGED <<part, serverVars, sessionVars, formVars>>

\* What each module assumes, of the part that runs: timers fire, polls and probes
\* come again, what the browser or the process has begun on its own goes on.
Fairness ==
  /\ \A c \in {c1, c2, c3} :
       WF_clientVars(part = "client" /\ Client!TokenRead(c)) /\ WF_clientVars(part = "client" /\ Client!Timers(c))
  /\ \A c \in {c1, c2} : WF_providerVars(part = "provider" /\ Provider!Timer(c))
  /\ WF_poolVars(part = "recovery" /\ Recovery!Probe)
  /\ WF_poolVars(part = "recovery" /\ Recovery!ProbeEnds)
  /\ WF_poolVars(part = "recovery" /\ Recovery!CacheExpires)
  /\ WF_startVars(part = "startup" /\ Startup!Load) /\ WF_startVars(part = "startup" /\ Startup!Drained)
  /\ WF_authVars(part = "auth" /\ Auth!AuthTick) /\ WF_authVars(part = "auth" /\ Auth!FetchTimer)
  /\ \A r \in {c1, c2} : WF_authVars(part = "auth" /\ Auth!Continue(r))
  /\ WF_deployVars(part = "reruns" /\ (Reruns!NextStage \/ Reruns!RunStatement))
  /\ WF_sessionVars(part = "session" /\ Session!Boot) /\ WF_sessionVars(part = "session" /\ Session!Start)
  /\ WF_sessionVars(part = "session" /\ Session!Restored)
  /\ WF_sessionVars(part = "session" /\ Session!ClearDone)
  /\ WF_formVars(part = "banner" /\ Banner!PollTimer) /\ WF_formVars(part = "banner" /\ Banner!Fetch)
  /\ WF_editorVars(part = "editor" /\ Editor!Render("e1"))
  /\ WF_editorVars(part = "editor" /\ Editor!CopyTimer("e1"))
  /\ \A l \in {"shared", "e1"} :
       WF_editorVars(part = "editor" /\ \E n \in DOMAIN loader[l].lazies : Editor!Settle(l, n))

Spec == Init /\ [][Next]_<<part, serverVars, webVars>> /\ Fairness

----------------------------------------------------------------------------
(* Properties of the instances, each stated and explained in its module *)

\* Every call of the HTTP client is answered although the upstream never is obliged to
\* (http.ts: the deadline, the queue's timer, the drain's timer).
CallsAnswered == part = "client" => Client!AllAnswered

\* Every call of a decision is answered although the provider may never settle
\* (isolatedProvider.ts: the race with the timer).
DecisionsAnswered == part = "provider" => Provider!AllDecided

\* Once the CA file and the server agree for good, the store ends up on a pool that
\* trusts the server (ssoChangeStore.ts:311).
TrustRestored == part = "recovery" => Recovery!TrustRestored

\* A readiness of "ok" does not outlive the database it was about.
LossIsReported == part = "recovery" => Recovery!LossIsReported

\* A process told to stop stops, whatever the reconciler's tick was doing (index.ts).
ShutdownEnds == part = "startup" => Startup!ShutdownEnds

\* Every request is let in or refused although the issuer's key endpoint may hang.
RequestsAnswered == part = "auth" => Auth!RequestsAnswered

\* The deployment job, restarted after every crash, ends in success.
JobSucceeds == part = "reruns" => Reruns!JobSucceeds

\* A page that lost its token shows the login soon (AuthContext.tsx).
TokenlessSignsOut == part = "session" => Session!TokenlessSignsOut

\* Once the requests no longer change, the banner shows the open ones.
BannerCatchesUp == part = "banner" => Banner!BannerCatchesUp

\* The copy button's state clears (its timer is never lost to a newer click).
CopyStateClears == part = "editor" => Editor!CopyStateClears

\* Nobody waits for the editor's chunk for ever.
LoadingEnds == part = "editor" => Editor!LoadingEnds

----------------------------------------------------------------------------
(* What the run checks: the properties above, component by component *)

\* Whoever asks is answered: calls, decisions and requests although upstreams may hang, and
\* a shutdown although a tick is running.
AlwaysAnswered == CallsAnswered /\ DecisionsAnswered /\ RequestsAnswered /\ ShutdownEnds

\* What failed or fell behind recovers: trust in the database, readiness, the deployment job,
\* a page without a token, the banner, the copy button and the editor's chunk.
Recovers ==
  /\ TrustRestored /\ LossIsReported /\ JobSucceeds
  /\ TokenlessSignsOut /\ BannerCatchesUp /\ CopyStateClears /\ LoadingEnds
=============================================================================
