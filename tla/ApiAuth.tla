------------------------------ MODULE ApiAuth ------------------------------
(***************************************************************************)
(* Bearer authentication of the Domain API: auth/middleware.ts,            *)
(* auth/oidc.ts, and the group gate with its audit of refusals in          *)
(* routes/ssoChanges.ts.  The key cache of jose (createRemoteJWKSet) is    *)
(* external, modelled from the options the code gives it: keys are         *)
(* fetched when there are none or they are too old, once more for an       *)
(* unknown key unless the last fetch is within the cooldown, and           *)
(* concurrent callers share the fetch under way.  The issuer rotates its   *)
(* keys, hangs and fails at any time.                                      *)
(***************************************************************************)
EXTENDS Naturals, Sequences, FiniteSets

CONSTANTS
    Requests,     \* requests the server handles at the same time
    MaxKid,       \* keys of the issuer are 1..MaxKid, in the order of rotation
    \* What requests may present: the key a token names, what is wrong with it ("none", "size" over MAX_TOKEN_LENGTH,
    \* "alg" not RS256, "forged" a signature that the key did not make, "claims" another issuer or audience or no sub,
    \* "typ" an ID or refresh token), its expiry, and an entry of the groups claim as a sequence of marks.
    Tokens,
    Subjects,     \* the sub claims
    Cooldown, MaxAge, FetchTimeout, Tolerance,
    HasStore,     \* is a change store configured: without one no refusal leaves a record
    DeniedInterval, MaxSubjects,  \* DENIED_AUDIT_INTERVAL_MS, DENIED_AUDIT_MAX_SUBJECTS
    MaxNow        \* bound on the clock

Kids == 1..MaxKid

\* Assumed of the constants; the module that instantiates this one states it.
AuthAssumption ==
       /\ MaxKid \in Nat \ {0} /\ MaxNow \in Nat
       /\ Cooldown \in Nat \ {0} /\ MaxAge \in Nat /\ FetchTimeout \in Nat /\ Tolerance \in Nat
       /\ HasStore \in BOOLEAN /\ DeniedInterval \in Nat /\ MaxSubjects \in Nat \ {0}
       /\ 2 * FetchTimeout <= MaxNow
       /\ Tokens \subseteq [kid : Kids, flaw : STRING, exp : Nat, sub : Subjects, item : Seq({"/", "admins", "x"})]

VARIABLES
    now,         \* the clock
    signingKey,  \* the key the issuer signs with and publishes
    retired,     \* when each earlier key was withdrawn
    cache,       \* {} or the one fetched key set and when it arrived
    fetch,       \* {} or the one fetch under way: since when, and the keys the issuer answered with, if it has
    req,         \* the token each request waits with, and for which of the two fetches
    deniedAt,    \* the map of the gate: subject -> time of the last audited refusal
    audited,     \* when a refusal of a subject was last sent to the audit store
    told         \* the answers of the last step

authVars == <<now, signingKey, retired, cache, fetch, req, deniedAt, audited, told>>

NotYet == MaxNow + 1

\* Bound: late enough for two fetches of a request to time out before the clock stops.
LastArrival == MaxNow - 2 * FetchTimeout

\* normalizeGroups of one entry: a leading slash is dropped, what is empty or still has one is not a group.
Normalize(item) ==
    LET name == IF item # <<>> /\ Head(item) = "/" THEN Tail(item) ELSE item
    IN  IF name = <<>> \/ \E i \in DOMAIN name : name[i] = "/" THEN {} ELSE {name}

Admins == <<"admins">>

AuthInit ==
    /\ now = 0
    /\ signingKey = 1
    /\ retired = [k \in Kids |-> NotYet]
    /\ cache = {}
    /\ fetch = {}
    /\ req = [r \in Requests |-> {}]
    /\ deniedAt = [s \in {} |-> 0]
    /\ audited = [s \in Subjects |-> NotYet]
    /\ told = {}

Throttled(sub) == sub \in DOMAIN deniedAt /\ now - deniedAt[sub] < DeniedInterval

\* auditDenied: never awaited; the map is emptied when it is full.
AuditDenied(sub) ==
    IF ~HasStore \/ Throttled(sub) THEN UNCHANGED <<deniedAt, audited>>
    ELSE LET kept == IF Cardinality(DOMAIN deniedAt) >= MaxSubjects THEN {} ELSE DOMAIN deniedAt
         IN  /\ deniedAt' = [s \in kept \cup {sub} |-> IF s = sub THEN now ELSE deniedAt[s]]
             /\ audited' = [audited EXCEPT ![sub] = now]

\* The rest of jwtVerify and of verify() once the key is known, then adminGate of a write route.
Verdict(token) ==
    IF token.flaw # "none" \/ token.exp + Tolerance <= now THEN "401"
    ELSE IF Admins \notin Normalize(token.item) THEN "403" ELSE "200"

\* The request ends with this code; `failed`: the fetch that it waited for failed.
Answer(r, token, code, failed) ==
    /\ req' = [req EXCEPT ![r] = {}]
    /\ told' = {[token |-> token, code |-> code, failed |-> failed]}
    /\ IF code = "403" THEN AuditDenied(token.sub) ELSE UNCHANGED <<deniedAt, audited>>

\* The request waits for the fetch under way, or starts one.
Wait(r, token, round) ==
    /\ req' = [req EXCEPT ![r] = {[token |-> token, round |-> round, ended |-> "no"]}]
    /\ fetch' = IF fetch = {} THEN {[since |-> now, kid |-> {}]} ELSE fetch
    /\ told' = {}
    /\ UNCHANGED <<deniedAt, audited>>

KeysFresh == \E c \in cache : now < c.at + MaxAge

BadCooling == cache # {}

Cooling == \E c \in cache : now < c.at + Cooldown

\* isInvalidTokenError and the middleware: what is on the list is 401, everything else 503.
MapError(error) == IF error = "ERR_JWKS_NO_MATCHING_KEY" THEN "401" ELSE "503"

\* The key is looked up in the cached set after the first or the second fetch (or after none).
LookUp(r, token, round) ==
    IF \E c \in cache : c.kid = token.kid
    THEN Answer(r, token, Verdict(token), FALSE) /\ UNCHANGED fetch
    ELSE IF round = "first" /\ ~Cooling
    THEN Wait(r, token, "second")
    ELSE Answer(r, token, MapError("ERR_JWKS_NO_MATCHING_KEY"), FALSE) /\ UNCHANGED fetch

\* A request arrives.  A token over the size limit or with another algorithm is refused before any key is asked for.
Arrive(r) ==
    /\ req[r] = {}
    /\ now <= LastArrival
    /\ \E token \in Tokens :
          /\ token.kid <= signingKey
          /\ token.exp \in now..(now + 1)  \* bound
          /\ IF token.flaw \in {"size", "alg"} THEN Answer(r, token, "401", FALSE) /\ UNCHANGED fetch
             ELSE IF ~KeysFresh THEN Wait(r, token, "first")
             ELSE LookUp(r, token, "first")
    /\ UNCHANGED <<now, signingKey, retired, cache>>

\* The issuer answers the fetch with the key that it publishes at that time; the answer travels.
Serve ==
    /\ \E f \in fetch : f.kid = {} /\ fetch' = {[f EXCEPT !.kid = {signingKey}]}
    /\ told' = {}
    /\ UNCHANGED <<now, signingKey, retired, cache, req, deniedAt, audited>>

Waiting == {r \in Requests : \E w \in req[r] : w.ended = "no"}

\* The fetch ends: every request that waits for it goes on, one after the other.
EndFetch(result) ==
    /\ fetch' = {}
    /\ req' = [r \in Requests |-> IF r \in Waiting THEN {[w EXCEPT !.ended = result] : w \in req[r]} ELSE req[r]]
    /\ told' = {}
    /\ UNCHANGED <<now, signingKey, retired, deniedAt, audited>>

Received == \E f \in fetch : \E k \in f.kid : cache' = {[kid |-> k, at |-> now]} /\ EndFetch("ok")

\* A network error or an answer that is not a key set.
FetchFails == fetch # {} /\ EndFetch("failed") /\ UNCHANGED cache

BadFetchTimer == FALSE /\ UNCHANGED authVars

\* jwksTimeoutMs.
FetchTimer ==
    /\ \E f \in fetch : now >= f.since + FetchTimeout
    /\ EndFetch("failed")
    /\ UNCHANGED cache

\* The continuation of a request whose fetch has ended.
Continue(r) ==
    /\ \E w \in req[r] :
          \/ w.ended = "ok" /\ LookUp(r, w.token, w.round)
          \/ w.ended = "failed" /\ Answer(r, w.token, MapError("ERR_JWKS_TIMEOUT"), TRUE) /\ UNCHANGED fetch
    /\ UNCHANGED <<now, signingKey, retired, cache>>

\* The issuer replaces its key: tokens signed by the earlier one must stop working.
Rotate ==
    /\ signingKey < MaxKid
    /\ signingKey' = signingKey + 1
    /\ retired' = [retired EXCEPT ![signingKey] = now]
    /\ told' = {}
    /\ UNCHANGED <<now, cache, fetch, req, deniedAt, audited>>

\* Time passes; continuations run, and timers fire, as soon as they can.
AuthTick ==
    /\ now < MaxNow
    /\ \A r \in Requests : \A w \in req[r] : w.ended = "no"
    /\ \A f \in fetch : now < f.since + FetchTimeout
    /\ now' = now + 1
    /\ told' = {}
    /\ UNCHANGED <<signingKey, retired, cache, fetch, req, deniedAt, audited>>

AuthNext ==
    \/ \E r \in Requests : Arrive(r) \/ Continue(r)
    \/ Serve \/ Received \/ FetchFails \/ FetchTimer \/ Rotate \/ AuthTick

\* The issuer may hang: only the clock, the timer and the continuations are certain to move.
AuthSpec ==
    /\ AuthInit /\ [][AuthNext]_authVars
    /\ WF_authVars(AuthTick) /\ WF_authVars(FetchTimer) /\ \A r \in Requests : WF_authVars(Continue(r))

-----------------------------------------------------------------------------
Genuine(token) == token.flaw = "none" /\ now < token.exp + Tolerance

\* Who is admitted, or known well enough to be told 403, holds a token that the issuer signed for this API, that had
\* not expired when the keys at last arrived, and whose key was withdrawn no longer ago than a key set is kept
\* (oidc.ts 93-108).
AdmittedIsGenuine ==
    \A g \in told : g.code \in {"200", "403"} =>
        /\ Genuine(g.token)
        /\ retired[g.token.kid] # NotYet => now <= retired[g.token.kid] + MaxAge + FetchTimeout

\* Only a request that waited for a fetch that failed is told 503, and no such request is told that its token is
\* bad (oidc.ts 38-40, middleware.ts 36-46).
OutageIsUnavailable == \A g \in told : (g.code = "503") <=> g.failed

\* Exactly a member of the top-level group is admitted to a write: neither /x/admins nor //admins is (oidc.ts 54-57).
AdminIsTopLevel ==
    \A g \in told : g.code = "200" => g.token.item \in {<<"admins">>, <<"/", "admins">>}

\* After a rotation a genuine token is refused only within the cooldown of the last fetch (oidc.ts 87).
RefusalEndsWithCooldown ==
    \A g \in told : g.code = "401" /\ Genuine(g.token) /\ g.token.kid = signingKey =>
        \E c \in cache : now < c.at + Cooldown

\* Where there is a store, a refusal of a subject was sent to it now, or another less than the interval ago
\* (ssoChanges.ts 205-216).
DeniedIsAudited ==
    \A g \in told : g.code = "403" /\ HasStore =>
        /\ audited[g.token.sub] # NotYet
        /\ now - audited[g.token.sub] < DeniedInterval \/ audited[g.token.sub] = now

\* Sign-in at the API: genuine tokens in, everything else out, an outage told apart from a bad token, and refusals on
\* record (oidc.ts, middleware.ts, ssoChanges.ts).
AuthSound ==
    /\ AdmittedIsGenuine /\ OutageIsUnavailable /\ AdminIsTopLevel
    /\ RefusalEndsWithCooldown /\ DeniedIsAudited

\* "only errors that prove the *token* is bad map to 401" (oidc.ts 38).
RefusedIsBad == \A g \in told : g.code = "401" => ~(Genuine(g.token) /\ g.token.kid = signingKey)

\* A request is answered although the issuer hangs: the fetch has a timeout of its own.
RequestsAnswered == \A r \in Requests : (req[r] # {}) ~> (req[r] = {})
=============================================================================
