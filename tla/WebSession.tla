----------------------------- MODULE WebSession -----------------------------
(***************************************************************************)
(* The sign-in of the web console in one browser tab: the runtime          *)
(* configuration (config/loadConfig.ts, main.tsx), the session kept by     *)
(* AuthProvider (auth/AuthContext.tsx) on top of the OpenID Connect        *)
(* library (auth/authClient.ts), the sign-in screen                        *)
(* (auth/LoginScreen.tsx), the gate of App.tsx and the credentials and     *)
(* 401 handling of every API call (api/client.ts).                         *)
(*                                                                         *)
(* The library's UserManager, the identity provider, the API server and    *)
(* react-query's cache are external and modelled from how the code uses    *)
(* them.  A token is a number: the order in which it was issued.           *)
(***************************************************************************)
EXTENDS Naturals, FiniteSets

CONSTANTS
  MaxTokens,      \* tokens the identity provider issues (bound)
  MaxTries,       \* attempts of one query: the first and its 3 retries in the code
  MaxAway,        \* navigations to the identity provider (bound)
  MaxReloads,     \* page reloads by the user (bound)
  Settings        \* the providers and browsers considered, of AllSettings

\* refresh: does the provider give this public client refresh tokens?
\* endSession: does it have an end_session_endpoint?
\* blocked: does the browser block sessionStorage?
AllSettings == [refresh : BOOLEAN, endSession : BOOLEAN, blocked : BOOLEAN]

\* A provider that renews tokens and has no end_session_endpoint.
Renewing == {[refresh |-> TRUE, endSession |-> FALSE, blocked |-> FALSE]}

\* Assumed of the constants; the module that instantiates this one states it.
SessionAssumption ==
  /\ {MaxTokens, MaxTries, MaxAway, MaxReloads} \subseteq Nat
  /\ Settings \subseteq AllSettings

VARIABLES
  setting,      \* the provider and the browser
  oidc,         \* the `oidc` value of /config.json
  page,         \* "boot", "app", "config-error", or the provider's "login" / "logout" page
  view,         \* AuthState: status, expired, loggedOut
  mem,          \* what the page keeps in memory: lost with the page
  tab,          \* what survives a reload: the address and sessionStorage's logout flag
  http,         \* requests in flight and the query cache (lost with the page)
  idp,          \* the provider: is its own session alive, is the last code still unused
  sessionGhost  \* history: automatic logins since an act of the user, a fallback logout
                \* they have not undone, a failure since the last code

sessionVars == <<setting, oidc, page, view, mem, tab, http, idp, sessionGhost>>

---------------------------------------------------------------------------
(* Configuration *)

Absent == [present |-> FALSE]

BadConfigOk(o) ==
  \/ ~o.present \/ o.type = "null"
  \/ /\ o.type = "object"
     /\ o.issuer = "https"
     /\ {o.clientId, o.redirectPath, o.scope} \subseteq {"absent", "good"}

\* validateOidcConfig: an object with an https issuer; the other fields are
\* optional, and non-empty strings (a path, for redirectPath) when present.
ConfigOk(o) ==
  \/ ~o.present
  \/ /\ o.type = "object"
     /\ o.issuer = "https"
     /\ {o.clientId, o.redirectPath, o.scope} \subseteq {"absent", "good"}

AnyField == {"absent", "good", "empty"}
\* The `oidc` values /config.json may hold.
AllSections == {Absent} \cup
  [present : {TRUE}, type : {"object", "null", "array", "string"},
   issuer : {"https", "http", "not-a-url", "absent"},
   clientId : AnyField, redirectPath : AnyField, scope : AnyField]
GoodSection == [present |-> TRUE, type |-> "object", issuer |-> "https",
                clientId |-> "good", redirectPath |-> "absent", scope |-> "absent"]

---------------------------------------------------------------------------
(* State *)

DISABLED   == [status |-> "disabled",        expired |-> FALSE, loggedOut |-> FALSE]
LOADING    == [status |-> "loading",         expired |-> FALSE, loggedOut |-> FALSE]
SIGNED_OUT == [status |-> "unauthenticated", expired |-> FALSE, loggedOut |-> FALSE]
SIGNED_IN  == [status |-> "authenticated",   expired |-> FALSE, loggedOut |-> FALSE]
ErrorState == [status |-> "error",           expired |-> FALSE, loggedOut |-> FALSE]

\* token is tokenRef, stored the user in the library's in-memory store (0 is
\* none).  clears holds the sign-outs that wait for client.clear(), autoLogin
\* the LoginScreen's autoLoginStarted, running the start-up promise.
NewMem == [token |-> 0, stored |-> 0, started |-> FALSE, running |-> "no",
           renewing |-> FALSE, leaving |-> FALSE, autoLogin |-> FALSE, clears |-> {}]

NewHttp == [requests |-> {}, cache |-> {}]

SessionInit ==
  /\ setting \in Settings
  /\ oidc \in AllSections
  /\ page = "boot"
  /\ view = LOADING
  /\ mem = NewMem
  /\ tab = [url |-> "root", loggedOut |-> FALSE]
  /\ http = NewHttp
  /\ idp = [session |-> TRUE, code |-> "none", issued |-> 0, visits |-> 0, reloads |-> 0]
  /\ sessionGhost = [autos |-> 0, optedOut |-> FALSE, failed |-> FALSE]

\* `oidc ? createOidcAuthClient(oidc) : null`
HasClient == oidc.present /\ oidc.type # "null"

\* client.clear() works on the library's in-memory store only: its promise and
\* the sign-out after it settle before any timer, click or network answer.
Quiet == page = "app" /\ mem.clears = {}

\* queryClient.clear(): the cache is emptied and the queries in flight are
\* cancelled, so that their answers are dropped.
Cleared == [requests |-> {[r EXCEPT !.wanted = FALSE] : r \in http.requests}, cache |-> {}]

---------------------------------------------------------------------------
(* The two transitions every event goes through *)

ClearStoredLogout == [tab EXCEPT !.loggedOut = IF setting.blocked THEN @ ELSE FALSE]
HasStoredLogout == ~setting.blocked /\ tab.loggedOut

\* signedIn(user)
SignedIn(m, tk) ==
  /\ mem' = [m EXCEPT !.token = tk, !.autoLogin = FALSE]
  /\ view' = SIGNED_IN

BadSignedOut(m, expired, loggedOut) ==
  /\ mem' = [m EXCEPT !.token = 0]
  /\ http' = http
  /\ view' = [SIGNED_OUT EXCEPT !.expired = expired, !.loggedOut = loggedOut]

\* signedOut(expired, loggedOut)
SignedOut(m, expired, loggedOut) ==
  /\ mem' = [m EXCEPT !.token = 0]
  /\ http' = Cleared
  /\ view' = [SIGNED_OUT EXCEPT !.expired = expired, !.loggedOut = loggedOut]

---------------------------------------------------------------------------
(* Loading the page *)

\* main.tsx and the useState of AuthProvider: the configuration is loaded and
\* validated, then the first render decides between the gate and no gate.
Boot ==
  /\ page = "boot"
  /\ IF ConfigOk(oidc)
     THEN page' = "app" /\ view' = IF HasClient THEN LOADING ELSE DISABLED
     ELSE page' = "config-error" /\ UNCHANGED view
  /\ UNCHANGED <<setting, oidc, mem, tab, http, idp, sessionGhost>>

\* The start-up effect, which StrictMode runs twice: the first run starts the
\* exchange of the callback code, or the restore, and the second does nothing.
Start ==
  /\ Quiet /\ HasClient /\ ~mem.started
  /\ mem' = [mem EXCEPT !.started = TRUE,
                        !.running = IF tab.url = "callback" THEN "callback" ELSE "restore"]
  /\ UNCHANGED <<setting, oidc, page, view, tab, http, idp, sessionGhost>>

\* restore() settles: the in-memory store of a new page holds no user.
Restored ==
  /\ Quiet /\ mem.running = "restore"
  /\ mem' = [mem EXCEPT !.running = "done"]
  /\ view' = [SIGNED_OUT EXCEPT !.loggedOut = HasStoredLogout]
  /\ UNCHANGED <<setting, oidc, page, tab, http, idp, sessionGhost>>

\* The provider accepts a fresh code once; the user is stored and announced
\* (UserLoaded) before the promise resolves, both of which sign in.
Exchanged ==
  /\ idp.code = "fresh" /\ idp.issued < MaxTokens
  /\ idp' = [idp EXCEPT !.code = "used", !.issued = @ + 1]
  /\ SignedIn([mem EXCEPT !.running = "done", !.stored = idp.issued + 1], idp.issued + 1)
  /\ tab' = [ClearStoredLogout EXCEPT !.url = "root"]
  /\ UNCHANGED sessionGhost

\* A used code and an error of the provider are refused, and the exchange of a
\* fresh code fails with the token endpoint; nobody presents that code again.
ExchangeFails ==
  /\ idp' = [idp EXCEPT !.code = IF @ = "fresh" THEN "used" ELSE @]
  /\ mem' = [mem EXCEPT !.running = "done"]
  /\ view' = ErrorState
  /\ tab' = [tab EXCEPT !.url = "root"]
  /\ sessionGhost' = [sessionGhost EXCEPT !.failed = @ \/ idp.code = "fresh"]

\* handleCallback settles.  The address is replaced by "/" either way.
CallbackDone ==
  /\ Quiet /\ mem.running = "callback"
  /\ Exchanged \/ ExchangeFails
  /\ UNCHANGED <<setting, oidc, page, http>>

\* The user reloads the page: memory is gone, the tab's storage and address stay.
\* A reload while the code is being exchanged spends the code.
Reload ==
  /\ Quiet \/ page = "config-error"
  /\ idp.reloads < MaxReloads
  /\ page' = "boot" /\ view' = LOADING /\ mem' = NewMem /\ http' = NewHttp
  /\ idp' = [idp EXCEPT !.reloads = @ + 1,
                        !.code = IF mem.running = "callback" THEN "used" ELSE @]
  /\ sessionGhost' = [sessionGhost EXCEPT !.autos = 0, !.failed = @ \/ mem.running = "callback"]
  /\ UNCHANGED <<setting, oidc, tab>>

---------------------------------------------------------------------------
(* Signing in *)

\* login(): LOADING, then signinRedirect navigates away or fails.
Login(g) ==
  /\ \/ /\ idp.visits < MaxAway
        /\ page' = "login" /\ view' = LOADING
        /\ idp' = [idp EXCEPT !.visits = @ + 1]
        /\ sessionGhost' = g
     \/ view' = ErrorState /\ sessionGhost' = [g EXCEPT !.failed = TRUE] /\ UNCHANGED <<page, idp>>
  /\ tab' = ClearStoredLogout
  /\ UNCHANGED <<setting, oidc, http>>

\* The effect of LoginScreen: it signs in by itself once, on a first visit.
AutoLogin ==
  /\ Quiet /\ view.status = "unauthenticated"
  /\ ~view.expired /\ ~view.loggedOut /\ ~mem.autoLogin
  /\ mem' = [mem EXCEPT !.autoLogin = TRUE]
  /\ Login([sessionGhost EXCEPT !.autos = @ + 1])

\* The sign-in button, shown only after an end of session or an error.
ManualLogin ==
  /\ Quiet
  /\ view.status = "error" \/ (view.status = "unauthenticated" /\ (view.expired \/ view.loggedOut))
  /\ UNCHANGED mem
  /\ Login([sessionGhost EXCEPT !.autos = 0, !.optedOut = FALSE])

\* The provider sends the tab back to the callback address: at once when its own
\* session is alive, otherwise after the user typed a password, or with an error.
IdpReturns ==
  /\ page = "login"
  /\ \/ /\ idp' = [idp EXCEPT !.session = TRUE, !.code = "fresh"]
        /\ sessionGhost' = [autos    |-> IF idp.session THEN sessionGhost.autos ELSE 0,
                            optedOut |-> idp.session /\ sessionGhost.optedOut,
                            failed   |-> FALSE]
     \/ idp' = [idp EXCEPT !.code = "denied"] /\ sessionGhost' = [sessionGhost EXCEPT !.failed = TRUE]
  /\ page' = "boot" /\ view' = LOADING /\ mem' = NewMem /\ http' = NewHttp
  /\ tab' = [tab EXCEPT !.url = "callback"]
  /\ UNCHANGED <<setting, oidc>>

---------------------------------------------------------------------------
(* Using the session *)

\* A view starts a query; App renders views only when signed in or without login.
Send ==
  /\ Quiet /\ view.status \in {"authenticated", "disabled"}
  /\ Cardinality(http.requests) < 2
  /\ \E kind \in {"query", "mutation"} :
       http' = [http EXCEPT !.requests = @ \cup
                  {[kind |-> kind, token |-> mem.token, tries |-> 1, wanted |-> TRUE]}]
  /\ UNCHANGED <<setting, oidc, page, view, mem, tab, idp, sessionGhost>>

\* onUnauthorized: nothing when no token is in use, otherwise the token is
\* dropped at once and the sign-out waits for client.clear().
OnUnauthorized ==
  mem' = IF mem.token = 0 THEN mem
         ELSE [mem EXCEPT !.token = 0, !.clears = @ \cup {[expired |-> TRUE, loggedOut |-> FALSE]}]

\* shouldRetryQuery
Retries(r, answer) == answer \notin {401, 403} /\ r.tries < MaxTries

\* An answer arrives.  A success goes into the cache when the query is still
\* wanted; a failed query is sent again with the token of that moment.
ApiAnswers ==
  /\ Quiet
  /\ \E r \in http.requests, answer \in {200, 401, 403, 503} :
       LET rest == http.requests \ {r} IN
       /\ \/ /\ answer = 200
             /\ http' = [requests |-> rest,
                         cache |-> IF r.wanted /\ r.kind = "query" THEN http.cache \cup {r.token}
                                   ELSE http.cache]
          \/ /\ answer # 200
             /\ http' = [http EXCEPT !.requests =
                  IF r.kind = "query" /\ r.wanted /\ Retries(r, answer)
                  THEN rest \cup {[r EXCEPT !.tries = @ + 1, !.token = mem.token]} ELSE rest]
       /\ IF answer = 401 /\ HasClient THEN OnUnauthorized ELSE UNCHANGED mem
  /\ UNCHANGED <<setting, oidc, page, view, tab, idp, sessionGhost>>

\* client.clear() settles, with or without an error: `finally` signs out.
\* A fallback logout leaves the user opted out until they sign in themselves.
ClearDone ==
  \E c \in mem.clears, removed \in BOOLEAN :
    /\ page = "app"
    /\ SignedOut([mem EXCEPT !.clears = @ \ {c}, !.stored = IF removed THEN 0 ELSE @],
                 c.expired, c.loggedOut)
    /\ sessionGhost' = [sessionGhost EXCEPT !.optedOut = @ \/ c.loggedOut]
    /\ UNCHANGED <<setting, oidc, page, tab, idp>>

\* The library's timers: shortly before expiry the refresh token, if there is
\* one, is used; at expiry the session is lost.
Expiring ==
  /\ Quiet /\ mem.stored # 0 /\ setting.refresh /\ ~mem.renewing
  /\ mem' = [mem EXCEPT !.renewing = TRUE]
  /\ UNCHANGED <<setting, oidc, page, view, tab, http, idp, sessionGhost>>

RenewDone ==
  /\ Quiet /\ mem.renewing
  /\ \/ /\ idp.issued < MaxTokens
        /\ idp' = [idp EXCEPT !.issued = @ + 1]
        /\ SignedIn([mem EXCEPT !.renewing = FALSE, !.stored = idp.issued + 1], idp.issued + 1)
        /\ tab' = ClearStoredLogout
     \/ mem' = [mem EXCEPT !.renewing = FALSE] /\ UNCHANGED <<view, tab, idp>>
  /\ UNCHANGED <<setting, oidc, page, http, sessionGhost>>

Expired ==
  /\ Quiet /\ mem.stored # 0
  /\ mem' = [mem EXCEPT !.clears = @ \cup {[expired |-> TRUE, loggedOut |-> FALSE]}]
  /\ UNCHANGED <<setting, oidc, page, view, tab, http, idp, sessionGhost>>

---------------------------------------------------------------------------
(* Signing out *)

Logout ==
  /\ Quiet /\ view.status = "authenticated" /\ ~mem.leaving
  /\ mem' = [mem EXCEPT !.token = 0, !.leaving = TRUE]
  /\ http' = Cleared
  /\ sessionGhost' = [sessionGhost EXCEPT !.autos = 0]
  /\ UNCHANGED <<setting, oidc, page, view, tab, idp>>

\* signoutRedirect drops the stored user and navigates to the provider, or fails
\* and the console signs out locally, remembering it in sessionStorage.
LogoutDone ==
  /\ Quiet /\ mem.leaving
  /\ \/ /\ setting.endSession
        /\ page' = "logout"
        /\ mem' = [mem EXCEPT !.stored = 0]
        /\ UNCHANGED tab
     \/ /\ mem' = [mem EXCEPT !.leaving = FALSE, !.stored = 0,
                              !.clears = @ \cup {[expired |-> FALSE, loggedOut |-> TRUE]}]
        /\ tab' = [tab EXCEPT !.loggedOut = ~setting.blocked]
        /\ UNCHANGED page
  /\ UNCHANGED <<setting, oidc, view, http, idp, sessionGhost>>

IdpLoggedOut ==
  /\ page = "logout"
  /\ page' = "boot" /\ view' = LOADING /\ mem' = NewMem /\ http' = NewHttp
  /\ tab' = [tab EXCEPT !.url = "root"]
  /\ idp' = [idp EXCEPT !.session = FALSE]
  /\ UNCHANGED <<setting, oidc, sessionGhost>>

SessionNext ==
  \/ Boot \/ Start \/ Restored \/ CallbackDone \/ Reload
  \/ AutoLogin \/ ManualLogin \/ IdpReturns
  \/ Send \/ ApiAnswers \/ ClearDone \/ Expiring \/ RenewDone \/ Expired
  \/ Logout \/ LogoutDone \/ IdpLoggedOut

\* In-memory promises settle, and so does the start-up of a page that stays.
SessionFairness ==
  WF_sessionVars(Boot) /\ WF_sessionVars(Start) /\ WF_sessionVars(Restored) /\ WF_sessionVars(ClearDone)

SessionSpec == SessionInit /\ [][SessionNext]_sessionVars /\ SessionFairness

---------------------------------------------------------------------------
(* Properties *)

\* "a typo must fail loudly rather than silently fall back to login disabled"
\* (loadConfig.ts:27): a configuration that mentions oidc never opens the
\* console without its gate.
ConfiguredIsGated == oidc.present => view.status # "disabled"

\* "a signed-out screen never shows stale data" (AuthContext.tsx:89): whenever
\* nobody is signed in, nothing fetched with a token is left in the cache, and
\* no answer still on its way can put it back.
NoStaleData ==
  view.status = "unauthenticated" =>
    /\ http.cache = {}
    /\ \A r \in http.requests : ~r.wanted

\* D-MLOGIN-3 (AuthContext.tsx:101): whatever the API answers, the console goes
\* to the identity provider by itself at most once between two acts of the user.
NoLoginLoop == sessionGhost.autos <= 1

\* The error screen reports a failure of the provider or an exchange the user
\* interrupted, never a code the console itself presented twice
\* (AuthContext.tsx:119, :127).
ErrorIsReal == view.status = "error" => sessionGhost.failed

\* A user whose logout fell back to a local one is signed in again only after
\* they ask for it, reloads included (App.auth.test.tsx:161, :178).
OnlyManualLogin == sessionGhost.optedOut => view.status # "authenticated"

\* The console is gated, shows nothing of a session that ended, and neither loops
\* through the provider nor, unless a renewal was under way or the browser cannot
\* remember the logout, signs in by itself after one (AuthContext.tsx).
SessionSound ==
  /\ ConfiguredIsGated /\ NoStaleData /\ NoLoginLoop /\ ErrorIsReal
  /\ ~setting.refresh /\ ~setting.blocked => OnlyManualLogin

\* A console that dropped its token because the API refused it or it expired
\* does not keep its views open without credentials: it reaches the sign-in
\* screen even when dropping the stored user fails (AuthContext.tsx:107).
TokenlessSignsOut ==
  (view.status = "authenticated" /\ mem.token = 0 /\ ~mem.leaving)
    ~> (view.status # "authenticated" \/ mem.token # 0 \/ page # "app")
=============================================================================
