---------------------------- MODULE GithubTransport ----------------------------
(***************************************************************************)
(* How GithubAppClient (githubApp.ts) talks to GitHub: every call carries  *)
(* an installation token that all callers share, a missing token is minted *)
(* once for everybody who waits for it, a 401 drops the token and tries    *)
(* once more, a rate-limit answer pauses the whole client.  The calls of   *)
(* one createChangePr run under a common deadline.  Time is a clock, and   *)
(* the timers of the client are punctual: it does not pass an expiry.      *)
(***************************************************************************)
EXTENDS Integers, FiniteSets

CONSTANTS
  Contexts,        \* async contexts that use the client
  Writers,         \* the ones that run createChangePr (under a deadline)
  RequestTimeout,  \* timeoutMs of one request
  Budget,          \* createDeadlineMs of one createChangePr
  MinBackoff,      \* DEFAULT_BACKOFF_MS
  BackoffLimit,    \* MAX_BACKOFF_MS
  TokenLife,       \* from the mint to refreshAt
  MaxInstant,      \* bound: the clock
  MaxTokens        \* bound: tokens GitHub hands out

\* Assumed of the constants; the module that instantiates this one states it.
TransportAssumption ==
  /\ IsFiniteSet(Contexts) /\ Writers \subseteq Contexts
  /\ {RequestTimeout, Budget, MinBackoff, TokenLife} \subseteq Nat \ {0}
  /\ BackoffLimit \in Nat /\ MinBackoff <= BackoffLimit
  /\ MaxInstant \in Nat /\ MaxTokens \in Nat

VARIABLES
  instant,      \* the clock
  call,         \* what each caller is doing
  token,        \* the shared token: its number (0 for none) and refreshAt
  mint,         \* the abort time of the mint in flight, or NoMint
  pausedUntil,  \* retryAt
  issued,       \* number of tokens GitHub handed out
  revoked,      \* tokens GitHub no longer accepts
  dirty,        \* callers during whose call a token was revoked (history)
  limited,      \* latest rate-limit answer, and the latest time one asked for (history)
  refused       \* callers whose call ended with a 401 (history)

clientState == <<call, token, mint, pausedUntil>>
githubState == <<issued, revoked>>
transportHistory == <<dirty, limited, refused>>
transportVars == <<instant, clientState, githubState, transportHistory>>

NoMint     == -1
NoToken    == [number |-> 0, refreshAt |-> 0]
Infinity   == MaxInstant + Budget + 1
Resting    == [at |-> "idle", bearer |-> 0, abortAt |-> 0, deadline |-> Infinity,
               retried |-> FALSE, began |-> 0]
CallPhases == {"idle", "minting", "ready", "sent", "more"}

TransportTypeOK ==
  /\ instant \in 0..MaxInstant
  /\ call \in [Contexts -> [at : CallPhases, bearer : 0..MaxTokens,
                            abortAt : 0..(MaxInstant + RequestTimeout),
                            deadline : 0..Infinity, retried : BOOLEAN, began : 0..MaxInstant]]
  /\ token \in [number : 0..MaxTokens, refreshAt : 0..(MaxInstant + TokenLife)]
  /\ mint \in {NoMint} \cup 0..(MaxInstant + RequestTimeout)
  /\ pausedUntil \in 0..(MaxInstant + BackoffLimit)
  /\ issued \in 0..MaxTokens /\ revoked \subseteq 1..issued
  /\ dirty \subseteq Contexts /\ refused \subseteq Contexts
  /\ limited \in [at : Int, until : Int]

TransportInit ==
  /\ instant = 0
  /\ call = [c \in Contexts |-> Resting]
  /\ token = NoToken /\ mint = NoMint /\ pausedUntil = 0
  /\ issued = 0 /\ revoked = {}
  /\ dirty = {} /\ refused = {} /\ limited = [at |-> -MinBackoff, until |-> 0]

Earlier(a, b) == IF a < b THEN a ELSE b
Later(a, b)   == IF a < b THEN b ELSE a

-------------------------------------------------------------------------------
(* send *)

(* send goes out unless the client is paused or the deadline of its context *)
(* has passed.                                                              *)
MaySend(d) == instant >= pausedUntil /\ instant < d

(* AbortSignal.timeout(min(timeoutMs, remaining)) *)
AbortAt(d) == instant + Earlier(RequestTimeout, d - instant)

(* retryAt after a rate-limit answer that names the instant until (0: none). *)
Pause(until) == Earlier(Later(until, instant + MinBackoff), instant + BackoffLimit)

(* The headers name no usable instant, one already past, or a far one. *)
ResetTimes == {0, instant - 1, instant + BackoffLimit}

RateLimited(until) ==
  /\ pausedUntil' = Pause(until)
  /\ limited' = [at |-> instant,
                 until |-> Later(limited.until, Earlier(until, instant + BackoffLimit))]

-------------------------------------------------------------------------------
(* installationToken *)

(* Where caller c is once it has asked for a token: it has the shared one,  *)
(* waits for the mint in flight, or starts a mint under its own deadline,   *)
(* which fails at once when send may not go out.                            *)
Acquire(c, began, deadline, retried, tok) ==
  LET With(at, bearer) == [at |-> at, bearer |-> bearer, abortAt |-> 0, deadline |-> deadline,
                           retried |-> retried, began |-> began] IN
  \/ /\ tok # NoToken /\ instant < tok.refreshAt
     /\ call' = [call EXCEPT ![c] = With("ready", tok.number)]
     /\ UNCHANGED mint
  \/ /\ tok = NoToken \/ instant >= tok.refreshAt
     /\ mint # NoMint
     /\ call' = [call EXCEPT ![c] = With("minting", 0)]
     /\ UNCHANGED mint
  \/ /\ tok = NoToken \/ instant >= tok.refreshAt
     /\ mint = NoMint
     /\ IF MaySend(deadline)
        THEN /\ mint' = AbortAt(deadline)
             /\ call' = [call EXCEPT ![c] = With("minting", 0)]
        ELSE /\ call' = [call EXCEPT ![c] = Resting]
             /\ UNCHANGED mint

(* A call outside createChangePr, or the first of one. *)
Begin(c) ==
  /\ call[c].at = "idle"
  /\ Acquire(c, instant, IF c \in Writers THEN instant + Budget ELSE Infinity, FALSE, token)
  /\ dirty' = dirty \ {c} /\ refused' = refused \ {c}
  /\ UNCHANGED <<instant, token, pausedUntil, githubState, limited>>

(* The next call of a createChangePr, or its end. *)
NextCall(c) ==
  /\ call[c].at = "more"
  /\ \/ /\ Acquire(c, instant, call[c].deadline, FALSE, token)
        /\ dirty' = dirty \ {c}
     \/ /\ call' = [call EXCEPT ![c] = Resting]
        /\ UNCHANGED <<mint, dirty>>
  /\ UNCHANGED <<instant, token, pausedUntil, githubState, limited, refused>>

AwaitingMint == {c \in Contexts : call[c].at = "minting"}

(* The mint fails: everybody who waits for it gets its error. *)
MintFails ==
  /\ mint' = NoMint
  /\ call' = [c \in Contexts |-> IF c \in AwaitingMint THEN Resting ELSE call[c]]
  /\ UNCHANGED token

(* GitHub answers the mint: with a token, a rate limit, or anything else. *)
MintAnswer ==
  /\ mint # NoMint
  /\ \/ /\ issued < MaxTokens
        /\ issued' = issued + 1
        /\ token' = [number |-> issued', refreshAt |-> instant + TokenLife]
        /\ mint' = NoMint
        /\ call' = [c \in Contexts |->
                      IF c \in AwaitingMint THEN [call[c] EXCEPT !.at = "ready", !.bearer = issued']
                                      ELSE call[c]]
        /\ UNCHANGED <<pausedUntil, limited>>
     \/ /\ \E until \in ResetTimes : RateLimited(until)
        /\ MintFails
        /\ UNCHANGED issued
     \/ MintFails /\ UNCHANGED <<issued, pausedUntil, limited>>
  /\ UNCHANGED <<instant, revoked, dirty, refused>>

MintTimer ==
  /\ mint = instant
  /\ MintFails
  /\ UNCHANGED <<instant, pausedUntil, githubState, transportHistory>>

-------------------------------------------------------------------------------
(* api *)

(* The continuation after the token: by now the client may be paused or the *)
(* deadline over.                                                           *)
SendCall(c) ==
  /\ call[c].at = "ready"
  /\ call' = IF MaySend(call[c].deadline)
             THEN [call EXCEPT ![c].at = "sent", ![c].abortAt = AbortAt(call[c].deadline)]
             ELSE [call EXCEPT ![c] = Resting]
  /\ UNCHANGED <<instant, token, mint, pausedUntil, githubState, transportHistory>>

(* What a caller does after a usable answer. *)
Replied(c) == [call EXCEPT ![c] = IF c \in Writers THEN [@ EXCEPT !.at = "more"] ELSE Resting]

(* Mutant: the token stays cached after a 401. *)
BadUnauthorized(c) ==
  IF call[c].retried
  THEN call' = [call EXCEPT ![c] = Resting] /\ refused' = refused \cup {c} /\ UNCHANGED <<token, mint>>
  ELSE Acquire(c, call[c].began, call[c].deadline, TRUE, token) /\ UNCHANGED <<token, refused>>

(* A 401: the first one drops the shared token, whoever minted it since,    *)
(* and asks for another; the second one is the answer.                      *)
Unauthorized(c) ==
  IF call[c].retried
  THEN call' = [call EXCEPT ![c] = Resting] /\ refused' = refused \cup {c} /\ UNCHANGED <<token, mint>>
  ELSE /\ token' = NoToken
       /\ Acquire(c, call[c].began, call[c].deadline, TRUE, NoToken)
       /\ UNCHANGED refused

(* GitHub answers a call: 401 exactly for a revoked token, otherwise a reply *)
(* the caller can use, a rate limit, or an error.                            *)
CallAnswer(c) ==
  /\ call[c].at = "sent"
  /\ \/ /\ call[c].bearer \in revoked
        /\ Unauthorized(c)
        /\ UNCHANGED <<pausedUntil, limited>>
     \/ /\ call[c].bearer \notin revoked
        /\ call' = Replied(c)
        /\ UNCHANGED <<token, mint, pausedUntil, limited, refused>>
     \/ /\ \E until \in ResetTimes : RateLimited(until)
        /\ call' = [call EXCEPT ![c] = Resting]
        /\ UNCHANGED <<token, mint, refused>>
     \/ /\ call' = [call EXCEPT ![c] = Resting]
        /\ UNCHANGED <<token, mint, pausedUntil, limited, refused>>
  /\ UNCHANGED <<instant, githubState, dirty>>

CallTimer(c) ==
  /\ call[c].at = "sent" /\ call[c].abortAt = instant
  /\ call' = [call EXCEPT ![c] = Resting]
  /\ UNCHANGED <<instant, token, mint, pausedUntil, githubState, transportHistory>>

-------------------------------------------------------------------------------
(* The installation is suspended, or the token expires early. *)
Revoke ==
  /\ \E t \in 1..issued \ revoked : revoked' = revoked \cup {t}
  /\ dirty' = dirty \cup {c \in Contexts : call[c].at # "idle"}
  /\ UNCHANGED <<instant, clientState, issued, limited, refused>>

(* Time passes, but no pending continuation or timer is overslept. *)
TransportTick ==
  /\ instant < MaxInstant
  /\ mint # instant
  /\ \A c \in Contexts : /\ call[c].at \notin {"ready", "more"}
                         /\ call[c].at = "sent" => call[c].abortAt # instant
  /\ instant' = instant + 1
  /\ UNCHANGED <<clientState, githubState, transportHistory>>

TransportNext ==
  \/ TransportTick \/ Revoke \/ MintAnswer \/ MintTimer
  \/ \E c \in Contexts : Begin(c) \/ NextCall(c) \/ SendCall(c) \/ CallAnswer(c) \/ CallTimer(c)

TransportSpec == TransportInit /\ [][TransportNext]_transportVars

-------------------------------------------------------------------------------
(* Safety. *)

InCall(c) == call[c].at # "idle"

(* A call fails with a 401 only if a token was revoked while it ran: two     *)
(* callers that learn of one revocation do not hand each other the dead      *)
(* token, although each may drop the one the other just minted.              *)
RenewalWorks == refused \subseteq dirty

(* Whatever GitHub does, a call ends: after at most two mints and two        *)
(* requests, and for a call of createChangePr no later than one request      *)
(* after the deadline.                                                       *)
CallsEndInTime ==
  \A c \in Contexts : InCall(c) => /\ instant <= call[c].began + 4 * RequestTimeout
                                   /\ instant <= call[c].deadline + RequestTimeout

Outgoing == {c \in Contexts : call[c].at = "sent"}
Sends    == ~(Outgoing' \subseteq Outgoing) \/ (mint' # NoMint /\ mint = NoMint)

(* Nothing is sent to GitHub for MinBackoff after a rate-limit answer, not   *)
(* even by callers that had their token before it.                           *)
PauseHonouredStep ==
  Sends => instant >= limited.at + MinBackoff
PauseHonoured == [][PauseHonouredStep]_transportVars

(* The three together: callers that share a token and a pause neither fail   *)
(* for one another nor outlive their deadline nor send within a backoff.     *)
TransportOrderly == [](RenewalWorks /\ CallsEndInTime) /\ PauseHonoured

(* What the API reference says of the pause: it lasts until the instant      *)
(* GitHub named.                                                             *)
PauseLasts == [][Sends => instant >= limited.until]_transportVars

(* What ADR-0009 (D-MSSO-19b) says: the budget covers all calls of one       *)
(* createChangePr, the retry and the token refresh included.                 *)
BudgetCovers == \A c \in Writers : InCall(c) => instant <= call[c].deadline
===============================================================================
