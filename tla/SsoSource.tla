------------------------------- MODULE SsoSource -------------------------------
(***************************************************************************)
(* GithubSsoAdapter (githubSsoAdapter.ts): the declared SSO configuration, *)
(* read from main through a cache.  Readers (GET /sso), previews (cached   *)
(* base) and submits (fresh base) share one snapshot, one refresh in       *)
(* flight, one back-off and the memory of an invalid commit.  Time is a    *)
(* clock and the request timers are punctual.                              *)
(***************************************************************************)
EXTENDS Integers, FiniteSets

CONSTANTS
  Callers,     \* requests that may be served at once
  Bad,         \* commits whose sso.yaml is invalid
  Ttl,         \* ttlMs
  StaleMax,    \* staleMaxMs
  Timeout,     \* timeoutMs of one GitHub request
  MaxBackoff,  \* MAX_BACKOFF_MS
  MaxCommits,  \* bound: commits on main
  MaxTime      \* bound: the clock

\* Assumed of the constants; the module that instantiates this one states it.
SourceAssumption ==
  /\ IsFiniteSet(Callers) /\ Bad \subseteq 1..MaxCommits
  /\ {Ttl, StaleMax, Timeout, MaxCommits} \subseteq Nat \ {0}
  /\ Ttl <= StaleMax /\ Ttl <= MaxBackoff
  /\ MaxBackoff \in Nat /\ MaxTime \in Nat

VARIABLES
  clock,
  main,      \* the commit main points at
  left,      \* when main left a commit (history)
  snapshot,  \* commit (0: none), time of confirmation, whether its groups are known
  refresh,   \* the refresh in flight: its phase, the commit it learnt, the expiry of its request
  retryAt,
  invalid,   \* the commit remembered as invalid, 0: none
  caller,    \* what each caller waits for
  given,     \* the answers the last step gave
  asked      \* the latest time before which GitHub asked not to be called (history)

github == <<main, left>>
adapter == <<snapshot, refresh, retryAt, invalid>>
vars == <<clock, github, adapter, caller, given, asked>>

Never   == MaxTime + 1
Waits   == {"config", "base", "fresh"}
NoCall  == [at |-> "idle", groups |-> FALSE, held |-> 0, expires |-> 0, began |-> 0]
NoFetch == [phase |-> "none", head |-> 0, expires |-> 0]

TypeOK ==
  /\ clock \in 0..MaxTime /\ main \in 1..MaxCommits
  /\ left \in [1..MaxCommits -> 0..Never]
  /\ snapshot \in [commit : 0..MaxCommits, confirmedAt : 0..MaxTime, grouped : BOOLEAN]
  /\ refresh \in [phase : {"none", "head", "answered", "file"}, head : 0..MaxCommits,
                  expires : 0..(MaxTime + Timeout)]
  /\ retryAt \in 0..(MaxTime + MaxBackoff) /\ invalid \in 0..MaxCommits
  /\ caller \in [Callers -> [at : {"idle"} \cup Waits, groups : BOOLEAN, held : 0..MaxCommits,
                             expires : 0..(MaxTime + Timeout), began : 0..MaxTime]]
  /\ given \subseteq [kind : Waits \cup {"503"}, commit : 0..MaxCommits, groups : 0..MaxCommits,
                      stale : BOOLEAN, began : 0..MaxTime]
  /\ asked \in 0..(MaxTime + MaxBackoff)

Init ==
  /\ clock = 0 /\ main = 1 /\ left = [c \in 1..MaxCommits |-> Never]
  /\ snapshot = [commit |-> 0, confirmedAt |-> 0, grouped |-> FALSE]
  /\ refresh = NoFetch /\ retryAt = 0 /\ invalid = 0
  /\ caller = [c \in Callers |-> NoCall]
  /\ given = {}
  /\ asked = 0

(* AbortSignal.timeout(timeoutMs) over head and body of a request. *)
Expiry == clock + Timeout

Lesser(a, b)  == IF a < b THEN a ELSE b
Greater(a, b) == IF a < b THEN b ELSE a

-------------------------------------------------------------------------------
(* Responses.  An operator Resp is what getSsoConfig resolves to: a commit   *)
(* with its stale mark, or the rejection (commit 0).                         *)

Rejected == [commit |-> 0, stale |-> FALSE]
Render(s, stale) == [commit |-> s.commit, stale |-> stale]

(* degraded: a remembered invalid commit wins over stale data. *)
Degraded(inv, s) ==
  IF inv = 0 /\ s.commit # 0 /\ clock - s.confirmedAt <= StaleMax
  THEN Render(s, TRUE) ELSE Rejected

Gives(kind, began, resp, groups) ==
  [kind |-> IF resp.commit = 0 THEN "503" ELSE kind, commit |-> resp.commit,
   groups |-> groups, stale |-> resp.stale, began |-> began]

(* What a caller that began now or waited gets from the response resp while  *)
(* the adapter's snapshot is s and its back-off r: the configuration, a      *)
(* refusal, the base, or first a request for the groups of that snapshot.    *)
NeedsGroups(kind, resp, s, r) ==
  /\ kind # "config" /\ resp.commit # 0 /\ ~resp.stale
  /\ s.commit = resp.commit /\ ~s.grouped /\ clock >= r

Outcome(kind, began, resp, s) ==
  IF kind = "config" THEN Gives(kind, began, resp, 0)
  ELSE IF resp.stale \/ s.commit # resp.commit \/ ~s.grouped
       THEN Gives(kind, began, Rejected, 0)
       ELSE Gives(kind, began, resp, s.commit)

(* The callers of waiting (a function to what they asked and when) continue  *)
(* with resp; nobody else moves.                                             *)
Settle(waiting, resp, s, r) ==
  LET cs == DOMAIN waiting
      fetches(c) == NeedsGroups(waiting[c].at, resp, s, r)
  IN /\ caller' = [c \in Callers |->
          IF c \notin cs THEN caller[c]
          ELSE IF fetches(c) THEN [waiting[c] EXCEPT !.held = s.commit, !.groups = TRUE,
                                                     !.expires = Expiry]
          ELSE NoCall]
     /\ given' = {Outcome(waiting[c].at, waiting[c].began, resp, s) :
                    c \in {d \in cs : ~fetches(d)}}

-------------------------------------------------------------------------------
(* Calls: getSsoConfig and readBase up to their first await. *)

Fresh(s) == s.commit # 0 /\ clock - s.confirmedAt < Ttl

(* From the cache, from the back-off, or by starting or joining the refresh. *)
Call(c, kind) ==
  LET cached == kind # "fresh" /\ Fresh(snapshot)
      paused == ~cached /\ clock < retryAt
      me == [NoCall EXCEPT !.at = kind, !.began = clock]
  IN /\ caller[c] = NoCall
     /\ \/ /\ cached
           /\ Settle([d \in {c} |-> me], Render(snapshot, FALSE), snapshot, retryAt)
           /\ UNCHANGED refresh
        \/ /\ paused
           /\ Settle([d \in {c} |-> me],
                     IF kind = "fresh" THEN Rejected ELSE Degraded(invalid, snapshot),
                     snapshot, retryAt)
           /\ UNCHANGED refresh
        \/ /\ ~cached /\ ~paused
           /\ refresh' = IF refresh = NoFetch
                         THEN [phase |-> "head", head |-> 0, expires |-> Expiry]
                         ELSE refresh
           /\ caller' = [caller EXCEPT ![c] = me]
           /\ given' = {}
     /\ UNCHANGED <<clock, github, snapshot, retryAt, invalid, asked>>

(* The callers that wait for the refresh in flight. *)
Joined == [c \in {d \in Callers : caller[d].at \in Waits /\ ~caller[d].groups} |-> caller[c]]

-------------------------------------------------------------------------------
(* refresh *)

(* retryAt after a transport failure that names the instant until. *)
Backoff(until) == Lesser(Greater(until, clock + Ttl), clock + MaxBackoff)
Resets == {0, clock + MaxBackoff}

(* A content failure: every waiter gets it, no call before the TTL. *)
RefreshInvalid(inv) ==
  /\ invalid' = inv
  /\ retryAt' = clock + Ttl
  /\ refresh' = NoFetch
  /\ Settle(Joined, Rejected, snapshot, retryAt')
  /\ UNCHANGED <<snapshot, asked>>

(* A transport failure: stale data while it is allowed. *)
RefreshFails(inv, until) ==
  /\ retryAt' = Backoff(until)
  /\ asked' = Greater(asked, Lesser(until, clock + MaxBackoff))
  /\ refresh' = NoFetch
  /\ invalid' = inv
  /\ Settle(Joined, Degraded(inv, snapshot), snapshot, retryAt')
  /\ UNCHANGED snapshot

(* GitHub evaluates the head; the answer travels. *)
HeadRead ==
  /\ refresh.phase = "head"
  /\ refresh' = [refresh EXCEPT !.phase = "answered", !.head = main]
  /\ UNCHANGED <<clock, github, snapshot, retryAt, invalid, caller, given, asked>>

(* The head (a SHA, or 304 for the snapshot's commit): still the invalid     *)
(* commit, still the snapshot's, or a new one whose file is to be read.      *)
HeadArrives ==
  /\ refresh.phase = "answered"
  /\ LET h == refresh.head IN
     \/ h = invalid /\ RefreshInvalid(invalid)
     \/ /\ h # invalid /\ h = snapshot.commit
        /\ snapshot' = [snapshot EXCEPT !.confirmedAt = clock]
        /\ refresh' = NoFetch /\ retryAt' = 0 /\ invalid' = 0 /\ UNCHANGED asked
        /\ Settle(Joined, Render(snapshot', FALSE), snapshot', 0)
     \/ /\ h # invalid /\ h # snapshot.commit
        /\ invalid' = 0 /\ retryAt' = 0
        /\ refresh' = [phase |-> "file", head |-> h, expires |-> Expiry]
        /\ UNCHANGED <<snapshot, caller, given, asked>>
  /\ UNCHANGED <<clock, github>>

(* No head: unreachable, an error status, rate-limited, or not a SHA. *)
HeadFails ==
  /\ refresh.phase \in {"head", "answered"}
  /\ (\E until \in Resets : RefreshFails(invalid, until)) \/ RefreshInvalid(invalid)
  /\ UNCHANGED <<clock, github>>

(* The file at that commit: a new snapshot, whose groups are not known. *)
FileArrives ==
  /\ refresh.phase = "file" /\ refresh.head \notin Bad
  /\ snapshot' = [commit |-> refresh.head, confirmedAt |-> clock, grouped |-> FALSE]
  /\ refresh' = NoFetch
  /\ Settle(Joined, Render(snapshot', FALSE), snapshot', retryAt)
  /\ UNCHANGED <<clock, github, retryAt, invalid, asked>>

(* The content is invalid (for a good commit: the answer is garbled), and    *)
(* the commit remembered; or there is no answer.                             *)
FileFails ==
  /\ refresh.phase = "file"
  /\ \/ RefreshInvalid(refresh.head)
     \/ \E until \in Resets : RefreshFails(invalid, until)
  /\ UNCHANGED <<clock, github>>

RefreshTimer ==
  /\ refresh.phase # "none" /\ refresh.expires = clock
  /\ RefreshFails(invalid, 0)
  /\ UNCHANGED <<clock, github>>

-------------------------------------------------------------------------------
(* readBase after its snapshot: policies/groups.yaml at the same commit. *)

(* Mutant: the base is built from the snapshot the adapter has by now. *)
BadBaseOf(c) == [Render(snapshot, FALSE) EXCEPT !.stale = FALSE]

(* The base is the snapshot that was held across the request. *)
BaseOf(c) == [commit |-> caller[c].held, stale |-> FALSE]

GroupsArrive(c) ==
  /\ caller[c].groups
  /\ snapshot' = IF snapshot.commit = caller[c].held THEN [snapshot EXCEPT !.grouped = TRUE]
                                                     ELSE snapshot
  /\ given' = {Gives(caller[c].at, caller[c].began, BaseOf(c), caller[c].held)}
  /\ caller' = [caller EXCEPT ![c] = NoCall]
  /\ UNCHANGED <<clock, github, refresh, retryAt, invalid, asked>>

(* The request fails, times out, or the file is no list of groups. *)
GroupsFail(c) ==
  /\ caller[c].groups
  /\ \E until \in Resets :
       /\ retryAt' = Backoff(until)
       /\ asked' = Greater(asked, Lesser(until, clock + MaxBackoff))
  /\ given' = {Gives(caller[c].at, caller[c].began, Rejected, 0)}
  /\ caller' = [caller EXCEPT ![c] = NoCall]
  /\ UNCHANGED <<clock, github, snapshot, refresh, invalid>>

-------------------------------------------------------------------------------
(* Somebody pushes to main. *)
Push ==
  /\ main < MaxCommits
  /\ main' = main + 1 /\ left' = [left EXCEPT ![main] = clock]
  /\ given' = {}
  /\ UNCHANGED <<clock, adapter, caller, asked>>

(* Time passes, but no timer is overslept. *)
Tick ==
  /\ clock < MaxTime
  /\ refresh # NoFetch => refresh.expires > clock
  /\ \A c \in Callers : caller[c].groups => caller[c].expires > clock
  /\ clock' = clock + 1
  /\ asked' = IF asked > clock' THEN asked ELSE 0
  /\ given' = {}
  /\ UNCHANGED <<github, adapter, caller>>

Next ==
  \/ HeadRead \/ HeadArrives \/ HeadFails \/ FileArrives \/ FileFails \/ RefreshTimer
  \/ Push \/ Tick
  \/ \E c \in Callers : \/ \E kind \in Waits : Call(c, kind)
                        \/ GroupsArrive(c) \/ GroupsFail(c)

Spec == Init /\ [][Next]_vars

-------------------------------------------------------------------------------
(* Properties. *)

(* What is served was on main: an unmarked answer no longer ago than the TTL *)
(* plus the two requests of a refresh (and the one for the groups), a marked *)
(* one no longer than the stale window plus the two; a base is never stale.  *)
ServedIsRecent ==
  \A a \in given :
    a.commit # 0 =>
      /\ a.commit \notin Bad
      /\ a.kind # "config" => ~a.stale
      /\ clock - left[a.commit] <= (IF a.stale THEN StaleMax ELSE Ttl)
                                   + (IF a.kind = "config" THEN 2 ELSE 3) * Timeout

(* The two files of a base are of one commit, also when the snapshot was     *)
(* replaced while the groups were fetched.                                   *)
BaseIsOneCommit == \A a \in given : a.kind \in {"base", "fresh"} => a.groups = a.commit

(* No stale value is served while main stands at the commit that the adapter *)
(* found invalid.                                                            *)
BrokenIsNotStale == \A a \in given : a.stale => invalid # main

(* The cached configuration: recent, of one commit, and never a stale value  *)
(* in the place of a commit found invalid (githubSsoAdapter.ts).             *)
SourceHonest == ServedIsRecent /\ BaseIsOneCommit /\ BrokenIsNotStale

(* Whatever GitHub does, a caller is answered within the time of the three   *)
(* requests it may need.                                                     *)
AnsweredInTime == \A c \in Callers : caller[c] # NoCall => clock <= caller[c].began + 3 * Timeout

(* What the header comment and the API reference say of an invalid commit:   *)
(* the older good value is not served until main moves.                      *)
InvalidNotMasked == \A a \in given : a.commit # 0 => invalid # main

(* What ReadBaseOptions.fresh says: current main, resolved now.              *)
FreshIsCurrent == \A a \in given : a.kind = "fresh" => left[a.commit] >= a.began

(* What D-MSSO-12b says: GitHub is not called again before the instant it    *)
(* named.                                                                    *)
BackoffKept == [][refresh = NoFetch /\ refresh' # NoFetch => clock >= asked]_vars
===============================================================================
