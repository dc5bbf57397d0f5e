---------------------------- MODULE DomainApiProofs ---------------------------
(***************************************************************************)
(* Proofs about four components of the domain API, which share no state:   *)
(*                                                                         *)
(*   SsoSource         what is served is recent, of one commit and never a *)
(*                     stale value in the place of an invalid commit;      *)
(*   GithubTransport   callers of one token and one pause neither fail for *)
(*                     one another, nor outlive their deadline, nor send   *)
(*                     within a backoff;                                   *)
(*   ApiAuth           genuine tokens in, everything else out, an outage   *)
(*                     told apart from a bad token, refusals on record;    *)
(*   ApiStartup        a process exits for a refused value alone, and one  *)
(*                     that serves finishes what it accepts.               *)
(*                                                                         *)
(* Each part has its own inductive invariant, lemmas and theorem.          *)
(***************************************************************************)
EXTENDS SsoSource, GithubTransport, ApiAuth, ApiStartup, TLAPS

-------------------------------------------------------------------------------
(***************************************************************************)
(* SSO source.  For any lifetimes, timeouts, number of callers and         *)
(* commits: every commit that the adapter holds was on main when GitHub    *)
(* evaluated the head.  The invariant bounds how long ago that was through *)
(* the expiry of the request in flight: a timer is never overslept, so a   *)
(* request that expires at e was sent no earlier than e - Timeout.         *)
(***************************************************************************)

Snapshot == [commit : 0..MaxCommits, confirmedAt : Nat, grouped : BOOLEAN]
CallState == [at : {"idle"} \cup Waits, groups : BOOLEAN, held : 0..MaxCommits, expires : Nat, began : Nat]
Fetching == [phase : {"none", "head", "answered", "file"}, head : 0..MaxCommits, expires : Nat]
Response == [commit : 0..MaxCommits, stale : BOOLEAN]

Shape ==
  /\ clock \in 0..MaxTime /\ main \in 1..MaxCommits
  /\ left \in [1..MaxCommits -> Nat]
  /\ snapshot \in Snapshot
  /\ refresh \in Fetching
  /\ invalid \in 0..MaxCommits
  /\ caller \in [Callers -> CallState]

-------------------------------------------------------------------------------
(* The inductive invariant. *)

(* Main moves forward and leaves a commit once. *)
MainInv == \A c \in 1..MaxCommits : c >= main => left[c] = Never

(* Commit c was on main at or after the instant t, which is past. *)
OnMainSince(c, t) == c \in 1..MaxCommits /\ left[c] >= t /\ t <= clock

(* A timer set to e by a request that may take one Timeout. *)
Pending(e) == clock <= e /\ e <= clock + Timeout

SnapshotInv ==
  snapshot.commit # 0 =>
    /\ snapshot.commit \notin Bad /\ snapshot.confirmedAt <= clock
    /\ OnMainSince(snapshot.commit, snapshot.confirmedAt - 2 * Timeout)

RefreshInv ==
  /\ refresh.phase # "none" => Pending(refresh.expires)
  /\ refresh.phase = "answered" => OnMainSince(refresh.head, refresh.expires - Timeout)
  /\ refresh.phase = "file" => OnMainSince(refresh.head, refresh.expires - 2 * Timeout)

(* A caller that fetches the groups holds a commit that was fresh. *)
HoldsFresh(q) ==
  q.groups =>
    /\ q.at # "config" /\ q.held \notin Bad /\ Pending(q.expires)
    /\ OnMainSince(q.held, q.expires - Ttl - 3 * Timeout)

CallerInv == \A c \in Callers : HoldsFresh(caller[c])

SourceInv ==
  /\ Shape /\ MainInv /\ SnapshotInv /\ RefreshInv /\ CallerInv
  /\ SourceHonest

-------------------------------------------------------------------------------
(* Constants and records. *)

LEMMA Durations ==
  ASSUME SourceAssumption
  PROVE  /\ Ttl \in Nat /\ StaleMax \in Nat /\ Timeout \in Nat /\ MaxCommits \in Nat /\ MaxTime \in Nat
         /\ Timeout >= 1 /\ MaxCommits >= 1
  BY DEF SourceAssumption

LEMMA NoCallTyped == ASSUME SourceAssumption PROVE NoCall \in CallState /\ ~NoCall.groups
  BY Durations DEF NoCall, CallState

LEMMA NoFetchTyped == ASSUME SourceAssumption PROVE NoFetch \in Fetching /\ NoFetch.phase = "none"
  BY Durations DEF NoFetch, Fetching

LEMMA RejectedTyped == ASSUME SourceAssumption PROVE Rejected \in Response /\ Rejected.commit = 0 /\ ~Rejected.stale
  BY Durations DEF Rejected, Response

LEMMA RenderTyped ==
  ASSUME NEW s \in Snapshot, NEW b \in BOOLEAN
  PROVE  Render(s, b) \in Response /\ Render(s, b).commit = s.commit /\ Render(s, b).stale = b
  BY DEF Render, Response, Snapshot

LEMMA NoCallQuiet == ASSUME SourceAssumption PROVE HoldsFresh(NoCall) /\ HoldsFresh(NoCall)'
  BY NoCallTyped DEF HoldsFresh

(* What was bounded stays bounded while neither clock nor main moves. *)
LEMMA SinceKept ==
  ASSUME UNCHANGED <<clock, left>>
  PROVE  /\ \A c, t : OnMainSince(c, t)' <=> OnMainSince(c, t)
         /\ \A e : Pending(e)' <=> Pending(e)
         /\ \A q : HoldsFresh(q)' <=> HoldsFresh(q)
  BY DEF OnMainSince, Pending, HoldsFresh

-------------------------------------------------------------------------------
(* An answer. *)

(* The response is within the TTL, or the stale window, of its confirmation. *)
Recent(resp) ==
  resp.commit # 0 =>
    /\ resp.commit \notin Bad
    /\ clock - left[resp.commit] <= (IF resp.stale THEN StaleMax ELSE Ttl) + 2 * Timeout

Honest(a) ==
  /\ a.commit # 0 =>
       /\ a.commit \notin Bad
       /\ a.kind # "config" => ~a.stale
       /\ clock - left[a.commit] <= (IF a.stale THEN StaleMax ELSE Ttl)
                                    + (IF a.kind = "config" THEN 2 ELSE 3) * Timeout
  /\ a.kind \in {"base", "fresh"} => a.groups = a.commit
  /\ a.stale => invalid # main

LEMMA HonestGiven ==
  (SourceHonest <=> \A a \in given : Honest(a)) /\ (SourceHonest' <=> \A a \in given' : Honest(a)')
  BY DEF SourceHonest, ServedIsRecent, BaseIsOneCommit, BrokenIsNotStale, Honest

LEMMA RejectionHonest ==
  ASSUME SourceAssumption, NEW kind, NEW began PROVE Honest(Gives(kind, began, Rejected, 0))'
<1> DEFINE a == Gives(kind, began, Rejected, 0)
<1>1. a.commit = 0 /\ a.kind = "503" /\ ~a.stale
  BY RejectedTyped DEF Gives
<1> QED
  BY <1>1 DEF Honest

LEMMA OutcomeHonest ==
  ASSUME SourceAssumption, Shape, NEW resp \in Response, Recent(resp), NEW s \in Snapshot,
         NEW kind \in Waits, NEW began, UNCHANGED <<clock, main, left>>, resp.stale => invalid' = 0
  PROVE  Honest(Outcome(kind, began, resp, s))'
<1>0. /\ resp.commit \in Nat /\ resp.stale \in BOOLEAN
      /\ resp.commit # 0 => resp.commit \in 1..MaxCommits
  BY Durations DEF Response
<1>1. CASE kind = "config"
  <2> DEFINE a == Gives(kind, began, resp, 0)
  <2>1. Outcome(kind, began, resp, s) = a
    BY <1>1 DEF Outcome
  <2>2. /\ a.commit = resp.commit /\ a.stale = resp.stale
        /\ a.kind = IF resp.commit = 0 THEN "503" ELSE "config"
    BY <1>1 DEF Gives
  <2>3. resp.stale => invalid' # main'
    BY Durations DEF Shape
  <2> HIDE DEF a
  <2>4. Honest(a)'
    BY <1>0, <2>2, <2>3 DEF Honest, Recent
  <2> QED
    BY <2>1, <2>4
<1>2. CASE kind # "config" /\ (resp.stale \/ s.commit # resp.commit \/ ~s.grouped)
  <2>1. Outcome(kind, began, resp, s) = Gives(kind, began, Rejected, 0)
    BY <1>2 DEF Outcome
  <2> QED
    BY <2>1, RejectionHonest
<1>3. CASE kind # "config" /\ ~(resp.stale \/ s.commit # resp.commit \/ ~s.grouped)
  <2> DEFINE a == Gives(kind, began, resp, s.commit)
  <2>1. Outcome(kind, began, resp, s) = a
    BY <1>3 DEF Outcome
  <2>2. /\ a.commit = resp.commit /\ ~a.stale /\ a.groups = resp.commit
        /\ a.kind = IF resp.commit = 0 THEN "503" ELSE kind
    BY <1>3 DEF Gives
  <2> HIDE DEF a
  <2>3. resp.commit # 0 => clock - left[resp.commit] <= Ttl + 3 * Timeout
    <3>1. resp.commit # 0 => clock - left[resp.commit] <= Ttl + 2 * Timeout
      BY <1>3 DEF Recent
    <3>2. resp.commit # 0 => left[resp.commit] \in Nat /\ clock \in Nat
      BY <1>0, Durations DEF Shape
    <3> QED
      BY <3>1, <3>2, Durations
  <2>4. Honest(a)'
    BY <1>3, <2>2, <2>3 DEF Honest, Recent
  <2> QED
    BY <2>1, <2>4
<1> QED
  BY <1>1, <1>2, <1>3

(* The callers that waited are answered, or hold what was fresh. *)
LEMMA SettleHonest ==
  ASSUME SourceAssumption, Shape, CallerInv, UNCHANGED <<clock, main, left>>,
         NEW waiting, DOMAIN waiting \subseteq Callers,
         \A c \in DOMAIN waiting : waiting[c] \in CallState /\ waiting[c].at \in Waits,
         NEW resp \in Response, Recent(resp), resp.stale => invalid' = 0,
         NEW s \in Snapshot, NEW r, Settle(waiting, resp, s, r)
  PROVE  caller' \in [Callers -> CallState] /\ CallerInv' /\ SourceHonest'
<1> DEFINE fetches(c) == NeedsGroups(waiting[c].at, resp, s, r)
           held(c) == [waiting[c] EXCEPT !.held = s.commit, !.groups = TRUE, !.expires = Expiry]
<1>1. Expiry \in Nat /\ Pending(Expiry) /\ clock \in Nat
  BY Durations DEF Shape, Expiry, Pending
<1>2. ASSUME NEW c \in DOMAIN waiting, fetches(c)
      PROVE  held(c) \in CallState /\ HoldsFresh(held(c))
  <2>1. waiting[c] \in CallState /\ waiting[c].at # "config" /\ s.commit = resp.commit
        /\ resp.commit # 0 /\ ~resp.stale
    BY <1>2 DEF NeedsGroups
  <2>2. /\ held(c) \in CallState /\ held(c).at # "config" /\ held(c).held = resp.commit
        /\ held(c).expires = Expiry
    BY <1>1, <2>1 DEF CallState, Snapshot
  <2>3. resp.commit \notin Bad /\ clock - left[resp.commit] <= Ttl + 2 * Timeout
    BY <2>1 DEF Recent
  <2>4. resp.commit \in 1..MaxCommits /\ left[resp.commit] \in Nat
    BY <2>1, Durations DEF Response, Shape
  <2>5. OnMainSince(resp.commit, Expiry - Ttl - 3 * Timeout)
    BY <1>1, <2>3, <2>4, Durations DEF OnMainSince, Expiry
  <2> HIDE DEF held
  <2> QED
    BY <1>1, <2>2, <2>3, <2>5 DEF HoldsFresh
<1>3. /\ caller' = [c \in Callers |-> IF c \notin DOMAIN waiting THEN caller[c]
                                      ELSE IF fetches(c) THEN held(c) ELSE NoCall]
      /\ given' = {Outcome(waiting[c].at, waiting[c].began, resp, s) :
                     c \in {d \in DOMAIN waiting : ~fetches(d)}}
  BY DEF Settle
<1> HIDE DEF fetches, held
<1>4. \A c \in Callers : caller'[c] \in CallState /\ HoldsFresh(caller'[c])
  BY <1>2, <1>3, NoCallTyped, NoCallQuiet DEF Shape, CallerInv
<1>5. CallerInv'
  BY <1>4, SinceKept DEF CallerInv
<1>6. \A a \in given' : Honest(a)'
  <2> SUFFICES ASSUME NEW c \in DOMAIN waiting
               PROVE  Honest(Outcome(waiting[c].at, waiting[c].began, resp, s))'
    BY <1>3
  <2> QED
    BY OutcomeHonest
<1>7. SourceHonest'
  BY <1>6, HonestGiven
<1> QED
  BY <1>3, <1>4, <1>5, <1>7

(* Nobody is answered and nobody starts to fetch groups. *)
LEMMA SilentHonest ==
  ASSUME SourceInv, UNCHANGED <<clock, main, left, given, caller>>, invalid' \in {invalid, 0}
  PROVE  CallerInv' /\ SourceHonest'
<1>1. CallerInv'
  BY SinceKept DEF SourceInv, CallerInv
<1>2. main # 0
  BY DEF SourceInv, Shape
<1>3. \A a \in given : Honest(a) => Honest(a)'
  BY <1>2 DEF Honest
<1> QED
  BY <1>1, <1>3, HonestGiven DEF SourceInv

(* Adapter state that a step leaves alone. *)
LEMMA FrameKept ==
  ASSUME SourceInv, UNCHANGED <<clock, main, left>>
  PROVE  /\ MainInv'
         /\ UNCHANGED snapshot => SnapshotInv'
         /\ UNCHANGED refresh => RefreshInv'
         /\ refresh'.phase = "none" => RefreshInv'
  BY SinceKept DEF SourceInv, MainInv, Never, SnapshotInv, RefreshInv

-------------------------------------------------------------------------------
(* Responses are recent. *)

LEMMA FreshRecent ==
  ASSUME SourceAssumption, SourceInv, Fresh(snapshot) PROVE Recent(Render(snapshot, FALSE))
<1>1. snapshot \in Snapshot /\ clock \in Nat /\ left \in [1..MaxCommits -> Nat] /\ SnapshotInv
  BY DEF SourceInv, Shape
<1>2. /\ snapshot.commit # 0 /\ clock - snapshot.confirmedAt < Ttl /\ snapshot.confirmedAt \in Nat
      /\ snapshot.commit \notin Bad /\ snapshot.commit \in 1..MaxCommits
      /\ left[snapshot.commit] >= snapshot.confirmedAt - 2 * Timeout
  BY <1>1 DEF Fresh, SnapshotInv, OnMainSince, Snapshot
<1>3. left[snapshot.commit] \in Nat
  BY <1>1, <1>2
<1>4. clock - left[snapshot.commit] <= Ttl + 2 * Timeout
  BY <1>1, <1>2, <1>3, Durations
<1> QED
  BY <1>1, <1>2, <1>4, RenderTyped DEF Recent

LEMMA DegradedRecent ==
  ASSUME SourceAssumption, SourceInv, NEW inv
  PROVE  /\ Degraded(inv, snapshot) \in Response /\ Recent(Degraded(inv, snapshot))
         /\ Degraded(inv, snapshot).stale => inv = 0
<1>1. snapshot \in Snapshot /\ clock \in Nat /\ left \in [1..MaxCommits -> Nat] /\ SnapshotInv
  BY DEF SourceInv, Shape
<1>2. CASE inv = 0 /\ snapshot.commit # 0 /\ clock - snapshot.confirmedAt <= StaleMax
  <2>1. /\ snapshot.confirmedAt \in Nat
        /\ snapshot.commit \notin Bad /\ snapshot.commit \in 1..MaxCommits
        /\ left[snapshot.commit] >= snapshot.confirmedAt - 2 * Timeout
    BY <1>1, <1>2 DEF SnapshotInv, OnMainSince, Snapshot
  <2>2. left[snapshot.commit] \in Nat
    BY <1>1, <2>1
  <2>3. clock - left[snapshot.commit] <= StaleMax + 2 * Timeout
    BY <1>1, <1>2, <2>1, <2>2, Durations
  <2>4. Degraded(inv, snapshot) = Render(snapshot, TRUE)
    BY <1>2 DEF Degraded
  <2> QED
    BY <1>1, <1>2, <2>1, <2>3, <2>4, RenderTyped DEF Recent
<1>3. CASE ~(inv = 0 /\ snapshot.commit # 0 /\ clock - snapshot.confirmedAt <= StaleMax)
  BY <1>3, RejectedTyped DEF Degraded, Recent
<1> QED
  BY <1>2, <1>3

LEMMA RejectedRecent == ASSUME SourceAssumption PROVE Recent(Rejected)
  BY RejectedTyped DEF Recent

LEMMA JoinedTyped ==
  ASSUME Shape
  PROVE  /\ DOMAIN Joined \subseteq Callers
         /\ \A c \in DOMAIN Joined : Joined[c] \in CallState /\ Joined[c].at \in Waits
  BY DEF Joined, Shape

-------------------------------------------------------------------------------
(* Calls *)

LEMMA CallKeeps ==
  ASSUME SourceAssumption, SourceInv, NEW c \in Callers, NEW kind \in Waits, Call(c, kind)
  PROVE  SourceInv'
<1> DEFINE me == [NoCall EXCEPT !.at = kind, !.began = clock]
           waiting == [d \in {c} |-> me]
<1>0. Shape /\ CallerInv /\ UNCHANGED <<clock, main, left, snapshot, retryAt, invalid, asked>>
  BY DEF SourceInv, Call, github
<1>1. me \in CallState /\ me.at \in Waits /\ ~me.groups
  <2>1. clock \in Nat /\ kind \in {"idle"} \cup Waits
    BY <1>0, Durations DEF Shape
  <2>2. NoCall \in CallState /\ ~NoCall.groups
    BY NoCallTyped
  <2> HIDE DEF NoCall, Waits
  <2>3. me \in CallState /\ me.at = kind /\ me.groups = NoCall.groups
    BY <2>1, <2>2 DEF CallState
  <2> QED
    BY <2>2, <2>3
<1>2. DOMAIN waiting \subseteq Callers /\ \A d \in DOMAIN waiting : waiting[d] \in CallState /\ waiting[d].at \in Waits
  BY <1>1
<1>3. ASSUME NEW resp \in Response, Recent(resp), resp.stale => invalid = 0,
             Settle(waiting, resp, snapshot, retryAt)
      PROVE  caller' \in [Callers -> CallState] /\ CallerInv' /\ SourceHonest'
  <2>1. snapshot \in Snapshot /\ UNCHANGED <<clock, main, left>> /\ (resp.stale => invalid' = 0)
    BY <1>0, <1>3 DEF Shape
  <2> HIDE DEF waiting
  <2> QED
    BY <1>0, <1>2, <1>3, <2>1, SettleHonest
<1>4. CASE kind # "fresh" /\ Fresh(snapshot) /\ UNCHANGED refresh
           /\ Settle(waiting, Render(snapshot, FALSE), snapshot, retryAt)
  <2>1. Render(snapshot, FALSE) \in Response /\ ~Render(snapshot, FALSE).stale
    BY <1>0, RenderTyped DEF Shape
  <2>2. caller' \in [Callers -> CallState] /\ CallerInv' /\ SourceHonest'
    BY <1>3, <1>4, <2>1, FreshRecent
  <2> QED
    BY <1>0, <1>4, <2>2, FrameKept DEF SourceInv, Shape
<1>5. CASE UNCHANGED refresh /\ Settle(waiting, IF kind = "fresh" THEN Rejected ELSE Degraded(invalid, snapshot),
                                       snapshot, retryAt)
  <2> DEFINE resp == IF kind = "fresh" THEN Rejected ELSE Degraded(invalid, snapshot)
  <2>1. resp \in Response /\ Recent(resp) /\ (resp.stale => invalid = 0)
    BY DegradedRecent, RejectedRecent, RejectedTyped
  <2> HIDE DEF resp
  <2>2. caller' \in [Callers -> CallState] /\ CallerInv' /\ SourceHonest'
    BY <1>3, <1>5, <2>1 DEF resp
  <2> QED
    BY <1>0, <1>5, <2>2, FrameKept DEF SourceInv, Shape
<1>6. CASE /\ refresh' = IF refresh = NoFetch THEN [phase |-> "head", head |-> 0, expires |-> Expiry] ELSE refresh
           /\ caller' = [caller EXCEPT ![c] = me]
           /\ given' = {}
  <2>1. Expiry \in Nat /\ Pending(Expiry)
    BY <1>0, Durations DEF Shape, Expiry, Pending
  <2>2. refresh' \in Fetching /\ RefreshInv'
    <3>1. CASE refresh = NoFetch
      <4>1. refresh' \in Fetching /\ refresh'.phase = "head" /\ refresh'.expires = Expiry
        BY <1>6, <2>1, <3>1, Durations DEF Fetching
      <4> QED
        BY <1>0, <2>1, <4>1, SinceKept DEF RefreshInv
    <3>2. CASE refresh # NoFetch
      BY <1>0, <1>6, <3>2, FrameKept DEF Shape
    <3> QED
      BY <3>1, <3>2
  <2>3. caller' \in [Callers -> CallState]
    BY <1>0, <1>1, <1>6 DEF Shape
  <2>4. CallerInv'
    <3>1. \A d \in Callers : HoldsFresh(caller'[d])
      BY <1>0, <1>1, <1>6 DEF Shape, CallerInv, HoldsFresh
    <3> QED
      BY <1>0, <3>1, SinceKept DEF CallerInv
  <2>5. SourceHonest'
    BY <1>6, HonestGiven
  <2> QED
    BY <1>0, <2>2, <2>3, <2>4, <2>5, FrameKept DEF SourceInv, Shape
<1> HIDE DEF waiting, me
<1> QED
  BY <1>4, <1>5, <1>6 DEF Call, waiting, me

-------------------------------------------------------------------------------
(* The refresh *)

(* It ends without a new snapshot: everyone who waited is answered. *)
LEMMA RefreshEnds ==
  ASSUME SourceAssumption, SourceInv, UNCHANGED <<clock, main, left, snapshot>>, refresh' = NoFetch,
         NEW resp \in Response, Recent(resp), resp.stale => invalid' = 0,
         invalid' \in 0..MaxCommits, NEW r, Settle(Joined, resp, snapshot, r)
  PROVE  SourceInv'
<1>1. Shape /\ CallerInv /\ snapshot \in Snapshot
  BY DEF SourceInv, Shape
<1>2. caller' \in [Callers -> CallState] /\ CallerInv' /\ SourceHonest'
  <2>1. /\ DOMAIN Joined \subseteq Callers
        /\ \A c \in DOMAIN Joined : Joined[c] \in CallState /\ Joined[c].at \in Waits
    BY <1>1, JoinedTyped
  <2> HIDE DEF Joined
  <2> QED
    BY <1>1, <2>1, SettleHonest
<1>3. MainInv' /\ SnapshotInv' /\ RefreshInv' /\ refresh' \in Fetching
  BY FrameKept, NoFetchTyped
<1> QED
  BY <1>1, <1>2, <1>3 DEF SourceInv, Shape

LEMMA InvalidKeeps ==
  ASSUME SourceAssumption, SourceInv, UNCHANGED <<clock, main, left>>,
         NEW inv \in 0..MaxCommits, RefreshInvalid(inv)
  PROVE  SourceInv'
<1>1. UNCHANGED snapshot /\ refresh' = NoFetch /\ invalid' = inv /\ Settle(Joined, Rejected, snapshot, retryAt')
  BY DEF RefreshInvalid
<1> QED
  BY <1>1, RejectedTyped, RejectedRecent, RefreshEnds

LEMMA FailsKeeps ==
  ASSUME SourceAssumption, SourceInv, UNCHANGED <<clock, main, left>>,
         NEW until, RefreshFails(invalid, until)
  PROVE  SourceInv'
<1>1. UNCHANGED snapshot /\ refresh' = NoFetch /\ invalid' = invalid
      /\ Settle(Joined, Degraded(invalid, snapshot), snapshot, retryAt')
  BY DEF RefreshFails
<1>2. invalid' \in 0..MaxCommits
  BY <1>1 DEF SourceInv, Shape
<1> QED
  BY <1>1, <1>2, DegradedRecent, RefreshEnds

(* It ends with a confirmed snapshot of commit h. *)
LEMMA Confirms ==
  ASSUME SourceAssumption, SourceInv, UNCHANGED <<clock, main, left>>, refresh' = NoFetch,
         invalid' \in 0..MaxCommits, snapshot' \in Snapshot, snapshot'.confirmedAt = clock,
         snapshot'.commit \notin Bad, OnMainSince(snapshot'.commit, clock - 2 * Timeout),
         NEW r, Settle(Joined, Render(snapshot', FALSE), snapshot', r)
  PROVE  SourceInv'
<1>1. Shape /\ CallerInv
  BY DEF SourceInv
<1> DEFINE s == snapshot'
           resp == Render(s, FALSE)
<1>2. resp \in Response /\ resp.commit = s.commit /\ ~resp.stale
  BY RenderTyped
<1>3. Recent(resp)
  <2>1. s.commit \in 1..MaxCommits /\ left[s.commit] >= clock - 2 * Timeout /\ s.commit \notin Bad
    BY DEF OnMainSince
  <2>2. left[s.commit] \in Nat /\ clock \in Nat
    BY <1>1, <2>1, Durations DEF Shape
  <2>3. clock - left[s.commit] <= Ttl + 2 * Timeout
    BY <2>1, <2>2, Durations
  <2> HIDE DEF resp, s
  <2> QED
    BY <1>2, <2>1, <2>3 DEF Recent
<1>4. caller' \in [Callers -> CallState] /\ CallerInv' /\ SourceHonest'
  <2>1. /\ DOMAIN Joined \subseteq Callers
        /\ \A c \in DOMAIN Joined : Joined[c] \in CallState /\ Joined[c].at \in Waits
    BY <1>1, JoinedTyped
  <2>2. s \in Snapshot /\ Settle(Joined, resp, s, r)
    OBVIOUS
  <2> HIDE DEF Joined, resp, s
  <2> QED
    BY <1>1, <1>2, <1>3, <2>1, <2>2, SettleHonest
<1>5. MainInv' /\ RefreshInv' /\ refresh' \in Fetching
  BY FrameKept, NoFetchTyped
<1>6. SnapshotInv'
  <2>1. OnMainSince(snapshot.commit, snapshot.confirmedAt - 2 * Timeout)'
    BY DEF OnMainSince
  <2>2. clock \in Nat
    BY <1>1, Durations DEF Shape
  <2> QED
    BY <2>1, <2>2 DEF SnapshotInv
<1> QED
  BY <1>1, <1>4, <1>5, <1>6 DEF SourceInv, Shape

LEMMA HeadReadKeeps == ASSUME SourceAssumption, SourceInv, HeadRead PROVE SourceInv'
<1>0. /\ Shape /\ MainInv /\ RefreshInv /\ refresh.phase = "head"
      /\ UNCHANGED <<clock, main, left, snapshot, retryAt, invalid, caller, given, asked>>
  BY DEF SourceInv, HeadRead, github
<1>1. /\ refresh' \in Fetching /\ refresh'.phase = "answered" /\ refresh'.head = main
      /\ refresh'.expires = refresh.expires
  <2>1. refresh \in Fetching /\ main \in 0..MaxCommits /\ "answered" \in {"none", "head", "answered", "file"}
    BY <1>0, Durations DEF Shape
  <2>2. refresh' = [refresh EXCEPT !.phase = "answered", !.head = main]
    BY DEF HeadRead
  <2> QED
    BY <2>1, <2>2 DEF Fetching
<1>2. Pending(refresh.expires) /\ refresh.expires \in Nat
  BY <1>0 DEF RefreshInv, Shape, Fetching
<1>3. OnMainSince(main, refresh.expires - Timeout)
  <2>1. main \in 1..MaxCommits /\ left[main] = Never /\ clock \in 0..MaxTime
    BY <1>0, Durations DEF Shape, MainInv
  <2> QED
    BY <1>2, <2>1, Durations DEF OnMainSince, Pending, Never
<1>4. RefreshInv'
  BY <1>0, <1>1, <1>2, <1>3, SinceKept DEF RefreshInv
<1>5. CallerInv' /\ SourceHonest'
  BY <1>0, SilentHonest
<1> QED
  BY <1>0, <1>1, <1>4, <1>5, FrameKept DEF SourceInv, Shape

LEMMA HeadArrivesKeeps == ASSUME SourceAssumption, SourceInv, HeadArrives PROVE SourceInv'
<1> DEFINE h == refresh.head
<1>0. /\ Shape /\ RefreshInv /\ SnapshotInv /\ refresh.phase = "answered" /\ UNCHANGED <<clock, main, left>>
  BY DEF SourceInv, HeadArrives, github
<1>1. /\ Pending(refresh.expires) /\ OnMainSince(h, refresh.expires - Timeout)
      /\ refresh.expires \in Nat /\ h \in 1..MaxCommits /\ invalid \in 0..MaxCommits
      /\ clock \in Nat /\ left[h] \in Nat
  BY <1>0, Durations DEF RefreshInv, Shape, Fetching, OnMainSince
<1>2. CASE h = invalid /\ RefreshInvalid(invalid)
  BY <1>0, <1>1, <1>2, InvalidKeeps
<1>3. CASE /\ h # invalid /\ h = snapshot.commit
           /\ snapshot' = [snapshot EXCEPT !.confirmedAt = clock]
           /\ refresh' = NoFetch /\ retryAt' = 0 /\ invalid' = 0 /\ UNCHANGED asked
           /\ Settle(Joined, Render(snapshot', FALSE), snapshot', 0)
  <2>1. snapshot' \in Snapshot /\ snapshot'.commit = h /\ snapshot'.confirmedAt = clock
    BY <1>0, <1>1, <1>3 DEF Shape, Snapshot
  <2>2. h \notin Bad /\ 0 \in 0..MaxCommits
    BY <1>0, <1>1, <1>3, Durations DEF SnapshotInv
  <2>3. OnMainSince(h, clock - 2 * Timeout)
    BY <1>1, Durations DEF OnMainSince, Pending
  <2> HIDE DEF h
  <2> QED
    BY <1>0, <1>3, <2>1, <2>2, <2>3, Confirms
<1>4. CASE /\ invalid' = 0
           /\ refresh' = [phase |-> "file", head |-> h, expires |-> Expiry]
           /\ UNCHANGED <<snapshot, caller, given, asked>>
  <2>1. Expiry \in Nat /\ Pending(Expiry)
    BY <1>1, Durations DEF Expiry, Pending
  <2>2. OnMainSince(h, Expiry - 2 * Timeout)
    BY <1>1, Durations DEF OnMainSince, Pending, Expiry
  <2>3. refresh' \in Fetching /\ refresh'.phase = "file" /\ refresh'.head = h /\ refresh'.expires = Expiry
    BY <1>1, <1>4, <2>1, Durations DEF Fetching
  <2>4. RefreshInv'
    BY <1>0, <2>1, <2>2, <2>3, SinceKept DEF RefreshInv
  <2>5. CallerInv' /\ SourceHonest'
    BY <1>0, <1>4, SilentHonest
  <2> QED
    BY <1>0, <1>4, <2>3, <2>4, <2>5, FrameKept, Durations DEF SourceInv, Shape
<1> QED
  BY <1>2, <1>3, <1>4 DEF HeadArrives

LEMMA HeadFailsKeeps == ASSUME SourceAssumption, SourceInv, HeadFails PROVE SourceInv'
<1>1. UNCHANGED <<clock, main, left>> /\ invalid \in 0..MaxCommits
  BY DEF HeadFails, github, SourceInv, Shape
<1> QED
  BY <1>1, FailsKeeps, InvalidKeeps DEF HeadFails

LEMMA FileArrivesKeeps == ASSUME SourceAssumption, SourceInv, FileArrives PROVE SourceInv'
<1>0. /\ Shape /\ RefreshInv /\ refresh.phase = "file" /\ refresh.head \notin Bad
      /\ UNCHANGED <<clock, main, left, invalid>> /\ refresh' = NoFetch
      /\ snapshot' = [commit |-> refresh.head, confirmedAt |-> clock, grouped |-> FALSE]
      /\ Settle(Joined, Render(snapshot', FALSE), snapshot', retryAt)
  BY DEF SourceInv, FileArrives, github
<1>1. /\ Pending(refresh.expires) /\ OnMainSince(refresh.head, refresh.expires - 2 * Timeout)
      /\ refresh.expires \in Nat /\ refresh.head \in 1..MaxCommits /\ clock \in Nat
      /\ left[refresh.head] \in Nat /\ invalid \in 0..MaxCommits
  BY <1>0, Durations DEF RefreshInv, Shape, Fetching, OnMainSince
<1>2. OnMainSince(refresh.head, clock - 2 * Timeout)
  BY <1>1, Durations DEF OnMainSince, Pending
<1>3. snapshot' \in Snapshot /\ snapshot'.commit = refresh.head /\ snapshot'.confirmedAt = clock
  BY <1>0, <1>1, Durations DEF Snapshot
<1> QED
  BY <1>0, <1>1, <1>2, <1>3, Confirms

LEMMA FileFailsKeeps == ASSUME SourceAssumption, SourceInv, FileFails PROVE SourceInv'
<1>1. UNCHANGED <<clock, main, left>> /\ refresh.head \in 0..MaxCommits
  BY DEF FileFails, github, SourceInv, Shape, Fetching
<1> QED
  BY <1>1, FailsKeeps, InvalidKeeps DEF FileFails

LEMMA RefreshTimerKeeps == ASSUME SourceAssumption, SourceInv, RefreshTimer PROVE SourceInv'
  BY FailsKeeps DEF RefreshTimer, github

-------------------------------------------------------------------------------
(* The groups *)

LEMMA CallerLeaves ==
  ASSUME SourceAssumption, SourceInv, UNCHANGED <<clock, main, left>>, NEW c \in Callers,
         caller' = [caller EXCEPT ![c] = NoCall]
  PROVE  caller' \in [Callers -> CallState] /\ CallerInv'
<1>1. \A d \in Callers : caller'[d] \in CallState /\ HoldsFresh(caller'[d])
  BY NoCallTyped, NoCallQuiet DEF SourceInv, Shape, CallerInv
<1> QED
  BY <1>1, SinceKept DEF SourceInv, Shape, CallerInv

LEMMA GroupsArriveKeeps ==
  ASSUME SourceAssumption, SourceInv, NEW c \in Callers, GroupsArrive(c) PROVE SourceInv'
<1> DEFINE q == caller[c]
           a == Gives(q.at, q.began, BaseOf(c), q.held)
<1>0. /\ Shape /\ SnapshotInv /\ HoldsFresh(q) /\ q.groups /\ q \in CallState
      /\ UNCHANGED <<clock, main, left, refresh, retryAt, invalid, asked>>
      /\ given' = {a} /\ caller' = [caller EXCEPT ![c] = NoCall]
  BY DEF SourceInv, CallerInv, GroupsArrive, github, Shape
<1>1. caller' \in [Callers -> CallState] /\ CallerInv'
  BY <1>0, CallerLeaves
<1>2. /\ q.at # "config" /\ q.held \notin Bad /\ q.held \in 1..MaxCommits /\ q.held # 0
      /\ q.expires \in Nat /\ clock \in Nat /\ left[q.held] \in Nat /\ clock <= q.expires
      /\ left[q.held] >= q.expires - Ttl - 3 * Timeout
  BY <1>0, Durations DEF HoldsFresh, OnMainSince, Pending, CallState, Shape
<1>3. a.commit = q.held /\ a.groups = q.held /\ ~a.stale /\ a.kind = q.at
  BY <1>2 DEF Gives, BaseOf
<1>4. clock - left[q.held] <= Ttl + 3 * Timeout
  BY <1>2, Durations
<1>5. ASSUME NEW b, b = a PROVE Honest(b)'
  <2>1. /\ b.kind # "config" /\ b.commit \notin Bad /\ b.groups = b.commit /\ ~b.stale
        /\ clock - left[b.commit] <= Ttl + 3 * Timeout
    BY <1>2, <1>3, <1>4, <1>5
  <2> QED
    BY <1>0, <2>1 DEF Honest
<1>6. SourceHonest'
  <2>1. \A b \in given' : Honest(b)'
    BY <1>0, <1>5
  <2> QED
    BY <2>1, HonestGiven
<1>7. snapshot' \in Snapshot /\ snapshot'.commit = snapshot.commit /\ snapshot'.confirmedAt = snapshot.confirmedAt
  BY <1>0 DEF GroupsArrive, Shape, Snapshot
<1>8. SnapshotInv'
  BY <1>0, <1>7, SinceKept DEF SnapshotInv
<1> QED
  BY <1>0, <1>1, <1>6, <1>7, <1>8, FrameKept DEF SourceInv, Shape

LEMMA GroupsFailKeeps ==
  ASSUME SourceAssumption, SourceInv, NEW c \in Callers, GroupsFail(c) PROVE SourceInv'
<1>0. /\ Shape /\ UNCHANGED <<clock, main, left, snapshot, refresh, invalid>>
      /\ given' = {Gives(caller[c].at, caller[c].began, Rejected, 0)}
      /\ caller' = [caller EXCEPT ![c] = NoCall]
  BY DEF SourceInv, GroupsFail, github
<1>1. caller' \in [Callers -> CallState] /\ CallerInv'
  BY <1>0, CallerLeaves
<1>2. SourceHonest'
  BY <1>0, RejectionHonest, HonestGiven
<1> QED
  BY <1>0, <1>1, <1>2, FrameKept DEF SourceInv, Shape

-------------------------------------------------------------------------------
(* Main and the clock move. *)

LEMMA PushKeeps == ASSUME SourceAssumption, SourceInv, Push PROVE SourceInv'
<1>0. /\ Shape /\ MainInv /\ SnapshotInv /\ RefreshInv /\ CallerInv
      /\ UNCHANGED <<clock, snapshot, refresh, retryAt, invalid, caller, asked>> /\ given' = {}
      /\ main < MaxCommits /\ main' = main + 1 /\ left' = [left EXCEPT ![main] = clock]
  BY DEF SourceInv, Push, adapter
<1>1. /\ clock \in Nat /\ main \in 1..MaxCommits /\ left \in [1..MaxCommits -> Nat] /\ main' \in 1..MaxCommits
      /\ clock <= MaxTime
  BY <1>0, Durations DEF Shape
<1>2. left' \in [1..MaxCommits -> Nat] /\ \A c \in 1..MaxCommits : left'[c] = IF c = main THEN clock ELSE left[c]
  BY <1>0, <1>1
<1>3. Shape'
  BY <1>0, <1>1, <1>2 DEF Shape
<1>4. MainInv'
  BY <1>0, <1>1, <1>2, Durations DEF MainInv, Never
<1>5. \A c, t : OnMainSince(c, t) => OnMainSince(c, t)'
  BY <1>0, <1>2 DEF OnMainSince
<1>6. \A e : Pending(e) => Pending(e)'
  BY <1>0 DEF Pending
<1>7. SnapshotInv' /\ RefreshInv'
  BY <1>0, <1>5, <1>6 DEF SnapshotInv, RefreshInv
<1>8. CallerInv'
  BY <1>0, <1>5, <1>6 DEF CallerInv, HoldsFresh
<1>9. SourceHonest'
  BY <1>0, HonestGiven
<1> QED
  BY <1>3, <1>4, <1>7, <1>8, <1>9 DEF SourceInv

LEMMA TickKeeps == ASSUME SourceAssumption, SourceInv, Tick PROVE SourceInv'
<1>0. /\ Shape /\ MainInv /\ SnapshotInv /\ RefreshInv /\ CallerInv
      /\ UNCHANGED <<main, left, snapshot, refresh, retryAt, invalid, caller>> /\ given' = {}
      /\ clock < MaxTime /\ clock' = clock + 1
      /\ refresh # NoFetch => refresh.expires > clock
      /\ \A c \in Callers : caller[c].groups => caller[c].expires > clock
  BY DEF SourceInv, Tick, adapter, github
<1>1. clock \in Nat /\ clock' \in 0..MaxTime /\ refresh.expires \in Nat
      /\ \A c \in Callers : caller[c].expires \in Nat
  BY <1>0, Durations DEF Shape, Fetching, CallState
<1>2. Shape' /\ MainInv'
  BY <1>0, <1>1 DEF Shape, MainInv, Never
<1>3. \A c : \A t \in Int : OnMainSince(c, t) => OnMainSince(c, t)'
  BY <1>0, <1>1 DEF OnMainSince
<1>4. \A e \in Nat : Pending(e) /\ e > clock => Pending(e)'
  BY <1>0, <1>1, Durations DEF Pending
<1>5. SnapshotInv'
  <2>1. snapshot.confirmedAt \in Nat /\ snapshot.confirmedAt - 2 * Timeout \in Int
    BY <1>0, Durations DEF Shape, Snapshot
  <2> QED
    BY <1>0, <1>1, <1>3, <2>1 DEF SnapshotInv
<1>6. RefreshInv'
  <2>1. refresh.expires - Timeout \in Int /\ refresh.expires - 2 * Timeout \in Int
    BY <1>1, Durations
  <2>2. refresh.phase # "none" => refresh.expires > clock
    BY <1>0, NoFetchTyped
  <2> QED
    BY <1>0, <1>1, <1>3, <1>4, <2>1, <2>2 DEF RefreshInv
<1>7. CallerInv'
  <2>1. \A c \in Callers : caller[c].expires - Ttl - 3 * Timeout \in Int
    BY <1>1, Durations
  <2> QED
    BY <1>0, <1>1, <1>3, <1>4, <2>1 DEF CallerInv, HoldsFresh
<1>8. SourceHonest'
  BY <1>0, HonestGiven
<1> QED
  BY <1>2, <1>5, <1>6, <1>7, <1>8 DEF SourceInv

-------------------------------------------------------------------------------
(* The source is honest always. *)

LEMMA SourceInit == ASSUME SourceAssumption, Init PROVE SourceInv
<1>1. Shape
  BY Durations, NoCallTyped, NoFetchTyped DEF Init, Shape, Snapshot, Never
<1>2. MainInv /\ SnapshotInv
  BY Durations DEF Init, MainInv, SnapshotInv
<1>3. RefreshInv
  BY NoFetchTyped DEF Init, RefreshInv
<1>4. CallerInv
  BY NoCallQuiet DEF Init, CallerInv
<1>5. SourceHonest
  BY HonestGiven DEF Init
<1> QED
  BY <1>1, <1>2, <1>3, <1>4, <1>5 DEF SourceInv

LEMMA SourceStutters == ASSUME SourceInv, UNCHANGED vars PROVE SourceInv'
<1>1. UNCHANGED <<clock, main, left, snapshot, refresh, invalid, caller, given>>
  BY DEF vars, github, adapter
<1>2. CallerInv' /\ SourceHonest'
  BY <1>1, SilentHonest
<1> QED
  BY <1>1, <1>2, FrameKept DEF SourceInv, Shape

LEMMA SourceNext == ASSUME SourceAssumption, SourceInv, [Next]_vars PROVE SourceInv'
<1>1. CASE UNCHANGED vars
  BY <1>1, SourceStutters
<1>2. CASE HeadRead \/ HeadArrives \/ HeadFails
  BY <1>2, HeadReadKeeps, HeadArrivesKeeps, HeadFailsKeeps
<1>3. CASE FileArrives \/ FileFails \/ RefreshTimer
  BY <1>3, FileArrivesKeeps, FileFailsKeeps, RefreshTimerKeeps
<1>4. CASE Push \/ Tick
  BY <1>4, PushKeeps, TickKeeps
<1>5. CASE \E c \in Callers : (\E kind \in Waits : Call(c, kind)) \/ GroupsArrive(c) \/ GroupsFail(c)
  BY <1>5, CallKeeps, GroupsArriveKeeps, GroupsFailKeeps
<1> QED
  BY <1>1, <1>2, <1>3, <1>4, <1>5 DEF Next

(* An answer without a stale mark was on main within the TTL and the time   *)
(* of the requests, a marked one within the stale window; both files of a   *)
(* base are of one commit; and no stale value takes the place of the commit *)
(* found invalid, whatever GitHub answers and however calls and pushes      *)
(* interleave (githubSsoAdapter.ts).                                        *)
THEOREM SourceHonestAlways == ASSUME SourceAssumption PROVE Spec => []SourceHonest
<1>1. SourceInv /\ [Next]_vars => SourceInv'
  BY SourceNext
<1>2. Init => SourceInv
  BY SourceInit
<1>3. SourceInv => SourceHonest
  BY DEF SourceInv
<1> QED
  BY <1>1, <1>2, <1>3, PTL DEF Spec

-------------------------------------------------------------------------------
(***************************************************************************)
(* GitHub transport.  For any callers, timeouts, backoffs and token life:  *)
(* the invariant bounds, for every phase of a call, by when what it waits  *)
(* for is over, says which token a second attempt carries and when it was  *)
(* last good, and that a pause is as long as the last answer asked for.    *)
(***************************************************************************)

TransportCall == [at : CallPhases, bearer : 0..MaxTokens, abortAt : 0..(MaxInstant + RequestTimeout),
              deadline : 0..Infinity, retried : BOOLEAN, began : 0..MaxInstant]

(* What the mint and the request of the first attempt may have taken. *)
Spent(x) == IF x.retried THEN 2 * RequestTimeout ELSE 0

(* By when a call in state x is over with what it waits for. *)
InTime(x) ==
  /\ x.at = "minting" => /\ mint # NoMint
                         /\ mint <= x.began + Spent(x) + RequestTimeout /\ mint <= x.deadline + RequestTimeout
  /\ x.at = "ready" => instant <= x.began + Spent(x) + RequestTimeout /\ instant <= x.deadline + RequestTimeout
  /\ x.at = "sent" => /\ instant <= x.abortAt
                      /\ x.abortAt <= x.began + Spent(x) + 2 * RequestTimeout /\ x.abortAt <= x.deadline
  /\ x.at = "more" => instant <= x.began + 4 * RequestTimeout /\ instant <= x.deadline

(* A second attempt has a token that was good, and stays so unless one is    *)
(* revoked.                                                                  *)
Renewed(c, x) ==
  /\ x.at # "idle" => c \notin refused
  /\ x.retried /\ x.at \in {"ready", "sent"} /\ c \notin dirty => x.bearer \notin revoked

CallInv(c, x) == InTime(x) /\ Renewed(c, x)

MintInv == mint # NoMint => instant <= mint /\ mint <= instant + RequestTimeout

PauseInv == limited.at + MinBackoff <= pausedUntil

TransportInv ==
  /\ TransportTypeOK /\ MintInv /\ PauseInv /\ RenewalWorks
  /\ \A c \in Contexts : CallInv(c, call[c])

-------------------------------------------------------------------------------
(* Types. *)

LEMMA TransportConstants ==
  ASSUME TransportAssumption
  PROVE  /\ RequestTimeout \in Nat /\ RequestTimeout >= 1 /\ Budget \in Nat /\ Budget >= 1
         /\ MinBackoff \in Nat /\ MinBackoff >= 1 /\ TokenLife \in Nat /\ TokenLife >= 1
         /\ BackoffLimit \in Nat /\ MinBackoff <= BackoffLimit
         /\ MaxInstant \in Nat /\ MaxTokens \in Nat
         /\ Infinity \in Nat /\ Infinity = MaxInstant + Budget + 1
  BY DEF TransportAssumption, Infinity

LEMMA RestingTyped == ASSUME TransportAssumption PROVE Resting \in TransportCall /\ Resting.at = "idle"
  BY TransportConstants DEF Resting, TransportCall, CallPhases

LEMMA RestingQuiet == ASSUME NEW c PROVE CallInv(c, Resting) /\ CallInv(c, Resting)'
  BY DEF CallInv, InTime, Renewed, Resting

LEMMA CallTyped ==
  ASSUME TransportTypeOK, NEW c \in Contexts
  PROVE  call[c] \in TransportCall
  BY DEF TransportTypeOK, TransportCall

(* A caller that a step does not touch keeps what is known of it, as long as *)
(* the mint it may wait for goes on and no token is revoked.                 *)
LEMMA Untouched ==
  ASSUME NEW c \in Contexts, NEW x \in TransportCall, CallInv(c, x),
         instant' = instant, x.at = "minting" => mint' = mint, revoked' = revoked,
         c \in dirty => c \in dirty', c \in refused' => c \in refused
  PROVE  CallInv(c, x)'
<1>1. InTime(x)'
  BY DEF CallInv, InTime, Spent
<1>2. Renewed(c, x)'
  BY DEF CallInv, Renewed
<1> QED
  BY <1>1, <1>2 DEF CallInv

(* A step of one caller. *)
LEMMA OneCaller ==
  ASSUME TransportInv, NEW c \in Contexts, NEW x \in TransportCall,
         call' = [call EXCEPT ![c] = x], CallInv(c, x)',
         instant' = instant, mint # NoMint => mint' = mint, revoked' = revoked,
         dirty \ {c} \subseteq dirty', refused' \subseteq refused \cup {c}
  PROVE  /\ call' \in [Contexts -> TransportCall]
         /\ \A d \in Contexts : CallInv(d, call[d])'
<1>1. call \in [Contexts -> TransportCall]
  BY DEF TransportInv, TransportTypeOK, TransportCall
<1>2. ASSUME NEW d \in Contexts PROVE CallInv(d, call[d])'
  <2>1. CASE d = c
    <3>1. call'[d] = x
      BY <1>1, <2>1
    <3> QED
      BY <3>1, <2>1
  <2>2. CASE d # c
    <3>1. call'[d] = call[d] /\ call[d] \in TransportCall /\ CallInv(d, call[d])
      BY <1>1, <2>2 DEF TransportInv
    <3>2. call[d].at = "minting" => mint' = mint
      BY <3>1 DEF CallInv, InTime
    <3>3. PICK y \in TransportCall : y = call[d]
      BY <3>1
    <3>4. CallInv(d, y)'
      BY <2>2, <3>1, <3>2, <3>3, Untouched
    <3>5. call'[d] = y
      BY <3>1, <3>3
    <3> QED
      BY <3>4, <3>5
  <2> QED
    BY <2>1, <2>2
<1> QED
  BY <1>1, <1>2

-------------------------------------------------------------------------------
(* send and installationToken. *)

LEMMA AbortTyped ==
  ASSUME TransportAssumption, TransportTypeOK, NEW d \in 0..Infinity, MaySend(d)
  PROVE  /\ AbortAt(d) \in 0..(MaxInstant + RequestTimeout) /\ AbortAt(d) # NoMint
         /\ instant <= AbortAt(d) /\ AbortAt(d) <= instant + RequestTimeout /\ AbortAt(d) <= d
<1>1. instant \in 0..MaxInstant /\ instant < d
  BY DEF TransportTypeOK, MaySend
<1> QED
  BY <1>1, TransportConstants DEF AbortAt, Earlier, NoMint

LEMMA PauseTyped ==
  ASSUME TransportAssumption, TransportTypeOK, NEW until \in ResetTimes, RateLimited(until)
  PROVE  /\ pausedUntil' \in 0..(MaxInstant + BackoffLimit) /\ limited' \in [at : Int, until : Int]
         /\ PauseInv'
<1>1. instant \in 0..MaxInstant /\ until \in Int /\ limited \in [at : Int, until : Int]
  BY TransportConstants DEF TransportTypeOK, ResetTimes
<1>2. pausedUntil' \in 0..(MaxInstant + BackoffLimit) /\ pausedUntil' >= instant + MinBackoff
  BY <1>1, TransportConstants DEF RateLimited, Pause, Earlier, Later
<1>3. limited' \in [at : Int, until : Int] /\ limited'.at = instant
  BY <1>1, TransportConstants DEF RateLimited, Earlier, Later
<1> QED
  BY <1>1, <1>2, <1>3, TransportConstants DEF PauseInv

(* Whoever asks for a token in time, and with a fresh start or a dropped     *)
(* token, is in time where installationToken leaves it.                      *)
LEMMA AcquireKeeps ==
  ASSUME TransportAssumption, TransportInv, NEW c \in Contexts,
         NEW began \in 0..MaxInstant, NEW deadline \in 0..Infinity, NEW retried \in BOOLEAN,
         NEW tok, tok = token \/ tok = NoToken,
         Acquire(c, began, deadline, retried, tok),
         instant' = instant, revoked' = revoked, c \notin refused',
         instant <= deadline, instant <= began + (IF retried THEN 2 * RequestTimeout ELSE 0),
         retried => tok = NoToken
  PROVE  /\ \E x \in TransportCall : call' = [call EXCEPT ![c] = x] /\ CallInv(c, x)'
         /\ mint' \in {NoMint} \cup 0..(MaxInstant + RequestTimeout) /\ MintInv'
         /\ mint # NoMint => mint' = mint
<1> DEFINE With(at, bearer) == [at |-> at, bearer |-> bearer, abortAt |-> 0, deadline |-> deadline,
                               retried |-> retried, began |-> began]
<1>1. /\ instant \in 0..MaxInstant /\ mint \in {NoMint} \cup 0..(MaxInstant + RequestTimeout) /\ MintInv
      /\ token \in [number : 0..MaxTokens, refreshAt : 0..(MaxInstant + TokenLife)] /\ TransportTypeOK
  BY DEF TransportInv, TransportTypeOK
<1>2. ASSUME NEW at \in CallPhases, NEW bearer \in 0..MaxTokens
      PROVE  /\ With(at, bearer) \in TransportCall
             /\ With(at, bearer).at = at /\ With(at, bearer).bearer = bearer
             /\ With(at, bearer).began = began /\ With(at, bearer).deadline = deadline
             /\ With(at, bearer).retried = retried
  <2>1. 0 \in 0..(MaxInstant + RequestTimeout)
    BY TransportConstants
  <2> QED
    BY <2>1 DEF TransportCall
<1>a. "ready" \in CallPhases /\ "minting" \in CallPhases /\ 0 \in 0..MaxTokens
  BY TransportConstants DEF CallPhases
<1> HIDE DEF With
<1>3. CASE /\ tok # NoToken /\ instant < tok.refreshAt
           /\ call' = [call EXCEPT ![c] = With("ready", tok.number)]
           /\ UNCHANGED mint
  <2>1. tok = token /\ ~retried /\ tok.number \in 0..MaxTokens
    BY <1>1, <1>3
  <2>2. PICK x \in TransportCall : x = With("ready", tok.number)
    BY <1>2, <1>a, <2>1
  <2>3. x.at = "ready" /\ x.began = began /\ x.deadline = deadline /\ x.retried = FALSE
    BY <1>2, <1>a, <2>1, <2>2
  <2>a. instant <= began
    BY <1>1, <2>1
  <2>4. InTime(x)'
    BY <1>1, <2>a, <2>3, TransportConstants DEF InTime, Spent
  <2>5. Renewed(c, x)'
    BY <2>3 DEF Renewed
  <2> QED
    BY <1>1, <1>3, <2>2, <2>4, <2>5 DEF CallInv, MintInv
<1>4. ASSUME call' = [call EXCEPT ![c] = With("minting", 0)],
             mint' \in 0..(MaxInstant + RequestTimeout), instant <= mint', mint' <= instant + RequestTimeout
      PROVE  /\ \E x \in TransportCall : call' = [call EXCEPT ![c] = x] /\ CallInv(c, x)'
             /\ MintInv'
  <2>1. PICK x \in TransportCall : x = With("minting", 0)
    BY <1>2, <1>a
  <2>2. x.at = "minting" /\ x.began = began /\ x.deadline = deadline /\ x.retried = retried
    BY <1>2, <1>a, <2>1
  <2>3. InTime(x)'
    BY <1>1, <1>4, <2>2, TransportConstants DEF InTime, Spent, NoMint
  <2>4. Renewed(c, x)'
    BY <2>2 DEF Renewed
  <2> QED
    BY <1>4, <2>1, <2>3, <2>4 DEF CallInv, MintInv
<1>5. CASE /\ mint # NoMint
           /\ call' = [call EXCEPT ![c] = With("minting", 0)]
           /\ UNCHANGED mint
  <2>1. mint' \in 0..(MaxInstant + RequestTimeout) /\ instant <= mint' /\ mint' <= instant + RequestTimeout
    BY <1>1, <1>5 DEF MintInv
  <2> QED
    BY <1>4, <1>5, <2>1
<1>6. CASE /\ mint = NoMint /\ MaySend(deadline)
           /\ mint' = AbortAt(deadline)
           /\ call' = [call EXCEPT ![c] = With("minting", 0)]
  <2>1. mint' \in 0..(MaxInstant + RequestTimeout) /\ instant <= mint' /\ mint' <= instant + RequestTimeout
    BY <1>1, <1>6, AbortTyped
  <2> QED
    BY <1>4, <1>6, <2>1
<1>7. CASE mint = NoMint /\ call' = [call EXCEPT ![c] = Resting] /\ UNCHANGED mint
  BY <1>1, <1>7, RestingTyped, RestingQuiet DEF MintInv
<1> QED
  BY <1>3, <1>5, <1>6, <1>7 DEF Acquire, With

-------------------------------------------------------------------------------
(* Steps of one caller. *)

TokenState == [number : 0..MaxTokens, refreshAt : 0..(MaxInstant + TokenLife)]
MintState  == {NoMint} \cup 0..(MaxInstant + RequestTimeout)

LEMMA TypedParts ==
  ASSUME TransportAssumption, TransportInv
  PROVE  /\ TransportTypeOK /\ instant \in 0..MaxInstant /\ call \in [Contexts -> TransportCall]
         /\ token \in TokenState /\ mint \in MintState /\ pausedUntil \in 0..(MaxInstant + BackoffLimit)
         /\ issued \in 0..MaxTokens /\ revoked \subseteq 1..issued
         /\ dirty \subseteq Contexts /\ refused \subseteq Contexts
         /\ limited \in [at : Int, until : Int]
         /\ MintInv /\ PauseInv /\ refused \subseteq dirty
         /\ NoToken \in TokenState
  BY TransportConstants DEF TransportInv, TransportTypeOK, TransportCall, TokenState, MintState, RenewalWorks, NoToken

(* What a caller's step has to establish; the other callers follow. *)
LEMMA CallerStep ==
  ASSUME TransportAssumption, TransportInv, NEW c \in Contexts, NEW x \in TransportCall,
         call' = [call EXCEPT ![c] = x], CallInv(c, x)',
         instant' = instant, issued' = issued, revoked' = revoked,
         mint # NoMint => mint' = mint, mint' \in MintState, MintInv', token' \in TokenState,
         \/ UNCHANGED <<pausedUntil, limited>>
         \/ \E until \in ResetTimes : RateLimited(until),
         dirty' = dirty \/ dirty' = dirty \ {c},
         refused' \subseteq refused \cup {c}, refused' \subseteq dirty'
  PROVE  TransportInv'
<1>1. /\ instant \in 0..MaxInstant /\ pausedUntil \in 0..(MaxInstant + BackoffLimit) /\ issued \in 0..MaxTokens
      /\ revoked \subseteq 1..issued /\ dirty \subseteq Contexts /\ refused \subseteq Contexts
      /\ limited \in [at : Int, until : Int] /\ TransportTypeOK /\ PauseInv
  BY TypedParts
<1>2. /\ call' \in [Contexts -> TransportCall]
      /\ \A d \in Contexts : CallInv(d, call[d])'
  BY OneCaller
<1>3. pausedUntil' \in 0..(MaxInstant + BackoffLimit) /\ limited' \in [at : Int, until : Int] /\ PauseInv'
  <2>1. CASE UNCHANGED <<pausedUntil, limited>>
    BY <1>1, <2>1 DEF PauseInv
  <2>2. CASE \E until \in ResetTimes : RateLimited(until)
    BY <1>1, <2>2, PauseTyped
  <2> QED
    BY <2>1, <2>2
<1>4. TransportTypeOK'
  BY <1>1, <1>2, <1>3 DEF TransportTypeOK, TransportCall, TokenState, MintState
<1> QED
  BY <1>2, <1>3, <1>4 DEF TransportInv, RenewalWorks

(* The step that only ends a call. *)
LEMMA EndStep ==
  ASSUME TransportAssumption, TransportInv, NEW c \in Contexts,
         call' = [call EXCEPT ![c] = Resting],
         UNCHANGED <<instant, issued, revoked, mint, token, dirty>>,
         \/ UNCHANGED <<pausedUntil, limited>>
         \/ \E until \in ResetTimes : RateLimited(until),
         refused' \subseteq refused \cup {c}, refused' \subseteq dirty
  PROVE  TransportInv'
<1>1. PICK x \in TransportCall : x = Resting
  BY RestingTyped
<1>2. CallInv(c, x)'
  BY <1>1, RestingQuiet
<1>3. token \in TokenState /\ mint \in MintState /\ MintInv
  BY TypedParts
<1>4. MintInv'
  BY <1>3 DEF MintInv
<1> QED
  BY <1>1, <1>2, <1>3, <1>4, CallerStep

(* The step that asks for a token. *)
LEMMA AcquireStep ==
  ASSUME TransportAssumption, TransportInv, NEW c \in Contexts,
         NEW began \in 0..MaxInstant, NEW deadline \in 0..Infinity, NEW retried \in BOOLEAN,
         NEW tok, tok = token \/ tok = NoToken,
         Acquire(c, began, deadline, retried, tok),
         UNCHANGED <<instant, issued, revoked, pausedUntil, limited>>, token' \in TokenState,
         dirty' = dirty \/ dirty' = dirty \ {c},
         c \notin refused', refused' \subseteq refused, refused' \subseteq dirty',
         instant <= deadline, instant <= began + (IF retried THEN 2 * RequestTimeout ELSE 0),
         retried => tok = NoToken
  PROVE  TransportInv'
<1>1. /\ \E x \in TransportCall : call' = [call EXCEPT ![c] = x] /\ CallInv(c, x)'
      /\ mint' \in MintState /\ MintInv' /\ (mint # NoMint => mint' = mint)
  BY AcquireKeeps DEF MintState
<1>2. PICK x \in TransportCall : call' = [call EXCEPT ![c] = x] /\ CallInv(c, x)'
  BY <1>1
<1> QED
  BY <1>1, <1>2, CallerStep

LEMMA BeginKeeps ==
  ASSUME TransportAssumption, TransportInv, NEW c \in Contexts, Begin(c)
  PROVE  TransportInv'
<1> DEFINE d == IF c \in Writers THEN instant + Budget ELSE Infinity
<1>1. instant \in 0..MaxInstant /\ token \in TokenState /\ refused \subseteq dirty
  BY TypedParts
<1>2. d \in 0..Infinity /\ instant <= d
  BY <1>1, TransportConstants
<1>3. /\ Acquire(c, instant, d, FALSE, token)
      /\ dirty' = dirty \ {c} /\ refused' = refused \ {c}
      /\ UNCHANGED <<instant, token, pausedUntil, issued, revoked, limited>>
  BY DEF Begin, githubState
<1> HIDE DEF d
<1>4. PICK n \in 0..MaxInstant : n = instant
  BY <1>1
<1>5. PICK e \in 0..Infinity : e = d
  BY <1>2
<1>6. PICK tok : tok = token
  OBVIOUS
<1>7. Acquire(c, n, e, FALSE, tok)
  BY <1>3, <1>4, <1>5, <1>6, Zenon
<1>8. instant <= e /\ instant <= n + (IF FALSE THEN 2 * RequestTimeout ELSE 0)
  BY <1>1, <1>2, <1>4, <1>5
<1>9. c \notin refused' /\ refused' \subseteq refused /\ refused' \subseteq dirty' /\ token' \in TokenState
  BY <1>1, <1>3
<1> QED
  BY <1>3, <1>6, <1>7, <1>8, <1>9, AcquireStep

LEMMA NextCallKeeps ==
  ASSUME TransportAssumption, TransportInv, NEW c \in Contexts, NextCall(c)
  PROVE  TransportInv'
<1>1. /\ instant \in 0..MaxInstant /\ token \in TokenState /\ refused \subseteq dirty
      /\ call[c] \in TransportCall /\ CallInv(c, call[c])
  BY TypedParts DEF TransportInv
<1>2. call[c].at = "more" /\ UNCHANGED <<instant, token, pausedUntil, issued, revoked, limited, refused>>
  BY DEF NextCall, githubState
<1>3. c \notin refused /\ instant <= call[c].deadline
  BY <1>1, <1>2 DEF CallInv, InTime, Renewed
<1>4. CASE Acquire(c, instant, call[c].deadline, FALSE, token) /\ dirty' = dirty \ {c}
  <2>1. PICK n \in 0..MaxInstant : n = instant
    BY <1>1
  <2>2. PICK e \in 0..Infinity : e = call[c].deadline
    BY <1>1 DEF TransportCall
  <2>3. PICK tok : tok = token
    OBVIOUS
  <2>4. Acquire(c, n, e, FALSE, tok)
    BY <1>4, <2>1, <2>2, <2>3, Zenon
  <2>5. instant <= e /\ instant <= n + (IF FALSE THEN 2 * RequestTimeout ELSE 0)
    BY <1>1, <1>3, <2>1, <2>2
  <2>6. c \notin refused' /\ refused' \subseteq refused /\ refused' \subseteq dirty' /\ token' \in TokenState
    BY <1>1, <1>2, <1>3, <1>4
  <2> QED
    BY <1>2, <1>4, <2>3, <2>4, <2>5, <2>6, AcquireStep
<1>5. CASE call' = [call EXCEPT ![c] = Resting] /\ UNCHANGED <<mint, dirty>>
  BY <1>1, <1>2, <1>5, EndStep
<1> QED
  BY <1>4, <1>5 DEF NextCall

LEMMA SendKeeps ==
  ASSUME TransportAssumption, TransportInv, NEW c \in Contexts, SendCall(c)
  PROVE  TransportInv'
<1>1. /\ instant \in 0..MaxInstant /\ token \in TokenState /\ refused \subseteq dirty /\ TransportTypeOK
      /\ call[c] \in TransportCall /\ CallInv(c, call[c]) /\ call \in [Contexts -> TransportCall]
      /\ mint \in MintState /\ MintInv
  BY TypedParts DEF TransportInv
<1>2. call[c].at = "ready"
      /\ UNCHANGED <<instant, token, mint, pausedUntil, issued, revoked, dirty, limited, refused>>
  BY DEF SendCall, githubState, transportHistory
<1>3. CASE MaySend(call[c].deadline)
  <2>1. PICK e \in 0..Infinity : e = call[c].deadline
    BY <1>1 DEF TransportCall
  <2>2. /\ AbortAt(e) \in 0..(MaxInstant + RequestTimeout)
        /\ instant <= AbortAt(e) /\ AbortAt(e) <= instant + RequestTimeout /\ AbortAt(e) <= e
    BY <1>1, <1>3, <2>1, AbortTyped
  <2>3. PICK n \in 0..(MaxInstant + RequestTimeout) : n = AbortAt(e)
    BY <2>2
  <2>4. call' = [call EXCEPT ![c] = [call[c] EXCEPT !.at = "sent", !.abortAt = n]]
    BY <1>1, <1>3, <2>1, <2>3 DEF SendCall
  <2>5. PICK x \in TransportCall : x = [call[c] EXCEPT !.at = "sent", !.abortAt = n]
    BY <1>1 DEF TransportCall, CallPhases
  <2>6. /\ x.at = "sent" /\ x.abortAt = n /\ x.began = call[c].began /\ x.deadline = e
        /\ x.retried = call[c].retried /\ x.bearer = call[c].bearer
    BY <1>1, <2>1, <2>5 DEF TransportCall
  <2>7. InTime(x)'
    BY <1>1, <1>2, <2>2, <2>3, <2>6, TransportConstants DEF CallInv, InTime, Spent, TransportCall
  <2>8. Renewed(c, x)'
    BY <1>1, <1>2, <2>6 DEF CallInv, Renewed
  <2>9. MintInv' /\ mint' \in MintState /\ token' \in TokenState
    BY <1>1, <1>2 DEF MintInv
  <2> QED
    BY <1>1, <1>2, <2>4, <2>5, <2>7, <2>8, <2>9, CallerStep DEF CallInv
<1>4. CASE ~MaySend(call[c].deadline)
  <2>1. call' = [call EXCEPT ![c] = Resting]
    BY <1>4 DEF SendCall
  <2> QED
    BY <1>1, <1>2, <2>1, EndStep
<1> QED
  BY <1>3, <1>4

(* The 401: the second one only reaches a caller during whose call a token    *)
(* was revoked, and the first one asks with nothing left to share.            *)
LEMMA UnauthorizedKeeps ==
  ASSUME TransportAssumption, TransportInv, NEW c \in Contexts,
         call[c].at = "sent", call[c].bearer \in revoked, Unauthorized(c),
         UNCHANGED <<instant, issued, revoked, pausedUntil, limited, dirty>>
  PROVE  TransportInv'
<1>1. /\ instant \in 0..MaxInstant /\ refused \subseteq dirty /\ NoToken \in TokenState
      /\ call[c] \in TransportCall /\ CallInv(c, call[c])
  BY TypedParts DEF TransportInv
<1>2. CASE call[c].retried
  <2>1. c \in dirty
    BY <1>1, <1>2 DEF CallInv, Renewed
  <2>2. call' = [call EXCEPT ![c] = Resting] /\ refused' = refused \cup {c} /\ UNCHANGED <<token, mint>>
    BY <1>2 DEF Unauthorized
  <2> QED
    BY <1>1, <2>1, <2>2, EndStep
<1>3. CASE ~call[c].retried
  <2>1. /\ token' = NoToken /\ UNCHANGED refused
        /\ Acquire(c, call[c].began, call[c].deadline, TRUE, NoToken)
    BY <1>3 DEF Unauthorized
  <2>2. PICK n \in 0..MaxInstant : n = call[c].began
    BY <1>1 DEF TransportCall
  <2>3. PICK e \in 0..Infinity : e = call[c].deadline
    BY <1>1 DEF TransportCall
  <2>4. PICK tok : tok = NoToken
    OBVIOUS
  <2>5. Acquire(c, n, e, TRUE, tok)
    BY <2>1, <2>2, <2>3, <2>4, Zenon
  <2>6. Spent(call[c]) = 0
    BY <1>3 DEF Spent
  <2>7. /\ instant <= call[c].abortAt /\ call[c].abortAt <= call[c].began + Spent(call[c]) + 2 * RequestTimeout
        /\ call[c].abortAt <= call[c].deadline /\ c \notin refused
    BY <1>1 DEF CallInv, InTime, Renewed
  <2>8. call[c].abortAt \in Nat
    BY <1>1, TransportConstants DEF TransportCall
  <2>9. instant <= e /\ instant <= n + (IF TRUE THEN 2 * RequestTimeout ELSE 0)
    BY <1>1, <2>2, <2>3, <2>6, <2>7, <2>8, TransportConstants
  <2>10. c \notin refused' /\ refused' \subseteq refused /\ refused' \subseteq dirty' /\ token' \in TokenState
    BY <1>1, <2>1, <2>7
  <2> QED
    BY <2>4, <2>5, <2>9, <2>10, AcquireStep
<1> QED
  BY <1>2, <1>3

LEMMA AnswerKeeps ==
  ASSUME TransportAssumption, TransportInv, NEW c \in Contexts, CallAnswer(c)
  PROVE  TransportInv'
<1>1. /\ instant \in 0..MaxInstant /\ refused \subseteq dirty /\ token \in TokenState
      /\ mint \in MintState /\ MintInv
      /\ call[c] \in TransportCall /\ CallInv(c, call[c]) /\ call \in [Contexts -> TransportCall]
  BY TypedParts DEF TransportInv
<1>2. call[c].at = "sent" /\ UNCHANGED <<instant, issued, revoked, dirty>>
  BY DEF CallAnswer, githubState
<1>3. CASE call[c].bearer \in revoked /\ Unauthorized(c) /\ UNCHANGED <<pausedUntil, limited>>
  BY <1>2, <1>3, UnauthorizedKeeps
<1>4. CASE call' = Replied(c) /\ UNCHANGED <<token, mint, pausedUntil, limited, refused>>
  <2>1. CASE c \in Writers
    <3>1. call' = [call EXCEPT ![c] = [call[c] EXCEPT !.at = "more"]]
      BY <1>1, <1>4, <2>1 DEF Replied
    <3>2. PICK x \in TransportCall : x = [call[c] EXCEPT !.at = "more"]
      BY <1>1 DEF TransportCall, CallPhases
    <3>3. x.at = "more" /\ x.began = call[c].began /\ x.deadline = call[c].deadline
      BY <1>1, <3>2 DEF TransportCall
    <3>4. /\ instant <= call[c].abortAt /\ call[c].abortAt <= call[c].began + Spent(call[c]) + 2 * RequestTimeout
          /\ call[c].abortAt <= call[c].deadline /\ c \notin refused
      BY <1>1, <1>2 DEF CallInv, InTime, Renewed
    <3>5. call[c].abortAt \in Nat /\ call[c].began \in Nat /\ call[c].deadline \in Nat
      BY <1>1, TransportConstants DEF TransportCall
    <3>6. Spent(call[c]) = 0 \/ Spent(call[c]) = 2 * RequestTimeout
      BY DEF Spent
    <3>7. instant <= call[c].began + 4 * RequestTimeout /\ instant <= call[c].deadline
      BY <1>1, <3>4, <3>5, <3>6, TransportConstants
    <3>8. InTime(x)'
      BY <1>2, <3>3, <3>7 DEF InTime
    <3>9. Renewed(c, x)'
      BY <1>4, <3>3, <3>4 DEF Renewed
    <3>10. MintInv' /\ mint' \in MintState /\ token' \in TokenState
      BY <1>1, <1>2, <1>4 DEF MintInv
    <3> QED
      BY <1>1, <1>2, <1>4, <3>1, <3>2, <3>8, <3>9, <3>10, CallerStep DEF CallInv
  <2>2. CASE c \notin Writers
    <3>1. call' = [call EXCEPT ![c] = Resting]
      BY <1>4, <2>2 DEF Replied
    <3> QED
      BY <1>1, <1>2, <1>4, <3>1, EndStep
  <2> QED
    BY <2>1, <2>2
<1>5. CASE /\ \E until \in ResetTimes : RateLimited(until)
           /\ call' = [call EXCEPT ![c] = Resting]
           /\ UNCHANGED <<token, mint, refused>>
  BY <1>1, <1>2, <1>5, EndStep
<1>6. CASE /\ call' = [call EXCEPT ![c] = Resting]
           /\ UNCHANGED <<token, mint, pausedUntil, limited, refused>>
  BY <1>1, <1>2, <1>6, EndStep
<1> QED
  BY <1>3, <1>4, <1>5, <1>6 DEF CallAnswer

LEMMA CallTimerKeeps ==
  ASSUME TransportAssumption, TransportInv, NEW c \in Contexts, CallTimer(c)
  PROVE  TransportInv'
<1>1. /\ call' = [call EXCEPT ![c] = Resting]
      /\ UNCHANGED <<instant, token, mint, pausedUntil, issued, revoked, dirty, limited, refused>>
  BY DEF CallTimer, githubState, transportHistory
<1>2. refused \subseteq dirty
  BY TypedParts
<1> QED
  BY <1>1, <1>2, EndStep

-------------------------------------------------------------------------------
(* Steps of the mint, of GitHub and of time. *)

(* Everybody waits for the same mint, so everybody moves when it ends. *)
LEMMA MintEnds ==
  ASSUME TransportAssumption, TransportInv, NEW woken \in [Contexts -> TransportCall],
         mint # NoMint, mint' = NoMint,
         call' = [c \in Contexts |-> IF c \in AwaitingMint THEN woken[c] ELSE call[c]],
         \A c \in AwaitingMint : CallInv(c, woken[c])',
         instant' = instant, revoked' = revoked, dirty' = dirty, refused' = refused,
         token' \in TokenState, issued' \in 0..MaxTokens, issued <= issued',
         \/ UNCHANGED <<pausedUntil, limited>>
         \/ \E until \in ResetTimes : RateLimited(until)
  PROVE  TransportInv'
<1>1. /\ instant \in 0..MaxInstant /\ pausedUntil \in 0..(MaxInstant + BackoffLimit) /\ issued \in 0..MaxTokens
      /\ revoked \subseteq 1..issued /\ dirty \subseteq Contexts /\ refused \subseteq Contexts
      /\ limited \in [at : Int, until : Int] /\ TransportTypeOK /\ PauseInv /\ refused \subseteq dirty
      /\ call \in [Contexts -> TransportCall]
  BY TypedParts
<1>2. pausedUntil' \in 0..(MaxInstant + BackoffLimit) /\ limited' \in [at : Int, until : Int] /\ PauseInv'
  <2>1. CASE UNCHANGED <<pausedUntil, limited>>
    BY <1>1, <2>1 DEF PauseInv
  <2>2. CASE \E until \in ResetTimes : RateLimited(until)
    BY <1>1, <2>2, PauseTyped
  <2> QED
    BY <2>1, <2>2
<1>3. ASSUME NEW c \in Contexts PROVE call'[c] \in TransportCall /\ CallInv(c, call[c])'
  <2>1. CASE c \in AwaitingMint
    <3>1. call'[c] = woken[c] /\ woken[c] \in TransportCall /\ CallInv(c, woken[c])'
      BY <2>1
    <3> QED
      BY <3>1
  <2>2. CASE c \notin AwaitingMint
    <3>1. call'[c] = call[c] /\ call[c] \in TransportCall /\ CallInv(c, call[c]) /\ call[c].at # "minting"
      BY <1>1, <2>2 DEF TransportInv, AwaitingMint
    <3>2. PICK x \in TransportCall : x = call[c]
      BY <3>1
    <3>3. CallInv(c, x)'
      BY <3>1, <3>2, Untouched
    <3> QED
      BY <3>1, <3>2, <3>3
  <2> QED
    BY <2>1, <2>2
<1>4. call' \in [Contexts -> TransportCall]
  <2>1. ASSUME NEW c \in Contexts PROVE (IF c \in AwaitingMint THEN woken[c] ELSE call[c]) \in TransportCall
    BY <1>1, <2>1
  <2> QED
    BY <2>1
<1>5. revoked' \subseteq 1..issued'
  BY <1>1
<1>6. TransportTypeOK'
  BY <1>1, <1>2, <1>4, <1>5 DEF TransportTypeOK, TransportCall, TokenState
<1>7. MintInv'
  BY DEF MintInv
<1> QED
  BY <1>1, <1>2, <1>3, <1>6, <1>7 DEF TransportInv, RenewalWorks

LEMMA MintFailsKeeps ==
  ASSUME TransportAssumption, TransportInv, mint # NoMint, MintFails,
         UNCHANGED <<instant, issued, revoked, dirty, refused>>,
         \/ UNCHANGED <<pausedUntil, limited>>
         \/ \E until \in ResetTimes : RateLimited(until)
  PROVE  TransportInv'
<1>1. token \in TokenState /\ issued \in 0..MaxTokens
  BY TypedParts
<1>2. PICK woken \in [Contexts -> TransportCall] : woken = [c \in Contexts |-> Resting]
  BY RestingTyped
<1>3. /\ mint' = NoMint /\ token' = token
      /\ call' = [c \in Contexts |-> IF c \in AwaitingMint THEN woken[c] ELSE call[c]]
  BY <1>2 DEF MintFails
<1>4. ASSUME NEW c \in AwaitingMint PROVE CallInv(c, woken[c])'
  <2>1. woken[c] = Resting
    BY <1>2, <1>4 DEF AwaitingMint
  <2> QED
    BY <2>1, RestingQuiet
<1>5. token' \in TokenState /\ issued' \in 0..MaxTokens /\ issued <= issued'
  BY <1>1, <1>3
<1> QED
  BY <1>3, <1>4, <1>5, MintEnds

LEMMA MintAnswerKeeps ==
  ASSUME TransportAssumption, TransportInv, MintAnswer
  PROVE  TransportInv'
<1>1. /\ instant \in 0..MaxInstant /\ issued \in 0..MaxTokens /\ revoked \subseteq 1..issued
      /\ call \in [Contexts -> TransportCall] /\ mint \in MintState /\ MintInv
  BY TypedParts
<1>2. mint # NoMint /\ UNCHANGED <<instant, revoked, dirty, refused>>
  BY DEF MintAnswer
<1>3. CASE /\ issued < MaxTokens
           /\ issued' = issued + 1
           /\ token' = [number |-> issued', refreshAt |-> instant + TokenLife]
           /\ mint' = NoMint
           /\ call' = [c \in Contexts |->
                         IF c \in AwaitingMint THEN [call[c] EXCEPT !.at = "ready", !.bearer = issued']
                                         ELSE call[c]]
           /\ UNCHANGED <<pausedUntil, limited>>
  <2>a. /\ issued < MaxTokens /\ issued' = issued + 1 /\ mint' = NoMint /\ UNCHANGED <<pausedUntil, limited>>
        /\ token' = [number |-> issued', refreshAt |-> instant + TokenLife]
    BY <1>3, Zenon
  <2>1. PICK n \in 0..MaxTokens : n = issued' /\ n \notin revoked /\ issued <= n
    BY <1>1, <2>a, TransportConstants
  <2>2. [number |-> n, refreshAt |-> instant + TokenLife] \in TokenState
    BY <1>1, <2>1, TransportConstants DEF TokenState
  <2>3. token' \in TokenState /\ issued' \in 0..MaxTokens /\ issued <= issued'
    BY <2>a, <2>1, <2>2
  <2>4. ASSUME NEW x \in TransportCall PROVE [x EXCEPT !.at = "ready", !.bearer = n] \in TransportCall
    BY DEF TransportCall, CallPhases
  <2>5. PICK woken \in [Contexts -> TransportCall] :
          woken = [c \in Contexts |-> [call[c] EXCEPT !.at = "ready", !.bearer = n]]
    BY <1>1, <2>4
  <2>6. call' = [c \in Contexts |-> IF c \in AwaitingMint THEN woken[c] ELSE call[c]]
    BY <1>3, <2>1, <2>5, Zenon
  <2>7. ASSUME NEW c \in AwaitingMint PROVE CallInv(c, woken[c])'
    <3>1. c \in Contexts /\ call[c] \in TransportCall /\ CallInv(c, call[c]) /\ call[c].at = "minting"
      BY <1>1, <2>7 DEF AwaitingMint, TransportInv
    <3>2. PICK x \in TransportCall : x = woken[c]
      BY <3>1
    <3>3. x = [call[c] EXCEPT !.at = "ready", !.bearer = n]
      BY <2>5, <3>1, <3>2
    <3>4. /\ x.at = "ready" /\ x.bearer = n /\ x.began = call[c].began
          /\ x.deadline = call[c].deadline /\ x.retried = call[c].retried
      BY <3>1, <3>3 DEF TransportCall
    <3>5. /\ mint \in Nat /\ instant <= mint /\ c \notin refused
          /\ mint <= x.began + Spent(x) + RequestTimeout /\ mint <= x.deadline + RequestTimeout
      BY <1>1, <1>2, <3>1, <3>4, TransportConstants DEF CallInv, InTime, Spent, Renewed, MintInv, MintState
    <3>6. x.began \in Nat /\ x.deadline \in Nat
      BY TransportConstants DEF TransportCall
    <3>7. Spent(x) \in Nat
      BY TransportConstants DEF Spent
    <3>8. instant <= x.began + Spent(x) + RequestTimeout /\ instant <= x.deadline + RequestTimeout
      BY <1>1, <3>5, <3>6, <3>7, TransportConstants
    <3>9. InTime(x)'
      BY <1>2, <3>4, <3>8 DEF InTime, Spent
    <3>10. Renewed(c, x)'
      BY <1>2, <2>1, <3>4, <3>5 DEF Renewed
    <3> QED
      BY <3>2, <3>9, <3>10 DEF CallInv
  <2> QED
    BY <1>2, <2>a, <2>3, <2>6, <2>7, MintEnds
<1>4. CASE /\ \E until \in ResetTimes : RateLimited(until)
           /\ MintFails
           /\ UNCHANGED issued
  BY <1>2, <1>4, MintFailsKeeps
<1>5. CASE MintFails /\ UNCHANGED <<issued, pausedUntil, limited>>
  BY <1>2, <1>5, MintFailsKeeps
<1> QED
  BY <1>3, <1>4, <1>5 DEF MintAnswer

LEMMA MintTimerKeeps ==
  ASSUME TransportAssumption, TransportInv, MintTimer
  PROVE  TransportInv'
<1>1. instant \in 0..MaxInstant
  BY TypedParts
<1>2. /\ mint = instant /\ MintFails
      /\ UNCHANGED <<instant, pausedUntil, issued, revoked, dirty, limited, refused>>
  BY DEF MintTimer, githubState, transportHistory
<1>3. mint # NoMint
  BY <1>1, <1>2 DEF NoMint
<1> QED
  BY <1>2, <1>3, MintFailsKeeps

(* A revocation marks every caller that is busy, whatever its token. *)
LEMMA RevokeKeeps ==
  ASSUME TransportAssumption, TransportInv, Revoke
  PROVE  TransportInv'
<1>1. TransportTypeOK /\ call \in [Contexts -> TransportCall] /\ MintInv /\ PauseInv /\ refused \subseteq dirty
  BY TypedParts
<1>2. /\ UNCHANGED <<instant, call, token, mint, pausedUntil, issued, limited, refused>>
      /\ dirty' = dirty \cup {c \in Contexts : call[c].at # "idle"}
  BY DEF Revoke, clientState
<1>3. revoked' \subseteq 1..issued
  BY <1>1 DEF Revoke, TransportTypeOK
<1>4. ASSUME NEW c \in Contexts PROVE CallInv(c, call[c])'
  <2>1. PICK x \in TransportCall : x = call[c]
    BY <1>1
  <2>2. CallInv(c, x)
    BY <2>1 DEF TransportInv
  <2>3. x.at # "idle" => c \in dirty'
    BY <1>2, <2>1
  <2>4. InTime(x)'
    BY <1>2, <2>2 DEF CallInv, InTime, Spent
  <2>5. Renewed(c, x)'
    BY <1>2, <2>2, <2>3 DEF CallInv, Renewed
  <2>6. call'[c] = x
    BY <1>2, <2>1
  <2> QED
    BY <2>4, <2>5, <2>6 DEF CallInv
<1>5. TransportTypeOK'
  BY <1>1, <1>2, <1>3 DEF TransportTypeOK
<1>6. MintInv' /\ PauseInv' /\ RenewalWorks'
  BY <1>1, <1>2 DEF MintInv, PauseInv, RenewalWorks
<1> QED
  BY <1>4, <1>5, <1>6 DEF TransportInv

(* Time does not pass the expiry of a mint or a request. *)
LEMMA TransportTickKeeps ==
  ASSUME TransportAssumption, TransportInv, TransportTick
  PROVE  TransportInv'
<1>1. /\ TransportTypeOK /\ call \in [Contexts -> TransportCall] /\ MintInv /\ PauseInv /\ refused \subseteq dirty
      /\ instant \in 0..MaxInstant /\ mint \in MintState
  BY TypedParts
<1>2. /\ UNCHANGED <<call, token, mint, pausedUntil, issued, revoked, dirty, limited, refused>>
      /\ instant' = instant + 1 /\ instant < MaxInstant /\ mint # instant
  BY DEF TransportTick, clientState, githubState, transportHistory
<1>3. ASSUME NEW c \in Contexts PROVE CallInv(c, call[c])'
  <2>1. PICK x \in TransportCall : x = call[c]
    BY <1>1
  <2>2. CallInv(c, x) /\ x.at \notin {"ready", "more"} /\ (x.at = "sent" => x.abortAt # instant)
    BY <2>1 DEF TransportInv, TransportTick
  <2>3. x.abortAt \in Nat
    BY TransportConstants DEF TransportCall
  <2>4. InTime(x)'
    BY <1>1, <1>2, <2>2, <2>3 DEF CallInv, InTime, Spent
  <2>5. Renewed(c, x)'
    BY <1>2, <2>2 DEF CallInv, Renewed
  <2>6. call'[c] = x
    BY <1>2, <2>1
  <2> QED
    BY <2>4, <2>5, <2>6 DEF CallInv
<1>4. TransportTypeOK'
  BY <1>1, <1>2, TransportConstants DEF TransportTypeOK
<1>5. MintInv'
  BY <1>1, <1>2, TransportConstants DEF MintInv, MintState
<1>6. PauseInv' /\ RenewalWorks'
  BY <1>1, <1>2 DEF PauseInv, RenewalWorks
<1> QED
  BY <1>3, <1>4, <1>5, <1>6 DEF TransportInv

LEMMA TransportStarts ==
  ASSUME TransportAssumption, TransportInit
  PROVE  TransportInv
<1>1. \A c \in Contexts : call[c] = Resting
  BY DEF TransportInit
<1>2. \A c \in Contexts : CallInv(c, call[c])
  BY <1>1, RestingQuiet
<1>3. call \in [Contexts -> TransportCall]
  BY RestingTyped DEF TransportInit
<1>4. TransportTypeOK
  BY <1>3, TransportConstants DEF TransportInit, TransportTypeOK, TransportCall, NoToken, NoMint
<1>5. MintInv /\ PauseInv /\ RenewalWorks
  BY TransportConstants DEF TransportInit, MintInv, PauseInv, RenewalWorks
<1> QED
  BY <1>2, <1>4, <1>5 DEF TransportInv

LEMMA TransportKept ==
  ASSUME TransportAssumption, TransportInv, [TransportNext]_transportVars
  PROVE  TransportInv'
<1>1. CASE TransportNext
  BY <1>1, TransportTickKeeps, RevokeKeeps, MintAnswerKeeps, MintTimerKeeps, BeginKeeps, NextCallKeeps,
     SendKeeps, AnswerKeeps, CallTimerKeeps DEF TransportNext
<1>2. CASE UNCHANGED transportVars
  <2>1. UNCHANGED <<instant, call, token, mint, pausedUntil, issued, revoked, dirty, limited, refused>>
    BY <1>2 DEF transportVars, clientState, githubState, transportHistory
  <2>2. TransportTypeOK' /\ MintInv' /\ PauseInv' /\ RenewalWorks'
    BY <2>1 DEF TransportInv, TransportTypeOK, MintInv, PauseInv, RenewalWorks
  <2>3. ASSUME NEW c \in Contexts PROVE CallInv(c, call[c])'
    BY <2>1 DEF TransportInv, CallInv, InTime, Renewed, Spent
  <2> QED
    BY <2>2, <2>3 DEF TransportInv
<1> QED
  BY <1>1, <1>2

-------------------------------------------------------------------------------
(* What the invariant gives. *)

LEMMA InTimeGives ==
  ASSUME TransportAssumption, TransportInv
  PROVE  CallsEndInTime
<1> SUFFICES ASSUME NEW c \in Contexts, InCall(c)
             PROVE  /\ instant <= call[c].began + 4 * RequestTimeout
                    /\ instant <= call[c].deadline + RequestTimeout
  BY DEF CallsEndInTime
<1>1. /\ call[c] \in TransportCall /\ CallInv(c, call[c]) /\ call[c].at # "idle"
      /\ instant \in 0..MaxInstant /\ mint \in MintState /\ MintInv
  BY TypedParts DEF TransportInv, InCall
<1>2. /\ call[c].began \in Nat /\ call[c].deadline \in Nat /\ call[c].abortAt \in Nat
      /\ call[c].at \in {"minting", "ready", "sent", "more"}
  BY <1>1, TransportConstants DEF TransportCall, CallPhases
<1>3. Spent(call[c]) = 0 \/ Spent(call[c]) = 2 * RequestTimeout
  BY DEF Spent
<1>4. InTime(call[c])
  BY <1>1 DEF CallInv
<1>5. CASE call[c].at = "minting"
  <2>1. /\ mint # NoMint /\ mint <= call[c].began + Spent(call[c]) + RequestTimeout
        /\ mint <= call[c].deadline + RequestTimeout
    BY <1>4, <1>5 DEF InTime
  <2>2. instant <= mint /\ mint \in Nat
    BY <1>1, <2>1, TransportConstants DEF MintInv, MintState
  <2> QED
    BY <1>1, <1>2, <1>3, <2>1, <2>2, TransportConstants
<1>6. CASE call[c].at = "ready"
  BY <1>1, <1>2, <1>3, <1>4, <1>6, TransportConstants DEF InTime
<1>7. CASE call[c].at = "sent"
  BY <1>1, <1>2, <1>3, <1>4, <1>7, TransportConstants DEF InTime
<1>8. CASE call[c].at = "more"
  BY <1>1, <1>2, <1>4, <1>8, TransportConstants DEF InTime
<1> QED
  BY <1>2, <1>5, <1>6, <1>7, <1>8

(* A mint begins and a request goes out only behind MaySend. *)
LEMMA SendsMaySend ==
  ASSUME TransportInv, TransportAssumption, TransportNext, Sends
  PROVE  instant >= pausedUntil
<1>0. call \in [Contexts -> TransportCall] /\ IsFiniteSet(Contexts)
  BY TypedParts DEF TransportAssumption
<1>1. ASSUME NEW c \in Contexts, NEW began, NEW deadline, NEW retried, NEW tok,
             Acquire(c, began, deadline, retried, tok)
      PROVE  instant >= pausedUntil
  <2>1. mint' = mint \/ MaySend(deadline)
    BY <1>1 DEF Acquire
  <2>2. \A d \in Contexts : call'[d].at = "sent" => call[d].at = "sent"
    BY <1>0, <1>1 DEF Acquire, Resting
  <2>3. Outgoing' \subseteq Outgoing
    BY <2>2 DEF Outgoing
  <2> QED
    BY <2>1, <2>3 DEF Sends, MaySend
<1>2. ASSUME UNCHANGED <<call, mint>> PROVE FALSE
  BY <1>2 DEF Sends, Outgoing
<1>3. ASSUME NEW c \in Contexts, NEW x, call' = [call EXCEPT ![c] = x], x.at # "sent", UNCHANGED mint
      PROVE  FALSE
  BY <1>0, <1>3 DEF Sends, Outgoing
<1>4. ASSUME MintFails PROVE FALSE
  BY <1>0, <1>4 DEF MintFails, Sends, Outgoing, Resting
<1>5. ASSUME MintAnswer PROVE FALSE
  BY <1>0, <1>4, <1>5 DEF MintAnswer, Sends, Outgoing, AwaitingMint, TransportCall
<1>6. ASSUME NEW c \in Contexts, Begin(c) \/ NextCall(c) PROVE instant >= pausedUntil
  BY <1>1, <1>3, <1>6, RestingTyped DEF Begin, NextCall
<1>7. ASSUME NEW c \in Contexts, SendCall(c) PROVE instant >= pausedUntil
  <2>1. CASE MaySend(call[c].deadline)
    BY <2>1 DEF MaySend
  <2>2. CASE ~MaySend(call[c].deadline)
    BY <1>3, <1>7, <2>2, RestingTyped DEF SendCall
  <2> QED
    BY <2>1, <2>2
<1>8. ASSUME NEW c \in Contexts, CallAnswer(c) PROVE instant >= pausedUntil
  <2>1. CASE Unauthorized(c)
    BY <1>1, <1>3, <2>1, RestingTyped DEF Unauthorized
  <2>2. CASE call' = Replied(c) /\ UNCHANGED mint
    <3>1. [call[c] EXCEPT !.at = "more"].at # "sent"
      BY <1>0 DEF TransportCall
    <3>2. call' = [call EXCEPT ![c] = [call[c] EXCEPT !.at = "more"]] \/ call' = [call EXCEPT ![c] = Resting]
      BY <1>0, <2>2 DEF Replied
    <3> QED
      BY <1>3, <2>2, <3>1, <3>2, RestingTyped
  <2>3. CASE call' = [call EXCEPT ![c] = Resting] /\ UNCHANGED mint
    BY <1>3, <2>3, RestingTyped
  <2> QED
    BY <1>8, <2>1, <2>2, <2>3 DEF CallAnswer
<1>9. ASSUME NEW c \in Contexts, CallTimer(c) PROVE instant >= pausedUntil
  BY <1>3, <1>9, RestingTyped DEF CallTimer
<1>10. ASSUME TransportTick \/ Revoke PROVE instant >= pausedUntil
  BY <1>2, <1>10 DEF TransportTick, Revoke, clientState
<1>11. ASSUME MintTimer PROVE instant >= pausedUntil
  BY <1>4, <1>11 DEF MintTimer
<1> QED
  BY <1>5, <1>6, <1>7, <1>8, <1>9, <1>10, <1>11 DEF TransportNext

LEMMA PauseGives ==
  ASSUME TransportAssumption, TransportInv, [TransportNext]_transportVars
  PROVE  [PauseHonouredStep]_transportVars
<1>1. CASE UNCHANGED transportVars
  BY <1>1
<1>2. CASE TransportNext
  <2> SUFFICES ASSUME Sends PROVE instant >= limited.at + MinBackoff
    BY DEF PauseHonouredStep
  <2>1. /\ instant \in 0..MaxInstant /\ pausedUntil \in 0..(MaxInstant + BackoffLimit)
        /\ limited \in [at : Int, until : Int] /\ PauseInv
    BY TypedParts
  <2>2. instant >= pausedUntil
    BY <1>2, SendsMaySend
  <2> QED
    BY <2>1, <2>2, TransportConstants DEF PauseInv
<1> QED
  BY <1>1, <1>2

(* For any callers, timeouts and budgets, in every interleaving of answers,   *)
(* timers, revocations and rate limits: a call ends with a 401 only when a    *)
(* token was revoked under it, it ends in time, and nothing is sent within    *)
(* DEFAULT_BACKOFF_MS of a rate-limit answer.                                 *)
THEOREM TransportOrderlyAlways ==
  ASSUME TransportAssumption
  PROVE  TransportSpec => TransportOrderly
<1>1. TransportInit => TransportInv
  BY TransportStarts
<1>2. TransportInv /\ [TransportNext]_transportVars => TransportInv'
  BY TransportKept
<1>3. TransportInv => RenewalWorks /\ CallsEndInTime
  BY InTimeGives DEF TransportInv
<1>4. TransportInv /\ [TransportNext]_transportVars => [PauseHonouredStep]_transportVars
  BY PauseGives
<1> QED
  BY <1>1, <1>2, <1>3, <1>4, PTL DEF TransportSpec, TransportOrderly, PauseHonoured

-------------------------------------------------------------------------------
(***************************************************************************)
(* Sign-in.  For any requests, tokens, keys and time limits: a key set in  *)
(* the cache was fetched no later than FetchTimeout after each of its keys *)
(* was withdrawn, because a fetch that brings a key had begun before; what *)
(* goes on after a fetch goes on before time passes.                       *)
(***************************************************************************)

Parked == [token : Tokens, round : {"first", "second"}, ended : {"no", "ok", "failed"}]

AuthTyped ==
  /\ now \in 0..MaxNow /\ signingKey \in Kids
  /\ retired \in [Kids -> 0..NotYet]
  /\ cache \subseteq [kid : Kids, at : 0..MaxNow]
  /\ fetch \subseteq [since : 0..MaxNow, kid : SUBSET Kids]
  /\ req \in [Requests -> SUBSET Parked]
  /\ audited \in [Subjects -> 0..NotYet]

(* A key is withdrawn only after it was published, so a fetch that brought   *)
(* it had begun by then.                                                     *)
KeysInv ==
  /\ \A k \in Kids : k >= signingKey => retired[k] = NotYet
  /\ \A f \in fetch : /\ f.since <= now /\ now <= f.since + FetchTimeout
                      /\ \A k \in f.kid : retired[k] # NotYet => f.since <= retired[k]
  /\ \A c \in cache : /\ c.at <= now
                      /\ retired[c.kid] # NotYet => c.at <= retired[c.kid] + FetchTimeout
  /\ \A c, d \in cache : c = d

(* Whoever goes on after a fetch does so before time passes. *)
WaitInv == \A r \in Requests : \A w \in req[r] : w.ended = "ok" => \E c \in cache : c.at = now

(* The map of the gate knows of no refusal that was not sent to the store. *)
AuditInv ==
  \A s \in DOMAIN deniedAt : s \in Subjects /\ deniedAt[s] = audited[s] /\ deniedAt[s] \in 0..now

AuthInv == AuthTyped /\ KeysInv /\ WaitInv /\ AuditInv /\ AuthSound

LEMMA AuthConstants ==
  ASSUME AuthAssumption
  PROVE  /\ MaxKid \in Nat /\ MaxKid >= 1 /\ MaxNow \in Nat /\ NotYet = MaxNow + 1
         /\ Cooldown \in Nat /\ Cooldown >= 1 /\ MaxAge \in Nat /\ FetchTimeout \in Nat /\ Tolerance \in Nat
         /\ DeniedInterval \in Nat
         /\ Kids = 1..MaxKid
  BY DEF AuthAssumption, NotYet, Kids

(* normalizeGroups makes the admin group of nothing but its two spellings. *)
LEMMA OnlyTopLevel ==
  ASSUME NEW item \in Seq({"/", "admins", "x"}), Admins \in Normalize(item)
  PROVE  item \in {<<"admins">>, <<"/", "admins">>}
<1>1. CASE item # <<>> /\ Head(item) = "/"
  <2>1. Tail(item) = <<"admins">>
    BY <1>1 DEF Normalize, Admins
  <2>0. Len(<<"admins">>) = 1 /\ <<"admins">>[1] = "admins"
    OBVIOUS
  <2>2. Len(Tail(item)) = 1 /\ Tail(item)[1] = "admins"
    BY <2>0, <2>1, Zenon
  <2>a. Len(item) \in Nat /\ Len(item) >= 1 /\ item[1] = "/"
    BY <1>1
  <2>b. Len(Tail(item)) = Len(item) - 1
    BY <1>1
  <2>c. Len(item) = 2
    BY <2>2, <2>a, <2>b
  <2>d. Tail(item)[1] = item[2]
    BY <1>1, <2>c
  <2>3. item = <<"/", "admins">>
    BY <2>2, <2>a, <2>c, <2>d
  <2> QED
    BY <2>3
<1>2. CASE ~(item # <<>> /\ Head(item) = "/")
  <2>1. item = <<"admins">>
    BY <1>2 DEF Normalize, Admins
  <2> QED
    BY <2>1
<1> QED
  BY <1>1, <1>2

LEMMA TokenParts ==
  ASSUME AuthAssumption, NEW t \in Tokens
  PROVE  /\ t.kid \in Kids /\ t.exp \in Nat /\ t.sub \in Subjects
         /\ t.item \in Seq({"/", "admins", "x"})
  BY DEF AuthAssumption

LEMMA NothingTold == ASSUME told' = {} PROVE AuthSound'
  BY DEF AuthSound, AdmittedIsGenuine, OutageIsUnavailable, AdminIsTopLevel, RefusalEndsWithCooldown,
     DeniedIsAudited

(* The steps that change neither time nor keys. *)
LEMMA KeysStay ==
  ASSUME AuthInv, UNCHANGED <<now, signingKey, retired, cache, fetch>>
  PROVE  KeysInv'
  BY DEF AuthInv, KeysInv

(* A request that leaves, or waits anew, waits for nothing that has ended. *)
LEMMA WaitStays ==
  ASSUME AuthInv, NEW r \in Requests, NEW ws \in SUBSET Parked, \A w \in ws : w.ended = "no",
         req' = [req EXCEPT ![r] = ws], UNCHANGED <<now, cache>>
  PROVE  req' \in [Requests -> SUBSET Parked] /\ WaitInv'
<1>1. req \in [Requests -> SUBSET Parked] /\ WaitInv
  BY DEF AuthInv, AuthTyped
<1>2. req' \in [Requests -> SUBSET Parked]
  BY <1>1
<1>3. ASSUME NEW q \in Requests, NEW w \in req'[q], w.ended = "ok" PROVE \E c \in cache : c.at = now
  <2>1. q # r
    BY <1>1, <1>3
  <2>2. w \in req[q]
    BY <1>1, <1>3, <2>1
  <2> QED
    BY <1>1, <1>3, <2>2 DEF WaitInv
<1> QED
  BY <1>2, <1>3 DEF WaitInv

(* auditDenied: whether the map is emptied or not, it ends with what was sent. *)
LEMMA AuditKeeps ==
  ASSUME AuthAssumption, AuthInv, NEW sub \in Subjects, AuditDenied(sub), now' = now
  PROVE  /\ AuditInv' /\ audited' \in [Subjects -> 0..NotYet]
         /\ HasStore => /\ audited'[sub] # NotYet
                        /\ now - audited'[sub] < DeniedInterval \/ audited'[sub] = now
<1>1. now \in 0..MaxNow /\ audited \in [Subjects -> 0..NotYet] /\ AuditInv
  BY DEF AuthInv, AuthTyped
<1>2. CASE Throttled(sub)
  <2>1. deniedAt' = deniedAt /\ audited' = audited
    BY <1>2 DEF AuditDenied
  <2>2. /\ sub \in DOMAIN deniedAt /\ now - deniedAt[sub] < DeniedInterval
        /\ deniedAt[sub] = audited[sub] /\ deniedAt[sub] \in 0..now
    BY <1>1, <1>2 DEF Throttled, AuditInv
  <2>3. audited[sub] # NotYet
    BY <1>1, <2>2, AuthConstants
  <2>4. AuditInv'
    BY <1>1, <2>1 DEF AuditInv
  <2> QED
    BY <1>1, <2>1, <2>2, <2>3, <2>4
<1>4. CASE ~HasStore
  <2>1. deniedAt' = deniedAt /\ audited' = audited
    BY <1>4 DEF AuditDenied
  <2>2. AuditInv'
    BY <1>1, <2>1 DEF AuditInv
  <2> QED
    BY <1>1, <1>4, <2>1, <2>2
<1>3. CASE HasStore /\ ~Throttled(sub)
  <2>1. PICK kept : /\ kept = {} \/ kept = DOMAIN deniedAt
                    /\ deniedAt' = [s \in kept \cup {sub} |-> IF s = sub THEN now ELSE deniedAt[s]]
                    /\ audited' = [audited EXCEPT ![sub] = now]
    BY <1>3 DEF AuditDenied
  <2>2. now \in 0..NotYet /\ now # NotYet
    BY <1>1, AuthConstants
  <2>3. audited' \in [Subjects -> 0..NotYet] /\ audited'[sub] = now
    BY <1>1, <2>1, <2>2
  <2>4. ASSUME NEW s \in DOMAIN deniedAt'
        PROVE  s \in Subjects /\ deniedAt'[s] = audited'[s] /\ deniedAt'[s] \in 0..now'
    <3>1. CASE s = sub
      BY <1>1, <2>1, <2>3, <3>1
    <3>2. CASE s # sub
      <4>1. s \in DOMAIN deniedAt /\ deniedAt'[s] = deniedAt[s] /\ audited'[s] = audited[s]
        BY <1>1, <2>1, <2>4, <3>2 DEF AuditInv
      <4> QED
        BY <1>1, <4>1 DEF AuditInv
    <3> QED
      BY <3>1, <3>2
  <2> QED
    BY <2>2, <2>3, <2>4 DEF AuditInv
<1> QED
  BY <1>2, <1>3, <1>4

(* A request is answered: what the answer has to show for itself. *)
LEMMA AnswerSound ==
  ASSUME AuthAssumption, AuthInv, NEW r \in Requests, NEW t \in Tokens,
         NEW code \in {"200", "401", "403", "503"}, NEW failed \in BOOLEAN,
         Answer(r, t, code, failed), UNCHANGED <<now, signingKey, retired, cache, fetch>>,
         code \in {"200", "403"} =>
           /\ Genuine(t)
           /\ retired[t.kid] # NotYet => now <= retired[t.kid] + MaxAge + FetchTimeout,
         (code = "503") <=> failed,
         code = "200" => t.item \in {<<"admins">>, <<"/", "admins">>},
         code = "401" /\ Genuine(t) /\ t.kid = signingKey => \E c \in cache : now < c.at + Cooldown
  PROVE  AuthInv'
<1>1. AuthTyped /\ AuditInv /\ t.sub \in Subjects
  BY TokenParts DEF AuthInv
<1>2. req' \in [Requests -> SUBSET Parked] /\ WaitInv'
  <2>1. req' = [req EXCEPT ![r] = {}]
    BY DEF Answer
  <2>a. {} \in SUBSET Parked
    OBVIOUS
  <2>2. PICK ws \in SUBSET Parked : ws = {}
    BY <2>a, Zenon
  <2>3. req' = [req EXCEPT ![r] = ws]
    BY <2>1, <2>2
  <2>4. \A w \in ws : w.ended = "no"
    BY <2>2
  <2> QED
    BY <2>3, <2>4, WaitStays
<1>3. KeysInv'
  BY KeysStay
<1>4. /\ AuditInv' /\ audited' \in [Subjects -> 0..NotYet]
      /\ code = "403" /\ HasStore => /\ audited'[t.sub] # NotYet
                                     /\ now - audited'[t.sub] < DeniedInterval \/ audited'[t.sub] = now
  <2>1. CASE code = "403"
    <3>1. AuditDenied(t.sub)
      BY <2>1 DEF Answer
    <3> QED
      BY <1>1, <3>1, AuditKeeps
  <2>2. CASE code # "403"
    <3>1. UNCHANGED <<deniedAt, audited>>
      BY <2>2 DEF Answer
    <3> QED
      BY <1>1, <2>2, <3>1 DEF AuditInv, AuthTyped
  <2> QED
    BY <2>1, <2>2
<1>5. AuthTyped'
  BY <1>1, <1>2, <1>4 DEF AuthTyped
<1>6. PICK g : g = [token |-> t, code |-> code, failed |-> failed]
  OBVIOUS
<1>7. told' = {g} /\ g.token = t /\ g.code = code /\ g.failed = failed
  BY <1>6 DEF Answer
<1>8. Genuine(t)' <=> Genuine(t)
  BY DEF Genuine
<1>9. AdmittedIsGenuine' /\ OutageIsUnavailable' /\ AdminIsTopLevel'
  BY <1>7, <1>8 DEF AdmittedIsGenuine, OutageIsUnavailable, AdminIsTopLevel
<1>10. RefusalEndsWithCooldown'
  BY <1>7, <1>8 DEF RefusalEndsWithCooldown
<1>11. DeniedIsAudited'
  BY <1>4, <1>7 DEF DeniedIsAudited
<1> QED
  BY <1>2, <1>3, <1>4, <1>5, <1>9, <1>10, <1>11 DEF AuthInv, AuthSound

(* The request waits for the fetch under way, or begins one now. *)
LEMMA WaitKeeps ==
  ASSUME AuthAssumption, AuthInv, NEW r \in Requests, NEW t \in Tokens, NEW round \in {"first", "second"},
         Wait(r, t, round), UNCHANGED <<now, signingKey, retired, cache>>
  PROVE  AuthInv'
<1>1. AuthTyped /\ KeysInv /\ AuditInv
  BY DEF AuthInv
<1>2. req' \in [Requests -> SUBSET Parked] /\ WaitInv'
  <2>a. [token |-> t, round |-> round, ended |-> "no"] \in Parked
    BY DEF Parked
  <2>1. PICK ws \in SUBSET Parked : ws = {[token |-> t, round |-> round, ended |-> "no"]}
    BY <2>a, Zenon
  <2>2. \A w \in ws : w.ended = "no"
    BY <2>1
  <2>3. req' = [req EXCEPT ![r] = ws]
    BY <2>1 DEF Wait
  <2> QED
    BY <2>2, <2>3, WaitStays
<1>3. /\ fetch' \subseteq [since : 0..MaxNow, kid : SUBSET Kids]
      /\ \A f \in fetch' : f \in fetch \/ (f.since = now /\ f.kid = {})
  <2>1. CASE fetch = {}
    <3>1. fetch' = {[since |-> now, kid |-> {}]}
      BY <2>1 DEF Wait
    <3> QED
      BY <1>1, <3>1 DEF AuthTyped
  <2>2. CASE fetch # {}
    <3>1. fetch' = fetch
      BY <2>2 DEF Wait
    <3> QED
      BY <1>1, <3>1 DEF AuthTyped
  <2> QED
    BY <2>1, <2>2
<1>4. now \in Nat /\ FetchTimeout \in Nat
  BY <1>1, AuthConstants DEF AuthTyped
<1>5. KeysInv'
  BY <1>1, <1>3, <1>4 DEF KeysInv
<1>6. AuthTyped' /\ AuditInv' /\ told' = {}
  BY <1>1, <1>2, <1>3 DEF Wait, AuthTyped, AuditInv
<1> QED
  BY <1>2, <1>5, <1>6, NothingTold DEF AuthInv

LEMMA VerdictIs ==
  ASSUME AuthAssumption, NEW t \in Tokens, now \in Nat
  PROVE  /\ Verdict(t) \in {"200", "401", "403"}
         /\ Verdict(t) \in {"200", "403"} <=> Genuine(t)
         /\ Verdict(t) = "200" => t.item \in {<<"admins">>, <<"/", "admins">>}
<1>1. t.exp \in Nat /\ t.item \in Seq({"/", "admins", "x"}) /\ Tolerance \in Nat
  BY TokenParts, AuthConstants
<1>2. Verdict(t) = "200" => Admins \in Normalize(t.item)
  BY DEF Verdict
<1>3. Verdict(t) = "200" => t.item \in {<<"admins">>, <<"/", "admins">>}
  BY <1>1, <1>2, OnlyTopLevel
<1>4. /\ Verdict(t) \in {"200", "401", "403"}
      /\ Verdict(t) \in {"200", "403"} <=> Genuine(t)
  BY <1>1 DEF Verdict, Genuine
<1> QED
  BY <1>3, <1>4

(* The key is looked up in a set that is fresh, or came this very instant. *)
LEMMA LookUpKeeps ==
  ASSUME AuthAssumption, AuthInv, NEW r \in Requests, NEW t \in Tokens, NEW round \in {"first", "second"},
         LookUp(r, t, round), UNCHANGED <<now, signingKey, retired, cache>>,
         \A c \in cache : now <= c.at + MaxAge,
         round # "first" => \E c \in cache : c.at = now
  PROVE  AuthInv'
<1>1. now \in 0..MaxNow /\ KeysInv /\ cache \subseteq [kid : Kids, at : 0..MaxNow] /\ retired \in [Kids -> 0..NotYet]
  BY DEF AuthInv, AuthTyped
<1>2. CASE \E c \in cache : c.kid = t.kid
  <2>1. PICK c \in cache : c.kid = t.kid
    BY <1>2
  <2>2. Answer(r, t, Verdict(t), FALSE) /\ UNCHANGED fetch
    BY <1>2 DEF LookUp
  <2>3. PICK code \in {"200", "401", "403", "503"} : code = Verdict(t) /\ code # "503"
    BY <1>1, VerdictIs
  <2>4. /\ code \in {"200", "403"} <=> Genuine(t)
        /\ code = "200" => t.item \in {<<"admins">>, <<"/", "admins">>}
    BY <1>1, <2>3, VerdictIs
  <2>5. c.at \in Nat /\ c.kid \in Kids /\ retired[c.kid] \in 0..NotYet
    BY <1>1
  <2>6. retired[c.kid] # NotYet => c.at <= retired[c.kid] + FetchTimeout
    BY <1>1 DEF KeysInv
  <2>7. retired[t.kid] # NotYet => now <= retired[t.kid] + MaxAge + FetchTimeout
    BY <1>1, <2>1, <2>5, <2>6, AuthConstants
  <2>8. Answer(r, t, code, FALSE)
    BY <2>2, <2>3, Zenon
  <2>9. code \notin {"200", "403"} => ~Genuine(t)
    BY <2>4
  <2> QED
    BY <2>2, <2>3, <2>4, <2>7, <2>8, <2>9, AnswerSound
<1>3. CASE ~(\E c \in cache : c.kid = t.kid) /\ round = "first" /\ ~Cooling
  BY <1>3, WaitKeeps DEF LookUp
<1>4. CASE ~(\E c \in cache : c.kid = t.kid) /\ ~(round = "first" /\ ~Cooling)
  <2>1. Answer(r, t, "401", FALSE) /\ UNCHANGED fetch
    BY <1>4 DEF LookUp, MapError
  <2>2. \E c \in cache : now < c.at + Cooldown
    <3>1. CASE Cooling
      BY <3>1 DEF Cooling
    <3>2. CASE round # "first"
      BY <1>1, <3>2, AuthConstants
    <3> QED
      BY <1>4, <3>1, <3>2
  <2> QED
    BY <2>1, <2>2, AnswerSound
<1> QED
  BY <1>2, <1>3, <1>4

LEMMA ArriveKeeps ==
  ASSUME AuthAssumption, AuthInv, NEW r \in Requests, Arrive(r)
  PROVE  AuthInv'
<1>1. UNCHANGED <<now, signingKey, retired, cache>>
  BY DEF Arrive
<1>2. PICK t \in Tokens :
        IF t.flaw \in {"size", "alg"} THEN Answer(r, t, "401", FALSE) /\ UNCHANGED fetch
        ELSE IF ~KeysFresh THEN Wait(r, t, "first")
        ELSE LookUp(r, t, "first")
  BY DEF Arrive
<1>3. CASE t.flaw \in {"size", "alg"}
  <2>1. ~Genuine(t)
    BY <1>3 DEF Genuine
  <2>2. Answer(r, t, "401", FALSE) /\ UNCHANGED fetch
    BY <1>2, <1>3
  <2> QED
    BY <1>1, <2>1, <2>2, AnswerSound
<1>4. CASE t.flaw \notin {"size", "alg"} /\ ~KeysFresh
  BY <1>1, <1>2, <1>4, WaitKeeps
<1>5. CASE t.flaw \notin {"size", "alg"} /\ KeysFresh
  <2>1. LookUp(r, t, "first")
    BY <1>2, <1>5
  <2>2. /\ cache \subseteq [kid : Kids, at : 0..MaxNow] /\ now \in Nat
        /\ \A c, d \in cache : c = d
    BY DEF AuthInv, AuthTyped, KeysInv
  <2>3. \A c \in cache : now <= c.at + MaxAge
    BY <1>5, <2>2, AuthConstants DEF KeysFresh
  <2> QED
    BY <1>1, <2>1, <2>3, LookUpKeeps
<1> QED
  BY <1>3, <1>4, <1>5

LEMMA ContinueKeeps ==
  ASSUME AuthAssumption, AuthInv, NEW r \in Requests, Continue(r)
  PROVE  AuthInv'
<1>1. UNCHANGED <<now, signingKey, retired, cache>>
  BY DEF Continue
<1>2. PICK w \in req[r] :
        \/ w.ended = "ok" /\ LookUp(r, w.token, w.round)
        \/ w.ended = "failed" /\ Answer(r, w.token, MapError("ERR_JWKS_TIMEOUT"), TRUE) /\ UNCHANGED fetch
  BY DEF Continue
<1>3. w \in Parked /\ (w.ended = "ok" => \E c \in cache : c.at = now)
  BY DEF AuthInv, AuthTyped, WaitInv
<1>4. PICK t \in Tokens : t = w.token
  BY <1>3 DEF Parked
<1>5. PICK round \in {"first", "second"} : round = w.round
  BY <1>3 DEF Parked
<1>6. CASE w.ended = "ok" /\ LookUp(r, w.token, w.round)
  <2>1. LookUp(r, t, round)
    BY <1>4, <1>5, <1>6
  <2>2. /\ cache \subseteq [kid : Kids, at : 0..MaxNow] /\ now \in Nat
        /\ \A c, d \in cache : c = d
    BY DEF AuthInv, AuthTyped, KeysInv
  <2>3. PICK c \in cache : c.at = now
    BY <1>3, <1>6
  <2>4. \A d \in cache : now <= d.at + MaxAge
    BY <2>2, <2>3, AuthConstants
  <2> QED
    BY <1>1, <2>1, <2>3, <2>4, LookUpKeeps
<1>7. CASE w.ended = "failed" /\ Answer(r, w.token, MapError("ERR_JWKS_TIMEOUT"), TRUE) /\ UNCHANGED fetch
  <2>1. Answer(r, t, "503", TRUE) /\ UNCHANGED fetch
    BY <1>4, <1>7 DEF MapError
  <2> QED
    BY <1>1, <2>1, AnswerSound
<1> QED
  BY <1>2, <1>6, <1>7

LEMMA ServeKeeps ==
  ASSUME AuthAssumption, AuthInv, Serve
  PROVE  AuthInv'
<1>1. AuthTyped /\ KeysInv /\ WaitInv /\ AuditInv
  BY DEF AuthInv
<1>2. UNCHANGED <<now, signingKey, retired, cache, req, deniedAt, audited>> /\ told' = {}
  BY DEF Serve
<1>3. PICK f \in fetch : fetch' = {[f EXCEPT !.kid = {signingKey}]}
  BY DEF Serve
<1>4. f \in [since : 0..MaxNow, kid : SUBSET Kids] /\ signingKey \in Kids
  BY <1>1 DEF AuthTyped
<1>5. PICK g : g = [f EXCEPT !.kid = {signingKey}]
  OBVIOUS
<1>6. /\ g \in [since : 0..MaxNow, kid : SUBSET Kids] /\ g.since = f.since /\ g.kid = {signingKey}
      /\ fetch' = {g}
  BY <1>3, <1>4, <1>5
<1>7. retired[signingKey] = NotYet
  BY <1>1, <1>4, AuthConstants DEF KeysInv
<1>8. KeysInv'
  BY <1>1, <1>2, <1>6, <1>7 DEF KeysInv
<1>9. AuthTyped' /\ WaitInv' /\ AuditInv'
  BY <1>1, <1>2, <1>6 DEF AuthTyped, WaitInv, AuditInv
<1> QED
  BY <1>2, <1>8, <1>9, NothingTold DEF AuthInv

(* Everybody who waited goes on at the instant the fetch ended. *)
LEMMA EndFetchKeeps ==
  ASSUME AuthAssumption, AuthInv, NEW result \in {"ok", "failed"}, EndFetch(result),
         cache' \subseteq [kid : Kids, at : 0..MaxNow],
         \A c \in cache' : c \in cache \/ c.at = now,
         cache' = cache \/ \E c \in cache' : c.at = now,
         result = "ok" => \E c \in cache' : c.at = now,
         \A c, d \in cache' : c = d,
         \A c \in cache' : retired[c.kid] # NotYet => c.at <= retired[c.kid] + FetchTimeout
  PROVE  AuthInv'
<1>1. AuthTyped /\ KeysInv /\ WaitInv /\ AuditInv /\ now \in Nat
  BY DEF AuthInv, AuthTyped
<1>2. UNCHANGED <<now, signingKey, retired, deniedAt, audited>> /\ told' = {} /\ fetch' = {}
  BY DEF EndFetch
<1>3. req' = [r \in Requests |->
               IF r \in Waiting THEN {[w EXCEPT !.ended = result] : w \in req[r]} ELSE req[r]]
  BY DEF EndFetch
<1>4. ASSUME NEW w \in Parked
      PROVE  [w EXCEPT !.ended = result] \in Parked /\ [w EXCEPT !.ended = result].ended = result
  BY DEF Parked
<1>5. \A r \in Requests : req[r] \in SUBSET Parked
  BY <1>1 DEF AuthTyped
<1>6. ASSUME NEW r \in Requests
      PROVE  /\ req'[r] \in SUBSET Parked
             /\ \A w \in req'[r] : w.ended = "ok" => \E c \in cache' : c.at = now
  <2>1. CASE r \in Waiting
    <3>1. req'[r] = {[w EXCEPT !.ended = result] : w \in req[r]}
      BY <1>3, <2>1
    <3>2. ASSUME NEW v \in req'[r]
          PROVE  v \in Parked /\ v.ended = result
      <4>1. PICK w \in req[r] : v = [w EXCEPT !.ended = result]
        BY <3>1
      <4> QED
        BY <1>4, <1>5, <4>1
    <3> QED
      BY <3>2
  <2>2. CASE r \notin Waiting
    <3>1. req'[r] = req[r]
      BY <1>3, <2>2
    <3> QED
      BY <1>1, <1>5, <3>1 DEF WaitInv
  <2> QED
    BY <2>1, <2>2
<1>7. req' \in [Requests -> SUBSET Parked]
  <2>1. req' = [r \in Requests |-> req'[r]]
    BY <1>3
  <2> QED
    BY <1>6, <2>1
<1>8. KeysInv'
  <2>1. \A c \in cache' : c.at <= now
    BY <1>1 DEF KeysInv
  <2> QED
    BY <1>1, <1>2, <2>1 DEF KeysInv
<1>9. AuthTyped' /\ AuditInv' /\ WaitInv'
  BY <1>1, <1>2, <1>6, <1>7 DEF AuthTyped, AuditInv, WaitInv
<1> QED
  BY <1>2, <1>8, <1>9, NothingTold DEF AuthInv

LEMMA ReceivedKeeps ==
  ASSUME AuthAssumption, AuthInv, Received
  PROVE  AuthInv'
<1>1. AuthTyped /\ KeysInv /\ now \in 0..MaxNow /\ retired \in [Kids -> 0..NotYet]
  BY DEF AuthInv, AuthTyped
<1>a. PICK f \in fetch : \E k \in f.kid : cache' = {[kid |-> k, at |-> now]} /\ EndFetch("ok")
  BY DEF Received
<1>2. PICK k \in f.kid : cache' = {[kid |-> k, at |-> now]} /\ EndFetch("ok")
  BY <1>a
<1>3. f.since \in Nat /\ k \in Kids /\ retired[k] \in 0..NotYet
  BY <1>1, <1>2 DEF AuthTyped
<1>4. /\ now <= f.since + FetchTimeout
      /\ retired[k] # NotYet => f.since <= retired[k]
  BY <1>1, <1>2 DEF KeysInv
<1>5. retired[k] # NotYet => now <= retired[k] + FetchTimeout
  BY <1>1, <1>3, <1>4, AuthConstants
<1>b. PICK c : c = [kid |-> k, at |-> now]
  OBVIOUS
<1>6. c \in [kid : Kids, at : 0..MaxNow] /\ cache' = {c} /\ c.at = now /\ c.kid = k
  BY <1>1, <1>2, <1>3, <1>b
<1> QED
  BY <1>2, <1>5, <1>6, EndFetchKeeps

LEMMA FetchLostKeeps ==
  ASSUME AuthAssumption, AuthInv, FetchFails \/ FetchTimer
  PROVE  AuthInv'
<1>1. EndFetch("failed") /\ cache' = cache
  BY DEF FetchFails, FetchTimer
<1>2. /\ cache \subseteq [kid : Kids, at : 0..MaxNow] /\ \A c, d \in cache : c = d
      /\ \A c \in cache : retired[c.kid] # NotYet => c.at <= retired[c.kid] + FetchTimeout
  BY DEF AuthInv, AuthTyped, KeysInv
<1> QED
  BY <1>1, <1>2, EndFetchKeeps

(* A key is withdrawn now, so after every fetch that brought it began. *)
LEMMA RotateKeeps ==
  ASSUME AuthAssumption, AuthInv, Rotate
  PROVE  AuthInv'
<1>1. /\ AuthTyped /\ KeysInv /\ WaitInv /\ AuditInv
      /\ now \in 0..MaxNow /\ signingKey \in Kids /\ retired \in [Kids -> 0..NotYet]
      /\ cache \subseteq [kid : Kids, at : 0..MaxNow]
  BY DEF AuthInv, AuthTyped
<1>2. /\ UNCHANGED <<now, cache, fetch, req, deniedAt, audited>> /\ told' = {}
      /\ signingKey < MaxKid /\ signingKey' = signingKey + 1
      /\ retired' = [retired EXCEPT ![signingKey] = now]
  BY DEF Rotate
<1>a. signingKey \in Nat /\ now \in 0..NotYet
  BY <1>1, AuthConstants
<1>c. signingKey < MaxKid /\ signingKey' = signingKey + 1 /\ MaxKid \in Nat
  BY <1>2, AuthConstants
<1>b. signingKey' \in Kids
  BY <1>a, <1>c DEF Kids
<1>3. signingKey' \in Kids /\ retired' \in [Kids -> 0..NotYet]
  BY <1>1, <1>2, <1>a, <1>b
<1>4. \A k \in Kids : retired'[k] = IF k = signingKey THEN now ELSE retired[k]
  BY <1>1, <1>2
<1>5. ASSUME NEW k \in Kids, k >= signingKey' PROVE retired'[k] = NotYet
  <2>1. k \in Nat
    BY AuthConstants
  <2>2. k >= signingKey /\ k # signingKey
    BY <1>2, <1>5, <1>a, <2>1
  <2> QED
    BY <1>1, <1>4, <2>2 DEF KeysInv
<1>6. ASSUME NEW f \in fetch
      PROVE  /\ f.since <= now /\ now <= f.since + FetchTimeout
             /\ \A k \in f.kid : retired'[k] # NotYet => f.since <= retired'[k]
  <2>1. f.kid \subseteq Kids
    BY <1>1 DEF AuthTyped
  <2> QED
    BY <1>1, <1>4, <2>1 DEF KeysInv
<1>7. ASSUME NEW c \in cache
      PROVE  c.at <= now /\ (retired'[c.kid] # NotYet => c.at <= retired'[c.kid] + FetchTimeout)
  <2>1. c.kid \in Kids /\ c.at \in Nat /\ c.at <= now
    BY <1>1 DEF KeysInv
  <2>2. CASE c.kid = signingKey
    BY <1>1, <1>4, <2>1, <2>2, AuthConstants
  <2>3. CASE c.kid # signingKey
    BY <1>1, <1>4, <2>1, <2>3 DEF KeysInv
  <2> QED
    BY <2>1, <2>2, <2>3
<1>8. KeysInv'
  <2>1. \A c, d \in cache' : c = d
    BY <1>1, <1>2 DEF KeysInv
  <2> QED
    BY <1>2, <1>5, <1>6, <1>7, <2>1 DEF KeysInv
<1>9. AuthTyped' /\ WaitInv' /\ AuditInv'
  BY <1>1, <1>2, <1>3 DEF AuthTyped, WaitInv, AuditInv
<1> QED
  BY <1>2, <1>8, <1>9, NothingTold DEF AuthInv

(* Time passes only when nobody has to go on and the fetch is not overdue. *)
LEMMA AuthTickKeeps ==
  ASSUME AuthAssumption, AuthInv, AuthTick
  PROVE  AuthInv'
<1>1. /\ AuthTyped /\ KeysInv /\ WaitInv /\ AuditInv /\ now \in 0..MaxNow
  BY DEF AuthInv, AuthTyped
<1>2. /\ UNCHANGED <<signingKey, retired, cache, fetch, req, deniedAt, audited>> /\ told' = {}
      /\ now < MaxNow /\ now' = now + 1
      /\ \A r \in Requests : \A w \in req[r] : w.ended = "no"
      /\ \A f \in fetch : now < f.since + FetchTimeout
  BY DEF AuthTick
<1>3. now' \in 0..MaxNow
  BY <1>1, <1>2, AuthConstants
<1>4. ASSUME NEW f \in fetch PROVE f.since <= now' /\ now' <= f.since + FetchTimeout
  <2>1. f.since \in Nat
    BY <1>1 DEF AuthTyped
  <2> QED
    BY <1>1, <1>2, <2>1, AuthConstants DEF KeysInv
<1>5. ASSUME NEW c \in cache PROVE c.at <= now'
  <2>1. c.at \in Nat
    BY <1>1 DEF AuthTyped
  <2> QED
    BY <1>1, <1>2, <2>1 DEF KeysInv
<1>6. KeysInv'
  BY <1>1, <1>2, <1>4, <1>5 DEF KeysInv
<1>7. AuthTyped' /\ WaitInv'
  BY <1>1, <1>2, <1>3 DEF AuthTyped, WaitInv
<1>8. AuditInv'
  BY <1>1, <1>2 DEF AuditInv
<1> QED
  BY <1>2, <1>6, <1>7, <1>8, NothingTold DEF AuthInv

LEMMA AuthStarts ==
  ASSUME AuthAssumption, AuthInit
  PROVE  AuthInv
<1>1. AuthTyped
  BY AuthConstants DEF AuthInit, AuthTyped
<1>2. KeysInv /\ WaitInv /\ AuditInv
  BY DEF AuthInit, KeysInv, WaitInv, AuditInv
<1>3. AuthSound
  BY DEF AuthInit, AuthSound, AdmittedIsGenuine, OutageIsUnavailable, AdminIsTopLevel,
     RefusalEndsWithCooldown, DeniedIsAudited
<1> QED
  BY <1>1, <1>2, <1>3 DEF AuthInv

LEMMA AuthKept ==
  ASSUME AuthAssumption, AuthInv, [AuthNext]_authVars
  PROVE  AuthInv'
<1>1. CASE AuthNext
  BY <1>1, ArriveKeeps, ContinueKeeps, ServeKeeps, ReceivedKeeps, FetchLostKeeps, RotateKeeps,
     AuthTickKeeps DEF AuthNext
<1>2. CASE UNCHANGED authVars
  <2>1. AuthTyped' /\ KeysInv' /\ WaitInv' /\ AuditInv'
    BY <1>2 DEF AuthInv, authVars, AuthTyped, KeysInv, WaitInv, AuditInv
  <2>2. AuthSound'
    BY <1>2 DEF AuthInv, authVars, AuthSound, AdmittedIsGenuine, OutageIsUnavailable, AdminIsTopLevel,
       RefusalEndsWithCooldown, DeniedIsAudited, Genuine
  <2> QED
    BY <2>1, <2>2 DEF AuthInv
<1> QED
  BY <1>1, <1>2

(* For any requests, tokens, keys, cooldowns and time limits: whoever is let in  *)
(* holds a genuine token of a key withdrawn no longer ago than a key set is kept *)
(* and fetched, an outage is told apart from a bad token, a genuine token is     *)
(* refused only within the cooldown, only the top-level group may write, and     *)
(* every refusal is on record.                                                   *)
THEOREM AuthSoundAlways ==
  ASSUME AuthAssumption
  PROVE  AuthSpec => []AuthSound
<1>1. AuthInit => AuthInv
  BY AuthStarts
<1>2. AuthInv /\ [AuthNext]_authVars => AuthInv'
  BY AuthKept
<1>3. AuthInv => AuthSound
  BY DEF AuthInv
<1> QED
  BY <1>1, <1>2, <1>3, PTL DEF AuthSpec

-------------------------------------------------------------------------------
(***************************************************************************)
(* Start-up.  For every environment: the invariant records, for the phase  *)
(* that runs next, what the loaders before it have found of the            *)
(* environment and what they have built.                                   *)
(***************************************************************************)

Loaders == {"listenHost", "auditDb", "writeEnabled", "interval", "kubeApi", "runtime", "upstream", "ssoAdapter",
            "authConfig", "writers", "reconciler"}

(* The phases after each loader: server.ts and createAppFromEnv call them in  *)
(* this order.                                                               *)
Served == {"serving", "draining", "stopped"}
WritersMade == Served \cup {"reconciler"}
AuthLoaded == WritersMade \cup {"writers"}
AdapterMade == AuthLoaded \cup {"authConfig"}
UpstreamLoaded == AdapterMade \cup {"ssoAdapter"}
RuntimeMade == UpstreamLoaded \cup {"upstream"}
KubeLoaded == RuntimeMade \cup {"runtime"}
IntervalLoaded == KubeLoaded \cup {"kubeApi"}
WriteLoaded == IntervalLoaded \cup {"interval"}
DbLoaded == WriteLoaded \cup {"writeEnabled"}
HostLoaded == DbLoaded \cup {"auditDb"}

(* What the loaders before phase p have found of the environment and built.  *)
Passed(p) ==
  /\ p \in HostLoaded => env.listen # "bad"
  /\ p \in DbLoaded => env.db # "bad" /\ wired.store = (env.db = "ok")
  /\ p \in WriteLoaded => env.write # "bad" /\ wired.writeEnabled = (env.write = "on")
  /\ p \in IntervalLoaded => env.interval # "bad"
  /\ p \in KubeLoaded => env.kube # "bad" /\ wired.kubeClient = (env.kube # "unset")
  /\ p \in RuntimeMade => env.flink # "bad" /\ (env.kube # "unset" => ~DomainUnusable)
  /\ p \in UpstreamLoaded => env.upstream # "bad"
  /\ p \in AdapterMade => /\ SourceOf \in {"github", "file"} /\ wired.source = SourceDomain
                          /\ SourceOf = "github" => ~DomainUnusable
  /\ p \in AuthLoaded => /\ env.auth # "bad" /\ ~(env.auth = "disabled" /\ Production)
                         /\ ~(env.auth = "oidc" /\ env.issuer \in {"unset", "bad"})
                         /\ wired.verifier = (env.auth = "oidc")
  /\ p \in WritersMade => wired.writer = (env.app = "ok")
  /\ p \in Served =>
       /\ env.db = "ok" /\ env.app = "ok" => ~DomainUnusable /\ wired.reconciler = ResolveBaseDomain
       /\ ~(env.db = "ok" /\ env.app = "ok") => wired.reconciler = "none"

Wiring == [source : Domains \cup {"error"}, reconciler : Domains \cup {"error"}, verifier : BOOLEAN, store : BOOLEAN,
           writer : BOOLEAN, reader : BOOLEAN, writeEnabled : BOOLEAN, kubeClient : BOOLEAN,
           live : SUBSET {"flink", "services", "events", "trino", "lakekeeper"}]

StartInv ==
  /\ env \in Environments /\ wired \in Wiring
  /\ phase \in Loaders \cup {"serving", "draining", "stopped", "exited"}
  /\ phase = "exited" => StartRefused
  /\ Passed(phase)
  /\ phase \in Loaders => wired.reconciler = "none"
  /\ ~Listening => submitted = {}
  /\ StartupSound

USE DEF HostLoaded, DbLoaded, WriteLoaded, IntervalLoaded, KubeLoaded, RuntimeMade, UpstreamLoaded, AdapterMade,
        AuthLoaded, WritersMade, Served

(* What the classes of the variables are. *)
LEMMA EnvironmentFields ==
  ASSUME StartAssumption, env \in Environments
  PROVE  /\ env.node \in {"production", "development"} /\ env.auth \in {"oidc", "disabled", "bad"}
         /\ env.issuer \in {"unset", "chart", "other", "bad"} /\ env.domain \in {"unset", "given", "bad"}
         /\ env.source \in {"unset", "github", "file", "bad"} /\ env.kube \in {"unset", "ok", "unreadable", "bad"}
         /\ env.db \in {"unset", "ok", "bad"} /\ env.write \in {"off", "on", "bad"}
         /\ env.app \in {"unset", "ok", "unreadable"} /\ env.flink \in {"unset", "ok", "bad"}
         /\ env.upstream \in {"unset", "ok", "bad"} /\ env.listen \in {"unset", "bad"}
         /\ env.interval \in {"unset", "bad"}
         /\ DOMAIN env = {"node", "auth", "issuer", "domain", "source", "kube", "db", "write", "app", "flink",
                          "upstream", "listen", "interval"}
  BY DEF StartAssumption, Environments

(* A start is refused for one of these reasons and for no other. *)
LEMMA Reasons ==
  ASSUME StartAssumption, env \in Environments
  PROVE  StartRefused <=>
           \/ env.auth = "bad" \/ env.source = "bad" \/ env.kube = "bad" \/ env.db = "bad" \/ env.write = "bad"
           \/ env.flink = "bad" \/ env.upstream = "bad" \/ env.listen = "bad" \/ env.interval = "bad"
           \/ env.auth = "oidc" /\ env.issuer \in {"unset", "bad"}
           \/ Production /\ (env.auth = "disabled" \/ env.source = "unset")
           \/ DomainValidated /\ DomainUnusable
  BY EnvironmentFields DEF StartRefused, DomainUnusable, Production

(* resolveBaseDomain throws for the declared reasons. *)
LEMMA DomainThrows ==
  ASSUME StartAssumption, env \in Environments
  PROVE  /\ (ResolveBaseDomain = "error") <=> DomainUnusable
         /\ ResolveBaseDomain \in {"given", "default", "issuer", "error"}
  BY EnvironmentFields DEF ResolveBaseDomain, DomainUnusable, Production

(* The environment decides alone what is refused. *)
LEMMA EnvironmentStays ==
  ASSUME UNCHANGED env
  PROVE  /\ (StartRefused' <=> StartRefused) /\ (DomainUnusable' <=> DomainUnusable)
         /\ SourceOf' = SourceOf /\ SourceDomain' = SourceDomain /\ ResolveBaseDomain' = ResolveBaseDomain
         /\ (Production' <=> Production) /\ (Misconfigured' <=> Misconfigured)
  BY DEF Misconfigured, StartRefused, DomainUnusable, DomainValidated, SourceOf, SourceDomain, ResolveBaseDomain, Production

(* A loader that refuses its variables ends the process with what was wrong. *)
LEMMA Exits ==
  ASSUME StartInv, ~Listening, phase' = "exited", UNCHANGED <<env, wired, submitted>>, StartRefused
  PROVE  StartInv'
<1>1. StartRefused' /\ submitted' = {}
  BY EnvironmentStays DEF StartInv
<1>2. StartupSound'
  BY <1>1 DEF StartupSound, FailsFastAndOnlyThen, AcceptedIsWatched, RebuiltWithSameDomain, HealthIsHonest, Listening
<1> QED
  BY <1>1, <1>2 DEF StartInv, Passed, Listening, Loaders

(* A loader that accepts them hands on to the next one. *)
LEMMA Moves ==
  ASSUME StartInv, ~Listening, phase' \in Loaders, UNCHANGED <<env, submitted>>,
         wired' \in Wiring, Passed(phase)', wired'.reconciler = "none"
  PROVE  StartInv'
<1>1. submitted' = {} /\ ~Listening' /\ phase' # "exited"
  BY DEF StartInv, Loaders, Listening
<1>2. StartupSound'
  BY <1>1 DEF StartupSound, FailsFastAndOnlyThen, AcceptedIsWatched, RebuiltWithSameDomain, HealthIsHonest
<1> QED
  BY <1>1, <1>2 DEF StartInv

LEMMA LoadListenHostKeeps ==
  ASSUME StartAssumption, StartInv, LoadListenHost
  PROVE  StartInv'
<1>0. phase = "listenHost" /\ ~Listening /\ UNCHANGED <<env, submitted>> /\ wired.reconciler = "none"
  BY DEF LoadListenHost, Step, Listening, StartInv, Loaders
<1>1. CASE phase' = "exited"
  <2>1. wired' = wired /\ StartRefused
    BY <1>0, <1>1, Reasons, DomainThrows, EnvironmentFields
       DEF LoadListenHost, Step, StartInv, Passed, DomainValidated, SourceOf, SourceDomain, Production
  <2> QED
    BY <1>0, <1>1, <2>1, Exits
<1>2. CASE phase' = "auditDb"
  <2>1. wired' \in Wiring /\ wired'.reconciler = "none"
    BY <1>0, <1>2, DomainThrows DEF LoadListenHost, Step, StartInv, Wiring, Domains, SourceOf, SourceDomain
  <2>2. Passed("auditDb")'
    BY <1>0, <1>2, EnvironmentStays, DomainThrows
       DEF LoadListenHost, Step, StartInv, Wiring, Passed, SourceOf, SourceDomain, Production
  <2> QED
    BY <1>0, <1>2, <2>1, <2>2, Moves DEF Loaders
<1> QED
  BY <1>1, <1>2 DEF LoadListenHost, Step

LEMMA LoadAuditDbKeeps ==
  ASSUME StartAssumption, StartInv, LoadAuditDb
  PROVE  StartInv'
<1>0. phase = "auditDb" /\ ~Listening /\ UNCHANGED <<env, submitted>> /\ wired.reconciler = "none"
  BY DEF LoadAuditDb, Step, Listening, StartInv, Loaders
<1>1. CASE phase' = "exited"
  <2>1. wired' = wired /\ StartRefused
    BY <1>0, <1>1, Reasons, DomainThrows, EnvironmentFields
       DEF LoadAuditDb, Step, StartInv, Passed, DomainValidated, SourceOf, SourceDomain, Production
  <2> QED
    BY <1>0, <1>1, <2>1, Exits
<1>2. CASE phase' = "writeEnabled"
  <2>1. wired' \in Wiring /\ wired'.reconciler = "none"
    BY <1>0, <1>2, DomainThrows DEF LoadAuditDb, Step, StartInv, Wiring, Domains, SourceOf, SourceDomain
  <2>2. Passed("writeEnabled")'
    BY <1>0, <1>2, EnvironmentStays, DomainThrows
       DEF LoadAuditDb, Step, StartInv, Wiring, Passed, SourceOf, SourceDomain, Production
  <2> QED
    BY <1>0, <1>2, <2>1, <2>2, Moves DEF Loaders
<1> QED
  BY <1>1, <1>2 DEF LoadAuditDb, Step

LEMMA LoadWriteEnabledKeeps ==
  ASSUME StartAssumption, StartInv, LoadWriteEnabled
  PROVE  StartInv'
<1>0. phase = "writeEnabled" /\ ~Listening /\ UNCHANGED <<env, submitted>> /\ wired.reconciler = "none"
  BY DEF LoadWriteEnabled, Step, Listening, StartInv, Loaders
<1>1. CASE phase' = "exited"
  <2>1. wired' = wired /\ StartRefused
    BY <1>0, <1>1, Reasons, DomainThrows, EnvironmentFields
       DEF LoadWriteEnabled, Step, StartInv, Passed, DomainValidated, SourceOf, SourceDomain, Production
  <2> QED
    BY <1>0, <1>1, <2>1, Exits
<1>2. CASE phase' = "interval"
  <2>1. wired' \in Wiring /\ wired'.reconciler = "none"
    BY <1>0, <1>2, DomainThrows DEF LoadWriteEnabled, Step, StartInv, Wiring, Domains, SourceOf, SourceDomain
  <2>2. Passed("interval")'
    BY <1>0, <1>2, EnvironmentStays, DomainThrows
       DEF LoadWriteEnabled, Step, StartInv, Wiring, Passed, SourceOf, SourceDomain, Production
  <2> QED
    BY <1>0, <1>2, <2>1, <2>2, Moves DEF Loaders
<1> QED
  BY <1>1, <1>2 DEF LoadWriteEnabled, Step

LEMMA LoadReconcileIntervalKeeps ==
  ASSUME StartAssumption, StartInv, LoadReconcileInterval
  PROVE  StartInv'
<1>0. phase = "interval" /\ ~Listening /\ UNCHANGED <<env, submitted>> /\ wired.reconciler = "none"
  BY DEF LoadReconcileInterval, Step, Listening, StartInv, Loaders
<1>1. CASE phase' = "exited"
  <2>1. wired' = wired /\ StartRefused
    BY <1>0, <1>1, Reasons, DomainThrows, EnvironmentFields
       DEF LoadReconcileInterval, Step, StartInv, Passed, DomainValidated, SourceOf, SourceDomain, Production
  <2> QED
    BY <1>0, <1>1, <2>1, Exits
<1>2. CASE phase' = "kubeApi"
  <2>1. wired' \in Wiring /\ wired'.reconciler = "none"
    BY <1>0, <1>2, DomainThrows DEF LoadReconcileInterval, Step, StartInv, Wiring, Domains, SourceOf, SourceDomain
  <2>2. Passed("kubeApi")'
    BY <1>0, <1>2, EnvironmentStays, DomainThrows
       DEF LoadReconcileInterval, Step, StartInv, Wiring, Passed, SourceOf, SourceDomain, Production
  <2> QED
    BY <1>0, <1>2, <2>1, <2>2, Moves DEF Loaders
<1> QED
  BY <1>1, <1>2 DEF LoadReconcileInterval, Step

LEMMA LoadKubeApiKeeps ==
  ASSUME StartAssumption, StartInv, LoadKubeApi
  PROVE  StartInv'
<1>0. phase = "kubeApi" /\ ~Listening /\ UNCHANGED <<env, submitted>> /\ wired.reconciler = "none"
  BY DEF LoadKubeApi, Step, Listening, StartInv, Loaders
<1>1. CASE phase' = "exited"
  <2>1. wired' = wired /\ StartRefused
    BY <1>0, <1>1, Reasons, DomainThrows, EnvironmentFields
       DEF LoadKubeApi, Step, StartInv, Passed, DomainValidated, SourceOf, SourceDomain, Production
  <2> QED
    BY <1>0, <1>1, <2>1, Exits
<1>2. CASE phase' = "runtime"
  <2>1. wired' \in Wiring /\ wired'.reconciler = "none"
    BY <1>0, <1>2, DomainThrows DEF LoadKubeApi, Step, StartInv, Wiring, Domains, SourceOf, SourceDomain
  <2>2. Passed("runtime")'
    BY <1>0, <1>2, EnvironmentStays, DomainThrows
       DEF LoadKubeApi, Step, StartInv, Wiring, Passed, SourceOf, SourceDomain, Production
  <2> QED
    BY <1>0, <1>2, <2>1, <2>2, Moves DEF Loaders
<1> QED
  BY <1>1, <1>2 DEF LoadKubeApi, Step

LEMMA CreateRuntimeKeeps ==
  ASSUME StartAssumption, StartInv, CreateRuntime
  PROVE  StartInv'
<1>0. phase = "runtime" /\ ~Listening /\ UNCHANGED <<env, submitted>> /\ wired.reconciler = "none"
  BY DEF CreateRuntime, Step, Listening, StartInv, Loaders
<1>1. CASE phase' = "exited"
  <2>1. wired' = wired /\ StartRefused
    BY <1>0, <1>1, Reasons, DomainThrows, EnvironmentFields
       DEF CreateRuntime, Step, StartInv, Passed, DomainValidated, SourceOf, SourceDomain, Production, FlinkRefused
  <2> QED
    BY <1>0, <1>1, <2>1, Exits
<1>2. CASE phase' = "upstream"
  <2>1. wired' \in Wiring /\ wired'.reconciler = "none"
    BY <1>0, <1>2, DomainThrows DEF CreateRuntime, Step, StartInv, Wiring, Domains, SourceOf, SourceDomain
  <2>2. /\ wired'.store = wired.store /\ wired'.writeEnabled = wired.writeEnabled
        /\ wired'.kubeClient = wired.kubeClient
        /\ wired'.source = wired.source /\ wired'.verifier = wired.verifier /\ wired'.writer = wired.writer
    BY <1>0, <1>2 DEF CreateRuntime, Step, StartInv, Wiring
  <2>3. env.flink # "bad" /\ (wired.kubeClient => ~DomainUnusable)
    BY <1>0, <1>2, DomainThrows DEF CreateRuntime, Step, StartInv, FlinkRefused, SourceDomain
  <2>4. Passed("upstream")'
    BY <1>0, <2>2, <2>3, EnvironmentStays DEF StartInv, Passed
  <2> QED
    BY <1>0, <1>2, <2>1, <2>4, Moves DEF Loaders
<1> QED
  BY <1>1, <1>2 DEF CreateRuntime, Step

LEMMA LoadUpstreamWiringKeeps ==
  ASSUME StartAssumption, StartInv, LoadUpstreamWiring
  PROVE  StartInv'
<1>0. phase = "upstream" /\ ~Listening /\ UNCHANGED <<env, submitted>> /\ wired.reconciler = "none"
  BY DEF LoadUpstreamWiring, Step, Listening, StartInv, Loaders
<1>1. CASE phase' = "exited"
  <2>1. wired' = wired /\ StartRefused
    BY <1>0, <1>1, Reasons, DomainThrows, EnvironmentFields
       DEF LoadUpstreamWiring, Step, StartInv, Passed, DomainValidated, SourceOf, SourceDomain, Production, UpstreamRefused
  <2> QED
    BY <1>0, <1>1, <2>1, Exits
<1>2. CASE phase' = "ssoAdapter"
  <2>1. wired' \in Wiring /\ wired'.reconciler = "none"
    BY <1>0, <1>2, DomainThrows DEF LoadUpstreamWiring, Step, StartInv, Wiring, Domains, SourceOf, SourceDomain
  <2>2. /\ wired'.store = wired.store /\ wired'.writeEnabled = wired.writeEnabled
        /\ wired'.kubeClient = wired.kubeClient
        /\ wired'.source = wired.source /\ wired'.verifier = wired.verifier /\ wired'.writer = wired.writer
    BY <1>0, <1>2 DEF LoadUpstreamWiring, Step, StartInv, Wiring
  <2>3. env.upstream # "bad"
    BY <1>0, <1>2, DomainThrows DEF LoadUpstreamWiring, Step, StartInv, UpstreamRefused, SourceDomain
  <2>4. Passed("ssoAdapter")'
    BY <1>0, <2>2, <2>3, EnvironmentStays DEF StartInv, Passed
  <2> QED
    BY <1>0, <1>2, <2>1, <2>4, Moves DEF Loaders
<1> QED
  BY <1>1, <1>2 DEF LoadUpstreamWiring, Step

LEMMA CreateSsoAdapterKeeps ==
  ASSUME StartAssumption, StartInv, CreateSsoAdapter
  PROVE  StartInv'
<1>0. phase = "ssoAdapter" /\ ~Listening /\ UNCHANGED <<env, submitted>> /\ wired.reconciler = "none"
  BY DEF CreateSsoAdapter, Step, Listening, StartInv, Loaders
<1>1. CASE phase' = "exited"
  <2>1. wired' = wired /\ StartRefused
    BY <1>0, <1>1, Reasons, DomainThrows, EnvironmentFields
       DEF CreateSsoAdapter, Step, StartInv, Passed, DomainValidated, SourceOf, SourceDomain, Production
  <2> QED
    BY <1>0, <1>1, <2>1, Exits
<1>2. CASE phase' = "authConfig"
  <2>1. wired' \in Wiring /\ wired'.reconciler = "none"
    BY <1>0, <1>2, DomainThrows DEF CreateSsoAdapter, Step, StartInv, Wiring, Domains, SourceOf, SourceDomain
  <2>2. /\ wired'.store = wired.store /\ wired'.writeEnabled = wired.writeEnabled
        /\ wired'.kubeClient = wired.kubeClient
        /\ wired'.verifier = wired.verifier /\ wired'.writer = wired.writer
        /\ wired'.source = SourceDomain
    BY <1>0, <1>2 DEF CreateSsoAdapter, Step, StartInv, Wiring
  <2>3. SourceOf \in {"github", "file"} /\ (SourceOf = "github" => ~DomainUnusable)
    BY <1>0, <1>2, DomainThrows DEF CreateSsoAdapter, Step, StartInv, SourceDomain
  <2>4. Passed("authConfig")'
    BY <1>0, <2>2, <2>3, EnvironmentStays DEF StartInv, Passed
  <2> QED
    BY <1>0, <1>2, <2>1, <2>4, Moves DEF Loaders
<1> QED
  BY <1>1, <1>2 DEF CreateSsoAdapter, Step

LEMMA LoadAuthKeeps ==
  ASSUME StartAssumption, StartInv, LoadAuth
  PROVE  StartInv'
<1>0. phase = "authConfig" /\ ~Listening /\ UNCHANGED <<env, submitted>> /\ wired.reconciler = "none"
  BY DEF LoadAuth, Step, Listening, StartInv, Loaders
<1>1. CASE phase' = "exited"
  <2>1. wired' = wired /\ StartRefused
    BY <1>0, <1>1, Reasons, DomainThrows, EnvironmentFields
       DEF LoadAuth, Step, StartInv, Passed, DomainValidated, SourceOf, SourceDomain, Production
  <2> QED
    BY <1>0, <1>1, <2>1, Exits
<1>2. CASE phase' = "writers"
  <2>1. wired' \in Wiring /\ wired'.reconciler = "none"
    BY <1>0, <1>2, DomainThrows DEF LoadAuth, Step, StartInv, Wiring, Domains, SourceOf, SourceDomain
  <2>2. /\ wired'.store = wired.store /\ wired'.writeEnabled = wired.writeEnabled
        /\ wired'.kubeClient = wired.kubeClient
        /\ wired'.source = wired.source /\ wired'.writer = wired.writer
        /\ wired'.verifier = (env.auth = "oidc")
    BY <1>0, <1>2 DEF LoadAuth, Step, StartInv, Wiring
  <2>3. /\ env.auth # "bad" /\ ~(env.auth = "disabled" /\ Production)
        /\ ~(env.auth = "oidc" /\ env.issuer \in {"unset", "bad"})
    BY <1>0, <1>2, DomainThrows DEF LoadAuth, Step, StartInv, SourceDomain
  <2>4. Passed("writers")'
    BY <1>0, <2>2, <2>3, EnvironmentStays DEF StartInv, Passed
  <2> QED
    BY <1>0, <1>2, <2>1, <2>4, Moves DEF Loaders
<1> QED
  BY <1>1, <1>2 DEF LoadAuth, Step

LEMMA CreateWritersKeeps ==
  ASSUME StartAssumption, StartInv, CreateWriters
  PROVE  StartInv'
<1>0. phase = "writers" /\ ~Listening /\ UNCHANGED <<env, submitted>> /\ wired.reconciler = "none"
  BY DEF CreateWriters, Step, Listening, StartInv, Loaders
<1>1. CASE phase' = "exited"
  <2>1. wired' = wired /\ StartRefused
    BY <1>0, <1>1, Reasons, DomainThrows, EnvironmentFields
       DEF CreateWriters, Step, StartInv, Passed, DomainValidated, SourceOf, SourceDomain, Production
  <2> QED
    BY <1>0, <1>1, <2>1, Exits
<1>2. CASE phase' = "reconciler"
  <2>1. wired' \in Wiring /\ wired'.reconciler = "none"
    BY <1>0, <1>2, DomainThrows DEF CreateWriters, Step, StartInv, Wiring, Domains, SourceOf, SourceDomain
  <2>2. /\ wired'.store = wired.store /\ wired'.writeEnabled = wired.writeEnabled
        /\ wired'.kubeClient = wired.kubeClient
        /\ wired'.source = wired.source /\ wired'.verifier = wired.verifier
        /\ wired'.writer = (env.app = "ok")
    BY <1>0, <1>2 DEF CreateWriters, Step, StartInv, Wiring
  <2>3. Passed("reconciler")'
    BY <1>0, <2>2, EnvironmentStays DEF StartInv, Passed
  <2> QED
    BY <1>0, <1>2, <2>1, <2>3, Moves DEF Loaders
<1> QED
  BY <1>1, <1>2 DEF CreateWriters, Step

(* Whatever got past every loader is refused by none. *)
LEMMA ServedIsSound ==
  ASSUME StartAssumption, env \in Environments, NEW p \in WritersMade, Passed(p),
         env.db = "ok" /\ env.app = "ok" => ~DomainUnusable
  PROVE  ~StartRefused
<1>0. /\ p \in HostLoaded /\ p \in DbLoaded /\ p \in WriteLoaded /\ p \in IntervalLoaded /\ p \in KubeLoaded
      /\ p \in RuntimeMade /\ p \in UpstreamLoaded /\ p \in AdapterMade /\ p \in AuthLoaded
  OBVIOUS
<1>1. /\ env.listen # "bad" /\ env.db # "bad" /\ env.write # "bad" /\ env.interval # "bad" /\ env.kube # "bad"
      /\ env.flink # "bad" /\ (env.kube # "unset" => ~DomainUnusable) /\ env.upstream # "bad"
      /\ SourceOf \in {"github", "file"} /\ (SourceOf = "github" => ~DomainUnusable)
      /\ env.auth # "bad" /\ ~(env.auth = "disabled" /\ Production)
      /\ ~(env.auth = "oidc" /\ env.issuer \in {"unset", "bad"})
  BY <1>0, Zenon DEF Passed
<1>2. env.source # "bad" /\ ~(Production /\ env.source = "unset")
  BY <1>1 DEF SourceOf
<1>3. ~(DomainValidated /\ DomainUnusable)
  BY <1>1 DEF DomainValidated
<1> QED
  BY <1>1, <1>2, <1>3, Reasons

(* What is left invalid then is the domain of the file source, and no other part has it. *)
LEMMA OnlyTheFileDomain ==
  ASSUME NEW kube, NEW reconciler, SourceOf \in {"github", "file"}, kube = (env.kube # "unset"),
         ~(env.db = "ok" /\ env.app = "ok") => reconciler = "none", ~StartRefused, Misconfigured
  PROVE  SourceOf = "file" /\ DomainUnusable /\ reconciler = "none" /\ ~kube
<1>1. DomainUnusable /\ ~DomainValidated
  BY DEF Misconfigured, StartRefused
<1> QED
  BY <1>1 DEF DomainValidated

LEMMA CreateReconcilerKeeps ==
  ASSUME StartAssumption, StartInv, CreateReconciler
  PROVE  StartInv'
<1>0. phase = "reconciler" /\ ~Listening /\ UNCHANGED <<env, submitted>> /\ wired.reconciler = "none"
  BY DEF CreateReconciler, Step, Listening, StartInv, Loaders
<1>a. HasReconciler <=> env.db = "ok" /\ env.app = "ok"
  BY <1>0 DEF HasReconciler, StartInv, Passed
<1>1. CASE phase' = "exited"
  <2>1. wired' = wired /\ HasReconciler /\ ResolveBaseDomain = "error"
    BY <1>0, <1>1 DEF CreateReconciler, Step
  <2>2. StartRefused
    BY <1>a, <2>1, Reasons, DomainThrows DEF DomainValidated, StartInv
  <2> QED
    BY <1>0, <1>1, <2>1, <2>2, Exits
<1>2. CASE phase' = "serving"
  <2>1. /\ wired' = [wired EXCEPT !.reconciler = IF HasReconciler THEN ResolveBaseDomain ELSE @]
        /\ HasReconciler => ~DomainUnusable
    BY <1>0, <1>2, DomainThrows DEF CreateReconciler, Step, StartInv
  <2>2. wired' \in Wiring
    BY <2>1, DomainThrows DEF StartInv, Wiring, Domains
  <2>3. /\ wired'.store = wired.store /\ wired'.writeEnabled = wired.writeEnabled
        /\ wired'.kubeClient = wired.kubeClient /\ wired'.source = wired.source
        /\ wired'.verifier = wired.verifier /\ wired'.writer = wired.writer
        /\ wired'.reconciler = IF HasReconciler THEN ResolveBaseDomain ELSE "none"
    BY <1>0, <2>1 DEF StartInv, Wiring
  <2>4. Passed("serving")'
    BY <1>0, <1>a, <2>1, <2>3, EnvironmentStays DEF StartInv, Passed
  <2>5. ~StartRefused'
    BY <1>0, <1>a, <2>1, ServedIsSound, EnvironmentStays DEF StartInv
  <2>6. submitted' = {}
    BY <1>0 DEF StartInv
  <2>8. /\ wired.kubeClient = (env.kube # "unset") /\ SourceOf \in {"github", "file"} /\ ~StartRefused
    <3>1. phase \in KubeLoaded /\ phase \in AdapterMade
      BY <1>0
    <3>2. wired.kubeClient = (env.kube # "unset") /\ SourceOf \in {"github", "file"}
      BY <3>1, Zenon DEF StartInv, Passed
    <3> QED
      BY <3>2, <1>0, <2>5, EnvironmentStays
  <2>9. Misconfigured => SourceOf = "file" /\ DomainUnusable /\ wired'.reconciler = "none" /\ ~wired'.kubeClient
    BY <1>a, <2>3, <2>8, OnlyTheFileDomain
  <2>7. StartupSound'
    BY <1>0, <1>2, <2>5, <2>6, <2>9, EnvironmentStays DEF StartupSound, FailsFastAndOnlyThen, AcceptedIsWatched, RebuiltWithSameDomain,
       HealthIsHonest
  <2> QED
    BY <1>0, <1>2, <2>2, <2>4, <2>6, <2>7 DEF StartInv, Loaders
<1> QED
  BY <1>1, <1>2 DEF CreateReconciler, Step

(* A process that listens has passed every loader. *)
LEMMA ListeningFacts ==
  ASSUME StartAssumption, StartInv, Listening
  PROVE  /\ ~StartRefused /\ phase \in Served
         /\ wired.verifier => env.auth = "oidc"
         /\ wired.writeEnabled => env.write = "on"
         /\ wired.store <=> env.db = "ok"
         /\ wired.writer <=> env.app = "ok"
         /\ wired.store /\ wired.writer => wired.reconciler = ResolveBaseDomain /\ ResolveBaseDomain # "error"
         /\ wired.source = SourceDomain /\ SourceOf \in {"github", "file"}
         /\ Misconfigured => SourceOf = "file" /\ DomainUnusable /\ wired.reconciler = "none" /\ ~wired.kubeClient
<1>1. phase \in Served
  BY DEF Listening
<1>0. /\ phase \in DbLoaded /\ phase \in WriteLoaded /\ phase \in AdapterMade /\ phase \in AuthLoaded
      /\ phase \in WritersMade /\ phase \in KubeLoaded
  BY <1>1
<1>3. /\ wired.store = (env.db = "ok") /\ wired.writeEnabled = (env.write = "on")
      /\ SourceOf \in {"github", "file"} /\ wired.source = SourceDomain
      /\ wired.verifier = (env.auth = "oidc") /\ wired.writer = (env.app = "ok")
      /\ (env.db = "ok" /\ env.app = "ok" => ~DomainUnusable /\ wired.reconciler = ResolveBaseDomain)
      /\ wired.kubeClient = (env.kube # "unset") /\ (~(env.db = "ok" /\ env.app = "ok") => wired.reconciler = "none")
  BY <1>0, <1>1, Zenon DEF StartInv, Passed
<1>2. ~StartRefused
  BY <1>0, <1>3, ServedIsSound DEF StartInv
<1>4. Misconfigured => SourceOf = "file" /\ DomainUnusable /\ wired.reconciler = "none" /\ ~wired.kubeClient
  BY <1>2, <1>3, OnlyTheFileDomain
<1> QED
  BY <1>1, <1>2, <1>3, <1>4, DomainThrows DEF StartInv

(* An answer to a submit says what the gates have seen. *)
LEMMA SubmitKeeps ==
  ASSUME StartAssumption, StartInv, Submit
  PROVE  StartInv'
<1>0. Listening /\ UNCHANGED <<env, phase, wired>>
  BY DEF Submit
<1>1. PICK who \in {"nobody", "user", "admin"}, up \in BOOLEAN :
        submitted' = {[caller |-> who, code |-> Refusal(who, up)]}
  BY DEF Submit
<1>2. Refusal(who, up) = "none" =>
        wired.verifier /\ who = "admin" /\ wired.writeEnabled /\ wired.store /\ wired.writer
  BY DEF Refusal
<1>3. Refusal(who, up) = "GIT_WRITER_UNCONFIGURED" => ~wired.writer
  BY DEF Refusal
<1>4. \A g \in submitted' : g.caller = who /\ g.code = Refusal(who, up)
  BY <1>1
<1>5. FailsFastAndOnlyThen'
  BY <1>0, EnvironmentStays, ListeningFacts DEF FailsFastAndOnlyThen, Listening, StartInv
<1>6. AcceptedIsWatched'
  <2>1. ResolveBaseDomain \in {"given", "default", "issuer", "error"}
    BY DomainThrows DEF StartInv
  <2> QED
    BY <1>0, <1>2, <1>4, <2>1, ListeningFacts DEF AcceptedIsWatched
<1>7. RebuiltWithSameDomain'
  <2> SUFFICES ASSUME Refusal(who, up) = "none", ~(Production /\ SourceOf = "file")
               PROVE  wired.reconciler = wired.source
    BY <1>0, <1>4, EnvironmentStays DEF RebuiltWithSameDomain
  <2>1. /\ wired.reconciler = ResolveBaseDomain /\ ResolveBaseDomain # "error" /\ wired.source = SourceDomain
        /\ SourceOf \in {"github", "file"}
    BY <1>0, <1>2, ListeningFacts
  <2>2. ~Production \/ SourceOf = "github"
    BY <2>1
  <2> QED
    BY <2>1, <2>2, EnvironmentFields DEF SourceDomain, ResolveBaseDomain, StartInv
<1>8. HealthIsHonest'
  BY <1>0, <1>2, <1>3, <1>4 DEF HealthIsHonest, Health
<1>9. Passed(phase)'
  BY <1>0, EnvironmentStays DEF StartInv, Passed
<1> QED
  BY <1>0, <1>5, <1>6, <1>7, <1>8, <1>9, EnvironmentStays DEF StartInv, StartupSound, Listening

(* The tick and the signals give no answer and change nothing that is wired. *)
LEMMA QuietKeeps ==
  ASSUME StartAssumption, StartInv, Listening, phase' \in Served, UNCHANGED <<env, wired>>, submitted' = {}
  PROVE  StartInv'
<1>1. /\ phase \in Served /\ ~StartRefused
      /\ Misconfigured => SourceOf = "file" /\ DomainUnusable /\ wired.reconciler = "none" /\ ~wired.kubeClient
  BY ListeningFacts
<1>2. Passed(phase)'
  BY <1>1, EnvironmentStays DEF StartInv, Passed
<1>3. StartupSound'
  BY <1>1, EnvironmentStays DEF StartupSound, FailsFastAndOnlyThen, AcceptedIsWatched, RebuiltWithSameDomain,
     HealthIsHonest, Served
<1> QED
  BY <1>1, <1>2, <1>3, EnvironmentStays DEF StartInv, Loaders

LEMMA StartStarts ==
  ASSUME StartAssumption, StartInit
  PROVE  StartInv
<1>1. wired \in Wiring /\ wired.reconciler = "none"
  BY DEF StartInit, Nothing, Wiring, Domains
<1>2. StartupSound
  BY DEF StartInit, StartupSound, FailsFastAndOnlyThen, AcceptedIsWatched, RebuiltWithSameDomain, HealthIsHonest,
     Listening
<1>3. Passed(phase)
  BY DEF StartInit, Passed
<1> QED
  BY <1>1, <1>2, <1>3 DEF StartInit, StartInv, Loaders

LEMMA StartKept ==
  ASSUME StartAssumption, StartInv, [StartNext]_startVars
  PROVE  StartInv'
<1>1. CASE Load
  BY <1>1, LoadListenHostKeeps, LoadAuditDbKeeps, LoadWriteEnabledKeeps, LoadReconcileIntervalKeeps, LoadKubeApiKeeps,
     CreateRuntimeKeeps, LoadUpstreamWiringKeeps, CreateSsoAdapterKeeps, LoadAuthKeeps, CreateWritersKeeps,
     CreateReconcilerKeeps DEF Load
<1>2. CASE Submit
  BY <1>2, SubmitKeeps
<1>3. CASE TickStarts \/ TickEnds
  BY <1>3, QuietKeeps DEF TickStarts, TickEnds, HasTimer, Listening
<1>4. CASE Signal \/ Drained
  BY <1>4, QuietKeeps DEF Signal, Drained, Listening
<1>5. CASE UNCHANGED startVars
  <2>1. UNCHANGED <<env, phase, wired, submitted>>
    BY <1>5 DEF startVars
  <2>2. StartupSound'
    BY <2>1, EnvironmentStays DEF StartInv, StartupSound, FailsFastAndOnlyThen, AcceptedIsWatched,
       RebuiltWithSameDomain, HealthIsHonest, Health, Listening
  <2>3. Passed(phase)'
    BY <2>1, EnvironmentStays DEF StartInv, Passed
  <2> QED
    BY <2>1, <2>2, <2>3, EnvironmentStays DEF StartInv, Listening
<1> QED
  BY <1>1, <1>2, <1>3, <1>4, <1>5 DEF StartNext

HIDE DEF HostLoaded, DbLoaded, WriteLoaded, IntervalLoaded, KubeLoaded, RuntimeMade, UpstreamLoaded, AdapterMade,
         AuthLoaded, WritersMade, Served

(* For every environment, however many of its variables are invalid: the process *)
(* exits only for a value that a loader refuses, one that listens has none such, *)
(* and nothing invalid but the domain of a file source that no other part uses;  *)
(* it has a reconciler for every change it accepts, rebuilds it with the domain  *)
(* it was built with, and refuses nothing for what /health calls configured.     *)
THEOREM StartupSoundAlways ==
  ASSUME StartAssumption
  PROVE  StartSpec => []StartupSound
<1>1. StartInit => StartInv
  BY StartStarts
<1>2. StartInv /\ [StartNext]_startVars => StartInv'
  BY StartKept
<1>3. StartInv => StartupSound
  BY DEF StartInv
<1> QED
  BY <1>1, <1>2, <1>3, PTL DEF StartSpec
===============================================================================
