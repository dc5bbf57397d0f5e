---------------------------- MODULE UpstreamProofs ----------------------------
(***************************************************************************)
(* The limiter of UpstreamHttpClient for any number of callers, slots and  *)
(* places in line.  The invariants are inductive together: a wakeup is     *)
(* sound because exactly the waiting callers are in line, and the count is *)
(* because only a holder releases.                                         *)
(*                                                                         *)
(* CatalogSource for any readers, names, pages and times.  Its invariant   *)
(* says what a listing under way has collected so far, by when each        *)
(* traversal and each prefix look-up ends, and how long what is under way  *)
(* or remembered may still rest on a prefix the warehouse has left.        *)
(***************************************************************************)
EXTENDS UpstreamHttpClient, CatalogSource, FiniteSetTheorems, TLAPS

LimiterInv == TypeOK /\ SlotsExact /\ LineIsExact

-------------------------------------------------------------------------------
(* The holders are counted: the set is finite, and so are its changes. *)
LEMMA HoldersFinite == IsFiniteSet(Holders)
  BY CallsAssumption, FS_Subset DEF Holders

(* A caller that takes a slot. *)
LEMMA OneMore ==
  ASSUME NEW c \in Calls, c \notin Holders, Holders' = Holders \cup {c}
  PROVE  Cardinality(Holders') = Cardinality(Holders) + 1
  BY HoldersFinite, FS_AddElement

(* A caller that gives its slot back. *)
LEMMA OneLess ==
  ASSUME NEW c \in Calls, c \in Holders, Holders' = Holders \ {c}
  PROVE  Cardinality(Holders') = Cardinality(Holders) - 1 /\ Cardinality(Holders) \in Nat
  BY HoldersFinite, FS_RemoveElement, FS_CardinalityType

(* A caller that hands its slot to another. *)
LEMMA OneForAnother ==
  ASSUME NEW c \in Calls, NEW d \in Calls, c \in Holders, d \notin Holders,
         Holders' = (Holders \ {c}) \cup {d}
  PROVE  Cardinality(Holders') = Cardinality(Holders)
<1> DEFINE R == Holders \ {c}
<1>1. IsFiniteSet(R) /\ Cardinality(R) = Cardinality(Holders) - 1
  BY HoldersFinite, FS_RemoveElement
<1>2. d \notin R
  OBVIOUS
<1>3. Cardinality(R \cup {d}) = Cardinality(R) + 1
  BY <1>1, <1>2, FS_AddElement
<1>4. Cardinality(Holders) \in Nat
  BY HoldersFinite, FS_CardinalityType
<1> QED
  BY <1>1, <1>3, <1>4

-------------------------------------------------------------------------------
(* Steps of a caller that neither takes nor leaves a slot or the line. *)
LEMMA Unaffected ==
  ASSUME LimiterInv, NEW c \in Calls, NEW p \in Phases,
         call' = [call EXCEPT ![c] = p], UNCHANGED <<inFlight, waiters>>,
         call[c] \in Sending <=> p \in Sending, call[c] # "waiting", p # "waiting"
  PROVE  LimiterInv'
<1>1. TypeOK'
  BY DEF LimiterInv, TypeOK
<1>2. Holders' = Holders
  BY DEF LimiterInv, TypeOK, Holders
<1>3. SlotsExact'
  BY <1>2 DEF LimiterInv, SlotsExact
<1>4. LineIsExact'
  BY DEF LimiterInv, LineIsExact, TypeOK
<1> QED
  BY <1>1, <1>3, <1>4 DEF LimiterInv

LEMMA AcquireStep ==
  ASSUME LimiterInv, NEW c \in Calls, call[c] \in {"idle", "token"}, Acquire(c)
  PROVE  LimiterInv'
<1>1. CASE TakesSlot(c)
  <2>1. TypeOK'
    BY <1>1 DEF LimiterInv, TypeOK, TakesSlot, Phases, Sending
  <2>2. c \notin Holders /\ Holders' = Holders \cup {c}
    BY <1>1 DEF LimiterInv, TypeOK, TakesSlot, Holders, Sending
  <2>3. Cardinality(Holders') = Cardinality(Holders) + 1
    BY <2>2, OneMore
  <2>4. SlotsExact'
    BY <1>1, <2>3, LimitAssumption DEF LimiterInv, TypeOK, SlotsExact, TakesSlot
  <2>5. waiters = <<>>
    BY <1>1, LimitAssumption DEF LimiterInv, TypeOK, LineIsExact, TakesSlot
  <2>6. LineIsExact'
    BY <1>1, <2>5 DEF LimiterInv, LineIsExact, TypeOK, TakesSlot
  <2> QED
    BY <2>1, <2>4, <2>6 DEF LimiterInv
<1>2. CASE Queues(c)
  <2>1. TypeOK'
    BY <1>2 DEF LimiterInv, TypeOK, Queues, Phases, Sending
  <2>2. Holders' = Holders
    BY <1>2 DEF LimiterInv, TypeOK, Queues, Holders, Sending
  <2>3. SlotsExact'
    BY <1>2, <2>2 DEF LimiterInv, SlotsExact, Queues
  <2>4. inFlight' = MaxConcurrent /\ Len(waiters') <= MaxQueued
    BY <1>2, LimitAssumption DEF LimiterInv, TypeOK, SlotsExact, Queues
  <2>5. /\ Len(waiters') = Len(waiters) + 1 /\ waiters'[Len(waiters) + 1] = c
        /\ \A i \in 1..Len(waiters) : waiters'[i] = waiters[i]
    BY <1>2 DEF LimiterInv, TypeOK, Queues
  <2>6. \A i \in 1..Len(waiters) : waiters[i] # c
    BY DEF LimiterInv, LineIsExact
  <2>7. \A d \in Calls : call'[d] = "waiting" <=> \E i \in 1..Len(waiters') : waiters'[i] = d
    <3> SUFFICES ASSUME NEW d \in Calls
                 PROVE  call'[d] = "waiting" <=> \E i \in 1..Len(waiters') : waiters'[i] = d
      OBVIOUS
    <3>1. CASE d = c
      BY <1>2, <2>5, <3>1 DEF LimiterInv, TypeOK, Queues
    <3>2. CASE d # c
      BY <1>2, <2>5, <3>2 DEF LimiterInv, TypeOK, LineIsExact, Queues
    <3> QED
      BY <3>1, <3>2
  <2>8. \A i, j \in 1..Len(waiters') : waiters'[i] = waiters'[j] => i = j
    BY <2>5, <2>6 DEF LimiterInv, TypeOK, LineIsExact
  <2> QED
    BY <2>1, <2>3, <2>4, <2>7, <2>8 DEF LimiterInv, LineIsExact
<1>3. CASE IsShed(c)
  BY <1>3, Unaffected DEF IsShed, Fails, Phases, Sending
<1> QED
  BY <1>1, <1>2, <1>3 DEF Acquire

LEMMA QueueTimerStep ==
  ASSUME LimiterInv, NEW c \in Calls, QueueTimer(c)
  PROVE  LimiterInv'
<1> PICK i \in 1..Len(waiters) : waiters[i] = c /\ waiters' = Splice(waiters, i)
  BY DEF QueueTimer
<1>1. waiters \in Seq(Calls) /\ Len(waiters) \in Nat
  BY DEF LimiterInv, TypeOK
<1>2. /\ waiters' \in Seq(Calls) /\ Len(waiters') = Len(waiters) - 1
      /\ \A j \in 1..Len(waiters') : waiters'[j] = IF j < i THEN waiters[j] ELSE waiters[j + 1]
  BY <1>1 DEF Splice
<1>3. TypeOK'
  BY <1>2 DEF LimiterInv, TypeOK, QueueTimer, Phases, Sending
<1>4. Holders' = Holders
  BY DEF LimiterInv, TypeOK, QueueTimer, Holders, Sending
<1>5. SlotsExact'
  BY <1>4 DEF LimiterInv, SlotsExact, QueueTimer
<1>6. (waiters' # <<>> => inFlight' = MaxConcurrent) /\ Len(waiters') <= MaxQueued
  BY <1>1, <1>2, LimitAssumption DEF LimiterInv, LineIsExact, QueueTimer
<1>7. \A j, k \in 1..Len(waiters') : waiters'[j] = waiters'[k] => j = k
  BY <1>1, <1>2 DEF LimiterInv, LineIsExact
<1>8. \A d \in Calls : call'[d] = "waiting" <=> \E j \in 1..Len(waiters') : waiters'[j] = d
  <2> SUFFICES ASSUME NEW d \in Calls
               PROVE  call'[d] = "waiting" <=> \E j \in 1..Len(waiters') : waiters'[j] = d
    OBVIOUS
  <2>1. CASE d = c
    <3>1. \A j \in 1..Len(waiters') : waiters'[j] # c
      BY <1>1, <1>2 DEF LimiterInv, LineIsExact
    <3> QED
      BY <2>1, <3>1 DEF LimiterInv, TypeOK, QueueTimer
  <2>2. CASE d # c
    <3>1. call'[d] = call[d]
      BY <2>2 DEF LimiterInv, TypeOK, QueueTimer
    <3>2. ASSUME NEW j \in 1..Len(waiters), waiters[j] = d
          PROVE  \E k \in 1..Len(waiters') : waiters'[k] = d
      <4>1. CASE j < i
        BY <1>1, <1>2, <3>2, <4>1
      <4>2. CASE j > i
        <5>1. j - 1 \in 1..Len(waiters') /\ waiters'[j - 1] = d
          BY <1>1, <1>2, <3>2, <4>2
        <5> QED
          BY <5>1
      <4> QED
        BY <2>2, <3>2, <4>1, <4>2
    <3>3. ASSUME NEW k \in 1..Len(waiters'), waiters'[k] = d
          PROVE  \E j \in 1..Len(waiters) : waiters[j] = d
      <4>1. CASE k < i
        BY <1>1, <1>2, <3>3, <4>1
      <4>2. CASE k >= i
        <5>1. k + 1 \in 1..Len(waiters) /\ waiters[k + 1] = d
          BY <1>1, <1>2, <3>3, <4>2
        <5> QED
          BY <5>1
      <4> QED
        BY <1>1, <1>2, <4>1, <4>2
    <3> QED
      BY <3>1, <3>2, <3>3 DEF LimiterInv, LineIsExact
  <2> QED
    BY <2>1, <2>2
<1> QED
  BY <1>3, <1>5, <1>6, <1>7, <1>8 DEF LimiterInv, LineIsExact

LEMMA ReleaseStep ==
  ASSUME LimiterInv, NEW c \in Calls, call[c] \in Sending, Release(c)
  PROVE  LimiterInv'
<1>1. c \in Holders
  BY DEF Holders
<1>2. CASE waiters = <<>>
  <2>1. /\ inFlight' = inFlight - 1 /\ call' = [call EXCEPT ![c] = "idle"]
        /\ waiters' = waiters
    BY <1>2 DEF Release
  <2>2. Holders' = Holders \ {c}
    BY <2>1 DEF LimiterInv, TypeOK, Holders, Sending
  <2>3. Cardinality(Holders') = Cardinality(Holders) - 1 /\ Cardinality(Holders) \in Nat
    BY <1>1, <2>2, OneLess
  <2>4. Cardinality(Holders') \in Nat
    BY <2>2, HoldersFinite, FS_RemoveElement, FS_CardinalityType
  <2>5. SlotsExact' /\ inFlight' \in Nat
    BY <2>1, <2>3, <2>4, LimitAssumption DEF LimiterInv, SlotsExact
  <2>6. TypeOK'
    BY <2>1, <2>5 DEF LimiterInv, TypeOK, Phases
  <2>7. LineIsExact'
    BY <1>2, <2>1 DEF LimiterInv, LineIsExact, TypeOK, Sending
  <2> QED
    BY <2>5, <2>6, <2>7 DEF LimiterInv
<1>3. CASE waiters # <<>>
  <2> DEFINE d == Head(waiters)
  <2>1. /\ inFlight' = inFlight /\ waiters' = Tail(waiters)
        /\ call' = [call EXCEPT ![c] = "idle", ![d] = "fetching"]
    BY <1>3 DEF Release
  <2>2. /\ waiters \in Seq(Calls) /\ Len(waiters) \in Nat \ {0} /\ d = waiters[1]
        /\ 1 \in 1..Len(waiters) /\ d \in Calls
    BY <1>3 DEF LimiterInv, TypeOK
  <2>3. call[d] = "waiting" /\ d # c
    BY <2>2 DEF LimiterInv, LineIsExact, Sending
  <2>4. /\ waiters' \in Seq(Calls) /\ Len(waiters') = Len(waiters) - 1
        /\ \A j \in 1..Len(waiters') : waiters'[j] = waiters[j + 1]
    BY <2>1, <2>2
  <2>5. call' \in [Calls -> Phases] /\ call'[c] = "idle" /\ call'[d] = "fetching"
        /\ \A e \in Calls \ {c, d} : call'[e] = call[e]
    BY <2>1, <2>2, <2>3 DEF LimiterInv, TypeOK, Phases, Sending
  <2>6. TypeOK'
    BY <2>1, <2>4, <2>5 DEF LimiterInv, TypeOK
  <2>7. d \notin Holders /\ Holders' = (Holders \ {c}) \cup {d}
    BY <2>2, <2>3, <2>5 DEF Holders, Sending
  <2>8. SlotsExact'
    BY <1>1, <2>1, <2>2, <2>7, OneForAnother DEF LimiterInv, SlotsExact
  <2>9. inFlight' = MaxConcurrent /\ Len(waiters') <= MaxQueued
    BY <1>3, <2>1, <2>2, <2>4, LimitAssumption DEF LimiterInv, LineIsExact
  <2>10. \A j, k \in 1..Len(waiters') : waiters'[j] = waiters'[k] => j = k
    BY <2>2, <2>4 DEF LimiterInv, LineIsExact
  <2>11. \A j \in 1..Len(waiters') : waiters'[j] # d /\ waiters'[j] # c
    BY <2>2, <2>4 DEF LimiterInv, LineIsExact, Sending
  <2>12. \A e \in Calls : call'[e] = "waiting" <=> \E j \in 1..Len(waiters') : waiters'[j] = e
    <3> SUFFICES ASSUME NEW e \in Calls
                 PROVE  call'[e] = "waiting" <=> \E j \in 1..Len(waiters') : waiters'[j] = e
      OBVIOUS
    <3>1. CASE e \in {c, d}
      BY <2>5, <2>11, <3>1
    <3>2. CASE e \notin {c, d}
      <4>1. ASSUME NEW j \in 1..Len(waiters), waiters[j] = e
            PROVE  \E k \in 1..Len(waiters') : waiters'[k] = e
        <5>1. j - 1 \in 1..Len(waiters') /\ waiters'[j - 1] = e
          BY <2>2, <2>4, <3>2, <4>1
        <5> QED
          BY <5>1
      <4>2. ASSUME NEW k \in 1..Len(waiters'), waiters'[k] = e
            PROVE  \E j \in 1..Len(waiters) : waiters[j] = e
        <5>1. k + 1 \in 1..Len(waiters) /\ waiters[k + 1] = e
          BY <2>2, <2>4, <4>2
        <5> QED
          BY <5>1
      <4> QED
        BY <2>5, <3>2, <4>1, <4>2 DEF LimiterInv, LineIsExact
    <3> QED
      BY <3>1, <3>2
  <2> QED
    BY <2>6, <2>8, <2>9, <2>10, <2>12 DEF LimiterInv, LineIsExact
<1> QED
  BY <1>2, <1>3

-------------------------------------------------------------------------------
LEMMA LimiterInit == Init => LimiterInv
<1> SUFFICES ASSUME Init PROVE LimiterInv
  OBVIOUS
<1>1. TypeOK
  BY DEF Init, TypeOK, Phases
<1>2. Holders = {}
  BY DEF Init, Holders, Sending
<1>3. SlotsExact
  BY <1>2, FS_EmptySet, LimitAssumption DEF Init, SlotsExact
<1>4. LineIsExact
  BY LimitAssumption DEF Init, LineIsExact
<1> QED
  BY <1>1, <1>3, <1>4 DEF LimiterInv

LEMMA LimiterNext == LimiterInv /\ [Next]_vars => LimiterInv'
<1> SUFFICES ASSUME LimiterInv, [Next]_vars PROVE LimiterInv'
  OBVIOUS
<1>1. CASE UNCHANGED vars
  BY <1>1 DEF LimiterInv, TypeOK, SlotsExact, LineIsExact, Holders, vars
<1>2. ASSUME NEW c \in Calls, GetJson(c) PROVE LimiterInv'
  BY <1>2, Unaffected, AcquireStep DEF GetJson, Fails, Phases, Sending
<1>3. ASSUME NEW c \in Calls, TokenRead(c) PROVE LimiterInv'
  BY <1>3, Unaffected, AcquireStep DEF TokenRead, Fails, Phases, Sending
<1>4. ASSUME NEW c \in Calls, QueueTimer(c) PROVE LimiterInv'
  BY <1>4, QueueTimerStep
<1>5. ASSUME NEW c \in Calls, AbortTimer(c) PROVE LimiterInv'
  BY <1>5, Unaffected, ReleaseStep DEF AbortTimer, Discards, Phases, Sending
<1>6. ASSUME NEW c \in Calls, DiscardTimer(c) \/ CancelSettles(c) PROVE LimiterInv'
  BY <1>6, ReleaseStep DEF DiscardTimer, CancelSettles, Sending
<1>7. ASSUME NEW c \in Calls, HeadArrives(c) PROVE LimiterInv'
  BY <1>7, Unaffected, ReleaseStep DEF HeadArrives, Discards, Phases, Sending
<1>8. ASSUME NEW c \in Calls, BodyArrives(c) PROVE LimiterInv'
  BY <1>8, Unaffected, ReleaseStep DEF BodyArrives, Discards, Phases, Sending
<1> QED
  BY <1>1, <1>2, <1>3, <1>4, <1>5, <1>6, <1>7, <1>8 DEF Next, Timers, Upstream

(* The limiter's invariant holds in every reachable state, for every number  *)
(* of callers, slots and places in line.                                    *)
THEOREM LimiterInvariant == Spec => []LimiterInv
  BY LimiterInit, LimiterNext, PTL DEF Spec

(* The cap holds and no slot is ever leaked or freed twice. *)
THEOREM SlotsExactAlways == Spec => []SlotsExact
<1>1. LimiterInv => SlotsExact
  BY DEF LimiterInv
<1> QED
  BY <1>1, LimiterInvariant, PTL

(* Nobody waits while a slot is free; no wakeup is lost to a timeout. *)
THEOREM LineIsExactAlways == Spec => []LineIsExact
<1>1. LimiterInv => LineIsExact
  BY DEF LimiterInv
<1> QED
  BY <1>1, LimiterInvariant, PTL

(* Slots are handed out first come, first served: no newcomer overtakes a    *)
(* caller in line.                                                          *)
THEOREM NoBargingAlways == Spec => NoBarging
<1> DEFINE Step(c) == call[c] \notin Sending /\ call'[c] \in Sending =>
                        waiters = <<>> \/ c = Head(waiters)
<1>1. ASSUME LimiterInv, [Next]_vars
      PROVE  [\A c \in Calls : Step(c)]_vars
  <2> SUFFICES ASSUME NEW b \in Calls,
                      GetJson(b) \/ TokenRead(b) \/ Timers(b) \/ Upstream(b),
                      NEW c \in Calls
               PROVE  Step(c)
    BY <1>1 DEF Next
  <2> USE DEF LimiterInv, TypeOK, Sending
  <2>1. ASSUME Acquire(b), call[b] \in {"idle", "token"} PROVE Step(c)
    BY <1>1, <2>1, LimitAssumption
    DEF Acquire, TakesSlot, Queues, IsShed, Fails, LineIsExact
  <2>2. ASSUME Release(b) PROVE Step(c)
    <3>1. CASE waiters = <<>>
      BY <3>1
    <3>2. CASE waiters # <<>>
      BY <1>1, <2>2, <3>2 DEF Release
    <3> QED
      BY <3>1, <3>2
  <2>3. CASE GetJson(b)
    BY <1>1, <2>1, <2>3 DEF GetJson, Fails
  <2>4. CASE TokenRead(b)
    BY <1>1, <2>1, <2>4 DEF TokenRead, Fails
  <2>5. CASE Timers(b)
    BY <1>1, <2>2, <2>5 DEF Timers, QueueTimer, AbortTimer, DiscardTimer, Discards
  <2>6. CASE Upstream(b)
    BY <1>1, <2>2, <2>6 DEF Upstream, HeadArrives, BodyArrives, CancelSettles, Discards
  <2> QED
    BY <2>3, <2>4, <2>5, <2>6
<1> QED
  BY <1>1, LimiterInvariant, PTL DEF Spec, NoBarging

-------------------------------------------------------------------------------
(* The catalog: its types and its invariant *)

Listings == [Kinds -> SUBSET (1..N)]
Results == [kind : {"none", "listing", "found", "missing", "failed", "limit"}, got : Listings, more : BOOLEAN,
            always : Listings]
Traversals == [at : {"none", "prefix", "namespaces", "tables", "object", "gone"}, prefix : Nat, token : Nat, pages : Nat,
               got : Listings, more : BOOLEAN, always : Listings, deadline : Nat, expires : Nat]
Entries == [result : Results, until : Nat]

CatalogTyped ==
  /\ clock \in Nat /\ children \in Listings /\ prefix \in Nat /\ movedAt \in Nat /\ edits \in Nat
  /\ lookup \in [st : {"none", "pending", "kept", "failed"}, value : Nat, until : Nat]
  /\ load \in [Keys -> Traversals]
  /\ memo \in [Keys -> Entries]
  /\ reader \in [Readers -> [key : Keys \cup {"none"}, began : Nat]]

(* A prefix that is kept although the warehouse has moved is kept no longer   *)
(* than its Ttl after the move; a look-up is answered or given up in time.    *)
LookupInv ==
  /\ movedAt <= clock
  /\ lookup.st = "pending" => clock <= lookup.until + CancelTime /\ lookup.until <= clock + TokenTime + Budget
  /\ lookup.st = "kept" => lookup.until <= clock + PrefixTtl
  /\ lookup.st = "kept" /\ lookup.value # prefix => lookup.until <= movedAt + PrefixTtl

(* The traversal l of key k: where it may be, and by when it ends. *)
LoadOk(k, l) ==
  /\ l.at = "none" => l = NoLoad
  /\ k = "list" => l.at # "object"
  /\ k = "get" => l.at \notin Kinds
  /\ l.at # "none" => l.deadline <= clock + Budget
  /\ l.at = "prefix" => lookup.st = "pending" /\ lookup.until <= l.deadline + TokenTime
  /\ l.at \in Kinds \cup {"object", "gone"} =>
       clock <= l.expires + CancelTime /\ l.expires <= l.deadline + TokenTime
  /\ l.at = "object" /\ l.prefix # prefix => l.deadline <= movedAt + PrefixTtl + Budget
  /\ l.at = "gone" /\ 1 \in children["tables"] /\ edits = 0 => l.deadline <= movedAt + PrefixTtl + Budget

(* What a listing has collected: everything addressable that was there all    *)
(* the time, up to its token, unless it already says there is more.           *)
ListOk(l) ==
  /\ \A q \in Kinds : l.always[q] \subseteq children[q] /\ l.got[q] \cap Unsafe = {}
  /\ l.at = "prefix" => l.token = 0
  /\ l.at \in Kinds /\ ~l.more => \A i \in l.always[l.at] \ Unsafe : i <= l.token => i \in l.got[l.at]
  /\ l.at = "tables" /\ ~l.more => (l.always["namespaces"] \ Unsafe) \subseteq l.got["namespaces"]

LoadsInv == (\A k \in Keys : LoadOk(k, load[k])) /\ ListOk(load["list"])

(* The result is complete or says it is not, and names nothing unsafe. *)
Whole(res) ==
  /\ res.kind = "listing" /\ ~res.more => \A k \in Kinds : (res.always[k] \ Unsafe) \subseteq res.got[k]
  /\ \A k \in Kinds : res.got[k] \cap Unsafe = {}

(* A table that exists is reported missing until t. *)
InLife(res, t) ==
  res.kind = "missing" /\ 1 \in children["tables"] /\ edits = 0 =>
    t <= movedAt + PrefixTtl + Budget + TokenTime + CancelTime + Ttl

MemoInv == \A k \in Keys : Whole(memo[k].result) /\ InLife(memo[k].result, memo[k].until)

(* Whoever waits does so for a traversal that ends within the budget. *)
ReaderInv ==
  \A r \in Readers :
    /\ reader[r].key = "none" => reader[r] = NotWaiting
    /\ reader[r].key # "none" => /\ load[reader[r].key].at # "none"
                                 /\ load[reader[r].key].deadline <= reader[r].began + Budget

GivenInv == \A a \in given : Whole(a.result) /\ InLife(a.result, clock)

CatalogInv == CatalogTyped /\ LookupInv /\ LoadsInv /\ MemoInv /\ ReaderInv /\ GivenInv

-------------------------------------------------------------------------------
(* Records and times *)

(* The keys of the memo and the listings that are drained. *)
LEMMA KeyNames == Keys = {"list", "get"} /\ Kinds = {"namespaces", "tables"}
  BY DEF Keys, Kinds

(* What is assumed of the constants, one by one. *)
LEMMA CatalogConstants ==
  ASSUME CatalogAssumption
  PROVE  /\ N \in Nat /\ Unsafe \subseteq 1..N /\ PageSize \in Nat /\ MaxPages \in Nat
         /\ Timeout \in Nat /\ TokenTime \in Nat /\ CancelTime \in Nat
         /\ Budget \in Nat /\ Ttl \in Nat /\ NegativeTtl \in Nat /\ PrefixTtl \in Nat
  BY DEF CatalogAssumption

(* A listing of nothing. *)
LEMMA NoListingTyped == NoListing \in Listings /\ \A q \in Kinds : NoListing[q] = {}
  BY DEF NoListing, Listings

(* Nothing is under way: no traversal, no waiting reader. *)
LEMMA AtRest ==
  /\ NoLoad \in Traversals /\ NoLoad.at = "none" /\ NoLoad.token = 0 /\ NoLoad.got = NoListing /\ NoLoad.always = NoListing
  /\ NoLoad.prefix = 0 /\ NoLoad.pages = 0 /\ NoLoad.more = FALSE
  /\ NotWaiting \in [key : Keys \cup {"none"}, began : Nat] /\ NotWaiting.key = "none"
  BY NoListingTyped DEF NoLoad, NotWaiting, Traversals

(* An answer that lists nothing. *)
LEMMA AnswerTyped ==
  ASSUME NEW kind \in {"none", "found", "missing", "failed", "limit"}
  PROVE  Answer(kind) \in Results /\ Answer(kind).kind = kind /\ Whole(Answer(kind))
  BY NoListingTyped DEF Answer, Results, Whole

(* No entry in the memo. *)
LEMMA NoEntryTyped == NoEntry \in Entries /\ NoEntry.result = Answer("none") /\ NoEntry.until = 0
<1>1. Answer("none") \in Results
  BY AnswerTyped
<1> QED
  BY <1>1 DEF NoEntry, Entries

(* The answer to a request of an operation can be used until the deadline of  *)
(* the operation, but for the reading of one token.                          *)
LEMMA ExpiryInTime ==
  ASSUME CatalogAssumption, clock \in Nat, NEW d \in Nat, clock <= d
  PROVE  Expiry(d) \in Nat /\ clock <= Expiry(d) /\ Expiry(d) <= d + TokenTime
  BY CatalogConstants DEF Expiry, Lesser

(* The traversal that goes on with a prefix. *)
LEMMA OnwardIs ==
  ASSUME CatalogAssumption, clock \in Nat, NEW l \in Traversals, NEW k \in Keys, NEW p \in Nat, clock <= l.deadline,
         NEW o, o = Onward(l, k, p)
  PROVE  /\ o \in Traversals /\ o.at = FirstPhase(k) /\ o.prefix = p /\ clock <= o.expires
         /\ o.expires <= l.deadline + TokenTime
         /\ o.token = l.token /\ o.got = l.got /\ o.more = l.more /\ o.always = l.always /\ o.deadline = l.deadline
<1>1. l.deadline \in Nat
  BY DEF Traversals
<1>2. PICK x \in Nat : x = Expiry(l.deadline) /\ clock <= x /\ x <= l.deadline + TokenTime
  BY <1>1, ExpiryInTime
<1>3. PICK f \in {"namespaces", "object"} : f = FirstPhase(k)
  BY DEF FirstPhase
<1>4. o = [l EXCEPT !.at = f, !.prefix = p, !.expires = x]
  BY <1>2, <1>3, Zenon DEF Onward
<1> QED
  BY <1>2, <1>3, <1>4 DEF Traversals

(* The traversal that starts now. *)
LEMMA FreshIs ==
  ASSUME CatalogAssumption, CatalogTyped,
         NEW l, l = [NoLoad EXCEPT !.at = "prefix", !.deadline = clock + Budget, !.always = children]
  PROVE  /\ l \in Traversals /\ l.at = "prefix" /\ l.deadline = clock + Budget /\ l.always = children
         /\ l.token = 0 /\ l.got = NoListing /\ l.more = FALSE
<1>1. PICK d \in Nat : d = clock + Budget
  BY CatalogConstants DEF CatalogTyped
<1>2. l = [NoLoad EXCEPT !.at = "prefix", !.deadline = d, !.always = children]
  BY <1>1, Zenon
<1>3. children \in Listings
  BY DEF CatalogTyped
<1> QED
  BY <1>1, <1>2, <1>3, AtRest DEF Traversals

(* What the memo keeps of a result, and for how long. *)
LEMMA KeptIs ==
  ASSUME CatalogAssumption, CatalogTyped, NEW res \in Results, Whole(res), InLife(res, clock + Ttl), NEW e, e = Kept(res)
  PROVE  e \in Entries /\ Whole(e.result) /\ InLife(e.result, e.until)
<1>1. CASE res.kind = "limit"
  <2>1. e = NoEntry
    BY <1>1 DEF Kept
  <2>2. Answer("none").kind = "none" /\ Whole(Answer("none"))
    BY AnswerTyped
  <2> QED
    BY <2>1, <2>2, NoEntryTyped DEF InLife
<1>2. CASE res.kind # "limit"
  <2>1. PICK u \in Nat : u = clock + Life(res) /\ (res.kind = "missing" => u = clock + Ttl)
    BY CatalogConstants DEF Life, CatalogTyped
  <2>2. e = [result |-> res, until |-> u]
    BY <1>2, <2>1 DEF Kept
  <2>3. e \in Entries /\ e.result = res /\ e.until = u
    BY <2>2 DEF Entries
  <2> QED
    BY <2>1, <2>3 DEF InLife
<1> QED
  BY <1>1, <1>2

(* A page is an initial part of what is left: nothing before its last name is *)
(* skipped.                                                                  *)
LEMMA PageIsInitial ==
  ASSUME CatalogAssumption, children \in Listings, NEW q \in Kinds, NEW t \in Nat
  PROVE  /\ Page(q, t) \subseteq Rest(q, t) /\ Rest(q, t) \subseteq 1..N /\ Rest(q, t) \subseteq children[q]
         /\ \A last \in Page(q, t), i \in Rest(q, t) : i <= last => i \in Page(q, t)
<1>1. /\ Page(q, t) \subseteq Rest(q, t) /\ Rest(q, t) \subseteq 1..N /\ Rest(q, t) \subseteq children[q]
  BY DEF Page, Rest, Listings
<1>2. ASSUME NEW last \in Page(q, t), NEW i \in Rest(q, t), i <= last
      PROVE  i \in Page(q, t)
  <2> DEFINE before == {j \in Rest(q, t) : j < i}
             until == {j \in Rest(q, t) : j < last}
  <2>1. i \in Nat /\ last \in Nat /\ \A j \in Rest(q, t) : j \in Nat
    BY <1>1, CatalogConstants
  <2>2. before \subseteq until
    <3>1. ASSUME NEW j \in Rest(q, t), j < i PROVE j < last
      BY <1>2, <2>1, <3>1
    <3> QED
      BY <3>1
  <2>3. IsFiniteSet(until)
    <3>1. IsFiniteSet(1..N)
      BY CatalogConstants, FS_Interval
    <3>2. until \subseteq 1..N
      BY <1>1
    <3> QED
      BY <3>1, <3>2, FS_Subset
  <2>4. Cardinality(before) <= Cardinality(until) /\ Cardinality(before) \in Nat /\ Cardinality(until) \in Nat
    BY <2>2, <2>3, FS_Subset, FS_CardinalityType
  <2>5. Cardinality(until) < PageSize
    BY DEF Page
  <2>6. Cardinality(before) < PageSize
    BY <2>4, <2>5, CatalogConstants
  <2> QED
    BY <2>6 DEF Page
<1> QED
  BY <1>1, <1>2

-------------------------------------------------------------------------------
(* Settling *)

(* The readers of the traversals that end are answered, and the memo keeps    *)
(* the result; the others wait on.                                           *)
LEMMA SettleKeysKeeps ==
  ASSUME CatalogAssumption, CatalogInv, NEW ks \in SUBSET Keys, NEW res \in Results, Whole(res),
         InLife(res, clock + Ttl), SettleKeys(ks, res), UNCHANGED <<clock, upstream>>,
         \A k \in Keys \ ks : load[k].at # "none" => load'[k].at # "none" /\ load'[k].deadline = load[k].deadline
  PROVE  /\ memo' \in [Keys -> Entries] /\ reader' \in [Readers -> [key : Keys \cup {"none"}, began : Nat]]
         /\ MemoInv' /\ ReaderInv' /\ GivenInv'
<1>0. CatalogTyped /\ UNCHANGED <<children, edits, movedAt>>
  BY DEF CatalogInv, upstream
<1>1. PICK e : e = Kept(res)
  OBVIOUS
<1>2. e \in Entries /\ Whole(e.result) /\ InLife(e.result, e.until)
  BY <1>0, <1>1, KeptIs
<1>3. memo' = [k \in Keys |-> IF k \in ks THEN e ELSE memo[k]]
  BY <1>1, Zenon DEF SettleKeys
<1>4. memo' \in [Keys -> Entries]
  BY <1>0, <1>2, <1>3 DEF CatalogTyped
<1>5. MemoInv'
  <2>1. ASSUME NEW k \in Keys PROVE Whole(memo'[k].result) /\ InLife(memo'[k].result, memo'[k].until)
    BY <1>2, <1>3 DEF CatalogInv, MemoInv
  <2> QED
    BY <1>0, <2>1 DEF MemoInv, Whole, InLife
<1>6. /\ reader' = [r \in Readers |-> IF reader[r].key \in ks THEN NotWaiting ELSE reader[r]]
  BY DEF SettleKeys, Waiting
<1>7. reader' \in [Readers -> [key : Keys \cup {"none"}, began : Nat]]
  BY <1>0, <1>6, AtRest DEF CatalogTyped
<1>8. ReaderInv'
  <2>1. ASSUME NEW r \in Readers
        PROVE  /\ reader'[r].key = "none" => reader'[r] = NotWaiting
               /\ reader'[r].key # "none" => /\ load'[reader'[r].key].at # "none"
                                             /\ load'[reader'[r].key].deadline <= reader'[r].began + Budget
    <3>1. CASE reader[r].key \in ks
      BY <1>6, <3>1, AtRest
    <3>2. CASE reader[r].key \notin ks
      <4>1. reader'[r] = reader[r] /\ reader[r].key \in Keys \cup {"none"}
        BY <1>0, <1>6, <3>2 DEF CatalogTyped
      <4> QED
        BY <3>2, <4>1 DEF CatalogInv, ReaderInv
    <3> QED
      BY <3>1, <3>2
  <2> QED
    BY <2>1 DEF ReaderInv
<1>9. GivenInv'
  <2>1. InLife(res, clock)
    BY <1>0, CatalogConstants DEF InLife, CatalogTyped
  <2>2. \A a \in given' : a.result = res
    BY DEF SettleKeys
  <2> QED
    BY <1>0, <2>1, <2>2 DEF GivenInv, Whole, InLife
<1> QED
  BY <1>4, <1>5, <1>7, <1>8, <1>9

(* One traversal ends with a result. *)
LEMMA SettleKeeps ==
  ASSUME CatalogAssumption, CatalogInv, NEW k \in Keys, NEW res \in Results, Whole(res), InLife(res, clock + Ttl),
         Settle(k, res), UNCHANGED <<clock, upstream, lookup>>
  PROVE  CatalogInv'
<1>0. CatalogTyped /\ UNCHANGED <<children, prefix, edits, movedAt>> /\ load' = [load EXCEPT ![k] = NoLoad]
  BY DEF CatalogInv, upstream, Settle
<1>1. load' \in [Keys -> Traversals] /\ load'[k] = NoLoad /\ \A j \in Keys \ {k} : load'[j] = load[j]
  BY <1>0, AtRest DEF CatalogTyped
<1>2. /\ memo' \in [Keys -> Entries] /\ reader' \in [Readers -> [key : Keys \cup {"none"}, began : Nat]]
      /\ MemoInv' /\ ReaderInv' /\ GivenInv'
  BY <1>1, SettleKeysKeeps DEF Settle
<1>3. LookupInv'
  BY <1>0 DEF CatalogInv, LookupInv
<1>4. LoadsInv'
  <2>1. ASSUME NEW j \in Keys PROVE LoadOk(j, load'[j])
    <3>1. CASE j = k
      BY <1>1, <3>1, AtRest, KeyNames DEF LoadOk
    <3>2. CASE j # k
      BY <1>1, <3>2 DEF CatalogInv, LoadsInv
    <3> QED
      BY <3>1, <3>2
  <2>2. ListOk(load'["list"])
    <3>1. CASE k = "list"
      BY <1>1, <3>1, AtRest, NoListingTyped, KeyNames DEF ListOk
    <3>2. CASE k # "list"
      BY <1>1, <3>2, KeyNames DEF CatalogInv, LoadsInv
    <3> QED
      BY <3>1, <3>2
  <2> QED
    BY <1>0, <2>1, <2>2 DEF LoadsInv, LoadOk, ListOk
<1> QED
  BY <1>0, <1>1, <1>2, <1>3, <1>4 DEF CatalogInv, CatalogTyped

(* The table is there.  Else the 404 is known, and its body is cancelled: under *)
(* a prefix that is stale only within the prefix's life.                      *)
LEMMA ObjectArrivesKeeps ==
  ASSUME CatalogAssumption, CatalogInv, ObjectArrives
  PROVE  CatalogInv'
<1>0. /\ load["get"].at = "object" /\ clock <= load["get"].expires /\ UNCHANGED <<clock, upstream, lookup>>
      /\ CatalogTyped /\ LookupInv /\ LoadsInv /\ ReaderInv /\ "get" \in Keys
  BY KeyNames DEF ObjectArrives, CatalogInv
<1>1. CASE load["get"].prefix = prefix /\ 1 \in children["tables"]
  <2>1. Settle("get", Answer("found"))
    BY <1>1 DEF ObjectArrives
  <2>2. Answer("found") \in Results /\ Answer("found").kind = "found" /\ Whole(Answer("found"))
    BY AnswerTyped
  <2>3. InLife(Answer("found"), clock + Ttl)
    BY <2>2 DEF InLife
  <2> QED
    BY <1>0, <2>1, <2>2, <2>3, SettleKeeps
<1>2. CASE ~(load["get"].prefix = prefix /\ 1 \in children["tables"])
  <2>0. /\ load' = [load EXCEPT !["get"].at = "gone", !["get"].expires = clock] /\ given' = {}
        /\ UNCHANGED <<memo, reader>> /\ UNCHANGED <<children, prefix, movedAt, edits>>
    BY <1>0, <1>2 DEF ObjectArrives, upstream
  <2>1. PICK l : l = load["get"]
    OBVIOUS
  <2>2. l \in Traversals /\ LoadOk("get", l) /\ l.at = "object" /\ clock <= l.expires /\ clock \in Nat /\ l.expires \in Nat
    BY <1>0, <2>1 DEF CatalogTyped, LoadsInv, Traversals
  <2>3. PICK o : o = [l EXCEPT !.at = "gone", !.expires = clock]
    OBVIOUS
  <2>4. load' = [load EXCEPT !["get"] = o]
    BY <2>0, <2>1, <2>3, Zenon
  <2>5. /\ o \in Traversals /\ o.at = "gone" /\ o.expires = clock /\ o.deadline = l.deadline
    BY <2>2, <2>3 DEF Traversals
  <2>6. /\ load' \in [Keys -> Traversals] /\ load'["get"] = o /\ load'["list"] = load["list"]
    BY <1>0, <2>4, <2>5, KeyNames DEF CatalogTyped
  <2>7. LoadsInv'
    <3>1. l.deadline \in Nat /\ l.expires <= l.deadline + TokenTime
      BY <2>2 DEF LoadOk, Traversals
    <3>2. o.expires <= o.deadline + TokenTime /\ clock <= o.expires + CancelTime
      BY <2>2, <2>5, <3>1, CatalogConstants
    <3>3. 1 \in children["tables"] => l.deadline <= movedAt + PrefixTtl + Budget
      BY <1>2, <2>1, <2>2 DEF LoadOk
    <3>4. LoadOk("get", load["get"])'
      <4>1. o.deadline <= clock + Budget
        BY <2>2, <2>5 DEF LoadOk
      <4>2. /\ o.at = "gone" /\ o.at \notin Kinds
            /\ 1 \in children["tables"] /\ edits = 0 => o.deadline <= movedAt + PrefixTtl + Budget
        BY <2>5, <3>3, KeyNames
      <4>3. LoadOk("get", o)
        BY <3>2, <4>1, <4>2 DEF LoadOk
      <4> QED
        BY <1>0, <2>0, <2>6, <4>3 DEF LoadOk
    <3>5. LoadOk("list", load["list"])' /\ ListOk(load["list"])'
      BY <1>0, <2>0, <2>6, KeyNames DEF LoadsInv, LoadOk, ListOk
    <3> QED
      BY <3>4, <3>5, KeyNames DEF LoadsInv
  <2>8. ReaderInv'
    <3>1. ASSUME NEW k \in Keys, load[k].at # "none" PROVE load'[k].at # "none" /\ load'[k].deadline = load[k].deadline
      BY <2>1, <2>5, <2>6, <3>1, KeyNames
    <3>2. ASSUME NEW r \in Readers PROVE reader[r].key \in Keys \cup {"none"}
      BY <1>0 DEF CatalogTyped
    <3> QED
      BY <1>0, <2>0, <3>1, <3>2 DEF ReaderInv
  <2>9. CatalogTyped' /\ LookupInv' /\ MemoInv' /\ GivenInv'
    BY <1>0, <2>0, <2>6 DEF CatalogInv, CatalogTyped, LookupInv, MemoInv, GivenInv, Whole, InLife
  <2> QED
    BY <2>7, <2>8, <2>9 DEF CatalogInv
<1> QED
  BY <1>1, <1>2

(* The body of the 404 is cancelled: there is no such table. *)
LEMMA ObjectGoneKeeps ==
  ASSUME CatalogAssumption, CatalogInv, ObjectGone
  PROVE  CatalogInv'
<1>0. /\ load["get"].at = "gone" /\ Settle("get", Answer("missing")) /\ UNCHANGED <<clock, upstream, lookup>>
      /\ CatalogTyped /\ "get" \in Keys
  BY KeyNames DEF ObjectGone, CatalogInv
<1>1. Answer("missing") \in Results /\ Answer("missing").kind = "missing" /\ Whole(Answer("missing"))
  BY AnswerTyped
<1>2. load["get"] \in Traversals /\ LoadOk("get", load["get"])
  BY <1>0 DEF CatalogInv, LoadsInv, CatalogTyped
<1>3. /\ clock <= load["get"].expires + CancelTime /\ load["get"].expires <= load["get"].deadline + TokenTime
      /\ 1 \in children["tables"] /\ edits = 0 => load["get"].deadline <= movedAt + PrefixTtl + Budget
      /\ load["get"].deadline \in Nat /\ load["get"].expires \in Nat
  BY <1>0, <1>2 DEF LoadOk, Traversals
<1>4. InLife(Answer("missing"), clock + Ttl)
  BY <1>0, <1>3, CatalogConstants DEF InLife, CatalogTyped
<1> QED
  BY <1>0, <1>1, <1>4, SettleKeeps

(* A traversal that fails. *)
LEMMA FailureKeeps ==
  ASSUME CatalogAssumption, CatalogInv, NEW k \in Keys, NEW kind \in {"failed", "limit"},
         Settle(k, Answer(kind)), UNCHANGED <<clock, upstream, lookup>>
  PROVE  CatalogInv'
<1>1. Answer(kind) \in Results /\ Answer(kind).kind = kind /\ Whole(Answer(kind))
  BY AnswerTyped
<1>2. InLife(Answer(kind), clock + Ttl)
  BY <1>1 DEF InLife
<1> QED
  BY <1>1, <1>2, SettleKeeps

-------------------------------------------------------------------------------
(* Readers *)

(* An answer from the memo, whose entry is still alive. *)
LEMMA FromMemoKeeps ==
  ASSUME CatalogAssumption, CatalogInv, NEW r \in Readers, NEW k \in Keys, FromMemo(r, k)
  PROVE  CatalogInv'
<1>0. /\ UNCHANGED <<clock, children, prefix, movedAt, edits, lookup, load, memo, reader>> /\ clock < memo[k].until
      /\ \A a \in given' : a.result = memo[k].result
  BY DEF FromMemo, Usable, upstream
<1>1. /\ memo[k] \in Entries /\ Whole(memo[k].result) /\ InLife(memo[k].result, memo[k].until)
      /\ clock \in Nat /\ movedAt \in Nat
  BY DEF CatalogInv, CatalogTyped, MemoInv
<1>2. InLife(memo[k].result, clock)
  BY <1>0, <1>1, CatalogConstants DEF InLife, Entries
<1>3. GivenInv'
  BY <1>0, <1>1, <1>2 DEF GivenInv, Whole, InLife
<1>4. CatalogTyped' /\ LookupInv' /\ LoadsInv'
  BY <1>0 DEF CatalogInv, CatalogTyped, LookupInv, LoadsInv, LoadOk, ListOk
<1>5. MemoInv' /\ ReaderInv'
  BY <1>0 DEF CatalogInv, MemoInv, ReaderInv, Whole, InLife
<1> QED
  BY <1>3, <1>4, <1>5 DEF CatalogInv

(* A reader that joins a traversal, whose budget began before. *)
LEMMA JoinKeeps ==
  ASSUME CatalogAssumption, CatalogInv, NEW r \in Readers, NEW k \in Keys, Join(r, k)
  PROVE  CatalogInv'
<1>0. /\ UNCHANGED <<clock, children, prefix, movedAt, edits, lookup, load, memo>> /\ load[k] # NoLoad /\ given' = {}
      /\ reader' = [reader EXCEPT ![r] = [key |-> k, began |-> clock]]
  BY DEF Join, upstream
<1>1. CatalogTyped /\ LoadOk(k, load[k])
  BY DEF CatalogInv, LoadsInv
<1>2. load[k].at # "none" /\ load[k].deadline <= clock + Budget
  BY <1>0, <1>1 DEF LoadOk
<1>3. /\ reader' \in [Readers -> [key : Keys \cup {"none"}, began : Nat]] /\ reader'[r].key = k /\ reader'[r].began = clock
      /\ \A s \in Readers \ {r} : reader'[s] = reader[s]
  BY <1>0, <1>1 DEF CatalogTyped
<1>4. ReaderInv'
  BY <1>0, <1>2, <1>3, KeyNames DEF CatalogInv, ReaderInv
<1>5. CatalogTyped' /\ LookupInv' /\ LoadsInv'
  BY <1>0, <1>1, <1>3 DEF CatalogInv, CatalogTyped, LookupInv, LoadsInv, LoadOk, ListOk
<1>6. MemoInv' /\ GivenInv'
  BY <1>0 DEF CatalogInv, MemoInv, GivenInv, Whole, InLife
<1> QED
  BY <1>4, <1>5, <1>6 DEF CatalogInv

(* The traversal that a reader starts, in any of the three states of the      *)
(* prefix's look-up.                                                         *)
LEMMA StartedKeeps ==
  ASSUME CatalogAssumption, CatalogInv, NEW r \in Readers, NEW k \in Keys, NEW l \in Traversals,
         load[k] = NoLoad, load' = [load EXCEPT ![k] = l],
         reader' = [reader EXCEPT ![r] = [key |-> k, began |-> clock]], given' = {},
         memo' = [memo EXCEPT ![k] = NoEntry], UNCHANGED <<clock, upstream>>,
         lookup' \in [st : {"none", "pending", "kept", "failed"}, value : Nat, until : Nat], LookupInv',
         l.at # "none", l.deadline = clock + Budget, LoadOk(k, l)', k = "list" => ListOk(l),
         UNCHANGED lookup \/ lookup.st # "pending"
  PROVE  CatalogInv'
<1>0. CatalogTyped /\ LoadsInv /\ UNCHANGED <<children, prefix, movedAt, edits>>
  BY DEF CatalogInv, upstream
<1>1. load' \in [Keys -> Traversals] /\ load'[k] = l /\ \A j \in Keys \ {k} : load'[j] = load[j]
  BY <1>0 DEF CatalogTyped
<1>2. memo' \in [Keys -> Entries] /\ memo'[k] = NoEntry /\ \A j \in Keys \ {k} : memo'[j] = memo[j]
  BY <1>0, NoEntryTyped DEF CatalogTyped
<1>3. /\ reader' \in [Readers -> [key : Keys \cup {"none"}, began : Nat]] /\ reader'[r].key = k /\ reader'[r].began = clock
      /\ \A s \in Readers \ {r} : reader'[s] = reader[s]
  BY <1>0 DEF CatalogTyped
<1>4. ReaderInv'
  <2>1. ASSUME NEW s \in Readers, s # r, reader[s].key # "none" PROVE reader[s].key # k /\ reader[s].key \in Keys
    BY <1>0, <2>1, AtRest DEF CatalogInv, ReaderInv, CatalogTyped
  <2>2. ASSUME NEW s \in Readers
        PROVE  /\ reader'[s].key = "none" => reader'[s] = NotWaiting
               /\ reader'[s].key # "none" => /\ load'[reader'[s].key].at # "none"
                                             /\ load'[reader'[s].key].deadline <= reader'[s].began + Budget
    <3>1. CASE s = r
      <4>1. k # "none" /\ clock + Budget <= clock + Budget
        BY <1>0, KeyNames, CatalogConstants DEF CatalogTyped
      <4> QED
        BY <1>1, <1>3, <3>1, <4>1
    <3>2. CASE s # r
      BY <1>1, <1>3, <2>1, <3>2 DEF CatalogInv, ReaderInv
    <3> QED
      BY <3>1, <3>2
  <2> QED
    BY <2>2 DEF ReaderInv
<1>5. LoadsInv'
  <2>1. ASSUME NEW j \in Keys, j # k PROVE LoadOk(j, load[j])'
    <3>1. LoadOk(j, load[j]) /\ load'[j] = load[j]
      BY <1>0, <1>1, <2>1 DEF LoadsInv
    <3> QED
      BY <1>0, <3>1 DEF LoadOk
  <2>2. ListOk(load["list"])'
    <3>1. CASE k = "list"
      BY <1>0, <1>1, <3>1 DEF ListOk
    <3>2. CASE k # "list"
      BY <1>0, <1>1, <3>2, KeyNames DEF LoadsInv, ListOk
    <3> QED
      BY <3>1, <3>2
  <2>3. LoadOk(k, load[k])'
    BY <1>1 DEF LoadOk
  <2> QED
    BY <2>1, <2>2, <2>3 DEF LoadsInv
<1>6. MemoInv'
  <2>1. Answer("none").kind = "none" /\ Whole(Answer("none"))
    BY AnswerTyped
  <2>2. ASSUME NEW j \in Keys PROVE Whole(memo'[j].result) /\ InLife(memo'[j].result, memo'[j].until)
    BY <1>2, <2>1, NoEntryTyped DEF CatalogInv, MemoInv, InLife
  <2> QED
    BY <1>0, <2>2 DEF MemoInv, Whole, InLife
<1>7. CatalogTyped' /\ GivenInv'
  BY <1>0, <1>1, <1>2, <1>3 DEF CatalogTyped, GivenInv
<1> QED
  BY <1>4, <1>5, <1>6, <1>7 DEF CatalogInv

(* listUncached or getUncached starts, whatever is known of the prefix. *)
LEMMA StartKeeps ==
  ASSUME CatalogAssumption, CatalogInv, NEW r \in Readers, NEW k \in Keys, Start(r, k)
  PROVE  CatalogInv'
<1>0. PICK fresh : fresh = [NoLoad EXCEPT !.at = "prefix", !.deadline = clock + Budget, !.always = children]
  OBVIOUS
<1>1. /\ load[k] = NoLoad /\ reader' = [reader EXCEPT ![r] = [key |-> k, began |-> clock]] /\ given' = {}
      /\ memo' = [memo EXCEPT ![k] = NoEntry] /\ UNCHANGED <<clock, upstream>>
      /\ \/ /\ lookup.st = "kept" /\ clock < lookup.until
            /\ load' = [load EXCEPT ![k] = Onward(fresh, k, lookup.value)]
            /\ UNCHANGED lookup
         \/ /\ lookup.st = "pending"
            /\ load' = [load EXCEPT ![k] = fresh]
            /\ UNCHANGED lookup
         \/ /\ lookup.st # "pending" /\ clock >= lookup.until
            /\ load' = [load EXCEPT ![k] = fresh]
            /\ lookup' = [st |-> "pending", value |-> 0, until |-> Expiry(fresh.deadline)]
  BY <1>0, Zenon DEF Start
<1>2. CatalogTyped /\ LookupInv /\ UNCHANGED <<children, prefix, movedAt, edits>>
  BY <1>1 DEF CatalogInv, upstream
<1>3. /\ fresh \in Traversals /\ fresh.at = "prefix" /\ fresh.deadline = clock + Budget /\ fresh.always = children
      /\ fresh.token = 0 /\ fresh.got = NoListing /\ fresh.more = FALSE
  BY <1>2, <1>0, FreshIs
<1>4. /\ clock \in Nat /\ movedAt \in Nat /\ prefix \in Nat /\ children \in Listings
      /\ lookup \in [st : {"none", "pending", "kept", "failed"}, value : Nat, until : Nat]
  BY <1>2 DEF CatalogTyped
<1>5. ListOk(fresh)
  BY <1>3, NoListingTyped, KeyNames DEF ListOk
<1>6. CASE /\ lookup.st = "kept" /\ clock < lookup.until
           /\ load' = [load EXCEPT ![k] = Onward(fresh, k, lookup.value)] /\ UNCHANGED lookup
  <2>1. PICK o : o = Onward(fresh, k, lookup.value)
    OBVIOUS
  <2>2. clock <= fresh.deadline /\ lookup.value \in Nat
    BY <1>3, <1>4, CatalogConstants
  <2>3. /\ o \in Traversals /\ o.at = FirstPhase(k) /\ o.prefix = lookup.value /\ clock <= o.expires
        /\ o.expires <= fresh.deadline + TokenTime /\ o.token = 0 /\ o.got = NoListing /\ o.more = FALSE
        /\ o.always = children /\ o.deadline = fresh.deadline
    BY <1>3, <1>4, <2>1, <2>2, OnwardIs
  <2>4. o.at \in Kinds \cup {"object"} /\ (k = "list" => o.at = "namespaces") /\ (k = "get" => o.at = "object")
    BY <2>3, KeyNames DEF FirstPhase
  <2>5. o.deadline <= clock + Budget /\ (lookup.value # prefix => o.deadline <= movedAt + PrefixTtl + Budget)
    BY <1>2, <1>3, <1>4, <1>6, <2>3, CatalogConstants DEF LookupInv
  <2>6. LoadOk(k, o)'
    <3>1. clock <= o.expires + CancelTime
      BY <1>4, <2>3, CatalogConstants DEF Traversals
    <3> QED
      BY <1>1, <1>2, <1>6, <2>3, <2>4, <2>5, <3>1, KeyNames DEF LoadOk
  <2>7. ListOk(o)
    <3>1. \A i \in children["namespaces"] : i \in Nat /\ ~(i <= 0)
      BY <1>4, KeyNames, CatalogConstants DEF Listings
    <3>2. k = "list" => ListOk(o)
      BY <2>3, <2>4, <3>1, NoListingTyped, KeyNames DEF ListOk
    <3>3. k = "get" => ListOk(o)
      BY <2>3, <2>4, NoListingTyped, KeyNames DEF ListOk
    <3> QED
      BY <3>2, <3>3, KeyNames
  <2>8. LookupInv'
    BY <1>1, <1>2, <1>6 DEF LookupInv
  <2>9. load' = [load EXCEPT ![k] = o]
    BY <1>6, <2>1
  <2> QED
    BY <1>1, <1>3, <1>4, <1>6, <2>3, <2>4, <2>6, <2>7, <2>8, <2>9, StartedKeeps, KeyNames
<1>7. CASE lookup.st = "pending" /\ load' = [load EXCEPT ![k] = fresh] /\ UNCHANGED lookup
  <2>1. LookupInv'
    BY <1>1, <1>2, <1>7 DEF LookupInv
  <2>2. fresh.deadline <= clock + Budget
    BY <1>3, <1>4, CatalogConstants
  <2>3. lookup.until <= fresh.deadline + TokenTime
    BY <1>2, <1>3, <1>4, <1>7, CatalogConstants DEF LookupInv
  <2>4. LoadOk(k, fresh)'
    BY <1>1, <1>2, <1>3, <1>7, <2>2, <2>3, KeyNames DEF LoadOk
  <2> QED
    BY <1>1, <1>3, <1>4, <1>5, <1>7, <2>1, <2>4, StartedKeeps
<1>8. CASE /\ lookup.st # "pending" /\ load' = [load EXCEPT ![k] = fresh]
           /\ lookup' = [st |-> "pending", value |-> 0, until |-> Expiry(fresh.deadline)]
  <2>1. PICK x \in Nat : x = Expiry(fresh.deadline) /\ clock <= x /\ x <= fresh.deadline + TokenTime
    <3>1. clock <= fresh.deadline /\ fresh.deadline \in Nat
      BY <1>3, <1>4, CatalogConstants
    <3> QED
      BY <1>4, <3>1, ExpiryInTime
  <2>2. lookup' = [st |-> "pending", value |-> 0, until |-> x]
    BY <1>8, <2>1
  <2>3. /\ lookup' \in [st : {"none", "pending", "kept", "failed"}, value : Nat, until : Nat]
        /\ lookup'.st = "pending" /\ lookup'.until = x
    BY <2>2
  <2>4. LookupInv'
    <3>1. clock <= x + CancelTime /\ x <= clock + TokenTime + Budget
      BY <1>3, <1>4, <2>1, CatalogConstants
    <3> QED
      BY <1>1, <1>2, <2>3, <3>1 DEF LookupInv
  <2>5. fresh.deadline <= clock + Budget
    BY <1>3, <1>4, CatalogConstants
  <2>6. LoadOk(k, fresh)'
    BY <1>1, <1>2, <1>3, <2>1, <2>3, <2>5, KeyNames DEF LoadOk
  <2> QED
    BY <1>1, <1>3, <1>5, <1>8, <2>3, <2>4, <2>6, StartedKeeps
<1> QED
  BY <1>1, <1>6, <1>7, <1>8

(* An operation that fails with a look-up of a moment ago. *)
LEMMA StartFailsKeeps ==
  ASSUME CatalogAssumption, CatalogInv, NEW r \in Readers, NEW k \in Keys, StartFails(r, k)
  PROVE  CatalogInv'
<1>0. /\ UNCHANGED <<clock, children, prefix, movedAt, edits, lookup, load, reader>>
      /\ memo' = [memo EXCEPT ![k] = Kept(Answer("failed"))] /\ \A a \in given' : a.result = Answer("failed")
  BY DEF StartFails, upstream
<1>1. Answer("failed") \in Results /\ Answer("failed").kind = "failed" /\ Whole(Answer("failed"))
  BY AnswerTyped
<1>2. InLife(Answer("failed"), clock + Ttl) /\ InLife(Answer("failed"), clock)
  BY <1>1 DEF InLife
<1>3. PICK e : e = Kept(Answer("failed"))
  OBVIOUS
<1>4. e \in Entries /\ Whole(e.result) /\ InLife(e.result, e.until)
  BY <1>1, <1>2, <1>3, KeptIs DEF CatalogInv
<1>5. memo' \in [Keys -> Entries] /\ memo'[k] = e /\ \A j \in Keys \ {k} : memo'[j] = memo[j]
  BY <1>0, <1>3, <1>4 DEF CatalogInv, CatalogTyped
<1>6. MemoInv'
  <2>1. ASSUME NEW j \in Keys PROVE Whole(memo'[j].result) /\ InLife(memo'[j].result, memo'[j].until)
    BY <1>4, <1>5 DEF CatalogInv, MemoInv
  <2> QED
    BY <1>0, <2>1 DEF MemoInv, Whole, InLife
<1>7. GivenInv'
  BY <1>0, <1>1, <1>2 DEF GivenInv, Whole, InLife
<1>8. CatalogTyped' /\ LookupInv' /\ LoadsInv' /\ ReaderInv'
  BY <1>0, <1>5 DEF CatalogInv, CatalogTyped, LookupInv, LoadsInv, LoadOk, ListOk, ReaderInv
<1> QED
  BY <1>6, <1>7, <1>8 DEF CatalogInv

-------------------------------------------------------------------------------
(* The prefix *)

(* Whoever waited for the prefix goes on with it, or is over its budget. *)
LEMMA PrefixArrivesKeeps ==
  ASSUME CatalogAssumption, CatalogInv, PrefixArrives
  PROVE  CatalogInv'
<1>0. PICK late : late = {k \in AtPrefix : clock >= load[k].deadline}
  OBVIOUS
<1>1. /\ lookup.st = "pending" /\ lookup' = [st |-> "kept", value |-> prefix, until |-> clock + PrefixTtl]
      /\ load' = [k \in Keys |-> IF k \in late THEN NoLoad
                                 ELSE IF k \in AtPrefix THEN Onward(load[k], k, prefix)
                                 ELSE load[k]]
      /\ SettleKeys(late, Answer("limit")) /\ UNCHANGED <<clock, upstream>>
  BY <1>0, Zenon DEF PrefixArrives
<1>2. CatalogTyped /\ LookupInv /\ LoadsInv /\ UNCHANGED <<children, prefix, movedAt, edits>>
  BY <1>1 DEF CatalogInv, upstream
<1>3. clock \in Nat /\ movedAt \in Nat /\ prefix \in Nat /\ children \in Listings /\ late \in SUBSET Keys
  BY <1>2, <1>0 DEF CatalogTyped, AtPrefix
<1>4. /\ lookup' \in [st : {"none", "pending", "kept", "failed"}, value : Nat, until : Nat] /\ LookupInv'
  <2>1. PICK x \in Nat : x = clock + PrefixTtl
    BY <1>3, CatalogConstants
  <2>2. lookup' = [st |-> "kept", value |-> prefix, until |-> x]
    BY <1>1, <2>1
  <2> QED
    BY <1>1, <1>2, <1>3, <2>1, <2>2 DEF LookupInv
<1>5. ASSUME NEW k \in Keys
      PROVE  /\ load'[k] \in Traversals /\ LoadOk(k, load[k])' /\ (k = "list" => ListOk(load'[k]))
             /\ k \notin late /\ load[k].at # "none" => load'[k].at # "none" /\ load'[k].deadline = load[k].deadline
  <2>0. load[k] \in Traversals /\ LoadOk(k, load[k]) /\ (k = "list" => ListOk(load[k])) /\ load[k].deadline \in Nat
    BY <1>2 DEF CatalogTyped, LoadsInv, Traversals
  <2>1. CASE k \in late
    <3>1. load'[k] = NoLoad
      BY <1>1, <2>1
    <3> QED
      BY <2>1, <3>1, AtRest, NoListingTyped, KeyNames DEF LoadOk, ListOk
  <2>2. CASE k \in AtPrefix /\ k \notin late
    <3>1. load[k].at = "prefix" /\ clock <= load[k].deadline
      BY <1>3, <1>0, <2>0, <2>2 DEF AtPrefix
    <3>2. PICK o : o = Onward(load[k], k, prefix)
      OBVIOUS
    <3>3. /\ o \in Traversals /\ o.at = FirstPhase(k) /\ o.prefix = prefix /\ clock <= o.expires
          /\ o.expires <= load[k].deadline + TokenTime /\ o.token = load[k].token /\ o.got = load[k].got
          /\ o.more = load[k].more /\ o.always = load[k].always /\ o.deadline = load[k].deadline
      BY <1>3, <2>0, <3>1, <3>2, OnwardIs
    <3>4. load'[k] = o
      BY <1>1, <2>2, <3>2
    <3>5. o.at \in Kinds \cup {"object"} /\ (k = "list" => o.at = "namespaces") /\ (k = "get" => o.at = "object")
      BY <3>3, KeyNames DEF FirstPhase
    <3>6. LoadOk(k, o)'
      <4>1. clock <= o.expires + CancelTime
        BY <1>3, <3>3, CatalogConstants DEF Traversals
      <4> QED
        BY <1>1, <1>2, <2>0, <3>1, <3>3, <3>5, <4>1, KeyNames DEF LoadOk
    <3>7. k = "list" => ListOk(o)
      <4>1. \A q \in Kinds : \A i \in children[q] : i \in Nat /\ ~(i <= 0)
        BY <1>3, KeyNames, CatalogConstants DEF Listings
      <4> QED
        BY <2>0, <3>1, <3>3, <3>5, <4>1, KeyNames DEF ListOk
    <3> QED
      BY <3>1, <3>3, <3>4, <3>5, <3>6, <3>7, KeyNames DEF LoadOk
  <2>3. CASE k \notin AtPrefix
    <3>1. load'[k] = load[k] /\ load[k].at # "prefix"
      BY <1>1, <1>0, <2>3 DEF AtPrefix
    <3>2. LoadOk(k, load[k])'
      BY <1>1, <1>2, <2>0, <3>1 DEF LoadOk
    <3> QED
      BY <2>0, <3>1, <3>2
  <2> QED
    BY <2>1, <2>2, <2>3
<1>6. load' \in [Keys -> Traversals] /\ LoadsInv'
  <2>1. load' \in [Keys -> Traversals]
    BY <1>1, <1>5
  <2>2. \A k \in Keys : LoadOk(k, load[k])'
    BY <1>5
  <2>3. ListOk(load["list"])'
    BY <1>2, <1>5, KeyNames DEF ListOk
  <2> QED
    BY <2>1, <2>2, <2>3 DEF LoadsInv
<1>7. /\ memo' \in [Keys -> Entries] /\ reader' \in [Readers -> [key : Keys \cup {"none"}, began : Nat]]
      /\ MemoInv' /\ ReaderInv' /\ GivenInv'
  <2>1. Answer("limit") \in Results /\ Answer("limit").kind = "limit" /\ Whole(Answer("limit"))
    BY AnswerTyped
  <2>2. InLife(Answer("limit"), clock + Ttl)
    BY <2>1 DEF InLife
  <2> QED
    BY <1>1, <1>3, <1>5, <2>1, <2>2, SettleKeysKeeps
<1> QED
  BY <1>1, <1>2, <1>4, <1>6, <1>7 DEF CatalogInv, CatalogTyped

(* Whoever waited for the prefix fails with it. *)
LEMMA PrefixFailsKeeps ==
  ASSUME CatalogAssumption, CatalogInv, PrefixFails
  PROVE  CatalogInv'
<1>0. PICK kind \in {"failed", "limit"} :
        /\ SettleKeys(AtPrefix, Answer(kind))
        /\ lookup' = IF kind = "limit" THEN NoLookup
                     ELSE [st |-> "failed", value |-> 0, until |-> clock + NegativeTtl]
  BY DEF PrefixFails
<1>1. /\ load' = [k \in Keys |-> IF k \in AtPrefix THEN NoLoad ELSE load[k]] /\ UNCHANGED <<clock, upstream>>
      /\ CatalogTyped /\ LookupInv /\ LoadsInv
  BY DEF PrefixFails, CatalogInv
<1>2. UNCHANGED <<children, prefix, movedAt, edits>>
  BY <1>1 DEF upstream
<1>3. /\ lookup' \in [st : {"none", "pending", "kept", "failed"}, value : Nat, until : Nat] /\ LookupInv'
  <2>1. PICK x \in Nat : x = clock + NegativeTtl
    BY <1>1, CatalogConstants DEF CatalogTyped
  <2>2. lookup' = NoLookup \/ lookup' = [st |-> "failed", value |-> 0, until |-> x]
    BY <1>0, <2>1
  <2>3. lookup' \in [st : {"none", "pending", "kept", "failed"}, value : Nat, until : Nat]
        /\ lookup'.st \in {"none", "failed"}
    BY <2>2 DEF NoLookup
  <2> QED
    BY <1>1, <1>2, <2>3 DEF LookupInv
<1>4. ASSUME NEW k \in Keys
      PROVE  /\ load'[k] \in Traversals /\ LoadOk(k, load[k])' /\ (k = "list" => ListOk(load'[k]))
             /\ k \notin AtPrefix => load'[k] = load[k]
  <2>0. load[k] \in Traversals /\ LoadOk(k, load[k]) /\ (k = "list" => ListOk(load[k]))
    BY <1>1 DEF CatalogTyped, LoadsInv
  <2>1. CASE k \in AtPrefix
    <3>1. load'[k] = NoLoad
      BY <1>1, <2>1
    <3> QED
      BY <2>1, <3>1, AtRest, NoListingTyped, KeyNames DEF LoadOk, ListOk
  <2>2. CASE k \notin AtPrefix
    <3>1. load'[k] = load[k] /\ load[k].at # "prefix"
      BY <1>1, <2>2 DEF AtPrefix
    <3> QED
      BY <1>1, <1>2, <2>0, <3>1 DEF LoadOk
  <2> QED
    BY <2>1, <2>2
<1>5. load' \in [Keys -> Traversals] /\ LoadsInv'
  <2>1. load' \in [Keys -> Traversals]
    BY <1>1, <1>4
  <2>2. ListOk(load["list"])'
    BY <1>2, <1>4, KeyNames DEF ListOk
  <2> QED
    BY <1>4, <2>1, <2>2 DEF LoadsInv
<1>6. /\ memo' \in [Keys -> Entries] /\ reader' \in [Readers -> [key : Keys \cup {"none"}, began : Nat]]
      /\ MemoInv' /\ ReaderInv' /\ GivenInv'
  <2>1. Answer(kind) \in Results /\ Answer(kind).kind = kind /\ Whole(Answer(kind))
    BY AnswerTyped
  <2>2. InLife(Answer(kind), clock + Ttl)
    BY <2>1 DEF InLife
  <2>3. AtPrefix \in SUBSET Keys
    BY DEF AtPrefix
  <2> QED
    BY <1>0, <1>1, <1>4, <2>1, <2>2, <2>3, SettleKeysKeeps
<1> QED
  BY <1>1, <1>2, <1>3, <1>5, <1>6 DEF CatalogInv, CatalogTyped

-------------------------------------------------------------------------------
(* The pages of a listing *)

(* The listing goes on with another page. *)
LEMMA ListingContinues ==
  ASSUME CatalogAssumption, CatalogInv, load["list"].at \in Kinds, NEW o \in Traversals, o.at \in Kinds,
         o.deadline = load["list"].deadline, clock <= o.expires, o.expires <= o.deadline + TokenTime, ListOk(o),
         load' = [load EXCEPT !["list"] = o], given' = {}, UNCHANGED <<clock, upstream, lookup, memo, reader>>
  PROVE  CatalogInv'
<1>0. CatalogTyped /\ LookupInv /\ LoadsInv /\ ReaderInv /\ UNCHANGED <<children, prefix, movedAt, edits>> /\ "list" \in Keys
  BY KeyNames DEF CatalogInv, upstream
<1>1. load' \in [Keys -> Traversals] /\ load'["list"] = o /\ load'["get"] = load["get"]
  BY <1>0, KeyNames DEF CatalogTyped
<1>2. LoadsInv'
  <2>1. LoadOk("list", load["list"]) /\ LoadOk("get", load["get"])
    BY <1>0, KeyNames DEF LoadsInv
  <2>2. LoadOk("list", o) /\ ListOk(o)
    <3>1. clock <= o.expires + CancelTime
      BY <1>0, CatalogConstants DEF CatalogTyped, Traversals
    <3> QED
      BY <2>1, <3>1, KeyNames DEF LoadOk
  <2>3. LoadOk("list", load["list"])' /\ LoadOk("get", load["get"])'
    BY <1>0, <1>1, <2>1, <2>2 DEF LoadOk
  <2>4. ListOk(load["list"])'
    BY <1>0, <1>1, <2>2 DEF ListOk
  <2> QED
    BY <2>3, <2>4, KeyNames DEF LoadsInv
<1>3. ReaderInv'
  <2>1. ASSUME NEW k \in Keys, load[k].at # "none" PROVE load'[k].at # "none" /\ load'[k].deadline = load[k].deadline
    BY <1>1, <2>1, KeyNames
  <2>2. ASSUME NEW r \in Readers PROVE reader[r].key \in Keys \cup {"none"}
    BY <1>0 DEF CatalogTyped
  <2> QED
    BY <1>0, <2>1, <2>2 DEF ReaderInv
<1>4. CatalogTyped' /\ LookupInv' /\ MemoInv' /\ GivenInv'
  BY <1>0, <1>1 DEF CatalogInv, CatalogTyped, LookupInv, MemoInv, GivenInv, Whole, InLife
<1> QED
  BY <1>2, <1>3, <1>4 DEF CatalogInv

(* A page skips nothing that was there all the time: what lies before its     *)
(* last name was in an earlier page or is in this one.                       *)
LEMMA PageArrivesKeeps ==
  ASSUME CatalogAssumption, CatalogInv, PageArrives
  PROVE  CatalogInv'
<1>1. PICK l : l = load["list"]
  OBVIOUS
<1>2. PICK page : page = Page(l.at, l.token)
  OBVIOUS
<1>3. PICK next \in BOOLEAN : next = (Rest(l.at, l.token) # page)
  OBVIOUS
<1>4. PICK t \in BOOLEAN : t = Truncates(next, l.pages)
  BY DEF Truncates
<1>5. PICK seen : seen = [l EXCEPT !.got[l.at] = @ \cup Exposed(page), !.more = @ \/ t]
  OBVIOUS
<1>6. /\ l.at \in Kinds /\ UNCHANGED <<clock, upstream, lookup>>
      /\ \/ /\ next /\ l.pages + 1 < MaxPages /\ clock < l.deadline
            /\ \E last \in page : /\ \A i \in page : i <= last
                                  /\ load' = [load EXCEPT !["list"] =
                                       [seen EXCEPT !.token = last, !.pages = @ + 1,
                                                    !.expires = Expiry(l.deadline)]]
            /\ given' = {} /\ UNCHANGED <<memo, reader>>
         \/ /\ ~(next /\ l.pages + 1 < MaxPages) /\ l.at = "namespaces" /\ clock < l.deadline
            /\ load' = [load EXCEPT !["list"] =
                 [seen EXCEPT !.at = "tables", !.token = 0, !.pages = 0, !.expires = Expiry(l.deadline)]]
            /\ given' = {} /\ UNCHANGED <<memo, reader>>
         \/ /\ ~(next /\ l.pages + 1 < MaxPages) /\ l.at = "tables"
            /\ Settle("list", Listing(seen.got, seen.more, seen.always))
         \/ Settle("list", Answer("limit"))
  BY <1>1, <1>2, <1>3, <1>4, <1>5, Zenon DEF PageArrives
<1>7. CatalogTyped /\ LoadsInv /\ children \in Listings /\ clock \in Nat /\ "list" \in Keys
  BY KeyNames DEF CatalogInv, CatalogTyped
<1>8. /\ l \in Traversals /\ l.token \in Nat /\ l.pages \in Nat /\ l.deadline \in Nat /\ l.always \in Listings
      /\ l.got \in Listings /\ l.more \in BOOLEAN /\ LoadOk("list", l) /\ ListOk(l)
  BY <1>1, <1>7 DEF CatalogTyped, LoadsInv, Traversals
<1>9. /\ page \subseteq 1..N /\ page \subseteq Rest(l.at, l.token)
      /\ \A last \in page, i \in Rest(l.at, l.token) : i <= last => i \in page
  BY <1>2, <1>6, <1>7, <1>8, PageIsInitial
<1>10. /\ seen \in Traversals /\ seen.at = l.at /\ seen.pages = l.pages /\ seen.always = l.always
       /\ seen.deadline = l.deadline /\ seen.more = (l.more \/ t)
       /\ seen.got[l.at] = l.got[l.at] \cup (page \ Unsafe) /\ \A q \in Kinds \ {l.at} : seen.got[q] = l.got[q]
  <2>1. page \in SUBSET (1..N)
    BY <1>9
  <2>2. l \in Traversals /\ l.at \in Kinds
    BY <1>6, <1>8
  <2>3. PICK g : g = [l.got EXCEPT ![l.at] = @ \cup Exposed(page)]
    OBVIOUS
  <2>4. PICK b \in BOOLEAN : b = (l.more \/ t)
    OBVIOUS
  <2>5. seen = [l EXCEPT !.got = g, !.more = b]
    BY <1>5, <2>3, <2>4, Zenon
  <2>6. /\ g \in Listings /\ g[l.at] = l.got[l.at] \cup (page \ Unsafe) /\ \A q \in Kinds \ {l.at} : g[q] = l.got[q]
    BY <1>8, <2>1, <2>2, <2>3 DEF Listings, Exposed
  <2>7. /\ seen \in Traversals /\ seen.at = l.at /\ seen.pages = l.pages /\ seen.always = l.always
        /\ seen.deadline = l.deadline /\ seen.more = b /\ seen.got = g
    BY <2>2, <2>5, <2>6 DEF Traversals
  <2> QED
    BY <2>4, <2>6, <2>7, Zenon
<1>11. ASSUME NEW i \in l.always[l.at], i \notin Unsafe, ~l.more, i \in page \/ i \notin Rest(l.at, l.token)
       PROVE  i \in seen.got[l.at]
  <2>1. i \in children[l.at] /\ i \in Nat /\ (i <= l.token => i \in l.got[l.at])
    <3>1. l.always[l.at] \subseteq children[l.at] /\ i \in l.always[l.at] \ Unsafe
      BY <1>6, <1>8, <1>11 DEF ListOk
    <3>2. i <= l.token => i \in l.got[l.at]
      BY <1>6, <1>8, <1>11, <3>1 DEF ListOk
    <3>3. children[l.at] \subseteq 1..N
      BY <1>6, <1>7 DEF Listings
    <3> QED
      BY <3>1, <3>2, <3>3, CatalogConstants
  <2>2. CASE i \in page
    BY <1>10, <1>11, <2>2
  <2>3. CASE i \notin Rest(l.at, l.token)
    <3>1. i <= l.token
      BY <1>8, <2>1, <2>3 DEF Rest
    <3> QED
      BY <1>10, <2>1, <3>1
  <2> QED
    BY <1>11, <2>2, <2>3
<1>12. \A q \in Kinds : seen.always[q] \subseteq children[q] /\ seen.got[q] \cap Unsafe = {}
  <2>1. ASSUME NEW q \in Kinds PROVE seen.always[q] \subseteq children[q] /\ seen.got[q] \cap Unsafe = {}
    <3>1. l.always[q] \subseteq children[q] /\ l.got[q] \cap Unsafe = {}
      BY <1>8 DEF ListOk
    <3>2. seen.got[q] = l.got[q] \/ seen.got[q] = l.got[q] \cup (page \ Unsafe)
      BY <1>10
    <3> QED
      BY <1>10, <3>1, <3>2
  <2> QED
    BY <2>1
<1>13. ASSUME ~(next /\ l.pages + 1 < MaxPages), ~seen.more
       PROVE  ~l.more /\ (l.always[l.at] \ Unsafe) \subseteq seen.got[l.at]
  <2>1. ~next /\ ~l.more
    BY <1>4, <1>8, <1>10, <1>13, CatalogConstants DEF Truncates
  <2>2. Rest(l.at, l.token) = page
    BY <1>3, <2>1
  <2> QED
    BY <1>11, <2>1, <2>2
<1>14. clock < l.deadline => \E x \in Nat : x = Expiry(l.deadline) /\ clock <= x /\ x <= l.deadline + TokenTime
  BY <1>7, <1>8, ExpiryInTime
<1>15. CASE /\ next /\ l.pages + 1 < MaxPages /\ clock < l.deadline
            /\ \E last \in page : /\ \A i \in page : i <= last
                                  /\ load' = [load EXCEPT !["list"] =
                                       [seen EXCEPT !.token = last, !.pages = @ + 1,
                                                    !.expires = Expiry(l.deadline)]]
            /\ given' = {} /\ UNCHANGED <<memo, reader>>
  <2>1. PICK last \in page : load' = [load EXCEPT !["list"] = [seen EXCEPT !.token = last, !.pages = @ + 1,
                                                                           !.expires = Expiry(l.deadline)]]
    BY <1>15
  <2>2. PICK x \in Nat : x = Expiry(l.deadline) /\ clock <= x /\ x <= l.deadline + TokenTime
    BY <1>14, <1>15
  <2>3. PICK n \in Nat : n = seen.pages + 1
    BY <1>8, <1>10
  <2>4. PICK o : o = [seen EXCEPT !.token = last, !.pages = n, !.expires = x]
    OBVIOUS
  <2>5. load' = [load EXCEPT !["list"] = o]
    BY <2>1, <2>2, <2>3, <2>4
  <2>6. last \in Nat
    BY <1>9, CatalogConstants
  <2>7. /\ o \in Traversals /\ o.at = l.at /\ o.token = last /\ o.expires = x /\ o.got = seen.got /\ o.more = seen.more
        /\ o.always = l.always /\ o.deadline = l.deadline
    BY <1>10, <2>4, <2>6 DEF Traversals
  <2>8. ListOk(o)
    <3>1. ASSUME ~o.more, NEW i \in o.always[o.at] \ Unsafe, i <= o.token PROVE i \in o.got[o.at]
      <4>1. ~l.more /\ i \in l.always[l.at] /\ i \notin Unsafe /\ i <= last
        BY <1>10, <2>7, <3>1
      <4>2. i \in page \/ i \notin Rest(l.at, l.token)
        BY <1>9, <4>1
      <4> QED
        BY <1>11, <2>7, <4>1, <4>2
    <3>2. o.at = "tables" /\ ~o.more => (o.always["namespaces"] \ Unsafe) \subseteq o.got["namespaces"]
      <4>1. l.at = "tables" => seen.got["namespaces"] = l.got["namespaces"]
        BY <1>10, KeyNames
      <4> QED
        BY <1>8, <1>10, <2>7, <4>1 DEF ListOk
    <3>3. \A q \in Kinds : o.always[q] \subseteq children[q] /\ o.got[q] \cap Unsafe = {}
      BY <1>10, <1>12, <2>7
    <3>4. o.at # "prefix"
      BY <1>6, <2>7, KeyNames
    <3> QED
      BY <3>1, <3>2, <3>3, <3>4 DEF ListOk
  <2> QED
    BY <1>1, <1>6, <1>15, <2>2, <2>5, <2>7, <2>8, ListingContinues
<1>16. CASE /\ ~(next /\ l.pages + 1 < MaxPages) /\ l.at = "namespaces" /\ clock < l.deadline
            /\ load' = [load EXCEPT !["list"] =
                 [seen EXCEPT !.at = "tables", !.token = 0, !.pages = 0, !.expires = Expiry(l.deadline)]]
            /\ given' = {} /\ UNCHANGED <<memo, reader>>
  <2>1. PICK x \in Nat : x = Expiry(l.deadline) /\ clock <= x /\ x <= l.deadline + TokenTime
    BY <1>14, <1>16
  <2>2. PICK o : o = [seen EXCEPT !.at = "tables", !.token = 0, !.pages = 0, !.expires = x]
    OBVIOUS
  <2>3. load' = [load EXCEPT !["list"] = o]
    BY <1>16, <2>1, <2>2
  <2>4. /\ o \in Traversals /\ o.at = "tables" /\ o.token = 0 /\ o.expires = x /\ o.got = seen.got /\ o.more = seen.more
        /\ o.always = l.always /\ o.deadline = l.deadline
    BY <1>10, <2>2 DEF Traversals
  <2>5. ListOk(o)
    <3>1. \A i \in o.always["tables"] : i \in Nat /\ ~(i <= 0)
      BY <1>8, <2>4, KeyNames, CatalogConstants DEF Listings
    <3>2. ~o.more => (o.always["namespaces"] \ Unsafe) \subseteq o.got["namespaces"]
      BY <1>13, <1>16, <2>4
    <3>3. \A q \in Kinds : o.always[q] \subseteq children[q] /\ o.got[q] \cap Unsafe = {}
      BY <1>10, <1>12, <2>4
    <3> QED
      BY <2>4, <3>1, <3>2, <3>3 DEF ListOk
  <2> QED
    BY <1>1, <1>6, <1>16, <2>1, <2>3, <2>4, <2>5, ListingContinues, KeyNames
<1>17. CASE /\ ~(next /\ l.pages + 1 < MaxPages) /\ l.at = "tables"
            /\ Settle("list", Listing(seen.got, seen.more, seen.always))
  <2>1. PICK res : res = Listing(seen.got, seen.more, seen.always)
    OBVIOUS
  <2>2. /\ res \in Results /\ res.kind = "listing" /\ res.got = seen.got /\ res.more = seen.more
        /\ res.always = l.always
    BY <1>10, <2>1 DEF Listing, Results, Traversals
  <2>3. Whole(res)
    <3>1. ASSUME ~seen.more, NEW q \in Kinds PROVE (l.always[q] \ Unsafe) \subseteq seen.got[q]
      <4>1. CASE q = "tables"
        BY <1>13, <1>17, <3>1, <4>1
      <4>2. CASE q = "namespaces"
        <5>1. seen.got["namespaces"] = l.got["namespaces"]
          BY <1>10, <1>17, KeyNames
        <5> QED
          BY <1>8, <1>13, <1>17, <3>1, <4>2, <5>1 DEF ListOk
      <4> QED
        BY <4>1, <4>2, KeyNames
    <3> QED
      BY <1>12, <2>2, <3>1 DEF Whole
  <2>4. InLife(res, clock + Ttl)
    BY <2>2 DEF InLife
  <2> QED
    BY <1>6, <1>7, <1>17, <2>1, <2>2, <2>3, <2>4, SettleKeeps
<1>18. CASE Settle("list", Answer("limit"))
  BY <1>6, <1>7, <1>18, FailureKeeps
<1> QED
  BY <1>6, <1>15, <1>16, <1>17, <1>18

-------------------------------------------------------------------------------
(* The upstream and the clock *)

(* A child comes or goes: what was there all the time shrinks, and still is there. *)
LEMMA EditKeeps ==
  ASSUME CatalogAssumption, CatalogInv, Edit
  PROVE  CatalogInv'
<1>0. PICK k \in Kinds, i \in 1..N :
        /\ children' = [children EXCEPT ![k] = IF i \in @ THEN @ \ {i} ELSE @ \cup {i}]
        /\ load' = [key \in Keys |-> [load[key] EXCEPT !.always[k] = @ \ {i}]]
  BY DEF Edit
<1>1. /\ UNCHANGED <<clock, prefix, movedAt, lookup, memo, reader>> /\ given' = {} /\ edits' = edits + 1
      /\ CatalogTyped /\ LookupInv /\ LoadsInv /\ MemoInv /\ ReaderInv
  BY DEF Edit, CatalogInv
<1>2. /\ children' \in Listings /\ \A q \in Kinds \ {k} : children'[q] = children[q]
      /\ children[k] \ {i} \subseteq children'[k]
  BY <1>0, <1>1 DEF CatalogTyped, Listings
<1>3. edits' \in Nat /\ edits' # 0
  BY <1>1 DEF CatalogTyped
<1>4. ASSUME NEW j \in Keys
      PROVE  /\ load'[j] \in Traversals
             /\ load'[j].at = load[j].at /\ load'[j].prefix = load[j].prefix /\ load'[j].token = load[j].token
             /\ load'[j].got = load[j].got /\ load'[j].more = load[j].more
             /\ load'[j].deadline = load[j].deadline /\ load'[j].expires = load[j].expires
             /\ load'[j].always[k] = load[j].always[k] \ {i}
             /\ \A q \in Kinds \ {k} : load'[j].always[q] = load[j].always[q]
             /\ load[j] = NoLoad => load'[j] = NoLoad
  <2>1. load[j] \in Traversals /\ load[j].always \in Listings
    BY <1>1 DEF CatalogTyped, Traversals
  <2>2. PICK w : w = [load[j].always EXCEPT ![k] = @ \ {i}]
    OBVIOUS
  <2>3. w \in Listings /\ w[k] = load[j].always[k] \ {i} /\ \A q \in Kinds \ {k} : w[q] = load[j].always[q]
    BY <2>1, <2>2 DEF Listings
  <2>4. load'[j] = [load[j] EXCEPT !.always = w]
    BY <1>0, <2>2
  <2>5. /\ load'[j] \in Traversals
        /\ load'[j].at = load[j].at /\ load'[j].prefix = load[j].prefix /\ load'[j].token = load[j].token
        /\ load'[j].got = load[j].got /\ load'[j].more = load[j].more /\ load'[j].pages = load[j].pages
        /\ load'[j].deadline = load[j].deadline /\ load'[j].expires = load[j].expires /\ load'[j].always = w
    BY <2>1, <2>3, <2>4 DEF Traversals
  <2>6. load[j] = NoLoad => load'[j] = NoLoad
    <3>1. SUFFICES ASSUME load[j] = NoLoad PROVE load'[j] = load[j]
      OBVIOUS
    <3>2. \A q \in Kinds : w[q] = NoListing[q]
      BY <2>3, <3>1, AtRest, NoListingTyped
    <3>3. w = NoListing
      BY <2>3, <3>2, NoListingTyped DEF Listings
    <3>4. w = load[j].always
      BY <3>1, <3>3, AtRest
    <3> QED
      BY <2>1, <2>5, <3>4 DEF Traversals
  <2> QED
    BY <2>3, <2>5, <2>6
<1>5. load' \in [Keys -> Traversals]
  <2>1. load' = [key \in Keys |-> load'[key]]
    BY <1>0
  <2> QED
    BY <1>4, <2>1
<1>6. LoadsInv'
  <2>1. ASSUME NEW j \in Keys PROVE LoadOk(j, load[j])'
    BY <1>1, <1>3, <1>4 DEF LoadsInv, LoadOk
  <2>2. ListOk(load["list"])'
    <3>1. PICK l : l = load["list"]
      OBVIOUS
    <3>2. PICK m : m = load'["list"]
      OBVIOUS
    <3>3. ListOk(l)
      BY <1>1, <3>1 DEF LoadsInv
    <3>4. /\ m.at = l.at /\ m.token = l.token /\ m.got = l.got /\ m.more = l.more
          /\ m.always[k] = l.always[k] \ {i} /\ \A q \in Kinds \ {k} : m.always[q] = l.always[q]
      BY <1>4, <3>1, <3>2, KeyNames
    <3>5. ASSUME NEW q \in Kinds PROVE m.always[q] \subseteq l.always[q] /\ m.always[q] \subseteq children'[q]
      <4>1. l.always[q] \subseteq children[q]
        BY <3>3 DEF ListOk
      <4>2. CASE q = k
        BY <1>2, <3>4, <4>1, <4>2
      <4>3. CASE q # k
        BY <1>2, <3>4, <4>1, <4>3
      <4> QED
        BY <4>2, <4>3
    <3>6. \A q \in Kinds : m.always[q] \subseteq children'[q] /\ m.got[q] \cap Unsafe = {}
      BY <3>3, <3>4, <3>5 DEF ListOk
    <3>7. m.at = "prefix" => m.token = 0
      BY <3>3, <3>4 DEF ListOk
    <3>8. m.at \in Kinds /\ ~m.more => \A c \in m.always[m.at] \ Unsafe : c <= m.token => c \in m.got[m.at]
      BY <3>3, <3>4, <3>5 DEF ListOk
    <3>9. m.at = "tables" /\ ~m.more => (m.always["namespaces"] \ Unsafe) \subseteq m.got["namespaces"]
      BY <3>3, <3>4, <3>5, KeyNames DEF ListOk
    <3> QED
      BY <3>2, <3>6, <3>7, <3>8, <3>9 DEF ListOk
  <2> QED
    BY <2>1, <2>2 DEF LoadsInv
<1>7. ReaderInv'
  <2>1. ASSUME NEW r \in Readers PROVE reader[r].key \in Keys \cup {"none"}
    BY <1>1 DEF CatalogTyped
  <2> QED
    BY <1>1, <1>4, <2>1 DEF ReaderInv
<1>8. MemoInv' /\ GivenInv'
  BY <1>1, <1>3 DEF MemoInv, GivenInv, Whole, InLife
<1>9. CatalogTyped' /\ LookupInv'
  BY <1>1, <1>2, <1>3, <1>5 DEF CatalogTyped, LookupInv
<1> QED
  BY <1>6, <1>7, <1>8, <1>9 DEF CatalogInv

(* The warehouse moves: whatever prefix is kept or used now is stale from now on. *)
LEMMA MoveKeeps ==
  ASSUME CatalogAssumption, CatalogInv, Move
  PROVE  CatalogInv'
<1>0. /\ UNCHANGED <<clock, children, edits, lookup, load, memo, reader>> /\ given' = {}
      /\ prefix' = prefix + 1 /\ movedAt' = clock
      /\ CatalogTyped /\ LookupInv /\ LoadsInv /\ MemoInv /\ ReaderInv
  BY DEF Move, CatalogInv
<1>1. clock \in Nat /\ movedAt \in Nat /\ movedAt <= clock /\ prefix \in Nat
  BY <1>0 DEF CatalogTyped, LookupInv
<1>2. LookupInv'
  BY <1>0, <1>1 DEF LookupInv
<1>3. LoadsInv'
  <2>1. ASSUME NEW j \in Keys PROVE LoadOk(j, load[j])'
    <3>1. load[j] \in Traversals /\ LoadOk(j, load[j])
      BY <1>0 DEF CatalogTyped, LoadsInv
    <3>2. load[j].at \in {"object", "gone"} => load[j].deadline <= clock + PrefixTtl + Budget
      BY <1>1, <3>1, CatalogConstants DEF LoadOk, Traversals
    <3> QED
      BY <1>0, <3>1, <3>2 DEF LoadOk
  <2>2. ListOk(load["list"])'
    BY <1>0 DEF LoadsInv, ListOk
  <2> QED
    BY <2>1, <2>2 DEF LoadsInv
<1>4. MemoInv'
  <2>1. ASSUME NEW j \in Keys PROVE InLife(memo[j].result, memo[j].until)'
    <3>1. memo[j].until \in Nat /\ InLife(memo[j].result, memo[j].until)
      BY <1>0 DEF CatalogTyped, MemoInv, Entries
    <3> QED
      BY <1>0, <1>1, <3>1, CatalogConstants DEF InLife
  <2> QED
    BY <1>0, <2>1 DEF MemoInv, Whole
<1>5. CatalogTyped' /\ ReaderInv' /\ GivenInv'
  BY <1>0, <1>1 DEF CatalogTyped, ReaderInv, GivenInv
<1> QED
  BY <1>2, <1>3, <1>4, <1>5 DEF CatalogInv

(* Time passes, but past no timer. *)
LEMMA TickKeeps ==
  ASSUME CatalogAssumption, CatalogInv, Tick
  PROVE  CatalogInv'
<1>0. /\ UNCHANGED <<children, prefix, movedAt, edits, lookup, load, memo, reader>> /\ given' = {} /\ clock' = clock + 1
      /\ lookup.st = "pending" => clock < lookup.until + CancelTime
      /\ \A k \in Keys : load[k].at \in Kinds \cup {"object", "gone"} => clock < load[k].expires + CancelTime
      /\ CatalogTyped /\ LookupInv /\ LoadsInv /\ MemoInv /\ ReaderInv
  BY DEF Tick, upstream, CatalogInv
<1>1. /\ clock \in Nat /\ movedAt \in Nat
      /\ lookup \in [st : {"none", "pending", "kept", "failed"}, value : Nat, until : Nat]
  BY <1>0 DEF CatalogTyped
<1>2. LookupInv'
  BY <1>0, <1>1, CatalogConstants DEF LookupInv
<1>3. LoadsInv'
  <2>1. ASSUME NEW j \in Keys PROVE LoadOk(j, load[j])'
    <3>1. load[j] \in Traversals /\ LoadOk(j, load[j]) /\ load[j].deadline \in Nat /\ load[j].expires \in Nat
      BY <1>0 DEF CatalogTyped, LoadsInv, Traversals
    <3>2. load[j].at # "none" => load[j].deadline <= clock' + Budget
      BY <1>0, <1>1, <3>1, CatalogConstants DEF LoadOk
    <3>3. load[j].at \in Kinds \cup {"object", "gone"} => clock' <= load[j].expires + CancelTime
      BY <1>0, <1>1, <3>1, CatalogConstants
    <3> QED
      BY <1>0, <3>1, <3>2, <3>3 DEF LoadOk
  <2>2. ListOk(load["list"])'
    BY <1>0 DEF LoadsInv, ListOk
  <2> QED
    BY <2>1, <2>2 DEF LoadsInv
<1>4. MemoInv' /\ ReaderInv' /\ GivenInv'
  BY <1>0 DEF MemoInv, ReaderInv, GivenInv, Whole, InLife
<1>5. CatalogTyped'
  BY <1>0, <1>1 DEF CatalogTyped
<1> QED
  BY <1>2, <1>3, <1>4, <1>5 DEF CatalogInv

-------------------------------------------------------------------------------
(* The catalog *)

(* Nothing is under way at the start. *)
LEMMA CatalogStarts ==
  ASSUME CatalogAssumption, CatalogInit
  PROVE  CatalogInv
<1>0. /\ clock = 0 /\ children \in [Kinds -> {1..N, 1..(N - 1)}] /\ prefix = 1 /\ movedAt = 0 /\ edits = 0
      /\ lookup = NoLookup /\ load = [k \in Keys |-> NoLoad] /\ memo = [k \in Keys |-> NoEntry]
      /\ reader = [r \in Readers |-> NotWaiting] /\ given = {}
  BY DEF CatalogInit
<1>1. children \in Listings
  <2>1. 1..(N - 1) \subseteq 1..N /\ 1..N \subseteq 1..N
    BY CatalogConstants
  <2> QED
    BY <1>0, <2>1 DEF Listings
<1>2. lookup.st = "none" /\ lookup \in [st : {"none", "pending", "kept", "failed"}, value : Nat, until : Nat]
  BY <1>0 DEF NoLookup
<1>3. load \in [Keys -> Traversals] /\ \A k \in Keys : load[k] = NoLoad
  BY <1>0, AtRest
<1>4. memo \in [Keys -> Entries] /\ \A k \in Keys : memo[k] = NoEntry
  BY <1>0, NoEntryTyped
<1>5. reader \in [Readers -> [key : Keys \cup {"none"}, began : Nat]] /\ \A r \in Readers : reader[r] = NotWaiting
  BY <1>0, AtRest
<1>6. CatalogTyped /\ LookupInv
  BY <1>0, <1>1, <1>2, <1>3, <1>4, <1>5 DEF CatalogTyped, LookupInv
<1>7. LoadsInv
  <2>1. \A k \in Keys : LoadOk(k, NoLoad)
    BY AtRest, KeyNames DEF LoadOk
  <2>2. ListOk(NoLoad)
    BY AtRest, NoListingTyped, KeyNames DEF ListOk
  <2> QED
    BY <1>3, <2>1, <2>2, KeyNames DEF LoadsInv
<1>8. MemoInv
  <2>1. Answer("none").kind = "none" /\ Whole(Answer("none"))
    BY AnswerTyped
  <2> QED
    BY <1>4, <2>1, NoEntryTyped DEF MemoInv, InLife
<1>9. ReaderInv /\ GivenInv
  BY <1>0, <1>5, AtRest DEF ReaderInv, GivenInv
<1> QED
  BY <1>6, <1>7, <1>8, <1>9 DEF CatalogInv

(* Every step of the catalog, its readers, its upstream and the clock. *)
LEMMA CatalogKept ==
  ASSUME CatalogAssumption, CatalogInv, [CatalogNext]_catalogVars
  PROVE  CatalogInv'
<1>1. CASE PrefixArrives
  BY <1>1, PrefixArrivesKeeps
<1>2. CASE PrefixFails
  BY <1>2, PrefixFailsKeeps
<1>3. CASE PageArrives
  BY <1>3, PageArrivesKeeps
<1>4. CASE ObjectArrives
  BY <1>4, ObjectArrivesKeeps
<1>5. CASE Edit
  BY <1>5, EditKeeps
<1>6. CASE Move
  BY <1>6, MoveKeeps
<1>7. CASE Tick
  BY <1>7, TickKeeps
<1>8. ASSUME NEW k \in Keys, RequestFails(k) PROVE CatalogInv'
  BY <1>8, FailureKeeps DEF RequestFails
<1>9. ASSUME NEW k \in Keys, RequestTimer(k) PROVE CatalogInv'
  BY <1>9, FailureKeeps DEF RequestTimer
<1>10. ASSUME NEW k \in Keys, NEW r \in Readers, FromMemo(r, k) \/ Join(r, k) \/ Start(r, k) \/ StartFails(r, k)
       PROVE  CatalogInv'
  BY <1>10, FromMemoKeeps, JoinKeeps, StartKeeps, StartFailsKeeps
<1>11. CASE ObjectGone
  BY <1>11, ObjectGoneKeeps
<1>12. CASE UNCHANGED catalogVars
  <2>1. UNCHANGED <<clock, children, prefix, movedAt, edits, lookup, load, memo, reader, given>>
    BY <1>12 DEF catalogVars, upstream
  <2> QED
    BY <2>1 DEF CatalogInv, CatalogTyped, LookupInv, LoadsInv, LoadOk, ListOk, MemoInv, ReaderInv, GivenInv, Whole, InLife
<1> QED
  BY <1>1, <1>2, <1>3, <1>4, <1>5, <1>6, <1>7, <1>8, <1>9, <1>10, <1>11, <1>12 DEF CatalogNext

(* Whoever still waits waits for a traversal whose request, or whose prefix   *)
(* look-up, ends with the reader's budget, but for one token and one cancel.  *)
LEMMA AnsweredInTime ==
  ASSUME CatalogAssumption, CatalogInv
  PROVE  CatalogInTime
<1>1. SUFFICES ASSUME NEW r \in Readers, reader[r] # NotWaiting
               PROVE  clock <= reader[r].began + Budget + TokenTime + CancelTime
  BY DEF CatalogInTime
<1>2. PICK k \in Keys : k = reader[r].key
  BY <1>1 DEF CatalogInv, CatalogTyped, ReaderInv
<1>3. k # "none"
  BY <1>2, KeyNames
<1>4. load[k].at # "none" /\ load[k].deadline <= reader[r].began + Budget
  BY <1>2, <1>3 DEF CatalogInv, ReaderInv
<1>5. /\ load[k] \in Traversals /\ LoadOk(k, load[k]) /\ LookupInv /\ clock \in Nat /\ reader[r].began \in Nat
      /\ lookup \in [st : {"none", "pending", "kept", "failed"}, value : Nat, until : Nat]
  BY DEF CatalogInv, LoadsInv, CatalogTyped
<1>6. load[k].at \in Kinds \cup {"object", "gone", "prefix"}
  BY <1>4, <1>5, KeyNames DEF Traversals
<1>7. clock <= load[k].deadline + TokenTime + CancelTime
  <2>1. CASE load[k].at = "prefix"
    BY <1>5, <2>1, CatalogConstants DEF LoadOk, LookupInv, Traversals
  <2>2. CASE load[k].at \in Kinds \cup {"object", "gone"}
    BY <1>5, <2>2, CatalogConstants DEF LoadOk, Traversals
  <2> QED
    BY <1>6, <2>1, <2>2
<1> QED
  BY <1>4, <1>5, <1>7, CatalogConstants DEF Traversals

(* A listing is whole or says it is truncated, offers no unsafe name, comes   *)
(* when the reader's budget is over but for one token's reading and one       *)
(* body's cancel (httpClient.ts:95, 150), and follows a moved warehouse, for  *)
(* any number of readers, names, pages and times (lakekeeperCatalog.ts).      *)
THEOREM CatalogHonestAlways ==
  ASSUME CatalogAssumption
  PROVE  CatalogSpec => []CatalogHonest
<1>1. CatalogInit => CatalogInv
  BY CatalogStarts
<1>2. CatalogInv /\ [CatalogNext]_catalogVars => CatalogInv'
  BY CatalogKept
<1>3. CatalogInv => CatalogHonest
  <2>1. CatalogInv => CatalogInTime
    BY AnsweredInTime
  <2>2. CatalogInv => CompleteOrSaid /\ UnsafeIsHidden /\ StalePrefixHeals
    BY DEF CatalogInv, GivenInv, Whole, InLife, CompleteOrSaid, UnsafeIsHidden, StalePrefixHeals
  <2> QED
    BY <2>1, <2>2 DEF CatalogHonest
<1> QED
  BY <1>1, <1>2, <1>3, PTL DEF CatalogSpec
===============================================================================
