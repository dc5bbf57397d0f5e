----------------------------- MODULE UpstreamMemo -----------------------------
(***************************************************************************)
(* createMemo (memo.ts): the single-flight LRU memo in front of the        *)
(* upstream clients.  A load is started by the first reader of a key and   *)
(* settles later, when its entry may have been evicted, invalidated or     *)
(* replaced; entries are counted by number and by weight.                  *)
(*                                                                         *)
(* The Map from keys to entries, in insertion order, is the sequence       *)
(* `cache' of the entries' identities, least recently used first.  An      *)
(* entry that is not in the map and whose load has settled is garbage: its *)
(* identity is NoEntry, for the next load.                                 *)
(***************************************************************************)
EXTENDS Integers, SequencesExt

CONSTANTS
  Keys,
  Ids,           \* identities of entries: bounds the loads that run at once
  MaxEntries,    \* options.maxEntries
  MaxWeight,     \* options.maxWeight
  KeepsValues,   \* ttlMs > 0
  KeepsErrors    \* negativeTtlMs > 0

\* Assumed of the constants; the module that instantiates this one states it.
LimitAssumption == MaxEntries \in Nat \ {0} /\ MaxWeight \in Nat \ {0}
TtlAssumption == KeepsValues \in BOOLEAN /\ KeepsErrors \in BOOLEAN

VARIABLES
  entry,        \* the entries
  cache,        \* the live ones in LRU order
  totalWeight

vars == <<entry, cache, totalWeight>>

OurLimits  == {"timeout", "overloaded"}
ErrorKinds == OurLimits \cup {"upstream", "other"}   \* "other": not an UpstreamError

Entry == [key: Keys, pending: BOOLEAN, expired: BOOLEAN, weight: 1..MaxWeight,
          result: ErrorKinds \cup {"none", "ok"}]

Live == Range(cache)

NoEntry == [pending |-> FALSE]

TypeOK ==
  /\ entry \in [Ids -> Entry \cup {NoEntry}]
  /\ cache \in Seq(Ids)
  /\ totalWeight \in Nat

Init ==
  /\ entry = [i \in Ids |-> NoEntry]
  /\ cache = <<>>
  /\ totalWeight = 0

-------------------------------------------------------------------------------
(* The writers of the map and of the total.                                 *)

Weight(s, e) == FoldLeft(LAMBDA sum, i : sum + e[i].weight, 0, s)

isLive(i) == i \in Live

(* Map.set: a key that is present keeps its place. *)
SetIn(c, e, i) ==
  IF \E j \in Range(c) : e[j].key = e[i].key
  THEN [n \in DOMAIN c |-> IF e[c[n]].key = e[i].key THEN i ELSE c[n]]
  ELSE Append(c, i)

(* Mutant: only the number of entries is looked at. *)
BadEvicted(c, e, total) == IF Len(c) > MaxEntries THEN Len(c) - MaxEntries ELSE 0

(* How many of the oldest entries evict drops. *)
Evicted(c, e, total) ==
  LET enough == {n \in 0..Len(c) :
        n = Len(c) \/ (Len(c) - n <= MaxEntries /\ total - Weight(SubSeq(c, 1, n), e) <= MaxWeight)}
  IN CHOOSE n \in enough : \A m \in enough : n <= m

(* The map, the entries and the total at the end of an operation. *)
Commit(c, e, total) ==
  /\ cache' = c
  /\ entry' = [i \in Ids |-> IF i \in Range(c) \/ e[i].pending THEN e[i] ELSE NoEntry]
  /\ totalWeight' = total

(* evict(), on a map c and a total just written, ends every change that      *)
(* could exceed a limit.                                                    *)
Evict(c, e, total) ==
  LET n == Evicted(c, e, total)
  IN Commit(SubSeq(c, n + 1, Len(c)), e, total - Weight(SubSeq(c, 1, n), e))

unlink(i, e) == Commit(SelectSeq(cache, LAMBDA j : j # i), e, totalWeight - entry[i].weight)

-------------------------------------------------------------------------------
(* Reading. *)

(* Mutant: only a settled entry is a hit. *)
BadUsable(i) == ~entry[i].pending /\ ~entry[i].expired

Usable(i) == entry[i].pending \/ ~entry[i].expired

(* A reader joins the pending load or gets the kept result; the entry        *)
(* becomes the most recently used one.                                      *)
MemoHit(k) ==
  \E i \in Live :
    /\ entry[i].key = k /\ Usable(i)
    /\ cache' = Append(SelectSeq(cache, LAMBDA j : j # i), i)
    /\ UNCHANGED <<entry, totalWeight>>

(* Mutant: the expired entry is overwritten in the map and not unlinked. *)
BadMemoMiss(k) ==
  /\ \A i \in Live : entry[i].key = k => ~Usable(i)
  /\ \E i \in {j \in Ids : entry[j] = NoEntry} :
       LET e == [entry EXCEPT ![i] = [key |-> k, pending |-> TRUE, expired |-> FALSE,
                                      weight |-> 1, result |-> "none"]]
       IN Evict(SetIn(cache, e, i), e, totalWeight + 1)

(* A reader finds nothing usable: the expired entry goes, a load starts. *)
MemoMiss(k) ==
  /\ \A i \in Live : entry[i].key = k => ~Usable(i)
  /\ \E i \in {j \in Ids : entry[j] = NoEntry} :
       LET e == [entry EXCEPT ![i] = [key |-> k, pending |-> TRUE, expired |-> FALSE,
                                      weight |-> 1, result |-> "none"]]
           gone == SelectSeq(cache, LAMBDA j : entry[j].key = k)
           rest == SelectSeq(cache, LAMBDA j : entry[j].key # k)
       IN Evict(SetIn(rest, e, i), e, totalWeight - Weight(gone, entry) + 1)

-------------------------------------------------------------------------------
(* Settling. *)

Settled(i, result) == [entry EXCEPT ![i].pending = FALSE, ![i].result = result]

normalizeWeight(w) == IF w < 1 THEN 1 ELSE w

(* Mutant: the value of a detached load is put back. *)
BadSettleDetached(i) ==
  /\ entry[i].pending /\ ~isLive(i)
  /\ Evict(SetIn(cache, entry, i), Settled(i, "ok"),
           totalWeight + 1 - Weight(SelectSeq(cache, LAMBDA j : entry[j].key = entry[i].key), entry))

(* A load whose entry is no longer live: its readers get the value or the    *)
(* error, the memo is not touched.                                          *)
SettleDetached(i) ==
  /\ entry[i].pending /\ ~isLive(i)
  /\ Commit(cache, Settled(i, "ok"), totalWeight)

(* Mutant: a result too heavy to keep goes through evict like any other. *)
BadKeeps(weight) == KeepsValues

Keeps(weight) == KeepsValues /\ weight <= MaxWeight

(* w is what o.weight returns: anything from 0 up; MaxWeight + 1 stands for  *)
(* all that is too heavy.  Too heavy or not to be kept: the entry goes and   *)
(* the others stay.                                                         *)
Resolve(i, w) ==
  LET weight == normalizeWeight(w)
      e == [Settled(i, "ok") EXCEPT ![i].weight = weight]
  IN /\ entry[i].pending /\ isLive(i)
     /\ \/ ~Keeps(weight) /\ unlink(i, Settled(i, "ok"))
        \/ Keeps(weight) /\ Evict(cache, e, totalWeight + weight - entry[i].weight)

(* Mutant: every UpstreamError is kept. *)
BadCacheable(kind) == kind # "other"

cacheable(kind) == kind # "other" /\ kind \notin OurLimits

Reject(i, kind) ==
  /\ entry[i].pending /\ isLive(i)
  /\ \/ KeepsErrors /\ cacheable(kind) /\ Commit(cache, Settled(i, kind), totalWeight)
     \/ ~(KeepsErrors /\ cacheable(kind)) /\ unlink(i, Settled(i, kind))

invalidate(k) ==
  \E i \in Live : entry[i].key = k /\ unlink(i, entry)

(* expires is reached.  Only what is live can be asked for. *)
Expires(i) ==
  /\ isLive(i) /\ ~entry[i].pending /\ ~entry[i].expired
  /\ entry' = [entry EXCEPT ![i].expired = TRUE]
  /\ UNCHANGED <<cache, totalWeight>>

Next ==
  \/ \E k \in Keys : MemoHit(k) \/ MemoMiss(k) \/ invalidate(k)
  \/ \E i \in Ids, w \in 0..(MaxWeight + 1) : Resolve(i, w)
  \/ \E i \in Ids, kind \in ErrorKinds : Reject(i, kind)
  \/ \E i \in Ids : SettleDetached(i) \/ Expires(i)

Spec == Init /\ [][Next]_vars

-------------------------------------------------------------------------------
(* The accounting invariant of memo.ts:10, whatever the order in which       *)
(* loads settle and entries are evicted, replaced or invalidated: a drift    *)
(* upwards would in time empty the memo on every load.                       *)
Accounting == totalWeight = Weight(cache, entry)

(* Memory is bounded after every operation, with loads pending or settled. *)
Bounded == Len(cache) <= MaxEntries /\ totalWeight <= MaxWeight

(* A failure of our own making (timeout, overload) is never what a later     *)
(* reader is given.                                                         *)
LimitsNotKept == \A i \in Live : ~entry[i].pending => entry[i].result \notin OurLimits \cup {"other"}

(* While a live load of a key is pending no second one starts. *)
SingleFlightStep ==
  \A i, j \in Ids :
   isLive(i) /\ entry[i].pending /\ ~entry[j].pending /\ entry'[j].pending
   => entry'[j].key # entry[i].key
SingleFlight == [][SingleFlightStep]_vars

(* What was evicted, replaced or invalidated never comes back: a key's       *)
(* entry enters the memo only as a load that starts now.  A reader that      *)
(* comes after an invalidation is never given a load from before it.         *)
NoComebackStep ==
  \A i \in Ids : i \in Range(cache') /\ ~isLive(i) => ~entry[i].pending /\ entry'[i].pending
NoComeback == [][NoComebackStep]_vars

(* A result that is not kept although it is the most recent one costs the    *)
(* other entries nothing: one huge listing does not flush the memo.          *)
OversizeSparesOthersStep ==
  \A i \in Live :
   entry[i].pending /\ ~entry'[i].pending /\ Last(cache) = i /\ i \notin Range(cache')
   => Range(cache') = Live \ {i}
OversizeSparesOthers == [][OversizeSparesOthersStep]_vars
===============================================================================
