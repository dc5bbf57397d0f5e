----------------------------- MODULE CatalogSource -----------------------------
(***************************************************************************)
(* The Lakekeeper source of the data catalog (lakekeeperCatalog.ts) over   *)
(* its memo and its HTTP client: listing the children of a schema drains   *)
(* two paged upstream listings, reading a table is one request, and both   *)
(* first look up the path prefix of the warehouse, which has a memo of its *)
(* own and is shared by all of them.  Each operation has a budget.  The    *)
(* upstream is edited, moves the warehouse and fails meanwhile.            *)
(***************************************************************************)
EXTENDS Integers, FiniteSets

CONSTANTS
  Readers,     \* requests that may be served at once
  N,           \* names a child may have: 1..N, in the order the upstream lists
  Unsafe,      \* names that cannot be addressed (isSafeUpstreamSegment)
  PageSize, MaxPages,
  Timeout,     \* of one request (HTTP client)
  TokenTime,   \* assumed: reading the service token's file takes no longer (no timer)
  CancelTime,  \* DISCARD_TIMEOUT_MS: an unread body is cancelled for no longer
  Budget,      \* OPERATION_BUDGET_MS
  Ttl, NegativeTtl, PrefixTtl,
  MaxMoves,    \* bound: how often the warehouse moves to another prefix
  MaxEdits,    \* bound: changes of the upstream's children
  MaxTime      \* bound: the clock

\* Assumed of the constants; the module that instantiates or extends this one states it.
CatalogAssumption ==
  /\ IsFiniteSet(Readers) /\ N \in Nat /\ Unsafe \subseteq 1..N
  /\ {PageSize, MaxPages, Timeout, Budget} \subseteq Nat \ {0}
  /\ {TokenTime, CancelTime, Ttl, NegativeTtl, PrefixTtl, MaxMoves, MaxEdits, MaxTime} \subseteq Nat

VARIABLES
  clock,
  children,   \* upstream: child namespaces and tables of the schema
  prefix,     \* upstream: number of the warehouse's current prefix
  movedAt,    \* when it last changed (history)
  edits,      \* number of changes so far
  lookup,     \* the memo entry of the prefix
  load,       \* the traversal under way for each key
  memo,       \* the settled entry of each key
  reader,     \* what each reader waits for
  given       \* the answers the last step gave

upstream == <<children, prefix, movedAt, edits>>
catalogVars == <<clock, upstream, lookup, load, memo, reader, given>>

Kinds == {"namespaces", "tables"}
Keys  == {"list", "get"}

(* A result: what was found, whether a warning says there is more, and which *)
(* children were there all the time (history).                               *)
Listing(got, more, always) == [kind |-> "listing", got |-> got, more |-> more, always |-> always]
NoListing == [k \in Kinds |-> {}]
Answer(kind) == [kind |-> kind, got |-> NoListing, more |-> FALSE, always |-> NoListing]

NoLookup == [st |-> "none", value |-> 0, until |-> 0]
NoLoad   == [at |-> "none", prefix |-> 0, token |-> 0, pages |-> 0, got |-> NoListing,
             more |-> FALSE, always |-> NoListing, deadline |-> 0, expires |-> 0]
NoEntry  == [result |-> Answer("none"), until |-> 0]
NotWaiting == [key |-> "none", began |-> 0]

CatalogInit ==
  /\ clock = 0
  /\ children \in [Kinds -> {1..N, 1..(N - 1)}] /\ prefix = 1 /\ movedAt = 0 /\ edits = 0
  /\ lookup = NoLookup
  /\ load = [k \in Keys |-> NoLoad] /\ memo = [k \in Keys |-> NoEntry]
  /\ reader = [r \in Readers |-> NotWaiting] /\ given = {}

Lesser(a, b) == IF a < b THEN a ELSE b

-------------------------------------------------------------------------------
(* Settling.  A load that ends answers its readers; the memo keeps a result  *)
(* for the Ttl and a failure of the upstream for the NegativeTtl, but not a  *)
(* failure of our own limits.                                                *)

Life(result) == IF result.kind = "failed" THEN NegativeTtl ELSE Ttl

Kept(result) == IF result.kind = "limit" THEN NoEntry ELSE [result |-> result, until |-> clock + Life(result)]

Waiting(ks) == {r \in Readers : reader[r].key \in ks}

SettleKeys(ks, result) ==
  /\ memo' = [k \in Keys |-> IF k \in ks THEN Kept(result) ELSE memo[k]]
  /\ given' = {[began |-> reader[r].began, result |-> result] : r \in Waiting(ks)}
  /\ reader' = [r \in Readers |-> IF r \in Waiting(ks) THEN NotWaiting ELSE reader[r]]

Settle(k, result) ==
  /\ load' = [load EXCEPT ![k] = NoLoad]
  /\ SettleKeys({k}, result)

(* getJson under the deadline of the operation: refused once it is over,     *)
(* else aborted after the timeout or what remains, which is counted from the *)
(* moment the token has been read.  So this is the last moment at which the  *)
(* response can be used; what is not used is cancelled before the caller     *)
(* hears of the failure, for up to CancelTime more.                          *)
Expiry(deadline) == clock + TokenTime + Lesser(Timeout, deadline - clock)

FirstPhase(k) == IF k = "list" THEN "namespaces" ELSE "object"

(* A load that goes on with the prefix p. *)
Onward(l, k, p) == [l EXCEPT !.at = FirstPhase(k), !.prefix = p, !.expires = Expiry(l.deadline)]

-------------------------------------------------------------------------------
(* list and get, up to the first await. *)

Usable(entry) == entry # NoEntry /\ clock < entry.until

FromMemo(r, k) ==
  /\ reader[r] = NotWaiting /\ load[k] = NoLoad /\ Usable(memo[k])
  /\ given' = {[began |-> clock, result |-> memo[k].result]}
  /\ UNCHANGED <<clock, upstream, lookup, load, memo, reader>>

Join(r, k) ==
  /\ reader[r] = NotWaiting /\ load[k] # NoLoad
  /\ reader' = [reader EXCEPT ![r] = [key |-> k, began |-> clock]]
  /\ given' = {}
  /\ UNCHANGED <<clock, upstream, lookup, load, memo>>

(* listUncached or getUncached starts: the prefix is kept, being looked up   *)
(* (under the deadline of whoever asked first), or asked for now.            *)
Start(r, k) ==
  /\ reader[r] = NotWaiting /\ load[k] = NoLoad /\ ~Usable(memo[k])
  /\ reader' = [reader EXCEPT ![r] = [key |-> k, began |-> clock]]
  /\ given' = {}
  /\ memo' = [memo EXCEPT ![k] = NoEntry]
  /\ LET fresh == [NoLoad EXCEPT !.at = "prefix", !.deadline = clock + Budget, !.always = children]
     IN \/ /\ lookup.st = "kept" /\ clock < lookup.until
           /\ load' = [load EXCEPT ![k] = Onward(fresh, k, lookup.value)]
           /\ UNCHANGED lookup
        \/ /\ lookup.st = "pending"
           /\ load' = [load EXCEPT ![k] = fresh]
           /\ UNCHANGED lookup
        \/ /\ lookup.st # "pending" /\ clock >= lookup.until
           /\ load' = [load EXCEPT ![k] = fresh]
           /\ lookup' = [st |-> "pending", value |-> 0, until |-> Expiry(fresh.deadline)]
  /\ UNCHANGED <<clock, upstream>>

(* The look-up failed a moment ago: so does the operation. *)
StartFails(r, k) ==
  /\ reader[r] = NotWaiting /\ load[k] = NoLoad /\ ~Usable(memo[k])
  /\ lookup.st = "failed" /\ clock < lookup.until
  /\ memo' = [memo EXCEPT ![k] = Kept(Answer("failed"))]
  /\ given' = {[began |-> clock, result |-> Answer("failed")]}
  /\ UNCHANGED <<clock, upstream, lookup, load, reader>>

-------------------------------------------------------------------------------
(* prefixFor *)

AtPrefix == {k \in Keys : load[k].at = "prefix"}

PrefixArrives ==
  /\ lookup.st = "pending" /\ clock <= lookup.until
  /\ lookup' = [st |-> "kept", value |-> prefix, until |-> clock + PrefixTtl]
  /\ LET late == {k \in AtPrefix : clock >= load[k].deadline} IN
     /\ load' = [k \in Keys |-> IF k \in late THEN NoLoad
                                ELSE IF k \in AtPrefix THEN Onward(load[k], k, prefix)
                                ELSE load[k]]
     /\ SettleKeys(late, Answer("limit"))
  /\ UNCHANGED <<clock, upstream>>

(* Every operation that waits for the prefix fails with it, whatever is left *)
(* of its own budget: with an error of the upstream, or by the timer.        *)
PrefixFails ==
  /\ lookup.st = "pending"
  /\ \E kind \in {"failed", "limit"} :
       /\ kind = "limit" => lookup.until <= clock + TokenTime
       /\ SettleKeys(AtPrefix, Answer(kind))
       /\ lookup' = IF kind = "limit" THEN NoLookup
                    ELSE [st |-> "failed", value |-> 0, until |-> clock + NegativeTtl]
  /\ load' = [k \in Keys |-> IF k \in AtPrefix THEN NoLoad ELSE load[k]]
  /\ UNCHANGED <<clock, upstream>>

-------------------------------------------------------------------------------
(* drain: listNamespaces, then listTables. *)

(* The upstream's page after token: the next PageSize names; full tells      *)
(* whether a next-page-token comes with it.                                  *)
Rest(kind, token) == {i \in children[kind] : i > token}
Page(kind, token) == {i \in Rest(kind, token) :
                        Cardinality({j \in Rest(kind, token) : j < i}) < PageSize}

(* Mutant: the limit of pages ends the listing silently. *)
BadTruncates(next, pages) == FALSE

(* A warning is given when the last page allowed still names a next one. *)
Truncates(next, pages) == next /\ pages + 1 >= MaxPages

Exposed(names) == names \ Unsafe

(* A page arrives: another one, the next listing, or the result. *)
PageArrives ==
  LET l     == load["list"]
      page  == Page(l.at, l.token)
      next  == Rest(l.at, l.token) # page
      seen  == [l EXCEPT !.got[l.at] = @ \cup Exposed(page),
                         !.more = @ \/ Truncates(next, l.pages)]
  IN /\ l.at \in Kinds /\ l.prefix = prefix /\ clock <= l.expires
     /\ \/ /\ next /\ l.pages + 1 < MaxPages /\ clock < l.deadline
           /\ \E last \in page : /\ \A i \in page : i <= last
                                 /\ load' = [load EXCEPT !["list"] =
                                      [seen EXCEPT !.token = last, !.pages = @ + 1,
                                                   !.expires = Expiry(l.deadline)]]
           /\ given' = {} /\ UNCHANGED <<memo, reader>>
        \/ /\ ~(next /\ l.pages + 1 < MaxPages) /\ l.at = "namespaces" /\ clock < l.deadline
           /\ load' = [load EXCEPT !["list"] =
                [seen EXCEPT !.at = "tables", !.token = 0, !.pages = 0,
                             !.expires = Expiry(l.deadline)]]
           /\ given' = {} /\ UNCHANGED <<memo, reader>>
        \/ /\ ~(next /\ l.pages + 1 < MaxPages) /\ l.at = "tables"
           /\ Settle("list", Listing(seen.got, seen.more, seen.always))
        \/ /\ clock >= l.deadline
           /\ (next /\ l.pages + 1 < MaxPages) \/ l.at = "namespaces"
           /\ Settle("list", Answer("limit"))
     /\ UNCHANGED <<clock, upstream, lookup>>

(* The table, or not_found, which is the answer "no such asset": also what   *)
(* the upstream says of a path under a prefix the warehouse no longer has.   *)
(* The body of a 404 is cancelled first.                                     *)
ObjectArrives ==
  /\ load["get"].at = "object" /\ clock <= load["get"].expires
  /\ IF load["get"].prefix = prefix /\ 1 \in children["tables"]
     THEN Settle("get", Answer("found"))
     ELSE /\ load' = [load EXCEPT !["get"].at = "gone", !["get"].expires = clock]
          /\ given' = {} /\ UNCHANGED <<memo, reader>>
  /\ UNCHANGED <<clock, upstream, lookup>>

ObjectGone ==
  /\ load["get"].at = "gone"
  /\ Settle("get", Answer("missing"))
  /\ UNCHANGED <<clock, upstream, lookup>>

(* An error status, a malformed body or shape; for a listing a 404 too. *)
RequestFails(k) ==
  /\ load[k].at \in Kinds \cup {"object"}
  /\ Settle(k, Answer("failed"))
  /\ UNCHANGED <<clock, upstream, lookup>>

(* The timer of the request, which started before or after the token was    *)
(* read for as long as it can take.                                          *)
RequestTimer(k) ==
  /\ load[k].at \in Kinds \cup {"object"} /\ load[k].expires <= clock + TokenTime
  /\ Settle(k, Answer("limit"))
  /\ UNCHANGED <<clock, upstream, lookup>>

-------------------------------------------------------------------------------
(* The upstream. *)

Edit ==
  /\ edits < MaxEdits /\ edits' = edits + 1
  /\ \E k \in Kinds, i \in 1..N :
       /\ children' = [children EXCEPT ![k] = IF i \in @ THEN @ \ {i} ELSE @ \cup {i}]
       /\ load' = [key \in Keys |-> [load[key] EXCEPT !.always[k] = @ \ {i}]]
  /\ given' = {}
  /\ UNCHANGED <<clock, prefix, movedAt, lookup, memo, reader>>

Move ==
  /\ prefix <= MaxMoves
  /\ prefix' = prefix + 1 /\ movedAt' = clock
  /\ given' = {}
  /\ UNCHANGED <<clock, children, edits, lookup, load, memo, reader>>

Tick ==
  /\ clock < MaxTime
  /\ lookup.st = "pending" => clock < lookup.until + CancelTime
  /\ \A k \in Keys : load[k].at \in Kinds \cup {"object", "gone"} => clock < load[k].expires + CancelTime
  /\ clock' = clock + 1 /\ given' = {}
  /\ UNCHANGED <<upstream, lookup, load, memo, reader>>

CatalogNext ==
  \/ PrefixArrives \/ PrefixFails \/ PageArrives \/ ObjectArrives \/ ObjectGone
  \/ Edit \/ Move \/ Tick
  \/ \E k \in Keys : \/ RequestFails(k) \/ RequestTimer(k)
                     \/ \E r \in Readers : FromMemo(r, k) \/ Join(r, k) \/ Start(r, k) \/ StartFails(r, k)

CatalogSpec == CatalogInit /\ [][CatalogNext]_catalogVars

-------------------------------------------------------------------------------
(* Properties. *)

(* A listing holds every addressable child that was there all the time, or   *)
(* says that it is truncated, whatever was added or dropped between pages.   *)
CompleteOrSaid ==
  \A a \in given : a.result.kind = "listing" /\ ~a.result.more =>
    \A k \in Kinds : (a.result.always[k] \ Unsafe) \subseteq a.result.got[k]

(* No name that would change the path of a request is ever offered.          *)
UnsafeIsHidden == \A a \in given, k \in Kinds : a.result.got[k] \cap Unsafe = {}

(* Every reader is answered within one budget of its arrival, also when it   *)
(* joins a traversal or a prefix look-up that others began; reading a token  *)
(* and cancelling a body come on top of it, once each and not once a page.   *)
CatalogInTime ==
  \A r \in Readers : reader[r] # NotWaiting =>
    clock <= reader[r].began + Budget + TokenTime + CancelTime

(* What the sources promise: "its own, shorter operation budget", all of it. *)
(* Not so, for the token and the cancel that CatalogInTime counts.           *)
AnsweredInBudget == \A r \in Readers : reader[r] # NotWaiting => clock <= reader[r].began + Budget

(* An existing table is reported missing because of a stale prefix only for  *)
(* the lives of the two memo entries and one traversal after the move.       *)
StalePrefixHeals ==
  \A a \in given : a.result.kind = "missing" /\ 1 \in children["tables"] /\ edits = 0 =>
    clock <= movedAt + PrefixTtl + Budget + TokenTime + CancelTime + Ttl

(* The catalog: a listing is whole or says it is truncated, offers no unsafe *)
(* name, comes when the reader's budget is over but for one token and one    *)
(* cancelled body, and follows a moved warehouse (lakekeeperCatalog.ts).     *)
CatalogHonest == CompleteOrSaid /\ UnsafeIsHidden /\ CatalogInTime /\ StalePrefixHeals
===============================================================================
