------------------------------- MODULE StorePool -------------------------------
(***************************************************************************)
(* The connection pool under PgSsoChangeStore (ssoChangeStore.ts).  A pool *)
(* trusts the CA it was built with; the CA file is replaced by the kubelet *)
(* and the server's certificate by its operator while queries run, so the  *)
(* store discards the pool when the file changes or a query fails the TLS  *)
(* verification, and the next call builds another.  Verification happens   *)
(* when a connection opens: one that is established goes on answering,     *)
(* whatever certificate the server shows to the next.  Readiness is a      *)
(* probe that all callers share, cached for a while.                       *)
(***************************************************************************)
EXTENDS Integers, FiniteSets, TLAPS

CONSTANTS
  Ops,     \* store operations that may run at once
  Pools,   \* names for pools that are in use, of which a spent one is used again
  None,    \* no pool
  MaxCa    \* bound: generations of the CA

\* Assumed of the constants; the module that instantiates this one states it.
PoolAssumption ==
  /\ None \notin Pools
  /\ IsFiniteSet(Pools) /\ IsFiniteSet(Ops) /\ MaxCa \in Nat \ {0}
  /\ Cardinality(Pools) >= Cardinality(Ops) + 2   \* one each, the probe's and the current one

VARIABLES
  file,      \* generation in the CA file, 0 when it is not mounted
  latest,    \* latest generation the kubelet was given
  server,    \* generation that signed the server's certificate, 0: one that verifies nowhere
  pool,      \* what each pool trusts, whether end() was called, and does it hold an established connection
  current,   \* this.pool
  fp,        \* this.poolFingerprint
  op,        \* the pool each operation runs on
  probing,   \* the pool of the shared probe, if one runs
  ready,     \* lastReady, or "unknown"
  fresh      \* the result is younger than READY_CACHE_MS

outside == <<file, latest, server>>
store == <<pool, current, fp>>
poolVars == <<outside, store, op, probing, ready, fresh>>

Unused == [ca |-> 0, state |-> "ended", conn |-> FALSE]
Pool   == [ca : 0..MaxCa, state : {"open", "ended"}, conn : BOOLEAN]

PoolTypeOK ==
  /\ file \in 0..MaxCa /\ latest \in 1..MaxCa /\ server \in 0..MaxCa
  /\ pool \in [Pools -> Pool]
  /\ current \in Pools \cup {None} /\ fp \in 0..MaxCa
  /\ op \in [Ops -> Pools \cup {None}]
  /\ probing \in Pools \cup {None}
  /\ ready \in {"unknown", "ok", "unavailable"} /\ fresh \in BOOLEAN

PoolInit ==
  /\ file = 1 /\ latest = 1 /\ server = 1
  /\ pool = [p \in Pools |-> Unused] /\ current = None /\ fp = 0
  /\ op = [o \in Ops |-> None] /\ probing = None
  /\ ready = "unknown" /\ fresh = FALSE

-------------------------------------------------------------------------------
(* getPool, discardPool *)

InUse == {op[o] : o \in Ops} \cup {probing, current}

(* The names of pools that neither the store nor a call refers to any more   *)
(* are taken back.                                                           *)
Settled(after) == [p \in Pools |-> IF p \in InUse' THEN after[p] ELSE Unused]

(* Mutant: the reference is dropped, the pool never ended. *)
BadDiscardPool == current' = None /\ UNCHANGED <<pool, fp>>

(* end() of the store's pool: the queries that run on it finish. *)
Ended == IF current = None THEN pool ELSE [pool EXCEPT ![current].state = "ended"]

(* The store forgets the pool it has now, whatever pool the caller used.     *)
DiscardPool ==
  /\ current' = None
  /\ pool' = Settled(Ended)
  /\ UNCHANGED fp

(* getPool reads the file twice: trustFingerprint() first, then the CA that  *)
(* poolSource hands to the new pool.                                         *)
Reads(first, second) == [fp |-> first, ca |-> second]

(* createPgPool throws when the CA is missing or empty. *)
Buildable(ca) == ca # 0

(* getPool finds the pool p, or p = None when poolSource throws because the  *)
(* file is missing.  The kubelet may replace the file by f2 between the two  *)
(* reads.                                                                    *)
GetPool(p, f2) ==
  LET read  == Reads(file, f2)
      keeps == current # None /\ read.fp = fp
  IN /\ file' = f2 /\ latest' = IF f2 > latest THEN f2 ELSE latest
     /\ UNCHANGED server
     /\ \/ keeps /\ p = current /\ UNCHANGED store
        \/ /\ ~keeps /\ Buildable(read.ca)
           /\ p = CHOOSE q \in Pools : q \notin InUse
           /\ current' = p /\ fp' = read.fp
           /\ pool' = Settled([Ended EXCEPT ![p] = [ca |-> read.ca, state |-> "open", conn |-> FALSE]])
        \/ /\ ~keeps /\ ~Buildable(read.ca)
           /\ p = None
           /\ DiscardPool

(* What the kubelet may make of the file while getPool runs. *)
Replacements == {file, 0, latest} \cup ((latest + 1)..MaxCa)

-------------------------------------------------------------------------------
(* run *)

Start(o) ==
  /\ op[o] = None
  /\ UNCHANGED <<probing, ready, fresh>>
  /\ \E p \in Pools \cup {None}, f2 \in Replacements :
       op' = [op EXCEPT ![o] = p] /\ GetPool(p, f2)

(* A new connection of pool p is refused by the verification. *)
Untrusted(p) == pool[p].ca # server

(* A query on p answers, over an established connection or over a new one    *)
(* that verifies; an open pool keeps the connection (the driver ends it      *)
(* after 30 s without a query, and at no age).                               *)
Answers(p) ==
  /\ pool[p].conn \/ ~Untrusted(p)
  /\ UNCHANGED <<current, fp>>
  /\ pool' = Settled([pool EXCEPT ![p].conn = pool[p].conn \/ pool[p].state = "open"])

(* A query fails for a reason that leaves the pool alone. *)
Fails == UNCHANGED <<current, fp>> /\ pool' = Settled(pool)

(* The established connection of the open pool ends: idle for too long, or   *)
(* closed by the server.  An ended pool has only those that queries hold.    *)
ConnectionEnds ==
  /\ current # None /\ pool[current].conn
  /\ pool' = [pool EXCEPT ![current].conn = FALSE]
  /\ UNCHANGED <<outside, current, fp, op, probing, ready, fresh>>

(* The query answers, fails, or its new connection does not verify. *)
Finish(o) ==
  /\ op[o] # None
  /\ op' = [op EXCEPT ![o] = None]
  /\ UNCHANGED <<outside, probing, ready, fresh>>
  /\ Answers(op[o]) \/ Fails \/ (Untrusted(op[o]) /\ DiscardPool)

-------------------------------------------------------------------------------
(* ready, status *)

Report(r) == ready' = r /\ fresh' = TRUE

(* Mutant: a result, once known, is good for ever. *)
BadProbe ==
  /\ probing = None /\ ready = "unknown"
  /\ UNCHANGED op
  /\ \E p \in Pools \cup {None}, f2 \in Replacements :
       /\ probing' = p
       /\ GetPool(p, f2)
       /\ IF p = None THEN Report("unavailable") ELSE UNCHANGED <<ready, fresh>>

(* A probe starts unless the cached result is fresh or one is under way. *)
Probe ==
  /\ probing = None /\ ~fresh
  /\ UNCHANGED op
  /\ \E p \in Pools \cup {None}, f2 \in Replacements :
       /\ probing' = p
       /\ GetPool(p, f2)
       /\ IF p = None THEN Report("unavailable") ELSE UNCHANGED <<ready, fresh>>

ProbeEnds ==
  /\ probing # None
  /\ probing' = None
  /\ UNCHANGED <<outside, op>>
  /\ \/ Report("ok") /\ Answers(probing)
     \/ Report("unavailable") /\ (Fails \/ (Untrusted(probing) /\ DiscardPool))

CacheExpires ==
  /\ fresh /\ fresh' = FALSE
  /\ UNCHANGED <<outside, store, op, probing, ready>>

-------------------------------------------------------------------------------
(* The operator signs the server's certificate anew, lets it expire or      *)
(* repairs it; the kubelet updates, unmounts or remounts the file.          *)
Reissue ==
  /\ server' \in {0, latest} \ {server}
  /\ UNCHANGED <<file, latest, store, op, probing, ready, fresh>>

Remount ==
  /\ file' \in Replacements \ {file}
  /\ latest' = IF file' > latest THEN file' ELSE latest
  /\ UNCHANGED <<server, store, op, probing, ready, fresh>>

PoolNext ==
  \/ Probe \/ ProbeEnds \/ CacheExpires \/ ConnectionEnds \/ Reissue \/ Remount
  \/ \E o \in Ops : Start(o) \/ Finish(o)

PoolSpec == PoolInit /\ [][PoolNext]_poolVars

(* /health asks for the status again and again, and the timeouts of the      *)
(* driver end every probe; nothing is assumed of the operations.             *)
FairPoolSpec == PoolSpec /\ WF_poolVars(Probe) /\ WF_poolVars(ProbeEnds) /\ WF_poolVars(CacheExpires)

-------------------------------------------------------------------------------
(* Properties. *)

(* The store's pool is open, and every other pool was ended: replacing pools *)
(* from racing operations leaks no connections (POOL_MAX is per pool) and    *)
(* leaves no ended pool behind for the next query.                           *)
OnlyCurrentOpen == \A p \in Pools : pool[p].state = "open" <=> p = current

(* A pool that trusts another CA than the mounted one is noticed: its        *)
(* fingerprint differs, so the next call replaces it, however the kubelet's  *)
(* update fell between the stat and the read.                                *)
StaleIsNoticed == current # None /\ file \notin {0, pool[current].ca} => fp # file

(* Both, in every state. *)
PoolOrderly == OnlyCurrentOpen /\ StaleIsNoticed

(* The store never keeps serving from a pool that cannot verify the server:  *)
(* once file and server agree for good, so does the pool, also when          *)
(* operations on old pools fail late and take the new pool down with them.   *)
Agreed        == file # 0 /\ file = server
TrustRestored == <>[]Agreed => <>[](current # None /\ pool[current].ca = server)

(* A readiness of "ok" is not kept for good once the server no longer        *)
(* verifies and the connection that was established before has ended: until  *)
(* then the probes keep it alive (they are closer together than the 30 s     *)
(* after which the driver drops an idle one) and it goes on answering.       *)
Connected      == current # None /\ pool[current].conn
LossIsReported == <>[](server = 0) /\ []<>~Connected => <>[](ready # "ok")

-------------------------------------------------------------------------------
(* Proofs: PoolOrderly for any number of operations, pools and generations.  *)
(*                                                                           *)
(* OnlyCurrentOpen is inductive with the types.  StaleIsNoticed is not: it   *)
(* needs that a mounted file is of the latest generation, so that the file   *)
(* never goes back to a generation read before, and that getPool takes the   *)
(* fingerprint before the CA, so that it is never ahead of what it stands    *)
(* for (TrustInv).  With the two reads in the other order the last fails.    *)

Mounted == file \in {0, latest}

TrustInv == current # None => fp <= pool[current].ca /\ pool[current].ca <= latest

PoolInv == PoolTypeOK /\ OnlyCurrentOpen /\ Mounted /\ TrustInv

LEMMA PoolInvInit == ASSUME PoolAssumption, PoolInit PROVE PoolInv
<1>1. None \notin Pools /\ MaxCa \in Nat /\ MaxCa >= 1
  BY DEF PoolAssumption
<1>2. fresh \in BOOLEAN
  BY DEF PoolInit
<1> QED
  BY <1>1, <1>2 DEF PoolInit, PoolInv, PoolTypeOK, OnlyCurrentOpen, Mounted, TrustInv, Unused, Pool

(* The kubelet never brings an old generation back. *)
LEMMA Replaced ==
  ASSUME PoolAssumption, PoolInv, NEW f \in Replacements
  PROVE  LET l == IF f > latest THEN f ELSE latest
         IN f \in 0..MaxCa /\ l \in 1..MaxCa /\ f \in {0, l} /\ l >= latest /\ (f # 0 => f >= file)
  BY DEF PoolAssumption, PoolInv, PoolTypeOK, Mounted, Replacements

LEMMA AllEnded ==
  ASSUME PoolAssumption, PoolInv
  PROVE  /\ Ended \in [Pools -> Pool]
         /\ \A p \in Pools : Ended[p].state = "ended"
<1>1. pool \in [Pools -> Pool] /\ current \in Pools \cup {None} /\ None \notin Pools
  BY DEF PoolInv, PoolTypeOK, PoolAssumption
<1>2. \A p \in Pools \ {current} : pool[p].state = "ended"
  BY <1>1 DEF PoolInv, OnlyCurrentOpen, Pool
<1> QED
  BY <1>1, <1>2 DEF Ended, Pool

(* What an operation leaves of the store's own state. *)
StoreInv ==
  /\ pool \in [Pools -> Pool]
  /\ current \in Pools \cup {None} /\ fp \in 0..MaxCa
  /\ OnlyCurrentOpen /\ TrustInv

(* Taking names back leaves the pool in use as it is. *)
LEMMA SettledKeeps ==
  ASSUME PoolAssumption, NEW after \in [Pools -> Pool], pool' = Settled(after),
         current' \in Pools \cup {None}, fp' \in 0..MaxCa,
         \A p \in Pools : after[p].state = "open" <=> p = current',
         current' # None => fp' <= after[current'].ca /\ after[current'].ca <= latest'
  PROVE  StoreInv'
<1>1. Unused \in Pool /\ Unused.state = "ended"
  BY DEF Unused, Pool, PoolAssumption
<1>2. pool' \in [Pools -> Pool]
  BY <1>1 DEF Settled
<1>3. current' # None => pool'[current'] = after[current']
  BY DEF Settled, InUse
<1>4. \A p \in Pools : pool'[p] \in {after[p], Unused}
  BY DEF Settled
<1>5. OnlyCurrentOpen'
  BY <1>1, <1>3, <1>4 DEF OnlyCurrentOpen, PoolAssumption
<1> QED
  BY <1>2, <1>3, <1>5 DEF StoreInv, TrustInv

LEMMA DiscardKeeps == ASSUME PoolAssumption, PoolInv, DiscardPool PROVE StoreInv'
<1>1. current' = None /\ fp' = fp /\ pool' = Settled(Ended)
  BY DEF DiscardPool
<1>2. /\ Ended \in [Pools -> Pool] /\ \A p \in Pools : Ended[p].state = "ended"
      /\ fp' \in 0..MaxCa /\ None \notin Pools
  BY <1>1, AllEnded DEF PoolInv, PoolTypeOK, PoolAssumption
<1> HIDE DEF Ended
<1> QED
  BY <1>1, <1>2, SettledKeeps

LEMMA StoreStays ==
  ASSUME PoolAssumption, PoolInv, UNCHANGED store, latest' \in Nat, latest' >= latest PROVE StoreInv'
<1>1. PoolTypeOK /\ OnlyCurrentOpen /\ TrustInv /\ pool' = pool /\ current' = current /\ fp' = fp
  BY DEF PoolInv, store
<1>2. current # None => pool[current].ca \in Nat
  BY <1>1 DEF PoolTypeOK, Pool
<1> QED
  BY <1>1, <1>2 DEF PoolTypeOK, StoreInv, OnlyCurrentOpen, TrustInv

(* A connection is kept or ends: nothing that the invariant speaks of. *)
LEMMA ConnKeeps ==
  ASSUME PoolAssumption, PoolInv, NEW p \in Pools, NEW b \in BOOLEAN,
         pool' = [pool EXCEPT ![p].conn = b], UNCHANGED <<current, fp, latest>>
  PROVE  StoreInv'
<1>1. PoolTypeOK /\ OnlyCurrentOpen /\ TrustInv /\ None \notin Pools
  BY DEF PoolInv, PoolAssumption
<1>2. pool' \in [Pools -> Pool] /\ \A q \in Pools : pool'[q].state = pool[q].state /\ pool'[q].ca = pool[q].ca
  BY <1>1 DEF PoolTypeOK, Pool
<1> QED
  BY <1>1, <1>2 DEF PoolTypeOK, StoreInv, OnlyCurrentOpen, TrustInv

(* Nor does a query that answers or fails touch it. *)
LEMMA QueryKeeps ==
  ASSUME PoolAssumption, PoolInv, NEW p \in Pools, Answers(p) \/ Fails, latest' = latest
  PROVE  StoreInv'
<1>1. PoolTypeOK /\ OnlyCurrentOpen /\ TrustInv /\ None \notin Pools /\ current' = current /\ fp' = fp
  BY DEF PoolInv, PoolAssumption, Answers, Fails
<1>2. PICK b \in BOOLEAN : pool' = Settled([pool EXCEPT ![p].conn = b])
  <2>1. CASE Answers(p)
    <3>1. PICK b \in BOOLEAN : b = (pool[p].conn \/ pool[p].state = "open")
      BY Zenon
    <3>2. pool' = Settled([pool EXCEPT ![p].conn = b])
      BY <2>1, <3>1, Zenon DEF Answers
    <3> QED
      BY <3>2
  <2>2. CASE Fails
    <3>1. pool[p].conn \in BOOLEAN /\ pool = [pool EXCEPT ![p].conn = pool[p].conn]
      BY <1>1 DEF PoolTypeOK, Pool
    <3>2. pool' = Settled(pool)
      BY <2>2 DEF Fails
    <3>3. PICK b \in BOOLEAN : b = pool[p].conn
      BY <3>1
    <3>4. pool = [pool EXCEPT ![p].conn = b]
      BY <3>1, <3>3
    <3> QED
      BY <3>2, <3>4
  <2> QED
    BY <2>1, <2>2
<1>3. PICK after : after = [pool EXCEPT ![p].conn = b]
  OBVIOUS
<1>4. /\ after \in [Pools -> Pool]
      /\ \A q \in Pools : after[q].state = pool[q].state /\ after[q].ca = pool[q].ca
  BY <1>1, <1>3 DEF PoolTypeOK, Pool
<1> QED
  BY <1>1, <1>2, <1>3, <1>4, SettledKeeps DEF PoolTypeOK, OnlyCurrentOpen, TrustInv

LEMMA GetPoolKeeps ==
  ASSUME PoolAssumption, PoolInv, NEW p \in Pools \cup {None}, NEW f2 \in Replacements, GetPool(p, f2)
  PROVE  /\ StoreInv' /\ Mounted'
         /\ file' \in 0..MaxCa /\ latest' \in 1..MaxCa /\ server' = server
<1>1. /\ file' = f2 /\ f2 \in 0..MaxCa /\ latest' \in 1..MaxCa /\ Mounted' /\ server' = server
      /\ latest' >= latest /\ (f2 # 0 => f2 >= file /\ f2 <= latest')
  BY Replaced DEF GetPool, Mounted
<1>2. /\ Ended \in [Pools -> Pool]
      /\ \A q \in Pools : Ended[q].state = "ended"
  BY AllEnded
<1>3. CASE UNCHANGED store
  BY <1>1, <1>3, StoreStays DEF PoolInv, PoolTypeOK
<1>4. CASE /\ f2 # 0 /\ current' = p /\ fp' = file
           /\ pool' = Settled([Ended EXCEPT ![p] = [ca |-> f2, state |-> "open", conn |-> FALSE]])
  <2>1. file \in 0..MaxCa /\ None \notin Pools
    BY DEF PoolAssumption, PoolInv, PoolTypeOK
  <2>2. PICK new : new = [ca |-> f2, state |-> "open", conn |-> FALSE]
    OBVIOUS
  <2>3. new \in Pool /\ new.ca = f2 /\ new.state = "open"
    BY <1>1, <2>2 DEF Pool
  <2>4. PICK after : after = [Ended EXCEPT ![p] = new]
    OBVIOUS
  <2>5. after \in [Pools -> Pool] /\ \A q \in Pools : after[q] = IF q = p THEN new ELSE Ended[q]
    BY <1>2, <2>3, <2>4
  <2>6. \A q \in Pools : after[q].state = "open" <=> q = current'
    BY <1>2, <1>4, <2>3, <2>5
  <2>7. current' # None => fp' <= after[current'].ca /\ after[current'].ca <= latest'
    BY <1>1, <1>4, <2>1, <2>3, <2>5
  <2>8. pool' = Settled(after)
    BY <1>4, <2>2, <2>4
  <2>9. StoreInv'
    BY <1>4, <2>1, <2>5, <2>6, <2>7, <2>8, SettledKeeps
  <2> QED
    BY <1>1, <2>9
<1>5. CASE DiscardPool
  BY <1>1, <1>5, DiscardKeeps
<1>6. \/ UNCHANGED store
      \/ /\ f2 # 0 /\ current' = p /\ fp' = file
         /\ pool' = Settled([Ended EXCEPT ![p] = [ca |-> f2, state |-> "open", conn |-> FALSE]])
      \/ DiscardPool
  BY DEF GetPool, Buildable, Reads
<1> QED
  BY <1>1, <1>3, <1>4, <1>5, <1>6

LEMMA PoolInvStep == ASSUME PoolAssumption, PoolInv, [PoolNext]_poolVars PROVE PoolInv'
<1>0. PoolTypeOK /\ Mounted /\ TrustInv /\ OnlyCurrentOpen
  BY DEF PoolInv
<1>1. ASSUME NEW o \in Ops, Start(o) PROVE PoolInv'
  <2>1. PICK p \in Pools \cup {None}, f2 \in Replacements : GetPool(p, f2) /\ op' = [op EXCEPT ![o] = p]
    BY <1>1 DEF Start
  <2>2. op' \in [Ops -> Pools \cup {None}] /\ UNCHANGED <<probing, ready, fresh>>
    BY <1>0, <1>1, <2>1 DEF PoolTypeOK, Start
  <2> QED
    BY <1>0, <2>1, <2>2, GetPoolKeeps DEF PoolInv, PoolTypeOK, StoreInv
<1>2. CASE Probe
  <2>1. PICK p \in Pools \cup {None}, f2 \in Replacements :
          /\ GetPool(p, f2) /\ probing' = p
          /\ ready' \in {ready, "unavailable"} /\ fresh' \in {fresh, TRUE}
    BY <1>2 DEF Probe, Report
  <2> QED
    BY <1>0, <1>2, <2>1, GetPoolKeeps DEF PoolInv, PoolTypeOK, StoreInv, Probe
<1>3. ASSUME NEW o \in Ops, Finish(o) PROVE PoolInv'
  <2>1. op' \in [Ops -> Pools \cup {None}] /\ UNCHANGED <<outside, probing, ready, fresh>>
    BY <1>0, <1>3 DEF PoolTypeOK, Finish
  <2>3. op[o] \in Pools /\ latest' = latest /\ latest \in Nat
    BY <1>0, <1>3, <2>1 DEF Finish, PoolTypeOK, outside
  <2>2. StoreInv'
    BY <1>3, <2>3, QueryKeeps, DiscardKeeps, StoreStays DEF Finish
  <2> QED
    BY <1>0, <2>1, <2>2 DEF PoolInv, PoolTypeOK, StoreInv, Mounted, outside
<1>4. CASE ProbeEnds
  <2>1. /\ probing' = None /\ ready' \in {"ok", "unavailable"} /\ fresh' = TRUE
        /\ UNCHANGED <<outside, op>> /\ (Answers(probing) \/ Fails \/ DiscardPool)
    BY <1>4 DEF ProbeEnds, Report
  <2>3. probing \in Pools /\ latest' = latest /\ latest \in Nat
    BY <1>0, <1>4, <2>1 DEF ProbeEnds, PoolTypeOK, outside
  <2>2. StoreInv'
    BY <2>1, <2>3, QueryKeeps, DiscardKeeps, StoreStays
  <2> QED
    BY <1>0, <2>1, <2>2 DEF PoolInv, PoolTypeOK, StoreInv, Mounted, outside
<1>5. CASE CacheExpires \/ Reissue \/ UNCHANGED poolVars
  <2>1. /\ file' = file /\ latest' = latest /\ server' \in {server, 0, latest}
        /\ UNCHANGED <<store, op, probing, ready>>
    BY <1>5 DEF CacheExpires, Reissue, poolVars, outside
  <2>2. StoreInv'
    BY <1>0, <2>1, StoreStays DEF PoolTypeOK
  <2>3. fresh' \in BOOLEAN
    BY <1>0, <1>5 DEF CacheExpires, Reissue, poolVars, PoolTypeOK
  <2>4. server' \in 0..MaxCa
    BY <1>0, <2>1 DEF PoolTypeOK, PoolAssumption
  <2> QED
    BY <1>0, <2>1, <2>2, <2>3, <2>4 DEF PoolInv, PoolTypeOK, StoreInv, Mounted
<1>6. CASE Remount
  <2>1. PICK f \in Replacements : file' = f /\ latest' = IF f > latest THEN f ELSE latest
    BY <1>6 DEF Remount
  <2>2. /\ file' \in 0..MaxCa /\ latest' \in 1..MaxCa /\ Mounted' /\ latest' >= latest
        /\ UNCHANGED <<server, store, op, probing, ready, fresh>>
    BY <1>6, <2>1, Replaced DEF Remount, Mounted
  <2>3. StoreInv'
    BY <2>2, StoreStays
  <2> QED
    BY <1>0, <2>2, <2>3 DEF PoolInv, PoolTypeOK, StoreInv
<1>7. CASE ConnectionEnds
  <2>1. PICK p \in Pools : pool' = [pool EXCEPT ![p].conn = FALSE]
    BY <1>0, <1>7 DEF ConnectionEnds, PoolTypeOK
  <2>2. UNCHANGED <<outside, current, fp, op, probing, ready, fresh>>
    BY <1>7 DEF ConnectionEnds
  <2>3. StoreInv'
    BY <2>1, <2>2, ConnKeeps DEF outside
  <2> QED
    BY <1>0, <2>2, <2>3 DEF PoolInv, PoolTypeOK, StoreInv, Mounted, outside
<1> QED
  BY <1>1, <1>2, <1>3, <1>4, <1>5, <1>6, <1>7 DEF PoolNext

(* However operations, probes, rotations of the CA and verification failures *)
(* fall together, exactly the store's own pool is open, and a pool that      *)
(* trusts another CA than the mounted one is noticed (ssoChangeStore.ts).    *)
THEOREM PoolOrderlyAlways == ASSUME PoolAssumption PROVE PoolSpec => []PoolOrderly
<1>1. PoolInit => PoolInv
  BY PoolInvInit
<1>2. PoolInv /\ [PoolNext]_poolVars => PoolInv'
  BY PoolInvStep
<1>3. PoolInv => PoolOrderly
  <2> SUFFICES ASSUME PoolInv, current # None, file # 0, fp = file PROVE file = pool[current].ca
    BY DEF PoolInv, PoolOrderly, StaleIsNoticed
  <2>1. pool[current].ca \in Nat /\ file \in Nat /\ latest \in Nat
    BY DEF PoolInv, PoolTypeOK, Pool, PoolAssumption
  <2> QED
    BY <2>1 DEF PoolInv, Mounted, TrustInv
<1> QED
  BY <1>1, <1>2, <1>3, PTL DEF PoolSpec
===============================================================================
