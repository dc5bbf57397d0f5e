---------------------------- MODULE IsolatedProvider ----------------------------
(***************************************************************************)
(* isolateProvider (isolatedProvider.ts): a bulkhead around a decision     *)
(* provider that may answer late, never, with an error or with something   *)
(* that is no decision.  The caller is freed by a timer; the slot is not:  *)
(* a run of the provider holds it until it settles.  The wrapped provider  *)
(* is the rule provider (ruleProvider.ts) or any other.                    *)
(***************************************************************************)
EXTENDS Integers, FiniteSets, FiniteSetTheorems, TLAPS

CONSTANTS
  Callers,            \* concurrent users of the wrapper
  MaxConcurrentRuns,  \* options.maxConcurrent
  Required,           \* requiredSignals of the rule provider
  Optional,           \* other signals a snapshot may hold
  MaxAge,             \* freshnessPolicy.maxAgeMs
  Runs,               \* names for runs of the provider that are under way
  MaxClock            \* bound: readings of Date.now()

\* Assumed of the constants; the module that instantiates this one states it.
ProviderAssumption ==
  /\ IsFiniteSet(Callers) /\ IsFiniteSet(Runs) /\ Cardinality(Runs) >= MaxConcurrentRuns
  /\ MaxConcurrentRuns \in Nat \ {0}      \* checked by isolateProvider (RangeError)
  /\ MaxAge \in Nat /\ MaxClock \in Nat

VARIABLES
  wall,         \* Date.now(), which an operator or NTP may set back
  activeCalls,
  running,      \* what the provider returns for each run under way
  decision,     \* each caller: the run it waits for, and when it called
  answer        \* what each caller got

providerVars == <<wall, activeCalls, running, decision, answer>>

AbstainCodes == {"NO_TELEMETRY", "MISSING_REQUIRED_SIGNAL", "STALE_TELEMETRY",
                 "ISOLATION_TIMEOUT", "ISOLATION_PROVIDER_ERROR",
                 "ISOLATION_INVALID_SHAPE", "ISOLATION_OVERLOADED"}
Decisions    == {"NORMAL", "OTHER"} \cup AbstainCodes    \* values that pass decisionResultSchema
Returned     == Decisions \cup {"malformed", "error"}
Idle         == [at |-> "idle", run |-> CHOOSE r \in Runs : TRUE, startedAt |-> 0]

ProviderTypeOK ==
  /\ wall \in 0..MaxClock /\ activeCalls \in 0..Cardinality(Runs)
  /\ running \in [Runs -> Returned \cup {"free"}]
  /\ decision \in [Callers -> [at : {"idle", "racing"}, run : Runs, startedAt : 0..MaxClock]]
  /\ answer \in [Callers -> Decisions \cup {"none", "thrown"}]

ProviderInit ==
  /\ wall = 0 /\ activeCalls = 0
  /\ running = [r \in Runs |-> "free"]
  /\ decision = [c \in Callers |-> Idle]
  /\ answer = [c \in Callers |-> "none"]

-------------------------------------------------------------------------------
(* The rule provider.  A snapshot gives the age of each signal it holds. *)

TelemetrySnapshots == UNION {[S -> 0..(MaxAge + 1)] : S \in SUBSET (Required \cup Optional)}

RuleDecide(ages) ==
  IF DOMAIN ages = {} THEN "NO_TELEMETRY"
  ELSE IF ~(Required \subseteq DOMAIN ages) THEN "MISSING_REQUIRED_SIGNAL"
  ELSE IF \E s \in DOMAIN ages : ages[s] > MaxAge THEN "STALE_TELEMETRY"
  ELSE "NORMAL"

(* What the wrapped provider makes of a call: a decision of the rules, or    *)
(* whatever another provider returns.                                        *)
Outcomes == {RuleDecide(ages) : ages \in TelemetrySnapshots} \cup {"OTHER", "malformed", "error"}

-------------------------------------------------------------------------------
(* The wrapper. *)

(* isolationAbstain parses what it built: latencyMs = Date.now() - startedAt *)
(* must not be negative.                                                     *)
IsolationAbstain(code, startedAt) == IF wall >= startedAt THEN code ELSE "thrown"

Answers(c, a) ==
  /\ answer' = [answer EXCEPT ![c] = a]
  /\ decision' = [decision EXCEPT ![c] = Idle]

Overloaded(c) ==
  /\ decision[c] = Idle /\ activeCalls >= MaxConcurrentRuns
  /\ answer' = [answer EXCEPT ![c] = "ISOLATION_OVERLOADED"]
  /\ UNCHANGED <<wall, activeCalls, running, decision>>

Decide(c) ==
  /\ decision[c] = Idle /\ activeCalls < MaxConcurrentRuns
  /\ activeCalls' = activeCalls + 1
  /\ \E o \in Outcomes :
       LET r == CHOOSE s \in Runs : running[s] = "free" IN
       /\ running' = [running EXCEPT ![r] = o]
       /\ decision' = [decision EXCEPT ![c] = [at |-> "racing", run |-> r, startedAt |-> wall]]
  /\ answer' = [answer EXCEPT ![c] = "none"]
  /\ UNCHANGED wall

(* What the caller makes of an outcome that won the race. *)
Judge(o, startedAt) ==
  IF o = "error" THEN IsolationAbstain("ISOLATION_PROVIDER_ERROR", startedAt)
  ELSE IF o = "malformed" THEN IsolationAbstain("ISOLATION_INVALID_SHAPE", startedAt)
  ELSE o

(* Mutant: a provider that fails keeps its slot. *)
BadSettles(r) ==
  /\ running[r] # "free"
  /\ running' = [running EXCEPT ![r] = "free"]
  /\ activeCalls' = IF running[r] = "error" THEN activeCalls ELSE activeCalls - 1
  /\ LET waiting == {c \in Callers : decision[c].at = "racing" /\ decision[c].run = r} IN
     \/ \E c \in waiting : Answers(c, Judge(running[r], decision[c].startedAt))
     \/ waiting = {} /\ UNCHANGED <<decision, answer>>
  /\ UNCHANGED wall

(* Mutant: the outcome is delivered although the caller gave up. *)
LateSettles(r) ==
  /\ running[r] # "free"
  /\ running' = [running EXCEPT ![r] = "free"]
  /\ activeCalls' = activeCalls - 1
  /\ \E c \in Callers : decision[c].run = r /\ Answers(c, Judge(running[r], decision[c].startedAt))
  /\ UNCHANGED wall

(* A run settles, in time or not: the slot is free again, and the caller,    *)
(* if it still waits, gets the outcome.                                      *)
Settles(r) ==
  /\ running[r] # "free"
  /\ running' = [running EXCEPT ![r] = "free"]
  /\ activeCalls' = activeCalls - 1
  /\ LET waiting == {c \in Callers : decision[c].at = "racing" /\ decision[c].run = r} IN
     \/ \E c \in waiting : Answers(c, Judge(running[r], decision[c].startedAt))
     \/ waiting = {} /\ UNCHANGED <<decision, answer>>
  /\ UNCHANGED wall

(* Mutant: the budget is only looked at when the provider settles. *)
LateTimer(c) ==
  /\ decision[c].at = "racing" /\ running[decision[c].run] = "free"
  /\ Answers(c, IsolationAbstain("ISOLATION_TIMEOUT", decision[c].startedAt))
  /\ UNCHANGED <<wall, activeCalls, running>>

(* The budget is over: the caller is freed, the run goes on. *)
Timer(c) ==
  /\ decision[c].at = "racing"
  /\ Answers(c, IsolationAbstain("ISOLATION_TIMEOUT", decision[c].startedAt))
  /\ UNCHANGED <<wall, activeCalls, running>>

ClockMoves ==
  /\ wall' \in 0..MaxClock \ {wall}
  /\ UNCHANGED <<activeCalls, running, decision, answer>>

ProviderNext ==
  \/ ClockMoves
  \/ \E c \in Callers : Overloaded(c) \/ Decide(c) \/ Timer(c)
  \/ \E r \in Runs : Settles(r)

ProviderSpec == ProviderInit /\ [][ProviderNext]_providerVars

(* Timers fire; a provider need not settle. *)
FairProviderSpec == ProviderSpec /\ \A c \in Callers : WF_providerVars(Timer(c))

-------------------------------------------------------------------------------
(* Properties. *)

Busy == {r \in Runs : running[r] # "free"}

(* activeCalls counts the runs under way, the ones nobody waits for          *)
(* included: a broken provider is never run more than MaxConcurrentRuns      *)
(* times at once, and a slot is not lost when a run fails after its caller   *)
(* left.                                                                     *)
BulkheadExact == activeCalls = Cardinality(Busy) /\ activeCalls <= MaxConcurrentRuns

(* An outcome that comes after the timer changes nothing: what a caller got  *)
(* stays until that caller calls again.                                      *)
LateIsDroppedStep ==
  \A c \in Callers : decision[c] = Idle /\ decision'[c] = Idle /\ answer'[c] # answer[c] =>
                      answer'[c] = "ISOLATION_OVERLOADED"
LateIsDropped == [][LateIsDroppedStep]_providerVars

(* Both. *)
BulkheadHolds == []BulkheadExact /\ LateIsDropped

(* Every caller is answered, also when the provider never settles.           *)
AllDecided == \A c \in Callers : decision[c].at = "racing" ~> decision[c].at = "idle"

(* What the comment on isolateProvider says: the wrapper never throws.       *)
NeverThrows == \A c \in Callers : answer[c] # "thrown"

-------------------------------------------------------------------------------
(* Proofs: BulkheadHolds for any number of callers, slots and runs.          *)
(*                                                                           *)
(* BulkheadExact is inductive with the types: a run that starts takes a free *)
(* name, and there is one because fewer than MaxConcurrentRuns are busy.     *)

ProviderInv == ProviderTypeOK /\ BulkheadExact

LEMMA BusyFinite ==
  ASSUME ProviderAssumption
  PROVE  IsFiniteSet(Busy) /\ Cardinality(Busy) \in Nat /\ Cardinality(Busy) <= Cardinality(Runs)
         /\ (Cardinality(Busy) = Cardinality(Runs) => Busy = Runs) /\ Cardinality(Runs) \in Nat
<1>1. Busy \in SUBSET Runs /\ IsFiniteSet(Runs)
  BY DEF Busy, ProviderAssumption
<1> QED
  BY <1>1, FS_Subset, FS_CardinalityType

LEMMA IdleTyped == Runs # {} => Idle \in [at : {"idle", "racing"}, run : Runs, startedAt : {0}]
  BY DEF Idle

(* There is a name for a run. *)
LEMMA SomeRun == ASSUME ProviderAssumption PROVE Runs # {}
<1>1. Cardinality(Runs) \in Nat /\ Cardinality(Runs) >= 1
  BY FS_CardinalityType DEF ProviderAssumption
<1> QED
  BY <1>1, FS_EmptySet

LEMMA ProviderInvInit == ASSUME ProviderAssumption, ProviderInit PROVE ProviderInv
<1>1. Busy = {}
  BY DEF ProviderInit, Busy
<1>2. activeCalls = 0 /\ Cardinality(Busy) = 0 /\ MaxConcurrentRuns \in Nat /\ MaxClock \in Nat
  BY <1>1, FS_EmptySet DEF ProviderInit, ProviderAssumption
<1>3. Idle \in [at : {"idle", "racing"}, run : Runs, startedAt : 0..MaxClock]
  BY <1>2, IdleTyped, SomeRun
<1> QED
  BY <1>2, <1>3, BusyFinite DEF ProviderInit, ProviderInv, ProviderTypeOK, BulkheadExact

(* An answer is a decision, an abstention or, with a clock set back, a throw. *)
LEMMA AnswerTyped ==
  ASSUME NEW o \in Returned, NEW t
  PROVE  Judge(o, t) \in Decisions \cup {"thrown"}
         /\ IsolationAbstain("ISOLATION_TIMEOUT", t) \in Decisions \cup {"thrown"}
  BY DEF Judge, IsolationAbstain, Decisions, AbstainCodes, Returned

LEMMA AnswersTyped ==
  ASSUME ProviderAssumption, ProviderTypeOK, NEW c \in Callers, NEW x \in Decisions \cup {"thrown"}, Answers(c, x)
  PROVE  /\ decision' \in [Callers -> [at : {"idle", "racing"}, run : Runs, startedAt : 0..MaxClock]]
         /\ answer' \in [Callers -> Decisions \cup {"none", "thrown"}]
<1>1. Idle \in [at : {"idle", "racing"}, run : Runs, startedAt : 0..MaxClock]
  BY IdleTyped, SomeRun DEF ProviderAssumption
<1> QED
  BY <1>1 DEF Answers, ProviderTypeOK

LEMMA OutcomesTyped == Outcomes \subseteq Returned
  BY DEF Outcomes, RuleDecide, Returned, Decisions, AbstainCodes

(* The slots count the busy runs. *)
LEMMA DecideExact ==
  ASSUME ProviderAssumption, ProviderInv, NEW c \in Callers, Decide(c) PROVE ProviderInv'
<1>0. ProviderTypeOK /\ BulkheadExact
  BY DEF ProviderInv
<1> DEFINE r == CHOOSE s \in Runs : running[s] = "free"
<1>1. r \in Runs /\ running[r] = "free"
  <2>1. activeCalls < MaxConcurrentRuns /\ activeCalls = Cardinality(Busy) /\ Cardinality(Runs) >= MaxConcurrentRuns
        /\ MaxConcurrentRuns \in Nat
    BY <1>0 DEF Decide, BulkheadExact, ProviderAssumption
  <2>2. Busy # Runs
    BY <2>1, BusyFinite
  <2>3. \E s \in Runs : running[s] = "free"
    BY <2>2 DEF Busy
  <2> QED
    BY <2>3
<1> HIDE DEF r
<1>2. PICK o \in Outcomes :
        /\ running' = [running EXCEPT ![r] = o]
        /\ decision' = [decision EXCEPT ![c] = [at |-> "racing", run |-> r, startedAt |-> wall]]
  BY DEF Decide, r
<1>3. o \in Returned /\ o # "free"
  BY OutcomesTyped DEF Returned, Decisions, AbstainCodes
<1>4. Busy' = Busy \cup {r} /\ r \notin Busy
  BY <1>0, <1>1, <1>2, <1>3 DEF Busy, ProviderTypeOK
<1>5. Cardinality(Busy') = Cardinality(Busy) + 1
  BY <1>4, BusyFinite, FS_AddElement
<1>6. BulkheadExact'
  BY <1>0, <1>5, BusyFinite DEF BulkheadExact, Decide, ProviderAssumption
<1>7. activeCalls' \in 0..Cardinality(Runs)
  <2>1. activeCalls < MaxConcurrentRuns /\ activeCalls' = activeCalls + 1
    BY DEF Decide
  <2>2. activeCalls \in Nat /\ MaxConcurrentRuns \in Nat /\ Cardinality(Runs) >= MaxConcurrentRuns
        /\ Cardinality(Runs) \in Nat
    BY <1>0, BusyFinite, FS_CardinalityType DEF ProviderTypeOK, ProviderAssumption
  <2> QED
    BY <2>1, <2>2
<1> QED
  BY <1>0, <1>1, <1>2, <1>3, <1>6, <1>7 DEF ProviderInv, ProviderTypeOK, Decide

LEMMA SettlesExact ==
  ASSUME ProviderAssumption, ProviderInv, NEW r \in Runs, Settles(r) PROVE ProviderInv'
<1>0. ProviderTypeOK /\ BulkheadExact
  BY DEF ProviderInv
<1>1. running[r] # "free" /\ running' = [running EXCEPT ![r] = "free"] /\ activeCalls' = activeCalls - 1
  BY DEF Settles
<1>2. Busy' = Busy \ {r} /\ r \in Busy
  BY <1>0, <1>1 DEF Busy, ProviderTypeOK
<1>3. Cardinality(Busy') = Cardinality(Busy) - 1
  BY <1>2, BusyFinite, FS_RemoveElement
<1>4. Busy # {}
  BY <1>2
<1>5. Cardinality(Busy) # 0
  BY <1>4, BusyFinite, FS_EmptySet
<1>6. BulkheadExact'
  BY <1>0, <1>1, <1>3, BusyFinite DEF BulkheadExact, ProviderAssumption
<1>7. activeCalls' \in 0..Cardinality(Runs)
  BY <1>0, <1>1, <1>5, BusyFinite DEF BulkheadExact, ProviderAssumption
<1>8. running[r] \in Returned
  BY <1>0, <1>1 DEF ProviderTypeOK
<1>9. /\ decision' \in [Callers -> [at : {"idle", "racing"}, run : Runs, startedAt : 0..MaxClock]]
      /\ answer' \in [Callers -> Decisions \cup {"none", "thrown"}]
  <2>1. CASE UNCHANGED <<decision, answer>>
    BY <1>0, <2>1 DEF ProviderTypeOK
  <2>2. ASSUME NEW c \in Callers, Answers(c, Judge(running[r], decision[c].startedAt))
        PROVE  /\ decision' \in [Callers -> [at : {"idle", "racing"}, run : Runs, startedAt : 0..MaxClock]]
               /\ answer' \in [Callers -> Decisions \cup {"none", "thrown"}]
    BY <1>0, <1>8, <2>2, AnswerTyped, AnswersTyped
  <2> QED
    BY <2>1, <2>2 DEF Settles
<1> QED
  BY <1>0, <1>1, <1>6, <1>7, <1>9 DEF ProviderInv, ProviderTypeOK, Settles

LEMMA ProviderInvStep == ASSUME ProviderAssumption, ProviderInv, [ProviderNext]_providerVars PROVE ProviderInv'
<1>0. ProviderTypeOK /\ BulkheadExact
  BY DEF ProviderInv
<1>1. ASSUME UNCHANGED <<activeCalls, running>> PROVE BulkheadExact'
  BY <1>0, <1>1 DEF BulkheadExact, Busy
<1>2. CASE ClockMoves \/ UNCHANGED providerVars
  BY <1>0, <1>1, <1>2 DEF ProviderInv, ProviderTypeOK, ClockMoves, providerVars
<1>3. ASSUME NEW c \in Callers, Overloaded(c) PROVE ProviderInv'
  BY <1>0, <1>1, <1>3 DEF ProviderInv, ProviderTypeOK, Overloaded, Decisions, AbstainCodes
<1>4. ASSUME NEW c \in Callers, Timer(c) PROVE ProviderInv'
  <2>1. PICK x \in Decisions \cup {"thrown"} : Answers(c, x)
    BY <1>4 DEF Timer, IsolationAbstain, Decisions, AbstainCodes
  <2> QED
    BY <1>0, <1>1, <1>4, <2>1, AnswersTyped DEF ProviderInv, ProviderTypeOK, Timer
<1> QED
  BY <1>2, <1>3, <1>4, DecideExact, SettlesExact DEF ProviderNext

(* Only a call of its own changes what an idle caller was told. *)
LEMMA LateStep == ASSUME ProviderTypeOK, [ProviderNext]_providerVars PROVE [LateIsDroppedStep]_providerVars
<1> SUFFICES ASSUME NEW c \in Callers, decision[c] = Idle, decision'[c] = Idle, answer'[c] # answer[c]
             PROVE  answer'[c] = "ISOLATION_OVERLOADED"
  BY DEF LateIsDroppedStep
<1>1. decision[c].at = "idle" /\ DOMAIN answer = Callers /\ DOMAIN decision = Callers
  BY DEF Idle, ProviderTypeOK
<1>2. ASSUME NEW d \in Callers, NEW x, Answers(d, x) PROVE d = c
  BY <1>1, <1>2 DEF Answers, ProviderTypeOK
<1>3. ASSUME NEW d \in Callers, Overloaded(d) PROVE answer'[c] = "ISOLATION_OVERLOADED"
  BY <1>1, <1>3 DEF Overloaded, ProviderTypeOK
<1>4. ASSUME NEW d \in Callers, Decide(d) PROVE FALSE
  <2>1. d = c
    BY <1>1, <1>4 DEF Decide, ProviderTypeOK
  <2>2. decision'[c].at = "racing"
    BY <1>1, <1>4, <2>1 DEF Decide, ProviderTypeOK
  <2> QED
    BY <2>2 DEF Idle
<1>5. ASSUME NEW d \in Callers, Timer(d) PROVE FALSE
  BY <1>1, <1>2, <1>5 DEF Timer
<1>6. ASSUME NEW r \in Runs, Settles(r) PROVE FALSE
  BY <1>1, <1>2, <1>6 DEF Settles
<1>7. CASE ClockMoves \/ UNCHANGED providerVars
  BY <1>7 DEF ClockMoves, providerVars
<1> QED
  BY <1>3, <1>4, <1>5, <1>6, <1>7 DEF ProviderNext

(* The bulkhead counts the runs of the provider, those nobody waits for      *)
(* included, never runs more than MaxConcurrentRuns of them, and drops what comes *)
(* after the timer, for any number of callers (isolatedProvider.ts).         *)
THEOREM BulkheadHoldsAlways == ASSUME ProviderAssumption PROVE ProviderSpec => BulkheadHolds
<1>1. ProviderInit => ProviderInv
  BY ProviderInvInit
<1>2. ProviderInv /\ [ProviderNext]_providerVars => ProviderInv'
  BY ProviderInvStep
<1>3. ProviderInv => BulkheadExact
  BY DEF ProviderInv
<1>4. ProviderInv /\ [ProviderNext]_providerVars => [LateIsDroppedStep]_providerVars
  BY LateStep DEF ProviderInv
<1> QED
  BY <1>1, <1>2, <1>3, <1>4, PTL DEF ProviderSpec, BulkheadHolds, LateIsDropped
===============================================================================
