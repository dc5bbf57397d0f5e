-------------------------- MODULE UpstreamHttpClient --------------------------
(***************************************************************************)
(* The concurrency limiter of UpstreamHttpClient (httpClient.ts): at most  *)
(* MaxConcurrent requests at an upstream, at most MaxQueued callers in     *)
(* line behind them, the rest shed.  A call of getJson is followed through *)
(* its awaits: token, slot, response head, body, and the cancelling of a   *)
(* body nobody will read.  The upstream may stall in each; what ends a     *)
(* call then is a timer of the client.                                     *)
(***************************************************************************)
EXTENDS Integers, Sequences, FiniteSets

CONSTANTS
  Calls,            \* callers that use getJson, again and again
  MaxConcurrent,    \* options.maxConcurrent, at least 1
  MaxQueued,        \* options.maxQueued
  HasTokenProvider  \* whether the client sends a bearer token

ASSUME CallsAssumption == IsFiniteSet(Calls)
ASSUME LimitAssumption == MaxConcurrent \in Nat \ {0} /\ MaxQueued \in Nat
ASSUME TokenAssumption == HasTokenProvider \in BOOLEAN

VARIABLES
  call,      \* where each caller is
  inFlight,  \* slots taken
  waiters    \* callers in line, oldest first

vars == <<call, inFlight, waiters>>

Sending == {"fetching", "reading", "discarding"}   \* the callers that hold a slot
Phases  == {"idle", "token", "waiting"} \cup Sending

Holders == {c \in Calls : call[c] \in Sending}

TypeOK ==
  /\ call \in [Calls -> Phases]
  /\ inFlight \in Nat
  /\ waiters \in Seq(Calls)

Init ==
  /\ call = [c \in Calls |-> "idle"]
  /\ inFlight = 0
  /\ waiters = <<>>

-------------------------------------------------------------------------------
(* Entering. *)

(* An UpstreamError is thrown by a caller that holds no slot. *)
Fails(c) ==
  /\ call' = [call EXCEPT ![c] = "idle"]
  /\ UNCHANGED <<inFlight, waiters>>

TakesSlot(c) ==
  /\ inFlight < MaxConcurrent
  /\ inFlight' = inFlight + 1
  /\ call' = [call EXCEPT ![c] = "fetching"]
  /\ UNCHANGED waiters

Queues(c) ==
  /\ inFlight >= MaxConcurrent /\ Len(waiters) < MaxQueued
  /\ waiters' = Append(waiters, c)
  /\ call' = [call EXCEPT ![c] = "waiting"]
  /\ UNCHANGED inFlight

IsShed(c) ==
  /\ inFlight >= MaxConcurrent /\ Len(waiters) >= MaxQueued
  /\ Fails(c)

Acquire(c) == TakesSlot(c) \/ Queues(c) \/ IsShed(c)

(* An exhausted deadline or a path that normalisation changes ends the call *)
(* before anything else; the token, if there is one, is read before the     *)
(* slot is asked for.                                                       *)
GetJson(c) ==
  /\ call[c] = "idle"
  /\ \/ Fails(c)
     \/ /\ HasTokenProvider
        /\ call' = [call EXCEPT ![c] = "token"]
        /\ UNCHANGED <<inFlight, waiters>>
     \/ ~HasTokenProvider /\ Acquire(c)

TokenRead(c) ==
  /\ call[c] = "token"
  /\ Fails(c) \/ Acquire(c)

(* waiters.splice(i, 1) *)
Splice(s, i) == [j \in 1..(Len(s) - 1) |-> IF j < i THEN s[j] ELSE s[j + 1]]

(* Mutant: the caller is told of the timeout and stays in line. *)
BadQueueTimer(c) ==
  /\ call[c] = "waiting"
  /\ call' = [call EXCEPT ![c] = "idle"]
  /\ UNCHANGED <<waiters, inFlight>>

(* The timer of a caller in line, which a grant clears: the caller leaves    *)
(* the line and holds no slot.                                              *)
QueueTimer(c) ==
  /\ call[c] = "waiting"
  /\ \E i \in 1..Len(waiters) : waiters[i] = c /\ waiters' = Splice(waiters, i)
  /\ call' = [call EXCEPT ![c] = "idle"]
  /\ UNCHANGED inFlight

-------------------------------------------------------------------------------
(* Holding a slot. *)

(* Mutant: the slot is freed first and the head of the line woken to a slot *)
(* of its own.                                                              *)
BadRelease(c) ==
  /\ inFlight' = inFlight - 1
  /\ waiters' = IF waiters = <<>> THEN waiters ELSE Tail(waiters)
  /\ call' = [d \in Calls |-> IF d = c THEN "idle"
                              ELSE IF waiters # <<>> /\ d = Head(waiters) THEN "fetching"
                              ELSE call[d]]

(* The finally of getJson: the slot goes to the head of the line, which      *)
(* starts its request with it, or is freed when nobody waits.               *)
Release(c) ==
  \/ /\ waiters = <<>>
     /\ inFlight' = inFlight - 1
     /\ call' = [call EXCEPT ![c] = "idle"]
     /\ UNCHANGED waiters
  \/ /\ waiters # <<>>
     /\ waiters' = Tail(waiters)
     /\ call' = [call EXCEPT ![c] = "idle", ![Head(waiters)] = "fetching"]
     /\ UNCHANGED inFlight

(* The body will not be read (any further): it is cancelled, slot in hand. *)
Discards(c) ==
  /\ call' = [call EXCEPT ![c] = "discarding"]
  /\ UNCHANGED <<inFlight, waiters>>

(* No response, one that is an error or declares too large a body, or one   *)
(* whose body is to be read.                                                *)
HeadArrives(c) ==
  /\ call[c] = "fetching"
  /\ \/ Release(c)
     \/ Discards(c)
     \/ /\ call' = [call EXCEPT ![c] = "reading"]
        /\ UNCHANGED <<inFlight, waiters>>

(* The body ends (with JSON or without), is too large or breaks off. *)
BodyArrives(c) ==
  /\ call[c] = "reading"
  /\ Release(c) \/ Discards(c)

(* Mutant: an aborted request leaves send without passing the finally. *)
BadAbortTimer(c) ==
  \/ call[c] = "fetching" /\ Fails(c)
  \/ call[c] = "reading" /\ Discards(c)

(* AbortSignal.timeout covers the head and the body. *)
AbortTimer(c) ==
  \/ call[c] = "fetching" /\ Release(c)
  \/ call[c] = "reading" /\ Discards(c)

(* Mutant: the cancelling of a body is awaited without a limit. *)
BadDiscardTimer(c) == FALSE /\ Release(c)

(* boundedCancel: the cancel settles (upstream), or DISCARD_TIMEOUT_MS pass. *)
CancelSettles(c) == call[c] = "discarding" /\ Release(c)
DiscardTimer(c)  == call[c] = "discarding" /\ Release(c)

-------------------------------------------------------------------------------
Timers(c) == QueueTimer(c) \/ AbortTimer(c) \/ DiscardTimer(c)
Upstream(c) == HeadArrives(c) \/ BodyArrives(c) \/ CancelSettles(c)

Next == \E c \in Calls : GetJson(c) \/ TokenRead(c) \/ Timers(c) \/ Upstream(c)

Spec == Init /\ [][Next]_vars

(* Timers fire and the token file is read.  Nothing is assumed of the        *)
(* upstream, and nobody has to call.                                         *)
Fairness == \A c \in Calls : WF_vars(TokenRead(c)) /\ WF_vars(Timers(c))
FairSpec == Spec /\ Fairness

-------------------------------------------------------------------------------
(* Safety and liveness. *)

(* A slot is taken exactly as often as a request is under way: none leaks    *)
(* however a request ends (the client would wedge after MaxConcurrent        *)
(* leaks), none is freed twice (the cap would no longer hold).               *)
SlotsExact == inFlight = Cardinality(Holders) /\ inFlight <= MaxConcurrent

(* Nobody is in line while a slot is free, and exactly the callers that       *)
(* still wait are in line, once each: no wakeup is lost to a timeout.         *)
LineIsExact ==
  /\ waiters # <<>> => inFlight = MaxConcurrent
  /\ Len(waiters) <= MaxQueued
  /\ \A c \in Calls : call[c] = "waiting" <=> \E i \in 1..Len(waiters) : waiters[i] = c
  /\ \A i, j \in 1..Len(waiters) : waiters[i] = waiters[j] => i = j

(* A call starts its request only when nobody waits, or as the first in      *)
(* line: no newcomer slips in between a release and the wakeup.              *)
NoBarging ==
  [][\A c \in Calls :
       call[c] \notin Sending /\ call'[c] \in Sending =>
         waiters = <<>> \/ c = Head(waiters)]_vars

(* Every call is answered even when the upstream never reacts: each await    *)
(* that can stall is covered by a timer, the cancel of a body included.      *)
AllAnswered == \A c \in Calls : call[c] # "idle" ~> call[c] = "idle"
===============================================================================
