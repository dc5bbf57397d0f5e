------------------------------- MODULE EventFeed -------------------------------
(***************************************************************************)
(* KubeEventSource.listEvents (adapters/kubeEvents.ts) and its route       *)
(* (routes/events.ts).  A request reads the events of each namespace page  *)
(* by page and the state of each ArgoCD application, all side by side; any *)
(* of them may fail.  What was read is merged, cut and filtered.           *)
(***************************************************************************)
EXTENDS Integers, Sequences, SequencesExt, FiniteSets, FiniteSetsExt

CONSTANTS
  Namespaces, Apps,
  MAX_EVENTS,       \* events in an answer, and in a page of the API server
  MAX_PAGES,        \* pages read of a namespace (5)
  Times,            \* bound: when events happened
  None

\* Assumed of the constants; the module that instantiates this one states it.
FeedAssumption == MAX_EVENTS \in Nat \ {0} /\ MAX_PAGES \in Nat \ {0}

VARIABLES
  stored,      \* events of a namespace in the order the API server lists them
  task,        \* tasks by source: running, or settled with events or failed
  severity,    \* the filter of the request
  answer       \* what the route returns

vars == <<stored, task, severity, answer>>

Sources == Namespaces \cup Apps

Event(s, k, t, sev) == [source |-> s, nr |-> k, time |-> t, severity |-> sev]

(* Lists of a namespace, in any order of times: up to one page and an event. *)
Lists(s) ==
  {[k \in 1..Len(l) |-> Event(s, k, l[k][1], l[k][2])] :
     l \in UNION {[1..n -> Times \X {"info", "warning"}] : n \in 0..(MAX_EVENTS + 1)}}

Init ==
  /\ stored \in [Namespaces -> UNION {Lists(s) : s \in Namespaces}]
  /\ \A s \in Namespaces : stored[s] \in Lists(s)
  /\ severity \in {None, "warning"}
  /\ task = [s \in Sources |-> [state |-> "running", page |-> 0, events |-> <<>>]]
  /\ answer = None

-------------------------------------------------------------------------------
Page(s, p) == SubSeq(stored[s], p * MAX_EVENTS + 1, Min({Len(stored[s]), (p + 1) * MAX_EVENTS}))
More(s, p) == Len(stored[s]) > (p + 1) * MAX_EVENTS

(* One page of a namespace; the last one, or the fifth, ends the task.       *)
ReadPage(s) ==
  /\ s \in Namespaces /\ task[s].state = "running"
  /\ task' = [task EXCEPT ![s].events = @ \o Page(s, task[s].page),
                          ![s].page = @ + 1,
                          ![s].state = IF More(s, task[s].page) /\ task[s].page + 1 < MAX_PAGES
                                       THEN "running" ELSE "fulfilled"]
  /\ UNCHANGED <<stored, severity, answer>>

(* An application that is not synced and healthy is an event of this moment. *)
ReadApp(s, fine) ==
  /\ s \in Apps /\ task[s].state = "running"
  /\ task' = [task EXCEPT ![s].state = "fulfilled",
                          ![s].events = IF fine THEN <<>> ELSE <<Event(s, 1, Max(Times) + 1, "warning")>>]
  /\ UNCHANGED <<stored, severity, answer>>

(* A request fails or its list is malformed: the pages before it are lost too. *)
Fails(s) ==
  /\ task[s].state = "running"
  /\ task' = [task EXCEPT ![s] = [@ EXCEPT !.state = "rejected", !.events = <<>>]]
  /\ UNCHANGED <<stored, severity, answer>>

Newer(a, b) == a.time >= b.time

(* Mutant: the events are cut before they are sorted. *)
BadMerge(all) == SortSeq(SubSeq(all, 1, Min({Len(all), MAX_EVENTS})), Newer)

Merge(all) == LET sorted == SortSeq(all, Newer) IN SubSeq(sorted, 1, Min({Len(sorted), MAX_EVENTS}))

Rejected == {s \in Sources : task[s].state = "rejected"}
Read == FoldSet(LAMBDA s, read : read \o task[s].events, <<>>, Sources)

(* Mutant: a source without events is taken for one that failed. *)
BadWarnings == {s \in Sources : task[s].events = <<>>}

Warnings == Rejected

(* Promise.allSettled, then the route: all failed is an error, not an empty list. *)
Answer ==
  /\ answer = None /\ \A s \in Sources : task[s].state # "running"
  /\ answer' = IF Rejected = Sources THEN [code |-> 500]
               ELSE [code |-> 200, warnings |-> Warnings,
                     data |-> SelectSeq(Merge(Read), LAMBDA e : severity = None \/ e.severity = severity)]
  /\ UNCHANGED <<stored, task, severity>>

Next ==
  \/ \E s \in Sources : ReadPage(s) \/ Fails(s) \/ \E fine \in BOOLEAN : ReadApp(s, fine)
  \/ Answer

Spec == Init /\ [][Next]_vars

-------------------------------------------------------------------------------
(* Properties. *)

Shown == answer # None /\ answer.code = 200

(* An event that was read and fits the filter is left out only for as many   *)
(* newer ones, and what is shown is in order.                                *)
NewestKept ==
  Shown => LET read == UNION {ToSet(task[s].events) : s \in Sources} IN
    /\ \A a, b \in 1..Len(answer.data) : a < b => answer.data[a].time >= answer.data[b].time
    /\ \A e \in read \ ToSet(answer.data) :
         severity = None \/ e.severity = severity =>
           Cardinality({f \in read \ {e} : f.time >= e.time}) >= MAX_EVENTS

(* What the answer does not say is missing was read: an event of a source    *)
(* without a warning is left out only by the two limits, and a warning       *)
(* stands for a source that really failed.                                   *)
MissingIsSaid ==
  Shown =>
    /\ \A s \in Namespaces : \/ s \in answer.warnings
                             \/ Len(task[s].events) = Min({Len(stored[s]), MAX_PAGES * MAX_EVENTS})
    /\ \A s \in answer.warnings : ToSet(answer.data) \cap ToSet(task[s].events) = {}
                                    /\ (s \in Namespaces => task[s].state = "rejected")
===============================================================================
