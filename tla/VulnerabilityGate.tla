------------------------- MODULE VulnerabilityGate -------------------------
(***************************************************************************)
(* The advisory check of production dependencies                           *)
(* (scripts/ci/check-dependency-vulnerabilities.mjs).  Advisories are      *)
(* published, exceptions are reviewed and expire, and the check runs at    *)
(* any moment over what npm audit answers.                                 *)
(*                                                                         *)
(* npm is external: a report has one entry per package that is affected,   *)
(* by advisories of its own or through a dependency, with the highest      *)
(* severity of both; an audit that npm cannot finish answers with an error *)
(* object (npm writes it as JSON under --json) or with no JSON at all.     *)
(***************************************************************************)
EXTENDS Integers, Sequences, FiniteSets, FiniteSetsExt

CONSTANTS
  Packages,       \* production dependencies
  Uses,           \* pairs <<p, q>>: p depends on q directly; without cycles, two deep
  Severities,     \* 1 moderate or less, 2 high, 3 critical
  MaxExceptions,  \* exceptions of the policy (bound)
  LastDay         \* days (bound)

\* Each package may have one advisory of each severity: its id.
Advisories == [package : Packages, severity : Severities]
Wildcard == [package |-> "*", severity |-> 0]

\* Assumed of the constants; the module that instantiates this one states it.
GateAssumption ==
  /\ Uses \subseteq Packages \X Packages
  /\ Severities \subseteq {1, 2, 3}
  /\ MaxExceptions \in Nat /\ LastDay \in Nat

VARIABLES
  published,   \* advisories published so far
  exceptions,  \* the reviewed exceptions, in order
  now,
  verdict      \* of the last check: its result and what npm answered

vars == <<published, exceptions, now, verdict>>

NoVerdict == [result |-> "none", audit |-> "none"]

---------------------------------------------------------------------------
(* npm audit *)

\* The packages p reaches, itself included.
Reach(p) ==
  LET direct(q) == {r \in Packages : <<q, r>> \in Uses} IN
  {p} \cup direct(p) \cup UNION {direct(q) : q \in direct(p)}

Own(p) == {a \in published : a.package = p}
Affected == {p \in Packages : \E q \in Reach(p) : Own(q) # {}}

\* One entry: the highest severity, the advisories of its own and the affected
\* direct dependencies by name.
Entry(p) ==
  [severity |-> Max({a.severity : a \in UNION {Own(q) : q \in Reach(p)}}),
   own |-> Own(p),
   chain |-> {q \in Affected : <<p, q>> \in Uses}]

---------------------------------------------------------------------------
(* The check *)

\* The findings of one entry: its own advisories, each with its own severity, or
\* without any the chain, which has no advisory id.
Findings(p) ==
  LET e == Entry(p) IN
  IF e.own # {} THEN {[package |-> p, severity |-> a.severity, ids |-> {a}] : a \in e.own}
  ELSE {[package |-> p, severity |-> e.severity, ids |-> {}]}

BadHighOrCritical(f) == f.severity > 2
HighOrCritical(f) == f.severity >= 2

\* An exception applies to a finding of its package, for its advisory or for all.
Matches(e, f) ==
  e.package = f.package /\ (e.advisory = Wildcard \/ e.advisory \in f.ids)

IsExpired(e) == e.expiresAt <= now

\* The first exception that applies decides.
Unsuppressed(f) ==
  LET matching == {i \in DOMAIN exceptions : Matches(exceptions[i], f)} IN
  matching = {} \/ IsExpired(exceptions[Min(matching)])

\* evaluateAudit: an exception that expired fails the check, used or not.
EvaluateAudit(affected) ==
  /\ \A p \in affected : \A f \in Findings(p) : HighOrCritical(f) => ~Unsuppressed(f)
  /\ \A i \in DOMAIN exceptions : ~IsExpired(exceptions[i])

\* main: npm that cannot be started and output that is not JSON fail; any JSON is a
\* report, and one without vulnerabilities has none.
Check ==
  /\ \E audit \in {"complete", "error object", "no JSON", "not started"} :
       verdict' = [audit |-> audit,
                   result |-> CASE audit \in {"no JSON", "not started"} -> "fail"
                                [] audit = "error object" ->
                                     IF EvaluateAudit({}) THEN "pass" ELSE "fail"
                                [] OTHER -> IF EvaluateAudit(Affected) THEN "pass" ELSE "fail"]
  /\ UNCHANGED <<published, exceptions, now>>

---------------------------------------------------------------------------
(* What happens between two checks *)

Publish ==
  /\ \E a \in Advisories \ published : published' = published \cup {a}
  /\ verdict' = NoVerdict
  /\ UNCHANGED <<exceptions, now>>

\* loadExceptions: complete entries with a date; the date may have passed, and the
\* advisory may not be published (yet).
Review ==
  /\ Len(exceptions) < MaxExceptions
  /\ \E p \in Packages, d \in {1, LastDay} :
       \E a \in {b \in Advisories : b.package = p} \cup {Wildcard} :
         exceptions' = Append(exceptions, [package |-> p, advisory |-> a, expiresAt |-> d])
  /\ verdict' = NoVerdict
  /\ UNCHANGED <<published, now>>

\* An exception is taken out of the file.
Withdraw ==
  /\ exceptions # <<>>
  /\ exceptions' = Tail(exceptions)
  /\ verdict' = NoVerdict
  /\ UNCHANGED <<published, now>>

DayPasses ==
  /\ now < LastDay
  /\ now' = now + 1
  /\ verdict' = NoVerdict
  /\ UNCHANGED <<published, exceptions>>

Init == published = {} /\ exceptions = <<>> /\ now = 0 /\ verdict = NoVerdict

Next == Check \/ Publish \/ Review \/ Withdraw \/ DayPasses

Spec == Init /\ [][Next]_vars

---------------------------------------------------------------------------
(* Properties *)

Passed == verdict.result = "pass" /\ verdict.audit = "complete"

InForce(p, a) ==
  \E i \in DOMAIN exceptions :
    /\ exceptions[i].package = p
    /\ exceptions[i].advisory = a
    /\ now < exceptions[i].expiresAt

\* "Fails on any unsuppressed high or critical severity finding"
\* (check-dependency-vulnerabilities.mjs:4): who passes has, for each such advisory,
\* an exception in force that names the package and the advisory or all of them.
PassMeansCovered ==
  Passed => \A a \in published :
    a.severity >= 2 => InForce(a.package, a) \/ InForce(a.package, Wildcard)

\* A package that is affected only through a dependency passes under a wildcard of
\* its own alone: no exception for an advisory can have been written for it (:165).
ChainIsReviewed ==
  Passed => \A p \in Affected :
    (Own(p) = {} /\ Entry(p).severity >= 2) => InForce(p, Wildcard)

\* A check fails for a reason: an audit that did not finish, an expired exception, an
\* advisory nobody excepted, or a chain without a wildcard.
FailHasReason ==
  verdict.result = "fail" =>
    \/ verdict.audit # "complete"
    \/ \E i \in DOMAIN exceptions : exceptions[i].expiresAt <= now
    \/ \E a \in published :
         a.severity >= 2 /\ ~InForce(a.package, a) /\ ~InForce(a.package, Wildcard)
    \/ \E p \in Affected : Own(p) = {} /\ Entry(p).severity >= 2 /\ ~InForce(p, Wildcard)

\* "npm audit output is not valid JSON. Network or registry error?" (:396): an audit
\* that did not finish does not pass.
PassMeansAudited == verdict.result = "pass" => verdict.audit = "complete"
=============================================================================
