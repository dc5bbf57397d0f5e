---------------------------- MODULE LicenseGate ----------------------------
(***************************************************************************)
(* The licence check of production dependencies                            *)
(* (scripts/ci/check-license-policy.mjs).  A declared licence is an SPDX   *)
(* expression: a tree that its package wrote down as a sequence of tokens, *)
(* of which the check sees the tokens only.  Dependencies come and go,     *)
(* exceptions are reviewed and expire, and the check runs at any moment.   *)
(***************************************************************************)
EXTENDS Naturals, Sequences, FiniteSets

CONSTANTS
  Packages,       \* names
  Approved,       \* approvedLicenses of the policy
  Refused,        \* other licence identifiers
  Shapes,         \* shapes of expressions: a subset of AllShapes
  MaxDeclared,    \* licences one package declares (bound)
  MaxExceptions,  \* exceptions of the policy (bound)
  LastDay         \* days (bound)

AllShapes == {"one", "flat", "mixed", "grouped"}

\* Assumed of the constants; the module that instantiates this one states it.
PolicyAssumption ==
  Approved # {} /\ Approved \cap Refused = {} /\ Shapes \subseteq AllShapes

VARIABLES
  lock,        \* how package-lock.json lists a package
  dir,         \* what its directory in node_modules holds
  exceptions,  \* the reviewed exceptions, in order
  now,
  verdict      \* of the last check, none after a change

vars == <<lock, dir, exceptions, now, verdict>>

Ids == Approved \cup Refused
Ops == {"AND", "OR"}

---------------------------------------------------------------------------
(* Expressions: their tokens as packages write them, and what they mean.   *)

Holds(op, x, y) == IF op = "AND" THEN x /\ y ELSE x \/ y
Ok(id) == id \in Approved

One == {[shape |-> "one", text |-> <<x>>, ok |-> Ok(x)] : x \in Ids}

\* A op B, with or without parentheses around it.
Flat == {[shape |-> "flat",
          text |-> IF paren THEN <<"(", x, op, y, ")">> ELSE <<x, op, y>>,
          ok |-> Holds(op, Ok(x), Ok(y))] :
            x \in Ids, y \in Ids, op \in Ops, paren \in BOOLEAN}

\* Both operators and no parentheses: AND binds tighter.
Mixed == {[shape |-> "mixed",
           text |-> IF andFirst THEN <<x, "AND", y, "OR", z>> ELSE <<z, "OR", x, "AND", y>>,
           ok |-> (Ok(x) /\ Ok(y)) \/ Ok(z)] :
             x \in Ids, y \in Ids, z \in Ids, andFirst \in BOOLEAN}

\* (A op B) op' C and C op' (A op B).
Grouped == {[shape |-> "grouped",
             text |-> IF left THEN <<"(", x, op, y, ")", IF op = "AND" THEN "OR" ELSE "AND", z>>
                      ELSE <<z, IF op = "AND" THEN "OR" ELSE "AND", "(", x, op, y, ")">>,
             ok |-> IF op = "AND" THEN (Ok(x) /\ Ok(y)) \/ Ok(z) ELSE (Ok(x) \/ Ok(y)) /\ Ok(z)] :
               x \in Ids, y \in Ids, z \in Ids, op \in Ops, left \in BOOLEAN}

Expressions == {e \in One \cup Flat \cup Mixed \cup Grouped : e.shape \in Shapes}

\* What a package declares: one expression, or a list of identifiers, or nothing.
Declarations ==
  {<<e>> : e \in Expressions} \cup
  UNION {[1..n -> One] : n \in {k \in 0..MaxDeclared : k # 1}}

---------------------------------------------------------------------------
(* The check *)

\* replace(/^\(|\)$/g, ''): one parenthesis at either end.
StripParens(s) ==
  LET from == IF s # <<>> /\ Head(s) = "(" THEN 2 ELSE 1
      to == IF s # <<>> /\ s[Len(s)] = ")" THEN Len(s) - 1 ELSE Len(s) IN
  SubSeq(s, from, to)

\* split(op): the parts between the places where op stands.
Parts(s, op) ==
  LET cuts == {i \in 1..Len(s) : s[i] = op} \cup {0, Len(s) + 1} IN
  {StripParens(SubSeq(s, i + 1, j - 1)) :
     <<i, j>> \in {<<a, b>> \in cuts \X cuts : a < b /\ ~\E c \in cuts : a < c /\ c < b}}

Has(part) == Len(part) = 1 /\ part[1] \in Approved
Includes(s, op) == \E i \in 2..(Len(s) - 1) : s[i] = op

IsLicenseApproved(text) ==
  \/ Has(text)
  \/ LET clean == StripParens(text) IN
     IF Includes(clean, "OR") THEN \E part \in Parts(clean, "OR") : Has(part)
     ELSE Includes(clean, "AND") /\ \A part \in Parts(clean, "AND") : Has(part)

\* getProductionDependencies: a package below another one's node_modules is listed
\* under a name that walkInstalledPackages never finds.
ProductionDependencies == {p \in Packages : lock[p] \in {"prod", "nested"}}
Found(p) == lock[p] # "nested" /\ dir[p].kind # "absent"

\* exceptions.find: the first exception of the package.
FindException(p) ==
  LET matching == {i \in DOMAIN exceptions : exceptions[i].package = p} IN
  {exceptions[i] : i \in {j \in matching : \A k \in matching : j <= k}}

\* An exception counts until the day it expires.
InForce(e) == e.expiresAt > now

\* checkLicenses: the policy status of one package.
PolicyStatus(p) ==
  CASE ~Found(p) -> "missing_package"
    [] dir[p].kind = "invalid" -> "invalid_package_json"
    [] dir[p].licenses = <<>> -> "missing_license"
    [] \A i \in DOMAIN dir[p].licenses : IsLicenseApproved(dir[p].licenses[i].text) ->
         "approved"
    [] FindException(p) = {} -> "unapproved"
    [] \A e \in FindException(p) : InForce(e) -> "approved_exception"
    [] OTHER -> "expired_exception"

\* main: any FAIL line fails the build.
Check ==
  /\ verdict' = IF \A p \in ProductionDependencies :
                     PolicyStatus(p) \in {"approved", "approved_exception"}
                THEN "pass" ELSE "fail"
  /\ UNCHANGED <<lock, dir, exceptions, now>>

---------------------------------------------------------------------------
(* What happens between two checks *)

\* npm installs, updates or removes a package.
Install(p) ==
  /\ lock' \in {[lock EXCEPT ![p] = l] : l \in {"none", "dev", "link", "prod", "nested"}}
  /\ dir' \in {[dir EXCEPT ![p] = [kind |-> k, licenses |-> d]] :
                 <<k, d>> \in {<<"absent", <<>>>>, <<"invalid", <<>>>>} \cup
                              ({"package"} \X Declarations)}
  /\ verdict' = "none"
  /\ UNCHANGED <<exceptions, now>>

\* loadPolicy: a reviewed exception is complete, and has a date; it may be one that
\* has passed, and a package may have several.
Review(p) ==
  /\ Len(exceptions) < MaxExceptions
  /\ \E d \in 1..LastDay : exceptions' = Append(exceptions, [package |-> p, expiresAt |-> d])
  /\ verdict' = "none"
  /\ UNCHANGED <<lock, dir, now>>

DayPasses ==
  /\ now < LastDay
  /\ now' = now + 1
  /\ verdict' = "none"
  /\ UNCHANGED <<lock, dir, exceptions>>

Init ==
  /\ lock = [p \in Packages |-> "none"]
  /\ dir = [p \in Packages |-> [kind |-> "absent", licenses |-> <<>>]]
  /\ exceptions = <<>> /\ now = 0 /\ verdict = "none"

Next == Check \/ DayPasses \/ \E p \in Packages : Install(p) \/ Review(p)

Spec == Init /\ [][Next]_vars

---------------------------------------------------------------------------
(* Properties *)

Current(e) == now < e.expiresAt

\* The package is free to use: every licence it declares can be met with approved
\* ones alone, or an exception that has not expired covers it.
Excepted(p) == \E i \in DOMAIN exceptions : exceptions[i].package = p /\ Current(exceptions[i])
Licensed(p) ==
  /\ Found(p) /\ dir[p].kind = "package" /\ dir[p].licenses # <<>>
  /\ (\A i \in DOMAIN dir[p].licenses : dir[p].licenses[i].ok) \/ Excepted(p)

\* A check that passes leaves no production dependency whose licences are not met:
\* "user may choose any, so valid if at least one is approved" and "all parts must be
\* approved" (check-license-policy.mjs:117, :123).
PassMeansLicensed == verdict = "pass" => \A p \in ProductionDependencies : Licensed(p)

\* A check fails for a reason: a dependency that is not licensed, an expired
\* exception before one in force (only the first is looked at, :269), or an
\* expression that mixes both operators, which is refused when in doubt.
FailHasReason ==
  verdict = "fail" =>
    \E p \in ProductionDependencies :
      \/ ~Licensed(p)
      \/ \E i \in DOMAIN exceptions : exceptions[i].package = p /\ ~Current(exceptions[i])
      \/ \E i \in DOMAIN dir[p].licenses : dir[p].licenses[i].shape \in {"mixed", "grouped"}
=============================================================================
