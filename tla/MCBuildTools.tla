---------------------------- MODULE MCBuildTools ----------------------------
(* The tools that run before a deployment, for TLC: the policy compiler and    *)
(* what its outputs do in OPA, PostgreSQL and Keycloak, the policyctl command, *)
(* and the license and advisory gates.  The parts share no state, so one       *)
(* behaviour runs one of them (part) and the others rest.                      *)
EXTENDS Integers, Sequences, FiniteSets

VARIABLES
  part,
  regoDecl, regoOut,
  decl, todo, job, pg, kc, report, revisions, crashes, manual,
  files, pc, loaded, out, exit, argv, edits, nruns,
  lock, dir, licenseExceptions, licenseDay, licenseVerdict,
  published, exceptions, now, verdict

regoVars == <<regoDecl, regoOut>>
deployVars == <<decl, todo, job, pg, kc, report, revisions, crashes, manual>>
ctlVars == <<files, pc, loaded, out, exit, argv, edits, nruns>>
licenseVars == <<lock, dir, licenseExceptions, licenseDay, licenseVerdict>>
advisoryVars == <<published, exceptions, now, verdict>>

----------------------------------------------------------------------------
(* Declarations for the compiled Rego policy *)

None == "none"
Roles == {"a", "b", "c"}
Same(names) == [n \in names |-> n]

\* Inclusions: none, a chain, one role including two, two roles including one, a cycle.
NoInclusion == [r \in Roles |-> {}]
Chain == [r \in Roles |-> IF r = "a" THEN {"b"} ELSE IF r = "b" THEN {"c"} ELSE {}]
Fork == [r \in Roles |-> IF r = "a" THEN {"b", "c"} ELSE {}]
Join == [r \in Roles |-> IF r \in {"a", "b"} THEN {"c"} ELSE {}]
Cycle == [r \in Roles |-> IF r = "a" THEN {"b"} ELSE IF r = "b" THEN {"a"} ELSE {}]

Start(roles, includes, group, catalogGrants) ==
  [roles |-> roles, includes |-> [r \in roles |-> includes[r]], groups |-> [g \in {"g"} |-> group],
   entries |-> <<>>, catalogGrants |-> catalogGrants, logins |-> {}]

RegoEntry(engine, pii, sensitive) ==
  [resource |-> "t", engine |-> engine, pii |-> pii, sensitiveColumns |-> sensitive, grants |-> {}]
TrinoEntry == {RegoEntry("trino", FALSE, {})}

RegoGrant(roles, privileges, mask, filter, unmasked) ==
  [roles |-> roles, privileges |-> privileges, columnMask |-> [c \in {"ssn"} |-> mask],
   rowFilter |-> filter, allowUnmasked |-> unmasked]

\* Masks of one column by up to three grants over roles that include each other or
\* share a group.
MaskStarts == {Start(Roles, i, g, {}) : i \in {NoInclusion, Chain, Fork, Join, Cycle},
                                        g \in {{}, {"a", "b"}, {"b", "c"}}}
MaskGrants == {RegoGrant(r, {"select"}, m, None, u) :
                 r \in {{"a"}, {"b"}, {"a", "c"}}, m \in {"hash", "partial"}, u \in BOOLEAN}

\* Tables of class pii, row filters, privileges.
PiiStarts == {Start(Roles, i, {"a", "b"}, {}) : i \in {Chain, Fork, Join}}
PiiEntries == {RegoEntry("trino", pii, s) : pii \in BOOLEAN, s \in SUBSET {"ssn"}}
                \cup {RegoEntry("postgres", FALSE, {})}
PiiGrants == {RegoGrant(r, p, m, f, u) : r \in {{"b"}, {"c"}}, p \in {{"insert"}, {"select", "delete"}},
                                         m \in {"hash", None}, f \in {None, "accepted"}, u \in BOOLEAN}
               \cup {RegoGrant({"c"}, {"select"}, None, "refused", FALSE)}

\* Names that are not declared or not well formed, and catalog grants.
NameStarts == {Start(roles, i, g, cs) :
                 roles \in {Roles, Roles \ {"c"}}, i \in {NoInclusion, Chain}, g \in {{}, {"b"}, {"c"}},
                 cs \in SUBSET [catalog : {"iceberg", "postgres"}, roles : {{"a"}, {"c"}},
                                operations : {{"ExecuteQuery"}, {"AccessCatalog", "ShowTables"}}]}
NameGrants == {RegoGrant(r, {"select"}, None, None, FALSE) : r \in {{"b"}, {"c"}}}

Masks == INSTANCE PolicyRego WITH decl <- regoDecl, out <- regoOut,
  Names <- Roles, RoleNames <- Roles, Groups <- {"g"}, Columns <- {"ssn"}, Kinds <- {"hash", "partial"},
  Logins <- {}, Databases <- {}, PgOf <- Same(Roles),
  Starts <- MaskStarts, EntryChoices <- TrinoEntry, GrantChoices <- MaskGrants,
  MaxEntries <- 2, MaxGrants <- 3

Pii == INSTANCE PolicyRego WITH decl <- regoDecl, out <- regoOut,
  Names <- Roles, RoleNames <- Roles, Groups <- {"g"}, Columns <- {"ssn"}, Kinds <- {"hash", "partial"},
  Logins <- {}, Databases <- {}, PgOf <- Same(Roles),
  Starts <- PiiStarts, EntryChoices <- PiiEntries, GrantChoices <- PiiGrants,
  MaxEntries <- 1, MaxGrants <- 2

Catalogs == INSTANCE PolicyRego WITH decl <- regoDecl, out <- regoOut,
  Names <- Roles, RoleNames <- Roles, Groups <- {"g"}, Columns <- {"ssn"}, Kinds <- {"hash", "partial"},
  Logins <- {}, Databases <- {}, PgOf <- Same(Roles),
  Starts <- NameStarts, EntryChoices <- TrinoEntry, GrantChoices <- NameGrants,
  MaxEntries <- 1, MaxGrants <- 2

----------------------------------------------------------------------------
(* Declarations for PostgreSQL and Keycloak *)

PgRoles == {"a", "b", "x_y", "x-y"}
PgLogins == {"l", "m", "x_y"}
\* "x-y" and "x_y" are one role in PostgreSQL.
PgNames == [n \in PgRoles \cup PgLogins |-> IF n = "x-y" THEN "x_y" ELSE n]

PgGrant(roles, privileges) ==
  [roles |-> roles, privileges |-> privileges, columnMask |-> <<>>, rowFilter |-> None, allowUnmasked |-> FALSE]
PgEntry(grants) ==
  <<[resource |-> "public.orders", engine |-> "postgres", pii |-> FALSE, sensitiveColumns |-> {}, grants |-> grants]>>
Login(l, r, db) == [name |-> l, memberOf |-> {r}, database |-> db]

\* Declarations of two roles, at most one inclusion, a grant or two, and two logins.
AllDeclarations ==
  UNION {{[roles |-> roles, includes |-> i, groups |-> <<>>, entries |-> PgEntry(gs),
           catalogGrants |-> {}, logins |-> ls] :
             i \in {i \in [roles -> SUBSET roles] : \A r \in roles : Cardinality(i[r]) <= 1},
             gs \in {{PgGrant({r}, {"select", "insert"})} : r \in roles} \cup
                    {{PgGrant({r}, {"select"}), PgGrant({s}, {"update"})} : r, s \in roles},
             ls \in {{Login("l", r, "shop"), Login(m, s, db)} :
                       r, s \in roles, m \in {"m", "x_y"}, db \in {"shop", "log"}}} :
         roles \in {{"a", "b"}, {"a", "x-y"}, {"x_y", "x-y"}}}

Validator == INSTANCE PolicyDeclaration WITH
  Names <- PgRoles, RoleNames <- PgRoles, Groups <- {}, Columns <- {}, Kinds <- {},
  Logins <- PgLogins, Databases <- {"shop", "log"}, PgOf <- PgNames
Accepted == {d \in AllDeclarations : Validator!ValidateDeclaration(d) = {}}

\* Declarations one after another: the inclusion turned around, a grant narrowed.
First == [roles |-> {"a", "b"}, includes |-> [r \in {"a", "b"} |-> IF r = "a" THEN {"b"} ELSE {}],
          groups |-> [g \in {"g"} |-> {"a"}], entries |-> PgEntry({PgGrant({"b"}, {"select", "insert"})}),
          catalogGrants |-> {}, logins |-> {Login("l", "a", "shop")}]
Turned == [First EXCEPT !.includes = [r \in {"a", "b"} |-> IF r = "b" THEN {"a"} ELSE {}]]
Narrowed == [First EXCEPT !.entries = PgEntry({PgGrant({"b"}, {"select"}), PgGrant({"a"}, {"update"})})]

Deploys == INSTANCE PolicyDeploy WITH
  Names <- PgRoles, RoleNames <- PgRoles, Groups <- {}, Columns <- {}, Kinds <- {},
  Logins <- PgLogins, Databases <- {"shop", "log"}, PgOf <- PgNames,
  FoldOf <- Same({"shop", "log"}), Declarations <- Accepted, Present <- {{"public", "public.orders"}, {}},
  MaxRevisions <- 0, MaxCrashes <- 0, MaxManual <- 0

Revisions == INSTANCE PolicyDeploy WITH
  Names <- {"a", "b"}, RoleNames <- {"a", "b"}, Groups <- {"g"}, Columns <- {}, Kinds <- {},
  Logins <- {"l"}, Databases <- {"shop"}, PgOf <- Same({"a", "b", "l"}),
  FoldOf <- Same({"shop"}), Declarations <- {First, Turned, Narrowed},
  Present <- {{"public", "public.orders"}, {"public"}},
  MaxRevisions <- 2, MaxCrashes <- 1, MaxManual <- 1

----------------------------------------------------------------------------
(* policyctl and the gates *)

\* The second text of resources names a role that only the second text of roles declares.
RolesKnown(d) == d[3] = "two" => d[1] = "two"
ShortLists == UNION {[1..n -> {"compile", "dir", "--out", "--other"}] : n \in 0..5}

Runs == INSTANCE PolicyCtl WITH Texts <- {"one", "two"}, Valid <- RolesKnown,
  ArgLists <- {<<"compile", "dir", "--out", "dir">>}, MaxEdits <- 1, MaxRuns <- 2

Arguments == INSTANCE PolicyCtl WITH Texts <- {"one", "two"}, Valid <- RolesKnown,
  ArgLists <- ShortLists, MaxEdits <- 0, MaxRuns <- 1

Expressions == INSTANCE LicenseGate WITH
  exceptions <- licenseExceptions, now <- licenseDay, verdict <- licenseVerdict,
  Packages <- {"p"}, Approved <- {"MIT", "BSD"}, Refused <- {"GPL"}, Shapes <- {"one", "flat", "mixed"},
  MaxDeclared <- 2, MaxExceptions <- 1, LastDay <- 1

Licenses == INSTANCE LicenseGate WITH
  exceptions <- licenseExceptions, now <- licenseDay, verdict <- licenseVerdict,
  Packages <- {"p"}, Approved <- {"MIT"}, Refused <- {"GPL"}, Shapes <- {"one"},
  MaxDeclared <- 0, MaxExceptions <- 2, LastDay <- 2

\* One depends on two, two on three.
Advisories == INSTANCE VulnerabilityGate WITH
  Packages <- {"one", "two", "three"}, Uses <- {<<"one", "two">>, <<"two", "three">>},
  Severities <- {1, 2}, MaxExceptions <- 2, LastDay <- 1

ASSUME InstanceAssumption ==
  /\ Masks!NamesAssumption /\ Masks!ChoicesAssumption
  /\ Pii!NamesAssumption /\ Pii!ChoicesAssumption
  /\ Catalogs!NamesAssumption /\ Catalogs!ChoicesAssumption
  /\ Deploys!NamesAssumption /\ Deploys!PgAssumption
  /\ Revisions!NamesAssumption /\ Revisions!PgAssumption
  /\ Expressions!PolicyAssumption /\ Licenses!PolicyAssumption /\ Advisories!GateAssumption

----------------------------------------------------------------------------
(* Specification *)

RegoInit ==
  \/ part = "pii" /\ Pii!Init
  \/ part = "catalogs" /\ Catalogs!Init
  \/ part \notin {"pii", "catalogs"} /\ Masks!Init
       /\ (part # "masks" => regoDecl = Start(Roles, NoInclusion, {}, {}))

DeployInit ==
  \/ part = "deploys" /\ Deploys!Init
  \/ part # "deploys" /\ Revisions!Init /\ (part # "revisions" => decl = First)

Init ==
  /\ part \in {"masks", "pii", "catalogs", "deploys", "revisions", "runs", "arguments",
              "expressions", "licenses", "advisories"}
  /\ RegoInit
  /\ DeployInit
  /\ Runs!Init /\ (part # "runs" => files = [f \in DOMAIN files |-> "one"])
  /\ Licenses!Init
  /\ Advisories!Init

RegoStep ==
  /\ \/ part = "masks" /\ Masks!Next
     \/ part = "pii" /\ Pii!Next
     \/ part = "catalogs" /\ Catalogs!Next
  /\ UNCHANGED <<part, deployVars, ctlVars, licenseVars, advisoryVars>>

DeployStep ==
  /\ \/ part = "deploys" /\ Deploys!Next
     \/ part = "revisions" /\ Revisions!Next
  /\ UNCHANGED <<part, regoVars, ctlVars, licenseVars, advisoryVars>>

CtlStep ==
  /\ \/ part = "runs" /\ Runs!Next
     \/ part = "arguments" /\ Arguments!Next
  /\ UNCHANGED <<part, regoVars, deployVars, licenseVars, advisoryVars>>

LicenseStep ==
  /\ \/ part = "expressions" /\ Expressions!Next
     \/ part = "licenses" /\ Licenses!Next
  /\ UNCHANGED <<part, regoVars, deployVars, ctlVars, advisoryVars>>

AdvisoryStep ==
  /\ part = "advisories" /\ Advisories!Next
  /\ UNCHANGED <<part, regoVars, deployVars, ctlVars, licenseVars>>

Next == RegoStep \/ DeployStep \/ CtlStep \/ LicenseStep \/ AdvisoryStep

Spec == Init /\ [][Next]_<<part, regoVars, deployVars, ctlVars, licenseVars, advisoryVars>>

----------------------------------------------------------------------------
(* Properties, each stated and explained in the module it is taken from *)

\* No holder of a role or a group of an accepted declaration makes OPA fail with two
\* masks of one column (CONFLICTING_MASK of validate.ts against the rules of rego.ts).
NoEvalConflict == part = "masks" => Masks!NoEvalConflict

\* The validator refuses no declaration whose masks would work (CONFLICTING_MASK).
RefusedConflictIsReal == part = "masks" => Masks!RefusedConflictIsReal

\* The policy with the tokens of Keycloak allows exactly what the declaration grants,
\* inclusions followed (rego.ts against keycloak.ts).
AllowsAsDeclared == part = "masks" => Masks!AllowsAsDeclared

\* Masks that a grant with allowUnmasked still declares hold for its holders (rego.ts).
OptOutKeepsOwnMask == part = "masks" => Masks!OptOutKeepsOwnMask

\* Who may read a pii table sees no sensitive column unmasked without an opt-out.
PiiIsMasked == part = "pii" => Pii!PiiIsMasked

\* Who has only filtered grants on a table reads it through a filter (rego.ts).
RowsAreFiltered == part = "pii" => Pii!RowsAreFiltered

\* Every grant of an accepted declaration works for someone (validate.ts).
NoDeadGrant == part = "catalogs" => Catalogs!NoDeadGrant

\* Catalog grants open no table that was not granted (rego.ts).
CatalogGrantsGiveNoData == part = "catalogs" => Catalogs!CatalogGrantsGiveNoData

\* Once the job is done every login can do what its roles were granted, and connect.
LoginsWork ==
  /\ part = "deploys" => Deploys!LoginsWork
  /\ part = "revisions" => Revisions!LoginsWork

\* A login has nothing its roles do not give it: role names that fold into one, or a
\* product of roles and databases, would (ddl.ts, validate.ts).
NothingBeyondDeclared == part = "deploys" => Deploys!NothingBeyondDeclared

\* The script fails only where an earlier declaration's memberships, which no script
\* revokes, close a loop, or where a declared table is not there (pgddl.ts).
FailsForCause == part = "revisions" => Revisions!FailsForCause

\* A drift report is empty exactly when all it checked agrees with the declaration,
\* whatever was left out, granted by hand or left behind (drift.ts).
CleanMeansEqual == part = "revisions" => Revisions!CleanMeansEqual

\* What was not read is not reported, and a finished job that nobody interfered with
\* leaves nothing unapplied (drift.ts).
ReportIsHonest == part = "revisions" => Revisions!ReportIsHonest

\* After a run that reports success the three outputs are of one declaration (policyctl.ts).
SuccessIsWhole == Runs!SuccessIsWhole

\* No output is of a declaration validation refuses, the mixture that edits between
\* two reads give included (policyctl.ts).
OnlyValidWritten == Runs!OnlyValidWritten

\* A run that ends with a message for the author has written nothing (policyctl.ts).
MessageMeansUntouched == Runs!MessageMeansUntouched

\* Arguments are accepted exactly when they have the shape of the usage line.
ArgsAsUsage == part = "arguments" => Arguments!ArgsAsUsage

\* A license check that passes leaves no dependency whose licences are not met
\* (check-license-policy.mjs:117, :123).
PassMeansLicensed ==
  /\ part = "expressions" => Expressions!PassMeansLicensed
  /\ part = "licenses" => Licenses!PassMeansLicensed

\* A license check fails for a reason: a dependency that is not licensed, an expired
\* exception, or an expression that mixes both operators (check-license-policy.mjs).
LicenseFailHasReason ==
  /\ part = "expressions" => Expressions!FailHasReason
  /\ part = "licenses" => Licenses!FailHasReason

\* An audit that passes leaves no high or critical advisory without an exception in
\* force (check-dependency-vulnerabilities.mjs:4).
PassMeansCovered == Advisories!PassMeansCovered

\* A package affected only through a dependency passes under its own wildcard alone
\* (check-dependency-vulnerabilities.mjs:165).
ChainIsReviewed == Advisories!ChainIsReviewed

\* An audit fails for a reason: it did not finish, an exception expired, an advisory
\* nobody excepted, or a chain without a wildcard.
AdvisoryFailHasReason == Advisories!FailHasReason

----------------------------------------------------------------------------
(* What the run checks: the properties above, component by component *)

\* The policy OPA evaluates is the declaration: it allows, masks and filters as declared,
\* never fails on two masks, and the validator refuses only what would fail (validate.ts,
\* rego.ts).
PolicyAsDeclared ==
  /\ NoEvalConflict /\ RefusedConflictIsReal /\ AllowsAsDeclared /\ OptOutKeepsOwnMask
  /\ PiiIsMasked /\ RowsAreFiltered /\ NoDeadGrant /\ CatalogGrantsGiveNoData

\* PostgreSQL and Keycloak hold the declaration, through revisions, crashes and grants by
\* hand, and the drift report says where they do not (pgddl.ts, keycloak.ts, drift.ts).
DeployedAsDeclared ==
  LoginsWork /\ NothingBeyondDeclared /\ FailsForCause /\ CleanMeansEqual /\ ReportIsHonest

\* policyctl leaves whole and valid outputs, or a message and nothing touched (policyctl.ts).
OutputsWhole == [](SuccessIsWhole /\ OnlyValidWritten /\ ArgsAsUsage) /\ MessageMeansUntouched

\* The dependency gates pass and fail for a reason (check-license-policy.mjs,
\* check-dependency-vulnerabilities.mjs).
GatesSound ==
  PassMeansLicensed /\ LicenseFailHasReason /\ PassMeansCovered /\ ChainIsReviewed /\ AdvisoryFailHasReason
=============================================================================
