---------------------------- MODULE PolicyDeploy ----------------------------
(***************************************************************************)
(* compilePgDdl and compileKeycloak of the policy compiler, the job that   *)
(* runs the script on PostgreSQL on every sync, and the drift report of    *)
(* drift.ts.  The script is a list of stages of statements; the job runs   *)
(* one statement at a time, stops at the first error and is restarted from *)
(* the top.  The database is the set of its facts: a script only ever adds *)
(* some.  A new declaration may replace the old one at any time, an        *)
(* operator may change the database and Keycloak by hand, and an adapter   *)
(* reads some of their state back.                                         *)
(***************************************************************************)
EXTENDS PolicyDeclaration

CONSTANTS
    Declarations,   \* declarations the repository may hold, one after the other
    FoldOf,         \* FoldOf[db]: the name PostgreSQL reads in an unquoted db
    Present,        \* sets of schemas and tables others may have created before the first run
    MaxRevisions, MaxCrashes, MaxManual

\* Assumed of the constants; the module that instantiates this one states it.
PgAssumption == \A d \in Declarations : DeclarationOk(d) /\ ValidateDeclaration(d) = {}

VARIABLES
    decl,       \* the deployed declaration
    todo,       \* what is left of the script: a sequence of sets of statements
    job,        \* "running", "done" or "failed"
    pg,         \* facts of the database
    kc,         \* realm roles and groups of Keycloak
    report,     \* the last drift report
    revisions, crashes, manual

vars == <<decl, todo, job, pg, kc, report, revisions, crashes, manual>>

----------------------------------------------------------------------------
(* compilePgDdl *)

PgEntries(d) == {d.entries[i] : i \in {i \in DOMAIN d.entries : d.entries[i].engine = "postgres"}}

\* The tables of the model are in one schema.
Schema == "public"

RolesGranted(d, privileges) ==
    UNION {UNION {g.roles : g \in {g \in e.grants : g.privileges \cap privileges # {}}} : e \in PgEntries(d)}

CreateRoles(d) == {<<"role", PgOf[r], "NOLOGIN">> : r \in d.roles}

GrantRoles(d) == UNION {{<<"member", PgOf[p], PgOf[r]>> : p \in d.includes[r]} : r \in d.roles}

GrantSchemas(d) == {<<"usage", Schema, PgOf[r]>> : r \in RolesGranted(d, Privileges)}

GrantTables(d) ==
    UNION {UNION {{<<"table", e.resource, PgOf[r], g.privileges>> : r \in g.roles} : g \in e.grants} : e \in PgEntries(d)}

GrantSequences(d) == {<<"sequences", Schema, PgOf[r]>> : r \in RolesGranted(d, {"insert"})}

CreateLogins(d) == {<<"role", l.name, "LOGIN">> : l \in d.logins}

BindLogins(d) == UNION {{<<"member", PgOf[r], l.name>> : r \in l.memberOf} : l \in d.logins}

Reachable(d, l) == UNION {ExpandRoles(d, r) : r \in l.memberOf}

\* CONNECT goes to the roles with a table grant that some login of the database reaches.
GrantConnect(d) ==
    UNION {{<<"connect", l.database, PgOf[r]>> : r \in RolesGranted(d, Privileges) \cap Reachable(d, l)} : l \in d.logins}

BadCompilePgDdl(d) ==
    <<GrantRoles(d), CreateRoles(d), GrantSchemas(d), GrantTables(d), GrantSequences(d),
      CreateLogins(d), BindLogins(d), GrantConnect(d)>>

CompilePgDdl(d) ==
    <<CreateRoles(d), GrantRoles(d), GrantSchemas(d), GrantTables(d), GrantSequences(d),
      CreateLogins(d), BindLogins(d), GrantConnect(d)>>

----------------------------------------------------------------------------
(* PostgreSQL *)

\* A role and the roles it inherits from.
Inherited(db, n) ==
    LET held[k \in Nat] == IF k = 0 THEN {n}
                           ELSE held[k - 1] \cup {f[2] : f \in {f \in db : f[1] = "member" /\ f[3] \in held[k - 1]}}
    IN  held[Cardinality(Names)]

Exists(db, n) == <<"role", n>> \in db

BadCreateIfMissing(db, n) == ~ Exists(db, n)

\* CREATE ROLE stands in a DO block under IF NOT EXISTS, so that a role that is there is no error.
CreateIfMissing(db, n) == TRUE

\* A schema or table is there; the script creates none.
Stands(db, r) == <<"relation", r>> \in db

Executes(db, s) ==
    CASE s[1] = "role"    -> CreateIfMissing(db, s[2])
      [] s[1] = "member"  -> Exists(db, s[2]) /\ Exists(db, s[3]) /\ s[3] \notin Inherited(db, s[2])
      [] s[1] = "connect" -> FoldOf[s[2]] \in Databases /\ Exists(db, s[3])
      [] OTHER            -> Stands(db, s[2]) /\ Exists(db, s[3])

\* A role that is there keeps the attribute it was created with.
FactsOf(db, s) ==
    CASE s[1] = "role"    -> {<<"role", s[2]>>} \cup
                                (IF s[3] = "LOGIN" /\ ~ Exists(db, s[2]) THEN {<<"login", s[2]>>} ELSE {})
      [] s[1] = "table"   -> {<<"table", s[2], s[3], p>> : p \in s[4]}
      [] s[1] = "connect" -> {<<"connect", FoldOf[s[2]], s[3]>>}
      [] OTHER            -> {s}

----------------------------------------------------------------------------
(* drift.ts *)

\* A line is a GRANT on a table, as the adapter writes it: one privilege a line, in any order, with or
\* without the grant option; or something else, which the pattern does not match.
ParseGrantLine(line) ==
    IF line[1] # "table" THEN <<>> ELSE <<line[2], line[3], line[4] \cup (IF line[5] THEN {"GRANT OPTION"} ELSE {})>>

Parsed(lines) == {ParseGrantLine(l) : l \in lines} \ {<<>>}

\* mergeGrantLines: the union of the privileges of a key's lines.
PrivilegesOf(lines, key) == UNION {p[3] : p \in {p \in Parsed(lines) : <<p[1], p[2]>> = key}}

Keys(lines) == {<<p[1], p[2]>> : p \in Parsed(lines)}

Unparsed(lines) == {l \in lines : ParseGrantLine(l) = <<>>}

\* The lines of the compiled script that are grants on tables.
DesiredLines(d) == {<<"table", s[2], s[3], s[4], FALSE>> : s \in GrantTables(d)}

DiffPgGrants(d, lines) ==
    {<<"manual", "unparsed", l>> : l \in Unparsed(lines)}
      \cup {<<"unapplied", "grant", k>> : k \in Keys(DesiredLines(d)) \ Keys(lines)}
      \cup {<<"mismatch", "grant", k>> : k \in {k \in Keys(DesiredLines(d)) \cap Keys(lines) :
                                                  PrivilegesOf(lines, k) # PrivilegesOf(DesiredLines(d), k)}}
      \cup {<<"manual", "grant", k>> : k \in Keys(lines) \ Keys(DesiredLines(d))}

DiffKeycloakRoles(d, actual) ==
    {<<"unapplied", "role", r>> : r \in d.roles \ actual} \cup {<<"manual", "role", r>> : r \in actual \ d.roles}

DeclaredGroups(d) == {g \in Groups : d.groups[g] # {}}

\* Mutant: a group that is on both sides is taken for equal.
BadDiffKeycloakGroups(d, actual) ==
    {<<"unapplied", "group", g>> : g \in DeclaredGroups(d) \ DOMAIN actual}
      \cup {<<"manual", "group", g>> : g \in DOMAIN actual \ DeclaredGroups(d)}

DiffKeycloakGroups(d, actual) ==
    {<<"unapplied", "group", g>> : g \in DeclaredGroups(d) \ DOMAIN actual}
      \cup {<<"mismatch", "group", g>> : g \in {g \in DeclaredGroups(d) \cap DOMAIN actual : actual[g] # d.groups[g]}}
      \cup {<<"manual", "group", g>> : g \in DOMAIN actual \ DeclaredGroups(d)}

Categories == {"keycloakRoles", "keycloakGroups", "pgGrants"}

\* A category the adapter did not return is not compared; one it returned empty is.
Compared(d, read, cat, items) == IF cat \in read THEN items ELSE {}

DiffState(d, read, roles, groups, lines) ==
    [items |-> Compared(d, read, "keycloakRoles", DiffKeycloakRoles(d, roles))
                 \cup Compared(d, read, "keycloakGroups", DiffKeycloakGroups(d, groups))
                 \cup Compared(d, read, "pgGrants", DiffPgGrants(d, lines)),
     checked |-> read]

----------------------------------------------------------------------------
(* The deployment *)

NoReport == [items |-> {}, checked |-> {}]

DesiredKeycloak(d) == [roles |-> d.roles, groups |-> [g \in DeclaredGroups(d) |-> d.groups[g]]]

Init ==
    /\ decl \in Declarations
    /\ todo = CompilePgDdl(decl) /\ job = "running"
    /\ \E relations \in Present : pg = {<<"relation", r>> : r \in relations}
    /\ kc = DesiredKeycloak(decl) /\ report = NoReport
    /\ revisions = 0 /\ crashes = 0 /\ manual = 0

\* The statements of a stage come in a fixed order, by name.
Statement == CHOOSE s \in Head(todo) : TRUE

\* A report is of the state it was read from: it is dropped when that changes.
RunStatement ==
    /\ job = "running" /\ todo # <<>> /\ Head(todo) # {}
    /\ LET s == Statement IN
           IF Executes(pg, s)
           THEN /\ pg' = pg \cup FactsOf(pg, s)
                /\ todo' = [todo EXCEPT ![1] = @ \ {s}]
                /\ UNCHANGED job
           ELSE job' = "failed" /\ UNCHANGED <<pg, todo>>
    /\ report' = NoReport
    /\ UNCHANGED <<decl, kc, revisions, crashes, manual>>

NextStage ==
    /\ job = "running" /\ todo # <<>> /\ Head(todo) = {}
    /\ todo' = Tail(todo)
    /\ job' = IF Tail(todo) = <<>> THEN "done" ELSE job
    /\ UNCHANGED <<decl, pg, kc, report, revisions, crashes, manual>>

\* The pod of the job dies between two statements; the job is restarted and runs the script again.
Crash ==
    /\ job = "running" /\ crashes < MaxCrashes
    /\ crashes' = crashes + 1 /\ todo' = CompilePgDdl(decl)
    /\ UNCHANGED <<decl, job, pg, kc, report, revisions, manual>>

\* A new declaration is merged and synchronised: its own job runs.
Revise(d) ==
    /\ revisions < MaxRevisions /\ d # decl
    /\ revisions' = revisions + 1 /\ decl' = d
    /\ todo' = CompilePgDdl(d) /\ job' = "running" /\ report' = NoReport
    /\ UNCHANGED <<pg, kc, crashes, manual>>

\* An operator changes the database by hand: grants on a table or on the schema, or revokes; creates a
\* table, or drops one with the grants on it.
Manual(f) ==
    /\ manual < MaxManual /\ Stands(pg, IF f[1] = "relation" THEN Schema ELSE f[2])
    /\ manual' = manual + 1 /\ report' = NoReport
    /\ pg' = IF f \notin pg THEN pg \cup {f}
             ELSE pg \ (IF f[1] = "relation" THEN {g \in pg : g[2] = f[2]} ELSE {f})
    /\ UNCHANGED <<decl, todo, job, kc, revisions, crashes>>

\* What the adapter reads: the privileges on tables, and what else it was told to list.
Lines == {<<"table", f[2], f[3], {f[4]}, <<"option", f[2], f[3], f[4]>> \in pg>> : f \in {f \in pg : f[1] = "table"}}
           \cup {<<"usage", f[2], f[3]>> : f \in {f \in pg : f[1] = "usage" /\ f \notin GrantSchemas(decl)}}

\* What the readers of Keycloak and PostgreSQL return; one that timed out returns nothing of its category.
ReadState(read) ==
    /\ job # "running" /\ report = NoReport
    /\ report' = DiffState(decl, read,
                           IF "keycloakRoles" \in read THEN kc.roles ELSE {},
                           IF "keycloakGroups" \in read THEN kc.groups ELSE [g \in {} |-> {}],
                           IF "pgGrants" \in read THEN Lines ELSE {})
    /\ UNCHANGED <<decl, todo, job, pg, kc, revisions, crashes, manual>>

\* A role or group made, changed or deleted in the console of Keycloak.
ManualKeycloak(new) ==
    /\ manual < MaxManual /\ new # kc
    /\ manual' = manual + 1 /\ report' = NoReport
    /\ kc' = new
    /\ UNCHANGED <<decl, todo, job, pg, revisions, crashes>>

Consoles == [roles : SUBSET Names, groups : UNION {[s -> (SUBSET Names) \ {{}}] : s \in SUBSET Groups}]

ManualFacts == UNION {{<<"table", e.resource, PgOf[r], "delete">> : e \in PgEntries(decl), r \in decl.roles},
                      {<<"option", e.resource, PgOf[r], "select">> : e \in PgEntries(decl), r \in decl.roles},
                      {<<"relation", e.resource>> : e \in PgEntries(decl)},
                      {<<"usage", Schema, l.name>> : l \in decl.logins}}

Next ==
    \/ RunStatement \/ NextStage \/ Crash
    \/ \E d \in Declarations : Revise(d)
    \/ \E f \in ManualFacts : Manual(f)
    \/ \E k \in Consoles : ManualKeycloak(k)
    \/ \E read \in SUBSET Categories : ReadState(read)

\* The job controller restarts the pod and the script runs on.
Fairness == WF_vars(NextStage \/ RunStatement)

Spec == Init /\ [][Next]_vars /\ Fairness

----------------------------------------------------------------------------
(* Properties *)

Access(n, t, p) == \E m \in Inherited(pg, n) : <<"table", t, m, p>> \in pg

Connects(n, db) == \E m \in Inherited(pg, n) : <<"connect", db, m>> \in pg

UserRoles(l) == UNION {ExpandRoles(decl, r) : r \in l.memberOf}

Declared(l) == {<<t, p>> \in {e.resource : e \in PgEntries(decl)} \X Privileges :
                    \E e \in PgEntries(decl) : e.resource = t
                        /\ \E g \in e.grants : p \in g.privileges /\ g.roles \cap UserRoles(l) # {}}

\* Once the job is done every login can log in, unless an earlier declaration made its name a role, and
\* has the privileges its roles give it, inclusions followed, can use the schema, and may connect to its
\* own database whenever it has any.
LoginsWork ==
    job = "done" /\ manual = 0 => \A l \in decl.logins :
        /\ revisions = 0 => <<"login", l.name>> \in pg
        /\ \A tp \in Declared(l) :
              /\ Access(l.name, tp[1], tp[2])
              /\ \E m \in Inherited(pg, l.name) : <<"usage", Schema, m>> \in pg
              /\ Connects(l.name, l.database)

\* On a database that saw one declaration only, a login has no privilege and no connection that its
\* roles do not give it: role names that fold into one, or a product of roles and databases, would.
NothingBeyondDeclared ==
    revisions = 0 /\ manual = 0 => \A l \in decl.logins :
        /\ \A e \in PgEntries(decl), p \in Privileges : Access(l.name, e.resource, p) => <<e.resource, p>> \in Declared(l)
        /\ \A db \in Databases : Connects(l.name, db) =>
               \E k \in decl.logins : k.database = db /\ UserRoles(k) \cap UserRoles(l) # {}

\* The script fails only on a loop, where the memberships of an earlier declaration, which no script
\* revokes, meet a new inclusion, or on a grant whose table or schema nobody has created: its own
\* statements are in an order in which every role is there before it is used.
Blocked(s) == \/ s[1] = "member" /\ s[3] \in Inherited(pg, s[2])
              \/ s[1] \in {"usage", "table", "sequences"} /\ ~ Stands(pg, s[2])
FailsForCause == job = "failed" /\ manual = 0 => Blocked(Statement)

\* Everything a report may compare agrees with the declaration: for each table and role the database has
\* the declared privileges without the option to pass them on, nothing was read that is not understood,
\* and Keycloak has the declared roles and the declared groups with the declared roles.
InStep(cat) ==
    CASE cat = "keycloakRoles"  -> kc.roles = decl.roles
      [] cat = "keycloakGroups" -> kc.groups = DesiredKeycloak(decl).groups
      [] cat = "pgGrants" ->
            /\ \A f \in {f \in pg : f[1] = "table"} : \E s \in GrantTables(decl) : s[2] = f[2] /\ s[3] = f[3] /\ f[4] \in s[4]
            /\ \A s \in GrantTables(decl) : \A p \in s[4] : <<"table", s[2], s[3], p>> \in pg
            /\ \A f \in {f \in pg : f[1] = "option"} : <<"table", f[2], f[3], f[4]>> \notin pg
            /\ \A f \in {f \in pg : f[1] = "usage"} : f \in GrantSchemas(decl)

\* A report has no item exactly when everything it checked agrees with the declaration, whatever the
\* readers left out, how they split the grants into lines, and what was granted by hand or left behind.
CleanMeansEqual == report # NoReport => (report.items = {} <=> \A cat \in report.checked : InStep(cat))

\* What was not read is not reported, and a finished job that nobody interfered with leaves nothing unapplied.
ReportIsHonest ==
    /\ report.checked = {} => report.items = {}
    /\ job = "done" /\ manual = 0 => \A i \in report.items : i[2] = "grant" => i[1] # "unapplied"

\* However often the pod dies and whatever was applied before, where no inclusion is turned around and
\* the declared tables are there the job of the last declaration ends well: a second run finds its roles and grants in place and goes on.
JobSucceeds == <>[](job = "done")
=============================================================================
