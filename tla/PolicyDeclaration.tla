------------------------- MODULE PolicyDeclaration -------------------------
(***************************************************************************)
(* The access declaration of policies/*.yaml (policy-compiler/schema.ts)   *)
(* and validateDeclaration of validate.ts.  A declaration lists roles that *)
(* include other roles, groups of roles, resource entries with grants,     *)
(* grants on a catalog, and logins.  Names are values of a set: Names are  *)
(* the names that may stand where a role is expected, and the ones outside *)
(* RoleNames are malformed.  The YAML lists whose order and repetitions do *)
(* not matter to the compilers are sets; the entries stay a list because   *)
(* a table may be declared twice.                                          *)
(***************************************************************************)
EXTENDS Naturals, Sequences, FiniteSets

CONSTANTS
    Names,      \* what stands where a role is expected
    RoleNames,  \* the names that match ROLE_NAME
    Groups,     \* group names, all well formed
    Columns,    \* column names, all well formed
    Kinds,      \* kinds of masks
    Logins,     \* login names, all well formed
    Databases,  \* database names, all well formed
    PgOf        \* PgOf[n]: toPgRole, the name in PostgreSQL of role n; of a login, its own name

\* Assumed of the constants; the module that instantiates this one states it.
NamesAssumption == RoleNames \subseteq Names /\ DOMAIN PgOf = Names \cup Logins

DeployedCatalog == "iceberg"

Privileges == {"select", "insert", "update", "delete"}

None == "none"

\* A column mask is a function from columns to a kind, None where the column has no mask.
Grant == [roles : SUBSET Names \ {{}}, privileges : SUBSET Privileges \ {{}},
          columnMask : [Columns -> Kinds \cup {None}], rowFilter : {None, "accepted", "refused"},
          allowUnmasked : BOOLEAN]

Entry == [resource : STRING, engine : {"trino", "postgres"}, pii : BOOLEAN,
          sensitiveColumns : SUBSET Columns, grants : SUBSET Grant]

CatalogGrant == [catalog : STRING, roles : SUBSET Names \ {{}}, operations : SUBSET STRING \ {{}}]

Login == [name : Logins, memberOf : SUBSET Names \ {{}}, database : Databases]

\* d.roles: the declared roles; d.includes[r]: what role r includes; d.groups[g]: {} when g is not declared.
DeclarationOk(d) ==
    /\ d.roles \subseteq Names
    /\ d.includes \in [d.roles -> SUBSET Names]
    /\ d.groups \in [Groups -> SUBSET Names]
    /\ \A i \in DOMAIN d.entries : d.entries[i] \in Entry
    /\ d.catalogGrants \subseteq CatalogGrant
    /\ d.logins \subseteq Login

----------------------------------------------------------------------------
(* Inheritance *)

IncludesOf(d, r) == IF r \in d.roles THEN d.includes[r] ELSE {}

\* The walk over includes: a name already seen is not walked again.
ExpandRoles(d, r) ==
    LET seen[n \in Nat] == IF n = 0 THEN {r}
                           ELSE seen[n - 1] \cup UNION {IncludesOf(d, x) : x \in seen[n - 1]}
    IN  seen[Cardinality(Names)]

HoldersOf(d, r) == {h \in d.roles : r \in ExpandRoles(d, h)}

GroupEffectiveRoles(d, g) == UNION {ExpandRoles(d, r) : r \in d.groups[g]}

BadHoldersOfIncludingGroups(d, r) == HoldersOf(d, r) \X {"role"}

\* Roles and groups are separate namespaces, hence the tags.
HoldersOfIncludingGroups(d, r) ==
    (HoldersOf(d, r) \X {"role"}) \cup ({g \in Groups : r \in GroupEffectiveRoles(d, g)} \X {"group"})

Holders(d, roles) == UNION {HoldersOfIncludingGroups(d, r) : r \in roles}

FindCycle(d) == \E r \in d.roles : \E p \in d.includes[r] : r \in ExpandRoles(d, p)

----------------------------------------------------------------------------
(* Errors of roles and groups *)

Error(code, cond) == IF cond THEN {code} ELSE {}

NameErrors(d, names) ==
    Error("UNKNOWN_ROLE", ~ names \subseteq d.roles) \cup Error("INVALID_IDENTIFIER", ~ names \subseteq RoleNames)

RoleErrors(d) == Error("INVALID_IDENTIFIER", ~ d.roles \subseteq RoleNames)
                     \cup UNION {NameErrors(d, d.includes[r]) : r \in d.roles}

Collision(d) == Error("ROLE_NAME_COLLISION", \E r, s \in d.roles : r # s /\ PgOf[r] = PgOf[s])

GroupErrors(d) == UNION {NameErrors(d, d.groups[g]) : g \in Groups}

----------------------------------------------------------------------------
(* Errors of resources *)

Key(e) == <<e.engine, e.resource>>

DuplicateResource(d) ==
    Error("DUPLICATE_RESOURCE", \E i, j \in DOMAIN d.entries : i # j /\ Key(d.entries[i]) = Key(d.entries[j]))

Masked(g) == {c \in Columns : g.columnMask[c] # None}

PostgresErrors(e) ==
    Error("POSTGRES_UNSUPPORTED_MASK", e.engine = "postgres" /\ \E g \in e.grants : Masked(g) # {})
      \cup Error("POSTGRES_UNSUPPORTED_ROW_FILTER", e.engine = "postgres" /\ \E g \in e.grants : g.rowFilter # None)

Uncovered(e, g) == e.sensitiveColumns \ Masked(g)

PiiErrors(e) ==
    Error("PII_NO_SENSITIVE_COLUMNS", e.pii /\ e.sensitiveColumns = {})
      \cup Error("PII_UNMASKED", e.pii /\ \E g \in e.grants :
                     "select" \in g.privileges /\ ~ g.allowUnmasked /\ Uncovered(e, g) # {})

RowFilterErrors(e) == Error("ROW_FILTER_REJECTED", \E g \in e.grants : g.rowFilter = "refused")

\* The holders a grant without opt-out does not mask: those of the grants of the entry that opt out.
ResourceUnmasked(d, e) == UNION {Holders(d, g.roles) : g \in {g \in e.grants : g.allowUnmasked}}

\* Holders of two grants that no guard keeps apart.
Overlap(d, e, a, b) ==
    IF a.allowUnmasked # b.allowUnmasked THEN {}
    ELSE (Holders(d, a.roles) \cap Holders(d, b.roles)) \ (IF a.allowUnmasked THEN {} ELSE ResourceUnmasked(d, e))

ConflictingMask(d, e) ==
    Error("CONFLICTING_MASK", \E c \in Columns : \E a, b \in {g \in e.grants : c \in Masked(g)} :
                                  a.columnMask[c] # b.columnMask[c] /\ Overlap(d, e, a, b) # {})

GrantRoleErrors(d, e) == UNION {NameErrors(d, g.roles) : g \in e.grants}

EntryErrors(d, e) ==
    PostgresErrors(e) \cup PiiErrors(e) \cup RowFilterErrors(e) \cup GrantRoleErrors(d, e) \cup ConflictingMask(d, e)

----------------------------------------------------------------------------
(* Errors of catalog grants and logins *)

CatalogErrors(d) ==
    Error("UNSUPPORTED_CATALOG", \E c \in d.catalogGrants : c.catalog # DeployedCatalog)
      \cup UNION {NameErrors(d, c.roles) : c \in d.catalogGrants}
      \cup Error("DUPLICATE_CATALOG_GRANT", \E a, b \in d.catalogGrants :
                     a # b /\ a.catalog = b.catalog /\ a.operations \cap b.operations # {})

LoginErrors(d) ==
    Error("LOGIN_NAME_COLLISION", \E l \in d.logins : \E r \in d.roles : l.name = PgOf[r])
      \cup Error("UNKNOWN_ROLE", \E l \in d.logins : ~ l.memberOf \subseteq d.roles)

ValidateDeclaration(d) ==
    Error("CYCLIC_INHERITANCE", FindCycle(d)) \cup RoleErrors(d) \cup Collision(d) \cup GroupErrors(d)
      \cup DuplicateResource(d) \cup UNION {EntryErrors(d, d.entries[i]) : i \in DOMAIN d.entries}
      \cup CatalogErrors(d) \cup LoginErrors(d)
=============================================================================
