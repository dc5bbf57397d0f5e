----------------------------- MODULE PolicyRego -----------------------------
(***************************************************************************)
(* compileAll, compileRego and compileKeycloak of the policy compiler, and *)
(* what Keycloak, OPA and Trino do with the result.  An author writes a    *)
(* declaration entry by entry and compiles it; a user holds one declared   *)
(* role or is a member of one declared group, Keycloak puts the composite  *)
(* closure of that into the token, and Trino asks OPA with the roles of    *)
(* the token as groups.  The compiled policy is the set of its rules.      *)
(***************************************************************************)
EXTENDS PolicyDeclaration

CONSTANTS
    Starts,         \* roles, inclusions, groups and catalog grants the author starts from
    EntryChoices,   \* entries, without grants, that the author may add
    GrantChoices,   \* grants that the author may add
    MaxEntries, MaxGrants

\* What the author writes passes the schema of the policy files.
\* Assumed of the constants; the module that instantiates this one states it.
ChoicesAssumption ==
    /\ \A d \in Starts : DeclarationOk(d)
    /\ EntryChoices \subseteq Entry /\ GrantChoices \subseteq Grant

VARIABLES
    decl,       \* the declaration
    out         \* what compileAll gave: nothing yet, its errors, or the three outputs

vars == <<decl, out>>

Nothing == [errors |-> {}, compiled |-> FALSE]

----------------------------------------------------------------------------
(* compileRego *)

OperationOf == [select |-> "SelectFromColumns", insert |-> "InsertIntoTable",
                update |-> "UpdateTableColumns", delete |-> "DeleteFromTable"]

\* The part of the request that holds the catalog's name.
OperationResourceShape ==
    [ExecuteQuery |-> "none", AccessCatalog |-> "catalog", ShowSchemas |-> "catalog", FilterCatalogs |-> "catalog",
     ShowTables |-> "schema", FilterSchemas |-> "schema", ShowFunctions |-> "schema",
     ShowColumns |-> "table", ShowCreateTable |-> "table", FilterTables |-> "table", FilterColumns |-> "table",
     SetCatalogSessionProperty |-> "catalogSessionProperty"]

Effective(d, roles) == UNION {HoldersOf(d, r) : r \in roles}

UnmaskedGroups(d, e) == UNION {Effective(d, g.roles) : g \in {g \in e.grants : g.allowUnmasked}}

\* The tokens a mask or a row filter does not apply to.
UnmaskedGuard(d, e, g) == IF g.allowUnmasked THEN {} ELSE UnmaskedGroups(d, e)

TrinoEntries(d) == {d.entries[i] : i \in {i \in DOMAIN d.entries : d.entries[i].engine = "trino"}}

\* An allow rule: the operation, the values the resource must have ("any" is not tested), and the groups.
AllowRule(op, shape, catalog, schemas, table, groups) ==
    [operation |-> op, shape |-> shape, catalog |-> catalog, schemas |-> schemas, table |-> table, groups |-> groups]

TableRules(d) ==
    UNION {UNION {{AllowRule(OperationOf[p], "table", DeployedCatalog, {"lake"}, e.resource, Effective(d, g.roles)) :
                      p \in g.privileges} : g \in e.grants} : e \in TrinoEntries(d)}

MaskRules(d) ==
    UNION {UNION {{[table |-> e.resource, column |-> c, kind |-> g.columnMask[c], groups |-> g.roles,
                    guard |-> UnmaskedGuard(d, e, g)] : c \in Masked(g)} : g \in e.grants} : e \in TrinoEntries(d)}

FilterRules(d) ==
    UNION {{[table |-> e.resource, groups |-> g.roles, guard |-> UnmaskedGuard(d, e, g)] :
               g \in {g \in e.grants : g.rowFilter # None}} : e \in TrinoEntries(d)}

DeclaredOperationRules(d) ==
    UNION {{AllowRule(op, OperationResourceShape[op], c.catalog, {"any"}, "any", Effective(d, c.roles)) :
               op \in c.operations} : c \in d.catalogGrants}

BadInformationSchemaRules(d) ==
    {AllowRule("SelectFromColumns", "table", c.catalog, {"any"}, "any", Effective(d, c.roles)) : c \in d.catalogGrants}

InformationSchemaRules(d) ==
    {AllowRule("SelectFromColumns", "table", c.catalog, {"information_schema"}, "any", Effective(d, c.roles)) :
        c \in d.catalogGrants}

SystemCatalogOperations ==
    {<<"AccessCatalog", "catalog">>, <<"FilterCatalogs", "catalog">>, <<"ShowSchemas", "catalog">>, <<"FilterSchemas", "schema">>}

SystemMetadataOperations ==
    {<<"ShowTables", "schema">>, <<"FilterTables", "table">>, <<"ShowColumns", "table">>,
     <<"FilterColumns", "table">>, <<"SelectFromColumns", "table">>}

\* Trino's own system catalog: its jdbc and metadata schemas, never runtime.
SystemRules(d) ==
    UNION {{AllowRule(o[1], o[2], "system", {"any"}, "any", Effective(d, c.roles)) : o \in SystemCatalogOperations}
             \cup {AllowRule(o[1], o[2], "system", {"jdbc", "metadata"}, "any", Effective(d, c.roles)) :
                      o \in SystemMetadataOperations} :
           c \in {c \in d.catalogGrants : "AccessCatalog" \in c.operations}}

----------------------------------------------------------------------------
(* compileKeycloak and compileAll *)

Composites(d) == [r \in d.roles |-> d.includes[r]]

RealmGroups(d) == [g \in {g \in Groups : d.groups[g] # {}} |-> d.groups[g]]

CompileAll(d) ==
    IF ValidateDeclaration(d) # {} THEN [errors |-> ValidateDeclaration(d), compiled |-> FALSE]
    ELSE [errors |-> {}, compiled |-> TRUE,
          allow |-> TableRules(d) \cup DeclaredOperationRules(d) \cup InformationSchemaRules(d) \cup SystemRules(d),
          mask |-> MaskRules(d), filters |-> FilterRules(d),
          composites |-> Composites(d), groups |-> RealmGroups(d)]

----------------------------------------------------------------------------
(* Keycloak and OPA *)

\* The roles in the token of a holder of these realm roles: Keycloak expands composite roles.
TokenOf(o, roles) ==
    LET held[n \in Nat] == IF n = 0 THEN roles
                           ELSE held[n - 1] \cup UNION {o.composites[r] : r \in held[n - 1]}
    IN  held[Cardinality(Names)]

Tokens(o) == {TokenOf(o, {r}) : r \in DOMAIN o.composites} \cup {TokenOf(o, o.groups[g]) : g \in DOMAIN o.groups}

Allows(o, token, op, catalog, schema, table) ==
    \E r \in o.allow :
        /\ r.operation = op
        /\ r.shape # "none" => r.catalog = catalog
        /\ r.schemas = {"any"} \/ schema \in r.schemas
        /\ r.table \in {"any", table}
        /\ r.groups \cap token # {}

\* A rule body that holds of a token: a group of it is named, and none is kept out by the guard.
Applies(r, token) == r.groups \cap token # {} /\ r.guard \cap token = {}

\* The values the complete rule columnMask takes: OPA fails with eval_conflict_error on two.
Masks(o, token, table, column) ==
    {r.kind : r \in {r \in o.mask : r.table = table /\ r.column = column /\ Applies(r, token)}}

----------------------------------------------------------------------------
(* The author *)

Init == decl \in Starts /\ out = Nothing

GrantCount == LET count[n \in 0..Len(decl.entries)] ==
                      IF n = 0 THEN 0 ELSE count[n - 1] + Cardinality(decl.entries[n].grants)
              IN  count[Len(decl.entries)]

AddEntry(e) ==
    /\ out = Nothing /\ Len(decl.entries) < MaxEntries
    /\ decl' = [decl EXCEPT !.entries = Append(@, e)]
    /\ UNCHANGED out

AddGrant(g) ==
    /\ out = Nothing /\ decl.entries # <<>> /\ GrantCount < MaxGrants
    /\ decl' = [decl EXCEPT !.entries[Len(decl.entries)].grants = @ \cup {g}]
    /\ UNCHANGED out

Compile ==
    /\ out = Nothing
    /\ out' = CompileAll(decl)
    /\ UNCHANGED decl

Next == (\E e \in EntryChoices : AddEntry(e)) \/ (\E g \in GrantChoices : AddGrant(g)) \/ Compile

Spec == Init /\ [][Next]_vars

----------------------------------------------------------------------------
(* What a compiled declaration means, read from the declaration alone *)

GrantsOf(e, roles) == {g \in e.grants : g.roles \cap roles # {}}

Tables == {e.resource : e \in TrinoEntries(decl)}

Reads(token, table) == Allows(out, token, "SelectFromColumns", DeployedCatalog, "lake", table)

\* No user who holds one role or one group of an accepted declaration makes OPA fail with two different
\* masks of a column (CONFLICTING_MASK and DUPLICATE_RESOURCE of validate.ts against the guards of rego.ts).
NoEvalConflict ==
    out.compiled => \A t \in Tokens(out), e \in TrinoEntries(decl), c \in Columns : Cardinality(Masks(out, t, e.resource, c)) <= 1

\* validate.ts refuses no policy that would work: when conflicting masks are the only error, the rules
\* that would be compiled do conflict for some role or group.
RefusedConflictIsReal ==
    out.errors = {"CONFLICTING_MASK"} =>
        LET o == [mask |-> MaskRules(decl), composites |-> Composites(decl), groups |-> RealmGroups(decl)]
        IN  \E t \in Tokens(o), e \in TrinoEntries(decl), c \in Columns : Cardinality(Masks(o, t, e.resource, c)) > 1

\* Whoever may read a table of class pii sees none of its sensitive columns unmasked, unless a role of
\* theirs has a grant on it that says allowUnmasked.
PiiIsMasked ==
    out.compiled => \A t \in Tokens(out), e \in TrinoEntries(decl) :
        e.pii /\ Reads(t, e.resource) /\ (\A g \in GrantsOf(e, t) : ~ g.allowUnmasked)
            => \A c \in e.sensitiveColumns : Masks(out, t, e.resource, c) # {}

\* The masks a grant with allowUnmasked still declares hold for everyone who has the grant, whatever other
\* grants that opt out are in the same token.
OptOutKeepsOwnMask ==
    out.compiled => \A t \in Tokens(out), e \in TrinoEntries(decl), c \in Columns :
        \A g \in GrantsOf(e, t) : g.allowUnmasked /\ c \in Masked(g) => g.columnMask[c] \in Masks(out, t, e.resource, c)

\* A user whose every grant on a table has a row filter reads it through a filter, or has opted out.
RowsAreFiltered ==
    out.compiled => \A t \in Tokens(out), e \in TrinoEntries(decl) :
        /\ Reads(t, e.resource)
        /\ \A g \in GrantsOf(e, t) : g.rowFilter # None /\ ~ g.allowUnmasked
        => \E r \in out.filters : r.table = e.resource /\ Applies(r, t)

\* The policy, with the tokens Keycloak issues, allows an operation on a table to exactly the users whose
\* declared roles, inclusions followed, have a grant for it.
AllowsAsDeclared ==
    out.compiled => \A t \in Tokens(out), e \in TrinoEntries(decl), p \in Privileges :
        Allows(out, t, OperationOf[p], DeployedCatalog, "lake", e.resource)
            <=> \E f \in TrinoEntries(decl) : f.resource = e.resource /\ \E g \in GrantsOf(f, t) : p \in g.privileges

\* A grant of an accepted declaration is never dead: every role it names is in some token that it allows
\* the operation, and every catalog operation works on the deployed catalog for the holders it names.
NoDeadGrant ==
    out.compiled =>
        /\ \A e \in TrinoEntries(decl) : \A g \in e.grants : \A r \in g.roles, p \in g.privileges :
              \E t \in Tokens(out) : r \in t /\ Allows(out, t, OperationOf[p], DeployedCatalog, "lake", e.resource)
        /\ \A c \in decl.catalogGrants : \A r \in c.roles, op \in c.operations :
              \E t \in Tokens(out) : r \in t /\ Allows(out, t, op, DeployedCatalog, "lake", "events")

\* Catalog grants open no data: what a user may select from is a table granted to a role of theirs, an
\* information_schema, or the jdbc and metadata schemas of the system catalog.
CatalogGrantsGiveNoData ==
    out.compiled => \A t \in Tokens(out), cat \in {DeployedCatalog, "system", "postgres"},
                       s \in {"lake", "information_schema", "jdbc", "runtime"}, table \in Tables \cup {"other"} :
        Allows(out, t, "SelectFromColumns", cat, s, table) =>
            \/ cat = DeployedCatalog /\ s = "information_schema"
            \/ cat = "system" /\ s = "jdbc"
            \/ cat = DeployedCatalog /\ s = "lake" /\ \E e \in TrinoEntries(decl) : e.resource = table /\ GrantsOf(e, t) # {}
=============================================================================
