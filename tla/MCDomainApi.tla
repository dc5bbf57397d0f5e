---------------------------- MODULE MCDomainApi -----------------------------
(* The domain API server for TLC: its start-up and authentication, what the    *)
(* SSO change service stands on (GitHub transport, database pool, SSO          *)
(* configuration source and edit engine), and the rules of its read routes.    *)
(* The module extends the components that theorems are about, whose names are  *)
(* used as they are, and instantiates the others.  The parts share no state,   *)
(* so one behaviour runs one of them (part) and the others rest.               *)
EXTENDS StorePool, SsoSource, GithubTransport, ApiAuth, ApiStartup, Sequences, SequencesExt, TLC

CONSTANTS a, b, c1, c2

VARIABLES
  part,
  edited, pr, result,
  inventory, live, filter, pageSize, page, answers,
  asset, id, parsed, context,
  sql, i, mode, out, pass, first,
  entities, rule, links,
  inputs, pipelines, skipped, batch

editVars == <<edited, pr, result>>
listVars == <<inventory, live, filter, pageSize, page, answers>>
assetVars == <<asset, id, parsed, context>>
sqlVars == <<sql, i, mode, out, pass, first>>
correlationVars == <<entities, rule, links>>
mappingVars == <<inputs, pipelines, skipped, batch>>
ssoVars == <<transportVars, poolVars, vars, editVars>>
readVars == <<listVars, assetVars, sqlVars, correlationVars, mappingVars>>

----------------------------------------------------------------------------
(* Instances of the SSO change service's foundations *)

\* Lists with comments, and one that is the alias of the other.
Aliases == INSTANCE SsoEdit WITH
  main <- edited, Names <- {"flink", "filer"}, Modes <- {"gateway-oidc", "none"}, Fields <- {"all"},
  Hosts <- {"label"}, Issuers <- {"absent"}, Formats <- {"stable", "unstable"},
  Entries <- [group : {"admins", "engineers"}, note : BOOLEAN], MaxGroups <- 2,
  Known <- {"admins", "engineers"}

\* Endpoints of every mode, with hosts and issuers that agree or differ.
Forms == INSTANCE SsoEdit WITH
  main <- edited, Names <- {"flink", "trino"}, Modes <- {"gateway-oidc", "app-oidc", "none"},
  Fields <- {"all", "client"}, Hosts <- {"label", "fqdn"}, Issuers <- {"absent", "differs"},
  Formats <- {"stable", "broken"}, Entries <- [group : {"admins", "engineers"}, note : {FALSE}],
  MaxGroups <- 1, Known <- {"admins", "engineers"}

----------------------------------------------------------------------------
(* Values for the server *)

\* What requests present around a rotation of the issuer's key: genuine and forged tokens of admins, and
\* genuine ones of two subjects with a nested group of the same name.
Presented ==
  [kid : {1, 2}, flaw : {"none", "forged"}, exp : {0, 2, MaxNow}, sub : {"s1"}, item : {<<"/", "admins">>}]
    \cup [kid : {1}, flaw : {"none"}, exp : {0, 2, MaxNow}, sub : {"s1", "s2"}, item : {<<"/", "/", "admins">>}]

\* The environment of a process that rests: nothing is set and development needs nothing.
Unset ==
  [node |-> "development", auth |-> "disabled", issuer |-> "unset", domain |-> "unset", source |-> "unset",
   kube |-> "unset", db |-> "unset", write |-> "off", app |-> "unset", flink |-> "unset", upstream |-> "unset",
   listen |-> "unset", interval |-> "unset"]

\* The groups claim, over every entry of up to three marks: only the two spellings of the top-level group
\* make an admin (oidc.ts:54).
ASSUME EntriesAssumption ==
  \A item \in UNION {[1..n -> {"/", "admins", "x"}] : n \in 0..3} :
    (Admins \in Normalize(item)) = (item \in {<<"admins">>, <<"/", "admins">>})

----------------------------------------------------------------------------
(* Instances of the read routes *)

Paging == INSTANCE ListRoutes WITH
  Items <- {"i1", "i2", "i3"}, PageSizes <- {1, 2}, MaxItems <- 3

\* Names made of the escapes themselves, up to ids that are too long.
AssetNames == INSTANCE AssetId WITH
  Chars <- {".", "%", "2", "E"}, MaxName <- 3, MaxLevels <- 1, MAX_ASSET_ID_LENGTH <- 18

\* Namespaces of two levels, quotes and separators.
AssetLevels == INSTANCE AssetId WITH
  Chars <- {".", "dq", "/"}, MaxName <- 2, MaxLevels <- 2, MAX_ASSET_ID_LENGTH <- 256

Statements == INSTANCE SqlRedaction WITH
  Alphabet <- {"'", "dq", "-", "/", "*", "1", "a", "nl"}, MaxLen <- 4

Pieces == INSTANCE SqlRedaction WITH
  Alphabet <- {"'", "-", "/", "*", "1"}, MaxLen <- 6

\* Tokens "a" and "b", and "g" that says nothing.
Rules == INSTANCE Correlation WITH Generic <- {"g"}, NoKey <- "", Undeclared <- <<>>
EntityNames == {<<<<"a">>>>, <<<<"g", "a">>>>, <<<<"b">>, <<"a">>>>}
EntityLabels == {<<>>, <<<<"a">>>>}
EntityKinds == {"kafka-topic", "flink-job", "iceberg-table", "airflow-dag"}

\* Names that share a token with tables, with and without the prefix "p", or have no other.
Mapping == INSTANCE FlinkMapping WITH
  Generic <- {"g"}, NoKey <- "", Undeclared <- <<>>, Jids <- {"j1", "j2"}, Prefix <- "p",
  JobNames <- {<<<<"a">>>>, <<<<"p", "a">>>>, <<<<"p">>>>},
  TableNames <- {<<<<"b">>, <<"a">>>>, <<<<"a">>>>}, MaxTables <- 2

\* Callers that do the same.
Symmetry == Permutations({c1, c2})

ASSUME InstanceAssumption ==
  /\ PoolAssumption /\ SourceAssumption /\ TransportAssumption /\ AuthAssumption /\ StartAssumption
  /\ Aliases!EditAssumption /\ Forms!EditAssumption

----------------------------------------------------------------------------
(* Specification *)

EditInit ==
  CASE part = "aliases" -> Aliases!Init
    [] part = "forms" -> Forms!Init
    [] OTHER -> edited = None /\ pr = {} /\ result = {}

ListInit ==
  IF part = "paging" THEN Paging!Init
  ELSE inventory = <<>> /\ live = FALSE /\ filter = None /\ pageSize = 1 /\ page = 0 /\ answers = <<>>

AssetInit ==
  CASE part = "names" -> AssetNames!Init
    [] part = "levels" -> AssetLevels!Init
    [] OTHER -> asset = None /\ id = None /\ parsed = None /\ context = None

SqlInit ==
  CASE part = "statements" -> Statements!Init
    [] part = "pieces" -> Pieces!Init
    [] OTHER -> sql = <<>> /\ i = 1 /\ mode = "top" /\ out = <<>> /\ pass = 1 /\ first = <<>>

\* correlate runs over an inventory rule by rule.
CorrelationInit ==
  /\ IF part = "correlation"
     THEN \E f \in [1..3 -> [kind : EntityKinds, name : EntityNames, label : EntityLabels]] :
            entities = {[id |-> e, kind |-> f[e].kind, name |-> f[e].name,
                         labels |-> [r \in 1..4 |-> f[e].label]] : e \in 1..3}
     ELSE entities = {}
  /\ rule = 1 /\ links = {}

MappingInit ==
  IF part = "mapping" THEN Mapping!Init
  ELSE batch = None /\ inputs = {} /\ pipelines = {} /\ skipped = 0

ApiInit ==
  /\ part \in {"transport", "rotation", "source", "aliases", "forms", "startup", "auth",
              "paging", "names", "levels", "statements", "pieces", "correlation",
              "mapping"}
  /\ TransportInit /\ PoolInit /\ Init /\ EditInit /\ AuthInit
  /\ IF part = "startup" THEN StartInit ELSE env = Unset /\ StartInit
  /\ ListInit /\ AssetInit /\ SqlInit /\ CorrelationInit /\ MappingInit

TransportStep ==
  /\ part = "transport" /\ TransportNext
  /\ UNCHANGED <<part, poolVars, vars, editVars, startVars, authVars, readVars>>

RotationStep ==
  /\ part = "rotation" /\ PoolNext
  /\ UNCHANGED <<part, transportVars, vars, editVars, startVars, authVars, readVars>>

SourceStep ==
  /\ part = "source" /\ Next
  /\ UNCHANGED <<part, transportVars, poolVars, editVars, startVars, authVars, readVars>>

EditStep ==
  /\ \/ part = "aliases" /\ Aliases!Next
     \/ part = "forms" /\ Forms!Next
  /\ UNCHANGED <<part, transportVars, poolVars, vars, startVars, authVars, readVars>>

StartStep ==
  /\ part = "startup" /\ StartNext
  /\ UNCHANGED <<part, ssoVars, authVars, readVars>>

AuthStep ==
  /\ part = "auth" /\ AuthNext
  /\ UNCHANGED <<part, ssoVars, startVars, readVars>>

ListStep ==
  /\ part = "paging" /\ Paging!Next
  /\ UNCHANGED <<part, ssoVars, startVars, authVars, assetVars, sqlVars, correlationVars, mappingVars>>

AssetStep ==
  /\ \/ part = "names" /\ AssetNames!Next
     \/ part = "levels" /\ AssetLevels!Next
  /\ UNCHANGED <<part, ssoVars, startVars, authVars, listVars, sqlVars, correlationVars, mappingVars>>

SqlStep ==
  /\ \/ part = "statements" /\ Statements!Next
     \/ part = "pieces" /\ Pieces!Next
  /\ UNCHANGED <<part, ssoVars, startVars, authVars, listVars, assetVars, correlationVars, mappingVars>>

CorrelationStep ==
  /\ part = "correlation"
  /\ rule <= 4 /\ rule' = rule + 1
  /\ links' = links \cup Rules!RuleLinks(rule, entities)
  /\ UNCHANGED <<part, entities, ssoVars, startVars, authVars, listVars, assetVars, sqlVars, mappingVars>>

MappingStep ==
  /\ part = "mapping" /\ Mapping!Next
  /\ UNCHANGED <<part, ssoVars, startVars, authVars, listVars, assetVars, sqlVars, correlationVars>>

ApiNext ==
  \/ TransportStep \/ RotationStep \/ SourceStep \/ EditStep \/ StartStep \/ AuthStep
  \/ ListStep \/ AssetStep \/ SqlStep \/ CorrelationStep \/ MappingStep

ApiSpec == ApiInit /\ [][ApiNext]_<<part, ssoVars, startVars, authVars, readVars>>

----------------------------------------------------------------------------
(* Properties, each stated and explained in the module it is taken from *)

\* Merging an edit changes who may use the endpoint of the patch and nobody else's
\* access, also when lists are aliases of one another (editEngine.ts:80, :125).
MergeChangesOnlyTarget == [][part = "aliases" => Aliases!MergeChangesOnlyTargetStep]_editVars

\* No edit leaves a file that the resolver refuses (schema/sso.ts).
MergeKeepsServing ==
  /\ part = "aliases" => Aliases!MergeKeepsServing
  /\ part = "forms" => Forms!MergeKeepsServing

\* NO_EFFECTIVE_CHANGE is said exactly when the set of groups is the same (editEngine.ts).
NoopIsExact == part = "aliases" => Aliases!NoopIsExact

\* An entry that stays in the list keeps its comment (editEngine.ts:115).
EntriesKeepComments == part = "aliases" => Aliases!EntriesKeepComments

\* A file that is served has all its hosts under one domain (schema/sso.ts:231).
OneDomain == part = "forms" => Forms!OneDomain

\* A walk through the pages collects the filtered list, each item once and in order.
PagesPartition == part = "paging" => Paging!PagesPartition

\* An id addresses the asset it was handed out for and no other, whatever dots and
\* escapes its names have.
AddressedExactly ==
  /\ part = "names" => AssetNames!AddressedExactly
  /\ part = "levels" => AssetLevels!AddressedExactly

\* The address given to Trino is the table's own, and only a namespace of one level has
\* one (queryContext.ts).
ContextIsTheTable ==
  /\ part = "names" => AssetNames!ContextIsTheTable
  /\ part = "levels" => AssetLevels!ContextIsTheTable

\* The statement for Trino names exactly this table, quotes and dots in names included.
StatementNamesTable == part = "levels" => AssetLevels!StatementNamesTable

\* No character of a string literal or of a comment survives the redaction.
LiteralsHidden == part = "statements" => Statements!LiteralsHidden

\* A digit survives only inside a word or a quoted identifier.
NumbersHidden == part = "statements" => Statements!NumbersHidden

\* Redacting twice changes nothing: no token is put together from the pieces around
\* one that was removed.
Idempotent == part = "pieces" => Pieces!Idempotent

Entity(e) == CHOOSE x \in entities : x.id = e
Correlated == part = "correlation" /\ rule = 5

\* What an entity declares is all that is said of it under the rule: the one entity it
\* names or nothing, never a guess (D1 to D4 of rules.ts).
OnlyDeclared ==
  Correlated => \A r \in 1..4 : \A o \in Rules!Owners(r, entities) :
    LET source == Rules!Rule(r).declaredOn = "source"
        mine == {l \in links : l.relation = Rules!Relations[r]
                                 /\ o.id = (IF source THEN l.source ELSE l.target)}
    IN /\ Cardinality(mine) <= 1
       /\ \A l \in mine : /\ l.confidence = Rules!Declared
                          /\ Entity(IF source THEN l.target ELSE l.source).name = o.labels[r]

\* A guess is as sure as a guess can be only when neither end has another candidate,
\* and the two ends share a token that is not generic (rules.ts).
GuessesAreModest ==
  Correlated => \A l \in links : l.confidence # Rules!Declared =>
    /\ (l.confidence = Rules!ByName) =
         (\A k \in links : k # l /\ k.relation = l.relation /\ k.confidence # Rules!Declared =>
                             k.source # l.source /\ k.target # l.target)
    /\ ToSet(FlattenSeq(Entity(l.source).name)) \cap ToSet(FlattenSeq(Entity(l.target).name)) # {"g"}

\* More inventory never makes a guess surer: an entity that is added only adds links or
\* lowers the confidence of guesses that were there (rules.ts).
MoreNeverSurer ==
  Correlated => \A e \in entities : \A l \in Rules!Correlate(entities \ {e}) :
    l.confidence # Rules!Declared =>
      \E k \in links : /\ k.relation = l.relation /\ k.source = l.source /\ k.target = l.target
                       /\ k.confidence <= l.confidence

\* A pipeline says nothing of the tables of other jobs, however their names agree with
\* its own, and never more than a guess (mapping.ts).
OwnGuessesOnly == part = "mapping" => Mapping!OwnGuessesOnly

\* A job with failed tasks, or in a state that is unknown or between states, is never
\* shown as healthy (mapping.ts).
HealthyIsClean == part = "mapping" => Mapping!HealthyIsClean

----------------------------------------------------------------------------
(* What the run checks beside the properties of the modules that are extended: those above, by component *)

\* The edit engine: an edit changes one endpoint, leaves a valid file with its comments,
\* and is refused as a no-op exactly when it is one (editEngine.ts, schema/sso.ts).
EditsPrecise ==
  [](MergeKeepsServing /\ NoopIsExact /\ EntriesKeepComments /\ OneDomain) /\ MergeChangesOnlyTarget

\* The read routes: pages partition a list, ids and statements name one asset, and
\* statements are redacted (pagination.ts, queryContext.ts, sqlRedaction.ts).
ReadsExact ==
  /\ PagesPartition /\ AddressedExactly /\ ContextIsTheTable /\ StatementNamesTable
  /\ LiteralsHidden /\ NumbersHidden /\ Idempotent

\* Links between assets: a declaration is followed and never exceeded, a guess stays one,
\* and a job is healthy only when clean (rules.ts, mapping.ts).
LinksModest == OnlyDeclared /\ GuessesAreModest /\ MoreNeverSurer /\ OwnGuessesOnly /\ HealthyIsClean
=============================================================================
