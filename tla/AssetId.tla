-------------------------------- MODULE AssetId --------------------------------
(***************************************************************************)
(* Ids of data assets (lib/assetId.ts) and what they address: a catalog    *)
(* source hands out an asset under a derived id, the id comes back in a    *)
(* later request and is parsed, and routes/queryContext.ts turns the asset *)
(* into a Trino address and a statement.  Names are sequences of           *)
(* characters, since the encodings are what is checked.                    *)
(***************************************************************************)
EXTENDS Integers, Sequences, SequencesExt, FiniteSets

CONSTANTS
  Chars, MaxName,          \* characters of names, bound on their length
  MaxLevels,               \* bound: levels of a namespace
  MAX_ASSET_ID_LENGTH,     \* counted without the prefix asset-<kind>-
  None

VARIABLES
  asset,        \* a table: catalog, namespace and name as the catalog has them
  id, parsed,   \* the id that was handed out, and what it was parsed to
  context       \* the answer of the query-context route

vars == <<asset, id, parsed, context>>

Names == UNION {[1..k -> Chars] : k \in 1..MaxName}

Init ==
  /\ asset \in [kind : {"table"}, catalog : {<<"a">>, <<"%">>}, table : Names,
                namespace : UNION {[1..k -> Names] : k \in 1..MaxLevels}]
  /\ id = None /\ parsed = None /\ context = None

-------------------------------------------------------------------------------
(* String.prototype.replaceAll: from the left, without overlap. *)
Substitute(s, old, new) ==
  LET Hit(k) == k + Len(old) - 1 <= Len(s) /\ SubSeq(s, k, k + Len(old) - 1) = old
      f[k \in 1..(Len(s) + 1)] ==
        IF k > Len(s) THEN <<>>
        ELSE IF Hit(k) THEN new \o f[k + Len(old)]
        ELSE <<s[k]>> \o f[k + 1]
  IN f[1]

Join(segments, sep) ==
  FoldLeft(LAMBDA joined, k : joined \o (IF k = 1 THEN <<>> ELSE sep) \o segments[k],
           <<>>, [k \in 1..Len(segments) |-> k])

(* String.prototype.split at a single character. *)
Split(s, c) ==
  FoldLeft(LAMBDA parts, x : IF x = c THEN Append(parts, <<>>)
                             ELSE [parts EXCEPT ![Len(parts)] = Append(@, x)], <<<<>>>>, s)

encodeIdSegment(s) == Substitute(Substitute(s, <<"%">>, <<"%", "2", "5">>), <<".">>, <<"%", "2", "E">>)

(* Mutant: the escape of the percent sign is undone first. *)
BadDecodeIdSegment(s) == Substitute(Substitute(s, <<"%", "2", "5">>, <<"%">>), <<"%", "2", "E">>, <<".">>)

decodeIdSegment(s) == Substitute(Substitute(s, <<"%", "2", "E">>, <<".">>), <<"%", "2", "5">>, <<"%">>)

deriveAssetId(kind, segments) ==
  [kind |-> kind, raw |-> Join([k \in 1..Len(segments) |-> encodeIdSegment(segments[k])], <<".">>)]

isSafeUpstreamSegment(s) == s \notin {<<>>, <<".">>, <<".", ".">>} /\ "/" \notin ToSet(s)

(* undefined is None: too long, an empty or unsafe segment, too few of them. *)
parseAssetId(i) ==
  LET segments == Split(i.raw, ".")
      decoded  == [k \in 1..Len(segments) |-> decodeIdSegment(segments[k])]
  IN IF /\ Len(i.raw) <= MAX_ASSET_ID_LENGTH
        /\ i.raw # <<>>
        /\ <<>> \notin ToSet(segments)
        /\ \A k \in 1..Len(decoded) : isSafeUpstreamSegment(decoded[k])
        /\ Len(segments) >= 3
     THEN [kind |-> i.kind, segments |-> decoded]
     ELSE None

-------------------------------------------------------------------------------
(* The query context of a table. *)

(* tableAsset: the flat name of a table. *)
FlatName(a) == Join(a.namespace, <<".">>) \o <<".">> \o a.table

stripNamespacePrefix(name, namespace) ==
  LET prefix == Join(namespace, <<".">>) \o <<".">>
  IN IF IsPrefix(prefix, name) THEN SubSeq(name, Len(prefix) + 1, Len(name)) ELSE name

quote(identifier) == <<"dq">> \o Substitute(identifier, <<"dq">>, <<"dq", "dq">>) \o <<"dq">>

(* parts: a namespace of one level and the name of the table, or a 404.      *)
ContextOf(a) ==
  LET parts == a.namespace \o <<stripNamespacePrefix(FlatName(a), a.namespace)>>
  IN IF Len(parts) # 2 THEN [code |-> 404]
     ELSE [code |-> 200, catalog |-> a.catalog, schema |-> parts[1], table |-> parts[2],
           sql |-> Join([k \in 1..3 |-> quote((<<a.catalog>> \o parts)[k])], <<".">>)]

-------------------------------------------------------------------------------
HandOut ==
  /\ id = None
  /\ id' = deriveAssetId("table", <<asset.catalog>> \o asset.namespace \o <<asset.table>>)
  /\ UNCHANGED <<asset, parsed, context>>

(* The id comes back: the source reads the table at the parsed address, if   *)
(* it can be parsed, and the route answers for it.                           *)
Get ==
  /\ id # None /\ context = None
  /\ parsed' = parseAssetId(id)
  /\ context' = IF parsed' = None THEN [code |-> 404]
                ELSE LET s == parsed'.segments IN
                     ContextOf([kind |-> "table", catalog |-> s[1], table |-> Last(s),
                                namespace |-> SubSeq(s, 2, Len(s) - 1)])
  /\ UNCHANGED <<asset, id>>

Next == HandOut \/ Get

Spec == Init /\ [][Next]_vars

-------------------------------------------------------------------------------
(* Properties. *)

Plain == /\ \A k \in 1..Len(asset.namespace) : isSafeUpstreamSegment(asset.namespace[k])
         /\ isSafeUpstreamSegment(asset.table)

(* An id addresses the asset it was handed out for and no other, whatever    *)
(* dots, percent signs and escapes its names have; only a name that is not   *)
(* plain or too long is refused.                                             *)
AddressedExactly ==
  context # None =>
    IF Plain /\ Len(id.raw) <= MAX_ASSET_ID_LENGTH
    THEN parsed # None /\ parsed.segments = <<asset.catalog>> \o asset.namespace \o <<asset.table>>
    ELSE parsed = None

(* The address given to Trino is the table's own, and only a namespace of    *)
(* one level has one.                                                        *)
ContextIsTheTable ==
  context # None /\ parsed # None =>
    IF Len(asset.namespace) = 1
    THEN context.code = 200 /\ context.schema = asset.namespace[1] /\ context.table = asset.table
    ELSE context.code = 404

(* The identifiers of a statement, read back: a quote ends one unless it is  *)
(* doubled.                                                                  *)
Identifiers(sql) ==
  LET f[k \in 1..(Len(sql) + 1)] ==
        IF k > Len(sql) THEN <<<<>>>>
        ELSE LET opened == Cardinality({j \in 1..k : sql[j] = "dq"}) % 2 = 1 IN
          IF sql[k] = "." /\ ~opened THEN <<<<>>>> \o f[k + 1]
          ELSE IF sql[k] = "dq" /\ (~opened \/ k = 1 \/ sql[k - 1] # "dq") THEN f[k + 1]
          ELSE [f[k + 1] EXCEPT ![1] = <<sql[k]>> \o @]
  IN f[1]

(* The statement names exactly this table, also when its names hold quotes   *)
(* and dots.                                                                 *)
StatementNamesTable ==
  context # None /\ context.code = 200 =>
    Identifiers(context.sql) = <<asset.catalog, asset.namespace[1], asset.table>>
===============================================================================
