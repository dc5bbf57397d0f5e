------------------------------ MODULE Correlation ------------------------------
(***************************************************************************)
(* correlate (correlation/rules.ts): links between the entities of         *)
(* different services, from labels that declare them or from names that    *)
(* agree.  A name is a sequence of segments (split at "."), a segment a    *)
(* sequence of tokens (split at "-" and "_"); case is not told apart.      *)
(***************************************************************************)
EXTENDS Naturals, Sequences, FiniteSets, SequencesExt

CONSTANTS
  Generic,     \* GENERIC_TOKENS
  NoKey,       \* the empty key
  Undeclared   \* an entity without the label of a rule

Declared == 95       \* confidences, in percent
ByName   == 60
Ambiguous == 30

Relations == <<"topic-feeds-job", "job-writes-table", "table-served-by-catalog", "dag-triggers-job">>

Rule(r) ==
  CASE r = 1 -> [source |-> "kafka-topic",   target |-> "flink-job",     declaredOn |-> "target"]
    [] r = 2 -> [source |-> "flink-job",     target |-> "iceberg-table", declaredOn |-> "source"]
    [] r = 3 -> [source |-> "iceberg-table", target |-> "trino-catalog", declaredOn |-> "source"]
    [] r = 4 -> [source |-> "airflow-dag",   target |-> "flink-job",     declaredOn |-> "source"]

FirstSignificantToken(tokens) ==
  LET kept == SelectSeq(tokens, LAMBDA t : t \notin Generic) IN
  IF kept = <<>> THEN NoKey ELSE Head(kept)

LastSegmentKey(name) == FirstSignificantToken(name[Len(name)])

(* The key of an entity under rule r: a table is known to its job by its     *)
(* last segment, to its catalog by its first; other names as a whole.        *)
Key(r, e) ==
  IF r = 2 /\ e.kind = "iceberg-table" THEN LastSegmentKey(e.name)
  ELSE IF r = 3 /\ e.kind = "iceberg-table" THEN FirstSignificantToken(e.name[1])
  ELSE FirstSignificantToken(FlattenSeq(e.name))

Link(r, s, t, confidence) ==
  [relation |-> Relations[r], source |-> s.id, target |-> t.id, confidence |-> confidence]

Owners(r, E) == {e \in E : /\ e.kind = (IF Rule(r).declaredOn = "source" THEN Rule(r).source ELSE Rule(r).target)
                           /\ e.labels[r] # Undeclared}

(* A label links its owner to the one entity it names. *)
DeclaredLinks(r, E) ==
  LET other == IF Rule(r).declaredOn = "source" THEN Rule(r).target ELSE Rule(r).source
      pick(o) == {e \in E : e.kind = other /\ e.name = o.labels[r]}
  IN UNION {{IF Rule(r).declaredOn = "source" THEN Link(r, o, e, Declared) ELSE Link(r, e, o, Declared)
             : e \in {x \in pick(o) : Cardinality(pick(o)) = 1}} : o \in Owners(r, E)}

(* Mutant: an owner whose label names nothing falls back to its name. *)
BadPairs(r, E) ==
  LET linked == {l.source : l \in DeclaredLinks(r, E)} \cup {l.target : l \in DeclaredLinks(r, E)} IN
  {p \in {e \in E : e.kind = Rule(r).source} \X {e \in E : e.kind = Rule(r).target} :
     /\ (IF Rule(r).declaredOn = "source" THEN p[1].id ELSE p[2].id) \notin linked
     /\ Key(r, p[1]) # NoKey /\ Key(r, p[1]) = Key(r, p[2])}

(* Entities without a label, paired by their keys. *)
Pairs(r, E) ==
  {p \in {e \in E : e.kind = Rule(r).source} \X {e \in E : e.kind = Rule(r).target} :
     /\ (IF Rule(r).declaredOn = "source" THEN p[1] ELSE p[2]) \notin Owners(r, E)
     /\ Key(r, p[1]) # NoKey /\ Key(r, p[1]) = Key(r, p[2])}

(* perSource, perTarget: another pair has the same source or target. *)
FanOut(pairs, p) ==
  \/ Cardinality({q \in pairs : q[1].id = p[1].id}) > 1
  \/ Cardinality({q \in pairs : q[2].id = p[2].id}) > 1

NameLinks(r, E) ==
  LET pairs == Pairs(r, E) IN
  {Link(r, p[1], p[2], IF FanOut(pairs, p) THEN Ambiguous ELSE ByName) : p \in pairs}

RuleLinks(r, E) == DeclaredLinks(r, E) \cup NameLinks(r, E)

Correlate(E) == UNION {RuleLinks(r, E) : r \in 1..4}
===============================================================================
