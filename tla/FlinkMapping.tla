----------------------------- MODULE FlinkMapping ------------------------------
(***************************************************************************)
(* buildPipelines (flink/mapping.ts): each job of a snapshot becomes a     *)
(* pipeline of its own, with the health its state stands for and the sink  *)
(* tables its graph reports, correlated by name.  One step for each job.   *)
(***************************************************************************)
EXTENDS Correlation

CONSTANTS
  Jids,        \* ids of the jobs of a snapshot
  Prefix,      \* jobNamePrefix, one token
  JobNames, TableNames,
  MaxTables    \* bound: sink tables of a job

VARIABLES
  inputs,      \* the jobs not yet mapped
  pipelines, skipped,
  batch        \* all jobs of the snapshot

vars == <<inputs, pipelines, skipped, batch>>

(* failed: Flink counts failed tasks, which it may in any state.  tables are  *)
(* the ones extractSinkTables finds: none when the detail of the job could    *)
(* not be read.                                                              *)
Jobs ==
  {f \in [Jids -> [state : {"RUNNING", "RESTARTING", "FAILED", "FINISHED", "NEW"}, failed : BOOLEAN,
                   name : JobNames,
                   tables : {T \in SUBSET TableNames : Cardinality(T) <= MaxTables}, valid : BOOLEAN]] :
     \A j \in Jids : f[j].valid \/ f[j].state = "RUNNING"}

Init ==
  /\ batch \in Jobs
  /\ inputs = Jids /\ pipelines = {} /\ skipped = 0

-------------------------------------------------------------------------------
(* mapState *)

MapState(state, failed) ==
  CASE state = "RUNNING" /\ failed                    -> "degraded"
    [] state \in {"RUNNING", "FINISHED"}              -> "healthy"
    [] state \in {"RESTARTING", "FAILING"}            -> "degraded"
    [] state \in {"FAILED", "CANCELED", "SUSPENDED"}  -> "unavailable"
    [] OTHER                                          -> "unknown"

(* stripPrefix: never the whole name. *)
StripPrefix(name) ==
  IF Head(name[1]) = Prefix /\ Len(FlattenSeq(name)) > 1
  THEN IF Len(name[1]) > 1 THEN <<Tail(name[1])>> \o Tail(name) ELSE Tail(name)
  ELSE name

(* The entity of a table is named by its slug, which keeps the tokens and    *)
(* forgets where the segments end.                                           *)
Slug(name) == FlattenSeq(name)

Unlabelled == [r \in 1..4 |-> Undeclared]

Entities(j) ==
  {[id |-> <<j>>, kind |-> "flink-job", name |-> StripPrefix(batch[j].name), labels |-> Unlabelled]}
  \cup {[id |-> Slug(t), kind |-> "iceberg-table", name |-> t, labels |-> Unlabelled] : t \in batch[j].tables}

Weakest(links) ==
  IF links = {} THEN Ambiguous
  ELSE CHOOSE c \in {l.confidence : l \in links} : \A l \in links : c <= l.confidence

PipelineOf(j) ==
  LET links == Correlate(Entities(j)) IN
  [id |-> j, status |-> MapState(batch[j].state, batch[j].failed), links |-> links,
   confidence |-> Weakest(links)]

(* The next job: pipelineSchema accepts its pipeline or it is skipped. *)
Project(j) ==
  /\ j \in inputs /\ inputs' = inputs \ {j}
  /\ IF batch[j].valid THEN pipelines' = pipelines \cup {PipelineOf(j)} /\ UNCHANGED skipped
     ELSE skipped' = skipped + 1 /\ UNCHANGED pipelines
  /\ UNCHANGED batch

Next == \E j \in Jids : Project(j)

Spec == Init /\ [][Next]_vars

-------------------------------------------------------------------------------
(* Properties. *)

(* A pipeline says nothing of the tables of other jobs, however their names  *)
(* agree with its own, and never more than a guess.                          *)
OwnGuessesOnly ==
  \A p \in pipelines :
    /\ \A l \in p.links : /\ l.source = <<p.id>> /\ l.confidence <= ByName
                          /\ l.target \in {Slug(t) : t \in batch[p.id].tables}
    /\ p.confidence <= ByName

(* A job in a state that is unknown or between states, or one that runs with *)
(* failed tasks, is never shown as healthy; a finished job is, whatever      *)
(* became of its tasks (mapState looks at them for RUNNING alone).           *)
HealthyIsClean ==
  \A p \in pipelines :
    p.status = "healthy" =>
      \/ batch[p.id].state = "FINISHED"
      \/ batch[p.id].state = "RUNNING" /\ ~batch[p.id].failed

(* What comment D1 of mapping.ts says: only a running job is healthy.       *)
OnlyRunningHealthy == \A p \in pipelines : p.status = "healthy" => batch[p.id].state = "RUNNING"
===============================================================================
