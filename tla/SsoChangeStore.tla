---------------------------- MODULE SsoChangeStore ----------------------------
(***************************************************************************)
(* The audit store of SSO change requests (store/ssoChangeStore.ts and its *)
(* migration): one row per idempotency key, the compare-and-set that moves *)
(* a row, the trail of cancel intents and the reconciler lease.            *)
(*                                                                         *)
(* A row and the audit event of its last transition are written by one     *)
(* transaction, so the stage of the row stands for both.  Updates of a row *)
(* give it a new updated_at, which the code uses for two questions only:   *)
(* "is it younger than the grace period" (fresh) and "is it still the one  *)
(* I read" (sameVersion); the timestamp itself is not kept.                *)
(***************************************************************************)
EXTENDS Naturals, FiniteSets

CONSTANTS
  Keys,         \* idempotency keys; a key also names its row
  Branches,     \* git branch names, sso/<endpoint>-<first 12 characters of key>
  BranchOf,     \* the branch each key derives
  Handlers,     \* HTTP requests being served at once
  Reconcilers,  \* replicas of the Manager, one reconciler each
  Nobody,       \* the lease when no replica holds it
  ListLimit     \* LIST_LIMIT of the reconciler

ASSUME StoreAssumption ==
  /\ BranchOf \in [Keys -> Branches]
  /\ Nobody \notin Reconcilers
  /\ Handlers \cap Reconcilers = {}
  /\ ListLimit \in Nat \ {0}

VARIABLES
  requests,     \* [Keys -> row], stage "none" where there is no row
  created,      \* how many rows were inserted so far: the clock of created_at
  sameVersion,  \* <<p, k>>: the version of row k that p read is still current
  intents,      \* keys with a "cancel requested" event in the audit trail
  lease         \* the replica whose session holds the advisory lock

storeVars == <<requests, created, sameVersion, intents, lease>>

Procs == Handlers \cup Reconcilers
NoPr == 0

ACTIVE_STAGES == {"submitted", "pr_open", "unknown_recovering"}
OPEN_STAGES == ACTIVE_STAGES \cup {"merged"}
TerminalLoss == {"failed", "rejected"}
Stages == OPEN_STAGES \cup TerminalLoss \cup {"applied", "none"}

Row == [stage : Stages, seq : Nat, fresh : BOOLEAN, pr : Nat]
NoRow == [stage |-> "none", seq |-> 0, fresh |-> FALSE, pr |-> NoPr]

StoreTypeOK ==
  /\ requests \in [Keys -> Row]
  /\ created \in Nat
  /\ sameVersion \subseteq Procs \X Keys
  /\ intents \subseteq Keys
  /\ lease \in Reconcilers \cup {Nobody}

StoreInit ==
  /\ requests = [k \in Keys |-> NoRow]
  /\ created = 0
  /\ sameVersion = {}
  /\ intents = {}
  /\ lease = Nobody

RowExists(k) == requests[k].stage # "none"
Active(k) == requests[k].stage \in ACTIVE_STAGES
Lost(k) == requests[k].stage \in TerminalLoss

-------------------------------------------------------------------------------
(* submit(): the transaction under the advisory lock.  A known key is a    *)
(* replay or a mismatch, a shared branch a collision, an active row a      *)
(* refusal: each ends in ROLLBACK.                                         *)
(* Mutant: the check for an active row is missing. *)
BadCanSubmit(k) ==
  /\ ~RowExists(k)
  /\ \A j \in Keys : BranchOf[j] = BranchOf[k] => ~RowExists(j)

CanSubmit(k) ==
  /\ ~RowExists(k)
  /\ \A j \in Keys : BranchOf[j] = BranchOf[k] => ~RowExists(j)
  /\ \A j \in Keys : ~Active(j)

(* Mutant: the row is inserted with the stage of a preview event. *)
BadSubmit(k) ==
  /\ CanSubmit(k)
  /\ created' = created + 1
  /\ requests' = [requests EXCEPT ![k] =
       [stage |-> "previewed", seq |-> created + 1, fresh |-> TRUE, pr |-> NoPr]]
  /\ UNCHANGED <<sameVersion, intents, lease>>

Submit(k) ==
  /\ CanSubmit(k)
  /\ created' = created + 1
  /\ requests' = [requests EXCEPT ![k] =
       [stage |-> "submitted", seq |-> created + 1, fresh |-> TRUE, pr |-> NoPr]]
  /\ UNCHANGED <<sameVersion, intents, lease>>

(* transition(): UPDATE ... WHERE id AND stage = expected.  A row in        *)
(* another stage is a lost compare-and-set and nothing is written.         *)
(* Mutant: the update does not compare the stage.                          *)
BadHits(k, expected) == RowExists(k)

Hits(k, expected) == requests[k].stage = expected

Transition(k, expected, stage, pr) ==
  /\ Hits(k, expected)
  /\ requests' = [requests EXCEPT
       ![k].stage = stage,
       ![k].pr = IF pr = NoPr THEN @ ELSE pr,
       ![k].fresh = TRUE]
  /\ sameVersion' = {v \in sameVersion : v[2] # k}
  /\ UNCHANGED <<created, intents, lease>>

(* What a SELECT of row k hands to the caller. *)
Snapshot == [key : Keys, stage : Stages, pr : Nat]
SnapshotOf(k) == [key |-> k, stage |-> requests[k].stage, pr |-> requests[k].pr]

(* listOpen(): ORDER BY created_at DESC LIMIT n. *)
(* Mutant: merged rows are not listed. *)
BadOpenKeys == {k \in Keys : Active(k)}

OpenKeys == {k \in Keys : requests[k].stage \in OPEN_STAGES}

(* Mutant: oldest first. *)
BadNewer(k) == {j \in OpenKeys : requests[j].seq < requests[k].seq}

Newer(k) == {j \in OpenKeys : requests[j].seq > requests[k].seq}
ListOpen == {SnapshotOf(k) : k \in {j \in OpenKeys : Cardinality(Newer(j)) < ListLimit}}

(* listRecentTerminal(), for a backlog within SWEEP_WINDOW and SWEEP_BATCH. *)
(* Mutant: rows that failed are forgotten. *)
BadListRecentTerminal == {SnapshotOf(k) : k \in {j \in Keys : requests[j].stage = "rejected"}}

ListRecentTerminal == {SnapshotOf(k) : k \in {j \in Keys : Lost(j)}}
===============================================================================
