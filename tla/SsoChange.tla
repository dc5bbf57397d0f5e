------------------------------- MODULE SsoChange ------------------------------
(***************************************************************************)
(* SSO change requests end to end: the submit and cancel routes, one       *)
(* reconciler per replica, the audit store, GitHub, ArgoCD and the people  *)
(* who review the pull requests, all interleaved.                          *)
(***************************************************************************)
EXTENDS SsoChangeRoutes, SsoReconciler

CONSTANT GraceCoversWrite   \* SUBMITTED_GRACE_MS outlasts every live writer

ASSUME GraceAssumption == GraceCoversWrite \in BOOLEAN

vars == <<storeVars, repoVars, managerVars, budget, argo>>

TypeOK == StoreTypeOK /\ RepoTypeOK /\ ManagerTypeOK /\ ReconcilerTypeOK

Init == StoreInit /\ RepoInit /\ ManagerInit /\ ReconcilerInit

(* Processes between the update that started a write and the one that ends  *)
(* it.  createChangePr is bounded by CREATE_PR_DEADLINE_MS (60 s), each      *)
(* database call around it by seconds; the grace period is 120 s.            *)
Writing(p, k) ==
  proc[p].key = k /\ proc[p].pc \in WritePcs \cup {"opened", "unknown", "refused"}

(* 120 s after its last update a submitted row is presumed abandoned. *)
GraceExpires(k) ==
  /\ requests[k].stage = "submitted" /\ requests[k].fresh
  /\ GraceCoversWrite => \A p \in Procs : ~Writing(p, k)
  /\ requests' = [requests EXCEPT ![k].fresh = FALSE]
  /\ UNCHANGED <<created, sameVersion, intents, lease, repoVars, managerVars, budget, argo>>

HandlerStep(p) == RouteStep(p) /\ UNCHANGED argo

ReconcilerStep(r) ==
  \/ TickStep(r)
  \/ /\ CreateChangePr(r) \/ OpenPr(r) \/ ReadLostRow(r) \/ CloseOrphanPr(r) \/ RecordRefusal(r)
     /\ UNCHANGED argo

Failure(p) ==
  /\ WriteUnknown(p) \/ WriteRefused(p) \/ CloseUnknown(p) \/ CallFails(p) \/ Crash(p)
  /\ UNCHANGED argo

Reviewer ==
  /\ \E n \in PrIds : HumanMerges(n) \/ HumanCloses(n)
  /\ UNCHANGED <<storeVars, managerVars, budget, argo>>

Meddler ==
  /\ \/ \E n \in PrIds : HumanReopens(n)
     \/ \E b \in Branches : HumanPushes(b) \/ HumanDeletesBranch(b)
  /\ Disturbance
  /\ UNCHANGED <<storeVars, managerVars, argo>>

LateWrite ==
  /\ \E w \in inflight : CarryOut(w) \/ Vanish(w)
  /\ UNCHANGED <<storeVars, managerVars, budget, argo>>

Next ==
  \/ \E p \in Handlers, k \in Keys : (SubmitRequest(p, k) \/ CancelStart(p, k)) /\ UNCHANGED argo
  \/ \E p \in Handlers : HandlerStep(p)
  \/ \E r \in Reconcilers : TickStart(r) \/ ReconcilerStep(r) \/ SweepListFails(r) \/ LeaseLost(r)
  \/ \E r \in Reconcilers, k \in Keys : RecheckElapses(r, k)
  \/ \E p \in Procs : Failure(p)
  \/ \E k \in Keys : GraceExpires(k)
  \/ \E i \in 1..2 : ArgoSyncs(i)
  \/ Reviewer \/ Meddler \/ LateWrite

Spec == Init /\ [][Next]_vars

(* Processes do not stop half-way (they crash, which is a step), timers      *)
(* fire, abandoned requests end; nobody has to submit, cancel or review.     *)
Fairness ==
  /\ \A p \in Handlers : WF_vars(HandlerStep(p))
  /\ \A r \in Reconcilers : WF_vars(TickStart(r) \/ ReconcilerStep(r))
  /\ \A r \in Reconcilers, k \in Keys : WF_vars(RecheckElapses(r, k))
  /\ \A k \in Keys : WF_vars(GraceExpires(k))
  /\ \A i \in 1..2 : WF_vars(ArgoSyncs(i))
  /\ WF_vars(LateWrite)

FairSpec == Spec /\ Fairness

-------------------------------------------------------------------------------
(* Safety. *)

(* At most one request is active (D-MSSO-9), whatever the interleaving of    *)
(* submits, cancels and reconcilers: no stale compare-and-set revives a row  *)
(* that had given up the slot to another one.                                *)
OneActive == \A j, k \in Keys : Active(j) /\ Active(k) => j = k

(* However small LIST_LIMIT is, the reconciler's listing (newest first)      *)
(* holds the active row: the one that blocks every further submit is never   *)
(* starved by rows that wait for ArgoCD.                                     *)
ActiveIsListed == \A k \in Keys : Active(k) => SnapshotOf(k) \in ListOpen

(* A pull request a row or a process works with is on that request's own     *)
(* branch and not older than the request by more than PR_ADOPT_SKEW_MS       *)
(* (D-MSSO-18l/19a): neither recovery nor cancel nor the sweep ever adopts   *)
(* or closes an older one.  One from within the skew they do take for ours.  *)
Own(k, n) ==
  n # NoPr => n \in PrIds /\ prs[n].state # "none" /\ prs[n].branch = BranchOf[k] /\ ~prs[n].old

WorksOnOwnPr ==
  /\ \A k \in Keys : Own(k, requests[k].pr)
  /\ \A p \in Procs : proc[p].key # NoKey => Own(proc[p].key, proc[p].pr)
                                          /\ Own(proc[p].key, proc[p].found)
  /\ \A n \in PrIds : prs[n].old => prs[n].closer \in {"nobody", "human"}

(* merged and applied tell the truth about GitHub: the row's own pull        *)
(* request was merged, although it was read long before the row was moved.   *)
MergedIsMerged ==
  \A k \in Keys : requests[k].stage \in {"merged", "applied"} =>
    requests[k].pr \in PrIds /\ prs[requests[k].pr].state = "merged"

(* applied means that BOTH Applications run a revision with the merge        *)
(* (D-MSSO-17), although they are asked one after the other, and whichever   *)
(* of the replicas have a reader to ask with.                                *)
AppliedIsDeployed ==
  \A k \in Keys : requests[k].stage = "applied" => \A i \in 1..2 : requests[k].pr \in argo[i]

(* Fail closed (D-MSSO-11): nothing of ours is on GitHub, or on its way      *)
(* there, for a branch without a committed request row.                      *)
NothingUnaudited ==
  /\ \A b \in Branches \ Leftover :
       branches[b] # "none" => \E k \in Keys : BranchOf[k] = b /\ RowExists(k)
  /\ \A w \in inflight : \E k \in Keys : BranchOf[k] = w.branch /\ RowExists(k)

(* Fail closed for cancel (D-MSSO-18g): a pull request closed by a cancel,   *)
(* or about to be closed by one that timed out, has its intent on record.    *)
CancelIsAudited ==
  /\ \A n \in PrIds : prs[n].closer = "cancel" =>
       \E k \in intents : BranchOf[k] = prs[n].branch
  /\ \A w \in inflight : w.by = "cancel" => \E k \in intents : BranchOf[k] = w.branch

(* Both: GitHub is changed only after the request, or the intent to cancel   *)
(* it, was committed.                                                        *)
Audited == NothingUnaudited /\ CancelIsAudited

-------------------------------------------------------------------------------
(* Steps. *)

(* A cancel never turns a submitted or recovering row failed while a writer  *)
(* is creating its pull request (D-MSSO-18f/h/i): the grace period, the      *)
(* touch and the version in the compare-and-set together keep it out.        *)
NoCancelUnderWrite ==
  [][\A p \in Handlers, k \in Keys :
       /\ proc[p].pc = "cancelCas" /\ proc[p].key = k /\ proc'[p].pc = "idle"
       /\ requests[k].stage \in {"submitted", "unknown_recovering"}
       /\ requests'[k].stage = "failed"
       => \A q \in Procs : ~Writing(q, k)]_vars

(* The request table implements the published state machine. *)
Lifecycle == INSTANCE SsoLifecycle WITH stage <- [k \in Keys |-> requests[k].stage]
ImplementsLifecycle == Lifecycle!Spec

(* What routes-sso-change-m4.test.ts:220 says of a cancel: REQUEST_NOT_ACTIVE *)
(* "when the PR was merged in the meantime (the reconciler will record it)":  *)
(* a cancel does not fail a request whose pull request is merged.             *)
CancelSparesMerged ==
  [][\A p \in Handlers, k \in Keys :
       /\ proc[p].pc = "cancelCas" /\ proc[p].key = k
       /\ requests[k].stage = "pr_open" /\ requests'[k].stage = "failed"
       => prs[requests[k].pr].state # "merged"]_vars

-------------------------------------------------------------------------------
(* Liveness, once the disturbances are over. *)

(* A request never hangs in submitted or unknown_recovering, whatever call   *)
(* failed or whoever died: recovery settles it.                              *)
Settles ==
  \A k \in Keys : requests[k].stage \in {"submitted", "unknown_recovering"} ~>
                  requests[k].stage \notin {"none", "submitted", "unknown_recovering"}

(* An open pull request of a failed or rejected request does not stay open:  *)
(* the compensation or, behind it, the sweep closes it (D-MSSO-18c/j/m),     *)
(* also when it was created by a write that outlived its client.             *)
OrphansAreClosed ==
  \A n \in PrIds, k \in Keys :
    Lost(k) /\ prs[n].state = "open" /\ prs[n].branch = BranchOf[k] /\ ~prs[n].old
      ~> prs[n].state # "open"

(* A pull request that a reviewer ended frees the lock: the row leaves       *)
(* pr_open unless the pull request is reopened.                              *)
ReviewIsSeen ==
  \A k \in Keys :
    requests[k].stage = "pr_open" /\ prs[requests[k].pr].state \in {"merged", "closed"} ~>
      requests[k].stage # "pr_open" \/ prs[requests[k].pr].state = "open"

(* A merged request is eventually reported applied, where every replica can  *)
(* read ArgoCD.  Without the reader it is not: config.ts:250 and D-MSSO-16   *)
(* leave it merged, and so does the code.                                    *)
MergedIsApplied ==
  \A k \in Keys :
    ArgocdReaders = Reconcilers /\ requests[k].stage = "merged" ~> requests[k].stage = "applied"

-------------------------------------------------------------------------------
(* The inductive invariant: what every process and every row knows of each  *)
(* other, strong enough that each step preserves it.                        *)

(* created_at orders the rows, and an active row is the newest of all. *)
OrderInv ==
  \A k \in Keys :
    /\ requests[k].seq = 0 <=> requests[k].stage = "none"
    /\ requests[k].seq <= created
    /\ Active(k) => requests[k].seq = created
    /\ \A j \in Keys : requests[j].seq = requests[k].seq => j = k \/ requests[k].seq = 0

(* What a process holds at each point of the code: a row to work on, and    *)
(* the stage its next compare-and-set expects.                              *)
RestPcs == {"idle", "next", "sweepNext"}

Fits(q) ==
  /\ q.pc \notin RestPcs => q.key \in Keys
  /\ q.pc \in WritePcs \cup {"opened", "unknown", "refused"} => q.stage = "submitted"
  /\ q.pc \in {"find", "findBranch", "notFound", "touch", "found", "adopt"} =>
       q.stage \in {"submitted", "unknown_recovering"}
  /\ q.pc \in {"checkPr", "markMerged", "markRejected"} => q.stage = "pr_open"
  /\ q.pc \in {"app1", "app2", "markApplied"} => q.stage = "merged"
  /\ q.pc \in {"intent", "cancelFind", "cancelClose", "cancelCas"} => q.stage \in ACTIVE_STAGES

ProcInv == \A p \in Procs : Fits(proc[p])

StageInv == TypeOK /\ ProcInv /\ OrderInv

-------------------------------------------------------------------------------
(* What a process, a listing or a write on its way knows of a row and of    *)
(* GitHub stays true while the others run, because none of it is ever       *)
(* undone: rows do not vanish, a row's number is written once, a merge is   *)
(* for good.                                                                *)

(* Row k as it was read in stage st with number n. *)
HoldsRow(k, st, n) ==
  /\ RowExists(k)
  /\ Own(k, n)
  /\ n \in {NoPr, requests[k].pr}
  /\ st \in {"pr_open", "merged"} => n # NoPr

Merged(n) == n \in PrIds /\ prs[n].state = "merged"

(* A pull request was found, opened or is about to be closed. *)
FoundPcs == ClosePcs \cup {"opened", "found", "adopt", "lost"}

(* What the next call relies on. *)
Needs(q) ==
  /\ q.pc \in FoundPcs => q.found # NoPr
  /\ q.pc = "markMerged" => Merged(q.pr)
  /\ q.pc \in {"app2", "markApplied"} => q.pr \in argo[1]
  /\ q.pc = "markApplied" => q.pr \in argo[2]
  /\ q.pc \in {"cancelFind", "cancelClose", "cancelCas"} => q.key \in intents

Knows(q) ==
  q.key # NoKey => HoldsRow(q.key, q.stage, q.pr) /\ Own(q.key, q.found) /\ Needs(q)

(* A number is written with pr_open and never again. *)
RowTruth(k) ==
  /\ Own(k, requests[k].pr)
  /\ requests[k].stage \in {"none", "submitted", "unknown_recovering"} => requests[k].pr = NoPr
  /\ requests[k].stage \in {"pr_open", "merged", "applied"} => requests[k].pr # NoPr
  /\ requests[k].stage \in {"merged", "applied"} => Merged(requests[k].pr)
  /\ requests[k].stage = "applied" => requests[k].pr \in argo[1] \cap argo[2]

RowOn(b) == \E k \in Keys : BranchOf[k] = b /\ RowExists(k)
IntentOn(b) == \E k \in intents : BranchOf[k] = b

WireTruth(w) ==
  /\ RowOn(w.branch)
  /\ w.op = "close" => w.pr \in Adoptable(w.branch)
  /\ w.by = "cancel" => IntentOn(w.branch)

PullTruth(n) ==
  /\ prs[n].old => prs[n].closer \in {"nobody", "human"}
  /\ prs[n].closer = "cancel" => IntentOn(prs[n].branch)

TruthInv ==
  /\ \A k \in Keys : RowTruth(k)
  /\ \A p \in Procs : Knows(proc[p])
  /\ \A r \in Reconcilers : \A s \in todo[r] : HoldsRow(s.key, s.stage, s.pr)
  /\ \A w \in inflight : WireTruth(w)
  /\ \A n \in PrIds : PullTruth(n)
  /\ \A b \in Branches \ Leftover : branches[b] # "none" => RowOn(b)
  /\ \A i \in 1..2 : \A n \in argo[i] : Merged(n)

-------------------------------------------------------------------------------
(* Who writes, while the grace period outlasts every writer. *)

(* A writer's row is not in recovery and inside its grace period. *)
WriterInGrace ==
  \A p \in Procs, k \in Keys : Writing(p, k) =>
    /\ requests[k].stage # "unknown_recovering"
    /\ requests[k].stage = "submitted" => requests[k].fresh

(* Nobody else works on a row whose submitter is still writing, and every   *)
(* listing that shows it shows the version the submitter inserted.          *)
SubmitterAlone ==
  \A h \in Handlers, k \in Keys : Writing(h, k) =>
    /\ requests[k].stage = "submitted"
    /\ \A q \in Procs \ {h} : proc[q].key # k
    /\ \A r \in Reconcilers : \A s \in todo[r] :
         s.key = k => s.stage = "submitted" /\ <<r, k>> \in sameVersion

(* A cancel whose version is still current has no writer beside it. *)
CancelPcs == {"intent", "cancelFind", "cancelClose", "cancelCas"}
CancelAlone ==
  \A h \in Handlers :
    /\ proc[h].pc \in CancelPcs
    /\ proc[h].stage \in {"submitted", "unknown_recovering"}
    /\ <<h, proc[h].key>> \in sameVersion
    => \A q \in Procs : ~Writing(q, proc[h].key)

(* A sweep visits lost rows only. *)
SweepPcs == {"sweepNext", "sweepFind", "sweepClose"}
SweepsLost ==
  \A r \in Reconcilers : proc[r].pc \in SweepPcs => \A s \in todo[r] : s.stage \in TerminalLoss

WriterInv ==
  SweepsLost /\ (GraceCoversWrite => WriterInGrace /\ SubmitterAlone /\ CancelAlone)

SystemInv == StageInv /\ TruthInv /\ WriterInv
===============================================================================
