----------------------------- MODULE SsoReconciler ----------------------------
(***************************************************************************)
(* The reconciler of sso-change/reconciler.ts: a tick under the database   *)
(* lease lists the open rows, asks GitHub (and ArgoCD) about each of them, *)
(* moves it by compare-and-set on the stage it read, then sweeps the       *)
(* branches of lost rows for open pull requests.                           *)
(***************************************************************************)
EXTENDS ChangeWriter

CONSTANT ArgocdReaders   \* replicas whose ArgoCD reader is configured and readable (D-MSSO-16)

ASSUME ArgocdAssumption == ArgocdReaders \subseteq Reconcilers

VARIABLE argo   \* [1..2 -> merged pull requests in the app's synced revision]

ReconcilerTypeOK == argo \in [1..2 -> SUBSET PrIds]
ReconcilerInit == argo = [i \in 1..2 |-> {}]

(* tick(), withReconcilerLease() and listOpen(): one tick per process, one  *)
(* lease holder; a replica that does not get the lock skips the tick.       *)
TickStart(r) ==
  /\ At(r, "idle")
  /\ lease = Nobody
  /\ lease' = r
  /\ todo' = [todo EXCEPT ![r] = ListOpen]
  /\ sameVersion' = sameVersion \cup {<<r, s.key>> : s \in ListOpen}
  /\ Goto(r, "next")
  /\ UNCHANGED <<repoVars, swept, budget, requests, created, intents, argo>>

(* reconcile(): a submitted row within its grace period is left alone.  The *)
(* period counts from the updated_at that was listed: it is the row's own   *)
(* if the row was not written since, else an earlier one, over or not.      *)
InGrace(r, s) == <<r, s.key>> \in sameVersion => requests[s.key].fresh
PastGrace(r, s) == <<r, s.key>> \in sameVersion => ~requests[s.key].fresh

(* Mutant: rows in unknown_recovering are skipped. *)
BadFirstCall(r, s, pc) ==
  \/ s.stage = "submitted" /\ InGrace(r, s) /\ pc = "next"
  \/ s.stage = "submitted" /\ PastGrace(r, s) /\ pc = "find"
  \/ s.stage = "unknown_recovering" /\ pc = "next"
  \/ s.stage = "pr_open" /\ pc = "checkPr"
  \/ s.stage = "merged" /\ pc = "app1"

FirstCall(r, s, pc) ==
  \/ s.stage = "submitted" /\ InGrace(r, s) /\ pc = "next"
  \/ s.stage = "submitted" /\ PastGrace(r, s) /\ pc = "find"
  \/ s.stage = "unknown_recovering" /\ pc = "find"
  \/ s.stage = "pr_open" /\ pc = "checkPr"
  \/ s.stage = "merged" /\ pc = "app1"

Working(s, pc) ==
  [pc |-> pc, key |-> s.key, stage |-> s.stage, pr |-> s.pr, found |-> NoPr]

TakeRecord(r) ==
  /\ At(r, "next")
  /\ \E s \in todo[r] :
       /\ \A t \in todo[r] : requests[t.key].seq <= requests[s.key].seq
       /\ todo' = [todo EXCEPT ![r] = @ \ {s}]
       /\ sameVersion' = sameVersion \ {<<r, s.key>>}
       /\ \E pc \in {"next", "find", "checkPr", "app1"} :
            /\ FirstCall(r, s, pc)
            /\ proc' = [proc EXCEPT ![r] =
                 IF pc = "next" THEN Resting("next") ELSE Working(s, pc)]
  /\ UNCHANGED <<repoVars, swept, budget, requests, created, intents, lease, argo>>

-------------------------------------------------------------------------------
(* recover(): find out what GitHub actually has. *)

RecoverFindPr(r) ==
  /\ At(r, "find")
  /\ \/ FindsPr(Branch(r), NoPr) /\ Goto(r, "findBranch")
     \/ \E n \in PrIds :
          /\ FindsPr(Branch(r), n)
          /\ GotoWith(r, IF prs[n].state = "open" THEN "found" ELSE "adopt", n)
  /\ UNCHANGED <<repoVars, todo, swept, budget, storeVars, argo>>

(* findBranch(), then rebuild() of the edit from the recorded base. *)
RecoverFindBranch(r) ==
  /\ At(r, "findBranch")
  /\ Goto(r, IF branches[Branch(r)] = "none" THEN "notFound" ELSE "touch")
  /\ UNCHANGED <<repoVars, todo, swept, budget, storeVars, argo>>

RecoverNotFound(r) ==
  /\ At(r, "notFound")
  /\ \/ Transition(proc[r].key, proc[r].stage, "failed", NoPr)
     \/ ~Hits(proc[r].key, proc[r].stage) /\ UNCHANGED storeVars
  /\ Done(r)
  /\ UNCHANGED <<repoVars, todo, swept, budget, argo>>

(* The audited hop unknown_recovering -> submitted (D-MSSO-18e), or the      *)
(* touch submitted -> submitted (D-MSSO-18h): both restart the grace period  *)
(* and give the row a new version before the writer runs again.              *)
(* Mutant: the writer goes on with the record from before the hop. *)
BadRecoverTouch(r) ==
  /\ At(r, "touch")
  /\ \/ Transition(proc[r].key, proc[r].stage, "submitted", NoPr) /\ Goto(r, "ref")
     \/ /\ ~Hits(proc[r].key, proc[r].stage)
        /\ Done(r)
        /\ UNCHANGED storeVars
  /\ UNCHANGED <<repoVars, todo, swept, budget, argo>>

RecoverTouch(r) ==
  /\ At(r, "touch")
  /\ \/ /\ Transition(proc[r].key, proc[r].stage, "submitted", NoPr)
        /\ proc' = [proc EXCEPT ![r].pc = "ref", ![r].stage = "submitted"]
     \/ /\ ~Hits(proc[r].key, proc[r].stage)
        /\ Done(r)
        /\ UNCHANGED storeVars
  /\ UNCHANGED <<repoVars, todo, swept, budget, argo>>

(* GitWriteError "unknown" is rethrown and logged; the row stays submitted. *)
RecoverUnknown(r) ==
  /\ At(r, "unknown")
  /\ Done(r)
  /\ UNCHANGED <<repoVars, todo, swept, budget, storeVars, argo>>

-------------------------------------------------------------------------------
(* checkPr() and checkApplied(). *)

(* Mutant: closed is taken for merged. *)
ClosedIsMergedCheckPr(r) ==
  /\ At(r, "checkPr")
  /\ IF prs[proc[r].pr].state = "open" THEN Done(r) ELSE Goto(r, "markMerged")
  /\ UNCHANGED <<repoVars, todo, swept, budget, storeVars, argo>>

(* Mutant: a pull request closed without merge is left alone. *)
IgnoresClosedCheckPr(r) ==
  /\ At(r, "checkPr")
  /\ IF prs[proc[r].pr].state = "merged" THEN Goto(r, "markMerged") ELSE Done(r)
  /\ UNCHANGED <<repoVars, todo, swept, budget, storeVars, argo>>

(* A merged pull request whose merge commit is not known yet is CallFails.   *)
(* A row in pr_open always has its number: checkPr never has to search.      *)
CheckPr(r) ==
  /\ At(r, "checkPr")
  /\ CASE prs[proc[r].pr].state = "merged" -> Goto(r, "markMerged")
       [] prs[proc[r].pr].state = "closed" -> Goto(r, "markRejected")
       [] OTHER -> Done(r)
  /\ UNCHANGED <<repoVars, todo, swept, budget, storeVars, argo>>

(* Synced, at the merge commit or a descendant of it: both, one by one.     *)
(* Without a reader nobody asks, and the row simply stays merged.           *)
(* Mutant: one Application is enough. *)
BadCheckApp(r) ==
  /\ proc[r].pc \in {"app1", "app2"}
  /\ IF r \in ArgocdReaders /\ \E i \in 1..2 : proc[r].pr \in argo[i] THEN Goto(r, "markApplied") ELSE Done(r)
  /\ UNCHANGED <<repoVars, todo, swept, budget, storeVars, argo>>

CheckApp(r) ==
  /\ proc[r].pc \in {"app1", "app2"}
  /\ IF r \notin ArgocdReaders THEN Done(r)
     ELSE IF At(r, "app1")
     THEN IF proc[r].pr \in argo[1] THEN Goto(r, "app2") ELSE Done(r)
     ELSE IF proc[r].pr \in argo[2] THEN Goto(r, "markApplied") ELSE Done(r)
  /\ UNCHANGED <<repoVars, todo, swept, budget, storeVars, argo>>

Outcome(pc) ==
  CASE pc = "markMerged" -> "merged" [] pc = "markRejected" -> "rejected" [] OTHER -> "applied"

MarkOutcome(r) ==
  /\ proc[r].pc \in {"markMerged", "markRejected", "markApplied"}
  /\ \/ Transition(proc[r].key, proc[r].stage, Outcome(proc[r].pc), NoPr)
     \/ ~Hits(proc[r].key, proc[r].stage) /\ UNCHANGED storeVars
  /\ Done(r)
  /\ UNCHANGED <<repoVars, todo, swept, budget, argo>>

-------------------------------------------------------------------------------
(* sweepTerminal(): record-driven, throttled per record and per replica. *)

SweepList(r) ==
  /\ At(r, "next")
  /\ todo[r] = {}
  /\ todo' = [todo EXCEPT ![r] = {s \in ListRecentTerminal : s.key \notin swept[r]}]
  /\ Goto(r, "sweepNext")
  /\ UNCHANGED <<repoVars, swept, budget, storeVars, argo>>

SweepListFails(r) ==
  /\ At(r, "next")
  /\ todo[r] = {}
  /\ Disturbance
  /\ Goto(r, "sweepNext")
  /\ UNCHANGED <<repoVars, todo, swept, storeVars, argo>>

(* Throttled before the call, so that a failing GitHub is not asked again. *)
SweepTake(r) ==
  /\ At(r, "sweepNext")
  /\ \E s \in todo[r] :
       /\ todo' = [todo EXCEPT ![r] = @ \ {s}]
       /\ swept' = [swept EXCEPT ![r] = @ \cup {s.key}]
       /\ proc' = [proc EXCEPT ![r] = Working(s, "sweepFind")]
  /\ UNCHANGED <<repoVars, budget, storeVars, argo>>

SweepFindPr(r) ==
  /\ At(r, "sweepFind")
  /\ \/ \E n \in PrIds :
          /\ FindsPr(Branch(r), n)
          /\ IF prs[n].state = "open" THEN GotoWith(r, "sweepClose", n) ELSE Done(r)
     \/ FindsPr(Branch(r), NoPr) /\ Done(r)
  /\ UNCHANGED <<repoVars, todo, swept, budget, storeVars, argo>>

(* The tick ends: pg_advisory_unlock, if the session still holds the lock. *)
TickEnd(r) ==
  /\ At(r, "sweepNext")
  /\ todo[r] = {}
  /\ Goto(r, "idle")
  /\ lease' = IF lease = r THEN Nobody ELSE lease
  /\ UNCHANGED <<repoVars, todo, swept, budget, requests, created, sameVersion, intents, argo>>

(* The lease connection drops mid-tick: Postgres frees the lock, the tick   *)
(* goes on.                                                                 *)
LeaseLost(r) ==
  /\ lease = r
  /\ Disturbance
  /\ lease' = Nobody
  /\ UNCHANGED <<repoVars, managerVars, requests, created, sameVersion, intents, argo>>

(* SWEEP_RECHECK_MS passes. *)
RecheckElapses(r, k) ==
  /\ k \in swept[r]
  /\ swept' = [swept EXCEPT ![r] = @ \ {k}]
  /\ UNCHANGED <<repoVars, proc, todo, budget, storeVars, argo>>

(* ArgoCD syncs one Application to the head of main; it never goes back. *)
ArgoSyncs(i) ==
  /\ argo' = [argo EXCEPT ![i] = {n \in PrIds : prs[n].state = "merged"}]
  /\ UNCHANGED <<repoVars, managerVars, budget, storeVars>>

TickStep(r) ==
  \/ TakeRecord(r) \/ RecoverFindPr(r) \/ RecoverFindBranch(r) \/ RecoverNotFound(r)
  \/ RecoverTouch(r) \/ RecoverUnknown(r) \/ CheckPr(r) \/ CheckApp(r) \/ MarkOutcome(r)
  \/ SweepList(r) \/ SweepTake(r) \/ SweepFindPr(r) \/ TickEnd(r)
===============================================================================
