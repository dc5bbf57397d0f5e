----------------------------- MODULE ChangeWriter -----------------------------
(***************************************************************************)
(* What the submit route and the reconciler share: the processes of the    *)
(* Manager, createChangePr (sso-change/githubApp.ts), which writes branch, *)
(* file and pull request one GitHub call at a time, the compare-and-set to *)
(* pr_open that follows it, and the compensation that closes a pull        *)
(* request whose row was lost meanwhile (sso-change/compensation.ts).      *)
(*                                                                         *)
(* Every GitHub or database call is a step of its own (a refusal together  *)
(* with the look-up that explains it), and other processes run between any *)
(* two.  A call may fail, a process may die and a connection may drop;     *)
(* each such disturbance spends one unit of the budget.                    *)
(*                                                                         *)
(* Audit events that no code reads back and that are written on a best-    *)
(* effort basis (a closed orphan, a failed close) are left out.            *)
(***************************************************************************)
EXTENDS GithubRepo

CONSTANTS
  MaxDisturbances,  \* bound: failed calls, crashes, lost leases, odd humans
  NoKey             \* the key of a process that works on no request

ASSUME WriterAssumption == MaxDisturbances \in Nat /\ NoKey \notin Keys

VARIABLES
  proc,    \* [Procs -> what the process is about to do, and for which row]
  todo,    \* [Reconcilers -> snapshots its loop has still to visit]
  swept,   \* [Reconcilers -> keys swept within SWEEP_RECHECK: sweptAt]
  budget   \* disturbances still to come

managerVars == <<proc, todo, swept>>

(* Steps of createChangePr: what the grace period has to outlast. *)
WritePcs == {"ref", "read", "put", "pulls"}
(* A database call is next. *)
StorePcs == {"opened", "found", "adopt", "lost", "unknown", "refused", "notFound", "touch",
             "markMerged", "markRejected", "markApplied", "intent", "cancelCas"}
(* A GitHub or ArgoCD read is next. *)
ReadPcs == {"find", "findBranch", "checkPr", "app1", "app2", "sweepFind", "cancelFind"}
(* A close of a pull request is next. *)
ClosePcs == {"closeOrphan", "sweepClose", "cancelClose"}
Pcs == WritePcs \cup StorePcs \cup ReadPcs \cup ClosePcs \cup {"idle", "next", "sweepNext"}

Process == [pc : Pcs, key : Keys \cup {NoKey}, stage : Stages, pr : Nat, found : Nat]
Resting(pc) == [pc |-> pc, key |-> NoKey, stage |-> "none", pr |-> NoPr, found |-> NoPr]

ManagerTypeOK ==
  /\ proc \in [Procs -> Process]
  /\ todo \in [Reconcilers -> SUBSET Snapshot]
  /\ swept \in [Reconcilers -> SUBSET Keys]
  /\ budget \in 0..MaxDisturbances

ManagerInit ==
  /\ proc = [p \in Procs |-> Resting("idle")]
  /\ todo = [r \in Reconcilers |-> {}]
  /\ swept = [r \in Reconcilers |-> {}]
  /\ budget = MaxDisturbances

At(p, pc) == proc[p].pc = pc
Disturbance == budget > 0 /\ budget' = budget - 1
Branch(p) == BranchOf[proc[p].key]

Goto(p, pc) == proc' = [proc EXCEPT ![p].pc = pc]
GotoWith(p, pc, n) == proc' = [proc EXCEPT ![p].pc = pc, ![p].found = n]

(* The route has answered; the reconciler goes on with the next record.    *)
AfterRecord(p) ==
  IF p \in Handlers THEN "idle"
  ELSE IF proc[p].pc \in {"sweepFind", "sweepClose"} THEN "sweepNext" ELSE "next"
Done(p) == proc' = [proc EXCEPT ![p] = Resting(AfterRecord(p))]

-------------------------------------------------------------------------------
(* createChangePr, one action per GitHub call. *)

PostRef(p) ==
  /\ At(p, "ref")
  /\ CreateRef(Branch(p))
  /\ Goto(p, "read")
  /\ UNCHANGED <<prs, inflight, todo, swept, budget, storeVars>>

(* Neither base nor target on the branch: conflict, never overwritten.     *)
ReadContents(p) ==
  /\ At(p, "read")
  /\ Goto(p, CASE branches[Branch(p)] = "edited" -> "pulls"
               [] branches[Branch(p)] = "base" -> "put"
               [] OTHER -> "refused")
  /\ UNCHANGED <<repoVars, todo, swept, budget, storeVars>>

(* A refused PUT re-reads the branch: the target there means another        *)
(* instance of this very writer got in first (D-MSSO-19d).                  *)
WriteContents(p) ==
  /\ At(p, "put")
  /\ PutContents(Branch(p))
  /\ Goto(p, IF branches[Branch(p)] \in {"base", "edited"} THEN "pulls" ELSE "refused")
  /\ UNCHANGED <<prs, inflight, todo, swept, budget, storeVars>>

(* 201, or 422 "already exists" and then a search that ignores pull        *)
(* requests older than the request (D-MSSO-19a), or a refusal.             *)
PostPulls(p) ==
  /\ At(p, "pulls")
  /\ \/ /\ CanOpenPull(Branch(p))
        /\ \E n \in PrIds : OpenPull(Branch(p), n) /\ GotoWith(p, "opened", n)
     \/ /\ OpenOn(Branch(p)) # {}
        /\ \E n \in PrIds : FindsPr(Branch(p), n) /\ GotoWith(p, "opened", n)
        /\ UNCHANGED prs
     \/ /\ IF OpenOn(Branch(p)) = {} THEN ~CanOpenPull(Branch(p)) ELSE FindsPr(Branch(p), NoPr)
        /\ Goto(p, "refused")
        /\ UNCHANGED prs
  /\ UNCHANGED <<branches, inflight, todo, swept, budget, storeVars>>

(* Timeout, transport error, 5xx, rate limit, the overall deadline: the    *)
(* outcome is unknown, and the request may yet be carried out.             *)
WriteUnknown(p) ==
  /\ proc[p].pc \in WritePcs
  /\ Disturbance
  /\ inflight' = IF At(p, "read") THEN inflight
                 ELSE inflight \cup {[op |-> proc[p].pc, branch |-> Branch(p),
                                      pr |-> NoPr, by |-> "nobody"]}
  /\ Goto(p, "unknown")
  /\ UNCHANGED <<branches, prs, todo, swept, storeVars>>

(* Any other 4xx: refuse() or a failed precondition. *)
WriteRefused(p) ==
  /\ proc[p].pc \in WritePcs
  /\ Disturbance
  /\ Goto(p, "refused")
  /\ UNCHANGED <<repoVars, todo, swept, storeVars>>

CreateChangePr(p) ==
  PostRef(p) \/ ReadContents(p) \/ WriteContents(p) \/ PostPulls(p)

-------------------------------------------------------------------------------
(* The compare-and-set to pr_open, and the pull request it leaves behind   *)
(* when it is lost.                                                        *)

OpenPr(p) ==
  /\ proc[p].pc \in {"opened", "found", "adopt"}
  /\ \/ Transition(proc[p].key, proc[p].stage, "pr_open", proc[p].found) /\ Done(p)
     \/ /\ ~Hits(proc[p].key, proc[p].stage)
        /\ IF At(p, "adopt") THEN Done(p) ELSE Goto(p, "lost")
        /\ UNCHANGED storeVars
  /\ UNCHANGED <<repoVars, todo, swept, budget>>

ReadLostRow(p) ==
  /\ At(p, "lost")
  /\ IF Lost(proc[p].key) THEN Goto(p, "closeOrphan") ELSE Done(p)
  /\ UNCHANGED <<repoVars, todo, swept, budget, storeVars>>

CloseOrphanPr(p) ==
  /\ proc[p].pc \in {"closeOrphan", "sweepClose"}
  /\ ClosePr(proc[p].found, "compensation")
  /\ Done(p)
  /\ UNCHANGED <<branches, inflight, todo, swept, budget, storeVars>>

(* closeOrphanPr never throws; cancel answers 502.  Either way the close    *)
(* may still happen.                                                       *)
CloseUnknown(p) ==
  /\ proc[p].pc \in ClosePcs
  /\ Disturbance
  /\ inflight' = inflight \cup {[op |-> "close", branch |-> Branch(p), pr |-> proc[p].found,
       by |-> IF At(p, "cancelClose") THEN "cancel" ELSE "compensation"]}
  /\ Done(p)
  /\ sameVersion' = sameVersion \ {<<p, proc[p].key>>}
  /\ UNCHANGED <<branches, prs, todo, swept, requests, created, intents, lease>>

(* GitHub refused the writer (conflict or rejected): the row fails. *)
RecordRefusal(p) ==
  /\ At(p, "refused")
  /\ \/ Transition(proc[p].key, proc[p].stage, "failed", NoPr)
     \/ ~Hits(proc[p].key, proc[p].stage) /\ UNCHANGED storeVars
  /\ Done(p)
  /\ UNCHANGED <<repoVars, todo, swept, budget>>

-------------------------------------------------------------------------------
(* A database call or a read of GitHub or ArgoCD fails: the route answers  *)
(* an error (transitionOrLocal: its local record), the reconciler logs and *)
(* goes on.  A commit whose answer is lost is the step itself, then Crash. *)
CallFails(p) ==
  /\ proc[p].pc \in StorePcs \cup ReadPcs
  /\ Disturbance
  /\ Done(p)
  /\ sameVersion' = sameVersion \ {<<p, proc[p].key>>}
  /\ UNCHANGED <<repoVars, todo, swept, requests, created, intents, lease>>

(* The process dies.  Its database session dies with it, and the lease.    *)
Crash(p) ==
  /\ ~At(p, "idle")
  /\ Disturbance
  /\ proc' = [proc EXCEPT ![p] = Resting("idle")]
  /\ todo' = [r \in Reconcilers |-> IF r = p THEN {} ELSE todo[r]]
  /\ swept' = [r \in Reconcilers |-> IF r = p THEN {} ELSE swept[r]]
  /\ lease' = IF lease = p THEN Nobody ELSE lease
  /\ sameVersion' = {v \in sameVersion : v[1] # p}
  /\ UNCHANGED <<repoVars, requests, created, intents>>
===============================================================================
