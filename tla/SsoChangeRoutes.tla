---------------------------- MODULE SsoChangeRoutes ---------------------------
(***************************************************************************)
(* The two writing routes of routes/ssoChanges.ts: submit and cancel.  The *)
(* gates and validations that answer before any write, the preview, and    *)
(* the read routes change none of this state.                              *)
(***************************************************************************)
EXTENDS ChangeWriter

(* POST /sso/change-requests: the audited row is committed before the      *)
(* first GitHub write (D-MSSO-11).  A replay answers from the row.         *)
(* Mutant: GitHub is written before the row. *)
BadSubmitRequest(p, k) ==
  /\ At(p, "idle")
  /\ CanSubmit(k)
  /\ proc' = [proc EXCEPT ![p] =
       [pc |-> "ref", key |-> k, stage |-> "submitted", pr |-> NoPr, found |-> NoPr]]
  /\ UNCHANGED <<repoVars, todo, swept, budget, storeVars>>

SubmitRequest(p, k) ==
  /\ At(p, "idle")
  /\ Submit(k)
  /\ proc' = [proc EXCEPT ![p] =
       [pc |-> "ref", key |-> k, stage |-> "submitted", pr |-> NoPr, found |-> NoPr]]
  /\ UNCHANGED <<repoVars, todo, swept, budget>>

(* GIT_WRITE_UNKNOWN: never assume the pull request was not created. *)
SubmitUnknown(p) ==
  /\ At(p, "unknown")
  /\ \/ Transition(proc[p].key, proc[p].stage, "unknown_recovering", NoPr)
     \/ ~Hits(proc[p].key, proc[p].stage) /\ UNCHANGED storeVars
  /\ Done(p)
  /\ UNCHANGED <<repoVars, todo, swept, budget>>

(* POST /sso/change-requests/{id}/cancel: an active row that is not inside  *)
(* its grace period (D-MSSO-18f).                                           *)
(* Mutant: no grace period. *)
BadCancellable(k) == Active(k)

Cancellable(k) == Active(k) /\ ~(requests[k].stage = "submitted" /\ requests[k].fresh)

(* Mutant: the intent is not recorded. *)
BadCancelStart(p, k) ==
  /\ At(p, "idle")
  /\ Cancellable(k)
  /\ proc' = [proc EXCEPT ![p] =
       [pc |-> "cancelFind", key |-> k, stage |-> requests[k].stage, pr |-> requests[k].pr,
        found |-> NoPr]]
  /\ sameVersion' = sameVersion \cup {<<p, k>>}
  /\ UNCHANGED <<repoVars, todo, swept, budget, requests, created, intents, lease>>

CancelStart(p, k) ==
  /\ At(p, "idle")
  /\ Cancellable(k)
  /\ proc' = [proc EXCEPT ![p] =
       [pc |-> "intent", key |-> k, stage |-> requests[k].stage, pr |-> requests[k].pr,
        found |-> NoPr]]
  /\ sameVersion' = sameVersion \cup {<<p, k>>}
  /\ UNCHANGED <<repoVars, todo, swept, budget, requests, created, intents, lease>>

(* D-MSSO-18g: the intent is on record before any GitHub call. *)
CancelIntent(p) ==
  /\ At(p, "intent")
  /\ intents' = intents \cup {proc[p].key}
  /\ Goto(p, "cancelFind")
  /\ UNCHANGED <<repoVars, todo, swept, budget, requests, created, sameVersion, lease>>

CancelEnds(p) ==
  /\ Done(p)
  /\ sameVersion' = sameVersion \ {<<p, proc[p].key>>}
  /\ UNCHANGED <<requests, created, intents, lease>>

(* By number if the row has one, else by branch.  A merged pull request     *)
(* answers 409; an open one is closed; none, or a closed one, is done.      *)
CancelFindPr(p) ==
  /\ At(p, "cancelFind")
  /\ \E n \in PrIds \cup {NoPr} :
       /\ IF proc[p].pr # NoPr THEN n = proc[p].pr ELSE FindsPr(Branch(p), n)
       /\ \/ n # NoPr /\ prs[n].state = "merged" /\ CancelEnds(p)
          \/ /\ n # NoPr /\ prs[n].state = "open"
             /\ GotoWith(p, "cancelClose", n)
             /\ UNCHANGED storeVars
          \/ /\ IF n = NoPr THEN TRUE ELSE prs[n].state = "closed"
             /\ Goto(p, "cancelCas")
             /\ UNCHANGED storeVars
  /\ UNCHANGED <<repoVars, todo, swept, budget>>

(* The answer of closePr (which tells a merged pull request) is not read.   *)
CancelClosePr(p) ==
  /\ At(p, "cancelClose")
  /\ ClosePr(proc[p].found, "cancel")
  /\ Goto(p, "cancelCas")
  /\ UNCHANGED <<branches, inflight, todo, swept, budget, storeVars>>

(* Compare-and-set on the stage AND the version read (D-MSSO-18i). *)
(* Mutant: on the stage alone. *)
BadCancelHits(p) == Hits(proc[p].key, proc[p].stage)

CancelHits(p) ==
  Hits(proc[p].key, proc[p].stage) /\ <<p, proc[p].key>> \in sameVersion

CancelCommit(p) ==
  /\ At(p, "cancelCas")
  /\ \/ /\ CancelHits(p)
        /\ Transition(proc[p].key, proc[p].stage, "failed", NoPr)
        /\ Done(p)
     \/ ~CancelHits(p) /\ CancelEnds(p)
  /\ UNCHANGED <<repoVars, todo, swept, budget>>

(* A request in progress takes its next step. *)
RouteStep(p) ==
  \/ CreateChangePr(p) \/ OpenPr(p) \/ ReadLostRow(p) \/ CloseOrphanPr(p)
  \/ RecordRefusal(p) \/ SubmitUnknown(p)
  \/ CancelIntent(p) \/ CancelFindPr(p) \/ CancelClosePr(p) \/ CancelCommit(p)
===============================================================================
