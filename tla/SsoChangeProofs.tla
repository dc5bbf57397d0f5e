---------------------------- MODULE SsoChangeProofs ---------------------------
(***************************************************************************)
(* SsoChange, for any number of keys, handlers, replicas, pull requests    *)
(* and disturbances, in four parts: types; the request table; what rows    *)
(* and processes say of GitHub and ArgoCD; who may write.  Each part has   *)
(* one lemma per action and ends with the theorems that follow from it.    *)
(***************************************************************************)
EXTENDS SsoChange, FiniteSetTheorems, TLAPS

LEMMA StoreFrame == ASSUME StoreTypeOK, UNCHANGED storeVars PROVE StoreTypeOK'
  BY DEF StoreTypeOK, storeVars

LEMMA RepoFrame == ASSUME RepoTypeOK, UNCHANGED repoVars PROVE RepoTypeOK'
  BY DEF RepoTypeOK, repoVars

LEMMA SubmitTyped == ASSUME StoreTypeOK, NEW k \in Keys, Submit(k) PROVE StoreTypeOK'
  BY DEF StoreTypeOK, Submit, Row, Stages, OPEN_STAGES, ACTIVE_STAGES, NoPr

LEMMA TransitionTyped ==
  ASSUME StoreTypeOK, NEW k \in Keys, NEW e, NEW s \in Stages, NEW n \in Nat, Transition(k, e, s, n)
  PROVE  StoreTypeOK'
  BY DEF StoreTypeOK, Transition, Row

LEMMA CreateRefTyped == 
  ASSUME RepoTypeOK, NEW b \in Branches, CreateRef(b) \/ PutContents(b), UNCHANGED <<prs, inflight>> PROVE RepoTypeOK'
  BY DEF RepoTypeOK, CreateRef, PutContents, Content

LEMMA OpenPullTyped ==
  ASSUME RepoTypeOK, NEW b \in Branches, NEW n \in PrIds, OpenPull(b, n) PROVE prs' \in [PrIds -> PullRequest]
  BY DEF RepoTypeOK, OpenPull, PullRequest

LEMMA ClosePrTyped ==
  ASSUME RepoTypeOK, NEW n, NEW by \in {"cancel", "compensation"}, ClosePr(n, by) PROVE prs' \in [PrIds -> PullRequest]
  BY DEF RepoTypeOK, ClosePr, PullRequest

-------------------------------------------------------------------------------
(* Processes: what a step of the control flow keeps. *)

Walking == proc \in [Procs -> Process] /\ ProcInv

LEMMA GotoWalks ==
  ASSUME Walking, NEW p \in Procs, NEW pc \in Pcs, Goto(p, pc), Fits([proc[p] EXCEPT !.pc = pc])
  PROVE  Walking'
<1>1. [proc[p] EXCEPT !.pc = pc] \in Process
  BY DEF Walking, Process
<1>2. proc' = [proc EXCEPT ![p] = [proc[p] EXCEPT !.pc = pc]]
  BY DEF Goto
<1> QED
  BY <1>1, <1>2 DEF Walking, ProcInv

LEMMA GotoWithWalks ==
  ASSUME Walking, NEW p \in Procs, NEW pc \in Pcs, NEW n \in Nat, GotoWith(p, pc, n), Fits([proc[p] EXCEPT !.pc = pc])
  PROVE  Walking'
<1> DEFINE q == [proc[p] EXCEPT !.pc = pc, !.found = n]
<1>1. q \in Process /\ q.pc = pc /\ q.key = proc[p].key /\ q.stage = proc[p].stage
  BY DEF Walking, Process
<1>0. [proc[p] EXCEPT !.pc = pc].pc = pc /\ [proc[p] EXCEPT !.pc = pc].key = proc[p].key /\ [proc[p] EXCEPT !.pc = pc].stage = proc[p].stage
  BY DEF Walking, Process
<1>2. proc' = [proc EXCEPT ![p] = q]
  BY DEF GotoWith
<1>3. Fits(q)
  BY <1>1, <1>0 DEF Fits
<1> HIDE DEF q
<1> QED
  BY <1>1, <1>2, <1>3 DEF Walking, ProcInv

LEMMA DoneWalks ==
  ASSUME Walking, NEW p \in Procs, Done(p) PROVE Walking'
<1> DEFINE q == Resting(AfterRecord(p))
<1>1. q \in Process /\ q.pc \in RestPcs 
  BY DEF Resting, Process, AfterRecord, Pcs, RestPcs, Stages, NoPr
<1>2. Fits(q)
  BY <1>1 DEF Fits, RestPcs, WritePcs
<1>3. proc' = [proc EXCEPT ![p] = q]
  BY DEF Done
<1> HIDE DEF q
<1> QED
  BY <1>1, <1>2, <1>3 DEF Walking, ProcInv

Typed == TypeOK /\ ProcInv

LEMMA Assemble ==
  ASSUME Typed, StoreTypeOK', RepoTypeOK', Walking', UNCHANGED <<todo, swept, argo>>,
         budget' \in 0..MaxDisturbances
  PROVE  Typed'
  BY DEF Typed, TypeOK, ManagerTypeOK, ReconcilerTypeOK, Walking

LEMMA Unfold ==
  ASSUME Typed PROVE /\ StoreTypeOK /\ RepoTypeOK /\ Walking
                     /\ budget \in 0..MaxDisturbances
  BY DEF Typed, TypeOK, ManagerTypeOK, Walking

LEMMA Disturbed ==
  ASSUME Typed, Disturbance PROVE budget' \in 0..MaxDisturbances
<1>1. MaxDisturbances \in Nat /\ budget \in 0..MaxDisturbances
  BY WriterAssumption, Unfold
<1> QED
  BY <1>1 DEF Disturbance

LEMMA AtWork ==
  ASSUME Walking, NEW p \in Procs, proc[p].pc \notin RestPcs
  PROVE  /\ proc[p] \in Process /\ Fits(proc[p])
         /\ proc[p].key \in Keys /\ Branch(p) \in Branches
  BY StoreAssumption DEF Walking, ProcInv, Fits, Branch

(* An EXCEPT of the program counter keeps what Fits speaks of. *)
LEMMA Moved ==
  ASSUME NEW q \in Process, NEW pc
  PROVE  /\ [q EXCEPT !.pc = pc].pc = pc
         /\ [q EXCEPT !.pc = pc].key = q.key
         /\ [q EXCEPT !.pc = pc].stage = q.stage
  BY DEF Process

-------------------------------------------------------------------------------
(* createChangePr. *)

LEMMA PostRefTyped ==
  ASSUME Typed, NEW p \in Procs, PostRef(p), UNCHANGED argo PROVE Typed'
<1>1. proc[p].pc = "ref" /\ proc[p].pc \notin RestPcs
  BY DEF PostRef, At, RestPcs
<1>2. proc[p] \in Process /\ Fits(proc[p]) /\ Branch(p) \in Branches
  BY <1>1, Unfold, AtWork
<1>3. Fits([proc[p] EXCEPT !.pc = "read"])
  BY <1>1, <1>2, Moved DEF Fits, WritePcs
<1>4. Walking'
  BY <1>3, Unfold, GotoWalks DEF PostRef, Pcs, WritePcs
<1>5. RepoTypeOK'
  BY <1>2, Unfold, CreateRefTyped DEF PostRef
<1>6. StoreTypeOK'
  BY Unfold, StoreFrame DEF PostRef
<1> QED
  BY <1>4, <1>5, <1>6, Unfold, Assemble DEF PostRef

LEMMA ReadContentsTyped ==
  ASSUME Typed, NEW p \in Procs, ReadContents(p), UNCHANGED argo PROVE Typed'
<1> DEFINE pc == CASE branches[Branch(p)] = "edited" -> "pulls"
                   [] branches[Branch(p)] = "base" -> "put"
                   [] OTHER -> "refused"
<1>1. proc[p].pc = "read" /\ proc[p].pc \notin RestPcs
  BY DEF ReadContents, At, RestPcs
<1>2. proc[p] \in Process /\ Fits(proc[p])
  BY <1>1, Unfold, AtWork
<1>0. pc \in {"pulls", "put", "refused"}
  OBVIOUS
<1>3. Goto(p, pc)
  BY DEF ReadContents
<1> HIDE DEF pc
<1>4. Fits([proc[p] EXCEPT !.pc = pc]) /\ pc \in Pcs
  BY <1>0, <1>1, <1>2, Moved DEF Fits, WritePcs, RestPcs, Pcs, StorePcs
<1>5. Walking'
  BY <1>3, <1>4, Unfold, GotoWalks
<1> QED
  BY <1>5, Unfold, StoreFrame, RepoFrame, Assemble DEF ReadContents

LEMMA WriteContentsTyped ==
  ASSUME Typed, NEW p \in Procs, WriteContents(p), UNCHANGED argo PROVE Typed'
<1> DEFINE pc == IF branches[Branch(p)] \in {"base", "edited"} THEN "pulls" ELSE "refused"
<1>1. proc[p].pc = "put" /\ proc[p].pc \notin RestPcs
  BY DEF WriteContents, At, RestPcs
<1>2. proc[p] \in Process /\ Fits(proc[p]) /\ Branch(p) \in Branches
  BY <1>1, Unfold, AtWork
<1>3. pc \in {"pulls", "refused"} /\ Goto(p, pc)
  BY DEF WriteContents
<1> HIDE DEF pc
<1>4. Fits([proc[p] EXCEPT !.pc = pc]) /\ pc \in Pcs
  BY <1>1, <1>2, <1>3, Moved DEF Fits, WritePcs, RestPcs, Pcs, StorePcs
<1>5. Walking'
  BY <1>3, <1>4, Unfold, GotoWalks
<1>6. RepoTypeOK'
  BY <1>2, Unfold, CreateRefTyped DEF WriteContents
<1> QED
  BY <1>5, <1>6, Unfold, StoreFrame, Assemble DEF WriteContents

LEMMA PostPullsTyped ==
  ASSUME Typed, NEW p \in Procs, PostPulls(p), UNCHANGED argo PROVE Typed'
<1>1. proc[p].pc = "pulls" /\ proc[p].pc \notin RestPcs
  BY DEF PostPulls, At, RestPcs
<1>2. proc[p] \in Process /\ Fits(proc[p]) /\ Branch(p) \in Branches
  BY <1>1, Unfold, AtWork
<1>3. /\ Fits([proc[p] EXCEPT !.pc = "opened"]) /\ Fits([proc[p] EXCEPT !.pc = "refused"])
      /\ "opened" \in Pcs /\ "refused" \in Pcs
  BY <1>1, <1>2, Moved DEF Fits, WritePcs, RestPcs, Pcs, StorePcs
<1>4. PrIds \subseteq Nat
  BY RepoAssumption DEF PrIds
<1>5. prs' \in [PrIds -> PullRequest] /\ Walking'
  <2>1. ASSUME NEW n \in PrIds, OpenPull(Branch(p), n), GotoWith(p, "opened", n)
        PROVE  prs' \in [PrIds -> PullRequest] /\ Walking'
    BY <2>1, <1>2, <1>3, <1>4, Unfold, OpenPullTyped, GotoWithWalks
  <2>2. ASSUME NEW n \in PrIds, GotoWith(p, "opened", n), UNCHANGED prs
        PROVE  prs' \in [PrIds -> PullRequest] /\ Walking'
    BY <2>2, <1>3, <1>4, Unfold, GotoWithWalks DEF RepoTypeOK
  <2>3. ASSUME Goto(p, "refused"), UNCHANGED prs
        PROVE  prs' \in [PrIds -> PullRequest] /\ Walking'
    BY <2>3, <1>3, Unfold, GotoWalks DEF RepoTypeOK
  <2> QED
    BY <2>1, <2>2, <2>3 DEF PostPulls
<1>6. RepoTypeOK'
  BY <1>5, Unfold DEF RepoTypeOK, PostPulls
<1> QED
  BY <1>5, <1>6, Unfold, StoreFrame, Assemble DEF PostPulls

LEMMA WriteUnknownTyped ==
  ASSUME Typed, NEW p \in Procs, WriteUnknown(p), UNCHANGED argo PROVE Typed'
<1>1. proc[p].pc \in WritePcs /\ proc[p].pc \notin RestPcs
  BY DEF WriteUnknown, WritePcs, RestPcs
<1>2. proc[p] \in Process /\ Fits(proc[p]) /\ Branch(p) \in Branches
  BY <1>1, Unfold, AtWork
<1>3. Fits([proc[p] EXCEPT !.pc = "unknown"]) /\ "unknown" \in Pcs
  BY <1>1, <1>2, Moved DEF Fits, WritePcs, RestPcs, Pcs, StorePcs
<1>4. Walking'
  BY <1>3, Unfold, GotoWalks DEF WriteUnknown
<1>5. RepoTypeOK'
  <2>1. proc[p].pc # "read" =>
          [op |-> proc[p].pc, branch |-> Branch(p), pr |-> NoPr, by |-> "nobody"] \in Write
    BY <1>1, <1>2 DEF Write, WritePcs, NoPr
  <2> QED
    BY <2>1, Unfold DEF RepoTypeOK, WriteUnknown, At
<1> QED
  BY <1>4, <1>5, Unfold, StoreFrame, Disturbed, Assemble DEF WriteUnknown

LEMMA WriteRefusedTyped ==
  ASSUME Typed, NEW p \in Procs, WriteRefused(p), UNCHANGED argo PROVE Typed'
<1>1. proc[p].pc \in WritePcs /\ proc[p].pc \notin RestPcs
  BY DEF WriteRefused, WritePcs, RestPcs
<1>2. proc[p] \in Process /\ Fits(proc[p])
  BY <1>1, Unfold, AtWork
<1>3. Fits([proc[p] EXCEPT !.pc = "refused"]) /\ "refused" \in Pcs
  BY <1>1, <1>2, Moved DEF Fits, WritePcs, RestPcs, Pcs, StorePcs
<1>4. Walking'
  BY <1>3, Unfold, GotoWalks DEF WriteRefused
<1> QED
  BY <1>4, Unfold, StoreFrame, RepoFrame, Disturbed, Assemble DEF WriteRefused

-------------------------------------------------------------------------------
(* The compare-and-sets and closes that follow it. *)

LEMMA SomeStages ==
  /\ {"submitted", "pr_open", "unknown_recovering", "merged", "applied", "failed", "rejected"}
       \subseteq Stages
  /\ NoPr \in Nat
  BY DEF Stages, OPEN_STAGES, ACTIVE_STAGES, TerminalLoss, NoPr

LEMMA OpenPrTyped ==
  ASSUME Typed, NEW p \in Procs, OpenPr(p), UNCHANGED argo PROVE Typed'
<1>1. proc[p].pc \in {"opened", "found", "adopt"} /\ proc[p].pc \notin RestPcs
  BY DEF OpenPr, RestPcs
<1>2. proc[p] \in Process /\ Fits(proc[p]) /\ proc[p].key \in Keys
  BY <1>1, Unfold, AtWork
<1>3. proc[p].found \in Nat /\ Fits([proc[p] EXCEPT !.pc = "lost"]) /\ "lost" \in Pcs
  BY <1>1, <1>2, Moved DEF Process, Fits, WritePcs, RestPcs, Pcs, StorePcs
<1>4. Walking'
  BY <1>3, Unfold, GotoWalks, DoneWalks DEF OpenPr
<1>5. StoreTypeOK'
  BY <1>2, <1>3, Unfold, SomeStages, TransitionTyped, StoreFrame DEF OpenPr
<1> QED
  BY <1>4, <1>5, Unfold, RepoFrame, Assemble DEF OpenPr

LEMMA ReadLostRowTyped ==
  ASSUME Typed, NEW p \in Procs, ReadLostRow(p), UNCHANGED argo PROVE Typed'
<1>1. proc[p].pc = "lost" /\ proc[p].pc \notin RestPcs
  BY DEF ReadLostRow, At, RestPcs
<1>2. proc[p] \in Process /\ Fits(proc[p])
  BY <1>1, Unfold, AtWork
<1>3. Fits([proc[p] EXCEPT !.pc = "closeOrphan"]) /\ "closeOrphan" \in Pcs
  BY <1>1, <1>2, Moved DEF Fits, WritePcs, RestPcs, Pcs, ClosePcs
<1>4. Walking'
  BY <1>3, Unfold, GotoWalks, DoneWalks DEF ReadLostRow
<1> QED
  BY <1>4, Unfold, StoreFrame, RepoFrame, Assemble DEF ReadLostRow

LEMMA CloseOrphanPrTyped ==
  ASSUME Typed, NEW p \in Procs, CloseOrphanPr(p), UNCHANGED argo PROVE Typed'
<1>1. Walking'
  BY Unfold, DoneWalks DEF CloseOrphanPr
<1>2. prs' \in [PrIds -> PullRequest]
  BY Unfold, ClosePrTyped DEF CloseOrphanPr
<1>3. RepoTypeOK'
  BY <1>2, Unfold DEF RepoTypeOK, CloseOrphanPr
<1> QED
  BY <1>1, <1>3, Unfold, StoreFrame, Assemble DEF CloseOrphanPr

LEMMA CloseUnknownTyped ==
  ASSUME Typed, NEW p \in Procs, CloseUnknown(p), UNCHANGED argo PROVE Typed'
<1>1. proc[p].pc \in ClosePcs /\ proc[p].pc \notin RestPcs
  BY DEF CloseUnknown, ClosePcs, RestPcs
<1>2. proc[p] \in Process /\ Branch(p) \in Branches
  BY <1>1, Unfold, AtWork
<1>3. Walking'
  BY Unfold, DoneWalks DEF CloseUnknown
<1>4. RepoTypeOK'
  <2>1. [op |-> "close", branch |-> Branch(p), pr |-> proc[p].found,
         by |-> IF At(p, "cancelClose") THEN "cancel" ELSE "compensation"] \in Write
    BY <1>2 DEF Write, Process
  <2> QED
    BY <2>1, Unfold DEF RepoTypeOK, CloseUnknown
<1>5. StoreTypeOK'
  BY Unfold DEF StoreTypeOK, CloseUnknown
<1> QED
  BY <1>3, <1>4, <1>5, Unfold, Disturbed, Assemble DEF CloseUnknown

LEMMA RecordRefusalTyped ==
  ASSUME Typed, NEW p \in Procs, RecordRefusal(p), UNCHANGED argo PROVE Typed'
<1>1. proc[p].pc \notin RestPcs
  BY DEF RecordRefusal, At, RestPcs
<1>2. StoreTypeOK'
  BY <1>1, Unfold, AtWork, SomeStages, TransitionTyped, StoreFrame DEF RecordRefusal
<1> QED
  BY <1>2, Unfold, DoneWalks, RepoFrame, Assemble DEF RecordRefusal

LEMMA CallFailsTyped ==
  ASSUME Typed, NEW p \in Procs, CallFails(p), UNCHANGED argo PROVE Typed'
<1>1. StoreTypeOK'
  BY Unfold DEF StoreTypeOK, CallFails
<1> QED
  BY <1>1, Unfold, DoneWalks, RepoFrame, Disturbed, Assemble DEF CallFails

LEMMA CrashTyped ==
  ASSUME Typed, NEW p \in Procs, Crash(p), UNCHANGED argo PROVE Typed'
<1>1. Walking'
  <2>1. Resting("idle") \in Process /\ Resting("idle").pc = "idle"
    BY DEF Resting, Process, Pcs, Stages, NoPr
  <2>2. Fits(Resting("idle"))
    BY <2>1 DEF Fits, RestPcs, WritePcs
  <2> QED
    BY <2>1, <2>2, Unfold DEF Crash, Walking, ProcInv
<1>2. StoreTypeOK'
  BY Unfold DEF StoreTypeOK, Crash
<1>3. todo' \in [Reconcilers -> SUBSET Snapshot] /\ swept' \in [Reconcilers -> SUBSET Keys]
  BY DEF Typed, TypeOK, ManagerTypeOK, Crash
<1>4. RepoTypeOK'
  BY Unfold, RepoFrame DEF Crash
<1>5. budget' \in 0..MaxDisturbances
  BY Disturbed DEF Crash
<1> QED
  BY <1>1, <1>2, <1>3, <1>4, <1>5 DEF Typed, TypeOK, ManagerTypeOK, ReconcilerTypeOK, Walking

-------------------------------------------------------------------------------
(* The routes. *)

(* A process starts work on a row. *)
LEMMA StartWalks ==
  ASSUME Walking, NEW p \in Procs, NEW q \in Process, Fits(q), proc' = [proc EXCEPT ![p] = q]
  PROVE  Walking'
  BY DEF Walking, ProcInv

LEMMA SubmitRequestTyped ==
  ASSUME Typed, NEW p \in Procs, NEW k \in Keys, SubmitRequest(p, k), UNCHANGED argo PROVE Typed'
<1> DEFINE q == [pc |-> "ref", key |-> k, stage |-> "submitted", pr |-> NoPr, found |-> NoPr]
<1>1. q \in Process
  BY SomeStages DEF Process, Pcs, WritePcs
<1>2. Fits(q)
  BY DEF Fits, WritePcs, RestPcs
<1>3. proc' = [proc EXCEPT ![p] = q]
  BY DEF SubmitRequest
<1> HIDE DEF q
<1>4. Walking'
  BY <1>1, <1>2, <1>3, Unfold, StartWalks
<1> QED
  BY <1>4, Unfold, SubmitTyped, RepoFrame, Assemble DEF SubmitRequest

LEMMA SubmitUnknownTyped ==
  ASSUME Typed, NEW p \in Procs, SubmitUnknown(p), UNCHANGED argo PROVE Typed'
<1>1. proc[p].pc \notin RestPcs
  BY DEF SubmitUnknown, At, RestPcs
<1>2. StoreTypeOK'
  BY <1>1, Unfold, AtWork, SomeStages, TransitionTyped, StoreFrame DEF SubmitUnknown
<1> QED
  BY <1>2, Unfold, DoneWalks, RepoFrame, Assemble DEF SubmitUnknown

LEMMA CancelStartTyped ==
  ASSUME Typed, NEW p \in Procs, NEW k \in Keys, CancelStart(p, k), UNCHANGED argo PROVE Typed'
<1> DEFINE q == [pc |-> "intent", key |-> k, stage |-> requests[k].stage,
                 pr |-> requests[k].pr, found |-> NoPr]
<1>0. requests[k] \in Row /\ requests[k].stage \in ACTIVE_STAGES
  BY Unfold DEF StoreTypeOK, CancelStart, Cancellable, Active
<1>1. q \in Process
  BY <1>0, SomeStages DEF Process, Row, Pcs, StorePcs
<1>2. Fits(q)
  BY <1>0 DEF Fits, WritePcs, RestPcs
<1>3. proc' = [proc EXCEPT ![p] = q]
  BY DEF CancelStart
<1> HIDE DEF q
<1>4. Walking'
  BY <1>1, <1>2, <1>3, Unfold, StartWalks
<1>5. StoreTypeOK'
  BY Unfold DEF StoreTypeOK, CancelStart
<1> QED
  BY <1>4, <1>5, Unfold, RepoFrame, Assemble DEF CancelStart

LEMMA CancelIntentTyped ==
  ASSUME Typed, NEW p \in Procs, CancelIntent(p), UNCHANGED argo PROVE Typed'
<1>1. proc[p].pc = "intent" /\ proc[p].pc \notin RestPcs
  BY DEF CancelIntent, At, RestPcs
<1>2. proc[p] \in Process /\ Fits(proc[p]) /\ proc[p].key \in Keys
  BY <1>1, Unfold, AtWork
<1>3. Fits([proc[p] EXCEPT !.pc = "cancelFind"]) /\ "cancelFind" \in Pcs
  BY <1>1, <1>2, Moved DEF Fits, WritePcs, RestPcs, Pcs, ReadPcs
<1>4. Walking'
  BY <1>3, Unfold, GotoWalks DEF CancelIntent
<1>5. StoreTypeOK'
  BY <1>2, Unfold DEF StoreTypeOK, CancelIntent
<1> QED
  BY <1>4, <1>5, Unfold, RepoFrame, Assemble DEF CancelIntent

LEMMA CancelEndsTyped ==
  ASSUME Typed, NEW p \in Procs, CancelEnds(p) PROVE StoreTypeOK' /\ Walking'
<1>1. StoreTypeOK'
  BY Unfold DEF StoreTypeOK, CancelEnds
<1> QED
  BY <1>1, Unfold, DoneWalks DEF CancelEnds

LEMMA CancelFindPrTyped ==
  ASSUME Typed, NEW p \in Procs, CancelFindPr(p), UNCHANGED argo PROVE Typed'
<1>1. proc[p].pc = "cancelFind" /\ proc[p].pc \notin RestPcs
  BY DEF CancelFindPr, At, RestPcs
<1>2. proc[p] \in Process /\ Fits(proc[p])
  BY <1>1, Unfold, AtWork
<1>3. /\ Fits([proc[p] EXCEPT !.pc = "cancelClose"]) /\ Fits([proc[p] EXCEPT !.pc = "cancelCas"])
      /\ "cancelClose" \in Pcs /\ "cancelCas" \in Pcs
  BY <1>1, <1>2, Moved DEF Fits, WritePcs, RestPcs, Pcs, ClosePcs, StorePcs
<1>4. PrIds \cup {NoPr} \subseteq Nat
  BY RepoAssumption DEF PrIds, NoPr
<1>5. PICK n \in PrIds \cup {NoPr} :
        \/ CancelEnds(p)
        \/ GotoWith(p, "cancelClose", n) /\ UNCHANGED storeVars
        \/ Goto(p, "cancelCas") /\ UNCHANGED storeVars
  BY DEF CancelFindPr
<1>6. StoreTypeOK' /\ Walking'
  BY <1>3, <1>4, <1>5, Unfold, CancelEndsTyped, StoreFrame, GotoWalks, GotoWithWalks
<1> QED
  BY <1>6, Unfold, RepoFrame, Assemble DEF CancelFindPr

LEMMA CancelClosePrTyped ==
  ASSUME Typed, NEW p \in Procs, CancelClosePr(p), UNCHANGED argo PROVE Typed'
<1>1. proc[p].pc = "cancelClose" /\ proc[p].pc \notin RestPcs
  BY DEF CancelClosePr, At, RestPcs
<1>2. proc[p] \in Process /\ Fits(proc[p])
  BY <1>1, Unfold, AtWork
<1>3. Fits([proc[p] EXCEPT !.pc = "cancelCas"]) /\ "cancelCas" \in Pcs
  BY <1>1, <1>2, Moved DEF Fits, WritePcs, RestPcs, Pcs, StorePcs
<1>4. Walking'
  BY <1>3, Unfold, GotoWalks DEF CancelClosePr
<1>5. prs' \in [PrIds -> PullRequest]
  BY Unfold, ClosePrTyped DEF CancelClosePr
<1>6. RepoTypeOK'
  BY <1>5, Unfold DEF RepoTypeOK, CancelClosePr
<1> QED
  BY <1>4, <1>6, Unfold, StoreFrame, Assemble DEF CancelClosePr

LEMMA CancelCommitTyped ==
  ASSUME Typed, NEW p \in Procs, CancelCommit(p), UNCHANGED argo PROVE Typed'
<1>1. proc[p].pc \notin RestPcs
  BY DEF CancelCommit, At, RestPcs
<1>2. StoreTypeOK' /\ Walking'
  BY <1>1, Unfold, AtWork, SomeStages, TransitionTyped, DoneWalks, CancelEndsTyped
  DEF CancelCommit
<1> QED
  BY <1>2, Unfold, RepoFrame, Assemble DEF CancelCommit

-------------------------------------------------------------------------------
(* The reconciler. *)

LEMMA RestingFits ==
  ASSUME NEW pc \in RestPcs PROVE Resting(pc) \in Process /\ Fits(Resting(pc))
<1>1. Resting(pc) \in Process /\ Resting(pc).pc = pc
  BY DEF Resting, Process, Pcs, RestPcs, Stages, NoPr
<1> QED
  BY <1>1 DEF Fits, RestPcs, WritePcs

(* Assemble, for the steps that also change the loop of a reconciler. *)
LEMMA AssembleLoop ==
  ASSUME Typed, StoreTypeOK', Walking', UNCHANGED <<repoVars, budget, argo>>,
         todo' \in [Reconcilers -> SUBSET Snapshot], swept' \in [Reconcilers -> SUBSET Keys]
  PROVE  Typed'
  BY Unfold, RepoFrame DEF Typed, TypeOK, ManagerTypeOK, ReconcilerTypeOK, Walking

LEMMA LoopTyped ==
  ASSUME Typed
  PROVE  /\ todo \in [Reconcilers -> SUBSET Snapshot] /\ swept \in [Reconcilers -> SUBSET Keys]
         /\ argo \in [1..2 -> SUBSET PrIds]
  BY DEF Typed, TypeOK, ManagerTypeOK, ReconcilerTypeOK

LEMMA SnapshotTyped ==
  ASSUME Typed, NEW k \in Keys PROVE SnapshotOf(k) \in Snapshot
  BY Unfold DEF StoreTypeOK, Row, SnapshotOf, Snapshot

LEMMA ListsTyped ==
  ASSUME Typed PROVE ListOpen \subseteq Snapshot /\ ListRecentTerminal \subseteq Snapshot
  BY SnapshotTyped DEF ListOpen, ListRecentTerminal, OpenKeys

LEMMA TickStartTyped ==
  ASSUME Typed, NEW r \in Reconcilers, TickStart(r) PROVE Typed'
<1>0. r \in Procs
  BY DEF Procs
<1>1. proc[r] \in Process /\ Fits([proc[r] EXCEPT !.pc = "next"])
  <2>1. proc[r] \in Process /\ Fits(proc[r]) /\ proc[r].pc = "idle"
    BY <1>0, Unfold DEF Walking, ProcInv, TickStart, At
  <2> QED
    BY <2>1, Moved DEF Fits, RestPcs, WritePcs
<1>2. Walking'
  BY <1>0, <1>1, Unfold, GotoWalks DEF TickStart, Pcs
<1>3. {<<r, s.key>> : s \in ListOpen} \subseteq Procs \X Keys
  BY <1>0, ListsTyped DEF Snapshot
<1>4. StoreTypeOK'
  BY <1>3, Unfold DEF StoreTypeOK, TickStart
<1>5. todo' \in [Reconcilers -> SUBSET Snapshot]
  BY LoopTyped, ListsTyped DEF TickStart
<1> QED
  BY <1>2, <1>4, <1>5, LoopTyped, AssembleLoop DEF TickStart

LEMMA WorkingFits ==
  ASSUME NEW r \in Reconcilers, NEW s \in Snapshot, NEW pc \in {"find", "checkPr", "app1"},
         FirstCall(r, s, pc)
  PROVE  Working(s, pc) \in Process /\ Fits(Working(s, pc))
<1>1. Working(s, pc) \in Process
  BY SomeStages DEF Working, Process, Snapshot, Pcs, ReadPcs
<1>2. /\ Working(s, pc).pc = pc /\ Working(s, pc).key \in Keys /\ Working(s, pc).stage = s.stage
  BY DEF Working, Snapshot
<1>3. \/ pc = "find" /\ s.stage \in {"submitted", "unknown_recovering"}
      \/ pc = "checkPr" /\ s.stage = "pr_open"
      \/ pc = "app1" /\ s.stage = "merged"
  BY DEF FirstCall
<1> QED
  BY <1>1, <1>2, <1>3 DEF Fits, RestPcs, WritePcs

LEMMA TakeRecordTyped ==
  ASSUME Typed, NEW r \in Reconcilers, TakeRecord(r) PROVE Typed'
<1>0. r \in Procs
  BY DEF Procs
<1>1. PICK s \in todo[r], pc \in {"next", "find", "checkPr", "app1"} :
        /\ todo' = [todo EXCEPT ![r] = @ \ {s}]
        /\ sameVersion' = sameVersion \ {<<r, s.key>>}
        /\ FirstCall(r, s, pc)
        /\ proc' = [proc EXCEPT ![r] = IF pc = "next" THEN Resting("next") ELSE Working(s, pc)]
  BY DEF TakeRecord
<1>2. s \in Snapshot
  BY LoopTyped
<1>3. Walking'
  <2>1. CASE pc = "next"
    BY <1>0, <1>1, <2>1, Unfold, RestingFits, StartWalks DEF RestPcs
  <2>2. CASE pc # "next"
    BY <1>0, <1>1, <1>2, <2>2, Unfold, WorkingFits, StartWalks
  <2> QED
    BY <2>1, <2>2
<1>4. StoreTypeOK'
  BY <1>1, Unfold DEF StoreTypeOK, TakeRecord
<1>5. todo' \in [Reconcilers -> SUBSET Snapshot]
  BY <1>1, LoopTyped
<1> QED
  BY <1>3, <1>4, <1>5, LoopTyped, AssembleLoop DEF TakeRecord

LEMMA RecoverFindPrTyped ==
  ASSUME Typed, NEW r \in Reconcilers, RecoverFindPr(r) PROVE Typed'
<1>0. r \in Procs
  BY DEF Procs
<1>1. proc[r].pc = "find" /\ proc[r].pc \notin RestPcs
  BY DEF RecoverFindPr, At, RestPcs
<1>2. proc[r] \in Process /\ Fits(proc[r])
  BY <1>0, <1>1, Unfold, AtWork
<1>3. \A pc \in {"findBranch", "found", "adopt"} :
        Fits([proc[r] EXCEPT !.pc = pc]) /\ pc \in Pcs
  BY <1>1, <1>2, Moved DEF Fits, WritePcs, RestPcs, Pcs, ReadPcs, StorePcs
<1>4. PrIds \subseteq Nat
  BY RepoAssumption DEF PrIds
<1>5. CASE Goto(r, "findBranch")
  BY <1>0, <1>3, <1>5, Unfold, GotoWalks, StoreFrame, RepoFrame, Assemble DEF RecoverFindPr
<1>6. ASSUME NEW n \in PrIds, NEW pc \in {"found", "adopt"}, GotoWith(r, pc, n) PROVE Typed'
  BY <1>0, <1>3, <1>4, <1>6, Unfold, GotoWithWalks, StoreFrame, RepoFrame, Assemble
  DEF RecoverFindPr
<1> QED
  BY <1>5, <1>6 DEF RecoverFindPr

LEMMA RecoverFindBranchTyped ==
  ASSUME Typed, NEW r \in Reconcilers, RecoverFindBranch(r) PROVE Typed'
<1>0. r \in Procs
  BY DEF Procs
<1>1. proc[r].pc = "findBranch" /\ proc[r].pc \notin RestPcs
  BY DEF RecoverFindBranch, At, RestPcs
<1>2. proc[r] \in Process /\ Fits(proc[r])
  BY <1>0, <1>1, Unfold, AtWork
<1>3. \A pc \in {"notFound", "touch"} : Fits([proc[r] EXCEPT !.pc = pc]) /\ pc \in Pcs
  BY <1>1, <1>2, Moved DEF Fits, WritePcs, RestPcs, Pcs, StorePcs
<1>4. ASSUME NEW pc \in {"notFound", "touch"}, Goto(r, pc) PROVE Walking'
  BY <1>0, <1>3, <1>4, Unfold, GotoWalks
<1> QED
  BY <1>4, Unfold, StoreFrame, RepoFrame, Assemble DEF RecoverFindBranch

LEMMA RecoverNotFoundTyped ==
  ASSUME Typed, NEW r \in Reconcilers, RecoverNotFound(r) PROVE Typed'
<1>0. r \in Procs
  BY DEF Procs
<1>1. proc[r].pc \notin RestPcs
  BY DEF RecoverNotFound, At, RestPcs
<1>2. StoreTypeOK'
  BY <1>0, <1>1, Unfold, AtWork, SomeStages, TransitionTyped, StoreFrame DEF RecoverNotFound
<1> QED
  BY <1>0, <1>2, Unfold, DoneWalks, RepoFrame, Assemble DEF RecoverNotFound

LEMMA RecoverTouchTyped ==
  ASSUME Typed, NEW r \in Reconcilers, RecoverTouch(r) PROVE Typed'
<1>0. r \in Procs
  BY DEF Procs
<1>1. proc[r].pc = "touch" /\ proc[r].pc \notin RestPcs
  BY DEF RecoverTouch, At, RestPcs
<1>2. proc[r] \in Process /\ Fits(proc[r]) /\ proc[r].key \in Keys
  BY <1>0, <1>1, Unfold, AtWork
<1>3. StoreTypeOK'
  BY <1>2, Unfold, SomeStages, TransitionTyped, StoreFrame DEF RecoverTouch
<1> DEFINE q == [proc[r] EXCEPT !.pc = "ref", !.stage = "submitted"]
<1>4. q \in Process /\ q.pc = "ref" /\ q.stage = "submitted" /\ q.key = proc[r].key
  BY <1>2, SomeStages DEF Process, Pcs, WritePcs
<1>5. Fits(q)
  BY <1>2, <1>4 DEF Fits, WritePcs, RestPcs
<1>6. proc' = [proc EXCEPT ![r] = q] \/ Done(r)
  BY DEF RecoverTouch
<1> HIDE DEF q
<1>7. Walking'
  BY <1>0, <1>4, <1>5, <1>6, Unfold, StartWalks, DoneWalks
<1> QED
  BY <1>3, <1>7, Unfold, RepoFrame, Assemble DEF RecoverTouch

LEMMA RecoverUnknownTyped ==
  ASSUME Typed, NEW r \in Reconcilers, RecoverUnknown(r) PROVE Typed'
  BY Unfold, DoneWalks, StoreFrame, RepoFrame, Assemble DEF RecoverUnknown, Procs

LEMMA CheckPrTyped ==
  ASSUME Typed, NEW r \in Reconcilers, CheckPr(r) PROVE Typed'
<1>0. r \in Procs
  BY DEF Procs
<1>1. proc[r].pc = "checkPr" /\ proc[r].pc \notin RestPcs
  BY DEF CheckPr, At, RestPcs
<1>2. proc[r] \in Process /\ Fits(proc[r])
  BY <1>0, <1>1, Unfold, AtWork
<1>3. \A pc \in {"markMerged", "markRejected"} : Fits([proc[r] EXCEPT !.pc = pc]) /\ pc \in Pcs
  BY <1>1, <1>2, Moved DEF Fits, WritePcs, RestPcs, Pcs, StorePcs
<1>4. Goto(r, "markMerged") \/ Goto(r, "markRejected") \/ Done(r)
  BY DEF CheckPr
<1>5. Walking'
  BY <1>0, <1>3, <1>4, Unfold, GotoWalks, DoneWalks
<1> QED
  BY <1>5, Unfold, StoreFrame, RepoFrame, Assemble DEF CheckPr

LEMMA CheckAppTyped ==
  ASSUME Typed, NEW r \in Reconcilers, CheckApp(r) PROVE Typed'
<1>0. r \in Procs
  BY DEF Procs
<1>1. proc[r].pc \in {"app1", "app2"} /\ proc[r].pc \notin RestPcs
  BY DEF CheckApp, RestPcs
<1>2. proc[r] \in Process /\ Fits(proc[r])
  BY <1>0, <1>1, Unfold, AtWork
<1>3. \A pc \in {"app2", "markApplied"} : Fits([proc[r] EXCEPT !.pc = pc]) /\ pc \in Pcs
  BY <1>1, <1>2, Moved DEF Fits, WritePcs, RestPcs, Pcs, StorePcs, ReadPcs
<1>4. Goto(r, "app2") \/ Goto(r, "markApplied") \/ Done(r)
  BY DEF CheckApp
<1>5. Walking'
  BY <1>0, <1>3, <1>4, Unfold, GotoWalks, DoneWalks
<1> QED
  BY <1>5, Unfold, StoreFrame, RepoFrame, Assemble DEF CheckApp

LEMMA MarkOutcomeTyped ==
  ASSUME Typed, NEW r \in Reconcilers, MarkOutcome(r) PROVE Typed'
<1>0. r \in Procs
  BY DEF Procs
<1>1. proc[r].pc \notin RestPcs
  BY DEF MarkOutcome, RestPcs
<1>2. Outcome(proc[r].pc) \in Stages
  BY SomeStages DEF Outcome
<1>3. StoreTypeOK'
  BY <1>0, <1>1, <1>2, Unfold, AtWork, SomeStages, TransitionTyped, StoreFrame DEF MarkOutcome
<1> QED
  BY <1>0, <1>3, Unfold, DoneWalks, RepoFrame, Assemble DEF MarkOutcome

(* A rest point of the loop follows another one. *)
LEMMA RestGoto ==
  ASSUME Typed, NEW p \in Procs, proc[p].pc \in RestPcs, NEW pc \in RestPcs, Goto(p, pc)
  PROVE  Walking'
<1>1. proc[p] \in Process /\ Fits(proc[p])
  BY Unfold DEF Walking, ProcInv
<1>2. Fits([proc[p] EXCEPT !.pc = pc]) /\ pc \in Pcs
  BY <1>1, Moved DEF Fits, RestPcs, WritePcs, Pcs
<1> QED
  BY <1>2, Unfold, GotoWalks

LEMMA SweepListTyped ==
  ASSUME Typed, NEW r \in Reconcilers, SweepList(r) PROVE Typed'
<1>1. Walking'
  BY RestGoto DEF SweepList, At, RestPcs, Procs
<1>2. todo' \in [Reconcilers -> SUBSET Snapshot]
  BY LoopTyped, ListsTyped DEF SweepList
<1> QED
  BY <1>1, <1>2, Unfold, LoopTyped, StoreFrame, AssembleLoop DEF SweepList

LEMMA SweepListFailsTyped ==
  ASSUME Typed, NEW r \in Reconcilers, SweepListFails(r) PROVE Typed'
<1>1. Walking'
  BY RestGoto DEF SweepListFails, At, RestPcs, Procs
<1> QED
  BY <1>1, Unfold, StoreFrame, RepoFrame, Disturbed, Assemble DEF SweepListFails

LEMMA SweepTakeTyped ==
  ASSUME Typed, NEW r \in Reconcilers, SweepTake(r) PROVE Typed'
<1>1. PICK s \in todo[r] :
        /\ todo' = [todo EXCEPT ![r] = @ \ {s}]
        /\ swept' = [swept EXCEPT ![r] = @ \cup {s.key}]
        /\ proc' = [proc EXCEPT ![r] = Working(s, "sweepFind")]
  BY DEF SweepTake
<1>2. s \in Snapshot
  BY LoopTyped
<1>3. /\ Working(s, "sweepFind") \in Process /\ Working(s, "sweepFind").key \in Keys
      /\ Working(s, "sweepFind").pc = "sweepFind"
  BY <1>2, SomeStages DEF Working, Process, Snapshot, Pcs, ReadPcs
<1>4. Fits(Working(s, "sweepFind"))
  BY <1>3 DEF Fits, WritePcs
<1>5. Walking'
  BY <1>1, <1>3, <1>4, Unfold, StartWalks DEF Procs
<1>6. s.key \in Keys
  BY <1>2 DEF Snapshot
<1>7. todo' \in [Reconcilers -> SUBSET Snapshot] /\ swept' \in [Reconcilers -> SUBSET Keys]
  BY <1>1, <1>6, LoopTyped
<1> QED
  BY <1>5, <1>7, Unfold, StoreFrame, AssembleLoop DEF SweepTake

LEMMA SweepFindPrTyped ==
  ASSUME Typed, NEW r \in Reconcilers, SweepFindPr(r) PROVE Typed'
<1>0. r \in Procs /\ PrIds \subseteq Nat
  BY RepoAssumption DEF Procs, PrIds
<1>1. proc[r].pc = "sweepFind" /\ proc[r].pc \notin RestPcs
  BY DEF SweepFindPr, At, RestPcs
<1>2. proc[r] \in Process /\ Fits(proc[r])
  BY <1>0, <1>1, Unfold, AtWork
<1>3. Fits([proc[r] EXCEPT !.pc = "sweepClose"]) /\ "sweepClose" \in Pcs
  BY <1>1, <1>2, Moved DEF Fits, WritePcs, RestPcs, Pcs, ClosePcs
<1>4. Done(r) \/ \E n \in PrIds : GotoWith(r, "sweepClose", n)
  BY DEF SweepFindPr
<1>5. Walking'
  BY <1>0, <1>3, <1>4, Unfold, GotoWithWalks, DoneWalks
<1> QED
  BY <1>5, Unfold, StoreFrame, RepoFrame, Assemble DEF SweepFindPr

LEMMA TickEndTyped ==
  ASSUME Typed, NEW r \in Reconcilers, TickEnd(r) PROVE Typed'
<1>1. Walking'
  BY RestGoto DEF TickEnd, At, RestPcs, Procs
<1>2. StoreTypeOK'
  BY Unfold DEF StoreTypeOK, TickEnd
<1> QED
  BY <1>1, <1>2, Unfold, RepoFrame, Assemble DEF TickEnd

-------------------------------------------------------------------------------
(* Steps that leave every process where it is. *)

LEMMA WalkingFrame == ASSUME Walking, UNCHANGED proc PROVE Walking'
  BY DEF Walking, ProcInv

LEMMA LeaseLostTyped ==
  ASSUME Typed, NEW r \in Reconcilers, LeaseLost(r) PROVE Typed'
<1>1. StoreTypeOK'
  BY Unfold DEF StoreTypeOK, LeaseLost
<1>2. UNCHANGED <<proc, todo, swept>>
  BY DEF LeaseLost, managerVars
<1> QED
  BY <1>1, <1>2, Unfold, WalkingFrame, RepoFrame, Disturbed, Assemble DEF LeaseLost

LEMMA RecheckElapsesTyped ==
  ASSUME Typed, NEW r \in Reconcilers, NEW k \in Keys, RecheckElapses(r, k) PROVE Typed'
<1>1. swept' \in [Reconcilers -> SUBSET Keys]
  BY LoopTyped DEF RecheckElapses
<1> QED
  BY <1>1, Unfold, LoopTyped, WalkingFrame, StoreFrame, AssembleLoop DEF RecheckElapses

LEMMA ArgoSyncsTyped ==
  ASSUME Typed, NEW i \in 1..2, ArgoSyncs(i) PROVE Typed'
<1>1. argo' \in [1..2 -> SUBSET PrIds]
  BY LoopTyped DEF ArgoSyncs
<1>2. StoreTypeOK' /\ RepoTypeOK' /\ Walking'
  BY Unfold, WalkingFrame, StoreFrame, RepoFrame DEF ArgoSyncs, managerVars
<1> QED
  BY <1>1, <1>2, Unfold, LoopTyped
  DEF ArgoSyncs, managerVars, Typed, TypeOK, ManagerTypeOK, ReconcilerTypeOK, Walking

LEMMA GraceExpiresTyped ==
  ASSUME Typed, NEW k \in Keys, GraceExpires(k) PROVE Typed'
<1>1. StoreTypeOK'
  BY Unfold DEF StoreTypeOK, GraceExpires, Row
<1> QED
  BY <1>1, Unfold, WalkingFrame, RepoFrame, Assemble DEF GraceExpires, managerVars

(* GitHub moves on its own: people, and writes that outlived their client. *)
LEMMA RepoMoves ==
  ASSUME Typed, RepoTypeOK', budget' \in 0..MaxDisturbances, UNCHANGED <<storeVars, managerVars, argo>>
  PROVE  Typed'
  BY Unfold, WalkingFrame, StoreFrame, Assemble DEF managerVars

LEMMA ReviewerTyped == ASSUME Typed, Reviewer PROVE Typed'
<1>1. PICK n \in PrIds : HumanMerges(n) \/ HumanCloses(n)
  BY DEF Reviewer
<1>2. RepoTypeOK'
  BY <1>1, Unfold DEF RepoTypeOK, HumanMerges, HumanCloses, PullRequest
<1> QED
  BY <1>2, Unfold, RepoMoves DEF Reviewer

LEMMA MeddlerTyped == ASSUME Typed, Meddler PROVE Typed'
<1>1. ASSUME NEW n \in PrIds, HumanReopens(n) PROVE RepoTypeOK'
  BY <1>1, Unfold DEF RepoTypeOK, HumanReopens, PullRequest
<1>2. ASSUME NEW b \in Branches, HumanPushes(b) PROVE RepoTypeOK'
  BY <1>2, Unfold DEF RepoTypeOK, HumanPushes, Content
<1>3. ASSUME NEW b \in Branches, HumanDeletesBranch(b) PROVE RepoTypeOK'
  BY <1>3, Unfold DEF RepoTypeOK, HumanDeletesBranch, Content, PullRequest
<1>4. RepoTypeOK'
  BY <1>1, <1>2, <1>3 DEF Meddler
<1> QED
  BY <1>4, Disturbed, RepoMoves DEF Meddler

LEMMA LateWriteTyped == ASSUME Typed, LateWrite PROVE Typed'
<1>1. PICK w \in inflight : CarryOut(w) \/ Vanish(w)
  BY DEF LateWrite
<1>2. w \in Write /\ inflight' \subseteq Write /\ w.branch \in Branches /\ RepoTypeOK
  BY <1>1, Unfold DEF RepoTypeOK, CarryOut, Vanish, Write
<1>3. CASE Vanish(w)
  BY <1>2, <1>3, Unfold, RepoMoves DEF Vanish, RepoTypeOK, LateWrite
<1>4. CASE CarryOut(w)
  <2>1. ASSUME CreateRef(w.branch) \/ PutContents(w.branch), UNCHANGED prs PROVE RepoTypeOK'
    BY <2>1, <1>2 DEF RepoTypeOK, CreateRef, PutContents, Content
  <2>2. ASSUME NEW n \in PrIds, OpenPull(w.branch, n), UNCHANGED branches PROVE RepoTypeOK'
    BY <2>2, <1>2, OpenPullTyped DEF RepoTypeOK
  <2>3. ASSUME w.op = "close", ClosePr(w.pr, w.by), UNCHANGED branches PROVE RepoTypeOK'
    <3>1. prs' \in [PrIds -> PullRequest]
      BY <2>3, <1>2 DEF ClosePr, Write, RepoTypeOK, PullRequest
    <3> QED
      BY <3>1, <2>3, <1>2 DEF RepoTypeOK
  <2>4. RepoTypeOK'
    BY <2>1, <2>2, <2>3, <1>4 DEF CarryOut
  <2> QED
    BY <2>4, Unfold, RepoMoves DEF LateWrite
<1> QED
  BY <1>1, <1>3, <1>4

-------------------------------------------------------------------------------
(* Type correctness. *)

LEMMA InitTyped == Init => Typed
<1> SUFFICES ASSUME Init PROVE Typed
  OBVIOUS
<1>1. StoreTypeOK
  BY DEF Init, StoreInit, StoreTypeOK, Row, NoRow, NoPr, Stages
<1>2. RepoTypeOK
  <2>1. NoPull \in PullRequest
    BY DEF NoPull, PullRequest
  <2>2. PICK age \in Ages :
          /\ branches \in [Branches -> Content]
          /\ prs = [n \in PrIds |-> IF n = 1 /\ Left(age) # {} THEN LeftPull(age) ELSE NoPull]
          /\ inflight = {}
    BY DEF Init, RepoInit
  <2>3. Left(age) # {} => LeftPull(age) \in PullRequest
    <3>1. ASSUME Left(age) # {} PROVE (CHOOSE b \in Left(age) : TRUE) \in Branches
      BY <3>1, RepoAssumption DEF Left
    <3> QED
      BY <3>1 DEF LeftPull, NoPull, PullRequest
  <2> QED
    BY <2>1, <2>2, <2>3 DEF RepoTypeOK
<1>3. ManagerTypeOK /\ ProcInv
  BY WriterAssumption, RestingFits DEF Init, ManagerInit, ManagerTypeOK, ProcInv, RestPcs
<1>4. ReconcilerTypeOK
  BY DEF Init, ReconcilerInit, ReconcilerTypeOK
<1> QED
  BY <1>1, <1>2, <1>3, <1>4 DEF Typed, TypeOK

LEMMA WriterStepTyped ==
  ASSUME Typed, NEW p \in Procs, UNCHANGED argo,
         CreateChangePr(p) \/ OpenPr(p) \/ ReadLostRow(p) \/ CloseOrphanPr(p) \/ RecordRefusal(p)
  PROVE  Typed'
  BY PostRefTyped, ReadContentsTyped, WriteContentsTyped, PostPullsTyped, OpenPrTyped,
     ReadLostRowTyped, CloseOrphanPrTyped, RecordRefusalTyped DEF CreateChangePr

LEMMA HandlerStepTyped ==
  ASSUME Typed, NEW p \in Handlers, HandlerStep(p) PROVE Typed'
  BY WriterStepTyped, SubmitUnknownTyped, CancelIntentTyped, CancelFindPrTyped,
     CancelClosePrTyped, CancelCommitTyped DEF HandlerStep, RouteStep, Procs

LEMMA ReconcilerStepTyped ==
  ASSUME Typed, NEW r \in Reconcilers, ReconcilerStep(r) PROVE Typed'
<1>1. CASE TickStep(r)
  BY <1>1, TakeRecordTyped, RecoverFindPrTyped, RecoverFindBranchTyped, RecoverNotFoundTyped,
     RecoverTouchTyped, RecoverUnknownTyped, CheckPrTyped, CheckAppTyped, MarkOutcomeTyped,
     SweepListTyped, SweepTakeTyped, SweepFindPrTyped, TickEndTyped DEF TickStep
<1> QED
  BY <1>1, WriterStepTyped DEF ReconcilerStep, Procs

LEMMA FailureTyped ==
  ASSUME Typed, NEW p \in Procs, Failure(p) PROVE Typed'
  BY WriteUnknownTyped, WriteRefusedTyped, CloseUnknownTyped, CallFailsTyped, CrashTyped
  DEF Failure

LEMMA StutterTyped == ASSUME Typed, UNCHANGED vars PROVE Typed'
  BY Unfold, WalkingFrame, StoreFrame, RepoFrame, Assemble DEF vars, managerVars

LEMMA NextTyped == ASSUME Typed, [Next]_vars PROVE Typed'
<1>1. ASSUME NEW p \in Handlers, NEW k \in Keys, SubmitRequest(p, k) \/ CancelStart(p, k),
             UNCHANGED argo
      PROVE  Typed'
  BY <1>1, SubmitRequestTyped, CancelStartTyped DEF Procs
<1>2. ASSUME NEW p \in Handlers, HandlerStep(p) PROVE Typed'
  BY <1>2, HandlerStepTyped
<1>3. ASSUME NEW r \in Reconcilers,
             TickStart(r) \/ ReconcilerStep(r) \/ SweepListFails(r) \/ LeaseLost(r)
      PROVE  Typed'
  BY <1>3, TickStartTyped, ReconcilerStepTyped, SweepListFailsTyped, LeaseLostTyped
<1>4. ASSUME NEW r \in Reconcilers, NEW k \in Keys, RecheckElapses(r, k) PROVE Typed'
  BY <1>4, RecheckElapsesTyped
<1>5. ASSUME NEW p \in Procs, Failure(p) PROVE Typed'
  BY <1>5, FailureTyped
<1>6. ASSUME NEW k \in Keys, GraceExpires(k) PROVE Typed'
  BY <1>6, GraceExpiresTyped
<1>7. ASSUME NEW i \in 1..2, ArgoSyncs(i) PROVE Typed'
  BY <1>7, ArgoSyncsTyped
<1>8. CASE Reviewer \/ Meddler \/ LateWrite
  BY <1>8, ReviewerTyped, MeddlerTyped, LateWriteTyped
<1> QED
  BY <1>1, <1>2, <1>3, <1>4, <1>5, <1>6, <1>7, <1>8, StutterTyped DEF Next

LEMMA TypedAlways == Spec => []Typed
<1>1. Typed /\ [Next]_vars => Typed'
  BY NextTyped
<1> QED
  BY <1>1, InitTyped, PTL DEF Spec

(* Every variable keeps its type, whatever the number of keys, processes,   *)
(* pull requests and disturbances.                                          *)
THEOREM TypeCorrect == Spec => []TypeOK
  BY TypedAlways, PTL DEF Typed

-------------------------------------------------------------------------------
(***************************************************************************)
(* The request table, for any number of keys, handlers, replicas and       *)
(* failures: at most one active row, which the reconciler always lists,    *)
(* and no transition but those of the published state machine.             *)
(*                                                                         *)
(* Every step of the system does one of three things to the table          *)
(* (StoreStep): it keeps all stages, it submits a row, or it moves one row *)
(* along an edge.  That the edge is a legal one is what ProcInv is for: a  *)
(* process that is about to write holds a stage that fits its place in the *)
(* code, and the compare-and-set checks that the row is still in it.       *)
(***************************************************************************)

(* No stage changes and no row appears. *)
RowsKept ==
  /\ created' = created
  /\ \A k \in Keys : requests'[k].stage = requests[k].stage /\ requests'[k].seq = requests[k].seq

(* A legal compare-and-set; <<submitted, submitted>> is the touch. *)
Legal(e, s) == <<e, s>> \in Lifecycle!Edges \cup {<<"submitted", "submitted">>}

RowMoves ==
  /\ created' = created
  /\ \A k \in Keys : requests'[k].seq = requests[k].seq
  /\ \E k \in Keys : /\ Legal(requests[k].stage, requests'[k].stage)
                     /\ \A j \in Keys \ {k} : requests'[j].stage = requests[j].stage

StoreStep == RowsKept \/ RowMoves \/ \E k \in Keys : Submit(k)

-------------------------------------------------------------------------------
(* What each step does to the table. *)

LEMMA KeepsRows == ASSUME UNCHANGED <<requests, created>> PROVE StoreStep
  BY DEF StoreStep, RowsKept

LEMMA KeepsStore == ASSUME UNCHANGED storeVars PROVE StoreStep
  BY KeepsRows DEF storeVars

LEMMA LegalMove ==
  ASSUME Typed, NEW k \in Keys, NEW e, NEW s, NEW n, Legal(e, s), Transition(k, e, s, n)
  PROVE  StoreStep
<1>1. requests \in [Keys -> Row]
  BY Unfold DEF StoreTypeOK
<1>2. /\ requests[k].stage = e /\ requests'[k].stage = s /\ created' = created
      /\ \A j \in Keys : requests'[j].seq = requests[j].seq
      /\ \A j \in Keys \ {k} : requests'[j].stage = requests[j].stage
  BY <1>1 DEF Transition, Hits, Row
<1> QED
  BY <1>2 DEF StoreStep, RowMoves

(* The stages that the processes may hold, and the edges they take. *)
LEMMA LegalEdges ==
  /\ Legal("submitted", "pr_open") /\ Legal("unknown_recovering", "pr_open")
  /\ Legal("submitted", "failed") /\ Legal("unknown_recovering", "failed")
  /\ Legal("pr_open", "failed") /\ Legal("submitted", "unknown_recovering")
  /\ Legal("unknown_recovering", "submitted") /\ Legal("submitted", "submitted")
  /\ Legal("pr_open", "merged") /\ Legal("pr_open", "rejected") /\ Legal("merged", "applied")
  BY DEF Legal, Lifecycle!Edges

LEMMA WriterStepStore ==
  ASSUME Typed, NEW p \in Procs,
         CreateChangePr(p) \/ OpenPr(p) \/ ReadLostRow(p) \/ CloseOrphanPr(p) \/ RecordRefusal(p)
  PROVE  StoreStep
<1>1. CASE CreateChangePr(p) \/ ReadLostRow(p) \/ CloseOrphanPr(p)
  BY <1>1, KeepsStore DEF CreateChangePr, PostRef, ReadContents, WriteContents, PostPulls,
     ReadLostRow, CloseOrphanPr
<1>2. CASE OpenPr(p)
  <2>1. proc[p].pc \in {"opened", "found", "adopt"} /\ proc[p].pc \notin RestPcs
    BY <1>2 DEF OpenPr, RestPcs
  <2>2. Fits(proc[p]) /\ proc[p].key \in Keys
    BY <2>1, Unfold, AtWork
  <2>3. proc[p].stage \in {"submitted", "unknown_recovering"}
    BY <2>1, <2>2 DEF Fits
  <2> QED
    BY <1>2, <2>2, <2>3, LegalEdges, LegalMove, KeepsStore DEF OpenPr
<1>3. CASE RecordRefusal(p)
  <2>1. proc[p].pc = "refused" /\ proc[p].pc \notin RestPcs
    BY <1>3 DEF RecordRefusal, At, RestPcs
  <2>2. Fits(proc[p]) /\ proc[p].key \in Keys
    BY <2>1, Unfold, AtWork
  <2>3. proc[p].stage = "submitted"
    BY <2>1, <2>2 DEF Fits
  <2> QED
    BY <1>3, <2>2, <2>3, LegalEdges, LegalMove, KeepsStore DEF RecordRefusal
<1> QED
  BY <1>1, <1>2, <1>3

LEMMA HandlerStepStore ==
  ASSUME Typed, NEW p \in Handlers, HandlerStep(p) PROVE StoreStep
<1>0. p \in Procs
  BY DEF Procs
<1>1. CASE CancelIntent(p) \/ CancelFindPr(p) \/ CancelClosePr(p)
  BY <1>1, KeepsStore, KeepsRows DEF CancelIntent, CancelFindPr, CancelClosePr, CancelEnds
<1>2. CASE SubmitUnknown(p)
  <2>1. proc[p].pc = "unknown" /\ proc[p].pc \notin RestPcs
    BY <1>2 DEF SubmitUnknown, At, RestPcs
  <2>2. Fits(proc[p]) /\ proc[p].key \in Keys
    BY <1>0, <2>1, Unfold, AtWork
  <2>3. proc[p].stage = "submitted"
    BY <2>1, <2>2 DEF Fits
  <2> QED
    BY <1>2, <2>2, <2>3, LegalEdges, LegalMove, KeepsStore DEF SubmitUnknown
<1>3. CASE CancelCommit(p)
  <2>1. proc[p].pc = "cancelCas" /\ proc[p].pc \notin RestPcs
    BY <1>3 DEF CancelCommit, At, RestPcs
  <2>2. Fits(proc[p]) /\ proc[p].key \in Keys
    BY <1>0, <2>1, Unfold, AtWork
  <2>3. proc[p].stage \in ACTIVE_STAGES
    BY <2>1, <2>2 DEF Fits
  <2> QED
    BY <1>3, <2>2, <2>3, LegalEdges, LegalMove, KeepsRows DEF CancelCommit, CancelEnds, ACTIVE_STAGES
<1> QED
  BY <1>0, <1>1, <1>2, <1>3, WriterStepStore DEF HandlerStep, RouteStep

LEMMA ReconcilerStepStore ==
  ASSUME Typed, NEW r \in Reconcilers, ReconcilerStep(r) PROVE StoreStep
<1>0. r \in Procs
  BY DEF Procs
<1>1. CASE \/ TakeRecord(r) \/ RecoverFindPr(r) \/ RecoverFindBranch(r) \/ RecoverUnknown(r)
           \/ CheckPr(r) \/ CheckApp(r) \/ SweepList(r) \/ SweepTake(r) \/ SweepFindPr(r)
           \/ TickEnd(r)
  BY <1>1, KeepsStore, KeepsRows DEF TakeRecord, RecoverFindPr, RecoverFindBranch,
     RecoverUnknown, CheckPr, CheckApp, SweepList, SweepTake, SweepFindPr, TickEnd
<1>2. CASE RecoverNotFound(r) \/ RecoverTouch(r)
  <2>1. proc[r].pc \in {"notFound", "touch"} /\ proc[r].pc \notin RestPcs
    BY <1>2 DEF RecoverNotFound, RecoverTouch, At, RestPcs
  <2>2. Fits(proc[r]) /\ proc[r].key \in Keys
    BY <1>0, <2>1, Unfold, AtWork
  <2>3. proc[r].stage \in {"submitted", "unknown_recovering"}
    BY <2>1, <2>2 DEF Fits
  <2> QED
    BY <1>2, <2>2, <2>3, LegalEdges, LegalMove, KeepsStore DEF RecoverNotFound, RecoverTouch
<1>3. CASE MarkOutcome(r)
  <2>1. /\ proc[r].pc \in {"markMerged", "markRejected", "markApplied"}
        /\ proc[r].pc \notin RestPcs
    BY <1>3 DEF MarkOutcome, RestPcs
  <2>2. Fits(proc[r]) /\ proc[r].key \in Keys
    BY <1>0, <2>1, Unfold, AtWork
  <2>3. Legal(proc[r].stage, Outcome(proc[r].pc))
    BY <2>1, <2>2, LegalEdges DEF Fits, Outcome
  <2> QED
    BY <1>3, <2>2, <2>3, LegalMove, KeepsStore DEF MarkOutcome
<1> QED
  BY <1>0, <1>1, <1>2, <1>3, WriterStepStore DEF ReconcilerStep, TickStep

LEMMA FailureStore == ASSUME NEW p \in Procs, Failure(p) PROVE StoreStep
  BY KeepsStore, KeepsRows DEF Failure, WriteUnknown, WriteRefused, CloseUnknown, CallFails, Crash

LEMMA GraceExpiresStore == ASSUME Typed, NEW k \in Keys, GraceExpires(k) PROVE StoreStep
<1>1. requests \in [Keys -> Row]
  BY Unfold DEF StoreTypeOK
<1> QED
  BY <1>1 DEF GraceExpires, StoreStep, RowsKept, Row

LEMMA NextStore == ASSUME Typed, [Next]_vars PROVE StoreStep
<1>1. ASSUME NEW p \in Handlers, NEW k \in Keys, SubmitRequest(p, k) PROVE StoreStep
  BY <1>1 DEF SubmitRequest, StoreStep
<1>2. ASSUME NEW p \in Handlers, NEW k \in Keys, CancelStart(p, k) PROVE StoreStep
  BY <1>2, KeepsRows DEF CancelStart
<1>3. ASSUME NEW r \in Reconcilers, TickStart(r) \/ SweepListFails(r) \/ LeaseLost(r)
      PROVE  StoreStep
  BY <1>3, KeepsRows, KeepsStore DEF TickStart, SweepListFails, LeaseLost
<1>4. ASSUME NEW r \in Reconcilers, NEW k \in Keys, RecheckElapses(r, k) PROVE StoreStep
  BY <1>4, KeepsStore DEF RecheckElapses
<1>5. ASSUME NEW i \in 1..2, ArgoSyncs(i) PROVE StoreStep
  BY <1>5, KeepsStore DEF ArgoSyncs
<1>6. CASE Reviewer \/ Meddler \/ LateWrite
  BY <1>6, KeepsStore DEF Reviewer, Meddler, LateWrite
<1>7. CASE UNCHANGED vars
  BY <1>7, KeepsStore DEF vars
<1> QED
  BY <1>1, <1>2, <1>3, <1>4, <1>5, <1>6, <1>7, HandlerStepStore, ReconcilerStepStore,
     FailureStore, GraceExpiresStore DEF Next

-------------------------------------------------------------------------------
(* One active row: created_at orders the rows and the active one is last.    *)

(* A row that is active after a legal move was active before it. *)
LEMMA NoRevival ==
  ASSUME NEW e, NEW s, Legal(e, s)
  PROVE  e # "none" /\ s # "none" /\ (s \in ACTIVE_STAGES => e \in ACTIVE_STAGES)
  BY DEF Legal, Lifecycle!Edges, ACTIVE_STAGES

LEMMA OrderKept == ASSUME Typed, OrderInv, StoreStep, Typed' PROVE OrderInv'
<1>0. /\ requests \in [Keys -> Row] /\ requests' \in [Keys -> Row]
      /\ created \in Nat /\ \A k \in Keys : requests[k].seq \in Nat
  BY DEF Typed, TypeOK, StoreTypeOK, Row
<1>1. CASE RowsKept
  BY <1>0, <1>1 DEF OrderInv, RowsKept, Active
<1>2. CASE RowMoves
  <2>1. PICK k \in Keys : /\ Legal(requests[k].stage, requests'[k].stage)
                          /\ \A j \in Keys \ {k} : requests'[j].stage = requests[j].stage
    BY <1>2 DEF RowMoves
  <2>2. \A j \in Keys : /\ requests'[j].stage = "none" <=> requests[j].stage = "none"
                        /\ requests'[j].stage \in ACTIVE_STAGES => requests[j].stage \in ACTIVE_STAGES
    BY <2>1, NoRevival
  <2> QED
    BY <1>0, <1>2, <2>2 DEF OrderInv, RowMoves, Active
<1>3. ASSUME NEW k \in Keys, Submit(k) PROVE OrderInv'
  <2>1. created' = created + 1 /\ requests'[k].seq = created + 1 /\ requests'[k].stage = "submitted"
    BY <1>0, <1>3 DEF Submit
  <2>2. \A j \in Keys \ {k} : requests'[j] = requests[j] /\ requests[j].stage \notin ACTIVE_STAGES
    BY <1>0, <1>3 DEF Submit, CanSubmit, Active
  <2> QED
    BY <1>0, <2>1, <2>2 DEF OrderInv, Active
<1> QED
  BY <1>1, <1>2, <1>3 DEF StoreStep

LEMMA OrderInit == Init => OrderInv
  BY DEF Init, StoreInit, OrderInv, NoRow, Active, ACTIVE_STAGES

LEMMA StageInvariant == Spec => []StageInv
<1>1. Init => Typed /\ OrderInv
  BY InitTyped, OrderInit
<1>2. Typed /\ OrderInv /\ [Next]_vars => (Typed /\ OrderInv)'
  BY NextTyped, NextStore, OrderKept
<1>3. Typed /\ OrderInv => StageInv
  BY DEF Typed, StageInv
<1> QED
  BY <1>1, <1>2, <1>3, PTL DEF Spec

(* At most one request is active, for any number of submits, cancels,       *)
(* replicas and failures (D-MSSO-9).                                        *)
THEOREM OneActiveAlways == Spec => []OneActive
<1>1. StageInv => OneActive
  <2> SUFFICES ASSUME StageInv, NEW j \in Keys, NEW k \in Keys, Active(j), Active(k) PROVE j = k
    BY DEF OneActive
  <2>1. requests[j].seq = created /\ requests[k].seq = created /\ requests[k].stage # "none"
    BY DEF StageInv, OrderInv, Active, ACTIVE_STAGES
  <2> QED
    BY <2>1 DEF StageInv, OrderInv
<1> QED
  BY <1>1, StageInvariant, PTL

(* The row that blocks every further submit is in each listing of the       *)
(* reconciler, however long the list of rows that wait for ArgoCD is.       *)
THEOREM ActiveIsListedAlways == Spec => []ActiveIsListed
<1>1. StageInv => ActiveIsListed
  <2> SUFFICES ASSUME StageInv, NEW k \in Keys, Active(k) PROVE SnapshotOf(k) \in ListOpen
    BY DEF ActiveIsListed
  <2>1. \A j \in Keys : requests[j].seq \in Nat /\ requests[j].seq <= requests[k].seq
    BY DEF StageInv, OrderInv, TypeOK, StoreTypeOK, Row
  <2>2. Newer(k) = {}
    BY <2>1 DEF Newer, OpenKeys
  <2>3. Cardinality(Newer(k)) < ListLimit
    BY <2>2, FS_EmptySet, StoreAssumption
  <2>4. k \in OpenKeys
    BY DEF OpenKeys, Active, OPEN_STAGES
  <2> QED
    BY <2>3, <2>4 DEF ListOpen
<1> QED
  BY <1>1, StageInvariant, PTL

-------------------------------------------------------------------------------
(* Refinement. *)

LEMMA LifecycleInit == Init => Lifecycle!Init
  BY DEF Init, StoreInit, NoRow, Lifecycle!Init

LEMMA LifecycleStep ==
  ASSUME Typed, Typed', StoreStep PROVE [Lifecycle!Next]_([k \in Keys |-> requests[k].stage])
<1>0. requests \in [Keys -> Row] /\ requests' \in [Keys -> Row]
  BY DEF Typed, TypeOK, StoreTypeOK
<1> DEFINE stage == [k \in Keys |-> requests[k].stage]
<1> DEFINE stageN == [k \in Keys |-> requests'[k].stage]
<1>1. CASE RowsKept
  BY <1>1 DEF RowsKept
<1>2. CASE RowMoves
  <2>1. PICK k \in Keys : /\ Legal(requests[k].stage, requests'[k].stage)
                          /\ \A j \in Keys \ {k} : requests'[j].stage = requests[j].stage
    BY <1>2 DEF RowMoves
  <2>2. stageN = [stage EXCEPT ![k] = requests'[k].stage]
    BY <2>1
  <2>3. CASE <<requests[k].stage, requests'[k].stage>> \in Lifecycle!Edges
    <3>1. PICK e \in Lifecycle!Edges : e = <<requests[k].stage, requests'[k].stage>>
      BY <2>3
    <3>2. Lifecycle!Move(k, e[2])
      BY <2>2, <2>3, <3>1 DEF Lifecycle!Move
    <3> QED
      BY <3>2 DEF Lifecycle!Next
  <2>4. CASE requests[k].stage = requests'[k].stage
    BY <2>1, <2>4
  <2> QED
    BY <2>1, <2>3, <2>4 DEF Legal
<1>3. ASSUME NEW k \in Keys, Submit(k) PROVE Lifecycle!Next
  <2>1. stageN = [stage EXCEPT ![k] = "submitted"]
    BY <1>0, <1>3 DEF Submit
  <2>2. stage[k] = "none" /\ \A j \in Keys : stage[j] \notin Lifecycle!Active
    BY <1>3 DEF Submit, CanSubmit, RowExists, Active, ACTIVE_STAGES, Lifecycle!Active
  <2>3. Lifecycle!Open(k)
    BY <2>1, <2>2 DEF Lifecycle!Open
  <2> QED
    BY <2>3 DEF Lifecycle!Next
<1> QED
  BY <1>1, <1>2, <1>3 DEF StoreStep

(* The whole system, with its interleavings, failures and retries,          *)
(* implements the published state machine of a change request (D-MSSO-13).  *)
THEOREM LifecycleImplemented == Spec => ImplementsLifecycle
<1>1. Typed /\ Typed' /\ [Next]_vars => [Lifecycle!Next]_([k \in Keys |-> requests[k].stage])
  BY NextStore, LifecycleStep
<1> QED
  BY <1>1, LifecycleInit, TypedAlways, PTL DEF Spec, ImplementsLifecycle, Lifecycle!Spec

-------------------------------------------------------------------------------
(***************************************************************************)
(* What the rows and the processes say of GitHub and ArgoCD is true, for   *)
(* any number of keys, processes, pull requests and disturbances.          *)
(*                                                                         *)
(* TruthInv is inductive because nothing it speaks of is ever undone       *)
(* (Kept): pull requests keep their branch and age, a merge is for good, a *)
(* row keeps its number once it has one, intents and synced revisions only *)
(* grow.  So what another process knows stays true, and a step has to      *)
(* account only for what it changes itself (Preserves).                    *)
(***************************************************************************)

PullsKept ==
  /\ \A b \in Branches : Adoptable(b) \subseteq Adoptable(b)'
  /\ \A n \in PrIds : Merged(n) => Merged(n)'

TableKept ==
  /\ \A k \in Keys : RowExists(k) => RowExists(k)'
  /\ \A k \in Keys : requests[k].pr # NoPr => requests'[k].pr = requests[k].pr
  /\ intents \subseteq intents'

Kept == PullsKept /\ TableKept /\ \A i \in 1..2 : argo[i] \subseteq argo'[i]

-------------------------------------------------------------------------------
(* Pull requests only grow. *)

LEMMA PullsFrame == ASSUME UNCHANGED prs PROVE PullsKept
  BY DEF PullsKept, Adoptable, Merged

LEMMA OpenPullKeeps ==
  ASSUME RepoTypeOK, NEW b \in Branches, NEW n \in PrIds, OpenPull(b, n) PROVE PullsKept
  BY DEF RepoTypeOK, OpenPull, NextNumber, PullsKept, Adoptable, Merged

LEMMA ClosePrKeeps ==
  ASSUME RepoTypeOK, NEW n, NEW by, ClosePr(n, by) PROVE PullsKept
  BY DEF RepoTypeOK, ClosePr, PullRequest, PullsKept, Adoptable, Merged

LEMMA PeopleKeep ==
  ASSUME Typed, Reviewer \/ Meddler PROVE PullsKept
<1>1. prs \in [PrIds -> PullRequest]
  BY Unfold DEF RepoTypeOK
<1>2. ASSUME NEW n \in PrIds, HumanMerges(n) \/ HumanCloses(n) \/ HumanReopens(n) PROVE PullsKept
  BY <1>1, <1>2 DEF HumanMerges, HumanCloses, HumanReopens, PullRequest, PullsKept, Adoptable, Merged
<1>3. ASSUME NEW b \in Branches, HumanPushes(b) PROVE PullsKept
  BY <1>3, PullsFrame DEF HumanPushes
<1>4. ASSUME NEW b \in Branches, HumanDeletesBranch(b) PROVE PullsKept
  BY <1>1, <1>4 DEF HumanDeletesBranch, OpenOn, PullRequest, PullsKept, Adoptable, Merged
<1> QED
  BY <1>2, <1>3, <1>4 DEF Reviewer, Meddler

LEMMA LateWriteKeeps == ASSUME Typed, LateWrite PROVE PullsKept
<1>1. PICK w \in inflight : CarryOut(w) \/ Vanish(w)
  BY DEF LateWrite
<1>2. w.branch \in Branches /\ RepoTypeOK
  BY Unfold DEF RepoTypeOK, Write
<1> QED
  BY <1>1, <1>2, PullsFrame, OpenPullKeeps, ClosePrKeeps DEF CarryOut, Vanish

LEMMA PostPullsKeeps == ASSUME Typed, NEW p \in Procs, PostPulls(p) PROVE PullsKept
<1>1. proc[p].pc = "pulls" /\ proc[p].pc \notin RestPcs
  BY DEF PostPulls, At, RestPcs
<1>2. Branch(p) \in Branches /\ RepoTypeOK
  BY <1>1, Unfold, AtWork
<1> QED
  BY <1>2, PullsFrame, OpenPullKeeps DEF PostPulls

LEMMA NextPulls == ASSUME Typed, [Next]_vars PROVE PullsKept
<1>0. RepoTypeOK
  BY Unfold
<1>1. ASSUME NEW p \in Procs,
             CreateChangePr(p) \/ OpenPr(p) \/ ReadLostRow(p) \/ CloseOrphanPr(p) \/ RecordRefusal(p)
      PROVE  PullsKept
  BY <1>0, <1>1, PullsFrame, PostPullsKeeps, ClosePrKeeps DEF CreateChangePr, PostRef, ReadContents,
     WriteContents, OpenPr, ReadLostRow, CloseOrphanPr, RecordRefusal, repoVars
<1>2. ASSUME NEW p \in Handlers, HandlerStep(p) PROVE PullsKept
  BY <1>0, <1>1, <1>2, PullsFrame, ClosePrKeeps DEF HandlerStep, RouteStep, SubmitUnknown,
     CancelIntent, CancelFindPr, CancelClosePr, CancelCommit, repoVars, Procs
<1>3. ASSUME NEW r \in Reconcilers, ReconcilerStep(r) PROVE PullsKept
  BY <1>1, <1>3, PullsFrame DEF ReconcilerStep, TickStep, TakeRecord, RecoverFindPr,
     RecoverFindBranch, RecoverNotFound, RecoverTouch, RecoverUnknown, CheckPr, CheckApp,
     MarkOutcome, SweepList, SweepTake, SweepFindPr, TickEnd, repoVars, Procs
<1>4. ASSUME NEW p \in Procs, Failure(p) PROVE PullsKept
  BY <1>4, PullsFrame DEF Failure, WriteUnknown, WriteRefused, CloseUnknown, CallFails, Crash,
     repoVars
<1>5. ASSUME NEW p \in Handlers, NEW k \in Keys, SubmitRequest(p, k) \/ CancelStart(p, k)
      PROVE  PullsKept
  BY <1>5, PullsFrame DEF SubmitRequest, CancelStart, repoVars
<1>6. ASSUME NEW r \in Reconcilers, TickStart(r) \/ SweepListFails(r) \/ LeaseLost(r)
      PROVE  PullsKept
  BY <1>6, PullsFrame DEF TickStart, SweepListFails, LeaseLost, repoVars
<1>7. ASSUME NEW r \in Reconcilers, NEW k \in Keys, RecheckElapses(r, k) PROVE PullsKept
  BY <1>7, PullsFrame DEF RecheckElapses, repoVars
<1>8. ASSUME NEW k \in Keys, GraceExpires(k) PROVE PullsKept
  BY <1>8, PullsFrame DEF GraceExpires, repoVars
<1>9. ASSUME NEW i \in 1..2, ArgoSyncs(i) PROVE PullsKept
  BY <1>9, PullsFrame DEF ArgoSyncs, repoVars
<1>10. CASE UNCHANGED vars
  BY <1>10, PullsFrame DEF vars, repoVars
<1> QED
  BY <1>2, <1>3, <1>4, <1>5, <1>6, <1>7, <1>8, <1>9, <1>10, PeopleKeep, LateWriteKeeps DEF Next

-------------------------------------------------------------------------------
(* Knowledge is kept. *)

LEMMA OwnKept ==
  ASSUME PullsKept, NEW k \in Keys, NEW n, Own(k, n) PROVE Own(k, n)'
<1>1. CASE n = NoPr
  BY <1>1 DEF Own
<1>2. CASE n # NoPr
  <2>1. n \in Adoptable(BranchOf[k]) /\ BranchOf[k] \in Branches
    BY <1>2, StoreAssumption DEF Own, Adoptable
  <2>2. n \in Adoptable(BranchOf[k])'
    BY <2>1 DEF PullsKept
  <2> QED
    BY <2>2 DEF Own, Adoptable
<1> QED
  BY <1>1, <1>2

LEMMA MergedKept == ASSUME PullsKept, NEW n, Merged(n) PROVE Merged(n)'
<1>1. n \in PrIds
  BY DEF Merged
<1> QED
  BY <1>1 DEF PullsKept

LEMMA HeldKept ==
  ASSUME Kept, NEW k \in Keys, NEW st, NEW n, HoldsRow(k, st, n) PROVE HoldsRow(k, st, n)'
<1>1. RowExists(k)' /\ Own(k, n)'
  BY OwnKept DEF Kept, TableKept, HoldsRow
<1>2. n \in {NoPr, requests'[k].pr}
  BY DEF Kept, TableKept, HoldsRow
<1> QED
  BY <1>1, <1>2 DEF HoldsRow

LEMMA OnKept ==
  ASSUME Kept, NEW b PROVE (RowOn(b) => RowOn(b)') /\ (IntentOn(b) => IntentOn(b)')
  BY DEF Kept, TableKept, RowOn, IntentOn

(* What the process itself did not do leaves its knowledge alone. *)
LEMMA KnowledgeKept ==
  ASSUME Kept, NEW p \in Procs, proc[p] \in Process, Knows(proc[p]), proc'[p] = proc[p]
  PROVE  Knows(proc[p])'
<1> SUFFICES ASSUME proc[p].key # NoKey PROVE Knows(proc[p])'
  BY DEF Knows
<1> DEFINE q == proc[p]
<1>1. q.key \in Keys
  BY DEF Process
<1>2. HoldsRow(q.key, q.stage, q.pr) /\ Own(q.key, q.found) /\ proc'[p] = q
  BY DEF Knows
<1>3. \A k \in Keys : \A st, n : HoldsRow(k, st, n) => HoldsRow(k, st, n)'
  BY HeldKept
<1>4. \A k \in Keys : \A n : Own(k, n) => Own(k, n)'
  BY OwnKept DEF Kept
<1>5. \A n : Merged(n) => Merged(n)'
  BY MergedKept DEF Kept
<1>6. intents \subseteq intents' /\ argo[1] \subseteq argo'[1] /\ argo[2] \subseteq argo'[2]
  BY DEF Kept, TableKept
<1> QED
  BY <1>1, <1>2, <1>3, <1>4, <1>5, <1>6 DEF Knows, Needs

-------------------------------------------------------------------------------
(* A step accounts for what it changes. *)

RowsTold ==
  \A k \in Keys : \/ requests'[k].stage = requests[k].stage /\ requests'[k].pr = requests[k].pr
                  \/ RowTruth(k)'
ProcsTold == \A p \in Procs : proc'[p] = proc[p] \/ Knows(proc[p])'
ListsTold ==
  \A r \in Reconcilers : \A s \in todo'[r] : s \in todo[r] \/ HoldsRow(s.key, s.stage, s.pr)'
WiresTold == \A w \in inflight' : w \in inflight \/ WireTruth(w)'
PullsTold == \A n \in PrIds : prs'[n] = prs[n] \/ PullTruth(n)'
BranchesTold ==
  \A b \in Branches \ Leftover : branches'[b] # "none" => branches[b] # "none" \/ RowOn(b)'
RepoTold == WiresTold /\ PullsTold /\ BranchesTold
ArgoTold == \A i \in 1..2 : \A n \in argo'[i] : n \in argo[i] \/ Merged(n)'

LEMMA RowTruthKept ==
  ASSUME Kept, NEW k \in Keys, RowTruth(k),
         requests'[k].stage = requests[k].stage, requests'[k].pr = requests[k].pr
  PROVE  RowTruth(k)'
<1>1. \A n : (Own(k, n) => Own(k, n)') /\ (Merged(n) => Merged(n)')
  BY OwnKept, MergedKept DEF Kept
<1>2. argo[1] \subseteq argo'[1] /\ argo[2] \subseteq argo'[2]
  BY DEF Kept
<1>3. Own(k, requests[k].pr)'
  BY <1>1 DEF RowTruth, Own
<1> QED
  BY <1>1, <1>2, <1>3 DEF RowTruth

LEMMA WireTruthKept ==
  ASSUME Typed, Kept, NEW w \in inflight, WireTruth(w) PROVE WireTruth(w)'
<1>1. w.branch \in Branches
  BY Unfold DEF RepoTypeOK, Write
<1>2. (RowOn(w.branch) => RowOn(w.branch)') /\ (IntentOn(w.branch) => IntentOn(w.branch)')
  BY OnKept
<1>3. Adoptable(w.branch) \subseteq Adoptable(w.branch)'
  BY <1>1 DEF Kept, PullsKept
<1> QED
  BY <1>2, <1>3 DEF WireTruth

LEMMA PullTruthKept ==
  ASSUME Kept, NEW n \in PrIds, PullTruth(n), prs'[n] = prs[n] PROVE PullTruth(n)'
<1>1. IntentOn(prs[n].branch) => IntentOn(prs[n].branch)'
  <2>1. \A b : IntentOn(b) => IntentOn(b)'
    BY OnKept
  <2> QED
    BY <2>1 DEF IntentOn
<1> QED
  BY <1>1 DEF PullTruth

LEMMA Preserves ==
  ASSUME Typed, TruthInv, Kept, RowsTold, ProcsTold, ListsTold, RepoTold, ArgoTold
  PROVE  TruthInv'
<1>1. \A k \in Keys : RowTruth(k)'
  BY RowTruthKept DEF TruthInv, RowsTold
<1>2. \A p \in Procs : Knows(proc[p])'
  BY Unfold, KnowledgeKept DEF TruthInv, ProcsTold, Walking
<1>3. \A r \in Reconcilers : \A s \in todo'[r] : HoldsRow(s.key, s.stage, s.pr)'
  <2> SUFFICES ASSUME NEW r \in Reconcilers, NEW s \in todo'[r], s \in todo[r]
               PROVE  HoldsRow(s.key, s.stage, s.pr)'
    BY DEF ListsTold
  <2>1. s.key \in Keys
    BY LoopTyped DEF Snapshot
  <2> QED
    BY <2>1, HeldKept DEF TruthInv
<1>4. \A w \in inflight' : WireTruth(w)'
  BY WireTruthKept DEF TruthInv, RepoTold, WiresTold
<1>5. \A n \in PrIds : PullTruth(n)'
  BY PullTruthKept DEF TruthInv, RepoTold, PullsTold
<1>6. \A b \in Branches \ Leftover : branches'[b] # "none" => RowOn(b)'
  BY OnKept DEF TruthInv, RepoTold, BranchesTold
<1>7. \A i \in 1..2 : \A n \in argo'[i] : Merged(n)'
  BY MergedKept DEF TruthInv, ArgoTold, Kept
<1> QED
  BY <1>1, <1>2, <1>3, <1>4, <1>5, <1>6, <1>7 DEF TruthInv

(* The parts that a step leaves alone. *)
LEMMA StoreStill ==
  ASSUME UNCHANGED storeVars PROVE TableKept /\ RowsTold
  BY DEF storeVars, TableKept, RowsTold, RowExists

LEMMA RowsStill ==
  ASSUME UNCHANGED requests, intents \subseteq intents' PROVE TableKept /\ RowsTold
  BY DEF TableKept, RowsTold, RowExists

LEMMA RepoStill == ASSUME UNCHANGED repoVars PROVE RepoTold
  BY DEF repoVars, RepoTold, WiresTold, PullsTold, BranchesTold

LEMMA ProcStill == ASSUME UNCHANGED proc PROVE ProcsTold
  BY DEF ProcsTold

LEMMA ListStill == ASSUME UNCHANGED todo PROVE ListsTold
  BY DEF ListsTold

LEMMA ArgoStill == ASSUME UNCHANGED argo PROVE ArgoTold /\ \A i \in 1..2 : argo[i] \subseteq argo'[i]
  BY DEF ArgoTold

(* A process that rests knows nothing. *)
LEMMA DoneTold == ASSUME Typed, NEW p \in Procs, Done(p) PROVE ProcsTold
<1>1. \A q \in Procs \ {p} : proc'[q] = proc[q]
  BY Unfold DEF Done, Walking
<1>2. proc'[p].key = NoKey
  BY Unfold DEF Done, Walking, Resting
<1> QED
  BY <1>1, <1>2 DEF ProcsTold, Knows

(* A process goes on with its row: it has to know what its next place needs. *)
LEMMA MoveTold ==
  ASSUME Typed, TruthInv, Kept, NEW p \in Procs, NEW q \in Process, proc' = [proc EXCEPT ![p] = q],
         q.key = proc[p].key, q.pr = proc[p].pr, q.stage \in {proc[p].stage, "submitted"},
         q.key # NoKey => Own(q.key, q.found)' /\ Needs(q)'
  PROVE  ProcsTold
<1>0. proc \in [Procs -> Process]
  BY Unfold DEF Walking
<1>1. proc'[p] = q /\ \A r \in Procs \ {p} : proc'[r] = proc[r]
  BY <1>0
<1>2. Knows(proc[p])'
  <2> SUFFICES ASSUME q.key # NoKey PROVE Knows(proc[p])'
    BY <1>1 DEF Knows
  <2>1. PICK st : st = proc[p].stage
    OBVIOUS
  <2>2. q.key \in Keys /\ HoldsRow(q.key, st, q.pr)
    BY <2>1 DEF Process, TruthInv, Knows
  <2>3. HoldsRow(q.key, st, q.pr)'
    BY <2>2, HeldKept
  <2>4. HoldsRow(q.key, q.stage, q.pr)'
    BY <2>1, <2>3 DEF HoldsRow
  <2> QED
    BY <1>1, <2>4 DEF Knows
<1> QED
  BY <1>1, <1>2 DEF ProcsTold

LEMMA GotoIs ==
  ASSUME Typed, NEW p \in Procs, NEW pc \in Pcs, Goto(p, pc)
  PROVE  /\ proc'[p] \in Process /\ proc'[p].pc = pc /\ proc'[p].found = proc[p].found
         /\ proc'[p].key = proc[p].key /\ proc'[p].pr = proc[p].pr /\ proc'[p].stage = proc[p].stage
         /\ proc' = [proc EXCEPT ![p] = proc'[p]]
<1>0. proc \in [Procs -> Process] /\ proc[p] \in Process
  BY Unfold DEF Walking
<1> QED
  BY <1>0 DEF Goto, Process

LEMMA GotoWithIs ==
  ASSUME Typed, NEW p \in Procs, NEW pc \in Pcs, NEW n \in Nat, GotoWith(p, pc, n)
  PROVE  /\ proc'[p] \in Process /\ proc'[p].pc = pc /\ proc'[p].found = n
         /\ proc'[p].key = proc[p].key /\ proc'[p].pr = proc[p].pr /\ proc'[p].stage = proc[p].stage
         /\ proc' = [proc EXCEPT ![p] = proc'[p]]
<1>0. proc \in [Procs -> Process] /\ proc[p] \in Process
  BY Unfold DEF Walking
<1> QED
  BY <1>0 DEF GotoWith, Process

LEMMA GotoTold ==
  ASSUME Typed, TruthInv, Kept, NEW p \in Procs, NEW pc \in Pcs, Goto(p, pc),
         proc[p].key # NoKey => Needs(proc[p])'
  PROVE  ProcsTold
<1>1. PICK q : q = proc'[p]
  OBVIOUS
<1>2. q.key # NoKey => Own(q.key, q.found)'
  <2> SUFFICES ASSUME q.key # NoKey PROVE Own(q.key, q.found)'
    OBVIOUS
  <2>1. q.key \in Keys /\ Own(q.key, q.found)
    BY <1>1, GotoIs DEF Process, TruthInv, Knows
  <2> QED
    BY <2>1, OwnKept DEF Kept
<1>3. q.key # NoKey => Needs(q)'
  BY <1>1, GotoIs DEF Needs
<1> QED
  BY <1>1, <1>2, <1>3, GotoIs, MoveTold

LEMMA GotoWithTold ==
  ASSUME Typed, TruthInv, Kept, NEW p \in Procs, NEW pc \in Pcs, NEW n \in Nat, GotoWith(p, pc, n),
         NEW b, b = Branch(p), n \in Adoptable(b)', Needs(proc[p])'
  PROVE  ProcsTold
<1>1. PICK q : q = proc'[p]
  OBVIOUS
<1>2. Own(q.key, q.found)'
  BY <1>1, GotoWithIs DEF Own, Adoptable, Branch
<1>3. Needs(q)'
  BY <1>1 DEF Needs
<1> QED
  BY <1>1, <1>2, <1>3, GotoWithIs, MoveTold

(* Places whose next call relies on the row alone. *)
PlainPcs == RestPcs \cup WritePcs \cup {"refused", "unknown", "findBranch", "notFound", "touch",
                                       "markRejected"}

LEMMA PlainTold ==
  ASSUME Typed, TruthInv, Kept, NEW p \in Procs, NEW pc \in PlainPcs, Goto(p, pc) PROVE ProcsTold
<1>1. pc \in Pcs
  BY DEF PlainPcs, RestPcs, Pcs, StorePcs, ReadPcs
<1>2. Needs(proc[p])'
  BY <1>1, GotoIs DEF Needs, PlainPcs, RestPcs, WritePcs, FoundPcs, ClosePcs
<1> QED
  BY <1>1, <1>2, GotoTold

(* A compare-and-set that hits. *)
LEMMA TransitionTold ==
  ASSUME Typed, TruthInv, PullsKept, UNCHANGED argo,
         NEW k \in Keys, NEW e, NEW s \in Stages \ {"none"}, NEW n \in Nat, Transition(k, e, s, n),
         s = "pr_open" => n # NoPr /\ e \in {"submitted", "unknown_recovering"} /\ Own(k, n),
         s # "pr_open" => n = NoPr,
         s \in {"submitted", "unknown_recovering"} => e \in {"submitted", "unknown_recovering"},
         s = "merged" => e = "pr_open" /\ Merged(requests[k].pr),
         s = "applied" => e = "merged" /\ requests[k].pr \in argo[1] \cap argo[2]
  PROVE  TableKept /\ RowsTold
<1>0. requests \in [Keys -> Row] /\ RowTruth(k) /\ intents' = intents
  BY Unfold DEF StoreTypeOK, TruthInv, Transition
<1>1. requests[k].stage = e /\ requests'[k].stage = s
  BY <1>0 DEF Transition, Hits, Row
<1>2. requests'[k].pr = IF n = NoPr THEN requests[k].pr ELSE n
  BY <1>0 DEF Transition, Row
<1>3. \A j \in Keys \ {k} : requests'[j] = requests[j]
  BY <1>0 DEF Transition
<1>4. n # NoPr => requests[k].pr = NoPr
  BY <1>0, <1>1 DEF RowTruth
<1>5. TableKept
  BY <1>0, <1>1, <1>2, <1>3, <1>4 DEF TableKept, RowExists
<1>6. PICK m : m = requests'[k].pr
  OBVIOUS
<1>7. Own(k, m) /\ Own(k, m)'
  BY <1>0, <1>2, <1>6, OwnKept DEF RowTruth
<1>8. s \in {"merged", "applied"} => Merged(m)'
  <2> SUFFICES ASSUME s \in {"merged", "applied"} PROVE Merged(m)'
    OBVIOUS
  <2>1. Merged(m)
    BY <1>0, <1>1, <1>2, <1>6 DEF RowTruth
  <2> QED
    BY <2>1, MergedKept
<1>9. RowTruth(k)'
  BY <1>0, <1>1, <1>2, <1>6, <1>7, <1>8 DEF RowTruth, Own
<1> QED
  BY <1>3, <1>5, <1>9 DEF RowsTold

(* The row was lost, or ends without a result: failed and rejected. *)
LEMMA LossTold ==
  ASSUME Typed, TruthInv, PullsKept, UNCHANGED argo, NEW k \in Keys, NEW e,
         NEW s \in {"failed", "rejected"}, Transition(k, e, s, NoPr)
  PROVE  TableKept /\ RowsTold
  BY TransitionTold, SomeStages

(* A step that leaves ArgoCD alone. *)
LEMMA Told ==
  ASSUME Typed, TruthInv, PullsKept, TableKept, UNCHANGED argo, RowsTold, ProcsTold, ListsTold, RepoTold
  PROVE  TruthInv'
  BY ArgoStill, Preserves DEF Kept

LEMMA KeptBy == ASSUME PullsKept, TableKept, UNCHANGED argo PROVE Kept
  BY ArgoStill DEF Kept

-------------------------------------------------------------------------------
(* createChangePr. *)

(* A process at work knows its row. *)
LEMMA WorkerKnows ==
  ASSUME Typed, TruthInv, NEW p \in Procs, proc[p].pc \notin RestPcs
  PROVE  /\ proc[p].key \in Keys /\ Branch(p) = BranchOf[proc[p].key] /\ Branch(p) \in Branches
         /\ HoldsRow(proc[p].key, proc[p].stage, proc[p].pr)
         /\ Own(proc[p].key, proc[p].found) /\ Needs(proc[p]) /\ RowOn(Branch(p))
<1>1. proc[p].key \in Keys /\ Branch(p) \in Branches
  BY Unfold, AtWork
<1>2. Knows(proc[p]) /\ proc[p].key # NoKey
  BY <1>1, WriterAssumption DEF TruthInv
<1> QED
  BY <1>1, <1>2 DEF Knows, Branch, HoldsRow, RowOn

LEMMA WriteBranchTruth ==
  ASSUME Typed, TruthInv, PullsKept, NEW p \in Procs, PostRef(p) \/ WriteContents(p), UNCHANGED argo
  PROVE  TruthInv'
<1>1. proc[p].pc \notin RestPcs
  BY DEF PostRef, WriteContents, At, RestPcs
<1>2. RowOn(Branch(p)) /\ Branch(p) \in Branches
  BY <1>1, WorkerKnows
<1>3. TableKept /\ RowsTold
  BY StoreStill DEF PostRef, WriteContents
<1>4. Kept
  BY <1>3, KeptBy
<1>5. ProcsTold
  <2>1. \E pc \in {"read", "pulls", "refused"} : Goto(p, pc)
    BY DEF PostRef, WriteContents
  <2> QED
    BY <1>4, <2>1, PlainTold DEF PlainPcs, WritePcs
<1>6. BranchesTold
  <2>1. \A b \in Branches : branches'[b] = branches[b] \/ RowOn(b)
    BY <1>2, Unfold DEF PostRef, WriteContents, CreateRef, PutContents, RepoTypeOK
  <2> QED
    BY <1>4, <2>1, OnKept DEF BranchesTold
<1>7. RepoTold /\ ListsTold
  BY <1>6 DEF PostRef, WriteContents, RepoTold, WiresTold, PullsTold, ListsTold
<1> QED
  BY <1>3, <1>5, <1>7, Told

LEMMA ReadContentsTruth ==
  ASSUME Typed, TruthInv, PullsKept, NEW p \in Procs, ReadContents(p) \/ WriteRefused(p), UNCHANGED argo
  PROVE  TruthInv'
<1>1. TableKept /\ RowsTold /\ RepoTold /\ ListsTold
  BY StoreStill, RepoStill, ListStill DEF ReadContents, WriteRefused
<1>2. \E pc \in {"pulls", "put", "refused"} : Goto(p, pc)
  BY DEF ReadContents, WriteRefused
<1>3. ProcsTold
  BY <1>1, <1>2, KeptBy, PlainTold DEF PlainPcs, WritePcs
<1> QED
  BY <1>1, <1>3, Told

(* Pull request numbers are positive. *)
LEMMA PrNumbers == PrIds \subseteq Nat \ {NoPr}
  BY RepoAssumption DEF PrIds, NoPr

LEMMA FoundIs ==
  ASSUME NEW b, NEW n \in PrIds, FindsPr(b, n) PROVE n \in Adoptable(b)
  BY PrNumbers DEF FindsPr

LEMMA PostPullsTruth ==
  ASSUME Typed, TruthInv, PullsKept, NEW p \in Procs, PostPulls(p), UNCHANGED argo PROVE TruthInv'
<1>1. proc[p].pc \notin RestPcs
  BY DEF PostPulls, At, RestPcs
<1>2. Branch(p) \in Branches /\ prs \in [PrIds -> PullRequest]
  BY <1>1, WorkerKnows, Unfold DEF RepoTypeOK
<1>3. TableKept /\ RowsTold /\ ListsTold
  BY StoreStill, ListStill DEF PostPulls
<1>4. Kept
  BY <1>3, KeptBy
<1>5. PICK b : b = Branch(p)
  OBVIOUS
<1>6. ASSUME NEW n \in PrIds, n \in Adoptable(b)', GotoWith(p, "opened", n) PROVE ProcsTold
  <2>1. "opened" \in Pcs /\ n \in Nat /\ n # NoPr
    BY PrNumbers DEF Pcs, StorePcs
  <2>2. Needs(proc[p])'
    BY <1>6, <2>1, GotoWithIs DEF Needs
  <2> QED
    BY <1>4, <1>5, <1>6, <2>1, <2>2, GotoWithTold
<1>7. PullsTold /\ ProcsTold
  <2>1. ASSUME NEW n \in PrIds, OpenPull(b, n), GotoWith(p, "opened", n) PROVE PullsTold /\ ProcsTold
    <3>1. prs'[n] = [state |-> "open", branch |-> b, old |-> FALSE, closer |-> "nobody"]
      BY <1>2, <2>1 DEF OpenPull
    <3>2. \A m \in PrIds \ {n} : prs'[m] = prs[m]
      BY <1>2, <2>1 DEF OpenPull
    <3> QED
      BY <1>6, <2>1, <3>1, <3>2 DEF PullsTold, PullTruth, Adoptable
  <2>2. ASSUME NEW n \in PrIds, FindsPr(b, n), GotoWith(p, "opened", n), UNCHANGED prs
        PROVE  PullsTold /\ ProcsTold
    <3>1. n \in Adoptable(b)'
      BY <1>2, <1>5, <2>2, FoundIs DEF Adoptable
    <3> QED
      BY <1>6, <2>2, <3>1 DEF PullsTold
  <2>3. ASSUME Goto(p, "refused"), UNCHANGED prs PROVE PullsTold /\ ProcsTold
    BY <1>4, <2>3, PlainTold DEF PullsTold, PlainPcs
  <2> QED
    BY <1>5, <2>1, <2>2, <2>3 DEF PostPulls
<1>8. RepoTold
  BY <1>7 DEF PostPulls, RepoTold, WiresTold, BranchesTold
<1> QED
  BY <1>3, <1>7, <1>8, Told

LEMMA WriteUnknownTruth ==
  ASSUME Typed, TruthInv, PullsKept, NEW p \in Procs, WriteUnknown(p), UNCHANGED argo PROVE TruthInv'
<1>1. proc[p].pc \in WritePcs /\ proc[p].pc \notin RestPcs
  BY DEF WriteUnknown, WritePcs, RestPcs
<1>2. RowOn(Branch(p))
  BY <1>1, WorkerKnows
<1>3. TableKept /\ RowsTold /\ ListsTold
  BY StoreStill, ListStill DEF WriteUnknown
<1>4. Kept
  BY <1>3, KeptBy
<1>5. ProcsTold
  BY <1>4, PlainTold DEF WriteUnknown, PlainPcs
<1>6. WiresTold
  <2> SUFFICES ASSUME NEW w \in inflight', w \notin inflight PROVE WireTruth(w)'
    BY DEF WiresTold
  <2>1. w = [op |-> proc[p].pc, branch |-> Branch(p), pr |-> NoPr, by |-> "nobody"]
    BY DEF WriteUnknown
  <2>2. RowOn(w.branch)' /\ w.op # "close" /\ w.by # "cancel"
    BY <1>1, <1>2, <1>4, <2>1, OnKept DEF WritePcs
  <2> QED
    BY <2>2 DEF WireTruth
<1>7. RepoTold
  BY <1>6 DEF WriteUnknown, RepoTold, PullsTold, BranchesTold
<1> QED
  BY <1>3, <1>5, <1>7, Told

-------------------------------------------------------------------------------
(* What follows it. *)

LEMMA OpenPrTruth ==
  ASSUME Typed, TruthInv, PullsKept, NEW p \in Procs, OpenPr(p), UNCHANGED argo PROVE TruthInv'
<1>1. proc[p].pc \in {"opened", "found", "adopt"} /\ proc[p].pc \notin RestPcs
  BY DEF OpenPr, RestPcs
<1>2. /\ proc[p].key \in Keys /\ Own(proc[p].key, proc[p].found) /\ Needs(proc[p])
      /\ proc[p] \in Process /\ Fits(proc[p])
  BY <1>1, WorkerKnows, Unfold, AtWork
<1>3. /\ proc[p].found \in Nat /\ proc[p].found # NoPr
      /\ proc[p].stage \in {"submitted", "unknown_recovering"}
  BY <1>1, <1>2 DEF Process, Needs, FoundPcs, Fits
<1>4. RepoTold /\ ListsTold
  BY RepoStill, ListStill DEF OpenPr
<1>5. CASE Transition(proc[p].key, proc[p].stage, "pr_open", proc[p].found) /\ Done(p)
  <2>1. TableKept /\ RowsTold
    BY <1>2, <1>3, <1>5, TransitionTold, SomeStages
  <2> QED
    BY <1>4, <1>5, <2>1, DoneTold, Told
<1>6. CASE UNCHANGED storeVars /\ (Done(p) \/ Goto(p, "lost"))
  <2>1. TableKept /\ RowsTold
    BY <1>6, StoreStill
  <2>2. ASSUME Goto(p, "lost") PROVE ProcsTold
    <3>1. "lost" \in Pcs
      BY DEF Pcs, StorePcs
    <3>2. Needs(proc[p])'
      BY <1>3, <2>2, <3>1, GotoIs DEF Needs
    <3> QED
      BY <2>1, <2>2, <3>1, <3>2, KeptBy, GotoTold
  <2> QED
    BY <1>4, <1>6, <2>1, <2>2, DoneTold, Told
<1> QED
  BY <1>5, <1>6 DEF OpenPr

LEMMA ReadLostRowTruth ==
  ASSUME Typed, TruthInv, PullsKept, NEW p \in Procs, ReadLostRow(p), UNCHANGED argo PROVE TruthInv'
<1>1. proc[p].pc = "lost" /\ proc[p].pc \notin RestPcs
  BY DEF ReadLostRow, At, RestPcs
<1>2. proc[p].found # NoPr
  BY <1>1, WorkerKnows DEF Needs, FoundPcs
<1>3. TableKept /\ RowsTold /\ RepoTold /\ ListsTold
  BY StoreStill, RepoStill, ListStill DEF ReadLostRow
<1>4. ASSUME Goto(p, "closeOrphan") PROVE ProcsTold
  <2>1. "closeOrphan" \in Pcs
    BY DEF Pcs, ClosePcs
  <2>2. Needs(proc[p])'
    BY <1>2, <1>4, <2>1, GotoIs DEF Needs
  <2> QED
    BY <1>3, <1>4, <2>1, <2>2, KeptBy, GotoTold
<1> QED
  BY <1>3, <1>4, DoneTold, Told DEF ReadLostRow

(* Only a pull request of one's own is closed, and a cancel's only after    *)
(* its intent was recorded.                                                 *)
LEMMA CloseTold ==
  ASSUME Typed, TruthInv, NEW b, NEW n \in Adoptable(b), NEW by, ClosePr(n, by),
         by = "cancel" => IntentOn(b)'
  PROVE  PullsTold
<1>1. prs \in [PrIds -> PullRequest] /\ n \in PrIds /\ prs[n].branch = b /\ ~prs[n].old
  BY Unfold DEF RepoTypeOK, Adoptable
<1>2. CASE prs[n].state = "open"
  <2>1. /\ prs'[n].branch = b /\ prs'[n].old = prs[n].old /\ prs'[n].closer = by
        /\ \A m \in PrIds \ {n} : prs'[m] = prs[m]
    BY <1>1, <1>2 DEF ClosePr, PullRequest
  <2>2. PullTruth(n)'
    BY <1>1, <2>1 DEF PullTruth, IntentOn
  <2> QED
    BY <2>1, <2>2 DEF PullsTold
<1>3. CASE prs[n].state # "open"
  BY <1>3 DEF ClosePr, PullsTold
<1> QED
  BY <1>2, <1>3

LEMMA OwnAdoptable ==
  ASSUME NEW k \in Keys, NEW n, Own(k, n), n # NoPr PROVE n \in Adoptable(BranchOf[k])
  BY DEF Own, Adoptable

(* A process that is about to close has the pull request to close. *)
LEMMA CloserKnows ==
  ASSUME Typed, TruthInv, NEW p \in Procs, proc[p].pc \in ClosePcs
  PROVE  /\ proc[p].found \in Adoptable(Branch(p)) /\ RowOn(Branch(p))
         /\ proc[p].pc = "cancelClose" => IntentOn(Branch(p))
<1>1. proc[p].pc \notin RestPcs
  BY DEF ClosePcs, RestPcs
<1>2. /\ proc[p].key \in Keys /\ Own(proc[p].key, proc[p].found) /\ Needs(proc[p])
      /\ Branch(p) = BranchOf[proc[p].key] /\ RowOn(Branch(p))
  BY <1>1, WorkerKnows
<1> QED
  BY <1>2, OwnAdoptable DEF Needs, FoundPcs, IntentOn

LEMMA CloseOrphanPrTruth ==
  ASSUME Typed, TruthInv, PullsKept, NEW p \in Procs, CloseOrphanPr(p), UNCHANGED argo PROVE TruthInv'
<1>1. proc[p].pc \in ClosePcs
  BY DEF CloseOrphanPr, ClosePcs
<1>2. TableKept /\ RowsTold /\ ListsTold
  BY StoreStill, ListStill DEF CloseOrphanPr
<1>3. PullsTold
  BY <1>1, CloserKnows, CloseTold DEF CloseOrphanPr
<1>4. RepoTold
  BY <1>3 DEF CloseOrphanPr, RepoTold, WiresTold, BranchesTold
<1> QED
  BY <1>2, <1>4, DoneTold, Told DEF CloseOrphanPr

LEMMA CloseUnknownTruth ==
  ASSUME Typed, TruthInv, PullsKept, NEW p \in Procs, CloseUnknown(p), UNCHANGED argo PROVE TruthInv'
<1>1. proc[p].pc \in ClosePcs /\ proc[p].pc \notin RestPcs
  BY DEF CloseUnknown, ClosePcs, RestPcs
<1>2. TableKept /\ RowsTold /\ ListsTold
  BY RowsStill, ListStill DEF CloseUnknown
<1>3. Kept
  BY <1>2, KeptBy
<1>4. WiresTold
  <2> SUFFICES ASSUME NEW w \in inflight', w \notin inflight PROVE WireTruth(w)'
    BY DEF WiresTold
  <2>1. /\ w.op = "close" /\ w.branch = Branch(p) /\ w.pr = proc[p].found
        /\ w.by = "cancel" => proc[p].pc = "cancelClose"
    BY DEF CloseUnknown, At
  <2>2. w.branch \in Branches
    BY <1>1, <2>1, WorkerKnows
  <2>3. RowOn(w.branch) /\ w.pr \in Adoptable(w.branch) /\ (w.by = "cancel" => IntentOn(w.branch))
    BY <1>1, <2>1, CloserKnows
  <2>4. w.pr \in Adoptable(w.branch)'
    BY <2>2, <2>3 DEF PullsKept
  <2> QED
    BY <1>3, <2>3, <2>4, OnKept DEF WireTruth
<1>5. RepoTold
  BY <1>4 DEF CloseUnknown, RepoTold, PullsTold, BranchesTold
<1> QED
  BY <1>2, <1>5, DoneTold, Told DEF CloseUnknown

(* Steps that end the work on a row with a loss, or with an error. *)
LEMMA EndsTruth ==
  ASSUME Typed, TruthInv, PullsKept, NEW p \in Procs, RecordRefusal(p) \/ CallFails(p), UNCHANGED argo
  PROVE  TruthInv'
<1>1. TableKept /\ RowsTold
  <2>1. CASE RecordRefusal(p)
    <3>1. proc[p].pc \notin RestPcs
      BY <2>1 DEF RecordRefusal, At, RestPcs
    <3> QED
      BY <2>1, <3>1, WorkerKnows, LossTold, StoreStill DEF RecordRefusal
  <2>2. CASE CallFails(p)
    BY <2>2, RowsStill DEF CallFails
  <2> QED
    BY <2>1, <2>2
<1>2. RepoTold /\ ListsTold /\ ProcsTold
  BY RepoStill, ListStill, DoneTold DEF RecordRefusal, CallFails
<1> QED
  BY <1>1, <1>2, Told

LEMMA CrashTruth ==
  ASSUME Typed, TruthInv, PullsKept, NEW p \in Procs, Crash(p), UNCHANGED argo PROVE TruthInv'
<1>1. TableKept /\ RowsTold /\ RepoTold
  BY RowsStill, RepoStill DEF Crash
<1>2. ListsTold
  BY DEF Crash, ListsTold
<1>3. ProcsTold
  <2>1. proc'[p].key = NoKey /\ \A q \in Procs \ {p} : proc'[q] = proc[q]
    BY Unfold DEF Crash, Walking, Resting
  <2> QED
    BY <2>1 DEF ProcsTold, Knows
<1> QED
  BY <1>1, <1>2, <1>3, Told

-------------------------------------------------------------------------------
(* The routes. *)

(* A process that starts on a row knows what it read. *)
LEMMA StartTold ==
  ASSUME Typed, NEW p \in Procs, NEW q, proc' = [proc EXCEPT ![p] = q], q.found = NoPr,
         HoldsRow(q.key, q.stage, q.pr)',
         q.pc \notin FoundPcs \cup {"markMerged", "app2", "markApplied", "cancelFind", "cancelClose",
                                   "cancelCas"}
  PROVE  ProcsTold
<1>1. proc'[p] = q /\ \A r \in Procs \ {p} : proc'[r] = proc[r]
  BY Unfold DEF Walking
<1>2. Knows(q)'
  BY DEF Knows, Needs, Own
<1> QED
  BY <1>1, <1>2 DEF ProcsTold, Knows

LEMMA SubmitRequestTruth ==
  ASSUME Typed, TruthInv, PullsKept, NEW p \in Procs, NEW k \in Keys, SubmitRequest(p, k), UNCHANGED argo
  PROVE  TruthInv'
<1> DEFINE q == [pc |-> "ref", key |-> k, stage |-> "submitted", pr |-> NoPr, found |-> NoPr]
<1>0. requests \in [Keys -> Row]
  BY Unfold DEF StoreTypeOK
<1>1. requests'[k].stage = "submitted" /\ requests'[k].pr = NoPr
  BY <1>0 DEF SubmitRequest, Submit
<1>2. intents' = intents /\ \A j \in Keys \ {k} : requests'[j] = requests[j]
  BY <1>0 DEF SubmitRequest, Submit
<1>3. requests[k].pr = NoPr
  BY DEF SubmitRequest, Submit, CanSubmit, RowExists, TruthInv, RowTruth
<1>4. TableKept
  BY <1>1, <1>2, <1>3 DEF TableKept, RowExists
<1>5. RowsTold
  BY <1>1, <1>2 DEF RowsTold, RowTruth, Own
<1>6. proc' = [proc EXCEPT ![p] = q]
  BY DEF SubmitRequest
<1>7. HoldsRow(k, "submitted", NoPr)'
  BY <1>1 DEF HoldsRow, RowExists, Own
<1>8. ProcsTold
  <2>1. q.key = k /\ q.stage = "submitted" /\ q.pr = NoPr /\ q.found = NoPr /\ q.pc = "ref"
    OBVIOUS
  <2> HIDE DEF q
  <2> QED
    BY <1>6, <1>7, <2>1, StartTold DEF FoundPcs, ClosePcs
<1> QED
  BY <1>4, <1>5, <1>8, RepoStill, ListStill, Told DEF SubmitRequest

LEMMA SubmitUnknownTruth ==
  ASSUME Typed, TruthInv, PullsKept, NEW p \in Procs, SubmitUnknown(p), UNCHANGED argo PROVE TruthInv'
<1>1. proc[p].pc = "unknown" /\ proc[p].pc \notin RestPcs
  BY DEF SubmitUnknown, At, RestPcs
<1>2. proc[p].key \in Keys /\ proc[p].stage = "submitted"
  BY <1>1, Unfold, AtWork DEF Fits
<1>3. TableKept /\ RowsTold
  BY <1>2, StoreStill, TransitionTold, SomeStages DEF SubmitUnknown
<1> QED
  BY <1>3, RepoStill, ListStill, DoneTold, Told DEF SubmitUnknown

(* What a SELECT returns is what the row says. *)
LEMMA ReadHolds ==
  ASSUME TruthInv, NEW k \in Keys, RowExists(k) PROVE HoldsRow(k, requests[k].stage, requests[k].pr)
  BY DEF TruthInv, RowTruth, HoldsRow

LEMMA CancelStartTruth ==
  ASSUME Typed, TruthInv, PullsKept, NEW p \in Procs, NEW k \in Keys, CancelStart(p, k), UNCHANGED argo
  PROVE  TruthInv'
<1>1. TableKept /\ RowsTold /\ requests' = requests
  BY RowsStill DEF CancelStart
<1>2. PICK q : q = [pc |-> "intent", key |-> k, stage |-> requests[k].stage, pr |-> requests[k].pr,
                    found |-> NoPr]
  OBVIOUS
<1>3. HoldsRow(q.key, q.stage, q.pr)
  BY <1>2, ReadHolds DEF CancelStart, Cancellable, Active, ACTIVE_STAGES, RowExists
<1>4. HoldsRow(q.key, q.stage, q.pr)'
  BY <1>1, <1>2, <1>3, KeptBy, HeldKept
<1>5. proc' = [proc EXCEPT ![p] = q] /\ q.pc = "intent" /\ q.found = NoPr
  BY <1>2 DEF CancelStart
<1>6. ProcsTold
  BY <1>4, <1>5, StartTold DEF FoundPcs, ClosePcs
<1> QED
  BY <1>1, <1>6, RepoStill, ListStill, Told DEF CancelStart

LEMMA CancelIntentTruth ==
  ASSUME Typed, TruthInv, PullsKept, NEW p \in Procs, CancelIntent(p), UNCHANGED argo PROVE TruthInv'
<1>1. TableKept /\ RowsTold
  BY RowsStill DEF CancelIntent
<1>2. "cancelFind" \in Pcs
  BY DEF Pcs, ReadPcs
<1>3. Needs(proc[p])'
  BY <1>2, GotoIs DEF CancelIntent, Needs, FoundPcs, ClosePcs
<1>4. ProcsTold
  BY <1>1, <1>2, <1>3, KeptBy, GotoTold DEF CancelIntent
<1> QED
  BY <1>1, <1>4, RepoStill, ListStill, Told DEF CancelIntent

LEMMA CancelFindPrTruth ==
  ASSUME Typed, TruthInv, PullsKept, NEW p \in Procs, CancelFindPr(p), UNCHANGED argo PROVE TruthInv'
<1>1. proc[p].pc = "cancelFind" /\ proc[p].pc \notin RestPcs
  BY DEF CancelFindPr, At, RestPcs
<1>2. /\ proc[p].key \in Keys /\ Own(proc[p].key, proc[p].pr) /\ proc[p].key \in intents
      /\ Branch(p) = BranchOf[proc[p].key] /\ Branch(p) \in Branches
  BY <1>1, WorkerKnows DEF HoldsRow, Needs
<1>3. RepoTold /\ ListsTold
  BY RepoStill, ListStill DEF CancelFindPr
<1>4. PICK n \in PrIds \cup {NoPr} :
        /\ IF proc[p].pr # NoPr THEN n = proc[p].pr ELSE FindsPr(Branch(p), n)
        /\ \/ CancelEnds(p)
           \/ n # NoPr /\ GotoWith(p, "cancelClose", n) /\ UNCHANGED storeVars
           \/ Goto(p, "cancelCas") /\ UNCHANGED storeVars
  BY DEF CancelFindPr
<1>5. CASE CancelEnds(p)
  BY <1>3, <1>5, RowsStill, DoneTold, Told DEF CancelEnds
<1>6. CASE n # NoPr /\ GotoWith(p, "cancelClose", n) /\ UNCHANGED storeVars
  <2>1. TableKept /\ RowsTold /\ intents' = intents
    BY <1>6, StoreStill DEF storeVars
  <2>2. "cancelClose" \in Pcs /\ n \in PrIds /\ n \in Nat
    BY <1>6, PrNumbers DEF Pcs, ClosePcs
  <2>3. n \in Adoptable(Branch(p))
    BY <1>2, <1>4, <1>6, <2>2, FoundIs, OwnAdoptable
  <2>4. PICK b \in Branches : b = Branch(p)
    BY <1>2
  <2>5. n \in Adoptable(b)'
    BY <2>3, <2>4 DEF PullsKept
  <2>6. Needs(proc[p])'
    BY <1>2, <1>6, <2>1, <2>2, GotoWithIs DEF Needs
  <2>7. ProcsTold
    BY <1>6, <2>1, <2>2, <2>4, <2>5, <2>6, KeptBy, GotoWithTold
  <2> QED
    BY <1>3, <2>1, <2>7, Told
<1>7. CASE Goto(p, "cancelCas") /\ UNCHANGED storeVars
  <2>1. TableKept /\ RowsTold /\ intents' = intents
    BY <1>7, StoreStill DEF storeVars
  <2>2. "cancelCas" \in Pcs
    BY DEF Pcs, StorePcs
  <2>3. Needs(proc[p])'
    BY <1>2, <1>7, <2>1, <2>2, GotoIs DEF Needs, FoundPcs, ClosePcs
  <2>4. ProcsTold
    BY <1>7, <2>1, <2>2, <2>3, KeptBy, GotoTold
  <2> QED
    BY <1>3, <2>1, <2>4, Told
<1> QED
  BY <1>4, <1>5, <1>6, <1>7

LEMMA CancelClosePrTruth ==
  ASSUME Typed, TruthInv, PullsKept, NEW p \in Procs, CancelClosePr(p), UNCHANGED argo PROVE TruthInv'
<1>1. proc[p].pc = "cancelClose" /\ proc[p].pc \notin RestPcs /\ proc[p].pc \in ClosePcs
  BY DEF CancelClosePr, At, RestPcs, ClosePcs
<1>2. proc[p].key \in intents
  BY <1>1, WorkerKnows DEF Needs
<1>3. TableKept /\ RowsTold /\ ListsTold /\ intents' = intents
  BY StoreStill, ListStill DEF CancelClosePr, storeVars
<1>4. PullsTold
  <2>1. PICK b : b = Branch(p)
    OBVIOUS
  <2>2. proc[p].found \in Adoptable(b) /\ IntentOn(b)'
    BY <1>1, <1>3, <2>1, CloserKnows DEF IntentOn
  <2> QED
    BY <2>2, CloseTold DEF CancelClosePr
<1>5. RepoTold
  BY <1>4 DEF CancelClosePr, RepoTold, WiresTold, BranchesTold
<1>6. ProcsTold
  <2>1. "cancelCas" \in Pcs
    BY DEF Pcs, StorePcs
  <2>2. Needs(proc[p])'
    BY <1>2, <1>3, <2>1, GotoIs DEF CancelClosePr, Needs, FoundPcs, ClosePcs
  <2> QED
    BY <1>3, <2>1, <2>2, KeptBy, GotoTold DEF CancelClosePr
<1> QED
  BY <1>3, <1>5, <1>6, Told

LEMMA CancelCommitTruth ==
  ASSUME Typed, TruthInv, PullsKept, NEW p \in Procs, CancelCommit(p), UNCHANGED argo PROVE TruthInv'
<1>1. proc[p].pc \notin RestPcs
  BY DEF CancelCommit, At, RestPcs
<1>2. TableKept /\ RowsTold
  BY <1>1, WorkerKnows, LossTold, RowsStill DEF CancelCommit, CancelEnds
<1>3. ProcsTold
  BY DoneTold DEF CancelCommit, CancelEnds
<1> QED
  BY <1>2, <1>3, RepoStill, ListStill, Told DEF CancelCommit

-------------------------------------------------------------------------------
(* The reconciler. *)

LEMMA ListHolds ==
  ASSUME Typed, TruthInv, NEW s \in ListOpen \cup ListRecentTerminal PROVE HoldsRow(s.key, s.stage, s.pr)
<1>1. PICK k \in Keys : s = SnapshotOf(k) /\ RowExists(k)
  BY DEF ListOpen, ListRecentTerminal, OpenKeys, OPEN_STAGES, ACTIVE_STAGES, Lost, TerminalLoss, RowExists
<1> QED
  BY <1>1, ReadHolds DEF SnapshotOf

(* A reconciler lists rows. *)
LEMMA ListTold ==
  ASSUME Typed, TruthInv, Kept, NEW r \in Reconcilers,
         NEW l \in SUBSET (ListOpen \cup ListRecentTerminal), todo' = [todo EXCEPT ![r] = l]
  PROVE  ListsTold
<1> SUFFICES ASSUME NEW x \in Reconcilers, NEW s \in todo'[x], s \notin todo[x]
             PROVE  HoldsRow(s.key, s.stage, s.pr)'
  BY DEF ListsTold
<1>1. s \in ListOpen \cup ListRecentTerminal
  BY LoopTyped
<1>2. s.key \in Keys /\ HoldsRow(s.key, s.stage, s.pr)
  BY <1>1, ListsTyped, ListHolds DEF Snapshot
<1> QED
  BY <1>2, HeldKept

LEMMA TickStartTruth ==
  ASSUME Typed, TruthInv, PullsKept, NEW r \in Reconcilers, TickStart(r) PROVE TruthInv'
<1>1. TableKept /\ RowsTold
  BY RowsStill DEF TickStart
<1>2. Kept
  BY <1>1, KeptBy DEF TickStart
<1>3. ListsTold
  BY <1>2, ListTold DEF TickStart
<1>4. ProcsTold
  BY <1>2, PlainTold DEF TickStart, PlainPcs, RestPcs, Procs
<1> QED
  BY <1>1, <1>3, <1>4, RepoStill, Told DEF TickStart

LEMMA SweepListTruth ==
  ASSUME Typed, TruthInv, PullsKept, NEW r \in Reconcilers, SweepList(r) \/ SweepListFails(r)
  PROVE  TruthInv'
<1>1. TableKept /\ RowsTold /\ UNCHANGED argo
  BY StoreStill DEF SweepList, SweepListFails
<1>2. Kept
  BY <1>1, KeptBy
<1>3. ListsTold
  <2>1. CASE SweepList(r)
    <3>1. {s \in ListRecentTerminal : s.key \notin swept[r]} \in SUBSET (ListOpen \cup ListRecentTerminal)
      OBVIOUS
    <3> QED
      BY <1>2, <2>1, <3>1, ListTold DEF SweepList
  <2>2. CASE SweepListFails(r)
    BY <2>2, ListStill DEF SweepListFails
  <2> QED
    BY <2>1, <2>2
<1>4. ProcsTold
  BY <1>2, PlainTold DEF SweepList, SweepListFails, PlainPcs, RestPcs, Procs
<1> QED
  BY <1>1, <1>3, <1>4, RepoStill, Told DEF SweepList, SweepListFails

(* A reconciler goes on to a row of its listing. *)
LEMMA TakeTold ==
  ASSUME Typed, TruthInv, Kept, NEW r \in Reconcilers, NEW s \in todo[r],
         NEW pc \in {"find", "checkPr", "app1", "sweepFind"},
         proc' = [proc EXCEPT ![r] = Working(s, pc)]
  PROVE  ProcsTold
<1>1. r \in Procs /\ s.key \in Keys
  BY LoopTyped DEF Procs, Snapshot
<1>2. PICK q : q = Working(s, pc)
  OBVIOUS
<1>3. q.pc = pc /\ q.key = s.key /\ q.stage = s.stage /\ q.pr = s.pr /\ q.found = NoPr
  BY <1>2 DEF Working
<1>4. HoldsRow(q.key, q.stage, q.pr)
  BY <1>3 DEF TruthInv
<1>5. HoldsRow(q.key, q.stage, q.pr)'
  BY <1>1, <1>3, <1>4, HeldKept
<1> QED
  BY <1>1, <1>2, <1>3, <1>5, StartTold DEF FoundPcs, ClosePcs

LEMMA TakeRecordTruth ==
  ASSUME Typed, TruthInv, PullsKept, NEW r \in Reconcilers, TakeRecord(r) PROVE TruthInv'
<1>1. PICK s \in todo[r], pc \in {"next", "find", "checkPr", "app1"} :
        /\ todo' = [todo EXCEPT ![r] = @ \ {s}]
        /\ proc' = [proc EXCEPT ![r] = IF pc = "next" THEN Resting("next") ELSE Working(s, pc)]
  BY DEF TakeRecord
<1>2. TableKept /\ RowsTold /\ RepoTold /\ UNCHANGED argo
  BY RowsStill, RepoStill DEF TakeRecord
<1>3. ListsTold
  BY <1>1, LoopTyped DEF ListsTold
<1>4. ProcsTold
  <2>1. CASE pc = "next"
    <3>1. proc'[r].key = NoKey /\ \A q \in Procs \ {r} : proc'[q] = proc[q]
      BY <1>1, <2>1, Unfold DEF Walking, Resting, Procs
    <3> QED
      BY <3>1 DEF ProcsTold, Knows
  <2>2. CASE pc # "next"
    BY <1>1, <1>2, <2>2, KeptBy, TakeTold
  <2> QED
    BY <2>1, <2>2
<1> QED
  BY <1>2, <1>3, <1>4, Told

LEMMA SweepTakeTruth ==
  ASSUME Typed, TruthInv, PullsKept, NEW r \in Reconcilers, SweepTake(r) PROVE TruthInv'
<1>1. PICK s \in todo[r] : /\ todo' = [todo EXCEPT ![r] = @ \ {s}]
                          /\ proc' = [proc EXCEPT ![r] = Working(s, "sweepFind")]
  BY DEF SweepTake
<1>2. TableKept /\ RowsTold /\ RepoTold /\ UNCHANGED argo
  BY StoreStill, RepoStill DEF SweepTake
<1>3. ListsTold
  BY <1>1, LoopTyped DEF ListsTold
<1>4. ProcsTold
  BY <1>1, <1>2, KeptBy, TakeTold
<1> QED
  BY <1>2, <1>3, <1>4, Told

(* A search by branch returns a pull request of one's own. *)
LEMMA FindTruth ==
  ASSUME Typed, TruthInv, PullsKept, NEW r \in Reconcilers, RecoverFindPr(r) \/ SweepFindPr(r)
  PROVE  TruthInv'
<1>0. r \in Procs
  BY DEF Procs
<1>1. proc[r].pc \in {"find", "sweepFind"} /\ proc[r].pc \notin RestPcs
  BY DEF RecoverFindPr, SweepFindPr, At, RestPcs
<1>2. PICK b \in Branches : b = Branch(r)
  BY <1>0, <1>1, WorkerKnows
<1>3. /\ TableKept /\ RowsTold /\ RepoTold /\ ListsTold
      /\ UNCHANGED argo
  BY StoreStill, RepoStill, ListStill DEF RecoverFindPr, SweepFindPr
<1>4. Kept
  BY <1>3, KeptBy
<1>5. ASSUME NEW n \in PrIds, FindsPr(Branch(r), n), NEW pc \in {"found", "adopt", "sweepClose"},
             GotoWith(r, pc, n)
      PROVE  ProcsTold
  <2>1. pc \in Pcs /\ n \in Nat /\ n # NoPr
    BY PrNumbers DEF Pcs, StorePcs, ClosePcs
  <2>2. n \in Adoptable(b)'
    BY <1>2, <1>5, FoundIs DEF PullsKept
  <2>3. Needs(proc[r])'
    BY <1>0, <1>5, <2>1, GotoWithIs DEF Needs
  <2> QED
    BY <1>0, <1>2, <1>4, <1>5, <2>1, <2>2, <2>3, GotoWithTold
<1>6. ASSUME Goto(r, "findBranch") PROVE ProcsTold
  BY <1>0, <1>4, <1>6, PlainTold DEF PlainPcs
<1>7. ASSUME Done(r) PROVE ProcsTold
  BY <1>0, <1>7, DoneTold
<1> QED
  BY <1>3, <1>5, <1>6, <1>7, Told DEF RecoverFindPr, SweepFindPr

LEMMA RecoverEndsTruth ==
  ASSUME Typed, TruthInv, PullsKept, NEW r \in Reconcilers, RecoverNotFound(r) \/ RecoverUnknown(r)
  PROVE  TruthInv'
<1>0. r \in Procs
  BY DEF Procs
<1>1. TableKept /\ RowsTold
  <2>1. CASE RecoverNotFound(r)
    <3>1. proc[r].pc \notin RestPcs
      BY <2>1 DEF RecoverNotFound, At, RestPcs
    <3> QED
      BY <1>0, <2>1, <3>1, WorkerKnows, LossTold, StoreStill DEF RecoverNotFound
  <2>2. CASE RecoverUnknown(r)
    BY <2>2, StoreStill DEF RecoverUnknown
  <2> QED
    BY <2>1, <2>2
<1> QED
  BY <1>0, <1>1, RepoStill, ListStill, DoneTold, Told DEF RecoverNotFound, RecoverUnknown

LEMMA RecoverTouchTruth ==
  ASSUME Typed, TruthInv, PullsKept, NEW r \in Reconcilers, RecoverTouch(r) PROVE TruthInv'
<1>0. r \in Procs
  BY DEF Procs
<1>1. proc[r].pc = "touch" /\ proc[r].pc \notin RestPcs
  BY DEF RecoverTouch, At, RestPcs
<1>2. /\ proc[r].key \in Keys /\ proc[r].stage \in {"submitted", "unknown_recovering"}
      /\ proc[r] \in Process
  BY <1>0, <1>1, Unfold, AtWork DEF Fits
<1>3. TableKept /\ RowsTold
  BY <1>2, StoreStill, TransitionTold, SomeStages DEF RecoverTouch
<1>4. ProcsTold
  <2>1. ASSUME proc' = [proc EXCEPT ![r].pc = "ref", ![r].stage = "submitted"] PROVE ProcsTold
    <3>1. PICK q : q = [proc[r] EXCEPT !.pc = "ref", !.stage = "submitted"]
      OBVIOUS
    <3>2. /\ q \in Process /\ q.key = proc[r].key /\ q.pr = proc[r].pr /\ q.found = proc[r].found
          /\ q.pc = "ref" /\ q.stage = "submitted" /\ proc' = [proc EXCEPT ![r] = q]
      BY <1>0, <1>2, <2>1, <3>1, SomeStages DEF Process, Pcs, WritePcs
    <3>3. Own(q.key, q.found) /\ q.key \in Keys
      BY <1>0, <1>1, <3>2, WorkerKnows
    <3>4. Own(q.key, q.found)' /\ Needs(q)'
      BY <3>2, <3>3, OwnKept DEF Needs, FoundPcs, ClosePcs
    <3> QED
      BY <1>0, <1>3, <3>2, <3>4, KeptBy, MoveTold DEF RecoverTouch
  <2> QED
    BY <1>0, <2>1, DoneTold DEF RecoverTouch
<1> QED
  BY <1>3, <1>4, RepoStill, ListStill, Told DEF RecoverTouch

(* A look at the branch, the pull request or an Application. *)
LEMMA LookTruth ==
  ASSUME Typed, TruthInv, PullsKept, NEW r \in Reconcilers,
         RecoverFindBranch(r) \/ CheckPr(r) \/ CheckApp(r)
  PROVE  TruthInv'
<1>0. r \in Procs
  BY DEF Procs
<1>1. /\ TableKept /\ RowsTold /\ RepoTold /\ ListsTold
      /\ UNCHANGED <<argo, prs>>
  BY StoreStill, RepoStill, ListStill DEF RecoverFindBranch, CheckPr, CheckApp, repoVars
<1>2. Kept
  BY <1>1, KeptBy
<1>3. proc[r].pc \in {"findBranch", "checkPr", "app1", "app2"} /\ proc[r].pc \notin RestPcs
  BY DEF RecoverFindBranch, CheckPr, CheckApp, At, RestPcs
<1>4. HoldsRow(proc[r].key, proc[r].stage, proc[r].pr) /\ Needs(proc[r]) /\ Fits(proc[r])
  BY <1>0, <1>3, WorkerKnows, Unfold, AtWork
<1>5. CASE RecoverFindBranch(r)
  <2>1. \E pc \in {"notFound", "touch"} : Goto(r, pc)
    BY <1>5 DEF RecoverFindBranch
  <2>2. ProcsTold
    BY <1>0, <1>2, <2>1, PlainTold DEF PlainPcs
  <2> QED
    BY <1>1, <2>2, Told
<1>6. CASE CheckPr(r)
  <2>1. proc[r].stage = "pr_open" /\ proc[r].pr \in PrIds
    BY <1>4, <1>6 DEF CheckPr, At, Fits, HoldsRow, Own
  <2>2. ASSUME Goto(r, "markMerged"), prs[proc[r].pr].state = "merged" PROVE ProcsTold
    <3>1. "markMerged" \in Pcs
      BY DEF Pcs, StorePcs
    <3>2. Needs(proc[r])'
      BY <1>0, <1>1, <2>1, <2>2, <3>1, GotoIs DEF Needs, FoundPcs, ClosePcs, Merged
    <3> QED
      BY <1>0, <1>2, <2>2, <3>1, <3>2, GotoTold
  <2>3. ASSUME Goto(r, "markRejected") PROVE ProcsTold
    BY <1>0, <1>2, <2>3, PlainTold DEF PlainPcs
  <2>4. ProcsTold
    BY <1>0, <1>6, <2>2, <2>3, DoneTold DEF CheckPr
  <2> QED
    BY <1>1, <2>4, Told
<1>7. CASE CheckApp(r)
  <2>1. ASSUME proc[r].pr \in argo[1], Goto(r, "app2") PROVE ProcsTold
    <3>1. "app2" \in Pcs
      BY DEF Pcs, ReadPcs
    <3>2. Needs(proc[r])'
      BY <1>0, <1>1, <2>1, <3>1, GotoIs DEF Needs, FoundPcs, ClosePcs
    <3> QED
      BY <1>0, <1>2, <2>1, <3>1, <3>2, GotoTold
  <2>2. ASSUME proc[r].pc = "app2", proc[r].pr \in argo[2], Goto(r, "markApplied") PROVE ProcsTold
    <3>1. "markApplied" \in Pcs /\ proc[r].pr \in argo[1]
      BY <1>4, <2>2 DEF Pcs, StorePcs, Needs
    <3>2. Needs(proc[r])'
      BY <1>0, <1>1, <2>2, <3>1, GotoIs DEF Needs, FoundPcs, ClosePcs
    <3> QED
      BY <1>0, <1>2, <2>2, <3>1, <3>2, GotoTold
  <2>3. ProcsTold
    BY <1>0, <1>3, <1>7, <2>1, <2>2, DoneTold DEF CheckApp, At
  <2> QED
    BY <1>1, <2>3, Told
<1> QED
  BY <1>5, <1>6, <1>7

(* The outcome that is recorded is the one that was read: the row's number  *)
(* did not change since, and neither a merge nor a sync is ever undone.     *)
LEMMA MarkOutcomeTruth ==
  ASSUME Typed, TruthInv, PullsKept, NEW r \in Reconcilers, MarkOutcome(r) PROVE TruthInv'
<1>0. r \in Procs
  BY DEF Procs
<1>1. proc[r].pc \in {"markMerged", "markRejected", "markApplied"} /\ proc[r].pc \notin RestPcs
  BY DEF MarkOutcome, RestPcs
<1>2. /\ proc[r].key \in Keys /\ HoldsRow(proc[r].key, proc[r].stage, proc[r].pr)
      /\ Needs(proc[r]) /\ Fits(proc[r])
  BY <1>0, <1>1, WorkerKnows, Unfold, AtWork
<1>3. proc[r].stage \in {"pr_open", "merged"}
  BY <1>1, <1>2 DEF Fits
<1>4. proc[r].pr = requests[proc[r].key].pr
  BY <1>2, <1>3 DEF HoldsRow
<1>5. TableKept /\ RowsTold
  <2>1. CASE proc[r].pc = "markMerged"
    <3>1. Outcome(proc[r].pc) = "merged" /\ proc[r].stage = "pr_open" /\ Merged(requests[proc[r].key].pr)
      BY <1>2, <1>4, <2>1 DEF Outcome, Fits, Needs
    <3> QED
      BY <1>2, <3>1, StoreStill, TransitionTold, SomeStages DEF MarkOutcome
  <2>2. CASE proc[r].pc = "markRejected"
    <3>1. Outcome(proc[r].pc) = "rejected"
      BY <2>2 DEF Outcome
    <3> QED
      BY <1>2, <3>1, StoreStill, LossTold DEF MarkOutcome
  <2>3. CASE proc[r].pc = "markApplied"
    <3>1. /\ Outcome(proc[r].pc) = "applied" /\ proc[r].stage = "merged"
          /\ requests[proc[r].key].pr \in argo[1] \cap argo[2]
      BY <1>2, <1>4, <2>3 DEF Outcome, Fits, Needs
    <3> QED
      BY <1>2, <3>1, StoreStill, TransitionTold, SomeStages DEF MarkOutcome
  <2> QED
    BY <1>1, <2>1, <2>2, <2>3
<1> QED
  BY <1>0, <1>5, RepoStill, ListStill, DoneTold, Told DEF MarkOutcome

LEMMA TickEndTruth ==
  ASSUME Typed, TruthInv, PullsKept, NEW r \in Reconcilers, TickEnd(r) PROVE TruthInv'
<1>1. TableKept /\ RowsTold /\ RepoTold /\ ListsTold /\ UNCHANGED argo
  BY RowsStill, RepoStill, ListStill DEF TickEnd
<1>2. ProcsTold
  BY <1>1, KeptBy, PlainTold DEF TickEnd, PlainPcs, RestPcs, Procs
<1> QED
  BY <1>1, <1>2, Told

-------------------------------------------------------------------------------
(* Clocks, ArgoCD, people and late writes. *)

LEMMA ClockTruth ==
  ASSUME Typed, TruthInv, PullsKept,
         \/ \E r \in Reconcilers : LeaseLost(r) \/ \E k \in Keys : RecheckElapses(r, k)
         \/ \E k \in Keys : GraceExpires(k)
  PROVE  TruthInv'
<1>1. /\ RepoTold /\ ProcsTold /\ ListsTold
      /\ UNCHANGED argo
  BY RepoStill, ProcStill, ListStill DEF LeaseLost, RecheckElapses, GraceExpires, managerVars
<1>2. ASSUME NEW r \in Reconcilers, LeaseLost(r) \/ \E k \in Keys : RecheckElapses(r, k)
      PROVE  TableKept /\ RowsTold
  BY <1>2, RowsStill, StoreStill DEF LeaseLost, RecheckElapses
<1>3. ASSUME NEW k \in Keys, GraceExpires(k) PROVE TableKept /\ RowsTold
  <2>1. requests \in [Keys -> Row] /\ intents' = intents
    BY <1>3, Unfold DEF StoreTypeOK, GraceExpires
  <2>2. \A j \in Keys : requests'[j].stage = requests[j].stage /\ requests'[j].pr = requests[j].pr
    BY <1>3, <2>1 DEF GraceExpires, Row
  <2> QED
    BY <2>1, <2>2 DEF TableKept, RowsTold, RowExists
<1> QED
  BY <1>1, <1>2, <1>3, Told

LEMMA ArgoSyncsTruth ==
  ASSUME Typed, TruthInv, PullsKept, NEW i \in 1..2, ArgoSyncs(i) PROVE TruthInv'
<1>1. TableKept /\ RowsTold /\ RepoTold /\ ProcsTold /\ ListsTold /\ UNCHANGED prs
  BY StoreStill, RepoStill, ProcStill, ListStill DEF ArgoSyncs, managerVars, repoVars
<1>2. \A j \in 1..2 : argo[j] \subseteq argo'[j]
  BY LoopTyped DEF ArgoSyncs, TruthInv, Merged
<1>3. ArgoTold
  BY <1>1, LoopTyped DEF ArgoSyncs, ArgoTold, Merged
<1> QED
  BY <1>1, <1>2, <1>3, Preserves DEF Kept

(* GitHub changes on its own. *)
LEMMA RepoTruth ==
  ASSUME Typed, TruthInv, PullsKept, UNCHANGED <<storeVars, managerVars, argo>>, RepoTold
  PROVE  TruthInv'
  BY StoreStill, ProcStill, ListStill, Told DEF managerVars

LEMMA PeopleTruth ==
  ASSUME Typed, TruthInv, PullsKept, Reviewer \/ Meddler PROVE TruthInv'
<1>1. prs \in [PrIds -> PullRequest] /\ branches \in [Branches -> Content]
  BY Unfold DEF RepoTypeOK
<1>2. ASSUME NEW n \in PrIds, HumanMerges(n) \/ HumanCloses(n) \/ HumanReopens(n) PROVE RepoTold
  <2>1. /\ prs'[n].closer \in {"human", "nobody"}
        /\ \A m \in PrIds \ {n} : prs'[m] = prs[m]
    BY <1>1, <1>2 DEF HumanMerges, HumanCloses, HumanReopens, PullRequest
  <2>2. PullsTold
    BY <2>1 DEF PullsTold, PullTruth
  <2> QED
    BY <1>2, <2>2 DEF HumanMerges, HumanCloses, HumanReopens, RepoTold, WiresTold, BranchesTold
<1>3. ASSUME NEW b \in Branches, HumanPushes(b) PROVE RepoTold
  BY <1>1, <1>3 DEF HumanPushes, RepoTold, WiresTold, PullsTold, BranchesTold
<1>4. ASSUME NEW b \in Branches, HumanDeletesBranch(b) PROVE RepoTold
  <2>1. \A m \in PrIds : prs'[m] = prs[m] \/ prs'[m].closer = "human"
    BY <1>1, <1>4 DEF HumanDeletesBranch, PullRequest
  <2>2. PullsTold
    BY <2>1 DEF PullsTold, PullTruth
  <2> QED
    BY <1>1, <1>4, <2>2 DEF HumanDeletesBranch, RepoTold, WiresTold, BranchesTold
<1> QED
  BY <1>2, <1>3, <1>4, RepoTruth DEF Reviewer, Meddler

LEMMA LateWriteTruth == ASSUME Typed, TruthInv, PullsKept, LateWrite PROVE TruthInv'
<1>1. PICK w \in inflight : CarryOut(w) \/ Vanish(w)
  BY DEF LateWrite
<1>2. /\ w.branch \in Branches /\ WireTruth(w)
      /\ prs \in [PrIds -> PullRequest] /\ branches \in [Branches -> Content]
  BY Unfold DEF RepoTypeOK, Write, TruthInv
<1>3. WiresTold
  BY <1>1 DEF CarryOut, Vanish, WiresTold
<1>4. UNCHANGED storeVars /\ Kept
  BY StoreStill, KeptBy DEF LateWrite
<1>5. PullsTold
  <2>1. ASSUME NEW n \in PrIds, OpenPull(w.branch, n) PROVE PullsTold
    <3>1. prs'[n].closer = "nobody" /\ \A m \in PrIds \ {n} : prs'[m] = prs[m]
      BY <1>2, <2>1 DEF OpenPull
    <3> QED
      BY <3>1 DEF PullsTold, PullTruth
  <2>2. ASSUME w.op = "close", ClosePr(w.pr, w.by) PROVE PullsTold
    <3>1. w.pr \in Adoptable(w.branch) /\ (w.by = "cancel" => IntentOn(w.branch)')
      BY <1>2, <1>4, <2>2, OnKept DEF WireTruth
    <3> QED
      BY <2>2, <3>1, CloseTold
  <2> QED
    BY <1>1, <2>1, <2>2 DEF CarryOut, Vanish, PullsTold
<1>6. BranchesTold
  <2>1. \A b \in Branches : branches'[b] = branches[b] \/ RowOn(b)
    BY <1>1, <1>2 DEF CarryOut, Vanish, CreateRef, PutContents, WireTruth
  <2> QED
    BY <1>4, <2>1, OnKept DEF BranchesTold
<1> QED
  BY <1>3, <1>5, <1>6, RepoTruth DEF LateWrite, RepoTold

-------------------------------------------------------------------------------
(* TruthInv is an invariant. *)

LEMMA TruthInit == Init => TruthInv
<1> SUFFICES ASSUME Init PROVE TruthInv
  OBVIOUS
<1>1. \A k \in Keys : requests[k] = NoRow
  BY DEF Init, StoreInit
<1>2. \A k \in Keys : RowTruth(k)
  BY <1>1 DEF RowTruth, NoRow, Own
<1>3. \A p \in Procs : Knows(proc[p])
  BY DEF Init, ManagerInit, Resting, Knows
<1>4. \A n \in PrIds : prs[n].closer = "nobody"
  <2>1. PICK age \in Ages :
          prs = [n \in PrIds |-> IF n = 1 /\ Left(age) # {} THEN LeftPull(age) ELSE NoPull]
    BY DEF Init, RepoInit
  <2>2. NoPull.closer = "nobody" /\ LeftPull(age).closer = "nobody"
    BY DEF NoPull, LeftPull
  <2> QED
    BY <2>1, <2>2
<1>5. \A r \in Reconcilers : todo[r] = {}
  BY DEF Init, ManagerInit
<1>6. inflight = {} /\ \A b \in Branches \ Leftover : branches[b] = "none"
  BY DEF Init, RepoInit, Left
<1>7. \A i \in 1..2 : argo[i] = {}
  BY DEF Init, ReconcilerInit
<1> QED
  BY <1>2, <1>3, <1>4, <1>5, <1>6, <1>7 DEF TruthInv, PullTruth

LEMMA WriterStepTruth ==
  ASSUME Typed, TruthInv, PullsKept, NEW p \in Procs, UNCHANGED argo,
         CreateChangePr(p) \/ OpenPr(p) \/ ReadLostRow(p) \/ CloseOrphanPr(p) \/ RecordRefusal(p)
  PROVE  TruthInv'
  BY WriteBranchTruth, ReadContentsTruth, PostPullsTruth, OpenPrTruth, ReadLostRowTruth,
     CloseOrphanPrTruth, EndsTruth DEF CreateChangePr

LEMMA NextTruth == ASSUME Typed, TruthInv, [Next]_vars PROVE TruthInv'
<1>0. PullsKept
  BY NextPulls
<1>1. ASSUME NEW p \in Handlers, NEW k \in Keys, SubmitRequest(p, k) \/ CancelStart(p, k),
             UNCHANGED argo
      PROVE  TruthInv'
  BY <1>0, <1>1, SubmitRequestTruth, CancelStartTruth DEF Procs
<1>2. ASSUME NEW p \in Handlers, HandlerStep(p) PROVE TruthInv'
  BY <1>0, <1>2, WriterStepTruth, SubmitUnknownTruth, CancelIntentTruth, CancelFindPrTruth,
     CancelClosePrTruth, CancelCommitTruth DEF HandlerStep, RouteStep, Procs
<1>3. ASSUME NEW r \in Reconcilers, ReconcilerStep(r) PROVE TruthInv'
  <2>1. CASE TickStep(r)
    BY <1>0, <2>1, TakeRecordTruth, FindTruth, LookTruth, RecoverEndsTruth, RecoverTouchTruth,
       MarkOutcomeTruth, SweepListTruth, SweepTakeTruth, TickEndTruth DEF TickStep
  <2> QED
    BY <1>0, <1>3, <2>1, WriterStepTruth DEF ReconcilerStep, Procs
<1>4. ASSUME NEW r \in Reconcilers, TickStart(r) \/ SweepListFails(r) \/ LeaseLost(r) PROVE TruthInv'
  BY <1>0, <1>4, TickStartTruth, SweepListTruth, ClockTruth
<1>5. ASSUME NEW p \in Procs, Failure(p) PROVE TruthInv'
  BY <1>0, <1>5, WriteUnknownTruth, ReadContentsTruth, CloseUnknownTruth, EndsTruth, CrashTruth
  DEF Failure
<1>6. ASSUME NEW k \in Keys, GraceExpires(k) \/ \E r \in Reconcilers : RecheckElapses(r, k)
      PROVE  TruthInv'
  BY <1>0, <1>6, ClockTruth
<1>7. ASSUME NEW i \in 1..2, ArgoSyncs(i) PROVE TruthInv'
  BY <1>0, <1>7, ArgoSyncsTruth
<1>8. CASE Reviewer \/ Meddler \/ LateWrite
  BY <1>0, <1>8, PeopleTruth, LateWriteTruth
<1>9. CASE UNCHANGED vars
  BY <1>0, <1>9, RepoStill, RepoTruth DEF vars
<1> QED
  BY <1>1, <1>2, <1>3, <1>4, <1>5, <1>6, <1>7, <1>8, <1>9 DEF Next

LEMMA TruthAlways == Spec => []TruthInv
<1>1. Typed /\ TruthInv /\ [Next]_vars => TruthInv'
  BY NextTruth
<1> QED
  BY <1>1, TruthInit, TypedAlways, PTL DEF Spec

(* A pull request that a row or a process works with is on the request's    *)
(* own branch and not older than the request, however many processes        *)
(* recover, cancel and sweep at once (D-MSSO-18l/19a).                      *)
THEOREM WorksOnOwnPrAlways == Spec => []WorksOnOwnPr
<1>1. TruthInv => WorksOnOwnPr
  BY DEF TruthInv, WorksOnOwnPr, RowTruth, Knows, HoldsRow, PullTruth
<1> QED
  BY <1>1, TruthAlways, PTL

(* A row says merged or applied only if its own pull request was merged. *)
THEOREM MergedIsMergedAlways == Spec => []MergedIsMerged
<1>1. TruthInv => MergedIsMerged
  BY DEF TruthInv, MergedIsMerged, RowTruth, Merged
<1> QED
  BY <1>1, TruthAlways, PTL

(* A row says applied only if both Applications run a revision with the     *)
(* merge, although they are asked one after the other (D-MSSO-17).          *)
THEOREM AppliedIsDeployedAlways == Spec => []AppliedIsDeployed
<1>1. TruthInv => AppliedIsDeployed
  BY DEF TruthInv, AppliedIsDeployed, RowTruth
<1> QED
  BY <1>1, TruthAlways, PTL

(* Fail closed (D-MSSO-11/18g): GitHub is changed, or about to be changed   *)
(* by a write that outlived its client, only after the request, or the      *)
(* intent to cancel it, was committed.                                      *)
THEOREM AuditedAlways == Spec => []Audited
<1>1. TruthInv => Audited
  BY DEF TruthInv, Audited, NothingUnaudited, CancelIsAudited, WireTruth, PullTruth, RowOn, IntentOn
<1> QED
  BY <1>1, TruthAlways, PTL

-------------------------------------------------------------------------------
(***************************************************************************)
(* No cancel fails a row under its writer, if the grace period outlasts    *)
(* every writer, for any number of keys, processes and disturbances.       *)
(*                                                                         *)
(* Three things keep a cancel and a writer of one row apart (WriterInv).   *)
(* While the submitter writes, nobody else works on the row: reconcilers   *)
(* that list it find its first version, inside the grace period.  A        *)
(* recovery that writes again touches the row first, so its grace period   *)
(* restarts, and a version that a cancel read before is no longer current. *)
(* Most steps are quiet: they leave stages and grace periods alone and     *)
(* start neither a writer nor a cancel.                                    *)
(***************************************************************************)

WriterPcs == WritePcs \cup {"opened", "unknown", "refused"}

GraceInv == WriterInGrace /\ SubmitterAlone /\ CancelAlone

(* Process q neither takes a row nor begins to write, to cancel or to sweep. *)
Calm(q) ==
  /\ proc'[q].key \in {proc[q].key, NoKey}
  /\ proc'[q].key # NoKey => proc'[q].stage = proc[q].stage
  /\ proc'[q].key # NoKey /\ proc'[q].pc \in WriterPcs => proc[q].pc \in WriterPcs
  /\ proc'[q].key # NoKey /\ proc'[q].pc \in CancelPcs => proc[q].pc \in CancelPcs
  /\ q \in Reconcilers /\ proc'[q].pc \in SweepPcs => proc[q].pc \in SweepPcs \/ todo[q] = {}

(* A listing shrinks, and its rows keep their version. *)
ListsCalm ==
  \A r \in Reconcilers : \A s \in todo'[r] :
    /\ s \in todo[r]
    /\ <<r, s.key>> \in sameVersion => <<r, s.key>> \in sameVersion' \/ proc[r].key = s.key

VersionsCalm == \A h \in Handlers, k \in Keys : <<h, k>> \in sameVersion' => <<h, k>> \in sameVersion

(* Rows keep their stage, and a grace period does not end under a writer. *)
RowsCalm ==
  \A k \in Keys :
    /\ requests'[k].stage = requests[k].stage
    /\ \/ requests'[k].fresh = requests[k].fresh
       \/ GraceCoversWrite => \A q \in Procs : ~Writing(q, k)

(* A tame process may take a row. *)
Tame(q) ==
  /\ proc'[q].key # NoKey /\ proc'[q].pc \in WriterPcs =>
       proc[q].pc \in WriterPcs /\ proc'[q].key = proc[q].key
  /\ proc'[q].key # NoKey /\ proc'[q].pc \in CancelPcs =>
       proc[q].pc \in CancelPcs /\ proc'[q].key = proc[q].key /\ proc'[q].stage = proc[q].stage

(* Nobody takes, and no listing shows another version of, a row under its   *)
(* submitter.                                                               *)
Apart ==
  \A h \in Handlers, k \in Keys : Writing(h, k) =>
    /\ \A q \in Procs \ {h} : proc'[q].key # k
    /\ \A r \in Reconcilers : \A s \in todo'[r] :
         s.key = k => s.stage = "submitted" /\ <<r, k>> \in sameVersion'

Quiet == RowsCalm /\ ListsCalm /\ VersionsCalm /\ \A q \in Procs : Calm(q)

LEMMA WritingIs ==
  ASSUME NEW p, NEW k
  PROVE  /\ Writing(p, k) <=> (proc[p].key = k /\ proc[p].pc \in WriterPcs)
         /\ Writing(p, k)' <=> (proc'[p].key = k /\ proc'[p].pc \in WriterPcs)
  BY DEF Writing, WriterPcs

LEMMA CalmTame == ASSUME NEW q, Calm(q) PROVE Tame(q)
  BY DEF Calm, Tame

LEMMA TameWrites ==
  ASSUME NEW q \in Procs, Tame(q), NEW k \in Keys, Writing(q, k)' PROVE Writing(q, k)
<1>1. k # NoKey
  BY WriterAssumption
<1> QED
  BY <1>1, WritingIs DEF Tame

LEMMA CalmWrites ==
  ASSUME NEW q \in Procs, Calm(q), NEW k \in Keys, Writing(q, k)' PROVE Writing(q, k)
  BY CalmTame, TameWrites

LEMMA SweepsKept ==
  ASSUME WriterInv, ListsCalm, \A q \in Procs : Calm(q) PROVE SweepsLost'
  BY DEF WriterInv, SweepsLost, ListsCalm, Calm, Procs

LEMMA CancelCalm ==
  ASSUME Typed, Typed', CancelAlone, VersionsCalm, \A q \in Procs : Tame(q) PROVE CancelAlone'
<1> SUFFICES ASSUME NEW h \in Handlers, proc'[h].pc \in CancelPcs,
                    proc'[h].stage \in {"submitted", "unknown_recovering"},
                    <<h, proc'[h].key>> \in sameVersion',
                    NEW q \in Procs, Writing(q, proc[h].key)'
             PROVE  FALSE
  BY DEF CancelAlone
<1>0. h \in Procs /\ Tame(h) /\ Tame(q)
  BY DEF Procs
<1>1. proc'[h].key \in Keys
  BY <1>0 DEF Typed, ProcInv, Fits, RestPcs, CancelPcs
<1>2. /\ proc'[h].key = proc[h].key /\ proc[h].pc \in CancelPcs /\ proc'[h].stage = proc[h].stage
  BY <1>0, <1>1, WriterAssumption DEF Tame
<1>3. <<h, proc[h].key>> \in sameVersion
  BY <1>1, <1>2 DEF VersionsCalm
<1>4. Writing(q, proc[h].key)
  <2>1. PICK k \in Keys : k = proc'[h].key
    BY <1>1
  <2>2. Writing(q, k)'
    BY <2>1 DEF Writing
  <2>3. Writing(q, k)
    BY <1>0, <2>2, TameWrites
  <2> QED
    BY <1>2, <2>1, <2>3
<1> QED
  BY <1>2, <1>3, <1>4 DEF CancelAlone

(* It is enough that everybody is tame and submitters stay alone. *)
LEMMA TameKeeps ==
  ASSUME Typed, Typed', WriterInv, RowsCalm, VersionsCalm, \A q \in Procs : Tame(q), SweepsLost',
         GraceCoversWrite /\ GraceInv => Apart
  PROVE  WriterInv'
<1>1. ASSUME GraceCoversWrite, GraceInv PROVE GraceInv'
  <2>1. WriterInGrace'
    <3> SUFFICES ASSUME NEW p \in Procs, NEW k \in Keys, Writing(p, k)'
                 PROVE  /\ requests'[k].stage # "unknown_recovering"
                        /\ requests'[k].stage = "submitted" => requests'[k].fresh
      BY DEF WriterInGrace
    <3>1. Writing(p, k)
      BY TameWrites
    <3> QED
      BY <1>1, <3>1 DEF GraceInv, WriterInGrace, RowsCalm
  <2>2. SubmitterAlone'
    <3> SUFFICES ASSUME NEW h \in Handlers, NEW k \in Keys, Writing(h, k)'
                 PROVE  /\ requests'[k].stage = "submitted"
                        /\ \A q \in Procs \ {h} : proc'[q].key # k
                        /\ \A r \in Reconcilers : \A s \in todo'[r] :
                             s.key = k => s.stage = "submitted" /\ <<r, k>> \in sameVersion'
      BY DEF SubmitterAlone
    <3>1. Writing(h, k)
      BY TameWrites DEF Procs
    <3>2. requests'[k].stage = "submitted"
      BY <1>1, <3>1 DEF GraceInv, SubmitterAlone, RowsCalm
    <3> QED
      BY <1>1, <3>1, <3>2 DEF Apart
  <2>3. CancelAlone'
    BY <1>1, CancelCalm DEF GraceInv
  <2> QED
    BY <2>1, <2>2, <2>3 DEF GraceInv
<1> QED
  BY <1>1 DEF WriterInv, GraceInv

LEMMA QuietKeeps ==
  ASSUME Typed, Typed', WriterInv, Quiet PROVE WriterInv'
<1>1. SweepsLost' /\ \A q \in Procs : Tame(q)
  BY SweepsKept, CalmTame DEF Quiet
<1>2. ASSUME GraceInv PROVE Apart
  <2> SUFFICES ASSUME NEW h \in Handlers, NEW k \in Keys, Writing(h, k)
               PROVE  /\ \A q \in Procs \ {h} : proc'[q].key # k
                      /\ \A r \in Reconcilers : \A s \in todo'[r] :
                           s.key = k => s.stage = "submitted" /\ <<r, k>> \in sameVersion'
    BY DEF Apart
  <2>1. /\ \A q \in Procs \ {h} : proc[q].key # k
        /\ \A r \in Reconcilers : \A s \in todo[r] :
             s.key = k => s.stage = "submitted" /\ <<r, k>> \in sameVersion
    BY <1>2 DEF GraceInv, SubmitterAlone
  <2>2. \A q \in Procs \ {h} : proc'[q].key # k
    BY <2>1, WriterAssumption DEF Quiet, Calm
  <2>3. \A r \in Reconcilers : r \in Procs \ {h}
    BY StoreAssumption DEF Procs
  <2> QED
    BY <2>1, <2>2, <2>3 DEF Quiet, ListsCalm
<1> QED
  BY <1>1, <1>2, TameKeeps DEF Quiet

-------------------------------------------------------------------------------
(* What keeps the processes calm. *)

LEMMA DoneIs ==
  ASSUME Typed, NEW p \in Procs, Done(p)
  PROVE  /\ proc'[p].key = NoKey /\ \A q \in Procs \ {p} : proc'[q] = proc[q]
         /\ proc'[p].pc \in SweepPcs => proc[p].pc \in SweepPcs
  BY Unfold DEF Done, Walking, Resting, AfterRecord, SweepPcs

LEMMA StaysCalm == ASSUME NEW q, proc'[q] = proc[q] PROVE Calm(q)
  BY DEF Calm

LEMMA DoneCalm == ASSUME Typed, NEW p \in Procs, Done(p) PROVE \A q \in Procs : Calm(q)
<1>1. Calm(p)
  BY DoneIs DEF Calm
<1> QED
  BY <1>1, DoneIs, StaysCalm

(* The places between which a process moves without starting anything. *)
SameWork(pc, next) ==
  /\ next \in WriterPcs => pc \in WriterPcs
  /\ next \in CancelPcs => pc \in CancelPcs
  /\ next \in SweepPcs => pc \in SweepPcs

LEMMA GotoCalm ==
  ASSUME Typed, NEW p \in Procs, NEW pc \in Pcs, SameWork(proc[p].pc, pc),
         Goto(p, pc) \/ \E n \in Nat : GotoWith(p, pc, n)
  PROVE  \A q \in Procs : Calm(q)
<1>0. proc \in [Procs -> Process]
  BY Unfold DEF Walking
<1>1. /\ proc'[p].pc = pc /\ proc'[p].key = proc[p].key /\ proc'[p].stage = proc[p].stage
      /\ proc' = [proc EXCEPT ![p] = proc'[p]]
  BY GotoIs, GotoWithIs
<1>2. Calm(p)
  BY <1>1 DEF Calm, SameWork
<1>3. \A q \in Procs \ {p} : proc'[q] = proc[q]
  BY <1>0, <1>1
<1> QED
  BY <1>2, <1>3, StaysCalm

LEMMA StoreCalm == ASSUME UNCHANGED storeVars, UNCHANGED todo PROVE RowsCalm /\ ListsCalm /\ VersionsCalm
  BY DEF storeVars, RowsCalm, ListsCalm, VersionsCalm

(* A process that gives up a row gives up the version it read. *)
LEMMA ForgetCalm ==
  ASSUME NEW p \in Procs, sameVersion' = sameVersion \ {<<p, proc[p].key>>}, UNCHANGED <<requests, todo>>
  PROVE  RowsCalm /\ ListsCalm /\ VersionsCalm
  BY DEF RowsCalm, ListsCalm, VersionsCalm

(* A process at work goes on or ends, and the store is as it was. *)
LEMMA WorkQuiet ==
  ASSUME Typed, NEW p \in Procs, UNCHANGED <<storeVars, todo>>, NEW S \in SUBSET Pcs,
         \A pc \in S : SameWork(proc[p].pc, pc),
         \/ Done(p)
         \/ \E pc \in S : Goto(p, pc) \/ \E n \in Nat : GotoWith(p, pc, n)
  PROVE  Quiet
<1>1. \A q \in Procs : Calm(q)
  BY DoneCalm, GotoCalm
<1> QED
  BY <1>1, StoreCalm DEF Quiet

-------------------------------------------------------------------------------
(* The quiet steps. *)

LEMMA WriteQuiet ==
  ASSUME Typed, NEW p \in Procs, CreateChangePr(p) \/ WriteUnknown(p) \/ WriteRefused(p) PROVE Quiet
<1>1. proc[p].pc \in WritePcs /\ UNCHANGED <<storeVars, todo>>
  BY DEF CreateChangePr, PostRef, ReadContents, WriteContents, PostPulls, WriteUnknown, WriteRefused,
     At, WritePcs
<1>2. \E pc \in WriterPcs : Goto(p, pc) \/ \E n \in Nat : GotoWith(p, pc, n)
  BY PrNumbers DEF CreateChangePr, PostRef, ReadContents, WriteContents, PostPulls, WriteUnknown,
     WriteRefused, WriterPcs, WritePcs
<1>3. WriterPcs \subseteq Pcs /\ \A pc \in WriterPcs : SameWork(proc[p].pc, pc)
  BY <1>1 DEF WriterPcs, WritePcs, Pcs, StorePcs, SameWork, CancelPcs, SweepPcs
<1> QED
  BY <1>1, <1>2, <1>3, WorkQuiet

LEMMA OrphanQuiet ==
  ASSUME Typed, NEW p \in Procs, ReadLostRow(p) \/ CloseOrphanPr(p) PROVE Quiet
<1>1. UNCHANGED <<storeVars, todo>> /\ (Done(p) \/ \E pc \in {"closeOrphan"} : Goto(p, pc))
  BY DEF ReadLostRow, CloseOrphanPr
<1>2. {"closeOrphan"} \in SUBSET Pcs /\ \A pc \in {"closeOrphan"} : SameWork(proc[p].pc, pc)
  BY DEF Pcs, ClosePcs, SameWork, WriterPcs, WritePcs, CancelPcs, SweepPcs
<1> QED
  BY <1>1, <1>2, WorkQuiet

(* A compare-and-set that misses. *)
LEMMA MissQuiet ==
  ASSUME Typed, NEW p \in Procs, UNCHANGED <<storeVars, todo>>, Done(p) \/ Goto(p, "lost") PROVE Quiet
<1>1. {"lost"} \in SUBSET Pcs /\ \A pc \in {"lost"} : SameWork(proc[p].pc, pc)
  BY DEF Pcs, StorePcs, SameWork, WriterPcs, WritePcs, CancelPcs, SweepPcs
<1> QED
  BY <1>1, WorkQuiet

LEMMA GiveUpQuiet ==
  ASSUME Typed, NEW p \in Procs, CallFails(p) \/ CloseUnknown(p) \/ (CancelEnds(p) /\ UNCHANGED todo)
  PROVE  Quiet
  BY ForgetCalm, DoneCalm DEF CallFails, CloseUnknown, CancelEnds, Quiet

LEMMA CrashQuiet == ASSUME Typed, NEW p \in Procs, Crash(p) PROVE Quiet
<1>1. RowsCalm /\ VersionsCalm
  BY DEF Crash, RowsCalm, VersionsCalm
<1>2. ListsCalm
  BY DEF Crash, ListsCalm
<1>3. /\ proc'[p].key = NoKey /\ proc'[p].pc = "idle"
      /\ \A q \in Procs \ {p} : proc'[q] = proc[q]
  BY Unfold DEF Crash, Walking, Resting
<1>4. Calm(p)
  BY <1>3 DEF Calm, SweepPcs
<1> QED
  BY <1>1, <1>2, <1>3, <1>4, StaysCalm DEF Quiet

LEMMA CancelQuiet ==
  ASSUME Typed, NEW p \in Procs, CancelIntent(p) \/ CancelFindPr(p) \/ CancelClosePr(p) PROVE Quiet
<1>0. CancelPcs \in SUBSET Pcs
  BY DEF CancelPcs, Pcs, StorePcs, ReadPcs, ClosePcs
<1>1. proc[p].pc \in CancelPcs
  BY DEF CancelIntent, CancelFindPr, CancelClosePr, At, CancelPcs
<1>2. \A pc \in CancelPcs : SameWork(proc[p].pc, pc)
  BY <1>1 DEF CancelPcs, SameWork, WriterPcs, WritePcs, SweepPcs
<1>3. CASE CancelIntent(p)
  <2>1. RowsCalm /\ ListsCalm /\ VersionsCalm
    BY <1>3 DEF CancelIntent, RowsCalm, ListsCalm, VersionsCalm
  <2>2. "cancelFind" \in Pcs /\ SameWork(proc[p].pc, "cancelFind")
    BY <1>0, <1>2 DEF CancelPcs
  <2> QED
    BY <1>3, <2>1, <2>2, GotoCalm DEF CancelIntent, Quiet
<1>4. CASE CancelFindPr(p)
  <2>1. \/ CancelEnds(p) /\ UNCHANGED todo
        \/ /\ UNCHANGED <<storeVars, todo>>
           /\ \E pc \in CancelPcs : Goto(p, pc) \/ \E n \in Nat : GotoWith(p, pc, n)
    BY <1>4, PrNumbers DEF CancelFindPr, CancelPcs, NoPr
  <2> QED
    BY <1>0, <1>2, <2>1, GiveUpQuiet, WorkQuiet
<1>5. CASE CancelClosePr(p)
  <2>1. UNCHANGED <<storeVars, todo>> /\ \E pc \in CancelPcs : Goto(p, pc)
    BY <1>5 DEF CancelClosePr, CancelPcs
  <2> QED
    BY <1>0, <1>2, <2>1, WorkQuiet
<1> QED
  BY <1>3, <1>4, <1>5

(* A reconciler reads GitHub or ArgoCD. *)
LEMMA ReadQuiet ==
  ASSUME Typed, NEW r \in Reconcilers,
         \/ RecoverFindPr(r) \/ RecoverFindBranch(r) \/ RecoverUnknown(r) \/ CheckPr(r) \/ CheckApp(r)
         \/ SweepFindPr(r)
  PROVE  Quiet
<1> DEFINE S == IF proc[r].pc = "sweepFind" THEN {"sweepClose"}
                ELSE {"findBranch", "found", "adopt", "notFound", "touch", "markMerged", "markRejected",
                      "app2", "markApplied"}
<1>0. r \in Procs
  BY DEF Procs
<1>1. S \in SUBSET Pcs
  BY DEF Pcs, StorePcs, ReadPcs, ClosePcs
<1>2. \A pc \in S : SameWork(proc[r].pc, pc)
  BY DEF SameWork, WriterPcs, WritePcs, CancelPcs, SweepPcs
<1>3. UNCHANGED <<storeVars, todo>>
  BY DEF RecoverFindPr, RecoverFindBranch, RecoverUnknown, CheckPr, CheckApp, SweepFindPr
<1>4. Done(r) \/ \E pc \in S : Goto(r, pc) \/ \E n \in Nat : GotoWith(r, pc, n)
  BY PrNumbers DEF RecoverFindPr, RecoverFindBranch, RecoverUnknown, CheckPr, CheckApp, SweepFindPr, At
<1> HIDE DEF S
<1> QED
  BY <1>0, <1>1, <1>2, <1>3, <1>4, WorkQuiet

(* The tick goes from one loop to the next, or ends. *)
LEMMA TickQuiet ==
  ASSUME Typed, NEW r \in Reconcilers, SweepListFails(r) \/ TickEnd(r) PROVE Quiet
<1>0. r \in Procs /\ todo[r] = {} /\ proc \in [Procs -> Process]
  BY Unfold DEF Procs, SweepListFails, TickEnd, Walking
<1>1. RowsCalm /\ ListsCalm /\ VersionsCalm
  BY DEF SweepListFails, TickEnd, storeVars, RowsCalm, ListsCalm, VersionsCalm
<1>2. PICK pc \in {"sweepNext", "idle"} : Goto(r, pc)
  BY DEF SweepListFails, TickEnd
<1>3. pc \in Pcs
  BY DEF Pcs
<1>4. /\ proc'[r].pc = pc /\ proc'[r].key = proc[r].key /\ proc'[r].stage = proc[r].stage
      /\ proc' = [proc EXCEPT ![r] = proc'[r]]
  BY <1>0, <1>2, <1>3, GotoIs
<1>5. Calm(r)
  BY <1>0, <1>4 DEF Calm, WriterPcs, WritePcs, CancelPcs
<1>6. \A q \in Procs \ {r} : proc'[q] = proc[q]
  BY <1>0, <1>4
<1> QED
  BY <1>1, <1>5, <1>6, StaysCalm DEF Quiet

(* Steps of nobody in particular. *)
LEMMA OutsideQuiet ==
  ASSUME \/ \E r \in Reconcilers : LeaseLost(r) \/ \E k \in Keys : RecheckElapses(r, k)
         \/ \E i \in 1..2 : ArgoSyncs(i)
         \/ Reviewer \/ Meddler \/ LateWrite \/ UNCHANGED vars
  PROVE  Quiet
<1>1. UNCHANGED <<requests, sameVersion, proc, todo>>
  BY DEF LeaseLost, RecheckElapses, ArgoSyncs, Reviewer, Meddler, LateWrite, vars, storeVars, managerVars
<1> QED
  BY <1>1, StaysCalm DEF Quiet, RowsCalm, ListsCalm, VersionsCalm

-------------------------------------------------------------------------------
(* Rows move. *)

LEMMA TransitionIs ==
  ASSUME Typed, NEW k \in Keys, NEW e, NEW s, NEW n, Transition(k, e, s, n)
  PROVE  /\ requests[k].stage = e /\ requests'[k].stage = s /\ requests'[k].fresh
         /\ \A j \in Keys \ {k} : requests'[j] = requests[j]
         /\ \A p \in Procs, j \in Keys : <<p, j>> \in sameVersion' <=> <<p, j>> \in sameVersion /\ j # k
<1>1. requests \in [Keys -> Row]
  BY Unfold DEF StoreTypeOK
<1> QED
  BY <1>1 DEF Transition, Hits, Row

(* The process that moved the row is done with it. *)
LEMMA MoveKeeps ==
  ASSUME Typed, Typed', WriterInv, NEW p \in Procs, NEW k \in Keys, k = proc[p].key,
         NEW e, NEW s, NEW n, Transition(k, e, s, n), Done(p), UNCHANGED todo,
         s = "unknown_recovering" => p \in Handlers /\ Writing(p, k)
  PROVE  WriterInv'
<1>1. \A q \in Procs : Calm(q)
  BY DoneCalm
<1>2. VersionsCalm
  BY TransitionIs DEF VersionsCalm, Procs
<1>3. SweepsLost'
  BY DoneIs DEF WriterInv, SweepsLost, Procs
<1>4. ASSUME GraceCoversWrite, GraceInv PROVE GraceInv'
  <2>1. WriterInGrace'
    <3> SUFFICES ASSUME NEW q \in Procs, NEW j \in Keys, Writing(q, j)'
                 PROVE  /\ requests'[j].stage # "unknown_recovering"
                        /\ requests'[j].stage = "submitted" => requests'[j].fresh
      BY DEF WriterInGrace
    <3>1. Writing(q, j) /\ q # p /\ proc[q].key = j
      BY <1>1, CalmWrites, DoneIs, WritingIs, WriterAssumption
    <3>2. CASE j = k
      <4>1. s # "unknown_recovering"
        BY <1>4, <3>1, <3>2 DEF GraceInv, SubmitterAlone
      <4> QED
        BY <3>2, <4>1, TransitionIs
    <3>3. CASE j # k
      BY <1>4, <3>1, <3>3, TransitionIs DEF GraceInv, WriterInGrace
    <3> QED
      BY <3>2, <3>3
  <2>2. SubmitterAlone'
    <3> SUFFICES ASSUME NEW h \in Handlers, NEW j \in Keys, Writing(h, j)'
                 PROVE  /\ requests'[j].stage = "submitted"
                        /\ \A q \in Procs \ {h} : proc'[q].key # j
                        /\ \A r \in Reconcilers : \A x \in todo'[r] :
                             x.key = j => x.stage = "submitted" /\ <<r, j>> \in sameVersion'
      BY DEF SubmitterAlone
    <3>1. Writing(h, j) /\ h # p
      BY <1>1, CalmWrites, DoneIs, WritingIs, WriterAssumption DEF Procs
    <3>2. /\ requests[j].stage = "submitted" /\ \A q \in Procs \ {h} : proc[q].key # j
          /\ \A r \in Reconcilers : \A x \in todo[r] :
               x.key = j => x.stage = "submitted" /\ <<r, j>> \in sameVersion
      BY <1>4, <3>1 DEF GraceInv, SubmitterAlone
    <3>3. j # k
      BY <3>1, <3>2
    <3>4. \A q \in Procs \ {h} : proc'[q].key # j
      BY <1>1, <3>2, WriterAssumption DEF Calm
    <3> QED
      BY <3>2, <3>3, <3>4, TransitionIs DEF Procs
  <2>3. CancelAlone'
    BY <1>1, <1>2, <1>4, CalmTame, CancelCalm DEF GraceInv
  <2> QED
    BY <2>1, <2>2, <2>3 DEF GraceInv
<1> QED
  BY <1>3, <1>4 DEF WriterInv, GraceInv

LEMMA MoveOrMiss ==
  ASSUME Typed, Typed', WriterInv, NEW p \in Procs, proc[p].pc \notin RestPcs, Done(p), UNCHANGED todo,
         NEW s, NEW n, s = "unknown_recovering" => p \in Handlers /\ Writing(p, proc[p].key),
         Transition(proc[p].key, proc[p].stage, s, n) \/ UNCHANGED storeVars
  PROVE  WriterInv'
<1>1. proc[p].key \in Keys
  BY Unfold, AtWork
<1> QED
  BY <1>1, MoveKeeps, MissQuiet, QuietKeeps

LEMMA RecordKeeps ==
  ASSUME Typed, Typed', WriterInv, NEW p \in Procs, OpenPr(p) \/ RecordRefusal(p) PROVE WriterInv'
<1>1. proc[p].pc \notin RestPcs /\ UNCHANGED todo
  BY DEF OpenPr, RecordRefusal, At, RestPcs
<1>2. CASE UNCHANGED storeVars /\ (Done(p) \/ Goto(p, "lost"))
  BY <1>1, <1>2, MissQuiet, QuietKeeps
<1>3. CASE Transition(proc[p].key, proc[p].stage, "pr_open", proc[p].found) /\ Done(p)
  <2>1. PICK s : s = "pr_open"
    OBVIOUS
  <2> QED
    BY <1>1, <1>3, <2>1, MoveOrMiss
<1>4. CASE Transition(proc[p].key, proc[p].stage, "failed", NoPr) /\ Done(p)
  <2>1. PICK s : s = "failed"
    OBVIOUS
  <2> QED
    BY <1>1, <1>4, <2>1, MoveOrMiss
<1> QED
  BY <1>2, <1>3, <1>4 DEF OpenPr, RecordRefusal

LEMMA SubmitUnknownKeeps ==
  ASSUME Typed, Typed', WriterInv, NEW p \in Handlers, SubmitUnknown(p) PROVE WriterInv'
<1>1. proc[p].pc \notin RestPcs /\ Writing(p, proc[p].key)
  BY DEF SubmitUnknown, At, RestPcs, Writing
<1> QED
  BY <1>1, MoveOrMiss DEF SubmitUnknown, Procs

LEMMA CancelCommitKeeps ==
  ASSUME Typed, Typed', WriterInv, NEW p \in Handlers, CancelCommit(p) PROVE WriterInv'
<1>0. p \in Procs /\ UNCHANGED todo
  BY DEF Procs, CancelCommit
<1>1. proc[p].pc \notin RestPcs
  BY DEF CancelCommit, At, RestPcs
<1>2. CASE CancelEnds(p)
  BY <1>0, <1>2, GiveUpQuiet, QuietKeeps
<1>3. CASE Transition(proc[p].key, proc[p].stage, "failed", NoPr) /\ Done(p)
  <2>1. PICK s : s = "failed"
    OBVIOUS
  <2> QED
    BY <1>0, <1>1, <1>3, <2>1, MoveOrMiss
<1> QED
  BY <1>2, <1>3 DEF CancelCommit

LEMMA ReconcilerMovesKeep ==
  ASSUME Typed, Typed', WriterInv, NEW r \in Reconcilers, RecoverNotFound(r) \/ MarkOutcome(r)
  PROVE  WriterInv'
<1>0. r \in Procs
  BY DEF Procs
<1>1. proc[r].pc \notin RestPcs /\ Done(r) /\ UNCHANGED todo
  BY DEF RecoverNotFound, MarkOutcome, At, RestPcs
<1>2. PICK s \in {"failed", "merged", "rejected", "applied"} :
        Transition(proc[r].key, proc[r].stage, s, NoPr) \/ UNCHANGED storeVars
  BY DEF RecoverNotFound, MarkOutcome, Outcome
<1> QED
  BY <1>0, <1>1, <1>2, MoveOrMiss

(* Recovery touches the row before it writes: the grace period restarts and *)
(* no version read before is current.                                       *)
LEMMA TouchKeeps ==
  ASSUME Typed, Typed', WriterInv, NEW r \in Reconcilers, RecoverTouch(r) PROVE WriterInv'
<1>0. r \in Procs /\ r \notin Handlers /\ proc \in [Procs -> Process]
  BY StoreAssumption, Unfold DEF Procs, Walking
<1>1. proc[r].pc = "touch" /\ proc[r].pc \notin RestPcs
  BY DEF RecoverTouch, At, RestPcs
<1>2. PICK k \in Keys : k = proc[r].key
  BY <1>0, <1>1, Unfold, AtWork
<1>3. CASE UNCHANGED storeVars /\ Done(r)
  BY <1>0, <1>3, MissQuiet, QuietKeeps DEF RecoverTouch
<1>4. CASE /\ Transition(proc[r].key, proc[r].stage, "submitted", NoPr)
           /\ proc' = [proc EXCEPT ![r].pc = "ref", ![r].stage = "submitted"]
  <2>1. /\ proc'[r].pc = "ref" /\ proc'[r].key = k
        /\ \A q \in Procs \ {r} : proc'[q] = proc[q]
    BY <1>0, <1>2, <1>4 DEF Process
  <2>2. UNCHANGED todo /\ Transition(k, proc[r].stage, "submitted", NoPr)
    BY <1>2, <1>4 DEF RecoverTouch
  <2>3. SweepsLost'
    BY <2>1, <2>2 DEF WriterInv, SweepsLost, SweepPcs, Procs
  <2>4. ASSUME GraceCoversWrite, GraceInv PROVE GraceInv'
    <3>1. WriterInGrace'
      <4> SUFFICES ASSUME NEW q \in Procs, NEW j \in Keys, Writing(q, j)'
                   PROVE  /\ requests'[j].stage # "unknown_recovering"
                          /\ requests'[j].stage = "submitted" => requests'[j].fresh
        BY DEF WriterInGrace
      <4>1. CASE j = k
        BY <2>2, <4>1, TransitionIs
      <4>2. CASE j # k
        <5>1. Writing(q, j)
          BY <2>1, <4>2, WritingIs
        <5> QED
          BY <2>2, <2>4, <4>2, <5>1, TransitionIs DEF GraceInv, WriterInGrace
      <4> QED
        BY <4>1, <4>2
    <3>2. SubmitterAlone'
      <4> SUFFICES ASSUME NEW h \in Handlers, NEW j \in Keys, Writing(h, j)'
                   PROVE  /\ requests'[j].stage = "submitted"
                          /\ \A q \in Procs \ {h} : proc'[q].key # j
                          /\ \A t \in Reconcilers : \A x \in todo'[t] :
                               x.key = j => x.stage = "submitted" /\ <<t, j>> \in sameVersion'
        BY DEF SubmitterAlone
      <4>1. h \in Procs \ {r} /\ Writing(h, j)
        BY <1>0, <2>1, WritingIs DEF Procs
      <4>2. /\ requests[j].stage = "submitted" /\ \A q \in Procs \ {h} : proc[q].key # j
            /\ \A t \in Reconcilers : \A x \in todo[t] :
                 x.key = j => x.stage = "submitted" /\ <<t, j>> \in sameVersion
        BY <2>4, <4>1 DEF GraceInv, SubmitterAlone
      <4>3. j # k
        BY <1>0, <1>2, <4>1, <4>2
      <4>4. \A q \in Procs \ {h} : proc'[q].key # j
        BY <1>2, <2>1, <4>2, <4>3
      <4> QED
        BY <2>2, <4>2, <4>3, <4>4, TransitionIs DEF Procs
    <3>3. CancelAlone'
      <4> SUFFICES ASSUME NEW h \in Handlers, proc'[h].pc \in CancelPcs,
                          proc'[h].stage \in {"submitted", "unknown_recovering"},
                          <<h, proc'[h].key>> \in sameVersion',
                          NEW q \in Procs, Writing(q, proc[h].key)'
                   PROVE  FALSE
        BY DEF CancelAlone
      <4>1. h \in Procs \ {r} /\ proc'[h] = proc[h]
        BY <1>0, <2>1 DEF Procs
      <4>2. proc[h].key \in Keys
        BY <4>1 DEF Typed, ProcInv, Fits, RestPcs, CancelPcs
      <4>3. proc[h].key # k /\ <<h, proc[h].key>> \in sameVersion
        BY <2>2, <4>1, <4>2, TransitionIs
      <4>4. Writing(q, proc[h].key)
        BY <2>1, <4>1, <4>3 DEF Writing
      <4> QED
        BY <2>4, <4>1, <4>3, <4>4 DEF GraceInv, CancelAlone
    <3> QED
      BY <3>1, <3>2, <3>3 DEF GraceInv
  <2> QED
    BY <2>3, <2>4 DEF WriterInv, GraceInv
<1> QED
  BY <1>3, <1>4 DEF RecoverTouch

-------------------------------------------------------------------------------
(* Rows are listed, taken, submitted and cancelled. *)

LEMMA GraceExpiresQuiet == ASSUME Typed, NEW k \in Keys, GraceExpires(k) PROVE Quiet
<1>1. requests \in [Keys -> Row] /\ UNCHANGED <<sameVersion, proc, todo>>
  BY Unfold DEF StoreTypeOK, GraceExpires, managerVars
<1>2. RowsCalm
  BY <1>1 DEF GraceExpires, RowsCalm, Row
<1> QED
  BY <1>1, <1>2, StaysCalm DEF Quiet, ListsCalm, VersionsCalm

(* A listing shows the row as it is. *)
LEMMA ListKeeps ==
  ASSUME Typed, Typed', WriterInv, NEW r \in Reconcilers, TickStart(r) \/ SweepList(r) PROVE WriterInv'
<1>0. /\ r \in Procs /\ r \notin Handlers /\ proc \in [Procs -> Process]
      /\ todo \in [Reconcilers -> SUBSET Snapshot]
  BY StoreAssumption, Unfold, LoopTyped DEF Procs, Walking
<1>1. RowsCalm /\ VersionsCalm
  BY <1>0 DEF TickStart, SweepList, storeVars, RowsCalm, VersionsCalm
<1>2. /\ proc'[r].pc \in {"next", "sweepNext"} /\ proc'[r].key = proc[r].key
      /\ \A q \in Procs \ {r} : proc'[q] = proc[q]
  BY <1>0 DEF TickStart, SweepList, Goto, Process
<1>3. \A q \in Procs : Tame(q)
  BY <1>2 DEF Tame, WriterPcs, WritePcs, CancelPcs
<1>4. SweepsLost'
  BY <1>0, <1>2 DEF WriterInv, SweepsLost, SweepPcs, TickStart, SweepList, Goto, Process, Procs,
     ListRecentTerminal, SnapshotOf, Lost
<1>5. ASSUME GraceInv PROVE Apart
  <2> SUFFICES ASSUME NEW h \in Handlers, NEW k \in Keys, Writing(h, k)
               PROVE  /\ \A q \in Procs \ {h} : proc'[q].key # k
                      /\ \A t \in Reconcilers : \A s \in todo'[t] :
                           s.key = k => s.stage = "submitted" /\ <<t, k>> \in sameVersion'
    BY DEF Apart
  <2>1. /\ requests[k].stage = "submitted" /\ \A q \in Procs \ {h} : proc[q].key # k
        /\ \A t \in Reconcilers : \A s \in todo[t] :
             s.key = k => s.stage = "submitted" /\ <<t, k>> \in sameVersion
    BY <1>5 DEF GraceInv, SubmitterAlone
  <2>2. \A q \in Procs \ {h} : proc'[q].key # k
    BY <1>0, <1>2, <2>1
  <2>3. sameVersion \subseteq sameVersion' /\ \A t \in Reconcilers \ {r} : todo'[t] = todo[t]
    BY <1>0 DEF TickStart, SweepList, storeVars
  <2>4. \A s \in todo'[r] : s.key = k => s.stage = "submitted" /\ <<r, k>> \in sameVersion'
    <3>1. CASE TickStart(r)
      BY <1>0, <2>1, <3>1 DEF TickStart, ListOpen, SnapshotOf
    <3>2. CASE SweepList(r)
      BY <1>0, <2>1, <3>2 DEF SweepList, ListRecentTerminal, SnapshotOf, Lost, TerminalLoss
    <3> QED
      BY <3>1, <3>2
  <2> QED
    BY <2>1, <2>2, <2>3, <2>4
<1> QED
  BY <1>1, <1>3, <1>4, <1>5, TameKeeps

(* A reconciler takes a row whose submitter is done or overdue. *)
LEMMA TakeRecordKeeps ==
  ASSUME Typed, Typed', WriterInv, TruthInv, NEW r \in Reconcilers, TakeRecord(r) PROVE WriterInv'
<1>0. /\ r \in Procs /\ r \notin Handlers /\ proc \in [Procs -> Process]
      /\ todo \in [Reconcilers -> SUBSET Snapshot]
  BY StoreAssumption, Unfold, LoopTyped DEF Procs, Walking
<1>1. PICK s \in todo[r], pc \in {"next", "find", "checkPr", "app1"} :
        /\ todo' = [todo EXCEPT ![r] = @ \ {s}]
        /\ sameVersion' = sameVersion \ {<<r, s.key>>}
        /\ FirstCall(r, s, pc)
        /\ proc' = [proc EXCEPT ![r] = IF pc = "next" THEN Resting("next") ELSE Working(s, pc)]
  BY DEF TakeRecord
<1>2. /\ proc'[r].pc = pc /\ proc'[r].key = IF pc = "next" THEN NoKey ELSE s.key
      /\ \A q \in Procs \ {r} : proc'[q] = proc[q]
  BY <1>0, <1>1 DEF Resting, Working
<1>3. RowsCalm /\ VersionsCalm
  BY <1>0, <1>1 DEF TakeRecord, RowsCalm, VersionsCalm
<1>4. \A q \in Procs : Tame(q)
  BY <1>2 DEF Tame, WriterPcs, WritePcs, CancelPcs
<1>5. SweepsLost'
  BY <1>0, <1>1, <1>2 DEF WriterInv, SweepsLost, SweepPcs, Procs
<1>6. ASSUME GraceInv PROVE Apart
  <2> SUFFICES ASSUME NEW h \in Handlers, NEW k \in Keys, Writing(h, k)
               PROVE  /\ \A q \in Procs \ {h} : proc'[q].key # k
                      /\ \A t \in Reconcilers : \A x \in todo'[t] :
                           x.key = k => x.stage = "submitted" /\ <<t, k>> \in sameVersion'
    BY DEF Apart
  <2>1. /\ requests[k].stage = "submitted" /\ \A q \in Procs \ {h} : proc[q].key # k
        /\ \A t \in Reconcilers : \A x \in todo[t] :
             x.key = k => x.stage = "submitted" /\ <<t, k>> \in sameVersion
    BY <1>6 DEF GraceInv, SubmitterAlone
  <2>2. requests[k].fresh
    BY <1>6, <2>1 DEF GraceInv, WriterInGrace, Procs
  <2>3. s.key = k => pc = "next"
    BY <1>0, <1>1, <2>1, <2>2 DEF FirstCall, PastGrace
  <2>4. k # NoKey
    BY WriterAssumption
  <2>5. \A q \in Procs \ {h} : proc'[q].key # k
    BY <1>2, <2>1, <2>3, <2>4
  <2>6. \A x \in todo[r] : x.key = k /\ s.key = k => x = s
    <3>1. \A x \in todo[r] : x.key = k => x \in Snapshot /\ x.stage = "submitted" /\ x.pr = NoPr
      BY <1>0, <2>1 DEF TruthInv, HoldsRow, RowTruth
    <3> QED
      BY <1>1, <3>1 DEF Snapshot
  <2> QED
    BY <1>0, <1>1, <2>1, <2>5, <2>6
<1> QED
  BY <1>3, <1>4, <1>5, <1>6, TameKeeps

LEMMA SweepTakeKeeps ==
  ASSUME Typed, Typed', WriterInv, NEW r \in Reconcilers, SweepTake(r) PROVE WriterInv'
<1>0. /\ r \in Procs /\ r \notin Handlers /\ proc \in [Procs -> Process]
      /\ todo \in [Reconcilers -> SUBSET Snapshot]
  BY StoreAssumption, Unfold, LoopTyped DEF Procs, Walking
<1>1. PICK s \in todo[r] :
        /\ todo' = [todo EXCEPT ![r] = @ \ {s}]
        /\ proc' = [proc EXCEPT ![r] = Working(s, "sweepFind")]
  BY DEF SweepTake
<1>2. /\ proc[r].pc = "sweepNext" /\ proc'[r].pc = "sweepFind" /\ proc'[r].key = s.key
      /\ \A q \in Procs \ {r} : proc'[q] = proc[q]
      /\ UNCHANGED storeVars
  BY <1>0, <1>1 DEF SweepTake, At, Working
<1>3. RowsCalm /\ VersionsCalm
  BY <1>2 DEF storeVars, RowsCalm, VersionsCalm
<1>4. \A q \in Procs : Tame(q)
  BY <1>2 DEF Tame, WriterPcs, WritePcs, CancelPcs
<1>5. SweepsLost' /\ s.stage \in TerminalLoss
  BY <1>0, <1>1, <1>2 DEF WriterInv, SweepsLost, SweepPcs, Procs
<1>6. ASSUME GraceInv PROVE Apart
  <2> SUFFICES ASSUME NEW h \in Handlers, NEW k \in Keys, Writing(h, k)
               PROVE  /\ \A q \in Procs \ {h} : proc'[q].key # k
                      /\ \A t \in Reconcilers : \A x \in todo'[t] :
                           x.key = k => x.stage = "submitted" /\ <<t, k>> \in sameVersion'
    BY DEF Apart
  <2>1. /\ \A q \in Procs \ {h} : proc[q].key # k
        /\ \A t \in Reconcilers : \A x \in todo[t] :
             x.key = k => x.stage = "submitted" /\ <<t, k>> \in sameVersion
    BY <1>6 DEF GraceInv, SubmitterAlone
  <2>2. s.key # k
    BY <1>5, <2>1 DEF TerminalLoss
  <2>3. sameVersion' = sameVersion /\ \A t \in Reconcilers : todo'[t] \subseteq todo[t]
    BY <1>0, <1>1, <1>2 DEF storeVars
  <2> QED
    BY <1>2, <2>1, <2>2, <2>3
<1> QED
  BY <1>3, <1>4, <1>5, <1>6, TameKeeps

(* A row inside its grace period is not cancelled, so no writer is beside it. *)
LEMMA CancelStartKeeps ==
  ASSUME Typed, Typed', WriterInv, NEW p \in Handlers, NEW k \in Keys, CancelStart(p, k) PROVE WriterInv'
<1>0. p \in Procs /\ p \notin Reconcilers /\ proc \in [Procs -> Process]
  BY StoreAssumption, Unfold DEF Procs, Walking
<1>1. /\ proc'[p].pc = "intent" /\ proc'[p].key = k /\ proc'[p].stage = requests[k].stage
      /\ \A q \in Procs \ {p} : proc'[q] = proc[q]
      /\ UNCHANGED <<requests, todo>> /\ sameVersion' = sameVersion \cup {<<p, k>>} /\ Cancellable(k)
  BY <1>0 DEF CancelStart
<1>2. SweepsLost'
  BY <1>0, <1>1 DEF WriterInv, SweepsLost, Procs
<1>3. ASSUME GraceCoversWrite, GraceInv PROVE GraceInv'
  <2>1. \A q \in Procs, j \in Keys : Writing(q, j)' => Writing(q, j) /\ q # p
    BY <1>1 DEF Writing, WritePcs
  <2>2. requests[k].stage \in {"submitted", "unknown_recovering"} => \A q \in Procs : ~Writing(q, k)
    BY <1>1, <1>3 DEF Cancellable, GraceInv, WriterInGrace
  <2>3. \A h \in Handlers : ~Writing(h, k)
    BY <1>3, <2>2 DEF GraceInv, SubmitterAlone, Procs
  <2>4. WriterInGrace'
    BY <1>1, <1>3, <2>1 DEF GraceInv, WriterInGrace
  <2>5. SubmitterAlone'
    <3> SUFFICES ASSUME NEW h \in Handlers, NEW j \in Keys, Writing(h, j)'
                 PROVE  /\ requests'[j].stage = "submitted"
                        /\ \A q \in Procs \ {h} : proc'[q].key # j
                        /\ \A r \in Reconcilers : \A s \in todo'[r] :
                             s.key = j => s.stage = "submitted" /\ <<r, j>> \in sameVersion'
      BY DEF SubmitterAlone
    <3>1. Writing(h, j) /\ j # k
      BY <2>1, <2>3 DEF Procs
    <3> QED
      BY <1>1, <1>3, <3>1 DEF GraceInv, SubmitterAlone
  <2>6. CancelAlone'
    <3> SUFFICES ASSUME NEW h \in Handlers, proc'[h].pc \in CancelPcs,
                        proc'[h].stage \in {"submitted", "unknown_recovering"},
                        <<h, proc'[h].key>> \in sameVersion',
                        NEW q \in Procs, Writing(q, proc[h].key)'
                 PROVE  FALSE
      BY DEF CancelAlone
    <3>1. CASE h = p
      <4>1. Writing(q, k)'
        BY <1>1, <3>1 DEF Writing
      <4> QED
        BY <1>1, <2>1, <2>2, <3>1, <4>1
    <3>2. CASE h # p
      <4>1. h \in Procs /\ proc'[h] = proc[h] /\ <<h, proc[h].key>> \in sameVersion
        BY <1>1, <3>2 DEF Procs
      <4>2. proc[h].key \in Keys
        BY <4>1 DEF Typed, ProcInv, Fits, RestPcs, CancelPcs
      <4>3. PICK j \in Keys : j = proc[h].key
        BY <4>2
      <4>4. Writing(q, j)'
        BY <4>1, <4>3 DEF Writing
      <4>5. Writing(q, j)
        BY <2>1, <4>4
      <4> QED
        BY <1>3, <4>1, <4>3, <4>5 DEF GraceInv, CancelAlone
    <3> QED
      BY <3>1, <3>2
  <2> QED
    BY <2>4, <2>5, <2>6 DEF GraceInv
<1> QED
  BY <1>2, <1>3 DEF WriterInv, GraceInv

(* Nobody has heard of a row before it is inserted. *)
LEMMA SubmitRequestKeeps ==
  ASSUME Typed, Typed', WriterInv, TruthInv, NEW p \in Handlers, NEW k \in Keys, SubmitRequest(p, k)
  PROVE  WriterInv'
<1>0. /\ p \in Procs /\ p \notin Reconcilers /\ proc \in [Procs -> Process]
      /\ requests \in [Keys -> Row] /\ k # NoKey
  BY StoreAssumption, WriterAssumption, Unfold DEF Procs, Walking, StoreTypeOK
<1>1. /\ proc'[p].pc = "ref" /\ proc'[p].key = k
      /\ \A q \in Procs \ {p} : proc'[q] = proc[q]
      /\ UNCHANGED <<sameVersion, todo>> /\ ~RowExists(k)
      /\ requests'[k].stage = "submitted" /\ requests'[k].fresh
      /\ \A j \in Keys \ {k} : requests'[j] = requests[j]
  BY <1>0 DEF SubmitRequest, Submit, CanSubmit
<1>2. SweepsLost'
  BY <1>0, <1>1 DEF WriterInv, SweepsLost, Procs
<1>3. \A q \in Procs : proc[q].key # k
  BY <1>0, <1>1 DEF TruthInv, Knows, HoldsRow
<1>4. \A r \in Reconcilers : \A s \in todo[r] : s.key # k
  BY <1>1 DEF TruthInv, HoldsRow
<1>5. ASSUME GraceCoversWrite, GraceInv PROVE GraceInv'
  <2>1. \A q \in Procs, j \in Keys :
          Writing(q, j)' => (q = p /\ j = k) \/ (q # p /\ j # k /\ Writing(q, j))
    BY <1>1, <1>3 DEF Writing
  <2>2. WriterInGrace'
    BY <1>1, <1>5, <2>1 DEF GraceInv, WriterInGrace
  <2>3. SubmitterAlone'
    <3> SUFFICES ASSUME NEW h \in Handlers, NEW j \in Keys, Writing(h, j)'
                 PROVE  /\ requests'[j].stage = "submitted"
                        /\ \A q \in Procs \ {h} : proc'[q].key # j
                        /\ \A r \in Reconcilers : \A s \in todo'[r] :
                             s.key = j => s.stage = "submitted" /\ <<r, j>> \in sameVersion'
      BY DEF SubmitterAlone
    <3>1. CASE h = p /\ j = k
      BY <1>1, <1>3, <1>4, <3>1
    <3>2. CASE h # p /\ j # k /\ Writing(h, j)
      BY <1>1, <1>5, <3>2 DEF GraceInv, SubmitterAlone
    <3> QED
      BY <2>1, <3>1, <3>2 DEF Procs
  <2>4. CancelAlone'
    <3> SUFFICES ASSUME NEW h \in Handlers, proc'[h].pc \in CancelPcs,
                        proc'[h].stage \in {"submitted", "unknown_recovering"},
                        <<h, proc'[h].key>> \in sameVersion',
                        NEW q \in Procs, Writing(q, proc[h].key)'
                 PROVE  FALSE
      BY DEF CancelAlone
    <3>1. h # p
      BY <1>1 DEF CancelPcs
    <3>2. h \in Procs /\ proc'[h] = proc[h] /\ <<h, proc[h].key>> \in sameVersion
      BY <1>1, <3>1 DEF Procs
    <3>3. proc[h].key \in Keys
      BY <3>2 DEF Typed, ProcInv, Fits, RestPcs, CancelPcs
    <3>4. PICK j \in Keys : j = proc[h].key
      BY <3>3
    <3>5. Writing(q, j)'
      BY <3>2, <3>4 DEF Writing
    <3>6. Writing(q, j)
      BY <1>3, <2>1, <3>2, <3>4, <3>5
    <3> QED
      BY <1>5, <3>2, <3>4, <3>6 DEF GraceInv, CancelAlone
  <2> QED
    BY <2>2, <2>3, <2>4 DEF GraceInv
<1> QED
  BY <1>2, <1>5 DEF WriterInv, GraceInv

-------------------------------------------------------------------------------
(* WriterInv is an invariant. *)

LEMMA WriterInit == Init => WriterInv
<1> SUFFICES ASSUME Init PROVE WriterInv
  OBVIOUS
<1>1. /\ \A p \in Procs : proc[p].pc = "idle"
      /\ \A r \in Reconcilers : todo[r] = {}
  BY DEF Init, ManagerInit, Resting
<1>2. \A p \in Procs, k \in Keys : ~Writing(p, k)
  BY <1>1 DEF Writing, WritePcs
<1>3. \A h \in Handlers : proc[h].pc \notin CancelPcs
  BY <1>1 DEF CancelPcs, Procs
<1> QED
  BY <1>1, <1>2, <1>3 DEF WriterInv, SweepsLost, WriterInGrace, SubmitterAlone, CancelAlone, Procs

LEMMA WriterStepKeeps ==
  ASSUME Typed, Typed', WriterInv, NEW p \in Procs,
         CreateChangePr(p) \/ OpenPr(p) \/ ReadLostRow(p) \/ CloseOrphanPr(p) \/ RecordRefusal(p)
  PROVE  WriterInv'
  BY WriteQuiet, OrphanQuiet, QuietKeeps, RecordKeeps

LEMMA NextWriter == ASSUME Typed, Typed', TruthInv, WriterInv, [Next]_vars PROVE WriterInv'
<1>1. ASSUME NEW p \in Handlers, NEW k \in Keys, SubmitRequest(p, k) \/ CancelStart(p, k)
      PROVE  WriterInv'
  BY <1>1, SubmitRequestKeeps, CancelStartKeeps
<1>2. ASSUME NEW p \in Handlers, HandlerStep(p) PROVE WriterInv'
  BY <1>2, WriterStepKeeps, SubmitUnknownKeeps, CancelQuiet, QuietKeeps, CancelCommitKeeps
  DEF HandlerStep, RouteStep, Procs
<1>3. ASSUME NEW r \in Reconcilers, ReconcilerStep(r) PROVE WriterInv'
  <2>1. CASE TickStep(r)
    BY <2>1, TakeRecordKeeps, ReadQuiet, TickQuiet, QuietKeeps, ReconcilerMovesKeep, TouchKeeps,
       ListKeeps, SweepTakeKeeps DEF TickStep
  <2> QED
    BY <1>3, <2>1, WriterStepKeeps DEF ReconcilerStep, Procs
<1>4. ASSUME NEW r \in Reconcilers, TickStart(r) \/ SweepListFails(r) \/ LeaseLost(r)
      PROVE  WriterInv'
  BY <1>4, ListKeeps, TickQuiet, OutsideQuiet, QuietKeeps
<1>5. ASSUME NEW p \in Procs, Failure(p) PROVE WriterInv'
  BY <1>5, WriteQuiet, GiveUpQuiet, CrashQuiet, QuietKeeps DEF Failure
<1>6. ASSUME NEW k \in Keys, GraceExpires(k) PROVE WriterInv'
  BY <1>6, GraceExpiresQuiet, QuietKeeps
<1>7. CASE \/ \E r \in Reconcilers, k \in Keys : RecheckElapses(r, k)
           \/ \E i \in 1..2 : ArgoSyncs(i)
           \/ Reviewer \/ Meddler \/ LateWrite \/ UNCHANGED vars
  BY <1>7, OutsideQuiet, QuietKeeps
<1> QED
  BY <1>1, <1>2, <1>3, <1>4, <1>5, <1>6, <1>7 DEF Next

LEMMA WriterAlways == Spec => []WriterInv
<1>1. Typed /\ Typed' /\ TruthInv /\ WriterInv /\ [Next]_vars => WriterInv'
  BY NextWriter
<1> QED
  BY <1>1, WriterInit, TypedAlways, TruthAlways, PTL DEF Spec

(* The inductive invariant of the whole: who holds which row in which       *)
(* stage, what everybody knows of GitHub, and who may write.                *)
THEOREM SystemInvAlways == Spec => []SystemInv
  BY StageInvariant, TruthAlways, WriterAlways, PTL DEF SystemInv

-------------------------------------------------------------------------------
(* Cancels and writers. *)

(* Nobody but the cancel itself moves a row while the cancel ends. *)
LEMMA CancelEndsIs ==
  ASSUME Typed, [Next]_vars, NEW p \in Handlers, proc[p].pc = "cancelCas", proc'[p].pc = "idle"
  PROVE  CancelCommit(p) \/ UNCHANGED requests
<1>0. p \in Procs /\ p \notin Reconcilers /\ proc \in [Procs -> Process]
  BY StoreAssumption, Unfold DEF Procs, Walking
<1>1. ASSUME NEW q \in Procs, OpenPr(q) \/ RecordRefusal(q) PROVE UNCHANGED requests
  <2>1. proc[q].pc # "cancelCas"
    BY <1>1 DEF OpenPr, RecordRefusal, At
  <2> QED
    BY <1>0, <1>1, <2>1 DEF OpenPr, RecordRefusal, Done, Goto, storeVars
<1>2. ASSUME NEW q \in Procs,
             CreateChangePr(q) \/ ReadLostRow(q) \/ CloseOrphanPr(q)
      PROVE UNCHANGED requests
  BY <1>2 DEF CreateChangePr, PostRef, ReadContents, WriteContents, PostPulls, ReadLostRow,
     CloseOrphanPr, storeVars
<1>3. ASSUME NEW q \in Handlers, HandlerStep(q) PROVE CancelCommit(p) \/ UNCHANGED requests
  <2>1. CASE q = p
    BY <1>0, <1>1, <1>2, <1>3, <2>1 DEF HandlerStep, RouteStep, SubmitUnknown, CancelIntent,
       CancelFindPr, CancelClosePr, CancelEnds, At, storeVars
  <2>2. CASE q # p
    BY <1>0, <1>1, <1>2, <1>3, <2>2 DEF HandlerStep, RouteStep, SubmitUnknown, CancelIntent,
       CancelFindPr, CancelClosePr, CancelCommit, CancelEnds, Done, storeVars, Procs
  <2> QED
    BY <2>1, <2>2
<1>4. ASSUME NEW r \in Reconcilers, ReconcilerStep(r) PROVE UNCHANGED requests
  BY <1>0, <1>1, <1>2, <1>4 DEF ReconcilerStep, TickStep, TakeRecord, RecoverFindPr,
     RecoverFindBranch, RecoverNotFound, RecoverTouch, RecoverUnknown, CheckPr, CheckApp, MarkOutcome,
     SweepList, SweepTake, SweepFindPr, TickEnd, Done, storeVars, Procs
<1>5. ASSUME NEW q \in Handlers, NEW k \in Keys, SubmitRequest(q, k) \/ CancelStart(q, k)
      PROVE  UNCHANGED requests
  <2>1. CASE SubmitRequest(q, k)
    BY <1>0, <2>1 DEF SubmitRequest, At
  <2>2. CASE CancelStart(q, k)
    BY <2>2 DEF CancelStart
  <2> QED
    BY <1>5, <2>1, <2>2
<1>6. ASSUME NEW r \in Reconcilers, TickStart(r) \/ SweepListFails(r) \/ LeaseLost(r)
      PROVE  UNCHANGED requests
  BY <1>6 DEF TickStart, SweepListFails, LeaseLost, storeVars
<1>7. ASSUME NEW q \in Procs, Failure(q) PROVE UNCHANGED requests
  BY <1>7 DEF Failure, WriteUnknown, WriteRefused, CloseUnknown, CallFails, Crash, storeVars
<1>8. CASE \/ \E k \in Keys : GraceExpires(k) \/ \E r \in Reconcilers : RecheckElapses(r, k)
           \/ \E i \in 1..2 : ArgoSyncs(i)
           \/ Reviewer \/ Meddler \/ LateWrite \/ UNCHANGED vars
  BY <1>8 DEF GraceExpires, RecheckElapses, ArgoSyncs, Reviewer, Meddler, LateWrite, managerVars,
     storeVars, vars
<1> QED
  BY <1>3, <1>4, <1>5, <1>6, <1>7, <1>8 DEF Next

LEMMA CancelStep ==
  ASSUME GraceCoversWrite, Typed, WriterInv, [Next]_vars, NEW p \in Handlers, NEW k \in Keys,
         proc[p].pc = "cancelCas", proc[p].key = k, proc'[p].pc = "idle",
         requests[k].stage \in {"submitted", "unknown_recovering"}, requests'[k].stage = "failed"
  PROVE  \A q \in Procs : ~Writing(q, k)
<1>1. CancelHits(p)
  BY CancelEndsIs DEF CancelCommit, CancelEnds
<1> QED
  BY <1>1 DEF CancelHits, Hits, WriterInv, CancelAlone, CancelPcs

(* A cancel never fails a submitted or recovering row while somebody is      *)
(* creating its pull request (D-MSSO-18f/h/i), whatever the number of        *)
(* requests, replicas and failures, provided that the grace period (120 s)   *)
(* outlasts every writer (60 s deadline and its database calls).             *)
THEOREM NoCancelUnderWriteAlways ==
  ASSUME GraceCoversWrite PROVE Spec => NoCancelUnderWrite
<1>1. Typed /\ WriterInv /\ [Next]_vars =>
        [\A p \in Handlers, k \in Keys :
           /\ proc[p].pc = "cancelCas" /\ proc[p].key = k /\ proc'[p].pc = "idle"
           /\ requests[k].stage \in {"submitted", "unknown_recovering"}
           /\ requests'[k].stage = "failed"
           => \A q \in Procs : ~Writing(q, k)]_vars
  BY CancelStep
<1> QED
  BY <1>1, TypedAlways, WriterAlways, PTL DEF Spec, NoCancelUnderWrite
===============================================================================
