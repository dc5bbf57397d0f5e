------------------------------ MODULE GithubRepo ------------------------------
(***************************************************************************)
(* The GitHub repository as sso-change/githubApp.ts uses it: the sso/*      *)
(* branches with what sso.yaml holds on each, the pull requests, and the   *)
(* write requests whose client gave up (timeout, 5xx, lost connection) but *)
(* which GitHub may still carry out.  People merge, close and reopen pull  *)
(* requests, push to branches and delete them.                             *)
(***************************************************************************)
EXTENDS SsoChangeStore

CONSTANTS
  MaxPrs,    \* bound: pull request numbers in use
  Leftover,  \* branches (at most one) that may exist with an open pull request
             \* from before any request: a human's, or an older database's
  Ages       \* of that pull request: "old", before the skew of the adoption,
             \* "recent", within it, or "none", there is no leftover

ASSUME RepoAssumption ==
  /\ MaxPrs \in Nat \ {0}
  /\ Leftover \subseteq Branches
  /\ \A b, c \in Leftover : b = c
  /\ Ages \subseteq {"old", "recent", "none"}

VARIABLES
  branches,  \* content of sso.yaml on each branch
  prs,       \* [PrIds -> pull request]
  inflight   \* write requests abandoned by their client, not yet carried out

repoVars == <<branches, prs, inflight>>

PrIds == 1..MaxPrs
NoBranch == "no branch"

(* base: as on main at the request's base commit; edited: the requested    *)
(* content; foreign: anything else.                                        *)
Content == {"none", "base", "edited", "foreign"}

(* old: created before notBefore, which is the created_at of the request    *)
(* that derives the branch less PR_ADOPT_SKEW_MS (5 minutes).               *)
PullRequest == [state : {"none", "open", "closed", "merged"},
                branch : Branches \cup {NoBranch}, old : BOOLEAN,
                closer : {"nobody", "human", "cancel", "compensation"}]
NoPull == [state |-> "none", branch |-> NoBranch, old |-> FALSE, closer |-> "nobody"]

Write == [op : {"ref", "put", "pulls", "close"}, branch : Branches, pr : Nat,
          by : {"nobody", "cancel", "compensation"}]

RepoTypeOK ==
  /\ branches \in [Branches -> Content]
  /\ prs \in [PrIds -> PullRequest]
  /\ inflight \subseteq Write

Left(age) == {b \in Leftover : age # "none"}
LeftPull(age) ==
  [NoPull EXCEPT !.state = "open", !.branch = CHOOSE b \in Left(age) : TRUE, !.old = age = "old"]

RepoInit ==
  \E age \in Ages :
    /\ branches \in [Branches -> Content]
    /\ \A b \in Branches : b \in Left(age) <=> branches[b] # "none"
    /\ prs = [n \in PrIds |-> IF n = 1 /\ Left(age) # {} THEN LeftPull(age) ELSE NoPull]
    /\ inflight = {}

OpenOn(b) == {n \in PrIds : prs[n].state = "open" /\ prs[n].branch = b}

-------------------------------------------------------------------------------
(* Reads. *)

(* Pull requests of branch b created at or after notBefore: those of the   *)
(* request, and whatever was opened there in the five minutes before it.   *)
(* Mutant: the search ignores the age of a pull request. *)
BadAdoptable(b) == {n \in PrIds : prs[n].state # "none" /\ prs[n].branch = b}

Adoptable(b) ==
  {n \in PrIds : prs[n].state # "none" /\ prs[n].branch = b /\ ~prs[n].old}

(* findPrByBranch(b, notBefore) answers n: an open one if there is one,    *)
(* else the newest, else none.                                             *)
FindsPr(b, n) ==
  \/ Adoptable(b) = {} /\ n = NoPr
  \/ /\ n \in Adoptable(b)
     /\ \/ prs[n].state = "open"
        \/ \A m \in Adoptable(b) : prs[m].state # "open" /\ m <= n

-------------------------------------------------------------------------------
(* The effect of each write at the moment GitHub carries it out. *)

(* POST /git/refs: an existing ref is left alone (422 already exists). *)
CreateRef(b) ==
  branches' = [branches EXCEPT ![b] = IF @ = "none" THEN "base" ELSE @]

(* PUT /contents with the base blob's sha: refused unless that is there. *)
PutContents(b) ==
  branches' = [branches EXCEPT ![b] = IF @ = "base" THEN "edited" ELSE @]

(* POST /pulls: needs a branch that differs from main and has no open PR. *)
CanOpenPull(b) == branches[b] \in {"edited", "foreign"} /\ OpenOn(b) = {}

NextNumber(n) == prs[n].state = "none" /\ \A m \in PrIds : m < n => prs[m].state # "none"

OpenPull(b, n) ==
  /\ NextNumber(n)
  /\ prs' = [prs EXCEPT ![n] = [state |-> "open", branch |-> b, old |-> FALSE,
                                closer |-> "nobody"]]

(* PATCH /pulls/n {state: closed}: a closed or merged one stays as it is. *)
ClosePr(n, by) ==
  IF prs[n].state = "open"
  THEN prs' = [prs EXCEPT ![n].state = "closed", ![n].closer = by]
  ELSE UNCHANGED prs

(* A write request that outlived its client reaches GitHub after all. *)
CarryOut(w) ==
  /\ w \in inflight
  /\ inflight' = inflight \ {w}
  /\ \/ w.op = "ref" /\ CreateRef(w.branch) /\ UNCHANGED prs
     \/ w.op = "put" /\ PutContents(w.branch) /\ UNCHANGED prs
     \/ /\ w.op = "pulls" /\ CanOpenPull(w.branch)
        /\ \E n \in PrIds : OpenPull(w.branch, n)
        /\ UNCHANGED branches
     \/ w.op = "close" /\ ClosePr(w.pr, w.by) /\ UNCHANGED branches

(* ... or never does, or is refused when it arrives. *)
Vanish(w) ==
  /\ w \in inflight
  /\ inflight' = inflight \ {w}
  /\ UNCHANGED <<branches, prs>>

-------------------------------------------------------------------------------
(* People. *)
HumanMerges(n) ==
  /\ prs[n].state = "open"
  /\ prs' = [prs EXCEPT ![n].state = "merged", ![n].closer = "human"]
  /\ UNCHANGED <<branches, inflight>>

HumanCloses(n) ==
  /\ prs[n].state = "open"
  /\ prs' = [prs EXCEPT ![n].state = "closed", ![n].closer = "human"]
  /\ UNCHANGED <<branches, inflight>>

HumanReopens(n) ==
  /\ prs[n].state = "closed"
  /\ CanOpenPull(prs[n].branch)
  /\ prs' = [prs EXCEPT ![n].state = "open", ![n].closer = "nobody"]
  /\ UNCHANGED <<branches, inflight>>

HumanPushes(b) ==
  /\ branches[b] \in {"base", "edited"}
  /\ branches' = [branches EXCEPT ![b] = "foreign"]
  /\ UNCHANGED <<prs, inflight>>

HumanDeletesBranch(b) ==
  /\ branches[b] # "none"
  /\ branches' = [branches EXCEPT ![b] = "none"]
  /\ prs' = [n \in PrIds |-> IF n \in OpenOn(b)
                              THEN [prs[n] EXCEPT !.state = "closed", !.closer = "human"]
                              ELSE prs[n]]
  /\ UNCHANGED inflight
===============================================================================
