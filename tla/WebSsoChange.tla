---------------------------- MODULE WebSsoChange ----------------------------
(***************************************************************************)
(* The web console's side of an SSO change request: the edit form          *)
(* (views/SsoEditForm.tsx), the banner of open requests with their cancel  *)
(* dialogs (views/SsoChangeBanner.tsx), the view that opens and closes     *)
(* the form (views/SsoView.tsx), the helpers (views/ssoChangeSupport.ts)   *)
(* and the queries and mutations they use (api/hooks.ts,                   *)
(* api/ssoChanges.ts).                                                     *)
(*                                                                         *)
(* The server is external here (SsoChange models it): it keeps one record  *)
(* per idempotency key, refuses a second open request, answers a known key *)
(* from its record and moves records and the file on by itself.  The       *)
(* network may report a failure for a request that still arrives, then or  *)
(* much later.                                                             *)
(***************************************************************************)
EXTENDS Naturals, FiniteSets

CONSTANTS
  Groups,     \* groups the form offers, required ones aside
  Reasons,    \* texts of the reason field
  MaxKeys,    \* idempotency keys generated (bound)
  MaxBlobs,   \* versions of the file (bound)
  MaxForms,   \* times the form is opened (bound)
  MaxPosts,   \* submit calls (bound)
  WithBanner  \* is the banner part of this run?

\* Assumed of the constants; the module that instantiates this one states it.
BoundAssumption == {MaxKeys, MaxBlobs, MaxForms, MaxPosts} \subseteq Nat \ {0}

VARIABLES
  form,    \* state and refs of the mounted SsoEditForm
  wire,    \* submits the server has not handled yet
  blob,    \* the file's version on the default branch
  records, \* the server's requests, by key
  banner,  \* the polled list and the cancel dialogs
  ghost    \* history: what was previewed, which keys are known to be spent

vars == <<form, wire, blob, records, banner, ghost>>

Keys == 1..MaxKeys
Active == {"submitted", "pr_open", "unknown_recovering"}
Open == Active \cup {"merged"}
Ended == {"failed", "rejected"}
None == [none |-> TRUE]

---------------------------------------------------------------------------
(* Helpers of the form *)

Trimmed(r) == IF r = " " THEN "" ELSE r
Draft == [groups |-> form.selected, reason |-> Trimmed(form.reason)]

DraftFingerprint(d, b) == <<d.groups, d.reason, b>>

PreviewStale == form.preview # None /\
  form.preview.fingerprint # DraftFingerprint(Draft, form.preview.blob)

Submitted == form.submit.state = "answered"
HasEnded == Submitted /\ form.submit.stage \in Ended
InProgress == Submitted /\ form.submit.stage \in {"submitted", "unknown_recovering"}
BadOpened == Submitted
Opened == Submitted /\ ~HasEnded /\ ~InProgress
Locked == Submitted /\ ~HasEnded

Idle == [state |-> "idle", key |-> 0, stage |-> "", error |-> ""]
NewForm(n) == [open |-> n > 0, n |-> n, selected |-> {}, reason |-> "", preview |-> None,
               key |-> None, previewing |-> None, submit |-> Idle]

Init ==
  /\ form = NewForm(0)
  /\ wire = {}
  /\ blob = 1
  /\ records = [k \in Keys |-> [stage |-> "none"]]
  /\ banner = [items |-> {}, due |-> TRUE, confirming |-> {}, cancelling |-> {}]
  /\ ghost = [keys |-> 0, posts |-> 0, previewed |-> {}, spent |-> {}, run |-> 0,
              last |-> <<>>, prs |-> {}]

---------------------------------------------------------------------------
(* The form *)

\* SsoView: the edit button; the form is keyed by its endpoint.
OpenForm ==
  /\ ~form.open /\ form.n < MaxForms
  /\ form' = NewForm(form.n + 1)
  /\ UNCHANGED <<wire, blob, records, banner, ghost>>

\* onClose: state, refs and mutation callbacks of the form are gone.
CloseForm ==
  /\ form.open
  /\ form' = [NewForm(form.n) EXCEPT !.open = FALSE]
  /\ UNCHANGED <<wire, blob, records, banner, ghost>>

\* The fields stay editable whatever is in flight.
Toggle ==
  /\ form.open
  /\ \E g \in Groups : form' = [form EXCEPT !.selected =
                                  IF g \in @ THEN @ \ {g} ELSE @ \cup {g}]
  /\ UNCHANGED <<wire, blob, records, banner, ghost>>

SetReason ==
  /\ form.open
  /\ \E r \in Reasons \ {form.reason} : form' = [form EXCEPT !.reason = r]
  /\ UNCHANGED <<wire, blob, records, banner, ghost>>

RunPreview ==
  /\ form.open /\ form.previewing = None /\ form.submit.state # "pending" /\ ~Locked
  /\ form' = [form EXCEPT !.submit = Idle, !.previewing = Draft]
  /\ UNCHANGED <<wire, blob, records, banner, ghost>>

\* The preview is answered for the draft it was asked for, or fails.
BadPreviewDone ==
  /\ form.open /\ form.previewing # None
  /\ \/ /\ form' = [form EXCEPT !.previewing = None,
             !.preview = [blob |-> blob, fingerprint |-> DraftFingerprint(Draft, blob)]]
        /\ ghost' = [ghost EXCEPT !.previewed = @ \cup {DraftFingerprint(form.previewing, blob)}]
     \/ form' = [form EXCEPT !.previewing = None] /\ UNCHANGED ghost
  /\ UNCHANGED <<wire, blob, records, banner>>

PreviewDone ==
  /\ form.open /\ form.previewing # None
  /\ \/ /\ form' = [form EXCEPT !.previewing = None,
             !.preview = [blob |-> blob, fingerprint |-> DraftFingerprint(form.previewing, blob)]]
        /\ ghost' = [ghost EXCEPT !.previewed = @ \cup {DraftFingerprint(form.previewing, blob)}]
     \/ form' = [form EXCEPT !.previewing = None] /\ UNCHANGED ghost
  /\ UNCHANGED <<wire, blob, records, banner>>

\* keyRef: one key per fingerprint, drawn anew when the fingerprint changes.
BadKeyFor(fingerprint) == [fingerprint |-> fingerprint, key |-> ghost.keys + 1]
KeyFor(fingerprint) ==
  IF form.key # None /\ form.key.fingerprint = fingerprint THEN form.key
  ELSE [fingerprint |-> fingerprint, key |-> ghost.keys + 1]

\* runSubmit: what is sent is the draft of this render with the previewed base.
RunSubmit ==
  /\ form.open /\ form.preview # None /\ ~Locked
  /\ ~PreviewStale /\ form.submit.state # "pending"
  /\ LET key == KeyFor(DraftFingerprint(Draft, form.preview.blob))
         payload == <<Draft.groups, Draft.reason, form.preview.blob>> IN
     /\ key.key \in Keys /\ ghost.posts < MaxPosts
     /\ form' = [form EXCEPT !.key = key, !.submit = [Idle EXCEPT !.state = "pending", !.key = key.key]]
     /\ LET run == IF ghost.last = <<form.n, payload>> THEN ghost.run ELSE ghost.run + 1 IN
        /\ wire' = wire \cup {[key |-> key.key, payload |-> payload, run |-> run]}
        /\ ghost' = [ghost EXCEPT !.keys = IF key.key > @ THEN key.key ELSE @,
                                  !.posts = @ + 1, !.run = run, !.last = <<form.n, payload>>]
  /\ UNCHANGED <<blob, records, banner>>

\* The callbacks of the submit: an ended record, or a key whose branch belongs
\* to an earlier request (D-MSSO-19a), is never sent again.
BadForgets(stage, error) == error = "IDEMPOTENCY_KEY_COLLISION"
Forgets(stage, error) == stage \in Ended \/ error = "IDEMPOTENCY_KEY_COLLISION"

Settle(k, stage, error) ==
  /\ form' = [form EXCEPT !.submit = [state |-> IF error = "" THEN "answered" ELSE "error",
                                      key |-> k, stage |-> stage, error |-> error],
                          !.key = IF Forgets(stage, error) THEN None ELSE @]
  /\ ghost' = [ghost EXCEPT
       !.spent = IF stage \in Ended \/ error = "IDEMPOTENCY_KEY_COLLISION" THEN @ \cup {k} ELSE @,
       !.prs = IF stage \in {"pr_open", "merged", "applied"} THEN @ \cup {k} ELSE @]

\* The answer reaches the form that waits for it, if it is still there.
Waits(m) == form.open /\ form.submit.state = "pending" /\ form.submit.key = m.key
Answer(m, stage, error) ==
  IF Waits(m) THEN Settle(m.key, stage, error) ELSE UNCHANGED <<form, ghost>>

\* onSuccess of useSubmitSsoChange fetches the open requests again, also when the
\* form was closed meanwhile, and not when the answer was lost.
Invalidate(m) ==
  \E heard \in {TRUE, Waits(m)} : banner' = [banner EXCEPT !.due = @ \/ heard]

\* The call fails on the way; the request may reach the server all the same.
NetworkFails ==
  /\ form.open /\ form.submit.state = "pending"
  /\ Settle(form.submit.key, "", "network")
  /\ \/ UNCHANGED wire
     \/ wire' = {m \in wire : m.key # form.submit.key}
  /\ UNCHANGED <<blob, records, banner>>

---------------------------------------------------------------------------
(* The server *)

Exists(k) == records[k].stage # "none"

\* POST /sso/change-requests, until the row is committed: a known key is answered from
\* its row, whatever became of that, and a request is refused or takes a row.
HandleSubmit ==
  \E m \in wire :
    /\ wire' = wire \ {m}
    /\ \/ /\ Exists(m.key)
          /\ IF records[m.key].payload = m.payload
             THEN Answer(m, records[m.key].stage, "") /\ Invalidate(m)
             ELSE Answer(m, "", "IDEMPOTENCY_MISMATCH") /\ UNCHANGED banner
          /\ UNCHANGED records
       \/ /\ ~Exists(m.key)
          /\ \E error \in {"AUDIT_UNAVAILABLE", "IDEMPOTENCY_KEY_COLLISION"}
                \cup (IF m.payload[3] # blob THEN {"STALE_BASE"} ELSE {})
                \cup (IF \E k \in Keys : records[k].stage \in Open THEN {"OPEN_REQUEST_EXISTS"} ELSE {}) :
               Answer(m, "", error)
          /\ UNCHANGED <<records, banner>>
       \/ /\ ~Exists(m.key) /\ m.payload[3] = blob
          /\ \A k \in Keys : records[k].stage \notin Open
          /\ records' = [records EXCEPT ![m.key] =
                           [stage |-> "submitted", payload |-> m.payload, run |-> m.run]]
          /\ UNCHANGED <<form, banner, ghost>>
    /\ UNCHANGED blob

\* The form waits for the POST that took the row: not for a retry that is still on its way.
Runs(k) == \A m \in wire : m.key # k
Reply(k, stage, error) ==
  IF Runs(k) THEN Answer([key |-> k], stage, error) ELSE UNCHANGED <<form, ghost>>

\* The POST ends: GitHub made the pull request or did not, and the row, where nobody moved
\* it meanwhile and the store answers, says so.  GIT_WRITE stands for every refusal: the
\* outcome is unknown, GitHub refused, or the request was cancelled meanwhile.
SubmitDone ==
  /\ \E k \in Keys :
       \/ /\ records[k].stage = "submitted"
          /\ records' \in {records, [records EXCEPT ![k].stage = "pr_open"]}
          /\ Reply(k, "pr_open", "") /\ Invalidate([key |-> k])
       \/ /\ records[k].stage = "submitted"
          /\ \E stage \in {"submitted", "unknown_recovering", "failed"} :
               records' = [records EXCEPT ![k].stage = stage]
          /\ Reply(k, "", "GIT_WRITE") /\ UNCHANGED banner
       \/ /\ Exists(k) /\ Waits([key |-> k]) /\ Runs(k)
          /\ \/ /\ records[k].stage \notin Ended
                /\ Answer([key |-> k], records[k].stage, "") /\ Invalidate([key |-> k])
             \/ Answer([key |-> k], "", "GIT_WRITE") /\ UNCHANGED banner
          /\ UNCHANGED records
  /\ UNCHANGED <<wire, blob>>

Moves == [submitted |-> {"pr_open", "failed"}, unknown_recovering |-> {"pr_open", "failed"}, pr_open |-> {"merged", "rejected"},
          merged |-> {"applied"}]

\* The reconciler, reviewers and other writers of the file.
ServerMoves ==
  /\ \/ \E k \in Keys : \E stage \in {"pr_open", "failed", "merged", "rejected", "applied"} :
          /\ records[k].stage \in DOMAIN Moves /\ stage \in Moves[records[k].stage]
          /\ records' = [records EXCEPT ![k].stage = stage]
          /\ blob' = IF stage = "merged" /\ blob < MaxBlobs THEN blob + 1 ELSE blob
          /\ ghost' = [ghost EXCEPT !.prs = IF stage = "pr_open" THEN @ \cup {k} ELSE @]
     \/ blob < MaxBlobs /\ blob' = blob + 1 /\ UNCHANGED <<records, ghost>>
  /\ UNCHANGED <<form, wire, banner>>

---------------------------------------------------------------------------
(* The banner *)

OpenItems == {[key |-> k, stage |-> records[k].stage] : k \in {k \in Keys : records[k].stage \in Open}}
BadPollTimer == FALSE /\ UNCHANGED vars

\* refetchInterval: every SSO_OPEN_POLL_MS while the banner is mounted.
PollTimer ==
  /\ WithBanner /\ ~banner.due
  /\ banner' = [banner EXCEPT !.due = TRUE]
  /\ UNCHANGED <<form, wire, blob, records, ghost>>

\* The list is fetched; a failed fetch keeps the last list.  A row that leaves
\* the list takes its dialog with it.
Fetch ==
  /\ WithBanner /\ banner.due
  /\ LET keys == {i.key : i \in OpenItems} IN
     banner' = [items |-> OpenItems, due |-> FALSE,
                confirming |-> banner.confirming \cap keys,
                cancelling |-> banner.cancelling]
  /\ UNCHANGED <<form, wire, blob, records, ghost>>

\* The cancel button of a row whose shown stage is cancellable, and "keep".
AskCancel ==
  /\ WithBanner
  /\ \E i \in banner.items :
       \/ /\ i.stage \in Active /\ i.key \notin banner.confirming
          /\ banner' = [banner EXCEPT !.confirming = @ \cup {i.key}]
       \/ /\ i.key \in banner.confirming \ banner.cancelling
          /\ banner' = [banner EXCEPT !.confirming = @ \ {i.key}]
  /\ UNCHANGED <<form, wire, blob, records, ghost>>

ConfirmCancel ==
  /\ WithBanner
  /\ \E k \in banner.confirming \ banner.cancelling :
       banner' = [banner EXCEPT !.cancelling = @ \cup {k}]
  /\ UNCHANGED <<form, wire, blob, records, ghost>>

\* The cancel route answers, or the call fails: either way the list is fetched
\* again; only a success closes the dialog.
CancelDone ==
  /\ WithBanner
  /\ \E k \in banner.cancelling :
       \/ /\ records[k].stage \in Active
          /\ records' = [records EXCEPT ![k].stage = "failed"]
          /\ banner' = [banner EXCEPT !.cancelling = @ \ {k}, !.confirming = @ \ {k}, !.due = TRUE]
       \/ /\ banner' = [banner EXCEPT !.cancelling = @ \ {k}, !.due = TRUE]
          /\ UNCHANGED records
  /\ UNCHANGED <<form, wire, blob, ghost>>

Next ==
  \/ OpenForm \/ CloseForm \/ Toggle \/ SetReason \/ RunPreview \/ PreviewDone
  \/ RunSubmit \/ NetworkFails \/ HandleSubmit \/ SubmitDone \/ ServerMoves
  \/ PollTimer \/ Fetch \/ AskCancel \/ ConfirmCancel \/ CancelDone

\* The interval timer keeps firing and a fetch eventually succeeds.
Fairness == WF_vars(PollTimer) /\ WF_vars(Fetch)

Spec == Init /\ [][Next]_vars /\ Fairness

---------------------------------------------------------------------------
(* Properties *)

\* What is submitted is exactly what the server previewed: the same groups, the
\* same reason and the same version of the file, however the fields changed
\* while a preview was on its way (SsoEditForm.tsx:74, :79).
SubmittedWasPreviewed == \A m \in wire : m.payload \in ghost.previewed

\* An uninterrupted series of retries of one draft creates one request, however
\* many answers are lost: a request a reviewer rejected meanwhile does not come
\* back under another key (SsoEditForm.tsx:81).
OneRequestPerDraft ==
  \A j, k \in Keys :
    (j # k /\ Exists(j) /\ Exists(k) /\ records[j].run = records[k].run)
      => {j, k} \cap ghost.spent # {}

\* A key is never sent with two payloads, so the form never provokes the
\* server's IDEMPOTENCY_MISMATCH (ssoChangeSupport.ts:20).
NoMismatch == form.submit.state = "error" => form.submit.error # "IDEMPOTENCY_MISMATCH"

\* A finished or colliding key is not sent again (SsoEditForm.tsx:86, :90): a
\* form that was told so never waits for that key.
SpentNotReplayed == form.submit.state = "pending" => form.submit.key \notin ghost.spent

\* "the outcome is decided by the stage, never by the HTTP status"
\* (SsoEditForm.tsx:51): the success message is shown only for a request that
\* had a pull request, also when the answer is the replay of an older one.
OpenedIsReal == form.open /\ Opened => form.submit.key \in ghost.prs

\* The edit form: what was previewed is submitted, once, under a key of its own, and a
\* success message is true (SsoEditForm.tsx, ssoChangeSupport.ts).
FormSound ==
  SubmittedWasPreviewed /\ OneRequestPerDraft /\ NoMismatch /\ SpentNotReplayed /\ OpenedIsReal

\* Requests move on without the console: whenever they come to rest, the banner
\* comes to show exactly the open ones with their stages (hooks.ts:235).
BannerCatchesUp == <>[](WithBanner => banner.items = OpenItems)
=============================================================================
