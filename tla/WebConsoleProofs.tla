--------------------------- MODULE WebConsoleProofs ---------------------------
(***************************************************************************)
(* What the web console promises: its edit form (WebSsoChange), then its   *)
(* session (WebSession), for every value of the constants.                 *)
(*                                                                         *)
(* The edit form, although answers are lost and requests arrive late.  The *)
(* invariant speaks of everything that was ever sent and is not lost       *)
(* (Sends): the requests on the wire and those the server recorded.  A     *)
(* request sent under the form's key carries the payload the key was drawn *)
(* for; all requests of the current series of retries use that key or one  *)
(* the form was told is spent.                                             *)
(*                                                                         *)
(* The session, whatever the provider, the browser, the API and the user   *)
(* do.  The invariant says what a page that has not settled cannot have    *)
(* (PageInv), who may still be sent to the provider (LoopInv), why a code  *)
(* is spent (CodeInv), and where a logout is remembered (LogoutInv).       *)
(***************************************************************************)
EXTENDS WebSsoChange, WebSession, TLAPS

Texts == Reasons \cup {""}
Payloads == (SUBSET Groups) \X Texts \X Nat
Stages == {"submitted", "pr_open", "unknown_recovering", "merged", "applied", "failed", "rejected"}
Errors == {"", "network", "AUDIT_UNAVAILABLE", "IDEMPOTENCY_KEY_COLLISION", "IDEMPOTENCY_MISMATCH",
           "STALE_BASE", "OPEN_REQUEST_EXISTS", "GIT_WRITE"}

Previews == [blob : Nat, fingerprint : Payloads]
KeyRefs == [fingerprint : Payloads, key : Keys]
Drafts == [groups : SUBSET Groups, reason : Texts]
Message == [key : Keys, payload : Payloads, run : Nat]
Mutation == [state : {"idle", "pending", "answered", "error"}, key : Nat, stage : Stages \cup {""},
             error : Errors]
FormState == [open : BOOLEAN, n : Nat, selected : SUBSET Groups, reason : Texts,
              preview : {None} \cup Previews, key : {None} \cup KeyRefs,
              previewing : {None} \cup Drafts, submit : Mutation]
NoRecord == [stage |-> "none"]
History == [keys : Nat, posts : Nat, previewed : SUBSET Payloads, spent : SUBSET Keys, run : Nat,
            last : {<<>>} \cup (Nat \X Payloads), prs : SUBSET Keys]

TypeOK ==
  /\ form \in FormState
  /\ wire \subseteq Message
  /\ blob \in Nat
  /\ records \in [Keys -> {NoRecord} \cup [stage : Stages, payload : Payloads, run : Nat]]
  /\ ghost \in History

-------------------------------------------------------------------------------
(* The inductive invariant. *)

Recorded(k) == [key |-> k, payload |-> records[k].payload, run |-> records[k].run]
Sends == wire \cup {Recorded(k) : k \in {j \in Keys : Exists(j)}}

(* The preview shown is one the server gave. *)
PreviewInv == form.preview # None => form.preview.fingerprint \in ghost.previewed

(* Keys are drawn in order, one key has one payload, and of the keys of one *)
(* series all but one are spent.                                            *)
SendsInv ==
  /\ SubmittedWasPreviewed
  /\ \A k \in ghost.spent : k <= ghost.keys
  /\ \A a \in Sends : a.key <= ghost.keys /\ a.run <= ghost.run
  /\ \A a, b \in Sends : a.key = b.key => a.payload = b.payload
  /\ \A a, b \in Sends : a.run = b.run => a.key = b.key \/ {a.key, b.key} \cap ghost.spent # {}

(* keyRef holds an unspent key and the payload of everything sent under it. *)
KeyInv ==
  form.key # None =>
    /\ form.open
    /\ form.key.key <= ghost.keys /\ form.key.key \notin ghost.spent
    /\ ghost.last = <<form.n, form.key.fingerprint>>
    /\ \A a \in Sends : a.key = form.key.key => a.payload = form.key.fingerprint

(* What this form sent in the current series has the form's key or a spent one. *)
SeriesInv ==
  ghost.last # <<>> =>
    /\ ghost.last[1] <= form.n
    /\ form.open /\ ghost.last[1] = form.n =>
         \A a \in Sends : a.run = ghost.run =>
           a.key \in ghost.spent \/ (form.key # None /\ form.key.key = a.key)

(* What the mutation's state says. *)
SubmitInv ==
  /\ form.submit.state = "pending" => form.key # None /\ form.key.key = form.submit.key
  /\ form.submit.state = "answered" =>
       /\ form.submit.stage # ""
       /\ form.submit.stage \in {"pr_open", "merged", "applied"} => form.submit.key \in ghost.prs
  /\ NoMismatch

FormInv == TypeOK /\ PreviewInv /\ SendsInv /\ KeyInv /\ SeriesInv /\ SubmitInv

-------------------------------------------------------------------------------
(* Typing. *)

LEMMA NoneIsNoRef == \A r \in KeyRefs : r # None
<1> SUFFICES ASSUME NEW r \in KeyRefs, r = None PROVE FALSE
  OBVIOUS
<1>1. "key" \in DOMAIN r /\ DOMAIN None = {"none"}
  BY DEF KeyRefs, None
<1> QED
  BY <1>1

LEMMA NoRecordStage ==
  ASSUME TypeOK, NEW k \in Keys
  PROVE  /\ Exists(k) => records[k] \in [stage : Stages, payload : Payloads, run : Nat]
         /\ ~Exists(k) => records[k] = NoRecord
<1>1. "none" \notin Stages
  BY DEF Stages
<1> QED
  BY <1>1 DEF TypeOK, Exists, NoRecord

LEMMA IdleTyped == Idle \in Mutation /\ Idle.state = "idle"
  BY DEF Idle, Mutation, Stages, Errors

LEMMA DraftTyped == ASSUME TypeOK PROVE Draft \in Drafts
  BY DEF TypeOK, FormState, Draft, Drafts, Trimmed, Texts

LEMMA FingerprintTyped ==
  ASSUME NEW d \in Drafts, NEW b \in Nat PROVE DraftFingerprint(d, b) \in Payloads
  BY DEF Drafts, DraftFingerprint, Payloads

LEMMA NewFormTyped == ASSUME NEW n \in Nat PROVE NewForm(n) \in FormState
  BY IdleTyped DEF NewForm, FormState, Texts

(* What was sent is typed like what is on the wire. *)
LEMMA SendsTyped == ASSUME TypeOK PROVE Sends \subseteq Message
<1>1. \A k \in Keys : Exists(k) => Recorded(k) \in Message
  BY NoRecordStage DEF Recorded, Message
<1> QED
  BY <1>1 DEF Sends, TypeOK

-------------------------------------------------------------------------------
(* Steps that send nothing and settle nothing. *)

(* The mutation, keyRef and the form itself stay, the preview stays or is a *)
(* new answer of the server, and history only gains previews and pull       *)
(* requests.                                                                *)
HistoryGrows ==
  /\ ghost'.keys = ghost.keys /\ ghost'.run = ghost.run /\ ghost'.last = ghost.last
  /\ ghost'.spent = ghost.spent
  /\ ghost.previewed \subseteq ghost'.previewed /\ ghost.prs \subseteq ghost'.prs

FormStays ==
  /\ form'.key = form.key /\ form'.n = form.n /\ form'.open = form.open
  /\ form'.submit \in {form.submit, Idle}
  /\ form'.preview = form.preview \/ form'.preview.fingerprint \in ghost'.previewed

LEMMA SendsKeep ==
  ASSUME SendsInv, Sends' \subseteq Sends, wire' \subseteq wire,
         ghost'.keys = ghost.keys, ghost'.run = ghost.run,
         ghost.previewed \subseteq ghost'.previewed, ghost.spent \subseteq ghost'.spent,
         \A k \in ghost'.spent : k <= ghost.keys
  PROVE  SendsInv'
  BY DEF SendsInv, SubmittedWasPreviewed

LEMMA QuietKeeps ==
  ASSUME FormInv, TypeOK', HistoryGrows, FormStays, wire' \subseteq wire, Sends' \subseteq Sends
  PROVE  FormInv'
<1>1. SendsInv'
  BY SendsKeep DEF FormInv, HistoryGrows, SendsInv
<1>2. PreviewInv'
  BY DEF FormInv, PreviewInv, HistoryGrows, FormStays
<1>3. KeyInv' /\ SeriesInv'
  BY DEF FormInv, KeyInv, SeriesInv, HistoryGrows, FormStays
<1>4. SubmitInv'
  <2>1. CASE form'.submit = form.submit
    BY <2>1 DEF FormInv, SubmitInv, NoMismatch, HistoryGrows, FormStays
  <2>2. CASE form'.submit = Idle
    <3>1. form'.submit.state = "idle"
      BY <2>2, IdleTyped
    <3> QED
      BY <3>1 DEF SubmitInv, NoMismatch
  <2> QED
    BY <2>1, <2>2 DEF FormStays
<1> QED
  BY <1>1, <1>2, <1>3, <1>4 DEF FormInv

LEMMA SendsSame == ASSUME UNCHANGED <<wire, records>> PROVE Sends' = Sends /\ wire' = wire
  BY DEF Sends, Recorded, Exists

(* A record that moves on keeps what was sent. *)
LEMMA MovesKeepSends ==
  ASSUME TypeOK, wire' = wire,
         NEW k, records[k].stage \in Active \cup DOMAIN Moves,
         NEW s \in Stages, records' = [records EXCEPT ![k].stage = s]
  PROVE  /\ Sends' \subseteq Sends /\ wire' \subseteq wire
         /\ records' \in [Keys -> {NoRecord} \cup [stage : Stages, payload : Payloads, run : Nat]]
<1>1. CASE k \in Keys
  <2>1. Exists(k)
    BY DEF Exists, Active, Moves
  <2>2. records[k] \in [stage : Stages, payload : Payloads, run : Nat]
    BY <1>1, <2>1, NoRecordStage
  <2>3. records'[k] = [records[k] EXCEPT !.stage = s] /\ \A j \in Keys \ {k} : records'[j] = records[j]
    BY <1>1 DEF TypeOK
  <2>4. \A j \in Keys : Exists(j)' => Exists(j) /\ Recorded(j)' = Recorded(j)
    BY <2>1, <2>2, <2>3 DEF Exists, Recorded
  <2> QED
    BY <1>1, <2>2, <2>3, <2>4 DEF Sends, TypeOK
<1>2. CASE k \notin Keys
  <2>1. records' = records
    BY <1>2 DEF TypeOK
  <2> QED
    BY <2>1, SendsSame DEF TypeOK
<1> QED
  BY <1>1, <1>2

LEMMA FormEdited ==
  ASSUME TypeOK, Toggle \/ SetReason PROVE form' \in FormState /\ FormStays
<1>1. CASE Toggle
  <2>1. PICK g \in Groups : form' = [form EXCEPT !.selected = IF g \in @ THEN @ \ {g} ELSE @ \cup {g}]
    BY <1>1 DEF Toggle
  <2> QED
    BY <2>1 DEF TypeOK, FormState, FormStays
<1>2. CASE SetReason
  <2>1. PICK r \in Reasons : form' = [form EXCEPT !.reason = r]
    BY <1>2 DEF SetReason
  <2> QED
    BY <2>1 DEF TypeOK, FormState, FormStays, Texts
<1> QED
  BY <1>1, <1>2

LEMMA EditKeeps == ASSUME FormInv, Toggle \/ SetReason PROVE FormInv'
<1>1. UNCHANGED <<wire, blob, records, ghost>> /\ TypeOK
  BY DEF Toggle, SetReason, FormInv
<1>2. form' \in FormState /\ FormStays
  BY <1>1, FormEdited
<1> QED
  BY <1>1, <1>2, QuietKeeps, SendsSame DEF TypeOK, HistoryGrows

LEMMA RunPreviewKeeps == ASSUME FormInv, RunPreview PROVE FormInv'
<1>1. UNCHANGED <<wire, blob, records, ghost>> /\ TypeOK
      /\ form' = [form EXCEPT !.submit = Idle, !.previewing = Draft]
  BY DEF RunPreview, FormInv
<1>2. form' \in FormState /\ FormStays
  BY <1>1, IdleTyped, DraftTyped DEF TypeOK, FormState, FormStays
<1> QED
  BY <1>1, <1>2, QuietKeeps, SendsSame DEF TypeOK, HistoryGrows

LEMMA PreviewDoneKeeps == ASSUME FormInv, PreviewDone PROVE FormInv'
<1>0. UNCHANGED <<wire, blob, records>> /\ TypeOK /\ form.previewing \in Drafts
  BY DEF PreviewDone, FormInv, TypeOK, FormState
<1> DEFINE f == DraftFingerprint(form.previewing, blob)
<1>1. f \in Payloads
  BY <1>0, FingerprintTyped DEF TypeOK
<1> HIDE DEF f
<1>2. CASE /\ form' = [form EXCEPT !.previewing = None, !.preview = [blob |-> blob, fingerprint |-> f]]
           /\ ghost' = [ghost EXCEPT !.previewed = @ \cup {f}]
  <2>1. ghost' \in History /\ HistoryGrows /\ f \in ghost'.previewed
    BY <1>0, <1>1, <1>2 DEF TypeOK, History, HistoryGrows
  <2>2. [blob |-> blob, fingerprint |-> f] \in Previews
    BY <1>0, <1>1 DEF TypeOK, Previews
  <2>3. form' \in FormState /\ FormStays
    BY <1>0, <1>2, <2>1, <2>2 DEF TypeOK, FormState, FormStays
  <2> QED
    BY <1>0, <2>1, <2>3, QuietKeeps, SendsSame DEF TypeOK
<1>3. CASE form' = [form EXCEPT !.previewing = None] /\ UNCHANGED ghost
  <2>1. form' \in FormState /\ FormStays /\ HistoryGrows
    BY <1>0, <1>3 DEF TypeOK, FormState, FormStays, HistoryGrows
  <2> QED
    BY <1>0, <1>3, <2>1, QuietKeeps, SendsSame DEF TypeOK
<1> QED
  BY <1>2, <1>3 DEF PreviewDone, f

LEMMA BannerKeeps ==
  ASSUME FormInv, UNCHANGED <<form, wire, blob, records, ghost>> PROVE FormInv'
  BY SendsSame, QuietKeeps DEF FormInv, TypeOK, HistoryGrows, FormStays

LEMMA ServerMovesKeeps == ASSUME FormInv, ServerMoves PROVE FormInv'
<1>0. UNCHANGED <<form, wire>> /\ TypeOK
  BY DEF ServerMoves, FormInv
<1>1. CASE blob < MaxBlobs /\ blob' = blob + 1 /\ UNCHANGED <<records, ghost>>
  BY <1>0, <1>1, SendsSame, QuietKeeps DEF TypeOK, HistoryGrows, FormStays
<1>2. ASSUME NEW k \in Keys, NEW s \in {"pr_open", "failed", "merged", "rejected", "applied"},
             records[k].stage \in DOMAIN Moves,
             records' = [records EXCEPT ![k].stage = s],
             blob' = IF s = "merged" /\ blob < MaxBlobs THEN blob + 1 ELSE blob,
             ghost' = [ghost EXCEPT !.prs = IF s = "pr_open" THEN @ \cup {k} ELSE @]
      PROVE  FormInv'
  <2>1. s \in Stages
    BY DEF Stages
  <2>2. /\ Sends' \subseteq Sends /\ wire' \subseteq wire
        /\ records' \in [Keys -> {NoRecord} \cup [stage : Stages, payload : Payloads, run : Nat]]
    BY <1>0, <1>2, <2>1, MovesKeepSends
  <2>3. ghost' \in History /\ HistoryGrows
    BY <1>0, <1>2 DEF TypeOK, History, HistoryGrows
  <2>4. blob' \in Nat
    BY <1>0, <1>2 DEF TypeOK
  <2>5. TypeOK'
    BY <1>0, <2>2, <2>3, <2>4 DEF TypeOK
  <2> QED
    BY <1>0, <2>2, <2>3, <2>5, QuietKeeps DEF FormStays
<1> QED
  BY <1>1, <1>2 DEF ServerMoves

LEMMA CancelDoneKeeps == ASSUME FormInv, CancelDone PROVE FormInv'
<1>0. UNCHANGED <<form, wire, blob, ghost>> /\ TypeOK
  BY DEF CancelDone, FormInv
<1>1. CASE UNCHANGED records
  BY <1>0, <1>1, BannerKeeps
<1>2. ASSUME NEW k, records[k].stage \in Active, records' = [records EXCEPT ![k].stage = "failed"]
      PROVE  FormInv'
  <2>1. "failed" \in Stages
    BY DEF Stages
  <2>2. /\ Sends' \subseteq Sends /\ wire' \subseteq wire
        /\ records' \in [Keys -> {NoRecord} \cup [stage : Stages, payload : Payloads, run : Nat]]
    BY <1>0, <1>2, <2>1, MovesKeepSends
  <2>3. TypeOK'
    BY <1>0, <2>2 DEF TypeOK
  <2> QED
    BY <1>0, <2>2, <2>3, QuietKeeps DEF FormStays, HistoryGrows
<1> QED
  BY <1>1, <1>2 DEF CancelDone

-------------------------------------------------------------------------------
(* The form comes and goes: keyRef is empty and no series of its own began. *)

LEMMA RemountKeeps ==
  ASSUME FormInv, UNCHANGED <<wire, blob, records, ghost>>, NEW n \in Nat, n >= form.n,
         (form' = NewForm(n) /\ n > form.n) \/ form' = [NewForm(n) EXCEPT !.open = FALSE]
  PROVE  FormInv'
<1>1. /\ form' \in FormState /\ form'.key = None /\ form'.preview = None /\ form'.n = n
      /\ form'.submit = Idle /\ (form'.open => n > form.n)
  <2>1. NewForm(n) \in FormState /\ NewForm(n).key = None /\ NewForm(n).preview = None
        /\ NewForm(n).n = n /\ NewForm(n).submit = Idle
    BY NewFormTyped DEF NewForm
  <2> QED
    BY <2>1 DEF FormState
<1>2. form'.submit.state = "idle"
  BY <1>1, IdleTyped
<1>3. TypeOK' /\ TypeOK
  BY <1>1 DEF FormInv, TypeOK
<1>4. Sends' = Sends /\ SendsInv'
  BY SendsSame, SendsKeep DEF FormInv, SendsInv
<1>5. ghost.last # <<>> => ghost.last[1] \in Nat
  BY <1>3 DEF TypeOK, History
<1>6. SeriesInv'
  BY <1>1, <1>3, <1>5 DEF FormInv, SeriesInv, TypeOK, FormState
<1> QED
  BY <1>1, <1>2, <1>3, <1>4, <1>6 DEF FormInv, PreviewInv, KeyInv, SubmitInv, NoMismatch

LEMMA OpenCloseKeeps == ASSUME FormInv, OpenForm \/ CloseForm PROVE FormInv'
<1>1. form.n \in Nat
  BY DEF FormInv, TypeOK, FormState
<1>2. form.n + 1 \in Nat /\ form.n + 1 > form.n /\ form.n >= form.n /\ form.n + 1 >= form.n
  BY <1>1
<1>3. CASE OpenForm
  BY <1>2, <1>3, RemountKeeps DEF OpenForm
<1>4. CASE CloseForm
  BY <1>1, <1>2, <1>4, RemountKeeps DEF CloseForm
<1> QED
  BY <1>3, <1>4

-------------------------------------------------------------------------------
(* A submit: a request under the form's key, or under a fresh one. *)

LEMMA KeyForTyped ==
  ASSUME TypeOK, NEW f \in Payloads, KeyFor(f).key \in Keys
  PROVE  /\ KeyFor(f) \in KeyRefs /\ KeyFor(f).fingerprint = f
         /\ \/ form.key # None /\ KeyFor(f) = form.key
            \/ KeyFor(f).key = ghost.keys + 1
<1>1. CASE form.key # None /\ form.key.fingerprint = f
  BY <1>1 DEF KeyFor, TypeOK, FormState
<1>2. CASE ~(form.key # None /\ form.key.fingerprint = f)
  <2>1. KeyFor(f) = [fingerprint |-> f, key |-> ghost.keys + 1]
    BY <1>2 DEF KeyFor
  <2> QED
    BY <2>1 DEF KeyRefs
<1> QED
  BY <1>1, <1>2

LEMMA RunSubmitKeeps == ASSUME FormInv, RunSubmit PROVE FormInv'
<1>0. TypeOK /\ UNCHANGED <<blob, records>> /\ form.open
  BY DEF FormInv, RunSubmit
<1> DEFINE f == DraftFingerprint(Draft, form.preview.blob)
           key == KeyFor(f)
           run == IF ghost.last = <<form.n, f>> THEN ghost.run ELSE ghost.run + 1
           m == [key |-> key.key, payload |-> f, run |-> run]
<1>1. f \in Payloads /\ f \in ghost.previewed
  <2>1. form.preview \in Previews /\ form.preview # None /\ ~PreviewStale
    BY <1>0 DEF RunSubmit, TypeOK, FormState
  <2>2. f = form.preview.fingerprint
    BY <2>1 DEF PreviewStale
  <2> QED
    BY <2>1, <2>2 DEF Previews, FormInv, PreviewInv
<1>2. /\ key.key \in Keys
      /\ form' = [form EXCEPT !.key = key, !.submit = [Idle EXCEPT !.state = "pending", !.key = key.key]]
      /\ wire' = wire \cup {m}
      /\ ghost' = [ghost EXCEPT !.keys = IF key.key > @ THEN key.key ELSE @,
                                !.posts = @ + 1, !.run = run, !.last = <<form.n, f>>]
  BY DEF RunSubmit, DraftFingerprint
<1> HIDE DEF f
<1>3. /\ key \in KeyRefs /\ key # None /\ key.fingerprint = f
      /\ \/ form.key # None /\ key = form.key
         \/ key.key = ghost.keys + 1
  BY <1>0, <1>1, <1>2, KeyForTyped, NoneIsNoRef
<1> HIDE DEF key
<1>4. run \in Nat /\ ghost.run \in Nat /\ form.n \in Nat /\ ghost.keys \in Nat /\ key.key \in Nat
  BY <1>0, <1>2 DEF TypeOK, FormState, History, Keys
<1> HIDE DEF run
<1>5. [Idle EXCEPT !.state = "pending", !.key = key.key] \in Mutation
  BY <1>4, IdleTyped DEF Mutation
<1>6. /\ form' \in FormState /\ form'.key = key /\ form'.open = form.open /\ form'.n = form.n
      /\ form'.preview = form.preview /\ form'.submit.state = "pending" /\ form'.submit.key = key.key
  <2>1. /\ [Idle EXCEPT !.state = "pending", !.key = key.key].state = "pending"
        /\ [Idle EXCEPT !.state = "pending", !.key = key.key].key = key.key
    BY IdleTyped DEF Mutation
  <2> QED
    BY <1>0, <1>2, <1>3, <1>5, <2>1 DEF TypeOK, FormState
<1>7. /\ ghost' \in History /\ ghost'.previewed = ghost.previewed /\ ghost'.spent = ghost.spent
      /\ ghost'.prs = ghost.prs /\ ghost'.run = run /\ ghost'.last = <<form.n, f>>
      /\ ghost'.keys = IF key.key > ghost.keys THEN key.key ELSE ghost.keys
  <2> DEFINE top == IF key.key > ghost.keys THEN key.key ELSE ghost.keys
             last == <<form.n, f>>
             posts == ghost.posts + 1
  <2>1. top \in Nat /\ last \in {<<>>} \cup (Nat \X Payloads) /\ ghost \in History
    BY <1>0, <1>1, <1>4 DEF TypeOK
  <2>2. ghost' = [ghost EXCEPT !.keys = top, !.posts = posts, !.run = run, !.last = last]
    BY <1>2, <2>1 DEF History
  <2>4. posts \in Nat
    BY <2>1 DEF History
  <2> HIDE DEF top, last, posts
  <2>3. /\ ghost' \in History /\ ghost'.previewed = ghost.previewed /\ ghost'.spent = ghost.spent
        /\ ghost'.prs = ghost.prs /\ ghost'.run = run /\ ghost'.last = last /\ ghost'.keys = top
    BY <1>4, <2>1, <2>2, <2>4 DEF History
  <2> QED
    BY <2>3 DEF top, last
<1>8. m \in Message /\ Sends' = Sends \cup {m} /\ m.key = key.key /\ m.payload = f /\ m.run = run
  BY <1>0, <1>1, <1>2, <1>4 DEF Message, Sends, Recorded, Exists
<1>9. TypeOK'
  BY <1>0, <1>2, <1>6, <1>7, <1>8 DEF TypeOK
<1>10. Sends \subseteq Message
  BY <1>0, SendsTyped
<1> HIDE DEF m
<1>11. \A a \in Sends : a.key = key.key => a.payload = f
  <2>1. CASE form.key # None /\ key = form.key
    BY <1>3, <2>1 DEF FormInv, KeyInv
  <2>2. CASE key.key = ghost.keys + 1
    BY <1>4, <1>10, <2>2 DEF FormInv, SendsInv, Message, Keys
  <2> QED
    BY <1>3, <2>1, <2>2
<1>12. \A a \in Sends : a.run = run => a.key \in ghost.spent \/ a.key = key.key
  <2> SUFFICES ASSUME NEW a \in Sends, a.run = run PROVE a.key \in ghost.spent \/ a.key = key.key
    OBVIOUS
  <2>1. a.run <= ghost.run /\ a.run \in Nat
    BY <1>10 DEF FormInv, SendsInv, Message
  <2>2. ghost.last = <<form.n, f>> /\ run = ghost.run
    BY <1>4, <2>1 DEF run
  <2>3. ghost.last # <<>> /\ ghost.last[1] = form.n /\ ghost.last[2] = f
    BY <2>2
  <2>4. a.key \in ghost.spent \/ (form.key # None /\ form.key.key = a.key)
    BY <1>0, <2>2, <2>3 DEF FormInv, SeriesInv
  <2>5. ASSUME form.key # None PROVE key = form.key
    <3>1. ghost.last = <<form.n, form.key.fingerprint>>
      BY <2>5 DEF FormInv, KeyInv
    <3>2. form.key.fingerprint = f
      BY <2>2, <3>1
    <3> QED
      BY <2>5, <3>2 DEF key, KeyFor
  <2> QED
    BY <2>4, <2>5
<1>13. key.key \notin ghost.spent /\ \A k \in ghost.spent : k <= ghost.keys /\ k \in Nat
  BY <1>0, <1>3, <1>4 DEF FormInv, KeyInv, SendsInv, TypeOK, History, Keys
<1>14. ghost.run <= run /\ ghost.keys <= ghost'.keys /\ key.key <= ghost'.keys /\ ghost'.keys \in Nat
  BY <1>4, <1>7 DEF run
<1>15. SendsInv'
  <2>1. SubmittedWasPreviewed'
    BY <1>1, <1>2, <1>7, <1>8 DEF FormInv, SendsInv, SubmittedWasPreviewed
  <2>2. \A k \in ghost'.spent : k <= ghost'.keys
    BY <1>4, <1>7, <1>13, <1>14
  <2>3. \A a \in Sends' : a.key <= ghost'.keys /\ a.run <= ghost'.run
    <3>1. \A a \in Sends : a.key <= ghost.keys /\ a.run <= ghost.run /\ a.key \in Nat /\ a.run \in Nat
      BY <1>10 DEF FormInv, SendsInv, Message, Keys
    <3> QED
      BY <1>4, <1>7, <1>8, <1>14, <3>1
  <2>4. \A a, b \in Sends' : a.key = b.key => a.payload = b.payload
    BY <1>8, <1>11 DEF FormInv, SendsInv
  <2>5. \A a, b \in Sends' : a.run = b.run => a.key = b.key \/ {a.key, b.key} \cap ghost'.spent # {}
    BY <1>7, <1>8, <1>12 DEF FormInv, SendsInv
  <2> QED
    BY <2>1, <2>2, <2>3, <2>4, <2>5 DEF SendsInv
<1>16. PreviewInv'
  BY <1>6, <1>7 DEF FormInv, PreviewInv
<1>17. KeyInv'
  BY <1>0, <1>3, <1>6, <1>7, <1>8, <1>11, <1>13, <1>14 DEF KeyInv
<1>18. SeriesInv'
  <2>1. ghost'.last[1] = form.n
    BY <1>7
  <2> QED
    BY <1>3, <1>4, <1>6, <1>7, <1>8, <1>12, <2>1 DEF SeriesInv
<1>19. SubmitInv'
  BY <1>3, <1>6 DEF SubmitInv, NoMismatch
<1> QED
  BY <1>9, <1>15, <1>16, <1>17, <1>18, <1>19 DEF FormInv

-------------------------------------------------------------------------------
(* An answer, or the failure of the call, settles the mutation. *)

LEMMA SettleKeeps ==
  ASSUME FormInv, wire' \subseteq wire, Sends' \subseteq Sends, UNCHANGED blob,
         records' \in [Keys -> {NoRecord} \cup [stage : Stages, payload : Payloads, run : Nat]],
         form.open, form.submit.state = "pending",
         NEW stage \in Stages \cup {""}, NEW error \in Errors \ {"IDEMPOTENCY_MISMATCH"},
         error = "" <=> stage # "",
         Settle(form.submit.key, stage, error)
  PROVE  FormInv'
<1> DEFINE k == form.submit.key
           spends == stage \in Ended \/ error = "IDEMPOTENCY_KEY_COLLISION"
           opens == stage \in {"pr_open", "merged", "applied"}
<1>0. TypeOK /\ form.key # None /\ form.key.key = k /\ form.key \in KeyRefs /\ k \in Keys /\ k \in Nat
  <2>1. TypeOK /\ form.key # None /\ form.key.key = k
    BY DEF FormInv, SubmitInv
  <2>2. form.key \in KeyRefs
    BY <2>1 DEF TypeOK, FormState
  <2>3. k \in Keys
    BY <2>1, <2>2 DEF KeyRefs
  <2>4. k \in Nat
    BY <2>1 DEF TypeOK, FormState, Mutation
  <2> QED
    BY <2>1, <2>2, <2>3, <2>4
<1> DEFINE sub == [state |-> IF error = "" THEN "answered" ELSE "error",
                   key |-> k, stage |-> stage, error |-> error]
<1>1. /\ sub \in Mutation /\ sub.key = k /\ sub.stage = stage /\ sub.error = error
      /\ sub.state = IF error = "" THEN "answered" ELSE "error"
  BY <1>0 DEF Mutation
<1>2. /\ form' = [form EXCEPT !.submit = sub, !.key = IF spends THEN None ELSE form.key]
      /\ ghost' = [ghost EXCEPT !.spent = IF spends THEN @ \cup {k} ELSE @,
                                !.prs = IF opens THEN @ \cup {k} ELSE @]
  BY <1>0 DEF Settle, Forgets, TypeOK, FormState
<1> HIDE DEF sub, spends, k, opens
<1>3. /\ form' \in FormState /\ form'.submit = sub /\ form'.key = IF spends THEN None ELSE form.key
      /\ form'.n = form.n /\ form'.open /\ form'.preview = form.preview
  BY <1>0, <1>1, <1>2 DEF TypeOK, FormState
<1>4. /\ ghost' \in History /\ ghost'.keys = ghost.keys /\ ghost'.run = ghost.run
      /\ ghost'.last = ghost.last /\ ghost'.previewed = ghost.previewed
      /\ ghost'.spent = IF spends THEN ghost.spent \cup {k} ELSE ghost.spent
      /\ ghost'.prs = IF opens THEN ghost.prs \cup {k} ELSE ghost.prs
  BY <1>0, <1>2 DEF TypeOK, History
<1>5. TypeOK'
  BY <1>0, <1>3, <1>4 DEF TypeOK
<1>6. k <= ghost.keys
  BY <1>0 DEF FormInv, KeyInv
<1>7. SendsInv'
  <2>1. \A j \in ghost'.spent : j <= ghost.keys
    BY <1>4, <1>6 DEF FormInv, SendsInv
  <2> QED
    BY <1>4, <2>1, SendsKeep DEF FormInv
<1>8. PreviewInv'
  BY <1>3, <1>4 DEF FormInv, PreviewInv
<1>9. KeyInv'
  BY <1>3, <1>4 DEF FormInv, KeyInv
<1>10. SeriesInv'
  <2>1. CASE spends
    BY <1>0, <1>3, <1>4, <2>1 DEF FormInv, SeriesInv
  <2>2. CASE ~spends
    BY <1>3, <1>4, <2>2 DEF FormInv, SeriesInv
  <2> QED
    BY <2>1, <2>2
<1>11. SubmitInv'
  BY <1>1, <1>3, <1>4 DEF SubmitInv, NoMismatch, opens
<1> QED
  BY <1>5, <1>7, <1>8, <1>9, <1>10, <1>11 DEF FormInv

(* Nobody waits: only the request and its record are touched. *)
LEMMA UnheardKeeps ==
  ASSUME FormInv, wire' \subseteq wire, Sends' \subseteq Sends, UNCHANGED <<blob, form, ghost>>,
         records' \in [Keys -> {NoRecord} \cup [stage : Stages, payload : Payloads, run : Nat]]
  PROVE  FormInv'
<1>1. TypeOK'
  BY DEF FormInv, TypeOK
<1> QED
  BY <1>1, QuietKeeps DEF HistoryGrows, FormStays

LEMMA AnswerKeeps ==
  ASSUME FormInv, wire' \subseteq wire, Sends' \subseteq Sends, UNCHANGED blob,
         records' \in [Keys -> {NoRecord} \cup [stage : Stages, payload : Payloads, run : Nat]],
         NEW m, NEW stage \in Stages \cup {""}, NEW error \in Errors \ {"IDEMPOTENCY_MISMATCH"},
         error = "" <=> stage # "",
         Answer(m, stage, error)
  PROVE  FormInv'
<1>1. CASE Waits(m)
  <2>1. form.open /\ form.submit.state = "pending" /\ Settle(form.submit.key, stage, error)
    BY <1>1 DEF Answer, Waits
  <2> QED
    BY <2>1, SettleKeeps
<1>2. CASE ~Waits(m)
  <2>1. UNCHANGED <<form, ghost>>
    BY <1>2 DEF Answer
  <2> QED
    BY <2>1, UnheardKeeps
<1> QED
  BY <1>1, <1>2

LEMMA NetworkFailsKeeps == ASSUME FormInv, NetworkFails PROVE FormInv'
<1>1. UNCHANGED <<blob, records>> /\ wire' \subseteq wire
  BY DEF NetworkFails
<1>2. Sends' \subseteq Sends
  BY <1>1 DEF Sends, Recorded, Exists
<1>3. form.open /\ form.submit.state = "pending" /\ Settle(form.submit.key, "", "network")
  BY DEF NetworkFails
<1>4. records' \in [Keys -> {NoRecord} \cup [stage : Stages, payload : Payloads, run : Nat]]
  BY <1>1 DEF FormInv, TypeOK
<1>5. "network" \in Errors \ {"IDEMPOTENCY_MISMATCH"} /\ "network" # ""
  BY DEF Errors
<1> QED
  BY <1>1, <1>2, <1>3, <1>4, <1>5, SettleKeeps

LEMMA HandleSubmitKeeps == ASSUME FormInv, HandleSubmit PROVE FormInv'
<1>0. TypeOK /\ UNCHANGED blob
  BY DEF FormInv, HandleSubmit
<1> DEFINE known(m) ==
             /\ Exists(m.key)
             /\ IF records[m.key].payload = m.payload
                THEN Answer(m, records[m.key].stage, "") /\ Invalidate(m)
                ELSE Answer(m, "", "IDEMPOTENCY_MISMATCH") /\ UNCHANGED banner
             /\ UNCHANGED records
           refused(m) ==
             \E error \in {"AUDIT_UNAVAILABLE", "IDEMPOTENCY_KEY_COLLISION", "STALE_BASE", "OPEN_REQUEST_EXISTS"} :
               Answer(m, "", error) /\ UNCHANGED records
           taken(m) ==
             /\ ~Exists(m.key)
             /\ records' = [records EXCEPT ![m.key] = [stage |-> "submitted", payload |-> m.payload, run |-> m.run]]
             /\ UNCHANGED <<form, ghost>>
<1>1. PICK m \in wire : wire' = wire \ {m} /\ (known(m) \/ refused(m) \/ taken(m))
  BY DEF HandleSubmit
<1>2. m \in Message /\ m.key \in Keys /\ m \in Sends /\ wire' \subseteq wire
  BY <1>0, <1>1 DEF TypeOK, Message, Sends
<1>3. ASSUME UNCHANGED records
      PROVE  /\ Sends' \subseteq Sends
             /\ records' \in [Keys -> {NoRecord} \cup [stage : Stages, payload : Payloads, run : Nat]]
  BY <1>0, <1>2, <1>3 DEF Sends, Recorded, Exists, TypeOK
<1>4. CASE known(m)
  <2>1. Recorded(m.key) \in Sends /\ records[m.key] \in [stage : Stages, payload : Payloads, run : Nat]
    BY <1>0, <1>2, <1>4, NoRecordStage DEF Sends
  <2>2. records[m.key].payload = m.payload
    BY <1>2, <2>1 DEF FormInv, SendsInv, Recorded
  <2>3. Answer(m, records[m.key].stage, "") /\ records[m.key].stage \in Stages /\ UNCHANGED records
    BY <1>4, <2>1, <2>2
  <2>4. "" \in Errors \ {"IDEMPOTENCY_MISMATCH"} /\ "" \notin Stages
    BY DEF Errors, Stages
  <2> QED
    BY <1>0, <1>2, <1>3, <2>3, <2>4, AnswerKeeps
<1>5. CASE refused(m)
  <2>1. PICK error \in {"AUDIT_UNAVAILABLE", "IDEMPOTENCY_KEY_COLLISION", "STALE_BASE", "OPEN_REQUEST_EXISTS"} :
          Answer(m, "", error) /\ UNCHANGED records
    BY <1>5
  <2>2. error \in Errors \ {"IDEMPOTENCY_MISMATCH"} /\ error # ""
    BY DEF Errors
  <2> QED
    BY <1>0, <1>2, <1>3, <2>1, <2>2, AnswerKeeps
<1>6. CASE taken(m)
  <2>1. /\ ~Exists(m.key) /\ UNCHANGED <<form, ghost>>
        /\ records' = [records EXCEPT ![m.key] = [stage |-> "submitted", payload |-> m.payload, run |-> m.run]]
    BY <1>6
  <2>2. "submitted" \in Stages
    BY DEF Stages
  <2> DEFINE rec == [stage |-> "submitted", payload |-> m.payload, run |-> m.run]
  <2>3. rec \in [stage : Stages, payload : Payloads, run : Nat] /\ rec.payload = m.payload /\ rec.run = m.run
    BY <1>2, <2>2 DEF Message
  <2>4. records'[m.key] = rec /\ \A j \in Keys \ {m.key} : records'[j] = records[j]
    BY <1>0, <1>2, <2>1 DEF TypeOK
  <2>5. records' \in [Keys -> {NoRecord} \cup [stage : Stages, payload : Payloads, run : Nat]]
    BY <1>0, <2>1, <2>3 DEF TypeOK
  <2> HIDE DEF rec
  <2>6. Recorded(m.key)' = m
    BY <1>2, <2>3, <2>4 DEF Recorded, Message
  <2>7. \A j \in Keys \ {m.key} : (Exists(j)' => Exists(j)) /\ Recorded(j)' = Recorded(j)
    BY <2>4 DEF Exists, Recorded
  <2>8. Sends' \subseteq Sends
    BY <1>2, <2>6, <2>7 DEF Sends
  <2> QED
    BY <1>0, <1>2, <2>1, <2>5, <2>8, UnheardKeeps
<1> QED
  BY <1>1, <1>4, <1>5, <1>6

(* The end of the POST moves the row or leaves it, and answers or is not heard. *)
LEMMA ReplyKeeps ==
  ASSUME FormInv, wire' \subseteq wire, Sends' \subseteq Sends, UNCHANGED blob,
         records' \in [Keys -> {NoRecord} \cup [stage : Stages, payload : Payloads, run : Nat]],
         NEW k, NEW stage \in Stages \cup {""}, NEW error \in Errors \ {"IDEMPOTENCY_MISMATCH"},
         error = "" <=> stage # "",
         Reply(k, stage, error) \/ Answer([key |-> k], stage, error)
  PROVE  FormInv'
<1>1. CASE Answer([key |-> k], stage, error)
  BY <1>1, AnswerKeeps
<1>2. CASE UNCHANGED <<form, ghost>>
  BY <1>2, UnheardKeeps
<1> QED
  BY <1>1, <1>2 DEF Reply

LEMMA SubmitDoneKeeps == ASSUME FormInv, SubmitDone PROVE FormInv'
<1>0. TypeOK /\ UNCHANGED <<wire, blob>>
  BY DEF FormInv, SubmitDone
<1>1. /\ "" \in Errors \ {"IDEMPOTENCY_MISMATCH"} /\ "GIT_WRITE" \in Errors \ {"IDEMPOTENCY_MISMATCH"}
      /\ "GIT_WRITE" # "" /\ "" \notin Stages
      /\ {"submitted", "pr_open", "unknown_recovering", "failed"} \subseteq Stages
  BY DEF Errors, Stages
<1>2. ASSUME UNCHANGED records
      PROVE  /\ Sends' \subseteq Sends
             /\ records' \in [Keys -> {NoRecord} \cup [stage : Stages, payload : Payloads, run : Nat]]
  BY <1>0, <1>2, SendsSame DEF TypeOK
<1>3. ASSUME NEW k, records[k].stage = "submitted", NEW s \in Stages,
             records' = [records EXCEPT ![k].stage = s]
      PROVE  /\ Sends' \subseteq Sends
             /\ records' \in [Keys -> {NoRecord} \cup [stage : Stages, payload : Payloads, run : Nat]]
  BY <1>0, <1>3, MovesKeepSends DEF Active
<1>4. PICK k \in Keys :
        \/ /\ records[k].stage = "submitted"
           /\ records' \in {records, [records EXCEPT ![k].stage = "pr_open"]}
           /\ Reply(k, "pr_open", "")
        \/ /\ records[k].stage = "submitted"
           /\ \E stage \in {"submitted", "unknown_recovering", "failed"} :
                records' = [records EXCEPT ![k].stage = stage]
           /\ Reply(k, "", "GIT_WRITE")
        \/ /\ Exists(k) /\ UNCHANGED records
           /\ \/ Answer([key |-> k], records[k].stage, "")
              \/ Answer([key |-> k], "", "GIT_WRITE")
  BY DEF SubmitDone
<1>5. CASE /\ records[k].stage = "submitted"
           /\ records' \in {records, [records EXCEPT ![k].stage = "pr_open"]}
           /\ Reply(k, "pr_open", "")
  <2>1. /\ Sends' \subseteq Sends
        /\ records' \in [Keys -> {NoRecord} \cup [stage : Stages, payload : Payloads, run : Nat]]
    BY <1>1, <1>2, <1>3, <1>5
  <2> QED
    BY <1>0, <1>1, <1>5, <2>1, ReplyKeeps
<1>6. CASE /\ records[k].stage = "submitted"
           /\ \E stage \in {"submitted", "unknown_recovering", "failed"} :
                records' = [records EXCEPT ![k].stage = stage]
           /\ Reply(k, "", "GIT_WRITE")
  <2>1. /\ Sends' \subseteq Sends
        /\ records' \in [Keys -> {NoRecord} \cup [stage : Stages, payload : Payloads, run : Nat]]
    BY <1>1, <1>3, <1>6
  <2> QED
    BY <1>0, <1>1, <1>6, <2>1, ReplyKeeps
<1>7. CASE /\ Exists(k) /\ UNCHANGED records
           /\ \/ Answer([key |-> k], records[k].stage, "")
              \/ Answer([key |-> k], "", "GIT_WRITE")
  <2>1. /\ Sends' \subseteq Sends
        /\ records' \in [Keys -> {NoRecord} \cup [stage : Stages, payload : Payloads, run : Nat]]
    BY <1>2, <1>7
  <2>2. records[k].stage \in Stages
    BY <1>0, <1>7, NoRecordStage
  <2>3. CASE Answer([key |-> k], records[k].stage, "")
    BY <1>0, <1>1, <2>1, <2>2, <2>3, ReplyKeeps
  <2>4. CASE Answer([key |-> k], "", "GIT_WRITE")
    BY <1>0, <1>1, <2>1, <2>4, ReplyKeeps
  <2> QED
    BY <1>7, <2>3, <2>4
<1> QED
  BY <1>4, <1>5, <1>6, <1>7

-------------------------------------------------------------------------------
(* The form's properties hold always. *)

LEMMA FormInit == ASSUME BoundAssumption, Init PROVE FormInv
<1>1. form \in FormState /\ form.key = None /\ form.preview = None /\ form.submit = Idle
  <2>1. 0 \in Nat
    OBVIOUS
  <2> QED
    BY <2>1, NewFormTyped DEF Init, NewForm
<1>2. /\ ghost \in History /\ ghost.last = <<>> /\ ghost.spent = {}
  BY DEF Init, History
<1>3. TypeOK
  BY <1>1, <1>2 DEF Init, TypeOK, NoRecord
<1>4. Sends = {} /\ wire = {}
  BY DEF Init, Sends, Exists
<1>5. SendsInv /\ SeriesInv
  BY <1>2, <1>4 DEF SendsInv, SeriesInv, SubmittedWasPreviewed
<1>6. form.submit.state = "idle"
  BY <1>1, IdleTyped
<1> QED
  BY <1>1, <1>3, <1>5, <1>6 DEF FormInv, PreviewInv, KeyInv, SubmitInv, NoMismatch

LEMMA FormNext == ASSUME FormInv, [Next]_vars PROVE FormInv'
<1>1. CASE UNCHANGED vars
  BY <1>1, BannerKeeps DEF vars
<1>2. CASE OpenForm \/ CloseForm
  BY <1>2, OpenCloseKeeps
<1>3. CASE Toggle \/ SetReason
  BY <1>3, EditKeeps
<1>4. CASE RunPreview \/ PreviewDone
  BY <1>4, RunPreviewKeeps, PreviewDoneKeeps
<1>5. CASE RunSubmit \/ NetworkFails \/ HandleSubmit \/ SubmitDone
  BY <1>5, RunSubmitKeeps, NetworkFailsKeeps, HandleSubmitKeeps, SubmitDoneKeeps
<1>6. CASE ServerMoves \/ CancelDone
  BY <1>6, ServerMovesKeeps, CancelDoneKeeps
<1>7. CASE PollTimer \/ Fetch \/ AskCancel \/ ConfirmCancel
  BY <1>7, BannerKeeps DEF PollTimer, Fetch, AskCancel, ConfirmCancel
<1> QED
  BY <1>1, <1>2, <1>3, <1>4, <1>5, <1>6, <1>7 DEF Next

LEMMA FormInvIsSound == ASSUME FormInv PROVE FormSound
<1>1. SubmittedWasPreviewed /\ NoMismatch
  BY DEF FormInv, SendsInv, SubmitInv
<1>2. SpentNotReplayed
  BY DEF FormInv, KeyInv, SubmitInv, SpentNotReplayed
<1>3. OpenedIsReal
  BY DEF FormInv, TypeOK, FormState, Mutation, SubmitInv, OpenedIsReal, Opened, Submitted, HasEnded,
         InProgress, Ended, Stages
<1>4. OneRequestPerDraft
  <2> SUFFICES ASSUME NEW j \in Keys, NEW k \in Keys, j # k, Exists(j), Exists(k),
                      records[j].run = records[k].run
               PROVE  {j, k} \cap ghost.spent # {}
    BY DEF OneRequestPerDraft
  <2>1. Recorded(j) \in Sends /\ Recorded(k) \in Sends
    BY DEF Sends
  <2>2. /\ Recorded(j).key = j /\ Recorded(k).key = k
        /\ Recorded(j).run = records[j].run /\ Recorded(k).run = records[k].run
    BY DEF Recorded
  <2> QED
    BY <2>1, <2>2 DEF FormInv, SendsInv
<1> QED
  BY <1>1, <1>2, <1>3, <1>4 DEF FormSound

(* However the fields change while a preview is on its way, answers are     *)
(* lost, requests arrive late and the server moves on: what was previewed   *)
(* is submitted, once per draft, under a key of its own that is not sent    *)
(* again once spent, and the success message is true (SsoEditForm.tsx).     *)
THEOREM FormSoundAlways == ASSUME BoundAssumption PROVE Spec => []FormSound
<1>1. FormInv /\ [Next]_vars => FormInv'
  BY FormNext
<1>2. Init => FormInv
  BY FormInit
<1>3. FormInv => FormSound
  BY FormInvIsSound
<1> QED
  BY <1>1, <1>2, <1>3, PTL DEF Spec

----------------------------------------------------------------------------
(* The session *)

Views == [status : {"disabled", "loading", "unauthenticated", "authenticated", "error"},
          expired : BOOLEAN, loggedOut : BOOLEAN]
Clearing == [expired : BOOLEAN, loggedOut : BOOLEAN]
Memory == [token : Nat, stored : Nat, started : BOOLEAN, running : {"no", "callback", "restore", "done"},
           renewing : BOOLEAN, leaving : BOOLEAN, autoLogin : BOOLEAN, clears : SUBSET Clearing]
ApiRequest == [kind : {"query", "mutation"}, token : Nat, tries : Nat, wanted : BOOLEAN]
Traffic == [requests : SUBSET ApiRequest, cache : SUBSET Nat]
Provider == [session : BOOLEAN, code : {"none", "fresh", "used", "denied"}, issued : Nat, visits : Nat, reloads : Nat]

SessionTyped ==
  /\ setting \in AllSettings /\ oidc \in AllSections
  /\ page \in {"boot", "app", "config-error", "login", "logout"}
  /\ view \in Views /\ mem \in Memory /\ http \in Traffic /\ idp \in Provider
  /\ tab \in [url : {"root", "callback"}, loggedOut : BOOLEAN]
  /\ sessionGhost \in [autos : Nat, optedOut : BOOLEAN, failed : BOOLEAN]

(* LoginScreen on a first visit. *)
FirstVisit == view.status = "unauthenticated" /\ ~view.expired /\ ~view.loggedOut

(* Nothing of a session is in memory. *)
Untouched == mem.token = 0 /\ mem.stored = 0 /\ ~mem.renewing /\ ~mem.leaving /\ mem.clears = {}

(* A page without a gate has none of a session; one with a gate shows nothing *)
(* until the start-up has settled.                                            *)
PageInv ==
  /\ page = "boot" => view = LOADING /\ mem = NewMem /\ http = NewHttp
  /\ page = "config-error" => view = LOADING /\ mem = NewMem /\ http = NewHttp
  /\ page = "app" /\ ~HasClient => ~oidc.present /\ view.status = "disabled" /\ mem = NewMem
  /\ view.status = "disabled" => ~oidc.present
  /\ page = "app" /\ HasClient /\ mem.running # "done" => view = LOADING /\ http = NewHttp /\ Untouched
  /\ page \in {"login", "logout"} => HasClient
  /\ mem.started = (mem.running # "no")
  /\ mem.running = "callback" => tab.url = "callback"
  /\ mem.running \in {"restore", "done"} /\ page = "app" => tab.url = "root"
  /\ FirstVisit => Untouched /\ mem.running = "done"
  /\ \A c \in mem.clears : c.expired \/ c.loggedOut

(* Whoever is at the start of a visit has not been to the provider since the  *)
(* user last acted.                                                           *)
LoopInv ==
  /\ page \in {"boot", "app"} /\ mem.running = "no" /\ tab.url = "root" => sessionGhost.autos = 0
  /\ mem.running = "restore" => sessionGhost.autos = 0
  /\ FirstVisit /\ ~mem.autoLogin => sessionGhost.autos = 0
  /\ mem.leaving => sessionGhost.autos = 0
  /\ page = "logout" => sessionGhost.autos = 0

(* A code that is spent was denied or interrupted. *)
CodeInv == tab.url = "callback" /\ idp.code # "fresh" => sessionGhost.failed

(* The tab remembers a logout for as long as the user has not undone it. *)
LogoutInv ==
  ~setting.refresh /\ ~setting.blocked =>
    /\ ~mem.renewing
    /\ sessionGhost.optedOut => tab.loggedOut
    /\ page = "login" \/ tab.url = "callback" => ~sessionGhost.optedOut
    /\ \A c \in mem.clears : c.loggedOut => tab.loggedOut
    /\ FirstVisit => ~tab.loggedOut

SessionInv == SessionTyped /\ PageInv /\ LoopInv /\ CodeInv /\ LogoutInv /\ SessionSound

(* The states the screens start from. *)
LEMMA Screens ==
  /\ DISABLED \in Views /\ LOADING \in Views /\ SIGNED_IN \in Views /\ ErrorState \in Views
  /\ DISABLED.status = "disabled" /\ LOADING.status = "loading" /\ SIGNED_IN.status = "authenticated"
  /\ ErrorState.status = "error"
  BY DEF Views, DISABLED, LOADING, SIGNED_IN, ErrorState

(* The sign-in screen after signedOut(expired, loggedOut). *)
LEMMA SignedOutScreen ==
  ASSUME NEW e \in BOOLEAN, NEW l \in BOOLEAN, NEW v, v = [SIGNED_OUT EXCEPT !.expired = e, !.loggedOut = l]
  PROVE  v \in Views /\ v.status = "unauthenticated" /\ v.expired = e /\ v.loggedOut = l
  BY DEF SIGNED_OUT, Views

(* The provider after an exchange: the code is spent and a token issued. *)
LEMMA CodeSpent ==
  ASSUME NEW i \in Provider, NEW n \in Nat, NEW j, j = [i EXCEPT !.code = "used", !.issued = n]
  PROVE  j \in Provider
  BY DEF Provider

(* The provider after a renewal. *)
LEMMA TokenIssued ==
  ASSUME NEW i \in Provider, NEW n \in Nat, NEW j, j = [i EXCEPT !.issued = n]
  PROVE  j \in Provider /\ j.code = i.code
  BY DEF Provider

(* clearStoredLogout() forgets the logout unless storage is blocked, and moves no address. *)
LEMMA StoredLogoutCleared ==
  ASSUME SessionTyped
  PROVE  /\ ClearStoredLogout \in [url : {"root", "callback"}, loggedOut : BOOLEAN]
         /\ ClearStoredLogout.url = tab.url
         /\ ~setting.blocked => ClearStoredLogout.loggedOut = FALSE
  BY DEF SessionTyped, ClearStoredLogout, AllSettings

(* handleCallback settles: a fresh code signs in, any other failed for a reason. *)
LEMMA CallbackDoneKeeps ==
  ASSUME SessionAssumption, SessionInv, CallbackDone
  PROVE  SessionInv'
<1>0. /\ page = "app" /\ mem.clears = {} /\ mem.running = "callback" /\ UNCHANGED <<setting, oidc, page, http>>
      /\ HasClient /\ view = LOADING /\ http = NewHttp /\ Untouched /\ tab.url = "callback"
  BY DEF CallbackDone, Quiet, SessionInv, PageInv, NewMem
<1>1. CASE Exchanged
  <2>0. PICK t \in Nat : t = idp.issued + 1
    BY DEF SessionInv, SessionTyped, Provider
  <2> DEFINE m == [mem EXCEPT !.running = "done", !.stored = t]
  <2>1. /\ idp' = [idp EXCEPT !.code = "used", !.issued = t]
        /\ SignedIn(m, t)
        /\ tab' = [ClearStoredLogout EXCEPT !.url = "root"]
        /\ UNCHANGED sessionGhost
    BY <1>1, <2>0, Zenon DEF Exchanged
  <2>2. /\ m \in Memory /\ m.running = "done" /\ m.clears = mem.clears /\ m.renewing = mem.renewing
        /\ m.leaving = mem.leaving /\ m.started = mem.started
    BY DEF SessionInv, SessionTyped, Memory
  <2> HIDE DEF m
  <2>3. /\ mem' \in Memory /\ mem'.running = "done" /\ mem'.clears = {} /\ ~mem'.renewing /\ ~mem'.leaving
        /\ mem'.started = mem.started
    <3>1. mem' = [m EXCEPT !.token = t, !.autoLogin = FALSE]
      BY <2>1 DEF SignedIn
    <3>2. /\ mem' \in Memory /\ mem'.running = m.running /\ mem'.clears = m.clears /\ mem'.renewing = m.renewing
          /\ mem'.leaving = m.leaving /\ mem'.started = m.started
      BY <2>2, <3>1 DEF Memory
    <3> QED
      BY <1>0, <2>2, <3>2 DEF Untouched
  <2>4. view' = SIGNED_IN
    BY <2>1 DEF SignedIn
  <2>5. /\ tab' \in [url : {"root", "callback"}, loggedOut : BOOLEAN] /\ tab'.url = "root"
    BY <2>1, StoredLogoutCleared DEF SessionInv
  <2>6. idp' \in Provider
    BY <2>1, CodeSpent DEF SessionInv, SessionTyped
  <2>9. SessionTyped'
    BY <1>0, <2>1, <2>3, <2>4, <2>5, <2>6, Screens DEF SessionInv, SessionTyped
  <2>7. PageInv' /\ LoopInv'
    BY <1>0, <2>1, <2>3, <2>4, <2>5, Screens DEF SessionInv, PageInv, LoopInv, FirstVisit, HasClient
  <2>8. CodeInv' /\ LogoutInv' /\ SessionSound'
    BY <1>0, <2>1, <2>3, <2>4, <2>5, Screens DEF SessionInv, CodeInv, LogoutInv, SessionSound, ConfiguredIsGated,
       NoStaleData, NoLoginLoop, ErrorIsReal, OnlyManualLogin, FirstVisit
  <2> QED
    BY <2>7, <2>8, <2>9 DEF SessionInv
<1>2. CASE ExchangeFails
  <2>0. PICK g \in BOOLEAN : g = (sessionGhost.failed \/ idp.code = "fresh")
    BY Zenon
  <2>1. /\ mem' = [mem EXCEPT !.running = "done"] /\ view' = ErrorState /\ tab' = [tab EXCEPT !.url = "root"]
        /\ idp' = [idp EXCEPT !.code = IF @ = "fresh" THEN "used" ELSE @]
        /\ sessionGhost' = [sessionGhost EXCEPT !.failed = g]
    BY <1>2, <2>0, Zenon DEF ExchangeFails
  <2>2. g /\ sessionGhost'.failed /\ sessionGhost'.autos = sessionGhost.autos
        /\ sessionGhost'.optedOut = sessionGhost.optedOut
    BY <1>0, <2>0, <2>1 DEF SessionInv, SessionTyped, CodeInv
  <2>4. idp' \in Provider
    BY <2>1 DEF SessionInv, SessionTyped, Provider
  <2>3. /\ mem' \in Memory /\ mem'.running = "done" /\ mem'.clears = {} /\ ~mem'.renewing /\ ~mem'.leaving
        /\ mem'.started = mem.started /\ mem'.stored = 0 /\ mem'.token = 0
    BY <1>0, <2>1 DEF SessionInv, SessionTyped, Memory, Untouched
  <2>5. /\ tab' \in [url : {"root", "callback"}, loggedOut : BOOLEAN] /\ tab'.url = "root"
        /\ tab'.loggedOut = tab.loggedOut
    BY <2>1 DEF SessionInv, SessionTyped
  <2>6. SessionTyped'
    BY <1>0, <2>1, <2>3, <2>4, <2>5, Screens DEF SessionInv, SessionTyped
  <2>7. PageInv' /\ LoopInv'
    BY <1>0, <2>1, <2>2, <2>3, <2>5, Screens DEF SessionInv, PageInv, LoopInv, FirstVisit, HasClient
  <2>8. CodeInv'
    BY <2>5 DEF CodeInv
  <2>9. LogoutInv'
    BY <1>0, <2>1, <2>2, <2>3, <2>5, Screens DEF SessionInv, LogoutInv, FirstVisit
  <2>10. view'.status = "error"
    BY <2>1, Screens
  <2>11. SessionSound'
    BY <1>0, <2>1, <2>2, <2>10 DEF SessionInv, SessionSound, ConfiguredIsGated, NoStaleData, NoLoginLoop, ErrorIsReal,
       OnlyManualLogin
  <2> QED
    BY <2>6, <2>7, <2>8, <2>9, <2>11 DEF SessionInv
<1> QED
  BY <1>1, <1>2 DEF CallbackDone

(* login() from a state that is signed out or failed, with the history g. *)
LEMMA LoginKeeps ==
  ASSUME SessionAssumption, SessionInv, page = "app", HasClient, mem.running = "done", mem.clears = {},
         NEW g \in [autos : Nat, optedOut : BOOLEAN, failed : BOOLEAN],
         g.autos <= 1, mem.leaving => g.autos = 0, g.failed = sessionGhost.failed,
         ~setting.refresh /\ ~setting.blocked => ~g.optedOut,
         mem' \in Memory, mem'.running = "done", mem'.clears = {}, mem'.leaving = mem.leaving,
         mem'.started = mem.started, mem'.renewing = mem.renewing, Login(g)
  PROVE  SessionInv'
<1>0. UNCHANGED <<setting, oidc, http>> /\ tab' = ClearStoredLogout /\ tab.url = "root"
  BY DEF Login, SessionInv, PageInv
<1>1. tab' \in [url : {"root", "callback"}, loggedOut : BOOLEAN] /\ tab'.url = "root"
  BY <1>0, StoredLogoutCleared DEF SessionInv
<1> DEFINE h == [g EXCEPT !.failed = TRUE]
<1>2. /\ h \in [autos : Nat, optedOut : BOOLEAN, failed : BOOLEAN]
      /\ h.autos = g.autos /\ h.optedOut = g.optedOut /\ h.failed
  OBVIOUS
<1>3. \/ /\ page' = "login" /\ view' = LOADING /\ idp' = [idp EXCEPT !.visits = @ + 1] /\ sessionGhost' = g
      \/ /\ page' = "app" /\ view' = ErrorState /\ sessionGhost' = h /\ UNCHANGED idp
  BY DEF Login
<1> HIDE DEF h
<1>4. idp' \in Provider /\ idp'.code = idp.code
  BY <1>3 DEF SessionInv, SessionTyped, Provider
<1>5. SessionTyped'
  BY <1>0, <1>1, <1>2, <1>3, <1>4, Screens DEF SessionInv, SessionTyped
<1>6. PageInv' /\ LoopInv'
  BY <1>0, <1>1, <1>2, <1>3, Screens DEF SessionInv, PageInv, LoopInv, FirstVisit, HasClient
<1>7. CodeInv' /\ LogoutInv'
  BY <1>0, <1>1, <1>2, <1>3, Screens DEF SessionInv, CodeInv, LogoutInv, FirstVisit
<1>8. SessionSound'
  BY <1>0, <1>1, <1>2, <1>3, Screens DEF SessionInv, SessionSound, ConfiguredIsGated,
     NoStaleData, NoLoginLoop, ErrorIsReal, OnlyManualLogin
<1> QED
  BY <1>5, <1>6, <1>7, <1>8 DEF SessionInv

(* LoginScreen signs in by itself: only on a first visit, so for the first time. *)
LEMMA AutoLoginKeeps ==
  ASSUME SessionAssumption, SessionInv, AutoLogin
  PROVE  SessionInv'
<1>0. /\ page = "app" /\ mem.clears = {} /\ FirstVisit /\ ~mem.autoLogin
      /\ mem' = [mem EXCEPT !.autoLogin = TRUE] /\ Login([sessionGhost EXCEPT !.autos = @ + 1])
  BY DEF AutoLogin, Quiet, FirstVisit
<1>1. HasClient /\ mem.running = "done" /\ ~mem.leaving /\ sessionGhost.autos = 0
  BY <1>0 DEF SessionInv, PageInv, LoopInv, FirstVisit, Untouched
<1>2. /\ mem' \in Memory /\ mem'.running = "done" /\ mem'.clears = {} /\ mem'.leaving = mem.leaving
      /\ mem'.started = mem.started /\ mem'.renewing = mem.renewing
  BY <1>0, <1>1 DEF SessionInv, SessionTyped, Memory
<1> DEFINE g == [sessionGhost EXCEPT !.autos = 1]
<1>3. Login(g)
  <2>1. sessionGhost.autos + 1 = 1
    BY <1>1
  <2> QED
    BY <1>0, <2>1, Zenon
<1>4. /\ g \in [autos : Nat, optedOut : BOOLEAN, failed : BOOLEAN] /\ g.autos = 1
      /\ g.optedOut = sessionGhost.optedOut /\ g.failed = sessionGhost.failed
  BY DEF SessionInv, SessionTyped
<1>5. ~setting.refresh /\ ~setting.blocked => ~sessionGhost.optedOut
  BY <1>0 DEF SessionInv, LogoutInv
<1> HIDE DEF g
<1>6. g.autos <= 1 /\ (mem.leaving => g.autos = 0) /\ (~setting.refresh /\ ~setting.blocked => ~g.optedOut)
  BY <1>1, <1>4, <1>5
<1> QED
  BY <1>0, <1>1, <1>2, <1>3, <1>4, <1>6, LoginKeeps, Zenon

(* The sign-in button undoes a logout and starts a new count. *)
LEMMA ManualLoginKeeps ==
  ASSUME SessionAssumption, SessionInv, ManualLogin
  PROVE  SessionInv'
<1> DEFINE g == [sessionGhost EXCEPT !.autos = 0, !.optedOut = FALSE]
<1>0. /\ page = "app" /\ mem.clears = {} /\ view.status \in {"error", "unauthenticated"} /\ mem' = mem /\ Login(g)
  BY DEF ManualLogin, Quiet
<1>1. HasClient /\ mem.running = "done"
  BY <1>0, Screens DEF SessionInv, PageInv
<1>2. /\ g \in [autos : Nat, optedOut : BOOLEAN, failed : BOOLEAN] /\ g.autos = 0 /\ ~g.optedOut
      /\ g.failed = sessionGhost.failed
  BY DEF SessionInv, SessionTyped
<1>3. mem \in Memory
  BY DEF SessionInv, SessionTyped
<1> HIDE DEF g
<1> QED
  BY <1>0, <1>1, <1>2, <1>3, LoginKeeps

(* A renewal settles: only a provider with refresh tokens has one. *)
LEMMA RenewDoneKeeps ==
  ASSUME SessionAssumption, SessionInv, RenewDone
  PROVE  SessionInv'
<1>0. /\ page = "app" /\ mem.clears = {} /\ mem.renewing /\ UNCHANGED <<setting, oidc, page, http, sessionGhost>>
      /\ HasClient /\ mem.running = "done" /\ tab.url = "root" /\ (setting.refresh \/ setting.blocked)
  BY DEF RenewDone, Quiet, SessionInv, PageInv, LogoutInv, NewMem, Untouched
<1>1. CASE view' = SIGNED_IN
  <2>0. PICK t \in Nat : t = idp.issued + 1
    BY DEF SessionInv, SessionTyped, Provider
  <2> DEFINE m == [mem EXCEPT !.renewing = FALSE, !.stored = t]
  <2>1. \/ idp' = [idp EXCEPT !.issued = t] /\ SignedIn(m, t) /\ tab' = ClearStoredLogout
        \/ mem' = [mem EXCEPT !.renewing = FALSE] /\ UNCHANGED <<view, tab, idp>>
    BY <2>0, Zenon DEF RenewDone
  <2>2. /\ m \in Memory /\ m.running = mem.running /\ m.clears = mem.clears /\ m.renewing = FALSE
        /\ m.leaving = mem.leaving /\ m.started = mem.started
    BY DEF SessionInv, SessionTyped, Memory
  <2> HIDE DEF m
  <2>3. /\ mem' \in Memory /\ mem'.running = "done" /\ mem'.clears = {} /\ mem'.renewing = FALSE
        /\ mem'.leaving = mem.leaving /\ mem'.started = mem.started
    <3>1. CASE mem' = [m EXCEPT !.token = t, !.autoLogin = FALSE]
      BY <1>0, <2>2, <3>1 DEF Memory
    <3>2. CASE mem' = [mem EXCEPT !.renewing = FALSE]
      BY <1>0, <3>2 DEF SessionInv, SessionTyped, Memory
    <3> QED
      BY <2>1, <3>1, <3>2 DEF SignedIn
  <2>4. tab' \in [url : {"root", "callback"}, loggedOut : BOOLEAN] /\ tab'.url = "root"
    BY <1>0, <2>1, StoredLogoutCleared DEF SessionInv, SessionTyped
  <2>5. idp' \in Provider
    BY <2>1, TokenIssued DEF SessionInv, SessionTyped
  <2>6. SessionTyped'
    BY <1>0, <1>1, <2>3, <2>4, <2>5, Screens DEF SessionInv, SessionTyped
  <2>7. PageInv' /\ LoopInv'
    BY <1>0, <1>1, <2>3, <2>4, Screens DEF SessionInv, PageInv, LoopInv, FirstVisit, HasClient
  <2>8. CodeInv' /\ LogoutInv' /\ SessionSound'
    BY <1>0, <1>1, <2>3, <2>4, Screens DEF SessionInv, CodeInv, LogoutInv, SessionSound, ConfiguredIsGated,
       NoStaleData, NoLoginLoop, ErrorIsReal, OnlyManualLogin, FirstVisit
  <2> QED
    BY <2>6, <2>7, <2>8 DEF SessionInv
<1>2. CASE view' # SIGNED_IN
  <2>1. mem' = [mem EXCEPT !.renewing = FALSE] /\ UNCHANGED <<view, tab, idp>>
    BY <1>2 DEF RenewDone, SignedIn
  <2>2. /\ mem' \in Memory /\ mem'.running = mem.running /\ mem'.clears = mem.clears /\ ~mem'.renewing
        /\ mem'.leaving = mem.leaving /\ mem'.started = mem.started /\ mem'.stored = mem.stored
        /\ mem'.token = mem.token /\ mem'.autoLogin = mem.autoLogin
    BY <2>1 DEF SessionInv, SessionTyped, Memory
  <2>3. SessionTyped'
    BY <1>0, <2>1, <2>2 DEF SessionInv, SessionTyped
  <2>4. PageInv' /\ LoopInv'
    BY <1>0, <2>1, <2>2 DEF SessionInv, PageInv, LoopInv, FirstVisit, HasClient, Untouched
  <2>5. CodeInv' /\ LogoutInv' /\ SessionSound'
    BY <1>0, <2>1, <2>2 DEF SessionInv, CodeInv, LogoutInv, SessionSound, ConfiguredIsGated,
       NoStaleData, NoLoginLoop, ErrorIsReal, OnlyManualLogin, FirstVisit
  <2> QED
    BY <2>3, <2>4, <2>5 DEF SessionInv
<1> QED
  BY <1>1, <1>2

(* An answer arrives: an unwanted one leaves the cache alone, a 401 drops the token. *)
LEMMA ApiAnswersKeeps ==
  ASSUME SessionAssumption, SessionInv, ApiAnswers
  PROVE  SessionInv'
<1>0. page = "app" /\ mem.clears = {} /\ UNCHANGED <<setting, oidc, page, view, tab, idp, sessionGhost>>
  BY DEF ApiAnswers, Quiet
<1>1. PICK r \in http.requests, code \in {200, 401, 403, 503} :
        /\ \/ /\ code = 200
              /\ http' = [requests |-> http.requests \ {r},
                          cache |-> IF r.wanted /\ r.kind = "query" THEN http.cache \cup {r.token} ELSE http.cache]
           \/ /\ code # 200
              /\ http' = [http EXCEPT !.requests =
                   IF r.kind = "query" /\ r.wanted /\ Retries(r, code)
                   THEN (http.requests \ {r}) \cup {[r EXCEPT !.tries = @ + 1, !.token = mem.token]}
                   ELSE http.requests \ {r}]
        /\ IF code = 401 /\ HasClient THEN OnUnauthorized ELSE UNCHANGED mem
  BY Zenon DEF ApiAnswers
<1>2. r \in ApiRequest /\ http.requests \subseteq ApiRequest /\ http.cache \subseteq Nat /\ mem.token \in Nat
  BY DEF SessionInv, SessionTyped, Traffic, Memory
<1>3. /\ http' \in Traffic
      /\ ~r.wanted => http'.cache = http.cache /\ http'.requests \subseteq http.requests
  <2>1. CASE code = 200
    BY <1>1, <1>2, <2>1 DEF SessionInv, SessionTyped, Traffic, ApiRequest
  <2>2. CASE code # 200
    <3>0. PICK t \in Nat : t = r.tries + 1
      BY <1>2 DEF ApiRequest
    <3> DEFINE q == [r EXCEPT !.tries = t, !.token = mem.token]
    <3>1. q \in ApiRequest
      BY <1>2 DEF ApiRequest
    <3>2. \/ http' = [http EXCEPT !.requests = (http.requests \ {r}) \cup {q}] /\ r.wanted
          \/ http' = [http EXCEPT !.requests = http.requests \ {r}]
      BY <1>1, <2>2, <3>0, Zenon
    <3> HIDE DEF q
    <3> QED
      BY <1>2, <3>1, <3>2 DEF SessionInv, SessionTyped, Traffic
  <2> QED
    BY <2>1, <2>2
<1> DEFINE e == [expired |-> TRUE, loggedOut |-> FALSE]
<1>4. \/ mem' = mem
      \/ HasClient /\ mem.token # 0 /\ mem' = [mem EXCEPT !.token = 0, !.clears = {e}]
  <2>1. mem.clears \cup {e} = {e}
    BY <1>0
  <2>2. \/ UNCHANGED mem
        \/ HasClient /\ OnUnauthorized
    BY <1>1, Zenon
  <2>3. CASE mem.token = 0
    BY <2>2, <2>3, Zenon DEF OnUnauthorized
  <2>4. CASE mem.token # 0
    <3>1. OnUnauthorized => mem' = [mem EXCEPT !.token = 0, !.clears = mem.clears \cup {e}]
      BY <2>4, Zenon DEF OnUnauthorized
    <3> QED
      BY <2>1, <2>2, <2>4, <3>1, Zenon
  <2> QED
    BY <2>3, <2>4
<1>10. {e} \in SUBSET Clearing /\ e.expired /\ ~e.loggedOut
  BY DEF Clearing
<1> HIDE DEF e
<1>5. /\ mem' \in Memory /\ mem'.running = mem.running /\ mem'.renewing = mem.renewing
      /\ mem'.leaving = mem.leaving /\ mem'.started = mem.started /\ mem'.stored = mem.stored
      /\ mem'.autoLogin = mem.autoLogin
      /\ mem' = mem \/ (HasClient /\ mem.token # 0)
      /\ \A c \in mem'.clears : c.expired /\ ~c.loggedOut
  <2>1. CASE mem' = mem
    BY <1>0, <2>1 DEF SessionInv, SessionTyped
  <2>2. CASE HasClient /\ mem.token # 0 /\ mem' = [mem EXCEPT !.token = 0, !.clears = {e}]
    <3>1. mem' = [mem EXCEPT !.token = 0, !.clears = {e}] /\ mem \in Memory
      BY <2>2 DEF SessionInv, SessionTyped
    <3>2. mem' \in Memory /\ mem'.clears = {e}
      BY <1>10, <3>1 DEF Memory
    <3>3. /\ mem'.running = mem.running /\ mem'.renewing = mem.renewing
          /\ mem'.leaving = mem.leaving /\ mem'.started = mem.started /\ mem'.stored = mem.stored
          /\ mem'.autoLogin = mem.autoLogin
      BY <3>1 DEF Memory
    <3> QED
      BY <1>10, <2>2, <3>2, <3>3
  <2> QED
    BY <1>4, <2>1, <2>2
<1>6. SessionTyped'
  BY <1>0, <1>3, <1>5 DEF SessionInv, SessionTyped
<1>7. PageInv' /\ LoopInv'
  <2>1. http.requests # {} /\ http # NewHttp
    BY <1>1 DEF NewHttp
  <2> QED
    BY <1>0, <1>5, <2>1 DEF SessionInv, PageInv, LoopInv, FirstVisit, HasClient, Untouched
<1>8. CodeInv' /\ LogoutInv'
  BY <1>0, <1>5 DEF SessionInv, CodeInv, LogoutInv, FirstVisit
<1>9. SessionSound'
  BY <1>0, <1>1, <1>3 DEF SessionInv, SessionSound, ConfiguredIsGated, NoStaleData, NoLoginLoop, ErrorIsReal,
     OnlyManualLogin
<1> QED
  BY <1>6, <1>7, <1>8, <1>9 DEF SessionInv

(* A request whose query was cancelled. *)
LEMMA Unwanted ==
  ASSUME NEW r \in ApiRequest
  PROVE  [r EXCEPT !.wanted = FALSE] \in ApiRequest /\ ~[r EXCEPT !.wanted = FALSE].wanted
  BY DEF ApiRequest

(* queryClient.clear() leaves nothing in the cache and nothing wanted on its way. *)
LEMMA ClearedTraffic ==
  ASSUME SessionTyped
  PROVE  Cleared \in Traffic /\ Cleared.cache = {} /\ \A r \in Cleared.requests : ~r.wanted
<1>1. http.requests \subseteq ApiRequest
  BY DEF SessionTyped, Traffic
<1> DEFINE dropped == {[r EXCEPT !.wanted = FALSE] : r \in http.requests}
<1>2. \A q \in dropped : q \in ApiRequest /\ ~q.wanted
  <2> TAKE q \in dropped
  <2>1. PICK r \in http.requests : q = [r EXCEPT !.wanted = FALSE]
    OBVIOUS
  <2>2. r \in ApiRequest
    BY <1>1
  <2> QED
    BY <2>1, <2>2, Unwanted, Zenon
<1>3. Cleared = [requests |-> dropped, cache |-> {}]
  BY Zenon DEF Cleared
<1> HIDE DEF dropped
<1> QED
  BY <1>2, <1>3 DEF Traffic

(* A sign-out after client.clear(): the screen says why, so it is no first visit. *)
LEMMA ClearDoneKeeps ==
  ASSUME SessionAssumption, SessionInv, ClearDone
  PROVE  SessionInv'
<1>0. PICK c \in mem.clears, removed \in BOOLEAN :
        /\ page = "app"
        /\ SignedOut([mem EXCEPT !.clears = @ \ {c}, !.stored = IF removed THEN 0 ELSE @], c.expired, c.loggedOut)
        /\ sessionGhost' = [sessionGhost EXCEPT !.optedOut = @ \/ c.loggedOut]
        /\ UNCHANGED <<setting, oidc, page, tab, idp>>
  BY Zenon DEF ClearDone
<1>1. HasClient /\ mem.running = "done" /\ tab.url = "root" /\ c \in Clearing
  BY <1>0 DEF SessionInv, SessionTyped, Memory, PageInv, NewMem, Untouched
<1>2. PICK k \in Nat : k = IF removed THEN 0 ELSE mem.stored
  BY DEF SessionInv, SessionTyped, Memory
<1> DEFINE m == [mem EXCEPT !.clears = mem.clears \ {c}, !.stored = k]
<1>3. mem' = [m EXCEPT !.token = 0]
  BY <1>0, <1>2, Zenon DEF SignedOut
<1>4. /\ m \in Memory /\ m.running = "done" /\ m.clears = mem.clears \ {c} /\ m.renewing = mem.renewing
      /\ m.leaving = mem.leaving /\ m.started = mem.started
  BY <1>1 DEF SessionInv, SessionTyped, Memory
<1> HIDE DEF m
<1>5. /\ mem' \in Memory /\ mem'.running = "done" /\ mem'.clears = mem.clears \ {c} /\ mem'.renewing = mem.renewing
      /\ mem'.leaving = mem.leaving /\ mem'.started = mem.started
  BY <1>3, <1>4 DEF Memory
<1>6. view' \in Views /\ view'.status = "unauthenticated" /\ view'.expired = c.expired /\ view'.loggedOut = c.loggedOut
  BY <1>0, <1>1, SignedOutScreen DEF SignedOut, Clearing
<1>7. http' \in Traffic /\ http'.cache = {} /\ \A r \in http'.requests : ~r.wanted
  BY <1>0, ClearedTraffic DEF SignedOut, SessionInv
<1>8. /\ sessionGhost' \in [autos : Nat, optedOut : BOOLEAN, failed : BOOLEAN]
      /\ sessionGhost'.autos = sessionGhost.autos /\ sessionGhost'.failed = sessionGhost.failed
      /\ sessionGhost'.optedOut => sessionGhost.optedOut \/ c.loggedOut
  BY <1>0, <1>1 DEF SessionInv, SessionTyped, Clearing
<1>9. c.expired \/ c.loggedOut
  BY DEF SessionInv, PageInv
<1>10. SessionTyped'
  BY <1>0, <1>5, <1>6, <1>7, <1>8 DEF SessionInv, SessionTyped
<1>11. PageInv' /\ LoopInv'
  BY <1>0, <1>1, <1>5, <1>6, <1>8, <1>9, Screens DEF SessionInv, PageInv, LoopInv, FirstVisit, HasClient
<1>12. CodeInv' /\ LogoutInv'
  BY <1>0, <1>1, <1>5, <1>6, <1>8, <1>9 DEF SessionInv, CodeInv, LogoutInv, FirstVisit
<1>13. SessionSound'
  BY <1>0, <1>6, <1>7, <1>8 DEF SessionInv, SessionSound, ConfiguredIsGated, NoStaleData, NoLoginLoop, ErrorIsReal,
     OnlyManualLogin
<1> QED
  BY <1>10, <1>11, <1>12, <1>13 DEF SessionInv

(* logout() settles: at the provider, or locally and remembered. *)
LEMMA LogoutDoneKeeps ==
  ASSUME SessionAssumption, SessionInv, LogoutDone
  PROVE  SessionInv'
<1>0. /\ page = "app" /\ mem.clears = {} /\ mem.leaving /\ UNCHANGED <<setting, oidc, view, http, idp, sessionGhost>>
      /\ HasClient /\ mem.running = "done" /\ tab.url = "root"
  BY DEF LogoutDone, Quiet, SessionInv, PageInv, NewMem, Untouched
<1>1. CASE page' = "logout"
  <2>1. mem' = [mem EXCEPT !.stored = 0] /\ UNCHANGED tab
    BY <1>0, <1>1 DEF LogoutDone
  <2>2. /\ mem' \in Memory /\ mem'.running = "done" /\ mem'.clears = {} /\ mem'.renewing = mem.renewing
        /\ mem'.leaving = mem.leaving /\ mem'.started = mem.started
    BY <1>0, <2>1 DEF SessionInv, SessionTyped, Memory
  <2>3. SessionTyped'
    BY <1>0, <1>1, <2>1, <2>2 DEF SessionInv, SessionTyped
  <2>4. PageInv' /\ LoopInv'
    BY <1>0, <1>1, <2>1, <2>2 DEF SessionInv, PageInv, LoopInv, FirstVisit, HasClient, Untouched
  <2>5. CodeInv' /\ LogoutInv' /\ SessionSound'
    BY <1>0, <1>1, <2>1, <2>2 DEF SessionInv, CodeInv, LogoutInv, SessionSound, ConfiguredIsGated,
       NoStaleData, NoLoginLoop, ErrorIsReal, OnlyManualLogin, FirstVisit
  <2> QED
    BY <2>3, <2>4, <2>5 DEF SessionInv
<1>2. CASE page' # "logout"
  <2> DEFINE c == [expired |-> FALSE, loggedOut |-> TRUE]
  <2>1. /\ mem' = [mem EXCEPT !.leaving = FALSE, !.stored = 0, !.clears = {c}]
        /\ tab' = [tab EXCEPT !.loggedOut = ~setting.blocked] /\ page' = page
    <3>1. mem.clears \cup {c} = {c}
      BY <1>0
    <3> QED
      BY <1>2, <3>1, Zenon DEF LogoutDone
  <2>2. {c} \in SUBSET Clearing /\ c.loggedOut
    BY DEF Clearing
  <2> HIDE DEF c
  <2>3. /\ mem' \in Memory /\ mem'.running = "done" /\ mem'.clears = {c} /\ mem'.renewing = mem.renewing
        /\ ~mem'.leaving /\ mem'.started = mem.started
    BY <1>0, <2>1, <2>2 DEF SessionInv, SessionTyped, Memory
  <2>4. /\ tab' \in [url : {"root", "callback"}, loggedOut : BOOLEAN] /\ tab'.url = "root"
        /\ ~setting.blocked => tab'.loggedOut
    BY <1>0, <2>1 DEF SessionInv, SessionTyped, AllSettings
  <2>5. SessionTyped'
    BY <1>0, <2>1, <2>3, <2>4 DEF SessionInv, SessionTyped
  <2>6. ~FirstVisit
    BY <1>0 DEF SessionInv, PageInv, Untouched
  <2>7. PageInv' /\ LoopInv'
    BY <1>0, <2>1, <2>2, <2>3, <2>4, <2>6 DEF SessionInv, PageInv, LoopInv, FirstVisit, HasClient
  <2>8. CodeInv' /\ LogoutInv'
    BY <1>0, <2>1, <2>3, <2>4, <2>6 DEF SessionInv, CodeInv, LogoutInv, FirstVisit
  <2>9. SessionSound'
    BY <1>0, <2>1 DEF SessionInv, SessionSound, ConfiguredIsGated, NoStaleData, NoLoginLoop, ErrorIsReal,
       OnlyManualLogin
  <2> QED
    BY <2>5, <2>7, <2>8, <2>9 DEF SessionInv
<1> QED
  BY <1>1, <1>2

(* A page that has just been loaded. *)
LEMMA NewPage ==
  /\ NewMem \in Memory /\ NewMem.running = "no" /\ NewMem.started = FALSE /\ NewMem.token = 0 /\ NewMem.stored = 0
  /\ ~NewMem.renewing /\ ~NewMem.leaving /\ ~NewMem.autoLogin /\ NewMem.clears = {}
  /\ NewHttp \in Traffic /\ NewHttp.requests = {} /\ NewHttp.cache = {}
  BY DEF NewMem, NewHttp, Memory, Clearing, Traffic, ApiRequest

(* Whatever brings the tab back to a new page. *)
LEMMA NewPageKeeps ==
  ASSUME SessionInv, UNCHANGED <<setting, oidc>>,
         page' = "boot", view' = LOADING, mem' = NewMem, http' = NewHttp,
         idp' \in Provider, tab' \in [url : {"root", "callback"}, loggedOut : BOOLEAN],
         sessionGhost' \in [autos : Nat, optedOut : BOOLEAN, failed : BOOLEAN],
         tab'.url = "root" => sessionGhost'.autos = 0, sessionGhost'.autos <= 1,
         tab'.url = "callback" /\ idp'.code # "fresh" => sessionGhost'.failed,
         ~setting.refresh /\ ~setting.blocked =>
           /\ sessionGhost'.optedOut => tab'.loggedOut
           /\ tab'.url = "callback" => ~sessionGhost'.optedOut
  PROVE  SessionInv'
<1>1. SessionTyped'
  BY NewPage, Screens DEF SessionInv, SessionTyped
<1>2. PageInv' /\ LoopInv' /\ CodeInv'
  BY NewPage, Screens DEF PageInv, LoopInv, CodeInv, FirstVisit, HasClient
<1>3. LogoutInv' /\ SessionSound'
  BY NewPage, Screens DEF LogoutInv, SessionSound, ConfiguredIsGated, NoStaleData, NoLoginLoop, ErrorIsReal,
     OnlyManualLogin, FirstVisit
<1> QED
  BY <1>1, <1>2, <1>3 DEF SessionInv

(* A reload is an act of the user, and interrupts an exchange under way. *)
LEMMA ReloadKeeps ==
  ASSUME SessionAssumption, SessionInv, Reload
  PROVE  SessionInv'
<1>0. /\ page' = "boot" /\ view' = LOADING /\ mem' = NewMem /\ http' = NewHttp /\ UNCHANGED <<setting, oidc, tab>>
      /\ idp \in Provider /\ sessionGhost \in [autos : Nat, optedOut : BOOLEAN, failed : BOOLEAN]
      /\ tab \in [url : {"root", "callback"}, loggedOut : BOOLEAN]
  BY DEF Reload, SessionInv, SessionTyped
<1>1. PICK t \in Nat : t = idp.reloads + 1
  BY <1>0 DEF Provider
<1>2. CASE mem.running = "callback"
  <2>1. idp' = [idp EXCEPT !.reloads = t, !.code = "used"]
    BY <1>1, <1>2, Zenon DEF Reload
  <2>2. sessionGhost' = [sessionGhost EXCEPT !.autos = 0, !.failed = TRUE]
    <3>1. (sessionGhost.failed \/ mem.running = "callback") = TRUE
      BY <1>2
    <3> QED
      BY <3>1, Zenon DEF Reload
  <2>3. idp' \in Provider
    BY <1>0, <2>1 DEF Provider
  <2>4. /\ sessionGhost' \in [autos : Nat, optedOut : BOOLEAN, failed : BOOLEAN] /\ sessionGhost'.autos = 0
        /\ sessionGhost'.failed /\ sessionGhost'.optedOut = sessionGhost.optedOut
    BY <1>0, <2>2
  <2> QED
    BY <1>0, <2>3, <2>4, NewPageKeeps DEF SessionInv, LogoutInv
<1>3. CASE mem.running # "callback"
  <2>1. idp' = [idp EXCEPT !.reloads = t, !.code = idp.code]
    BY <1>1, <1>3, Zenon DEF Reload
  <2>2. sessionGhost' = [sessionGhost EXCEPT !.autos = 0, !.failed = sessionGhost.failed]
    <3>1. (sessionGhost.failed \/ mem.running = "callback") = sessionGhost.failed
      BY <1>0, <1>3
    <3> QED
      BY <3>1, Zenon DEF Reload
  <2>3. idp' \in Provider /\ idp'.code = idp.code
    BY <1>0, <2>1 DEF Provider
  <2>4. /\ sessionGhost' \in [autos : Nat, optedOut : BOOLEAN, failed : BOOLEAN] /\ sessionGhost'.autos = 0
        /\ sessionGhost'.failed = sessionGhost.failed /\ sessionGhost'.optedOut = sessionGhost.optedOut
    BY <1>0, <2>2
  <2> QED
    BY <1>0, <2>3, <2>4, NewPageKeeps DEF SessionInv, LogoutInv, CodeInv
<1> QED
  BY <1>2, <1>3

(* The provider sends the tab back, with a code or an error. *)
LEMMA IdpReturnsKeeps ==
  ASSUME SessionAssumption, SessionInv, IdpReturns
  PROVE  SessionInv'
<1>0. /\ page = "login" /\ page' = "boot" /\ view' = LOADING /\ mem' = NewMem /\ http' = NewHttp
      /\ UNCHANGED <<setting, oidc>> /\ tab' = [tab EXCEPT !.url = "callback"]
      /\ idp \in Provider /\ sessionGhost \in [autos : Nat, optedOut : BOOLEAN, failed : BOOLEAN]
      /\ tab \in [url : {"root", "callback"}, loggedOut : BOOLEAN] /\ sessionGhost.autos <= 1
  BY DEF IdpReturns, SessionInv, SessionTyped, SessionSound, NoLoginLoop
<1>1. /\ tab' \in [url : {"root", "callback"}, loggedOut : BOOLEAN] /\ tab'.url = "callback"
      /\ tab'.loggedOut = tab.loggedOut
  BY <1>0
<1>2. ~setting.refresh /\ ~setting.blocked => ~sessionGhost.optedOut
  BY <1>0 DEF SessionInv, LogoutInv
<1>3. CASE idp' = [idp EXCEPT !.session = TRUE, !.code = "fresh"]
  <2>1. idp' \in Provider /\ idp'.code = "fresh"
    BY <1>0, <1>3 DEF Provider
  <2>2. /\ sessionGhost' \in [autos : Nat, optedOut : BOOLEAN, failed : BOOLEAN] /\ sessionGhost'.autos <= 1
        /\ sessionGhost'.optedOut => sessionGhost.optedOut
    <3>1. idp' # [idp EXCEPT !.code = "denied"]
      BY <1>0, <2>1 DEF Provider
    <3>2. sessionGhost' = [autos    |-> IF idp.session THEN sessionGhost.autos ELSE 0,
                           optedOut |-> idp.session /\ sessionGhost.optedOut,
                           failed   |-> FALSE]
      BY <3>1, Zenon DEF IdpReturns
    <3>3. PICK n \in Nat : n = (IF idp.session THEN sessionGhost.autos ELSE 0) /\ n <= 1
      BY <1>0
    <3>4. PICK b \in BOOLEAN : b = (idp.session /\ sessionGhost.optedOut)
      BY Zenon
    <3>5. sessionGhost' = [autos |-> n, optedOut |-> b, failed |-> FALSE]
      BY <3>2, <3>3, <3>4, Zenon
    <3>6. b => sessionGhost.optedOut
      BY <3>4, Zenon
    <3> QED
      BY <3>3, <3>5, <3>6
  <2> QED
    BY <1>0, <1>1, <1>2, <2>1, <2>2, NewPageKeeps
<1>4. CASE idp' = [idp EXCEPT !.code = "denied"]
  <2>1. idp' \in Provider /\ idp'.code = "denied"
    BY <1>0, <1>4 DEF Provider
  <2>2. sessionGhost' = [sessionGhost EXCEPT !.failed = TRUE]
    <3>1. idp' # [idp EXCEPT !.session = TRUE, !.code = "fresh"]
      BY <1>0, <2>1 DEF Provider
    <3> QED
      BY <3>1, Zenon DEF IdpReturns
  <2>3. /\ sessionGhost' \in [autos : Nat, optedOut : BOOLEAN, failed : BOOLEAN] /\ sessionGhost'.failed
        /\ sessionGhost'.autos = sessionGhost.autos /\ sessionGhost'.optedOut = sessionGhost.optedOut
    BY <1>0, <2>2
  <2> QED
    BY <1>0, <1>1, <1>2, <2>1, <2>3, NewPageKeeps
<1> QED
  BY <1>3, <1>4 DEF IdpReturns

(* The provider has ended its session and sends the tab back. *)
LEMMA IdpLoggedOutKeeps ==
  ASSUME SessionAssumption, SessionInv, IdpLoggedOut
  PROVE  SessionInv'
<1>0. /\ page = "logout" /\ page' = "boot" /\ view' = LOADING /\ mem' = NewMem /\ http' = NewHttp
      /\ UNCHANGED <<setting, oidc, sessionGhost>> /\ tab' = [tab EXCEPT !.url = "root"]
      /\ idp' = [idp EXCEPT !.session = FALSE]
      /\ idp \in Provider /\ sessionGhost \in [autos : Nat, optedOut : BOOLEAN, failed : BOOLEAN]
      /\ tab \in [url : {"root", "callback"}, loggedOut : BOOLEAN] /\ sessionGhost.autos = 0
  BY DEF IdpLoggedOut, SessionInv, SessionTyped, LoopInv
<1>1. /\ tab' \in [url : {"root", "callback"}, loggedOut : BOOLEAN] /\ tab'.url = "root"
      /\ tab'.loggedOut = tab.loggedOut
  BY <1>0
<1>2. idp' \in Provider
  BY <1>0 DEF Provider
<1> QED
  BY <1>0, <1>1, <1>2, NewPageKeeps DEF SessionInv, LogoutInv

(* main.tsx: no gate only without an oidc section. *)
LEMMA BootKeeps ==
  ASSUME SessionAssumption, SessionInv, Boot
  PROVE  SessionInv'
<1>0. /\ page = "boot" /\ view = LOADING /\ mem = NewMem /\ http = NewHttp
      /\ UNCHANGED <<setting, oidc, mem, tab, http, idp, sessionGhost>>
  BY DEF Boot, SessionInv, PageInv
<1>1. \/ page' = "app" /\ HasClient /\ view' = LOADING
      \/ page' = "app" /\ ~HasClient /\ ~oidc.present /\ view' = DISABLED
      \/ page' = "config-error" /\ view' = LOADING
  BY <1>0 DEF Boot, ConfigOk, HasClient
<1>2. SessionTyped'
  BY <1>0, <1>1, Screens DEF SessionInv, SessionTyped
<1>3. PageInv' /\ LoopInv' /\ CodeInv'
  BY <1>0, <1>1, Screens, NewPage DEF SessionInv, PageInv, LoopInv, CodeInv, FirstVisit, HasClient, Untouched
<1>4. LogoutInv' /\ SessionSound'
  BY <1>0, <1>1, Screens, NewPage DEF SessionInv, LogoutInv, SessionSound, ConfiguredIsGated, NoStaleData,
     NoLoginLoop, ErrorIsReal, OnlyManualLogin, FirstVisit
<1> QED
  BY <1>2, <1>3, <1>4 DEF SessionInv

(* The start-up effect picks the exchange or the restore by the address. *)
LEMMA StartKeeps ==
  ASSUME SessionAssumption, SessionInv, Start
  PROVE  SessionInv'
<1>0. /\ page = "app" /\ HasClient /\ mem.running = "no" /\ view = LOADING /\ http = NewHttp /\ Untouched
      /\ UNCHANGED <<setting, oidc, page, view, tab, http, idp, sessionGhost>>
  BY DEF Start, Quiet, SessionInv, PageInv
<1>1. \/ tab.url = "callback" /\ mem' = [mem EXCEPT !.started = TRUE, !.running = "callback"]
      \/ tab.url = "root" /\ mem' = [mem EXCEPT !.started = TRUE, !.running = "restore"]
  BY DEF Start, SessionInv, SessionTyped
<1>2. /\ mem' \in Memory /\ mem'.started = TRUE /\ mem'.token = 0 /\ mem'.stored = 0 /\ ~mem'.renewing /\ ~mem'.leaving
      /\ mem'.clears = {}
      /\ \/ tab.url = "callback" /\ mem'.running = "callback"
         \/ tab.url = "root" /\ mem'.running = "restore"
  BY <1>0, <1>1 DEF SessionInv, SessionTyped, Memory, Untouched
<1>3. SessionTyped'
  BY <1>0, <1>2 DEF SessionInv, SessionTyped
<1>4. PageInv' /\ LoopInv' /\ CodeInv'
  BY <1>0, <1>2, Screens DEF SessionInv, PageInv, LoopInv, CodeInv, FirstVisit, HasClient, Untouched
<1>5. LogoutInv' /\ SessionSound'
  BY <1>0, <1>2, Screens DEF SessionInv, LogoutInv, SessionSound, ConfiguredIsGated, NoStaleData, NoLoginLoop,
     ErrorIsReal, OnlyManualLogin, FirstVisit
<1> QED
  BY <1>3, <1>4, <1>5 DEF SessionInv

(* restore() settles: a remembered logout is no first visit. *)
LEMMA RestoredKeeps ==
  ASSUME SessionAssumption, SessionInv, Restored
  PROVE  SessionInv'
<1>0. /\ page = "app" /\ HasClient /\ mem.running = "restore" /\ http = NewHttp /\ Untouched /\ tab.url = "root"
      /\ UNCHANGED <<setting, oidc, page, tab, http, idp, sessionGhost>> /\ mem' = [mem EXCEPT !.running = "done"]
  BY DEF Restored, Quiet, SessionInv, PageInv, NewMem
<1>1. /\ mem' \in Memory /\ mem'.started = mem.started /\ mem'.token = 0 /\ mem'.stored = 0 /\ ~mem'.renewing
      /\ ~mem'.leaving /\ mem'.clears = {} /\ mem'.running = "done"
  BY <1>0 DEF SessionInv, SessionTyped, Memory, Untouched
<1>2. PICK b \in BOOLEAN : b = HasStoredLogout
  BY Zenon DEF HasStoredLogout
<1>3. view' = [status |-> "unauthenticated", expired |-> FALSE, loggedOut |-> b]
  <2>1. view' = [SIGNED_OUT EXCEPT !.loggedOut = b]
    BY <1>2, Zenon DEF Restored
  <2> QED
    BY <2>1 DEF SIGNED_OUT
<1>4. /\ view' \in Views /\ view'.status = "unauthenticated" /\ view'.expired = FALSE
      /\ ~setting.blocked /\ ~view'.loggedOut => ~tab.loggedOut
  <2>1. ~setting.blocked /\ ~b => ~tab.loggedOut
    BY <1>2, Zenon DEF HasStoredLogout
  <2> QED
    BY <1>3, <2>1 DEF Views
<1>5. SessionTyped'
  BY <1>0, <1>1, <1>4 DEF SessionInv, SessionTyped
<1>6. PageInv' /\ LoopInv' /\ CodeInv'
  BY <1>0, <1>1, <1>4 DEF SessionInv, PageInv, LoopInv, CodeInv, FirstVisit, HasClient, Untouched
<1>7. LogoutInv' /\ SessionSound'
  BY <1>0, <1>1, <1>4, NewPage DEF SessionInv, LogoutInv, SessionSound, ConfiguredIsGated, NoStaleData, NoLoginLoop,
     ErrorIsReal, OnlyManualLogin, FirstVisit
<1> QED
  BY <1>5, <1>6, <1>7 DEF SessionInv

(* A view sends a request, signed in or without login. *)
LEMMA SendKeeps ==
  ASSUME SessionAssumption, SessionInv, Send
  PROVE  SessionInv'
<1>0. /\ page = "app" /\ view.status \in {"authenticated", "disabled"}
      /\ UNCHANGED <<setting, oidc, page, view, mem, tab, idp, sessionGhost>>
  BY DEF Send, Quiet
<1>1. PICK kind \in {"query", "mutation"} :
        http' = [http EXCEPT !.requests = @ \cup
                   {[kind |-> kind, token |-> mem.token, tries |-> 1, wanted |-> TRUE]}]
  BY DEF Send
<1> DEFINE r == [kind |-> kind, token |-> mem.token, tries |-> 1, wanted |-> TRUE]
<1>2. r \in ApiRequest
  BY DEF SessionInv, SessionTyped, Memory, ApiRequest
<1>3. http' = [http EXCEPT !.requests = http.requests \cup {r}]
  BY <1>1
<1> HIDE DEF r
<1>4. http' \in Traffic
  BY <1>2, <1>3 DEF SessionInv, SessionTyped, Traffic
<1>5. SessionTyped'
  BY <1>0, <1>4 DEF SessionInv, SessionTyped
<1>6. view # LOADING
  BY <1>0, Screens
<1>7. PageInv' /\ LoopInv' /\ CodeInv'
  BY <1>0, <1>6 DEF SessionInv, PageInv, LoopInv, CodeInv, FirstVisit, HasClient, Untouched
<1>8. LogoutInv' /\ SessionSound'
  BY <1>0 DEF SessionInv, LogoutInv, SessionSound, ConfiguredIsGated, NoStaleData, NoLoginLoop,
     ErrorIsReal, OnlyManualLogin, FirstVisit
<1> QED
  BY <1>5, <1>7, <1>8 DEF SessionInv

(* The renewal begins. *)
LEMMA ExpiringKeeps ==
  ASSUME SessionAssumption, SessionInv, Expiring
  PROVE  SessionInv'
<1>0. /\ page = "app" /\ mem.stored # 0 /\ setting.refresh /\ mem' = [mem EXCEPT !.renewing = TRUE]
      /\ UNCHANGED <<setting, oidc, page, view, tab, http, idp, sessionGhost>>
  BY DEF Expiring, Quiet
<1>1. /\ mem' \in Memory /\ mem'.started = mem.started /\ mem'.token = mem.token /\ mem'.stored = mem.stored
      /\ mem'.leaving = mem.leaving /\ mem'.clears = mem.clears /\ mem'.running = mem.running
      /\ mem'.autoLogin = mem.autoLogin
  BY <1>0 DEF SessionInv, SessionTyped, Memory
<1>2. HasClient /\ mem.running = "done" /\ ~FirstVisit
  BY <1>0 DEF SessionInv, PageInv, NewMem, Untouched
<1>3. SessionTyped'
  BY <1>0, <1>1 DEF SessionInv, SessionTyped
<1>4. PageInv' /\ LoopInv' /\ CodeInv'
  BY <1>0, <1>1, <1>2 DEF SessionInv, PageInv, LoopInv, CodeInv, FirstVisit, HasClient
<1>5. LogoutInv' /\ SessionSound'
  BY <1>0 DEF SessionInv, LogoutInv, SessionSound, ConfiguredIsGated, NoStaleData, NoLoginLoop,
     ErrorIsReal, OnlyManualLogin
<1> QED
  BY <1>3, <1>4, <1>5 DEF SessionInv

(* The token expires: the sign-out waits for client.clear(). *)
LEMMA ExpiredKeeps ==
  ASSUME SessionAssumption, SessionInv, Expired
  PROVE  SessionInv'
<1> DEFINE e == [expired |-> TRUE, loggedOut |-> FALSE]
<1>0. /\ page = "app" /\ mem.stored # 0 /\ mem' = [mem EXCEPT !.clears = mem.clears \cup {e}]
      /\ UNCHANGED <<setting, oidc, page, view, tab, http, idp, sessionGhost>>
  BY DEF Expired, Quiet
<1>1. {e} \in SUBSET Clearing /\ e.expired /\ ~e.loggedOut
  BY DEF Clearing
<1> HIDE DEF e
<1>2. /\ mem' \in Memory /\ mem'.started = mem.started /\ mem'.token = mem.token /\ mem'.stored = mem.stored
      /\ mem'.leaving = mem.leaving /\ mem'.clears = mem.clears \cup {e} /\ mem'.running = mem.running
      /\ mem'.autoLogin = mem.autoLogin /\ mem'.renewing = mem.renewing
  BY <1>0, <1>1 DEF SessionInv, SessionTyped, Memory
<1>3. HasClient /\ mem.running = "done" /\ ~FirstVisit
  BY <1>0 DEF SessionInv, PageInv, NewMem, Untouched
<1>4. SessionTyped'
  BY <1>0, <1>2 DEF SessionInv, SessionTyped
<1>5. PageInv' /\ LoopInv' /\ CodeInv'
  BY <1>0, <1>1, <1>2, <1>3 DEF SessionInv, PageInv, LoopInv, CodeInv, FirstVisit, HasClient
<1>6. LogoutInv' /\ SessionSound'
  BY <1>0, <1>1, <1>2, <1>3 DEF SessionInv, LogoutInv, SessionSound, ConfiguredIsGated, NoStaleData, NoLoginLoop,
     ErrorIsReal, OnlyManualLogin, FirstVisit
<1> QED
  BY <1>4, <1>5, <1>6 DEF SessionInv

(* logout() begins: the token is dropped and the cache emptied at once. *)
LEMMA LogoutKeeps ==
  ASSUME SessionAssumption, SessionInv, Logout
  PROVE  SessionInv'
<1>0. /\ page = "app" /\ view.status = "authenticated" /\ mem.clears = {}
      /\ mem' = [mem EXCEPT !.token = 0, !.leaving = TRUE] /\ http' = Cleared
      /\ sessionGhost' = [sessionGhost EXCEPT !.autos = 0] /\ UNCHANGED <<setting, oidc, page, view, tab, idp>>
  BY DEF Logout, Quiet
<1>1. HasClient /\ mem.running = "done" /\ tab.url = "root"
  BY <1>0, Screens DEF SessionInv, PageInv
<1>2. /\ mem' \in Memory /\ mem'.started = mem.started /\ mem'.clears = {} /\ mem'.running = "done"
      /\ mem'.renewing = mem.renewing
  BY <1>0, <1>1 DEF SessionInv, SessionTyped, Memory
<1>3. http' \in Traffic /\ http'.cache = {} /\ \A r \in http'.requests : ~r.wanted
  BY <1>0, ClearedTraffic DEF SessionInv
<1>4. /\ sessionGhost' \in [autos : Nat, optedOut : BOOLEAN, failed : BOOLEAN] /\ sessionGhost'.autos = 0
      /\ sessionGhost'.optedOut = sessionGhost.optedOut /\ sessionGhost'.failed = sessionGhost.failed
  BY <1>0 DEF SessionInv, SessionTyped
<1>5. SessionTyped'
  BY <1>0, <1>2, <1>3, <1>4 DEF SessionInv, SessionTyped
<1>6. PageInv' /\ LoopInv' /\ CodeInv'
  BY <1>0, <1>1, <1>2, <1>4 DEF SessionInv, PageInv, LoopInv, CodeInv, FirstVisit, HasClient
<1>7. LogoutInv' /\ SessionSound'
  BY <1>0, <1>1, <1>2, <1>3, <1>4 DEF SessionInv, LogoutInv, SessionSound, ConfiguredIsGated, NoStaleData, NoLoginLoop,
     ErrorIsReal, OnlyManualLogin, FirstVisit
<1> QED
  BY <1>5, <1>6, <1>7 DEF SessionInv

(* The first page of the tab. *)
LEMMA SessionStarts ==
  ASSUME SessionAssumption, SessionInit
  PROVE  SessionInv
<1>1. idp \in Provider /\ tab \in [url : {"root", "callback"}, loggedOut : BOOLEAN]
  BY DEF SessionInit, Provider
<1>2. /\ sessionGhost \in [autos : Nat, optedOut : BOOLEAN, failed : BOOLEAN] /\ sessionGhost.autos = 0
      /\ ~sessionGhost.optedOut
  BY DEF SessionInit
<1>3. /\ setting \in AllSettings /\ oidc \in AllSections /\ page = "boot" /\ view = LOADING /\ mem = NewMem
      /\ http = NewHttp /\ tab.url = "root" /\ tab.loggedOut = FALSE
  BY DEF SessionInit, SessionAssumption
<1>4. SessionTyped
  BY <1>1, <1>2, <1>3, NewPage, Screens DEF SessionTyped
<1>5. PageInv /\ LoopInv /\ CodeInv
  BY <1>2, <1>3, NewPage, Screens DEF PageInv, LoopInv, CodeInv, FirstVisit
<1>6. LogoutInv /\ SessionSound
  BY <1>2, <1>3, NewPage, Screens DEF LogoutInv, SessionSound, ConfiguredIsGated, NoStaleData, NoLoginLoop,
     ErrorIsReal, OnlyManualLogin, FirstVisit
<1> QED
  BY <1>4, <1>5, <1>6 DEF SessionInv

(* Every step keeps the invariant. *)
LEMMA SessionKept ==
  ASSUME SessionAssumption, SessionInv, [SessionNext]_sessionVars
  PROVE  SessionInv'
<1>1. CASE SessionNext
  BY <1>1, BootKeeps, StartKeeps, RestoredKeeps, CallbackDoneKeeps, ReloadKeeps, AutoLoginKeeps, ManualLoginKeeps,
     IdpReturnsKeeps, SendKeeps, ApiAnswersKeeps, ClearDoneKeeps, ExpiringKeeps, RenewDoneKeeps, ExpiredKeeps,
     LogoutKeeps, LogoutDoneKeeps, IdpLoggedOutKeeps DEF SessionNext
<1>2. CASE UNCHANGED sessionVars
  BY <1>2 DEF sessionVars, SessionInv, SessionTyped, PageInv, LoopInv, CodeInv, LogoutInv, SessionSound,
     ConfiguredIsGated, NoStaleData, NoLoginLoop, ErrorIsReal, OnlyManualLogin, FirstVisit, Untouched, HasClient
<1> QED
  BY <1>1, <1>2

(* Whatever the provider, the browser, the API and the user do, the console   *)
(* is gated as configured, a signed-out screen shows nothing of the session,  *)
(* it never loops through the provider, its error screen reports a failure,   *)
(* and a logout holds (AuthContext.tsx, App.tsx, api/client.ts).              *)
THEOREM SessionSoundAlways ==
  ASSUME SessionAssumption
  PROVE  SessionSpec => []SessionSound
<1>1. SessionInit => SessionInv
  BY SessionStarts
<1>2. SessionInv /\ [SessionNext]_sessionVars => SessionInv'
  BY SessionKept
<1>3. SessionInv => SessionSound
  BY DEF SessionInv
<1> QED
  BY <1>1, <1>2, <1>3, PTL DEF SessionSpec
=============================================================================
