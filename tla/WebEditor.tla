----------------------------- MODULE WebEditor -----------------------------
(***************************************************************************)
(* The read-only SQL viewers of the web console: the loader of the editor  *)
(* chunk and its retry (components/retryableLoader.ts), the boundary that  *)
(* catches a failed chunk (components/ChunkErrorBoundary.tsx), the frame   *)
(* with its copy button (components/SqlEditor.tsx) and the body that keeps *)
(* the CodeMirror view in step (components/SqlEditorBody.tsx).             *)
(*                                                                         *)
(* A loader is the sequence of its lazy components, the last one current.  *)
(* React is external: it draws an editor some time after a state changed,  *)
(* several clicks may be handled before it does, it calls a lazy component *)
(* once and keeps what it answered for ever, and a boundary under another  *)
(* key is another boundary.                                                *)
(***************************************************************************)
EXTENDS Naturals, Sequences

CONSTANTS
  Editors,     \* viewers on the page
  Statements,  \* SQL texts
  MaxLazies,   \* lazy components of one loader (bound)
  MaxCopies    \* copies in flight at one viewer (bound)

\* Assumed of the constants; the module that instantiates this one states it.
BoundAssumption == MaxLazies \in Nat \ {0} /\ MaxCopies \in Nat

VARIABLES
  loader,  \* sharedBodyLoader, and the ownLoader of each editor that retried
  ed,      \* the editors: props, boundary, what was drawn last
  copy     \* copyState, the timer and the copies in flight

vars == <<loader, ed, copy>>

Loaders == {"shared"} \cup Editors
Absent == [status |-> "none", lazies |-> <<>>]

\* createRetryableLoader: a loader is made with its first lazy component.
NewLoader == [status |-> "new", lazies |-> <<"new">>]

NoEditor == [mounted |-> FALSE, dirty |-> FALSE, key |-> 0, drawnKey |-> 0, failed |-> FALSE,
             asked |-> FALSE, body |-> "none", comp |-> <<>>, value |-> "none", shown |-> "none"]
NoCopy == [state |-> "idle", timer |-> FALSE, pending |-> 0]

\* (ownLoader.current ?? sharedBodyLoader)
LoaderOf(e) == IF loader[e] = Absent THEN "shared" ELSE e

\* component(): the identity of the current lazy component.
Component(e) == <<LoaderOf(e), Len(loader[LoaderOf(e)].lazies)>>

Init ==
  /\ loader = [l \in Loaders |-> IF l = "shared" THEN NewLoader ELSE Absent]
  /\ ed = [e \in Editors |-> NoEditor]
  /\ copy = [e \in Editors |-> NoCopy]

---------------------------------------------------------------------------
(* The frame *)

\* The first draw shows the plain statement; the effect asks for the body.
Mount(e) ==
  /\ ~ed[e].mounted
  /\ \E v \in Statements :
       ed' = [ed EXCEPT ![e] = [NoEditor EXCEPT !.mounted = TRUE, !.dirty = TRUE,
                                                !.body = "static", !.value = v, !.shown = v]]
  /\ UNCHANGED <<loader, copy>>

\* The own loader, the view and the timer go with the editor; a copy in flight
\* then sets the state of an editor that is gone.
Unmount(e) ==
  /\ ed[e].mounted
  /\ ed' = [ed EXCEPT ![e] = NoEditor]
  /\ loader' = [loader EXCEPT ![e] = Absent]
  /\ copy' = [copy EXCEPT ![e] = NoCopy]

\* The view above passes another statement, or draws again for a reason of its own.
Rerender(e) ==
  /\ ed[e].mounted
  /\ \E v \in Statements : ed' = [ed EXCEPT ![e].value = v, ![e].dirty = TRUE]
  /\ UNCHANGED <<loader, copy>>

\* What the boundary and the suspense below it draw for a lazy component.
BadBody(failed, lazy) == IF lazy = "ok" THEN "editor" ELSE "loading"
Body(failed, lazy) ==
  CASE failed \/ lazy = "rejected" -> "failed"
    [] lazy = "ok" -> "editor"
    [] OTHER -> "loading"

\* The effect on value replaces the document of a view that stays.
SyncDoc(doc, value) == value

\* A draw: load() runs when a lazy component is drawn for the first time.
Render(e) ==
  LET l == LoaderOf(e)
      comp == Component(e)
      new == loader[l].lazies[comp[2]] = "new"
      sameBoundary == ed[e].key = ed[e].drawnKey
      failed == sameBoundary /\ ed[e].failed
      lazy == IF new THEN "loading" ELSE loader[l].lazies[comp[2]]
      body == Body(failed, lazy)
      kept == body = "editor" /\ ed[e].body = "editor" /\ comp = ed[e].comp /\ sameBoundary IN
  /\ ed[e].dirty
  /\ loader' = IF new /\ ~failed
               THEN [loader EXCEPT ![l] = [status |-> "loading",
                                           lazies |-> [@.lazies EXCEPT ![comp[2]] = "loading"]]]
               ELSE loader
  /\ ed' = [ed EXCEPT ![e] = [@ EXCEPT
       !.dirty = FALSE, !.asked = FALSE, !.drawnKey = ed[e].key, !.body = body, !.comp = comp,
       !.failed = body = "failed",
       !.shown = IF kept THEN SyncDoc(@, ed[e].value) ELSE ed[e].value]]
  /\ UNCHANGED copy

---------------------------------------------------------------------------
(* The chunk *)

\* The import settles; React draws again who waits for it.
BadSettle(l, n) ==
  /\ loader[l].lazies[n] = "loading"
  /\ \E result \in {"ok", "rejected"} :
       loader' = [loader EXCEPT ![l].lazies[n] = result,
                                ![l].status = IF result = "ok" THEN "ok" ELSE @]
  /\ ed' = [e \in Editors |->
       IF ed[e].comp = <<l, n>> /\ ed[e].body = "loading" THEN [ed[e] EXCEPT !.dirty = TRUE]
       ELSE ed[e]]
  /\ UNCHANGED copy
Settle(l, n) ==
  /\ loader[l].lazies[n] = "loading"
  /\ \E result \in {"ok", "rejected"} :
       loader' = [loader EXCEPT ![l].lazies[n] = result,
                                ![l].status = IF result = "ok" THEN "ok" ELSE "failed"]
  /\ ed' = [e \in Editors |->
       IF ed[e].comp = <<l, n>> /\ ed[e].body = "loading" THEN [ed[e] EXCEPT !.dirty = TRUE]
       ELSE ed[e]]
  /\ UNCHANGED copy

\* retry(): another lazy component, after a failure only.
Retry(ld) ==
  IF ld.status # "failed" THEN ld
  ELSE [status |-> "new", lazies |-> Append(ld.lazies, "new")]

\* onRetry: the first one makes the editor's own loader.
OnRetry(e) ==
  [loader EXCEPT ![e] = IF loader[e] = Absent THEN NewLoader ELSE Retry(@)]

\* The button of the failure message: a refused retry leaves the key, and the
\* boundary forgets the failure either way.  Keys are told apart from the drawn one
\* only, so they may be taken modulo 3.
Click(e) ==
  /\ ed[e].body = "failed"
  /\ \A l \in Loaders : Len(OnRetry(e)[l].lazies) <= MaxLazies
  /\ loader' = OnRetry(e)
  /\ ed' = [ed EXCEPT ![e] = [@ EXCEPT
       !.key = IF OnRetry(e) # loader THEN (@ + 1) % 3 ELSE @,
       !.failed = FALSE, !.dirty = TRUE, !.asked = TRUE]]
  /\ UNCHANGED copy

---------------------------------------------------------------------------
(* The copy button *)

CopyClick(e) ==
  /\ ed[e].mounted /\ copy[e].pending < MaxCopies
  /\ copy' = [copy EXCEPT ![e].pending = @ + 1]
  /\ UNCHANGED <<loader, ed>>

\* The clipboard answers: the outcome is shown, and one timer takes it back.
CopyDone(e) ==
  /\ copy[e].pending > 0
  /\ \E state \in {"copied", "failed"} :
       copy' = [copy EXCEPT ![e] = [state |-> state, timer |-> TRUE, pending |-> @.pending - 1]]
  /\ UNCHANGED <<loader, ed>>

CopyTimer(e) ==
  /\ copy[e].timer
  /\ copy' = [copy EXCEPT ![e] = [@ EXCEPT !.state = "idle", !.timer = FALSE]]
  /\ UNCHANGED <<loader, ed>>

---------------------------------------------------------------------------

Next ==
  \/ \E e \in Editors : \/ Mount(e) \/ Unmount(e) \/ Rerender(e) \/ Render(e) \/ Click(e)
                        \/ CopyClick(e) \/ CopyDone(e) \/ CopyTimer(e)
  \/ \E l \in Loaders : \E n \in DOMAIN loader[l].lazies : Settle(l, n)

\* React draws what changed, imports settle and timers fire; nobody has to click.
Fairness ==
  /\ \A e \in Editors : WF_vars(Render(e)) /\ WF_vars(CopyTimer(e))
  /\ \A l \in Loaders : WF_vars(\E n \in DOMAIN loader[l].lazies : Settle(l, n))

Spec == Init /\ [][Next]_vars
FairSpec == Spec /\ Fairness

---------------------------------------------------------------------------
(* Properties *)

\* "a retry here never remounts a healthy editor elsewhere" (SqlEditor.tsx:14): a
\* draw keeps an editor that is shown, its component and its boundary.
HealthyStays ==
  [][\A e \in Editors :
       (Render(e) /\ ed[e].body = "editor") =>
         ed'[e].body = "editor" /\ ed'[e].comp = ed[e].comp /\ ed[e].drawnKey = ed'[e].drawnKey]_vars

\* A retry is never answered with the failure it followed, however many clicks came
\* before the draw: "React.lazy caches a rejected promise forever, so a retry must
\* create a new lazy component" (retryableLoader.ts:15).
RetryIsAnswered ==
  [][\A e \in Editors : (Render(e) /\ ed[e].asked) => ed'[e].body # "failed"]_vars

\* Whatever is drawn - plain text, failure or editor - is the statement the view
\* passed last, one that changed while the chunk was loading too (SqlEditorBody.tsx:65).
ShowsStatement == \A e \in Editors : ed[e].dirty \/ ed[e].shown = ed[e].value

\* The outcome of a copy does not stay on the button, copies that overlap included
\* (SqlEditor.tsx:69).
CopyStateClears == \A e \in Editors : copy[e].state # "idle" ~> copy[e].state = "idle"

\* Nobody waits for the chunk for ever: its failure is drawn too (SqlEditor.tsx:37).
LoadingEnds == \A e \in Editors : ed[e].body = "loading" ~> ed[e].body # "loading"
=============================================================================
