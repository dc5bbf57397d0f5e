---------------------------- MODULE MCWebConsole ----------------------------
(* The web console for TLC: its edit form for SSO groups and its session,     *)
(* which this module extends, its navigation, its tables and its SQL viewer.  *)
(* The parts share no state, so one behaviour runs one of them (part) and the *)
(* others rest: that explores every part completely, and no meaningless       *)
(* interleaving of two.                                                       *)
EXTENDS WebSsoChange, WebSession, Integers, Sequences

CONSTANTS i1, i2, t1, t2, Nil

VARIABLES
  part,
  openTab, eventTarget, queryTarget, openView, assets, prefs, linkGhost,
  rows, sorting, hidden, menu, pages,
  loader, ed, copy

linkVars == <<openTab, eventTarget, queryTarget, openView, assets, prefs, linkGhost>>
tableVars == <<rows, sorting, hidden, menu, pages>>
editorVars == <<loader, ed, copy>>

----------------------------------------------------------------------------
(* Instances *)

\* Any configuration, up to one login.
Config == INSTANCE WebSession WITH MaxTokens <- 1, MaxTries <- 1, MaxAway <- 1, MaxReloads <- 0

\* The provider and the browser of a session that rests, or that only meets its configuration.
Usual == [refresh |-> FALSE, endSession |-> TRUE, blocked |-> FALSE]

Links == INSTANCE WebNavigation WITH None <- Nil, tab <- openTab, view <- openView, ghost <- linkGhost,
  Ids <- {i1, i2}, Tables <- {t1, t2}, Languages <- {"ko"}, PageSize <- 2

\* Rows of two columns whose numbers sort differently as texts.
Sorting == INSTANCE WebTable WITH
  Columns <- {"a", "b"}, Numbers <- {100, 150, 1000}, Texts <- {}, MaxRows <- 3,
  PageSize <- 2, MaxTotal <- 0

\* The column panel and the pages of lists of up to three pages.
Controls == INSTANCE WebTable WITH
  Columns <- {"a"}, Numbers <- {}, Texts <- {<<1, 7>>, <<1000, 2>>}, MaxRows <- 1,
  PageSize <- 2, MaxTotal <- 6

Editor == INSTANCE WebEditor WITH
  Editors <- {"e1", "e2"}, Statements <- {"s1", "s2"}, MaxLazies <- 3, MaxCopies <- 0

ASSUME InstanceAssumption ==
  /\ Config!SessionAssumption /\ SessionAssumption
  /\ BoundAssumption /\ Links!PageAssumption
  /\ Sorting!BoundAssumption /\ Controls!BoundAssumption /\ Editor!BoundAssumption

----------------------------------------------------------------------------
(* Specification *)

ConsoleInit ==
  /\ part \in {"config", "session", "form", "links", "sorting", "controls", "editor"}
  /\ SessionInit /\ (part # "config" => oidc = GoodSection) /\ (part # "session" => setting = Usual)
  /\ Init
  /\ Links!Init /\ (part # "links" => assets = <<>> /\ prefs.language = "ko")
  /\ Controls!Init /\ (part # "controls" => pages.total = 0)
  /\ Editor!Init

SessionStep ==
  /\ \/ part = "config" /\ Config!SessionNext
     \/ part = "session" /\ SessionNext
  /\ UNCHANGED <<part, vars, linkVars, tableVars, editorVars>>

FormStep ==
  /\ part = "form" /\ Next
  /\ UNCHANGED <<part, sessionVars, linkVars, tableVars, editorVars>>

LinkStep ==
  /\ part = "links" /\ Links!Next
  /\ UNCHANGED <<part, sessionVars, vars, tableVars, editorVars>>

TableStep ==
  /\ \/ part = "sorting" /\ Sorting!NextSorting
     \/ part = "controls" /\ Controls!Next
  /\ UNCHANGED <<part, sessionVars, vars, linkVars, editorVars>>

EditorStep ==
  /\ part = "editor" /\ Editor!Next
  /\ UNCHANGED <<part, sessionVars, vars, linkVars, tableVars>>

ConsoleNext == SessionStep \/ FormStep \/ LinkStep \/ TableStep \/ EditorStep

ConsoleSpec == ConsoleInit /\ [][ConsoleNext]_<<part, sessionVars, vars, linkVars, tableVars, editorVars>>

----------------------------------------------------------------------------
(* Properties, each stated and explained in the module it is taken from *)

\* A link between views ends on its target whatever was followed before (App.tsx:106).
FollowedLinkShows == Links!FollowedLinkShows

\* A tab opened from the sidebar starts without the target of an earlier link.
NoLeftoverTarget == Links!NoLeftoverTarget

\* The query workspace shows the table the user picked (catalogToQueryJourney.test.tsx:16).
QueryShowsPicked == Links!QueryShowsPicked

\* A preference chosen while storage worked comes back with every page load that
\* can read storage, whatever failed in between (storage.ts:5).
PreferencesKept == Links!PreferencesKept

\* Null and NaN are last in both directions, undefined cells only in an ascending column (dataTableSort.ts:2).
EmptiesLast == Sorting!EmptiesLast

\* Rows are in the order the headers announce, over several columns of different
\* directions, and alike rows keep their order (dataTableSort.ts:31).
OrderAsAnnounced == Sorting!OrderAsAnnounced

\* A click on the button always toggles the column panel, although the press before
\* it may close the panel (DataTable.tsx:91).
ButtonToggles == Controls!ButtonToggles

\* Turning pages never shows an empty one and reaches every entry (DataTable.tsx:145).
PagesExact == Controls!PagesExact

\* A retry of one viewer never remounts a healthy editor elsewhere (SqlEditor.tsx:14).
HealthyStays == Editor!HealthyStays

\* A retry is never answered with the failure it followed (retryableLoader.ts:15).
RetryIsAnswered == Editor!RetryIsAnswered

\* Whatever is drawn is the statement passed last (SqlEditorBody.tsx:65).
ShowsStatement == Editor!ShowsStatement

----------------------------------------------------------------------------
(* What the run checks: the properties above, component by component *)

\* The views follow the user: links, preferences, sorting, pages, the column panel and the
\* lazily loaded editor show what was asked for (App.tsx, DataTable.tsx, SqlEditor.tsx).
ViewsFollow ==
  /\ [](FollowedLinkShows /\ NoLeftoverTarget /\ QueryShowsPicked)
  /\ [](EmptiesLast /\ OrderAsAnnounced /\ PagesExact /\ ShowsStatement)
  /\ PreferencesKept /\ ButtonToggles /\ HealthyStays /\ RetryIsAnswered
=============================================================================
