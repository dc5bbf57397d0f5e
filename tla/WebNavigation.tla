--------------------------- MODULE WebNavigation ---------------------------
(***************************************************************************)
(* Moving between the views of the web console: the tab and the two        *)
(* in-memory targets App.tsx keeps, the links that set them                *)
(* (views/eventNavigation.ts, architectureNavigation.ts, infraTopology.ts, *)
(* recentEvents.ts and the buttons of the views), the local state a view   *)
(* seeds from a target when it is mounted, and the preferences kept in     *)
(* localStorage (config/storage.ts, i18n/locale.ts).                       *)
(*                                                                         *)
(* React is external: a view is mounted when its tab opens or its key      *)
(* changes, and an effect runs when a dependency of it changed.            *)
(***************************************************************************)
EXTENDS Naturals, Sequences, FiniteSets, SequencesExt

CONSTANTS
  Ids,        \* ids of services, pipelines, events and resources
  Tables,     \* tables of the catalog
  Languages,  \* languages of the browser: "ko" and any other
  PageSize,   \* LIST_PAGE_SIZE: what the unpaged list request returns at most
  None

\* Assumed of the constants; the module that instantiates this one states it.
PageAssumption == PageSize \in Nat \ {0} /\ None \notin Ids \cup Tables

VARIABLES
  tab,         \* currentTab
  eventTarget, \* what an event, resource or stage link asked for
  queryTarget, \* the table "Open in Query" asked for
  view,        \* local state of the mounted view
  assets,      \* the server's tables, in list order
  prefs,       \* theme and locale in memory, what localStorage holds, whether it works
  ghost        \* history: the link of the last step, the table and preferences chosen

vars == <<tab, eventTarget, queryTarget, view, assets, prefs, ghost>>

TabNames == {"overview", "services", "pipelines", "architecture", "operations",
             "catalog", "query", "policy", "sso"}

Target(t, id, kind) == [tab |-> t, id |-> id, kind |-> kind]
ServiceTargets  == {Target("services", i, "") : i \in Ids}
PipelineTargets == {Target("pipelines", i, "") : i \in Ids}
EventTargets    == {Target("operations", i, "event") : i \in Ids}
ResourceTargets == {Target("operations", i, "resource") : i \in Ids}

---------------------------------------------------------------------------
(* The views *)

\* The `key` App gives the view of tab t, and the state it starts with.
ViewKey(t, et, qt) ==
  CASE t \in {"services", "pipelines", "operations"} -> IF et = None THEN None ELSE et.id
    [] t = "query" -> qt
    [] OTHER -> None

SeedOf(et, t, kind) == IF et # None /\ et.tab = t /\ et.kind = kind THEN et.id ELSE None

Mounted(t, et, qt) ==
  [key      |-> ViewKey(t, et, qt),
   section  |-> IF SeedOf(et, t, "resource") # None THEN "resources" ELSE "events",
   resource |-> SeedOf(et, t, "resource"),
   focus    |-> SeedOf(et, t, "event"),
   search   |-> IF t = "services" THEN SeedOf(et, t, "") ELSE None,
   pipeline |-> IF t = "pipelines" THEN SeedOf(et, t, "") ELSE None,
   asset    |-> IF t = "query" THEN qt ELSE None]

\* The effect of OperationsView when one of its two initial ids changes while it
\* stays mounted.
Effects(t, et) ==
  IF t # "operations" \/ et = eventTarget THEN view
  ELSE [view EXCEPT !.section = IF SeedOf(et, t, "event") # None THEN "events"
                                ELSE IF SeedOf(et, t, "resource") # None THEN "resources" ELSE @,
                    !.focus = IF SeedOf(et, t, "event") # None THEN et.id ELSE @,
                    !.resource = SeedOf(et, t, "resource")]

Rendered(t, et, qt) ==
  IF t # tab \/ ViewKey(t, et, qt) # view.key THEN Mounted(t, et, qt) ELSE Effects(t, et)

\* QueryWorkspaceView: an id that is not among the listed tables falls back to
\* the first one.  The list is the first page of the unfiltered request.
Listed == ToSet(SubSeq(assets, 1, IF Len(assets) < PageSize THEN Len(assets) ELSE PageSize))
ActiveAsset == IF view.asset \in Listed THEN view.asset
               ELSE IF assets = <<>> THEN None ELSE assets[1]

Init ==
  /\ tab = "overview" /\ eventTarget = None /\ queryTarget = None
  /\ view = Mounted("overview", None, None)
  /\ assets \in {s \in UNION {[1..n -> Tables] : n \in 0..Cardinality(Tables)} : IsInjective(s)}
  /\ \E l \in Languages :
       prefs = [locale |-> IF l = "ko" THEN "ko-KR" ELSE "en-US", theme |-> "light",
                stored |-> [locale |-> None, theme |-> "light"], storage |-> "works",
                language |-> l]
  /\ ghost = [step |-> "start", target |-> None, again |-> FALSE, picked |-> None,
             chosen |-> [locale |-> None, theme |-> None]]

Quietly(step) == [ghost EXCEPT !.step = step, !.target = None, !.again = FALSE]

---------------------------------------------------------------------------
(* Navigation *)

BadNavigateToTab(t) ==
  /\ tab' = t /\ eventTarget' = None /\ UNCHANGED queryTarget
  /\ view' = Rendered(t, None, queryTarget)

\* navigateToTab: the sidebar and the overview's "view all" buttons.
NavigateToTab(t) ==
  /\ tab' = t /\ eventTarget' = None /\ queryTarget' = None
  /\ view' = Rendered(t, None, None)

OpenTab ==
  /\ \E t \in TabNames :
       /\ NavigateToTab(t)
       /\ ghost' = [Quietly(IF t = tab THEN "same tab" ELSE "new tab") EXCEPT !.picked = None]
  /\ UNCHANGED <<assets, prefs>>

\* The targets of an event or a decision record, of a resource, of a stage of a
\* pipeline and of a node of the infrastructure topology.
EventLinks    == ServiceTargets \cup PipelineTargets \cup ResourceTargets
ResourceLinks == ServiceTargets \cup PipelineTargets \cup EventTargets
StageLinks    == ServiceTargets \cup PipelineTargets
NodeLinks     == ResourceTargets

\* The links the open view offers; the overview has the recent events'.
Links ==
  CASE tab = "overview" -> EventTargets
    [] tab = "architecture" -> StageLinks \cup NodeLinks
    [] tab = "operations" -> IF view.section = "resources" THEN ResourceLinks ELSE EventLinks
    [] OTHER -> {}

BadNavigateToEventTarget(target) ==
  LET et == IF eventTarget = None THEN target ELSE eventTarget IN
  /\ tab' = target.tab /\ eventTarget' = et /\ UNCHANGED queryTarget
  /\ view' = Rendered(target.tab, et, queryTarget)

\* navigateToEventTarget
NavigateToEventTarget(target) ==
  /\ tab' = target.tab /\ eventTarget' = target /\ UNCHANGED queryTarget
  /\ view' = Rendered(target.tab, target, queryTarget)

FollowLink ==
  /\ \E target \in Links :
       /\ NavigateToEventTarget(target)
       /\ ghost' = [Quietly("link") EXCEPT !.target = target,
                                           !.again = tab = target.tab /\ eventTarget = target,
                                           !.picked = None]
  /\ UNCHANGED <<assets, prefs>>

BadNavigateToCatalogQuery(table) ==
  /\ tab' = "query" /\ UNCHANGED <<queryTarget, eventTarget>>
  /\ view' = Rendered("query", eventTarget, queryTarget)

\* navigateToCatalogQuery: "Open in Query" of the table shown by the catalog.
NavigateToCatalogQuery(table) ==
  /\ tab' = "query" /\ queryTarget' = table /\ UNCHANGED eventTarget
  /\ view' = Rendered("query", eventTarget, table)

\* The tree reaches every table through its catalog and schema.
OpenInQuery ==
  /\ tab = "catalog"
  /\ \E table \in ToSet(assets) :
       NavigateToCatalogQuery(table) /\ ghost' = [Quietly("query") EXCEPT !.picked = table]
  /\ UNCHANGED <<assets, prefs>>

---------------------------------------------------------------------------
(* Inside a view *)

Locally == ghost' = Quietly("use") /\ UNCHANGED <<tab, eventTarget, queryTarget, assets, prefs>>

\* The three section buttons of Operations; the events button drops the focus.
ChooseSection ==
  /\ tab = "operations"
  /\ \E s \in {"events", "resources", "decisions"} :
       view' = [view EXCEPT !.section = s, !.focus = IF s = "events" THEN None ELSE @]
  /\ Locally

\* The search field of Services.
Search ==
  /\ tab = "services" /\ \E i \in Ids \cup {None} : view' = [view EXCEPT !.search = i]
  /\ Locally

\* The list of Pipelines.
ChoosePipeline ==
  /\ tab = "pipelines" /\ \E i \in Ids : view' = [view EXCEPT !.pipeline = i]
  /\ Locally

\* The list of tables of the query workspace.
ChooseTable ==
  /\ tab = "query"
  /\ \E a \in Listed : view' = [view EXCEPT !.asset = a] /\
                       ghost' = [Quietly("use") EXCEPT !.picked = a]
  /\ UNCHANGED <<tab, eventTarget, queryTarget, assets, prefs>>

\* A table appears upstream and the next fetch lists it.
TableAppears ==
  /\ \E a \in Tables \ ToSet(assets), i \in 0..Len(assets) :
       assets' = SubSeq(assets, 1, i) \o <<a>> \o SubSeq(assets, i + 1, Len(assets))
  /\ ghost' = Quietly("data")
  /\ UNCHANGED <<tab, eventTarget, queryTarget, view, prefs>>

---------------------------------------------------------------------------
(* Preferences *)

\* readStoredValue and storeValue: an access that throws (blocked storage, or a
\* full one for a write) is ignored.
Read(p, key)  == IF p.storage = "blocked" THEN None ELSE p.stored[key]
BadStored(p, key, value) == p
Stored(p, key, value) ==
  IF p.storage = "works" THEN [p EXCEPT !.stored = [@ EXCEPT ![key] = value]] ELSE p

\* getInitialLocale, the initial theme, and the theme's effect after the mount.
InitialPreferences(p) ==
  LET l == Read(p, "locale")
      t == IF Read(p, "theme") = "dark" THEN "dark" ELSE "light"
      q == [p EXCEPT !.locale = IF l # None THEN l
                                ELSE IF p.language = "ko" THEN "ko-KR" ELSE "en-US",
                     !.theme = t]
  IN Stored(q, "theme", t)

\* selectLocale
SelectLocale ==
  /\ \E l \in {"en-US", "ko-KR"} :
       /\ prefs' = Stored([prefs EXCEPT !.locale = l], "locale", l)
       /\ ghost' = [Quietly("prefs") EXCEPT
                      !.chosen = IF prefs.storage = "works" THEN [@ EXCEPT !["locale"] = l] ELSE @]
  /\ UNCHANGED <<tab, eventTarget, queryTarget, view, assets>>

\* toggleTheme, and the effect that follows it.
ToggleTheme ==
  /\ LET t == IF prefs.theme = "light" THEN "dark" ELSE "light" IN
     /\ prefs' = Stored([prefs EXCEPT !.theme = t], "theme", t)
     /\ ghost' = [Quietly("prefs") EXCEPT
                    !.chosen = IF prefs.storage = "works" THEN [@ EXCEPT !["theme"] = t] ELSE @]
  /\ UNCHANGED <<tab, eventTarget, queryTarget, view, assets>>

StorageChanges ==
  /\ \E w \in {"works", "full", "blocked"} \ {prefs.storage} :
       prefs' = [prefs EXCEPT !.storage = w]
  /\ ghost' = Quietly("storage")
  /\ UNCHANGED <<tab, eventTarget, queryTarget, view, assets>>

\* A reload: the targets were in memory only.
Reload ==
  /\ tab' = "overview" /\ eventTarget' = None /\ queryTarget' = None
  /\ view' = Mounted("overview", None, None)
  /\ prefs' = InitialPreferences(prefs)
  /\ ghost' = [Quietly("reload") EXCEPT !.picked = None]
  /\ UNCHANGED assets

Next == OpenTab \/ FollowLink \/ OpenInQuery
        \/ ChooseSection \/ Search \/ ChoosePipeline \/ ChooseTable \/ TableAppears
        \/ SelectLocale \/ ToggleTheme \/ StorageChanges \/ Reload

Spec == Init /\ [][Next]_vars

---------------------------------------------------------------------------
(* Properties *)

Shows(target) ==
  /\ tab = target.tab
  /\ CASE target.tab = "services" -> view.search = target.id
       [] target.tab = "pipelines" -> view.pipeline = target.id
       [] target.kind = "event" -> view.section = "events" /\ view.focus = target.id
       [] OTHER -> view.section = "resources" /\ view.resource = target.id

\* "clicking it opens the Services catalog pre-filtered by ID, or selects the
\* item in Pipelines" (IMPLEMENTATION-STATUS.md:56), and likewise for events and
\* resources in Operations: whatever was followed or chosen before, a link ends
\* on its target.  The one exception is the link to the target already open in
\* Operations, which leaves the section the user chose since.
FollowedLinkShows == (ghost.target # None /\ ~ghost.again) => Shows(ghost.target)

\* A tab opened from the sidebar starts plain: no target of an earlier link or
\* "Open in Query" comes back with it (App.tsx:106).
NoLeftoverTarget ==
  ghost.step = "new tab" =>
    {view.focus, view.resource, view.search, view.pipeline, view.asset} = {None}

\* The table a user opened in the query workspace, or chose there, is the table
\* whose SQL the workspace shows: "the SQL and table identity survive the full
\* production wiring chain" (catalogToQueryJourney.test.tsx:16).
QueryShowsPicked == (tab = "query" /\ ghost.picked # None) => ActiveAsset = ghost.picked

\* A preference chosen while storage worked is the one every later page load
\* that can read storage comes back with, also when storage was blocked or full
\* in between and other choices were lost (storage.ts:5): in particular the
\* theme's effect on mount never overwrites it with the default.
PreferencesKept ==
  [][(Reload /\ prefs.storage # "blocked") =>
       \A key \in {"locale", "theme"} : ghost.chosen[key] \in {None, prefs'[key]}]_vars
=============================================================================
