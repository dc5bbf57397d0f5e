------------------------------ MODULE WebTable ------------------------------
(***************************************************************************)
(* The table of the web console (components/DataTable.tsx) with its order  *)
(* of cells and its disclosure rules (components/dataTableSort.ts), and    *)
(* the page buttons as the query history uses them                         *)
(* (views/QueryWorkspaceView.tsx).                                         *)
(*                                                                         *)
(* TanStack Table is external: it compares two rows by the sorted columns  *)
(* in turn, an undefined cell against another by itself (the table leaves  *)
(* its option sortUndefined at the default, 1), turns the result around    *)
(* for a descending column, breaks ties by the position of the row, and    *)
(* sorts with a stable sort.  So is the browser's numeric collator: it compares two texts run  *)
(* by run, a run of digits as a number.                                    *)
(***************************************************************************)
EXTENDS Integers, Sequences, FiniteSets, TLC, FiniteSetsExt

CONSTANTS
  Columns,   \* ids of the columns, as strings
  Numbers,   \* cells that are numbers, in hundredths
  Texts,     \* cells that are texts, as sequences of runs
  MaxRows,   \* rows of the table (bound)
  PageSize,  \* entries of a page
  MaxTotal   \* entries of the paged list (bound)

\* Assumed of the constants; the module that instantiates this one states it.
BoundAssumption == MaxRows \in Nat /\ PageSize \in Nat \ {0} /\ MaxTotal \in Nat

VARIABLES
  rows,     \* data: a sequence of functions from columns to cells
  sorting,  \* SortingState: a sequence of [id, desc]
  hidden,   \* columns whose visibility is switched off
  menu,     \* the column panel: open, where the focus is, what is pressed
  pages     \* the paged list: the page shown, its total, entries seen since it changed

vars == <<rows, sorting, hidden, menu, pages>>

---------------------------------------------------------------------------
(* Cells *)

\* String(number): the runs of its decimal form, leading zeros of a run dropped.
Runs(n) ==
  LET whole == n \div 100
      rest == n % 100 IN
  IF rest = 0 THEN <<whole>>
  ELSE <<whole, IF rest % 10 = 0 THEN rest \div 10 ELSE rest>>

\* null and NaN, and undefined, are empty; booleans and dates are compared as numbers.
Null == [kind |-> "null", value |-> 0, runs |-> <<>>]
Undefined == [kind |-> "undefined", value |-> 0, runs |-> <<>>]
IsEmpty(a) == a \in {Null, Undefined}
Number(n) == [kind |-> "number", value |-> n, runs |-> Runs(n)]
Text(t) == [kind |-> "text", value |-> 0, runs |-> t]
Cells == {Null, Undefined} \cup {Number(n) : n \in Numbers} \cup {Text(t) : t \in Texts}

Sign(n) == IF n < 0 THEN -1 ELSE IF n > 0 THEN 1 ELSE 0

\* Intl.Collator(locale, { numeric: true }).compare
Collate(s, t) ==
  LET differ == {i \in 1..Min({Len(s), Len(t)}) : s[i] # t[i]} IN
  IF differ = {} THEN Sign(Len(s) - Len(t)) ELSE Sign(s[Min(differ)] - t[Min(differ)])

CompareNonEmpty(a, b) ==
  IF a.kind = "number" /\ b.kind = "number" THEN Sign(a.value - b.value)
  ELSE Collate(a.runs, b.runs)

CompareForDirection(a, b, desc) ==
  CASE IsEmpty(a) /\ IsEmpty(b) -> 0
    [] IsEmpty(a) /\ ~IsEmpty(b) -> 1
    [] ~IsEmpty(a) /\ IsEmpty(b) -> -1
    [] OTHER -> IF desc THEN -CompareNonEmpty(a, b) ELSE CompareNonEmpty(a, b)

\* The library turns the result around for a descending column: so does this
\* first.
BadTanstackSortResult(a, b, desc) == CompareForDirection(a, b, FALSE)
TanstackSortResult(a, b, desc) ==
  LET r == CompareForDirection(a, b, desc) IN IF desc THEN -r ELSE r

\* sortFn: the direction is the one of the column it is asked about.
BadSortFn(i, j, id) ==
  TanstackSortResult(rows[i][id], rows[j][id], sorting[1].desc)
SortFn(i, j, id) ==
  LET entry == CHOOSE e \in {sorting[k] : k \in DOMAIN sorting} : e.id = id IN
  TanstackSortResult(rows[i][id], rows[j][id], entry.desc)

---------------------------------------------------------------------------
(* The library *)

\* createSortedRowModel with sortUndefined: 1: where one cell of the two is undefined, sortFn is not asked.
RowBefore(i, j) ==
  LET undefined(r, k) == rows[r][sorting[k].id] = Undefined
      ascending(k) == CASE undefined(i, k) /\ ~undefined(j, k) -> 1
                        [] undefined(j, k) /\ ~undefined(i, k) -> -1
                        [] OTHER -> SortFn(i, j, sorting[k].id)
      result(k) == IF sorting[k].desc THEN -ascending(k) ELSE ascending(k)
      decided == {k \in DOMAIN sorting : result(k) # 0} IN
  IF decided = {} THEN i < j ELSE result(Min(decided)) < 0

Order == SortSeq([i \in DOMAIN rows |-> i], RowBefore)

\* The query is answered again, with one row more or with none.
NewData ==
  /\ \/ Len(rows) < MaxRows /\ \E r \in [Columns -> Cells] : rows' = Append(rows, r)
     \/ rows # <<>> /\ rows' = <<>>
  /\ UNCHANGED <<sorting, hidden, menu, pages>>

\* The header's button, alone or with the multi-sort key: the column is added,
\* turned around or dropped.
ToggleSorting ==
  /\ \E id \in Columns \ hidden, desc \in BOOLEAN, multi \in BOOLEAN :
       LET others == IF multi THEN SelectSeq(sorting, LAMBDA e : e.id # id) ELSE <<>> IN
       sorting' \in {others, Append(others, [id |-> id, desc |-> desc])}
  /\ UNCHANGED <<rows, hidden, menu, pages>>

---------------------------------------------------------------------------
(* The column panel *)

\* What lies within disclosureRef: the button and the panel.
BadInside(place) == place = "panel"
Inside(place) == place \in {"button", "panel"}

\* disclosureAction for a pointer press and for a focus that moves to a place;
\* the listeners exist while the panel is open.
Closes(place) == menu.open /\ ~Inside(place)

\* The focus is lost with a panel that is no longer drawn.
Focused(open, place) == IF place = "panel" /\ ~open THEN "outside" ELSE place

\* A press moves the focus as browsers do, or leaves it (a button in Safari), and
\* the click follows on the same place.
Press ==
  /\ menu.pressed = "none"
  /\ \E place \in {"button", "panel", "outside"} :
       /\ place = "panel" => menu.open
       /\ \E focus \in {place, menu.focus} :
            LET open == menu.open /\ ~Closes(place) IN
            menu' = [open |-> open, focus |-> Focused(open, focus),
                     pressed |-> place, was |-> menu.open]
  /\ UNCHANGED <<rows, sorting, hidden, pages>>

Click ==
  /\ menu.pressed # "none"
  /\ LET open == IF menu.pressed = "button" THEN ~menu.open ELSE menu.open IN
     menu' = [menu EXCEPT !.pressed = "none", !.open = open, !.focus = Focused(open, @)]
  /\ UNCHANGED <<rows, sorting, hidden, pages>>

\* Tab moves the focus out of the panel or its button: focusout with a next
\* element that is not inside.
MoveFocus ==
  /\ menu.pressed = "none"
  /\ \E place \in {"button", "panel", "outside"} :
       /\ place = "panel" => menu.open
       /\ menu' = [menu EXCEPT !.focus = place,
                               !.open = @ /\ ~(Inside(menu.focus) /\ Closes(place))]
  /\ UNCHANGED <<rows, sorting, hidden, pages>>

\* Escape closes and gives the focus back to the button.
Escape ==
  /\ menu.open /\ menu.pressed = "none"
  /\ menu' = [menu EXCEPT !.open = FALSE, !.focus = "button"]
  /\ UNCHANGED <<rows, sorting, hidden, pages>>

\* A checkbox of the panel, "show all" and "reset"; a hidden column stays sorted.
SetVisibility ==
  /\ menu.open
  /\ hidden' \in {{}} \cup {hidden \cup {c} : c \in Columns} \cup {hidden \ {c} : c \in Columns}
  /\ UNCHANGED <<rows, sorting, menu, pages>>

---------------------------------------------------------------------------
(* Pages *)

BadTotalPages(total) == Max({1, total \div PageSize})
TotalPages(total) == Max({1, (total + PageSize - 1) \div PageSize})

OnPage(p, total) == {e \in 1..total : (p - 1) * PageSize < e /\ e <= p * PageSize}

\* The buttons, enabled from the page and total of the answer that is shown; the
\* next answer of an unchanged list is the page asked for.
TurnPage ==
  /\ \E p \in {pages.page - 1, pages.page + 1} :
       /\ p < pages.page => pages.page > 1
       /\ p > pages.page => pages.page < TotalPages(pages.total)
       /\ pages' = [pages EXCEPT !.page = p, !.seen = @ \cup OnPage(p, pages.total),
                                 !.turned = TRUE]
  /\ UNCHANGED <<rows, sorting, hidden, menu>>

\* A later answer of the same page has another total.
ListChanges ==
  /\ \E total \in 0..MaxTotal :
       pages' = [page |-> pages.page, total |-> total, turned |-> FALSE,
                 seen |-> UNION {OnPage(p, total) : p \in 1..pages.page}]
  /\ UNCHANGED <<rows, sorting, hidden, menu>>

Init ==
  /\ rows = <<>> /\ sorting = <<>> /\ hidden = {}
  /\ menu = [open |-> FALSE, focus |-> "outside", pressed |-> "none", was |-> FALSE]
  /\ \E total \in 0..MaxTotal :
       pages = [page |-> 1, total |-> total, turned |-> FALSE, seen |-> OnPage(1, total)]

\* The rows and their order, the panel and the pages left alone.
NextSorting == NewData \/ ToggleSorting

Next == NextSorting \/ Press \/ Click \/ MoveFocus \/ Escape \/ SetVisibility
        \/ TurnPage \/ ListChanges

Spec == Init /\ [][Next]_vars
---------------------------------------------------------------------------
(* Properties *)

\* In the first sorted column an empty cell is above one that is not only where it is undefined and the column
\* descends: dataTableSort.ts:2 keeps null and NaN last in both directions, the library moves undefined cells with
\* the direction before it asks (AllEmptiesLast is the claim for every empty cell).
EmptiesLast ==
  sorting # <<>> =>
    LET cell(i) == rows[Order[i]][sorting[1].id] IN
    \A i, j \in DOMAIN rows :
      i < j /\ IsEmpty(cell(i)) /\ ~IsEmpty(cell(j)) => cell(i) = Undefined /\ sorting[1].desc

\* "empties (null/undefined/NaN) always last in both directions" (DataTable.tsx:62).
AllEmptiesLast ==
  sorting # <<>> =>
    \A i, j \in DOMAIN rows :
      i < j /\ IsEmpty(rows[Order[i]][sorting[1].id]) => IsEmpty(rows[Order[j]][sorting[1].id])

\* Reference order of two neighbours: the first sorted column whose cells are not
\* alike decides, in its own direction; rows alike everywhere keep their order.
WellPlaced(i, j) ==
  LET cell(r, k) == rows[r][sorting[k].id]
      alike(k) == LET a == cell(i, k)
                      b == cell(j, k) IN
                  a = b \/ (~IsEmpty(a) /\ ~IsEmpty(b) /\ CompareNonEmpty(a, b) = 0)
      first == {k \in DOMAIN sorting : ~alike(k)} IN
  IF first = {} THEN i < j
  ELSE LET k == Min(first)
           a == cell(i, k)
           b == cell(j, k)
           desc == sorting[k].desc IN
       \/ a = Undefined /\ desc
       \/ b = Undefined /\ ~desc
       \/ a # Undefined /\ b = Null
       \/ ~IsEmpty(a) /\ ~IsEmpty(b) /\ (CompareNonEmpty(a, b) < 0) = ~desc

\* The table is in the order its headers announce, for several sorted columns of
\* different directions too, and rows alike keep the order of the data
\* (dataTableSort.ts:31).
OrderAsAnnounced == \A i \in 1..(Len(rows) - 1) : WellPlaced(Order[i], Order[i + 1])

\* "Mixed number/string compares as strings, so the order stays total and
\* deterministic" (dataTableSort.ts:23).
OrderIsTotal ==
  \A c \in Columns : \A i, j, k \in DOMAIN rows :
    (CompareForDirection(rows[i][c], rows[j][c], FALSE) <= 0 /\
     CompareForDirection(rows[j][c], rows[k][c], FALSE) <= 0)
      => CompareForDirection(rows[i][c], rows[k][c], FALSE) <= 0

\* A click on the button always toggles the panel: the press before it is inside
\* and does not close what the click would then open again (DataTable.tsx:91).
ButtonToggles ==
  [][(Click /\ menu.pressed = "button") => menu'.open = ~menu.was]_vars

\* Turning pages of a list that does not change never shows an empty page, and
\* who reached the last one has been offered every entry (DataTable.tsx:145).
PagesExact ==
  /\ pages.turned /\ pages.total > 0 /\ pages.page <= TotalPages(pages.total)
       => OnPage(pages.page, pages.total) # {}
  /\ pages.page >= TotalPages(pages.total) => pages.seen = 1..pages.total
=============================================================================
