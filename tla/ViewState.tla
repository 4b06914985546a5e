----------------------------- MODULE ViewState -----------------------------
(***************************************************************************)
(* What a page of LuCI keeps of its look in the session of the browser:    *)
(* the order of a UITable, under page and id of the table, and the active  *)
(* tab of each group of tabs (ui.js, tabs), under the path of the group    *)
(* and for one page at a time.                                             *)
(***************************************************************************)
EXTENDS Integers, FiniteSets, SequencesExt

CONSTANTS
    TableRows,     \* rows that the server may send
    SortKey,       \* SortKey[r][c]: the sort key of row r in column c
    Sortable,      \* columns whose headings are sortable from the start
    Pages,         \* pages: the groups of tabs that each has
    Tabs,          \* tabs of a group, 0 the first
    MaxLooks       \* bound: actions of the user and answers of the server

\* Columns and pages are not named like what stands for none.
ASSUME LooksAssumption ==
    /\ MaxLooks \in Nat
    /\ Tabs # {} /\ Tabs \subseteq Nat
    /\ IsFiniteSet(TableRows)
    /\ \A r \in TableRows : \A c \in DOMAIN SortKey[r] : SortKey[r][c] \in Int
    /\ \A r, q \in TableRows : DOMAIN SortKey[r] = DOMAIN SortKey[q]
    /\ \A r \in TableRows : Sortable \subseteq DOMAIN SortKey[r] /\ "none" \notin DOMAIN SortKey[r]
    /\ TableRows # {}
    /\ "none" \notin DOMAIN Pages

VARIABLES
    table,       \* data, sortState, the marks of the headings
    tablesort,   \* session: per page, the order stored for its table
    tabs,        \* per group: panes with content, active tab, hidden tabs
    tab,         \* session: page and paths of the tabs
    visited,     \* data-page
    asked,       \* history: what the user asked for
    looks        \* history: actions so far

viewVars == <<table, tablesort, tabs, tab, visited, asked, looks>>

Columns == DOMAIN SortKey[CHOOSE r \in TableRows : TRUE]
NoData == <<>>
Unsorted == [col |-> "none", desc |-> FALSE]
NoTabs == [page |-> "none", paths |-> <<>>]

-----------------------------------------------------------------------------
(* UITable.                                                                *)

\* getActiveSortState
SortState(t, store) ==
    IF t.sortState # Unsorted THEN t.sortState ELSE IF t.id THEN store ELSE Unsorted
Mark(s) == [c \in Columns |-> IF c # s.col THEN "" ELSE IF s.desc THEN "desc" ELSE "asc"]

\* A table is made, with or without an id.
NewTable(id, store) ==
    LET t == [id |-> id, sortState |-> Unsorted, sortable |-> Sortable, data |-> NoData,
              sent |-> NoData, marks |-> <<>>]
    IN [t EXCEPT !.marks = [c \in Columns |-> IF c \in Sortable THEN Mark(SortState(t, store))[c] ELSE ""]]

\* The stable sort of the rows, down or up: a row comes behind those that come
\* before it, and those like it that were there first.
Before(r, q, s) == IF s.desc THEN SortKey[r][s.col] > SortKey[q][s.col]
                   ELSE SortKey[r][s.col] < SortKey[q][s.col]
Rank(rows, s, i) ==
    Cardinality({j \in DOMAIN rows :
        Before(rows[j], rows[i], s) \/ (j <= i /\ ~Before(rows[i], rows[j], s))})
Sorted(rows, s) ==
    IF s = Unsorted THEN rows
    ELSE [k \in DOMAIN rows |-> rows[CHOOSE i \in DOMAIN rows : Rank(rows, s, i) = k]]

\* update: from the first row on every heading is sortable.
Update(t, rows, store) ==
    LET s == SortState(t, store) IN
    [t EXCEPT !.data = Sorted(rows, s), !.sent = rows,
              !.marks = IF s = Unsorted THEN @ ELSE Mark(s),
              !.sortable = IF rows = NoData THEN @ ELSE Columns]

-----------------------------------------------------------------------------
(* tabs.                                                                   *)

\* Mutant: the state of another page counts.
AnyTabState(store, p) == IF store = NoTabs THEN [page |-> p, paths |-> <<>>] ELSE [store EXCEPT !.page = p]

\* getActiveTabState
TabState(store, p) == IF store.page = p THEN store ELSE [page |-> p, paths |-> <<>>]

\* getActiveTabId
ActiveTabId(store, p, g) ==
    LET paths == TabState(store, p).paths IN IF g \in DOMAIN paths THEN paths[g] ELSE 0
SetActiveTabId(store, p, g, i) ==
    LET s == TabState(store, p)
    IN [s EXCEPT !.paths = [h \in DOMAIN @ \cup {g} |-> IF h = g THEN i ELSE @[h]]]

First(filled) == CHOOSE i \in filled : \A j \in filled : i <= j

\* initTabGroup, for the groups of a page one after the other; what they read
\* and store is under paths of their own.
Selected(store, p, g, filled) ==
    LET i == ActiveTabId(store, p, g) IN IF i \in filled THEN i ELSE First(filled)
InitTabGroups(store, p, filled) ==
    [g \in Pages[p] |-> [filled |-> filled[g], active |-> Selected(store, p, g, filled[g]),
                         hidden |-> Tabs \ filled[g]]]
Stored(store, p, filled) ==
    LET paths == TabState(store, p).paths
        chosen == [g \in DOMAIN paths \cup Pages[p] |->
                     IF g \in Pages[p] THEN Selected(store, p, g, filled[g]) ELSE paths[g]]
    IN IF Pages[p] = {} THEN store ELSE [page |-> p, paths |-> chosen]

-----------------------------------------------------------------------------
ViewTypeOK ==
    /\ visited \in DOMAIN Pages /\ DOMAIN tabs = Pages[visited]
    /\ \A g \in Pages[visited] : tabs[g].active \in Tabs
    /\ table.data \in Seq(TableRows)
    /\ looks \in 0..MaxLooks

\* The panes that have something to show; some pane of a group always has.
Filled(p) == [Pages[p] -> (SUBSET Tabs) \ {{}}]

\* A session begins.
ViewInit ==
    /\ visited \in DOMAIN Pages
    /\ \E id \in BOOLEAN : table = NewTable(id, Unsorted)
    /\ tablesort = [p \in DOMAIN Pages |-> Unsorted]
    /\ \E filled \in Filled(visited) :
         /\ tabs = InitTabGroups(NoTabs, visited, filled)
         /\ tab = Stored(NoTabs, visited, filled)
         /\ asked = [order |-> tablesort, page |-> IF Pages[visited] = {} THEN "none" ELSE visited,
                     tabs |-> [g \in Pages[visited] |-> First(filled[g])]]
    /\ looks = 0

\* Another view.
NoView ==
    /\ visited = CHOOSE p \in DOMAIN Pages : TRUE
    /\ table = NewTable(FALSE, Unsorted)
    /\ tablesort = [p \in DOMAIN Pages |-> Unsorted]
    /\ tabs = <<>>
    /\ tab = NoTabs
    /\ asked = [order |-> tablesort, page |-> "none", tabs |-> <<>>]
    /\ looks = 0

Look == looks < MaxLooks /\ looks' = looks + 1

\* Data from the server, in any order.
Fill ==
    /\ Look
    /\ \E rows \in BoundedSeq(TableRows, Cardinality(TableRows)) :
         IsInjective(rows) /\ table' = Update(table, rows, tablesort[visited])
    /\ UNCHANGED <<tablesort, tabs, tab, visited, asked>>

\* handleSort: setActiveSortState, and update if there has been data.
HandleSort ==
    /\ Look
    /\ \E c \in table.sortable :
         LET s == [col |-> c, desc |-> table.marks[c] = "asc"]
             t == [table EXCEPT !.sortState = s]
         IN /\ tablesort' = IF table.id THEN [tablesort EXCEPT ![visited] = s] ELSE tablesort
            /\ table' = IF table.data = NoData THEN t
                        ELSE [Update(t, table.data, tablesort'[visited]) EXCEPT !.sent = table.sent]
            /\ asked' = [asked EXCEPT !.order[visited] = s]
    /\ UNCHANGED <<tabs, tab, visited>>

\* switchTab: a tab that can be seen and is not active.
SwitchTab ==
    /\ Look
    /\ \E g \in Pages[visited] : \E i \in Tabs \ (tabs[g].hidden \cup {tabs[g].active}) :
         /\ tabs' = [tabs EXCEPT ![g].active = i]
         /\ tab' = SetActiveTabId(tab, visited, g, i)
         /\ asked' = [asked EXCEPT !.tabs[g] = i]
    /\ UNCHANGED <<table, tablesort, visited>>

\* Dependencies show or hide the options of a pane; updateTabs follows.
UpdateTabs ==
    /\ Look
    /\ \E g \in Pages[visited] : \E filled \in (SUBSET Tabs) \ {{}, tabs[g].filled} :
         tabs' = [tabs EXCEPT ![g].filled = filled, ![g].hidden = Tabs \ filled]
    /\ UNCHANGED <<table, tablesort, tab, visited, asked>>

\* A page is loaded, the same or another.  What was asked for is forgotten with
\* another page that has tabs, with a pane that is empty when the page is
\* loaded, and with a table that has no id.
Load ==
    /\ Look
    /\ visited' \in DOMAIN Pages
    /\ \E filled \in Filled(visited') :
         /\ tabs' = InitTabGroups(tab, visited', filled)
         /\ tab' = Stored(tab, visited', filled)
         /\ asked' = [
              order |-> IF table.id THEN asked.order ELSE tablesort,
              page |-> IF Pages[visited'] = {} THEN asked.page ELSE visited',
              tabs |-> IF Pages[visited'] = {} THEN asked.tabs ELSE
                  [g \in Pages[visited'] |->
                      IF asked.page = visited' /\ asked.tabs[g] \in filled[g]
                      THEN asked.tabs[g] ELSE First(filled[g])]]
    /\ table' = NewTable(table.id, tablesort[visited'])
    /\ UNCHANGED tablesort

ViewNext == Fill \/ HandleSort \/ SwitchTab \/ UpdateTabs \/ Load

-----------------------------------------------------------------------------
(* Properties.                                                             *)

\* The rows on show are the rows sent last, in the order the user last asked
\* for, and the heading says so; a table with an id keeps the order over loads
\* of the page.  A group of tabs shows the tab that the user chose last, over
\* loads too, while that pane has something to show and no other page with
\* tabs comes between.
ViewKept ==
    /\ Len(table.data) = Len(table.sent) /\ Range(table.data) = Range(table.sent)
    /\ LET order == asked.order[visited] IN
       /\ order = Unsorted => table.data = table.sent
       /\ (order # Unsorted /\ table.data # NoData) =>
             /\ \A i, j \in 1..Len(table.data) :
                   i < j => ~Before(table.data[j], table.data[i], order)
             /\ table.marks = Mark(order)
    /\ \A g \in DOMAIN tabs :
          /\ tabs[g].active = asked.tabs[g]
          /\ tabs[g].hidden = Tabs \ tabs[g].filled
=============================================================================
