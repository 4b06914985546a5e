----------------------------- MODULE RowOrder -----------------------------
(***************************************************************************)
(* Rows that are dragged to another place (form.js, TableSection with      *)
(* sortable): a drop moves the row in the page and, by a call of its own,  *)
(* the section in the copy that uci.js has of the file, among sections of  *)
(* every type.  A save redraws all tables when it ends, and a drag goes on *)
(* with a row that is no longer in the page.                               *)
(***************************************************************************)
EXTENDS Filters, Naturals, SequencesExt

CONSTANTS
    RowOrders,    \* orders of the sections of the file, to start from
    RowType,      \* the type of each section: the table it is a row of
    NoRow,        \* no section
    MaxDrags,     \* bound: drags
    MaxSaves      \* bound: saves

ASSUME RowsAssumption ==
    /\ \A o \in RowOrders : o \in Seq(DOMAIN RowType) /\ IsInjective(o)
    /\ NoRow \notin DOMAIN RowType
    /\ MaxDrags \in Nat /\ MaxSaves \in Nat

VARIABLES
    file,      \* the sections on the server, in order
    copied,    \* uci.sections(): what the copy in the browser says
    reorder,   \* state.reorder of uci.js
    tables,    \* the rows of each table of the page
    touch,     \* 'ontouchstart' in window
    drag,      \* scope.dragState, or the row under the finger
    saving,    \* Map.save: what it waits for
    stray,     \* history: a row was dropped where its table could not follow
    drags,     \* history: drags so far
    saves      \* history: saves so far

rowVars == <<file, copied, reorder, tables, touch, drag, saving, stray, drags, saves>>

RowSids == DOMAIN RowType
TableTypes == {RowType[s] : s \in RowSids}

\* live: the row is in the page; rows: the rows of its table when it is not.
NoDrag == [sid |-> NoRow, live |-> TRUE, rows |-> <<>>, target |-> NoRow, below |-> FALSE]

\* cfgsections of a typed section, which renderContents makes rows of.
OfType(sections, t) == Kept(sections, {s \in RowSids : RowType[s] = t})
Drawn(sections) == [t \in TableTypes |-> OfType(sections, t)]
OnPage == UNION {Range(tables[t]) : t \in TableTypes}

IndexOf(seq, s) == CHOOSE i \in DOMAIN seq : seq[i] = s

\* insertBefore of row s, at row r or behind it; a row before itself stays.
Put(rows, s, r, below) ==
    LET rest == Kept(rows, RowSids \ {s})
    IN IF s = r THEN rows
       ELSE InsertAt(rest, IndexOf(rest, r) + (IF below THEN 1 ELSE 0), s)

\* Mutant: the section takes the place that the other one has, counted
\* with the section that is moved.
MovedCounted(s, r, after) ==
    LET rest == Kept(copied, RowSids \ {s})
        i == IndexOf(copied, r) + (IF after THEN 1 ELSE 0)
    IN IF {s, r} \subseteq Range(copied) /\ s # r
       THEN InsertAt(rest, IF i > Len(copied) THEN Len(copied) ELSE i, s) ELSE copied

\* uci.move: nothing happens unless both sections are there.
Moved(s, r, after) ==
    IF {s, r} \subseteq Range(copied) THEN Put(copied, s, r, after) ELSE copied

RowsTypeOK ==
    /\ file \in Seq(RowSids) /\ copied \in Seq(RowSids)
    /\ reorder \in BOOLEAN /\ touch \in BOOLEAN /\ stray \in BOOLEAN
    /\ tables \in [TableTypes -> Seq(RowSids)]
    /\ drag.sid \in RowSids \cup {NoRow} /\ drag.target \in RowSids \cup {NoRow}
    /\ saving \in {"no", "requests", "order"}
    /\ drags \in 0..MaxDrags /\ saves \in 0..MaxSaves

-----------------------------------------------------------------------------
(* Drag and drop.                                                          *)

\* handleDragInit and handleDragStart, on the handle of a row; the first
\* handleTouchMove.
DragRow ==
    /\ drag = NoDrag
    /\ drags < MaxDrags
    /\ drags' = drags + 1
    /\ \E s \in OnPage : drag' = [NoDrag EXCEPT !.sid = s]
    /\ UNCHANGED <<file, copied, reorder, tables, touch, saving, stray, saves>>

\* handleDragEnter and handleDragOver: any row of the page, and which half.
\* A finger marks the rows of its own table only; those of a table that has
\* been redrawn have no extent, so the last of them takes the mark.
Hovered(r, below) ==
    \/ ~touch /\ r \in OnPage
    \/ touch /\ drag.live /\ r \in Range(tables[RowType[drag.sid]])
    \/ touch /\ ~drag.live /\ r = Last(drag.rows) /\ below

Hover ==
    /\ drag.sid # NoRow
    /\ \E r \in RowSids, below \in BOOLEAN :
         /\ Hovered(r, below)
         /\ drag' = [drag EXCEPT !.target = r, !.below = below]
    /\ UNCHANGED <<file, copied, reorder, tables, touch, saving, stray, drags, saves>>

\* The row before which insertBefore puts the dragged one is in the same
\* table, or there is none; otherwise insertBefore throws.
SameTable == drag.live /\ RowType[drag.sid] = RowType[drag.target]
AtEnd ==
    LET rows == tables[RowType[drag.target]]
    IN drag.below /\ drag.target \in Range(rows) /\ Last(rows) = drag.target
Inserts == SameTable \/ touch \/ AtEnd

\* What insertBefore does to the page.
TablesAfterDrop ==
    IF ~drag.live THEN tables
    ELSE [tables EXCEPT ![RowType[drag.sid]] =
            IF SameTable THEN Put(@, drag.sid, drag.target, drag.below)
            ELSE Append(Kept(@, RowSids \ {drag.sid}), drag.sid)]

\* handleDrop and handleTouchEnd
Drop ==
    /\ drag.target # NoRow
    /\ IF Inserts
       THEN /\ tables' = TablesAfterDrop
            /\ copied' = Moved(drag.sid, drag.target, drag.below)
            /\ reorder' = (reorder \/ /\ drag.sid # drag.target
                                      /\ {drag.sid, drag.target} \subseteq Range(copied))
            /\ stray' = (stray \/ ~SameTable \/ drag.target \notin Range(copied))
       ELSE UNCHANGED <<tables, copied, reorder, stray>>
    /\ drag' = NoDrag
    /\ UNCHANGED <<file, touch, saving, drags, saves>>

\* The row is let go elsewhere, or the finger before it moved.
LetGo ==
    /\ drag.sid # NoRow
    /\ drag.target = NoRow \/ ~touch
    /\ drag' = NoDrag
    /\ UNCHANGED <<file, copied, reorder, tables, touch, saving, stray, drags, saves>>

-----------------------------------------------------------------------------
(* Saving: one save at a time, the button of a row or that of the page.    *)

\* handleRemove, which saves, or the button "Save".
SaveRows ==
    /\ saving = "no"
    /\ saves < MaxSaves
    /\ saves' = saves + 1
    /\ saving' = "requests"
    /\ \/ UNCHANGED copied
       \/ \E s \in OnPage \cap Range(copied) : copied' = Kept(copied, RowSids \ {s})
    /\ UNCHANGED <<file, reorder, tables, touch, drag, stray, drags>>

\* The deletions are done: reorderSections.
SendOrder ==
    /\ saving = "requests"
    /\ saving' = "order"
    /\ file' = IF reorder THEN copied
               ELSE Kept(file, Range(copied))
    /\ reorder' = FALSE
    /\ UNCHANGED <<copied, tables, touch, drag, stray, drags, saves>>

\* unload, load and renderContents: what was moved in the meantime is
\* forgotten by the copy and by the tables.
Redraw ==
    /\ saving = "order"
    /\ saving' = "no"
    /\ copied' = file
    /\ tables' = Drawn(file)
    /\ drag' = IF drag.sid = NoRow THEN drag
               ELSE [drag EXCEPT !.live = FALSE,
                                 !.rows = IF drag.live THEN tables[RowType[drag.sid]] ELSE @,
                                 !.target = IF touch THEN @ ELSE NoRow]
    /\ stray' = FALSE
    /\ UNCHANGED <<file, reorder, touch, drags, saves>>

\* The deletion, or the order, is refused or lost: nothing is redrawn.  The
\* order counts as sent.
SaveRefused ==
    /\ saving = "requests"
    /\ saving' = "no"
    /\ \/ UNCHANGED <<file, reorder>>
       \/ /\ reorder
          /\ reorder' = FALSE
          /\ file' = Kept(file, Range(copied))
    /\ UNCHANGED <<copied, tables, touch, drag, stray, drags, saves>>

-----------------------------------------------------------------------------
RowsInit ==
    /\ file \in RowOrders
    /\ copied = file
    /\ reorder = FALSE
    /\ tables = Drawn(file)
    /\ touch \in BOOLEAN
    /\ drag = NoDrag
    /\ saving = "no"
    /\ stray = FALSE
    /\ drags = 0
    /\ saves = 0

\* The page has no such tables.
NoRows ==
    /\ file = <<>> /\ copied = <<>>
    /\ tables = Drawn(<<>>)
    /\ reorder = FALSE /\ touch = FALSE /\ stray = FALSE
    /\ drag = NoDrag
    /\ saving = "no"
    /\ drags = 0 /\ saves = 0

RowsNext ==
    \/ DragRow \/ Hover \/ Drop \/ LetGo
    \/ SaveRows \/ SendOrder \/ Redraw \/ SaveRefused

\* The rows of a table are in the order that the browser's copy of the file has
\* for their sections: whatever is dragged where among sections of other types,
\* while saves delete, store, forget, fail and redraw, and a drag outlives its
\* row.  (handleDrop and handleTouchEnd, which move the row and the section by
\* two rules, against uci.move and Map.save.)  The exceptions are rows dropped
\* at the end of another table, on a row whose deletion has failed, or by a
\* finger from a table that is no longer there, until a save redraws the page.
RowsInOrder ==
    stray \/ \A t \in TableTypes :
               Kept(tables[t], Range(copied)) = Kept(OfType(copied, t), Range(tables[t]))
=============================================================================
