----------------------------- MODULE Dropdown -----------------------------
(***************************************************************************)
(* The list fields of LuCI (ui.js): UIDropdown and the UICombobox and      *)
(* UIComboButton made from it, and the UIDynamicList, which keeps its      *)
(* values beside a combobox and hears every change of that combobox while  *)
(* the combobox is still in the middle of changing.  One field is on the   *)
(* page; which kind of field it is, is chosen at the start.                *)
(***************************************************************************)
EXTENDS Naturals, FiniteSets, SequencesExt, Filters

CONSTANTS
    Preset,         \* sequence of the values the view offers, as rendered
    More,           \* sequence of the values addChoices brings
    Typed,          \* values a user may type into the "-- custom --" input
    Placeholder,    \* the "-- Please choose --" entry
    CreateItem,     \* the entry that holds the "-- custom --" input
    Kinds,          \* the kinds of fields to start from
    MaxEdits        \* bound: user actions and calls of the view on the field

\* The options that the classes derived from UIDropdown pin; a UIDynamicList
\* with choices holds a UICombobox.
Combobox == [multiple |-> FALSE, optional |-> TRUE, create |-> TRUE, list |-> FALSE]
ComboButton == [multiple |-> FALSE, optional |-> FALSE, create |-> FALSE, list |-> FALSE]
DynamicList == [Combobox EXCEPT !.list = TRUE]

ASSUME DropdownAssumption ==
    /\ {Placeholder, CreateItem} \cap (Range(Preset \o More) \cup Typed) = {}
    /\ Placeholder # CreateItem
    /\ Preset \in Seq(Range(Preset)) /\ More \in Seq(Range(More))
    /\ IsInjective(Preset) /\ IsInjective(More)
    /\ IsFiniteSet(Typed)
    /\ Kinds \subseteq [multiple : BOOLEAN, optional : BOOLEAN, create : BOOLEAN, list : BOOLEAN]
    /\ \A k \in Kinds : k.list => k = DynamicList
    /\ MaxEdits \in Nat

VARIABLES
    kind,      \* options of the field: multiple, optional, create; in a list?
    box,       \* the dropdown, see BoxType
    items,     \* values of the UIDynamicList, in order
    edits      \* history: edits so far

fieldVars == <<kind, box, items, edits>>

Values == Range(Preset \o More) \cup Typed

\* The dropdown: its <li> elements in order, those with the attributes
\* "selected", "unselectable", "created" and "dynlistcustom", "open", and the
\* values of the hidden inputs that getValue and the form read.
BoxType ==
    [lis : Seq(Values \cup {Placeholder, CreateItem}),
     sel : SUBSET (Values \cup {Placeholder, CreateItem}),
     unsel : SUBSET (Values \cup {CreateItem}), created : SUBSET Values,
     custom : SUBSET Values, open : BOOLEAN, hidden : Seq(Values \cup {CreateItem})]

\* The entries of q, inserted one by one before the last.
BeforeLast(s, q) ==
    IF q = <<>> THEN s
    ELSE IF s = <<>> THEN Tail(q) \o <<q[1]>>
    ELSE Front(s) \o q \o <<Last(s)>>

Without(s, gone) == Kept(s, Range(s) \ gone)

---------------------------------------------------------------------------
\* The state of field and list together: f.box and f.items.

\* saveValues: the hidden inputs follow the selected entries.
Hidden(b) == Kept(b.lis, b.sel \ {Placeholder})
Saved(b) == [b EXCEPT !.hidden = Hidden(b)]

\* addItem: a value that the list has is not added again.
AddItem(list, v) == IF Contains(list, v) THEN list ELSE Append(list, v)

\* handleDropdownChange, called from saveValues with the value just chosen:
\* the combobox goes back to its placeholder, which may save again, the entry
\* cannot be chosen any more and the value joins the list.
Heard(f) ==
    LET v == f.box.hidden[1]
        back == Saved([f.box EXCEPT !.sel = {Placeholder}, !.open = FALSE])
    IN [box |-> [back EXCEPT !.unsel = @ \cup {v}, !.created = @ \ {v},
                             !.custom = @ \cup (f.box.created \cap {v})],
        items |-> AddItem(f.items, v)]

SaveValues(f) ==
    LET g == [f EXCEPT !.box = Saved(f.box)]
    IN IF kind.list /\ g.box.hidden # <<>> THEN Heard(g) ELSE g

\* closeDropdown saves as well.
CloseDropdown(f) ==
    IF f.box.open THEN SaveValues([f EXCEPT !.box.open = FALSE]) ELSE f

\* toggleItem with force_state of "toggle", "on" or "off".
ToggleMultiple(f, v, force) ==
    LET b == f.box
        drop == v \in b.sel /\ force # "on" /\ (Cardinality(b.sel) > 1 \/ kind.optional)
        take == v \notin b.sel /\ force # "off"
    IN SaveValues([f EXCEPT !.box.sel =
           IF drop THEN @ \ {v} ELSE IF take THEN @ \cup {v} ELSE @])

ToggleSingle(f, v) == SaveValues(CloseDropdown([f EXCEPT !.box.sel = {v}]))

ToggleItem(f, v, force) ==
    IF v \in f.box.unsel THEN f
    ELSE IF kind.multiple THEN ToggleMultiple(f, v, force)
    ELSE ToggleSingle(f, v)

\* createItems with one value: the entry before the input is new unless the
\* value has one; a single field keeps one created entry.
WithEntry(b, v) ==
    IF Contains(b.lis, v) THEN b
    ELSE LET old == IF kind.multiple THEN {} ELSE b.created
         IN [b EXCEPT
               !.lis = BeforeLast(Without(@, old), <<v>>),
               !.sel = @ \ old,
               !.created = IF kind.multiple THEN @ ELSE {v}]
CreateItems(f, v) == ToggleItem([f EXCEPT !.box = WithEntry(f.box, v)], v, "on")

\* setValues with the set vs of wanted values: entries are made for them, then
\* each entry is switched to what is wanted, in order.
Made(f, new) ==
    LET g[i \in 0..Len(new)] == IF i = 0 THEN f ELSE CreateItems(g[i - 1], new[i])
    IN g[Len(new)]
Switch(f, v, vs) ==
    IF kind.multiple THEN ToggleItem(f, v, IF v \in vs THEN "on" ELSE "off")
    ELSE IF v \in vs THEN ToggleItem(f, v, "toggle") ELSE f
Switched(f, lis, vs) ==
    LET g[i \in 0..Len(lis)] == IF i = 0 THEN f ELSE Switch(g[i - 1], lis[i], vs)
    IN g[Len(lis)]
SetValue(f, vs) ==
    LET want == {v \in vs : kind.multiple \/ v = CHOOSE w \in vs : TRUE}
        made == IF kind.create THEN Made(f, SetToSeq(want)) ELSE f
        blank == IF ~kind.multiple /\ Contains(made.box.lis, Placeholder)
                 THEN ToggleItem(made, Placeholder, "toggle") ELSE made
    IN Switched(blank, Without(made.box.lis, {Placeholder}), vs)

\* Mutant: the choices are cleared whatever the value of the field is.
ClearAll(f) == [f EXCEPT !.box = [@ EXCEPT
    !.lis = Kept(@, {Placeholder, CreateItem}), !.sel = @ \cap {Placeholder}]]

\* clearChoices without reset_value: what is not the value of the field goes.
ClearChoices(f) ==
    LET gone == Range(f.box.lis) \ (Range(f.box.hidden) \cup {Placeholder, CreateItem})
        b == f.box
    IN [f EXCEPT !.box = [b EXCEPT !.lis = Without(@, gone),
            !.sel = @ \ gone, !.unsel = @ \ gone, !.created = @ \ gone, !.custom = @ \ gone]]

\* addChoices: before the last entry, whatever it is.
AddChoices(f, vs) == [f EXCEPT !.box.lis = BeforeLast(@, Without(vs, Range(@)))]

\* removeItem, for some of the items: a typed entry goes, an offered one can be
\* chosen again.
RemoveItems(f, gone) ==
    [box |-> [f.box EXCEPT !.lis = Without(@, f.box.custom \cap gone),
                           !.unsel = @ \ gone, !.custom = @ \ gone],
     items |-> Without(f.items, gone)]

\* setValue of the list: all items go, the new ones, no two alike, come.
SetList(f, vs) == [RemoveItems(f, Range(f.items)) EXCEPT !.items = vs]

---------------------------------------------------------------------------
\* The page has no such field.
NoField ==
    /\ kind = DynamicList
    /\ box = [lis |-> <<Placeholder>>, sel |-> {Placeholder}, unsel |-> {}, created |-> {}, custom |-> {},
              open |-> FALSE, hidden |-> <<>>]
    /\ items = <<>>
    /\ edits = 0

FieldTypeOK ==
    /\ kind \in Kinds
    /\ box \in BoxType
    /\ items \in Seq(Values)
    /\ edits \in 0..MaxEdits

\* render and bind with the values vs of the configuration.  A single field
\* selects the first of them, or the first entry.
Rendered(k, vs) ==
    LET place == IF ~k.multiple /\ k.optional THEN <<Placeholder>> ELSE <<>>
        extra == IF k.create THEN SetToSeq(vs \ Range(Preset)) \o <<CreateItem>> ELSE <<>>
        lis == place \o Preset \o extra
        marked == Kept(lis, vs)
        sel == IF k.multiple THEN Range(marked)
               ELSE IF marked # <<>> THEN {marked[1]} ELSE {lis[1]}
    IN Saved([lis |-> lis, sel |-> sel,
              unsel |-> IF k.create THEN {CreateItem} ELSE {},
              created |-> {}, custom |-> {}, open |-> FALSE, hidden |-> <<>>])

FieldInit ==
    /\ kind \in Kinds
    /\ \E vs \in SUBSET Values :
         /\ kind.multiple \/ Cardinality(vs) <= 1
         /\ box = Rendered(kind, IF kind.list THEN {} ELSE vs)
         /\ kind.optional \/ box.hidden # <<>>
         /\ items = IF kind.list THEN SetToSeq(vs) ELSE <<>>
    /\ edits = 0

Field == [box |-> box, items |-> items]
Become(f) ==
    /\ edits < MaxEdits
    /\ edits' = edits + 1
    /\ box' = f.box
    /\ items' = f.items
    /\ UNCHANGED kind

\* A click on the closed field, or an arrow key: openDropdown.
Open == ~box.open /\ Become([Field EXCEPT !.box.open = TRUE])

\* Escape, the tab key, a click elsewhere or another field that opens.
Close == box.open /\ Become(CloseDropdown(Field))

\* A click on an entry, or the space key on it.
Pick == \E v \in Range(box.lis) : box.open /\ Become(ToggleItem(Field, v, "toggle"))

\* The enter key on an entry: what is selected stays so, and the field closes.
Enter ==
    \E v \in Range(box.lis) :
      /\ box.open
      /\ Become(CloseDropdown(IF v \in box.sel THEN Field ELSE ToggleItem(Field, v, "toggle")))

\* The enter key in the "-- custom --" input.
Create == \E v \in Typed : box.open /\ kind.create /\ Become(CreateItems(Field, v))

\* The view sets the value of the field, or offers other choices.
Assign ==
    \E vs \in SUBSET (IF kind.create THEN Values ELSE Range(Preset \o More)) :
      /\ kind.multiple \/ Cardinality(vs) <= 1
      /\ IF kind.list THEN Become(SetList(Field, SetToSeq(vs))) ELSE Become(SetValue(Field, vs))

Offer == Become(AddChoices(ClearChoices(Field), More))

\* A click on an item of the list; it closes the combobox as well.
RemoveValue == \E v \in Range(items) : Become(CloseDropdown(RemoveItems(Field, {v})))

FieldNext ==
    \/ Open \/ Close \/ Pick \/ Enter
    \/ Create \/ Assign \/ Offer \/ RemoveValue

---------------------------------------------------------------------------
\* What the form reads from the field is what the field shows: the hidden
\* inputs follow every path that selects, deselects, creates or drops entries.
\* A field for one value shows one entry, and a required one is never left
\* empty.  An entry of the combobox of a list is withheld only while the list
\* has its value: what is removed from the list can be chosen again.
FieldIsSelection ==
    /\ box.hidden = Hidden(box)
    /\ ~kind.multiple => Cardinality(box.sel) = 1
    /\ kind.optional \/ box.hidden # <<>>
    /\ box.unsel \ {CreateItem} \subseteq Range(items)
    /\ box.custom \subseteq box.unsel
    /\ IsInjective(items)
=============================================================================
