------------------------------ MODULE UciStore ------------------------------
(***************************************************************************)
(* resources/uci.js: the browser's copy of one config file.            *)
(*                                                                         *)
(* load() fetches the file; add(), remove(), set(), unset() and move()     *)
(* record edits beside it; save() sends the edits, renames the sections it *)
(* added to the names the server gave them, sends the section order if     *)
(* anything was moved, then unloads the file and fetches it again.         *)
(* The server is the staged configuration of the session in rpcd.          *)
(***************************************************************************)
EXTENDS UciDelta, Integers, Sequences, SequencesExt

CONSTANTS Names,    \* section names
          News,     \* ids that createSID() makes up ("new000001", ...)
          NoName,   \* ".create" of an anonymous section, or no usable name
          Views,    \* the views, each as the operations it uses: "add",
                    \* "remove", "set", "unset", "get", "move"
          MaxEdits  \* bound: edits in one behaviour of each view

ASSUME NoNameAssumption == NoName \notin Names \cup News
ASSUME DisjointAssumption == Names \cap News = {}

VARIABLES server,   \* sections of the file, in order: [name, options]
          values,   \* loaded sections, in the order of the file
          creates,  \* added sections, in the order they were added
          removed,  \* names of the sections to delete
          moved,    \* the reorder flag
          ops,      \* the operations that the view uses
          phase,    \* of save(): "idle", "sent", "ordered"
          answers,  \* section names in the answers of save()'s requests
          edits     \* history: number of edits so far

vars == <<server, values, creates, removed, moved, ops, phase, answers, edits>>

Sids == Names \cup News

Section == [name : Names, options : Options]
Value == [name : Names, index : Int, delta : Delta]
Create == [sid : Sids, name : Names \cup News \cup {NoName}, index : Int,
           options : Options]

TypeOK ==
    /\ server \in Seq(Section)
    /\ values \in Seq(Value)
    /\ creates \in Seq(Create)
    /\ removed \subseteq Names
    /\ moved \in BOOLEAN
    /\ phase \in {"idle", "sent", "ordered"}
    /\ answers \in Seq(Names \cup {NoName})
    /\ ops \in Views
    /\ edits \in 0..MaxEdits[ops]

-----------------------------------------------------------------------------
(* Reading.                                                                *)

\* load(): the index of a section is its position.
Load(sections) ==
    [i \in DOMAIN sections |-> [name |-> sections[i].name, index |-> i - 1,
                                delta |-> Loaded(sections[i].options)]]

\* What sections() returns of a loaded and of an added section.
OfValue(x) == [sid |-> x.name, index |-> x.index, options |-> Listed(x.delta)]
OfCreate(x) == [sid |-> x.sid, index |-> x.index, options |-> x.options]

\* Array.prototype.sort is stable.
ByIndex(seq) ==
    LET key(i) == seq[i].index * (Len(seq) + 1) + i
        sorted == SortSeq([i \in DOMAIN seq |-> i], LAMBDA i, j : key(i) < key(j))
    IN  [i \in DOMAIN seq |-> seq[sorted[i]]]

Each(seq, f(_)) == [i \in DOMAIN seq |-> f(seq[i])]

\* sections(conf)
Sections ==
    ByIndex(Each(SelectSeq(values, LAMBDA x : x.name \notin removed), OfValue)
              \o Each(creates, OfCreate))

VisibleSids == {Sections[i].sid : i \in DOMAIN Sections}

\* get(conf, sid, opt), of every option: added sections come first.
GetOptions(sid) ==
    IF \E i \in DOMAIN creates : creates[i].sid = sid
    THEN creates[CHOOSE i \in DOMAIN creates : creates[i].sid = sid].options
    ELSE Seen(values[CHOOSE i \in DOMAIN values : values[i].name = sid].delta)

-----------------------------------------------------------------------------
(* Editing.                                                                *)

Edit(op) ==
    /\ op \in ops
    /\ phase = "idle"
    /\ edits < MaxEdits[ops]
    /\ edits' = edits + 1
    /\ UNCHANGED <<server, ops, phase, answers>>

\* add(conf, type, name): a later addition has a larger index.
AddSection ==
    /\ Edit("add")
    /\ \E sid \in Sids :
         /\ sid \notin VisibleSids
         /\ creates' = Append(creates,
              [sid |-> sid, name |-> IF sid \in Names THEN sid ELSE NoName,
               index |-> 1000 + edits, options |-> Unchanged])
    /\ UNCHANGED <<values, removed, moved>>

\* remove(conf, sid): an added section is forgotten, a loaded one marked, and
\* its pending changes dropped.
RemoveSection ==
    /\ Edit("remove")
    /\ \E sid \in VisibleSids :
         IF \E i \in DOMAIN creates : creates[i].sid = sid
         THEN /\ creates' = SelectSeq(creates, LAMBDA x : x.sid # sid)
              /\ UNCHANGED <<values, removed>>
         ELSE /\ removed' = removed \cup {sid}
              /\ values' = Each(values, LAMBDA x :
                   IF x.name = sid THEN [x EXCEPT !.delta.c = Unchanged, !.delta.d = {}]
                   ELSE x)
              /\ UNCHANGED creates
    /\ UNCHANGED moved

\* Apply f to the options of section sid; g to the delta if it was loaded.
Change(sid, f(_), g(_)) ==
    IF \E i \in DOMAIN creates : creates[i].sid = sid
    THEN /\ creates' = Each(creates, LAMBDA x :
              IF x.sid = sid THEN [x EXCEPT !.options = f(@)] ELSE x)
         /\ UNCHANGED values
    ELSE /\ values' = Each(values, LAMBDA x :
              IF x.name = sid THEN [x EXCEPT !.delta = g(@)] ELSE x)
         /\ UNCHANGED creates

SetOption ==
    /\ Edit("set")
    /\ \E sid \in VisibleSids, o \in Opts, val \in Vals :
         Change(sid, LAMBDA x : [x EXCEPT ![o] = val], LAMBDA x : Set(x, o, val))
    /\ UNCHANGED <<removed, moved>>

UnsetOption ==
    /\ Edit("unset")
    /\ \E sid \in VisibleSids, o \in Opts :
         Change(sid, LAMBDA x : [x EXCEPT ![o] = None], LAMBDA x : Unset(x, o))
    /\ UNCHANGED <<removed, moved>>

\* get(conf, sid) of a whole section, as views do to show it.
GetSection ==
    /\ Edit("get")
    /\ \E sid \in VisibleSids : Change(sid, LAMBDA x : x, GetAll)
    /\ UNCHANGED <<removed, moved>>

\* move(conf, sid1, sid2, after): put sid1 right before or after sid2, then
\* number the sections by calling get() on each of them.
Move ==
    /\ Edit("move")
    /\ \E i, j \in DOMAIN Sections, after \in BOOLEAN :
         LET rest == RemoveAt(Sections, i)
             k == CHOOSE k \in DOMAIN rest : rest[k].sid = Sections[j].sid
             result == InsertAt(rest, IF after THEN k + 1 ELSE k, Sections[i])
             rank(sid) == (CHOOSE n \in DOMAIN result : result[n].sid = sid) - 1
         IN
         /\ i # j
         /\ values' = Each(values, LAMBDA x :
              IF x.name \in removed THEN x
              ELSE [x EXCEPT !.index = rank(x.name), !.delta = GetAll(@)])
         /\ creates' = Each(creates, LAMBDA x : [x EXCEPT !.index = rank(x.sid)])
    /\ moved' = TRUE
    /\ UNCHANGED removed

-----------------------------------------------------------------------------
(* Saving.                                                                 *)

\* Names the server can give to the anonymous sections of creates, in turn.
FreshNames ==
    LET used == {server[i].name : i \in DOMAIN server}
                  \cup {creates[i].name : i \in DOMAIN creates}
    IN  {f \in [DOMAIN creates -> Names \cup {NoName}] :
           \A i \in DOMAIN creates :
             /\ creates[i].name # NoName => f[i] = creates[i].name
             /\ creates[i].name = NoName =>
                  f[i] \in Names \ (used \cup {f[j] : j \in 1..(i - 1)})}

\* The answers to the deletions carry no section name.
Deletions == Cardinality(removed)
               + Cardinality({i \in DOMAIN values : values[i].delta.d # {}})

\* save(), up to its first wait: delete requests, then add, then set; rpcd
\* answers them in that order.
SaveSend ==
    /\ phase = "idle"
    /\ \E names \in FreshNames :
         LET left == SelectSeq(server, LAMBDA x : x.name \notin removed)
             new == [i \in DOMAIN creates |->
                       [name |-> names[i], options |-> creates[i].options]]
             delta(name) == (CHOOSE i \in DOMAIN values : values[i].name = name)
         IN
         /\ server' = Each(left, LAMBDA x :
              [x EXCEPT !.options = Saved(values[delta(x.name)].delta, @)]) \o new
         /\ answers' = [i \in 1..Deletions |-> NoName] \o names
    /\ phase' = "sent"
    /\ UNCHANGED <<values, creates, removed, moved, ops, edits>>

\* Mutant: the sections are listed as they lie in the tables.
OrderSentUnsorted(renamed) ==
    Each(renamed, LAMBDA x : x.name) \o Each(values, LAMBDA x : x.name)

\* The order in which callOrder() lists the sections, once the added ones
\* have been given the names that the answers are taken to be.
OrderSent(renamed) ==
    LET place(x) == [name |-> x.name, index |-> x.index]
    IN  Each(ByIndex(Each(renamed, place) \o Each(values, place)), LAMBDA x : x.name)

\* "uci order": the sections that exist are put, one after the other, at the
\* positions in which they are listed.
Reordered(sections, order) ==
    LET at(seq, name) == CHOOSE i \in DOMAIN seq : seq[i].name = name
        listed == SelectSeq(order, LAMBDA name :
                    \E i \in DOMAIN sections : sections[i].name = name)
        put(seq, i) == InsertAt(RemoveAt(seq, at(seq, listed[i])),
                         IF i > Len(seq) THEN Len(seq) ELSE i,
                         seq[at(seq, listed[i])])
    IN  FoldLeftDomain(put, sections, listed)

\* snew[i]['.name'] = responses[i]
Renamed == [i \in DOMAIN creates |-> [creates[i] EXCEPT !.name = answers[i]]]

\* save(), after the answers: rename, and reorderSections().
SaveOrder ==
    /\ phase = "sent"
    /\ creates' = Renamed
    /\ server' = IF moved THEN Reordered(server, OrderSent(Renamed)) ELSE server
    /\ moved' = FALSE
    /\ phase' = "ordered"
    /\ UNCHANGED <<values, removed, ops, answers, edits>>

\* save(), at last: unload() and load().
SaveReload ==
    /\ phase = "ordered"
    /\ values' = Load(server)
    /\ creates' = <<>>
    /\ removed' = {}
    /\ answers' = <<>>
    /\ phase' = "idle"
    /\ UNCHANGED <<server, moved, ops, edits>>

-----------------------------------------------------------------------------
\* A file with one section per member of some names, and any options.
Init ==
    /\ \E names \in SUBSET Names, options \in [Names -> Options] :
         server = [i \in 1..Cardinality(names) |->
           LET n == SetToSeq(names)[i] IN [name |-> n, options |-> options[n]]]
    /\ values = Load(server)
    /\ creates = <<>>
    /\ removed = {}
    /\ moved = FALSE
    /\ phase = "idle"
    /\ answers = <<>>
    /\ ops \in Views
    /\ edits = 0

Next ==
    \/ AddSection \/ RemoveSection \/ SetOption \/ UnsetOption \/ GetSection \/ Move
    \/ SaveSend \/ SaveOrder \/ SaveReload

Spec == Init /\ [][Next]_vars

-----------------------------------------------------------------------------
(* Properties.                                                             *)

\* What a form draws: the sections that sections() lists, in their order, and in
\* its fields what get() answers for each option.
Shown == Each(Sections, LAMBDA x : GetOptions(x.sid))

\* What a form shows when it calls save() is what it shows when save() has
\* loaded the file again: same sections, same order, same values; unless the
\* view moves sections or reads whole ones, which the properties below are
\* about.  (uci.js save() and unload() against get() and sections().)
SaveShowsSame ==
    [][SaveReload /\ ops \cap {"get", "move"} = {} => Shown' = Shown]_vars

\* Whatever sequence of edits and reads comes before save(), it neither adds
\* nor loses a section, and a named section keeps every value that sections()
\* lists, even where the order or a deletion goes wrong: all but the values that
\* get() no longer gives, which sections() goes on listing until they are saved.
SaveKeepsValues ==
    [][SaveReload =>
         /\ Len(Sections') = Len(Sections)
         /\ \A i \in DOMAIN Sections : Sections[i].sid \in Names =>
              \E j \in DOMAIN Sections' :
                 /\ Sections'[j].sid = Sections[i].sid
                 /\ \A o \in Opts :
                      \/ Sections[i].options[o] = None
                      \/ Sections'[j].options[o] = Sections[i].options[o]
                      \/ GetOptions(Sections[i].sid)[o] = None]_vars

\* Whatever is moved, added and deleted before save(), the loaded sections
\* keep the order they were shown in, and so do, where nothing was deleted,
\* the added ones.  (move(), sections() and reorderSections() of uci.js.)
SaveKeepsOrder ==
    [][SaveReload =>
         LET loaded == {values[i].name : i \in DOMAIN values} \ removed
             known == IF Deletions = 0 THEN Names ELSE loaded
             name(sid) == IF sid \in loaded THEN sid
                          ELSE creates[CHOOSE i \in DOMAIN creates :
                                         creates[i].sid = sid].name
             order(sids) == SelectSeq(sids, LAMBDA n : n \in known)
         IN  order(Each(Sections', LAMBDA x : x.sid))
               = order(Each(Sections, LAMBDA x : name(x.sid)))]_vars
=============================================================================
