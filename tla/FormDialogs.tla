----------------------------- MODULE FormDialogs -----------------------------
(***************************************************************************)
(* A page with a form.GridSection: its rows, the dialogs that add or edit  *)
(* a section, and the saves they start.  form.js edits the copy that       *)
(* uci.js has of the configuration; opening a dialog and saving wait for   *)
(* the server, and until the dialog is there its page can be used.         *)
(***************************************************************************)
EXTENDS FormFields, FiniteSets

CONSTANTS
    Existing,   \* sections at first
    Temps,      \* names that uci.js makes up for added sections
    News,       \* names that the server gives them
    None,       \* no section
    Initial,    \* what the sections hold at first
    MaxClicks,  \* bound: clicks on buttons of the page
    MaxFailures \* bound: saves and dialogs that fail

ASSUME NamesAssumption ==
    /\ Existing \cap Temps = {} /\ Temps \cap News = {} /\ News \cap Existing = {}
    /\ None \notin Existing \cup Temps \cup News
    /\ "page" \notin Existing \cup Temps \cup News
ASSUME InitialAssumption == Initial \subseteq Contents
ASSUME BoundsAssumption == MaxClicks \in Nat /\ MaxFailures \in Nat

VARIABLES
    server,     \* the configuration with the staged changes
    local,      \* the copy of uci.js, with its edits
    removed,    \* sections deleted in the copy only
    added,      \* addedSection of the page
    opening,    \* how many dialogs are being made for a section
    dialog,     \* the dialog that is shown
    saving,     \* the save that waits for the server
    orphans,    \* history: added sections whose dialog failed to open, or that were
                \* overtaken by another one before their dialog was there
    clicks,     \* history: clicks on the page so far
    failures    \* history: failures so far

vars == <<server, local, removed, added, opening, dialog, saving, orphans, clicks, failures>>

Names == Existing \cup News
Sids == Names \cup Temps
NoDialog == [sid |-> None]
NoSave == [by |-> None]
NoOptions == [o \in Opts |-> Empty]

\* The dialog of a section that is not there has no fields.
NoForm == [val |-> [f \in Fields |-> Empty], shown |-> {}, bad |-> {}]

\* stale: a save was refused or failed, and the fields' cached values are old.
Dialogs == [sid : Sids, form : Forms, cache : Contents, stale : BOOLEAN]

Configs(S) == UNION {[D -> Contents] : D \in SUBSET S}
Present(s) == s \in DOMAIN local
AddedOnly(c) == DOMAIN c \cap Temps
Drop(c, S) == [s \in DOMAIN c \ S |-> c[s]]

TypeOK ==
    /\ DOMAIN server \subseteq Names /\ \A s \in DOMAIN server : server[s] \in Contents
    /\ DOMAIN local \subseteq Sids /\ \A s \in DOMAIN local : local[s] \in Contents
    /\ removed \subseteq Names \ DOMAIN local
    /\ added \in Temps \cup {None}
    /\ opening \in [Sids -> 0..clicks]
    /\ dialog = NoDialog \/ dialog \in Dialogs
    /\ saving = NoSave \/ /\ saving.by \in Sids \cup {"page"}
                          /\ DOMAIN saving.sent \subseteq Sids
                          /\ saving.gone \subseteq Names \ DOMAIN saving.sent
    /\ orphans \subseteq Temps
    /\ clicks \in 0..MaxClicks
    /\ failures \in 0..MaxFailures

Init ==
    /\ server \in [Existing -> Initial]
    /\ local = server
    /\ removed = {}
    /\ added = None
    /\ opening = [s \in Sids |-> 0]
    /\ dialog = NoDialog
    /\ saving = NoSave
    /\ orphans = {}
    /\ clicks = 0
    /\ failures = 0

-----------------------------------------------------------------------------
(* Rows and dialogs.  A dialog covers the page.  The button that was       *)
(* clicked stays disabled until its dialog is there, but the page's Reset  *)
(* and every save draw a new one, and rows for what was added.             *)

Click == clicks < MaxClicks /\ clicks' = clicks + 1

Asked(s) == opening' = [opening EXCEPT ![s] = @ + 1]

\* GridSection.handleAdd: the page remembers the last section that it added.
AddRow(t) ==
    /\ Click
    /\ dialog = NoDialog
    /\ t \notin DOMAIN local
    /\ local' = [s \in DOMAIN local \cup {t} |-> IF s = t THEN NoOptions ELSE local[s]]
    /\ added' = t
    /\ orphans' = (orphans \cup ({added} \cap AddedOnly(local))) \ {t}
    /\ Asked(t)
    /\ UNCHANGED <<server, removed, dialog, saving, failures>>

\* renderMoreOptionsModal, up to its promise
EditRow(s) ==
    /\ Click
    /\ dialog = NoDialog
    /\ Present(s)
    /\ Asked(s)
    /\ UNCHANGED <<server, local, removed, added, dialog, saving, orphans, failures>>

\* The dialog takes the place of one that came earlier; for a section that has
\* gone it is empty.
Opens(s) ==
    /\ opening[s] > 0
    /\ opening' = [opening EXCEPT ![s] = @ - 1]
    /\ dialog' = LET cache == IF Present(s) THEN local[s] ELSE NoOptions IN
          [sid |-> s, cache |-> cache, stale |-> FALSE,
           form |-> IF Present(s) THEN Render(cache) ELSE NoForm]
    /\ UNCHANGED <<server, local, removed, added, saving, orphans, clicks, failures>>

OpenFails(s) ==
    /\ opening[s] > 0
    /\ failures < MaxFailures
    /\ failures' = failures + 1
    /\ opening' = [opening EXCEPT ![s] = @ - 1]
    /\ orphans' = orphans \cup ({s} \cap Temps)
    /\ UNCHANGED <<server, local, removed, added, dialog, saving, clicks>>

\* The user changes a field: widget-change runs checkDepends.
Type(f, v) ==
    /\ dialog # NoDialog
    /\ f \in dialog.form.shown
    /\ v # dialog.form.val[f]
    /\ dialog' = [dialog EXCEPT !.form = CheckDepends([@ EXCEPT !.val[f] = v])]
    /\ UNCHANGED <<server, local, removed, added, opening, saving, orphans, clicks, failures>>

\* Mutant: what was added is not removed.
DismissOnly ==
    /\ dialog # NoDialog
    /\ added' = None
    /\ dialog' = NoDialog
    /\ UNCHANGED <<server, local, removed, opening, saving, orphans, clicks, failures>>

\* GridSection.handleModalCancel, by its button or by Escape.
Dismiss ==
    /\ dialog # NoDialog
    /\ local' = Drop(local, {added})
    /\ added' = None
    /\ dialog' = NoDialog
    /\ UNCHANGED <<server, removed, opening, saving, orphans, clicks, failures>>

-----------------------------------------------------------------------------
(* Saves: one at a time here (a second one would send the additions twice). *)

\* uci.save sends what the copy adds, changes and deletes.
Send(by) == saving' = [by |-> by, sent |-> local', gone |-> removed']

\* Mutant: save() does not check the fields once more.
CheckedAsShown(form) == form

Checked(form) == CheckDepends(form)

\* handleModalSave: Map.save of the dialog.  What is invalid makes parse() fail;
\* the other fields have been written by then.
SaveDialog ==
    /\ dialog # NoDialog
    /\ saving = NoSave
    /\ LET form == IF dialog.form = NoForm THEN NoForm ELSE Checked(dialog.form)
           s == dialog.sid
       IN
       /\ local' = IF Present(s) /\ dialog.form # NoForm
                   THEN [local EXCEPT ![s] = Parsed(form, dialog.cache, @)] ELSE local
       /\ UNCHANGED removed
       /\ dialog' = [dialog EXCEPT !.form = form, !.stale = @ \/ Refused(form)]
       /\ IF Refused(form) THEN UNCHANGED saving ELSE Send(s)
    /\ UNCHANGED <<server, added, opening, orphans, clicks, failures>>

\* handleRemove saves the page at once; what was only added is just forgotten.
RemoveRow(s) ==
    /\ Click
    /\ dialog = NoDialog
    /\ saving = NoSave
    /\ Present(s)
    /\ local' = Drop(local, {s})
    /\ removed' = removed \cup ({s} \cap Names)
    /\ Send("page")
    /\ UNCHANGED <<server, added, opening, dialog, orphans, failures>>

\* "Save" of the page; GridSection.parse writes nothing for text columns.
SavePage ==
    /\ Click
    /\ dialog = NoDialog
    /\ saving = NoSave
    /\ UNCHANGED <<local, removed>>
    /\ Send("page")
    /\ UNCHANGED <<server, added, opening, dialog, orphans, failures>>

\* What the requests of the save make of the configuration, with new names for
\* added sections.
Staged(names) ==
    LET base == Drop(server, saving.gone)
        named == {names[t] : t \in AddedOnly(saving.sent)}
    IN [s \in DOMAIN base \cup named |->
          IF s \in named THEN saving.sent[CHOOSE t \in DOMAIN names : names[t] = s]
          ELSE IF s \in DOMAIN saving.sent THEN saving.sent[s] ELSE base[s]]

Namings ==
    {m \in [AddedOnly(saving.sent) -> News \ (DOMAIN server \cup DOMAIN saving.sent)] :
        IsInjective(m)}

\* The copy is loaded again; a dialog that was saved closes, whatever dialog it
\* is by then.
SaveDone ==
    /\ saving # NoSave
    /\ saving.gone \subseteq DOMAIN server
    /\ \E m \in Namings : server' = Staged(m)
    /\ local' = server'
    /\ removed' = {}
    /\ saving' = NoSave
    /\ IF saving.by = "page" THEN UNCHANGED <<added, dialog>>
       ELSE added' = None /\ dialog' = NoDialog
    /\ UNCHANGED <<opening, orphans, clicks, failures>>

\* A request of the save fails or its answer gets lost; one that deletes what is
\* gone always fails.  Everything else may have been staged.
SaveFails ==
    /\ saving # NoSave
    /\ saving.gone \subseteq DOMAIN server => failures < MaxFailures
    /\ failures' = IF saving.gone \subseteq DOMAIN server THEN failures + 1 ELSE failures
    /\ \/ UNCHANGED server
       \/ \E m \in Namings : server' = Staged(m)
    /\ saving' = NoSave
    /\ dialog' = IF dialog = NoDialog THEN NoDialog ELSE [dialog EXCEPT !.stale = TRUE]
    /\ UNCHANGED <<local, removed, added, opening, orphans, clicks>>

Rows == \/ \E t \in Temps : AddRow(t)
        \/ \E s \in Sids : EditRow(s) \/ RemoveRow(s)
        \/ SavePage
DialogStep ==
    \/ \E s \in Sids : Opens(s) \/ OpenFails(s)
    \/ \E f \in Fields : \E v \in Entries[f] : Type(f, v)
    \/ Dismiss \/ SaveDialog

Next == Rows \/ DialogStep \/ SaveDone \/ SaveFails

Spec == Init /\ [][Next]_vars

-----------------------------------------------------------------------------
(* Properties.                                                             *)

Filled == dialog # NoDialog /\ dialog.form # NoForm

\* A dialog shows a field exactly when its dependencies hold, whatever was typed and
\* in which order, if the two passes of checkDepends are enough for the field
\* (Quick); the page has other fields as well.
ShownSettled == TypeOK /\ (Filled => SettledOn(Quick, dialog.form))

\* A save that a dialog has sent is the section as it was shown, unless a save
\* of the dialog was refused or failed before: then the values the fields were
\* loaded with are no longer those of the copy.  No two fields with the same
\* option may be shown at once.
SavedAsShown ==
    [][SaveDialog /\ saving' # NoSave /\ Present(dialog.sid) /\ Filled /\ ~dialog.stale
             /\ Exclusive(dialog'.form)
          => ShowsSame(dialog'.form, saving'.sent[dialog.sid])]_vars

\* No dialog sends what its fields' validators reject, although a value may
\* become invalid after it was entered, while its field was hidden; of the fields
\* for which the two passes of checkDepends are enough.
NothingInvalidSaved ==
    [][SaveDialog /\ saving' # NoSave /\ Filled
          => \A f \in dialog'.form.shown \cap Quick : ~Fails(f, dialog'.form.val)]_vars

\* A section that was added and not saved is the one that the page remembers, whose
\* dialog is there or on its way, and goes when that is dismissed, whatever else is
\* clicked while dialogs open and saves are under way; unless its dialog failed to
\* open, or another section was added before it was there.
NothingLeftBehind ==
    \A t \in AddedOnly(local) \ orphans :
        t = added /\ (dialog # NoDialog \/ opening[t] > 0)
=============================================================================
