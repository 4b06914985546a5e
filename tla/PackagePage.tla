----------------------------- MODULE PackagePage -----------------------------
(***************************************************************************)
(* The software page (view/opkg.js): its listings and table, the dialogs   *)
(* that install and remove packages, and opkg on the device, which the     *)
(* page calls and reads while the user goes on.                            *)
(***************************************************************************)
EXTENDS PackageLists

CONSTANTS
    NameOrder,   \* the names of packages, sorted
    Apps,        \* of a translation: what it translates
    Lang,        \* and its language, also of a base translation
    English,
    Feeds,       \* what opkg may know of its repositories at first
    NewFeeds,    \* what it may find there when it looks
    Devices,     \* what may be installed at first
    Queries,     \* filters with which a link may open the page
    PageSize,    \* rows of a page of the table: 100
    MaxCommands, \* bound: commands that the page runs
    MaxLosses,   \* bound: answers that get lost
    MaxClicks    \* bound: changes of the table's filters and pages

Names == Range(NameOrder)
Listing == Seq(Paragraph(Names))

ASSUME PageAssumption == PageSize \in Nat \ {0} /\ NameOrder \in Seq(STRING) /\ DOMAIN Apps \subseteq DOMAIN Lang
ASSUME QueriesAssumption == Queries \subseteq Names \cup {""}
ASSUME ListingsAssumption == Feeds \cup NewFeeds \cup Devices \subseteq Listing
ASSUME BoundsAssumption == {MaxCommands, MaxLosses, MaxClicks} \subseteq Nat

VARIABLES
    feed, device, \* packages of the repositories and of the device
    file,         \* the uploaded package is on the device
    available, installed, \* packages.available, packages.installed
    languages,
    view,         \* mode, filter, translations shown; a timer of the filter
    rows,         \* currentDisplayRows
    offset,
    table,        \* rows that the table has; "loading"
    dialog,       \* the last dialog, also when it is not shown
    loads,        \* calls of downloadLists that are not over
    known,        \* history: FALSE while the page may show an older device
    commands, losses, clicks \* history

lists == <<available, installed, languages>>
shown == <<rows, offset, table>>
counts == <<commands, losses, clicks>>
vars == <<feed, device, file, lists, view, shown, dialog, loads, known, counts>>

Modes == {"available", "installed", "updates"}
I18n == {"lang", "all", "none"}
Boxes == {"autoremove", "overwrite", "i18n"}

TypeOK ==
    /\ {feed, device} \subseteq Listing
    /\ {file, known} \subseteq BOOLEAN
    /\ DOMAIN available.pkgs \cup DOMAIN installed.pkgs \subseteq Names
    /\ English \in languages
    /\ view \in [mode : Modes, filter : Names \cup {""}, i18n : I18n, timer : BOOLEAN]
    /\ offset \in 0..Len(NameOrder)
    /\ table = "loading" \/ \A i \in DOMAIN table : table[i].name \in Names
    /\ dialog.boxes \subseteq Boxes /\ dialog.checked \subseteq dialog.boxes
    /\ commands \in 0..MaxCommands /\ losses \in 0..MaxLosses /\ clicks \in 0..MaxClicks

-----------------------------------------------------------------------------
(* The table.                                                              *)

Has(list, n) == n \in DOMAIN list.pkgs
Installed(list, n) == Has(list, n) /\ list.pkgs[n].installed

\* The filters of display(); translations are shown as the page says.
Passes(n, v, langs) ==
    /\ v.filter \in {"", n}
    /\ n \in DOMAIN Lang => \/ v.i18n = "all"
                            \/ v.i18n = "lang" /\ (n \notin DOMAIN Apps \/ Lang[n] \in langs)

\* The button that the row of a package gets, if it has one.
Button(n, mode, av, ins) ==
    CASE mode = "updates" ->
           IF /\ Installed(ins, n) /\ Has(av, n)
              /\ CompareVersion(av.pkgs[n].version, ins.pkgs[n].version) > 0
           THEN "install" ELSE "hidden"
      [] mode = "installed" -> IF Installed(ins, n) THEN "remove" ELSE "hidden"
      [] mode = "available" ->
           IF ~Has(av, n) THEN "hidden"
           ELSE IF Installed(ins, n) /\ ins.pkgs[n].version = av.pkgs[n].version
           THEN "installed" ELSE "install"

Rows(v, av, ins, langs) ==
    LET all == [i \in DOMAIN NameOrder |->
                  [name |-> NameOrder[i], button |-> Button(NameOrder[i], v.mode, av, ins)]]
    IN Kept(all, {r \in Range(all) : r.button # "hidden" /\ Passes(r.name, v, langs)})

PageOf(rs, off) == SubSeq(rs, off + 1, IF off + PageSize < Len(rs) THEN off + PageSize ELSE Len(rs))

\* display(): the first page of the rows.
Display ==
    /\ rows' = Rows(view', available', installed', languages')
    /\ offset' = 0
    /\ table' = PageOf(rows', 0)

Click == clicks < MaxClicks /\ clicks' = clicks + 1 /\ ~dialog.open

\* handlePage shows rows also while a listing is loaded.
HandlePage(next) ==
    /\ Click
    /\ rows # <<>>
    /\ offset' = IF next THEN offset + PageSize ELSE offset - PageSize
    /\ offset' \in 0..(Len(rows) - 1)
    /\ table' = PageOf(rows, offset')
    /\ UNCHANGED <<feed, device, file, lists, view, rows, dialog, loads, known, commands, losses>>

\* handleMode, handleI18nFilter, handleReset
Switch(v) ==
    /\ Click
    /\ v # view
    /\ view' = v
    /\ UNCHANGED lists
    /\ Display
    /\ UNCHANGED <<feed, device, file, dialog, loads, known, commands, losses>>

HandleMode(m) == Switch([view EXCEPT !.mode = m])
HandleI18nFilter(i) == Switch([view EXCEPT !.i18n = i])
HandleReset == Switch([view EXCEPT !.filter = ""])

\* handleInput waits for more input before it displays.
HandleInput(n) ==
    /\ Click
    /\ n # view.filter
    /\ view' = [view EXCEPT !.filter = n, !.timer = TRUE]
    /\ UNCHANGED <<feed, device, file, lists, shown, dialog, loads, known, commands, losses>>

InputTimeout ==
    /\ view.timer
    /\ view' = [view EXCEPT !.timer = FALSE]
    /\ UNCHANGED lists
    /\ Display
    /\ UNCHANGED <<feed, device, file, dialog, loads, known, counts>>

-----------------------------------------------------------------------------
(* Listings.                                                               *)

Lists == {"available", "installed"}
NewLoad == [read |-> {}, available |-> <<>>, installed |-> <<>>]

\* Mutant: the tables are kept.
ResetKeep == UNCHANGED <<available, installed>>

Reset == available' = NoList /\ installed' = NoList

\* updateLists, up to its requests; the table is emptied, rows are kept.
UpdateLists ==
    /\ Reset
    /\ table' = "loading"
    /\ loads' = Append(loads, NewLoad)
    /\ known' = (loads = <<>>)
    /\ UNCHANGED <<languages, rows, offset>>

\* opkg-call list-available, list-installed
Read(i, what) ==
    /\ what \notin loads[i].read
    /\ loads' = [loads EXCEPT ![i].read = @ \cup {what},
                              ![i][what] = IF what = "available" THEN feed ELSE device]
    /\ UNCHANGED <<feed, device, file, lists, view, shown, dialog, known, counts>>

\* The answers go into the tables that are there by now, whoever made them.
Loaded(i) ==
    /\ loads[i].read = Lists
    /\ available' = ParseList(loads[i].available, available)
    /\ installed' = ParseList(loads[i].installed, installed)
    /\ languages' = languages \cup {Lang[n] : n \in DOMAIN installed'.pkgs \cap (DOMAIN Lang \ DOMAIN Apps)}
    /\ loads' = RemoveAt(loads, i)
    /\ UNCHANGED view
    /\ Display
    /\ UNCHANGED <<feed, device, file, dialog, known, counts>>

LoadFails(i) ==
    /\ losses < MaxLosses
    /\ losses' = losses + 1
    /\ loads' = RemoveAt(loads, i)
    /\ known' = FALSE
    /\ UNCHANGED <<feed, device, file, lists, view, shown, dialog, commands, clicks>>

-----------------------------------------------------------------------------
(* Dialogs.  A closed one stays in the document with its checkboxes.       *)

Dialog(kind, name) ==
    [open |-> TRUE, kind |-> kind, name |-> name, boxes |-> {}, checked |-> {},
     suggested |-> {}, info |-> NoInfo]
NoDialog == [Dialog("none", NoPackage) EXCEPT !.open = FALSE]

\* Translations of an application in the languages of the page, or into a base
\* translation's language for what is installed.
Suggested(n) ==
    {t \in DOMAIN Apps \cap DOMAIN available.pkgs :
       \/ Apps[t] = n /\ Lang[t] \in languages
       \/ n \in DOMAIN Lang \ DOMAIN Apps /\ Lang[t] = Lang[n] /\ Has(installed, Apps[t])}

InTable(n, button) == table # "loading" /\ [name |-> n, button |-> button] \in ToSet(table)

\* handleInstall; it throws for a row whose package is not there.
HandleInstall(n) ==
    /\ ~dialog.open
    /\ InTable(n, "install")
    /\ Has(available, n)
    /\ dialog' = LET more == Suggested(n) IN
         [Dialog("install", n) EXCEPT
            !.boxes = IF more = {} THEN {"overwrite"} ELSE {"overwrite", "i18n"},
            !.checked = IF more = {} THEN {} ELSE {"i18n"},
            !.suggested = more,
            !.info = Resolve(available.pkgs[n].depends, installed, available)]
    /\ UNCHANGED <<feed, device, file, lists, view, shown, loads, known, counts>>

HandleRemove(n) ==
    /\ ~dialog.open
    /\ InTable(n, "remove")
    /\ Has(installed, n)
    /\ dialog' = [Dialog("remove", n) EXCEPT !.boxes = {"autoremove"}, !.checked = {"autoremove"}]
    /\ UNCHANGED <<feed, device, file, lists, view, shown, loads, known, counts>>

\* There is nothing to click but "Cancel" for a name that is not available.
HandleManualInstall(n) ==
    /\ ~dialog.open
    /\ dialog' = Dialog("manual", IF n \in DOMAIN available.providers THEN n ELSE NoPackage)
    /\ UNCHANGED <<feed, device, file, lists, view, shown, loads, known, counts>>

\* handleUpload, after ui.uploadFile
HandleUpload ==
    /\ ~dialog.open
    /\ file' = TRUE
    /\ dialog' = Dialog("upload", "upload.ipk")
    /\ UNCHANGED <<feed, device, lists, view, shown, loads, known, counts>>

Toggle(b) ==
    /\ dialog.open
    /\ b \in dialog.boxes
    /\ dialog' = [dialog EXCEPT !.checked = IF b \in @ THEN @ \ {b} ELSE @ \cup {b}]
    /\ UNCHANGED <<feed, device, file, lists, view, shown, loads, known, counts>>

\* Mutant: the uploaded file is not removed.
CancelOnly ==
    /\ dialog.open /\ dialog.kind \in {"install", "remove", "manual", "upload"}
    /\ dialog' = [dialog EXCEPT !.open = FALSE]
    /\ UNCHANGED <<feed, device, file, lists, view, shown, loads, known, counts>>

Cancel ==
    /\ dialog.open /\ dialog.kind \in {"install", "remove", "manual", "upload"}
    /\ dialog' = [dialog EXCEPT !.open = FALSE]
    /\ file' = (file /\ dialog.kind # "upload")
    /\ UNCHANGED <<feed, device, lists, view, shown, loads, known, counts>>

\* handleOpkg, with the checkboxes that the document has, whatever dialog they
\* were made for.
Run(cmd, name) ==
    /\ commands < MaxCommands
    /\ commands' = commands + 1
    /\ dialog' = [Dialog("running", name) EXCEPT !.info = [cmd |-> cmd,
          names |-> (IF "i18n" \in dialog.checked THEN dialog.suggested ELSE {}) \cup {name}]]
    /\ UNCHANGED <<feed, device, file, lists, view, shown, loads, known, losses, clicks>>

Execute ==
    /\ dialog.open /\ dialog.name # NoPackage
    /\ dialog.kind \in {"install", "remove", "manual", "upload"}
    /\ Run(IF dialog.kind = "remove" THEN "remove" ELSE "install", dialog.name)

UpdateFeeds == ~dialog.open /\ Run("update", NoPackage)

-----------------------------------------------------------------------------
(* opkg on the device.                                                     *)

Without(pkgs, N) == Kept(pkgs, {p \in Range(pkgs) : p.name \notin N})

Installing(names) ==
    LET got == Kept(feed, {p \in Range(feed) : p.name \in names}) IN
    Without(device, names) \o [i \in DOMAIN got |-> [got[i] EXCEPT !.installed = TRUE]]

\* What a command may make of the device: all it was told to, or nothing.
After(info) ==
    CASE info.cmd = "update" -> {<<f, device>> : f \in NewFeeds \cup {feed}}
      [] info.cmd = "remove" -> {<<feed, Without(device, info.names)>>, <<feed, device>>}
      [] info.cmd = "install" ->
           {<<feed, Installing(info.names \cap {p.name : p \in Range(feed)})>>, <<feed, device>>}

\* The command ends and the dialog shows what it printed.
CommandDone ==
    /\ dialog.open /\ dialog.kind = "running"
    /\ \E a \in After(dialog.info) : feed' = a[1] /\ device' = a[2]
    /\ known' = FALSE
    /\ dialog' = Dialog("result", dialog.name)
    /\ UNCHANGED <<file, lists, view, shown, loads, counts>>

\* The answer gets lost; the page neither loads the lists again nor settles the
\* promise that the removal of an uploaded file waits for.
CommandLost ==
    /\ dialog.open /\ dialog.kind = "running"
    /\ losses < MaxLosses
    /\ losses' = losses + 1
    /\ \E a \in After(dialog.info) : feed' = a[1] /\ device' = a[2]
    /\ known' = FALSE
    /\ dialog' = [dialog EXCEPT !.open = FALSE]
    /\ UNCHANGED <<file, lists, view, shown, loads, commands, clicks>>

Dismiss ==
    /\ dialog.open /\ dialog.kind = "result"
    /\ dialog' = [dialog EXCEPT !.open = FALSE]
    /\ file' = (file /\ dialog.name # "upload.ipk")
    /\ UpdateLists
    /\ UNCHANGED <<feed, device, view, counts>>

-----------------------------------------------------------------------------

\* The view was loaded with its listings; they are parsed when it is shown.
Init ==
    /\ feed \in Feeds /\ device \in Devices
    /\ file = FALSE
    /\ available = NoList /\ installed = NoList /\ languages = {English}
    /\ view \in [mode : {"available"}, filter : Queries, i18n : {"lang"}, timer : {FALSE}]
    /\ rows = <<>> /\ offset = 0 /\ table = "loading"
    /\ dialog = NoDialog
    /\ loads = <<[read |-> Lists, available |-> feed, installed |-> device]>>
    /\ known = TRUE
    /\ commands = 0 /\ losses = 0 /\ clicks = 0

Browse ==
    \/ \E next \in BOOLEAN : HandlePage(next)
    \/ \E m \in Modes : HandleMode(m)
    \/ \E i \in I18n : HandleI18nFilter(i)
    \/ \E n \in Names : HandleInput(n)
    \/ HandleReset \/ InputTimeout
Load == \E i \in DOMAIN loads : Loaded(i) \/ LoadFails(i) \/ \E w \in Lists : Read(i, w)
Manage ==
    \/ \E n \in Names : HandleInstall(n) \/ HandleRemove(n) \/ HandleManualInstall(n)
    \/ HandleUpload \/ Cancel \/ Execute \/ UpdateFeeds \/ Dismiss
    \/ \E b \in Boxes : Toggle(b)

Next == Browse \/ Load \/ Manage \/ CommandDone \/ CommandLost

Spec == Init /\ [][Next]_vars

-----------------------------------------------------------------------------
(* Properties.                                                             *)

\* The table shows what is on the device and in the repositories, in the mode
\* and with the filters that the page shows, once its listings have come and
\* the filter's timer has run; unless an answer was lost or two calls of
\* updateLists() ran at a time, whose answers are mixed up.
TableIsTrue ==
    loads = <<>> /\ known /\ ~view.timer =>
        LET av == ParseList(feed, NoList)
            ins == ParseList(device, NoList)
        IN /\ rows = Rows(view, av, ins, languages)
           /\ table = PageOf(rows, offset)
           /\ rows # <<>> => table # <<>>

\* A dialog that shows no error, for a package that is not installed, counts
\* all packages that it needs, unless some have to be upgraded (what their new
\* versions need is not looked at) or a name is needed in several versions
\* (the first one counts).
PlanCovers ==
    [][\A n \in Names : HandleInstall(n) /\ dialog'.info.errors = {} =>
        LET plan == ToSet(dialog'.info.install) \cup {available.pkgs[n]}
            all == plan \cup {installed.pkgs[m] : m \in DOMAIN installed.pkgs}
            needs == UNION {ToSet(p.depends) : p \in all}
        IN \/ \E p \in plan : Has(installed, p.name)
           \/ \E d, e \in needs : d.name = e.name /\ d # e
           \/ Closed(plan, all)]_vars

\* An uploaded package does not stay on the device, if no answer was lost.
UploadRemoved == TypeOK /\ (file /\ losses = 0 => dialog.open)

\* The versions in the listings have one order, whichever are compared, when
\* what to install is found out by them.
VersionsOrdered ==
    dialog.open /\ dialog.kind = "install" =>
        LET V == {p.version : p \in Range(available.pkgs) \cup Range(installed.pkgs)}
            C == [p \in V \X V |-> CompareVersion(p[1], p[2])]
        IN \A v, w \in V :
             /\ C[<<v, w>>] > 0 <=> C[<<w, v>>] < 0
             /\ \A u \in V : C[<<v, w>>] <= 0 /\ C[<<w, u>>] <= 0 => C[<<v, u>>] <= 0
==============================================================================
