# Formal models of an OpenWrt 23.05 / LuCI root file system

The repository is the root file system of a router: the LuCI web interface
(browser JavaScript under `resources/`, ucode under `usr/share/ucode/luci/`),
shell scripts that drive netifd, hostapd, sysupgrade and init, and packages such
as ddns-scripts, firewall4 and adblock. Much of it is generated, vendored or
binary. This directory holds TLA+ models of the parts with control worth
checking, TLC configurations for them, and TLAPS proofs.

Paths below are relative to `src/`. The JavaScript files are minified: a "line"
of them is long and holds several functions.

## 1. Inventory

| Component | State | Operations | What makes it hard | What makes it correct |
|---|---|---|---|---|
| **Save & Apply** (`usr/share/ucode/luci/controller/admin/uci.uc`, `resources/ui.js` 333-351, `template/footer.ut`, `dispatcher.uc` 745-763; rpcd, a binary) | staging area per session, snapshot and timer in rpcd, the `rollback` record of the global session, a dialog per page | apply with rollback, unchecked apply, confirm, revert; the polls of the page; page load | each request is a process; a request is several ubus calls; requests and answers get lost or late; three clocks | a configuration is kept by its own session or rolled back to the one last kept; the page tells the truth; it always ends |
| **uci.js** (`resources/uci.js`) | loaded values, additions, changes, deletions, reorder flag | load, add, remove, set, unset, get, sections, move, save | five tables for one file, asynchronous save, names given by the server | what is shown is what is saved |
| **luci.js, rpc.js** (`resources/`) | batch of calls, poll queue and timer, loaded classes and what they wait for, probes kept in the browser | request, batch flush, session check; add/remove/start/stop/step of polls; require, setupDOM, preload, view | callbacks change the queue that is walked; classes require each other while they load; a session ends between answers | every ubus call is settled; every function runs again, none twice at once; a page comes up or says why not |
| **form.js** (`resources/`) | fields with values, visibility and validity; the dialog on show; sections added but not saved | typing, checkDepends, parse, add, edit, save, dismiss | dialogs and saves are promises and overlap with clicks; one field's change hides others | a dialog saves what it shows, nothing invalid, and leaves nothing behind |
| **network.js, firewall.js, zones.js, interfaces.js** | sections of three files that refer to each other by name; `_state` and `_init` | add, delete, rename networks and zones, join and leave, assign zones; initNetworkState, lookups by three kinds of names | references are kept by hand, partly after promises; names are positions; the state is read by several calls | no dangling name but for known leftovers; a network is the same by every name |
| **wireless.js** (`resources/view/network/`) | `disabled` of networks and radios; the four frequency selects; marks on rows | enable, disable, add, join, remove; mode, band, channel, width; restart | half of a change is on the radio; selects refill each other; rows are redrawn | nothing comes up that nobody chose; a request is served |
| **ui.js** widgets (`resources/`) | list items, hidden inputs, order of tables, tabs in the session storage | clicks, typing, setValue, addChoices; sort; switch tabs | the same value in three places | the value is what is shown |
| **opkg.js** (`resources/view/`) | lists of available and installed packages, filter, page, dialog | filter, page, install, remove, upload, update | two listings and commands overlap | the table is true; the plan is complete |
| **ddns overview** (`resources/view/ddns/`) | dialog with its verdict on the provider, buttons | add, edit, change, save, install a definition; start and stop | the verdict comes after the choice | what is saved is supported |
| **ddns-scripts** (`usr/lib/ddns/`, `etc/hotplug.d/iface/95-ddns`, `etc/init.d/ddns`) | pid file, time of the last update, counters and addresses of each process | start/stop/reload, hotplug, signals, lookup, update, retry | several starters in the background, kill between any two commands, reboots, three retry loops | one daemon per section; provider not flooded; the name gets the address |
| **Dispatcher, rpcd plugins, hostapd ucode, netifd scripts, sysupgrade, procd glue, preinit, firewall4, adblock, wifi_schedule, other services, legacy Lua** | see section 6 | | | not modelled |

Components interact as follows. A page comes up through `require()`; its view
renders a form of `form.js` over the browser's copy of a file (`uci.js`), with
fields of `ui.js` and helpers of `network.js` and `firewall.js`. `Poll` calls
its functions, whose calls `rpc.js` and `luci.js` send in batches. `save()`
stages the edits in rpcd; the changes dialog sends apply/confirm/revert requests
to `uci.uc`, which calls rpcd over ubus and shares the rollback record with every
other request through the global session; rpcd's own timer and the session's
expiry run beside them. An applied configuration makes netifd bring interfaces up
and down, whose hotplug events start and stop the ddns updater, which shares a pid
file and a time stamp with the process it replaces.

The hazards, each at its line, are in `PROJECT.json` under `hazards`.

## 2. Modules

```
KeepOrRevert          what "Save & Apply" promises (abstract)
UciBackend            rpcd's uci object as uci.uc uses it (external)
  ApplyConfirm        uci.uc, the dialog of ui.js, footer.ut, network, clocks
    MCApplyConfirm, ApplyConfirm_proofs
UciDelta              one section of uci.js: values, changes, deletions
  UciStore            uci.js: the file, its sections, move() and save()
    MCUciStore
DdnsUpdater           the updater processes of one DDNS section
  MCDdnsUpdater, DdnsUpdater_proofs
RequestQueue          rpc.js and Request of luci.js: batches, session check
Poll                  LuCI.poll: the queue, step(), the timer
  LuciRuntime         both, with the session's end and the dialogs that stop polling
    MCLuciRuntime, LuciRuntime_proofs
ClassLoader           require(), setupDOM, probes, preloads, the view
RowRequests           the buttons of rows and the polled function that serves them
  PageLife            both, from the class files to the buttons
    MCPageLife, PageLife_proofs
FormFields            fields of one section: dependencies, validity, parse()
  FormDialogs         table, dialogs, saves
    MCFormDialogs, FormDialogs_proofs
PackageLists          opkg.js: versions, parser, plan of an installation
  PackagePage         opkg.js: listings, table, dialogs, commands
    MCPackagePage, PackagePage_proofs
Filters               what is left of a list, in its order
Dropdown              list fields of ui.js
FileBrowser           the file field of ui.js and its browser
RowOrder              rows of form.js that are dragged
ViewState             order of tables and active tabs
WifiConfig            networks and radios up and down
WifiFrequency         mode, band, channel, width
DdnsPage              the page "Dynamic DNS"
NetConfig             networks, zones and references
NetworkState          what network.js knows of the device, and names
  ViewParts           one of the nine, chosen at the start
    MCViewParts, ViewParts_proofs
Config_proofs         about UciDelta, NetConfig and WifiConfig
```

No module declares a RECURSIVE operator: what the code does in a loop or a recursion
(`compareVersion`, `renderDependencies`, `sections.filter`) is a recursive function, a
fold, or said outright, as `Kept` of `Filters` says what a filter leaves and `Sorted` of
`ViewState` what a stable sort is. So all of them can be reasoned about.


The definitions that a comment calls "Mutant" are variants with a bug; no run
uses them. They are listed under `mutants` in `PROJECT.json`: with one in place of
the definition it varies, TLC finds the property violated, so the property says
something of the code.

### ApplyConfirm

`Conns` are requests in progress. `job[h]` is the process that serves request
`h`; its `pc` is its next ubus call, and each action is one call together with
the code up to the next one (`ApplyUci`, `RecordToken`; `CheckToken`,
`ConfirmUci`, `ClearRecord`; `ReadChanges`, `CommitOne`, `ReloadUci`,
`RevertOne`). The status is what `ubus_state_to_http` sends. `record` is the
value `rollback` of the global session with the time it remains valid: the code
compares `data.timeout` with `time()` and `footer.ut` uses the difference, so a
countdown stands for both. `page[s]` is the dialog of the page of session `s`:
`deadline`, the scheduled next call (`wait`), `confirm_auth` (`auth`) and the
request in flight. `ApplyReply`, `FirstCall`, `ConfirmReply`, `RollbackReply`
and `RevertReply` are the callbacks of ui.js. `PageLoad` is a page that is loaded
while a token is recorded. `LoseRequest` and `LoseReply` are network failures and
timeouts of XMLHttpRequest: the page sees an error for both.

`UciBackend` is **external**: rpcd is a binary. It models the calls of `uci.uc`
with the status codes it tells apart: one apply can be pending; confirm is for its
session only; apply, commit and revert are refused meanwhile; the timer restores
the files and gives the session its changes back (which the dialog's text
"edit changes before attempting to apply again, or revert" relies on). A
configuration is a version number per file.

A token is the number of its apply (`randomid(16)` does not repeat); the poll of
`rollback()` sends the CSRF token, which is no rollback token: number 0.
`clicks`, `others`, `owner`, `outcome`, `confirmedBy`, `pendingId`, `kept` and
`edits` are history or bounds.

### UciDelta and UciStore

`UciDelta` has the rules of `get`, `set`, `unset` and `save` for the options of one
section, `UciStore` the sections of one file. `values`, `creates`, `removed`,
`moved` are `state.values`, `.creates`, the `true` entries of `.deletes`, and
`.reorder`; changes and deletions of options are kept with the section
(`delta`). `save()` is three actions, its waits: `SaveSend` (all requests;
`rpc.js` batches them, rpcd handles them in order), `SaveOrder` (renaming and
`callOrder`), `SaveReload` (unload and load). Edits during a save are left out
(`Edit` needs `phase = "idle"`). The `.index` that `sections()` writes is on
copies; the one that `move()` writes is on what `get()` returns, which is the
loaded section itself: that is why `Move` and `GetSection` apply `GetAll`.
There are two ways to read an option, and they differ: `get()` of one option looks at
pending deletions (`Get`, `Seen`, `GetOptions`), which is what the fields of a form
show; `sections()` lays the changes over the loaded values and does not (`Listed`,
`Sections`), so it goes on listing an option that `save()` will delete, until the
section is read as a whole or saved. `SaveShowsSame` is about what fields show
(`Shown`), `SaveKeepsValues` about what is listed.

### DdnsUpdater

`proc[p]` is one process of a section, `pc` where it is in
`dynamic_dns_updater.sh`: kill the old process, write the pid file, read the time
stamp, first lookup, then the main loop. Sleeps are countdowns
(`Slept`, `Wake`). Every command can be followed by SIGTERM (`term`, `Terminate`)
or SIGHUP (`Hangup`); a transfer ends before the shell handles a signal. Times
are ages up to `ForceSeconds`: the code asks only whether an update is older than
that. `IfUp`, `IfDown` and `IfUpdate` are hotplug events, `Stop` and `Restart`
`init.d/ddns`, `Reboot` keeps the files (a `/var` on a disk) and sets the clock
back. Processes start whenever something starts them, two at a time as well. The
history variables `raced` and `lost` follow the race between kill and pid file: `lost`
are the processes whose pid one overwrote that had killed before they were there; they
run on, and neither `stop` nor the next start finds them. `OneDaemon` is about all
others. `ip_source=network`, `VERBOSE` 0 or 1. `dns` follows `provider` with any
delay (`Publish`, external).

### RequestQueue, Poll, LuciRuntime

A client has one call at a time (`Own`), beside it the one by which the
interceptor of luci.js asks for the session (`Check`) when the answer is "access
denied". `queue` is `requestQueue`, `Flush` the animation frame that sends it;
`Reply` answers the first calls of a batch, each with a result, an error or "access
denied", and `Answer` settles by position: the calls without an answer fail with "No
related RPC reply", and all of them if the request is lost. Page requests (`Plain`) have
no time-out: the one that `Request.poll.add` works out is not used (`luci.js:75`). With the login
dialog up the promise of a page request stays pending (`"hung"`), so that nothing is said
of when it is settled.
A function of `Poll` has an entry with its interval `i` and the flag `r` that is
TRUE while no call is under way; what an entry's promise resets is the entry, also
when the function was removed and added again, so calls are `Invocations` numbered
per function. `Second` is `step()` with the increment of `tick`, which is kept
modulo `TickWrap` (only `tick % i` is used). `LuciRuntime` ties a function's call
to the ubus call that it makes; `notifySessionExpiry` and the dialogs of `ui.js`
stop and start the timer.

### ClassLoader, RowRequests, PageLife

`class[c]` is what `classes[c]` holds (nothing, a promise, an instance or an
error), `deps[c]` the `'require ...'` lines that its file turned out to have,
chosen among `Allowed`, and `chain[c]` the names in the array `from` of its first loader.
`require` of a class with a promise returns the promise, of one that is in `from`
throws "circular dependency". `features` and `listing` are the two probes of
`initDOM`, with their copies in the browser's storage. In `RowRequests` the marks
of a row are attributes of an element, which a redraw replaces or keeps. A button whose
handler returns at once ("Restart" of a radio) is free again at once; those of an
interface stay busy until the polled function has redrawn them.
`PageLife` is not an interleaving of the two: while classes load nothing is
polled, and a page that is up loads none.

### FormFields, FormDialogs

A field has a value, may be shown, and may be bad. `CheckDepends` makes its passes
in the order of the fields, `Alt` is one alternative of `depends()` with
`!contains`, `!reverse` and `!default`; `Parse` is what `CBIAbstractValue.parse`
writes and removes, `KeptBySibling` the test for another field with the same
option. `Quick` are the fields for which two passes are enough (`TwoPasses` says when),
worked out from what the fields depend on; the run has fields that are and one that is
not. `Exclusive` says of a dialog that it shows no two fields with the same option.
`FormDialogs` has one table: `AddRow`, `EditRow` and `RemoveRow` are
clicks, `Opens` and `OpenFails` the end of `renderMoreOptionsModal`'s promise, of
which several may be on the way (`opening` counts them by section): Reset and every
save draw an enabled button "Add" while a dialog is being made. `addedSection` holds
the last addition only; `orphans` remembers those that it lost.
`SaveDialog` runs `parse` and sends, `SaveDone` gives server names to added
sections and reloads, `SaveFails` does neither.

### PackageLists, PackagePage

Versions are sequences of characters, since `compareVersion` is about these;
`CompareVersion` goes along both by a recursive function, as does `Resolve`, which is
`renderDependencies` with `pkgStatus` (`Judge`), along the names to look at. `ParseList`
builds `pkgs` and `providers` in the order of the listing. On the page `loads` are calls
of `updateLists()`, each of which reads the two listings at
times of its own; `opkg` changes the device when `CommandDone`.

### ViewParts

Nine parts that do not touch each other's state. Their composition is a choice at
the start and not an interleaving, which would only multiply states.

* `Dropdown`: the `<li>` elements with their attributes, and the hidden inputs;
  `UIDynamicList` has its items beside.
* `FileBrowser`: `label` is the button, `hidden` the input that the form reads,
  `browser` the `.cbi-filebrowser` with what `renderListing` drew. Each request under
  way is in `calls`; `linked` says that what was clicked is still in the page, since
  `handleSelect` finds the browser only from there: a removal or an upload whose row
  was redrawn does not list the directory again. `setValue` is not modelled: it
  does not change the button.
* `RowOrder`: `tables` are the rows of each typed section, `copied` the order of all
  sections of the file in `uci.js`. `Drop` is `handleDrop` or `handleTouchEnd`, which
  call `insertBefore` and then `uci.move`; where `insertBefore` throws, nothing is
  moved. `drag.live` is FALSE for a row that a save has replaced (`Redraw`).
* `ViewState`: what `getLocalData('tablesort')` and `('tab')` hold and what tables
  and tab groups make of it, over pages with several groups.
* `WifiConfig`: a network is up unless it or its radio has `disabled`. Section
  names are `wifinet<n>` as `next_free_sid` makes them.
* `WifiFrequency`: `freq.list` is which list each select shows, with the
  `selected` index that `setValues` keeps in the list that is taken away.
  `RadioUsable` says of a radio that each of its modes has a width, and a band with
  a channel; widths go up to 160 MHz, and channels that may not be used (`Restricted`)
  count when a band is offered, as in the code.
* `DdnsPage`: the dialog with `service_supported` and `service_available`, the
  calls that read a definition, and the buttons as three calls. A service that was just
  added keeps the checks of the dialog that added it.
* `NetConfig`: networks, wifi sections, zones and policies; `tasks` are what waits
  for a promise: cleaning the zones after a deletion, covering networks, assigning
  a zone, renaming a zone. `deleteNetwork` and `renameNetwork` read the lists of wireless
  networks by `sections()`: `loaded` is what `state.values` has of these, and
  `StillListed` what is listed although it was unset; `LookUpWifi` and `SaveAll` bring
  both together. `newZone` is the zone whose dialog was opened by "Add": it may be saved,
  refused, and dismissed after its name was written (`DismissZone`). `left` remembers
  what the code is known to leave.
* `NetworkState`: `order` are the wifi-iface sections, `netState` is `_state`,
  `loads` the calls of `initNetworkState`, of which `_init` is the one that has not
  come to hostapd yet. Names are of disjoint kinds (sections, `radio0.network2`,
  interfaces). `members` is the option network of the sections as `get()` answers it,
  `inValues` as `state.values` has it and `sections()` lists it once it is unset
  (`ListedWith`); each lookup reads the one that the code reads, and `GetSection` brings
  both together. `asList` says which of them is a list, which `getWifiNetidByNetname`
  skips. No network names a wireless interface as its device by hand; `getNetworkDevices` is taken to be answered.

## 3. Runs

| Run | Checks | Shows | Distinct states |
|---|---|---|---|
| apply_sessions | SettledConfig, ConfirmedByOwnSession | two sessions, two requests at a time: trial and rollback are not disturbed by the other session's commits, confirms or late handlers | 2 180 000 |
| apply_outage | AppliedInTime | requests and answers lost or late by up to a tick: "applied" is true, but for the last tick of a page's deadline | 1 863 000 |
| apply_verdict | RolledBackMeansOver, VerdictReached, KeepsPromise | fair scheduling, answers that take time: pages come to a verdict, none reports a rollback too early, `KeepOrRevert` is implemented, its fairness included: every trial ends | 84 000 |
| uci_views | SaveShowsSame, SaveKeepsValues, SaveKeepsOrder | views that edit: what is shown when saving is what is shown afterwards; views that also read whole sections and move: no section, no listed value (pending deletions apart) and no order is lost | 272 000 |
| ddns_takeover | OneDaemon, PacedUpdates | processes that start at the same time, with kills, hangups, failures, reboots | 2 293 000 |
| ddns_converges | Converges, Refreshes | concurrent starts, fair scheduling: the name gets the address | 547 000 |
| luci_runtime | CallsAccounted, ExpiredMeansGone, OneCallAtATime, PausedStaysPaused, CallsSettle, CalledAgain | polled functions that throw and remove themselves, batches that get lost or are answered in part, the session's end, dialogs | 71 000 |
| page_boot | CircularIsReal, ClassesSettle, PageComesUp, RequestServed | classes that require each other in every way, files and probes that fail; rows that are redrawn between a click and its round | 71 000 |
| form_dialogs | ShownSettled, NothingLeftBehind, SavedAsShown, NothingInvalidSaved | dialogs that open, one behind the other, are edited, dismissed and saved while saves are under way and fail | 318 000 |
| package_page | TableIsTrue, UploadRemoved, VersionsOrdered, PlanCovers | listings, filters, pages and commands that overlap | 216 000 |
| view_parts | ShownIsHeld, ViewKept, FrequencyKept, SavedIsSupported, RowsInOrder, NothingDangles, NamesAgree, OnlyChosenComeUp, StateAdvances | the nine parts of `ViewParts` | 381 000 |
| ddns_toggle | ToggleToggles | **violated**: the button of the page "Dynamic DNS" | - |

The type invariants are proved where a module has proofs; elsewhere they are part
of a checked invariant (`PausedStaysPaused`, `ShownSettled`, `UploadRemoved`) or
implied by what is checked.

### The finding

`ddns_toggle` shows that "Stop DDNS" does not stop the autostart:
`handleToggleDDns()` asks rpcd's `setInitAction` for an action `enabled` that it
does not know, takes the missing result for "not enabled", enables the autostart,
takes that success for "was enabled" and stops the updaters.

### What the runs leave out, and why

Some properties hold only under a condition, of the constants or in the property.
Each of these is a disagreement of the code with its comments or with itself;
without the condition TLC shows it at once.

| Name | Without the condition | What TLC then finds |
|---|---|---|
| short rollback | `apply_outage` with `Conf < Floor` | `AppliedInTime`: a page says "Configuration changes applied." of an apply that was rolled back, as the token's time (`uci.uc:65`) is not clamped like rpcd's and the page's (`uci.uc:52`) |
| clear race | `apply_outage` with two `Conns` | `AppliedInTime`: a confirm clears the record of a newer apply (`uci.uc:111`) |
| late answer | `AppliedInTime` without `deadline > MaxLag` | the page's deadline starts with the answer to its apply, rpcd's timer with the apply: in between a confirm is too late and is taken for success |
| wrong name | `uci_views`, with `known` of `SaveKeepsOrder` always `Names` | a deletion, an addition and a move in one save: added sections take the names that answer deletions (`uci.js:97`) |
| lost deletion | `uci_views`, with "get" not excepted in `SaveShowsSame` | the option shown as deleted comes back: unset, get, set and unset of one option forget the deletion |
| listed deletion | `SaveKeepsValues` for all that `sections()` lists | an option that was unset is listed with its value until the save deletes it (`uci.js:27`) |
| name brought back | `BroughtBack` not in `left` | `RefsResolve`: a wireless network that lost its last network is listed with it; that network is deleted, then another one, and the first name is written again (`network.js:132`, `145`) |
| dismissed zone | `DismissZone` with `left` unchanged | `PoliciesResolve`: a new zone's save is refused after its name and forwardings are written; the dialog is dismissed, the forwardings stay (`zones.js:7`, `29-35`) |
| last network | `KnownBothWays` without its exception | the device of a network whose section has just lost it says that it is in no network (`network.js:27-30` against `283`) |
| overtaken addition | `NothingLeftBehind` for `orphans` too | a second "Add" while the first one's dialog is being made: dismissing removes the second section only (`form.js:228`) |
| third pass | `ShownSettled` with `Fields` for `Quick` | a field that needs three passes is shown although its dependencies do not hold (`form.js:58`) |
| two daemons | `OneDaemon` with `Procs` for `Procs \ lost` | kill and pid file are not one step (`dynamic_dns_updater.sh:299-302`) |
| new name | `ddns_converges` with `NewName = TRUE` | `Converges`: a name without address is never registered after one failed lookup (`dynamic_dns_updater.sh:342-343` with `dynamic_dns_functions.sh:1190-1213`) |

Properties name what they except, each for something the code does: zones and
other sections that `renameNetwork` overlooks (`RefsResolve`, of `NothingDangles`); a network state that
a reading was started behind (`StateAdvances`); a click on the
wireless page in the middle of a round (`RequestServed`); two checks of a provider
at once (`SavedIsSupported`); a save of a dialog that was refused once
(`SavedAsShown`); 6 and 60 GHz in a legacy `hwmode` (`FrequencyKept`); lost answers
and overlapping listings (`TableIsTrue`, `UploadRemoved`); packages that have to be
upgraded (`PlanCovers`); a file that goes with its directory or is chosen while its
removal is under way (`FileIsShown`, of `ShownIsHeld`); a row dropped where its table
cannot follow (`RowsInOrder`).

Further observations made while modelling, for which there is no property:

* If the answer to the confirm that kept an apply is lost until the deadline, the
  page says "Configuration changes have been rolled back!"
* A revert with an empty list of changes while an apply is pending answers 200,
  and the rollback stages the changes again.
* A second startup of the ddns updater sends an update again while the name
  servers still give the old address, whatever `$UPDFILE` says.
* `WifiDevice.deleteWifiNetwork` calls `uci.delete`, which does not exist
  (`network.js:323`); `Protocol.isEmpty` asks `getWifiNetidBySid` for a name of a
  network (`network.js:263`).
* A row that is dropped at the end of another table of the page
  (`view/system/mounts.js` has two) goes to the end of its own table, while its
  section moves behind the one it was dropped on (`form.js:190-191`); dropped in the middle of it, `insertBefore` throws. An order
  that the server refused counts as sent (`uci.js:6-13`).
* `checkDepends` hands itself `(n||10)+1` and so makes two passes, not ten
  (`form.js:58`).

### Bounds

* Apply: at most two sessions, two files, two requests in progress, two checked
  applies and one other request, two edits. Two of each are needed for every
  interleaving listed (a newer apply while an older request is still running); a
  third adds no new relation, as only one apply can be pending. Timers are 1 to 3
  ticks, so that each order of the three deadlines occurs. `MaxLag` bounds how long
  an answer takes; in `apply_outage` it is one tick, less than the shortest deadline.
* uci.js: three names, two made-up ids, one option with two values, four edits
  (three with reads and moves) before and between saves: enough for
  set/unset/get sequences and for a deletion, an addition and a move in one save.
* ddns: two processes alive at a time and three starts, one or two faults,
  intervals of one to three ticks with check < force.
* luci_runtime: three functions (one throws, one removes itself, one is removed and
  added), `MaxAdds = 3` additions, one dialog or click, two calls of one function
  so that an old one ends after the new one began.
* page_boot: two core classes, a view and a preload script, with `require` lists of
  up to two classes; `MaxLoads = 2`, so that the second page uses the first one's
  probes; two rows, three clicks, one reload.
* form_dialogs: five fields in an order against their dependencies, two of them on
  one option, and one that needs three passes; one existing section, two added; two
  clicks on the page and one failure, so that a second section is added while the dialog of
  the first is being made.
* package_page: an application with a library, an alternative and translations,
  with versions of every kind of difference (`1`, `10`, `1.2`, `1~r`, `012`); pages
  of two rows; one command, one loss, one more click.
* view_parts: five edits of a field, four clicks in a browser with a directory, a
  file in it and one beside, two drags and one save of rows over three orders of
  sections of two types, four looks at pages, three changes of radios,
  four picks of frequencies, three steps on the page "Dynamic DNS", two links at a time (`MaxLinks`: policies, references, leftovers and waiting tasks) for `NetConfig` with two
  networks and two zones, whose invariants are also proved for every bound; two
  wireless sections at a time out of three, one interface name, two readings, one
  edit and one change of the device for `NetworkState`.

`SYMMETRY` is used in the runs without liveness for sets whose members the
specification treats alike (sessions, files, processes, sections).

Deadlock is not checked where the user may simply stop, or a bound is reached; it
is checked in the two runs of the ddns updater and in the package run.

### Fairness

* `ApplyConfirm`: handlers, rpcd's timer and dropped answers are weakly fair
  (processes run, timers fire). `Tick` is strongly fair: a page that polls without
  pause disables it again and again, yet time passes. What a page does by itself is
  strongly fair, because another page may hold the last connection for a while.
  Users and network faults are not fair.
* `DdnsUpdater`: processes, the clock and the name servers are weakly fair. Faults
  are bounded by `MaxFaults`, starts by `MaxStarts`: the properties only speak of
  behaviours in which the uplink is up for good.
* `LuciRuntime`: the event loop goes on (`TimerFires \/ Frame`, which exclude each
  other), a promise that is settled has its callbacks run (`CallOver`), and a ubus call is
  answered or times out (`Answered`, `rpctimeout`). Page requests have no time-out, so
  nothing is assumed of their answers. None of this says that the session lives or the user resumes polling.
* `PageLife`: requests for class files and probes are answered or fail, promise
  callbacks run, and the polled function is called again.

## 4. Proofs

All theorems hold for every value of the constants that meets the named
assumptions of the modules.

* `ApplyConfirm_proofs`
  * `TypeCorrect`. The inductive invariant `TypeInv` adds to `TypeOK` that a page
    that waits for an answer has a connection, so that the job it reads exists.
  * `Settled` (`SettledConfig`). Every step is, for the backend, one of the few in
    `BackendStep` or leaves it alone (`NextBackendStep`); each of them keeps
    `SettledConfig`.
  * `NoForeignConfirm` (`ConfirmedByOwnSession`). The strengthening says that the
    token in the record, and the token and the session that a handler carries
    from `CheckToken` to `ConfirmUci`, belong to one another (`owner`), and so do
    the pending apply and rpcd's session.
  * `ImplementsPromise`: the safety part of `KeepOrRevert` under the mapping
    `onTrial <- Pending`; its liveness stays with `apply_verdict`.
  * `RolledBackIsOver` (`RolledBackMeansOver`) and `AppliedIsKept`
    (`AppliedInTime`): what a page tells its user is true, for any number of
    sessions, connections and lost messages. Every step is first summed up by what it
    means to the others (`HandlerStep`, `PageStep`, `NetworkStep`); then `LinkInv`
    relates a page, the request it waits for, and the outcome of its apply. On that
    rest two invariants about time. `RollbackInv`: an apply that the record, a handler
    or a page names is over, or its token outlives its trial. `AppliedInv`: it is
    kept, or its trial and its token last as long as the page will wait (`Held`).
    Both are for any `MaxLag`: what it takes an answer to come is all that a page's
    clock can be off by. The hypotheses are the conditions of the first two rows of
    "What the runs leave out": `RecordedInPeace` (no clear race) and `Conf >= Floor`
    (no short rollback).
* `DdnsUpdater_proofs`
  * `TypeCorrect`.
  * `OneDaemonAlways` (`OneDaemon`), however many processes start at once. The inductive
    invariant `Takeover`: a process that loops, is not about to stop and was not
    overtaken is the one in the pid file; and every process that has killed and is about
    to write the file knows of it (`raced`), so that its write will count it among `lost`.
  * `UpdatesArePaced` (`PacedUpdates`). The invariant `PaceInv`: a process that had an
    answer less than `CheckSeconds` ago is recording it, has gone, or will sleep for
    at least what is missing; retries come only out of `sending`, that is after it.
* `Config_proofs`: the configuration that pages edit.
  * One section (`UciDelta`), for any options and values. `ListedIsSeenOrDeleted`: the
    two ways of reading differ in the pending deletions, and in nothing else. `SavedIsSeen`: a
    section whose loaded values are the server's is saved as `get()` answers it.
    `ReadShowsSame`: the in-place merge changes what is listed, not what `get()` answers.
    `FaithfulKept` and `ShownValueSaved`: after any edits and merges what has a value by
    either reading, pending deletions apart, is saved with it. What fails after a merge
    is only the deletion.
  * References (`NetConfig`): `TypeCorrect`, with the fact that a zone section has one
    name. `ReferencesResolve` (`RefsResolve`): for any networks and sections, any number
    of waiting tasks and any order of their ends. The invariant adds that a zone's
    references go with the zone (`ZoneRefs`): cleaning the zones after a deletion would
    overlook those of a zone that is gone. `PolicyEndsResolve` (`PoliciesResolve`): a
    rename is one step for the zone and everything that names it, and a deletion takes
    the policies along; a new zone that is dismissed is the exception. `NothingEverDangles` (`NothingDangles`): both.
  * Radios (`WifiConfig`): `WifiTypeCorrect`. `HeldOnlyAtFirst`: while the page works, a
    radio goes down only after all of its networks. It is the invariant that `OnlyChosen`
    (`OnlyChosenComeUp`) needs: without it a network could come up with its radio that
    the user never chose. `ButtonTurns`: the button turns around whether the network is
    up, in every state of the page.
* `PageLife_proofs`: any classes, whatever their files require, and any rows.
  * `CircularAlwaysReal` (`CircularIsReal`) is not inductive. It needs `ChainsReal`: whoever
    a class is loaded for depends on it, which lasts because dependencies are known
    before the classes they name are asked for, and only ever grow. "Depends" is the
    closure of what the files say; `RingIsCycle` shows that a class that depends on itself
    is the same as a ring of files.
  * `LoaderInvariant` has the type invariant with it, `ReadyIsComplete` says that an instance
    is handed out only when all it requires are instances, and `OnlyRingsWait` is what
    `ClassesSettle` needs beside fairness: a loader that has nothing more to do has
    settled, or files require each other in a ring.
  * `RowsInvariant`, `NoClickForgotten`: until its command runs a click has left the mark
    that the next round looks for, and a button spins only while something is under way
    that ends it: what `RequestServed` needs beside fairness.
* `PackagePage_proofs`: any repositories, devices, listings in flight and commands.
  * `TableAlwaysTrue` (`TableIsTrue`). `PageInv` says what a call of `updateLists()` has read
    (`LoadsTrue`), that the lists are the device's when there is no call (`ListsTrue`),
    the rows those of the lists unless the filter's timer runs (`ShownTrue`), and that the
    offset is within the rows, so that a page of the table is never empty.
  * `UploadsRemoved` (`UploadRemoved`): the uploaded file belongs to the dialog that is open,
    from the question to the result (`FileInDialog`).
  * `TypeCorrect`, from the same invariant.
  * `VersionsInOrder`, and from it `VersionsAlwaysOrdered` (`VersionsOrdered`).
    `CompareVersion` is recursive over pairs of texts of any length, so that there is such a
    function has to be proved first: for every n there is one that is right about pairs
    with fewer than n characters (`RightThere`), such functions agree where they are
    right (`RightAgree`), and together they make one that is right everywhere
    (`ComparisonIs`). The order is lexicographic: what the next characters or numbers
    decide (`First`) goes on from one version to the next (`FirstGoesOn`), and is 0 only
    if all three walk on alike. Its assumption `CodeAssumption`: character codes are
    positive, differ for digits, and a digit is neither a letter nor `~`.
* `LuciRuntime_proofs`: one inductive invariant, `RuntimeInv`, for any polled
  functions, clients, intervals and bounds, from `CallersAssumption` (every call of
  a polled function is a client's) and `ClientsAssumption` (finitely many clients).
  * `TypeCorrect`.
  * `EveryCallAccounted` (`CallsAccounted`) and `ExpiryIsTrue` (`ExpiredMeansGone`).
    The invariant adds that no page request is held back for a session check
    (`NoPlainCheck`): otherwise the request that a login page answers, whose calls
    hang forever, could hold a check and leave the call it is made for without one.
  * `NeverTwiceAtOnce` (`OneCallAtATime`). `SoundPoll` says that every call under
    way whose function is still polled has its own entry, which waits for that very
    call, so that a late answer to an earlier call frees nothing. The loop of
    `step()` is a recursive function of the number of turns; that it keeps
    `SoundPoll` is proved by the least turn that would not (`LoopSound`).
  * `StopsForGood` (`PausedStaysPaused`): a stopped poll has no tick either, which
    is what keeps `add()` from starting it.
  * `CallersAlwaysFree`: the guard of `Issue` never turns a polled function away.
* `FormDialogs_proofs`: for any fields, dependencies, sections, clicks and failures.
  Passes over the fields and `parse()` are recursive functions of a position in the
  order; facts about them go by induction on it (`Reaches`, `InOrder`).
  * `TypeCorrect`, with the contents of the sections that a save sends.
  * `AddedIsKnown` (`NothingLeftBehind`): an added section is the one that the page
    remembers or has been overtaken, and its dialog is on show or counted in `opening`,
    for any number of dialogs being made at a time.
  * `ShownIsSettled` (`ShownSettled`). After a pass a field is shown as its
    dependencies hold in a form that is new before the field and old from there on
    (`PassOver`). So a first pass settles the fields that only depend on earlier ones,
    and a second one those that depend on a later field which the first has settled.
    The fields are not assumed to be of that kind: `Quick` has those that are, and the
    theorem is about these in the company of any others, which may be shown wrongly and
    must not disturb them.
  * `SavesAreClean` (`NothingInvalidSaved`), of the same fields: in a form settled on
    them the check of a save changes nothing of theirs that is shown, so that its first
    pass has validated them (`ChecksAll`).
  * `SavesAreAsShown` (`SavedAsShown`), whatever the fields depend on: it asks of the
    dialog on show, not of the fields, that no two with the same option are shown
    together (`Exclusive`). The invariant
    `Fresh` says that a dialog that is not stale was loaded with what the copy has:
    a save of the page that ends under it brings back what the page had sent, and that
    is what the dialog was loaded with.
* `ViewParts_proofs`: parts of pages, each with an invariant of its own.
  * `SavedIsVouchedFor` (`SavedIsSupported`). The invariant `Vouched`: while no two
    checks overlap, the one request under way is for the provider on show, so its
    answer speaks of that one; and a dialog is valid only with a positive answer.
  * `FileAlwaysShown` (`FileIsShown`, half of `ShownIsHeld`). `Doomed`: a removal under
    way that takes the chosen file along is one that was confirmed for a directory
    around it.
  * `FieldAlwaysSelection` (`FieldIsSelection`, the other half) and with both
    `ShownAlwaysHeld` (`ShownIsHeld`). The invariant `FieldInv` adds to the property which entries there
    are (`Linked`): what is selected or withheld is an entry of the field, what was typed
    into a list is withheld, withheld values are items of the list, and the combobox of a
    list has nothing but its placeholder selected between two actions. Hidden inputs may only lag
    behind inside a handler: lemmas about each helper of `Dropdown` lead from a field in
    `Shape` to one that is `Good` again. The loops of `setValues` are recursive functions;
    that they keep a field good is an induction over the number of entries done, with
    `WFMin`.  Lemmas about `Kept` say what a filter leaves of a list and of its order.
  * `ReadingsAdvance` (`StateAdvances`). The invariant `NetInv`: one reading at most is
    not overtaken, the overtaken ones all wait for hostapd, and one that is not
    overtaken has each of its answers later than every other reading and than what is
    known (`IsLatest`).
  * `NamesAlwaysAgree` (`NamesAgree`). The invariant `NamesInv`: no section is listed twice,
    and in every reading, those under way included, no two sections run as one
    interface. On that rest lemmas about `getWifiNetidBySid` and its inverse, which count the
    sections of a radio in their order, and about the devices built from them.
  * `RowsAlwaysInOrder` (`RowsInOrder`). `RowsInv`: a row that is dragged is in the page or
    was before a redraw (`Dragged`), and each table is in the order of the copy unless a
    row is astray. Two lists are in the same way if what they share is in the same order
    (`SameWay`): that is kept when both take a row out, and when both put it in beside the
    same neighbour, whatever sections of other types lie between in one of them.
  * `ViewAlwaysKept` (`ViewKept`). `TableInv`: what is stored for a table with an id is what was
    asked for, and a table without one keeps it itself. `TabsInv`: the tabs stored are those of
    the page that was last asked for, and the groups on show are in their state. A row's
    place is its rank by key and former place: `Ranked` shows that each place is given
    once, from which the rows of a sorted table are the ones sent, in the order of `Sorted`.
  * `SettingsKept` (`FrequencyKept`), with the hypothesis `RadioUsable`: a mode without
    a channel would leave empty selects. `Remembers` says that a list on show has
    what was last seen in it selected, and every other list remembers that; it is
    kept by `setValues`, from which the handlers are made. `InitialValues` shows that
    `setInitialValues` and `write` are inverse to each other on what a radio supports.

Assumptions on constants, beside bounds that are numbers: sections, rows, devices and
wired interfaces are finitely many; orders of sections do not name one twice; the columns of
a table are those of each of its rows, with keys that are numbers; every listing is one of
paragraphs; the sorted names are a sequence; the choices a view offers name no value
twice, values to type are finitely many, and a list with choices holds a combobox;
digits, letters and `~` are told apart, and versions are made of characters with codes.
They are named, next to the constants, and TLC evaluates them in the runs.

Only model-checked: liveness under fairness (`VerdictReached`, `Converges`, `Refreshes`,
`CallsSettle`, `CalledAgain`, `ClassesSettle`, `PageComesUp`, `RequestServed`), which is
beyond the prover (of the last three the part that is safety is proved, see above); and what
folds and nested recursions compute for every input: `Resolve` (`PlanCovers`) and the
save of `UciStore` (`SaveShowsSame`, `SaveKeepsValues`, `SaveKeepsOrder`).

## 5. What is checked of which hazard

`PROJECT.json` lists them with their properties. A hazard's note says where its
property is weaker than the hazard, or why there is none.

## 6. Not modelled

Within the modelled components: `checkConnectivityAffected()` (which dialog is
offered), ACL checks; edits between the requests of one `save()` of `uci.js`, and its
own `apply()`, which `ui.js` replaces; ddns sections with other address sources,
`verify_dns`, `verify_proxy`, `VERBOSE` 2 (one pass without retries, for
diagnosis), pid files that name a foreign process; the type tests of
`validation.js`; the editor for opkg's configuration; channel
analysis and scans; getters of `network.js` that read one field.

Other components, with more in `PROJECT.json`:

* hostapd and wpa_supplicant ucode, netifd scripts, procd glue: what they do is
  decided by binaries that they call or that call them.
* sysupgrade, preinit, adblock, wifi_schedule, init scripts: sequences of commands
  in one process.
* dispatcher, rpcd plugins: requests without state of their own.
* firewall4: a compiler whose output means something only to the kernel.
* the Lua layer, other views, `cbi.js`: predecessors or instances of what is modelled.

Not stated as properties, and not of the kind a model helps with: `stop` of the ddns
updater tests `$INTERFACE` instead of `$NETWORK` (`dynamic_dns_updater.sh:82`); a pid
file that outlives its process (`dynamic_dns_functions.sh:213`); `macaddr_list` takes
index 0 for "not in the list" (`hostapd.uc:329`); `kill_remaining` loops ten times
(`stage2:89`); a session read by two calls (`dispatcher.uc:463`).
