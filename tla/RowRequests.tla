---------------------------- MODULE RowRequests ----------------------------
(***************************************************************************)
(* The buttons "Restart" and "Stop" of the rows of the interfaces page and *)
(* of the wireless page.  A click only leaves a mark in its row; the next  *)
(* round of the polled function finds the mark and runs the command, and   *)
(* the round after that takes the mark away.  Meanwhile rounds end and     *)
(* redraw the rows, the rows are rendered anew after a save, and before an *)
(* interface is stopped the device is asked whether the user comes in by   *)
(* it.                                                                     *)
(***************************************************************************)
EXTENDS Integers, FiniteSets

CONSTANTS
    RowIds,      \* sections that may have a row, in the order of the page
    MaxPresses,  \* bound: clicks on the buttons
    MaxReloads   \* bound: times the sections are loaded again

ASSUME RowsAssumption == RowIds \subseteq Nat
ASSUME RowBoundsAssumption == {MaxPresses, MaxReloads} \subseteq Nat

VARIABLES
    page,      \* "interfaces" or "wireless"
    known,     \* cfgsections()
    rows,      \* the rows on the page
    fresh,     \* the sections were loaded, their rows not yet rendered
    asking,    \* calls of luci-peeraddr under way
    popup,     \* the call whose answer "Confirm disconnect" shows
    round,     \* the polled function: "idle", "running", or it threw
    presses, reloads \* history

rowVars == <<page, known, rows, fresh, asking, popup, round, presses, reloads>>

Buttons == IF page = "wireless" THEN {"restart"} ELSE {"reconnect", "disconnect"}

\* mark is the attribute of the row: absent, empty or "1".  The rest of the
\* record is history: the command is still to run, the click came during a
\* round of the wireless page, another dialog replaced the row's own.
Row == [spin : {"", "reconnect", "disconnect"}, mark : {"none", "asked", "run"},
        off : SUBSET {"reconnect", "disconnect"},
        waiting : BOOLEAN, late : BOOLEAN, abandoned : BOOLEAN]
NewRow == [spin |-> "", mark |-> "none", off |-> {},
           waiting |-> FALSE, late |-> FALSE, abandoned |-> FALSE]

\* live is FALSE when the row that was clicked has been replaced.
Question == [row : RowIds, live : BOOLEAN]
NoPopup == [row |-> 0, live |-> FALSE]

RowsTypeOK ==
    /\ page \in {"interfaces", "wireless"}
    /\ known \subseteq RowIds
    /\ DOMAIN rows \subseteq RowIds /\ \A i \in DOMAIN rows : rows[i] \in Row
    /\ fresh \in BOOLEAN
    /\ asking \subseteq Question /\ popup \in Question \cup {NoPopup}
    /\ round \in {"idle", "running", "dead"}
    /\ presses \in 0..MaxPresses /\ reloads \in 0..MaxReloads

RowsInit ==
    /\ page \in {"interfaces", "wireless"}
    /\ known \in SUBSET RowIds
    /\ rows = [i \in known |-> NewRow]
    /\ fresh = FALSE
    /\ asking = {} /\ popup = NoPopup
    /\ round = "idle"
    /\ presses = 0 /\ reloads = 0

\* A page without such rows: nothing is polled.
NoRows ==
    /\ page = "interfaces" /\ known = {} /\ rows = <<>> /\ fresh = FALSE
    /\ asking = {} /\ popup = NoPopup /\ round = "dead"
    /\ presses = MaxPresses /\ reloads = MaxReloads

-----------------------------------------------------------------------------
(* Clicks.                                                                 *)

\* The mark that the next round looks for.
Asked(r) == [r EXCEPT !.mark = "asked", !.waiting = TRUE,
                      !.late = (page = "wireless" /\ round = "running")]

\* What a click on "Restart" does to the row of a radio: createHandlerFn gives the
\* button free again as soon as radio_restart returns, before the command has run.
RadioRestart(r) == Asked(r)

\* iface_updown, or radio_restart.  A dialog covers the page.
Press(i, b) ==
    /\ popup = NoPopup
    /\ b \notin rows[i].off
    /\ presses < MaxPresses
    /\ presses' = presses + 1
    /\ LET pressed == [rows[i] EXCEPT !.spin = b, !.off = Buttons] IN
       rows' = [rows EXCEPT ![i] = IF b = "restart" THEN RadioRestart(@)
                                   ELSE IF b = "reconnect" THEN Asked(pressed) ELSE pressed]
    /\ asking' = IF b = "disconnect" THEN asking \cup {[row |-> i, live |-> TRUE]} ELSE asking
    /\ UNCHANGED <<page, known, fresh, popup, round, reloads>>

\* The device answers, or the call fails; inbound when the user comes in by
\* the interface.  A second dialog takes the place of the first.
PeerAnswer(q, inbound) ==
    /\ q \in asking
    /\ asking' = asking \ {q}
    /\ IF inbound
       THEN /\ popup' = q
            /\ rows' = [i \in DOMAIN rows |-> [rows[i] EXCEPT
                  !.abandoned = @ \/ (popup.live /\ popup.row = i /\ popup # q)]]
       ELSE /\ rows' = IF q.live THEN [rows EXCEPT ![q.row] = Asked(@)] ELSE rows
            /\ UNCHANGED popup
    /\ UNCHANGED <<page, known, fresh, round, presses, reloads>>

PeerAnswers == \E q \in asking, inbound \in BOOLEAN : PeerAnswer(q, inbound)

CloseDialog(row) ==
    /\ popup # NoPopup
    /\ popup' = NoPopup
    /\ rows' = IF popup.live THEN [rows EXCEPT ![popup.row] = row] ELSE rows
    /\ UNCHANGED <<page, known, fresh, asking, round, presses, reloads>>

Disconnect == CloseDialog(Asked(rows[popup.row]))
CancelDisconnect == CloseDialog([rows[popup.row] EXCEPT !.spin = "", !.off = {}])

-----------------------------------------------------------------------------
(* The polled function.                                                    *)

\* Mutant: the mark of a command that runs is not taken away.
VisitRunOnly(r) ==
    IF r.mark = "asked" THEN [r EXCEPT !.mark = "run", !.waiting = FALSE] ELSE r

\* What the loop does to a row.
Visit(r) ==
    IF r.mark = "asked" THEN [r EXCEPT !.mark = "run", !.waiting = FALSE]
    ELSE IF r.mark = "run" THEN [r EXCEPT !.mark = "none", !.spin = "", !.off = @ \ {r.spin}]
    ELSE r

\* The loop ends with an exception at the first section without a row; then
\* the function is not called again.
RoundBegins ==
    LET missing == known \ DOMAIN rows IN
    /\ round = "idle"
    /\ round' = IF missing = {} THEN "running" ELSE "dead"
    /\ rows' = [i \in DOMAIN rows |->
          IF i \in known /\ \A j \in missing : i < j THEN Visit(rows[i]) ELSE rows[i]]
    /\ UNCHANGED <<page, known, fresh, asking, popup, presses, reloads>>

\* poll_status: the buttons of a row that spins are off, and those of an
\* interface that is not up and cannot be stopped.
RedrawInterface(r, down) ==
    [r EXCEPT !.off = IF r.spin # "" THEN Buttons
                      ELSE IF down THEN {"disconnect"} ELSE {}]

\* The element that has the mark is replaced.
RedrawRadio(r) == [r EXCEPT !.mark = "none"]

\* The commands are over, one way or the other.
RoundEnds ==
    /\ round = "running"
    /\ round' = "idle"
    /\ IF page = "wireless" THEN rows' = [i \in DOMAIN rows |-> RedrawRadio(rows[i])]
       ELSE \E down \in SUBSET DOMAIN rows :
              rows' = [i \in DOMAIN rows |-> RedrawInterface(rows[i], i \in down)]
    /\ UNCHANGED <<page, known, fresh, asking, popup, presses, reloads>>

-----------------------------------------------------------------------------
(* After a save the sections are loaded, then the rows are rendered.       *)

LoadSections ==
    /\ ~fresh
    /\ reloads < MaxReloads
    /\ reloads' = reloads + 1
    /\ known' \in SUBSET RowIds
    /\ fresh' = TRUE
    /\ UNCHANGED <<page, rows, asking, popup, round, presses>>

RenderRows ==
    /\ fresh
    /\ fresh' = FALSE
    /\ rows' = [i \in known |-> NewRow]
    /\ asking' = {[q EXCEPT !.live = FALSE] : q \in asking}
    /\ popup' = IF popup = NoPopup THEN NoPopup ELSE [popup EXCEPT !.live = FALSE]
    /\ UNCHANGED <<page, known, round, presses, reloads>>

RowsNext ==
    \/ \E i \in DOMAIN rows, b \in Buttons : Press(i, b)
    \/ PeerAnswers
    \/ Disconnect \/ CancelDisconnect
    \/ RoundBegins \/ RoundEnds
    \/ LoadSections \/ RenderRows

-----------------------------------------------------------------------------
(* Properties.                                                             *)

\* A click on a button is served: its command runs, and on the interfaces
\* page the button comes to rest or a dialog asks back; unless the rows are
\* replaced, another dialog takes the place of the row's own, the polled
\* function has died, or, on the wireless page, the click came in a round.
Row0(i) == IF i \in DOMAIN rows THEN rows[i] ELSE NewRow
RequestServed ==
    \A i \in RowIds :
      /\ Row0(i).waiting /\ ~Row0(i).late ~> ~Row0(i).waiting \/ round = "dead"
      /\ Row0(i).spin # "" ~> \/ Row0(i).spin = ""
                              \/ round = "dead"
                              \/ popup # NoPopup \/ Row0(i).abandoned
=============================================================================
