----------------------------- MODULE WifiConfig -----------------------------
(***************************************************************************)
(* What the wireless page does to the networks of the radios: a network is *)
(* up unless it, or its radio, has "disabled".  Enabling, adding and       *)
(* joining a network take the radio's "disabled" away and disabling the    *)
(* last network of a radio sets it, all in the browser's copy of the       *)
(* configuration, which the page then saves.                               *)
(***************************************************************************)
EXTENDS Integers, FiniteSets

CONSTANTS
    Radios,      \* wifi-device sections
    WifiSids,        \* n stands for the section name "wifinet<n>"
    MaxChanges   \* bound: changes made on the page

ASSUME SidsAssumption == WifiSids \subseteq Nat
ASSUME ChangesAssumption == MaxChanges \in Nat

VARIABLES
    wifis,      \* the wifi-iface sections: their radio; have they "disabled"?
    radioOff,  \* radios that have "disabled"
    added,     \* addedSection: {} or the one whose dialog is open
    chosen,    \* history: what the last change was about
    joined,    \* history: the last change was a join
    held,      \* history: networks held down by nothing but their radio
    changes    \* history

wifiVars == <<wifis, radioOff, added, chosen, joined, held, changes>>

Networks == DOMAIN wifis
On(radio) == {n \in Networks : wifis[n].radio = radio}
Up(n) == n \in Networks /\ ~wifis[n].off /\ wifis[n].radio \notin radioOff

WifiTypeOK ==
    /\ DOMAIN wifis \subseteq WifiSids
    /\ wifis \in [DOMAIN wifis -> [radio : Radios, off : BOOLEAN]]
    /\ radioOff \subseteq Radios
    /\ added \subseteq WifiSids /\ chosen \subseteq WifiSids /\ held \subseteq WifiSids
    /\ joined \in BOOLEAN
    /\ changes \in 0..MaxChanges

WifiInit ==
    /\ \E ns \in SUBSET WifiSids : wifis \in [ns -> [radio : Radios, off : BOOLEAN]]
    /\ radioOff \in SUBSET Radios
    /\ added = {} /\ chosen = {} /\ joined = FALSE
    /\ held = {n \in Networks : ~wifis[n].off /\ wifis[n].radio \in radioOff}
    /\ changes = 0

\* Another view.
NoWifi ==
    /\ wifis = <<>> /\ radioOff = {}
    /\ added = {} /\ chosen = {} /\ joined = FALSE /\ held = {}
    /\ changes = 0

\* next_free_sid(offset).
FreeSids(offset) == {n \in WifiSids \ Networks : n >= offset}
NextFreeSid(offset) == CHOOSE n \in FreeSids(offset) : \A k \in FreeSids(offset) : n <= k

Change(n, join) ==
    /\ changes < MaxChanges
    /\ changes' = changes + 1
    /\ chosen' = {n}
    /\ joined' = join
    /\ UNCHANGED held

\* Mutant: the radio is taken down with the first network that is disabled.
UpDownAlways(n) ==
    LET radio == wifis[n].radio IN
    IF wifis[n].off \/ radio \in radioOff
    THEN wifis' = [wifis EXCEPT ![n].off = FALSE] /\ radioOff' = radioOff \ {radio}
    ELSE wifis' = [wifis EXCEPT ![n].off = TRUE] /\ radioOff' = radioOff \cup {radio}

\* network_updown: the button turns around what the network is now.
UpDown(n) ==
    LET radio == wifis[n].radio IN
    IF wifis[n].off \/ radio \in radioOff
    THEN /\ wifis' = [wifis EXCEPT ![n].off = FALSE]
         /\ radioOff' = radioOff \ {radio}
    ELSE /\ wifis' = [wifis EXCEPT ![n].off = TRUE]
         /\ radioOff' = IF \A k \in On(radio) \ {n} : wifis[k].off
                        THEN radioOff \cup {radio} ELSE radioOff

\* The button of the row, or of the dialog of the section just added.
NetworkUpDown(n) ==
    /\ added \subseteq {n}
    /\ UpDown(n)
    /\ Change(n, FALSE)
    /\ UNCHANGED added

\* handleAdd; the new section's dialog opens.
HandleAdd(radio) ==
    LET n == NextFreeSid(Cardinality(Networks)) IN
    /\ added = {}
    /\ FreeSids(Cardinality(Networks)) # {}
    /\ wifis' = [k \in Networks \cup {n} |->
                  IF k = n THEN [radio |-> radio, off |-> FALSE] ELSE wifis[k]]
    /\ radioOff' = radioOff \ {radio}
    /\ added' = {n}
    /\ Change(n, FALSE)

\* The dialog is saved, or dismissed: then the section goes, and the radio
\* keeps what handleAdd made of it.
DialogSaved ==
    /\ added # {}
    /\ added' = {}
    /\ UNCHANGED <<wifis, radioOff, chosen, joined, held, changes>>

DialogDismissed ==
    /\ added # {}
    /\ wifis' = [k \in Networks \ added |-> wifis[k]]
    /\ added' = {}
    /\ UNCHANGED <<radioOff, chosen, joined, held, changes>>

\* handleJoinConfirm: the other networks of a radio that was down are disabled
\* one by one before it goes up; or all of them are replaced.  The name is
\* sought from the number of sections there were before.
HandleJoinConfirm(radio, replace) ==
    LET kept == IF replace THEN Networks \ On(radio) ELSE Networks
        free == {n \in WifiSids \ kept : n >= Cardinality(Networks)}
        new == CHOOSE n \in free : \A k \in free : n <= k
    IN
    /\ added = {}
    /\ free # {}
    /\ wifis' = [k \in kept \cup {new} |->
                  IF k = new THEN [radio |-> radio, off |-> FALSE]
                  ELSE IF radio \in radioOff /\ k \in On(radio)
                       THEN [wifis[k] EXCEPT !.off = TRUE] ELSE wifis[k]]
    /\ radioOff' = radioOff \ {radio}
    /\ Change(new, TRUE)
    /\ UNCHANGED added

HandleRemove(n) ==
    /\ added = {}
    /\ wifis' = [k \in Networks \ {n} |-> wifis[k]]
    /\ Change(n, FALSE)
    /\ UNCHANGED <<radioOff, added>>

WifiNext ==
    \/ \E n \in Networks : NetworkUpDown(n) \/ HandleRemove(n)
    \/ \E radio \in Radios : HandleAdd(radio)
    \/ \E radio \in Radios, replace \in BOOLEAN : HandleJoinConfirm(radio, replace)
    \/ DialogSaved \/ DialogDismissed

WifiSpec == WifiInit /\ [][WifiNext]_wifiVars

-----------------------------------------------------------------------------
(* Properties.                                                             *)

\* A radio that is down holds only networks that were held by it at first:
\* while the page works a radio goes down after all of its networks.
HeldAtFirst ==
    \A n \in Networks : ~wifis[n].off /\ wifis[n].radio \in radioOff => n \in held

\* A network comes up only if the user has chosen it; the exceptions are those
\* that nothing but their radio held down when the page was opened, which come
\* up with the radio, though never when another network is joined.
ComesUpOnlyIfChosen ==
    \A n \in WifiSids : ~Up(n) /\ Up(n)' => n \in chosen' \/ (n \in held /\ ~joined')
OnlyChosenComeUp == [][ComesUpOnlyIfChosen]_wifiVars
=============================================================================
