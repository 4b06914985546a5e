----------------------------- MODULE ViewParts -----------------------------
(***************************************************************************)
(* Parts of views that keep a state of their own and do not touch each     *)
(* other's: the list fields, file fields, tables and tabs of ui.js, the    *)
(* rows of form.js that can be dragged, the radios and the frequency       *)
(* selects of the wireless page, the page "Dynamic DNS", the networks and  *)
(* zones behind the network pages, and what network.js knows of the        *)
(* device.  A behaviour works with one of them, chosen at the start; the   *)
(* others stay as they are.                                                *)
(***************************************************************************)
EXTENDS Dropdown, FileBrowser, ViewState, RowOrder, WifiConfig, WifiFrequency, DdnsPage,
        NetConfig, NetworkState

VARIABLE part     \* the part of the page that is in use

Parts ==
    {"field", "file", "view", "rows", "radios", "frequency", "ddns", "networks", "devices"}

\* Init and Next are those of NetConfig, whose initial state is empty.
PartsInit ==
    /\ part \in Parts
    /\ IF part = "field" THEN FieldInit ELSE NoField
    /\ IF part = "file" THEN FileInit ELSE NoFileField
    /\ IF part = "view" THEN ViewInit ELSE NoView
    /\ IF part = "rows" THEN RowsInit ELSE NoRows
    /\ IF part = "radios" THEN WifiInit ELSE NoWifi
    /\ IF part = "frequency" THEN FreqInit ELSE NoFreq
    /\ IF part = "ddns" THEN DdnsInit ELSE NoDdns
    /\ IF part = "devices" THEN NetInit ELSE NoNetState
    /\ Init

PartsNext ==
    /\ UNCHANGED part
    /\ \/ /\ part = "field" /\ FieldNext
          /\ UNCHANGED <<fileVars, viewVars, rowVars, wifiVars, freqVars, ddnsVars, vars, netVars>>
       \/ /\ part = "file" /\ FileNext
          /\ UNCHANGED <<fieldVars, viewVars, rowVars, wifiVars, freqVars, ddnsVars, vars, netVars>>
       \/ /\ part = "view" /\ ViewNext
          /\ UNCHANGED <<fieldVars, fileVars, rowVars, wifiVars, freqVars, ddnsVars, vars, netVars>>
       \/ /\ part = "rows" /\ RowsNext
          /\ UNCHANGED <<fieldVars, fileVars, viewVars, wifiVars, freqVars, ddnsVars, vars, netVars>>
       \/ /\ part = "radios" /\ WifiNext
          /\ UNCHANGED <<fieldVars, fileVars, viewVars, rowVars, freqVars, ddnsVars, vars, netVars>>
       \/ /\ part = "frequency" /\ FreqNext
          /\ UNCHANGED <<fieldVars, fileVars, viewVars, rowVars, wifiVars, ddnsVars, vars, netVars>>
       \/ /\ part = "ddns" /\ DdnsNext
          /\ UNCHANGED <<fieldVars, fileVars, viewVars, rowVars, wifiVars, freqVars, vars, netVars>>
       \/ /\ part = "networks" /\ Next
          /\ UNCHANGED <<fieldVars, fileVars, viewVars, rowVars, wifiVars, freqVars, ddnsVars, netVars>>
       \/ /\ part = "devices" /\ NetNext
          /\ UNCHANGED <<fieldVars, fileVars, viewVars, rowVars, wifiVars, freqVars, ddnsVars, vars>>

PartsSpec == PartsInit /\ [][PartsNext]_<<part, fieldVars, fileVars, viewVars, rowVars, wifiVars, freqVars, ddnsVars, vars, netVars>>

\* What a field for several values or for a file hands to the form is what it
\* shows.
ShownIsHeld == FieldIsSelection /\ FileIsShown

=============================================================================
