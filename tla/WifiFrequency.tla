--------------------------- MODULE WifiFrequency ---------------------------
(***************************************************************************)
(* The four selects "Mode", "Band", "Channel" and "Width" of a radio       *)
(* (CBIWifiFrequencyValue of wireless.js).  Each choice exchanges the      *)
(* lists of the selects after it; a list remembers, as an index of its     *)
(* own, what was selected when another took its place.                     *)
(***************************************************************************)
EXTENDS Naturals, SequencesExt

CONSTANTS
    Acs,         \* hostapd can choose the channel: "auto" is offered
    Channels,    \* per band: its channels, those that may be used
    Restricted,  \* per band: how many channels more it has that may not be used
    HtModes,     \* per mode but the legacy one: widths that the radio has
    HwModes,     \* modes that it has, "" is the legacy mode
    RadioConfs,  \* what the configuration may say of the radio
    MaxPicks     \* bound: choices the user makes

ASSUME PicksAssumption ==
    /\ MaxPicks \in Nat
    /\ "" \in HwModes /\ HwModes \subseteq {"", "n", "ac", "ax"}
    /\ DOMAIN Channels = {"2g", "5g", "6g", "60g"}
    /\ \A b \in DOMAIN Channels : Channels[b] \in Seq(Range(Channels[b]) \ {"", "nothing"})
    /\ Restricted \in [DOMAIN Channels -> Nat]
    /\ \A m \in HwModes \ {""} : HtModes[m] \in Seq(Range(HtModes[m]) \ {"", "nothing"})

VARIABLES
    freq,      \* the selects: value and list of each, and what lists remember
    conf,      \* the wifi-device section
    useBand,   \* useBandOption
    last,      \* history: what the user last saw selected in each list
    lost,      \* history: a band was saved that a legacy "hwmode" cannot say
    picks      \* history: choices so far

freqVars == <<freq, conf, useBand, last, lost, picks>>

-----------------------------------------------------------------------------
(* load: the lists.                                                        *)

\* Three entries of the list for each channel, usable or not; "auto" is one.
Entries(band) == 3 * (Len(Channels[band]) + Restricted[band]) + (IF Acs /\ band # "60g" THEN 3 ELSE 0)
Offered(band) == IF Entries(band) > 3 THEN <<band>> ELSE <<>>

Bands(mode) ==
    CASE mode = "" -> Offered("2g") \o Offered("5g")
                      \o (IF Entries("60g") > 0 THEN <<"60g">> ELSE <<>>)
      [] mode = "n" -> Offered("2g") \o Offered("5g")
      [] mode = "ac" -> <<"5g">>
      [] mode = "ax" -> Offered("2g") \o Offered("5g") \o Offered("6g")
Chans(band) == (IF Acs /\ band # "60g" THEN <<"auto">> ELSE <<>>) \o Channels[band]
Widths(mode) == IF mode = "" THEN <<"">> ELSE HtModes[mode]

\* A list is known by its select and by what it belongs to.
Options(l) ==
    CASE l[1] = "band" -> Bands(l[2]) [] l[1] = "htmode" -> Widths(l[2])
      [] l[1] = "channel" -> Chans(l[2])
Lists == {"band", "htmode"} \X HwModes \cup {"channel"} \X DOMAIN Channels
NoList == <<"", "">>
Nothing == "nothing"

Selects == {"band", "htmode", "channel"}

-----------------------------------------------------------------------------
(* setValues and its callers; f has value, list and memory of the selects. *)

\* Mutant: only lists of bands remember.
RememberBand(f, select) ==
    IF select # "band" \/ f.list[select] = NoList THEN f.memory
    ELSE [f.memory EXCEPT ![f.list[select]] = f.value[select]]

\* sel.vals.selected of the list that goes.
Remember(f, select) ==
    IF f.list[select] = NoList THEN f.memory
    ELSE [f.memory EXCEPT ![f.list[select]] = f.value[select]]

SetValues(f, select, list) ==
    LET m == Remember(f, select)
        v == IF list \notin Lists THEN ""
             ELSE IF m[list] # Nothing THEN m[list]
             ELSE IF Options(list) = <<>> THEN "" ELSE Options(list)[1]
    IN [f EXCEPT !.memory = m, !.value[select] = v,
                 !.list[select] = IF list \in Lists THEN list ELSE NoList]

ToggleWifiChannel(f) == SetValues(f, "channel", <<"channel", f.value.band>>)
ToggleWifiBand(f) == ToggleWifiChannel(SetValues(f, "band", <<"band", f.mode>>))
ToggleWifiHTMode(f) == SetValues(f, "htmode", <<"htmode", f.mode>>)
ToggleWifiMode(f) == ToggleWifiBand(ToggleWifiHTMode(f))

\* select.value = v: a value without an option selects nothing.
Assigned(f, select, v) ==
    [f EXCEPT !.value[select] =
        IF f.list[select] # NoList /\ Contains(Options(f.list[select]), v) THEN v ELSE ""]

ModeOf(ht) ==
    CASE ht \in {"HE20", "HE40", "HE80", "HE160"} -> "ax"
      [] ht \in {"VHT20", "VHT40", "VHT80", "VHT160"} -> "ac"
      [] ht \in {"HT20", "HT40"} -> "n" [] OTHER -> ""

\* setInitialValues, for the configuration c.
SetInitialValues(c) ==
    LET mode == IF ModeOf(c.htmode) \in HwModes THEN ModeOf(c.htmode) ELSE ""
        f == ToggleWifiMode([mode |-> mode, value |-> [s \in Selects |-> ""],
                 list |-> [s \in Selects |-> NoList], memory |-> [l \in Lists |-> Nothing]])
        g == ToggleWifiBand(Assigned(f, "band",
                 IF c.hwmode = "11a" THEN "5g" ELSE IF c.hwmode # "" THEN "2g" ELSE c.band))
        ch == IF c.channel # "" THEN c.channel
              ELSE IF Chans(g.value.band) # <<>> THEN Chans(g.value.band)[1] ELSE "auto"
    IN Assigned(Assigned(g, "htmode", c.htmode), "channel", ch)

\* write
Written(f) ==
    [htmode |-> f.value.htmode,
     band |-> IF useBand THEN f.value.band ELSE conf.band,
     hwmode |-> IF useBand THEN conf.hwmode
                ELSE IF f.value.band = "2g" THEN "11g" ELSE "11a",
     channel |-> f.value.channel]

\* A radio that can be set up in each of its modes: it has a channel in a band
\* of the mode, and the widths that it has in a mode name that mode.
RadioUsable ==
    \A m \in HwModes :
      /\ Bands(m) # <<>> /\ \A b \in Range(Bands(m)) : Chans(b) # <<>>
      /\ Widths(m) # <<>> /\ \A h \in Range(Widths(m)) : ModeOf(h) = m

-----------------------------------------------------------------------------
IsShown(f, l) == \E s \in Selects : f.list[s] = l
Shown(f, h) == [l \in Lists |-> IF IsShown(f, l) THEN f.value[l[1]] ELSE h[l]]
Unseen == [l \in Lists |-> Nothing]
\* A list that shows up for the first time.
FirstShown(f, h) == [l \in Lists |-> IF h[l] = Nothing THEN Shown(f, h)[l] ELSE h[l]]

FreqTypeOK ==
    /\ freq.mode \in HwModes
    /\ \A s \in Selects : freq.list[s] \in Lists \cup {NoList}
    /\ {useBand, lost} \subseteq BOOLEAN
    /\ picks \in 0..MaxPicks

\* A radio whose configuration is one that the radio itself supports.
Supported(c) ==
    LET mode == ModeOf(c.htmode)
        band == IF c.hwmode = "11a" THEN "5g" ELSE IF c.hwmode # "" THEN "2g" ELSE c.band IN
    /\ mode \in HwModes /\ Contains(Widths(mode), c.htmode)
    /\ Contains(Bands(mode), band)
    /\ Contains(Chans(band), c.channel)

FreqInit ==
    /\ conf \in {c \in RadioConfs : Supported(c)}
    /\ useBand = (conf.hwmode = "")
    /\ freq = SetInitialValues(conf)
    /\ last = Shown(freq, Unseen)
    /\ lost = FALSE
    /\ picks = 0

\* Another view.
NoFreq ==
    /\ conf = [htmode |-> "", band |-> "", hwmode |-> "", channel |-> ""]
    /\ useBand = FALSE
    /\ freq = [mode |-> "", list |-> [s \in Selects |-> NoList]]
    /\ last = Unseen
    /\ lost = TRUE
    /\ picks = 0

\* The user selects; the handler of the select exchanges the lists after it.
Shows(f, h) ==
    /\ picks < MaxPicks
    /\ picks' = picks + 1
    /\ freq' = f
    /\ last' = FirstShown(f, h)
    /\ UNCHANGED <<conf, useBand, lost>>
Picked(s, v) == [last EXCEPT ![freq.list[s]] = v]

PickMode ==
    \E m \in HwModes \ {freq.mode} :
        Shows(ToggleWifiMode([freq EXCEPT !.mode = m]), last)
PickBand ==
    \E b \in Range(Options(freq.list["band"])) \ {freq.value.band} :
        Shows(ToggleWifiBand([freq EXCEPT !.value.band = b]), Picked("band", b))
PickOther ==
    \E s \in {"htmode", "channel"} : freq.list[s] # NoList /\
      \E v \in Range(Options(freq.list[s])) \ {freq.value[s]} :
        Shows([freq EXCEPT !.value[s] = v], Picked(s, v))

\* The dialog is saved, and opened again.
SaveFrequency ==
    /\ picks < MaxPicks
    /\ picks' = picks + 1
    /\ conf' = Written(freq)
    /\ freq' = SetInitialValues(conf')
    /\ last' = FirstShown(freq', Shown(freq, Unseen))
    /\ lost' = (lost \/ (~useBand /\ freq.value.band \in {"6g", "60g"}))
    /\ UNCHANGED useBand

FreqNext == PickMode \/ PickBand \/ PickOther \/ SaveFrequency

-----------------------------------------------------------------------------
(* Properties.                                                             *)

\* The selects always show one setting that the radio supports, mode, band,
\* channel and width together, however they exchange their lists; a list that
\* comes back, comes back with what the user last saw selected in it; and a
\* dialog that is saved and opened again shows what was saved.  (Not so once a
\* band of 6 or 60 GHz was saved to a legacy "hwmode", which becomes "11a".)
FrequencyKept ==
    lost \/
    /\ freq.list["band"] = <<"band", freq.mode>>
    /\ freq.list["htmode"] = <<"htmode", freq.mode>>
    /\ freq.list["channel"] = <<"channel", freq.value.band>>
    /\ \A s \in Selects :
          /\ Contains(Options(freq.list[s]), freq.value[s])
          /\ freq.value[s] = last[freq.list[s]]
=============================================================================
