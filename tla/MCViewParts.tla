---------------------------- MODULE MCViewParts ----------------------------
(* Small instances of the parts: a field that offers two values, then one of *)
(* them and a third, and a fourth to type; a directory with a file in it and *)
(* one beside it; three rows, two of them alike in size, and pages with two  *)
(* groups of tabs, one and none; mount points and a swap entry among them; a *)
(* radio with bands of two channels; two radios; a provider for IPv4 only;   *)
(* networks and zones with a rule that refers to two networks, a wireless    *)
(* network and two zones; two wireless networks of a radio and one of        *)
(* another, with one interface to run on.                                    *)
EXTENDS ViewParts, TLC
CONSTANTS one, two, three, typed

MCPreset == <<one, two>>
MCMore == <<three, two>>
Several(o, cr) == [multiple |-> TRUE, optional |-> o, create |-> cr, list |-> FALSE]
MCKinds == {Combobox, ComboButton, DynamicList, [ComboButton EXCEPT !.optional = TRUE]}
           \cup {Several(o, cr) : o \in BOOLEAN, cr \in BOOLEAN}

CONSTANTS file1, file2, folder
MCDirOf == file1 :> "/" @@ folder :> "/" @@ file2 :> folder

CONSTANTS m1, m2, m3, w1
MCRowType == m1 :> "mount" @@ m2 :> "mount" @@ m3 :> "mount" @@ w1 :> "swap"
MCRowOrders == {<<m1, w1, m2, m3>>, <<m1, m2, w1>>, <<w1, m1, m2>>}

MCSortKey == [r \in 1..3 |-> "name" :> r @@ "size" :> IF r = 1 THEN 2 ELSE 1]
MCPages == "wireless" :> {"g", "h"} @@ "system" :> {"g"} @@ "status" :> {}

MCChannels == "2g" :> <<"1", "6">> @@ "5g" :> <<"36">> @@ "6g" :> <<"1">> @@ "60g" :> <<>>
MCRestricted == [b \in DOMAIN MCChannels |-> IF b = "5g" THEN 1 ELSE 0]
MCHtModes == "n" :> <<"HT20", "HT40">> @@ "ac" :> <<"VHT80">> @@ "ax" :> <<"HE20", "HE80">>
MCRadioConfs == [htmode : {"", "HT20", "HE80"}, band : {"", "5g", "6g"},
                 hwmode : {"", "11a", "11g"}, channel : {"auto", "36", "6"}]

CONSTANTS lan, wan, A, B, rule, ap, z1, z2
MCType == rule :> "rule" @@ ap :> "wifi" @@ z1 :> "zone" @@ z2 :> "zone"

CONSTANTS s0, s1, s2
MCRadioOf == s0 :> "radio0" @@ s1 :> "radio0" @@ s2 :> "radio1"
MCNetConf ==
    "lan" :> [device |-> {Dev("eth0")}, ubus |-> {Dev("br-lan")}, bridge |-> {Dev("br-lan")}]
    @@ "guest" :> [device |-> {}, ubus |-> {}, bridge |-> {}]

MCSymmetry ==
    Permutations({lan, wan}) \cup Permutations({A, B}) \cup Permutations({z1, z2})
    \cup Permutations({s0, s1})

ASSUME MCRadioAssumption == RadioUsable
=============================================================================
