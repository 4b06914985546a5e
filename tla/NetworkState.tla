---------------------------- MODULE NetworkState ----------------------------
(***************************************************************************)
(* network.js: what it knows of the device, which it reads by several      *)
(* calls and then shares, and how it finds a wireless network by one of    *)
(* its three names, of the section, of the interface that runs it, or      *)
(* "radio0.network2", its place among the sections of its radio.  The      *)
(* sections are edited while what is known of the device stays as it was   *)
(* read; some lookups read them by get(), others by sections(), which still *)
(* shows the networks of a section that has lost its last one.  Null is an *)
(* empty set.                                                              *)
(***************************************************************************)
EXTENDS Integers, FiniteSets, SequencesExt

CONSTANTS
    RadioOf,      \* of the wifi-iface sections that may exist
    ListSecs,     \* those whose networks are configured as a list
    Ifnames,      \* names that running networks get
    WlanIfnames,  \* those that look like it: iface_patterns_wireless
    Wired,        \* the other devices, VLANs and configured devices included
    NetConf,      \* of a network: its option device, the device that netifd
                  \* reports, and the bridge of an old "type bridge", as sets
    MaxSections,  \* bound: of them at a time
    MaxNews,      \* bound: changes of the device
    MaxAsks,      \* bound: times it is read
    MaxSectionEdits \* bound: edits of the sections

ASSUME IfnamesAssumption == WlanIfnames \subseteq Ifnames /\ Ifnames \cap Wired = {}
\* Networks are given wireless devices by an option of the wifi-iface sections
\* (Protocol.addDevice), all others by their own.
ASSUME DevicesAssumption ==
    /\ IsFiniteSet(Wired)
    /\ \A n \in DOMAIN NetConf : (NetConf[n].device \cup NetConf[n].bridge) \subseteq {<<"device", i, 0>> : i \in Wired}
ASSUME NetStateBounds == {MaxSections, MaxNews, MaxAsks, MaxSectionEdits} \subseteq Nat

VARIABLES
    order,     \* the wifi-iface sections, in the order of the configuration
    members,   \* which of them has which network in its option network
    inValues,  \* the same as state.values has it: not what was set since
    asList,    \* where the option is a list, not a string: of get(), of values
    newSecs,   \* the sections that were added
    running,   \* on the device: sections that netifd set up, with their ifnames
    netState,  \* _state: what was read of it, {} at first
    loads,     \* calls of initNetworkState that read; _init is the one not "listing"
    news, asks, sectionEdits \* history: news also dates what was read

netVars == <<order, members, inValues, asList, newSecs, running, netState, loads, news, asks, sectionEdits>>

WifiSecs == DOMAIN RadioOf

\* enumerateNetworks
NetworkNames == DOMAIN NetConf

IsWifiIfname(i) == i \in WlanIfnames

\* Names of the three kinds, and of wired devices.
Section(s) == <<"section", s, 0>>
Netid(radio, n) == <<"netid", radio, n>>
Dev(i) == <<"device", i, 0>>

\* What may run: a network that is down has no ifname, no two have the same.
Running == {f \in UNION {[S -> {{}} \cup {{i} : i \in Ifnames}] : S \in SUBSET WifiSecs} :
              \A s, t \in DOMAIN f : s # t => f[s] \cap f[t] = {}}

-----------------------------------------------------------------------------
(* Names.  RunsAs is _state.radios: sections that run, with their ifname.  *)

RunsAs == IF netState = {} THEN <<>> ELSE (CHOOSE k \in netState : TRUE).radios

\* The place of a section among those of its radio.
Place(i) == Cardinality({j \in 1..i : RadioOf[order[j]] = RadioOf[order[i]]})

\* Mutant: the sections of all radios are counted.
NetidOfAny(s) == {Netid(RadioOf[s], n) : n \in {i \in DOMAIN order : order[i] = s}}

\* getWifiNetidBySid
NetidBySid(s) == {Netid(RadioOf[s], Place(i)) : i \in {j \in DOMAIN order : order[j] = s}}

\* getWifiSidByNetid
SidByNetid(x) ==
    IF x[1] # "netid" THEN {}
    ELSE {order[i] : i \in {j \in DOMAIN order : RadioOf[order[j]] = x[2] /\ Place(j) = x[3]}}

\* getWifiStateBySid and getWifiStateByIfname, of which the section counts.
StateBySid(s) == DOMAIN RunsAs \cap ToSet(order) \cap {s}
StateByIfname(x) == {s \in DOMAIN RunsAs : \E i \in RunsAs[s] : x = Dev(i)}

SidByIfname(x) == IF SidByNetid(x) # {} THEN SidByNetid(x) ELSE StateByIfname(x)

\* WifiNetwork.getIfname
WifiNetwork(sids, netids, states) ==
    LET up == {Dev(i) : i \in UNION {RunsAs[s] : s \in states}}
    IN [sid |-> sids, netid |-> netids, ifname |-> IF up # {} THEN up ELSE netids]

LookupWifiNetwork(x) ==
    LET byNetid == SidByNetid(x)
        byIfname == StateByIfname(x)
        bySid == {s \in WifiSecs : x = Section(s)}
        netids(S) == UNION {NetidBySid(s) : s \in S}
    IN IF byNetid # {} THEN WifiNetwork(byNetid, {x}, UNION {StateBySid(s) : s \in byNetid})
       ELSE IF byIfname # {} THEN WifiNetwork(byIfname, netids(byIfname), byIfname)
       ELSE WifiNetwork(bySid, netids(bySid), UNION {StateBySid(s) : s \in bySid})

\* Device.getName; none for an interface whose section is gone
DeviceName(x) ==
    LET wif == SidByIfname(x)
        w == WifiNetwork(wif, UNION {NetidBySid(s) : s \in wif}, UNION {StateBySid(s) : s \in wif})
    IN IF wif = {} THEN {x} ELSE w.ifname

KnownDevs == UNION {k.netdevs : k \in netState}

\* Device.getType, as far as pages depend on it
DeviceType(x) ==
    IF \/ SidByIfname(x) # {}
       \/ x[1] = "device" /\ IsWifiIfname(x[2])
       \/ \E d \in KnownDevs : x = Dev(d.name) /\ d.wireless
    THEN "wifi" ELSE "other"

-----------------------------------------------------------------------------
(* Networks and devices.                                                   *)

\* The sections with a network, as get() answers, and as sections() lists them:
\* an option that is unset is listed as it is in values.
Of(n) == {s \in ToSet(order) : <<s, n>> \in members}
Emptied(s) == \A n \in NetworkNames : <<s, n>> \notin members
ListedWith(n) == Of(n) \cup {s \in ToSet(order) : Emptied(s) /\ <<s, n>> \in inValues}

\* getWifiNetidByNetname: the first section that lists the network in a string.
NetidByNetname(n) ==
    LET strings == {s \in ListedWith(n) : <<IF Emptied(s) THEN "values" ELSE "get", s>> \notin asList}
        first == {i \in DOMAIN order : order[i] \in strings /\ \A j \in 1..(i - 1) : order[j] \notin strings}
    IN UNION {NetidBySid(order[i]) : i \in first}

\* Protocol.getIfname, .containsDevice, .getDevice and .getDevices
GetIfname(n) == IF NetConf[n].ubus # {} THEN NetConf[n].ubus ELSE NetidByNetname(n)
ContainsDevice(n, x) ==
    x \in NetConf[n].bridge \cup NetConf[n].device \/ SidByIfname(x) \cap Of(n) # {}
GetDevice(n) ==
    IF NetConf[n].bridge # {} THEN NetConf[n].bridge
    ELSE IF NetConf[n].device # {} THEN NetConf[n].device ELSE NetidByNetname(n)
PortsOf(n) ==
    IF NetConf[n].bridge = {} THEN {}
    ELSE NetConf[n].device \cup UNION {NetidBySid(s) : s \in ListedWith(n)}

\* Device.getNetworks
NetworksOf(x) ==
    {n \in NetworkNames : \E d \in DeviceName(x) : ContainsDevice(n, d) \/ d \in GetIfname(n)}

\* getDevice, by the name of a device or of a section
DeviceNamed(x) ==
    IF \E d \in KnownDevs : x = Dev(d.name) THEN DeviceName(x)
    ELSE UNION {DeviceName(id) : id \in UNION {NetidBySid(s) : s \in {t \in ToSet(order) : x = Section(t)}}}

\* The devices of _state that getDevices lists as they are ...
Listed == {d \in KnownDevs : ~IsWifiIfname(d.name) /\ ~d.wireless}

\* ... and all, with each wireless network as "radio0.network1".
GetDevices == {Dev(d.name) : d \in Listed} \cup UNION {NetidBySid(s) : s \in ToSet(order)}

-----------------------------------------------------------------------------
(* initNetworkState: what it reads is shared until someone asks for more.  *)

NewLoad(id) == [id |-> id, listing |-> FALSE, overtaken |-> FALSE, got |-> {},
                radios |-> <<>>, netdevs |-> {}, at |-> [what \in {"radios", "netdevs"} |-> 0]]

\* Mutant: _init is not looked at.
MayLoadAlways == TRUE
MayLoad == \A l \in loads : l.listing

InitNetworkState(refresh) ==
    /\ netState = {} \/ refresh
    /\ MayLoad
    /\ asks < MaxAsks
    /\ asks' = asks + 1
    /\ loads' = {[l EXCEPT !.overtaken = TRUE] : l \in loads} \cup {NewLoad(asks)}
    /\ UNCHANGED <<order, members, inValues, asList, newSecs, running, netState, news, sectionEdits>>

FlushCache == InitNetworkState(TRUE)

\* getWirelessDevices and getNetworkDevices; what runs, or nothing if the first
\* fails (the second is taken to be answered)
Netdevs == {[name |-> i, wireless |-> FALSE] : i \in Wired}
           \cup {[name |-> i, wireless |-> TRUE] : i \in UNION {running[s] : s \in DOMAIN running}}

Answer(l, what, data) ==
    /\ what \notin l.got
    /\ loads' = (loads \ {l}) \cup {[l EXCEPT !.got = @ \cup {what}, ![what] = data,
                                              !.at[what] = news]}
    /\ UNCHANGED <<order, members, inValues, asList, newSecs, running, netState, news, asks, sectionEdits>>

Keep(l) == netState' = {[radios |-> l.radios, netdevs |-> l.netdevs, at |-> l.at]}

\* With all answers _init is null again.  Networks that run have hostapd asked
\* about them before the state is there.
DataHere(l) ==
    /\ ~l.listing
    /\ l.got = {"radios", "netdevs"}
    /\ IF \A s \in DOMAIN l.radios : l.radios[s] = {}
       THEN loads' = loads \ {l} /\ Keep(l)
       ELSE loads' = (loads \ {l}) \cup {[l EXCEPT !.listing = TRUE]} /\ UNCHANGED netState
    /\ UNCHANGED <<order, members, inValues, asList, newSecs, running, news, asks, sectionEdits>>

HostapdListed(l) ==
    /\ l.listing
    /\ loads' = loads \ {l}
    /\ Keep(l)
    /\ UNCHANGED <<order, members, inValues, asList, newSecs, running, news, asks, sectionEdits>>

\* Networks come up, under names that may have been another's, or go down.
WifiReconf ==
    /\ news < MaxNews
    /\ news' = news + 1
    /\ running' \in {f \in Running : DOMAIN f = DOMAIN running}
    /\ UNCHANGED <<order, members, inValues, asList, newSecs, netState, loads, asks, sectionEdits>>

-----------------------------------------------------------------------------
(* The pages edit the sections; they hold the names that they have shown.  *)

EditSections ==
    /\ sectionEdits < MaxSectionEdits
    /\ sectionEdits' = sectionEdits + 1
    /\ UNCHANGED <<running, netState, loads, news, asks>>

AddWifiSection(s, nets) ==
    /\ EditSections
    /\ netState # {}
    /\ s \notin ToSet(order) /\ Len(order) < MaxSections
    /\ order' = Append(order, s)
    /\ members' = members \cup {s} \X nets
    /\ newSecs' = newSecs \cup {s}
    /\ UNCHANGED <<inValues, asList>>

\* deleteWifiNetwork, with a name that finds the section
DeleteWifiSection(x) ==
    /\ EditSections
    /\ netState # {}
    /\ \E i \in DOMAIN order :
         /\ order[i] \in SidByIfname(x)
         /\ order' = RemoveAt(order, i)
         /\ members' = {m \in members : m[1] # order[i]}
         /\ inValues' = {m \in inValues : m[1] # order[i]}
         /\ asList' = {m \in asList : m[2] # order[i]}
         /\ newSecs' = newSecs \ {order[i]}

\* Protocol.addDevice, of a wireless network: a list stays one, an option that
\* is not there becomes a string.
JoinNetwork(n, x) ==
    /\ EditSections
    /\ netState # {}
    /\ \E s \in SidByIfname(x) \cap ToSet(order) : members' = members \cup {<<s, n>>}
    /\ UNCHANGED <<order, inValues, asList, newSecs>>

\* Protocol.deleteDevice: without networks the option is unset.
LeaveNetwork(n, x) ==
    /\ EditSections
    /\ netState # {}
    /\ \E s \in SidByIfname(x) \cap ToSet(order) :
         /\ members' = members \ {<<s, n>>}
         /\ asList' = asList \ IF Emptied(s)' THEN {<<"get", s>>} ELSE {}
    /\ UNCHANGED <<order, inValues, newSecs>>

\* get() of a section, with getWifiNetidBySid or a Device: what was set or unset
\* since goes into values.
GetSection(s) ==
    /\ s \in ToSet(order) \ newSecs
    /\ inValues' = {m \in inValues : m[1] # s} \cup {m \in members : m[1] = s}
    /\ asList' = {m \in asList : m # <<"values", s>>}
                  \cup IF <<"get", s>> \in asList THEN {<<"values", s>>} ELSE {}
    /\ UNCHANGED <<order, members, newSecs, running, netState, loads, news, asks, sectionEdits>>

-----------------------------------------------------------------------------

\* A page opens, with all sections in one network or in none; netifd has set up, or failed
\* to set up, what they describe.
NetInit ==
    /\ order \in {q \in BoundedSeq(WifiSecs, MaxSections) : IsInjective(q)}
    /\ \E n \in NetworkNames : members \in {{}, ToSet(order) \X {n}}
    /\ inValues = members /\ newSecs = {}
    /\ asList = {"get", "values"} \X {s \in ListSecs : \E n \in NetworkNames : <<s, n>> \in members}
    /\ running \in {f \in Running : DOMAIN f = ToSet(order)}
    /\ netState = {}
    /\ loads = {}
    /\ news = 0 /\ asks = 0 /\ sectionEdits = 0

\* Another view.
NoNetState ==
    /\ order = <<>> /\ members = {} /\ inValues = {} /\ asList = {} /\ newSecs = {}
    /\ running = <<>> /\ netState = {} /\ loads = {}
    /\ news = 0 /\ asks = 0 /\ sectionEdits = 0

\* Names that a page may have shown.
ShownNames == {Dev(i) : i \in Ifnames} \cup {Netid(RadioOf[s], n) : s \in WifiSecs, n \in 1..MaxSections}

NetNext ==
    \/ InitNetworkState(FALSE) \/ FlushCache
    \/ \E l \in loads :
         \/ DataHere(l) \/ HostapdListed(l)
         \/ \E data \in {running, <<>>} : Answer(l, "radios", data)
         \/ Answer(l, "netdevs", Netdevs)
    \/ WifiReconf
    \/ \E s \in WifiSecs, nets \in {{n} : n \in NetworkNames} : AddWifiSection(s, nets)
    \/ \E s \in WifiSecs : GetSection(s)
    \/ \E x \in ShownNames : DeleteWifiSection(x)
    \/ \E n \in NetworkNames, x \in ShownNames : JoinNetwork(n, x) \/ LeaveNetwork(n, x)

-----------------------------------------------------------------------------
(* Properties.                                                             *)

\* A configured network is found by each of its names, however old the state
\* is that the names come from; among devices it has one name, and is wireless.
FoundByAllNames ==
    \A s \in ToSet(order) :
      LET w == LookupWifiNetwork(Section(s)) IN
      /\ w.sid = {s} /\ w.netid = NetidBySid(s) /\ w.netid # {}
      /\ \A x \in w.netid \cup w.ifname :
           LookupWifiNetwork(x) = w /\ DeviceName(x) = w.ifname /\ DeviceType(x) = "wifi"
      /\ DeviceNamed(Section(s)) = w.ifname

\* No device is listed twice, once as itself and once as a wireless network, nor
\* listed as itself if it is wireless.
ListedOnce ==
    /\ Cardinality({DeviceName(x) : x \in GetDevices}) = Cardinality(GetDevices)
    /\ \A d \in Listed : DeviceType(Dev(d.name)) = "other"

\* A device that a network says it has says that it is in the network, unless it
\* has just been taken out of its last network and not been looked up since.
KnownBothWays ==
    \A n \in NetworkNames : \A x \in GetDevice(n) \cup PortsOf(n) :
      n \in NetworksOf(x) \/ \E s \in ListedWith(n) \ Of(n) : x \in NetidBySid(s)

NamesAgree == netState # {} => FoundByAllNames /\ ListedOnce /\ KnownBothWays

\* What is known of the device never becomes older: whoever asks again shares
\* the reading under way.  The exception is a reading that another one was
\* started behind, while it waited for hostapd: its state can come last.
StateAdvances ==
    [][\A k \in netState, m \in netState' :
         \/ k.at["radios"] <= m.at["radios"] /\ k.at["netdevs"] <= m.at["netdevs"]
         \/ \E l \in loads \ loads' : l.overtaken]_netVars
=============================================================================
