------------------------------ MODULE NetConfig ------------------------------
(***************************************************************************)
(* Networks, firewall zones and the sections that refer to them, as        *)
(* network.js and firewall.js edit them for the pages Interfaces, Wireless *)
(* and Firewall.  References are names; nothing but these functions keeps  *)
(* them together.  What waits for a promise is a task.  Lists of networks  *)
(* are read as sections() shows them: one whose last network was taken     *)
(* away looks as it was loaded, until a save or a get() of its section.    *)
(***************************************************************************)
EXTENDS Naturals, FiniteSets

CONSTANTS
    Nets,       \* names of interfaces
    ZoneNames,  \* names of firewall zones
    NoName,     \* the name of a zone that has none; src or dest "any"
    Sids,       \* sections other than interfaces
    Type,       \* their types
    MaxLinks    \* bound: policies, references, kinds of leftovers, and promises
                \* waiting, all at a time

\* alias stands for route and route6 too, rule for rule6.
Types == {"alias", "rule", "ifstate", "dhcp", "wifi", "zone"}
ASSUME TypeAssumption == Type \in [Sids -> Types]
ASSUME NoNameAssumption == NoName \notin ZoneNames
ASSUME BoundsAssumption == MaxLinks \in Nat

SidsOf(t) == {s \in Sids : Type[s] = t}

\* The types whose sections go when their network goes.
Owned == {"alias", "rule", "ifstate", "dhcp"}
\* The types that renameNetwork looks at.
Followed == {"alias", "ifstate", "wifi"}

VARIABLES
    iface,      \* the sections of type interface
    wifi,       \* the sections of type wifi-iface
    refs,       \* which section refers to which network
    zones,      \* the sections of type zone, with their names
    policies,   \* rules (and redirects) and forwardings, with their two ends
    tasks,      \* what waits for a promise
    loaded,     \* the networks of wifi-iface sections in state.values
    creates,    \* those of them that were added since the last save
    newZone,    \* addedSection of the page Zones
    left        \* history: names that may be left in sections of a type, or
                \* as ends of policies

vars == <<iface, wifi, refs, zones, policies, tasks, loaded, creates, newZone, left>>

Ends == ZoneNames \cup {NoName}
Task == [op : {"clean", "cover", "assign", "join", "rename"},
         nets : SUBSET Nets, old : Ends, new : Ends]

TypeOK ==
    /\ iface \subseteq Nets
    /\ wifi \subseteq SidsOf("wifi")
    /\ refs \subseteq Sids \X Nets
    /\ zones \subseteq SidsOf("zone") \X Ends
    /\ \A y, z \in zones : y[1] = z[1] => y = z
    /\ policies \subseteq {"rule", "forwarding"} \X Ends \X Ends
    /\ tasks \subseteq Task
    /\ loaded \subseteq SidsOf("wifi") \X Nets
    /\ creates \subseteq SidsOf("wifi")
    /\ newZone \subseteq SidsOf("zone")
    /\ left \subseteq (Types \X Nets) \cup ({"policy"} \X ZoneNames)

Init ==
    /\ iface = {}
    /\ wifi = {}
    /\ refs = {}
    /\ zones = {}
    /\ policies = {}
    /\ tasks = {}
    /\ loaded = {}
    /\ creates = {}
    /\ newZone = {}
    /\ left = {}

RefersTo(n) == {r \in refs : r[2] = n}
RefsOf(s) == {r \in refs : r[1] = s}
ZonesNamed(x) == {z \in zones : z[2] = x}

\* The networks that sections() still lists although they were taken away.
StillListed == {r \in loaded : RefsOf(r[1]) = {}}

\* A section of this name exists (uci.add never takes such a name).
Present(s) == s \in {z[1] : z \in zones} \cup wifi \cup {r[1] : r \in refs}

Bounded == Cardinality(policies') + Cardinality(refs') + Cardinality(left')
             + Cardinality(tasks') <= MaxLinks

Later(t) == tasks' = tasks \cup {t}
Done(t) == tasks' = tasks \ {t}

AsLoaded == UNCHANGED <<loaded, creates, newZone>>

-----------------------------------------------------------------------------
(* network.js                                                              *)

\* addNetwork; a name that is taken is refused.
AddNetwork(n) ==
    /\ n \notin iface
    /\ iface' = iface \cup {n}
    /\ AsLoaded
    /\ UNCHANGED <<wifi, refs, zones, policies, tasks, left>>

\* The lists of wireless networks are written anew as sections() has them: names
\* come back although there may be no such network.
BroughtBack(nets) == {"wifi"} \X ({r[2] : r \in StillListed} \ nets)

\* The name of a network, where sections of these types have it.
Overlooked(n, types) == ({Type[r[1]] : r \in RefersTo(n)} \cap types) \X {n}

\* Mutant: the lists of wireless networks are left alone.
SurvivesOwned(r, n) == Type[r[1]] \in Owned => <<r[1], n>> \notin refs

\* What deleteNetwork leaves in place: not the sections that exist for the
\* network, nor its name in the list of a wireless network.  Zones come later.
Survives(r, n) ==
    /\ Type[r[1]] \in Owned => <<r[1], n>> \notin refs
    /\ Type[r[1]] = "wifi" => r[2] # n

\* deleteNetwork; firewall.js may be missing.
DeleteNetwork(n) ==
    /\ n \in iface
    /\ iface' = iface \ {n}
    /\ refs' = {r \in refs \cup StillListed : Survives(r, n)}
    /\ \/ /\ Later([op |-> "clean", nets |-> {n}, old |-> NoName, new |-> NoName])
          /\ left' = left \cup BroughtBack(iface)
       \/ /\ left' = left \cup BroughtBack(iface) \cup Overlooked(n, {"zone"})
          /\ UNCHANGED tasks
    /\ AsLoaded
    /\ UNCHANGED <<wifi, zones, policies>>

\* renameNetwork: dhcp pools, rules and zones keep the old name.
RenameNetwork(old, new) ==
    /\ old \in iface
    /\ new \notin iface
    /\ iface' = (iface \ {old}) \cup {new}
    /\ refs' = {IF r[2] = old /\ Type[r[1]] \in Followed THEN <<r[1], new>> ELSE r :
                  r \in refs \cup StillListed}
    /\ left' = left \cup BroughtBack(iface \cup {new}) \cup Overlooked(old, Types \ Followed)
    /\ AsLoaded
    /\ UNCHANGED <<wifi, zones, policies, tasks>>

\* A page adds a section for networks that it offers in a list.
AddSection(s, ns) ==
    /\ ~Present(s)
    /\ Type[s] \in Owned
    /\ ns # {} /\ ns \subseteq iface
    /\ Type[s] # "rule" => Cardinality(ns) = 1
    /\ refs' = refs \cup {s} \X ns
    /\ AsLoaded
    /\ UNCHANGED <<iface, wifi, zones, policies, tasks, left>>

AddWifiNetwork(s, ns) ==
    /\ s \in SidsOf("wifi") \ wifi
    /\ ns \subseteq iface
    /\ wifi' = wifi \cup {s}
    /\ refs' = refs \cup {s} \X ns
    /\ creates' = creates \cup {s}
    /\ UNCHANGED <<iface, zones, policies, tasks, loaded, newZone, left>>

DeleteWifiNetwork(s) ==
    /\ s \in wifi
    /\ wifi' = wifi \ {s}
    /\ refs' = refs \ RefsOf(s)
    /\ loaded' = {r \in loaded : r[1] # s}
    /\ creates' = creates \ {s}
    /\ UNCHANGED <<iface, zones, policies, tasks, newZone, left>>

\* Protocol.addDevice and deleteDevice with a wireless network.
AddDevice(n, s) ==
    /\ n \in iface /\ s \in wifi
    /\ refs' = refs \cup {<<s, n>>}
    /\ AsLoaded
    /\ UNCHANGED <<iface, wifi, zones, policies, tasks, left>>

DeleteDevice(n, s) ==
    /\ n \in iface /\ s \in wifi
    /\ refs' = refs \ {<<s, n>>}
    /\ AsLoaded
    /\ UNCHANGED <<iface, wifi, zones, policies, tasks, left>>

\* A page looks a wireless network up by a name: getWifiNetidBySid reads the
\* whole section, which makes the values that were loaded those of now.
LookUpWifi(s) ==
    /\ s \in wifi \ creates
    /\ loaded' = {r \in loaded : r[1] # s} \cup RefsOf(s)
    /\ UNCHANGED <<iface, wifi, refs, zones, policies, tasks, creates, newZone, left>>

-----------------------------------------------------------------------------
(* firewall.js                                                             *)

\* Zone.addNetwork: only what is configured.
Joined(s, ns) == {s} \X (ns \cap iface)

\* deleteZone, on the page Zones.  A zone without a name takes along every
\* policy that names no source or no destination.
DeleteZone(z) ==
    /\ z \in zones
    /\ zones' = zones \ {z}
    /\ refs' = refs \ RefsOf(z[1])
    /\ policies' = {p \in policies : p[2] # z[2] /\ p[3] # z[2]}
    /\ newZone' = newZone \ {z[1]}
    /\ UNCHANGED <<iface, wifi, tasks, loaded, creates, left>>

\* Mutant: a rename looks at sources only.
RenamedSource(x, old, new) == [x EXCEPT ![2] = IF @ = old THEN new ELSE @]

\* x is a zone, or a policy.
Renamed(x, old, new) == [i \in DOMAIN x |-> IF i > 1 /\ x[i] = old THEN new ELSE x[i]]

\* renameZone; a name that is taken is refused.
RenameZone(t) ==
    /\ t.op = "rename"
    /\ Done(t)
    /\ IF ZonesNamed(t.new) # {} \/ ZonesNamed(t.old) = {}
       THEN UNCHANGED <<zones, policies>>
       ELSE /\ zones' = {Renamed(z, t.old, t.new) : z \in zones}
            /\ policies' = {Renamed(p, t.old, t.new) : p \in policies}
    /\ AsLoaded
    /\ UNCHANGED <<iface, wifi, refs, left>>

\* firewall.deleteNetwork, after network.deleteNetwork, of all zones.
Clean(t) ==
    /\ t.op = "clean"
    /\ Done(t)
    /\ refs' = {r \in refs : ~(r[2] \in t.nets /\ r[1] \in {z[1] : z \in zones})}
    /\ AsLoaded
    /\ UNCHANGED <<iface, wifi, zones, policies, left>>

-----------------------------------------------------------------------------
(* The dialogs of the pages Zones and Interfaces.                          *)

\* "Add" on the page Zones opens the dialog for a zone that has no name yet.
NewZone(s) ==
    /\ ~Present(s)
    /\ Type[s] = "zone"
    /\ newZone = {}
    /\ zones' = zones \cup {<<s, NoName>>}
    /\ newZone' = {s}
    /\ UNCHANGED <<iface, wifi, refs, policies, tasks, loaded, creates, left>>

\* The option "name": the first name is written at once, without asking whether
\* it is taken; another one is left to renameZone.
SaveName(z, name) ==
    /\ z \in zones
    /\ z[2] # name
    /\ IF z[2] = NoName
       THEN zones' = (zones \ {z}) \cup {<<z[1], name>>} /\ UNCHANGED tasks
       ELSE /\ Later([op |-> "rename", nets |-> {}, old |-> z[2], new |-> name])
            /\ UNCHANGED zones
    /\ AsLoaded
    /\ UNCHANGED <<iface, wifi, refs, policies, left>>

\* The option "network".
SaveNetworks(z, ns) ==
    /\ z \in zones
    /\ z[2] # NoName
    /\ {<<z[1], n>> : n \in ns} # RefsOf(z[1])
    /\ IF ns = {} THEN refs' = refs \ RefsOf(z[1]) /\ UNCHANGED tasks
       ELSE /\ Later([op |-> "cover", nets |-> ns, old |-> z[2], new |-> NoName])
            /\ UNCHANGED refs
    /\ AsLoaded
    /\ UNCHANGED <<iface, wifi, zones, policies, left>>

\* Its networks are created where they do not exist ...
CreateCovered(t) ==
    /\ t.op = "cover"
    /\ tasks' = (tasks \ {t}) \cup {[t EXCEPT !.op = "join"]}
    /\ iface' = iface \cup t.nets
    /\ AsLoaded
    /\ UNCHANGED <<wifi, refs, zones, policies, left>>

\* ... and become those of the first zone of that name.
JoinCovered(t) ==
    /\ t.op = "join"
    /\ Done(t)
    /\ \/ ZonesNamed(t.old) = {} /\ UNCHANGED refs
       \/ \E z \in ZonesNamed(t.old) :
            refs' = (refs \ RefsOf(z[1])) \cup Joined(z[1], t.nets)
    /\ AsLoaded
    /\ UNCHANGED <<iface, wifi, zones, policies, left>>

\* The options "out" and "in": the forwardings from or to the zone become those
\* that are chosen, out of the other zones.
SaveForwards(z, out, chosen) ==
    /\ z \in zones
    /\ z[2] # NoName
    /\ chosen \subseteq {y[2] : y \in zones} \ {z[2], NoName}
    /\ LET mine == {p \in policies : /\ p[1] = "forwarding"
                                     /\ p[IF out THEN 2 ELSE 3] = z[2]}
       IN policies' = (policies \ mine) \cup
             {<<"forwarding", IF out THEN z[2] ELSE x, IF out THEN x ELSE z[2]>> : x \in chosen}
    /\ AsLoaded
    /\ UNCHANGED <<iface, wifi, refs, zones, tasks, left>>

\* The dialog of a new zone is dismissed: the section goes, but not what a save
\* that was refused has written for its name before it came to a bad field.
DismissZone(z) ==
    /\ z \in zones
    /\ z[1] \in newZone
    /\ zones' = zones \ {z}
    /\ refs' = refs \ RefsOf(z[1])
    /\ left' = left \cup {"policy"} \X {x \in ZoneNames : /\ x = z[2] /\ ZonesNamed(x) = {z}
                                                        /\ \E p \in policies : x \in {p[2], p[3]}}
    /\ newZone' = {}
    /\ UNCHANGED <<iface, wifi, policies, tasks, loaded, creates>>

\* Pages that edit rules and redirects offer the names of zones, and "any".
AddRule(src, dest) ==
    /\ {src, dest} \subseteq {z[2] : z \in zones} \cup {NoName}
    /\ policies' = policies \cup {<<"rule", src, dest>>}
    /\ AsLoaded
    /\ UNCHANGED <<iface, wifi, refs, zones, tasks, left>>

\* The firewall zone in the dialog of an interface, once its old zone and the
\* new one have been looked up.
ChooseZone(n, name) ==
    /\ n \in iface
    /\ Later([op |-> "assign", nets |-> {n}, old |-> NoName, new |-> name])
    /\ AsLoaded
    /\ UNCHANGED <<iface, wifi, refs, zones, policies, left>>

\* It leaves one zone and joins another, which is created if need be.  What
\* sections() lists with it may be a zone that it was the last to leave: here
\* any zone without networks.
AssignZone(t) ==
    /\ t.op = "assign"
    /\ Done(t)
    /\ LET covering == {z \in zones : \E n \in t.nets : <<z[1], n>> \in refs}
           empty == {z \in zones : RefsOf(z[1]) = {}} IN
       \E old \in {{z} : z \in covering \cup empty} \cup IF covering = {} THEN {{}} ELSE {} :
         LET gone == {r \in refs : r[1] \in {z[1] : z \in old} /\ r[2] \in t.nets}
             same == \E z \in old : z[2] = t.new
         IN
         \/ /\ t.new = NoName
            /\ refs' = refs \ gone
            /\ UNCHANGED zones
         \/ /\ t.new # NoName
            /\ \E z \in ZonesNamed(t.new) :
                 refs' = IF same THEN refs ELSE (refs \ gone) \cup Joined(z[1], t.nets)
            /\ UNCHANGED zones
         \/ /\ t.new # NoName
            /\ ZonesNamed(t.new) = {}
            /\ \E s \in SidsOf("zone") :
                 /\ ~Present(s)
                 /\ zones' = zones \cup {<<s, t.new>>}
                 /\ refs' = (refs \ gone) \cup Joined(s, t.nets)
    /\ AsLoaded
    /\ UNCHANGED <<iface, wifi, policies, left>>

\* A page or a dialog is saved, and the configuration loaded again.  A save may
\* be refused, so that more edits come before the next.
SaveAll ==
    /\ creates' = {}
    /\ newZone' = {}
    /\ loaded' = {r \in refs : Type[r[1]] = "wifi"}
    /\ UNCHANGED <<iface, wifi, refs, zones, policies, tasks, left>>

-----------------------------------------------------------------------------

NetworkStep ==
    \E n \in Nets :
      \/ AddNetwork(n) \/ DeleteNetwork(n)
      \/ \E m \in Nets : RenameNetwork(n, m)
      \/ \E s \in SidsOf("wifi") : AddDevice(n, s) \/ DeleteDevice(n, s)
      \/ \E x \in Ends : ChooseZone(n, x)

SectionStep ==
    \/ \E s \in Sids : NewZone(s) \/ DeleteWifiNetwork(s) \/ LookUpWifi(s)
    \/ \E s \in Sids, ns \in SUBSET Nets : AddSection(s, ns) \/ AddWifiNetwork(s, ns)

ZoneStep ==
    \/ \E z \in zones :
         \/ DeleteZone(z) \/ DismissZone(z)
         \/ \E x \in ZoneNames : SaveName(z, x)
         \/ \E ns \in SUBSET Nets : SaveNetworks(z, ns)
         \/ \E out \in BOOLEAN, chosen \in SUBSET ZoneNames : SaveForwards(z, out, chosen)
    \/ \E x, y \in Ends : AddRule(x, y)
    \/ SaveAll

TaskStep == \E t \in tasks :
    RenameZone(t) \/ Clean(t) \/ CreateCovered(t) \/ JoinCovered(t) \/ AssignZone(t)

Next == (NetworkStep \/ SectionStep \/ ZoneStep \/ TaskStep) /\ Bounded

Spec == Init /\ [][Next]_vars

-----------------------------------------------------------------------------
(* Properties.                                                             *)

Pending(n) == \E t \in tasks : t.op = "clean" /\ n \in t.nets

\* Nothing refers to a network that does not exist, in whatever order the pages
\* edit: but a zone, until it has been cleaned, those sections that renameNetwork
\* overlooks, and wireless networks that are given back names which had been
\* taken away from them.
RefsResolve ==
    \A r \in refs :
      \/ r[2] \in iface
      \/ Type[r[1]] = "zone" /\ Pending(r[2])
      \/ <<Type[r[1]], r[2]>> \in left

\* The ends of a rule, redirect or forwarding are zones that exist, or was a new
\* zone that was dismissed after a refused save.
PoliciesResolve ==
    \A p \in policies : \A e \in {p[2], p[3]} :
      e \in {z[2] : z \in zones} \cup {NoName} \/ <<"policy", e>> \in left

\* Both: what the pages of networks and of zones leave behind, in whatever order
\* their edits take effect, refers to networks and zones that exist, but for
\* the named leftovers.  (deleteNetwork, renameNetwork, Zone.addNetwork,
\* deleteZone and renameZone of network.js and firewall.js.)
NothingDangles == RefsResolve /\ PoliciesResolve
=============================================================================
