---------------------------- MODULE Config_proofs ----------------------------
(***************************************************************************)
(* The configuration in the browser: one section with its edits, the       *)
(* references between networks, zones and policies, and the radios with    *)
(* their networks; for any number of options, networks, zones, sections    *)
(* and radios, and any sequence of changes.                                *)
(***************************************************************************)
EXTENDS NetConfig, WifiConfig, UciDelta, WellFoundedInduction, TLAPS

-----------------------------------------------------------------------------
(* One section.                                                            *)

\* The edits and the whole-section read keep a section well formed: no option
\* is ever both changed and deleted (uci.js set(), get()).
THEOREM DeltaKept ==
    ASSUME NEW s \in Delta, NEW o \in Opts, NEW val \in Vals
    PROVE  Set(s, o, val) \in Delta /\ Unset(s, o) \in Delta /\ GetAll(s) \in Delta
<1> USE NoneAssumption DEF Delta, Options
<1>1. Set(s, o, val) \in Delta
  BY DEF Set
<1>2. Unset(s, o) \in Delta
  BY DEF Unset
<1>3. GetAll(s) \in Delta
  BY DEF GetAll, Seen, Get
<1>4. QED
  BY <1>1, <1>2, <1>3

\* get() right after set() or unset() shows the edit, and nothing else of the
\* section has changed (uci.js get(conf, sid, opt) against set()).
THEOREM EditsAreSeen ==
    ASSUME NEW s \in Delta, NEW o \in Opts, NEW val \in Vals
    PROVE  /\ Seen(Set(s, o, val)) = [Seen(s) EXCEPT ![o] = val]
           /\ Seen(Unset(s, o)) = [Seen(s) EXCEPT ![o] = None]
<1> USE NoneAssumption DEF Delta, Options, Seen, Get
<1>1. Seen(Set(s, o, val)) = [Seen(s) EXCEPT ![o] = val]
  BY DEF Set
<1>2. Seen(Unset(s, o)) = [Seen(s) EXCEPT ![o] = None]
  BY DEF Unset
<1>3. QED
  BY <1>1, <1>2

\* What sections() lists differs from what get() answers in the options that are
\* pending deletion and were loaded, and in no others (uci.js sections() against
\* get(conf, sid, opt)).
THEOREM ListedIsSeenOrDeleted ==
    ASSUME NEW s \in Delta, NEW o \in Opts
    PROVE  Listed(s)[o] # Seen(s)[o] <=> o \in s.d /\ s.v[o] # None
BY NoneAssumption DEF Delta, Options, Listed, Seen, Get

\* Reading a whole section, which changes the loaded values in place, does not
\* change what get() answers for an option; but it does change what sections()
\* lists, which comes to be the same: a listing before it may show options that
\* one after it does not (uci.js get(conf, sid)).
THEOREM ReadShowsSame ==
    ASSUME NEW s \in Delta
    PROVE  Seen(GetAll(s)) = Seen(s) /\ Listed(GetAll(s)) = Seen(s)
BY NoneAssumption DEF Delta, Options, Seen, Get, GetAll, Listed

\* As long as the loaded values are those of the server, the deletions and
\* changes that save() sends turn the section into what get() answers, and into
\* what sections() lists but for the options that are pending deletion; the
\* hypothesis is what a whole-section read breaks.
THEOREM SavedIsSeen ==
    ASSUME NEW options \in Options, NEW s \in Delta, s.v = options
    PROVE  /\ Saved(s, options) = Seen(s)
           /\ \A o \in Opts \ s.d : Saved(s, options)[o] = Listed(s)[o]
BY NoneAssumption DEF Delta, Options, Seen, Get, Saved, Listed

\* set() and unset() keep the loaded values, so the hypothesis of SavedIsSeen
\* lasts from load() through every edit.
THEOREM EditsKeepLoaded ==
    ASSUME NEW s \in Delta, NEW o \in Opts, NEW val \in Vals
    PROVE  Set(s, o, val).v = s.v /\ Unset(s, o).v = s.v
BY DEF Delta, Options, Set, Unset

\* With whole-section reads the hypothesis of SavedIsSeen is gone, but a weaker
\* one lasts from load() through every edit and read ...
THEOREM FaithfulKept ==
    ASSUME NEW options \in Options, NEW s \in Delta, Faithful(s, options),
           NEW o \in Opts, NEW val \in Vals
    PROVE  /\ Faithful(Loaded(options), options)
           /\ Faithful(Set(s, o, val), options)
           /\ Faithful(Unset(s, o), options)
           /\ Faithful(GetAll(s), options)
<1> USE NoneAssumption DEF Delta, Options, Faithful
<1>1. Faithful(Loaded(options), options)
  BY DEF Loaded
<1>2. Faithful(Set(s, o, val), options)
  BY DEF Set
<1>3. Faithful(Unset(s, o), options)
  BY DEF Unset
<1>4. Faithful(GetAll(s), options)
  BY DEF GetAll, Seen, Get
<1>5. QED
  BY <1>1, <1>2, <1>3, <1>4

\* ... and it is enough for every value that get() answers or, but for pending
\* deletions, sections() lists, to be what save() leaves on the server (uci.js
\* save()).
THEOREM ShownValueSaved ==
    ASSUME NEW options \in Options, NEW s \in Delta, Faithful(s, options), NEW o \in Opts
    PROVE  /\ Get(s, o) # None => Saved(s, options)[o] = Get(s, o)
           /\ Listed(s)[o] # None /\ o \notin s.d => Saved(s, options)[o] = Listed(s)[o]
BY NoneAssumption DEF Delta, Options, Get, Saved, Faithful, Listed

-----------------------------------------------------------------------------
(* References between networks, zones and policies.                         *)

USE TypeAssumption, NoNameAssumption DEF SidsOf

\* The state stays of its type.
LEMMA TypeStep == TypeOK /\ [Next]_vars => TypeOK'
<1>. SUFFICES ASSUME TypeOK, [Next]_vars PROVE TypeOK'
  OBVIOUS
<1>. USE DEF TypeOK, Task, Ends, AsLoaded
<1>1. CASE NetworkStep
  <2>1. ASSUME NEW n \in Nets, AddNetwork(n) PROVE TypeOK'
    BY <2>1 DEF AddNetwork
  <2>2. ASSUME NEW n \in Nets, DeleteNetwork(n) PROVE TypeOK'
    <3>1. tasks' \subseteq Task
      BY <2>2 DEF DeleteNetwork, Later
    <3>2. refs' \subseteq Sids \X Nets
      BY <2>2 DEF DeleteNetwork, StillListed
    <3>3. left' \subseteq left \cup Types \X Nets
      BY <2>2 DEF DeleteNetwork, BroughtBack, Overlooked, StillListed, RefersTo, Types
    <3>4. UNCHANGED <<wifi, zones, policies, loaded, creates, newZone>> /\ iface' \subseteq iface
      BY <2>2 DEF DeleteNetwork, AsLoaded
    <3>. QED BY <3>1, <3>2, <3>3, <3>4
  <2>3. ASSUME NEW n \in Nets, NEW m \in Nets, RenameNetwork(n, m) PROVE TypeOK'
    <3>1. refs' \subseteq Sids \X Nets
      BY <2>3 DEF RenameNetwork, StillListed
    <3>2. left' \subseteq left \cup Types \X Nets
      BY <2>3 DEF RenameNetwork, BroughtBack, Overlooked, StillListed, RefersTo, Types
    <3>3. UNCHANGED <<wifi, zones, policies, tasks, loaded, creates, newZone>> /\ iface' \subseteq Nets
      BY <2>3 DEF RenameNetwork, AsLoaded
    <3>. QED BY <3>1, <3>2, <3>3
  <2>4. ASSUME NEW n \in Nets, NEW s \in SidsOf("wifi"), AddDevice(n, s) \/ DeleteDevice(n, s)
        PROVE TypeOK'
    BY <2>4 DEF AddDevice, DeleteDevice
  <2>5. ASSUME NEW n \in Nets, NEW x \in Ends, ChooseZone(n, x) PROVE TypeOK'
    BY <2>5 DEF ChooseZone, Later
  <2>. QED BY <1>1, <2>1, <2>2, <2>3, <2>4, <2>5 DEF NetworkStep
<1>2. CASE SectionStep
  <2>1. ASSUME NEW s \in Sids, NewZone(s) PROVE TypeOK'
    BY <2>1 DEF NewZone, Present
  <2>2. ASSUME NEW s \in Sids, DeleteWifiNetwork(s) \/ LookUpWifi(s) PROVE TypeOK'
    BY <2>2 DEF DeleteWifiNetwork, LookUpWifi, RefsOf
  <2>3. ASSUME NEW s \in Sids, NEW ns \in SUBSET Nets, AddSection(s, ns) \/ AddWifiNetwork(s, ns)
        PROVE TypeOK'
    BY <2>3 DEF AddSection, AddWifiNetwork
  <2>. QED BY <1>2, <2>1, <2>2, <2>3 DEF SectionStep
<1>3. CASE ZoneStep
  <2>1. ASSUME NEW z \in zones, DeleteZone(z) \/ DismissZone(z) PROVE TypeOK'
    BY <2>1 DEF DeleteZone, DismissZone
  <2>2. ASSUME NEW z \in zones, NEW x \in ZoneNames, SaveName(z, x) PROVE TypeOK'
    BY <2>2 DEF SaveName, Later
  <2>3. ASSUME NEW z \in zones, NEW ns \in SUBSET Nets, SaveNetworks(z, ns) PROVE TypeOK'
    BY <2>3 DEF SaveNetworks, Later
  <2>4. ASSUME NEW z \in zones, NEW out \in BOOLEAN, NEW picked \in SUBSET ZoneNames,
               SaveForwards(z, out, picked)
        PROVE TypeOK'
    <3>1. z[2] \in Ends
      OBVIOUS
    <3>2. policies' \subseteq {"rule", "forwarding"} \X Ends \X Ends
      BY <2>4, <3>1 DEF SaveForwards
    <3>. QED BY <2>4, <3>2 DEF SaveForwards
  <2>5. ASSUME NEW x \in Ends, NEW y \in Ends, AddRule(x, y) PROVE TypeOK'
    BY <2>5 DEF AddRule
  <2>6. ASSUME SaveAll PROVE TypeOK'
    BY <2>6 DEF SaveAll
  <2>. QED BY <1>3, <2>1, <2>2, <2>3, <2>4, <2>5, <2>6 DEF ZoneStep
<1>4. CASE TaskStep
  <2>1. ASSUME NEW t \in tasks, RenameZone(t) PROVE TypeOK'
    <3>1. \A z \in zones : Renamed(z, t.old, t.new) \in SidsOf("zone") \X Ends
      BY DEF Renamed
    <3>2. \A p \in policies : Renamed(p, t.old, t.new) \in {"rule", "forwarding"} \X Ends \X Ends
      BY DEF Renamed
    <3>3. \A z \in zones : Renamed(z, t.old, t.new)[1] = z[1]
      BY DEF Renamed
    <3>. QED BY <2>1, <3>1, <3>2, <3>3 DEF RenameZone, Done
  <2>2. ASSUME NEW t \in tasks, Clean(t) PROVE TypeOK'
    BY <2>2 DEF Clean, Done
  <2>3. ASSUME NEW t \in tasks, CreateCovered(t) PROVE TypeOK'
    BY <2>3 DEF CreateCovered
  <2>4. ASSUME NEW t \in tasks, JoinCovered(t) PROVE TypeOK'
    BY <2>4 DEF JoinCovered, Done, Joined, ZonesNamed, RefsOf
  <2>5. ASSUME NEW t \in tasks, AssignZone(t) PROVE TypeOK'
    <3>1. refs' \subseteq Sids \X Nets
      BY <2>5 DEF AssignZone, Joined, ZonesNamed, RefsOf
    <3>2. /\ zones' \subseteq SidsOf("zone") \X Ends
          /\ \A y, z \in zones' : y[1] = z[1] => y = z
      BY <2>5 DEF AssignZone, Present
    <3>. QED BY <2>5, <3>1, <3>2 DEF AssignZone, Done
  <2>. QED BY <1>4, <2>1, <2>2, <2>3, <2>4, <2>5 DEF TaskStep
<1>5. CASE UNCHANGED vars
  BY <1>5 DEF vars
<1>. QED BY <1>1, <1>2, <1>3, <1>4, <1>5 DEF Next

\* TypeOK holds in every state, whatever the pages edit.
THEOREM TypeCorrect == Spec => []TypeOK
<1>1. Init => TypeOK
  BY DEF Init, TypeOK
<1>. QED BY <1>1, TypeStep, PTL DEF Spec

-----------------------------------------------------------------------------

\* The networks of a zone go with it.
ZoneRefs == \A r \in refs : Type[r[1]] = "zone" => r[1] \in {z[1] : z \in zones}

RInv == TypeOK /\ ZoneRefs /\ RefsResolve

\* References to networks resolve, or are excused, after every step.
LEMMA RefsStep == RInv /\ [Next]_vars => RInv'
<1>. SUFFICES ASSUME RInv, [Next]_vars PROVE ZoneRefs' /\ RefsResolve'
  BY TypeStep DEF RInv
<1>. USE DEF RInv, TypeOK, Ends, Task, ZoneRefs, RefsResolve, Pending, RefsOf
<1>1. CASE NetworkStep
  <2>1. ASSUME NEW n \in Nets, AddNetwork(n) PROVE ZoneRefs' /\ RefsResolve'
    BY <2>1 DEF AddNetwork
  <2>2. ASSUME NEW n \in Nets, DeleteNetwork(n) PROVE ZoneRefs' /\ RefsResolve'
    <3>1. \A r \in refs' : /\ r \in refs \/ r \in StillListed
                           /\ r[2] = n => Type[r[1]] = "zone"
      BY <2>2 DEF DeleteNetwork, Survives, Owned, Types, StillListed
    <3>2. \A m \in Nets : m \in iface /\ m # n => m \in iface'
      BY <2>2 DEF DeleteNetwork
    <3>3. tasks \subseteq tasks' /\ left \subseteq left' /\ BroughtBack(iface) \subseteq left'
      BY <2>2 DEF DeleteNetwork, Later
    <3>4. \/ Overlooked(n, {"zone"}) \subseteq left'
          \/ \E t \in tasks' : t.op = "clean" /\ n \in t.nets
      <4>. DEFINE c == [op |-> "clean", nets |-> {n}, old |-> NoName, new |-> NoName]
      <4>1. c.op = "clean" /\ n \in c.nets
        OBVIOUS
      <4>2. c \in tasks' \/ Overlooked(n, {"zone"}) \subseteq left'
        BY <2>2 DEF DeleteNetwork, Later
      <4>. HIDE DEF c
      <4>. QED BY <4>1, <4>2
    <3>5. \A r \in StillListed : Type[r[1]] = "wifi" /\ r[2] \in Nets
      BY DEF StillListed
    <3>6. \A r \in StillListed : r[2] \in iface \/ <<Type[r[1]], r[2]>> \in left'
      BY <3>3, <3>5 DEF BroughtBack
    <3>7. \A r \in refs : r[2] = n /\ Type[r[1]] = "zone" =>
                             <<Type[r[1]], r[2]>> \in Overlooked(n, {"zone"})
      BY DEF Overlooked, RefersTo
    <3>8. ZoneRefs'
      BY <2>2, <3>1, <3>5 DEF DeleteNetwork
    <3>9. ASSUME NEW r \in refs'
          PROVE \/ r[2] \in iface'
                \/ Type[r[1]] = "zone" /\ Pending(r[2])'
                \/ <<Type[r[1]], r[2]>> \in left'
      <4>0. r \in refs \/ r \in StillListed
        BY <3>1, <3>9
      <4>1. CASE r \in StillListed
        BY <4>1, <3>1, <3>2, <3>5, <3>6
      <4>2. CASE r \in refs /\ r[2] = n
        BY <4>2, <3>1, <3>4, <3>7
      <4>3. CASE r \in refs /\ r[2] # n
        BY <4>3, <3>2, <3>3
      <4>. QED BY <4>0, <4>1, <4>2, <4>3
    <3>. QED BY <3>8, <3>9
  <2>3. ASSUME NEW n \in Nets, NEW m \in Nets, RenameNetwork(n, m)
        PROVE ZoneRefs' /\ RefsResolve'
    <3>1. \A r \in StillListed : Type[r[1]] = "wifi" /\ r[2] \in Nets
      BY DEF StillListed
    <3>2. \A r \in refs' : \/ r[2] = m /\ Type[r[1]] # "zone"
                           \/ r \in refs \cup StillListed /\ r[2] # n
                           \/ r \in refs /\ r[2] = n /\ Type[r[1]] \in Types \ Followed
      BY <2>3, <3>1 DEF RenameNetwork, Followed
    <3>3. /\ iface \ {n} \subseteq iface' /\ m \in iface'
          /\ UNCHANGED <<zones, tasks>>
          /\ left \subseteq left'
          /\ BroughtBack(iface \cup {m}) \subseteq left'
          /\ Overlooked(n, Types \ Followed) \subseteq left'
      BY <2>3 DEF RenameNetwork
    <3>4. \A r \in StillListed : r[2] \in iface \/ r[2] = m \/ <<Type[r[1]], r[2]>> \in left'
      BY <3>1, <3>3 DEF BroughtBack
    <3>5. \A r \in refs : r[2] = n /\ Type[r[1]] \in Types \ Followed =>
                             <<Type[r[1]], r[2]>> \in left'
      BY <3>3 DEF Overlooked, RefersTo
    <3>6. \A r \in refs' : Type[r[1]] = "zone" => r \in refs
      BY <3>1, <3>2
    <3>7. ZoneRefs'
      BY <3>3, <3>6
    <3>8. ASSUME NEW r \in refs'
          PROVE \/ r[2] \in iface'
                \/ Type[r[1]] = "zone" /\ Pending(r[2])'
                \/ <<Type[r[1]], r[2]>> \in left'
      <4>1. CASE r[2] = m
        BY <4>1, <3>3
      <4>2. CASE r \in StillListed /\ r[2] # n
        BY <4>2, <3>3, <3>4
      <4>3. CASE r \in refs /\ r[2] # n
        BY <4>3, <3>3
      <4>4. CASE r \in refs /\ r[2] = n /\ Type[r[1]] \in Types \ Followed
        BY <4>4, <3>5
      <4>. QED BY <3>2, <4>1, <4>2, <4>3, <4>4
    <3>. QED BY <3>7, <3>8
  <2>4. ASSUME NEW n \in Nets, NEW s \in SidsOf("wifi"), AddDevice(n, s) \/ DeleteDevice(n, s)
        PROVE ZoneRefs' /\ RefsResolve'
    BY <2>4 DEF AddDevice, DeleteDevice
  <2>5. ASSUME NEW n \in Nets, NEW x \in Ends, ChooseZone(n, x) PROVE ZoneRefs' /\ RefsResolve'
    BY <2>5 DEF ChooseZone, Later
  <2>. QED BY <1>1, <2>1, <2>2, <2>3, <2>4, <2>5 DEF NetworkStep
<1>2. CASE SectionStep
  <2>1. ASSUME NEW s \in Sids, NewZone(s) PROVE ZoneRefs' /\ RefsResolve'
    BY <2>1 DEF NewZone
  <2>2. ASSUME NEW s \in Sids, DeleteWifiNetwork(s) \/ LookUpWifi(s)
        PROVE ZoneRefs' /\ RefsResolve'
    BY <2>2 DEF DeleteWifiNetwork, LookUpWifi
  <2>3. ASSUME NEW s \in Sids, NEW ns \in SUBSET Nets, AddSection(s, ns) \/ AddWifiNetwork(s, ns)
        PROVE ZoneRefs' /\ RefsResolve'
    BY <2>3 DEF AddSection, AddWifiNetwork, Owned
  <2>. QED BY <1>2, <2>1, <2>2, <2>3 DEF SectionStep
<1>3. CASE ZoneStep
  <2>1. ASSUME NEW z \in zones, DeleteZone(z) \/ DismissZone(z) PROVE ZoneRefs' /\ RefsResolve'
    BY <2>1 DEF DeleteZone, DismissZone
  <2>2. ASSUME NEW z \in zones, NEW x \in ZoneNames, SaveName(z, x)
        PROVE ZoneRefs' /\ RefsResolve'
    <3>1. \A y \in zones : \E w \in zones' : w[1] = y[1]
      <4>1. <<z[1], x>>[1] = z[1]
        OBVIOUS
      <4>. QED BY <2>2, <4>1 DEF SaveName
    <3>2. tasks \subseteq tasks' /\ UNCHANGED <<refs, iface, left>>
      BY <2>2 DEF SaveName, Later
    <3>. QED BY <3>1, <3>2
  <2>3. ASSUME NEW z \in zones, NEW ns \in SUBSET Nets, SaveNetworks(z, ns)
        PROVE ZoneRefs' /\ RefsResolve'
    BY <2>3 DEF SaveNetworks, Later
  <2>4. ASSUME NEW z \in zones, NEW out \in BOOLEAN, NEW picked \in SUBSET ZoneNames,
               SaveForwards(z, out, picked)
        PROVE ZoneRefs' /\ RefsResolve'
    BY <2>4 DEF SaveForwards
  <2>5. ASSUME NEW x \in Ends, NEW y \in Ends, AddRule(x, y) PROVE ZoneRefs' /\ RefsResolve'
    BY <2>5 DEF AddRule
  <2>6. ASSUME SaveAll PROVE ZoneRefs' /\ RefsResolve'
    BY <2>6 DEF SaveAll
  <2>. QED BY <1>3, <2>1, <2>2, <2>3, <2>4, <2>5, <2>6 DEF ZoneStep
<1>4. CASE TaskStep
  <2>1. ASSUME NEW t \in tasks, RenameZone(t) PROVE ZoneRefs' /\ RefsResolve'
    <3>1. \A z \in zones : Renamed(z, t.old, t.new)[1] = z[1]
      BY DEF Renamed
    <3>2. \A z \in zones : \E y \in zones' : y[1] = z[1]
      BY <2>1, <3>1 DEF RenameZone
    <3>. QED BY <2>1, <3>2 DEF RenameZone, Done
  <2>2. ASSUME NEW t \in tasks, Clean(t) PROVE ZoneRefs' /\ RefsResolve'
    <3>1. \A r \in refs' : r \in refs /\ (Type[r[1]] = "zone" => r[2] \notin t.nets)
      BY <2>2 DEF Clean
    <3>2. \A q \in tasks : q # t => q \in tasks'
      BY <2>2 DEF Clean, Done
    <3>. QED BY <2>2, <3>1, <3>2 DEF Clean
  <2>3. ASSUME NEW t \in tasks, CreateCovered(t) PROVE ZoneRefs' /\ RefsResolve'
    BY <2>3 DEF CreateCovered
  <2>4. ASSUME NEW t \in tasks, JoinCovered(t) PROVE ZoneRefs' /\ RefsResolve'
    <3>1. \A r \in refs' : r \in refs \/ (r[1] \in {z[1] : z \in zones} /\ r[2] \in iface)
      BY <2>4 DEF JoinCovered, Joined, ZonesNamed
    <3>2. \A q \in tasks : q.op = "clean" => q \in tasks'
      BY <2>4 DEF JoinCovered, Done
    <3>. QED BY <2>4, <3>1, <3>2 DEF JoinCovered
  <2>5. ASSUME NEW t \in tasks, AssignZone(t) PROVE ZoneRefs' /\ RefsResolve'
    <3>1. ASSUME NEW r \in refs', r \notin refs
          PROVE r[1] \in {z[1] : z \in zones'} /\ r[2] \in iface
      <4>1. CASE \E z \in ZonesNamed(t.new) : r \in Joined(z[1], t.nets) /\ zones' = zones
        BY <4>1 DEF Joined, ZonesNamed
      <4>2. ASSUME NEW s \in SidsOf("zone"), r \in Joined(s, t.nets),
                   zones' = zones \cup {<<s, t.new>>}
            PROVE  r[1] \in {z[1] : z \in zones'} /\ r[2] \in iface
        <5>1. <<s, t.new>>[1] = s /\ <<s, t.new>> \in zones'
          BY <4>2
        <5>. QED BY <4>2, <5>1 DEF Joined
      <4>. QED BY <2>5, <3>1, <4>1, <4>2 DEF AssignZone
    <3>2. \A q \in tasks : q.op = "clean" => q \in tasks'
      BY <2>5 DEF AssignZone, Done
    <3>3. zones \subseteq zones' /\ iface' = iface /\ left' = left
      BY <2>5 DEF AssignZone
    <3>. QED BY <3>1, <3>2, <3>3
  <2>. QED BY <1>4, <2>1, <2>2, <2>3, <2>4, <2>5 DEF TaskStep
<1>5. CASE UNCHANGED vars
  BY <1>5 DEF vars
<1>. QED BY <1>1, <1>2, <1>3, <1>4, <1>5 DEF Next

\* Whatever is edited in whatever order, a section refers to networks that
\* exist, or to one that its zone is about to be cleaned of, or by a name that
\* deleteNetwork or renameNetwork left there or brought back.
THEOREM ReferencesResolve == Spec => []RefsResolve
<1>1. Init => RInv
  BY DEF Init, RInv, TypeOK, ZoneRefs, RefsResolve
<1>2. RInv => RefsResolve
  BY DEF RInv
<1>. QED BY <1>1, <1>2, RefsStep, PTL DEF Spec

-----------------------------------------------------------------------------

PInv == TypeOK /\ PoliciesResolve

\* What the end of a policy may be.
Known == {z[2] : z \in zones} \cup {NoName} \cup {e \in ZoneNames : <<"policy", e>> \in left}

\* PoliciesResolve says that the ends of policies are among them.
LEMMA KnownEnds ==
    TypeOK => (PoliciesResolve <=> \A p \in policies : {p[2], p[3]} \subseteq Known)
<1>. SUFFICES ASSUME TypeOK
              PROVE  PoliciesResolve <=> \A p \in policies : {p[2], p[3]} \subseteq Known
  OBVIOUS
<1>1. \A p \in policies : p[2] \in Ends /\ p[3] \in Ends
  BY DEF TypeOK
<1>2. \A e \in Ends : e \in Known <=>
        e \in {z[2] : z \in zones} \cup {NoName} \/ <<"policy", e>> \in left
  BY DEF Known, Ends, TypeOK
<1>. QED BY <1>1, <1>2 DEF PoliciesResolve

\* A step that keeps the names of zones and adds no policies with other ends
\* keeps them so.
LEMMA KeepsEnds ==
    ASSUME PInv, left \subseteq left',
           \A z \in zones : \E y \in zones' : y[2] = z[2],
           \A p \in policies' : p \in policies \/ {p[2], p[3]} \subseteq Known
    PROVE  PoliciesResolve'
<1>1. Known \subseteq Known'
  BY DEF Known
<1>2. \A p \in policies : {p[2], p[3]} \subseteq Known
  BY KnownEnds DEF PInv
<1>3. \A p \in policies' : {p[2], p[3]} \subseteq Known'
  BY <1>1, <1>2
<1>. QED BY <1>3 DEF PoliciesResolve, Known

\* The ends of policies are zones that exist, or excused, after every step.
LEMMA PoliciesStep == PInv /\ [Next]_vars => PInv'
<1>. SUFFICES ASSUME PInv, [Next]_vars PROVE PoliciesResolve'
  BY TypeStep DEF PInv
<1>1. CASE NetworkStep
  <2>1. zones' = zones /\ policies' = policies /\ left \subseteq left'
    BY <1>1 DEF NetworkStep, AddNetwork, DeleteNetwork, RenameNetwork, AddDevice, DeleteDevice,
                ChooseZone
  <2>. QED BY <2>1, KeepsEnds
<1>2. CASE SectionStep
  <2>1. zones \subseteq zones' /\ policies' = policies /\ left' = left
    BY <1>2 DEF SectionStep, NewZone, DeleteWifiNetwork, LookUpWifi, AddSection, AddWifiNetwork
  <2>. QED BY <2>1, KeepsEnds
<1>3. CASE ZoneStep
  <2>1. ASSUME NEW z \in zones, DeleteZone(z) PROVE PoliciesResolve'
    BY <2>1 DEF DeleteZone, PInv, PoliciesResolve
  <2>2. ASSUME NEW z \in zones, DismissZone(z) PROVE PoliciesResolve'
    <3>1. policies' = policies /\ left \subseteq left' /\ zones' = zones \ {z}
      BY <2>2 DEF DismissZone
    <3>2. \A e \in ZoneNames : e = z[2] /\ ZonesNamed(e) = {z}
                               /\ (\E q \in policies : e \in {q[2], q[3]})
                              => <<"policy", e>> \in left'
      BY <2>2 DEF DismissZone
    <3>3. ASSUME NEW p \in policies, NEW e \in {p[2], p[3]}
          PROVE  e \in {y[2] : y \in zones'} \cup {NoName} \/ <<"policy", e>> \in left'
      <4>1. e \in {y[2] : y \in zones} \cup {NoName} \/ <<"policy", e>> \in left
        BY <3>3 DEF PInv, PoliciesResolve
      <4>2. e \in Ends
        BY <3>3 DEF PInv, TypeOK
      <4>3. CASE e \in {y[2] : y \in zones} \ {y[2] : y \in zones'} /\ e # NoName
        <5>1. \A y \in zones : y[2] = e => y = z
          BY <4>3, <3>1
        <5>2. e = z[2] /\ ZonesNamed(e) = {z}
          BY <4>3, <5>1 DEF ZonesNamed
        <5>3. e \in ZoneNames
          BY <4>2, <4>3 DEF Ends
        <5>. QED BY <3>2, <3>3, <5>2, <5>3
      <4>. QED BY <3>1, <4>1, <4>3
    <3>. QED BY <3>1, <3>3 DEF PoliciesResolve
  <2>3. ASSUME NEW z \in zones, NEW x \in ZoneNames, SaveName(z, x) PROVE PoliciesResolve'
    <3>1. policies' = policies /\ left' = left
      BY <2>3 DEF SaveName
    <3>2. \A y \in zones : y[2] = NoName \/ y \in zones'
      BY <2>3 DEF SaveName
    <3>. QED BY <3>1, <3>2 DEF PInv, PoliciesResolve
  <2>4. ASSUME NEW z \in zones, NEW ns \in SUBSET Nets, SaveNetworks(z, ns)
        PROVE PoliciesResolve'
    BY <2>4 DEF SaveNetworks, PInv, PoliciesResolve
  <2>5. ASSUME NEW z \in zones, NEW out \in BOOLEAN, NEW picked \in SUBSET ZoneNames,
               SaveForwards(z, out, picked)
        PROVE PoliciesResolve'
    <3>1. \A p \in policies' : p \in policies \/ {p[2], p[3]} \subseteq {y[2] : y \in zones}
      BY <2>5 DEF SaveForwards
    <3>2. zones' = zones /\ left' = left
      BY <2>5 DEF SaveForwards
    <3>. QED BY <3>1, <3>2, KeepsEnds DEF Known
  <2>6. ASSUME NEW x \in Ends, NEW y \in Ends, AddRule(x, y) PROVE PoliciesResolve'
    <3>1. \A p \in policies' : p \in policies \/ {p[2], p[3]} \subseteq Known
      BY <2>6 DEF AddRule, Known
    <3>2. zones' = zones /\ left' = left
      BY <2>6 DEF AddRule
    <3>. QED BY <3>1, <3>2, KeepsEnds
  <2>7. ASSUME SaveAll PROVE PoliciesResolve'
    BY <2>7 DEF SaveAll, PInv, PoliciesResolve
  <2>. QED BY <1>3, <2>1, <2>2, <2>3, <2>4, <2>5, <2>6, <2>7 DEF ZoneStep
<1>4. CASE TaskStep
  <2>1. ASSUME NEW t \in tasks, RenameZone(t) PROVE PoliciesResolve'
    <3>1. CASE ZonesNamed(t.new) # {} \/ ZonesNamed(t.old) = {}
      BY <2>1, <3>1 DEF RenameZone, PInv, PoliciesResolve
    <3>2. CASE ~(ZonesNamed(t.new) # {} \/ ZonesNamed(t.old) = {})
      <4>. DEFINE F(e) == IF e = t.old THEN t.new ELSE e
                  Names == {z[2] : z \in zones}
      <4>0. /\ \A z \in zones : z \in SidsOf("zone") \X Ends
            /\ \A p \in policies : p \in {"rule", "forwarding"} \X Ends \X Ends
        BY DEF PInv, TypeOK
      <4>1. \A z \in zones : Renamed(z, t.old, t.new)[2] = F(z[2])
        BY <4>0 DEF Renamed
      <4>2. \A p \in policies : /\ Renamed(p, t.old, t.new)[2] = F(p[2])
                               /\ Renamed(p, t.old, t.new)[3] = F(p[3])
        BY <4>0 DEF Renamed
      <4>3. /\ zones' = {Renamed(z, t.old, t.new) : z \in zones}
            /\ policies' = {Renamed(p, t.old, t.new) : p \in policies}
            /\ left' = left
        BY <2>1, <3>2 DEF RenameZone
      <4>4. \A e \in Names : F(e) \in {z[2] : z \in zones'}
        BY <4>1, <4>3
      <4>5. t.old \in Names
        BY <3>2 DEF ZonesNamed
      <4>6. \A p \in policies : \A e \in {p[2], p[3]} :
              e \in Names \/ e = NoName \/ <<"policy", e>> \in left
        BY DEF PInv, PoliciesResolve
      <4>7. \A e : e \in Names \/ e = NoName \/ <<"policy", e>> \in left =>
              \/ F(e) \in {z[2] : z \in zones'}
              \/ F(e) = NoName
              \/ <<"policy", F(e)>> \in left
        BY <4>4, <4>5
      <4>. HIDE DEF F, Names
      <4>8. \A p \in policies : \A e \in {F(p[2]), F(p[3])} :
              e \in {z[2] : z \in zones'} \cup {NoName} \/ <<"policy", e>> \in left'
        BY <4>3, <4>6, <4>7
      <4>9. \A q \in policies' : \E p \in policies : q[2] = F(p[2]) /\ q[3] = F(p[3])
        BY <4>2, <4>3
      <4>. QED BY <4>8, <4>9 DEF PoliciesResolve
    <3>. QED BY <3>1, <3>2
  <2>2. ASSUME NEW t \in tasks, Clean(t) \/ CreateCovered(t) \/ JoinCovered(t)
        PROVE PoliciesResolve'
    BY <2>2 DEF Clean, CreateCovered, JoinCovered, PInv, PoliciesResolve
  <2>3. ASSUME NEW t \in tasks, AssignZone(t) PROVE PoliciesResolve'
    <3>1. zones \subseteq zones' /\ policies' = policies /\ left' = left
      BY <2>3 DEF AssignZone
    <3>. QED BY <3>1, KeepsEnds
  <2>. QED BY <1>4, <2>1, <2>2, <2>3 DEF TaskStep
<1>5. CASE UNCHANGED vars
  BY <1>5 DEF vars, PInv, PoliciesResolve
<1>. QED BY <1>1, <1>2, <1>3, <1>4, <1>5 DEF Next

\* No rule, redirect or forwarding names a zone that does not exist, although
\* zones are renamed and deleted by name and two zones may have one name: but for
\* a new zone that is dismissed when a refused save has named it in forwardings.
THEOREM PolicyEndsResolve == Spec => []PoliciesResolve
<1>1. Init => PInv
  BY DEF Init, PInv, TypeOK, PoliciesResolve
<1>2. PInv => PoliciesResolve
  BY DEF PInv
<1>. QED BY <1>1, <1>2, PoliciesStep, PTL DEF Spec

\* The two together: after any edits of networks and zones, in whatever order
\* they take effect, what is left refers to what exists, but for these leftovers.
THEOREM NothingEverDangles == Spec => []NothingDangles
<1>1. RefsResolve /\ PoliciesResolve => NothingDangles
  BY DEF NothingDangles
<1>. QED BY <1>1, ReferencesResolve, PolicyEndsResolve, PTL

-----------------------------------------------------------------------------
(* The radios and their networks.  The invariant is HeldAtFirst: a radio    *)
(* that is down has no network under it that is enabled, but for those that *)
(* the page found so.  Without it a network that comes up with its radio    *)
(* could be one that the user never chose.                                  *)

USE SidsAssumption, ChangesAssumption

\* A set of numbers that has a member has a least one.
LEMMA SmallestOf ==
    ASSUME NEW S, S \subseteq Nat, S # {}
    PROVE  \E n \in S : \A k \in S : n <= k
<1>1. PICK n \in S : \A k \in S : ~ (<<k, n>> \in OpToRel(<, Nat))
  BY WFMin, NatLessThanWellFounded, Zenon
<1>2. \A k \in S : ~ (k < n)
  BY <1>1, Zenon DEF OpToRel
<1>. QED BY <1>2

\* The name that next_free_sid finds is free and not below the offset.
LEMMA FreshSid ==
    ASSUME NEW offset, FreeSids(offset) # {}
    PROVE  NextFreeSid(offset) \in WifiSids \ Networks
<1>1. \E n \in FreeSids(offset) : \A k \in FreeSids(offset) : n <= k
  <2>. FreeSids(offset) \subseteq Nat
    BY DEF FreeSids
  <2>. QED BY SmallestOf
<1>. QED BY <1>1 DEF FreeSids, NextFreeSid

Network == [radio : Radios, off : BOOLEAN]

\* Networks that are all of the type, over sections that may exist.
NetworksOK(w) == DOMAIN w \subseteq WifiSids /\ w = [n \in DOMAIN w |-> w[n]]
                 /\ \A n \in DOMAIN w : w[n] \in Network

\* The type invariant, with the networks' part in a form the steps keep.
LEMMA WellTyped ==
    WifiTypeOK <=> /\ NetworksOK(wifis)
                   /\ radioOff \subseteq Radios
                   /\ added \subseteq WifiSids /\ chosen \subseteq WifiSids /\ held \subseteq WifiSids
                   /\ joined \in BOOLEAN
                   /\ changes \in 0..MaxChanges
BY DEF WifiTypeOK, NetworksOK, Network

\* ... and back to a function into records.
LEMMA RecordsOf ==
    ASSUME NEW w, NetworksOK(w)
    PROVE  DOMAIN w \subseteq WifiSids /\ w \in [DOMAIN w -> [radio : Radios, off : BOOLEAN]]
BY DEF NetworksOK, Network

\* Writing one network's "disabled" leaves networks of the type.
LEMMA Switched ==
    ASSUME NEW n \in Networks, NetworksOK(wifis), NEW b \in BOOLEAN
    PROVE  /\ NetworksOK([wifis EXCEPT ![n].off = b])
           /\ DOMAIN [wifis EXCEPT ![n].off = b] = Networks
<1>1. [wifis[n] EXCEPT !.off = b] \in Network
  BY DEF NetworksOK, Networks, Network
<1>. QED BY <1>1 DEF NetworksOK, Networks

\* The button turns around one network and leaves the others; the radio's
\* "disabled" goes when the network comes up, and is set with its last network.
LEMMA Turned ==
    ASSUME NetworksOK(wifis), NEW n \in Networks, UpDown(n)
    PROVE  /\ NetworksOK(wifis') /\ DOMAIN wifis' = Networks
           /\ wifis'[n].radio = wifis[n].radio
           /\ \A k \in Networks \ {n} : wifis'[k] = wifis[k]
           /\ wifis[n].off \/ wifis[n].radio \in radioOff =>
                wifis'[n].off = FALSE /\ radioOff' = radioOff \ {wifis[n].radio}
           /\ ~(wifis[n].off \/ wifis[n].radio \in radioOff) =>
                /\ wifis'[n].off = TRUE
                /\ \/ radioOff' = radioOff
                   \/ /\ radioOff' = radioOff \cup {wifis[n].radio}
                      /\ \A k \in On(wifis[n].radio) \ {n} : wifis[k].off
<1>. DEFINE b == ~(wifis[n].off \/ wifis[n].radio \in radioOff)
<1>1. b \in BOOLEAN
  OBVIOUS
<1>2. wifis' = [wifis EXCEPT ![n].off = b]
  BY DEF UpDown
<1>7. b => \/ radioOff' = radioOff
           \/ /\ radioOff' = radioOff \cup {wifis[n].radio}
              /\ \A k \in On(wifis[n].radio) \ {n} : wifis[k].off
  BY DEF UpDown
<1>8. ~b => radioOff' = radioOff \ {wifis[n].radio}
  BY DEF UpDown
<1>. HIDE DEF b
<1>3. NetworksOK(wifis') /\ DOMAIN wifis' = Networks
  BY <1>1, <1>2, Switched
<1>4. wifis'[n] = [wifis[n] EXCEPT !.off = b] /\ wifis[n] \in Network
  BY <1>2 DEF NetworksOK, Networks
<1>5. wifis'[n].radio = wifis[n].radio /\ wifis'[n].off = b
  BY <1>4 DEF Network
<1>6. \A k \in Networks \ {n} : wifis'[k] = wifis[k]
  BY <1>2 DEF NetworksOK, Networks
<1>9. CASE b
  <2>1. b = TRUE
    BY <1>1, <1>9
  <2>2. ~(wifis[n].off \/ wifis[n].radio \in radioOff)
    BY <1>9 DEF b
  <2>. QED BY <2>1, <2>2, <1>3, <1>5, <1>6, <1>7, <1>9, Zenon
<1>10. CASE ~b
  <2>1. b = FALSE
    BY <1>1, <1>10
  <2>2. wifis[n].off \/ wifis[n].radio \in radioOff
    BY <1>10 DEF b
  <2>. QED BY <2>1, <2>2, <1>3, <1>5, <1>6, <1>8, <1>10, Zenon
<1>. QED BY <1>9, <1>10

\* The state stays of its type.
LEMMA WifiTypeStep == WifiTypeOK /\ [WifiNext]_wifiVars => WifiTypeOK'
<1>. SUFFICES ASSUME WifiTypeOK, [WifiNext]_wifiVars PROVE WifiTypeOK'
  OBVIOUS
<1>0. NetworksOK(wifis)
  BY WellTyped
<1>. USE DEF Networks
<1>1. ASSUME NEW n \in Networks, NetworkUpDown(n) PROVE WifiTypeOK'
  <2>1. NetworksOK(wifis')
    BY <1>0, <1>1, Turned DEF NetworkUpDown
  <2>2. radioOff' \subseteq Radios
    <3>1. wifis[n].radio \in Radios
      BY <1>0 DEF NetworksOK, Network
    <3>. QED BY <1>1, <3>1 DEF NetworkUpDown, UpDown, WifiTypeOK
  <2>3. UNCHANGED <<added, held>> /\ chosen' = {n} /\ joined' = FALSE /\ changes' \in 0..MaxChanges
    BY <1>1 DEF NetworkUpDown, Change, WifiTypeOK
  <2>4. n \in WifiSids
    BY <1>0 DEF NetworksOK
  <2>5. DOMAIN wifis' \subseteq WifiSids
        /\ wifis' \in [DOMAIN wifis' -> [radio : Radios, off : BOOLEAN]]
    BY <2>1, RecordsOf
  <2>. QED BY <2>2, <2>3, <2>4, <2>5 DEF WifiTypeOK
<1>2. ASSUME NEW n \in Networks, HandleRemove(n) PROVE WifiTypeOK'
  <2>1. NetworksOK(wifis')
    BY <1>0, <1>2 DEF HandleRemove, NetworksOK
  <2>2. UNCHANGED <<radioOff, added, held>> /\ chosen' = {n} /\ joined' = FALSE
        /\ changes' \in 0..MaxChanges
    BY <1>2 DEF HandleRemove, Change, WifiTypeOK
  <2>3. n \in WifiSids
    BY <1>0 DEF NetworksOK
  <2>4. DOMAIN wifis' \subseteq WifiSids
        /\ wifis' \in [DOMAIN wifis' -> [radio : Radios, off : BOOLEAN]]
    BY <2>1, RecordsOf
  <2>. QED BY <2>2, <2>3, <2>4 DEF WifiTypeOK
<1>3. ASSUME NEW radio \in Radios, HandleAdd(radio) PROVE WifiTypeOK'
  <2>. DEFINE n == NextFreeSid(Cardinality(Networks))
  <2>1. n \in WifiSids \ Networks
    BY <1>3, FreshSid DEF HandleAdd
  <2>2. /\ wifis' = [k \in Networks \cup {n} |->
                      IF k = n THEN [radio |-> radio, off |-> FALSE] ELSE wifis[k]]
        /\ radioOff' = radioOff \ {radio} /\ added' = {n} /\ UNCHANGED held
        /\ chosen' = {n} /\ joined' = FALSE /\ changes' \in 0..MaxChanges
    BY <1>3 DEF HandleAdd, Change, WifiTypeOK
  <2>. HIDE DEF n
  <2>3. NetworksOK(wifis')
    BY <1>0, <2>1, <2>2 DEF NetworksOK, Network
  <2>. QED BY <2>1, <2>2, <2>3 DEF WifiTypeOK, NetworksOK, Network
<1>4. ASSUME NEW radio \in Radios, NEW replace \in BOOLEAN, HandleJoinConfirm(radio, replace)
      PROVE WifiTypeOK'
  <2>. DEFINE kept == IF replace THEN Networks \ On(radio) ELSE Networks
              free == {n \in WifiSids \ kept : n >= Cardinality(Networks)}
              new == CHOOSE n \in free : \A k \in free : n <= k
              down(k) == radio \in radioOff /\ k \in On(radio)
  <2>1. new \in WifiSids
    <3>1. free \subseteq Nat /\ free # {}
      BY <1>4 DEF HandleJoinConfirm
    <3>2. \E n \in free : \A k \in free : n <= k
      BY <3>1, SmallestOf
    <3>. QED BY <3>2
  <2>2. kept \subseteq Networks
    OBVIOUS
  <2>3. wifis' = [k \in kept \cup {new} |->
                    IF k = new THEN [radio |-> radio, off |-> FALSE]
                    ELSE IF down(k) THEN [wifis[k] EXCEPT !.off = TRUE] ELSE wifis[k]]
        /\ radioOff' = radioOff \ {radio} /\ UNCHANGED <<added, held>>
        /\ chosen' = {new} /\ joined' = TRUE /\ changes' \in 0..MaxChanges
    BY <1>4 DEF HandleJoinConfirm, Change, WifiTypeOK
  <2>. HIDE DEF new, kept, down
  <2>4. \A k \in kept : [wifis[k] EXCEPT !.off = TRUE] \in Network /\ wifis[k] \in Network
    BY <1>0, <2>2 DEF NetworksOK, Network
  <2>5. NetworksOK(wifis')
    BY <1>0, <2>1, <2>2, <2>3, <2>4 DEF NetworksOK, Network
  <2>. QED BY <2>1, <2>3, <2>5 DEF WifiTypeOK, NetworksOK, Network
<1>5. CASE DialogSaved
  BY <1>5 DEF DialogSaved, WifiTypeOK
<1>6. CASE DialogDismissed
  BY <1>6 DEF DialogDismissed, WifiTypeOK
<1>7. CASE UNCHANGED wifiVars
  BY <1>7 DEF wifiVars, WifiTypeOK
<1>. QED BY <1>1, <1>2, <1>3, <1>4, <1>5, <1>6, <1>7 DEF WifiNext

\* Type correctness of the radios, the networks and what is remembered of them.
THEOREM WifiTypeCorrect == WifiSpec => []WifiTypeOK
<1>1. WifiInit => WifiTypeOK
  <2>. SUFFICES ASSUME WifiInit PROVE WifiTypeOK
    OBVIOUS
  <2>1. NetworksOK(wifis)
    BY DEF WifiInit, NetworksOK, Network
  <2>2. held \subseteq WifiSids
    BY <2>1 DEF WifiInit, NetworksOK, Networks
  <2>3. /\ radioOff \subseteq Radios /\ added = {} /\ chosen = {}
        /\ changes \in 0..MaxChanges
    BY DEF WifiInit
  <2>5. joined \in BOOLEAN
    BY Zenon DEF WifiInit
  <2>4. DOMAIN wifis \subseteq WifiSids /\ wifis \in [DOMAIN wifis -> [radio : Radios, off : BOOLEAN]]
    BY <2>1, RecordsOf
  <2>. QED BY <2>2, <2>3, <2>4, <2>5 DEF WifiTypeOK
<1>. QED BY <1>1, WifiTypeStep, PTL DEF WifiSpec

-----------------------------------------------------------------------------
\* A radio that is down has no enabled network but those it had at first.
LEMMA HeldStep == WifiTypeOK /\ HeldAtFirst /\ [WifiNext]_wifiVars => HeldAtFirst'
<1>. SUFFICES ASSUME WifiTypeOK, HeldAtFirst, [WifiNext]_wifiVars,
                     NEW n \in Networks', ~wifis'[n].off, wifis'[n].radio \in radioOff'
              PROVE  n \in held'
  BY DEF HeldAtFirst
<1>. USE DEF HeldAtFirst, Networks
<1>a. NetworksOK(wifis)
  BY WellTyped
<1>0. held' = held
  BY DEF WifiNext, NetworkUpDown, HandleAdd, HandleRemove, HandleJoinConfirm, DialogSaved,
         DialogDismissed, Change, wifiVars
<1>1. ASSUME NEW m \in Networks, NetworkUpDown(m) PROVE n \in held
  <2>0. UpDown(m)
    BY <1>1 DEF NetworkUpDown
  <2>1. n \in Networks
    BY <1>a, <2>0, Turned
  <2>2. CASE wifis[m].off \/ wifis[m].radio \in radioOff
    <3>1. radioOff' = radioOff \ {wifis[m].radio} /\ wifis'[m].radio = wifis[m].radio
      BY <1>a, <2>0, <2>2, Turned
    <3>2. n # m
      BY <3>1
    <3>3. wifis'[n] = wifis[n]
      BY <1>a, <2>0, <2>1, <3>2, Turned
    <3>. QED BY <2>1, <3>1, <3>3
  <2>3. CASE ~(wifis[m].off \/ wifis[m].radio \in radioOff)
    <3>1. wifis'[m].off = TRUE
      BY <1>a, <2>0, <2>3, Turned
    <3>2. n # m
      BY <3>1
    <3>3. wifis'[n] = wifis[n]
      BY <1>a, <2>0, <2>1, <3>2, Turned
    <3>4. \/ radioOff' = radioOff
          \/ /\ radioOff' = radioOff \cup {wifis[m].radio}
             /\ \A k \in On(wifis[m].radio) \ {m} : wifis[k].off
      BY <1>a, <2>0, <2>3, Turned
    <3>5. wifis[n].radio \in radioOff
      <4>1. SUFFICES ASSUME wifis[n].radio \notin radioOff PROVE FALSE
        OBVIOUS
      <4>2. n \in On(wifis[m].radio) \ {m} /\ wifis[n].off
        BY <2>1, <3>2, <3>3, <3>4, <4>1 DEF On
      <4>. QED BY <3>3, <4>2
    <3>. QED BY <2>1, <3>3, <3>5
  <2>. QED BY <2>2, <2>3
<1>2. ASSUME NEW m \in Networks, HandleRemove(m) PROVE n \in held
  BY <1>2 DEF HandleRemove
<1>3. ASSUME NEW radio \in Radios, HandleAdd(radio) PROVE n \in held
  BY <1>3 DEF HandleAdd
<1>4. ASSUME NEW radio \in Radios, NEW replace \in BOOLEAN, HandleJoinConfirm(radio, replace)
      PROVE n \in held
  BY <1>4, <1>a DEF HandleJoinConfirm, On, NetworksOK, Network
<1>5. CASE DialogSaved
  BY <1>5 DEF DialogSaved
<1>6. CASE DialogDismissed
  BY <1>6 DEF DialogDismissed
<1>7. CASE UNCHANGED wifiVars
  BY <1>7 DEF wifiVars
<1>. QED BY <1>0, <1>1, <1>2, <1>3, <1>4, <1>5, <1>6, <1>7 DEF WifiNext

\* While the page works, a radio goes down only after all of its networks.
THEOREM HeldOnlyAtFirst == WifiSpec => []HeldAtFirst
<1>1. WifiInit => HeldAtFirst
  BY DEF WifiInit, HeldAtFirst, Networks
<1>. QED BY <1>1, WifiTypeCorrect, HeldStep, PTL DEF WifiSpec

\* A network comes up only if the user chose it, or with a radio that alone
\* held it down when the page was opened, and never because of a join.
LEMMA ComesUpStep == WifiTypeOK /\ HeldAtFirst /\ [WifiNext]_wifiVars => [ComesUpOnlyIfChosen]_wifiVars
<1>. SUFFICES ASSUME WifiTypeOK, HeldAtFirst, WifiNext, NEW n \in WifiSids, ~Up(n), Up(n)'
              PROVE  n \in chosen' \/ (n \in held /\ ~joined')
  BY DEF ComesUpOnlyIfChosen
<1>a. NetworksOK(wifis)
  BY WellTyped
<1>. USE DEF HeldAtFirst, Networks, Up
<1>1. ASSUME NEW m \in Networks, NetworkUpDown(m) PROVE n \in chosen' \/ (n \in held /\ ~joined')
  <2>0. UpDown(m)
    BY <1>1 DEF NetworkUpDown
  <2>1. n \in Networks
    BY <1>a, <2>0, Turned
  <2>2. chosen' = {m} /\ joined' = FALSE
    BY <1>1 DEF NetworkUpDown, Change
  <2>3. CASE n # m
    <3>1. wifis'[n] = wifis[n]
      BY <1>a, <2>0, <2>1, <2>3, Turned
    <3>. QED BY <2>1, <2>2, <3>1
  <2>4. CASE n = m
    BY <2>2, <2>4
  <2>. QED BY <2>3, <2>4
<1>2. ASSUME NEW m \in Networks, HandleRemove(m) PROVE n \in chosen' \/ (n \in held /\ ~joined')
  BY <1>2 DEF HandleRemove, Change
<1>3. ASSUME NEW radio \in Radios, HandleAdd(radio)
      PROVE  n \in chosen' \/ (n \in held /\ ~joined')
  BY <1>3 DEF HandleAdd, Change
<1>4. ASSUME NEW radio \in Radios, NEW replace \in BOOLEAN, HandleJoinConfirm(radio, replace)
      PROVE n \in chosen' \/ (n \in held /\ ~joined')
  <2>. DEFINE kept == IF replace THEN Networks \ On(radio) ELSE Networks
              free == {m \in WifiSids \ kept : m >= Cardinality(Networks)}
              new == CHOOSE m \in free : \A k \in free : m <= k
  <2>1. /\ wifis' = [k \in kept \cup {new} |->
                      IF k = new THEN [radio |-> radio, off |-> FALSE]
                      ELSE IF radio \in radioOff /\ k \in On(radio)
                           THEN [wifis[k] EXCEPT !.off = TRUE] ELSE wifis[k]]
        /\ radioOff' = radioOff \ {radio}
        /\ chosen' = {new} /\ joined' = TRUE
    BY <1>4 DEF HandleJoinConfirm, Change
  <2>2. kept \subseteq Networks
    OBVIOUS
  <2>. HIDE DEF kept, new
  <2>3. ASSUME n # new PROVE FALSE
    <3>1. n \in kept /\ n \in Networks
      BY <2>1, <2>2, <2>3
    <3>2. wifis[n] \in Network
      BY <1>a, <3>1 DEF NetworksOK
    <3>3. CASE radio \in radioOff /\ n \in On(radio)
      BY <2>1, <2>3, <3>1, <3>2, <3>3 DEF Network
    <3>4. CASE ~(radio \in radioOff /\ n \in On(radio))
      BY <2>1, <2>3, <3>1, <3>4 DEF On
    <3>. QED BY <3>3, <3>4
  <2>. QED BY <2>1, <2>3
<1>5. CASE DialogSaved
  BY <1>5 DEF DialogSaved
<1>6. CASE DialogDismissed
  BY <1>6 DEF DialogDismissed
<1>. QED BY <1>1, <1>2, <1>3, <1>4, <1>5, <1>6 DEF WifiNext

\* The same of every behaviour, for any number of radios, networks, changes.
THEOREM OnlyChosen == WifiSpec => OnlyChosenComeUp
<1>. QED BY WifiTypeCorrect, HeldOnlyAtFirst, ComesUpStep, PTL DEF WifiSpec, OnlyChosenComeUp

\* The button "Enable" or "Disable" of a network does what it says: the
\* network is up afterwards if it was not, and down if it was.
THEOREM ButtonTurns ==
    ASSUME WifiTypeOK, NEW n \in Networks, NetworkUpDown(n)
    PROVE  Up(n)' <=> ~Up(n)
<1>1. NetworksOK(wifis) /\ UpDown(n)
  BY WellTyped DEF NetworkUpDown
<1>2. DOMAIN wifis' = Networks /\ wifis'[n].radio = wifis[n].radio
  BY <1>1, Turned
<1>3. CASE wifis[n].off \/ wifis[n].radio \in radioOff
  <2>1. wifis'[n].off = FALSE /\ radioOff' = radioOff \ {wifis[n].radio}
    BY <1>1, <1>3, Turned
  <2>. QED BY <1>2, <1>3, <2>1 DEF Up, Networks
<1>4. CASE ~(wifis[n].off \/ wifis[n].radio \in radioOff)
  <2>1. wifis'[n].off = TRUE
    BY <1>1, <1>4, Turned
  <2>. QED BY <1>4, <2>1 DEF Up, Networks
<1>. QED BY <1>3, <1>4
=============================================================================
