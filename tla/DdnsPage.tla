----------------------------- MODULE DdnsPage -----------------------------
(***************************************************************************)
(* The page "Dynamic DNS" (view/ddns/overview.js).  Its dialogs for a new  *)
(* service and for the options of a service read the definition of the     *)
(* chosen provider each time provider or IP version change, and refuse to  *)
(* save while that takes or when the provider cannot do it.  Its buttons   *)
(* start and stop the updaters of the device (DdnsUpdater).                *)
(***************************************************************************)
EXTENDS Naturals, SequencesExt

CONSTANTS
    Providers,     \* services in the list, Custom among them
    Custom,        \* "-", which has no definition
    Ipv4Only,      \* providers whose definition has no part for IPv6
    Services,      \* configured services, which have a row
    Fresh,         \* name the user gives to a new service
    MaxSteps       \* bound: actions of the user

ASSUME DdnsAssumption ==
    /\ Custom \in Providers /\ Ipv4Only \subseteq Providers \ {Custom}
    /\ Fresh \notin Services
    /\ MaxSteps \in Nat

VARIABLES
    rules,       \* section -> its service_name and use_ipv6
    dialog,      \* the dialog on show: selects, verdict, calls under way
    installing,  \* the section whose "Install Service" runs
    installed,   \* providers with a definition in /usr/share/ddns
    doubted,     \* history: sections with a choice that nothing vouches for
    autostart,   \* the init script is enabled
    enabled,     \* services enabled in the configuration
    daemons,     \* services that have an updater
    shown,       \* _enabled and the services with a pid, as the page has them
    toggle,      \* the command of the button "Start DDNS" or "Stop DDNS"
    steps        \* history: actions of the user so far

dialogVars == <<rules, dialog, installing, installed, doubted>>
deviceVars == <<autostart, enabled, daemons, shown, toggle>>
ddnsVars == <<dialogVars, deviceVars, steps>>

Choice == [provider : Providers, ipv6 : BOOLEAN]
None == "none"

\* section is the one the dialog is for; available and supported are
\* service_available and service_supported, "unset" for null; checks holds the
\* providers whose definition handleCheckService waits for, in the order of
\* the calls; doubt is history.
NoDialog == [section |-> None, choice |-> [provider |-> Custom, ipv6 |-> FALSE],
             available |-> "unset", supported |-> "unset", valid |-> FALSE,
             checks |-> <<>>, doubt |-> FALSE]
Idle == [step |-> "idle", action |-> FALSE, was |-> FALSE]

-----------------------------------------------------------------------------
(* The dialogs.                                                            *)

Supports(c) == c.ipv6 => c.provider \notin Ipv4Only

\* validate of service_name, in the dialog for a new service, where
\* service_available is unset, and in the other.
Validated(d) ==
    [d EXCEPT !.valid = /\ d.supported = "yes"
                        /\ d.available # "no"]

\* Mutant: the verdict on the choice before stands until the new one is known.
CheckKeepsVerdict(d, c) ==
    Validated([d EXCEPT !.choice = c, !.checks = Append(@, c.provider),
                        !.doubt = (d.doubt \/ d.checks # <<>>)])

\* handleCheckService up to the call of handleGetServiceData.  Two checks at
\* once may be answered in the wrong order.
Check(d, c) ==
    Validated([d EXCEPT !.choice = c, !.supported = "unset",
                        !.checks = Append(@, c.provider),
                        !.doubt = (d.doubt \/ d.checks # <<>>)])

\* The rest of it: value is what was selected when it began, the IP version
\* what is selected now; what cannot be read is supported.
Checked(d, i, read) ==
    LET value == d.checks[i]
        bad == read /\ d.choice.ipv6 /\ value \in Ipv4Only
    IN Validated([d EXCEPT !.supported = IF bad THEN "no" ELSE "yes",
                           !.checks = RemoveAt(@, i),
                           !.doubt = (d.doubt \/ (~read /\ value \in Ipv4Only))])

\* addModalOptions of a section whose definition was read, or not.
Opened(section, c, read) ==
    Validated([NoDialog EXCEPT
        !.section = section, !.choice = c,
        !.available = IF c.provider = Custom \/ read THEN "yes" ELSE "no",
        !.supported = IF read /\ ~Supports(c) THEN "no" ELSE "yes"])

\* A read that gets lost is like one of a file that is not there.
Readable(p) == {FALSE} \cup (IF p \in installed THEN {TRUE} ELSE {})

-----------------------------------------------------------------------------
DdnsTypeOK ==
    /\ \A s \in DOMAIN rules : s \in Services \cup {Fresh} /\ rules[s] \in Choice
    /\ dialog.section \in Services \cup {Fresh, None} /\ dialog.choice \in Choice
    /\ dialog.checks \in Seq(Providers)
    /\ doubted \subseteq Services \cup {Fresh}
    /\ autostart \in BOOLEAN /\ installed \subseteq Providers
    /\ enabled \subseteq Services /\ daemons \subseteq Services
    /\ steps \in 0..MaxSteps

DdnsInit ==
    /\ rules \in [Services -> Choice]
    /\ doubted = {s \in Services : ~Supports(rules[s])}
    /\ dialog = NoDialog
    /\ installing = None
    /\ installed \in SUBSET (Providers \ {Custom})
    /\ autostart \in BOOLEAN
    /\ enabled \in SUBSET Services
    /\ daemons \in SUBSET Services
    /\ shown = [enabled |-> autostart, pids |-> daemons]
    /\ toggle = Idle
    /\ steps = 0

\* Another view.
NoDdns ==
    /\ rules = <<>>
    /\ dialog = NoDialog
    /\ installing = None
    /\ installed = {} /\ doubted = {} /\ enabled = {} /\ daemons = {}
    /\ autostart = FALSE
    /\ shown = [enabled |-> FALSE, pids |-> {}]
    /\ toggle = Idle
    /\ steps = 0

Act == steps < MaxSteps /\ steps' = steps + 1

\* "Add new services...": service_supported is not set yet.
AddService ==
    /\ Act
    /\ dialog.section = None /\ Fresh \notin DOMAIN rules
    /\ dialog' = [NoDialog EXCEPT !.section = Fresh]
    /\ UNCHANGED <<rules, installing, installed, doubted, deviceVars>>

\* "Edit".
EditService ==
    /\ Act
    /\ dialog.section = None
    /\ \E s \in DOMAIN rules : \E read \in Readable(rules[s].provider) :
         dialog' = Opened(s, rules[s], read)
    /\ UNCHANGED <<rules, installing, installed, doubted, deviceVars>>

\* The provider or the IP version is changed.
ChangeService ==
    /\ Act
    /\ dialog.section # None
    /\ \E c \in Choice :
         /\ (c.provider = dialog.choice.provider) # (c.ipv6 = dialog.choice.ipv6)
         /\ dialog' = Check(dialog, c)
    /\ UNCHANGED <<rules, installing, installed, doubted, deviceVars>>

\* An answer, the calls' answers in any order.
ServiceData ==
    /\ \E i \in DOMAIN dialog.checks : \E read \in Readable(dialog.checks[i]) :
         dialog' = Checked(dialog, i, read)
    /\ UNCHANGED <<rules, installing, installed, doubted, deviceVars, steps>>

\* "Create service", "Save" or "Switch service".  A new service, and one that
\* was switched, is opened again.
SaveService ==
    /\ Act
    /\ dialog.section # None /\ dialog.valid
    /\ LET s == dialog.section
           c == dialog.choice IN
       /\ rules' = [r \in DOMAIN rules \cup {s} |-> IF r = s THEN c ELSE rules[r]]
       /\ doubted' = IF dialog.doubt \/ (s \in doubted /\ c = rules[s])
                     THEN doubted \cup {s} ELSE doubted \ {s}
       /\ \/ dialog.available # "unset" /\ dialog' = NoDialog
          \/ \E read \in Readable(c.provider) : dialog' = Opened(s, c, read)
    /\ UNCHANGED <<installing, installed, deviceVars>>

DismissService ==
    /\ Act
    /\ dialog.section # None
    /\ dialog' = NoDialog
    /\ UNCHANGED <<rules, installing, installed, doubted, deviceVars>>

\* handleInstallService: the provider selected now is installed; when that is
\* done the dialog of the section opens, whatever is on show.
InstallService ==
    /\ Act
    /\ dialog.available = "no" /\ dialog.choice.provider # Custom
    /\ installing = None
    /\ installing' = dialog.section
    /\ installed' = installed \cup {dialog.choice.provider}
    /\ UNCHANGED <<rules, dialog, doubted, deviceVars>>

ServiceInstalled ==
    /\ installing # None
    /\ installing' = None
    /\ \E read \in Readable(rules[installing].provider) :
         dialog' = Opened(installing, rules[installing], read)
    /\ UNCHANGED <<rules, installed, doubted, deviceVars, steps>>

-----------------------------------------------------------------------------
(* The buttons for the updaters.                                           *)

\* What dynamic_dns_updater.sh starts: a service that is not enabled has its
\* new process end before it would end the old one.
Started(services) == daemons \cup (services \cap enabled)

\* luci/setInitAction: for an action that it does not know there is no result,
\* which the page takes for false.
InitResult(action) == action \in {"enable", "disable", "start", "stop", "restart", "reload"}

\* handleToggleDDns, in three calls.
ToggleDDns ==
    /\ Act
    /\ toggle = Idle
    /\ toggle' = [step |-> "asked", action |-> InitResult("enabled"), was |-> shown.enabled]
    /\ UNCHANGED <<dialogVars, autostart, enabled, daemons, shown>>

ToggleSwitches ==
    /\ toggle.step = "asked"
    /\ LET action == IF toggle.action THEN "disable" ELSE "enable"
       IN /\ autostart' = (action = "enable")
          /\ toggle' = [toggle EXCEPT !.step = "switched", !.action = InitResult(action)]
    /\ UNCHANGED <<dialogVars, enabled, daemons, shown, steps>>

ToggleRuns ==
    /\ toggle.step = "switched"
    /\ daemons' = IF toggle.action THEN {} ELSE Started(Services)
    /\ toggle' = [Idle EXCEPT !.was = toggle.was]
    /\ UNCHANGED <<dialogVars, autostart, enabled, shown, steps>>

RestartDDns ==
    /\ Act
    /\ daemons' = enabled
    /\ UNCHANGED <<dialogVars, autostart, enabled, shown, toggle>>

\* "Reload" and "Stop" of a row: both say "start", to services that the page
\* takes for enabled or for not enabled.
ReloadDDnsRule ==
    /\ Act
    /\ \E s \in Services :
         /\ shown.enabled /\ s \in enabled
         /\ daemons' = Started({s})
    /\ UNCHANGED <<dialogVars, autostart, enabled, shown, toggle>>

StopDDnsRule ==
    /\ Act
    /\ \E s \in shown.pids \ enabled : daemons' = Started({s})
    /\ UNCHANGED <<dialogVars, autostart, enabled, shown, toggle>>

\* poll_status
PollStatus ==
    /\ shown # [enabled |-> autostart, pids |-> daemons]
    /\ shown' = [enabled |-> autostart, pids |-> daemons]
    /\ UNCHANGED <<dialogVars, autostart, enabled, daemons, toggle, steps>>

\* "Enabled" of a row is saved and applied; updaters end by themselves.
SaveEnabled ==
    /\ Act
    /\ \E s \in Services :
         enabled' = IF s \in enabled THEN enabled \ {s} ELSE enabled \cup {s}
    /\ UNCHANGED <<dialogVars, autostart, daemons, shown, toggle>>

UpdaterEnds ==
    /\ Act
    /\ \E s \in daemons : daemons' = daemons \ {s}
    /\ UNCHANGED <<dialogVars, autostart, enabled, shown, toggle>>

DdnsNext ==
    \/ AddService \/ EditService \/ ChangeService \/ ServiceData \/ SaveService
    \/ DismissService \/ InstallService \/ ServiceInstalled
    \/ ToggleDDns \/ ToggleSwitches \/ ToggleRuns \/ RestartDDns
    \/ ReloadDDnsRule \/ StopDDnsRule \/ PollStatus \/ SaveEnabled \/ UpdaterEnds

DdnsSpec == DdnsInit /\ [][DdnsNext]_ddnsVars

-----------------------------------------------------------------------------
(* Properties.                                                             *)

\* A service that the dialogs save has a provider that can do the IP version,
\* however quickly the selects are changed; unless two checks were under way
\* at once, or the definition was not there to be read.
SavedIsSupported == \A s \in DOMAIN rules \ doubted : Supports(rules[s])

\* The button reads "Stop DDNS" when the service starts with the system and
\* "Start DDNS" when it does not: once it has run, that is the other way round.
ToggleToggles ==
    [][(toggle.step = "switched" /\ toggle'.step = "idle") => autostart' = ~toggle.was]_ddnsVars
=============================================================================
