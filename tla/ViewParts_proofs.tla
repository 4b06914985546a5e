-------------------------- MODULE ViewParts_proofs --------------------------
(***************************************************************************)
(* Proofs about seven of the parts of ViewParts, for pages of any size:    *)
(* the Dynamic DNS page, the file field, what network.js knows of the      *)
(* device, the rows that can be dragged, the fields for one value, for     *)
(* several and lists, the tables and tabs of ui.js, and the frequency      *)
(* selects of a radio.  Each part has an inductive invariant of its own; a *)
(* step of another part leaves its variables alone.                        *)
(***************************************************************************)
EXTENDS ViewParts, FiniteSetTheorems, WellFoundedInduction, TLAPS

-----------------------------------------------------------------------------
(* The page "Dynamic DNS".                                                 *)

Verdicts == {"unset", "yes", "no"}

DialogType ==
    [section : Services \cup {Fresh, None}, choice : Choice, available : Verdicts,
     supported : Verdicts, valid : BOOLEAN, checks : Seq(Providers), doubt : BOOLEAN]

\* What vouches for the choice on show: the definition of its provider, or that
\* it is the one that was saved without.
Vouched ==
    /\ dialog.valid => dialog.supported = "yes"
    /\ ~ dialog.doubt /\ dialog.checks # <<>> => dialog.checks = <<dialog.choice.provider>>
    /\ ~ dialog.doubt /\ dialog.supported = "yes" =>
         \/ Supports(dialog.choice)
         \/ /\ dialog.section \in DOMAIN rules \cap doubted
            /\ dialog.choice = rules[dialog.section]

DdnsInv ==
    /\ DOMAIN rules \subseteq Services \cup {Fresh}
    /\ \A s \in DOMAIN rules : rules[s] \in Choice
    /\ dialog \in DialogType
    /\ dialog.available = "no" => dialog.section \in DOMAIN rules
    /\ installing # None => installing \in DOMAIN rules
    /\ Vouched
    /\ SavedIsSupported

\* No dialog.
LEMMA NoDialogType ==
    /\ NoDialog \in DialogType /\ NoDialog.supported = "unset" /\ NoDialog.available = "unset"
    /\ NoDialog.valid = FALSE /\ NoDialog.checks = <<>>
BY DdnsAssumption DEF NoDialog, DialogType, Choice, Verdicts

\* A dialog that was validated is as it was, but valid only if its service is supported.
LEMMA ValidatedType ==
    ASSUME NEW d \in DialogType
    PROVE  /\ Validated(d) \in DialogType
           /\ Validated(d).valid => d.supported = "yes"
           /\ \A x \in {"section", "choice", "available", "supported", "checks", "doubt"} :
                Validated(d)[x] = d[x]
<1>. DEFINE v == /\ d.supported = "yes"
                 /\ d.available # "no"
<1>1. Validated(d) = [d EXCEPT !.valid = v] /\ v \in BOOLEAN /\ (v => d.supported = "yes")
  BY DEF Validated
<1>. HIDE DEF v
<1>2. Validated(d) \in DialogType
  BY <1>1 DEF DialogType
<1>3. Validated(d).valid = v
  BY <1>1 DEF DialogType
<1>4. ASSUME NEW x \in {"section", "choice", "available", "supported", "checks", "doubt"}
      PROVE  Validated(d)[x] = d[x]
  BY <1>1 DEF DialogType
<1>. QED BY <1>1, <1>2, <1>3, <1>4

\* A dialog opens with the choice of its section, and asks for nothing.
LEMMA OpenedType ==
    ASSUME NEW s \in Services \cup {Fresh, None}, NEW c \in Choice, NEW read \in BOOLEAN
    PROVE  /\ Opened(s, c, read) \in DialogType
           /\ Opened(s, c, read).section = s
           /\ Opened(s, c, read).choice = c
           /\ Opened(s, c, read).checks = <<>>
           /\ Opened(s, c, read).valid => Opened(s, c, read).supported = "yes"
           /\ Opened(s, c, read).supported = "yes" => Supports(c) \/ ~ read
<1>. DEFINE available == IF c.provider = Custom \/ read THEN "yes" ELSE "no"
            supported == IF read /\ ~ Supports(c) THEN "no" ELSE "yes"
            d == [NoDialog EXCEPT !.section = s, !.choice = c,
                                  !.available = available, !.supported = supported]
<1>1. Opened(s, c, read) = Validated(d)
  BY DEF Opened
<1>2. available \in Verdicts /\ supported \in Verdicts /\ (supported = "yes" => Supports(c) \/ ~ read)
  BY DEF Verdicts
<1>. HIDE DEF available, supported
<1>3. NoDialog \in DialogType /\ NoDialog.checks = <<>>
  BY NoDialogType
<1>4. /\ d.section = s /\ d.choice = c /\ d.supported = supported /\ d.checks = <<>>
      /\ d \in DialogType
  <2>. DEFINE n == NoDialog
  <2>. HIDE DEF n
  <2>1. n \in DialogType /\ n.checks = <<>>
    BY <1>3 DEF n
  <2>2. d = [n EXCEPT !.section = s, !.choice = c, !.available = available, !.supported = supported]
    BY DEF n
  <2>. HIDE DEF d
  <2>3. d.section = s /\ d.choice = c /\ d.supported = supported /\ d.checks = <<>>
    BY <2>1, <2>2 DEF DialogType
  <2>4. d \in DialogType
    BY <1>2, <2>1, <2>2 DEF DialogType
  <2>. QED BY <2>3, <2>4
<1>. HIDE DEF d
<1>. QED BY <1>1, <1>2, <1>4, ValidatedType

\* A changed choice has not been vouched for: its definition is asked for.
LEMMA CheckDialogType ==
    ASSUME NEW d \in DialogType, NEW c \in Choice
    PROVE  /\ Check(d, c) \in DialogType
           /\ Check(d, c).section = d.section
           /\ Check(d, c).choice = c
           /\ Check(d, c).available = d.available
           /\ Check(d, c).supported = "unset"
           /\ Check(d, c).checks = Append(d.checks, c.provider)
           /\ Check(d, c).doubt = (d.doubt \/ d.checks # <<>>)
           /\ ~ Check(d, c).valid
<1>. DEFINE e == [d EXCEPT !.choice = c, !.supported = "unset",
                           !.checks = Append(@, c.provider),
                           !.doubt = (d.doubt \/ d.checks # <<>>)]
<1>1. Check(d, c) = Validated(e)
  BY DEF Check
<1>2. Append(d.checks, c.provider) \in Seq(Providers)
  BY DEF DialogType, Choice
<1>3. /\ e.section = d.section /\ e.choice = c /\ e.available = d.available
      /\ e.supported = "unset" /\ e.checks = Append(d.checks, c.provider)
      /\ e.doubt = (d.doubt \/ d.checks # <<>>)
  BY DEF DialogType
<1>4. e \in DialogType
  BY <1>2 DEF DialogType, Verdicts
<1>. HIDE DEF e
<1>. QED BY <1>1, <1>3, <1>4, ValidatedType

\* An answer vouches for the choice, or not.
LEMMA CheckedType ==
    ASSUME NEW d \in DialogType, NEW i \in DOMAIN d.checks, NEW read \in BOOLEAN
    PROVE  /\ Checked(d, i, read) \in DialogType
           /\ Checked(d, i, read).section = d.section
           /\ Checked(d, i, read).choice = d.choice
           /\ Checked(d, i, read).available = d.available
           /\ Checked(d, i, read).supported =
                IF read /\ d.choice.ipv6 /\ d.checks[i] \in Ipv4Only THEN "no" ELSE "yes"
           /\ Checked(d, i, read).checks = RemoveAt(d.checks, i)
           /\ Checked(d, i, read).doubt = (d.doubt \/ (~ read /\ d.checks[i] \in Ipv4Only))
           /\ Checked(d, i, read).valid => Checked(d, i, read).supported = "yes"
<1>. DEFINE verdict == IF read /\ d.choice.ipv6 /\ d.checks[i] \in Ipv4Only THEN "no" ELSE "yes"
            doubt == d.doubt \/ (~ read /\ d.checks[i] \in Ipv4Only)
            e == [d EXCEPT !.supported = verdict, !.checks = RemoveAt(@, i), !.doubt = doubt]
<1>1. Checked(d, i, read) = Validated(e)
  BY DEF Checked
<1>2. verdict \in Verdicts /\ doubt \in BOOLEAN
  BY DEF Verdicts, DialogType
<1>3. RemoveAt(d.checks, i) \in Seq(Providers)
  BY DEF RemoveAt, DialogType
<1>. HIDE DEF verdict, doubt
<1>4. /\ e.section = d.section /\ e.choice = d.choice /\ e.available = d.available
      /\ e.supported = verdict /\ e.checks = RemoveAt(d.checks, i) /\ e.doubt = doubt
  BY DEF DialogType
<1>5. e \in DialogType
  BY <1>2, <1>3 DEF DialogType
<1>. HIDE DEF e
<1>. QED BY <1>1, <1>4, <1>5, ValidatedType DEF verdict, doubt

\* The first state of the page.
LEMMA DdnsStart == DdnsInit \/ NoDdns => DdnsInv
<1>1. DdnsInit => DOMAIN rules = Services /\ \A s \in Services : rules[s] \in Choice
  BY DEF DdnsInit
<1>. QED BY <1>1, NoDialogType DEF DdnsInit, NoDdns, DdnsInv, Vouched, SavedIsSupported

\* Steps of the dialogs.
LEMMA OpenServiceStays ==
    ASSUME DdnsInv, NEW s \in DOMAIN rules, NEW read \in BOOLEAN,
           dialog' = Opened(s, rules[s], read), rules' = rules, doubted' = doubted,
           installing' \in {None, installing}
    PROVE  DdnsInv'
<1>. DEFINE d == Opened(s, rules[s], read)
<1>1. /\ d \in DialogType /\ d.section = s /\ d.choice = rules[s] /\ d.checks = <<>>
      /\ d.valid => d.supported = "yes"
      /\ d.supported = "yes" => Supports(rules[s]) \/ ~ read
  <2>1. s \in Services \cup {Fresh, None} /\ rules[s] \in Choice
    BY DEF DdnsInv
  <2>. QED BY <2>1, OpenedType
<1>2. Supports(rules[s]) \/ s \in doubted
  BY DEF DdnsInv, SavedIsSupported
<1>. HIDE DEF d
<1>3. Vouched'
  BY <1>1, <1>2 DEF Vouched, d
<1>. QED BY <1>1, <1>3 DEF DdnsInv, SavedIsSupported, d

\* Save writes the choice into the section.
LEMMA SaveServiceStays ==
    ASSUME DdnsInv, SaveService
    PROVE  DdnsInv'
<1>. DEFINE s == dialog.section
            c == dialog.choice
<1>1. /\ dialog \in DialogType /\ s \in Services \cup {Fresh} /\ c \in Choice
      /\ dialog.supported = "yes"
  BY DEF DdnsInv, SaveService, Vouched, DialogType
<1>2. /\ rules' = [r \in DOMAIN rules \cup {s} |-> IF r = s THEN c ELSE rules[r]]
      /\ doubted' = IF dialog.doubt \/ (s \in doubted /\ c = rules[s])
                    THEN doubted \cup {s} ELSE doubted \ {s}
      /\ \/ dialog' = NoDialog
         \/ \E read \in Readable(c.provider) : dialog' = Opened(s, c, read)
      /\ installing' = installing
  BY DEF SaveService
<1>3. s \in doubted' \/ Supports(c)
  BY <1>1, <1>2 DEF DdnsInv, Vouched
<1>. HIDE DEF s, c
<1>4. DOMAIN rules' = DOMAIN rules \cup {s} /\ rules'[s] = c
      /\ \A r \in DOMAIN rules \ {s} : rules'[r] = rules[r]
  BY <1>2
<1>5. \A r \in DOMAIN rules' \ doubted' : Supports(rules'[r])
  <2>. SUFFICES ASSUME NEW r \in DOMAIN rules' \ doubted' PROVE Supports(rules'[r])
    OBVIOUS
  <2>1. CASE r = s
    BY <1>3, <1>4, <2>1
  <2>2. CASE r # s
    BY <1>2, <1>4, <2>2 DEF DdnsInv, SavedIsSupported
  <2>. QED BY <2>1, <2>2
<1>6. DOMAIN rules' \subseteq Services \cup {Fresh} /\ \A r \in DOMAIN rules' : rules'[r] \in Choice
  BY <1>1, <1>4 DEF DdnsInv
<1>7. installing' # None => installing' \in DOMAIN rules'
  BY <1>2, <1>4 DEF DdnsInv
<1>8. CASE dialog' = NoDialog
  <2>1. Vouched'
    BY <1>8, NoDialogType DEF Vouched
  <2>. QED BY <1>5, <1>6, <1>7, <1>8, <2>1, NoDialogType DEF DdnsInv, SavedIsSupported
<1>9. ASSUME NEW read \in Readable(c.provider), dialog' = Opened(s, c, read)
      PROVE  DdnsInv'
  <2>1. read \in BOOLEAN
    BY DEF Readable
  <2>2. /\ dialog' \in DialogType /\ dialog'.section = s /\ dialog'.choice = c
        /\ dialog'.checks = <<>>
        /\ dialog'.valid => dialog'.supported = "yes"
    BY <1>1, <1>9, <2>1, OpenedType
  <2>3. Vouched'
    BY <1>3, <1>4, <2>2 DEF Vouched
  <2>. QED BY <1>4, <1>5, <1>6, <1>7, <2>2, <2>3 DEF DdnsInv, SavedIsSupported
<1>. QED BY <1>2, <1>8, <1>9

\* The user chooses another provider, or IPv6.
LEMMA ChangeServiceStays ==
    ASSUME DdnsInv, ChangeService
    PROVE  DdnsInv'
<1>1. PICK c \in Choice : dialog' = Check(dialog, c)
  BY DEF ChangeService
<1>2. rules' = rules /\ installing' = installing /\ doubted' = doubted /\ dialog \in DialogType
  BY DEF ChangeService, DdnsInv
<1>3. /\ dialog' \in DialogType /\ dialog'.section = dialog.section /\ dialog'.choice = c
      /\ dialog'.available = dialog.available /\ dialog'.supported = "unset"
      /\ dialog'.checks = Append(dialog.checks, c.provider)
      /\ dialog'.doubt = (dialog.doubt \/ dialog.checks # <<>>)
      /\ ~ dialog'.valid
  BY <1>1, <1>2, CheckDialogType
<1>4. ~ dialog'.doubt => dialog'.checks = <<c.provider>>
  <2>1. dialog.checks = <<>> => Append(dialog.checks, c.provider) = <<c.provider>>
    OBVIOUS
  <2>. QED BY <1>3, <2>1
<1>5. Vouched'
  BY <1>3, <1>4 DEF Vouched
<1>. QED BY <1>2, <1>3, <1>5 DEF DdnsInv, SavedIsSupported

\* A definition comes: if it is the only one that was asked for, it is that of the choice.
LEMMA ServiceDataStays ==
    ASSUME DdnsInv, ServiceData
    PROVE  DdnsInv'
<1>1. PICK i \in DOMAIN dialog.checks :
         \E read \in Readable(dialog.checks[i]) : dialog' = Checked(dialog, i, read)
  BY DEF ServiceData
<1>2. PICK read \in Readable(dialog.checks[i]) : dialog' = Checked(dialog, i, read)
  BY <1>1
<1>3. /\ rules' = rules /\ installing' = installing /\ doubted' = doubted
      /\ dialog \in DialogType /\ read \in BOOLEAN
  BY DEF ServiceData, DdnsInv, Readable
<1>4. /\ dialog' \in DialogType /\ dialog'.section = dialog.section
      /\ dialog'.choice = dialog.choice /\ dialog'.available = dialog.available
      /\ dialog'.supported =
           IF read /\ dialog.choice.ipv6 /\ dialog.checks[i] \in Ipv4Only THEN "no" ELSE "yes"
      /\ dialog'.checks = RemoveAt(dialog.checks, i)
      /\ dialog'.doubt = (dialog.doubt \/ (~ read /\ dialog.checks[i] \in Ipv4Only))
      /\ dialog'.valid => dialog'.supported = "yes"
  BY <1>2, <1>3, CheckedType
<1>5. ASSUME ~ dialog'.doubt
      PROVE  dialog'.checks = <<>> /\ (dialog'.supported = "yes" => Supports(dialog'.choice))
  <2>1. ~ dialog.doubt /\ dialog.checks # <<>>
    BY <1>3, <1>4, <1>5 DEF DialogType
  <2>2. dialog.checks = <<dialog.choice.provider>>
    BY <2>1 DEF DdnsInv, Vouched
  <2>3. i = 1 /\ dialog.checks[i] = dialog.choice.provider
    BY <2>2
  <2>4. dialog'.checks = <<>>
    BY <1>4, <2>2, <2>3 DEF RemoveAt
  <2>. QED BY <1>4, <1>5, <2>3, <2>4 DEF Supports
<1>6. Vouched'
  BY <1>4, <1>5 DEF Vouched
<1>. QED BY <1>3, <1>4, <1>6 DEF DdnsInv, SavedIsSupported

\* Every step of the page keeps the invariant.
LEMMA DdnsStep == DdnsInv /\ (DdnsNext \/ UNCHANGED ddnsVars) => DdnsInv'
<1>. SUFFICES ASSUME DdnsInv, DdnsNext \/ UNCHANGED ddnsVars PROVE DdnsInv'
  OBVIOUS
<1>1. CASE AddService
  <2>. DEFINE d == [NoDialog EXCEPT !.section = Fresh]
  <2>1. d \in DialogType /\ d.supported = "unset" /\ d.available = "unset"
        /\ d.valid = FALSE /\ d.checks = <<>>
    BY NoDialogType DEF DialogType
  <2>2. dialog' = d /\ rules' = rules /\ installing' = installing /\ doubted' = doubted
    BY <1>1 DEF AddService
  <2>. HIDE DEF d
  <2>3. Vouched'
    BY <2>1, <2>2 DEF Vouched
  <2>. QED BY <2>1, <2>2, <2>3 DEF DdnsInv, SavedIsSupported
<1>2. CASE EditService
  <2>1. PICK s \in DOMAIN rules : \E read \in Readable(rules[s].provider) :
           dialog' = Opened(s, rules[s], read)
    BY <1>2 DEF EditService
  <2>2. PICK read \in BOOLEAN : dialog' = Opened(s, rules[s], read)
    BY <2>1 DEF Readable
  <2>3. rules' = rules /\ installing' = installing /\ doubted' = doubted
    BY <1>2 DEF EditService
  <2>. QED BY <2>2, <2>3, OpenServiceStays
<1>3. CASE ChangeService
  BY <1>3, ChangeServiceStays
<1>4. CASE ServiceData
  BY <1>4, ServiceDataStays
<1>5. CASE SaveService
  BY <1>5, SaveServiceStays
<1>6. CASE DismissService
  <2>1. dialog' = NoDialog /\ rules' = rules /\ installing' = installing /\ doubted' = doubted
    BY <1>6 DEF DismissService
  <2>2. Vouched'
    BY <2>1, NoDialogType DEF Vouched
  <2>. QED BY <2>1, <2>2, NoDialogType DEF DdnsInv, SavedIsSupported
<1>7. CASE InstallService
  <2>1. dialog' = dialog /\ rules' = rules /\ installing' = dialog.section /\ doubted' = doubted
        /\ dialog.available = "no"
    BY <1>7 DEF InstallService
  <2>. QED BY <2>1 DEF DdnsInv, SavedIsSupported, Vouched
<1>8. CASE ServiceInstalled
  <2>1. installing \in DOMAIN rules
    BY <1>8 DEF ServiceInstalled, DdnsInv
  <2>2. PICK read \in BOOLEAN : dialog' = Opened(installing, rules[installing], read)
    BY <1>8 DEF ServiceInstalled, Readable
  <2>3. rules' = rules /\ installing' = None /\ doubted' = doubted
    BY <1>8 DEF ServiceInstalled
  <2>. QED BY <2>1, <2>2, <2>3, OpenServiceStays
<1>9. CASE UNCHANGED dialogVars
  BY <1>9 DEF dialogVars, DdnsInv, SavedIsSupported, Vouched
<1>10. CASE ToggleDDns \/ ToggleSwitches \/ ToggleRuns \/ RestartDDns \/ ReloadDDnsRule
            \/ StopDDnsRule \/ PollStatus \/ SaveEnabled \/ UpdaterEnds
  BY <1>9, <1>10 DEF ToggleDDns, ToggleSwitches, ToggleRuns, RestartDDns, ReloadDDnsRule,
     StopDDnsRule, PollStatus, SaveEnabled, UpdaterEnds
<1>. QED
  BY <1>1, <1>2, <1>3, <1>4, <1>5, <1>6, <1>7, <1>8, <1>9, <1>10 DEF DdnsNext, ddnsVars

\* overview.js, handleSave and the validation of "service_name": however the answers to
\* requests for definitions and the changes of the choice interleave, what a dialog saves
\* has a provider that can do its IP version, unless two checks were under way at once or
\* the definition could not be read.
THEOREM SavedIsVouchedFor == PartsSpec => []SavedIsSupported
<1>1. PartsInit => DdnsInv
  BY DdnsStart DEF PartsInit
<1>2. DdnsInv /\ [PartsNext]_<<part, fieldVars, fileVars, viewVars, rowVars, wifiVars, freqVars, ddnsVars, vars, netVars>>
        => DdnsInv'
  BY DdnsStep DEF PartsNext
<1>3. DdnsInv => SavedIsSupported
  BY DEF DdnsInv
<1>. QED BY <1>1, <1>2, <1>3, PTL DEF PartsSpec

-----------------------------------------------------------------------------
(* The file field.                                                         *)

\* Listings are of directories, removals and uploads of entries.
FileCalls ==
    [kind : {"open", "list"}, path : Places, found : SUBSET Paths,
     reply : {"none", "done", "failed"}, linked : BOOLEAN]
    \cup [kind : {"remove", "upload"}, path : Paths, found : SUBSET Paths,
          reply : {"none", "done", "failed"}, linked : BOOLEAN]

\* Removals that take the chosen file along are known to.
Doomed ==
    \A c \in calls : c.kind = "remove" /\ hidden # NoFile /\ Within(hidden, c.path) => doomed

FileInv ==
    /\ disk \subseteq Paths
    /\ hidden \in Paths \cup {NoFile}
    /\ stat \in Paths \cup {NoFile}
    /\ browser \in BrowserType
    /\ calls \subseteq FileCalls
    /\ doomed \in BOOLEAN
    /\ Doomed
    /\ FileIsShown

\* What the file browser sends.
LEMMA CallType ==
    /\ \A d \in Places : Call("open", d) \in FileCalls /\ Call("list", d) \in FileCalls
    /\ \A e \in Paths : Call("remove", e) \in FileCalls /\ Call("upload", e) \in FileCalls
BY DEF Call, FileCalls

\* A request that lost its place in the page is the same request.
LEMMA UnlinkedType ==
    ASSUME NEW cs \in SUBSET FileCalls, NEW kinds
    PROVE  /\ Unlinked(cs, kinds) \subseteq FileCalls
           /\ \A c \in Unlinked(cs, kinds) :
                \E d \in cs : c.kind = d.kind /\ c.path = d.path
<1>1. ASSUME NEW d \in cs
      PROVE  LET c == [d EXCEPT !.linked = @ /\ d.kind \notin kinds]
             IN c \in FileCalls /\ c.kind = d.kind /\ c.path = d.path
  <2>. DEFINE l == d.linked /\ d.kind \notin kinds
              c == [d EXCEPT !.linked = l]
  <2>1. d \in FileCalls /\ l \in BOOLEAN
    BY DEF FileCalls
  <2>. HIDE DEF l
  <2>2. c \in FileCalls
    BY <2>1 DEF FileCalls
  <2>3. c.kind = d.kind /\ c.path = d.path
    BY <2>1 DEF FileCalls
  <2>. QED BY <2>2, <2>3 DEF l
<1>. QED BY <1>1 DEF Unlinked

\* The first state of the field.
LEMMA FileStart == FileInit \/ NoFileField => FileInv
<1>1. Closed \in BrowserType /\ Closed.open = FALSE
  BY DEF Closed, BrowserType, Places
<1>. QED BY <1>1 DEF FileInit, NoFileField, FileInv, Doomed, FileIsShown

\* Requests that delete nothing more.
LEMMA SameDeletions ==
    ASSUME FileInv, \A c \in calls' : c.kind # "remove" \/ \E d \in calls : c.kind = d.kind /\ c.path = d.path,
           hidden' \in {hidden, NoFile}, doomed => doomed'
    PROVE  Doomed'
BY DEF FileInv, Doomed

\* Every step of the field keeps the invariant.
LEMMA FileStep == FileInv /\ (FileNext \/ UNCHANGED fileVars) => FileInv'
<1>. SUFFICES ASSUME FileInv, FileNext \/ UNCHANGED fileVars PROVE FileInv'
  OBVIOUS
<1>0. /\ stat \in Paths \cup {NoFile} /\ disk \subseteq Paths /\ hidden \in Paths \cup {NoFile} /\ browser \in BrowserType
      /\ calls \subseteq FileCalls /\ doomed \in BOOLEAN
      /\ label = hidden
      /\ browser.open /\ hidden # NoFile /\ Visible(hidden) => browser.bold = hidden
      /\ browser.open /\ browser.bold # NoFile => hidden \in {browser.bold, NoFile}
      /\ hidden # NoFile /\ hidden \notin disk => doomed
  BY DEF FileInv, FileIsShown
<1>1. CASE OpenBrowser
  <2>1. PICK p \in Places : calls' = calls \cup {Call("open", p)}
    <3>1. Root \in Places /\ (stat # NoFile => DirOf[stat] \in Places)
      BY <1>0, BrowserAssumption DEF Paths, Places
    <3>. QED BY <1>1, <3>1 DEF OpenBrowser
  <2>2. Call("open", p) \in FileCalls /\ Call("open", p).kind = "open"
    BY CallType DEF Call
  <2>3. Doomed'
    BY <1>1, <2>1, <2>2, SameDeletions DEF OpenBrowser
  <2>. QED BY <1>0, <1>1, <2>1, <2>2, <2>3 DEF OpenBrowser, FileInv, FileIsShown, Visible
<1>2. CASE EnterFolder
  <2>1. PICK d \in Places : calls' = Spin(calls) \cup {Call("list", d)}
    BY <1>2 DEF EnterFolder
  <2>3. Call("list", d) \in FileCalls /\ Call("list", d).kind = "list"
    BY CallType DEF Call
  <2>4. /\ Spin(calls) \subseteq FileCalls
        /\ \A c \in Spin(calls) : \E e \in calls : c.kind = e.kind /\ c.path = e.path
    BY <1>0, UnlinkedType DEF Spin
  <2>5. Doomed'
    BY <1>2, <2>1, <2>3, <2>4, SameDeletions DEF EnterFolder
  <2>6. browser' \in BrowserType /\ browser'.spinning = TRUE /\ browser'.bold = browser.bold
        /\ browser'.open = browser.open
    BY <1>0, <1>2 DEF EnterFolder, BrowserType
  <2>. QED BY <1>0, <1>2, <2>1, <2>3, <2>4, <2>5, <2>6 DEF EnterFolder, FileInv, FileIsShown, Visible
<1>3. CASE SelectFile
  <2>1. PICK f \in Paths \ Folders :
          /\ hidden' = f /\ label' = f /\ stat' = f
          /\ doomed' = (f \notin disk \/ \E c \in calls : c.kind = "remove" /\ Within(f, c.path))
    BY <1>3 DEF SelectFile
  <2>2. browser' \in BrowserType /\ browser'.open = FALSE
    BY <1>0, <1>3 DEF SelectFile, BrowserType
  <2>3. calls' = calls /\ disk' = disk
    BY <1>3 DEF SelectFile
  <2>. QED BY <1>0, <2>1, <2>2, <2>3 DEF FileInv, FileIsShown, Doomed
<1>4. CASE CancelBrowser
  <2>1. browser' \in BrowserType /\ browser'.open = FALSE
    BY <1>0, <1>4 DEF CancelBrowser, BrowserType
  <2>. QED BY <1>0, <1>4, <2>1 DEF CancelBrowser, FileInv, FileIsShown, Doomed
<1>5. CASE Deselect
  <2>1. browser' \in BrowserType /\ browser'.open = FALSE
    BY <1>0, <1>5 DEF Deselect, BrowserType
  <2>. QED BY <1>0, <1>5, <2>1 DEF Deselect, FileInv, FileIsShown, Doomed
<1>6. CASE DeleteEntry
  <2>1. PICK e \in Paths :
          /\ calls' = calls \cup {Call("remove", e)}
          /\ hidden' = AfterDelete(e, hidden)
          /\ label' = AfterDelete(e, label)
          /\ doomed' = (doomed \/ (hidden \notin {e, NoFile} /\ Within(hidden, e)))
    BY <1>6 DEF DeleteEntry
  <2>2. /\ Call("remove", e) \in FileCalls /\ Call("remove", e).kind = "remove"
        /\ Call("remove", e).path = e
    BY CallType DEF Call
  <2>3. disk' = disk /\ browser' = browser /\ stat' = stat
    BY <1>6 DEF DeleteEntry
  <2>4. hidden' = (IF e = hidden THEN NoFile ELSE hidden) /\ label' = hidden'
    BY <1>0, <2>1 DEF AfterDelete
  <2>5. Doomed'
    <3>1. ASSUME NEW c \in calls', c.kind = "remove", hidden' # NoFile, Within(hidden', c.path)
          PROVE  doomed'
      <4>1. hidden' = hidden /\ hidden # e
        BY <2>4, <3>1
      <4>2. CASE c \in calls
        BY <2>1, <3>1, <4>1, <4>2 DEF FileInv, Doomed
      <4>3. CASE c = Call("remove", e)
        BY <2>1, <2>2, <3>1, <4>1, <4>3
      <4>. QED BY <2>1, <4>2, <4>3
    <3>. QED BY <3>1 DEF Doomed
  <2>. QED BY <1>0, <2>1, <2>2, <2>3, <2>4, <2>5 DEF FileInv, FileIsShown, Visible
<1>7. CASE UploadFile
  <2>1. PICK e \in Paths : calls' = calls \cup {Call("upload", e)}
    BY <1>7 DEF UploadFile
  <2>2. Call("upload", e) \in FileCalls /\ Call("upload", e).kind = "upload"
    BY CallType DEF Call
  <2>3. Doomed'
    BY <1>7, <2>1, <2>2, SameDeletions DEF UploadFile
  <2>. QED BY <1>0, <1>7, <2>1, <2>2, <2>3 DEF UploadFile, FileInv, FileIsShown, Visible
<1>8. CASE Serve
  <2>1. PICK c \in calls, reply \in {"done", "failed"}, found \in SUBSET Paths :
          /\ calls' = (calls \ {c}) \cup {[c EXCEPT !.reply = reply, !.found = found]}
          /\ \/ disk' = disk
             \/ c.kind = "remove" /\ disk' = {e \in disk : ~ Within(e, c.path)}
             \/ c.path \in Paths /\ disk' = disk \cup {c.path}
    <3>. DEFINE R(c, reply, found) ==
           calls' = (calls \ {c}) \cup {[c EXCEPT !.reply = reply, !.found = found]}
    <3>1. PICK c \in calls :
            \/ /\ c.kind \in {"open", "list"} /\ UNCHANGED disk
               /\ \E found \in {{}, Inside(c.path)} : R(c, "done", found)
            \/ c.kind = "remove" /\ c.path \in disk
                 /\ R(c, "done", {}) /\ disk' = {e \in disk : ~ Within(e, c.path)}
            \/ c.kind = "upload" /\ DirOf[c.path] \in disk \cup {Root}
                 /\ c.path \notin Folders
                 /\ R(c, "done", {}) /\ disk' = disk \cup {c.path}
            \/ c.kind \in {"remove", "upload"} /\ R(c, "failed", {}) /\ UNCHANGED disk
      BY <1>8 DEF Serve
    <3>2. Inside(c.path) \in SUBSET Paths
      BY <1>0 DEF Inside
    <3>3. c.kind = "upload" => c.path \in Paths
      BY <1>0 DEF FileCalls
    <3>. HIDE DEF R
    <3>4. \E reply \in {"done", "failed"}, found \in SUBSET Paths :
            /\ R(c, reply, found)
            /\ \/ disk' = disk
               \/ c.kind = "remove" /\ disk' = {e \in disk : ~ Within(e, c.path)}
               \/ c.path \in Paths /\ disk' = disk \cup {c.path}
      BY <3>1, <3>2, <3>3
    <3>. QED BY <3>4 DEF R
  <2>. DEFINE d == [c EXCEPT !.reply = reply, !.found = found]
  <2>2. d \in FileCalls /\ d.kind = c.kind /\ d.path = c.path
    BY <1>0 DEF FileCalls
  <2>. HIDE DEF d
  <2>3. hidden' = hidden /\ label' = label /\ browser' = browser /\ doomed' = doomed
        /\ stat' = stat
    BY <1>8 DEF Serve
  <2>4. calls' \subseteq FileCalls
    BY <1>0, <2>1, <2>2 DEF d
  <2>5. \A a \in calls' : \E b \in calls : a.kind = b.kind /\ a.path = b.path
    BY <2>1, <2>2 DEF d
  <2>6. Doomed'
    BY <2>3, <2>5, SameDeletions
  <2>7. disk' \subseteq Paths
    BY <1>0, <2>1
  <2>8. hidden # NoFile /\ hidden \notin disk' => doomed
    BY <1>0, <2>1 DEF FileInv, Doomed
  <2>. QED BY <1>0, <2>3, <2>4, <2>6, <2>7, <2>8 DEF FileInv, FileIsShown, Visible
<1>9. CASE ListingCame
  <2>1. PICK c \in calls :
          /\ c.kind \in {"open", "list"}
          /\ browser' = Listing(c, browser.open \/ c.kind = "open")
          /\ calls' = Unlinked(calls \ {c}, {"remove", "upload"})
    BY <1>9 DEF ListingCame
  <2>2. /\ calls' \subseteq FileCalls
        /\ \A a \in calls' : \E b \in calls : a.kind = b.kind /\ a.path = b.path
    BY <1>0, <2>1, UnlinkedType
  <2>3. disk' = disk /\ hidden' = hidden /\ label' = label /\ doomed' = doomed /\ stat' = stat
    BY <1>9 DEF ListingCame
  <2>4. Doomed'
    BY <2>2, <2>3, SameDeletions
  <2>5. c.kind \in {"open", "list"} /\ c.path \in Places /\ c.found \subseteq Paths
    BY <1>0, <2>1 DEF FileCalls
  <2>6. /\ browser'.bold = (IF hidden \in c.found THEN hidden ELSE NoFile)
        /\ browser'.list = c.found
        /\ browser' \in BrowserType
    <3>1. (browser.open \/ c.kind = "open") \in BOOLEAN
      BY <1>0 DEF BrowserType
    <3>. QED BY <1>0, <2>1, <2>5, <3>1 DEF Listing, BrowserType
  <2>. QED BY <1>0, <2>2, <2>3, <2>4, <2>6 DEF FileInv, FileIsShown, Visible
<1>10. CASE Over
  <2>1. PICK c \in calls :
          \/ /\ browser' = [browser EXCEPT !.spinning = TRUE]
             /\ calls' = Spin(calls \ {c}) \cup {Call("list", DirOf[c.path])}
             /\ c.kind \in {"remove", "upload"}
          \/ calls' = calls \ {c} /\ UNCHANGED browser
    BY <1>10 DEF Over
  <2>2. disk' = disk /\ hidden' = hidden /\ label' = label /\ doomed' = doomed /\ stat' = stat
    BY <1>10 DEF Over
  <2>3. CASE calls' = calls \ {c} /\ UNCHANGED browser
    <3>1. Doomed'
      BY <2>2, <2>3, SameDeletions
    <3>. QED BY <1>0, <2>2, <2>3, <3>1 DEF FileInv, FileIsShown, Visible
  <2>4. CASE /\ browser' = [browser EXCEPT !.spinning = TRUE]
             /\ calls' = Spin(calls \ {c}) \cup {Call("list", DirOf[c.path])}
             /\ c.kind \in {"remove", "upload"}
    <3>1. c.path \in Paths
      BY <1>0, <2>4 DEF FileCalls
    <3>2. DirOf[c.path] \in Places
      BY <3>1, BrowserAssumption DEF Paths, Places
    <3>. DEFINE new == Call("list", DirOf[c.path])
    <3>3. new \in FileCalls /\ new.kind = "list"
      BY <3>2, CallType DEF Call
    <3>4. /\ Spin(calls \ {c}) \subseteq FileCalls
          /\ \A a \in Spin(calls \ {c}) : \E b \in calls : a.kind = b.kind /\ a.path = b.path
      BY <1>0, UnlinkedType DEF Spin
    <3>. HIDE DEF new
    <3>5. calls' \subseteq FileCalls
          /\ \A a \in calls' : a.kind # "remove" \/ \E b \in calls : a.kind = b.kind /\ a.path = b.path
      BY <2>4, <3>3, <3>4 DEF new
    <3>6. Doomed'
      BY <2>2, <3>5, SameDeletions
    <3>7. browser' \in BrowserType /\ browser'.spinning = TRUE /\ browser'.bold = browser.bold
          /\ browser'.open = browser.open
      BY <1>0, <2>4 DEF BrowserType
    <3>. QED BY <1>0, <2>2, <3>5, <3>6, <3>7 DEF FileInv, FileIsShown, Visible
  <2>. QED BY <2>1, <2>3, <2>4
<1>11. CASE UNCHANGED fileVars
  BY <1>11 DEF fileVars, FileInv, Doomed, FileIsShown, Visible
<1>. QED
  BY <1>1, <1>2, <1>3, <1>4, <1>5, <1>6, <1>7, <1>8, <1>9, <1>10, <1>11 DEF FileNext

\* UIFileUpload: the file that is handed to the form is the one on the button, and the one
\* that an open list shows as chosen, whatever listings, removals and uploads are under
\* way; it is gone from the device only if the page deleted it, or what it lies in.
THEOREM FileAlwaysShown == PartsSpec => []FileIsShown
<1>1. PartsInit => FileInv
  BY FileStart DEF PartsInit
<1>2. FileInv /\ [PartsNext]_<<part, fieldVars, fileVars, viewVars, rowVars, wifiVars, freqVars, ddnsVars, vars, netVars>>
        => FileInv'
  BY FileStep DEF PartsNext
<1>3. FileInv => FileIsShown
  BY DEF FileInv
<1>. QED BY <1>1, <1>2, <1>3, PTL DEF PartsSpec

-----------------------------------------------------------------------------
(* What network.js knows of the device.                                    *)

Answers == {"radios", "netdevs"}
Dates == [Answers -> Nat]

IsLoad(l) ==
    /\ DOMAIN l = {"id", "listing", "overtaken", "got", "radios", "netdevs", "at"}
    /\ l = [x \in DOMAIN l |-> l[x]]
    /\ l.listing \in BOOLEAN /\ l.overtaken \in BOOLEAN
    /\ l.got \subseteq Answers
    /\ l.listing => l.got = Answers
    /\ l.at \in Dates

\* A reading that was not overtaken has what it got later than everybody else.
IsLatest(l) ==
    \A w \in l.got : (\A k \in netState : k.at[w] <= l.at[w]) /\ (\A m \in loads : m.at[w] <= l.at[w])

\* At most one reading is not overtaken; the overtaken ones ask hostapd.
NetInv ==
    /\ news \in Nat
    /\ \A l \in loads : IsLoad(l) /\ \A w \in Answers : l.at[w] <= news
    /\ \A k \in netState : k.at \in Dates /\ \A w \in Answers : k.at[w] <= news
    /\ \A k, m \in netState : k = m
    /\ \A l \in loads : l.overtaken => l.listing
    /\ \A l, m \in loads : l = m \/ l.overtaken \/ m.overtaken
    /\ \A l \in loads : l.overtaken \/ IsLatest(l)

\* The first state of the page.
LEMMA NetStart == NetInit \/ NoNetState => NetInv
BY DEF NetInit, NoNetState, NetInv

\* A reading that is overtaken is otherwise as it was.
LEMMA Overtaken ==
    ASSUME NEW l, IsLoad(l), NEW m, m = [l EXCEPT !.overtaken = TRUE]
    PROVE  /\ IsLoad(m) /\ m.overtaken /\ m.listing = l.listing /\ m.got = l.got
           /\ m.at = l.at
BY DEF IsLoad

\* So is one that begins to ask hostapd.
LEMMA ListingBegan ==
    ASSUME NEW l, IsLoad(l), l.got = Answers, NEW m, m = [l EXCEPT !.listing = TRUE]
    PROVE  /\ IsLoad(m) /\ m.overtaken = l.overtaken /\ m.listing /\ m.got = l.got
           /\ m.at = l.at
BY DEF IsLoad

\* What Answer makes of a reading.
WithAnswer(l, what, data, date) == [l EXCEPT !.got = @ \cup {what}, ![what] = data, !.at[what] = date]

\* An answer is dated.
LEMMA Answered ==
    ASSUME NEW l, IsLoad(l), NEW what \in Answers, NEW data, NEW date \in Nat, ~ l.listing,
           NEW m, m = WithAnswer(l, what, data, date)
    PROVE  /\ IsLoad(m) /\ m.overtaken = l.overtaken /\ m.listing = l.listing
           /\ m.got = l.got \cup {what}
           /\ m.at[what] = date /\ \A w \in Answers \ {what} : m.at[w] = l.at[w]
<1>1. CASE what = "radios"
  BY <1>1 DEF IsLoad, Answers, Dates, WithAnswer
<1>2. CASE what = "netdevs"
  BY <1>2 DEF IsLoad, Answers, Dates, WithAnswer
<1>. QED BY <1>1, <1>2 DEF Answers

\* A reading starts only when every other one asks hostapd already.
LEMMA ReadingStarts ==
    ASSUME NetInv, NEW refresh, InitNetworkState(refresh)
    PROVE  NetInv'
<1>. DEFINE new == NewLoad(asks)
            old == {[l EXCEPT !.overtaken = TRUE] : l \in loads}
<1>1. netState' = netState /\ news' = news /\ news \in Nat /\ loads' = old \cup {new}
  BY DEF InitNetworkState, NetInv
<1>2. IsLoad(new) /\ new.got = {} /\ ~ new.overtaken /\ \A w \in Answers : new.at[w] = 0
  BY DEF NewLoad, IsLoad, Answers, Dates
<1>3. ASSUME NEW m \in old
      PROVE  IsLoad(m) /\ m.overtaken /\ m.listing /\ \A w \in Answers : m.at[w] <= news
  <2>1. PICK l \in loads : m = [l EXCEPT !.overtaken = TRUE]
    OBVIOUS
  <2>2. IsLoad(l) /\ l.listing /\ \A w \in Answers : l.at[w] <= news
    BY DEF NetInv, InitNetworkState, MayLoad
  <2>. QED BY <2>1, <2>2, Overtaken
<1>. HIDE DEF new, old
<1>. QED BY <1>1, <1>2, <1>3 DEF NetInv, IsLatest

\* An answer makes its reading the latest in what it brought.
LEMMA ReadingAnswered ==
    ASSUME NetInv, NEW l \in loads, NEW what \in Answers, NEW data, Answer(l, what, data)
    PROVE  NetInv'
<1>. PICK m : m = [l EXCEPT !.got = @ \cup {what}, ![what] = data, !.at[what] = news]
  OBVIOUS
<1>1. /\ netState' = netState /\ news' = news /\ news \in Nat
      /\ loads' = (loads \ {l}) \cup {m} /\ what \notin l.got
  BY DEF Answer, NetInv
<1>2. IsLoad(l) /\ ~ l.listing /\ ~ l.overtaken
  BY <1>1 DEF NetInv, IsLoad
<1>3. /\ IsLoad(m) /\ m.overtaken = l.overtaken /\ m.listing = l.listing
      /\ m.got = l.got \cup {what}
      /\ m.at[what] = news /\ \A w \in Answers \ {what} : m.at[w] = l.at[w]
  <2>1. news \in Nat /\ what \in Answers /\ IsLoad(l) /\ ~ l.listing
        /\ m = WithAnswer(l, what, data, news)
    BY <1>1, <1>2 DEF WithAnswer
  <2>. QED BY ONLY <2>1, Answered
<1>4. \A n \in loads \ {l} : n.overtaken /\ n.listing
  BY <1>2 DEF NetInv
<1>5. \A n \in loads' : IsLoad(n) /\ \A w \in Answers : n.at[w] <= news
  <2>1. \A w \in Answers : l.at[w] <= news
    BY DEF NetInv
  <2>2. \A w \in Answers : m.at[w] <= news
    BY <1>1, <1>3, <2>1
  <2>3. \A n \in loads : IsLoad(n) /\ \A w \in Answers : n.at[w] <= news
    BY DEF NetInv
  <2>. QED BY <1>1, <1>3, <2>2, <2>3
<1>6. m.got \subseteq Answers
  BY <1>3 DEF IsLoad
<1>7. \A w \in m.got :
        (\A k \in netState' : k.at[w] <= m.at[w]) /\ (\A n \in loads' : n.at[w] <= m.at[w])
  <2>1. ASSUME NEW w \in m.got
        PROVE  (\A k \in netState : k.at[w] <= m.at[w]) /\ (\A n \in loads' : n.at[w] <= m.at[w])
    <3>1. CASE w = what
      <4>1. what \in Answers /\ \A k \in netState : \A v \in Answers : k.at[v] <= news
        BY DEF NetInv
      <4>2. m.at[w] = news
        BY <1>3, <3>1
      <4>3. (\A k \in netState : k.at[w] <= news) /\ (\A n \in loads' : n.at[w] <= news)
        BY <1>5, <3>1, <4>1
      <4>. QED BY <4>2, <4>3
    <3>2. CASE w # what
      <4>1. w \in l.got /\ m.at[w] = l.at[w]
        BY <1>3, <1>6, <3>2
      <4>2. IsLatest(l)
        BY <1>2 DEF NetInv
      <4>3. l.at[w] <= l.at[w]
        BY <4>1, <4>2 DEF IsLatest
      <4>. QED BY <1>1, <4>1, <4>2, <4>3 DEF IsLatest
    <3>. QED BY <3>1, <3>2
  <2>. QED BY <1>1, <2>1
<1>8. \A n \in loads' : n.overtaken \/ IsLatest(n)'
  BY <1>1, <1>4, <1>7 DEF IsLatest
<1>. QED BY <1>1, <1>2, <1>3, <1>4, <1>5, <1>8 DEF NetInv

\* A reading ends: what it has is kept.
LEMMA ReadingEnds ==
    ASSUME NetInv, NEW l \in loads, l.got = Answers, Keep(l), loads' = loads \ {l}, news' = news
    PROVE  /\ NetInv'
           /\ \A k \in netState, m \in netState' :
                \/ k.at["radios"] <= m.at["radios"] /\ k.at["netdevs"] <= m.at["netdevs"]
                \/ \E n \in loads \ loads' : n.overtaken
<1>. DEFINE new == [radios |-> l.radios, netdevs |-> l.netdevs, at |-> l.at]
<1>1. netState' = {new} /\ new.at = l.at
  BY DEF Keep
<1>. HIDE DEF new
<1>2. l.at \in Dates /\ \A w \in Answers : l.at[w] <= news
  BY DEF NetInv, IsLoad
<1>3. ASSUME NEW m \in loads', ~ m.overtaken
      PROVE  IsLatest(m)'
  BY <1>1, <1>3 DEF NetInv, IsLatest
<1>4. NetInv'
  BY <1>1, <1>2, <1>3 DEF NetInv
<1>5. ASSUME NEW k \in netState, NEW m \in netState', ~ l.overtaken
      PROVE  k.at["radios"] <= m.at["radios"] /\ k.at["netdevs"] <= m.at["netdevs"]
  BY <1>1, <1>5 DEF NetInv, IsLatest, Answers
<1>. QED BY <1>4, <1>5

\* Every step of the part keeps the invariant, and what is known does not become older.
LEMMA NetStep ==
    ASSUME NetInv, NetNext \/ UNCHANGED netVars
    PROVE  /\ NetInv'
           /\ \A k \in netState, m \in netState' :
                \/ k.at["radios"] <= m.at["radios"] /\ k.at["netdevs"] <= m.at["netdevs"]
                \/ \E l \in loads \ loads' : l.overtaken
<1>. DEFINE Advances == \A k \in netState, m \in netState' :
                \/ k.at["radios"] <= m.at["radios"] /\ k.at["netdevs"] <= m.at["netdevs"]
                \/ \E l \in loads \ loads' : l.overtaken
<1>1. ASSUME netState' = netState
      PROVE  Advances
  <2>1. \A k \in netState : k.at["radios"] \in Nat /\ k.at["netdevs"] \in Nat
    BY DEF NetInv, Dates, Answers
  <2>. QED BY <1>1, <2>1 DEF NetInv
<1>2. ASSUME UNCHANGED <<loads, netState, news>>
      PROVE  NetInv'
  BY <1>2 DEF NetInv, IsLatest
<1>3. ASSUME NEW refresh, InitNetworkState(refresh)
      PROVE  NetInv' /\ Advances
  <2>1. netState' = netState
    BY <1>3 DEF InitNetworkState
  <2>. HIDE DEF Advances
  <2>. QED BY <1>1, <1>3, <2>1, ReadingStarts
<1>4. ASSUME NEW l \in loads, NEW what \in Answers, NEW data, Answer(l, what, data)
      PROVE  NetInv' /\ Advances
  <2>1. netState' = netState
    BY <1>4 DEF Answer
  <2>. HIDE DEF Advances
  <2>. QED BY <1>1, <1>4, <2>1, ReadingAnswered
<1>5. ASSUME NEW l \in loads, DataHere(l)
      PROVE  NetInv' /\ Advances
  <2>1. l.got = Answers /\ news' = news /\ ~ l.listing
    BY <1>5 DEF DataHere, Answers
  <2>2. CASE loads' = loads \ {l} /\ Keep(l)
    BY <2>1, <2>2, ReadingEnds
  <2>3. CASE loads' = (loads \ {l}) \cup {[l EXCEPT !.listing = TRUE]} /\ UNCHANGED netState
    <3>. DEFINE m == [l EXCEPT !.listing = TRUE]
    <3>1. /\ IsLoad(m) /\ m.overtaken = l.overtaken /\ m.listing /\ m.got = l.got
          /\ m.at = l.at
      BY <2>1, ListingBegan DEF NetInv
    <3>2. loads' = (loads \ {l}) \cup {m} /\ netState' = netState
      BY <2>3
    <3>. HIDE DEF m, Advances
    <3>3. \A n \in loads' : n.overtaken \/ IsLatest(n)'
      BY <3>1, <3>2 DEF NetInv, IsLatest
    <3>4. NetInv'
      BY <2>1, <3>1, <3>2, <3>3 DEF NetInv
    <3>. QED BY <1>1, <3>2, <3>4
  <2>. HIDE DEF Advances
  <2>. QED BY <1>5, <2>2, <2>3 DEF DataHere
<1>6. ASSUME NEW l \in loads, HostapdListed(l)
      PROVE  NetInv' /\ Advances
  <2>1. l.got = Answers
    BY <1>6 DEF HostapdListed, NetInv, IsLoad
  <2>2. loads' = loads \ {l} /\ Keep(l) /\ news' = news
    BY <1>6 DEF HostapdListed
  <2>. QED BY <2>1, <2>2, ReadingEnds
<1>7. ASSUME WifiReconf
      PROVE  NetInv' /\ Advances
  <2>1. netState' = netState /\ loads' = loads /\ news' = news + 1
    BY <1>7 DEF WifiReconf
  <2>2. \A l \in loads : \A w \in Answers : l.at[w] \in Nat
    BY DEF NetInv, IsLoad, Dates
  <2>3. \A k \in netState : \A w \in Answers : k.at[w] \in Nat
    BY DEF NetInv, Dates
  <2>4. NetInv'
    BY <2>1, <2>2, <2>3 DEF NetInv, IsLatest
  <2>. HIDE DEF Advances
  <2>. QED BY <1>1, <2>1, <2>4
<1>8. ASSUME UNCHANGED <<loads, netState, news>>
      PROVE  NetInv' /\ Advances
  <2>1. netState' = netState
    BY <1>8
  <2>. HIDE DEF Advances
  <2>. QED BY <1>1, <1>2, <1>8, <2>1
<1>9. ASSUME UNCHANGED netVars \/ EditSections \/ \E s : GetSection(s)
      PROVE  UNCHANGED <<loads, netState, news>>
  BY <1>9 DEF netVars, EditSections, GetSection
<1>10. ASSUME NetNext
       PROVE  \/ \E refresh : InitNetworkState(refresh)
              \/ \E l \in loads : \/ DataHere(l) \/ HostapdListed(l)
                                 \/ \E what \in Answers : \E data : Answer(l, what, data)
              \/ WifiReconf
              \/ EditSections \/ \E s : GetSection(s)
  <2>1. "radios" \in Answers /\ "netdevs" \in Answers
    BY DEF Answers
  <2>. HIDE DEF Answers
  <2>. QED BY <1>10, <2>1
    DEF NetNext, FlushCache, AddWifiSection, DeleteWifiSection, JoinNetwork, LeaveNetwork
<1>. HIDE DEF Advances
<1>11. NetInv' /\ Advances
  BY <1>3, <1>4, <1>5, <1>6, <1>7, <1>8, <1>9, <1>10
<1>. QED BY <1>11 DEF Advances

\* initNetworkState: _init lets everyone share the reading under way, so _state is only ever
\* replaced by what was read later, or by a reading that another was started behind.
THEOREM ReadingsAdvance == PartsSpec => StateAdvances
<1>1. PartsInit => NetInv
  BY NetStart DEF PartsInit
<1>2. NetInv /\ [PartsNext]_<<part, fieldVars, fileVars, viewVars, rowVars, wifiVars, freqVars, ddnsVars, vars, netVars>>
        => NetInv'
  BY NetStep DEF PartsNext
<1>3. NetInv /\ [PartsNext]_<<part, fieldVars, fileVars, viewVars, rowVars, wifiVars, freqVars, ddnsVars, vars, netVars>>
        => [\A k \in netState, m \in netState' :
              \/ k.at["radios"] <= m.at["radios"] /\ k.at["netdevs"] <= m.at["netdevs"]
              \/ \E l \in loads \ loads' : l.overtaken]_netVars
  BY NetStep DEF PartsNext
<1>. QED BY <1>1, <1>2, <1>3, PTL DEF PartsSpec, StateAdvances

-----------------------------------------------------------------------------
(* The names of wireless networks.                                         *)

\* What runs, as a reading has it: no section has an ifname of another.
RunsApart(f) ==
    /\ DOMAIN f \subseteq WifiSecs
    /\ \A s \in DOMAIN f : f[s] \subseteq Ifnames
    /\ \A s, t \in DOMAIN f : \A i \in f[s] : i \in f[t] => s = t

\* The devices of a reading: a wireless one is that of a network that runs.
DevicesApart(D) ==
    \A d \in D : (d.wireless => d.name \in Ifnames) /\ (~ d.wireless => d.name \in Wired)

NamesInv ==
    /\ order \in Seq(WifiSecs)
    /\ \A i, j \in DOMAIN order : order[i] = order[j] => i = j
    /\ RunsApart(running)
    /\ \A l \in loads : RunsApart(l.radios) /\ DevicesApart(l.netdevs)
    /\ \A k \in netState : RunsApart(k.radios) /\ DevicesApart(k.netdevs)

\* What a configured section runs as, the name it goes by, and the network.
RunsOf(s) == {Dev(i) : i \in UNION {RunsAs[t] : t \in DOMAIN RunsAs \cap {s}}}
NameOf(s) == IF RunsOf(s) # {} THEN RunsOf(s) ELSE NetidBySid(s)
NetworkOf(s) == [sid |-> {s}, netid |-> NetidBySid(s), ifname |-> NameOf(s)]

\* Nothing runs twice of what is known.
LEMMA KnownApart ==
    ASSUME NamesInv
    PROVE  RunsApart(RunsAs) /\ DevicesApart(KnownDevs)
<1>1. RunsApart(<<>>)
  BY DEF RunsApart
<1>2. CASE netState = {}
  BY <1>1, <1>2 DEF RunsAs, KnownDevs, DevicesApart
<1>3. CASE netState # {}
  <2>1. PICK k \in netState : RunsAs = k.radios
    BY <1>3 DEF RunsAs
  <2>. QED BY <2>1 DEF NamesInv, KnownDevs, DevicesApart
<1>. QED BY <1>2, <1>3

\* Sections of one radio have different places.
LEMMA PlacesDiffer ==
    ASSUME order \in Seq(WifiSecs), NEW i \in DOMAIN order, NEW j \in DOMAIN order,
           RadioOf[order[i]] = RadioOf[order[j]], Place(i) = Place(j)
    PROVE  i = j
<1>. DEFINE Mates(n) == {h \in 1..n : RadioOf[order[h]] = RadioOf[order[n]]}
<1>0. PICK len : len = Len(order)
  OBVIOUS
<1>1. len \in Nat /\ DOMAIN order = 1..len
  BY <1>0
<1>2. i \in Nat /\ j \in Nat /\ 1 <= i /\ 1 <= j
  BY <1>1
<1>3. Place(i) = Cardinality(Mates(i)) /\ Place(j) = Cardinality(Mates(j))
  BY DEF Place
<1>4. IsFiniteSet(1..i) /\ IsFiniteSet(1..j)
  BY <1>2, FS_Interval
<1>5. Mates(i) \in SUBSET (1..i) /\ Mates(j) \in SUBSET (1..j)
  OBVIOUS
<1>6. IsFiniteSet(Mates(i)) /\ IsFiniteSet(Mates(j))
  BY <1>4, <1>5, FS_Subset
<1>7. i \in Mates(i) /\ j \in Mates(j)
  BY <1>2
<1>8. ASSUME i < j
      PROVE  FALSE
  <2>1. Mates(i) \in SUBSET Mates(j) /\ j \notin Mates(i)
    BY <1>2, <1>8
  <2>. QED BY <1>3, <1>6, <1>7, <2>1, FS_Subset
<1>9. ASSUME j < i
      PROVE  FALSE
  <2>1. Mates(j) \in SUBSET Mates(i) /\ i \notin Mates(j)
    BY <1>2, <1>9
  <2>. QED BY <1>3, <1>6, <1>7, <2>1, FS_Subset
<1>. QED BY <1>2, <1>8, <1>9

\* A configured section is at one place.
LEMMA OnePlace ==
    ASSUME NamesInv, NEW s \in ToSet(order)
    PROVE  \E i \in DOMAIN order : order[i] = s /\ NetidBySid(s) = {Netid(RadioOf[s], Place(i))}
<1>1. PICK i \in DOMAIN order : order[i] = s
  BY DEF ToSet
<1>2. {j \in DOMAIN order : order[j] = s} = {i}
  BY <1>1 DEF NamesInv
<1>. QED BY <1>1, <1>2 DEF NetidBySid

\* The name by its place finds a section, whatever runs.
LEMMA FoundByNetid ==
    ASSUME NamesInv, NEW s \in ToSet(order), NEW x \in NetidBySid(s)
    PROVE  SidByNetid(x) = {s} /\ SidByIfname(x) = {s} /\ NetidBySid(s) = {x} /\ x[1] = "netid"
<1>1. PICK i \in DOMAIN order : order[i] = s /\ NetidBySid(s) = {Netid(RadioOf[s], Place(i))}
  BY OnePlace
<1>2. x = <<"netid", RadioOf[s], Place(i)>>
  BY <1>1 DEF Netid
<1>3. x[1] = "netid" /\ x[2] = RadioOf[s] /\ x[3] = Place(i)
  BY <1>2
<1>4. \A j \in DOMAIN order : RadioOf[order[j]] = x[2] /\ Place(j) = x[3] => j = i
  BY <1>1, <1>3, PlacesDiffer DEF NamesInv
<1>5. {j \in DOMAIN order : RadioOf[order[j]] = x[2] /\ Place(j) = x[3]} = {i}
  BY <1>1, <1>3, <1>4
<1>6. SidByNetid(x) = {s}
  BY <1>1, <1>3, <1>5 DEF SidByNetid
<1>. QED BY <1>1, <1>2, <1>3, <1>6 DEF SidByIfname, Netid

\* The name of the interface that runs it finds a section that does.
LEMMA FoundByIfname ==
    ASSUME NamesInv, NEW s, NEW x \in RunsOf(s)
    PROVE  SidByNetid(x) = {} /\ StateByIfname(x) = {s} /\ SidByIfname(x) = {s}
<1>1. RunsApart(RunsAs)
  BY KnownApart
<1>2. s \in DOMAIN RunsAs
  BY DEF RunsOf
<1>3. PICK i \in RunsAs[s] : x = <<"device", i, 0>>
  BY DEF RunsOf, Dev
<1>4. x[1] = "device" /\ x[2] = i
  BY <1>3
<1>5. \A t \in DOMAIN RunsAs : \A j \in RunsAs[t] : x = Dev(j) => t = s
  BY <1>1, <1>2, <1>3, <1>4 DEF Dev, RunsApart
<1>6. StateByIfname(x) = {s}
  BY <1>2, <1>3, <1>5 DEF StateByIfname, Dev
<1>7. SidByNetid(x) = {}
  BY <1>4 DEF SidByNetid
<1>. QED BY <1>6, <1>7 DEF SidByIfname

\* A name of another kind finds none.
LEMMA NotFound ==
    ASSUME NamesInv, NEW i, i \notin Ifnames
    PROVE  SidByIfname(Dev(i)) = {}
<1>1. RunsApart(RunsAs)
  BY KnownApart
<1>2. Dev(i)[1] = "device" /\ \A j : Dev(i) = Dev(j) => i = j
  BY DEF Dev
<1>3. SidByNetid(Dev(i)) = {}
  BY <1>2 DEF SidByNetid
<1>4. StateByIfname(Dev(i)) = {}
  BY <1>1, <1>2 DEF StateByIfname, RunsApart
<1>. QED BY <1>3, <1>4 DEF SidByIfname

\* What WifiNetwork makes of a configured section.
LEMMA OneNetwork ==
    ASSUME NEW s \in ToSet(order), NEW N, N = NetidBySid(s)
    PROVE  /\ WifiNetwork({s}, N, StateBySid(s)) = NetworkOf(s)
           /\ WifiNetwork({s}, UNION {NetidBySid(t) : t \in {s}}, UNION {StateBySid(t) : t \in {s}})
                = NetworkOf(s)
           /\ RunsOf(s) # {} => StateBySid(s) = {s}
<1>1. StateBySid(s) = DOMAIN RunsAs \cap {s}
  BY DEF StateBySid
<1>2. WifiNetwork({s}, N, StateBySid(s)) = NetworkOf(s)
  BY <1>1 DEF WifiNetwork, NetworkOf, NameOf, RunsOf
<1>3. UNION {NetidBySid(t) : t \in {s}} = N /\ UNION {StateBySid(t) : t \in {s}} = StateBySid(s)
  OBVIOUS
<1>4. RunsOf(s) # {} => StateBySid(s) = {s}
  BY <1>1 DEF RunsOf
<1>. QED BY <1>2, <1>3, <1>4

\* A configured section is found by each of its names, always as the same.
LEMMA AlwaysFound ==
    ASSUME NamesInv, NEW s \in ToSet(order)
    PROVE  /\ LookupWifiNetwork(Section(s)) = NetworkOf(s)
           /\ NetidBySid(s) # {}
           /\ \A x \in NetidBySid(s) \cup NameOf(s) :
                /\ LookupWifiNetwork(x) = NetworkOf(s)
                /\ SidByIfname(x) = {s} /\ DeviceName(x) = NameOf(s)
<1>1. NetidBySid(s) # {}
  BY OnePlace
<1>2. LookupWifiNetwork(Section(s)) = NetworkOf(s)
  <2>1. Section(s)[1] = "section"
    BY DEF Section
  <2>2. SidByNetid(Section(s)) = {} /\ StateByIfname(Section(s)) = {}
    BY <2>1 DEF SidByNetid, StateByIfname, Dev
  <2>3. s \in WifiSecs
    BY DEF NamesInv, ToSet
  <2>4. {t \in WifiSecs : Section(s) = Section(t)} = {s}
    BY <2>3 DEF Section
  <2>. QED BY <2>2, <2>4, OneNetwork DEF LookupWifiNetwork
<1>3. ASSUME NEW x, SidByIfname(x) = {s}
      PROVE  DeviceName(x) = NameOf(s)
  <2>1. WifiNetwork({s}, UNION {NetidBySid(t) : t \in {s}}, UNION {StateBySid(t) : t \in {s}})
          = NetworkOf(s)
    BY OneNetwork
  <2>2. NetworkOf(s).ifname = NameOf(s)
    BY DEF NetworkOf
  <2>. HIDE DEF NetworkOf, NameOf, WifiNetwork
  <2>3. DeviceName(x) = WifiNetwork({s}, UNION {NetidBySid(t) : t \in {s}}, UNION {StateBySid(t) : t \in {s}}).ifname
    BY <1>3 DEF DeviceName
  <2>. QED BY <2>1, <2>2, <2>3
<1>4. ASSUME NEW x \in NetidBySid(s)
      PROVE  LookupWifiNetwork(x) = NetworkOf(s) /\ SidByIfname(x) = {s}
  <2>1. SidByNetid(x) = {s} /\ SidByIfname(x) = {s} /\ {x} = NetidBySid(s)
    BY FoundByNetid
  <2>2. UNION {StateBySid(t) : t \in {s}} = StateBySid(s)
    OBVIOUS
  <2>. QED BY <2>1, <2>2, OneNetwork DEF LookupWifiNetwork
<1>5. ASSUME NEW x \in RunsOf(s)
      PROVE  LookupWifiNetwork(x) = NetworkOf(s) /\ SidByIfname(x) = {s}
  <2>1. SidByNetid(x) = {} /\ StateByIfname(x) = {s} /\ SidByIfname(x) = {s}
    BY FoundByIfname
  <2>2. StateBySid(s) = {s} /\ UNION {NetidBySid(t) : t \in {s}} = NetidBySid(s)
    BY OneNetwork
  <2>3. LookupWifiNetwork(x) = WifiNetwork({s}, NetidBySid(s), StateBySid(s))
    BY <2>1, <2>2 DEF LookupWifiNetwork
  <2>. QED BY <2>1, <2>3, OneNetwork
<1>. QED BY <1>1, <1>2, <1>3, <1>4, <1>5 DEF NameOf

\* The first property: names that find.
LEMMA Found == NamesInv => FoundByAllNames
<1>. SUFFICES ASSUME NamesInv, NEW s \in ToSet(order)
     PROVE  LET w == LookupWifiNetwork(Section(s)) IN
            /\ w.sid = {s} /\ w.netid = NetidBySid(s) /\ w.netid # {}
            /\ \A x \in w.netid \cup w.ifname :
                 LookupWifiNetwork(x) = w /\ DeviceName(x) = w.ifname /\ DeviceType(x) = "wifi"
            /\ DeviceNamed(Section(s)) = w.ifname
  BY DEF FoundByAllNames
<1>1. LookupWifiNetwork(Section(s)) = NetworkOf(s)
  BY AlwaysFound
<1>2. /\ NetworkOf(s).sid = {s} /\ NetworkOf(s).netid = NetidBySid(s)
      /\ NetworkOf(s).ifname = NameOf(s)
  BY DEF NetworkOf
<1>3. NetidBySid(s) # {}
  BY AlwaysFound
<1>4. \A x \in NetidBySid(s) \cup NameOf(s) :
        LookupWifiNetwork(x) = NetworkOf(s) /\ DeviceName(x) = NameOf(s) /\ DeviceType(x) = "wifi"
  BY AlwaysFound DEF DeviceType
<1>5. DeviceNamed(Section(s)) = NameOf(s)
  <2>1. \A d \in KnownDevs : Section(s) # Dev(d.name)
    BY DEF Section, Dev
  <2>2. {t \in ToSet(order) : Section(s) = Section(t)} = {s}
    BY DEF Section
  <2>3. \A x \in NetidBySid(s) : DeviceName(x) = NameOf(s)
    BY <1>4
  <2>4. DeviceNamed(Section(s)) = UNION {DeviceName(x) : x \in NetidBySid(s)}
    BY <2>1, <2>2 DEF DeviceNamed
  <2>5. {DeviceName(x) : x \in NetidBySid(s)} = {NameOf(s)}
    BY <2>3, <1>3
  <2>. QED BY <2>4, <2>5
<1>. QED BY <1>1, <1>2, <1>3, <1>4, <1>5

\* Another device is known by its own name only.
LEMMA WiredName ==
    ASSUME NamesInv, NEW i \in Wired
    PROVE  SidByIfname(Dev(i)) = {} /\ DeviceName(Dev(i)) = {Dev(i)}
<1>1. SidByIfname(Dev(i)) = {}
  BY NotFound, IfnamesAssumption
<1>. QED BY <1>1 DEF DeviceName

\* Two sections never go by one name.
LEMMA NamesDiffer ==
    ASSUME NamesInv, NEW s \in ToSet(order), NEW t \in ToSet(order), NameOf(s) = NameOf(t)
    PROVE  s = t
<1>1. PICK x : x \in NameOf(s)
  BY AlwaysFound DEF NameOf
<1>2. SidByIfname(x) = {s}
  BY <1>1, AlwaysFound
<1>3. SidByIfname(x) = {t}
  BY <1>1, AlwaysFound
<1>. QED BY <1>2, <1>3

\* The list of devices is finite.
LEMMA DevicesFinite ==
    ASSUME NamesInv
    PROVE  IsFiniteSet(GetDevices)
<1>. DEFINE wired == {Dev(i) : i \in Wired}
            netids == UNION {NetidBySid(s) : s \in ToSet(order)}
            at == [i \in DOMAIN order |-> Netid(RadioOf[order[i]], Place(i))]
            names == [i \in Wired |-> Dev(i)]
<1>1. IsFiniteSet(wired)
  <2>1. names \in Surjection(Wired, wired)
    BY DEF Surjection
  <2>. HIDE DEF names, wired
  <2>. QED BY <2>1, DevicesAssumption, FS_Surjection
<1>2. IsFiniteSet(netids)
  <2>1. IsFiniteSet(DOMAIN order)
    <3>1. Len(order) \in Nat /\ DOMAIN order = 1..Len(order)
      BY DEF NamesInv
    <3>. QED BY <3>1, FS_Interval
  <2>2. \A i \in DOMAIN order : at[i] \in netids
    BY DEF NetidBySid, ToSet
  <2>3. \A x \in netids : \E i \in DOMAIN order : at[i] = x
    BY DEF NetidBySid, ToSet
  <2>4. at \in [DOMAIN order -> netids]
    BY <2>2
  <2>5. at \in Surjection(DOMAIN order, netids)
    <3>. HIDE DEF at, netids
    <3>. QED BY <2>3, <2>4 DEF Surjection
  <2>. HIDE DEF at, netids
  <2>. QED BY <2>1, <2>5, FS_Surjection
<1>3. GetDevices \in SUBSET (wired \cup netids)
  <2>1. \A d \in Listed : d.name \in Wired
    BY KnownApart DEF Listed, DevicesApart
  <2>. QED BY <2>1 DEF GetDevices
<1>. HIDE DEF wired, netids
<1>. QED BY <1>1, <1>2, <1>3, FS_Union, FS_Subset

\* The second property: nothing is listed twice.
LEMMA Once == NamesInv => ListedOnce
<1>. SUFFICES ASSUME NamesInv
     PROVE  ListedOnce
  OBVIOUS
<1>1. \A d \in Listed : d.name \in Wired /\ ~ IsWifiIfname(d.name)
  BY KnownApart DEF Listed, DevicesApart
<1>2. ASSUME NEW d \in Listed
      PROVE  DeviceType(Dev(d.name)) = "other"
  <2>1. SidByIfname(Dev(d.name)) = {} /\ d.name \notin Ifnames
    BY <1>1, WiredName, IfnamesAssumption
  <2>2. Dev(d.name)[2] = d.name /\ \A j : Dev(d.name) = Dev(j) => j = d.name
    BY DEF Dev
  <2>3. ~ \E e \in KnownDevs : Dev(d.name) = Dev(e.name) /\ e.wireless
    BY <2>1, <2>2, KnownApart DEF DevicesApart
  <2>. QED BY <1>1, <2>1, <2>2, <2>3 DEF DeviceType
<1>. DEFINE S == GetDevices
            T == {DeviceName(x) : x \in S}
            f == [x \in S |-> DeviceName(x)]
<1>3. ASSUME NEW x \in S
      PROVE  \/ \E i \in Wired : x = Dev(i) /\ DeviceName(x) = {Dev(i)} /\ SidByIfname(x) = {}
             \/ \E s \in ToSet(order) : NetidBySid(s) = {x} /\ DeviceName(x) = NameOf(s)
  <2>1. CASE \E d \in Listed : x = Dev(d.name)
    BY <1>1, <2>1, WiredName
  <2>2. CASE \E s \in ToSet(order) : x \in NetidBySid(s)
    BY <2>2, AlwaysFound, FoundByNetid
  <2>. QED BY <2>1, <2>2 DEF GetDevices
<1>4. ASSUME NEW x \in S, NEW y \in S, DeviceName(x) = DeviceName(y)
      PROVE  x = y
  <2>1. ASSUME NEW i \in Wired, NEW s \in ToSet(order), NameOf(s) = {Dev(i)}
        PROVE  FALSE
    <3>1. SidByIfname(Dev(i)) = {s}
      BY <2>1, AlwaysFound
    <3>. QED BY <3>1, WiredName
  <2>. HIDE DEF S
  <2>. QED BY <1>3, <1>4, <2>1, NamesDiffer
<1>5. Cardinality(T) = Cardinality(S)
  <2>1. IsFiniteSet(S)
    BY DevicesFinite
  <2>2. f \in Surjection(S, T)
    BY DEF Surjection
  <2>3. f \in Injection(S, T)
    <3>1. f \in [S -> T] /\ \A x \in S : f[x] = DeviceName(x)
      OBVIOUS
    <3>2. \A x, y \in S : f[x] = f[y] => x = y
      BY <1>4, <3>1
    <3>. HIDE DEF S, T, f
    <3>. QED BY <3>1, <3>2 DEF Injection, IsInjective
  <2>. HIDE DEF S, T, f
  <2>. QED BY <2>1, <2>2, <2>3, FS_Surjection
<1>. QED BY <1>2, <1>5 DEF ListedOnce

\* The third property: networks and devices know of each other.
LEMMA BothWays == NamesInv => KnownBothWays
<1>. SUFFICES ASSUME NamesInv, NEW n \in NetworkNames, NEW x \in GetDevice(n) \cup PortsOf(n)
     PROVE  n \in NetworksOf(x) \/ \E s \in ListedWith(n) \ Of(n) : x \in NetidBySid(s)
  BY DEF KnownBothWays
<1>1. CASE x \in NetConf[n].bridge \cup NetConf[n].device
  <2>1. n \in DOMAIN NetConf
    BY DEF NetworkNames
  <2>2. PICK i \in Wired : x = Dev(i)
    BY <1>1, <2>1, DevicesAssumption DEF Dev
  <2>3. DeviceName(x) = {x}
    BY <2>2, WiredName
  <2>. QED BY <1>1, <2>3 DEF NetworksOf, ContainsDevice
<1>2. ASSUME NEW s \in Of(n), x \in NetidBySid(s)
      PROVE  n \in NetworksOf(x)
  <2>1. s \in ToSet(order)
    BY DEF Of
  <2>2. DeviceName(x) = NameOf(s)
    BY <1>2, <2>1, AlwaysFound
  <2>3. PICK d : d \in NameOf(s)
    BY <2>1, AlwaysFound DEF NameOf
  <2>4. SidByIfname(d) = {s}
    BY <2>1, <2>3, AlwaysFound
  <2>. QED BY <2>2, <2>3, <2>4 DEF NetworksOf, ContainsDevice
<1>3. x \in NetConf[n].bridge \cup NetConf[n].device \/ \E s \in ListedWith(n) : x \in NetidBySid(s)
  BY DEF GetDevice, PortsOf, NetidByNetname
<1>. QED BY <1>1, <1>2, <1>3

\* What a sequence without repetitions is like with an element appended or taken out.
LEMMA StillApart ==
    ASSUME NEW X, NEW q \in Seq(X), \A i, j \in DOMAIN q : q[i] = q[j] => i = j
    PROVE  /\ \A e \in X \ ToSet(q) :
                /\ Append(q, e) \in Seq(X)
                /\ \A i, j \in DOMAIN Append(q, e) : Append(q, e)[i] = Append(q, e)[j] => i = j
           /\ \A n \in DOMAIN q :
                /\ RemoveAt(q, n) \in Seq(X)
                /\ \A i, j \in DOMAIN RemoveAt(q, n) : RemoveAt(q, n)[i] = RemoveAt(q, n)[j] => i = j
<1>0. PICK len : len = Len(q)
  OBVIOUS
<1>1. len \in Nat /\ DOMAIN q = 1..len /\ \A i \in 1..len : q[i] \in X
  BY <1>0
<1>2. ASSUME NEW e \in X \ ToSet(q)
      PROVE  /\ Append(q, e) \in Seq(X)
             /\ \A i, j \in DOMAIN Append(q, e) : Append(q, e)[i] = Append(q, e)[j] => i = j
  <2>a. e \in X
    BY <1>2
  <2>b. Append(q, e) \in Seq(X)
    BY ONLY <2>a, q \in Seq(X)
  <2>1. PICK p \in Seq(X) : p = Append(q, e)
    BY <2>b
  <2>2. Len(p) = len + 1 /\ p[len + 1] = e /\ \A i \in 1..len : p[i] = q[i]
    BY <1>0, <1>1, <2>1
  <2>3. \A i \in 1..len : q[i] # e
    BY <1>1 DEF ToSet
  <2>4. DOMAIN p = 1..(len + 1)
    BY <2>2
  <2>. QED BY <1>1, <2>1, <2>2, <2>3, <2>4
<1>3. ASSUME NEW n \in DOMAIN q
      PROVE  /\ RemoveAt(q, n) \in Seq(X)
             /\ \A i, j \in DOMAIN RemoveAt(q, n) : RemoveAt(q, n)[i] = RemoveAt(q, n)[j] => i = j
  <2>1. n \in 1..len
    BY <1>1
  <2>a. Len(q) \in Nat /\ n \in 1..Len(q)
    OBVIOUS
  <2>b. /\ SubSeq(q, 1, n - 1) \in Seq(X) /\ Len(SubSeq(q, 1, n - 1)) = n - 1
        /\ \A i \in 1..(n - 1) : SubSeq(q, 1, n - 1)[i] = q[i]
    BY <2>a
  <2>c. /\ SubSeq(q, n + 1, Len(q)) \in Seq(X) /\ Len(SubSeq(q, n + 1, Len(q))) = Len(q) - n
        /\ \A i \in 1..(Len(q) - n) : SubSeq(q, n + 1, Len(q))[i] = q[i + n]
    BY <2>a
  <2>2. PICK a \in Seq(X) : a = SubSeq(q, 1, n - 1)
    BY <2>b
  <2>3. Len(a) = n - 1 /\ \A i \in 1..(n - 1) : a[i] = q[i]
    BY <2>b, <2>2
  <2>4. PICK b \in Seq(X) : b = SubSeq(q, n + 1, Len(q))
    BY <2>c
  <2>5. Len(b) = len - n /\ \A i \in 1..(len - n) : b[i] = q[i + n]
    BY <1>0, <2>c, <2>4
  <2>d. RemoveAt(q, n) = a \o b
    BY <2>2, <2>4 DEF RemoveAt
  <2>e. a \o b \in Seq(X) /\ Len(a \o b) = Len(a) + Len(b)
    BY ONLY a \in Seq(X), b \in Seq(X)
  <2>6. PICK p \in Seq(X) : p = RemoveAt(q, n) /\ p = a \o b
    BY <2>d, <2>e
  <2>7. Len(p) = len - 1
    BY <1>1, <2>1, <2>3, <2>5, <2>6, <2>e
  <2>8. \A i \in 1..(len - 1) : p[i] = IF i < n THEN q[i] ELSE q[i + 1]
    <3>1. SUFFICES ASSUME NEW i \in 1..(len - 1)
          PROVE  p[i] = IF i < n THEN q[i] ELSE q[i + 1]
      OBVIOUS
    <3>2. CASE i < n
      <4>1. i \in 1..(n - 1)
        BY <1>1, <2>1, <3>2
      <4>2. p[i] = a[i]
        BY <2>3, <2>6, <4>1
      <4>. QED BY <2>3, <3>2, <4>1, <4>2
    <3>3. CASE ~ (i < n)
      <4>1. i - (n - 1) \in 1..(len - n)
        BY <1>1, <2>1, <3>3
      <4>2. p[i] = b[i - (n - 1)]
        BY <1>1, <2>1, <2>3, <2>5, <2>6, <2>7, <3>3, <4>1
      <4>3. b[i - (n - 1)] = q[i - (n - 1) + n]
        BY <2>5, <4>1
      <4>4. i - (n - 1) + n = i + 1
        BY <1>1, <2>1
      <4>. QED BY <3>3, <4>2, <4>3, <4>4
    <3>. QED BY <3>2, <3>3
  <2>9. DOMAIN p = 1..(len - 1)
    BY <1>1, <2>1, <2>7
  <2>10. ASSUME NEW i \in DOMAIN p, NEW j \in DOMAIN p, p[i] = p[j]
         PROVE  i = j
    <3>1. PICK h \in 1..len : p[i] = q[h] /\ h = (IF i < n THEN i ELSE i + 1)
      BY <1>1, <2>1, <2>8, <2>9
    <3>2. PICK k \in 1..len : p[j] = q[k] /\ k = (IF j < n THEN j ELSE j + 1)
      BY <1>1, <2>1, <2>8, <2>9
    <3>3. h = k
      BY <1>1, <2>10, <3>1, <3>2
    <3>. QED BY <1>1, <2>1, <2>9, <3>1, <3>2, <3>3
  <2>. QED BY <2>6, <2>10
<1>. QED BY <1>2, <1>3

\* What netifd runs, and a list of nothing.
LEMMA RunningApart == RunsApart(<<>>) /\ \A f \in Running : RunsApart(f)
<1>1. RunsApart(<<>>)
  BY DEF RunsApart
<1>2. ASSUME NEW f \in Running
      PROVE  RunsApart(f)
  <2>1. PICK S \in SUBSET WifiSecs : f \in [S -> {{}} \cup {{i} : i \in Ifnames}]
    BY DEF Running
  <2>2. \A s, t \in DOMAIN f : s # t => f[s] \cap f[t] = {}
    BY DEF Running
  <2>. QED BY <2>1, <2>2 DEF RunsApart
<1>. QED BY <1>1, <1>2

\* The first state of the page.
LEMMA NamesStart == NetInit \/ NoNetState => NamesInv
<1>1. CASE NetInit
  <2>1. order \in Seq(WifiSecs) /\ \A i, j \in DOMAIN order : order[i] = order[j] => i = j
    BY <1>1 DEF NetInit, BoundedSeq, SeqOf, IsInjective
  <2>2. running \in Running /\ netState = {} /\ loads = {}
    BY <1>1 DEF NetInit
  <2>. QED BY <2>1, <2>2, RunningApart DEF NamesInv
<1>2. CASE NoNetState
  BY <1>2, RunningApart DEF NoNetState, NamesInv
<1>. QED BY <1>1, <1>2

\* A change of what runs and is known, or of the sections, leaves the rest.
LEMMA SectionsKept ==
    ASSUME NamesInv, order' = order, RunsApart(running)',
           \A l \in loads' : RunsApart(l.radios) /\ DevicesApart(l.netdevs),
           \A k \in netState' : RunsApart(k.radios) /\ DevicesApart(k.netdevs)
    PROVE  NamesInv'
BY DEF NamesInv, RunsApart, DevicesApart

\* Every step of the part keeps names apart.
LEMMA NamesStep ==
    ASSUME NetInv, NamesInv, NetNext \/ UNCHANGED netVars
    PROVE  NamesInv'
<1>. DEFINE Apart(l) == RunsApart(l.radios) /\ DevicesApart(l.netdevs)
<1>0. /\ RunsApart(running) /\ (\A l \in loads : IsLoad(l) /\ Apart(l))
      /\ \A k \in netState : Apart(k)
  BY DEF NamesInv, NetInv
<1>1. ASSUME NEW refresh, InitNetworkState(refresh)
      PROVE  NamesInv'
  <2>1. /\ order' = order /\ running' = running /\ netState' = netState
        /\ loads' = {[l EXCEPT !.overtaken = TRUE] : l \in loads} \cup {NewLoad(asks)}
    BY <1>1 DEF InitNetworkState
  <2>2. Apart(NewLoad(asks))
    BY RunningApart DEF NewLoad, DevicesApart
  <2>3. ASSUME NEW l \in loads, NEW m, m = [l EXCEPT !.overtaken = TRUE]
        PROVE  Apart(m)
    <3>1. m.radios = l.radios /\ m.netdevs = l.netdevs
      BY <1>0, <2>3 DEF IsLoad
    <3>. QED BY <1>0, <3>1
  <2>. HIDE DEF Apart
  <2>4. \A m \in loads' : Apart(m)
    BY <2>1, <2>2, <2>3
  <2>. QED BY <1>0, <2>1, <2>4, SectionsKept DEF Apart
<1>2. ASSUME NEW l \in loads, NEW what \in Answers, NEW data, Answer(l, what, data),
             what = "radios" => RunsApart(data), what = "netdevs" => DevicesApart(data)
      PROVE  NamesInv'
  <2>1. PICK m : m = [l EXCEPT !.got = @ \cup {what}, ![what] = data, !.at[what] = news]
    OBVIOUS
  <2>2. /\ order' = order /\ running' = running /\ netState' = netState
        /\ loads' = (loads \ {l}) \cup {m}
    BY <1>2, <2>1 DEF Answer
  <2>3. CASE what = "radios"
    <3>1. m.radios = data /\ m.netdevs = l.netdevs
      BY <1>0, <2>1, <2>3 DEF IsLoad
    <3>2. Apart(m)
      BY <1>0, <1>2, <2>3, <3>1
    <3>. HIDE DEF Apart
    <3>3. \A n \in loads' : Apart(n)
      BY <1>0, <2>2, <3>2
    <3>. QED BY <1>0, <2>2, <3>3, SectionsKept DEF Apart
  <2>4. CASE what = "netdevs"
    <3>1. m.radios = l.radios /\ m.netdevs = data
      BY <1>0, <2>1, <2>4 DEF IsLoad
    <3>2. Apart(m)
      BY <1>0, <1>2, <2>4, <3>1
    <3>. HIDE DEF Apart
    <3>3. \A n \in loads' : Apart(n)
      BY <1>0, <2>2, <3>2
    <3>. QED BY <1>0, <2>2, <3>3, SectionsKept DEF Apart
  <2>. QED BY <2>3, <2>4 DEF Answers
<1>3. RunsApart(running) /\ RunsApart(<<>>) /\ DevicesApart(Netdevs)
  BY <1>0, RunningApart DEF Netdevs, DevicesApart, RunsApart
<1>4. ASSUME NEW l \in loads, Keep(l) \/ netState' = netState,
             loads' \subseteq loads \cup {[l EXCEPT !.listing = TRUE]},
             order' = order, running' = running
      PROVE  NamesInv'
  <2>1. PICK m : m = [l EXCEPT !.listing = TRUE]
    OBVIOUS
  <2>2. m.radios = l.radios /\ m.netdevs = l.netdevs
    BY <1>0, <2>1 DEF IsLoad
  <2>3. Apart(m)
    BY <1>0, <2>2
  <2>4. \A k \in netState' : Apart(k)
    BY <1>0, <1>4 DEF Keep
  <2>. HIDE DEF Apart
  <2>5. \A n \in loads' : Apart(n)
    BY <1>0, <1>4, <2>1, <2>3
  <2>. QED BY <1>0, <1>4, <2>4, <2>5, SectionsKept DEF Apart
<1>5. ASSUME NEW l \in loads, DataHere(l)
      PROVE  NamesInv'
  <2>1. order' = order /\ running' = running
    BY <1>5 DEF DataHere
  <2>2. /\ Keep(l) \/ netState' = netState
        /\ loads' \subseteq loads \cup {[l EXCEPT !.listing = TRUE]}
    BY <1>5 DEF DataHere
  <2>. QED BY <1>4, <2>1, <2>2
<1>6. ASSUME NEW l \in loads, HostapdListed(l)
      PROVE  NamesInv'
  <2>1. order' = order /\ running' = running /\ Keep(l) /\ loads' \subseteq loads
    BY <1>6 DEF HostapdListed
  <2>. QED BY <1>4, <2>1
<1>7. ASSUME WifiReconf
      PROVE  NamesInv'
  <2>1. order' = order /\ netState' = netState /\ loads' = loads /\ running' \in Running
    BY <1>7 DEF WifiReconf
  <2>2. RunsApart(running)'
    BY <2>1, RunningApart DEF RunsApart
  <2>. QED BY <1>0, <2>1, <2>2, SectionsKept
<1>8. ASSUME running' = running, netState' = netState, loads' = loads,
             order' \in Seq(WifiSecs), \A i, j \in DOMAIN order' : order'[i] = order'[j] => i = j
      PROVE  NamesInv'
  BY <1>8 DEF NamesInv, RunsApart
<1>9. ASSUME NEW s \in WifiSecs, NEW nets, AddWifiSection(s, nets)
      PROVE  NamesInv'
  <2>1. /\ running' = running /\ netState' = netState /\ loads' = loads
        /\ s \in WifiSecs \ ToSet(order) /\ order' = Append(order, s)
    BY <1>9 DEF AddWifiSection, EditSections
  <2>2. order \in Seq(WifiSecs) /\ \A i, j \in DOMAIN order : order[i] = order[j] => i = j
    BY DEF NamesInv
  <2>3. /\ Append(order, s) \in Seq(WifiSecs)
        /\ \A i, j \in DOMAIN Append(order, s) : Append(order, s)[i] = Append(order, s)[j] => i = j
    BY ONLY <2>1, <2>2, StillApart
  <2>. QED BY <1>8, <2>1, <2>3
<1>10. ASSUME NEW x, DeleteWifiSection(x)
       PROVE  NamesInv'
  <2>1. PICK i \in DOMAIN order : order' = RemoveAt(order, i)
    BY <1>10 DEF DeleteWifiSection
  <2>2. running' = running /\ netState' = netState /\ loads' = loads
    BY <1>10 DEF DeleteWifiSection, EditSections
  <2>3. order \in Seq(WifiSecs) /\ \A h, j \in DOMAIN order : order[h] = order[j] => h = j
    BY DEF NamesInv
  <2>4. PICK p : p = RemoveAt(order, i)
    OBVIOUS
  <2>5. p \in Seq(WifiSecs) /\ \A h, j \in DOMAIN p : p[h] = p[j] => h = j
    BY ONLY <2>3, <2>4, StillApart
  <2>. QED BY <1>8, <2>1, <2>2, <2>4, <2>5
<1>11. ASSUME NEW n, NEW x, NEW s,
              JoinNetwork(n, x) \/ LeaveNetwork(n, x) \/ GetSection(s)
       PROVE  NamesInv'
  <2>1. /\ running' = running /\ netState' = netState /\ loads' = loads /\ order' = order
    BY <1>11 DEF JoinNetwork, LeaveNetwork, GetSection, EditSections
  <2>. QED BY <1>0, <2>1, SectionsKept
<1>12. ASSUME UNCHANGED netVars
       PROVE  NamesInv'
  <2>1. /\ running' = running /\ netState' = netState /\ loads' = loads /\ order' = order
    BY <1>12 DEF netVars
  <2>. QED BY <1>0, <2>1, SectionsKept
<1>13. "radios" \in Answers /\ "netdevs" \in Answers /\ "radios" # "netdevs"
  BY DEF Answers
<1>. HIDE DEF Answers
<1>. QED BY <1>1, <1>2, <1>3, <1>5, <1>6, <1>7, <1>9, <1>10, <1>11, <1>12, <1>13
  DEF NetNext, FlushCache

\* network.js: whatever is read when, and however the sections are edited meanwhile, a
\* configured wireless network is found by its section, its place and its interface alike,
\* no device is listed twice, and networks and devices know of each other, but for a device
\* that left its last network and was not looked up since.
THEOREM NamesAlwaysAgree == PartsSpec => []NamesAgree
<1>1. PartsInit => NetInv /\ NamesInv
  BY NetStart, NamesStart DEF PartsInit
<1>2. NetInv /\ NamesInv /\ [PartsNext]_<<part, fieldVars, fileVars, viewVars, rowVars, wifiVars, freqVars, ddnsVars, vars, netVars>>
        => NetInv' /\ NamesInv'
  BY NetStep, NamesStep DEF PartsNext
<1>3. NamesInv => NamesAgree
  BY Found, Once, BothWays DEF NamesAgree
<1>. QED BY <1>1, <1>2, <1>3, PTL DEF PartsSpec

-----------------------------------------------------------------------------
(* Filters, and lists of rows without repetitions.                         *)

\* A set of numbers that has a member has a least one.
LEMMA SmallestOf ==
    ASSUME NEW S, S \subseteq Nat, S # {}
    PROVE  \E n \in S : \A k \in S : n <= k
<1>1. PICK n \in S : \A k \in S : ~ (<<k, n>> \in OpToRel(<, Nat))
  BY WFMin, NatLessThanWellFounded, Zenon
<1>2. \A k \in S : ~ (k < n)
  BY <1>1, Zenon DEF OpToRel
<1>. QED BY <1>2

\* How many there are of I up to i.
UpTo(I, i) == {j \in I : j <= i}

\* They are finitely many, I being within 1..n.
LEMMA UpToFinite ==
  ASSUME NEW n \in Nat, NEW I \in SUBSET (1..n)
  PROVE  /\ IsFiniteSet(I) /\ Cardinality(I) \in 0..n
         /\ \A i \in 0..n : IsFiniteSet(UpTo(I, i)) /\ Cardinality(UpTo(I, i)) \in Nat
<1>1. IsFiniteSet(1..n) /\ Cardinality(1..n) = n
  BY FS_Interval
<1>2. IsFiniteSet(I) /\ Cardinality(I) <= n
  BY <1>1, FS_Subset
<1>3. Cardinality(I) \in Nat
  BY <1>2, FS_CardinalityType
<1>4. \A i \in 0..n : UpTo(I, i) \subseteq I
  BY DEF UpTo
<1>. QED BY <1>2, <1>3, <1>4, FS_Subset, FS_CardinalityType

\* One of I is the k-th.
LEMMA Counted ==
  ASSUME NEW n \in Nat, NEW I \in SUBSET (1..n), NEW k \in 1..Cardinality(I)
  PROVE  \E i \in I : Cardinality(UpTo(I, i)) = k
<1>. DEFINE Enough == {i \in 0..n : Cardinality(UpTo(I, i)) >= k}
<1>0. IsFiniteSet(I) /\ Cardinality(I) \in 0..n /\ k \in Nat /\ k > 0 /\ k <= Cardinality(I)
  BY UpToFinite
<1>a. \A j \in I : j \in Nat /\ 1 <= j /\ j <= n
  OBVIOUS
<1>b. \A i, j : j \in UpTo(I, i) <=> j \in I /\ j <= i
  BY DEF UpTo
<1>1. n \in Enough
  <2>1. \A j : j \in UpTo(I, n) <=> j \in I
    BY ONLY <1>a, <1>b
  <2>2. UpTo(I, n) = I
    BY ONLY <2>1
  <2>. QED BY <2>2, <1>0
<1>2. PICK m \in Enough : \A i \in Enough : m <= i
  <2>1. Enough \subseteq Nat /\ Enough # {}
    BY <1>1
  <2>. HIDE DEF Enough
  <2>. QED BY <2>1, SmallestOf
<1>3. m # 0
  <2>1. UpTo(I, 0) = {}
    <3>1. \A j : j \notin UpTo(I, 0)
      <4>. SUFFICES ASSUME NEW j, j \in UpTo(I, 0) PROVE FALSE
        OBVIOUS
      <4>1. j \in I /\ j <= 0
        BY <1>b
      <4>. QED BY <4>1, <1>a
    <3>. QED BY ONLY <3>1
  <2>2. Cardinality(UpTo(I, 0)) = 0
    BY <2>1, FS_EmptySet
  <2>. QED BY <2>2, <1>0
<1>4. m - 1 \in 0..n /\ m \in 1..n
  BY <1>3
<1>5. Cardinality(UpTo(I, m - 1)) < k
  <2>1. m - 1 \notin Enough
    BY <1>2, <1>4
  <2>2. Cardinality(UpTo(I, m - 1)) \in Nat
    BY <1>4, UpToFinite
  <2>. QED BY <2>1, <2>2, <1>0, <1>4
<1>6. m \in I
  <2>. SUFFICES ASSUME m \notin I PROVE FALSE
    OBVIOUS
  <2>0. \A j \in I : j # m
    OBVIOUS
  <2>1. \A j : j \in UpTo(I, m) <=> j \in UpTo(I, m - 1)
    <3>. SUFFICES ASSUME NEW j \in I PROVE j <= m <=> j <= m - 1
      BY <1>b
    <3>. QED BY <1>4, <1>a, <2>0
  <2>4. UpTo(I, m) = UpTo(I, m - 1)
    BY ONLY <2>1
  <2>2. Cardinality(UpTo(I, m)) >= k
    OBVIOUS
  <2>3. Cardinality(UpTo(I, m)) \in Nat
    BY <1>4, UpToFinite
  <2>. QED BY <2>4, <2>2, <2>3, <1>5, <1>0
<1>7. Cardinality(UpTo(I, m)) = Cardinality(UpTo(I, m - 1)) + 1
  <2>0. \A j : j \in UpTo(I, m) <=> j \in UpTo(I, m - 1) \cup {m}
    <3>. SUFFICES ASSUME NEW j \in I PROVE j <= m <=> (j <= m - 1 \/ j = m)
      <4>1. m <= m /\ m \in I
        BY <1>4, <1>6
      <4>. QED BY <1>b, <4>1
    <3>. QED BY <1>4, <1>a
  <2>1. UpTo(I, m) = UpTo(I, m - 1) \cup {m}
    BY ONLY <2>0
  <2>3. m \notin UpTo(I, m - 1)
    BY <1>4, <1>b
  <2>2. IsFiniteSet(UpTo(I, m - 1))
    BY <1>4, UpToFinite
  <2>. QED BY <2>1, <2>2, <2>3, FS_AddElement
<1>8. Cardinality(UpTo(I, m)) >= k /\ Cardinality(UpTo(I, m - 1)) \in Nat
  BY <1>4, UpToFinite
<1>. QED BY <1>0, <1>5, <1>6, <1>7, <1>8

\* The k-th of a set of numbers.
KthOf(I, k) == CHOOSE i \in I : Cardinality(UpTo(I, i)) = k

\* The members of a set of places, counted from the first.
LEMMA Enumerated ==
    ASSUME NEW n \in Nat, NEW I \in SUBSET (1..n)
    PROVE  /\ Cardinality(I) \in Nat
           /\ \A k \in 1..Cardinality(I) : KthOf(I, k) \in I
           /\ \A k, l \in 1..Cardinality(I) : k < l => KthOf(I, k) < KthOf(I, l)
           /\ \A i \in I : \E k \in 1..Cardinality(I) : KthOf(I, k) = i
<1>1. Cardinality(I) \in Nat /\ IsFiniteSet(I)
  BY UpToFinite
<1>2. ASSUME NEW k \in 1..Cardinality(I)
      PROVE  KthOf(I, k) \in I /\ Cardinality(UpTo(I, KthOf(I, k))) = k
  <2>1. \E i \in I : Cardinality(UpTo(I, i)) = k
    BY Counted
  <2>. QED BY <2>1 DEF KthOf
<1>3. \A i \in I : i \in Nat /\ i \in 0..n /\ IsFiniteSet(UpTo(I, i))
  BY UpToFinite
<1>4. ASSUME NEW i \in I, NEW j \in I, i <= j
      PROVE  UpTo(I, i) \in SUBSET UpTo(I, j)
  <2>1. \A m \in UpTo(I, i) : m \in I /\ m <= i /\ m \in Nat
    BY <1>3 DEF UpTo
  <2>2. \A m \in UpTo(I, i) : m <= j
    BY <1>3, <1>4, <2>1
  <2>. QED BY <2>1, <2>2 DEF UpTo
<1>5. ASSUME NEW k \in 1..Cardinality(I), NEW l \in 1..Cardinality(I), k < l
      PROVE  KthOf(I, k) < KthOf(I, l)
  <2>1. PICK i \in I : i = KthOf(I, k) /\ Cardinality(UpTo(I, i)) = k
    BY <1>2
  <2>2. PICK j \in I : j = KthOf(I, l) /\ Cardinality(UpTo(I, j)) = l
    BY <1>2
  <2>3. i \in Nat /\ j \in Nat /\ IsFiniteSet(UpTo(I, i))
    BY <1>3
  <2>4. ASSUME j <= i
        PROVE  FALSE
    <3>1. UpTo(I, j) \in SUBSET UpTo(I, i)
      BY <1>4, <2>4
    <3>2. Cardinality(UpTo(I, j)) <= Cardinality(UpTo(I, i))
      BY <2>3, <3>1, FS_Subset
    <3>. QED BY <1>1, <1>5, <2>1, <2>2, <3>2
  <2>. QED BY <2>1, <2>2, <2>3, <2>4
<1>6. ASSUME NEW i \in I
      PROVE  \E k \in 1..Cardinality(I) : KthOf(I, k) = i
  <2>1. PICK k : k = Cardinality(UpTo(I, i))
    OBVIOUS
  <2>2. i \in UpTo(I, i) /\ UpTo(I, i) \in SUBSET I
    BY <1>3 DEF UpTo
  <2>3. k \in Nat /\ k # 0 /\ k <= Cardinality(I)
    <3>1. k \in Nat /\ k <= Cardinality(I)
      BY <1>1, <2>1, <2>2, FS_Subset, FS_CardinalityType
    <3>2. k # 0
      BY <1>3, <2>1, <2>2, FS_EmptySet
    <3>. QED BY <3>1, <3>2
  <2>4. k \in 1..Cardinality(I)
    BY <1>1, <2>3
  <2>5. PICK j \in I : j = KthOf(I, k) /\ Cardinality(UpTo(I, j)) = k
    BY <1>2, <2>4
  <2>6. j \in UpTo(I, j) /\ i \in Nat /\ j \in Nat
    BY <1>3 DEF UpTo
  <2>7. ASSUME i <= j
        PROVE  i = j
    <3>1. UpTo(I, i) \in SUBSET UpTo(I, j)
      BY <1>4, <2>7
    <3>2. UpTo(I, i) = UpTo(I, j)
      BY <1>3, <2>1, <2>5, <3>1, FS_Subset
    <3>3. j <= i
      BY <2>6, <3>2 DEF UpTo
    <3>. QED BY <2>6, <2>7, <3>3
  <2>8. ASSUME j <= i
        PROVE  i = j
    <3>1. UpTo(I, j) \in SUBSET UpTo(I, i)
      BY <1>4, <2>8
    <3>2. UpTo(I, i) = UpTo(I, j)
      BY <1>3, <2>1, <2>5, <3>1, FS_Subset
    <3>3. i <= j
      BY <2>2, <3>2 DEF UpTo
    <3>. QED BY <2>6, <2>8, <3>3
  <2>9. i = j
    BY <2>6, <2>7, <2>8
  <2>. QED BY <2>4, <2>5, <2>9
<1>. QED BY <1>1, <1>2, <1>5, <1>6

\* A list of rows without repetitions.
Rows(q) == q \in Seq(RowSids) /\ \A i, j \in DOMAIN q : q[i] = q[j] => i = j

\* a is above b in q.
Higher(q, a, b) == \E i, j \in DOMAIN q : q[i] = a /\ q[j] = b /\ i < j

\* Where two rows are says which is above.
LEMMA AboveAt ==
    ASSUME NEW q, Rows(q), NEW i \in DOMAIN q, NEW j \in DOMAIN q
    PROVE  Higher(q, q[i], q[j]) <=> i < j
BY DEF Rows, Higher

\* What a filter leaves is in the order it was in.
LEMMA KeptInOrder ==
    ASSUME NEW s, Rows(s), NEW S, NEW q, q = Kept(s, S)
    PROVE  /\ Rows(q) /\ Range(q) = Range(s) \cap S
           /\ \A a, b \in Range(q) : Higher(q, a, b) <=> Higher(s, a, b)
<1>1. s \in Seq(RowSids) /\ \A i, j \in DOMAIN s : s[i] = s[j] => i = j
  BY DEF Rows
<1>2. PICK n \in Nat : n = Len(s) /\ DOMAIN s = 1..n
  BY <1>1
<1>3. PICK I \in SUBSET (1..n) : I = {i \in DOMAIN s : s[i] \in S}
  BY <1>2
<1>4. PICK N : N = Cardinality(I)
  OBVIOUS
<1>5. /\ N \in Nat
      /\ \A k \in 1..N : KthOf(I, k) \in I
      /\ \A k, l \in 1..N : k < l => KthOf(I, k) < KthOf(I, l)
      /\ \A i \in I : \E k \in 1..N : KthOf(I, k) = i
  BY <1>4, Enumerated
<1>6. q = [k \in 1..N |-> s[KthOf(I, k)]]
  BY <1>3, <1>4 DEF Kept, KthOf, UpTo
<1>7. DOMAIN q = 1..N /\ \A k \in 1..N : q[k] = s[KthOf(I, k)]
  BY <1>6
<1>8. \A i \in I : i \in Nat /\ i \in DOMAIN s /\ s[i] \in S /\ s[i] \in RowSids
  BY <1>1, <1>2, <1>3
<1>9. q \in Seq(RowSids)
  <2>1. \A k \in 1..N : s[KthOf(I, k)] \in RowSids
    BY <1>5, <1>8
  <2>. QED BY <1>5, <1>6, <2>1
<1>10. ASSUME NEW k \in 1..N, NEW l \in 1..N, KthOf(I, k) = KthOf(I, l)
       PROVE  k = l
  <2>a. KthOf(I, k) \in I
    BY <1>5
  <2>b. KthOf(I, k) \in Nat
    BY <1>8, <2>a
  <2>c. k \in Nat /\ l \in Nat
    OBVIOUS
  <2>1. k \in Nat /\ l \in Nat /\ KthOf(I, k) \in Nat
    BY <2>b, <2>c
  <2>2. ~ (k < l) /\ ~ (l < k)
    BY <1>5, <1>10, <2>1
  <2>. QED BY <2>1, <2>2
<1>11. ASSUME NEW k \in 1..N, NEW l \in 1..N, q[k] = q[l]
       PROVE  k = l
  <2>1. KthOf(I, k) \in DOMAIN s /\ KthOf(I, l) \in DOMAIN s
    BY <1>5, <1>8
  <2>2. s[KthOf(I, k)] = s[KthOf(I, l)]
    BY <1>7, <1>11
  <2>. QED BY <1>1, <1>10, <2>1, <2>2
<1>12. \A a : a \in Range(q) <=> a \in Range(s) \cap S
  <2>1. \A a : a \in Range(q) => a \in Range(s) \cap S
    BY <1>5, <1>7, <1>8 DEF Range
  <2>2. ASSUME NEW i \in DOMAIN s, s[i] \in S
        PROVE  s[i] \in Range(q)
    <3>1. i \in I
      BY <1>3, <2>2
    <3>2. PICK k \in 1..N : KthOf(I, k) = i
      BY <1>5, <3>1
    <3>. QED BY <1>7, <3>2 DEF Range
  <2>. QED BY <2>1, <2>2 DEF Range
<1>13. ASSUME NEW a \in Range(q), NEW b \in Range(q)
       PROVE  Higher(q, a, b) <=> Higher(s, a, b)
  <2>1. PICK k \in 1..N : a = q[k] /\ a = s[KthOf(I, k)]
    BY <1>7 DEF Range
  <2>2. PICK l \in 1..N : b = q[l] /\ b = s[KthOf(I, l)]
    BY <1>7 DEF Range
  <2>3. Higher(q, a, b) <=> k < l
    BY <1>7, <1>11, <2>1, <2>2 DEF Higher
  <2>4. KthOf(I, k) \in DOMAIN s /\ KthOf(I, l) \in DOMAIN s
    BY <1>5, <1>8
  <2>5. Higher(s, a, b) <=> KthOf(I, k) < KthOf(I, l)
    BY <1>1, <2>1, <2>2, <2>4 DEF Higher
  <2>6. KthOf(I, k) \in Nat /\ KthOf(I, l) \in Nat
    BY <1>5, <1>8
  <2>7. k < l <=> KthOf(I, k) < KthOf(I, l)
    <3>1. k < l => KthOf(I, k) < KthOf(I, l)
      BY <1>5
    <3>2. l < k => KthOf(I, l) < KthOf(I, k)
      BY <1>5
    <3>3. k \in Nat /\ l \in Nat
      BY <1>5
    <3>4. k < l \/ k = l \/ l < k
      BY <3>3
    <3>. QED BY <2>6, <3>1, <3>2, <3>3, <3>4
  <2>. QED BY <2>3, <2>5, <2>7
<1>. QED BY <1>7, <1>9, <1>11, <1>12, <1>13 DEF Rows

\* A row is above another one or below it.
LEMMA AboveOrBelow ==
    ASSUME NEW q, Rows(q), NEW a \in Range(q), NEW b \in Range(q)
    PROVE  /\ a # b => (Higher(q, a, b) <=> ~ Higher(q, b, a))
           /\ ~ Higher(q, a, a)
<1>1. q \in Seq(RowSids) /\ \A i, j \in DOMAIN q : q[i] = q[j] => i = j
  BY DEF Rows
<1>2. \A i \in DOMAIN q : i \in Nat
  BY <1>1
<1>3. PICK i \in DOMAIN q : q[i] = a
  BY DEF Range
<1>4. PICK j \in DOMAIN q : q[j] = b
  BY DEF Range
<1>5. /\ Higher(q, a, b) <=> i < j
      /\ Higher(q, b, a) <=> j < i
      /\ Higher(q, a, a) <=> i < i
  BY <1>1, <1>3, <1>4 DEF Higher
<1>. QED BY <1>2, <1>3, <1>4, <1>5

\* q is rows, with s next to r: below it, or above.
IsPut(q, rows, s, r, below) ==
    /\ Rows(q) /\ Range(q) = Range(rows)
    /\ \A a, b \in Range(rows) \ {s} : Higher(q, a, b) <=> Higher(rows, a, b)
    /\ \A a \in Range(rows) \ {s} :
         Higher(q, s, a) <=> IF below THEN Higher(rows, r, a) ELSE a = r \/ Higher(rows, r, a)

\* A row is inserted: what was at its place and after it is below it.
LEMMA Inserted ==
    ASSUME NEW q, Rows(q), NEW s \in RowSids, s \notin Range(q), NEW i \in 1..(Len(q) + 1),
           NEW p, p = InsertAt(q, i, s)
    PROVE  /\ Rows(p) /\ Range(p) = Range(q) \cup {s}
           /\ \A a, b \in Range(q) : Higher(p, a, b) <=> Higher(q, a, b)
           /\ \A j \in 1..Len(q) : Higher(p, s, q[j]) <=> i <= j
<1>1. q \in Seq(RowSids) /\ \A j, k \in DOMAIN q : q[j] = q[k] => j = k
  BY DEF Rows
<1>2. Len(q) \in Nat /\ DOMAIN q = 1..Len(q)
  BY <1>1
<1>3. /\ SubSeq(q, 1, i - 1) \in Seq(RowSids) /\ Len(SubSeq(q, 1, i - 1)) = i - 1
      /\ \A j \in 1..(i - 1) : SubSeq(q, 1, i - 1)[j] = q[j]
  BY <1>1, <1>2
<1>4. /\ SubSeq(q, i, Len(q)) \in Seq(RowSids) /\ Len(SubSeq(q, i, Len(q))) = Len(q) - i + 1
      /\ \A j \in 1..(Len(q) - i + 1) : SubSeq(q, i, Len(q))[j] = q[j + i - 1]
  BY <1>1, <1>2
<1>5. PICK n \in Nat : n = Len(q) /\ DOMAIN q = 1..n
  BY <1>2
<1>6. PICK a \in Seq(RowSids) : a = SubSeq(q, 1, i - 1)
  BY <1>3
<1>7. PICK b \in Seq(RowSids) : b = SubSeq(q, i, Len(q))
  BY <1>4
<1>8. /\ Len(a) = i - 1 /\ Len(b) = n - i + 1 /\ i \in 1..(n + 1)
      /\ \A j \in 1..(i - 1) : a[j] = q[j]
      /\ \A j \in 1..(n - i + 1) : b[j] = q[j + i - 1]
  BY <1>3, <1>4, <1>5, <1>6, <1>7
<1>a. <<s>> \in Seq(RowSids)
  BY ONLY s \in RowSids
<1>9. PICK c \in Seq(RowSids) : c = <<s>> /\ Len(c) = 1 /\ c[1] = s
  BY <1>a
<1>b. a \o c \in Seq(RowSids)
  BY ONLY a \in Seq(RowSids), c \in Seq(RowSids)
<1>10. PICK d \in Seq(RowSids) : d = a \o c
  BY <1>b
<1>11. Len(d) = i /\ d[i] = s /\ \A j \in 1..(i - 1) : d[j] = a[j]
  BY ONLY <1>8, <1>9, <1>10, a \in Seq(RowSids), c \in Seq(RowSids), n \in Nat
<1>12. d \o b \in Seq(RowSids) /\ Len(d \o b) = Len(d) + Len(b)
  BY ONLY d \in Seq(RowSids), b \in Seq(RowSids)
<1>13. p = d \o b
  BY <1>6, <1>7, <1>9, <1>10 DEF InsertAt
<1>14. p \in Seq(RowSids) /\ Len(p) = n + 1
  BY ONLY <1>8, <1>11, <1>12, <1>13, n \in Nat
<1>15. \A j \in 1..i : p[j] = d[j]
  BY ONLY <1>11, <1>13, d \in Seq(RowSids), b \in Seq(RowSids)
<1>16. \A j \in (i + 1)..(n + 1) : p[j] = b[j - i]
  BY ONLY <1>8, <1>11, <1>12, <1>13, n \in Nat, d \in Seq(RowSids), b \in Seq(RowSids)
<1>17. \A j \in 1..(n + 1) : p[j] = IF j < i THEN q[j] ELSE IF j = i THEN s ELSE q[j - 1]
  <2>1. SUFFICES ASSUME NEW j \in 1..(n + 1)
        PROVE  p[j] = IF j < i THEN q[j] ELSE IF j = i THEN s ELSE q[j - 1]
    OBVIOUS
  <2>2. i \in Nat /\ j \in Nat
    BY <1>8
  <2>3. CASE j < i
    BY <1>8, <1>11, <1>15, <2>2, <2>3
  <2>4. CASE j = i
    BY <1>8, <1>11, <1>15, <2>2, <2>4
  <2>5. CASE j > i
    <3>1. j \in (i + 1)..(n + 1) /\ j - i \in 1..(n - i + 1) /\ (j - i) + i - 1 = j - 1
      BY <1>8, <2>2, <2>5
    <3>2. PICK m \in 1..(n - i + 1) : m = j - i /\ m + i - 1 = j - 1
      BY <3>1
    <3>3. p[j] = b[m]
      BY <1>16, <3>1, <3>2
    <3>4. b[m] = q[j - 1]
      <4>1. b[m] = q[m + i - 1]
        BY <1>8
      <4>. QED BY <3>2, <4>1
    <3>5. ~ (j < i) /\ j # i
      BY <2>2, <2>5
    <3>. QED BY <3>3, <3>4, <3>5
  <2>. QED BY <2>2, <2>3, <2>4, <2>5
<1>18. DOMAIN p = 1..(n + 1)
  BY <1>14
<1>. DEFINE at(j) == IF j < i THEN j ELSE j + 1
<1>19. ASSUME NEW j \in 1..n
       PROVE  at(j) \in 1..(n + 1) /\ at(j) # i /\ p[at(j)] = q[j]
  <2>1. CASE j < i
    <3>1. j \in 1..(n + 1)
      OBVIOUS
    <3>. QED BY <1>17, <2>1, <3>1
  <2>2. CASE ~ (j < i)
    <3>1. PICK k \in 1..(n + 1) : k = j + 1 /\ ~ (k < i) /\ k # i /\ k - 1 = j
      BY <1>8, <2>2
    <3>2. p[k] = q[k - 1]
      BY <1>17, <3>1
    <3>. QED BY <2>2, <3>1, <3>2
  <2>. QED BY <2>1, <2>2
<1>20. i \in 1..(n + 1) /\ p[i] = s
  BY <1>8, <1>17
<1>21. \A j \in 1..(n + 1) : j = i \/ \E k \in 1..n : j = at(k)
  <2>1. SUFFICES ASSUME NEW j \in 1..(n + 1), j # i
        PROVE  \E k \in 1..n : j = at(k)
    OBVIOUS
  <2>2. CASE j < i
    <3>1. j \in 1..n /\ j = at(j)
      BY <1>8, <2>2
    <3>. QED BY <3>1
  <2>3. CASE j > i
    <3>1. j - 1 \in 1..n /\ j = at(j - 1)
      BY <1>8, <2>3
    <3>. QED BY <3>1
  <2>. QED BY <1>8, <2>1, <2>2, <2>3
<1>22. \A j, k \in 1..n : at(j) < at(k) <=> j < k
  BY <1>8
<1>23. \A j \in 1..n : i < at(j) <=> i <= j
  BY <1>8
<1>24. \A j \in 1..n : q[j] # s /\ q[j] \in Range(q)
  BY <1>5 DEF Range
<1>25. \A j \in 1..n : \A k \in 1..n : q[j] = q[k] => j = k
  BY <1>1, <1>5
<1>. HIDE DEF at
<1>26. ASSUME NEW j \in 1..(n + 1), NEW k \in 1..(n + 1), p[j] = p[k]
       PROVE  j = k
  <2>1. CASE j = i
    <3>1. CASE \E l \in 1..n : k = at(l)
      BY <1>19, <1>20, <1>24, <1>26, <2>1, <3>1
    <3>. QED BY <1>21, <2>1, <3>1
  <2>2. CASE \E m \in 1..n : j = at(m)
    <3>1. PICK m \in 1..n : j = at(m)
      BY <2>2
    <3>2. CASE k = i
      BY <1>19, <1>20, <1>24, <1>26, <3>1, <3>2
    <3>3. CASE \E l \in 1..n : k = at(l)
      <4>1. PICK l \in 1..n : k = at(l)
        BY <3>3
      <4>2. q[m] = q[l]
        BY <1>19, <1>26, <3>1, <4>1
      <4>. QED BY <1>25, <3>1, <4>1, <4>2
    <3>. QED BY <1>21, <3>2, <3>3
  <2>. QED BY <1>21, <2>1, <2>2
<1>27. Rows(p)
  BY <1>14, <1>18, <1>26 DEF Rows
<1>28. \A a1 : a1 \in Range(p) <=> a1 \in Range(q) \cup {s}
  <2>1. ASSUME NEW j \in 1..(n + 1)
        PROVE  p[j] \in Range(q) \cup {s}
    BY <1>19, <1>20, <1>21, <1>24
  <2>2. ASSUME NEW j \in 1..n
        PROVE  q[j] \in Range(p)
    BY <1>18, <1>19 DEF Range
  <2>3. s \in Range(p)
    BY <1>18, <1>20 DEF Range
  <2>. QED BY <1>5, <1>18, <2>1, <2>2, <2>3 DEF Range
<1>29. ASSUME NEW a1 \in Range(q), NEW b1 \in Range(q)
       PROVE  Higher(p, a1, b1) <=> Higher(q, a1, b1)
  <2>1. PICK j \in 1..n : q[j] = a1
    BY <1>5 DEF Range
  <2>2. PICK k \in 1..n : q[k] = b1
    BY <1>5 DEF Range
  <2>3. Higher(q, a1, b1) <=> j < k
    BY <1>5, <2>1, <2>2, AboveAt
  <2>4. Higher(p, a1, b1) <=> at(j) < at(k)
    BY <1>18, <1>19, <1>27, <2>1, <2>2, AboveAt
  <2>. QED BY <1>22, <2>3, <2>4
<1>30. ASSUME NEW j \in 1..n
       PROVE  Higher(p, s, q[j]) <=> i <= j
  <2>1. Higher(p, s, q[j]) <=> i < at(j)
    BY <1>18, <1>19, <1>20, <1>27, AboveAt
  <2>. QED BY <1>23, <2>1
<1>31. Range(p) = Range(q) \cup {s}
  BY ONLY <1>28
<1>. QED BY <1>5, <1>27, <1>29, <1>30, <1>31

\* insertBefore puts the row where it should.
LEMMA PutThere ==
    ASSUME NEW rows, Rows(rows), NEW s \in Range(rows), NEW r \in Range(rows), NEW below \in BOOLEAN,
           NEW p, p = Put(rows, s, r, below)
    PROVE  /\ s = r => p = rows
           /\ s # r => IsPut(p, rows, s, r, below)
<1>1. s = r => p = rows
  BY DEF Put
<1>2. ASSUME s # r
      PROVE  IsPut(p, rows, s, r, below)
  <2>1. PICK rest : rest = Kept(rows, RowSids \ {s})
    OBVIOUS
  <2>2. /\ Rows(rest) /\ Range(rest) = Range(rows) \cap (RowSids \ {s})
        /\ \A a, b \in Range(rest) : Higher(rest, a, b) <=> Higher(rows, a, b)
    BY <2>1, KeptInOrder
  <2>3. Range(rows) \subseteq RowSids
    BY DEF Rows, Range
  <2>4. Range(rest) = Range(rows) \ {s} /\ s \in RowSids
    BY <2>2, <2>3
  <2>5. rest \in Seq(RowSids) /\ \A j, k \in DOMAIN rest : rest[j] = rest[k] => j = k
    BY <2>2 DEF Rows
  <2>6. Len(rest) \in Nat /\ DOMAIN rest = 1..Len(rest)
    BY <2>5
  <2>7. PICK i \in DOMAIN rest : i = IndexOf(rest, r) /\ rest[i] = r
    <3>1. \E i \in DOMAIN rest : rest[i] = r
      BY <1>2, <2>4 DEF Range
    <3>. QED BY <3>1 DEF IndexOf
  <2>8. PICK k \in 1..(Len(rest) + 1) : k = i + (IF below THEN 1 ELSE 0)
    BY <2>6, <2>7
  <2>9. p = InsertAt(rest, k, s)
    BY <1>2, <2>1, <2>7, <2>8 DEF Put
  <2>10. s \notin Range(rest)
    BY <2>4
  <2>11. /\ Rows(p) /\ Range(p) = Range(rest) \cup {s}
         /\ \A a, b \in Range(rest) : Higher(p, a, b) <=> Higher(rest, a, b)
         /\ \A j \in 1..Len(rest) : Higher(p, s, rest[j]) <=> k <= j
    BY <2>2, <2>4, <2>8, <2>9, <2>10, Inserted
  <2>12. ASSUME NEW a \in Range(rest)
         PROVE  Higher(p, s, a) <=> IF below THEN Higher(rows, r, a) ELSE a = r \/ Higher(rows, r, a)
    <3>1. PICK j \in 1..Len(rest) : rest[j] = a
      BY <2>6 DEF Range
    <3>2. Higher(rest, r, a) <=> i < j
      BY <2>5, <2>6, <2>7, <3>1 DEF Higher
    <3>3. a = r <=> i = j
      BY <2>5, <2>6, <2>7, <3>1
    <3>4. r \in Range(rest)
      BY <2>7 DEF Range
    <3>5. Higher(rows, r, a) <=> i < j
      BY <2>2, <3>2, <3>4
    <3>6. Higher(p, s, a) <=> k <= j
      BY <2>11, <3>1
    <3>. QED BY <2>6, <2>7, <2>8, <3>1, <3>3, <3>5, <3>6
  <2>13. Range(p) = Range(rows)
    BY <2>4, <2>11
  <2>14. \A a, b \in Range(rows) \ {s} : Higher(p, a, b) <=> Higher(rows, a, b)
    BY <2>2, <2>4, <2>11
  <2>15. Rows(p)
    BY <2>11
  <2>16. \A a \in Range(rows) \ {s} :
           Higher(p, s, a) <=> IF below THEN Higher(rows, r, a) ELSE a = r \/ Higher(rows, r, a)
    BY <2>4, <2>12
  <2>. QED BY ONLY <2>13, <2>14, <2>15, <2>16 DEF IsPut
<1>. QED BY <1>1, <1>2

\* Lists of the same rows in the same order are the same.
LEMMA SameOrder ==
    ASSUME NEW p, Rows(p), NEW q, Rows(q), Range(p) = Range(q),
           \A a, b \in Range(p) : Higher(p, a, b) <=> Higher(q, a, b)
    PROVE  p = q
<1>1. p \in Seq(RowSids) /\ q \in Seq(RowSids)
  BY DEF Rows
<1>2. PICK m \in Nat : m = Len(p) /\ DOMAIN p = 1..m
  BY <1>1
<1>3. PICK n \in Nat : n = Len(q) /\ DOMAIN q = 1..n
  BY <1>1
<1>. DEFINE to == [i \in 1..m |-> CHOOSE j \in 1..n : q[j] = p[i]]
<1>4. ASSUME NEW i \in 1..m
      PROVE  to[i] \in 1..n /\ q[to[i]] = p[i]
  <2>1. p[i] \in Range(q)
    BY <1>2 DEF Range
  <2>2. \E j \in 1..n : q[j] = p[i]
    BY <1>3, <2>1 DEF Range
  <2>. QED BY <2>2
<1>5. ASSUME NEW i \in 1..m, NEW k \in 1..m
      PROVE  i < k <=> to[i] < to[k]
  <2>1. p[i] \in Range(p) /\ p[k] \in Range(p)
    BY <1>2 DEF Range
  <2>2. Higher(p, p[i], p[k]) <=> i < k
    BY <1>2, AboveAt
  <2>3. PICK x \in 1..n, y \in 1..n : x = to[i] /\ y = to[k] /\ q[x] = p[i] /\ q[y] = p[k]
    BY <1>4
  <2>4. Higher(q, q[x], q[y]) <=> x < y
    BY <1>3, AboveAt
  <2>. QED BY <2>1, <2>2, <2>3, <2>4
<1>6. ASSUME NEW j \in 1..n
      PROVE  \E i \in 1..m : to[i] = j
  <2>1. PICK i \in 1..m : p[i] = q[j]
    BY <1>2, <1>3 DEF Range
  <2>2. to[i] \in 1..n /\ q[to[i]] = q[j]
    BY <1>4, <2>1
  <2>. QED BY <1>3, <2>2 DEF Rows
<1>. HIDE DEF to
<1>7. \A i \in 1..m : to[i] = i
  <2>. DEFINE Off == {i \in 1..m : to[i] # i}
  <2>1. SUFFICES ASSUME Off # {}
        PROVE  FALSE
    BY DEF Off
  <2>2. Off \subseteq Nat
    OBVIOUS
  <2>3. PICK i \in Off : \A k \in Off : i <= k
    <3>. HIDE DEF Off
    <3>. QED BY <2>1, <2>2, SmallestOf
  <2>4. i \in 1..m /\ to[i] # i /\ i \in Nat
    OBVIOUS
  <2>5. \A k \in 1..m : k < i => to[k] = k
    BY <2>3, <2>4
  <2>6. to[i] \in 1..n
    BY <1>4, <2>4
  <2>7. CASE to[i] < i
    <3>1. PICK k \in 1..m : k = to[i] /\ k < i
      BY <2>4, <2>6, <2>7
    <3>2. to[k] = k
      BY <2>5, <3>1
    <3>3. to[k] < to[i]
      BY <1>5, <2>4, <3>1
    <3>. QED BY <3>1, <3>2, <3>3
  <2>8. CASE to[i] > i
    <3>1. i \in 1..n
      BY <2>4, <2>6, <2>8
    <3>2. PICK k \in 1..m : to[k] = i
      BY <1>6, <3>1
    <3>3. k < i
      <4>1. to[k] < to[i]
        BY <2>4, <2>6, <2>8, <3>2
      <4>. QED BY <1>5, <2>4, <4>1
    <3>. QED BY <2>5, <3>2, <3>3
  <2>. QED BY <2>4, <2>6, <2>7, <2>8
<1>8. m <= n
  <2>1. CASE m = 0
    BY <2>1
  <2>2. CASE m # 0
    <3>1. m \in 1..m
      BY <2>2
    <3>. QED BY <1>4, <1>7, <3>1
  <2>. QED BY <2>1, <2>2
<1>9. n <= m
  <2>1. CASE n = 0
    BY <2>1
  <2>2. CASE n # 0
    <3>1. n \in 1..n
      BY <2>2
    <3>2. PICK i \in 1..m : to[i] = n
      BY <1>6, <3>1
    <3>. QED BY <1>7, <3>2
  <2>. QED BY <2>1, <2>2
<1>10. m = n
  BY <1>8, <1>9
<1>11. \A i \in 1..n : p[i] = q[i]
  BY <1>4, <1>7, <1>10
<1>. QED BY <1>1, <1>2, <1>3, <1>10, <1>11

\* What both have is in the same order.
SameWay(p, q) == \A a, b \in Range(p) \cap Range(q) : Higher(p, a, b) <=> Higher(q, a, b)

\* Two lists that have a row put next to another one stay in one order.
LEMMA BothPut ==
    ASSUME NEW p, Rows(p), NEW q, Rows(q), SameWay(p, q), NEW below \in BOOLEAN,
           NEW s \in Range(p) \cap Range(q), NEW r \in Range(p) \cap Range(q),
           NEW p1, p1 = Put(p, s, r, below), NEW q1, q1 = Put(q, s, r, below)
    PROVE  SameWay(p1, q1)
<1>1. CASE s = r
  <2>1. p1 = p /\ q1 = q
    BY <1>1, PutThere
  <2>. QED BY <2>1
<1>2. CASE s # r
  <2>1. IsPut(p1, p, s, r, below) /\ IsPut(q1, q, s, r, below)
    BY <1>2, PutThere
  <2>2. Rows(p1) /\ Rows(q1) /\ Range(p1) = Range(p) /\ Range(q1) = Range(q)
    BY <2>1 DEF IsPut
  <2>3. ASSUME NEW a \in (Range(p) \cap Range(q)) \ {s}
        PROVE  Higher(p1, s, a) <=> Higher(q1, s, a)
    <3>1. Higher(p, r, a) <=> Higher(q, r, a)
      BY DEF SameWay
    <3>2. Higher(p1, s, a) <=> IF below THEN Higher(p, r, a) ELSE a = r \/ Higher(p, r, a)
      BY <2>1, <2>3 DEF IsPut
    <3>3. Higher(q1, s, a) <=> IF below THEN Higher(q, r, a) ELSE a = r \/ Higher(q, r, a)
      BY <2>1, <2>3 DEF IsPut
    <3>. QED BY <3>1, <3>2, <3>3
  <2>4. ASSUME NEW a \in Range(p) \cap Range(q), NEW b \in Range(p) \cap Range(q)
        PROVE  Higher(p1, a, b) <=> Higher(q1, a, b)
    <3>1. CASE a # s /\ b # s
      <4>1. Higher(p1, a, b) <=> Higher(p, a, b)
        BY <2>1, <3>1 DEF IsPut
      <4>2. Higher(q1, a, b) <=> Higher(q, a, b)
        BY <2>1, <3>1 DEF IsPut
      <4>. QED BY <4>1, <4>2 DEF SameWay
    <3>2. CASE a = s /\ b # s
      BY <2>3, <3>2
    <3>3. CASE a # s /\ b = s
      <4>1. Higher(p1, a, s) <=> ~ Higher(p1, s, a)
        BY <2>2, <3>3, AboveOrBelow
      <4>2. Higher(q1, a, s) <=> ~ Higher(q1, s, a)
        BY <2>2, <3>3, AboveOrBelow
      <4>. QED BY <2>3, <3>3, <4>1, <4>2
    <3>4. CASE a = s /\ b = s
      BY <2>2, <3>4, AboveOrBelow
    <3>. QED BY <3>1, <3>2, <3>3, <3>4
  <2>. QED BY <2>2, <2>4 DEF SameWay
<1>. QED BY <1>1, <1>2

-----------------------------------------------------------------------------
(* Rows that are dragged.                                                  *)

\* Each table has rows of its own type.
RowLists ==
    /\ Rows(file) /\ Rows(copied)
    /\ tables = [t \in TableTypes |-> tables[t]]
    /\ \A t \in TableTypes : Rows(tables[t]) /\ \A s \in Range(tables[t]) : RowType[s] = t

\* A row that is dragged, and the one it is over, are in the page, or were
\* before the page was redrawn.
Dragged ==
    /\ drag = [sid |-> drag.sid, live |-> drag.live, rows |-> drag.rows,
               target |-> drag.target, below |-> drag.below]
    /\ drag.live \in BOOLEAN /\ drag.below \in BOOLEAN
    /\ drag.sid \in RowSids \cup {NoRow} /\ drag.target \in RowSids \cup {NoRow}
    /\ drag.target # NoRow => drag.sid # NoRow
    /\ drag.sid # NoRow /\ drag.live => drag.sid \in Range(tables[RowType[drag.sid]])
    /\ drag.target # NoRow /\ drag.live => drag.target \in OnPage

RowsInv ==
    /\ RowLists
    /\ Dragged
    /\ stray \in BOOLEAN
    /\ stray \/ \A t \in TableTypes : SameWay(tables[t], copied)

\* Filters leave what two lists have in common in its order.
LEMMA KeptSameWay ==
    ASSUME NEW p, Rows(p), NEW q, Rows(q), SameWay(p, q), NEW S, NEW p1, p1 = Kept(p, S)
    PROVE  SameWay(p1, q) /\ SameWay(q, p1) /\ Rows(p1) /\ Range(p1) \subseteq Range(p)
<1>1. /\ Rows(p1) /\ Range(p1) = Range(p) \cap S
      /\ \A a, b \in Range(p1) : Higher(p1, a, b) <=> Higher(p, a, b)
  BY KeptInOrder
<1>. QED BY <1>1 DEF SameWay

\* The rows of a table as they are drawn.
LEMMA DrawnRows ==
    ASSUME NEW q, Rows(q)
    PROVE  /\ Drawn(q) = [t \in TableTypes |-> Drawn(q)[t]]
           /\ \A t \in TableTypes :
                /\ Rows(Drawn(q)[t]) /\ SameWay(Drawn(q)[t], q)
                /\ \A s \in Range(Drawn(q)[t]) : RowType[s] = t
<1>1. Drawn(q) = [t \in TableTypes |-> OfType(q, t)]
  BY DEF Drawn
<1>2. ASSUME NEW t \in TableTypes
      PROVE  /\ Rows(Drawn(q)[t]) /\ SameWay(Drawn(q)[t], q)
             /\ \A s \in Range(Drawn(q)[t]) : RowType[s] = t
  <2>1. PICK p : p = Kept(q, {s \in RowSids : RowType[s] = t}) /\ p = Drawn(q)[t]
    BY <1>1 DEF OfType
  <2>2. SameWay(q, q)
    BY DEF SameWay
  <2>3. Rows(p) /\ SameWay(p, q)
    BY <2>1, <2>2, KeptSameWay
  <2>4. Range(p) = Range(q) \cap {s \in RowSids : RowType[s] = t}
    BY <2>1, KeptInOrder
  <2>. QED BY <2>1, <2>3, <2>4
<1>. QED BY <1>1, <1>2

\* The state without such tables, and the first state of a page with them.
LEMMA RowsStart == RowsInit \/ NoRows => RowsInv
<1>1. ASSUME Rows(file), copied = file, tables = Drawn(file), drag = NoDrag, stray = FALSE
      PROVE  RowsInv
  <2>1. RowLists /\ \A t \in TableTypes : SameWay(tables[t], copied)
    BY <1>1, DrawnRows DEF RowLists
  <2>2. Dragged
    BY <1>1 DEF Dragged, NoDrag
  <2>. QED BY <1>1, <2>1, <2>2 DEF RowsInv
<1>2. CASE RowsInit
  <2>1. Rows(file)
    BY <1>2, RowsAssumption DEF RowsInit, Rows, RowSids, IsInjective
  <2>. QED BY <1>1, <1>2, <2>1 DEF RowsInit
<1>3. CASE NoRows
  <2>1. Rows(<<>>)
    BY DEF Rows
  <2>. QED BY <1>1, <1>3, <2>1 DEF NoRows
<1>. QED BY <1>2, <1>3

\* A row that is on the page is in the table of its type.
LEMMA InItsTable ==
    ASSUME RowLists, NEW s \in OnPage
    PROVE  s \in RowSids /\ RowType[s] \in TableTypes /\ s \in Range(tables[RowType[s]])
<1>1. PICK t \in TableTypes : s \in Range(tables[t])
  BY DEF OnPage
<1>2. Range(tables[t]) \subseteq RowSids /\ RowType[s] = t
  BY <1>1 DEF RowLists, Rows, Range
<1>. QED BY <1>1, <1>2

\* Steps that leave tables and lists alone leave them in order.
LEMMA OnlyDragged ==
    ASSUME RowsInv, UNCHANGED <<file, copied, tables, stray>>, Dragged'
    PROVE  RowsInv'
BY DEF RowsInv, RowLists, SameWay, Higher

\* Dragging starts, goes on and ends in nothing.
LEMMA DragStays ==
    ASSUME RowsInv, DragRow \/ Hover \/ LetGo
    PROVE  RowsInv'
<1>1. UNCHANGED <<file, copied, tables, stray, touch>>
  BY DEF DragRow, Hover, LetGo
<1>2. RowLists /\ Dragged
  BY DEF RowsInv
<1>3. CASE DragRow
  <2>1. PICK s \in OnPage : drag' = [NoDrag EXCEPT !.sid = s]
    BY <1>3 DEF DragRow
  <2>2. s \in RowSids /\ RowType[s] \in TableTypes /\ s \in Range(tables[RowType[s]])
    BY <1>2, InItsTable
  <2>3. drag' = [sid |-> s, live |-> TRUE, rows |-> <<>>, target |-> NoRow, below |-> FALSE]
    BY <2>1 DEF NoDrag
  <2>4. Dragged'
    BY <1>1, <2>2, <2>3 DEF Dragged
  <2>. QED BY <1>1, <2>4, OnlyDragged
<1>4. CASE Hover
  <2>1. PICK r \in RowSids, below \in BOOLEAN :
          Hovered(r, below) /\ drag' = [drag EXCEPT !.target = r, !.below = below]
    BY <1>4 DEF Hover
  <2>2. drag' = [sid |-> drag.sid, live |-> drag.live, rows |-> drag.rows,
                 target |-> r, below |-> below]
    BY <1>2, <2>1 DEF Dragged
  <2>3. drag.sid # NoRow
    BY <1>4 DEF Hover
  <2>4. drag.live => r \in OnPage
    <3>1. drag.sid \in RowSids /\ RowType[drag.sid] \in TableTypes
      BY <1>2, <2>3 DEF Dragged, TableTypes
    <3>. QED BY <2>1, <3>1 DEF Hovered, OnPage
  <2>5. OnPage' = OnPage
    BY <1>1 DEF OnPage
  <2>6. Dragged'
    BY <1>1, <1>2, <2>2, <2>3, <2>4, <2>5 DEF Dragged
  <2>. QED BY <1>1, <2>6, OnlyDragged
<1>5. CASE LetGo
  <2>1. drag' = NoDrag
    BY <1>5 DEF LetGo
  <2>2. Dragged'
    BY <2>1 DEF Dragged, NoDrag
  <2>. QED BY <1>1, <2>2, OnlyDragged
<1>. QED BY <1>3, <1>4, <1>5

\* A list that is changed beside the tables.
LEMMA OtherLists ==
    ASSUME RowsInv, UNCHANGED <<tables, drag, stray>>, Rows(file'), Rows(copied'),
           stray \/ \A t \in TableTypes : SameWay(tables[t], copied')
    PROVE  RowsInv'
<1>1. RowLists'
  BY DEF RowsInv, RowLists, Rows
<1>2. Dragged'
  BY DEF RowsInv, Dragged, OnPage
<1>. QED BY <1>1, <1>2 DEF RowsInv, SameWay, Higher

\* Saving, up to the redrawing, leaves rows in order.
LEMMA SaveStays ==
    ASSUME RowsInv, SaveRows \/ SendOrder \/ SaveRefused
    PROVE  RowsInv'
<1>1. Rows(file) /\ Rows(copied) /\ \A t \in TableTypes : Rows(tables[t])
  BY DEF RowsInv, RowLists
<1>2. UNCHANGED <<tables, drag, stray>>
  BY DEF SaveRows, SendOrder, SaveRefused
<1>3. stray \/ \A t \in TableTypes : SameWay(tables[t], copied)
  BY DEF RowsInv
<1>4. ASSUME NEW q, Rows(q), NEW S
      PROVE  Rows(Kept(q, S))
  <2>1. PICK p : p = Kept(q, S)
    OBVIOUS
  <2>. QED BY <1>4, <2>1, KeptInOrder
<1>5. CASE SaveRows
  <2>1. file' = file
    BY <1>5 DEF SaveRows
  <2>2. CASE copied' = copied
    BY <1>1, <1>2, <1>3, <2>1, <2>2, OtherLists
  <2>3. CASE \E s \in OnPage : copied' = Kept(copied, RowSids \ {s})
    <3>1. PICK s \in OnPage : copied' = Kept(copied, RowSids \ {s})
      BY <2>3
    <3>2. PICK p : p = Kept(copied, RowSids \ {s})
      OBVIOUS
    <3>3. ASSUME NEW t \in TableTypes, SameWay(tables[t], copied)
          PROVE  SameWay(tables[t], p)
      <4>1. PICK q : q = tables[t]
        OBVIOUS
      <4>2. Rows(q) /\ SameWay(copied, q)
        BY <1>1, <3>3, <4>1 DEF SameWay
      <4>. QED BY <1>1, <3>2, <4>1, <4>2, KeptSameWay
    <3>4. Rows(p)
      BY <1>1, <1>4, <3>2
    <3>. QED BY <1>1, <1>2, <1>3, <2>1, <3>1, <3>2, <3>3, <3>4, OtherLists
  <2>. QED BY <1>5, <2>2, <2>3 DEF SaveRows
<1>6. CASE SendOrder \/ SaveRefused
  <2>1. copied' = copied
    BY <1>6 DEF SendOrder, SaveRefused
  <2>2. file' = file \/ file' = copied \/ file' = Kept(file, Range(copied))
    BY <1>6 DEF SendOrder, SaveRefused
  <2>3. Rows(Kept(file, Range(copied)))
    BY <1>1, <1>4
  <2>4. Rows(file')
    BY <1>1, <2>2, <2>3
  <2>. QED BY <1>1, <1>2, <1>3, <2>1, <2>4, OtherLists
<1>. QED BY <1>5, <1>6

\* The page is redrawn from the file.
LEMMA RedrawStays ==
    ASSUME RowsInv, Redraw
    PROVE  RowsInv'
<1>1. file' = file /\ copied' = file /\ tables' = Drawn(file) /\ stray' = FALSE
  BY DEF Redraw
<1>2. Rows(file) /\ Dragged
  BY DEF RowsInv, RowLists
<1>3. PICK d : d = Drawn(file)
  OBVIOUS
<1>4. /\ d = [t \in TableTypes |-> d[t]]
      /\ \A t \in TableTypes :
           /\ Rows(d[t]) /\ SameWay(d[t], file)
           /\ \A s \in Range(d[t]) : RowType[s] = t
  BY <1>2, <1>3, DrawnRows
<1>5. RowLists'
  BY <1>1, <1>2, <1>3, <1>4 DEF RowLists, Rows
<1>6. (\A t \in TableTypes : SameWay(tables[t], copied))'
  BY <1>1, <1>3, <1>4 DEF SameWay, Higher
<1>7. Dragged'
  <2>1. CASE drag.sid = NoRow
    <3>1. drag' = drag /\ drag.target = NoRow
      BY <1>2, <2>1 DEF Redraw, Dragged
    <3>. QED BY <1>2, <2>1, <3>1 DEF Dragged
  <2>2. CASE drag.sid # NoRow
    <3>1. PICK rs : drag' = [drag EXCEPT !.live = FALSE, !.rows = rs,
                                         !.target = IF touch THEN drag.target ELSE NoRow]
      BY <2>2 DEF Redraw
    <3>2. drag' = [sid |-> drag.sid, live |-> FALSE, rows |-> rs,
                   target |-> IF touch THEN drag.target ELSE NoRow, below |-> drag.below]
      BY <1>2, <3>1 DEF Dragged
    <3>. QED BY <1>2, <2>2, <3>2 DEF Dragged
  <2>. QED BY <2>1, <2>2
<1>. QED BY <1>1, <1>5, <1>6, <1>7 DEF RowsInv

\* uci.move keeps a list a list.
LEMMA MovedRows ==
    ASSUME NEW q, Rows(q), NEW s, NEW r, NEW below \in BOOLEAN, {s, r} \subseteq Range(q),
           NEW p, p = Put(q, s, r, below)
    PROVE  Rows(p) /\ Range(p) = Range(q)
<1>1. CASE s = r
  BY <1>1, PutThere
<1>2. CASE s # r
  BY <1>2, PutThere DEF IsPut
<1>. QED BY <1>1, <1>2

\* A row that is taken out and appended.
LEMMA AppendedRows ==
    ASSUME NEW q, Rows(q), NEW s \in Range(q), NEW p, p = Append(Kept(q, RowSids \ {s}), s)
    PROVE  Rows(p) /\ Range(p) = Range(q)
<1>1. PICK k : k = Kept(q, RowSids \ {s})
  OBVIOUS
<1>2. Rows(k) /\ Range(k) = Range(q) \cap (RowSids \ {s})
  BY <1>1, KeptInOrder
<1>3. Range(q) \subseteq RowSids
  BY DEF Rows, Range
<1>4. s \in RowSids /\ s \notin Range(k)
  BY <1>2, <1>3
<1>5. k \in Seq(RowSids) /\ \A i, j \in DOMAIN k : k[i] = k[j] => i = j
  BY <1>2 DEF Rows
<1>6. PICK n \in Nat : n = Len(k) /\ DOMAIN k = 1..n
  BY <1>5
<1>7. Append(k, s) \in Seq(RowSids)
  BY ONLY <1>4, <1>5
<1>8. p \in Seq(RowSids) /\ Len(p) = n + 1 /\ p[n + 1] = s /\ \A i \in 1..n : p[i] = k[i]
  BY <1>1, <1>5, <1>6, <1>7
<1>9. DOMAIN p = 1..(n + 1)
  BY <1>8
<1>10. \A i \in 1..n : k[i] # s /\ k[i] \in Range(k)
  BY <1>4, <1>6 DEF Range
<1>11. ASSUME NEW i \in 1..(n + 1), NEW j \in 1..(n + 1), p[i] = p[j]
       PROVE  i = j
  <2>1. \A m \in 1..(n + 1) : m = n + 1 \/ m \in 1..n
    OBVIOUS
  <2>2. CASE i \in 1..n /\ j \in 1..n
    BY <1>5, <1>6, <1>8, <1>11, <2>2
  <2>3. CASE i = n + 1 \/ j = n + 1
    BY <1>8, <1>10, <1>11, <2>1, <2>3
  <2>. QED BY <2>1, <2>2, <2>3
<1>12. \A a : a \in Range(p) <=> a \in Range(k) \cup {s}
  <2>1. ASSUME NEW i \in 1..(n + 1)
        PROVE  p[i] \in Range(k) \cup {s}
    <3>1. i = n + 1 \/ i \in 1..n
      OBVIOUS
    <3>. QED BY <1>8, <1>10, <3>1
  <2>2. ASSUME NEW i \in 1..n
        PROVE  k[i] \in Range(p)
    <3>1. i \in 1..(n + 1)
      OBVIOUS
    <3>. QED BY <1>8, <1>9, <3>1 DEF Range
  <2>3. s \in Range(p)
    <3>1. n + 1 \in 1..(n + 1)
      OBVIOUS
    <3>. QED BY <1>8, <1>9, <3>1 DEF Range
  <2>. QED BY <1>6, <1>9, <2>1, <2>2, <2>3 DEF Range
<1>13. Range(p) = Range(k) \cup {s}
  BY ONLY <1>12
<1>14. Range(p) = Range(q)
  BY <1>2, <1>3, <1>13
<1>. QED BY <1>8, <1>9, <1>11, <1>14 DEF Rows

\* The copy after a drop is a list of the same sections.
LEMMA CopyAfterDrop ==
    ASSUME Rows(copied), NEW s, NEW r, NEW below \in BOOLEAN, NEW p, p = Moved(s, r, below)
    PROVE  Rows(p) /\ Range(p) = Range(copied)
<1>1. CASE {s, r} \subseteq Range(copied)
  <2>1. p = Put(copied, s, r, below)
    BY <1>1 DEF Moved
  <2>. QED BY <1>1, <2>1, MovedRows
<1>2. CASE ~ ({s, r} \subseteq Range(copied))
  BY <1>2 DEF Moved
<1>. QED BY <1>1, <1>2

\* A drop in the table of the row: the page and the copy move it alike.
LEMMA DropInTable ==
    ASSUME RowsInv, drag.target # NoRow, SameTable,
           NEW T, T = RowType[drag.sid], NEW p, p = Put(tables[T], drag.sid, drag.target, drag.below),
           NEW c, c = Moved(drag.sid, drag.target, drag.below)
    PROVE  /\ T \in TableTypes /\ Rows(p) /\ Range(p) = Range(tables[T])
           /\ Rows(c) /\ Range(c) = Range(copied)
           /\ \/ stray \/ drag.target \notin Range(copied)
              \/ SameWay(p, c) /\ \A t \in TableTypes \ {T} : SameWay(tables[t], c)
<1>1. RowLists /\ Dragged
  BY DEF RowsInv
<1>2. drag.live /\ RowType[drag.target] = T /\ drag.sid # NoRow /\ drag.below \in BOOLEAN
  BY <1>1 DEF SameTable, Dragged
<1>3. drag.sid \in RowSids /\ T \in TableTypes
  BY <1>1, <1>2 DEF Dragged, TableTypes
<1>4. PICK s \in Range(tables[T]) : s = drag.sid
  BY <1>1, <1>2 DEF Dragged
<1>5. drag.target \in OnPage
  BY <1>1, <1>2 DEF Dragged
<1>6. PICK r \in Range(tables[T]) : r = drag.target
  BY <1>1, <1>2, <1>5, InItsTable
<1>7. PICK q : q = tables[T]
  OBVIOUS
<1>8. Rows(q) /\ Rows(copied)
  BY <1>1, <1>3, <1>7 DEF RowLists
<1>9. PICK below \in BOOLEAN : below = drag.below
  BY <1>2
<1>10. p = Put(q, s, r, below) /\ c = Moved(s, r, below)
  BY <1>4, <1>6, <1>7, <1>9
<1>11. Rows(p) /\ Range(p) = Range(q)
  <2>1. {s, r} \subseteq Range(q)
    BY <1>7
  <2>. QED BY <1>8, <1>10, <2>1, MovedRows
<1>12. Rows(c) /\ Range(c) = Range(copied)
  BY <1>8, <1>10, CopyAfterDrop
<1>13. ASSUME ~ stray, r \in Range(copied)
       PROVE  SameWay(p, c) /\ \A t \in TableTypes \ {T} : SameWay(tables[t], c)
  <2>1. \A t \in TableTypes : SameWay(tables[t], copied)
    BY <1>13 DEF RowsInv
  <2>2. SameWay(q, copied)
    BY <1>3, <1>7, <2>1
  <2>3. CASE s \in Range(copied)
    <3>1. c = Put(copied, s, r, below)
      BY <1>10, <1>13, <2>3 DEF Moved
    <3>2. SameWay(p, c)
      <4>1. s \in Range(q) \cap Range(copied) /\ r \in Range(q) \cap Range(copied)
        BY <1>7, <1>13, <2>3
      <4>. QED BY <1>8, <1>10, <2>2, <3>1, <4>1, BothPut
    <3>3. ASSUME NEW t \in TableTypes \ {T}
          PROVE  SameWay(tables[t], c)
      <4>1. s \notin Range(tables[t])
        BY <1>1, <1>4, <3>3 DEF RowLists
      <4>2. \A a, b \in Range(copied) \ {s} : Higher(c, a, b) <=> Higher(copied, a, b)
        <5>1. CASE s = r
          <6>1. c = copied
            BY <1>8, <1>13, <2>3, <3>1, <5>1, PutThere
          <6>. QED BY <6>1
        <5>2. CASE s # r
          <6>1. IsPut(c, copied, s, r, below)
            BY <1>8, <1>13, <2>3, <3>1, <5>2, PutThere
          <6>. QED BY <6>1 DEF IsPut
        <5>. QED BY <5>1, <5>2
      <4>3. SameWay(tables[t], copied)
        BY <2>1
      <4>. QED BY <1>12, <4>1, <4>2, <4>3 DEF SameWay
    <3>. QED BY <3>2, <3>3
  <2>4. CASE s \notin Range(copied)
    <3>1. c = copied
      BY <1>10, <2>4 DEF Moved
    <3>2. \A a, b \in Range(q) \ {s} : Higher(p, a, b) <=> Higher(q, a, b)
      <4>1. CASE s = r
        <5>1. p = q
          BY <1>7, <1>8, <1>10, <4>1, PutThere
        <5>. QED BY <5>1
      <4>2. CASE s # r
        <5>1. IsPut(p, q, s, r, below)
          BY <1>7, <1>8, <1>10, <4>2, PutThere
        <5>. QED BY <5>1 DEF IsPut
      <4>. QED BY <4>1, <4>2
    <3>3. SameWay(p, copied)
      BY <1>11, <2>2, <2>4, <3>2 DEF SameWay
    <3>. QED BY <2>1, <3>1, <3>3
  <2>. QED BY <2>3, <2>4
<1>. QED BY <1>3, <1>6, <1>7, <1>11, <1>12, <1>13

\* A drop at the end of another table, or by a finger, leaves lists of rows.
LEMMA DropElsewhere ==
    ASSUME RowsInv, drag.target # NoRow, ~ SameTable, drag.live,
           NEW T, T = RowType[drag.sid],
           NEW p, p = Append(Kept(tables[T], RowSids \ {drag.sid}), drag.sid)
    PROVE  T \in TableTypes /\ Rows(p) /\ Range(p) = Range(tables[T])
<1>1. RowLists /\ Dragged /\ drag.sid # NoRow
  BY DEF RowsInv, Dragged
<1>2. drag.sid \in RowSids /\ T \in TableTypes /\ drag.sid \in Range(tables[T])
  BY <1>1 DEF Dragged, TableTypes
<1>3. Rows(tables[T])
  BY <1>1, <1>2 DEF RowLists
<1>. QED BY <1>2, <1>3, AppendedRows

\* A drop.
LEMMA DropStays ==
    ASSUME RowsInv, Drop
    PROVE  RowsInv'
<1>1. RowLists /\ Dragged /\ drag.target # NoRow /\ stray \in BOOLEAN
  BY DEF RowsInv, Drop
<1>2. file' = file /\ drag' = NoDrag /\ Dragged'
  BY DEF Drop, Dragged, NoDrag
<1>3. CASE ~ Inserts
  <2>1. UNCHANGED <<tables, copied, stray>>
    BY <1>3 DEF Drop
  <2>. QED BY <1>2, <2>1, OnlyDragged
<1>4. CASE Inserts
  <2>1. /\ tables' = TablesAfterDrop
        /\ copied' = Moved(drag.sid, drag.target, drag.below)
        /\ stray' = (stray \/ ~SameTable \/ drag.target \notin Range(copied))
    BY <1>4 DEF Drop
  <2>2. PICK c : c = Moved(drag.sid, drag.target, drag.below)
    OBVIOUS
  <2>3. drag.below \in BOOLEAN /\ Rows(copied)
    BY <1>1 DEF Dragged, RowLists
  <2>4. Rows(c) /\ Range(c) = Range(copied)
    BY <2>2, <2>3, CopyAfterDrop
  <2>5. stray' \in BOOLEAN
    BY <2>1
  <2>6. ASSUME NEW T \in TableTypes, NEW p, Rows(p), Range(p) = Range(tables[T]),
               tables' = [tables EXCEPT ![T] = p],
               stray' \/ (SameWay(p, c) /\ \A t \in TableTypes \ {T} : SameWay(tables[t], c))
        PROVE  RowsInv'
    <3>1. \A t \in TableTypes : tables'[t] = IF t = T THEN p ELSE tables[t]
      BY <1>1, <2>6 DEF RowLists
    <3>2. tables' = [t \in TableTypes |-> tables'[t]]
      BY <1>1, <2>6 DEF RowLists
    <3>3. RowLists'
      BY <1>1, <1>2, <2>1, <2>2, <2>4, <2>6, <3>1, <3>2 DEF RowLists, Rows
    <3>4. (stray \/ \A t \in TableTypes : SameWay(tables[t], copied))'
      BY <2>1, <2>2, <2>6, <3>1 DEF SameWay, Higher
    <3>. QED BY <1>2, <2>5, <3>3, <3>4 DEF RowsInv
  <2>7. CASE SameTable
    <3>1. PICK T : T = RowType[drag.sid]
      OBVIOUS
    <3>2. PICK p : p = Put(tables[T], drag.sid, drag.target, drag.below)
      OBVIOUS
    <3>3. /\ T \in TableTypes /\ Rows(p) /\ Range(p) = Range(tables[T])
          /\ \/ stray \/ drag.target \notin Range(copied)
             \/ SameWay(p, c) /\ \A t \in TableTypes \ {T} : SameWay(tables[t], c)
      BY <1>1, <2>2, <2>7, <3>1, <3>2, DropInTable
    <3>a. drag.live
      BY <2>7 DEF SameTable
    <3>b. TablesAfterDrop = [tables EXCEPT ![RowType[drag.sid]] = Put(tables[RowType[drag.sid]], drag.sid, drag.target, drag.below)]
      BY <2>7, <3>a DEF TablesAfterDrop
    <3>c. tables' = TablesAfterDrop
      BY <2>1
    <3>4. tables' = [tables EXCEPT ![T] = p]
      BY ONLY <3>1, <3>2, <3>b, <3>c, Zenon
    <3>5. stray' \/ (SameWay(p, c) /\ \A t \in TableTypes \ {T} : SameWay(tables[t], c))
      <4>1. stray \/ drag.target \notin Range(copied) => stray'
        BY <2>1
      <4>. QED BY ONLY <3>3, <4>1, Zenon
    <3>6. T \in TableTypes /\ Rows(p) /\ Range(p) = Range(tables[T])
      BY <3>3
    <3>. QED BY ONLY <2>6, <3>4, <3>5, <3>6
  <2>8. CASE ~ SameTable /\ drag.live
    <3>1. PICK T : T = RowType[drag.sid]
      OBVIOUS
    <3>2. PICK p : p = Append(Kept(tables[T], RowSids \ {drag.sid}), drag.sid)
      OBVIOUS
    <3>3. T \in TableTypes /\ Rows(p) /\ Range(p) = Range(tables[T])
      BY <1>1, <2>8, <3>1, <3>2, DropElsewhere
    <3>a. TablesAfterDrop = [tables EXCEPT ![RowType[drag.sid]] = Append(Kept(tables[RowType[drag.sid]], RowSids \ {drag.sid}), drag.sid)]
      BY <2>8 DEF TablesAfterDrop
    <3>b. tables' = TablesAfterDrop /\ stray'
      BY <2>1, <2>8
    <3>4. tables' = [tables EXCEPT ![T] = p] /\ stray'
      BY ONLY <3>1, <3>2, <3>a, <3>b, Zenon
    <3>5. stray' \/ (SameWay(p, c) /\ \A t \in TableTypes \ {T} : SameWay(tables[t], c))
      BY ONLY <3>4, Zenon
    <3>. QED BY ONLY <2>6, <3>3, <3>4, <3>5
  <2>9. CASE ~ drag.live
    <3>1. tables' = tables /\ stray'
      BY <2>1, <2>9 DEF TablesAfterDrop, SameTable
    <3>2. RowLists'
      BY <1>1, <1>2, <2>1, <2>2, <2>4, <3>1 DEF RowLists, Rows
    <3>. QED BY <1>2, <2>5, <3>1, <3>2 DEF RowsInv
  <2>. QED BY <2>7, <2>8, <2>9
<1>. QED BY <1>3, <1>4

\* Every step of the part keeps rows in order.
LEMMA RowsStep == RowsInv /\ (RowsNext \/ UNCHANGED rowVars) => RowsInv'
<1>1. ASSUME RowsInv, UNCHANGED rowVars
      PROVE  RowsInv'
  <2>1. UNCHANGED <<file, copied, tables, stray, drag>>
    BY <1>1 DEF rowVars
  <2>2. Dragged'
    BY <1>1, <2>1 DEF RowsInv, Dragged, OnPage
  <2>. QED BY <1>1, <2>1, <2>2, OnlyDragged
<1>. QED BY <1>1, DragStays, DropStays, SaveStays, RedrawStays DEF RowsNext

\* What the invariant says of rows is what the page promises.
LEMMA InOrder == RowsInv => RowsInOrder
<1>. SUFFICES ASSUME RowsInv, ~ stray, NEW t \in TableTypes
     PROVE  Kept(tables[t], Range(copied)) = Kept(OfType(copied, t), Range(tables[t]))
  BY DEF RowsInOrder
<1>1. PICK q : q = tables[t]
  OBVIOUS
<1>2. /\ Rows(q) /\ Rows(copied) /\ SameWay(q, copied)
      /\ \A s \in Range(q) : RowType[s] = t
  BY <1>1 DEF RowsInv, RowLists
<1>3. PICK p : p = Kept(q, Range(copied))
  OBVIOUS
<1>4. /\ Rows(p) /\ Range(p) = Range(q) \cap Range(copied)
      /\ \A a, b \in Range(p) : Higher(p, a, b) <=> Higher(q, a, b)
  BY <1>2, <1>3, KeptInOrder
<1>5. PICK S : S = {s \in RowSids : RowType[s] = t}
  OBVIOUS
<1>6. PICK o : o = Kept(copied, S) /\ o = OfType(copied, t)
  BY <1>5 DEF OfType
<1>7. /\ Rows(o) /\ Range(o) = Range(copied) \cap S
      /\ \A a, b \in Range(o) : Higher(o, a, b) <=> Higher(copied, a, b)
  BY <1>2, <1>6, KeptInOrder
<1>8. PICK r : r = Kept(o, Range(q))
  OBVIOUS
<1>9. /\ Rows(r) /\ Range(r) = Range(o) \cap Range(q)
      /\ \A a, b \in Range(r) : Higher(r, a, b) <=> Higher(o, a, b)
  BY <1>7, <1>8, KeptInOrder
<1>10. Range(q) \subseteq S
  BY <1>2, <1>5 DEF Rows, Range
<1>11. Range(p) = Range(r)
  BY <1>4, <1>7, <1>9, <1>10
<1>12. \A a, b \in Range(p) : Higher(p, a, b) <=> Higher(r, a, b)
  BY <1>2, <1>4, <1>7, <1>9, <1>11 DEF SameWay
<1>13. p = r
  BY <1>4, <1>9, <1>11, <1>12, SameOrder
<1>. QED BY <1>1, <1>3, <1>6, <1>8, <1>13

\* form.js against uci.js: whatever is dragged where among sections of other types, while
\* saves delete, store, forget, fail and redraw, the rows of a table are in the order of their
\* sections, but for the rows dropped where their table could not follow.
THEOREM RowsAlwaysInOrder == PartsSpec => []RowsInOrder
<1>1. PartsInit => RowsInv
  BY RowsStart DEF PartsInit
<1>2. RowsInv /\ [PartsNext]_<<part, fieldVars, fileVars, viewVars, rowVars, wifiVars, freqVars, ddnsVars, vars, netVars>>
        => RowsInv'
  BY RowsStep DEF PartsNext
<1>3. RowsInv => RowsInOrder
  BY InOrder
<1>. QED BY <1>1, <1>2, <1>3, PTL DEF PartsSpec

-----------------------------------------------------------------------------
(* Fields for one value, for several, and lists.                           *)

\* A filter counts the places of what it keeps.
LEMMA KeptAt ==
    ASSUME NEW s, NEW S, NEW I, I = {i \in DOMAIN s : s[i] \in S}
    PROVE  Kept(s, S) = [k \in 1..Cardinality(I) |-> s[KthOf(I, k)]]
BY DEF Kept, KthOf, UpTo

\* The first k of what p lists.
FirstOf(p, k) == {p[l] : l \in 1..k}

\* They are k.
LEMMA CountedUp ==
    ASSUME NEW n \in Nat, NEW m \in Nat, NEW p \in [1..m -> 1..n],
           \A k, l \in 1..m : k < l => p[k] < p[l], NEW k \in 0..m
    PROVE  Cardinality(FirstOf(p, k)) = k
<1>0. PICK U : U = FirstOf(p, k)
  OBVIOUS
<1>1. PICK g : g = [l \in 1..k |-> p[l]]
  OBVIOUS
<1>2. \A l \in 1..k : l \in 1..m /\ l \in Nat
  OBVIOUS
<1>3. g \in [1..k -> U] /\ \A i \in U : \E l \in 1..k : g[l] = i
  BY <1>0, <1>1 DEF FirstOf
<1>4. \A a, b \in 1..k : g[a] = g[b] => a = b
  <2>. TAKE a, b \in 1..k
  <2>. HAVE g[a] = g[b]
  <2>1. p[a] = p[b] /\ p[a] \in Nat /\ p[b] \in Nat
    BY <1>1, <1>2
  <2>2. ~ (a < b) /\ ~ (b < a)
    BY <1>2, <2>1
  <2>. QED BY <1>2, <2>2
<1>5. g \in Injection(1..k, U)
  BY <1>3, <1>4 DEF Injection, IsInjective
<1>6. g \in Surjection(1..k, U)
  BY <1>3 DEF Surjection
<1>7. ExistsBijection(1..k, U)
  BY <1>5, <1>6 DEF ExistsBijection, Bijection
<1>8. k \in Nat
  OBVIOUS
<1>. QED BY <1>0, <1>7, <1>8, FS_CountingElements

\* p lists the m places of s, of length n, that are in S, from the first on.
PlacesOf(p, m, n, s, S) ==
    /\ p \in [1..m -> 1..n]
    /\ \A k, l \in 1..m : k < l => p[k] < p[l]
    /\ \A i \in 1..n : s[i] \in S <=> \E k \in 1..m : p[k] = i

\* What is at such places is what is kept.
LEMMA KeptAs ==
    ASSUME NEW s, NEW n \in Nat, DOMAIN s = 1..n, NEW S,
           NEW m \in Nat, NEW p, PlacesOf(p, m, n, s, S)
    PROVE  Kept(s, S) = [k \in 1..m |-> s[p[k]]]
<1>0. /\ p \in [1..m -> 1..n]
      /\ \A k, l \in 1..m : k < l => p[k] < p[l]
      /\ \A i \in 1..n : s[i] \in S <=> \E k \in 1..m : p[k] = i
  BY DEF PlacesOf
<1>1. PICK I \in SUBSET (1..n) : I = {i \in DOMAIN s : s[i] \in S}
  OBVIOUS
<1>2. \A i : i \in I <=> \E k \in 1..m : p[k] = i
  BY <1>0, <1>1
<1>3. Cardinality(I) = m
  <2>1. Cardinality(FirstOf(p, m)) = m
    BY <1>0, CountedUp
  <2>2. I = FirstOf(p, m)
    BY <1>2 DEF FirstOf
  <2>. QED BY <2>1, <2>2
<1>4. ASSUME NEW k \in 1..m
      PROVE  p[k] \in I /\ Cardinality(UpTo(I, p[k])) = k
  <2>1. p[k] \in I
    BY <1>2
  <2>2. \A i : i \in UpTo(I, p[k]) <=> \E l \in 1..k : p[l] = i
    <3>1. ASSUME NEW i \in UpTo(I, p[k])
          PROVE  \E l \in 1..k : p[l] = i
      <4>1. i \in I /\ i <= p[k]
        BY DEF UpTo
      <4>2. PICK l \in 1..m : p[l] = i
        BY <1>2, <4>1
      <4>3. ~ (k < l)
        <5>1. p[k] \in Nat /\ p[l] \in Nat
          BY <1>0
        <5>. QED BY <1>0, <4>1, <4>2, <5>1
      <4>. QED BY <4>2, <4>3
    <3>2. ASSUME NEW l \in 1..k
          PROVE  p[l] \in UpTo(I, p[k])
      <4>1. l \in 1..m /\ (l = k \/ l < k)
        OBVIOUS
      <4>2. p[l] \in I /\ p[k] \in Nat /\ p[l] \in Nat
        BY <1>0, <1>2, <4>1
      <4>3. p[l] <= p[k]
        BY <1>0, <4>1, <4>2
      <4>. QED BY <4>2, <4>3 DEF UpTo
    <3>. QED BY <3>1, <3>2
  <2>3. k \in 0..m
    OBVIOUS
  <2>4. Cardinality(FirstOf(p, k)) = k
    BY <1>0, <2>3, CountedUp
  <2>5. UpTo(I, p[k]) = FirstOf(p, k)
    BY <2>2 DEF FirstOf
  <2>. QED BY <2>1, <2>4, <2>5
<1>5. ASSUME NEW k \in 1..m
      PROVE  KthOf(I, k) = p[k]
  <2>1. KthOf(I, k) \in I /\ Cardinality(UpTo(I, KthOf(I, k))) = k
    BY <1>4 DEF KthOf
  <2>2. PICK l \in 1..m : p[l] = KthOf(I, k)
    BY <1>2, <2>1
  <2>. QED BY <1>4, <2>1, <2>2
<1>6. Kept(s, S) = [k \in 1..Cardinality(I) |-> s[KthOf(I, k)]]
  BY <1>1, KeptAt
<1>. QED BY <1>3, <1>5, <1>6

\* Every filter does so.
LEMMA KeptFrom ==
    ASSUME NEW s, NEW n \in Nat, DOMAIN s = 1..n, NEW S
    PROVE  \E m \in Nat : \E p : PlacesOf(p, m, n, s, S)
<1>1. PICK I \in SUBSET (1..n) : I = {i \in DOMAIN s : s[i] \in S}
  OBVIOUS
<1>2. PICK m : m = Cardinality(I)
  OBVIOUS
<1>3. /\ m \in Nat
      /\ \A k \in 1..m : KthOf(I, k) \in I
      /\ \A k, l \in 1..m : k < l => KthOf(I, k) < KthOf(I, l)
      /\ \A i \in I : \E k \in 1..m : KthOf(I, k) = i
  BY <1>2, Enumerated
<1>5. PICK p : p = [k \in 1..m |-> KthOf(I, k)]
  OBVIOUS
<1>6. p \in [1..m -> 1..n] /\ \A k \in 1..m : p[k] = KthOf(I, k)
  BY <1>3, <1>5
<1>7. \A i \in 1..n : s[i] \in S <=> \E k \in 1..m : p[k] = i
  BY <1>1, <1>3, <1>6
<1>9. \A k, l \in 1..m : k < l => p[k] < p[l]
  BY <1>3, <1>6
<1>10. PlacesOf(p, m, n, s, S)
  BY <1>6, <1>7, <1>9 DEF PlacesOf
<1>. QED BY <1>3, <1>10

\* What a filter leaves.
LEMMA KeptType ==
    ASSUME NEW X, NEW s \in Seq(X), NEW S
    PROVE  /\ Kept(s, S) \in Seq(X) /\ Range(Kept(s, S)) = Range(s) \cap S
           /\ IsInjective(s) => IsInjective(Kept(s, S))
<1>1. PICK n \in Nat : n = Len(s) /\ DOMAIN s = 1..n
  OBVIOUS
<1>2. PICK m \in Nat : \E p : PlacesOf(p, m, n, s, S)
  BY <1>1, KeptFrom
<1>a. PICK p : PlacesOf(p, m, n, s, S)
  BY <1>2
<1>3. /\ p \in [1..m -> 1..n]
      /\ \A k, l \in 1..m : k < l => p[k] < p[l]
      /\ \A i \in 1..n : s[i] \in S <=> \E k \in 1..m : p[k] = i
      /\ Kept(s, S) = [k \in 1..m |-> s[p[k]]]
  <2>1. Kept(s, S) = [k \in 1..m |-> s[p[k]]]
    BY <1>1, <1>a, KeptAs
  <2>. QED BY <1>a, <2>1 DEF PlacesOf
<1>4. PICK q : q = Kept(s, S)
  OBVIOUS
<1>5. DOMAIN q = 1..m /\ \A k \in 1..m : q[k] = s[p[k]] /\ p[k] \in 1..n /\ s[p[k]] \in X
  BY <1>1, <1>3, <1>4
<1>6. q \in Seq(X)
  BY <1>3, <1>4, <1>5
<1>7. ASSUME NEW k \in 1..m
      PROVE  q[k] \in Range(s) \cap S
  <2>1. p[k] \in DOMAIN s /\ s[p[k]] \in S
    BY <1>1, <1>3
  <2>. QED BY <1>5, <2>1 DEF Range
<1>8. ASSUME NEW i \in 1..n, s[i] \in S
      PROVE  s[i] \in Range(q)
  <2>1. PICK k \in 1..m : p[k] = i
    BY <1>3, <1>8
  <2>. QED BY <1>5, <2>1 DEF Range
<1>9. \A v : v \in Range(q) <=> v \in Range(s) \cap S
  BY <1>1, <1>5, <1>7, <1>8 DEF Range
<1>10. ASSUME IsInjective(s), NEW k \in 1..m, NEW l \in 1..m, q[k] = q[l]
       PROVE  k = l
  <2>1. p[k] = p[l]
    BY <1>1, <1>5, <1>10 DEF IsInjective
  <2>2. ~ (k < l) /\ ~ (l < k)
    <3>1. p[k] \in Nat /\ p[l] \in Nat
      BY <1>5
    <3>. QED BY <1>3, <2>1, <3>1
  <2>. QED BY <2>2
<1>. QED BY <1>4, <1>5, <1>6, <1>9, <1>10 DEF IsInjective

\* A filter after a filter.
LEMMA KeptTwice ==
    ASSUME NEW X, NEW s \in Seq(X), NEW S, NEW T
    PROVE  Kept(Kept(s, S), T) = Kept(s, S \cap T)
<1>1. PICK n \in Nat : n = Len(s) /\ DOMAIN s = 1..n
  OBVIOUS
<1>2. PICK m \in Nat : \E p : PlacesOf(p, m, n, s, S)
  BY <1>1, KeptFrom
<1>a. PICK p : PlacesOf(p, m, n, s, S)
  BY <1>2
<1>3. /\ p \in [1..m -> 1..n]
      /\ \A k, l \in 1..m : k < l => p[k] < p[l]
      /\ \A i \in 1..n : s[i] \in S <=> \E k \in 1..m : p[k] = i
      /\ Kept(s, S) = [k \in 1..m |-> s[p[k]]]
  <2>1. Kept(s, S) = [k \in 1..m |-> s[p[k]]]
    BY <1>1, <1>a, KeptAs
  <2>. QED BY <1>a, <2>1 DEF PlacesOf
<1>4. PICK q : q = Kept(s, S)
  OBVIOUS
<1>5. DOMAIN q = 1..m /\ \A k \in 1..m : q[k] = s[p[k]]
  BY <1>3, <1>4
<1>6. PICK h \in Nat : \E r : PlacesOf(r, h, m, q, T)
  BY <1>5, KeptFrom
<1>b. PICK r : PlacesOf(r, h, m, q, T)
  BY <1>6
<1>7. /\ r \in [1..h -> 1..m]
      /\ \A k, l \in 1..h : k < l => r[k] < r[l]
      /\ \A i \in 1..m : q[i] \in T <=> \E k \in 1..h : r[k] = i
      /\ Kept(q, T) = [k \in 1..h |-> q[r[k]]]
  <2>1. Kept(q, T) = [k \in 1..h |-> q[r[k]]]
    BY <1>5, <1>b, KeptAs
  <2>. QED BY <1>b, <2>1 DEF PlacesOf
<1>8. PICK t : t = [k \in 1..h |-> p[r[k]]]
  OBVIOUS
<1>c. \A k \in 1..h : t[k] = p[r[k]] /\ r[k] \in 1..m /\ t[k] \in 1..n
  <2>1. \A k \in 1..h : r[k] \in 1..m
    BY <1>7
  <2>2. \A j \in 1..m : p[j] \in 1..n
    BY <1>3
  <2>. QED BY <1>8, <2>1, <2>2
<1>9. t \in [1..h -> 1..n] /\ \A k \in 1..h : t[k] = p[r[k]] /\ r[k] \in 1..m
  BY <1>8, <1>c
<1>10. \A k, l \in 1..h : k < l => t[k] < t[l]
  BY <1>3, <1>7, <1>9
<1>11. ASSUME NEW i \in 1..n
       PROVE  s[i] \in S \cap T <=> \E k \in 1..h : t[k] = i
  <2>1. ASSUME s[i] \in S, s[i] \in T
        PROVE  \E k \in 1..h : t[k] = i
    <3>1. PICK j \in 1..m : p[j] = i
      BY <1>3, <2>1
    <3>2. q[j] \in T
      BY <1>5, <2>1, <3>1
    <3>3. PICK k \in 1..h : r[k] = j
      BY <1>7, <3>2
    <3>. QED BY <1>9, <3>1, <3>3
  <2>2. ASSUME NEW k \in 1..h, t[k] = i
        PROVE  s[i] \in S /\ s[i] \in T
    <3>1. r[k] \in 1..m /\ p[r[k]] = i
      BY <1>9, <2>2
    <3>2. s[i] \in S /\ q[r[k]] = s[i]
      BY <1>3, <1>5, <3>1
    <3>3. q[r[k]] \in T
      BY <1>7, <3>1
    <3>. QED BY <3>2, <3>3
  <2>. QED BY <2>1, <2>2
<1>12. Kept(s, S \cap T) = [k \in 1..h |-> s[t[k]]]
  <2>1. PlacesOf(t, h, n, s, S \cap T)
    BY <1>9, <1>10, <1>11 DEF PlacesOf
  <2>. QED BY <1>1, <2>1, KeptAs
<1>13. \A k \in 1..h : q[r[k]] = s[t[k]]
  BY <1>5, <1>9
<1>. QED BY <1>4, <1>7, <1>12, <1>13

\* What a filter leaves out of the entries does not matter otherwise.
LEMMA KeptAlike ==
    ASSUME NEW s, NEW S, NEW T, Range(s) \cap S = Range(s) \cap T
    PROVE  Kept(s, S) = Kept(s, T)
<1>1. {i \in DOMAIN s : s[i] \in S} = {i \in DOMAIN s : s[i] \in T}
  BY DEF Range
<1>2. PICK I : I = {i \in DOMAIN s : s[i] \in S}
  OBVIOUS
<1>3. Kept(s, S) = [k \in 1..Cardinality(I) |-> s[KthOf(I, k)]]
  BY <1>2, KeptAt
<1>4. Kept(s, T) = [k \in 1..Cardinality(I) |-> s[KthOf(I, k)]]
  BY <1>1, <1>2, KeptAt
<1>. QED BY <1>3, <1>4

\* What comes before the last entry and is filtered out again.
LEMMA Squeezed ==
    ASSUME NEW X, NEW s \in Seq(X), NEW q \in Seq(X)
    PROVE  /\ BeforeLast(s, q) \in Seq(X) /\ Range(BeforeLast(s, q)) = Range(s) \cup Range(q)
           /\ \A S : Range(q) \cap S = {} => Kept(BeforeLast(s, q), S) = Kept(s, S)
<1>1. PICK n \in Nat : n = Len(s) /\ DOMAIN s = 1..n
  OBVIOUS
<1>2. PICK c \in Nat : c = Len(q) /\ DOMAIN q = 1..c
  OBVIOUS
<1>3. CASE q = <<>>
  BY <1>3 DEF BeforeLast, Range
<1>4. CASE q # <<>> /\ s = <<>>
  <2>1. PICK e : e = Tail(q) \o <<q[1]>>
    OBVIOUS
  <2>2. q[1] \in X /\ <<q[1]>> \in Seq(X) /\ Tail(q) \in Seq(X) /\ c # 0
    BY <1>2, <1>4
  <2>3. e \in Seq(X) /\ Len(e) = c /\ DOMAIN e = 1..c
        /\ \A i \in 1..c : e[i] = IF i < c THEN q[i + 1] ELSE q[1]
    BY <1>2, <1>4, <2>1, <2>2
  <2>4. \A i \in 1..c : e[i] \in Range(q)
    BY <1>2, <2>2, <2>3 DEF Range
  <2>5. ASSUME NEW i \in 1..c
        PROVE  q[i] \in Range(e)
    <3>1. CASE i = 1
      <4>1. c \in 1..c /\ e[c] = q[i]
        BY <2>2, <2>3, <3>1
      <4>. QED BY <2>3, <4>1 DEF Range
    <3>2. CASE i # 1
      <4>1. i - 1 \in 1..c /\ i - 1 < c /\ (i - 1) + 1 = i
        BY <3>2
      <4>2. e[i - 1] = q[i]
        BY <2>3, <4>1
      <4>. QED BY <2>3, <4>1, <4>2 DEF Range
    <3>. QED BY <3>1, <3>2
  <2>6. Range(e) = Range(q) /\ Range(s) = {}
    BY <1>2, <1>4, <2>3, <2>4, <2>5 DEF Range
  <2>7. ASSUME NEW S, Range(q) \cap S = {}
        PROVE  Kept(e, S) = Kept(s, S)
    <3>1. {i \in DOMAIN e : e[i] \in S} = {}
      BY <2>3, <2>4, <2>7
    <3>2. {i \in DOMAIN s : s[i] \in S} = {}
      BY <1>4
    <3>3. Kept(e, S) = [k \in 1..Cardinality({}) |-> e[KthOf({}, k)]]
      BY <3>1, KeptAt
    <3>4. Kept(s, S) = [k \in 1..Cardinality({}) |-> s[KthOf({}, k)]]
      BY <3>2, KeptAt
    <3>5. Cardinality({}) = 0
      BY FS_EmptySet
    <3>. QED BY <3>3, <3>4, <3>5
  <2>8. BeforeLast(s, q) = e
    BY <1>4, <2>1 DEF BeforeLast
  <2>. QED BY <2>3, <2>6, <2>7, <2>8
<1>5. CASE q # <<>> /\ s # <<>>
  <2>1. PICK e : e = Front(s) \o q \o <<Last(s)>>
    OBVIOUS
  <2>2. n # 0 /\ Last(s) = s[n] /\ s[n] \in X
    BY <1>1, <1>5 DEF Last
  <2>3. Front(s) \in Seq(X) /\ Len(Front(s)) = n - 1 /\ \A i \in 1..(n - 1) : Front(s)[i] = s[i]
    BY <1>1, <2>2 DEF Front
  <2>4. PICK f \in Seq(X) : f = Front(s) /\ Len(f) = n - 1 /\ \A i \in 1..(n - 1) : f[i] = s[i]
    BY <2>3
  <2>b. n - 1 \in Nat /\ n \in Nat /\ c \in Nat
    BY <2>2
  <2>c. PICK d \in Nat : d = n - 1 /\ n = d + 1
    BY <2>b
  <2>g. f \o q \in Seq(X) /\ Len(f \o q) = Len(f) + Len(q)
    OBVIOUS
  <2>5. PICK a \in Seq(X) : a = f \o q /\ Len(a) = d + c
    BY <1>2, <2>4, <2>c, <2>g
  <2>d. \A i \in 1..(d + c) : a[i] = IF i <= d THEN f[i] ELSE q[i - d]
    BY <1>2, <2>4, <2>5, <2>c
  <2>h. <<s[n]>> \in Seq(X) /\ Len(<<s[n]>>) = 1 /\ <<s[n]>>[1] = s[n]
    BY <2>2
  <2>6. PICK z \in Seq(X) : z = <<s[n]>> /\ Len(z) = 1 /\ z[1] = s[n]
    BY <2>h
  <2>7. e = a \o z
    BY <2>1, <2>2, <2>4, <2>5, <2>6
  <2>i. a \o z \in Seq(X) /\ Len(a \o z) = Len(a) + Len(z)
    OBVIOUS
  <2>e. e \in Seq(X) /\ Len(e) = (d + c) + 1
    BY <2>5, <2>6, <2>7, <2>i
  <2>f. \A i \in 1..((d + c) + 1) : e[i] = IF i <= d + c THEN a[i] ELSE z[i - (d + c)]
    BY <2>5, <2>6, <2>7
  <2>8. e \in Seq(X) /\ Len(e) = n + c /\ DOMAIN e = 1..(n + c)
    BY <2>b, <2>c, <2>e
  <2>9. ASSUME NEW i \in 1..(n - 1)
        PROVE  i \in 1..(n + c) /\ e[i] = s[i]
    <3>1. i \in Nat /\ i \in 1..((d + c) + 1) /\ i <= d /\ i <= d + c /\ i \in 1..(d + c) /\ i \in 1..(n + c)
      BY <2>b, <2>c
    <3>2. e[i] = a[i]
      BY <2>f, <3>1
    <3>3. a[i] = f[i]
      BY <2>d, <3>1
    <3>. QED BY <2>4, <3>1, <3>2, <3>3
  <2>10. ASSUME NEW i \in 1..c
         PROVE  (n - 1) + i \in 1..(n + c) /\ e[(n - 1) + i] = q[i]
    <3>1. PICK j : j = d + i
      OBVIOUS
    <3>2. j \in 1..((d + c) + 1) /\ j <= d + c /\ ~ (j <= d) /\ j \in 1..(d + c) /\ j - d = i
      BY <2>b, <2>c, <3>1
    <3>3. e[j] = a[j]
      BY <2>f, <3>2
    <3>4. a[j] = q[i]
      BY <2>d, <3>2
    <3>. QED BY <2>b, <2>c, <3>1, <3>2, <3>3, <3>4
  <2>11. n + c \in 1..(n + c) /\ e[n + c] = s[n]
    <3>1. PICK j : j = (d + c) + 1
      OBVIOUS
    <3>2. j \in 1..((d + c) + 1) /\ ~ (j <= d + c) /\ j - (d + c) = 1 /\ j = n + c
      BY <2>b, <2>c, <3>1
    <3>3. e[j] = z[1]
      BY <2>f, <3>2
    <3>. QED BY <2>6, <2>b, <3>2, <3>3
  <2>12. \A i \in 1..(n + c) : i \in 1..(n - 1) \/ i = n + c \/ (i - (n - 1) \in 1..c /\ i = (n - 1) + (i - (n - 1)))
    BY <1>1, <1>2, <2>2
  <2>13. \A v : v \in Range(e) <=> v \in Range(s) \cup Range(q)
    <3>1. ASSUME NEW i \in 1..(n + c)
          PROVE  e[i] \in Range(s) \cup Range(q)
      <4>1. CASE i \in 1..(n - 1)
        <5>1. i \in 1..n /\ e[i] = s[i]
          BY <2>9, <4>1
        <5>. QED BY <1>1, <5>1 DEF Range
      <4>2. CASE i = n + c
        <5>1. n \in 1..n /\ e[i] = s[n]
          BY <2>2, <2>11, <4>2
        <5>. QED BY <1>1, <5>1 DEF Range
      <4>3. CASE i - (n - 1) \in 1..c /\ i = (n - 1) + (i - (n - 1))
        <5>1. e[i] = q[i - (n - 1)]
          BY <2>10, <4>3
        <5>. QED BY <1>2, <4>3, <5>1 DEF Range
      <4>. QED BY <2>12, <4>1, <4>2, <4>3
    <3>2. ASSUME NEW i \in 1..n
          PROVE  s[i] \in Range(e)
      <4>1. i \in 1..(n - 1) \/ i = n
        OBVIOUS
      <4>2. \E j \in 1..(n + c) : e[j] = s[i]
        BY <4>1, <2>9, <2>11
      <4>. QED BY <2>8, <4>2 DEF Range
    <3>3. ASSUME NEW i \in 1..c
          PROVE  q[i] \in Range(e)
      <4>1. \E j \in 1..(n + c) : e[j] = q[i]
        BY <2>10
      <4>. QED BY <2>8, <4>1 DEF Range
    <3>. QED BY <1>1, <1>2, <2>8, <3>1, <3>2, <3>3 DEF Range
  <2>14. ASSUME NEW S, Range(q) \cap S = {}
         PROVE  Kept(e, S) = Kept(s, S)
    <3>1. PICK m \in Nat : \E p : PlacesOf(p, m, n, s, S)
      BY <1>1, KeptFrom
    <3>a. PICK p : PlacesOf(p, m, n, s, S)
      BY <3>1
    <3>2. /\ p \in [1..m -> 1..n]
          /\ \A k, l \in 1..m : k < l => p[k] < p[l]
          /\ \A i \in 1..n : s[i] \in S <=> \E k \in 1..m : p[k] = i
          /\ Kept(s, S) = [k \in 1..m |-> s[p[k]]]
      <4>1. Kept(s, S) = [k \in 1..m |-> s[p[k]]]
        BY <1>1, <3>a, KeptAs
      <4>. QED BY <3>a, <4>1 DEF PlacesOf
    <3>3. PICK t : t = [k \in 1..m |-> IF p[k] = n THEN n + c ELSE p[k]]
      OBVIOUS
    <3>4. \A k \in 1..m : /\ p[k] \in 1..n
                          /\ p[k] = n => t[k] = n + c
                          /\ p[k] # n => t[k] = p[k] /\ t[k] \in 1..(n - 1)
      <4>. TAKE k \in 1..m
      <4>1. p[k] \in 1..n
        BY <3>2
      <4>2. t[k] = IF p[k] = n THEN n + c ELSE p[k]
        BY <3>3
      <4>. QED BY <2>b, <4>1, <4>2
    <3>5. t \in [1..m -> 1..(n + c)]
      BY <2>2, <3>3, <3>4
    <3>6. ASSUME NEW k \in 1..m, NEW l \in 1..m, k < l
          PROVE  t[k] < t[l]
      <4>1. p[k] < p[l] /\ p[k] \in 1..n /\ p[l] \in 1..n
        BY <3>2, <3>6
      <4>2. p[k] # n
        BY <4>1
      <4>3. t[k] = p[k] /\ (t[l] = p[l] \/ t[l] = n + c)
        BY <3>4, <4>1, <4>2
      <4>4. p[k] < n + c
        BY <4>1, <4>2
      <4>. QED BY <4>1, <4>3, <4>4
    <3>7. \A k \in 1..m : e[t[k]] = s[p[k]]
      BY <3>4, <2>9, <2>11
    <3>8. ASSUME NEW i \in 1..(n + c)
          PROVE  e[i] \in S <=> \E k \in 1..m : t[k] = i
      <4>1. CASE i \in 1..(n - 1)
        <5>1. i \in 1..n /\ e[i] = s[i] /\ i # n /\ i # n + c
          BY <2>9, <4>1
        <5>2. \A k \in 1..m : t[k] = i <=> p[k] = i
          BY <3>4, <5>1
        <5>. QED BY <3>2, <5>1, <5>2
      <4>2. CASE i = n + c
        <5>1. n \in 1..n /\ e[i] = s[n]
          BY <2>2, <2>11, <4>2
        <5>2. \A k \in 1..m : t[k] = i <=> p[k] = n
          <6>1. \A j \in 1..(n - 1) : j # n + c
            OBVIOUS
          <6>. QED BY <3>4, <4>2, <6>1
        <5>. QED BY <3>2, <5>1, <5>2
      <4>3. CASE i - (n - 1) \in 1..c /\ i = (n - 1) + (i - (n - 1)) /\ i # n + c
        <5>1. e[i] = q[i - (n - 1)]
          BY <2>10, <4>3
        <5>2. e[i] \in Range(q)
          BY <1>2, <4>3, <5>1 DEF Range
        <5>3. e[i] \notin S
          BY <2>14, <5>2
        <5>4. i \notin 1..(n - 1)
          BY <4>3
        <5>5. \A k \in 1..m : t[k] # i
          BY <3>4, <4>3, <5>4
        <5>. QED BY <5>3, <5>5
      <4>. QED BY <2>12, <4>1, <4>2, <4>3
    <3>9. n + c \in Nat
      OBVIOUS
    <3>10. Kept(e, S) = [k \in 1..m |-> e[t[k]]]
      <4>1. PlacesOf(t, m, n + c, e, S)
        BY <3>5, <3>6, <3>8 DEF PlacesOf
      <4>. QED BY <2>8, <3>9, <4>1, KeptAs
    <3>. QED BY <3>2, <3>7, <3>10
  <2>15. BeforeLast(s, q) = e
    BY <1>5, <2>1 DEF BeforeLast
  <2>16. Range(e) = Range(s) \cup Range(q)
    BY ONLY <2>13
  <2>. QED BY <2>8, <2>14, <2>15, <2>16
<1>. QED BY <1>3, <1>4, <1>5

\* A list of the members of a set.
LEMMA AsList ==
    ASSUME NEW S, IsFiniteSet(S)
    PROVE  SetToSeq(S) \in Seq(S) /\ Range(SetToSeq(S)) = S /\ IsInjective(SetToSeq(S))
<1>1. PICK n \in Nat : ExistsBijection(1..n, S)
  BY FS_NatBijection
<1>2. Cardinality(S) = n
  BY <1>1, FS_CountingElements
<1>3. \E f \in [1..n -> S] : IsInjective(f)
  BY <1>1 DEF ExistsBijection, Bijection, Injection
<1>4. PICK f : f = SetToSeq(S)
  OBVIOUS
<1>5. f \in [1..n -> S] /\ IsInjective(f)
  BY <1>2, <1>3, <1>4 DEF SetToSeq
<1>6. IsFiniteSet(1..n) /\ Cardinality(1..n) = n
  BY FS_Interval
<1>7. f \in Injection(1..n, S)
  BY <1>5 DEF Injection
<1>8. f \in Surjection(1..n, S)
  BY <1>2, <1>6, <1>7, FS_Injection
<1>9. Range(f) = S
  BY <1>5, <1>8 DEF Range, Surjection
<1>10. f \in Seq(S)
  BY <1>5
<1>. QED BY <1>4, <1>5, <1>9, <1>10

\* What a field can have in its list, and what it can be of.
FieldEntries == Values \cup {Placeholder, CreateItem}
FieldStates == [box : BoxType, items : Seq(Values)]
KindOK ==
    /\ kind \in [multiple : BOOLEAN, optional : BOOLEAN, create : BOOLEAN, list : BOOLEAN]
    /\ kind.list => kind = DynamicList

\* What selected, withheld, created and typed entries and the items of the list have to do
\* with the entries that there are.
Linked(lis, sel, unsel, created, custom, q) ==
    /\ IsInjective(q)
    /\ ~ kind.list => q = <<>>
    /\ sel \subseteq Range(lis) /\ unsel \subseteq Range(lis)
    /\ created \cap unsel = {} /\ custom \subseteq unsel
    /\ unsel \ {CreateItem} \subseteq Range(q)
    /\ CreateItem \in Range(lis) => CreateItem \in unsel
    /\ Placeholder \in Range(lis) <=> (~ kind.multiple /\ kind.optional)

Shape(f) ==
    /\ f \in FieldStates
    /\ Linked(f.box.lis, f.box.sel, f.box.unsel, f.box.created, f.box.custom, f.items)

\* One entry, or some, as the kind of the field asks for.
Chosen(sel) ==
    /\ ~ kind.multiple => \E v : sel = {v}
    /\ kind.optional \/ sel \ {Placeholder} # {}
    /\ kind.list => CreateItem \notin sel

\* Between two actions the inputs follow, and a list keeps nothing selected.
Good(f) ==
    /\ Shape(f) /\ Chosen(f.box.sel)
    /\ f.box.hidden = Hidden(f.box)
    /\ kind.list => f.box.sel = {Placeholder}

FieldInv == KindOK /\ Good(Field)

\* A sequence of more that has only some is a sequence of some.
LEMMA SeqOfFewer ==
    ASSUME NEW X, NEW Y, NEW s \in Seq(X), Range(s) \subseteq Y
    PROVE  s \in Seq(Y)
<1>1. PICK n \in Nat : n = Len(s) /\ DOMAIN s = 1..n
  OBVIOUS
<1>2. \A i \in 1..n : s[i] \in Y
  BY <1>1 DEF Range
<1>3. s = [i \in 1..n |-> s[i]]
  BY <1>1
<1>. QED BY <1>2, <1>3

\* A sequence of X is where X is.
LEMMA RangeOf ==
    ASSUME NEW X, NEW s \in Seq(X)
    PROVE  /\ Range(s) \subseteq X /\ (\A v : Contains(s, v) <=> v \in Range(s))
           /\ (s # <<>> => s[1] \in Range(s)) /\ (s = <<>> <=> Range(s) = {})
<1>1. PICK n \in Nat : n = Len(s) /\ DOMAIN s = 1..n
  OBVIOUS
<1>2. \A i \in 1..n : s[i] \in X
  BY <1>1
<1>3. Range(s) \subseteq X
  BY <1>1, <1>2 DEF Range
<1>4. \A v : Contains(s, v) <=> v \in Range(s)
  BY <1>1 DEF Range, Contains
<1>5. ASSUME s # <<>>
      PROVE  s[1] \in Range(s)
  <2>1. 1 \in 1..n
    BY <1>1, <1>5
  <2>. QED BY <1>1, <2>1 DEF Range
<1>6. s = <<>> => Range(s) = {}
  BY DEF Range
<1>. QED BY <1>3, <1>4, <1>5, <1>6

\* The placeholder is no value, nor is the input for others.
LEMMA Apart == Placeholder \notin Values /\ CreateItem \notin Values /\ Placeholder # CreateItem
BY DropdownAssumption DEF Values

\* What is in a box.
LEMMA BoxFields ==
    ASSUME NEW b \in BoxType
    PROVE  /\ b.lis \in Seq(FieldEntries) /\ b.sel \in SUBSET (Values \cup {Placeholder, CreateItem})
           /\ b.unsel \in SUBSET (Values \cup {CreateItem}) /\ b.created \in SUBSET Values
           /\ b.custom \in SUBSET Values /\ b.open \in BOOLEAN
           /\ b.hidden \in Seq(Values \cup {CreateItem})
           /\ b = [lis |-> b.lis, sel |-> b.sel, unsel |-> b.unsel, created |-> b.created,
                   custom |-> b.custom, open |-> b.open, hidden |-> b.hidden]
BY DEF BoxType, FieldEntries

\* What makes a box.
LEMMA BoxOf ==
    ASSUME NEW lis \in Seq(FieldEntries), NEW sel \in SUBSET (Values \cup {Placeholder, CreateItem}),
           NEW unsel \in SUBSET (Values \cup {CreateItem}), NEW created \in SUBSET Values,
           NEW custom \in SUBSET Values, NEW open \in BOOLEAN,
           NEW inputs \in Seq(Values \cup {CreateItem})
    PROVE  [lis |-> lis, sel |-> sel, unsel |-> unsel, created |-> created, custom |-> custom,
            open |-> open, hidden |-> inputs] \in BoxType
BY DEF BoxType, FieldEntries

\* The inputs are for what is selected, but for the placeholder.
LEMMA HiddenType ==
    ASSUME NEW b \in BoxType, b.sel \subseteq Range(b.lis)
    PROVE  /\ Hidden(b) \in Seq(Values \cup {CreateItem})
           /\ Range(Hidden(b)) = b.sel \ {Placeholder}
<1>1. b.lis \in Seq(FieldEntries)
  BY BoxFields
<1>2. Hidden(b) \in Seq(FieldEntries) /\ Range(Hidden(b)) = Range(b.lis) \cap (b.sel \ {Placeholder})
  BY <1>1, KeptType DEF Hidden
<1>3. Range(Hidden(b)) = b.sel \ {Placeholder}
  BY <1>2
<1>4. b.sel \ {Placeholder} \subseteq Values \cup {CreateItem}
  BY BoxFields
<1>. QED BY <1>2, <1>3, <1>4, SeqOfFewer

\* A box with these entries, of which these are selected, and so on.
BoxIs(c, lis, sel, unsel, created, custom, open, inputs) ==
    /\ c \in BoxType
    /\ c.lis = lis /\ c.sel = sel /\ c.unsel = unsel /\ c.created = created
    /\ c.custom = custom /\ c.open = open /\ c.hidden = inputs

\* A box after one assignment.
LisSet(b, x) == [b EXCEPT !.lis = x]
SelSet(b, x) == [b EXCEPT !.sel = x]
UnselSet(b, x) == [b EXCEPT !.unsel = x]
CreatedSet(b, x) == [b EXCEPT !.created = x]
CustomSet(b, x) == [b EXCEPT !.custom = x]
OpenSet(b, x) == [b EXCEPT !.open = x]
HiddenSet(b, x) == [b EXCEPT !.hidden = x]

\* A dropdown is the one its fields say it is.
LEMMA BoxSelf ==
    ASSUME NEW b \in BoxType
    PROVE  BoxIs(b, b.lis, b.sel, b.unsel, b.created, b.custom, b.open, b.hidden)
BY DEF BoxIs

\* Giving a dropdown other entries leaves the rest of it alone.
LEMMA LisOf ==
    ASSUME NEW b, NEW l, NEW s, NEW u, NEW r, NEW m, NEW o, NEW h,
           BoxIs(b, l, s, u, r, m, o, h), NEW x \in Seq(FieldEntries)
    PROVE  BoxIs(LisSet(b, x), x, s, u, r, m, o, h)
BY DEF BoxIs, BoxType, LisSet, FieldEntries

\* Selecting other entries leaves the rest of it alone.
LEMMA SelOf ==
    ASSUME NEW b, NEW l, NEW s, NEW u, NEW r, NEW m, NEW o, NEW h,
           BoxIs(b, l, s, u, r, m, o, h), NEW x \in SUBSET FieldEntries
    PROVE  BoxIs(SelSet(b, x), l, x, u, r, m, o, h)
BY DEF BoxIs, BoxType, SelSet, FieldEntries

\* Withholding other entries leaves the rest of it alone.
LEMMA UnselOf ==
    ASSUME NEW b, NEW l, NEW s, NEW u, NEW r, NEW m, NEW o, NEW h,
           BoxIs(b, l, s, u, r, m, o, h), NEW x \in SUBSET (Values \cup {CreateItem})
    PROVE  BoxIs(UnselSet(b, x), l, s, x, r, m, o, h)
BY DEF BoxIs, BoxType, UnselSet

\* Marking other entries as created leaves the rest of it alone.
LEMMA CreatedOf ==
    ASSUME NEW b, NEW l, NEW s, NEW u, NEW r, NEW m, NEW o, NEW h,
           BoxIs(b, l, s, u, r, m, o, h), NEW x \in SUBSET Values
    PROVE  BoxIs(CreatedSet(b, x), l, s, u, x, m, o, h)
BY DEF BoxIs, BoxType, CreatedSet

\* Marking other entries as typed into a list leaves the rest of it alone.
LEMMA CustomOf ==
    ASSUME NEW b, NEW l, NEW s, NEW u, NEW r, NEW m, NEW o, NEW h,
           BoxIs(b, l, s, u, r, m, o, h), NEW x \in SUBSET Values
    PROVE  BoxIs(CustomSet(b, x), l, s, u, r, x, o, h)
BY DEF BoxIs, BoxType, CustomSet

\* Opening or closing a dropdown leaves the rest of it alone.
LEMMA OpenOf ==
    ASSUME NEW b, NEW l, NEW s, NEW u, NEW r, NEW m, NEW o, NEW h,
           BoxIs(b, l, s, u, r, m, o, h), NEW x \in BOOLEAN
    PROVE  BoxIs(OpenSet(b, x), l, s, u, r, m, x, h)
BY DEF BoxIs, BoxType, OpenSet

\* Writing the hidden inputs leaves the rest of it alone.
LEMMA HiddenOf ==
    ASSUME NEW b, NEW l, NEW s, NEW u, NEW r, NEW m, NEW o, NEW h,
           BoxIs(b, l, s, u, r, m, o, h), NEW x \in Seq(Values \cup {CreateItem})
    PROVE  BoxIs(HiddenSet(b, x), l, s, u, r, m, o, x)
BY DEF BoxIs, BoxType, HiddenSet

\* A field whose entries are selected anew, that is closed, that is saved.
SelectedAs(f, S) == [f EXCEPT !.box.sel = S]
ClosedUp(f) == [f EXCEPT !.box.open = FALSE]
InputsSet(f) == [f EXCEPT !.box = Saved(f.box)]

\* The entries may be selected in every way.
LEMMA SelectedShape ==
    ASSUME NEW f, Shape(f), NEW S, S \subseteq Range(f.box.lis)
    PROVE  /\ Shape(SelectedAs(f, S)) /\ SelectedAs(f, S).box.sel = S
           /\ SelectedAs(f, S).box.lis = f.box.lis /\ SelectedAs(f, S).items = f.items
           /\ SelectedAs(f, S).box.open = f.box.open /\ SelectedAs(f, S).box.hidden = f.box.hidden
           /\ SelectedAs(f, S).box.unsel = f.box.unsel
<1>1. f \in FieldStates /\ f.box \in BoxType
  BY DEF Shape, FieldStates
<1>2. PICK b \in BoxType : b = f.box
  BY <1>1
<1>3. BoxIs(b, b.lis, b.sel, b.unsel, b.created, b.custom, b.open, b.hidden)
  BY BoxSelf
<1>4. S \in SUBSET FieldEntries
  <2>1. b.lis \in Seq(FieldEntries)
    BY BoxFields
  <2>. QED BY <1>2, <2>1, RangeOf
<1>5. PICK c : c = SelSet(b, S)
  OBVIOUS
<1>6. BoxIs(c, b.lis, S, b.unsel, b.created, b.custom, b.open, b.hidden)
  BY <1>3, <1>4, <1>5, SelOf
<1>7. PICK g : g = SelectedAs(f, S)
  OBVIOUS
<1>8. g \in FieldStates /\ g.box = c /\ g.items = f.items
  <2>1. c \in BoxType
    BY <1>6 DEF BoxIs
  <2>2. g = [f EXCEPT !.box = c]
    BY <1>2, <1>5, <1>7 DEF SelectedAs, SelSet
  <2>. QED BY <1>1, <2>1, <2>2 DEF FieldStates
<1>9. Linked(b.lis, b.sel, b.unsel, b.created, b.custom, f.items)
  BY <1>2 DEF Shape
<1>10. Linked(b.lis, S, b.unsel, b.created, b.custom, f.items)
  BY <1>2, <1>9 DEF Linked
<1>. QED BY <1>2, <1>6, <1>7, <1>8, <1>10 DEF Shape, BoxIs

\* To close a field changes nothing else.
LEMMA ClosedShape ==
    ASSUME NEW f, Shape(f)
    PROVE  /\ Shape(ClosedUp(f)) /\ ClosedUp(f).box.sel = f.box.sel
           /\ ClosedUp(f).box.lis = f.box.lis /\ ClosedUp(f).items = f.items
           /\ ClosedUp(f).box.hidden = f.box.hidden /\ ClosedUp(f).box.unsel = f.box.unsel
<1>1. f \in FieldStates /\ f.box \in BoxType
  BY DEF Shape, FieldStates
<1>2. PICK b \in BoxType : b = f.box
  BY <1>1
<1>3. BoxIs(b, b.lis, b.sel, b.unsel, b.created, b.custom, b.open, b.hidden)
  BY BoxSelf
<1>5. PICK c : c = OpenSet(b, FALSE)
  OBVIOUS
<1>6. BoxIs(c, b.lis, b.sel, b.unsel, b.created, b.custom, FALSE, b.hidden)
  BY <1>3, <1>5, OpenOf
<1>7. PICK g : g = ClosedUp(f)
  OBVIOUS
<1>8. g \in FieldStates /\ g.box = c /\ g.items = f.items
  <2>1. c \in BoxType
    BY <1>6 DEF BoxIs
  <2>2. g = [f EXCEPT !.box = c]
    BY <1>2, <1>5, <1>7 DEF ClosedUp, OpenSet
  <2>. QED BY <1>1, <2>1, <2>2 DEF FieldStates
<1>9. Linked(b.lis, b.sel, b.unsel, b.created, b.custom, f.items)
  BY <1>2 DEF Shape
<1>. QED BY <1>2, <1>6, <1>7, <1>8, <1>9 DEF Shape, BoxIs

\* The inputs are set to what is selected.
LEMMA InputsShape ==
    ASSUME NEW f, Shape(f)
    PROVE  /\ Shape(InputsSet(f)) /\ InputsSet(f).box.sel = f.box.sel
           /\ InputsSet(f).box.lis = f.box.lis /\ InputsSet(f).items = f.items
           /\ InputsSet(f).box.hidden = Hidden(f.box)
           /\ InputsSet(f).box.hidden = Hidden(InputsSet(f).box)
           /\ InputsSet(f).box.unsel = f.box.unsel /\ InputsSet(f).box.open = f.box.open
<1>1. f \in FieldStates /\ f.box \in BoxType
  BY DEF Shape, FieldStates
<1>2. PICK b \in BoxType : b = f.box
  BY <1>1
<1>3. BoxIs(b, b.lis, b.sel, b.unsel, b.created, b.custom, b.open, b.hidden)
  BY BoxSelf
<1>4. Hidden(b) \in Seq(Values \cup {CreateItem})
  <2>1. b.sel \subseteq Range(b.lis)
    BY <1>2 DEF Shape, Linked
  <2>. QED BY <2>1, HiddenType
<1>5. PICK c : c = HiddenSet(b, Hidden(b))
  OBVIOUS
<1>6. BoxIs(c, b.lis, b.sel, b.unsel, b.created, b.custom, b.open, Hidden(b))
  BY <1>3, <1>4, <1>5, HiddenOf
<1>7. PICK g : g = InputsSet(f)
  OBVIOUS
<1>8. g \in FieldStates /\ g.box = c /\ g.items = f.items
  <2>1. c \in BoxType
    BY <1>6 DEF BoxIs
  <2>2. g = [f EXCEPT !.box = c]
    BY <1>2, <1>5, <1>7 DEF InputsSet, HiddenSet, Saved
  <2>. QED BY <1>1, <2>1, <2>2 DEF FieldStates
<1>9. Linked(b.lis, b.sel, b.unsel, b.created, b.custom, f.items)
  BY <1>2 DEF Shape
<1>10. c.lis = b.lis /\ c.sel = b.sel /\ c.hidden = Hidden(b)
  BY <1>6 DEF BoxIs
<1>11. Hidden(c) = Hidden(b)
  BY <1>10 DEF Hidden
<1>. QED BY <1>2, <1>6, <1>7, <1>8, <1>9, <1>10, <1>11 DEF Shape, BoxIs

\* A list is a combobox that may be left empty.
LEMMA ListKind == KindOK /\ kind.list => ~ kind.multiple /\ kind.optional /\ kind.create
BY DEF KindOK, DynamicList, Combobox

\* A value joins a list without being there twice.
LEMMA JoinsOnce ==
    ASSUME NEW q \in Seq(Values), IsInjective(q), NEW v \in Values
    PROVE  /\ AddItem(q, v) \in Seq(Values) /\ IsInjective(AddItem(q, v))
           /\ Range(AddItem(q, v)) = Range(q) \cup {v}
<1>1. PICK n \in Nat : n = Len(q) /\ DOMAIN q = 1..n
  OBVIOUS
<1>2. CASE Contains(q, v)
  BY <1>2, RangeOf DEF AddItem
<1>3. CASE ~ Contains(q, v)
  <2>1. v \notin Range(q)
    BY <1>3, RangeOf
  <2>2. PICK p : p = Append(q, v)
    OBVIOUS
  <2>3. p \in Seq(Values) /\ DOMAIN p = 1..(n + 1) /\ p[n + 1] = v
        /\ \A i \in 1..n : p[i] = q[i]
    BY <1>1, <2>2
  <2>4. \A i \in 1..n : q[i] \in Range(q)
    BY <1>1 DEF Range
  <2>5. \A i \in 1..(n + 1) : i \in 1..n \/ i = n + 1
    OBVIOUS
  <2>6. \A i, j \in 1..(n + 1) : p[i] = p[j] => i = j
    BY <1>1, <2>1, <2>3, <2>4, <2>5 DEF IsInjective
  <2>7. \A w : w \in Range(p) <=> w \in Range(q) \cup {v}
    <3>1. \A i \in 1..(n + 1) : p[i] \in Range(q) \cup {v}
      BY <2>3, <2>4, <2>5
    <3>2. \A i \in 1..n : i \in 1..(n + 1) /\ q[i] = p[i]
      BY <2>3
    <3>3. n + 1 \in 1..(n + 1)
      OBVIOUS
    <3>4. v \in Range(p)
      BY <2>3, <3>3 DEF Range
    <3>5. \A i \in 1..n : q[i] \in Range(p)
      BY <2>3, <3>2 DEF Range
    <3>. QED BY <1>1, <2>3, <3>1, <3>4, <3>5 DEF Range
  <2>8. AddItem(q, v) = p
    BY <1>3, <2>2 DEF AddItem
  <2>9. IsInjective(p)
    BY <2>3, <2>6 DEF IsInjective
  <2>10. Range(p) = Range(q) \cup {v}
    BY ONLY <2>7
  <2>. QED BY ONLY <2>3, <2>8, <2>9, <2>10
<1>. QED BY <1>2, <1>3

\* The list takes the value that was chosen, and the combobox can be left again.
LEMMA HeardStays ==
    ASSUME KindOK, kind.list, NEW f, Shape(f), CreateItem \notin f.box.sel,
           f.box.hidden = Hidden(f.box), f.box.hidden # <<>>
    PROVE  Good(Heard(f)) /\ Heard(f).box.lis = f.box.lis
<1>1. f \in FieldStates /\ f.items \in Seq(Values) /\ f.box \in BoxType
  BY DEF Shape, FieldStates
<1>2. PICK b \in BoxType : b = f.box
  BY <1>1
<1>3. /\ b.lis \in Seq(FieldEntries) /\ b.sel \in SUBSET (Values \cup {Placeholder, CreateItem})
      /\ b.unsel \in SUBSET (Values \cup {CreateItem}) /\ b.created \in SUBSET Values
      /\ b.custom \in SUBSET Values
  BY BoxFields
<1>4. Linked(b.lis, b.sel, b.unsel, b.created, b.custom, f.items)
  BY <1>2 DEF Shape
<1>5. PICK v : v = b.hidden[1]
  OBVIOUS
<1>6. v \in b.sel \ {Placeholder}
  <2>1. b.sel \subseteq Range(b.lis)
    BY <1>4 DEF Linked
  <2>2. Hidden(b) \in Seq(Values \cup {CreateItem}) /\ Range(Hidden(b)) = b.sel \ {Placeholder}
    BY <2>1, HiddenType
  <2>3. v = Hidden(b)[1] /\ Hidden(b) # <<>>
    BY <1>2, <1>5
  <2>. QED BY <2>2, <2>3, RangeOf
<1>7. v \in Values /\ v \in Range(b.lis)
  BY <1>2, <1>3, <1>4, <1>6 DEF Linked
<1>8. Placeholder \in Range(b.lis)
  BY <1>4, ListKind DEF Linked
<1>9. PICK a : a = OpenSet(SelSet(b, {Placeholder}), FALSE)
  OBVIOUS
<1>10. BoxIs(a, b.lis, {Placeholder}, b.unsel, b.created, b.custom, FALSE, b.hidden)
  <2>1. BoxIs(SelSet(b, {Placeholder}), b.lis, {Placeholder}, b.unsel, b.created, b.custom, b.open, b.hidden)
    <3>1. {Placeholder} \in SUBSET FieldEntries
      BY DEF FieldEntries
    <3>. QED BY <3>1, BoxSelf, SelOf
  <2>. QED BY <1>9, <2>1, OpenOf
<1>11. PICK h : h = Hidden(a)
  OBVIOUS
<1>12. h \in Seq(Values \cup {CreateItem})
  <2>1. a \in BoxType /\ a.sel \subseteq Range(a.lis)
    BY <1>8, <1>10 DEF BoxIs
  <2>. QED BY <1>11, <2>1, HiddenType
<1>13. PICK d : d = HiddenSet(a, h)
  OBVIOUS
<1>14. BoxIs(d, b.lis, {Placeholder}, b.unsel, b.created, b.custom, FALSE, h)
  BY <1>10, <1>12, <1>13, HiddenOf
<1>15. d.unsel = b.unsel /\ d.created = b.created /\ d.custom = b.custom
  BY <1>14 DEF BoxIs
<1>16. PICK c : c = CustomSet(CreatedSet(UnselSet(d, b.unsel \cup {v}), b.created \ {v}),
                              b.custom \cup (b.created \cap {v}))
  OBVIOUS
<1>17. BoxIs(c, b.lis, {Placeholder}, b.unsel \cup {v}, b.created \ {v},
             b.custom \cup (b.created \cap {v}), FALSE, h)
  <2>1. b.unsel \cup {v} \in SUBSET (Values \cup {CreateItem})
    BY <1>3, <1>7
  <2>2. b.created \ {v} \in SUBSET Values /\ b.custom \cup (b.created \cap {v}) \in SUBSET Values
    BY <1>3
  <2>3. BoxIs(UnselSet(d, b.unsel \cup {v}), b.lis, {Placeholder}, b.unsel \cup {v}, b.created,
              b.custom, FALSE, h)
    BY <1>14, <2>1, UnselOf
  <2>4. BoxIs(CreatedSet(UnselSet(d, b.unsel \cup {v}), b.created \ {v}), b.lis, {Placeholder},
              b.unsel \cup {v}, b.created \ {v}, b.custom, FALSE, h)
    BY <2>2, <2>3, CreatedOf
  <2>. QED BY <1>16, <2>2, <2>4, CustomOf
<1>18. Heard(f) = [box |-> c, items |-> AddItem(f.items, v)]
  <2>1. Saved([b EXCEPT !.sel = {Placeholder}, !.open = FALSE]) = d
    <3>1. [b EXCEPT !.sel = {Placeholder}, !.open = FALSE] = a
      BY <1>9 DEF OpenSet, SelSet
    <3>. QED BY <1>11, <1>13, <3>1 DEF Saved, HiddenSet
  <2>2. [d EXCEPT !.unsel = @ \cup {v}, !.created = @ \ {v}, !.custom = @ \cup (b.created \cap {v})]
          = [d EXCEPT !.unsel = b.unsel \cup {v}, !.created = b.created \ {v},
                      !.custom = b.custom \cup (b.created \cap {v})]
    BY <1>15
  <2>3. [d EXCEPT !.unsel = b.unsel \cup {v}, !.created = b.created \ {v},
                  !.custom = b.custom \cup (b.created \cap {v})] = c
    BY <1>16 DEF CustomSet, CreatedSet, UnselSet
  <2>. QED BY <1>2, <1>5, <2>1, <2>2, <2>3 DEF Heard
<1>19. IsInjective(f.items)
  BY <1>4 DEF Linked
<1>20. PICK q : q = AddItem(f.items, v)
  OBVIOUS
<1>21. q \in Seq(Values) /\ IsInjective(q) /\ Range(q) = Range(f.items) \cup {v}
  BY <1>1, <1>7, <1>19, <1>20, JoinsOnce
<1>22. Linked(b.lis, {Placeholder}, b.unsel \cup {v}, b.created \ {v},
              b.custom \cup (b.created \cap {v}), q)
  BY <1>4, <1>7, <1>8, <1>21 DEF Linked
<1>23. PICK g : g = Heard(f)
  OBVIOUS
<1>24. g \in FieldStates /\ g.box = c /\ g.items = q
  <2>1. c \in BoxType
    BY <1>17 DEF BoxIs
  <2>. QED BY <1>18, <1>20, <1>21, <1>23, <2>1 DEF FieldStates
<1>25. /\ c.lis = b.lis /\ c.sel = {Placeholder} /\ c.unsel = b.unsel \cup {v}
       /\ c.created = b.created \ {v} /\ c.custom = b.custom \cup (b.created \cap {v}) /\ c.hidden = h
  BY <1>17 DEF BoxIs
<1>26. Shape(g)
  BY <1>22, <1>24, <1>25 DEF Shape
<1>27. Hidden(c) = h
  <2>1. a.lis = b.lis /\ a.sel = {Placeholder}
    BY <1>10 DEF BoxIs
  <2>. QED BY <1>11, <1>25, <2>1 DEF Hidden
<1>28. Chosen({Placeholder})
  BY Apart, ListKind DEF Chosen
<1>. QED BY <1>2, <1>23, <1>24, <1>25, <1>26, <1>27, <1>28 DEF Good

\* A save brings field and inputs, or field and list, in line.
LEMMA SaveBrings ==
    ASSUME KindOK, NEW f, Shape(f), Chosen(f.box.sel)
    PROVE  Good(SaveValues(f)) /\ SaveValues(f).box.lis = f.box.lis
<1>1. PICK g : g = InputsSet(f)
  OBVIOUS
<1>2. /\ Shape(g) /\ g.box.hidden = Hidden(g.box)
      /\ g.box.lis = f.box.lis /\ g.box.sel = f.box.sel
  BY <1>1, InputsShape
<1>3. CASE kind.list /\ g.box.hidden # <<>>
  <2>1. SaveValues(f) = Heard(g)
    BY <1>1, <1>3 DEF SaveValues, InputsSet
  <2>2. CreateItem \notin g.box.sel
    BY <1>2, <1>3 DEF Chosen
  <2>. QED BY <1>2, <1>3, <2>1, <2>2, HeardStays
<1>4. CASE ~ (kind.list /\ g.box.hidden # <<>>)
  <2>1. SaveValues(f) = g
    BY <1>1, <1>4 DEF SaveValues, InputsSet
  <2>2. ASSUME kind.list
        PROVE  g.box.sel = {Placeholder}
    <3>1. g.box.hidden = <<>>
      BY <1>4, <2>2
    <3>2. g.box \in BoxType /\ g.box.sel \subseteq Range(g.box.lis)
      BY <1>2 DEF Shape, FieldStates, Linked
    <3>3. Range(Hidden(g.box)) = g.box.sel \ {Placeholder}
      BY <3>2, HiddenType
    <3>4. Range(<<>>) = {}
      BY DEF Range
    <3>5. \E w : g.box.sel = {w}
      BY <1>2, <2>2, ListKind DEF Chosen
    <3>. QED BY <1>2, <3>1, <3>3, <3>4, <3>5
  <2>. QED BY <1>2, <2>1, <2>2 DEF Good
<1>. QED BY <1>3, <1>4

\* A field that closes saves.
LEMMA CloseKeeps ==
    ASSUME KindOK, NEW f, Shape(f), Chosen(f.box.sel)
    PROVE  /\ Shape(CloseDropdown(f)) /\ Chosen(CloseDropdown(f).box.sel)
           /\ CloseDropdown(f).box.lis = f.box.lis
           /\ Good(f) => Good(CloseDropdown(f))
<1>1. CASE f.box.open
  <2>1. PICK g : g = ClosedUp(f)
    OBVIOUS
  <2>2. Shape(g) /\ g.box.sel = f.box.sel /\ g.box.lis = f.box.lis
    BY <2>1, ClosedShape
  <2>3. Good(SaveValues(g)) /\ SaveValues(g).box.lis = f.box.lis
    BY <2>2, SaveBrings
  <2>4. CloseDropdown(f) = SaveValues(g)
    BY <1>1, <2>1 DEF CloseDropdown, ClosedUp
  <2>. QED BY <2>3, <2>4 DEF Good
<1>2. CASE ~ f.box.open
  BY <1>2 DEF CloseDropdown
<1>. QED BY <1>1, <1>2

\* An entry that may be chosen is chosen, if need be in place of the others.
LEMMA ToggleBrings ==
    ASSUME KindOK, NEW f, Shape(f), NEW v \in Range(f.box.lis), v \notin f.box.unsel, NEW force,
           kind.multiple => Chosen(f.box.sel)
    PROVE  Good(ToggleItem(f, v, force)) /\ ToggleItem(f, v, force).box.lis = f.box.lis
<1>1. Linked(f.box.lis, f.box.sel, f.box.unsel, f.box.created, f.box.custom, f.items)
  BY DEF Shape
<1>2. CASE kind.multiple
  <2>1. ToggleItem(f, v, force) = ToggleMultiple(f, v, force)
    BY <1>2 DEF ToggleItem
  <2>2. PICK S : S = f.box.sel
    OBVIOUS
  <2>3. ~ kind.list
    BY <1>2, ListKind
  <2>4. S \subseteq Range(f.box.lis) /\ Placeholder \notin Range(f.box.lis)
    BY <1>1, <1>2, <2>2 DEF Linked
  <2>5. ASSUME NEW T, T \subseteq Range(f.box.lis), kind.optional \/ T # {}
        PROVE  Good(SaveValues(SelectedAs(f, T))) /\ SaveValues(SelectedAs(f, T)).box.lis = f.box.lis
    <3>1. PICK g : g = SelectedAs(f, T)
      OBVIOUS
    <3>2. Shape(g) /\ g.box.sel = T /\ g.box.lis = f.box.lis
      BY <2>5, <3>1, SelectedShape
    <3>3. Chosen(T)
      BY <1>2, <2>3, <2>4, <2>5 DEF Chosen
    <3>. QED BY <3>1, <3>2, <3>3, SaveBrings
  <2>6. kind.optional \/ S # {}
    BY <1>2, <2>2 DEF Chosen
  <2>7. CASE v \in S /\ force # "on" /\ (Cardinality(S) > 1 \/ kind.optional)
    <3>1. ToggleMultiple(f, v, force) = SaveValues(SelectedAs(f, S \ {v}))
      BY <2>2, <2>7 DEF ToggleMultiple, SelectedAs
    <3>2. Cardinality({v}) = 1
      BY FS_Singleton
    <3>3. kind.optional \/ S \ {v} # {}
      <4>1. S \ {v} = {} => S = {v}
        BY <2>7
      <4>. QED BY <2>7, <3>2, <4>1
    <3>. QED BY <2>1, <2>4, <2>5, <3>1, <3>3
  <2>8. CASE v \notin S /\ force # "off"
    <3>1. ToggleMultiple(f, v, force) = SaveValues(SelectedAs(f, S \cup {v}))
      BY <2>2, <2>8 DEF ToggleMultiple, SelectedAs
    <3>. QED BY <2>1, <2>4, <2>5, <3>1
  <2>9. CASE /\ ~ (v \in S /\ force # "on" /\ (Cardinality(S) > 1 \/ kind.optional))
             /\ ~ (v \notin S /\ force # "off")
    <3>1. ToggleMultiple(f, v, force) = SaveValues(SelectedAs(f, S))
      BY <2>2, <2>9 DEF ToggleMultiple, SelectedAs
    <3>. QED BY <2>1, <2>4, <2>5, <2>6, <3>1
  <2>. QED BY <2>7, <2>8, <2>9
<1>3. CASE ~ kind.multiple
  <2>1. PICK g : g = SelectedAs(f, {v})
    OBVIOUS
  <2>2. ToggleItem(f, v, force) = SaveValues(CloseDropdown(g))
    BY <1>3, <2>1 DEF ToggleItem, ToggleSingle, SelectedAs
  <2>3. Shape(g) /\ g.box.sel = {v} /\ g.box.lis = f.box.lis
    BY <2>1, SelectedShape
  <2>4. Chosen({v})
    <3>1. kind.optional \/ v # Placeholder
      BY <1>1, <1>3 DEF Linked
    <3>2. v # CreateItem
      BY <1>1 DEF Linked
    <3>. QED BY <3>1, <3>2 DEF Chosen
  <2>5. PICK c : c = CloseDropdown(g)
    OBVIOUS
  <2>6. Shape(c) /\ Chosen(c.box.sel) /\ c.box.lis = f.box.lis
    BY <2>3, <2>4, <2>5, CloseKeeps
  <2>. QED BY <2>2, <2>5, <2>6, SaveBrings
<1>. QED BY <1>2, <1>3

\* A click on any entry leaves the field in line.
LEMMA ToggleKeeps ==
    ASSUME KindOK, NEW f, Good(f), NEW v \in Range(f.box.lis), NEW force
    PROVE  Good(ToggleItem(f, v, force)) /\ ToggleItem(f, v, force).box.lis = f.box.lis
<1>1. CASE v \in f.box.unsel
  BY <1>1 DEF ToggleItem
<1>2. CASE v \notin f.box.unsel
  <2>1. Shape(f) /\ Chosen(f.box.sel)
    BY DEF Good
  <2>. QED BY <1>2, <2>1, ToggleBrings
<1>. QED BY <1>1, <1>2

\* What is without some of its entries.
LEMMA WithoutType ==
    ASSUME NEW X, NEW s \in Seq(X), NEW gone
    PROVE  /\ Without(s, gone) \in Seq(X) /\ Range(Without(s, gone)) = Range(s) \ gone
           /\ IsInjective(s) => IsInjective(Without(s, gone))
           /\ \A S : S \cap gone = {} => Kept(Without(s, gone), S) = Kept(s, S)
<1>1. Without(s, gone) = Kept(s, Range(s) \ gone)
  BY DEF Without
<1>2. ASSUME NEW S, S \cap gone = {}
      PROVE  Kept(Without(s, gone), S) = Kept(s, S)
  <2>1. Kept(Without(s, gone), S) = Kept(s, (Range(s) \ gone) \cap S)
    BY <1>1, KeptTwice
  <2>2. Range(s) \cap ((Range(s) \ gone) \cap S) = Range(s) \cap S
    BY <1>2
  <2>. QED BY <2>1, <2>2, KeptAlike
<1>3. /\ Kept(s, Range(s) \ gone) \in Seq(X)
      /\ Range(Kept(s, Range(s) \ gone)) = Range(s) \cap (Range(s) \ gone)
      /\ IsInjective(s) => IsInjective(Kept(s, Range(s) \ gone))
  BY KeptType
<1>. QED BY <1>1, <1>2, <1>3

\* An entry is made for a new value, in place of the last one made in a field for one.
EntryMade(f, v) == [f EXCEPT !.box = WithEntry(f.box, v)]

\* createItems makes the entry of the value, takes away at most the entry that was
\* created before, and keeps the field in shape.
LEMMA EntryShape ==
    ASSUME KindOK, NEW f, Good(f), NEW v \in Values
    PROVE  /\ Shape(EntryMade(f, v)) /\ v \in Range(EntryMade(f, v).box.lis)
           /\ EntryMade(f, v).box.unsel = f.box.unsel
           /\ kind.multiple => Chosen(EntryMade(f, v).box.sel)
           /\ v \notin Range(f.box.lis) => v \notin f.box.unsel
<1>0. f \in FieldStates /\ f.box \in BoxType /\ Chosen(f.box.sel)
  BY DEF Good, Shape, FieldStates
<1>1. PICK b \in BoxType : b = f.box
  BY <1>0
<1>2. b.lis \in Seq(FieldEntries) /\ b.created \in SUBSET Values /\ b.sel \in SUBSET FieldEntries
  BY BoxFields DEF FieldEntries
<1>3. Linked(b.lis, b.sel, b.unsel, b.created, b.custom, f.items)
  BY <1>1 DEF Good, Shape
<1>4. Contains(b.lis, v) <=> v \in Range(b.lis)
  BY <1>2, RangeOf
<1>5. v \notin Range(b.lis) => v \notin b.unsel
  BY <1>3 DEF Linked
<1>6. PICK g : g = EntryMade(f, v)
  OBVIOUS
<1>7. CASE v \in Range(b.lis)
  <2>1. WithEntry(f.box, v) = f.box
    BY <1>1, <1>4, <1>7 DEF WithEntry
  <2>2. g = f
    BY <1>0, <1>6, <2>1 DEF EntryMade, FieldStates
  <2>. QED BY <1>0, <1>1, <1>5, <1>6, <1>7, <2>2 DEF Good
<1>8. CASE v \notin Range(b.lis)
  <2>1. PICK old : old = IF kind.multiple THEN {} ELSE b.created
    OBVIOUS
  <2>2. PICK made : made = IF kind.multiple THEN b.created ELSE {v}
    OBVIOUS
  <2>3. old \subseteq Values /\ made \in SUBSET Values /\ old \cap b.unsel = {} /\ made \cap b.unsel = {}
    BY <1>2, <1>3, <1>5, <1>8, <2>1, <2>2 DEF Linked
  <2>4. PICK rest : rest = Without(b.lis, old)
    OBVIOUS
  <2>5. rest \in Seq(FieldEntries) /\ Range(rest) = Range(b.lis) \ old
    BY <1>2, <2>4, WithoutType
  <2>6. <<v>> \in Seq(FieldEntries) /\ Range(<<v>>) = {v}
    BY DEF FieldEntries, Range
  <2>7. PICK lis : lis = BeforeLast(rest, <<v>>)
    OBVIOUS
  <2>8. lis \in Seq(FieldEntries) /\ Range(lis) = (Range(b.lis) \ old) \cup {v}
    <3>1. PICK q : q = <<v>>
      OBVIOUS
    <3>2. q \in Seq(FieldEntries) /\ Range(q) = {v}
      BY <2>6, <3>1
    <3>3. lis = BeforeLast(rest, q)
      BY <2>7, <3>1
    <3>. QED BY <2>5, <3>2, <3>3, Squeezed
  <2>9. PICK c : c = CreatedSet(SelSet(LisSet(b, lis), b.sel \ old), made)
    OBVIOUS
  <2>10. BoxIs(c, lis, b.sel \ old, b.unsel, made, b.custom, b.open, b.hidden)
    <3>1. b.sel \ old \in SUBSET FieldEntries
      BY <1>2
    <3>2. BoxIs(LisSet(b, lis), lis, b.sel, b.unsel, b.created, b.custom, b.open, b.hidden)
      BY <2>8, BoxSelf, LisOf
    <3>3. BoxIs(SelSet(LisSet(b, lis), b.sel \ old), lis, b.sel \ old, b.unsel, b.created, b.custom,
                b.open, b.hidden)
      BY <3>1, <3>2, SelOf
    <3>. QED BY <2>3, <2>9, <3>3, CreatedOf
  <2>11. WithEntry(b, v) = c
    <3>1. WithEntry(b, v) = [b EXCEPT !.lis = lis, !.sel = b.sel \ old, !.created = made]
      BY <1>4, <1>8, <2>1, <2>2, <2>4, <2>7 DEF WithEntry
    <3>. QED BY <2>9, <3>1 DEF CreatedSet, SelSet, LisSet
  <2>12. g \in FieldStates /\ g.box = c /\ g.items = f.items
    <3>1. c \in BoxType
      BY <2>10 DEF BoxIs
    <3>2. g = [f EXCEPT !.box = c]
      BY <1>1, <1>6, <2>11 DEF EntryMade
    <3>. QED BY <1>0, <3>1, <3>2 DEF FieldStates
  <2>13. Linked(lis, b.sel \ old, b.unsel, made, b.custom, f.items)
    <3>1. CreateItem # v /\ Placeholder # v
      BY Apart
    <3>2. b.sel \ old \subseteq Range(lis) /\ b.unsel \subseteq Range(lis)
      BY <1>3, <2>3, <2>8 DEF Linked
    <3>3. CreateItem \in Range(lis) => CreateItem \in b.unsel
      BY <1>3, <2>8, <3>1 DEF Linked
    <3>4. Placeholder \in Range(lis) <=> (~ kind.multiple /\ kind.optional)
      BY <1>3, <2>3, <2>8, <3>1, Apart DEF Linked
    <3>. QED BY <1>3, <2>3, <3>2, <3>3, <3>4 DEF Linked
  <2>14. kind.multiple => b.sel \ old = b.sel
    BY <2>1
  <2>15. /\ c.lis = lis /\ c.sel = b.sel \ old /\ c.unsel = b.unsel /\ c.created = made
         /\ c.custom = b.custom
    BY <2>10 DEF BoxIs
  <2>16. Shape(g)
    BY <2>12, <2>13, <2>15 DEF Shape
  <2>17. kind.multiple => Chosen(c.sel)
    BY <1>0, <1>1, <2>14, <2>15
  <2>. QED BY <1>1, <1>5, <1>6, <2>8, <2>12, <2>15, <2>16, <2>17
<1>. QED BY <1>7, <1>8

\* A value that is typed, or wanted by the view, gets its entry and is chosen.
LEMMA CreateKeeps ==
    ASSUME KindOK, NEW f, Good(f), NEW v \in Values
    PROVE  Good(CreateItems(f, v))
<1>1. PICK g : g = EntryMade(f, v)
  OBVIOUS
<1>2. /\ Shape(g) /\ v \in Range(g.box.lis) /\ g.box.unsel = f.box.unsel
      /\ kind.multiple => Chosen(g.box.sel)
      /\ v \notin Range(f.box.lis) => v \notin f.box.unsel
  BY <1>1, EntryShape
<1>3. CreateItems(f, v) = ToggleItem(g, v, "on")
  BY <1>1 DEF CreateItems, EntryMade
<1>4. CASE v \notin f.box.unsel
  BY <1>2, <1>3, <1>4, ToggleBrings
<1>5. CASE v \in f.box.unsel
  <2>1. f \in FieldStates /\ f.box \in BoxType
    BY DEF Good, Shape, FieldStates
  <2>2. v \in Range(f.box.lis) /\ f.box.lis \in Seq(FieldEntries)
    BY <1>2, <1>5, <2>1, BoxFields
  <2>3. Contains(f.box.lis, v)
    BY <2>2, RangeOf
  <2>4. g = f
    BY <1>1, <2>1, <2>3 DEF EntryMade, WithEntry, FieldStates
  <2>. QED BY <1>3, <1>5, <2>4 DEF ToggleItem
<1>. QED BY <1>4, <1>5

\* What holds at 0 and is handed on from each number below N holds up to N.
LEMMA Reaches ==
    ASSUME NEW N \in Nat, NEW G, 0 \in G, \A n \in 0..N : n < N /\ n \in G => n + 1 \in G
    PROVE  0..N \subseteq G
<1>. DEFINE Bad == {n \in Nat : n \in 0..N /\ n \notin G}
<1>1. SUFFICES ASSUME Bad # {} PROVE FALSE
  OBVIOUS
<1>2. PICK n \in Bad : \A k \in Bad : ~ (<<k, n>> \in OpToRel(<, Nat))
  <2>1. Bad \subseteq Nat
    OBVIOUS
  <2>. HIDE DEF Bad
  <2>. QED BY <1>1, <2>1, WFMin, NatLessThanWellFounded, Zenon
<1>3. \A k \in Bad : ~ (k < n)
  BY <1>2, Zenon DEF OpToRel
<1>4. n \in Nat /\ n \in 0..N /\ n \notin G /\ n # 0
  OBVIOUS
<1>5. n - 1 \in 0..N /\ n - 1 < N /\ n - 1 < n
  BY <1>4
<1>6. n - 1 \in G
  BY <1>3, <1>5
<1>. QED BY <1>4, <1>5, <1>6

\* f takes one step after the other from w.
Takes(f, N, S, w, step) ==
    f \in [0..N -> S] /\ f[0] = w /\ \A i \in 1..N : f[i] = step[i][f[i - 1]]

\* StepsTaken one after another can be taken.
LEMMA StepsTaken ==
    ASSUME NEW N \in Nat, NEW S, NEW w \in S, NEW step \in [1..N -> [S -> S]]
    PROVE  \E f : Takes(f, N, S, w, step)
<1>. DEFINE Far(n) == \E f \in [0..n -> S] :
                        f[0] = w /\ \A i \in 1..n : f[i] = step[i][f[i - 1]]
            G == {n \in 0..N : Far(n)}
<1>1. 0 \in G
  <2>. DEFINE f == [i \in 0..0 |-> w]
  <2>1. f \in [0..0 -> S] /\ f[0] = w /\ \A i \in 1..0 : FALSE
    OBVIOUS
  <2>2. Far(0)
    <3>. HIDE DEF f
    <3>. QED BY <2>1
  <2>. QED BY <2>2
<1>2. ASSUME NEW n \in 0..N, n < N, n \in G
      PROVE  n + 1 \in G
  <2>1. PICK f \in [0..n -> S] : f[0] = w /\ \A i \in 1..n : f[i] = step[i][f[i - 1]]
    BY <1>2
  <2>. DEFINE g == [i \in 0..(n + 1) |-> IF i = n + 1 THEN step[n + 1][f[n]] ELSE f[i]]
  <2>2. step[n + 1][f[n]] \in S
    <3>1. n + 1 \in 1..N /\ n \in 0..n
      BY <1>2
    <3>. QED BY <3>1
  <2>3. g \in [0..(n + 1) -> S]
    BY <2>2
  <2>4. g[0] = w
    BY <2>1
  <2>5. ASSUME NEW i \in 1..(n + 1)
        PROVE  g[i] = step[i][g[i - 1]]
    <3>1. i - 1 \in 0..n /\ i - 1 # n + 1
      OBVIOUS
    <3>2. g[i - 1] = f[i - 1]
      BY <3>1
    <3>3. CASE i = n + 1
      BY <3>2, <3>3
    <3>4. CASE i # n + 1
      <4>1. i \in 1..n
        BY <3>4
      <4>. QED BY <2>1, <3>2, <3>4, <4>1
    <3>. QED BY <3>3, <3>4
  <2>6. n + 1 \in 0..N
    BY <1>2
  <2>7. Far(n + 1)
    <3>. HIDE DEF g
    <3>. QED BY <2>3, <2>4, <2>5
  <2>. QED BY <2>6, <2>7
<1>3. N \in G
  <2>1. \A n \in 0..N : n < N /\ n \in G => n + 1 \in G
    BY <1>2
  <2>. HIDE DEF G
  <2>2. 0..N \subseteq G
    BY <1>1, <2>1, Reaches
  <2>. QED BY <2>2
<1>. QED BY <1>3 DEF Takes

\* StepsTaken that stay in a set.
LEMMA StepsStay ==
    ASSUME NEW N \in Nat, NEW S, NEW f, f[0] \in S,
           \A i \in 1..N : f[i - 1] \in S => f[i] \in S
    PROVE  \A i \in 0..N : f[i] \in S
<1>. DEFINE G == {i \in 0..N : f[i] \in S}
<1>1. 0 \in G
  OBVIOUS
<1>2. ASSUME NEW n \in 0..N, n < N, n \in G
      PROVE  n + 1 \in G
  <2>1. n + 1 \in 1..N /\ (n + 1) - 1 = n /\ f[n] \in S /\ n + 1 \in 0..N
    BY <1>2
  <2>. QED BY <2>1
<1>3. \A n \in 0..N : n < N /\ n \in G => n + 1 \in G
  BY <1>2
<1>. HIDE DEF G
<1>4. 0..N \subseteq G
  BY <1>1, <1>3, Reaches
<1>. QED BY <1>4 DEF G

\* The states of a field that are in line and have these entries.
GoodStates == {f \in FieldStates : Good(f)}
GoodWith(lis) == {f \in FieldStates : Good(f) /\ f.box.lis = lis}

\* A good field is one of them.
LEMMA GoodIs ==
    ASSUME NEW f, Good(f)
    PROVE  f \in GoodStates /\ f \in GoodWith(f.box.lis)
BY DEF Good, Shape, GoodStates, GoodWith

\* FieldEntries are made for one value after another.
LEMMA MadeKeeps ==
    ASSUME KindOK, NEW f, Good(f), NEW new \in Seq(Values)
    PROVE  Good(Made(f, new))
<1>. DEFINE N == Len(new)
            step == [i \in 1..N |-> [y \in GoodStates |-> CreateItems(y, new[i])]]
            After(e) == e = [i \in 0..N |-> IF i = 0 THEN f ELSE CreateItems(e[i - 1], new[i])]
            v == CHOOSE e : After(e)
<1>1. N \in Nat /\ \A i \in 1..N : new[i] \in Values
  OBVIOUS
<1>2. f \in GoodStates
  BY GoodIs
<1>3. ASSUME NEW y \in GoodStates, NEW i \in 1..N
      PROVE  CreateItems(y, new[i]) \in GoodStates
  <2>1. Good(y) /\ new[i] \in Values
    BY <1>1 DEF GoodStates
  <2>. QED BY <2>1, CreateKeeps, GoodIs
<1>4. step \in [1..N -> [GoodStates -> GoodStates]]
  BY <1>3
<1>5. Made(f, new) = v[N]
  BY DEF Made
<1>6. \E e : After(e)
  <2>1. PICK e : Takes(e, N, GoodStates, f, step)
    <3>. HIDE DEF step, N
    <3>. QED BY <1>1, <1>2, <1>4, StepsTaken
  <2>2. ASSUME NEW i \in 0..N
        PROVE  e[i] = IF i = 0 THEN f ELSE CreateItems(e[i - 1], new[i])
    <3>1. CASE i # 0
      <4>1. i \in 1..N /\ i - 1 \in 0..N
        BY <1>1, <3>1
      <4>2. e[i] = step[i][e[i - 1]] /\ e[i - 1] \in GoodStates
        BY <2>1, <4>1 DEF Takes
      <4>. QED BY <3>1, <4>1, <4>2
    <3>. QED BY <2>1, <3>1 DEF Takes
  <2>3. e = [i \in 0..N |-> e[i]]
    BY <2>1 DEF Takes
  <2>4. e = [i \in 0..N |-> IF i = 0 THEN f ELSE CreateItems(e[i - 1], new[i])]
    BY <2>2, <2>3
  <2>. QED BY <2>4
<1>7. After(v)
  BY <1>6
<1>. HIDE DEF v
<1>8. v = [i \in 0..N |-> IF i = 0 THEN f ELSE CreateItems(v[i - 1], new[i])]
  BY <1>7
<1>9. v[0] = f /\ \A i \in 1..N : v[i] = CreateItems(v[i - 1], new[i])
  BY <1>1, <1>8
<1>10. ASSUME NEW i \in 1..N, v[i - 1] \in GoodStates
       PROVE  v[i] \in GoodStates
  <2>1. CreateItems(v[i - 1], new[i]) \in GoodStates
    BY <1>3, <1>10
  <2>. QED BY <1>9, <2>1
<1>11. \A i \in 0..N : v[i] \in GoodStates
  <2>1. \A i \in 1..N : v[i - 1] \in GoodStates => v[i] \in GoodStates
    BY <1>10
  <2>2. v[0] \in GoodStates
    BY <1>2, <1>9
  <2>. HIDE DEF N
  <2>. QED BY <1>1, <2>1, <2>2, StepsStay
<1>. QED BY <1>1, <1>5, <1>11 DEF GoodStates

\* An entry is switched to what is wanted.
LEMMA SwitchKeeps ==
    ASSUME KindOK, NEW f, Good(f), NEW v \in Range(f.box.lis), NEW vs
    PROVE  Good(Switch(f, v, vs)) /\ Switch(f, v, vs).box.lis = f.box.lis
<1>1. CASE kind.multiple
  <2>1. PICK force : force = IF v \in vs THEN "on" ELSE "off"
    OBVIOUS
  <2>2. Switch(f, v, vs) = ToggleItem(f, v, force)
    BY <1>1, <2>1 DEF Switch
  <2>. QED BY <2>2, ToggleKeeps
<1>2. CASE ~ kind.multiple /\ v \in vs
  BY <1>2, ToggleKeeps DEF Switch
<1>3. CASE ~ kind.multiple /\ v \notin vs
  BY <1>3 DEF Switch
<1>. QED BY <1>1, <1>2, <1>3

\* One entry after another is switched.
LEMMA SwitchedKeeps ==
    ASSUME KindOK, NEW f, Good(f), NEW lis \in Seq(Range(f.box.lis)), NEW vs
    PROVE  Good(Switched(f, lis, vs))
<1>. DEFINE N == Len(lis)
            X == GoodWith(f.box.lis)
            step == [i \in 1..N |-> [y \in X |-> Switch(y, lis[i], vs)]]
            After(e) == e = [i \in 0..N |-> IF i = 0 THEN f ELSE Switch(e[i - 1], lis[i], vs)]
            v == CHOOSE e : After(e)
<1>1. N \in Nat /\ \A i \in 1..N : lis[i] \in Range(f.box.lis)
  OBVIOUS
<1>2. f \in X
  BY GoodIs
<1>3. ASSUME NEW y \in X, NEW i \in 1..N
      PROVE  Switch(y, lis[i], vs) \in X
  <2>1. Good(y) /\ y.box.lis = f.box.lis /\ lis[i] \in Range(y.box.lis)
    BY <1>1 DEF GoodWith
  <2>2. Good(Switch(y, lis[i], vs)) /\ Switch(y, lis[i], vs).box.lis = f.box.lis
    BY <2>1, SwitchKeeps
  <2>. QED BY <2>2, GoodIs
<1>. HIDE DEF X
<1>4. step \in [1..N -> [X -> X]]
  BY <1>3
<1>5. Switched(f, lis, vs) = v[N]
  BY DEF Switched
<1>6. \E e : After(e)
  <2>1. PICK e : Takes(e, N, X, f, step)
    <3>. HIDE DEF step, N
    <3>. QED BY <1>1, <1>2, <1>4, StepsTaken
  <2>2. ASSUME NEW i \in 0..N
        PROVE  e[i] = IF i = 0 THEN f ELSE Switch(e[i - 1], lis[i], vs)
    <3>1. CASE i # 0
      <4>1. i \in 1..N /\ i - 1 \in 0..N
        BY <1>1, <3>1
      <4>2. e[i] = step[i][e[i - 1]] /\ e[i - 1] \in X
        BY <2>1, <4>1 DEF Takes
      <4>. QED BY <3>1, <4>1, <4>2
    <3>. QED BY <2>1, <3>1 DEF Takes
  <2>3. e = [i \in 0..N |-> e[i]]
    BY <2>1 DEF Takes
  <2>4. e = [i \in 0..N |-> IF i = 0 THEN f ELSE Switch(e[i - 1], lis[i], vs)]
    BY <2>2, <2>3
  <2>. QED BY <2>4
<1>7. After(v)
  BY <1>6
<1>. HIDE DEF v
<1>8. v = [i \in 0..N |-> IF i = 0 THEN f ELSE Switch(v[i - 1], lis[i], vs)]
  BY <1>7
<1>9. v[0] = f /\ \A i \in 1..N : v[i] = Switch(v[i - 1], lis[i], vs)
  BY <1>1, <1>8
<1>10. ASSUME NEW i \in 1..N, v[i - 1] \in X
       PROVE  v[i] \in X
  <2>1. Switch(v[i - 1], lis[i], vs) \in X
    BY <1>3, <1>10
  <2>. QED BY <1>9, <2>1
<1>11. \A i \in 0..N : v[i] \in X
  <2>1. \A i \in 1..N : v[i - 1] \in X => v[i] \in X
    BY <1>10
  <2>2. v[0] \in X
    BY <1>2, <1>9
  <2>. HIDE DEF N
  <2>. QED BY <1>1, <2>1, <2>2, StepsStay
<1>. QED BY <1>1, <1>5, <1>11 DEF X, GoodWith

\* There are finitely many values.
LEMMA ValuesFinite == IsFiniteSet(Values)
<1>1. PICK p : p = Preset \o More
  OBVIOUS
<1>2. PICK n \in Nat : DOMAIN p = 1..n
  <2>1. Preset \in Seq(Range(Preset)) /\ More \in Seq(Range(More))
    BY DropdownAssumption
  <2>2. PICK X : X = Range(Preset) \cup Range(More)
    OBVIOUS
  <2>3. Preset \in Seq(X) /\ More \in Seq(X)
    BY <2>1, <2>2, SeqOfFewer
  <2>4. p \in Seq(X)
    BY <1>1, <2>3
  <2>. QED BY <2>4
<1>3. PICK g : g = [i \in 1..n |-> p[i]]
  OBVIOUS
<1>4. g \in Surjection(1..n, Range(p))
  <2>1. g \in [1..n -> Range(p)]
    BY <1>2, <1>3 DEF Range
  <2>2. \A v \in Range(p) : \E i \in 1..n : g[i] = v
    BY <1>2, <1>3 DEF Range
  <2>. QED BY <2>1, <2>2 DEF Surjection
<1>5. IsFiniteSet(1..n)
  BY FS_Interval
<1>6. IsFiniteSet(Range(p))
  BY <1>4, <1>5, FS_Surjection DEF ExistsSurjection
<1>7. IsFiniteSet(Typed)
  BY DropdownAssumption
<1>. QED BY <1>1, <1>6, <1>7, FS_Union DEF Values

\* The choices that the view offers are values.
LEMMA ChoicesOf == Preset \in Seq(Values) /\ More \in Seq(Values) /\ Typed \subseteq Values
<1>1. Preset \in Seq(Range(Preset)) /\ More \in Seq(Range(More))
  BY DropdownAssumption
<1>2. PICK X : X = Range(Preset) \cup Range(More)
  OBVIOUS
<1>3. Preset \in Seq(X) /\ More \in Seq(X)
  BY <1>1, <1>2, SeqOfFewer
<1>4. PICK n \in Nat : n = Len(Preset) /\ DOMAIN Preset = 1..n
  BY <1>3
<1>5. PICK k \in Nat : k = Len(More) /\ DOMAIN More = 1..k
  BY <1>3
<1>6. PICK p : p = Preset \o More
  OBVIOUS
<1>7. /\ DOMAIN p = 1..(n + k)
      /\ \A i \in 1..n : p[i] = Preset[i]
      /\ \A i \in 1..k : p[n + i] = More[i]
  BY <1>3, <1>4, <1>5, <1>6
<1>8. Range(Preset) \subseteq Range(p)
  <2>1. \A i \in 1..n : i \in 1..(n + k)
    OBVIOUS
  <2>. QED BY <1>4, <1>7, <2>1 DEF Range
<1>9. Range(More) \subseteq Range(p)
  <2>1. \A i \in 1..k : n + i \in 1..(n + k)
    OBVIOUS
  <2>. QED BY <1>5, <1>7, <2>1 DEF Range
<1>10. Range(p) \subseteq Values
  BY <1>6 DEF Values
<1>11. Preset \in Seq(Values)
  BY <1>1, <1>8, <1>10, SeqOfFewer
<1>12. More \in Seq(Values)
  BY <1>1, <1>9, <1>10, SeqOfFewer
<1>. QED BY <1>11, <1>12 DEF Values

\* The view sets the value of a field.
LEMMA SetValueKeeps ==
    ASSUME KindOK, NEW f, Good(f), NEW vs \in SUBSET Values
    PROVE  Good(SetValue(f, vs))
<1>1. PICK want : want = {v \in vs : kind.multiple \/ v = CHOOSE w \in vs : TRUE}
  OBVIOUS
<1>2. SetToSeq(want) \in Seq(Values)
  <2>1. want \subseteq Values
    BY <1>1
  <2>2. IsFiniteSet(want)
    BY <2>1, ValuesFinite, FS_Subset
  <2>3. SetToSeq(want) \in Seq(want) /\ Range(SetToSeq(want)) = want
    BY <2>2, AsList
  <2>. QED BY <2>1, <2>3, SeqOfFewer
<1>3. PICK made : made = IF kind.create THEN Made(f, SetToSeq(want)) ELSE f
  OBVIOUS
<1>4. Good(made)
  <2>1. Good(Made(f, SetToSeq(want)))
    BY <1>2, MadeKeeps
  <2>. QED BY <1>3, <2>1
<1>5. made.box.lis \in Seq(FieldEntries)
  <2>1. made.box \in BoxType
    BY <1>4 DEF Good, Shape, FieldStates
  <2>. QED BY <2>1, BoxFields
<1>6. PICK blank : blank = IF ~kind.multiple /\ Contains(made.box.lis, Placeholder)
                           THEN ToggleItem(made, Placeholder, "toggle") ELSE made
  OBVIOUS
<1>7. Good(blank) /\ blank.box.lis = made.box.lis
  <2>1. CASE ~kind.multiple /\ Contains(made.box.lis, Placeholder)
    <3>1. Placeholder \in Range(made.box.lis)
      BY <1>5, <2>1, RangeOf
    <3>2. blank = ToggleItem(made, Placeholder, "toggle")
      BY <1>6, <2>1
    <3>. QED BY <1>4, <3>1, <3>2, ToggleKeeps
  <2>2. CASE ~ (~kind.multiple /\ Contains(made.box.lis, Placeholder))
    BY <1>4, <1>6, <2>2
  <2>. QED BY <2>1, <2>2
<1>8. PICK lis : lis = Without(made.box.lis, {Placeholder})
  OBVIOUS
<1>9. lis \in Seq(Range(blank.box.lis))
  <2>1. lis \in Seq(FieldEntries) /\ Range(lis) = Range(made.box.lis) \ {Placeholder}
    BY <1>5, <1>8, WithoutType
  <2>. QED BY <1>7, <2>1, SeqOfFewer
<1>10. Good(Switched(blank, lis, vs))
  BY <1>7, <1>9, SwitchedKeeps
<1>11. SetValue(f, vs) = Switched(blank, lis, vs)
  BY <1>1, <1>3, <1>6, <1>8 DEF SetValue
<1>. QED BY <1>10, <1>11

\* Choices that are not the value of the field go.
LEMMA ClearKeeps ==
    ASSUME KindOK, NEW f, Good(f)
    PROVE  Good(ClearChoices(f))
<1>0. f \in FieldStates /\ f.box \in BoxType /\ Chosen(f.box.sel)
  BY DEF Good, Shape, FieldStates
<1>1. PICK b \in BoxType : b = f.box
  BY <1>0
<1>2. /\ b.lis \in Seq(FieldEntries) /\ b.sel \in SUBSET FieldEntries
      /\ b.unsel \in SUBSET (Values \cup {CreateItem}) /\ b.created \in SUBSET Values
      /\ b.custom \in SUBSET Values /\ b.hidden \in Seq(Values \cup {CreateItem})
  BY BoxFields DEF FieldEntries
<1>3. Linked(b.lis, b.sel, b.unsel, b.created, b.custom, f.items)
  BY <1>1 DEF Good, Shape
<1>4. PICK gone : gone = Range(b.lis) \ (Range(b.hidden) \cup {Placeholder, CreateItem})
  OBVIOUS
<1>5. Range(b.hidden) = b.sel \ {Placeholder} /\ b.hidden = Hidden(b)
  <2>1. b.hidden = Hidden(b)
    BY <1>1 DEF Good
  <2>2. b.sel \subseteq Range(b.lis)
    BY <1>3 DEF Linked
  <2>. QED BY <2>1, <2>2, HiddenType
<1>6. b.sel \ gone = b.sel /\ b.sel \cap gone = {}
  BY <1>4, <1>5
<1>7. PICK lis : lis = Without(b.lis, gone)
  OBVIOUS
<1>8. /\ lis \in Seq(FieldEntries) /\ Range(lis) = Range(b.lis) \ gone
      /\ Kept(lis, b.sel \ {Placeholder}) = Kept(b.lis, b.sel \ {Placeholder})
  <2>1. (b.sel \ {Placeholder}) \cap gone = {}
    BY <1>6
  <2>. QED BY <1>2, <1>7, <2>1, WithoutType
<1>9. PICK c : c = CustomSet(CreatedSet(UnselSet(SelSet(LisSet(b, lis), b.sel \ gone), b.unsel \ gone),
                                        b.created \ gone), b.custom \ gone)
  OBVIOUS
<1>10. BoxIs(c, lis, b.sel \ gone, b.unsel \ gone, b.created \ gone, b.custom \ gone, b.open, b.hidden)
  <2>1. /\ b.sel \ gone \in SUBSET FieldEntries /\ b.unsel \ gone \in SUBSET (Values \cup {CreateItem})
        /\ b.created \ gone \in SUBSET Values /\ b.custom \ gone \in SUBSET Values
    BY <1>2
  <2>2. PICK b1 : b1 = LisSet(b, lis)
    OBVIOUS
  <2>3. BoxIs(b1, lis, b.sel, b.unsel, b.created, b.custom, b.open, b.hidden)
    BY <1>8, <2>2, BoxSelf, LisOf
  <2>4. PICK b2 : b2 = SelSet(b1, b.sel \ gone)
    OBVIOUS
  <2>5. BoxIs(b2, lis, b.sel \ gone, b.unsel, b.created, b.custom, b.open, b.hidden)
    BY <2>1, <2>3, <2>4, SelOf
  <2>6. PICK b3 : b3 = UnselSet(b2, b.unsel \ gone)
    OBVIOUS
  <2>7. BoxIs(b3, lis, b.sel \ gone, b.unsel \ gone, b.created, b.custom, b.open, b.hidden)
    BY <2>1, <2>5, <2>6, UnselOf
  <2>8. PICK b4 : b4 = CreatedSet(b3, b.created \ gone)
    OBVIOUS
  <2>9. BoxIs(b4, lis, b.sel \ gone, b.unsel \ gone, b.created \ gone, b.custom, b.open, b.hidden)
    BY <2>1, <2>7, <2>8, CreatedOf
  <2>10. c = CustomSet(b4, b.custom \ gone)
    BY <1>9, <2>2, <2>4, <2>6, <2>8
  <2>. QED BY <2>1, <2>9, <2>10, CustomOf
<1>11. PICK g : g = ClearChoices(f)
  OBVIOUS
<1>12. g \in FieldStates /\ g.box = c /\ g.items = f.items
  <2>1. c \in BoxType
    BY <1>10 DEF BoxIs
  <2>2. [b EXCEPT !.lis = lis, !.sel = b.sel \ gone, !.unsel = b.unsel \ gone,
                  !.created = b.created \ gone, !.custom = b.custom \ gone] = c
    BY <1>9 DEF CustomSet, CreatedSet, UnselSet, SelSet, LisSet
  <2>3. g = [f EXCEPT !.box = c]
    BY <1>1, <1>4, <1>7, <1>11, <2>2 DEF ClearChoices
  <2>. QED BY <1>0, <2>1, <2>3 DEF FieldStates
<1>13. /\ c.lis = lis /\ c.sel = b.sel \ gone /\ c.unsel = b.unsel \ gone
       /\ c.created = b.created \ gone /\ c.custom = b.custom \ gone /\ c.hidden = b.hidden
  BY <1>10 DEF BoxIs
<1>14. Linked(lis, b.sel \ gone, b.unsel \ gone, b.created \ gone, b.custom \ gone, f.items)
  <2>1. Placeholder \notin gone /\ CreateItem \notin gone
    BY <1>4
  <2>2. b.sel \ gone \subseteq Range(lis) /\ b.unsel \ gone \subseteq Range(lis)
    BY <1>3, <1>8 DEF Linked
  <2>3. CreateItem \in Range(lis) => CreateItem \in b.unsel \ gone
    BY <1>3, <1>8, <2>1 DEF Linked
  <2>4. Placeholder \in Range(lis) <=> (~ kind.multiple /\ kind.optional)
    BY <1>3, <1>8, <2>1 DEF Linked
  <2>5. (b.unsel \ gone) \ {CreateItem} \subseteq Range(f.items) /\ b.custom \ gone \subseteq b.unsel \ gone
        /\ (b.created \ gone) \cap (b.unsel \ gone) = {}
    BY <1>3 DEF Linked
  <2>. QED BY <1>3, <2>2, <2>3, <2>4, <2>5 DEF Linked
<1>15. Shape(g)
  BY <1>12, <1>13, <1>14 DEF Shape
<1>16. c.hidden = Hidden(c) /\ c.sel = b.sel
  <2>1. Hidden(c) = Kept(lis, b.sel \ {Placeholder})
    BY <1>6, <1>13 DEF Hidden
  <2>2. Hidden(b) = Kept(b.lis, b.sel \ {Placeholder})
    BY DEF Hidden
  <2>. QED BY <1>5, <1>6, <1>8, <1>13, <2>1, <2>2
<1>17. kind.list => b.sel = {Placeholder}
  BY <1>1 DEF Good
<1>. QED BY <1>0, <1>1, <1>11, <1>12, <1>15, <1>16, <1>17 DEF Good

\* More choices come.
LEMMA AddKeeps ==
    ASSUME KindOK, NEW f, Good(f), NEW vs \in Seq(Values)
    PROVE  Good(AddChoices(f, vs))
<1>0. f \in FieldStates /\ f.box \in BoxType /\ Chosen(f.box.sel)
  BY DEF Good, Shape, FieldStates
<1>1. PICK b \in BoxType : b = f.box
  BY <1>0
<1>2. b.lis \in Seq(FieldEntries)
  BY BoxFields
<1>3. Linked(b.lis, b.sel, b.unsel, b.created, b.custom, f.items)
  BY <1>1 DEF Good, Shape
<1>4. PICK new : new = Without(vs, Range(b.lis))
  OBVIOUS
<1>5. new \in Seq(Values) /\ Range(new) \subseteq Values /\ Range(new) \cap Range(b.lis) = {}
  <2>1. new \in Seq(Values) /\ Range(new) = Range(vs) \ Range(b.lis)
    BY <1>4, WithoutType
  <2>. QED BY <2>1, RangeOf
<1>6. new \in Seq(FieldEntries)
  <2>1. Range(new) \subseteq FieldEntries
    BY <1>5 DEF FieldEntries
  <2>. QED BY <1>5, <2>1, SeqOfFewer
<1>7. PICK lis : lis = BeforeLast(b.lis, new)
  OBVIOUS
<1>8. /\ lis \in Seq(FieldEntries) /\ Range(lis) = Range(b.lis) \cup Range(new)
      /\ Kept(lis, b.sel \ {Placeholder}) = Kept(b.lis, b.sel \ {Placeholder})
  <2>1. Range(new) \cap (b.sel \ {Placeholder}) = {}
    BY <1>3, <1>5 DEF Linked
  <2>. QED BY <1>2, <1>6, <1>7, <2>1, Squeezed
<1>9. PICK c : c = LisSet(b, lis)
  OBVIOUS
<1>10. BoxIs(c, lis, b.sel, b.unsel, b.created, b.custom, b.open, b.hidden)
  BY <1>8, <1>9, BoxSelf, LisOf
<1>11. PICK g : g = AddChoices(f, vs)
  OBVIOUS
<1>12. g \in FieldStates /\ g.box = c /\ g.items = f.items
  <2>1. c \in BoxType
    BY <1>10 DEF BoxIs
  <2>2. g = [f EXCEPT !.box = c]
    BY <1>1, <1>4, <1>7, <1>9, <1>11 DEF AddChoices, LisSet
  <2>. QED BY <1>0, <2>1, <2>2 DEF FieldStates
<1>13. /\ c.lis = lis /\ c.sel = b.sel /\ c.unsel = b.unsel
       /\ c.created = b.created /\ c.custom = b.custom /\ c.hidden = b.hidden
  BY <1>10 DEF BoxIs
<1>14. Linked(lis, b.sel, b.unsel, b.created, b.custom, f.items)
  <2>1. Placeholder \notin Range(new) /\ CreateItem \notin Range(new)
    BY <1>5, Apart
  <2>. QED BY <1>3, <1>8, <2>1 DEF Linked
<1>15. Shape(g)
  BY <1>12, <1>13, <1>14 DEF Shape
<1>16. c.hidden = Hidden(c)
  BY <1>1, <1>8, <1>13 DEF Good, Hidden
<1>. QED BY <1>0, <1>1, <1>11, <1>12, <1>13, <1>15, <1>16 DEF Good

\* Items of the list are removed.
LEMMA RemoveKeeps ==
    ASSUME KindOK, NEW f, Good(f), NEW gone \in SUBSET Values
    PROVE  Good(RemoveItems(f, gone)) /\ Range(RemoveItems(f, gone).items) = Range(f.items) \ gone
<1>0. f \in FieldStates /\ f.box \in BoxType /\ Chosen(f.box.sel) /\ f.items \in Seq(Values)
  BY DEF Good, Shape, FieldStates
<1>1. PICK b \in BoxType : b = f.box
  BY <1>0
<1>2. /\ b.lis \in Seq(FieldEntries)
      /\ b.unsel \in SUBSET (Values \cup {CreateItem})
      /\ b.custom \in SUBSET Values
  BY BoxFields
<1>3. Linked(b.lis, b.sel, b.unsel, b.created, b.custom, f.items)
  BY <1>1 DEF Good, Shape
<1>4. PICK typed : typed = b.custom \cap gone
  OBVIOUS
<1>5. b.sel \cap typed = {}
  <2>1. CASE kind.list
    <3>1. b.sel = {Placeholder}
      BY <1>1, <2>1 DEF Good
    <3>. QED BY <1>2, <1>4, <3>1, Apart
  <2>2. CASE ~ kind.list
    <3>1. Range(f.items) = {}
      <4>1. f.items = <<>>
        BY <1>3, <2>2 DEF Linked
      <4>. QED BY <4>1 DEF Range
    <3>2. b.unsel \subseteq {CreateItem} /\ b.custom \subseteq b.unsel
      BY <1>3, <3>1 DEF Linked
    <3>. QED BY <1>2, <1>4, <3>2, Apart
  <2>. QED BY <2>1, <2>2
<1>6. PICK lis : lis = Without(b.lis, typed)
  OBVIOUS
<1>7. /\ lis \in Seq(FieldEntries) /\ Range(lis) = Range(b.lis) \ typed
      /\ Kept(lis, b.sel \ {Placeholder}) = Kept(b.lis, b.sel \ {Placeholder})
  <2>1. (b.sel \ {Placeholder}) \cap typed = {}
    BY <1>5
  <2>. QED BY <1>2, <1>6, <2>1, WithoutType
<1>8. PICK q : q = Without(f.items, gone)
  OBVIOUS
<1>9. q \in Seq(Values) /\ Range(q) = Range(f.items) \ gone /\ IsInjective(q)
  <2>1. IsInjective(f.items)
    BY <1>3 DEF Linked
  <2>. QED BY <1>0, <1>8, <2>1, WithoutType
<1>10. PICK c : c = CustomSet(UnselSet(LisSet(b, lis), b.unsel \ gone), b.custom \ gone)
  OBVIOUS
<1>11. BoxIs(c, lis, b.sel, b.unsel \ gone, b.created, b.custom \ gone, b.open, b.hidden)
  <2>1. b.unsel \ gone \in SUBSET (Values \cup {CreateItem}) /\ b.custom \ gone \in SUBSET Values
    BY <1>2
  <2>2. PICK b1 : b1 = LisSet(b, lis)
    OBVIOUS
  <2>3. BoxIs(b1, lis, b.sel, b.unsel, b.created, b.custom, b.open, b.hidden)
    BY <1>7, <2>2, BoxSelf, LisOf
  <2>4. PICK b2 : b2 = UnselSet(b1, b.unsel \ gone)
    OBVIOUS
  <2>5. BoxIs(b2, lis, b.sel, b.unsel \ gone, b.created, b.custom, b.open, b.hidden)
    BY <2>1, <2>3, <2>4, UnselOf
  <2>6. c = CustomSet(b2, b.custom \ gone)
    BY <1>10, <2>2, <2>4
  <2>. QED BY <2>1, <2>5, <2>6, CustomOf
<1>12. PICK g : g = RemoveItems(f, gone)
  OBVIOUS
<1>13. g \in FieldStates /\ g.box = c /\ g.items = q
  <2>1. c \in BoxType
    BY <1>11 DEF BoxIs
  <2>2. [b EXCEPT !.lis = lis, !.unsel = b.unsel \ gone, !.custom = b.custom \ gone] = c
    BY <1>10 DEF CustomSet, UnselSet, LisSet
  <2>3. g = [box |-> c, items |-> q]
    BY <1>1, <1>4, <1>6, <1>8, <1>12, <2>2 DEF RemoveItems
  <2>. QED BY <1>9, <2>1, <2>3 DEF FieldStates
<1>14. /\ c.lis = lis /\ c.sel = b.sel /\ c.unsel = b.unsel \ gone
       /\ c.created = b.created /\ c.custom = b.custom \ gone /\ c.hidden = b.hidden
  BY <1>11 DEF BoxIs
<1>15. Linked(lis, b.sel, b.unsel \ gone, b.created, b.custom \ gone, q)
  <2>1. Placeholder \notin gone /\ CreateItem \notin gone
    BY Apart
  <2>2. b.sel \subseteq Range(lis) /\ b.unsel \ gone \subseteq Range(lis)
    BY <1>3, <1>4, <1>5, <1>7 DEF Linked
  <2>3. CreateItem \in Range(lis) => CreateItem \in b.unsel \ gone
    BY <1>3, <1>7, <2>1 DEF Linked
  <2>4. Placeholder \in Range(lis) <=> (~ kind.multiple /\ kind.optional)
    BY <1>3, <1>4, <1>7, <2>1 DEF Linked
  <2>5. ~ kind.list => q = <<>>
    <3>1. ~ kind.list => Range(f.items) = {}
      <4>1. ~ kind.list => f.items = <<>>
        BY <1>3 DEF Linked
      <4>. QED BY <4>1 DEF Range
    <3>2. q = <<>> <=> Range(q) = {}
      BY <1>9, RangeOf
    <3>. QED BY <1>9, <3>1, <3>2
  <2>6. /\ (b.unsel \ gone) \ {CreateItem} \subseteq Range(q)
        /\ b.custom \ gone \subseteq b.unsel \ gone
        /\ b.created \cap (b.unsel \ gone) = {}
    BY <1>3, <1>9 DEF Linked
  <2>. QED BY <1>9, <2>2, <2>3, <2>4, <2>5, <2>6 DEF Linked
<1>16. Shape(g)
  BY <1>13, <1>14, <1>15 DEF Shape
<1>17. c.hidden = Hidden(c)
  BY <1>1, <1>7, <1>14 DEF Good, Hidden
<1>18. kind.list => b.sel = {Placeholder}
  BY <1>1 DEF Good
<1>. QED BY <1>0, <1>1, <1>9, <1>12, <1>13, <1>14, <1>16, <1>17, <1>18 DEF Good

\* The view sets the value of a list.
LEMMA SetListKeeps ==
    ASSUME KindOK, kind.list, NEW f, Good(f), NEW q \in Seq(Values), IsInjective(q)
    PROVE  Good(SetList(f, q))
<1>1. PICK r : r = RemoveItems(f, Range(f.items))
  OBVIOUS
<1>2. Good(r) /\ Range(r.items) = {}
  <2>1. f.items \in Seq(Values)
    BY DEF Good, Shape, FieldStates
  <2>2. Range(f.items) \in SUBSET Values
    BY <2>1, RangeOf
  <2>3. Good(r) /\ Range(r.items) = Range(f.items) \ Range(f.items)
    BY <1>1, <2>2, RemoveKeeps
  <2>. QED BY <2>3
<1>3. PICK g : g = SetList(f, q)
  OBVIOUS
<1>4. r \in FieldStates
  BY <1>2 DEF Good, Shape
<1>5. g \in FieldStates /\ g.box = r.box /\ g.items = q
  <2>1. g = [r EXCEPT !.items = q]
    BY <1>1, <1>3 DEF SetList
  <2>. QED BY <1>4, <2>1 DEF FieldStates
<1>6. PICK b : b = r.box
  OBVIOUS
<1>7. Linked(b.lis, b.sel, b.unsel, b.created, b.custom, r.items)
  BY <1>2, <1>6 DEF Good, Shape
<1>8. Linked(b.lis, b.sel, b.unsel, b.created, b.custom, q)
  BY <1>2, <1>7 DEF Linked
<1>9. Shape(g)
  BY <1>5, <1>6, <1>8 DEF Shape
<1>. QED BY <1>2, <1>3, <1>5, <1>9 DEF Good

\* The entries that a field is rendered with.
PlaceOf(k) == IF ~k.multiple /\ k.optional THEN <<Placeholder>> ELSE <<>>
ExtraOf(k, vs) == IF k.create THEN SetToSeq(vs \ Range(Preset)) \o <<CreateItem>> ELSE <<>>

\* Two lists of entries one after the other.
LEMMA Chained ==
    ASSUME NEW X, NEW p \in Seq(X), NEW q \in Seq(X)
    PROVE  /\ p \o q \in Seq(X) /\ Range(p \o q) = Range(p) \cup Range(q)
           /\ p # <<>> => (p \o q)[1] = p[1]
<1>1. PICK n \in Nat : n = Len(p) /\ DOMAIN p = 1..n
  OBVIOUS
<1>2. PICK k \in Nat : k = Len(q) /\ DOMAIN q = 1..k
  OBVIOUS
<1>3. PICK r : r = p \o q
  OBVIOUS
<1>4. /\ r \in Seq(X) /\ DOMAIN r = 1..(n + k)
      /\ \A i \in 1..n : r[i] = p[i]
      /\ \A i \in 1..k : r[n + i] = q[i]
  BY <1>1, <1>2, <1>3
<1>5. \A i \in 1..(n + k) : i \in 1..n \/ \E j \in 1..k : i = n + j
  <2>. TAKE i \in 1..(n + k)
  <2>1. i \in 1..n \/ i - n \in 1..k
    OBVIOUS
  <2>2. i = n + (i - n)
    OBVIOUS
  <2>. QED BY <2>1, <2>2
<1>6. \A i \in 1..n : i \in 1..(n + k)
  OBVIOUS
<1>7. \A i \in 1..k : n + i \in 1..(n + k)
  OBVIOUS
<1>8. \A v : v \in Range(r) <=> v \in Range(p) \cup Range(q)
  <2>1. ASSUME NEW i \in 1..(n + k) PROVE r[i] \in Range(p) \cup Range(q)
    <3>1. CASE i \in 1..n
      <4>1. r[i] = p[i] /\ i \in DOMAIN p
        BY <1>1, <1>4, <3>1
      <4>. QED BY <4>1 DEF Range
    <3>2. CASE \E j \in 1..k : i = n + j
      <4>1. PICK j \in 1..k : i = n + j
        BY <3>2
      <4>2. r[i] = q[j] /\ j \in DOMAIN q
        BY <1>2, <1>4, <4>1
      <4>. QED BY <4>2 DEF Range
    <3>. QED BY <1>5, <3>1, <3>2
  <2>2. ASSUME NEW i \in 1..n PROVE p[i] \in Range(r)
    <3>1. r[i] = p[i] /\ i \in DOMAIN r
      BY <1>4, <1>6
    <3>. QED BY <3>1 DEF Range
  <2>3. ASSUME NEW i \in 1..k PROVE q[i] \in Range(r)
    <3>1. r[n + i] = q[i] /\ n + i \in DOMAIN r
      BY <1>4, <1>7
    <3>. QED BY <3>1 DEF Range
  <2>4. \A v : v \in Range(r) => v \in Range(p) \cup Range(q)
    BY <1>4, <2>1 DEF Range
  <2>5. \A v : v \in Range(p) => v \in Range(r)
    BY <1>1, <2>2 DEF Range
  <2>6. \A v : v \in Range(q) => v \in Range(r)
    BY <1>2, <2>3 DEF Range
  <2>. QED BY <2>4, <2>5, <2>6
<1>9. p # <<>> => 1 \in 1..n
  BY <1>1
<1>10. Range(r) = Range(p) \cup Range(q)
  BY ONLY <1>8
<1>11. p # <<>> => r[1] = p[1]
  BY <1>4, <1>9
<1>. QED BY <1>3, <1>4, <1>10, <1>11

\* What they are.
RenderedLis(k, vs) == PlaceOf(k) \o Preset \o ExtraOf(k, vs)

\* A rendered field has a placeholder if it is optional and for one value, and an
\* input for other values if these can be created.
LEMMA RenderedEntries ==
    ASSUME NEW k, k.create \in BOOLEAN, NEW vs \in SUBSET Values
    PROVE  /\ RenderedLis(k, vs) \in Seq(FieldEntries)
           /\ Placeholder \in Range(RenderedLis(k, vs)) <=> (~k.multiple /\ k.optional)
           /\ CreateItem \in Range(RenderedLis(k, vs)) <=> k.create
           /\ ~k.multiple /\ k.optional => RenderedLis(k, vs)[1] = Placeholder
<1>1. PICK place : place = PlaceOf(k)
  OBVIOUS
<1>2. /\ place \in Seq(FieldEntries)
      /\ Range(place) = IF ~k.multiple /\ k.optional THEN {Placeholder} ELSE {}
      /\ ~k.multiple /\ k.optional => place # <<>> /\ place[1] = Placeholder
  <2>1. CASE ~k.multiple /\ k.optional
    <3>1. place = <<Placeholder>>
      BY <1>1, <2>1 DEF PlaceOf
    <3>2. Range(<<Placeholder>>) = {Placeholder}
      BY DEF Range
    <3>3. <<Placeholder>> \in Seq(FieldEntries) /\ <<Placeholder>> # <<>> /\ <<Placeholder>>[1] = Placeholder
      BY DEF FieldEntries
    <3>. QED BY <2>1, <3>1, <3>2, <3>3
  <2>2. CASE ~ (~k.multiple /\ k.optional)
    <3>1. place = <<>>
      BY <1>1, <2>2 DEF PlaceOf
    <3>2. Range(<<>>) = {} /\ <<>> \in Seq(FieldEntries)
      BY DEF Range
    <3>. QED BY <2>2, <3>1, <3>2
  <2>. QED BY <2>1, <2>2
<1>3. Preset \in Seq(Values) /\ Range(Preset) \subseteq Values
  BY ChoicesOf, RangeOf
<1>4. Preset \in Seq(FieldEntries)
  <2>1. Range(Preset) \subseteq FieldEntries
    BY <1>3 DEF FieldEntries
  <2>. QED BY <1>3, <2>1, SeqOfFewer
<1>5. PICK typed : typed = vs \ Range(Preset)
  OBVIOUS
<1>6. typed \subseteq Values /\ IsFiniteSet(typed)
  BY <1>5, ValuesFinite, FS_Subset
<1>7. PICK q : q = SetToSeq(typed)
  OBVIOUS
<1>8. q \in Seq(FieldEntries) /\ Range(q) = typed
  <2>1. q \in Seq(typed) /\ Range(q) = typed
    BY <1>6, <1>7, AsList
  <2>2. typed \subseteq FieldEntries
    BY <1>6 DEF FieldEntries
  <2>. QED BY <2>1, <2>2, SeqOfFewer
<1>9. PICK c : c = <<CreateItem>>
  OBVIOUS
<1>10. c \in Seq(FieldEntries) /\ Range(c) = {CreateItem}
  BY <1>9 DEF FieldEntries, Range
<1>11. PICK extra : extra = ExtraOf(k, vs)
  OBVIOUS
<1>12. extra \in Seq(FieldEntries) /\ Range(extra) = IF k.create THEN typed \cup {CreateItem} ELSE {}
  <2>1. q \o c \in Seq(FieldEntries) /\ Range(q \o c) = typed \cup {CreateItem}
    BY <1>8, <1>10, Chained
  <2>2. CASE k.create
    BY <1>5, <1>7, <1>9, <1>11, <2>1, <2>2 DEF ExtraOf
  <2>3. CASE ~ k.create
    <3>1. extra = <<>>
      BY <1>11, <2>3 DEF ExtraOf
    <3>2. <<>> \in Seq(FieldEntries) /\ Range(<<>>) = {}
      BY DEF Range
    <3>. QED BY <2>3, <3>1, <3>2
  <2>. QED BY <2>2, <2>3
<1>13. PICK p : p = place \o Preset
  OBVIOUS
<1>14. /\ p \in Seq(FieldEntries) /\ Range(p) = Range(place) \cup Range(Preset)
       /\ place # <<>> => p[1] = place[1]
  BY <1>2, <1>4, <1>13, Chained
<1>15. PICK lis : lis = p \o extra
  OBVIOUS
<1>16. /\ lis \in Seq(FieldEntries) /\ Range(lis) = Range(p) \cup Range(extra)
       /\ p # <<>> => lis[1] = p[1]
  BY <1>12, <1>14, <1>15, Chained
<1>17. RenderedLis(k, vs) = lis
  BY <1>1, <1>11, <1>13, <1>15 DEF RenderedLis
<1>18. place # <<>> => p # <<>>
  <2>1. place # <<>> => Range(place) # {}
    BY <1>2, RangeOf
  <2>2. p = <<>> => Range(p) = {}
    BY <1>14, RangeOf
  <2>. QED BY <1>14, <2>1, <2>2
<1>19. Placeholder \in Range(lis) <=> (~k.multiple /\ k.optional)
  BY <1>2, <1>3, <1>6, <1>12, <1>14, <1>16, Apart
<1>20. CreateItem \in Range(lis) <=> k.create
  BY <1>2, <1>3, <1>6, <1>12, <1>14, <1>16, Apart
<1>21. ~k.multiple /\ k.optional => lis[1] = Placeholder
  BY <1>2, <1>14, <1>16, <1>18
<1>. QED BY <1>16, <1>17, <1>19, <1>20, <1>21

\* What is selected at first.
RenderedSel(k, vs, lis) ==
    IF k.multiple THEN Range(Kept(lis, vs))
    ELSE IF Kept(lis, vs) # <<>> THEN {Kept(lis, vs)[1]} ELSE {lis[1]}

OneOrMore(k, sel) == ~ k.multiple => \E v : sel = {v}

\* A rendered field selects entries it has, and exactly one if it is for one value.
LEMMA RenderedChoice ==
    ASSUME NEW k, NEW vs, NEW lis \in Seq(FieldEntries), lis # <<>> \/ k.multiple
    PROVE  /\ RenderedSel(k, vs, lis) \subseteq Range(lis)
           /\ OneOrMore(k, RenderedSel(k, vs, lis))
           /\ ~ k.multiple /\ vs = {} => RenderedSel(k, vs, lis) = {lis[1]}
<1>1. PICK marked : marked = Kept(lis, vs)
  OBVIOUS
<1>2. marked \in Seq(FieldEntries) /\ Range(marked) = Range(lis) \cap vs
  BY <1>1, KeptType
<1>3. marked # <<>> => marked[1] \in Range(marked)
  BY <1>2, RangeOf
<1>4. marked = <<>> <=> Range(marked) = {}
  BY <1>2, RangeOf
<1>5. lis # <<>> => lis[1] \in Range(lis)
  BY RangeOf
<1>. QED BY <1>1, <1>2, <1>3, <1>4, <1>5 DEF RenderedSel, OneOrMore

OpenedUp(f) == [f EXCEPT !.box.open = TRUE]

\* To open a field changes nothing else.
LEMMA OpenedShape ==
    ASSUME NEW f, Shape(f)
    PROVE  /\ Shape(OpenedUp(f)) /\ OpenedUp(f).box.sel = f.box.sel
           /\ OpenedUp(f).box.lis = f.box.lis /\ OpenedUp(f).items = f.items
           /\ OpenedUp(f).box.hidden = f.box.hidden /\ OpenedUp(f).box.unsel = f.box.unsel
<1>1. f \in FieldStates /\ f.box \in BoxType
  BY DEF Shape, FieldStates
<1>2. PICK b \in BoxType : b = f.box
  BY <1>1
<1>3. BoxIs(b, b.lis, b.sel, b.unsel, b.created, b.custom, b.open, b.hidden)
  BY BoxSelf
<1>5. PICK c : c = OpenSet(b, TRUE)
  OBVIOUS
<1>6. BoxIs(c, b.lis, b.sel, b.unsel, b.created, b.custom, TRUE, b.hidden)
  BY <1>3, <1>5, OpenOf
<1>7. PICK g : g = OpenedUp(f)
  OBVIOUS
<1>8. g \in FieldStates /\ g.box = c /\ g.items = f.items
  <2>1. c \in BoxType
    BY <1>6 DEF BoxIs
  <2>2. g = [f EXCEPT !.box = c]
    BY <1>2, <1>5, <1>7 DEF OpenedUp, OpenSet
  <2>. QED BY <1>1, <2>1, <2>2 DEF FieldStates
<1>9. Linked(b.lis, b.sel, b.unsel, b.created, b.custom, f.items)
  BY <1>2 DEF Shape
<1>. QED BY <1>2, <1>6, <1>7, <1>8, <1>9 DEF Shape, BoxIs

\* A field that opens stays in line.
LEMMA OpenedGood ==
    ASSUME NEW f, Good(f)
    PROVE  Good(OpenedUp(f))
<1>1. PICK g : g = OpenedUp(f)
  OBVIOUS
<1>2. /\ Shape(g) /\ g.box.sel = f.box.sel /\ g.box.lis = f.box.lis /\ g.items = f.items
      /\ g.box.hidden = f.box.hidden
  BY <1>1, OpenedShape DEF Good
<1>3. Hidden(g.box) = Hidden(f.box)
  BY <1>2 DEF Hidden
<1>. QED BY <1>1, <1>2, <1>3 DEF Good

\* A field that was rendered is in line.
LEMMA RenderedGood ==
    ASSUME KindOK, NEW vs \in SUBSET Values, NEW q \in Seq(Values), IsInjective(q),
           kind.list => vs = {}, ~ kind.list => q = <<>>,
           NEW b, b = Rendered(kind, vs), kind.optional \/ b.hidden # <<>>
    PROVE  Good([box |-> b, items |-> q])
<1>1. PICK k : k = kind
  OBVIOUS
<1>2. /\ k \in [multiple : BOOLEAN, optional : BOOLEAN, create : BOOLEAN, list : BOOLEAN]
      /\ k.list => ~ k.multiple /\ k.optional /\ k.create
  BY <1>1, ListKind DEF KindOK
<1>3. PICK lis : lis = RenderedLis(k, vs)
  OBVIOUS
<1>4. /\ lis \in Seq(FieldEntries)
      /\ Placeholder \in Range(lis) <=> (~k.multiple /\ k.optional)
      /\ CreateItem \in Range(lis) <=> k.create
      /\ ~k.multiple /\ k.optional => lis[1] = Placeholder
  BY <1>2, <1>3, RenderedEntries
<1>5. PICK sel : sel = RenderedSel(k, vs, lis)
  OBVIOUS
<1>6. PICK unsel : unsel = IF k.create THEN {CreateItem} ELSE {}
  OBVIOUS
<1>7. PICK a : a = [lis |-> lis, sel |-> sel, unsel |-> unsel,
                    created |-> {}, custom |-> {}, open |-> FALSE, hidden |-> <<>>]
  OBVIOUS
<1>8. PICK h : h = Hidden(a)
  OBVIOUS
<1>9. h = Kept(lis, sel \ {Placeholder})
  BY <1>7, <1>8 DEF Hidden
<1>10. b = [lis |-> lis, sel |-> sel, unsel |-> unsel,
            created |-> {}, custom |-> {}, open |-> FALSE, hidden |-> h]
  <2>1. b = Saved(a)
    BY <1>1, <1>3, <1>5, <1>6, <1>7 DEF Rendered, RenderedLis, RenderedSel, PlaceOf, ExtraOf
  <2>. QED BY <1>7, <1>8, <2>1 DEF Saved
<1>11. Range(h) = Range(lis) \cap (sel \ {Placeholder}) /\ h \in Seq(FieldEntries)
  BY <1>4, <1>9, KeptType
<1>12. lis # <<>> \/ k.multiple
  <2>1. CASE k.multiple \/ k.optional
    <3>1. Range(<<>>) = {}
      BY DEF Range
    <3>. QED BY <1>4, <2>1, <3>1
  <2>2. CASE ~ (k.multiple \/ k.optional)
    <3>1. h # <<>>
      BY <1>1, <1>10, <2>2
    <3>2. Range(h) # {}
      BY <1>11, <3>1, RangeOf
    <3>3. Range(<<>>) = {}
      BY DEF Range
    <3>. QED BY <1>11, <3>2, <3>3
  <2>. QED BY <2>1, <2>2
<1>13. /\ sel \subseteq Range(lis)
       /\ ~ k.multiple => \E v : sel = {v}
       /\ ~ k.multiple /\ vs = {} => sel = {lis[1]}
  <2>1. /\ RenderedSel(k, vs, lis) \subseteq Range(lis)
        /\ OneOrMore(k, RenderedSel(k, vs, lis))
        /\ ~ k.multiple /\ vs = {} => RenderedSel(k, vs, lis) = {lis[1]}
    BY ONLY <1>4, <1>12, RenderedChoice
  <2>. QED BY <1>5, <2>1 DEF OneOrMore
<1>14. Range(lis) \subseteq FieldEntries
  BY <1>4, RangeOf
<1>15. h \in Seq(Values \cup {CreateItem}) /\ Range(h) = sel \ {Placeholder}
  <2>1. Range(h) = sel \ {Placeholder}
    BY <1>11, <1>13
  <2>2. sel \ {Placeholder} \subseteq Values \cup {CreateItem}
    BY <1>13, <1>14 DEF FieldEntries
  <2>. QED BY <1>11, <2>1, <2>2, SeqOfFewer
<1>16. b \in BoxType
  <2>1. sel \in SUBSET (Values \cup {Placeholder, CreateItem})
    BY <1>13, <1>14 DEF FieldEntries
  <2>2. unsel \in SUBSET (Values \cup {CreateItem})
    BY <1>6
  <2>3. PICK none \in SUBSET Values : none = {}
    OBVIOUS
  <2>4. PICK open \in BOOLEAN : open = FALSE
    OBVIOUS
  <2>5. b = [lis |-> lis, sel |-> sel, unsel |-> unsel, created |-> none, custom |-> none,
             open |-> open, hidden |-> h]
    BY <1>10, <2>3, <2>4
  <2>6. [lis |-> lis, sel |-> sel, unsel |-> unsel, created |-> none, custom |-> none,
         open |-> open, hidden |-> h] \in BoxType
    BY ONLY <1>4, <1>15, <2>1, <2>2, <2>3, <2>4, BoxOf
  <2>. QED BY ONLY <2>5, <2>6
<1>17. /\ b.lis = lis /\ b.sel = sel /\ b.unsel = unsel /\ b.created = {} /\ b.custom = {}
       /\ b.hidden = h
  BY <1>10
<1>18. Linked(lis, sel, unsel, {}, {}, q)
  <2>1. unsel \subseteq {CreateItem} /\ (CreateItem \in unsel <=> k.create)
    BY <1>6
  <2>2. unsel \subseteq Range(lis)
    BY <1>4, <2>1
  <2>. QED BY <1>1, <1>4, <1>13, <2>1, <2>2 DEF Linked
<1>19. kind.list => sel = {Placeholder}
  BY <1>1, <1>2, <1>4, <1>13
<1>20. Chosen(sel)
  <2>1. kind.optional \/ sel \ {Placeholder} # {}
    <3>1. kind.optional \/ h # <<>>
      BY <1>17
    <3>2. h # <<>> => Range(h) # {}
      BY <1>11, RangeOf
    <3>. QED BY <1>15, <3>1, <3>2
  <2>2. kind.list => CreateItem \notin sel
    BY <1>19, Apart
  <2>. QED BY <1>1, <1>13, <2>1, <2>2 DEF Chosen
<1>21. Hidden(b) = h
  BY <1>9, <1>17 DEF Hidden
<1>22. PICK g : g = [box |-> b, items |-> q]
  OBVIOUS
<1>23. g.box = b /\ g.items = q /\ g \in FieldStates
  BY <1>16, <1>22 DEF FieldStates
<1>24. Shape(g)
  BY <1>17, <1>18, <1>23 DEF Shape
<1>. QED BY <1>17, <1>19, <1>20, <1>21, <1>22, <1>23, <1>24 DEF Good

\* Nothing is listed twice in no list.
LEMMA NoItems == <<>> \in Seq(Values) /\ IsInjective(<<>>)
BY DEF IsInjective

\* A field is in line at first, ...
LEMMA FieldStart == FieldInit => FieldInv
<1>. SUFFICES ASSUME FieldInit PROVE FieldInv
  OBVIOUS
<1>1. KindOK
  BY DropdownAssumption DEF FieldInit, KindOK
<1>2. PICK vs \in SUBSET Values :
        /\ box = Rendered(kind, IF kind.list THEN {} ELSE vs)
        /\ kind.optional \/ box.hidden # <<>>
        /\ items = IF kind.list THEN SetToSeq(vs) ELSE <<>>
  BY DEF FieldInit
<1>3. PICK ws : ws = IF kind.list THEN {} ELSE vs
  OBVIOUS
<1>4. PICK q : q = items
  OBVIOUS
<1>5. q \in Seq(Values) /\ IsInjective(q) /\ (~ kind.list => q = <<>>)
  <2>1. IsFiniteSet(vs)
    BY ValuesFinite, FS_Subset
  <2>2. SetToSeq(vs) \in Seq(vs) /\ Range(SetToSeq(vs)) = vs /\ IsInjective(SetToSeq(vs))
    BY <2>1, AsList
  <2>3. SetToSeq(vs) \in Seq(Values)
    BY <2>2, SeqOfFewer
  <2>. QED BY <1>2, <1>4, <2>2, <2>3, NoItems
<1>6. PICK b : b = box
  OBVIOUS
<1>7. ws \in SUBSET Values /\ (kind.list => ws = {}) /\ b = Rendered(kind, ws)
      /\ (kind.optional \/ b.hidden # <<>>)
  BY <1>2, <1>3, <1>6
<1>8. Good([box |-> b, items |-> q])
  BY <1>1, <1>5, <1>7, RenderedGood
<1>. QED BY <1>1, <1>4, <1>6, <1>8 DEF FieldInv, Field

\* ... and if there is none, nothing is out of line.
LEMMA NoFieldStart == NoField => FieldInv
<1>. SUFFICES ASSUME NoField PROVE FieldInv
  OBVIOUS
<1>1. kind = DynamicList /\ KindOK /\ kind.list /\ ~ kind.multiple /\ kind.optional
  BY DEF NoField, KindOK, DynamicList, Combobox
<1>2. PICK p : p = <<Placeholder>>
  OBVIOUS
<1>3. p \in Seq(FieldEntries) /\ Range(p) = {Placeholder}
  BY <1>2 DEF FieldEntries, Range
<1>4. PICK b : b = box
  OBVIOUS
<1>5. b = [lis |-> p, sel |-> {Placeholder}, unsel |-> {}, created |-> {}, custom |-> {},
           open |-> FALSE, hidden |-> <<>>]
  BY <1>2, <1>4 DEF NoField
<1>6. b \in BoxType
  <2>1. {Placeholder} \in SUBSET (Values \cup {Placeholder, CreateItem})
    OBVIOUS
  <2>2. <<>> \in Seq(Values \cup {CreateItem})
    OBVIOUS
  <2>. QED BY <1>3, <1>5, <2>1, <2>2, BoxOf
<1>7. /\ b.lis = p /\ b.sel = {Placeholder} /\ b.unsel = {} /\ b.created = {} /\ b.custom = {}
      /\ b.hidden = <<>>
  BY <1>5
<1>8. PICK g : g = Field
  OBVIOUS
<1>9. g.box = b /\ g.items = <<>> /\ g \in FieldStates
  BY <1>4, <1>6, <1>8, NoItems DEF NoField, Field, FieldStates
<1>10. Linked(p, {Placeholder}, {}, {}, {}, <<>>)
  BY <1>1, <1>3, NoItems, Apart DEF Linked
<1>11. Shape(g)
  BY <1>7, <1>9, <1>10 DEF Shape
<1>12. Hidden(b) = <<>>
  <2>1. Hidden(b) \in Seq(Values \cup {CreateItem}) /\ Range(Hidden(b)) = {}
    BY <1>3, <1>6, <1>7, HiddenType
  <2>. QED BY <2>1, RangeOf
<1>13. Chosen({Placeholder})
  BY <1>1, Apart DEF Chosen
<1>. QED BY <1>1, <1>7, <1>8, <1>9, <1>11, <1>12, <1>13 DEF FieldInv, Good

\* What the field becomes is what it is next.
LEMMA Becomes ==
    ASSUME KindOK, NEW f, Good(f), Become(f)
    PROVE  FieldInv'
<1>1. kind' = kind /\ box' = f.box /\ items' = f.items
  BY DEF Become
<1>2. f \in FieldStates /\ f = [box |-> f.box, items |-> f.items]
  BY DEF Good, Shape, FieldStates
<1>3. Field' = f
  BY <1>1, <1>2 DEF Field
<1>4. KindOK'
  BY <1>1 DEF KindOK
<1>5. Good(Field)'
  BY <1>1, <1>3 DEF Good, Shape, Chosen, Linked
<1>. QED BY <1>4, <1>5 DEF FieldInv

\* Every step keeps the field in line.
LEMMA FieldSteps == FieldInv /\ [FieldNext]_fieldVars => FieldInv'
<1>. SUFFICES ASSUME FieldInv, [FieldNext]_fieldVars PROVE FieldInv'
  OBVIOUS
<1>0. PICK f : f = Field
  OBVIOUS
<1>1. KindOK /\ Good(f) /\ f.box = box /\ f.items = items
  BY <1>0 DEF FieldInv, Field
<1>2. Shape(f) /\ Chosen(f.box.sel) /\ f \in FieldStates /\ f.items \in Seq(Values)
  BY <1>1 DEF Good, Shape, FieldStates
<1>3. Good(CloseDropdown(f))
  BY <1>1, <1>2, CloseKeeps
<1>4. CASE Open
  <2>1. PICK g : g = [f EXCEPT !.box.open = TRUE]
    OBVIOUS
  <2>2. Become(g)
    BY <1>0, <1>4, <2>1 DEF Open
  <2>3. Good(g)
    BY <1>1, <2>1, OpenedGood DEF OpenedUp
  <2>. QED BY <1>1, <2>2, <2>3, Becomes
<1>5. CASE Close
  BY <1>0, <1>1, <1>3, <1>5, Becomes DEF Close
<1>6. CASE Pick
  <2>1. PICK v \in Range(box.lis) : Become(ToggleItem(f, v, "toggle"))
    BY <1>0, <1>6 DEF Pick
  <2>2. Good(ToggleItem(f, v, "toggle"))
    BY <1>1, <2>1, ToggleKeeps
  <2>. QED BY <1>1, <2>1, <2>2, Becomes
<1>7. CASE Enter
  <2>1. PICK v \in Range(box.lis) :
          Become(CloseDropdown(IF v \in box.sel THEN f ELSE ToggleItem(f, v, "toggle")))
    BY <1>0, <1>7 DEF Enter
  <2>2. PICK g : g = IF v \in box.sel THEN f ELSE ToggleItem(f, v, "toggle")
    OBVIOUS
  <2>3. Good(g)
    <3>1. Good(ToggleItem(f, v, "toggle"))
      BY <1>1, <2>1, ToggleKeeps
    <3>. QED BY <1>1, <2>2, <3>1
  <2>4. Good(CloseDropdown(g))
    <3>1. Shape(g) /\ Chosen(g.box.sel)
      BY <2>3 DEF Good
    <3>. QED BY <1>1, <2>3, <3>1, CloseKeeps
  <2>5. Become(CloseDropdown(g))
    BY <2>1, <2>2
  <2>. QED BY <1>1, <2>4, <2>5, Becomes
<1>8. CASE Create
  <2>1. PICK v \in Typed : Become(CreateItems(f, v))
    BY <1>0, <1>8 DEF Create
  <2>2. v \in Values
    BY <2>1, ChoicesOf
  <2>3. Good(CreateItems(f, v))
    BY <1>1, <2>2, CreateKeeps
  <2>. QED BY <1>1, <2>1, <2>3, Becomes
<1>9. CASE Assign
  <2>1. PICK vs \in SUBSET (IF kind.create THEN Values ELSE Range(Preset \o More)) :
          IF kind.list THEN Become(SetList(f, SetToSeq(vs))) ELSE Become(SetValue(f, vs))
    BY <1>0, <1>9 DEF Assign
  <2>2. vs \in SUBSET Values
    BY <2>1 DEF Values
  <2>3. CASE kind.list
    <3>1. IsFiniteSet(vs)
      BY <2>2, ValuesFinite, FS_Subset
    <3>2. PICK q : q = SetToSeq(vs)
      OBVIOUS
    <3>3. q \in Seq(vs) /\ Range(q) = vs /\ IsInjective(q)
      BY <3>1, <3>2, AsList
    <3>4. q \in Seq(Values)
      BY <2>2, <3>3, SeqOfFewer
    <3>5. Good(SetList(f, q))
      BY <1>1, <2>3, <3>3, <3>4, SetListKeeps
    <3>6. Become(SetList(f, q))
      BY <2>1, <2>3, <3>2
    <3>. QED BY <1>1, <3>5, <3>6, Becomes
  <2>4. CASE ~ kind.list
    <3>1. Good(SetValue(f, vs))
      BY <1>1, <2>2, SetValueKeeps
    <3>2. Become(SetValue(f, vs))
      BY <2>1, <2>4
    <3>. QED BY <1>1, <3>1, <3>2, Becomes
  <2>. QED BY <2>3, <2>4
<1>10. CASE Offer
  <2>1. PICK g : g = ClearChoices(f)
    OBVIOUS
  <2>2. Good(g)
    BY <1>1, <2>1, ClearKeeps
  <2>3. Good(AddChoices(g, More))
    BY <1>1, <2>2, ChoicesOf, AddKeeps
  <2>4. Become(AddChoices(g, More))
    BY <1>0, <1>10, <2>1 DEF Offer
  <2>. QED BY <1>1, <2>3, <2>4, Becomes
<1>11. CASE RemoveValue
  <2>1. PICK v \in Range(items) : Become(CloseDropdown(RemoveItems(f, {v})))
    BY <1>0, <1>11 DEF RemoveValue
  <2>2. {v} \in SUBSET Values
    <3>1. Range(f.items) \subseteq Values
      BY <1>2, RangeOf
    <3>. QED BY <1>1, <2>1, <3>1
  <2>3. PICK g : g = RemoveItems(f, {v})
    OBVIOUS
  <2>4. Good(g)
    BY <1>1, <2>2, <2>3, RemoveKeeps
  <2>5. Good(CloseDropdown(g))
    <3>1. Shape(g) /\ Chosen(g.box.sel)
      BY <2>4 DEF Good
    <3>. QED BY <1>1, <2>4, <3>1, CloseKeeps
  <2>6. Become(CloseDropdown(g))
    BY <2>1, <2>3
  <2>. QED BY <1>1, <2>5, <2>6, Becomes
<1>12. CASE UNCHANGED fieldVars
  <2>1. kind' = kind /\ box' = box /\ items' = items
    BY <1>12 DEF fieldVars
  <2>. QED BY <2>1 DEF FieldInv, KindOK, Good, Shape, Chosen, Linked, Field
<1>. QED
  BY <1>4, <1>5, <1>6, <1>7, <1>8, <1>9, <1>10, <1>11, <1>12 DEF FieldNext

\* A field that is in line holds what it shows.
LEMMA FieldSafe == FieldInv => FieldIsSelection
<1>. SUFFICES ASSUME FieldInv PROVE FieldIsSelection
  OBVIOUS
<1>0. PICK f : f = Field
  OBVIOUS
<1>1. Good(f) /\ f.box = box /\ f.items = items
  BY <1>0 DEF FieldInv, Field
<1>2. PICK b : b = box
  OBVIOUS
<1>3. Linked(b.lis, b.sel, b.unsel, b.created, b.custom, items) /\ Chosen(b.sel)
      /\ b.hidden = Hidden(b) /\ b \in BoxType
  BY <1>1, <1>2 DEF Good, Shape, FieldStates
<1>4. ~kind.multiple => Cardinality(b.sel) = 1
  <2>1. ~kind.multiple => \E v : b.sel = {v}
    BY <1>3 DEF Chosen
  <2>. QED BY <2>1, FS_Singleton
<1>5. kind.optional \/ b.hidden # <<>>
  <2>1. b.sel \subseteq Range(b.lis)
    BY <1>3 DEF Linked
  <2>2. Range(Hidden(b)) = b.sel \ {Placeholder}
    BY <1>3, <2>1, HiddenType
  <2>3. Range(<<>>) = {}
    BY DEF Range
  <2>. QED BY <1>3, <2>2, <2>3 DEF Chosen
<1>6. b.unsel \ {CreateItem} \subseteq Range(items) /\ b.custom \subseteq b.unsel /\ IsInjective(items)
  BY <1>3 DEF Linked
<1>. QED BY <1>2, <1>3, <1>4, <1>5, <1>6 DEF FieldIsSelection

\* UIDropdown, UICombobox, UIComboButton, UIDynamicList: whatever is clicked, typed, set or
\* offered in whatever order, for any values and kinds of fields, the hidden inputs are for
\* what is selected, a field for one value shows one, a required one is never empty, and an
\* entry is withheld only while the list has its value.
THEOREM FieldAlwaysSelection == PartsSpec => []FieldIsSelection
<1>1. PartsInit => FieldInv
  BY FieldStart, NoFieldStart DEF PartsInit
<1>2. FieldInv /\ [PartsNext]_<<part, fieldVars, fileVars, viewVars, rowVars, wifiVars, freqVars, ddnsVars, vars, netVars>>
        => FieldInv'
  BY FieldSteps DEF PartsNext
<1>3. FieldInv => FieldIsSelection
  BY FieldSafe
<1>. QED BY <1>1, <1>2, <1>3, PTL DEF PartsSpec

\* What a field for several values or for a file hands to the form is what it shows.
THEOREM ShownAlwaysHeld == PartsSpec => []ShownIsHeld
<1>1. FieldIsSelection /\ FileIsShown => ShownIsHeld
  BY DEF ShownIsHeld
<1>. QED BY <1>1, FieldAlwaysSelection, FileAlwaysShown, PTL

-----------------------------------------------------------------------------
(* Tables that are sorted, and groups of tabs.                             *)

\* Those that come no later than the i-th by key and place.
NoLater(K, n, i) == {j \in 1..n : K[j] < K[i] \/ (j <= i /\ ~ (K[i] < K[j]))}

\* Everyone's rank.
Ranks(K, n) == [i \in 1..n |-> Cardinality(NoLater(K, n, i))]

\* Every rank is given once, and a smaller key has a smaller one.
RankedBy(R, K, n) ==
    /\ \A i \in 1..n : R[i] \in 1..n
    /\ \A k \in 1..n : \E i \in 1..n : R[i] = k
    /\ \A i, j \in 1..n : R[i] = R[j] => i = j
    /\ \A i, j \in 1..n : R[i] < R[j] => ~ (K[j] < K[i])

\* What is ranked by key and place is ranked so.
LEMMA Ranked ==
    ASSUME NEW n \in Nat, NEW K \in [1..n -> Int]
    PROVE  RankedBy(Ranks(K, n), K, n)
<1>0. PICK R : R = [i \in 1..n |-> Cardinality(NoLater(K, n, i))]
  OBVIOUS
<1>1. IsFiniteSet(1..n) /\ Cardinality(1..n) = n
  BY FS_Interval
<1>2. \A i \in 1..n : K[i] \in Int /\ i \in Nat
  OBVIOUS
<1>3. \A i, j : j \in NoLater(K, n, i) <=>
                  j \in 1..n /\ (K[j] < K[i] \/ (j <= i /\ ~ (K[i] < K[j])))
  BY DEF NoLater
<1>4. ASSUME NEW i \in 1..n
      PROVE  /\ i \in NoLater(K, n, i) /\ IsFiniteSet(NoLater(K, n, i))
             /\ R[i] = Cardinality(NoLater(K, n, i)) /\ R[i] \in 1..n
  <2>1. i \in NoLater(K, n, i)
    BY <1>2, <1>3
  <2>2. NoLater(K, n, i) \in SUBSET (1..n)
    BY <1>3
  <2>3. IsFiniteSet(NoLater(K, n, i)) /\ Cardinality(NoLater(K, n, i)) <= n
    BY <1>1, <2>2, FS_Subset
  <2>4. Cardinality(NoLater(K, n, i)) \in Nat /\ Cardinality(NoLater(K, n, i)) # 0
    BY <2>1, <2>3, FS_CardinalityType, FS_EmptySet
  <2>5. R[i] = Cardinality(NoLater(K, n, i))
    BY <1>0
  <2>. QED BY <2>1, <2>3, <2>4, <2>5
<1>5. ASSUME NEW i \in 1..n, NEW j \in 1..n, i # j, j \in NoLater(K, n, i)
      PROVE  R[j] < R[i]
  <2>1. K[j] < K[i] \/ (j <= i /\ ~ (K[i] < K[j]))
    BY <1>3, <1>5
  <2>2. K[i] \in Int /\ K[j] \in Int /\ i \in Nat /\ j \in Nat
    BY <1>2
  <2>3. i \notin NoLater(K, n, j)
    BY <2>1, <2>2, <1>3, <1>5
  <2>4. ASSUME NEW m \in NoLater(K, n, j)
        PROVE  m \in NoLater(K, n, i)
    <3>1. m \in 1..n /\ (K[m] < K[j] \/ (m <= j /\ ~ (K[j] < K[m])))
      BY <1>3
    <3>2. K[m] \in Int /\ m \in Nat
      BY <1>2, <3>1
    <3>3. K[m] < K[i] \/ (m <= i /\ ~ (K[i] < K[m]))
      BY <2>1, <2>2, <3>1, <3>2
    <3>. QED BY <1>3, <3>1, <3>3
  <2>5. NoLater(K, n, j) \in SUBSET NoLater(K, n, i) /\ NoLater(K, n, j) # NoLater(K, n, i)
    BY <2>3, <2>4, <1>4
  <2>6. Cardinality(NoLater(K, n, j)) <= Cardinality(NoLater(K, n, i))
        /\ Cardinality(NoLater(K, n, j)) # Cardinality(NoLater(K, n, i))
    BY <1>4, <2>5, FS_Subset
  <2>7. R[i] \in 1..n /\ R[j] \in 1..n /\ R[i] = Cardinality(NoLater(K, n, i))
        /\ R[j] = Cardinality(NoLater(K, n, j))
    BY <1>4
  <2>. QED BY <2>6, <2>7
<1>6. \A i, j \in 1..n : j \in NoLater(K, n, i) \/ i \in NoLater(K, n, j)
  <2>. TAKE i, j \in 1..n
  <2>1. K[i] \in Int /\ K[j] \in Int /\ i \in Nat /\ j \in Nat
    BY <1>2
  <2>2. K[i] < K[j] \/ K[j] < K[i] \/ (~ (K[i] < K[j]) /\ ~ (K[j] < K[i]) /\ (i <= j \/ j <= i))
    BY <2>1
  <2>. QED BY <2>2, <1>3
<1>7. ASSUME NEW i \in 1..n, NEW j \in 1..n, R[i] = R[j]
      PROVE  i = j
  <2>1. R[i] \in Nat /\ R[j] \in Nat
    BY <1>4
  <2>. QED BY <1>5, <1>6, <1>7, <2>1
<1>8. ASSUME NEW i \in 1..n, NEW j \in 1..n, R[i] < R[j]
      PROVE  ~ (K[j] < K[i])
  <2>1. R[i] \in Nat /\ R[j] \in Nat
    BY <1>4
  <2>2. i # j
    BY <2>1, <1>8
  <2>3. j \notin NoLater(K, n, i)
    BY <1>5, <1>8, <2>1, <2>2
  <2>. QED BY <2>3, <1>3
<1>9. \A k \in 1..n : \E i \in 1..n : R[i] = k
  <2>1. R \in [1..n -> 1..n]
    BY <1>0, <1>4
  <2>2. R \in Injection(1..n, 1..n)
    BY <1>7, <2>1 DEF Injection, IsInjective
  <2>3. R \in Surjection(1..n, 1..n)
    BY <1>1, <2>2, FS_Injection
  <2>. QED BY <2>3 DEF Surjection
<1>. QED BY <1>0, <1>4, <1>7, <1>8, <1>9 DEF RankedBy, Ranks

\* An order by a column, and the number that it sorts a row by.
Orders == [col : Columns, desc : BOOLEAN]
KeyOf(r, s) == IF s.desc THEN 0 - SortKey[r][s.col] ELSE SortKey[r][s.col]

\* "none" is no column, and an order compares rows by their numbers.
LEMMA Compared ==
    /\ Unsorted \notin Orders
    /\ \A s \in Orders : \A r, q \in TableRows :
          KeyOf(r, s) \in Int /\ (Before(r, q, s) <=> KeyOf(r, s) < KeyOf(q, s))
<1>1. PICK r0 \in TableRows : Columns = DOMAIN SortKey[r0]
  BY LooksAssumption DEF Columns
<1>2. \A r \in TableRows : DOMAIN SortKey[r] = Columns
  BY <1>1, LooksAssumption
<1>3. "none" \notin Columns
  BY <1>1, LooksAssumption
<1>4. \A r \in TableRows : \A c \in Columns : SortKey[r][c] \in Int
  BY <1>2, LooksAssumption
<1>5. Unsorted \notin Orders
  BY <1>3 DEF Unsorted, Orders
<1>6. ASSUME NEW s \in Orders, NEW r \in TableRows, NEW q \in TableRows
      PROVE  KeyOf(r, s) \in Int /\ (Before(r, q, s) <=> KeyOf(r, s) < KeyOf(q, s))
  <2>1. s.col \in Columns /\ s.desc \in BOOLEAN
    BY DEF Orders
  <2>2. SortKey[r][s.col] \in Int /\ SortKey[q][s.col] \in Int
    BY <1>4, <2>1
  <2>. QED BY <2>1, <2>2 DEF KeyOf, Before
<1>. QED BY <1>5, <1>6

\* A sort keeps the rows and puts none behind one that comes before it.
InOrderOf(d, s) == \A i, j \in 1..Len(d) : i < j => ~ Before(d[j], d[i], s)

\* What Sorted makes of rows.
LEMMA SortedRows ==
    ASSUME NEW d \in Seq(TableRows), NEW s \in Orders
    PROVE  /\ Sorted(d, s) \in Seq(TableRows) /\ Len(Sorted(d, s)) = Len(d)
           /\ Range(Sorted(d, s)) = Range(d) /\ InOrderOf(Sorted(d, s), s)
<1>1. PICK n \in Nat : n = Len(d) /\ DOMAIN d = 1..n
  OBVIOUS
<1>0. n \in Nat
  BY <1>1
<1>2. \A i \in 1..n : d[i] \in TableRows
  BY <1>1
<1>3. PICK K : K = [i \in 1..n |-> KeyOf(d[i], s)]
  OBVIOUS
<1>4. K \in [1..n -> Int]
  BY <1>2, <1>3, Compared
<1>5. PICK R : R = [i \in 1..n |-> Cardinality(NoLater(K, n, i))]
  OBVIOUS
<1>6. /\ \A i \in 1..n : R[i] \in 1..n
      /\ \A k \in 1..n : \E i \in 1..n : R[i] = k
      /\ \A i, j \in 1..n : R[i] = R[j] => i = j
      /\ \A i, j \in 1..n : R[i] < R[j] => ~ (K[j] < K[i])
  <2>1. RankedBy(Ranks(K, n), K, n)
    BY <1>0, <1>4, Ranked
  <2>2. R = Ranks(K, n)
    BY <1>5 DEF Ranks
  <2>. QED BY <2>1, <2>2 DEF RankedBy
<1>7. \A i, j \in 1..n : Before(d[j], d[i], s) <=> K[j] < K[i]
  BY <1>2, <1>3, Compared
<1>8. \A i \in 1..n : Rank(d, s, i) = R[i]
  <2>. TAKE i \in 1..n
  <2>. DEFINE S == {j \in DOMAIN d : Before(d[j], d[i], s) \/ (j <= i /\ ~ Before(d[i], d[j], s))}
  <2>1. \A j : j \in S <=> j \in NoLater(K, n, i)
    BY <1>1, <1>7 DEF NoLater
  <2>2. S = NoLater(K, n, i)
    <3>. HIDE DEF S
    <3>. QED BY ONLY <2>1
  <2>3. Rank(d, s, i) = Cardinality(S)
    BY DEF Rank
  <2>4. R[i] = Cardinality(NoLater(K, n, i))
    BY <1>5
  <2>. QED BY ONLY <2>2, <2>3, <2>4
<1>9. PICK P : P = [k \in 1..n |-> CHOOSE i \in 1..n : Rank(d, s, i) = k]
  OBVIOUS
<1>10. \A k \in 1..n : P[k] \in 1..n /\ R[P[k]] = k
  <2>. TAKE k \in 1..n
  <2>1. \E i \in 1..n : Rank(d, s, i) = k
    BY <1>6, <1>8
  <2>2. P[k] \in 1..n /\ Rank(d, s, P[k]) = k
    BY <1>9, <2>1
  <2>. QED BY <2>2, <1>8
<1>11. Sorted(d, s) = [k \in 1..n |-> d[P[k]]]
  <2>1. s # Unsorted
    BY Compared
  <2>. QED BY <1>1, <1>9, <2>1 DEF Sorted
<1>12. PICK e : e = Sorted(d, s)
  OBVIOUS
<1>13. e \in [1..n -> TableRows] /\ \A k \in 1..n : e[k] = d[P[k]]
  BY <1>2, <1>10, <1>11, <1>12
<1>14. e \in Seq(TableRows) /\ Len(e) = n /\ DOMAIN e = 1..n
  BY <1>13
<1>15. Range(e) = Range(d)
  <2>1. ASSUME NEW i \in 1..n
        PROVE  P[R[i]] = i /\ R[i] \in 1..n
    <3>1. R[i] \in 1..n
      BY <1>6
    <3>2. P[R[i]] \in 1..n /\ R[P[R[i]]] = R[i]
      BY <1>10, <3>1
    <3>. QED BY <1>6, <3>1, <3>2
  <2>2. \A k \in 1..n : e[k] \in Range(d)
    BY <1>1, <1>10, <1>13 DEF Range
  <2>3. ASSUME NEW i \in 1..n
        PROVE  d[i] \in Range(e)
    <3>1. R[i] \in DOMAIN e /\ e[R[i]] = d[i]
      BY <1>13, <1>14, <2>1
    <3>. QED BY <3>1 DEF Range
  <2>. QED BY <1>1, <1>14, <2>2, <2>3 DEF Range
<1>16. ASSUME NEW i \in 1..n, NEW j \in 1..n, i < j
       PROVE  ~ Before(e[j], e[i], s)
  <2>1. P[i] \in 1..n /\ P[j] \in 1..n /\ R[P[i]] < R[P[j]]
    BY <1>10, <1>16
  <2>2. ~ (K[P[j]] < K[P[i]])
    BY <1>6, <2>1
  <2>. QED BY <1>7, <1>13, <2>1, <2>2
<1>. QED BY <1>1, <1>12, <1>14, <1>15, <1>16 DEF InOrderOf

\* An order, or none.
AnyOrder == Orders \cup {Unsorted}

TableType ==
    [id : BOOLEAN, sortState : AnyOrder, sortable : SUBSET Columns, data : Seq(TableRows),
     sent : Seq(TableRows), marks : [Columns -> {"", "asc", "desc"}]]

\* The first half of ViewKept, of a table t and the order o asked for.
RowsKept(t, o) ==
    /\ Len(t.data) = Len(t.sent) /\ Range(t.data) = Range(t.sent)
    /\ o = Unsorted => t.data = t.sent
    /\ (o # Unsorted /\ t.data # NoData) => InOrderOf(t.data, o) /\ t.marks = Mark(o)

\* What is stored for tables with an id is what was asked for; a table without one keeps it
\* itself.
TableInv ==
    /\ visited \in DOMAIN Pages
    /\ table \in TableType
    /\ tablesort \in [DOMAIN Pages -> AnyOrder] /\ asked.order \in [DOMAIN Pages -> AnyOrder]
    /\ table.id => asked.order = tablesort /\ table.sortState \in {Unsorted, tablesort[visited]}
    /\ ~ table.id => /\ table.sortState = asked.order[visited]
                     /\ \A p \in DOMAIN Pages : tablesort[p] = Unsorted
    /\ RowsKept(table, asked.order[visited])

\* The tabs stored are those of the page asked for; the groups on show are in their state.
TabsInv ==
    /\ visited \in DOMAIN Pages
    /\ tab = [page |-> asked.page, paths |-> tab.paths]
    /\ asked = [order |-> asked.order, page |-> asked.page, tabs |-> asked.tabs]
    /\ asked.page # "none" =>
          /\ asked.page \in DOMAIN Pages
          /\ asked.tabs \in [Pages[asked.page] -> Tabs] /\ DOMAIN tab.paths = Pages[asked.page]
          /\ \A g \in Pages[asked.page] : tab.paths[g] = asked.tabs[g]
    /\ Pages[visited] # {} => asked.page = visited
    /\ tabs \in [Pages[visited] -> [filled : SUBSET Tabs, active : Tabs, hidden : SUBSET Tabs]]
    /\ \A g \in Pages[visited] :
          tabs[g].active = asked.tabs[g] /\ tabs[g].hidden = Tabs \ tabs[g].filled

\* Another part leaves the look of the page as it is at the start.
ViewInv ==
    \/ part = "view" /\ TableInv /\ TabsInv
    \/ part # "view" /\ NoView

\* What a heading can show.
LEMMA MarkType == \A s \in AnyOrder : Mark(s) \in [Columns -> {"", "asc", "desc"}]
BY DEF Mark

\* A new table has no rows.
LEMMA NewTableType ==
    ASSUME NEW id \in BOOLEAN, NEW s \in AnyOrder, NEW o \in AnyOrder
    PROVE  /\ NewTable(id, s) \in TableType
           /\ NewTable(id, s).id = id /\ NewTable(id, s).sortState = Unsorted
           /\ RowsKept(NewTable(id, s), o)
<1>1. PICK t : t = [id |-> id, sortState |-> Unsorted, sortable |-> Sortable, data |-> NoData,
                   sent |-> NoData, marks |-> <<>>]
  OBVIOUS
<1>2. PICK m : m = [c \in Columns |-> IF c \in Sortable THEN Mark(SortState(t, s))[c] ELSE ""]
  OBVIOUS
<1>3. m \in [Columns -> {"", "asc", "desc"}]
  <2>1. SortState(t, s) \in AnyOrder
    BY <1>1 DEF SortState, AnyOrder
  <2>2. Mark(SortState(t, s)) \in [Columns -> {"", "asc", "desc"}]
    BY <2>1, MarkType
  <2>. QED BY <1>2, <2>2
<1>4. Sortable \subseteq Columns
  <2>1. PICK r \in TableRows : Columns = DOMAIN SortKey[r]
    BY LooksAssumption DEF Columns
  <2>. QED BY <2>1, LooksAssumption
<1>5. NoData \in Seq(TableRows)
  BY DEF NoData
<1>6. Unsorted \in AnyOrder
  BY DEF AnyOrder
<1>7. PICK u : u = NewTable(id, s)
  OBVIOUS
<1>8. u = [t EXCEPT !.marks = m]
  BY ONLY <1>1, <1>2, <1>7 DEF NewTable
<1>9. u = [id |-> id, sortState |-> Unsorted, sortable |-> Sortable, data |-> NoData,
           sent |-> NoData, marks |-> m]
  BY <1>1, <1>8
<1>10. u \in TableType
  BY <1>3, <1>4, <1>5, <1>6, <1>9 DEF TableType
<1>. QED BY <1>7, <1>9, <1>10 DEF RowsKept

\* What update makes of a table that is sorted by s.
UpdatedTo(u, t, d, s) ==
    /\ u \in TableType /\ u.id = t.id /\ u.sortState = t.sortState /\ u.sent = d
    /\ RowsKept(u, s)

\* The rows given are shown in the order that is active.
LEMMA UpdatedTable ==
    ASSUME NEW t \in TableType, NEW d \in Seq(TableRows), NEW store \in AnyOrder
    PROVE  UpdatedTo(Update(t, d, store), t, d, SortState(t, store))
<1>1. PICK s : s = SortState(t, store)
  OBVIOUS
<1>2. s \in AnyOrder
  BY <1>1 DEF SortState, TableType, AnyOrder
<1>3. PICK m : m = IF s = Unsorted THEN t.marks ELSE Mark(s)
  OBVIOUS
<1>4. PICK c : c = IF d = NoData THEN t.sortable ELSE Columns
  OBVIOUS
<1>5. PICK u : u = Update(t, d, store)
  OBVIOUS
<1>6. t = [id |-> t.id, sortState |-> t.sortState, sortable |-> t.sortable, data |-> t.data,
           sent |-> t.sent, marks |-> t.marks]
  BY DEF TableType
<1>7. u = [id |-> t.id, sortState |-> t.sortState, sortable |-> c, data |-> Sorted(d, s),
           sent |-> d, marks |-> m]
  BY <1>1, <1>3, <1>4, <1>5, <1>6 DEF Update
<1>8. m \in [Columns -> {"", "asc", "desc"}] /\ c \in SUBSET Columns
  BY <1>2, <1>3, <1>4, MarkType DEF TableType
<1>9. CASE s = Unsorted
  <2>1. Sorted(d, s) = d
    BY <1>9 DEF Sorted
  <2>2. u \in TableType
    BY <1>7, <1>8, <2>1 DEF TableType
  <2>. QED BY <1>1, <1>5, <1>7, <1>9, <2>1, <2>2 DEF UpdatedTo, RowsKept
<1>10. CASE s \in Orders
  <2>1. /\ Sorted(d, s) \in Seq(TableRows) /\ Len(Sorted(d, s)) = Len(d)
        /\ Range(Sorted(d, s)) = Range(d) /\ InOrderOf(Sorted(d, s), s)
    BY <1>10, SortedRows
  <2>2. u \in TableType
    BY <1>7, <1>8, <2>1 DEF TableType
  <2>3. s # Unsorted
    BY <1>10, Compared
  <2>. QED BY <1>1, <1>3, <1>5, <1>7, <2>1, <2>2, <2>3 DEF UpdatedTo, RowsKept
<1>. QED BY <1>2, <1>9, <1>10 DEF AnyOrder

\* The order that is active is the one asked for.
LEMMA ActiveOrder == TableInv => SortState(table, tablesort[visited]) = asked.order[visited]
BY DEF TableInv, SortState

\* A page is loaded with a table that is new.
LEMMA TableLoaded ==
    ASSUME TableInv, visited' \in DOMAIN Pages, tablesort' = tablesort,
           table' = NewTable(table.id, tablesort[visited']),
           asked'.order = IF table.id THEN asked.order ELSE tablesort
    PROVE  TableInv'
<1>1. table.id \in BOOLEAN
  BY DEF TableInv, TableType
<1>2. tablesort[visited'] \in AnyOrder /\ tablesort \in [DOMAIN Pages -> AnyOrder]
  BY DEF TableInv
<1>3. asked'.order = tablesort
  BY DEF TableInv
<1>4. /\ table' \in TableType /\ table'.id = table.id /\ table'.sortState = Unsorted
      /\ RowsKept(table', tablesort[visited'])
  BY <1>1, <1>2, NewTableType
<1>5. ~ table.id => tablesort[visited'] = Unsorted /\ \A p \in DOMAIN Pages : tablesort[p] = Unsorted
  BY DEF TableInv
<1>6. RowsKept(table', asked'.order[visited'])
  BY <1>3, <1>4
<1>7. RowsKept(table, asked.order[visited])'
  BY <1>6 DEF RowsKept, InOrderOf
<1>. QED BY <1>2, <1>3, <1>4, <1>5, <1>7 DEF TableInv

\* Data from the server are sorted as they come.
LEMMA FillStays ==
    ASSUME TableInv, Fill
    PROVE  TableInv'
<1>1. PICK d \in BoundedSeq(TableRows, Cardinality(TableRows)) :
          table' = Update(table, d, tablesort[visited])
  BY DEF Fill
<1>2. d \in Seq(TableRows)
  <2>1. Cardinality(TableRows) \in Nat
    BY LooksAssumption, FS_CardinalityType
  <2>. QED BY <2>1 DEF BoundedSeq, SeqOf
<1>3. table \in TableType /\ tablesort[visited] \in AnyOrder
  BY DEF TableInv
<1>4. UpdatedTo(table', table, d, asked.order[visited])
  BY <1>1, <1>2, <1>3, UpdatedTable, ActiveOrder
<1>5. tablesort' = tablesort /\ visited' = visited /\ asked' = asked
  BY DEF Fill
<1>6. /\ table' \in TableType /\ table'.id = table.id /\ table'.sortState = table.sortState
      /\ RowsKept(table', asked.order[visited])
  BY <1>4 DEF UpdatedTo
<1>7. RowsKept(table, asked.order[visited])'
  BY <1>5, <1>6 DEF RowsKept, InOrderOf
<1>. QED BY <1>5, <1>6, <1>7 DEF TableInv

\* A click on a heading sorts the rows on show anew.
LEMMA HandleSortStays ==
    ASSUME TableInv, TabsInv, HandleSort
    PROVE  TableInv'
<1>1. PICK c \in table.sortable : \E s \in {[col |-> c, desc |-> table.marks[c] = "asc"]} :
          /\ tablesort' = IF table.id THEN [tablesort EXCEPT ![visited] = s] ELSE tablesort
          /\ table' = IF table.data = NoData THEN [table EXCEPT !.sortState = s]
                      ELSE [Update([table EXCEPT !.sortState = s], table.data,
                                   tablesort'[visited]) EXCEPT !.sent = table.sent]
          /\ asked' = [asked EXCEPT !.order[visited] = s]
  BY DEF HandleSort
<1>2. PICK s : /\ s = [col |-> c, desc |-> table.marks[c] = "asc"]
               /\ tablesort' = IF table.id THEN [tablesort EXCEPT ![visited] = s] ELSE tablesort
               /\ table' = IF table.data = NoData THEN [table EXCEPT !.sortState = s]
                           ELSE [Update([table EXCEPT !.sortState = s], table.data,
                                        tablesort'[visited]) EXCEPT !.sent = table.sent]
               /\ asked' = [asked EXCEPT !.order[visited] = s]
  BY <1>1
<1>3. s \in Orders /\ s \in AnyOrder /\ s # Unsorted
  <2>1. c \in Columns
    BY DEF TableInv, TableType
  <2>2. s \in Orders
    BY <1>2, <2>1 DEF Orders
  <2>. QED BY <2>2, Compared DEF AnyOrder
<1>4. PICK t : t = [table EXCEPT !.sortState = s]
  OBVIOUS
<1>5. t \in TableType /\ t.sortState = s /\ t.id = table.id /\ t.data = table.data /\ t.sent = table.sent
  BY <1>3, <1>4 DEF TableInv, TableType
<1>6. visited' = visited /\ visited \in DOMAIN Pages
  BY DEF HandleSort, TableInv
<1>7. asked'.order = [asked.order EXCEPT ![visited] = s]
  BY <1>2 DEF TabsInv
<1>8. /\ tablesort' \in [DOMAIN Pages -> AnyOrder] /\ asked'.order \in [DOMAIN Pages -> AnyOrder]
      /\ asked'.order[visited] = s
      /\ table.id => asked'.order = tablesort' /\ tablesort'[visited] = s
      /\ ~ table.id => \A p \in DOMAIN Pages : tablesort'[p] = Unsorted
  <2>1. asked'.order \in [DOMAIN Pages -> AnyOrder] /\ asked'.order[visited] = s
    BY <1>3, <1>6, <1>7 DEF TableInv
  <2>2. CASE table.id
    <3>1. tablesort' = [tablesort EXCEPT ![visited] = s] /\ asked.order = tablesort
      BY <1>2, <2>2 DEF TableInv
    <3>. QED BY <1>7, <2>1, <2>2, <3>1
  <2>3. CASE ~ table.id
    <3>1. tablesort' = tablesort
      BY <1>2, <2>3
    <3>. QED BY <2>1, <2>3, <3>1 DEF TableInv
  <2>. QED BY <2>1, <2>2, <2>3
<1>9. Len(table.data) = Len(table.sent) /\ Range(table.data) = Range(table.sent)
      /\ table.data \in Seq(TableRows) /\ table.sent \in Seq(TableRows)
  BY DEF TableInv, RowsKept, TableType
<1>10. table' \in TableType /\ table'.id = table.id /\ table'.sortState = s /\ RowsKept(table', s)
  <2>1. CASE table.data = NoData
    <3>1. table' = t
      BY <1>2, <1>4, <2>1
    <3>. QED BY <1>3, <1>5, <1>9, <2>1, <3>1 DEF RowsKept
  <2>2. CASE table.data # NoData
    <3>1. tablesort'[visited] \in AnyOrder
      BY <1>6, <1>8
    <3>2. PICK u : u = Update(t, table.data, tablesort'[visited])
      OBVIOUS
    <3>3. SortState(t, tablesort'[visited]) = s
      BY <1>3, <1>5 DEF SortState
    <3>4. UpdatedTo(u, t, table.data, s)
      BY <1>5, <1>9, <3>1, <3>2, <3>3, UpdatedTable
    <3>5. u \in TableType /\ u.id = t.id /\ u.sortState = t.sortState /\ u.sent = table.data /\ RowsKept(u, s)
      BY <3>4 DEF UpdatedTo
    <3>6. table' = [u EXCEPT !.sent = table.sent]
      BY <1>2, <1>4, <2>2, <3>2
    <3>7. /\ table' \in TableType /\ table'.id = u.id /\ table'.sortState = u.sortState
          /\ table'.data = u.data /\ table'.sent = table.sent /\ table'.marks = u.marks
      BY <1>9, <3>5, <3>6 DEF TableType
    <3>. QED BY <1>3, <1>5, <1>9, <3>5, <3>7 DEF RowsKept
  <2>. QED BY <2>1, <2>2
<1>11. RowsKept(table, asked.order[visited])'
  BY <1>6, <1>8, <1>10 DEF RowsKept, InOrderOf
<1>. QED BY <1>6, <1>8, <1>10, <1>11 DEF TableInv

\* Groups of tabs.
GroupType == [filled : SUBSET Tabs, active : Tabs, hidden : SUBSET Tabs]

\* The first pane that has something to show; it is pane 0 if that has.
LEMMA FirstFilled ==
    ASSUME NEW F \in SUBSET Tabs, F # {}
    PROVE  First(F) \in F /\ First(F) \in Tabs /\ (0 \in F => First(F) = 0)
<1>1. F \subseteq Nat
  BY LooksAssumption
<1>2. \E i \in F : \A j \in F : i <= j
  BY <1>1, SmallestOf
<1>3. First(F) \in F /\ \A j \in F : First(F) <= j
  BY <1>2 DEF First
<1>4. First(F) \in Nat /\ First(F) \in Tabs
  BY <1>1, <1>3
<1>5. ASSUME 0 \in F
      PROVE  First(F) = 0
  <2>1. First(F) <= 0
    BY <1>3, <1>5
  <2>. QED BY <2>1, <1>4
<1>. QED BY <1>3, <1>4, <1>5

\* With a page the tab asked for is selected, if its pane is filled.
SelectedAsked(p, filled) ==
    [g \in Pages[p] |->
        IF asked.page = p /\ asked.tabs[g] \in filled[g] THEN asked.tabs[g] ELSE First(filled[g])]

\* What is stored, or else 0, is what was asked for, or else the first.
LEMMA SelectedTab ==
    ASSUME TabsInv, NEW p \in DOMAIN Pages, NEW filled \in Filled(p), NEW g \in Pages[p]
    PROVE  /\ Selected(tab, p, g, filled[g]) = SelectedAsked(p, filled)[g]
           /\ Selected(tab, p, g, filled[g]) \in Tabs
<1>1. p # "none"
  BY LooksAssumption
<1>2. filled[g] \in SUBSET Tabs /\ filled[g] # {}
  BY DEF Filled
<1>3. First(filled[g]) \in filled[g] /\ (0 \in filled[g] => First(filled[g]) = 0)
  BY <1>2, FirstFilled
<1>4. tab.page = asked.page /\ tab = [page |-> tab.page, paths |-> tab.paths]
  BY DEF TabsInv
<1>5. SelectedAsked(p, filled)[g] =
        IF asked.page = p /\ asked.tabs[g] \in filled[g] THEN asked.tabs[g] ELSE First(filled[g])
  BY DEF SelectedAsked
<1>6. CASE asked.page = p
  <2>1. DOMAIN tab.paths = Pages[p] /\ tab.paths[g] = asked.tabs[g]
    BY <1>1, <1>6 DEF TabsInv
  <2>2. TabState(tab, p).paths = tab.paths
    BY <1>4, <1>6 DEF TabState
  <2>3. ActiveTabId(tab, p, g) = asked.tabs[g]
    BY <2>1, <2>2 DEF ActiveTabId
  <2>4. Selected(tab, p, g, filled[g]) = SelectedAsked(p, filled)[g]
    BY <2>3, <1>5, <1>6 DEF Selected
  <2>. QED BY <1>2, <1>3, <1>5, <2>4
<1>7. CASE asked.page # p
  <2>1. TabState(tab, p).paths = <<>>
    BY <1>4, <1>7 DEF TabState
  <2>2. ActiveTabId(tab, p, g) = 0
    BY <2>1 DEF ActiveTabId
  <2>3. Selected(tab, p, g, filled[g]) = First(filled[g])
    BY <2>2, <1>3 DEF Selected
  <2>. QED BY <1>2, <1>3, <1>5, <1>7, <2>3
<1>. QED BY <1>6, <1>7

\* So it is with all the groups of a page that is loaded.
LEMMA TabsLoaded ==
    ASSUME TabsInv, visited' \in DOMAIN Pages, NEW filled \in Filled(visited'),
           tabs' = InitTabGroups(tab, visited', filled), tab' = Stored(tab, visited', filled),
           asked' = [order |-> asked'.order,
                     page |-> IF Pages[visited'] = {} THEN asked.page ELSE visited',
                     tabs |-> IF Pages[visited'] = {} THEN asked.tabs
                              ELSE SelectedAsked(visited', filled)]
    PROVE  TabsInv'
<1>1. PICK p \in DOMAIN Pages : p = visited'
  OBVIOUS
<1>2. ASSUME NEW g \in Pages[p]
      PROVE  /\ Selected(tab, p, g, filled[g]) = SelectedAsked(p, filled)[g]
             /\ Selected(tab, p, g, filled[g]) \in Tabs
             /\ filled[g] \in SUBSET Tabs
  <2>1. filled \in Filled(p)
    BY <1>1
  <2>2. filled[g] \in SUBSET Tabs
    BY <2>1 DEF Filled
  <2>. QED BY <2>1, <2>2, SelectedTab
<1>3. DOMAIN tabs' = Pages[p] /\ \A g \in Pages[p] :
         tabs'[g] = [filled |-> filled[g], active |-> Selected(tab, p, g, filled[g]),
                     hidden |-> Tabs \ filled[g]]
  BY <1>1 DEF InitTabGroups
<1>4. tabs' \in [Pages[p] -> GroupType]
  <2>1. \A g \in Pages[p] : tabs'[g] \in GroupType
    BY <1>2, <1>3 DEF GroupType
  <2>2. tabs' = [g \in Pages[p] |-> tabs'[g]]
    BY <1>1, <1>3 DEF InitTabGroups
  <2>. QED BY <2>1, <2>2
<1>5. CASE Pages[p] = {}
  <2>1. tab' = tab /\ asked'.page = asked.page /\ asked'.tabs = asked.tabs
        /\ asked' = [order |-> asked'.order, page |-> asked'.page, tabs |-> asked'.tabs]
    BY <1>1, <1>5 DEF Stored
  <2>. QED BY <1>1, <1>4, <1>5, <2>1 DEF TabsInv, GroupType
<1>6. CASE Pages[p] # {}
  <2>1. PICK a : a = SelectedAsked(p, filled)
    OBVIOUS
  <2>2. asked'.page = p /\ asked'.tabs = a
        /\ asked' = [order |-> asked'.order, page |-> asked'.page, tabs |-> asked'.tabs]
    BY <1>1, <1>6, <2>1
  <2>3. a \in [Pages[p] -> Tabs]
    <3>1. \A g \in Pages[p] : a[g] \in Tabs
      BY <1>2, <2>1
    <3>2. a = [g \in Pages[p] |-> a[g]]
      BY <2>1 DEF SelectedAsked
    <3>. QED BY <3>1, <3>2
  <2>4. DOMAIN TabState(tab, p).paths \subseteq Pages[p]
    <3>1. p # "none" /\ tab.page = asked.page
      BY LooksAssumption DEF TabsInv
    <3>. QED BY <3>1 DEF TabState, TabsInv
  <2>5. PICK c : c = [g \in DOMAIN TabState(tab, p).paths \cup Pages[p] |->
                        IF g \in Pages[p] THEN Selected(tab, p, g, filled[g])
                        ELSE TabState(tab, p).paths[g]]
    OBVIOUS
  <2>6. tab' = [page |-> p, paths |-> c]
    BY <1>1, <1>6, <2>5 DEF Stored
  <2>7. DOMAIN c = Pages[p] /\ \A g \in Pages[p] : c[g] = a[g]
    BY <1>2, <2>1, <2>4, <2>5
  <2>8. tab' = [page |-> asked'.page, paths |-> tab'.paths] /\ tab'.paths = c
    BY <2>2, <2>6
  <2>9. \A g \in Pages[p] : tabs'[g].active = a[g] /\ tabs'[g].hidden = Tabs \ tabs'[g].filled
    BY <1>2, <1>3, <2>1
  <2>. QED BY <1>1, <1>4, <2>2, <2>3, <2>7, <2>8, <2>9 DEF TabsInv, GroupType
<1>. QED BY <1>5, <1>6

\* A page is loaded.
LEMMA LoadStays ==
    ASSUME TableInv, TabsInv, Load
    PROVE  TableInv' /\ TabsInv'
<1>1. PICK filled \in Filled(visited') :
         /\ tabs' = InitTabGroups(tab, visited', filled)
         /\ tab' = Stored(tab, visited', filled)
         /\ asked' = [
              order |-> IF table.id THEN asked.order ELSE tablesort,
              page |-> IF Pages[visited'] = {} THEN asked.page ELSE visited',
              tabs |-> IF Pages[visited'] = {} THEN asked.tabs ELSE
                  [g \in Pages[visited'] |->
                      IF asked.page = visited' /\ asked.tabs[g] \in filled[g]
                      THEN asked.tabs[g] ELSE First(filled[g])]]
  BY DEF Load
<1>2. visited' \in DOMAIN Pages /\ table' = NewTable(table.id, tablesort[visited'])
      /\ tablesort' = tablesort
  BY DEF Load
<1>3. asked'.order = IF table.id THEN asked.order ELSE tablesort
  BY <1>1
<1>4. asked' = [order |-> asked'.order,
                page |-> IF Pages[visited'] = {} THEN asked.page ELSE visited',
                tabs |-> IF Pages[visited'] = {} THEN asked.tabs
                         ELSE SelectedAsked(visited', filled)]
  BY <1>1 DEF SelectedAsked
<1>5. TableInv'
  BY <1>2, <1>3, TableLoaded
<1>6. TabsInv'
  BY <1>1, <1>2, <1>4, TabsLoaded
<1>. QED BY <1>5, <1>6

\* The user chooses a tab.
LEMMA SwitchTabStays ==
    ASSUME TabsInv, SwitchTab
    PROVE  TabsInv'
<1>1. PICK g \in Pages[visited], i \in Tabs :
         /\ tabs' = [tabs EXCEPT ![g].active = i]
         /\ tab' = SetActiveTabId(tab, visited, g, i)
         /\ asked' = [asked EXCEPT !.tabs[g] = i]
  BY DEF SwitchTab
<1>2. visited' = visited /\ visited \in DOMAIN Pages /\ asked.page = visited
  BY DEF SwitchTab, TabsInv
<1>3. visited # "none"
  BY <1>2, LooksAssumption
<1>4. asked'.page = asked.page /\ asked'.tabs = [asked.tabs EXCEPT ![g] = i]
      /\ asked' = [order |-> asked'.order, page |-> asked'.page, tabs |-> asked'.tabs]
  BY <1>1 DEF TabsInv
<1>5. asked.tabs \in [Pages[visited] -> Tabs] /\ DOMAIN tab.paths = Pages[visited]
      /\ \A h \in Pages[visited] : tab.paths[h] = asked.tabs[h]
  BY <1>2, <1>3 DEF TabsInv
<1>6. asked'.tabs \in [Pages[visited] -> Tabs]
      /\ \A h \in Pages[visited] : asked'.tabs[h] = IF h = g THEN i ELSE asked.tabs[h]
  BY <1>4, <1>5
<1>7. TabState(tab, visited) = tab
  BY <1>2 DEF TabState, TabsInv
<1>8. PICK c : c = [h \in DOMAIN tab.paths \cup {g} |-> IF h = g THEN i ELSE tab.paths[h]]
  OBVIOUS
<1>9. tab' = [tab EXCEPT !.paths = c]
  BY <1>1, <1>7, <1>8 DEF SetActiveTabId
<1>10. tab' = [page |-> asked.page, paths |-> c]
  BY <1>9 DEF TabsInv
<1>11. DOMAIN c = Pages[visited] /\ \A h \in Pages[visited] : c[h] = asked'.tabs[h]
  BY <1>5, <1>6, <1>8
<1>12. tabs \in [Pages[visited] -> GroupType]
  BY DEF TabsInv, GroupType
<1>13. tabs' \in [Pages[visited] -> GroupType]
  BY <1>1, <1>12 DEF GroupType
<1>14. ASSUME NEW h \in Pages[visited]
       PROVE  tabs'[h].active = asked'.tabs[h] /\ tabs'[h].hidden = Tabs \ tabs'[h].filled
  <2>1. tabs[h].active = asked.tabs[h] /\ tabs[h].hidden = Tabs \ tabs[h].filled
    BY DEF TabsInv
  <2>2. CASE h = g
    <3>1. tabs'[h] = [tabs[h] EXCEPT !.active = i]
      BY <1>1, <1>12, <2>2
    <3>2. tabs'[h].active = i /\ tabs'[h].hidden = tabs[h].hidden /\ tabs'[h].filled = tabs[h].filled
      BY <1>12, <3>1 DEF GroupType
    <3>. QED BY <1>6, <2>1, <2>2, <3>2
  <2>3. CASE h # g
    <3>1. tabs'[h] = tabs[h]
      BY <1>1, <1>12, <2>3
    <3>. QED BY <1>6, <2>1, <2>3, <3>1
  <2>. QED BY <2>2, <2>3
<1>15. tab'.paths = c /\ tab' = [page |-> asked'.page, paths |-> tab'.paths]
  BY <1>4, <1>10
<1>. QED BY <1>2, <1>4, <1>6, <1>11, <1>13, <1>14, <1>15 DEF TabsInv, GroupType

\* Panes are filled and emptied under the tabs.
LEMMA UpdateTabsStays ==
    ASSUME TabsInv, UpdateTabs
    PROVE  TabsInv'
<1>1. PICK g \in Pages[visited], filled \in SUBSET Tabs :
         tabs' = [tabs EXCEPT ![g].filled = filled, ![g].hidden = Tabs \ filled]
  BY DEF UpdateTabs
<1>2. tab' = tab /\ visited' = visited /\ asked' = asked
  BY DEF UpdateTabs
<1>3. tabs \in [Pages[visited] -> GroupType]
  BY DEF TabsInv, GroupType
<1>4. \A h \in Pages[visited] : h # g => tabs'[h] = tabs[h]
  BY <1>1, <1>3
<1>5. tabs'[g] = [tabs[g] EXCEPT !.filled = filled, !.hidden = Tabs \ filled]
  BY <1>1, <1>3
<1>6. tabs'[g].active = tabs[g].active /\ tabs'[g].filled = filled /\ tabs'[g].hidden = Tabs \ filled
      /\ tabs'[g] \in GroupType
  BY <1>3, <1>5 DEF GroupType
<1>7. tabs' \in [Pages[visited] -> GroupType]
  <2>1. \A h \in Pages[visited] : tabs'[h] \in GroupType
    BY <1>3, <1>4, <1>6
  <2>2. DOMAIN tabs' = Pages[visited] /\ tabs' = [h \in Pages[visited] |-> tabs'[h]]
    BY <1>1, <1>3
  <2>. QED BY <2>1, <2>2
<1>8. \A h \in Pages[visited] :
        tabs'[h].active = asked.tabs[h] /\ tabs'[h].hidden = Tabs \ tabs'[h].filled
  BY <1>4, <1>6 DEF TabsInv
<1>. QED BY <1>2, <1>7, <1>8 DEF TabsInv, GroupType

\* A session begins with nothing stored.
LEMMA ViewStart == ViewInit => TableInv /\ TabsInv
<1>. SUFFICES ASSUME ViewInit PROVE TableInv /\ TabsInv
  OBVIOUS
<1>1. PICK id \in BOOLEAN : table = NewTable(id, Unsorted)
  BY DEF ViewInit
<1>2. visited \in DOMAIN Pages /\ tablesort = [p \in DOMAIN Pages |-> Unsorted]
  BY DEF ViewInit
<1>3. PICK filled \in Filled(visited) :
         /\ tabs = InitTabGroups(NoTabs, visited, filled)
         /\ tab = Stored(NoTabs, visited, filled)
         /\ asked = [order |-> tablesort, page |-> IF Pages[visited] = {} THEN "none" ELSE visited,
                     tabs |-> [g \in Pages[visited] |-> First(filled[g])]]
  BY DEF ViewInit
<1>4. Unsorted \in AnyOrder
  BY DEF AnyOrder
<1>5. TableInv
  <2>1. table \in TableType /\ table.id = id /\ table.sortState = Unsorted /\ RowsKept(table, Unsorted)
    BY <1>1, <1>4, NewTableType
  <2>2. asked.order = tablesort /\ tablesort[visited] = Unsorted
    BY <1>2, <1>3
  <2>3. tablesort \in [DOMAIN Pages -> AnyOrder]
    BY <1>2, <1>4
  <2>. QED BY <1>2, <2>1, <2>2, <2>3 DEF TableInv
<1>6. "none" # visited
  BY <1>2, LooksAssumption
<1>7. ASSUME NEW g \in Pages[visited]
      PROVE  /\ Selected(NoTabs, visited, g, filled[g]) = First(filled[g])
             /\ First(filled[g]) \in Tabs /\ filled[g] \in SUBSET Tabs
  <2>1. filled[g] \in SUBSET Tabs /\ filled[g] # {}
    BY DEF Filled
  <2>2. First(filled[g]) \in Tabs /\ (0 \in filled[g] => First(filled[g]) = 0)
    BY <2>1, FirstFilled
  <2>3. ActiveTabId(NoTabs, visited, g) = 0
    BY <1>6 DEF ActiveTabId, TabState, NoTabs
  <2>. QED BY <2>1, <2>2, <2>3 DEF Selected
<1>8. PICK a : a = [g \in Pages[visited] |-> First(filled[g])]
  OBVIOUS
<1>9. a \in [Pages[visited] -> Tabs]
  BY <1>7, <1>8
<1>10. asked.tabs = a /\ asked = [order |-> asked.order, page |-> asked.page, tabs |-> asked.tabs]
       /\ asked.page = IF Pages[visited] = {} THEN "none" ELSE visited
  BY <1>3, <1>8
<1>11. /\ tab = [page |-> asked.page, paths |-> tab.paths]
       /\ Pages[visited] # {} => /\ DOMAIN tab.paths = Pages[visited]
                                 /\ \A g \in Pages[visited] : tab.paths[g] = a[g]
  <2>1. CASE Pages[visited] = {}
    BY <1>3, <1>10, <2>1 DEF Stored, NoTabs
  <2>2. CASE Pages[visited] # {}
    <3>1. TabState(NoTabs, visited).paths = <<>>
      BY DEF TabState, NoTabs
    <3>2. PICK c : c = [g \in DOMAIN TabState(NoTabs, visited).paths \cup Pages[visited] |->
                          IF g \in Pages[visited] THEN Selected(NoTabs, visited, g, filled[g])
                          ELSE TabState(NoTabs, visited).paths[g]]
      OBVIOUS
    <3>3. tab = [page |-> visited, paths |-> c]
      BY <1>3, <2>2, <3>2 DEF Stored
    <3>4. DOMAIN c = Pages[visited] /\ \A g \in Pages[visited] : c[g] = a[g]
      BY <1>7, <1>8, <3>1, <3>2
    <3>. QED BY <1>10, <2>2, <3>3, <3>4
  <2>. QED BY <2>1, <2>2
<1>12. DOMAIN tabs = Pages[visited] /\ tabs = [g \in Pages[visited] |-> tabs[g]]
       /\ \A g \in Pages[visited] : tabs[g] = [filled |-> filled[g], active |-> a[g],
                                               hidden |-> Tabs \ filled[g]]
  BY <1>3, <1>7, <1>8 DEF InitTabGroups
<1>13. tabs \in [Pages[visited] -> GroupType]
  <2>1. ASSUME NEW g \in Pages[visited]
        PROVE  tabs[g] \in GroupType
    <3>1. a[g] \in Tabs /\ filled[g] \in SUBSET Tabs /\ Tabs \ filled[g] \in SUBSET Tabs
      BY <1>7, <1>8
    <3>2. tabs[g] = [filled |-> filled[g], active |-> a[g], hidden |-> Tabs \ filled[g]]
      BY <1>12
    <3>. QED BY <3>1, <3>2 DEF GroupType
  <2>. QED BY <1>12, <2>1
<1>14. \A g \in Pages[visited] : tabs[g].active = a[g] /\ tabs[g].hidden = Tabs \ tabs[g].filled
  <2>. TAKE g \in Pages[visited]
  <2>1. tabs[g] = [filled |-> filled[g], active |-> a[g], hidden |-> Tabs \ filled[g]]
    BY <1>12
  <2>. QED BY <2>1
<1>15. TabsInv
  BY <1>2, <1>9, <1>10, <1>11, <1>13, <1>14 DEF TabsInv, GroupType
<1>. QED BY <1>5, <1>15

\* A step of the page.
LEMMA ViewStep ==
    ASSUME ViewInv, part' = part,
           (part = "view" /\ ViewNext) \/ UNCHANGED viewVars
    PROVE  ViewInv'
<1>1. CASE UNCHANGED viewVars
  BY <1>1 DEF viewVars, ViewInv, TableInv, TabsInv, NoView
<1>2. CASE part = "view" /\ ViewNext
  <2>1. TableInv /\ TabsInv
    BY <1>2 DEF ViewInv
  <2>2. ASSUME tabs' = tabs, tab' = tab, visited' = visited, asked'.page = asked.page,
               asked'.tabs = asked.tabs,
               asked' = [order |-> asked'.order, page |-> asked.page, tabs |-> asked.tabs]
        PROVE  TabsInv'
    BY <2>1, <2>2 DEF TabsInv
  <2>3. ASSUME table' = table, tablesort' = tablesort, visited' = visited,
               asked'.order = asked.order
        PROVE  TableInv'
    BY <2>1, <2>3 DEF TableInv
  <2>4. asked = [order |-> asked.order, page |-> asked.page, tabs |-> asked.tabs]
    BY <2>1 DEF TabsInv
  <2>5. CASE Fill
    <3>1. TabsInv'
      BY <2>2, <2>4, <2>5 DEF Fill
    <3>. QED BY <1>2, <2>1, <2>5, <3>1, FillStays DEF ViewInv
  <2>6. CASE HandleSort
    <3>1. PICK s : asked' = [asked EXCEPT !.order[visited] = s]
      BY <2>6 DEF HandleSort
    <3>2. asked' = [order |-> asked'.order, page |-> asked.page, tabs |-> asked.tabs]
      BY <2>4, <3>1
    <3>3. tabs' = tabs /\ tab' = tab /\ visited' = visited
      BY <2>6 DEF HandleSort
    <3>4. asked'.page = asked.page /\ asked'.tabs = asked.tabs
      BY <3>2
    <3>5. TabsInv'
      BY ONLY <2>2, <3>2, <3>3, <3>4
    <3>. QED BY <1>2, <2>1, <2>6, <3>5, HandleSortStays DEF ViewInv
  <2>7. CASE SwitchTab
    <3>1. asked'.order = asked.order
      BY <2>4, <2>7 DEF SwitchTab
    <3>2. TableInv'
      BY <2>3, <2>7, <3>1 DEF SwitchTab
    <3>. QED BY <1>2, <2>1, <2>7, <3>2, SwitchTabStays DEF ViewInv
  <2>8. CASE UpdateTabs
    <3>1. TableInv'
      BY <2>3, <2>8 DEF UpdateTabs
    <3>. QED BY <1>2, <2>1, <2>8, <3>1, UpdateTabsStays DEF ViewInv
  <2>9. CASE Load
    BY <1>2, <2>1, <2>9, LoadStays DEF ViewInv
  <2>. QED BY <1>2, <2>5, <2>6, <2>7, <2>8, <2>9 DEF ViewNext
<1>. QED BY <1>1, <1>2

\* What the invariant says of what is on show.
LEMMA AllKept == ViewInv => ViewKept
<1>1. CASE part = "view" /\ TableInv /\ TabsInv
  BY <1>1 DEF TableInv, TabsInv, RowsKept, InOrderOf, ViewKept
<1>2. CASE part # "view" /\ NoView
  <2>1. table.data = NoData /\ table.sent = NoData
    BY <1>2 DEF NoView, NewTable
  <2>2. DOMAIN tabs = {}
    BY <1>2 DEF NoView
  <2>. QED BY <2>1, <2>2 DEF ViewKept
<1>. QED BY <1>1, <1>2 DEF ViewInv

\* ui.js, UITable and tabs: however data from the server, clicks on headings and tabs,
\* dependencies of options and loads of pages interleave, the rows on show are those sent, in
\* the order asked for last, and a group shows the tab chosen last.
THEOREM ViewAlwaysKept == PartsSpec => []ViewKept
<1>1. PartsInit => ViewInv
  BY ViewStart DEF PartsInit, ViewInv
<1>2. ViewInv /\ [PartsNext]_<<part, fieldVars, fileVars, viewVars, rowVars, wifiVars, freqVars, ddnsVars, vars, netVars>>
        => ViewInv'
  BY ViewStep DEF PartsNext
<1>3. ViewInv => ViewKept
  BY AllKept
<1>. QED BY <1>1, <1>2, <1>3, PTL DEF PartsSpec

-----------------------------------------------------------------------------
(* The frequency selects.                                                  *)

\* What a list may offer, and what stands for nothing.
Entered == UNION {Range(Options(l)) : l \in Lists}
Texts == Entered \cup {"", Nothing}

\* The state of the selects.
Settings ==
    [mode : HwModes, value : [Selects -> Texts], list : [Selects -> Lists \cup {NoList}],
     memory : [Lists -> Texts]]

\* The lists on show have what was seen selected in them, the others remember it.
Remembers(f, h) ==
    /\ f \in Settings
    /\ \A s \in Selects : f.list[s] # NoList =>
         /\ f.list[s][1] = s
         /\ Contains(Options(f.list[s]), f.value[s])
         /\ h[f.list[s]] \in {Nothing, f.value[s]}
    /\ \A l \in Lists : ~ IsShown(f, l) =>
         /\ f.memory[l] = Nothing \/ Contains(Options(l), f.memory[l])
         /\ h[l] # Nothing => f.memory[l] = h[l]

\* The selects show the lists of the mode and of the band.
Consistent(f) ==
    /\ f.list["band"] = <<"band", f.mode>>
    /\ f.list["htmode"] = <<"htmode", f.mode>>
    /\ f.list["channel"] = <<"channel", f.value["band"]>>

\* While nothing is lost; what was seen is known of each list.
FreqInv ==
    lost \/
    /\ Remembers(freq, last)
    /\ Consistent(freq)
    /\ \A s \in Selects : freq.value[s] = last[freq.list[s]]
    /\ last \in [Lists -> Texts]
    /\ useBand <=> conf.hwmode = ""

\* A sequence of one, and of none.
LEMMA OneOrNone ==
    ASSUME NEW T, NEW x \in T
    PROVE  <<x>> \in Seq(T) /\ <<>> \in Seq(T)
OBVIOUS

\* A sequence of some is a sequence of more.
LEMMA SeqOfMore ==
    ASSUME NEW T, NEW U, T \subseteq U, NEW q \in Seq(T)
    PROVE  q \in Seq(U)
OBVIOUS

\* Sequences one after the other.
LEMMA Concatenated ==
    ASSUME NEW T, NEW q \in Seq(T), NEW r \in Seq(T)
    PROVE  q \o r \in Seq(T)
OBVIOUS

\* What a sequence contains is of the type of its entries.
LEMMA ContainedIn ==
    ASSUME NEW T, NEW q \in Seq(T), NEW v, Contains(q, v)
    PROVE  v \in T
BY DEF Contains

\* Nothing is a text.
LEMMA EmptyTexts == "" \in Texts /\ Nothing \in Texts
BY DEF Texts

\* Bands are bands.
LEMMA BandsType == \A m \in HwModes : Bands(m) \in Seq(DOMAIN Channels)
<1>. SUFFICES ASSUME NEW m \in HwModes PROVE Bands(m) \in Seq(DOMAIN Channels)
  OBVIOUS
<1>. DEFINE D == DOMAIN Channels
            sixty == IF Entries("60g") > 0 THEN <<"60g">> ELSE <<>>
<1>2. {"2g", "5g", "6g", "60g"} = D
  BY PicksAssumption
<1>a. Bands(m) = CASE m = "" -> Offered("2g") \o Offered("5g") \o sixty
                   [] m = "n" -> Offered("2g") \o Offered("5g")
                   [] m = "ac" -> <<"5g">>
                   [] m = "ax" -> Offered("2g") \o Offered("5g") \o Offered("6g")
  BY DEF Bands
<1>b. m \in {"", "n", "ac", "ax"}
  BY PicksAssumption
<1>. HIDE DEF D
<1>1. Offered("2g") \in Seq(D) /\ Offered("5g") \in Seq(D) /\ Offered("6g") \in Seq(D)
  <2>1. \A b \in D : Offered(b) = <<b>> \/ Offered(b) = <<>>
    BY DEF Offered
  <2>2. \A b \in D : Offered(b) \in Seq(D)
    BY <2>1, OneOrNone
  <2>. QED BY <1>2, <2>2
<1>3. sixty \in Seq(D)
  <2>1. sixty = <<"60g">> \/ sixty = <<>>
    OBVIOUS
  <2>. QED BY <1>2, <2>1, OneOrNone
<1>4. <<"5g">> \in Seq(D)
  BY <1>2, OneOrNone
<1>. HIDE DEF sixty
<1>5. Offered("2g") \o Offered("5g") \in Seq(D)
  BY <1>1, Concatenated
<1>6. /\ Offered("2g") \o Offered("5g") \o sixty \in Seq(D)
      /\ Offered("2g") \o Offered("5g") \o Offered("6g") \in Seq(D)
  BY <1>1, <1>3, <1>5, Concatenated
<1>7. Bands(m) \in Seq(D)
  BY <1>a, <1>b, <1>4, <1>5, <1>6
<1>. QED BY <1>7 DEF D

\* A channel is neither "" nor what stands for nothing.
LEMMA ChansType ==
    \A b \in DOMAIN Channels : \E T : Chans(b) \in Seq(T) /\ Nothing \notin T /\ "" \notin T
<1>. SUFFICES ASSUME NEW b \in DOMAIN Channels
              PROVE  \E T : Chans(b) \in Seq(T) /\ Nothing \notin T /\ "" \notin T
  OBVIOUS
<1>. DEFINE C == Range(Channels[b]) \ {"", "nothing"}
            T == C \cup {"auto"}
            auto == IF Acs /\ b # "60g" THEN <<"auto">> ELSE <<>>
<1>1. Channels[b] \in Seq(C)
  BY PicksAssumption
<1>2. "auto" \in T /\ C \subseteq T /\ Nothing \notin T /\ "" \notin T
  BY DEF Nothing
<1>3. auto = <<"auto">> \/ auto = <<>>
  OBVIOUS
<1>4. Chans(b) = auto \o Channels[b]
  BY DEF Chans
<1>. HIDE DEF C, T, auto
<1>5. auto \in Seq(T) /\ Channels[b] \in Seq(T)
  BY <1>1, <1>2, <1>3, OneOrNone, SeqOfMore
<1>6. Chans(b) \in Seq(T)
  BY <1>4, <1>5, Concatenated
<1>. QED BY <1>2, <1>6

\* A width is not what stands for nothing.
LEMMA WidthsType == \A m \in HwModes : \E T : Widths(m) \in Seq(T) /\ Nothing \notin T
<1>. SUFFICES ASSUME NEW m \in HwModes PROVE \E T : Widths(m) \in Seq(T) /\ Nothing \notin T
  OBVIOUS
<1>1. CASE m = ""
  <2>1. <<"">> \in Seq({""}) /\ Nothing \notin {""}
    BY OneOrNone DEF Nothing
  <2>. QED BY <1>1, <2>1 DEF Widths
<1>2. CASE m # ""
  <2>. DEFINE W == Range(HtModes[m]) \ {"", "nothing"}
  <2>1. HtModes[m] \in Seq(W)
    BY <1>2, PicksAssumption
  <2>2. Nothing \notin W
    BY DEF Nothing
  <2>3. Widths(m) = HtModes[m]
    BY <1>2 DEF Widths
  <2>. HIDE DEF W
  <2>. QED BY <2>1, <2>2, <2>3
<1>. QED BY <1>1, <1>2

\* The lists, and what each offers.
LEMMA ListOptions ==
    /\ \A m \in HwModes : /\ <<"band", m>> \in Lists /\ Options(<<"band", m>>) = Bands(m)
                          /\ <<"htmode", m>> \in Lists /\ Options(<<"htmode", m>>) = Widths(m)
    /\ \A b \in DOMAIN Channels :
         <<"channel", b>> \in Lists /\ Options(<<"channel", b>>) = Chans(b)
    /\ \A l \in Lists : \/ \E m \in HwModes : l = <<"band", m>> \/ l = <<"htmode", m>>
                        \/ \E b \in DOMAIN Channels : l = <<"channel", b>>
    /\ NoList \notin Lists
<1>1. \A m \in HwModes : <<"band", m>> \in Lists /\ <<"htmode", m>> \in Lists
  BY DEF Lists
<1>2. \A b \in DOMAIN Channels : <<"channel", b>> \in Lists
  BY DEF Lists
<1>3. \A l \in Lists : \/ \E m \in HwModes : l = <<"band", m>> \/ l = <<"htmode", m>>
                       \/ \E b \in DOMAIN Channels : l = <<"channel", b>>
  BY DEF Lists
<1>4. NoList \notin Lists
  BY <1>3 DEF NoList
<1>5. \A m : Options(<<"band", m>>) = Bands(m)
  BY DEF Options
<1>6. \A m : Options(<<"htmode", m>>) = Widths(m)
  BY DEF Options
<1>7. \A b : Options(<<"channel", b>>) = Chans(b)
  BY DEF Options
<1>. QED BY <1>1, <1>2, <1>3, <1>4, <1>5, <1>6, <1>7

\* No list offers what stands for nothing.
LEMMA OptionsType == \A l \in Lists : \E T : Options(l) \in Seq(T) /\ Nothing \notin T
<1>1. Nothing \notin DOMAIN Channels
  BY PicksAssumption DEF Nothing
<1>. QED BY <1>1, ListOptions, BandsType, WidthsType, ChansType

\* A list that offers something offers what it offers first.
LEMMA FirstOption ==
    ASSUME NEW l \in Lists
    PROVE  /\ Options(l) # <<>> => Contains(Options(l), Options(l)[1])
           /\ \A v : Contains(Options(l), v) => v \in Texts /\ v # Nothing
<1>1. PICK T : Options(l) \in Seq(T) /\ Nothing \notin T
  BY OptionsType
<1>2. Options(l) # <<>> => Contains(Options(l), Options(l)[1])
  BY <1>1 DEF Contains
<1>3. ASSUME NEW v, Contains(Options(l), v)
      PROVE  v \in Range(Options(l)) /\ v # Nothing
  BY <1>1, <1>3 DEF Contains, Range
<1>. QED BY <1>2, <1>3 DEF Texts, Entered

\* setValues: the list that goes remembers what was selected, the one that comes shows
\* what it remembers, or its first entry.
LEMMA SetValuesKeeps ==
    ASSUME NEW f, NEW h, Remembers(f, h), NEW s \in Selects, NEW l \in Lists, l[1] = s,
           Options(l) # <<>>, NEW g, g = SetValues(f, s, l)
    PROVE  /\ Remembers(g, h)
           /\ g.mode = f.mode
           /\ g.list[s] = l
           /\ \A t \in Selects \ {s} : g.list[t] = f.list[t] /\ g.value[t] = f.value[t]
           /\ f.list[s] = l => g.value[s] = f.value[s]
<1>. DEFINE m == Remember(f, s)
            v == IF m[l] # Nothing THEN m[l] ELSE Options(l)[1]
<1>1. f \in Settings /\ NoList \notin Lists
  BY ListOptions DEF Remembers
<1>2. g = [f EXCEPT !.memory = m, !.value[s] = v, !.list[s] = l]
  BY DEF SetValues
<1>3. /\ m \in [Lists -> Texts]
      /\ \A k \in Lists : m[k] = IF k = f.list[s] THEN f.value[s] ELSE f.memory[k]
  BY <1>1 DEF Remember, Settings
<1>4. \A k \in Lists : IsShown(f, k) => f.list[k[1]] = k /\ k[1] \in Selects
  BY <1>1 DEF IsShown, Remembers
<1>5. CASE f.list[s] = l
  <2>1. m[l] = f.value[s] /\ Contains(Options(l), f.value[s]) /\ h[l] \in {Nothing, f.value[s]}
    BY <1>1, <1>3, <1>5 DEF Remembers
  <2>2. v = f.value[s] /\ v \in Texts
    BY <2>1, FirstOption
  <2>. HIDE DEF m, v
  <2>3. /\ g \in Settings /\ g.mode = f.mode /\ g.memory = m
        /\ g.value = [f.value EXCEPT ![s] = v] /\ g.list = [f.list EXCEPT ![s] = l]
    <3>1. /\ f = [mode |-> f.mode, value |-> f.value, list |-> f.list, memory |-> f.memory]
          /\ f.mode \in HwModes /\ f.value \in [Selects -> Texts]
          /\ f.list \in [Selects -> Lists \cup {NoList}] /\ f.memory \in [Lists -> Texts]
      BY <1>1 DEF Settings
    <3>2. g = [mode |-> f.mode, value |-> [f.value EXCEPT ![s] = v],
               list |-> [f.list EXCEPT ![s] = l], memory |-> m]
      BY <1>2, <3>1
    <3>3. /\ [f.value EXCEPT ![s] = v] \in [Selects -> Texts]
          /\ [f.list EXCEPT ![s] = l] \in [Selects -> Lists \cup {NoList}]
      BY <3>1, <2>2
    <3>. QED BY <1>3, <3>1, <3>2, <3>3 DEF Settings
  <2>4. g.list = f.list /\ g.value = f.value
    BY <1>1, <1>5, <2>2, <2>3 DEF Settings
  <2>5. \A k \in Lists : ~ IsShown(g, k) => m[k] = f.memory[k] /\ ~ IsShown(f, k)
    BY <1>3, <1>5, <2>4 DEF IsShown
  <2>6. Remembers(g, h)
    BY <2>3, <2>4, <2>5 DEF Remembers
  <2>. QED BY <1>5, <2>3, <2>4, <2>6
<1>6. CASE f.list[s] # l
  <2>1. ~ IsShown(f, l)
    BY <1>4, <1>6
  <2>2. /\ m[l] = f.memory[l]
        /\ m[l] = Nothing \/ Contains(Options(l), m[l])
        /\ h[l] # Nothing => m[l] = h[l]
    BY <1>3, <1>6, <2>1 DEF Remembers
  <2>3. v \in Texts /\ Contains(Options(l), v) /\ h[l] \in {Nothing, v}
    BY <2>2, FirstOption
  <2>. HIDE DEF m, v
  <2>4. /\ g \in Settings /\ g.mode = f.mode /\ g.memory = m
        /\ g.value = [f.value EXCEPT ![s] = v] /\ g.list = [f.list EXCEPT ![s] = l]
    <3>1. /\ f = [mode |-> f.mode, value |-> f.value, list |-> f.list, memory |-> f.memory]
          /\ f.mode \in HwModes /\ f.value \in [Selects -> Texts]
          /\ f.list \in [Selects -> Lists \cup {NoList}] /\ f.memory \in [Lists -> Texts]
      BY <1>1 DEF Settings
    <3>2. g = [mode |-> f.mode, value |-> [f.value EXCEPT ![s] = v],
               list |-> [f.list EXCEPT ![s] = l], memory |-> m]
      BY <1>2, <3>1
    <3>3. /\ [f.value EXCEPT ![s] = v] \in [Selects -> Texts]
          /\ [f.list EXCEPT ![s] = l] \in [Selects -> Lists \cup {NoList}]
      BY <3>1, <2>3
    <3>. QED BY <1>3, <3>1, <3>2, <3>3 DEF Settings
  <2>5. /\ g.value[s] = v /\ g.list[s] = l
        /\ \A t \in Selects \ {s} : g.list[t] = f.list[t] /\ g.value[t] = f.value[t]
    BY <1>1, <2>4 DEF Settings
  <2>6. ASSUME NEW t \in Selects, g.list[t] # NoList
        PROVE  /\ g.list[t][1] = t
               /\ Contains(Options(g.list[t]), g.value[t])
               /\ h[g.list[t]] \in {Nothing, g.value[t]}
    <3>1. CASE t = s
      BY <2>3, <2>5, <3>1
    <3>2. CASE t # s
      BY <2>5, <2>6, <3>2 DEF Remembers
    <3>. QED BY <3>1, <3>2
  <2>7. ASSUME NEW k \in Lists, ~ IsShown(g, k)
        PROVE  /\ m[k] = Nothing \/ Contains(Options(k), m[k])
               /\ h[k] # Nothing => m[k] = h[k]
    <3>1. CASE k = f.list[s]
      <4>1. k # NoList /\ m[k] = f.value[s]
        BY <1>1, <1>3, <3>1
      <4>. QED BY <3>1, <4>1 DEF Remembers
    <3>2. CASE k # f.list[s]
      <4>1. ~ IsShown(f, k)
        BY <2>5, <2>7, <3>2 DEF IsShown
      <4>. QED BY <1>3, <3>2, <4>1 DEF Remembers
    <3>. QED BY <3>1, <3>2
  <2>8. Remembers(g, h)
    BY <2>4, <2>6, <2>7 DEF Remembers
  <2>. QED BY <1>6, <2>4, <2>5, <2>8
<1>. QED BY <1>5, <1>6

\* toggleWifiBand: the list of channels follows the band.
LEMMA BandToggled ==
    ASSUME RadioUsable, NEW f, NEW h, Remembers(f, h), f.list["htmode"] = <<"htmode", f.mode>>,
           NEW g, g = ToggleWifiBand(f)
    PROVE  /\ Remembers(g, h) /\ Consistent(g)
           /\ g.mode = f.mode /\ g.value["htmode"] = f.value["htmode"]
           /\ f.list["band"] = <<"band", f.mode>> => g.value["band"] = f.value["band"]
<1>1. f.mode \in HwModes /\ {"band", "channel", "htmode"} \subseteq Selects
  BY DEF Remembers, Settings, Selects
<1>. DEFINE lb == <<"band", f.mode>>
            e == SetValues(f, "band", lb)
            lc == <<"channel", e.value["band"]>>
<1>2. lb \in Lists /\ lb[1] = "band" /\ Options(lb) = Bands(f.mode) /\ Options(lb) # <<>>
  BY <1>1, ListOptions DEF RadioUsable
<1>3. /\ Remembers(e, h) /\ e.mode = f.mode /\ e.list["band"] = lb
      /\ e.list["htmode"] = f.list["htmode"] /\ e.value["htmode"] = f.value["htmode"]
      /\ f.list["band"] = lb => e.value["band"] = f.value["band"]
  <2>. HIDE DEF lb
  <2>1. \E x : x = e
    OBVIOUS
  <2>2. PICK x : x = e
    BY <2>1
  <2>3. /\ Remembers(x, h) /\ x.mode = f.mode /\ x.list["band"] = lb
        /\ \A t \in Selects \ {"band"} : x.list[t] = f.list[t] /\ x.value[t] = f.value[t]
        /\ f.list["band"] = lb => x.value["band"] = f.value["band"]
    BY <1>1, <1>2, <2>2, SetValuesKeeps
  <2>4. "htmode" \in Selects \ {"band"}
    BY <1>1
  <2>. QED BY <2>2, <2>3, <2>4
<1>4. Contains(Options(lb), e.value["band"])
  BY <1>1, <1>2, <1>3, ListOptions DEF Remembers
<1>5. e.value["band"] \in Range(Bands(f.mode)) /\ e.value["band"] \in DOMAIN Channels
  BY <1>1, <1>2, <1>4, BandsType DEF Contains, Range
<1>6. lc \in Lists /\ lc[1] = "channel" /\ Options(lc) # <<>>
  BY <1>1, <1>5, ListOptions DEF RadioUsable
<1>7. g = SetValues(e, "channel", lc)
  BY DEF ToggleWifiBand, ToggleWifiChannel
<1>. HIDE DEF lb, e, lc
<1>8. /\ Remembers(g, h) /\ g.mode = e.mode /\ g.list["channel"] = lc
      /\ \A t \in Selects \ {"channel"} : g.list[t] = e.list[t] /\ g.value[t] = e.value[t]
  BY <1>1, <1>3, <1>6, <1>7, SetValuesKeeps
<1>9. {"band", "htmode"} \subseteq Selects \ {"channel"}
  BY <1>1
<1>. QED BY <1>3, <1>8, <1>9 DEF Consistent, lb, lc

\* toggleWifiMode: all lists follow the mode.
LEMMA ModeToggled ==
    ASSUME RadioUsable, NEW f, NEW h, Remembers(f, h), NEW g, g = ToggleWifiMode(f)
    PROVE  Remembers(g, h) /\ Consistent(g) /\ g.mode = f.mode
<1>. DEFINE lh == <<"htmode", f.mode>>
            e == SetValues(f, "htmode", lh)
<1>1. f.mode \in HwModes /\ "htmode" \in Selects
  BY DEF Remembers, Settings, Selects
<1>2. lh \in Lists /\ lh[1] = "htmode" /\ Options(lh) # <<>>
  BY <1>1, ListOptions DEF RadioUsable
<1>3. g = ToggleWifiBand(e)
  BY DEF ToggleWifiMode, ToggleWifiHTMode
<1>. HIDE DEF lh
<1>4. Remembers(e, h) /\ e.mode = f.mode /\ e.list["htmode"] = lh
  <2>. HIDE DEF e
  <2>1. e = SetValues(f, "htmode", lh)
    BY DEF e
  <2>. QED BY <1>1, <1>2, <2>1, SetValuesKeeps
<1>5. e.list["htmode"] = <<"htmode", e.mode>>
  BY <1>4 DEF lh
<1>. HIDE DEF e
<1>. QED BY <1>3, <1>4, <1>5, BandToggled

\* A value that the list offers is selected.
LEMMA AssignedKeeps ==
    ASSUME NEW f, Remembers(f, Unseen), NEW s \in Selects, f.list[s] # NoList,
           NEW v, Contains(Options(f.list[s]), v), NEW g, g = Assigned(f, s, v)
    PROVE  /\ Remembers(g, Unseen)
           /\ g.mode = f.mode /\ g.list = f.list /\ g.value[s] = v
           /\ \A t \in Selects \ {s} : g.value[t] = f.value[t]
<1>1. f \in Settings /\ f.list[s] \in Lists
  BY DEF Remembers, Settings
<1>2. v \in Texts
  BY <1>1, FirstOption
<1>3. g = [f EXCEPT !.value[s] = v]
  BY DEF Assigned
<1>4. /\ f = [mode |-> f.mode, value |-> f.value, list |-> f.list, memory |-> f.memory]
      /\ f.mode \in HwModes /\ f.value \in [Selects -> Texts]
      /\ f.list \in [Selects -> Lists \cup {NoList}] /\ f.memory \in [Lists -> Texts]
  BY <1>1 DEF Settings
<1>5. g = [mode |-> f.mode, value |-> [f.value EXCEPT ![s] = v], list |-> f.list,
           memory |-> f.memory]
  BY <1>3, <1>4
<1>6. [f.value EXCEPT ![s] = v] \in [Selects -> Texts]
  BY <1>2, <1>4
<1>7. g \in Settings
  BY <1>4, <1>5, <1>6 DEF Settings
<1>8. /\ g.value[s] = v /\ \A t \in Selects \ {s} : g.value[t] = f.value[t]
      /\ g.list = f.list /\ g.memory = f.memory /\ g.mode = f.mode
  BY <1>4, <1>5
<1>9. \A l \in Lists : Unseen[l] = Nothing
  BY DEF Unseen
<1>10. \A t \in Selects : g.list[t] # NoList =>
         /\ g.list[t][1] = t
         /\ Contains(Options(g.list[t]), g.value[t])
         /\ Unseen[g.list[t]] \in {Nothing, g.value[t]}
  <2>1. \A t \in Selects : f.list[t] # NoList => f.list[t] \in Lists
    BY <1>4
  <2>. QED BY <1>8, <1>9, <2>1 DEF Remembers
<1>11. \A l \in Lists : IsShown(g, l) <=> IsShown(f, l)
  BY <1>8 DEF IsShown
<1>. QED BY <1>7, <1>8, <1>10, <1>11 DEF Remembers

BandOf(c) == IF c.hwmode = "11a" THEN "5g" ELSE IF c.hwmode # "" THEN "2g" ELSE c.band

\* setInitialValues: a configuration that the radio supports is what the selects show.
LEMMA InitialValues ==
    ASSUME RadioUsable, NEW c, Supported(c), NEW g, g = SetInitialValues(c)
    PROVE  /\ Remembers(g, Unseen) /\ Consistent(g)
           /\ g.mode = ModeOf(c.htmode)
           /\ g.value["band"] = BandOf(c)
           /\ g.value["htmode"] = c.htmode
           /\ g.value["channel"] = c.channel
<1>. DEFINE mode == ModeOf(c.htmode)
            none == [mode |-> mode, value |-> [s \in Selects |-> ""],
                     list |-> [s \in Selects |-> NoList], memory |-> [l \in Lists |-> Nothing]]
            f == ToggleWifiMode(none)
            b == Assigned(f, "band", BandOf(c))
            t == ToggleWifiBand(b)
            w == Assigned(t, "htmode", c.htmode)
<1>1. /\ mode \in HwModes /\ Contains(Widths(mode), c.htmode)
      /\ Contains(Bands(mode), BandOf(c)) /\ Contains(Chans(BandOf(c)), c.channel)
  BY DEF Supported, BandOf
<1>2. BandOf(c) \in DOMAIN Channels
  BY <1>1, BandsType DEF Contains
<1>3. {"band", "htmode", "channel"} = Selects
  BY DEF Selects
<1>4. g = Assigned(w, "channel", c.channel)
  <2>1. PICK T : Chans(BandOf(c)) \in Seq(T) /\ "" \notin T
    BY <1>2, ChansType
  <2>2. c.channel # ""
    BY <1>1, <2>1, ContainedIn
  <2>. QED BY <1>1, <2>2 DEF SetInitialValues, BandOf
<1>5. Remembers(none, Unseen) /\ none.mode = mode
  <2>1. none \in Settings
    BY <1>1, EmptyTexts DEF Settings
  <2>2. \A s \in Selects : none.list[s] = NoList
    OBVIOUS
  <2>3. \A l \in Lists : none.memory[l] = Nothing /\ Unseen[l] = Nothing
    BY DEF Unseen
  <2>. HIDE DEF none
  <2>. QED BY <2>1, <2>2, <2>3 DEF Remembers, none
<1>. HIDE DEF mode, none
<1>6. Remembers(f, Unseen) /\ Consistent(f) /\ f.mode = mode
  BY <1>5, ModeToggled
<1>. HIDE DEF f
<1>7. f.list["band"] = <<"band", mode>> /\ f.list["htmode"] = <<"htmode", mode>>
  BY <1>6 DEF Consistent
<1>8. /\ <<"band", mode>> # NoList /\ Options(<<"band", mode>>) = Bands(mode)
      /\ <<"htmode", mode>> # NoList /\ Options(<<"htmode", mode>>) = Widths(mode)
  BY <1>1, ListOptions
<1>9. Remembers(b, Unseen) /\ b.mode = mode /\ b.list = f.list /\ b.value["band"] = BandOf(c)
  <2>. HIDE DEF b
  <2>1. b = Assigned(f, "band", BandOf(c))
    BY DEF b
  <2>2. "band" \in Selects
    BY <1>3
  <2>. QED BY <1>1, <1>6, <1>7, <1>8, <2>1, <2>2, AssignedKeeps
<1>. HIDE DEF b
<1>10. /\ Remembers(t, Unseen) /\ Consistent(t) /\ t.mode = mode
       /\ t.value["band"] = BandOf(c)
  <2>. HIDE DEF t
  <2>1. t = ToggleWifiBand(b)
    BY DEF t
  <2>. QED BY <1>7, <1>9, <2>1, BandToggled
<1>. HIDE DEF t
<1>11. /\ Remembers(w, Unseen) /\ w.mode = mode /\ w.list = t.list
       /\ w.value["htmode"] = c.htmode /\ w.value["band"] = BandOf(c)
  <2>. HIDE DEF w
  <2>1. w = Assigned(t, "htmode", c.htmode)
    BY DEF w
  <2>2. "htmode" \in Selects /\ "band" \in Selects \ {"htmode"}
    BY <1>3
  <2>3. t.list["htmode"] = <<"htmode", mode>>
    BY <1>10 DEF Consistent
  <2>. QED BY <1>1, <1>8, <1>10, <2>1, <2>2, <2>3, AssignedKeeps
<1>. HIDE DEF w
<1>12. /\ Remembers(g, Unseen) /\ g.mode = mode /\ g.list = w.list
       /\ g.value["channel"] = c.channel
       /\ g.value["htmode"] = c.htmode /\ g.value["band"] = BandOf(c)
  <2>1. "channel" \in Selects /\ {"htmode", "band"} \subseteq Selects \ {"channel"}
    BY <1>3
  <2>2. w.list["channel"] = <<"channel", BandOf(c)>>
    BY <1>10, <1>11 DEF Consistent
  <2>3. <<"channel", BandOf(c)>> # NoList /\ Options(<<"channel", BandOf(c)>>) = Chans(BandOf(c))
    BY <1>2, ListOptions
  <2>. QED BY <1>1, <1>4, <1>11, <2>1, <2>2, <2>3, AssignedKeeps
<1>13. Consistent(g)
  BY <1>10, <1>11, <1>12 DEF Consistent
<1>. QED BY <1>12, <1>13 DEF mode

\* What shows up for the first time has been seen from then on.
LEMMA FirstShownKeeps ==
    ASSUME NEW f, NEW h \in [Lists -> Texts], Remembers(f, h), Consistent(f),
           NEW k, k = FirstShown(f, h)
    PROVE  /\ k \in [Lists -> Texts] /\ Remembers(f, k)
           /\ \A s \in Selects : f.value[s] = k[f.list[s]]
<1>1. f \in Settings
  BY DEF Remembers
<1>2. \A l \in Lists : IsShown(f, l) => l[1] \in Selects /\ f.list[l[1]] = l
  BY ListOptions DEF IsShown, Remembers
<1>3. \A l \in Lists : k[l] = IF h[l] # Nothing \/ ~ IsShown(f, l) THEN h[l] ELSE f.value[l[1]]
  BY DEF FirstShown, Shown
<1>4. k \in [Lists -> Texts]
  <2>1. k = [l \in Lists |-> k[l]]
    BY DEF FirstShown
  <2>2. \A l \in Lists : k[l] \in Texts
    BY <1>1, <1>2, <1>3 DEF Settings
  <2>. QED BY <2>1, <2>2
<1>5. \A s \in Selects : f.list[s] # NoList
  <2>1. f.mode \in HwModes /\ \A s \in Selects : f.list[s] # NoList <=> f.list[s] \in Lists
    BY <1>1, ListOptions DEF Settings
  <2>2. Selects = {"band", "htmode", "channel"}
    BY DEF Selects
  <2>3. f.list["band"] # NoList /\ f.list["htmode"] # NoList /\ f.list["channel"] # NoList
    BY DEF Consistent, NoList
  <2>. QED BY <2>2, <2>3
<1>6. \A s \in Selects : f.list[s] \in Lists /\ f.list[s][1] = s /\ IsShown(f, f.list[s])
  BY <1>1, <1>5 DEF Settings, Remembers, IsShown
<1>7. \A s \in Selects : k[f.list[s]] = f.value[s]
  <2>. SUFFICES ASSUME NEW s \in Selects PROVE k[f.list[s]] = f.value[s]
    OBVIOUS
  <2>1. h[f.list[s]] \in {Nothing, f.value[s]}
    BY <1>5 DEF Remembers
  <2>. QED BY <1>3, <1>6, <2>1
<1>8. \A l \in Lists : ~ IsShown(f, l) => k[l] = h[l]
  BY <1>3
<1>. QED BY <1>4, <1>7, <1>8 DEF Remembers

\* The first state of the selects.
LEMMA FreqStart == RadioUsable /\ (FreqInit \/ NoFreq) => FreqInv
<1>. SUFFICES ASSUME RadioUsable, FreqInit PROVE FreqInv
  BY DEF NoFreq, FreqInv
<1>1. Supported(conf) /\ freq = SetInitialValues(conf) /\ (useBand <=> conf.hwmode = "")
  BY DEF FreqInit
<1>2. Remembers(freq, Unseen) /\ Consistent(freq)
  BY <1>1, InitialValues
<1>3. last = FirstShown(freq, Unseen)
  BY DEF FreqInit, FirstShown, Unseen, Shown
<1>4. Unseen \in [Lists -> Texts]
  BY EmptyTexts DEF Unseen
<1>. QED BY <1>1, <1>2, <1>3, <1>4, FirstShownKeeps DEF FreqInv

\* The user selects.
LEMMA PickStays ==
    ASSUME RadioUsable, FreqInv, ~ lost,
           PickMode \/ PickBand \/ PickOther
    PROVE  FreqInv'
<1>1. /\ Remembers(freq, last) /\ Consistent(freq) /\ last \in [Lists -> Texts]
      /\ \A s \in Selects : freq.value[s] = last[freq.list[s]]
      /\ (useBand <=> conf.hwmode = "") /\ freq \in Settings
  BY DEF FreqInv, Remembers
<1>2. useBand' = useBand /\ conf' = conf /\ lost' = lost
  BY DEF PickMode, PickBand, PickOther, Shows
<1>3. ASSUME NEW h \in [Lists -> Texts], Remembers(freq', h), Consistent(freq'),
             last' = FirstShown(freq', h)
      PROVE  FreqInv'
  <2>1. /\ last' \in [Lists -> Texts] /\ Remembers(freq', last')
        /\ \A s \in Selects : freq'.value[s] = last'[freq'.list[s]]
    BY <1>3, FirstShownKeeps
  <2>. QED BY <1>1, <1>2, <1>3, <2>1 DEF FreqInv
<1>4. CASE PickMode
  <2>1. PICK m \in HwModes : freq' = ToggleWifiMode([freq EXCEPT !.mode = m])
                             /\ last' = FirstShown(freq', last)
    BY <1>4 DEF PickMode, Shows
  <2>. DEFINE f == [freq EXCEPT !.mode = m]
  <2>2. /\ f \in Settings /\ f.list = freq.list /\ f.value = freq.value
        /\ f.memory = freq.memory
    BY <1>1 DEF Settings
  <2>3. freq' = ToggleWifiMode(f)
    BY <2>1
  <2>. HIDE DEF f
  <2>4. \A l \in Lists : IsShown(f, l) <=> IsShown(freq, l)
    BY <2>2 DEF IsShown
  <2>5. Remembers(f, last)
    BY <1>1, <2>2, <2>4 DEF Remembers
  <2>6. Remembers(freq', last) /\ Consistent(freq')
    BY <2>3, <2>5, ModeToggled
  <2>. QED BY <1>1, <1>3, <2>1, <2>6
<1>5. ASSUME NEW s \in Selects, NEW v, freq.list[s] # NoList, Contains(Options(freq.list[s]), v)
      PROVE  /\ Remembers([freq EXCEPT !.value[s] = v], Picked(s, v))
             /\ Picked(s, v) \in [Lists -> Texts]
             /\ [freq EXCEPT !.value[s] = v].value[s] = v
             /\ [freq EXCEPT !.value[s] = v].list = freq.list
             /\ [freq EXCEPT !.value[s] = v].mode = freq.mode
             /\ \A t \in Selects \ {s} : [freq EXCEPT !.value[s] = v].value[t] = freq.value[t]
  <2>. DEFINE f == [freq EXCEPT !.value[s] = v]
              h == Picked(s, v)
              l == freq.list[s]
  <2>1. l \in Lists /\ l[1] = s /\ v \in Texts /\ v # Nothing
    <3>1. l \in Lists
      BY <1>1, <1>5 DEF Settings
    <3>. QED BY <1>1, <1>5, <3>1, FirstOption DEF Remembers
  <2>2. /\ f \in Settings /\ f.list = freq.list /\ f.memory = freq.memory /\ f.value[s] = v
        /\ \A t \in Selects \ {s} : f.value[t] = freq.value[t]
        /\ f.mode = freq.mode
    <3>1. /\ freq = [mode |-> freq.mode, value |-> freq.value, list |-> freq.list,
                     memory |-> freq.memory]
          /\ freq.mode \in HwModes /\ freq.value \in [Selects -> Texts]
          /\ freq.list \in [Selects -> Lists \cup {NoList}] /\ freq.memory \in [Lists -> Texts]
      BY <1>1 DEF Settings
    <3>2. f = [mode |-> freq.mode, value |-> [freq.value EXCEPT ![s] = v], list |-> freq.list,
               memory |-> freq.memory]
      BY <3>1
    <3>3. [freq.value EXCEPT ![s] = v] \in [Selects -> Texts]
      BY <2>1, <3>1
    <3>. HIDE DEF f
    <3>. QED BY <3>1, <3>2, <3>3 DEF Settings
  <2>3. /\ h \in [Lists -> Texts] /\ h[l] = v
        /\ \A k \in Lists \ {l} : h[k] = last[k]
    BY <1>1, <2>1 DEF Picked
  <2>. HIDE DEF f, h
  <2>4. ASSUME NEW t \in Selects, f.list[t] # NoList
        PROVE  /\ f.list[t][1] = t
               /\ Contains(Options(f.list[t]), f.value[t])
               /\ h[f.list[t]] \in {Nothing, f.value[t]}
    <3>1. f.list[t] \in Lists /\ f.list[t][1] = t
      <4>1. f.list[t] = freq.list[t] /\ freq.list[t] \in Lists \cup {NoList}
        BY <1>1, <2>2 DEF Settings
      <4>. QED BY <1>1, <2>4, <4>1 DEF Remembers
    <3>2. CASE t = s
      BY <1>5, <2>2, <2>3, <3>1, <3>2
    <3>3. CASE t # s
      <4>1. f.list[t] # l
        BY <2>1, <3>1, <3>3
      <4>2. h[f.list[t]] = last[f.list[t]] /\ f.value[t] = freq.value[t] /\ f.list[t] = freq.list[t]
        BY <2>2, <2>3, <3>1, <3>3, <4>1
      <4>. QED BY <1>1, <2>4, <4>2 DEF Remembers
    <3>. QED BY <3>2, <3>3
  <2>5. ASSUME NEW k \in Lists, ~ IsShown(f, k)
        PROVE  /\ f.memory[k] = Nothing \/ Contains(Options(k), f.memory[k])
               /\ h[k] # Nothing => f.memory[k] = h[k]
    <3>1. ~ IsShown(freq, k) /\ k # l
      BY <2>2, <2>5 DEF IsShown
    <3>. QED BY <1>1, <2>2, <2>3, <3>1 DEF Remembers
  <2>6. Remembers(f, h)
    BY <2>2, <2>4, <2>5 DEF Remembers
  <2>. QED BY <2>2, <2>3, <2>6 DEF f, h
<1>6. CASE PickBand
  <2>1. PICK s : s = "band"
    OBVIOUS
  <2>2. s \in Selects /\ freq.list[s] # NoList
    <3>1. freq.list["band"] = <<"band", freq.mode>>
      BY <1>1 DEF Consistent
    <3>. QED BY <2>1, <3>1 DEF NoList, Selects
  <2>3. PICK b \in Range(Options(freq.list[s])) :
          /\ freq' = ToggleWifiBand([freq EXCEPT !.value[s] = b])
          /\ last' = FirstShown(freq', Picked(s, b))
    BY <1>6, <2>1 DEF PickBand, Shows
  <2>4. Contains(Options(freq.list[s]), b)
    <3>1. freq.list[s] \in Lists
      BY <1>1, <2>2 DEF Settings
    <3>2. PICK T : Options(freq.list[s]) \in Seq(T)
      BY <3>1, OptionsType
    <3>. QED BY <2>3, <3>2 DEF Contains, Range
  <2>. DEFINE f == [freq EXCEPT !.value[s] = b]
  <2>5. /\ Remembers(f, Picked(s, b)) /\ Picked(s, b) \in [Lists -> Texts]
        /\ f.list = freq.list /\ f.mode = freq.mode
    BY <1>5, <2>2, <2>4
  <2>6. freq' = ToggleWifiBand(f)
    BY <2>3
  <2>. HIDE DEF f
  <2>7. f.list["htmode"] = <<"htmode", f.mode>>
    BY <1>1, <2>5 DEF Consistent
  <2>8. Remembers(freq', Picked(s, b)) /\ Consistent(freq')
    BY <2>5, <2>6, <2>7, BandToggled
  <2>. QED BY <1>3, <2>3, <2>5, <2>8
<1>7. CASE PickOther
  <2>a. PICK s \in {"htmode", "channel"} :
          /\ freq.list[s] # NoList
          /\ \E v \in Range(Options(freq.list[s])) :
               /\ freq' = [freq EXCEPT !.value[s] = v]
               /\ last' = FirstShown(freq', Picked(s, v))
    BY <1>7 DEF PickOther, Shows
  <2>1. PICK v \in Range(Options(freq.list[s])) :
          /\ freq' = [freq EXCEPT !.value[s] = v]
          /\ last' = FirstShown(freq', Picked(s, v))
    BY <2>a
  <2>2. s \in Selects /\ "band" \in Selects \ {s}
    BY DEF Selects
  <2>3. Contains(Options(freq.list[s]), v)
    <3>1. freq.list[s] \in Lists
      BY <1>1, <2>a, <2>2 DEF Settings
    <3>2. PICK T : Options(freq.list[s]) \in Seq(T)
      BY <3>1, OptionsType
    <3>. QED BY <2>1, <3>2 DEF Contains, Range
  <2>. DEFINE f == [freq EXCEPT !.value[s] = v]
  <2>4. /\ Remembers(f, Picked(s, v)) /\ Picked(s, v) \in [Lists -> Texts]
        /\ f.list = freq.list /\ f.mode = freq.mode
        /\ \A t \in Selects \ {s} : f.value[t] = freq.value[t]
    BY <1>5, <2>a, <2>2, <2>3
  <2>5. freq' = f
    BY <2>1
  <2>. HIDE DEF f
  <2>6. Consistent(f)
    BY <1>1, <2>2, <2>4 DEF Consistent
  <2>. QED BY <1>3, <2>1, <2>4, <2>5, <2>6
<1>. QED BY <1>4, <1>6, <1>7

\* The dialog is saved and opened again: it shows the same lists with the same values.
LEMMA SaveFrequencyStays ==
    ASSUME RadioUsable, FreqInv, ~ lost, SaveFrequency
    PROVE  FreqInv'
<1>1. /\ Remembers(freq, last) /\ Consistent(freq)
      /\ (useBand <=> conf.hwmode = "") /\ freq \in Settings
  BY DEF FreqInv, Remembers
<1>2. /\ conf' = Written(freq) /\ freq' = SetInitialValues(conf') /\ useBand' = useBand
      /\ last' = FirstShown(freq', Shown(freq, Unseen))
      /\ lost' = (lost \/ (~ useBand /\ freq.value["band"] \in {"6g", "60g"}))
  BY DEF SaveFrequency
<1>. SUFFICES ASSUME ~ lost' PROVE FreqInv'
  BY DEF FreqInv
<1>3. Selects = {"band", "htmode", "channel"} /\ freq.mode \in HwModes
  BY <1>1 DEF Selects, Settings
<1>4. /\ Contains(Bands(freq.mode), freq.value["band"])
      /\ Contains(Widths(freq.mode), freq.value["htmode"])
  <2>1. \A s \in {"band", "htmode"} : Contains(Options(freq.list[s]), freq.value[s])
    <3>1. \A s \in {"band", "htmode"} : freq.list[s] # NoList
      BY <1>1, <1>3, ListOptions DEF Consistent
    <3>. QED BY <1>1, <1>3, <3>1 DEF Remembers
  <2>. QED BY <1>1, <1>3, <2>1, ListOptions DEF Consistent
<1>5. freq.value["band"] \in DOMAIN Channels
  BY <1>3, <1>4, BandsType, ContainedIn
<1>6. Contains(Chans(freq.value["band"]), freq.value["channel"])
  <2>1. freq.list["channel"] # NoList
    BY <1>1, <1>5, ListOptions DEF Consistent
  <2>2. Contains(Options(freq.list["channel"]), freq.value["channel"])
    BY <1>1, <1>3, <2>1 DEF Remembers
  <2>. QED BY <1>1, <1>5, <2>2, ListOptions DEF Consistent
<1>7. /\ conf'.htmode = freq.value["htmode"] /\ conf'.channel = freq.value["channel"]
      /\ conf'.band = (IF useBand THEN freq.value["band"] ELSE conf.band)
      /\ conf'.hwmode = (IF useBand THEN conf.hwmode
                         ELSE IF freq.value["band"] = "2g" THEN "11g" ELSE "11a")
  BY <1>2 DEF Written
<1>8. BandOf(conf') = freq.value["band"] /\ (useBand' <=> conf'.hwmode = "")
  <2>1. CASE useBand
    BY <1>1, <1>2, <1>7, <2>1 DEF BandOf
  <2>2. CASE ~ useBand
    <3>1. freq.value["band"] \in {"2g", "5g"}
      BY <1>2, <1>5, <2>2, PicksAssumption
    <3>. QED BY <1>2, <1>7, <2>2, <3>1 DEF BandOf
  <2>. QED BY <2>1, <2>2
<1>9. ModeOf(conf'.htmode) = freq.mode
  <2>1. freq.value["htmode"] \in Range(Widths(freq.mode))
    <3>1. PICK T : Widths(freq.mode) \in Seq(T)
      BY <1>3, WidthsType
    <3>. QED BY <1>4, <3>1 DEF Contains, Range
  <2>. QED BY <1>3, <1>7, <2>1 DEF RadioUsable
<1>10. Supported(conf')
  BY <1>3, <1>4, <1>6, <1>7, <1>8, <1>9 DEF Supported, BandOf
<1>11. /\ Remembers(freq', Unseen) /\ Consistent(freq') /\ freq'.mode = freq.mode
       /\ freq'.value["band"] = freq.value["band"]
       /\ freq'.value["htmode"] = freq.value["htmode"]
       /\ freq'.value["channel"] = freq.value["channel"]
  <2>. DEFINE c == conf'
  <2>1. Supported(c) /\ freq' = SetInitialValues(c)
    BY <1>2, <1>10
  <2>2. /\ ModeOf(c.htmode) = freq.mode /\ BandOf(c) = freq.value["band"]
        /\ c.htmode = freq.value["htmode"] /\ c.channel = freq.value["channel"]
    BY <1>7, <1>8, <1>9
  <2>. HIDE DEF c
  <2>. QED BY <2>1, <2>2, InitialValues
<1>12. \A s \in Selects : freq'.list[s] = freq.list[s] /\ freq'.value[s] = freq.value[s]
  BY <1>1, <1>3, <1>11 DEF Consistent
<1>. DEFINE h == Shown(freq, Unseen)
<1>13. \A l \in Lists : IsShown(freq', l) <=> IsShown(freq, l)
  BY <1>12 DEF IsShown
<1>14. \A l \in Lists : h[l] = IF IsShown(freq, l) THEN freq.value[l[1]] ELSE Nothing
  BY DEF Shown, Unseen
<1>15. \A l \in Lists : IsShown(freq, l) => l[1] \in Selects /\ freq.list[l[1]] = l
  BY <1>1, ListOptions DEF IsShown, Remembers
<1>16. h \in [Lists -> Texts]
  <2>1. h = [l \in Lists |-> h[l]]
    BY DEF Shown
  <2>2. \A l \in Lists : h[l] \in Texts
    BY <1>1, <1>14, <1>15, EmptyTexts DEF Settings
  <2>. HIDE DEF h
  <2>. QED BY <2>1, <2>2
<1>. HIDE DEF h
<1>17. Remembers(freq', h)
  <2>1. ASSUME NEW s \in Selects, freq'.list[s] # NoList
        PROVE  h[freq'.list[s]] = freq'.value[s]
    <3>1. freq'.list[s] = freq.list[s] /\ freq.list[s] \in Lists /\ freq'.value[s] = freq.value[s]
      BY <1>1, <1>12, <2>1 DEF Settings
    <3>2. freq.list[s][1] = s /\ IsShown(freq, freq.list[s])
      BY <1>1, <1>12, <2>1 DEF Remembers, IsShown
    <3>. QED BY <1>14, <3>1, <3>2
  <2>2. \A l \in Lists : ~ IsShown(freq', l) => h[l] = Nothing
    BY <1>13, <1>14
  <2>. QED BY <1>11, <2>1, <2>2 DEF Remembers
<1>18. /\ last' \in [Lists -> Texts] /\ Remembers(freq', last')
       /\ \A s \in Selects : freq'.value[s] = last'[freq'.list[s]]
  BY <1>2, <1>11, <1>16, <1>17, FirstShownKeeps DEF h
<1>. QED BY <1>8, <1>11, <1>18 DEF FreqInv

\* Every step of the selects keeps the invariant.
LEMMA FreqStep ==
    RadioUsable /\ FreqInv /\ (FreqNext \/ UNCHANGED freqVars) => FreqInv'
<1>. SUFFICES ASSUME RadioUsable, FreqInv, FreqNext \/ UNCHANGED freqVars PROVE FreqInv'
  OBVIOUS
<1>1. CASE lost
  <2>1. lost'
    BY <1>1 DEF FreqNext, PickMode, PickBand, PickOther, Shows, SaveFrequency, freqVars
  <2>. QED BY <2>1 DEF FreqInv
<1>2. CASE ~ lost /\ FreqNext
  BY <1>2, PickStays, SaveFrequencyStays DEF FreqNext
<1>3. CASE UNCHANGED freqVars
  BY <1>3 DEF freqVars, FreqInv, Remembers, IsShown, Consistent
<1>. QED BY <1>1, <1>2, <1>3

\* The invariant is stronger than the property.
LEMMA FreqImplies == FreqInv => FrequencyKept
<1>. SUFFICES ASSUME FreqInv, ~ lost PROVE FrequencyKept
  BY DEF FrequencyKept
<1>1. Remembers(freq, last) /\ Consistent(freq) /\ freq \in Settings
      /\ \A s \in Selects : freq.value[s] = last[freq.list[s]]
  BY DEF FreqInv, Remembers
<1>2. \A s \in Selects : freq.list[s] # NoList
  <2>1. Selects = {"band", "htmode", "channel"}
    BY DEF Selects
  <2>2. freq.list["band"] # NoList /\ freq.list["htmode"] # NoList /\ freq.list["channel"] # NoList
    BY <1>1 DEF Consistent, NoList
  <2>. QED BY <2>1, <2>2
<1>. QED BY <1>1, <1>2 DEF FrequencyKept, Remembers, Consistent

\* setValues, setInitialValues and write: for a radio that can be set up in each of its
\* modes, the four selects always show one setting that it supports, a list comes back
\* with what was last seen in it, and what was saved is shown again.
THEOREM SettingsKept ==
    ASSUME RadioUsable
    PROVE  PartsSpec => []FrequencyKept
<1>1. PartsInit => FreqInv
  BY FreqStart DEF PartsInit
<1>2. FreqInv /\ [PartsNext]_<<part, fieldVars, fileVars, viewVars, rowVars, wifiVars, freqVars, ddnsVars, vars, netVars>>
        => FreqInv'
  BY FreqStep DEF PartsNext
<1>3. FreqInv => FrequencyKept
  BY FreqImplies
<1>. QED BY <1>1, <1>2, <1>3, PTL DEF PartsSpec

=============================================================================
