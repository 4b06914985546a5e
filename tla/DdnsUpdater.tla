---------------------------- MODULE DdnsUpdater ----------------------------
(***************************************************************************)
(* usr/lib/ddns/dynamic_dns_updater.sh and dynamic_dns_functions.sh: the   *)
(* processes that keep one DDNS section's name pointing at the router.     *)
(*                                                                         *)
(* A process kills the one its pid file names, takes over the pid file,    *)
(* and then loops: find the current address, send an update if it is not   *)
(* the registered one or if the last update is too old, sleep, look the    *)
(* name up.  Hotplug events, init.d/ddns and SIGHUP start processes, all   *)
(* of them in the background, so several may be starting at once.          *)
(*                                                                         *)
(* Times are ages, capped: an age of ForceSeconds means "that old, or      *)
(* never", which is all the code asks of it.                               *)
(***************************************************************************)
EXTENDS Integers, FiniteSets

CONSTANTS Procs,         \* process ids
          NoProc,
          Addrs,         \* addresses the uplink can get
          Public,        \* those that send_update() does not call private
          NoAddr,
          CheckSeconds,  \* ticks between two checks
          ForceSeconds,  \* ticks until an update is forced; 0: run once
          RetrySeconds,  \* ticks between two attempts
          RetryMaxCount, \* 0: retry for ever
          NewName,       \* the name may have no address at the beginning
          AdminStops,    \* "init.d/ddns stop" may happen
          MaxFaults,     \* bound: failures, address changes and reboots
          MaxStarts      \* bound: processes started

ASSUME AddrAssumption == Public \subseteq Addrs /\ NoAddr \notin Addrs
ASSUME ProcAssumption == NoProc \notin Procs
ASSUME TimeAssumption == /\ CheckSeconds \in Nat \ {0}
                         /\ ForceSeconds \in Nat
                         /\ RetrySeconds \in Nat
                         /\ RetryMaxCount \in Nat
                         /\ {NewName, AdminStops} \subseteq BOOLEAN
                         /\ MaxFaults \in Nat /\ MaxStarts \in Nat

VARIABLES proc,      \* the processes
          pidfile,   \* $PIDFILE
          updfile,   \* $UPDFILE: age of the last update
          wan,       \* address of the uplink
          provider,  \* address the DDNS provider holds
          dns,       \* address the name resolves to
          sent,      \* history: ticks since a process had an update answered
          faults,    \* history: faults so far
          starts,    \* history: processes started so far
          raced,     \* history: those that took over since a process' own kill
          lost       \* history: those whose pid such a process overwrote

starting == <<starts, raced, lost>>
vars == <<proc, pidfile, updfile, wan, provider, dns, sent, faults, starting>>
world == <<wan, provider, dns>>
files == <<pidfile, updfile>>

Never == ForceSeconds     \* as the age of an update
Future == -1              \* an age: the stamp is from before a reboot
NotSent == CheckSeconds + 1
Ages == 0..ForceSeconds
MaybeAddr == Addrs \cup {NoAddr}

Starting == {"kill", "claim"}
Looping == {"load", "first", "lookup0", "detect", "sending", "record", "sleep",
            "lookup"}
Resume == {"lookup0", "sending", "lookup"}

\* current, registered: CURRENT_IP, REGISTERED_IP.  last: age of LAST_TIME.
\* left, resume: of the running sleep, and what comes after it.  cnt: __CNT of
\* the function that runs.  retries: RETRY_COUNT.  term: SIGTERM is pending.
Process == [pc : {"free"} \cup Starting \cup Looping,
            current : MaybeAddr, registered : MaybeAddr, last : Ages,
            left : Nat, resume : Resume, cnt : Nat, retries : Nat,
            term : BOOLEAN]

Free == [pc |-> "free", current |-> NoAddr, registered |-> NoAddr,
         last |-> Never, left |-> 0, resume |-> "lookup", cnt |-> 0,
         retries |-> 0, term |-> FALSE]

TypeOK ==
    /\ proc \in [Procs -> Process]
    /\ pidfile \in Procs \cup {NoProc}
    /\ updfile \in Ages \cup {Future}
    /\ wan \in MaybeAddr /\ provider \in MaybeAddr /\ dns \in MaybeAddr
    /\ sent \in [Procs -> 0..NotSent]
    /\ faults \in 0..MaxFaults
    /\ starts \in 0..MaxStarts
    /\ raced \in [Procs -> SUBSET Procs]
    /\ lost \subseteq Procs

Init ==
    /\ proc = [p \in Procs |-> Free]
    /\ pidfile = NoProc
    /\ updfile = Never
    /\ wan = NoAddr
    /\ provider \in IF NewName THEN MaybeAddr ELSE Addrs
    /\ dns = provider
    /\ sent = [p \in Procs |-> NotSent]
    /\ faults = 0
    /\ starts = 0
    /\ raced = [p \in Procs |-> {}]
    /\ lost = {}

-----------------------------------------------------------------------------
\* A process with SIGTERM pending runs no further command.
At(p, pc) == proc[p].pc = pc /\ ~proc[p].term

Become(p, r) == proc' = [proc EXCEPT ![p] = r]

Fault == faults < MaxFaults /\ faults' = faults + 1

Slept(r, seconds, resume) ==
    [r EXCEPT !.pc = "sleep", !.left = seconds, !.resume = resume]

\* A failed attempt of get_registered_ip() or do_transfer(): try again after
\* RETRY_SECONDS, or give up and exit.
Retried(r, resume) ==
    IF RetryMaxCount = 0 THEN Slept(r, RetrySeconds, resume)
    ELSE IF r.cnt + 1 > RetryMaxCount THEN Free
    ELSE [Slept(r, RetrySeconds, resume) EXCEPT !.cnt = @ + 1]

\* Mutant: the process leaves as soon as the name is right.
ComparedOnce(r) ==
    IF r.current # r.registered
    THEN IF RetryMaxCount > 0 /\ r.retries + 1 > RetryMaxCount THEN Free
         ELSE [r EXCEPT !.pc = "detect",
                        !.retries = IF RetryMaxCount = 0 THEN 0 ELSE @ + 1]
    ELSE Free

\* Main loop, to its end: is the name registered with the address sent?
Compared(r) ==
    IF r.current # r.registered
    THEN IF RetryMaxCount > 0 /\ r.retries + 1 > RetryMaxCount THEN Free
         ELSE [r EXCEPT !.pc = "detect",
                        !.retries = IF RetryMaxCount = 0 THEN 0 ELSE @ + 1]
    ELSE IF ForceSeconds = 0 THEN Free
    ELSE [r EXCEPT !.pc = "detect", !.retries = 0]

\* send_update() sends no private address unless upd_privateip is set.
Sendable(addr) == addr \in Public

\* Processes with SIGTERM sent to the one in the pid file, if it runs.
Killed(by) ==
    [p \in Procs |-> IF p = pidfile /\ p # by /\ proc[p].pc # "free"
                     THEN [proc[p] EXCEPT !.term = TRUE] ELSE proc[p]]

\* procs with a new process, and an id that no file remembers.
Spawn(procs) ==
    /\ starts < MaxStarts
    /\ starts' = starts + 1
    /\ \E p \in Procs \ {pidfile} :
         /\ proc[p].pc = "free"
         /\ proc' = [procs EXCEPT ![p] = [Free EXCEPT !.pc = "kill"]]
         /\ sent' = [sent EXCEPT ![p] = NotSent]
         /\ raced' = [q \in Procs |-> IF q = p THEN {} ELSE raced[q] \ {p}]
         /\ lost' = lost \ {p}

-----------------------------------------------------------------------------
(* One process.                                                            *)

\* Mutant: only the sleep is stopped, not a process that is busy.
StopSleep(p) ==
    /\ At(p, "kill")
    /\ proc' = [q \in Procs |-> IF q = p THEN [proc[q] EXCEPT !.pc = "claim"]
                    ELSE IF proc[q].pc = "sleep" THEN Killed(p)[q] ELSE proc[q]]
    /\ raced' = [raced EXCEPT ![p] = {}]
    /\ UNCHANGED <<files, world, sent, faults, starts, lost>>

\* stop_section_processes()
StopSectionProcesses(p) ==
    /\ At(p, "kill")
    /\ proc' = [Killed(p) EXCEPT ![p].pc = "claim"]
    /\ raced' = [raced EXCEPT ![p] = {}]
    /\ UNCHANGED <<files, world, sent, faults, starts, lost>>

\* echo $$ > $PIDFILE
WritePidFile(p) ==
    /\ At(p, "claim")
    /\ pidfile' = p
    /\ Become(p, [proc[p] EXCEPT !.pc = "load"])
    /\ raced' = [q \in Procs |->
                   IF q # p /\ proc[q].pc = "claim" THEN raced[q] \cup {p} ELSE raced[q]]
    /\ lost' = lost \cup raced[p]
    /\ UNCHANGED <<updfile, world, sent, faults, starts>>

\* LAST_TIME=$(cat $UPDFILE), or never if that is later than now.
LoadLastTime(p) ==
    /\ At(p, "load")
    /\ Become(p, [proc[p] EXCEPT !.pc = "first",
                    !.last = IF updfile = Future THEN Never ELSE updfile])
    /\ UNCHANGED <<files, world, sent, faults, starting>>

\* get_registered_ip REGISTERED_IP "NO_RETRY": only an error, not a name
\* without an address, calls for more attempts.
FirstLookup(p) ==
    /\ At(p, "first")
    /\ \/ /\ Become(p, [proc[p] EXCEPT !.pc = "detect", !.registered = dns])
          /\ UNCHANGED faults
       \/ /\ Fault
          /\ Become(p, [proc[p] EXCEPT !.pc = "lookup0", !.cnt = 0])
    /\ UNCHANGED <<files, world, sent, starting>>

\* get_registered_ip REGISTERED_IP: "resume" says which of its two calls.
GetRegisteredIp(p, pc) ==
    /\ At(p, pc)
    /\ \/ /\ dns # NoAddr
          /\ LET found == [proc[p] EXCEPT !.registered = dns] IN
             Become(p, IF pc = "lookup0" THEN [found EXCEPT !.pc = "detect"]
                       ELSE Compared(found))
          /\ UNCHANGED faults
       \/ /\ dns = NoAddr
          /\ Become(p, Retried(proc[p], pc))
          /\ UNCHANGED faults
       \/ /\ Fault
          /\ Become(p, Retried(proc[p], pc))
    /\ UNCHANGED <<files, world, sent, starting>>

\* Mutant: the force interval is forgotten.
DetectChange(p) ==
    /\ At(p, "detect")
    /\ LET r == [proc[p] EXCEPT !.current = wan, !.cnt = 0]
       IN  Become(p, IF wan = NoAddr THEN Free
                     ELSE IF wan # r.registered /\ Sendable(wan)
                     THEN [r EXCEPT !.pc = "sending"]
                     ELSE Slept(r, CheckSeconds, "lookup"))
    /\ UNCHANGED <<files, world, sent, faults, starting>>

\* get_current_ip CURRENT_IP from the network, which exits if there is no
\* address, and the decision to send.
Detect(p) ==
    /\ At(p, "detect")
    /\ LET r == [proc[p] EXCEPT !.current = wan, !.cnt = 0]
           due == r.last >= ForceSeconds \/ wan # r.registered
       IN  Become(p, IF wan = NoAddr THEN Free
                     ELSE IF due /\ Sendable(wan) THEN [r EXCEPT !.pc = "sending"]
                     ELSE Slept(r, CheckSeconds, "lookup"))
    /\ UNCHANGED <<files, world, sent, faults, starting>>

\* do_transfer(): the provider takes the update and says so.  A transfer that
\* is running ends before a pending SIGTERM is handled.
Accepted(p) ==
    /\ proc[p].pc = "sending"
    /\ provider' = proc[p].current
    /\ Become(p, [proc[p] EXCEPT !.pc = "record", !.cnt = 0])
    /\ sent' = [sent EXCEPT ![p] = 0]
    /\ UNCHANGED <<files, wan, dns, faults, starting>>

\* Mutant: a refused update is tried again after RETRY_SECONDS.
RejectedRetries(p) ==
    /\ proc[p].pc = "sending"
    /\ Fault
    /\ Become(p, [Slept(proc[p], RetrySeconds, "sending") EXCEPT !.cnt = 0])
    /\ sent' = [sent EXCEPT ![p] = 0]
    /\ UNCHANGED <<files, world, starting>>

\* The provider's answer is not the expected one.
Rejected(p) ==
    /\ proc[p].pc = "sending"
    /\ Fault
    /\ Become(p, [Slept(proc[p], CheckSeconds, "lookup") EXCEPT !.cnt = 0])
    /\ sent' = [sent EXCEPT ![p] = 0]
    /\ UNCHANGED <<files, world, starting>>

\* There is no answer; the update may have arrived or not.
TransferError(p) ==
    /\ proc[p].pc = "sending"
    /\ Fault
    /\ provider' \in {provider, proc[p].current}
    /\ Become(p, Retried(proc[p], "sending"))
    /\ UNCHANGED <<files, wan, dns, sent, starting>>

\* get_uptime LAST_TIME; echo $LAST_TIME > $UPDFILE
RecordUpdate(p) ==
    /\ At(p, "record")
    /\ updfile' = 0
    /\ Become(p, Slept([proc[p] EXCEPT !.last = 0], CheckSeconds, "lookup"))
    /\ UNCHANGED <<pidfile, world, sent, faults, starting>>

\* sleep & wait
Wake(p) ==
    /\ At(p, "sleep")
    /\ proc[p].left = 0
    /\ Become(p, [proc[p] EXCEPT !.pc = proc[p].resume])
    /\ UNCHANGED <<files, world, sent, faults, starting>>

\* trap_handler 15
Terminate(p) ==
    /\ proc[p].term
    /\ proc[p].pc # "sending"
    /\ Become(p, Free)
    /\ UNCHANGED <<files, world, sent, faults, starting>>

\* trap_handler 1: start the section again and leave.
Hangup(p) ==
    /\ proc[p].pc \notin {"free", "sending"}
    /\ ~proc[p].term
    /\ Spawn([proc EXCEPT ![p] = Free])
    /\ UNCHANGED <<files, world, faults>>

Run(p) ==
    \/ StopSectionProcesses(p) \/ WritePidFile(p) \/ LoadLastTime(p)
    \/ FirstLookup(p) \/ GetRegisteredIp(p, "lookup0") \/ Detect(p)
    \/ Accepted(p) \/ Rejected(p) \/ TransferError(p) \/ RecordUpdate(p)
    \/ Wake(p) \/ GetRegisteredIp(p, "lookup") \/ Terminate(p)

-----------------------------------------------------------------------------
(* The router and the network.                                             *)

\* hotplug.d/iface/95-ddns, ACTION=ifup
IfUp ==
    /\ wan = NoAddr
    /\ wan' \in Addrs
    /\ Spawn(proc)
    /\ UNCHANGED <<files, provider, dns, faults>>

\* hotplug.d/iface/95-ddns, ACTION=ifdown
IfDown ==
    /\ wan # NoAddr
    /\ wan' = NoAddr
    /\ proc' = Killed(NoProc)
    /\ UNCHANGED <<files, provider, dns, sent, faults, starting>>

\* ACTION=ifupdate: nothing is started or stopped.
IfUpdate ==
    /\ wan # NoAddr
    /\ Fault
    /\ wan' \in Addrs \ {wan}
    /\ UNCHANGED <<proc, files, provider, dns, sent, starting>>

\* init.d/ddns stop
Stop ==
    /\ AdminStops
    /\ proc' = Killed(NoProc)
    /\ UNCHANGED <<files, world, sent, faults, starting>>

\* init.d/ddns restart, and LuCI's button: stop, then start.
Restart ==
    /\ Spawn(Killed(NoProc))
    /\ UNCHANGED <<files, world, faults>>

\* The files may be on a disk; uptime starts again.
Reboot ==
    /\ Fault
    /\ proc' = [p \in Procs |-> Free]
    /\ updfile' \in {Future} \cup (IF updfile = Never THEN {Never} ELSE {})
    /\ wan' = NoAddr
    /\ UNCHANGED <<pidfile, provider, dns, sent, starting>>

Publish ==
    /\ dns # provider
    /\ dns' = provider
    /\ UNCHANGED <<proc, files, wan, provider, sent, faults, starting>>

Older(age, cap) == IF age < cap THEN age + 1 ELSE age

Tick ==
    /\ proc' = [p \in Procs |-> [proc[p] EXCEPT !.last = Older(@, ForceSeconds),
                                   !.left = IF @ > 0 THEN @ - 1 ELSE 0]]
    /\ updfile' \in IF updfile = Future THEN {Future, 0}
                    ELSE {Older(updfile, ForceSeconds)}
    /\ sent' = [p \in Procs |-> IF sent[p] = NotSent THEN NotSent
                                ELSE Older(sent[p], CheckSeconds)]
    /\ UNCHANGED <<pidfile, world, faults, starting>>

Next ==
    \/ \E p \in Procs : Run(p) \/ Hangup(p)
    \/ IfUp \/ IfDown \/ IfUpdate \/ Stop \/ Restart \/ Reboot
    \/ Publish \/ Tick

Spec == Init /\ [][Next]_vars

\* Processes run, time passes, and the name servers follow the provider.
Fairness == /\ \A p \in Procs : WF_vars(Run(p))
            /\ WF_vars(Tick)
            /\ WF_vars(Publish)

FairSpec == Spec /\ Fairness

-----------------------------------------------------------------------------
(* Properties.                                                             *)

\* Starting a process replaces the one that runs ("kill old process if it
\* exists & set new pid file"), however many start at once and whatever else
\* ends or restarts them: a process in the main loop that is not about to
\* handle its SIGTERM is the one in the pid file, where "stop" and the next
\* start find it, and so the only one.  Only a process that took over between
\* the kill and the pid of another is forgotten, and goes on unseen.
OneDaemon ==
    \A p \in Procs \ lost :
        proc[p].pc \in Looping /\ ~proc[p].term => pidfile = p

\* However attempts fail, a process that has had an answer from the provider
\* gives it CheckSeconds before it gives it another update.  (updater.sh: "do
\* NOT retry after RETRY_SECONDS, do retry after CHECK_SECONDS".)
PacedUpdates ==
    [][\A p \in Procs : (Accepted(p) \/ Rejected(p)) => sent[p] >= CheckSeconds]_vars

\* Once the uplink is up for good, whatever was started, killed or had failed
\* before, the name comes to resolve to its address and stays there.
Converges == <>[](wan \in Public) => <>[](dns = wan)

\* While the uplink is up, a forced update is sent again and again, also
\* after a reboot that left the file with the time of the last update.
Refreshes == <>[](wan \in Public) => []<>(\E p \in Procs : sent[p] = 0)
=============================================================================
