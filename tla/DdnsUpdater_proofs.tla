------------------------ MODULE DdnsUpdater_proofs ------------------------
(***************************************************************************)
(* DdnsUpdater for any number of processes, addresses and intervals: its   *)
(* type invariant, and that a new process replaces the old one unless      *)
(* their starts overlap.                                                   *)
(***************************************************************************)
EXTENDS DdnsUpdater, TLAPS

-----------------------------------------------------------------------------
(* The helpers return processes.                                           *)

LEMMA FreeType == Free \in Process
BY TimeAssumption DEF Free, Process, Never, Ages, MaybeAddr, Resume

LEMMA SleptType ==
    ASSUME NEW r \in Process, NEW seconds \in Nat, NEW resume \in Resume
    PROVE  Slept(r, seconds, resume) \in Process
BY DEF Slept, Process, Looping

LEMMA RetriedType ==
    ASSUME NEW r \in Process, NEW resume \in Resume
    PROVE  Retried(r, resume) \in Process
<1> DEFINE s == Slept(r, RetrySeconds, resume)
<1>1. s \in Process
  BY SleptType, TimeAssumption
<1>2. ASSUME NEW x \in Process PROVE [x EXCEPT !.cnt = @ + 1] \in Process
  BY <1>2 DEF Process
<1>3. [s EXCEPT !.cnt = @ + 1] \in Process
  BY <1>1, <1>2
<1>4. QED
  BY <1>1, <1>3, FreeType DEF Retried

LEMMA ComparedType ==
    ASSUME NEW r \in Process
    PROVE  Compared(r) \in Process
<1>1. [r EXCEPT !.pc = "detect", !.retries = 0] \in Process
  BY DEF Process, Looping
<1>2. [r EXCEPT !.pc = "detect",
                !.retries = IF RetryMaxCount = 0 THEN 0 ELSE @ + 1] \in Process
  <2>1. r.retries \in Nat
    BY DEF Process
  <2>2. PICK n \in Nat : n = IF RetryMaxCount = 0 THEN 0 ELSE r.retries + 1
    BY <2>1
  <2>3. [r EXCEPT !.pc = "detect", !.retries = n] \in Process
    BY DEF Process, Looping
  <2>4. QED
    BY <2>2, <2>3
<1>3. QED
  BY <1>1, <1>2, FreeType DEF Compared

LEMMA BecomeType ==
    ASSUME proc \in [Procs -> Process], NEW p \in Procs, NEW r \in Process, Become(p, r)
    PROVE  proc' \in [Procs -> Process]
BY DEF Become

LEMMA KilledType ==
    ASSUME proc \in [Procs -> Process], NEW by
    PROVE  /\ Killed(by) \in [Procs -> Process]
           /\ \A p \in Procs : Killed(by)[p].pc = proc[p].pc
<1>1. \A p \in Procs : [proc[p] EXCEPT !.term = TRUE] \in Process
  BY DEF Process
<1>2. \A p \in Procs : [proc[p] EXCEPT !.term = TRUE].pc = proc[p].pc
  BY DEF Process
<1>3. QED
  BY <1>1, <1>2 DEF Killed

LEMMA SpawnType ==
    ASSUME TypeOK, NEW procs \in [Procs -> Process], Spawn(procs)
    PROVE  /\ proc' \in [Procs -> Process]
           /\ sent' \in [Procs -> 0..NotSent]
           /\ starts' \in 0..MaxStarts
           /\ raced' \in [Procs -> SUBSET Procs] /\ lost' \subseteq Procs
<1>1. [Free EXCEPT !.pc = "kill"] \in Process
  BY FreeType DEF Process, Starting
<1>2. NotSent \in 0..NotSent
  BY TimeAssumption DEF NotSent
<1>3. starts' \in 0..MaxStarts
  BY TimeAssumption DEF Spawn, TypeOK
<1>4. QED
  BY <1>1, <1>2, <1>3 DEF Spawn, TypeOK

LEMMA OlderType ==
    ASSUME NEW cap \in Nat, NEW age \in 0..cap
    PROVE  Older(age, cap) \in 0..cap
BY DEF Older

-----------------------------------------------------------------------------
(* Types.                                                                  *)

LEMMA InitType == Init => TypeOK
<1> SUFFICES ASSUME Init PROVE TypeOK
  OBVIOUS
<1>1. proc \in [Procs -> Process]
  BY FreeType DEF Init
<1>2. updfile \in Ages \cup {Future} /\ NotSent \in 0..NotSent
  BY TimeAssumption DEF Init, Never, Ages, NotSent
<1>3. provider \in MaybeAddr
  BY DEF Init, MaybeAddr
<1>4. QED
  BY <1>1, <1>2, <1>3, TimeAssumption DEF Init, TypeOK, MaybeAddr

\* What a step of one process leaves alone, and what a fault counts.
LEMMA FaultType == TypeOK /\ Fault => faults' \in 0..MaxFaults
BY TimeAssumption DEF TypeOK, Fault

LEMMA RunType ==
    ASSUME TypeOK, NEW p \in Procs, Run(p)
    PROVE  TypeOK'
<1> DEFINE r == proc[p]
<1>0. proc \in [Procs -> Process] /\ r \in Process
  BY DEF TypeOK
<1>f. Fault => faults' \in 0..MaxFaults
  BY FaultType
<1>r. {"lookup0", "sending", "lookup"} \subseteq Resume
  BY DEF Resume
<1>n. 0 \in 0..NotSent /\ CheckSeconds \in Nat /\ RetrySeconds \in Nat
  BY TimeAssumption DEF NotSent
<1>1. CASE StopSectionProcesses(p)
  <2>1. Killed(p) \in [Procs -> Process]
    BY <1>0, KilledType
  <2>2. ASSUME NEW x \in Process PROVE [x EXCEPT !.pc = "claim"] \in Process
    BY <2>2 DEF Process, Starting
  <2>3. proc' \in [Procs -> Process]
    BY <1>1, <2>1, <2>2 DEF StopSectionProcesses
  <2>4. QED
    BY <1>1, <2>3 DEF StopSectionProcesses, TypeOK, files, world, starting
<1>2. CASE WritePidFile(p)
  <2>1. [r EXCEPT !.pc = "load"] \in Process
    BY <1>0 DEF Process, Looping
  <2>2. proc' \in [Procs -> Process]
    BY <1>0, <1>2, <2>1, BecomeType DEF WritePidFile
  <2>3. QED
    BY <1>2, <2>2 DEF WritePidFile, TypeOK, world
<1>3. CASE LoadLastTime(p)
  <2>1. (IF updfile = Future THEN Never ELSE updfile) \in Ages
    BY TimeAssumption DEF TypeOK, Ages, Never
  <2>2. PICK age \in Ages : age = IF updfile = Future THEN Never ELSE updfile
    BY <2>1
  <2>3. [r EXCEPT !.pc = "first", !.last = age] \in Process
    BY <1>0 DEF Process, Looping
  <2>4. proc' \in [Procs -> Process]
    BY <1>0, <1>3, <2>2, <2>3, BecomeType DEF LoadLastTime
  <2>5. QED
    BY <1>3, <2>4 DEF LoadLastTime, TypeOK, files, world, starting
<1>4. CASE FirstLookup(p)
  <2>1. [r EXCEPT !.pc = "detect", !.registered = dns] \in Process
    BY <1>0 DEF Process, Looping, TypeOK
  <2>2. [r EXCEPT !.pc = "lookup0", !.cnt = 0] \in Process
    BY <1>0 DEF Process, Looping
  <2>3. proc' \in [Procs -> Process]
    BY <1>0, <1>4, <2>1, <2>2, BecomeType DEF FirstLookup
  <2>4. faults' \in 0..MaxFaults
    BY <1>4, <1>f DEF FirstLookup, TypeOK
  <2>5. QED
    BY <1>4, <2>3, <2>4 DEF FirstLookup, TypeOK, files, world, starting
<1>5. ASSUME NEW pc \in {"lookup0", "lookup"}, GetRegisteredIp(p, pc) PROVE TypeOK'
  <2>1. [r EXCEPT !.registered = dns] \in Process
    BY <1>0 DEF Process, TypeOK
  <2>2. ASSUME NEW x \in Process PROVE [x EXCEPT !.pc = "detect"] \in Process
    BY <2>2 DEF Process, Looping
  <2>3. Retried(r, pc) \in Process
    BY <1>0, <1>r, RetriedType
  <2>4. PICK new \in Process : Become(p, new)
    BY <1>5, <2>1, <2>2, <2>3, ComparedType DEF GetRegisteredIp
  <2>5. proc' \in [Procs -> Process]
    BY <1>0, <2>4, BecomeType
  <2>6. faults' \in 0..MaxFaults
    BY <1>5, <1>f DEF GetRegisteredIp, TypeOK
  <2>7. QED
    BY <1>5, <2>5, <2>6 DEF GetRegisteredIp, TypeOK, files, world, starting
<1>6. CASE Detect(p)
  <2>1. [r EXCEPT !.current = wan, !.cnt = 0] \in Process
    BY <1>0 DEF Process, TypeOK
  <2>2. ASSUME NEW x \in Process PROVE [x EXCEPT !.pc = "sending"] \in Process
    BY <2>2 DEF Process, Looping
  <2>3. ASSUME NEW x \in Process PROVE Slept(x, CheckSeconds, "lookup") \in Process
    BY <2>3, <1>r, <1>n, SleptType
  <2>4. PICK new \in Process : Become(p, new)
    BY <1>6, <2>1, <2>2, <2>3, FreeType DEF Detect
  <2>5. proc' \in [Procs -> Process]
    BY <1>0, <2>4, BecomeType
  <2>6. QED
    BY <1>6, <2>5 DEF Detect, TypeOK, files, world, starting
<1>7. CASE Accepted(p)
  <2>1. [r EXCEPT !.pc = "record", !.cnt = 0] \in Process
    BY <1>0 DEF Process, Looping
  <2>2. proc' \in [Procs -> Process]
    BY <1>0, <1>7, <2>1, BecomeType DEF Accepted
  <2>3. provider' \in MaybeAddr
    BY <1>0, <1>7 DEF Accepted, Process
  <2>4. QED
    BY <1>7, <1>n, <2>2, <2>3 DEF Accepted, TypeOK, files, starting
<1>8. CASE Rejected(p)
  <2>1. Slept(r, CheckSeconds, "lookup") \in Process
    BY <1>0, <1>r, <1>n, SleptType
  <2>2. ASSUME NEW x \in Process PROVE [x EXCEPT !.cnt = 0] \in Process
    BY <2>2 DEF Process
  <2>3. proc' \in [Procs -> Process]
    BY <1>0, <1>8, <2>1, <2>2, BecomeType DEF Rejected
  <2>4. QED
    BY <1>8, <1>n, <1>f, <2>3 DEF Rejected, TypeOK, files, world, starting
<1>9. CASE TransferError(p)
  <2>1. Retried(r, "sending") \in Process
    BY <1>0, <1>r, RetriedType
  <2>2. proc' \in [Procs -> Process]
    BY <1>0, <1>9, <2>1, BecomeType DEF TransferError
  <2>3. provider' \in MaybeAddr
    BY <1>0, <1>9 DEF TransferError, Process, TypeOK
  <2>4. QED
    BY <1>9, <1>f, <2>2, <2>3 DEF TransferError, TypeOK, files, starting
<1>10. CASE RecordUpdate(p)
  <2>1. 0 \in Ages
    BY TimeAssumption DEF Ages
  <2>2. [r EXCEPT !.last = 0] \in Process
    BY <1>0, <2>1 DEF Process
  <2>3. Slept([r EXCEPT !.last = 0], CheckSeconds, "lookup") \in Process
    BY <2>2, <1>r, <1>n, SleptType
  <2>4. proc' \in [Procs -> Process]
    BY <1>0, <1>10, <2>3, BecomeType DEF RecordUpdate
  <2>5. QED
    BY <1>10, <2>1, <2>4 DEF RecordUpdate, TypeOK, world, starting
<1>11. CASE Wake(p)
  <2>1. [r EXCEPT !.pc = r.resume] \in Process
    BY <1>0 DEF Process, Looping, Resume
  <2>2. proc' \in [Procs -> Process]
    BY <1>0, <1>11, <2>1, BecomeType DEF Wake
  <2>3. QED
    BY <1>11, <2>2 DEF Wake, TypeOK, files, world, starting
<1>12. CASE Terminate(p)
  <2>1. proc' \in [Procs -> Process]
    BY <1>0, <1>12, FreeType, BecomeType DEF Terminate
  <2>2. QED
    BY <1>12, <2>1 DEF Terminate, TypeOK, files, world, starting
<1>13. QED
  BY <1>1, <1>2, <1>3, <1>4, <1>5, <1>6, <1>7, <1>8, <1>9, <1>10, <1>11, <1>12
  DEF Run

LEMMA TickType ==
    ASSUME TypeOK, Tick
    PROVE  TypeOK'
<1>1. ASSUME NEW p \in Procs
      PROVE  [proc[p] EXCEPT !.last = Older(@, ForceSeconds),
                !.left = IF @ > 0 THEN @ - 1 ELSE 0] \in Process
  <2>1. proc[p] \in Process /\ proc[p].last \in 0..ForceSeconds /\ proc[p].left \in Nat
    BY DEF TypeOK, Process, Ages
  <2>2. PICK age \in Ages : age = Older(proc[p].last, ForceSeconds)
    BY <2>1, OlderType, TimeAssumption DEF Ages
  <2>3. PICK n \in Nat : n = IF proc[p].left > 0 THEN proc[p].left - 1 ELSE 0
    BY <2>1
  <2>4. [proc[p] EXCEPT !.last = age, !.left = n] \in Process
    BY <2>1 DEF Process
  <2>5. QED
    BY <2>2, <2>3, <2>4
<1>2. proc' \in [Procs -> Process]
  BY <1>1 DEF Tick
<1>3. updfile' \in Ages \cup {Future}
  <2>1. updfile' \in IF updfile = Future THEN {Future, 0}
                     ELSE {Older(updfile, ForceSeconds)}
    BY DEF Tick
  <2>2. CASE updfile = Future
    BY <2>1, <2>2, TimeAssumption DEF Ages
  <2>3. CASE updfile # Future
    <3>1. updfile \in 0..ForceSeconds
      BY <2>3 DEF TypeOK, Ages
    <3>2. Older(updfile, ForceSeconds) \in 0..ForceSeconds
      BY <3>1, OlderType, TimeAssumption
    <3>3. QED
      BY <2>1, <2>3, <3>2 DEF Ages
  <2>4. QED
    BY <2>2, <2>3
<1>4. sent' \in [Procs -> 0..NotSent]
  <2>1. ASSUME NEW p \in Procs, sent[p] # NotSent
        PROVE  Older(sent[p], CheckSeconds) \in 0..NotSent
    <3>1. sent[p] \in 0..CheckSeconds
      BY <2>1, TimeAssumption DEF TypeOK, NotSent
    <3>2. QED
      BY <3>1, OlderType, TimeAssumption DEF NotSent
  <2>2. QED
    BY <2>1, TimeAssumption DEF Tick, TypeOK, NotSent
<1>5. QED
  BY <1>2, <1>3, <1>4 DEF Tick, TypeOK, world, starting

LEMMA StepType == TypeOK /\ [Next]_vars => TypeOK'
<1> SUFFICES ASSUME TypeOK, [Next]_vars PROVE TypeOK'
  OBVIOUS
<1>0. proc \in [Procs -> Process] /\ [p \in Procs |-> Free] \in [Procs -> Process]
  BY FreeType DEF TypeOK
<1>1. CASE \E p \in Procs : Run(p)
  BY <1>1, RunType
<1>2. ASSUME NEW p \in Procs, Hangup(p) PROVE TypeOK'
  <2>1. [proc EXCEPT ![p] = Free] \in [Procs -> Process]
    BY <1>0, FreeType
  <2>2. QED
    BY <1>2, <2>1, SpawnType DEF Hangup, TypeOK, files, world, starting
<1>3. CASE IfUp
  BY <1>0, <1>3, SpawnType DEF IfUp, TypeOK, files, MaybeAddr
<1>4. CASE IfDown
  BY <1>0, <1>4, KilledType DEF IfDown, TypeOK, files, MaybeAddr, starting
<1>5. CASE IfUpdate
  BY <1>5, FaultType DEF IfUpdate, TypeOK, files, MaybeAddr, starting
<1>6. CASE Stop
  BY <1>0, <1>6, KilledType DEF Stop, TypeOK, files, world, starting
<1>7. CASE Restart
  BY <1>0, <1>7, KilledType, SpawnType DEF Restart, TypeOK, files, world, starting
<1>8. CASE Reboot
  <2>1. updfile' \in Ages \cup {Future}
    BY <1>8, TimeAssumption DEF Reboot, Never, Ages
  <2>2. QED
    BY <1>0, <1>8, <2>1, FaultType DEF Reboot, TypeOK, MaybeAddr, starting
<1>9. CASE Publish
  BY <1>9 DEF Publish, TypeOK, files, starting
<1>10. CASE Tick
  BY <1>10, TickType
<1>11. CASE UNCHANGED vars
  BY <1>11 DEF vars, TypeOK, starting
<1>12. QED
  BY <1>1, <1>2, <1>3, <1>4, <1>5, <1>6, <1>7, <1>8, <1>9, <1>10, <1>11 DEF Next

\* Every process, file and address keeps its type, whatever is started,
\* stopped or fails (DdnsUpdater's TypeOK).  That the age of the last update
\* is never that of a stamp from before a reboot is part of it.
THEOREM TypeCorrect == Spec => []TypeOK
<1>1. QED
  BY InitType, StepType, PTL DEF Spec

-----------------------------------------------------------------------------
(* One daemon.                                                             *)

\* Process p is in the main loop, and nothing is going to end it.
Daemon(p) == proc[p].pc \in Looping /\ ~proc[p].term

\* A daemon that was not overtaken is the process in the pid file, and one
\* that is about to write the pid file knows of it.
Takeover ==
    /\ \A p \in Procs \ lost : Daemon(p) => p = pidfile
    /\ \A q \in Procs, p \in Procs \ lost :
         proc[q].pc = "claim" /\ Daemon(p) => p \in raced[q]

LEMMA Phases ==
    /\ "free" \notin Starting \cup Looping
    /\ Starting = {"kill", "claim"} /\ Starting \cap Looping = {}
BY DEF Starting, Looping

\* A step that makes no daemon and takes no process past its own kill.
LEMMA Quiet ==
    ASSUME Takeover, UNCHANGED <<pidfile, raced, lost>>,
           \A p \in Procs : proc'[p].pc = "claim" => proc[p].pc = "claim",
           \A p \in Procs : Daemon(p)' => Daemon(p)
    PROVE  Takeover'
BY DEF Takeover

LEMMA SpawnTakeover ==
    ASSUME TypeOK, Takeover, pidfile' = pidfile,
           NEW procs \in [Procs -> Process], Spawn(procs),
           \A p \in Procs : procs[p].pc \in {"free", proc[p].pc},
           \A p \in Procs : procs[p].pc \in Looping /\ ~procs[p].term => Daemon(p)
    PROVE  Takeover'
<1>1. PICK n \in Procs :
        /\ proc' = [procs EXCEPT ![n] = [Free EXCEPT !.pc = "kill"]]
        /\ raced' = [q \in Procs |-> IF q = n THEN {} ELSE raced[q] \ {n}]
        /\ lost' = lost \ {n}
  BY DEF Spawn
<1>2. proc'[n].pc = "kill" /\ \A p \in Procs \ {n} : proc'[p] = procs[p]
  BY <1>1, FreeType DEF Free
<1>3. \A p \in Procs : Daemon(p)' => Daemon(p) /\ p # n
  BY <1>2, Phases DEF Daemon
<1>4. \A q \in Procs : proc'[q].pc = "claim" => proc[q].pc = "claim" /\ q # n
  BY <1>2, Phases
<1>5. \A q \in Procs \ {n} : raced'[q] = raced[q] \ {n}
  BY <1>1
<1>6. QED
  BY <1>1, <1>3, <1>4, <1>5 DEF Takeover

\* Killed() ends the process in the pid file, which is the only daemon that
\* was not overtaken.
LEMMA KilledNoDaemon ==
    ASSUME Takeover, proc \in [Procs -> Process], NEW by, NEW p \in Procs \ lost,
           Killed(by)[p].pc \in Looping, ~Killed(by)[p].term
    PROVE  Daemon(p) /\ p = by
<1>1. Killed(by)[p].pc = proc[p].pc
  BY KilledType
<1>2. proc[p].pc # "free"
  BY <1>1, Phases
<1>3. CASE p = pidfile /\ p # by
  <2>1. Killed(by)[p] = [proc[p] EXCEPT !.term = TRUE]
    BY <1>2, <1>3 DEF Killed
  <2>2. proc[p] \in Process
    OBVIOUS
  <2>3. Killed(by)[p].term
    BY <2>1, <2>2 DEF Process
  <2>4. QED
    BY <2>3
<1>4. CASE ~(p = pidfile /\ p # by)
  <2>1. Killed(by)[p] = proc[p]
    BY <1>4 DEF Killed
  <2>2. Daemon(p)
    BY <2>1 DEF Daemon
  <2>3. QED
    BY <1>4, <2>2 DEF Takeover
<1>5. QED
  BY <1>3, <1>4

\* Whoever goes on after Killed() was a daemon before.
LEMMA KilledRuns ==
    ASSUME proc \in [Procs -> Process], NEW by, NEW p \in Procs,
           Killed(by)[p].pc \in Looping, ~Killed(by)[p].term
    PROVE  Daemon(p)
<1>1. CASE Killed(by)[p] = proc[p]
  BY <1>1 DEF Daemon
<1>2. CASE Killed(by)[p] = [proc[p] EXCEPT !.term = TRUE]
  <2>1. proc[p] \in Process
    OBVIOUS
  <2>2. Killed(by)[p].term
    BY <1>2, <2>1 DEF Process
  <2>3. QED
    BY <2>2
<1>3. QED
  BY <1>1, <1>2 DEF Killed

\* A step of one process that keeps or ends its own phase.
LEMMA OwnStep ==
    ASSUME Takeover, UNCHANGED <<pidfile, raced, lost>>, proc \in [Procs -> Process],
           NEW p \in Procs, NEW r \in Process, Become(p, r),
           r.pc \notin Starting, r.pc \in Looping /\ ~r.term => Daemon(p)
    PROVE  Takeover'
<1>1. proc'[p] = r /\ \A q \in Procs \ {p} : proc'[q] = proc[q]
  BY DEF Become
<1>2. \A q \in Procs : Daemon(q)' => Daemon(q)
  BY <1>1 DEF Daemon
<1>3. \A q \in Procs : proc'[q].pc = "claim" => proc[q].pc = "claim"
  BY <1>1, Phases
<1>4. QED
  BY <1>2, <1>3, Quiet

\* The next phases of a process that retries or compares.
LEMMA NextPhase ==
    ASSUME NEW r \in Process, r.pc \in Looping, NEW resume \in Resume, NEW n \in Nat
    PROVE  /\ Slept(r, n, resume).pc \in Looping /\ Slept(r, n, resume).term = r.term
           /\ Retried(r, resume).pc \in Looping => Retried(r, resume).term = r.term
           /\ Retried(r, resume).pc \in Looping \cup {"free"}
           /\ Compared(r).pc \in Looping => Compared(r).term = r.term
           /\ Compared(r).pc \in Looping \cup {"free"}
<1>1. /\ Slept(r, n, resume).pc \in Looping
      /\ Slept(r, n, resume).term = r.term
  BY DEF Slept, Looping, Process
<1>2. /\ Retried(r, resume).pc \in Looping => Retried(r, resume).term = r.term
      /\ Retried(r, resume).pc \in Looping \cup {"free"}
  <2>1. Free.pc = "free" /\ "free" \notin Looping
    BY DEF Free, Looping
  <2>2. DEFINE s == Slept(r, RetrySeconds, resume)
  <2>3. s.pc \in Looping /\ s.term = r.term /\ s \in Process
    BY SleptType, TimeAssumption DEF Slept, Looping, Process
  <2>4. ASSUME NEW x \in Process
        PROVE  /\ [x EXCEPT !.cnt = @ + 1].pc = x.pc
               /\ [x EXCEPT !.cnt = @ + 1].term = x.term
    BY <2>4 DEF Process
  <2>5. QED
    BY <2>1, <2>3, <2>4 DEF Retried
<1>3. /\ Compared(r).pc \in Looping => Compared(r).term = r.term
      /\ Compared(r).pc \in Looping \cup {"free"}
  BY DEF Compared, Looping, Process, Free
<1>4. QED
  BY <1>1, <1>2, <1>3

LEMMA RunTakeover ==
    ASSUME TypeOK, Takeover, NEW p \in Procs, Run(p)
    PROVE  Takeover'
<1> DEFINE r == proc[p]
<1>0. proc \in [Procs -> Process] /\ r \in Process
  BY DEF TypeOK
<1>n. CheckSeconds \in Nat /\ RetrySeconds \in Nat
  BY TimeAssumption
<1>r. {"lookup0", "sending", "lookup"} \subseteq Resume /\ Resume \subseteq Looping
  BY DEF Resume, Looping
<1>d. Daemon(p) <=> r.pc \in Looping /\ ~r.term
  BY DEF Daemon
<1>1. CASE StopSectionProcesses(p)
  <2>1. r.pc = "kill" /\ proc' = [Killed(p) EXCEPT ![p].pc = "claim"]
    BY <1>1 DEF StopSectionProcesses, At
  <2>2. Killed(p) \in [Procs -> Process] /\ \A q \in Procs : Killed(p)[q].pc = proc[q].pc
    BY <1>0, KilledType
  <2>3. proc'[p].pc = "claim" /\ \A q \in Procs \ {p} : proc'[q] = Killed(p)[q]
    BY <2>1, <2>2 DEF Process
  <2>4. lost' = lost
    BY <1>1 DEF StopSectionProcesses
  <2>5. ASSUME NEW q \in Procs \ lost PROVE ~Daemon(q)'
    <3>1. CASE q = p
      BY <2>3, <3>1, Phases DEF Daemon
    <3>2. CASE q # p
      BY <1>0, <2>3, <3>2, KilledNoDaemon DEF Daemon
    <3>3. QED
      BY <3>1, <3>2
  <2>6. QED
    BY <2>4, <2>5 DEF Takeover
<1>2. CASE WritePidFile(p)
  <2>1. /\ r.pc = "claim" /\ pidfile' = p
        /\ proc' = [proc EXCEPT ![p] = [r EXCEPT !.pc = "load"]]
        /\ lost' = lost \cup raced[p]
        /\ \A q \in Procs \ {p} : proc[q].pc = "claim" => raced'[q] = raced[q] \cup {p}
    BY <1>2 DEF WritePidFile, At, Become
  <2>2. proc'[p].pc = "load" /\ \A q \in Procs \ {p} : proc'[q] = proc[q]
    BY <1>0, <2>1 DEF Process
  <2>3. \A q \in Procs \ lost' : Daemon(q)' => q = p
    BY <2>1, <2>2 DEF Takeover, Daemon
  <2>4. \A q \in Procs : proc'[q].pc = "claim" => p \in raced'[q]
    BY <2>1, <2>2
  <2>5. QED
    BY <2>1, <2>3, <2>4 DEF Takeover
<1>3. CASE LoadLastTime(p)
  <2>1. PICK age : Become(p, [r EXCEPT !.pc = "first", !.last = age]) /\ r.pc = "load" /\ ~r.term
    BY <1>3 DEF LoadLastTime, At
  <2>2. [r EXCEPT !.pc = "first", !.last = age].pc = "first"
    BY <1>0 DEF Process
  <2>3. proc'[p].pc = "first" /\ \A q \in Procs \ {p} : proc'[q] = proc[q]
    BY <1>0, <2>1, <2>2 DEF Become
  <2>4. QED
    BY <1>3, <1>d, <2>1, <2>3, Quiet, Phases DEF LoadLastTime, Daemon, Looping, files, starting
<1>4. CASE FirstLookup(p)
  <2>1. r.pc = "first" /\ ~r.term
    BY <1>4 DEF FirstLookup, At
  <2>2. proc'[p].pc \in {"detect", "lookup0"} /\ \A q \in Procs \ {p} : proc'[q] = proc[q]
    BY <1>0, <1>4 DEF FirstLookup, Become, Process
  <2>3. QED
    BY <1>4, <1>d, <2>1, <2>2, Quiet, Phases DEF FirstLookup, Daemon, Looping, files, starting
<1>5. ASSUME NEW pc \in {"lookup0", "lookup"}, GetRegisteredIp(p, pc) PROVE Takeover'
  <2>1. r.pc = pc /\ ~r.term /\ r.pc \in Looping
    BY <1>5 DEF GetRegisteredIp, At, Looping
  <2>2. DEFINE found == [r EXCEPT !.registered = dns]
  <2>3. found \in Process /\ found.pc \in Looping
    BY <1>0, <2>1 DEF Process, TypeOK
  <2>4. ASSUME NEW x \in Process
        PROVE  [x EXCEPT !.pc = "detect"] \in Process /\ [x EXCEPT !.pc = "detect"].pc = "detect"
    BY <2>4 DEF Process, Looping
  <2>5. Compared(found).pc \in Looping \cup {"free"} /\ Compared(found) \in Process
    BY <1>n, <1>r, <2>3, NextPhase, ComparedType
  <2>6. Retried(r, pc).pc \in Looping \cup {"free"} /\ Retried(r, pc) \in Process
    BY <1>0, <1>n, <1>r, <2>1, NextPhase, RetriedType
  <2>7. PICK new \in Process : Become(p, new) /\ new.pc \in Looping \cup {"free"}
    BY <1>5, <2>3, <2>4, <2>5, <2>6 DEF GetRegisteredIp, Looping
  <2>8. QED
    BY <1>0, <1>5, <1>d, <2>1, <2>7, OwnStep, Phases DEF GetRegisteredIp, files, starting
<1>6. CASE Detect(p)
  <2>1. r.pc = "detect" /\ ~r.term /\ r.pc \in Looping
    BY <1>6 DEF Detect, At, Looping
  <2>2. DEFINE s == [r EXCEPT !.current = wan, !.cnt = 0]
  <2>3. s \in Process /\ s.pc \in Looping
    BY <1>0, <2>1 DEF Process, TypeOK
  <2>4. [s EXCEPT !.pc = "sending"] \in Process /\ [s EXCEPT !.pc = "sending"].pc \in Looping
    BY <2>3 DEF Process, Looping
  <2>5. /\ Slept(s, CheckSeconds, "lookup") \in Process
        /\ Slept(s, CheckSeconds, "lookup").pc \in Looping
    BY <1>n, <1>r, <2>3, NextPhase, SleptType
  <2>6. Free \in Process /\ Free.pc = "free"
    BY FreeType DEF Free
  <2>7. PICK new \in Process : Become(p, new) /\ new.pc \in Looping \cup {"free"}
    BY <1>6, <2>4, <2>5, <2>6 DEF Detect
  <2>8. QED
    BY <1>0, <1>6, <1>d, <2>1, <2>7, OwnStep, Phases DEF Detect, files, starting
<1>7. CASE Accepted(p)
  <2>1. r.pc = "sending" /\ r.pc \in Looping
    BY <1>7 DEF Accepted, Looping
  <2>2. DEFINE new == [r EXCEPT !.pc = "record", !.cnt = 0]
  <2>3. new \in Process /\ new.pc \in Looping /\ new.term = r.term
    BY <1>0 DEF Process, Looping
  <2>4. Become(p, new) /\ UNCHANGED <<pidfile, raced, lost>>
    BY <1>7 DEF Accepted, files, starting
  <2>5. QED
    BY <1>0, <1>d, <2>1, <2>3, <2>4, OwnStep, Phases
<1>8. CASE Rejected(p)
  <2>1. r.pc = "sending" /\ r.pc \in Looping
    BY <1>8 DEF Rejected, Looping
  <2>2. DEFINE s == Slept(r, CheckSeconds, "lookup")
  <2>3. s \in Process /\ s.pc \in Looping /\ s.term = r.term
    BY <1>0, <1>n, <1>r, <2>1, NextPhase, SleptType
  <2>4. ASSUME NEW x \in Process
        PROVE  /\ [x EXCEPT !.cnt = 0] \in Process
               /\ [x EXCEPT !.cnt = 0].pc = x.pc /\ [x EXCEPT !.cnt = 0].term = x.term
    BY <2>4 DEF Process
  <2>5. PICK new \in Process : Become(p, new) /\ new.pc \in Looping /\ new.term = r.term
    BY <1>8, <2>3, <2>4 DEF Rejected
  <2>6. QED
    BY <1>0, <1>8, <1>d, <2>1, <2>5, OwnStep, Phases DEF Rejected, files, starting
<1>9. CASE TransferError(p)
  <2>1. r.pc = "sending" /\ r.pc \in Looping
    BY <1>9 DEF TransferError, Looping
  <2>2. DEFINE new == Retried(r, "sending")
  <2>3. /\ new \in Process /\ new.pc \in Looping \cup {"free"}
        /\ new.pc \in Looping => new.term = r.term
    BY <1>0, <1>n, <1>r, <2>1, NextPhase, RetriedType
  <2>4. Become(p, new) /\ UNCHANGED <<pidfile, raced, lost>>
    BY <1>9 DEF TransferError, files, starting
  <2>5. QED
    BY <1>0, <1>d, <2>1, <2>3, <2>4, OwnStep, Phases
<1>10. CASE RecordUpdate(p)
  <2>1. r.pc = "record" /\ ~r.term /\ r.pc \in Looping
    BY <1>10 DEF RecordUpdate, At, Looping
  <2>2. DEFINE s == [r EXCEPT !.last = 0]
  <2>3. s \in Process /\ s.pc \in Looping
    BY <1>0, <2>1, TimeAssumption DEF Process, Ages
  <2>4. /\ Slept(s, CheckSeconds, "lookup") \in Process
        /\ Slept(s, CheckSeconds, "lookup").pc \in Looping
    BY <1>n, <1>r, <2>3, NextPhase, SleptType
  <2>5. PICK new \in Process : Become(p, new) /\ new.pc \in Looping
    BY <1>10, <2>4 DEF RecordUpdate, starting
  <2>6. QED
    BY <1>0, <1>10, <1>d, <2>1, <2>5, OwnStep, Phases DEF RecordUpdate, starting
<1>11. CASE Wake(p)
  <2>1. r.pc = "sleep" /\ ~r.term /\ r.pc \in Looping
    BY <1>11 DEF Wake, At, Looping
  <2>2. DEFINE new == [r EXCEPT !.pc = r.resume]
  <2>3. new \in Process /\ new.pc \in Looping
    BY <1>0, <1>r DEF Process
  <2>4. Become(p, new) /\ UNCHANGED <<pidfile, raced, lost>>
    BY <1>11 DEF Wake, files, starting
  <2>5. QED
    BY <1>0, <1>d, <2>1, <2>3, <2>4, OwnStep, Phases
<1>12. CASE Terminate(p)
  <2>1. Free \in Process /\ Free.pc = "free"
    BY FreeType DEF Free
  <2>2. QED
    BY <1>0, <1>12, <2>1, OwnStep, Phases DEF Terminate, files, starting
<1>13. QED
  BY <1>1, <1>2, <1>3, <1>4, <1>5, <1>6, <1>7, <1>8, <1>9, <1>10, <1>11, <1>12
  DEF Run

LEMMA StepTakeover ==
    ASSUME TypeOK, Takeover, [Next]_vars
    PROVE  Takeover'
<1>0. proc \in [Procs -> Process]
  BY DEF TypeOK
<1>k. ASSUME NEW by
      PROVE  /\ Killed(by) \in [Procs -> Process]
             /\ \A p \in Procs : Killed(by)[p].pc = proc[p].pc
             /\ \A p \in Procs : Killed(by)[p].pc \in Looping /\ ~Killed(by)[p].term
                                   => Daemon(p)
  BY <1>0, KilledType, KilledRuns
<1>1. CASE \E p \in Procs : Run(p)
  BY <1>1, RunTakeover
<1>2. ASSUME NEW p \in Procs, Hangup(p) PROVE Takeover'
  <2>1. DEFINE procs == [proc EXCEPT ![p] = Free]
  <2>2. procs \in [Procs -> Process] /\ procs[p].pc = "free"
    BY <1>0, FreeType DEF Free
  <2>3. \A q \in Procs \ {p} : procs[q] = proc[q]
    OBVIOUS
  <2>4. \A q \in Procs : procs[q].pc \in {"free", proc[q].pc}
    BY <2>2, <2>3
  <2>5. \A q \in Procs : procs[q].pc \in Looping /\ ~procs[q].term => Daemon(q)
    BY <2>2, <2>3, Phases DEF Daemon
  <2>6. Spawn(procs) /\ pidfile' = pidfile
    BY <1>2 DEF Hangup, files, starting
  <2>7. QED
    BY <1>0, <2>2, <2>4, <2>5, <2>6, SpawnTakeover
<1>3. CASE IfUp
  <2>1. Spawn(proc) /\ pidfile' = pidfile
    BY <1>3 DEF IfUp, files, starting
  <2>2. \A q \in Procs : proc[q].pc \in Looping /\ ~proc[q].term => Daemon(q)
    BY DEF Daemon
  <2>3. QED
    BY <1>0, <2>1, <2>2, SpawnTakeover
<1>4. CASE IfDown \/ Stop
  <2>1. proc' = Killed(NoProc) /\ UNCHANGED <<pidfile, raced, lost>>
    BY <1>4 DEF IfDown, Stop, files, starting
  <2>2. \A p \in Procs : Daemon(p)' => Daemon(p)
    BY <1>k, <2>1 DEF Daemon
  <2>3. QED
    BY <1>k, <2>1, <2>2, Quiet
<1>5. CASE Restart
  <2>1. Spawn(Killed(NoProc)) /\ pidfile' = pidfile
    BY <1>5 DEF Restart, files, starting
  <2>2. QED
    BY <1>0, <1>k, <2>1, SpawnTakeover
<1>6. CASE Reboot
  <2>1. \A p \in Procs : proc'[p].pc = "free"
    BY <1>6 DEF Reboot, Free
  <2>2. QED
    BY <1>6, <2>1, Quiet, Phases DEF Reboot, Daemon, starting
<1>7. CASE Tick
  <2>1. ASSUME NEW p \in Procs
        PROVE  proc'[p].pc = proc[p].pc /\ proc'[p].term = proc[p].term
    BY <1>0, <1>7 DEF Tick, Process
  <2>2. QED
    BY <1>7, <2>1, Quiet DEF Tick, Daemon, starting
<1>8. CASE IfUpdate \/ Publish \/ UNCHANGED vars
  <2>1. proc' = proc /\ UNCHANGED <<pidfile, raced, lost>>
    BY <1>8 DEF IfUpdate, Publish, vars, files, starting, starting
  <2>2. QED
    BY <2>1, Quiet DEF Daemon
<1>9. QED
  BY <1>1, <1>2, <1>3, <1>4, <1>5, <1>6, <1>7, <1>8 DEF Next

\* However many processes start at once, and whatever stops, hangs up or reboots
\* in between, a process that loops and will go on is the one in the pid file,
\* so there is no other, unless the start of one took its pid away between
\* its own kill and its own write (DdnsUpdater's OneDaemon, for
\* stop_section_processes() and the pid file).
THEOREM OneDaemonAlways == Spec => []OneDaemon
<1>1. Init => Takeover
  BY Phases DEF Init, Takeover, Daemon, Free
<1>2. TypeOK /\ Takeover /\ [Next]_vars => Takeover'
  BY StepTakeover
<1>3. Takeover => OneDaemon
  BY DEF Takeover, OneDaemon, Daemon
<1>4. QED
  BY <1>1, <1>2, <1>3, TypeCorrect, PTL DEF Spec

-----------------------------------------------------------------------------
(* The pace of the updates.                                                *)

\* A process in state r, age ticks after the provider's last answer to it, has
\* waited CheckSeconds since, or is recording the answer, or has still to
\* sleep for what is missing.
Paced(r, age) ==
    \/ age >= CheckSeconds
    \/ r.pc \in {"free", "record"}
    \/ r.pc = "sleep" /\ r.left + age >= CheckSeconds

PaceInv == \A p \in Procs : Paced(proc[p], sent[p])

\* The processes whose state is the same as before but for SIGTERM, or that
\* are gone, keep the pace.
LEMMA PaceUnmoved ==
    ASSUME TypeOK, PaceInv, sent' = sent,
           \A p \in Procs : \/ proc'[p].pc = proc[p].pc /\ proc'[p].left = proc[p].left
                            \/ proc'[p].pc = "free"
                            \/ sent[p] >= CheckSeconds
    PROVE  PaceInv'
BY DEF PaceInv, Paced

\* A signal changes neither the phase of a process nor its sleep.
LEMMA KilledLeft ==
    ASSUME proc \in [Procs -> Process], NEW by, NEW p \in Procs
    PROVE  Killed(by)[p].pc = proc[p].pc /\ Killed(by)[p].left = proc[p].left
<1>1. proc[p] \in Process
  OBVIOUS
<1>2. /\ [proc[p] EXCEPT !.term = TRUE].pc = proc[p].pc
      /\ [proc[p] EXCEPT !.term = TRUE].left = proc[p].left
  BY <1>1 DEF Process
<1>. QED BY <1>2 DEF Killed

\* A new process has had no answer yet.
LEMMA PaceSpawn ==
    ASSUME TypeOK, PaceInv, NEW procs, DOMAIN procs = Procs, Spawn(procs),
           \A p \in Procs : \/ procs[p].pc = proc[p].pc /\ procs[p].left = proc[p].left
                            \/ procs[p].pc = "free"
    PROVE  PaceInv'
<1>1. PICK n \in Procs :
        /\ proc' = [procs EXCEPT ![n] = [Free EXCEPT !.pc = "kill"]]
        /\ sent' = [sent EXCEPT ![n] = NotSent]
  BY DEF Spawn
<1>2. sent'[n] >= CheckSeconds
  BY <1>1, TimeAssumption DEF TypeOK, NotSent
<1>3. \A p \in Procs \ {n} : proc'[p] = procs[p] /\ sent'[p] = sent[p]
  BY <1>1 DEF TypeOK
<1>. QED BY <1>2, <1>3 DEF PaceInv, Paced

\* Every step of a process keeps the pace: an answer is followed by a sleep of
\* CheckSeconds, and only what comes after such a sleep sends again.
LEMMA PaceRun ==
    ASSUME TypeOK, PaceInv, NEW p \in Procs, Run(p)
    PROVE  PaceInv'
<1> DEFINE r == proc[p]
<1>0. /\ proc \in [Procs -> Process] /\ r \in Process
      /\ sent \in [Procs -> 0..NotSent] /\ CheckSeconds \in Nat
      /\ r.left \in Nat /\ sent[p] \in Int
  BY TimeAssumption DEF TypeOK, Process, NotSent
<1>p. Paced(r, sent[p])
  BY DEF PaceInv
<1>1. ASSUME sent' = sent, \A q \in Procs \ {p} : proc'[q].pc = proc[q].pc /\ proc'[q].left = proc[q].left,
             sent[p] >= CheckSeconds \/ proc'[p].pc = "free"
      PROVE  PaceInv'
  BY <1>1, PaceUnmoved
<1>2. ASSUME NEW new, Become(p, new)
      PROVE  proc'[p] = new /\ \A q \in Procs \ {p} : proc'[q] = proc[q]
  BY <1>0, <1>2 DEF Become
<1>3. CASE StopSectionProcesses(p)
  <2>1. sent[p] >= CheckSeconds /\ sent' = sent
    BY <1>3, <1>p DEF StopSectionProcesses, At, Paced
  <2>2. ASSUME NEW q \in Procs \ {p}
        PROVE  proc'[q].pc = proc[q].pc /\ proc'[q].left = proc[q].left
    <3>1. proc'[q] = Killed(p)[q]
      BY <1>3 DEF StopSectionProcesses, Killed
    <3>. QED BY <1>0, <3>1, KilledLeft
  <2>. QED BY <1>1, <2>1, <2>2
<1>4. CASE \/ WritePidFile(p) \/ LoadLastTime(p) \/ FirstLookup(p)
           \/ GetRegisteredIp(p, "lookup0") \/ GetRegisteredIp(p, "lookup")
           \/ Detect(p) \/ TransferError(p)
  <2>1. sent' = sent /\ r.pc \notin {"free", "record", "sleep"}
    BY <1>4 DEF WritePidFile, LoadLastTime, FirstLookup, GetRegisteredIp, Detect,
       TransferError, At
  <2>2. PICK new : Become(p, new)
    BY <1>4 DEF WritePidFile, LoadLastTime, FirstLookup, GetRegisteredIp, Detect,
       TransferError
  <2>. QED BY <1>1, <1>2, <1>p, <2>1, <2>2 DEF Paced
<1>5. CASE Wake(p)
  <2>1. sent' = sent /\ r.pc = "sleep" /\ r.left = 0
    BY <1>5 DEF Wake, At
  <2>2. sent[p] >= CheckSeconds
    BY <1>0, <1>p, <2>1 DEF Paced
  <2>. QED BY <1>1, <1>2, <1>5, <2>1, <2>2 DEF Wake
<1>6. CASE Terminate(p)
  <2>1. sent' = sent /\ proc'[p].pc = "free"
    BY <1>2, <1>6 DEF Terminate, Free
  <2>. QED BY <1>1, <1>2, <1>6, <2>1 DEF Terminate
<1>7. CASE RecordUpdate(p)
  <2>. DEFINE new == Slept([r EXCEPT !.last = 0], CheckSeconds, "lookup")
  <2>1. Become(p, new) /\ sent' = sent
    BY <1>7 DEF RecordUpdate
  <2>2. new.pc = "sleep" /\ new.left = CheckSeconds
    BY <1>0 DEF Slept, Process
  <2>. HIDE DEF new
  <2>3. Paced(new, sent[p])
    BY <1>0, <2>2 DEF Paced, NotSent
  <2>. QED BY <1>2, <2>1, <2>3 DEF PaceInv
<1>8. CASE Accepted(p) \/ Rejected(p)
  <2>1. PICK new : Become(p, new) /\ Paced(new, 0)
    <3>1. CASE Accepted(p)
      <4>1. [r EXCEPT !.pc = "record", !.cnt = 0].pc = "record"
        BY <1>0 DEF Process
      <4>. QED BY <3>1, <4>1 DEF Accepted, Paced
    <3>2. CASE Rejected(p)
      <4>. DEFINE new == [Slept(r, CheckSeconds, "lookup") EXCEPT !.cnt = 0]
      <4>1. new.pc = "sleep" /\ new.left = CheckSeconds
        BY <1>0 DEF Slept, Process
      <4>2. Become(p, new)
        BY <3>2 DEF Rejected
      <4>. HIDE DEF new
      <4>. QED BY <1>0, <4>1, <4>2 DEF Paced
    <3>. QED BY <1>8, <3>1, <3>2
  <2>2. sent' = [sent EXCEPT ![p] = 0]
    BY <1>8 DEF Accepted, Rejected
  <2>. QED BY <1>0, <1>2, <2>1, <2>2 DEF PaceInv
<1>. QED BY <1>3, <1>4, <1>5, <1>6, <1>7, <1>8 DEF Run

\* Every other step keeps it too.
LEMMA PaceKept ==
    ASSUME TypeOK, PaceInv, [Next]_vars
    PROVE  PaceInv'
<1>0. /\ proc \in [Procs -> Process] /\ sent \in [Procs -> 0..NotSent]
      /\ CheckSeconds \in Nat
  BY TimeAssumption DEF TypeOK
<1>1. CASE \E p \in Procs : Run(p)
  BY <1>1, PaceRun
<1>2. ASSUME NEW p \in Procs, Hangup(p) PROVE PaceInv'
  <2>1. Spawn([proc EXCEPT ![p] = Free]) /\ Free.pc = "free"
    BY <1>2 DEF Hangup, Free
  <2>. QED BY <1>0, <2>1, PaceSpawn
<1>3. CASE IfUp
  BY <1>0, <1>3, PaceSpawn DEF IfUp
<1>4. CASE Restart
  <2>1. DOMAIN Killed(NoProc) = Procs
    BY DEF Killed
  <2>. QED BY <1>0, <1>4, <2>1, KilledLeft, PaceSpawn DEF Restart
<1>5. CASE IfDown \/ Stop
  <2>1. proc' = Killed(NoProc) /\ sent' = sent
    BY <1>5 DEF IfDown, Stop
  <2>. QED BY <1>0, <2>1, KilledLeft, PaceUnmoved
<1>6. CASE Reboot
  BY <1>6, PaceUnmoved DEF Reboot, Free
<1>7. CASE Tick
  <2>1. ASSUME NEW p \in Procs PROVE Paced(proc'[p], sent'[p])
    <3>1. /\ proc[p] \in Process /\ proc[p].left \in Nat /\ sent[p] \in 0..NotSent
          /\ Paced(proc[p], sent[p])
      BY <1>0 DEF Process, PaceInv
    <3>2. /\ proc'[p].pc = proc[p].pc
          /\ proc'[p].left = IF proc[p].left > 0 THEN proc[p].left - 1 ELSE 0
      BY <1>7, <3>1 DEF Tick, Process
    <3>3. sent'[p] = IF sent[p] = NotSent THEN NotSent ELSE Older(sent[p], CheckSeconds)
      BY <1>7 DEF Tick
    <3>4. /\ sent[p] >= CheckSeconds => sent'[p] >= CheckSeconds
          /\ sent[p] < CheckSeconds => sent'[p] = sent[p] + 1
      BY <1>0, <3>1, <3>3 DEF Older, NotSent
    <3>. QED BY <1>0, <3>1, <3>2, <3>4 DEF Paced, NotSent
  <2>. QED BY <2>1 DEF PaceInv
<1>8. CASE IfUpdate \/ Publish \/ UNCHANGED vars
  <2>1. proc' = proc /\ sent' = sent
    BY <1>8 DEF IfUpdate, Publish, vars
  <2>. QED BY <2>1 DEF PaceInv
<1>. QED BY <1>1, <1>2, <1>3, <1>4, <1>5, <1>6, <1>7, <1>8 DEF Next

\* However updates and lookups fail, and whatever is started, stopped, killed or
\* rebooted, a process that had an answer gives the provider CheckSeconds before
\* it sends it another update (DdnsUpdater's PacedUpdates, for the main loop of
\* dynamic_dns_updater.sh).
THEOREM UpdatesArePaced == Spec => PacedUpdates
<1>1. Init => PaceInv
  BY DEF Init, Free, PaceInv, Paced
<1>2. TypeOK /\ PaceInv /\ [Next]_vars => PaceInv'
  BY PaceKept
<1>3. PaceInv => \A p \in Procs : Accepted(p) \/ Rejected(p) => sent[p] >= CheckSeconds
  BY DEF PaceInv, Paced, Accepted, Rejected
<1>. QED BY <1>1, <1>2, <1>3, TypeCorrect, PTL DEF Spec, PacedUpdates
=============================================================================
