----------------------------- MODULE LuciRuntime -----------------------------
(***************************************************************************)
(* A page of LuCI at work: the functions that LuCI.poll calls make ubus    *)
(* calls or page requests, whose promises let them be polled again; an     *)
(* expired session and the dialogs of ui.js stop and start polling.        *)
(***************************************************************************)
EXTENDS Poll, RequestQueue

CONSTANTS
    MaxEvents     \* bound: clicks on the indicator and dialogs shown

ASSUME MaxEventsAssumption == MaxEvents \in Nat
ASSUME CallersAssumption == Invocations \subseteq Clients

VARIABLES
    loaded,      \* initDOM has run
    wasPolling,  \* was_polling of UI.changes
    dialog,      \* TRUE while displayStatus shows something
    events       \* history: clicks on the indicator and dialogs so far

runtimeVars == <<loaded, wasPolling, dialog, events>>
vars == <<pollVars, queueVars, runtimeVars>>

TypeOK ==
    /\ PollTypeOK
    /\ QueueTypeOK
    /\ {loaded, wasPolling, dialog} \subseteq BOOLEAN
    /\ events \in 0..MaxEvents

Init ==
    /\ PollInit
    /\ QueueInit
    /\ loaded = FALSE
    /\ wasPolling = FALSE
    /\ dialog = FALSE
    /\ events = 0

\* The functions that the step calls make their calls before they return.
CallsMade == Issue(running' \ running)

\* initDOM starts polling, once.
PageReady ==
    /\ ~loaded
    /\ loaded' = TRUE
    /\ Start
    /\ CallsMade
    /\ UNCHANGED <<wasPolling, dialog, events>>

\* The "Refreshing" / "Paused" indicator; an open dialog covers it.
UserToggles ==
    /\ loaded
    /\ ~dialog
    /\ events < MaxEvents
    /\ events' = events + 1
    /\ Start \/ Stop
    /\ CallsMade
    /\ UNCHANGED <<loaded, wasPolling, dialog>>

AddFn(f) == Add(f) /\ CallsMade /\ UNCHANGED runtimeVars
RemoveFn(f) == Unpoll(f) /\ UNCHANGED <<queueVars, runtimeVars>>

\* Frames are drawn and promise callbacks run before the next second.
TimerFires ==
    /\ queue = <<>>
    /\ \A s \in running : Busy(s)
    /\ Second
    /\ CallsMade
    /\ UNCHANGED runtimeVars

\* The call that a polled function waits for is settled.
CallOver(s) ==
    /\ s \in running
    /\ ~Busy(s)
    /\ Finish(s, call[Own(s)] = "resolved")
    /\ Release(s)
    /\ UNCHANGED runtimeVars

\* notifySessionExpiry stops polling, every time it runs.
Notified ==
    \E x \in Calls :
      \/ x[2] = "access" /\ call[x] # "rejected" /\ call'[x] = "rejected"
      \/ call[x] # "hung" /\ call'[x] = "hung"

Network(b) ==
    /\ Answer(b)
    /\ IF Notified /\ timer THEN Stop ELSE UNCHANGED pollVars
    /\ UNCHANGED runtimeVars

Frame == Flush /\ UNCHANGED <<pollVars, runtimeVars>>

SessionOver == SessionEnds /\ UNCHANGED <<pollVars, runtimeVars>>

\* displayStatus(type): was_polling is set by the first dialog that finds
\* polling active, and never reset; once it is set, polling is not stopped.
ShowDialog ==
    /\ loaded
    /\ events < MaxEvents
    /\ events' = events + 1
    /\ dialog' = TRUE
    /\ wasPolling' = (wasPolling \/ timer)
    /\ IF ~wasPolling /\ timer THEN Stop ELSE UNCHANGED pollVars
    /\ UNCHANGED <<queueVars, loaded>>

\* displayStatus(false).
HideDialog ==
    /\ dialog
    /\ dialog' = FALSE
    /\ IF wasPolling /\ ~timer THEN Start ELSE UNCHANGED pollVars
    /\ CallsMade
    /\ UNCHANGED <<loaded, wasPolling, events>>

Next ==
    \/ PageReady \/ UserToggles \/ ShowDialog \/ HideDialog
    \/ \E f \in Fns : AddFn(f) \/ RemoveFn(f)
    \/ TimerFires \/ Frame \/ SessionOver
    \/ \E s \in Invocations : CallOver(s)
    \/ \E b \in flight : Network(b)

Spec == Init /\ [][Next]_vars

\* The request that carries a ubus call of client s is answered, or times out.
Answered(s) == \E b \in flight : (\E x \in Members(b) : x[1] = s) /\ Network(b)

\* The browser's event loop goes on (a frame that is due and the timer exclude
\* each other) and runs the callbacks of promises; rpc.js gives its requests a
\* time-out (rpctimeout), page requests have none and may wait for ever.
Fairness ==
    /\ WF_vars(TimerFires \/ Frame)
    /\ \A s \in Invocations : WF_vars(CallOver(s))
    /\ \A s \in Invocations \ Plain : WF_vars(Answered(s))

FairSpec == Spec /\ Fairness

-----------------------------------------------------------------------------
(* Properties.                                                             *)

\* Once stop() has been called, only start() sets the timer again: functions
\* that are added or removed meanwhile do not, nor do answers that arrive late.
PausedStaysPaused == TypeOK /\ (paused => ~timer)
=============================================================================
