-------------------------------- MODULE Poll --------------------------------
(***************************************************************************)
(* LuCI.poll of luci.js: a queue of functions that step(), run by a timer  *)
(* every second, calls again and again.  A call returns a promise; until   *)
(* it is settled the function is not called again.                         *)
(***************************************************************************)
EXTENDS Integers, SequencesExt

CONSTANTS
    Fns,        \* functions that get polled
    Interval,   \* their intervals, in seconds
    Throwers,   \* those that throw instead of returning a promise
    OneShots,   \* those that remove themselves while they are called
    Invocations, \* bound: the calls that can be under way, numbered by function
    MaxAdds,    \* bound: calls of add()
    TickWrap    \* stands for the 2^32 at which the tick counter wraps

ASSUME IntervalAssumption == Interval \in [Fns -> Nat \ {0}]
ASSUME SubsetsAssumption == Throwers \cup OneShots \subseteq Fns
ASSUME InvocationsAssumption ==
    Invocations \subseteq (Fns \ Throwers) \X (Nat \ {0})
ASSUME BoundsAssumption == MaxAdds \in Nat /\ TickWrap \in Nat \ {0}

VARIABLES
    entries,  \* the queue; r is FALSE from a call until its promise settles
    tick,     \* seconds since start(), Undefined after stop()
    timer,    \* TRUE while the interval timer is set: active()
    running,  \* calls under way: pairs of a function and a slot
    stale,    \* history: those whose entry has been removed
    paused,   \* history: stop() was called, and no start() since
    adds      \* history: calls of add() so far

pollVars == <<entries, tick, timer, running, stale, paused, adds>>

Undefined == -1

\* slot is the call that will set r again, 0 if there is none.
Entry == [fn : Fns, r : BOOLEAN, slot : Nat]

PollTypeOK ==
    /\ entries \in Seq(Entry)
    /\ tick \in -1..(TickWrap - 1)
    /\ {timer, paused} \subseteq BOOLEAN
    /\ running \subseteq Invocations
    /\ stale \subseteq running
    /\ adds \in 0..MaxAdds

PollInit ==
    /\ entries = <<>>
    /\ tick = Undefined
    /\ timer = FALSE
    /\ running = {}
    /\ stale = {}
    /\ paused = FALSE
    /\ adds = 0

Polled == {entries[i].fn : i \in DOMAIN entries}
\* splice(); add() lets no function in twice, so there is one entry to remove.
Without(q, f) == RemoveAt(q, CHOOSE i \in DOMAIN q : q[i].fn = f)
CallsOf(f, rs) == {s \in rs : s[1] = f}

-----------------------------------------------------------------------------
(* step().                                                                 *)

\* Turn i of the loop, at tick t.  w is the queue as it is by then, and what
\* the calls so far have left: a function that removes itself moves the next
\* entry to the place where the loop has just been; one that throws leaves its
\* r FALSE and ends the loop.
Turn(w, i, t) ==
    LET e == w.entries[i]
        f == e.fn
        s == CHOOSE x \in CallsOf(f, Invocations) : x \notin w.running
    IN
    IF w.thrown \/ i > Len(w.entries) THEN w
    ELSE IF ~e.r \/ t % Interval[f] # 0 THEN w
    ELSE IF f \in Throwers
         THEN [w EXCEPT !.thrown = TRUE, !.entries = [@ EXCEPT ![i].r = FALSE]]
    ELSE IF f \in OneShots
         THEN [w EXCEPT !.entries = Without(@, f), !.running = @ \cup {s},
                        !.stale = @ \cup CallsOf(f, w.running) \cup {s}]
         ELSE [w EXCEPT !.entries[i] = [@ EXCEPT !.r = FALSE, !.slot = s[2]],
                        !.running = @ \cup {s}]

NextTick(t) == (t + 1) % TickWrap

\* The whole loop over queue q at tick t; nothing runs in between.
Loop(q, t) ==
    LET after[i \in 0..Len(q)] ==
          IF i = 0 THEN [entries |-> q, running |-> running, stale |-> stale,
                         thrown |-> FALSE]
          ELSE Turn(after[i - 1], i, t)
    IN after[Len(q)]

\* A queue that runs empty has stopped the timer.  An exception leaves the tick
\* alone.
Step(q, t) ==
    LET w == Loop(q, t) IN
    /\ entries' = w.entries
    /\ running' = w.running
    /\ stale' = w.stale
    /\ timer' = (w.entries # <<>>)
    /\ tick' = IF w.thrown THEN t
               ELSE NextTick(IF w.entries = <<>> THEN 0 ELSE t)

\* The interval timer.
Second ==
    /\ timer
    /\ Step(entries, tick)
    /\ UNCHANGED <<paused, adds>>

-----------------------------------------------------------------------------
(* add(), remove(), start() and stop().                                    *)

\* What start() does with queue q: an empty one needs no timer.
StartWith(q) ==
    IF q # <<>>
    THEN Step(q, 0)
    ELSE tick' = 0 /\ UNCHANGED <<entries, timer, running, stale>>

\* Mutant: stop() leaves the counter alone.
StopKeepsTick ==
    /\ timer
    /\ timer' = FALSE
    /\ paused' = TRUE
    /\ UNCHANGED <<entries, tick, running, stale, adds>>

Stop ==
    /\ timer
    /\ timer' = FALSE
    /\ tick' = Undefined
    /\ paused' = TRUE
    /\ UNCHANGED <<entries, running, stale, adds>>

Start ==
    /\ ~timer
    /\ StartWith(entries)
    /\ paused' = FALSE
    /\ UNCHANGED adds

\* A timer that is off for want of functions is started, a stopped one is not.
Add(f) ==
    LET q == Append(entries, [fn |-> f, r |-> TRUE, slot |-> 0]) IN
    /\ adds < MaxAdds
    /\ f \notin Polled
    /\ f \notin Throwers => CallsOf(f, Invocations \ running) # {}
    /\ adds' = adds + 1
    /\ IF tick # Undefined /\ ~timer
       THEN StartWith(q)
       ELSE entries' = q /\ UNCHANGED <<tick, timer, running, stale>>
    /\ UNCHANGED paused

\* remove(f): a queue that runs empty stops the timer, but not for good.
Unpoll(f) ==
    /\ f \in Polled
    /\ entries' = Without(entries, f)
    /\ stale' = stale \cup CallsOf(f, running)
    /\ IF entries' = <<>> /\ timer
       THEN tick' = 0 /\ timer' = FALSE ELSE UNCHANGED <<tick, timer>>
    /\ UNCHANGED <<running, paused, adds>>

\* Mutants: r is set again only if the promise was resolved; r is set in
\* whatever entry the function has now.
FinishResolvedOnly(s, resolved) ==
    /\ running' = running \ {s}
    /\ stale' = stale \ {s}
    /\ entries' = [i \in DOMAIN entries |->
          IF entries[i].fn = s[1] /\ entries[i].slot = s[2] /\ resolved
          THEN [entries[i] EXCEPT !.r = TRUE, !.slot = 0] ELSE entries[i]]
    /\ UNCHANGED <<tick, timer, paused, adds>>

FinishByName(s, resolved) ==
    /\ running' = running \ {s}
    /\ stale' = stale \ {s}
    /\ entries' = [i \in DOMAIN entries |->
          IF entries[i].fn = s[1]
          THEN [entries[i] EXCEPT !.r = TRUE, !.slot = 0] ELSE entries[i]]
    /\ UNCHANGED <<tick, timer, paused, adds>>

\* finally(): the promise of call s is settled, one way or the other.
Finish(s, resolved) ==
    /\ running' = running \ {s}
    /\ stale' = stale \ {s}
    /\ entries' = [i \in DOMAIN entries |->
          IF entries[i].fn = s[1] /\ entries[i].slot = s[2]
          THEN [entries[i] EXCEPT !.r = TRUE, !.slot = 0] ELSE entries[i]]
    /\ UNCHANGED <<tick, timer, paused, adds>>

-----------------------------------------------------------------------------
(* Properties.                                                             *)

\* A function that is polled is called again once its last call is over, in
\* spite of failed calls and of others that throw, take long or remove
\* themselves.  (One that throws is never called again.)
Due(f) == timer /\ f \in Polled /\ CallsOf(f, running \ stale) = {}
CalledAgain == \A f \in Fns \ Throwers : Due(f) ~> ~Due(f)

\* A function is not called while its last call is under way, unless it was
\* removed in between; a call that outlives its entry does not disturb the one
\* that a new entry has under way.
OneCallAtATime ==
    \A s, t \in running \ stale : s[1] = t[1] => s = t
=============================================================================
