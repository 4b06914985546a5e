---------------------------- MODULE RequestQueue ----------------------------
(***************************************************************************)
(* How a page of LuCI calls ubus: rpc.js on top of Request of luci.js.     *)
(* Calls made between two animation frames travel in one batch and are     *)
(* answered by position.  An answer "access denied" makes the interceptor  *)
(* of luci.js ask with a second call whether the session still exists      *)
(* before the first one is settled.                                        *)
(***************************************************************************)
EXTENDS SequencesExt

CONSTANTS
    Clients,    \* whoever makes calls, one at a time each
    Plain,      \* clients that use Request.request, not ubus
    LoseCalls   \* TRUE: requests may time out or be aborted

ASSUME ClientsAssumption == IsFiniteSet(Clients) /\ Plain \subseteq Clients
ASSUME LoseCallsAssumption == LoseCalls \in BOOLEAN

VARIABLES
    session,    \* TRUE while the login session exists on the device
    expired,    \* TRUE once notifySessionExpiry has shown its dialog
    queue,      \* requestQueue
    flight,     \* requests under way, each the sequence of its calls
    call,       \* what became of every call
    lostCheck   \* history: a session check got no answer

queueVars == <<session, expired, queue, flight, call, lostCheck>>

\* A client's own call, and the session check made on its behalf.
Calls == Clients \X {"call", "access"}
Own(c) == <<c, "call">>
Check(c) == <<c, "access">>

\* "hung": neither callback of the promise will ever run.
States == {"none", "queued", "sent", "checking", "resolved", "rejected", "hung"}
Waiting == {"queued", "sent", "checking"}

Busy(c) == call[Own(c)] \notin {"resolved", "rejected"}
Members(b) == {b[i] : i \in DOMAIN b}

QueueTypeOK ==
    /\ {session, expired, lostCheck} \subseteq BOOLEAN
    /\ queue \in Seq(Calls)
    /\ flight \subseteq Seq(Calls)
    /\ call \in [Calls -> States]

QueueInit ==
    /\ session = TRUE
    /\ expired = FALSE
    /\ queue = <<>>
    /\ flight = {}
    /\ call = [x \in Calls |-> "none"]
    /\ lostCheck = FALSE

\* rpc.declare()() or Request.request: the clients in cs make their calls, the
\* ubus calls at the end of the queue and the others at once.
Issue(cs) ==
    LET batched == cs \ Plain IN
    /\ \A c \in cs : call[Own(c)] = "none"
    /\ queue' = queue \o SetToSeq({Own(c) : c \in batched})
    /\ flight' = flight \cup {<<Own(c)>> : c \in cs \ batched}
    /\ call' = [x \in Calls |->
          IF x[1] \in cs /\ x[2] = "call"
          THEN IF x[1] \in batched THEN "queued" ELSE "sent"
          ELSE call[x]]
    /\ UNCHANGED <<session, expired, lostCheck>>

\* The client has seen what became of its call.
Release(c) ==
    /\ ~Busy(c)
    /\ call' = [call EXCEPT ![Own(c)] = "none", ![Check(c)] = "none"]
    /\ UNCHANGED <<session, expired, queue, flight, lostCheck>>

\* Mutant: the queue is not emptied when it is sent.
FlushKeeps ==
    /\ queue # <<>>
    /\ flight' = flight \cup {queue}
    /\ call' = [x \in Calls |-> IF call[x] = "queued" THEN "sent" ELSE call[x]]
    /\ UNCHANGED <<session, expired, queue, lostCheck>>

\* flushRequestQueue, in the next animation frame.
Flush ==
    /\ queue # <<>>
    /\ flight' = flight \cup {queue}
    /\ queue' = <<>>
    /\ call' = [x \in Calls |-> IF call[x] = "queued" THEN "sent" ELSE call[x]]
    /\ UNCHANGED <<session, expired, lostCheck>>

-----------------------------------------------------------------------------
(* Answers.                                                                *)

\* Mutant: the interceptor checks the session for its own check as well.
NeedsCheckAny(x) == x[1] \notin Plain

\* The interceptor of setupDOM: error -32002, but not of session.access itself.
NeedsCheck(x) == x[1] \notin Plain /\ x[2] = "call"

\* Mutant: every call that is refused ends the session.
EndsSessionAny(x) == x[1] \notin Plain

\* Only the session check, when it fails, ends in notifySessionExpiry.
EndsSession(x) == x[2] = "access"

\* Of the calls of b, those in denied got error -32002, those in failed got no
\* usable answer, the others a result.  parseCallReply settles a call, or waits
\* for the session check.  (The order of a batch makes no difference.)
Settle(b, denied, failed) ==
    LET checks == {x \in Members(b) \cap denied : NeedsCheck(x)}
        ended  == Members(b) \ checks
    IN
    /\ flight' = flight \ {b}
    /\ queue' = queue \o SetToSeq({Check(x[1]) : x \in checks})
    /\ call' = [x \in Calls |->
          IF x \in ended
          THEN IF x \in denied \cup failed THEN "rejected" ELSE "resolved"
          ELSE IF x \in checks THEN "checking"
          ELSE IF x[2] = "access" /\ Own(x[1]) \in checks THEN "queued"
          ELSE IF x[2] = "call" /\ Check(x[1]) \in ended THEN "rejected"
          ELSE call[x]]
    /\ expired' = (expired \/ \E x \in (denied \cup failed) \cap ended : EndsSession(x))
    /\ lostCheck' = (lostCheck \/ \E x \in failed : x[2] = "access")
    /\ UNCHANGED session

\* action_ubus, or uhttpd, answers the first n calls of a batch one by one: with a
\* result, with an error, or with "access denied", which all of them get without a
\* session, and otherwise those that the user may not make.  Every call takes the
\* answer at its place; for the rest there is "No related RPC reply".
Reply(b) ==
    /\ b \in flight
    /\ \E n \in 0..Len(b) : \E denied, errors \in SUBSET {b[i] : i \in 1..n} :
         LET failed == errors \cup {b[i] : i \in (n + 1)..Len(b)} IN
         /\ denied \cap failed = {}
         /\ \A x \in denied \cup failed : x[1] \notin Plain
         /\ IF session THEN \A x \in denied : x[2] = "call"
            ELSE denied \cup failed = Members(b)
         /\ Settle(b, denied, failed)

\* Time-out, abort, HTTP error, or a reply that is no JSON array.
Lose(b) ==
    /\ LoseCalls
    /\ b \in flight
    /\ Settle(b, {}, Members(b))

\* A page request without a session gets 403 and X-LuCI-Login-Required: the
\* interceptor throws in the event handler, and the promise stays pending.
LoginRequired(b) ==
    /\ b \in flight
    /\ ~session
    /\ \A x \in Members(b) : x[1] \in Plain
    /\ flight' = flight \ {b}
    /\ call' = [x \in Calls |-> IF x \in Members(b) THEN "hung" ELSE call[x]]
    /\ expired' = TRUE
    /\ UNCHANGED <<session, queue, lostCheck>>

\* The session times out on the device, or is destroyed from another page.
SessionEnds ==
    /\ session
    /\ session' = FALSE
    /\ UNCHANGED <<expired, queue, flight, call, lostCheck>>

Answer(b) == Reply(b) \/ Lose(b) \/ LoginRequired(b)

-----------------------------------------------------------------------------
(* Properties.                                                             *)

\* Every call that waits for the network is in one place, exactly once: in the
\* queue or in a request under way; a call is held back for a session check
\* only while that check is waiting.
CallsAccounted ==
    /\ \A i, j \in DOMAIN queue : queue[i] = queue[j] => i = j
    /\ \A x \in Calls : call[x] = "queued" <=> x \in Members(queue)
    /\ \A b \in flight : \A i, j \in DOMAIN b : b[i] = b[j] => i = j
    /\ \A x \in Calls : call[x] = "sent" <=> \E b \in flight : x \in Members(b)
    /\ \A b1, b2 \in flight : Members(b1) \cap Members(b2) # {} => b1 = b2
    /\ \A c \in Clients :
         call[Own(c)] = "checking" <=> call[Check(c)] \in {"queued", "sent"}

\* "Session expired" is shown when the session is gone, or when the answer to
\* a session check was lost; never because one object is denied to the user.
ExpiredMeansGone == expired => ~session \/ lostCheck

\* The promise of every ubus call is resolved or rejected at last, session check or
\* not.  (Nothing of the kind holds for page requests: they have no time-out, and with
\* the login dialog up their promises stay pending.)
CallsSettle ==
    \A c \in Clients \ Plain :
      call[Own(c)] \in Waiting \cup {"hung"} ~> call[Own(c)] \notin Waiting \cup {"hung"}
=============================================================================
