------------------------ MODULE LuciRuntime_proofs ------------------------
(***************************************************************************)
(* LuciRuntime for any number of polled functions and clients, any bounds  *)
(* and any wrap of the tick counter.  The inductive invariant, RuntimeInv, *)
(* has one part per module.  QueueInv adds to the invariants of the        *)
(* request queue that a page request has no session check.  PollInv says   *)
(* in SoundPoll what ties the entries of Poll.queue to the calls under     *)
(* way: each live call has its waiting entry, and an entry that may be     *)
(* called has a call left.  CallersFree joins the two: a function with no  *)
(* call under way has none on the wire.                                    *)
(*                                                                         *)
(* Poll.step() loops over the entries while the functions it calls take    *)
(* some of them out; LoopSound follows the loop turn by turn, by way of    *)
(* the first turn that would break SoundPoll.                              *)
(***************************************************************************)
EXTENDS LuciRuntime, FiniteSetTheorems, SequenceTheorems,
        WellFoundedInduction, TLAPS

USE ClientsAssumption DEF States

\* A set of numbers that has a member has a least one.
LEMMA LeastOf ==
    ASSUME NEW S, S \subseteq Nat, S # {}
    PROVE  \E n \in S : \A k \in S : n <= k
<1>1. PICK n \in S : \A k \in S : ~ (<<k, n>> \in OpToRel(<, Nat))
  BY WFMin, NatLessThanWellFounded, Zenon
<1>2. \A k \in S : ~ (k < n)
  BY <1>1, Zenon DEF OpToRel
<1>. QED BY <1>2

\* No element occurs twice.
Once(q) == \A i, j \in DOMAIN q : q[i] = q[j] => i = j

\* SetToSeq lists a finite set, each member once.
LEMMA Listed ==
    ASSUME NEW S, IsFiniteSet(S)
    PROVE  /\ SetToSeq(S) \in Seq(S)
           /\ Once(SetToSeq(S))
           /\ Members(SetToSeq(S)) = S
<1>. DEFINE n == Cardinality(S)
<1>1. n \in Nat /\ Bijection(1..n, S) # {}
  BY FS_CardinalityType DEF ExistsBijection
<1>2. PICK f \in [1..n -> S] : IsInjective(f)
  BY <1>1 DEF Bijection, Injection
<1>3. SetToSeq(S) \in [1..n -> S] /\ IsInjective(SetToSeq(S))
  BY <1>2 DEF SetToSeq
<1>. DEFINE g == SetToSeq(S)
<1>4. g \in Injection(1..n, S)
  BY <1>3 DEF Injection
<1>5. IsFiniteSet(1..n) /\ Cardinality(1..n) = n
  BY <1>1, FS_Interval
<1>6. g \in Surjection(1..n, S)
  <2>. HIDE DEF g
  <2>. QED BY <1>4, <1>5, FS_Injection
<1>7. \A x \in S : \E i \in 1..n : g[i] = x
  BY <1>6 DEF Surjection
<1>8. DOMAIN g = 1..n /\ g \in Seq(S)
  BY <1>1, <1>3
<1>. QED BY <1>3, <1>7, <1>8 DEF Once, Members, IsInjective

\* What a concatenation holds, and where.
LEMMA Appended ==
    ASSUME NEW E, NEW p \in Seq(E), NEW q \in Seq(E)
    PROVE  /\ p \o q \in Seq(E) /\ Len(p \o q) = Len(p) + Len(q)
           /\ DOMAIN (p \o q) = 1..(Len(p) + Len(q))
           /\ \A i \in 1..Len(p) : (p \o q)[i] = p[i]
           /\ \A i \in 1..Len(q) : (p \o q)[i + Len(p)] = q[i]
OBVIOUS

\* Two lists without a common element, each without a repetition, make one.
LEMMA Joined ==
    ASSUME NEW E, NEW p \in Seq(E), NEW q \in Seq(E), Once(p), Once(q),
           Members(p) \cap Members(q) = {}
    PROVE  p \o q \in Seq(E) /\ Once(p \o q) /\ Members(p \o q) = Members(p) \cup Members(q)
<1>1. /\ p \o q \in Seq(E) /\ Len(p \o q) = Len(p) + Len(q)
      /\ \A i \in 1..Len(p) : (p \o q)[i] = p[i]
      /\ \A i \in 1..Len(q) : (p \o q)[i + Len(p)] = q[i]
  OBVIOUS
<1>2. \A i \in DOMAIN (p \o q) : \/ i \in 1..Len(p) /\ (p \o q)[i] = p[i]
                                 \/ \E k \in 1..Len(q) : i = k + Len(p) /\ (p \o q)[i] = q[k]
  <2>. TAKE i \in DOMAIN (p \o q)
  <2>1. i \in 1..Len(p) + Len(q)
    BY <1>1
  <2>2. CASE i > Len(p)
    <3>. DEFINE k == i - Len(p)
    <3>1. k \in 1..Len(q) /\ i = k + Len(p)
      BY <2>1, <2>2
    <3>. HIDE DEF k
    <3>. QED BY <1>1, <3>1
  <2>. QED BY <1>1, <2>1, <2>2
<1>0. DOMAIN p = 1..Len(p) /\ DOMAIN q = 1..Len(q)
  OBVIOUS
<1>3. Members(p \o q) = Members(p) \cup Members(q)
  <2>1. Members(p \o q) \subseteq Members(p) \cup Members(q)
    BY <1>2 DEF Members
  <2>2. \A i \in 1..Len(p) : i \in DOMAIN (p \o q)
    BY <1>1
  <2>3. \A i \in 1..Len(q) : i + Len(p) \in DOMAIN (p \o q)
    BY <1>1
  <2>4. Members(p) \subseteq Members(p \o q)
    BY <1>0, <1>1, <2>2 DEF Members
  <2>5. Members(q) \subseteq Members(p \o q)
    BY <1>0, <1>1, <2>3 DEF Members
  <2>. QED BY <2>1, <2>4, <2>5
<1>4. ASSUME NEW i \in DOMAIN (p \o q), NEW j \in DOMAIN (p \o q), (p \o q)[i] = (p \o q)[j]
      PROVE  i = j
  <2>. DEFINE r == p \o q
  <2>1. \A a \in 1..Len(p), b \in 1..Len(q) : p[a] # q[b]
    BY <1>0 DEF Members
  <2>2. \/ i \in 1..Len(p) /\ r[i] = p[i]
        \/ \E k \in 1..Len(q) : i = k + Len(p) /\ r[i] = q[k]
    BY <1>2
  <2>3. \/ j \in 1..Len(p) /\ r[j] = p[j]
        \/ \E k \in 1..Len(q) : j = k + Len(p) /\ r[j] = q[k]
    BY <1>2
  <2>4. r[i] = r[j]
    BY <1>4
  <2>. HIDE DEF r
  <2>. QED BY <1>0, <2>1, <2>2, <2>3, <2>4 DEF Once
<1>. QED BY <1>1, <1>3, <1>4 DEF Once

-----------------------------------------------------------------------------

\* Only an ubus call is held back for a session check, never a page request.
NoPlainCheck == \A c \in Plain : call[Own(c)] # "checking"

\* The part of the invariant that is about the request queue.
QueueInv == QueueTypeOK /\ CallsAccounted /\ ExpiredMeansGone /\ NoPlainCheck

\* No call has been made.
LEMMA QueueStart == QueueInit => QueueInv
<1>. SUFFICES ASSUME QueueInit PROVE QueueInv
  OBVIOUS
<1>1. Members(<<>>) = {}
  BY DEF Members
<1>2. \A c \in Clients : Own(c) \in Calls /\ Check(c) \in Calls
  BY DEF Own, Check, Calls
<1>3. QueueTypeOK
  <2>1. {session, expired, lostCheck} \subseteq BOOLEAN
    BY Zenon DEF QueueInit
  <2>2. queue \in Seq(Calls) /\ flight \subseteq Seq(Calls)
    BY DEF QueueInit
  <2>3. call \in [Calls -> States]
    BY DEF QueueInit
  <2>. QED BY <2>1, <2>2, <2>3 DEF QueueTypeOK
<1>4. NoPlainCheck
  BY <1>2 DEF QueueInit, NoPlainCheck
<1>5. /\ queue = <<>> /\ flight = {} /\ expired = FALSE
      /\ \A x \in Calls : call[x] = "none"
  BY DEF QueueInit
<1>6. CallsAccounted
  BY <1>1, <1>2, <1>5 DEF CallsAccounted
<1>. QED BY <1>3, <1>4, <1>5, <1>6 DEF QueueInv, ExpiredMeansGone

\* Two calls of two kinds, or of two clients, are two calls.
LEMMA CallNames ==
    /\ \A c \in Clients : Own(c) \in Calls /\ Check(c) \in Calls
    /\ \A c, d : Own(c) # Check(d)
    /\ \A c, d : Own(c) = Own(d) => c = d
    /\ \A c, d : Check(c) = Check(d) => c = d
    /\ \A c : Own(c)[1] = c /\ Own(c)[2] = "call" /\ Check(c)[1] = c /\ Check(c)[2] = "access"
<1>1. \A c \in Clients : Own(c) \in Calls /\ Check(c) \in Calls
  BY DEF Own, Check, Calls
<1>2. \A c, d : Own(c) # Check(d)
  BY DEF Own, Check
<1>3. \A c, d : Own(c) = Own(d) => c = d
  BY DEF Own
<1>4. \A c, d : Check(c) = Check(d) => c = d
  BY DEF Check
<1>5. \A c : Own(c)[1] = c /\ Own(c)[2] = "call" /\ Check(c)[1] = c /\ Check(c)[2] = "access"
  BY DEF Own, Check
<1>. QED BY <1>1, <1>2, <1>3, <1>4, <1>5

\* A call is a client's own or the session check for it.
LEMMA CallKinds ==
    ASSUME NEW x \in Calls
    PROVE  /\ x[1] \in Clients
           /\ \/ x = Own(x[1]) /\ x[2] = "call"
              \/ x = Check(x[1]) /\ x[2] = "access"
<1>1. PICK c \in Clients, k \in {"call", "access"} : x = <<c, k>>
  BY DEF Calls
<1>2. x[1] = c /\ x[2] = k
  BY <1>1
<1>3. CASE k = "call"
  BY <1>1, <1>2, <1>3 DEF Own
<1>4. CASE k = "access"
  BY <1>1, <1>2, <1>4 DEF Check
<1>. QED BY <1>1, <1>3, <1>4

\* Polled functions make calls that were not under way: each is in the queue or
\* in a request of its own, in no other place.
LEMMA CallsIssued ==
    ASSUME QueueInv, NEW cs \in SUBSET Clients, Issue(cs)
    PROVE  QueueInv'
<1>. DEFINE batched == cs \ Plain
            new == SetToSeq({Own(c) : c \in batched})
            alone == {<<Own(c)>> : c \in cs \ batched}
<1>. USE CallNames
<1>0. /\ queue \in Seq(Calls) /\ flight \subseteq Seq(Calls) /\ call \in [Calls -> States]
      /\ {session, expired, lostCheck} \subseteq BOOLEAN
  BY DEF QueueInv, QueueTypeOK
<1>1. IsFiniteSet({Own(c) : c \in batched})
  <2>1. IsFiniteSet(Clients \X {"call"})
    BY FS_Product, FS_Singleton
  <2>2. {Own(c) : c \in batched} \subseteq Clients \X {"call"}
    BY DEF Own
  <2>. QED BY <2>1, <2>2, FS_Subset
<1>2. new \in Seq(Calls) /\ Once(new) /\ Members(new) = {Own(c) : c \in batched}
  <2>1. \A S : S \subseteq Calls => Seq(S) \subseteq Seq(Calls)
    OBVIOUS
  <2>2. {Own(c) : c \in batched} \subseteq Calls
    OBVIOUS
  <2>. QED BY <1>1, <2>1, <2>2, Listed
<1>3. /\ \A c \in cs : call[Own(c)] = "none"
      /\ queue' = queue \o new
      /\ flight' = flight \cup alone
      /\ call' = [x \in Calls |->
            IF x[1] \in cs /\ x[2] = "call"
            THEN IF x[1] \in batched THEN "queued" ELSE "sent"
            ELSE call[x]]
      /\ UNCHANGED <<session, expired, lostCheck>>
  BY DEF Issue
<1>4. /\ \A c \in batched : call'[Own(c)] = "queued"
      /\ \A c \in cs \ batched : call'[Own(c)] = "sent"
      /\ \A c \in Clients \ cs : call'[Own(c)] = call[Own(c)]
      /\ \A c \in Clients : call'[Check(c)] = call[Check(c)]
      /\ call' \in [Calls -> States]
  BY <1>0, <1>3
<1>5. /\ \A b \in alone : b \in Seq(Calls) /\ Once(b)
      /\ \A b \in alone : \E c \in cs \ batched : b = <<Own(c)>> /\ Members(b) = {Own(c)}
      /\ \A c \in cs \ batched : \E b \in alone : Members(b) = {Own(c)}
  <2>1. ASSUME NEW c \in Clients
        PROVE  <<Own(c)>> \in Seq(Calls) /\ Once(<<Own(c)>>) /\ Members(<<Own(c)>>) = {Own(c)}
    BY DEF Once, Members
  <2>2. \A b \in alone : \E c \in cs \ batched : b = <<Own(c)>>
    OBVIOUS
  <2>3. \A c \in cs \ batched : <<Own(c)>> \in alone
    OBVIOUS
  <2>. HIDE DEF alone, batched
  <2>. QED BY <2>1, <2>2, <2>3
<1>6. \A c \in cs : Own(c) \notin Members(queue) /\ \A b \in flight : Own(c) \notin Members(b)
  BY <1>3 DEF QueueInv, CallsAccounted
<1>7. queue' \in Seq(Calls) /\ Once(queue') /\ Members(queue') = Members(queue) \cup Members(new)
  <2>1. Once(queue)
    BY DEF QueueInv, CallsAccounted, Once
  <2>2. Members(queue) \cap Members(new) = {}
    BY <1>2, <1>6
  <2>. HIDE DEF new
  <2>. QED BY <1>0, <1>2, <1>3, <2>1, <2>2, Joined
<1>. HIDE DEF new, alone
<1>8. QueueTypeOK'
  BY <1>0, <1>3, <1>4, <1>5, <1>7 DEF QueueTypeOK
<1>9. ASSUME NEW x \in Calls
      PROVE  /\ call'[x] = "queued" <=> x \in Members(queue')
             /\ call'[x] = "sent" <=> \E b \in flight' : x \in Members(b)
  <2>1. /\ call[x] = "queued" <=> x \in Members(queue)
        /\ call[x] = "sent" <=> \E b \in flight : x \in Members(b)
    BY DEF QueueInv, CallsAccounted
  <2>2. ASSUME NEW c \in batched, x = Own(c)
        PROVE  /\ call'[x] = "queued" /\ x \in Members(queue')
               /\ ~ \E b \in flight' : x \in Members(b)
    <3>1. \A b \in alone : x \notin Members(b)
      BY <2>2, <1>5
    <3>. QED BY <2>2, <3>1, <1>2, <1>3, <1>4, <1>6, <1>7
  <2>3. ASSUME NEW c \in cs \ batched, x = Own(c)
        PROVE  /\ call'[x] = "sent" /\ x \notin Members(queue')
               /\ \E b \in flight' : x \in Members(b)
    <3>1. \E b \in alone : x \in Members(b)
      BY <2>3, <1>5
    <3>2. x \notin Members(new)
      BY <2>3, <1>2
    <3>. QED BY <2>3, <3>1, <3>2, <1>3, <1>4, <1>6, <1>7
  <2>4. CASE \A c \in cs : x # Own(c)
    <3>1. \A b \in alone : x \notin Members(b)
      BY <2>4, <1>5
    <3>2. x \notin Members(new)
      BY <2>4, <1>2
    <3>3. call'[x] = call[x]
      BY <2>4, <1>4, CallKinds
    <3>. QED BY <2>1, <3>1, <3>2, <3>3, <1>3, <1>7
  <2>. QED BY <2>2, <2>3, <2>4
<1>10. ASSUME NEW b1 \in flight', NEW b2 \in flight', Members(b1) \cap Members(b2) # {}
       PROVE  b1 = b2
  <2>1. CASE b1 \in flight /\ b2 \in flight
    BY <2>1, <1>10 DEF QueueInv, CallsAccounted
  <2>2. CASE b1 \in alone /\ b2 \in alone
    BY <2>2, <1>5, <1>10
  <2>3. \A b \in flight, d \in alone : Members(b) \cap Members(d) = {}
    BY <1>5, <1>6
  <2>. QED BY <2>1, <2>2, <2>3, <1>3, <1>10
<1>11. \A c \in Clients : call'[Own(c)] = "checking" <=> call'[Check(c)] \in {"queued", "sent"}
  BY <1>3, <1>4 DEF QueueInv, CallsAccounted
<1>12. \A b \in flight' : Once(b)
  BY <1>3, <1>5 DEF QueueInv, CallsAccounted, Once
<1>13. CallsAccounted'
  BY <1>7, <1>9, <1>10, <1>11, <1>12 DEF CallsAccounted, Once
<1>14. NoPlainCheck'
  BY <1>4 DEF QueueInv, NoPlainCheck
<1>. QED BY <1>3, <1>8, <1>13, <1>14 DEF QueueInv, ExpiredMeansGone

\* The client has seen what became of its call, and calls again.
LEMMA CallReleased ==
    ASSUME QueueInv, NEW c \in Clients, Release(c)
    PROVE  QueueInv'
<1>. USE CallNames
<1>0. call \in [Calls -> States] /\ call[Own(c)] \in {"resolved", "rejected"}
  BY DEF QueueInv, QueueTypeOK, Release, Busy
<1>1. /\ call' = [call EXCEPT ![Own(c)] = "none", ![Check(c)] = "none"]
      /\ UNCHANGED <<session, expired, queue, flight, lostCheck>>
  BY DEF Release
<1>2. /\ call' \in [Calls -> States] /\ call'[Own(c)] = "none" /\ call'[Check(c)] = "none"
      /\ \A x \in Calls \ {Own(c), Check(c)} : call'[x] = call[x]
  BY <1>0, <1>1
<1>3. call[Check(c)] \notin {"queued", "sent"}
  BY <1>0 DEF QueueInv, CallsAccounted
<1>4. QueueTypeOK'
  BY <1>1, <1>2 DEF QueueInv, QueueTypeOK
<1>5. \A x \in Calls : /\ call'[x] = "queued" <=> call[x] = "queued"
                       /\ call'[x] = "sent" <=> call[x] = "sent"
  <2>. TAKE x \in Calls
  <2>1. CASE x = Own(c)
    BY <2>1, <1>0, <1>2
  <2>2. CASE x = Check(c)
    BY <2>2, <1>2, <1>3
  <2>. QED BY <2>1, <2>2, <1>2
<1>6. \A d \in Clients : call'[Own(d)] = "checking" <=> call[Own(d)] = "checking"
  <2>. TAKE d \in Clients
  <2>1. CASE d = c
    BY <2>1, <1>0, <1>2
  <2>2. CASE d # c
    BY <2>2, <1>2
  <2>. QED BY <2>1, <2>2
<1>7. CallsAccounted'
  <2>1. \A x \in Calls : /\ call'[x] = "queued" <=> x \in Members(queue')
                         /\ call'[x] = "sent" <=> \E b \in flight' : x \in Members(b)
    BY <1>1, <1>5 DEF QueueInv, CallsAccounted
  <2>2. \A d \in Clients : call'[Own(d)] = "checking" <=> call'[Check(d)] \in {"queued", "sent"}
    BY <1>5, <1>6 DEF QueueInv, CallsAccounted
  <2>. QED BY <1>1, <2>1, <2>2 DEF QueueInv, CallsAccounted
<1>. QED BY <1>1, <1>4, <1>6, <1>7, ClientsAssumption DEF QueueInv, ExpiredMeansGone, NoPlainCheck

\* The frame callback sends the queue as one request.
LEMMA QueueFlushed ==
    ASSUME QueueInv, Flush
    PROVE  QueueInv'
<1>. USE CallNames
<1>0. /\ queue \in Seq(Calls) /\ flight \subseteq Seq(Calls) /\ call \in [Calls -> States]
  BY DEF QueueInv, QueueTypeOK
<1>1. /\ flight' = flight \cup {queue}
      /\ queue' = <<>>
      /\ call' = [x \in Calls |-> IF call[x] = "queued" THEN "sent" ELSE call[x]]
      /\ UNCHANGED <<session, expired, lostCheck>>
  BY DEF Flush
<1>2. Members(queue') = {} /\ Once(queue')
  BY <1>1 DEF Members, Once
<1>3. QueueTypeOK'
  BY <1>0, <1>1 DEF QueueInv, QueueTypeOK
<1>4. ASSUME NEW x \in Calls
      PROVE  /\ call'[x] = "queued" <=> x \in Members(queue')
             /\ call'[x] = "sent" <=> \E b \in flight' : x \in Members(b)
  BY <1>0, <1>1, <1>2 DEF QueueInv, CallsAccounted
<1>5. \A b \in flight : Members(b) \cap Members(queue) = {}
  <2>. SUFFICES ASSUME NEW b \in flight, NEW x \in Members(b), x \in Members(queue)
                PROVE  FALSE
    OBVIOUS
  <2>1. x \in Calls
    BY <1>0 DEF Members
  <2>. QED BY <2>1 DEF QueueInv, CallsAccounted
<1>6. ASSUME NEW b1 \in flight', NEW b2 \in flight', Members(b1) \cap Members(b2) # {}
      PROVE  b1 = b2
  BY <1>1, <1>5, <1>6 DEF QueueInv, CallsAccounted
<1>7. \A b \in flight' : Once(b)
  BY <1>1 DEF QueueInv, CallsAccounted, Once
<1>8. \A c \in Clients : call'[Own(c)] = "checking" <=> call'[Check(c)] \in {"queued", "sent"}
  BY <1>1 DEF QueueInv, CallsAccounted
<1>9. CallsAccounted'
  BY <1>2, <1>4, <1>6, <1>7, <1>8 DEF CallsAccounted, Once
<1>10. NoPlainCheck'
  BY <1>0, <1>1 DEF QueueInv, NoPlainCheck
<1>. QED BY <1>1, <1>3, <1>9, <1>10 DEF QueueInv, ExpiredMeansGone

\* The calls of one answer are settled, or held back until the session check
\* that is queued for them is settled.
LEMMA BatchSettled ==
    ASSUME QueueInv, NEW b \in flight, NEW denied \in SUBSET Members(b),
           NEW failed \in SUBSET Members(b), Settle(b, denied, failed),
           \A x \in (denied \cup failed) \ failed : x[2] = "access" => ~session
    PROVE  QueueInv'
<1>. DEFINE checks == {x \in Members(b) \cap denied : NeedsCheck(x)}
            ended  == Members(b) \ checks
            new    == SetToSeq({Check(x[1]) : x \in checks})
<1>. USE CallNames
<1>0. /\ queue \in Seq(Calls) /\ flight \subseteq Seq(Calls) /\ call \in [Calls -> States]
      /\ {session, expired, lostCheck} \subseteq BOOLEAN
  BY DEF QueueInv, QueueTypeOK
<1>1. /\ flight' = flight \ {b}
      /\ queue' = queue \o new
      /\ call' = [x \in Calls |->
            IF x \in ended
            THEN IF x \in denied \cup failed THEN "rejected" ELSE "resolved"
            ELSE IF x \in checks THEN "checking"
            ELSE IF x[2] = "access" /\ Own(x[1]) \in checks THEN "queued"
            ELSE IF x[2] = "call" /\ Check(x[1]) \in ended THEN "rejected"
            ELSE call[x]]
      /\ expired' = (expired \/ \E x \in (denied \cup failed) \cap ended : EndsSession(x))
      /\ lostCheck' = (lostCheck \/ \E x \in failed : x[2] = "access")
      /\ session' = session
  BY DEF Settle
<1>2. /\ Members(b) \subseteq Calls
      /\ \A x \in Members(b) : call[x] = "sent"
  BY <1>0 DEF Members, QueueInv, CallsAccounted
<1>3. \A x \in checks : /\ x \in Members(b) /\ x \in denied /\ x[1] \in Clients \ Plain
                        /\ x = Own(x[1])
  BY <1>2, CallKinds DEF NeedsCheck
<1>4. IsFiniteSet({Check(x[1]) : x \in checks})
  <2>1. IsFiniteSet(Clients \X {"access"})
    BY FS_Product, FS_Singleton
  <2>2. {Check(x[1]) : x \in checks} \subseteq Clients \X {"access"}
    BY <1>3 DEF Check
  <2>. QED BY <2>1, <2>2, FS_Subset
<1>5. new \in Seq(Calls) /\ Once(new) /\ Members(new) = {Check(x[1]) : x \in checks}
  <2>1. \A S : S \subseteq Calls => Seq(S) \subseteq Seq(Calls)
    OBVIOUS
  <2>2. {Check(x[1]) : x \in checks} \subseteq Calls
    BY <1>3
  <2>. QED BY <1>4, <2>1, <2>2, Listed
<1>. HIDE DEF new, checks, ended
\* A call that is held back had no check under way before.
<1>6. \A c \in Clients : Own(c) \in checks => call[Check(c)] \notin {"queued", "sent"}
  BY <1>2, <1>3 DEF QueueInv, CallsAccounted
\* The call that a check in this batch was made for is held back.
<1>7. \A c \in Clients : Check(c) \in ended => call[Own(c)] = "checking"
  BY <1>2 DEF ended, QueueInv, CallsAccounted
<1>8. ASSUME NEW c \in Clients
      PROVE  \/ /\ Own(c) \in checks /\ Own(c) \in Members(b) /\ Check(c) \notin Members(b)
                /\ call'[Own(c)] = "checking" /\ call'[Check(c)] = "queued"
             \/ /\ Own(c) \notin checks /\ Own(c) \in Members(b) /\ Check(c) \notin Members(b)
                /\ call'[Own(c)] \in {"resolved", "rejected"} /\ call'[Check(c)] = call[Check(c)]
             \/ /\ Own(c) \notin checks /\ Own(c) \notin Members(b) /\ Check(c) \in Members(b)
                /\ call'[Own(c)] = "rejected" /\ call'[Check(c)] \in {"resolved", "rejected"}
             \/ /\ Own(c) \notin checks /\ Own(c) \notin Members(b) /\ Check(c) \notin Members(b)
                /\ call'[Own(c)] = call[Own(c)] /\ call'[Check(c)] = call[Check(c)]
  <2>1. Own(c) \in Members(b) => Check(c) \notin Members(b)
    BY <1>2 DEF QueueInv, CallsAccounted
  <2>2. Check(c) \notin checks
    BY <1>3
  <2>3. \A x \in Members(b) : x \in checks \/ x \in ended
    BY DEF ended
  <2>4. checks \subseteq Members(b) /\ ended \subseteq Members(b) /\ checks \cap ended = {}
    BY DEF checks, ended
  <2>5. CASE Own(c) \in checks
    BY <1>1, <2>1, <2>2, <2>4, <2>5
  <2>6. CASE Own(c) \in ended
    BY <1>1, <2>1, <2>2, <2>4, <2>6
  <2>7. CASE Check(c) \in ended
    BY <1>1, <2>1, <2>2, <2>3, <2>4, <2>7
  <2>8. CASE Own(c) \notin Members(b) /\ Check(c) \notin Members(b)
    BY <1>1, <2>4, <2>8
  <2>. QED BY <2>2, <2>3, <2>5, <2>6, <2>7, <2>8
<1>9. \A x \in Calls : call'[x] \in States
  <2>1. \A x \in Calls : call[x] \in States
    BY <1>0
  <2>2. \A c \in Clients : call'[Own(c)] \in States /\ call'[Check(c)] \in States
    BY <1>8, <2>1
  <2>. QED BY <2>2, CallKinds
<1>10. queue' \in Seq(Calls) /\ Once(queue') /\ Members(queue') = Members(queue) \cup Members(new)
  <2>1. Once(queue)
    BY DEF QueueInv, CallsAccounted, Once
  <2>2. Members(queue) \cap Members(new) = {}
    BY <1>3, <1>5, <1>6 DEF QueueInv, CallsAccounted
  <2>. QED BY <1>0, <1>1, <1>5, <2>1, <2>2, Joined
<1>11. QueueTypeOK'
  <2>1. {session, expired, lostCheck}' \subseteq BOOLEAN
    BY <1>0, <1>1, Zenon
  <2>2. call' \in [Calls -> States]
    BY <1>1, <1>9
  <2>. QED BY <1>0, <1>1, <1>10, <2>1, <2>2 DEF QueueTypeOK
<1>12. ASSUME NEW c \in Clients
       PROVE  /\ call'[Own(c)] = "queued" <=> Own(c) \in Members(queue')
              /\ call'[Check(c)] = "queued" <=> Check(c) \in Members(queue')
  <2>1. /\ Own(c) \in Members(queue') <=> Own(c) \in Members(queue)
        /\ Check(c) \in Members(queue') <=> Check(c) \in Members(queue) \/ Own(c) \in checks
    BY <1>3, <1>5, <1>10
  <2>2. /\ call[Own(c)] = "queued" <=> Own(c) \in Members(queue)
        /\ call[Check(c)] = "queued" <=> Check(c) \in Members(queue)
    BY DEF QueueInv, CallsAccounted
  <2>3. Own(c) \in checks => call[Check(c)] \notin {"queued", "sent"}
    BY <1>6
  <2>4. /\ Own(c) \in Members(b) => call[Own(c)] = "sent"
        /\ Check(c) \in Members(b) => call[Check(c)] = "sent" /\ call[Own(c)] = "checking"
    BY <1>2 DEF QueueInv, CallsAccounted
  <2>. QED BY <1>8, <2>1, <2>2, <2>4
<1>13. ASSUME NEW c \in Clients
       PROVE  /\ call'[Own(c)] = "sent" <=> \E d \in flight' : Own(c) \in Members(d)
              /\ call'[Check(c)] = "sent" <=> \E d \in flight' : Check(c) \in Members(d)
  <2>1. \A x \in Calls : (\E d \in flight' : x \in Members(d))
                          <=> call[x] = "sent" /\ x \notin Members(b)
    BY <1>1 DEF QueueInv, CallsAccounted
  <2>2. /\ Own(c) \in Members(b) => call[Own(c)] = "sent"
        /\ Check(c) \in Members(b) => call[Check(c)] = "sent" /\ call[Own(c)] = "checking"
    BY <1>2 DEF QueueInv, CallsAccounted
  <2>3. Own(c) \in checks => call[Check(c)] # "sent"
    BY <1>6
  <2>. QED BY <1>8, <2>1, <2>2, <2>3
<1>14. \A c \in Clients : call'[Own(c)] = "checking" <=> call'[Check(c)] \in {"queued", "sent"}
  BY <1>2, <1>8 DEF QueueInv, CallsAccounted
<1>15. /\ \A d \in flight' : Once(d)
       /\ \A b1, b2 \in flight' : Members(b1) \cap Members(b2) # {} => b1 = b2
  BY <1>1 DEF QueueInv, CallsAccounted, Once
<1>16. CallsAccounted'
  <2>1. \A x \in Calls : /\ call'[x] = "queued" <=> x \in Members(queue')
                         /\ call'[x] = "sent" <=> \E d \in flight' : x \in Members(d)
    BY <1>12, <1>13, CallKinds
  <2>. QED BY <1>10, <1>14, <1>15, <2>1 DEF CallsAccounted, Once
<1>17. NoPlainCheck'
  BY <1>3, <1>8, ClientsAssumption DEF QueueInv, NoPlainCheck
<1>18. ExpiredMeansGone'
  BY <1>0, <1>1 DEF QueueInv, ExpiredMeansGone, EndsSession
<1>. QED BY <1>11, <1>16, <1>17, <1>18 DEF QueueInv

\* What the server answers, what is lost, and what needs a login.
LEMMA AnswerGiven ==
    ASSUME QueueInv, NEW b, Answer(b)
    PROVE  QueueInv'
<1>1. CASE Reply(b)
  <2>0. b \in flight /\ b \in Seq(Calls) /\ session \in BOOLEAN
    BY <1>1 DEF Reply, QueueInv, QueueTypeOK
  <2>n. PICK n \in 0..Len(b) : \E denied, errors \in SUBSET {b[i] : i \in 1..n} :
           LET failed == errors \cup {b[i] : i \in (n + 1)..Len(b)} IN
           /\ session => \A x \in denied : x[2] = "call"
           /\ Settle(b, denied, failed)
    BY <1>1 DEF Reply
  <2>1. PICK denied \in SUBSET {b[i] : i \in 1..n}, errors \in SUBSET {b[i] : i \in 1..n} :
           LET failed == errors \cup {b[i] : i \in (n + 1)..Len(b)} IN
           /\ session => \A x \in denied : x[2] = "call"
           /\ Settle(b, denied, failed)
    BY <2>n
  <2>. DEFINE failed == errors \cup {b[i] : i \in (n + 1)..Len(b)}
  <2>2. denied \in SUBSET Members(b) /\ failed \in SUBSET Members(b)
    BY <2>0, <2>n, <2>1 DEF Members
  <2>3. Settle(b, denied, failed) /\ \A x \in (denied \cup failed) \ failed : x[2] = "access" => ~session
    BY <2>0, <2>1
  <2>. HIDE DEF failed
  <2>. QED BY <2>0, <2>2, <2>3, BatchSettled
<1>2. CASE Lose(b)
  <2>1. b \in flight /\ Settle(b, {}, Members(b))
    BY <1>2 DEF Lose
  <2>2. \A x \in ({} \cup Members(b)) \ Members(b) : x[2] = "access" => ~session
    OBVIOUS
  <2>. QED BY <2>1, <2>2, BatchSettled
<1>3. CASE LoginRequired(b)
  <2>. USE CallNames
  <2>0. /\ queue \in Seq(Calls) /\ flight \subseteq Seq(Calls) /\ call \in [Calls -> States]
        /\ {session, expired, lostCheck} \subseteq BOOLEAN
    BY DEF QueueInv, QueueTypeOK
  <2>1. /\ b \in flight /\ ~session
        /\ \A x \in Members(b) : x[1] \in Plain
        /\ flight' = flight \ {b}
        /\ call' = [x \in Calls |-> IF x \in Members(b) THEN "hung" ELSE call[x]]
        /\ expired' = TRUE
        /\ UNCHANGED <<session, queue, lostCheck>>
    BY <1>3 DEF LoginRequired
  <2>2. /\ Members(b) \subseteq Calls
        /\ \A x \in Members(b) : call[x] = "sent"
    BY <2>0, <2>1 DEF Members, QueueInv, CallsAccounted
  \* A page request has no session check.
  <2>3. \A c \in Clients : Check(c) \notin Members(b)
    BY <2>1, <2>2 DEF QueueInv, CallsAccounted, NoPlainCheck
  <2>4. QueueTypeOK'
    <3>1. {session, expired, lostCheck}' \subseteq BOOLEAN
      BY <2>0, <2>1, Zenon
    <3>2. call' \in [Calls -> States]
      BY <2>0, <2>1
    <3>. QED BY <2>0, <2>1, <3>1, <3>2 DEF QueueTypeOK
  <2>5. ASSUME NEW x \in Calls
        PROVE  /\ call'[x] = "queued" <=> x \in Members(queue')
               /\ call'[x] = "sent" <=> \E d \in flight' : x \in Members(d)
    <3>1. (\E d \in flight' : x \in Members(d)) <=> call[x] = "sent" /\ x \notin Members(b)
      BY <2>1 DEF QueueInv, CallsAccounted
    <3>2. call[x] = "queued" <=> x \in Members(queue)
      BY DEF QueueInv, CallsAccounted
    <3>. QED BY <2>1, <2>2, <3>1, <3>2
  <2>6. \A c \in Clients : call'[Own(c)] = "checking" <=> call'[Check(c)] \in {"queued", "sent"}
    BY <2>1, <2>2, <2>3 DEF QueueInv, CallsAccounted
  <2>7. CallsAccounted'
    BY <2>1, <2>5, <2>6 DEF QueueInv, CallsAccounted
  <2>. QED BY <2>1, <2>4, <2>7, ClientsAssumption DEF QueueInv, NoPlainCheck, ExpiredMeansGone
<1>. QED BY <1>1, <1>2, <1>3 DEF Answer

\* The end of the session changes no call.
LEMMA SessionOverKeeps ==
    ASSUME QueueInv, SessionEnds
    PROVE  QueueInv'
<1>1. QueueTypeOK'
  BY DEF QueueInv, QueueTypeOK, SessionEnds
<1>. QED BY <1>1 DEF QueueInv, SessionEnds, CallsAccounted, NoPlainCheck, ExpiredMeansGone, Members

-----------------------------------------------------------------------------

\* Every call under way that was not given up has an entry that waits for it; a
\* function whose entry may be called has a call left to make.
SoundPoll(q, rs, st) ==
    /\ q \in Seq(Entry)
    /\ rs \subseteq Invocations /\ st \subseteq rs
    /\ \A i, j \in DOMAIN q : q[i].fn = q[j].fn => i = j
    /\ \A s \in rs \ st : \E i \in DOMAIN q : q[i].fn = s[1] /\ ~q[i].r /\ q[i].slot = s[2]
    /\ \A i \in DOMAIN q : q[i].r /\ q[i].fn \notin Throwers
                           => CallsOf(q[i].fn, Invocations \ rs) # {}

\* a is the piece of n elements of q after the first k.
Piece(a, q, k, n) == Len(a) = n /\ \A j \in 1..n : a[j] = q[k + j]

\* The piece before the i-th element and the piece after it, put together.
LEMMA Pieces ==
    ASSUME NEW E, NEW q \in Seq(E), NEW i \in 1..Len(q),
           NEW a \in Seq(E), Piece(a, q, 0, i - 1),
           NEW b \in Seq(E), Piece(b, q, i, Len(q) - i)
    PROVE  /\ a \o b \in Seq(E) /\ DOMAIN (a \o b) = 1..(Len(q) - 1)
           /\ \A j \in 1..(i - 1) : (a \o b)[j] = q[j]
           /\ \A j \in i..(Len(q) - 1) : (a \o b)[j] = q[j + 1]
<1>0. i \in Int /\ Len(q) \in Int
  OBVIOUS
<1>. DEFINE r == a \o b
<1>1. /\ r \in Seq(E) /\ DOMAIN r = 1..(Len(a) + Len(b))
      /\ \A j \in 1..Len(a) : r[j] = a[j]
      /\ \A j \in 1..Len(b) : r[j + Len(a)] = b[j]
  <2>1. a \in Seq(E) /\ b \in Seq(E)
    OBVIOUS
  <2>. QED BY ONLY <2>1, Appended
<1>. HIDE DEF r
<1>5. /\ Len(a) = i - 1 /\ \A j \in 1..(i - 1) : a[j] = q[0 + j]
      /\ Len(b) = Len(q) - i /\ \A j \in 1..(Len(q) - i) : b[j] = q[i + j]
  BY DEF Piece
<1>2. DOMAIN r = 1..(Len(q) - 1)
  BY <1>0, <1>1, <1>5
<1>3. \A j \in 1..(i - 1) : r[j] = q[j]
  BY <1>1, <1>5
<1>4. ASSUME NEW j \in i..(Len(q) - 1)
      PROVE  r[j] = q[j + 1]
  <2>. DEFINE k == j - (i - 1)
  <2>1. k \in 1..(Len(q) - i) /\ k + (i - 1) = j /\ i + k = j + 1
    BY <1>0
  <2>. HIDE DEF k
  <2>2. r[k + (i - 1)] = b[k] /\ b[k] = q[i + k]
    BY <1>1, <1>5, <2>1
  <2>. QED BY <2>1, <2>2
<1>. QED BY <1>1, <1>2, <1>3, <1>4 DEF r

\* Taking out an element keeps all others, in their order.
LEMMA Spliced ==
    ASSUME NEW E, NEW q \in Seq(E), NEW i \in DOMAIN q
    PROVE  /\ RemoveAt(q, i) \in Seq(E)
           /\ \A j \in DOMAIN RemoveAt(q, i) :
                \E k \in DOMAIN q \ {i} : /\ RemoveAt(q, i)[j] = q[k]
                                         /\ k = IF j < i THEN j ELSE j + 1
           /\ \A k \in DOMAIN q \ {i} : \E j \in DOMAIN RemoveAt(q, i) :
                RemoveAt(q, i)[j] = q[k]
<1>. DEFINE a == SubSeq(q, 1, i - 1)
            b == SubSeq(q, i + 1, Len(q))
            r == a \o b
<1>0. i \in 1..Len(q) /\ DOMAIN q = 1..Len(q) /\ Len(q) \in Nat
  OBVIOUS
<1>1. a \in Seq(E) /\ Len(a) = i - 1 /\ \A j \in 1..(i - 1) : a[j] = q[j]
  <2>1. \A j \in 1..(i - 1) : q[j] \in E
    BY <1>0
  <2>2. /\ a \in Seq(E) /\ Len(a) = IF 1 <= i - 1 THEN (i - 1) - 1 + 1 ELSE 0
        /\ \A j \in 1..((i - 1) - 1 + 1) : a[j] = q[1 + j - 1]
    BY <1>0, <2>1, SubSeqProperties
  <2>. HIDE DEF a
  <2>. QED BY <1>0, <2>2
<1>2. b \in Seq(E) /\ Len(b) = Len(q) - i /\ \A j \in 1..(Len(q) - i) : b[j] = q[i + j]
  <2>1. \A j \in (i + 1)..Len(q) : q[j] \in E
    BY <1>0
  <2>2. /\ b \in Seq(E) /\ Len(b) = IF i + 1 <= Len(q) THEN Len(q) - (i + 1) + 1 ELSE 0
        /\ \A j \in 1..(Len(q) - (i + 1) + 1) : b[j] = q[(i + 1) + j - 1]
    BY <1>0, <2>1, SubSeqProperties
  <2>. HIDE DEF b
  <2>3. Len(b) = Len(q) - i
    BY <1>0, <2>2
  <2>4. ASSUME NEW j \in 1..(Len(q) - i)
        PROVE  b[j] = q[i + j]
    <3>1. j \in 1..(Len(q) - (i + 1) + 1) /\ (i + 1) + j - 1 = i + j
      BY <1>0
    <3>2. b[j] = q[(i + 1) + j - 1]
      BY <2>2, <3>1
    <3>. QED BY <3>1, <3>2
  <2>. QED BY <2>2, <2>3, <2>4
<1>3. /\ r \in Seq(E) /\ DOMAIN r = 1..(Len(q) - 1)
      /\ \A j \in 1..(i - 1) : r[j] = q[j]
      /\ \A j \in i..(Len(q) - 1) : r[j] = q[j + 1]
  <2>1. q \in Seq(E) /\ i \in 1..Len(q)
    BY <1>0
  <2>2. a \in Seq(E) /\ Piece(a, q, 0, i - 1)
    <3>. HIDE DEF a
    <3>. QED BY <1>1 DEF Piece
  <2>3. b \in Seq(E) /\ Piece(b, q, i, Len(q) - i)
    <3>. HIDE DEF b
    <3>. QED BY <1>2 DEF Piece
  <2>. HIDE DEF a, b, r
  <2>4. /\ a \o b \in Seq(E) /\ DOMAIN (a \o b) = 1..(Len(q) - 1)
        /\ \A j \in 1..(i - 1) : (a \o b)[j] = q[j]
        /\ \A j \in i..(Len(q) - 1) : (a \o b)[j] = q[j + 1]
    BY ONLY <2>1, <2>2, <2>3, Pieces
  <2>. QED BY <2>4 DEF r
<1>4. RemoveAt(q, i) = r
  BY DEF RemoveAt, a, b, r
<1>. HIDE DEF r
<1>5. ASSUME NEW j \in DOMAIN r
      PROVE  \E k \in DOMAIN q \ {i} : r[j] = q[k] /\ k = IF j < i THEN j ELSE j + 1
  <2>0. j \in 1..(Len(q) - 1)
    BY <1>3
  <2>1. CASE j < i
    <3>1. j \in DOMAIN q \ {i} /\ r[j] = q[j]
      BY <1>0, <1>3, <2>0, <2>1
    <3>. QED BY <3>1, <2>1
  <2>2. CASE ~ (j < i)
    <3>1. j + 1 \in DOMAIN q \ {i} /\ r[j] = q[j + 1]
      BY <1>0, <1>3, <2>0, <2>2
    <3>. QED BY <3>1, <2>2
  <2>. QED BY <2>1, <2>2
<1>6. ASSUME NEW k \in DOMAIN q \ {i}
      PROVE  \E j \in DOMAIN r : r[j] = q[k]
  <2>1. CASE k < i
    BY <1>0, <1>3, <2>1
  <2>2. CASE k > i
    <3>1. k - 1 \in i..(Len(q) - 1) /\ (k - 1) + 1 = k
      BY <1>0, <2>2
    <3>2. r[k - 1] = q[k]
      BY <1>3, <3>1
    <3>. QED BY <1>0, <1>3, <3>1, <3>2
  <2>. QED BY <1>0, <2>1, <2>2
<1>. QED BY <1>3, <1>4, <1>5, <1>6

\* What taking out the entry of f leaves.
LEMMA TakenOut ==
    ASSUME NEW q \in Seq(Entry), NEW n \in DOMAIN q,
           \A i, j \in DOMAIN q : q[i].fn = q[j].fn => i = j
    PROVE  LET r == Without(q, q[n].fn) IN
           /\ r \in Seq(Entry)
           /\ \A i, j \in DOMAIN r : r[i].fn = r[j].fn => i = j
           /\ \A i \in DOMAIN r :
                \E k \in DOMAIN q \ {n} : r[i] = q[k] /\ q[k].fn # q[n].fn
           /\ \A k \in DOMAIN q : q[k].fn # q[n].fn => \E i \in DOMAIN r : r[i] = q[k]
<1>. DEFINE f == q[n].fn
<1>1. (CHOOSE i \in DOMAIN q : q[i].fn = f) = n
  OBVIOUS
<1>2. Without(q, f) = RemoveAt(q, n)
  BY <1>1 DEF Without
<1>. DEFINE r == RemoveAt(q, n)
<1>3. /\ r \in Seq(Entry)
      /\ \A j \in DOMAIN r : \E k \in DOMAIN q \ {n} : r[j] = q[k] /\ k = IF j < n THEN j ELSE j + 1
      /\ \A k \in DOMAIN q \ {n} : \E j \in DOMAIN r : r[j] = q[k]
  BY Spliced
<1>. HIDE DEF r
<1>4. ASSUME NEW i \in DOMAIN r, NEW j \in DOMAIN r, r[i].fn = r[j].fn
      PROVE  i = j
  <2>1. PICK k \in DOMAIN q \ {n} : r[i] = q[k] /\ k = IF i < n THEN i ELSE i + 1
    BY <1>3
  <2>2. PICK l \in DOMAIN q \ {n} : r[j] = q[l] /\ l = IF j < n THEN j ELSE j + 1
    BY <1>3
  <2>3. k = l
    BY <1>4, <2>1, <2>2
  <2>4. i \in Int /\ j \in Int /\ n \in Int
    <3>1. r \in Seq(Entry)
      BY <1>3
    <3>2. DOMAIN r = 1..Len(r) /\ DOMAIN q = 1..Len(q) /\ Len(r) \in Nat /\ Len(q) \in Nat
      BY <3>1
    <3>. QED BY <3>2
  <2>5. (IF i < n THEN i ELSE i + 1) = (IF j < n THEN j ELSE j + 1)
    BY <2>1, <2>2, <2>3
  <2>. QED BY <2>4, <2>5
<1>5. \A i, j \in DOMAIN r : r[i].fn = r[j].fn => i = j
  BY <1>4
<1>6. \A i \in DOMAIN r : \E k \in DOMAIN q \ {n} : r[i] = q[k] /\ q[k].fn # f
  BY <1>3
<1>7. \A k \in DOMAIN q : q[k].fn # f => \E i \in DOMAIN r : r[i] = q[k]
  BY <1>3
<1>. QED BY <1>2, <1>3, <1>5, <1>6, <1>7 DEF r

\* What the loop of step() has to do with, in any of its turns.
Rounds(base) ==
    {w \in [entries : Seq(Entry), running : SUBSET Invocations,
            stale : SUBSET Invocations, thrown : BOOLEAN] :
        SoundPoll(w.entries, w.running, w.stale) /\ base \subseteq w.running}

\* A sound poll is a round ...
LEMMA RoundOf ==
    ASSUME NEW base, NEW q, NEW rs, NEW st, NEW b \in BOOLEAN,
           SoundPoll(q, rs, st), base \subseteq rs
    PROVE  [entries |-> q, running |-> rs, stale |-> st, thrown |-> b] \in Rounds(base)
BY DEF Rounds, SoundPoll

\* ... and a round is a sound poll.
LEMMA RoundFields ==
    ASSUME NEW base, NEW w \in Rounds(base)
    PROVE  /\ w = [entries |-> w.entries, running |-> w.running,
                   stale |-> w.stale, thrown |-> w.thrown]
           /\ w.thrown \in BOOLEAN /\ base \subseteq w.running
           /\ SoundPoll(w.entries, w.running, w.stale)
BY DEF Rounds

\* Replacing one element of a list.
LEMMA Replaced ==
    ASSUME NEW E, NEW q \in Seq(E), NEW i \in DOMAIN q, NEW e \in E
    PROVE  /\ [q EXCEPT ![i] = e] \in Seq(E) /\ DOMAIN [q EXCEPT ![i] = e] = DOMAIN q
           /\ [q EXCEPT ![i] = e][i] = e
           /\ \A k \in DOMAIN q : k # i => [q EXCEPT ![i] = e][k] = q[k]
OBVIOUS

\* An entry that is marked as called, or as free to call again.
LEMMA Marked ==
    ASSUME NEW e \in Entry, NEW n \in Nat
    PROVE  /\ [e EXCEPT !.r = FALSE, !.slot = n] \in Entry
           /\ [e EXCEPT !.r = FALSE, !.slot = n].fn = e.fn
           /\ [e EXCEPT !.r = FALSE, !.slot = n].r = FALSE
           /\ [e EXCEPT !.r = FALSE, !.slot = n].slot = n
           /\ [e EXCEPT !.r = FALSE] \in Entry
           /\ [e EXCEPT !.r = FALSE].fn = e.fn
           /\ [e EXCEPT !.r = FALSE].r = FALSE
           /\ [e EXCEPT !.r = TRUE, !.slot = 0] \in Entry
           /\ [e EXCEPT !.r = TRUE, !.slot = 0].fn = e.fn
BY DEF Entry

\* Calling the function of entry i.
LEMMA Called ==
    ASSUME NEW q, NEW rs, NEW st, SoundPoll(q, rs, st), NEW i \in DOMAIN q,
           q[i].r, q[i].fn \notin Throwers,
           NEW s \in Invocations, s[1] = q[i].fn, s \notin rs
    PROVE  /\ SoundPoll([q EXCEPT ![i] = [@ EXCEPT !.r = FALSE, !.slot = s[2]]],
                        rs \cup {s}, st)
           /\ SoundPoll(Without(q, q[i].fn), rs \cup {s},
                        st \cup CallsOf(q[i].fn, rs) \cup {s})
<1>. DEFINE f == q[i].fn
            p == [q EXCEPT ![i] = [@ EXCEPT !.r = FALSE, !.slot = s[2]]]
<1>0. /\ q \in Seq(Entry) /\ rs \subseteq Invocations /\ st \subseteq rs
      /\ \A k, j \in DOMAIN q : q[k].fn = q[j].fn => k = j
      /\ \A x \in rs \ st : \E k \in DOMAIN q : q[k].fn = x[1] /\ ~q[k].r /\ q[k].slot = x[2]
      /\ \A k \in DOMAIN q : q[k].r /\ q[k].fn \notin Throwers
                             => CallsOf(q[k].fn, Invocations \ rs) # {}
  BY DEF SoundPoll
<1>1. \A x \in rs \ st : x[1] # f
  BY <1>0
<1>2. s[2] \in Nat
  BY InvocationsAssumption
<1>3. ASSUME NEW g, g # f
      PROVE  CallsOf(g, Invocations \ (rs \cup {s})) = CallsOf(g, Invocations \ rs)
  BY <1>3 DEF CallsOf
<1>6. \A k \in DOMAIN q : k # i => q[k].fn # f
  BY <1>0
<1>7. q[i] \in Entry
  BY <1>0
<1>4. SoundPoll(p, rs \cup {s}, st)
  <2>. DEFINE e == [q[i] EXCEPT !.r = FALSE, !.slot = s[2]]
  <2>1. /\ e \in Entry /\ e.fn = f /\ e.r = FALSE /\ e.slot = s[2]
    BY <1>2, <1>7, Marked
  <2>2. p = [q EXCEPT ![i] = e]
    OBVIOUS
  <2>. HIDE DEF p, e, f
  <2>3. /\ p \in Seq(Entry) /\ DOMAIN p = DOMAIN q /\ p[i] = e
        /\ \A k \in DOMAIN q : k # i => p[k] = q[k]
    BY <1>0, <2>1, <2>2, Replaced
  <2>4. \A k \in DOMAIN q : p[k].fn = q[k].fn
    BY <2>1, <2>3 DEF f
  <2>5. \A k, j \in DOMAIN p : p[k].fn = p[j].fn => k = j
    BY <1>0, <2>3, <2>4
  <2>6. ASSUME NEW x \in (rs \cup {s}) \ st
        PROVE  \E k \in DOMAIN p : p[k].fn = x[1] /\ ~p[k].r /\ p[k].slot = x[2]
    <3>1. CASE x = s
      BY <2>1, <2>3, <3>1 DEF f
    <3>2. CASE x \in rs \ st
      <4>1. PICK k \in DOMAIN q : q[k].fn = x[1] /\ ~q[k].r /\ q[k].slot = x[2]
        BY <1>0, <3>2
      <4>. QED BY <1>1, <2>3, <3>2, <4>1 DEF f
    <3>. QED BY <3>1, <3>2
  <2>7. ASSUME NEW k \in DOMAIN p, p[k].r, p[k].fn \notin Throwers
        PROVE  CallsOf(p[k].fn, Invocations \ (rs \cup {s})) # {}
    <3>1. k # i /\ p[k] = q[k]
      BY <2>1, <2>3, <2>7
    <3>2. CallsOf(q[k].fn, Invocations \ rs) # {} /\ q[k].fn # f
      BY <1>0, <1>6, <2>3, <2>7, <3>1
    <3>. QED BY <1>3, <3>1, <3>2
  <2>. QED BY <1>0, <2>3, <2>5, <2>6, <2>7 DEF SoundPoll
<1>5. SoundPoll(Without(q, f), rs \cup {s}, st \cup CallsOf(f, rs) \cup {s})
  <2>. DEFINE r == Without(q, f)
              dead == st \cup CallsOf(f, rs) \cup {s}
  <2>1. /\ r \in Seq(Entry)
        /\ \A k, j \in DOMAIN r : r[k].fn = r[j].fn => k = j
        /\ \A k \in DOMAIN r : \E l \in DOMAIN q \ {i} : r[k] = q[l] /\ q[l].fn # f
        /\ \A l \in DOMAIN q : q[l].fn # f => \E k \in DOMAIN r : r[k] = q[l]
    <3>1. q \in Seq(Entry) /\ \A k, j \in DOMAIN q : q[k].fn = q[j].fn => k = j
      BY <1>0
    <3>. QED BY ONLY <3>1, i \in DOMAIN q, TakenOut
  <2>2. dead \subseteq rs \cup {s}
    BY <1>0 DEF CallsOf
  <2>3. \A x \in (rs \cup {s}) \ dead : x \in rs \ st /\ x[1] # f
    BY DEF CallsOf
  <2>. HIDE DEF r, dead
  <2>4. ASSUME NEW x \in (rs \cup {s}) \ dead
        PROVE  \E k \in DOMAIN r : r[k].fn = x[1] /\ ~r[k].r /\ r[k].slot = x[2]
    <3>1. PICK l \in DOMAIN q : q[l].fn = x[1] /\ ~q[l].r /\ q[l].slot = x[2]
      BY <1>0, <2>3
    <3>2. PICK k \in DOMAIN r : r[k] = q[l]
      BY <2>1, <2>3, <3>1
    <3>. QED BY <3>1, <3>2
  <2>5. ASSUME NEW k \in DOMAIN r, r[k].r, r[k].fn \notin Throwers
        PROVE  CallsOf(r[k].fn, Invocations \ (rs \cup {s})) # {}
    <3>1. PICK l \in DOMAIN q \ {i} : r[k] = q[l] /\ q[l].fn # f
      BY <2>1
    <3>2. CallsOf(q[l].fn, Invocations \ rs) # {}
      BY <1>0, <2>5, <3>1
    <3>. QED BY <1>3, <3>1, <3>2
  <2>. QED BY <1>0, <2>1, <2>2, <2>4, <2>5 DEF SoundPoll, r, dead
<1>. QED BY <1>4, <1>5

\* Calling one that throws leaves its entry behind, never to be called again.
LEMMA Thrown ==
    ASSUME NEW q, NEW rs, NEW st, SoundPoll(q, rs, st), NEW i \in DOMAIN q,
           q[i].fn \in Throwers
    PROVE  SoundPoll([q EXCEPT ![i].r = FALSE], rs, st)
<1>. DEFINE e == [q[i] EXCEPT !.r = FALSE]
            p == [q EXCEPT ![i] = e]
<1>0. /\ q \in Seq(Entry) /\ rs \subseteq Invocations /\ st \subseteq rs
      /\ \A k, j \in DOMAIN q : q[k].fn = q[j].fn => k = j
      /\ \A x \in rs \ st : \E k \in DOMAIN q : q[k].fn = x[1] /\ ~q[k].r /\ q[k].slot = x[2]
      /\ \A k \in DOMAIN q : q[k].r /\ q[k].fn \notin Throwers
                             => CallsOf(q[k].fn, Invocations \ rs) # {}
  BY DEF SoundPoll
<1>1. e \in Entry /\ e.fn = q[i].fn /\ e.r = FALSE
  <2>1. q[i] \in Entry /\ 0 \in Nat
    BY <1>0
  <2>. QED BY <2>1, Marked
<1>2. [q EXCEPT ![i].r = FALSE] = p
  OBVIOUS
<1>. HIDE DEF e
<1>3. /\ p \in Seq(Entry) /\ DOMAIN p = DOMAIN q /\ p[i] = e
      /\ \A k \in DOMAIN q : k # i => p[k] = q[k]
  BY <1>0, <1>1, Replaced
<1>. HIDE DEF p
<1>4. \A k \in DOMAIN q : p[k].fn = q[k].fn
  BY <1>1, <1>3
<1>5. \A k, j \in DOMAIN p : p[k].fn = p[j].fn => k = j
  BY <1>0, <1>3, <1>4
<1>6. ASSUME NEW x \in rs \ st
      PROVE  \E k \in DOMAIN p : p[k].fn = x[1] /\ ~p[k].r /\ p[k].slot = x[2]
  <2>1. PICK k \in DOMAIN q : q[k].fn = x[1] /\ ~q[k].r /\ q[k].slot = x[2]
    BY <1>0
  <2>2. x[1] \notin Throwers
    BY <1>0, InvocationsAssumption
  <2>. QED BY <1>3, <2>1, <2>2
<1>7. ASSUME NEW k \in DOMAIN p, p[k].r, p[k].fn \notin Throwers
      PROVE  CallsOf(p[k].fn, Invocations \ rs) # {}
  <2>1. k # i /\ p[k] = q[k]
    BY <1>1, <1>3, <1>7
  <2>. QED BY <1>0, <1>3, <1>7, <2>1
<1>8. SoundPoll(p, rs, st)
  BY <1>0, <1>3, <1>5, <1>6, <1>7 DEF SoundPoll
<1>. QED BY <1>2, <1>8

\* One turn of the loop of step(): an entry is called, throws, removes itself,
\* or is passed over.
LEMMA TurnSound ==
    ASSUME NEW base, NEW w \in Rounds(base), NEW i \in Nat \ {0}, NEW t
    PROVE  Turn(w, i, t) \in Rounds(base)
<1>. DEFINE q == w.entries
            e == w.entries[i]
            f == e.fn
            s == CHOOSE x \in CallsOf(f, Invocations) : x \notin w.running
<1>0. /\ w = [entries |-> q, running |-> w.running, stale |-> w.stale, thrown |-> w.thrown]
      /\ w.thrown \in BOOLEAN /\ base \subseteq w.running
      /\ SoundPoll(q, w.running, w.stale)
  BY RoundFields
<1>1. CASE w.thrown \/ i > Len(w.entries)
  BY <1>1 DEF Turn
<1>2. CASE ~(w.thrown \/ i > Len(w.entries)) /\ (~e.r \/ t % Interval[f] # 0)
  BY <1>2 DEF Turn
<1>3. CASE ~(w.thrown \/ i > Len(w.entries)) /\ ~(~e.r \/ t % Interval[f] # 0)
  <2>1. i \in DOMAIN q /\ e \in Entry
    <3>1. q \in Seq(Entry) /\ ~(i > Len(q))
      BY <1>0, <1>3 DEF SoundPoll
    <3>2. i \in DOMAIN q
      BY <3>1
    <3>. QED BY <3>1, <3>2
  <2>2. CASE f \in Throwers
    <3>1. Turn(w, i, t) = [w EXCEPT !.thrown = TRUE, !.entries = [@ EXCEPT ![i].r = FALSE]]
      BY <1>3, <2>2 DEF Turn
    <3>. DEFINE p == [q EXCEPT ![i].r = FALSE]
    <3>2. SoundPoll(p, w.running, w.stale)
      BY <1>0, <2>1, <2>2, Thrown
    <3>. DEFINE R == [entries : Seq(Entry), running : SUBSET Invocations,
                      stale : SUBSET Invocations, thrown : BOOLEAN]
                v == [w EXCEPT !.thrown = TRUE, !.entries = p]
    <3>3. w \in R /\ p \in Seq(Entry) /\ Turn(w, i, t) = v
      BY <3>1, <3>2 DEF Rounds, SoundPoll
    <3>. HIDE DEF p
    <3>4. v \in R /\ v.entries = p /\ v.running = w.running /\ v.stale = w.stale
      BY <3>3
    <3>. HIDE DEF v
    <3>. QED BY <1>0, <3>2, <3>3, <3>4 DEF Rounds
  <2>3. CASE f \notin Throwers
    <3>1. CallsOf(f, Invocations \ w.running) # {}
      BY <1>0, <1>3, <2>1, <2>3 DEF SoundPoll
    <3>2. \E x \in CallsOf(f, Invocations) : x \notin w.running
      BY <3>1 DEF CallsOf
    <3>3. s \in CallsOf(f, Invocations) /\ s \notin w.running
      BY <3>2
    <3>4. s \in Invocations /\ s[1] = f
      BY <3>3 DEF CallsOf
    <3>5. e.r
      BY <1>3, <2>1 DEF Entry
    <3>. DEFINE marked == [q EXCEPT ![i] = [@ EXCEPT !.r = FALSE, !.slot = s[2]]]
                dead == w.stale \cup CallsOf(f, w.running) \cup {s}
    <3>6. /\ SoundPoll(marked, w.running \cup {s}, w.stale)
          /\ SoundPoll(Without(q, f), w.running \cup {s}, dead)
      <4>. HIDE DEF s
      <4>. QED BY <1>0, <2>1, <2>3, <3>3, <3>4, <3>5, Called
    <3>7. CASE f \in OneShots
      <4>1. Turn(w, i, t) = [w EXCEPT !.entries = Without(@, f), !.running = @ \cup {s},
                                !.stale = @ \cup CallsOf(f, w.running) \cup {s}]
        BY <1>3, <2>3, <3>7 DEF Turn
      <4>. HIDE DEF s
      <4>2. Turn(w, i, t) = [entries |-> Without(q, f), running |-> w.running \cup {s},
                             stale |-> dead, thrown |-> w.thrown]
        BY <1>0, <4>1
      <4>3. base \subseteq w.running \cup {s}
        BY <1>0
      <4>. HIDE DEF dead, marked
      <4>4. [entries |-> Without(q, f), running |-> w.running \cup {s},
             stale |-> dead, thrown |-> w.thrown] \in Rounds(base)
        BY <1>0, <3>6, <4>3, RoundOf
      <4>. QED BY <4>2, <4>4
    <3>8. CASE f \notin OneShots
      <4>1. Turn(w, i, t) = [w EXCEPT !.entries[i] = [@ EXCEPT !.r = FALSE, !.slot = s[2]],
                                !.running = @ \cup {s}]
        BY <1>3, <2>3, <3>8 DEF Turn
      <4>. HIDE DEF s
      <4>2. Turn(w, i, t) = [entries |-> marked, running |-> w.running \cup {s},
                             stale |-> w.stale, thrown |-> w.thrown]
        BY <1>0, <4>1
      <4>3. base \subseteq w.running \cup {s}
        BY <1>0
      <4>. HIDE DEF dead, marked
      <4>4. [entries |-> marked, running |-> w.running \cup {s},
             stale |-> w.stale, thrown |-> w.thrown] \in Rounds(base)
        BY <1>0, <3>6, <4>3, RoundOf
      <4>. QED BY <4>2, <4>4
    <3>. QED BY <3>7, <3>8
  <2>. QED BY <2>2, <2>3
<1>. QED BY <1>1, <1>2, <1>3

\* The loop, turn by turn.
LEMMA LoopSound ==
    ASSUME NEW q, NEW t, SoundPoll(q, running, stale)
    PROVE  Loop(q, t) \in Rounds(running)
<1>. DEFINE w0 == [entries |-> q, running |-> running, stale |-> stale, thrown |-> FALSE]
            N == Len(q)
            After(f, n) == f = [i \in 0..n |-> IF i = 0 THEN w0 ELSE Turn(f[i - 1], i, t)]
<1>0. N \in Nat
  BY DEF SoundPoll
<1>1. w0 \in Rounds(running)
  BY RoundOf
<1>. HIDE DEF w0, N
\* There is such a sequence of turns ...
<1>2. \A n \in Nat : \E f : After(f, n)
  <2>. DEFINE Bad == {n \in Nat : ~ \E f : After(f, n)}
  <2>1. SUFFICES ASSUME Bad # {} PROVE FALSE
    OBVIOUS
  <2>2. PICK n \in Bad : \A k \in Bad : n <= k
    <3>1. Bad \subseteq Nat
      OBVIOUS
    <3>. HIDE DEF Bad
    <3>. QED BY <2>1, <3>1, LeastOf
  <2>3. CASE n = 0
    <3>. DEFINE f == [i \in 0..n |-> w0]
    <3>1. ASSUME NEW i \in 0..n
          PROVE  f[i] = IF i = 0 THEN w0 ELSE Turn(f[i - 1], i, t)
      BY <2>3
    <3>2. After(f, n)
      <4>1. f = [i \in 0..n |-> f[i]]
        OBVIOUS
      <4>. HIDE DEF f
      <4>. QED BY <3>1, <4>1
    <3>. QED BY <2>2, <3>2
  <2>4. CASE n # 0
    <3>1. n - 1 \in Nat /\ n - 1 \notin Bad /\ n \in Nat
      <4>1. n \in Nat
        BY <2>2
      <4>. HIDE DEF Bad
      <4>. QED BY <2>2, <2>4, <4>1
    <3>2. PICK f : After(f, n - 1)
      BY <3>1
    <3>. DEFINE g == [i \in 0..n |-> IF i = n THEN Turn(f[n - 1], n, t) ELSE f[i]]
    <3>3. ASSUME NEW i \in 0..n
          PROVE  g[i] = IF i = 0 THEN w0 ELSE Turn(g[i - 1], i, t)
      <4>1. CASE i = n
        <5>1. g[i] = Turn(f[n - 1], n, t) /\ g[n - 1] = f[n - 1]
          BY <2>4, <3>1, <4>1
        <5>. QED BY <2>4, <4>1, <5>1
      <4>2. CASE i # n
        <5>1. i \in 0..(n - 1) /\ g[i] = f[i]
          BY <3>1, <4>2
        <5>2. f[i] = IF i = 0 THEN w0 ELSE Turn(f[i - 1], i, t)
          BY <3>2, <5>1
        <5>3. i # 0 => g[i - 1] = f[i - 1]
          BY <3>1, <4>2
        <5>. QED BY <5>1, <5>2, <5>3
      <4>. QED BY <4>1, <4>2
    <3>4. After(g, n)
      <4>1. g = [i \in 0..n |-> g[i]]
        OBVIOUS
      <4>. HIDE DEF g
      <4>. QED BY <3>3, <4>1
    <3>. QED BY <2>2, <3>4
  <2>. QED BY <2>3, <2>4
\* ... and all its elements are sound.
<1>3. ASSUME NEW f, After(f, N)
      PROVE  f[N] \in Rounds(running)
  <2>. DEFINE Bad == {i \in 0..N : f[i] \notin Rounds(running)}
  <2>1. SUFFICES ASSUME Bad # {} PROVE FALSE
    BY <1>0
  <2>2. PICK i \in Bad : \A k \in Bad : i <= k
    <3>1. Bad \subseteq Nat
      OBVIOUS
    <3>. HIDE DEF Bad
    <3>. QED BY <2>1, <3>1, LeastOf
  <2>3. f[i] = IF i = 0 THEN w0 ELSE Turn(f[i - 1], i, t)
    BY <1>3, <2>2
  <2>4. CASE i = 0
    BY <1>1, <2>2, <2>3, <2>4
  <2>5. CASE i # 0
    <3>1. i - 1 \in 0..N /\ i - 1 \notin Bad /\ i \in Nat \ {0}
      BY <1>0, <2>2, <2>5
    <3>2. f[i - 1] \in Rounds(running)
      BY <3>1
    <3>3. Turn(f[i - 1], i, t) \in Rounds(running)
      BY <3>1, <3>2, TurnSound
    <3>. QED BY <2>2, <2>3, <2>5, <3>3
  <2>. QED BY <2>4, <2>5
<1>4. Loop(q, t) = (CHOOSE f : After(f, N))[N]
  BY DEF Loop, w0, N
<1>5. After(CHOOSE f : After(f, N), N)
  BY <1>0, <1>2
<1>. QED BY <1>3, <1>4, <1>5

-----------------------------------------------------------------------------

\* What Poll.tick may hold, null included.
Ticks == -1..(TickWrap - 1)

\* The part of the invariant that is about LuCI.poll.
PollInv ==
    /\ PollTypeOK
    /\ SoundPoll(entries, running, stale)
    /\ paused => ~timer /\ tick = Undefined

\* The tick wraps and stays a number.
LEMMA NextTicks ==
    ASSUME NEW t \in Ticks
    PROVE  NextTick(t) \in Ticks /\ NextTick(t) # Undefined /\ 0 \in Ticks
<1>1. TickWrap \in Nat /\ TickWrap > 0 /\ t + 1 \in Nat
  BY BoundsAssumption DEF Ticks
<1>2. (t + 1) % TickWrap \in 0..(TickWrap - 1)
  BY <1>1
<1>. QED BY <1>1, <1>2 DEF Ticks, NextTick, Undefined

\* step() from any sound list of entries.
LEMMA StepSound ==
    ASSUME PollInv, NEW q, SoundPoll(q, running, stale), NEW t \in Ticks, Step(q, t)
    PROVE  /\ SoundPoll(entries', running', stale')
           /\ timer' \in BOOLEAN /\ tick' \in Ticks
           /\ running \subseteq running' /\ running' \subseteq Invocations
<1>. DEFINE w == Loop(q, t)
<1>1. w \in Rounds(running)
  BY LoopSound
<1>2. /\ entries' = w.entries /\ running' = w.running /\ stale' = w.stale
      /\ timer' = (w.entries # <<>>)
      /\ tick' = IF w.thrown THEN t ELSE NextTick(IF w.entries = <<>> THEN 0 ELSE t)
  BY DEF Step
<1>. HIDE DEF w
<1>3. SoundPoll(w.entries, w.running, w.stale) /\ running \subseteq w.running
  BY <1>1, RoundFields
<1>4. tick' \in Ticks
  BY <1>2, NextTicks
<1>. QED BY <1>2, <1>3, <1>4 DEF SoundPoll

\* PollTypeOK in terms of SoundPoll.
LEMMA TypedPoll ==
    ASSUME SoundPoll(entries, running, stale), tick \in Ticks,
           timer \in BOOLEAN, paused \in BOOLEAN, adds \in 0..MaxAdds
    PROVE  PollTypeOK
BY DEF PollTypeOK, SoundPoll, Ticks

\* Nothing is polled yet.
LEMMA PollStart == PollInit => PollInv
<1>. SUFFICES ASSUME PollInit PROVE PollInv
  OBVIOUS
<1>1. entries = <<>> /\ running = {} /\ stale = {} /\ tick = Undefined /\ adds = 0
      /\ timer = FALSE /\ paused = FALSE
  BY DEF PollInit
<1>2. SoundPoll(entries, running, stale)
  BY <1>1 DEF SoundPoll
<1>3. tick \in Ticks /\ adds \in 0..MaxAdds
  BY <1>1, BoundsAssumption DEF Ticks, Undefined
<1>. QED BY <1>1, <1>2, <1>3, TypedPoll DEF PollInv

\* What PollInv says of each variable.
LEMMA PollFields ==
    ASSUME PollInv
    PROVE  /\ SoundPoll(entries, running, stale) /\ tick \in Ticks
           /\ timer \in BOOLEAN /\ paused \in BOOLEAN /\ adds \in 0..MaxAdds
           /\ paused => ~timer /\ tick = Undefined
BY DEF PollInv, PollTypeOK, Ticks

\* start(), for a list of entries that may be new.
LEMMA StartWithSound ==
    ASSUME PollInv, NEW q, SoundPoll(q, running, stale), StartWith(q),
           q = <<>> => entries = <<>>
    PROVE  /\ SoundPoll(entries', running', stale')
           /\ timer' \in BOOLEAN /\ tick' \in Ticks
           /\ running \subseteq running' /\ running' \subseteq Invocations
<1>1. 0 \in Ticks
  BY BoundsAssumption DEF Ticks
<1>2. CASE q # <<>>
  BY <1>1, <1>2, StepSound DEF StartWith
<1>3. CASE q = <<>>
  BY <1>1, <1>3, PollFields DEF StartWith, SoundPoll
<1>. QED BY <1>2, <1>3

\* The second of the timer.
LEMMA SecondSound ==
    ASSUME PollInv, Second
    PROVE  PollInv' /\ running \subseteq running'
<1>1. timer /\ Step(entries, tick) /\ UNCHANGED <<paused, adds>>
  BY DEF Second
<1>2. /\ SoundPoll(entries', running', stale') /\ timer' \in BOOLEAN /\ tick' \in Ticks
      /\ running \subseteq running'
  BY <1>1, PollFields, StepSound
<1>3. PollTypeOK'
  BY <1>1, <1>2, PollFields DEF PollTypeOK, SoundPoll, Ticks
<1>. QED BY <1>1, <1>2, <1>3, PollFields DEF PollInv

\* poll.start().
LEMMA StartSound ==
    ASSUME PollInv, Start
    PROVE  PollInv' /\ running \subseteq running'
<1>1. StartWith(entries) /\ paused' = FALSE /\ adds' = adds
  BY DEF Start
<1>2. /\ SoundPoll(entries', running', stale') /\ timer' \in BOOLEAN /\ tick' \in Ticks
      /\ running \subseteq running'
  BY <1>1, PollFields, StartWithSound
<1>3. PollTypeOK'
  BY <1>1, <1>2, PollFields DEF PollTypeOK, SoundPoll, Ticks
<1>. QED BY <1>1, <1>2, <1>3 DEF PollInv

\* poll.stop().
LEMMA StopSound ==
    ASSUME PollInv, Stop
    PROVE  PollInv' /\ running' = running
<1>1. /\ timer' = FALSE /\ tick' = Undefined /\ paused' = TRUE
      /\ UNCHANGED <<entries, running, stale, adds>>
  BY DEF Stop
<1>2. Undefined \in Ticks
  BY BoundsAssumption DEF Ticks, Undefined
<1>3. PollTypeOK'
  BY <1>1, <1>2, PollFields DEF PollTypeOK, SoundPoll, Ticks
<1>. QED BY <1>1, <1>3, PollFields DEF PollInv

\* poll.add(f): a new entry, called at once if the timer has to be started.
LEMMA AddSound ==
    ASSUME PollInv, NEW f \in Fns, Add(f)
    PROVE  PollInv' /\ running \subseteq running'
<1>. DEFINE e == [fn |-> f, r |-> TRUE, slot |-> 0]
            q == Append(entries, e)
<1>1. /\ adds < MaxAdds /\ adds' = adds + 1 /\ paused' = paused
      /\ f \notin Polled
      /\ f \notin Throwers => CallsOf(f, Invocations \ running) # {}
      /\ IF tick # Undefined /\ ~timer
         THEN StartWith(q)
         ELSE entries' = q /\ UNCHANGED <<tick, timer, running, stale>>
  BY DEF Add
<1>2. e \in Entry /\ e.fn = f /\ e.r = TRUE
  BY DEF Entry
<1>0. /\ entries \in Seq(Entry) /\ running \subseteq Invocations /\ stale \subseteq running
      /\ \A k, j \in DOMAIN entries : entries[k].fn = entries[j].fn => k = j
      /\ \A x \in running \ stale : \E k \in DOMAIN entries :
           entries[k].fn = x[1] /\ ~entries[k].r /\ entries[k].slot = x[2]
      /\ \A k \in DOMAIN entries : entries[k].r /\ entries[k].fn \notin Throwers
                             => CallsOf(entries[k].fn, Invocations \ running) # {}
  BY PollFields DEF SoundPoll
<1>. HIDE DEF e
<1>3. /\ q \in Seq(Entry) /\ q # <<>> /\ DOMAIN q = DOMAIN entries \cup {Len(entries) + 1}
      /\ Len(entries) + 1 \notin DOMAIN entries
      /\ q[Len(entries) + 1] = e /\ \A k \in DOMAIN entries : q[k] = entries[k]
  BY <1>0, <1>2
<1>. HIDE DEF q
<1>4. \A k \in DOMAIN entries : entries[k].fn # f
  BY <1>1 DEF Polled
<1>5. \A k, j \in DOMAIN q : q[k].fn = q[j].fn => k = j
  BY <1>0, <1>2, <1>3, <1>4
<1>6. \A x \in running \ stale : \E k \in DOMAIN q :
           q[k].fn = x[1] /\ ~q[k].r /\ q[k].slot = x[2]
  BY <1>0, <1>3
<1>7. \A k \in DOMAIN q : q[k].r /\ q[k].fn \notin Throwers
                             => CallsOf(q[k].fn, Invocations \ running) # {}
  BY <1>0, <1>1, <1>2, <1>3
<1>8. SoundPoll(q, running, stale)
  BY <1>0, <1>3, <1>5, <1>6, <1>7 DEF SoundPoll
<1>9. adds' \in 0..MaxAdds
  BY <1>1, PollFields, BoundsAssumption
<1>10. CASE tick # Undefined /\ ~timer
  <2>1. StartWith(q)
    BY <1>1, <1>10
  <2>2. /\ SoundPoll(entries', running', stale') /\ timer' \in BOOLEAN /\ tick' \in Ticks
        /\ running \subseteq running'
    BY <1>3, <1>8, <2>1, StartWithSound
  <2>3. PollTypeOK'
    BY <1>1, <1>9, <2>2, PollFields DEF PollTypeOK, SoundPoll, Ticks
  <2>. QED BY <1>1, <1>10, <2>2, <2>3, PollFields DEF PollInv
<1>11. CASE ~(tick # Undefined /\ ~timer)
  <2>1. entries' = q /\ UNCHANGED <<tick, timer, running, stale>>
    BY <1>1, <1>11
  <2>2. PollTypeOK'
    BY <1>1, <1>8, <1>9, <2>1, PollFields DEF PollTypeOK, SoundPoll, Ticks
  <2>. QED BY <1>1, <1>8, <2>1, <2>2, PollFields DEF PollInv
<1>. QED BY <1>10, <1>11

\* poll.remove(f): the calls of f that are under way have no entry left.
LEMMA UnpollSound ==
    ASSUME PollInv, NEW f \in Fns, Unpoll(f)
    PROVE  PollInv' /\ running' = running
<1>1. /\ f \in Polled
      /\ entries' = Without(entries, f)
      /\ stale' = stale \cup CallsOf(f, running)
      /\ IF entries' = <<>> /\ timer
         THEN tick' = 0 /\ timer' = FALSE ELSE UNCHANGED <<tick, timer>>
      /\ UNCHANGED <<running, paused, adds>>
  BY DEF Unpoll
<1>0. /\ entries \in Seq(Entry) /\ running \subseteq Invocations /\ stale \subseteq running
      /\ \A k, j \in DOMAIN entries : entries[k].fn = entries[j].fn => k = j
      /\ \A x \in running \ stale : \E k \in DOMAIN entries :
           entries[k].fn = x[1] /\ ~entries[k].r /\ entries[k].slot = x[2]
      /\ \A k \in DOMAIN entries : entries[k].r /\ entries[k].fn \notin Throwers
                             => CallsOf(entries[k].fn, Invocations \ running) # {}
  BY PollFields DEF SoundPoll
<1>2. PICK n \in DOMAIN entries : entries[n].fn = f
  BY <1>1 DEF Polled
<1>. DEFINE r == Without(entries, entries[n].fn)
            dead == stale \cup CallsOf(f, running)
<1>3. /\ r \in Seq(Entry)
      /\ \A k, j \in DOMAIN r : r[k].fn = r[j].fn => k = j
      /\ \A k \in DOMAIN r : \E l \in DOMAIN entries \ {n} :
           r[k] = entries[l] /\ entries[l].fn # entries[n].fn
      /\ \A l \in DOMAIN entries : entries[l].fn # entries[n].fn =>
           \E k \in DOMAIN r : r[k] = entries[l]
  BY <1>0, TakenOut
<1>4. dead \subseteq running /\ \A x \in running \ dead : x \in running \ stale /\ x[1] # f
  BY <1>0 DEF CallsOf
<1>. HIDE DEF r, dead
<1>5. ASSUME NEW x \in running \ dead
      PROVE  \E k \in DOMAIN r : r[k].fn = x[1] /\ ~r[k].r /\ r[k].slot = x[2]
  <2>1. PICK l \in DOMAIN entries : entries[l].fn = x[1] /\ ~entries[l].r /\ entries[l].slot = x[2]
    BY <1>0, <1>4
  <2>. QED BY <1>2, <1>3, <1>4, <2>1
<1>6. ASSUME NEW k \in DOMAIN r, r[k].r, r[k].fn \notin Throwers
      PROVE  CallsOf(r[k].fn, Invocations \ running) # {}
  <2>1. PICK l \in DOMAIN entries \ {n} : r[k] = entries[l]
    BY <1>3
  <2>. QED BY <1>0, <1>6, <2>1
<1>7. SoundPoll(r, running, dead)
  <2>1. r \in Seq(Entry) /\ \A k, j \in DOMAIN r : r[k].fn = r[j].fn => k = j
    BY <1>3
  <2>. QED BY <1>0, <1>4, <1>5, <1>6, <2>1 DEF SoundPoll
<1>8. SoundPoll(entries', running', stale')
  BY <1>1, <1>2, <1>7 DEF r, dead
<1>9. tick' \in Ticks /\ timer' \in BOOLEAN
  <2>1. 0 \in Ticks
    BY BoundsAssumption DEF Ticks
  <2>2. CASE entries' = <<>> /\ timer
    BY <1>1, <2>1, <2>2
  <2>3. CASE ~(entries' = <<>> /\ timer)
    BY <1>1, <2>3, PollFields
  <2>. QED BY <2>2, <2>3
<1>10. PollTypeOK'
  BY <1>1, <1>8, <1>9, PollFields DEF PollTypeOK, SoundPoll, Ticks
<1>. QED BY <1>1, <1>8, <1>10, PollFields DEF PollInv

\* A polled function's promise is settled: the entry that waits for this call
\* is free again, and no other entry is.
LEMMA FinishSound ==
    ASSUME PollInv, NEW s \in running, NEW resolved, Finish(s, resolved)
    PROVE  PollInv' /\ running' = running \ {s}
<1>0. /\ entries \in Seq(Entry) /\ running \subseteq Invocations /\ stale \subseteq running
      /\ \A k, j \in DOMAIN entries : entries[k].fn = entries[j].fn => k = j
      /\ \A x \in running \ stale : \E k \in DOMAIN entries :
           entries[k].fn = x[1] /\ ~entries[k].r /\ entries[k].slot = x[2]
      /\ \A k \in DOMAIN entries : entries[k].r /\ entries[k].fn \notin Throwers
                             => CallsOf(entries[k].fn, Invocations \ running) # {}
  BY PollFields DEF SoundPoll
<1>. DEFINE p == [i \in DOMAIN entries |->
                   IF entries[i].fn = s[1] /\ entries[i].slot = s[2]
                   THEN [entries[i] EXCEPT !.r = TRUE, !.slot = 0] ELSE entries[i]]
<1>1. /\ running' = running \ {s}
      /\ stale' = stale \ {s}
      /\ entries' = p
      /\ UNCHANGED <<tick, timer, paused, adds>>
  BY DEF Finish
<1>2. /\ DOMAIN p = DOMAIN entries
      /\ \A i \in DOMAIN entries : p[i] \in Entry /\ p[i].fn = entries[i].fn
      /\ \A i \in DOMAIN entries :
           ~(entries[i].fn = s[1] /\ entries[i].slot = s[2]) => p[i] = entries[i]
  <2>1. \A i \in DOMAIN entries : entries[i] \in Entry
    BY <1>0
  <2>2. 0 \in Nat
    OBVIOUS
  <2>. QED BY <2>1, <2>2, Marked
<1>3. p \in Seq(Entry)
  <2>1. DOMAIN p = 1..Len(entries) /\ Len(entries) \in Nat
    BY <1>0
  <2>2. p = [i \in 1..Len(entries) |-> p[i]]
    BY <2>1
  <2>. HIDE DEF p
  <2>. QED BY <1>2, <2>1, <2>2
<1>. HIDE DEF p
<1>4. \A k, j \in DOMAIN p : p[k].fn = p[j].fn => k = j
  BY <1>0, <1>2
<1>5. \A x \in Invocations : x = <<x[1], x[2]>>
  BY InvocationsAssumption
<1>6. ASSUME NEW x \in (running \ {s}) \ (stale \ {s})
      PROVE  \E k \in DOMAIN p : p[k].fn = x[1] /\ ~p[k].r /\ p[k].slot = x[2]
  <2>1. PICK k \in DOMAIN entries : entries[k].fn = x[1] /\ ~entries[k].r /\ entries[k].slot = x[2]
    BY <1>0
  <2>2. ~(entries[k].fn = s[1] /\ entries[k].slot = s[2])
    BY <1>0, <1>5, <2>1
  <2>. QED BY <1>2, <2>1, <2>2
<1>7. ASSUME NEW k \in DOMAIN p, p[k].r, p[k].fn \notin Throwers
      PROVE  CallsOf(p[k].fn, Invocations \ (running \ {s})) # {}
  <2>1. CASE entries[k].fn = s[1] /\ entries[k].slot = s[2]
    <3>1. s \in CallsOf(p[k].fn, Invocations \ (running \ {s}))
      BY <1>0, <1>2, <2>1 DEF CallsOf
    <3>. QED BY <3>1
  <2>2. CASE ~(entries[k].fn = s[1] /\ entries[k].slot = s[2])
    <3>1. p[k] = entries[k] /\ CallsOf(p[k].fn, Invocations \ running) # {}
      BY <1>0, <1>2, <1>7, <2>2
    <3>. QED BY <3>1 DEF CallsOf
  <2>. QED BY <2>1, <2>2
<1>8. SoundPoll(p, running \ {s}, stale \ {s})
  BY <1>0, <1>3, <1>4, <1>6, <1>7 DEF SoundPoll
<1>9. PollTypeOK'
  BY <1>1, <1>8, PollFields DEF PollTypeOK, SoundPoll, Ticks
<1>. QED BY <1>1, <1>8, <1>9, PollFields DEF PollInv

-----------------------------------------------------------------------------
(* The page: what is invariant, and that every action keeps it.            *)

\* A polled function that has no call under way has none on the wire either,
\* so that it can always make the next one.
CallersFree == \A c \in Clients \ running : call[Own(c)] = "none"

\* The types of the page's own variables.
PageTypeOK ==
    /\ {loaded, wasPolling, dialog} \subseteq BOOLEAN
    /\ events \in 0..MaxEvents

\* The inductive invariant.
RuntimeInv == PollInv /\ QueueInv /\ CallersFree /\ PageTypeOK

\* It holds when the page is loaded ...
LEMMA Established == Init => RuntimeInv
<1>. SUFFICES ASSUME Init PROVE RuntimeInv
  OBVIOUS
<1>1. PollInv /\ QueueInv
  BY PollStart, QueueStart DEF Init
<1>2. CallersFree
  BY CallNames DEF Init, QueueInit, CallersFree
<1>3. PageTypeOK
  <2>1. {loaded, wasPolling, dialog} \subseteq BOOLEAN
    BY Zenon DEF Init
  <2>. QED BY <2>1, MaxEventsAssumption DEF Init, PageTypeOK
<1>. QED BY <1>1, <1>2, <1>3 DEF RuntimeInv

\* The functions that a step calls are new callers, and free to call.
LEMMA CallsMadeSound ==
    ASSUME RuntimeInv, PollInv', running \subseteq running', CallsMade
    PROVE  QueueInv' /\ CallersFree'
<1>. DEFINE cs == running' \ running
<1>1. cs \in SUBSET Clients
  BY CallersAssumption DEF PollInv, SoundPoll
<1>2. QueueInv /\ Issue(cs)
  BY DEF RuntimeInv, CallsMade
<1>3. QueueInv'
  <2>. HIDE DEF cs
  <2>. QED BY <1>1, <1>2, CallsIssued
<1>4. ASSUME NEW c \in Clients \ running'
      PROVE  call'[Own(c)] = "none"
  <2>1. call[Own(c)] = "none" /\ c \notin cs
    BY DEF RuntimeInv, CallersFree
  <2>2. Own(c) \in Calls /\ Own(c)[1] = c
    BY CallNames
  <2>. QED BY <1>2, <2>1, <2>2 DEF Issue
<1>. QED BY <1>3, <1>4 DEF CallersFree

\* An answer changes nothing about a function that has made no call.
LEMMA AnswerFree ==
    ASSUME RuntimeInv, NEW b, Answer(b), running' = running
    PROVE  CallersFree'
<1>. SUFFICES ASSUME NEW c \in Clients \ running
              PROVE  call'[Own(c)] = "none"
  BY DEF CallersFree
<1>1. call[Own(c)] = "none" /\ call[Check(c)] \notin {"queued", "sent"}
  BY CallNames DEF RuntimeInv, CallersFree, QueueInv, CallsAccounted
<1>2. b \in flight
  BY DEF Answer, Reply, Lose, LoginRequired
<1>3. Own(c) \notin Members(b) /\ Check(c) \notin Members(b)
  BY <1>1, <1>2, CallNames DEF RuntimeInv, QueueInv, CallsAccounted
<1>4. ASSUME NEW denied, NEW failed, Settle(b, denied, failed)
      PROVE  call'[Own(c)] = call[Own(c)]
  <2>. DEFINE checks == {x \in Members(b) \cap denied : NeedsCheck(x)}
              ended  == Members(b) \ checks
  <2>1. Own(c) \notin ended /\ Own(c) \notin checks /\ Check(c) \notin ended
    BY <1>3
  <2>2. call' = [x \in Calls |->
            IF x \in ended
            THEN IF x \in denied \cup failed THEN "rejected" ELSE "resolved"
            ELSE IF x \in checks THEN "checking"
            ELSE IF x[2] = "access" /\ Own(x[1]) \in checks THEN "queued"
            ELSE IF x[2] = "call" /\ Check(x[1]) \in ended THEN "rejected"
            ELSE call[x]]
    BY <1>4 DEF Settle
  <2>. HIDE DEF checks, ended
  <2>. QED BY <2>1, <2>2, CallNames
<1>5. CASE LoginRequired(b)
  BY <1>1, <1>3, <1>5, CallNames DEF LoginRequired
<1>6. CASE Reply(b)
  BY <1>1, <1>4, <1>6 DEF Reply
<1>7. CASE Lose(b)
  BY <1>1, <1>4, <1>7 DEF Lose
<1>. QED BY <1>5, <1>6, <1>7 DEF Answer

\* Steps that leave the queue alone, and steps that leave the poll alone.
LEMMA QueueRests ==
    ASSUME QueueInv, UNCHANGED queueVars
    PROVE  QueueInv'
<1>1. UNCHANGED <<session, expired, queue, flight, call, lostCheck>>
  BY DEF queueVars
<1>2. QueueTypeOK' /\ CallsAccounted'
  BY <1>1 DEF QueueInv, QueueTypeOK, CallsAccounted
<1>. QED BY <1>1, <1>2 DEF QueueInv, ExpiredMeansGone, NoPlainCheck

\* (The poll.)
LEMMA PollRests ==
    ASSUME PollInv, UNCHANGED pollVars
    PROVE  PollInv' /\ running' = running
BY DEF PollInv, PollTypeOK, pollVars

\* ... and every step keeps it.
LEMMA Preserved == RuntimeInv /\ [Next]_vars => RuntimeInv'
<1>. SUFFICES ASSUME RuntimeInv, [Next]_vars PROVE RuntimeInv'
  OBVIOUS
<1>0. PollInv /\ QueueInv /\ CallersFree /\ PageTypeOK
  BY DEF RuntimeInv
<1>1. CASE PageReady
  <2>1. Start /\ CallsMade /\ loaded' = TRUE /\ UNCHANGED <<wasPolling, dialog, events>>
    BY <1>1 DEF PageReady
  <2>2. PageTypeOK'
    BY <1>0, <2>1 DEF PageTypeOK
  <2>. QED BY <1>0, <2>1, <2>2, StartSound, CallsMadeSound DEF RuntimeInv
<1>2. CASE UserToggles
  <2>1. /\ Start \/ Stop
        /\ CallsMade /\ events < MaxEvents /\ events' = events + 1
        /\ UNCHANGED <<loaded, wasPolling, dialog>>
    BY <1>2 DEF UserToggles
  <2>2. PageTypeOK'
    BY <1>0, <2>1, MaxEventsAssumption DEF PageTypeOK
  <2>3. PollInv' /\ running \subseteq running'
    BY <1>0, <2>1, StartSound, StopSound
  <2>. QED BY <2>1, <2>2, <2>3, CallsMadeSound DEF RuntimeInv
<1>3. CASE ShowDialog
  <2>1. /\ events < MaxEvents /\ events' = events + 1 /\ dialog' = TRUE
        /\ wasPolling' = (wasPolling \/ timer)
        /\ IF ~wasPolling /\ timer THEN Stop ELSE UNCHANGED pollVars
        /\ UNCHANGED queueVars /\ UNCHANGED loaded
    BY <1>3 DEF ShowDialog
  <2>2. PageTypeOK'
    BY <1>0, <2>1, MaxEventsAssumption DEF PageTypeOK
  <2>3. PollInv' /\ running' = running
    BY <1>0, <2>1, StopSound, PollRests
  <2>4. QueueInv' /\ call' = call
    BY <1>0, <2>1, QueueRests DEF queueVars
  <2>. QED BY <1>0, <2>2, <2>3, <2>4 DEF RuntimeInv, CallersFree
<1>4. CASE HideDialog
  <2>1. /\ dialog' = FALSE
        /\ IF wasPolling /\ ~timer THEN Start ELSE UNCHANGED pollVars
        /\ CallsMade
        /\ UNCHANGED <<loaded, wasPolling, events>>
    BY <1>4 DEF HideDialog
  <2>2. PageTypeOK'
    BY <1>0, <2>1 DEF PageTypeOK
  <2>3. PollInv' /\ running \subseteq running'
    BY <1>0, <2>1, StartSound, PollRests
  <2>. QED BY <2>1, <2>2, <2>3, CallsMadeSound DEF RuntimeInv
<1>5. ASSUME NEW f \in Fns, AddFn(f)
      PROVE  RuntimeInv'
  <2>1. Add(f) /\ CallsMade /\ UNCHANGED runtimeVars
    BY <1>5 DEF AddFn
  <2>2. PageTypeOK'
    BY <1>0, <2>1 DEF PageTypeOK, runtimeVars
  <2>. QED BY <1>0, <2>1, <2>2, AddSound, CallsMadeSound DEF RuntimeInv
<1>6. ASSUME NEW f \in Fns, RemoveFn(f)
      PROVE  RuntimeInv'
  <2>1. Unpoll(f) /\ UNCHANGED queueVars /\ UNCHANGED runtimeVars
    BY <1>6 DEF RemoveFn
  <2>2. PageTypeOK'
    BY <1>0, <2>1 DEF PageTypeOK, runtimeVars
  <2>3. PollInv' /\ running' = running
    BY <1>0, <2>1, UnpollSound
  <2>4. QueueInv' /\ call' = call
    BY <1>0, <2>1, QueueRests DEF queueVars
  <2>. QED BY <1>0, <2>2, <2>3, <2>4 DEF RuntimeInv, CallersFree
<1>7. CASE TimerFires
  <2>1. Second /\ CallsMade /\ UNCHANGED runtimeVars
    BY <1>7 DEF TimerFires
  <2>2. PageTypeOK'
    BY <1>0, <2>1 DEF PageTypeOK, runtimeVars
  <2>. QED BY <1>0, <2>1, <2>2, SecondSound, CallsMadeSound DEF RuntimeInv
<1>8. CASE Frame
  <2>1. Flush /\ UNCHANGED pollVars /\ UNCHANGED runtimeVars
    BY <1>8 DEF Frame
  <2>2. PageTypeOK'
    BY <1>0, <2>1 DEF PageTypeOK, runtimeVars
  <2>3. PollInv' /\ running' = running /\ QueueInv'
    BY <1>0, <2>1, PollRests, QueueFlushed
  <2>4. \A c \in Clients \ running : call'[Own(c)] = "none"
    BY <1>0, <2>1, CallNames DEF Flush, CallersFree
  <2>. QED BY <2>2, <2>3, <2>4 DEF RuntimeInv, CallersFree
<1>9. CASE SessionOver
  <2>1. SessionEnds /\ UNCHANGED pollVars /\ UNCHANGED runtimeVars
    BY <1>9 DEF SessionOver
  <2>2. PageTypeOK'
    BY <1>0, <2>1 DEF PageTypeOK, runtimeVars
  <2>3. PollInv' /\ running' = running /\ QueueInv' /\ call' = call
    BY <1>0, <2>1, PollRests, SessionOverKeeps DEF SessionEnds
  <2>. QED BY <1>0, <2>2, <2>3 DEF RuntimeInv, CallersFree
<1>10. ASSUME NEW s \in Invocations, CallOver(s)
       PROVE  RuntimeInv'
  <2>1. /\ s \in running /\ Release(s) /\ UNCHANGED runtimeVars
        /\ Finish(s, call[Own(s)] = "resolved")
    BY <1>10 DEF CallOver
  <2>2. PageTypeOK'
    BY <1>0, <2>1 DEF PageTypeOK, runtimeVars
  <2>3. PollInv' /\ running' = running \ {s}
    <3>. DEFINE resolved == call[Own(s)] = "resolved"
    <3>1. Finish(s, resolved)
      BY <2>1
    <3>. HIDE DEF resolved
    <3>. QED BY <1>0, <2>1, <3>1, FinishSound
  <2>4. s \in Clients /\ QueueInv'
    BY <1>0, <2>1, CallersAssumption, CallReleased
  <2>5. ASSUME NEW c \in Clients \ running'
        PROVE  call'[Own(c)] = "none"
    <3>1. call \in [Calls -> States] /\ Own(c) \in Calls /\ Own(s) \in Calls /\ Check(s) \in Calls
      BY <1>0, <2>4, CallNames DEF QueueInv, QueueTypeOK
    <3>2. call' = [call EXCEPT ![Own(s)] = "none", ![Check(s)] = "none"]
      BY <2>1 DEF Release
    <3>3. CASE c = s
      BY <3>1, <3>2, <3>3
    <3>4. CASE c # s
      <4>1. Own(c) # Own(s) /\ Own(c) # Check(s) /\ c \notin running
        BY <2>3, <3>4, CallNames
      <4>. QED BY <1>0, <3>1, <3>2, <4>1 DEF CallersFree
    <3>. QED BY <3>3, <3>4
  <2>. QED BY <2>2, <2>3, <2>4, <2>5 DEF RuntimeInv, CallersFree
<1>11. ASSUME NEW b \in flight, Network(b)
       PROVE  RuntimeInv'
  <2>1. /\ Answer(b) /\ UNCHANGED runtimeVars
        /\ IF Notified /\ timer THEN Stop ELSE UNCHANGED pollVars
    BY <1>11 DEF Network
  <2>2. PageTypeOK'
    BY <1>0, <2>1 DEF PageTypeOK, runtimeVars
  <2>3. PollInv' /\ running' = running
    BY <1>0, <2>1, StopSound, PollRests
  <2>4. QueueInv' /\ CallersFree'
    BY <1>0, <2>1, <2>3, AnswerGiven, AnswerFree
  <2>. QED BY <2>2, <2>3, <2>4 DEF RuntimeInv
<1>12. CASE UNCHANGED vars
  <2>1. UNCHANGED pollVars /\ UNCHANGED queueVars /\ UNCHANGED runtimeVars
    BY <1>12 DEF vars
  <2>2. PageTypeOK'
    BY <1>0, <2>1 DEF PageTypeOK, runtimeVars
  <2>3. PollInv' /\ running' = running /\ QueueInv' /\ call' = call
    BY <1>0, <2>1, PollRests, QueueRests DEF queueVars
  <2>. QED BY <1>0, <2>2, <2>3 DEF RuntimeInv, CallersFree
<1>. QED BY <1>1, <1>2, <1>3, <1>4, <1>5, <1>6, <1>7, <1>8, <1>9, <1>10, <1>11, <1>12 DEF Next

\* The inductive invariant holds of every behaviour of a page.
THEOREM RuntimeInvariant == Spec => []RuntimeInv
BY Established, Preserved, PTL DEF Spec

\* It implies the type invariant.
LEMMA RuntimeTyped ==
    ASSUME RuntimeInv
    PROVE  TypeOK
BY DEF RuntimeInv, PollInv, QueueInv, PageTypeOK, TypeOK

\* Every variable of the page holds values of its type, in every state.
THEOREM TypeCorrect == Spec => []TypeOK
BY RuntimeInvariant, RuntimeTyped, PTL

\* Every call is in one place: a queued call is in the batch that is being
\* collected, a sent one in exactly one request, and a call that is held back
\* waits for one session check (rpc.js, request.js).
THEOREM EveryCallAccounted == Spec => []CallsAccounted
<1>1. RuntimeInv => CallsAccounted
  BY DEF RuntimeInv, QueueInv
<1>. QED BY <1>1, RuntimeInvariant, PTL

\* The page says that the session has expired only when it has.
THEOREM ExpiryIsTrue == Spec => []ExpiredMeansGone
<1>1. RuntimeInv => ExpiredMeansGone
  BY DEF RuntimeInv, QueueInv
<1>. QED BY <1>1, RuntimeInvariant, PTL

\* A polled function is never called while its last call is under way, unless it
\* was removed meanwhile (the r flag of a queue entry).
THEOREM NeverTwiceAtOnce == Spec => []OneCallAtATime
<1>1. RuntimeInv => OneCallAtATime
  <2>. SUFFICES ASSUME RuntimeInv, NEW s \in running \ stale, NEW t \in running \ stale,
                       s[1] = t[1]
                PROVE  s = t
    BY DEF OneCallAtATime
  <2>0. SoundPoll(entries, running, stale)
    BY DEF RuntimeInv, PollInv
  <2>1. PICK i \in DOMAIN entries : entries[i].fn = s[1] /\ entries[i].slot = s[2]
    BY <2>0 DEF SoundPoll
  <2>2. PICK j \in DOMAIN entries : entries[j].fn = t[1] /\ entries[j].slot = t[2]
    BY <2>0 DEF SoundPoll
  <2>3. i = j
    BY <2>0, <2>1, <2>2 DEF SoundPoll
  <2>4. s = <<s[1], s[2]>> /\ t = <<t[1], t[2]>>
    BY <2>0, InvocationsAssumption DEF SoundPoll
  <2>. QED BY <2>1, <2>2, <2>3, <2>4
<1>. QED BY <1>1, RuntimeInvariant, PTL

\* A poll that was stopped has no timer until start() is called: no late answer,
\* added or removed function or closed dialog brings it back.
THEOREM StopsForGood == Spec => []PausedStaysPaused
<1>1. RuntimeInv => PausedStaysPaused
  BY RuntimeTyped DEF RuntimeInv, PollInv, PausedStaysPaused
<1>. QED BY <1>1, RuntimeInvariant, PTL

\* Whenever a function is called, none of its calls is on the wire, so that the
\* guard with which the queue takes a call never keeps a function from being
\* called.
THEOREM CallersAlwaysFree == Spec => []CallersFree
<1>1. RuntimeInv => CallersFree
  BY DEF RuntimeInv
<1>. QED BY <1>1, RuntimeInvariant, PTL
=============================================================================
