------------------------- MODULE FormDialogs_proofs -------------------------
(***************************************************************************)
(* What is proved of the dialogs of FormDialogs, for all fields, with all  *)
(* dependencies, and any number of sections, clicks and failures.          *)
(*                                                                         *)
(* A pass of checkDepends is a function of the fields' order, so facts     *)
(* about it go by induction on that order (Reaches): each field is shown   *)
(* as its dependencies hold in a form that is new before it and old from   *)
(* there on (PassOver).  Of the two passes that checkDepends makes, the    *)
(* first settles the fields that only look back, the second those that     *)
(* look forward once (FirstPass, SecondPass).  What is proved is about     *)
(* these fields (Quick), on a page that may have others.                   *)
(***************************************************************************)
EXTENDS FormDialogs, WellFoundedInduction, TLAPS

-----------------------------------------------------------------------------
(* Counting.                                                               *)

\* What holds at 0 and is handed on from each number below N holds up to N.
LEMMA Reaches ==
    ASSUME NEW N \in Nat, NEW G, 0 \in G, \A n \in 0..N : n < N /\ n \in G => n + 1 \in G
    PROVE  0..N \subseteq G
<1>. DEFINE Bad == {n \in Nat : n \in 0..N /\ n \notin G}
<1>1. SUFFICES ASSUME Bad # {} PROVE FALSE
  OBVIOUS
<1>2. PICK n \in Bad : \A k \in Bad : ~ (<<k, n>> \in OpToRel(<, Nat))
  <2>1. Bad \subseteq Nat
    OBVIOUS
  <2>. HIDE DEF Bad
  <2>. QED BY <1>1, <2>1, WFMin, NatLessThanWellFounded, Zenon
<1>3. \A k \in Bad : ~ (k < n)
  BY <1>2, Zenon DEF OpToRel
<1>4. n \in Nat /\ n \in 0..N /\ n \notin G /\ n # 0
  OBVIOUS
<1>5. n - 1 \in 0..N /\ n - 1 < N /\ n - 1 < n
  BY <1>4
<1>6. n - 1 \in G
  BY <1>3, <1>5
<1>. QED BY <1>4, <1>5, <1>6

\* f takes one step after the other from w.
Takes(f, N, S, w, step) ==
    f \in [0..N -> S] /\ f[0] = w /\ \A i \in 1..N : f[i] = step[i][f[i - 1]]

\* Steps one after another can be taken.
LEMMA Steps ==
    ASSUME NEW N \in Nat, NEW S, NEW w \in S, NEW step \in [1..N -> [S -> S]]
    PROVE  \E f : Takes(f, N, S, w, step)
<1>. DEFINE Far(n) == \E f \in [0..n -> S] :
                        f[0] = w /\ \A i \in 1..n : f[i] = step[i][f[i - 1]]
            G == {n \in 0..N : Far(n)}
<1>1. 0 \in G
  <2>. DEFINE f == [i \in 0..0 |-> w]
  <2>1. f \in [0..0 -> S] /\ f[0] = w /\ \A i \in 1..0 : FALSE
    OBVIOUS
  <2>2. Far(0)
    <3>. HIDE DEF f
    <3>. QED BY <2>1
  <2>. QED BY <2>2
<1>2. ASSUME NEW n \in 0..N, n < N, n \in G
      PROVE  n + 1 \in G
  <2>1. PICK f \in [0..n -> S] : f[0] = w /\ \A i \in 1..n : f[i] = step[i][f[i - 1]]
    BY <1>2
  <2>. DEFINE g == [i \in 0..(n + 1) |-> IF i = n + 1 THEN step[n + 1][f[n]] ELSE f[i]]
  <2>2. step[n + 1][f[n]] \in S
    <3>1. n + 1 \in 1..N /\ n \in 0..n
      BY <1>2
    <3>. QED BY <3>1
  <2>3. g \in [0..(n + 1) -> S]
    BY <2>2
  <2>4. g[0] = w
    BY <2>1
  <2>5. ASSUME NEW i \in 1..(n + 1)
        PROVE  g[i] = step[i][g[i - 1]]
    <3>1. i - 1 \in 0..n /\ i - 1 # n + 1
      OBVIOUS
    <3>2. g[i - 1] = f[i - 1]
      BY <3>1
    <3>3. CASE i = n + 1
      BY <3>2, <3>3
    <3>4. CASE i # n + 1
      <4>1. i \in 1..n
        BY <3>4
      <4>. QED BY <2>1, <3>2, <3>4, <4>1
    <3>. QED BY <3>3, <3>4
  <2>6. n + 1 \in 0..N
    BY <1>2
  <2>7. Far(n + 1)
    <3>. HIDE DEF g
    <3>. QED BY <2>3, <2>4, <2>5
  <2>. QED BY <2>6, <2>7
<1>3. N \in G
  <2>1. \A n \in 0..N : n < N /\ n \in G => n + 1 \in G
    BY <1>2
  <2>. HIDE DEF G
  <2>2. 0..N \subseteq G
    BY <1>1, <2>1, Reaches
  <2>. QED BY <2>2
<1>. QED BY <1>3 DEF Takes

\* Steps that stay in a set.
LEMMA Stays ==
    ASSUME NEW N \in Nat, NEW S, NEW f, f[0] \in S,
           \A i \in 1..N : f[i - 1] \in S => f[i] \in S
    PROVE  \A i \in 0..N : f[i] \in S
<1>. DEFINE G == {i \in 0..N : f[i] \in S}
<1>1. 0 \in G
  OBVIOUS
<1>2. ASSUME NEW n \in 0..N, n < N, n \in G
      PROVE  n + 1 \in G
  <2>1. n + 1 \in 1..N /\ (n + 1) - 1 = n /\ f[n] \in S /\ n + 1 \in 0..N
    BY <1>2
  <2>. QED BY <2>1
<1>3. \A n \in 0..N : n < N /\ n \in G => n + 1 \in G
  BY <1>2
<1>. HIDE DEF G
<1>4. 0..N \subseteq G
  BY <1>1, <1>3, Reaches
<1>. QED BY <1>4 DEF G

-----------------------------------------------------------------------------
(* A pass over the fields.                                                 *)

\* Every field is in the order, once.
LEMMA Ordered ==
    /\ Len(Order) \in Nat /\ DOMAIN Order = 1..Len(Order)
    /\ \A i \in 1..Len(Order) : Order[i] \in Fields
    /\ \A i, j \in 1..Len(Order) : Order[i] = Order[j] => i = j
    /\ \A f \in Fields : \E i \in 1..Len(Order) : Order[i] = f
<1>1. Order \in Seq(Fields)
  BY OrderAssumption
<1>2. Len(Order) \in Nat /\ DOMAIN Order = 1..Len(Order)
  BY <1>1
<1>3. \A i \in 1..Len(Order) : Order[i] \in Fields
  BY <1>1, <1>2
<1>. QED BY <1>2, <1>3, OrderAssumption DEF IsInjective, Fields, Range

\* A visit changes what is shown and what is bad, at one field.
LEMMA VisitType ==
    ASSUME NEW x \in Forms, NEW f \in Fields, NEW first
    PROVE  /\ Visit(x, f, first) \in Forms
           /\ Visit(x, f, first).val = x.val
           /\ Visit(x, f, first).shown =
                IF Satisfied(f, x) THEN x.shown \cup {f} ELSE x.shown \ {f}
           /\ Visit(x, f, first).bad =
                IF first /\ Satisfied(f, x)
                THEN (x.bad \ {f}) \cup {g \in {f} : Fails(g, x.val)} ELSE x.bad
<1>. DEFINE shown == IF Satisfied(f, x) THEN x.shown \cup {f} ELSE x.shown \ {f}
            bad == IF first /\ Satisfied(f, x)
                   THEN (x.bad \ {f}) \cup {g \in {f} : Fails(g, x.val)} ELSE x.bad
<1>1. shown \in SUBSET Fields /\ bad \in SUBSET Fields
  BY DEF Forms
<1>2. Visit(x, f, first) = [x EXCEPT !.shown = shown, !.bad = bad]
  BY DEF Visit
<1>. HIDE DEF shown, bad
<1>3. /\ Visit(x, f, first) \in Forms
      /\ Visit(x, f, first).val = x.val
      /\ Visit(x, f, first).shown = shown
      /\ Visit(x, f, first).bad = bad
  BY <1>1, <1>2 DEF Forms
<1>. QED BY <1>3 DEF shown, bad

\* The forms of a pass, from the one that it is given to the one that it returns.
Visits(x, first, v) ==
    /\ v \in [0..Len(Order) -> Forms]
    /\ v[0] = x
    /\ \A i \in 1..Len(Order) : v[i] = Visit(v[i - 1], Order[i], first)

\* A pass visits the fields one after another.
LEMMA Passed ==
    ASSUME NEW x \in Forms, NEW first
    PROVE  \E v : Visits(x, first, v) /\ Pass(x, first) = v[Len(Order)]
<1>. DEFINE N == Len(Order)
            step == [i \in 1..N |-> [y \in Forms |-> Visit(y, Order[i], first)]]
            After(f) == f = [i \in 0..N |-> IF i = 0 THEN x
                                            ELSE Visit(f[i - 1], Order[i], first)]
            v == CHOOSE f : After(f)
<1>1. N \in Nat
  BY Ordered
<1>2. step \in [1..N -> [Forms -> Forms]]
  BY Ordered, VisitType
<1>3. Pass(x, first) = v[N]
  BY DEF Pass
<1>4. \E f : After(f)
  <2>1. PICK f : Takes(f, N, Forms, x, step)
    <3>. HIDE DEF step, N
    <3>. QED BY <1>1, <1>2, Steps
  <2>2. ASSUME NEW i \in 0..N
        PROVE  f[i] = IF i = 0 THEN x ELSE Visit(f[i - 1], Order[i], first)
    <3>1. CASE i # 0
      <4>1. i \in 1..N /\ i - 1 \in 0..N
        BY <1>1, <3>1
      <4>2. f[i] = step[i][f[i - 1]] /\ f[i - 1] \in Forms
        BY <2>1, <4>1 DEF Takes
      <4>. QED BY <3>1, <4>1, <4>2
    <3>. QED BY <2>1, <3>1 DEF Takes
  <2>3. f = [i \in 0..N |-> f[i]]
    BY <2>1 DEF Takes
  <2>4. f = [i \in 0..N |-> IF i = 0 THEN x ELSE Visit(f[i - 1], Order[i], first)]
    BY <2>2, <2>3
  <2>. QED BY <2>4
<1>5. After(v)
  BY <1>4
<1>. HIDE DEF v
<1>6. v = [i \in 0..N |-> IF i = 0 THEN x ELSE Visit(v[i - 1], Order[i], first)]
  BY <1>5
<1>7. v[0] = x /\ \A i \in 1..N : v[i] = Visit(v[i - 1], Order[i], first)
  BY <1>1, <1>6
<1>8. ASSUME NEW i \in 1..N, v[i - 1] \in Forms
      PROVE  v[i] \in Forms
  <2>1. v[i] = Visit(v[i - 1], Order[i], first) /\ Order[i] \in Fields
    BY <1>7, Ordered
  <2>2. Visit(v[i - 1], Order[i], first) \in Forms
    BY ONLY <1>8, <2>1, VisitType
  <2>. QED BY <2>1, <2>2
<1>9. \A i \in 0..N : v[i] \in Forms
  <2>1. \A i \in 1..N : v[i - 1] \in Forms => v[i] \in Forms
    BY <1>8
  <2>. HIDE DEF N
  <2>. QED BY <1>1, <1>7, <2>1, Stays
<1>10. v \in [0..N -> Forms]
  BY <1>6, <1>9
<1>. QED BY <1>3, <1>7, <1>10 DEF Visits

\* What holds of a field if it holds of those before it holds of all.
LEMMA InOrder ==
    ASSUME NEW A \in SUBSET Fields, NEW H,
           \A f \in A : (\A g \in A : Before(g, f) => g \in H) => f \in H
    PROVE  A \subseteq H
<1>. DEFINE N == Len(Order)
            G == {n \in 0..N : \A i \in 1..n : Order[i] \in A => Order[i] \in H}
<1>1. N \in Nat /\ DOMAIN Order = 1..N
  BY Ordered
<1>2. 0 \in G
  BY <1>1
<1>3. ASSUME NEW n \in 0..N, n < N, n \in G
      PROVE  n + 1 \in G
  <2>1. n + 1 \in 1..N
    BY <1>1, <1>3
  <2>2. ASSUME Order[n + 1] \in A
        PROVE  Order[n + 1] \in H
    <3>1. ASSUME NEW g \in A, Before(g, Order[n + 1])
          PROVE  g \in H
      <4>1. PICK i, j \in 1..N : Order[i] = g /\ Order[j] = Order[n + 1] /\ i < j
        BY <1>1, <3>1 DEF Before
      <4>2. j = n + 1
        BY <2>1, <4>1, Ordered
      <4>3. i \in 1..n
        BY <1>1, <4>1, <4>2
      <4>. QED BY <1>3, <4>1, <4>3
    <3>. QED BY <2>2, <3>1
  <2>3. ASSUME NEW i \in 1..(n + 1), Order[i] \in A
        PROVE  Order[i] \in H
    <3>1. i \in 1..n \/ i = n + 1
      OBVIOUS
    <3>. QED BY <1>3, <2>2, <2>3, <3>1
  <2>. QED BY <2>1, <2>3
<1>4. 0..N \subseteq G
  <2>1. \A n \in 0..N : n < N /\ n \in G => n + 1 \in G
    BY <1>3
  <2>. HIDE DEF G
  <2>. QED BY <1>1, <1>2, <2>1, Reaches
<1>5. N \in G
  <2>. HIDE DEF G
  <2>. QED BY <1>1, <1>4
<1>. QED BY <1>1, <1>5, Ordered

\* A field is shown as it is satisfied when it is visited.
LEMMA Visited ==
    ASSUME NEW x \in Forms, NEW first, NEW v, Visits(x, first, v)
    PROVE  \A n \in 0..Len(Order) :
             /\ v[n] \in Forms
             /\ v[n].val = x.val
             /\ \A j \in 1..Len(Order) :
                  /\ Order[j] \in v[n].shown <=>
                       IF j <= n THEN Satisfied(Order[j], v[j - 1]) ELSE Order[j] \in x.shown
                  /\ Order[j] \in v[n].bad <=>
                       IF j <= n /\ first /\ Satisfied(Order[j], v[j - 1])
                       THEN Fails(Order[j], x.val) ELSE Order[j] \in x.bad
<1>. DEFINE N == Len(Order)
            Is(m, j) ==
              /\ Order[j] \in v[m].shown <=>
                   IF j <= m THEN Satisfied(Order[j], v[j - 1]) ELSE Order[j] \in x.shown
              /\ Order[j] \in v[m].bad <=>
                   IF j <= m /\ first /\ Satisfied(Order[j], v[j - 1])
                   THEN Fails(Order[j], x.val) ELSE Order[j] \in x.bad
            G == {m \in 0..N : v[m].val = x.val /\ \A j \in 1..N : Is(m, j)}
<1>1. N \in Nat /\ \A j \in 1..N : Order[j] \in Fields
  BY Ordered
<1>2. /\ v \in [0..N -> Forms] /\ v[0] = x
      /\ \A i \in 1..N : v[i] = Visit(v[i - 1], Order[i], first)
  BY DEF Visits
<1>3. 0 \in G
  BY <1>1, <1>2
<1>4. ASSUME NEW m \in 0..N, m < N, m \in G
      PROVE  m + 1 \in G
  <2>. DEFINE f == Order[m + 1]
  <2>1. m + 1 \in 1..N /\ v[m + 1] = Visit(v[m], f, first) /\ v[m] \in Forms /\ f \in Fields
    <3>1. m + 1 \in 1..N /\ (m + 1) - 1 = m
      BY <1>1, <1>4
    <3>. QED BY <1>1, <1>2, <3>1
  <2>2. /\ v[m + 1].val = v[m].val
        /\ v[m + 1].shown = IF Satisfied(f, v[m]) THEN v[m].shown \cup {f} ELSE v[m].shown \ {f}
        /\ v[m + 1].bad = IF first /\ Satisfied(f, v[m])
                          THEN (v[m].bad \ {f}) \cup {g \in {f} : Fails(g, v[m].val)} ELSE v[m].bad
    <3>. DEFINE z == v[m]
    <3>1. z \in Forms /\ v[m + 1] = Visit(z, f, first)
      BY <2>1
    <3>2. /\ Visit(z, f, first).val = z.val
          /\ Visit(z, f, first).shown = IF Satisfied(f, z) THEN z.shown \cup {f} ELSE z.shown \ {f}
          /\ Visit(z, f, first).bad = IF first /\ Satisfied(f, z)
                    THEN (z.bad \ {f}) \cup {g \in {f} : Fails(g, z.val)} ELSE z.bad
      <4>. HIDE DEF f, z
      <4>. QED BY ONLY <2>1, <3>1, VisitType
    <3>. QED BY <3>1, <3>2
  <2>3. v[m].val = x.val /\ \A j \in 1..N : Is(m, j)
    BY <1>4
  <2>4. ASSUME NEW j \in 1..N
        PROVE  Is(m + 1, j)
    <3>1. CASE j = m + 1
      <4>1. Order[j] = f /\ j <= m + 1 /\ j - 1 = m /\ ~ (j <= m)
        BY <1>1, <3>1
      <4>2. Is(m, j)
        BY <2>3
      <4>3. Order[j] \in v[m].bad <=> Order[j] \in x.bad
        BY <4>1, <4>2
      <4>. HIDE DEF f
      <4>. QED BY <2>2, <2>3, <4>1, <4>3
    <3>2. CASE j # m + 1
      <4>1. Order[j] # f /\ ((j <= m + 1) <=> (j <= m))
        BY <1>1, <2>1, <3>2, Ordered
      <4>2. Order[j] \in v[m + 1].shown <=> Order[j] \in v[m].shown
        <5>. HIDE DEF f
        <5>. QED BY <2>2, <4>1
      <4>3. Order[j] \in v[m + 1].bad <=> Order[j] \in v[m].bad
        <5>. HIDE DEF f
        <5>. QED BY <2>2, <4>1
      <4>4. Is(m, j)
        BY <2>3
      <4>. QED BY <4>1, <4>2, <4>3, <4>4
    <3>. QED BY <3>1, <3>2
  <2>. HIDE DEF Is
  <2>. QED BY <2>1, <2>2, <2>3, <2>4
<1>5. 0..N \subseteq G
  <2>1. \A m \in 0..N : m < N /\ m \in G => m + 1 \in G
    BY <1>4
  <2>. HIDE DEF G
  <2>. QED BY <1>1, <1>3, <2>1, Reaches
<1>6. \A n \in 0..N : v[n] \in Forms /\ v[n].val = x.val /\ \A j \in 1..N : Is(n, j)
  BY <1>2, <1>5
<1>. QED BY <1>6

\* What a pass makes of a form: each field is shown as its dependencies hold in
\* a form that is new before the field and old from there on, and a first pass
\* validates what it shows.
LEMMA PassOver ==
    ASSUME NEW x \in Forms, NEW first
    PROVE  /\ Pass(x, first) \in Forms
           /\ Pass(x, first).val = x.val
           /\ \A f \in Fields :
                \E z \in Forms :
                  /\ z.val = x.val
                  /\ f \in Pass(x, first).shown <=> Satisfied(f, z)
                  /\ \A g \in Fields :
                       g \in z.shown <=> IF Before(g, f) THEN g \in Pass(x, first).shown
                                         ELSE g \in x.shown
           /\ \A f \in Fields :
                f \in Pass(x, first).bad <=> IF first /\ f \in Pass(x, first).shown
                                             THEN Fails(f, x.val) ELSE f \in x.bad
<1>. DEFINE N == Len(Order)
            y == Pass(x, first)
<1>1. N \in Nat /\ DOMAIN Order = 1..N
  BY Ordered
<1>2. PICK v : Visits(x, first, v) /\ y = v[N]
  BY Passed
<1>. HIDE DEF y
<1>w. \A n \in 0..N :
        /\ v[n] \in Forms
        /\ v[n].val = x.val
        /\ \A j \in 1..N :
             /\ Order[j] \in v[n].shown <=>
                  IF j <= n THEN Satisfied(Order[j], v[j - 1]) ELSE Order[j] \in x.shown
             /\ Order[j] \in v[n].bad <=>
                  IF j <= n /\ first /\ Satisfied(Order[j], v[j - 1])
                  THEN Fails(Order[j], x.val) ELSE Order[j] \in x.bad
  BY <1>2, Visited
<1>3. y \in Forms /\ y.val = x.val
  BY <1>1, <1>2, <1>w
<1>4. ASSUME NEW f \in Fields
      PROVE  /\ \E z \in Forms :
                  /\ z.val = x.val
                  /\ f \in y.shown <=> Satisfied(f, z)
                  /\ \A g \in Fields :
                       g \in z.shown <=> IF Before(g, f) THEN g \in y.shown ELSE g \in x.shown
             /\ f \in y.bad <=> IF first /\ f \in y.shown THEN Fails(f, x.val) ELSE f \in x.bad
  <2>1. PICK j \in 1..N : Order[j] = f
    BY Ordered
  <2>2. j - 1 \in 0..N /\ N \in 0..N /\ j <= N
    BY <1>1
  <2>3. /\ f \in y.shown <=> Satisfied(f, v[j - 1])
        /\ f \in y.bad <=> IF first /\ Satisfied(f, v[j - 1])
                           THEN Fails(f, x.val) ELSE f \in x.bad
    BY <1>2, <2>1, <2>2, <1>w
  <2>4. v[j - 1].val = x.val /\ v[j - 1] \in Forms
    BY <1>2, <2>2, <1>w
  <2>5. ASSUME NEW g \in Fields
        PROVE  g \in v[j - 1].shown <=> IF Before(g, f) THEN g \in y.shown ELSE g \in x.shown
    <3>1. PICK i \in 1..N : Order[i] = g
      BY Ordered
    <3>2. Before(g, f) <=> i <= j - 1
      <4>1. Before(g, f) <=> i < j
        BY <1>1, <2>1, <3>1, Ordered DEF Before
      <4>. QED BY <1>1, <4>1
    <3>3. g \in v[j - 1].shown <=>
            IF i <= j - 1 THEN Satisfied(g, v[i - 1]) ELSE g \in x.shown
      BY <1>2, <2>2, <3>1, <1>w
    <3>4. i <= N /\ (g \in v[N].shown <=> Satisfied(g, v[i - 1]))
      BY <1>1, <1>2, <2>2, <3>1, <1>w
    <3>. QED BY <1>2, <3>2, <3>3, <3>4
  <2>. QED BY <2>3, <2>4, <2>5
<1>. QED BY <1>3, <1>4 DEF y

-----------------------------------------------------------------------------
(* What passes settle.                                                     *)

\* Fields without dependencies are shown.
Basic(x) == \A f \in Fields : Deps[f] = {} => f \in x.shown

\* Fields depend on fields.
LEMMA NeedsFields == \A f \in Fields : \A g : DependsOn(f, g) => g \in Fields
BY DepsAssumption DEF Alternatives, DependsOn

\* Whether a field is satisfied is up to the values and the fields it depends on.
LEMMA SameNeeds ==
    ASSUME NEW f \in Fields, NEW x, NEW y, x.val = y.val,
           \A g \in Fields : DependsOn(f, g) => (g \in x.shown <=> g \in y.shown)
    PROVE  Satisfied(f, x) <=> Satisfied(f, y)
<1>1. ASSUME NEW a \in Deps[f]
      PROVE  Holds(a, x) <=> Holds(a, y)
  <2>1. ASSUME NEW n \in a.needs
        PROVE  Matches(x, n[1], n[2], a.contains) <=> Matches(y, n[1], n[2], a.contains)
    <3>1. DependsOn(f, n[1])
      BY DEF DependsOn
    <3>2. n[1] \in x.shown <=> n[1] \in y.shown
      BY <3>1, NeedsFields
    <3>. QED BY <3>2 DEF Matches
  <2>2. (\A n \in a.needs : Matches(x, n[1], n[2], a.contains))
           <=> (\A n \in a.needs : Matches(y, n[1], n[2], a.contains))
    BY <2>1
  <2>. QED BY <2>2 DEF Holds
<1>. QED BY <1>1 DEF Satisfied

\* The quick fields depend on quick fields, besides those that have no dependencies.
LEMMA QuickClosed ==
    \A f \in Quick : \A g \in Fields : DependsOn(f, g) /\ Deps[g] # {} => g \in Quick
BY DEF Quick, TwoPasses

\* A form that a pass has been over shows the fields that have no dependencies.
LEMMA PassBasic ==
    ASSUME NEW x \in Forms, NEW first
    PROVE  Basic(Pass(x, first))
<1>1. ASSUME NEW f \in Fields, Deps[f] = {}
      PROVE  f \in Pass(x, first).shown
  <2>1. PICK z \in Forms : f \in Pass(x, first).shown <=> Satisfied(f, z)
    BY PassOver
  <2>. QED BY <1>1, <2>1 DEF Satisfied
<1>. QED BY <1>1 DEF Basic

\* A pass settles the fields that need no second one.
LEMMA FirstPass ==
    ASSUME NEW x \in Forms, NEW first, Basic(x), NEW early \in SUBSET Fields, NEW late,
           TwoPasses(early, late)
    PROVE  SettledOn(early, Pass(x, first))
<1>. DEFINE y == Pass(x, first)
<1>1. y.val = x.val /\ Basic(y)
  BY PassOver, PassBasic
<1>2. ASSUME NEW f \in early
      PROVE  f \in y.shown <=> Satisfied(f, y)
  <2>1. PICK z \in Forms :
          /\ z.val = x.val
          /\ f \in y.shown <=> Satisfied(f, z)
          /\ \A g \in Fields :
               g \in z.shown <=> IF Before(g, f) THEN g \in y.shown ELSE g \in x.shown
    BY PassOver
  <2>. HIDE DEF y
  <2>2. ASSUME NEW g \in Fields, DependsOn(f, g)
        PROVE  g \in z.shown <=> g \in y.shown
    <3>1. CASE Deps[g] = {}
      BY <1>1, <2>1, <3>1 DEF Basic
    <3>2. CASE Deps[g] # {}
      <4>1. Before(g, f)
        BY <2>2, <3>2 DEF TwoPasses
      <4>. QED BY <2>1, <4>1
    <3>. QED BY <3>1, <3>2
  <2>3. Satisfied(f, z) <=> Satisfied(f, y)
    BY <1>1, <2>1, <2>2, SameNeeds
  <2>. QED BY <2>1, <2>3
<1>. QED BY <1>2 DEF SettledOn

\* The next one settles those that do, and leaves the former as they are.
LEMMA SecondPass ==
    ASSUME NEW x \in Forms, NEW first, Basic(x), NEW early \in SUBSET Fields,
           NEW late \in SUBSET Fields, TwoPasses(early, late), SettledOn(early, x)
    PROVE  SettledOn(early \cup late, Pass(x, first))
<1>. DEFINE y == Pass(x, first)
            A == early
            H == {f \in Fields : f \in y.shown <=> f \in x.shown}
<1>1. y.val = x.val /\ Basic(y)
  BY PassOver, PassBasic
<1>2. ASSUME NEW f \in Fields
      PROVE  \E z \in Forms :
               /\ z.val = x.val
               /\ f \in y.shown <=> Satisfied(f, z)
               /\ \A g \in Fields :
                    g \in z.shown <=> IF Before(g, f) THEN g \in y.shown ELSE g \in x.shown
  BY PassOver
<1>. HIDE DEF y
<1>3. ASSUME NEW f \in A, \A g \in A : Before(g, f) => g \in H
      PROVE  f \in H
  <2>1. PICK z \in Forms :
          /\ z.val = x.val
          /\ f \in y.shown <=> Satisfied(f, z)
          /\ \A g \in Fields :
               g \in z.shown <=> IF Before(g, f) THEN g \in y.shown ELSE g \in x.shown
    BY <1>2
  <2>2. ASSUME NEW g \in Fields, DependsOn(f, g)
        PROVE  g \in z.shown <=> g \in x.shown
    <3>1. CASE Deps[g] = {}
      BY <1>1, <2>1, <3>1 DEF Basic
    <3>2. CASE Deps[g] # {}
      <4>1. g \in A
        BY <2>2, <3>2 DEF TwoPasses
      <4>. QED BY <1>3, <2>1, <4>1
    <3>. QED BY <3>1, <3>2
  <2>3. Satisfied(f, z) <=> Satisfied(f, x)
    BY <2>1, <2>2, SameNeeds
  <2>. QED BY <2>1, <2>3 DEF SettledOn
<1>4. A \subseteq H
  <2>. HIDE DEF H
  <2>1. A \in SUBSET Fields
    OBVIOUS
  <2>2. \A f \in A : (\A g \in A : Before(g, f) => g \in H) => f \in H
    BY <1>3
  <2>. HIDE DEF A
  <2>. QED BY <2>1, <2>2, InOrder
<1>5. ASSUME NEW f \in early \cup late
      PROVE  f \in y.shown <=> Satisfied(f, y)
  <2>1. PICK z \in Forms :
          /\ z.val = x.val
          /\ f \in y.shown <=> Satisfied(f, z)
          /\ \A g \in Fields :
               g \in z.shown <=> IF Before(g, f) THEN g \in y.shown ELSE g \in x.shown
    BY <1>2
  <2>2. ASSUME NEW g \in Fields, DependsOn(f, g)
        PROVE  g \in z.shown <=> g \in y.shown
    <3>1. CASE Deps[g] = {}
      BY <1>1, <2>1, <3>1 DEF Basic
    <3>2. CASE Deps[g] # {} /\ ~ Before(g, f)
      <4>1. g \in A
        BY <1>5, <2>2, <3>2 DEF TwoPasses
      <4>. QED BY <1>4, <2>1, <3>2, <4>1
    <3>3. CASE Before(g, f)
      BY <2>1, <3>3
    <3>. QED BY <3>1, <3>2, <3>3
  <2>3. Satisfied(f, z) <=> Satisfied(f, y)
    BY <1>1, <2>1, <2>2, SameNeeds
  <2>. QED BY <2>1, <2>3
<1>. QED BY <1>5 DEF SettledOn, y

\* A pass that shows the same fields as before leaves nothing to settle.
LEMMA Unchanged ==
    ASSUME NEW x \in Forms, NEW first, Pass(x, first).shown = x.shown
    PROVE  SettledOn(Fields, Pass(x, first))
<1>. DEFINE y == Pass(x, first)
<1>1. ASSUME NEW f \in Fields
      PROVE  f \in y.shown <=> Satisfied(f, y)
  <2>1. PICK z \in Forms :
          /\ z.val = x.val
          /\ f \in y.shown <=> Satisfied(f, z)
          /\ \A g \in Fields :
               g \in z.shown <=> IF Before(g, f) THEN g \in y.shown ELSE g \in x.shown
    BY ONLY PassOver, x \in Forms, f \in Fields
  <2>2. y.val = x.val /\ y.shown = x.shown
    BY PassOver
  <2>. HIDE DEF y
  <2>3. \A g \in Fields : g \in z.shown <=> g \in y.shown
    BY <2>1, <2>2
  <2>4. Satisfied(f, z) <=> Satisfied(f, y)
    BY <2>1, <2>2, <2>3, SameNeeds
  <2>. QED BY <2>1, <2>4
<1>. QED BY <1>1 DEF SettledOn

\* checkDepends settles the fields for which two passes are enough.
LEMMA ChecksSettle ==
    ASSUME NEW x \in Forms, Basic(x)
    PROVE  /\ CheckDepends(x) \in Forms
           /\ CheckDepends(x).val = x.val
           /\ Basic(CheckDepends(x))
           /\ SettledOn(Quick, CheckDepends(x))
<1>. DEFINE p == Pass(x, TRUE)
<1>1. p \in Forms /\ p.val = x.val /\ Basic(p)
  BY PassOver, PassBasic
<1>2. CASE p.shown = x.shown
  <2>1. SettledOn(Fields, p)
    BY <1>2, Unchanged
  <2>2. CheckDepends(x) = p
    BY <1>2 DEF CheckDepends
  <2>3. Quick \subseteq Fields
    BY DEF Quick
  <2>. QED BY <1>1, <2>1, <2>2, <2>3 DEF SettledOn
<1>3. CASE p.shown # x.shown
  <2>1. CheckDepends(x) = Pass(p, FALSE)
    BY <1>3 DEF CheckDepends
  <2>. DEFINE q == Pass(p, FALSE)
  <2>2. ASSUME NEW f \in Quick
        PROVE  f \in q.shown <=> Satisfied(f, q)
    <3>1. PICK early \in SUBSET Fields, late \in SUBSET Fields :
            f \in early \cup late /\ TwoPasses(early, late)
      BY DEF Quick
    <3>2. SettledOn(early, p)
      BY <3>1, FirstPass
    <3>. HIDE DEF p
    <3>3. SettledOn(early \cup late, Pass(p, FALSE))
      BY <1>1, <3>1, <3>2, SecondPass
    <3>. QED BY <3>1, <3>3 DEF SettledOn
  <2>. HIDE DEF p
  <2>3. Pass(p, FALSE) \in Forms /\ Pass(p, FALSE).val = p.val /\ Basic(Pass(p, FALSE))
    BY <1>1, PassOver, PassBasic
  <2>. QED BY <1>1, <2>1, <2>2, <2>3 DEF SettledOn
<1>. QED BY <1>2, <1>3

\* Once they are settled a pass leaves these fields as they are.
LEMMA QuickKept ==
    ASSUME NEW x \in Forms, NEW first, Basic(x), SettledOn(Quick, x)
    PROVE  /\ \A f \in Quick : f \in Pass(x, first).shown <=> f \in x.shown
           /\ SettledOn(Quick, Pass(x, first))
<1>. DEFINE y == Pass(x, first)
            H == {f \in Fields : f \in y.shown <=> f \in x.shown}
<1>1. y.val = x.val /\ Basic(y)
  BY PassOver, PassBasic
<1>2. Quick \in SUBSET Fields
  BY DEF Quick
<1>3. ASSUME NEW f \in Quick, \A g \in Quick : Before(g, f) => g \in H
      PROVE  f \in H
  <2>1. PICK z \in Forms :
          /\ z.val = x.val
          /\ f \in y.shown <=> Satisfied(f, z)
          /\ \A g \in Fields :
               g \in z.shown <=> IF Before(g, f) THEN g \in y.shown ELSE g \in x.shown
    BY <1>2, PassOver
  <2>. HIDE DEF y
  <2>2. ASSUME NEW g \in Fields, DependsOn(f, g)
        PROVE  g \in z.shown <=> g \in x.shown
    <3>1. CASE Deps[g] = {}
      BY <1>1, <2>1, <3>1 DEF Basic
    <3>2. CASE Deps[g] # {}
      <4>1. g \in Quick
        BY <2>2, <3>2, QuickClosed
      <4>. QED BY <1>3, <2>1, <4>1
    <3>. QED BY <3>1, <3>2
  <2>3. Satisfied(f, z) <=> Satisfied(f, x)
    BY <1>2, <2>1, <2>2, SameNeeds
  <2>. QED BY <1>2, <2>1, <2>3 DEF SettledOn
<1>4. Quick \subseteq H
  <2>1. \A f \in Quick : (\A g \in Quick : Before(g, f) => g \in H) => f \in H
    BY <1>3
  <2>. HIDE DEF H
  <2>. QED BY <1>2, <2>1, InOrder
<1>5. ASSUME NEW f \in Quick
      PROVE  f \in y.shown <=> Satisfied(f, y)
  <2>1. ASSUME NEW g \in Fields, DependsOn(f, g)
        PROVE  g \in x.shown <=> g \in y.shown
    <3>. HIDE DEF y
    <3>1. CASE Deps[g] = {}
      BY <1>1, <3>1 DEF Basic
    <3>2. CASE Deps[g] # {}
      <4>1. g \in Quick
        BY <2>1, <3>2, QuickClosed
      <4>. QED BY <1>4, <4>1
    <3>. QED BY <3>1, <3>2
  <2>. HIDE DEF y
  <2>2. Satisfied(f, x) <=> Satisfied(f, y)
    BY <1>1, <1>2, <2>1, SameNeeds
  <2>3. f \in y.shown <=> f \in x.shown
    BY <1>4
  <2>. QED BY <2>2, <2>3 DEF SettledOn
<1>. QED BY <1>4, <1>5 DEF SettledOn

\* Checked once more they stay as they are, and those that are shown have been
\* validated.
LEMMA ChecksAll ==
    ASSUME NEW x \in Forms, Basic(x), SettledOn(Quick, x)
    PROVE  \A f \in Quick :
             /\ f \in CheckDepends(x).shown <=> f \in x.shown
             /\ f \in CheckDepends(x).shown =>
                  (f \in CheckDepends(x).bad <=> Fails(f, x.val))
<1>. DEFINE p == Pass(x, TRUE)
<1>1. p \in Forms /\ p.val = x.val /\ Basic(p)
  BY PassOver, PassBasic
<1>2. /\ \A f \in Quick : f \in p.shown <=> f \in x.shown
      /\ SettledOn(Quick, p)
  BY QuickKept
<1>3. Quick \subseteq Fields
  BY DEF Quick
<1>4. \A f \in Fields : f \in p.bad <=> IF TRUE /\ f \in p.shown THEN Fails(f, x.val) ELSE f \in x.bad
  BY PassOver
<1>5. CASE p.shown = x.shown
  <2>1. CheckDepends(x) = p
    BY <1>5 DEF CheckDepends
  <2>. HIDE DEF p
  <2>. QED BY <1>2, <1>3, <1>4, <2>1
<1>6. CASE p.shown # x.shown
  <2>1. CheckDepends(x) = Pass(p, FALSE)
    BY <1>6 DEF CheckDepends
  <2>. HIDE DEF p
  <2>2. \A f \in Quick : f \in Pass(p, FALSE).shown <=> f \in p.shown
    BY <1>1, <1>2, QuickKept
  <2>3. \A f \in Fields : f \in Pass(p, FALSE).bad <=>
          IF FALSE /\ f \in Pass(p, FALSE).shown THEN Fails(f, p.val) ELSE f \in p.bad
    BY <1>1, PassOver
  <2>. QED BY <1>2, <1>3, <1>4, <2>1, <2>2, <2>3
<1>. QED BY <1>5, <1>6

-----------------------------------------------------------------------------
(* What is written.                                                        *)

\* A form with nothing in it, and a section with no options.
LEMMA Empties == Empty \in Values /\ NoForm \in Forms /\ NoOptions \in Contents
<1>1. Empty \in Values
  BY DEF Values
<1>2. NoOptions \in Contents
  BY <1>1 DEF NoOptions, Contents
<1>3. [f \in Fields |-> Empty] \in [Fields -> Values]
  BY <1>1
<1>4. NoForm \in Forms
  BY <1>3 DEF NoForm, Forms
<1>. QED BY <1>1, <1>2, <1>4

\* A field writes a value or unsets its option.
LEMMA ParseFieldType ==
    ASSUME NEW form \in Forms, NEW cache, NEW f \in Fields, NEW cfg \in Contents
    PROVE  ParseField(cfg, f, form, cache) \in Contents
<1>1. Opt[f] \in Opts /\ form.val[f] \in Values
  BY DEF Opts, Forms
<1>2. \A v \in Values : [cfg EXCEPT ![Opt[f]] = v] \in Contents
  BY <1>1 DEF Contents
<1>. QED BY <1>1, <1>2, Empties DEF ParseField

\* The contents of a parse(), from those that it is given to those that it makes.
Writes(form, cache, cfg, v) ==
    /\ v \in [0..Len(Order) -> Contents]
    /\ v[0] = cfg
    /\ \A i \in 1..Len(Order) : v[i] = ParseField(v[i - 1], Order[i], form, cache)

\* parse() lets the fields write one after another.
LEMMA ParsedBy ==
    ASSUME NEW form \in Forms, NEW cache, NEW cfg \in Contents
    PROVE  \E v : Writes(form, cache, cfg, v) /\ Parsed(form, cache, cfg) = v[Len(Order)]
<1>. DEFINE N == Len(Order)
            step == [i \in 1..N |-> [c \in Contents |-> ParseField(c, Order[i], form, cache)]]
            After(f) == f = [i \in 0..N |-> IF i = 0 THEN cfg
                                            ELSE ParseField(f[i - 1], Order[i], form, cache)]
            v == CHOOSE f : After(f)
<1>1. N \in Nat
  BY Ordered
<1>2. step \in [1..N -> [Contents -> Contents]]
  BY Ordered, ParseFieldType
<1>3. Parsed(form, cache, cfg) = v[N]
  BY DEF Parsed
<1>4. \E f : After(f)
  <2>1. PICK f : Takes(f, N, Contents, cfg, step)
    <3>. HIDE DEF step, N
    <3>. QED BY <1>1, <1>2, Steps
  <2>2. ASSUME NEW i \in 0..N
        PROVE  f[i] = IF i = 0 THEN cfg ELSE ParseField(f[i - 1], Order[i], form, cache)
    <3>1. CASE i # 0
      <4>1. i \in 1..N /\ i - 1 \in 0..N
        BY <1>1, <3>1
      <4>2. f[i] = step[i][f[i - 1]] /\ f[i - 1] \in Contents
        BY <2>1, <4>1 DEF Takes
      <4>. QED BY <3>1, <4>1, <4>2
    <3>. QED BY <2>1, <3>1 DEF Takes
  <2>3. f = [i \in 0..N |-> f[i]]
    BY <2>1 DEF Takes
  <2>4. f = [i \in 0..N |-> IF i = 0 THEN cfg ELSE ParseField(f[i - 1], Order[i], form, cache)]
    BY <2>2, <2>3
  <2>. QED BY <2>4
<1>5. After(v)
  BY <1>4
<1>. HIDE DEF v
<1>6. v = [i \in 0..N |-> IF i = 0 THEN cfg ELSE ParseField(v[i - 1], Order[i], form, cache)]
  BY <1>5
<1>7. v[0] = cfg /\ \A i \in 1..N : v[i] = ParseField(v[i - 1], Order[i], form, cache)
  BY <1>1, <1>6
<1>8. ASSUME NEW i \in 1..N, v[i - 1] \in Contents
      PROVE  v[i] \in Contents
  <2>1. v[i] = ParseField(v[i - 1], Order[i], form, cache) /\ Order[i] \in Fields
    BY <1>7, Ordered
  <2>2. ParseField(v[i - 1], Order[i], form, cache) \in Contents
    BY ONLY <1>8, <2>1, ParseFieldType, form \in Forms
  <2>. QED BY <2>1, <2>2
<1>9. \A i \in 0..N : v[i] \in Contents
  <2>1. \A i \in 1..N : v[i - 1] \in Contents => v[i] \in Contents
    BY <1>8
  <2>. HIDE DEF N
  <2>. QED BY <1>1, <1>7, <2>1, Stays
<1>10. v \in [0..N -> Contents]
  BY <1>6, <1>9
<1>. QED BY <1>3, <1>7, <1>10 DEF Writes

\* What parse() makes of the options of a section are such options.
LEMMA ParsedType ==
    ASSUME NEW form \in Forms, NEW cache, NEW cfg \in Contents
    PROVE  Parsed(form, cache, cfg) \in Contents
<1>1. PICK v : Writes(form, cache, cfg, v) /\ Parsed(form, cache, cfg) = v[Len(Order)]
  BY ParsedBy
<1>. QED BY <1>1, Ordered DEF Writes

-----------------------------------------------------------------------------
(* Types.                                                                  *)

\* What the type invariant leaves open of the save that is under way.
Types ==
    /\ TypeOK
    /\ saving # NoSave => \A s \in DOMAIN saving.sent : saving.sent[s] \in Contents

\* A form that was checked is a form.
LEMMA CheckDependsType ==
    ASSUME NEW x \in Forms
    PROVE  CheckDepends(x) \in Forms
<1>1. Pass(x, TRUE) \in Forms
  BY PassOver
<1>2. Pass(Pass(x, TRUE), FALSE) \in Forms
  <2>. DEFINE p == Pass(x, TRUE)
  <2>. HIDE DEF p
  <2>1. p \in Forms => Pass(p, FALSE) \in Forms
    BY PassOver
  <2>. QED BY <1>1, <2>1 DEF p
<1>. QED BY <1>1, <1>2 DEF CheckDepends

\* A form is rendered with contents, and settled where two passes are enough.
LEMMA RenderType ==
    ASSUME NEW cache \in Contents
    PROVE  /\ Render(cache) \in Forms
           /\ Basic(Render(cache)) /\ SettledOn(Quick, Render(cache))
<1>. DEFINE x == [val |-> [f \in Fields |->
                     IF cache[Opt[f]] = Empty THEN Default[f] ELSE cache[Opt[f]]],
                  shown |-> {f \in Fields : Deps[f] = {}}, bad |-> {}]
<1>1. \A f \in Fields : Default[f] \in Values /\ cache[Opt[f]] \in Values
  BY DEF Values, Contents, Opts
<1>2. x \in Forms /\ Basic(x)
  BY <1>1 DEF Forms, Basic
<1>3. Render(cache) = CheckDepends(x)
  BY DEF Render
<1>. HIDE DEF x
<1>. QED BY <1>2, <1>3, CheckDependsType, ChecksSettle

\* What the server makes of a save are sections with contents.
LEMMA StagedType ==
    ASSUME Types, saving # NoSave, NEW m \in Namings
    PROVE  /\ DOMAIN Staged(m) \subseteq Names
           /\ \A s \in DOMAIN Staged(m) : Staged(m)[s] \in Contents
           /\ \A s \in DOMAIN Staged(m) :
                s \in DOMAIN saving.sent => Staged(m)[s] = saving.sent[s]
<1>. DEFINE base == Drop(server, saving.gone)
            named == {m[t] : t \in AddedOnly(saving.sent)}
            who(s) == CHOOSE t \in DOMAIN m : m[t] = s
<1>1. m \in [AddedOnly(saving.sent) -> News \ (DOMAIN server \cup DOMAIN saving.sent)]
  BY DEF Namings
<1>2. DOMAIN m = AddedOnly(saving.sent) /\ named \subseteq News /\ named \cap DOMAIN saving.sent = {}
  BY <1>1
<1>3. DOMAIN base \subseteq Names /\ \A s \in DOMAIN base : base[s] \in Contents
  BY DEF Types, TypeOK, Drop
<1>4. ASSUME NEW s \in named
      PROVE  who(s) \in DOMAIN saving.sent
  <2>1. \E t \in DOMAIN m : m[t] = s
    BY <1>2
  <2>2. who(s) \in DOMAIN m
    BY <2>1
  <2>. QED BY <1>2, <2>2 DEF AddedOnly
<1>5. /\ DOMAIN Staged(m) = DOMAIN base \cup named
      /\ \A s \in DOMAIN base \cup named :
           Staged(m)[s] = IF s \in named THEN saving.sent[who(s)]
                          ELSE IF s \in DOMAIN saving.sent THEN saving.sent[s] ELSE base[s]
  BY DEF Staged
<1>6. \A s \in DOMAIN saving.sent : saving.sent[s] \in Contents
  BY DEF Types
<1>. HIDE DEF base, named, who
<1>7. DOMAIN Staged(m) \subseteq Names
  BY <1>2, <1>3, <1>5 DEF Names
<1>8. ASSUME NEW s \in DOMAIN Staged(m)
      PROVE  Staged(m)[s] \in Contents /\ (s \in DOMAIN saving.sent => Staged(m)[s] = saving.sent[s])
  <2>1. CASE s \in named
    BY <1>2, <1>4, <1>5, <1>6, <2>1
  <2>2. CASE s \notin named
    BY <1>3, <1>5, <1>6, <1>8, <2>2
  <2>. QED BY <2>1, <2>2
<1>. QED BY <1>7, <1>8

\* At first the page has what the server has.
LEMMA InitTypes == Init => Types
<1>. SUFFICES ASSUME Init PROVE Types
  OBVIOUS
<1>1. /\ DOMAIN server = Existing /\ local = server
      /\ \A s \in Existing : server[s] \in Contents
  BY InitialAssumption DEF Init
<1>2. opening \in [Sids -> 0..clicks]
  BY BoundsAssumption DEF Init
<1>. QED BY <1>1, <1>2, BoundsAssumption DEF Init, Types, TypeOK, Names, Sids

\* A click may ask for one more dialog.
LEMMA AskedTypes ==
    ASSUME TypeOK, Click, NEW s \in Sids, Asked(s) \/ UNCHANGED opening
    PROVE  clicks' \in 0..MaxClicks /\ opening' \in [Sids -> 0..clicks']
<1>1. clicks \in Nat /\ clicks < MaxClicks /\ clicks' = clicks + 1 /\ MaxClicks \in Nat
  BY BoundsAssumption DEF Click, TypeOK
<1>2. opening \in [Sids -> 0..clicks]
  BY DEF TypeOK
<1>3. opening[s] + 1 \in 0..(clicks + 1) /\ opening \in [Sids -> 0..(clicks + 1)]
  BY <1>1, <1>2
<1>4. opening' \in [Sids -> 0..(clicks + 1)]
  BY <1>3 DEF Asked
<1>. QED BY <1>1, <1>4

\* A dialog that was asked for comes, or does not.
LEMMA OneLess ==
    ASSUME TypeOK, NEW s \in Sids, opening[s] > 0
    PROVE  [opening EXCEPT ![s] = @ - 1] \in [Sids -> 0..clicks]
<1>1. opening \in [Sids -> 0..clicks] /\ clicks \in Nat
  BY DEF TypeOK
<1>2. opening[s] - 1 \in 0..clicks
  BY <1>1
<1>. QED BY <1>1, <1>2

\* Add.
LEMMA AddRowTypes == ASSUME Types, NEW t \in Temps, AddRow(t) PROVE Types'
<1>1. DOMAIN local' = DOMAIN local \cup {t} /\ \A s \in DOMAIN local' : local'[s] \in Contents
  BY Empties DEF AddRow, Types, TypeOK
<1>2. removed' \subseteq Names \ DOMAIN local'
  BY <1>1, NamesAssumption DEF AddRow, Types, TypeOK, Names
<1>3. clicks' \in 0..MaxClicks /\ opening' \in [Sids -> 0..clicks']
  BY AskedTypes DEF AddRow, Types, Sids
<1>4. orphans' \subseteq Temps
  BY DEF AddRow, AddedOnly, Types, TypeOK
<1>. QED BY <1>1, <1>2, <1>3, <1>4 DEF AddRow, Types, TypeOK, Sids

\* Edit.
LEMMA EditRowTypes == ASSUME Types, NEW s \in Sids, EditRow(s) PROVE Types'
<1>1. clicks' \in 0..MaxClicks /\ opening' \in [Sids -> 0..clicks']
  BY AskedTypes DEF EditRow, Types
<1>. QED BY <1>1 DEF EditRow, Types, TypeOK

\* A dialog comes.
LEMMA OpensTypes == ASSUME Types, NEW s \in Sids, Opens(s) PROVE Types'
<1>. DEFINE cache == IF Present(s) THEN local[s] ELSE NoOptions
            form == IF Present(s) THEN Render(cache) ELSE NoForm
<1>1. cache \in Contents
  BY Empties DEF Types, TypeOK, Present
<1>2. dialog' = [sid |-> s, cache |-> cache, stale |-> FALSE, form |-> form]
  BY DEF Opens
<1>3. form \in Forms
  <2>. HIDE DEF cache
  <2>. QED BY <1>1, RenderType, Empties
<1>. HIDE DEF cache, form
<1>4. dialog' \in Dialogs
  BY <1>1, <1>2, <1>3 DEF Dialogs
<1>5. opening' \in [Sids -> 0..clicks]
  BY OneLess DEF Opens, Types
<1>. QED BY <1>4, <1>5 DEF Opens, Types, TypeOK

\* A dialog does not come.
LEMMA OpenFailsTypes == ASSUME Types, NEW s \in Sids, OpenFails(s) PROVE Types'
<1>1. failures' \in 0..MaxFailures
  BY BoundsAssumption DEF OpenFails, Types, TypeOK
<1>2. opening' \in [Sids -> 0..clicks]
  BY OneLess DEF OpenFails, Types
<1>. QED BY <1>1, <1>2 DEF OpenFails, Types, TypeOK

\* The user changes a field.
LEMMA TypeTypes == ASSUME Types, NEW f \in Fields, NEW v \in Entries[f], Type(f, v) PROVE Types'
<1>. DEFINE x == [dialog.form EXCEPT !.val[f] = v]
<1>1. dialog \in Dialogs /\ dialog.form \in Forms
  BY DEF Type, Types, TypeOK, Dialogs
<1>2. x \in Forms
  BY <1>1 DEF Forms, Values
<1>3. dialog' = [dialog EXCEPT !.form = CheckDepends(x)]
  BY DEF Type
<1>. HIDE DEF x
<1>4. dialog' \in Dialogs
  BY <1>1, <1>2, <1>3, CheckDependsType DEF Dialogs
<1>. QED BY <1>4 DEF Type, Types, TypeOK

\* Dismiss.
LEMMA DismissTypes == ASSUME Types, Dismiss PROVE Types'
<1>1. local' = Drop(local, {added})
  BY DEF Dismiss
<1>2. /\ DOMAIN local' = DOMAIN local \ {added} /\ DOMAIN local' \subseteq Sids
      /\ \A s \in DOMAIN local' : local'[s] \in Contents
  BY <1>1 DEF Types, TypeOK, Drop
<1>. QED BY <1>2 DEF Dismiss, Types, TypeOK

\* Saves.
LEMMA SaveDialogTypes == ASSUME Types, SaveDialog PROVE Types'
<1>. DEFINE form == IF dialog.form = NoForm THEN NoForm ELSE Checked(dialog.form)
            s == dialog.sid
<1>1. dialog \in Dialogs /\ dialog.form \in Forms /\ s \in Sids
  BY DEF SaveDialog, Types, TypeOK, Dialogs
<1>2. form \in Forms
  BY <1>1, Empties, CheckDependsType DEF Checked
<1>3. /\ local' = IF Present(s) /\ dialog.form # NoForm
                  THEN [local EXCEPT ![s] = Parsed(form, dialog.cache, @)] ELSE local
      /\ dialog' = [dialog EXCEPT !.form = form, !.stale = @ \/ Refused(form)]
      /\ IF Refused(form) THEN UNCHANGED saving ELSE Send(s)
  BY DEF SaveDialog
<1>. HIDE DEF form, s
<1>4. dialog' \in Dialogs
  <2>1. (dialog.stale \/ Refused(form)) \in BOOLEAN
    BY <1>1 DEF Refused, Dialogs
  <2>. QED BY <1>1, <1>2, <1>3, <2>1 DEF Dialogs
<1>5. DOMAIN local' = DOMAIN local /\ \A r \in DOMAIN local' : local'[r] \in Contents
  <2>1. CASE Present(s) /\ dialog.form # NoForm
    <3>1. local[s] \in Contents
      BY <2>1 DEF Types, TypeOK, Present
    <3>2. Parsed(form, dialog.cache, local[s]) \in Contents
      BY <1>2, <3>1, ParsedType
    <3>. QED BY <1>3, <2>1, <3>2 DEF Types, TypeOK
  <2>2. CASE ~ (Present(s) /\ dialog.form # NoForm)
    BY <1>3, <2>2 DEF Types, TypeOK
  <2>. QED BY <2>1, <2>2
<1>6. DOMAIN local' \subseteq Sids /\ removed' \subseteq Names \ DOMAIN local'
  BY <1>5 DEF SaveDialog, Types, TypeOK
<1>7. CASE Refused(form)
  BY <1>3, <1>4, <1>5, <1>6, <1>7 DEF SaveDialog, Types, TypeOK
<1>8. CASE ~ Refused(form)
  <2>1. Send(s)
    BY <1>3, <1>8
  <2>2. /\ saving'.by \in Sids \cup {"page"}
        /\ DOMAIN saving'.sent \subseteq Sids
        /\ saving'.gone \subseteq Names \ DOMAIN saving'.sent
        /\ \A r \in DOMAIN saving'.sent : saving'.sent[r] \in Contents
    BY <1>1, <1>5, <1>6, <2>1 DEF Send
  <2>. QED BY <1>4, <1>5, <1>6, <2>2 DEF SaveDialog, Types, TypeOK
<1>. QED BY <1>7, <1>8

\* Delete.
LEMMA RemoveRowTypes == ASSUME Types, NEW s \in Sids, RemoveRow(s) PROVE Types'
<1>1. local' = Drop(local, {s}) /\ removed' = removed \cup ({s} \cap Names) /\ Send("page")
  BY DEF RemoveRow
<1>2. /\ DOMAIN local' = DOMAIN local \ {s} /\ DOMAIN local' \subseteq Sids
      /\ \A r \in DOMAIN local' : local'[r] \in Contents
  BY <1>1 DEF Types, TypeOK, Drop
<1>3. removed' \subseteq Names \ DOMAIN local'
  BY <1>1, <1>2 DEF Types, TypeOK
<1>4. /\ saving'.by \in Sids \cup {"page"}
      /\ DOMAIN saving'.sent \subseteq Sids
      /\ saving'.gone \subseteq Names \ DOMAIN saving'.sent
      /\ \A r \in DOMAIN saving'.sent : saving'.sent[r] \in Contents
  BY <1>1, <1>2, <1>3 DEF Send
<1>5. clicks' \in 0..MaxClicks
  BY BoundsAssumption DEF RemoveRow, Click, Types, TypeOK
<1>6. opening' \in [Sids -> 0..clicks']
  <2>. USE BoundsAssumption
  <2>1. clicks \in Nat /\ clicks' = clicks + 1 /\ opening' = opening /\ opening \in [Sids -> 0..clicks]
    BY DEF RemoveRow, Click, Types, TypeOK
  <2>. QED BY <2>1
<1>. QED BY <1>6, <1>2, <1>3, <1>4, <1>5 DEF RemoveRow, Types, TypeOK

\* Save, on the page.
LEMMA SavePageTypes == ASSUME Types, SavePage PROVE Types'
<1>1. local' = local /\ removed' = removed /\ Send("page")
  BY DEF SavePage
<1>2. /\ saving'.by \in Sids \cup {"page"}
      /\ DOMAIN saving'.sent \subseteq Sids
      /\ saving'.gone \subseteq Names \ DOMAIN saving'.sent
      /\ \A r \in DOMAIN saving'.sent : saving'.sent[r] \in Contents
  BY <1>1 DEF Send, Types, TypeOK
<1>3. clicks' \in 0..MaxClicks
  BY BoundsAssumption DEF SavePage, Click, Types, TypeOK
<1>6. opening' \in [Sids -> 0..clicks']
  <2>. USE BoundsAssumption
  <2>1. clicks \in Nat /\ clicks' = clicks + 1 /\ opening' = opening /\ opening \in [Sids -> 0..clicks]
    BY DEF SavePage, Click, Types, TypeOK
  <2>. QED BY <2>1
<1>. QED BY <1>6, <1>1, <1>2, <1>3 DEF SavePage, Types, TypeOK

\* A save succeeds.
LEMMA SaveDoneTypes == ASSUME Types, SaveDone PROVE Types'
<1>1. PICK m \in Namings : server' = Staged(m)
  BY DEF SaveDone
<1>2. DOMAIN server' \subseteq Names /\ \A s \in DOMAIN server' : server'[s] \in Contents
  BY <1>1, StagedType DEF SaveDone
<1>3. local' = server' /\ removed' = {} /\ saving' = NoSave
  BY DEF SaveDone
<1>4. added' \in Temps \cup {None} /\ (dialog' = NoDialog \/ dialog' \in Dialogs)
  BY DEF SaveDone, Types, TypeOK
<1>. QED BY <1>2, <1>3, <1>4 DEF SaveDone, Types, TypeOK, Sids

\* A save fails.
LEMMA SaveFailsTypes == ASSUME Types, SaveFails PROVE Types'
<1>1. DOMAIN server' \subseteq Names /\ \A s \in DOMAIN server' : server'[s] \in Contents
  <2>1. CASE UNCHANGED server
    BY <2>1 DEF Types, TypeOK
  <2>2. CASE \E m \in Namings : server' = Staged(m)
    BY <2>2, StagedType DEF SaveFails
  <2>. QED BY <2>1, <2>2 DEF SaveFails
<1>2. dialog' = NoDialog \/ dialog' \in Dialogs
  BY DEF SaveFails, Types, TypeOK, Dialogs
<1>3. failures' \in 0..MaxFailures
  BY BoundsAssumption DEF SaveFails, Types, TypeOK
<1>4. saving' = NoSave
  BY DEF SaveFails
<1>. QED BY <1>1, <1>2, <1>3, <1>4 DEF SaveFails, Types, TypeOK

\* Every step keeps the types.
LEMMA NextTypes == Types /\ [Next]_vars => Types'
<1>. SUFFICES ASSUME Types, [Next]_vars PROVE Types'
  OBVIOUS
<1>1. CASE Rows
  BY <1>1, AddRowTypes, EditRowTypes, RemoveRowTypes, SavePageTypes DEF Rows
<1>2. CASE DialogStep
  BY <1>2, OpensTypes, OpenFailsTypes, TypeTypes, DismissTypes, SaveDialogTypes DEF DialogStep
<1>3. CASE SaveDone
  BY <1>3, SaveDoneTypes
<1>4. CASE SaveFails
  BY <1>4, SaveFailsTypes
<1>5. CASE UNCHANGED vars
  BY <1>5 DEF vars, Types, TypeOK, NoSave
<1>. QED BY <1>1, <1>2, <1>3, <1>4, <1>5 DEF Next

\* The types of everything, the sections of a save included, hold always.
THEOREM AlwaysTypes == Spec => []Types
BY InitTypes, NextTypes, PTL DEF Spec

\* The variables of the page and its dialogs have their types, whatever the fields are,
\* what they depend on, and however many sections and dialogs there are.
THEOREM TypeCorrect == Spec => []TypeOK
<1>1. Types => TypeOK
  BY DEF Types
<1>. QED BY <1>1, AlwaysTypes, PTL

-----------------------------------------------------------------------------
(* Nothing is left behind.                                                 *)

\* A dialog stays one when some of it changes.
LEMMA IsDialog == \A d \in Dialogs : d.sid \in Sids /\ d # NoDialog
BY NamesAssumption DEF Dialogs, NoDialog, Sids, Names

\* At first nothing has been added.
LEMMA LeftInit == Init => NothingLeftBehind
BY NamesAssumption DEF Init, NothingLeftBehind, AddedOnly

\* Inductive as it stands, with the types: the only section in question is the one that
\* the page remembers, and another Add counts it as overtaken.
LEMMA LeftNext ==
    ASSUME Types, Types', NothingLeftBehind, [Next]_vars
    PROVE  NothingLeftBehind'
<1>1. \A t \in AddedOnly(local) \ orphans : t = added /\ (dialog # NoDialog \/ opening[t] > 0)
  BY DEF NothingLeftBehind
<1>2. ASSUME NEW t \in Temps, AddRow(t)
      PROVE  NothingLeftBehind'
  <2>1. DOMAIN local' = DOMAIN local \cup {t}
    BY <1>2 DEF AddRow
  <2>2. AddedOnly(local) \ orphans \subseteq {added}
    BY <1>1
  <2>3. AddedOnly(local') \ orphans' \subseteq {t}
    BY <1>2, <2>1, <2>2 DEF AddRow, AddedOnly
  <2>4. opening'[t] > 0
    <3>1. opening \in [Sids -> 0..clicks] /\ t \in Sids /\ clicks \in Nat
      BY DEF Types, TypeOK, Sids
    <3>. QED BY <1>2, <3>1 DEF AddRow, Asked
  <2>. QED BY <1>2, <2>3, <2>4 DEF AddRow, NothingLeftBehind
<1>3. ASSUME NEW s \in Sids, EditRow(s)
      PROVE  NothingLeftBehind'
  <2>1. opening \in [Sids -> 0..clicks] /\ clicks \in Nat /\ Temps \subseteq Sids
    BY DEF Types, TypeOK, Sids
  <2>2. \A t \in Temps : opening[t] > 0 => opening'[t] > 0
    BY <1>3, <2>1 DEF EditRow, Asked
  <2>. QED BY <1>1, <1>3, <2>2 DEF EditRow, NothingLeftBehind, AddedOnly
<1>4. ASSUME NEW s \in Sids, RemoveRow(s)
      PROVE  NothingLeftBehind'
  <2>1. AddedOnly(local') \subseteq AddedOnly(local)
    BY <1>4 DEF RemoveRow, AddedOnly, Drop
  <2>. QED BY <1>1, <1>4, <2>1 DEF RemoveRow, NothingLeftBehind
<1>5. ASSUME SavePage
      PROVE  NothingLeftBehind'
  BY <1>1, <1>5 DEF SavePage, NothingLeftBehind
<1>6. ASSUME NEW s \in Sids, Opens(s)
      PROVE  NothingLeftBehind'
  <2>1. dialog'.sid = s
    BY <1>6 DEF Opens
  <2>2. dialog' # NoDialog
    BY <2>1, NamesAssumption DEF NoDialog, Sids, Names
  <2>. QED BY <1>1, <1>6, <2>2 DEF Opens, NothingLeftBehind
<1>7. ASSUME NEW s \in Sids, OpenFails(s)
      PROVE  NothingLeftBehind'
  <2>1. \A t \in Temps \ {s} : opening'[t] = opening[t]
    BY <1>7 DEF OpenFails, Types, TypeOK, Sids
  <2>. QED BY <1>1, <1>7, <2>1 DEF OpenFails, NothingLeftBehind, AddedOnly
<1>8. ASSUME NEW f \in Fields, NEW v \in Entries[f], Type(f, v)
      PROVE  NothingLeftBehind'
  <2>1. dialog \in Dialogs
    BY <1>8 DEF Type, Types, TypeOK
  <2>2. dialog'.sid = dialog.sid
    BY <1>8, <2>1 DEF Type, Dialogs
  <2>3. dialog' # NoDialog
    BY <2>1, <2>2, IsDialog, NamesAssumption DEF NoDialog, Sids, Names
  <2>. QED BY <1>1, <1>8, <2>3 DEF Type, NothingLeftBehind
<1>9. ASSUME Dismiss
      PROVE  NothingLeftBehind'
  <2>1. DOMAIN local' = DOMAIN local \ {added}
    BY <1>9 DEF Dismiss, Drop
  <2>2. AddedOnly(local') \ orphans' = {}
    BY <1>1, <1>9, <2>1 DEF Dismiss, AddedOnly
  <2>. QED BY <2>2 DEF NothingLeftBehind
<1>10. ASSUME SaveDialog
       PROVE  NothingLeftBehind'
  <2>1. dialog \in Dialogs
    BY <1>10 DEF SaveDialog, Types, TypeOK
  <2>2. dialog'.sid = dialog.sid
    BY <1>10, <2>1 DEF SaveDialog, Dialogs
  <2>3. dialog' # NoDialog
    BY <2>1, <2>2, IsDialog, NamesAssumption DEF NoDialog, Sids, Names
  <2>4. DOMAIN local' = DOMAIN local
    BY <1>10 DEF SaveDialog
  <2>. QED BY <1>1, <1>10, <2>3, <2>4 DEF SaveDialog, NothingLeftBehind, AddedOnly
<1>11. ASSUME SaveDone
       PROVE  NothingLeftBehind'
  <2>1. DOMAIN local' \subseteq Names
    BY <1>11 DEF SaveDone, Types, TypeOK
  <2>2. AddedOnly(local') = {}
    BY <2>1, NamesAssumption DEF AddedOnly, Names
  <2>. QED BY <2>2 DEF NothingLeftBehind
<1>12. ASSUME SaveFails
       PROVE  NothingLeftBehind'
  <2>1. CASE dialog = NoDialog
    BY <1>1, <1>12, <2>1 DEF SaveFails, NothingLeftBehind
  <2>2. CASE dialog # NoDialog
    <3>1. dialog \in Dialogs
      BY <2>2 DEF Types, TypeOK
    <3>2. dialog'.sid = dialog.sid
      BY <1>12, <2>2, <3>1 DEF SaveFails, Dialogs
    <3>3. dialog' # NoDialog
      BY <3>1, <3>2, IsDialog, NamesAssumption DEF NoDialog, Sids, Names
    <3>. QED BY <1>1, <1>12, <3>3 DEF SaveFails, NothingLeftBehind
  <2>. QED BY <2>1, <2>2
<1>13. ASSUME UNCHANGED vars
       PROVE  NothingLeftBehind'
  BY <1>1, <1>13 DEF vars, NothingLeftBehind
<1>. QED
  BY <1>2, <1>3, <1>4, <1>5, <1>6, <1>7, <1>8, <1>9, <1>10, <1>11, <1>12, <1>13
  DEF Next, Rows, DialogStep

\* GridSection.handleAdd and handleModalCancel: a section that was added and not saved is
\* the one that the page removes when a dialog is dismissed; the page loses track of none
\* but those whose dialog failed to open and those that a second Add overtook.
THEOREM AddedIsKnown == Spec => []NothingLeftBehind
<1>1. Types /\ Types' /\ NothingLeftBehind /\ [Next]_vars => NothingLeftBehind'
  BY LeftNext
<1>. QED BY <1>1, LeftInit, AlwaysTypes, PTL DEF Spec

-----------------------------------------------------------------------------
(* What a dialog shows.                                                    *)

\* The form shows the fields that have no dependencies, and of the others for which two
\* passes are enough those that it should.
Right(form) == Basic(form) /\ SettledOn(Quick, form)

\* Every step that changes a form of a dialog leaves it so.
LEMMA ShownNext ==
    ASSUME Types, Types', Filled => Right(dialog.form), [Next]_vars
    PROVE  Filled' => Right(dialog.form)'
<1>1. ASSUME NEW s \in Sids, Opens(s), Filled'
      PROVE  Right(dialog'.form)
  <2>. DEFINE cache == IF Present(s) THEN local[s] ELSE NoOptions
              form == IF Present(s) THEN Render(cache) ELSE NoForm
  <2>1. cache \in Contents
    BY Empties DEF Types, TypeOK, Present
  <2>2. dialog' = [sid |-> s, cache |-> cache, stale |-> FALSE, form |-> form]
    BY <1>1 DEF Opens
  <2>3. dialog'.form = form
    BY <2>2
  <2>4. form # NoForm
    BY <1>1, <2>3 DEF Filled
  <2>5. Present(s) /\ form = Render(cache)
    BY <2>4
  <2>. HIDE DEF cache, form
  <2>. QED BY <2>1, <2>3, <2>5, RenderType DEF Right
<1>2. ASSUME NEW f \in Fields, NEW v \in Entries[f], Type(f, v)
      PROVE  Right(dialog'.form)
  <2>. DEFINE x == [dialog.form EXCEPT !.val[f] = v]
  <2>1. dialog \in Dialogs /\ dialog.form \in Forms /\ dialog # NoDialog
    BY <1>2 DEF Type, Types, TypeOK, Dialogs
  <2>2. dialog.form # NoForm
    BY <1>2 DEF Type, NoForm
  <2>3. x \in Forms /\ x.shown = dialog.form.shown
    BY <2>1 DEF Forms, Values
  <2>4. Basic(x)
    BY <2>1, <2>2, <2>3 DEF Filled, Right, Basic
  <2>5. dialog' = [dialog EXCEPT !.form = CheckDepends(x)]
    BY <1>2 DEF Type
  <2>. HIDE DEF x
  <2>6. dialog'.form = CheckDepends(x)
    BY <2>1, <2>5 DEF Dialogs
  <2>. QED BY <2>3, <2>4, <2>6, ChecksSettle DEF Right
<1>3. ASSUME SaveDialog, Filled'
      PROVE  Right(dialog'.form)
  <2>. DEFINE form == IF dialog.form = NoForm THEN NoForm ELSE Checked(dialog.form)
  <2>1. dialog \in Dialogs /\ dialog.form \in Forms /\ dialog # NoDialog
    BY <1>3 DEF SaveDialog, Types, TypeOK, Dialogs
  <2>2. dialog' = [dialog EXCEPT !.form = form, !.stale = @ \/ Refused(form)]
    BY <1>3 DEF SaveDialog
  <2>3. dialog'.form = form
    <3>. HIDE DEF form
    <3>. QED BY <2>1, <2>2 DEF Dialogs
  <2>4. form # NoForm
    BY <1>3, <2>3 DEF Filled
  <2>5. dialog.form # NoForm /\ form = CheckDepends(dialog.form)
    BY <2>4 DEF Checked
  <2>6. Basic(dialog.form)
    BY <2>1, <2>5 DEF Filled, Right
  <2>. QED BY <2>1, <2>3, <2>5, <2>6, ChecksSettle DEF Right
<1>4. ASSUME SaveFails, Filled'
      PROVE  Right(dialog'.form)
  <2>1. dialog # NoDialog /\ dialog' = [dialog EXCEPT !.stale = TRUE]
    BY <1>4 DEF SaveFails, Filled
  <2>2. dialog \in Dialogs
    BY <2>1 DEF Types, TypeOK
  <2>3. dialog'.form = dialog.form
    BY <2>1, <2>2 DEF Dialogs
  <2>. QED BY <1>4, <2>1, <2>3 DEF Filled
<1>5. ASSUME dialog' = dialog \/ dialog' = NoDialog, Filled'
      PROVE  Right(dialog'.form)
  BY <1>5 DEF Filled
<1>6. Rows \/ SaveDone \/ UNCHANGED vars => dialog' = dialog \/ dialog' = NoDialog
  BY DEF Rows, AddRow, EditRow, RemoveRow, SavePage, SaveDone, vars
<1>7. \A s \in Sids : OpenFails(s) => dialog' = dialog
  BY DEF OpenFails
<1>8. Dismiss => dialog' = NoDialog
  BY DEF Dismiss
<1>. QED BY <1>1, <1>2, <1>3, <1>4, <1>5, <1>6, <1>7, <1>8 DEF Next, DialogStep

ShownRight == Types /\ (Filled => Right(dialog.form))

\* A dialog that has a form shows what is to be shown.
THEOREM ShownAlwaysRight == Spec => []ShownRight
<1>1. Init => ShownRight
  BY InitTypes DEF Init, ShownRight, Filled
<1>2. ShownRight /\ [Next]_vars => ShownRight'
  BY NextTypes, ShownNext DEF ShownRight
<1>. QED BY <1>1, <1>2, PTL DEF Spec

\* Map.checkDepends, whatever the fields depend on and whatever the user typed in which
\* order: of the fields for which its two passes are enough, a dialog shows exactly those
\* whose dependencies hold.
THEOREM ShownIsSettled == Spec => []ShownSettled
<1>1. ShownRight => ShownSettled
  BY DEF ShownRight, Right, ShownSettled, Types
<1>. QED BY <1>1, ShownAlwaysRight, PTL

\* The check of a save has validated what the dialog shows.
LEMMA SavesClean ==
    ASSUME ShownRight, SaveDialog, saving' # NoSave, Filled
    PROVE  \A f \in dialog'.form.shown \cap Quick : ~ Fails(f, dialog'.form.val)
<1>. DEFINE form == IF dialog.form = NoForm THEN NoForm ELSE Checked(dialog.form)
<1>1. dialog \in Dialogs /\ dialog.form \in Forms /\ Right(dialog.form)
  BY DEF Filled, ShownRight, Types, TypeOK, Dialogs
<1>2. dialog' = [dialog EXCEPT !.form = form, !.stale = @ \/ Refused(form)]
  BY DEF SaveDialog
<1>3. dialog'.form = form
  <2>. HIDE DEF form
  <2>. QED BY <1>1, <1>2 DEF Dialogs
<1>4. form = CheckDepends(dialog.form)
  BY DEF Filled, Checked
<1>5. ~ Refused(form)
  BY DEF SaveDialog
<1>. HIDE DEF form
<1>6. form.val = dialog.form.val
  BY <1>1, <1>4, ChecksSettle DEF Right
<1>7. \A f \in form.shown \cap Quick : f \in form.bad <=> Fails(f, form.val)
  BY <1>1, <1>4, <1>6, ChecksAll DEF Right
<1>. QED BY <1>3, <1>5, <1>7 DEF Refused

\* Map.save: no dialog sends what the validator of a field that it shows rejects, although
\* a value may have become invalid while its field was hidden; of the fields for which the
\* two passes of checkDepends are enough.
THEOREM SavesAreClean == Spec => NothingInvalidSaved
<1>1. ShownRight /\ [Next]_vars
        => [SaveDialog /\ saving' # NoSave /\ Filled
              => \A f \in dialog'.form.shown \cap Quick : ~ Fails(f, dialog'.form.val)]_vars
  BY SavesClean
<1>. QED BY <1>1, ShownAlwaysRight, PTL DEF Spec, NothingInvalidSaved

-----------------------------------------------------------------------------
(* What parse() writes is what the form shows.                             *)

\* A field leaves the options of others alone.
LEMMA OthersKept ==
    ASSUME NEW form, NEW cache, NEW f \in Fields, NEW cfg \in Contents,
           NEW o \in Opts, Opt[f] # o
    PROVE  ParseField(cfg, f, form, cache)[o] = cfg[o]
BY DEF ParseField, Contents, Opts

\* The option of a field that is shown becomes what the field shows: hidden fields with
\* the same option leave it alone, whether they come before or after.
LEMMA ShownWrites ==
    ASSUME NEW form \in Forms, Exclusive(form), ~ Refused(form),
           NEW cache \in Contents, NEW w \in form.shown
    PROVE  Parsed(form, cache, cache)[Opt[w]] =
             IF Unset(w, form) THEN Empty ELSE form.val[w]
<1>. DEFINE N == Len(Order)
            o == Opt[w]
            goal == IF Unset(w, form) THEN Empty ELSE form.val[w]
<1>1. N \in Nat /\ \A i \in 1..N : Order[i] \in Fields
  BY Ordered
<1>2. PICK v : Writes(form, cache, cache, v) /\ Parsed(form, cache, cache) = v[N]
  BY ParsedBy
<1>3. /\ v \in [0..N -> Contents] /\ v[0] = cache
      /\ \A i \in 1..N : v[i] = ParseField(v[i - 1], Order[i], form, cache)
  BY <1>2 DEF Writes
<1>4. w \in Fields /\ o \in Opts
  BY DEF Forms, Opts
<1>5. PICK j \in 1..N : Order[j] = w
  BY <1>4, Ordered
<1>. DEFINE G == {n \in 0..N : v[n][o] = IF n < j THEN cache[o] ELSE goal}
<1>6. 0 \in G
  BY <1>1, <1>3, <1>5
<1>7. ASSUME NEW n \in 0..N, n < N, n \in G
      PROVE  n + 1 \in G
  <2>. DEFINE f == Order[n + 1]
  <2>1. n + 1 \in 1..N /\ (n + 1) - 1 = n /\ f \in Fields /\ v[n] \in Contents
    BY <1>1, <1>3, <1>7
  <2>2. v[n + 1] = ParseField(v[n], f, form, cache)
    BY <1>3, <2>1
  <2>3. v[n][o] = IF n < j THEN cache[o] ELSE goal
    BY <1>7
  <2>4. CASE f # w
    <3>1. n + 1 # j
      BY <1>5, <2>4
    <3>2. (n + 1 < j) <=> (n < j)
      BY <1>1, <2>1, <3>1
    <3>3. v[n + 1][o] = v[n][o]
      <4>. HIDE DEF f, o
      <4>1. CASE Opt[f] # o
        BY <1>4, <2>1, <2>2, <4>1, OthersKept
      <4>2. CASE Opt[f] = o
        <5>1. w \in Explicit /\ f \notin form.shown
          BY <1>4, <2>1, <2>4, <4>2 DEF Exclusive, o
        <5>2. KeptBySibling(f, form)
          BY <2>4, <4>2, <5>1 DEF KeptBySibling, o
        <5>. QED BY <2>2, <5>1, <5>2 DEF ParseField
      <4>. QED BY <4>1, <4>2
    <3>. QED BY <2>1, <2>3, <3>2, <3>3
  <2>5. CASE f = w
    <3>1. n + 1 = j
      BY <1>5, <2>1, <2>5, Ordered
    <3>2. v[n][o] = cache[o]
      BY <1>1, <2>3, <3>1
    <3>3. ~ KeptBySibling(w, form)
      <4>1. form.shown \subseteq Fields
        BY DEF Forms
      <4>. QED BY <1>4, <4>1 DEF KeptBySibling, Exclusive
    <3>4. ~ (w \in form.bad \/ (w \in Required \ Flags /\ form.val[w] = Empty))
      BY DEF Refused
    <3>5. ParseField(v[n], w, form, cache) =
            IF Unset(w, form) THEN [v[n] EXCEPT ![o] = Empty]
            ELSE IF w \in Flags \/ form.val[w] # cache[o]
                 THEN [v[n] EXCEPT ![o] = form.val[w]] ELSE v[n]
      BY <3>3, <3>4 DEF ParseField
    <3>6. v[n + 1][o] = goal
      <4>. HIDE DEF f, o
      <4>1. v[n + 1] = ParseField(v[n], w, form, cache)
        BY <2>2, <2>5
      <4>. QED BY <1>4, <2>1, <3>2, <3>5, <4>1 DEF Contents
    <3>7. ~ (n + 1 < j)
      BY <1>1, <3>1
    <3>. QED BY <2>1, <3>6, <3>7
  <2>. QED BY <2>4, <2>5
<1>8. 0..N \subseteq G
  <2>1. \A n \in 0..N : n < N /\ n \in G => n + 1 \in G
    BY <1>7
  <2>. HIDE DEF G
  <2>. QED BY <1>1, <1>6, <2>1, Reaches
<1>9. v[N][o] = goal
  BY <1>1, <1>5, <1>8
<1>. QED BY <1>2, <1>9

\* An option that no shown field has is removed, unless a field retains it.
LEMMA HiddenUnset ==
    ASSUME NEW form \in Forms, NEW cache \in Contents, NEW o \in Opts,
           \A f \in form.shown : Opt[f] # o
    PROVE  Parsed(form, cache, cache)[o] = Empty \/ \E f \in Retained : Opt[f] = o
<1>. SUFFICES ASSUME \A f \in Retained : Opt[f] # o
              PROVE  Parsed(form, cache, cache)[o] = Empty
  OBVIOUS
<1>. DEFINE N == Len(Order)
<1>1. N \in Nat /\ \A i \in 1..N : Order[i] \in Fields
  BY Ordered
<1>2. PICK v : Writes(form, cache, cache, v) /\ Parsed(form, cache, cache) = v[N]
  BY ParsedBy
<1>3. /\ v \in [0..N -> Contents] /\ v[0] = cache
      /\ \A i \in 1..N : v[i] = ParseField(v[i - 1], Order[i], form, cache)
  BY <1>2 DEF Writes
<1>4. PICK w \in Fields : Opt[w] = o
  BY DEF Opts
<1>5. PICK j \in 1..N : Order[j] = w
  BY <1>4, Ordered
<1>. DEFINE G == {n \in 0..N : j <= n => v[n][o] = Empty}
<1>6. 0 \in G
  BY <1>1, <1>5
<1>7. ASSUME NEW n \in 0..N, n < N, n \in G
      PROVE  n + 1 \in G
  <2>. DEFINE f == Order[n + 1]
  <2>1. n + 1 \in 1..N /\ (n + 1) - 1 = n /\ f \in Fields /\ v[n] \in Contents
    BY <1>1, <1>3, <1>7
  <2>2. v[n + 1] = ParseField(v[n], f, form, cache)
    BY <1>3, <2>1
  <2>. HIDE DEF f
  <2>3. CASE Opt[f] = o
    <3>1. f \notin form.shown /\ f \notin Retained
      BY <2>3
    <3>2. ~ KeptBySibling(f, form)
      BY <2>3 DEF KeptBySibling
    <3>3. ParseField(v[n], f, form, cache) = [v[n] EXCEPT ![o] = Empty]
      BY <2>3, <3>1, <3>2 DEF ParseField
    <3>. QED BY <2>1, <2>2, <3>3 DEF Contents
  <2>4. CASE Opt[f] # o
    <3>1. j # n + 1
      BY <1>4, <1>5, <2>4 DEF f
    <3>2. v[n + 1][o] = v[n][o]
      BY <2>1, <2>2, <2>4, OthersKept
    <3>. QED BY <1>1, <1>7, <2>1, <3>1, <3>2
  <2>. QED BY <2>3, <2>4
<1>8. 0..N \subseteq G
  <2>1. \A n \in 0..N : n < N /\ n \in G => n + 1 \in G
    BY <1>7
  <2>. HIDE DEF G
  <2>. QED BY <1>1, <1>6, <2>1, Reaches
<1>9. v[N][o] = Empty
  BY <1>1, <1>5, <1>8
<1>. QED BY <1>2, <1>9

\* parse() makes the section what the form shows.
LEMMA ParsedShows ==
    ASSUME NEW form \in Forms, Exclusive(form), ~ Refused(form),
           NEW cache \in Contents
    PROVE  ShowsSame(form, Parsed(form, cache, cache))
<1>1. ASSUME NEW o \in Opts
      PROVE  LET writers == {f \in form.shown : Opt[f] = o} IN
             IF writers = {}
             THEN Parsed(form, cache, cache)[o] = Empty \/ \E f \in Retained : Opt[f] = o
             ELSE \A f \in writers : Parsed(form, cache, cache)[o]
                                       = IF Unset(f, form) THEN Empty ELSE form.val[f]
  <2>1. CASE {f \in form.shown : Opt[f] = o} = {}
    <3>1. \A f \in form.shown : Opt[f] # o
      BY <2>1
    <3>. QED BY <2>1, <3>1, HiddenUnset
  <2>2. CASE {f \in form.shown : Opt[f] = o} # {}
    BY <2>2, ShownWrites
  <2>. QED BY <2>1, <2>2
<1>. QED BY <1>1 DEF ShowsSame

-----------------------------------------------------------------------------
(* What a dialog was loaded with is what the copy has.                     *)

\* Unless the dialog is being saved.
Fresh ==
    /\ Filled /\ ~ dialog.stale /\ Present(dialog.sid) /\ (saving = NoSave \/ saving.by = "page")
         => dialog.cache = local[dialog.sid]
    /\ Filled /\ ~ Present(dialog.sid) => saving = NoSave \/ saving.by # "page"
    /\ saving # NoSave => \A s \in DOMAIN local \cap Names :
                             s \in DOMAIN saving.sent /\ saving.sent[s] = local[s]

\* The copy changes under a dialog only when the page is loaded again after a save, and
\* what was saved by the page is what the dialog was loaded with.
LEMMA FreshNext ==
    ASSUME Types, Types', Fresh, [Next]_vars
    PROVE  Fresh'
<1>1. ASSUME NEW t \in Temps, AddRow(t)
      PROVE  Fresh'
  <2>1. ~ Filled'
    BY <1>1 DEF AddRow, Filled
  <2>2. \A s \in DOMAIN local' \cap Names : s \in DOMAIN local \cap Names /\ local'[s] = local[s]
    BY <1>1, NamesAssumption DEF AddRow, Names
  <2>. QED BY <1>1, <2>1, <2>2 DEF AddRow, Fresh
<1>2. ASSUME NEW s \in Sids, EditRow(s)
      PROVE  Fresh'
  BY <1>2 DEF EditRow, Fresh, Filled, Present
<1>3. ASSUME NEW s \in Sids, RemoveRow(s)
      PROVE  Fresh'
  <2>1. ~ Filled'
    BY <1>3 DEF RemoveRow, Filled
  <2>2. saving'.sent = local'
    BY <1>3 DEF RemoveRow, Send
  <2>. QED BY <2>1, <2>2 DEF Fresh
<1>4. ASSUME SavePage
      PROVE  Fresh'
  <2>1. ~ Filled'
    BY <1>4 DEF SavePage, Filled
  <2>2. saving'.sent = local'
    BY <1>4 DEF SavePage, Send
  <2>. QED BY <2>1, <2>2 DEF Fresh
<1>5. ASSUME NEW s \in Sids, Opens(s)
      PROVE  Fresh'
  <2>1. local' = local /\ saving' = saving
    BY <1>5 DEF Opens
  <2>2. /\ dialog'.sid = s
        /\ dialog'.cache = IF Present(s) THEN local[s] ELSE NoOptions
        /\ dialog'.form = IF Present(s) THEN Render(dialog'.cache) ELSE NoForm
    BY <1>5 DEF Opens
  <2>3. Filled' => Present(s)
    BY <2>2 DEF Filled
  <2>. QED BY <2>1, <2>2, <2>3 DEF Fresh, Present
<1>6. ASSUME NEW s \in Sids, OpenFails(s)
      PROVE  Fresh'
  BY <1>6 DEF OpenFails, Fresh, Filled, Present
<1>7. ASSUME NEW f \in Fields, NEW v \in Entries[f], Type(f, v)
      PROVE  Fresh'
  <2>1. dialog \in Dialogs /\ Filled
    BY <1>7 DEF Type, Types, TypeOK, Filled, NoForm
  <2>2. dialog'.sid = dialog.sid /\ dialog'.cache = dialog.cache /\ dialog'.stale = dialog.stale
    BY <1>7, <2>1 DEF Type, Dialogs
  <2>3. local' = local /\ saving' = saving
    BY <1>7 DEF Type
  <2>. QED BY <2>1, <2>2, <2>3 DEF Fresh, Present
<1>8. ASSUME Dismiss
      PROVE  Fresh'
  <2>1. ~ Filled'
    BY <1>8 DEF Dismiss, Filled
  <2>2. \A s \in DOMAIN local' \cap Names : s \in DOMAIN local \cap Names /\ local'[s] = local[s]
    BY <1>8 DEF Dismiss, Drop
  <2>. QED BY <1>8, <2>1, <2>2 DEF Dismiss, Fresh
<1>9. ASSUME SaveDialog
      PROVE  Fresh'
  <2>. DEFINE form == IF dialog.form = NoForm THEN NoForm ELSE Checked(dialog.form)
  <2>1. dialog \in Dialogs /\ saving = NoSave
    BY <1>9 DEF SaveDialog, Types, TypeOK
  <2>2. /\ dialog' = [dialog EXCEPT !.form = form, !.stale = @ \/ Refused(form)]
        /\ DOMAIN local' = DOMAIN local
        /\ IF Refused(form) THEN UNCHANGED saving ELSE Send(dialog.sid)
    BY <1>9 DEF SaveDialog
  <2>. HIDE DEF form
  <2>3. dialog'.sid = dialog.sid
    BY <2>1, <2>2 DEF Dialogs
  <2>4. CASE Refused(form)
    <3>1. dialog'.stale
      BY <2>1, <2>2, <2>4 DEF Dialogs
    <3>2. saving' = NoSave
      BY <2>1, <2>2, <2>4
    <3>. QED BY <3>1, <3>2 DEF Fresh, NoSave
  <2>5. CASE ~ Refused(form)
    <3>1. saving'.sent = local' /\ saving'.by = dialog.sid
      BY <2>2, <2>5 DEF Send
    <3>2. saving'.by # "page" /\ saving'.by # None
      BY <2>1, <3>1, NamesAssumption DEF Dialogs, Sids, Names
    <3>3. saving' # NoSave
      BY <3>2 DEF NoSave
    <3>4. NoSave' = NoSave
      BY DEF NoSave
    <3>. QED BY <3>1, <3>2, <3>3, <3>4 DEF Fresh
  <2>. QED BY <2>4, <2>5
<1>10. ASSUME SaveDone
       PROVE  Fresh'
  <2>1. saving' = NoSave /\ saving # NoSave /\ local' = server'
    BY <1>10 DEF SaveDone
  <2>2. PICK m \in Namings : server' = Staged(m)
    BY <1>10 DEF SaveDone
  <2>3. ASSUME Filled', ~ dialog'.stale, dialog'.sid \in DOMAIN local'
        PROVE  dialog'.cache = local'[dialog'.sid]
    <3>1. saving.by = "page" /\ dialog' = dialog
      BY <1>10, <2>3 DEF SaveDone, Filled
    <3>2. Filled /\ ~ dialog.stale
      BY <2>3, <3>1 DEF Filled, NoDialog, NoForm
    <3>3. Present(dialog.sid)
      BY <2>1, <3>1, <3>2 DEF Fresh
    <3>4. dialog.cache = local[dialog.sid]
      BY <3>1, <3>2, <3>3 DEF Fresh
    <3>5. dialog.sid \in DOMAIN Staged(m)
      BY <2>1, <2>2, <2>3, <3>1
    <3>6. dialog.sid \in Names
      BY <2>1, <2>2, <3>5, StagedType
    <3>7. dialog.sid \in DOMAIN saving.sent /\ saving.sent[dialog.sid] = local[dialog.sid]
      BY <2>1, <3>3, <3>6 DEF Fresh, Present
    <3>8. Staged(m)[dialog.sid] = saving.sent[dialog.sid]
      BY <2>1, <2>2, <3>5, <3>7, StagedType
    <3>. QED BY <2>1, <2>2, <3>1, <3>4, <3>7, <3>8
  <2>. QED BY <2>1, <2>3 DEF Fresh, Present, NoSave
<1>11. ASSUME SaveFails
       PROVE  Fresh'
  <2>1. local' = local /\ saving' = NoSave
    BY <1>11 DEF SaveFails
  <2>2. Filled' => dialog'.stale
    <3>1. CASE dialog = NoDialog
      BY <1>11, <3>1 DEF SaveFails, Filled, NoDialog
    <3>2. CASE dialog # NoDialog
      BY <1>11, <3>2 DEF SaveFails, Types, TypeOK, Dialogs
    <3>. QED BY <3>1, <3>2
  <2>. QED BY <2>1, <2>2 DEF Fresh, NoSave
<1>12. ASSUME UNCHANGED vars
       PROVE  Fresh'
  BY <1>12 DEF vars, Fresh, Filled, Present, NoSave, NoDialog, NoForm
<1>. QED
  BY <1>1, <1>2, <1>3, <1>4, <1>5, <1>6, <1>7, <1>8, <1>9, <1>10, <1>11, <1>12
  DEF Next, Rows, DialogStep

\* So a dialog sends what it shows.
LEMMA SavesShown ==
    ASSUME Types, Fresh, SaveDialog, saving' # NoSave,
           Present(dialog.sid), Filled, ~ dialog.stale, Exclusive(dialog'.form)
    PROVE  ShowsSame(dialog'.form, saving'.sent[dialog.sid])
<1>. DEFINE form == IF dialog.form = NoForm THEN NoForm ELSE Checked(dialog.form)
            s == dialog.sid
<1>1. dialog \in Dialogs /\ dialog.form \in Forms /\ saving = NoSave
  BY DEF Filled, Types, TypeOK, Dialogs, SaveDialog
<1>2. /\ dialog' = [dialog EXCEPT !.form = form, !.stale = @ \/ Refused(form)]
      /\ local' = IF Present(s) /\ dialog.form # NoForm
                  THEN [local EXCEPT ![s] = Parsed(form, dialog.cache, @)] ELSE local
      /\ IF Refused(form) THEN UNCHANGED saving ELSE Send(s)
  BY DEF SaveDialog
<1>3. form = CheckDepends(dialog.form)
  BY DEF Filled, Checked
<1>. HIDE DEF form, s
<1>4. dialog'.form = form
  BY <1>1, <1>2 DEF Dialogs
<1>5. form \in Forms /\ Exclusive(form)
  BY <1>1, <1>3, <1>4, CheckDependsType
<1>6. dialog.form # NoForm
  BY DEF Filled
<1>7. ~ Refused(form) /\ Send(s)
  BY <1>1, <1>2
<1>8. saving'.sent = local' /\ s \in DOMAIN local
  BY <1>7 DEF Send, Present, s
<1>9. dialog.cache = local[s] /\ dialog.cache \in Contents
  BY <1>1 DEF Fresh, Dialogs, s
<1>10. local'[s] = Parsed(form, dialog.cache, dialog.cache)
  BY <1>2, <1>6, <1>8, <1>9 DEF Present
<1>11. ShowsSame(form, Parsed(form, dialog.cache, dialog.cache))
  BY <1>5, <1>7, <1>9, ParsedShows
<1>. QED BY <1>4, <1>8, <1>10, <1>11 DEF s

\* Map.save and AbstractValue.parse: what a dialog sends is the section as the user saw it,
\* unless a save of the dialog was refused or failed before, or fields that have the same
\* option were shown together; whatever the fields depend on.
THEOREM SavesAreAsShown == Spec => SavedAsShown
<1>1. Init => Fresh
  BY DEF Init, Fresh, Filled
<1>2. Fresh /\ Types /\ Types' /\ [Next]_vars => Fresh'
  BY FreshNext
<1>3. Types /\ Fresh /\ [Next]_vars
        => [SaveDialog /\ saving' # NoSave /\ Present(dialog.sid) /\ Filled /\ ~ dialog.stale
                 /\ Exclusive(dialog'.form)
              => ShowsSame(dialog'.form, saving'.sent[dialog.sid])]_vars
  BY SavesShown
<1>. QED BY <1>1, <1>2, <1>3, AlwaysTypes, PTL DEF Spec, SavedAsShown
=============================================================================
