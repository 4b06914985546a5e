------------------------- MODULE PackagePage_proofs -------------------------
(***************************************************************************)
(* The software page, for any repositories, packages, listings in flight,  *)
(* dialogs and commands.  TableIsTrue is not inductive: it needs what a    *)
(* call of updateLists() that is under way has read (LoadsTrue), that the  *)
(* lists are those of the device when no call is (ListsTrue), also while   *)
(* the filter's timer runs, and that the offset is within the rows.        *)
(* UploadRemoved needs which dialog the file belongs to (FileInDialog).    *)
(* VersionsOrdered needs that every version in a list is one, and that the *)
(* recursion of CompareVersion ends: the function it defines is there, and *)
(* orders all versions.                                                    *)
(***************************************************************************)
EXTENDS PackagePage, FiniteSetTheorems, WellFoundedInduction, TLAPS

\* A set of numbers that has a member has a least one.
LEMMA SmallestOf ==
    ASSUME NEW S, S \subseteq Nat, S # {}
    PROVE  \E n \in S : \A k \in S : n <= k
<1>1. PICK n \in S : \A k \in S : ~ (<<k, n>> \in OpToRel(<, Nat))
  BY WFMin, NatLessThanWellFounded, Zenon
<1>2. \A k \in S : ~ (k < n)
  BY <1>1, Zenon DEF OpToRel
<1>. QED BY <1>2

\* How many there are of I up to i.
UpTo(I, i) == {j \in I : j <= i}

\* They are finitely many, I being within 1..n.
LEMMA UpToFinite ==
  ASSUME NEW n \in Nat, NEW I \in SUBSET (1..n)
  PROVE  /\ IsFiniteSet(I) /\ Cardinality(I) \in 0..n
         /\ \A i \in 0..n : IsFiniteSet(UpTo(I, i)) /\ Cardinality(UpTo(I, i)) \in Nat
<1>1. IsFiniteSet(1..n) /\ Cardinality(1..n) = n
  BY FS_Interval
<1>2. IsFiniteSet(I) /\ Cardinality(I) <= n
  BY <1>1, FS_Subset
<1>3. Cardinality(I) \in Nat
  BY <1>2, FS_CardinalityType
<1>4. \A i \in 0..n : UpTo(I, i) \subseteq I
  BY DEF UpTo
<1>. QED BY <1>2, <1>3, <1>4, FS_Subset, FS_CardinalityType

\* One of I is the k-th.
LEMMA Counted ==
  ASSUME NEW n \in Nat, NEW I \in SUBSET (1..n), NEW k \in 1..Cardinality(I)
  PROVE  \E i \in I : Cardinality(UpTo(I, i)) = k
<1>. DEFINE Enough == {i \in 0..n : Cardinality(UpTo(I, i)) >= k}
<1>0. IsFiniteSet(I) /\ Cardinality(I) \in 0..n /\ k \in Nat /\ k > 0 /\ k <= Cardinality(I)
  BY UpToFinite
<1>a. \A j \in I : j \in Nat /\ 1 <= j /\ j <= n
  OBVIOUS
<1>b. \A i, j : j \in UpTo(I, i) <=> j \in I /\ j <= i
  BY DEF UpTo
<1>1. n \in Enough
  <2>1. \A j : j \in UpTo(I, n) <=> j \in I
    BY ONLY <1>a, <1>b
  <2>2. UpTo(I, n) = I
    BY ONLY <2>1
  <2>. QED BY <2>2, <1>0
<1>2. PICK m \in Enough : \A i \in Enough : m <= i
  <2>1. Enough \subseteq Nat /\ Enough # {}
    BY <1>1
  <2>. HIDE DEF Enough
  <2>. QED BY <2>1, SmallestOf
<1>3. m # 0
  <2>1. UpTo(I, 0) = {}
    <3>1. \A j : j \notin UpTo(I, 0)
      <4>. SUFFICES ASSUME NEW j, j \in UpTo(I, 0) PROVE FALSE
        OBVIOUS
      <4>1. j \in I /\ j <= 0
        BY <1>b
      <4>. QED BY <4>1, <1>a
    <3>. QED BY ONLY <3>1
  <2>2. Cardinality(UpTo(I, 0)) = 0
    BY <2>1, FS_EmptySet
  <2>. QED BY <2>2, <1>0
<1>4. m - 1 \in 0..n /\ m \in 1..n
  BY <1>3
<1>5. Cardinality(UpTo(I, m - 1)) < k
  <2>1. m - 1 \notin Enough
    BY <1>2, <1>4
  <2>2. Cardinality(UpTo(I, m - 1)) \in Nat
    BY <1>4, UpToFinite
  <2>. QED BY <2>1, <2>2, <1>0, <1>4
<1>6. m \in I
  <2>. SUFFICES ASSUME m \notin I PROVE FALSE
    OBVIOUS
  <2>0. \A j \in I : j # m
    OBVIOUS
  <2>1. \A j : j \in UpTo(I, m) <=> j \in UpTo(I, m - 1)
    <3>. SUFFICES ASSUME NEW j \in I PROVE j <= m <=> j <= m - 1
      BY <1>b
    <3>. QED BY <1>4, <1>a, <2>0
  <2>4. UpTo(I, m) = UpTo(I, m - 1)
    BY ONLY <2>1
  <2>2. Cardinality(UpTo(I, m)) >= k
    OBVIOUS
  <2>3. Cardinality(UpTo(I, m)) \in Nat
    BY <1>4, UpToFinite
  <2>. QED BY <2>4, <2>2, <2>3, <1>5, <1>0
<1>7. Cardinality(UpTo(I, m)) = Cardinality(UpTo(I, m - 1)) + 1
  <2>0. \A j : j \in UpTo(I, m) <=> j \in UpTo(I, m - 1) \cup {m}
    <3>. SUFFICES ASSUME NEW j \in I PROVE j <= m <=> (j <= m - 1 \/ j = m)
      <4>1. m <= m /\ m \in I
        BY <1>4, <1>6
      <4>. QED BY <1>b, <4>1
    <3>. QED BY <1>4, <1>a
  <2>1. UpTo(I, m) = UpTo(I, m - 1) \cup {m}
    BY ONLY <2>0
  <2>3. m \notin UpTo(I, m - 1)
    BY <1>4, <1>b
  <2>2. IsFiniteSet(UpTo(I, m - 1))
    BY <1>4, UpToFinite
  <2>. QED BY <2>1, <2>2, <2>3, FS_AddElement
<1>8. Cardinality(UpTo(I, m)) >= k /\ Cardinality(UpTo(I, m - 1)) \in Nat
  BY <1>4, UpToFinite
<1>. QED BY <1>0, <1>5, <1>6, <1>7, <1>8

\* What a filter keeps of a sequence.
LEMMA KeptOf ==
  ASSUME NEW X, NEW s \in Seq(X), NEW S
  PROVE  /\ Kept(s, S) \in Seq(X) /\ Len(Kept(s, S)) <= Len(s)
         /\ \A k \in 1..Len(Kept(s, S)) : Kept(s, S)[k] \in S
<1>. DEFINE I == {i \in DOMAIN s : s[i] \in S}
            Kth(k) == CHOOSE i \in I : Cardinality({j \in I : j <= i}) = k
<1>1. Len(s) \in Nat /\ DOMAIN s = 1..Len(s) /\ I \in SUBSET (1..Len(s))
  OBVIOUS
<1>2. Cardinality(I) \in 0..Len(s)
  <2>. HIDE DEF I
  <2>. QED BY <1>1, UpToFinite
<1>3. \A k \in 1..Cardinality(I) : Kth(k) \in I
  <2>. SUFFICES ASSUME NEW k \in 1..Cardinality(I) PROVE Kth(k) \in I
    OBVIOUS
  <2>. HIDE DEF I
  <2>1. \E i \in I : Cardinality({j \in I : j <= i}) = k
    BY <1>1, Counted DEF UpTo
  <2>. QED BY <2>1
<1>4. Kept(s, S) = [k \in 1..Cardinality(I) |-> s[Kth(k)]]
  BY DEF Kept
<1>5. \A k \in 1..Cardinality(I) : s[Kth(k)] \in X /\ s[Kth(k)] \in S
  <2>1. \A i \in I : s[i] \in X /\ s[i] \in S
    OBVIOUS
  <2>. HIDE DEF I, Kth
  <2>. QED BY <1>3, <2>1
<1>. HIDE DEF I, Kth
<1>6. Cardinality(I) \in Nat /\ Cardinality(I) <= Len(s)
  BY <1>1, <1>2
<1>7. Kept(s, S) \in Seq(X) /\ Len(Kept(s, S)) = Cardinality(I)
  BY <1>4, <1>5, <1>6
<1>. QED BY <1>4, <1>5, <1>6, <1>7

\* A function on 1..n is a sequence.
LEMMA SequenceIs ==
  ASSUME NEW X, NEW n \in Nat, NEW f, f = [i \in 1..n |-> f[i]], \A i \in 1..n : f[i] \in X
  PROVE  f \in Seq(X) /\ Len(f) = n
<1>1. f \in [1..n -> X]
  OBVIOUS
<1>2. f \in Seq(X)
  BY <1>1
<1>. QED BY <1>1, <1>2

\* A page of the table: it has a row if the rows reach beyond its offset.
LEMMA PartOf ==
  ASSUME NEW X, NEW rs \in Seq(X), NEW off \in Nat
  PROVE  /\ PageOf(rs, off) \in Seq(X)
         /\ off < Len(rs) => PageOf(rs, off) # <<>>
<1>. DEFINE end == IF off + PageSize < Len(rs) THEN off + PageSize ELSE Len(rs)
<1>1. PageSize \in Nat /\ PageSize > 0 /\ Len(rs) \in Nat
  BY PageAssumption
<1>2. end \in Nat /\ end <= Len(rs) /\ (off < Len(rs) => end > off)
  BY <1>1
<1>3. PageOf(rs, off) = SubSeq(rs, off + 1, end)
  BY DEF PageOf
<1>. HIDE DEF end
<1>4. \A i \in (off + 1)..end : rs[i] \in X
  BY <1>1, <1>2
<1>5. SubSeq(rs, off + 1, end) \in Seq(X)
  BY <1>1, <1>2, <1>4
<1>6. off < Len(rs) => Len(SubSeq(rs, off + 1, end)) > 0
  BY <1>1, <1>2
<1>7. Len(<<>>) = 0
  OBVIOUS
<1>8. PageOf(rs, off) \in Seq(X) /\ (off < Len(rs) => Len(PageOf(rs, off)) > 0)
  BY <1>3, <1>5, <1>6
<1>9. PageOf(rs, off) = <<>> => Len(PageOf(rs, off)) = 0
  BY ONLY <1>7
<1>. QED BY <1>8, <1>9

\* A list has packages with the names of its paragraphs.
LEMMA ParsedNames ==
  ASSUME NEW s \in Listing, NEW list, DOMAIN list.pkgs \subseteq Names
  PROVE  DOMAIN ParseList(s, list).pkgs \subseteq Names
<1>1. DOMAIN ParseList(s, list).pkgs = DOMAIN list.pkgs \cup {p.name : p \in Range(s)}
  BY DEF ParseList
<1>2. \A p \in Range(s) : p.name \in Names
  <2>. SUFFICES ASSUME NEW i \in DOMAIN s PROVE s[i].name \in Names
    BY DEF Range
  <2>1. s[i] \in Paragraph(Names)
    BY DEF Listing
  <2>. QED BY <2>1 DEF Paragraph
<1>. QED BY <1>1, <1>2

\* A row of the table.
Line == [name : Names, button : {"install", "remove", "installed", "hidden"}]

\* The sorted names.
LEMMA NamesInOrder == NameOrder \in Seq(Names) /\ Len(NameOrder) \in Nat
BY PageAssumption DEF Names, Range

\* The rows of display(), at most one for each name.
LEMMA RowsAre ==
  ASSUME NEW v, v.mode \in Modes, NEW av, NEW ins, NEW langs
  PROVE  Rows(v, av, ins, langs) \in Seq(Line) /\ Len(Rows(v, av, ins, langs)) <= Len(NameOrder)
<1>. DEFINE all == [i \in DOMAIN NameOrder |->
                  [name |-> NameOrder[i], button |-> Button(NameOrder[i], v.mode, av, ins)]]
            S == {r \in Range(all) : r.button # "hidden" /\ Passes(r.name, v, langs)}
<1>1. \A n : Button(n, v.mode, av, ins) \in {"install", "remove", "installed", "hidden"}
  BY DEF Button, Modes
<1>2. all \in Seq(Line) /\ Len(all) = Len(NameOrder)
  <2>1. \A i \in DOMAIN NameOrder : NameOrder[i] \in Names
    BY NamesInOrder
  <2>2. \A n \in Names : [name |-> n, button |-> Button(n, v.mode, av, ins)] \in Line
    BY <1>1 DEF Line
  <2>3. \A i \in DOMAIN NameOrder : all[i] \in Line
    BY <2>1, <2>2
  <2>4. DOMAIN all = 1..Len(NameOrder) /\ Len(NameOrder) \in Nat
    BY NamesInOrder
  <2>5. all = [i \in 1..Len(NameOrder) |-> all[i]]
    BY <2>4
  <2>6. \A i \in 1..Len(NameOrder) : all[i] \in Line
    BY <2>3, NamesInOrder
  <2>. HIDE DEF all
  <2>7. all \in Seq(Line)
    BY ONLY <2>4, <2>5, <2>6, SequenceIs
  <2>8. Len(all) = Len(NameOrder)
    BY ONLY <2>4, <2>5, <2>6, SequenceIs
  <2>. QED BY <2>7, <2>8
<1>3. Rows(v, av, ins, langs) = Kept(all, S)
  BY DEF Rows
<1>. HIDE DEF all, S
<1>. QED BY <1>2, <1>3, KeptOf

-----------------------------------------------------------------------------
(* Versions.                                                               *)

Digit == Range(Digits)
Figures == Seq(Digit)

\* Codes of characters, as numbers.
LEMMA Codes ==
    /\ \A c \in DOMAIN Code : Code[c] \in Int /\ Code[c] > 0
    /\ Digit \subseteq DOMAIN Code
    /\ \A c \in Digit, d \in Digit : Code[c] = Code[d] => c = d
BY CodeAssumption DEF Digit

\* Where two numbers of the same length differ first.
Differ(a, b, i) ==
    i \in DOMAIN a /\ a[i] # b[i] /\ \A j \in DOMAIN a : j < i => a[j] = b[j]

\* Two that differ do so somewhere first.
LEMMA DifferSomewhere ==
    ASSUME NEW a \in Figures, NEW b \in Figures, Len(a) = Len(b), a # b
    PROVE  \E i : Differ(a, b, i)
<1>. DEFINE D == {i \in DOMAIN a : a[i] # b[i]}
<1>1. DOMAIN a \subseteq Nat /\ DOMAIN a = DOMAIN b
  BY DEF Figures
<1>2. D # {}
  BY <1>1 DEF Figures
<1>3. PICK i \in D : \A k \in D : i <= k
  <2>1. D \subseteq Nat
    BY <1>1
  <2>. HIDE DEF D
  <2>. QED BY <1>2, <2>1, SmallestOf
<1>4. \A j \in DOMAIN a : j < i => a[j] = b[j]
  <2>. SUFFICES ASSUME NEW j \in DOMAIN a, j < i PROVE a[j] = b[j]
    OBVIOUS
  <2>1. i \in Nat /\ j \in Nat
    BY <1>1
  <2>2. j \notin D
    BY <1>3, <2>1
  <2>. QED BY <2>2
<1>. QED BY <1>3, <1>4 DEF Differ

\* There the codes decide.
LEMMA DecidedThere ==
    ASSUME NEW a \in Figures, NEW b \in Figures, Len(a) = Len(b), NEW i, Differ(a, b, i)
    PROVE  /\ NumberOrder(a, b) = Code[a[i]] - Code[b[i]]
           /\ Code[a[i]] \in Int /\ Code[b[i]] \in Int /\ Code[a[i]] # Code[b[i]]
<1>. DEFINE D == {k \in DOMAIN a : a[k] # b[k]}
            least == CHOOSE k \in D : \A j \in D : k <= j
<1>1. DOMAIN a \subseteq Nat /\ DOMAIN a = DOMAIN b
  BY DEF Figures
<1>2. i \in D /\ \A j \in D : i <= j
  <2>1. i \in D
    BY DEF Differ
  <2>2. ASSUME NEW j \in D PROVE i <= j
    <3>1. i \in Nat /\ j \in Nat
      BY <1>1, <2>1
    <3>2. ~ (j < i)
      BY DEF Differ
    <3>. QED BY <3>1, <3>2
  <2>. QED BY <2>1, <2>2
<1>3. least \in D /\ \A j \in D : least <= j
  <2>. HIDE DEF D
  <2>. QED BY <1>2
<1>4. least = i
  <2>1. least \in Nat /\ i \in Nat
    BY <1>1, <1>2, <1>3
  <2>2. i <= least /\ least <= i
    BY <1>2, <1>3
  <2>. HIDE DEF least
  <2>. QED BY <2>1, <2>2
<1>5. NumberOrder(a, b) = Code[a[least]] - Code[b[least]]
  <2>1. D # {} /\ Len(a) = Len(b)
    BY <1>2
  <2>. QED BY <2>1 DEF NumberOrder
<1>6. a[i] \in Digit /\ b[i] \in Digit /\ a[i] # b[i]
  <2>1. i \in DOMAIN a /\ i \in DOMAIN b
    BY <1>1, <1>2
  <2>. QED BY <1>2, <2>1 DEF Figures
<1>7. /\ Code[a[i]] \in Int /\ Code[b[i]] \in Int /\ Code[a[i]] # Code[b[i]]
  BY <1>6, Codes
<1>. HIDE DEF least
<1>. QED BY <1>4, <1>5, <1>7

\* A number is like itself.
LEMMA NumberSame ==
    ASSUME NEW a \in Figures
    PROVE  NumberOrder(a, a) = 0
BY DEF NumberOrder

\* Numbers of different lengths.
LEMMA NumberLonger ==
    ASSUME NEW a \in Figures, NEW b \in Figures, Len(a) # Len(b)
    PROVE  NumberOrder(a, b) = Len(a) - Len(b) /\ Len(a) \in Nat /\ Len(b) \in Nat
BY DEF NumberOrder, Figures

\* What the order of two numbers is the other way round.
LEMMA NumberTurned ==
    ASSUME NEW a \in Figures, NEW b \in Figures
    PROVE  /\ NumberOrder(a, b) \in Int /\ NumberOrder(b, a) = - NumberOrder(a, b)
           /\ NumberOrder(a, b) = 0 => a = b
<1>1. CASE a = b
  BY <1>1, NumberSame
<1>2. CASE Len(a) # Len(b)
  <2>1. NumberOrder(a, b) = Len(a) - Len(b) /\ Len(a) \in Nat /\ Len(b) \in Nat
    BY <1>2, NumberLonger
  <2>2. NumberOrder(b, a) = Len(b) - Len(a)
    BY <1>2, NumberLonger
  <2>. QED BY <1>2, <2>1, <2>2
<1>3. CASE Len(a) = Len(b) /\ a # b
  <2>1. PICK i : Differ(a, b, i)
    BY <1>3, DifferSomewhere
  <2>2. Differ(b, a, i)
    <3>1. DOMAIN a = DOMAIN b
      BY <1>3 DEF Figures
    <3>. QED BY <2>1, <3>1 DEF Differ
  <2>3. NumberOrder(a, b) = Code[a[i]] - Code[b[i]]
        /\ Code[a[i]] \in Int /\ Code[b[i]] \in Int /\ Code[a[i]] # Code[b[i]]
    BY <1>3, <2>1, DecidedThere
  <2>4. NumberOrder(b, a) = Code[b[i]] - Code[a[i]]
    BY <1>3, <2>2, DecidedThere
  <2>. QED BY <2>3, <2>4
<1>. QED BY <1>1, <1>2, <1>3

\* The order of numbers goes on from one to the next.
LEMMA NumberGoesOn ==
    ASSUME NEW a \in Figures, NEW b \in Figures, NEW c \in Figures,
           NumberOrder(a, b) <= 0, NumberOrder(b, c) <= 0
    PROVE  NumberOrder(a, c) <= 0
<1>0. PICK l, m, n : l = Len(a) /\ m = Len(b) /\ n = Len(c)
  OBVIOUS
<1>1. l \in Nat /\ m \in Nat /\ n \in Nat /\ DOMAIN a = 1..l /\ DOMAIN b = 1..m /\ DOMAIN c = 1..n
  BY <1>0 DEF Figures
<1>2. l <= m /\ m <= n
  BY <1>0, <1>1, NumberLonger
<1>3. CASE l # n
  <2>1. NumberOrder(a, c) = l - n
    BY <1>0, <1>3, NumberLonger
  <2>. QED BY <1>1, <1>2, <1>3, <2>1
<1>4. CASE l = n /\ (a = b \/ b = c \/ a = c)
  BY <1>4, NumberSame
<1>5. CASE l = n /\ a # b /\ b # c /\ a # c
  <2>0. l = m /\ m = n
    BY <1>1, <1>2, <1>5
  <2>1. PICK i : Differ(a, b, i)
    BY <1>0, <1>5, <2>0, DifferSomewhere
  <2>2. PICK j : Differ(b, c, j)
    BY <1>0, <1>5, <2>0, DifferSomewhere
  <2>3. Code[a[i]] - Code[b[i]] <= 0 /\ Code[a[i]] \in Int /\ Code[b[i]] \in Int /\ Code[a[i]] # Code[b[i]]
    BY <1>0, <2>0, <2>1, DecidedThere
  <2>4. Code[b[j]] - Code[c[j]] <= 0 /\ Code[b[j]] \in Int /\ Code[c[j]] \in Int /\ Code[b[j]] # Code[c[j]]
    BY <1>0, <2>0, <2>2, DecidedThere
  <2>5. i \in 1..l /\ j \in 1..l /\ (\A k \in 1..l : k < i => a[k] = b[k])
        /\ (\A k \in 1..l : k < j => b[k] = c[k])
    BY <1>1, <2>0, <2>1, <2>2 DEF Differ
  <2>6. PICK k : k = IF i <= j THEN i ELSE j
    OBVIOUS
  <2>7. k \in 1..l /\ Code[a[k]] < Code[c[k]] /\ Code[a[k]] \in Int /\ Code[c[k]] \in Int
    <3>1. CASE i < j
      BY <2>3, <2>5, <2>6, <3>1
    <3>2. CASE j < i
      BY <2>4, <2>5, <2>6, <3>2
    <3>3. CASE i = j
      BY <2>3, <2>4, <2>5, <2>6, <3>3
    <3>. QED BY <2>5, <3>1, <3>2, <3>3
  <2>8. Differ(a, c, k)
    <3>1. a[k] # c[k]
      BY <2>7
    <3>2. \A h \in 1..l : h < k => a[h] = c[h]
      BY <2>5, <2>6
    <3>. QED BY <1>1, <2>7, <3>1, <3>2 DEF Differ
  <2>9. NumberOrder(a, c) = Code[a[k]] - Code[c[k]]
    <3>1. Len(a) = Len(c)
      BY <1>0, <2>0
    <3>. QED BY <2>8, <3>1, DecidedThere
  <2>. QED BY <2>7, <2>9
<1>. QED BY <1>3, <1>4, <1>5

\* A version from a place on.
LEMMA PartsOf ==
    ASSUME NEW v \in Version, NEW i \in 1..(Len(v) + 1)
    PROVE  /\ SubSeq(v, i, Len(v)) \in Version /\ Len(SubSeq(v, i, Len(v))) = Len(v) + 1 - i
           /\ SubSeq(v, i, Len(v)) # <<>> <=> i <= Len(v)
           /\ i <= Len(v) => Head(SubSeq(v, i, Len(v))) = v[i]
<1>1. PICK n \in Nat : n = Len(v) /\ DOMAIN v = 1..n /\ v \in [1..n -> DOMAIN Code]
  BY DEF Version
<1>2. PICK w : w = SubSeq(v, i, n)
  OBVIOUS
<1>3. w = [k \in 1..(n + 1 - i) |-> v[i + k - 1]]
  BY <1>1, <1>2
<1>4. \A k \in 1..(n + 1 - i) : v[i + k - 1] \in DOMAIN Code
  BY <1>1
<1>5. n + 1 - i \in Nat
  BY <1>1
<1>6. w \in Seq(DOMAIN Code) /\ Len(w) = n + 1 - i
  BY <1>3, <1>4, <1>5
<1>7. w # <<>> <=> i <= n
  BY <1>1, <1>6
<1>8. i <= n => Head(w) = v[i]
  <2>. SUFFICES ASSUME i <= n PROVE w[1] = v[i]
    BY <1>6, <1>7
  <2>1. 1 \in 1..(n + 1 - i) /\ i + 1 - 1 = i
    BY <1>1
  <2>. QED BY <1>3, <2>1
<1>. QED BY <1>1, <1>2, <1>6, <1>7, <1>8 DEF Version

\* What is left behind a number is shorter if there is one.
LEMMA NumberOf ==
    ASSUME NEW v \in Version
    PROVE  /\ Number(v).digits \in Figures /\ Number(v).rest \in Version
           /\ Len(Number(v).rest) \in Nat /\ Len(v) \in Nat /\ Len(Number(v).rest) <= Len(v)
           /\ AtDigit(v) => Len(Number(v).rest) < Len(v)
<1>1. PICK l \in Nat : l = Len(v) /\ DOMAIN v = 1..l /\ v \in [1..l -> DOMAIN Code]
  BY DEF Version
<1>. DEFINE Ends(k) == (\A i \in 1..k : IsDigit(v[i])) /\ ~AtDigit(SubSeq(v, k + 1, l))
            n == CHOOSE k \in 0..l : Ends(k)
            Starts(k) == (\A i \in 1..k : v[i] = "0") /\ (k < n => v[k + 1] # "0")
            z == CHOOSE k \in 0..n : Starts(k)
<1>2. Number(v) = [digits |-> SubSeq(v, z + 1, n), rest |-> SubSeq(v, n + 1, l)]
  BY <1>1 DEF Number
<1>3. \A k \in 0..l : AtDigit(SubSeq(v, k + 1, l)) <=> k < l /\ IsDigit(v[k + 1])
  <2>. SUFFICES ASSUME NEW k \in 0..l
                PROVE  AtDigit(SubSeq(v, k + 1, l)) <=> k < l /\ IsDigit(v[k + 1])
    OBVIOUS
  <2>1. k + 1 \in 1..(Len(v) + 1) /\ (k + 1 <= l <=> k < l)
    BY <1>1
  <2>. QED BY <1>1, <2>1, PartsOf DEF AtDigit
<1>4. \E k \in 0..l : Ends(k)
  <2>. DEFINE D == {k \in 0..l : ~AtDigit(SubSeq(v, k + 1, l))}
  <2>1. l \in D /\ D \subseteq Nat
    BY <1>1, <1>3
  <2>2. PICK k \in D : \A j \in D : k <= j
    <3>. HIDE DEF D
    <3>. QED BY <2>1, SmallestOf
  <2>3. ASSUME NEW i \in 1..k PROVE IsDigit(v[i])
    <3>1. i - 1 \in 0..l /\ i - 1 < k /\ (i - 1) + 1 = i
      BY <1>1
    <3>2. i - 1 \notin D
      BY <2>2, <3>1
    <3>. QED BY <1>3, <3>1, <3>2
  <2>. QED BY <2>2, <2>3
<1>5. n \in 0..l /\ Ends(n)
  <2>. HIDE DEF Ends
  <2>. QED BY <1>4
<1>. HIDE DEF n
<1>6. \E k \in 0..n : Starts(k)
  <2>. DEFINE D == {k \in 0..n : k < n => v[k + 1] # "0"}
  <2>1. n \in D /\ D \subseteq Nat
    BY <1>5
  <2>2. PICK k \in D : \A j \in D : k <= j
    <3>. HIDE DEF D
    <3>. QED BY <2>1, SmallestOf
  <2>3. ASSUME NEW i \in 1..k PROVE v[i] = "0"
    <3>1. i - 1 \in 0..n /\ i - 1 < k /\ (i - 1) + 1 = i
      BY <1>5
    <3>2. i - 1 \notin D
      BY <2>2, <3>1
    <3>. QED BY <3>1, <3>2
  <2>. QED BY <2>2, <2>3
<1>7. z \in 0..n
  <2>. HIDE DEF Starts
  <2>. QED BY <1>6
<1>. HIDE DEF z
<1>8. PICK e, b : /\ Number(v) = [digits |-> SubSeq(v, b + 1, e), rest |-> SubSeq(v, e + 1, l)]
                  /\ e \in 0..l /\ b \in 0..e
                  /\ (\A i \in 1..e : IsDigit(v[i])) /\ ~AtDigit(SubSeq(v, e + 1, l))
  BY <1>2, <1>5, <1>7
<1>9. l \in Nat /\ e \in Nat /\ b \in Nat /\ e <= l /\ b <= e /\ e - b \in Nat /\ l - e \in Nat
  BY <1>8
<1>10. SubSeq(v, b + 1, e) \in Figures
  <2>1. SubSeq(v, b + 1, e) = [k \in 1..(e - b) |-> v[b + k]]
    <3>1. SubSeq(v, b + 1, e) = [k \in 1..(e + 1 - (b + 1)) |-> v[(b + 1) + k - 1]]
      BY <1>1, <1>9
    <3>2. e + 1 - (b + 1) = e - b /\ \A k \in 1..(e - b) : (b + 1) + k - 1 = b + k
      BY ONLY <1>9
    <3>. QED BY ONLY <3>1, <3>2
  <2>2. ASSUME NEW k \in 1..(e - b) PROVE v[b + k] \in Digit
    <3>1. b + k \in 1..e
      BY ONLY <1>9
    <3>. QED BY <1>8, <3>1 DEF IsDigit, Digit
  <2>3. [k \in 1..(e - b) |-> v[b + k]] \in Seq(Digit)
    BY ONLY <1>9, <2>2
  <2>. QED BY ONLY <2>1, <2>3 DEF Figures
<1>11. /\ SubSeq(v, e + 1, l) \in Version /\ Len(SubSeq(v, e + 1, l)) = l - e
  <2>1. e + 1 \in 1..(l + 1) /\ l + 1 - (e + 1) = l - e
    BY ONLY <1>9
  <2>. QED BY <1>1, <2>1, PartsOf
<1>12. AtDigit(v) => e # 0
  <2>. SUFFICES ASSUME AtDigit(v), e = 0 PROVE FALSE
    OBVIOUS
  <2>1. SubSeq(v, 1, l) = v
    BY <1>1
  <2>2. SubSeq(v, e + 1, l) = v
    BY <2>1
  <2>. QED BY ONLY <2>2, <1>8, AtDigit(v)
<1>13. l - e <= l /\ (e # 0 => l - e < l)
  BY ONLY <1>9
<1>14. Number(v).digits = SubSeq(v, b + 1, e) /\ Number(v).rest = SubSeq(v, e + 1, l)
  BY ONLY <1>8
<1>. QED BY ONLY <1>1, <1>9, <1>10, <1>11, <1>12, <1>13, <1>14

\* A version at its end or at a digit.
AtNumber(v) == v = <<>> \/ AtDigit(v)

\* Only these have the order of the end; the rest of others is shorter.
LEMMA Orders ==
    ASSUME NEW v \in Version
    PROVE  /\ OrderOf(v) \in Int /\ (OrderOf(v) = 0 <=> AtNumber(v))
           /\ Rest(v) \in Version /\ Len(Rest(v)) \in Nat /\ Len(Rest(v)) <= Len(v)
           /\ ~AtNumber(v) => Len(Rest(v)) < Len(v)
<1>1. CASE v = <<>>
  BY <1>1 DEF OrderOf, AtNumber, Rest, Version
<1>2. CASE v # <<>>
  <2>1. PICK c : c = Head(v)
    OBVIOUS
  <2>2. c \in DOMAIN Code
    BY <1>2, <2>1 DEF Version
  <2>3. Code[c] \in Int /\ Code[c] > 0
    BY <2>2, Codes
  <2>4. c = "~" => ~IsDigit(c)
    BY CodeAssumption DEF IsDigit
  <2>5. OrderOf(v) = CASE c = "~" -> -1 [] IsDigit(c) -> 0 [] c \in Letters -> Code[c]
                       [] OTHER -> Code[c] + 256
    BY <1>2, <2>1 DEF OrderOf
  <2>6. IsDigit(c) => c \notin Letters
    BY CodeAssumption DEF IsDigit
  <2>7. OrderOf(v) \in Int /\ (OrderOf(v) = 0 <=> IsDigit(c))
    <3>1. CASE IsDigit(c)
      BY <2>4, <2>5, <2>6, <3>1
    <3>2. CASE c = "~"
      <4>1. c \notin Letters
        BY <3>2, CodeAssumption
      <4>. QED BY <2>4, <2>5, <3>2, <4>1
    <3>3. CASE ~IsDigit(c) /\ c # "~" /\ c \in Letters
      BY <2>3, <2>5, <3>3
    <3>4. CASE ~IsDigit(c) /\ c # "~" /\ c \notin Letters
      BY <2>3, <2>5, <3>4
    <3>. QED BY <3>1, <3>2, <3>3, <3>4
  <2>8. AtNumber(v) <=> IsDigit(c)
    BY <1>2, <2>1 DEF AtNumber, AtDigit
  <2>9. Rest(v) = Tail(v) /\ Tail(v) \in Version /\ Len(Tail(v)) \in Nat /\ Len(Tail(v)) < Len(v) /\ Len(v) \in Nat
    BY <1>2 DEF Rest, Version
  <2>. QED BY <2>7, <2>8, <2>9
<1>. QED BY <1>1, <1>2

\* What is decided where two versions begin, and where to go on in each.
First(v, r) ==
    IF OrderOf(v) # OrderOf(r) THEN OrderOf(v) - OrderOf(r)
    ELSE IF AtNumber(v) THEN NumberOrder(Number(v).digits, Number(r).digits)
    ELSE 0
Ahead(v) == IF AtNumber(v) THEN Number(v).rest ELSE Rest(v)

\* The walk comes nearer to the end.
LEMMA AheadOf ==
    ASSUME NEW v \in Version
    PROVE  /\ Ahead(v) \in Version /\ Len(v) \in Nat /\ Len(Ahead(v)) \in Nat
           /\ Len(Ahead(v)) <= Len(v) /\ (v # <<>> => Len(Ahead(v)) < Len(v))
BY NumberOf, Orders DEF Ahead, AtNumber

\* A comparison, by what is decided first.
LEMMA CompareIs ==
    ASSUME NEW v \in Version, NEW r \in Version, NEW f
    PROVE  Compare(v, r, f) = IF v = <<>> /\ r = <<>> THEN 0
                              ELSE IF First(v, r) # 0 THEN First(v, r)
                              ELSE f[<<Ahead(v), Ahead(r)>>]
<1>1. /\ OrderOf(v) \in Int /\ (OrderOf(v) = 0 <=> AtNumber(v))
      /\ OrderOf(r) \in Int /\ (OrderOf(r) = 0 <=> AtNumber(r))
  BY Orders
<1>2. CASE v = <<>> /\ r = <<>>
  BY <1>2 DEF Compare
<1>3. CASE ~(v = <<>> /\ r = <<>>) /\ ~(AtNumber(v) /\ AtNumber(r))
  <2>1. (v # <<>> /\ ~AtDigit(v)) \/ (r # <<>> /\ ~AtDigit(r))
    BY <1>3 DEF AtNumber
  <2>2. Compare(v, r, f) = IF OrderOf(v) # OrderOf(r) THEN OrderOf(v) - OrderOf(r)
                           ELSE f[<<Rest(v), Rest(r)>>]
    BY <1>3, <2>1 DEF Compare
  <2>3. OrderOf(v) # OrderOf(r) => First(v, r) = OrderOf(v) - OrderOf(r) /\ First(v, r) # 0
    BY <1>1 DEF First
  <2>4. OrderOf(v) = OrderOf(r) => First(v, r) = 0 /\ Ahead(v) = Rest(v) /\ Ahead(r) = Rest(r)
    BY <1>1, <1>3 DEF First, Ahead
  <2>. QED BY <1>3, <2>2, <2>3, <2>4
<1>4. CASE ~(v = <<>> /\ r = <<>>) /\ AtNumber(v) /\ AtNumber(r)
  <2>1. ~((v # <<>> /\ ~AtDigit(v)) \/ (r # <<>> /\ ~AtDigit(r)))
    BY <1>4 DEF AtNumber
  <2>2. First(v, r) = NumberOrder(Number(v).digits, Number(r).digits)
    BY <1>1, <1>4 DEF First
  <2>3. Ahead(v) = Number(v).rest /\ Ahead(r) = Number(r).rest
    BY <1>4 DEF Ahead
  <2>. QED BY <1>4, <2>1, <2>2, <2>3 DEF Compare
<1>. QED BY <1>2, <1>3, <1>4

\* What is decided first is the other way round for the other way round.
LEMMA FirstTurned ==
    ASSUME NEW v \in Version, NEW r \in Version
    PROVE  First(v, r) \in Int /\ First(r, v) = - First(v, r)
<1>1. /\ OrderOf(v) \in Int /\ (OrderOf(v) = 0 <=> AtNumber(v))
      /\ OrderOf(r) \in Int /\ (OrderOf(r) = 0 <=> AtNumber(r))
  BY Orders
<1>2. PICK a \in Figures, b \in Figures : a = Number(v).digits /\ b = Number(r).digits
  BY NumberOf
<1>3. NumberOrder(a, b) \in Int /\ NumberOrder(b, a) = - NumberOrder(a, b)
  BY NumberTurned
<1>. QED BY <1>1, <1>2, <1>3 DEF First

\* And it goes on from one version to the next.
LEMMA FirstGoesOn ==
    ASSUME NEW v \in Version, NEW w \in Version, NEW u \in Version,
           First(v, w) <= 0, First(w, u) <= 0
    PROVE  First(v, u) <= 0 /\ (First(v, u) = 0 => First(v, w) = 0 /\ First(w, u) = 0)
<1>1. /\ OrderOf(v) \in Int /\ (OrderOf(v) = 0 <=> AtNumber(v))
      /\ OrderOf(w) \in Int /\ (OrderOf(w) = 0 <=> AtNumber(w))
      /\ OrderOf(u) \in Int /\ (OrderOf(u) = 0 <=> AtNumber(u))
  BY Orders
<1>2. PICK a \in Figures, b \in Figures, c \in Figures :
        a = Number(v).digits /\ b = Number(w).digits /\ c = Number(u).digits
  BY NumberOf
<1>3. OrderOf(v) <= OrderOf(w) /\ OrderOf(w) <= OrderOf(u)
  BY <1>1 DEF First
<1>4. CASE OrderOf(v) # OrderOf(u)
  BY <1>1, <1>3, <1>4 DEF First
<1>5. CASE OrderOf(v) = OrderOf(u) /\ ~AtNumber(v)
  <2>1. OrderOf(v) = OrderOf(w) /\ OrderOf(w) = OrderOf(u)
    BY <1>1, <1>3, <1>5
  <2>. QED BY <1>1, <1>5, <2>1 DEF First
<1>6. CASE OrderOf(v) = OrderOf(u) /\ AtNumber(v)
  <2>1. OrderOf(v) = OrderOf(w) /\ OrderOf(w) = OrderOf(u)
    BY <1>1, <1>3, <1>6
  <2>2. First(v, w) = NumberOrder(a, b) /\ First(w, u) = NumberOrder(b, c) /\ First(v, u) = NumberOrder(a, c)
    BY <1>1, <1>2, <1>6, <2>1 DEF First
  <2>3. NumberOrder(a, c) <= 0
    BY <2>2, NumberGoesOn
  <2>4. ASSUME NumberOrder(a, c) = 0 PROVE NumberOrder(a, b) = 0 /\ NumberOrder(b, c) = 0
    <3>1. a = c
      BY <2>4, NumberTurned
    <3>2. NumberOrder(a, b) \in Int /\ NumberOrder(b, a) = - NumberOrder(a, b)
      BY NumberTurned
    <3>. QED BY <2>2, <3>1, <3>2
  <2>. QED BY <2>2, <2>3, <2>4
<1>. QED BY <1>4, <1>5, <1>6

-----------------------------------------------------------------------------
(* The function that the recursion of CompareVersion defines.              *)

Pairs == Version \X Version
Size(p) == Len(p[1]) + Len(p[2])
Onward(p) == <<Ahead(p[1]), Ahead(p[2])>>
Over(p) == p[1] = <<>> /\ p[2] = <<>>

\* A comparison of the pair p, by what f says of smaller ones.
Follows(p, f) ==
    IF Over(p) THEN 0 ELSE IF First(p[1], p[2]) # 0 THEN First(p[1], p[2]) ELSE f[Onward(p)]

\* The walk goes on with a smaller pair.
LEMMA OnwardIs ==
    ASSUME NEW p \in Pairs
    PROVE  /\ Onward(p) \in Pairs /\ Size(p) \in Nat /\ Size(Onward(p)) \in Nat
           /\ ~Over(p) => Size(Onward(p)) < Size(p)
           /\ First(p[1], p[2]) \in Int
<1>1. p[1] \in Version /\ p[2] \in Version
  BY DEF Pairs
<1>2. PICK v \in Version, r \in Version : v = p[1] /\ r = p[2]
  BY <1>1
<1>3. /\ Ahead(v) \in Version /\ Len(v) \in Nat /\ Len(Ahead(v)) \in Nat
      /\ Len(Ahead(v)) <= Len(v) /\ (v # <<>> => Len(Ahead(v)) < Len(v))
  BY AheadOf
<1>4. /\ Ahead(r) \in Version /\ Len(r) \in Nat /\ Len(Ahead(r)) \in Nat
      /\ Len(Ahead(r)) <= Len(r) /\ (r # <<>> => Len(Ahead(r)) < Len(r))
  BY AheadOf
<1>5. Onward(p) = <<Ahead(v), Ahead(r)>> /\ Onward(p)[1] = Ahead(v) /\ Onward(p)[2] = Ahead(r)
  BY <1>2 DEF Onward
<1>6. Size(p) = Len(v) + Len(r) /\ Size(Onward(p)) = Len(Ahead(v)) + Len(Ahead(r))
  BY <1>2, <1>5 DEF Size
<1>7. Onward(p) \in Pairs
  BY <1>3, <1>4, <1>5 DEF Pairs
<1>8. First(p[1], p[2]) \in Int
  BY <1>1, FirstTurned
<1>9. ~Over(p) => v # <<>> \/ r # <<>>
  BY <1>2 DEF Over
<1>. QED BY ONLY <1>3, <1>4, <1>6, <1>7, <1>8, <1>9

\* Right(n, f): f is right about the pairs smaller than n.
Right(n, f) == f \in [Pairs -> Int] /\ \A p \in Pairs : Size(p) < n => f[p] = Follows(p, f)

\* There is one for every n.
LEMMA RightThere == \A n \in Nat : \E f : Right(n, f)
<1>. DEFINE Bad == {n \in Nat : ~ \E f : Right(n, f)}
<1>. SUFFICES ASSUME Bad # {} PROVE FALSE
  OBVIOUS
<1>1. PICK n \in Bad : \A k \in Bad : n <= k
  <2>1. Bad \subseteq Nat
    OBVIOUS
  <2>. HIDE DEF Bad
  <2>. QED BY <2>1, SmallestOf
<1>2. n # 0
  <2>. DEFINE f == [p \in Pairs |-> 0]
  <2>1. f \in [Pairs -> Int]
    OBVIOUS
  <2>2. \A p \in Pairs : ~(Size(p) < 0)
    BY OnwardIs
  <2>3. Right(0, f)
    <3>. HIDE DEF f
    <3>. QED BY <2>1, <2>2 DEF Right
  <2>. QED BY <2>3
<1>3. n - 1 \in Nat /\ n - 1 < n /\ n \in Nat
  BY <1>2
<1>4. PICK f : Right(n - 1, f)
  <2>1. n - 1 \notin Bad
    BY <1>1, <1>3
  <2>. QED BY <1>3, <2>1
<1>. DEFINE g == [p \in Pairs |-> Follows(p, f)]
<1>5. g \in [Pairs -> Int]
  <2>1. \A p \in Pairs : Follows(p, f) \in Int
    BY <1>4, OnwardIs DEF Follows, Right
  <2>. QED BY <2>1
<1>6. ASSUME NEW p \in Pairs, Size(p) < n PROVE g[p] = Follows(p, g)
  <2>1. Onward(p) \in Pairs /\ (~Over(p) => Size(Onward(p)) < n - 1)
    BY <1>3, <1>6, OnwardIs
  <2>2. ~Over(p) => g[Onward(p)] = f[Onward(p)]
    BY <1>4, <2>1 DEF Right
  <2>3. g[p] = Follows(p, f)
    OBVIOUS
  <2>. HIDE DEF g
  <2>. QED BY <2>2, <2>3 DEF Follows
<1>7. Right(n, g)
  <2>. HIDE DEF g
  <2>. QED BY <1>5, <1>6 DEF Right
<1>. QED BY <1>7

\* Those that are right agree.
LEMMA RightAgree ==
    ASSUME NEW m \in Nat, NEW n \in Nat, NEW f, NEW g, Right(m, f), Right(n, g),
           NEW p \in Pairs, Size(p) < m, Size(p) < n
    PROVE  f[p] = g[p]
<1>. DEFINE Bad == {k \in Nat : \E q \in Pairs : Size(q) = k /\ k < m /\ k < n /\ f[q] # g[q]}
<1>. SUFFICES ASSUME f[p] # g[p] PROVE FALSE
  OBVIOUS
<1>1. PICK k \in Bad : \A j \in Bad : k <= j
  <2>1. Size(p) \in Bad
    BY OnwardIs
  <2>2. Bad \subseteq Nat
    OBVIOUS
  <2>. HIDE DEF Bad
  <2>. QED BY <2>1, <2>2, SmallestOf
<1>2. PICK q \in Pairs : Size(q) = k /\ k < m /\ k < n /\ f[q] # g[q]
  OBVIOUS
<1>3. f[q] = Follows(q, f) /\ g[q] = Follows(q, g)
  BY <1>2 DEF Right
<1>4. ~Over(q) => f[Onward(q)] = g[Onward(q)]
  <2>. SUFFICES ASSUME ~Over(q) PROVE f[Onward(q)] = g[Onward(q)]
    OBVIOUS
  <2>1. Onward(q) \in Pairs /\ Size(Onward(q)) \in Nat /\ Size(Onward(q)) < k /\ k \in Nat
    BY <1>2, OnwardIs
  <2>2. Size(Onward(q)) \notin Bad
    BY <1>1, <2>1
  <2>3. Size(Onward(q)) < m /\ Size(Onward(q)) < n
    BY <1>2, <2>1
  <2>. QED BY <2>1, <2>2, <2>3
<1>. QED BY <1>2, <1>3, <1>4 DEF Follows

\* So there is a function that is right about all pairs, and Comparison is one.
LEMMA ComparisonIs ==
    /\ Comparison \in [Pairs -> Int]
    /\ \A p \in Pairs : Comparison[p] = Follows(p, Comparison)
<1>. DEFINE Least(n) == CHOOSE f : Right(n, f)
            F == [p \in Pairs |-> Least(Size(p) + 1)[p]]
<1>1. \A n \in Nat : Right(n, Least(n))
  BY RightThere
<1>. HIDE DEF Least
<1>2. ASSUME NEW p \in Pairs PROVE F[p] = Follows(p, F)
  <2>1. PICK n \in Nat : n = Size(p)
    BY OnwardIs
  <2>2. Right(n + 1, Least(n + 1)) /\ n + 1 \in Nat /\ n < n + 1
    BY <1>1, <2>1
  <2>3. F[p] = Least(n + 1)[p]
    BY <2>1
  <2>4. F[p] = Follows(p, Least(n + 1))
    BY <2>1, <2>2, <2>3 DEF Right
  <2>5. ~Over(p) => F[Onward(p)] = Least(n + 1)[Onward(p)]
    <3>. SUFFICES ASSUME ~Over(p) PROVE F[Onward(p)] = Least(n + 1)[Onward(p)]
      OBVIOUS
    <3>1. PICK q \in Pairs : q = Onward(p)
      BY OnwardIs
    <3>2. PICK k \in Nat : k = Size(q) /\ k < n
      BY <2>1, <3>1, OnwardIs
    <3>3. F[q] = Least(k + 1)[q] /\ Right(k + 1, Least(k + 1))
      BY <1>1, <3>2
    <3>4. k + 1 \in Nat /\ k < k + 1 /\ k < n + 1
      BY <3>2
    <3>5. Least(k + 1)[q] = Least(n + 1)[q]
      BY <2>2, <3>2, <3>3, <3>4, RightAgree
    <3>. QED BY <3>1, <3>3, <3>5
  <2>. HIDE DEF F
  <2>. QED BY <2>4, <2>5 DEF Follows
<1>3. \A f : \A p \in Pairs : Compare(p[1], p[2], f) = Follows(p, f)
  <2>. SUFFICES ASSUME NEW p \in Pairs, NEW f PROVE Compare(p[1], p[2], f) = Follows(p, f)
    OBVIOUS
  <2>1. p[1] \in Version /\ p[2] \in Version
    BY DEF Pairs
  <2>. QED BY <2>1, CompareIs DEF Follows, Over, Onward
<1>4. F = [p \in Pairs |-> Compare(p[1], p[2], F)]
  <2>1. \A p \in Pairs : F[p] = Compare(p[1], p[2], F)
    BY <1>2, <1>3
  <2>2. F = [p \in Pairs |-> F[p]]
    OBVIOUS
  <2>. HIDE DEF F
  <2>. QED BY <2>1, <2>2
<1>5. Comparison = [p \in Pairs |-> Compare(p[1], p[2], Comparison)]
  <2>1. Comparison = CHOOSE f : f = [p \in Pairs |-> Compare(p[1], p[2], f)]
    BY DEF Comparison, Pairs
  <2>. HIDE DEF F
  <2>. QED BY <1>4, <2>1
<1>6. \A p \in Pairs : Comparison[p] = Follows(p, Comparison)
  BY <1>3, <1>5
<1>7. \A p \in Pairs : Comparison[p] \in Int
  <2>. DEFINE Bad == {k \in Nat : \E q \in Pairs : Size(q) = k /\ Comparison[q] \notin Int}
  <2>. SUFFICES ASSUME NEW p \in Pairs, Comparison[p] \notin Int PROVE FALSE
    OBVIOUS
  <2>1. PICK k \in Bad : \A j \in Bad : k <= j
    <3>1. Size(p) \in Bad
      BY OnwardIs
    <3>2. Bad \subseteq Nat
      OBVIOUS
    <3>. HIDE DEF Bad
    <3>. QED BY <3>1, <3>2, SmallestOf
  <2>2. PICK q \in Pairs : Size(q) = k /\ Comparison[q] \notin Int
    OBVIOUS
  <2>3. ~Over(q) => Comparison[Onward(q)] \in Int
    <3>. SUFFICES ASSUME ~Over(q) PROVE Comparison[Onward(q)] \in Int
      OBVIOUS
    <3>1. Onward(q) \in Pairs /\ Size(Onward(q)) \in Nat /\ Size(Onward(q)) < k
      BY <2>2, OnwardIs
    <3>2. Size(Onward(q)) \notin Bad
      BY <2>1, <3>1
    <3>. QED BY <3>1, <3>2
  <2>. QED BY <1>6, <2>2, <2>3, OnwardIs DEF Follows
<1>8. Comparison = [p \in Pairs |-> Comparison[p]]
  BY <1>5
<1>. QED BY <1>6, <1>7, <1>8

\* What two versions are compared to.
Walked(v, r) ==
    /\ CompareVersion(v, r) \in Int /\ First(v, r) \in Int
    /\ CompareVersion(v, r) =
         IF v = <<>> /\ r = <<>> THEN 0
         ELSE IF First(v, r) # 0 THEN First(v, r)
         ELSE CompareVersion(Ahead(v), Ahead(r))

\* CompareVersion is as the code walks over them.
LEMMA CompareVersionIs ==
    ASSUME NEW v \in Version, NEW r \in Version
    PROVE  Walked(v, r)
<1>1. PICK p \in Pairs : p = <<v, r>> /\ p[1] = v /\ p[2] = r
  <2>1. <<v, r>> \in Pairs
    BY DEF Pairs
  <2>. QED BY <2>1
<1>2. CompareVersion(v, r) = Comparison[p]
  BY <1>1 DEF CompareVersion
<1>3. Comparison[p] \in Int /\ Comparison[p] = Follows(p, Comparison)
  BY ComparisonIs
<1>4. CompareVersion(Ahead(v), Ahead(r)) = Comparison[Onward(p)]
  BY <1>1 DEF CompareVersion, Onward
<1>. QED BY <1>1, <1>2, <1>3, <1>4, FirstTurned DEF Walked, Follows, Over

\* Turned(v, r): compared the other way round, the two are in the same order.
Turned(v, r) == CompareVersion(r, v) = - CompareVersion(v, r)

\* It is so for any two.
LEMMA CompareTurned == \A v, r \in Version : Turned(v, r)
<1>. DEFINE Bad == {k \in Nat : \E v, r \in Version : k = Len(v) + Len(r) /\ ~Turned(v, r)}
<1>. SUFFICES ASSUME NEW x \in Version, NEW y \in Version, ~Turned(x, y) PROVE FALSE
  OBVIOUS
<1>1. PICK k \in Bad : \A j \in Bad : k <= j
  <2>1. Len(x) + Len(y) \in Bad
    BY AheadOf
  <2>2. Bad \subseteq Nat
    OBVIOUS
  <2>. HIDE DEF Bad
  <2>. QED BY <2>1, <2>2, SmallestOf
<1>2. PICK v \in Version, r \in Version : k = Len(v) + Len(r) /\ ~Turned(v, r)
  OBVIOUS
<1>a. Walked(v, r) /\ Walked(r, v)
  BY CompareVersionIs
<1>b. First(r, v) = - First(v, r)
  BY FirstTurned
<1>3. v # <<>> \/ r # <<>>
  BY <1>2, <1>a DEF Turned, Walked
<1>4. First(v, r) = 0 /\ First(r, v) = 0
  BY <1>2, <1>3, <1>a, <1>b DEF Turned, Walked
<1>5. PICK a \in Version, b \in Version :
        /\ a = Ahead(v) /\ b = Ahead(r) /\ Len(a) + Len(b) \in Nat /\ Len(a) + Len(b) < k
  BY <1>2, <1>3, AheadOf
<1>6. Turned(a, b)
  <2>1. Len(a) + Len(b) \notin Bad
    BY <1>1, <1>5
  <2>. QED BY <1>5, <2>1
<1>7. CompareVersion(v, r) = CompareVersion(a, b) /\ CompareVersion(r, v) = CompareVersion(b, a)
  BY <1>3, <1>4, <1>5, <1>a DEF Walked
<1>. QED BY <1>2, <1>6, <1>7 DEF Turned

\* Ordered(v, w, u): two comparisons that go on from one another are one.
Ordered(v, w, u) ==
    CompareVersion(v, w) <= 0 /\ CompareVersion(w, u) <= 0 => CompareVersion(v, u) <= 0

\* It is so for any three.
LEMMA CompareGoesOn == \A v, w, u \in Version : Ordered(v, w, u)
<1>. DEFINE Sum(v, w, u) == Len(v) + Len(w) + Len(u)
            Bad == {k \in Nat : \E v, w, u \in Version : k = Sum(v, w, u) /\ ~Ordered(v, w, u)}
<1>. SUFFICES ASSUME NEW x \in Version, NEW y \in Version, NEW z \in Version, ~Ordered(x, y, z)
              PROVE  FALSE
  OBVIOUS
<1>1. PICK k \in Bad : \A j \in Bad : k <= j
  <2>1. Sum(x, y, z) \in Nat
    BY AheadOf
  <2>2. Sum(x, y, z) \in Bad
    BY <2>1
  <2>3. Bad \subseteq Nat
    OBVIOUS
  <2>. HIDE DEF Bad, Sum
  <2>. QED BY <2>2, <2>3, SmallestOf
<1>2. PICK v \in Version, w \in Version, u \in Version : k = Sum(v, w, u) /\ ~Ordered(v, w, u)
  OBVIOUS
<1>a. Walked(v, w) /\ Walked(w, u) /\ Walked(v, u)
  BY CompareVersionIs
<1>3. /\ CompareVersion(v, w) \in Int /\ CompareVersion(w, u) \in Int /\ CompareVersion(v, u) \in Int
      /\ CompareVersion(v, w) <= 0 /\ CompareVersion(w, u) <= 0 /\ CompareVersion(v, u) > 0
  BY <1>2, <1>a DEF Ordered, Walked
<1>4. ~(v = <<>> /\ u = <<>>)
  BY <1>3, <1>a DEF Walked
<1>5. /\ First(v, w) \in Int /\ First(w, u) \in Int /\ First(v, u) \in Int
      /\ First(v, w) <= 0 /\ First(w, u) <= 0
  <2>0. First(v, v) \in Int /\ First(v, v) = - First(v, v) /\ First(w, w) \in Int /\ First(w, w) = - First(w, w)
    BY FirstTurned
  <2>1. First(v, v) = 0 /\ First(w, w) = 0
    BY ONLY <2>0
  <2>2. First(v, w) \in Int /\ First(w, u) \in Int /\ First(v, u) \in Int
    BY <1>a DEF Walked
  <2>3. First(v, w) <= 0
    BY <1>3, <2>1, <2>2, <1>a DEF Walked
  <2>4. First(w, u) <= 0
    BY <1>3, <2>1, <2>2, <1>a DEF Walked
  <2>. QED BY <2>2, <2>3, <2>4
<1>6. First(v, u) = 0
  <2>1. First(v, u) <= 0
    BY <1>5, FirstGoesOn
  <2>. QED BY <1>3, <1>4, <1>5, <2>1, <1>a DEF Walked
<1>7. First(v, w) = 0 /\ First(w, u) = 0
  BY <1>5, <1>6, FirstGoesOn
<1>8. PICK a \in Version, b \in Version, c \in Version :
        /\ a = Ahead(v) /\ b = Ahead(w) /\ c = Ahead(u)
        /\ Sum(a, b, c) \in Nat /\ Sum(a, b, c) < k
  <2>1. Len(Ahead(v)) \in Nat /\ Len(v) \in Nat /\ Len(Ahead(v)) <= Len(v)
        /\ (v # <<>> => Len(Ahead(v)) < Len(v)) /\ Ahead(v) \in Version
    BY AheadOf
  <2>2. Len(Ahead(w)) \in Nat /\ Len(w) \in Nat /\ Len(Ahead(w)) <= Len(w) /\ Ahead(w) \in Version
    BY AheadOf
  <2>3. Len(Ahead(u)) \in Nat /\ Len(u) \in Nat /\ Len(Ahead(u)) <= Len(u)
        /\ (u # <<>> => Len(Ahead(u)) < Len(u)) /\ Ahead(u) \in Version
    BY AheadOf
  <2>4. Sum(Ahead(v), Ahead(w), Ahead(u)) \in Nat /\ Sum(Ahead(v), Ahead(w), Ahead(u)) < k
    BY <1>2, <1>4, <2>1, <2>2, <2>3
  <2>. HIDE DEF Sum
  <2>. QED BY <2>1, <2>2, <2>3, <2>4
<1>9. Ordered(a, b, c)
  <2>1. Sum(a, b, c) \notin Bad
    BY <1>1, <1>8
  <2>. QED BY <1>8, <2>1
<1>10. CompareVersion(v, u) = CompareVersion(a, c)
  BY <1>4, <1>6, <1>8, <1>a DEF Walked
<1>11. CompareVersion(v, w) = CompareVersion(a, b) \/ (v = <<>> /\ w = <<>>)
  BY <1>7, <1>8, <1>a DEF Walked
<1>12. CompareVersion(w, u) = CompareVersion(b, c) \/ (w = <<>> /\ u = <<>>)
  BY <1>7, <1>8, <1>a DEF Walked
<1>13. \A e \in Version : e = <<>> => Ahead(e) = <<>>
  <2>. SUFFICES ASSUME NEW e \in Version, e = <<>> PROVE Ahead(e) = <<>>
    OBVIOUS
  <2>1. Ahead(e) \in Version /\ Len(e) = 0 /\ Len(Ahead(e)) \in Nat /\ Len(Ahead(e)) <= Len(e)
    BY AheadOf
  <2>. QED BY <2>1 DEF Version
<1>14. CompareVersion(a, b) <= 0
  <2>1. v = <<>> /\ w = <<>> => a = <<>> /\ b = <<>>
    BY <1>8, <1>13
  <2>2. a = <<>> /\ b = <<>> => CompareVersion(a, b) = 0
    BY CompareVersionIs DEF Walked
  <2>. QED BY <1>3, <1>11, <2>1, <2>2
<1>15. CompareVersion(b, c) <= 0
  <2>1. w = <<>> /\ u = <<>> => b = <<>> /\ c = <<>>
    BY <1>8, <1>13
  <2>2. b = <<>> /\ c = <<>> => CompareVersion(b, c) = 0
    BY CompareVersionIs DEF Walked
  <2>. QED BY <1>3, <1>12, <2>1, <2>2
<1>. QED BY <1>3, <1>9, <1>10, <1>14, <1>15 DEF Ordered

\* No versions fall out of the order: of two, one is not after the other, and what
\* is after another is after all that the other is after (opkg.js compareVersion).
THEOREM VersionsInOrder ==
    /\ \A v, w \in Version : CompareVersion(v, w) > 0 <=> CompareVersion(w, v) < 0
    /\ \A v, w, u \in Version :
         CompareVersion(v, w) <= 0 /\ CompareVersion(w, u) <= 0 => CompareVersion(v, u) <= 0
<1>1. ASSUME NEW v \in Version, NEW w \in Version
      PROVE  CompareVersion(v, w) > 0 <=> CompareVersion(w, v) < 0
  <2>1. Walked(v, w) /\ Turned(v, w)
    BY CompareVersionIs, CompareTurned
  <2>. QED BY <2>1 DEF Walked, Turned
<1>2. \A v, w, u \in Version :
        CompareVersion(v, w) <= 0 /\ CompareVersion(w, u) <= 0 => CompareVersion(v, u) <= 0
  BY CompareGoesOn DEF Ordered
<1>. QED BY <1>1, <1>2

-----------------------------------------------------------------------------
(* The invariant.                                                          *)

\* A call of downloadLists.
Call == [read : SUBSET Lists, available : Listing, installed : Listing]

ListsOK == DOMAIN available.pkgs \subseteq Names /\ DOMAIN installed.pkgs \subseteq Names /\ English \in languages

\* What the page shows and how.
ViewOK == view \in [mode : Modes, filter : Names \cup {""}, i18n : I18n, timer : BOOLEAN]

TableOK ==
  /\ rows \in Seq(Line) /\ Len(rows) <= Len(NameOrder)
  /\ offset \in Nat /\ (offset = 0 \/ offset < Len(rows))
  /\ table = "loading" \/ table \in Seq(Line)

DialogOK ==
  /\ dialog = [open |-> dialog.open, kind |-> dialog.kind, name |-> dialog.name, boxes |-> dialog.boxes,
               checked |-> dialog.checked, suggested |-> dialog.suggested, info |-> dialog.info]
  /\ dialog.boxes \subseteq Boxes /\ dialog.checked \subseteq dialog.boxes
  /\ dialog.kind = "running" => dialog.info.cmd \in {"update", "remove", "install"}

CountsOK == commands \in 0..MaxCommands /\ losses \in 0..MaxLosses /\ clicks \in 0..MaxClicks

\* What a call has read is what is there; it is the only one.
LoadsTrue ==
  known => /\ Len(loads) <= 1
           /\ loads # <<>> => /\ available = NoList /\ installed = NoList
                              /\ "available" \in loads[1].read => loads[1].available = feed
                              /\ "installed" \in loads[1].read => loads[1].installed = device

\* The lists are those of the device once there is no call.
ListsTrue ==
  known /\ loads = <<>> => available = ParseList(feed, NoList) /\ installed = ParseList(device, NoList)

\* The table is that of the lists.
ShownTrue ==
  known /\ loads = <<>> /\ ~view.timer =>
     rows = Rows(view, available, installed, languages) /\ table = PageOf(rows, offset)

\* The uploaded file is that of the dialog, from the question to the result.
FileInDialog ==
  file /\ losses = 0 => /\ dialog.open /\ dialog.name = "upload.ipk"
                        /\ dialog.kind \in {"upload", "running", "result"}

PageInv ==
  /\ feed \in Listing /\ device \in Listing /\ file \in BOOLEAN /\ known \in BOOLEAN
  /\ loads \in Seq(Call)
  /\ ListsOK /\ ViewOK /\ TableOK /\ DialogOK /\ CountsOK
  /\ LoadsTrue /\ ListsTrue /\ ShownTrue /\ FileInDialog

\* The invariant has the types ...
LEMMA PageTyped == PageInv => TypeOK
<1>. SUFFICES ASSUME PageInv PROVE TypeOK
  OBVIOUS
<1>1. offset \in 0..Len(NameOrder)
  BY NamesInOrder DEF PageInv, TableOK
<1>2. table = "loading" \/ \A i \in DOMAIN table : table[i].name \in Names
  <2>1. \A l \in Line : l.name \in Names
    BY DEF Line
  <2>2. table = "loading" \/ table \in Seq(Line)
    BY DEF PageInv, TableOK
  <2>. QED BY <2>1, <2>2
<1>. QED BY <1>1, <1>2 DEF PageInv, TypeOK, ListsOK, ViewOK, DialogOK, CountsOK

\* ... and the two properties.
LEMMA PageSafe == PageInv => TableIsTrue /\ UploadRemoved
<1>. SUFFICES ASSUME PageInv PROVE TableIsTrue /\ UploadRemoved
  OBVIOUS
<1>1. UploadRemoved
  BY PageTyped DEF PageInv, FileInDialog, UploadRemoved
<1>2. ASSUME loads = <<>>, known, ~view.timer
      PROVE  /\ rows = Rows(view, ParseList(feed, NoList), ParseList(device, NoList), languages)
             /\ table = PageOf(rows, offset)
             /\ rows # <<>> => table # <<>>
  <2>1. rows = Rows(view, ParseList(feed, NoList), ParseList(device, NoList), languages)
        /\ table = PageOf(rows, offset)
    BY <1>2 DEF PageInv, ListsTrue, ShownTrue
  <2>2. rows # <<>> => offset < Len(rows)
    BY DEF PageInv, TableOK
  <2>3. rows # <<>> => PageOf(rows, offset) # <<>>
    BY <2>2, PartOf DEF PageInv, TableOK
  <2>. QED BY <2>1, <2>3
<1>. QED BY <1>1, <1>2 DEF TableIsTrue

\* The page as it opens.
LEMMA PageStarts == Init => PageInv
<1>. SUFFICES ASSUME Init PROVE PageInv
  OBVIOUS
<1>. USE DEF Init
<1>1. feed \in Listing /\ device \in Listing
  BY ListingsAssumption
<1>2. loads \in Seq(Call) /\ Len(loads) = 1 /\ loads[1].available = feed /\ loads[1].installed = device
  <2>1. [read |-> Lists, available |-> feed, installed |-> device] \in Call
    BY <1>1 DEF Call
  <2>. QED BY <2>1
<1>3. ListsOK
  BY DEF ListsOK, NoList
<1>4. ViewOK
  BY QueriesAssumption DEF ViewOK, Modes, I18n
<1>5. TableOK
  BY NamesInOrder DEF TableOK
<1>6. DialogOK
  BY DEF DialogOK, NoDialog, Dialog, Boxes
<1>7. CountsOK
  BY BoundsAssumption DEF CountsOK
<1>8. LoadsTrue /\ ListsTrue /\ ShownTrue /\ FileInDialog
  BY <1>2 DEF LoadsTrue, ListsTrue, ShownTrue, FileInDialog
<1>. QED BY <1>1, <1>2, <1>3, <1>4, <1>5, <1>6, <1>7, <1>8 DEF PageInv

\* A sequence without its member at i.
LEMMA RemovedAt ==
  ASSUME NEW X, NEW s \in Seq(X), NEW i \in 1..Len(s)
  PROVE  RemoveAt(s, i) \in Seq(X) /\ (Len(s) = 1 => RemoveAt(s, i) = <<>>)
<1>1. Len(s) \in Nat
  OBVIOUS
<1>2. SubSeq(s, 1, i - 1) \in Seq(X) /\ Len(SubSeq(s, 1, i - 1)) = i - 1
  BY <1>1
<1>3. SubSeq(s, i + 1, Len(s)) \in Seq(X) /\ Len(SubSeq(s, i + 1, Len(s))) = Len(s) - i
  BY <1>1
<1>4. RemoveAt(s, i) = SubSeq(s, 1, i - 1) \o SubSeq(s, i + 1, Len(s))
  BY DEF RemoveAt
<1>5. PICK a \in Seq(X) : a = SubSeq(s, 1, i - 1)
  BY <1>2
<1>6. PICK b \in Seq(X) : b = SubSeq(s, i + 1, Len(s))
  BY <1>3
<1>7. a \o b \in Seq(X) /\ Len(a \o b) = Len(s) - 1
  <2>1. Len(a) = i - 1 /\ Len(b) = Len(s) - i
    BY <1>2, <1>3, <1>5, <1>6
  <2>2. a \o b \in Seq(X) /\ Len(a \o b) = Len(a) + Len(b)
    BY ONLY a \in Seq(X), b \in Seq(X)
  <2>. QED BY ONLY <2>1, <2>2, <1>1, i \in 1..Len(s)
<1>8. PICK r : r = a \o b
  OBVIOUS
<1>9. r \in Seq(X) /\ Len(r) = Len(s) - 1 /\ RemoveAt(s, i) = r
  BY <1>4, <1>5, <1>6, <1>7, <1>8
<1>10. Len(s) = 1 => r = <<>>
  BY ONLY <1>9, <1>1
<1>. QED BY <1>9, <1>10

\* display() of lists that are of their type.
LEMMA DisplayStep ==
  ASSUME Display, ViewOK'
  PROVE  TableOK' /\ (LoadsTrue' /\ ListsTrue' => ShownTrue')
<1>1. view'.mode \in Modes
  BY DEF ViewOK
<1>2. rows' = Rows(view', available', installed', languages') /\ offset' = 0 /\ table' = PageOf(rows', 0)
  BY DEF Display
<1>3. rows' \in Seq(Line) /\ Len(rows') <= Len(NameOrder)
  BY <1>1, <1>2, RowsAre
<1>4. table' \in Seq(Line)
  BY <1>2, <1>3, PartOf
<1>. QED BY <1>2, <1>3, <1>4 DEF TableOK, ShownTrue

\* Looking at the table.
LEMMA BrowseStep == ASSUME PageInv, Browse PROVE PageInv'
<1>. USE DEF PageInv
<1>1. UNCHANGED <<feed, device, file, available, installed, languages, loads, known, dialog, losses, commands>>
  BY DEF Browse, HandlePage, HandleMode, HandleI18nFilter, HandleInput, HandleReset, InputTimeout, Switch, lists, counts
<1>2. clicks' \in 0..MaxClicks
  <2>1. UNCHANGED clicks \/ (clicks < MaxClicks /\ clicks' = clicks + 1)
    BY DEF Browse, HandlePage, HandleMode, HandleI18nFilter, HandleInput, HandleReset,
           InputTimeout, Switch, counts, Click
  <2>. QED BY <2>1, BoundsAssumption DEF CountsOK
<1>3. LoadsTrue' /\ ListsTrue' /\ FileInDialog' /\ ListsOK' /\ DialogOK' /\ CountsOK'
  BY <1>1, <1>2 DEF LoadsTrue, ListsTrue, FileInDialog, ListsOK, DialogOK, CountsOK
<1>4. ViewOK'
  <2>. USE DEF ViewOK
  <2>1. ASSUME NEW n \in BOOLEAN, HandlePage(n) PROVE ViewOK'
    BY <2>1 DEF HandlePage
  <2>2. ASSUME NEW m \in Modes, HandleMode(m) PROVE ViewOK'
    BY <2>2 DEF HandleMode, Switch
  <2>3. ASSUME NEW i \in I18n, HandleI18nFilter(i) PROVE ViewOK'
    BY <2>3 DEF HandleI18nFilter, Switch
  <2>4. ASSUME NEW n \in Names, HandleInput(n) PROVE ViewOK'
    BY <2>4 DEF HandleInput
  <2>5. CASE HandleReset
    BY <2>5 DEF HandleReset, Switch
  <2>6. CASE InputTimeout
    BY <2>6 DEF InputTimeout
  <2>. QED BY <2>1, <2>2, <2>3, <2>4, <2>5, <2>6 DEF Browse
<1>5. TableOK' /\ ShownTrue'
  <2>1. CASE Display
    BY <2>1, <1>3, <1>4, DisplayStep
  <2>2. ASSUME NEW next \in BOOLEAN, HandlePage(next) PROVE TableOK' /\ ShownTrue'
    <3>1. /\ offset' \in 0..(Len(rows) - 1) /\ table' = PageOf(rows, offset')
          /\ UNCHANGED <<view, rows>>
      BY <2>2 DEF HandlePage
    <3>2. rows \in Seq(Line) /\ Len(rows) \in Nat
      BY DEF TableOK
    <3>3. offset' \in Nat /\ offset' < Len(rows)
      BY <3>1, <3>2
    <3>4. table' \in Seq(Line)
      BY <3>1, <3>2, <3>3, PartOf
    <3>. QED BY <3>1, <3>3, <3>4, <1>1 DEF TableOK, ShownTrue
  <2>3. ASSUME NEW n \in Names, HandleInput(n) PROVE TableOK' /\ ShownTrue'
    <3>1. UNCHANGED <<rows, offset, table>>
      BY <2>3 DEF HandleInput, shown
    <3>2. view'.timer = TRUE
      BY <2>3 DEF HandleInput, ViewOK
    <3>. QED BY <3>1, <3>2 DEF TableOK, ShownTrue
  <2>4. Display \/ (\E next \in BOOLEAN : HandlePage(next)) \/ (\E n \in Names : HandleInput(n))
    BY DEF Browse, HandleMode, HandleI18nFilter, HandleReset, InputTimeout, Switch
  <2>. QED BY <2>1, <2>2, <2>3, <2>4
<1>. QED BY <1>1, <1>3, <1>4, <1>5

\* A call of updateLists() goes on.
LEMMA LoadStep == ASSUME PageInv, Load PROVE PageInv'
<1>. USE DEF PageInv
<1>1. PICK i \in DOMAIN loads : Loaded(i) \/ LoadFails(i) \/ \E w \in Lists : Read(i, w)
  BY DEF Load
<1>2. loads[i] \in Call /\ Len(loads) \in Nat /\ i \in 1..Len(loads)
  OBVIOUS
<1>3. CASE Loaded(i)
  <2>1. /\ available' = ParseList(loads[i].available, available)
        /\ installed' = ParseList(loads[i].installed, installed)
        /\ languages \subseteq languages'
        /\ loads' = RemoveAt(loads, i) /\ loads[i].read = Lists
        /\ UNCHANGED <<view, feed, device, file, dialog, known, commands, losses, clicks>>
    BY <1>3 DEF Loaded, counts
  <2>2. ListsOK'
    <3>1. loads[i].available \in Listing /\ loads[i].installed \in Listing
      BY <1>2 DEF Call
    <3>. QED BY <2>1, <3>1, ParsedNames DEF ListsOK
  <2>3. loads' \in Seq(Call)
    BY <2>1, <1>2, RemovedAt
  <2>4. known => Len(loads) = 1 /\ i = 1 /\ loads' = <<>>
    <3>1. known => Len(loads) <= 1
      BY DEF LoadsTrue
    <3>2. known => Len(loads) = 1 /\ i = 1
      <4>. SUFFICES ASSUME known PROVE Len(loads) = 1 /\ i = 1
        OBVIOUS
      <4>1. PICK n : n = Len(loads)
        OBVIOUS
      <4>2. n \in Nat /\ i \in 1..n /\ n <= 1
        BY <4>1, <3>1, <1>2
      <4>. QED BY ONLY <4>1, <4>2
    <3>3. Len(loads) = 1 => RemoveAt(loads, i) = <<>>
      BY <1>2, RemovedAt
    <3>. QED BY <3>2, <3>3, <2>1
  <2>5. LoadsTrue' /\ ListsTrue'
    <3>1. known => loads # <<>>
      BY <2>4
    <3>2. ListsTrue'
      BY <2>1, <2>4, <3>1 DEF LoadsTrue, ListsTrue, Lists
    <3>3. LoadsTrue'
      BY <2>1, <2>4 DEF LoadsTrue
    <3>. QED BY <3>2, <3>3
  <2>6. ViewOK' /\ DialogOK' /\ CountsOK' /\ FileInDialog'
    BY <2>1 DEF ViewOK, DialogOK, CountsOK, FileInDialog
  <2>7. Display
    BY <1>3 DEF Loaded
  <2>. QED BY <2>1, <2>2, <2>3, <2>5, <2>6, <2>7, DisplayStep
<1>4. CASE LoadFails(i)
  <2>1. /\ losses' = losses + 1 /\ losses < MaxLosses /\ loads' = RemoveAt(loads, i) /\ known' = FALSE
        /\ UNCHANGED <<feed, device, file, available, installed, languages, view, rows, offset, table, dialog, commands, clicks>>
    BY <1>4 DEF LoadFails, lists, shown
  <2>2. loads' \in Seq(Call)
    BY <2>1, <1>2, RemovedAt
  <2>3. ListsOK' /\ ViewOK' /\ TableOK' /\ DialogOK'
    BY <2>1 DEF ListsOK, ViewOK, TableOK, DialogOK
  <2>4. CountsOK' /\ losses' # 0
    BY <2>1, BoundsAssumption DEF CountsOK
  <2>5. LoadsTrue' /\ ListsTrue' /\ ShownTrue' /\ FileInDialog'
    BY <2>1, <2>4 DEF LoadsTrue, ListsTrue, ShownTrue, FileInDialog
  <2>. QED BY <2>1, <2>2, <2>3, <2>4, <2>5
<1>5. ASSUME NEW w \in Lists, Read(i, w) PROVE PageInv'
  <2>1. PICK listing : listing = IF w = "available" THEN feed ELSE device
    OBVIOUS
  <2>2. PICK call : call = [[loads[i] EXCEPT !.read = @ \cup {w}] EXCEPT ![w] = listing]
    OBVIOUS
  <2>3. /\ loads' = [loads EXCEPT ![i] = call] /\ w \notin loads[i].read
        /\ UNCHANGED <<feed, device, file, available, installed, languages, view, rows, offset, table, dialog, known, commands, losses, clicks>>
    BY <1>5, <2>1, <2>2 DEF Read, lists, shown, counts
  <2>4. /\ call \in Call /\ call.read = loads[i].read \cup {w}
        /\ call.available = IF w = "available" THEN listing ELSE loads[i].available
        /\ call.installed = IF w = "installed" THEN listing ELSE loads[i].installed
    BY <1>2, <2>1, <2>2 DEF Call, Lists
  <2>5. loads' \in Seq(Call) /\ Len(loads') = Len(loads) /\ loads' # <<>>
        /\ loads'[i] = call
    BY <2>3, <2>4
  <2>6. ListsOK' /\ ViewOK' /\ TableOK' /\ DialogOK' /\ CountsOK' /\ FileInDialog'
    BY <2>3 DEF ListsOK, ViewOK, TableOK, DialogOK, CountsOK, FileInDialog
  <2>7. LoadsTrue'
    <3>1. known => Len(loads) = 1 /\ i = 1
      BY <1>2 DEF LoadsTrue
    <3>2. loads # <<>>
      BY <1>2
    <3>. QED BY <2>1, <2>3, <2>4, <2>5, <3>1, <3>2 DEF LoadsTrue, Lists
  <2>8. ListsTrue' /\ ShownTrue'
    BY <2>5 DEF ListsTrue, ShownTrue
  <2>. QED BY <2>3, <2>5, <2>6, <2>7, <2>8
<1>. QED BY <1>1, <1>3, <1>4, <1>5

\* Dialogs leave the table, the lists and the device alone.
LEMMA DialogStep ==
  ASSUME PageInv, UNCHANGED <<feed, device, lists, view, shown, loads, known>>,
         file' \in BOOLEAN, DialogOK', CountsOK', FileInDialog'
  PROVE  PageInv'
<1>1. UNCHANGED <<available, installed, languages, rows, offset, table>>
  BY DEF lists, shown
<1>. QED BY <1>1 DEF PageInv, ListsOK, ViewOK, TableOK, LoadsTrue, ListsTrue, ShownTrue

\* What a new dialog is like.
LEMMA NewDialog ==
  ASSUME NEW kind, NEW name
  PROVE  Dialog(kind, name) = [open |-> TRUE, kind |-> kind, name |-> name, boxes |-> {}, checked |-> {},
                               suggested |-> {}, info |-> NoInfo]
BY DEF Dialog

\* Dialogs open, change and close.
LEMMA ManageStep == ASSUME PageInv, Manage, ~Dismiss PROVE PageInv'
<1>. USE DEF PageInv
<1>0. UNCHANGED <<feed, device, lists, view, shown, loads, known, losses>>
  BY DEF Manage, HandleInstall, HandleRemove, HandleManualInstall, HandleUpload, Cancel, Execute, UpdateFeeds,
         Run, Toggle, counts
<1>1. CountsOK' /\ (commands' = commands + 1 \/ commands' = commands)
  <2>1. UNCHANGED clicks /\ (UNCHANGED commands \/ (commands < MaxCommands /\ commands' = commands + 1))
    BY DEF Manage, HandleInstall, HandleRemove, HandleManualInstall, HandleUpload, Cancel, Execute, UpdateFeeds,
           Run, Toggle, counts
  <2>. QED BY <2>1, <1>0, BoundsAssumption DEF CountsOK
<1>. HIDE DEF PageInv
<1>. SUFFICES file' \in BOOLEAN /\ DialogOK' /\ FileInDialog'
  BY <1>0, <1>1, DialogStep
<1>. USE DEF PageInv
<1>2. ASSUME NEW n \in Names, HandleInstall(n) PROVE file' \in BOOLEAN /\ DialogOK' /\ FileInDialog'
  <2>1. PICK more, info : dialog' = [open |-> TRUE, kind |-> "install", name |-> n,
           boxes |-> IF more = {} THEN {"overwrite"} ELSE {"overwrite", "i18n"},
           checked |-> IF more = {} THEN {} ELSE {"i18n"}, suggested |-> more, info |-> info]
    BY <1>2 DEF HandleInstall, Dialog
  <2>2. ~dialog.open /\ file' = file
    BY <1>2 DEF HandleInstall
  <2>. QED BY <2>1, <2>2, <1>0 DEF DialogOK, Boxes, FileInDialog
<1>3. ASSUME NEW n \in Names, HandleRemove(n) PROVE file' \in BOOLEAN /\ DialogOK' /\ FileInDialog'
  <2>1. dialog' = [open |-> TRUE, kind |-> "remove", name |-> n, boxes |-> {"autoremove"},
                   checked |-> {"autoremove"}, suggested |-> {}, info |-> NoInfo]
    BY <1>3 DEF HandleRemove, Dialog
  <2>2. ~dialog.open /\ file' = file
    BY <1>3 DEF HandleRemove
  <2>. QED BY <2>1, <2>2, <1>0 DEF DialogOK, Boxes, FileInDialog
<1>4. ASSUME NEW n \in Names, HandleManualInstall(n) PROVE file' \in BOOLEAN /\ DialogOK' /\ FileInDialog'
  <2>1. PICK name : dialog' = Dialog("manual", name)
    BY <1>4 DEF HandleManualInstall
  <2>2. ~dialog.open /\ file' = file
    BY <1>4 DEF HandleManualInstall
  <2>. QED BY <2>1, <2>2, <1>0, NewDialog DEF DialogOK, FileInDialog
<1>5. CASE HandleUpload
  <2>1. dialog' = Dialog("upload", "upload.ipk") /\ file' = TRUE
    BY <1>5 DEF HandleUpload
  <2>. QED BY <2>1, <1>0, NewDialog DEF DialogOK, FileInDialog
<1>6. ASSUME NEW b \in Boxes, Toggle(b) PROVE file' \in BOOLEAN /\ DialogOK' /\ FileInDialog'
  <2>1. PICK checked : /\ dialog' = [dialog EXCEPT !.checked = checked] /\ checked \subseteq dialog.boxes
                       /\ file' = file
    <3>1. file' = file /\ b \in dialog.boxes /\ dialog.checked \subseteq dialog.boxes
      BY <1>0, <1>6 DEF Toggle, DialogOK
    <3>2. CASE b \in dialog.checked
      <4>1. dialog' = [dialog EXCEPT !.checked = dialog.checked \ {b}]
        BY <1>6, <3>2 DEF Toggle
      <4>. QED BY <3>1, <4>1
    <3>3. CASE b \notin dialog.checked
      <4>1. dialog' = [dialog EXCEPT !.checked = dialog.checked \cup {b}]
        BY <1>6, <3>3 DEF Toggle
      <4>. QED BY <3>1, <4>1
    <3>. QED BY <3>2, <3>3
  <2>2. dialog' = [open |-> dialog.open, kind |-> dialog.kind, name |-> dialog.name, boxes |-> dialog.boxes,
                   checked |-> checked, suggested |-> dialog.suggested, info |-> dialog.info]
    BY <2>1 DEF DialogOK
  <2>. QED BY <2>1, <2>2, <1>0 DEF DialogOK, FileInDialog
<1>7. CASE Cancel
  <2>1. /\ dialog' = [dialog EXCEPT !.open = FALSE] /\ file' = (file /\ dialog.kind # "upload")
        /\ dialog.kind \in {"install", "remove", "manual", "upload"}
    BY <1>7 DEF Cancel
  <2>2. dialog' = [open |-> FALSE, kind |-> dialog.kind, name |-> dialog.name, boxes |-> dialog.boxes,
                   checked |-> dialog.checked, suggested |-> dialog.suggested, info |-> dialog.info]
    BY <2>1 DEF DialogOK
  <2>3. DialogOK'
    BY <2>2 DEF DialogOK
  <2>4. losses = 0 => ~file'
    BY <2>1 DEF FileInDialog
  <2>. QED BY <2>1, <2>3, <2>4, <1>0 DEF FileInDialog
<1>8. ASSUME NEW cmd \in {"update", "remove", "install"}, NEW name, Run(cmd, name), file => name = dialog.name \/ ~dialog.open
      PROVE  file' \in BOOLEAN /\ DialogOK' /\ FileInDialog'
  <2>1. PICK info : /\ dialog' = [open |-> TRUE, kind |-> "running", name |-> name, boxes |-> {},
                                  checked |-> {}, suggested |-> {}, info |-> info]
                    /\ info.cmd = cmd
    <3>1. PICK info : /\ info = [cmd |-> cmd, names |-> (IF "i18n" \in dialog.checked THEN dialog.suggested ELSE {})
                                                            \cup {name}]
                      /\ dialog' = [Dialog("running", name) EXCEPT !.info = info]
      BY <1>8 DEF Run
    <3>2. PICK d : d = Dialog("running", name)
      OBVIOUS
    <3>3. dialog' = [d EXCEPT !.info = info]
      BY <3>1, <3>2
    <3>4. dialog' = [open |-> TRUE, kind |-> "running", name |-> name, boxes |-> {},
                     checked |-> {}, suggested |-> {}, info |-> info]
      BY ONLY <3>2, <3>3 DEF Dialog
    <3>5. info.cmd = cmd
      BY <3>1
    <3>. QED BY <3>4, <3>5
  <2>2. file' = file
    BY <1>8 DEF Run
  <2>. QED BY <1>8, <2>1, <2>2, <1>0 DEF DialogOK, FileInDialog
<1>9. CASE Execute
  BY <1>8, <1>9 DEF Execute
<1>10. CASE UpdateFeeds
  BY <1>8, <1>10 DEF UpdateFeeds
<1>. QED BY <1>2, <1>3, <1>4, <1>5, <1>6, <1>7, <1>9, <1>10 DEF Manage

\* The lists are loaded again after a command.
LEMMA DismissStep == ASSUME PageInv, Dismiss PROVE PageInv'
<1>. USE DEF PageInv
<1>1. /\ dialog.kind = "result" /\ dialog.open /\ dialog' = [dialog EXCEPT !.open = FALSE]
      /\ file' = (file /\ dialog.name # "upload.ipk")
      /\ available' = NoList /\ installed' = NoList /\ table' = "loading"
      /\ loads' = Append(loads, NewLoad) /\ known' = (loads = <<>>)
      /\ UNCHANGED <<languages, rows, offset, feed, device, view, commands, losses, clicks>>
  BY DEF Dismiss, UpdateLists, Reset, counts
<1>2. dialog' = [open |-> FALSE, kind |-> dialog.kind, name |-> dialog.name, boxes |-> dialog.boxes,
                 checked |-> dialog.checked, suggested |-> dialog.suggested, info |-> dialog.info]
  BY <1>1 DEF DialogOK
<1>3. DialogOK'
  BY <1>2 DEF DialogOK
<1>4. FileInDialog'
  BY <1>1 DEF FileInDialog
<1>5. NewLoad \in Call /\ NewLoad.read = {}
  BY DEF NewLoad, Call, Listing
<1>6. /\ loads' \in Seq(Call) /\ loads' # <<>>
      /\ loads = <<>> => Len(loads') = 1 /\ loads'[1] = NewLoad
  <2>. HIDE DEF NewLoad, Call
  <2>1. PICK call \in Call : call = NewLoad
    BY <1>5
  <2>2. loads' = Append(loads, call) /\ loads \in Seq(Call)
    BY <1>1, <2>1
  <2>3. loads' \in Seq(Call) /\ Len(loads') = Len(loads) + 1 /\ loads'[Len(loads) + 1] = call
    BY <2>2
  <2>4. Len(loads) \in Nat /\ (loads = <<>> => Len(loads) = 0)
    BY <2>2
  <2>5. loads' # <<>>
    BY <2>3, <2>4
  <2>. QED BY <2>1, <2>3, <2>4, <2>5
<1>7. LoadsTrue'
  <2>1. known' => Len(loads') = 1 /\ loads'[1].read = {}
    <3>. SUFFICES ASSUME loads = <<>> PROVE Len(loads') = 1 /\ loads'[1].read = {}
      BY <1>1
    <3>. QED BY <1>5, <1>6
  <2>. QED BY <1>1, <2>1 DEF LoadsTrue
<1>8. ListsTrue' /\ ShownTrue'
  BY <1>6 DEF ListsTrue, ShownTrue
<1>9. ViewOK' /\ TableOK' /\ CountsOK'
  BY <1>1 DEF ViewOK, TableOK, CountsOK
<1>10. ListsOK'
  <2>1. DOMAIN NoList.pkgs = {}
    BY DEF NoList
  <2>. QED BY <1>1, <2>1 DEF ListsOK
<1>. QED BY <1>1, <1>3, <1>4, <1>6, <1>7, <1>8, <1>9, <1>10

\* What an installation leaves on the device.
LEMMA InstallingIs ==
  ASSUME feed \in Listing, device \in Listing, NEW names
  PROVE  Installing(names) \in Listing
<1>. DEFINE got == Kept(feed, {p \in Range(feed) : p.name \in names})
            now == [i \in DOMAIN got |-> [got[i] EXCEPT !.installed = TRUE]]
<1>1. PICK w \in Listing : w = Without(device, names)
  BY KeptOf DEF Without, Listing
<1>2. got \in Listing
  BY KeptOf DEF Listing
<1>3. now \in Listing
  <2>. HIDE DEF got
  <2>2. Len(got) \in Nat /\ DOMAIN got = 1..Len(got)
    BY <1>2 DEF Listing
  <2>1. ASSUME NEW i \in 1..Len(got) PROVE now[i] \in Paragraph(Names)
    <3>1. got[i] \in Paragraph(Names)
      BY <1>2 DEF Listing
    <3>2. [got[i] EXCEPT !.installed = TRUE] \in Paragraph(Names)
      BY <3>1 DEF Paragraph
    <3>3. now[i] = [got[i] EXCEPT !.installed = TRUE]
      BY <2>2
    <3>. QED BY <3>2, <3>3
  <2>3. now = [i \in 1..Len(got) |-> now[i]]
    BY <2>2
  <2>. HIDE DEF now
  <2>. QED BY ONLY <2>1, <2>2, <2>3, SequenceIs DEF Listing
<1>4. Installing(names) = w \o now
  BY <1>1 DEF Installing
<1>. HIDE DEF now
<1>. QED BY <1>1, <1>3, <1>4 DEF Listing

\* Whatever a command makes of the device, its listings are listings.
LEMMA AfterIs ==
  ASSUME NEW info, info.cmd \in {"update", "remove", "install"}, feed \in Listing, device \in Listing, NEW a \in After(info)
  PROVE  a[1] \in Listing /\ a[2] \in Listing
<1>1. \A N : Without(device, N) \in Listing
  BY KeptOf DEF Without, Listing
<1>2. \A N : Installing(N) \in Listing
  BY InstallingIs
<1>5. CASE info.cmd = "update"
  BY <1>5, ListingsAssumption DEF After
<1>6. CASE info.cmd = "remove"
  BY <1>6, <1>1 DEF After
<1>7. CASE info.cmd = "install"
  BY <1>7, <1>2 DEF After
<1>. QED BY <1>5, <1>6, <1>7

\* A command ends, or its answer gets lost.
LEMMA CommandStep == ASSUME PageInv, CommandDone \/ CommandLost PROVE PageInv'
<1>. USE DEF PageInv
<1>1. /\ dialog.open /\ dialog.kind = "running" /\ known' = FALSE
      /\ UNCHANGED <<file, available, installed, languages, view, rows, offset, table, loads, commands, clicks>>
  BY DEF CommandDone, CommandLost, lists, shown, counts
<1>2. PICK a \in After(dialog.info) : feed' = a[1] /\ device' = a[2]
  BY DEF CommandDone, CommandLost
<1>3. feed' \in Listing /\ device' \in Listing
  BY <1>1, <1>2, AfterIs DEF DialogOK
<1>4. ListsOK' /\ ViewOK' /\ TableOK' /\ LoadsTrue' /\ ListsTrue' /\ ShownTrue'
  BY <1>1 DEF ListsOK, ViewOK, TableOK, LoadsTrue, ListsTrue, ShownTrue
<1>5. CASE CommandDone
  <2>1. dialog' = Dialog("result", dialog.name) /\ UNCHANGED losses
    BY <1>5 DEF CommandDone, counts
  <2>2. DialogOK'
    BY <2>1, NewDialog DEF DialogOK
  <2>3. FileInDialog'
    BY <1>1, <2>1, NewDialog DEF FileInDialog
  <2>4. CountsOK'
    BY <1>1, <2>1 DEF CountsOK
  <2>. QED BY <1>1, <1>3, <1>4, <2>2, <2>3, <2>4
<1>6. CASE CommandLost
  <2>1. dialog' = [dialog EXCEPT !.open = FALSE] /\ losses < MaxLosses /\ losses' = losses + 1
    BY <1>6 DEF CommandLost
  <2>2. dialog' = [open |-> FALSE, kind |-> dialog.kind, name |-> dialog.name, boxes |-> dialog.boxes,
                   checked |-> dialog.checked, suggested |-> dialog.suggested, info |-> dialog.info]
    BY <2>1 DEF DialogOK
  <2>3. DialogOK'
    BY <2>2 DEF DialogOK
  <2>4. CountsOK' /\ losses' # 0
    BY <1>1, <2>1, BoundsAssumption DEF CountsOK
  <2>5. FileInDialog'
    BY <2>4 DEF FileInDialog
  <2>. QED BY <1>1, <1>3, <1>4, <2>3, <2>4, <2>5
<1>. QED BY <1>5, <1>6

\* Every step keeps the invariant.
LEMMA PageSteps == PageInv /\ [Next]_vars => PageInv'
<1>. SUFFICES ASSUME PageInv, [Next]_vars PROVE PageInv'
  OBVIOUS
<1>1. CASE UNCHANGED vars
  <2>1. UNCHANGED <<feed, device, lists, view, shown, loads, known, file, dialog, counts>>
    BY <1>1 DEF vars
  <2>2. file' \in BOOLEAN /\ DialogOK' /\ CountsOK' /\ FileInDialog'
    BY <2>1 DEF PageInv, DialogOK, CountsOK, FileInDialog, counts
  <2>. QED BY <2>1, <2>2, DialogStep
<1>. QED BY <1>1, BrowseStep, LoadStep, ManageStep, DismissStep, CommandStep DEF Next

\* Listings, table, dialogs and what was read keep their types and agree with
\* each other, whatever is clicked while listings load and commands run
\* (opkg.js updateLists, display, handleOpkg).
THEOREM PageInvariant == Spec => []PageInv
BY PageStarts, PageSteps, PTL DEF Spec

\* The type invariant.
THEOREM TypeCorrect == Spec => []TypeOK
BY PageInvariant, PageTyped, PTL

\* Once all listings have come and the filter's timer has run, the table is that
\* of the device and the repositories, unless an answer was lost or two calls of
\* updateLists() ran at a time (opkg.js updateLists, display, handlePage).
THEOREM TableAlwaysTrue == Spec => []TableIsTrue
BY PageInvariant, PageSafe, PTL

\* An uploaded package is on the device only while a dialog about it is open, if
\* no answer was lost (opkg.js handleUpload, handleOpkg).
THEOREM UploadsRemoved == Spec => []UploadRemoved
BY PageInvariant, PageSafe, PTL

-----------------------------------------------------------------------------
(* The versions of the packages that are listed.                           *)

VersionsOf(list) == \A n \in DOMAIN list.pkgs : list.pkgs[n].version \in Version
VersionsKnown == VersionsOf(available) /\ VersionsOf(installed)

\* A listing brings packages with versions.
LEMMA ParsedVersions ==
  ASSUME NEW s \in Listing, NEW list, VersionsOf(list)
  PROVE  VersionsOf(ParseList(s, list))
<1>. DEFINE I(n) == {i \in DOMAIN s : s[i].name = n}
            D == DOMAIN list.pkgs \cup {p.name : p \in Range(s)}
<1>1. ParseList(s, list).pkgs = [n \in D |-> IF I(n) = {} THEN list.pkgs[n] ELSE s[Max(I(n))]]
  BY DEF ParseList
<1>2. ASSUME NEW n \in D, I(n) = {} PROVE n \in DOMAIN list.pkgs
  <2>. SUFFICES ASSUME NEW i \in DOMAIN s PROVE n # s[i].name
    BY DEF Range
  <2>1. i \notin I(n)
    BY <1>2
  <2>. QED BY <2>1
<1>3. ASSUME NEW n \in D, I(n) # {} PROVE Max(I(n)) \in DOMAIN s
  <2>1. PICK l \in Nat : DOMAIN s = 1..l
    BY DEF Listing
  <2>. DEFINE K == {l - i : i \in I(n)}
  <2>2. K \subseteq Nat /\ K # {}
    BY <1>3, <2>1
  <2>3. PICK k \in K : \A j \in K : k <= j
    <3>. HIDE DEF K
    <3>. QED BY <2>2, SmallestOf
  <2>4. PICK i \in I(n) : k = l - i
    BY <2>3
  <2>5. \A j \in I(n) : i >= j
    <3>. SUFFICES ASSUME NEW j \in I(n) PROVE i >= j
      OBVIOUS
    <3>1. i \in 1..l /\ j \in 1..l /\ l - j \in K
      BY <2>1
    <3>2. l - i <= l - j
      BY <2>3, <2>4, <3>1
    <3>. QED BY <3>1, <3>2
  <2>6. Max(I(n)) \in I(n)
    <3>. HIDE DEF I
    <3>. QED BY <2>5 DEF Max
  <2>. QED BY <2>6
<1>4. \A i \in DOMAIN s : s[i].version \in Version
  <2>. SUFFICES ASSUME NEW i \in DOMAIN s PROVE s[i].version \in Version
    OBVIOUS
  <2>1. s[i] \in Paragraph(Names)
    BY DEF Listing
  <2>. QED BY <2>1 DEF Paragraph
<1>. HIDE DEF I, D
<1>. QED BY <1>1, <1>2, <1>3, <1>4 DEF VersionsOf

\* Every step keeps them.
LEMMA VersionsStep == PageInv /\ VersionsKnown /\ [Next]_vars => VersionsKnown'
<1>. SUFFICES ASSUME PageInv, VersionsKnown, [Next]_vars PROVE VersionsKnown'
  OBVIOUS
<1>1. CASE UNCHANGED <<available, installed>>
  BY <1>1 DEF VersionsKnown, VersionsOf
<1>2. CASE available' = NoList /\ installed' = NoList
  BY <1>2 DEF VersionsKnown, VersionsOf, NoList
<1>3. ASSUME NEW i \in DOMAIN loads, Loaded(i) PROVE VersionsKnown'
  <2>1. loads[i].available \in Listing /\ loads[i].installed \in Listing
    <3>1. loads \in Seq(Call)
      BY DEF PageInv
    <3>2. loads[i] \in Call
      BY <3>1
    <3>. QED BY <3>2 DEF Call
  <2>2. available' = ParseList(loads[i].available, available)
        /\ installed' = ParseList(loads[i].installed, installed)
    BY <1>3 DEF Loaded
  <2>3. VersionsOf(ParseList(loads[i].available, available))
        /\ VersionsOf(ParseList(loads[i].installed, installed))
    BY <2>1, ParsedVersions DEF VersionsKnown
  <2>. QED BY <2>2, <2>3 DEF VersionsKnown, VersionsOf
<1>4. CASE UNCHANGED vars
  BY <1>1, <1>4 DEF vars, lists
<1>5. CASE Browse
  BY <1>1, <1>5 DEF Browse, HandlePage, HandleMode, HandleI18nFilter, HandleReset, Switch,
                    HandleInput, InputTimeout, lists
<1>6. CASE Load
  <2>1. ASSUME NEW i \in DOMAIN loads, LoadFails(i) PROVE VersionsKnown'
    BY <1>1, <2>1 DEF LoadFails, lists
  <2>2. ASSUME NEW i \in DOMAIN loads, NEW w \in Lists, Read(i, w) PROVE VersionsKnown'
    BY <1>1, <2>2 DEF Read, lists
  <2>. QED BY <1>3, <1>6, <2>1, <2>2 DEF Load
<1>7. CASE Manage
  <2>1. CASE Dismiss
    BY <1>2, <2>1 DEF Dismiss, UpdateLists, Reset
  <2>2. ASSUME NEW n \in Names, HandleInstall(n) \/ HandleRemove(n) \/ HandleManualInstall(n)
        PROVE  VersionsKnown'
    BY <1>1, <2>2 DEF HandleInstall, HandleRemove, HandleManualInstall, lists
  <2>3. CASE HandleUpload \/ Cancel \/ Execute \/ UpdateFeeds
    BY <1>1, <2>3 DEF HandleUpload, Cancel, Execute, UpdateFeeds, Run, lists
  <2>4. ASSUME NEW b \in Boxes, Toggle(b) PROVE VersionsKnown'
    BY <1>1, <2>4 DEF Toggle, lists
  <2>. QED BY <1>7, <2>1, <2>2, <2>3, <2>4 DEF Manage
<1>8. CASE CommandDone \/ CommandLost
  BY <1>1, <1>8 DEF CommandDone, CommandLost, lists
<1>. QED BY <1>4, <1>5, <1>6, <1>7, <1>8 DEF Next

\* What makes the property of what makes the versions.
LEMMA VersionsSafe == VersionsKnown => VersionsOrdered
<1>. SUFFICES ASSUME VersionsKnown PROVE VersionsOrdered
  OBVIOUS
<1>. DEFINE V == {p.version : p \in Range(available.pkgs) \cup Range(installed.pkgs)}
            C == [p \in V \X V |-> CompareVersion(p[1], p[2])]
<1>1. V \subseteq Version
  BY DEF VersionsKnown, VersionsOf, Range
<1>2. \A v, w \in V : C[<<v, w>>] = CompareVersion(v, w)
  <2>. SUFFICES ASSUME NEW v \in V, NEW w \in V PROVE C[<<v, w>>] = CompareVersion(v, w)
    OBVIOUS
  <2>1. <<v, w>> \in V \X V /\ <<v, w>>[1] = v /\ <<v, w>>[2] = w
    OBVIOUS
  <2>. HIDE DEF V
  <2>. QED BY <2>1
<1>3. ASSUME NEW v \in V, NEW w \in V
      PROVE  /\ C[<<v, w>>] > 0 <=> C[<<w, v>>] < 0
             /\ \A u \in V : C[<<v, w>>] <= 0 /\ C[<<w, u>>] <= 0 => C[<<v, u>>] <= 0
  <2>. HIDE DEF C, V
  <2>. QED BY <1>1, <1>2, VersionsInOrder
<1>. HIDE DEF C
<1>. QED BY <1>3 DEF VersionsOrdered, C

\* The versions in the listings have one order, whichever of them what to install
\* is found out by (opkg.js compareVersion, parseList).
THEOREM VersionsAlwaysOrdered == Spec => []VersionsOrdered
<1>1. Init => VersionsKnown
  BY DEF Init, NoList, VersionsKnown, VersionsOf
<1>. QED BY <1>1, VersionsStep, VersionsSafe, PageInvariant, PTL DEF Spec
=============================================================================
