----------------------------- MODULE PackageLists -----------------------------
(***************************************************************************)
(* What the software page (view/opkg.js) computes: the order of versions,  *)
(* the tables it parses a listing of opkg into, and the packages that an   *)
(* installation needs.                                                     *)
(***************************************************************************)
EXTENDS Filters, Integers, FiniteSets, SequencesExt

CONSTANTS
    Digits, Letters,  \* one-character strings; the digits in order
    Code,             \* of the characters
    NoPackage

-----------------------------------------------------------------------------
(* Versions: sequences of characters.                                      *)

Version == Seq(DOMAIN Code)

IsDigit(c) == c \in Range(Digits)

\* Character codes are positive, and digits, letters and "~" are told apart.
ASSUME CodeAssumption ==
    /\ Range(Digits) \subseteq DOMAIN Code
    /\ \A c \in DOMAIN Code : Code[c] \in Nat \ {0}
    /\ \A c, d \in Range(Digits) : Code[c] = Code[d] => c = d
    /\ Range(Digits) \cap (Letters \cup {"~"}) = {} /\ "~" \notin Letters

\* orderOf: "~" is before the end, the end before letters, these before others.
OrderOf(v) ==
    IF v = <<>> THEN 0
    ELSE CASE Head(v) = "~" -> -1
           [] IsDigit(Head(v)) -> 0
           [] Head(v) \in Letters -> Code[Head(v)]
           [] OTHER -> Code[Head(v)] + 256

Rest(v) == IF v = <<>> THEN v ELSE Tail(v)
AtDigit(v) == v # <<>> /\ IsDigit(Head(v))

\* The first digits of v without leading zeros, and what follows them.
Number(v) ==
    LET n == CHOOSE k \in 0..Len(v) :
               (\A i \in 1..k : IsDigit(v[i])) /\ ~AtDigit(SubSeq(v, k + 1, Len(v)))
        z == CHOOSE k \in 0..n :
               (\A i \in 1..k : v[i] = "0") /\ (k < n => v[k + 1] # "0")
    IN [digits |-> SubSeq(v, z + 1, n), rest |-> SubSeq(v, n + 1, Len(v))]

\* Mutant: numbers are compared digit by digit, as text is.
NumberOrderAsText(a, b) ==
    LET D == {i \in DOMAIN a \cap DOMAIN b : a[i] # b[i]} IN
    IF D = {} THEN 0
    ELSE LET i == CHOOSE i \in D : \A j \in D : i <= j IN Code[a[i]] - Code[b[i]]

\* The longer number is the greater one, then the first different digit counts.
NumberOrder(a, b) ==
    IF Len(a) # Len(b) THEN Len(a) - Len(b)
    ELSE LET D == {i \in DOMAIN a : a[i] # b[i]} IN
         IF D = {} THEN 0
         ELSE LET i == CHOOSE i \in D : \A j \in D : i <= j IN Code[a[i]] - Code[b[i]]

\* The walk over two versions, from where it has come to in each.
Compare(v, r, further) ==
    IF v = <<>> /\ r = <<>> THEN 0
    ELSE IF (v # <<>> /\ ~AtDigit(v)) \/ (r # <<>> /\ ~AtDigit(r))
    THEN IF OrderOf(v) # OrderOf(r) THEN OrderOf(v) - OrderOf(r)
         ELSE further[<<Rest(v), Rest(r)>>]
    ELSE LET a == Number(v)
             b == Number(r)
             c == NumberOrder(a.digits, b.digits)
         IN IF c # 0 THEN c ELSE further[<<a.rest, b.rest>>]

Comparison[p \in Version \X Version] == Compare(p[1], p[2], Comparison)
CompareVersion(v, r) == Comparison[<<v, r>>]

VersionSatisfied(ver, ref, vop) ==
    LET r == CompareVersion(ver, ref) IN
    CASE vop \in {"<", "<="} -> r <= 0
      [] vop \in {">", ">="} -> r >= 0
      [] vop = "<<" -> r < 0
      [] vop = ">>" -> r > 0
      [] vop = "=" -> r = 0

-----------------------------------------------------------------------------
(* Listings: a paragraph for each package.                                 *)

\* vop is "" for any version.
Dependency == [name : STRING, vop : STRING, ver : Version]
Paragraph(names) ==
    [name : names, version : Version, depends : Seq(Dependency), provides : Seq(STRING),
     installed : BOOLEAN]

NoList == [pkgs |-> <<>>, providers |-> <<>>]

Extend(f, k, v) == [x \in DOMAIN f \cup {k} |-> IF x = k THEN v ELSE f[x]]

\* Those that provide a name, its first package among them.
AddProvider(providers, pkg) ==
    LET names == (IF pkg.name \in DOMAIN providers THEN <<>> ELSE <<pkg.name>>) \o pkg.provides
        add(f, n) == Extend(f, n, IF n \in DOMAIN f THEN Append(f[n], pkg) ELSE <<pkg>>)
    IN FoldLeft(add, providers, names)

ProvidersOf(paragraphs, providers) == FoldLeft(AddProvider, providers, paragraphs)

\* parseList, of the paragraphs of a listing: the last package of a name stays.
ParseList(paragraphs, list) ==
    [pkgs |-> [n \in DOMAIN list.pkgs \cup {p.name : p \in Range(paragraphs)} |->
                 LET I == {i \in DOMAIN paragraphs : paragraphs[i].name = n}
                 IN IF I = {} THEN list.pkgs[n] ELSE paragraphs[Max(I)]],
     providers |-> ProvidersOf(paragraphs, list.providers)]

-----------------------------------------------------------------------------
(* What an installation needs.                                             *)

Providers(list, name) == IF name \in DOMAIN list.providers THEN list.providers[name] ELSE <<>>
Info == [seen : SUBSET STRING, install : Seq(Paragraph(STRING)), errors : SUBSET STRING]
NoInfo == [seen |-> {}, install |-> <<>>, errors |-> {}]

\* Mutant: any version of an installed package will do.
JudgeInstalled(info, pkg, d, available) ==
    IF pkg.installed THEN info
    ELSE IF d.vop = "" \/ VersionSatisfied(pkg.version, d.ver, d.vop)
    THEN [info EXCEPT !.install = Append(@, pkg)]
    ELSE [info EXCEPT !.errors = @ \cup {pkg.name}]

\* pkgStatus
Judge(info, pkg, d, available) ==
    IF d.vop = "" \/ VersionSatisfied(pkg.version, d.ver, d.vop)
    THEN IF pkg.installed THEN info ELSE [info EXCEPT !.install = Append(@, pkg)]
    ELSE LET fit == SelectSeq(Providers(available, pkg.name),
                              LAMBDA p : VersionSatisfied(p.version, d.ver, d.vop))
         IN IF pkg.installed /\ fit # <<>>
            THEN [info EXCEPT !.install = Append(@, fit[1])]
            ELSE [info EXCEPT !.errors = @ \cup {pkg.name}]

Missing(info, d) == [info EXCEPT !.errors = @ \cup {d.name}]

\* The packages that provide d, as they are installed or else available.
Candidates(d, installed, available) ==
    LET names == FoldLeft(LAMBDA ns, p : IF Contains(ns, p.name) THEN ns ELSE Append(ns, p.name),
                          <<>>, Providers(installed, d.name) \o Providers(available, d.name))
    IN [k \in DOMAIN names |->
          IF names[k] \in DOMAIN installed.pkgs THEN installed.pkgs[names[k]]
          ELSE available.pkgs[names[k]]]

\* renderDependencies, renderDependencyItem: a name is looked at once, with the
\* version that it first comes with, then what its candidates depend on.
Resolve(needs, installed, available) ==
    LET look[depends \in Seq(Dependency), info \in Info] ==
          LET item(i, d) ==
                IF d.name \in i.seen THEN i
                ELSE LET found == Candidates(d, installed, available)
                         judged == FoldLeft(LAMBDA j, p : Judge(j, p, d, available),
                                            [i EXCEPT !.seen = @ \cup {d.name}], found)
                         deeper == FlattenSeq([k \in DOMAIN found |-> found[k].depends])
                     IN IF found = <<>> THEN Missing(judged, d) ELSE look[deeper, judged]
          IN FoldLeft(item, info, depends)
    IN look[needs, NoInfo]

-----------------------------------------------------------------------------
\* These packages have what they depend on.
Provides(p, name) == name = p.name \/ name \in ToSet(p.provides)
Closed(pkgs, all) ==
    \A p \in pkgs : \A d \in ToSet(p.depends) :
        \E q \in all : /\ Provides(q, d.name)
                       /\ d.vop = "" \/ VersionSatisfied(q.version, d.ver, d.vop)
===============================================================================
