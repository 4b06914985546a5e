--------------------------- MODULE PageLife_proofs ---------------------------
(***************************************************************************)
(* The class loader, for any classes and whatever their files require, and *)
(* the rows of a page, for any number of sections, clicks and reloads.     *)
(*                                                                         *)
(* CircularIsReal is not inductive: it needs ChainsReal, that whoever a    *)
(* class is loaded for depends on it, which holds because the chain of a   *)
(* class grows only by the chain of the class that requires it.            *)
(***************************************************************************)
EXTENDS PageLife, FiniteSetTheorems, WellFoundedInduction, TLAPS

-----------------------------------------------------------------------------
(* What the files say, for a function f from the classes to the lists.     *)

Required(f, c) == Range(f[c])
ClosedOf(f) == {S \in SUBSET Names : \A d \in S : Required(f, d) \subseteq S}
\* What c depends on if the files say f.
Below(f, c) == {k \in Names : \A S \in ClosedOf(f) : Required(f, c) \subseteq S => k \in S}
Files == [Names -> Seq(Names)]

\* What a file requires are classes.
LEMMA RequiredAreNames == ASSUME NEW f \in Files, NEW c \in Names PROVE Required(f, c) \subseteq Names
BY DEF Required, Files, Range

\* A class depends on what it requires, ...
LEMMA DependsDirectly ==
  ASSUME NEW f \in Files, NEW c \in Names PROVE Required(f, c) \subseteq Below(f, c)
BY RequiredAreNames DEF Below

\* ... on what these require, ...
LEMMA DependsFurther ==
  ASSUME NEW f \in Files, NEW c \in Names, NEW k \in Below(f, c)
  PROVE  Required(f, k) \subseteq Below(f, c)
<1>1. Required(f, k) \subseteq Names
  BY RequiredAreNames DEF Below
<1>. QED BY <1>1 DEF Below, ClosedOf

\* ... and on all that these depend on.
LEMMA DependsTransitive ==
  ASSUME NEW f \in Files, NEW c \in Names, NEW k \in Below(f, c)
  PROVE  Below(f, k) \subseteq Below(f, c)
<1>1. Required(f, k) \subseteq Below(f, c)
  BY DependsFurther
<1>2. Below(f, c) \in ClosedOf(f)
  <2>1. Below(f, c) \subseteq Names
    BY DEF Below
  <2>2. \A d \in Below(f, c) : Required(f, d) \subseteq Below(f, c)
    BY DependsFurther
  <2>. QED BY <2>1, <2>2 DEF ClosedOf
<1>. QED BY <1>1, <1>2 DEF Below

\* A file that requires more makes its class depend on more, and no class on less.
LEMMA DependsGrows ==
  ASSUME NEW f \in Files, NEW g \in Files,
         \A c \in Names : Required(f, c) \subseteq Required(g, c),
         NEW c \in Names
  PROVE  Below(f, c) \subseteq Below(g, c)
<1>1. ClosedOf(g) \subseteq ClosedOf(f)
  BY DEF ClosedOf
<1>. QED BY <1>1 DEF Below

\* A set of numbers that has a member has a least one.
LEMMA SmallestOf ==
    ASSUME NEW S, S \subseteq Nat, S # {}
    PROVE  \E n \in S : \A k \in S : n <= k
<1>1. PICK n \in S : \A k \in S : ~ (<<k, n>> \in OpToRel(<, Nat))
  BY WFMin, NatLessThanWellFounded, Zenon
<1>2. \A k \in S : ~ (k < n)
  BY <1>1, Zenon DEF OpToRel
<1>. QED BY <1>2

\* There are classes each of which requires one of them.
Ring(f) == \E S \in (SUBSET Names) \ {{}} : \A c \in S : S \cap Required(f, c) # {}

\* Of classes that require each other in a ring, one depends on itself.
LEMMA RingHasCycle ==
  ASSUME NEW f \in Files, Ring(f)
  PROVE  \E c \in Names : c \in Below(f, c)
<1>1. PICK S \in (SUBSET Names) \ {{}} : \A c \in S : S \cap Required(f, c) # {}
  BY DEF Ring
<1>. DEFINE Size(c) == Cardinality(Below(f, c))
<1>2. \A c \in Names : IsFiniteSet(Below(f, c)) /\ Size(c) \in Nat
  <2>. SUFFICES ASSUME NEW c \in Names PROVE IsFiniteSet(Below(f, c)) /\ Size(c) \in Nat
    OBVIOUS
  <2>1. Below(f, c) \subseteq Names
    BY DEF Below
  <2>. QED BY <2>1, NamesAssumption, FS_Subset, FS_CardinalityType
<1>3. PICK c \in S : \A k \in S : Size(c) <= Size(k)
  <2>. DEFINE Sizes == {Size(k) : k \in S}
  <2>1. \A k \in S : Size(k) \in Nat
    BY <1>2
  <2>2. Sizes \subseteq Nat /\ Sizes # {}
    <3>. HIDE DEF Size
    <3>. QED BY <1>1, <2>1
  <2>. HIDE DEF Sizes
  <2>3. PICK n \in Sizes : \A m \in Sizes : n <= m
    BY <2>2, SmallestOf
  <2>. QED BY <2>3 DEF Sizes
<1>4. PICK d \in S : d \in Required(f, c)
  BY <1>1
<1>5. d \in Below(f, c)
  BY <1>4, <1>1, DependsDirectly
<1>6. Below(f, d) \subseteq Below(f, c)
  BY <1>5, <1>1, DependsTransitive
<1>7. d \in Below(f, d)
  <2>. SUFFICES ASSUME d \notin Below(f, d) PROVE FALSE
    OBVIOUS
  <2>1. Below(f, d) # Below(f, c)
    BY <1>5
  <2>2. c \in Names /\ d \in Names
    BY <1>1
  <2>3. Size(d) <= Size(c) /\ (Size(d) = Size(c) => Below(f, d) = Below(f, c))
    BY <1>2, <1>6, <2>2, FS_Subset
  <2>4. Size(d) \in Nat /\ Size(c) \in Nat
    BY <1>2, <2>2
  <2>5. Size(c) <= Size(d)
    BY <1>3
  <2>. HIDE DEF Size
  <2>. QED BY <2>1, <2>3, <2>4, <2>5
<1>. QED BY <1>7, <1>1

\* A class that depends on itself is in such a ring.
LEMMA CycleIsRing ==
  ASSUME NEW f \in Files, NEW c \in Names, c \in Below(f, c)
  PROVE  Ring(f)
<1>. DEFINE S == {k \in Names : c \in Below(f, k)}
<1>1. ASSUME NEW k \in S PROVE S \cap Required(f, k) # {}
  <2>. SUFFICES ASSUME S \cap Required(f, k) = {} PROVE FALSE
    OBVIOUS
  <2>. DEFINE T == Below(f, k) \ S
  <2>1. Required(f, k) \subseteq T
    BY DependsDirectly
  <2>2. \A d \in T : Required(f, d) \subseteq T
    <3>. SUFFICES ASSUME NEW d \in T, NEW e \in Required(f, d) PROVE e \in T
      OBVIOUS
    <3>1. d \in Names /\ e \in Names
      BY RequiredAreNames DEF Below
    <3>2. e \in Below(f, k)
      BY <3>1, DependsFurther
    <3>3. e \in Below(f, d)
      BY <3>1, DependsDirectly
    <3>4. Below(f, e) \subseteq Below(f, d)
      BY <3>1, <3>3, DependsTransitive
    <3>. QED BY <3>1, <3>2, <3>4
  <2>3. T \in ClosedOf(f)
    BY <2>2 DEF ClosedOf, Below
  <2>4. c \in T
    BY <2>1, <2>3 DEF Below
  <2>. QED BY <2>4
<1>2. S \in (SUBSET Names) \ {{}}
  <2>1. S \subseteq Names /\ c \in S
    OBVIOUS
  <2>. QED BY <2>1
<1>. QED BY <1>1, <1>2 DEF Ring

\* The same in the words of the model, before a step and after it.
LEMMA InWordsOfModel ==
  /\ \A c \in Names : DependsOn(c) = Below(deps, c)
  /\ Cyclic <=> Ring(deps)
BY DEF DependsOn, Below, Closed, ClosedOf, Required, DepsOf, Cyclic, Ring

\* The classes that a class depends on after a step.
LEMMA InWordsOfModelNext ==
  \A c \in Names : DependsOn(c)' = Below(deps', c)
BY DEF DependsOn, Below, Closed, ClosedOf, Required, DepsOf

\* A ring of files that require each other is the same as a class that depends
\* on itself: the two ways in which the run's properties speak of a cycle.
THEOREM RingIsCycle == TypeOK => (Cyclic <=> \E c \in Names : c \in DependsOn(c))
<1>. SUFFICES ASSUME TypeOK PROVE Cyclic <=> \E c \in Names : c \in DependsOn(c)
  OBVIOUS
<1>1. deps \in Files
  BY DEF TypeOK, Files
<1>. QED BY <1>1, RingHasCycle, CycleIsRing, InWordsOfModel

-----------------------------------------------------------------------------
(* The loader.                                                             *)

Classes == {"none", "loading", "waiting", "ready"} \cup Failures

USE DEF Failures

\* What require() makes of classes and from lists.
FetchedFrom(w, r, required, from) ==
  /\ r.class \in [Names -> Classes] /\ r.chain \in [Names -> SUBSET Names]
  /\ \A c \in Names :
       \/ r.class[c] = w.class[c] /\ r.chain[c] = w.chain[c]
       \/ /\ c \in required
          /\ w.class[c] = "none" /\ r.class[c] = "loading" /\ r.chain[c] = {c} \cup from
  /\ \A c \in required : r.class[c] # "none"

\* A class nobody has asked for is fetched on behalf of "from"; all others stay.
LEMMA Fetched ==
  ASSUME NEW w, w.class \in [Names -> Classes], w.chain \in [Names -> SUBSET Names],
         NEW required \in SUBSET Names, NEW from \in SUBSET Names
  PROVE  FetchedFrom(w, RequireAll(w, required, from), required, from)
BY DEF RequireAll, Classes, FetchedFrom

\* A class that waits for its file has no list yet.
Unread == \A c \in Names : class[c] \in {"none", "loading"} => deps[c] = <<>>

\* Whoever c is loaded for depends on c.
ChainsReal == \A c \in Names : \A b \in chain[c] : b # c => c \in DependsOn(b)

\* What a class waits for has been asked for; what it was built from is there.
AskedFor == \A c \in Names : class[c] \in {"waiting", "ready"} => \A d \in DepsOf(c) : class[d] # "none"
BuiltOnReady == \A c \in Names : Ready(c) => \A d \in DepsOf(c) : Ready(d)

LoaderInv == TypeOK /\ Unread /\ ChainsReal /\ AskedFor /\ BuiltOnReady /\ CircularIsReal

\* The state of the loader, apart from that of the page.
LoaderOK ==
  /\ class \in [Names -> Classes] /\ chain \in [Names -> SUBSET Names]
  /\ deps \in Files /\ \A c \in Names : deps[c] \in Allowed[c] \cup {<<>>}

PageOK ==
  /\ stage \in {"core", "probing", "preloading", "up", "dead"}
  /\ features \in {"unknown", "pending", "known", "failed"}
  /\ listing \in {"unknown", "pending", "known", "empty"}
  /\ tasks \subseteq Names
  /\ asked \in BOOLEAN
  /\ shown \in {"nothing", "spinner", "view", "error"}
  /\ stored \in [features : {"unknown", "known"}, listing : {"unknown", "known", "empty"}]
  /\ loads \in 1..MaxLoads

\* The type invariant is that of the loader and that of the page.
LEMMA TypeParts == TypeOK <=> LoaderOK /\ PageOK
BY DEF TypeOK, LoaderOK, PageOK, Classes, Files

\* The same after a step.
LEMMA TypePartsNext == LoaderOK' /\ PageOK' => TypeOK'
BY DEF TypeOK, LoaderOK, PageOK, Classes, Files

\* The loader's part.
LEMMA LoaderTyped == TypeOK => LoaderOK
BY TypeParts

\* The first page of a session and every other one begin with the core classes.
LEMMA CoreFetched ==
  /\ CoreWorld.class \in [Names -> Classes] /\ CoreWorld.chain \in [Names -> SUBSET Names]
  /\ \A c \in Names : /\ CoreWorld.class[c] \in {"none", "loading"}
                      /\ CoreWorld.chain[c] \in {{}, {c}}
<1>. DEFINE w == [class |-> [c \in Names |-> "none"], chain |-> [c \in Names |-> {}]]
<1>1. w.class \in [Names -> Classes] /\ w.chain \in [Names -> SUBSET Names]
  BY DEF Classes
<1>2. Core \in SUBSET Names
  BY NamesAssumption
<1>3. \A c \in Names : w.class[c] = "none" /\ w.chain[c] = {}
  OBVIOUS
<1>4. CoreWorld = RequireAll(w, Core, {})
  BY DEF CoreWorld
<1>. HIDE DEF w
<1>5. FetchedFrom(w, CoreWorld, Core, {})
  BY <1>1, <1>2, <1>4, Fetched
<1>. QED BY <1>3, <1>5 DEF FetchedFrom

\* Steps that the loader has no part in.
LEMMA PageStep ==
  ASSUME LoaderInv, TypeOK', UNCHANGED classVars
  PROVE  LoaderInv'
BY DEF LoaderInv, classVars, Unread, ChainsReal, AskedFor, BuiltOnReady, CircularIsReal,
       DependsOn, Closed, DepsOf, Ready

\* Classes that are required by the page, and not by another class.
LEMMA FetchStep ==
  ASSUME LoaderInv, TypeOK', NEW S \in SUBSET Names,
         class' = RequireAll(World, S, {}).class, chain' = RequireAll(World, S, {}).chain,
         UNCHANGED deps
  PROVE  LoaderInv'
<1>1. FetchedFrom(World, RequireAll(World, S, {}), S, {})
  <2>1. World.class \in [Names -> Classes] /\ World.chain \in [Names -> SUBSET Names]
    BY LoaderTyped DEF LoaderOK, LoaderInv, World
  <2>. QED BY <2>1, Fetched
<1>2. \A c \in Names :
        \/ class'[c] = class[c] /\ chain'[c] = chain[c]
        \/ class[c] = "none" /\ class'[c] = "loading" /\ chain'[c] = {c}
  BY <1>1 DEF FetchedFrom, World
<1>3. \A c \in Names : DependsOn(c)' = DependsOn(c) /\ DepsOf(c)' = DepsOf(c)
  BY DEF DependsOn, Closed, DepsOf
<1>4. \A c \in Names : DepsOf(c) \subseteq Names
  BY DEF LoaderInv, TypeOK, DepsOf, Range
<1>5. Unread' /\ ChainsReal'
  <2>1. \A c \in Names : chain[c] \subseteq Names
    BY LoaderTyped DEF LoaderInv, LoaderOK
  <2>. QED BY <2>1, <1>2, <1>3 DEF LoaderInv, Unread, ChainsReal
<1>6. AskedFor' /\ BuiltOnReady'
  BY <1>2, <1>3, <1>4 DEF LoaderInv, AskedFor, BuiltOnReady, Ready
<1>7. CircularIsReal'
  BY <1>2, <1>3 DEF LoaderInv, CircularIsReal
<1>. QED BY <1>5, <1>6, <1>7 DEF LoaderInv

\* A class that only changes what is known of it.
LEMMA OutcomeStep ==
  ASSUME LoaderInv, TypeOK', NEW c \in Names, NEW result \in {"ready", "broken", "orphan"},
         class[c] \in {"loading", "waiting"}, class' = [class EXCEPT ![c] = result],
         result = "ready" => class[c] = "waiting" /\ \A d \in DepsOf(c) : Ready(d),
         UNCHANGED <<chain, deps>>
  PROVE  LoaderInv'
<1>1. \A n \in Names : class'[n] = IF n = c THEN result ELSE class[n]
  BY LoaderTyped DEF LoaderInv, LoaderOK
<1>2. \A n \in Names : DependsOn(n)' = DependsOn(n) /\ DepsOf(n)' = DepsOf(n)
  BY DEF DependsOn, Closed, DepsOf
<1>3. \A n \in Names : DepsOf(n) \subseteq Names
  BY DEF LoaderInv, TypeOK, DepsOf, Range
<1>4. Unread' /\ ChainsReal'
  <2>1. \A n \in Names : chain[n] \subseteq Names
    BY LoaderTyped DEF LoaderInv, LoaderOK
  <2>. QED BY <2>1, <1>1, <1>2 DEF LoaderInv, Unread, ChainsReal
<1>5. AskedFor'
  BY <1>1, <1>2, <1>3 DEF LoaderInv, AskedFor
<1>6. BuiltOnReady'
  BY <1>1, <1>2, <1>3 DEF LoaderInv, BuiltOnReady, Ready
<1>7. CircularIsReal'
  BY <1>1, <1>2 DEF LoaderInv, CircularIsReal
<1>. QED BY <1>4, <1>5, <1>6, <1>7 DEF LoaderInv

\* The file of a class has come: what it requires is loaded on its behalf.
LEMMA LoadedStep ==
  ASSUME LoaderInv, TypeOK', NEW c \in Names, Loaded(c)
  PROVE  LoaderInv'
<1>. USE DEF LoaderInv
<1>1. PICK d \in Allowed[c] :
         LET clear == {i \in DOMAIN d : d[i] \notin chain[c]}
             required == {d[i] : i \in {j \in DOMAIN d : 1..j \subseteq clear}}
             w == RequireAll(World, required, chain[c])
         IN /\ deps' = [deps EXCEPT ![c] = d]
            /\ class' = [w.class EXCEPT ![c] = IF clear = DOMAIN d THEN "waiting" ELSE "circular"]
            /\ chain' = w.chain
  BY DEF Loaded
<1>. DEFINE clear == {i \in DOMAIN d : d[i] \notin chain[c]}
            required == {d[i] : i \in {j \in DOMAIN d : 1..j \subseteq clear}}
            w == RequireAll(World, required, chain[c])
<1>2. d \in Seq(Names)
  BY AllowedAssumption
<1>3. /\ class[c] = "loading" /\ class \in [Names -> Classes] /\ deps \in Files /\ deps[c] = <<>>
      /\ chain[c] \in SUBSET Names /\ deps' \in Files
  BY LoaderTyped DEF LoaderOK, Loaded, Unread, TypeOK, Files
<1>4. required \in SUBSET Names /\ required \subseteq Range(d) /\ (clear = DOMAIN d => required = Range(d))
  BY <1>2 DEF Range
<1>5. FetchedFrom(World, w, required, chain[c])
  <2>1. World.class \in [Names -> Classes] /\ World.chain \in [Names -> SUBSET Names]
    BY LoaderTyped DEF LoaderOK, World
  <2>. HIDE DEF required
  <2>. QED BY <2>1, <1>3, <1>4, Fetched
<1>6. /\ deps' = [deps EXCEPT ![c] = d]
      /\ class' = [w.class EXCEPT ![c] = IF clear = DOMAIN d THEN "waiting" ELSE "circular"]
      /\ chain' = w.chain
  BY <1>1
<1>7. clear = DOMAIN d \/ \E k \in Range(d) : k \in chain[c]
  BY DEF Range
<1>. HIDE DEF w, required
<1>8. \A n \in Names :
        /\ deps'[n] = IF n = c THEN d ELSE deps[n]
        /\ n # c => \/ class'[n] = class[n] /\ chain'[n] = chain[n]
                    \/ /\ n \in required /\ class[n] = "none" /\ class'[n] = "loading"
                       /\ chain'[n] = {n} \cup chain[c]
  BY <1>3, <1>5, <1>6 DEF FetchedFrom, World, Files
<1>9. chain'[c] = chain[c] /\ \A n \in required : n # c => class'[n] # "none"
  BY <1>3, <1>4, <1>5, <1>6 DEF FetchedFrom, World
<1>10. class'[c] = IF clear = DOMAIN d THEN "waiting" ELSE "circular"
  BY <1>5, <1>6 DEF FetchedFrom
<1>. HIDE DEF clear
<1>11. \A n \in Names : Required(deps, n) \subseteq Required(deps', n)
  BY <1>3, <1>8 DEF Required, Range
<1>12. \A n \in Names : DependsOn(n) \subseteq DependsOn(n)'
  BY <1>3, <1>11, DependsGrows, InWordsOfModel, InWordsOfModelNext
<1>13. \A n \in Range(d) : n \in DependsOn(c)'
  BY <1>3, <1>8, DependsDirectly, InWordsOfModelNext DEF Required
<1>14. \A b \in chain[c] : Range(d) \subseteq DependsOn(b)'
  <2>. SUFFICES ASSUME NEW b \in chain[c] PROVE Range(d) \subseteq DependsOn(b)'
    OBVIOUS
  <2>1. CASE b = c
    BY <2>1, <1>13
  <2>2. CASE b # c
    <3>1. c \in Below(deps', b) /\ b \in Names
      BY <2>2, <1>3, <1>12, InWordsOfModelNext DEF ChainsReal
    <3>2. Required(deps', c) \subseteq Below(deps', b)
      BY <3>1, <1>3, DependsFurther
    <3>. QED BY <3>1, <3>2, <1>8, InWordsOfModelNext DEF Required
  <2>. QED BY <2>1, <2>2
<1>15. Unread'
  BY <1>8, <1>10 DEF Unread
<1>16. ChainsReal'
  <2>. SUFFICES ASSUME NEW n \in Names, NEW b \in chain'[n], b # n PROVE n \in DependsOn(b)'
    BY DEF ChainsReal
  <2>1. CASE chain'[n] = chain[n]
    <3>1. b \in Names
      BY <2>1, LoaderTyped DEF LoaderOK
    <3>. QED BY <2>1, <3>1, <1>12 DEF ChainsReal
  <2>2. CASE n \in required /\ chain'[n] = {n} \cup chain[c]
    BY <2>2, <1>4, <1>14
  <2>. QED BY <2>1, <2>2, <1>8, <1>9
<1>17. \A n \in Names : DepsOf(n)' = IF n = c THEN Range(d) ELSE DepsOf(n)
  BY <1>8 DEF DepsOf
<1>18. \A n \in Names : DepsOf(n) \subseteq Names
  BY DEF TypeOK, DepsOf, Range
<1>19. AskedFor'
  <2>. SUFFICES ASSUME NEW n \in Names, class'[n] \in {"waiting", "ready"}, NEW k \in DepsOf(n)'
       PROVE class'[k] # "none"
    BY DEF AskedFor
  <2>1. CASE n = c
    BY <2>1, <1>4, <1>9, <1>10, <1>17
  <2>2. CASE n # c
    BY <2>2, <1>8, <1>10, <1>17, <1>18 DEF AskedFor
  <2>. QED BY <2>1, <2>2
<1>20. BuiltOnReady'
  BY <1>3, <1>8, <1>10, <1>17, <1>18 DEF BuiltOnReady, Ready
<1>21. CircularIsReal'
  <2>. SUFFICES ASSUME NEW n \in Names, class'[n] = "circular" PROVE n \in DependsOn(n)'
    BY DEF CircularIsReal
  <2>1. CASE n # c
    BY <2>1, <1>8, <1>12 DEF CircularIsReal
  <2>2. CASE n = c
    <3>1. PICK k \in Range(d) : k \in chain[c]
      BY <2>2, <1>7, <1>10
    <3>2. CASE k = c
      BY <2>2, <3>1, <3>2, <1>13
    <3>3. CASE k # c
      <4>1. c \in Below(deps', k) /\ k \in Names
        BY <3>1, <3>3, <1>3, <1>12, InWordsOfModelNext DEF ChainsReal
      <4>2. k \in Below(deps', c)
        BY <3>1, <1>13, InWordsOfModelNext
      <4>3. Below(deps', k) \subseteq Below(deps', c)
        BY <4>2, <1>3, DependsTransitive
      <4>. QED BY <2>2, <4>1, <4>3, InWordsOfModelNext
    <3>. QED BY <3>2, <3>3
  <2>. QED BY <2>1, <2>2
<1>. QED BY <1>15, <1>16, <1>19, <1>20, <1>21

\* Every step keeps the state of its type.
LEMMA TypeStep == TypeOK /\ [Next]_vars => TypeOK'
<1>. SUFFICES ASSUME TypeOK, [Next]_vars PROVE TypeOK'
  OBVIOUS
<1>. USE DEF TypeOK, classVars, pageVars
<1>0. Preloads \subseteq Names /\ View \in Names
  BY NamesAssumption
<1>1. ASSUME NEW S \in SUBSET Names,
             class' = RequireAll(World, S, {}).class, chain' = RequireAll(World, S, {}).chain
      PROVE  class' \in [Names -> Classes] /\ chain' \in [Names -> SUBSET Names]
  <2>1. World.class \in [Names -> Classes] /\ World.chain \in [Names -> SUBSET Names]
    BY LoaderTyped DEF LoaderOK, World
  <2>2. FetchedFrom(World, RequireAll(World, S, {}), S, {})
    BY <2>1, Fetched
  <2>. QED BY <2>2, <1>1 DEF FetchedFrom
<1>2. CASE SetupDOM \/ SetupFails \/ InitDOM
  BY <1>2 DEF SetupDOM, SetupFails, InitDOM
<1>3. CASE Preload
  <2>1. tasks' \in SUBSET Names
    BY <1>0, <1>3 DEF Preload
  <2>2. class' \in [Names -> Classes] /\ chain' \in [Names -> SUBSET Names]
    BY <2>1, <1>1, <1>3 DEF Preload
  <2>. QED BY <1>3, <2>1, <2>2 DEF Preload, Classes
<1>4. CASE InstantiateView
  <2>1. {View} \in SUBSET Names
    BY <1>0
  <2>2. class' \in [Names -> Classes] /\ chain' \in [Names -> SUBSET Names]
    BY <2>1, <1>1, <1>4 DEF InstantiateView
  <2>. QED BY <1>4, <2>2 DEF InstantiateView, Classes
<1>5. CASE ViewLoaded \/ ViewFails
  BY <1>5 DEF ViewLoaded, ViewFails
<1>6. CASE FeaturesReply \/ ListingReply
  BY <1>6 DEF FeaturesReply, ListingReply
<1>7. CASE NextPage
  <2>1. class' \in [Names -> Classes] /\ chain' \in [Names -> SUBSET Names]
    BY <1>7, CoreFetched DEF NextPage
  <2>2. loads' \in 1..MaxLoads
    BY <1>7, MaxLoadsAssumption DEF NextPage
  <2>3. LoaderOK'
    BY <1>7, <2>1 DEF NextPage, LoaderOK, Files
  <2>4. PageOK'
    BY <1>7, <2>2 DEF NextPage, PageOK
  <2>. QED BY <2>3, <2>4, TypePartsNext
<1>8. ASSUME NEW c \in Names, Load(c) PROVE TypeOK'
  <2>1. CASE Loaded(c)
    <3>1. PICK d \in Allowed[c] :
            LET clear == {i \in DOMAIN d : d[i] \notin chain[c]}
                required == {d[i] : i \in {j \in DOMAIN d : 1..j \subseteq clear}}
                w == RequireAll(World, required, chain[c])
            IN /\ deps' = [deps EXCEPT ![c] = d]
               /\ class' = [w.class EXCEPT ![c] = IF clear = DOMAIN d THEN "waiting" ELSE "circular"]
               /\ chain' = w.chain
      BY <2>1 DEF Loaded
    <3>. DEFINE clear == {i \in DOMAIN d : d[i] \notin chain[c]}
                required == {d[i] : i \in {j \in DOMAIN d : 1..j \subseteq clear}}
                w == RequireAll(World, required, chain[c])
    <3>2. d \in Seq(Names)
      BY AllowedAssumption
    <3>3. required \in SUBSET Names
      BY <3>2
    <3>4. FetchedFrom(World, w, required, chain[c])
      <4>1. World.class \in [Names -> Classes] /\ World.chain \in [Names -> SUBSET Names]
        BY LoaderTyped DEF LoaderOK, World
      <4>. HIDE DEF required
      <4>. QED BY <4>1, <3>3, Fetched
    <3>5. /\ deps' = [deps EXCEPT ![c] = d]
          /\ class' = [w.class EXCEPT ![c] = IF clear = DOMAIN d THEN "waiting" ELSE "circular"]
          /\ chain' = w.chain
      BY <3>1
    <3>. HIDE DEF w, required, clear
    <3>6. class' \in [Names -> Classes] /\ chain' \in [Names -> SUBSET Names]
      BY <3>4, <3>5 DEF FetchedFrom, Classes
    <3>7. deps' \in [Names -> Seq(Names)] /\ \A n \in Names : deps'[n] \in Allowed[n] \cup {<<>>}
      BY <3>2, <3>5
    <3>8. PageOK'
      BY <2>1, TypeParts DEF Loaded, PageOK
    <3>9. LoaderOK'
      BY <3>6, <3>7 DEF LoaderOK, Files
    <3>. QED BY <3>8, <3>9, TypePartsNext
  <2>2. CASE NotFound(c)
    BY <2>2 DEF NotFound
  <2>3. CASE Build(c)
    BY <2>3 DEF Build
  <2>4. CASE Abandon(c)
    BY <2>4 DEF Abandon
  <2>. QED BY <1>8, <2>1, <2>2, <2>3, <2>4 DEF Load
<1>9. CASE UNCHANGED vars
  BY <1>9 DEF vars
<1>. QED BY <1>2, <1>3, <1>4, <1>5, <1>6, <1>7, <1>8, <1>9 DEF Next, Boot, Show

\* The first page of a session is of the type.
LEMMA TypeInit == Init => TypeOK
<1>. SUFFICES ASSUME Init PROVE TypeOK
  OBVIOUS
<1>1. LoaderOK
  BY CoreFetched DEF Init, LoaderOK, Files
<1>2. PageOK
  <2>1. 1 \in 1..MaxLoads
    BY MaxLoadsAssumption
  <2>2. stored \in [features : {"unknown", "known"}, listing : {"unknown", "known", "empty"}]
    BY DEF Init
  <2>. QED BY <2>1, <2>2 DEF Init, PageOK
<1>. QED BY <1>1, <1>2, TypeParts

\* Nothing is known of any class when a session begins, ...
LEMMA InvInit == ASSUME TypeOK, class = CoreWorld.class, chain = CoreWorld.chain, deps = [c \in Names |-> <<>>]
  PROVE  LoaderInv
<1>1. \A c \in Names : class[c] \in {"none", "loading"} /\ chain[c] \in {{}, {c}} /\ deps[c] = <<>>
  BY CoreFetched
<1>. QED BY <1>1 DEF LoaderInv, Unread, ChainsReal, AskedFor, BuiltOnReady, CircularIsReal, Ready

\* ... nor when another page does.
LEMMA InvNewPage ==
  ASSUME TypeOK', class' = CoreWorld.class, chain' = CoreWorld.chain,
         deps' = [c \in Names |-> <<>>]
  PROVE  LoaderInv'
<1>1. \A c \in Names : class'[c] \in {"none", "loading"} /\ chain'[c] \in {{}, {c}} /\ deps'[c] = <<>>
  BY CoreFetched
<1>. QED BY <1>1 DEF LoaderInv, Unread, ChainsReal, AskedFor, BuiltOnReady, CircularIsReal, Ready

\* Every step of the loader and of the page keeps the invariant.
LEMMA InvStep == LoaderInv /\ [Next]_vars => LoaderInv'
<1>. SUFFICES ASSUME LoaderInv, [Next]_vars PROVE LoaderInv'
  OBVIOUS
<1>1. TypeOK'
  BY TypeStep DEF LoaderInv
<1>2. CASE SetupDOM \/ SetupFails \/ InitDOM \/ ViewLoaded \/ ViewFails \/ FeaturesReply \/ ListingReply
  <2>1. UNCHANGED classVars
    BY <1>2 DEF SetupDOM, SetupFails, InitDOM, ViewLoaded, ViewFails, FeaturesReply, ListingReply
  <2>. QED BY <2>1, <1>1, PageStep
<1>3. CASE Preload
  <2>1. tasks' \in SUBSET Names
    BY <1>1 DEF TypeOK
  <2>2. /\ class' = RequireAll(World, tasks', {}).class
        /\ chain' = RequireAll(World, tasks', {}).chain
        /\ UNCHANGED deps
    BY <1>3 DEF Preload
  <2>. QED BY <2>1, <2>2, <1>1, FetchStep
<1>4. CASE InstantiateView
  <2>1. {View} \in SUBSET Names
    BY NamesAssumption
  <2>2. /\ class' = RequireAll(World, {View}, {}).class
        /\ chain' = RequireAll(World, {View}, {}).chain
        /\ UNCHANGED deps
    BY <1>4 DEF InstantiateView
  <2>. QED BY <2>1, <2>2, <1>1, FetchStep
<1>5. CASE NextPage
  BY <1>1, <1>5, InvNewPage DEF NextPage
<1>6. ASSUME NEW c \in Names, Load(c) PROVE LoaderInv'
  <2>1. CASE Loaded(c)
    BY <2>1, <1>1, LoadedStep
  <2>2. CASE NotFound(c)
    BY <2>2, <1>1, OutcomeStep DEF NotFound
  <2>3. CASE Build(c)
    <3>1. PICK result \in {"ready", "broken"} : class' = [class EXCEPT ![c] = result]
      BY <2>3 DEF Build
    <3>. QED BY <2>3, <3>1, <1>1, OutcomeStep DEF Build
  <2>4. CASE Abandon(c)
    BY <2>4, <1>1, OutcomeStep DEF Abandon
  <2>. QED BY <1>6, <2>1, <2>2, <2>3, <2>4 DEF Load
<1>7. CASE UNCHANGED vars
  <2>1. UNCHANGED classVars
    BY <1>7 DEF vars
  <2>. QED BY <2>1, <1>1, PageStep
<1>. QED BY <1>2, <1>3, <1>4, <1>5, <1>6, <1>7 DEF Next, Boot, Show

\* The classes of a page that is up need nothing more.
LEMMA UpInit == PageIsUp => LoaderInv
<1>. SUFFICES ASSUME PageIsUp PROVE LoaderInv
  OBVIOUS
<1>1. \A c \in Names : class[c] = "ready" /\ chain[c] = {} /\ deps[c] = <<>> /\ DepsOf(c) = {}
  BY DEF PageIsUp, DepsOf, Range
<1>2. LoaderOK
  BY DEF PageIsUp, LoaderOK, Classes, Files
<1>3. PageOK
  <2>1. MaxLoads \in 1..MaxLoads
    BY MaxLoadsAssumption
  <2>2. stored \in [features : {"unknown", "known"}, listing : {"unknown", "known", "empty"}]
    BY DEF PageIsUp
  <2>. QED BY <2>1, <2>2 DEF PageIsUp, PageOK
<1>. QED BY <1>1, <1>2, <1>3, TypeParts
         DEF LoaderInv, Unread, ChainsReal, AskedFor, BuiltOnReady, CircularIsReal

\* The state of the loader is of its type; a chain of requests only names
\* classes that depend on the class it belongs to; what a class waits for has
\* been asked for; what a class was built from is there: on every page, however
\* many classes there are and whatever their files require (luci.js require()).
THEOREM LoaderInvariant == LifeSpec => []LoaderInv
<1>1. LifeInit => LoaderInv
  BY TypeInit, InvInit, UpInit DEF LifeInit, Init
<1>2. LoaderInv /\ [LifeNext]_<<vars, rowVars>> => LoaderInv'
  BY InvStep DEF LifeNext
<1>. QED BY <1>1, <1>2, PTL DEF LifeSpec

\* "Circular dependency" is raised about a class that depends on itself, never
\* because two classes share a third (luci.js require(), the from list).
THEOREM CircularAlwaysReal == LifeSpec => []CircularIsReal
<1>1. LoaderInv => CircularIsReal
  BY DEF LoaderInv
<1>. QED BY <1>1, LoaderInvariant, PTL

\* A factory runs, and an instance is handed out, only when all the classes it
\* names are instances (luci.js compileClass, Promise.all(depends)).
THEOREM ReadyIsComplete == LifeSpec => []BuiltOnReady
<1>1. LoaderInv => BuiltOnReady
  BY DEF LoaderInv
<1>. QED BY <1>1, LoaderInvariant, PTL

\* Neither the answer to a request nor a promise could change a class any more.
NothingMoves ==
  \A c \in Names :
    /\ class[c] # "loading"
    /\ class[c] = "waiting" => /\ \E d \in DepsOf(c) : ~Ready(d)
                              /\ \A d \in DepsOf(c) : ~Failed(d)

StoppedIsSettled == NothingMoves => Settled \/ Cyclic

\* The loader stops with a class that waits only if files require each other in
\* a ring: the part of ClassesSettle that needs no fairness (luci.js require()).
THEOREM OnlyRingsWait == LifeSpec => []StoppedIsSettled
<1>1. LoaderInv => StoppedIsSettled
  <2>. SUFFICES ASSUME LoaderInv, NothingMoves, ~Settled PROVE Cyclic
    BY DEF StoppedIsSettled
  <2>. DEFINE S == {c \in Names : class[c] = "waiting"}
  <2>1. class \in [Names -> Classes] /\ deps \in Files
    BY LoaderTyped DEF LoaderInv, LoaderOK
  <2>2. S \in (SUBSET Names) \ {{}}
    <3>1. PICK c \in Names : c \in S
      BY DEF Settled, NothingMoves
    <3>. QED BY <3>1
  <2>3. ASSUME NEW c \in S PROVE S \cap DepsOf(c) # {}
    <3>1. PICK d \in DepsOf(c) : ~Ready(d) /\ ~Failed(d)
      BY DEF NothingMoves
    <3>2. d \in Names
      BY <2>1, RequiredAreNames DEF DepsOf, Required
    <3>3. class[d] # "none"
      BY DEF LoaderInv, AskedFor
    <3>4. class[d] = "waiting"
      BY <2>1, <3>1, <3>2, <3>3 DEF Ready, Failed, Classes, NothingMoves
    <3>. QED BY <3>1, <3>2, <3>4
  <2>. QED BY <2>2, <2>3 DEF Cyclic
<1>. QED BY <1>1, LoaderInvariant, PTL

-----------------------------------------------------------------------------
(* The rows.                                                               *)

Live(i) == [row |-> i, live |-> TRUE]

\* A row of the interfaces page that spins has a command to run, a question that
\* is under way or in the dialog, or lost its dialog to another row's.
SpinEnds(i) ==
  rows[i].spin # "" => \/ rows[i].mark \in {"asked", "run"}
                       \/ Live(i) \in asking
                       \/ popup = Live(i)
                       \/ rows[i].abandoned

\* A command that is still to run has its mark.
InterfaceClicks ==
  \A i \in DOMAIN rows : /\ ~rows[i].late
                         /\ rows[i].waiting => rows[i].mark = "asked"
                         /\ SpinEnds(i)

\* On the wireless page a round replaces the marked elements: no mark is left
\* for it to take but of clicks that came while it ran.
RadioClicks ==
  \A i \in DOMAIN rows : rows[i].waiting /\ ~rows[i].late => rows[i].mark = "asked" /\ round # "running"

ClicksRemembered ==
  /\ page = "interfaces" => InterfaceClicks
  /\ page = "wireless" /\ ~fresh => RadioClicks

\* A question about a row that was not replaced is about a row of the page.
LiveRows == \A q \in asking \cup {popup} : q.live => q.row \in DOMAIN rows

RowsInv ==
  /\ RowsTypeOK /\ rows = [i \in DOMAIN rows |-> rows[i]]
  /\ ~fresh => DOMAIN rows = known
  /\ LiveRows
  /\ ClicksRemembered

\* The two bounds are numbers.
LEMMA Bounds == MaxPresses \in Nat /\ MaxReloads \in Nat
BY RowBoundsAssumption

\* No button of a new row was pressed.
LEMMA FreshRow == NewRow \in Row /\ ~NewRow.late /\ ~NewRow.waiting /\ NewRow.spin = ""
BY DEF NewRow, Row

\* The page with its rows, ...
LEMMA RowsStart == RowsInit => RowsInv
<1>. SUFFICES ASSUME RowsInit PROVE RowsInv
  OBVIOUS
<1>1. NewRow \in Row
  BY DEF NewRow, Row
<1>2. DOMAIN rows = known /\ \A i \in known : rows[i] = NewRow
  BY DEF RowsInit
<1>3. known \subseteq RowIds
  BY DEF RowsInit
<1>4. RowsTypeOK
  <2>1. \A i \in DOMAIN rows : rows[i] \in Row
    BY <1>1, <1>2
  <2>2. presses \in 0..MaxPresses /\ reloads \in 0..MaxReloads
    BY Bounds DEF RowsInit
  <2>3. page \in {"interfaces", "wireless"} /\ known \subseteq RowIds /\ fresh \in BOOLEAN
        /\ asking \subseteq Question /\ popup \in Question \cup {NoPopup}
        /\ round \in {"idle", "running", "dead"}
    BY <1>3 DEF RowsInit
  <2>. QED BY <1>2, <1>3, <2>1, <2>2, <2>3 DEF RowsTypeOK
<1>5. rows = [i \in DOMAIN rows |-> rows[i]]
  BY DEF RowsInit
<1>6. LiveRows
  BY DEF LiveRows, RowsInit, NoPopup
<1>7. ClicksRemembered
  BY <1>2, FreshRow DEF ClicksRemembered, InterfaceClicks, RadioClicks, SpinEnds
<1>. QED BY <1>2, <1>4, <1>5, <1>6, <1>7 DEF RowsInv

\* ... and the one without.
LEMMA NoRowsStart == NoRows => RowsInv
<1>. SUFFICES ASSUME NoRows PROVE RowsInv
  OBVIOUS
<1>1. DOMAIN rows = {} /\ rows = [i \in DOMAIN rows |-> rows[i]]
  BY DEF NoRows
<1>2. RowsTypeOK
  <2>1. presses \in 0..MaxPresses /\ reloads \in 0..MaxReloads
    BY Bounds DEF NoRows
  <2>2. page \in {"interfaces", "wireless"} /\ known \subseteq RowIds /\ fresh \in BOOLEAN
        /\ asking \subseteq Question /\ popup \in Question \cup {NoPopup}
        /\ round \in {"idle", "running", "dead"}
    BY DEF NoRows
  <2>. QED BY <1>1, <2>1, <2>2 DEF RowsTypeOK
<1>3. LiveRows
  BY DEF LiveRows, NoRows, NoPopup
<1>. QED BY <1>1, <1>2, <1>3 DEF RowsInv, NoRows, ClicksRemembered, InterfaceClicks, RadioClicks

\* What Asked leaves alone.
LEMMA AskedRow ==
  ASSUME NEW r \in Row, RowsTypeOK
  PROVE  /\ Asked(r) \in Row /\ Asked(r).mark = "asked"
         /\ Asked(r).waiting = TRUE
         /\ Asked(r).late = (page = "wireless" /\ round = "running")
         /\ Asked(r).spin = r.spin /\ Asked(r).abandoned = r.abandoned
BY DEF Asked, Row

\* A click.
LEMMA PressStep ==
  ASSUME RowsInv, NEW i \in DOMAIN rows, NEW b \in Buttons, Press(i, b)
  PROVE  RowsInv'
<1>. USE DEF RowsInv
<1>1. rows[i] \in Row /\ DOMAIN rows \subseteq RowIds
  BY DEF RowsTypeOK
<1>2. /\ b \in {"restart", "reconnect", "disconnect"}
      /\ b # "restart" => Buttons = {"reconnect", "disconnect"}
  BY DEF Buttons
<1>3. PICK pressed : pressed = [rows[i] EXCEPT !.spin = b, !.off = Buttons]
  OBVIOUS
<1>4. b # "restart" => /\ pressed \in Row /\ pressed.late = rows[i].late
                       /\ pressed.waiting = rows[i].waiting
                       /\ pressed.mark = rows[i].mark
  BY <1>1, <1>2, <1>3 DEF Row
<1>6. RadioRestart(rows[i]) = Asked(rows[i])
  BY DEF RadioRestart
<1>7. PICK new : new = IF b = "disconnect" THEN pressed
                       ELSE IF b = "restart" THEN Asked(rows[i]) ELSE Asked(pressed)
  OBVIOUS
<1>8. rows' = [rows EXCEPT ![i] = new]
  BY <1>2, <1>3, <1>6, <1>7 DEF Press
<1>9. new \in Row
  BY <1>1, <1>2, <1>4, <1>7, AskedRow
<1>10. DOMAIN rows' = DOMAIN rows /\ \A j \in DOMAIN rows : rows'[j] = IF j = i THEN new ELSE rows[j]
  BY <1>8
<1>11. /\ asking' = IF b = "disconnect" THEN asking \cup {Live(i)} ELSE asking
       /\ UNCHANGED <<page, known, fresh, popup, round, reloads>>
       /\ presses' \in 0..MaxPresses
  BY RowBoundsAssumption DEF Press, Live, RowsTypeOK
<1>12. Live(i) \in Question /\ Live(i).live /\ Live(i).row = i
  BY <1>1 DEF Live, Question
<1>13. RowsTypeOK'
  BY <1>9, <1>10, <1>11, <1>12 DEF RowsTypeOK
<1>14. LiveRows'
  BY <1>10, <1>11, <1>12 DEF LiveRows
<1>15. ClicksRemembered'
  <2>1. CASE page = "interfaces"
    <3>1. InterfaceClicks
      BY <2>1 DEF ClicksRemembered
    <3>0. b # "restart"
      BY <2>1 DEF Buttons
    <3>2. ~new.late /\ (new.waiting => new.mark = "asked")
      BY <2>1, <3>0, <3>1, <1>4, <1>7, AskedRow DEF InterfaceClicks
    <3>3. new.mark = "asked" \/ Live(i) \in asking'
      BY <3>0, <1>4, <1>7, <1>11, AskedRow
    <3>4. \A j \in DOMAIN rows : SpinEnds(j)'
      BY <3>1, <3>3, <1>10, <1>11 DEF InterfaceClicks, SpinEnds, Live
    <3>. QED BY <2>1, <3>1, <3>2, <3>4, <1>10, <1>11 DEF ClicksRemembered, InterfaceClicks
  <2>2. CASE page = "wireless"
    <3>1. b = "restart"
      BY <2>2 DEF Buttons
    <3>2. new.mark = "asked" /\ new.late = (round = "running")
      BY <2>2, <3>1, <1>1, <1>7, AskedRow
    <3>. QED BY <2>2, <3>2, <1>10, <1>11 DEF ClicksRemembered, RadioClicks
  <2>. QED BY <2>1, <2>2 DEF RowsTypeOK
<1>. QED BY <1>8, <1>10, <1>11, <1>13, <1>14, <1>15

\* The device's answer about a row.
LEMMA AnswerStep ==
  ASSUME RowsInv, NEW q \in asking, NEW inbound \in BOOLEAN, PeerAnswer(q, inbound)
  PROVE  RowsInv'
<1>. USE DEF RowsInv
<1>1. q \in Question /\ popup \in Question \cup {NoPopup} /\ asking \subseteq Question
  BY DEF RowsTypeOK
<1>2. q = [row |-> q.row, live |-> q.live]
  BY <1>1 DEF Question
<1>3. popup = [row |-> popup.row, live |-> popup.live]
  BY <1>1 DEF Question, NoPopup
<1>4. CASE inbound
  <2>1. /\ asking' = asking \ {q} /\ popup' = q
        /\ rows' = [i \in DOMAIN rows |-> [rows[i] EXCEPT
                  !.abandoned = @ \/ (popup.live /\ popup.row = i /\ popup # q)]]
        /\ UNCHANGED <<page, known, fresh, round, presses, reloads>>
    BY <1>4 DEF PeerAnswer
  <2>2. DOMAIN rows' = DOMAIN rows
    BY <2>1
  <2>3. ASSUME NEW i \in DOMAIN rows
        PROVE  /\ rows'[i] \in Row /\ rows'[i].spin = rows[i].spin /\ rows'[i].mark = rows[i].mark
               /\ rows'[i].late = rows[i].late /\ rows'[i].waiting = rows[i].waiting
               /\ rows'[i].abandoned <=> (rows[i].abandoned \/ (popup.live /\ popup.row = i /\ popup # q))
    <3>1. rows[i] \in Row
      BY DEF RowsTypeOK
    <3>2. rows'[i] = [rows[i] EXCEPT !.abandoned = @ \/ (popup.live /\ popup.row = i /\ popup # q)]
      BY <2>1
    <3>. QED BY <3>1, <3>2 DEF Row
  <2>4. RowsTypeOK'
    BY <2>1, <2>2, <2>3, <1>1 DEF RowsTypeOK
  <2>5. LiveRows'
    BY <2>1, <2>2 DEF LiveRows
  <2>6. ClicksRemembered'
    <3>1. CASE page = "interfaces"
      <4>1. ASSUME NEW i \in DOMAIN rows PROVE SpinEnds(i)'
        <5>1. SpinEnds(i)
          BY <3>1 DEF ClicksRemembered, InterfaceClicks
        <5>2. CASE Live(i) = q
          BY <5>2, <2>1 DEF SpinEnds
        <5>3. CASE Live(i) # q /\ popup = Live(i)
          <6>1. popup.live /\ popup.row = i /\ popup # q
            BY <5>3 DEF Live
          <6>2. rows'[i].abandoned
            BY <6>1, <2>3
          <6>. QED BY <6>2 DEF SpinEnds
        <5>4. CASE Live(i) # q /\ popup # Live(i)
          BY <5>1, <5>4, <2>1, <2>3 DEF SpinEnds
        <5>. QED BY <5>2, <5>3, <5>4
      <4>2. ASSUME NEW i \in DOMAIN rows PROVE ~rows'[i].late /\ (rows'[i].waiting => rows'[i].mark = "asked")
        <5>1. ~rows[i].late /\ (rows[i].waiting => rows[i].mark = "asked")
          BY <3>1 DEF ClicksRemembered, InterfaceClicks
        <5>2. rows'[i].mark = rows[i].mark /\ rows'[i].late = rows[i].late /\ rows'[i].waiting = rows[i].waiting
          BY <2>3
        <5>. QED BY <5>1, <5>2
      <4>. QED BY <3>1, <4>1, <4>2, <2>1, <2>2 DEF ClicksRemembered, InterfaceClicks
    <3>2. CASE page = "wireless"
      <4>1. ASSUME NEW i \in DOMAIN rows, ~fresh, rows'[i].waiting, ~rows'[i].late
            PROVE  rows'[i].mark = "asked" /\ round' # "running"
        <5>1. rows'[i].mark = rows[i].mark /\ rows'[i].late = rows[i].late /\ rows'[i].waiting = rows[i].waiting
          BY <2>3
        <5>2. rows[i].waiting /\ ~rows[i].late
          BY <4>1, <5>1
        <5>3. rows[i].mark = "asked" /\ round # "running"
          BY <5>2, <3>2, <4>1 DEF ClicksRemembered, RadioClicks
        <5>. QED BY <5>1, <5>3, <2>1
      <4>. QED BY <3>2, <4>1, <2>1, <2>2 DEF ClicksRemembered, RadioClicks
    <3>. QED BY <3>1, <3>2 DEF RowsTypeOK
  <2>. QED BY <2>1, <2>2, <2>4, <2>5, <2>6
<1>5. CASE ~inbound
  <2>1. /\ asking' = asking \ {q}
        /\ rows' = IF q.live THEN [rows EXCEPT ![q.row] = Asked(rows[q.row])] ELSE rows
        /\ UNCHANGED <<page, known, fresh, popup, round, presses, reloads>>
    BY <1>5 DEF PeerAnswer
  <2>2. q.live => q.row \in DOMAIN rows /\ rows[q.row] \in Row
    BY DEF LiveRows, RowsTypeOK
  <2>3. /\ DOMAIN rows' = DOMAIN rows /\ rows' = [i \in DOMAIN rows' |-> rows'[i]]
        /\ \A i \in DOMAIN rows : rows'[i] = IF q.live /\ q.row = i THEN Asked(rows[i]) ELSE rows[i]
    BY <2>1, <2>2
  <2>4. RowsTypeOK'
    BY <2>1, <2>2, <2>3, AskedRow DEF RowsTypeOK
  <2>5. LiveRows'
    BY <2>1, <2>3 DEF LiveRows
  <2>6. ClicksRemembered'
    <3>1. CASE page = "interfaces"
      <4>1. ASSUME NEW i \in DOMAIN rows
            PROVE  ~rows'[i].late /\ (rows'[i].waiting => rows'[i].mark = "asked") /\ SpinEnds(i)'
        <5>0. /\ ~rows[i].late /\ (rows[i].waiting => rows[i].mark = "asked")
              /\ SpinEnds(i)
          BY <3>1 DEF ClicksRemembered, InterfaceClicks
        <5>1. CASE q.live /\ q.row = i
          <6>1. rows'[i] = Asked(rows[i]) /\ rows[i] \in Row
            BY <5>1, <2>2, <2>3
          <6>2. rows'[i].mark = "asked" /\ ~rows'[i].late
            BY <3>1, <6>1, AskedRow
          <6>. QED BY <6>2 DEF SpinEnds
        <5>2. CASE ~(q.live /\ q.row = i)
          <6>1. rows'[i] = rows[i] /\ Live(i) # q
            BY <5>2, <2>3 DEF Live
          <6>. QED BY <5>0, <6>1, <2>1 DEF SpinEnds
        <5>. QED BY <5>1, <5>2
      <4>. QED BY <3>1, <4>1, <2>1, <2>3 DEF ClicksRemembered, InterfaceClicks
    <3>2. CASE page = "wireless"
      <4>1. ASSUME NEW i \in DOMAIN rows, ~fresh, rows'[i].waiting, ~rows'[i].late
            PROVE  rows'[i].mark = "asked" /\ round' # "running"
        <5>1. CASE q.live /\ q.row = i
          BY <3>2, <4>1, <5>1, <2>1, <2>2, <2>3, AskedRow
        <5>2. CASE ~(q.live /\ q.row = i)
          BY <3>2, <4>1, <5>2, <2>1, <2>3 DEF ClicksRemembered, RadioClicks
        <5>. QED BY <5>1, <5>2
      <4>. QED BY <3>2, <4>1, <2>1, <2>3 DEF ClicksRemembered, RadioClicks
    <3>. QED BY <3>1, <3>2 DEF RowsTypeOK
  <2>. QED BY <2>1, <2>3, <2>4, <2>5, <2>6
<1>. QED BY <1>4, <1>5

\* The dialog is answered.
LEMMA CloseStep ==
  ASSUME RowsInv, Disconnect \/ CancelDisconnect
  PROVE  RowsInv'
<1>. USE DEF RowsInv
<1>1. popup \in Question \cup {NoPopup} /\ popup = [row |-> popup.row, live |-> popup.live]
  BY DEF RowsTypeOK, Question, NoPopup
<1>. DEFINE old == rows[popup.row]
<1>2. PICK reset : reset = [old EXCEPT !.spin = "", !.off = {}]
  OBVIOUS
<1>3. PICK new : /\ new = Asked(old) \/ new = reset
                 /\ CloseDialog(new)
  BY <1>2 DEF Disconnect, CancelDisconnect
<1>4. popup.live => popup.row \in DOMAIN rows /\ old \in Row
  BY DEF LiveRows, RowsTypeOK
<1>5. /\ popup' = NoPopup
      /\ rows' = IF popup.live THEN [rows EXCEPT ![popup.row] = new] ELSE rows
      /\ UNCHANGED <<page, known, fresh, asking, round, presses, reloads>>
  BY <1>3 DEF CloseDialog
<1>6. popup.live => reset \in Row /\ reset.spin = "" /\ reset.late = old.late
                    /\ reset.waiting = old.waiting /\ reset.mark = old.mark
  BY <1>2, <1>4 DEF Row
<1>7. popup.live => new \in Row
  BY <1>3, <1>4, <1>6, AskedRow
<1>8. /\ DOMAIN rows' = DOMAIN rows /\ rows' = [i \in DOMAIN rows' |-> rows'[i]]
      /\ \A i \in DOMAIN rows : rows'[i] = IF popup.live /\ popup.row = i THEN new ELSE rows[i]
  BY <1>4, <1>5
<1>9. RowsTypeOK'
  BY <1>5, <1>7, <1>8 DEF RowsTypeOK
<1>10. LiveRows'
  BY <1>5, <1>8 DEF LiveRows, NoPopup
<1>11. ClicksRemembered'
  <2>1. CASE page = "interfaces"
    <3>1. ASSUME NEW i \in DOMAIN rows
          PROVE  ~rows'[i].late /\ (rows'[i].waiting => rows'[i].mark = "asked") /\ SpinEnds(i)'
      <4>0. /\ ~rows[i].late /\ (rows[i].waiting => rows[i].mark = "asked")
            /\ SpinEnds(i)
        BY <2>1 DEF ClicksRemembered, InterfaceClicks
      <4>1. CASE popup.live /\ popup.row = i /\ new = Asked(old)
        <5>1. rows'[i] = Asked(rows[i]) /\ rows[i] \in Row
          BY <4>1, <1>4, <1>8
        <5>2. rows'[i].mark = "asked" /\ ~rows'[i].late
          BY <2>1, <5>1, AskedRow
        <5>. QED BY <5>2 DEF SpinEnds
      <4>2. CASE popup.live /\ popup.row = i /\ new = reset
        <5>1. /\ rows'[i].spin = "" /\ rows'[i].late = rows[i].late
              /\ rows'[i].waiting = rows[i].waiting /\ rows'[i].mark = rows[i].mark
          BY <4>2, <1>6, <1>8
        <5>. QED BY <4>0, <5>1 DEF SpinEnds
      <4>3. CASE ~(popup.live /\ popup.row = i)
        <5>1. rows'[i] = rows[i] /\ popup # Live(i)
          BY <4>3, <1>8 DEF Live
        <5>. QED BY <4>0, <5>1, <1>5 DEF SpinEnds
      <4>. QED BY <1>3, <4>1, <4>2, <4>3
    <3>. QED BY <2>1, <3>1, <1>5, <1>8 DEF ClicksRemembered, InterfaceClicks
  <2>2. CASE page = "wireless"
    <3>1. ASSUME NEW i \in DOMAIN rows, ~fresh, rows'[i].waiting, ~rows'[i].late
          PROVE  rows'[i].mark = "asked" /\ round' # "running"
      <4>1. CASE popup.live /\ popup.row = i /\ new = Asked(old)
        BY <2>2, <3>1, <4>1, <1>4, <1>5, <1>8, AskedRow
      <4>2. CASE popup.live /\ popup.row = i /\ new = reset
        BY <2>2, <3>1, <4>2, <1>5, <1>6, <1>8 DEF ClicksRemembered, RadioClicks
      <4>3. CASE ~(popup.live /\ popup.row = i)
        BY <2>2, <3>1, <4>3, <1>5, <1>8 DEF ClicksRemembered, RadioClicks
      <4>. QED BY <1>3, <4>1, <4>2, <4>3
    <3>. QED BY <2>2, <3>1, <1>5, <1>8 DEF ClicksRemembered, RadioClicks
  <2>. QED BY <2>1, <2>2 DEF RowsTypeOK
<1>. QED BY <1>5, <1>8, <1>9, <1>10, <1>11

\* What the loop does to a row.
LEMMA VisitedRow ==
  ASSUME NEW r \in Row
  PROVE  /\ Visit(r) \in Row /\ Visit(r).late = r.late /\ Visit(r).abandoned = r.abandoned
         /\ r.mark = "asked" => Visit(r).mark = "run" /\ ~Visit(r).waiting
         /\ r.mark = "run" => Visit(r).spin = "" /\ Visit(r).waiting = r.waiting
         /\ r.mark = "none" => Visit(r) = r
<1>1. CASE r.mark = "asked"
  BY <1>1 DEF Row, Visit
<1>2. CASE r.mark = "run"
  BY <1>2 DEF Row, Visit
<1>3. CASE r.mark = "none"
  BY <1>3 DEF Row, Visit
<1>. QED BY <1>1, <1>2, <1>3 DEF Row

\* A round begins.
LEMMA RoundStep == ASSUME RowsInv, RoundBegins PROVE RowsInv'
<1>. USE DEF RowsInv
<1>. DEFINE missing == known \ DOMAIN rows
            Seen(i) == i \in known /\ \A j \in missing : i < j
<1>1. /\ round = "idle" /\ round' = IF missing = {} THEN "running" ELSE "dead"
      /\ rows' = [i \in DOMAIN rows |-> IF Seen(i) THEN Visit(rows[i]) ELSE rows[i]]
      /\ UNCHANGED <<page, known, fresh, asking, popup, presses, reloads>>
  BY DEF RoundBegins
<1>2. ~fresh => missing = {} /\ \A i \in DOMAIN rows : Seen(i)
  OBVIOUS
<1>. HIDE DEF Seen, missing
<1>3. /\ DOMAIN rows' = DOMAIN rows /\ rows' = [i \in DOMAIN rows' |-> rows'[i]]
      /\ \A i \in DOMAIN rows : rows'[i] = IF Seen(i) THEN Visit(rows[i]) ELSE rows[i]
  BY <1>1
<1>4. \A i \in DOMAIN rows : rows[i] \in Row
  BY DEF RowsTypeOK
<1>5. RowsTypeOK'
  BY <1>1, <1>3, <1>4, VisitedRow DEF RowsTypeOK
<1>6. LiveRows'
  BY <1>1, <1>3 DEF LiveRows
<1>7. ClicksRemembered'
  <2>1. CASE page = "interfaces"
    <3>1. ASSUME NEW i \in DOMAIN rows
          PROVE  ~rows'[i].late /\ (rows'[i].waiting => rows'[i].mark = "asked") /\ SpinEnds(i)'
      <4>0. /\ rows[i] \in Row /\ ~rows[i].late /\ (rows[i].waiting => rows[i].mark = "asked")
            /\ SpinEnds(i)
        BY <2>1, <1>4 DEF ClicksRemembered, InterfaceClicks
      <4>1. CASE ~Seen(i)
        BY <4>0, <4>1, <1>1, <1>3 DEF SpinEnds
      <4>2. CASE Seen(i)
        <5>1. PICK v : v = Visit(rows[i])
          OBVIOUS
        <5>0. rows'[i] = v
          BY <5>1, <4>2, <1>3
        <5>01. /\ v.late = rows[i].late
               /\ rows[i].mark = "asked" => v.mark = "run" /\ ~v.waiting
               /\ rows[i].mark = "run" => v.spin = "" /\ v.waiting = rows[i].waiting
               /\ rows[i].mark = "none" => v = rows[i]
          <6>. HIDE DEF Visit
          <6>. QED BY <5>1, <4>0, VisitedRow
        <5>2. CASE rows[i].mark = "asked"
          <6>1. rows'[i].mark = "run" /\ ~rows'[i].waiting /\ rows'[i].late = rows[i].late
            BY <5>0, <5>01, <5>2
          <6>. QED BY <4>0, <6>1 DEF SpinEnds
        <5>3. CASE rows[i].mark = "run"
          <6>1. /\ rows'[i].spin = "" /\ rows'[i].waiting = rows[i].waiting
                /\ rows'[i].late = rows[i].late
            BY <5>0, <5>01, <5>3
          <6>. QED BY <4>0, <5>3, <6>1 DEF SpinEnds
        <5>4. CASE rows[i].mark = "none"
          <6>1. rows'[i] = rows[i]
            BY <5>0, <5>01, <5>4
          <6>. QED BY <6>1, <4>0, <1>1 DEF SpinEnds
        <5>. QED BY <5>2, <5>3, <5>4, <4>0 DEF Row
      <4>. QED BY <4>1, <4>2
    <3>. QED BY <2>1, <3>1, <1>1, <1>3 DEF ClicksRemembered, InterfaceClicks
  <2>2. CASE page = "wireless"
    <3>1. ASSUME NEW i \in DOMAIN rows, ~fresh, rows'[i].waiting, ~rows'[i].late
          PROVE  FALSE
      <4>1. rows'[i] = Visit(rows[i]) /\ rows[i] \in Row
        BY <3>1, <1>2, <1>3, <1>4
      <4>2. rows[i].mark # "asked"
        BY <3>1, <4>1, VisitedRow
      <4>3. Visit(rows[i]).waiting = rows[i].waiting /\ Visit(rows[i]).late = rows[i].late
        BY <4>1, <4>2, VisitedRow DEF Row
      <4>. QED BY <2>2, <3>1, <4>1, <4>2, <4>3 DEF ClicksRemembered, RadioClicks
    <3>. QED BY <2>2, <3>1, <1>1, <1>3 DEF ClicksRemembered, RadioClicks
  <2>. QED BY <2>1, <2>2 DEF RowsTypeOK
<1>. QED BY <1>1, <1>3, <1>5, <1>6, <1>7

\* A round ends and redraws the rows.
LEMMA RoundEndStep == ASSUME RowsInv, RoundEnds PROVE RowsInv'
<1>. USE DEF RowsInv
<1>0. \A i \in DOMAIN rows : rows[i] \in Row
  BY DEF RowsTypeOK
<1>1. round = "running" /\ round' = "idle" /\ UNCHANGED <<page, known, fresh, asking, popup, presses, reloads>>
  BY DEF RoundEnds
<1>2. CASE page = "wireless"
  <2>1. rows' = [i \in DOMAIN rows |-> RedrawRadio(rows[i])]
    BY <1>2 DEF RoundEnds
  <2>2. \A r \in Row : RedrawRadio(r) \in Row /\ RedrawRadio(r).waiting = r.waiting /\ RedrawRadio(r).late = r.late
    BY DEF Row, RedrawRadio, Buttons
  <2>3. /\ DOMAIN rows' = DOMAIN rows /\ rows' = [i \in DOMAIN rows' |-> rows'[i]]
        /\ \A i \in DOMAIN rows : rows'[i] = RedrawRadio(rows[i])
    BY <2>1
  <2>4. RowsTypeOK'
    BY <1>0, <1>1, <2>2, <2>3 DEF RowsTypeOK
  <2>5. LiveRows'
    BY <1>1, <2>3 DEF LiveRows
  <2>6. ClicksRemembered'
    <3>1. ASSUME NEW i \in DOMAIN rows, ~fresh, rows'[i].waiting, ~rows'[i].late PROVE FALSE
      <4>1. rows[i].waiting /\ ~rows[i].late
        BY <3>1, <2>2, <2>3, <1>0
      <4>. QED BY <4>1, <3>1, <1>1, <1>2 DEF ClicksRemembered, RadioClicks
    <3>. QED BY <3>1, <1>1, <1>2, <2>3 DEF ClicksRemembered, RadioClicks
  <2>. QED BY <1>1, <2>3, <2>4, <2>5, <2>6
<1>3. CASE page # "wireless"
  <2>1. PICK down \in SUBSET DOMAIN rows : rows' = [i \in DOMAIN rows |-> RedrawInterface(rows[i], i \in down)]
    BY <1>3 DEF RoundEnds
  <2>3. /\ DOMAIN rows' = DOMAIN rows /\ rows' = [i \in DOMAIN rows' |-> rows'[i]]
        /\ \A i \in DOMAIN rows : rows'[i] = RedrawInterface(rows[i], i \in down)
    BY <2>1
  <2>4. \A i \in DOMAIN rows :
          /\ rows'[i] \in Row /\ rows'[i].waiting = rows[i].waiting
          /\ rows'[i].late = rows[i].late /\ rows'[i].mark = rows[i].mark
          /\ rows'[i].spin = rows[i].spin /\ rows'[i].abandoned = rows[i].abandoned
    <3>. SUFFICES ASSUME NEW i \in DOMAIN rows
         PROVE  /\ rows'[i] \in Row /\ rows'[i].waiting = rows[i].waiting
                /\ rows'[i].late = rows[i].late /\ rows'[i].mark = rows[i].mark
                /\ rows'[i].spin = rows[i].spin /\ rows'[i].abandoned = rows[i].abandoned
      OBVIOUS
    <3>1. PICK r : r = rows[i]
      OBVIOUS
    <3>2. r \in Row
      BY <3>1, <1>0
    <3>3. PICK off : rows'[i] = [r EXCEPT !.off = off] /\ off \in SUBSET {"reconnect", "disconnect"}
      <4>1. PICK off : off = IF r.spin # "" THEN Buttons ELSE IF i \in down THEN {"disconnect"} ELSE {}
        OBVIOUS
      <4>2. off \in SUBSET {"reconnect", "disconnect"}
        BY <1>3, <4>1 DEF Buttons
      <4>3. rows'[i] = RedrawInterface(r, i \in down)
        BY <2>3, <3>1
      <4>. QED BY <4>1, <4>2, <4>3 DEF RedrawInterface
    <3>4. [r EXCEPT !.off = off] \in Row
      BY <3>2, <3>3 DEF Row
    <3>. QED BY <3>1, <3>2, <3>3, <3>4 DEF Row
  <2>5. RowsTypeOK'
    BY <1>1, <2>3, <2>4 DEF RowsTypeOK
  <2>6. LiveRows'
    BY <1>1, <2>3 DEF LiveRows
  <2>7. ClicksRemembered'
    <3>1. page = "interfaces" /\ InterfaceClicks
      BY <1>3 DEF RowsTypeOK, ClicksRemembered
    <3>2. InterfaceClicks'
      BY <3>1, <1>1, <2>3, <2>4 DEF InterfaceClicks, SpinEnds
    <3>. QED BY <3>1, <3>2, <1>1 DEF ClicksRemembered
  <2>. QED BY <1>1, <2>3, <2>5, <2>6, <2>7
<1>. QED BY <1>2, <1>3

\* The sections are loaded again, and their rows rendered.
LEMMA ReloadStep == ASSUME RowsInv, LoadSections \/ RenderRows PROVE RowsInv'
<1>. USE DEF RowsInv
<1>1. CASE LoadSections
  <2>1. RowsTypeOK'
    BY <1>1, RowBoundsAssumption DEF RowsTypeOK, LoadSections
  <2>2. LiveRows'
    BY <1>1 DEF LiveRows, LoadSections
  <2>3. ClicksRemembered'
    BY <1>1 DEF LoadSections, ClicksRemembered, InterfaceClicks, SpinEnds
  <2>. QED BY <1>1, <2>1, <2>2, <2>3 DEF LoadSections
<1>2. CASE RenderRows
  <2>1. NewRow \in Row
    BY DEF NewRow, Row
  <2>2. DOMAIN rows' = known /\ (\A i \in known : rows'[i] = NewRow) /\ rows' = [i \in DOMAIN rows' |-> rows'[i]]
    BY <1>2 DEF RenderRows
  <2>3. \A q \in Question : [q EXCEPT !.live = FALSE] \in Question /\ ~[q EXCEPT !.live = FALSE].live
    BY DEF Question
  <2>4. /\ asking' = {[q EXCEPT !.live = FALSE] : q \in asking}
        /\ popup' = IF popup = NoPopup THEN NoPopup ELSE [popup EXCEPT !.live = FALSE]
        /\ UNCHANGED <<page, known, round, presses, reloads>> /\ fresh' = FALSE
    BY <1>2 DEF RenderRows
  <2>5. asking' \subseteq Question /\ popup' \in Question \cup {NoPopup}
        /\ \A q \in asking' \cup {popup'} : ~q.live
    <3>1. asking' \subseteq Question /\ \A q \in asking' : ~q.live
      BY <2>3, <2>4 DEF RowsTypeOK
    <3>2. CASE popup = NoPopup
      BY <3>1, <3>2, <2>4 DEF NoPopup
    <3>3. CASE popup # NoPopup
      <4>1. popup \in Question /\ popup' = [popup EXCEPT !.live = FALSE]
        BY <3>3, <2>4 DEF RowsTypeOK
      <4>. QED BY <4>1, <3>1, <2>3
    <3>. QED BY <3>2, <3>3
  <2>6. RowsTypeOK'
    BY <2>1, <2>2, <2>4, <2>5 DEF RowsTypeOK
  <2>7. LiveRows'
    BY <2>5 DEF LiveRows
  <2>8. ClicksRemembered'
    BY <2>2, FreshRow DEF ClicksRemembered, InterfaceClicks, RadioClicks, SpinEnds
  <2>. QED BY <2>2, <2>4, <2>6, <2>7, <2>8
<1>. QED BY <1>1, <1>2

\* Every step keeps the invariant of the rows.
LEMMA RowsStep == RowsInv /\ [RowsNext]_rowVars => RowsInv'
<1>1. ASSUME RowsInv, UNCHANGED rowVars PROVE RowsInv'
  BY <1>1 DEF RowsInv, rowVars, RowsTypeOK, LiveRows, ClicksRemembered, InterfaceClicks, RadioClicks, SpinEnds
<1>. QED BY <1>1, PressStep, AnswerStep, CloseStep, RoundStep, RoundEndStep, ReloadStep
         DEF RowsNext, PeerAnswers

\* The rows are of their type; they are those of the sections unless new ones
\* were loaded; a click that was not lost to a round has left its mark.
THEOREM RowsInvariant == LifeSpec => []RowsInv
<1>1. LifeInit => RowsInv
  BY RowsStart, NoRowsStart DEF LifeInit
<1>2. RowsInv /\ [LifeNext]_<<vars, rowVars>> => RowsInv'
  BY RowsStep DEF LifeNext, rowVars
<1>. QED BY <1>1, <1>2, PTL DEF LifeSpec

\* No click on "Restart" or "Stop" is forgotten: until its command runs, the mark
\* is there that the next round looks for, whatever is redrawn, answered or asked
\* meanwhile, and a button spins only while there is something to end it.  The
\* part of RequestServed that needs no fairness (interfaces.js and wireless.js,
\* the polled functions and the click handlers).
THEOREM NoClickForgotten == LifeSpec => []ClicksRemembered
<1>1. RowsInv => ClicksRemembered
  BY DEF RowsInv
<1>. QED BY <1>1, RowsInvariant, PTL
=============================================================================
