----------------------------- MODULE ClassLoader -----------------------------
(***************************************************************************)
(* How luci.js brings up a page: require() loads class files and what they *)
(* depend on, __init__ and setupDOM wait for the core classes and for two  *)
(* probes, and the view of the page is shown.                              *)
(***************************************************************************)
EXTENDS Naturals, Sequences, FiniteSets, Functions

CONSTANTS
    Names,      \* classes with a file of their own
    Core,       \* those that every page requires: ui, rpc and form
    Ui,         \* the one of them that instantiates the view
    View,       \* the view of the page
    Preloads,   \* the files in the preload directory
    Allowed,    \* the "require" lists that the file of a class may have
    MaxLoads    \* bound: how often the page is loaded in one session

ASSUME NamesAssumption ==
    IsFiniteSet(Names) /\ Ui \in Core /\ Core \cup {View} \cup Preloads \subseteq Names
ASSUME AllowedAssumption == \A c \in Names : Allowed[c] \subseteq Seq(Names)
ASSUME MaxLoadsAssumption == MaxLoads \in Nat \ {0}

VARIABLES
    class,      \* what classes[name] holds, or what its promise has come to
    chain,      \* the from list of the call that loads the class, with itself
    deps,       \* the require list of its file, once that is loaded
    stage,      \* how far setupDOM has come
    features,   \* sysFeatures
    listing,    \* preloadClasses
    tasks,      \* the preloads that initDOM waits for
    asked,      \* TRUE once the page has asked for its view
    shown,      \* what becomes of the view
    stored,     \* what sessionStorage holds
    loads       \* history: how often the page has been loaded

classVars == <<class, chain, deps>>
pageVars == <<stage, features, listing, tasks, asked, shown, stored, loads>>
vars == <<classVars, pageVars>>

Failures == {"broken", "circular", "orphan"}
Failed(c) == class[c] \in Failures
Ready(c) == class[c] = "ready"
DepsOf(c) == Range(deps[c])

TypeOK ==
    /\ class \in [Names -> {"none", "loading", "waiting", "ready"} \cup Failures]
    /\ chain \in [Names -> SUBSET Names]
    /\ deps \in [Names -> Seq(Names)] /\ \A c \in Names : deps[c] \in Allowed[c] \cup {<<>>}
    /\ stage \in {"core", "probing", "preloading", "up", "dead"}
    /\ features \in {"unknown", "pending", "known", "failed"}
    /\ listing \in {"unknown", "pending", "known", "empty"}
    /\ tasks \subseteq Names
    /\ asked \in BOOLEAN
    /\ shown \in {"nothing", "spinner", "view", "error"}
    /\ stored \in [features : {"unknown", "known"},
                   listing : {"unknown", "known", "empty"}]
    /\ loads \in 1..MaxLoads

-----------------------------------------------------------------------------
(* require().                                                              *)

World == [class |-> class, chain |-> chain]

\* Mutant: the from list is extended in place instead of being copied.
RequireAllShared(w, required, from) ==
    LET fetched == {c \in required : w.class[c] = "none"} IN
    [class |-> [c \in Names |-> IF c \in fetched THEN "loading" ELSE w.class[c]],
     chain |-> [c \in Names |-> IF c \in fetched THEN required \cup from ELSE w.chain[c]]]

\* Those that nobody has asked for are fetched, each with a from list of its
\* own; everyone else gets the promise or the instance that classes[name] holds.
RequireAll(w, required, from) ==
    LET fetched == {c \in required : w.class[c] = "none"} IN
    [class |-> [c \in Names |-> IF c \in fetched THEN "loading" ELSE w.class[c]],
     chain |-> [c \in Names |-> IF c \in fetched THEN {c} \cup from ELSE w.chain[c]]]

\* The file of c is there: compileClass requires what it lists, one by one, up
\* to c itself or a class that is being loaded on whose behalf c is.
Loaded(c) ==
    /\ class[c] = "loading"
    /\ \E d \in Allowed[c] :
         LET clear == {i \in DOMAIN d : d[i] \notin chain[c]}
             required == {d[i] : i \in {j \in DOMAIN d : 1..j \subseteq clear}}
             w == RequireAll(World, required, chain[c])
         IN
         /\ deps' = [deps EXCEPT ![c] = d]
         /\ class' = [w.class EXCEPT ![c] = IF clear = DOMAIN d THEN "waiting" ELSE "circular"]
         /\ chain' = w.chain
    /\ UNCHANGED pageVars

NotFound(c) ==
    /\ class[c] = "loading"
    /\ class' = [class EXCEPT ![c] = "broken"]
    /\ UNCHANGED <<chain, deps, pageVars>>

\* All it depends on is there: the class is built, or its factory or its
\* constructor throws.  The constructor of a view starts to load its data.
Build(c) ==
    /\ class[c] = "waiting"
    /\ \A d \in DepsOf(c) : Ready(d)
    /\ \E result \in {"ready", "broken"} :
         /\ class' = [class EXCEPT ![c] = result]
         /\ shown' = IF c = View THEN "spinner" ELSE shown
    /\ UNCHANGED <<chain, deps, stage, features, listing, tasks, asked, stored, loads>>

\* Mutant: only the first of them is looked at.
AbandonFirst(c) ==
    /\ class[c] = "waiting"
    /\ deps[c] # <<>> /\ Failed(deps[c][1])
    /\ class' = [class EXCEPT ![c] = "orphan"]
    /\ UNCHANGED <<chain, deps, pageVars>>

\* Promise.all(depends) is rejected.
Abandon(c) ==
    /\ class[c] = "waiting"
    /\ \E d \in DepsOf(c) : Failed(d)
    /\ class' = [class EXCEPT ![c] = "orphan"]
    /\ UNCHANGED <<chain, deps, pageVars>>

-----------------------------------------------------------------------------
(* __init__ and setupDOM.                                                  *)

\* Every page requires the core classes, each with a from list of its own.
CoreWorld == RequireAll([class |-> [c \in Names |-> "none"], chain |-> [c \in Names |-> {}]], Core, {})

Init ==
    /\ class = CoreWorld.class
    /\ chain = CoreWorld.chain
    /\ deps = [c \in Names |-> <<>>]
    /\ stage = "core"
    /\ features = "unknown"
    /\ listing = "unknown"
    /\ tasks = {}
    /\ asked = FALSE
    /\ shown = "nothing"
    /\ stored = [features |-> "unknown", listing |-> "unknown"]
    /\ loads = 1

\* setupDOM takes what sessionStorage has and asks for the rest.
SetupDOM ==
    /\ stage = "core"
    /\ \A c \in Core : Ready(c)
    /\ stage' = "probing"
    /\ features' = IF stored.features = "known" THEN "known" ELSE "pending"
    /\ listing' = IF stored.listing # "unknown" THEN stored.listing ELSE "pending"
    /\ UNCHANGED <<classVars, tasks, asked, shown, stored, loads>>

SetupFails ==
    /\ stage = "core"
    /\ \E c \in Core : Failed(c)
    /\ stage' = "dead"
    /\ UNCHANGED <<classVars, features, listing, tasks, asked, shown, stored, loads>>

\* probeSystemFeatures: an answer is kept for the session.
FeaturesReply ==
    /\ features = "pending"
    /\ \/ features' = "known" /\ stored' = [stored EXCEPT !.features = "known"]
       \/ features' = "failed" /\ UNCHANGED stored
    /\ UNCHANGED <<classVars, stage, listing, tasks, asked, shown, loads>>

\* probePreloadClasses: a listing that failed is kept too, as an empty one.
ListingReply ==
    /\ listing = "pending"
    /\ listing' \in {"known", "empty"}
    /\ stored' = [stored EXCEPT !.listing = listing']
    /\ UNCHANGED <<classVars, stage, features, tasks, asked, shown, loads>>

\* Promise.all of the two probes is settled.
ProbesOver ==
    features = "failed" \/ (features = "known" /\ listing \in {"known", "empty"})

\* finally(): the preloads are required if the list is there by now.
Preload ==
    /\ stage = "probing"
    /\ ProbesOver
    /\ stage' = "preloading"
    /\ tasks' = IF listing = "known" THEN Preloads ELSE {}
    /\ LET w == RequireAll(World, tasks', {}) IN
         class' = w.class /\ chain' = w.chain
    /\ UNCHANGED <<deps, features, listing, asked, shown, stored, loads>>

\* Mutant: initDOM runs in then() instead of finally().
PreloadsOverThen == features = "known" /\ \A c \in tasks : Ready(c)

PreloadsOver == (\A c \in tasks : Ready(c)) \/ (\E c \in tasks : Failed(c))

InitDOM ==
    /\ stage = "preloading"
    /\ PreloadsOver
    /\ stage' = "up"
    /\ UNCHANGED <<classVars, features, listing, tasks, asked, shown, stored, loads>>

-----------------------------------------------------------------------------
(* The view.                                                               *)

\* The script in the page: require('ui'), then ui.instantiateView.
InstantiateView ==
    /\ ~asked
    /\ Ready(Ui)
    /\ asked' = TRUE
    /\ LET w == RequireAll(World, {View}, {}) IN class' = w.class /\ chain' = w.chain
    /\ UNCHANGED <<deps, stage, features, listing, tasks, shown, stored, loads>>

\* load() and render() of the view, or an error message in their place.
ViewLoaded ==
    /\ Ready(View)
    /\ shown = "spinner"
    /\ shown' \in {"view", "error"}
    /\ UNCHANGED <<classVars, stage, features, listing, tasks, asked, stored, loads>>

ViewFails ==
    /\ asked
    /\ Failed(View)
    /\ shown # "error"
    /\ shown' = "error"
    /\ UNCHANGED <<classVars, stage, features, listing, tasks, asked, stored, loads>>

\* The user goes to another page; sessionStorage stays.
NextPage ==
    /\ loads < MaxLoads
    /\ stage \in {"up", "dead"}
    /\ loads' = loads + 1
    /\ class' = CoreWorld.class
    /\ chain' = CoreWorld.chain
    /\ deps' = [c \in Names |-> <<>>]
    /\ stage' = "core"
    /\ features' = "unknown"
    /\ listing' = "unknown"
    /\ tasks' = {}
    /\ asked' = FALSE
    /\ shown' = "nothing"
    /\ UNCHANGED stored

Boot == SetupDOM \/ SetupFails \/ Preload \/ InitDOM
Load(c) == Loaded(c) \/ NotFound(c) \/ Build(c) \/ Abandon(c)
Show == InstantiateView \/ ViewLoaded \/ ViewFails

Next ==
    \/ Boot \/ Show \/ FeaturesReply \/ ListingReply \/ NextPage
    \/ \E c \in Names : Load(c)

\* Requests are answered or time out, and promise callbacks run.
Spec == Init /\ [][Next]_vars
FairSpec ==
    /\ Spec
    /\ WF_vars(Boot) /\ WF_vars(Show)
    /\ WF_vars(FeaturesReply \/ ListingReply)
    /\ \A c \in Names : WF_vars(Load(c))

-----------------------------------------------------------------------------
(* Properties.                                                             *)

\* What c is known to depend on, directly or not: all that is in every set of
\* classes that has what c requires, and what its members require.
Closed == {S \in SUBSET Names : \A d \in S : DepsOf(d) \subseteq S}
DependsOn(c) == {k \in Names : \A S \in Closed : DepsOf(c) \subseteq S => k \in S}

\* There are classes each of which requires one of them.
Cyclic == \E S \in (SUBSET Names) \ {{}} : \A c \in S : S \cap DepsOf(c) # {}

\* "Circular dependency" is raised about a class that depends on itself, never
\* because two classes share a third or are required from several places.
CircularIsReal ==
    TypeOK /\ \A c \in Names : class[c] = "circular" => c \in DependsOn(c)

\* Unless files require each other, every class that is required is there in
\* the end, or has failed.  (Two files that require each other and are both
\* required by a third wait for each other for ever.)
Settled == \A c \in Names : class[c] \notin {"loading", "waiting"}
ClassesSettle == <>Cyclic \/ []<>Settled

\* Failed probes and preloads do not keep the page from coming up, nor its view
\* from being shown, unless a core class is missing or the user leaves first.
PageComesUp ==
    <>Cyclic \/ /\ stage = "core" ~> stage \in {"up", "dead"}
                /\ Ready(Ui) ~> shown \in {"view", "error"} \/ ~Ready(Ui)
=============================================================================
