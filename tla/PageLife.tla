------------------------------ MODULE PageLife ------------------------------
(***************************************************************************)
(* A page from its class files to the buttons of its rows: while the       *)
(* classes load nothing is polled yet, and a page that is up loads no      *)
(* more.  A behaviour shows one of the two.                                *)
(***************************************************************************)
EXTENDS ClassLoader, RowRequests

\* Every class is there, and the page will not be left.
PageIsUp ==
    /\ class = [c \in Names |-> "ready"]
    /\ chain = [c \in Names |-> {}]
    /\ deps = [c \in Names |-> <<>>]
    /\ stage = "up" /\ shown = "view" /\ asked = TRUE
    /\ features = "known" /\ listing = "known" /\ tasks = {}
    /\ stored = [features |-> "known", listing |-> "known"]
    /\ loads = MaxLoads

LifeInit == (Init /\ NoRows) \/ (PageIsUp /\ RowsInit)

LifeNext ==
    \/ Next /\ UNCHANGED rowVars
    \/ RowsNext /\ UNCHANGED vars

LifeSpec == LifeInit /\ [][LifeNext]_<<vars, rowVars>>

\* The fairness of both: requests are answered or time out, promise callbacks
\* run, and the polled function is called again every few seconds.
LifeFairSpec ==
    /\ LifeSpec
    /\ WF_vars(Boot) /\ WF_vars(Show)
    /\ WF_vars(FeaturesReply \/ ListingReply)
    /\ \A c \in Names : WF_vars(Load(c))
    /\ WF_rowVars(RoundBegins \/ RoundEnds)
    /\ WF_rowVars(PeerAnswers \/ RenderRows)
=============================================================================
