------------------------------ MODULE Filters ------------------------------
(***************************************************************************)
(* The filters of the pages, sections.filter(...) and their like: what is  *)
(* left of a list, in its order.  SelectSeq of the standard modules, in    *)
(* terms that the provers know.                                            *)
(***************************************************************************)
EXTENDS Naturals, FiniteSets

\* The members of s that are in S, in their order.
Kept(s, S) ==
    LET I == {i \in DOMAIN s : s[i] \in S} IN
    [k \in 1..Cardinality(I) |-> s[CHOOSE i \in I : Cardinality({j \in I : j <= i}) = k]]
=============================================================================
