--------------------------- MODULE MCDdnsUpdater ---------------------------
(* DdnsUpdater for TLC.                                                    *)
EXTENDS DdnsUpdater, TLC
Symmetric == Permutations(Procs)
=============================================================================
