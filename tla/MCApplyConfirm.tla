--------------------------- MODULE MCApplyConfirm ---------------------------
(* Instances of ApplyConfirm for TLC: see the .cfg files.                  *)
EXTENDS ApplyConfirm, TLC

Symmetric ==
    Permutations(Sessions) \cup Permutations(Conns) \cup Permutations(Configs)
=============================================================================
