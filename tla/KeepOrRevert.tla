---------------------------- MODULE KeepOrRevert ----------------------------
(***************************************************************************)
(* What "Save & Apply" promises, whoever clicks what and whatever the      *)
(* network does: a new configuration is on trial until it is either kept   *)
(* or reverted to the last one that was kept, and a trial always ends.     *)
(***************************************************************************)
CONSTANT Configuration   \* every configuration the device can have

VARIABLES running,  \* what the device runs
          kept,     \* what the user last agreed to
          onTrial   \* TRUE while running waits for a confirmation

vars == <<running, kept, onTrial>>

Init ==
    /\ running \in Configuration
    /\ kept = running
    /\ onTrial = FALSE

\* A checked apply puts a configuration on trial.
Try ==
    /\ ~onTrial
    /\ running' \in Configuration
    /\ onTrial' = TRUE
    /\ UNCHANGED kept

Keep ==
    /\ onTrial
    /\ kept' = running
    /\ onTrial' = FALSE
    /\ UNCHANGED running

Revert ==
    /\ onTrial
    /\ running' = kept
    /\ onTrial' = FALSE
    /\ UNCHANGED kept

\* A commit outside any trial is kept at once.
Commit ==
    /\ ~onTrial
    /\ running' \in Configuration
    /\ kept' = running'
    /\ UNCHANGED onTrial

Next == Try \/ Keep \/ Revert \/ Commit

Spec == Init /\ [][Next]_vars /\ WF_vars(Keep \/ Revert)
=============================================================================
