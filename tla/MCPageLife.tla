----------------------------- MODULE MCPageLife -----------------------------
(* Two core classes, a view and a preload script; their files require none,  *)
(* one or two of the classes, so that there are shared ones and cycles.  And *)
(* a page with two rows.                                                     *)
EXTENDS PageLife, TLC
CONSTANTS ui, form, view, pre
Lists(S) == {<<>>} \cup {<<a>> : a \in S} \cup {l \in S \X S : l[1] # l[2]}
MCAllowed ==
    ui :> {<<>>, <<form>>, <<view, form>>} @@ form :> Lists({ui, view}) @@
    view :> Lists({ui, form, pre}) @@ pre :> {<<>>, <<view>>}
=============================================================================
