----------------------------- MODULE MCUciStore -----------------------------
(* UciStore for TLC: a view that edits sections, and one that moves and      *)
(* reads them as well.                                                       *)
EXTENDS UciStore
Plain == {"add", "remove", "set", "unset"}
Every == Plain \cup {"get", "move"}
MCViews == {Plain, Every}
MCMaxEdits == Plain :> 4 @@ Every :> 3
Symmetric == Permutations(News) \cup Permutations(Vals)
=============================================================================
