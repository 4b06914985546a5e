---------------------------- MODULE MCFormDialogs ----------------------------
(* A flag x shows y, or w in its place, which write the same option; z depends *)
(* on y and may not be used while w is filled in.  y is required.  v, the      *)
(* first field, depends on z: two passes are not enough for it.                *)
EXTENDS FormDialogs, TLC
CONSTANTS x, y, w, z, v, on, off, t1, t2, n1, n2
MCOrder == <<v, z, y, w, x>>
MCOpt == x :> "flag" @@ y :> "key" @@ w :> "key" @@ z :> "more" @@ v :> "last"
MCDefault == x :> off @@ y :> Empty @@ w :> Empty @@ z :> Empty @@ v :> Empty
MCEntries == x :> {on, off} @@ y :> {Empty, on} @@ w :> {Empty, on} @@ z :> {Empty, on} @@
             v :> {on}
Alt(needs, reverse) ==
    [needs |-> needs, contains |-> FALSE, reverse |-> reverse, default |-> FALSE]
MCDeps == x :> {} @@ y :> {Alt({<<x, on>>}, FALSE)} @@ w :> {[Alt({<<x, on>>}, TRUE) EXCEPT !.contains = TRUE]} @@
          z :> {Alt({<<y, on>>}, FALSE)} @@ v :> {Alt({<<z, on>>}, FALSE)}
MCContained == {<<on, on>>}
MCRejected == {<<z, on, w, on>>}
ASSUME MCFieldsAssumption == Quick = {x, y, w, z}
MCInitial == {"flag" :> on @@ "key" :> on @@ "more" :> Empty @@ "last" :> Empty}
MCSymmetry == Permutations({t1, t2}) \cup Permutations({n1, n2})
=============================================================================
