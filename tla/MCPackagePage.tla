--------------------------- MODULE MCPackagePage ---------------------------
(* An application, its library, another package that can take the library's  *)
(* place, a translation of the application and its language's base package.  *)
EXTENDS PackagePage
MCDigits == <<"0", "1", "2">>
MCLetters == {"r"}
MCCode == [c \in {"0", "1", "2", "r", "~", "."} |->
             CASE c = "0" -> 48 [] c = "1" -> 49 [] c = "2" -> 50
               [] c = "r" -> 114 [] c = "~" -> 126 [] c = "." -> 46]
MCNameOrder == <<"app", "app-de", "base-de", "lib", "lib-full">>
MCApps == "app-de" :> "app"
MCLang == "app-de" :> "de" @@ "base-de" :> "de"
Package(name, version, depends, provides) ==
    [name |-> name, version |-> version, depends |-> depends, provides |-> provides,
     installed |-> FALSE]
Needs(name, vop, ver) == [name |-> name, vop |-> vop, ver |-> ver]
V(i) == <<<<"1">>, <<"1", "0">>, <<"1", ".", "2">>, <<"1", "~", "r">>, <<"0", "1", "2">>>>[i]
Feed(needs, i, cyclic, full) ==
    <<Package("app", V(3), needs, <<>>),
      Package("app-de", V(2), <<Needs("app", "", V(1))>>, <<>>)>>
    \o (IF full THEN <<Package("lib-full", V(2), <<>>, <<"lib">>)>> ELSE <<>>)
    \o <<Package("lib", V(i), IF cyclic THEN <<Needs("app", "", V(1))>> ELSE <<>>, <<>>)>>
MCFeeds == {Feed(<<Needs("lib", "", V(1))>>, 4, TRUE, TRUE), Feed(<<Needs("lib", "<<", V(1))>>, 4, FALSE, FALSE),
            Feed(<<Needs("lib", ">=", V(1))>>, 2, TRUE, FALSE), Feed(<<Needs("lib", "=", V(2))>>, 1, FALSE, FALSE)}
MCNewFeeds == {Feed(<<Needs("lib", ">=", V(2))>>, 2, TRUE, TRUE)}
On(ps) == [i \in DOMAIN ps |-> [ps[i] EXCEPT !.installed = TRUE]]
Base == Package("base-de", V(5), <<>>, <<>>)
MCDevices == {On(<<Base>>), On(<<Package("lib", V(1), <<>>, <<>>), Package("app", V(1), <<Needs("lib", "", V(1))>>, <<>>)>>)}
=============================================================================
