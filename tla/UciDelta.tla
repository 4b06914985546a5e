------------------------------ MODULE UciDelta ------------------------------
(***************************************************************************)
(* One loaded section of resources/uci.js: the option values that came *)
(* from the server, the pending changes of the options, and the set of     *)
(* options that are pending deletion.  The operators are what get(), set() *)
(* and unset() do with the three, and what save() makes of them.           *)
(***************************************************************************)
CONSTANTS Opts,   \* option names of a section
          Vals,   \* values an option can have
          None    \* "null": the option is not there

ASSUME NoneAssumption == None \notin Vals

\* v: values, c: changes, d: deletes of one section.
Options == [Opts -> Vals \cup {None}]
\* No option is both changed and deleted.
Delta == {s \in [v : Options, c : Options, d : SUBSET Opts] :
            \A o \in s.d : s.c[o] = None}

Unchanged == [o \in Opts |-> None]

\* A section as load() leaves it.
Loaded(options) == [v |-> options, c |-> Unchanged, d |-> {}]

\* get(conf, sid, opt)
Get(s, o) ==
    IF o \in s.d THEN None ELSE IF s.c[o] # None THEN s.c[o] ELSE s.v[o]

\* The section as get() answers it option by option, which is what a field of a
\* form shows (cfgvalue of form.js).
Seen(s) == [o \in Opts |-> Get(s, o)]

\* The section as sections() lists it: it puts the changes over the values and
\* does not look at the options that are pending deletion.
Listed(s) == [o \in Opts |-> IF s.c[o] # None THEN s.c[o] ELSE s.v[o]]

\* Mutant: setting an option forgets to take back its deletion.
SetKeepsDelete(s, o, val) == [s EXCEPT !.c[o] = val]

\* set(conf, sid, opt, val)
Set(s, o, val) == [s EXCEPT !.c[o] = val, !.d = @ \ {o}]

\* unset(conf, sid, opt): only options that were loaded need a deletion.
Unset(s, o) ==
    [s EXCEPT !.c[o] = None, !.d = IF s.v[o] # None THEN @ \cup {o} ELSE @]

\* Mutant: once merged, the changes are taken for saved.
GetAllForgets(s) == [s EXCEPT !.c = Unchanged, !.v = Seen(s)]

\* get(conf, sid): merges the pending edits into the loaded values, in place.
GetAll(s) == [s EXCEPT !.v = Seen(s)]

\* callDelete(options) and then callSet(values), on what the server has.
Saved(s, options) ==
    [o \in Opts |-> IF s.c[o] # None THEN s.c[o]
                    ELSE IF o \in s.d THEN None ELSE options[o]]

\* Where nothing is pending, s shows the server's value or nothing.
Faithful(s, options) ==
    \A o \in Opts : (s.c[o] = None /\ o \notin s.d) => s.v[o] \in {None, options[o]}
=============================================================================
