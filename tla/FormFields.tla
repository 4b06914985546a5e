----------------------------- MODULE FormFields -----------------------------
(***************************************************************************)
(* The fields that form.js shows for one section: which of them depend on  *)
(* others, which are hidden or invalid, and what parse() writes for them.  *)
(* Fields are form.Value and form.Flag without .defaults, write or remove  *)
(* of their own.                                                           *)
(***************************************************************************)
EXTENDS Naturals, Sequences, Functions

CONSTANTS
    Order,      \* the fields, in the order of the section's children
    Opt,        \* the option that each of them loads and writes
    Explicit,   \* those that have a ucioption
    Flags,      \* form.Flag
    Required,   \* neither rmempty nor optional
    Retained,   \* retain: a hidden field keeps its option
    Default,    \* what a field shows when its option is not there
    Entries,    \* what the user can enter in it
    Deps,       \* its depends(): a set of alternatives
    Contained,  \* pairs of a value and a part of it
    Rejected,   \* <<f, v, g, w>>: f may not be v while g is w
    Empty       \* no option; an empty field

Fields == Range(Order)
Opts == {Opt[f] : f \in Fields}
Values == (UNION {Entries[f] \cup {Default[f]} : f \in Fields}) \cup {Empty}

\* Pairs of a field and the value it must have, and the keys with a "!".
Alternatives ==
    [needs : SUBSET (Fields \X Values), contains : BOOLEAN, reverse : BOOLEAN,
     default : BOOLEAN]

ASSUME FieldsAssumption == Explicit \cup Flags \cup Required \cup Retained \subseteq Fields
ASSUME OrderAssumption == Order \in Seq(Fields) /\ IsInjective(Order)
ASSUME DepsAssumption == \A f \in Fields : Deps[f] \subseteq Alternatives

\* What the fields hold, which are not hidden, which failed their validation.
Forms == [val : [Fields -> Values], shown : SUBSET Fields, bad : SUBSET Fields]
Contents == [Opts -> Values]

-----------------------------------------------------------------------------
(* Dependencies and validation.                                            *)

\* lookupOption, isActive, formvalue, then isEqual or isContained.
Matches(form, g, want, contains) ==
    /\ g \in form.shown
    /\ \/ ~contains /\ form.val[g] = want
       \/ contains /\ <<form.val[g], want>> \in Contained

Holds(a, form) ==
    (~a.default /\ \A n \in a.needs : Matches(form, n[1], n[2], a.contains)) # a.reverse

\* isDependencySatisfied
Satisfied(f, form) ==
    Deps[f] = {} \/ \E a \in Deps[f] : Holds(a, form) \/ a.default

\* What the validator of the field says of val.
Fails(f, val) ==
    \/ f \in Required \ Flags /\ val[f] = Empty
    \/ \E r \in Rejected : r[1] = f /\ val[f] = r[2] /\ val[r[3]] = r[4]

\* Section.checkDepends at one field; the first pass validates what is shown.
Visit(form, f, first) ==
    LET active == Satisfied(f, form) IN
    [form EXCEPT !.shown = IF active THEN @ \cup {f} ELSE @ \ {f},
                 !.bad = IF first /\ active
                         THEN (@ \ {f}) \cup {g \in {f} : Fails(g, form.val)} ELSE @]

Pass(form, first) ==
    LET after[n \in 0..Len(Order)] ==
          IF n = 0 THEN form ELSE Visit(after[n - 1], Order[n], first)
    IN after[Len(Order)]

\* Mutant: a single pass.
CheckDependsOnce(form) == Pass(form, TRUE)

\* Map.checkDepends: a pass that changed something is followed by a second one,
\* and by no third: (n||10)+1 is 11 already.
CheckDepends(form) ==
    LET p == Pass(form, TRUE) IN
    IF p.shown = form.shown THEN p ELSE Pass(p, FALSE)

\* renderContents: fields with dependencies start hidden; a new widget is valid.
Render(cache) ==
    CheckDepends([val |-> [f \in Fields |->
                     IF cache[Opt[f]] = Empty THEN Default[f] ELSE cache[Opt[f]]],
                  shown |-> {f \in Fields : Deps[f] = {}}, bad |-> {}])

-----------------------------------------------------------------------------
(* parse().                                                                *)

\* An option that a shown field would have removed is not written but unset.
Unset(f, form) ==
    \/ form.val[f] = Empty
    \/ f \in Flags \ Required /\ form.val[f] = Default[f]

\* One invalid field makes parse() fail; the other fields are written before.
Refused(form) ==
    \E f \in form.shown : f \in form.bad \/ (f \in Required \ Flags /\ form.val[f] = Empty)

\* Mutant: siblings are not looked at.
KeptBySiblingNever(f, form) == FALSE

\* remove(): a shown sibling has the same option.
KeptBySibling(f, form) ==
    \E g \in Explicit \ {f} : Opt[g] = Opt[f] /\ g \in form.shown

ParseField(cfg, f, form, cache) ==
    LET removed == IF KeptBySibling(f, form) THEN cfg ELSE [cfg EXCEPT ![Opt[f]] = Empty] IN
    IF f \notin form.shown
    THEN IF f \in Retained THEN cfg ELSE removed
    ELSE IF f \in form.bad \/ (f \in Required \ Flags /\ form.val[f] = Empty) THEN cfg
    ELSE IF Unset(f, form) THEN removed
    ELSE IF f \in Flags \/ form.val[f] # cache[Opt[f]]
         THEN [cfg EXCEPT ![Opt[f]] = form.val[f]] ELSE cfg

\* What parse() makes of the section, given what the fields were loaded with.
Parsed(form, cache, cfg) ==
    LET after[n \in 0..Len(Order)] ==
          IF n = 0 THEN cfg ELSE ParseField(after[n - 1], Order[n], form, cache)
    IN after[Len(Order)]

-----------------------------------------------------------------------------

\* Field f depends on field g.
DependsOn(f, g) == \E a \in Deps[f] : \E n \in a.needs : n[1] = g

\* Field g is visited before field f.
Before(g, f) == \E i, j \in DOMAIN Order : Order[i] = g /\ Order[j] = f /\ i < j

\* Two passes settle these fields: each of early depends on fields of early that come
\* before it, each of late also on any field of early.  Fields that have no
\* dependencies of their own do not count.
TwoPasses(early, late) ==
    \A f \in early \cup late : \A g \in Fields :
      DependsOn(f, g) /\ Deps[g] # {} =>
        \/ g \in early /\ (f \in early => Before(g, f))
        \/ f \notin early /\ g \in late /\ Before(g, f)

\* The fields for which the two passes of checkDepends are enough.
Quick == {f \in Fields : \E early, late \in SUBSET Fields :
                            f \in early \cup late /\ TwoPasses(early, late)}

\* Of the fields of S, those are shown whose dependencies hold.
SettledOn(S, form) == \A f \in S : f \in form.shown <=> Satisfied(f, form)

\* Of fields that have the same option at most one is shown, and that has a ucioption.
Exclusive(form) ==
    \A f \in form.shown : \A g \in Fields \ {f} :
      Opt[f] = Opt[g] => f \in Explicit /\ g \notin form.shown

\* The options hold what the form shows, and nothing for what it hides.
ShowsSame(form, cfg) ==
    \A o \in Opts :
      LET writers == {f \in form.shown : Opt[f] = o} IN
      IF writers = {}
      THEN cfg[o] = Empty \/ \E f \in Retained : Opt[f] = o
      ELSE \A f \in writers : cfg[o] = IF Unset(f, form) THEN Empty ELSE form.val[f]
=============================================================================
