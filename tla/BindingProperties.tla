------------------------- MODULE BindingProperties -------------------------
(***************************************************************************)
(* What a function may rely on when its parameters have been bound, and    *)
(* what its caller is told.                                                *)
(***************************************************************************)
EXTENDS Binding, SequencesExt

Accepted == phase = "bound" /\ errors = {}

\* The loop of p_elipsis looks at no iterator but at two counters: it stays within
\* the words whatever flags, groups and dashes came before (prototype.cc:26).
InBounds ==
  LET fits(g, names) ==
        LET extra == Extra(g, names)
        IN  extra > 0 => at + Len(g.names) + extra <= argc + 1
  IN  /\ AtGroup => fits(Positional[param], pos_c - Len(Positional[param].names))
      /\ AtFlag => \A g \in proto.flags : fits(g, pos_c)

\* Each word of a call that is accepted is bound exactly once: flags and their
\* arguments in $-*, the others in the positional parameters, both in the order in
\* which they were passed.
WordsBoundOnce ==
  LET values(g) == FlattenSeq([k \in DOMAIN g.names |-> locals[g.names[k]]])
      positional == FlattenSeq([i \in DOMAIN Positional |-> values(Positional[i])])
      passed == IF HasStar THEN locals["-*"] ELSE locals["--"]
      increasing(s) == \A i, j \in DOMAIN s : i < j => s[i] < s[j]
  IN  Accepted =>
        /\ increasing(positional) /\ increasing(passed)
        /\ Members(positional) \cap Members(passed) = {}
        /\ Members(positional) \cup Members(passed) = 1 .. argc

\* Arguments can be told apart: a value of several words is a list of words.
SeveralWordsListed ==
  phase = "bound" => \A n \in defined : Len(locals[n]) > 1 => n \in listed

\* The body is not run with a part of a group: its names are all there or none, and
\* all of them if it is required.  (Code that checks one of them relies on it.)
GroupsWhole ==
  Accepted =>
    \A g \in Members(Positional) \cup proto.flags :
      LET names == Members(g.names) \ {""}
      IN  /\ names \subseteq defined \/ names \cap defined = {}
          /\ g.required => names \subseteq defined

\* Nothing that the prototype declares is looked up in the scope of the caller, which
\* may well have a parameter of the same name.  ("--" is the exception unless it is
\* declared in front.)
NothingOfTheCaller ==
  phase = "bound" =>
    proto.names \ (IF proto.dash = 0 /\ ~proto.bare THEN {} ELSE {"--"})
      \subseteq defined \cup undefined

\* Whether arguments are accepted, put in a way that does not walk along them: the
\* optional groups are filled in their order, each of them whole, while enough words
\* are reserved for the required ones; what is left goes to "...".
OptionalNames(j) ==
  UNION {Members(Positional[i].names) : i \in {k \in 1 .. j : ~Positional[k].required}}
Fits(n) ==
  LET size(j) == proto.required + Cardinality(OptionalNames(j))
      open == \E g \in Members(Positional) : g.elipsis # NoElipsis
  IN  \/ \E j \in 0 .. Len(Positional) : n = size(j)
      \/ open /\ n >= size(Len(Positional))

AcceptsWhatFits ==
  LET passed == Members(locals["-*"]) \cup Members(locals["--"])
      first == passed = 1 .. Cardinality(passed)   \* flags come first
      regular == missing \cap (UNION {Members(g.names) : g \in proto.flags}) = {}
                   /\ errors \subseteq {"bad_args"} /\ "" \notin proto.names
  IN  phase = "bound" /\ first /\ regular =>
        (errors = {} <=> Fits(argc - Cardinality(passed)))

\* The first "--" ends the flags: no word behind it is taken for one.
DashDashEnds ==
  [][(phase = "binding" /\ "--" \in defined) =>
        /\ errors' \subseteq errors \cup {"bad_args"}
        /\ phase' # "aborted"]_vars

=============================================================================
