------------------------ MODULE StatementProperties ------------------------
(***************************************************************************)
(* What a script means by its marks, whatever functions pass its argument  *)
(* functions on to whatever others.                                        *)
(***************************************************************************)
EXTENDS Statements

\* An argument is evaluated by the statement that its ampersands name, counted in
\* the text it is written in, and one without ampersands by its own, also when
\* the block has been put into the argument function of a function that was given
\* it (arg_spec.cc:186-210, 269-277; function.cc:50-63).
EvaluatedByItsStatement == \A e \in evaluated : e.by = e.meant

\* "constructor guarantees SOONs already done" (arg_spec.cc:256): when a statement
\* is interpreted nothing in it has still to be passed by.
SoonsDone == end # Aborted

RECURSIVE Calls(_, _)

\* A block as it is written calls the argument function, in a substitution or not.
Calls(block, within) ==
  \E w \in Range(block) :
    \/ within /\ argfunction_level(w.words) # 0
    \/ w.block # None /\ Calls(w.block, within)
    \/ \E a \in Range(w.args) : a.block # None /\ Calls(a.block, TRUE)

RECURSIVE Ampersands(_)

\* A block as it is written has a $ variable with ampersands, as in $&x.
Ampersands(block) ==
  \E w \in Range(block) :
    \/ w.block # None /\ Ampersands(w.block)
    \/ \E a \in Range(w.args) :
         IF a.block # None THEN Ampersands(a.block) ELSE a.mark = "$" /\ a.more > 0

\* A script which neither runs its argument function in a substitution nor has
\* ampersands behind a $ does not end the shell, neither by that assertion nor
\* because a block is missing.
NeverEnds ==
  end \in {Aborted, Crashed} => Calls(script, FALSE) \/ Ampersands(script)

RECURSIVE TooLate(_, _)

\* In a script as it is written: some & argument has more ampersands than there
\* are statements to evaluate it.  What is in the braces of &{...} is read by
\* the statement that evaluates it.
TooLate(block, depth) ==
  \E w \in Range(block) :
    \/ w.block # None /\ TooLate(w.block, depth + 1)
    \/ \E a \in Range(w.args) :
         \/ a.mark = "&" /\ a.more > depth
         \/ /\ a.block # None
            /\ TooLate(a.block, IF a.mark = "&" THEN a.more ELSE depth)

\* A script that delays an & argument past its own statement is not run at all
\* (docs/internal_functions.md:278-284), and every other script is, those with
\* ampersands behind a $ among them: the code does not check these.
NotSoonEnough == end = Refused <=> TooLate(script, 0)
=============================================================================
