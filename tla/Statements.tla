----------------------------- MODULE Statements -----------------------------
(***************************************************************************)
(* When the arguments of a statement are evaluated (arg_spec.cc,           *)
(* arg_script.cc and the Command_block of function.cc).                    *)
(*                                                                         *)
(* A statement hands the block in its braces, its argument function, to    *)
(* what it runs, which runs it later, maybe from the argument function of  *)
(* something else.  $x and ${...} in the block wait until the statement    *)
(* they are in is interpreted; &x and &{...} are evaluated sooner, by a    *)
(* statement further out: one ampersand means the outermost one.  The code *)
(* counts how often an argument must still be passed by, its soon_level.   *)
(*                                                                         *)
(* Values are left out, and so are exceptions: they end a block early.     *)
(***************************************************************************)
EXTENDS Naturals, Sequences, SequencesExt, FiniteSetsExt

CONSTANTS
  Programs,   \* the scripts that are run: sequences of statements as written
  Functions,  \* names that a script may define
  None,
  MaxDepth    \* bound on the blocks that are being run at once

-----------------------------------------------------------------------------
\* Scripts as they are written.

\* A statement is its leading words, its other arguments and its braces.
Written(words, args, block) == [words |-> words, args |-> args, block |-> block]

\* An argument is a mark, the ampersands that follow the mark, and the block in
\* braces or, of a variable, None.  A plain word has no mark.
Marked(mark, more, block) == [mark |-> mark, more |-> more, block |-> block]
Plain == Marked("", 0, None)

-----------------------------------------------------------------------------
\* Scripts as they are stored.  The ids of statements and "by", the statement
\* that the script means to evaluate an argument, are not in the code.

argfunction_level(words) ==
  CASE words[1] = ".unescaped_argfunction" -> 1
    [] words[1] = ".argfunction" -> 2
    [] words[1] = ".escaped_argfunction" -> 3
    [] OTHER -> 0

\* The statements around an argument are given from the outside in, each with
\* the number of argument functions around it.
Depth(around) == IF around = << >> THEN 0 ELSE Last(around).depth
Meant(around, n) ==
  LET fit == {i \in DOMAIN around : around[i].depth = n}
  IN  IF fit = {} THEN None ELSE around[Max(fit)].id

RECURSIVE ParseBlock(_, _, _, _, _)

\* The statements that an argument is passed by, counted from the outermost.
\* Ampersands behind a $ are counted, too, though nothing will ever pass it by.
SoonLevel(w, max_soon) ==
  IF w.mark = "$" /\ w.block # None THEN max_soon ELSE w.more

\* Arg_spec::Arg_spec
ParseSpec(w, max_soon, id, around) ==
  LET level == SoonLevel(w, max_soon)
      braces == w.block # None
      inside == IF w.mark = "&" THEN w.more ELSE Depth(around)
  IN  [type |-> CASE w.mark = "" -> "FIXED"
                  [] w.mark = "$" -> IF braces THEN "SUBSTITUTION" ELSE "REFERENCE"
                  [] w.mark = "&" -> IF braces THEN "SOON_SUBSTITUTION" ELSE "SOON",
       soon_level |-> level,
       substitution |->
         IF ~braces THEN None
         ELSE ParseBlock(w.block, level, id,
                         SelectSeq(around, LAMBDA s : s.depth <= inside), inside),
       by |-> IF w.mark = "&" THEN Meant(around, w.more) ELSE Last(around).id,
       error |-> w.mark = "&" /\ level > max_soon]

\* Faulty variant: an argument function may not be sooner than its statement.
ParseStatementFlat(w, max_soon, id, before, depth) ==
  LET around == Append(before, [id |-> id, depth |-> depth])
  IN  [id |-> id, words |-> w.words,
       argfunction_level |-> argfunction_level(w.words),
       args |-> [i \in DOMAIN w.args |->
                   ParseSpec(w.args[i], max_soon, Append(id, i), around)],
       argfunction |->
         IF w.block = None THEN None
         ELSE ParseBlock(w.block, max_soon, Append(id, 0), around, depth + 1)]

\* Arg_script::constructor
ParseStatement(w, max_soon, id, before, depth) ==
  LET around == Append(before, [id |-> id, depth |-> depth])
  IN  [id |-> id, words |-> w.words,
       argfunction_level |-> argfunction_level(w.words),
       args |-> [i \in DOMAIN w.args |->
                   ParseSpec(w.args[i], max_soon, Append(id, i), around)],
       argfunction |->
         IF w.block = None THEN None
         ELSE ParseBlock(w.block, max_soon + 1, Append(id, 0), around, depth + 1)]

\* Command_block::Command_block
ParseBlock(b, max_soon, id, around, depth) ==
  [i \in DOMAIN b |-> ParseStatement(b[i], max_soon, Append(id, i), around, depth)]

RECURSIVE Malformed(_)

\* The constructors report Not_soon_enough wherever it is in a block.
Malformed(block) ==
  \E s \in Range(block) :
    \/ \E a \in Range(s.args) :
         a.error \/ (a.substitution # None /\ Malformed(a.substitution))
    \/ s.argfunction # None /\ Malformed(s.argfunction)

-----------------------------------------------------------------------------
\* Passing a block by.

is_argfunction(s) == s.argfunction_level = 1
IsSubstitution(a) == a.type \in {"SUBSTITUTION", "SOON_SUBSTITUTION"}
IsSoon(a) == a.type = "SOON" \/ IsSubstitution(a)
Fixed(a) == [a EXCEPT !.type = "FIXED", !.substitution = None]

RECURSIVE PromoteBlock(_, _)

\* Arg_spec::promote_soons
PromoteSpec(a, nesting) ==
  IF ~IsSoon(a) THEN a
  ELSE [a EXCEPT !.soon_level = @ + nesting,
                 !.substitution = IF @ = None THEN None ELSE PromoteBlock(@, nesting)]

\* Faulty variant: the block stays as it was.
PromoteNothing(block, nesting) == block

\* Command_block::promote_soons, Arg_script::promote_soons
PromoteBlock(block, nesting) ==
  [i \in DOMAIN block |->
     [block[i] EXCEPT
        !.args = [j \in DOMAIN @ |-> PromoteSpec(@[j], nesting)],
        !.argfunction = IF @ = None THEN None ELSE PromoteBlock(@, nesting)]]

RECURSIVE ApplyBlock(_, _, _)

\* Arg_spec::apply: what is left of an argument.
ApplySpec(a, argfunction, nesting) ==
  IF ~IsSoon(a) THEN a
  ELSE IF a.soon_level = 0 THEN Fixed(a)
  ELSE [a EXCEPT !.soon_level = @ - 1,
                 !.substitution = IF IsSubstitution(a)
                                  THEN ApplyBlock(@, argfunction, nesting + 1)
                                  ELSE None]

\* Faulty variant: an argument function counts twice.
ApplyStatementDeeper(s, argfunction, nesting) ==
  IF s.argfunction_level # 0 THEN [s EXCEPT !.argfunction_level = @ - 1]
  ELSE [s EXCEPT
          !.args = [j \in DOMAIN @ |-> ApplySpec(@[j], argfunction, nesting)],
          !.argfunction =
            IF @ = None THEN None ELSE ApplyBlock(@, argfunction, nesting + 2)]

\* Arg_script::apply
ApplyStatement(s, argfunction, nesting) ==
  IF s.argfunction_level # 0 THEN [s EXCEPT !.argfunction_level = @ - 1]
  ELSE [s EXCEPT
          !.args = [j \in DOMAIN @ |-> ApplySpec(@[j], argfunction, nesting)],
          !.argfunction =
            IF @ = None THEN None ELSE ApplyBlock(@, argfunction, nesting + 1)]

\* Command_block::apply: a call of the argument function is replaced by it.
ApplyBlock(block, argfunction, nesting) ==
  IF is_argfunction(block[1])
  THEN IF argfunction = None THEN None ELSE PromoteBlock(argfunction, nesting)
  ELSE [i \in DOMAIN block |-> ApplyStatement(block[i], argfunction, nesting)]

RECURSIVE Visited(_)

\* The arguments in a block that apply() comes by, in order.
Visited(block) ==
  IF is_argfunction(block[1]) THEN << >>
  ELSE FlattenSeq([i \in DOMAIN block |->
    LET s == block[i]
        visit(a) ==
          IF ~IsSoon(a) THEN << >>
          ELSE <<a>> \o IF a.soon_level = 0 \/ a.substitution = None THEN << >>
                        ELSE Visited(a.substitution)
    IN  IF s.argfunction_level # 0 THEN << >>
        ELSE FlattenSeq([j \in DOMAIN s.args |-> visit(s.args[j])])
               \o (IF s.argfunction = None THEN << >> ELSE Visited(s.argfunction))])

\* Those that it evaluates on its way.
DueIn(block) == SelectSeq(Visited(block), LAMBDA a : a.soon_level = 0)

\* There was no argument function to put into a substitution.
Missing(a) == IsSubstitution(a) /\ a.substitution = None

-----------------------------------------------------------------------------
VARIABLES
  script,     \* the script that is run; it does not change
  functions,  \* the blocks that names have been given
  stack,      \* Command_block::execute: the blocks being run, the last on top
  evaluated,  \* what has been evaluated: the statement meant, the one that did
  end         \* how the shell has ended, if it has

vars == <<script, functions, stack, evaluated, end>>

Running == "running"   \* values of end
Aborted == "aborted"   \* by std::abort()
Crashed == "crashed"   \* by running a substitution that is a null pointer
Refused == "refused"   \* not the shell but the script, which is not run

\* A block being run: its next statement, and the argument function in the Argm
\* that it is run with.
Frame(block, argfunction) ==
  [block |-> block, next |-> 1, argfunction |-> argfunction]

Top == Last(stack)
Statement == Top.block[Top.next]
Busy == end = Running /\ stack # << >> /\ Top.next <= Len(Top.block)

\* The executable that is run, and what it does with the argument function: a
\* function has it to run, .mapped_argfunction runs it with itself, and builtins
\* like .if run it without one.
Started(words, argfunction) ==
  CASE words[1] \in Functions /\ functions[words[1]] # None ->
         <<Frame(functions[words[1]], argfunction)>>
    [] words[1] = ".mapped_argfunction" /\ argfunction # None ->
         <<Frame(argfunction, argfunction)>>
    [] words[1] = ".if" /\ argfunction # None -> <<Frame(argfunction, None)>>
    [] OTHER -> << >>

\* The arguments that cannot be interpreted.
Wrong(s) == SelectSeq(s.args, LAMBDA a : a.soon_level # 0 \/ Missing(a))

\* Is one to be applied that is not there?
Lost(s) ==
  s.argfunction # None /\ \E a \in Range(Visited(s.argfunction)) : Missing(a)

\* Arg_spec::interpret aborts on an argument that should still be passed by.
Abort ==
  /\ Busy
  /\ Statement.argfunction_level = 0
  /\ Wrong(Statement) # << >> /\ Head(Wrong(Statement)).soon_level # 0
  /\ end' = Aborted
  /\ UNCHANGED <<script, functions, stack, evaluated>>

\* Nothing to run or to apply is found by what runs or applies it.
Crash ==
  /\ Busy
  /\ Statement.argfunction_level = 0
  /\ IF Wrong(Statement) = << >> THEN Lost(Statement)
     ELSE Head(Wrong(Statement)).soon_level = 0
  /\ end' = Crashed
  /\ UNCHANGED <<script, functions, stack, evaluated>>

\* What a statement evaluates when it is interpreted: its own arguments, then
\* those that are due in its argument function.
Now(s) ==
  SelectSeq(s.args, LAMBDA a : a.type # "FIXED")
    \o (IF s.argfunction = None THEN << >> ELSE DueIn(s.argfunction))

\* Arg_script::interpret of a statement and the run of what it names: first the
\* substitutions, each with the Argm of the block, then the executable.
Interpret ==
  /\ Busy
  /\ Statement.argfunction_level = 0
  /\ Wrong(Statement) = << >> /\ ~Lost(Statement)
  /\ LET s == Statement
         argfunction == IF s.argfunction = None THEN None
                        ELSE ApplyBlock(s.argfunction, Top.argfunction, 0)
         subs == Reverse(SelectSeq(Now(s), IsSubstitution))
     IN  /\ stack' = [stack EXCEPT ![Len(stack)].next = @ + 1]
                       \o Started(s.words, argfunction)
                       \o [i \in DOMAIN subs |->
                             Frame(subs[i].substitution, Top.argfunction)]
         /\ Len(stack') <= MaxDepth
         /\ functions' = IF s.words[1] = ".function" /\ argfunction # None
                         THEN [functions EXCEPT ![s.words[2]] = argfunction]
                         ELSE functions
         /\ evaluated' = evaluated \cup {[meant |-> a.by, by |-> s.id] : a \in Range(Now(s))}
  /\ UNCHANGED <<script, end>>

\* Arg_script::interpret of a call of the argument function.  One that has not
\* been passed by often enough names no executable.
CallArgfunction ==
  /\ Busy
  /\ Statement.argfunction_level # 0
  /\ stack' = [stack EXCEPT ![Len(stack)].next = @ + 1]
                \o (IF is_argfunction(Statement)
                    THEN Started(<<".mapped_argfunction">>, Top.argfunction)
                    ELSE << >>)
  /\ Len(stack') <= MaxDepth
  /\ UNCHANGED <<script, functions, evaluated, end>>

\* The end of Command_block::execute.
EndBlock ==
  /\ end = Running
  /\ stack # << >>
  /\ Top.next > Len(Top.block)
  /\ stack' = Front(stack)
  /\ UNCHANGED <<script, functions, evaluated, end>>

\* A script with an error in it is not run.
Init ==
  /\ script \in Programs
  /\ functions = [f \in Functions |-> None]
  /\ LET block == ParseBlock(script, 0, << >>, << >>, 0)
     IN  IF Malformed(block) THEN stack = << >> /\ end = Refused
         ELSE stack = <<Frame(block, None)>> /\ end = Running
  /\ evaluated = {}

Next == Interpret \/ CallArgfunction \/ EndBlock \/ Abort \/ Crash

Spec == Init /\ [][Next]_vars
=============================================================================
