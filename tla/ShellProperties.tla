--------------------------- MODULE ShellProperties ---------------------------
(***************************************************************************)
(* What the unwinding machine of Shell promises.  One flag, unwind, one    *)
(* counter and one set of lists have to tell every routine on the stack    *)
(* whether to go on, although handlers run in the middle of unwinding and  *)
(* switch it off and on again.  The properties say that what the flags     *)
(* tell is true, that no exception gets lost and that handling gets on.    *)
(***************************************************************************)
EXTENDS Shell

TypeOK ==
  /\ gs \in CallStacks
  /\ gc \in Conditionals
  /\ inAuto \in BOOLEAN
  /\ stack \in Seq(Frames) /\ Len(stack) > 0
  /\ fuel \in 0 .. LineFuel

-----------------------------------------------------------------------------
\* The lists.

\* Activations whose own list holds exceptions that must stay there while an
\* executable that they have called is running.
Holding(f) ==
  \/ f.what = "handler" /\ f.pc = "ran"
  \/ f.what = "try" /\ f.pc = "caught"
  \/ f.what = "collect" /\ f.pc \in {"arguments", "ran"}

\* How many of the errors the callee of an activation must not touch.
Low(f) == IF Holding(f) THEN f.mark ELSE f.base

\* Every Error_list is within the list of errors, and above all that belongs
\* to the callers of its owner: no reset, removal or return of an executable
\* takes an exception from a list further out (Error_list::reset,
\* remove_exceptions, the local Error_lists of operator() and run_if_exists).
ListsNested ==
  /\ \A i \in DOMAIN stack :
       stack[i].base <= Low(stack[i]) /\ Low(stack[i]) <= Len(gs.errors)
  /\ \A i, j \in DOMAIN stack : i < j => Low(stack[i]) <= stack[j].base

\* current_exception_count is the number of exceptions in the live lists: the
\* two are changed at different places (add_error, erase, pop_front, reset, the
\* end of a list's life), and collect_errors_core, catch_blocks and
\* exception_handler take their decisions from the counter.
CountMatches == gs.count = Counted(Len(gs.errors))

\* Exceptions only leave the lists in the hands of a routine that handles them:
\* the loop of exception_handler, catch_blocks, or remove_exceptions in a loop,
\* a condition or getline.  No list is destroyed or reset while it holds any.
Handling ==
  \/ Top.what \in {"handler", "try"}
  \/ Top.what \in Loops \cup IfKinds
NothingDropped ==
  [][Len(gs'.errors) < Len(gs.errors) => Handling]_vars

-----------------------------------------------------------------------------
\* The flags.

\* The activations that count as nested: a signal handler that operator() runs
\* on its way out comes after --global_nesting.
Counts(f) == f.what \in Kinds /\ f.pc # "signal"
NestedIn(s) == {i \in DOMAIN s : Counts(s[i])}
Nested == NestedIn(stack)

\* global_nesting counts the activations of operator(), however they end.
NestingCounted == gs.nesting = Cardinality(Nested)

\* So the C++ stack is bounded, two activations above max_nesting.
NestingBounded == Cardinality(Nested) <= MaxNesting + 2

\* What makes the last three inductive: how the fields of a frame belong
\* together, and that main is at the bottom of the stack.
FrameOK(f, n) ==
  /\ f.base <= Low(f) /\ Low(f) <= n
  /\ f.base < f.focus
  /\ f.what = "handler" /\ f.pc = "ran" => f.base < f.mark
  /\ f.what = "try" /\ f.pc = "caught" => f.focus <= f.mark

StackOK(g, s) ==
  /\ g \in CallStacks
  /\ s \in Seq(Frames) /\ Len(s) > 0 /\ s[1].what = "main"
  /\ \A i \in 1 .. Len(s) : FrameOK(s[i], Len(g.errors))
  /\ \A i, j \in 1 .. Len(s) : i < j => Low(s[i]) <= s[j].base
  /\ g.nesting = Cardinality(NestedIn(s))
  /\ g.nesting <= MaxNesting + 2

\* The inductive invariant.
ShellInvariant ==
  /\ StackOK(gs, stack)
  /\ gc \in Conditionals
  /\ inAuto \in BOOLEAN
  /\ fuel \in 0 .. LineFuel

\* Routines that absorb the exceptions of the executables they call, as far as
\* those exceptions are new.
Absorbing(f) ==
  \/ f.what \in HelperKinds \ {"main", "autofunction"}
  \/ f.what = "collect" /\ f.pc \in {"arguments", "ran"}
  \/ f.what = "try" /\ f.pc = "caught"
Absorbers == {i \in DOMAIN stack : Absorbing(stack[i])}

\* The number of errors below the exceptions that the running code threw.
Threshold ==
  IF Absorbers = {} THEN 0
  ELSE stack[CHOOSE i \in Absorbers : \A j \in Absorbers : j <= i].mark

\* Some script is running, rather than one of the routines that clean up.
Running == Top.what \in Bodies /\ Top.pc \in {"statement", "arguments"}

\* A script only goes on while none of its own exceptions is pending, except
\* those that .replace_exception put aside for the handlers to find: every
\* routine that switches unwinding off leaves nothing for the running code to
\* stop at.
Replacements ==
  {c.name : c \in {d \in Commands \cup Conditions : d.what = "replace"}}
NoErrorIgnored ==
  Running /\ ~gs.unwind =>
    \A i \in Threshold + 1 .. Len(gs.errors) : gs.errors[i] \in Replacements

\* An executable that returns unwinding has thrown, or the shell is to exit:
\* nobody is stopped by the exceptions of somebody else.
UnwindHasCause ==
  Top.what \in Kinds /\ Top.pc = "return" /\ gs.unwind =>
    gs.exit \/ Len(gs.errors) > Threshold

\* Routines that are running an exception handler.
Catching(f) ==
  \/ f.what = "handler" /\ f.pc = "ran"
  \/ f.what = "try" /\ f.pc = "caught"
  \/ f.what = "catch_one"
HandlerRunning == \E i \in DOMAIN stack : Catching(stack[i])

\* .replace_exception is refused wherever no handler runs: the flag that it
\* tests does not survive the routine that set it.
HandlerFlagSound ==
  gs.inHandler => HandlerRunning \/ Top.what = "handler"

\* And it is admitted wherever a handler runs, whatever the handlers that ran
\* before have done.
HandlerFlagComplete ==
  Top.what = "replace" /\ Top.pc = "enter" /\ HandlerRunning => gs.inHandler

\* A handler that leaves an exception of its own behind is found to have failed,
\* so that the fallback handler takes over and the loop ends.
FailureNoticed ==
  Top.what = "handler" /\ Top.pc = "ran" /\ Len(gs.errors) > Top.mark =>
    gs.unwind \/ gs.count > Top.prev

\* The loop of exception_handler is back at its head.
TurnEnds ==
  /\ Top.what = "handler" /\ Len(stack') = Len(stack)
  /\ stack' # stack \/ gs'.errors # gs.errors
  /\ stack'[Len(stack)].pc = "next"
\* How many exceptions there were when the turn began.
TurnStart == IF Top.pc = "ran" THEN Top.mark ELSE Len(gs.errors)

\* Every turn of that loop gets on, whatever the handlers throw and replace:
\* either one more name is known to have a handler that fails, and is not run
\* again, or there are fewer exceptions than when the turn began.  So the loop
\* ends, however often handlers add to the list that it empties, if each of
\* its handlers ends and only so many names are thrown.
GetsOn ==
  TurnEnds =>
    LET failed == stack'[Len(stack)].failed
    IN  /\ Top.failed \subseteq failed
        /\ failed = Top.failed => Len(gs'.errors) < TurnStart
HandlersGetOn == [][GetsOn]_vars

\* Between two lines nothing of the last one is left: every exception was
\* handled, unwinding is off, no handler is thought to be running, no excess is
\* remembered and every level of nesting was given back.
AtPrompt == Top.what = "main" /\ Top.pc = "prompt"
PromptClean ==
  AtPrompt => gs = [InitialCallStack EXCEPT !.exit = gs.exit,
                                            !.signal = gs.signal]
              /\ ~inAuto

\* The autofunction is not run to find the autofunction: in_autofunction says
\* whether it is running, and it runs once at a time.
AutofunctionOnce ==
  LET runs == {i \in DOMAIN stack : stack[i].what = "autofunction"}
  IN  Cardinality(runs) = IF inAuto THEN 1 ELSE 0

-----------------------------------------------------------------------------
\* Collecting.

\* The report that a limit was exceeded is given once, however deeply the
\* routines that find it exceeded are nested.
Reports(name) == {i \in DOMAIN gs.errors : gs.errors[i] = name}
ExcessReportedOnce ==
  /\ Cardinality(Reports(".excessive_exceptions_collected")) <= 1
  /\ Cardinality(Reports(".excessive_exceptions_in_catch")) <= 1

\* The collectors hold what they are allowed to hold, and what the body of
\* the innermost one throws at once.
CollectedWithinLimit ==
  (\A i \in DOMAIN stack : ~Catching(stack[i])) /\ Running =>
    Len(gs.errors) <= MaxCollect

-----------------------------------------------------------------------------
\* Conditionals.

\* No chain of conditionals is left open behind a statement: base_run closes it
\* and reports it, unless an exception cut it short.
NoChainLeftOpen == AtPrompt => ~gc.in_if \/ gc.thrown

=============================================================================
