------------------------------ MODULE CallStack ------------------------------
(***************************************************************************)
(* global_stack, the one Call_stack object of the shell, and the           *)
(* Error_lists whose members it counts (call_stack.cc, call_stack.h and    *)
(* the end of argm.cc), as a record and the operators that change it.      *)
(*                                                                         *)
(* A C++ Error_list lives in the activation that declares it and is either *)
(* appended to the list of the caller or destroyed when that activation    *)
(* ends, so the live lists form a stack.  They are kept here as one        *)
(* sequence, errors, the outermost list first: an activation remembers in  *)
(* `base' how long the sequence was when its own list was declared, and    *)
(* its list is the part after base.  Appending the list of a callee to the *)
(* list of its caller then leaves errors as it is.                         *)
(***************************************************************************)
EXTENDS Integers, Sequences, FiniteSets

CONSTANTS
  Names,        \* names of executables and of exceptions
  MaxNesting,   \* max_nesting, the .set_max_nesting parameter
  MaxCollect,   \* max_collect, the .set_max_collectible_exceptions parameter
  MaxExtra,     \* max_extra, the .set_max_extra_exceptions parameter
  CountLimit    \* the counter of exceptions is unsigned: it counts modulo this

\* The exceptions that the code modelled here throws by itself.
ShellExceptions ==
  {".bad_args", ".bad_if_nest", ".break", ".continue", ".else_without_if",
   ".excessive_exceptions_collected", ".excessive_exceptions_in_catch",
   ".excessive_nesting", ".failed_substitution", ".false", ".file_open_failure",
   ".function_not_found", ".if_before_else", ".mismatched_brace",
   ".not_a_number", ".not_catching_exception", ".unclosed_brace",
   ".undeclared_variable", ".undefined_variable", ".unfinished_if_block",
   ".unused_before_set", ".unused_variable"}

ASSUME NamesAssumption == ShellExceptions \subseteq Names
ASSUME LimitsAssumption ==
  /\ MaxNesting \in Nat /\ MaxCollect \in Nat /\ MaxExtra \in Nat
  /\ CountLimit \in Nat \ {0}

NoSignal == ".nop"   \* exception_names[E::No_exception]
ASSUME NoSignalAssumption == NoSignal \in Names

CallStacks ==
  [errors: Seq(Names),          \* the live Error_lists
   unwind: BOOLEAN,             \* unwind_stack_v
   count: 0 .. CountLimit - 1,  \* current_exception_count
   inHandler: BOOLEAN,          \* in_exception_handler_v
   exit: BOOLEAN,               \* exit_requested
   collectExcess: BOOLEAN,      \* collect_excess_thrown
   catchExcess: BOOLEAN,        \* execution_handler_excess_thrown
   nesting: Int,                \* global_nesting
   signal: Names]               \* caught_signal

InitialCallStack ==
  [errors |-> << >>, unwind |-> FALSE, count |-> 0, inHandler |-> FALSE,
   exit |-> FALSE, collectExcess |-> FALSE, catchExcess |-> FALSE,
   nesting |-> 0, signal |-> NoSignal]

\* Unsigned arithmetic on the counter.
Counted(n) == n % CountLimit

\* Error_list::add_error
AddError(g, name) ==
  [g EXCEPT !.errors = Append(@, name),
            !.unwind = TRUE,
            !.count = Counted(@ + 1)]

\* Error_list::add_error called only when the data make it necessary.
AddErrorIf(cond, g, name) == IF cond THEN AddError(g, name) ELSE g

\* Faulty variant: the counter is forgotten.
ReplaceErrorUncounted(g, name) == [g EXCEPT !.errors = Append(@, name)]

\* Error_list::replace_error: the exception joins the list and the counter
\* but nothing unwinds.
ReplaceError(g, name) ==
  [g EXCEPT !.errors = Append(@, name), !.count = Counted(@ + 1)]

\* The sequence without its i-th member: Error_list::erase and pop_front.
Without(errors, i) ==
  [j \in 1 .. Len(errors) - 1 |-> IF j < i THEN errors[j] ELSE errors[j + 1]]

\* Faulty variant: the counter is left alone.
RemoveErrorUncounted(g, i) == [g EXCEPT !.errors = Without(@, i)]

\* Erasing a member together with the --current_exception_count next to it.
RemoveError(g, i) ==
  [g EXCEPT !.errors = Without(@, i), !.count = Counted(@ - 1)]

\* The list of an activation goes out of scope: nothing adjusts the counter.
DestroyList(g, base) == [g EXCEPT !.errors = SubSeq(@, 1, base)]

\* Faulty variant: it clears the lists of the callers, too.
ResetAll(g, base) == [g EXCEPT !.errors = << >>, !.unwind = FALSE, !.count = 0]

\* Error_list::reset
Reset(g, base) ==
  [DestroyList(g, base) EXCEPT !.unwind = FALSE, !.count = 0]

\* The list without the exceptions of that name, prefix by prefix: a recursive
\* function, which the proofs can reason about as they could not about SelectSeq.
Remaining(list, name) ==
  LET kept[n \in 0 .. Len(list)] ==
        IF n = 0 THEN << >>
        ELSE IF list[n] = name THEN kept[n - 1]
        ELSE Append(kept[n - 1], list[n])
  IN  kept[Len(list)]

\* Faulty variant: unwinding goes on when nothing is left to unwind for.
RemoveExceptionsUnwinding(g, base, name) ==
  LET list == SubSeq(g.errors, base + 1, Len(g.errors))
      kept == Remaining(list, name)
  IN  [g EXCEPT !.errors = SubSeq(@, 1, base) \o kept,
                !.count = Counted(@ - (Len(list) - Len(kept)))]

\* Call_stack::remove_exceptions
RemoveExceptions(g, base, name) ==
  LET list == SubSeq(g.errors, base + 1, Len(g.errors))
      kept == Remaining(list, name)
  IN  [g EXCEPT !.errors = SubSeq(@, 1, base) \o kept,
                !.count = Counted(@ - (Len(list) - Len(kept))),
                !.unwind = @ /\ kept # << >>]

\* What Call_stack::remove_exceptions returns.
Contains(g, base, name) ==
  \E i \in base + 1 .. Len(g.errors) : g.errors[i] = name

\* exceptions.insert(++exceptions.begin(), exceptions.back()) and pop_back()
LastToSecond(errors, base) ==
  [j \in 1 .. Len(errors) |->
     IF j <= base + 1 THEN errors[j]
     ELSE IF j = base + 2 THEN errors[Len(errors)]
     ELSE errors[j - 1]]

\* Call_stack::request_exit (the exit value itself is left out)
RequestExit(g) ==
  [g EXCEPT !.exit = TRUE, !.unwind = @ \/ ~g.inHandler]

=============================================================================
