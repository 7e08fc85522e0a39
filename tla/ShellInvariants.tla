--------------------------- MODULE ShellInvariants ---------------------------
(***************************************************************************)
(* What makes the promises of ShellProperties about the flags and the      *)
(* lists inductive: how the flags of global_stack, the exceptions in its   *)
(* lists and the activations on the stack belong together in every state,  *)
(* between any two steps.                                                  *)
(***************************************************************************)
EXTENDS ShellProperties

\* No script has a statement of that kind: a promise that holds only then says
\* so, and there are scripts that break it.
Never(what) == \A c \in Commands \cup Conditions : c.what # what

-----------------------------------------------------------------------------
\* Where the activations come from.  Each part says something of an activation
\* and those below it, so that it stays true of them while others come and go,
\* and something of the one on top.

\* The statements that are ever run: those of scripts, calls by name, argument
\* functions and the condition that does not hold.
Statements ==
  (Commands \cup Conditions) \cup {CallOf(name) : name \in Names}
    \cup {Argfunction, ThrowOf(".false")}

\* An activation of operator() executes the kind of executable that it names.
FromScript(f) ==
  /\ f.cmd \in Statements /\ f.stmt \in Statements
  /\ f.what \in Kinds => f.what = f.cmd.what

\* Routines between two handlers or two statements, whose own lists wait.
Between(f) == f.what = "handler" /\ f.pc = "next"
Choosing(f) == Between(f) \/ (f.what = "collect" /\ f.pc = "next")

\* main is at the bottom and calls executables by way of helper routines; one
\* autofunction runs at a time.
OriginAt(s, i) ==
  /\ FromScript(s[i])
  /\ i > 1 => s[i].what # "main" /\ ~Choosing(s[i - 1])
  /\ i = 2 => s[i].what \in HelperKinds \ {"autofunction"}
  /\ \A j \in 1 .. i - 1 :
       s[i].what = "autofunction" => s[j].what # "autofunction"
Rooted(s) ==
  /\ s[1].what = "main" /\ s[1].base = 0
  /\ \A i \in 1 .. Len(s) : OriginAt(s, i)

\* in_autofunction is set while the autofunction runs.
AutoOK(auto, s) == auto <=> \E i \in 1 .. Len(s) : s[i].what = "autofunction"

\* in_exception_handler_v is only set where some routine runs a handler.
FlagOK(g, s) ==
  g.inHandler => Between(s[Len(s)]) \/ \E i \in 1 .. Len(s) : Catching(s[i])

Origins(g, auto, s) == Rooted(s) /\ AutoOK(auto, s) /\ FlagOK(g, s)

-----------------------------------------------------------------------------
\* Who answers for the exceptions in the lists, in a shell without .try_catch.

\* A routine answers for an exception that was there when it called the
\* executable that is running now, and for one that a handler of its put aside.
Answers(f, p, name) ==
  \/ Absorbing(f) /\ p <= f.mark
  \/ Catching(f) /\ f.mark < p /\ name \in Replacements
\* Some of the first k activations answer for the exception at p, or main does,
\* which has run .before_command and will handle what it finds in its list.
Known(s, k, p, name) ==
  \/ k = 1 /\ s[1].pc = "before"
  \/ \E j \in 2 .. k : Answers(s[j], p, name)

\* The exceptions that a routine found when it was entered.
Found(f) ==
  IF f.what \in {"substitution", "run_handling", "base_run", "run_if_exists"}
  THEN f.mark ELSE f.base

\* Routines that may be entered while exceptions are on their way out.
Amid(f) ==
  f.what \in {"catch_one", "autofunction"} \/ (f.what = "substitution" /\ f.flag)

\* The lists and the marks of the routines that absorb exceptions grow with the
\* stack, and a routine that is entered while nothing unwinds finds only
\* exceptions that the routines below answer for.
Within(s, k, n) ==
  \A j \in 2 .. k : s[j].base <= n /\ (Absorbing(s[j]) => s[j].mark <= n)
AccountAt(g, s, i) ==
  /\ Absorbing(s[i]) => s[i].base <= s[i].mark
  /\ Within(s, i - 1, s[i].base)
  /\ ~Amid(s[i]) =>
       \A p \in 1 .. Found(s[i]) : Known(s, i - 1, p, g.errors[p])
  /\ s[i].what = "substitution" => s[i - 1].pc = "arguments"
  /\ s[i].what = "substitution" /\ s[i].flag /\ i = 2 => s[i].mark > 0
  /\ s[i].what = "catch_one" => s[i - 1].pc = "got" /\ s[i].mark > 0

\* And while nothing unwinds somebody answers for every exception.
CalmOK(g, s) ==
  ~g.unwind =>
    \A p \in 1 .. Len(g.errors) :
      \/ Known(s, Len(s), p, g.errors[p])
      \/ Choosing(s[Len(s)]) /\ p > s[Len(s)].base

\* The places where main may meet unwinding: it looks for exceptions next.
Pending == {"arguments", "before", "got"}

\* What the routine on top knows.
AccountOnTop(g, s) ==
  /\ s[Len(s)].base <= Len(g.errors)
  /\ Absorbing(s[Len(s)]) /\ ~Choosing(s[Len(s)]) =>
       s[Len(s)].mark <= Len(g.errors)
  /\ CalmOK(g, s)
  /\ Between(s[Len(s)]) => ~g.unwind
  /\ Len(s) = 1 /\ g.unwind => s[1].pc \in Pending /\ g.errors # << >>

Accounts(g, s) ==
  AccountOnTop(g, s) /\ \A i \in 2 .. Len(s) : AccountAt(g, s, i)

-----------------------------------------------------------------------------
\* Why it unwinds, in a shell without .try_catch and without collectors.

\* There are more than n exceptions for the sake of each routine that absorbs
\* those of the executables that it calls, or the shell is to exit.
Caused(g, s, k, n) ==
  g.exit \/ \A j \in 2 .. k : Absorbing(s[j]) => n > s[j].mark

Causes(g, s) ==
  /\ g.unwind => Caused(g, s, Len(s) - 1, Len(g.errors))
  /\ \A i \in 2 .. Len(s) :
       s[i].what = "catch_one" \/ (s[i].what = "substitution" /\ s[i].flag) =>
         Caused(g, s, i - 1, s[i].mark)

-----------------------------------------------------------------------------
\* Handlers and the counter in a shell without .try_catch and without .source:
\* only main runs the routines that call handlers, and only main resets a list.
Cleaning == {"handler", "catch_one", "run_handling", "base_run", "run_if_exists"}

\* Interpreting the arguments of a collector's statement throws past the list of
\* that statement.  Nothing is lost if the list is empty, as it is unless a
\* substitution in the same arguments has failed.
Collecting(f) == f.what = "collect" /\ f.pc = "arguments"
Fresh(g, s) ==
  "substitution" \notin Faults =>
    \A i \in 1 .. Len(s) :
      Collecting(s[i]) => i = Len(s) /\ s[i].mark = Len(g.errors)

\* No collector takes a list with it, so that the counter stays right.
Faithful ==
  Never("collect") \/ "undefined" \notin Faults \/ "substitution" \notin Faults
CounterOK(g) == g.count = Counted(Len(g.errors))
Counting(g) == ~g.catchExcess /\ (Faithful => CounterOK(g))

TidyAt(g, f, i) ==
  /\ f.what \in Cleaning => i = 2
  /\ f.what \in {"handler", "catch_one"} => g.inHandler
  /\ f.what = "run_if_exists" => f.mark = f.base
  /\ f.what = "handler" /\ f.pc = "ran" /\ Faithful =>
       f.prev = Counted(f.mark)
  /\ f.what = "handler" /\ f.pc = "ran" => f.stmt.name \notin f.failed

Tidy(g, s) == Counting(g) /\ \A i \in 1 .. Len(s) : TidyAt(g, s[i], i)

\* An excess that is remembered is yet to be handled, or being handled.
Excess == ".excessive_exceptions_collected"
Remembered(g, s) ==
  Faithful /\ g.collectExcess =>
    \/ \E i \in 1 .. Len(s) : s[i].what = "handler"
    \/ \E p \in 1 .. Len(g.errors) : g.errors[p] = Excess

-----------------------------------------------------------------------------
\* How many exceptions there are while a script runs, in a shell whose arguments
\* do not run substitutions.

\* Scripts and main take up a statement only while nothing unwinds.
Starting(f) ==
  \/ f.what \in Bodies \ {"source"} /\ f.pc \in {"enter", "statement", "arguments"}
  \/ f.what = "main" /\ f.pc = "arguments"
Awake(g, s) ==
  "substitution" \notin Faults =>
    \A i \in 1 .. Len(s) : Starting(s[i]) => i = Len(s) /\ ~g.unwind

\* Routines that absorb exceptions and run no handler found as many of them as
\* a collector goes on with, at most, unless a handler is running below them.
Gathering(f) ==
  \/ f.what \in {"substitution", "run_handling", "base_run", "run_if_exists"}
  \/ f.what = "collect" /\ f.pc \in {"arguments", "ran"}
LimitedAt(s, i) ==
  /\ s[i].what = "handler" => s[i].pc \in {"next", "ran"}
  /\ Gathering(s[i]) /\ (\A j \in 1 .. i : ~Catching(s[j])) =>
       s[i].mark <= MaxCollect
Limited(s) ==
  "substitution" \notin Faults => \A i \in 1 .. Len(s) : LimitedAt(s, i)

-----------------------------------------------------------------------------
\* What is thrown, and the reports that a limit was exceeded, in a shell whose
\* scripts do not throw these reports themselves.
Excesses == {Excess, ".excessive_exceptions_in_catch"}
Ordinary ==
  (ShellExceptions \ Excesses) \cup
  {c.name : c \in {d \in Commands \cup Conditions : d.what \in {"throw", "replace"}}}

Once(list, x) ==
  \A p, q \in 1 .. Len(list) : list[p] = x /\ list[q] = x => p = q
Among(list, x) == \E p \in 1 .. Len(list) : list[p] = x

\* A report is in the lists once, and then it is remembered, unless the shell has
\* come to its end.
Singly(g) == \A x \in Excesses : Once(g.errors, x)
Noted(g) ==
  /\ Among(g.errors, Excess) => g.collectExcess
  /\ Among(g.errors, ".excessive_exceptions_in_catch") => g.catchExcess
Reported(g, s) == Singly(g) /\ (Noted(g) \/ (Len(s) = 1 /\ s[1].pc = "done"))

\* The handlers have all there is before them when they are called, in a shell
\* without .source whose hooks run no handlers.
LowestAt(s, i) ==
  /\ s[i].what \in Cleaning => i = 2
  /\ s[i].what \in {"main", "handler", "run_handling", "base_run", "run_if_exists"} =>
       s[i].base = 0 \/ s[1].pc = "done"
Lowest(s) == \A i \in 1 .. Len(s) : LowestAt(s, i)

-----------------------------------------------------------------------------
\* Chains of conditionals, in a shell whose handlers and hooks do nothing.

\* What the shell runs where no base_run looks after the chain that it may leave
\* open: the hooks around a command, and the handlers of exceptions and signals.
Unattended ==
  {".raw_command", ".before_command", ".run_logic", ".after_command"}
    \cup Signals \cup Ordinary \cup Excesses
Harmless(name) ==
  name \in Quiet \/ (name \notin Defined /\ ".autofunction" \notin Defined)

\* Activations that neither run a statement nor choose one.
Passive(f) ==
  \/ f.what \in Cleaning \cup {"main"}
  \/ f.what = "call" /\ f.cmd.name \in Quiet /\ f.pc \in {"enter", "return", "signal"}
LookedAfter(s, i) == \E j \in 1 .. i - 1 : s[j].what = "base_run"
AttendedAt(s, i) == Passive(s[i]) \/ LookedAfter(s, i)
Attended(s) == \A i \in 1 .. Len(s) : AttendedAt(s, i)

\* A chain is only open while a base_run is there to close it.
Closed(c) == ~c.in_if \/ c.thrown
Chained(c, s) ==
  \/ Closed(c) \/ LookedAfter(s, Len(s) + 1)
  \/ Len(s) = 1 /\ s[1].pc = "aborted"

\* All that is ever thrown or sent.
Named(g) ==
  /\ \A p \in 1 .. Len(g.errors) : g.errors[p] \in Ordinary \cup Excesses
  /\ g.signal \in Signals \cup {NoSignal}

=============================================================================
