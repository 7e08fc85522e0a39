# A verification development for rwsh

rwsh is a shell with exceptions: instead of a return code, every executable
(a function, an argument function, a builtin or a binary) may throw any number
of exceptions, which stop the scripts above it until something catches them.
The handler of an exception is a function with the name of the exception, and
so may itself throw, collect, catch, leave the shell, run a script or be
interrupted by a signal.  Its variables are no less unusual: they live in
dynamic scopes, a value must be read before it may be replaced, and a function
that leaves a variable unused throws.  Functions may be redefined while they run,
blocks are put into other blocks with some of their arguments evaluated and some
not, and what a script prints may come from child processes.  This directory
models these machines in TLA+, checks them with TLC on small instances and
proves their invariants with TLAPS for all instances.

## 1. The system

| component | files | state | operations | talks to |
|---|---|---|---|---|
| call stack and exception lists | `call_stack.*`, `Error_list` in `argm.cc` | `unwind_stack_v`, `current_exception_count`, `in_exception_handler_v`, `exit_requested`, two "excess already reported" flags, `global_nesting`, `caught_signal`, three limits; the `Error_list`s on the C++ stack | `add_error`, `replace_error`, `reset`, `exception_handler`, `catch_blocks`, `catch_one`, `collect_errors_core`, `evaluate_substitution_core`, `remove_exceptions`, `request_exit` | everything: it is one global object |
| running executables | `executable.*`, `executable_map.*` | the map of names, `in_autofunction`, per executable `executable_nesting`, `del_on_term` | `operator()`, `run`, `base_run`, `run_if_exists`, `run_handling_exceptions`, `set`, `erase` | call stack (flags, nesting), functions and builtins (called back) |
| functions and blocks | `function.*` | the statements | `execute`, `prototype_execute`, `apply`, `promote_soons` | executables, prototypes, variables |
| control-flow builtins | `builtin.cc` | `gc_state` (`in_if_block`, `successful_condition`, `exception_thrown`) | `.if`…`.else`, `.while`, `.for`, `.stepwise`, `.throw`, `.try_catch_recursive`, `.collect_errors_*`, `.replace_exception`, `.exit`, `.scope`, `.store_output`, `.source` | call stack, executables |
| main and reading commands | `rwsh.cc`, `command_stream.*` | what is read and whether the input ended | `main`, `getline` | executables by hooks (`.prompt`, `.before_command`, …), call stack |
| initialisation, signals | `rwsh_init.cc` | signal dispositions | `register_signals`, `unix_signal_handler` | `caught_signal` |
| statements and arguments | `arg_script.*`, `arg_spec.*`, `tokenize.cc` | parsed scripts | parse, `interpret`, `apply`, substitutions | call stack, variables |
| variables | `variable_map.*`, `argm*` | chain of maps with sets of used, checked, local and undefined names | `get`, `set`, `local`, `global`, `unset`, `unused_var_check`, … | prototypes, scripts |
| prototypes | `prototype.*` | parameters and flags | `arg_to_param`, `unused_var_check` | variables, call stack |
| processes | `plumber.*`, `Binary`, `.fork` | streams to close, output to copy | `after_fork`, `proxy_output`, `wait` | streams, call stack |
| streams | `*_stream.*` | open, failed, parent and child links | read, write, `child_stream` | argument vectors that own them |
| clock, selections, utilities | `clock.*`, `selection*`, `read_dir.cc`, `argv.*`, `rwshlib.*` | waiting time; nothing else | | |

### What is hard

The shell is one thread; its difficulty is that control is data.  One flag,
`unwind_stack_v`, tells every routine on the stack whether to go on.  Handlers
run in the middle of unwinding, so it is switched off and on again from seven
routines that know nothing of each other; `current_exception_count` is shared by
all of them, although each compares it with what its *own* list holds; two
further flags remember that a limit was exceeded and that a handler runs, and
are cleared by whoever returns first.  A signal may arrive between any two
instructions.  A test of the shell is a script with one order of events; what
goes wrong needs a certain nesting of two or three of these routines.

What makes each component correct:

* *Call stack*: exceptions only leave a list in the hands of a routine that
  handles them; nobody touches the list of a caller; what the flags say is true
  (unwinding has a cause, a handler is running, the limit was exceeded); the
  counter is the number of pending exceptions.
* *Executables*: nesting is counted on every way out and bounded; the
  autofunction is run once and never for itself.
* *Control flow*: scripts do not go on past an exception, are not stopped by
  somebody else's, and no half-finished chain of conditionals survives.
* *Main*: every line starts from a clean state, and the loop that handles what it
  has thrown gets on.
* *Variables*: a variable is found in the innermost scope that declares it,
  nothing is used undefined, no value is lost that the script has not heard of,
  and the report of unused variables is right.
* *Executable life*: an executable lives exactly as long as a name or an
  activation refers to it.
* *Statements*: an argument is evaluated by the statement its ampersands name.
* *Prototypes*: a call is accepted if its words fit, and every word is bound once.
* *Processes and streams*: output arrives once, in order and where it belongs;
  waiting for a child comes to an end.

## 2. The modules

| module | models | lines |
|---|---|---|
| `CallStack` | the record of `Call_stack` and each operation on an `Error_list` | `call_stack.*`, `argm.cc` |
| `Interpreter` (extends `CallStack`) | the C++ stack as a sequence of frames; calling, looking up, returning; bodies of functions; interpretation of arguments; the handler loops; signals | `executable*.cc`, `function.cc`, `call_stack.cc` |
| `ControlFlow` (extends `Interpreter`) | the builtins that throw, collect, catch, loop, choose and exit | `builtin.cc`, `call_stack.cc` |
| `Shell` (extends `ControlFlow`) | `main`, `getline`, `.source`; `Init`, `Next`, `Spec` | `rwsh.cc`, `command_stream.cc` |
| `ShellProperties` (extends `Shell`) | all properties, and the inductive invariant of the lists and the nesting | |
| `ShellInvariants` (extends `ShellProperties`) | the inductive invariants of the flags, the counter, the limits, the reports and the chains: `Origins`, `Accounts`, `Causes`, `Fresh`, `Tidy`, `Remembered`, `Awake`, `Limited`, `Lowest`, `Reported`, `Attended`, `Chained` | |
| `MCShell` (extends `ShellProperties`) | the sets of statements that the runs put into scripts | |
| `Induction` | induction over the natural numbers, for what recursive functions return | |
| `ShellProofs`, `FlagProofs`, `HandlingProofs` | the proofs about `Shell`: operators on lists and on the stack, lists and nesting; flags and unwinding; the counter, limits, reports and chains | |
| `Scopes` | an abstract specification: what scripts may rely on of their variables | |
| `VariableMap` | the chain of maps, the builtins on variables, what prototypes put into a map, the report of unused variables | `variable_map.cc`, `prototype.cc`, `argm.cc`, `builtin.cc` |
| `VariableProperties` (extends `VariableMap`) | its properties, and the mapping under which it implements `Scopes` | |
| `VariableHistory` (extends `VariableProperties`) | history variables: the names and the values that the script has heard of | |
| `MCVariables` (extends `VariableHistory`) | names and prototypes of the runs | |
| `VariableProofs` | the proofs about `VariableMap` and `VariableHistory` | |
| `Lifetimes` | an abstract specification: what is alive is what is referred to | |
| `ExecutableMap` | definition, replacement, removal and deletion of executables while they run | `executable_map.cc`, `executable.*`, `builtin.cc` |
| `ExecutableProperties` (extends `ExecutableMap`), `MCExecutables` | its properties, its inductive invariant and the mapping to `Lifetimes` | |
| `ExecutableProofs` | the proofs about `ExecutableMap` | |
| `Statements` | the soon levels of arguments: parsing, `apply`, `promote_soons`, `interpret` | `arg_spec.cc`, `arg_script.cc`, `function.cc` |
| `StatementProperties` (extends `Statements`), `MCStatements` | its properties, and the scripts of the runs | |
| `Binding` | the construction of a prototype, and how the words of a call are bound | `prototype.*` |
| `BindingProperties` (extends `Binding`), `MCBinding` | its properties, and the groups of the runs | |
| `BindingProofs` | the proofs about `Binding` | |
| `Plumber` | builtins, binaries (and those that are missing) and forked shells that write; pipes, copying, waiting | `plumber.cc`, `substitution_stream.cc`, `default_stream.cc`, `executable.cc`, `builtin.cc` |
| `PlumberProperties` (extends `Plumber`), `MCPlumber` | its properties | |
| `PlumberProofs` | the proofs about `Plumber` | |

### How the code becomes a state machine

The variable `stack` is the C++ stack.  A frame is one activation of
`Base_executable::operator()` together with the `execute()` it calls (kinds
`Kinds`), or one activation of a helper that calls an executable and goes on
when it comes back (`HelperKinds`: `main`, `exception_handler`, `base_run`, …).
`pc` names the place in the routine; an action is what the code does from there
to the next call or return.  `Call` pushes the frame of an executable after the
nesting check, `Return` is the tail of `operator()`.

Each activation has an `Error_list` of its own, which ends up appended to the
list of its caller (or destroyed, or handled).  The live lists therefore form a
stack and are one sequence, `gs.errors`: the list of a frame begins behind its
`base`.  Appending a list to the caller's is then a no-op, destroying one is a
`SubSeq`, and "it touches the list of somebody else" becomes an inequality.

Data are abstracted: names are members of a small set, and *which* statement a
script runs next is any of `Commands`.  A function with an "arbitrary body" can
thus behave like every script over these statements, and one run covers all
scripts up to a length.  Faults of data – arguments that do not match, undefined
or unused variables, failing substitutions, malformed or incomplete lines – are
outcomes that may occur where the code can meet them, if the constant `Faults`
of the instance lists them.  One of these outcomes ends the process by
`std::abort`, from inside `.stepwise` (`StepwiseAborts`): `main` is then at
"aborted" and nothing else is left.  Output, text, values of variables, timing
statistics and the exit value are left out.

`mark`, a field of a frame, is not in the code: it is the length of `errors`
when the frame last called something.  In `.collect_errors_*` it stands for the
local list `children` of the statement, elsewhere only the properties read it.

`VariableMap` and `Shell` do not share state: `Shell` takes "a variable is
undefined" or "unused" as faults that may occur, and `VariableMap` says when
they do.  In `VariableMap` a step is one operation of the current map (the last
of the sequence `maps`): a read by a `$`-argument, a builtin, `Enter` for a call
whose arguments match, `Leave` for the end of a function, script or `.scope`.
Each record has the fields of `Variable_map`; `vars[k]` is `None` where the
`std::map` has no entry, and `extra` are the prototypes that `.rescope` has
added.  `result` is what the operation returned or threw.  `Chain` replaces the
parent pointers: a map's parent is the one below it, or the global map for the
handler of an exception.  A call whose arguments do not match leaves no trace
(its map is blessed and its body not run), nor do the maps that builtins have
for their own arguments; both are left out.  A prototype has flags and
positional parameters in groups, `-*`, and required parameters; which words of
the call belong to which parameter is left to `Binding`, as is an ellipsis.  `.rescope`
and `.reinterpret` take one parameter at a time.  The handlers that run after
the check at the end of the shell are not modelled.

`VariableHistory` runs `VariableMap` with two variables that no operation looks at:
`heard`, the names of each map some value of which was read or reported to the
script, and `current`, those whose present value was.  `used_vars`, by which the
code decides the same questions, is not used there.

`ExecutableMap` leaves open what functions do: whoever has control may run,
define and remove anything and return at any time, so it covers all scripts with
all exceptions.  `object` is the memory: a place is free or holds a
`Base_executable`, and `map` are the pointers to it.  A frame is an activation of
`operator()`; at its `tail` the handler of a signal may run, after which `Leave`
counts the activation off and deletes what is waiting for it.

`Statements` is about one question, who evaluates an argument.  A script is
parsed as the constructors do (`ParseBlock`), with its soon levels; a frame of
`stack` is a `Command_block` being executed, with the argument function of its
`Argm`.  Interpreting a statement evaluates its arguments, applies its argument
function (`ApplyBlock`, which comes by the arguments of `Visited` and
evaluates those of `DueIn`) and starts what it names.  `Abort` and `Crash` are
the two ways in which that ends the shell: an argument that has still to be passed
by, and a block that is a null pointer, whether it is run (`Wrong`) or put into
another one (`Lost`).  Ampersands behind a `$` are in `SoonLevel` as in the code,
which counts them and never checks them.  Values do not matter, so evaluating is recorded in `evaluated`, with the
statement that the *text* means (`by`, which is no part of the code).
`Interpret` does in one step what the code does in a loop over the arguments; the
blocks it has started are then run one after the other, in the order of the code.

`Binding` builds the prototype group by group, as its constructor does, with
every error of the constructor, and then binds the words of any call, one or one
group at a time; the fields of `Parsing_state` are variables of the module.
Words are only told apart by their position and by whether they are a flag that
is declared, another flag, `--` or no flag.

`Plumber` has the shell and one child as concurrent processes: the shell runs a
child and then only copies what it writes and waits for it.  A piece of output is
a number; the buffer of `cout`, that of a `Substitution_stream`, and the pipe
are sequences of them.  `fd1` is where descriptor 1 leads.  Builtins of the script
of a substitution write to its stream (`WriteText`); what handlers of signals, and
of a script sourced there, print goes to `cout` (`Write`).  `OpenPipe` includes
that `pipe()` fails and the binary keeps the descriptor of the shell
(`Redirected`).  The child of a missing binary has been redirected when it runs
the handlers of its exceptions, which print to its copy of `cout` (`ChildPrints`);
they run builtins only, and no binary of their own.  What is written or flushed at
once fits into a pipe that is not full.  `meant` and `pending` are not in the
code: which pieces belong on the screen and in the text of each level, and what was
in the buffer of `cout` when a process was made.  A child's output belongs to the
innermost substitution if that has got a pipe (`Innermost`), and else on the
screen.  `KnownBugs:42` says that binaries cannot be used in a substitution; the
code has since got pipes for them, and they work.

Every definition marked *Faulty variant* is a mistake one could make in the
definition below it; no action uses it.  They show that each property can fail:
with the faulty variant in its place TLC finds a violation.

## 3. What the runs check

Bounds.  `LineFuel` bounds statements, script lines, substitutions, faults and
signals between two prompts (the shell itself runs for ever: fuel is refilled at
each prompt).  Only scripts are cut short by it, no routine of the shell: when
fuel is out, a body can still end and every handler still runs.  `MaxNesting` is
4 (0 in `limits`, where the limit is to be met), `MaxCollect` and `MaxExtra` are
1, so that one exception more exceeds them, `CountLimit` 64, far from wrapping
except by going below zero.  `collect` has one more, for the statement that
`.run_logic` takes the place of.  Five or six statements suffice to nest a handler in
a collector in a handler with an exception pending in each, which is as deep as
the routines can influence each other: all departures listed below need at most
four.

| run | question | result |
|---|---|---|
| `handlers` | whole sessions: functions, the hook `.before_command`, handlers that throw, replace and fail, all faults of data, bad lines, `.exit`: `PromptClean`, `NoErrorIgnored`, `NothingDropped`, `FailureNoticed`, `HandlerFlagComplete`, `HandlersGetOn` | hold |
| `collect` | collectors and catch blocks, nested, run by a `.run_logic`: `CountMatches`, `CollectedWithinLimit`, `ExcessReportedOnce`, `HandlerFlagSound` | hold |
| `control` | loops and conditionals: `UnwindHasCause`, `NoErrorIgnored`, `NoChainLeftOpen` | hold |
| `limits` | nesting limit 0, autofunction, scripts, `.exit`, signals: `AutofunctionOnce`, `ListsNested`, `NestingBounded` | hold |
| `variables` | every operation on variables, nested in up to three maps: `ScopesImplemented`, `Judged`, `InitialValueHeard`, `InterruptedUntouched`, `UnusedReported` | hold |
| `executables` | executables redefined and removed while they run: `RunningCounted`, `NamesOwn`, `NothingLost`, and the refinement `LivesAsLongAsReferred` | hold |
| `arguments` | blocks passed on and put into blocks: `EvaluatedByItsStatement`, `NeverEnds`, `NotSoonEnough` | hold |
| `plumber` | output of builtins and children in nested substitutions: `SubstitutionExact`, `TerminalExact`, `NothingLeftOpen`; with fairness `WaitReturns` | hold |
| `binding` | all prototypes and calls of a certain size: `InBounds`, `WordsBoundOnce`, `SeveralWordsListed`, `GroupsWhole`, `NothingOfTheCaller`, `AcceptsWhatFits` | hold |
| `second_value` | is every value of a local variable read or reported? | **no**, if an earlier value of the name was read |
| `soon_abort` | is no argument still to be passed by when a statement is interpreted? | **no**, after an argument function in a substitution |
| `late_dashes` | does the first `--` end the flags? | **no**, if the prototype has `[--]` |

In `variables` there are at most three maps at a time, the global one, a function
and what it calls or what handles its exception, and four operations besides
leaving a map and the end of the shell; a fourth map would behave as the third
does.  Four operations suffice to enter a function, define a variable, start a
handler and touch the variable from there, or to declare, define, remove and
redefine one.  Three prototypes, one with a flag without arguments, one with a
flag that has one and one with a required parameter, give every branch of the
report.  Values are only compared, so they may be permuted (`SYMMETRY`), and no
operation looks at the outcome of the last one, so states that differ in it are
one (`VIEW`); the properties that mention the outcome, `UnusedReported`,
`ScopesImplemented` and `LastValueHeard`, are about the step that produces it.

`ScopesImplemented` is the refinement: under the mapping that forgets who has
read or asked for what, every operation is one of `Scopes`: it finds the name in
the innermost scope that knows it, changes that scope and no other, and is
refused only where `Scopes` permits it.  `InitialValueHeard` is what the exception
`.unused_before_set` is for, "attempt to set $var before making use of its initial
value" (`rwshrc-basic:242-243`), said of the values themselves: until the script has
heard of one value of a name in a map, none is overwritten or removed.  Later
values are lost unread, as `second_value` shows.  `UnusedReported` is about names,
as the code keeps them: it has the exceptions that
the documentation makes for flags, and three that only the code makes; they are
listed below.

In `executables` a frame may be that of `f`, of the autofunction or of a handler,
four deep; an executable that is redefined while it runs is replaced by others at
most as often as frames allow, and six places hold the four names and two that
wait to be deleted.  Places are alike (`SYMMETRY`).  `LivesAsLongAsReferred` is a
refinement: whatever happens, what is alive is what has a name or an activation.

The scripts of `arguments` (`Scripts` in `MCStatements`) define `g` and `f` and
call `f` with a block; `f` runs its argument function, or hands it on to `g` in
one of the ways the language has: directly, under another statement, escaped, in
a substitution.  Every argument in a block of depth 2 or less takes every number
of ampersands, in a substitution of either kind or not.  Each level of passing
on is treated as the last, so a third function would add nothing.  `AllScripts` adds
ampersands behind a `$`, which the code counts but does not check (`DollarScripts`),
and functions that put a block with a missing argument function into another
(`LostBlocks`).  `NotSoonEnough` is about ampersands behind an `&` alone, which are
the only ones that the code refuses.  `MaxDepth`, the
number of blocks that run at once, is never reached.

In `plumber` there are two substitutions inside each other, so that one is
interrupted by the other, four pieces of output, of which a pipe holds one, so
that every child can be stopped by a full pipe, and three processes made or
replaced, so that a substitution is used again after a binary and the buffer is
copied twice; any of them may be missing, not be forked, or not get its pipe.
`NothingLeftOpen` is about descriptors: the `FILE` that `pipe_stream.cc:25` opens
for a descriptor is never closed by `fclose`.  `fd1 = Screen` in the properties excepts what follows a failed
`.exec` in a substitution, `pending` what was in the buffer of `cout` when a
process was made: the code goes wrong there, see below.

In `binding` a prototype has up to three groups, of the kinds that `AllGroups`
lists: required and optional, of one name and two, with `...` after, before and
instead of a name, flags with and without an argument, `--`, `[--]` and `[-*]`,
in every order; a call has up to five words of every kind.  Three groups are a
required one before and after an optional one, five words one more than the most
that they take.

Properties are checked in the instances in which they are true of the code; the
end of this section lists where they are not.  Each run of `MCShell` says which
statements its scripts contain (`MCShell`), and that choice is part of what it
shows: `FailureNoticed` and `HandlersGetOn` hold as long as handlers run no script, `NothingDropped`
as long as no collected statement can both lose a substitution and throw,
`HandlerFlagComplete` as long as handlers catch nothing.  The theorems of section 4
state such conditions as hypotheses; the runs satisfy them, and `collect`, with
scripts that catch and collect, goes beyond them.

Fairness.  No property of `Shell` is a liveness property.  Scripts may loop on
purpose, so an end could only be promised of the shell's own loops, and it is not
true of all of them: `.while .nop {.exit 0}` never ends (see below).  What
`exception_handler` does is stated step by step instead: `HandlersGetOn` says that
every turn of its loop leaves fewer exceptions than it found, or finds one more name
whose handler fails and is not run again.  So the loop ends if each of its handlers
does, and `LineFuel` has no part in it.  In `Plumber` there are two
processes, and `Fairness` says that the kernel runs both: weak fairness of what
the shell does in `wait` and of what the child does until it exits, for
`WaitReturns`.  That the child comes to an end is put in by `left`, the pieces it is
going to write; that it is killed is possible and never required.

### Where the code departs from what it says

`PROJECT.json` quotes the three disagreements that the violation runs exhibit.
Further ones met on the way, each found in the model and tried on the real
shell:

* `catch_blocks` unwinds when *any* exception is pending (`call_stack.cc:55`), also
  one that a collector around it has put aside; so a `.try_catch_recursive` that
  caught everything makes `.collect_errors_only` stop (`UnwindHasCause` fails if
  the statements of `collect` are added to `control`).
* With `execution_handler_excess_thrown` set, `catch_blocks` returns without
  unwinding (`call_stack.cc:43`), and the next line is read with an exception
  pending, which `reset` then drops.
* `getline` resets the counter of the whole shell (`command_stream.cc:38`), so a
  handler that replaces its exception and then runs a script is taken for one
  that succeeded (`FailureNoticed` and `HandlersGetOn` fail with `.source` in
  `handlers`), and may be run again without end.
* A signal that arrives while the stack unwinds is forgotten: `operator()` clears
  `caught_signal` and runs its handler, which `run` refuses.
* When the condition of an `.if` has an `.if` of its own, `successful_condition`
  is left over from it: neither the argument function nor that of `.else` is run.
* `.stepwise` interprets statements with no handler for exceptions around it: an
  undefined variable leaves past the check of local variables, and the process
  ends by `std::abort` (`StepwiseAborts`).  Nor does it count that the function
  it goes through is in use, which may be removed meanwhile.
* `catch_blocks` and `catch_one` clear `in_exception_handler_v` instead of
  restoring it: a handler run after one that used `.try_catch_recursive` may not
  use `.replace_exception` (`HandlerFlagComplete` fails if `TryA` is added to
  the statements of `handlers`).
* An undefined variable in a collected statement destroys the exceptions that a
  failed substitution of the same statement has left in the statement's list
  (`NothingDropped` fails with collectors and both faults).
* A collector inside a handler compares its limit with all pending exceptions of
  the shell, and may unwind without throwing anything.
* `.exit` starts unwinding, so it ends the functions around it, of which
  `docs/builtins.md:49-50` says that it does not terminate any.
* After `.exit` the next statement of a line is run, with unwinding off.
* `.while .nop {.exit 0}` never ends: there are no exceptions, so
  `remove_exceptions` switches the unwinding off that `.exit` had started
  (`call_stack.cc:143`), and `.while` goes on (`builtin.cc:896-898`).
* `exception_handler` runs the handler of an exception that a handler threw;
  `docs/internal_functions.md` says that neither is handled then.
* After a handler that sources a script the unsigned counter is one below zero
  for the rest of the line, so that the first `.collect_errors_except` reports an
  excess.
* A chain of conditionals opened in a substitution that fails, in a statement of
  `main`, is still open on the next line (so `control` has no such fault).

* The check of a prototype marks `$-*` as used, and the prototypes that `.rescope`
  has added are checked first, so the flags of a function that uses `.rescope`
  are never reported, though `docs/function_prototypes_and_option_handling.md`
  says that every unused variable is.
* Nor is a variable that was declared with `.local_declare` and then defined with
  `.local`, because its name is still among those without a value; it is reported
  if it was defined with `.set`.
* A variable is used or not by name: what was read once, removed with `.unset` and
  defined again with `.local`, or given another value with `.set`, counts as read
  (`second_value`; `UnusedReported` does not speak of it).
* A variable that was declared and then removed is reported as unused; one that
  was removed cannot be declared again.
* `.global` succeeds behind a local declaration without a value, after which the
  variable is still undefined where it was called.
* `.reinterpret` withdraws values that nobody has read.

* An argument function in a substitution that is called with none is a null
  pointer: the shell ends by a segmentation fault (`Crash`) when it is run or put
  into another block.
* Ampersands behind a `$` are counted (`arg_spec.cc:56`), but only those behind an
  `&` are compared with the blocks around: `.echo $&x` is accepted, and aborts the
  shell when it is run (`SoonsDone` fails for `DollarScripts`, too).  `NeverEnds` says
  that these scripts, those with a null pointer and those of `soon_abort` are the
  only ones.

* With `...` as the argument of a flag, the flag given twice defines its
  parameter twice and ends the shell.
* A group that ends with an empty name may be bound in part without an exception,
  and the words of `a [... b] c` go to `a` unquoted.
* The constructor takes a convenience variable behind `...` in a group for a
  positional parameter: with `a [... --]` the word that `...` leaves for it goes to
  `$--`, in which passed words are kept as well.  The groups of the run have none
  (`NoDashesBehind` in the theorem).
* `--` is only a local variable if the prototype has it in front, so otherwise
  `$--` is that of the caller.
* Flags are accepted behind positional arguments, unless the prototype has `--`,
  although the documentation says that they come first.
* `[-x] [-*]` is refused as a duplicate parameter, `[-*] [-x]` is not.

* Some builtins do not flush what they print: it is shown twice after a `.fork`,
  after what a binary has written meanwhile, never after an `.exec`, and in the
  text of a substitution if the binary there does not exist.
* What the handlers of a missing binary print is in the text of the substitution
  (`executable.cc:76`), while what other handlers print there is not.
* If no pipe can be had, a binary in a substitution writes to the screen, and the
  substitution does not fail (`substitution_stream.cc:44-46`).
* `.fork` in a substitution or in `.store_output` writes to a copy of the stream
  that nobody reads.
* A failed `.exec` in a substitution leaves descriptor 1 redirected, and the
  plumber with a stream that is destroyed at the end of the substitution
  (`CloseGone`).
* A binary that is killed by a signal raises no exception, and if `fork()` fails
  the status that is looked at was never set.

## 4. What is proved

`ShellProofs` proves with TLAPS, for every value of the constants that satisfies
the named assumptions – every set of statements and handlers, every fault, every
signal, every limit:

* `ShellInvariantHolds`: `Spec => []ShellInvariant`, the inductive invariant;
* `TypeCorrect`: `Spec => []TypeOK`;
* `ListsNestedHolds`: no operation on a list reaches into the list of a caller;
* `NestingCountedHolds`: `global_nesting` is the number of activations;
* `NestingBoundedHolds`: at most `max_nesting + 2` activations.

The last three are not inductive by themselves.  That a list stays within the
lists of all callers needs to know, for the routines that *hold* exceptions of
their own while a callee runs (`Holding`: the handler loop, a catch block, a
collector), that the callee's list begins above what they hold (`Low`), that
what they hold is there (`FrameOK`) and that `main` is never popped.
`ShellInvariant` is the conjunction of these; TLC finds it true on the instances
of the runs.  The argument: pushing (`PushOK`), replacing (`ReplaceOK`) and
popping (`PopOK`) a frame and changing the lists above `Low` (`GlobalOK`) preserve
it, hence `Call`, `Run` and the helpers do (`CallOK`, `RunOK`, …), hence each
action does (one lemma for each group of actions).  It begins with the lemmas about
the operators on lists and on the stack.  What a recursive function such as
`Remaining` returns needs induction; the induction theorems of the library take an
operator that the provers cannot supply, so `Induction` states induction for a set
of numbers (`InductionOnSet`) and proves it from well-founded sets.  The
assumptions are those that the modules state about their constants: TLC evaluates
them in every run.

`FlagProofs` and `HandlingProofs` go on from there to the flags, which say something
of exceptions and routines and are set and cleared all over the code.  Two results
hold of every shell:

* `AutofunctionOnceHolds`: `Spec => []AutofunctionOnce`;
* `HandlerFlagSoundHolds`: `Spec => []HandlerFlagSound`.

The others are about shells whose scripts leave certain builtins alone, as
`Never(…)` says in the theorem, or that do without certain faults, with arbitrary
scripts, faults, signals and limits otherwise.

| theorem | property | not in scripts | besides |
|---|---|---|---|
| `NoErrorIgnoredHolds` | `NoErrorIgnored` | `.try_catch_recursive` | |
| `UnwindHasCauseHolds` | `UnwindHasCause` | `.try_catch_recursive`, collectors | |
| `HandlerFlagCompleteHolds` | `HandlerFlagComplete` | `.try_catch_recursive`, `.source` | |
| `CountMatchesHolds` | `CountMatches` | `.try_catch_recursive`, `.source` | `Faithful` |
| `FailureNoticedHolds` | `FailureNoticed`, while the counter does not wrap | `.try_catch_recursive`, `.source` | `Faithful` |
| `HandlersGetOnHolds` | `HandlersGetOn`, while the counter does not wrap | `.try_catch_recursive`, `.source` | `Faithful` |
| `PromptCleanHolds` | `PromptClean` | `.try_catch_recursive`, `.source` | `Faithful` |
| `NothingDroppedHolds` | `NothingDropped`, an action property | `.try_catch_recursive`, `.source` | `Faithful` |
| `CollectedWithinLimitHolds` | `CollectedWithinLimit`, while the counter does not wrap | `.try_catch_recursive`, `.source` | arguments run no substitutions |
| `ExcessReportedOnceHolds` | `ExcessReportedOnce` | `.source`, throwing a report | no `.before_command`, no `.after_command` |
| `NoChainLeftOpenHolds` | `NoChainLeftOpen` | | hooks and handlers do nothing, arguments run no substitutions |

`Faithful` says that there are no collectors, or no undefined variables, or no
substitutions in arguments: a collected statement cannot have the exceptions of a
failed substitution in its list when it meets an undefined variable.

The hypotheses are no convenience; most of them mark what goes wrong (section 3):

* `.try_catch_recursive`: it returns without unwinding, with its exceptions
  pending, if an earlier excess is remembered, and clears the flag for handlers
  while one around it still runs.
* Collectors: nested, they unwind for exceptions that are not their own, and one
  whose statement meets a failed substitution and an undefined variable drops a list
  without counting it off.
* `.source`: `getline` sets the counter to zero in the middle of a handler, and the
  handlers of the script clear the flag of the one that reads it.
* Substitutions in arguments run while exceptions are on their way out, so they
  collect above the limit, and those of a statement of `main` run outside
  `base_run`, which would close the chains that they open.
* Handlers that do not have all exceptions before them forget an excess that is
  still in the list of somebody else: those of a script and those of the hooks
  around a command.
* Hooks and handlers are run by routines that do not look after chains of `.if`.

The argument is in layers, each an inductive invariant of `ShellInvariants`.
`Origins` (`OriginsHolds`): which routine may have called which, and that a flag is
only set while a routine on the stack has set it.  `Accounts` (`AccountsHolds`):
while nothing unwinds, some routine on the stack *answers* for every pending
exception – it absorbs what its callees throw and the exception was there when it
called, or it runs a handler that replaced it.  This is what none of the routines
can see: whether it may switch unwinding off is decided by comparing counts.  It is
inductive because the marks of the absorbing routines grow with the stack
(`Within`), and because a routine that is entered while nothing unwinds finds only
exceptions that those below answer for (`Found`).  `NoErrorIgnored` follows, for a
script is itself such a routine.  `Causes`: while something unwinds, there are more
exceptions than any absorbing routine put aside.

`Fresh` (`FreshHolds`): between the head of a collector's loop and the statement that
it runs, the list of the statement is empty, unless arguments run substitutions; so
what an undefined variable destroys there is an empty list.  `Tidy` (`TidyHolds`):
without `.source` the helpers that run handlers are called by `main` alone, so the
flags belong to one routine, and the counter is exact if no list is taken away with
what it holds.  `Remembered` (`RememberedHolds`): an excess that is remembered is yet
to be handled, or a handler is running.  `PromptClean` puts all of these together.
`NothingDropped` needs for every action that destroys or resets a list why the list
is empty then (`Preserves`).  `HandlersGetOn` follows a turn of the handler loop from
where it begins to where it ends: a handler that leaves more behind than it found has
been noticed, by `FailureNoticed`, so its name joins those that fail.

For `CollectedWithinLimit` two more invariants say what the counter may have been
when a routine looked at it.  `Awake`: a statement is only taken up while nothing
unwinds, and by the routine on top.  `Limited`: what each routine that gathers
exceptions found when it was entered is within the limit of the collectors, unless a
handler is running below it.  That these two survive whatever is called and returns
is stated once, for all invariants that speak of single frames: after a step each
frame is what it was, or its routine has moved on (`Kept`), or it has just been
entered (`Started`, `Helping`) – this is `Layered`, which every step satisfies
(`Shapes`, `Layers`) but two that are looked at by themselves.

`ExcessReportedOnce`: the reports are only added by `CollectExcess` and
`CatchExcess`, which set the flag that keeps them from doing so again, and only
forgotten by `HandlersDone`.  All other steps throw what is `Ordinary` and add no
copy of what they find (`Sparing`, `SparingStep`).  `Lowest` says that the handlers
begin at the first exception of all, hence leave none when they are done; then
`Reported` – each report is there once, and then it is remembered – is inductive.

`NoChainLeftOpen`: what can open a chain runs statements, and below every such
activation a `base_run` waits (`Attended`), which closes the chain when what it has
called returns; so a chain is only open while one waits (`Chained`).  Where one
waits below the top nothing needs to be known of the step but that it leaves the
frames below alone (`Layers`); where none does, only routines that run no statements
can be on top (`Passive`, `PassiveSteps`), and what they call by name does nothing.
For that the names of exceptions and signals must be known (`Named`).

That a step preserves a layer takes one lemma for every action that touches it;
`StepKinds` divides the others into those that only move the frame on top, with
the lists as they are (`Advancing`), and the calls and returns, for which
`Grows` and `Pruned` say how the stack and the lists change together.

`VariableProofs` proves, for every set of names, values and prototypes and
without a bound on maps:

* `VariablesTyped`, `VariablesJudged`: `Spec => []TypeOK` and `Spec => []Judged`,
  that whatever a map holds is looked at by some part of its check;
* `HandlersLeaveVariables`: `Spec => InterruptedUntouched`;
* `InitialValuesAreHeard`: `HistorySpec => InitialValueHeard`, and
  `HistoryImplementsSpec`: `HistorySpec => Spec`, that the history variables only
  watch;
* `UnusedAreReported`: `Spec => UnusedReported`, for groups of any length;
* `ScopesImplementedHolds`: the refinement `Spec => ScopesImplemented`.

The argument: `TypeOK /\ Judged` is inductive.  Every operation but `Enter` and
`Leave` is `InPlace`: it changes maps of the chain only, each as `Kept` says (one
lemma for each operation); `Made` and `Left` are the other two.  The invariant
and `InterruptedUntouched` follow from these three cases alone.  For
`InitialValueHeard` one more invariant, `HeardOK`, ties what the code believes to what
happened: a name of a map that is among its `used_vars` has been heard of there.  That
the report is complete follows from `Judged`: an unread variable is a local one,
or a parameter of the function's prototype or of one that was added, and for each
of these `FlagReported`, `PositionalReported` and `ReportOf` say what is reported.

For the refinement, the operators of `Scopes` are computed under the mapping:
what is visible from a scope is its chain of maps, and the home and the meaning
of a name are the map that `used_var_iter` finds and the binding there
(`VisibleIs`, `HomeIs`, `MeaningIs`).  An operation then either changes nothing
that `Scopes` sees (`SameScopes`: who has read or judged a variable is forgotten)
or one binding of one scope (`Rebound`), or makes or removes the innermost one.
There is one lemma for every operation and `ScopesStep` puts them together.

`ExecutableProofs` proves, for any names, number of executables and depth of the
stack:

* `LifeInvariantHolds`: `Spec => []LifeInvariant`, the inductive invariant;
* `RunningCountedHolds`, `NamesOwnHolds`, `NothingLostHolds`: the three properties
  of the run `executables`;
* `LivesAsLongAsReferredHolds`: the refinement `Spec => Lives!Spec`.

None of the three is inductive without the others: an executable is only deleted
when it should be if its counter is exact, the counter is that of the right
executable only if names are never shared, and `Set` keeps names apart only if
the place it takes is free.  Besides, a free place remembers nothing and an
executable knows its name.  Pushing, popping, `Set` and `Erase` each have a lemma,
an action is one or two of them.  For the refinement each action maps to an action
of `Lifetimes` or a stutter: `Set` is `Bind`, `Erase` `Unbind`, and so on.

`BindingProofs` proves, for prototypes of any length, with any parameters, flags
and words:

* `InBoundsHolds`: `p_elipsis` stays within the words of the call;
* `NothingOfTheCallerHolds`: once bound, every name of the prototype is defined or
  declared undefined;
* `GroupsWholeHolds`: the names of a group in a call that is accepted are bound all
  or none, and all of them if the group is required;
* `SeveralWordsListedHolds`: a value of several words is a list of words;
* `WordsBoundOnceHolds`: the words of a call that is accepted are bound once each
  and in order, if `NoDashesBehind`;
* `AcceptsWhatFitsHolds`: a call is accepted exactly if its words fill required and
  optional groups as the prototype allows or overflow into "...", if
  `NoDashesBehind`.

`InBounds` compares two counters that only ever change together with where the
call and the prototype are.  The invariant `BindingInvariant` says how:
`pos_c` is at least what the groups that are still to come take (`Rests`), the
prototype is as its constructor leaves it (`ProtoOK`), the walk is within both
(`Walk`), and every name that the walk has passed is in the map (`Covered`).

The next two need more of the prototype (`ProtoShape`): that groups have no name in
common, so that words for one are never taken for the other, and that
`proto.elipsis` is the name in front of the only "...".  `GroupInvariant` then says
of each group that all its names are defined or reported as missing, or that none
is defined (`GroupsSettled`), and of each value that it has one word or is listed
(`LocalsOK`).  "--" is the delicate case of the latter: words are appended to it
but it never becomes a list, which is right only because a second "--" ends the
process.

That words are bound in order is another layer, `OrderInvariant`: the words so far
are in the values of the groups passed and in that of `$-*` or `$--`, each in one
of them (`Placed`); those in a value increase; and the groups to come have none
(`EmptyFrom`).  The property flattens the values in the order of the prototype, so
`FlattenIs` says what `FlattenSeq` returns: its length, and which word is where.
`NoDashesBehind` says that no group has a convenience variable behind its "...", and
without it the property is false (section 3).

That exactly the calls that fit are accepted is the last layer, `FitInvariant`.  The
constructor keeps two numbers of a prototype, how many names are required and how
many there are, and each group has a third: `Counted` says what they count
(`RequiredFrom`, `OptionalOf`), for prototypes of any length.  The walk accepts or
refuses a group by comparing the words left with these numbers.  `SoFar` says what
this comes to: that it has filled the first optional groups, as many as the words
allow, or that "..." has taken what was left (`Filled`, `Filling`, `Spilling`,
`Saving`).  When the walk ends, that is `Fits`, which looks at no counter.

`PlumberProofs` proves, for substitutions inside each other to any depth, any
amount of output and pipes of any size:

* `SubstitutionExactHolds`, `TerminalExactHolds`, `NothingLeftOpenHolds`: the three
  invariants of the run `plumber`, all from `PlumberSound`:
  `Spec => []PlumberInvariant`.

Like the properties, `PlumberInvariant` promises something as long as descriptor 1
leads to the screen, and it never leads back there (`StaysRedirected`).  Texts are
exact only because a child, whatever it runs, writes where its output belongs: to the
pipe of the innermost substitution if that has one, which the plumber is then
reading, and to the screen if none could be had; and because no pipe is open between
statements (`Pipes`).  A new piece has a higher number than any other (`Numbered`).
What a child can still put in the wrong place was in the buffer of `cout` when it was
made, and is excepted (`Doubtful`).  The text of a substitution is in three sequences,
what is in its buffer, in its pipe and not flushed by a child, and that of the screen
in three as well: `Holds` says that they hold what belongs there, each sorted and
before the next but for the doubtful pieces.  Lemmas say what appending, moving pieces
from one to the next, and a doubt more do to `Holds`; the three ways in which a child
writes are one lemma (`ChildGives`), and each action has one.

Only model-checked:

* `CountMatches` and `CollectedWithinLimit` for scripts with catch blocks, which the
  run `collect` has and the theorems exclude.  With catch blocks the answer depends on
  which faults occur (section 3), and the run names them.  What the other runs of
  `MCShell` say of flags and lists is covered by the theorems.
* Of `Binding`, `WordsBoundOnce` and `AcceptsWhatFits` for prototypes with a
  convenience variable behind "...", for which they are false.
* `Statements`: `EvaluatedByItsStatement`, `NeverEnds`, `NotSoonEnough`.  Its blocks
  are trees of any depth and its operators recursive over them; induction on a tree
  takes an operator that the provers cannot instantiate, and a module with a
  recursive operator is beyond the SMT backend.
* Liveness: `WaitReturns`.

## 5. What is not modelled, and the plan

* Parsing of text (`tokenize.cc`, most of `arg_script.cc`), quoting, redirection,
  numeric expansion, and the builtins that compute, print or configure: they are
  sequential algorithms on strings.
* Selections (`selection*.cc`, `read_dir.cc`): a recursive pattern matcher over
  the file system.
* `clock.*` and all statistics, which are only printed; `argv.*` and `rwshlib.*`,
  containers and conversions.
* Who owns a stream object: `Argm` and the parent and child links of
  `rwsh_stream.*`, and file streams.
* Calls with several parameters of `.rescope`, and the handlers that run after
  the check of variables at the end of the shell.

What would add most, in this order:

1. `StreamOwnership`: parent and child streams, who closes what,
   `.replace_exception` inside a handler.
2. Proofs of `CountMatches` and `CollectedWithinLimit` with catch blocks, from an
   invariant of what an excess that is remembered belongs to.
3. `Selection`: the pattern matcher against a reference definition.
4. An abstract session (prompt, line, shutdown) that `Shell` implements.
