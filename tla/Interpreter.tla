----------------------------- MODULE Interpreter -----------------------------
(***************************************************************************)
(* How the shell runs an executable: Base_executable::operator(),          *)
(* Executable_map::run, the bodies of functions and argument functions,    *)
(* the interpretation of a statement's arguments, and the exception        *)
(* handlers.                                                               *)
(*                                                                         *)
(* The C++ stack is the variable stack, its last member on top.  One kind  *)
(* of frame is the activation of operator() on an executable together with *)
(* the execute() that it calls; the others are activations of the helper   *)
(* routines that call an executable and go on when it returns.  The pc of  *)
(* a frame names the place where its routine is.                           *)
(*                                                                         *)
(* Which statement a script runs next is up to the script: it is chosen    *)
(* from the constant Commands.  What may go wrong with data (arguments,    *)
(* variables, files) is chosen from the constant Faults.                   *)
(***************************************************************************)
EXTENDS CallStack

CONSTANTS
  Commands,    \* the statements that scripts may contain
  Conditions,  \* the conditions that .while and .if may be given
  Functions,   \* names bound to functions with arbitrary bodies
  Quiet,       \* names bound to executables that do nothing
  Faults,      \* the faults of data that may occur
  Signals,     \* the exceptions of the signals that may arrive
  LineFuel     \* bound: statements, script lines, substitutions, faults and
               \* signals between two prompts

VARIABLES
  gs,       \* global_stack, with the live Error_lists
  gc,       \* gc_state
  inAuto,   \* executable_map.in_autofunction
  stack,    \* the activations
  fuel      \* what is left of LineFuel

vars == <<gs, gc, inAuto, stack, fuel>>

Kinds == {"call", "block", "throw", "exit", "replace", "collect", "try",
          "while", "for", "stepwise", "scope", "store", "if", "else_if",
          "else_if_not", "else", "source"}
HelperKinds == {"main", "substitution", "autofunction", "handler",
                "run_handling", "base_run", "run_if_exists", "catch_one"}

\* The places where a routine may be.
Places == {"aborted", "after", "arguments", "before", "body", "catch",
           "caught", "core", "done", "enter", "globals", "got", "init", "line",
           "more", "next", "prompt", "ran", "read", "register", "return",
           "second", "shutdown", "signal", "statement", "stored", "test",
           "tested", "unclosed", "unused"}

\* A statement after interpretation: what executable it names, the name it
\* calls or throws, the exceptions it lists, and .collect_errors_except
\* (logic TRUE) or .collect_errors_only (FALSE).
Command(what, name, names, logic) ==
  [what |-> what, name |-> name, names |-> names, logic |-> logic]
CommandType ==
  [what: Kinds, name: Names, names: SUBSET Names, logic: BOOLEAN]

CallOf(name) == Command("call", name, {}, FALSE)
ThrowOf(name) == Command("throw", name, {}, FALSE)
BlockOf(name) == Command("block", name, {}, FALSE)
Argfunction == BlockOf(".mapped_argfunction")

Defined == Functions \cup Quiet

FaultKinds == {"arguments", "undefined", "substitution", "unused",
               "incomplete", "malformed"}

ASSUME InterpreterAssumption ==
  /\ Commands \subseteq CommandType /\ Conditions \subseteq CommandType
  /\ Functions \subseteq Names /\ Quiet \subseteq Names
  /\ Faults \subseteq FaultKinds
  /\ Signals \subseteq Names \ {NoSignal}
  /\ LineFuel \in Nat
  /\ {".mapped_argfunction", ".for(body)", ".autofunction"} \subseteq Names
  /\ ".function_not_found" \in Defined  \* not_found defines it if need be

Conditionals == [in_if: BOOLEAN, success: BOOLEAN, thrown: BOOLEAN]

Frames ==
  [what: Kinds \cup HelperKinds,
   pc: Places,
   cmd: CommandType,     \* the command that this activation executes
   base: Nat,            \* where its Error_list starts
   stmt: CommandType,    \* the statement it is about to run
   mark: Nat,            \* length of errors when it last called an executable
   focus: Nat,           \* the exception that catch_blocks looks at
   prev: Nat,            \* previous_count
   dropped: Nat,         \* dropped_catches
   failed: SUBSET Names, \* failed_handlers
   flag: BOOLEAN]        \* unwind_stack_prev; end of input

Frame(what, pc, cmd, base) ==
  [what |-> what, pc |-> pc, cmd |-> cmd, base |-> base, stmt |-> cmd,
   mark |-> base, focus |-> base + 1, prev |-> 0, dropped |-> 0,
   failed |-> {}, flag |-> FALSE]

Top == stack[Len(stack)]
SetTop(f) == [stack EXCEPT ![Len(stack)] = f]
Goto(pc) == SetTop([Top EXCEPT !.pc = pc])
\* Calling an executable: mark notes the length of the lists at that time.
Calling(pc) == SetTop([Top EXCEPT !.pc = pc, !.mark = Len(gs.errors)])
Popped == SubSeq(stack, 1, Len(stack) - 1)

\* TRUE may be chosen only if the instance has that fault.
May(fault) == IF fault \in Faults THEN BOOLEAN ELSE {FALSE}
Spend == fuel > 0 /\ fuel' = fuel - 1

-----------------------------------------------------------------------------
\* Faulty variant: the limit is off by one.
CallOneDeeper(g, s, c) ==
  LET e == AddErrorIf(g.nesting > MaxNesting + 2, g, ".excessive_nesting")
  IN  IF e.unwind
      THEN gs' = e /\ stack' = s
      ELSE /\ gs' = [e EXCEPT !.nesting = @ + 1]
           /\ stack' = Append(s, Frame(c.what, "enter", c, Len(e.errors)))

\* Base_executable::operator() up to execute(): g and s are the state and the
\* stack of the caller.
Call(g, s, c) ==
  LET e == AddErrorIf(g.nesting > MaxNesting + 1, g, ".excessive_nesting")
  IN  IF e.unwind
      THEN gs' = e /\ stack' = s
      ELSE /\ gs' = [e EXCEPT !.nesting = @ + 1]
           /\ stack' = Append(s, Frame(c.what, "enter", c, Len(e.errors)))

\* Executable_map::run: find the executable, or try the autofunction once, or
\* report that it was not found.
Run(g, s, c) ==
  LET NotFound(h) == AddError(h, ".function_not_found")
  IN  \/ /\ c.what = "call" => c.name \in Defined
         /\ Call(g, s, c)
         /\ UNCHANGED inAuto
      \/ /\ c.what = "call" /\ c.name \notin Defined
         /\ inAuto
         /\ gs' = NotFound(g) /\ stack' = s
         /\ UNCHANGED inAuto
      \/ /\ c.what = "call" /\ c.name \notin Defined
         /\ ~inAuto /\ ".autofunction" \in Defined
         /\ inAuto' = TRUE
         /\ Call(g, Append(s, Frame("autofunction", "second", c,
                                    Len(g.errors))),
                 CallOf(".autofunction"))
      \/ /\ c.what = "call" /\ c.name \notin Defined
         /\ ~inAuto /\ ".autofunction" \notin Defined
         /\ gs' = NotFound(NotFound(g)) /\ stack' = s
         /\ UNCHANGED inAuto

\* Faulty variant: it only says that the autofunction is over if it was of use.
SecondLookupStillIn ==
  /\ Top.what = "autofunction"
  /\ \/ inAuto' = FALSE /\ Call(gs, Popped, Top.cmd)
     \/ /\ gs' = AddError(gs, ".function_not_found") /\ stack' = Popped
        /\ UNCHANGED inAuto
  /\ UNCHANGED <<gc, fuel>>

\* The second lookup, after the autofunction: it may have defined the name.
SecondLookup ==
  /\ Top.what = "autofunction"
  /\ inAuto' = FALSE
  /\ \/ Call(gs, Popped, Top.cmd)
     \/ gs' = AddError(gs, ".function_not_found") /\ stack' = Popped
  /\ UNCHANGED <<gc, fuel>>

\* The rest of operator(), after execute(): a signal caught meanwhile runs its
\* handler as part of this activation, then the exceptions go to the caller.
Return ==
  /\ Top.what \in Kinds /\ Top.pc = "return"
  /\ LET g == [gs EXCEPT !.nesting = @ - 1]
     IN  IF g.signal = NoSignal
         THEN gs' = g /\ stack' = Popped /\ UNCHANGED inAuto
         ELSE Run([g EXCEPT !.signal = NoSignal], Calling("signal"),
                  CallOf(g.signal))
  /\ UNCHANGED <<gc, fuel>>

SignalHandled ==
  /\ Top.what \in Kinds /\ Top.pc = "signal"
  /\ stack' = Popped
  /\ UNCHANGED <<gs, gc, inAuto, fuel>>

\* std::abort: nothing of the process is left.
Abort ==
  /\ gs' = InitialCallStack /\ inAuto' = FALSE
  /\ stack' = << Frame("main", "aborted", Argfunction, 0) >>

\* What an implementation does when it is through.
Finish(g) ==
  gs' = g /\ stack' = Goto("return") /\ UNCHANGED <<gc, inAuto, fuel>>

\* The handler of unix signals: the last signal to arrive is remembered.
CatchSignal ==
  /\ stack[1].pc \notin {"init", "register", "done", "aborted"}
  /\ \E s \in Signals : gs' = [gs EXCEPT !.signal = s]
  /\ Spend
  /\ UNCHANGED <<gc, inAuto, stack>>

-----------------------------------------------------------------------------
\* Functions and argument functions.

\* Function::execute and b_scope, by way of Command_block::prototype_execute
\* with its arg_to_param.
EnterFunction ==
  /\ Top.what \in {"call", "scope"} /\ Top.pc = "enter"
  /\ IF Top.what = "call" /\ Top.cmd.name \in Quiet
     THEN gs' = gs /\ stack' = Goto("return")
     ELSE \E bad \in May("arguments") :
            /\ gs' = AddErrorIf(bad, gs, ".bad_args")
            /\ stack' = Goto(IF bad THEN "unused" ELSE "statement")
  /\ UNCHANGED <<gc, inAuto, fuel>>

\* Builtin::execute, when the arguments do not match the prototype.
BadArguments ==
  /\ Top.what \in Kinds \ {"call", "block"} /\ Top.pc = "enter"
  /\ "arguments" \in Faults /\ Spend
  /\ gs' = AddError(gs, ".bad_args") /\ stack' = Goto("return")
  /\ UNCHANGED <<gc, inAuto>>

EnterBlock ==
  /\ Top.what = "block" /\ Top.pc = "enter"
  /\ stack' = Goto("statement")
  /\ UNCHANGED <<gs, gc, inAuto, fuel>>

Bodies == {"call", "scope", "block", "source"}
Interpreting == Bodies \cup {"collect", "stepwise", "main"}

\* Where a body goes when its last statement is done or is not to run: out of
\* prototype_execute through unused_var_check, out of the argument function,
\* or to the next line of the script.
BodyEnd == CASE Top.what \in {"call", "scope"} -> "unused"
             [] Top.what = "block" -> "return"
             [] Top.what = "source" -> "line"

\* The head of the loop in Command_block::execute.
NextStatement ==
  /\ Top.what \in Bodies /\ Top.pc = "statement"
  /\ \/ stack' = Goto(BodyEnd) /\ UNCHANGED fuel
     \/ /\ \E c \in Commands :
             stack' = SetTop([Top EXCEPT !.pc = "arguments", !.stmt = c])
        /\ Spend
  /\ UNCHANGED <<gs, gc, inAuto>>

\* Arg_script::interpret meets a substitution: evaluate_substitution_core
\* runs it with unwinding switched off.
Substitute ==
  /\ Top.what \in Interpreting /\ Top.pc = "arguments"
  /\ "substitution" \in Faults /\ Spend
  /\ Call([gs EXCEPT !.unwind = FALSE],
          Append(stack, [Frame("substitution", "ran", Argfunction,
                               Len(gs.errors)) EXCEPT !.flag = gs.unwind]),
          Argfunction)
  /\ UNCHANGED <<gc, inAuto>>

\* Faulty variant: only what was unwinding before is unwinding afterwards.
SubstitutedRestoring ==
  /\ Top.what = "substitution"
  /\ gs' = [AddErrorIf(gs.unwind, gs, ".failed_substitution")
              EXCEPT !.unwind = Top.flag]
  /\ stack' = Popped
  /\ UNCHANGED <<gc, inAuto, fuel>>

Substituted ==
  /\ Top.what = "substitution"
  /\ LET g == AddErrorIf(gs.unwind, gs, ".failed_substitution")
     IN  gs' = [g EXCEPT !.unwind = Top.flag \/ @]
  /\ stack' = Popped
  /\ UNCHANGED <<gc, inAuto, fuel>>

\* Bodies with local variables of their own.
Checking == Bodies \ {"block"}

\* Arg_script::interpret throws: the exception leaves the implementation, by
\* way of unused_var_check where a handler for it has been put, and is caught
\* in operator().
UndefinedVariable ==
  /\ Top.what \in Bodies /\ Top.pc = "arguments"
  /\ "undefined" \in Faults /\ Spend
  /\ \E unused \in May("unused") :
       LET g == AddErrorIf(unused /\ Top.what \in Checking, gs,
                           ".unused_variable")
       IN  gs' = AddError(g, ".undefined_variable")
  /\ stack' = Goto("return")
  /\ UNCHANGED <<gc, inAuto>>

\* Both tests of unwind_stack() in the loop of Command_block::execute.
RunStatement ==
  /\ Top.what \in Bodies /\ Top.pc = "arguments"
  /\ IF gs.unwind
     THEN stack' = Goto(BodyEnd) /\ UNCHANGED <<gs, inAuto>>
     ELSE Run(gs, Calling("ran"), Top.stmt)
  /\ UNCHANGED <<gc, fuel>>

AfterStatement ==
  /\ Top.what \in Bodies /\ Top.pc = "ran"
  /\ stack' = Goto(IF gs.unwind THEN BodyEnd ELSE "statement")
  /\ UNCHANGED <<gs, gc, inAuto, fuel>>

\* unused_var_check at the end of prototype_execute, b_source and b_stepwise.
UnusedVariables ==
  /\ Top.what \in Checking \cup {"stepwise"} /\ Top.pc = "unused"
  /\ \E unused \in May("unused") :
       Finish(AddErrorIf(unused, gs, ".unused_variable"))

-----------------------------------------------------------------------------
\* The routines that run exception handlers.

HandlerFrame(base) == Frame("handler", "next", Argfunction, base)

\* Faulty variant: the handlers are not said to be running.
StartHandlerUnsaid(g, s, base) ==
  /\ gs' = [g EXCEPT !.unwind = FALSE]
  /\ stack' = Append(s, HandlerFrame(base))

\* Call_stack::exception_handler, entered with the list that starts at base.
StartHandler(g, s, base) ==
  /\ gs' = [g EXCEPT !.inHandler = TRUE, !.unwind = FALSE]
  /\ stack' = Append(s, HandlerFrame(base))

\* The head of its loop: the front of the list is handled, or shown by
\* b_fallback_handler if a handler of that name has failed already.
HandleNext ==
  /\ Top.what = "handler" /\ Top.pc = "next"
  /\ Len(gs.errors) > Top.base
  /\ LET front == gs.errors[Top.base + 1]
     IN  IF front \in Top.failed
         THEN /\ gs' = RemoveError(gs, Top.base + 1)
              /\ UNCHANGED <<inAuto, stack>>
         ELSE Run(gs, SetTop([Top EXCEPT !.pc = "ran", !.prev = gs.count,
                                         !.stmt = CallOf(front),
                                         !.mark = Len(gs.errors)]),
                  CallOf(front))
  /\ UNCHANGED <<gc, fuel>>

\* Faulty variant: a handler has failed only if it is unwinding.
HandlerReturnedUncounted ==
  /\ Top.what = "handler" /\ Top.pc = "ran"
  /\ LET g == IF gs.unwind THEN [gs EXCEPT !.errors = LastToSecond(@, Top.base),
                                           !.unwind = FALSE]
              ELSE gs
     IN  /\ gs' = RemoveError(g, Top.base + 1)
         /\ stack' = SetTop([Top EXCEPT !.pc = "next",
                       !.failed = IF gs.unwind THEN @ \cup {Top.stmt.name}
                                  ELSE @])
  /\ UNCHANGED <<gc, inAuto, fuel>>

\* Its handler is back (stmt still names it, like the reference focus).  If it
\* failed, the exception is shown by the fallback handler and the one that was
\* thrown last comes next.
HandlerReturned ==
  /\ Top.what = "handler" /\ Top.pc = "ran"
  /\ LET front == Top.stmt.name
         fails == gs.unwind \/ gs.count > Top.prev
         g == IF fails THEN [gs EXCEPT !.errors = LastToSecond(@, Top.base),
                                       !.unwind = FALSE]
              ELSE gs
     IN  /\ gs' = RemoveError(g, Top.base + 1)
         /\ stack' = SetTop([Top EXCEPT !.pc = "next",
                               !.failed = IF fails THEN @ \cup {front} ELSE @])
  /\ UNCHANGED <<gc, inAuto, fuel>>

HandlersDone ==
  /\ Top.what = "handler" /\ Top.pc = "next"
  /\ Len(gs.errors) = Top.base
  /\ gs' = [gs EXCEPT !.collectExcess = FALSE, !.catchExcess = FALSE,
                      !.inHandler = FALSE]
  /\ stack' = Popped
  /\ UNCHANGED <<gc, inAuto, fuel>>

\* Executable_map::run_handling_exceptions and base_run: run, then handle.
RunHandling(g, s, what, base, c) ==
  Run(g, Append(s, [Frame(what, "ran", c, base)
                      EXCEPT !.mark = Len(g.errors)]), c)

\* Faulty variants: the exceptions are left pending; a chain of conditionals is
\* closed only when one threw.
RanHandlingUnhandled ==
  /\ Top.what \in {"run_handling", "base_run"}
  /\ stack' = Popped
  /\ UNCHANGED <<gs, gc, inAuto, fuel>>
RanHandlingOpen ==
  /\ Top.what \in {"run_handling", "base_run"}
  /\ LET unfinished == Top.what = "base_run" /\ gc.in_if /\ gc.thrown
         g == AddErrorIf(unfinished, gs, ".unfinished_if_block")
     IN  /\ gc' = [gc EXCEPT !.in_if = @ /\ ~unfinished]
         /\ IF g.unwind THEN StartHandler(g, Popped, Top.base)
            ELSE gs' = g /\ stack' = Popped
  /\ UNCHANGED <<inAuto, fuel>>

RanHandling ==
  /\ Top.what \in {"run_handling", "base_run"}
  /\ LET unfinished == Top.what = "base_run" /\ gc.in_if /\ ~gc.thrown
         g == AddErrorIf(unfinished, gs, ".unfinished_if_block")
     IN  /\ gc' = [gc EXCEPT !.in_if = @ /\ ~unfinished]
         /\ IF g.unwind THEN StartHandler(g, Popped, Top.base)
            ELSE gs' = g /\ stack' = Popped
  /\ UNCHANGED <<inAuto, fuel>>

\* Executable_map::run_if_exists: the executable has an Error_list of its own.
RunIfExists(g, s, name) ==
  IF name \in Defined
  THEN Call(g, Append(s, Frame("run_if_exists", "ran", CallOf(name),
                               Len(g.errors))),
            CallOf(name))
  ELSE gs' = g /\ stack' = s

\* Faulty variant: the exceptions of the executable are not handled.
RanIfExistsUnhandled ==
  /\ Top.what = "run_if_exists"
  /\ gs' = DestroyList(gs, Top.base) /\ stack' = Popped
  /\ UNCHANGED <<gc, inAuto, fuel>>

RanIfExists ==
  /\ Top.what = "run_if_exists"
  /\ IF gs.unwind THEN StartHandler(gs, Popped, Top.base)
     ELSE gs' = DestroyList(gs, Top.base) /\ stack' = Popped
  /\ UNCHANGED <<gc, inAuto, fuel>>

\* Call_stack::catch_one
CatchOne(g, s, c) ==
  Run([g EXCEPT !.inHandler = TRUE, !.unwind = FALSE],
      Append(s, Frame("catch_one", "ran", c, Len(g.errors))), c)

CaughtOne ==
  /\ Top.what = "catch_one"
  /\ gs' = [gs EXCEPT !.inHandler = FALSE, !.unwind = TRUE]
  /\ stack' = Popped
  /\ UNCHANGED <<gc, inAuto, fuel>>

InterpreterNext ==
  \/ SecondLookup \/ Return \/ SignalHandled \/ CatchSignal
  \/ EnterFunction \/ BadArguments \/ EnterBlock \/ NextStatement \/ Substitute
  \/ Substituted \/ UndefinedVariable \/ RunStatement \/ AfterStatement
  \/ UnusedVariables \/ HandleNext \/ HandlerReturned \/ HandlersDone
  \/ RanHandling \/ RanIfExists \/ CaughtOne

=============================================================================
