----------------------------- MODULE ControlFlow -----------------------------
(***************************************************************************)
(* The builtins of builtin.cc that throw, collect and catch exceptions,    *)
(* leave the shell, loop and choose, with the routines of call_stack.cc    *)
(* that they call.                                                         *)
(***************************************************************************)
EXTENDS Interpreter

-----------------------------------------------------------------------------
\* b_throw
Throw ==
  /\ Top.what = "throw" /\ Top.pc = "enter"
  /\ Finish(AddError(gs, Top.cmd.name))

\* b_exit, which may find that its argument is not a number
Exit ==
  /\ Top.what = "exit" /\ Top.pc = "enter"
  /\ \E bad \in May("arguments") :
       IF bad
       THEN gs' = AddError(gs, ".not_a_number") /\ UNCHANGED gc
       ELSE /\ gs' = RequestExit(gs)
            /\ gc' = [gc EXCEPT !.thrown = @ \/ gc.in_if]
  /\ stack' = Goto("return")
  /\ UNCHANGED <<inAuto, fuel>>

\* b_replace_exception
Replace ==
  /\ Top.what = "replace" /\ Top.pc = "enter"
  /\ Finish(IF gs.inHandler THEN ReplaceError(gs, Top.cmd.name)
            ELSE AddError(gs, ".not_catching_exception"))

-----------------------------------------------------------------------------
\* b_collect_errors_except and b_collect_errors_only: collect_errors_core.
\* Each statement has a list of its own, which starts at mark.

EnterCollect ==
  /\ Top.what = "collect" /\ Top.pc = "enter"
  /\ stack' = Goto("next")
  /\ UNCHANGED <<gs, gc, inAuto, fuel>>

\* Faulty variant: the limit is off by one.
CollectNextOneMore ==
  /\ Top.what = "collect" /\ Top.pc = "next"
  /\ gs.count <= MaxCollect + 1
  /\ \E c \in Commands :
       stack' = SetTop([Top EXCEPT !.pc = "arguments", !.stmt = c,
                                   !.mark = Len(gs.errors)])
  /\ Spend
  /\ UNCHANGED <<gs, gc, inAuto>>

\* The head of the loop over the statements of the argument function.
CollectNext ==
  /\ Top.what = "collect" /\ Top.pc = "next"
  /\ gs.count <= MaxCollect
  /\ \E c \in Commands :
       stack' = SetTop([Top EXCEPT !.pc = "arguments", !.stmt = c,
                                   !.mark = Len(gs.errors)])
  /\ Spend
  /\ UNCHANGED <<gs, gc, inAuto>>

CollectExcess ==
  /\ Top.what = "collect" /\ Top.pc = "next"
  /\ gs.count > MaxCollect /\ Spend   \* there was another statement
  /\ gs' = [AddErrorIf(~gs.collectExcess, gs,
                       ".excessive_exceptions_collected")
              EXCEPT !.unwind = TRUE, !.collectExcess = TRUE]
  /\ stack' = Goto("return")
  /\ UNCHANGED <<gc, inAuto>>

CollectEnd ==
  /\ Top.what = "collect" /\ Top.pc = "next"
  /\ Finish([gs EXCEPT !.unwind = @ \/ Len(gs.errors) > Top.base])

\* interpret() throws past the list of this statement.
CollectUndefined ==
  /\ Top.what = "collect" /\ Top.pc = "arguments"
  /\ "undefined" \in Faults /\ Spend
  /\ gs' = AddError(DestroyList(gs, Top.mark), ".undefined_variable")
  /\ stack' = Goto("return")
  /\ UNCHANGED <<gc, inAuto>>

CollectRun ==
  /\ Top.what = "collect" /\ Top.pc = "arguments"
  /\ IF gs.unwind THEN stack' = Goto("ran") /\ UNCHANGED <<gs, inAuto>>
     ELSE Run(gs, Goto("ran"), Top.stmt)
  /\ UNCHANGED <<gc, fuel>>

CollectRan ==
  /\ Top.what = "collect" /\ Top.pc = "ran"
  /\ LET new == Top.mark + 1 .. Len(gs.errors)
         stops == \E i \in new :
                    Top.cmd.logic = (gs.errors[i] \in Top.cmd.names)
     IN  gs' = IF new = {} THEN gs ELSE [gs EXCEPT !.unwind = stops]
  /\ stack' = Goto("next")
  /\ UNCHANGED <<gc, inAuto, fuel>>

-----------------------------------------------------------------------------
\* b_try_catch_recursive, and catch_blocks over the exceptions of its body.

Try ==
  /\ Top.what = "try" /\ Top.pc = "enter"
  /\ Call(gs, Calling("body"), Argfunction)
  /\ UNCHANGED <<gc, inAuto, fuel>>

TryReturned ==
  /\ Top.what = "try" /\ Top.pc = "body"
  /\ stack' = Goto(IF gs.unwind THEN "catch" ELSE "return")
  /\ UNCHANGED <<gs, gc, inAuto, fuel>>

\* The exceptions from focus on that the caller asked for.
Caught == {i \in Top.focus .. Len(gs.errors) : gs.errors[i] \in Top.cmd.names}
FirstCaught == CHOOSE i \in Caught : \A j \in Caught : i <= j

CatchNext ==
  /\ Top.what = "try" /\ Top.pc = "catch"
  /\ Caught # {} /\ Top.dropped < MaxExtra
  /\ Run([gs EXCEPT !.inHandler = TRUE, !.unwind = FALSE],
         SetTop([Top EXCEPT !.pc = "caught", !.focus = FirstCaught,
                            !.prev = gs.count, !.mark = Len(gs.errors)]),
         CallOf(gs.errors[FirstCaught]))
  /\ UNCHANGED <<gc, fuel>>

\* Faulty variant: the handler is said to be still running.
CatchReturnedInHandler ==
  /\ Top.what = "try" /\ Top.pc = "caught"
  /\ gs' = IF gs.unwind THEN gs ELSE RemoveError(gs, Top.focus)
  /\ stack' = SetTop([Top EXCEPT
       !.pc = "catch",
       !.focus = IF gs.unwind THEN @ + 1 ELSE @,
       !.dropped = Counted(@ + gs.count - Top.prev)])
  /\ UNCHANGED <<gc, inAuto, fuel>>

CatchReturned ==
  /\ Top.what = "try" /\ Top.pc = "caught"
  /\ LET g == [gs EXCEPT !.inHandler = FALSE]
     IN  gs' = IF g.unwind THEN g ELSE RemoveError(g, Top.focus)
  /\ stack' = SetTop([Top EXCEPT
       !.pc = "catch",
       !.focus = IF gs.unwind THEN @ + 1 ELSE @,
       !.dropped = Counted(@ + gs.count - Top.prev)])
  /\ UNCHANGED <<gc, inAuto, fuel>>

\* Faulty variant: every routine that meets the excess reports it.
CatchExcessAgain ==
  /\ Top.what = "try" /\ Top.pc = "catch"
  /\ Caught # {} /\ Top.dropped >= MaxExtra
  /\ Finish([AddError(gs, ".excessive_exceptions_in_catch")
               EXCEPT !.catchExcess = TRUE])

CatchExcess ==
  /\ Top.what = "try" /\ Top.pc = "catch"
  /\ Caught # {} /\ Top.dropped >= MaxExtra
  /\ Finish([AddErrorIf(~gs.catchExcess, gs, ".excessive_exceptions_in_catch")
               EXCEPT !.catchExcess = TRUE])

CatchDone ==
  /\ Top.what = "try" /\ Top.pc = "catch"
  /\ Caught = {}
  /\ Finish([gs EXCEPT !.unwind = gs.count > 0 \/ gs.exit,
                       !.inHandler = FALSE])

-----------------------------------------------------------------------------
\* Loops.  A condition either throws .false or is one of Conditions; that an
\* instance always has .false at hand lets its loops end.

ChooseCondition(c) ==
  \/ c = ThrowOf(".false") /\ UNCHANGED fuel
  \/ c \in Conditions /\ Spend

\* Executable_map::run_condition, after run: what it returns and what it does.
ConditionHolds == Len(gs.errors) = Top.base
AfterCondition == RemoveExceptions(gs, Top.base, ".false")

\* b_while, entered or back from its body
WhileTest ==
  /\ Top.what = "while" /\ Top.pc \in {"enter", "test"}
  /\ \E c \in Conditions \cup {ThrowOf(".false")} :
       ChooseCondition(c) /\ Run(gs, Calling("tested"), c)
  /\ UNCHANGED gc

WhileTested ==
  /\ Top.what = "while" /\ Top.pc = "tested"
  /\ IF ConditionHolds THEN Call(AfterCondition, Calling("body"), Argfunction)
     ELSE gs' = AfterCondition /\ stack' = Goto("return")
  /\ UNCHANGED <<gc, inAuto, fuel>>

\* b_for and b_for_each_line: one more argument or line, or none.
ForNext ==
  /\ Top.what = "for" /\ Top.pc \in {"enter", "test"}
  /\ Call(gs, Calling("body"), CallOf(".for(body)"))
  /\ Spend
  /\ UNCHANGED <<gc, inAuto>>

ForEnd ==
  /\ Top.what = "for" /\ Top.pc \in {"enter", "test"}
  /\ Finish(gs)

\* b_stepwise: the statements of a function's body are interpreted here, and
\* the argument function is called with each.
EnterStepwise ==
  /\ Top.what = "stepwise" /\ Top.pc = "enter"
  /\ \/ \E pc \in {"test", "return"} :   \* "return" if it is not a Function
          stack' = Goto(pc) /\ gs' = gs
     \/ \E name \in {".bad_args", ".function_not_found"} :
          /\ TRUE \in May("arguments")
          /\ gs' = AddError(gs, name)
          /\ stack' = Goto(IF name = ".bad_args" THEN "unused" ELSE "return")
  /\ UNCHANGED <<gc, inAuto, fuel>>

\* An exception leaves b_stepwise past its local variables: the constructor of
\* the body's Function throws, or interpret() does.  As nobody has checked how
\* those variables were used, ~Variable_map ends the process.
StepwiseAborts ==
  /\ Top.what = "stepwise"
  /\ \/ Top.pc = "enter" /\ "arguments" \in Faults
     \/ Top.pc = "arguments" /\ "undefined" \in Faults
  /\ Spend /\ Abort
  /\ UNCHANGED gc

StepwiseNext ==
  /\ Top.what = "stepwise" /\ Top.pc = "test"
  /\ \/ stack' = Goto("unused") /\ UNCHANGED fuel
     \/ stack' = Goto("arguments") /\ Spend
  /\ UNCHANGED <<gs, gc, inAuto>>

StepwiseRun ==
  /\ Top.what = "stepwise" /\ Top.pc = "arguments"
  /\ IF gs.unwind THEN stack' = Goto("unused") /\ gs' = gs
     ELSE Call(gs, Calling("body"), CallOf(".for(body)"))
  /\ UNCHANGED <<gc, inAuto, fuel>>

\* The end of the body of each loop.
Loops == {"while", "for", "stepwise"}
LoopReturned ==
  /\ Top.what \in Loops /\ Top.pc = "body"
  /\ LET g == RemoveExceptions(gs, Top.base, ".continue")
         h == RemoveExceptions(g, Top.base, ".break")
         end == IF Top.what = "stepwise" THEN "unused" ELSE "return"
     IN  /\ gs' = h
         /\ stack' = Goto(IF Contains(g, Top.base, ".break") \/ h.unwind
                          THEN end ELSE "test")
  /\ UNCHANGED <<gc, inAuto, fuel>>

\* b_store_output: the argument function is run, with its output redirected.
Store ==
  /\ Top.what = "store" /\ Top.pc = "enter"
  /\ Call(gs, Calling("stored"), Argfunction)
  /\ UNCHANGED <<gc, inAuto, fuel>>

\* The variable is set unless something was thrown.  It may be declared
\* nowhere, or its value may be one that nobody has read.
Stored ==
  /\ Top.what = "store" /\ Top.pc = "stored"
  /\ \/ Finish(gs)
     \/ /\ ~gs.unwind /\ "arguments" \in Faults
        /\ \E name \in {".undeclared_variable", ".unused_before_set"} :
             Finish(AddError(gs, name))

-----------------------------------------------------------------------------
\* b_if, b_else_if, b_else_if_not and b_else, which share if_core.

IfKinds == {"if", "else_if", "else_if_not", "else"}

\* if_core returns to the builtin.
IfDone(c) ==
  gc' = IF Top.what = "else" THEN [c EXCEPT !.success = FALSE, !.in_if = FALSE]
        ELSE c

\* An exception leaves if_core: the builtin passes it on to operator().
IfThrows(g, c, name) ==
  /\ gs' = AddError(g, name)
  /\ gc' = IF Top.what = "else"
           THEN [c EXCEPT !.success = FALSE, !.in_if = FALSE]
           ELSE [c EXCEPT !.thrown = TRUE]
  /\ stack' = Goto("return")

\* The builtins up to the call of if_core.
EnterIf ==
  /\ Top.what \in IfKinds /\ Top.pc = "enter"
  /\ \/ /\ Top.what = "if" /\ ~gc.thrown /\ gc.in_if
        /\ IfThrows(gs, gc, ".if_before_else")
     \/ /\ Top.what = "if" /\ (gc.thrown \/ ~gc.in_if)
        /\ gc' = [in_if |-> TRUE, success |-> gc.success /\ ~gc.thrown,
                  thrown |-> FALSE]
        /\ gs' = gs /\ stack' = Goto("core")
     \/ /\ Top.what # "if" /\ gc.thrown
        /\ IfDone([gc EXCEPT !.thrown = Top.what # "else"])
        /\ gs' = gs /\ stack' = Goto("return")
     \/ /\ Top.what # "if" /\ ~gc.thrown
        /\ gs' = gs /\ gc' = gc /\ stack' = Goto("core")
  /\ UNCHANGED <<inAuto, fuel>>

\* if_core up to the condition, or for .else to the argument function.
IfCore ==
  /\ Top.what \in IfKinds /\ Top.pc = "core"
  /\ \/ /\ ~gc.in_if
        /\ IfThrows(gs, gc, ".else_without_if")
        /\ UNCHANGED <<inAuto, fuel>>
     \/ /\ gc.in_if /\ gc.success
        /\ IfDone(gc)
        /\ gs' = gs /\ stack' = Goto("return")
        /\ UNCHANGED <<inAuto, fuel>>
     \/ /\ gc.in_if /\ ~gc.success
        /\ gc' = [gc EXCEPT !.in_if = FALSE]
        /\ IF Top.what = "else"
           THEN Call(gs, Calling("body"), Argfunction) /\ UNCHANGED <<inAuto, fuel>>
           ELSE \E c \in Conditions \cup {ThrowOf(".false")} :
                  ChooseCondition(c) /\ Run(gs, Calling("tested"), c)

\* The condition has run.  run says whether the argument function is to run.
IfTested ==
  /\ Top.what \in IfKinds /\ Top.pc = "tested"
  /\ LET logic == Top.what # "else_if_not"
         run == logic = ConditionHolds
         g == AfterCondition
     IN  \/ /\ g.unwind
            /\ gc' = [gc EXCEPT !.in_if = TRUE, !.thrown = TRUE]
            /\ gs' = g /\ stack' = Goto("return")
         \/ /\ ~g.unwind /\ gc.in_if /\ logic = run
            /\ IfThrows(g, [gc EXCEPT !.in_if = FALSE, !.thrown = FALSE],
                        ".bad_if_nest")
         \/ /\ ~g.unwind /\ ~(gc.in_if /\ logic = run)
            /\ LET c == [gc EXCEPT !.in_if = FALSE,
                                   !.thrown = @ /\ ~gc.in_if]
               IN  IF run
                   THEN gc' = c /\ Call(g, Calling("body"), Argfunction)
                   ELSE /\ gc' = [c EXCEPT !.in_if = TRUE]
                        /\ gs' = g /\ stack' = Goto("return")
  /\ UNCHANGED <<inAuto, fuel>>

\* Faulty variant: exceptions of the argument function do not get out.
IfReturnedQuietly ==
  /\ Top.what \in IfKinds /\ Top.pc = "body"
  /\ gs' = [gs EXCEPT !.unwind = FALSE] /\ stack' = Goto("return")
  /\ IfDone([in_if |-> TRUE, success |-> TRUE, thrown |-> FALSE])
  /\ UNCHANGED <<inAuto, fuel>>

\* The argument function has run.
IfReturned ==
  /\ Top.what \in IfKinds /\ Top.pc = "body"
  /\ \/ /\ gs.unwind
        /\ IfDone([gc EXCEPT !.in_if = TRUE, !.thrown = Top.what # "else"])
        /\ gs' = gs /\ stack' = Goto("return")
     \/ /\ ~gs.unwind /\ gc.in_if /\ ~gc.thrown
        /\ IfThrows(gs, gc, ".bad_if_nest")
     \/ /\ ~gs.unwind /\ ~(gc.in_if /\ ~gc.thrown)
        /\ IfDone([in_if |-> TRUE, success |-> TRUE, thrown |-> FALSE])
        /\ gs' = gs /\ stack' = Goto("return")
  /\ UNCHANGED <<inAuto, fuel>>

ControlFlowNext ==
  \/ Throw \/ Exit \/ Replace
  \/ EnterCollect \/ CollectNext \/ CollectExcess \/ CollectEnd
  \/ CollectUndefined \/ CollectRun \/ CollectRan
  \/ Try \/ TryReturned \/ CatchNext \/ CatchReturned \/ CatchExcess
  \/ CatchDone
  \/ WhileTest \/ WhileTested \/ ForNext \/ ForEnd
  \/ EnterStepwise \/ StepwiseAborts \/ StepwiseNext \/ StepwiseRun
  \/ LoopReturned
  \/ Store \/ Stored
  \/ EnterIf \/ IfCore \/ IfTested \/ IfReturned

=============================================================================
