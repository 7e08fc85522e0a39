-------------------------------- MODULE Shell --------------------------------
(***************************************************************************)
(* The shell: main (rwsh.cc) reads lines and runs their statements, and    *)
(* b_source does the same with a script; both read by way of               *)
(* Command_stream::getline.  The specification of the whole machine and    *)
(* the properties that the runs check.                                     *)
(***************************************************************************)
EXTENDS ControlFlow

ASSUME ShellAssumption ==
  {".init", ".prompt", ".raw_command", ".shutdown", ".before_command",
   ".run_logic", ".after_command"} \subseteq Names

\* Command_stream::fail: exit_requested, or the end of the input was met.
Fails == gs.exit \/ Top.flag

-----------------------------------------------------------------------------
\* Command_stream::getline, which reads into the frame of its caller.  At pc
\* "more" the command read so far is incomplete.  It goes on at pc "got".

RawCommand == CallOf(".raw_command")
\* The lines of a script count against the bound, those of the user do not.
LineRead == IF Top.what = "source" THEN Spend ELSE UNCHANGED fuel
ReadingLine == Top.what \in {"main", "source"} /\ Top.pc \in {"read", "more"}

GetlineFails ==
  /\ ReadingLine /\ Top.pc = "read" /\ Fails
  /\ stack' = Goto("got")
  /\ UNCHANGED <<gs, gc, inAuto, fuel>>

GetlineEnd ==
  /\ ReadingLine /\ ~Fails
  /\ IF Top.pc = "read"
     THEN /\ gs' = Reset(gs, Top.base)
          /\ stack' = SetTop([Top EXCEPT !.pc = "got", !.flag = TRUE])
          /\ UNCHANGED inAuto
     ELSE RunHandling(Reset(gs, Top.base),
                      SetTop([Top EXCEPT !.pc = "unclosed", !.flag = TRUE]),
                      "run_handling", Top.base, RawCommand)
  /\ UNCHANGED <<gc, fuel>>

\* The end of the input in the middle of a command.
GetlineUnclosed ==
  /\ Top.what \in {"main", "source"} /\ Top.pc = "unclosed"
  /\ gs' = AddError(gs, ".unclosed_brace")
  /\ stack' = Goto("got")
  /\ UNCHANGED <<gc, inAuto, fuel>>

\* The line does not complete the command: .unclosed_brace is added to the
\* list and removed from it again, and the next line is read.
GetlineIncomplete ==
  /\ ReadingLine /\ ~Fails /\ "incomplete" \in Faults
  /\ gs' = RemoveExceptions(AddError(Reset(gs, Top.base), ".unclosed_brace"),
                            Top.base, ".unclosed_brace")
  /\ stack' = Goto("more")
  /\ Spend
  /\ UNCHANGED <<gc, inAuto>>

GetlineMalformed ==
  /\ ReadingLine /\ ~Fails /\ "malformed" \in Faults
  /\ CatchOne(AddError(Reset(gs, Top.base), ".mismatched_brace"),
              Goto("got"), RawCommand)
  /\ LineRead
  /\ UNCHANGED gc

GetlineComplete ==
  /\ ReadingLine /\ ~Fails
  /\ RunHandling(Reset(gs, Top.base), Goto("got"), "run_handling", Top.base,
                 RawCommand)
  /\ LineRead
  /\ UNCHANGED gc

-----------------------------------------------------------------------------
\* b_source.  Its lines are statements of its own body.

EnterSource ==
  /\ Top.what = "source" /\ Top.pc = "enter"
  /\ \/ stack' = Goto("line") /\ gs' = gs
     \/ \E bad \in May("arguments") :    \* stat or the mode of the script says no
          /\ bad
          /\ gs' = AddError(gs, ".file_open_failure")
          /\ stack' = Goto("return")
  /\ UNCHANGED <<gc, inAuto, fuel>>

SourceLine ==
  /\ Top.what = "source" /\ Top.pc = "line"
  /\ stack' = Goto(IF Fails \/ gs.unwind THEN "unused" ELSE "read")
  /\ UNCHANGED <<gs, gc, inAuto, fuel>>

SourceGot ==
  /\ Top.what = "source" /\ Top.pc = "got"
  /\ stack' = Goto(IF Fails THEN "unused" ELSE "statement")
  /\ UNCHANGED <<gs, gc, inAuto, fuel>>

-----------------------------------------------------------------------------
\* main.

MainInit ==
  /\ Top.what = "main" /\ Top.pc = "init"
  /\ RunHandling(gs, Goto("register"), "base_run", Top.base, CallOf(".init"))
  /\ UNCHANGED <<gc, fuel>>

\* register_signals
MainRegister ==
  /\ Top.what = "main" /\ Top.pc = "register"
  /\ stack' = Goto("prompt")
  /\ UNCHANGED <<gs, gc, inAuto, fuel>>

\* The head of the loop over lines.  Every line gets its own fuel.
MainPrompt ==
  /\ Top.what = "main" /\ Top.pc = "prompt"
  /\ IF Fails THEN stack' = Goto("shutdown") /\ UNCHANGED <<gs, inAuto>>
     ELSE RunHandling(gs, Goto("read"), "base_run", Top.base,
                      CallOf(".prompt"))
  /\ fuel' = LineFuel
  /\ UNCHANGED gc

MainGot ==
  /\ Top.what = "main" /\ Top.pc = "got"
  /\ IF gs.errors # << >> THEN StartHandler(gs, Goto("prompt"), Top.base)
     ELSE /\ stack' = Goto(IF Fails THEN "shutdown" ELSE "statement")
          /\ UNCHANGED gs
  /\ UNCHANGED <<gc, inAuto, fuel>>

\* The head of the loop over the statements of the line.
MainStatement ==
  /\ Top.what = "main" /\ Top.pc = "statement"
  /\ \/ stack' = Goto("prompt") /\ UNCHANGED fuel
     \/ /\ \E c \in Commands :
             stack' = SetTop([Top EXCEPT !.pc = "arguments", !.stmt = c])
        /\ Spend
  /\ UNCHANGED <<gs, gc, inAuto>>

\* The arguments of the statement are interpreted.  If that throws, the
\* exception takes the place of the statement.
MainInterpreted ==
  /\ Top.what = "main" /\ Top.pc = "arguments"
  /\ \E undefined \in {FALSE} \cup {"undefined" \in Faults} :
       LET c == IF undefined THEN CallOf(".undefined_variable") ELSE Top.stmt
       IN  RunIfExists(gs, SetTop([Top EXCEPT !.pc = "before", !.stmt = c]),
                       ".before_command")
  /\ UNCHANGED <<gc, inAuto, fuel>>

MainRun ==
  /\ Top.what = "main" /\ Top.pc = "before"
  /\ IF gs.errors # << >>
     THEN StartHandler(gs, Goto("after"), Top.base) /\ UNCHANGED inAuto
     ELSE IF ".run_logic" \in Defined
     THEN RunIfExists(gs, Goto("after"), ".run_logic") /\ UNCHANGED inAuto
     ELSE RunHandling(gs, Goto("after"), "base_run", Top.base, Top.stmt)
  /\ UNCHANGED <<gc, fuel>>

MainAfter ==
  /\ Top.what = "main" /\ Top.pc = "after"
  /\ RunIfExists(gs, Goto("statement"), ".after_command")
  /\ UNCHANGED <<gc, inAuto, fuel>>

MainShutdown ==
  /\ Top.what = "main" /\ Top.pc = "shutdown"
  /\ RunHandling(gs, Goto("globals"), "base_run", Top.base,
                 CallOf(".shutdown"))
  /\ UNCHANGED <<gc, fuel>>

\* unused_var_check_at_exit, whose Error_list is its own
MainGlobals ==
  /\ Top.what = "main" /\ Top.pc = "globals"
  /\ \E unused \in May("unused") :
       IF unused
       THEN StartHandler(AddError(gs, ".unused_variable"), Goto("done"),
                         Len(gs.errors))
       ELSE gs' = gs /\ stack' = Goto("done")
  /\ UNCHANGED <<gc, inAuto, fuel>>

Terminated == Top.what = "main" /\ Top.pc \in {"done", "aborted"}

-----------------------------------------------------------------------------
Init ==
  /\ gs = InitialCallStack
  /\ gc = [in_if |-> FALSE, success |-> FALSE, thrown |-> FALSE]
  /\ inAuto = FALSE
  /\ stack = << Frame("main", "init", Argfunction, 0) >>
  /\ fuel = LineFuel

ShellNext ==
  \/ GetlineFails \/ GetlineEnd \/ GetlineUnclosed \/ GetlineIncomplete
  \/ GetlineMalformed \/ GetlineComplete
  \/ EnterSource \/ SourceLine \/ SourceGot
  \/ MainInit \/ MainRegister \/ MainPrompt \/ MainGot \/ MainStatement \/ MainInterpreted
  \/ MainRun \/ MainAfter \/ MainShutdown \/ MainGlobals

Next ==
  \/ InterpreterNext
  \/ ControlFlowNext
  \/ ShellNext
  \/ Terminated /\ UNCHANGED vars

Spec == Init /\ [][Next]_vars

=============================================================================
