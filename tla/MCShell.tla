------------------------------- MODULE MCShell -------------------------------
(***************************************************************************)
(* Values of the constants of Shell for model checking: what the scripts   *)
(* of each run may contain.  The functions named a, f, r and ".false" have *)
(* arbitrary bodies, so the handlers of the exceptions a and r may throw;  *)
(* b and g are defined nowhere.                                            *)
(***************************************************************************)
EXTENDS ShellProperties

HookNames == {".init", ".prompt", ".raw_command", ".shutdown",
              ".before_command", ".run_logic", ".after_command",
              ".autofunction", ".mapped_argfunction", ".for(body)", ".nop"}
MCNames == ShellExceptions \cup HookNames \cup {"a", "b", "f", "g", "r"}

Plain(what) == Command(what, ".nop", {}, FALSE)
CallF == CallOf("f")
ThrowA == ThrowOf("a")
ThrowB == ThrowOf("b")
ReplaceR == Command("replace", "r", {}, FALSE)
TryA == Command("try", ".nop", {"a"}, FALSE)
CollectExceptB == Command("collect", ".nop", {"b"}, TRUE)
CollectOnlyA == Command("collect", ".nop", {"a"}, FALSE)

\* Executables that do nothing: what main always runs, and the default
\* handler that not_found defines.
QuietHooks == {".init", ".prompt", ".raw_command", ".shutdown",
               ".function_not_found"}
Handlers == {"a", "f", "r"}

\* With the hooks of main around every statement.
HandlerCommands ==
  {CallF, ThrowA, ThrowB, ReplaceR, Plain("scope"), Plain("store"), Plain("exit")}
HookedFunctions == Handlers \cup {".before_command"}
HookedQuiet == QuietHooks \cup {".after_command"}

\* Every statement of main is run by .run_logic, in its place.
CollectFunctions == Handlers \cup {".run_logic"}
CollectCommands == {CallF, ThrowA, ThrowB, TryA, CollectExceptB, CollectOnlyA}
ControlCommands ==
  {CallF, ThrowA, ThrowOf(".break"), ThrowOf(".continue")} \cup
  {Plain(what) : what \in {"while", "for", "stepwise", "if", "else_if",
                           "else_if_not", "else"}}
ControlQuiet == QuietHooks \cup {"a"}

\* With an autofunction, which is run for g and what else is defined nowhere.
LimitCommands == {CallOf("g"), ThrowA, Plain("source"), Plain("exit")}
LimitFunctions == {"a", ".autofunction"}

=============================================================================
