--------------------------- MODULE ExecutableMap ---------------------------
(***************************************************************************)
(* The map of executables (executable_map.cc) and the life of what is in   *)
(* it.  A script may define a function again or remove it while the        *)
(* function runs, also several times over and from the handler of a        *)
(* signal; then the last activation of the old one deletes it.             *)
(*                                                                         *)
(* What a function does is left open: the top frame may run, define and    *)
(* remove whatever it likes, and return at any time, with exceptions or    *)
(* without.  Prototypes, arguments, statistics and output are left out.    *)
(***************************************************************************)
EXTENDS Naturals, Sequences

CONSTANTS
  Names,             \* names of functions and binaries
  BuiltinNames,      \* names under which builtins are registered
  Autofunction,      \* what is run when a name is not found, and what if it
  FunctionNotFound,  \* is not found after that either
  Objects,           \* where an executable may be allocated
  None,
  MaxDepth           \* bound on the frames of the C++ stack

AllNames == Names \cup BuiltinNames

ASSUME NamesAssumption ==
  /\ {Autofunction, FunctionNotFound} \subseteq Names
  /\ Autofunction # FunctionNotFound
  /\ Names \cap BuiltinNames = {}
  /\ None \notin Objects \cup AllNames
ASSUME DepthAssumption == MaxDepth \in Nat

VARIABLES
  map,             \* Executable_map: the executable with a name
  object,          \* the memory of the executables
  stack,           \* who is running, the last of which has control
  in_autofunction  \* Executable_map::in_autofunction

vars == <<map, object, stack, in_autofunction>>

-----------------------------------------------------------------------------
\* Executables and frames.

Kinds == {"function", "binary", "builtin"}

\* Base_executable, its name and its class.  A place without one is Free.
Free == [kind |-> "free", name |-> None, executable_nesting |-> 0,
         del_on_term |-> FALSE]
New(kind, n) == [kind |-> kind, name |-> n, executable_nesting |-> 0,
                 del_on_term |-> FALSE]

FreePlaces == {o \in Objects : object[o].kind = "free"}
IsKind(n, kind) == map[n] # None /\ object[map[n]].kind = kind
is_running(e) == e.executable_nesting > 0

\* One frame for each activation of an executable of the map ("run"), of the
\* function that .stepwise has made of its argument function ("body"), of
\* .stepwise itself, and of Executable_map::run while it waits for the
\* autofunction.  "tail" is the end of operator(), where signals are handled.
RunFrame(o) == [kind |-> "run", obj |-> o, name |-> None, pc |-> "execute"]
WaitFrame(n) == [kind |-> "wait", obj |-> None, name |-> n, pc |-> "execute"]
StepFrame(o) == [kind |-> "stepwise", obj |-> o, name |-> None,
                 pc |-> "execute"]
BodyFrame == [kind |-> "body", obj |-> None, name |-> None, pc |-> "execute"]

Frames == [kind : {"run", "wait", "stepwise", "body"},
           obj : Objects \cup {None}, name : AllNames \cup {None},
           pc : {"execute", "tail"}]

Top == stack[Len(stack)]
Callers == SubSeq(stack, 1, Len(stack) - 1)
TopIs(kind) == stack # << >> /\ Top.kind = kind

\* A statement of a script, or of the main loop, is about to run.  A binary
\* runs none, and at the end of operator() only the handler of a signal is.
InScript ==
  \/ stack = << >>
  \/ TopIs("body")
  \/ TopIs("run") /\ Top.pc = "execute" /\ object[Top.obj].kind # "binary"

-----------------------------------------------------------------------------
\* Entries of the map.

\* What becomes of an executable that no name stands for any more.
Dropped(e) == IF is_running(e) THEN [e EXCEPT !.del_on_term = TRUE] ELSE Free

\* Faulty variant: what the name stood for is not dropped.
SetWithoutDropping(n, o, kind) ==
  /\ map' = [map EXCEPT ![n] = o]
  /\ object' = [object EXCEPT ![o] = New(kind, n)]

\* Executable_map::set, of an executable that has just been allocated at o.
Set(n, o, kind) ==
  /\ map' = [map EXCEPT ![n] = o]
  /\ object' = [x \in Objects |-> IF x = o THEN New(kind, n)
                                  ELSE IF x = map[n] THEN Dropped(object[x])
                                  ELSE object[x]]

\* Faulty variant: the name still finds it.
EraseLeavingName(n) ==
  /\ UNCHANGED map
  /\ object' = [object EXCEPT ![map[n]] = Dropped(@)]

\* Executable_map::erase, of a name that is in the map.
Erase(n) ==
  /\ map' = [map EXCEPT ![n] = None]
  /\ object' = [object EXCEPT ![map[n]] = Dropped(@)]

\* Executable_map::not_found gives the shell a handler for this exception,
\* unless it has one, and throws it.
not_found ==
  IF map[FunctionNotFound] # None THEN UNCHANGED <<map, object>>
  ELSE \E o \in FreePlaces : Set(FunctionNotFound, o, "function")

-----------------------------------------------------------------------------
\* Running.

\* Faulty variant: the nesting is not counted.
EnterUncounted(base, o) ==
  /\ Len(base) < MaxDepth
  /\ stack' = Append(base, RunFrame(o))
  /\ UNCHANGED object

\* Base_executable::operator(), up to execute().
Enter(base, o) ==
  /\ Len(base) < MaxDepth
  /\ stack' = Append(base, RunFrame(o))
  /\ object' = [object EXCEPT ![o].executable_nesting = @ + 1]

\* Executable_map::run, called by the last frame of base.
Run(base, n) ==
  \/ /\ map[n] # None
     /\ Enter(base, map[n])
     /\ UNCHANGED <<map, in_autofunction>>
  \/ /\ map[n] = None
     /\ in_autofunction
     /\ not_found
     /\ stack' = base
     /\ UNCHANGED in_autofunction
  \/ /\ map[n] = None
     /\ ~in_autofunction
     /\ Len(base) < MaxDepth
     /\ in_autofunction' = TRUE
     /\ LET waiting == Append(base, WaitFrame(n))
        IN  IF map[Autofunction] # None
            THEN Enter(waiting, map[Autofunction]) /\ UNCHANGED map
            ELSE not_found /\ stack' = waiting

Call(n) == InScript /\ Run(stack, n)

\* The second look after the autofunction: it may have defined the name.  If the
\* shell is unwinding by then operator() returns at once.
Found ==
  /\ TopIs("wait")
  /\ map[Top.name] # None
  /\ in_autofunction' = FALSE
  /\ \/ Enter(Callers, map[Top.name])
     \/ stack' = Callers /\ UNCHANGED object
  /\ UNCHANGED map

NotFound ==
  /\ TopIs("wait")
  /\ map[Top.name] = None
  /\ in_autofunction' = FALSE
  /\ not_found
  /\ stack' = Callers

\* A signal has come while the executable ran: its handler runs at the end of
\* operator(), while the executable still counts as running.
HandleSignal(n) ==
  /\ TopIs("run")
  /\ Top.pc = "execute"
  /\ Run([stack EXCEPT ![Len(stack)].pc = "tail"], n)

\* Faulty variant: every activation deletes what is to be deleted.
LeaveDeleting ==
  /\ TopIs("run")
  /\ LET e == object[Top.obj]
     IN  object' = [object EXCEPT ![Top.obj] =
           IF e.del_on_term THEN Free
           ELSE [e EXCEPT !.executable_nesting = @ - 1]]
  /\ stack' = Callers
  /\ UNCHANGED <<map, in_autofunction>>

\* The end of Base_executable::operator().
Leave ==
  /\ TopIs("run")
  /\ LET e == object[Top.obj]
         left == [e EXCEPT !.executable_nesting = @ - 1]
     IN  object' = [object EXCEPT ![Top.obj] =
           IF e.del_on_term /\ ~is_running(left) THEN Free ELSE left]
  /\ stack' = Callers
  /\ UNCHANGED <<map, in_autofunction>>

-----------------------------------------------------------------------------
\* The builtins that change the map.

\* .function: builtins may not be replaced.
Define(n) ==
  /\ InScript
  /\ ~IsKind(n, "builtin")
  /\ \E o \in FreePlaces : Set(n, o, "function")
  /\ UNCHANGED <<stack, in_autofunction>>

\* .binary: the file exists and its name is not in the map.
DefineBinary(n) ==
  /\ InScript
  /\ map[n] = None
  /\ \E o \in FreePlaces : Set(n, o, "binary")
  /\ UNCHANGED <<stack, in_autofunction>>

\* .rm_executable
Remove(n) ==
  /\ InScript
  /\ map[n] # None
  /\ ~IsKind(n, "builtin")
  /\ Erase(n)
  /\ UNCHANGED <<stack, in_autofunction>>

\* .stepwise looks a function up and goes through its statements without running
\* it: nothing counts that it is in use.
Stepwise(n) ==
  /\ InScript
  /\ IsKind(n, "function")
  /\ Len(stack) < MaxDepth
  /\ stack' = Append(stack, StepFrame(map[n]))
  /\ UNCHANGED <<map, object, in_autofunction>>

\* Its next statement is given to the argument function of .stepwise.
StepBody ==
  /\ TopIs("stepwise")
  /\ Len(stack) < MaxDepth
  /\ stack' = Append(stack, BodyFrame)
  /\ UNCHANGED <<map, object, in_autofunction>>

StepDone ==
  /\ TopIs("stepwise") \/ TopIs("body")
  /\ stack' = Callers
  /\ UNCHANGED <<map, object, in_autofunction>>

-----------------------------------------------------------------------------
\* internal_init: every builtin is in the map; the functions that it also
\* defines are left to the scripts, which may replace or remove them.
Init ==
  /\ map \in [AllNames -> Objects \cup {None}]
  /\ \A n \in Names : map[n] = None
  /\ \A n \in BuiltinNames : map[n] # None
  /\ \A m, n \in BuiltinNames : map[m] = map[n] => m = n
  /\ object \in [Objects -> {Free} \cup {New("builtin", n) : n \in BuiltinNames}]
  /\ \A o \in Objects, n \in BuiltinNames :
       object[o] = New("builtin", n) <=> map[n] = o
  /\ stack = << >>
  /\ in_autofunction = FALSE

Next ==
  \/ \E n \in AllNames : Call(n) \/ HandleSignal(n)
  \/ \E n \in AllNames : Define(n) \/ DefineBinary(n) \/ Remove(n) \/ Stepwise(n)
  \/ Found \/ NotFound \/ Leave \/ StepBody \/ StepDone

Spec == Init /\ [][Next]_vars
=============================================================================
