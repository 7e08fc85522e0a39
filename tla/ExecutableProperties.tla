------------------------ MODULE ExecutableProperties ------------------------
(***************************************************************************)
(* What must hold of the executables in spite of being redefined and       *)
(* removed while they run.                                                 *)
(***************************************************************************)
EXTENDS ExecutableMap, FiniteSets

Objects_ == [kind : Kinds \cup {"free"}, name : AllNames \cup {None},
             executable_nesting : Nat, del_on_term : BOOLEAN]

TypeOK ==
  /\ map \in [AllNames -> Objects \cup {None}]
  /\ object \in [Objects -> Objects_]
  /\ stack \in Seq(Frames)
  /\ in_autofunction \in BOOLEAN

ActivationsIn(s, o) == {i \in DOMAIN s : s[i].kind = "run" /\ s[i].obj = o}
Activations(o) == ActivationsIn(stack, o)

\* is_running() tells the truth: an executable counts its activations, on every
\* way into operator() and out of it (executable.cc:26-55).
RunningCounted ==
  \A o \in Objects : object[o].executable_nesting = Cardinality(Activations(o))

\* Two names never share an executable, each finds the one that was defined under
\* it, and none finds one that is waiting to be deleted (executable_map.cc:32-48).
NamesOwn ==
  \A n \in AllNames : map[n] # None =>
    /\ object[map[n]].kind # "free"
    /\ object[map[n]].name = n
    /\ ~object[map[n]].del_on_term

\* Whatever is not in the map either is deleted or will be by the last activation
\* of it: nothing is lost (executable.cc:54-55).
NothingLost ==
  \A o \in Objects : object[o].kind # "free" =>
    \/ map[object[o].name] = o
    \/ object[o].del_on_term /\ is_running(object[o])

\* Builtins cannot be replaced or removed, by whatever sequence of definitions.
BuiltinsStay == \A n \in BuiltinNames : IsKind(n, "builtin")

FrameOK(f) ==
  /\ f.kind \in {"run", "stepwise"} => f.obj \in Objects
  /\ f.kind = "wait" => f.name \in AllNames

\* The inductive invariant: besides that an executable knows its name, that a place
\* without one keeps nothing of the last, and that builtins stay, which .function
\* and .rm_executable see to (builtin.cc:249, 473).
LifeInvariant ==
  /\ TypeOK
  /\ \A i \in DOMAIN stack : FrameOK(stack[i])
  /\ \A o \in Objects : object[o].kind = "free" => object[o] = Free
  /\ \A o \in Objects : object[o].kind # "free" => object[o].name \in AllNames
  /\ RunningCounted /\ NamesOwn /\ NothingLost /\ BuiltinsStay

\* Together they say that an executable lives exactly as long as a name or an
\* activation refers to it, which is all that Lifetimes knows.
Lives ==
  INSTANCE Lifetimes WITH
    Names <- AllNames,
    named <- map,
    active <- [o \in Objects |-> object[o].executable_nesting],
    alive <- {o \in Objects : object[o].kind # "free"}
LivesAsLongAsReferred == Lives!Spec
=============================================================================
