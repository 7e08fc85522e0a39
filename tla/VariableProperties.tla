------------------------- MODULE VariableProperties -------------------------
(***************************************************************************)
(* What the variables of the shell are meant to do.                        *)
(***************************************************************************)
EXTENDS VariableMap

CONSTANTS Absent, Undefined, Done, Refused   \* see Scopes

ASSUME OutcomesAreNoValues ==
  /\ {Absent, Undefined, Done, Refused} \cap Values = {}
  /\ Absent # Undefined /\ Done # Refused

\* What .rescope adds.
LateParameters == {Parameter(k, r) : k \in Names, r \in BOOLEAN}

Maps ==
  [parent: Nat, prototype: PrototypeType, extra: SUBSET LateParameters,
   vars: [Names -> Values \cup {None}], undefined: SUBSET Names,
   local: SUBSET Names, checked: SUBSET Names, used: SUBSET Names,
   listed: BOOLEAN, usageChecked: BOOLEAN]

\* Variable_map has the fields and the types of its declaration, and each map
\* the parent that it was made with: the map before it, or the global one.
TypeOK ==
  /\ maps \in Seq(Maps) /\ Here >= 1
  /\ maps[1].parent = 0
  /\ \A i \in 2 .. Here : maps[i].parent \in {1, i - 1}
  /\ steps \in 0 .. MaxSteps

Parameters(p) == NamesOf(p.flags \cup p.positional)
JudgedIn(m) ==
  {k \in Names : m.vars[k] # None} \cup m.undefined
    \subseteq m.local \cup {"-*"} \cup Parameters(m.prototype)
              \cup UNION {Parameters(p) : p \in m.extra}

\* Whatever a map holds or declares, some part of the check of its variables
\* looks at: nothing gets past a function unseen.
Judged == \A i \in 1 .. Here : JudgedIn(maps[i])

\* The handler of an exception neither sees nor changes the variables of what
\* it interrupts.
Interrupted == {i \in 2 .. Here : \E j \in i + 1 .. Here : maps[j].parent = 1}
InterruptedUntouched ==
  [][\A i \in Interrupted : i \in DOMAIN maps' => maps'[i] = maps[i]]_vars

-----------------------------------------------------------------------------
\* Unused variables are reported: "an exception is thrown for each defined
\* variable whose value is not used whether it is a parameter or a local
\* variable".

\* The documentation makes exceptions for flags: using $-*, or the flag, or
\* all its arguments, uses the flag, and if it has no arguments asking for it
\* or listing the variables is enough.
UsedWithFlag(m, k) ==
  \/ k = "-*"
  \/ \E g \in m.prototype.flags :
       /\ k \in Members(g)
       /\ \/ "-*" \in m.used \/ g[1] \in m.used
          \/ Len(g) = 1 /\ (m.listed \/ k \in m.checked)
          \/ Len(g) > 1 /\ k = g[1] /\ Members(Tail(g)) \subseteq m.used

Unread(i) == {k \in Names : Defines(i, k) /\ k \notin maps[i].used}
Reported == {k \in Names : <<".unused_variable", k>> \in result'.raised}

UnreadIsReported ==
  LET m == maps[Here]
  IN  \A k \in Unread(Here) :
        k \in Reported \/ UsedWithFlag(m, k) \/ k \in m.undefined
        \/ (k \in NamesOf(m.prototype.flags) /\ m.extra # {})
        \/ \E g \in m.prototype.flags \cup m.prototype.positional :
             k \in Members(Tail(g)) /\ ~Defines(Here, g[1])

\* Whoever leaves a map hears of every name in it whose mark says that it was not
\* read, as the code keeps these marks (LastValueHeard is about the values).  It holds
\* but for names that were declared and then defined with .local, for the flags
\* of a function that uses .rescope, and for what a script puts into the rest of
\* a group whose first name it has not defined.
UnusedReported == [][Leave => UnreadIsReported]_vars

-----------------------------------------------------------------------------
\* The maps implement scopes.
Binding(m, k) ==
  IF m.vars[k] # None THEN m.vars[k]
  ELSE IF k \in m.undefined THEN Undefined ELSE Absent
Outcome ==
  IF result.raised # {} THEN Refused
  ELSE IF result.value # None THEN result.value ELSE Done

Abstract ==
  INSTANCE Scopes WITH
    Permanent <- {"FIGNORE"},
    scopes <- [i \in DOMAIN maps |->
                 [parent |-> maps[i].parent,
                  binds |-> [k \in Names |-> Binding(maps[i], k)]]],
    answer <- <<result.op, Outcome>>

\* A name means what its innermost scope says, every operation changes that
\* scope and no other, and is refused for the reasons that Scopes gives only.
ScopesImplemented == Abstract!ScopesSpec

=============================================================================
