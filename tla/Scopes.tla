------------------------------- MODULE Scopes -------------------------------
(***************************************************************************)
(* What scripts may rely on of their variables: dynamic scopes, each of    *)
(* which binds names to values or declares them without one.  A name means *)
(* what the innermost scope that knows it says.  Which variables have been *)
(* read, and the exceptions for those that have not, are not part of this: *)
(* they only show in what may be refused.                                  *)
(***************************************************************************)
EXTENDS Naturals, Sequences, FiniteSetsExt

CONSTANTS Names, Values,
          Permanent,     \* names that nobody may remove
          Absent,        \* the scope does not know the name
          Undefined,     \* it declares the name, without a value
          Done, Refused  \* the outcomes that are no values

VARIABLES scopes, \* the live scopes, the first of which is the global one
          answer  \* the last operation and its outcome

svars == <<scopes, answer>>

Bindings == [Names -> Values \cup {Absent, Undefined}]

\* A scope is nested in the one before it, or, if it belongs to the handler of
\* an exception, in the global one: these are the scopes that can be seen.
Last == Len(scopes)
Visible ==
  {i \in DOMAIN scopes : i = 1 \/ \A j \in i + 1 .. Last : scopes[j].parent # 1}

\* The scope that says what a name means, or 0, and what it says.
Home(k) ==
  LET knows == {i \in Visible : scopes[i].binds[k] # Absent}
  IN  IF knows = {} THEN 0 ELSE Max(knows)
Meaning(k) == IF Home(k) = 0 THEN Absent ELSE scopes[Home(k)].binds[k]

Outcomes == Values \cup {Done, Refused}
Operations == {"get", "exists", "set", "local", "global", "declare", "unset",
               "rescope", "reinterpret", "open", "close", "look"}
Ends(outcome) == answer'[2] = outcome
Bind(i, k, b) == Ends(Done) /\ scopes' = [scopes EXCEPT ![i].binds[k] = b]
Keep(outcome) == Ends(outcome) /\ UNCHANGED scopes

ScopesInit ==
  /\ \E b \in Bindings : scopes = << [parent |-> 0, binds |-> b] >>
  /\ answer = <<"open", Done>>

-----------------------------------------------------------------------------
Read(k) == Keep(IF Meaning(k) \in Values THEN Meaning(k) ELSE Refused)

Exists(k) == Keep(IF Meaning(k) \in Values THEN Done ELSE Refused)

\* A value may be protected against change, never against the same value.
Assign(k, v) ==
  \/ Meaning(k) # Absent /\ Bind(Home(k), k, v)
  \/ Meaning(k) \notin {Undefined, v} /\ Keep(Refused)

\* A scope may be asked for the same definition twice, for no other.
Define(i, k, v) ==
  IF scopes[i].binds[k] \in {Absent, Undefined, v}
  THEN Bind(i, k, v)
  ELSE Keep(Refused)

DefineLocal(k, v) == Define(Last, k, v)

\* Nothing is defined globally behind the value of a local variable.
DefineGlobal(k, v) ==
  IF \E i \in Visible \ {1} : scopes[i].binds[k] \in Values
  THEN Keep(Refused)
  ELSE Define(1, k, v)

Declare(k) ==
  CASE scopes[Last].binds[k] = Undefined -> Keep(Done)
    [] scopes[Last].binds[k] = Absent ->
         Bind(Last, k, Undefined) \/ Keep(Refused)
    [] OTHER -> Keep(Done) \/ Keep(Refused)

\* A parameter is introduced late, with a value or without.  The call may be
\* refused for its other arguments.
Introduce(k, b) ==
  IF scopes[Last].binds[k] \in Values \cup ({b} \cap {Undefined})
  THEN Keep(Refused)
  ELSE /\ Ends(Done) \/ Ends(Refused)
       /\ scopes' = [scopes EXCEPT ![Last].binds[k] = b]

\* The name goes from its home.  If it was declared before it was defined, only
\* its value does.
Remove(k) ==
  \/ /\ Meaning(k) # Absent /\ k \notin Permanent
     /\ \E b \in {Absent, Undefined} \ {Meaning(k)} : Bind(Home(k), k, b)
  \/ /\ Meaning(k) # Undefined \/ k \in Permanent
     /\ Keep(Refused)

\* The value goes from the home of the name, unless the name was declared
\* there before it was defined.
Undefine(k) ==
  IF Meaning(k) = Absent THEN Keep(Refused)
  ELSE /\ Ends(Done) \/ Ends(Refused)
       /\ \/ scopes' = [scopes EXCEPT ![Home(k)].binds[k] = Undefined]
          \/ UNCHANGED scopes

Open ==
  /\ Ends(Done)
  /\ Len(scopes') = Last + 1 /\ SubSeq(scopes', 1, Last) = scopes
  /\ scopes'[Last + 1] \in [parent: {1, Last}, binds: Bindings]

Close ==
  /\ Last > 1
  /\ Ends(Done) \/ Ends(Refused)
  /\ scopes' = SubSeq(scopes, 1, Last - 1)

\* What only looks at the variables.
Look == Keep(Done) \/ Keep(Refused)

\* What each operation may do.
Effect(op) ==
  CASE op = "get" -> \E k \in Names : Read(k)
    [] op = "exists" -> \E k \in Names : Exists(k)
    [] op = "set" -> \E k \in Names, v \in Values : Assign(k, v)
    [] op = "local" -> \E k \in Names, v \in Values : DefineLocal(k, v)
    [] op = "global" -> \E k \in Names, v \in Values : DefineGlobal(k, v)
    [] op = "declare" -> \E k \in Names : Declare(k)
    [] op = "unset" -> \E k \in Names : Remove(k)
    [] op = "rescope" ->
         \E k \in Names, b \in Values \cup {Undefined} : Introduce(k, b)
    [] op = "reinterpret" -> \E k \in Names : Undefine(k)
    [] op = "open" -> Open
    [] op = "close" -> Close
    [] op = "look" -> Look

ScopesNext ==
  \E op \in Operations : answer' \in {op} \X Outcomes /\ Effect(op)

ScopesSpec == ScopesInit /\ [][ScopesNext]_svars

=============================================================================
