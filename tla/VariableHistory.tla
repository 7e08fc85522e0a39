--------------------------- MODULE VariableHistory ---------------------------
(***************************************************************************)
(* Who has heard of the values of variables.  VariableMap decides what may *)
(* be written over and what is reported by the names in used_vars, which   *)
(* the shell itself keeps.  Here two history variables, which no operation *)
(* looks at, follow the values themselves, so that what used_vars is for   *)
(* can be said without it.                                                 *)
(***************************************************************************)
EXTENDS VariableProperties

VARIABLES
  heard,   \* for each map, the names some value of which was read or reported
  current  \* for each map, those whose present value was read or reported

historyVars == <<vars, heard, current>>

\* An operation reads, or reports to the script, the values of S[i] in map i.
Hear(S) ==
  /\ heard' = [i \in DOMAIN maps' |->
                 IF i \in DOMAIN maps THEN heard[i] \cup S[i] ELSE {}]
  /\ current' = [i \in DOMAIN maps' |->
                   IF i \in DOMAIN maps
                   THEN {k \in current[i] \cup S[i] :
                           maps'[i].vars[k] = maps[i].vars[k]}
                   ELSE {}]

Nothing == [i \in DOMAIN maps |-> {}]
TheValueOf(k) == [i \in DOMAIN maps |-> IF i = Home(k) THEN {k} ELSE {}]
\* What .exec puts into the environment.
TheEnvironment ==
  [i \in DOMAIN maps |->
     {k \in Names : i = Innermost({j \in Chain : Defines(j, k)})}]
\* The current map is not reported after bad arguments: they are reported.
TheArguments(k) ==
  [i \in DOMAIN maps |->
     TheValueOf(k)[i] \cup IF i = Here THEN {n \in Names : Defines(i, n)} ELSE {}]

\* An operation that may be refused because of what it says of k.
HearIf(name, k, S) ==
  Hear(IF <<name, k>> \in result'.raised THEN S ELSE Nothing)

HistoryInit == Init /\ heard = << {} >> /\ current = << {} >>

Listen ==
  \/ \E k \in Names :
       \/ Get(k) /\ Hear(IF Exists(k) THEN TheValueOf(k) ELSE Nothing)
       \/ Unset(k) /\ HearIf(".unused_before_set", k, TheValueOf(k))
  \/ \E k \in Names, v \in Values :
       Set(k, v) /\ HearIf(".unused_before_set", k, TheValueOf(k))
  \/ FailingExec /\ Hear(TheEnvironment)
  \/ \E k \in LocalNames, v \in Values, required \in BOOLEAN :
       \/ /\ Rescope(k, v, required)
          /\ HearIf(".bad_args", k, TheArguments(k))
       \/ /\ Reinterpret(k, v, required)
          /\ IF <<".bad_args", k>> \in result'.raised
             THEN Hear(TheArguments(k))
             ELSE HearIf(".unused_before_set", k, TheValueOf(k))

Deaf ==
  \/ \E k \in Names : VarExists(k)
  \/ \E k \in LocalNames : LocalDeclare(k)
  \/ \E k \in LocalNames, v \in Values : Local(k, v) \/ Global(k, v)
  \/ \E p \in Prototypes, parent \in {1, Here}, v \in Values :
       \E passed \in SUBSET (p.flags \cup p.positional) :
         Enter(p, passed, parent, v)
  \/ ListLocals \/ Leave \/ Exit

HistoryNext ==
  \/ Listen
  \/ Deaf /\ Hear(Nothing)
  \/ Exited /\ UNCHANGED historyVars

HistorySpec == HistoryInit /\ [][HistoryNext]_historyVars

-----------------------------------------------------------------------------
\* "attempt to set $var before making use of its initial value", as the handler
\* of .unused_before_set says: while nobody has heard of any value that a map
\* had for a name, its value is neither written over nor removed, however many
\* maps and operations there are, unless .reinterpret withdraws it.
InitialValueHeard ==
  [][\A i \in DOMAIN maps \cap DOMAIN maps' : \A k \in Names :
       Defines(i, k) /\ maps'[i].vars[k] # maps[i].vars[k]
       => k \in heard[i] \/ k \in maps'[i].undefined]_historyVars

\* "an exception is thrown for each defined variable whose value is not used
\* whether it is a parameter or a local variable", as the documentation says:
\* nobody leaves a map with a value that was neither read nor is reported.  Said
\* of the names that are no part of a flag and were not only declared, of which
\* UnusedReported makes no exception.
LastValueHeard ==
  [][Leave =>
       \A k \in Names \ (Flags \cup NamesOf(maps[Here].prototype.flags)
                         \cup maps[Here].undefined) :
         Defines(Here, k) => k \in current[Here] \cup Reported]_historyVars

=============================================================================
