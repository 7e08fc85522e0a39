---------------------------- MODULE VariableMap ----------------------------
(***************************************************************************)
(* The variables of the shell (variable_map.cc): a chain of Variable_maps, *)
(* one for each function, script or .scope that is running, and the global *)
(* one.  A map also keeps which of its variables have been read and which  *)
(* have been asked for, and reports the others when it is left.            *)
(*                                                                         *)
(* Left out are the names that never reach a map (those that begin with a  *)
(* digit, * or #), the convenience variables "--" and "-?", and the text   *)
(* of values, which are only compared.                                     *)
(***************************************************************************)
EXTENDS Naturals, Sequences

CONSTANTS Names, Values,
          None,         \* no value: the name is not in the map
          Flags,        \* names that begin with a dash
          LocalNames,   \* names that .local and its like are called with
          Prototypes,   \* of the functions
          MaxMaps,      \* bound on the maps alive at a time
          MaxSteps      \* bound on the operations of a session

\* Parameters come in groups, which are passed as a whole; that of a flag
\* begins with it.
Groups == {g \in Seq(Names) : g # << >>}
Members(g) == {g[i] : i \in DOMAIN g}
NamesOf(groups) == UNION {Members(g) : g \in groups}
PrototypeType ==
  [flags: SUBSET Groups, positional: SUBSET Groups, required: SUBSET Groups]

NoParameters == [flags |-> {}, positional |-> {}, required |-> {}]
Parameter(k, isRequired) ==
  [flags |-> {}, positional |-> {<<k>>},
   required |-> IF isRequired THEN {<<k>>} ELSE {}]

ASSUME NamesAssumption ==
  /\ None \notin Values /\ Values # {}
  /\ "FIGNORE" \in Names /\ "-*" \in Flags /\ Flags \subseteq Names
  /\ LocalNames \subseteq Names \ Flags
ASSUME PrototypesAssumption ==
  \A p \in Prototypes :
    /\ p \in PrototypeType
    /\ p.required \subseteq p.positional
    /\ \A g \in p.flags : g[1] \in Flags \ {"-*"}
    /\ NamesOf(p.positional) \cap Flags = {}
ASSUME BoundsAssumption == MaxMaps \in Nat \ {0} /\ MaxSteps \in Nat

VARIABLES maps,   \* the Variable_maps alive, the last of which is current
          result, \* of the last operation: its name, a value, exceptions
          steps   \* operations so far

vars == <<maps, result, steps>>

Here == Len(maps)

\* A Variable_map, with the variables it is made with.
Fresh(parent, prototype, values, undefined, local) ==
  [parent |-> parent, prototype |-> prototype, extra |-> {},
   vars |-> values, undefined |-> undefined, local |-> local,
   checked |-> {}, used |-> {}, listed |-> FALSE, usageChecked |-> FALSE]

-----------------------------------------------------------------------------
\* Looking a name up.

\* Faulty variant: all maps, whoever made them.
ChainOfAll == DOMAIN maps

\* The current map and its ancestors.  A map is made in the one before it, or,
\* for the handler of an exception, in the global one.
Chain ==
  {i \in DOMAIN maps : i = 1 \/ \A j \in i + 1 .. Here : maps[j].parent # 1}
Innermost(S) ==
  IF \E i \in S : \A j \in S : j <= i
  THEN CHOOSE i \in S : \A j \in S : j <= i
  ELSE 0

Defines(i, k) == maps[i].vars[k] # None
\* Faulty variant: a name without a value is looked for further out.
HomeOfValue(k) == Innermost({i \in Chain : Defines(i, k)})

Home(k) == Innermost({i \in Chain : Defines(i, k) \/ k \in maps[i].undefined})
Exists(k) == Home(k) # 0 /\ Defines(Home(k), k)

\* How an operation ends.
Result(op, value, raised) ==
  result' = [op |-> op, value |-> value, raised |-> raised]
Store(op, i, m) == maps' = [maps EXCEPT ![i] = m] /\ Result(op, None, {})
Raise(op, i, m, name, k) ==
  maps' = [maps EXCEPT ![i] = m] /\ Result(op, None, {<<name, k>>})
Throw(op, name, k) == UNCHANGED maps /\ Result(op, None, {<<name, k>>})

Exited == maps[1].usageChecked
Step == ~Exited /\ steps < MaxSteps /\ steps' = steps + 1

-----------------------------------------------------------------------------
\* The operations of the builtins, and of $-arguments.

Get(k) ==
  /\ Step
  /\ IF Home(k) = 0 THEN Throw("get", ".undeclared_variable", k)
     ELSE IF ~Exists(k) THEN Throw("get", ".undefined_variable", k)
     ELSE /\ maps' = [maps EXCEPT ![Home(k)].used = @ \cup {k}]
          /\ Result("get", maps[Home(k)].vars[k], {})

\* Each map on the way notes that it has been asked.
VarExists(k) ==
  /\ Step
  /\ maps' = [i \in DOMAIN maps |->
                IF i \in Chain /\ i >= Home(k)
                THEN [maps[i] EXCEPT !.checked = @ \cup {k}] ELSE maps[i]]
  /\ Result("exists", None, IF Exists(k) THEN {} ELSE {<<".false", k>>})

\* Faulty variant: it does not matter whether the value has been read.
SetVariableUnread(k, v) ==
  LET i == Home(k)
      m == maps[i]
  IN  IF i = 0 THEN Throw("set", ".undeclared_variable", k)
      ELSE Store("set", i, [m EXCEPT !.undefined = @ \ {k}, !.vars[k] = v])

\* Variable_map::set, for .set and for a parameter of .reinterpret.
SetVariable(k, v) ==
  LET i == Home(k)
      m == maps[i]
  IN  IF i = 0 THEN Throw("set", ".undeclared_variable", k)
      ELSE IF ~Defines(i, k)
      THEN Store("set", i, [m EXCEPT !.undefined = @ \ {k}, !.vars[k] = v])
      ELSE IF k \notin m.used /\ m.vars[k] # v
      THEN Raise("set", i, [m EXCEPT !.used = @ \cup {k}],
                 ".unused_before_set", k)
      ELSE Store("set", i, [m EXCEPT !.vars[k] = v])
Set(k, v) == Step /\ SetVariable(k, v)

\* Faulty variant: the name does not count as local.
LocalInUnlisted(op, i, k, v) ==
  IF maps[i].vars[k] \in {None, v}
  THEN Store(op, i, [maps[i] EXCEPT !.vars[k] = v])
  ELSE Throw(op, ".variable_already_exists", k)

\* The name counts as local before it is refused.
LocalIn(op, i, k, v) ==
  LET m == [maps[i] EXCEPT !.local = @ \cup {k}]
  IN  IF m.vars[k] \in {None, v} THEN Store(op, i, [m EXCEPT !.vars[k] = v])
      ELSE Raise(op, i, m, ".variable_already_exists", k)
Local(k, v) == Step /\ LocalIn("local", Here, k, v)

Global(k, v) ==
  /\ Step
  /\ IF \E i \in Chain \ {1} : Defines(i, k)
     THEN Throw("global", ".global_would_be_masked", k)
     ELSE LocalIn("global", 1, k, v)

LocalDeclare(k) ==
  LET m == maps[Here]
  IN  /\ Step
      /\ IF k \notin m.local
         THEN Store("declare", Here, [m EXCEPT !.local = @ \cup {k},
                                               !.undefined = @ \cup {k}])
         ELSE IF k \in m.undefined THEN Store("declare", Here, m)
         ELSE Throw("declare", ".variable_already_exists", k)

Unset(k) ==
  LET i == Home(k)
      m == maps[i]
  IN  /\ Step
      /\ IF k = "FIGNORE" THEN Throw("unset", ".illegal_variable_name", k)
         ELSE IF i = 0 THEN Throw("unset", ".undeclared_variable", k)
         ELSE IF ~Defines(i, k)
         THEN Store("unset", i, [m EXCEPT !.undefined = @ \ {k}])
         ELSE IF k \notin m.used THEN Throw("unset", ".unused_before_set", k)
         ELSE Store("unset", i, [m EXCEPT !.vars[k] = None])

\* The names of the first map that has any are printed.
ListLocals ==
  LET empty(i) == maps[i].undefined = {} /\ \A k \in Names : ~Defines(i, k)
      i == Innermost({1} \cup {j \in Chain : ~empty(j)})
  IN  Step /\ Store("look", i, [maps[i] EXCEPT !.listed = TRUE])

\* .exec has put all that can be seen into the environment when it fails.
FailingExec ==
  LET exported(i) ==
        {k \in Names : i = Innermost({j \in Chain : Defines(j, k)})}
  IN  /\ Step
      /\ maps' = [i \in DOMAIN maps |->
                    [maps[i] EXCEPT !.used = @ \cup exported(i)]]
      /\ Result("look", None, {<<".binary_does_not_exist", None>>})

\* bless_unused_vars_without_usage: after bad arguments nothing is reported.
Blessed(m) ==
  [m EXCEPT !.checked = @ \cup m.undefined,
            !.used = @ \cup {k \in Names : m.vars[k] # None}]

\* .rescope with one parameter: the current map gets another prototype, and
\* then what it declares.
Rescope(k, v, isRequired) ==
  LET m == [maps[Here] EXCEPT !.extra = @ \cup {Parameter(k, isRequired)}]
  IN  /\ Step
      /\ \/ /\ ~Defines(Here, k)   \* passed
            /\ Store("rescope", Here, [m EXCEPT !.vars[k] = v])
         \/ /\ ~Defines(Here, k) /\ k \notin m.undefined   \* not passed
            /\ LET n == [m EXCEPT !.undefined = @ \cup {k}]
               IN  IF isRequired
                   THEN Raise("rescope", Here, Blessed(n), ".bad_args", k)
                   ELSE Store("rescope", Here, n)
         \/ /\ Defines(Here, k) \/ k \in m.undefined
            /\ Raise("rescope", Here, m, ".variable_already_exists", k)

\* .reinterpret with one parameter, which is passed or not.
Reinterpret(k, v, isRequired) ==
  LET i == Home(k)
      m == IF k \in maps[i].undefined THEN maps[i]
           ELSE [maps[i] EXCEPT !.undefined = @ \cup {k}, !.vars[k] = None]
      \* the message of .bad_args reads what still has a value
      told == IF m.vars[k] = None THEN m ELSE [m EXCEPT !.used = @ \cup {k}]
      after == [maps EXCEPT ![i] = told]
  IN  /\ Step
      /\ \/ SetVariable(k, v)
         \/ IF i = 0 THEN Throw("reinterpret", ".undeclared_variable", k)
            ELSE IF ~isRequired THEN Store("reinterpret", i, m)
            ELSE /\ maps' = [after EXCEPT ![Here] = Blessed(after[Here])]
                 /\ Result("reinterpret", None, {<<".bad_args", k>>})

-----------------------------------------------------------------------------
\* Making and leaving maps.

\* What arg_to_param makes of the groups that are passed, if the arguments
\* match: $-* is there if the prototype has flags.  Any optional groups may be
\* passed, in the code the first ones are.  (If the arguments do not match, the
\* body is not run and the map goes without a report.)
Enter(p, passed, parent, v) ==
  LET given == NamesOf(passed) \cup (IF p.flags = {} THEN {} ELSE {"-*"})
  IN  /\ Step /\ Here < MaxMaps
      /\ p.required \subseteq passed
      /\ maps' = Append(maps, Fresh(parent, p,
                   [k \in Names |-> IF k \in given THEN v ELSE None],
                   NamesOf(p.flags \cup p.positional) \ given, {}))
      /\ Result("open", None, {})

Unused(S) == {<<".unused_variable", k>> : k \in S}
Unchecked(S) == {<<".unchecked_variable", k>> : k \in S}

\* Nobody asked whether a group was passed.
Ignored(m, g) == ~m.listed /\ Members(g) \cap m.checked = {}

\* Using the flag uses its arguments; if it has none, asking for it does.
FlagReport(m, g) ==
  LET unread == Members(Tail(g)) \ m.used
  IN  CASE g[1] \in m.used -> {}
        [] Len(g) = 1 ->
             IF ~Ignored(m, g) THEN {}
             ELSE IF Exists(g[1]) THEN Unused({g[1]}) ELSE Unchecked({g[1]})
        [] Len(g) > 1 /\ Exists(g[1]) ->
             IF unread = {} THEN {} ELSE Unused(unread \cup {g[1]})
        [] OTHER -> IF Ignored(m, g) THEN Unchecked(Members(g)) ELSE {}

\* Is $-* reported with the flag?
ReportsStar(m, g) ==
  FlagReport(m, g) # {} /\ (Len(g) = 1 => Exists(g[1]))

\* Faulty variant: asking for a parameter is enough.
PositionalReportAsked(m, g) ==
  IF ~Ignored(m, g) THEN {}
  ELSE IF Exists(g[1])
  THEN Unused({k \in Members(g) : Exists(k) /\ k \notin m.used})
  ELSE Unchecked(Members(g))

PositionalReport(m, g) ==
  IF Exists(g[1]) THEN Unused({k \in Members(g) : Exists(k) /\ k \notin m.used})
  ELSE IF Ignored(m, g) THEN Unchecked(Members(g)) ELSE {}

\* What counts as used with a flag that has been used, or with $-*.
BlessedWith(m, p, starUsed) ==
  NamesOf({g \in p.flags : starUsed \/ g[1] \in m.used})

\* Prototype::unused_var_check.
Report(m, p, starUsed) ==
  (IF starUsed THEN {}
   ELSE (UNION {FlagReport(m, g) : g \in p.flags})
        \cup IF \E g \in p.flags : ReportsStar(m, g) THEN Unused({"-*"}) ELSE {})
  \cup (UNION {PositionalReport(m, g) : g \in p.positional})
  \cup Unused(m.local \ (m.used \cup m.undefined \cup BlessedWith(m, p, starUsed)))

\* Variable_map::unused_var_check.  The check of each prototype leaves a mark
\* that $-* has been used, so that of the function comes too late for flags.
UnusedVarCheck(m) ==
  (UNION {Report(m, p, TRUE) : p \in m.extra})
    \cup Report(m, m.prototype, "-*" \in m.used \/ m.extra # {})

Leave ==
  /\ Here > 1
  /\ maps' = SubSeq(maps, 1, Here - 1)
  /\ Result("close", None, UnusedVarCheck(maps[Here]))
  /\ UNCHANGED steps

\* unused_var_check_at_exit.
Exit ==
  /\ Here = 1 /\ ~Exited
  /\ maps' = [maps EXCEPT ![1].usageChecked = TRUE]
  /\ Result("look", None, UnusedVarCheck(maps[1]))
  /\ UNCHANGED steps

Init ==
  /\ \E v \in Values :
       maps = << Fresh(0, NoParameters,
                       [k \in Names |-> IF k = "FIGNORE" THEN v ELSE None],
                       {}, {"FIGNORE"}) >>
  /\ result = [op |-> "open", value |-> None, raised |-> {}]
  /\ steps = 0

Next ==
  \/ \E k \in Names : Get(k) \/ VarExists(k) \/ Unset(k)
  \/ \E k \in Names, v \in Values : Set(k, v)
  \/ \E k \in LocalNames : LocalDeclare(k)
  \/ \E k \in LocalNames, v \in Values : Local(k, v) \/ Global(k, v)
  \/ \E k \in LocalNames, v \in Values, required \in BOOLEAN :
       Rescope(k, v, required) \/ Reinterpret(k, v, required)
  \/ \E p \in Prototypes, parent \in {1, Here}, v \in Values :
       \E passed \in SUBSET (p.flags \cup p.positional) :
         Enter(p, passed, parent, v)
  \/ ListLocals \/ FailingExec \/ Leave \/ Exit
  \/ Exited /\ UNCHANGED vars

Spec == Init /\ [][Next]_vars

=============================================================================
