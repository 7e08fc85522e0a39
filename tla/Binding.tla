------------------------------ MODULE Binding ------------------------------
(***************************************************************************)
(* How the words of a call become the parameters of a function: what a     *)
(* prototype declares (Prototype::Prototype) and how arg_to_param walks    *)
(* along the words.                                                        *)
(*                                                                         *)
(* A prototype is declared group by group; a group is what stands between  *)
(* brackets, or one name without.  The values that parameters get are      *)
(* positions in the words of the call, of which only matters which flag    *)
(* they are, if any.  The argument function is left out, and so are        *)
(* .rescope and .reinterpret, which bind in a map that has been made       *)
(* before (VariableMap).                                                   *)
(***************************************************************************)
EXTENDS Integers, Sequences, FiniteSets

CONSTANTS
  Parameters,  \* names of parameters that are not convenience variables
  Flags,       \* those of them that begin with a dash
  Plain,       \* a word that does not
  Groups,      \* the groups that prototypes are made of
  MaxGroups,   \* bound on the groups of a prototype
  MaxWords     \* bound on the words of a call

Convenience == {"--", "-*", "-?"}
Names == Parameters \cup Convenience
Words == Flags \cup {"--", Plain}

\* Parameter_group::elipsis: behind which name it stands, 0 in front of the first.
NoElipsis == -1

ASSUME BindingAssumption ==
  /\ Flags \subseteq Parameters /\ Parameters \cap Convenience = {}
  /\ Plain \notin Names
  /\ MaxGroups \in Nat /\ MaxWords \in Nat
  /\ \A g \in Groups :
       /\ g \in [names : Seq(Names), required : BOOLEAN, elipsis : Int]
       /\ g.elipsis \in NoElipsis .. Len(g.names)
       /\ g.elipsis # 0 => g.names # << >>
       /\ g.required => Len(g.names) <= 1

VARIABLES
  proto,      \* the prototype
  phase,      \* "declaring", "refused", "binding", "bound" or "aborted"
  words,      \* the words of the call
  at,         \* Parsing_state::cur_arg
  available,  \* words that are left for the groups to come
  needed,     \* required groups to come
  pos_c,      \* names in the positional groups to come
  dash_dash,  \* "unseen", "bracket" or "bare"
  param,      \* the positional group whose turn it is
  locals,     \* the values: the positions of words
  defined,    \* the names that have a value
  undefined,  \* Variable_map::undefined_vars
  listed,     \* the names whose value has the form of a list of words
  missing,    \* names for which there was no word
  errors      \* kinds of exceptions

callVars == <<words, at, available, needed, pos_c, dash_dash, param>>
localVars == <<locals, defined, undefined, listed, missing, errors>>
vars == <<proto, phase, callVars, localVars>>

Members(s) == {s[i] : i \in DOMAIN s}
Positional == proto.positional

-----------------------------------------------------------------------------
\* Declaring.

\* names are the parameter_names, elided says whether "..." is among them.
NoParameters ==
  [positional |-> << >>, flags |-> {}, some |-> FALSE, dash |-> -1, bare |-> FALSE,
   names |-> {"--"}, elided |-> FALSE, elipsis |-> "", required |-> 0, size |-> 0]

IsFlagGroup(g) == ~g.required /\ g.elipsis # 0 /\ g.names[1] \in Flags
IsDashDash(g) == g.elipsis # 0 /\ g.names[1] = "--"
IsDashStar(g) == g.elipsis # 0 /\ g.names[1] \in {"-*", "-?"}

\* No name twice, and nothing beside a convenience variable.
NamesFit(p, g) ==
  /\ g.elipsis # NoElipsis => ~p.elided
  /\ Members(g.names) \cap p.names \subseteq {"--"}
  /\ Cardinality(Members(g.names)) = Len(g.names)
  /\ Len(g.names) > 1 => Members(g.names) \cap Convenience = {}

PlaceFits(p, g) ==
  /\ g.elipsis = 0 => p.positional # << >>
  /\ IsDashDash(g) =>
       p.dash = -1 /\ (p.positional = << >> => p.flags = {} /\ ~p.some)
  /\ IsFlagGroup(g) => p.dash = -1

LastOf(s) == s[Len(s)]

Named(p, g) ==
  LET e == IF g.elipsis = 0 THEN LastOf(LastOf(p.positional).names)
           ELSE IF g.elipsis = NoElipsis THEN p.elipsis ELSE g.names[g.elipsis]
  IN  [p EXCEPT !.names = @ \cup Members(g.names), !.elipsis = e,
                !.elided = @ \/ g.elipsis # NoElipsis]

WithGroup(p, g) ==
  CASE g.names = << >> ->   \* "..." belongs to the group before
         LET last == Len(p.positional)
         IN  [p EXCEPT !.positional[last].elipsis = Len(p.positional[last].names)]
    [] IsDashDash(g) -> [p EXCEPT !.dash = Len(p.positional), !.bare = g.required]
    [] IsDashStar(g) -> [p EXCEPT !.some = TRUE, !.names = @ \cup {"-*", "-?"}]
    [] IsFlagGroup(g) -> [p EXCEPT !.flags = @ \cup {g}, !.names = @ \cup {"-*"}]
    [] OTHER -> [p EXCEPT !.positional = Append(@, g),
                          !.required = @ + (IF g.required THEN 1 ELSE 0),
                          !.size = @ + Len(g.names)]

Declared(p) ==
  Len(p.positional) + Cardinality(p.flags) + (IF p.dash = -1 THEN 0 ELSE 1)
    + (IF p.some THEN 1 ELSE 0)

DeclareGroup(g) ==
  /\ phase = "declaring"
  /\ Declared(proto) < MaxGroups
  /\ IF NamesFit(proto, g) /\ PlaceFits(proto, g)
     THEN proto' = WithGroup(Named(proto, g), g) /\ UNCHANGED phase
     ELSE phase' = "refused" /\ UNCHANGED proto
  /\ UNCHANGED <<callVars, localVars>>

-----------------------------------------------------------------------------
\* Taking words.

argc == Len(words)
IsFlag(i) == words[i] \in Flags \cup {"--"} /\ dash_dash # "bare"
FlagsOf(p) == {g.names[1] : g \in p.flags}
HasStar == proto.some \/ proto.flags # {}

Positions(a, b) == [i \in 1 .. (b - a + 1) |-> a + i - 1]

\* Faulty variant: one word too many.
ExtraTooMany(g, names) ==
  LET left == available - Len(g.names)
  IN  IF g.elipsis = NoElipsis \/ left <= names THEN 0 ELSE left - names + 1

\* What "..." takes beside the first word of its name: the words that the groups
\* to come, which have that many names, could not take.
Extra(g, names) ==
  LET left == available - Len(g.names)
  IN  IF g.elipsis = NoElipsis \/ left <= names THEN 0 ELSE left - names

Beyond(g, extra) == Positions(at + g.elipsis, at + g.elipsis + extra - 1)

\* Faulty variant: what follows "..." begins where it begins.
PlaceUnmoved(g, extra, k) == at + k - 1
Place(g, extra, k) == at + k - 1 + (IF k > g.elipsis THEN extra ELSE 0)
WordsFor(g, extra, k) ==
  Positions(Place(g, extra, k), Place(g, extra, k) + (IF k = g.elipsis THEN extra ELSE 0))

\* The names for which there are words left.
Reached(g, extra) == {k \in DOMAIN g.names : Place(g, extra, k) <= argc}
NamesAt(g, K) == {g.names[k] : k \in K}
Unreached(g, extra) == NamesAt(g, DOMAIN g.names \ Reached(g, extra))

\* What Parameter_group::arg_to_param does with any group.
Advance(g, extra) ==
  LET next == at + Len(g.names) + extra
  IN  /\ at' = IF next > argc THEN argc + 1 ELSE next
      /\ available' = available - Len(g.names) - extra
      /\ missing' = missing \cup Unreached(g, extra)
      /\ defined' = defined \cup NamesAt(g, Reached(g, extra))
      /\ errors' = errors \cup IF \E i \in Members(Beyond(g, extra)) : IsFlag(i)
                               THEN {"flag_in_elipsis"} ELSE {}
      /\ UNCHANGED words

\* After as many groups as stand before it, [--] is in force again.
NextGroup ==
  /\ param' = param + 1
  /\ dash_dash' = IF param # proto.dash THEN dash_dash
                  ELSE IF proto.bare THEN "bare" ELSE "bracket"

AtGroup == phase = "binding" /\ at <= argc /\ ~IsFlag(at) /\ param <= Len(Positional)

\* The names whose value becomes a list of words.
\* Faulty variant: not if "..." stands in front of the group.
ListedByOpening(g, extra) ==
  IF g.elipsis \in Reached(g, extra) THEN {proto.elipsis} ELSE {}
ListedBy(g, extra) ==
  IF g.elipsis = 0 \/ g.elipsis \in Reached(g, extra) THEN {proto.elipsis} ELSE {}

\* Faulty variant: a word that a required group needs is to spare.
ToSpareAll(g) == g.required \/ available >= needed
ToSpare(g) == g.required \/ available > needed

TakeGroup ==
  /\ AtGroup
  /\ LET g == Positional[param]
         reserved == pos_c - Len(g.names)
         extra == Extra(g, reserved)
         of(n) == {k \in Reached(g, extra) : g.names[k] = n}
     IN  /\ ToSpare(g)
         /\ pos_c' = reserved
         /\ needed' = needed - (IF g.required THEN 1 ELSE 0)
         /\ locals' = [n \in Names |->
              IF of(n) # {} THEN WordsFor(g, extra, CHOOSE k \in of(n) : TRUE)
              ELSE IF g.elipsis = 0 /\ n = proto.elipsis
              THEN locals[n] \o Beyond(g, extra) ELSE locals[n]]
         /\ listed' = listed \cup ListedBy(g, extra)
         /\ undefined' = undefined \cup Unreached(g, extra)
         /\ Advance(g, extra)
  /\ NextGroup
  /\ UNCHANGED <<proto, phase>>

\* Faulty variant: without declaring its names.
SkipGroupSilently ==
  /\ AtGroup
  /\ ~ToSpare(Positional[param])
  /\ NextGroup
  /\ UNCHANGED <<proto, phase, words, at, available, needed, pos_c,
                 locals, defined, undefined, listed, missing, errors>>

\* An optional group whose words are needed by required ones.
SkipGroup ==
  /\ AtGroup
  /\ ~ToSpare(Positional[param])
  /\ undefined' = undefined \cup Members(Positional[param].names)
  /\ NextGroup
  /\ UNCHANGED <<proto, phase, words, at, available, needed, pos_c,
                 locals, defined, listed, missing, errors>>

AtFlag == phase = "binding" /\ at <= argc /\ IsFlag(at)

\* append_word.
Appended(S, positions) ==
  [n \in Names |-> IF n \in S THEN locals[n] \o positions ELSE locals[n]]

\* Flags that are none of this place's business.
TardyFlag ==
  /\ AtFlag
  /\ dash_dash = "bracket" /\ words[at] # "--"
  /\ errors' = errors \cup {"tardy_flag"}
  /\ at' = at + 1 /\ available' = available - 1
  /\ UNCHANGED <<proto, phase, words, needed, pos_c, dash_dash, param,
                 locals, defined, undefined, listed, missing>>

\* The flag gets all words of its group and so does $-*.  The exception of a
\* name that is there already ends the process (see Interpreter, Abort).
TakeFlag(g) ==
  LET extra == Extra(g, pos_c)
      reached == Reached(g, extra)
      taken == Positions(at, at' - 1)
  IN  /\ AtFlag
      /\ dash_dash # "bracket" /\ g.names[1] = words[at]
      /\ Advance(g, extra)
      /\ phase' = IF g.elipsis \in reached /\ g.names[g.elipsis] \in defined
                  THEN "aborted" ELSE phase
      /\ locals' = [n \in Names |->
           IF n \in {"-*", g.names[1]} THEN locals[n] \o taken
           ELSE IF \E k \in reached : g.names[k] = n
           THEN locals[n] \o WordsFor(g, extra, CHOOSE k \in reached : g.names[k] = n)
           ELSE locals[n]]
      /\ listed' = listed \cup {"-*"} \cup NamesAt(g, reached)
      /\ undefined' = (undefined \ NamesAt(g, reached \ {g.elipsis}))
                        \cup Unreached(g, extra)
      /\ UNCHANGED <<proto, needed, pos_c, dash_dash, param>>

\* What becomes of a word that is passed on in $-* and $-?.
PassOn(more) ==
  /\ locals' = Appended(more \cup (IF proto.some THEN {"-?"} ELSE {})
                             \cup (IF HasStar THEN {"-*"} ELSE {}), <<at>>)
  /\ listed' = listed \cup {"-*", "-?"}
  /\ at' = at + 1 /\ available' = available - 1
  /\ UNCHANGED <<proto, words, needed, pos_c, param, undefined, missing>>

UnrecognizedFlag ==
  /\ AtFlag
  /\ dash_dash # "bracket" /\ words[at] \notin FlagsOf(proto) \cup {"--"}
  /\ errors' = errors \cup IF proto.some THEN {} ELSE {"unrecognized_flag"}
  /\ PassOn({})
  /\ UNCHANGED <<phase, dash_dash, defined>>

DashDash ==
  /\ AtFlag
  /\ words[at] = "--"
  /\ phase' = IF "--" \in defined THEN "aborted" ELSE phase
  /\ defined' = defined \cup {"--"}
  /\ dash_dash' = "bare"
  /\ PassOn({"--"})
  /\ UNCHANGED errors

\* Faulty variant: what the last group lacks does not matter.
CompleteSoFar(lacks) == at > argc /\ needed = 0

\* ~excess_or_missing_args.  A name of no letters does not show in the text that
\* says what is missing.
Complete(lacks) == at > argc /\ needed = 0 /\ lacks \ {""} = {}

\* There are no words left, or no groups.
Finish ==
  LET rest == {Positional[i] : i \in param .. Len(Positional)}
      lacks == missing \cup {g.names[1] : g \in {r \in rest : r.required}}
      opens == rest # {} /\ Positional[param].elipsis = 0
      previous == LastOf(Positional[param - 1].names)
  IN  /\ phase = "binding"
      /\ at <= argc => ~IsFlag(at) /\ rest = {}
      /\ phase' = "bound"
      /\ missing' = lacks
      /\ undefined' = undefined \cup (UNION {Members(g.names) : g \in rest})
                        \cup IF opens /\ previous \notin defined THEN {previous} ELSE {}
      /\ listed' = listed \cup IF opens /\ previous \in defined THEN {previous} ELSE {}
      /\ errors' = errors \cup IF Complete(lacks) THEN {} ELSE {"bad_args"}
      /\ UNCHANGED <<proto, callVars, locals, defined>>

-----------------------------------------------------------------------------
\* Parsing_state::Parsing_state and the start of Prototype::arg_to_param.
Call(w) ==
  /\ phase = "declaring"
  /\ phase' = "binding"
  /\ words' = w /\ at' = 1 /\ available' = Len(w)
  /\ needed' = proto.required /\ pos_c' = proto.size
  /\ dash_dash' = IF proto.dash # 0 THEN "unseen"
                  ELSE IF proto.bare THEN "bare" ELSE "bracket"
  /\ param' = 1
  /\ defined' = (IF proto.some THEN {"-?"} ELSE {}) \cup (IF HasStar THEN {"-*"} ELSE {})
  /\ undefined' = (UNION {Members(g.names) : g \in proto.flags})
                    \cup IF dash_dash' = "bracket" THEN {"--"} ELSE {}
  /\ UNCHANGED <<proto, locals, listed, missing, errors>>

Init ==
  /\ proto = NoParameters /\ phase = "declaring"
  /\ words = << >> /\ at = 1 /\ available = 0 /\ needed = 0 /\ pos_c = 0
  /\ dash_dash = "unseen" /\ param = 1
  /\ locals = [n \in Names |-> << >>]
  /\ defined = {} /\ undefined = {} /\ listed = {} /\ missing = {} /\ errors = {}

Next ==
  \/ \E g \in Groups : DeclareGroup(g)
  \/ \E n \in 0 .. MaxWords : \E w \in [1 .. n -> Words] : Call(w)
  \/ TakeGroup \/ SkipGroup
  \/ TardyFlag \/ UnrecognizedFlag \/ DashDash
  \/ \E g \in proto.flags : TakeFlag(g)
  \/ Finish

Spec == Init /\ [][Next]_vars

=============================================================================
