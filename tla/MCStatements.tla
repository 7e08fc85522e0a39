---------------------------- MODULE MCStatements ----------------------------
(* Scripts for Statements: functions that pass on the argument function they  *)
(* are given, and blocks for them.  The number in the name of a set is the    *)
(* number of argument functions around what is in it.                         *)
EXTENDS StatementProperties

Variables(n) ==
  {Marked("$", 0, None)} \cup {Marked("&", k, None) : k \in 0 .. n}
Echo(args) == <<Written(<<".echo">>, args, None)>>
Substitutions(n) ==
  {Marked("$", 0, Echo(<<v>>)) : v \in Variables(n)}
    \cup UNION {{Marked("&", k, Echo(<<v>>)) : v \in Variables(k)} : k \in 0 .. n}
Arguments(n) == Variables(n) \cup Substitutions(n)

Calling(name) == <<Written(<<name>>, << >>, None)>>
Passing(words, args, block) == <<Written(words, args, block)>>

\* How a function uses its argument function, alone or under another statement.
Uses ==
  {Calling(".argfunction"), Passing(<<".if">>, << >>, Calling(".argfunction"))}
PassesOn ==
  {Passing(<<"g">>, <<a>>, Calling(".argfunction")) : a \in Variables(1)}
  \cup {Passing(<<"g">>, << >>, Passing(<<".if">>, <<a>>, Calling(".argfunction"))) :
          a \in Variables(2)}
  \cup {Passing(<<"g">>, << >>, Echo(<<a>>) \o Echo(<<Plain>>)) : a \in Substitutions(2)}
  \cup {Passing(<<"g">>, << >>, Calling(".escaped_argfunction")),
        Passing(<<"g">>, << >>, Echo(<<Marked("$", 0, Calling(".argfunction"))>>))}

\* What is passed.  Some arguments come too late.
Blocks ==
  {Echo(<<a>>) : a \in Arguments(1)}
  \cup {Passing(<<".if">>, <<Marked("&", 1, None)>>, Echo(<<b>>)) : b \in Arguments(2)}
  \cup {Passing(<<".mapped_argfunction">>, << >>, Echo(<<a>>)) : a \in Variables(2)}
  \cup {Echo(<<Marked("&", 2, None)>>),
        Passing(<<".if">>, << >>, Echo(<<Marked("&", 1, Echo(<<Marked("&", 2, None)>>))>>))}

Define(name, block) == Written(<<".function", name>>, << >>, block)
Using(f, g, block) ==
  <<Define("g", g), Define("f", f), Written(<<"f">>, <<Marked("&", 0, None)>>, block)>>

Simple == {Echo(<<a>>) : a \in Arguments(1)}
NoBlock == <<Define("f", <<Written(<<"g">>, << >>,
                             Echo(<<Marked("$", 0, Calling(".argfunction"))>>))>>),
             Written(<<"f">>, << >>, None)>>
Scripts ==
  {Using(f, g, b) : f \in Uses \cup PassesOn, g \in Uses, b \in Simple}
  \cup {Using(Passing(<<"g">>, << >>, h), Calling(".argfunction"), b) :
          h \in Uses, b \in Blocks}
  \cup {<<Define("g", h)>> \o NoBlock : h \in Uses}

\* Ampersands behind a $, and a function whose argument function is not there
\* when a block that has it in a substitution is passed on.
Dollars == {Marked("$", k, None) : k \in 1 .. 2}
DollarScripts ==
  {Echo(<<a>>) : a \in Dollars}
  \cup {Using(f, g, Echo(<<a>>)) : f \in Uses, g \in Uses, a \in Dollars}
  \cup {Echo(<<Plain, Marked("$", 0, Echo(<<a>>))>>) : a \in Dollars}
LostBlocks ==
  {<<Define("g", h),
     Define("f", Passing(<<"g">>, << >>, Passing(<<"g">>, << >>, b))),
     Written(<<"f">>, << >>, None)>> :
     h \in Uses,
     b \in {Echo(<<Marked("&", k, Calling(".escaped_argfunction"))>>) : k \in 1 .. 2}
           \cup {Echo(<<Marked("$", 0, Calling(".argfunction"))>>)}}
AllScripts == Scripts \cup DollarScripts \cup LostBlocks
=============================================================================
