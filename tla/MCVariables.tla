----------------------------- MODULE MCVariables -----------------------------
(***************************************************************************)
(* Values of the constants of VariableMap for model checking.              *)
(***************************************************************************)
EXTENDS VariableHistory, TLC

MCNames == {"FIGNORE", "-*", "-x", "x"}
MCFlags == {"-*", "-x"}
MCLocalNames == {"x"}

FlagAndOption ==
  [flags |-> {<<"-x">>}, positional |-> {<<"x">>}, required |-> {}]
FlagWithArgument ==
  [flags |-> {<<"-x", "x">>}, positional |-> {}, required |-> {}]
Required ==
  [flags |-> {}, positional |-> {<<"x">>}, required |-> {<<"x">>}]
MCPrototypes == {FlagAndOption, FlagWithArgument, Required}

\* Values are only compared.
ValueSymmetry == Permutations(Values)

\* No operation depends on the outcome of the last one.
View == <<maps, steps, heard, current>>

=============================================================================
