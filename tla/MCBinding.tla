----------------------------- MODULE MCBinding -----------------------------
EXTENDS BindingProperties

Group(names, required, elipsis) ==
  [names |-> names, required |-> required, elipsis |-> elipsis]

MCParameters == {"-x", "a", "b", "c", "d", "e", ""}

\* a  ...  [b ]  [c d]  [c d ...]  [... e]  [-x]  [-x e]  [-x e ...]  -x  --  [--]  [-*]
AllGroups ==
  {Group(<<"a">>, TRUE, -1), Group(<< >>, TRUE, 0),
   Group(<<"b", "">>, FALSE, -1), Group(<<"c", "d">>, FALSE, -1),
   Group(<<"c", "d">>, FALSE, 2), Group(<<"e">>, FALSE, 0),
   Group(<<"-x">>, FALSE, -1), Group(<<"-x", "e">>, FALSE, -1),
   Group(<<"-x", "e">>, FALSE, 2), Group(<<"-x">>, TRUE, -1),
   Group(<<"--">>, TRUE, -1), Group(<<"--">>, FALSE, -1), Group(<<"-*">>, FALSE, -1)}

\* a [--] b
DashGroups ==
  {Group(<<"a">>, TRUE, -1), Group(<<"b">>, TRUE, -1), Group(<<"--">>, FALSE, -1)}

=============================================================================
