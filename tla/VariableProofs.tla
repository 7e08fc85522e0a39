--------------------------- MODULE VariableProofs ---------------------------
(***************************************************************************)
(* Proofs about VariableMap.  Every operation but those that make or leave *)
(* a map works in place: it changes maps on the chain only, and each of    *)
(* them in a way that Kept describes.  From that follow the invariants and *)
(* the action properties, for all names, values, prototypes and bounds.    *)
(* The second half shows that the maps implement Scopes.                   *)
(***************************************************************************)
EXTENDS VariableHistory, SequenceTheorems, FiniteSetTheorems,
        WellFoundedInduction, TLAPS

\* What an operation may make of one map.
Kept(m, n) ==
  /\ n \in Maps /\ n.parent = m.parent /\ JudgedIn(n)
  /\ \A k \in Names : m.vars[k] # None /\ n.vars[k] # m.vars[k]
                        => k \in m.used \/ k \in n.undefined

InPlace ==
  /\ maps' \in [DOMAIN maps -> Maps]
  /\ \A i \in DOMAIN maps :
       maps'[i] = maps[i] \/ (i \in Chain /\ Kept(maps[i], maps'[i]))

VariableInvariant == TypeOK /\ Judged

-----------------------------------------------------------------------------
\* The chain and looking up.

LEMMA ChainOK ==
  ASSUME TypeOK
  PROVE  Chain \subseteq DOMAIN maps /\ 1 \in Chain /\ Here \in Chain
         /\ DOMAIN maps = 1 .. Here /\ Here \in Nat
<1>1. maps \in Seq(Maps) /\ Here >= 1
  BY DEF TypeOK
<1>2. Here \in Nat /\ DOMAIN maps = 1 .. Here
  BY <1>1 DEF Here
<1> QED BY <1>1, <1>2 DEF Chain

LEMMA InnermostIn ==
  ASSUME NEW S
  PROVE  Innermost(S) \in S \cup {0}
BY DEF Innermost

LEMMA HomeIn ==
  ASSUME TypeOK, NEW k, Home(k) # 0
  PROVE  Home(k) \in Chain /\ (Defines(Home(k), k) \/ k \in maps[Home(k)].undefined)
<1> DEFINE S == {i \in Chain : Defines(i, k) \/ k \in maps[i].undefined}
<1>1. Innermost(S) \in S \cup {0}
  BY InnermostIn
<1>2. Home(k) = Innermost(S)
  BY DEF Home
<1> QED BY <1>1, <1>2

LEMMA MapOK ==
  ASSUME VariableInvariant, NEW i \in DOMAIN maps
  PROVE  maps[i] \in Maps /\ JudgedIn(maps[i])
BY ChainOK DEF VariableInvariant, TypeOK, Judged

\* A map that keeps its names and values is kept, if nothing that was looked at
\* is forgotten.
LEMMA StoreOK ==
  ASSUME VariableInvariant, NEW i \in Chain, NEW m, Kept(maps[i], m),
         maps' = [maps EXCEPT ![i] = m]
  PROVE  InPlace
BY ChainOK DEF InPlace, Kept, VariableInvariant, TypeOK

LEMMA InPlaceIf ==
  ASSUME VariableInvariant, maps' = [i \in DOMAIN maps |-> maps'[i]],
         \A i \in DOMAIN maps :
           maps'[i] = maps[i] \/ (i \in Chain /\ Kept(maps[i], maps'[i]))
  PROVE  InPlace
<1>1. \A i \in DOMAIN maps : maps'[i] \in Maps
  BY MapOK DEF Kept
<1> QED BY <1>1 DEF InPlace

LEMMA SameOK ==
  ASSUME VariableInvariant, UNCHANGED maps
  PROVE  InPlace
BY DEF InPlace, VariableInvariant, TypeOK

-----------------------------------------------------------------------------
\* One lemma for each way in which operations change a map.

LEMMA UsedOK ==
  ASSUME NEW m \in Maps, JudgedIn(m), NEW S \in SUBSET Names
  PROVE  Kept(m, [m EXCEPT !.used = @ \cup S])
BY DEF Kept, Maps, JudgedIn

LEMMA CheckedOK ==
  ASSUME NEW m \in Maps, JudgedIn(m), NEW S \in SUBSET Names
  PROVE  Kept(m, [m EXCEPT !.checked = @ \cup S])
BY DEF Kept, Maps, JudgedIn

LEMMA ListedOK ==
  ASSUME NEW m \in Maps, JudgedIn(m)
  PROVE  Kept(m, [m EXCEPT !.listed = TRUE])
BY DEF Kept, Maps, JudgedIn

\* The general case: the names of the new map are judged in it.
LEMMA KeptIf ==
  ASSUME NEW m \in Maps, JudgedIn(m), NEW n \in Maps,
         n.parent = m.parent, n.prototype = m.prototype,
         m.extra \subseteq n.extra, m.local \subseteq n.local,
         \A k \in Names :
           n.vars[k] # None \/ k \in n.undefined
           => \/ m.vars[k] # None \/ k \in m.undefined \/ k \in n.local
              \/ \E p \in n.extra : k \in Parameters(p),
         \A k \in Names : m.vars[k] # None /\ n.vars[k] # m.vars[k]
                             => k \in m.used \/ k \in n.undefined
  PROVE  Kept(m, n)
<1>1. n.undefined \subseteq Names
  BY DEF Maps
<1>2. JudgedIn(n)
  BY <1>1 DEF JudgedIn
<1> QED BY <1>2 DEF Kept

-----------------------------------------------------------------------------
\* The operations.

LEMMA GetOK ==
  ASSUME VariableInvariant, NEW k \in Names, Get(k)
  PROVE  InPlace
<1>1. CASE UNCHANGED maps
  BY <1>1, SameOK
<1>2. CASE Home(k) # 0 /\ maps' = [maps EXCEPT ![Home(k)].used = @ \cup {k}]
  <2> DEFINE i == Home(k)
  <2>1. i \in Chain /\ i \in DOMAIN maps
    BY <1>2, HomeIn, ChainOK DEF VariableInvariant
  <2>2. Kept(maps[i], [maps[i] EXCEPT !.used = @ \cup {k}])
    BY <2>1, MapOK, UsedOK
  <2>3. maps' = [maps EXCEPT ![i] = [maps[i] EXCEPT !.used = @ \cup {k}]]
    BY <1>2
  <2> HIDE DEF i
  <2> QED BY <2>1, <2>2, <2>3, StoreOK
<1> QED BY <1>1, <1>2 DEF Get, Throw

LEMMA VarExistsOK ==
  ASSUME VariableInvariant, NEW k \in Names, VarExists(k)
  PROVE  InPlace
<1>1. maps' = [i \in DOMAIN maps |->
                 IF i \in Chain /\ i >= Home(k)
                 THEN [maps[i] EXCEPT !.checked = @ \cup {k}] ELSE maps[i]]
  BY DEF VarExists
<1>2. \A i \in DOMAIN maps : Kept(maps[i], [maps[i] EXCEPT !.checked = @ \cup {k}])
  BY MapOK, CheckedOK
<1> QED BY <1>1, <1>2, InPlaceIf

LEMMA SetOK ==
  ASSUME VariableInvariant, NEW k \in Names, NEW v \in Values,
         SetVariable(k, v)
  PROVE  InPlace
<1> DEFINE i == Home(k)
           m == maps[i]
<1>1. CASE UNCHANGED maps
  BY <1>1, SameOK
<1>2. CASE i # 0
  <2>1. i \in Chain /\ i \in DOMAIN maps /\ m \in Maps /\ JudgedIn(m)
        /\ (m.vars[k] # None \/ k \in m.undefined)
    BY <1>2, HomeIn, ChainOK, MapOK DEF VariableInvariant, Defines
  <2> DEFINE value == [m EXCEPT !.vars[k] = v]
             defined == [m EXCEPT !.undefined = @ \ {k}, !.vars[k] = v]
             read == [m EXCEPT !.used = @ \cup {k}]
  <2>2. \/ maps' = [maps EXCEPT ![i] = defined] /\ m.vars[k] = None
        \/ maps' = [maps EXCEPT ![i] = read]
        \/ maps' = [maps EXCEPT ![i] = value]
           /\ (k \in m.used \/ m.vars[k] = v)
    BY <1>2 DEF SetVariable, Store, Raise, Defines
  <2>3. ASSUME m.vars[k] = None  PROVE Kept(m, defined)
    <3>1. /\ defined \in Maps /\ defined.parent = m.parent
          /\ defined.prototype = m.prototype /\ defined.extra = m.extra
          /\ defined.local = m.local /\ defined.undefined = m.undefined \ {k}
          /\ \A j \in Names : defined.vars[j] = IF j = k THEN v ELSE m.vars[j]
      BY <2>1 DEF Maps
    <3> HIDE DEF defined, m
    <3> QED BY <2>1, <2>3, <3>1, KeptIf
  <2>4. ASSUME k \in m.used \/ m.vars[k] = v  PROVE Kept(m, value)
    <3>1. value \in Maps
      BY <2>1 DEF Maps
    <3> QED BY <2>1, <2>4, <3>1, KeptIf DEF Maps
  <2>5. Kept(m, read)
    BY <2>1, UsedOK
  <2> HIDE DEF value, defined, read, i
  <2> QED BY <2>1, <2>2, <2>3, <2>4, <2>5, StoreOK
<1> QED BY <1>1, <1>2 DEF SetVariable, Throw

LEMMA LocalInOK ==
  ASSUME VariableInvariant, NEW op, NEW i \in Chain, NEW k \in Names,
         NEW v \in Values, LocalIn(op, i, k, v)
  PROVE  InPlace
<1> DEFINE m == maps[i]
           listed == [m EXCEPT !.local = @ \cup {k}]
           defined == [listed EXCEPT !.vars[k] = v]
<1>1. m \in Maps /\ JudgedIn(m)
  BY ChainOK, MapOK DEF VariableInvariant
<1>2. \/ maps' = [maps EXCEPT ![i] = listed]
      \/ maps' = [maps EXCEPT ![i] = defined] /\ m.vars[k] \in {None, v}
  BY <1>1 DEF LocalIn, Store, Raise, Maps
<1>3. Kept(m, listed)
  <2>1. listed \in Maps /\ listed.vars = m.vars /\ listed.local = m.local \cup {k}
        /\ listed.undefined = m.undefined /\ listed.parent = m.parent
        /\ listed.prototype = m.prototype /\ listed.extra = m.extra
    BY <1>1 DEF Maps
  <2> HIDE DEF m, listed
  <2> QED BY <1>1, <2>1, KeptIf
<1>4. ASSUME m.vars[k] \in {None, v}  PROVE Kept(m, defined)
  <2>1. /\ defined \in Maps /\ defined.local = m.local \cup {k}
        /\ defined.undefined = m.undefined /\ defined.parent = m.parent
        /\ defined.prototype = m.prototype /\ defined.extra = m.extra
        /\ \A j \in Names : defined.vars[j] = IF j = k THEN v ELSE m.vars[j]
    BY <1>1 DEF Maps
  <2> HIDE DEF m, defined
  <2> QED BY <1>1, <1>4, <2>1, KeptIf
<1> HIDE DEF listed, defined
<1> QED BY <1>2, <1>3, <1>4, StoreOK

LEMMA GlobalOK ==
  ASSUME VariableInvariant, NEW k \in Names, NEW v \in Values, Global(k, v)
  PROVE  InPlace
<1>1. 1 \in Chain
  BY ChainOK DEF VariableInvariant
<1> QED BY <1>1, LocalInOK, SameOK DEF Global, Throw

LEMMA LocalDeclareOK ==
  ASSUME VariableInvariant, NEW k \in Names, LocalDeclare(k)
  PROVE  InPlace
<1> DEFINE m == maps[Here]
           declared == [m EXCEPT !.local = @ \cup {k}, !.undefined = @ \cup {k}]
<1>1. Here \in Chain /\ m \in Maps /\ JudgedIn(m)
  BY ChainOK, MapOK DEF VariableInvariant
<1>2. \/ maps' = [maps EXCEPT ![Here] = declared]
      \/ UNCHANGED maps
      \/ maps' = [maps EXCEPT ![Here] = m]
  BY DEF LocalDeclare, Store, Throw
<1>3. declared \in Maps /\ declared.local = m.local \cup {k}
      /\ declared.undefined = m.undefined \cup {k} /\ declared.vars = m.vars
      /\ declared.parent = m.parent /\ declared.prototype = m.prototype
      /\ declared.extra = m.extra
  BY <1>1 DEF Maps
<1> HIDE DEF m, declared
<1>4. Kept(m, declared) /\ Kept(m, m)
  BY <1>1, <1>3, KeptIf
<1> QED BY <1>1, <1>2, <1>4, StoreOK, SameOK DEF m

LEMMA UnsetOK ==
  ASSUME VariableInvariant, NEW k \in Names, Unset(k)
  PROVE  InPlace
<1> DEFINE i == Home(k)
           m == maps[i]
           undeclared == [m EXCEPT !.undefined = @ \ {k}]
           removed == [m EXCEPT !.vars[k] = None]
<1>1. CASE UNCHANGED maps
  BY <1>1, SameOK
<1>2. CASE i # 0 /\ ~UNCHANGED maps
  <2>1. i \in Chain /\ m \in Maps /\ JudgedIn(m)
    BY <1>2, HomeIn, ChainOK, MapOK DEF VariableInvariant
  <2>2. \/ maps' = [maps EXCEPT ![i] = undeclared]
        \/ maps' = [maps EXCEPT ![i] = removed] /\ k \in m.used
    BY <1>2 DEF Unset, Store, Throw
  <2>3. Kept(m, undeclared)
    <3>1. undeclared \in Maps /\ undeclared.undefined = m.undefined \ {k}
          /\ undeclared.vars = m.vars /\ undeclared.local = m.local
          /\ undeclared.parent = m.parent /\ undeclared.extra = m.extra
          /\ undeclared.prototype = m.prototype
      BY <2>1 DEF Maps
    <3> HIDE DEF m, undeclared
    <3> QED BY <2>1, <3>1, KeptIf
  <2>4. ASSUME k \in m.used  PROVE Kept(m, removed)
    <3>1. /\ removed \in Maps /\ removed.undefined = m.undefined
          /\ removed.local = m.local /\ removed.parent = m.parent
          /\ removed.extra = m.extra /\ removed.prototype = m.prototype
          /\ \A j \in Names : removed.vars[j] = IF j = k THEN None ELSE m.vars[j]
      BY <2>1 DEF Maps
    <3> HIDE DEF m, removed
    <3> QED BY <2>1, <2>4, <3>1, KeptIf
  <2> HIDE DEF undeclared, removed, i
  <2> QED BY <2>1, <2>2, <2>3, <2>4, StoreOK
<1> QED BY <1>1, <1>2 DEF Unset, Throw

LEMMA ListLocalsOK ==
  ASSUME VariableInvariant, ListLocals
  PROVE  InPlace
<1> DEFINE empty(i) == maps[i].undefined = {} /\ \A k \in Names : ~Defines(i, k)
           S == {1} \cup {j \in Chain : ~empty(j)}
           i == Innermost(S)
           m == [maps[i] EXCEPT !.listed = TRUE]
<1>1. maps' = [maps EXCEPT ![i] = m]
  BY DEF ListLocals, Store
<1>2. i \in Chain \cup {0} /\ Chain \subseteq DOMAIN maps /\ DOMAIN maps = 1 .. Here
  BY InnermostIn, ChainOK DEF VariableInvariant
<1>3. ASSUME i \in Chain  PROVE Kept(maps[i], m)
  BY <1>2, <1>3, MapOK, ListedOK
<1> HIDE DEF i
<1>4. CASE i \in Chain
  <2> HIDE DEF m
  <2> QED BY <1>1, <1>3, <1>4, StoreOK
<1>5. CASE i = 0
  <2>1. 0 \notin DOMAIN maps
    BY <1>2
  <2>2. maps \in Seq(Maps)
    BY DEF VariableInvariant, TypeOK
  <2>3. UNCHANGED maps
    BY <1>1, <1>5, <2>1, <2>2
  <2> QED BY <2>3, SameOK
<1> QED BY <1>2, <1>4, <1>5

LEMMA FailingExecOK ==
  ASSUME VariableInvariant, FailingExec
  PROVE  InPlace
<1> DEFINE exported(i) ==
             {k \in Names : i = Innermost({j \in Chain : Defines(j, k)})}
<1>1. maps' = [i \in DOMAIN maps |->
                 [maps[i] EXCEPT !.used = @ \cup exported(i)]]
  BY DEF FailingExec
<1>2. ASSUME NEW i \in DOMAIN maps
      PROVE  IF i \in Chain THEN Kept(maps[i], maps'[i]) ELSE maps'[i] = maps[i]
  <2>1. maps[i] \in Maps /\ JudgedIn(maps[i])
    BY <1>2, MapOK
  <2>2. maps'[i] = [maps[i] EXCEPT !.used = @ \cup exported(i)]
    BY <1>1, <1>2
  <2>3. exported(i) \in SUBSET Names
    OBVIOUS
  <2>4. Kept(maps[i], maps'[i])
    BY <2>1, <2>2, <2>3, UsedOK
  <2>5. CASE i \notin Chain
    <3>1. i # 0
      BY <1>2, ChainOK DEF VariableInvariant
    <3>2. exported(i) = {}
      <4>1. ASSUME NEW k \in Names  PROVE i # Innermost({j \in Chain : Defines(j, k)})
        BY <2>5, <3>1, InnermostIn
      <4> QED BY <4>1
    <3>3. maps'[i] = [maps[i] EXCEPT !.used = @]
      BY <2>2, <3>2
    <3>4. maps'[i] = maps[i]
      BY <2>1, <3>3 DEF Maps
    <3> QED BY <2>5, <3>4
  <2> QED BY <2>4, <2>5
<1>3. maps' = [i \in DOMAIN maps |-> maps'[i]]
  BY <1>1
<1> QED BY <1>2, <1>3, InPlaceIf

LEMMA BlessedOK ==
  ASSUME NEW m, NEW n, Kept(m, n)
  PROVE  Kept(m, Blessed(n))
<1> DEFINE b == Blessed(n)
<1>1. n \in Maps
  BY DEF Kept
<1>2. b \in Maps /\ b.vars = n.vars /\ b.undefined = n.undefined
      /\ b.local = n.local /\ b.extra = n.extra /\ b.prototype = n.prototype
      /\ b.parent = n.parent
  BY <1>1 DEF Maps, Blessed
<1> HIDE DEF b
<1>3. JudgedIn(b)
  BY <1>2 DEF Kept, JudgedIn
<1> QED BY <1>2, <1>3 DEF Kept, b

LEMMA ParameterOK ==
  ASSUME NEW k \in Names, NEW r \in BOOLEAN
  PROVE  Parameter(k, r) \in LateParameters /\ k \in Parameters(Parameter(k, r))
<1> DEFINE p == Parameter(k, r)
<1>1. p \in LateParameters
  BY DEF LateParameters
<1>2. p.flags = {} /\ p.positional = {<<k>>}
  BY DEF Parameter
<1>3. k \in Members(<<k>>)
  <2>1. 1 \in DOMAIN <<k>> /\ <<k>>[1] = k
    OBVIOUS
  <2> QED BY <2>1 DEF Members
<1> HIDE DEF p
<1>4. k \in Parameters(p)
  BY <1>2, <1>3 DEF Parameters, NamesOf
<1> QED BY <1>1, <1>4 DEF p

LEMMA RescopeOK ==
  ASSUME VariableInvariant, NEW k \in Names, NEW v \in Values,
         NEW r \in BOOLEAN, Rescope(k, v, r)
  PROVE  InPlace
<1> DEFINE old == maps[Here]
           p == Parameter(k, r)
           m == [old EXCEPT !.extra = @ \cup {p}]
           passed == [m EXCEPT !.vars[k] = v]
           declared == [m EXCEPT !.undefined = @ \cup {k}]
<1>1. Here \in Chain /\ old \in Maps /\ JudgedIn(old)
  BY ChainOK, MapOK DEF VariableInvariant
<1>2. \/ maps' = [maps EXCEPT ![Here] = passed] /\ old.vars[k] = None
      \/ maps' = [maps EXCEPT ![Here] = declared]
      \/ maps' = [maps EXCEPT ![Here] = Blessed(declared)]
      \/ maps' = [maps EXCEPT ![Here] = m]
  BY DEF Rescope, Store, Raise, Defines
<1>3. p \in LateParameters /\ k \in Parameters(p)
  BY ParameterOK
<1> HIDE DEF p, old
<1>4. Kept(old, m)
  <2>1. m \in Maps /\ m.vars = old.vars /\ m.undefined = old.undefined
        /\ m.local = old.local /\ m.extra = old.extra \cup {p}
        /\ m.parent = old.parent /\ m.prototype = old.prototype
    BY <1>1, <1>3 DEF Maps
  <2> HIDE DEF m
  <2> QED BY <1>1, <2>1, KeptIf
<1>5. ASSUME old.vars[k] = None  PROVE Kept(old, passed)
  <2>1. /\ passed \in Maps /\ passed.undefined = old.undefined
        /\ passed.local = old.local /\ passed.extra = old.extra \cup {p}
        /\ passed.parent = old.parent /\ passed.prototype = old.prototype
        /\ \A j \in Names : passed.vars[j] = IF j = k THEN v ELSE old.vars[j]
    BY <1>1, <1>3 DEF Maps
  <2> HIDE DEF passed
  <2> QED BY <1>1, <1>3, <1>5, <2>1, KeptIf
<1>6. Kept(old, declared)
  <2>1. /\ declared \in Maps /\ declared.undefined = old.undefined \cup {k}
        /\ declared.local = old.local /\ declared.extra = old.extra \cup {p}
        /\ declared.parent = old.parent /\ declared.prototype = old.prototype
        /\ declared.vars = old.vars
    BY <1>1, <1>3 DEF Maps
  <2> HIDE DEF declared
  <2> QED BY <1>1, <1>3, <2>1, KeptIf
<1> HIDE DEF m, passed, declared
<1>7. Kept(old, Blessed(declared))
  BY <1>6, BlessedOK
<1> QED BY <1>1, <1>2, <1>4, <1>5, <1>6, <1>7, StoreOK DEF old

LEMMA ReinterpretOK ==
  ASSUME VariableInvariant, NEW k \in Names, NEW v \in Values,
         NEW r \in BOOLEAN, Reinterpret(k, v, r)
  PROVE  InPlace
<1> DEFINE i == Home(k)
           old == maps[i]
           m == IF k \in old.undefined THEN old
                ELSE [old EXCEPT !.undefined = @ \cup {k}, !.vars[k] = None]
           told == IF m.vars[k] = None THEN m ELSE [m EXCEPT !.used = @ \cup {k}]
           after == [maps EXCEPT ![i] = told]
<1>1. CASE SetVariable(k, v)
  BY <1>1, SetOK
<1>2. CASE UNCHANGED maps
  BY <1>2, SameOK
<1>3. CASE /\ i # 0
           /\ \/ maps' = [maps EXCEPT ![i] = m]
              \/ maps' = [after EXCEPT ![Here] = Blessed(after[Here])]
  <2>1. i \in Chain /\ i \in DOMAIN maps /\ old \in Maps /\ JudgedIn(old)
        /\ (old.vars[k] # None \/ k \in old.undefined)
    BY <1>3, HomeIn, ChainOK, MapOK DEF VariableInvariant, Defines
  <2>2. Here \in Chain /\ Here \in DOMAIN maps
    BY ChainOK DEF VariableInvariant
  <2> HIDE DEF i
  <2>3. Kept(old, m)
    <3>1. /\ m \in Maps /\ m.undefined = old.undefined \cup {k}
          /\ m.local = old.local /\ m.extra = old.extra
          /\ m.parent = old.parent /\ m.prototype = old.prototype
          /\ \A j \in Names : j # k => m.vars[j] = old.vars[j]
      BY <2>1 DEF Maps
    <3> HIDE DEF m, old
    <3> QED BY <2>1, <3>1, KeptIf
  <2>4. Kept(old, told)
    <3> HIDE DEF m
    <3>1. CASE told = m
      BY <2>3, <3>1
    <3>2. CASE told = [m EXCEPT !.used = @ \cup {k}]
      <4>1. m \in Maps /\ JudgedIn(m)
        BY <2>3 DEF Kept
      <4>2. Kept(m, told)
        BY <3>2, <4>1, UsedOK
      <4>3. told.vars = m.vars /\ told.undefined = m.undefined
        BY <3>2, <4>1 DEF Maps
      <4> HIDE DEF told, old
      <4> QED BY <2>3, <4>2, <4>3 DEF Kept
    <3> QED BY <3>1, <3>2
  <2> HIDE DEF m, told
  <2>5. CASE maps' = [maps EXCEPT ![i] = m]
    BY <2>1, <2>3, <2>5, StoreOK
  <2>6. CASE maps' = [after EXCEPT ![Here] = Blessed(after[Here])]
    <3>1. CASE i = Here
      <4>1. Kept(old, Blessed(told))
        BY <2>4, BlessedOK
      <4>2. maps' = [maps EXCEPT ![i] = Blessed(told)]
        BY <2>1, <2>6, <3>1
      <4> QED BY <2>1, <4>1, <4>2, StoreOK
    <3>2. CASE i # Here
      <4>1. maps[Here] \in Maps /\ JudgedIn(maps[Here])
        BY <2>2, MapOK
      <4>2. Kept(maps[Here], maps[Here])
        BY <4>1 DEF Kept
      <4>3. Kept(maps[Here], Blessed(maps[Here]))
        BY <4>2, BlessedOK
      <4>4. /\ maps' = [j \in DOMAIN maps |-> maps'[j]]
            /\ maps'[i] = told /\ maps'[Here] = Blessed(maps[Here])
            /\ \A j \in DOMAIN maps : j # i /\ j # Here => maps'[j] = maps[j]
        BY <2>1, <2>2, <2>6, <3>2
      <4> QED BY <2>1, <2>2, <2>4, <4>3, <4>4, InPlaceIf
    <3> QED BY <3>1, <3>2
  <2> QED BY <1>3, <2>5, <2>6
<1>4. \/ SetVariable(k, v) \/ UNCHANGED maps
      \/ /\ i # 0
         /\ \/ maps' = [maps EXCEPT ![i] = m]
            \/ maps' = [after EXCEPT ![Here] = Blessed(after[Here])]
  BY DEF Reinterpret, Throw, Store
<1> QED BY <1>1, <1>2, <1>3, <1>4

-----------------------------------------------------------------------------
\* Making and leaving maps.

\* What a group of names is made of.
LEMMA NamesOfOK ==
  ASSUME NEW gs \in SUBSET Groups
  PROVE  NamesOf(gs) \subseteq Names
BY DEF NamesOf, Members, Groups

LEMMA EnterOK ==
  ASSUME VariableInvariant, NEW p \in Prototypes,
         NEW passed \in SUBSET (p.flags \cup p.positional),
         NEW parent \in {1, Here}, NEW v \in Values, Enter(p, passed, parent, v)
  PROVE  \E n \in Maps : JudgedIn(n) /\ n.parent = parent /\ maps' = Append(maps, n)
<1> DEFINE given == NamesOf(passed) \cup (IF p.flags = {} THEN {} ELSE {"-*"})
           declared == NamesOf(p.flags \cup p.positional) \ given
           values == [k \in Names |-> IF k \in given THEN v ELSE None]
           n == Fresh(parent, p, values, declared, {})
<1>1. p \in PrototypeType /\ p.flags \cup p.positional \in SUBSET Groups
  BY PrototypesAssumption DEF PrototypeType
<1>2. NamesOf(p.flags \cup p.positional) \subseteq Names
  BY <1>1, NamesOfOK
<1>3. Here \in Nat
  BY ChainOK DEF VariableInvariant
<1>4. values \in [Names -> Values \cup {None}] /\ declared \in SUBSET Names
  BY <1>2
<1>5. given \subseteq Parameters(p) \cup {"-*"}
  BY DEF NamesOf, Parameters
<1>6. maps' = Append(maps, n)
  BY DEF Enter
<1>7. n \in Maps /\ n.parent = parent /\ n.prototype = p /\ n.vars = values
      /\ n.undefined = declared
  <2> HIDE DEF values, declared
  <2> QED BY <1>1, <1>3, <1>4 DEF Fresh, Maps
<1>8. n.undefined \subseteq Parameters(p)
  BY <1>7 DEF Parameters
<1>9. \A k \in Names : n.vars[k] # None => k \in given
  BY <1>7
<1> HIDE DEF n, given
<1>10. JudgedIn(n)
  BY <1>5, <1>7, <1>8, <1>9 DEF JudgedIn
<1> QED BY <1>6, <1>7, <1>10

\* The other steps.
Made ==
  \E n \in Maps, parent \in {1, Here} :
    JudgedIn(n) /\ n.parent = parent /\ maps' = Append(maps, n)
Left == Here > 1 /\ maps' = SubSeq(maps, 1, Here - 1)

LEMMA ExitOK ==
  ASSUME VariableInvariant, Exit
  PROVE  InPlace
<1> DEFINE m == [maps[1] EXCEPT !.usageChecked = TRUE]
<1>1. 1 \in Chain /\ maps[1] \in Maps /\ JudgedIn(maps[1])
  BY ChainOK, MapOK DEF VariableInvariant
<1>2. Kept(maps[1], m)
  BY <1>1 DEF Kept, Maps, JudgedIn
<1>3. maps' = [maps EXCEPT ![1] = m]
  BY DEF Exit
<1> HIDE DEF m
<1> QED BY <1>1, <1>2, <1>3, StoreOK

\* Whatever happens works in place, makes a map or leaves one.
LEMMA StepOK ==
  ASSUME VariableInvariant, [Next]_vars
  PROVE  /\ InPlace \/ Made \/ Left
         /\ steps' \in 0 .. MaxSteps
<1>0. steps \in 0 .. MaxSteps /\ MaxSteps \in Nat
  BY BoundsAssumption DEF VariableInvariant, TypeOK
<1> DEFINE Goal == (InPlace \/ Made \/ Left) /\ steps' \in 0 .. MaxSteps
<1>1. ASSUME Step  PROVE steps' \in 0 .. MaxSteps
  BY <1>0, <1>1 DEF Step
<1>2. LocalNames \subseteq Names
  BY NamesAssumption
<1>3. ASSUME NEW k \in Names, Get(k)  PROVE Goal
  BY <1>1, <1>3, GetOK DEF Get
<1>4. ASSUME NEW k \in Names, VarExists(k)  PROVE Goal
  BY <1>1, <1>4, VarExistsOK DEF VarExists
<1>5. ASSUME NEW k \in Names, Unset(k)  PROVE Goal
  BY <1>1, <1>5, UnsetOK DEF Unset
<1>6. ASSUME NEW k \in Names, NEW v \in Values, Set(k, v)  PROVE Goal
  BY <1>1, <1>6, SetOK DEF Set
<1>7. ASSUME NEW k \in LocalNames, LocalDeclare(k)  PROVE Goal
  BY <1>1, <1>2, <1>7, LocalDeclareOK DEF LocalDeclare
<1>8. ASSUME NEW k \in LocalNames, NEW v \in Values, Local(k, v)  PROVE Goal
  <2>1. Here \in Chain
    BY ChainOK DEF VariableInvariant
  <2> QED BY <1>1, <1>2, <1>8, <2>1, LocalInOK DEF Local
<1>9. ASSUME NEW k \in LocalNames, NEW v \in Values, Global(k, v)  PROVE Goal
  BY <1>1, <1>2, <1>9, GlobalOK DEF Global
<1>10. ASSUME NEW k \in LocalNames, NEW v \in Values, NEW r \in BOOLEAN,
              Rescope(k, v, r)
       PROVE  Goal
  BY <1>1, <1>2, <1>10, RescopeOK DEF Rescope
<1>11. ASSUME NEW k \in LocalNames, NEW v \in Values, NEW r \in BOOLEAN,
              Reinterpret(k, v, r)
       PROVE  Goal
  BY <1>1, <1>2, <1>11, ReinterpretOK DEF Reinterpret
<1>12. ASSUME NEW p \in Prototypes, NEW parent \in {1, Here}, NEW v \in Values,
              NEW passed \in SUBSET (p.flags \cup p.positional),
              Enter(p, passed, parent, v)
       PROVE  Goal
  <2>1. Made
    BY <1>12, EnterOK DEF Made
  <2> QED BY <1>1, <1>12, <2>1 DEF Enter
<1>13. ASSUME ListLocals  PROVE Goal
  BY <1>1, <1>13, ListLocalsOK DEF ListLocals
<1>14. ASSUME FailingExec  PROVE Goal
  BY <1>1, <1>14, FailingExecOK DEF FailingExec
<1>15. ASSUME Leave  PROVE Goal
  BY <1>0, <1>15 DEF Leave, Left
<1>16. ASSUME Exit  PROVE Goal
  <2>1. InPlace
    BY <1>16, ExitOK
  <2> QED BY <1>0, <1>16, <2>1 DEF Exit
<1>17. ASSUME UNCHANGED vars  PROVE Goal
  <2>1. UNCHANGED maps /\ UNCHANGED steps
    BY <1>17 DEF vars
  <2> QED BY <1>0, <2>1, SameOK
<1> HIDE DEF Goal
<1>18. Goal
  BY <1>3, <1>4, <1>5, <1>6, <1>7, <1>8, <1>9, <1>10, <1>11, <1>12, <1>13,
     <1>14, <1>15, <1>16, <1>17 DEF Next
<1> QED BY <1>18 DEF Goal

-----------------------------------------------------------------------------
\* The invariant.

LEMMA VariableInit ==
  ASSUME Init
  PROVE  VariableInvariant
<1> PICK v \in Values :
      maps = << Fresh(0, NoParameters,
                      [k \in Names |-> IF k = "FIGNORE" THEN v ELSE None],
                      {}, {"FIGNORE"}) >>
  BY DEF Init
<1> DEFINE values == [k \in Names |-> IF k = "FIGNORE" THEN v ELSE None]
           m == Fresh(0, NoParameters, values, {}, {"FIGNORE"})
<1>1. NoParameters \in PrototypeType
  BY DEF NoParameters, PrototypeType
<1>2. values \in [Names -> Values \cup {None}]
  OBVIOUS
<1>3. \A k \in Names : values[k] # None => k = "FIGNORE"
  OBVIOUS
<1> HIDE DEF values
<1>4. m \in Maps /\ m.parent = 0 /\ m.vars = values /\ m.undefined = {}
      /\ m.local = {"FIGNORE"}
  BY <1>1, <1>2, NamesAssumption DEF Fresh, Maps
<1>5. maps = <<m>>
  BY DEF values
<1> HIDE DEF m
<1>6. JudgedIn(m)
  BY <1>3, <1>4 DEF JudgedIn
<1>7. Here = 1 /\ maps[1] = m /\ maps \in Seq(Maps)
  BY <1>4, <1>5 DEF Here
<1>8. steps \in 0 .. MaxSteps
  BY BoundsAssumption DEF Init
<1> QED BY <1>4, <1>6, <1>7, <1>8 DEF VariableInvariant, TypeOK, Judged

LEMMA MadeIs ==
  ASSUME VariableInvariant, Made
  PROVE  /\ maps' \in Seq(Maps) /\ Len(maps') = Here + 1
         /\ \A i \in 1 .. Here : maps'[i] = maps[i]
         /\ maps'[Here + 1].parent \in {1, Here} /\ JudgedIn(maps'[Here + 1])
<1> PICK n \in Maps, parent \in {1, Here} :
      JudgedIn(n) /\ n.parent = parent /\ maps' = Append(maps, n)
  BY DEF Made
<1>1. maps \in Seq(Maps) /\ Here = Len(maps)
  BY DEF VariableInvariant, TypeOK, Here
<1>2. /\ Append(maps, n) \in Seq(Maps) /\ Len(Append(maps, n)) = Here + 1
      /\ \A i \in 1 .. Here : Append(maps, n)[i] = maps[i]
      /\ Append(maps, n)[Here + 1] = n
  BY <1>1, AppendProperties
<1> QED BY <1>2

LEMMA VariableStep ==
  ASSUME VariableInvariant, [Next]_vars
  PROVE  VariableInvariant'
<1>1. /\ maps \in Seq(Maps) /\ Here \in Nat /\ Here >= 1 /\ DOMAIN maps = 1 .. Here
      /\ maps[1].parent = 0 /\ \A i \in 2 .. Here : maps[i].parent \in {1, i - 1}
      /\ \A i \in 1 .. Here : JudgedIn(maps[i])
  BY ChainOK DEF VariableInvariant, TypeOK, Judged
<1>2. steps' \in 0 .. MaxSteps
  BY StepOK
<1>3. CASE InPlace
  <2>1. maps' \in Seq(Maps) /\ Len(maps') = Here
    BY <1>1, <1>3 DEF InPlace
  <2>2. \A i \in 1 .. Here : maps'[i].parent = maps[i].parent /\ JudgedIn(maps'[i])
    BY <1>1, <1>3 DEF InPlace, Kept
  <2> QED BY <1>1, <1>2, <2>1, <2>2 DEF VariableInvariant, TypeOK, Judged, Here
<1>4. CASE Made
  <2>1. /\ maps' \in Seq(Maps) /\ Len(maps') = Here + 1
        /\ \A i \in 1 .. Here : maps'[i] = maps[i]
        /\ maps'[Here + 1].parent \in {1, Here} /\ JudgedIn(maps'[Here + 1])
    BY <1>4, MadeIs
  <2>2. \A i \in 2 .. Here + 1 : maps'[i].parent \in {1, i - 1}
    BY <1>1, <2>1
  <2>3. \A i \in 1 .. Here + 1 : JudgedIn(maps'[i])
    BY <1>1, <2>1
  <2>4. Here' = Here + 1 /\ Here' >= 1 /\ maps'[1].parent = 0
    BY <1>1, <2>1 DEF Here
  <2> HIDE DEF Here
  <2> QED BY <1>2, <2>1, <2>2, <2>3, <2>4 DEF VariableInvariant, TypeOK, Judged
<1>5. CASE Left
  <2>1. /\ maps' \in Seq(Maps) /\ Len(maps') = Here - 1 /\ Here - 1 >= 1
        /\ \A i \in 1 .. Here - 1 : maps'[i] = maps[i]
    BY <1>1, <1>5 DEF Left, Here
  <2> QED BY <1>1, <1>2, <2>1 DEF VariableInvariant, TypeOK, Judged, Here
<1> QED BY <1>3, <1>4, <1>5, StepOK

\* Variable_map has the fields and types of its declaration, and each map the
\* parent that it was made with.
THEOREM VariablesTyped == Spec => []TypeOK
<1>1. VariableInvariant /\ [Next]_vars => VariableInvariant'
  BY VariableStep
<1>2. VariableInvariant => TypeOK
  BY DEF VariableInvariant
<1> QED BY <1>1, <1>2, VariableInit, PTL DEF Spec

\* Nothing gets past a function unseen: whatever its map holds or declares, some
\* part of the check of its variables looks at.
THEOREM VariablesJudged == Spec => []Judged
<1>1. VariableInvariant /\ [Next]_vars => VariableInvariant'
  BY VariableStep
<1>2. VariableInvariant => Judged
  BY DEF VariableInvariant
<1> QED BY <1>1, <1>2, VariableInit, PTL DEF Spec

-----------------------------------------------------------------------------
\* What no step does.

\* The handler of an exception neither sees nor changes the variables of what
\* it interrupts.
THEOREM HandlersLeaveVariables == Spec => InterruptedUntouched
<1>1. ASSUME VariableInvariant, [Next]_vars
      PROVE  \A i \in Interrupted : i \in DOMAIN maps' => maps'[i] = maps[i]
  <2>1. maps \in Seq(Maps) /\ Here \in Nat /\ DOMAIN maps = 1 .. Here
        /\ Interrupted \subseteq DOMAIN maps
    BY <1>1, ChainOK DEF VariableInvariant, TypeOK, Interrupted
  <2>2. CASE InPlace
    <3>1. \A i \in Interrupted : i \notin Chain
      <4>1. ASSUME NEW i \in Interrupted  PROVE i \notin Chain
        BY <2>1 DEF Interrupted, Chain
      <4> QED BY <4>1
    <3> QED BY <2>1, <2>2, <3>1 DEF InPlace
  <2>3. CASE Made
    BY <1>1, <2>1, <2>3, MadeIs
  <2>4. CASE Left
    BY <2>1, <2>4 DEF Left
  <2> QED BY <1>1, <2>2, <2>3, <2>4, StepOK
<1>2. VariableInvariant /\ [Next]_vars => VariableInvariant'
  BY VariableStep
<1> QED BY <1>1, <1>2, VariableInit, PTL DEF Spec, InterruptedUntouched

-----------------------------------------------------------------------------
\* Who has heard of a value.  What an operation adds to used_vars is what it
\* reads or reports, so that everybody has heard of a value of what they hold.

Learns(S) ==
  \A i \in DOMAIN maps' :
    IF i \in DOMAIN maps THEN maps'[i].used \subseteq maps[i].used \cup S[i]
    ELSE maps'[i].used = {}
HeardOK ==
  DOMAIN heard = DOMAIN maps /\ \A i \in DOMAIN maps : maps[i].used \subseteq heard[i]

LEMMA HearOK ==
  ASSUME HeardOK, NEW S, Hear(S), Learns(S)
  PROVE  HeardOK'
BY DEF HeardOK, Hear, Learns

LEMMA SameLearns ==
  ASSUME UNCHANGED maps, NEW S
  PROVE  Learns(S)
BY DEF Learns

LEMMA StoreLearns ==
  ASSUME VariableInvariant, NEW i \in DOMAIN maps, NEW m, NEW S,
         maps' = [maps EXCEPT ![i] = m], m.used \subseteq maps[i].used \cup S[i]
  PROVE  Learns(S)
<1>1. DOMAIN maps' = DOMAIN maps
      /\ \A j \in DOMAIN maps : maps'[j] = IF j = i THEN m ELSE maps[j]
  BY DEF VariableInvariant, TypeOK
<1> QED BY <1>1 DEF Learns

LEMMA HomeHears ==
  ASSUME VariableInvariant, NEW k \in Names, Home(k) # 0
  PROVE  Home(k) \in DOMAIN maps /\ maps[Home(k)] \in Maps
         /\ TheValueOf(k)[Home(k)] = {k}
<1>1. Home(k) \in DOMAIN maps
  BY HomeIn, ChainOK DEF VariableInvariant
<1> QED BY <1>1, MapOK DEF TheValueOf

LEMMA HereHears ==
  ASSUME VariableInvariant
  PROVE  Here \in DOMAIN maps /\ maps[Here] \in Maps
BY ChainOK, MapOK DEF VariableInvariant

LEMMA GetLearns ==
  ASSUME VariableInvariant, NEW k \in Names, Get(k)
  PROVE  Learns(IF Exists(k) THEN TheValueOf(k) ELSE Nothing)
<1>1. CASE UNCHANGED maps
  BY <1>1, SameLearns
<1>2. CASE Exists(k) /\ maps' = [maps EXCEPT ![Home(k)].used = @ \cup {k}]
  <2> DEFINE i == Home(k)
             m == [maps[i] EXCEPT !.used = @ \cup {k}]
  <2>1. i \in DOMAIN maps /\ maps[i] \in Maps /\ TheValueOf(k)[i] = {k}
    BY <1>2, HomeHears DEF Exists
  <2>2. m.used = maps[i].used \cup {k} /\ maps' = [maps EXCEPT ![i] = m]
    BY <1>2, <2>1 DEF Maps
  <2> HIDE DEF i, m
  <2>3. Learns(TheValueOf(k))
    BY <2>1, <2>2, StoreLearns
  <2> QED BY <1>2, <2>3
<1> QED BY <1>1, <1>2 DEF Get, Throw, Exists

LEMMA SetLearns ==
  ASSUME VariableInvariant, NEW k \in Names, NEW v \in Values,
         SetVariable(k, v)
  PROVE  Learns(IF <<".unused_before_set", k>> \in result'.raised
                THEN TheValueOf(k) ELSE Nothing)
<1> DEFINE i == Home(k)
           m == maps[i]
           value == [m EXCEPT !.vars[k] = v]
           defined == [m EXCEPT !.undefined = @ \ {k}, !.vars[k] = v]
           read == [m EXCEPT !.used = @ \cup {k}]
<1>1. CASE UNCHANGED maps
  BY <1>1, SameLearns
<1>2. CASE i # 0
  <2>1. i \in DOMAIN maps /\ m \in Maps /\ TheValueOf(k)[i] = {k}
    BY <1>2, HomeHears
  <2>2. value.used = m.used /\ defined.used = m.used
        /\ read.used = m.used \cup {k}
    BY <2>1 DEF Maps
  <2>3. \/ maps' = [maps EXCEPT ![i] = defined]
        \/ /\ maps' = [maps EXCEPT ![i] = read]
           /\ <<".unused_before_set", k>> \in result'.raised
        \/ maps' = [maps EXCEPT ![i] = value]
    BY <1>2 DEF SetVariable, Store, Raise, Result
  <2> HIDE DEF i, value, defined, read
  <2>4. ASSUME NEW S, maps' = [maps EXCEPT ![i] = defined]
               \/ maps' = [maps EXCEPT ![i] = value]
        PROVE  Learns(S)
    BY <2>1, <2>2, <2>4, StoreLearns
  <2>5. ASSUME maps' = [maps EXCEPT ![i] = read]  PROVE Learns(TheValueOf(k))
    BY <2>1, <2>2, <2>5, StoreLearns
  <2> QED BY <2>3, <2>4, <2>5
<1> QED BY <1>1, <1>2 DEF SetVariable, Throw

LEMMA UnsetLearns ==
  ASSUME VariableInvariant, NEW k \in Names, Unset(k), NEW S
  PROVE  Learns(S)
<1> DEFINE i == Home(k)
           m == maps[i]
           undeclared == [m EXCEPT !.undefined = @ \ {k}]
           removed == [m EXCEPT !.vars[k] = None]
<1>1. CASE UNCHANGED maps
  BY <1>1, SameLearns
<1>2. CASE i # 0 /\ ~UNCHANGED maps
  <2>1. i \in DOMAIN maps /\ m \in Maps
    BY <1>2, HomeHears
  <2>2. undeclared.used = m.used /\ removed.used = m.used
    BY <2>1 DEF Maps
  <2>3. \/ maps' = [maps EXCEPT ![i] = undeclared]
        \/ maps' = [maps EXCEPT ![i] = removed]
    BY <1>2 DEF Unset, Store, Throw
  <2> HIDE DEF i, undeclared, removed
  <2> QED BY <2>1, <2>2, <2>3, StoreLearns
<1> QED BY <1>1, <1>2 DEF Unset, Throw

LEMMA ExecLearns ==
  ASSUME VariableInvariant, FailingExec
  PROVE  Learns(TheEnvironment)
<1> DEFINE exported(i) ==
             {k \in Names : i = Innermost({j \in Chain : Defines(j, k)})}
<1>1. maps' = [i \in DOMAIN maps |->
                 [maps[i] EXCEPT !.used = @ \cup exported(i)]]
  BY DEF FailingExec
<1>2. ASSUME NEW i \in DOMAIN maps
      PROVE  maps'[i].used \subseteq maps[i].used \cup TheEnvironment[i]
  <2>1. TheEnvironment[i] = exported(i)
    BY <1>2 DEF TheEnvironment
  <2>2. maps[i] \in Maps
    BY <1>2, MapOK
  <2>3. maps'[i] = [maps[i] EXCEPT !.used = @ \cup exported(i)]
    BY <1>1, <1>2
  <2> HIDE DEF exported
  <2> QED BY <2>1, <2>2, <2>3 DEF Maps
<1>3. DOMAIN maps' = DOMAIN maps
  BY <1>1
<1> QED BY <1>2, <1>3 DEF Learns

\* What still has a value is all that is blessed.
LEMMA BlessedUsed ==
  ASSUME NEW n \in Maps
  PROVE  Blessed(n).used = n.used \cup {k \in Names : n.vars[k] # None}
BY DEF Blessed, Maps

LEMMA RescopeLearns ==
  ASSUME VariableInvariant, NEW k \in Names, NEW v \in Values,
         NEW r \in BOOLEAN, Rescope(k, v, r)
  PROVE  Learns(IF <<".bad_args", k>> \in result'.raised
                THEN TheArguments(k) ELSE Nothing)
<1> DEFINE old == maps[Here]
           p == Parameter(k, r)
           m == [old EXCEPT !.extra = @ \cup {p}]
           passed == [m EXCEPT !.vars[k] = v]
           declared == [m EXCEPT !.undefined = @ \cup {k}]
<1>1. Here \in DOMAIN maps /\ old \in Maps
  BY HereHears
<1>2. \/ maps' = [maps EXCEPT ![Here] = passed]
      \/ maps' = [maps EXCEPT ![Here] = declared]
      \/ /\ maps' = [maps EXCEPT ![Here] = Blessed(declared)]
         /\ <<".bad_args", k>> \in result'.raised
      \/ maps' = [maps EXCEPT ![Here] = m]
  BY DEF Rescope, Store, Raise, Result
<1>3. p \in LateParameters
  BY ParameterOK
<1>4. passed.used = old.used /\ declared.used = old.used /\ m.used = old.used
      /\ declared \in Maps /\ declared.vars = old.vars
  <2> HIDE DEF p
  <2> QED BY <1>1, <1>3 DEF Maps
<1> HIDE DEF p, m, passed, declared
<1>5. Blessed(declared).used = old.used \cup {j \in Names : old.vars[j] # None}
  BY <1>4, BlessedUsed
<1>6. {j \in Names : old.vars[j] # None} \subseteq TheArguments(k)[Here]
  BY <1>1 DEF TheArguments, Defines
<1>7. ASSUME NEW S, \/ maps' = [maps EXCEPT ![Here] = passed]
                    \/ maps' = [maps EXCEPT ![Here] = declared]
                    \/ maps' = [maps EXCEPT ![Here] = m]
      PROVE  Learns(S)
  BY <1>1, <1>4, <1>7, StoreLearns
<1>8. ASSUME maps' = [maps EXCEPT ![Here] = Blessed(declared)]
      PROVE  Learns(TheArguments(k))
  BY <1>1, <1>5, <1>6, <1>8, StoreLearns
<1> QED BY <1>2, <1>7, <1>8

LEMMA ReinterpretLearns ==
  ASSUME VariableInvariant, NEW k \in Names, NEW v \in Values,
         NEW r \in BOOLEAN, Reinterpret(k, v, r)
  PROVE  Learns(IF <<".bad_args", k>> \in result'.raised THEN TheArguments(k)
                ELSE IF <<".unused_before_set", k>> \in result'.raised
                THEN TheValueOf(k) ELSE Nothing)
<1> DEFINE i == Home(k)
           old == maps[i]
           m == IF k \in old.undefined THEN old
                ELSE [old EXCEPT !.undefined = @ \cup {k}, !.vars[k] = None]
           told == IF m.vars[k] = None THEN m ELSE [m EXCEPT !.used = @ \cup {k}]
           after == [maps EXCEPT ![i] = told]
<1>1. CASE SetVariable(k, v)
  <2>1. <<".bad_args", k>> \notin result'.raised
    BY <1>1 DEF SetVariable, Throw, Store, Raise, Result
  <2> QED BY <1>1, <2>1, SetLearns
<1>2. CASE UNCHANGED maps
  BY <1>2, SameLearns
<1>3. CASE /\ i # 0
           /\ \/ maps' = [maps EXCEPT ![i] = m]
              \/ /\ maps' = [after EXCEPT ![Here] = Blessed(after[Here])]
                 /\ <<".bad_args", k>> \in result'.raised
  <2>1. i \in DOMAIN maps /\ old \in Maps /\ TheValueOf(k)[i] = {k}
    BY <1>3, HomeHears
  <2>2. Here \in DOMAIN maps /\ maps[Here] \in Maps
    BY HereHears
  <2>3. /\ m \in Maps /\ m.used = old.used
        /\ \A j \in Names : m.vars[j] # None => old.vars[j] # None
    BY <2>1 DEF Maps
  <2> HIDE DEF m, i
  <2>4. /\ told \in Maps /\ told.used \subseteq old.used \cup {k}
        /\ told.vars = m.vars
    BY <2>3 DEF Maps
  <2> HIDE DEF told
  <2>5. {k} \subseteq TheArguments(k)[i]
    BY <2>1 DEF TheArguments
  <2>6. {j \in Names : maps[Here].vars[j] # None} \subseteq TheArguments(k)[Here]
    BY <2>2 DEF TheArguments, Defines
  <2>7. ASSUME NEW S, maps' = [maps EXCEPT ![i] = m]  PROVE Learns(S)
    BY <2>1, <2>3, <2>7, StoreLearns
  <2>8. ASSUME maps' = [after EXCEPT ![Here] = Blessed(after[Here])]
        PROVE  Learns(TheArguments(k))
    <3>1. CASE i = Here
      <4>1. maps' = [maps EXCEPT ![i] = Blessed(told)]
        BY <2>1, <2>8, <3>1
      <4>2. Blessed(told).used = told.used \cup {j \in Names : told.vars[j] # None}
        BY <2>4, BlessedUsed
      <4>3. Blessed(told).used \subseteq old.used \cup TheArguments(k)[i]
        BY <2>3, <2>4, <2>5, <2>6, <3>1, <4>2
      <4> QED BY <2>1, <4>1, <4>3, StoreLearns
    <3>2. CASE i # Here
      <4>1. /\ DOMAIN maps' = DOMAIN maps
            /\ maps'[i] = told /\ maps'[Here] = Blessed(maps[Here])
            /\ \A j \in DOMAIN maps : j # i /\ j # Here => maps'[j] = maps[j]
        BY <2>1, <2>2, <2>8, <3>2
      <4>2. Blessed(maps[Here]).used
              = maps[Here].used \cup {j \in Names : maps[Here].vars[j] # None}
        BY <2>2, BlessedUsed
      <4>3. Blessed(maps[Here]).used \subseteq maps[Here].used \cup TheArguments(k)[Here]
        BY <2>6, <4>2
      <4>4. told.used \subseteq maps[i].used \cup TheArguments(k)[i]
        BY <2>4, <2>5
      <4> QED BY <4>1, <4>3, <4>4 DEF Learns
    <3> QED BY <3>1, <3>2
  <2> QED BY <1>3, <2>7, <2>8
<1>4. \/ SetVariable(k, v) \/ UNCHANGED maps
      \/ /\ i # 0
         /\ \/ maps' = [maps EXCEPT ![i] = m]
            \/ /\ maps' = [after EXCEPT ![Here] = Blessed(after[Here])]
               /\ <<".bad_args", k>> \in result'.raised
  BY DEF Reinterpret, Throw, Store, Result
<1> QED BY <1>1, <1>2, <1>3, <1>4

LEMMA LocalInLearns ==
  ASSUME VariableInvariant, NEW op, NEW i \in DOMAIN maps, NEW k \in Names,
         NEW v \in Values, LocalIn(op, i, k, v), NEW S
  PROVE  Learns(S)
<1> DEFINE m == maps[i]
           listed == [m EXCEPT !.local = @ \cup {k}]
           defined == [listed EXCEPT !.vars[k] = v]
<1>1. m \in Maps
  BY MapOK
<1>2. \/ maps' = [maps EXCEPT ![i] = listed]
      \/ maps' = [maps EXCEPT ![i] = defined]
  BY DEF LocalIn, Store, Raise
<1>3. listed.used = m.used /\ defined.used = m.used
  BY <1>1 DEF Maps
<1> HIDE DEF listed, defined
<1> QED BY <1>2, <1>3, StoreLearns

LEMMA DeclareLearns ==
  ASSUME VariableInvariant, NEW k \in Names, LocalDeclare(k), NEW S
  PROVE  Learns(S)
<1> DEFINE m == maps[Here]
           declared == [m EXCEPT !.local = @ \cup {k}, !.undefined = @ \cup {k}]
<1>1. Here \in DOMAIN maps /\ m \in Maps
  BY HereHears
<1>2. \/ maps' = [maps EXCEPT ![Here] = declared]
      \/ UNCHANGED maps
      \/ maps' = [maps EXCEPT ![Here] = m]
  BY DEF LocalDeclare, Store, Throw
<1>3. declared.used = m.used
  BY <1>1 DEF Maps
<1> HIDE DEF m, declared
<1> QED BY <1>1, <1>2, <1>3, StoreLearns, SameLearns DEF m

LEMMA LookLearns ==
  ASSUME VariableInvariant, NEW S,
         \/ \E k \in Names : VarExists(k)
         \/ ListLocals \/ Exit
  PROVE  Learns(S)
<1>1. maps \in Seq(Maps)
  BY DEF VariableInvariant, TypeOK
<1>2. ASSUME NEW k \in Names, VarExists(k)  PROVE Learns(S)
  <2>1. DOMAIN maps' = DOMAIN maps
        /\ \A i \in DOMAIN maps :
             maps'[i] \in {maps[i], [maps[i] EXCEPT !.checked = @ \cup {k}]}
    BY <1>2 DEF VarExists
  <2>2. \A i \in DOMAIN maps : maps'[i].used = maps[i].used
    BY <2>1, MapOK DEF Maps
  <2> QED BY <2>1, <2>2 DEF Learns
<1>3. ASSUME NEW i, NEW m, maps' = [maps EXCEPT ![i] = m],
             i \in DOMAIN maps => m.used = maps[i].used
      PROVE  Learns(S)
  <2>1. DOMAIN maps' = DOMAIN maps
        /\ \A j \in DOMAIN maps : maps'[j] = IF j = i THEN m ELSE maps[j]
    BY <1>1, <1>3
  <2> QED BY <1>3, <2>1 DEF Learns
<1>4. ASSUME ListLocals  PROVE Learns(S)
  <2> DEFINE empty(i) == maps[i].undefined = {} /\ \A k \in Names : ~Defines(i, k)
             i == Innermost({1} \cup {j \in Chain : ~empty(j)})
             m == [maps[i] EXCEPT !.listed = TRUE]
  <2>1. maps' = [maps EXCEPT ![i] = m]
    BY <1>4 DEF ListLocals, Store
  <2> HIDE DEF i
  <2>2. i \in DOMAIN maps => m.used = maps[i].used
    BY MapOK DEF Maps
  <2> HIDE DEF m
  <2> QED BY <1>3, <2>1, <2>2
<1>5. ASSUME Exit  PROVE Learns(S)
  <2> DEFINE m == [maps[1] EXCEPT !.usageChecked = TRUE]
  <2>1. maps' = [maps EXCEPT ![1] = m]
    BY <1>5 DEF Exit
  <2>2. 1 \in DOMAIN maps => m.used = maps[1].used
    BY MapOK DEF Maps
  <2> HIDE DEF m
  <2> QED BY <1>3, <2>1, <2>2
<1> QED BY <1>2, <1>4, <1>5

LEMMA EnterLearns ==
  ASSUME VariableInvariant, NEW p, NEW passed, NEW parent, NEW v,
         Enter(p, passed, parent, v), NEW S
  PROVE  Learns(S)
<1> DEFINE given == NamesOf(passed) \cup (IF p.flags = {} THEN {} ELSE {"-*"})
           n == Fresh(parent, p, [k \in Names |-> IF k \in given THEN v ELSE None],
                      NamesOf(p.flags \cup p.positional) \ given, {})
<1>0. maps' = Append(maps, n)
  BY DEF Enter
<1>3. n.used = {}
  BY DEF Fresh
<1> HIDE DEF n
<1>1. maps \in Seq(Maps)
  BY DEF VariableInvariant, TypeOK
<1>2. DOMAIN maps' = 1 .. Len(maps) + 1 /\ DOMAIN maps = 1 .. Len(maps)
      /\ \A i \in DOMAIN maps' : maps'[i] = IF i \in DOMAIN maps THEN maps[i] ELSE n
  BY <1>0, <1>1
<1> QED BY <1>2, <1>3 DEF Learns

LEMMA LeaveLearns ==
  ASSUME VariableInvariant, Leave, NEW S
  PROVE  Learns(S)
<1>1. Here \in Nat /\ DOMAIN maps = 1 .. Here /\ maps \in Seq(Maps) /\ Here > 1
      /\ maps' = SubSeq(maps, 1, Here - 1)
  BY ChainOK DEF VariableInvariant, TypeOK, Leave
<1>2. DOMAIN maps' = 1 .. Here - 1
      /\ \A i \in 1 .. Here - 1 : maps'[i] = maps[i] /\ i \in DOMAIN maps
  BY <1>1
<1> QED BY <1>2 DEF Learns

\* What nobody hears of teaches nobody.
LEMMA DeafLearns ==
  ASSUME VariableInvariant, Deaf, NEW S
  PROVE  Learns(S)
<1>1. LocalNames \subseteq Names /\ Here \in DOMAIN maps /\ 1 \in DOMAIN maps
  BY NamesAssumption, HereHears, ChainOK DEF VariableInvariant
<1>2. ASSUME NEW k \in LocalNames, NEW v \in Values, Local(k, v) \/ Global(k, v)
      PROVE  Learns(S)
  BY <1>1, <1>2, LocalInLearns, SameLearns DEF Local, Global, Throw
<1>3. ASSUME NEW k \in LocalNames, LocalDeclare(k)  PROVE Learns(S)
  BY <1>1, <1>3, DeclareLearns
<1>4. ASSUME NEW p \in Prototypes, NEW parent \in {1, Here}, NEW v \in Values,
             NEW passed \in SUBSET (p.flags \cup p.positional),
             Enter(p, passed, parent, v)
      PROVE  Learns(S)
  BY <1>4, EnterLearns
<1> QED BY <1>2, <1>3, <1>4, LookLearns, LeaveLearns DEF Deaf

LEMMA ListenLearns ==
  ASSUME VariableInvariant, HeardOK, Listen
  PROVE  HeardOK'
<1>1. ASSUME NEW k \in Names, Get(k),
             Hear(IF Exists(k) THEN TheValueOf(k) ELSE Nothing)
      PROVE  HeardOK'
  BY <1>1, GetLearns, HearOK
<1>2. ASSUME NEW k \in Names, Unset(k),
             HearIf(".unused_before_set", k, TheValueOf(k))
      PROVE  HeardOK'
  BY <1>2, UnsetLearns, HearOK DEF HearIf
<1>3. ASSUME NEW k \in Names, NEW v \in Values, Set(k, v),
             HearIf(".unused_before_set", k, TheValueOf(k))
      PROVE  HeardOK'
  BY <1>3, SetLearns, HearOK DEF HearIf, Set
<1>4. ASSUME FailingExec, Hear(TheEnvironment)  PROVE HeardOK'
  BY <1>4, ExecLearns, HearOK
<1>5. LocalNames \subseteq Names
  BY NamesAssumption
<1>6. ASSUME NEW k \in LocalNames, NEW v \in Values, NEW r \in BOOLEAN,
             Rescope(k, v, r), HearIf(".bad_args", k, TheArguments(k))
      PROVE  HeardOK'
  BY <1>5, <1>6, RescopeLearns, HearOK DEF HearIf
<1>7. ASSUME NEW k \in LocalNames, NEW v \in Values, NEW r \in BOOLEAN,
             Reinterpret(k, v, r),
             IF <<".bad_args", k>> \in result'.raised
             THEN Hear(TheArguments(k))
             ELSE HearIf(".unused_before_set", k, TheValueOf(k))
      PROVE  HeardOK'
  <2>1. Hear(IF <<".bad_args", k>> \in result'.raised THEN TheArguments(k)
             ELSE IF <<".unused_before_set", k>> \in result'.raised
             THEN TheValueOf(k) ELSE Nothing)
    BY <1>7 DEF HearIf
  <2> QED BY <1>5, <1>7, <2>1, ReinterpretLearns, HearOK
<1> QED BY <1>1, <1>2, <1>3, <1>4, <1>6, <1>7 DEF Listen

\* The history only watches.
LEMMA HistoryWatches ==
  ASSUME [HistoryNext]_historyVars
  PROVE  [Next]_vars
BY DEF HistoryNext, Listen, Deaf, Next, historyVars

HistoryInvariant == VariableInvariant /\ HeardOK

LEMMA HistoryStep ==
  ASSUME HistoryInvariant, [HistoryNext]_historyVars
  PROVE  HistoryInvariant'
<1>1. VariableInvariant'
  BY HistoryWatches, VariableStep DEF HistoryInvariant
<1>2. CASE Listen
  BY <1>1, <1>2, ListenLearns DEF HistoryInvariant
<1>3. CASE Deaf /\ Hear(Nothing)
  BY <1>1, <1>3, DeafLearns, HearOK DEF HistoryInvariant
<1>4. CASE UNCHANGED historyVars
  BY <1>1, <1>4 DEF HistoryInvariant, HeardOK, historyVars, vars
<1> QED BY <1>2, <1>3, <1>4 DEF HistoryNext

LEMMA HistoryFirst ==
  ASSUME HistoryInit
  PROVE  HistoryInvariant
<1>1. PICK v \in Values :
        maps = << Fresh(0, NoParameters,
                        [k \in Names |-> IF k = "FIGNORE" THEN v ELSE None],
                        {}, {"FIGNORE"}) >>
  BY DEF HistoryInit, Init
<1> DEFINE m == Fresh(0, NoParameters,
                      [k \in Names |-> IF k = "FIGNORE" THEN v ELSE None],
                      {}, {"FIGNORE"})
<1>2. maps = <<m>> /\ m.used = {}
  BY <1>1 DEF Fresh
<1> HIDE DEF m
<1>3. HeardOK
  BY <1>2 DEF HistoryInit, HeardOK
<1> QED BY <1>3, VariableInit DEF HistoryInit, HistoryInvariant

\* While nobody has heard of any value of a name in a map, neither read by the
\* script nor reported to it, no operation writes over it or removes it, unless
\* .reinterpret withdraws it.
THEOREM InitialValuesAreHeard == HistorySpec => InitialValueHeard
<1>1. ASSUME HistoryInvariant, [HistoryNext]_historyVars
      PROVE  \A i \in DOMAIN maps \cap DOMAIN maps' : \A k \in Names :
               Defines(i, k) /\ maps'[i].vars[k] # maps[i].vars[k]
               => k \in heard[i] \/ k \in maps'[i].undefined
  <2>1. maps \in Seq(Maps) /\ Here \in Nat /\ DOMAIN maps = 1 .. Here
        /\ Here = Len(maps)
    BY <1>1, ChainOK DEF HistoryInvariant, VariableInvariant, TypeOK, Here
  <2>2. [Next]_vars /\ VariableInvariant
    BY <1>1, HistoryWatches DEF HistoryInvariant
  <2>3. \A i \in DOMAIN maps : maps[i].used \subseteq heard[i]
    BY <1>1 DEF HistoryInvariant, HeardOK
  <2>4. CASE InPlace
    BY <2>1, <2>3, <2>4 DEF InPlace, Kept, Defines
  <2>5. CASE Made
    BY <2>1, <2>2, <2>5, MadeIs
  <2>6. CASE Left
    <3>1. \A i \in DOMAIN maps \cap DOMAIN maps' : maps'[i] = maps[i]
      BY <2>1, <2>6 DEF Left
    <3> QED BY <3>1
  <2> QED BY <2>2, <2>4, <2>5, <2>6, StepOK
<1> QED BY <1>1, HistoryFirst, HistoryStep, PTL DEF HistorySpec, InitialValueHeard

\* Whoever only watches leaves everything else as it is: what Spec implies is
\* true with the history, too.
THEOREM HistoryImplementsSpec == HistorySpec => Spec
BY HistoryWatches, PTL DEF HistorySpec, HistoryInit, Spec

-----------------------------------------------------------------------------
\* The report of a map that is left.

\* What the current map defines is what its own functions find.
LEMMA DefinedExists ==
  ASSUME VariableInvariant, NEW k, Defines(Here, k)
  PROVE  Exists(k)
<1> DEFINE S == {i \in Chain : Defines(i, k) \/ k \in maps[i].undefined}
<1>1. Here \in S /\ Here \in Nat /\ \A i \in S : i \in 1 .. Here
  BY ChainOK DEF VariableInvariant
<1> HIDE DEF S
<1>2. Here \in S /\ \A j \in S : j <= Here
  BY <1>1
<1>3. Innermost(S) \in S /\ \A j \in S : j <= Innermost(S)
  BY <1>2 DEF Innermost
<1>4. Innermost(S) = Here
  <2>1. Innermost(S) \in 1 .. Here /\ Here <= Innermost(S)
    BY <1>1, <1>3
  <2> QED BY <1>1, <2>1
<1>5. Home(k) = Here
  BY <1>4 DEF Home, S
<1>6. Here # 0
  BY DEF VariableInvariant, TypeOK
<1> QED BY <1>5, <1>6 DEF Exists

\* The first name of a group that is defined gets the others reported.
LEMMA PositionalReported ==
  ASSUME VariableInvariant, NEW m, NEW g, NEW k \in Members(g), Exists(k),
         k \notin m.used, Exists(g[1])
  PROVE  <<".unused_variable", k>> \in PositionalReport(m, g)
BY DEF PositionalReport, Unused

\* A member of a group is its first name or one of the others.
LEMMA MemberIs ==
  ASSUME NEW g \in Groups, NEW k \in Members(g)
  PROVE  k = g[1] \/ (Len(g) > 1 /\ k \in Members(Tail(g)))
<1>1. g \in Seq(Names) /\ Len(g) \in Nat /\ DOMAIN g = 1 .. Len(g)
  BY DEF Groups
<1> PICK i \in 1 .. Len(g) : k = g[i]
  BY <1>1 DEF Members
<1>2. CASE i > 1
  <2>1. i - 1 \in 1 .. Len(g) - 1 /\ Tail(g)[i - 1] = g[i]
        /\ DOMAIN Tail(g) = 1 .. Len(g) - 1
    BY <1>1, <1>2
  <2>2. Len(g) > 1
    BY <1>1, <1>2
  <2>3. k \in Members(Tail(g))
    BY <2>1 DEF Members
  <2> QED BY <2>2, <2>3
<1> QED BY <1>1, <1>2

LEMMA FlagReported ==
  ASSUME VariableInvariant, NEW g \in Groups, NEW k \in Members(g), Exists(g[1]),
         NEW m, m = maps[Here], k \notin m.used, g \in m.prototype.flags,
         ~UsedWithFlag(m, k)
  PROVE  <<".unused_variable", k>> \in FlagReport(m, g)
<1>1. Len(g) \in Nat /\ Len(g) # 0 /\ DOMAIN g = 1 .. Len(g)
  BY DEF Groups
<1>2. k = g[1] \/ (Len(g) > 1 /\ k \in Members(Tail(g)))
  BY MemberIs
<1>3. g[1] \notin m.used
  BY DEF UsedWithFlag
<1>4. CASE Len(g) = 1
  <2>1. k = g[1]
    BY <1>2, <1>4
  <2>2. ~m.listed /\ k \notin m.checked
    BY <1>4 DEF UsedWithFlag
  <2>3. Members(g) = {k}
    BY <1>1, <1>4, <2>1 DEF Members
  <2>4. Ignored(m, g)
    BY <2>2, <2>3 DEF Ignored
  <2> QED BY <1>3, <1>4, <2>1, <2>4 DEF FlagReport, Unused
<1>5. CASE Len(g) > 1
  <2> DEFINE unread == Members(Tail(g)) \ m.used
  <2>1. k \in unread \/ k = g[1]
    BY <1>2
  <2>2. unread # {}
    BY <1>2, <1>5, <2>1 DEF UsedWithFlag
  <2>3. FlagReport(m, g) = Unused(unread \cup {g[1]})
    BY <1>3, <1>5, <2>2 DEF FlagReport
  <2> QED BY <2>1, <2>3 DEF Unused
<1> QED BY <1>1, <1>4, <1>5

\* What the reports are made of.
LEMMA ReportOf ==
  ASSUME NEW m, NEW p, NEW starUsed
  PROVE  /\ Unused(m.local \ (m.used \cup m.undefined
                                       \cup BlessedWith(m, p, starUsed)))
              \subseteq Report(m, p, starUsed)
         /\ \A g \in p.positional :
              PositionalReport(m, g) \subseteq Report(m, p, starUsed)
         /\ ~starUsed => \A g \in p.flags :
                           FlagReport(m, g) \subseteq Report(m, p, starUsed)
<1> DEFINE locals == Unused(m.local \ (m.used \cup m.undefined
                                                   \cup BlessedWith(m, p, starUsed)))
           positionals == UNION {PositionalReport(m, g) : g \in p.positional}
           flags == UNION {FlagReport(m, g) : g \in p.flags}
           star == IF \E g \in p.flags : ReportsStar(m, g)
                   THEN Unused({"-*"}) ELSE {}
<1>1. Report(m, p, starUsed)
        = (IF starUsed THEN {} ELSE flags \cup star) \cup positionals \cup locals
  BY DEF Report
<1>2. \A g \in p.positional : PositionalReport(m, g) \subseteq positionals
  OBVIOUS
<1>3. \A g \in p.flags : FlagReport(m, g) \subseteq flags
  OBVIOUS
<1> HIDE DEF locals, positionals, flags, star
<1>4. locals \subseteq Report(m, p, starUsed)
      /\ positionals \subseteq Report(m, p, starUsed)
      /\ (~starUsed => flags \subseteq Report(m, p, starUsed))
  BY <1>1
<1> QED BY <1>2, <1>3, <1>4 DEF locals

LEMMA CheckOf ==
  ASSUME NEW m
  PROVE  /\ \A p \in m.extra : Report(m, p, TRUE) \subseteq UnusedVarCheck(m)
         /\ Report(m, m.prototype, "-*" \in m.used \/ m.extra # {})
              \subseteq UnusedVarCheck(m)
<1> DEFINE late == UNION {Report(m, p, TRUE) : p \in m.extra}
           own == Report(m, m.prototype, "-*" \in m.used \/ m.extra # {})
<1>1. UnusedVarCheck(m) = late \cup own
  BY DEF UnusedVarCheck
<1>2. \A p \in m.extra : Report(m, p, TRUE) \subseteq late
  OBVIOUS
<1> HIDE DEF late, own
<1> QED BY <1>1, <1>2 DEF own

\* Whoever leaves a map hears of every value in it that was not read, with the
\* exceptions that UnusedReported names.
THEOREM UnusedAreReported == Spec => UnusedReported
<1> DEFINE m == maps[Here]
           Excepted(k) ==
             \/ UsedWithFlag(m, k) \/ k \in m.undefined
             \/ (k \in NamesOf(m.prototype.flags) /\ m.extra # {})
             \/ \E g \in m.prototype.flags \cup m.prototype.positional :
                  k \in Members(Tail(g)) /\ ~Defines(Here, g[1])
<1>1. ASSUME VariableInvariant, Leave, NEW k \in Unread(Here)
      PROVE  k \in Reported \/ Excepted(k)
  <2>1. m \in Maps /\ JudgedIn(m)
    BY <1>1, ChainOK, MapOK DEF VariableInvariant
  <2>2. k \in Names /\ m.vars[k] # None /\ k \notin m.used /\ Defines(Here, k)
    BY <1>1 DEF Unread, Defines
  <2>3. Exists(k)
    BY <1>1, <2>2, DefinedExists
  <2>4. result'.raised = UnusedVarCheck(m)
    BY <1>1 DEF Leave, Result
  <2> DEFINE told(S) == <<".unused_variable", k>> \in S
  <2>5. SUFFICES ASSUME ~Excepted(k)  PROVE told(UnusedVarCheck(m))
    BY <2>2, <2>4 DEF Reported
  <2>6. "-*" \notin m.used \/ k \notin NamesOf(m.prototype.flags)
    BY <2>5 DEF UsedWithFlag, NamesOf
  <2>7. ASSUME NEW g \in m.prototype.flags \cup m.prototype.positional,
               k \in Members(g)
        PROVE  Exists(g[1])
    <3>1. g \in Groups
      BY <2>1, <2>7 DEF Maps, PrototypeType
    <3>2. k = g[1] \/ k \in Members(Tail(g))
      BY <3>1, <2>7, MemberIs
    <3>3. Defines(Here, g[1])
      BY <2>2, <2>5, <2>7, <3>2
    <3> QED BY <1>1, <3>3, DefinedExists
  <2>8. CASE k \in m.local
    <3> DEFINE star == "-*" \in m.used \/ m.extra # {}
    <3>1. k \notin BlessedWith(m, m.prototype, star)
      <4>1. ASSUME NEW g \in m.prototype.flags, k \in Members(g),
                   star \/ g[1] \in m.used
            PROVE  FALSE
        <5>1. k \in NamesOf(m.prototype.flags)
          BY <4>1 DEF NamesOf
        <5> QED BY <2>5, <2>6, <4>1, <5>1 DEF UsedWithFlag
      <4> QED BY <4>1 DEF BlessedWith, NamesOf
    <3>2. told(Unused(m.local \ (m.used \cup m.undefined
                                  \cup BlessedWith(m, m.prototype, star))))
      BY <2>2, <2>5, <2>8, <3>1 DEF Unused
    <3> QED BY <3>2, ReportOf, CheckOf
  <2>9. CASE k \in NamesOf(m.prototype.positional)
    <3> PICK g \in m.prototype.positional : k \in Members(g)
      BY <2>9 DEF NamesOf
    <3>1. told(PositionalReport(m, g))
      BY <1>1, <2>2, <2>3, <2>7, PositionalReported
    <3> QED BY <3>1, ReportOf, CheckOf
  <2>10. CASE k \in NamesOf(m.prototype.flags)
    <3> PICK g \in m.prototype.flags : k \in Members(g)
      BY <2>10 DEF NamesOf
    <3>1. g \in Groups
      BY <2>1 DEF Maps, PrototypeType
    <3>2. told(FlagReport(m, g))
      BY <1>1, <2>2, <2>5, <2>7, <3>1, FlagReported
    <3>3. m.extra = {} /\ "-*" \notin m.used
      BY <2>5, <2>6, <2>10
    <3> QED BY <3>2, <3>3, ReportOf, CheckOf
  <2>11. CASE \E p \in m.extra : k \in Parameters(p)
    <3> PICK p \in m.extra : k \in Parameters(p)
      BY <2>11
    <3> PICK j \in Names, r \in BOOLEAN : p = Parameter(j, r)
      BY <2>1 DEF Maps, LateParameters
    <3>1. p.positional = {<<j>>} /\ p.flags = {}
      BY DEF Parameter
    <3>2. k \in Members(<<j>>) /\ <<j>>[1] = j
      BY <3>1 DEF Parameters, NamesOf
    <3>3. k = j
      BY <3>2 DEF Members
    <3>4. told(PositionalReport(m, <<j>>))
      BY <1>1, <2>2, <2>3, <3>2, <3>3, PositionalReported
    <3> QED BY <3>1, <3>4, ReportOf, CheckOf
  <2>12. k # "-*"
    BY <2>5 DEF UsedWithFlag
  <2>13. k \in m.local \/ k \in Parameters(m.prototype)
         \/ \E p \in m.extra : k \in Parameters(p)
    BY <2>1, <2>2, <2>12 DEF JudgedIn
  <2>14. k \in Parameters(m.prototype)
         => k \in NamesOf(m.prototype.flags) \/ k \in NamesOf(m.prototype.positional)
    BY DEF Parameters, NamesOf
  <2> QED BY <2>8, <2>9, <2>10, <2>11, <2>13, <2>14
<1>2. VariableInvariant => (Leave => UnreadIsReported)
  BY <1>1 DEF UnreadIsReported
<1>3. VariableInvariant /\ [Next]_vars => VariableInvariant'
  BY VariableStep
<1> QED BY <1>2, <1>3, VariableInit, PTL DEF Spec, UnusedReported

-----------------------------------------------------------------------------
\* The maps implement Scopes: the operators of Scopes in terms of the maps.

LEMMA GreatestOf ==
  ASSUME NEW n \in Nat, NEW T \in SUBSET (1 .. n), T # {}
  PROVE  \E m \in T : \A k \in T : k <= m
<1> DEFINE F == {m + 1 .. n : m \in T}
<1>1. F \subseteq FiniteSubsetsOf(Nat) /\ F # {}
  <2>1. ASSUME NEW m \in T
        PROVE  m + 1 .. n \in SUBSET Nat /\ IsFiniteSet(m + 1 .. n)
    <3>1. m + 1 \in Int /\ n \in Int /\ m + 1 .. n \in SUBSET Nat
      BY m \in 1 .. n
    <3> QED BY <3>1, FS_Interval
  <2> QED BY <2>1 DEF FiniteSubsetsOf
<1>2. IsWellFoundedOn(StrictSubsetOrdering(Nat), FiniteSubsetsOf(Nat))
  BY FS_StrictSubsetOrderingWellFounded
<1> HIDE DEF F
<1>3. \E x \in F : \A y \in F : ~ (<<y, x>> \in StrictSubsetOrdering(Nat))
  BY <1>1, <1>2, WFMin
<1> USE DEF F
<1>4. PICK m \in T :
        \A k \in T : ~ (<<k + 1 .. n, m + 1 .. n>> \in StrictSubsetOrdering(Nat))
  BY <1>3
<1>5. ASSUME NEW k \in T, m < k PROVE FALSE
  <2>1. m \in 1 .. n /\ k \in 1 .. n
    OBVIOUS
  <2>2. k \in m + 1 .. n /\ k \notin k + 1 .. n
    BY <1>5, <2>1
  <2>3. k + 1 .. n \subseteq m + 1 .. n /\ m + 1 .. n \subseteq Nat
        /\ k + 1 .. n \subseteq Nat
    BY <1>5, <2>1
  <2> QED BY <2>2, <2>3, <1>4 DEF StrictSubsetOrdering
<1> QED BY <1>4, <1>5

\* Innermost finds the greatest of some maps.
LEMMA InnermostIs ==
  ASSUME NEW n \in Nat, NEW T \in SUBSET (1 .. n), T # {}
  PROVE  Innermost(T) \in T /\ \A j \in T : j <= Innermost(T)
<1>1. \E m \in T : \A k \in T : k <= m
  BY GreatestOf
<1> QED BY <1>1 DEF Innermost

LEMMA MaxIs ==
  ASSUME NEW n \in Nat, NEW T \in SUBSET (1 .. n), T # {}
  PROVE  Abstract!Max(T) = Innermost(T)
<1>1. PICK m \in T : \A k \in T : k <= m
  BY GreatestOf
<1>2. \A k \in T : m >= k
  BY <1>1
<1>3. Abstract!Max(T) \in T /\ \A k \in T : Abstract!Max(T) >= k
  BY <1>2 DEF Abstract!Max
<1>4. Innermost(T) \in T /\ \A k \in T : k <= Innermost(T)
  BY InnermostIs
<1> HIDE DEF Abstract!Max
<1> DEFINE a == Abstract!Max(T)
           b == Innermost(T)
<1>5. a \in 1 .. n /\ b \in 1 .. n /\ a >= b /\ a <= b
  BY <1>3, <1>4
<1> HIDE DEF a, b
<1>6. a = b
  BY <1>5
<1> QED BY <1>6 DEF a, b

LEMMA BindingIs ==
  ASSUME NEW m \in Maps, NEW k \in Names
  PROVE  /\ Binding(m, k) \in Values \cup {Absent, Undefined}
         /\ Binding(m, k) \in Values <=> m.vars[k] # None
         /\ m.vars[k] # None => Binding(m, k) = m.vars[k]
         /\ Binding(m, k) = Absent <=> m.vars[k] = None /\ k \notin m.undefined
         /\ Binding(m, k) = Undefined <=> m.vars[k] = None /\ k \in m.undefined
<1>1. m.vars[k] \in Values \cup {None}
  BY DEF Maps
<1>2. /\ Absent \notin Values /\ Undefined \notin Values /\ Absent # Undefined
  BY OutcomesAreNoValues
<1>3. None \notin Values
  BY NamesAssumption
<1> QED BY <1>1, <1>2, <1>3 DEF Binding

ScopeType ==
  [parent: Nat, binds: [Names -> Values \cup {Absent, Undefined}]]
Scoped ==
  [i \in DOMAIN maps |->
     [parent |-> maps[i].parent, binds |-> [k \in Names |-> Binding(maps[i], k)]]]

LEMMA ScopedOK ==
  ASSUME TypeOK
  PROVE  /\ Scoped \in Seq(ScopeType) /\ Len(Scoped) = Here
         /\ DOMAIN Scoped = 1 .. Here
         /\ \A i \in 1 .. Here : Scoped[i].parent = maps[i].parent
         /\ \A i \in 1 .. Here : \A k \in Names :
              Scoped[i].binds[k] = Binding(maps[i], k)
<1>1. DOMAIN maps = 1 .. Here /\ Here \in Nat /\ \A i \in 1 .. Here : maps[i] \in Maps
  BY ChainOK DEF TypeOK
<1>2. ASSUME NEW i \in 1 .. Here
      PROVE  [parent |-> maps[i].parent,
              binds |-> [k \in Names |-> Binding(maps[i], k)]] \in ScopeType
  <2>1. maps[i].parent \in Nat
    BY <1>1 DEF Maps
  <2>2. [k \in Names |-> Binding(maps[i], k)] \in [Names -> Values \cup {Absent, Undefined}]
    BY <1>1, BindingIs
  <2> QED BY <2>1, <2>2 DEF ScopeType
<1>3. Scoped \in [1 .. Here -> ScopeType]
  BY <1>1, <1>2 DEF Scoped
<1>4. Scoped \in Seq(ScopeType) /\ Len(Scoped) = Here
  <2> HIDE DEF Here
  <2> QED BY <1>1, <1>3
<1> QED BY <1>1, <1>4 DEF Scoped

LEMMA LastIs ==
  ASSUME TypeOK
  PROVE  Abstract!Last = Here
BY ScopedOK DEF Abstract!Last, Scoped

LEMMA VisibleIs ==
  ASSUME TypeOK
  PROVE  Abstract!Visible = Chain
<1>1. DOMAIN maps = 1 .. Here /\ Here \in Nat
  BY ChainOK
<1>2. Abstract!Visible =
        {i \in DOMAIN Scoped :
           i = 1 \/ \A j \in i + 1 .. Here : Scoped[j].parent # 1}
  BY LastIs DEF Abstract!Visible, Scoped
<1>3. ASSUME NEW i \in 1 .. Here, NEW j \in i + 1 .. Here
      PROVE  Scoped[j].parent = maps[j].parent
  <2>1. j \in 1 .. Here
    BY <1>1
  <2> QED BY <2>1, ScopedOK
<1> QED BY <1>1, <1>2, <1>3, ScopedOK DEF Chain

LEMMA HomeIs ==
  ASSUME TypeOK, NEW k \in Names
  PROVE  Abstract!Home(k) = Home(k)
<1> DEFINE T == {i \in Chain : Defines(i, k) \/ k \in maps[i].undefined}
           knows == {i \in Chain : Scoped[i].binds[k] # Absent}
<1>1. Chain \subseteq 1 .. Here /\ Here \in Nat /\ DOMAIN maps = 1 .. Here
      /\ \A i \in 1 .. Here : maps[i] \in Maps
  BY ChainOK DEF TypeOK
<1>2. knows = T
  <2>1. ASSUME NEW i \in Chain
        PROVE  Scoped[i].binds[k] # Absent <=> Defines(i, k) \/ k \in maps[i].undefined
    <3>1. i \in 1 .. Here /\ maps[i] \in Maps
      BY <1>1
    <3>2. Scoped[i].binds[k] = Binding(maps[i], k)
      BY <3>1, ScopedOK
    <3>3. Binding(maps[i], k) = Absent <=> maps[i].vars[k] = None /\ k \notin maps[i].undefined
      BY <3>1, BindingIs
    <3> QED BY <3>2, <3>3 DEF Defines
  <2> QED BY <2>1
<1>3. Abstract!Home(k) = IF knows = {} THEN 0 ELSE Abstract!Max(knows)
  BY VisibleIs DEF Abstract!Home, Scoped
<1>4. Home(k) = Innermost(T) /\ T \subseteq 1 .. Here
  BY <1>1 DEF Home
<1> HIDE DEF T, knows
<1>5. CASE T = {}
  BY <1>2, <1>3, <1>4, <1>5 DEF Innermost
<1>6. CASE T # {}
  BY <1>1, <1>2, <1>3, <1>4, <1>6, MaxIs
<1> QED BY <1>5, <1>6

LEMMA MeaningIs ==
  ASSUME TypeOK, NEW k \in Names
  PROVE  /\ Home(k) = 0 => Abstract!Meaning(k) = Absent
         /\ Home(k) # 0 => /\ Home(k) \in 1 .. Here
                           /\ Abstract!Meaning(k) = Binding(maps[Home(k)], k)
                           /\ Abstract!Meaning(k) # Absent
<1>1. Abstract!Meaning(k) =
        IF Home(k) = 0 THEN Absent ELSE Scoped[Home(k)].binds[k]
  BY HomeIs DEF Abstract!Meaning, Scoped
<1>2. ASSUME Home(k) # 0
      PROVE  /\ Home(k) \in 1 .. Here /\ Binding(maps[Home(k)], k) # Absent
             /\ Scoped[Home(k)].binds[k] = Binding(maps[Home(k)], k)
  <2>1. Home(k) \in 1 .. Here
        /\ (maps[Home(k)].vars[k] # None \/ k \in maps[Home(k)].undefined)
    BY <1>2, HomeIn, ChainOK DEF Defines
  <2>2. maps[Home(k)] \in Maps
    BY <2>1, ChainOK DEF TypeOK
  <2> QED BY <2>1, <2>2, BindingIs, ScopedOK
<1> QED BY <1>1, <1>2

-----------------------------------------------------------------------------
\* How a step looks to Scopes: what it does with the scopes, and its outcome.

LEMMA SameScopes ==
  ASSUME DOMAIN maps' = DOMAIN maps,
         \A i \in DOMAIN maps :
           /\ maps'[i].parent = maps[i].parent
           /\ \A k \in Names : Binding(maps'[i], k) = Binding(maps[i], k)
  PROVE  UNCHANGED Scoped
<1>1. ASSUME NEW i \in DOMAIN maps
      PROVE  [k \in Names |-> Binding(maps'[i], k)] = [k \in Names |-> Binding(maps[i], k)]
  BY <1>1
<1> QED BY <1>1 DEF Scoped

\* What may become of one map: nothing that Scopes sees, or another binding.
SameScope(m, n) ==
  n.parent = m.parent /\ \A k \in Names : Binding(n, k) = Binding(m, k)
Rebinds(m, n, k, b) ==
  /\ n.parent = m.parent /\ Binding(n, k) = b
  /\ \A j \in Names : j # k => Binding(n, j) = Binding(m, j)

LEMMA StoreKeeps ==
  ASSUME TypeOK, NEW i \in DOMAIN maps, NEW m, SameScope(maps[i], m),
         maps' = [maps EXCEPT ![i] = m]
  PROVE  UNCHANGED Scoped
<1>1. DOMAIN maps' = DOMAIN maps /\ maps'[i] = m
      /\ \A j \in DOMAIN maps : j # i => maps'[j] = maps[j]
  BY DEF TypeOK
<1> QED BY <1>1, SameScopes DEF SameScope

\* Scopes with another binding of k in the scope i.
Rebound(i, k, b) == Scoped' = [Scoped EXCEPT ![i].binds[k] = b]

LEMMA BindIn ==
  ASSUME NEW p, NEW q, NEW k, NEW b, NEW s, s = [parent |-> p, binds |-> q]
  PROVE  [s EXCEPT !.binds[k] = b] = [parent |-> p, binds |-> [q EXCEPT ![k] = b]]
OBVIOUS

LEMMA ScopesRebound ==
  ASSUME NEW i \in DOMAIN maps, NEW k \in Names, NEW b, NEW m, m = maps'[i],
         Rebinds(maps[i], m, k, b), DOMAIN maps' = DOMAIN maps,
         \A j \in DOMAIN maps : j # i => SameScope(maps[j], maps'[j])
  PROVE  Rebound(i, k, b)
<1> DEFINE new == [Scoped[i] EXCEPT !.binds[k] = b]
<1>1. DOMAIN maps' = DOMAIN maps /\ maps'[i] = m
  OBVIOUS
<1>0. m.parent = maps[i].parent /\ Binding(m, k) = b
      /\ \A j \in Names : j # k => Binding(m, j) = Binding(maps[i], j)
  BY DEF Rebinds
<1>2. Scoped' = [j \in DOMAIN maps |->
                   [parent |-> maps'[j].parent,
                    binds |-> [n \in Names |-> Binding(maps'[j], n)]]]
  BY <1>1 DEF Scoped
<1>3. DOMAIN Scoped = DOMAIN maps
      /\ Scoped[i] = [parent |-> maps[i].parent,
                      binds |-> [n \in Names |-> Binding(maps[i], n)]]
  BY DEF Scoped
<1>4. [n \in Names |-> Binding(m, n)]
        = [[n \in Names |-> Binding(maps[i], n)] EXCEPT ![k] = b]
  <2> DEFINE old == [n \in Names |-> Binding(maps[i], n)]
  <2>1. \A n \in Names : Binding(m, n) = IF n = k THEN b ELSE old[n]
    BY <1>0
  <2>2. DOMAIN old = Names /\ old = [n \in Names |-> old[n]]
    OBVIOUS
  <2> HIDE DEF old
  <2>3. [n \in Names |-> Binding(m, n)]
          = [n \in Names |-> IF n = k THEN b ELSE old[n]]
    BY <2>1
  <2>4. [old EXCEPT ![k] = b] = [n \in Names |-> IF n = k THEN b ELSE old[n]]
    BY <2>2
  <2> QED BY <2>3, <2>4 DEF old
<1>5. Scoped'[i] = new
  <2> DEFINE old == [n \in Names |-> Binding(maps[i], n)]
             fresh == [n \in Names |-> Binding(m, n)]
  <2>1. Scoped'[i] = [parent |-> m.parent, binds |-> fresh]
    BY <1>1, <1>2
  <2>2. Scoped[i] = [parent |-> maps[i].parent, binds |-> old]
        /\ fresh = [old EXCEPT ![k] = b]
    BY <1>3, <1>4
  <2> HIDE DEF fresh, old
  <2>3. new = [parent |-> maps[i].parent, binds |-> [old EXCEPT ![k] = b]]
    BY <2>2, BindIn
  <2> QED BY <1>0, <2>1, <2>2, <2>3
<1>6. ASSUME NEW j \in DOMAIN maps, j # i PROVE Scoped'[j] = Scoped[j]
  <2>1. maps'[j].parent = maps[j].parent
        /\ \A n \in Names : Binding(maps'[j], n) = Binding(maps[j], n)
    BY <1>6 DEF SameScope
  <2>2. [n \in Names |-> Binding(maps'[j], n)] = [n \in Names |-> Binding(maps[j], n)]
    BY <2>1
  <2>3. Scoped[j] = [parent |-> maps[j].parent,
                     binds |-> [n \in Names |-> Binding(maps[j], n)]]
    BY DEF Scoped
  <2>4. Scoped'[j] = [parent |-> maps'[j].parent,
                      binds |-> [n \in Names |-> Binding(maps'[j], n)]]
    BY <1>1, <1>2
  <2> QED BY <2>1, <2>2, <2>3, <2>4
<1>7. Scoped' = [j \in DOMAIN maps |-> Scoped'[j]]
  BY <1>2
<1> HIDE DEF new
<1>8. Scoped' = [Scoped EXCEPT ![i] = new]
  <2>1. Scoped = [j \in DOMAIN maps |-> Scoped[j]]
    BY DEF Scoped
  <2> HIDE DEF Scoped
  <2> QED BY <1>3, <1>5, <1>6, <1>7, <2>1
<1> QED BY <1>8 DEF Rebound, new

LEMMA StoreBinds ==
  ASSUME TypeOK, NEW i \in DOMAIN maps, NEW k \in Names, NEW b, NEW m,
         Rebinds(maps[i], m, k, b), maps' = [maps EXCEPT ![i] = m]
  PROVE  Rebound(i, k, b)
<1>1. DOMAIN maps' = DOMAIN maps /\ m = maps'[i]
      /\ \A j \in DOMAIN maps : j # i => maps'[j] = maps[j]
  BY DEF TypeOK
<1>2. \A j \in DOMAIN maps : j # i => SameScope(maps[j], maps'[j])
  BY <1>1 DEF SameScope
<1> QED BY <1>1, <1>2, ScopesRebound

LEMMA KeepIs ==
  ASSUME UNCHANGED Scoped, NEW o, Outcome' = o
  PROVE  Abstract!Keep(o)
BY DEF Abstract!Keep, Abstract!Ends, Scoped

LEMMA BindIs ==
  ASSUME NEW i, NEW k, NEW b, Rebound(i, k, b), Outcome' = Done
  PROVE  Abstract!Bind(i, k, b)
BY DEF Abstract!Bind, Abstract!Ends, Scoped, Rebound

LEMMA ResultIs ==
  ASSUME NEW op, NEW value, NEW raised, Result(op, value, raised)
  PROVE  /\ result'.op = op
         /\ raised # {} => Outcome' = Refused
         /\ raised = {} /\ value # None => Outcome' = value
         /\ raised = {} /\ value = None => Outcome' = Done
BY DEF Result, Outcome

LEMMA RaiseIs ==
  ASSUME NEW op, NEW i, NEW m, NEW name, NEW k, Raise(op, i, m, name, k)
  PROVE  maps' = [maps EXCEPT ![i] = m] /\ result'.op = op /\ Outcome' = Refused
BY ResultIs, {<<name, k>>} # {} DEF Raise

LEMMA ThrowIs ==
  ASSUME NEW op, NEW name, NEW k, Throw(op, name, k)
  PROVE  UNCHANGED maps /\ UNCHANGED Scoped /\ result'.op = op /\ Outcome' = Refused
BY ResultIs, {<<name, k>>} # {} DEF Throw, Scoped

LEMMA StoreIs ==
  ASSUME NEW op, NEW i, NEW m, Store(op, i, m)
  PROVE  maps' = [maps EXCEPT ![i] = m] /\ result'.op = op /\ Outcome' = Done
BY ResultIs DEF Store

LEMMA NextIs ==
  ASSUME NEW op \in Abstract!Operations, result'.op = op,
         Outcome' \in Values \cup {Done, Refused}, Abstract!Effect(op)
  PROVE  Abstract!ScopesNext
BY DEF Abstract!ScopesNext, Abstract!Outcomes

LEMMA EffectIs ==
  /\ Abstract!Effect("get") <=> \E k \in Names : Abstract!Read(k)
  /\ Abstract!Effect("exists") <=> \E k \in Names : Abstract!Exists(k)
  /\ Abstract!Effect("set") <=> \E k \in Names, v \in Values : Abstract!Assign(k, v)
  /\ Abstract!Effect("local")
       <=> \E k \in Names, v \in Values : Abstract!DefineLocal(k, v)
  /\ Abstract!Effect("global")
       <=> \E k \in Names, v \in Values : Abstract!DefineGlobal(k, v)
  /\ Abstract!Effect("declare") <=> \E k \in Names : Abstract!Declare(k)
  /\ Abstract!Effect("unset") <=> \E k \in Names : Abstract!Remove(k)
  /\ Abstract!Effect("rescope")
       <=> \E k \in Names, b \in Values \cup {Undefined} : Abstract!Introduce(k, b)
  /\ Abstract!Effect("reinterpret") <=> \E k \in Names : Abstract!Undefine(k)
  /\ Abstract!Effect("open") <=> Abstract!Open
  /\ Abstract!Effect("close") <=> Abstract!Close
  /\ Abstract!Effect("look") <=> Abstract!Look
BY DEF Abstract!Effect

-----------------------------------------------------------------------------
\* Each operation is one of Scopes.

LEMMA Surroundings ==
  ASSUME VariableInvariant
  PROVE  /\ TypeOK /\ maps \in Seq(Maps)
         /\ Here \in DOMAIN maps /\ 1 \in DOMAIN maps /\ DOMAIN maps = 1 .. Here
         /\ Chain \subseteq DOMAIN maps
         /\ \A i \in DOMAIN maps : maps[i] \in Maps
BY ChainOK, MapOK DEF VariableInvariant, TypeOK

\* The home of a name is the map that says what it means.
LEMMA AtHome ==
  ASSUME VariableInvariant, NEW k \in Names, Home(k) # 0
  PROVE  /\ Home(k) \in DOMAIN maps /\ maps[Home(k)] \in Maps
         /\ Abstract!Home(k) = Home(k) /\ Abstract!Meaning(k) # Absent
         /\ Abstract!Meaning(k) = Binding(maps[Home(k)], k)
         /\ Abstract!Meaning(k) \in Values <=> Defines(Home(k), k)
         /\ Defines(Home(k), k) => Abstract!Meaning(k) = maps[Home(k)].vars[k]
         /\ ~Defines(Home(k), k) => Abstract!Meaning(k) = Undefined
<1>1. TypeOK /\ DOMAIN maps = 1 .. Here /\ \A i \in DOMAIN maps : maps[i] \in Maps
  BY Surroundings
<1>2. Home(k) \in DOMAIN maps /\ Abstract!Meaning(k) = Binding(maps[Home(k)], k)
      /\ Abstract!Meaning(k) # Absent /\ Abstract!Home(k) = Home(k)
  BY <1>1, MeaningIs, HomeIs
<1>3. maps[Home(k)] \in Maps
  BY <1>1, <1>2
<1>4. /\ Binding(maps[Home(k)], k) \in Values <=> Defines(Home(k), k)
      /\ Defines(Home(k), k) => Binding(maps[Home(k)], k) = maps[Home(k)].vars[k]
      /\ Binding(maps[Home(k)], k) \in Values \cup {Absent, Undefined}
  BY <1>3, BindingIs DEF Defines
<1> QED BY <1>2, <1>3, <1>4

LEMMA Homeless ==
  ASSUME VariableInvariant, NEW k \in Names, Home(k) = 0
  PROVE  Abstract!Meaning(k) = Absent /\ Absent \notin Values /\ Absent # Undefined
BY Surroundings, MeaningIs, OutcomesAreNoValues

\* What is neither a value nor a declaration is not seen.
LEMMA SameBindings ==
  ASSUME NEW m, NEW n, n.parent = m.parent, n.vars = m.vars,
         n.undefined = m.undefined
  PROVE  SameScope(m, n)
BY DEF Binding, SameScope

LEMMA OtherBinding ==
  ASSUME NEW m, NEW n, n.parent = m.parent, NEW k, NEW b, Binding(n, k) = b,
         \A j \in Names : j # k => /\ n.vars[j] = m.vars[j]
                                   /\ j \in n.undefined <=> j \in m.undefined
  PROVE  Rebinds(m, n, k, b)
BY DEF Binding, Rebinds

LEMMA GetScopes ==
  ASSUME VariableInvariant, NEW k \in Names, Get(k)
  PROVE  Abstract!ScopesNext
<1> DEFINE i == Home(k)
<1>1. \/ i = 0 /\ Throw("get", ".undeclared_variable", k)
      \/ i # 0 /\ ~Defines(i, k) /\ Throw("get", ".undefined_variable", k)
      \/ /\ i # 0 /\ Defines(i, k)
         /\ maps' = [maps EXCEPT ![i].used = @ \cup {k}]
         /\ Result("get", maps[i].vars[k], {})
  BY DEF Get, Exists
<1>2. Undefined \notin Values
  BY OutcomesAreNoValues
<1>3. ASSUME i = 0, Throw("get", ".undeclared_variable", k)
      PROVE  Abstract!Read(k)
  BY <1>3, Homeless, ThrowIs, KeepIs DEF Abstract!Read
<1>4. ASSUME i # 0, ~Defines(i, k), Throw("get", ".undefined_variable", k)
      PROVE  Abstract!Read(k)
  BY <1>2, <1>4, AtHome, ThrowIs, KeepIs DEF Abstract!Read
<1>5. ASSUME i # 0, Defines(i, k), maps' = [maps EXCEPT ![i].used = @ \cup {k}],
             Result("get", maps[i].vars[k], {})
      PROVE  Abstract!Read(k) /\ result'.op = "get" /\ Outcome' \in Values
  <2>1. i \in DOMAIN maps /\ maps[i] \in Maps /\ TypeOK
        /\ Abstract!Meaning(k) = maps[i].vars[k] /\ Abstract!Meaning(k) \in Values
    BY <1>5, AtHome, Surroundings
  <2> DEFINE m == [maps[i] EXCEPT !.used = @ \cup {k}]
  <2>2. m.parent = maps[i].parent /\ m.vars = maps[i].vars
        /\ m.undefined = maps[i].undefined
    BY <2>1 DEF Maps
  <2>3. maps' = [maps EXCEPT ![i] = m]
    BY <1>5
  <2>4. maps[i].vars[k] # None
    BY <1>5 DEF Defines
  <2> HIDE DEF m, i
  <2>5. UNCHANGED Scoped
    <3>1. SameScope(maps[i], m)
      BY <2>2, SameBindings
    <3> QED BY <2>1, <2>2, <2>3, <3>1, StoreKeeps
  <2>6. Outcome' = maps[i].vars[k] /\ result'.op = "get"
    BY <1>5, <2>4, ResultIs
  <2> QED BY <2>1, <2>5, <2>6, KeepIs DEF Abstract!Read
<1>6. Abstract!Read(k) /\ result'.op = "get" /\ Outcome' \in Values \cup {Done, Refused}
  <2>1. CASE i = 0 \/ ~Defines(i, k)
    BY <1>1, <1>3, <1>4, <2>1, ThrowIs
  <2>2. CASE i # 0 /\ Defines(i, k)
    BY <1>1, <1>5, <2>2
  <2> QED BY <2>1, <2>2
<1>7. Abstract!Effect("get")
  BY <1>6, EffectIs
<1> QED BY <1>6, <1>7, NextIs DEF Abstract!Operations

LEMMA VarExistsScopes ==
  ASSUME VariableInvariant, NEW k \in Names, VarExists(k)
  PROVE  Abstract!ScopesNext
<1>1. maps' = [i \in DOMAIN maps |->
                 IF i \in Chain /\ i >= Home(k)
                 THEN [maps[i] EXCEPT !.checked = @ \cup {k}] ELSE maps[i]]
      /\ Result("exists", None, IF Exists(k) THEN {} ELSE {<<".false", k>>})
  BY DEF VarExists
<1>2. UNCHANGED Scoped
  <2>1. ASSUME NEW i \in DOMAIN maps
        PROVE  /\ maps'[i].parent = maps[i].parent
               /\ \A n \in Names : Binding(maps'[i], n) = Binding(maps[i], n)
    <3>1. maps[i] \in Maps
      BY Surroundings
    <3>2. maps'[i] \in {maps[i], [maps[i] EXCEPT !.checked = @ \cup {k}]}
      BY <1>1
    <3>3. maps'[i].parent = maps[i].parent /\ maps'[i].vars = maps[i].vars
          /\ maps'[i].undefined = maps[i].undefined
      BY <3>1, <3>2 DEF Maps
    <3> QED BY <3>3, SameBindings DEF SameScope
  <2>2. DOMAIN maps' = DOMAIN maps
    BY <1>1
  <2> QED BY <2>1, <2>2, SameScopes
<1>3. /\ result'.op = "exists"
      /\ Exists(k) => Outcome' = Done
      /\ ~Exists(k) => Outcome' = Refused
  <2>1. CASE Exists(k)
    BY <1>1, <2>1, ResultIs
  <2>2. CASE ~Exists(k)
    <3>1. {<<".false", k>>} # {}
      OBVIOUS
    <3>2. Result("exists", None, {<<".false", k>>})
      BY <1>1, <2>2
    <3> QED BY <2>2, <3>1, <3>2, ResultIs
  <2> QED BY <2>1, <2>2
<1>4. Exists(k) <=> Abstract!Meaning(k) \in Values
  BY AtHome, Homeless DEF Exists
<1>5. Abstract!Exists(k)
  BY <1>2, <1>3, <1>4, KeepIs DEF Abstract!Exists
<1>6. Abstract!Effect("exists")
  BY <1>5, EffectIs
<1> QED BY <1>3, <1>6, NextIs DEF Abstract!Operations

LEMMA SetScopes ==
  ASSUME VariableInvariant, NEW k \in Names, NEW v \in Values, SetVariable(k, v)
  PROVE  Abstract!ScopesNext
<1> DEFINE i == Home(k)
           m == maps[i]
           value == [m EXCEPT !.vars[k] = v]
           defined == [m EXCEPT !.undefined = @ \ {k}, !.vars[k] = v]
           read == [m EXCEPT !.used = @ \cup {k}]
<1>1. \/ i = 0 /\ Throw("set", ".undeclared_variable", k)
      \/ i # 0 /\ Store("set", i, defined)
      \/ /\ i # 0 /\ Defines(i, k) /\ m.vars[k] # v
         /\ Raise("set", i, read, ".unused_before_set", k)
      \/ i # 0 /\ Store("set", i, value)
  BY DEF SetVariable
<1>2. CASE i = 0 /\ Throw("set", ".undeclared_variable", k)
  <2>1. Abstract!Meaning(k) = Absent /\ Absent # v /\ Absent # Undefined
    BY <1>2, Homeless
  <2>2. Abstract!Keep(Refused) /\ result'.op = "set" /\ Outcome' = Refused
    BY <1>2, ThrowIs, KeepIs
  <2> QED BY <2>1, <2>2, EffectIs, NextIs DEF Abstract!Operations, Abstract!Assign
<1>3. ASSUME i # 0  PROVE i \in DOMAIN maps /\ m \in Maps /\ TypeOK
  BY <1>3, AtHome, Surroundings
<1>4. ASSUME i # 0, NEW n \in {value, defined}, Store("set", i, n)
      PROVE  Abstract!ScopesNext
  <2>1. n.parent = m.parent /\ n.vars[k] = v
        /\ \A j \in Names : j # k => /\ n.vars[j] = m.vars[j]
                                     /\ j \in n.undefined <=> j \in m.undefined
    BY <1>3, <1>4 DEF Maps
  <2>2. v # None
    BY NamesAssumption
  <2>3. Rebinds(m, n, k, v)
    <3>1. Binding(n, k) = v
      BY <2>1, <2>2 DEF Binding
    <3> HIDE DEF m
    <3> QED BY <2>1, <3>1, OtherBinding
  <2>4. maps' = [maps EXCEPT ![i] = n] /\ result'.op = "set" /\ Outcome' = Done
    BY <1>4, StoreIs
  <2>5. Abstract!Home(k) = i /\ Abstract!Meaning(k) # Absent
    BY <1>4, AtHome
  <2> HIDE DEF i, value, defined
  <2>6. Rebound(i, k, v)
    BY <1>3, <1>4, <2>1, <2>3, <2>4, StoreBinds
  <2>7. Abstract!Bind(i, k, v)
    BY <2>4, <2>6, BindIs
  <2> QED BY <2>4, <2>5, <2>7, EffectIs, NextIs
          DEF Abstract!Operations, Abstract!Assign
<1>5. ASSUME i # 0, Defines(i, k), m.vars[k] # v,
             Raise("set", i, read, ".unused_before_set", k)
      PROVE  Abstract!ScopesNext
  <2>1. read.parent = m.parent /\ read.vars = m.vars /\ read.undefined = m.undefined
    BY <1>3, <1>5 DEF Maps
  <2>2. maps' = [maps EXCEPT ![i] = read] /\ result'.op = "set" /\ Outcome' = Refused
    BY <1>5, RaiseIs
  <2>3. Abstract!Meaning(k) \in Values /\ Abstract!Meaning(k) # v /\ Undefined \notin Values
    BY <1>5, AtHome, OutcomesAreNoValues
  <2> HIDE DEF i, read
  <2>4. UNCHANGED Scoped
    <3>1. SameScope(maps[i], read)
      BY <2>1, SameBindings
    <3> QED BY <1>3, <1>5, <2>1, <2>2, <3>1, StoreKeeps
  <2> QED BY <2>2, <2>3, <2>4, KeepIs, EffectIs, NextIs
          DEF Abstract!Operations, Abstract!Assign
<1> HIDE DEF value, defined, read, i
<1> QED BY <1>1, <1>2, <1>4, <1>5

LEMMA LocalInDefines ==
  ASSUME VariableInvariant, NEW op, NEW i \in DOMAIN maps, NEW k \in Names,
         NEW v \in Values, LocalIn(op, i, k, v)
  PROVE  Abstract!Define(i, k, v) /\ result'.op = op /\ Outcome' \in {Done, Refused}
<1> DEFINE m == maps[i]
           listed == [m EXCEPT !.local = @ \cup {k}]
           defined == [listed EXCEPT !.vars[k] = v]
<1>1. m \in Maps /\ TypeOK
  BY Surroundings
<1>2. listed.parent = m.parent /\ listed.vars = m.vars
      /\ listed.undefined = m.undefined
  BY <1>1 DEF Maps
<1>3. \/ m.vars[k] \in {None, v} /\ Store(op, i, defined)
      \/ m.vars[k] \notin {None, v}
         /\ Raise(op, i, listed, ".variable_already_exists", k)
  BY <1>2 DEF LocalIn
<1>4. Scoped[i].binds[k] = Binding(m, k)
  BY <1>1, ScopedOK, Surroundings
<1>5. Abstract!Define(i, k, v)
        = IF Binding(m, k) \in {Absent, Undefined, v}
          THEN Abstract!Bind(i, k, v) ELSE Abstract!Keep(Refused)
  BY <1>4 DEF Abstract!Define, Scoped
<1>6. CASE m.vars[k] \in {None, v} /\ Store(op, i, defined)
  <2>1. defined.parent = m.parent /\ defined.vars[k] = v /\ v # None
        /\ \A j \in Names : j # k => /\ defined.vars[j] = m.vars[j]
                                     /\ j \in defined.undefined <=> j \in m.undefined
    BY <1>1, NamesAssumption DEF Maps
  <2>2. maps' = [maps EXCEPT ![i] = defined] /\ result'.op = op /\ Outcome' = Done
    BY <1>6, StoreIs
  <2>3. Binding(m, k) \in {Absent, Undefined, v}
    BY <1>1, <1>6, BindingIs
  <2> HIDE DEF defined
  <2>4. Rebinds(m, defined, k, v)
    <3>1. Binding(defined, k) = v
      BY <2>1 DEF Binding
    <3> HIDE DEF m
    <3> QED BY <2>1, <3>1, OtherBinding
  <2>5. Rebound(i, k, v)
    BY <1>1, <2>2, <2>4, StoreBinds
  <2> QED BY <1>5, <2>2, <2>3, <2>5, BindIs
<1>7. CASE m.vars[k] \notin {None, v}
           /\ Raise(op, i, listed, ".variable_already_exists", k)
  <2>1. maps' = [maps EXCEPT ![i] = listed] /\ result'.op = op /\ Outcome' = Refused
    BY <1>7, RaiseIs
  <2>2. Binding(m, k) \notin {Absent, Undefined, v}
    BY <1>1, <1>7, BindingIs, OutcomesAreNoValues
  <2> HIDE DEF listed
  <2>3. SameScope(m, listed)
    BY <1>2, SameBindings
  <2>4. UNCHANGED Scoped
    BY <1>1, <2>1, <2>3, StoreKeeps
  <2> QED BY <1>5, <2>1, <2>2, <2>4, KeepIs
<1> QED BY <1>3, <1>6, <1>7

LEMMA LocalScopes ==
  ASSUME VariableInvariant, NEW k \in Names, NEW v \in Values, Local(k, v)
  PROVE  Abstract!ScopesNext
<1>1. PICK i \in DOMAIN maps : i = Here /\ Abstract!Last = i
  BY Surroundings, LastIs
<1>0. LocalIn("local", i, k, v)
  BY <1>1 DEF Local, LocalIn, Store, Raise
<1>2. Abstract!Define(i, k, v) /\ result'.op = "local" /\ Outcome' \in {Done, Refused}
  BY <1>0, LocalInDefines
<1>3. Abstract!Effect("local")
  <2>1. Abstract!DefineLocal(k, v)
    BY <1>1, <1>2 DEF Abstract!DefineLocal, Abstract!Define, Abstract!Bind
  <2> QED BY <2>1, EffectIs
<1> QED BY <1>2, <1>3, NextIs DEF Abstract!Operations

LEMMA GlobalScopes ==
  ASSUME VariableInvariant, NEW k \in Names, NEW v \in Values, Global(k, v)
  PROVE  Abstract!ScopesNext
<1> DEFINE masked == \E i \in Chain \ {1} : Defines(i, k)
<1>1. IF masked THEN Throw("global", ".global_would_be_masked", k)
      ELSE LocalIn("global", 1, k, v)
  BY DEF Global
<1>2. ASSUME NEW i \in Chain
      PROVE  Scoped[i].binds[k] \in Values <=> Defines(i, k)
  <2>1. i \in 1 .. Here /\ maps[i] \in Maps /\ TypeOK
    BY Surroundings
  <2> QED BY <2>1, ScopedOK, BindingIs DEF Defines
<1>3. masked <=> \E i \in Abstract!Visible \ {1} : Scoped[i].binds[k] \in Values
  BY <1>2, VisibleIs, Surroundings
<1>4. Abstract!DefineGlobal(k, v)
        = IF masked THEN Abstract!Keep(Refused) ELSE Abstract!Define(1, k, v)
  BY <1>3 DEF Abstract!DefineGlobal, Scoped
<1> HIDE DEF masked
<1>5. /\ Abstract!DefineGlobal(k, v) /\ result'.op = "global"
      /\ Outcome' \in {Done, Refused}
  <2>1. CASE masked
    BY <1>1, <1>4, <2>1, ThrowIs, KeepIs
  <2>2. CASE ~masked
    BY <1>1, <1>4, <2>2, LocalInDefines, Surroundings
  <2> QED BY <2>1, <2>2
<1>6. Abstract!Effect("global")
  BY <1>5, EffectIs
<1> QED BY <1>5, <1>6, NextIs DEF Abstract!Operations

LEMMA LocalDeclareScopes ==
  ASSUME VariableInvariant, NEW k \in Names, LocalDeclare(k)
  PROVE  Abstract!ScopesNext
<1> DEFINE m == maps[Here]
           declared == [m EXCEPT !.local = @ \cup {k}, !.undefined = @ \cup {k}]
           b == Binding(m, k)
<1>1. m \in Maps /\ TypeOK /\ Here \in DOMAIN maps /\ Abstract!Last = Here
  BY Surroundings, LastIs
<1>2. \/ Store("declare", Here, declared)
      \/ k \in m.undefined /\ Store("declare", Here, m)
      \/ k \notin m.undefined /\ Throw("declare", ".variable_already_exists", k)
  BY DEF LocalDeclare
<1>3. Scoped[Here].binds[k] = b
  BY <1>1, ScopedOK, Surroundings
<1>4. /\ b = Undefined /\ Abstract!Keep(Done) => Abstract!Declare(k)
      /\ b = Absent /\ Abstract!Bind(Here, k, Undefined) => Abstract!Declare(k)
      /\ b = Absent /\ Abstract!Keep(Refused) => Abstract!Declare(k)
      /\ b \notin {Absent, Undefined} /\ Abstract!Keep(Done) => Abstract!Declare(k)
      /\ b \notin {Absent, Undefined} /\ Abstract!Keep(Refused) => Abstract!Declare(k)
  <2>1. Abstract!Declare(k)
          = CASE b = Undefined -> Abstract!Keep(Done)
              [] b = Absent -> Abstract!Bind(Here, k, Undefined) \/ Abstract!Keep(Refused)
              [] OTHER -> Abstract!Keep(Done) \/ Abstract!Keep(Refused)
    BY <1>1, <1>3 DEF Abstract!Declare, Scoped
  <2>2. Absent # Undefined
    BY OutcomesAreNoValues
  <2> HIDE DEF b
  <2> QED BY <2>1, <2>2
<1>5. /\ b \in Values \cup {Absent, Undefined}
      /\ b = Absent <=> m.vars[k] = None /\ k \notin m.undefined
      /\ b = Undefined <=> m.vars[k] = None /\ k \in m.undefined
  BY <1>1, BindingIs
<1>6. CASE Store("declare", Here, declared)
  <2>1. declared.parent = m.parent /\ declared.vars = m.vars
        /\ declared.undefined = m.undefined \cup {k}
    BY <1>1 DEF Maps
  <2>2. maps' = [maps EXCEPT ![Here] = declared] /\ result'.op = "declare"
        /\ Outcome' = Done
    BY <1>6, StoreIs
  <2> HIDE DEF declared
  <2>3. CASE b = Absent
    <3>1. Binding(declared, k) = Undefined
      BY <1>5, <2>1, <2>3 DEF Binding
    <3>2. Rebinds(m, declared, k, Undefined)
      <4> HIDE DEF m
      <4> QED BY <2>1, <3>1, OtherBinding
    <3>3. Rebound(Here, k, Undefined)
      BY <1>1, <2>2, <3>2, StoreBinds
    <3>4. Abstract!Bind(Here, k, Undefined)
      BY <2>2, <3>3, BindIs
    <3>5. Abstract!Declare(k)
      BY <1>4, <2>3, <3>4
    <3> QED BY <2>2, <3>5, EffectIs, NextIs DEF Abstract!Operations
  <2>4. CASE b # Absent
    <3>1. m.vars[k] # None \/ k \in m.undefined
      BY <1>5, <2>4
    <3>2. SameScope(m, declared)
      <4> HIDE DEF m
      <4> QED BY <2>1, <3>1 DEF SameScope, Binding
    <3>3. Abstract!Keep(Done)
      BY <1>1, <2>2, <3>2, StoreKeeps, KeepIs
    <3>4. Abstract!Declare(k)
      BY <1>4, <2>4, <3>3
    <3> QED BY <2>2, <3>4, EffectIs, NextIs DEF Abstract!Operations
  <2> QED BY <2>3, <2>4
<1>7. CASE k \in m.undefined /\ Store("declare", Here, m)
  <2>1. maps' = [maps EXCEPT ![Here] = m] /\ result'.op = "declare"
        /\ Outcome' = Done
    BY <1>7, StoreIs
  <2>2. SameScope(m, m)
    BY DEF SameScope
  <2>3. Abstract!Keep(Done)
    BY <1>1, <2>1, <2>2, StoreKeeps, KeepIs
  <2>4. Abstract!Declare(k)
    BY <1>4, <1>5, <1>7, <2>3
  <2> QED BY <2>1, <2>4, EffectIs, NextIs DEF Abstract!Operations
<1>8. CASE k \notin m.undefined /\ Throw("declare", ".variable_already_exists", k)
  <2>1. Abstract!Keep(Refused) /\ result'.op = "declare" /\ Outcome' = Refused
    BY <1>8, ThrowIs, KeepIs
  <2>2. Abstract!Declare(k)
    BY <1>4, <1>5, <1>8, <2>1
  <2> QED BY <2>1, <2>2, EffectIs, NextIs DEF Abstract!Operations
<1> QED BY <1>2, <1>6, <1>7, <1>8

LEMMA UnsetScopes ==
  ASSUME VariableInvariant, NEW k \in Names, Unset(k)
  PROVE  Abstract!ScopesNext
<1> DEFINE i == Home(k)
           m == maps[i]
           undeclared == [m EXCEPT !.undefined = @ \ {k}]
           removed == [m EXCEPT !.vars[k] = None]
<1>1. \/ k = "FIGNORE" /\ Throw("unset", ".illegal_variable_name", k)
      \/ i = 0 /\ Throw("unset", ".undeclared_variable", k)
      \/ k # "FIGNORE" /\ i # 0 /\ ~Defines(i, k) /\ Store("unset", i, undeclared)
      \/ i # 0 /\ Defines(i, k) /\ Throw("unset", ".unused_before_set", k)
      \/ k # "FIGNORE" /\ i # 0 /\ Defines(i, k) /\ Store("unset", i, removed)
  BY DEF Unset
<1>2. ASSUME Abstract!Remove(k), result'.op = "unset", Outcome' \in {Done, Refused}
      PROVE  Abstract!ScopesNext
  BY <1>2, EffectIs, NextIs DEF Abstract!Operations
<1>3. ASSUME UNCHANGED Scoped, Outcome' = Refused, result'.op = "unset",
             k = "FIGNORE" \/ Abstract!Meaning(k) # Undefined
      PROVE  Abstract!ScopesNext
  BY <1>2, <1>3, KeepIs DEF Abstract!Remove
<1>4. CASE k = "FIGNORE" /\ Throw("unset", ".illegal_variable_name", k)
  BY <1>3, <1>4, ThrowIs
<1>5. CASE i = 0 /\ Throw("unset", ".undeclared_variable", k)
  BY <1>3, <1>5, ThrowIs, Homeless
<1>6. CASE i # 0 /\ Defines(i, k) /\ Throw("unset", ".unused_before_set", k)
  BY <1>3, <1>6, ThrowIs, AtHome, OutcomesAreNoValues
<1>7. ASSUME k # "FIGNORE", i # 0, NEW n \in Maps, Store("unset", i, n),
             n.parent = m.parent, n.vars[k] = None,
             n.undefined = m.undefined
               \/ (~Defines(i, k) /\ n.undefined = m.undefined \ {k}),
             Defines(i, k) \/ k \notin n.undefined,
             \A j \in Names : j # k => n.vars[j] = m.vars[j]
      PROVE  Abstract!ScopesNext
  <2>1. i \in DOMAIN maps /\ m \in Maps /\ TypeOK /\ Abstract!Home(k) = i
        /\ Abstract!Meaning(k) # Absent
        /\ (~Defines(i, k) => Abstract!Meaning(k) = Undefined)
        /\ (Defines(i, k) <=> Abstract!Meaning(k) \in Values)
    BY <1>7, AtHome, Surroundings
  <2>2. PICK b \in {Absent, Undefined} : Binding(n, k) = b
    BY <1>7 DEF Binding
  <2>3. b # Abstract!Meaning(k)
    <3>1. CASE Defines(i, k)
      BY <2>1, <2>2, <3>1, OutcomesAreNoValues
    <3>2. CASE ~Defines(i, k)
      BY <1>7, <2>1, <2>2, <3>2, OutcomesAreNoValues DEF Binding
    <3> QED BY <3>1, <3>2
  <2>4. maps' = [maps EXCEPT ![i] = n] /\ result'.op = "unset" /\ Outcome' = Done
    BY <1>7, StoreIs
  <2>5. \A j \in Names : j # k => /\ n.vars[j] = m.vars[j]
                                  /\ j \in n.undefined <=> j \in m.undefined
    BY <1>7
  <2>6. Rebinds(m, n, k, b)
    <3> HIDE DEF m
    <3> QED BY <1>7, <2>2, <2>5, OtherBinding
  <2>7. PICK h \in DOMAIN maps : h = i
    BY <2>1
  <2>8. Rebound(h, k, b)
    <3> HIDE DEF i
    <3> QED BY <2>1, <2>4, <2>6, <2>7, StoreBinds
  <2>9. Abstract!Bind(h, k, b)
    BY <2>4, <2>8, BindIs
  <2>10. Abstract!Remove(k)
    <3>1. Abstract!Bind(Abstract!Home(k), k, b)
      BY <2>1, <2>7, <2>9 DEF Abstract!Bind
    <3> QED BY <1>7, <2>1, <2>3, <3>1 DEF Abstract!Remove
  <2> QED BY <1>2, <2>4, <2>10
<1>8. CASE k # "FIGNORE" /\ i # 0 /\ ~Defines(i, k) /\ Store("unset", i, undeclared)
  <2>1. i \in DOMAIN maps /\ m \in Maps
    BY <1>8, AtHome
  <2>2. /\ undeclared \in Maps /\ undeclared.parent = m.parent
        /\ undeclared.vars = m.vars /\ undeclared.undefined = m.undefined \ {k}
    BY <2>1 DEF Maps
  <2>3. undeclared.vars[k] = None
    BY <1>8, <2>2 DEF Defines
  <2> HIDE DEF undeclared, i
  <2> QED BY <1>7, <1>8, <2>2, <2>3
<1>9. CASE k # "FIGNORE" /\ i # 0 /\ Defines(i, k) /\ Store("unset", i, removed)
  <2>1. i \in DOMAIN maps /\ m \in Maps
    BY <1>9, AtHome
  <2>2. /\ removed \in Maps /\ removed.parent = m.parent
        /\ removed.undefined = m.undefined /\ removed.vars[k] = None
        /\ \A j \in Names : j # k => removed.vars[j] = m.vars[j]
    BY <2>1 DEF Maps
  <2> HIDE DEF removed, i
  <2> QED BY <1>7, <1>9, <2>2
<1> HIDE DEF undeclared, removed, i
<1> QED BY <1>1, <1>4, <1>5, <1>6, <1>8, <1>9

LEMMA LookScopes ==
  ASSUME UNCHANGED Scoped, result'.op = "look", Outcome' \in {Done, Refused}
  PROVE  Abstract!ScopesNext
<1>1. Abstract!Look
  BY KeepIs DEF Abstract!Look
<1> QED BY <1>1, EffectIs, NextIs DEF Abstract!Operations

LEMMA ListLocalsScopes ==
  ASSUME VariableInvariant, ListLocals
  PROVE  Abstract!ScopesNext
<1> DEFINE empty(i) == maps[i].undefined = {} /\ \A k \in Names : ~Defines(i, k)
           S == {1} \cup {j \in Chain : ~empty(j)}
           i == Innermost(S)
           m == [maps[i] EXCEPT !.listed = TRUE]
<1>1. maps' = [maps EXCEPT ![i] = m] /\ result'.op = "look" /\ Outcome' = Done
  BY StoreIs DEF ListLocals
<1>2. i \in DOMAIN maps /\ TypeOK /\ maps[i] \in Maps
  <2>1. S \in SUBSET (1 .. Here) /\ S # {} /\ Here \in Nat /\ DOMAIN maps = 1 .. Here
    BY Surroundings, ChainOK
  <2>2. i \in S
    <3> HIDE DEF S
    <3> QED BY <2>1, InnermostIs
  <2> HIDE DEF i, S
  <2> QED BY <2>1, <2>2, Surroundings
<1>3. m.parent = maps[i].parent /\ m.vars = maps[i].vars
      /\ m.undefined = maps[i].undefined
  <2> HIDE DEF i
  <2> QED BY <1>2 DEF Maps
<1> HIDE DEF m, i
<1>4. UNCHANGED Scoped
  BY <1>1, <1>2, <1>3, SameBindings, StoreKeeps
<1> QED BY <1>1, <1>4, LookScopes

LEMMA FailingExecScopes ==
  ASSUME VariableInvariant, FailingExec
  PROVE  Abstract!ScopesNext
<1> DEFINE exported(i) ==
             {k \in Names : i = Innermost({j \in Chain : Defines(j, k)})}
           raised == {<<".binary_does_not_exist", None>>}
<1>1. maps' = [i \in DOMAIN maps |->
                 [maps[i] EXCEPT !.used = @ \cup exported(i)]]
      /\ Result("look", None, raised)
  BY DEF FailingExec
<1>2. raised # {}
  OBVIOUS
<1> HIDE DEF exported, raised
<1>3. ASSUME NEW i \in DOMAIN maps
      PROVE  SameScope(maps[i], maps'[i])
  <2>1. maps[i] \in Maps /\ maps'[i] = [maps[i] EXCEPT !.used = @ \cup exported(i)]
    BY <1>1, <1>3, Surroundings
  <2>2. maps'[i].parent = maps[i].parent /\ maps'[i].vars = maps[i].vars
        /\ maps'[i].undefined = maps[i].undefined
    BY <2>1 DEF Maps
  <2> QED BY <2>2, SameBindings
<1>4. UNCHANGED Scoped
  BY <1>1, <1>3, SameScopes DEF SameScope
<1>5. result'.op = "look" /\ Outcome' = Refused
  BY <1>1, <1>2, ResultIs
<1> QED BY <1>4, <1>5, LookScopes

LEMMA ExitScopes ==
  ASSUME VariableInvariant, Exit
  PROVE  Abstract!ScopesNext
<1> DEFINE m == [maps[1] EXCEPT !.usageChecked = TRUE]
           raised == UnusedVarCheck(maps[1])
<1>1. 1 \in DOMAIN maps /\ maps[1] \in Maps /\ TypeOK
  BY Surroundings
<1>2. m.parent = maps[1].parent /\ m.vars = maps[1].vars
      /\ m.undefined = maps[1].undefined
  BY <1>1 DEF Maps
<1>3. maps' = [maps EXCEPT ![1] = m] /\ Result("look", None, raised)
  BY DEF Exit
<1> HIDE DEF m, raised
<1>4. UNCHANGED Scoped
  BY <1>1, <1>2, <1>3, SameBindings, StoreKeeps
<1>5. result'.op = "look" /\ Outcome' \in {Done, Refused}
  BY <1>3 DEF Result, Outcome
<1> QED BY <1>4, <1>5, LookScopes

LEMMA BlessedBindings ==
  ASSUME NEW m \in Maps
  PROVE  Blessed(m).parent = m.parent /\ Blessed(m).vars = m.vars
         /\ Blessed(m).undefined = m.undefined
BY DEF Blessed, Maps

LEMMA RescopeScopes ==
  ASSUME VariableInvariant, NEW k \in Names, NEW v \in Values,
         NEW r \in BOOLEAN, Rescope(k, v, r)
  PROVE  Abstract!ScopesNext
<1> DEFINE old == maps[Here]
           p == Parameter(k, r)
           m == [old EXCEPT !.extra = @ \cup {p}]
           passed == [m EXCEPT !.vars[k] = v]
           declared == [m EXCEPT !.undefined = @ \cup {k}]
           Refuses(n) ==
             maps' = [maps EXCEPT ![Here] = n] /\ result'.op = "rescope"
             /\ Outcome' = Refused
           Stores(n) ==
             maps' = [maps EXCEPT ![Here] = n] /\ result'.op = "rescope"
             /\ Outcome' = Done
<1>0. old \in Maps /\ TypeOK /\ Here \in DOMAIN maps /\ Abstract!Last = Here
  BY Surroundings, LastIs
<1>1. \/ old.vars[k] = None /\ Stores(passed)
      \/ /\ old.vars[k] = None /\ k \notin old.undefined
         /\ Refuses(Blessed(declared)) \/ Stores(declared)
      \/ /\ old.vars[k] # None \/ k \in old.undefined
         /\ Refuses(m)
  <2>1. m.undefined = old.undefined
    BY <1>0 DEF Maps
  <2>2. \/ old.vars[k] = None /\ Store("rescope", Here, passed)
        \/ /\ old.vars[k] = None /\ k \notin old.undefined
           /\ \/ Raise("rescope", Here, Blessed(declared), ".bad_args", k)
              \/ Store("rescope", Here, declared)
        \/ /\ old.vars[k] # None \/ k \in old.undefined
           /\ Raise("rescope", Here, m, ".variable_already_exists", k)
    BY <2>1 DEF Rescope, Defines
  <2>3. ASSUME NEW n, Store("rescope", Here, n)  PROVE Stores(n)
    BY <2>3, ResultIs DEF Store
  <2>4. ASSUME NEW n, NEW name, Raise("rescope", Here, n, name, k)
        PROVE  Refuses(n)
    BY <2>4, ResultIs, {<<name, k>>} # {} DEF Raise
  <2> HIDE DEF passed, declared, m, old, Refuses, Stores
  <2> QED BY <2>2, <2>3, <2>4
<1>2. PICK h \in DOMAIN maps : h = Here
  BY <1>0
<1>3. Scoped[Here].binds[k] = Binding(old, k)
  BY <1>0, ScopedOK, Surroundings
<1>4. /\ Binding(old, k) \in Values <=> old.vars[k] # None
      /\ Binding(old, k) = Undefined <=> old.vars[k] = None /\ k \in old.undefined
      /\ Undefined \notin Values
  BY <1>0, BindingIs, OutcomesAreNoValues
<1>5. ASSUME NEW b \in Values \cup {Undefined},
             Binding(old, k) \notin Values \cup ({b} \cap {Undefined}),
             NEW n, n.parent = old.parent, Binding(n, k) = b,
             \A j \in Names : j # k => /\ n.vars[j] = old.vars[j]
                                       /\ j \in n.undefined <=> j \in old.undefined,
             maps' = [maps EXCEPT ![Here] = n], result'.op = "rescope",
             Outcome' \in {Done, Refused}
      PROVE  Abstract!ScopesNext
  <2>1. Rebinds(old, n, k, b)
    <3> HIDE DEF old
    <3> QED BY <1>5, OtherBinding
  <2>2. Rebound(h, k, b)
    BY <1>0, <1>2, <1>5, <2>1, StoreBinds
  <2>3. Abstract!Introduce(k, b)
    BY <1>0, <1>2, <1>3, <1>5, <2>2
       DEF Abstract!Introduce, Abstract!Ends, Scoped, Rebound
  <2> QED BY <1>5, <2>3, EffectIs, NextIs DEF Abstract!Operations
<1>6. /\ m \in Maps /\ m.parent = old.parent /\ m.vars = old.vars
      /\ m.undefined = old.undefined
  <2>1. p \in LateParameters
    BY ParameterOK
  <2> HIDE DEF p
  <2> QED BY <1>0, <2>1 DEF Maps
<1>7. /\ passed.parent = old.parent /\ passed.vars[k] = v
      /\ passed.undefined = old.undefined
      /\ \A j \in Names : j # k => passed.vars[j] = old.vars[j]
  <2> HIDE DEF m, old
  <2> QED BY <1>6 DEF Maps
<1>8. /\ declared \in Maps /\ declared.parent = old.parent
      /\ declared.vars = old.vars /\ declared.undefined = old.undefined \cup {k}
  <2> HIDE DEF m, old
  <2> QED BY <1>6 DEF Maps
<1> HIDE DEF m, passed, declared
<1>9. CASE old.vars[k] = None /\ Stores(passed)
  <2>1. Binding(passed, k) = v
    BY <1>7, NamesAssumption DEF Binding
  <2>2. Binding(old, k) \notin Values \cup ({v} \cap {Undefined})
    BY <1>4, <1>9
  <2>3. \A j \in Names : j # k => /\ passed.vars[j] = old.vars[j]
                                  /\ j \in passed.undefined <=> j \in old.undefined
    BY <1>7
  <2> HIDE DEF old
  <2> QED BY <1>5, <1>7, <1>9, <2>1, <2>2, <2>3
<1>10. ASSUME old.vars[k] = None, k \notin old.undefined,
              NEW n \in {declared, Blessed(declared)},
              maps' = [maps EXCEPT ![Here] = n], result'.op = "rescope",
              Outcome' \in {Done, Refused}
       PROVE  Abstract!ScopesNext
  <2>1. /\ n.parent = old.parent /\ n.vars = old.vars
        /\ n.undefined = old.undefined \cup {k}
    BY <1>8, <1>10, BlessedBindings
  <2>2. Binding(n, k) = Undefined
    BY <1>10, <2>1 DEF Binding
  <2>3. Binding(old, k) \notin Values \cup ({Undefined} \cap {Undefined})
    BY <1>4, <1>10
  <2>4. \A j \in Names : j # k => /\ n.vars[j] = old.vars[j]
                                  /\ j \in n.undefined <=> j \in old.undefined
    BY <2>1
  <2> HIDE DEF old
  <2> QED BY <1>5, <1>10, <2>1, <2>2, <2>3, <2>4
<1>11. CASE (old.vars[k] # None \/ k \in old.undefined)
            /\ Refuses(m)
  <2>1. Binding(old, k) \in Values \cup {Undefined}
    BY <1>4, <1>11
  <2>2. UNCHANGED Scoped
    BY <1>0, <1>6, <1>11, SameBindings, StoreKeeps
  <2>3. Abstract!Introduce(k, Undefined)
    BY <1>0, <1>3, <1>11, <2>1, <2>2, KeepIs DEF Abstract!Introduce, Scoped
  <2> QED BY <1>11, <2>3, EffectIs, NextIs DEF Abstract!Operations
<1> HIDE DEF old
<1> QED BY <1>1, <1>9, <1>10, <1>11

LEMMA ReinterpretScopes ==
  ASSUME VariableInvariant, NEW k \in Names, NEW v \in Values,
         NEW r \in BOOLEAN, Reinterpret(k, v, r)
  PROVE  Abstract!ScopesNext
<1> DEFINE i == Home(k)
           old == maps[i]
           m == IF k \in old.undefined THEN old
                ELSE [old EXCEPT !.undefined = @ \cup {k}, !.vars[k] = None]
           told == IF m.vars[k] = None THEN m ELSE [m EXCEPT !.used = @ \cup {k}]
           after == [maps EXCEPT ![i] = told]
<1>1. \/ SetVariable(k, v)
      \/ i = 0 /\ Throw("reinterpret", ".undeclared_variable", k)
      \/ i # 0 /\ Store("reinterpret", i, m)
      \/ /\ i # 0
         /\ maps' = [after EXCEPT ![Here] = Blessed(after[Here])]
         /\ Result("reinterpret", None, {<<".bad_args", k>>})
  BY DEF Reinterpret
<1>2. CASE SetVariable(k, v)
  BY <1>2, SetScopes
<1>3. CASE i = 0 /\ Throw("reinterpret", ".undeclared_variable", k)
  <2>1. Abstract!Keep(Refused) /\ result'.op = "reinterpret" /\ Outcome' = Refused
        /\ Abstract!Meaning(k) = Absent
    BY <1>3, ThrowIs, KeepIs, Homeless
  <2>2. Abstract!Undefine(k)
    BY <2>1 DEF Abstract!Undefine
  <2> QED BY <2>1, <2>2, EffectIs, NextIs DEF Abstract!Operations
<1>4. CASE i # 0 /\ ~SetVariable(k, v)
  <2>1. i \in DOMAIN maps /\ old \in Maps /\ TypeOK /\ Here \in DOMAIN maps
        /\ Abstract!Home(k) = i /\ Abstract!Meaning(k) # Absent
    BY <1>4, AtHome, Surroundings
  <2>2. PICK h \in DOMAIN maps : h = i
    BY <2>1
  <2>3. /\ m \in Maps /\ m.parent = old.parent
        /\ k \in old.undefined => m = old
        /\ k \notin old.undefined =>
             /\ m.vars[k] = None /\ m.undefined = old.undefined \cup {k}
             /\ \A j \in Names : j # k => m.vars[j] = old.vars[j]
    <3> HIDE DEF i
    <3> QED BY <2>1 DEF Maps
  <2>4. /\ told \in Maps /\ told.parent = m.parent /\ told.vars = m.vars
        /\ told.undefined = m.undefined
    <3> HIDE DEF m
    <3> QED BY <2>3 DEF Maps
  <2>5. ASSUME DOMAIN maps' = DOMAIN maps, maps'[h].parent = m.parent,
               maps'[h].vars = m.vars, maps'[h].undefined = m.undefined,
               \A j \in DOMAIN maps : j # h => SameScope(maps[j], maps'[j]),
               result'.op = "reinterpret", Outcome' \in {Done, Refused}
        PROVE  Abstract!ScopesNext
    <3>1. UNCHANGED Scoped \/ Rebound(h, k, Undefined)
      <4>1. CASE k \in old.undefined
        <5>1. SameScope(maps[h], maps'[h])
          BY <2>2, <2>3, <2>5, <4>1, SameBindings
        <5>2. \A j \in DOMAIN maps : SameScope(maps[j], maps'[j])
          BY <2>5, <5>1
        <5>3. UNCHANGED Scoped
          BY <2>5, <5>2, SameScopes DEF SameScope
        <5> QED BY <5>3
      <4>2. CASE k \notin old.undefined
        <5> DEFINE n == maps'[h]
        <5>1. n.parent = old.parent /\ n.vars[k] = None /\ k \in n.undefined
              /\ \A j \in Names : j # k => /\ n.vars[j] = old.vars[j]
                                           /\ j \in n.undefined <=> j \in old.undefined
          BY <2>3, <2>5, <4>2
        <5> HIDE DEF n
        <5>2. Binding(n, k) = Undefined
          BY <5>1 DEF Binding
        <5>3. Rebinds(old, n, k, Undefined)
          <6> HIDE DEF old
          <6> QED BY <5>1, <5>2, OtherBinding
        <5>4. maps[h] = old
          BY <2>2
        <5> HIDE DEF old
        <5>5. PICK new : new = n
          OBVIOUS
        <5> QED BY <2>5, <5>3, <5>4, <5>5, ScopesRebound DEF n
      <4> QED BY <4>1, <4>2
    <3>2. Abstract!Undefine(k)
      BY <2>1, <2>2, <2>5, <3>1
         DEF Abstract!Undefine, Abstract!Ends, Scoped, Rebound
    <3> QED BY <2>5, <3>2, EffectIs, NextIs DEF Abstract!Operations
  <2>6. CASE Store("reinterpret", i, m)
    <3>1. maps' = [maps EXCEPT ![h] = m] /\ result'.op = "reinterpret"
          /\ Outcome' = Done
      BY <2>2, <2>6, StoreIs
    <3> HIDE DEF m, i
    <3>2. DOMAIN maps' = DOMAIN maps /\ maps'[h] = m
          /\ \A j \in DOMAIN maps : j # h => maps'[j] = maps[j]
      BY <3>1
    <3>3. \A j \in DOMAIN maps : j # h => SameScope(maps[j], maps'[j])
      BY <3>2 DEF SameScope
    <3> QED BY <2>5, <3>1, <3>2, <3>3
  <2>7. CASE /\ maps' = [after EXCEPT ![Here] = Blessed(after[Here])]
             /\ Result("reinterpret", None, {<<".bad_args", k>>})
    <3>1. {<<".bad_args", k>>} # {}
      OBVIOUS
    <3>2. result'.op = "reinterpret" /\ Outcome' = Refused
      BY <2>7, <3>1, ResultIs
    <3>3. /\ DOMAIN after = DOMAIN maps /\ after[h] = told
          /\ \A j \in DOMAIN maps : j # h => after[j] = maps[j]
          /\ \A j \in DOMAIN maps : after[j] \in Maps
      <4> HIDE DEF told, i
      <4> QED BY <2>1, <2>2, <2>4, Surroundings
    <3> HIDE DEF after, told, m, old, i
    <3>4. /\ DOMAIN maps' = DOMAIN maps
          /\ \A j \in DOMAIN maps : maps'[j] \in {after[j], Blessed(after[j])}
      BY <2>1, <2>7, <3>3
    <3>5. ASSUME NEW j \in DOMAIN maps
          PROVE  /\ maps'[j].parent = after[j].parent /\ maps'[j].vars = after[j].vars
                 /\ maps'[j].undefined = after[j].undefined
      BY <3>3, <3>4, BlessedBindings
    <3>6. \A j \in DOMAIN maps : j # h => SameScope(maps[j], maps'[j])
      BY <3>3, <3>5, SameBindings
    <3>7. /\ maps'[h].parent = m.parent /\ maps'[h].vars = m.vars
          /\ maps'[h].undefined = m.undefined
      BY <2>4, <3>3, <3>5
    <3> QED BY <2>5, <3>2, <3>4, <3>6, <3>7
  <2> QED BY <1>1, <1>4, <2>6, <2>7
<1> HIDE DEF old, m, told, after, i
<1> QED BY <1>1, <1>2, <1>3, <1>4

-----------------------------------------------------------------------------
\* Scopes come and go as maps do.

LEMMA SubSeqIs ==
  ASSUME NEW S, NEW s \in Seq(S), NEW n \in 0 .. Len(s), NEW t \in Seq(S),
         Len(t) = n, \A i \in 1 .. n : t[i] = s[i]
  PROVE  SubSeq(s, 1, n) = t
<1>1. SubSeq(s, 1, n) \in Seq(S) /\ Len(SubSeq(s, 1, n)) = n
      /\ \A i \in 1 .. n : SubSeq(s, 1, n)[i] = s[i]
  OBVIOUS
<1> QED BY <1>1

LEMMA SameMapScoped ==
  ASSUME NEW i \in DOMAIN maps, i \in DOMAIN maps', maps'[i] = maps[i]
  PROVE  Scoped'[i] = Scoped[i]
BY DEF Scoped

ScopedTyped ==
  /\ Scoped \in Seq(ScopeType) /\ Len(Scoped) = Here /\ DOMAIN Scoped = 1 .. Here
  /\ \A i \in 1 .. Here : Scoped[i].parent = maps[i].parent

LEMMA ScopedTypedOK == TypeOK => ScopedTyped
BY ScopedOK DEF ScopedTyped

LEMMA EnterScopes ==
  ASSUME VariableInvariant, VariableInvariant', Made, result'.op = "open",
         Outcome' = Done
  PROVE  Abstract!ScopesNext
<1>1. /\ Len(maps') = Here + 1 /\ \A i \in 1 .. Here : maps'[i] = maps[i]
      /\ maps'[Here + 1].parent \in {1, Here}
  BY MadeIs
<1>2. /\ Scoped \in Seq(ScopeType) /\ Len(Scoped) = Here /\ Here \in Nat
      /\ DOMAIN maps = 1 .. Here /\ Abstract!Last = Here
  BY ScopedOK, Surroundings, ChainOK, LastIs
<1>3. TypeOK' /\ Here' = Here + 1
  BY <1>1 DEF VariableInvariant, Here
<1>4. /\ Scoped' \in Seq(ScopeType) /\ Len(Scoped') = Here + 1
      /\ DOMAIN maps' = 1 .. Here + 1
      /\ Scoped'[Here + 1].parent = maps'[Here + 1].parent
  <2>1. (TypeOK => ScopedTyped)'
    BY ScopedTypedOK, PTL
  <2>2. DOMAIN Scoped' = DOMAIN maps'
    BY DEF Scoped
  <2>3. Here + 1 \in 1 .. Here + 1
    BY <1>2
  <2> QED BY <1>3, <2>1, <2>2, <2>3 DEF ScopedTyped
<1>5. \A i \in 1 .. Here : Scoped'[i] = Scoped[i]
  BY <1>1, <1>2, <1>4, SameMapScoped
<1>6. SubSeq(Scoped', 1, Here) = Scoped
  BY <1>2, <1>4, <1>5, SubSeqIs
<1>7. Scoped'[Here + 1] \in [parent : {1, Here}, binds : Abstract!Bindings]
  <2>1. Scoped'[Here + 1] \in ScopeType
    BY <1>2, <1>4
  <2> QED BY <1>1, <1>4, <2>1 DEF ScopeType, Abstract!Bindings
<1>8. Abstract!Open
  BY <1>2, <1>4, <1>6, <1>7 DEF Abstract!Open, Abstract!Ends, Scoped
<1> QED BY <1>8, EffectIs, NextIs DEF Abstract!Operations

LEMMA LeaveScopes ==
  ASSUME VariableInvariant, VariableInvariant', Leave
  PROVE  Abstract!ScopesNext
<1> DEFINE raised == UnusedVarCheck(maps[Here])
<1>1. Here > 1 /\ maps' = SubSeq(maps, 1, Here - 1) /\ Result("close", None, raised)
  BY DEF Leave
<1> HIDE DEF raised
<1>2. result'.op = "close" /\ Outcome' \in {Done, Refused}
  BY <1>1 DEF Result, Outcome
<1>3. /\ Scoped \in Seq(ScopeType) /\ Len(Scoped) = Here /\ Here \in Nat
      /\ DOMAIN maps = 1 .. Here /\ Abstract!Last = Here
  BY ScopedOK, Surroundings, ChainOK, LastIs
<1>4. Len(maps') = Here - 1 /\ \A i \in 1 .. Here - 1 : maps'[i] = maps[i]
  <2>1. maps \in Seq(Maps) /\ Len(maps) = Here
    BY Surroundings DEF Here
  <2> HIDE DEF Here
  <2> QED BY <1>1, <1>3, <2>1
<1>5. TypeOK' /\ Here' = Here - 1
  BY <1>4 DEF VariableInvariant, Here
<1>6. Scoped' \in Seq(ScopeType) /\ Len(Scoped') = Here - 1
      /\ DOMAIN maps' = 1 .. Here - 1
  <2>1. (TypeOK => ScopedTyped)'
    BY ScopedTypedOK, PTL
  <2>2. DOMAIN Scoped' = DOMAIN maps'
    BY DEF Scoped
  <2> QED BY <1>5, <2>1, <2>2 DEF ScopedTyped
<1>7. ASSUME NEW i \in 1 .. Here - 1  PROVE Scoped'[i] = Scoped[i]
  <2>1. i \in DOMAIN maps /\ i \in DOMAIN maps' /\ maps'[i] = maps[i]
    BY <1>3, <1>4, <1>6
  <2> QED BY <2>1, SameMapScoped
<1>8. SubSeq(Scoped, 1, Here - 1) = Scoped'
  <2>1. Here - 1 \in 0 .. Len(Scoped)
    BY <1>1, <1>3
  <2> QED BY <1>3, <1>6, <1>7, <2>1, SubSeqIs
<1>9. Abstract!Close
  BY <1>1, <1>2, <1>3, <1>8 DEF Abstract!Close, Abstract!Ends, Scoped
<1> QED BY <1>2, <1>9, EffectIs, NextIs DEF Abstract!Operations

LEMMA ScopesFirst == Init => Abstract!ScopesInit
<1> SUFFICES ASSUME Init PROVE Abstract!ScopesInit
  OBVIOUS
<1>1. VariableInvariant
  BY VariableInit
<1>2. Len(maps) = 1 /\ maps[1].parent = 0
  BY DEF Init, Fresh
<1>3. TypeOK /\ Here = 1 /\ maps[1] \in Maps /\ DOMAIN maps = 1 .. 1
  BY <1>1, <1>2, Surroundings DEF Here
<1> DEFINE b == [k \in Names |-> Binding(maps[1], k)]
<1>4. b \in Abstract!Bindings
  BY <1>3, BindingIs DEF Abstract!Bindings
<1>5. Scoped = << [parent |-> 0, binds |-> b] >>
  <2>1. Scoped = [i \in 1 .. 1 |-> [parent |-> 0, binds |-> b]]
    BY <1>2, <1>3 DEF Scoped
  <2> HIDE DEF b
  <2> QED BY <2>1
<1>6. result.op = "open" /\ Outcome = Done
  BY DEF Init, Outcome
<1> HIDE DEF b
<1> QED BY <1>4, <1>5, <1>6 DEF Abstract!ScopesInit, Scoped

\* Every step of the shell on its variables is a step of Scopes.
LEMMA ScopesStep ==
  ASSUME VariableInvariant, VariableInvariant', [Next]_vars
  PROVE  [Abstract!ScopesNext]_(Abstract!svars)
<1>1. ASSUME NEW k \in Names, Get(k) \/ VarExists(k) \/ Unset(k)
      PROVE  Abstract!ScopesNext
  BY <1>1, GetScopes, VarExistsScopes, UnsetScopes
<1>2. ASSUME NEW k \in Names, NEW v \in Values, Set(k, v)
      PROVE  Abstract!ScopesNext
  BY <1>2, SetScopes DEF Set
<1>3. ASSUME NEW k \in LocalNames, LocalDeclare(k)
      PROVE  Abstract!ScopesNext
  BY <1>3, LocalDeclareScopes, NamesAssumption
<1>4. ASSUME NEW k \in LocalNames, NEW v \in Values, Local(k, v) \/ Global(k, v)
      PROVE  Abstract!ScopesNext
  BY <1>4, LocalScopes, GlobalScopes, NamesAssumption
<1>5. ASSUME NEW k \in LocalNames, NEW v \in Values, NEW r \in BOOLEAN,
             Rescope(k, v, r) \/ Reinterpret(k, v, r)
      PROVE  Abstract!ScopesNext
  <2>1. k \in Names
    BY NamesAssumption
  <2> QED BY <1>5, <2>1, RescopeScopes, ReinterpretScopes
<1>6. ASSUME NEW p \in Prototypes, NEW parent \in {1, Here}, NEW v \in Values,
             NEW passed \in SUBSET (p.flags \cup p.positional),
             Enter(p, passed, parent, v)
      PROVE  Abstract!ScopesNext
  <2>1. Made
    BY <1>6, EnterOK DEF Made
  <2>2. Result("open", None, {})
    BY <1>6 DEF Enter
  <2>3. result'.op = "open" /\ Outcome' = Done
    BY <2>2, ResultIs
  <2> QED BY <2>1, <2>3, EnterScopes
<1>7. CASE ListLocals \/ FailingExec \/ Leave \/ Exit
  BY <1>7, ListLocalsScopes, FailingExecScopes, LeaveScopes, ExitScopes
<1>8. CASE UNCHANGED vars
  BY <1>8 DEF vars, Abstract!svars, Outcome
<1> QED BY <1>1, <1>2, <1>3, <1>4, <1>5, <1>6, <1>7, <1>8 DEF Next

\* The maps implement Scopes: every operation finds a name in the innermost
\* scope that knows it, changes that scope and no other, and is refused only
\* where Scopes permits it (Variable_map::get, set, local, global, unset, the
\* declarations, .rescope, .reinterpret, and the making and leaving of maps).
THEOREM ScopesImplementedHolds == Spec => ScopesImplemented
<1>1. Init => VariableInvariant
  BY VariableInit
<1>2. VariableInvariant /\ [Next]_vars => VariableInvariant'
  BY VariableStep
<1>3. VariableInvariant /\ VariableInvariant' /\ [Next]_vars
        => [Abstract!ScopesNext]_(Abstract!svars)
  BY ScopesStep
<1> QED BY <1>1, <1>2, <1>3, ScopesFirst, PTL
       DEF Spec, ScopesImplemented, Abstract!ScopesSpec

=============================================================================
