-------------------------- MODULE ExecutableProofs --------------------------
(***************************************************************************)
(* However functions are redefined and removed while they run, for any     *)
(* set of names and any depth of the stack, an executable lives exactly as *)
(* long as something refers to it.                                         *)
(***************************************************************************)
EXTENDS ExecutableProperties, FiniteSetTheorems, SequenceTheorems, TLAPS

\* The invariant in two parts: what the map and the executables say of each other,
MapOK(m, e) ==
  /\ m \in [AllNames -> Objects \cup {None}]
  /\ e \in [Objects -> Objects_]
  /\ \A o \in Objects : e[o].kind = "free" => e[o] = Free
  /\ \A o \in Objects : e[o].kind # "free" =>
       /\ e[o].name \in AllNames
       /\ \/ m[e[o].name] = o
          \/ e[o].del_on_term /\ e[o].executable_nesting > 0
  /\ \A n \in AllNames : m[n] # None =>
       /\ e[m[n]].kind # "free"
       /\ e[m[n]].name = n
       /\ ~e[m[n]].del_on_term
  /\ \A n \in BuiltinNames : m[n] # None /\ e[m[n]].kind = "builtin"

\* and what the executables and the stack do.
RunsOK(s, e) ==
  /\ s \in Seq(Frames)
  /\ \A i \in DOMAIN s : FrameOK(s[i])
  /\ \A o \in Objects : e[o].executable_nesting = Cardinality(ActivationsIn(s, o))

LEMMA InvariantIs ==
  LifeInvariant <=>
    MapOK(map, object) /\ RunsOK(stack, object) /\ in_autofunction \in BOOLEAN
<1>1. LifeInvariant <=>
         /\ TypeOK
         /\ (\A i \in DOMAIN stack : FrameOK(stack[i]))
         /\ (\A o \in Objects : object[o].kind = "free" => object[o] = Free)
         /\ (\A o \in Objects : object[o].kind # "free" => object[o].name \in AllNames)
         /\ RunningCounted /\ NamesOwn /\ NothingLost /\ BuiltinsStay
  BY DEF LifeInvariant
<1>2. RunningCounted <=> (\A o \in Objects :
        object[o].executable_nesting = Cardinality(ActivationsIn(stack, o)))
  BY DEF RunningCounted, Activations
<1>3. NothingLost <=> (\A o \in Objects : object[o].kind # "free" =>
        \/ map[object[o].name] = o
        \/ object[o].del_on_term /\ object[o].executable_nesting > 0)
  BY DEF NothingLost, is_running
<1>4. NamesOwn <=> (\A n \in AllNames : map[n] # None =>
        /\ object[map[n]].kind # "free"
        /\ object[map[n]].name = n
        /\ ~object[map[n]].del_on_term)
  BY DEF NamesOwn
<1>5. BuiltinsStay <=> (\A n \in BuiltinNames :
        map[n] # None /\ object[map[n]].kind = "builtin")
  BY DEF BuiltinsStay, IsKind
<1>6. TypeOK <=> /\ (map \in [AllNames -> Objects \cup {None}])
                 /\ (object \in [Objects -> Objects_])
                 /\ (stack \in Seq(Frames))
                 /\ (in_autofunction \in BOOLEAN)
  BY DEF TypeOK
<1> QED BY <1>1, <1>2, <1>3, <1>4, <1>5, <1>6 DEF MapOK, RunsOK

LEMMA InvariantIsPrimed ==
  LifeInvariant' <=>
    MapOK(map', object') /\ RunsOK(stack', object') /\ in_autofunction' \in BOOLEAN
<1>1. LifeInvariant' <=>
         /\ TypeOK'
         /\ (\A i \in DOMAIN stack : FrameOK(stack[i]))'
         /\ (\A o \in Objects : object[o].kind = "free" => object[o] = Free)'
         /\ (\A o \in Objects : object[o].kind # "free" => object[o].name \in AllNames)'
         /\ RunningCounted' /\ NamesOwn' /\ NothingLost' /\ BuiltinsStay'
  BY DEF LifeInvariant
<1>2. RunningCounted' <=> (\A o \in Objects :
        object[o].executable_nesting = Cardinality(ActivationsIn(stack, o)))'
  BY DEF RunningCounted, Activations
<1>3. NothingLost' <=> (\A o \in Objects : object[o].kind # "free" =>
        \/ map[object[o].name] = o
        \/ object[o].del_on_term /\ object[o].executable_nesting > 0)'
  BY DEF NothingLost, is_running
<1>4. NamesOwn' <=> (\A n \in AllNames : map[n] # None =>
        /\ object[map[n]].kind # "free"
        /\ object[map[n]].name = n
        /\ ~object[map[n]].del_on_term)'
  BY DEF NamesOwn
<1>5. BuiltinsStay' <=> (\A n \in BuiltinNames :
        map[n] # None /\ object[map[n]].kind = "builtin")'
  BY DEF BuiltinsStay, IsKind
<1>6. TypeOK' <=> /\ (map \in [AllNames -> Objects \cup {None}])'
                 /\ (object \in [Objects -> Objects_])'
                 /\ (stack \in Seq(Frames))'
                 /\ (in_autofunction \in BOOLEAN)'
  BY DEF TypeOK
<1> QED BY <1>1, <1>2, <1>3, <1>4, <1>5, <1>6 DEF MapOK, RunsOK

-----------------------------------------------------------------------------
\* Changing the map.

SameNesting ==
  \A o \in Objects : object'[o].executable_nesting = object[o].executable_nesting

LEMMA DroppedType ==
  ASSUME NEW e \in Objects_
  PROVE  /\ Dropped(e) \in Objects_
         /\ Dropped(e).executable_nesting = e.executable_nesting
         /\ Dropped(e).kind = "free" => e.kind = "free" \/ Dropped(e) = Free
         /\ Dropped(e).kind # "free" =>
              /\ Dropped(e).kind = e.kind /\ Dropped(e).name = e.name
              /\ Dropped(e).del_on_term /\ Dropped(e).executable_nesting > 0
<1>1. CASE is_running(e)
  <2>1. Dropped(e) = [e EXCEPT !.del_on_term = TRUE]
    BY <1>1 DEF Dropped
  <2>2. e.executable_nesting > 0
    BY <1>1 DEF is_running
  <2> QED BY <2>1, <2>2 DEF Objects_
<1>2. CASE ~is_running(e)
  <2>1. Dropped(e) = Free
    BY <1>2 DEF Dropped
  <2>2. e.executable_nesting = 0
    BY <1>2 DEF is_running, Objects_
  <2> QED BY <2>1, <2>2 DEF Objects_, Free
<1> QED BY <1>1, <1>2

LEMMA NewType ==
  ASSUME NEW kind \in Kinds, NEW n \in AllNames
  PROVE  /\ New(kind, n) \in Objects_ /\ Free \in Objects_
         /\ New(kind, n).kind = kind /\ New(kind, n).name = n
         /\ ~New(kind, n).del_on_term /\ kind # "free"
         /\ New(kind, n).executable_nesting = 0
         /\ Free.executable_nesting = 0 /\ Free.kind = "free"
BY DEF New, Free, Objects_, Kinds

LEMMA SetOK ==
  ASSUME MapOK(map, object), NEW n \in AllNames, NEW o \in FreePlaces,
         NEW kind \in {"function", "binary"}, ~IsKind(n, "builtin"),
         Set(n, o, kind)
  PROVE  MapOK(map', object') /\ SameNesting
<1>1. o \in Objects /\ object[o] = Free /\ o # None /\ kind \in Kinds
  BY NamesAssumption DEF FreePlaces, MapOK, Kinds
<1>2. \A m \in AllNames : map[m] # o
  BY <1>1, NewType DEF MapOK
<1>3. /\ map' \in [AllNames -> Objects \cup {None}]
      /\ map'[n] = o /\ \A m \in AllNames : m # n => map'[m] = map[m]
  BY <1>1 DEF Set, MapOK
<1>4. ASSUME NEW x \in Objects
      PROVE  object'[x] = IF x = o THEN New(kind, n)
                          ELSE IF x = map[n] THEN Dropped(object[x]) ELSE object[x]
  BY DEF Set
<1>5. object' \in [Objects -> Objects_]
  <2>1. object' = [x \in Objects |-> object'[x]]
    BY DEF Set
  <2>2. ASSUME NEW x \in Objects PROVE object'[x] \in Objects_
    BY <1>1, <1>4, NewType, DroppedType DEF MapOK
  <2> QED BY <2>1, <2>2
<1>6. SameNesting
  <2> SUFFICES ASSUME NEW x \in Objects
               PROVE  object'[x].executable_nesting = object[x].executable_nesting
    BY DEF SameNesting
  <2> QED BY <1>1, <1>4, NewType, DroppedType DEF MapOK
<1>7. ASSUME NEW x \in Objects, object'[x].kind = "free" PROVE object'[x] = Free
  <2>1. object[x] \in Objects_ /\ (object[x].kind = "free" => object[x] = Free)
    BY DEF MapOK
  <2>2. Dropped(object[x]).kind = "free" => Dropped(object[x]) = Free
    <3>1. object[x] = Free => Dropped(object[x]) = Free
      BY DEF Dropped, is_running, Free
    <3> QED BY <3>1, <2>1, DroppedType
  <2>3. New(kind, n).kind # "free"
    BY <1>1, NewType
  <2> QED BY <1>4, <1>7, <2>1, <2>2, <2>3
<1>8. ASSUME NEW x \in Objects, object'[x].kind # "free"
      PROVE  /\ object'[x].name \in AllNames
             /\ \/ map'[object'[x].name] = x
                \/ object'[x].del_on_term /\ object'[x].executable_nesting > 0
  <2>1. CASE x = o
    BY <2>1, <1>1, <1>3, <1>4, NewType
  <2>2. CASE x # o /\ x = map[n]
    <3>1. object[x] \in Objects_ /\ object'[x] = Dropped(object[x])
      BY <2>2, <1>4 DEF MapOK
    <3>2. object[x].kind # "free"
      BY <2>2, NamesAssumption DEF MapOK
    <3> QED BY <3>1, <3>2, <1>8, DroppedType DEF MapOK
  <2>3. CASE x # o /\ x # map[n]
    <3>1. object'[x] = object[x]
      BY <2>3, <1>4
    <3>2. object[x].name \in AllNames
      BY <3>1, <1>8 DEF MapOK
    <3>3. map[object[x].name] = x => map'[object[x].name] = x
      BY <2>3, <3>2, <1>3
    <3> QED BY <3>1, <3>2, <3>3, <1>8 DEF MapOK
  <2> QED BY <2>1, <2>2, <2>3
<1>9. ASSUME NEW m \in AllNames, map'[m] # None
      PROVE  /\ object'[map'[m]].kind # "free"
             /\ object'[map'[m]].name = m
             /\ ~object'[map'[m]].del_on_term
  <2>1. CASE m = n
    BY <2>1, <1>1, <1>3, <1>4, NewType
  <2>2. CASE m # n
    <3>1. map'[m] = map[m] /\ map[m] \in Objects /\ map[m] # o
      BY <2>2, <1>2, <1>3, <1>9 DEF MapOK
    <3>2. map[m] # map[n]
      BY <2>2, <3>1, NamesAssumption DEF MapOK
    <3> QED BY <3>1, <3>2, <1>4, NamesAssumption DEF MapOK
  <2> QED BY <2>1, <2>2
<1>10. ASSUME NEW b \in BuiltinNames
       PROVE  map'[b] # None /\ object'[map'[b]].kind = "builtin"
  <2>1. b \in AllNames /\ b # n
    BY DEF MapOK, IsKind, AllNames
  <2>2. map'[b] = map[b] /\ map[b] \in Objects /\ map[b] # o /\ map[b] # None
    BY <2>1, <1>2, <1>3 DEF MapOK
  <2>3. map[b] # map[n]
    BY <2>1, <2>2 DEF MapOK
  <2> QED BY <2>2, <2>3, <1>4 DEF MapOK
<1> HIDE DEF Set
<1> QED BY <1>3, <1>5, <1>6, <1>7, <1>8, <1>9, <1>10 DEF MapOK

LEMMA EraseOK ==
  ASSUME MapOK(map, object), NEW n \in AllNames, map[n] # None,
         ~IsKind(n, "builtin"), Erase(n)
  PROVE  MapOK(map', object') /\ SameNesting
<1>1. map[n] \in Objects /\ object[map[n]] \in Objects_
  BY DEF MapOK
<1>2. /\ map' \in [AllNames -> Objects \cup {None}]
      /\ map'[n] = None /\ \A m \in AllNames : m # n => map'[m] = map[m]
  BY DEF Erase, MapOK
<1>3. /\ object' \in [Objects -> Objects_]
      /\ object'[map[n]] = Dropped(object[map[n]])
      /\ \A x \in Objects : x # map[n] => object'[x] = object[x]
  BY <1>1, DroppedType DEF Erase, MapOK
<1>4. SameNesting
  BY <1>1, <1>3, DroppedType DEF SameNesting
<1>5. ASSUME NEW x \in Objects, object'[x].kind = "free" PROVE object'[x] = Free
  BY <1>1, <1>3, <1>5, DroppedType DEF MapOK
<1>6. ASSUME NEW x \in Objects, object'[x].kind # "free"
      PROVE  /\ object'[x].name \in AllNames
             /\ \/ map'[object'[x].name] = x
                \/ object'[x].del_on_term /\ object'[x].executable_nesting > 0
  <2>1. CASE x = map[n]
    BY <2>1, <1>1, <1>3, <1>6, DroppedType DEF MapOK
  <2>2. CASE x # map[n]
    <3>1. object'[x] = object[x] /\ object[x].name \in AllNames
      BY <2>2, <1>3, <1>6 DEF MapOK
    <3>2. map[object[x].name] = x => map'[object[x].name] = x
      BY <2>2, <3>1, <1>2
    <3> QED BY <3>1, <3>2, <1>6 DEF MapOK
  <2> QED BY <2>1, <2>2
<1>7. ASSUME NEW m \in AllNames, map'[m] # None
      PROVE  /\ object'[map'[m]].kind # "free"
             /\ object'[map'[m]].name = m
             /\ ~object'[map'[m]].del_on_term
  <2>1. m # n /\ map'[m] = map[m] /\ map[m] \in Objects
    BY <1>2, <1>7 DEF MapOK
  <2>2. map[m] # map[n]
    BY <2>1, <1>7 DEF MapOK
  <2> QED BY <2>1, <2>2, <1>3, <1>7 DEF MapOK
<1>8. ASSUME NEW b \in BuiltinNames
      PROVE  map'[b] # None /\ object'[map'[b]].kind = "builtin"
  <2>1. b \in AllNames /\ b # n
    BY DEF MapOK, IsKind, AllNames
  <2>2. map'[b] = map[b] /\ map[b] \in Objects /\ map[b] # None
    BY <2>1, <1>2 DEF MapOK
  <2>3. map[b] # map[n]
    BY <2>1, <2>2 DEF MapOK
  <2> QED BY <2>2, <2>3, <1>3 DEF MapOK
<1> QED BY <1>2, <1>3, <1>4, <1>5, <1>6, <1>7, <1>8 DEF MapOK

LEMMA NotFoundOK ==
  ASSUME MapOK(map, object), not_found
  PROVE  /\ MapOK(map', object') /\ SameNesting
         /\ \/ UNCHANGED <<map, object>>
            \/ \E n \in AllNames, o \in FreePlaces : map' = [map EXCEPT ![n] = o]
<1>1. FunctionNotFound \in AllNames
  BY NamesAssumption DEF AllNames
<1>2. CASE map[FunctionNotFound] # None
  <2>1. UNCHANGED <<map, object>>
    BY <1>2 DEF not_found
  <2> QED BY <2>1 DEF SameNesting
<1>3. CASE map[FunctionNotFound] = None
  <2>1. PICK o \in FreePlaces : Set(FunctionNotFound, o, "function")
    BY <1>3 DEF not_found
  <2>2. ~IsKind(FunctionNotFound, "builtin")
    BY <1>3 DEF IsKind
  <2>3. MapOK(map', object') /\ SameNesting
    BY <1>1, <2>1, <2>2, SetOK
  <2>4. map' = [map EXCEPT ![FunctionNotFound] = o]
    BY <2>1 DEF Set
  <2> QED BY <1>1, <2>3, <2>4
<1> QED BY <1>2, <1>3

-----------------------------------------------------------------------------
\* Counting activations.

LEMMA ActivationsFinite ==
  ASSUME NEW s \in Seq(Frames), NEW o
  PROVE  /\ IsFiniteSet(ActivationsIn(s, o))
         /\ Cardinality(ActivationsIn(s, o)) \in Nat
<1>1. ActivationsIn(s, o) \subseteq 1 .. Len(s) /\ Len(s) \in Nat
  BY DEF ActivationsIn
<1>2. IsFiniteSet(1 .. Len(s))
  BY <1>1, FS_Interval
<1> QED BY <1>1, <1>2, FS_Subset, FS_CardinalityType

Counts(f, o) == f.kind = "run" /\ f.obj = o

LEMMA ActivationsPushed ==
  ASSUME NEW s \in Seq(Frames), NEW f \in Frames, NEW o
  PROVE  Cardinality(ActivationsIn(Append(s, f), o)) =
           Cardinality(ActivationsIn(s, o)) + (IF Counts(f, o) THEN 1 ELSE 0)
<1>1. /\ Len(s) \in Nat /\ DOMAIN s = 1 .. Len(s)
      /\ DOMAIN Append(s, f) = 1 .. Len(s) + 1
      /\ \A i \in 1 .. Len(s) : Append(s, f)[i] = s[i]
      /\ Append(s, f)[Len(s) + 1] = f
  OBVIOUS
<1>2. ActivationsIn(Append(s, f), o) =
        IF Counts(f, o) THEN ActivationsIn(s, o) \cup {Len(s) + 1}
        ELSE ActivationsIn(s, o)
  BY <1>1 DEF ActivationsIn, Counts
<1>3. Len(s) + 1 \notin ActivationsIn(s, o)
  BY <1>1 DEF ActivationsIn
<1>4. IsFiniteSet(ActivationsIn(s, o)) /\ Cardinality(ActivationsIn(s, o)) \in Nat
  BY ActivationsFinite
<1>5. Cardinality(ActivationsIn(s, o) \cup {Len(s) + 1}) =
        Cardinality(ActivationsIn(s, o)) + 1
  BY <1>3, <1>4, FS_AddElement
<1> QED BY <1>2, <1>4, <1>5

LEMMA Popped ==
  ASSUME NEW s \in Seq(Frames), s # << >>
  PROVE  LET t == SubSeq(s, 1, Len(s) - 1)
         IN  /\ t \in Seq(Frames) /\ s[Len(s)] \in Frames
             /\ Len(s) \in DOMAIN s /\ DOMAIN t \subseteq DOMAIN s
             /\ \A i \in DOMAIN t : t[i] = s[i]
             /\ s = Append(t, s[Len(s)])
<1> DEFINE t == SubSeq(s, 1, Len(s) - 1)
<1>1. Len(s) \in Nat /\ Len(s) > 0
  OBVIOUS
<1>2. t \in Seq(Frames) /\ Len(t) = Len(s) - 1 /\ \A i \in 1 .. Len(t) : t[i] = s[i]
  <2>1. \A i \in 1 .. Len(s) - 1 : s[i] \in Frames
    BY <1>1
  <2>2. /\ t \in Seq(Frames)
        /\ Len(t) = IF 1 <= Len(s) - 1 THEN Len(s) - 1 - 1 + 1 ELSE 0
        /\ \A i \in 1 .. Len(s) - 1 - 1 + 1 : t[i] = s[1 + i - 1]
    BY <1>1, <2>1, SubSeqProperties
  <2> HIDE DEF t
  <2>3. Len(t) = Len(s) - 1
    <3> DEFINE n == Len(s)
               k == Len(t)
    <3>1. n \in Nat /\ n > 0
      BY <1>1
    <3>2. k = IF 1 <= n - 1 THEN n - 1 - 1 + 1 ELSE 0
      BY <2>2
    <3> HIDE DEF n, k
    <3>3. k = n - 1
      BY <3>1, <3>2
    <3> QED BY <3>3 DEF n, k
  <2>4. ASSUME NEW i \in 1 .. Len(t) PROVE t[i] = s[i]
    <3>1. i \in 1 .. Len(s) - 1 - 1 + 1 /\ 1 + i - 1 = i
      BY <1>1, <2>3
    <3> QED BY <2>2, <3>1
  <2> QED BY <2>2, <2>3, <2>4
<1>3. s[Len(s)] \in Frames
  BY <1>1
<1>4. s = Append(t, s[Len(s)])
  <2> HIDE DEF t
  <2>1. /\ Append(t, s[Len(s)]) \in Seq(Frames)
        /\ Len(Append(t, s[Len(s)])) = Len(s)
        /\ \A i \in 1 .. Len(t) : Append(t, s[Len(s)])[i] = t[i]
        /\ Append(t, s[Len(s)])[Len(t) + 1] = s[Len(s)]
    BY <1>1, <1>2, <1>3
  <2>2. ASSUME NEW i \in 1 .. Len(s) PROVE Append(t, s[Len(s)])[i] = s[i]
    BY <1>1, <1>2, <2>1
  <2> QED BY <2>1, <2>2, SeqEqual
<1> QED BY <1>1, <1>2, <1>3, <1>4

\* A frame that is no activation may come and go.
LEMMA PushOK ==
  ASSUME NEW s, NEW e, RunsOK(s, e), NEW f \in Frames, FrameOK(f), f.kind # "run"
  PROVE  RunsOK(Append(s, f), e)
<1>1. s \in Seq(Frames) /\ Append(s, f) \in Seq(Frames)
  BY DEF RunsOK
<1>2. \A i \in DOMAIN Append(s, f) : FrameOK(Append(s, f)[i])
  <2>1. ASSUME NEW i \in DOMAIN Append(s, f) PROVE FrameOK(Append(s, f)[i])
    <3>1. \/ i \in DOMAIN s /\ Append(s, f)[i] = s[i]
          \/ Append(s, f)[i] = f
      BY <1>1
    <3> QED BY <3>1 DEF RunsOK
  <2> QED BY <2>1
<1>3. \A o : ~Counts(f, o)
  BY DEF Counts
<1>4. ASSUME NEW o \in Objects
      PROVE  e[o].executable_nesting = Cardinality(ActivationsIn(Append(s, f), o))
  BY <1>1, <1>3, ActivationsPushed, ActivationsFinite DEF RunsOK
<1> QED BY <1>1, <1>2, <1>4 DEF RunsOK

LEMMA PopOK ==
  ASSUME NEW s, NEW e, RunsOK(s, e), s # << >>, s[Len(s)].kind # "run"
  PROVE  RunsOK(SubSeq(s, 1, Len(s) - 1), e)
<1> DEFINE t == SubSeq(s, 1, Len(s) - 1)
           f == s[Len(s)]
<1>1. /\ s \in Seq(Frames) /\ t \in Seq(Frames) /\ f \in Frames
      /\ DOMAIN t \subseteq DOMAIN s /\ \A i \in DOMAIN t : t[i] = s[i]
      /\ s = Append(t, f)
  BY Popped DEF RunsOK
<1>2. ~(f.kind = "run")
  OBVIOUS
<1> HIDE DEF t, f
<1>3. \A i \in DOMAIN t : FrameOK(t[i])
  BY <1>1 DEF RunsOK
<1>4. ASSUME NEW o \in Objects
      PROVE  e[o].executable_nesting = Cardinality(ActivationsIn(t, o))
  <2>1. ~Counts(f, o)
    BY <1>2 DEF Counts
  <2>2. Cardinality(ActivationsIn(Append(t, f), o)) =
          Cardinality(ActivationsIn(t, o)) + 0
    BY <1>1, <2>1, ActivationsPushed
  <2>3. Cardinality(ActivationsIn(t, o)) \in Nat
    BY <1>1, ActivationsFinite
  <2> QED BY <1>1, <2>2, <2>3 DEF RunsOK
<1>5. RunsOK(t, e)
  BY <1>1, <1>3, <1>4 DEF RunsOK
<1> QED BY <1>5 DEF t

\* The end of an activation is marked by its program counter.
LEMMA TailOK ==
  ASSUME NEW s, NEW e, RunsOK(s, e), s # << >>
  PROVE  RunsOK([s EXCEPT ![Len(s)].pc = "tail"], e)
<1> DEFINE t == [s EXCEPT ![Len(s)].pc = "tail"]
<1>1. s \in Seq(Frames) /\ Len(s) \in DOMAIN s /\ s[Len(s)] \in Frames
  BY DEF RunsOK
<1>2. [s[Len(s)] EXCEPT !.pc = "tail"] \in Frames
  BY <1>1 DEF Frames
<1>3. t \in Seq(Frames) /\ DOMAIN t = DOMAIN s
  BY <1>1, <1>2
<1>4. ASSUME NEW i \in DOMAIN s
      PROVE  t[i].kind = s[i].kind /\ t[i].obj = s[i].obj /\ t[i].name = s[i].name
  <2>1. s[i] \in Frames
    BY <1>1
  <2>2. CASE i = Len(s)
    <3>1. t[i] = [s[i] EXCEPT !.pc = "tail"]
      BY <1>1, <2>2
    <3> HIDE DEF t
    <3> QED BY <2>1, <3>1 DEF Frames
  <2>3. CASE i # Len(s)
    BY <2>3
  <2> QED BY <2>2, <2>3
<1> HIDE DEF t
<1>5. \A i \in DOMAIN t : FrameOK(t[i])
  BY <1>3, <1>4 DEF FrameOK, RunsOK
<1>6. ASSUME NEW o PROVE ActivationsIn(t, o) = ActivationsIn(s, o)
  BY <1>3, <1>4 DEF ActivationsIn
<1>7. RunsOK(t, e)
  BY <1>3, <1>5, <1>6 DEF RunsOK
<1> QED BY <1>7 DEF t

LEMMA SameRuns ==
  ASSUME NEW s, RunsOK(s, object), SameNesting
  PROVE  RunsOK(s, object')
BY DEF RunsOK, SameNesting

-----------------------------------------------------------------------------
\* Calling and returning.

\* One more activation of o and nothing else; MapOK looks at no counter but to see
\* whether it is above zero.
Entered(o) ==
  /\ object' = [object EXCEPT ![o].executable_nesting = @ + 1]
  /\ UNCHANGED map

LEMMA NestingChanged ==
  ASSUME NEW e \in Objects_, NEW k \in Nat
  PROVE  LET f == [e EXCEPT !.executable_nesting = k]
         IN  /\ f \in Objects_ /\ f.executable_nesting = k
             /\ f.kind = e.kind /\ f.name = e.name /\ f.del_on_term = e.del_on_term
BY DEF Objects_

LEMMA EnterOK ==
  ASSUME MapOK(map, object), NEW base, RunsOK(base, object),
         NEW n \in AllNames, map[n] # None, Enter(base, map[n]), UNCHANGED map
  PROVE  /\ MapOK(map', object') /\ RunsOK(stack', object')
         /\ map[n] \in Objects /\ Entered(map[n])
<1> DEFINE o == map[n]
           f == RunFrame(o)
<1>1. /\ o \in Objects /\ object[o] \in Objects_ /\ object[o].kind # "free"
      /\ object \in [Objects -> Objects_]
  BY DEF MapOK
<1>2. /\ object' = [object EXCEPT ![o].executable_nesting = @ + 1]
      /\ stack' = Append(base, f) /\ map' = map
  BY DEF Enter
<1>3. f \in Frames /\ f.kind = "run" /\ f.obj = o /\ FrameOK(f)
  BY <1>1 DEF RunFrame, Frames, FrameOK
<1> HIDE DEF f
<1>4. /\ object'[o] \in Objects_
      /\ object'[o].executable_nesting = object[o].executable_nesting + 1
      /\ object'[o].kind = object[o].kind /\ object'[o].name = object[o].name
      /\ object'[o].del_on_term = object[o].del_on_term
  <2>1. object'[o] = [object[o] EXCEPT !.executable_nesting = object[o].executable_nesting + 1]
    BY <1>1, <1>2
  <2>2. object[o].executable_nesting + 1 \in Nat
    BY <1>1 DEF Objects_
  <2> QED BY <1>1, <2>1, <2>2, NestingChanged
<1>5. \A x \in Objects : x # o => object'[x] = object[x]
  BY <1>1, <1>2
<1>6. object' \in [Objects -> Objects_]
  <2>1. object' = [x \in Objects |-> object'[x]]
    BY <1>1, <1>2
  <2>2. \A x \in Objects : object'[x] \in Objects_
    BY <1>1, <1>4, <1>5
  <2> QED BY <2>1, <2>2
<1>7. object[o].executable_nesting \in Nat
  BY <1>1 DEF Objects_
<1>8. MapOK(map', object')
  <2>1. ASSUME NEW x \in Objects
        PROVE  /\ object'[x].kind = object[x].kind /\ object'[x].name = object[x].name
               /\ object'[x].del_on_term = object[x].del_on_term
               /\ object[x].executable_nesting > 0 => object'[x].executable_nesting > 0
               /\ object'[x].kind = "free" => object'[x] = object[x]
    BY <1>1, <1>4, <1>5, <1>7
  <2>2. \A m \in AllNames : map'[m] = map[m] /\ (map[m] # None => map[m] \in Objects)
    BY <1>2 DEF MapOK
  <2>3. BuiltinNames \subseteq AllNames
    BY DEF AllNames
  <2>4. map' \in [AllNames -> Objects \cup {None}]
    BY <1>2 DEF MapOK
  <2>5. \A x \in Objects : object'[x].kind = "free" => object'[x] = Free
    BY <2>1 DEF MapOK
  <2>6. \A x \in Objects : object'[x].kind # "free" =>
          /\ object'[x].name \in AllNames
          /\ \/ map'[object'[x].name] = x
             \/ object'[x].del_on_term /\ object'[x].executable_nesting > 0
    BY <1>2, <2>1 DEF MapOK
  <2>7. \A m \in AllNames : map'[m] # None =>
          /\ object'[map'[m]].kind # "free"
          /\ object'[map'[m]].name = m
          /\ ~object'[map'[m]].del_on_term
    BY <2>1, <2>2 DEF MapOK
  <2>8. \A b \in BuiltinNames : map'[b] # None /\ object'[map'[b]].kind = "builtin"
    BY <2>1, <2>2, <2>3 DEF MapOK
  <2> QED BY <1>6, <2>4, <2>5, <2>6, <2>7, <2>8 DEF MapOK
<1>9. RunsOK(stack', object')
  <2>1. base \in Seq(Frames) /\ Append(base, f) \in Seq(Frames)
    BY <1>3 DEF RunsOK
  <2>2. ASSUME NEW i \in DOMAIN Append(base, f) PROVE FrameOK(Append(base, f)[i])
    <3>1. \/ i \in DOMAIN base /\ Append(base, f)[i] = base[i]
          \/ Append(base, f)[i] = f
      BY <2>1
    <3> QED BY <1>3, <3>1 DEF RunsOK
  <2>3. ASSUME NEW x \in Objects
        PROVE  object'[x].executable_nesting = Cardinality(ActivationsIn(Append(base, f), x))
    <3>1. Cardinality(ActivationsIn(Append(base, f), x)) =
            Cardinality(ActivationsIn(base, x)) + (IF x = o THEN 1 ELSE 0)
      BY <1>3, <2>1, ActivationsPushed DEF Counts
    <3>2. Cardinality(ActivationsIn(base, x)) \in Nat
      BY <2>1, ActivationsFinite
    <3>3. object[x].executable_nesting = Cardinality(ActivationsIn(base, x))
      BY DEF RunsOK
    <3> QED BY <1>4, <1>5, <3>1, <3>2, <3>3
  <2> QED BY <1>2, <2>1, <2>2, <2>3 DEF RunsOK
<1> QED BY <1>1, <1>2, <1>8, <1>9 DEF Entered

\* One activation less; the last one deletes what no name stands for.
Gone(o) ==
  /\ object[o].executable_nesting > 0
  /\ UNCHANGED map
  /\ \A x \in Objects \ {o} : object'[x] = object[x]
  /\ object'[o].executable_nesting = object[o].executable_nesting - 1

LEMMA LeaveOK ==
  ASSUME MapOK(map, object), RunsOK(stack, object), Leave
  PROVE  /\ MapOK(map', object') /\ RunsOK(stack', object')
         /\ Top.obj \in Objects /\ Gone(Top.obj)
<1> DEFINE o == Top.obj
           e == object[o]
           left == [e EXCEPT !.executable_nesting = @ - 1]
           new == IF e.del_on_term /\ ~is_running(left) THEN Free ELSE left
<1>1. /\ stack \in Seq(Frames) /\ stack # << >> /\ Top.kind = "run"
      /\ stack' = Callers /\ map' = map
  BY DEF Leave, TopIs, RunsOK
<1>2. /\ Callers \in Seq(Frames) /\ Top \in Frames
      /\ Len(stack) \in DOMAIN stack /\ DOMAIN Callers \subseteq DOMAIN stack
      /\ \A i \in DOMAIN Callers : Callers[i] = stack[i]
      /\ stack = Append(Callers, Top)
  BY <1>1, Popped DEF Callers, Top
<1>3. o \in Objects
  BY <1>1, <1>2 DEF Top, RunsOK, FrameOK
<1>4. /\ object \in [Objects -> Objects_] /\ e \in Objects_
  BY <1>3 DEF MapOK
<1>5. \A x \in Objects :
        /\ Cardinality(ActivationsIn(Callers, x)) \in Nat
        /\ object[x].executable_nesting =
             Cardinality(ActivationsIn(Callers, x)) + (IF x = o THEN 1 ELSE 0)
  <2> SUFFICES ASSUME NEW x \in Objects
               PROVE  /\ Cardinality(ActivationsIn(Callers, x)) \in Nat
                      /\ object[x].executable_nesting =
                           Cardinality(ActivationsIn(Callers, x)) + (IF x = o THEN 1 ELSE 0)
    OBVIOUS
  <2>1. Counts(Top, x) <=> x = o
    BY <1>1 DEF Counts
  <2>2. Cardinality(ActivationsIn(Append(Callers, Top), x)) =
          Cardinality(ActivationsIn(Callers, x)) + (IF Counts(Top, x) THEN 1 ELSE 0)
    BY <1>2, ActivationsPushed
  <2>3. object[x].executable_nesting = Cardinality(ActivationsIn(stack, x))
    BY DEF RunsOK
  <2>4. Cardinality(ActivationsIn(Callers, x)) \in Nat
    BY <1>2, ActivationsFinite
  <2> HIDE DEF o
  <2> QED BY <1>2, <2>1, <2>2, <2>3, <2>4
<1>6. e.executable_nesting > 0 /\ e.executable_nesting \in Nat
  BY <1>3, <1>5
<1>7. e.kind # "free"
  <2>1. e.kind = "free" => e = Free
    BY <1>3 DEF MapOK
  <2>2. Free.executable_nesting = 0
    BY DEF Free
  <2> QED BY <1>6, <2>1, <2>2
<1>8. object' = [object EXCEPT ![o] = new]
  BY DEF Leave
<1> HIDE DEF o
<1>9. /\ left \in Objects_ /\ left.executable_nesting = e.executable_nesting - 1
      /\ left.kind = e.kind /\ left.name = e.name /\ left.del_on_term = e.del_on_term
  BY <1>4, <1>6 DEF Objects_
<1> HIDE DEF left, e
<1>10. /\ new \in Objects_ /\ new.executable_nesting = left.executable_nesting
  <2>1. CASE e.del_on_term /\ ~is_running(left)
    <3>1. new = Free /\ left.executable_nesting = 0
      BY <2>1, <1>6, <1>9 DEF is_running
    <3>2. Free \in Objects_ /\ Free.executable_nesting = 0
      BY DEF Free, Objects_
    <3> HIDE DEF new
    <3> QED BY <3>1, <3>2
  <2>2. CASE ~(e.del_on_term /\ ~is_running(left))
    BY <2>2, <1>9
  <2> QED BY <2>1, <2>2
<1>11. /\ new.kind = "free" => new = Free
       /\ new.kind # "free" => new = left /\ (e.del_on_term => left.executable_nesting > 0)
       /\ ~e.del_on_term => new = left
  BY <1>7, <1>9 DEF is_running, Free
<1> HIDE DEF new
<1>12. /\ object' \in [Objects -> Objects_] /\ object'[o] = new
       /\ \A x \in Objects : x # o => object'[x] = object[x]
  BY <1>3, <1>4, <1>8, <1>10
<1>13. MapOK(map', object')
  <2>1. \A x \in Objects : object'[x].kind = "free" => object'[x] = Free
    BY <1>11, <1>12 DEF MapOK
  <2>2. ASSUME NEW x \in Objects, object'[x].kind # "free"
        PROVE  /\ object'[x].name \in AllNames
               /\ \/ map'[object'[x].name] = x
                  \/ object'[x].del_on_term /\ object'[x].executable_nesting > 0
    <3>1. CASE x = o
      <4>1. object'[o] = left /\ (e.del_on_term => left.executable_nesting > 0)
        BY <3>1, <2>2, <1>11, <1>12
      <4>2. e.name \in AllNames /\ (map[e.name] = o \/ e.del_on_term)
        BY <1>3, <1>7 DEF MapOK, e
      <4> QED BY <3>1, <4>1, <4>2, <1>1, <1>9
    <3>2. CASE x # o
      BY <3>2, <2>2, <1>1, <1>12 DEF MapOK
    <3> QED BY <3>1, <3>2
  <2>3. ASSUME NEW n \in AllNames, map'[n] # None
        PROVE  /\ object'[map'[n]].kind # "free"
               /\ object'[map'[n]].name = n
               /\ ~object'[map'[n]].del_on_term
               /\ object'[map'[n]].kind = object[map[n]].kind
    <3>1. /\ map'[n] = map[n] /\ map[n] \in Objects
          /\ object[map[n]].kind # "free" /\ object[map[n]].name = n
          /\ ~object[map[n]].del_on_term
      BY <2>3, <1>1 DEF MapOK
    <3>2. CASE map[n] = o
      <4>1. object'[o] = left
        BY <3>1, <3>2, <1>11, <1>12 DEF e
      <4>2. e.name = n /\ ~e.del_on_term /\ e.kind = object[map[n]].kind
        BY <3>1, <3>2 DEF e
      <4> QED BY <3>1, <3>2, <4>1, <4>2, <1>7, <1>9
    <3>3. CASE map[n] # o
      BY <3>1, <3>3, <1>12
    <3> QED BY <3>2, <3>3
  <2>4. \A b \in BuiltinNames : map'[b] # None /\ object'[map'[b]].kind = "builtin"
    BY <2>3, <1>1 DEF MapOK, AllNames
  <2>5. map' \in [AllNames -> Objects \cup {None}]
    BY <1>1 DEF MapOK
  <2> QED BY <2>1, <2>2, <2>3, <2>4, <2>5, <1>12 DEF MapOK
<1>14. RunsOK(stack', object')
  <2>1. \A i \in DOMAIN Callers : FrameOK(Callers[i])
    BY <1>2 DEF RunsOK
  <2>2. ASSUME NEW x \in Objects
        PROVE  object'[x].executable_nesting = Cardinality(ActivationsIn(Callers, x))
    <3>1. CASE x = o
      BY <3>1, <1>3, <1>5, <1>9, <1>10, <1>12 DEF e
    <3>2. CASE x # o
      BY <3>2, <1>5, <1>12
    <3> QED BY <3>1, <3>2
  <2> QED BY <1>1, <1>2, <2>1, <2>2 DEF RunsOK
<1>15. Gone(o)
  BY <1>1, <1>6, <1>9, <1>10, <1>12 DEF Gone, e
<1> QED BY <1>3, <1>13, <1>14, <1>15 DEF o

-----------------------------------------------------------------------------
\* Every action.

\* What a step may do to the map and the counters: there are five cases.
StepIs ==
  \/ SameNesting /\ UNCHANGED map
  \/ SameNesting /\ \E n \in AllNames, o \in FreePlaces : map' = [map EXCEPT ![n] = o]
  \/ /\ SameNesting
     /\ \E n \in AllNames : map[n] # None /\ map' = [map EXCEPT ![n] = None]
  \/ \E n \in AllNames : map[n] \in Objects /\ Entered(map[n])
  \/ \E o \in Objects : Gone(o)

Stepped ==
  /\ MapOK(map', object') /\ RunsOK(stack', object')
  /\ in_autofunction' \in BOOLEAN
  /\ StepIs

\* .function, .binary and not_found
LEMMA SetStep ==
  ASSUME LifeInvariant, NEW n \in AllNames, ~IsKind(n, "builtin"),
         NEW kind \in {"function", "binary"},
         \E o \in FreePlaces : Set(n, o, kind),
         UNCHANGED <<stack, in_autofunction>>
  PROVE  Stepped
<1>1. PICK o \in FreePlaces : Set(n, o, kind)
  OBVIOUS
<1>2. MapOK(map, object) /\ RunsOK(stack, object) /\ in_autofunction \in BOOLEAN
  BY InvariantIs
<1>3. MapOK(map', object') /\ SameNesting
  BY <1>1, <1>2, SetOK
<1>4. RunsOK(stack, object')
  BY <1>2, <1>3, SameRuns
<1>5. map' = [map EXCEPT ![n] = o]
  BY <1>1 DEF Set
<1> QED BY <1>2, <1>3, <1>4, <1>5 DEF Stepped, StepIs

LEMMA NotFoundStep ==
  ASSUME MapOK(map, object), NEW base, RunsOK(base, object), not_found,
         stack' = base, in_autofunction' \in BOOLEAN
  PROVE  Stepped
<1>1. /\ MapOK(map', object') /\ SameNesting
      /\ \/ UNCHANGED <<map, object>>
         \/ \E n \in AllNames, o \in FreePlaces : map' = [map EXCEPT ![n] = o]
  BY NotFoundOK
<1>2. RunsOK(base, object')
  BY <1>1, SameRuns
<1> QED BY <1>1, <1>2 DEF Stepped, StepIs

LEMMA EnterStep ==
  ASSUME MapOK(map, object), NEW base, RunsOK(base, object),
         NEW n \in AllNames, map[n] # None, Enter(base, map[n]), UNCHANGED map,
         in_autofunction' \in BOOLEAN
  PROVE  Stepped
<1>1. /\ MapOK(map', object') /\ RunsOK(stack', object')
      /\ map[n] \in Objects /\ Entered(map[n])
  BY EnterOK
<1> QED BY <1>1 DEF Stepped, StepIs

LEMMA StackStep ==
  ASSUME MapOK(map, object), RunsOK(stack', object),
         UNCHANGED <<map, object>>, in_autofunction' \in BOOLEAN
  PROVE  Stepped
<1>1. SameNesting
  BY DEF SameNesting
<1> QED BY <1>1 DEF Stepped, StepIs

LEMMA RunStep ==
  ASSUME MapOK(map, object), NEW base, RunsOK(base, object),
         in_autofunction \in BOOLEAN, NEW n \in AllNames, Run(base, n)
  PROVE  Stepped
<1> DEFINE waiting == Append(base, WaitFrame(n))
<1>1. Autofunction \in AllNames
  BY NamesAssumption DEF AllNames
<1>2. RunsOK(waiting, object)
  <2>1. /\ WaitFrame(n) \in Frames /\ FrameOK(WaitFrame(n))
        /\ WaitFrame(n).kind # "run"
    BY DEF WaitFrame, Frames, FrameOK
  <2> QED BY <2>1, PushOK
<1> HIDE DEF waiting
<1>3. CASE /\ map[n] # None /\ Enter(base, map[n])
           /\ UNCHANGED <<map, in_autofunction>>
  BY <1>3, EnterStep
<1>4. CASE not_found /\ stack' = base /\ UNCHANGED in_autofunction
  BY <1>4, NotFoundStep
<1>5. CASE /\ in_autofunction' = TRUE /\ map[Autofunction] # None
           /\ Enter(waiting, map[Autofunction]) /\ UNCHANGED map
  BY <1>1, <1>2, <1>5, EnterStep
<1>6. CASE in_autofunction' = TRUE /\ not_found /\ stack' = waiting
  BY <1>2, <1>6, NotFoundStep
<1> QED BY <1>3, <1>4, <1>5, <1>6 DEF Run, waiting

LEMMA StepOK ==
  ASSUME LifeInvariant, Next
  PROVE  Stepped
<1>1. MapOK(map, object) /\ RunsOK(stack, object) /\ in_autofunction \in BOOLEAN
  BY InvariantIs
<1>2. ASSUME NEW n \in AllNames, Call(n) PROVE Stepped
  BY <1>1, <1>2, RunStep DEF Call
<1>3. ASSUME NEW n \in AllNames, HandleSignal(n) PROVE Stepped
  <2>1. RunsOK([stack EXCEPT ![Len(stack)].pc = "tail"], object)
    BY <1>1, <1>3, TailOK DEF HandleSignal, TopIs
  <2>2. Run([stack EXCEPT ![Len(stack)].pc = "tail"], n)
    BY <1>3 DEF HandleSignal
  <2> QED BY <1>1, <2>1, <2>2, RunStep
<1>4. ASSUME NEW n \in AllNames, Define(n) PROVE Stepped
  BY <1>4, SetStep DEF Define
<1>5. ASSUME NEW n \in AllNames, DefineBinary(n) PROVE Stepped
  <2>1. ~IsKind(n, "builtin")
    BY <1>5 DEF DefineBinary, IsKind
  <2> QED BY <1>5, <2>1, SetStep DEF DefineBinary
<1>6. ASSUME NEW n \in AllNames, Remove(n) PROVE Stepped
  <2>1. MapOK(map', object') /\ SameNesting
    BY <1>1, <1>6, EraseOK DEF Remove
  <2>2. RunsOK(stack, object')
    BY <1>1, <2>1, SameRuns
  <2>3. map[n] # None /\ map' = [map EXCEPT ![n] = None]
        /\ UNCHANGED <<stack, in_autofunction>>
    BY <1>6 DEF Remove, Erase
  <2> QED BY <1>1, <2>1, <2>2, <2>3 DEF Stepped, StepIs
<1>7. ASSUME NEW n \in AllNames, Stepwise(n) PROVE Stepped
  <2>1. map[n] \in Objects
    BY <1>1, <1>7 DEF Stepwise, IsKind, MapOK
  <2>2. /\ StepFrame(map[n]) \in Frames /\ FrameOK(StepFrame(map[n]))
        /\ StepFrame(map[n]).kind # "run"
    BY <2>1 DEF StepFrame, Frames, FrameOK
  <2>3. RunsOK(Append(stack, StepFrame(map[n])), object)
    BY <1>1, <2>2, PushOK
  <2> QED BY <1>1, <1>7, <2>3, StackStep DEF Stepwise
<1>8. CASE Found
  <2>1. TopIs("wait") /\ in_autofunction' = FALSE /\ UNCHANGED map
        /\ map[Top.name] # None
    BY <1>8 DEF Found
  <2>2. stack # << >> /\ stack[Len(stack)].kind = "wait" /\ Len(stack) \in DOMAIN stack
    BY <1>1, <2>1 DEF TopIs, Top, RunsOK
  <2>3. Top.name \in AllNames
    BY <1>1, <2>2 DEF Top, RunsOK, FrameOK
  <2>4. RunsOK(Callers, object)
    BY <1>1, <2>2, PopOK DEF Callers
  <2>5. CASE Enter(Callers, map[Top.name])
    BY <1>1, <2>1, <2>3, <2>4, <2>5, EnterStep
  <2>6. CASE stack' = Callers /\ UNCHANGED object
    BY <1>1, <2>1, <2>4, <2>6, StackStep
  <2> QED BY <1>8, <2>5, <2>6 DEF Found
<1>9. CASE NotFound
  <2>1. stack # << >> /\ stack[Len(stack)].kind = "wait"
    BY <1>9 DEF NotFound, TopIs, Top
  <2>2. RunsOK(Callers, object)
    BY <1>1, <2>1, PopOK DEF Callers
  <2> QED BY <1>1, <1>9, <2>2, NotFoundStep DEF NotFound
<1>10. CASE Leave
  <2>1. /\ MapOK(map', object') /\ RunsOK(stack', object')
        /\ Top.obj \in Objects /\ Gone(Top.obj)
    BY <1>1, <1>10, LeaveOK
  <2>2. in_autofunction' \in BOOLEAN
    BY <1>1, <1>10 DEF Leave
  <2> QED BY <2>1, <2>2 DEF Stepped, StepIs
<1>11. CASE StepBody
  <2>1. /\ BodyFrame \in Frames /\ FrameOK(BodyFrame) /\ BodyFrame.kind # "run"
    BY DEF BodyFrame, Frames, FrameOK
  <2>2. RunsOK(Append(stack, BodyFrame), object)
    BY <1>1, <2>1, PushOK
  <2> QED BY <1>1, <1>11, <2>2, StackStep DEF StepBody
<1>12. CASE StepDone
  <2>1. stack # << >> /\ stack[Len(stack)].kind # "run"
    BY <1>12 DEF StepDone, TopIs, Top
  <2>2. RunsOK(Callers, object)
    BY <1>1, <2>1, PopOK DEF Callers
  <2> QED BY <1>1, <1>12, <2>2, StackStep DEF StepDone
<1> QED
  BY <1>2, <1>3, <1>4, <1>5, <1>6, <1>7, <1>8, <1>9, <1>10, <1>11, <1>12 DEF Next

LEMMA LifeInit == Init => LifeInvariant
<1> SUFFICES ASSUME Init PROVE LifeInvariant
  OBVIOUS
<1>1. /\ map \in [AllNames -> Objects \cup {None}]
      /\ \A n \in Names : map[n] = None
      /\ \A n \in BuiltinNames : map[n] # None
      /\ object \in [Objects -> {Free} \cup {New("builtin", n) : n \in BuiltinNames}]
      /\ \A o \in Objects, n \in BuiltinNames : object[o] = New("builtin", n) <=> map[n] = o
      /\ stack = << >> /\ in_autofunction = FALSE
  BY DEF Init
<1>2. /\ Free \in Objects_ /\ Free.kind = "free" /\ Free.executable_nesting = 0
      /\ \A n \in AllNames :
           /\ New("builtin", n) \in Objects_ /\ New("builtin", n).kind = "builtin"
           /\ New("builtin", n).name = n /\ ~New("builtin", n).del_on_term
           /\ New("builtin", n).executable_nesting = 0
  BY DEF New, Free, Objects_, Kinds
<1>3. BuiltinNames \subseteq AllNames
  BY DEF AllNames
<1>4. \A o \in Objects :
        \/ object[o] = Free
        \/ \E n \in BuiltinNames : object[o] = New("builtin", n) /\ map[n] = o
  BY <1>1
<1>5. \A o \in Objects : object[o] \in Objects_ /\ object[o].executable_nesting = 0
  BY <1>2, <1>3, <1>4
<1>6. object \in [Objects -> Objects_]
  BY <1>1, <1>5
<1>7. ASSUME NEW n \in AllNames, map[n] # None
      PROVE  n \in BuiltinNames /\ map[n] \in Objects /\ object[map[n]] = New("builtin", n)
  BY <1>1, <1>7 DEF AllNames
<1>8. MapOK(map, object)
  <2>1. \A o \in Objects : object[o].kind = "free" => object[o] = Free
    BY <1>2, <1>3, <1>4
  <2>2. \A o \in Objects : object[o].kind # "free" =>
          object[o].name \in AllNames /\ map[object[o].name] = o
    BY <1>2, <1>3, <1>4
  <2>3. \A n \in AllNames : map[n] # None =>
          /\ object[map[n]].kind # "free" /\ object[map[n]].name = n
          /\ ~object[map[n]].del_on_term
    BY <1>2, <1>7
  <2>4. ASSUME NEW n \in BuiltinNames
        PROVE  map[n] # None /\ object[map[n]].kind = "builtin"
    <3>1. n \in AllNames /\ map[n] # None
      BY <1>1, <1>3
    <3>2. object[map[n]] = New("builtin", n)
      BY <3>1, <1>7
    <3> QED BY <3>1, <3>2, <1>2
  <2> QED BY <1>1, <1>6, <2>1, <2>2, <2>3, <2>4 DEF MapOK
<1>9. RunsOK(stack, object)
  <2>1. stack \in Seq(Frames) /\ DOMAIN stack = {}
    BY <1>1
  <2>2. \A o : ActivationsIn(stack, o) = {}
    BY <2>1 DEF ActivationsIn
  <2> QED BY <1>5, <2>1, <2>2, FS_EmptySet DEF RunsOK
<1> QED BY <1>1, <1>8, <1>9, InvariantIs

\* Whatever scripts define, remove and run, and wherever signals come: executables
\* know their activations, names find their own, and builtins stay (executable.cc
\* 26-55, executable_map.cc 32-48).
THEOREM LifeInvariantHolds == Spec => []LifeInvariant
<1>1. LifeInvariant /\ [Next]_vars => LifeInvariant'
  <2> SUFFICES ASSUME LifeInvariant, [Next]_vars PROVE LifeInvariant'
    OBVIOUS
  <2>1. CASE Next
    <3>1. Stepped
      BY <2>1, StepOK
    <3> QED BY <3>1, InvariantIsPrimed DEF Stepped
  <2>2. CASE UNCHANGED vars
    <3>1. MapOK(map, object) /\ RunsOK(stack, object) /\ in_autofunction \in BOOLEAN
      BY InvariantIs
    <3> QED BY <2>2, <3>1, InvariantIsPrimed DEF vars
  <2> QED BY <2>1, <2>2
<1> QED BY <1>1, LifeInit, PTL DEF Spec

\* is_running() tells the truth on every way into operator() and out of it.
THEOREM RunningCountedHolds == Spec => []RunningCounted
<1>1. LifeInvariant => RunningCounted
  BY DEF LifeInvariant
<1> QED BY <1>1, LifeInvariantHolds, PTL

\* No name finds an executable that is deleted, or that is about to be.
THEOREM NamesOwnHolds == Spec => []NamesOwn
<1>1. LifeInvariant => NamesOwn
  BY DEF LifeInvariant
<1> QED BY <1>1, LifeInvariantHolds, PTL

\* What no name finds is running and will be deleted: nothing is lost.
THEOREM NothingLostHolds == Spec => []NothingLost
<1>1. LifeInvariant => NothingLost
  BY DEF LifeInvariant
<1> QED BY <1>1, LifeInvariantHolds, PTL

-----------------------------------------------------------------------------
\* The refinement.

active == [o \in Objects |-> object[o].executable_nesting]
alive == {o \in Objects : object[o].kind # "free"}

LEMMA AliveIsReferred ==
  ASSUME NEW m, NEW e, MapOK(m, e)
  PROVE  {o \in Objects : e[o].kind # "free"} =
           Lives!Referred(m, [o \in Objects |-> e[o].executable_nesting])
<1>1. ASSUME NEW o \in Objects
      PROVE  e[o].kind # "free" <=>
               (\E n \in AllNames : m[n] = o) \/ e[o].executable_nesting > 0
  <2>1. CASE e[o].kind = "free"
    <3>1. e[o].executable_nesting = 0
      <4>1. e[o] = Free
        BY <2>1 DEF MapOK
      <4> QED BY <4>1 DEF Free
    <3>2. \A n \in AllNames : m[n] # o
      BY <2>1, NamesAssumption DEF MapOK
    <3> QED BY <2>1, <3>1, <3>2
  <2>2. CASE e[o].kind # "free"
    BY <2>2 DEF MapOK
  <2> QED BY <2>1, <2>2
<1> QED BY <1>1 DEF Lives!Referred

LEMMA LivesInit == Init => Lives!Init
<1> SUFFICES ASSUME Init PROVE Lives!Init
  OBVIOUS
<1>1. MapOK(map, object) /\ RunsOK(stack, object)
  BY LifeInit, InvariantIs
<1>2. alive = Lives!Referred(map, active)
  BY <1>1, AliveIsReferred DEF alive, active
<1>3. map \in [AllNames -> Objects \cup {None}]
  BY <1>1 DEF MapOK
<1>4. active = [o \in Objects |-> 0]
  <2>1. \A o \in Objects : object[o].executable_nesting = 0
    <3>1. \A o : ActivationsIn(stack, o) = {}
      BY DEF Init, ActivationsIn
    <3> QED BY <1>1, <3>1, FS_EmptySet DEF RunsOK
  <2> QED BY <2>1 DEF active
<1> QED BY <1>2, <1>3, <1>4 DEF Lives!Init, alive, active

LEMMA LivesNext ==
  LifeInvariant /\ Next => Lives!Next \/ UNCHANGED Lives!lifetimeVars
<1> SUFFICES ASSUME LifeInvariant, Next
             PROVE  Lives!Next \/ UNCHANGED Lives!lifetimeVars
  OBVIOUS
<1>1. MapOK(map, object) /\ MapOK(map', object') /\ StepIs
  BY StepOK, InvariantIs DEF Stepped
<1>2. /\ alive = Lives!Referred(map, active)
      /\ alive' = Lives!Referred(map', active')
  BY <1>1, AliveIsReferred DEF alive, active
<1>3. SameNesting => active' = active
  BY DEF SameNesting, active
<1>4. CASE SameNesting /\ UNCHANGED map
  <2>1. map' = map /\ active' = active /\ alive' = alive
    BY <1>2, <1>3, <1>4
  <2>2. UNCHANGED Lives!lifetimeVars
    BY <2>1 DEF Lives!lifetimeVars, active, alive
  <2> QED BY <2>2
<1>5. CASE SameNesting /\ \E n \in AllNames, o \in FreePlaces : map' = [map EXCEPT ![n] = o]
  <2>1. PICK n \in AllNames, o \in FreePlaces : map' = [map EXCEPT ![n] = o]
    BY <1>5
  <2>2. o \in Objects /\ o \notin alive
    BY DEF FreePlaces, alive
  <2>3. Lives!Bind(n, o)
    BY <1>3, <1>5, <2>1, <2>2 DEF Lives!Bind, active, alive
  <2> QED BY <1>2, <2>2, <2>3 DEF Lives!Next, active, alive
<1>6. CASE /\ SameNesting
           /\ \E n \in AllNames : map[n] # None /\ map' = [map EXCEPT ![n] = None]
  <2>1. PICK n \in AllNames : map[n] # None /\ map' = [map EXCEPT ![n] = None]
    BY <1>6
  <2>2. Lives!Unbind(n)
    BY <1>3, <1>6, <2>1 DEF Lives!Unbind, active
  <2> QED BY <1>2, <2>2 DEF Lives!Next, active, alive
<1>7. CASE \E n \in AllNames : map[n] \in Objects /\ Entered(map[n])
  <2>1. PICK n \in AllNames : map[n] \in Objects /\ Entered(map[n])
    BY <1>7
  <2>2. object \in [Objects -> Objects_]
    BY <1>1 DEF MapOK
  <2>3. /\ \A x \in Objects \ {map[n]} : object'[x] = object[x]
        /\ object'[map[n]].executable_nesting = object[map[n]].executable_nesting + 1
    <3>1. object'[map[n]] = [object[map[n]] EXCEPT !.executable_nesting = @ + 1]
      BY <2>1, <2>2 DEF Entered
    <3>2. object[map[n]] \in Objects_
      BY <2>1, <2>2
    <3>3. object'[map[n]].executable_nesting = object[map[n]].executable_nesting + 1
      BY <3>1, <3>2 DEF Objects_
    <3> QED BY <2>1, <2>2, <3>3 DEF Entered
  <2>4. active' = [active EXCEPT ![map[n]] = @ + 1]
    BY <2>1, <2>3 DEF active
  <2>5. PICK o \in Objects : o = map[n]
    BY <2>1
  <2>6. Lives!Enter(o)
    BY <2>1, <2>4, <2>5 DEF Lives!Enter, active, Entered
  <2> QED BY <1>2, <2>6 DEF Lives!Next, active, alive
<1>8. CASE \E o \in Objects : Gone(o)
  <2>1. PICK o \in Objects : Gone(o)
    BY <1>8
  <2>2. active' = [active EXCEPT ![o] = @ - 1]
    BY <2>1 DEF active, Gone
  <2>3. Lives!Leave(o)
    BY <2>1, <2>2 DEF Lives!Leave, active, Gone
  <2> QED BY <1>2, <2>1, <2>3 DEF Lives!Next, active, alive
<1> QED BY <1>1, <1>4, <1>5, <1>6, <1>7, <1>8 DEF StepIs

\* The map and the counters implement Lifetimes: an executable lives exactly as long
\* as a name stands for it or an activation of it runs.
THEOREM LivesAsLongAsReferredHolds == Spec => LivesAsLongAsReferred
<1>1. LifeInvariant /\ [Next]_vars => [Lives!Next]_(Lives!lifetimeVars)
  <2> SUFFICES ASSUME LifeInvariant, [Next]_vars
               PROVE  [Lives!Next]_(Lives!lifetimeVars)
    OBVIOUS
  <2>1. CASE Next
    BY <2>1, LivesNext
  <2>2. CASE UNCHANGED vars
    BY <2>2 DEF vars, Lives!lifetimeVars
  <2> QED BY <2>1, <2>2
<1> QED
  BY <1>1, LivesInit, LifeInvariantHolds, PTL DEF Spec, LivesAsLongAsReferred, Lives!Spec

=============================================================================
