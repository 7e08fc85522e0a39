---------------------------- MODULE BindingProofs ----------------------------
(***************************************************************************)
(* For every prototype that can be declared, with groups of any length,    *)
(* and every call: the walk along the words stays within them, and no name *)
(* of the prototype is left to be looked up in the scope of the caller;    *)
(* what consists of several words is a list of words; the names of a group *)
(* are bound all or none; the words are bound once each, in order; and the *)
(* calls that are accepted are those whose words fit.                      *)
(***************************************************************************)
EXTENDS BindingProperties, Induction, SequenceTheorems, TLAPS

-----------------------------------------------------------------------------
\* Prototypes.

GroupType == [names : Seq(Names), required : BOOLEAN, elipsis : Int]

GroupOK(g) ==
  g \in GroupType /\ g.elipsis \in NoElipsis .. Len(g.names) /\ Len(g.names) > 0

Prototypes ==
  [positional : Seq(GroupType), flags : SUBSET GroupType, some : BOOLEAN, dash : Int,
   bare : BOOLEAN, names : SUBSET Names, elided : BOOLEAN, elipsis : Names \cup {""},
   required : Int, size : Int]

\* f says how many names there are from each group on: the sum that size is one of,
\* without recursion.
Rests(positional, f) ==
  /\ f \in [1 .. Len(positional) + 1 -> Nat]
  /\ f[Len(positional) + 1] = 0
  /\ \A i \in 1 .. Len(positional) : f[i] = f[i + 1] + Len(positional[i].names)

GroupNames(p) ==
  UNION {Members(g.names) : g \in p.flags \cup Members(p.positional)}

ProtoOK(p) ==
  /\ p \in Prototypes
  /\ \A i \in 1 .. Len(p.positional) : GroupOK(p.positional[i])
  /\ \A g \in p.flags : GroupOK(g)
  /\ p.names \subseteq {"--"} \cup (IF p.some THEN {"-*", "-?"} ELSE {})
                          \cup (IF p.flags # {} THEN {"-*"} ELSE {}) \cup GroupNames(p)
  /\ \E f : Rests(p.positional, f) /\ p.size = f[1]

LEMMA GroupsTyped ==
  ASSUME NEW g \in Groups
  PROVE  /\ g \in GroupType /\ g.elipsis \in NoElipsis .. Len(g.names)
         /\ g.elipsis # 0 => g.names # << >>
         /\ g.names \in Seq(Names) /\ Len(g.names) \in Nat
         /\ g.names # << >> => GroupOK(g)
<1>1. /\ g \in [names : Seq(Names), required : BOOLEAN, elipsis : Int]
      /\ g.elipsis \in NoElipsis .. Len(g.names)
      /\ g.elipsis # 0 => g.names # << >>
  BY BindingAssumption
<1>2. g.names \in Seq(Names)
  BY <1>1
<1>3. Len(g.names) \in Nat /\ (g.names # << >> => Len(g.names) > 0)
  BY <1>2
<1> QED BY <1>1, <1>2, <1>3 DEF GroupType, GroupOK

LEMMA LastIn ==
  ASSUME NEW S, NEW s \in Seq(S), s # << >>
  PROVE  LastOf(s) \in S
BY DEF LastOf

\* One group more in the sum.
LEMMA RestsAppend ==
  ASSUME NEW s \in Seq(GroupType), NEW g \in GroupType, NEW f, Rests(s, f)
  PROVE  \E h : Rests(Append(s, g), h) /\ h[1] = f[1] + Len(g.names)
<1> DEFINE n == Len(s)
           k == Len(g.names)
           h == [i \in 1 .. n + 2 |-> IF i = n + 2 THEN 0 ELSE f[i] + k]
           t == Append(s, g)
<1>1. n \in Nat /\ k \in Nat
  BY DEF GroupType
<1>2. Len(t) = n + 1 /\ t[n + 1] = g /\ \A i \in 1 .. n : t[i] = s[i]
  OBVIOUS
<1>3. /\ f \in [1 .. n + 1 -> Nat] /\ f[n + 1] = 0
      /\ \A i \in 1 .. n : f[i] = f[i + 1] + Len(s[i].names)
  BY DEF Rests
<1>4. \A i \in 1 .. n : Len(s[i].names) \in Nat
  <2> TAKE i \in 1 .. n
  <2>1. s[i] \in GroupType
    BY <1>1
  <2>2. s[i].names \in Seq(Names)
    BY <2>1 DEF GroupType
  <2> QED BY <2>2
<1> HIDE DEF n, k, t
<1>5. h \in [1 .. n + 2 -> Nat] /\ h[n + 2] = 0
  BY <1>1, <1>3
<1>6. ASSUME NEW i \in 1 .. n + 1 PROVE h[i] = h[i + 1] + Len(t[i].names)
  <2>1. CASE i = n + 1
    <3>1. h[i] = f[n + 1] + k /\ h[i + 1] = 0 /\ t[i] = g
      BY <2>1, <1>1, <1>2
    <3> QED BY <3>1, <1>1, <1>3 DEF k
  <2>2. CASE i \in 1 .. n
    <3>1. h[i] = f[i] + k /\ h[i + 1] = f[i + 1] + k /\ t[i] = s[i]
      BY <2>2, <1>1, <1>2
    <3>2. f[i] \in Nat /\ f[i + 1] \in Nat /\ f[i] = f[i + 1] + Len(s[i].names)
      BY <2>2, <1>1, <1>3
    <3> HIDE DEF h
    <3> QED BY <2>2, <3>1, <3>2, <1>1, <1>4
  <2> QED BY <2>1, <2>2, <1>1
<1>7. h[1] = f[1] + k
  BY <1>1, <1>3
<1>8. n + 2 = Len(t) + 1
  BY <1>1, <1>2
<1> HIDE DEF h
<1>9. Rests(t, h)
  BY <1>1, <1>2, <1>5, <1>6, <1>8 DEF Rests
<1> QED BY <1>7, <1>9 DEF k, t

LEMMA MembersAppend ==
  ASSUME NEW S, NEW s \in Seq(S), NEW x \in S
  PROVE  Members(Append(s, x)) = Members(s) \cup {x}
<1>1. /\ DOMAIN Append(s, x) = 1 .. Len(s) + 1 /\ DOMAIN s = 1 .. Len(s)
      /\ Len(s) \in Nat /\ Append(s, x)[Len(s) + 1] = x
      /\ \A i \in 1 .. Len(s) : Append(s, x)[i] = s[i]
  OBVIOUS
<1> QED BY <1>1 DEF Members

\* The updates that Named and WithGroup make.
Renamed(p, names, e, elided) ==
  [p EXCEPT !.names = names, !.elipsis = e, !.elided = elided]
Dashed(p, dash, bare) == [p EXCEPT !.dash = dash, !.bare = bare]
SomeMore(p, names) == [p EXCEPT !.some = TRUE, !.names = names]
Flagged(p, flags, names) == [p EXCEPT !.flags = flags, !.names = names]
Longer(p, s, n, m) == [p EXCEPT !.positional = s, !.required = n, !.size = m]
Replaced(p, s) == [p EXCEPT !.positional = s]

\* What they leave alone.
Same(q, positional, flags, some, names, size) ==
  /\ q \in Prototypes
  /\ q.positional = positional /\ q.flags = flags /\ q.some = some
  /\ q.names = names /\ q.size = size

LEMMA NamesUpdate ==
  ASSUME NEW p \in Prototypes, NEW names \in SUBSET Names,
         NEW e \in Names \cup {""}, NEW elided \in BOOLEAN
  PROVE  Same(Renamed(p, names, e, elided),
              p.positional, p.flags, p.some, names, p.size)
BY DEF Prototypes, Renamed, Same

LEMMA DashUpdate ==
  ASSUME NEW p \in Prototypes, NEW dash \in Int, NEW bare \in BOOLEAN
  PROVE  Same(Dashed(p, dash, bare), p.positional, p.flags, p.some, p.names, p.size)
BY DEF Prototypes, Dashed, Same

LEMMA SomeUpdate ==
  ASSUME NEW p \in Prototypes, NEW names \in SUBSET Names
  PROVE  Same(SomeMore(p, names), p.positional, p.flags, TRUE, names, p.size)
BY DEF Prototypes, SomeMore, Same

LEMMA FlagsUpdate ==
  ASSUME NEW p \in Prototypes, NEW flags \in SUBSET GroupType,
         NEW names \in SUBSET Names
  PROVE  Same(Flagged(p, flags, names), p.positional, flags, p.some, names, p.size)
BY DEF Prototypes, Flagged, Same

LEMMA LongerUpdate ==
  ASSUME NEW p \in Prototypes, NEW s \in Seq(GroupType), NEW n \in Int, NEW m \in Int
  PROVE  Same(Longer(p, s, n, m), s, p.flags, p.some, p.names, m)
BY DEF Prototypes, Longer, Same

LEMMA ReplacedUpdate ==
  ASSUME NEW p \in Prototypes, NEW s \in Seq(GroupType)
  PROVE  Same(Replaced(p, s), s, p.flags, p.some, p.names, p.size)
BY DEF Prototypes, Replaced, Same

LEMMA ProtoTyped ==
  ASSUME NEW p \in Prototypes
  PROVE  /\ p.positional \in Seq(GroupType) /\ Len(p.positional) \in Nat
         /\ p.flags \subseteq GroupType /\ p.names \subseteq Names
         /\ p.elipsis \in Names \cup {""}
         /\ p.required \in Int /\ p.size \in Int
<1>1. /\ p.positional \in Seq(GroupType) /\ p.flags \subseteq GroupType
      /\ p.names \subseteq Names /\ p.elipsis \in Names \cup {""}
      /\ p.required \in Int /\ p.size \in Int
  BY DEF Prototypes
<1>2. \A s \in Seq(GroupType) : Len(s) \in Nat
  OBVIOUS
<1> QED BY <1>1, <1>2

LEMMA NamedOK ==
  ASSUME NEW p, ProtoOK(p), NEW g \in Groups, PlaceFits(p, g)
  PROVE  LET q == Named(p, g)
         IN  /\ q \in Prototypes
             /\ q.positional = p.positional /\ q.flags = p.flags /\ q.some = p.some
             /\ q.size = p.size /\ q.names = p.names \cup Members(g.names)
<1> DEFINE e == IF g.elipsis = 0 THEN LastOf(LastOf(p.positional).names)
                ELSE IF g.elipsis = NoElipsis THEN p.elipsis ELSE g.names[g.elipsis]
<1>1. p \in Prototypes
  BY DEF ProtoOK
<1>2. Members(g.names) \subseteq Names
  BY GroupsTyped DEF Members
<1>3. e \in Names \cup {""}
  <2>1. CASE g.elipsis = 0
    <3>1. p.positional # << >> /\ p.positional \in Seq(GroupType)
      BY <1>1, <2>1 DEF PlaceFits, Prototypes
    <3>2. Len(p.positional) \in 1 .. Len(p.positional)
      BY <3>1
    <3>3. GroupOK(LastOf(p.positional))
      BY <3>2 DEF ProtoOK, LastOf
    <3>4. /\ LastOf(p.positional).names \in Seq(Names)
          /\ LastOf(p.positional).names # << >>
      BY <3>3 DEF GroupOK, GroupType
    <3>5. LastOf(LastOf(p.positional).names) \in Names
      BY <3>4, LastIn
    <3>6. e = LastOf(LastOf(p.positional).names)
      BY <2>1
    <3> HIDE DEF e
    <3> QED BY <3>5, <3>6
  <2>2. CASE g.elipsis = NoElipsis
    <3>1. p.elipsis \in Names \cup {""}
      BY <1>1, ProtoTyped
    <3>2. e = p.elipsis
      BY <2>2 DEF NoElipsis
    <3> HIDE DEF e
    <3> QED BY <3>1, <3>2
  <2>3. CASE g.elipsis # 0 /\ g.elipsis # NoElipsis
    <3>1. g.elipsis \in 1 .. Len(g.names) /\ g.names \in Seq(Names)
      BY <2>3, GroupsTyped DEF NoElipsis
    <3>2. e = g.names[g.elipsis]
      BY <2>3
    <3>3. \A s \in Seq(Names) : \A i \in 1 .. Len(s) : s[i] \in Names
      OBVIOUS
    <3>4. g.names[g.elipsis] \in Names
      BY <3>1, <3>3
    <3> HIDE DEF e
    <3> QED BY <3>2, <3>4
  <2>4. \/ g.elipsis = 0 \/ g.elipsis = NoElipsis
        \/ g.elipsis # 0 /\ g.elipsis # NoElipsis
    OBVIOUS
  <2> HIDE DEF e
  <2> QED BY <2>1, <2>2, <2>3, <2>4
<1> DEFINE names == p.names \cup Members(g.names)
           elided == p.elided \/ g.elipsis # NoElipsis
<1>4. Named(p, g) = Renamed(p, names, e, elided)
  BY DEF Named, Renamed
<1>5. names \in SUBSET Names
  BY <1>1, <1>2, ProtoTyped
<1>6. elided \in BOOLEAN
  OBVIOUS
<1> HIDE DEF e, elided, names
<1>7. Same(Named(p, g), p.positional, p.flags, p.some, names, p.size)
  BY <1>1, <1>3, <1>4, <1>5, <1>6, NamesUpdate
<1> QED BY <1>7 DEF names, Same

LEMMA OneKind ==
  ASSUME NEW g \in Groups
  PROVE  /\ IsDashDash(g) => g.names # << >> /\ ~IsDashStar(g) /\ ~IsFlagGroup(g)
         /\ IsDashStar(g) => g.names # << >> /\ ~IsFlagGroup(g)
         /\ IsFlagGroup(g) => g.names # << >>
<1>1. Flags \cap Convenience = {} /\ {"--", "-*", "-?"} = Convenience
  BY BindingAssumption DEF Convenience
<1>2. g.elipsis # 0 => g.names # << >>
  BY GroupsTyped
<1> QED BY <1>1, <1>2 DEF IsDashDash, IsDashStar, IsFlagGroup

LEMMA DeclareOK ==
  ASSUME NEW p, ProtoOK(p), NEW g \in Groups, NamesFit(p, g), PlaceFits(p, g)
  PROVE  ProtoOK(WithGroup(Named(p, g), g))
<1> DEFINE q == Named(p, g)
           r == WithGroup(q, g)
<1>1. /\ q \in Prototypes
      /\ q.positional = p.positional /\ q.flags = p.flags /\ q.some = p.some
      /\ q.size = p.size /\ q.names = p.names \cup Members(g.names)
  BY NamedOK
<1>2. /\ \A i \in 1 .. Len(p.positional) : GroupOK(p.positional[i])
      /\ \A h \in p.flags : GroupOK(h)
      /\ p.names \subseteq {"--"} \cup (IF p.some THEN {"-*", "-?"} ELSE {})
                              \cup (IF p.flags # {} THEN {"-*"} ELSE {}) \cup GroupNames(p)
      /\ p.positional \in Seq(GroupType) /\ Len(p.positional) \in Nat
      /\ p.flags \subseteq GroupType
  BY ProtoTyped DEF ProtoOK
<1>3. PICK f : Rests(p.positional, f) /\ p.size = f[1]
  BY DEF ProtoOK
<1>4. q = Named(p, g)
  OBVIOUS
<1> HIDE DEF q
<1>5. ASSUME g.names # << >>
      PROVE  /\ g.names[1] \in Convenience => Members(g.names) = {g.names[1]}
             /\ GroupOK(g) /\ g \in GroupType
             /\ 1 \in DOMAIN g.names /\ Len(g.names) \in Nat
  <2>1. GroupOK(g) /\ g.names \in Seq(Names) /\ Len(g.names) \in Nat /\ g \in GroupType
    BY <1>5, GroupsTyped
  <2>2. 1 \in DOMAIN g.names
    BY <1>5, <2>1
  <2>3. g.names[1] \in Convenience => Len(g.names) = 1
    <3>1. g.names[1] \in Members(g.names)
      BY <2>2 DEF Members
    <3>2. Len(g.names) > 0
      BY <2>1 DEF GroupOK
    <3> DEFINE n == Len(g.names)
    <3>3. n > 1 => g.names[1] \notin Convenience
      BY <3>1 DEF NamesFit
    <3>4. n \in Nat /\ n > 0
      BY <2>1, <3>2
    <3> HIDE DEF n
    <3>5. n > 1 \/ n = 1
      BY <3>4
    <3> QED BY <3>3, <3>5 DEF n
  <2>4. Len(g.names) = 1 => Members(g.names) = {g.names[1]}
    BY <2>1 DEF Members
  <2> QED BY <2>1, <2>2, <2>3, <2>4
<1>0. /\ IsDashDash(g) => g.names # << >> /\ ~IsDashStar(g) /\ ~IsFlagGroup(g)
      /\ IsDashStar(g) => g.names # << >> /\ ~IsFlagGroup(g)
      /\ IsFlagGroup(g) => g.names # << >>
  BY OneKind
<1>6. CASE g.names = << >>
  <2> DEFINE last == Len(p.positional)
             old == p.positional[last]
             new == [old EXCEPT !.elipsis = Len(old.names)]
             s == [p.positional EXCEPT ![last] = new]
  <2>1. p.positional # << >>
    BY <1>6, GroupsTyped DEF PlaceFits
  <2>2. last \in 1 .. last
    BY <1>2, <2>1
  <2>3. GroupOK(old)
    BY <1>2, <2>2
  <2>4. Len(old.names) \in Nat /\ Len(old.names) > 0
    BY <2>3 DEF GroupOK, GroupType
  <2>5. new \in GroupType /\ new.names = old.names /\ new.elipsis = Len(old.names)
    BY <2>3, <2>4 DEF GroupOK, GroupType
  <2>6. GroupOK(new)
    BY <2>4, <2>5 DEF GroupOK, NoElipsis
  <2>7. r = [q EXCEPT !.positional = s]
    <3>1. r = [q EXCEPT !.positional[Len(q.positional)].elipsis =
                          Len(q.positional[Len(q.positional)].names)]
      BY <1>0, <1>6 DEF WithGroup
    <3> QED BY <1>1, <3>1
  <2> HIDE DEF new
  <2>8. /\ s \in Seq(GroupType) /\ Len(s) = last
        /\ \A i \in 1 .. last : s[i] = IF i = last THEN new ELSE p.positional[i]
    BY <1>2, <2>2, <2>5
  <2> HIDE DEF s, r
  <2>9. /\ r \in Prototypes /\ r.positional = s /\ r.flags = p.flags /\ r.some = p.some
        /\ r.names = p.names \cup Members(g.names) /\ r.size = p.size
    <3>1. r = Replaced(q, s)
      BY <2>7 DEF Replaced
    <3>2. Same(r, s, q.flags, q.some, q.names, q.size)
      BY <1>1, <2>8, <3>1, ReplacedUpdate
    <3> QED BY <1>1, <3>2 DEF Same
  <2>10. Members(g.names) = {}
    BY <1>6 DEF Members
  <2>11. \A i \in 1 .. last : s[i].names = p.positional[i].names /\ GroupOK(s[i])
    BY <1>2, <2>5, <2>6, <2>8
  <2>12. GroupNames(p) \subseteq GroupNames(r)
    <3> SUFFICES ASSUME NEW h \in p.flags \cup Members(p.positional)
                 PROVE  Members(h.names) \subseteq GroupNames(r)
      BY DEF GroupNames
    <3>1. CASE h \in p.flags
      BY <3>1, <2>9 DEF GroupNames
    <3>2. CASE h \in Members(p.positional)
      <4>1. PICK i \in 1 .. last : h = p.positional[i]
        BY <3>2, <1>2 DEF Members
      <4>2. s[i] \in Members(r.positional) /\ s[i].names = h.names
        BY <4>1, <2>8, <2>9, <2>11 DEF Members
      <4> QED BY <4>2 DEF GroupNames
    <3> QED BY <3>1, <3>2
  <2>13. Rests(s, f)
    BY <1>3, <2>8, <2>11 DEF Rests
  <2> QED BY <1>2, <1>3, <2>8, <2>9, <2>10, <2>11, <2>12, <2>13 DEF ProtoOK, r, q
<1>7. ASSUME r \in Prototypes, r.positional = p.positional, r.size = p.size,
             r.flags = p.flags, p.some => r.some,
             r.names \subseteq p.names \cup {"--"} \cup (IF r.some THEN {"-*", "-?"} ELSE {})
      PROVE  ProtoOK(r)
  <2> HIDE DEF r
  <2>1. GroupNames(r) = GroupNames(p)
    BY <1>7 DEF GroupNames
  <2> QED BY <1>2, <1>3, <1>7, <2>1 DEF ProtoOK
<1>8. CASE g.names # << >> /\ IsDashDash(g)
  <2>1. r = [q EXCEPT !.dash = Len(q.positional), !.bare = g.required]
    BY <1>0, <1>8 DEF WithGroup
  <2>2. Members(g.names) = {"--"} /\ g.required \in BOOLEAN
    BY <1>5, <1>8 DEF IsDashDash, Convenience, GroupType
  <2>3. /\ r \in Prototypes /\ r.positional = p.positional /\ r.size = p.size
        /\ r.flags = p.flags /\ r.some = p.some
        /\ r.names = p.names \cup Members(g.names)
    <3>1. Len(q.positional) \in Int
      BY <1>1, <1>2
    <3>2. r = Dashed(q, Len(q.positional), g.required)
      BY <2>1 DEF Dashed
    <3> HIDE DEF r
    <3>3. Same(r, q.positional, q.flags, q.some, q.names, q.size)
      BY <1>1, <2>2, <3>1, <3>2, DashUpdate
    <3> QED BY <1>1, <3>3 DEF Same
  <2> QED BY <1>7, <2>2, <2>3 DEF q
<1>9. CASE g.names # << >> /\ ~IsDashDash(g) /\ IsDashStar(g)
  <2>1. r = [q EXCEPT !.some = TRUE, !.names = @ \cup {"-*", "-?"}]
    BY <1>0, <1>9 DEF WithGroup
  <2>2. Members(g.names) \subseteq {"-*", "-?"}
    BY <1>5, <1>9 DEF IsDashStar, Convenience
  <2>3. {"-*", "-?"} \subseteq Names
    BY DEF Names, Convenience
  <2>4. /\ r \in Prototypes /\ r.positional = p.positional /\ r.size = p.size
        /\ r.flags = p.flags /\ r.some = TRUE
        /\ r.names = p.names \cup Members(g.names) \cup {"-*", "-?"}
    <3>1. q.names \cup {"-*", "-?"} \in SUBSET Names
      BY <1>1, <2>3, ProtoTyped
    <3> DEFINE names == q.names \cup {"-*", "-?"}
    <3>2. r = SomeMore(q, names)
      BY <2>1 DEF SomeMore
    <3> HIDE DEF names, r
    <3>3. Same(r, q.positional, q.flags, TRUE, names, q.size)
      BY <1>1, <3>1, <3>2, SomeUpdate DEF names
    <3> QED BY <1>1, <3>3 DEF Same, names
  <2> QED BY <1>7, <2>2, <2>4 DEF q
<1>10. CASE g.names # << >> /\ ~IsDashDash(g) /\ ~IsDashStar(g) /\ IsFlagGroup(g)
  <2>1. r = [q EXCEPT !.flags = @ \cup {g}, !.names = @ \cup {"-*"}]
    BY <1>0, <1>10 DEF WithGroup
  <2>2. "-*" \in Names
    BY DEF Names, Convenience
  <2>3. GroupOK(g) /\ g \in GroupType
    BY <1>5, <1>10
  <2>4. /\ r \in Prototypes /\ r.positional = p.positional /\ r.size = p.size
        /\ r.flags = p.flags \cup {g} /\ r.some = p.some
        /\ r.names = p.names \cup Members(g.names) \cup {"-*"}
    <3>1. /\ q.names \cup {"-*"} \in SUBSET Names
          /\ q.flags \cup {g} \in SUBSET GroupType
      BY <1>1, <2>2, <2>3, ProtoTyped
    <3> DEFINE names == q.names \cup {"-*"}
               flags == q.flags \cup {g}
    <3>2. r = Flagged(q, flags, names)
      BY <2>1 DEF Flagged
    <3>3. names \in SUBSET Names /\ flags \in SUBSET GroupType
      BY <3>1
    <3> HIDE DEF names, flags, r
    <3>4. Same(r, q.positional, flags, q.some, names, q.size)
      BY <1>1, <3>2, <3>3, FlagsUpdate
    <3> QED BY <1>1, <3>4 DEF Same, names, flags
  <2> HIDE DEF r
  <2>5. GroupNames(r) = GroupNames(p) \cup Members(g.names)
    BY <2>4 DEF GroupNames
  <2> QED BY <1>2, <1>3, <2>3, <2>4, <2>5 DEF ProtoOK, r, q
<1>11. CASE g.names # << >> /\ ~IsDashDash(g) /\ ~IsDashStar(g) /\ ~IsFlagGroup(g)
  <2>1. r = [q EXCEPT !.positional = Append(@, g),
                      !.required = @ + (IF g.required THEN 1 ELSE 0),
                      !.size = @ + Len(g.names)]
    BY <1>0, <1>11 DEF WithGroup
  <2>2. GroupOK(g) /\ g \in GroupType /\ Len(g.names) \in Nat
    BY <1>5, <1>11
  <2>3. Append(p.positional, g) \in Seq(GroupType)
    BY <1>2, <2>2
  <2>4. q.required \in Int /\ q.size \in Int
    BY <1>1, ProtoTyped
  <2>5. /\ r \in Prototypes /\ r.positional = Append(p.positional, g)
        /\ r.size = p.size + Len(g.names) /\ r.flags = p.flags /\ r.some = p.some
        /\ r.names = p.names \cup Members(g.names)
    <3>1. q.size + Len(g.names) \in Int
      BY <2>2, <2>4
    <3>2. q.required + (IF g.required THEN 1 ELSE 0) \in Int
      BY <2>4
    <3> DEFINE required == q.required + (IF g.required THEN 1 ELSE 0)
               size == q.size + Len(g.names)
               s == Append(q.positional, g)
    <3> HIDE DEF required, size, s
    <3>3. s \in Seq(GroupType) /\ required \in Int /\ size \in Int
      BY <1>1, <2>3, <3>1, <3>2 DEF required, size, s
    <3>4. r = Longer(q, s, required, size)
      BY <2>1 DEF Longer, required, size, s
    <3> HIDE DEF r
    <3>5. Same(r, s, q.flags, q.some, q.names, size)
      BY <1>1, <3>3, <3>4, LongerUpdate
    <3> QED BY <1>1, <3>5 DEF Same, size, s
  <2> HIDE DEF r
  <2>6. Members(r.positional) = Members(p.positional) \cup {g}
    BY <1>2, <2>2, <2>5, MembersAppend
  <2>7. GroupNames(r) = GroupNames(p) \cup Members(g.names)
    BY <2>5, <2>6 DEF GroupNames
  <2>8. \A i \in 1 .. Len(r.positional) : GroupOK(r.positional[i])
    <3> TAKE i \in 1 .. Len(r.positional)
    <3>1. \/ i \in 1 .. Len(p.positional) /\ r.positional[i] = p.positional[i]
          \/ r.positional[i] = g
      BY <1>2, <2>2, <2>5
    <3> QED BY <1>2, <2>2, <3>1
  <2>9. \E h : Rests(r.positional, h) /\ h[1] = f[1] + Len(g.names)
    BY <1>2, <1>3, <2>2, <2>5, RestsAppend
  <2> QED BY <1>2, <1>3, <2>5, <2>7, <2>8, <2>9 DEF ProtoOK, r, q
<1> QED BY <1>6, <1>8, <1>9, <1>10, <1>11 DEF q

-----------------------------------------------------------------------------
\* The invariant.

\* While there are words left, available is how many; pos_c is the number of names
\* in the groups to come, and in those that have been skipped.
Walk ==
  /\ words \in Seq(Words) /\ argc \in Nat
  /\ at \in 1 .. argc + 1 /\ available \in Int
  /\ at + available <= argc + 1
  /\ at <= argc => at + available = argc + 1
  /\ param \in 1 .. Len(Positional) + 1
  /\ pos_c \in Int
  /\ \E f : Rests(Positional, f) /\ pos_c >= f[param]

\* The names in S include those of the flags, of the first n groups and of the
\* variables that the prototype has.
Covered(p, n, S) ==
  /\ \A i \in 1 .. n : Members(p.positional[i].names) \subseteq S
  /\ \A g \in p.flags : Members(g.names) \subseteq S
  /\ p.some => {"-*", "-?"} \subseteq S
  /\ p.flags # {} => "-*" \in S
  /\ p.dash = 0 /\ ~p.bare => "--" \in S

Known == defined \cup undefined

BindingInvariant ==
  /\ ProtoOK(proto)
  /\ phase = "binding" => Walk /\ Covered(proto, param - 1, Known)
  /\ phase = "bound" => Covered(proto, Len(Positional), Known)

LEMMA CoveredMore ==
  ASSUME NEW p, NEW n, NEW S, NEW T, S \subseteq T, Covered(p, n, S)
  PROVE  Covered(p, n, T)
BY DEF Covered

LEMMA CoveredNext ==
  ASSUME NEW p, NEW n \in Nat \ {0}, NEW S, NEW T, S \subseteq T,
         Covered(p, n - 1, S), Members(p.positional[n].names) \subseteq T
  PROVE  Covered(p, n, T)
<1>1. Covered(p, n - 1, T)
  BY CoveredMore
<1>2. ASSUME NEW i \in 1 .. n PROVE Members(p.positional[i].names) \subseteq T
  <2>1. i \in 1 .. n - 1 \/ i = n
    OBVIOUS
  <2> QED BY <1>1, <2>1 DEF Covered
<1> QED BY <1>1, <1>2 DEF Covered

\* The group whose turn it is.
LEMMA ThisGroup ==
  ASSUME ProtoOK(proto), Walk, param <= Len(Positional)
  PROVE  /\ GroupOK(Positional[param]) /\ Len(Positional[param].names) \in Nat
         /\ pos_c \in Nat /\ pos_c - Len(Positional[param].names) \in Nat
         /\ param + 1 \in 1 .. Len(Positional) + 1 /\ Len(Positional) \in Nat
         /\ \E f : /\ Rests(Positional, f)
                 /\ pos_c - Len(Positional[param].names) >= f[param + 1]
<1>1. Len(Positional) \in Nat
  BY ProtoTyped DEF ProtoOK, Positional
<1>2. param \in 1 .. Len(Positional) /\ param + 1 \in 1 .. Len(Positional) + 1
  BY <1>1 DEF Walk
<1>3. GroupOK(Positional[param])
  BY <1>2 DEF ProtoOK, Positional
<1>4. Positional[param].names \in Seq(Names)
  BY <1>3 DEF GroupOK, GroupType
<1>5. Len(Positional[param].names) \in Nat
  BY <1>4
<1>6. PICK f : Rests(Positional, f) /\ pos_c >= f[param]
  BY DEF Walk
<1>7. /\ f[param] \in Nat /\ f[param + 1] \in Nat
      /\ f[param] = f[param + 1] + Len(Positional[param].names)
  BY <1>1, <1>2, <1>6 DEF Rests
<1>8. pos_c \in Int
  BY DEF Walk
<1> DEFINE k == Len(Positional[param].names)
<1>9. k \in Nat /\ f[param] = f[param + 1] + k
  BY <1>5, <1>7
<1> HIDE DEF k
<1>10. pos_c - k >= f[param + 1] /\ pos_c - k \in Nat /\ pos_c \in Nat
  BY <1>6, <1>7, <1>8, <1>9
<1> QED BY <1>1, <1>2, <1>3, <1>6, <1>9, <1>10 DEF k

LEMMA ToCome ==
  ASSUME ProtoOK(proto), Walk
  PROVE  pos_c \in Nat
<1>1. Len(Positional) \in Nat
  BY ProtoTyped DEF ProtoOK, Positional
<1>2. PICK f : Rests(Positional, f) /\ pos_c >= f[param]
  BY DEF Walk
<1>3. f[param] \in Nat /\ pos_c \in Int
  BY <1>1, <1>2 DEF Walk, Rests
<1> QED BY <1>2, <1>3

\* What "..." takes beyond its name leaves as many words as there are names to come.
LEMMA ExtraOK ==
  ASSUME Walk, at <= argc, NEW g, GroupOK(g), NEW names \in Nat
  PROVE  /\ Extra(g, names) \in Nat
         /\ Extra(g, names) > 0 => at + Len(g.names) + Extra(g, names) <= argc + 1
<1>1. Len(g.names) \in Nat
  <2>1. g.names \in Seq(Names)
    BY DEF GroupOK, GroupType
  <2> QED BY <2>1
<1> DEFINE k == Len(g.names)
           left == available - k
<1>2. /\ available \in Int /\ at \in Int /\ argc \in Nat
      /\ at + available = argc + 1
  BY DEF Walk
<1>3. Extra(g, names) = IF g.elipsis = NoElipsis \/ left <= names THEN 0 ELSE left - names
  BY DEF Extra
<1>4. k \in Nat
  BY <1>1
<1> HIDE DEF k
<1>5. Extra(g, names) = 0 \/ (left > names /\ Extra(g, names) = left - names)
  BY <1>2, <1>3, <1>4
<1>6. \/ left - names > 0 /\ left - names \in Nat /\ at + k + (left - names) <= argc + 1
      \/ ~(left > names)
  BY <1>2, <1>4
<1>7. /\ Extra(g, names) \in Nat
      /\ Extra(g, names) > 0 => at + k + Extra(g, names) <= argc + 1
  BY <1>5, <1>6
<1> QED BY <1>7 DEF k

LEMMA AdvanceOK ==
  ASSUME Walk, at <= argc, NEW g, GroupOK(g), NEW extra \in Nat, Advance(g, extra)
  PROVE  /\ words' = words
         /\ at' \in 1 .. argc + 1 /\ available' \in Int
         /\ at' + available' <= argc + 1
         /\ at' <= argc => at' + available' = argc + 1
         /\ Known \cup Members(g.names) \subseteq
              defined' \cup undefined \cup Unreached(g, extra)
         /\ defined \cup NamesAt(g, Reached(g, extra)) = defined'
<1>1. Len(g.names) \in Nat /\ DOMAIN g.names = 1 .. Len(g.names)
  <2>1. g.names \in Seq(Names)
    BY DEF GroupOK, GroupType
  <2> QED BY <2>1
<1> DEFINE k == Len(g.names)
           next == at + k + extra
<1>2. /\ words' = words /\ at' = IF next > argc THEN argc + 1 ELSE next
      /\ available' = available - k - extra
      /\ defined' = defined \cup NamesAt(g, Reached(g, extra))
  BY DEF Advance
<1>3. /\ available \in Int /\ at \in 1 .. argc + 1 /\ argc \in Nat
      /\ at + available = argc + 1
  BY DEF Walk
<1>4. k \in Nat
  BY <1>1
<1>5. /\ at' \in 1 .. argc + 1 /\ available' \in Int
      /\ at' + available' <= argc + 1
      /\ at' <= argc => at' + available' = argc + 1
  <2> HIDE DEF k
  <2>1. CASE next > argc
    <3>1. at' = argc + 1 /\ available' = argc + 1 - next
      BY <2>1, <1>2, <1>3, <1>4
    <3> QED BY <3>1, <2>1, <1>3, <1>4
  <2>2. CASE next <= argc
    <3>1. at' = next /\ available' = argc + 1 - next
      BY <2>2, <1>2, <1>3, <1>4
    <3> QED BY <3>1, <2>2, <1>3, <1>4
  <2> QED BY <2>1, <2>2, <1>3, <1>4
<1>6. Members(g.names) \subseteq NamesAt(g, Reached(g, extra)) \cup Unreached(g, extra)
  BY DEF Members, NamesAt, Unreached
<1> QED BY <1>2, <1>5, <1>6 DEF Known

-----------------------------------------------------------------------------
\* Every action.

\* A word has been taken, from here to the next, with none of the groups.
LEMMA OneWordOK ==
  ASSUME Walk, at <= argc, at' = at + 1, available' = available - 1,
         UNCHANGED <<proto, words, pos_c, param>>
  PROVE  Walk'
<1>1. /\ words' = words /\ proto' = proto /\ pos_c' = pos_c /\ param' = param
      /\ argc' = argc /\ Positional' = Positional
  BY DEF argc, Positional
<1>2. /\ at' \in 1 .. argc + 1 /\ available' \in Int
      /\ at' + available' <= argc + 1
      /\ at' <= argc => at' + available' = argc + 1
  BY DEF Walk
<1>3. /\ words \in Seq(Words) /\ argc \in Nat /\ param \in 1 .. Len(Positional) + 1
      /\ pos_c \in Int /\ \E f : Rests(Positional, f) /\ pos_c >= f[param]
  BY DEF Walk
<1>4. \E f : Rests(Positional', f) /\ pos_c' >= f[param']
  BY <1>1, <1>3
<1> QED BY <1>1, <1>2, <1>3, <1>4 DEF Walk

\* Any step that keeps the walk and forgets no name.
LEMMA KeepsOK ==
  ASSUME BindingInvariant, phase = "binding", Walk',
         proto' = proto, param' = param, phase' \in {"binding", "aborted"},
         Known \subseteq Known'
  PROVE  BindingInvariant'
<1>1. Covered(proto, param - 1, Known')
  BY CoveredMore DEF BindingInvariant
<1> QED BY <1>1 DEF BindingInvariant

LEMMA DeclareGroupOK ==
  ASSUME BindingInvariant, NEW g \in Groups, DeclareGroup(g)
  PROVE  BindingInvariant'
<1>1. phase' \in {"declaring", "refused"}
  BY DEF DeclareGroup
<1>2. ProtoOK(proto')
  BY DeclareOK DEF DeclareGroup, BindingInvariant
<1> QED BY <1>1, <1>2 DEF BindingInvariant

LEMMA CallOK ==
  ASSUME BindingInvariant, NEW n \in Nat, NEW w \in [1 .. n -> Words], Call(w)
  PROVE  BindingInvariant'
<1>1. w \in Seq(Words) /\ Len(w) = n
  OBVIOUS
<1>2. ProtoOK(proto) /\ proto' = proto
  BY DEF BindingInvariant, Call
<1>3. Walk'
  <2>1. PICK f : Rests(Positional, f) /\ proto.size = f[1]
    BY <1>2 DEF ProtoOK, Positional
  <2>2. /\ words' = w /\ argc' = n /\ at' = 1 /\ available' = n /\ param' = 1
        /\ pos_c' = proto.size /\ Positional' = Positional
    BY <1>1, <1>2 DEF Call, argc, Positional
  <2>3. Len(Positional) \in Nat
    BY <1>2, ProtoTyped DEF ProtoOK, Positional
  <2>4. pos_c' \in Int /\ \E h : Rests(Positional', h) /\ pos_c' >= h[param']
    <3>1. proto.size \in Int
      BY <1>2, ProtoTyped DEF ProtoOK
    <3> QED BY <2>1, <2>2, <3>1
  <2>5. param' \in 1 .. Len(Positional') + 1
    BY <2>2, <2>3
  <2> QED BY <1>1, <2>2, <2>4, <2>5 DEF Walk
<1>4. Covered(proto', param' - 1, Known')
  <2>1. /\ param' = 1
        /\ defined' = (IF proto.some THEN {"-?"} ELSE {}) \cup (IF HasStar THEN {"-*"} ELSE {})
        /\ undefined' = (UNION {Members(g.names) : g \in proto.flags})
                           \cup IF dash_dash' = "bracket" THEN {"--"} ELSE {}
        /\ dash_dash' = IF proto.dash # 0 THEN "unseen"
                        ELSE IF proto.bare THEN "bare" ELSE "bracket"
    BY DEF Call
  <2>2. \A g \in proto.flags : Members(g.names) \subseteq Known'
    BY <2>1 DEF Known
  <2>3. proto.some => {"-*", "-?"} \subseteq Known'
    BY <2>1 DEF Known, HasStar
  <2>4. proto.flags # {} => "-*" \in Known'
    BY <2>1 DEF Known, HasStar
  <2>5. proto.dash = 0 /\ ~proto.bare => "--" \in Known'
    BY <2>1 DEF Known
  <2> HIDE DEF Known
  <2>6. \A i \in 1 .. param' - 1 : Members(proto.positional[i].names) \subseteq Known'
    BY <2>1
  <2> QED BY <1>2, <2>2, <2>3, <2>4, <2>5, <2>6 DEF Covered
<1>5. phase' = "binding"
  BY DEF Call
<1> QED BY <1>2, <1>3, <1>4, <1>5 DEF BindingInvariant

LEMMA TakeGroupOK ==
  ASSUME BindingInvariant, TakeGroup
  PROVE  BindingInvariant'
<1> DEFINE g == Positional[param]
           reserved == pos_c - Len(g.names)
           extra == Extra(g, reserved)
<1>1. /\ ProtoOK(proto) /\ Walk /\ at <= argc /\ param <= Len(Positional)
      /\ phase = "binding" /\ Covered(proto, param - 1, Known)
  BY DEF TakeGroup, AtGroup, BindingInvariant
<1>2. /\ GroupOK(g) /\ reserved \in Nat
      /\ param + 1 \in 1 .. Len(Positional) + 1
      /\ \E f : Rests(Positional, f) /\ reserved >= f[param + 1]
  BY <1>1, ThisGroup
<1>3. extra \in Nat
  BY <1>1, <1>2, ExtraOK
<1>4. /\ Advance(g, extra) /\ pos_c' = reserved /\ param' = param + 1
      /\ undefined' = undefined \cup Unreached(g, extra)
      /\ proto' = proto /\ phase' = phase
  BY DEF TakeGroup, NextGroup
<1> HIDE DEF g, extra, reserved
<1>5. /\ words' = words
      /\ at' \in 1 .. argc + 1 /\ available' \in Int
      /\ at' + available' <= argc + 1
      /\ at' <= argc => at' + available' = argc + 1
      /\ Known \cup Members(g.names) \subseteq
           defined' \cup undefined \cup Unreached(g, extra)
  BY <1>1, <1>2, <1>3, <1>4, AdvanceOK
<1>6. Known \cup Members(g.names) \subseteq Known'
  BY <1>4, <1>5 DEF Known
<1>7. argc' = argc /\ Positional' = Positional
  BY <1>4, <1>5 DEF argc, Positional
<1>8. Walk'
  <2>1. words \in Seq(Words) /\ argc \in Nat
    BY <1>1 DEF Walk
  <2>2. pos_c' \in Int /\ \E f : Rests(Positional', f) /\ pos_c' >= f[param']
    BY <1>2, <1>4, <1>7
  <2>3. param' \in 1 .. Len(Positional') + 1
    BY <1>2, <1>4, <1>7
  <2> QED BY <1>5, <1>7, <2>1, <2>2, <2>3 DEF Walk
<1>9. Covered(proto', param' - 1, Known')
  <2>1. param \in Nat \ {0} /\ param' - 1 = param
    BY <1>1, <1>4 DEF Walk
  <2>2. Covered(proto, param, Known')
    BY <1>1, <1>6, <2>1, CoveredNext DEF g, Positional
  <2> QED BY <1>4, <2>1, <2>2
<1> QED BY <1>1, <1>4, <1>8, <1>9 DEF BindingInvariant

LEMMA SkipGroupOK ==
  ASSUME BindingInvariant, SkipGroup
  PROVE  BindingInvariant'
<1>1. /\ ProtoOK(proto) /\ Walk /\ at <= argc /\ param <= Len(Positional)
      /\ phase = "binding" /\ Covered(proto, param - 1, Known)
  BY DEF SkipGroup, AtGroup, BindingInvariant
<1>2. /\ param' = param + 1 /\ defined' = defined
      /\ undefined' = undefined \cup Members(Positional[param].names)
      /\ proto' = proto /\ phase' = phase /\ words' = words /\ at' = at
      /\ available' = available /\ pos_c' = pos_c
  BY DEF SkipGroup, NextGroup
<1>3. /\ Len(Positional[param].names) \in Nat /\ pos_c \in Nat
      /\ param + 1 \in 1 .. Len(Positional) + 1 /\ Len(Positional) \in Nat
  BY <1>1, ThisGroup
<1>4. PICK f : /\ Rests(Positional, f)
               /\ pos_c - Len(Positional[param].names) >= f[param + 1]
  BY <1>1, ThisGroup
<1>5. f[param + 1] \in Nat
  BY <1>3, <1>4 DEF Rests
<1>6. pos_c >= f[param + 1]
  BY <1>3, <1>4, <1>5
<1>7. argc' = argc /\ Positional' = Positional
  BY <1>2 DEF argc, Positional
<1>8. Walk'
  <2>1. param' \in 1 .. Len(Positional') + 1
    BY <1>2, <1>3, <1>7
  <2>2. pos_c' \in Int /\ \E h : Rests(Positional', h) /\ pos_c' >= h[param']
    BY <1>2, <1>3, <1>4, <1>6, <1>7
  <2> QED BY <1>1, <1>2, <1>7, <2>1, <2>2 DEF Walk
<1>9. Covered(proto', param' - 1, Known')
  <2>1. param \in Nat \ {0} /\ param' - 1 = param
    BY <1>1, <1>2 DEF Walk
  <2>2. Known \subseteq Known' /\ Members(proto.positional[param].names) \subseteq Known'
    BY <1>2 DEF Known, Positional
  <2>3. Covered(proto, param, Known')
    BY <1>1, <2>1, <2>2, CoveredNext
  <2> QED BY <1>2, <2>1, <2>3
<1> QED BY <1>1, <1>2, <1>8, <1>9 DEF BindingInvariant

LEMMA OneFlagOK ==
  ASSUME BindingInvariant, TardyFlag \/ UnrecognizedFlag \/ DashDash
  PROVE  BindingInvariant'
<1>1. /\ phase = "binding" /\ at <= argc
      /\ at' = at + 1 /\ available' = available - 1
      /\ UNCHANGED <<proto, words, pos_c, param>>
      /\ phase' \in {phase, "aborted"}
      /\ undefined' = undefined /\ defined \subseteq defined'
  BY DEF TardyFlag, UnrecognizedFlag, DashDash, PassOn, AtFlag
<1>2. Walk
  BY <1>1 DEF BindingInvariant
<1>3. Walk'
  BY <1>1, <1>2, OneWordOK
<1>4. Known \subseteq Known'
  BY <1>1 DEF Known
<1> QED BY <1>1, <1>3, <1>4, KeepsOK

LEMMA TakeFlagOK ==
  ASSUME BindingInvariant, NEW g \in proto.flags, TakeFlag(g)
  PROVE  BindingInvariant'
<1> DEFINE extra == Extra(g, pos_c)
           reached == Reached(g, extra)
<1>1. /\ ProtoOK(proto) /\ Walk /\ at <= argc /\ phase = "binding"
      /\ GroupOK(g) /\ pos_c \in Nat
  <2>1. ProtoOK(proto) /\ Walk /\ at <= argc /\ phase = "binding"
    BY DEF TakeFlag, AtFlag, BindingInvariant
  <2> QED BY <2>1, ToCome DEF ProtoOK
<1>2. extra \in Nat
  BY <1>1, ExtraOK
<1>3. /\ Advance(g, extra)
      /\ phase' \in {"binding", "aborted"}
      /\ undefined' = (undefined \ NamesAt(g, reached \ {g.elipsis}))
                        \cup Unreached(g, extra)
      /\ proto' = proto /\ pos_c' = pos_c /\ param' = param
  BY <1>1 DEF TakeFlag
<1>4. NamesAt(g, reached \ {g.elipsis}) \subseteq NamesAt(g, Reached(g, extra))
  BY DEF NamesAt
<1> HIDE DEF extra, reached
<1>5. /\ words' = words
      /\ at' \in 1 .. argc + 1 /\ available' \in Int
      /\ at' + available' <= argc + 1
      /\ at' <= argc => at' + available' = argc + 1
      /\ Known \cup Members(g.names) \subseteq
           defined' \cup undefined \cup Unreached(g, extra)
      /\ defined \cup NamesAt(g, Reached(g, extra)) = defined'
  BY <1>1, <1>2, <1>3, AdvanceOK
<1>6. Known \subseteq Known'
  BY <1>3, <1>4, <1>5 DEF Known
<1>7. argc' = argc /\ Positional' = Positional
  BY <1>3, <1>5 DEF argc, Positional
<1>8. Walk'
  <2>1. /\ words \in Seq(Words) /\ argc \in Nat /\ param \in 1 .. Len(Positional) + 1
        /\ pos_c \in Int /\ \E f : Rests(Positional, f) /\ pos_c >= f[param]
    BY <1>1 DEF Walk
  <2>2. \E f : Rests(Positional', f) /\ pos_c' >= f[param']
    BY <2>1, <1>3, <1>7
  <2> QED BY <1>3, <1>5, <1>7, <2>1, <2>2 DEF Walk
<1> QED BY <1>1, <1>3, <1>6, <1>8, KeepsOK

LEMMA FinishOK ==
  ASSUME BindingInvariant, Finish
  PROVE  BindingInvariant'
<1> DEFINE rest == {Positional[i] : i \in param .. Len(Positional)}
<1>1. /\ ProtoOK(proto) /\ Walk /\ phase = "binding"
      /\ Covered(proto, param - 1, Known)
  BY DEF Finish, BindingInvariant
<1>2. /\ phase' = "bound" /\ proto' = proto /\ defined' = defined
      /\ undefined \cup (UNION {Members(g.names) : g \in rest}) \subseteq undefined'
  BY DEF Finish
<1>3. Known \subseteq Known'
  BY <1>2 DEF Known
<1>4. Covered(proto, param - 1, Known')
  BY <1>1, <1>3, CoveredMore
<1>5. ASSUME NEW i \in 1 .. Len(Positional)
      PROVE  Members(Positional[i].names) \subseteq Known'
  <2>0. Len(Positional) \in Nat
    BY <1>1, ProtoTyped DEF ProtoOK, Positional
  <2>1. Len(Positional) \in Nat /\ param \in Nat
    BY <2>0, <1>1 DEF Walk
  <2>2. i \in 1 .. param - 1 \/ i \in param .. Len(Positional)
    BY <2>1
  <2>3. CASE i \in 1 .. param - 1
    BY <2>3, <1>4 DEF Covered, Positional
  <2>4. CASE i \in param .. Len(Positional)
    <3>1. Positional[i] \in rest
      BY <2>4
    <3>2. Members(Positional[i].names) \subseteq UNION {Members(g.names) : g \in rest}
      BY <3>1
    <3> QED BY <3>2, <1>2 DEF Known
  <2> QED BY <2>2, <2>3, <2>4
<1>6. Covered(proto, Len(Positional), Known')
  BY <1>4, <1>5 DEF Covered, Positional
<1>7. Positional' = Positional
  BY <1>2 DEF Positional
<1> QED BY <1>1, <1>2, <1>6, <1>7 DEF BindingInvariant

-----------------------------------------------------------------------------
LEMMA BindingInit ==
  Init => BindingInvariant
<1> SUFFICES ASSUME Init PROVE BindingInvariant
  OBVIOUS
<1>1. proto = NoParameters /\ phase = "declaring"
  BY DEF Init
<1> DEFINE p == NoParameters
<1>2. /\ p.positional = << >> /\ p.flags = {} /\ p.some = FALSE /\ p.dash = -1
      /\ p.bare = FALSE /\ p.names = {"--"} /\ p.size = 0
  BY DEF NoParameters
<1>3. << >> \in Seq(GroupType) /\ Len(<< >>) = 0
  OBVIOUS
<1>4. p \in Prototypes
  BY <1>3 DEF NoParameters, Prototypes, Names, Convenience
<1> DEFINE f == [i \in 1 .. 1 |-> 0]
<1>5. Rests(<< >>, f) /\ f[1] = 0
  BY <1>3 DEF Rests
<1> HIDE DEF p, f
<1>6. \E h : Rests(p.positional, h) /\ p.size = h[1]
  BY <1>2, <1>5
<1>7. /\ \A i \in 1 .. Len(p.positional) : GroupOK(p.positional[i])
      /\ \A g \in p.flags : GroupOK(g)
  BY <1>2, <1>3
<1>8. ProtoOK(p)
  BY <1>2, <1>4, <1>6, <1>7 DEF ProtoOK
<1> QED BY <1>1, <1>8 DEF BindingInvariant, p

LEMMA BindingNext ==
  BindingInvariant /\ [Next]_vars => BindingInvariant'
<1> SUFFICES ASSUME BindingInvariant, [Next]_vars
             PROVE  BindingInvariant'
  OBVIOUS
<1>1. ASSUME NEW g \in Groups, DeclareGroup(g) PROVE BindingInvariant'
  BY <1>1, DeclareGroupOK
<1>2. ASSUME NEW n \in 0 .. MaxWords, NEW w \in [1 .. n -> Words], Call(w)
      PROVE  BindingInvariant'
  <2>1. n \in Nat
    BY BindingAssumption
  <2> QED BY <2>1, <1>2, CallOK
<1>3. CASE TakeGroup
  BY <1>3, TakeGroupOK
<1>4. CASE SkipGroup
  BY <1>4, SkipGroupOK
<1>5. CASE TardyFlag \/ UnrecognizedFlag \/ DashDash
  BY <1>5, OneFlagOK
<1>6. ASSUME NEW g \in proto.flags, TakeFlag(g) PROVE BindingInvariant'
  BY <1>6, TakeFlagOK
<1>7. CASE Finish
  BY <1>7, FinishOK
<1>8. CASE UNCHANGED vars
  <2>1. UNCHANGED <<proto, phase, words, at, available, pos_c, param, defined, undefined>>
    BY <1>8 DEF vars, callVars, localVars
  <2>2. /\ Known' = Known /\ Positional' = Positional /\ argc' = argc
    BY <2>1 DEF Known, Positional, argc
  <2>3. Walk => Walk'
    BY <2>1, <2>2 DEF Walk
  <2> QED BY <2>1, <2>2, <2>3 DEF BindingInvariant
<1> QED BY <1>1, <1>2, <1>3, <1>4, <1>5, <1>6, <1>7, <1>8 DEF Next

LEMMA BindingInvariantHolds ==
  Spec => []BindingInvariant
<1>1. Init => BindingInvariant
  BY BindingInit
<1>2. BindingInvariant /\ [Next]_vars => BindingInvariant'
  BY BindingNext
<1> QED BY <1>1, <1>2, PTL DEF Spec

\* What "..." takes, for a positional group and for a flag, lies within the words of
\* the call: the two counters that Parameter_group::arg_to_param goes by cannot lead
\* its iterator past the end.
THEOREM InBoundsHolds ==
  Spec => []InBounds
<1>1. BindingInvariant => InBounds
  <2> SUFFICES ASSUME BindingInvariant PROVE InBounds
    OBVIOUS
  <2>1. ASSUME AtGroup
        PROVE  LET g == Positional[param]
                   extra == Extra(g, pos_c - Len(g.names))
               IN  extra > 0 => at + Len(g.names) + extra <= argc + 1
    <3>1. ProtoOK(proto) /\ Walk /\ at <= argc /\ param <= Len(Positional)
      BY <2>1 DEF AtGroup, BindingInvariant
    <3>2. GroupOK(Positional[param]) /\ pos_c - Len(Positional[param].names) \in Nat
      BY <3>1, ThisGroup
    <3> QED BY <3>1, <3>2, ExtraOK
  <2>2. ASSUME AtFlag, NEW g \in proto.flags
        PROVE  LET extra == Extra(g, pos_c)
               IN  extra > 0 => at + Len(g.names) + extra <= argc + 1
    <3>1. ProtoOK(proto) /\ Walk /\ at <= argc
      BY <2>2 DEF AtFlag, BindingInvariant
    <3>2. GroupOK(g) /\ pos_c \in Nat
      BY <3>1, ToCome DEF ProtoOK
    <3> QED BY <3>1, <3>2, ExtraOK
  <2> QED BY <2>1, <2>2 DEF InBounds
<1> QED BY <1>1, BindingInvariantHolds, PTL

\* When a call has been bound, each name of the prototype has a value or is known to
\* have none, so that no variable of the caller is found under it.
THEOREM NothingOfTheCallerHolds ==
  Spec => []NothingOfTheCaller
<1>1. BindingInvariant => NothingOfTheCaller
  <2> SUFFICES ASSUME BindingInvariant, phase = "bound",
                      NEW n \in proto.names,
                      n # "--" \/ (proto.dash = 0 /\ ~proto.bare)
               PROVE  n \in Known
    BY DEF NothingOfTheCaller, Known
  <2>1. ProtoOK(proto) /\ Covered(proto, Len(Positional), Known)
    BY DEF BindingInvariant
  <2>2. CASE n = "--"
    BY <2>1, <2>2 DEF Covered
  <2>3. CASE proto.some /\ n \in {"-*", "-?"}
    BY <2>1, <2>3 DEF Covered
  <2>4. CASE proto.flags # {} /\ n = "-*"
    BY <2>1, <2>4 DEF Covered
  <2>5. CASE n \in GroupNames(proto)
    <3>1. PICK g \in proto.flags \cup Members(proto.positional) : n \in Members(g.names)
      BY <2>5 DEF GroupNames
    <3>2. CASE g \in proto.flags
      BY <2>1, <3>1, <3>2 DEF Covered
    <3>3. CASE g \in Members(proto.positional)
      <4>1. proto.positional \in Seq(GroupType)
        BY <2>1, ProtoTyped DEF ProtoOK
      <4>2. PICK i \in 1 .. Len(proto.positional) : g = proto.positional[i]
        BY <3>3, <4>1 DEF Members
      <4> QED BY <2>1, <3>1, <4>2 DEF Covered, Positional
    <3> QED BY <3>1, <3>2, <3>3
  <2>6. n \in {"--"} \cup (IF proto.some THEN {"-*", "-?"} ELSE {})
                     \cup (IF proto.flags # {} THEN {"-*"} ELSE {}) \cup GroupNames(proto)
    BY <2>1 DEF ProtoOK
  <2> QED BY <2>2, <2>3, <2>4, <2>5, <2>6
<1> QED BY <1>1, BindingInvariantHolds, PTL

-----------------------------------------------------------------------------
\* What more there is to a prototype: no two groups have a name in common but for
\* convenience variables, and proto.elipsis is the name in front of the only "...".

Apart(g, h) == Members(g.names) \cap Members(h.names) \subseteq Convenience

GroupShape(g) ==
  /\ g.required => Len(g.names) <= 1
  /\ Len(g.names) > 1 => Members(g.names) \cap Convenience = {}

ElipsisNamed(s, name) ==
  \A i \in 1 .. Len(s) : s[i].elipsis > 0 => s[i].names[s[i].elipsis] = name

NamesApart(s, flags) ==
  /\ \A i, j \in 1 .. Len(s) : i # j => Apart(s[i], s[j])
  /\ \A i \in 1 .. Len(s) : \A g \in flags : Apart(s[i], g)
  /\ \A g, h \in flags : g # h => Apart(g, h)

Shapes(s, flags) ==
  /\ \A i \in 1 .. Len(s) : GroupShape(s[i])
  /\ \A g \in flags : GroupShape(g) /\ g.elipsis # 0 /\ ~g.required

ProtoShape(p) ==
  /\ GroupNames(p) \subseteq p.names
  /\ NamesApart(p.positional, p.flags)
  /\ Shapes(p.positional, p.flags)
  /\ ElipsisNamed(p.positional, p.elipsis)
  /\ p.elided \in BOOLEAN
  /\ ~p.elided => \A i \in 1 .. Len(p.positional) : p.positional[i].elipsis = NoElipsis

\* Whatever has been put together from several words is a list of words.
LocalsOK ==
  /\ locals \in [Names -> Seq(Int)] /\ defined \subseteq Names
  /\ phase = "declaring" => \A n \in Names : locals[n] = << >>
  /\ phase # "aborted" =>
       /\ \A n \in Names : Len(locals[n]) > 1 => n \in listed
       /\ locals["--"] # << >> => "--" \in defined \cup listed

\* Every name of a group that has been taken is defined or reported; none is defined
\* of a group that has not.
Settled(g, D, M) == Members(g.names) \subseteq D \cup M
Untouched(g, D) == Members(g.names) \cap D \subseteq Convenience

GroupsSettled(p, n, D, M) ==
  /\ \A i \in 1 .. Len(p.positional) :
       Settled(p.positional[i], D, M) \/ Untouched(p.positional[i], D)
  /\ \A i \in 1 .. n : p.positional[i].required => Settled(p.positional[i], D, M)
  /\ \A g \in p.flags : Settled(g, D, M) \/ Untouched(g, D)

GroupInvariant ==
  /\ ProtoShape(proto)
  /\ LocalsOK
  /\ phase = "binding" => GroupsSettled(proto, param - 1, defined, missing)
  /\ phase = "bound" => /\ GroupsSettled(proto, Len(Positional), defined, missing)
                        /\ errors = {} => missing \subseteq {""}

-----------------------------------------------------------------------------
\* Declaring.

Fields(r, positional, flags, names, elipsis, elided) ==
  /\ r.positional = positional /\ r.flags = flags /\ r.names = names
  /\ r.elipsis = elipsis /\ r.elided = elided

LEMMA RenamedFields ==
  ASSUME NEW p \in Prototypes, NEW names, NEW e, NEW elided
  PROVE  Fields(Renamed(p, names, e, elided), p.positional, p.flags, names, e, elided)
BY DEF Prototypes, Renamed, Fields

LEMMA DashedFields ==
  ASSUME NEW p \in Prototypes, NEW dash, NEW bare
  PROVE  Fields(Dashed(p, dash, bare), p.positional, p.flags, p.names, p.elipsis, p.elided)
BY DEF Prototypes, Dashed, Fields

LEMMA SomeFields ==
  ASSUME NEW p \in Prototypes, NEW names
  PROVE  Fields(SomeMore(p, names), p.positional, p.flags, names, p.elipsis, p.elided)
BY DEF Prototypes, SomeMore, Fields

LEMMA FlaggedFields ==
  ASSUME NEW p \in Prototypes, NEW flags, NEW names
  PROVE  Fields(Flagged(p, flags, names), p.positional, flags, names, p.elipsis, p.elided)
BY DEF Prototypes, Flagged, Fields

LEMMA LongerFields ==
  ASSUME NEW p \in Prototypes, NEW s, NEW n, NEW m
  PROVE  Fields(Longer(p, s, n, m), s, p.flags, p.names, p.elipsis, p.elided)
BY DEF Prototypes, Longer, Fields

LEMMA ReplacedFields ==
  ASSUME NEW p \in Prototypes, NEW s
  PROVE  Fields(Replaced(p, s), s, p.flags, p.names, p.elipsis, p.elided)
BY DEF Prototypes, Replaced, Fields

\* What a group changes, one of four things.
Nothing(s, t, flags, also) == t = s /\ also = flags
Opened(s, t, flags, also) ==
  /\ t = [s EXCEPT ![Len(s)] = [s[Len(s)] EXCEPT !.elipsis = Len(s[Len(s)].names)]]
  /\ also = flags

LEMMA WithGroupIs ==
  ASSUME NEW q \in Prototypes, NEW g \in Groups
  PROVE  LET r == WithGroup(q, g)
         IN  /\ r.elipsis = q.elipsis /\ r.elided = q.elided /\ q.names \subseteq r.names
             /\ \/ g.names = << >> /\ Opened(q.positional, r.positional, q.flags, r.flags)
                \/ g.names # << >> /\ Nothing(q.positional, r.positional, q.flags, r.flags)
                \/ /\ IsFlagGroup(g)
                   /\ r.positional = q.positional /\ r.flags = q.flags \cup {g}
                \/ /\ g.names # << >> /\ ~IsDashDash(g) /\ ~IsDashStar(g)
                   /\ r.positional = Append(q.positional, g) /\ r.flags = q.flags
<1> DEFINE r == WithGroup(q, g)
           last == Len(q.positional)
<1>0. /\ IsDashDash(g) => g.names # << >> /\ ~IsDashStar(g) /\ ~IsFlagGroup(g)
      /\ IsDashStar(g) => g.names # << >> /\ ~IsFlagGroup(g)
      /\ IsFlagGroup(g) => g.names # << >>
  BY OneKind
<1>1. CASE g.names = << >>
  <2> DEFINE s == [q.positional EXCEPT ![last] =
                     [q.positional[last] EXCEPT !.elipsis = Len(q.positional[last].names)]]
  <2>1. r = Replaced(q, s)
    BY <1>0, <1>1 DEF WithGroup, Replaced
  <2>2. Opened(q.positional, s, q.flags, q.flags)
    BY DEF Opened
  <2> HIDE DEF s, r
  <2>3. Fields(r, s, q.flags, q.names, q.elipsis, q.elided)
    BY <2>1, ReplacedFields
  <2> QED BY <1>1, <2>2, <2>3 DEF Fields, r
<1>2. CASE g.names # << >> /\ IsDashDash(g)
  <2>1. r = Dashed(q, last, g.required)
    BY <1>0, <1>2 DEF WithGroup, Dashed
  <2> HIDE DEF r
  <2>2. Fields(r, q.positional, q.flags, q.names, q.elipsis, q.elided)
    BY <2>1, DashedFields
  <2> QED BY <1>2, <2>2 DEF Fields, Nothing, r
<1>3. CASE g.names # << >> /\ ~IsDashDash(g) /\ IsDashStar(g)
  <2>1. r = SomeMore(q, q.names \cup {"-*", "-?"})
    BY <1>0, <1>3 DEF WithGroup, SomeMore
  <2> HIDE DEF r
  <2>2. Fields(r, q.positional, q.flags, q.names \cup {"-*", "-?"}, q.elipsis, q.elided)
    BY <2>1, SomeFields
  <2> QED BY <1>3, <2>2 DEF Fields, Nothing, r
<1>4. CASE g.names # << >> /\ ~IsDashDash(g) /\ ~IsDashStar(g) /\ IsFlagGroup(g)
  <2>1. r = Flagged(q, q.flags \cup {g}, q.names \cup {"-*"})
    BY <1>0, <1>4 DEF WithGroup, Flagged
  <2> HIDE DEF r
  <2>2. Fields(r, q.positional, q.flags \cup {g}, q.names \cup {"-*"}, q.elipsis, q.elided)
    BY <2>1, FlaggedFields
  <2> QED BY <1>4, <2>2 DEF Fields, r
<1>5. CASE g.names # << >> /\ ~IsDashDash(g) /\ ~IsDashStar(g) /\ ~IsFlagGroup(g)
  <2> DEFINE required == q.required + (IF g.required THEN 1 ELSE 0)
             size == q.size + Len(g.names)
             s == Append(q.positional, g)
  <2>1. r = Longer(q, s, required, size)
    BY <1>0, <1>5 DEF WithGroup, Longer
  <2> HIDE DEF r, required, size, s
  <2>2. Fields(r, s, q.flags, q.names, q.elipsis, q.elided)
    BY <2>1, LongerFields
  <2> QED BY <1>5, <2>2 DEF Fields, r, s
<1> QED BY <1>1, <1>2, <1>3, <1>4, <1>5

LEMMA NamedIs ==
  ASSUME NEW p \in Prototypes, NEW g
  PROVE  Fields(Named(p, g), p.positional, p.flags, p.names \cup Members(g.names),
                IF g.elipsis = 0 THEN LastOf(LastOf(p.positional).names)
                ELSE IF g.elipsis = NoElipsis THEN p.elipsis ELSE g.names[g.elipsis],
                p.elided \/ g.elipsis # NoElipsis)
<1> DEFINE e == IF g.elipsis = 0 THEN LastOf(LastOf(p.positional).names)
                ELSE IF g.elipsis = NoElipsis THEN p.elipsis ELSE g.names[g.elipsis]
           names == p.names \cup Members(g.names)
           elided == p.elided \/ g.elipsis # NoElipsis
<1>1. Named(p, g) = Renamed(p, names, e, elided)
  BY DEF Named, Renamed
<1>2. Fields(Renamed(p, names, e, elided), p.positional, p.flags, names, e, elided)
  <2> HIDE DEF names, e, elided
  <2> QED BY RenamedFields
<1> QED BY <1>1, <1>2

\* A group that fits is apart from all others.
LEMMA FitsApart ==
  ASSUME NEW p, GroupNames(p) \subseteq p.names, NEW g \in Groups, NamesFit(p, g),
         NEW h \in p.flags \cup Members(p.positional)
  PROVE  Apart(g, h) /\ Apart(h, g)
<1>1. Members(h.names) \subseteq p.names
  BY DEF GroupNames
<1>2. Members(g.names) \cap p.names \subseteq Convenience
  BY DEF NamesFit, Convenience
<1> QED BY <1>1, <1>2 DEF Apart

LEMMA FitsShape ==
  ASSUME NEW p, NEW g \in Groups, NamesFit(p, g)
  PROVE  GroupShape(g)
BY BindingAssumption DEF NamesFit, GroupShape

\* Only elipsis differs.
Alike(s, t) ==
  /\ Len(t) = Len(s)
  /\ \A i \in 1 .. Len(s) : t[i].names = s[i].names /\ t[i].required = s[i].required

LEMMA AlikeShapes ==
  ASSUME NEW s, NEW t, NEW flags, Alike(s, t)
  PROVE  /\ NamesApart(s, flags) => NamesApart(t, flags)
         /\ Shapes(s, flags) => Shapes(t, flags)
<1>1. ASSUME NamesApart(s, flags) PROVE NamesApart(t, flags)
  BY <1>1 DEF Alike, NamesApart, Apart
<1>2. ASSUME Shapes(s, flags) PROVE Shapes(t, flags)
  BY <1>2 DEF Alike, Shapes, GroupShape
<1> QED BY <1>1, <1>2

LEMMA OpenedAlike ==
  ASSUME NEW s \in Seq(GroupType), s # << >>, NEW t, NEW flags, NEW also,
         Opened(s, t, flags, also)
  PROVE  /\ Alike(s, t) /\ Len(s) \in Nat \ {0}
         /\ \A i \in 1 .. Len(s) : i # Len(s) => t[i] = s[i]
         /\ t[Len(s)].elipsis = Len(s[Len(s)].names)
<1> DEFINE n == Len(s)
           old == s[n]
           new == [old EXCEPT !.elipsis = Len(old.names)]
<1>1. n \in Nat \ {0} /\ n \in DOMAIN s /\ DOMAIN s = 1 .. n
  OBVIOUS
<1>2. old \in GroupType
  BY <1>1
<1>3. new.names = old.names /\ new.required = old.required /\ new.elipsis = Len(old.names)
  BY <1>2 DEF GroupType
<1> HIDE DEF new
<1>4. t = [s EXCEPT ![n] = new]
  BY DEF Opened, new
<1>5. /\ Len(t) = n
      /\ \A i \in 1 .. n : t[i] = IF i = n THEN new ELSE s[i]
  BY <1>1, <1>4
<1>6. t[n] = new
  BY <1>1, <1>5
<1>7. \A i \in 1 .. n : i # n => t[i] = s[i]
  BY <1>5
<1>8. \A i \in 1 .. n : t[i].names = s[i].names /\ t[i].required = s[i].required
  BY <1>3, <1>6, <1>7
<1> HIDE DEF n
<1>9. Alike(s, t)
  BY <1>5, <1>8 DEF Alike, n
<1> QED BY <1>1, <1>3, <1>6, <1>7, <1>9 DEF n

\* p is the prototype without the group, e what is in front of "..." with it.
NameOfElipsis(p, g) ==
  IF g.elipsis = 0 THEN LastOf(LastOf(p.positional).names)
  ELSE IF g.elipsis = NoElipsis THEN p.elipsis ELSE g.names[g.elipsis]

LEMMA ElipsisKept ==
  ASSUME NEW p, ProtoShape(p), NEW g, NamesFit(p, g)
  PROVE  ElipsisNamed(p.positional, NameOfElipsis(p, g))
<1> SUFFICES ASSUME NEW i \in 1 .. Len(p.positional), p.positional[i].elipsis > 0
             PROVE  p.positional[i].names[p.positional[i].elipsis] = NameOfElipsis(p, g)
  BY DEF ElipsisNamed
<1>1. p.positional[i].elipsis # NoElipsis
  BY DEF NoElipsis
<1>2. p.elided
  BY <1>1 DEF ProtoShape
<1>3. g.elipsis = NoElipsis
  BY <1>2 DEF NamesFit
<1>4. NameOfElipsis(p, g) = p.elipsis
  BY <1>3 DEF NameOfElipsis, NoElipsis
<1> QED BY <1>4 DEF ProtoShape, ElipsisNamed

LEMMA AppendIs ==
  ASSUME NEW s \in Seq(GroupType), NEW g \in GroupType
  PROVE  /\ Len(s) \in Nat /\ Len(Append(s, g)) = Len(s) + 1
         /\ \A i \in 1 .. Len(s) : Append(s, g)[i] = s[i]
         /\ Append(s, g)[Len(s) + 1] = g
OBVIOUS

LEMMA DeclareShape ==
  ASSUME NEW p, ProtoOK(p), ProtoShape(p),
         NEW g \in Groups, NamesFit(p, g), PlaceFits(p, g)
  PROVE  ProtoShape(WithGroup(Named(p, g), g))
<1> DEFINE q == Named(p, g)
           r == WithGroup(q, g)
           s == p.positional
           F == p.flags
           e == NameOfElipsis(p, g)
           elided == p.elided \/ g.elipsis # NoElipsis
<1> SUFFICES ProtoShape(r)
  OBVIOUS
<1>1. p \in Prototypes /\ s \in Seq(GroupType) /\ F \subseteq GroupType
  BY ProtoTyped DEF ProtoOK
<1>2. /\ Fields(q, s, F, p.names \cup Members(g.names), e, elided)
      /\ q \in Prototypes
  BY <1>1, NamedIs, NamedOK DEF NameOfElipsis
<1> HIDE DEF q
<1>3. /\ r.elipsis = e /\ r.elided = elided
      /\ p.names \cup Members(g.names) \subseteq r.names
      /\ \/ g.names = << >> /\ Opened(s, r.positional, F, r.flags)
         \/ g.names # << >> /\ Nothing(s, r.positional, F, r.flags)
         \/ IsFlagGroup(g) /\ r.positional = s /\ r.flags = F \cup {g}
         \/ g.names # << >> /\ r.positional = Append(s, g) /\ r.flags = F
  BY <1>2, WithGroupIs DEF Fields
<1> HIDE DEF r
<1>4. ElipsisNamed(s, e) /\ (elided \in BOOLEAN)
  BY ElipsisKept
<1>5. GroupShape(g) /\ g \in GroupType
  BY FitsShape, GroupsTyped
<1>6. \A h \in F \cup Members(s) : Apart(g, h) /\ Apart(h, g)
  BY FitsApart DEF ProtoShape
<1>7. /\ NamesApart(s, F) /\ Shapes(s, F) /\ GroupNames(p) \subseteq p.names
      /\ ~p.elided => \A i \in 1 .. Len(s) : s[i].elipsis = NoElipsis
  BY DEF ProtoShape
<1> HIDE DEF e
<1>8. CASE g.names = << >> /\ Opened(s, r.positional, F, r.flags)
  <2> DEFINE t == r.positional
  <2>1. s # << >> /\ ~p.elided /\ elided /\ g.elipsis = 0
    BY <1>8, GroupsTyped DEF PlaceFits, NamesFit, NoElipsis
  <2>2. /\ Alike(s, t) /\ Len(s) \in Nat \ {0}
        /\ \A i \in 1 .. Len(s) : i # Len(s) => t[i] = s[i]
        /\ t[Len(s)].elipsis = Len(s[Len(s)].names)
        /\ r.flags = F
    BY <1>1, <1>8, <2>1, OpenedAlike DEF Opened
  <2>3. GroupNames(r) = GroupNames(p)
    <3>1. t \in Seq(GroupType) \/ DOMAIN t = 1 .. Len(s)
      BY <1>1, <1>8 DEF Opened
    <3>2. DOMAIN t = 1 .. Len(s) /\ DOMAIN s = 1 .. Len(s)
      BY <1>1, <1>8 DEF Opened
    <3>3. \A i \in 1 .. Len(s) : t[i].names = s[i].names
      BY <2>2 DEF Alike
    <3>4. ASSUME NEW h \in Members(t) PROVE \E k \in Members(s) : h.names = k.names
      BY <3>2, <3>3 DEF Members
    <3>5. ASSUME NEW h \in Members(s) PROVE \E k \in Members(t) : h.names = k.names
      BY <3>2, <3>3 DEF Members
    <3> HIDE DEF t
    <3> QED BY <2>2, <3>4, <3>5 DEF GroupNames, t
  <2>4. NamesApart(t, F) /\ Shapes(t, F)
    BY <1>7, <2>2, AlikeShapes
  <2>5. ElipsisNamed(t, e)
    <3> SUFFICES ASSUME NEW i \in 1 .. Len(t), t[i].elipsis > 0
                 PROVE  t[i].names[t[i].elipsis] = e
      BY DEF ElipsisNamed
    <3>1. i \in 1 .. Len(s)
      BY <2>2 DEF Alike
    <3>2. CASE i = Len(s)
      <4>1. e = LastOf(LastOf(s).names)
        BY <2>1 DEF e, NameOfElipsis
      <4>2. t[i].names = s[i].names /\ LastOf(s) = s[i]
        BY <2>2, <3>1, <3>2 DEF Alike, LastOf
      <4> QED BY <2>2, <3>2, <4>1, <4>2 DEF LastOf
    <3>3. CASE i # Len(s)
      <4>1. t[i] = s[i] /\ s[i].elipsis = NoElipsis
        BY <1>7, <2>1, <2>2, <3>1, <3>3
      <4> QED BY <4>1 DEF NoElipsis
    <3> QED BY <3>2, <3>3
  <2> QED BY <1>3, <1>4, <1>7, <2>1, <2>2, <2>3, <2>4, <2>5 DEF ProtoShape
<1>9. ASSUME r.positional = s, r.flags = F PROVE ProtoShape(r)
  <2>1. GroupNames(r) = GroupNames(p)
    BY <1>9 DEF GroupNames
  <2> QED BY <1>3, <1>4, <1>7, <1>9, <2>1 DEF ProtoShape
<1>10. CASE IsFlagGroup(g) /\ r.positional = s /\ r.flags = F \cup {g}
  <2>1. GroupNames(r) = GroupNames(p) \cup Members(g.names)
    BY <1>10 DEF GroupNames
  <2>2. \A i \in 1 .. Len(s) : s[i] \in Members(s)
    BY <1>1 DEF Members
  <2>3. NamesApart(s, F \cup {g})
    BY <1>6, <1>7, <2>2 DEF NamesApart
  <2>4. Shapes(s, F \cup {g})
    BY <1>5, <1>7, <1>10 DEF Shapes, IsFlagGroup
  <2> QED BY <1>3, <1>4, <1>7, <1>10, <2>1, <2>3, <2>4 DEF ProtoShape
<1>11. CASE g.names # << >> /\ r.positional = Append(s, g) /\ r.flags = F
  <2> DEFINE t == r.positional
             n == Len(s)
  <2>1. /\ n \in Nat /\ Len(t) = n + 1 /\ t[n + 1] = g
        /\ \A i \in 1 .. n : t[i] = s[i] /\ s[i] \in Members(s)
    <3>1. \A i \in 1 .. n : s[i] \in Members(s)
      BY <1>1 DEF Members
    <3> QED BY <1>1, <1>5, <1>11, <3>1, AppendIs
  <2>2. GroupNames(r) = GroupNames(p) \cup Members(g.names)
    <3>1. Members(t) = Members(s) \cup {g}
      BY <1>1, <1>5, <1>11, MembersAppend
    <3> QED BY <1>11, <3>1 DEF GroupNames
  <2>3. ASSUME NEW i \in 1 .. Len(t)
        PROVE  (i \in 1 .. n /\ t[i] = s[i]) \/ (i = n + 1 /\ t[i] = g)
    BY <2>1
  <2> HIDE DEF t, n
  <2>4. NamesApart(t, F)
    <3>1. ASSUME NEW i \in 1 .. Len(t), NEW j \in 1 .. Len(t), i # j
          PROVE  Apart(t[i], t[j])
      <4>1. \A k, l \in 1 .. n : k # l => Apart(s[k], s[l])
        BY <1>7 DEF NamesApart, n
      <4> QED BY <1>6, <2>1, <2>3, <3>1, <4>1
    <3>2. ASSUME NEW i \in 1 .. Len(t), NEW h \in F PROVE Apart(t[i], h)
      <4>1. \A k \in 1 .. n : Apart(s[k], h)
        BY <1>7 DEF NamesApart, n
      <4> QED BY <1>6, <2>3, <4>1
    <3> QED BY <1>7, <3>1, <3>2 DEF NamesApart
  <2>5. Shapes(t, F)
    <3>1. \A k \in 1 .. n : GroupShape(s[k])
      BY <1>7 DEF Shapes, n
    <3> QED BY <1>5, <1>7, <2>3, <3>1 DEF Shapes
  <2>6. ElipsisNamed(t, e)
    <3> SUFFICES ASSUME NEW i \in 1 .. Len(t), t[i].elipsis > 0
                 PROVE  t[i].names[t[i].elipsis] = e
      BY DEF ElipsisNamed
    <3>1. CASE i \in 1 .. n /\ t[i] = s[i]
      BY <1>4, <3>1 DEF ElipsisNamed, n
    <3>2. CASE t[i] = g
      BY <3>2 DEF e, NameOfElipsis, NoElipsis
    <3> QED BY <2>3, <3>1, <3>2
  <2>7. ~elided => \A i \in 1 .. Len(t) : t[i].elipsis = NoElipsis
    BY <1>7, <2>3 DEF n
  <2> QED BY <1>3, <1>4, <1>7, <1>11, <2>2, <2>4, <2>5, <2>6, <2>7 DEF ProtoShape, t
<1> QED BY <1>3, <1>8, <1>9, <1>10, <1>11 DEF Nothing

-----------------------------------------------------------------------------
\* Taking words.

LEMMA PositionsIs ==
  ASSUME NEW a \in Int, NEW b \in Int
  PROVE  /\ Positions(a, b) \in Seq(Int)
         /\ b = a => Len(Positions(a, b)) = 1
<1> DEFINE n == b - a + 1
           s == [i \in 1 .. n |-> a + i - 1]
<1>1. CASE n < 0
  <2>1. 1 .. n = 1 .. 0
    BY <1>1
  <2>2. s \in [1 .. 0 -> Int]
    BY <2>1
  <2> QED BY <1>1, <2>2 DEF Positions
<1>2. CASE n >= 0
  <2>1. n \in Nat
    BY <1>2
  <2>2. s \in [1 .. n -> Int]
    OBVIOUS
  <2> HIDE DEF n
  <2>3. s \in Seq(Int) /\ Len(s) = n
    BY <2>1, <2>2
  <2> QED BY <2>3 DEF Positions, n
<1> QED BY <1>1, <1>2

\* The words for a name, and how many.
LEMMA WordsForIs ==
  ASSUME NEW g \in GroupType, NEW extra \in Nat, NEW k \in Nat, at \in Int
  PROVE  /\ WordsFor(g, extra, k) \in Seq(Int)
         /\ k # g.elipsis => Len(WordsFor(g, extra, k)) = 1
         /\ Beyond(g, extra) \in Seq(Int)
<1>1. g.elipsis \in Int
  BY DEF GroupType
<1>2. Place(g, extra, k) \in Int
  BY <1>1 DEF Place
<1> DEFINE a == Place(g, extra, k)
           b == a + (IF k = g.elipsis THEN extra ELSE 0)
<1>3. b \in Int /\ (k # g.elipsis => b = a)
  BY <1>2
<1>4. WordsFor(g, extra, k) = Positions(a, b)
  BY DEF WordsFor
<1> HIDE DEF a, b
<1>5. /\ Positions(a, b) \in Seq(Int)
      /\ b = a => Len(Positions(a, b)) = 1
  BY <1>2, <1>3, PositionsIs DEF a
<1>6. Beyond(g, extra) \in Seq(Int)
  <2>1. at + g.elipsis \in Int /\ at + g.elipsis + extra - 1 \in Int
    BY <1>1
  <2> QED BY <2>1, PositionsIs DEF Beyond
<1> QED BY <1>3, <1>4, <1>5, <1>6

LEMMA MembersTyped ==
  ASSUME NEW g \in GroupType
  PROVE  Members(g.names) \subseteq Names
<1>1. g.names \in Seq(Names)
  BY DEF GroupType
<1> QED BY <1>1 DEF Members

\* One value: it and whether it is a list of words.
ValueOK(value, isListed) == value \in Seq(Int) /\ (Len(value) > 1 => isListed)

LEMMA LongerValue ==
  ASSUME NEW s \in Seq(Int), NEW t \in Seq(Int)
  PROVE  /\ s \o t \in Seq(Int) /\ Len(s \o t) = Len(s) + Len(t)
         /\ Len(s) \in Nat /\ (s = << >> => Len(s) = 0)
OBVIOUS

LEMMA OneWord ==
  ASSUME NEW i \in Int
  PROVE  << i >> \in Seq(Int) /\ Len(<< i >>) = 1
OBVIOUS

\* What holds of every value before holds after.
LEMMA LocalsFrom ==
  ASSUME NEW f, f = [n \in Names |-> f[n]], NEW D, NEW L,
         \A n \in Names : ValueOK(f[n], n \in L),
         f["--"] # << >> => "--" \in D \cup L
  PROVE  /\ f \in [Names -> Seq(Int)]
         /\ \A n \in Names : Len(f[n]) > 1 => n \in L
         /\ f["--"] # << >> => "--" \in D \cup L
<1>1. \A n \in Names : f[n] \in Seq(Int)
  BY DEF ValueOK
<1>2. f \in [Names -> Seq(Int)]
  BY <1>1
<1> QED BY <1>2 DEF ValueOK

LEMMA GroupsMore ==
  ASSUME NEW p, NEW n, NEW D, NEW M, NEW E, NEW N, GroupsSettled(p, n, D, M),
         D \subseteq E, E \ D \subseteq Convenience, M \subseteq N
  PROVE  GroupsSettled(p, n, E, N)
<1>1. ASSUME NEW g PROVE /\ Settled(g, D, M) => Settled(g, E, N)
                         /\ Untouched(g, D) => Untouched(g, E)
  BY DEF Settled, Untouched
<1> QED BY <1>1 DEF GroupsSettled

\* The names of one group more are settled, and no others touched.
LEMMA OthersKept ==
  ASSUME NEW g, NEW h, NEW D, NEW M, NEW E, NEW N, Apart(h, g),
         D \subseteq E, E \ D \subseteq Members(g.names), M \subseteq N
  PROVE  /\ Settled(h, D, M) => Settled(h, E, N)
         /\ Untouched(h, D) => Untouched(h, E)
BY DEF Apart, Settled, Untouched

LEMMA GroupsNext ==
  ASSUME NEW p, NamesApart(p.positional, p.flags), Len(p.positional) \in Nat,
         NEW n \in 1 .. Len(p.positional),
         NEW D, NEW M, NEW E, NEW N, GroupsSettled(p, n - 1, D, M),
         D \subseteq E, E \ D \subseteq Members(p.positional[n].names), M \subseteq N,
         Settled(p.positional[n], E, N)
  PROVE  GroupsSettled(p, n, E, N)
<1> DEFINE g == p.positional[n]
<1>1. ASSUME NEW i \in 1 .. Len(p.positional), i # n
      PROVE  /\ Settled(p.positional[i], D, M) => Settled(p.positional[i], E, N)
             /\ Untouched(p.positional[i], D) => Untouched(p.positional[i], E)
  <2>1. Apart(p.positional[i], g)
    BY <1>1 DEF NamesApart
  <2> QED BY <2>1, OthersKept
<1>2. ASSUME NEW h \in p.flags
      PROVE  /\ Settled(h, D, M) => Settled(h, E, N)
             /\ Untouched(h, D) => Untouched(h, E)
  <2>1. Apart(g, h)
    BY DEF NamesApart
  <2>2. Apart(h, g)
    BY <2>1 DEF Apart
  <2> QED BY <2>2, OthersKept
<1>3. ASSUME NEW i \in 1 .. n, p.positional[i].required
      PROVE  Settled(p.positional[i], E, N)
  <2>1. i \in 1 .. n - 1 \/ i = n
    OBVIOUS
  <2>2. i \in 1 .. n - 1 => Settled(p.positional[i], D, M)
    BY <1>3 DEF GroupsSettled
  <2> QED BY <1>1, <2>1, <2>2
<1> QED BY <1>1, <1>2, <1>3 DEF GroupsSettled

LEMMA GroupsFlag ==
  ASSUME NEW p, NamesApart(p.positional, p.flags), NEW g \in p.flags,
         NEW n, n <= Len(p.positional), n \in Int, Len(p.positional) \in Nat,
         NEW D, NEW M, NEW E, NEW N, GroupsSettled(p, n, D, M),
         D \subseteq E, E \ D \subseteq Members(g.names), M \subseteq N,
         Settled(g, E, N)
  PROVE  GroupsSettled(p, n, E, N)
<1>1. ASSUME NEW i \in 1 .. Len(p.positional)
      PROVE  /\ Settled(p.positional[i], D, M) => Settled(p.positional[i], E, N)
             /\ Untouched(p.positional[i], D) => Untouched(p.positional[i], E)
  <2>1. Apart(p.positional[i], g)
    BY DEF NamesApart
  <2> QED BY <2>1, OthersKept
<1>2. ASSUME NEW h \in p.flags, h # g
      PROVE  /\ Settled(h, D, M) => Settled(h, E, N)
             /\ Untouched(h, D) => Untouched(h, E)
  <2>1. Apart(h, g)
    BY <1>2 DEF NamesApart
  <2> QED BY <2>1, OthersKept
<1>3. \A i \in 1 .. n : i \in 1 .. Len(p.positional)
  OBVIOUS
<1> QED BY <1>1, <1>2, <1>3 DEF GroupsSettled

LEMMA GroupsSkipped ==
  ASSUME NEW p, NEW n \in Nat \ {0}, ~p.positional[n].required,
         NEW D, NEW M, GroupsSettled(p, n - 1, D, M)
  PROVE  GroupsSettled(p, n, D, M)
<1>1. ASSUME NEW i \in 1 .. n, p.positional[i].required
      PROVE  Settled(p.positional[i], D, M)
  <2>1. i \in 1 .. n - 1
    BY <1>1
  <2> QED BY <1>1, <2>1 DEF GroupsSettled
<1> QED BY <1>1 DEF GroupsSettled

\* What Advance does to what is defined and to what is missing.
LEMMA AdvanceSettles ==
  ASSUME NEW g, NEW extra, Advance(g, extra)
  PROVE  /\ defined \subseteq defined' /\ missing \subseteq missing'
         /\ defined' \ defined \subseteq Members(g.names)
         /\ Settled(g, defined', missing')
         /\ NamesAt(g, Reached(g, extra)) \subseteq defined'
<1>1. /\ missing' = missing \cup Unreached(g, extra)
      /\ defined' = defined \cup NamesAt(g, Reached(g, extra))
  BY DEF Advance
<1>2. NamesAt(g, Reached(g, extra)) \subseteq Members(g.names)
  BY DEF NamesAt, Reached, Members
<1>3. Members(g.names) \subseteq NamesAt(g, Reached(g, extra)) \cup Unreached(g, extra)
  BY DEF Members, NamesAt, Unreached
<1> QED BY <1>1, <1>2, <1>3 DEF Settled

LEMMA TakeGroupWhole ==
  ASSUME BindingInvariant, GroupInvariant, TakeGroup
  PROVE  GroupInvariant'
<1> DEFINE g == Positional[param]
           extra == Extra(g, pos_c - Len(g.names))
           of(n) == {k \in Reached(g, extra) : g.names[k] = n}
           new == [n \in Names |->
              IF of(n) # {} THEN WordsFor(g, extra, CHOOSE k \in of(n) : TRUE)
              ELSE IF g.elipsis = 0 /\ n = proto.elipsis
              THEN locals[n] \o Beyond(g, extra) ELSE locals[n]]
<1>1. /\ ProtoOK(proto) /\ Walk /\ at <= argc /\ phase = "binding"
      /\ ProtoShape(proto) /\ GroupsSettled(proto, param - 1, defined, missing)
      /\ locals \in [Names -> Seq(Int)] /\ defined \subseteq Names
      /\ \A n \in Names : Len(locals[n]) > 1 => n \in listed
      /\ locals["--"] # << >> => "--" \in defined \cup listed
  BY DEF TakeGroup, AtGroup, BindingInvariant, GroupInvariant, LocalsOK
<1>2. /\ Len(Positional) \in Nat /\ param \in 1 .. Len(Positional)
      /\ GroupOK(g) /\ g \in GroupType /\ extra \in Nat /\ at \in Int
      /\ DOMAIN g.names = 1 .. Len(g.names) /\ Len(g.names) \in Nat
  <2>1. param <= Len(Positional)
    BY DEF TakeGroup, AtGroup
  <2>2. Len(Positional) \in Nat /\ GroupOK(g) /\ pos_c - Len(g.names) \in Nat
    BY <1>1, <2>1, ThisGroup
  <2>3. param \in 1 .. Len(Positional) /\ at \in Int
    BY <1>1, <2>1, <2>2 DEF Walk
  <2>4. g \in GroupType
    BY <2>2 DEF GroupOK
  <2>5. g.names \in Seq(Names)
    BY <2>4 DEF GroupType
  <2>6. DOMAIN g.names = 1 .. Len(g.names) /\ Len(g.names) \in Nat
    BY <2>5
  <2> QED BY <1>1, <2>2, <2>3, <2>4, <2>6, ExtraOK
<1>3. /\ Advance(g, extra) /\ proto' = proto /\ phase' = phase /\ param' = param + 1
      /\ locals' = new /\ listed' = listed \cup ListedBy(g, extra)
  BY DEF TakeGroup, NextGroup
<1> DEFINE R == Reached(g, extra)
           word(n) == CHOOSE k \in of(n) : TRUE
<1>4. /\ defined \subseteq defined' /\ missing \subseteq missing'
      /\ defined' \ defined \subseteq Members(g.names)
      /\ Settled(g, defined', missing')
      /\ NamesAt(g, R) \subseteq defined'
  BY <1>3, AdvanceSettles
<1>5. /\ g.elipsis \in R => proto.elipsis \in listed' /\ g.names[g.elipsis] = proto.elipsis
      /\ g.elipsis = 0 => proto.elipsis \in listed'
      /\ listed \subseteq listed'
  <2>1. g.elipsis \in R => g.elipsis \in 1 .. Len(g.names)
    BY <1>2 DEF Reached
  <2>2. g.elipsis \in R => g.elipsis > 0
    BY <1>2, <2>1
  <2>3. g.elipsis > 0 => g.names[g.elipsis] = proto.elipsis
    BY <1>1, <1>2 DEF ProtoShape, ElipsisNamed, Positional
  <2> QED BY <1>3, <2>2, <2>3 DEF ListedBy
<1>6. ASSUME NEW n \in Names, of(n) # {}
      PROVE  /\ word(n) \in R /\ g.names[word(n)] = n /\ word(n) \in Nat
             /\ n \in NamesAt(g, R)
  <2>1. word(n) \in of(n)
    BY <1>6
  <2>2. word(n) \in R /\ g.names[word(n)] = n
    BY <2>1
  <2>3. \A k \in R : k \in Nat
    BY <1>2 DEF Reached
  <2> QED BY <2>2, <2>3 DEF NamesAt
<1>7. ASSUME NEW n \in Names
      PROVE  new[n] = IF of(n) # {} THEN WordsFor(g, extra, word(n))
                      ELSE IF g.elipsis = 0 /\ n = proto.elipsis
                      THEN locals[n] \o Beyond(g, extra) ELSE locals[n]
  OBVIOUS
<1> HIDE DEF g, extra, new, of, word, R
<1>8. ASSUME NEW n \in Names PROVE ValueOK(new[n], n \in listed')
  <2>1. CASE of(n) # {}
    <3>1. /\ WordsFor(g, extra, word(n)) \in Seq(Int)
          /\ word(n) # g.elipsis => Len(WordsFor(g, extra, word(n))) = 1
      BY <1>2, <1>6, <2>1, WordsForIs
    <3>2. word(n) = g.elipsis => n \in listed'
      BY <1>5, <1>6, <2>1
    <3> DEFINE value == WordsFor(g, extra, word(n))
    <3>3. value \in Seq(Int) /\ (Len(value) > 1 => n \in listed')
      <4>1. CASE word(n) = g.elipsis
        BY <3>1, <3>2, <4>1
      <4>2. CASE word(n) # g.elipsis
        <5>1. Len(value) = 1
          BY <3>1, <4>2
        <5> HIDE DEF value
        <5> QED BY <3>1, <5>1 DEF value
      <4> QED BY <4>1, <4>2
    <3>4. new[n] = value
      BY <1>7, <2>1
    <3> HIDE DEF value
    <3> QED BY <3>3, <3>4 DEF ValueOK
  <2>2. CASE of(n) = {} /\ g.elipsis = 0 /\ n = proto.elipsis
    <3>1. Beyond(g, extra) \in Seq(Int)
      BY <1>2, WordsForIs
    <3>2. locals[n] \in Seq(Int) /\ n \in listed'
      BY <1>1, <1>5, <2>2
    <3>3. locals[n] \o Beyond(g, extra) \in Seq(Int)
      BY <3>1, <3>2, LongerValue
    <3>4. new[n] = locals[n] \o Beyond(g, extra)
      BY <1>7, <2>2
    <3> QED BY <3>2, <3>3, <3>4 DEF ValueOK
  <2>3. CASE of(n) = {} /\ ~(g.elipsis = 0 /\ n = proto.elipsis)
    BY <1>1, <1>5, <1>7, <2>3 DEF ValueOK
  <2> QED BY <2>1, <2>2, <2>3
<1>9. new["--"] # << >> => "--" \in defined' \cup listed'
  <2>1. "--" \in Names
    BY DEF Names, Convenience
  <2>2. CASE of("--") # {}
    BY <1>4, <1>6, <2>1, <2>2
  <2>3. CASE of("--") = {} /\ g.elipsis = 0 /\ "--" = proto.elipsis
    BY <1>5, <2>3
  <2>4. CASE of("--") = {} /\ ~(g.elipsis = 0 /\ "--" = proto.elipsis)
    BY <1>1, <1>4, <1>5, <1>7, <2>1, <2>4
  <2> QED BY <2>2, <2>3, <2>4
<1>10. new = [n \in Names |-> new[n]]
  BY DEF new
<1>11. LocalsOK'
  <2>1. defined' \subseteq Names
    BY <1>1, <1>2, <1>4, MembersTyped
  <2> QED BY <1>1, <1>3, <1>8, <1>9, <1>10, <2>1, LocalsFrom DEF LocalsOK
<1>12. GroupsSettled(proto, param, defined', missing')
  <2>1. NamesApart(proto.positional, proto.flags)
    BY <1>1 DEF ProtoShape
  <2> QED BY <1>1, <1>2, <1>4, <2>1, GroupsNext DEF g, Positional
<1>13. param' - 1 = param
  BY <1>2, <1>3
<1> QED BY <1>1, <1>3, <1>11, <1>12, <1>13 DEF GroupInvariant

LEMMA SkipGroupWhole ==
  ASSUME BindingInvariant, GroupInvariant, SkipGroup
  PROVE  GroupInvariant'
<1>1. /\ Walk /\ phase = "binding" /\ ProtoShape(proto) /\ LocalsOK
      /\ GroupsSettled(proto, param - 1, defined, missing)
  BY DEF SkipGroup, AtGroup, BindingInvariant, GroupInvariant
<1>2. /\ ~Positional[param].required /\ param' = param + 1
      /\ UNCHANGED <<proto, phase, locals, defined, listed, missing, errors>>
  BY DEF SkipGroup, ToSpare, NextGroup
<1>3. param \in Nat \ {0}
  BY <1>1 DEF Walk
<1>4. GroupsSettled(proto, param, defined, missing)
  BY <1>1, <1>2, <1>3, GroupsSkipped DEF Positional
<1>5. LocalsOK'
  BY <1>1, <1>2 DEF LocalsOK
<1>6. param' - 1 = param
  BY <1>2, <1>3
<1> QED BY <1>1, <1>2, <1>4, <1>5, <1>6 DEF GroupInvariant

LEMMA TardyFlagWhole ==
  ASSUME BindingInvariant, GroupInvariant, TardyFlag
  PROVE  GroupInvariant'
<1>1. /\ phase = "binding" /\ ProtoShape(proto) /\ LocalsOK
      /\ GroupsSettled(proto, param - 1, defined, missing)
  BY DEF TardyFlag, AtFlag, GroupInvariant
<1>2. UNCHANGED <<proto, phase, param, locals, defined, listed, missing>>
  BY DEF TardyFlag
<1> QED BY <1>1, <1>2 DEF GroupInvariant, LocalsOK

\* A word that is passed on in $-*, $-? and perhaps in a name of its own.
LEMMA PassOnWhole ==
  ASSUME GroupInvariant, phase = "binding", at \in Int,
         NEW more, more \subseteq {"--"}, PassOn(more),
         phase' \in {phase, "aborted"}, defined \subseteq defined',
         defined' \ defined \subseteq Convenience,
         "--" \in more => phase' = "aborted" \/ ("--" \notin defined /\ "--" \in defined')
  PROVE  GroupInvariant'
<1> DEFINE S == more \cup (IF proto.some THEN {"-?"} ELSE {})
                     \cup (IF HasStar THEN {"-*"} ELSE {})
<1>1. /\ ProtoShape(proto) /\ GroupsSettled(proto, param - 1, defined, missing)
      /\ locals \in [Names -> Seq(Int)] /\ defined \subseteq Names
      /\ \A n \in Names : Len(locals[n]) > 1 => n \in listed
      /\ locals["--"] # << >> => "--" \in defined \cup listed
  BY DEF GroupInvariant, LocalsOK
<1>2. /\ locals' = Appended(S, << at >>) /\ listed' = listed \cup {"-*", "-?"}
      /\ UNCHANGED <<proto, param, missing>>
  BY DEF PassOn
<1>3. S \subseteq {"--", "-*", "-?"}
  OBVIOUS
<1>4. "--" \in S => "--" \in more
  OBVIOUS
<1> HIDE DEF S
<1>5. /\ DOMAIN locals' = Names /\ locals' = [n \in Names |-> locals'[n]]
      /\ \A n \in Names : locals'[n] = IF n \in S THEN locals[n] \o << at >> ELSE locals[n]
  BY <1>2 DEF Appended
<1>6. \A n \in Names : /\ locals[n] \o << at >> \in Seq(Int) /\ Len(locals[n]) \in Nat
                       /\ Len(locals[n] \o << at >>) = Len(locals[n]) + 1
                       /\ locals[n] = << >> => Len(locals[n]) = 0
  <2> TAKE n \in Names
  <2>1. locals[n] \in Seq(Int)
    BY <1>1
  <2> QED BY <2>1, OneWord, LongerValue
<1>7. locals' \in [Names -> Seq(Int)]
  <2>1. \A n \in Names : locals'[n] \in Seq(Int)
    BY <1>1, <1>5, <1>6
  <2> QED BY <1>5, <2>1
<1>8. ASSUME phase' # "aborted"
      PROVE  /\ \A n \in Names : Len(locals'[n]) > 1 => n \in listed'
             /\ locals'["--"] # << >> => "--" \in defined' \cup listed'
  <2>0. "--" \in Names
    BY DEF Names, Convenience
  <2>1. "--" \in S => "--" \notin defined /\ "--" \in defined'
    BY <1>4, <1>8
  <2>2. ASSUME NEW n \in Names, Len(locals'[n]) > 1 PROVE n \in listed'
    <3>1. CASE n \notin S
      BY <1>1, <1>2, <1>5, <2>2, <3>1
    <3>2. CASE n \in {"-*", "-?"}
      BY <1>2, <3>2
    <3>3. CASE n \in S /\ n = "--"
      <4>1. Len(locals[n]) > 0
        BY <1>5, <1>6, <2>2, <3>3
      <4>2. locals["--"] # << >>
        BY <1>6, <3>3, <4>1
      <4> QED BY <1>1, <1>2, <2>1, <3>3, <4>2
    <3> QED BY <1>3, <3>1, <3>2, <3>3
  <2>3. ASSUME locals'["--"] # << >> PROVE "--" \in defined' \cup listed'
    <3>1. CASE "--" \in S
      BY <2>1, <3>1
    <3>2. CASE "--" \notin S
      BY <1>1, <1>2, <1>5, <2>0, <2>3, <3>2
    <3> QED BY <3>1, <3>2
  <2> QED BY <2>2, <2>3
<1>9. LocalsOK'
  <2>1. defined' \subseteq Names
    BY <1>1 DEF Names
  <2>2. phase' # "declaring"
    OBVIOUS
  <2> QED BY <1>7, <1>8, <2>1, <2>2 DEF LocalsOK
<1>10. GroupsSettled(proto, param - 1, defined', missing')
  BY <1>1, <1>2, GroupsMore
<1> QED BY <1>1, <1>2, <1>9, <1>10 DEF GroupInvariant

LEMMA UnrecognizedFlagWhole ==
  ASSUME BindingInvariant, GroupInvariant, UnrecognizedFlag
  PROVE  GroupInvariant'
<1>1. phase = "binding" /\ at \in Int
  BY DEF UnrecognizedFlag, AtFlag, BindingInvariant, Walk
<1>2. PassOn({}) /\ phase' = phase /\ defined' = defined
  BY DEF UnrecognizedFlag
<1> QED BY <1>1, <1>2, PassOnWhole

LEMMA DashDashWhole ==
  ASSUME BindingInvariant, GroupInvariant, DashDash
  PROVE  GroupInvariant'
<1>1. phase = "binding" /\ at \in Int
  BY DEF DashDash, AtFlag, BindingInvariant, Walk
<1>2. /\ PassOn({"--"}) /\ defined' = defined \cup {"--"}
      /\ phase' = IF "--" \in defined THEN "aborted" ELSE phase
  BY DEF DashDash
<1>3. defined' \ defined \subseteq Convenience
  BY <1>2 DEF Convenience
<1> QED BY <1>1, <1>2, <1>3, PassOnWhole

LEMMA TakeFlagWhole ==
  ASSUME BindingInvariant, GroupInvariant, NEW g \in proto.flags, TakeFlag(g)
  PROVE  GroupInvariant'
<1> DEFINE extra == Extra(g, pos_c)
           R == Reached(g, extra)
           taken == Positions(at, at' - 1)
           of(n) == {k \in R : g.names[k] = n}
           own == {"-*", g.names[1]}
           new == [n \in Names |->
             IF n \in own THEN locals[n] \o taken
             ELSE IF \E k \in R : g.names[k] = n
             THEN locals[n] \o WordsFor(g, extra, CHOOSE k \in R : g.names[k] = n)
             ELSE locals[n]]
<1>1. /\ ProtoOK(proto) /\ Walk /\ at <= argc /\ phase = "binding"
      /\ ProtoShape(proto) /\ GroupsSettled(proto, param - 1, defined, missing)
      /\ locals \in [Names -> Seq(Int)] /\ defined \subseteq Names
      /\ \A n \in Names : Len(locals[n]) > 1 => n \in listed
      /\ locals["--"] # << >> => "--" \in defined \cup listed
  BY DEF TakeFlag, AtFlag, BindingInvariant, GroupInvariant, LocalsOK
<1>2. /\ GroupOK(g) /\ g \in GroupType /\ extra \in Nat /\ at \in Int /\ argc \in Nat
      /\ DOMAIN g.names = 1 .. Len(g.names) /\ Len(g.names) \in Nat /\ Len(g.names) > 0
      /\ g.elipsis # 0 /\ g.elipsis \in Int /\ g.elipsis >= -1
  <2>1. GroupOK(g) /\ pos_c \in Nat
    BY <1>1, ToCome DEF ProtoOK
  <2>2. at \in Int /\ argc \in Nat
    BY <1>1 DEF Walk
  <2>3. g \in GroupType /\ g.elipsis \in NoElipsis .. Len(g.names) /\ Len(g.names) > 0
    BY <2>1 DEF GroupOK
  <2>4. g.names \in Seq(Names)
    BY <2>3 DEF GroupType
  <2>5. DOMAIN g.names = 1 .. Len(g.names) /\ Len(g.names) \in Nat
    BY <2>4
  <2>6. g.elipsis # 0
    BY <1>1 DEF ProtoShape, Shapes
  <2>7. g.elipsis \in Int /\ g.elipsis >= -1
    BY <2>3, <2>5 DEF NoElipsis
  <2> QED BY <1>1, <2>1, <2>2, <2>3, <2>5, <2>6, <2>7, ExtraOK
<1>3. /\ Advance(g, extra) /\ proto' = proto /\ param' = param
      /\ phase' \in {"binding", "aborted"}
      /\ locals' = new /\ listed' = listed \cup {"-*"} \cup NamesAt(g, R)
  BY <1>1 DEF TakeFlag
<1>4. /\ defined \subseteq defined' /\ missing \subseteq missing'
      /\ defined' \ defined \subseteq Members(g.names)
      /\ Settled(g, defined', missing')
  BY <1>3, AdvanceSettles
<1>5. at' \in Int
  BY <1>1, <1>2, <1>3, AdvanceOK
<1>6. 1 \in R
  <2>1. g.elipsis = -1 => extra = 0
    BY DEF Extra, NoElipsis
  <2>2. g.elipsis = -1 \/ g.elipsis >= 1
    BY <1>2
  <2>3. Place(g, extra, 1) = at + 1 - 1 + (IF 1 > g.elipsis THEN extra ELSE 0)
    BY DEF Place
  <2> HIDE DEF extra
  <2>4. Place(g, extra, 1) = at
    BY <1>2, <2>1, <2>2, <2>3
  <2>5. 1 \in DOMAIN g.names
    BY <1>2
  <2> QED BY <1>1, <2>4, <2>5 DEF Reached
<1>7. own \subseteq listed' /\ listed \subseteq listed'
  BY <1>3, <1>6 DEF NamesAt
<1>8. taken \in Seq(Int)
  BY <1>2, <1>5, PositionsIs
<1>9. ASSUME NEW n \in Names, \E k \in R : g.names[k] = n
      PROVE  n \in listed' /\ WordsFor(g, extra, CHOOSE k \in R : g.names[k] = n) \in Seq(Int)
  <2> DEFINE k == CHOOSE i \in R : g.names[i] = n
  <2>1. k \in R /\ g.names[k] = n
    BY <1>9
  <2>2. k \in Nat
    BY <1>2, <2>1 DEF Reached
  <2>3. n \in listed'
    BY <1>3, <2>1 DEF NamesAt
  <2> HIDE DEF k
  <2>4. WordsFor(g, extra, k) \in Seq(Int)
    BY <1>2, <2>2, WordsForIs
  <2> QED BY <2>3, <2>4 DEF k
<1>10. ASSUME NEW n \in Names
       PROVE  \/ n \in listed' /\ new[n] \in Seq(Int)
              \/ new[n] = locals[n]
  <2>1. locals[n] \in Seq(Int)
    BY <1>1
  <2>2. CASE n \in own
    <3>1. new[n] = locals[n] \o taken
      BY <2>2
    <3> HIDE DEF new, taken, own
    <3> QED BY <1>7, <1>8, <2>1, <2>2, <3>1, LongerValue
  <2>3. CASE n \notin own /\ \E k \in R : g.names[k] = n
    <3> DEFINE value == WordsFor(g, extra, CHOOSE k \in R : g.names[k] = n)
    <3>1. new[n] = locals[n] \o value
      BY <2>3
    <3>2. value \in Seq(Int) /\ n \in listed'
      BY <1>9, <2>3
    <3> HIDE DEF new, value
    <3> QED BY <2>1, <3>1, <3>2, LongerValue
  <2>4. CASE n \notin own /\ ~ \E k \in R : g.names[k] = n
    BY <2>4
  <2> QED BY <2>2, <2>3, <2>4
<1>11. new = [n \in Names |-> new[n]]
  OBVIOUS
<1> HIDE DEF new, own, R, extra, taken
<1>12. ASSUME NEW n \in Names PROVE ValueOK(new[n], n \in listed')
  BY <1>1, <1>7, <1>10 DEF ValueOK
<1>13. new["--"] # << >> => "--" \in defined' \cup listed'
  <2>1. "--" \in Names
    BY DEF Names, Convenience
  <2> QED BY <1>1, <1>4, <1>7, <1>10, <2>1
<1>14. LocalsOK'
  <2>1. defined' \subseteq Names
    BY <1>1, <1>2, <1>4, MembersTyped
  <2> QED BY <1>3, <1>11, <1>12, <1>13, <2>1, LocalsFrom DEF LocalsOK
<1>15. GroupsSettled(proto, param - 1, defined', missing')
  <2>1. NamesApart(proto.positional, proto.flags)
    BY <1>1 DEF ProtoShape
  <2>2. Len(proto.positional) \in Nat
    BY <1>1, ProtoTyped DEF ProtoOK
  <2>3. param - 1 \in Int /\ param - 1 <= Len(proto.positional)
    BY <1>1, <2>2 DEF Walk, Positional
  <2> QED BY <1>1, <1>4, <2>1, <2>2, <2>3, GroupsFlag
<1> QED BY <1>1, <1>3, <1>14, <1>15 DEF GroupInvariant

LEMMA FinishWhole ==
  ASSUME BindingInvariant, GroupInvariant, Finish
  PROVE  GroupInvariant'
<1> DEFINE rest == {Positional[i] : i \in param .. Len(Positional)}
           lacks == missing \cup {g.names[1] : g \in {r \in rest : r.required}}
           n == Len(Positional)
<1>1. /\ phase = "binding" /\ ProtoOK(proto) /\ Walk /\ ProtoShape(proto) /\ LocalsOK
      /\ GroupsSettled(proto, param - 1, defined, missing)
  BY DEF Finish, BindingInvariant, GroupInvariant
<1>2. /\ phase' = "bound" /\ missing' = lacks /\ proto' = proto /\ locals' = locals
      /\ defined' = defined /\ listed \subseteq listed'
      /\ errors' = errors \cup IF Complete(lacks) THEN {} ELSE {"bad_args"}
  BY DEF Finish
<1>3. errors' = {} => missing' \subseteq {""}
  BY <1>2 DEF Complete
<1>4. LocalsOK'
  BY <1>1, <1>2 DEF LocalsOK
<1>5. n \in Nat /\ param \in Nat /\ proto.positional = Positional
  <2>1. n \in Nat
    BY <1>1, ProtoTyped DEF ProtoOK, Positional
  <2>2. param \in Nat
    BY <1>1, <2>1 DEF Walk
  <2> QED BY <2>1, <2>2 DEF Positional
<1>6. missing \subseteq missing'
  BY <1>2
<1>7. GroupsSettled(proto, param - 1, defined, missing')
  BY <1>1, <1>6, GroupsMore
<1>8. ASSUME NEW i \in 1 .. n, Positional[i].required
      PROVE  Settled(Positional[i], defined, missing')
  <2>1. CASE i \in 1 .. param - 1
    BY <1>5, <1>7, <1>8, <2>1 DEF GroupsSettled
  <2>2. CASE i \in param .. n
    <3> DEFINE g == Positional[i]
    <3>1. g \in rest
      BY <2>2
    <3>2. g.names[1] \in missing'
      BY <1>2, <1>8, <3>1
    <3>3. GroupOK(g) /\ GroupShape(g)
      BY <1>1, <1>5 DEF ProtoOK, ProtoShape, Shapes
    <3>4. g.names \in Seq(Names) /\ Len(g.names) > 0 /\ Len(g.names) <= 1
      BY <1>8, <3>3 DEF GroupOK, GroupType, GroupShape
    <3> HIDE DEF g
    <3> DEFINE k == Len(g.names)
    <3>7. k \in Nat /\ DOMAIN g.names = 1 .. k
      BY <3>4
    <3>8. k > 0 /\ k <= 1
      BY <3>4
    <3> HIDE DEF k
    <3>9. k = 1
      BY <3>7, <3>8
    <3>5. DOMAIN g.names = {1}
      BY <3>7, <3>9
    <3>6. Members(g.names) = {g.names[1]}
      BY <3>5 DEF Members
    <3> QED BY <3>2, <3>6 DEF Settled, g
  <2> QED BY <1>5, <2>1, <2>2
<1>9. GroupsSettled(proto, n, defined, missing')
  BY <1>5, <1>7, <1>8 DEF GroupsSettled
<1>10. Positional' = Positional
  BY <1>2 DEF Positional
<1> QED BY <1>1, <1>2, <1>3, <1>4, <1>9, <1>10 DEF GroupInvariant

LEMMA CallWhole ==
  ASSUME BindingInvariant, GroupInvariant, NEW w, Call(w)
  PROVE  GroupInvariant'
<1>1. /\ phase = "declaring" /\ ProtoShape(proto) /\ LocalsOK
  BY DEF Call, GroupInvariant
<1>2. /\ phase' = "binding" /\ param' = 1 /\ proto' = proto
      /\ locals' = locals /\ listed' = listed
      /\ defined' \subseteq Convenience
  <2>1. {"-?", "-*"} \subseteq Convenience
    BY DEF Convenience
  <2> QED BY <2>1 DEF Call
<1>3. GroupsSettled(proto, 0, defined', missing')
  BY <1>2 DEF GroupsSettled, Untouched
<1>4. LocalsOK'
  <2>1. "--" \in Names
    BY DEF Names, Convenience
  <2>2. locals["--"] = << >>
    BY <1>1, <2>1 DEF LocalsOK
  <2>3. defined' \subseteq Names
    BY <1>2 DEF Names
  <2> QED BY <1>1, <1>2, <2>2, <2>3 DEF LocalsOK
<1> QED BY <1>1, <1>2, <1>3, <1>4 DEF GroupInvariant

LEMMA DeclareGroupWhole ==
  ASSUME BindingInvariant, GroupInvariant, NEW g \in Groups, DeclareGroup(g)
  PROVE  GroupInvariant'
<1>1. /\ phase = "declaring" /\ ProtoOK(proto) /\ ProtoShape(proto) /\ LocalsOK
  BY DEF DeclareGroup, BindingInvariant, GroupInvariant
<1>2. /\ phase' \in {"declaring", "refused"}
      /\ UNCHANGED <<locals, defined, listed>>
  BY <1>1 DEF DeclareGroup, localVars
<1>3. ProtoShape(proto')
  BY <1>1, DeclareShape DEF DeclareGroup
<1>4. LocalsOK'
  BY <1>1, <1>2 DEF LocalsOK
<1> QED BY <1>2, <1>3, <1>4 DEF GroupInvariant

LEMMA GroupInit ==
  Init => GroupInvariant
<1> SUFFICES ASSUME Init PROVE GroupInvariant
  OBVIOUS
<1>1. /\ proto = NoParameters /\ phase = "declaring"
      /\ locals = [n \in Names |-> << >>] /\ defined = {}
  BY DEF Init
<1>2. LocalsOK
  <2>1. << >> \in Seq(Int) /\ ~(Len(<< >>) > 1)
    OBVIOUS
  <2>2. \A n \in Names : locals[n] = << >>
    BY <1>1
  <2>3. locals \in [Names -> Seq(Int)]
    BY <1>1, <2>1
  <2>4. "--" \in Names
    BY DEF Names, Convenience
  <2> QED BY <1>1, <2>1, <2>2, <2>3, <2>4 DEF LocalsOK
<1> DEFINE p == NoParameters
<1>3. /\ p.positional = << >> /\ p.flags = {} /\ p.names = {"--"} /\ p.elided = FALSE
  BY DEF NoParameters
<1> HIDE DEF p
<1>4. Len(<< >>) = 0 /\ Members(<< >>) = {} /\ 1 .. 0 = {}
  BY DEF Members
<1>5. GroupNames(p) = {}
  BY <1>3, <1>4 DEF GroupNames
<1>6. NamesApart(p.positional, p.flags) /\ Shapes(p.positional, p.flags)
  BY <1>3, <1>4 DEF NamesApart, Shapes
<1>7. ElipsisNamed(p.positional, p.elipsis)
  BY <1>3, <1>4 DEF ElipsisNamed
<1>8. ProtoShape(p)
  BY <1>3, <1>4, <1>5, <1>6, <1>7 DEF ProtoShape
<1> QED BY <1>1, <1>2, <1>8 DEF GroupInvariant, p

LEMMA GroupNext ==
  BindingInvariant /\ GroupInvariant /\ [Next]_vars => GroupInvariant'
<1> SUFFICES ASSUME BindingInvariant, GroupInvariant, [Next]_vars
             PROVE  GroupInvariant'
  OBVIOUS
<1>1. ASSUME NEW g \in Groups, DeclareGroup(g) PROVE GroupInvariant'
  BY <1>1, DeclareGroupWhole
<1>2. ASSUME NEW n \in 0 .. MaxWords, NEW w \in [1 .. n -> Words], Call(w)
      PROVE  GroupInvariant'
  BY <1>2, CallWhole
<1>3. CASE TakeGroup
  BY <1>3, TakeGroupWhole
<1>4. CASE SkipGroup
  BY <1>4, SkipGroupWhole
<1>5. CASE TardyFlag
  BY <1>5, TardyFlagWhole
<1>6. CASE UnrecognizedFlag
  BY <1>6, UnrecognizedFlagWhole
<1>7. CASE DashDash
  BY <1>7, DashDashWhole
<1>8. ASSUME NEW g \in proto.flags, TakeFlag(g) PROVE GroupInvariant'
  BY <1>8, TakeFlagWhole
<1>9. CASE Finish
  BY <1>9, FinishWhole
<1>10. CASE UNCHANGED vars
  <2>1. UNCHANGED <<proto, phase, param, locals, defined, listed, missing, errors>>
    BY <1>10 DEF vars, callVars, localVars
  <2> QED BY <2>1 DEF GroupInvariant, LocalsOK, Positional
<1> QED BY <1>1, <1>2, <1>3, <1>4, <1>5, <1>6, <1>7, <1>8, <1>9, <1>10 DEF Next

LEMMA GroupInvariantHolds ==
  Spec => []GroupInvariant
<1>1. Init => GroupInvariant
  BY GroupInit
<1>2. BindingInvariant /\ GroupInvariant /\ [Next]_vars => GroupInvariant'
  BY GroupNext
<1> QED BY <1>1, <1>2, BindingInvariantHolds, PTL DEF Spec

\* A value of several words is a list of words, whether they are those of "...", a
\* flag and its arguments, or what is passed on in $-* and $-?.
THEOREM SeveralWordsListedHolds ==
  Spec => []SeveralWordsListed
<1>1. GroupInvariant => SeveralWordsListed
  <2> SUFFICES ASSUME GroupInvariant, phase = "bound",
                      NEW n \in defined, Len(locals[n]) > 1
               PROVE  n \in listed
    BY DEF SeveralWordsListed
  <2> QED BY DEF GroupInvariant, LocalsOK
<1> QED BY <1>1, GroupInvariantHolds, PTL

\* The names of a group in a call that is accepted all have words, or none has, and
\* those of a required group have.
THEOREM GroupsWholeHolds ==
  Spec => []GroupsWhole
<1>1. BindingInvariant /\ GroupInvariant => GroupsWhole
  <2> SUFFICES ASSUME BindingInvariant, GroupInvariant, phase = "bound", errors = {},
                      NEW g \in Members(Positional) \cup proto.flags
               PROVE  LET names == Members(g.names) \ {""}
                      IN  /\ names \subseteq defined \/ names \cap defined = {}
                          /\ g.required => names \subseteq defined
    BY DEF GroupsWhole, Accepted
  <2>1. /\ GroupsSettled(proto, Len(Positional), defined, missing)
        /\ missing \subseteq {""} /\ ProtoOK(proto) /\ ProtoShape(proto)
    BY DEF GroupInvariant, BindingInvariant
  <2>2. ASSUME Settled(g, defined, missing) PROVE Members(g.names) \ {""} \subseteq defined
    BY <2>1, <2>2 DEF Settled
  <2>3. /\ GroupOK(g) /\ GroupShape(g)
        /\ Settled(g, defined, missing) \/ Untouched(g, defined)
        /\ g.required => Settled(g, defined, missing)
    <3>1. CASE g \in proto.flags
      BY <2>1, <3>1 DEF GroupsSettled, ProtoOK, ProtoShape, Shapes
    <3>2. CASE g \in Members(Positional)
      <4>1. Positional \in Seq(GroupType) /\ Positional = proto.positional
        BY <2>1, ProtoTyped DEF ProtoOK, Positional
      <4>2. PICK i \in 1 .. Len(Positional) : g = Positional[i]
        BY <3>2, <4>1 DEF Members
      <4> QED BY <2>1, <4>1, <4>2 DEF GroupsSettled, ProtoOK, ProtoShape, Shapes
    <3> QED BY <3>1, <3>2
  <2>4. CASE Len(g.names) > 1
    BY <2>2, <2>3, <2>4 DEF GroupShape, Untouched
  <2>5. CASE ~(Len(g.names) > 1)
    <3> DEFINE k == Len(g.names)
    <3>1. g.names \in Seq(Names) /\ k > 0
      BY <2>3 DEF GroupOK, GroupType
    <3>2. k \in Nat /\ DOMAIN g.names = 1 .. k
      BY <3>1
    <3>3. ~(k > 1)
      BY <2>5
    <3> HIDE DEF k
    <3>4. DOMAIN g.names = {1}
      BY <3>1, <3>2, <3>3
    <3>5. Members(g.names) = {g.names[1]}
      BY <3>4 DEF Members
    <3> QED BY <2>2, <2>3, <3>5
  <2> QED BY <2>4, <2>5
<1> QED BY <1>1, BindingInvariantHolds, GroupInvariantHolds, PTL

-----------------------------------------------------------------------------
\* Sequences of positions, one behind the other.

Increasing(s) == \A i, j \in DOMAIN s : i < j => s[i] < s[j]
Below(s, t) == \A x \in Members(s) : \A y \in Members(t) : x < y

LEMMA JoinIs ==
  ASSUME NEW s \in Seq(Int), NEW t \in Seq(Int)
  PROVE  /\ s \o t \in Seq(Int)
         /\ Members(s \o t) = Members(s) \cup Members(t)
         /\ Increasing(s) /\ Increasing(t) /\ Below(s, t) => Increasing(s \o t)
<1> DEFINE r == s \o t
           m == Len(s)
           n == Len(t)
<1>1. /\ m \in Nat /\ n \in Nat /\ DOMAIN s = 1 .. m /\ DOMAIN t = 1 .. n
      /\ r \in Seq(Int) /\ DOMAIN r = 1 .. m + n
      /\ \A i \in 1 .. m : r[i] = s[i]
      /\ \A i \in 1 .. n : r[m + i] = t[i]
  OBVIOUS
<1> HIDE DEF r, m, n
<1>2. ASSUME NEW i \in 1 .. m + n
      PROVE  \/ i \in 1 .. m /\ r[i] = s[i] /\ s[i] \in Members(s)
             \/ /\ i - m \in 1 .. n /\ r[i] = t[i - m] /\ t[i - m] \in Members(t)
                /\ i > m
  <2>1. CASE i <= m
    <3>1. i \in 1 .. m
      BY <1>1, <2>1
    <3>2. s[i] \in Members(s)
      BY <1>1, <3>1 DEF Members
    <3> QED BY <1>1, <3>1, <3>2
  <2>2. CASE i > m
    <3>1. i - m \in 1 .. n /\ i = m + (i - m)
      BY <1>1, <2>2
    <3> QED BY <1>1, <2>2, <3>1 DEF Members
  <2>3. i <= m \/ i > m
    BY <1>1
  <2> QED BY <2>1, <2>2, <2>3
<1>3. Members(r) = Members(s) \cup Members(t)
  <2>1. \A i \in 1 .. m : i \in 1 .. m + n
    BY <1>1
  <2>2. \A i \in 1 .. n : m + i \in 1 .. m + n
    BY <1>1
  <2>3. Members(s) \subseteq Members(r)
    BY <1>1, <2>1 DEF Members
  <2>4. Members(t) \subseteq Members(r)
    BY <1>1, <2>2 DEF Members
  <2>5. Members(r) \subseteq Members(s) \cup Members(t)
    BY <1>1, <1>2 DEF Members
  <2> QED BY <2>3, <2>4, <2>5
<1>4. ASSUME Increasing(s), Increasing(t), Below(s, t) PROVE Increasing(r)
  <2> SUFFICES ASSUME NEW i \in 1 .. m + n, NEW j \in 1 .. m + n, i < j
               PROVE  r[i] < r[j]
    BY <1>1 DEF Increasing
  <2>1. CASE i \in 1 .. m /\ j \in 1 .. m
    BY <1>1, <1>4, <2>1 DEF Increasing
  <2>2. CASE i \in 1 .. m /\ j > m
    BY <1>1, <1>2, <1>4, <2>2 DEF Below
  <2>3. CASE i > m /\ j > m
    <3>1. /\ i - m \in 1 .. n /\ j - m \in 1 .. n /\ i - m < j - m
          /\ r[i] = t[i - m] /\ r[j] = t[j - m]
      BY <1>1, <1>2, <2>3
    <3> QED BY <1>1, <1>4, <3>1 DEF Increasing
  <2> QED BY <1>1, <2>1, <2>2, <2>3
<1> QED BY <1>1, <1>3, <1>4 DEF r

\* FlattenSeq of the community modules, without its recursion.
LEMMA FlattenIs ==
  ASSUME NEW L \in Nat, NEW s \in [1 .. L -> Seq(Int)]
  PROVE  /\ FlattenSeq(s) \in Seq(Int)
         /\ Members(FlattenSeq(s)) = UNION {Members(s[i]) : i \in 1 .. L}
         /\ (\A i \in 1 .. L : Increasing(s[i]))
              /\ (\A i, j \in 1 .. L : i < j => Below(s[i], s[j]))
            => Increasing(FlattenSeq(s))
<1> DEFINE Step(f, n) == IF n = 1 THEN s[n] ELSE f[n - 1] \o s[n]
           Unfolds(f) == f = [n \in 1 .. L |-> Step(f, n)]
           flatten == CHOOSE f : Unfolds(f)
           Sorted == /\ \A i \in 1 .. L : Increasing(s[i])
                     /\ \A i, j \in 1 .. L : i < j => Below(s[i], s[j])
           Flat(n) == /\ flatten[n] \in Seq(Int)
                      /\ Members(flatten[n]) = UNION {Members(s[i]) : i \in 1 .. n}
                      /\ Sorted => Increasing(flatten[n])
<1>0. Len(s) = L
  OBVIOUS
<1>1. CASE L = 0
  <2>1. FlattenSeq(s) = s /\ s = << >>
    BY <1>0, <1>1 DEF FlattenSeq
  <2>2. << >> \in Seq(Int) /\ Members(<< >>) = {} /\ Increasing(<< >>) /\ 1 .. 0 = {}
    BY DEF Members, Increasing
  <2>3. UNION {Members(s[i]) : i \in 1 .. L} = {}
    BY <1>1, <2>2
  <2> QED BY <2>1, <2>2, <2>3
<1>2. CASE L # 0
  <2>1. FlattenSeq(s) = flatten[L]
    BY <1>0, <1>2 DEF FlattenSeq
  <2>2. \E f : Unfolds(f)
    <3> DEFINE Partial(f, n) == \A m \in 1 .. n : f[m] = Step(f, m)
               S == {n \in Nat : n <= L => \E f \in [1 .. n -> Seq(Int)] : Partial(f, n)}
    <3>1. 0 \in S
      <4>1. [m \in 1 .. 0 |-> << >>] \in [1 .. 0 -> Seq(Int)]
        OBVIOUS
      <4>2. Partial([m \in 1 .. 0 |-> << >>], 0)
        OBVIOUS
      <4> QED BY <4>1, <4>2
    <3>2. ASSUME NEW n \in S PROVE n + 1 \in S
      <4>1. SUFFICES ASSUME n + 1 <= L
                     PROVE  \E g \in [1 .. n + 1 -> Seq(Int)] : Partial(g, n + 1)
        <5> HIDE DEF Partial
        <5> QED BY <3>2
      <4>0. n \in Nat
        OBVIOUS
      <4>2. PICK f \in [1 .. n -> Seq(Int)] : Partial(f, n)
        BY <4>0, <4>1
      <4> DEFINE g == [m \in 1 .. n + 1 |-> IF m <= n THEN f[m] ELSE Step(f, n + 1)]
      <4>3. Step(f, n + 1) \in Seq(Int)
        <5>1. s[n + 1] \in Seq(Int)
          BY <4>0, <4>1
        <5>2. n # 0 => f[n] \in Seq(Int)
          BY <4>0, <4>2
        <5>3. n # 0 => f[n] \o s[n + 1] \in Seq(Int)
          BY <5>1, <5>2
        <5>4. Step(f, n + 1) = IF n = 0 THEN s[n + 1] ELSE f[n] \o s[n + 1]
          BY <4>0
        <5> HIDE DEF Step
        <5> QED BY <5>1, <5>3, <5>4
      <4>4. g \in [1 .. n + 1 -> Seq(Int)]
        <5> HIDE DEF Step
        <5> QED BY <4>0, <4>2, <4>3
      <4>5. ASSUME NEW m \in 1 .. n + 1 PROVE g[m] = Step(g, m)
        <5>1. CASE m <= n
          <6>1. g[m] = Step(f, m)
            <7> HIDE DEF Step
            <7> QED BY <4>0, <4>2, <5>1
          <6>2. m # 1 => g[m - 1] = f[m - 1]
            BY <4>0, <5>1
          <6> QED BY <6>1, <6>2
        <5>2. CASE m = n + 1
          <6>1. g[m] = Step(f, m) /\ (m # 1 => g[m - 1] = f[m - 1])
            BY <4>0, <5>2
          <6> QED BY <6>1
        <5> QED BY <4>0, <5>1, <5>2
      <4> HIDE DEF g
      <4> QED BY <4>4, <4>5
    <3>3. S = Nat
      <4> HIDE DEF S
      <4>1. S \in SUBSET Nat
        BY DEF S
      <4> QED BY <3>1, <3>2, <4>1, InductionOnSet
    <3>4. PICK f \in [1 .. L -> Seq(Int)] : Partial(f, L)
      <4>1. L \in S
        BY <3>3
      <4> QED BY <4>1
    <3>5. f = [n \in 1 .. L |-> Step(f, n)]
      <4> HIDE DEF Step
      <4>1. \A n \in 1 .. L : f[n] = Step(f, n)
        BY <3>4
      <4> QED BY <3>4, <4>1
    <3> QED BY <3>5
  <2>3. Unfolds(flatten)
    <3> HIDE DEF Unfolds
    <3> QED BY <2>2
  <2>4. \A n \in 1 .. L : flatten[n] = IF n = 1 THEN s[n] ELSE flatten[n - 1] \o s[n]
    <3> HIDE DEF flatten
    <3> QED BY <2>3
  <2> HIDE DEF flatten
  <2> DEFINE S == {n \in Nat : n + 1 <= L => Flat(n + 1)}
  <2>5. 0 \in S
    <3>1. flatten[1] = s[1] /\ s[1] \in Seq(Int) /\ 1 \in 1 .. L
      BY <1>2, <2>4
    <3>2. UNION {Members(s[i]) : i \in 1 .. 1} = Members(s[1])
      OBVIOUS
    <3>3. Flat(1)
      BY <3>1, <3>2
    <3> HIDE DEF Flat
    <3>4. 0 + 1 = 1
      OBVIOUS
    <3> QED BY <3>3, <3>4
  <2>6. ASSUME NEW n \in S PROVE n + 1 \in S
    <3>0. n \in Nat
      OBVIOUS
    <3>1. SUFFICES ASSUME n + 2 <= L PROVE Flat(n + 2)
      <4> HIDE DEF Flat
      <4>1. (n + 1) + 1 = n + 2 /\ n + 1 \in Nat
        BY <3>0
      <4> QED BY <4>1
    <3>2. Flat(n + 1)
      <4> HIDE DEF Flat
      <4>1. n + 1 <= L
        BY <3>0, <3>1
      <4> QED BY <4>1
    <3> DEFINE a == flatten[n + 1]
               b == s[n + 2]
    <3>3. flatten[n + 2] = a \o b /\ a \in Seq(Int) /\ b \in Seq(Int)
      <4>1. n + 2 \in 1 .. L /\ n + 2 # 1 /\ (n + 2) - 1 = n + 1
        BY <3>0, <3>1
      <4> QED BY <2>4, <3>2, <4>1
    <3>4. Members(a) = UNION {Members(s[i]) : i \in 1 .. n + 1}
      BY <3>2
    <3>5. UNION {Members(s[i]) : i \in 1 .. n + 2} = Members(a) \cup Members(b)
      <4> DEFINE T == 1 .. n + 1
                 U == 1 .. n + 2
      <4>1. U = T \cup {n + 2}
        BY <3>0
      <4> HIDE DEF T, U
      <4>2. UNION {Members(s[i]) : i \in U} =
              (UNION {Members(s[i]) : i \in T}) \cup Members(s[n + 2])
        BY <4>1
      <4> QED BY <3>4, <4>2 DEF T, U
    <3>6. ASSUME Sorted PROVE Increasing(a) /\ Increasing(b) /\ Below(a, b)
      <4>1. n + 2 \in 1 .. L /\ \A i \in 1 .. n + 1 : i \in 1 .. L /\ i < n + 2
        BY <3>0, <3>1
      <4>2. Increasing(a) /\ Increasing(b)
        BY <3>2, <3>6, <4>1
      <4>3. ASSUME NEW x \in Members(a), NEW y \in Members(b) PROVE x < y
        <5>1. PICK i \in 1 .. n + 1 : x \in Members(s[i])
          BY <3>4
        <5>2. Below(s[i], b)
          BY <3>6, <4>1
        <5> QED BY <5>1, <5>2 DEF Below
      <4> QED BY <4>2, <4>3 DEF Below
    <3> HIDE DEF a, b
    <3>7. /\ a \o b \in Seq(Int) /\ Members(a \o b) = Members(a) \cup Members(b)
          /\ Sorted => Increasing(a \o b)
      <4> HIDE DEF Sorted
      <4> QED BY <3>3, <3>6, JoinIs
    <3> HIDE DEF Sorted
    <3> QED BY <3>3, <3>5, <3>7
  <2>7. S = Nat
    <3> HIDE DEF S
    <3>1. S \in SUBSET Nat
      BY DEF S
    <3> QED BY <2>5, <2>6, <3>1, InductionOnSet
  <2>8. Flat(L)
    <3> HIDE DEF Flat
    <3>1. L - 1 \in Nat /\ (L - 1) + 1 = L
      BY <1>2
    <3>2. (L - 1) + 1 <= L => Flat((L - 1) + 1)
      BY <2>7, <3>1
    <3> QED BY <3>1, <3>2
  <2> HIDE DEF Sorted
  <2>9. /\ FlattenSeq(s) \in Seq(Int)
        /\ Members(FlattenSeq(s)) = UNION {Members(s[i]) : i \in 1 .. L}
        /\ Sorted => Increasing(FlattenSeq(s))
    BY <2>1, <2>8
  <2> QED BY <2>9 DEF Sorted
<1> QED BY <1>1, <1>2

-----------------------------------------------------------------------------
\* What the order of the words rests on: a name stands in one place, and "..."
\* stands behind a name or in front of the group that follows it.

Distinct(s) == \A k, l \in DOMAIN s : s[k] = s[l] => k = l
Own(g) == Members(g.names) \cap Convenience = {}

OpensAfter(s, name) ==
  \A i \in 1 .. Len(s) :
    s[i].elipsis = 0 => i - 1 \in 1 .. Len(s) /\ name = LastOf(s[i - 1].names)

OrderShape(p) ==
  /\ \A i \in 1 .. Len(p.positional) :
       Distinct(p.positional[i].names) /\ Own(p.positional[i])
  /\ \A g \in p.flags : Own(g)
  /\ OpensAfter(p.positional, p.elipsis)

\* No convenience variable stands behind "..." between brackets.  (The constructor
\* takes one there for a positional parameter.)
NoDashesBehind ==
  \A g \in Groups : g.elipsis = 0 => Own(g)

LEMMA DistinctIs ==
  ASSUME NEW S, NEW s \in Seq(S), Cardinality(Members(s)) = Len(s)
  PROVE  Distinct(s)
<1> DEFINE n == Len(s)
           T == Members(s)
<1>1. n \in Nat /\ DOMAIN s = 1 .. n /\ s = [k \in 1 .. n |-> s[k]]
  OBVIOUS
<1>2. \A k \in 1 .. n : s[k] \in T
  BY <1>1 DEF Members
<1>3. \A x \in T : \E k \in 1 .. n : s[k] = x
  BY <1>1 DEF Members
<1> HIDE DEF n, T
<1>4. s \in Surjection(1 .. n, T)
  BY <1>1, <1>2, <1>3 DEF Surjection
<1>5. IsFiniteSet(1 .. n) /\ Cardinality(1 .. n) = n
  <2>1. IsFiniteSet(1 .. n)
    BY <1>1, FS_Interval
  <2>2. Cardinality(1 .. n) = IF 1 > n THEN 0 ELSE n - 1 + 1
    <3>1. 1 \in Int /\ n \in Int
      BY <1>1
    <3> QED BY <3>1, FS_Interval, Zenon
  <2>3. (IF 1 > n THEN 0 ELSE n - 1 + 1) = n
    BY <1>1
  <2> QED BY <2>1, <2>2, <2>3
<1>6. Cardinality(T) = n
  BY DEF T, n
<1>7. s \in Injection(1 .. n, T)
  BY <1>4, <1>5, <1>6, FS_SurjSameCardinalityImpliesInj
<1> QED BY <1>1, <1>7 DEF Injection, IsInjective, Distinct

LEMMA FitsOwn ==
  ASSUME NoDashesBehind, NEW p, NEW g \in Groups, NamesFit(p, g), g.names # << >>,
         ~IsDashDash(g), ~IsDashStar(g)
  PROVE  Own(g)
<1>1. CASE g.elipsis = 0
  BY <1>1 DEF NoDashesBehind
<1>2. CASE Len(g.names) > 1
  BY <1>2 DEF NamesFit, Own
<1>3. CASE g.elipsis # 0 /\ ~(Len(g.names) > 1)
  <2> DEFINE k == Len(g.names)
  <2>1. g.names \in Seq(Names)
    BY GroupsTyped
  <2>2. k \in Nat /\ DOMAIN g.names = 1 .. k /\ k # 0
    BY <2>1
  <2>3. ~(k > 1)
    BY <1>3
  <2> HIDE DEF k
  <2>4. DOMAIN g.names = {1}
    BY <2>2, <2>3
  <2>5. Members(g.names) = {g.names[1]}
    BY <2>4 DEF Members
  <2>6. g.names[1] \notin {"--", "-*", "-?"}
    BY <1>3 DEF IsDashDash, IsDashStar
  <2> QED BY <2>5, <2>6 DEF Own, Convenience
<1> QED BY <1>1, <1>2, <1>3

\* Once there is a "...", the name in front of it stays.
LEMMA OpeningKept ==
  ASSUME NEW p, ProtoShape(p), OrderShape(p), NEW g, NamesFit(p, g)
  PROVE  OpensAfter(p.positional, NameOfElipsis(p, g))
<1> SUFFICES ASSUME NEW i \in 1 .. Len(p.positional), p.positional[i].elipsis = 0
             PROVE  /\ i - 1 \in 1 .. Len(p.positional)
                    /\ NameOfElipsis(p, g) = LastOf(p.positional[i - 1].names)
  BY DEF OpensAfter
<1>1. p.elided
  BY DEF ProtoShape, NoElipsis
<1>2. g.elipsis = NoElipsis
  BY <1>1 DEF NamesFit
<1>3. NameOfElipsis(p, g) = p.elipsis
  BY <1>2 DEF NameOfElipsis, NoElipsis
<1> QED BY <1>3 DEF OrderShape, OpensAfter

LEMMA DeclareOrder ==
  ASSUME NoDashesBehind, NEW p, ProtoOK(p), ProtoShape(p), OrderShape(p),
         NEW g \in Groups, NamesFit(p, g), PlaceFits(p, g)
  PROVE  OrderShape(WithGroup(Named(p, g), g))
<1> DEFINE q == Named(p, g)
           r == WithGroup(q, g)
           s == p.positional
           F == p.flags
           e == NameOfElipsis(p, g)
<1> SUFFICES OrderShape(r)
  OBVIOUS
<1>1. p \in Prototypes /\ s \in Seq(GroupType) /\ F \subseteq GroupType
  BY ProtoTyped DEF ProtoOK
<1>2. /\ Fields(q, s, F, p.names \cup Members(g.names), e,
                p.elided \/ g.elipsis # NoElipsis)
      /\ q \in Prototypes
  BY <1>1, NamedIs, NamedOK DEF NameOfElipsis
<1> HIDE DEF q
<1>3. /\ r.elipsis = e
      /\ \/ g.names = << >> /\ Opened(s, r.positional, F, r.flags)
         \/ r.positional = s /\ r.flags = F
         \/ IsFlagGroup(g) /\ r.positional = s /\ r.flags = F \cup {g}
         \/ /\ g.names # << >> /\ ~IsDashDash(g) /\ ~IsDashStar(g)
            /\ r.positional = Append(s, g) /\ r.flags = F
  BY <1>2, WithGroupIs DEF Fields, Nothing
<1> HIDE DEF r
<1>4. OpensAfter(s, e)
  BY OpeningKept
<1>5. g \in GroupType /\ Distinct(g.names)
  <2>1. g.names \in Seq(Names) /\ g \in GroupType
    BY GroupsTyped
  <2> QED BY <2>1, DistinctIs DEF NamesFit
<1>6. /\ \A i \in 1 .. Len(s) : Distinct(s[i].names) /\ Own(s[i])
      /\ \A h \in F : Own(h)
      /\ ~p.elided => \A i \in 1 .. Len(s) : s[i].elipsis = NoElipsis
  BY DEF OrderShape, ProtoShape
<1>7. CASE g.names = << >> /\ Opened(s, r.positional, F, r.flags)
  <2> DEFINE t == r.positional
  <2>1. s # << >> /\ ~p.elided /\ g.elipsis = 0
    BY <1>7, GroupsTyped DEF PlaceFits, NamesFit, NoElipsis
  <2>2. /\ Alike(s, t) /\ Len(s) \in Nat \ {0}
        /\ \A i \in 1 .. Len(s) : i # Len(s) => t[i] = s[i]
        /\ t[Len(s)].elipsis = Len(s[Len(s)].names)
        /\ r.flags = F
    BY <1>1, <1>7, <2>1, OpenedAlike DEF Opened
  <2>3. \A i \in 1 .. Len(t) : Distinct(t[i].names) /\ Own(t[i])
    BY <1>6, <2>2 DEF Alike, Own
  <2>4. ASSUME NEW i \in 1 .. Len(t), t[i].elipsis = 0 PROVE FALSE
    <3>1. i \in 1 .. Len(s)
      BY <2>2 DEF Alike
    <3>2. CASE i = Len(s)
      <4>1. GroupOK(s[i])
        BY <3>1 DEF ProtoOK
      <4> QED BY <2>2, <2>4, <3>2, <4>1 DEF GroupOK
    <3>3. CASE i # Len(s)
      <4>1. t[i] = s[i] /\ s[i].elipsis = NoElipsis
        BY <1>6, <2>1, <2>2, <3>1, <3>3
      <4> QED BY <2>4, <4>1 DEF NoElipsis
    <3> QED BY <3>2, <3>3
  <2>5. OpensAfter(t, r.elipsis)
    BY <2>4 DEF OpensAfter
  <2> QED BY <1>6, <2>2, <2>3, <2>5 DEF OrderShape
<1>8. CASE r.positional = s /\ r.flags = F
  BY <1>3, <1>4, <1>6, <1>8 DEF OrderShape
<1>9. CASE IsFlagGroup(g) /\ r.positional = s /\ r.flags = F \cup {g}
  <2>1. g.names # << >> /\ ~IsDashDash(g) /\ ~IsDashStar(g)
    BY <1>9, OneKind
  <2>2. Own(g)
    BY <2>1, FitsOwn
  <2> QED BY <1>3, <1>4, <1>6, <1>9, <2>2 DEF OrderShape
<1>10. CASE /\ g.names # << >> /\ ~IsDashDash(g) /\ ~IsDashStar(g)
            /\ r.positional = Append(s, g) /\ r.flags = F
  <2> DEFINE t == r.positional
             n == Len(s)
  <2>1. /\ n \in Nat /\ Len(t) = n + 1 /\ t[n + 1] = g
        /\ \A i \in 1 .. n : t[i] = s[i]
    BY <1>1, <1>5, <1>10, AppendIs
  <2>2. Own(g)
    BY <1>10, FitsOwn
  <2>3. ASSUME NEW i \in 1 .. Len(t)
        PROVE  (i \in 1 .. n /\ t[i] = s[i]) \/ (i = n + 1 /\ t[i] = g)
    BY <2>1
  <2>4. g.elipsis = 0 => n # 0 /\ e = LastOf(s[n].names)
    <3>1. g.elipsis = 0 => s # << >>
      BY DEF PlaceFits
    <3>2. s # << >> => Len(s) # 0
      BY <1>1
    <3> QED BY <3>1, <3>2 DEF NameOfElipsis, LastOf
  <2> HIDE DEF t, n, e
  <2>5. OpensAfter(t, e)
    <3> SUFFICES ASSUME NEW i \in 1 .. Len(t), t[i].elipsis = 0
                 PROVE  i - 1 \in 1 .. Len(t) /\ e = LastOf(t[i - 1].names)
      BY DEF OpensAfter
    <3>1. CASE i \in 1 .. n /\ t[i] = s[i]
      <4>1. i - 1 \in 1 .. n /\ e = LastOf(s[i - 1].names)
        BY <1>4, <3>1 DEF OpensAfter, n
      <4> QED BY <2>1, <4>1
    <3>2. CASE i = n + 1 /\ t[i] = g
      <4>1. n # 0 /\ e = LastOf(s[n].names) /\ i - 1 = n /\ n \in 1 .. n
        BY <2>1, <2>4, <3>2
      <4> QED BY <2>1, <4>1
    <3> QED BY <2>3, <3>1, <3>2
  <2>6. \A i \in 1 .. Len(t) : Distinct(t[i].names) /\ Own(t[i])
    <3>1. \A i \in 1 .. n : Distinct(s[i].names) /\ Own(s[i])
      BY <1>6 DEF n
    <3> QED BY <1>5, <2>2, <2>3, <3>1
  <2> QED BY <1>3, <1>6, <1>10, <2>5, <2>6 DEF OrderShape, t
<1> QED BY <1>3, <1>7, <1>8, <1>9, <1>10

-----------------------------------------------------------------------------
\* Where the words are.

Before(i, k, j, l) == i < j \/ (i = j /\ k < l)
InOrder(value, a) == Increasing(value) /\ Members(value) \subseteq 1 .. a - 1

\* The words up to a are in the values of the groups s and in that of passed, each in
\* one of them; L are the values.
Placed(s, L, passed, a) ==
  /\ \A i \in 1 .. Len(s) : \A k \in DOMAIN s[i].names :
       /\ InOrder(L[s[i].names[k]], a)
       /\ Members(L[s[i].names[k]]) \cap Members(L[passed]) = {}
  /\ \A i, j \in 1 .. Len(s) : \A k \in DOMAIN s[i].names : \A l \in DOMAIN s[j].names :
       Before(i, k, j, l) => Below(L[s[i].names[k]], L[s[j].names[l]])
  /\ InOrder(L[passed], a)
  /\ \A x \in 1 .. a - 1 :
       \/ x \in Members(L[passed])
       \/ \E i \in 1 .. Len(s) : \E k \in DOMAIN s[i].names : x \in Members(L[s[i].names[k]])

\* The groups from n on have no words yet.
EmptyFrom(s, n, L) ==
  \A i \in 1 .. Len(s) : i >= n => \A k \in DOMAIN s[i].names : L[s[i].names[k]] = << >>

LEMMA PositionsAre ==
  ASSUME NEW a \in Int, NEW b \in Int
  PROVE  /\ Positions(a, b) \in Seq(Int) /\ Increasing(Positions(a, b))
         /\ Members(Positions(a, b)) = a .. b
<1> DEFINE n == b - a + 1
           s == [i \in 1 .. n |-> a + i - 1]
<1>1. s \in Seq(Int)
  BY PositionsIs DEF Positions
<1>2. DOMAIN s = 1 .. n /\ \A i \in 1 .. n : s[i] = a + i - 1
  OBVIOUS
<1> HIDE DEF s
<1>3. Increasing(s)
  BY <1>2 DEF Increasing
<1>4. ASSUME NEW x \in Members(s) PROVE x \in a .. b
  BY <1>2 DEF Members
<1>5. ASSUME NEW x \in a .. b PROVE x \in Members(s)
  <2>1. x - a + 1 \in 1 .. n /\ a + (x - a + 1) - 1 = x
    OBVIOUS
  <2> HIDE DEF n
  <2>2. s[x - a + 1] = x
    BY <1>2, <2>1
  <2> QED BY <1>2, <2>1, <2>2 DEF Members
<1>6. Members(s) = a .. b
  BY <1>4, <1>5
<1> QED BY <1>1, <1>3, <1>6 DEF Positions, s, n

\* More words, t, at the end of a value, s.
Continues(s, t, a, b) ==
  /\ a \in Int /\ b \in Int /\ 1 <= a /\ a <= b
  /\ s \in Seq(Int) /\ InOrder(s, a)
  /\ t \in Seq(Int) /\ Increasing(t) /\ Members(t) \subseteq a .. b - 1

LEMMA InOrderMore ==
  ASSUME NEW s, NEW t, NEW a, NEW b, Continues(s, t, a, b)
  PROVE  InOrder(s \o t, b) /\ Members(s \o t) = Members(s) \cup Members(t)
<1> USE DEF Continues
<1>1. ASSUME NEW x \in Members(s), NEW y \in Members(t) PROVE x < y
  <2>1. x \in 1 .. a - 1 /\ y \in a .. b - 1
    BY DEF InOrder
  <2> QED BY <2>1
<1>2. Below(s, t)
  BY <1>1 DEF Below
<1>3. Members(s) \subseteq 1 .. b - 1 /\ Members(t) \subseteq 1 .. b - 1
  <2>1. 1 .. a - 1 \subseteq 1 .. b - 1 /\ a .. b - 1 \subseteq 1 .. b - 1
    OBVIOUS
  <2> QED BY <2>1 DEF InOrder
<1> QED BY <1>2, <1>3, JoinIs DEF InOrder

LEMMA InOrderStays ==
  ASSUME NEW a \in Int, NEW b \in Int, a <= b, NEW s, InOrder(s, a)
  PROVE  InOrder(s, b)
<1>1. 1 .. a - 1 \subseteq 1 .. b - 1
  OBVIOUS
<1> QED BY <1>1 DEF InOrder

\* The words from a on, up to b, are passed on.
PassesWords(s, L, M, passed, a, b, t) ==
  /\ a \in Int /\ b \in Int /\ 1 <= a /\ a <= b
  /\ Placed(s, L, passed, a) /\ L[passed] \in Seq(Int)
  /\ t \in Seq(Int) /\ Increasing(t) /\ Members(t) = a .. b - 1
  /\ M[passed] = L[passed] \o t
  /\ \A i \in 1 .. Len(s) : \A k \in DOMAIN s[i].names :
       /\ M[s[i].names[k]] = L[s[i].names[k]]
       /\ L[s[i].names[k]] \in Seq(Int)

LEMMA PassedMore ==
  ASSUME NEW s, NEW L, NEW M, NEW P, NEW a, NEW b, NEW t, PassesWords(s, L, M, P, a, b, t)
  PROVE  Placed(s, M, P, b)
<1> USE DEF PassesWords
<1>1. /\ InOrder(M[P], b) /\ Members(M[P]) = Members(L[P]) \cup Members(t)
  <2> DEFINE v == L[P]
  <2>1. Continues(v, t, a, b)
    BY DEF Placed, Continues
  <2>2. M[P] = v \o t
    OBVIOUS
  <2> HIDE DEF v
  <2>3. InOrder(v \o t, b) /\ Members(v \o t) = Members(v) \cup Members(t)
    BY <2>1, InOrderMore
  <2> QED BY <2>2, <2>3 DEF v
<1>2. ASSUME NEW i \in 1 .. Len(s), NEW k \in DOMAIN s[i].names
      PROVE  /\ InOrder(M[s[i].names[k]], b)
             /\ Members(M[s[i].names[k]]) \cap Members(M[P]) = {}
  <2> DEFINE v == L[s[i].names[k]]
  <2>1. M[s[i].names[k]] = v /\ v \in Seq(Int) /\ InOrder(v, a)
        /\ Members(v) \cap Members(L[P]) = {}
    BY DEF Placed
  <2> HIDE DEF v
  <2>2. InOrder(v, b)
    BY <2>1, InOrderStays
  <2>3. Members(v) \cap Members(t) = {}
    <3>1. Members(v) \subseteq 1 .. a - 1
      BY <2>1 DEF InOrder
    <3>2. (1 .. a - 1) \cap (a .. b - 1) = {}
      OBVIOUS
    <3> QED BY <3>1, <3>2
  <2> QED BY <1>1, <2>1, <2>2, <2>3
<1>3. ASSUME NEW x \in 1 .. b - 1
      PROVE  \/ x \in Members(M[P])
             \/ \E i \in 1 .. Len(s) : \E k \in DOMAIN s[i].names :
                  x \in Members(M[s[i].names[k]])
  <2>1. CASE x <= a - 1
    <3>1. x \in 1 .. a - 1
      BY <2>1
    <3> QED BY <1>1, <3>1 DEF Placed
  <2>2. CASE x > a - 1
    <3>1. x \in a .. b - 1
      BY <2>2
    <3> QED BY <1>1, <3>1
  <2> QED BY <2>1, <2>2
<1>4. ASSUME NEW i \in 1 .. Len(s), NEW j \in 1 .. Len(s),
             NEW k \in DOMAIN s[i].names, NEW l \in DOMAIN s[j].names, Before(i, k, j, l)
      PROVE  Below(M[s[i].names[k]], M[s[j].names[l]])
  <2>1. Below(L[s[i].names[k]], L[s[j].names[l]])
    BY <1>4 DEF Placed
  <2> QED BY <2>1
<1> QED BY <1>1, <1>2, <1>3, <1>4 DEF Placed

\* The group n takes the words from a on, up to b: the first of them, B, for "..." at
\* the end of the group before, then W[k] for its name k.
TakesWords(s, L, M, passed, a, b, n, last, B, W) ==
  /\ a \in Int /\ b \in Int /\ 1 <= a /\ a <= b
  /\ Placed(s, L, passed, a) /\ M[passed] = L[passed] /\ L[passed] \in Seq(Int)
  /\ Len(s) \in Nat /\ n \in 1 .. Len(s) /\ EmptyFrom(s, n, L)
  /\ B \in Seq(Int) /\ W \in [DOMAIN s[n].names -> Seq(Int)]
  /\ \A i \in 1 .. Len(s) : DOMAIN s[i].names \subseteq Int
  /\ \A i \in 1 .. Len(s) : \A k \in DOMAIN s[i].names :
       /\ L[s[i].names[k]] \in Seq(Int)
       /\ i # n => M[s[i].names[k]] = IF i = n - 1 /\ k = last
                                      THEN L[s[i].names[k]] \o B ELSE L[s[i].names[k]]
  /\ \A k \in DOMAIN s[n].names : M[s[n].names[k]] = W[k]
  /\ n - 1 \in 1 .. Len(s) =>
       last \in DOMAIN s[n - 1].names /\ \A k \in DOMAIN s[n - 1].names : k <= last
  /\ n - 1 \notin 1 .. Len(s) => Members(B) = {}
  /\ Increasing(B) /\ \A k \in DOMAIN s[n].names : Increasing(W[k]) /\ Below(B, W[k])
  /\ \A k, l \in DOMAIN s[n].names : k < l => Below(W[k], W[l])
  /\ Members(B) \cup UNION {Members(W[k]) : k \in DOMAIN s[n].names} = a .. b - 1

LEMMA TakenMore ==
  ASSUME NEW s, NEW L, NEW M, NEW P, NEW a, NEW b, NEW n, NEW last, NEW B, NEW W,
         TakesWords(s, L, M, P, a, b, n, last, B, W)
  PROVE  Placed(s, M, P, b) /\ EmptyFrom(s, n + 1, M)
<1> USE DEF TakesWords
<1> DEFINE Name(i, k) == s[i].names[k]
           New(i, k) == IF i = n THEN Members(W[k])
                        ELSE IF i = n - 1 /\ k = last THEN Members(B) ELSE {}
<1>1. /\ Members(B) \subseteq a .. b - 1
      /\ \A k \in DOMAIN s[n].names : Members(W[k]) \subseteq a .. b - 1
  OBVIOUS
<1>2. Members(<< >>) = {} /\ Increasing(<< >>)
  BY DEF Members, Increasing
<1>3. ASSUME NEW i \in 1 .. Len(s), NEW k \in DOMAIN s[i].names
      PROVE  /\ Members(M[Name(i, k)]) = Members(L[Name(i, k)]) \cup New(i, k)
             /\ InOrder(M[Name(i, k)], b) /\ New(i, k) \subseteq a .. b - 1
             /\ i >= n => Members(L[Name(i, k)]) = {}
             /\ Members(L[Name(i, k)]) \subseteq 1 .. a - 1
             /\ Members(L[Name(i, k)]) \cap Members(L[P]) = {}
  <2> DEFINE v == L[Name(i, k)]
             w == M[Name(i, k)]
  <2>1. /\ v \in Seq(Int) /\ InOrder(v, a) /\ (i >= n => v = << >>)
        /\ Members(v) \cap Members(L[P]) = {}
    BY DEF Placed, EmptyFrom
  <2>2. i >= n => Members(v) = {}
    BY <1>2, <2>1
  <2>3. Members(v) \subseteq 1 .. a - 1
    BY <2>1 DEF InOrder
  <2>4. CASE i = n
    <3>1. w = W[k] /\ W[k] \in Seq(Int) /\ Increasing(W[k]) /\ New(i, k) = Members(W[k])
      BY <2>4
    <3>2. Members(W[k]) \subseteq a .. b - 1 /\ a .. b - 1 \subseteq 1 .. b - 1
      BY <1>1, <2>4
    <3>3. i >= n
      BY <2>4
    <3> HIDE DEF v, w, New
    <3> QED BY <2>1, <2>2, <2>3, <3>1, <3>2, <3>3 DEF v, w, InOrder
  <2>5. CASE i # n /\ i = n - 1 /\ k = last
    <3>1. w = v \o B /\ New(i, k) = Members(B)
      BY <2>5
    <3> HIDE DEF v, w, New
    <3>2. InOrder(w, b) /\ Members(w) = Members(v) \cup Members(B)
      <4>1. Continues(v, B, a, b)
        BY <1>1, <2>1 DEF Continues
      <4> QED BY <3>1, <4>1, InOrderMore
    <3> QED BY <1>1, <2>1, <2>2, <2>3, <3>1, <3>2 DEF v, w
  <2>6. CASE i # n /\ ~(i = n - 1 /\ k = last)
    <3>1. w = v /\ New(i, k) = {}
      BY <2>6
    <3> HIDE DEF v, w, New
    <3>2. InOrder(w, b)
      BY <2>1, <3>1, InOrderStays
    <3> QED BY <2>1, <2>2, <2>3, <3>1, <3>2 DEF v, w
  <2> QED BY <2>4, <2>5, <2>6
<1>4. ASSUME NEW i \in 1 .. Len(s), NEW k \in DOMAIN s[i].names
      PROVE  Members(M[Name(i, k)]) \cap Members(M[P]) = {}
  <2>1. Members(L[P]) \subseteq 1 .. a - 1
    BY DEF Placed, InOrder
  <2>2. (1 .. a - 1) \cap (a .. b - 1) = {}
    OBVIOUS
  <2>3. /\ Members(M[Name(i, k)]) = Members(L[Name(i, k)]) \cup New(i, k)
        /\ New(i, k) \subseteq a .. b - 1
        /\ Members(L[Name(i, k)]) \cap Members(L[P]) = {}
    BY <1>3
  <2> HIDE DEF New, Name
  <2> QED BY <2>1, <2>2, <2>3
<1>5. InOrder(M[P], b)
  BY InOrderStays DEF Placed
<1>6. ASSUME NEW i \in 1 .. Len(s), NEW j \in 1 .. Len(s),
             NEW k \in DOMAIN s[i].names, NEW l \in DOMAIN s[j].names, Before(i, k, j, l)
      PROVE  Below(M[Name(i, k)], M[Name(j, l)])
  <2> SUFFICES ASSUME NEW x \in Members(M[Name(i, k)]), NEW y \in Members(M[Name(j, l)])
               PROVE  x < y
    BY DEF Below
  <2>1. /\ x \in Members(L[Name(i, k)]) \/ x \in New(i, k)
        /\ y \in Members(L[Name(j, l)]) \/ y \in New(j, l)
    BY <1>3
  <2>2. CASE x \in Members(L[Name(i, k)]) /\ y \in Members(L[Name(j, l)])
    <3>1. Below(L[Name(i, k)], L[Name(j, l)])
      BY <1>6 DEF Placed
    <3> QED BY <2>2, <3>1 DEF Below
  <2>3. CASE x \in Members(L[Name(i, k)]) /\ y \in New(j, l)
    <3>1. x \in 1 .. a - 1 /\ y \in a .. b - 1
      BY <1>3, <2>3
    <3> QED BY <3>1
  <2>4. CASE x \in New(i, k)
    <3>1. i = n \/ (i = n - 1 /\ k = last /\ i # n)
      BY <2>4
    <3>2. k \in Int /\ l \in Int /\ i \in Int /\ j \in Int /\ n \in Int
      OBVIOUS
    <3>3. j >= n
      <4>1. CASE i = n
        BY <1>6, <3>2, <4>1 DEF Before
      <4>2. CASE i = n - 1 /\ k = last /\ i # n
        <5>1. j = i => l <= k
          BY <4>2
        <5> QED BY <1>6, <3>2, <4>2, <5>1 DEF Before
      <4> QED BY <3>1, <4>1, <4>2
    <3>4. y \in New(j, l)
      BY <1>3, <2>1, <3>3
    <3>5. j = n /\ y \in Members(W[l])
      BY <3>2, <3>3, <3>4
    <3>6. CASE i = n
      <4>1. k < l /\ x \in Members(W[k])
        BY <1>6, <2>4, <3>2, <3>5, <3>6 DEF Before
      <4>2. Below(W[k], W[l])
        BY <3>5, <3>6, <4>1
      <4> QED BY <3>5, <4>1, <4>2 DEF Below
    <3>7. CASE i = n - 1 /\ k = last /\ i # n
      <4>1. x \in Members(B)
        BY <2>4, <3>7
      <4>2. Below(B, W[l])
        BY <3>5
      <4> QED BY <3>5, <4>1, <4>2 DEF Below
    <3> QED BY <3>1, <3>6, <3>7
  <2> QED BY <2>1, <2>2, <2>3, <2>4
<1>7. ASSUME NEW x \in 1 .. b - 1
      PROVE  \/ x \in Members(M[P])
             \/ \E i \in 1 .. Len(s) : \E k \in DOMAIN s[i].names :
                  x \in Members(M[Name(i, k)])
  <2>1. CASE x <= a - 1
    <3>1. x \in 1 .. a - 1
      BY <2>1
    <3>2. \/ x \in Members(L[P])
          \/ \E i \in 1 .. Len(s) : \E k \in DOMAIN s[i].names : x \in Members(L[Name(i, k)])
      BY <3>1 DEF Placed
    <3> HIDE DEF Name, New
    <3> QED BY <1>3, <3>2
  <2>2. CASE x > a - 1 /\ x \in Members(B)
    <3>1. n - 1 \in 1 .. Len(s) /\ n - 1 # n
      BY <2>2
    <3>2. last \in DOMAIN s[n - 1].names /\ New(n - 1, last) = Members(B)
      BY <3>1
    <3> HIDE DEF Name, New
    <3> QED BY <1>3, <2>2, <3>1, <3>2
  <2>3. CASE x > a - 1 /\ x \notin Members(B)
    <3>1. x \in a .. b - 1
      BY <2>3
    <3>2. PICK k \in DOMAIN s[n].names : x \in Members(W[k])
      BY <2>3, <3>1
    <3>3. New(n, k) = Members(W[k])
      OBVIOUS
    <3> HIDE DEF Name, New
    <3> QED BY <1>3, <3>2, <3>3
  <2> QED BY <2>1, <2>2, <2>3
<1>8. EmptyFrom(s, n + 1, M)
  <2> SUFFICES ASSUME NEW i \in 1 .. Len(s), i >= n + 1, NEW k \in DOMAIN s[i].names
               PROVE  M[s[i].names[k]] = << >>
    BY DEF EmptyFrom
  <2>1. i >= n /\ i # n /\ i # n - 1
    OBVIOUS
  <2>2. L[s[i].names[k]] = << >>
    BY <2>1 DEF EmptyFrom
  <2>3. M[s[i].names[k]] = L[s[i].names[k]]
    BY <2>1
  <2> QED BY <2>2, <2>3
<1> HIDE DEF New
<1> QED BY <1>3, <1>4, <1>5, <1>6, <1>7, <1>8 DEF Placed

-----------------------------------------------------------------------------
\* The words of one group.

WordsOf(g, extra) ==
  [k \in DOMAIN g.names |-> IF k \in Reached(g, extra) THEN WordsFor(g, extra, k) ELSE << >>]
Opening(g, extra) == IF g.elipsis = 0 THEN Beyond(g, extra) ELSE << >>

LEMMA WordsAre ==
  ASSUME Walk, at <= argc, NEW g, GroupOK(g), NEW extra \in Nat, Advance(g, extra),
         extra > 0 => at + Len(g.names) + extra <= argc + 1,
         g.elipsis = NoElipsis => extra = 0
  PROVE  LET W == WordsOf(g, extra)
             B == Opening(g, extra)
         IN  /\ at' \in Int /\ at < at' /\ W \in [DOMAIN g.names -> Seq(Int)]
             /\ B \in Seq(Int) /\ Increasing(B)
             /\ \A k \in DOMAIN g.names : Increasing(W[k]) /\ Below(B, W[k])
             /\ \A k, l \in DOMAIN g.names : k < l => Below(W[k], W[l])
             /\ Members(B) \cup UNION {Members(W[k]) : k \in DOMAIN g.names} = at .. at' - 1
<1> DEFINE W == WordsOf(g, extra)
           B == Opening(g, extra)
           e == g.elipsis
           m == Len(g.names)
           Low(k) == at + k - 1 + (IF k > e THEN extra ELSE 0)
           High(k) == Low(k) + (IF k = e THEN extra ELSE 0)
<1>1. /\ g.names \in Seq(Names) /\ m \in Nat /\ DOMAIN g.names = 1 .. m
      /\ e \in Int /\ e >= -1 /\ e <= m /\ m > 0 /\ (e = -1 => extra = 0)
  <2>1. g.names \in Seq(Names) /\ e \in Int /\ e \in NoElipsis .. m /\ m > 0
    BY DEF GroupOK, GroupType
  <2>2. m \in Nat /\ DOMAIN g.names = 1 .. m
    BY <2>1
  <2>3. e >= -1 /\ e <= m
    BY <2>1, <2>2 DEF NoElipsis
  <2> QED BY <2>1, <2>2, <2>3 DEF NoElipsis
<1>2. /\ at \in Int /\ argc \in Nat /\ 1 <= at /\ at <= argc
      /\ at' = IF at + m + extra > argc THEN argc + 1 ELSE at + m + extra
      /\ extra > 0 => at + m + extra <= argc + 1
  BY DEF Walk, Advance
<1>3. \A k \in 1 .. m : /\ Low(k) \in Int /\ High(k) \in Int
                        /\ k \in Reached(g, extra) <=> Low(k) <= argc
                        /\ WordsFor(g, extra, k) = Positions(Low(k), High(k))
  BY <1>1, <1>2 DEF Reached, Place, WordsFor
<1>4. ASSUME NEW k \in 1 .. m
      PROVE  /\ W[k] \in Seq(Int) /\ Increasing(W[k])
             /\ Members(W[k]) = IF Low(k) <= argc THEN Low(k) .. High(k) ELSE {}
  <2>1. W[k] = IF Low(k) <= argc THEN Positions(Low(k), High(k)) ELSE << >>
    BY <1>1, <1>3 DEF WordsOf
  <2>2. << >> \in Seq(Int) /\ Increasing(<< >>) /\ Members(<< >>) = {}
    BY DEF Increasing, Members
  <2> HIDE DEF W, Low, High
  <2> QED BY <1>3, <2>1, <2>2, PositionsAre
<1>5. /\ B \in Seq(Int) /\ Increasing(B)
      /\ Members(B) = IF e = 0 THEN at .. at + extra - 1 ELSE {}
  <2>1. << >> \in Seq(Int) /\ Increasing(<< >>) /\ Members(<< >>) = {}
    BY DEF Increasing, Members
  <2>2. e = 0 => B = Positions(at, at + extra - 1)
    <3>1. e = 0 => at + e = at
      BY <1>2
    <3> QED BY <3>1 DEF Opening, Beyond
  <2>3. e # 0 => B = << >>
    BY DEF Opening
  <2>4. at + extra - 1 \in Int
    BY <1>2
  <2> HIDE DEF B, e
  <2> QED BY <1>2, <2>1, <2>2, <2>3, <2>4, PositionsAre
<1>6. W \in [DOMAIN g.names -> Seq(Int)]
  <2>1. W = [k \in 1 .. m |-> W[k]]
    BY <1>1 DEF WordsOf
  <2> HIDE DEF W, m
  <2>2. \A k \in 1 .. m : W[k] \in Seq(Int)
    BY <1>4
  <2> QED BY <1>1, <2>1, <2>2
<1>7. at' \in Int /\ at < at'
  BY <1>1, <1>2
<1> HIDE DEF W, B, e, m
<1>8. ASSUME NEW k \in 1 .. m PROVE Below(B, W[k])
  <2> SUFFICES ASSUME NEW x \in Members(B), NEW y \in Members(W[k]) PROVE x < y
    BY DEF Below
  <2>1. e = 0 /\ x \in at .. at + extra - 1
    BY <1>5
  <2>2. y \in Low(k) .. High(k) /\ Low(k) \in Int
    BY <1>3, <1>4
  <2>3. Low(k) = at + k - 1 + extra
    BY <1>1, <2>1
  <2> HIDE DEF Low, High
  <2> QED BY <1>1, <1>2, <2>1, <2>2, <2>3
<1>9. ASSUME NEW k \in 1 .. m, NEW l \in 1 .. m, k < l PROVE Below(W[k], W[l])
  <2> SUFFICES ASSUME NEW x \in Members(W[k]), NEW y \in Members(W[l]) PROVE x < y
    BY DEF Below
  <2>1. x \in Low(k) .. High(k) /\ y \in Low(l) .. High(l)
    BY <1>4
  <2>2. High(k) < Low(l)
    BY <1>1, <1>2, <1>9
  <2>3. High(k) \in Int /\ Low(l) \in Int /\ Low(k) \in Int /\ High(l) \in Int
    BY <1>3
  <2> HIDE DEF Low, High
  <2> QED BY <2>1, <2>2, <2>3
<1>10. ASSUME NEW k \in 1 .. m, NEW x \in Members(W[k]) PROVE x \in at .. at' - 1
  <2>1. Low(k) <= argc /\ x \in Low(k) .. High(k)
    BY <1>4
  <2>2. at <= Low(k) /\ High(k) < at'
    BY <1>1, <1>2, <2>1
  <2>3. High(k) \in Int /\ Low(k) \in Int
    BY <1>3
  <2> HIDE DEF Low, High
  <2> QED BY <1>2, <1>7, <2>1, <2>2, <2>3
<1>11. ASSUME NEW x \in Members(B) PROVE x \in at .. at' - 1
  <2>1. x \in at .. at + extra - 1
    BY <1>5
  <2>2. extra > 0
    BY <1>2, <2>1
  <2> QED BY <1>1, <1>2, <2>1, <2>2
<1>12. ASSUME NEW x \in at .. at' - 1, x \notin Members(B)
       PROVE  \E k \in 1 .. m : x \in Members(W[k])
  <2>1. x \in Int /\ at <= x /\ x <= argc /\ x < at + m + extra
    BY <1>1, <1>2
  <2>2. SUFFICES ASSUME NEW k \in 1 .. m, Low(k) <= x, x <= High(k)
                 PROVE  x \in Members(W[k])
    <3>1. CASE e >= 0 /\ x > at + e - 1 + extra
      <4>1. x - at + 1 - extra \in 1 .. m /\ x - at + 1 - extra > e
        BY <1>1, <1>2, <2>1, <3>1
      <4>2. Low(x - at + 1 - extra) = x /\ High(x - at + 1 - extra) = x
        BY <1>1, <1>2, <2>1, <3>1, <4>1
      <4> QED BY <2>1, <4>1, <4>2
    <3>2. CASE e >= 0 /\ x <= at + e - 1 + extra /\ x >= at + e - 1
      <4>1. e # 0
        <5>1. e = 0 => x \in at .. at + extra - 1
          BY <1>1, <1>2, <2>1, <3>2
        <5> QED BY <1>5, <1>12, <5>1
      <4>2. e \in 1 .. m /\ Low(e) = at + e - 1 /\ High(e) = at + e - 1 + extra
        BY <1>1, <1>2, <3>2, <4>1
      <4> QED BY <3>2, <4>2
    <3>3. CASE e >= 0 /\ x < at + e - 1
      <4>1. x - at + 1 \in 1 .. m /\ ~(x - at + 1 > e) /\ x - at + 1 # e
        BY <1>1, <1>2, <2>1, <3>3
      <4>2. Low(x - at + 1) = x /\ High(x - at + 1) = x
        BY <1>1, <1>2, <2>1, <4>1
      <4> QED BY <2>1, <4>1, <4>2
    <3>4. CASE e = -1
      <4>1. x - at + 1 \in 1 .. m /\ x - at + 1 # e /\ extra = 0
        BY <1>1, <1>2, <2>1, <3>4
      <4>2. Low(x - at + 1) = x /\ High(x - at + 1) = x
        BY <1>1, <1>2, <2>1, <4>1
      <4> QED BY <2>1, <4>1, <4>2
    <3> QED BY <1>1, <1>2, <2>1, <3>1, <3>2, <3>3, <3>4
  <2>3. Low(k) \in Int /\ High(k) \in Int
    BY <1>3
  <2> HIDE DEF Low, High
  <2>4. x \in Low(k) .. High(k) /\ Low(k) <= argc
    BY <1>2, <2>1, <2>2, <2>3
  <2> QED BY <1>4, <2>4
<1>13. Members(B) \cup UNION {Members(W[k]) : k \in DOMAIN g.names} = at .. at' - 1
  BY <1>1, <1>10, <1>11, <1>12
<1> QED BY <1>1, <1>4, <1>5, <1>6, <1>7, <1>8, <1>9, <1>13 DEF W, B

-----------------------------------------------------------------------------
\* The invariant of the order.

PassedIn == IF HasStar THEN "-*" ELSE "--"

OrderInvariant ==
  /\ OrderShape(proto)
  /\ phase \in {"binding", "bound"} /\ errors = {} =>
       /\ Placed(Positional, locals, PassedIn, at)
       /\ phase = "binding" => EmptyFrom(Positional, param, locals)
       /\ phase = "bound" => argc \in Nat /\ at = argc + 1

LEMMA PassedInIs ==
  PassedIn \in Convenience /\ PassedIn \in Names
BY DEF PassedIn, Convenience, Names

\* A name of a group stands nowhere else.
LEMMA OnePlace ==
  ASSUME ProtoOK(proto), ProtoShape(proto), OrderShape(proto),
         NEW i \in 1 .. Len(Positional)
  PROVE  LET s == Positional
         IN  /\ s[i] \in GroupType /\ s[i].names \in Seq(Names) /\ Len(s[i].names) \in Nat \ {0}
             /\ DOMAIN s[i].names = 1 .. Len(s[i].names)
             /\ \A k \in DOMAIN s[i].names :
                  /\ s[i].names[k] \in Names \ Convenience
                  /\ s[i].names[k] \in Members(s[i].names)
             /\ Distinct(s[i].names) /\ Own(s[i])
             /\ \A j \in 1 .. Len(s) : \A k \in DOMAIN s[i].names :
                  s[i].names[k] \in Members(s[j].names) => j = i
             /\ \A g \in proto.flags : \A k \in DOMAIN s[i].names :
                  s[i].names[k] \notin Members(g.names)
<1> DEFINE s == Positional
           t == s[i].names
<1>1. s = proto.positional /\ GroupOK(s[i]) /\ Distinct(t) /\ Own(s[i])
  BY DEF ProtoOK, OrderShape, Positional
<1>2. s[i] \in GroupType /\ t \in Seq(Names) /\ Len(t) > 0
  BY <1>1 DEF GroupOK, GroupType
<1>3. /\ DOMAIN t = 1 .. Len(t) /\ Len(t) \in Nat \ {0}
      /\ \A k \in DOMAIN t : t[k] \in Names
  BY <1>2
<1>4. ASSUME NEW k \in DOMAIN t PROVE t[k] \in Members(t) /\ t[k] \notin Convenience
  BY <1>1 DEF Members, Own
<1>5. ASSUME NEW j \in 1 .. Len(s), NEW k \in DOMAIN t, t[k] \in Members(s[j].names)
      PROVE  j = i
  <2>1. i # j => Apart(s[i], s[j])
    BY <1>1 DEF ProtoShape, NamesApart
  <2> HIDE DEF s
  <2> QED BY <1>4, <1>5, <2>1 DEF Apart
<1>6. ASSUME NEW g \in proto.flags, NEW k \in DOMAIN t PROVE t[k] \notin Members(g.names)
  <2>1. Apart(s[i], g)
    BY <1>1 DEF ProtoShape, NamesApart
  <2> HIDE DEF s
  <2> QED BY <1>4, <2>1 DEF Apart
<1> QED BY <1>1, <1>2, <1>3, <1>4, <1>5, <1>6

LEMMA TakeGroupOrder ==
  ASSUME BindingInvariant, GroupInvariant, OrderInvariant, TakeGroup, errors' = {}
  PROVE  OrderInvariant'
<1> DEFINE s == Positional
           g == s[param]
           extra == Extra(g, pos_c - Len(g.names))
           of(n) == {k \in Reached(g, extra) : g.names[k] = n}
           new == [n \in Names |->
              IF of(n) # {} THEN WordsFor(g, extra, CHOOSE k \in of(n) : TRUE)
              ELSE IF g.elipsis = 0 /\ n = proto.elipsis
              THEN locals[n] \o Beyond(g, extra) ELSE locals[n]]
           W == WordsOf(g, extra)
           B == Opening(g, extra)
           last == Len(s[param - 1].names)
           P == PassedIn
<1>1. /\ ProtoOK(proto) /\ Walk /\ at <= argc /\ phase = "binding"
      /\ ProtoShape(proto) /\ OrderShape(proto)
      /\ locals \in [Names -> Seq(Int)]
  BY DEF TakeGroup, AtGroup, BindingInvariant, GroupInvariant, LocalsOK, OrderInvariant
<1>2. /\ Len(s) \in Nat /\ param \in 1 .. Len(s) /\ GroupOK(g) /\ extra \in Nat
      /\ extra > 0 => at + Len(g.names) + extra <= argc + 1
      /\ g.elipsis = NoElipsis => extra = 0
      /\ at \in Int /\ 1 <= at
  <2>1. param <= Len(s)
    BY DEF TakeGroup, AtGroup
  <2>2. Len(s) \in Nat /\ GroupOK(g) /\ pos_c - Len(g.names) \in Nat
    BY <1>1, <2>1, ThisGroup
  <2>3. param \in 1 .. Len(s) /\ at \in Int /\ 1 <= at
    BY <1>1, <2>1, <2>2 DEF Walk
  <2>4. g.elipsis = NoElipsis => extra = 0
    BY DEF Extra
  <2> QED BY <1>1, <2>2, <2>3, <2>4, ExtraOK
<1>3. /\ Advance(g, extra) /\ proto' = proto /\ phase' = phase /\ param' = param + 1
      /\ locals' = new
  BY DEF TakeGroup, NextGroup
<1>4. errors = {}
  BY <1>3 DEF Advance
<1>5. Placed(s, locals, P, at) /\ EmptyFrom(s, param, locals)
  BY <1>1, <1>4 DEF OrderInvariant
<1>6. /\ at' \in Int /\ at < at' /\ W \in [DOMAIN g.names -> Seq(Int)]
      /\ B \in Seq(Int) /\ Increasing(B)
      /\ \A k \in DOMAIN g.names : Increasing(W[k]) /\ Below(B, W[k])
      /\ \A k, l \in DOMAIN g.names : k < l => Below(W[k], W[l])
      /\ Members(B) \cup UNION {Members(W[k]) : k \in DOMAIN g.names} = at .. at' - 1
  BY <1>1, <1>2, <1>3, WordsAre
<1>7. \A i \in 1 .. Len(s) :
        /\ s[i].names \in Seq(Names) /\ Len(s[i].names) \in Nat \ {0}
        /\ DOMAIN s[i].names = 1 .. Len(s[i].names)
        /\ \A k \in DOMAIN s[i].names :
             /\ s[i].names[k] \in Names \ Convenience
             /\ s[i].names[k] \in Members(s[i].names)
        /\ Distinct(s[i].names) /\ Own(s[i])
        /\ \A j \in 1 .. Len(s) : \A k \in DOMAIN s[i].names :
             s[i].names[k] \in Members(s[j].names) => j = i
  BY <1>1, OnePlace
<1>8. P \in Convenience /\ P \in Names /\ PassedIn' = P
  BY <1>3, PassedInIs DEF PassedIn, HasStar
<1>9. g.elipsis = 0 =>
        /\ param - 1 \in 1 .. Len(s) /\ proto.elipsis = s[param - 1].names[last]
        /\ last \in DOMAIN s[param - 1].names
        /\ proto.elipsis \in Members(s[param - 1].names)
        /\ B = Beyond(g, extra)
  <2> SUFFICES ASSUME g.elipsis = 0
               PROVE  /\ param - 1 \in 1 .. Len(s)
                      /\ proto.elipsis = s[param - 1].names[last]
                      /\ last \in DOMAIN s[param - 1].names
                      /\ proto.elipsis \in Members(s[param - 1].names)
                      /\ B = Beyond(g, extra)
    OBVIOUS
  <2>1. OpensAfter(s, proto.elipsis)
    BY <1>1 DEF OrderShape, Positional
  <2>2. /\ param - 1 \in 1 .. Len(s) /\ proto.elipsis = LastOf(s[param - 1].names)
    BY <1>2, <2>1 DEF OpensAfter
  <2>3. last \in DOMAIN s[param - 1].names
    BY <1>7, <2>2
  <2>4. B = Beyond(g, extra)
    BY DEF Opening
  <2> QED BY <1>7, <2>2, <2>3, <2>4 DEF LastOf
<1>10. g.elipsis # 0 => B = << >>
  BY DEF Opening
<1>11. \A n \in Names :
         new[n] = IF of(n) # {} THEN WordsFor(g, extra, CHOOSE k \in of(n) : TRUE)
                  ELSE IF g.elipsis = 0 /\ n = proto.elipsis
                  THEN locals[n] \o Beyond(g, extra) ELSE locals[n]
  OBVIOUS
<1>12. ASSUME NEW n, n \notin Members(g.names) PROVE of(n) = {}
  BY <1>12 DEF Reached, Members
<1>13. ASSUME NEW k \in DOMAIN g.names, Distinct(g.names)
       PROVE  /\ k \in Reached(g, extra) => of(g.names[k]) = {k}
              /\ k \notin Reached(g, extra) => of(g.names[k]) = {}
  <2>1. Reached(g, extra) \subseteq DOMAIN g.names
    BY DEF Reached
  <2>2. \A l \in DOMAIN g.names : g.names[l] = g.names[k] => l = k
    BY <1>13 DEF Distinct
  <2> QED BY <2>1, <2>2
<1>14. \A k \in DOMAIN g.names :
         W[k] = IF k \in Reached(g, extra) THEN WordsFor(g, extra, k) ELSE << >>
  BY DEF WordsOf
<1>15. \A i \in 1 .. Len(s) : \A k \in DOMAIN s[i].names : locals[s[i].names[k]] \in Seq(Int)
  BY <1>1, <1>7
<1> HIDE DEF of, new, W, B, extra, last, P
<1>16. ASSUME NEW i \in 1 .. Len(s), NEW k \in DOMAIN s[i].names, i # param
       PROVE  new[s[i].names[k]] = IF i = param - 1 /\ k = last
                                   THEN locals[s[i].names[k]] \o B ELSE locals[s[i].names[k]]
  <2> DEFINE x == s[i].names[k]
  <2>1. x \notin Members(g.names) /\ x \in Names /\ locals[x] \in Seq(Int)
    BY <1>2, <1>7, <1>15, <1>16
  <2>2. of(x) = {}
    BY <1>12, <2>1
  <2>3. CASE g.elipsis # 0
    <3>1. new[x] = locals[x] /\ B = << >>
      BY <1>10, <1>11, <2>1, <2>2, <2>3
    <3> HIDE DEF x
    <3>2. locals[x] \o << >> = locals[x]
      BY <2>1
    <3> QED BY <3>1, <3>2 DEF x
  <2>4. CASE g.elipsis = 0
    <3>1. x = proto.elipsis <=> i = param - 1 /\ k = last
      <4>1. ASSUME x = proto.elipsis PROVE i = param - 1 /\ k = last
        <5>1. i = param - 1
          BY <1>7, <1>9, <2>4, <4>1
        <5>2. Distinct(s[i].names) /\ s[i].names[k] = s[i].names[last] /\ last \in DOMAIN s[i].names
          BY <1>7, <1>9, <2>4, <4>1, <5>1
        <5> QED BY <5>1, <5>2 DEF Distinct
      <4>2. ASSUME i = param - 1, k = last PROVE x = proto.elipsis
        BY <1>9, <2>4, <4>2
      <4> QED BY <4>1, <4>2
    <3>2. new[x] = IF x = proto.elipsis THEN locals[x] \o Beyond(g, extra) ELSE locals[x]
      BY <1>11, <2>1, <2>2, <2>4
    <3> HIDE DEF x
    <3> QED BY <1>9, <2>4, <3>1, <3>2 DEF x
  <2> QED BY <2>3, <2>4
<1>17. ASSUME NEW k \in DOMAIN g.names PROVE new[g.names[k]] = W[k]
  <2> DEFINE x == g.names[k]
  <2>1. x \in Names /\ Distinct(g.names) /\ x \in Members(g.names)
    BY <1>2, <1>7
  <2>2. CASE k \in Reached(g, extra)
    <3>1. of(x) = {k}
      BY <1>13, <2>1, <2>2
    <3>2. (CHOOSE l \in of(x) : TRUE) = k
      BY <3>1
    <3> HIDE DEF x
    <3> QED BY <1>11, <1>14, <2>1, <2>2, <3>1, <3>2 DEF x
  <2>3. CASE k \notin Reached(g, extra)
    <3>1. of(x) = {}
      BY <1>13, <2>1, <2>3
    <3>2. g.elipsis = 0 => x # proto.elipsis
      <4>1. g.elipsis = 0 => param - 1 \in 1 .. Len(s) /\ param - 1 # param
        BY <1>2, <1>9
      <4> QED BY <1>2, <1>7, <1>9, <4>1
    <3>3. locals[x] = << >>
      <4>1. param >= param
        BY <1>2
      <4> QED BY <1>2, <1>5, <4>1 DEF EmptyFrom
    <3> HIDE DEF x
    <3> QED BY <1>11, <1>14, <2>1, <2>3, <3>1, <3>2, <3>3 DEF x
  <2> QED BY <2>2, <2>3
<1>18. new[P] = locals[P] /\ locals[P] \in Seq(Int)
  <2>1. P \notin Members(g.names)
    BY <1>2, <1>7, <1>8 DEF Own
  <2>2. of(P) = {}
    BY <1>12, <2>1
  <2>3. g.elipsis = 0 => P # proto.elipsis
    BY <1>7, <1>8, <1>9
  <2> QED BY <1>1, <1>8, <1>11, <2>2, <2>3
<1>19. param - 1 \in 1 .. Len(s) =>
         last \in DOMAIN s[param - 1].names /\ \A k \in DOMAIN s[param - 1].names : k <= last
  BY <1>7 DEF last
<1>20. param - 1 \notin 1 .. Len(s) => Members(B) = {}
  <2>1. Members(<< >>) = {}
    BY DEF Members
  <2> QED BY <1>9, <1>10, <2>1
<1>21. \A i \in 1 .. Len(s) : DOMAIN s[i].names \subseteq Int
  BY <1>7
<1>22. at <= at'
  BY <1>2, <1>6
<1>23. TakesWords(s, locals, new, P, at, at', param, last, B, W)
  BY <1>2, <1>5, <1>6, <1>15, <1>16, <1>17, <1>18, <1>19, <1>20, <1>21, <1>22 DEF TakesWords
<1>25. Placed(s, new, P, at') /\ EmptyFrom(s, param + 1, new)
  BY <1>23, TakenMore
<1>24. Positional' = s
  BY <1>3 DEF Positional, s
<1> QED BY <1>1, <1>3, <1>8, <1>24, <1>25 DEF OrderInvariant

\* What is in a value that no group has does not matter to the groups.
LEMMA EmptyKept ==
  ASSUME NEW s, NEW n, NEW L, NEW M, EmptyFrom(s, n, L),
         \A i \in 1 .. Len(s) : \A k \in DOMAIN s[i].names :
           M[s[i].names[k]] = L[s[i].names[k]]
  PROVE  EmptyFrom(s, n, M)
BY DEF EmptyFrom

LEMMA PassedOnOrder ==
  ASSUME ProtoOK(proto), ProtoShape(proto), OrderShape(proto), Walk, phase = "binding",
         locals \in [Names -> Seq(Int)], at' \in Int, at <= at',
         Placed(Positional, locals, PassedIn, at), EmptyFrom(Positional, param, locals),
         proto' = proto, param' = param, phase' # "bound",
         NEW t \in Seq(Int), Increasing(t), Members(t) = at .. at' - 1,
         locals'[PassedIn] = locals[PassedIn] \o t,
         \A i \in 1 .. Len(Positional) : \A k \in DOMAIN Positional[i].names :
           locals'[Positional[i].names[k]] = locals[Positional[i].names[k]]
  PROVE  OrderInvariant'
<1> DEFINE s == Positional
<1>1. at \in Int /\ 1 <= at
  BY DEF Walk
<1>2. PassedIn \in Names /\ locals[PassedIn] \in Seq(Int)
  BY PassedInIs
<1>3. \A i \in 1 .. Len(s) : \A k \in DOMAIN s[i].names : locals[s[i].names[k]] \in Seq(Int)
  <2> TAKE i \in 1 .. Len(s)
  <2>1. \A k \in DOMAIN s[i].names : s[i].names[k] \in Names
    BY OnePlace
  <2> QED BY <2>1
<1> HIDE DEF s
<1>4. PassesWords(s, locals, locals', PassedIn, at, at', t)
  BY <1>1, <1>2, <1>3 DEF PassesWords, s
<1>5. Placed(s, locals', PassedIn, at')
  BY <1>4, PassedMore
<1>6. EmptyFrom(s, param, locals')
  BY EmptyKept DEF s
<1>7. Positional' = s /\ PassedIn' = PassedIn
  BY DEF Positional, PassedIn, HasStar, s
<1> QED BY <1>5, <1>6, <1>7 DEF OrderInvariant

LEMMA TakeFlagOrder ==
  ASSUME BindingInvariant, GroupInvariant, OrderInvariant,
         NEW g \in proto.flags, TakeFlag(g), errors' = {}
  PROVE  OrderInvariant'
<1> DEFINE extra == Extra(g, pos_c)
           R == Reached(g, extra)
           taken == Positions(at, at' - 1)
           new == [n \in Names |->
             IF n \in {"-*", g.names[1]} THEN locals[n] \o taken
             ELSE IF \E k \in R : g.names[k] = n
             THEN locals[n] \o WordsFor(g, extra, CHOOSE k \in R : g.names[k] = n)
             ELSE locals[n]]
<1>1. /\ ProtoOK(proto) /\ Walk /\ at <= argc /\ phase = "binding"
      /\ ProtoShape(proto) /\ OrderShape(proto)
      /\ locals \in [Names -> Seq(Int)]
  BY DEF TakeFlag, AtFlag, BindingInvariant, GroupInvariant, LocalsOK, OrderInvariant
<1>2. /\ GroupOK(g) /\ extra \in Nat /\ at \in Int
      /\ extra > 0 => at + Len(g.names) + extra <= argc + 1
      /\ g.elipsis = NoElipsis => extra = 0
  <2>1. GroupOK(g) /\ pos_c \in Nat
    BY <1>1, ToCome DEF ProtoOK
  <2>2. g.elipsis = NoElipsis => extra = 0
    BY DEF Extra
  <2> QED BY <1>1, <2>1, <2>2, ExtraOK DEF Walk
<1>3. /\ Advance(g, extra) /\ proto' = proto /\ param' = param /\ phase' # "bound"
      /\ locals' = new
  BY <1>1 DEF TakeFlag
<1>4. errors = {}
  BY <1>3 DEF Advance
<1>5. Placed(Positional, locals, PassedIn, at) /\ EmptyFrom(Positional, param, locals)
  BY <1>1, <1>4 DEF OrderInvariant
<1>6. at' \in Int /\ at < at'
  BY <1>1, <1>2, <1>3, WordsAre
<1>7. /\ taken \in Seq(Int) /\ Increasing(taken) /\ Members(taken) = at .. at' - 1
  <2>1. at' - 1 \in Int
    BY <1>6
  <2> QED BY <1>2, <2>1, PositionsAre
<1>8. PassedIn = "-*" /\ "-*" \in Names
  BY DEF PassedIn, HasStar, Names, Convenience
<1>9. locals'[PassedIn] = locals[PassedIn] \o taken
  BY <1>3, <1>8
<1>10. g.names[1] \in Members(g.names)
  <2>1. g.names \in Seq(Names) /\ Len(g.names) > 0
    BY <1>2 DEF GroupOK, GroupType
  <2>2. 1 \in DOMAIN g.names
    BY <2>1
  <2> QED BY <2>2 DEF Members
<1>11. \A n \in Names : n \notin Members(g.names) /\ n # "-*" => new[n] = locals[n]
  <2> TAKE n \in Names
  <2>1. ASSUME n \notin Members(g.names) PROVE ~ \E k \in R : g.names[k] = n
    BY <2>1 DEF Members, Reached
  <2> QED BY <1>10, <2>1
<1> HIDE DEF new, taken, extra, R
<1>12. ASSUME NEW i \in 1 .. Len(Positional), NEW k \in DOMAIN Positional[i].names
       PROVE  locals'[Positional[i].names[k]] = locals[Positional[i].names[k]]
  <2> DEFINE x == Positional[i].names[k]
  <2>1. x \in Names \ Convenience /\ x \notin Members(g.names)
    BY <1>1, OnePlace
  <2>2. "-*" \in Convenience
    BY DEF Convenience
  <2> HIDE DEF x
  <2>3. locals'[x] = locals[x]
    BY <1>3, <1>11, <2>1, <2>2
  <2> QED BY <2>3 DEF x
<1>13. at <= at'
  BY <1>2, <1>6
<1> QED BY <1>1, <1>3, <1>5, <1>6, <1>7, <1>9, <1>12, <1>13, PassedOnOrder

\* A word that is passed on.
LEMMA PassOnOrder ==
  ASSUME BindingInvariant, GroupInvariant, OrderInvariant, phase = "binding",
         errors = {}, phase' # "bound",
         NEW more, more \subseteq {"--"}, PassOn(more), HasStar \/ "--" \in more
  PROVE  OrderInvariant'
<1> DEFINE S == more \cup (IF proto.some THEN {"-?"} ELSE {})
                     \cup (IF HasStar THEN {"-*"} ELSE {})
<1>1. /\ ProtoOK(proto) /\ Walk /\ ProtoShape(proto) /\ OrderShape(proto)
      /\ locals \in [Names -> Seq(Int)] /\ at \in Int
      /\ Placed(Positional, locals, PassedIn, at) /\ EmptyFrom(Positional, param, locals)
  BY DEF BindingInvariant, GroupInvariant, LocalsOK, OrderInvariant, Walk
<1>2. /\ locals' = Appended(S, << at >>) /\ at' = at + 1
      /\ proto' = proto /\ param' = param
  BY DEF PassOn
<1>3. PassedIn \in S /\ S \subseteq Convenience
  BY DEF PassedIn, Convenience
<1> HIDE DEF S
<1>4. \A n \in Names : locals'[n] = IF n \in S THEN locals[n] \o << at >> ELSE locals[n]
  BY <1>2 DEF Appended
<1>5. << at >> \in Seq(Int) /\ Increasing(<< at >>) /\ Members(<< at >>) = at .. at' - 1
  <2> DEFINE t == << at >>
  <2>1. t \in Seq(Int) /\ DOMAIN t = {1} /\ t[1] = at
    BY <1>1
  <2> HIDE DEF t
  <2>2. Increasing(t)
    BY <2>1 DEF Increasing
  <2>3. Members(t) = {at}
    BY <2>1 DEF Members
  <2>4. at .. at' - 1 = {at}
    BY <1>1, <1>2
  <2> QED BY <2>1, <2>2, <2>3, <2>4 DEF t
<1>6. locals'[PassedIn] = locals[PassedIn] \o << at >>
  BY <1>3, <1>4, PassedInIs
<1>7. ASSUME NEW i \in 1 .. Len(Positional), NEW k \in DOMAIN Positional[i].names
      PROVE  locals'[Positional[i].names[k]] = locals[Positional[i].names[k]]
  <2>1. Positional[i].names[k] \in Names \ Convenience
    BY <1>1, OnePlace
  <2> QED BY <1>3, <1>4, <2>1
<1>8. at' \in Int /\ at <= at'
  BY <1>1, <1>2
<1> QED BY <1>1, <1>2, <1>5, <1>6, <1>7, <1>8, PassedOnOrder

LEMMA FinishOrder ==
  ASSUME BindingInvariant, OrderInvariant, Finish, errors' = {}
  PROVE  OrderInvariant'
<1> DEFINE rest == {Positional[i] : i \in param .. Len(Positional)}
           lacks == missing \cup {g.names[1] : g \in {r \in rest : r.required}}
<1>1. /\ phase = "binding" /\ Walk
      /\ phase' = "bound" /\ proto' = proto /\ locals' = locals
      /\ at' = at /\ words' = words
      /\ errors' = errors \cup IF Complete(lacks) THEN {} ELSE {"bad_args"}
  BY DEF Finish, BindingInvariant, callVars
<1> HIDE DEF lacks
<1>2. errors = {} /\ Complete(lacks)
  BY <1>1
<1>3. argc \in Nat /\ at = argc + 1
  <2>1. at > argc
    BY <1>2 DEF Complete
  <2>2. at \in 1 .. argc + 1 /\ argc \in Nat
    BY <1>1 DEF Walk
  <2> QED BY <2>1, <2>2
<1>4. Positional' = Positional /\ PassedIn' = PassedIn /\ argc' = argc
  BY <1>1 DEF Positional, PassedIn, HasStar, argc
<1> QED BY <1>1, <1>2, <1>3, <1>4 DEF OrderInvariant

LEMMA SkipGroupOrder ==
  ASSUME BindingInvariant, OrderInvariant, SkipGroup, errors' = {}
  PROVE  OrderInvariant'
<1>1. /\ phase = "binding" /\ param \in Int /\ param' = param + 1
      /\ UNCHANGED <<proto, phase, at, locals, errors>>
  BY DEF SkipGroup, AtGroup, NextGroup, BindingInvariant, Walk
<1>2. Placed(Positional, locals, PassedIn, at) /\ EmptyFrom(Positional, param, locals)
  BY <1>1 DEF OrderInvariant
<1>3. EmptyFrom(Positional, param + 1, locals)
  BY <1>1, <1>2 DEF EmptyFrom
<1>4. Positional' = Positional /\ PassedIn' = PassedIn
  BY <1>1 DEF Positional, PassedIn, HasStar
<1> QED BY <1>1, <1>2, <1>3, <1>4 DEF OrderInvariant

LEMMA CallOrder ==
  ASSUME BindingInvariant, GroupInvariant, OrderInvariant, NEW w, Call(w)
  PROVE  OrderInvariant'
<1>1. /\ phase = "declaring" /\ phase' = "binding" /\ proto' = proto /\ locals' = locals
      /\ at' = 1 /\ ProtoOK(proto) /\ ProtoShape(proto) /\ OrderShape(proto)
      /\ \A n \in Names : locals[n] = << >>
  BY DEF Call, BindingInvariant, GroupInvariant, LocalsOK, OrderInvariant
<1> DEFINE s == Positional
<1>2. \A i \in 1 .. Len(s) : \A k \in DOMAIN s[i].names : s[i].names[k] \in Names
  BY <1>1, OnePlace
<1>3. \A i \in 1 .. Len(s) : \A k \in DOMAIN s[i].names : locals[s[i].names[k]] = << >>
  BY <1>1, <1>2
<1>4. locals[PassedIn] = << >>
  BY <1>1, PassedInIs
<1>5. InOrder(<< >>, 1) /\ Members(<< >>) = {} /\ Below(<< >>, << >>)
  BY DEF InOrder, Increasing, Members, Below
<1> HIDE DEF s
<1>6. 1 .. 1 - 1 = {}
  OBVIOUS
<1>7. Placed(s, locals, PassedIn, 1)
  BY <1>3, <1>4, <1>5, <1>6 DEF Placed
<1>8. EmptyFrom(s, param', locals)
  BY <1>3 DEF EmptyFrom
<1>9. Positional' = s /\ PassedIn' = PassedIn
  BY <1>1 DEF Positional, PassedIn, HasStar, s
<1> QED BY <1>1, <1>7, <1>8, <1>9 DEF OrderInvariant

LEMMA DeclareGroupOrder ==
  ASSUME NoDashesBehind, BindingInvariant, GroupInvariant, OrderInvariant,
         NEW g \in Groups, DeclareGroup(g)
  PROVE  OrderInvariant'
<1>1. ProtoOK(proto) /\ ProtoShape(proto) /\ OrderShape(proto)
  BY DEF BindingInvariant, GroupInvariant, OrderInvariant
<1>2. phase' \in {"declaring", "refused"}
  BY DEF DeclareGroup
<1>3. OrderShape(proto')
  BY <1>1, DeclareOrder DEF DeclareGroup
<1> QED BY <1>2, <1>3 DEF OrderInvariant

LEMMA OrderInit ==
  Init => OrderInvariant
<1> SUFFICES ASSUME Init PROVE OrderInvariant
  OBVIOUS
<1>1. proto = NoParameters /\ phase = "declaring"
  BY DEF Init
<1> DEFINE p == NoParameters
<1>2. p.positional = << >> /\ p.flags = {}
  BY DEF NoParameters
<1> HIDE DEF p
<1>3. 1 .. Len(<< >>) = {}
  OBVIOUS
<1>4. OrderShape(p)
  BY <1>2, <1>3 DEF OrderShape, OpensAfter
<1> QED BY <1>1, <1>4 DEF OrderInvariant, p

LEMMA OrderNext ==
  ASSUME NoDashesBehind, BindingInvariant, GroupInvariant, OrderInvariant, [Next]_vars
  PROVE  OrderInvariant'
<1>1. ASSUME NEW g \in Groups, DeclareGroup(g) PROVE OrderInvariant'
  BY <1>1, DeclareGroupOrder
<1>2. ASSUME NEW n \in 0 .. MaxWords, NEW w \in [1 .. n -> Words], Call(w)
      PROVE  OrderInvariant'
  BY <1>2, CallOrder
<1>3. ASSUME proto' = proto, errors' = {} => OrderInvariant'
      PROVE  OrderInvariant'
  BY <1>3 DEF OrderInvariant
<1>4. CASE TakeGroup
  BY <1>3, <1>4, TakeGroupOrder DEF TakeGroup
<1>5. CASE SkipGroup
  BY <1>3, <1>5, SkipGroupOrder DEF SkipGroup
<1>6. CASE TardyFlag
  <2>1. proto' = proto /\ errors' # {}
    BY <1>6 DEF TardyFlag
  <2> QED BY <1>3, <2>1
<1>7. CASE UnrecognizedFlag
  <2>1. /\ proto' = proto /\ phase = "binding" /\ phase' # "bound" /\ PassOn({})
        /\ errors' = {} => errors = {} /\ proto.some
    BY <1>7 DEF UnrecognizedFlag, AtFlag, PassOn
  <2>2. errors' = {} => OrderInvariant'
    BY <2>1, PassOnOrder DEF HasStar
  <2> QED BY <1>3, <2>1, <2>2
<1>8. CASE DashDash
  <2>1. /\ proto' = proto /\ phase = "binding" /\ phase' # "bound" /\ PassOn({"--"})
        /\ errors' = errors
    BY <1>8 DEF DashDash, AtFlag, PassOn
  <2>2. errors' = {} => OrderInvariant'
    BY <2>1, PassOnOrder
  <2> QED BY <1>3, <2>1, <2>2
<1>9. ASSUME NEW g \in proto.flags, TakeFlag(g) PROVE OrderInvariant'
  <2>1. proto' = proto
    BY <1>9 DEF TakeFlag
  <2> QED BY <1>3, <1>9, <2>1, TakeFlagOrder
<1>10. CASE Finish
  BY <1>3, <1>10, FinishOrder DEF Finish
<1>11. CASE UNCHANGED vars
  <2>1. UNCHANGED <<proto, phase, words, at, param, locals, errors>>
    BY <1>11 DEF vars, callVars, localVars
  <2> QED BY <2>1 DEF OrderInvariant, Positional, PassedIn, HasStar, argc
<1> QED BY <1>1, <1>2, <1>4, <1>5, <1>6, <1>7, <1>8, <1>9, <1>10, <1>11 DEF Next

LEMMA OrderInvariantHolds ==
  ASSUME NoDashesBehind
  PROVE  Spec => []OrderInvariant
<1>1. Init => OrderInvariant
  BY OrderInit
<1>2. BindingInvariant /\ GroupInvariant /\ OrderInvariant /\ [Next]_vars => OrderInvariant'
  BY OrderNext
<1> QED BY <1>1, <1>2, BindingInvariantHolds, GroupInvariantHolds, PTL DEF Spec

\* The words of a call that is accepted are all bound, each once and in order, if no
\* convenience variable stands behind "..." between brackets.
THEOREM WordsBoundOnceHolds ==
  ASSUME NoDashesBehind
  PROVE  Spec => []WordsBoundOnce
<1>1. BindingInvariant /\ GroupInvariant /\ OrderInvariant => WordsBoundOnce
  <2> DEFINE s == Positional
             value(i, k) == locals[s[i].names[k]]
             values(g) == FlattenSeq([k \in DOMAIN g.names |-> locals[g.names[k]]])
             each == [i \in DOMAIN s |-> values(s[i])]
             positional == FlattenSeq(each)
             passed == IF HasStar THEN locals["-*"] ELSE locals["--"]
  <2> SUFFICES ASSUME BindingInvariant, GroupInvariant, OrderInvariant,
                      phase = "bound", errors = {}
               PROVE  /\ Increasing(positional) /\ Increasing(passed)
                      /\ Members(positional) \cap Members(passed) = {}
                      /\ Members(positional) \cup Members(passed) = 1 .. argc
    BY DEF WordsBoundOnce, Accepted, Increasing
  <2>1. /\ ProtoOK(proto) /\ ProtoShape(proto) /\ OrderShape(proto)
        /\ locals \in [Names -> Seq(Int)]
        /\ Placed(s, locals, PassedIn, at) /\ argc \in Nat /\ at = argc + 1
    BY DEF BindingInvariant, GroupInvariant, LocalsOK, OrderInvariant
  <2>2. passed = locals[PassedIn]
    BY DEF PassedIn
  <2>3. Len(s) \in Nat /\ DOMAIN s = 1 .. Len(s)
    <3>1. s \in Seq(GroupType)
      BY <2>1, ProtoTyped DEF ProtoOK, Positional
    <3> QED BY <3>1
  <2>4. ASSUME NEW i \in 1 .. Len(s)
        PROVE  /\ Len(s[i].names) \in Nat /\ DOMAIN s[i].names = 1 .. Len(s[i].names)
               /\ \A k \in DOMAIN s[i].names : value(i, k) \in Seq(Int)
    BY <2>1, OnePlace
  <2>5. /\ argc \in Nat /\ InOrder(passed, at)
        /\ \A x \in 1 .. argc : \/ x \in Members(passed)
                               \/ \E i \in 1 .. Len(s) : \E k \in DOMAIN s[i].names :
                                    x \in Members(value(i, k))
    <3>1. at - 1 = argc
      BY <2>1
    <3> QED BY <2>1, <2>2, <3>1 DEF Placed
  <2>6. ASSUME NEW i \in 1 .. Len(s), NEW k \in DOMAIN s[i].names
        PROVE  /\ Increasing(value(i, k)) /\ Members(value(i, k)) \subseteq 1 .. argc
               /\ Members(value(i, k)) \cap Members(passed) = {}
    BY <2>1, <2>2, <2>5 DEF Placed, InOrder
  <2>7. ASSUME NEW i \in 1 .. Len(s), NEW j \in 1 .. Len(s),
               NEW k \in DOMAIN s[i].names, NEW l \in DOMAIN s[j].names, Before(i, k, j, l)
        PROVE  Below(value(i, k), value(j, l))
    BY <2>1, <2>7 DEF Placed
  <2> HIDE DEF passed, s
  <2>8. ASSUME NEW i \in 1 .. Len(s)
        PROVE  /\ each[i] \in Seq(Int) /\ Increasing(each[i])
               /\ \A x : x \in Members(each[i]) <=>
                          \E k \in DOMAIN s[i].names : x \in Members(value(i, k))
    <3> DEFINE n == Len(s[i].names)
               f == [k \in 1 .. n |-> value(i, k)]
    <3>1. each[i] = FlattenSeq(f) /\ n \in Nat /\ DOMAIN s[i].names = 1 .. n
      BY <2>3, <2>4
    <3>2. f \in [1 .. n -> Seq(Int)] /\ \A k \in 1 .. n : f[k] = value(i, k)
      BY <2>4
    <3> HIDE DEF f, n, each, value
    <3>3. \A k \in 1 .. n : Increasing(f[k])
      BY <2>6, <3>1, <3>2
    <3>4. \A k, l \in 1 .. n : k < l => Below(f[k], f[l])
      BY <2>7, <3>1, <3>2 DEF Before
    <3>5. /\ FlattenSeq(f) \in Seq(Int) /\ Increasing(FlattenSeq(f))
          /\ Members(FlattenSeq(f)) = UNION {Members(f[k]) : k \in 1 .. n}
      BY <3>1, <3>2, <3>3, <3>4, FlattenIs
    <3> QED BY <3>1, <3>2, <3>5
  <2>9. each \in [1 .. Len(s) -> Seq(Int)]
    <3>1. each = [i \in 1 .. Len(s) |-> each[i]]
      BY <2>3
    <3> HIDE DEF each
    <3> QED BY <2>8, <3>1
  <2> HIDE DEF each, value
  <2>10. ASSUME NEW i \in 1 .. Len(s), NEW j \in 1 .. Len(s), i < j
         PROVE  Below(each[i], each[j])
    <3> SUFFICES ASSUME NEW x \in Members(each[i]), NEW y \in Members(each[j]) PROVE x < y
      BY DEF Below
    <3>1. PICK k \in DOMAIN s[i].names : x \in Members(value(i, k))
      BY <2>8
    <3>2. PICK l \in DOMAIN s[j].names : y \in Members(value(j, l))
      BY <2>8
    <3>3. Below(value(i, k), value(j, l))
      BY <2>7, <2>10 DEF Before
    <3> QED BY <3>1, <3>2, <3>3 DEF Below
  <2>11. /\ Increasing(positional)
         /\ Members(positional) = UNION {Members(each[i]) : i \in 1 .. Len(s)}
    <3>1. \A i \in 1 .. Len(s) : Increasing(each[i])
      BY <2>8
    <3>2. \A i, j \in 1 .. Len(s) : i < j => Below(each[i], each[j])
      BY <2>10
    <3> QED BY <2>3, <2>9, <3>1, <3>2, FlattenIs
  <2> HIDE DEF positional
  <2>12. ASSUME NEW x PROVE x \in Members(positional) <=>
                              \E i \in 1 .. Len(s) : \E k \in DOMAIN s[i].names :
                                x \in Members(value(i, k))
    BY <2>8, <2>11
  <2>13. Increasing(passed) /\ Members(passed) \subseteq 1 .. argc
    BY <2>1, <2>5 DEF InOrder
  <2>14. Members(positional) \cap Members(passed) = {}
    BY <2>6, <2>12
  <2>15. Members(positional) \cup Members(passed) = 1 .. argc
    BY <2>5, <2>6, <2>12, <2>13
  <2> QED BY <2>11, <2>13, <2>14, <2>15
<1> QED BY <1>1, BindingInvariantHolds, GroupInvariantHolds, OrderInvariantHolds, PTL

-----------------------------------------------------------------------------
\* How many words there must be.

RequiredFrom(s, i) == {k \in i .. Len(s) : s[k].required}
OptionalOf(s, j) == UNION {Members(s[i].names) : i \in {k \in 1 .. j : ~s[k].required}}

\* The required groups from i on, the words that fill the groups up to j, and the names
\* from i on.
Asked(p, i) == Cardinality(RequiredFrom(p.positional, i))
SizeTo(p, j) == p.required + Cardinality(OptionalOf(p.positional, j))
NamesFrom(p, i) == SizeTo(p, Len(p.positional)) - SizeTo(p, i - 1) + Asked(p, i)

\* What the constructor counts.
Counted(p) ==
  /\ p.required = Asked(p, 1)
  /\ p.size = SizeTo(p, Len(p.positional))

LEMMA NamesCounted ==
  ASSUME NEW S, NEW s \in Seq(S), Distinct(s)
  PROVE  IsFiniteSet(Members(s)) /\ Cardinality(Members(s)) = Len(s)
<1> DEFINE n == Len(s)
           T == Members(s)
<1>1. n \in Nat /\ DOMAIN s = 1 .. n /\ s = [k \in 1 .. n |-> s[k]]
  OBVIOUS
<1>2. \A k \in 1 .. n : s[k] \in T
  BY <1>1 DEF Members
<1>3. \A x \in T : \E k \in 1 .. n : s[k] = x
  BY <1>1 DEF Members
<1>4. \A k, l \in 1 .. n : s[k] = s[l] => k = l
  BY <1>1 DEF Distinct
<1> HIDE DEF n, T
<1>5. s \in Surjection(1 .. n, T)
  BY <1>1, <1>2, <1>3 DEF Surjection
<1>6. s \in Injection(1 .. n, T)
  BY <1>1, <1>2, <1>4 DEF Injection, IsInjective
<1>7. IsFiniteSet(1 .. n) /\ Cardinality(1 .. n) = n
  <2>1. 1 \in Int /\ n \in Int
    BY <1>1
  <2>2. /\ IsFiniteSet(1 .. n)
        /\ Cardinality(1 .. n) = IF 1 > n THEN 0 ELSE n - 1 + 1
    BY <2>1, FS_Interval, Zenon
  <2>3. (IF 1 > n THEN 0 ELSE n - 1 + 1) = n
    BY <1>1
  <2> QED BY <2>2, <2>3
<1>8. IsFiniteSet(T) /\ Cardinality(T) = Cardinality(1 .. n)
  BY <1>5, <1>6, <1>7, FS_Surjection
<1> QED BY <1>7, <1>8 DEF T, n

\* Disjoint sets count for themselves.
LEMMA CountedApart ==
  ASSUME NEW S, NEW T, IsFiniteSet(S), IsFiniteSet(T), S \cap T = {}
  PROVE  IsFiniteSet(S \cup T) /\ Cardinality(S \cup T) = Cardinality(S) + Cardinality(T)
<1>1. Cardinality(S \cap T) = 0
  BY FS_EmptySet
<1>2. Cardinality(S) \in Nat /\ Cardinality(T) \in Nat
  BY FS_CardinalityType
<1>3. /\ IsFiniteSet(S \cup T)
      /\ Cardinality(S \cup T) = Cardinality(S) + Cardinality(T) - Cardinality(S \cap T)
  BY FS_Union
<1> QED BY <1>1, <1>2, <1>3

\* One group more.
LEMMA OptionalStep ==
  ASSUME NEW s, NEW i \in Nat \ {0}
  PROVE  OptionalOf(s, i) =
           OptionalOf(s, i - 1) \cup (IF s[i].required THEN {} ELSE Members(s[i].names))
<1>1. \A k : k \in 1 .. i <=> k \in 1 .. i - 1 \/ k = i
  OBVIOUS
<1> QED BY <1>1 DEF OptionalOf

LEMMA RequiredStep ==
  ASSUME NEW s, Len(s) \in Nat, NEW i \in 1 .. Len(s)
  PROVE  /\ RequiredFrom(s, i) =
              RequiredFrom(s, i + 1) \cup (IF s[i].required THEN {i} ELSE {})
         /\ i \notin RequiredFrom(s, i + 1)
<1>1. \A k : k \in i .. Len(s) <=> k \in i + 1 .. Len(s) \/ k = i
  OBVIOUS
<1>2. i \notin i + 1 .. Len(s)
  OBVIOUS
<1> QED BY <1>1, <1>2 DEF RequiredFrom

LEMMA RequiredFinite ==
  ASSUME NEW s, Len(s) \in Nat, NEW i \in Nat
  PROVE  IsFiniteSet(RequiredFrom(s, i)) /\ Cardinality(RequiredFrom(s, i)) \in Nat
<1>1. IsFiniteSet(i .. Len(s))
  BY FS_Interval
<1>2. RequiredFrom(s, i) \in SUBSET (i .. Len(s))
  BY DEF RequiredFrom
<1> QED BY <1>1, <1>2, FS_Subset, FS_CardinalityType

\* The numbers of a prototype, group by group.
NumbersOK(p) ==
  LET L == Len(p.positional)
  IN  /\ L \in Nat
      /\ \A j \in 0 .. L : SizeTo(p, j) \in Nat
      /\ \A i, j \in 0 .. L : i <= j => SizeTo(p, i) <= SizeTo(p, j)
      /\ \A i \in 1 .. L + 1 : Asked(p, i) \in Nat
      /\ Asked(p, L + 1) = 0
      /\ SizeTo(p, 0) = Asked(p, 1) /\ p.required = Asked(p, 1)
      /\ p.size = SizeTo(p, L)

\* What a group adds to them.
GroupCounts(p, i) ==
  LET g == p.positional[i]
      size == Len(g.names)
  IN  /\ size \in Nat \ {0}
      /\ \/ /\ g.required /\ size = 1
            /\ SizeTo(p, i) = SizeTo(p, i - 1) /\ Asked(p, i) = Asked(p, i + 1) + 1
         \/ /\ ~g.required
            /\ SizeTo(p, i) = SizeTo(p, i - 1) + size /\ Asked(p, i) = Asked(p, i + 1)

\* The names of the optional groups are counted.
LEMMA OptionalCounts ==
  ASSUME NEW p, ProtoOK(p), ProtoShape(p), OrderShape(p),
         NEW i \in 1 .. Len(p.positional)
  PROVE  /\ p.positional[i].names \in Seq(Names) /\ Len(p.positional[i].names) \in Nat \ {0}
         /\ IsFiniteSet(Members(p.positional[i].names))
         /\ Cardinality(Members(p.positional[i].names)) = Len(p.positional[i].names)
         /\ p.positional[i].required \in BOOLEAN
         /\ p.positional[i].required => Len(p.positional[i].names) = 1
         /\ OptionalOf(p.positional, i - 1) \cap Members(p.positional[i].names) = {}
<1> DEFINE s == p.positional
           g == s[i]
<1>1. GroupOK(g) /\ GroupShape(g) /\ Distinct(g.names) /\ Own(g)
  BY DEF ProtoOK, ProtoShape, OrderShape, Shapes
<1>2. g.names \in Seq(Names) /\ Len(g.names) > 0 /\ g.required \in BOOLEAN
  BY <1>1 DEF GroupOK, GroupType
<1>3. Len(g.names) \in Nat \ {0}
  BY <1>2
<1>4. g.required => Len(g.names) = 1
  <2> DEFINE size == Len(g.names)
  <2>1. g.required => size <= 1
    BY <1>1 DEF GroupShape
  <2>2. size \in Nat \ {0}
    BY <1>3
  <2> HIDE DEF size
  <2>3. size <= 1 => size = 1
    BY <2>2
  <2>4. g.required => size = 1
    BY <2>1, <2>3
  <2> QED BY <2>4 DEF size
<1>5. /\ IsFiniteSet(Members(g.names))
      /\ Cardinality(Members(g.names)) = Len(g.names)
  BY <1>1, <1>2, NamesCounted
<1>6. Len(s) \in Nat
  BY ProtoTyped DEF ProtoOK
<1>7. ASSUME NEW k \in 1 .. i - 1
      PROVE  Members(s[k].names) \cap Members(g.names) = {}
  <2>1. k \in 1 .. Len(s) /\ k # i
    BY <1>6
  <2>2. Apart(s[k], s[i])
    BY <2>1 DEF ProtoShape, NamesApart
  <2> QED BY <1>1, <2>2 DEF Apart, Own
<1>8. OptionalOf(s, i - 1) \cap Members(g.names) = {}
  BY <1>7 DEF OptionalOf
<1> QED BY <1>2, <1>3, <1>4, <1>5, <1>8

LEMMA OptionalFinite ==
  ASSUME NEW p, ProtoOK(p), ProtoShape(p), OrderShape(p)
  PROVE  \A j \in 0 .. Len(p.positional) : IsFiniteSet(OptionalOf(p.positional, j))
<1> DEFINE s == p.positional
           S == {j \in Nat : j <= Len(s) => IsFiniteSet(OptionalOf(s, j))}
<1>1. Len(s) \in Nat
  BY ProtoTyped DEF ProtoOK
<1>2. OptionalOf(s, 0) = {}
  <2>1. 1 .. 0 = {}
    OBVIOUS
  <2> QED BY <2>1 DEF OptionalOf
<1>3. 0 \in S
  BY <1>2, FS_EmptySet
<1>4. ASSUME NEW n \in S PROVE n + 1 \in S
  <2> SUFFICES ASSUME n + 1 <= Len(s) PROVE IsFiniteSet(OptionalOf(s, n + 1))
    OBVIOUS
  <2>1. n + 1 \in 1 .. Len(s) /\ n + 1 \in Nat \ {0} /\ n + 1 - 1 = n
    BY <1>1
  <2>2. IsFiniteSet(OptionalOf(s, n))
    BY <1>1
  <2>3. IsFiniteSet(Members(s[n + 1].names))
    BY <2>1, OptionalCounts
  <2>4. OptionalOf(s, n + 1) =
          OptionalOf(s, n) \cup (IF s[n + 1].required THEN {} ELSE Members(s[n + 1].names))
    BY <2>1, OptionalStep
  <2>5. IsFiniteSet(OptionalOf(s, n) \cup Members(s[n + 1].names))
    BY <2>2, <2>3, FS_Union
  <2> QED BY <2>2, <2>4, <2>5
<1> HIDE DEF S
<1>5. S \in SUBSET Nat
  BY DEF S
<1>6. S = Nat
  BY <1>3, <1>4, <1>5, InductionOnSet
<1> QED BY <1>1, <1>6 DEF S

LEMMA NumbersHold ==
  ASSUME NEW p, ProtoOK(p), ProtoShape(p), OrderShape(p), Counted(p)
  PROVE  NumbersOK(p)
<1> DEFINE s == p.positional
           L == Len(s)
<1>1. L \in Nat
  BY ProtoTyped DEF ProtoOK
<1>2. \A i \in 1 .. L + 1 : Asked(p, i) \in Nat
  <2>1. \A i \in 1 .. L + 1 : i \in Nat
    BY <1>1
  <2> QED BY <1>1, <2>1, RequiredFinite DEF Asked
<1>3. Asked(p, L + 1) = 0
  <2>1. L + 1 .. L = {}
    BY <1>1
  <2>2. RequiredFrom(s, L + 1) = {}
    BY <2>1 DEF RequiredFrom
  <2> QED BY <2>2, FS_EmptySet DEF Asked
<1>4. p.required = Asked(p, 1) /\ p.size = SizeTo(p, L)
  BY DEF Counted
<1>5. p.required \in Nat
  BY <1>1, <1>2, <1>4
<1>6. SizeTo(p, 0) = p.required
  <2>1. OptionalOf(s, 0) = {}
    <3>1. 1 .. 0 = {}
      OBVIOUS
    <3> QED BY <3>1 DEF OptionalOf
  <2>2. Cardinality({}) = 0
    BY FS_EmptySet
  <2> QED BY <1>5, <2>1, <2>2 DEF SizeTo
<1>7. \A j \in 0 .. L : IsFiniteSet(OptionalOf(s, j)) /\ Cardinality(OptionalOf(s, j)) \in Nat
  BY OptionalFinite, FS_CardinalityType
<1>8. \A j \in 0 .. L : SizeTo(p, j) \in Nat
  BY <1>5, <1>7 DEF SizeTo
<1>9. ASSUME NEW i \in 0 .. L, NEW j \in 0 .. L, i <= j PROVE SizeTo(p, i) <= SizeTo(p, j)
  <2>1. 1 .. i \subseteq 1 .. j
    BY <1>1, <1>9
  <2>2. OptionalOf(s, i) \in SUBSET OptionalOf(s, j)
    BY <2>1 DEF OptionalOf
  <2>3. Cardinality(OptionalOf(s, i)) <= Cardinality(OptionalOf(s, j))
    BY <1>7, <2>2, FS_Subset
  <2> QED BY <1>5, <1>7, <2>3 DEF SizeTo
<1> HIDE DEF s, L
<1>10. NumbersOK(p)
  BY <1>1, <1>2, <1>3, <1>4, <1>6, <1>8, <1>9 DEF NumbersOK, L, s
<1> QED BY <1>10

LEMMA GroupCountsHold ==
  ASSUME NEW p, ProtoOK(p), ProtoShape(p), OrderShape(p), Counted(p),
         NEW i \in 1 .. Len(p.positional)
  PROVE  GroupCounts(p, i)
<1> DEFINE s == p.positional
           g == s[i]
           size == Len(g.names)
           T == OptionalOf(s, i - 1)
<1>1. Len(s) \in Nat /\ p.required \in Nat
  <2>1. Len(s) \in Nat /\ p.required = Asked(p, 1)
    BY ProtoTyped DEF ProtoOK, Counted
  <2> QED BY <2>1, RequiredFinite DEF Asked
<1>2. /\ size \in Nat \ {0} /\ g.required \in BOOLEAN /\ (g.required => size = 1)
      /\ IsFiniteSet(Members(g.names)) /\ Cardinality(Members(g.names)) = size
      /\ T \cap Members(g.names) = {}
  BY OptionalCounts
<1>3. /\ IsFiniteSet(T) /\ Cardinality(T) \in Nat
  <2>1. i - 1 \in 0 .. Len(s)
    BY <1>1
  <2> QED BY <2>1, OptionalFinite, FS_CardinalityType
<1>4. /\ OptionalOf(s, i) = T \cup (IF g.required THEN {} ELSE Members(g.names))
  <2>1. i \in Nat \ {0}
    BY <1>1
  <2> QED BY <2>1, OptionalStep
<1>5. SizeTo(p, i) = SizeTo(p, i - 1) + (IF g.required THEN 0 ELSE size)
  <2>1. CASE g.required
    <3>1. OptionalOf(s, i) = T
      BY <1>4, <2>1
    <3> QED BY <1>1, <1>3, <2>1, <3>1 DEF SizeTo
  <2>2. CASE ~g.required
    <3>1. OptionalOf(s, i) = T \cup Members(g.names)
      BY <1>4, <2>2
    <3>2. Cardinality(OptionalOf(s, i)) = Cardinality(T) + size
      BY <1>2, <1>3, <3>1, CountedApart
    <3> QED BY <1>1, <1>2, <1>3, <2>2, <3>2 DEF SizeTo
  <2> QED BY <2>1, <2>2
<1> DEFINE R == RequiredFrom(s, i + 1)
<1>6. /\ RequiredFrom(s, i) = R \cup (IF g.required THEN {i} ELSE {})
      /\ i \notin R /\ IsFiniteSet(R) /\ Cardinality(R) \in Nat
  <2>1. i + 1 \in Nat
    BY <1>1
  <2> QED BY <1>1, <2>1, RequiredStep, RequiredFinite
<1>7. Asked(p, i) = Asked(p, i + 1) + (IF g.required THEN 1 ELSE 0)
  <2>1. CASE g.required
    <3>1. RequiredFrom(s, i) = R \cup {i}
      BY <1>6, <2>1
    <3>2. Cardinality(RequiredFrom(s, i)) = Cardinality(R) + 1
      BY <1>6, <3>1, FS_AddElement
    <3> QED BY <2>1, <3>2 DEF Asked
  <2>2. CASE ~g.required
    <3>1. RequiredFrom(s, i) = R
      BY <1>6, <2>2
    <3> QED BY <1>6, <2>2, <3>1 DEF Asked
  <2> QED BY <2>1, <2>2
<1>8. SizeTo(p, i - 1) \in Nat /\ Asked(p, i + 1) \in Nat
  BY <1>1, <1>3, <1>6 DEF SizeTo, Asked
<1> HIDE DEF s, g, size
<1>9. GroupCounts(p, i)
  BY <1>2, <1>5, <1>7, <1>8 DEF GroupCounts, s, g, size
<1> QED BY <1>9

-----------------------------------------------------------------------------
\* The constructor counts right.

Counters(r, s, n, m) == r.positional = s /\ r.required = n /\ r.size = m

LEMMA UpdatesCount ==
  ASSUME NEW p \in Prototypes
  PROVE  /\ \A names, e, elided :
              Counters(Renamed(p, names, e, elided), p.positional, p.required, p.size)
         /\ \A dash, bare : Counters(Dashed(p, dash, bare), p.positional, p.required, p.size)
         /\ \A names : Counters(SomeMore(p, names), p.positional, p.required, p.size)
         /\ \A flags, names :
              Counters(Flagged(p, flags, names), p.positional, p.required, p.size)
         /\ \A s, n, m : Counters(Longer(p, s, n, m), s, n, m)
         /\ \A s : Counters(Replaced(p, s), s, p.required, p.size)
<1>1. \A names, e, elided :
        Counters(Renamed(p, names, e, elided), p.positional, p.required, p.size)
  BY DEF Prototypes, Renamed, Counters
<1>2. \A dash, bare : Counters(Dashed(p, dash, bare), p.positional, p.required, p.size)
  BY DEF Prototypes, Dashed, Counters
<1>3. \A names : Counters(SomeMore(p, names), p.positional, p.required, p.size)
  BY DEF Prototypes, SomeMore, Counters
<1>4. \A flags, names : Counters(Flagged(p, flags, names), p.positional, p.required, p.size)
  BY DEF Prototypes, Flagged, Counters
<1>5. \A s, n, m : Counters(Longer(p, s, n, m), s, n, m)
  BY DEF Prototypes, Longer, Counters
<1>6. \A s : Counters(Replaced(p, s), s, p.required, p.size)
  BY DEF Prototypes, Replaced, Counters
<1> QED BY <1>1, <1>2, <1>3, <1>4, <1>5, <1>6

\* The counters change with the groups.
CountersMove(p, g, r) ==
  \/ \E t : /\ Alike(p.positional, t) /\ Counters(r, t, p.required, p.size)
  \/ /\ g.names # << >>
     /\ Counters(r, Append(p.positional, g), p.required + (IF g.required THEN 1 ELSE 0),
                 p.size + Len(g.names))

LEMMA WithGroupCounts ==
  ASSUME NEW p, ProtoOK(p), NEW g \in Groups, PlaceFits(p, g)
  PROVE  CountersMove(p, g, WithGroup(Named(p, g), g))
<1> DEFINE q == Named(p, g)
           r == WithGroup(q, g)
           s == p.positional
           last == Len(q.positional)
<1> SUFFICES CountersMove(p, g, r)
  OBVIOUS
<1>0. /\ IsDashDash(g) => g.names # << >> /\ ~IsDashStar(g) /\ ~IsFlagGroup(g)
      /\ IsDashStar(g) => g.names # << >> /\ ~IsFlagGroup(g)
      /\ IsFlagGroup(g) => g.names # << >>
  BY OneKind
<1>1. Counters(q, s, p.required, p.size) /\ q \in Prototypes
  <2> DEFINE e == IF g.elipsis = 0 THEN LastOf(LastOf(p.positional).names)
                  ELSE IF g.elipsis = NoElipsis THEN p.elipsis ELSE g.names[g.elipsis]
  <2>1. q = Renamed(p, p.names \cup Members(g.names), e, p.elided \/ g.elipsis # NoElipsis)
    BY DEF Named, Renamed
  <2>2. p \in Prototypes /\ q \in Prototypes
    BY NamedOK DEF ProtoOK
  <2> HIDE DEF e, q
  <2> QED BY <2>1, <2>2, UpdatesCount
<1> HIDE DEF q
<1>2. s \in Seq(GroupType) /\ Alike(s, s)
  BY ProtoTyped DEF ProtoOK, Alike
<1>3. CASE g.names = << >>
  <2> DEFINE t == [q.positional EXCEPT ![last] =
                     [q.positional[last] EXCEPT !.elipsis = Len(q.positional[last].names)]]
  <2>1. r = Replaced(q, t)
    BY <1>0, <1>3 DEF WithGroup, Replaced
  <2>2. Opened(q.positional, t, {}, {})
    BY DEF Opened
  <2> HIDE DEF t, r
  <2>3. Counters(r, t, p.required, p.size)
    BY <1>1, <2>1, UpdatesCount DEF Counters
  <2>4. s # << >>
    BY <1>3, GroupsTyped DEF PlaceFits
  <2>5. Opened(s, t, {}, {})
    BY <1>1, <2>2 DEF Counters
  <2>6. Alike(s, t)
    BY <1>2, <2>4, <2>5, OpenedAlike
  <2> QED BY <2>3, <2>6 DEF CountersMove
<1>4. CASE g.names # << >> /\ IsDashDash(g)
  <2>1. r = Dashed(q, last, g.required)
    BY <1>0, <1>4 DEF WithGroup, Dashed
  <2> HIDE DEF r
  <2>2. Counters(r, s, p.required, p.size)
    BY <1>1, <2>1, UpdatesCount DEF Counters
  <2> QED BY <1>2, <2>2 DEF CountersMove
<1>5. CASE g.names # << >> /\ ~IsDashDash(g) /\ IsDashStar(g)
  <2>1. r = SomeMore(q, q.names \cup {"-*", "-?"})
    BY <1>0, <1>5 DEF WithGroup, SomeMore
  <2> HIDE DEF r
  <2>2. Counters(r, s, p.required, p.size)
    BY <1>1, <2>1, UpdatesCount DEF Counters
  <2> QED BY <1>2, <2>2 DEF CountersMove
<1>6. CASE g.names # << >> /\ ~IsDashDash(g) /\ ~IsDashStar(g) /\ IsFlagGroup(g)
  <2>1. r = Flagged(q, q.flags \cup {g}, q.names \cup {"-*"})
    BY <1>0, <1>6 DEF WithGroup, Flagged
  <2> HIDE DEF r
  <2>2. Counters(r, s, p.required, p.size)
    BY <1>1, <2>1, UpdatesCount DEF Counters
  <2> QED BY <1>2, <2>2 DEF CountersMove
<1>7. CASE g.names # << >> /\ ~IsDashDash(g) /\ ~IsDashStar(g) /\ ~IsFlagGroup(g)
  <2> DEFINE n == q.required + (IF g.required THEN 1 ELSE 0)
             m == q.size + Len(g.names)
             t == Append(q.positional, g)
  <2>1. r = Longer(q, t, n, m)
    BY <1>0, <1>7 DEF WithGroup, Longer
  <2> HIDE DEF r
  <2>2. Counters(r, t, n, m)
    <3> HIDE DEF t, n, m
    <3> QED BY <1>1, <2>1, UpdatesCount
  <2>3. /\ t = Append(s, g) /\ n = p.required + (IF g.required THEN 1 ELSE 0)
        /\ m = p.size + Len(g.names)
    BY <1>1 DEF Counters
  <2> HIDE DEF t, n, m
  <2> QED BY <1>7, <2>2, <2>3 DEF CountersMove
<1> QED BY <1>3, <1>4, <1>5, <1>6, <1>7

LEMMA AlikeCounts ==
  ASSUME NEW s, Len(s) \in Nat, NEW t, Alike(s, t),
         NEW j \in 0 .. Len(s), NEW i \in Nat \ {0}
  PROVE  /\ OptionalOf(t, j) = OptionalOf(s, j)
         /\ RequiredFrom(t, i) = RequiredFrom(s, i)
<1>1. 1 .. j \subseteq 1 .. Len(s) /\ i .. Len(s) \subseteq 1 .. Len(s)
  OBVIOUS
<1>2. Len(t) = Len(s)
  BY DEF Alike
<1>3. \A k \in 1 .. j : Members(t[k].names) = Members(s[k].names) /\ t[k].required = s[k].required
  BY <1>1 DEF Alike
<1>4. {k \in 1 .. j : ~t[k].required} = {k \in 1 .. j : ~s[k].required}
  BY <1>3
<1>5. OptionalOf(t, j) = OptionalOf(s, j)
  BY <1>3, <1>4 DEF OptionalOf
<1>6. RequiredFrom(t, i) = RequiredFrom(s, i)
  <2>1. \A k \in i .. Len(s) : t[k].required = s[k].required
    BY <1>1 DEF Alike
  <2> QED BY <1>2, <2>1 DEF RequiredFrom
<1> QED BY <1>5, <1>6

LEMMA AppendedCounts ==
  ASSUME NEW s \in Seq(GroupType), NEW g \in GroupType
  PROVE  LET t == Append(s, g)
         IN  /\ OptionalOf(t, Len(s)) = OptionalOf(s, Len(s))
             /\ RequiredFrom(t, 1) =
                  RequiredFrom(s, 1) \cup (IF g.required THEN {Len(s) + 1} ELSE {})
             /\ Len(s) + 1 \notin RequiredFrom(s, 1)
<1> DEFINE t == Append(s, g)
           n == Len(s)
<1>1. n \in Nat /\ Len(t) = n + 1 /\ t[n + 1] = g /\ \A i \in 1 .. n : t[i] = s[i]
  BY AppendIs
<1> HIDE DEF t, n
<1>2. {k \in 1 .. n : ~t[k].required} = {k \in 1 .. n : ~s[k].required}
  BY <1>1
<1>3. OptionalOf(t, n) = OptionalOf(s, n)
  BY <1>1, <1>2 DEF OptionalOf
<1>4. \A k : k \in 1 .. Len(t) <=> k \in 1 .. n \/ k = n + 1
  BY <1>1
<1>5. RequiredFrom(t, 1) = {k \in 1 .. n : s[k].required} \cup (IF g.required THEN {n + 1} ELSE {})
  BY <1>1, <1>4 DEF RequiredFrom
<1>6. n + 1 \notin 1 .. n
  BY <1>1
<1> QED BY <1>3, <1>5, <1>6 DEF RequiredFrom, n, t

LEMMA DeclareCounts ==
  ASSUME NEW p, ProtoOK(p), Counted(p), NEW g \in Groups, NEW r, CountersMove(p, g, r),
         ProtoOK(r), ProtoShape(r), OrderShape(r)
  PROVE  Counted(r)
<1> DEFINE s == p.positional
           t == r.positional
           n == Len(s)
<1>1. s \in Seq(GroupType) /\ n \in Nat /\ g \in GroupType
  BY ProtoTyped, GroupsTyped DEF ProtoOK
<1>2. p.required \in Nat
  BY <1>1, RequiredFinite DEF Counted, Asked
<1>3. CASE Alike(s, t) /\ r.required = p.required /\ r.size = p.size
  <2>1. /\ OptionalOf(t, n) = OptionalOf(s, n) /\ RequiredFrom(t, 1) = RequiredFrom(s, 1)
        /\ Len(t) = n
    <3>1. n \in 0 .. n /\ 1 \in Nat \ {0}
      BY <1>1
    <3> QED BY <1>1, <1>3, <3>1, AlikeCounts DEF Alike
  <2> QED BY <1>3, <2>1 DEF Counted, SizeTo, Asked
<1>4. CASE /\ t = Append(s, g) /\ r.required = p.required + (IF g.required THEN 1 ELSE 0)
           /\ r.size = p.size + Len(g.names)
  <2>1. Len(t) = n + 1 /\ t[n + 1] = g /\ n + 1 \in 1 .. Len(t) /\ n + 1 - 1 = n
        /\ n + 1 \in Nat \ {0} /\ n \in 0 .. Len(t)
    BY <1>1, <1>4, AppendIs
  <2>2. /\ OptionalOf(t, n) = OptionalOf(s, n)
        /\ RequiredFrom(t, 1) = RequiredFrom(s, 1) \cup (IF g.required THEN {n + 1} ELSE {})
        /\ n + 1 \notin RequiredFrom(s, 1)
    BY <1>1, <1>4, AppendedCounts
  <2>3. /\ Len(g.names) \in Nat \ {0} /\ (g.required => Len(g.names) = 1)
        /\ IsFiniteSet(Members(g.names)) /\ Cardinality(Members(g.names)) = Len(g.names)
        /\ OptionalOf(t, n) \cap Members(g.names) = {}
    <3> HIDE DEF t, n
    <3>1. \A i \in 1 .. Len(t) :
            /\ Len(t[i].names) \in Nat \ {0} /\ (t[i].required => Len(t[i].names) = 1)
            /\ IsFiniteSet(Members(t[i].names))
            /\ Cardinality(Members(t[i].names)) = Len(t[i].names)
            /\ OptionalOf(t, i - 1) \cap Members(t[i].names) = {}
      BY OptionalCounts DEF t
    <3> QED BY <2>1, <3>1
  <2>4. OptionalOf(t, n + 1) = OptionalOf(t, n) \cup (IF g.required THEN {} ELSE Members(g.names))
    BY <2>1, OptionalStep
  <2>5. IsFiniteSet(OptionalOf(t, n)) /\ Cardinality(OptionalOf(t, n)) \in Nat
    BY <2>1, OptionalFinite, FS_CardinalityType
  <2>6. /\ IsFiniteSet(RequiredFrom(s, 1)) /\ Cardinality(RequiredFrom(s, 1)) \in Nat
    BY <1>1, RequiredFinite
  <2>7. p.required = Cardinality(RequiredFrom(s, 1))
        /\ p.size = p.required + Cardinality(OptionalOf(s, n))
    BY DEF Counted, SizeTo, Asked
  <2>8. CASE g.required
    <3>1. Cardinality(RequiredFrom(t, 1)) = Cardinality(RequiredFrom(s, 1)) + 1
      BY <2>2, <2>6, <2>8, FS_AddElement
    <3>2. OptionalOf(t, n + 1) = OptionalOf(s, n)
      BY <2>2, <2>4, <2>8
    <3>3. r.required = p.required + 1 /\ r.size = p.size + 1
      BY <1>4, <2>3, <2>8
    <3>4. r.required = Cardinality(RequiredFrom(t, 1))
      BY <2>7, <3>1, <3>3
    <3>5. r.size = r.required + Cardinality(OptionalOf(t, n + 1))
      BY <1>2, <2>2, <2>5, <2>7, <3>2, <3>3
    <3> QED BY <2>1, <3>4, <3>5 DEF Counted, SizeTo, Asked
  <2>9. CASE ~g.required
    <3>1. RequiredFrom(t, 1) = RequiredFrom(s, 1)
      BY <2>2, <2>9
    <3>2. Cardinality(OptionalOf(t, n + 1)) = Cardinality(OptionalOf(s, n)) + Len(g.names)
      BY <2>2, <2>3, <2>4, <2>5, <2>9, CountedApart
    <3>3. r.required = p.required /\ r.size = p.size + Len(g.names)
      BY <1>2, <1>4, <2>9
    <3>4. r.size = r.required + Cardinality(OptionalOf(t, n + 1))
      BY <1>2, <2>2, <2>3, <2>5, <2>7, <3>2, <3>3
    <3> QED BY <2>1, <2>7, <3>1, <3>3, <3>4 DEF Counted, SizeTo, Asked
  <2> QED BY <2>8, <2>9
<1> QED BY <1>3, <1>4 DEF CountersMove, Counters

-----------------------------------------------------------------------------
\* The walk along the groups, by the numbers alone: n words are there for the groups,
\* it is the turn of the group m, a words and c names are left.

\* All groups up to here have got their words, which leaves too few for none of them.
Smaller(p, n, j) ==
  \A i \in 0 .. Len(p.positional) : SizeTo(p, i) < SizeTo(p, j) => SizeTo(p, i) < n

Opens(p, i) == p.positional[i].elipsis # NoElipsis

Filling(p, n, m, a, c) ==
  /\ a = n - SizeTo(p, m - 1) + Asked(p, m) /\ c = NamesFrom(p, m)
  /\ Smaller(p, n, m - 1)
  /\ \A i \in 1 .. m - 1 : Opens(p, i) => a <= c

\* "..." has got what is too much.
Spilling(p, n, m, a, c) ==
  /\ \E i \in 1 .. Len(p.positional) : Opens(p, i)
  /\ n > SizeTo(p, Len(p.positional)) /\ a = NamesFrom(p, m) /\ c = NamesFrom(p, m)

\* What is left is for the required groups: none of the optional ones behind the group
\* j gets any.
Saving(p, n, j, m, a, c) ==
  /\ n <= SizeTo(p, j) /\ a = n - SizeTo(p, j) + Asked(p, m) /\ c >= Asked(p, m)
  /\ Smaller(p, n, j)

\* As long as there have been no words for groups, all that can have happened is that
\* optional ones have been left out.
Filled(p, n, fresh, m, a, c) ==
  \/ ~fresh /\ Filling(p, n, m, a, c)
  \/ ~fresh /\ Spilling(p, n, m, a, c)
  \/ ~fresh /\ \E j \in 0 .. Len(p.positional) : Saving(p, n, j, m, a, c)
  \/ fresh /\ m = 1 /\ Filling(p, n, m, a, c)
  \/ fresh /\ Saving(p, n, 0, m, a, c)

FitsIn(p, n) ==
  \/ \E j \in 0 .. Len(p.positional) : n = SizeTo(p, j)
  \/ (\E i \in 1 .. Len(p.positional) : Opens(p, i)) /\ n >= SizeTo(p, Len(p.positional))

LEMMA FilledStart ==
  ASSUME NEW p, NumbersOK(p), NEW n \in Nat
  PROVE  Filled(p, n, TRUE, 1, n, p.size)
<1> DEFINE L == Len(p.positional)
<1>1. /\ L \in Nat /\ SizeTo(p, 0) = Asked(p, 1) /\ p.size = SizeTo(p, L)
      /\ \A j \in 0 .. L : SizeTo(p, j) \in Nat /\ SizeTo(p, 0) <= SizeTo(p, j)
  BY DEF NumbersOK
<1>2. SizeTo(p, 0) \in Nat /\ SizeTo(p, L) \in Nat /\ 1 - 1 = 0
  BY <1>1
<1>3. n = n - SizeTo(p, 0) + Asked(p, 1) /\ p.size = NamesFrom(p, 1)
  BY <1>1, <1>2 DEF NamesFrom
<1>4. Smaller(p, n, 0)
  BY <1>1, <1>2 DEF Smaller
<1>5. 1 .. 1 - 1 = {}
  OBVIOUS
<1> QED BY <1>2, <1>3, <1>4, <1>5 DEF Filled, Filling

\* Words that are passed on are there for no group.
LEMMA FilledPassed ==
  ASSUME NEW p, NumbersOK(p), NEW n \in Int, NEW m \in Nat, NEW a \in Int, NEW c \in Int,
         m \in 1 .. Len(p.positional) + 1,
         Filled(p, n, TRUE, m, a, c), NEW d \in Nat
  PROVE  Filled(p, n - d, TRUE, m, a - d, c)
<1> DEFINE L == Len(p.positional)
<1>1. /\ L \in Nat
      /\ \A j \in 0 .. L : SizeTo(p, j) \in Nat /\ SizeTo(p, 0) <= SizeTo(p, j)
      /\ \A i \in 1 .. L + 1 : Asked(p, i) \in Nat
  BY DEF NumbersOK
<1>2. SizeTo(p, 0) \in Nat /\ 1 - 1 = 0 /\ Asked(p, m) \in Nat /\ 1 .. 1 - 1 = {}
  BY <1>1
<1>3. Smaller(p, n - d, 0)
  BY <1>1, <1>2 DEF Smaller
<1>4. CASE m = 1 /\ Filling(p, n, m, a, c)
  <2>1. a = n - SizeTo(p, 0) + Asked(p, m) /\ c = NamesFrom(p, m)
    BY <1>2, <1>4 DEF Filling
  <2>2. a - d = (n - d) - SizeTo(p, 0) + Asked(p, m)
    BY <1>2, <2>1
  <2>3. Filling(p, n - d, m, a - d, c)
    BY <1>2, <1>3, <1>4, <2>1, <2>2 DEF Filling
  <2> QED BY <1>4, <2>3 DEF Filled
<1>5. CASE Saving(p, n, 0, m, a, c)
  <2>1. n <= SizeTo(p, 0) /\ a = n - SizeTo(p, 0) + Asked(p, m) /\ c >= Asked(p, m)
    BY <1>5 DEF Saving
  <2>2. n - d <= SizeTo(p, 0) /\ a - d = (n - d) - SizeTo(p, 0) + Asked(p, m)
    BY <1>2, <2>1
  <2>3. Saving(p, n - d, 0, m, a - d, c)
    BY <1>3, <2>1, <2>2 DEF Saving
  <2> QED BY <2>3 DEF Filled
<1> QED BY <1>4, <1>5 DEF Filled

\* What the arithmetic needs of the group whose turn it is.
LEMMA TurnOf ==
  ASSUME NEW p, NumbersOK(p), NEW m \in 1 .. Len(p.positional), GroupCounts(p, m)
  PROVE  /\ Len(p.positional) \in Nat /\ m - 1 \in 0 .. Len(p.positional)
         /\ m \in 0 .. Len(p.positional) /\ m + 1 - 1 = m
         /\ SizeTo(p, m - 1) \in Nat /\ SizeTo(p, m) \in Nat
         /\ SizeTo(p, Len(p.positional)) \in Nat
         /\ SizeTo(p, m) <= SizeTo(p, Len(p.positional))
         /\ SizeTo(p, m - 1) <= SizeTo(p, Len(p.positional))
         /\ Asked(p, m) \in Nat /\ Asked(p, m + 1) \in Nat
         /\ NamesFrom(p, m) = SizeTo(p, Len(p.positional)) - SizeTo(p, m - 1) + Asked(p, m)
         /\ NamesFrom(p, m + 1) = SizeTo(p, Len(p.positional)) - SizeTo(p, m) + Asked(p, m + 1)
         /\ NamesFrom(p, m) = NamesFrom(p, m + 1) + Len(p.positional[m].names)
         /\ NamesFrom(p, m) \in Nat /\ NamesFrom(p, m + 1) \in Nat
<1> DEFINE L == Len(p.positional)
           size == Len(p.positional[m].names)
<1>1. /\ L \in Nat
      /\ \A j \in 0 .. L : SizeTo(p, j) \in Nat
      /\ \A i, j \in 0 .. L : i <= j => SizeTo(p, i) <= SizeTo(p, j)
      /\ \A i \in 1 .. L + 1 : Asked(p, i) \in Nat
  BY DEF NumbersOK
<1>2. /\ m - 1 \in 0 .. L /\ m \in 0 .. L /\ m + 1 - 1 = m /\ L \in 0 .. L
      /\ m <= L /\ m - 1 <= L /\ m \in 1 .. L + 1 /\ m + 1 \in 1 .. L + 1
  BY <1>1
<1>3. /\ SizeTo(p, m - 1) \in Nat /\ SizeTo(p, m) \in Nat /\ SizeTo(p, L) \in Nat
      /\ SizeTo(p, m) <= SizeTo(p, L) /\ SizeTo(p, m - 1) <= SizeTo(p, L)
      /\ Asked(p, m) \in Nat /\ Asked(p, m + 1) \in Nat
  BY <1>1, <1>2
<1>4. /\ NamesFrom(p, m) = SizeTo(p, L) - SizeTo(p, m - 1) + Asked(p, m)
      /\ NamesFrom(p, m + 1) = SizeTo(p, L) - SizeTo(p, m) + Asked(p, m + 1)
  BY <1>2 DEF NamesFrom
<1>5. /\ size \in Nat
      /\ \/ SizeTo(p, m) = SizeTo(p, m - 1) /\ Asked(p, m) = Asked(p, m + 1) + 1 /\ size = 1
         \/ SizeTo(p, m) = SizeTo(p, m - 1) + size /\ Asked(p, m) = Asked(p, m + 1)
  BY DEF GroupCounts
<1> HIDE DEF L, size
<1>6. NamesFrom(p, m) \in Nat /\ NamesFrom(p, m + 1) \in Nat
  BY <1>3, <1>4
<1>7. NamesFrom(p, m) = NamesFrom(p, m + 1) + size
  <2> DEFINE w == SizeTo(p, L)
             u == SizeTo(p, m - 1)
             v == SizeTo(p, m)
             x == Asked(p, m)
             y == Asked(p, m + 1)
  <2>1. /\ w \in Int /\ u \in Int /\ v \in Int /\ x \in Int /\ y \in Int
        /\ NamesFrom(p, m) = w - u + x /\ NamesFrom(p, m + 1) = w - v + y
        /\ size \in Int
        /\ \/ v = u /\ x = y + 1 /\ size = 1
           \/ v = u + size /\ x = y
    BY <1>3, <1>4, <1>5
  <2> HIDE DEF u, v, w, x, y
  <2> QED BY <2>1
<1> QED BY <1>1, <1>2, <1>3, <1>4, <1>6, <1>7 DEF L, size

\* An optional group is left out.
LEMMA FilledSkipped ==
  ASSUME NEW p, NumbersOK(p), NEW m \in 1 .. Len(p.positional), GroupCounts(p, m),
         ~p.positional[m].required,
         NEW n \in Int, NEW a \in Int, NEW c \in Int, NEW fresh \in BOOLEAN,
         a <= Asked(p, m), Filled(p, n, fresh, m, a, c)
  PROVE  Filled(p, n, fresh, m + 1, a, c)
<1> DEFINE L == Len(p.positional)
           size == Len(p.positional[m].names)
<1>1. /\ size \in Nat \ {0} /\ SizeTo(p, m) = SizeTo(p, m - 1) + size
      /\ Asked(p, m) = Asked(p, m + 1)
  BY DEF GroupCounts
<1>2. /\ m - 1 \in 0 .. L
      /\ SizeTo(p, m - 1) \in Nat /\ SizeTo(p, m) \in Nat /\ SizeTo(p, L) \in Nat
      /\ SizeTo(p, m) <= SizeTo(p, L) /\ SizeTo(p, m - 1) <= SizeTo(p, L)
      /\ Asked(p, m) \in Nat /\ Asked(p, m + 1) \in Nat
      /\ NamesFrom(p, m) = SizeTo(p, L) - SizeTo(p, m - 1) + Asked(p, m)
  BY TurnOf
<1> HIDE DEF L, size
<1>3. CASE Filling(p, n, m, a, c) /\ (fresh => m = 1)
  <2>1. a = n - SizeTo(p, m - 1) + Asked(p, m) /\ c = NamesFrom(p, m) /\ Smaller(p, n, m - 1)
    BY <1>3 DEF Filling
  <2>2. /\ n <= SizeTo(p, m - 1) /\ a = n - SizeTo(p, m - 1) + Asked(p, m + 1)
        /\ c >= Asked(p, m + 1)
    BY <1>1, <1>2, <2>1
  <2>3. Saving(p, n, m - 1, m + 1, a, c)
    BY <2>1, <2>2 DEF Saving
  <2>4. fresh => Saving(p, n, 0, m + 1, a, c)
    BY <1>3, <2>3
  <2> QED BY <1>2, <2>3, <2>4 DEF Filled, L
<1>4. ~Spilling(p, n, m, a, c)
  <2>1. SUFFICES ASSUME a = NamesFrom(p, m) PROVE FALSE
    BY DEF Spilling
  <2> QED BY <1>1, <1>2, <2>1
<1>5. ASSUME NEW j, Saving(p, n, j, m, a, c) PROVE Saving(p, n, j, m + 1, a, c)
  BY <1>1, <1>5 DEF Saving
<1>6. CASE ~fresh /\ \E j \in 0 .. L : Saving(p, n, j, m, a, c)
  BY <1>5, <1>6 DEF Filled, L
<1>7. CASE fresh /\ Saving(p, n, 0, m, a, c)
  BY <1>5, <1>7 DEF Filled
<1> QED BY <1>3, <1>4, <1>6, <1>7 DEF Filled, L

\* A group gets its words.
LEMMA FilledTaken ==
  ASSUME NEW p, NumbersOK(p), NEW m \in 1 .. Len(p.positional), GroupCounts(p, m),
         NEW n \in Int, NEW a \in Int, NEW c \in Int, NEW fresh \in BOOLEAN, NEW extra \in Nat,
         p.positional[m].required \/ a > Asked(p, m),
         \/ extra = 0 /\ (~Opens(p, m) \/ a <= c)
         \/ Opens(p, m) /\ a > c /\ extra = a - c,
         Filled(p, n, fresh, m, a, c)
  PROVE  Filled(p, n, FALSE, m + 1, a - Len(p.positional[m].names) - extra,
                c - Len(p.positional[m].names))
<1> DEFINE L == Len(p.positional)
           size == Len(p.positional[m].names)
           b == a - size - extra
           d == c - size
           w == SizeTo(p, L)
           u == SizeTo(p, m - 1)
           v == SizeTo(p, m)
           x == Asked(p, m)
           y == Asked(p, m + 1)
           f == NamesFrom(p, m)
           h == NamesFrom(p, m + 1)
<1> SUFFICES Filled(p, n, FALSE, m + 1, b, d)
  OBVIOUS
<1>1. /\ size \in Nat \ {0}
      /\ \/ p.positional[m].required /\ size = 1 /\ v = u /\ x = y + 1
         \/ ~p.positional[m].required /\ a > x /\ v = u + size /\ x = y
  BY DEF GroupCounts
<1>2. /\ L \in Nat /\ m - 1 \in 0 .. L /\ m \in 0 .. L /\ m + 1 - 1 = m
      /\ w \in Int /\ u \in Int /\ v \in Int /\ x \in Nat /\ y \in Int
      /\ f \in Int /\ h \in Int
      /\ f = w - u + x /\ f = h + size
  BY TurnOf
<1>3. /\ b = a - size - extra /\ d = c - size /\ size \in Int /\ extra \in Int
  BY <1>1
<1>4. (v = u /\ x = y + 1 /\ size = 1) \/ (v = u + size /\ x = y /\ a > x)
  BY <1>1
<1> HIDE DEF L, size, b, d, w, u, v, x, y, f, h
<1>5. CASE Filling(p, n, m, a, c) /\ extra = 0 /\ (~Opens(p, m) \/ a <= c)
  <2>1. /\ a = n - u + x /\ c = f
        /\ Smaller(p, n, m - 1) /\ \A i \in 1 .. m - 1 : Opens(p, i) => a <= c
    BY <1>5 DEF Filling, u, x, f
  <2>2. b = n - v + y /\ d = h
    BY <1>2, <1>3, <1>4, <1>5, <2>1
  <2>3. Smaller(p, n, m)
    <3> SUFFICES ASSUME NEW i \in 0 .. L, SizeTo(p, i) < v PROVE SizeTo(p, i) < n
      BY DEF Smaller, L, v
    <3>1. SizeTo(p, i) \in Int
      BY DEF NumbersOK, L
    <3>2. CASE v = u
      BY <2>1, <3>2 DEF Smaller, L, u
    <3>3. CASE v # u
      <4>1. u < n
        BY <1>2, <1>4, <2>1, <3>3
      <4>2. m <= i => v <= SizeTo(p, i)
        BY <1>2 DEF NumbersOK, L, v
      <4>3. i <= m - 1
        BY <1>2, <3>1, <4>2
      <4>4. SizeTo(p, i) <= u
        BY <1>2, <4>3 DEF NumbersOK, L, u
      <4> QED BY <1>2, <3>1, <4>1, <4>4
    <3> QED BY <3>2, <3>3
  <2>4. ASSUME NEW i \in 1 .. m + 1 - 1, Opens(p, i) PROVE b <= d
    <3>1. i \in 1 .. m - 1 \/ i = m
      BY <1>2
    <3>2. a <= c
      BY <1>5, <2>1, <2>4, <3>1
    <3> QED BY <1>3, <1>5, <3>2
  <2>5. Filling(p, n, m + 1, b, d)
    BY <1>2, <2>2, <2>3, <2>4 DEF Filling, v, y, h
  <2> QED BY <2>5 DEF Filled
<1>6. CASE Filling(p, n, m, a, c) /\ Opens(p, m) /\ a > c /\ extra = a - c
  <2>1. a = n - u + x /\ c = f
    BY <1>6 DEF Filling, u, x, f
  <2>2. n > w /\ b = h /\ d = h
    BY <1>2, <1>3, <1>6, <2>1
  <2>3. \E i \in 1 .. L : Opens(p, i)
    BY <1>6 DEF L
  <2>4. Spilling(p, n, m + 1, b, d)
    BY <2>2, <2>3 DEF Spilling, L, w, h
  <2> QED BY <2>4 DEF Filled
<1>7. CASE Spilling(p, n, m, a, c)
  <2>1. a = f /\ c = f
    BY <1>7 DEF Spilling, f
  <2>2. extra = 0
    BY <2>1
  <2>3. b = h /\ d = h
    BY <1>2, <1>3, <2>1, <2>2
  <2>4. Spilling(p, n, m + 1, b, d)
    BY <1>7, <2>3 DEF Spilling, h
  <2> QED BY <2>4 DEF Filled
<1>8. ASSUME NEW j \in 0 .. L, Saving(p, n, j, m, a, c)
      PROVE  Filled(p, n, FALSE, m + 1, b, d)
  <2> DEFINE z == SizeTo(p, j)
  <2>1. n <= z /\ a = n - z + x /\ c >= x /\ Smaller(p, n, j)
    BY <1>8 DEF Saving, x
  <2>2. z \in Int
    BY DEF NumbersOK, L
  <2> HIDE DEF z
  <2>3. a <= x
    BY <1>2, <2>1, <2>2
  <2>4. extra = 0
    BY <1>2, <2>1, <2>3
  <2>5. size = 1 /\ x = y + 1
    BY <1>2, <1>4, <2>3
  <2>6. b = n - z + y /\ d >= y
    BY <1>2, <1>3, <2>1, <2>2, <2>4, <2>5
  <2>7. Saving(p, n, j, m + 1, b, d)
    BY <2>1, <2>6 DEF Saving, y, z
  <2> QED BY <2>7 DEF Filled, L
<1>9. 0 \in 0 .. L
  BY <1>2
<1>10. \/ Filling(p, n, m, a, c) \/ Spilling(p, n, m, a, c)
       \/ \E j \in 0 .. L : Saving(p, n, j, m, a, c)
  BY <1>9 DEF Filled, L
<1> QED BY <1>5, <1>6, <1>7, <1>8, <1>10

\* There are no words left: none are missing just in case there were as many as fit.
LEMMA FilledEnd ==
  ASSUME NEW p, NumbersOK(p), NEW m \in 1 .. Len(p.positional) + 1,
         NEW n \in Int, NEW a \in Int, NEW c \in Int, NEW fresh \in BOOLEAN,
         a <= 0, Filled(p, n, fresh, m, a, c)
  PROVE  FitsIn(p, n) <=> Asked(p, m) = 0 /\ a = 0
<1> DEFINE L == Len(p.positional)
           w == SizeTo(p, L)
           x == Asked(p, m)
<1>1. /\ L \in Nat /\ m - 1 \in 0 .. L /\ L \in 0 .. L /\ 0 \in 0 .. L
      /\ \A j \in 0 .. L : SizeTo(p, j) \in Nat /\ SizeTo(p, j) <= w
      /\ w \in Nat /\ x \in Nat
  BY DEF NumbersOK
<1> HIDE DEF L, w, x
<1>2. ASSUME NEW j \in 0 .. L, Smaller(p, n, j), a = n - SizeTo(p, j) + x
      PROVE  FitsIn(p, n) <=> x = 0 /\ a = 0
  <2> DEFINE z == SizeTo(p, j)
  <2>1. z \in Nat /\ z <= w
    BY <1>1
  <2>2. \A i \in 0 .. L : SizeTo(p, i) < z => SizeTo(p, i) < n
    BY <1>2 DEF Smaller, L
  <2>3. a = n - z + x
    BY <1>2
  <2> HIDE DEF z
  <2>4. ASSUME x = 0, a = 0 PROVE FitsIn(p, n)
    <3>1. n = z
      BY <2>1, <2>3, <2>4
    <3> QED BY <3>1 DEF FitsIn, L, z
  <2>5. ASSUME FitsIn(p, n) PROVE n >= z
    <3>1. CASE \E i \in 0 .. L : n = SizeTo(p, i)
      <4>1. PICK i \in 0 .. L : n = SizeTo(p, i)
        BY <3>1
      <4>2. ~(n < z)
        BY <2>2, <4>1
      <4> QED BY <2>1, <4>2
    <3>2. CASE n >= w
      BY <1>1, <2>1, <3>2
    <3> QED BY <2>5, <3>1, <3>2 DEF FitsIn, L, w
  <2>6. n >= z => x = 0 /\ a = 0
    BY <1>1, <2>1, <2>3
  <2> QED BY <2>4, <2>5, <2>6
<1>3. CASE Filling(p, n, m, a, c)
  <2>1. Smaller(p, n, m - 1) /\ a = n - SizeTo(p, m - 1) + x
    BY <1>3 DEF Filling, x
  <2> QED BY <1>1, <1>2, <2>1 DEF x
<1>4. CASE Spilling(p, n, m, a, c)
  <2> DEFINE u == SizeTo(p, m - 1)
  <2>1. n > w /\ a = w - u + x
    BY <1>4 DEF Spilling, NamesFrom, L, w, x
  <2>2. u \in Nat /\ u <= w
    BY <1>1
  <2> HIDE DEF u
  <2>3. x = 0 /\ a = 0
    BY <1>1, <2>1, <2>2
  <2>4. n >= w
    BY <1>1, <2>1
  <2>5. FitsIn(p, n)
    BY <1>4, <2>4 DEF FitsIn, Spilling, L, w
  <2> QED BY <2>3, <2>5 DEF x
<1>5. ASSUME NEW j \in 0 .. L, Saving(p, n, j, m, a, c)
      PROVE  FitsIn(p, n) <=> x = 0 /\ a = 0
  BY <1>2, <1>5 DEF Saving, x
<1>6. \/ Filling(p, n, m, a, c) \/ Spilling(p, n, m, a, c)
      \/ \E j \in 0 .. L : Saving(p, n, j, m, a, c)
  BY <1>1 DEF Filled, L
<1> QED BY <1>3, <1>4, <1>5, <1>6 DEF x

\* There are no groups left, but words.
LEMMA FilledMore ==
  ASSUME NEW p, NumbersOK(p), NEW n \in Int, NEW a \in Int, NEW c \in Int, NEW fresh \in BOOLEAN,
         a > 0, Filled(p, n, fresh, Len(p.positional) + 1, a, c)
  PROVE  ~FitsIn(p, n)
<1> DEFINE L == Len(p.positional)
           w == SizeTo(p, L)
           m == L + 1
<1>1. /\ L \in Nat /\ m - 1 = L /\ L \in 0 .. L /\ 0 \in 0 .. L
      /\ \A j \in 0 .. L : SizeTo(p, j) \in Nat /\ SizeTo(p, j) <= w
      /\ w \in Nat /\ Asked(p, m) = 0 /\ 1 .. m - 1 = 1 .. L
  BY DEF NumbersOK
<1>2. NamesFrom(p, m) = 0
  BY <1>1 DEF NamesFrom
<1>3. \/ Filling(p, n, m, a, c) \/ Spilling(p, n, m, a, c)
      \/ \E j \in 0 .. L : Saving(p, n, j, m, a, c)
  BY <1>1 DEF Filled
<1> HIDE DEF L, w, m
<1>4. CASE Filling(p, n, m, a, c)
  <2>1. a = n - w /\ c = 0 /\ \A i \in 1 .. L : Opens(p, i) => a <= c
    BY <1>1, <1>2, <1>4 DEF Filling, w
  <2>2. n > w
    BY <1>1, <2>1
  <2>3. \A j \in 0 .. L : n # SizeTo(p, j)
    BY <1>1, <2>2
  <2>4. ~ \E i \in 1 .. L : Opens(p, i)
    BY <2>1
  <2> QED BY <2>3, <2>4 DEF FitsIn, L
<1>5. ~Spilling(p, n, m, a, c)
  BY <1>2 DEF Spilling
<1>6. ASSUME NEW j \in 0 .. L PROVE ~Saving(p, n, j, m, a, c)
  <2>1. SizeTo(p, j) \in Nat
    BY <1>1
  <2> QED BY <1>1, <2>1 DEF Saving
<1> QED BY <1>3, <1>4, <1>5, <1>6

-----------------------------------------------------------------------------
\* What the walk keeps, for what it says at its end to be right.

Passed == Members(locals["-*"]) \cup Members(locals["--"])
FlagNames == UNION {Members(g.names) : g \in proto.flags}

\* Flags stand behind other words.
Gap(S) == \E q \in S : \E i \in 1 .. q : i \notin S

\* The calls that AcceptsWhatFits is about.
Clean == errors = {} /\ missing \cap FlagNames = {} /\ "" \notin proto.names

SoFar(k) ==
  Passed = 1 .. k /\ Filled(proto, argc - k, k = at - 1, param, available, pos_c)

\* What is missing shows.
Lacking(S) == S \ {""} # {}

WordsSoFar ==
  /\ available < 0 => Lacking(missing)
  /\ available >= 0 => missing = {}
  /\ Gap(Passed) \/ \E k \in 0 .. at - 1 : SoFar(k)

Walking ==
  /\ "bad_args" \notin errors /\ needed = Asked(proto, param)
  /\ Passed \subseteq 1 .. at - 1
  /\ Clean => WordsSoFar

FitInvariant ==
  /\ Counted(proto)
  /\ phase = "declaring" => errors = {} /\ missing = {}
  /\ phase = "binding" => Walking
  /\ phase = "bound" => AcceptsWhatFits

Standing == BindingInvariant /\ GroupInvariant /\ OrderInvariant /\ FitInvariant

LEMMA StandingIs ==
  ASSUME Standing
  PROVE  /\ ProtoOK(proto) /\ ProtoShape(proto) /\ OrderShape(proto) /\ Counted(proto)
         /\ NumbersOK(proto)
         /\ \A i \in 1 .. Len(Positional) : GroupCounts(proto, i)
         /\ locals \in [Names -> Seq(Int)]
         /\ phase = "binding" => Walk /\ Walking
<1>1. /\ ProtoOK(proto) /\ ProtoShape(proto) /\ OrderShape(proto) /\ Counted(proto)
      /\ locals \in [Names -> Seq(Int)]
      /\ phase = "binding" => Walk /\ Walking
  BY DEF Standing, BindingInvariant, GroupInvariant, OrderInvariant, FitInvariant, LocalsOK
<1> QED BY <1>1, NumbersHold, GroupCountsHold DEF Positional

\* Nothing of the walk is said of an aborted call, nor after an exception.
LEMMA Excepted ==
  ASSUME Standing, phase = "binding", phase' \in {"binding", "aborted"}, proto' = proto,
         phase' = "binding" =>
           /\ "bad_args" \notin errors' /\ needed' = Asked(proto, param')
           /\ Passed' \subseteq 1 .. at' - 1
           /\ Clean' => WordsSoFar'
  PROVE  FitInvariant'
<1>1. Counted(proto')
  BY DEF Standing, FitInvariant
<1>2. phase' = "binding" => Walking'
  BY DEF Walking
<1> QED BY <1>1, <1>2 DEF FitInvariant

\* Words are passed on, with those that they bring along.
LEMMA PassedFit ==
  ASSUME Standing, phase = "binding", at <= argc, phase' \in {"binding", "aborted"},
         proto' = proto, words' = words, param' = param, pos_c' = pos_c, needed' = needed,
         at' \in Int, at < at',
         Passed' = Passed \cup at .. at' - 1,
         errors \subseteq errors', "bad_args" \notin errors', missing \subseteq missing',
         Clean' => /\ missing' = missing
                   /\ available' = available - (at' - at) /\ available' >= 0
  PROVE  FitInvariant'
<1>1. /\ NumbersOK(proto) /\ Walk /\ Walking /\ ProtoOK(proto)
  BY StandingIs
<1>2. /\ at \in Int /\ 1 <= at /\ argc \in Nat /\ available \in Int
      /\ at + available = argc + 1 /\ param \in 1 .. Len(Positional) + 1
      /\ pos_c \in Int /\ Len(Positional) \in Nat
  <2>1. /\ at \in 1 .. argc + 1 /\ argc \in Nat /\ available \in Int
        /\ at + available = argc + 1 /\ param \in 1 .. Len(Positional) + 1
        /\ pos_c \in Int
    BY <1>1 DEF Walk
  <2>2. Len(Positional) \in Nat
    BY <1>1, ProtoTyped DEF ProtoOK, Positional
  <2> QED BY <2>1, <2>2
<1>3. /\ "bad_args" \notin errors /\ needed = Asked(proto, param)
      /\ Passed \subseteq 1 .. at - 1 /\ (Clean => WordsSoFar)
  BY <1>1 DEF Walking
<1> DEFINE P == Passed
           Q == Passed'
           b == at'
<1>4. /\ b \in Int /\ at < b
      /\ \A i \in P : i \in Int /\ 1 <= i /\ i < at
      /\ \A i : i \in Q <=> i \in P \/ (i \in Int /\ at <= i /\ i < b)
  <2>1. \A i : i \in at .. b - 1 <=> i \in Int /\ at <= i /\ i < b
    BY <1>2
  <2>2. \A i \in 1 .. at - 1 : i \in Int /\ 1 <= i /\ i < at
    BY <1>2
  <2> QED BY <1>3, <2>1, <2>2
<1> HIDE DEF P, Q, b
<1>5. Passed' \subseteq 1 .. at' - 1
  <2>1. ASSUME NEW i \in Q PROVE i \in 1 .. b - 1
    <3>1. i \in Int /\ 1 <= i /\ i < b
      BY <1>2, <1>4
    <3> QED BY <1>4, <3>1
  <2> QED BY <2>1 DEF Q, b
<1>6. ASSUME Clean' PROVE WordsSoFar'
  <2>1. Clean
    <3>1. FlagNames' = FlagNames
      BY DEF FlagNames
    <3> QED BY <1>6, <3>1 DEF Clean
  <2>2. /\ missing = {}
        /\ Gap(P) \/ \E k \in 0 .. at - 1 : SoFar(k)
    <3>1. WordsSoFar /\ available >= 0
      BY <1>2, <1>3, <2>1
    <3> QED BY <3>1 DEF WordsSoFar, P
  <2>3. missing' = {} /\ available' >= 0 /\ available' = available - (b - at)
    BY <1>6, <2>2 DEF b
  <2>4. ASSUME Gap(P) PROVE Gap(Q)
    <3>1. PICK q \in P : \E i \in 1 .. q : i \notin P
      BY <2>4 DEF Gap
    <3>2. PICK i \in 1 .. q : i \notin P
      BY <3>1
    <3>3. q \in Q /\ i < at /\ i \in Int
      BY <1>2, <1>4, <3>1, <3>2
    <3>4. i \notin Q
      BY <1>2, <1>4, <3>2, <3>3
    <3> QED BY <3>2, <3>3, <3>4 DEF Gap
  <2>5. ASSUME NEW k \in 0 .. at - 1, SoFar(k), k # at - 1 PROVE Gap(Q)
    <3>1. k + 1 \notin 1 .. k /\ k + 1 \in 1 .. at /\ k + 1 < at /\ P = 1 .. k
      BY <1>2, <2>5 DEF SoFar, P
    <3>2. k + 1 \notin Q /\ at \in Q
      BY <1>2, <1>4, <3>1
    <3> QED BY <3>1, <3>2 DEF Gap
  <2>6. ASSUME NEW k \in 0 .. at - 1, SoFar(k), k = at - 1
        PROVE  \E l \in 0 .. b - 1 :
                 Q = 1 .. l /\ Filled(proto', argc' - l, l = b - 1, param', available', pos_c')
    <3> DEFINE d == b - at
               n == argc - k
    <3>1. /\ d \in Nat /\ n \in Int /\ n - d = argc - (b - 1) /\ available' = available - d
          /\ b - 1 \in 0 .. b - 1
      <4>1. k \in Int /\ k = at - 1 /\ d = b - at /\ n = argc - k
        BY <2>6
      <4> HIDE DEF d, n
      <4>2. available' = available - d
        BY <2>3, <4>1, Zenon
      <4>5. d \in Nat
        BY <1>2, <1>4, <4>1
      <4>3. n \in Int /\ n - d = argc - (b - 1)
        BY <1>2, <1>4, <4>1
      <4>4. b - 1 \in 0 .. b - 1
        BY <1>2, <1>4
      <4> QED BY <4>2, <4>3, <4>4, <4>5
    <3>2. Filled(proto, n, TRUE, param, available, pos_c) /\ P = 1 .. at - 1
      BY <2>6 DEF SoFar, P
    <3> HIDE DEF d, n
    <3>3. Filled(proto, n - d, TRUE, param, available - d, pos_c)
      <4>1. param \in 1 .. Len(proto.positional) + 1 /\ param \in Nat
        BY <1>2 DEF Positional
      <4> QED BY <1>1, <1>2, <3>1, <3>2, <4>1, FilledPassed
    <3>4. \A i : i \in Q <=> i \in 1 .. b - 1
      BY <1>2, <1>4, <3>2
    <3>5. Q = 1 .. b - 1
      BY <3>4
    <3>6. argc' = argc
      BY DEF argc
    <3>7. Filled(proto', argc' - (b - 1), TRUE, param', available', pos_c')
      BY <3>1, <3>3, <3>6
    <3> QED BY <3>1, <3>5, <3>7
  <2>7. Gap(Q) \/ \E l \in 0 .. b - 1 :
          Q = 1 .. l /\ Filled(proto', argc' - l, l = b - 1, param', available', pos_c')
    BY <2>2, <2>4, <2>5, <2>6
  <2>8. available' \in Int
    BY <1>2, <1>4, <2>3
  <2>9. \A l : SoFar(l)' <=>
          Q = 1 .. l /\ Filled(proto', argc' - l, l = b - 1, param', available', pos_c')
    BY DEF SoFar, Q, b
  <2>10. Gap(Passed') \/ \E l \in 0 .. at' - 1 : SoFar(l)'
    BY <2>7, <2>9 DEF Q, b
  <2>11. available' < 0 => Lacking(missing')
    BY <2>3, <2>8
  <2> QED BY <2>3, <2>10, <2>11 DEF WordsSoFar
<1> QED BY <1>3, <1>5, <1>6, Excepted

\* What the words of a flag, or a word that is passed on, are added to.
LEMMA PassOnPassed ==
  ASSUME Standing, phase = "binding", at <= argc,
         NEW more, "-*" \notin more, PassOn(more)
  PROVE  /\ Passed' = Passed \cup (IF HasStar \/ "--" \in more THEN {at} ELSE {})
         /\ at' = at + 1 /\ at \in Int
<1>1. locals \in [Names -> Seq(Int)] /\ at \in Int
  BY StandingIs DEF Walk
<1> DEFINE S == more \cup (IF proto.some THEN {"-?"} ELSE {})
                     \cup (IF HasStar THEN {"-*"} ELSE {})
           s == locals["-*"]
           t == locals["--"]
<1>2. /\ locals' = Appended(S, << at >>) /\ at' = at + 1
  BY DEF PassOn
<1>3. /\ "-*" \in Names /\ "--" \in Names
      /\ "-*" \in S <=> HasStar \/ "-*" \in more
      /\ "--" \in S <=> "--" \in more
  BY DEF Names, Convenience
<1> HIDE DEF S
<1>4. \A n \in Names : locals'[n] = IF n \in S THEN locals[n] \o << at >> ELSE locals[n]
  BY <1>2 DEF Appended
<1>5. << at >> \in Seq(Int) /\ Members(<< at >>) = {at}
  <2> DEFINE one == << at >>
  <2>1. one \in Seq(Int) /\ DOMAIN one = {1} /\ one[1] = at
    BY <1>1
  <2> HIDE DEF one
  <2>2. Members(one) = {at}
    BY <2>1 DEF Members
  <2> QED BY <2>1, <2>2 DEF one
<1>6. ASSUME NEW n \in Names
      PROVE  Members(locals'[n]) = Members(locals[n]) \cup (IF n \in S THEN {at} ELSE {})
  <2>1. locals[n] \in Seq(Int)
    BY <1>1
  <2>2. Members(locals[n] \o << at >>) = Members(locals[n]) \cup {at}
    BY <1>5, <2>1, JoinIs
  <2> QED BY <1>4, <2>2
<1>7. Passed' = Passed \cup (IF "-*" \in S \/ "--" \in S THEN {at} ELSE {})
  BY <1>3, <1>6 DEF Passed
<1> QED BY <1>1, <1>2, <1>3, <1>7

LEMMA UnrecognizedFlagFit ==
  ASSUME Standing, UnrecognizedFlag
  PROVE  FitInvariant'
<1>1. /\ phase = "binding" /\ at <= argc /\ phase' = phase /\ PassOn({}) /\ proto' = proto
      /\ words' = words /\ param' = param /\ pos_c' = pos_c /\ needed' = needed
      /\ available' = available - 1 /\ missing' = missing
      /\ errors' = errors \cup IF proto.some THEN {} ELSE {"unrecognized_flag"}
  BY DEF UnrecognizedFlag, AtFlag, PassOn
<1>2. /\ Passed' = Passed \cup (IF HasStar THEN {at} ELSE {})
      /\ at' = at + 1 /\ at \in Int
  BY <1>1, PassOnPassed
<1>3. /\ Walk /\ "bad_args" \notin errors /\ needed = Asked(proto, param)
      /\ Passed \subseteq 1 .. at - 1
  BY <1>1, StandingIs DEF Walking
<1>4. available \in Int /\ 1 <= at /\ at + available = argc + 1 /\ argc \in Nat
  BY <1>1, <1>3 DEF Walk
<1>5. CASE HasStar
  <2>1. at .. at' - 1 = {at}
    BY <1>2
  <2>2. available' = available - (at' - at) /\ available' >= 0 /\ at' \in Int /\ at < at'
    BY <1>1, <1>2, <1>4
  <2>3. errors \subseteq errors' /\ "bad_args" \notin errors'
    BY <1>1, <1>3
  <2> QED BY <1>1, <1>2, <1>5, <2>1, <2>2, <2>3, PassedFit
<1>6. CASE ~HasStar
  <2>1. "unrecognized_flag" \in errors' /\ "bad_args" \notin errors'
    BY <1>1, <1>3, <1>6 DEF HasStar
  <2>2. Passed' \subseteq 1 .. at' - 1
    BY <1>2, <1>3, <1>6
  <2>3. ~Clean'
    BY <2>1 DEF Clean
  <2> QED BY <1>1, <1>3, <2>1, <2>2, <2>3, Excepted
<1> QED BY <1>5, <1>6

LEMMA DashDashFit ==
  ASSUME Standing, DashDash
  PROVE  FitInvariant'
<1>1. /\ phase = "binding" /\ at <= argc /\ phase' \in {"binding", "aborted"}
      /\ PassOn({"--"}) /\ proto' = proto
      /\ words' = words /\ param' = param /\ pos_c' = pos_c /\ needed' = needed
      /\ available' = available - 1 /\ missing' = missing /\ errors' = errors
  BY DEF DashDash, AtFlag, PassOn
<1>2. /\ Passed' = Passed \cup {at} /\ at' = at + 1 /\ at \in Int
  BY <1>1, PassOnPassed
<1>3. Walk /\ "bad_args" \notin errors
  BY <1>1, StandingIs DEF Walking
<1>4. available \in Int /\ 1 <= at /\ at + available = argc + 1 /\ argc \in Nat
  BY <1>1, <1>3 DEF Walk
<1>5. at .. at' - 1 = {at}
  BY <1>2
<1>6. available' = available - (at' - at) /\ available' >= 0 /\ at' \in Int /\ at < at'
  BY <1>1, <1>2, <1>4
<1> QED BY <1>1, <1>2, <1>3, <1>5, <1>6, PassedFit

LEMMA TardyFlagFit ==
  ASSUME Standing, TardyFlag
  PROVE  FitInvariant'
<1>1. /\ phase = "binding" /\ phase' = "binding" /\ proto' = proto /\ param' = param
      /\ needed' = needed /\ at' = at + 1 /\ Passed' = Passed
      /\ errors' = errors \cup {"tardy_flag"}
  BY DEF TardyFlag, AtFlag, Passed
<1>2. /\ Walk /\ "bad_args" \notin errors /\ needed = Asked(proto, param)
      /\ Passed \subseteq 1 .. at - 1
  BY <1>1, StandingIs DEF Walking
<1>3. at \in Int
  BY <1>2 DEF Walk
<1>4. Passed' \subseteq 1 .. at' - 1
  BY <1>1, <1>2, <1>3
<1>5. ~Clean'
  BY <1>1 DEF Clean
<1> QED BY <1>1, <1>2, <1>4, <1>5, Excepted

\* Whether a group gets a word for each of its names shows in the counter.
LEMMA ReachedAll ==
  ASSUME Walk, at <= argc, NEW g, GroupOK(g), NEW extra \in Nat, Advance(g, extra),
         extra > 0 => at + Len(g.names) + extra <= argc + 1
  PROVE  /\ available' = available - Len(g.names) - extra
         /\ available' >= 0 => /\ Unreached(g, extra) = {}
                               /\ at' = at + Len(g.names) + extra
         /\ available' < 0 => g.names[Len(g.names)] \in Unreached(g, extra)
<1> DEFINE m == Len(g.names)
           e == g.elipsis
<1>1. m \in Nat \ {0} /\ DOMAIN g.names = 1 .. m /\ e \in Int
  <2>1. g.names \in Seq(Names) /\ Len(g.names) > 0 /\ e \in Int
    BY DEF GroupOK, GroupType
  <2> QED BY <2>1
<1>2. /\ at' = IF at + m + extra > argc THEN argc + 1 ELSE at + m + extra
      /\ available' = available - m - extra
  BY DEF Advance
<1>3. /\ available \in Int /\ at \in Int /\ argc \in Nat /\ at + available = argc + 1
  BY DEF Walk
<1>4. \A k \in 1 .. m : Place(g, extra, k) = at + k - 1 + (IF k > e THEN extra ELSE 0)
  BY DEF Place
<1> HIDE DEF m, e
<1>5. ASSUME available' >= 0 PROVE Unreached(g, extra) = {} /\ at' = at + m + extra
  <2>1. at + m + extra <= argc + 1
    BY <1>1, <1>2, <1>3, <1>5
  <2>2. ASSUME NEW k \in 1 .. m PROVE Place(g, extra, k) <= argc
    <3>1. Place(g, extra, k) = at + k - 1 \/ Place(g, extra, k) = at + k - 1 + extra
      BY <1>1, <1>3, <1>4
    <3> QED BY <1>1, <1>3, <2>1, <3>1
  <2>3. Reached(g, extra) = DOMAIN g.names
    BY <1>1, <2>2 DEF Reached
  <2>4. at' = at + m + extra
    BY <1>1, <1>2, <1>3, <2>1
  <2> QED BY <2>3, <2>4 DEF Unreached, NamesAt
<1>6. ASSUME available' < 0 PROVE g.names[m] \in Unreached(g, extra)
  <2>1. extra = 0 /\ m \in 1 .. m /\ at + m - 1 > argc
    BY <1>1, <1>2, <1>3, <1>6 DEF m
  <2>2. Place(g, extra, m) = at + m - 1
    BY <1>1, <1>3, <1>4, <2>1
  <2>3. m \in DOMAIN g.names \ Reached(g, extra)
    BY <1>1, <1>3, <2>1, <2>2 DEF Reached
  <2> QED BY <2>3 DEF Unreached, NamesAt
<1> QED BY <1>2, <1>5, <1>6 DEF m

LEMMA TakeFlagFit ==
  ASSUME Standing, NEW g \in proto.flags, TakeFlag(g)
  PROVE  FitInvariant'
<1> DEFINE extra == Extra(g, pos_c)
           R == Reached(g, extra)
           taken == Positions(at, at' - 1)
           new == [n \in Names |->
             IF n \in {"-*", g.names[1]} THEN locals[n] \o taken
             ELSE IF \E k \in R : g.names[k] = n
             THEN locals[n] \o WordsFor(g, extra, CHOOSE k \in R : g.names[k] = n)
             ELSE locals[n]]
<1>1. /\ phase = "binding" /\ at <= argc /\ Advance(g, extra) /\ proto' = proto
      /\ words' = words /\ param' = param /\ pos_c' = pos_c /\ needed' = needed
      /\ phase' \in {"binding", "aborted"} /\ locals' = new
  BY DEF TakeFlag, AtFlag, Advance
<1>2. /\ ProtoOK(proto) /\ Walk /\ Walking /\ OrderShape(proto)
      /\ locals \in [Names -> Seq(Int)]
  BY <1>1, StandingIs
<1>3. /\ GroupOK(g) /\ extra \in Nat /\ at \in Int /\ argc \in Nat /\ available \in Int
      /\ extra > 0 => at + Len(g.names) + extra <= argc + 1
      /\ g.elipsis = NoElipsis => extra = 0
  <2>1. GroupOK(g) /\ pos_c \in Nat
    BY <1>2, ToCome DEF ProtoOK
  <2>2. g.elipsis = NoElipsis => extra = 0
    BY DEF Extra
  <2>3. at \in Int /\ argc \in Nat /\ available \in Int
    BY <1>2 DEF Walk
  <2> QED BY <1>1, <1>2, <2>1, <2>2, <2>3, ExtraOK
<1>4. at' \in Int /\ at < at'
  BY <1>1, <1>2, <1>3, WordsAre
<1>5. taken \in Seq(Int) /\ Members(taken) = at .. at' - 1
  <2>1. at' - 1 \in Int
    BY <1>4
  <2> QED BY <1>3, <2>1, PositionsAre
<1>6. g.names[1] \in Members(g.names) /\ Members(g.names) \cap Convenience = {}
  <2>1. g.names \in Seq(Names) /\ Len(g.names) > 0 /\ Own(g)
    BY <1>2, <1>3 DEF GroupOK, GroupType, OrderShape
  <2>2. 1 \in DOMAIN g.names
    BY <2>1
  <2> QED BY <2>1, <2>2 DEF Members, Own
<1>7. "-*" \in Names /\ "--" \in Names /\ "--" \in Convenience
  BY DEF Names, Convenience
<1>8. new["-*"] = locals["-*"] \o taken
  BY <1>7
<1>9. new["--"] = locals["--"]
  <2>1. "--" \notin Members(g.names)
    BY <1>6, <1>7
  <2>2. ~ \E k \in R : g.names[k] = "--"
    BY <2>1 DEF Members, Reached
  <2>3. "--" \notin {"-*", g.names[1]}
    BY <1>6, <2>1
  <2> QED BY <1>7, <2>2, <2>3
<1> HIDE DEF new, taken
<1>10. Passed' = Passed \cup at .. at' - 1
  <2>1. locals["-*"] \in Seq(Int)
    BY <1>2, <1>7
  <2>2. Members(locals["-*"] \o taken) = Members(locals["-*"]) \cup at .. at' - 1
    BY <1>5, <2>1, JoinIs
  <2>3. /\ Members(locals'["-*"]) = Members(locals["-*"]) \cup at .. at' - 1
        /\ locals'["--"] = locals["--"]
    BY <1>1, <1>8, <1>9, <2>2
  <2> HIDE DEF extra
  <2> QED BY <2>3 DEF Passed
<1>11. /\ errors \subseteq errors' /\ "bad_args" \notin errors' /\ missing \subseteq missing'
       /\ missing' = missing \cup Unreached(g, extra)
  <2>1. "bad_args" \notin errors
    BY <1>2 DEF Walking
  <2> QED BY <1>1, <2>1 DEF Advance
<1>12. ASSUME Clean'
       PROVE  /\ missing' = missing
              /\ available' = available - (at' - at) /\ available' >= 0
  <2>1. Unreached(g, extra) \subseteq Members(g.names)
    BY DEF Unreached, NamesAt, Members
  <2>2. Members(g.names) \subseteq FlagNames /\ FlagNames' = FlagNames
    BY <1>1 DEF FlagNames
  <2>3. Unreached(g, extra) = {}
    BY <1>11, <1>12, <2>1, <2>2 DEF Clean
  <2> DEFINE m == Len(g.names)
  <2>4. m \in Nat
    <3>1. g.names \in Seq(Names)
      BY <1>3 DEF GroupOK, GroupType
    <3> QED BY <3>1
  <2>5. /\ available' = available - m - extra
        /\ available' >= 0 => at' = at + m + extra
        /\ ~(available' < 0)
    BY <1>1, <1>2, <1>3, <2>3, ReachedAll
  <2> HIDE DEF m, extra
  <2>6. available' \in Int
    BY <1>3, <2>4, <2>5
  <2>7. available' >= 0
    BY <2>5, <2>6
  <2>8. available' = available - (at' - at)
    BY <1>3, <2>4, <2>5, <2>7
  <2> QED BY <1>11, <2>3, <2>7, <2>8
<1> QED BY <1>1, <1>4, <1>10, <1>11, <1>12, PassedFit

LEMMA SkipGroupFit ==
  ASSUME Standing, SkipGroup
  PROVE  FitInvariant'
<1> DEFINE g == Positional[param]
           L == Len(proto.positional)
<1>1. /\ phase = "binding" /\ at <= argc /\ param <= Len(Positional) /\ ~ToSpare(g)
      /\ param' = param + 1
      /\ UNCHANGED <<proto, phase, words, at, available, needed, pos_c,
                     locals, missing, errors>>
  BY DEF SkipGroup, AtGroup, NextGroup
<1>2. /\ ProtoOK(proto) /\ NumbersOK(proto) /\ Walk /\ Walking
      /\ \A i \in 1 .. Len(Positional) : GroupCounts(proto, i)
  BY <1>1, StandingIs
<1>3. /\ Positional = proto.positional /\ L \in Nat /\ param \in 1 .. L
      /\ at \in Int /\ argc \in Nat /\ available \in Int /\ pos_c \in Int
  <2>1. Positional = proto.positional /\ L \in Nat
    BY <1>2, ProtoTyped DEF ProtoOK, Positional
  <2>2. /\ at \in 1 .. argc + 1 /\ argc \in Nat /\ available \in Int /\ pos_c \in Int
        /\ param \in 1 .. L + 1
    BY <1>2, <2>1 DEF Walk
  <2> QED BY <1>1, <2>1, <2>2
<1>4. /\ GroupCounts(proto, param) /\ ~proto.positional[param].required
      /\ ~(available > needed) /\ needed = Asked(proto, param)
      /\ "bad_args" \notin errors /\ Passed \subseteq 1 .. at - 1
      /\ Clean => WordsSoFar
  BY <1>1, <1>2, <1>3 DEF ToSpare, Walking
<1>5. Asked(proto, param) \in Nat /\ Asked(proto, param) = Asked(proto, param + 1)
  BY <1>2, <1>3, <1>4, TurnOf DEF GroupCounts
<1>6. available <= Asked(proto, param)
  BY <1>3, <1>4, <1>5
<1>7. Passed' = Passed /\ FlagNames' = FlagNames /\ argc' = argc
  BY <1>1 DEF Passed, FlagNames, argc
<1>8. ASSUME Clean' PROVE WordsSoFar'
  <2>1. WordsSoFar
    BY <1>1, <1>4, <1>7, <1>8 DEF Clean
  <2>2. ASSUME NEW k \in 0 .. at - 1, SoFar(k)
        PROVE  Filled(proto, argc - k, k = at - 1, param + 1, available, pos_c)
    <3> DEFINE n == argc - k
               fresh == k = at - 1
    <3>1. n \in Int /\ fresh \in BOOLEAN
      BY <1>3
    <3>2. Filled(proto, n, fresh, param, available, pos_c)
      BY <2>2 DEF SoFar
    <3> HIDE DEF n, fresh
    <3>3. Filled(proto, n, fresh, param + 1, available, pos_c)
      BY <1>2, <1>3, <1>4, <1>6, <3>1, <3>2, FilledSkipped
    <3> QED BY <3>3 DEF n, fresh
  <2>3. \A k \in 0 .. at - 1 : SoFar(k) => SoFar(k)'
    BY <1>1, <1>7, <2>2 DEF SoFar
  <2>4. Gap(Passed') \/ \E k \in 0 .. at' - 1 : SoFar(k)'
    BY <1>1, <1>7, <2>1, <2>3 DEF WordsSoFar
  <2> QED BY <1>1, <2>1, <2>4 DEF WordsSoFar
<1> QED BY <1>1, <1>4, <1>5, <1>7, <1>8, Excepted

LEMMA TakeGroupFit ==
  ASSUME Standing, TakeGroup
  PROVE  FitInvariant'
<1> DEFINE g == Positional[param]
           L == Len(proto.positional)
           size == Len(g.names)
           extra == Extra(g, pos_c - size)
           of(n) == {k \in Reached(g, extra) : g.names[k] = n}
           new == [n \in Names |->
              IF of(n) # {} THEN WordsFor(g, extra, CHOOSE k \in of(n) : TRUE)
              ELSE IF g.elipsis = 0 /\ n = proto.elipsis
              THEN locals[n] \o Beyond(g, extra) ELSE locals[n]]
<1>1. /\ phase = "binding" /\ at <= argc /\ param <= Len(Positional) /\ ToSpare(g)
      /\ param' = param + 1 /\ Advance(g, extra) /\ locals' = new
      /\ proto' = proto /\ phase' = phase /\ words' = words /\ pos_c' = pos_c - size
      /\ needed' = needed - (IF g.required THEN 1 ELSE 0)
  BY DEF TakeGroup, AtGroup, NextGroup, Advance
<1>2. /\ ProtoOK(proto) /\ ProtoShape(proto) /\ OrderShape(proto) /\ NumbersOK(proto)
      /\ Walk /\ Walking
      /\ \A i \in 1 .. Len(Positional) : GroupCounts(proto, i)
  BY <1>1, StandingIs
<1>3. /\ Positional = proto.positional /\ L \in Nat /\ param \in 1 .. L
      /\ at \in Int /\ 1 <= at /\ argc \in Nat /\ available \in Int /\ pos_c \in Int
      /\ at + available = argc + 1
  <2>1. Positional = proto.positional /\ L \in Nat
    BY <1>2, ProtoTyped DEF ProtoOK, Positional
  <2>2. /\ at \in 1 .. argc + 1 /\ argc \in Nat /\ available \in Int /\ pos_c \in Int
        /\ param \in 1 .. L + 1 /\ at + available = argc + 1
    BY <1>1, <1>2, <2>1 DEF Walk
  <2> QED BY <1>1, <2>1, <2>2
<1>4. /\ GroupOK(g) /\ extra \in Nat /\ pos_c - size \in Nat
      /\ extra > 0 => at + size + extra <= argc + 1
      /\ g.elipsis = NoElipsis => extra = 0
  <2>1. GroupOK(g) /\ pos_c - size \in Nat
    BY <1>1, <1>2, ThisGroup
  <2>2. g.elipsis = NoElipsis => extra = 0
    BY DEF Extra
  <2> QED BY <1>1, <1>2, <2>1, <2>2, ExtraOK
<1>5. at' \in Int /\ at < at'
  BY <1>1, <1>2, <1>3, <1>4, WordsAre
<1>6. /\ GroupCounts(proto, param) /\ size \in Nat \ {0}
      /\ needed = Asked(proto, param) /\ needed' = Asked(proto, param + 1)
      /\ "bad_args" \notin errors /\ Passed \subseteq 1 .. at - 1
      /\ Clean => WordsSoFar
  <2>1. GroupCounts(proto, param)
    BY <1>2, <1>3
  <2>2. /\ needed = Asked(proto, param)
        /\ "bad_args" \notin errors /\ Passed \subseteq 1 .. at - 1
        /\ Clean => WordsSoFar
    BY <1>2 DEF Walking
  <2>3. Asked(proto, param) \in Nat /\ Asked(proto, param + 1) \in Nat
    BY <1>2, <1>3, <2>1, TurnOf
  <2>4. /\ size \in Nat \ {0}
        /\ Asked(proto, param) = Asked(proto, param + 1) + (IF g.required THEN 1 ELSE 0)
    BY <1>3, <2>1, <2>3 DEF GroupCounts
  <2> QED BY <1>1, <2>1, <2>2, <2>3, <2>4
<1>7. \A n \in Convenience : n \in Names => new[n] = locals[n]
  <2> TAKE n \in Convenience
  <2> SUFFICES ASSUME n \in Names PROVE new[n] = locals[n]
    OBVIOUS
  <2>1. param \in 1 .. Len(Positional)
    BY <1>3
  <2>2. \A k \in DOMAIN g.names : g.names[k] # n
    BY <1>2, <2>1, OnePlace
  <2>3. of(n) = {}
    BY <2>2 DEF Reached
  <2>4. g.elipsis = 0 => n # proto.elipsis
    <3> SUFFICES ASSUME g.elipsis = 0 PROVE n # proto.elipsis
      OBVIOUS
    <3>1. param - 1 \in 1 .. Len(Positional) /\ proto.elipsis = LastOf(Positional[param - 1].names)
      BY <1>2, <1>3, <2>1 DEF OrderShape, OpensAfter
    <3> DEFINE s == Positional[param - 1].names
    <3>2. /\ Len(s) \in DOMAIN s /\ \A k \in DOMAIN s : s[k] \notin Convenience
      <4>1. /\ DOMAIN s = 1 .. Len(s) /\ Len(s) \in Nat \ {0}
            /\ \A k \in DOMAIN s : s[k] \in Names \ Convenience
        BY <1>2, <3>1, OnePlace
      <4> QED BY <4>1
    <3> QED BY <3>1, <3>2 DEF LastOf
  <2> QED BY <2>3, <2>4
<1> HIDE DEF new, of
<1>8. Passed' = Passed
  <2>1. {"-*", "--"} \subseteq Convenience /\ {"-*", "--"} \subseteq Names
    BY DEF Convenience, Names
  <2> HIDE DEF extra, g
  <2> QED BY <1>1, <1>7, <2>1 DEF Passed
<1>9. FlagNames' = FlagNames /\ argc' = argc
  BY <1>1 DEF FlagNames, argc
<1>10. Passed' \subseteq 1 .. at' - 1
  <2> DEFINE b == at'
  <2>1. b \in Int /\ at < b
    BY <1>5
  <2> HIDE DEF b
  <2>2. ASSUME NEW i \in 1 .. at - 1 PROVE i \in 1 .. b - 1
    BY <1>3, <2>1
  <2> QED BY <1>6, <1>8, <2>2 DEF b
<1>11. "bad_args" \notin errors' /\ errors \subseteq errors'
       /\ missing' = missing \cup Unreached(g, extra)
  BY <1>1, <1>6 DEF Advance
<1>12. /\ available' = available - size - extra
       /\ available' >= 0 => Unreached(g, extra) = {}
       /\ available' < 0 => g.names[size] \in Unreached(g, extra)
  <2> HIDE DEF extra
  <2> QED BY <1>1, <1>2, <1>4, ReachedAll
<1>13. /\ proto.positional[param].required \/ available > Asked(proto, param)
       /\ \/ extra = 0 /\ (~Opens(proto, param) \/ available <= pos_c)
          \/ Opens(proto, param) /\ available > pos_c /\ extra = available - pos_c
  <2>1. proto.positional[param].required \/ available > Asked(proto, param)
    BY <1>1, <1>3, <1>6 DEF ToSpare
  <2>2. Opens(proto, param) <=> g.elipsis # NoElipsis
    BY <1>3 DEF Opens
  <2>3. extra = IF g.elipsis = NoElipsis \/ available - size <= pos_c - size THEN 0
                ELSE (available - size) - (pos_c - size)
    BY DEF Extra
  <2> HIDE DEF extra, size, g
  <2>4. /\ available - size <= pos_c - size <=> available <= pos_c
        /\ (available - size) - (pos_c - size) = available - pos_c
    BY <1>3, <1>6
  <2>5. \/ extra = 0 /\ (g.elipsis = NoElipsis \/ available <= pos_c)
        \/ g.elipsis # NoElipsis /\ available > pos_c /\ extra = available - pos_c
    BY <1>3, <2>3, <2>4
  <2> QED BY <2>1, <2>2, <2>5
<1>14. ASSUME Clean' PROVE WordsSoFar'
  <2>1. Clean
    BY <1>1, <1>9, <1>11, <1>14 DEF Clean
  <2>2. missing = {} /\ WordsSoFar
    <3>1. WordsSoFar
      BY <1>6, <2>1
    <3>2. available >= 0
      BY <1>1, <1>3
    <3> QED BY <3>1, <3>2 DEF WordsSoFar
  <2>3. available' < 0 => Lacking(missing')
    <3> SUFFICES ASSUME available' < 0 PROVE Lacking(missing')
      OBVIOUS
    <3>1. g.names[size] \in Unreached(g, extra)
      BY <1>12
    <3>2. g.names[size] \in Members(g.names)
      <4>1. size \in DOMAIN g.names
        <5>1. DOMAIN g.names = 1 .. size
          <6>1. g.names \in Seq(Names)
            BY <1>4 DEF GroupOK, GroupType
          <6> QED BY <6>1
        <5> HIDE DEF size
        <5> QED BY <1>6, <5>1
      <4> HIDE DEF size
      <4> QED BY <4>1 DEF Members
    <3>3. Members(g.names) \subseteq proto.names
      <4>1. g \in Members(proto.positional)
        <5>1. DOMAIN Positional = 1 .. L
          <6>1. Positional \in Seq(GroupType)
            BY <1>2, ProtoTyped DEF ProtoOK, Positional
          <6> QED BY <1>3, <6>1
        <5> QED BY <1>3, <5>1 DEF Members
      <4> HIDE DEF g
      <4> QED BY <1>2, <4>1 DEF ProtoShape, GroupNames
    <3>4. g.names[size] # ""
      BY <2>1, <3>2, <3>3 DEF Clean
    <3> QED BY <1>11, <3>1, <3>4 DEF Lacking
  <2>4. available' >= 0 => missing' = {}
    BY <1>11, <1>12, <2>2
  <2>5. ASSUME NEW k \in 0 .. at - 1, SoFar(k)
        PROVE  Filled(proto, argc - k, FALSE, param + 1, available', pos_c')
    <3> DEFINE n == argc - k
               fresh == k = at - 1
    <3>1. n \in Int /\ fresh \in BOOLEAN
      BY <1>3
    <3>2. Filled(proto, n, fresh, param, available, pos_c)
      BY <2>5 DEF SoFar
    <3> HIDE DEF n, fresh, extra
    <3>3. Filled(proto, n, FALSE, param + 1, available - Len(proto.positional[param].names) - extra,
                 pos_c - Len(proto.positional[param].names))
      BY <1>2, <1>3, <1>4, <1>6, <1>13, <3>1, <3>2, FilledTaken
    <3>4. /\ available' = available - Len(proto.positional[param].names) - extra
          /\ pos_c' = pos_c - Len(proto.positional[param].names)
      BY <1>1, <1>3, <1>12
    <3> QED BY <3>3, <3>4 DEF n
  <2>6. ASSUME NEW k \in 0 .. at - 1, SoFar(k) PROVE k \in 0 .. at' - 1 /\ SoFar(k)'
    <3>1. k \in 0 .. at' - 1 /\ (k = at' - 1) = FALSE
      <4> DEFINE b == at'
      <4>1. b \in Int /\ at < b /\ k \in Int /\ 0 <= k /\ k <= at - 1
        BY <1>3, <1>5
      <4> HIDE DEF b
      <4>2. k \in 0 .. b - 1 /\ k # b - 1
        BY <1>3, <4>1
      <4> QED BY <4>2 DEF b
    <3>2. Passed' = 1 .. k
      BY <1>8, <2>6 DEF SoFar
    <3>3. Filled(proto', argc' - k, k = at' - 1, param', available', pos_c')
      BY <1>1, <1>9, <2>5, <2>6, <3>1
    <3> QED BY <3>1, <3>2, <3>3 DEF SoFar
  <2>7. Gap(Passed') \/ \E k \in 0 .. at' - 1 : SoFar(k)'
    BY <1>8, <2>2, <2>6 DEF WordsSoFar
  <2> QED BY <2>3, <2>4, <2>7 DEF WordsSoFar
<1> QED BY <1>1, <1>6, <1>10, <1>11, <1>14, Excepted

LEMMA FitsIs ==
  ASSUME ProtoOK(proto), NEW n
  PROVE  Fits(n) <=> FitsIn(proto, n)
<1>1. Positional \in Seq(GroupType) /\ Positional = proto.positional
  BY ProtoTyped DEF ProtoOK, Positional
<1>2. DOMAIN Positional = 1 .. Len(Positional)
  BY <1>1
<1>3. (\E g \in Members(Positional) : g.elipsis # NoElipsis)
        <=> \E i \in 1 .. Len(proto.positional) : Opens(proto, i)
  BY <1>1, <1>2 DEF Members, Opens
<1>4. \A j : proto.required + Cardinality(OptionalNames(j)) = SizeTo(proto, j)
  BY <1>1 DEF SizeTo, OptionalNames, OptionalOf
<1> QED BY <1>1, <1>3, <1>4 DEF Fits, FitsIn

FlagsFirst(S) == S = 1 .. Cardinality(S)
InQuestion ==
  /\ "" \notin proto.names /\ errors \subseteq {"bad_args"}
  /\ missing \cap FlagNames = {} /\ FlagsFirst(Passed)

\* What Finish says when flags came first.
LEMMA SaysWhatFits ==
  ASSUME Standing, Finish, InQuestion'
  PROVE  errors' = {} <=> FitsIn(proto, argc - Cardinality(Passed))
<1> DEFINE rest == {Positional[i] : i \in param .. Len(Positional)}
           lacks == missing \cup {g.names[1] : g \in {r \in rest : r.required}}
           L == Len(proto.positional)
           K == Cardinality(Passed)
<1>0. proto' = proto /\ Passed' = Passed /\ FlagNames' = FlagNames
  BY DEF Finish, Passed, FlagNames
<1>1. /\ phase = "binding" /\ missing' = lacks
      /\ at <= argc => rest = {}
      /\ errors' = errors \cup IF Complete(lacks) THEN {} ELSE {"bad_args"}
  BY DEF Finish
<1>2. /\ ProtoOK(proto) /\ NumbersOK(proto) /\ Walk
      /\ "bad_args" \notin errors /\ needed = Asked(proto, param)
      /\ Passed \subseteq 1 .. at - 1 /\ (Clean => WordsSoFar)
  BY <1>1, StandingIs DEF Walking
<1>3. /\ Positional = proto.positional /\ L \in Nat /\ param \in 1 .. L + 1
      /\ at \in Int /\ 1 <= at /\ at <= argc + 1 /\ argc \in Nat /\ available \in Int
      /\ pos_c \in Int /\ at + available <= argc + 1
      /\ at <= argc => at + available = argc + 1
  <2>1. Positional = proto.positional /\ L \in Nat
    BY <1>2, ProtoTyped DEF ProtoOK, Positional
  <2>2. /\ at \in 1 .. argc + 1 /\ argc \in Nat /\ available \in Int /\ pos_c \in Int
        /\ param \in 1 .. L + 1 /\ at + available <= argc + 1
        /\ at <= argc => at + available = argc + 1
    BY <1>2, <2>1 DEF Walk
  <2> QED BY <2>1, <2>2
<1>4. errors = {} /\ missing \subseteq lacks /\ WordsSoFar
  <2>1. errors = {} /\ missing \subseteq lacks
    BY <1>1, <1>2 DEF InQuestion
  <2>2. Clean
    BY <1>0, <1>1, <2>1 DEF Clean, InQuestion
  <2> QED BY <1>2, <2>1, <2>2
<1>5. ~Gap(Passed)
  <2>1. IsFiniteSet(Passed)
    <3>1. 1 \in Int /\ at - 1 \in Int
      BY <1>3
    <3>2. IsFiniteSet(1 .. at - 1)
      BY <3>1, FS_Interval
    <3> QED BY <1>2, <3>2, FS_Subset
  <2>2. K \in Nat /\ Passed = 1 .. K
    BY <1>0, <2>1, FS_CardinalityType DEF InQuestion, FlagsFirst
  <2> HIDE DEF K
  <2>3. ASSUME NEW q \in Passed, NEW i \in 1 .. q PROVE i \in Passed
    BY <2>2
  <2> QED BY <2>3 DEF Gap
<1>6. PICK k \in 0 .. at - 1 : SoFar(k)
  BY <1>4, <1>5 DEF WordsSoFar
<1>7. K = k
  <2>1. k \in Nat /\ 1 \in Int /\ k \in Int
    BY <1>3
  <2>2. Cardinality(1 .. k) = IF 1 > k THEN 0 ELSE k - 1 + 1
    BY <2>1, FS_Interval, Zenon
  <2>3. Passed = 1 .. k
    BY <1>6 DEF SoFar
  <2>4. (IF 1 > k THEN 0 ELSE k - 1 + 1) = k
    BY <2>1
  <2> QED BY <2>2, <2>3, <2>4
<1> DEFINE n == argc - k
           fresh == k = at - 1
<1>8. n \in Int /\ fresh \in BOOLEAN /\ Filled(proto, n, fresh, param, available, pos_c)
  BY <1>3, <1>6 DEF SoFar
<1> HIDE DEF n, fresh
<1>9. CASE at <= argc
  <2>1. param = L + 1
    <3>1. param .. Len(Positional) = {}
      BY <1>1, <1>9
    <3>2. param \notin param .. L
      BY <1>3, <3>1
    <3> QED BY <1>3, <3>2
  <2>2. available > 0
    BY <1>3, <1>9
  <2>3. ~FitsIn(proto, n)
    BY <1>2, <1>3, <1>8, <2>1, <2>2, FilledMore
  <2>4. ~Complete(lacks)
    <3>1. Complete(lacks) => at > argc
      BY DEF Complete
    <3> QED BY <1>3, <1>9, <3>1
  <2> QED BY <1>1, <1>7, <2>3, <2>4 DEF n
<1>10. CASE ~(at <= argc)
  <2>1. at > argc /\ available <= 0
    BY <1>3, <1>10
  <2>2. FitsIn(proto, n) <=> needed = 0 /\ available = 0
    <3>1. FitsIn(proto, n) <=> Asked(proto, param) = 0 /\ available = 0
      BY <1>2, <1>3, <1>8, <2>1, FilledEnd
    <3> QED BY <1>2, <3>1
  <2>3. errors' = {} <=> needed = 0 /\ ~Lacking(lacks)
    <3> HIDE DEF lacks
    <3>1. Complete(lacks) <=> needed = 0 /\ ~Lacking(lacks)
      BY <2>1 DEF Complete, Lacking
    <3> QED BY <1>1, <1>4, <3>1
  <2>4. ASSUME needed = 0 PROVE lacks = missing
    <3>1. Cardinality(RequiredFrom(Positional, param)) = 0
      BY <1>2, <1>3, <2>4 DEF Asked
    <3>2. IsFiniteSet(RequiredFrom(Positional, param))
      <4>1. Len(Positional) \in Nat /\ param \in Nat
        BY <1>3
      <4> QED BY <4>1, RequiredFinite
    <3>3. RequiredFrom(Positional, param) = {}
      BY <3>1, <3>2, FS_EmptySet
    <3>4. \A i \in param .. Len(Positional) : ~Positional[i].required
      BY <3>3 DEF RequiredFrom
    <3> QED BY <3>4
  <2>5. needed = 0 => (~Lacking(lacks) <=> available = 0)
    <3> SUFFICES ASSUME needed = 0 PROVE ~Lacking(lacks) <=> available = 0
      OBVIOUS
    <3>1. lacks = missing
      BY <2>4
    <3>2. available = 0 => missing = {}
      BY <1>4 DEF WordsSoFar
    <3>3. available # 0 => Lacking(missing)
      BY <1>3, <1>4, <2>1 DEF WordsSoFar
    <3>4. ~Lacking({})
      BY DEF Lacking
    <3> HIDE DEF lacks
    <3> QED BY <3>1, <3>2, <3>3, <3>4
  <2> HIDE DEF lacks
  <2>6. errors' = {} <=> FitsIn(proto, n)
    BY <2>2, <2>3, <2>5
  <2> QED BY <1>7, <2>6 DEF n
<1> QED BY <1>9, <1>10

LEMMA FinishFit ==
  ASSUME Standing, Finish
  PROVE  FitInvariant'
<1>1. /\ proto' = proto /\ locals' = locals /\ words' = words /\ phase' = "bound"
  BY DEF Finish, callVars
<1>2. Counted(proto) /\ ProtoOK(proto)
  BY StandingIs
<1>3. argc' = argc /\ Passed' = Passed /\ FlagNames' = FlagNames
  BY <1>1 DEF argc, Passed, FlagNames
<1>4. ASSUME InQuestion'
      PROVE  errors' = {} <=> Fits(argc - Cardinality(Passed))'
  <2>1. errors' = {} <=> FitsIn(proto, argc - Cardinality(Passed))
    BY <1>1, <1>3, <1>4, SaysWhatFits
  <2>2. FitsIn(proto, argc - Cardinality(Passed)) <=> Fits(argc - Cardinality(Passed))
    BY <1>2, FitsIs
  <2>3. Fits(argc - Cardinality(Passed))' <=> Fits(argc - Cardinality(Passed))
    BY <1>1, <1>3 DEF Fits, OptionalNames, Positional
  <2> QED BY <2>1, <2>2, <2>3
<1>5. AcceptsWhatFits'
  BY <1>4 DEF AcceptsWhatFits, InQuestion, Passed, FlagNames, FlagsFirst
<1> QED BY <1>1, <1>2, <1>5 DEF FitInvariant

LEMMA CallFit ==
  ASSUME Standing, NEW w, Call(w), Walk'
  PROVE  FitInvariant'
<1>1. /\ phase = "declaring" /\ phase' = "binding" /\ proto' = proto /\ locals' = locals
      /\ words' = w /\ at' = 1 /\ available' = Len(w)
      /\ needed' = proto.required /\ pos_c' = proto.size /\ param' = 1
      /\ missing' = missing /\ errors' = errors
  BY DEF Call
<1>2. /\ Counted(proto) /\ NumbersOK(proto) /\ errors = {} /\ missing = {}
      /\ \A n \in Names : locals[n] = << >>
  BY <1>1, StandingIs DEF Standing, FitInvariant, GroupInvariant, LocalsOK
<1>3. Passed' = {}
  <2>1. "-*" \in Names /\ "--" \in Names
    BY DEF Names, Convenience
  <2>2. Members(<< >>) = {}
    BY DEF Members
  <2> QED BY <1>1, <1>2, <2>1, <2>2 DEF Passed
<1>4. argc' = Len(w) /\ Len(w) \in Nat
  <2>1. argc' = Len(w)
    BY <1>1 DEF argc
  <2>2. argc' \in Nat
    BY DEF Walk
  <2> QED BY <2>1, <2>2
<1>5. needed' = Asked(proto, 1)
  BY <1>1, <1>2 DEF Counted
<1>6. Filled(proto, Len(w), TRUE, 1, Len(w), proto.size)
  BY <1>2, <1>4, FilledStart
<1>7. /\ 0 \in 0 .. 1 - 1 /\ {} = 1 .. 0 /\ (0 = 1 - 1) = TRUE /\ 1 .. 1 - 1 = {}
  OBVIOUS
<1>8. Filled(proto', argc' - 0, 0 = at' - 1, param', available', pos_c')
  <2>1. argc' - 0 = Len(w) /\ (0 = at' - 1) = TRUE
    BY <1>1, <1>4, <1>7
  <2> QED BY <1>1, <1>6, <2>1
<1>9. \E k \in 0 .. at' - 1 : SoFar(k)'
  <2>1. SoFar(0)'
    BY <1>3, <1>7, <1>8 DEF SoFar
  <2> QED BY <1>1, <1>7, <2>1
<1>10. WordsSoFar'
  <2>1. missing' = {} /\ ~(available' < 0)
    BY <1>1, <1>2, <1>4
  <2> QED BY <1>9, <2>1 DEF WordsSoFar
<1>11. Walking'
  BY <1>1, <1>2, <1>3, <1>5, <1>10 DEF Walking
<1> QED BY <1>1, <1>2, <1>11 DEF FitInvariant

LEMMA DeclareGroupFit ==
  ASSUME Standing, BindingInvariant', GroupInvariant', OrderInvariant',
         NEW g \in Groups, DeclareGroup(g)
  PROVE  FitInvariant'
<1>1. /\ phase = "declaring" /\ phase' \in {"declaring", "refused"}
      /\ missing' = missing /\ errors' = errors
      /\ \/ proto' = proto
         \/ PlaceFits(proto, g) /\ proto' = WithGroup(Named(proto, g), g)
  BY DEF DeclareGroup, localVars
<1>2. /\ ProtoOK(proto) /\ Counted(proto) /\ errors = {} /\ missing = {}
  BY <1>1, StandingIs DEF Standing, FitInvariant
<1>3. ProtoOK(proto') /\ ProtoShape(proto') /\ OrderShape(proto')
  BY DEF BindingInvariant, GroupInvariant, OrderInvariant
<1>4. CASE PlaceFits(proto, g) /\ proto' = WithGroup(Named(proto, g), g)
  <2>1. CountersMove(proto, g, proto')
    BY <1>2, <1>4, WithGroupCounts
  <2>2. Counted(proto')
    BY <1>2, <1>3, <2>1, DeclareCounts
  <2> QED BY <1>1, <1>2, <2>2 DEF FitInvariant
<1>5. CASE proto' = proto
  BY <1>1, <1>2, <1>5 DEF FitInvariant
<1> QED BY <1>1, <1>4, <1>5

LEMMA FitInit ==
  Init => FitInvariant
<1> SUFFICES ASSUME Init PROVE FitInvariant
  OBVIOUS
<1>1. proto = NoParameters /\ phase = "declaring" /\ errors = {} /\ missing = {}
  BY DEF Init
<1> DEFINE p == NoParameters
<1>2. p.positional = << >> /\ p.required = 0 /\ p.size = 0
  BY DEF NoParameters
<1> HIDE DEF p
<1>3. Len(<< >>) = 0 /\ 1 .. 0 = {}
  OBVIOUS
<1>4. RequiredFrom(<< >>, 1) = {} /\ OptionalOf(<< >>, 0) = {}
  BY <1>3 DEF RequiredFrom, OptionalOf
<1>5. Cardinality({}) = 0
  BY FS_EmptySet
<1>6. Counted(p)
  <2>1. Asked(p, 1) = 0 /\ Len(p.positional) = 0
    BY <1>2, <1>3, <1>4, <1>5 DEF Asked
  <2>2. Cardinality(OptionalOf(p.positional, 0)) = 0
    BY <1>2, <1>4, <1>5
  <2>3. SizeTo(p, 0) = 0 + 0
    BY <1>2, <2>2 DEF SizeTo
  <2> QED BY <1>2, <2>1, <2>3 DEF Counted
<1> QED BY <1>1, <1>6 DEF FitInvariant, p

LEMMA FitNext ==
  ASSUME Standing, BindingInvariant', GroupInvariant', OrderInvariant', [Next]_vars
  PROVE  FitInvariant'
<1>1. ASSUME NEW g \in Groups, DeclareGroup(g) PROVE FitInvariant'
  BY <1>1, DeclareGroupFit
<1>2. ASSUME NEW n \in 0 .. MaxWords, NEW w \in [1 .. n -> Words], Call(w)
      PROVE  FitInvariant'
  <2>1. Walk'
    BY <1>2 DEF BindingInvariant, Call
  <2> QED BY <1>2, <2>1, CallFit
<1>3. CASE UNCHANGED vars
  <2>1. UNCHANGED <<proto, phase, words, at, available, needed, pos_c, param,
                    locals, missing, errors>>
    BY <1>3 DEF vars, callVars, localVars
  <2>2. UNCHANGED <<Passed, FlagNames, argc, Positional>>
    BY <2>1 DEF Passed, FlagNames, argc, Positional
  <2>3. UNCHANGED Walking
    BY <2>1, <2>2 DEF Walking, WordsSoFar, SoFar, Clean
  <2>4. UNCHANGED AcceptsWhatFits
    BY <2>1, <2>2 DEF AcceptsWhatFits, Fits, OptionalNames
  <2> QED BY <2>1, <2>3, <2>4 DEF Standing, FitInvariant
<1> QED BY <1>1, <1>2, <1>3, TakeGroupFit, SkipGroupFit, TardyFlagFit, UnrecognizedFlagFit,
           DashDashFit, TakeFlagFit, FinishFit DEF Next

LEMMA FitInvariantHolds ==
  ASSUME NoDashesBehind
  PROVE  Spec => []FitInvariant
<1>1. Init => FitInvariant
  BY FitInit
<1>2. /\ BindingInvariant /\ GroupInvariant /\ OrderInvariant /\ FitInvariant
      /\ BindingInvariant' /\ GroupInvariant' /\ OrderInvariant' /\ [Next]_vars
      => FitInvariant'
  BY FitNext DEF Standing
<1> QED BY <1>1, <1>2, BindingInvariantHolds, GroupInvariantHolds, OrderInvariantHolds, PTL
        DEF Spec

\* The walk, which goes by three counters and looks ahead at no group, accepts exactly the
\* calls whose words fill some of the optional groups, in their order, and all required
\* ones, or overflow into "...": for every prototype without a convenience variable
\* behind "..." between brackets, and calls whose flags come first.
THEOREM AcceptsWhatFitsHolds ==
  ASSUME NoDashesBehind
  PROVE  Spec => []AcceptsWhatFits
<1>1. FitInvariant => AcceptsWhatFits
  BY DEF FitInvariant, AcceptsWhatFits
<1> QED BY <1>1, FitInvariantHolds, PTL

=============================================================================
