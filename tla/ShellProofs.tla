---------------------------- MODULE ShellProofs -----------------------------
(***************************************************************************)
(* What the operators of CallStack return, preserve and bound; how         *)
(* pushing, replacing and popping an activation, and changing global_stack *)
(* below it, preserve StackOK; that every step of the shell preserves      *)
(* ShellInvariant; and what follows: the types, the separation of the      *)
(* Error_lists on the stack, and the exact count and the bound of nested   *)
(* executables.                                                            *)
(***************************************************************************)
EXTENDS ShellInvariants, Induction

-----------------------------------------------------------------------------
\* Removing exceptions by name (Call_stack::remove_exceptions) leaves the others
\* of the list and nothing else: the recursive function in Remaining exists and is
\* well typed.
KeepsOthers(list, kept, name) ==
  \A j \in 1 .. Len(list) :
    list[j] # name => \E i \in 1 .. Len(kept) : kept[i] = list[j]

LEMMA RemainingIn ==
  ASSUME NEW M, NEW list \in Seq(M), NEW name
  PROVE  /\ Remaining(list, name) \in Seq(M \ {name})
         /\ KeepsOthers(list, Remaining(list, name), name)
         /\ \A x : Once(list, x) => Once(Remaining(list, name), x)
<1> DEFINE L == Len(list)
           Step(f, n) == IF n = 0 THEN << >>
                         ELSE IF list[n] = name THEN f[n - 1]
                         ELSE Append(f[n - 1], list[n])
           Unfolds(f) == f = [n \in 0 .. L |-> Step(f, n)]
           kept == CHOOSE f : Unfolds(f)
<1>0. L \in Nat /\ \A n \in 1 .. L : list[n] \in M
  OBVIOUS
<1>1. \E f : Unfolds(f)
  <2> DEFINE Partial(f, n) == \A m \in 0 .. n : f[m] = Step(f, m)
             S == {n \in Nat : n <= L =>
                     \E f \in [0 .. n -> Seq(M \ {name})] : Partial(f, n)}
  <2>1. 0 \in S
    <3>1. [m \in 0 .. 0 |-> << >>] \in [0 .. 0 -> Seq(M \ {name})]
      OBVIOUS
    <3>2. Partial([m \in 0 .. 0 |-> << >>], 0)
      OBVIOUS
    <3> QED BY <3>1, <3>2
  <2>2. ASSUME NEW n \in S PROVE n + 1 \in S
    <3>1. SUFFICES ASSUME n + 1 <= L
                   PROVE  \E g \in [0 .. n + 1 -> Seq(M \ {name})] : Partial(g, n + 1)
      <4> HIDE DEF Partial
      <4> QED BY <2>2
    <3>2. PICK f \in [0 .. n -> Seq(M \ {name})] : Partial(f, n)
      BY <2>2, <3>1, <1>0
    <3> DEFINE g == [m \in 0 .. n + 1 |-> IF m <= n THEN f[m] ELSE Step(f, n + 1)]
    <3>3. Step(f, n + 1) \in Seq(M \ {name})
      BY <1>0, <2>2, <3>1, <3>2
    <3>4. g \in [0 .. n + 1 -> Seq(M \ {name})]
      <4> HIDE DEF Step
      <4> QED BY <3>3, <3>2, <2>2
    <3>5. ASSUME NEW m \in 0 .. n + 1 PROVE g[m] = Step(g, m)
      <4>1. CASE m <= n
        <5>1. g[m] = Step(f, m)
          <6> HIDE DEF Step
          <6> QED BY <3>2, <4>1, <2>2
        <5>2. m # 0 => g[m - 1] = f[m - 1]
          BY <4>1, <2>2
        <5> QED BY <5>1, <5>2
      <4>2. CASE m = n + 1
        <5>1. g[m] = Step(f, m) /\ g[m - 1] = f[m - 1]
          BY <4>2, <2>2
        <5> QED BY <5>1
      <4> QED BY <4>1, <4>2, <2>2
    <3> HIDE DEF g
    <3> QED BY <3>4, <3>5
  <2>3. S = Nat
    <3> HIDE DEF S
    <3>1. S \in SUBSET Nat BY DEF S
    <3> QED BY <2>1, <2>2, <3>1, InductionOnSet
  <2>4. PICK f \in [0 .. L -> Seq(M \ {name})] : Partial(f, L)
    <3>1. L \in S BY <2>3, <1>0
    <3> QED BY <3>1
  <2>5. f = [n \in 0 .. L |-> Step(f, n)]
    <3> HIDE DEF L, Step
    <3>1. \A n \in 0 .. L : f[n] = Step(f, n) BY <2>4
    <3> QED BY <2>4, <3>1
  <2> QED BY <2>5
<1>2. Unfolds(kept)
  <2> HIDE DEF Unfolds
  <2> QED BY <1>1
<1>3. \A n \in 0 .. L : kept[n] = Step(kept, n)
  <2> HIDE DEF kept, Step
  <2> QED BY <1>2
<1>4. kept[L] \in Seq(M \ {name})
  <2> HIDE DEF kept
  <2> DEFINE S == {n \in Nat : n <= L => kept[n] \in Seq(M \ {name})}
  <2>1. 0 \in S
    <3>1. 0 \in 0 .. L /\ Step(kept, 0) = << >>
      BY <1>0
    <3>2. kept[0] = << >>
      <4> HIDE DEF Step, L
      <4> QED BY <3>1, <1>3
    <3>3. << >> \in Seq(M \ {name})
      OBVIOUS
    <3> HIDE DEF L
    <3> QED BY <3>2, <3>3
  <2>2. ASSUME NEW n \in S PROVE n + 1 \in S
    <3>1. SUFFICES ASSUME n + 1 <= L PROVE kept[n + 1] \in Seq(M \ {name})
      BY <2>2
    <3>2. kept[n] \in Seq(M \ {name})
      BY <2>2, <3>1, <1>0
    <3>3. kept[n + 1] = Step(kept, n + 1)
      BY <1>3, <2>2, <3>1, <1>0
    <3> QED BY <3>2, <3>3, <3>1, <2>2, <1>0
  <2>3. S = Nat
    <3> HIDE DEF S
    <3>1. S \in SUBSET Nat BY DEF S
    <3> QED BY <2>1, <2>2, <3>1, InductionOnSet
  <2>4. L \in S BY <2>3, <1>0
  <2> QED BY <2>4, <1>0
<1>5. \A j \in 1 .. L :
        list[j] # name => \E i \in 1 .. Len(kept[L]) : kept[L][i] = list[j]
  <2> HIDE DEF kept
  <2> DEFINE Stays(s, j) == \E i \in 1 .. Len(s) : s[i] = list[j]
             S == {n \in Nat : n <= L =>
                     /\ kept[n] \in Seq(M \ {name})
                     /\ \A j \in 1 .. n : list[j] # name => Stays(kept[n], j)}
  <2>1. 0 \in S
    <3>1. 0 \in 0 .. L /\ Step(kept, 0) = << >>
      BY <1>0
    <3>2. kept[0] = << >>
      <4> HIDE DEF Step, L
      <4> QED BY <3>1, <1>3
    <3>3. kept[0] \in Seq(M \ {name})
      BY <3>2
    <3> HIDE DEF L, Stays
    <3> QED BY <3>3
  <2>2. ASSUME NEW n \in S PROVE n + 1 \in S
    <3>1. SUFFICES ASSUME n + 1 <= L
                   PROVE  /\ kept[n + 1] \in Seq(M \ {name})
                          /\ \A j \in 1 .. n + 1 :
                               list[j] # name => Stays(kept[n + 1], j)
      <4> HIDE DEF Stays
      <4> QED BY <2>2
    <3>2. /\ n \in Nat /\ kept[n] \in Seq(M \ {name})
          /\ \A j \in 1 .. n : list[j] # name => Stays(kept[n], j)
      <4> HIDE DEF Stays
      <4> QED BY <2>2, <3>1, <1>0
    <3>3. kept[n + 1] = Step(kept, n + 1)
      BY <1>3, <3>2, <3>1, <1>0
    <3>4. /\ n + 1 \in 1 .. L /\ list[n + 1] \in M
          /\ kept[n + 1] = IF list[n + 1] = name THEN kept[n]
                           ELSE Append(kept[n], list[n + 1])
      BY <3>1, <3>2, <3>3, <1>0
    <3>5. CASE list[n + 1] = name
      <4>1. \A j \in 1 .. n + 1 : list[j] # name => j \in 1 .. n
        BY <3>2, <3>5
      <4> HIDE DEF Stays
      <4> QED BY <3>2, <3>4, <3>5, <4>1
    <3>6. CASE list[n + 1] # name
      <4>1. /\ kept[n + 1] \in Seq(M \ {name})
            /\ Len(kept[n + 1]) = Len(kept[n]) + 1
            /\ \A i \in 1 .. Len(kept[n]) : kept[n + 1][i] = kept[n][i]
            /\ kept[n + 1][Len(kept[n]) + 1] = list[n + 1]
        BY <3>2, <3>4, <3>6
      <4>2. ASSUME NEW j \in 1 .. n + 1, list[j] # name
            PROVE  Stays(kept[n + 1], j)
        <5>1. CASE j = n + 1
          <6>1. Len(kept[n]) + 1 \in 1 .. Len(kept[n + 1])
            BY <3>2, <4>1
          <6> QED BY <4>1, <5>1, <6>1
        <5>2. CASE j \in 1 .. n
          <6>1. PICK i \in 1 .. Len(kept[n]) : kept[n][i] = list[j]
            BY <3>2, <4>2, <5>2
          <6>2. i \in 1 .. Len(kept[n + 1])
            BY <3>2, <4>1
          <6> QED BY <4>1, <6>1, <6>2
        <5> QED BY <3>2, <5>1, <5>2
      <4> HIDE DEF Stays
      <4> QED BY <4>1, <4>2
    <3> QED BY <3>5, <3>6
  <2>3. S = Nat
    <3> HIDE DEF S
    <3>1. S \in SUBSET Nat BY DEF S
    <3> QED BY <2>1, <2>2, <3>1, InductionOnSet
  <2>4. L \in S BY <2>3, <1>0
  <2> QED BY <2>4, <1>0
<1>6. ASSUME NEW x, Once(list, x) PROVE Once(kept[L], x)
  <2> HIDE DEF kept
  <2> DEFINE Early(s, n) == \A i \in 1 .. Len(s) : s[i] = x =>
                              \E j \in 1 .. n : list[j] = x
             S == {n \in Nat : n <= L =>
                     /\ kept[n] \in Seq(M \ {name})
                     /\ Once(kept[n], x) /\ Early(kept[n], n)}
  <2>1. 0 \in S
    <3>1. 0 \in 0 .. L /\ Step(kept, 0) = << >>
      BY <1>0
    <3>2. kept[0] = << >>
      <4> HIDE DEF Step, L
      <4> QED BY <3>1, <1>3
    <3>3. kept[0] \in Seq(M \ {name}) /\ Once(kept[0], x) /\ Early(kept[0], 0)
      BY <3>2 DEF Once
    <3> HIDE DEF L, Early
    <3> QED BY <3>3
  <2>2. ASSUME NEW n \in S PROVE n + 1 \in S
    <3>1. SUFFICES ASSUME n + 1 <= L
                   PROVE  /\ kept[n + 1] \in Seq(M \ {name})
                          /\ Once(kept[n + 1], x) /\ Early(kept[n + 1], n + 1)
      <4> HIDE DEF Early
      <4> QED BY <2>2
    <3>2. /\ n \in Nat /\ kept[n] \in Seq(M \ {name})
          /\ Once(kept[n], x) /\ Early(kept[n], n)
      <4> HIDE DEF Early
      <4> QED BY <2>2, <3>1, <1>0
    <3>3. kept[n + 1] = Step(kept, n + 1)
      BY <1>3, <3>2, <3>1, <1>0
    <3>4. /\ n + 1 \in 1 .. L /\ list[n + 1] \in M
          /\ kept[n + 1] = IF list[n + 1] = name THEN kept[n]
                           ELSE Append(kept[n], list[n + 1])
      BY <3>1, <3>2, <3>3, <1>0
    <3>5. CASE list[n + 1] = name
      <4>1. \A j \in 1 .. n : j \in 1 .. n + 1
        BY <3>2
      <4> QED BY <3>2, <3>4, <3>5, <4>1
    <3>6. CASE list[n + 1] # name
      <4> DEFINE m == Len(kept[n])
      <4>1. /\ kept[n + 1] \in Seq(M \ {name}) /\ m \in Nat
            /\ Len(kept[n + 1]) = m + 1
            /\ \A i \in 1 .. m : kept[n + 1][i] = kept[n][i]
            /\ kept[n + 1][m + 1] = list[n + 1]
        BY <3>2, <3>4, <3>6
      <4>2. \A i \in 1 .. m + 1 : i \in 1 .. m \/ i = m + 1
        BY <4>1
      <4>3. /\ \A i \in 1 .. m : kept[n][i] = x => \E j \in 1 .. n : list[j] = x
            /\ \A i, k \in 1 .. m : kept[n][i] = x /\ kept[n][k] = x => i = k
        BY <3>2 DEF Once
      <4>4. ASSUME list[n + 1] = x, NEW i \in 1 .. m, kept[n][i] = x
            PROVE  FALSE
        <5>1. PICK j \in 1 .. n : list[j] = x
          BY <4>3, <4>4
        <5>2. j \in 1 .. L /\ j # n + 1
          BY <3>1, <3>2, <1>0
        <5> QED BY <1>6, <3>4, <4>4, <5>1, <5>2 DEF Once
      <4> HIDE DEF m
      <4>5. Once(kept[n + 1], x)
        <5> SUFFICES ASSUME NEW i \in 1 .. m + 1, NEW k \in 1 .. m + 1,
                            kept[n + 1][i] = x, kept[n + 1][k] = x
                     PROVE  i = k
          BY <4>1 DEF Once
        <5>1. CASE i \in 1 .. m /\ k \in 1 .. m
          BY <4>1, <4>3, <5>1
        <5>2. CASE i = m + 1 /\ k \in 1 .. m
          BY <4>1, <4>4, <5>2
        <5>3. CASE i \in 1 .. m /\ k = m + 1
          BY <4>1, <4>4, <5>3
        <5> QED BY <4>2, <5>1, <5>2, <5>3
      <4>6. Early(kept[n + 1], n + 1)
        <5> SUFFICES ASSUME NEW i \in 1 .. m + 1, kept[n + 1][i] = x
                     PROVE  \E j \in 1 .. n + 1 : list[j] = x
          BY <4>1
        <5>1. CASE i \in 1 .. m
          <6>1. PICK j \in 1 .. n : list[j] = x
            BY <4>1, <4>3, <5>1
          <6>2. j \in 1 .. n + 1
            BY <3>2
          <6> QED BY <6>1, <6>2
        <5>2. CASE i = m + 1
          <6>1. n + 1 \in 1 .. n + 1
            BY <3>2
          <6> QED BY <4>1, <5>2, <6>1
        <5> QED BY <4>2, <5>1, <5>2
      <4> HIDE DEF Early
      <4> QED BY <4>1, <4>5, <4>6
    <3> QED BY <3>5, <3>6
  <2>3. S = Nat
    <3> HIDE DEF S
    <3>1. S \in SUBSET Nat BY DEF S
    <3> QED BY <2>1, <2>2, <3>1, InductionOnSet
  <2>4. L \in S BY <2>3, <1>0
  <2> HIDE DEF Early
  <2> QED BY <2>4, <1>0
<1>7. Remaining(list, name) = kept[L]
  BY DEF Remaining
<1> HIDE DEF kept
<1> QED BY <1>4, <1>5, <1>6, <1>7 DEF KeepsOthers

LEMMA RemainingType ==
  ASSUME NEW list \in Seq(Names), NEW name
  PROVE  Remaining(list, name) \in Seq(Names)
<1>1. Remaining(list, name) \in Seq(Names \ {name})
  BY RemainingIn
<1> QED BY <1>1

\* Every exception that is left was in the list before.
LEMMA RemainingMembers ==
  ASSUME NEW list \in Seq(Names), NEW name,
         NEW i \in 1 .. Len(Remaining(list, name))
  PROVE  /\ Remaining(list, name)[i] # name
         /\ \E j \in 1 .. Len(list) : Remaining(list, name)[i] = list[j]
<1> DEFINE S == {list[j] : j \in 1 .. Len(list)}
<1>1. list \in Seq(S)
  OBVIOUS
<1>2. Remaining(list, name) \in Seq(S \ {name})
  <2> HIDE DEF S
  <2> QED BY <1>1, RemainingIn
<1>3. Remaining(list, name)[i] \in S \ {name}
  <2> HIDE DEF S
  <2> QED BY <1>2
<1> QED BY <1>3

-----------------------------------------------------------------------------
\* Counting modulo CountLimit.

LEMMA Quotient ==
  ASSUME NEW n \in Nat \ {0}, NEW a \in Int
  PROVE  a % n \in 0 .. n - 1 /\ a \div n \in Int /\ a = n * (a \div n) + (a % n)
OBVIOUS

LEMMA Multiple ==
  ASSUME NEW n \in Nat \ {0}, NEW q \in Int, NEW r \in Int, q >= r + 1
  PROVE  n * q >= n * r + n
<1>1. n * (q - r - 1) >= 0
  OBVIOUS
<1>2. n * (q - r - 1) = n * q - n * r - n
  OBVIOUS
<1>3. n * q \in Int /\ n * r \in Int
  OBVIOUS
<1> QED BY <1>1, <1>2, <1>3

LEMMA Remainder ==
  ASSUME NEW n \in Nat \ {0}, NEW q \in Int, NEW r \in 0 .. n - 1
  PROVE  (n * q + r) % n = r
<1> DEFINE a == n * q + r
           p == a \div n
           t == a % n
<1>1. a \in Int
  OBVIOUS
<1>2. p \in Int /\ t \in 0 .. n - 1 /\ a = n * p + t
  BY <1>1, Quotient
<1>3. n * p \in Int /\ n * q \in Int
  BY <1>2
<1>4. p = q
  <2>1. ASSUME p >= q + 1 PROVE FALSE
    <3>1. n * p >= n * q + n
      BY <2>1, <1>2, Multiple
    <3> HIDE DEF p, t
    <3> QED BY <3>1, <1>2, <1>3
  <2>2. ASSUME q >= p + 1 PROVE FALSE
    <3>1. n * q >= n * p + n
      BY <2>2, <1>2, Multiple
    <3> HIDE DEF p, t
    <3> QED BY <3>1, <1>2, <1>3
  <2> HIDE DEF p, t
  <2> QED BY <2>1, <2>2, <1>2
<1> HIDE DEF p, t
<1>5. t = r
  BY <1>2, <1>4, <1>3
<1> QED BY <1>5 DEF t

\* Wrapping around early makes no difference to what is counted on from there.
LEMMA CountedPlus ==
  ASSUME NEW a \in Int, NEW k \in Int
  PROVE  Counted(Counted(a) + k) = Counted(a + k)
<1> DEFINE n == CountLimit
           r == a % n
           q == a \div n
           t == (r + k) % n
           p == (r + k) \div n
<1>0. n \in Nat \ {0}
  BY LimitsAssumption
<1> HIDE DEF n
<1>1. r \in 0 .. n - 1 /\ q \in Int /\ a = n * q + r
  BY <1>0, Quotient
<1>2. t \in 0 .. n - 1 /\ p \in Int /\ r + k = n * p + t
  BY <1>0, <1>1, Quotient
<1> HIDE DEF r, q, t, p
<1>3. a + k = n * (q + p) + t
  <2>1. n * (q + p) = n * q + n * p
    BY <1>0, <1>1, <1>2
  <2>2. n * q \in Int /\ n * p \in Int
    BY <1>0, <1>1, <1>2
  <2> QED BY <1>1, <1>2, <2>1, <2>2
<1>4. (a + k) % n = t
  <2>1. q + p \in Int
    BY <1>1, <1>2
  <2> QED BY <1>0, <1>2, <1>3, <2>1, Remainder
<1> QED BY <1>4 DEF t, r, n, Counted

\* So the counter keeps being right when it changes along with the lists.
LEMMA CountedAlong ==
  ASSUME NEW a \in Int, NEW k \in Int
  PROVE  /\ \A c : c = Counted(a) => Counted(c + k) = Counted(a + k)
         /\ \A c : c = Counted(a) => Counted(c - k) = Counted(a - k)
<1>1. Counted(Counted(a) + k) = Counted(a + k)
  BY CountedPlus
<1>2. Counted(Counted(a) + (-k)) = Counted(a + (-k))
  BY CountedPlus
<1>3. a + (-k) = a - k /\ Counted(a) \in Int
  BY LimitsAssumption DEF Counted
<1>4. Counted(a) + (-k) = Counted(a) - k
  BY <1>3
<1> QED BY <1>1, <1>2, <1>3, <1>4

-----------------------------------------------------------------------------
\* The counter is unsigned: whatever is computed, it stays in its range.
LEMMA CountedType ==
  ASSUME NEW n \in Int
  PROVE  Counted(n) \in 0 .. CountLimit - 1
BY LimitsAssumption DEF Counted

\* Error_list::add_error appends one exception and leaves the nesting alone.
LEMMA AddErrorType ==
  ASSUME NEW g \in CallStacks, NEW name \in Names
  PROVE  /\ AddError(g, name) \in CallStacks
         /\ Len(AddError(g, name).errors) = Len(g.errors) + 1
         /\ AddError(g, name).nesting = g.nesting
         /\ AddError(g, name).signal = g.signal
<1>1. Counted(g.count + 1) \in 0 .. CountLimit - 1
  <2>1. g.count + 1 \in Int
    BY DEF CallStacks
  <2> QED BY <2>1, CountedType
<1>2. /\ Append(g.errors, name) \in Seq(Names)
      /\ Len(Append(g.errors, name)) = Len(g.errors) + 1
  BY DEF CallStacks
<1> QED BY <1>1, <1>2 DEF AddError, CallStacks

LEMMA AddErrorIfType ==
  ASSUME NEW g \in CallStacks, NEW name \in Names, NEW cond \in BOOLEAN
  PROVE  /\ AddErrorIf(cond, g, name) \in CallStacks
         /\ Len(AddErrorIf(cond, g, name).errors) >= Len(g.errors)
         /\ AddErrorIf(cond, g, name).nesting = g.nesting
         /\ AddErrorIf(cond, g, name).signal = g.signal
<1>1. Len(g.errors) \in Nat
  BY DEF CallStacks
<1> QED BY <1>1, AddErrorType DEF AddErrorIf

LEMMA ReplaceErrorType ==
  ASSUME NEW g \in CallStacks, NEW name \in Names
  PROVE  /\ ReplaceError(g, name) \in CallStacks
         /\ Len(ReplaceError(g, name).errors) = Len(g.errors) + 1
         /\ ReplaceError(g, name).nesting = g.nesting
<1>1. Counted(g.count + 1) \in 0 .. CountLimit - 1
  <2>1. g.count + 1 \in Int
    BY DEF CallStacks
  <2> QED BY <2>1, CountedType
<1>2. /\ Append(g.errors, name) \in Seq(Names)
      /\ Len(Append(g.errors, name)) = Len(g.errors) + 1
  BY DEF CallStacks
<1> QED BY <1>1, <1>2 DEF ReplaceError, CallStacks

\* Erasing a member shortens the list by one.
LEMMA RemoveErrorType ==
  ASSUME NEW g \in CallStacks, NEW i \in Nat, g.errors # << >>
  PROVE  /\ RemoveError(g, i) \in CallStacks
         /\ Len(RemoveError(g, i).errors) = Len(g.errors) - 1
         /\ RemoveError(g, i).nesting = g.nesting
<1>1. Counted(g.count - 1) \in 0 .. CountLimit - 1
  <2>1. g.count - 1 \in Int
    BY DEF CallStacks
  <2> QED BY <2>1, CountedType
<1>2. g.errors \in Seq(Names) /\ Len(g.errors) \in Nat \ {0}
  BY DEF CallStacks
<1>3. /\ Without(g.errors, i) \in Seq(Names)
      /\ Len(Without(g.errors, i)) = Len(g.errors) - 1
  BY <1>2 DEF Without
<1> QED BY <1>1, <1>3 DEF RemoveError, CallStacks

\* The end of the life of a list leaves what its callers have.
LEMMA DestroyListType ==
  ASSUME NEW g \in CallStacks, NEW base \in 0 .. Len(g.errors)
  PROVE  /\ DestroyList(g, base) \in CallStacks
         /\ Len(DestroyList(g, base).errors) = base
         /\ DestroyList(g, base).nesting = g.nesting
<1>1. g.errors \in Seq(Names) /\ Len(g.errors) \in Nat
  BY DEF CallStacks
<1>2. /\ SubSeq(g.errors, 1, base) \in Seq(Names)
      /\ Len(SubSeq(g.errors, 1, base)) = base
  BY <1>1
<1> QED BY <1>2 DEF DestroyList, CallStacks

LEMMA ResetType ==
  ASSUME NEW g \in CallStacks, NEW base \in 0 .. Len(g.errors)
  PROVE  /\ Reset(g, base) \in CallStacks
         /\ Len(Reset(g, base).errors) = base
         /\ Reset(g, base).nesting = g.nesting
<1>1. DestroyList(g, base) \in CallStacks
  BY DestroyListType
<1>2. 0 \in 0 .. CountLimit - 1
  BY LimitsAssumption
<1> QED BY <1>1, <1>2, DestroyListType DEF Reset, CallStacks

\* Call_stack::remove_exceptions keeps its hands off the lists of the callers.
LEMMA RemoveExceptionsType ==
  ASSUME NEW g \in CallStacks, NEW base \in 0 .. Len(g.errors), NEW name
  PROVE  /\ RemoveExceptions(g, base, name) \in CallStacks
         /\ Len(RemoveExceptions(g, base, name).errors) >= base
         /\ RemoveExceptions(g, base, name).nesting = g.nesting
<1> DEFINE list == SubSeq(g.errors, base + 1, Len(g.errors))
           kept == Remaining(list, name)
           low == SubSeq(g.errors, 1, base)
<1>1. g.errors \in Seq(Names) /\ Len(g.errors) \in Nat /\ g.count \in Int
  BY DEF CallStacks
<1>2. list \in Seq(Names) /\ Len(list) \in Nat
  BY <1>1
<1>3. low \in Seq(Names) /\ Len(low) = base
  BY <1>1
<1> HIDE DEF list, low
<1>4. kept \in Seq(Names) /\ Len(kept) \in Nat
  BY <1>2, RemainingType
<1> HIDE DEF kept
<1>5. low \o kept \in Seq(Names) /\ Len(low \o kept) >= base
  BY <1>3, <1>4
<1>6. Counted(g.count - (Len(list) - Len(kept))) \in 0 .. CountLimit - 1
  <2>1. g.count - (Len(list) - Len(kept)) \in Int
    BY <1>1, <1>2, <1>4
  <2> QED BY <2>1, CountedType
<1>7. RemoveExceptions(g, base, name) =
        [g EXCEPT !.errors = low \o kept,
                  !.count = Counted(g.count - (Len(list) - Len(kept))),
                  !.unwind = g.unwind /\ kept # << >>]
  BY DEF RemoveExceptions, list, kept, low, CallStacks
<1>8. (g.unwind /\ kept # << >>) \in BOOLEAN
  OBVIOUS
<1> QED BY <1>5, <1>6, <1>7, <1>8 DEF CallStacks

\* Moving the last exception to the second place only reorders the list.
LEMMA LastToSecondType ==
  ASSUME NEW errors \in Seq(Names), NEW base \in Nat
  PROVE  /\ LastToSecond(errors, base) \in Seq(Names)
         /\ Len(LastToSecond(errors, base)) = Len(errors)
<1>1. Len(errors) \in Nat /\ \A i \in 1 .. Len(errors) : errors[i] \in Names
  OBVIOUS
<1>2. ASSUME NEW j \in 1 .. Len(errors)
      PROVE  (IF j <= base + 1 THEN errors[j]
              ELSE IF j = base + 2 THEN errors[Len(errors)]
              ELSE errors[j - 1]) \in Names
  BY <1>1
<1> QED BY <1>1, <1>2 DEF LastToSecond

LEMMA RequestExitType ==
  ASSUME NEW g \in CallStacks
  PROVE  /\ RequestExit(g) \in CallStacks
         /\ RequestExit(g).errors = g.errors
         /\ RequestExit(g).nesting = g.nesting
BY DEF RequestExit, CallStacks

\* Len of the lists and their members.
LEMMA CallStackErrors ==
  ASSUME NEW g \in CallStacks
  PROVE  /\ g.errors \in Seq(Names)
         /\ Len(g.errors) \in Nat
         /\ \A i \in 1 .. Len(g.errors) : g.errors[i] \in Names
BY DEF CallStacks

-----------------------------------------------------------------------------
\* The effect of a step on global_stack, as far as the lists and flags go.

\* Exceptions are added, never without unwinding; exit may be requested.
Grows(g, h) ==
  /\ g \in CallStacks /\ h \in CallStacks
  /\ Len(g.errors) <= Len(h.errors)
  /\ \A p \in 1 .. Len(g.errors) : h.errors[p] = g.errors[p]
  /\ g.unwind => h.unwind
  /\ Len(g.errors) < Len(h.errors) => h.unwind
  /\ h.unwind => g.unwind \/ h.exit \/ Len(g.errors) < Len(h.errors)
  /\ g.exit => h.exit
  /\ h.inHandler = g.inHandler
  /\ h.collectExcess = g.collectExcess /\ h.catchExcess = g.catchExcess
  /\ g.count = Counted(Len(g.errors)) => h.count = Counted(Len(h.errors))

\* The exceptions that Call_stack::remove_exceptions is asked to remove.
Jumps == {".false", ".break", ".continue", ".unclosed_brace"}

\* Exceptions are removed from the list that starts at base; that it unwinds
\* still means that some are left, and only those in Jumps are removed.
Pruned(g, h, base) ==
  /\ g \in CallStacks /\ h \in CallStacks
  /\ base <= Len(g.errors) /\ base <= Len(h.errors)
  /\ \A p \in 1 .. base : h.errors[p] = g.errors[p]
  /\ \A p \in base + 1 .. Len(h.errors) :
       \E q \in base + 1 .. Len(g.errors) : h.errors[p] = g.errors[q]
  /\ \A p \in 1 .. Len(g.errors) :
       \/ g.errors[p] \in Jumps
       \/ \E q \in 1 .. Len(h.errors) : h.errors[q] = g.errors[p]
  /\ h.unwind => g.unwind /\ base < Len(h.errors)
  /\ g.unwind /\ ~h.unwind => Len(h.errors) = base
  /\ h.exit = g.exit
  /\ h.inHandler = g.inHandler
  /\ h.collectExcess = g.collectExcess /\ h.catchExcess = g.catchExcess
  /\ g.count = Counted(Len(g.errors)) => h.count = Counted(Len(h.errors))

LEMMA GrowsSelf ==
  ASSUME NEW g \in CallStacks
  PROVE  Grows(g, g)
BY CallStackErrors DEF Grows

LEMMA GrowsOn ==
  ASSUME NEW g, NEW h, NEW k, Grows(g, h), Grows(h, k)
  PROVE  Grows(g, k)
<1>1. /\ g \in CallStacks /\ h \in CallStacks /\ k \in CallStacks
      /\ Len(g.errors) \in Nat /\ Len(h.errors) \in Nat /\ Len(k.errors) \in Nat
  BY CallStackErrors DEF Grows
<1>2. /\ Len(g.errors) <= Len(k.errors)
      /\ \A p \in 1 .. Len(g.errors) : k.errors[p] = g.errors[p]
  <2>1. Len(g.errors) <= Len(h.errors) /\ Len(h.errors) <= Len(k.errors)
    BY DEF Grows
  <2>2. \A p \in 1 .. Len(g.errors) : h.errors[p] = g.errors[p]
    BY DEF Grows
  <2>3. \A p \in 1 .. Len(h.errors) : k.errors[p] = h.errors[p]
    BY DEF Grows
  <2> QED BY <1>1, <2>1, <2>2, <2>3
<1>3. /\ g.unwind => k.unwind
      /\ Len(g.errors) < Len(k.errors) => k.unwind
      /\ k.unwind => g.unwind \/ k.exit \/ Len(g.errors) < Len(k.errors)
  BY <1>1 DEF Grows
<1> QED BY <1>1, <1>2, <1>3 DEF Grows

\* What Error_list::add_error does.
LEMMA AddErrorEffect ==
  ASSUME NEW g \in CallStacks, NEW name \in Names
  PROVE  /\ AddError(g, name).unwind
         /\ Len(AddError(g, name).errors) = Len(g.errors) + 1
         /\ \A p \in 1 .. Len(g.errors) : AddError(g, name).errors[p] = g.errors[p]
         /\ AddError(g, name).errors[Len(g.errors) + 1] = name
         /\ Grows(g, AddError(g, name))
<1> DEFINE h == AddError(g, name)
<1>1. /\ g.errors \in Seq(Names) /\ Len(g.errors) \in Nat /\ g.count \in Int
      /\ h \in CallStacks /\ Len(h.errors) = Len(g.errors) + 1
  BY AddErrorType DEF CallStacks
<1>2. /\ h.errors = Append(g.errors, name) /\ h.unwind
      /\ h.count = Counted(g.count + 1) /\ h.exit = g.exit
      /\ h.inHandler = g.inHandler /\ h.collectExcess = g.collectExcess
      /\ h.catchExcess = g.catchExcess
  BY DEF AddError, CallStacks
<1> HIDE DEF h
<1>3. /\ \A p \in 1 .. Len(g.errors) : h.errors[p] = g.errors[p]
      /\ h.errors[Len(g.errors) + 1] = name
  BY <1>1, <1>2
<1>4. g.count = Counted(Len(g.errors)) => h.count = Counted(Len(h.errors))
  <2>1. g.count = Counted(Len(g.errors)) =>
          Counted(g.count + 1) = Counted(Len(g.errors) + 1)
    <3> DEFINE n == Len(g.errors)
    <3>1. n \in Int
      BY <1>1
    <3> HIDE DEF n
    <3>2. \A c : c = Counted(n) => Counted(c + 1) = Counted(n + 1)
      BY <3>1, CountedAlong
    <3> QED BY <3>2 DEF n
  <2> QED BY <1>1, <1>2, <2>1
<1>5. Grows(g, h)
  BY <1>1, <1>2, <1>3, <1>4 DEF Grows
<1> QED BY <1>1, <1>2, <1>3, <1>5 DEF h

LEMMA AddErrorIfEffect ==
  ASSUME NEW g \in CallStacks, NEW name \in Names, NEW cond \in BOOLEAN
  PROVE  /\ Grows(g, AddErrorIf(cond, g, name))
         /\ cond => AddErrorIf(cond, g, name).unwind
BY GrowsSelf, AddErrorEffect DEF AddErrorIf

\* Call_stack::request_exit and the flags that only some routines look at.
LEMMA RequestExitEffect ==
  ASSUME NEW g \in CallStacks
  PROVE  Grows(g, RequestExit(g))
<1>1. /\ RequestExit(g) \in CallStacks /\ RequestExit(g).errors = g.errors
      /\ Len(g.errors) \in Nat
  BY RequestExitType, CallStackErrors
<1>2. /\ RequestExit(g).exit = TRUE /\ RequestExit(g).unwind = (g.unwind \/ ~g.inHandler)
      /\ RequestExit(g).inHandler = g.inHandler /\ RequestExit(g).count = g.count
      /\ RequestExit(g).collectExcess = g.collectExcess
      /\ RequestExit(g).catchExcess = g.catchExcess
  BY DEF RequestExit, CallStacks
<1>3. /\ g.exit \in BOOLEAN /\ g.unwind \in BOOLEAN /\ g.inHandler \in BOOLEAN
      /\ RequestExit(g).unwind \in BOOLEAN
  BY <1>1 DEF CallStacks
<1>4. /\ g.unwind => RequestExit(g).unwind
      /\ RequestExit(g).unwind => g.unwind \/ RequestExit(g).exit
  BY <1>2, <1>3
<1> QED BY <1>1, <1>2, <1>4 DEF Grows

LEMMA SignalEffect ==
  ASSUME NEW g \in CallStacks, NEW name \in Names
  PROVE  Grows(g, [g EXCEPT !.signal = name])
<1>1. [g EXCEPT !.signal = name] \in CallStacks /\ Len(g.errors) \in Nat
  BY DEF CallStacks
<1> QED BY <1>1 DEF Grows, CallStacks

LEMMA NestingEffect ==
  ASSUME NEW g \in CallStacks, NEW n \in Int
  PROVE  Grows(g, [g EXCEPT !.nesting = n])
<1>1. [g EXCEPT !.nesting = n] \in CallStacks /\ Len(g.errors) \in Nat
  BY DEF CallStacks
<1> QED BY <1>1 DEF Grows, CallStacks

\* One list behind the other.
LEMMA Joined ==
  ASSUME NEW S, NEW a \in Seq(S), NEW b \in Seq(S)
  PROVE  /\ Len(a \o b) = Len(a) + Len(b)
         /\ \A p \in 1 .. Len(a) : (a \o b)[p] = a[p]
         /\ \A p \in Len(a) + 1 .. Len(a) + Len(b) : (a \o b)[p] = b[p - Len(a)]
OBVIOUS

\* Call_stack::remove_exceptions takes exceptions of that name out of the list
\* of its caller, and goes on unwinding only for those that are left.
LEMMA RemoveExceptionsEffect ==
  ASSUME NEW g \in CallStacks, NEW base \in 0 .. Len(g.errors), NEW name \in Jumps
  PROVE  /\ Pruned(g, RemoveExceptions(g, base, name), base)
         /\ \A p \in base + 1 .. Len(RemoveExceptions(g, base, name).errors) :
              RemoveExceptions(g, base, name).errors[p] # name
<1> DEFINE list == SubSeq(g.errors, base + 1, Len(g.errors))
           kept == Remaining(list, name)
           low == SubSeq(g.errors, 1, base)
           h == RemoveExceptions(g, base, name)
<1>1. /\ g.errors \in Seq(Names) /\ Len(g.errors) \in Nat /\ g.count \in Int
      /\ h \in CallStacks
  BY RemoveExceptionsType DEF CallStacks
<1>2. /\ list \in Seq(Names) /\ Len(list) = Len(g.errors) - base
      /\ \A j \in 1 .. Len(list) : list[j] = g.errors[base + j]
  BY <1>1
<1>3. /\ low \in Seq(Names) /\ Len(low) = base
      /\ \A p \in 1 .. base : low[p] = g.errors[p]
  BY <1>1
<1> HIDE DEF list, low, kept
<1>4. /\ kept \in Seq(Names) /\ Len(kept) \in Nat
      /\ \A i \in 1 .. Len(kept) :
           kept[i] # name /\ \E j \in 1 .. Len(list) : kept[i] = list[j]
  BY <1>2, RemainingType, RemainingMembers DEF kept
<1>11. \A j \in 1 .. Len(list) :
         list[j] # name => \E i \in 1 .. Len(kept) : kept[i] = list[j]
  <2>1. KeepsOthers(list, Remaining(list, name), name)
    BY <1>2, RemainingIn
  <2> QED BY <2>1 DEF KeepsOthers, kept
<1>0. h.count = Counted(g.count - (Len(list) - Len(kept)))
  BY DEF RemoveExceptions, list, kept, CallStacks
<1>5. /\ h.errors = low \o kept
      /\ h.unwind = (g.unwind /\ kept # << >>)
      /\ h.exit = g.exit /\ h.inHandler = g.inHandler
      /\ h.collectExcess = g.collectExcess /\ h.catchExcess = g.catchExcess
  BY DEF RemoveExceptions, list, kept, low, CallStacks
<1> HIDE DEF kept, h
<1>6. /\ Len(h.errors) = base + Len(kept)
      /\ \A p \in 1 .. base : h.errors[p] = g.errors[p]
      /\ \A p \in base + 1 .. Len(h.errors) : h.errors[p] = kept[p - base]
  <2> DEFINE joined == low \o kept
  <2>1. /\ Len(joined) = Len(low) + Len(kept)
        /\ \A p \in 1 .. Len(low) : joined[p] = low[p]
        /\ \A p \in Len(low) + 1 .. Len(low) + Len(kept) :
             joined[p] = kept[p - Len(low)]
    BY <1>3, <1>4, Joined
  <2> HIDE DEF joined
  <2> QED BY <1>3, <1>5, <2>1 DEF joined
<1>7. ASSUME NEW p \in base + 1 .. Len(h.errors)
      PROVE  /\ h.errors[p] # name
             /\ \E q \in base + 1 .. Len(g.errors) : h.errors[p] = g.errors[q]
  <2>1. p - base \in 1 .. Len(kept)
    BY <1>4, <1>6
  <2>2. PICK j \in 1 .. Len(list) : kept[p - base] = list[j]
    BY <1>4, <2>1
  <2>3. base + j \in base + 1 .. Len(g.errors)
    BY <1>1, <1>2
  <2> QED BY <1>2, <1>4, <1>6, <2>1, <2>2, <2>3
<1>8. g.count = Counted(Len(g.errors)) => h.count = Counted(Len(h.errors))
  <2> DEFINE a == Len(g.errors)
             b == Len(kept)
             l == Len(list)
             m == Len(h.errors)
             k == l - b
  <2>1. a \in Int /\ base \in Int /\ b \in Int
    BY <1>1, <1>4
  <2>2. l = a - base /\ m = base + b
    BY <1>2, <1>6
  <2>3. h.count = Counted(g.count - k)
    BY <1>0
  <2> HIDE DEF a, b, l, m
  <2>4. k \in Int /\ m = a - k
    BY <2>1, <2>2
  <2> HIDE DEF k
  <2>5. \A c : c = Counted(a) => Counted(c - k) = Counted(a - k)
    BY <2>1, <2>4, CountedAlong
  <2> QED BY <2>3, <2>4, <2>5 DEF a, m
<1>9. (kept = << >>) <=> Len(kept) = 0
  BY <1>4
<1>12. ASSUME NEW p \in 1 .. Len(g.errors), g.errors[p] \notin Jumps
       PROVE  \E q \in 1 .. Len(h.errors) : h.errors[q] = g.errors[p]
  <2>1. CASE p <= base
    <3>1. p \in 1 .. base /\ p \in 1 .. Len(h.errors)
      BY <1>1, <1>4, <1>6, <2>1
    <3> QED BY <1>6, <3>1
  <2>2. CASE ~(p <= base)
    <3> DEFINE j == p - base
    <3>1. j \in 1 .. Len(list) /\ base + j = p
      BY <1>1, <1>2, <2>2
    <3>2. list[j] = g.errors[p] /\ list[j] # name
      BY <1>2, <1>12, <3>1
    <3>3. PICK i \in 1 .. Len(kept) : kept[i] = list[j]
      BY <1>11, <3>1, <3>2
    <3>4. /\ base + i \in base + 1 .. Len(h.errors) /\ base + i - base = i
          /\ base + i \in 1 .. Len(h.errors)
      BY <1>1, <1>4, <1>6
    <3>5. h.errors[base + i] = kept[i]
      BY <1>6, <3>4
    <3> QED BY <3>2, <3>3, <3>4, <3>5
  <2> QED BY <2>1, <2>2
<1>10. Pruned(g, h, base)
  <2>1. base <= Len(g.errors) /\ base <= Len(h.errors)
    BY <1>1, <1>4, <1>6
  <2>2. /\ h.unwind => g.unwind /\ base < Len(h.errors)
        /\ g.unwind /\ ~h.unwind => Len(h.errors) = base
    <3>1. g.unwind \in BOOLEAN /\ h.unwind \in BOOLEAN
      BY <1>1 DEF CallStacks
    <3>2. h.unwind <=> g.unwind /\ Len(kept) # 0
      BY <1>5, <1>9, <3>1
    <3> QED BY <1>4, <1>6, <3>1, <3>2
  <2> QED BY <1>1, <1>5, <1>6, <1>7, <1>8, <1>12, <2>1, <2>2 DEF Pruned
<1> QED BY <1>7, <1>10 DEF h

LEMMA PrunedOn ==
  ASSUME NEW g, NEW h, NEW k, NEW base \in Nat,
         Pruned(g, h, base), Pruned(h, k, base)
  PROVE  Pruned(g, k, base)
<1>1. /\ g \in CallStacks /\ h \in CallStacks /\ k \in CallStacks
      /\ Len(g.errors) \in Nat /\ Len(h.errors) \in Nat /\ Len(k.errors) \in Nat
  BY CallStackErrors DEF Pruned
<1>2. \A p \in 1 .. base : k.errors[p] = g.errors[p]
  BY DEF Pruned
<1>3. ASSUME NEW p \in base + 1 .. Len(k.errors)
      PROVE  \E q \in base + 1 .. Len(g.errors) : k.errors[p] = g.errors[q]
  <2>1. PICK q \in base + 1 .. Len(h.errors) : k.errors[p] = h.errors[q]
    BY DEF Pruned
  <2>2. PICK r \in base + 1 .. Len(g.errors) : h.errors[q] = g.errors[r]
    BY DEF Pruned
  <2> QED BY <2>1, <2>2
<1>4. /\ k.unwind => g.unwind /\ base < Len(k.errors)
      /\ g.unwind /\ ~k.unwind => Len(k.errors) = base
  <2>1. CASE h.unwind
    BY <2>1 DEF Pruned
  <2>2. CASE g.unwind /\ ~h.unwind
    <3>1. Len(h.errors) = base
      BY <2>2 DEF Pruned
    <3>2. ASSUME Len(k.errors) # base PROVE FALSE
      <4>1. base + 1 \in base + 1 .. Len(k.errors)
        BY <1>1, <3>2 DEF Pruned
      <4>2. PICK q \in base + 1 .. Len(h.errors) : TRUE
        BY <4>1 DEF Pruned
      <4> QED BY <3>1, <4>2
    <3>3. ~k.unwind
      BY <2>2 DEF Pruned
    <3> QED BY <3>2, <3>3
  <2>3. CASE ~g.unwind
    BY <2>3 DEF Pruned
  <2> QED BY <2>1, <2>2, <2>3
<1>5. ASSUME NEW p \in 1 .. Len(g.errors), g.errors[p] \notin Jumps
      PROVE  \E q \in 1 .. Len(k.errors) : k.errors[q] = g.errors[p]
  <2>1. PICK q \in 1 .. Len(h.errors) : h.errors[q] = g.errors[p]
    BY <1>5 DEF Pruned
  <2> QED BY <1>5, <2>1 DEF Pruned
<1> QED BY <1>1, <1>2, <1>3, <1>4, <1>5 DEF Pruned

-----------------------------------------------------------------------------
\* Frames.

LEMMA NamesInUse ==
  /\ {".mapped_argfunction", ".for(body)", ".autofunction"} \subseteq Names
  /\ {".init", ".prompt", ".raw_command", ".shutdown", ".before_command",
      ".run_logic", ".after_command"} \subseteq Names
  /\ NoSignal \in Names
  /\ Signals \subseteq Names
  /\ Commands \subseteq CommandType /\ Conditions \subseteq CommandType
BY InterpreterAssumption, ShellAssumption, NoSignalAssumption

LEMMA CommandsTyped ==
  ASSUME NEW name \in Names
  PROVE  /\ CallOf(name) \in CommandType
         /\ ThrowOf(name) \in CommandType
         /\ BlockOf(name) \in CommandType
BY DEF CallOf, ThrowOf, BlockOf, Command, CommandType, Kinds

LEMMA ArgfunctionTyped == Argfunction \in CommandType /\ Argfunction.what = "block"
BY CommandsTyped, NamesInUse DEF Argfunction, BlockOf, Command

\* A new activation is well typed and holds nothing.
LEMMA NewFrame ==
  ASSUME NEW what \in Kinds \cup HelperKinds, NEW pc \in Places,
         NEW c \in CommandType, NEW base \in Nat
  PROVE  /\ Frame(what, pc, c, base) \in Frames
         /\ Frame(what, pc, c, base).what = what
         /\ Frame(what, pc, c, base).pc = pc
         /\ Frame(what, pc, c, base).base = base
         /\ Frame(what, pc, c, base).focus = base + 1
         /\ Frame(what, pc, c, base).mark = base
BY DEF Frame, Frames

LEMMA PlainFrameOK ==
  ASSUME NEW f \in Frames, NEW n \in Nat, ~Holding(f), f.base < f.focus,
         f.base <= n
  PROVE  FrameOK(f, n) /\ Low(f) = f.base
BY DEF FrameOK, Low, Holding, Frames

LEMMA LowType ==
  ASSUME NEW f \in Frames
  PROVE  Low(f) \in Nat /\ f.base \in Nat
BY DEF Low, Frames

-----------------------------------------------------------------------------
\* The stack.

LEMMA LastOK ==
  ASSUME NEW g, NEW s, StackOK(g, s)
  PROVE  /\ Len(s) \in Nat \ {0}
         /\ s[Len(s)] \in Frames
         /\ FrameOK(s[Len(s)], Len(g.errors))
         /\ g \in CallStacks
         /\ Len(g.errors) \in Nat
         /\ s \in Seq(Frames)
         /\ s[Len(s)].what # "main" => Len(s) > 1
BY DEF StackOK, CallStacks

\* Whatever the running executable does to global_stack is harmless as long as
\* it leaves the exceptions that the others hold.
LEMMA GlobalOK ==
  ASSUME NEW g, NEW s, StackOK(g, s), NEW h \in CallStacks,
         h.nesting = g.nesting, Len(h.errors) >= Low(s[Len(s)])
  PROVE  StackOK(h, s)
<1>1. Len(h.errors) \in Nat /\ Len(s) \in Nat \ {0}
  BY CallStackErrors DEF StackOK
<1>2. ASSUME NEW i \in 1 .. Len(s) PROVE FrameOK(s[i], Len(h.errors))
  <2>1. s[i] \in Frames /\ s[Len(s)] \in Frames
    BY <1>1 DEF StackOK
  <2>2. Low(s[i]) <= Low(s[Len(s)])
    <3>1. CASE i = Len(s)
      BY <3>1, <2>1, LowType
    <3>2. CASE i < Len(s)
      <4>1. Low(s[i]) <= s[Len(s)].base
        BY <3>2, <1>1 DEF StackOK
      <4>2. s[Len(s)].base <= Low(s[Len(s)])
        BY <1>1 DEF StackOK, FrameOK
      <4> QED BY <4>1, <4>2, <2>1, LowType
    <3> QED BY <3>1, <3>2, <1>1
  <2>3. FrameOK(s[i], Len(g.errors))
    BY DEF StackOK
  <2> QED BY <2>1, <2>2, <2>3, <1>1, LowType DEF FrameOK
<1> QED BY <1>2 DEF StackOK

\* Counted activations after a push.
LEMMA NestedPush ==
  ASSUME NEW s \in Seq(Frames), NEW f \in Frames
  PROVE  NestedIn(Append(s, f)) =
           IF Counts(f) THEN NestedIn(s) \cup {Len(s) + 1} ELSE NestedIn(s)
<1>1. /\ Len(Append(s, f)) = Len(s) + 1 /\ Len(s) \in Nat
      /\ DOMAIN s = 1 .. Len(s) /\ DOMAIN Append(s, f) = 1 .. Len(s) + 1
  OBVIOUS
<1>2. /\ \A i \in 1 .. Len(s) : Append(s, f)[i] = s[i]
      /\ Append(s, f)[Len(s) + 1] = f
  OBVIOUS
<1> QED BY <1>1, <1>2 DEF NestedIn

LEMMA NestedFinite ==
  ASSUME NEW s \in Seq(Frames)
  PROVE  /\ IsFiniteSet(NestedIn(s)) /\ Len(s) + 1 \notin NestedIn(s)
         /\ Cardinality(NestedIn(s)) \in Nat
<1>1. NestedIn(s) \subseteq 1 .. Len(s) /\ Len(s) \in Nat
  BY DEF NestedIn
<1>2. IsFiniteSet(1 .. Len(s))
  BY <1>1, FS_Interval
<1> QED BY <1>1, <1>2, FS_Subset, FS_CardinalityType

\* A new activation comes on top with a list of its own above all others.
LEMMA PushOK ==
  ASSUME NEW g, NEW s, StackOK(g, s), NEW f \in Frames,
         FrameOK(f, Len(g.errors)), Low(s[Len(s)]) <= f.base,
         NEW h \in CallStacks, h.errors = g.errors,
         h.nesting = g.nesting + (IF Counts(f) THEN 1 ELSE 0),
         h.nesting <= MaxNesting + 2
  PROVE  StackOK(h, Append(s, f))
<1> DEFINE t == Append(s, f)
<1>1. s \in Seq(Frames) /\ Len(s) \in Nat \ {0} /\ g \in CallStacks
  BY LastOK
<1>2. t \in Seq(Frames) /\ Len(t) = Len(s) + 1 /\ t[Len(s) + 1] = f
      /\ \A i \in 1 .. Len(s) : t[i] = s[i]
  BY <1>1
<1> HIDE DEF t
<1>3. t[1].what = "main"
  BY <1>1, <1>2 DEF StackOK
<1>4. ASSUME NEW i \in 1 .. Len(t) PROVE FrameOK(t[i], Len(h.errors))
  BY <1>1, <1>2 DEF StackOK
<1>5. ASSUME NEW i \in 1 .. Len(t), NEW j \in 1 .. Len(t), i < j
      PROVE  Low(t[i]) <= t[j].base
  <2>1. CASE j <= Len(s)
    BY <2>1, <1>5, <1>1, <1>2 DEF StackOK
  <2>2. CASE j = Len(s) + 1
    <3>1. i \in 1 .. Len(s) /\ t[i] = s[i] /\ t[j] = f
      BY <2>2, <1>5, <1>1, <1>2
    <3>2. s[i] \in Frames /\ s[Len(s)] \in Frames
      BY <3>1, <1>1
    <3>3. CASE i = Len(s)
      BY <3>1, <3>3
    <3>4. CASE i < Len(s)
      <4>1. Low(s[i]) <= s[Len(s)].base /\ s[Len(s)].base <= Low(s[Len(s)])
        BY <3>1, <3>4, <1>1 DEF StackOK, FrameOK
      <4> QED BY <4>1, <3>1, <3>2, LowType
    <3> QED BY <3>1, <3>3, <3>4, <1>1
  <2> QED BY <2>1, <2>2, <1>1, <1>2
<1>6. h.nesting = Cardinality(NestedIn(t))
  <2>1. g.nesting = Cardinality(NestedIn(s)) /\ g.nesting \in Int
    BY <1>1 DEF StackOK, CallStacks
  <2>2. CASE Counts(f)
    <3>1. NestedIn(t) = NestedIn(s) \cup {Len(s) + 1}
      BY <2>2, <1>1, NestedPush DEF t
    <3>2. Cardinality(NestedIn(s) \cup {Len(s) + 1}) = Cardinality(NestedIn(s)) + 1
      BY <1>1, NestedFinite, FS_AddElement
    <3> QED BY <3>1, <3>2, <2>1, <2>2
  <2>3. CASE ~Counts(f)
    <3>1. NestedIn(t) = NestedIn(s)
      BY <2>3, <1>1, NestedPush DEF t
    <3> QED BY <3>1, <2>1, <2>3
  <2> QED BY <2>2, <2>3
<1>7. Len(t) > 0
  BY <1>1, <1>2
<1> QED BY <1>2, <1>3, <1>4, <1>5, <1>6, <1>7 DEF StackOK, t

\* The running activation goes on: its frame is replaced by one of the same
\* routine with the same list.
LEMMA ReplaceOK ==
  ASSUME NEW g, NEW s, StackOK(g, s), NEW f \in Frames,
         FrameOK(f, Len(g.errors)), f.base = s[Len(s)].base,
         f.what = s[Len(s)].what, Counts(f) <=> Counts(s[Len(s)])
  PROVE  /\ StackOK(g, [s EXCEPT ![Len(s)] = f])
         /\ Len([s EXCEPT ![Len(s)] = f]) = Len(s)
         /\ [s EXCEPT ![Len(s)] = f][Len(s)] = f
<1> DEFINE t == [s EXCEPT ![Len(s)] = f]
<1>1. s \in Seq(Frames) /\ Len(s) \in Nat \ {0} /\ g \in CallStacks
  BY LastOK
<1>2. t \in Seq(Frames) /\ Len(t) = Len(s) /\ t[Len(s)] = f
      /\ \A i \in 1 .. Len(s) : i # Len(s) => t[i] = s[i]
  BY <1>1
<1>3. DOMAIN t = 1 .. Len(s) /\ DOMAIN s = 1 .. Len(s)
  BY <1>1
<1> HIDE DEF t
<1>4. t[1].what = "main"
  <2>1. s[1].what = "main" BY DEF StackOK
  <2> QED BY <1>1, <1>2, <2>1
<1>5. ASSUME NEW i \in 1 .. Len(t) PROVE FrameOK(t[i], Len(g.errors))
  BY <1>1, <1>2 DEF StackOK
<1>6. ASSUME NEW i \in 1 .. Len(t), NEW j \in 1 .. Len(t), i < j
      PROVE  Low(t[i]) <= t[j].base
  <2>1. i \in 1 .. Len(s) /\ j \in 1 .. Len(s) /\ t[i] = s[i] /\ t[j].base = s[j].base
    BY <1>6, <1>1, <1>2
  <2> QED BY <2>1, <1>6 DEF StackOK
<1>7. NestedIn(t) = NestedIn(s)
  BY <1>1, <1>2, <1>3 DEF NestedIn
<1>8. Len(t) > 0
  BY <1>1, <1>2
<1>9. StackOK(g, t)
  BY <1>1, <1>2, <1>4, <1>5, <1>6, <1>7, <1>8 DEF StackOK
<1> QED BY <1>9, <1>2 DEF t

\* The running activation ends.
LEMMA PopOK ==
  ASSUME NEW g, NEW s, StackOK(g, s), s[Len(s)].what # "main",
         NEW h \in CallStacks, Len(h.errors) >= s[Len(s)].base,
         h.nesting = g.nesting - (IF Counts(s[Len(s)]) THEN 1 ELSE 0)
  PROVE  StackOK(h, SubSeq(s, 1, Len(s) - 1))
<1> DEFINE t == SubSeq(s, 1, Len(s) - 1)
<1>1. s \in Seq(Frames) /\ Len(s) \in Nat \ {0} /\ g \in CallStacks /\ Len(s) > 1
  BY LastOK
<1>2. t \in Seq(Frames) /\ Len(t) = Len(s) - 1
      /\ \A i \in 1 .. Len(t) : t[i] = s[i]
  BY <1>1
<1>3. DOMAIN t = 1 .. Len(s) - 1 /\ DOMAIN s = 1 .. Len(s)
  BY <1>1
<1> HIDE DEF t
<1>4. t[1].what = "main"
  <2>1. s[1].what = "main" BY DEF StackOK
  <2> QED BY <1>1, <1>2, <2>1
<1>5. Len(h.errors) \in Nat /\ Len(g.errors) \in Nat
  BY <1>1, CallStackErrors
<1>6. ASSUME NEW i \in 1 .. Len(t) PROVE FrameOK(t[i], Len(h.errors))
  <2>1. i \in 1 .. Len(s) /\ i < Len(s) /\ Len(s) \in 1 .. Len(s) /\ t[i] = s[i]
    BY <1>1, <1>2
  <2>2. FrameOK(s[i], Len(g.errors)) /\ Low(s[i]) <= s[Len(s)].base
    BY <2>1 DEF StackOK
  <2>3. s[i] \in Frames /\ s[Len(s)] \in Frames
    BY <2>1, <1>1
  <2> QED BY <2>1, <2>2, <2>3, <1>5, LowType DEF FrameOK
<1>7. ASSUME NEW i \in 1 .. Len(t), NEW j \in 1 .. Len(t), i < j
      PROVE  Low(t[i]) <= t[j].base
  BY <1>7, <1>1, <1>2 DEF StackOK
<1>8. h.nesting = Cardinality(NestedIn(t)) /\ h.nesting <= MaxNesting + 2
  <2>1. g.nesting = Cardinality(NestedIn(s)) /\ g.nesting \in Int
        /\ g.nesting <= MaxNesting + 2
    BY <1>1 DEF StackOK, CallStacks
  <2>2. IsFiniteSet(NestedIn(s)) /\ IsFiniteSet(NestedIn(t))
    BY <1>1, <1>2, NestedFinite
  <2>3. CASE Counts(s[Len(s)])
    <3>1. NestedIn(t) = NestedIn(s) \ {Len(s)} /\ Len(s) \in NestedIn(s)
      BY <2>3, <1>1, <1>2, <1>3 DEF NestedIn
    <3>2. Cardinality(NestedIn(t)) = Cardinality(NestedIn(s)) - 1
      BY <3>1, <2>2, FS_RemoveElement
    <3> QED BY <3>2, <2>1, <2>3, LimitsAssumption
  <2>4. CASE ~Counts(s[Len(s)])
    <3>1. NestedIn(t) = NestedIn(s)
      BY <2>4, <1>1, <1>2, <1>3 DEF NestedIn
    <3> QED BY <3>1, <2>1, <2>4
  <2> QED BY <2>3, <2>4
<1>9. Len(t) > 0
  BY <1>1, <1>2
<1> QED BY <1>2, <1>4, <1>6, <1>7, <1>8, <1>9 DEF StackOK, t

-----------------------------------------------------------------------------
\* Running an executable.

LEMMA ShellNames == ShellExceptions \subseteq Names
BY NamesAssumption

LEMMA KindsApart ==
  /\ \A f \in Frames : f.what \in HelperKinds => ~Counts(f)
  /\ \A c \in CommandType : c.what \in Kinds
BY DEF Counts, Kinds, HelperKinds, CommandType

\* operator() adds one activation at most, within the limit of nesting.
LEMMA CallOK ==
  ASSUME NEW g, NEW s, StackOK(g, s), NEW c \in CommandType, Call(g, s, c)
  PROVE  StackOK(gs', stack')
<1> DEFINE deep == g.nesting > MaxNesting + 1
           e == AddErrorIf(deep, g, ".excessive_nesting")
           f == Frame(c.what, "enter", c, Len(e.errors))
           h == [e EXCEPT !.nesting = @ + 1]
<1>1. g \in CallStacks /\ s \in Seq(Frames) /\ Len(s) \in Nat \ {0}
      /\ s[Len(s)] \in Frames /\ FrameOK(s[Len(s)], Len(g.errors))
  BY LastOK
<1>2. ".excessive_nesting" \in Names
  BY ShellNames DEF ShellExceptions
<1>3. /\ e \in CallStacks /\ Len(e.errors) >= Len(g.errors)
      /\ e.nesting = g.nesting /\ (deep => e.unwind)
  <2>1. deep \in BOOLEAN
    OBVIOUS
  <2>2. deep => e = AddError(g, ".excessive_nesting")
    BY DEF AddErrorIf
  <2>3. deep => e.unwind
    BY <2>2, <1>1 DEF AddError, CallStacks
  <2> HIDE DEF deep
  <2> QED BY <1>1, <1>2, <2>1, <2>3, AddErrorIfType
<1>4. Len(e.errors) \in Nat /\ Len(g.errors) \in Nat /\ g.nesting \in Int
  BY <1>1, <1>3 DEF CallStacks
<1>5. StackOK(e, s)
  <2>1. Len(e.errors) >= Low(s[Len(s)])
    BY <1>1, <1>3, <1>4, LowType DEF FrameOK
  <2> HIDE DEF e
  <2> QED BY <2>1, <1>3, GlobalOK
<1>6. IF e.unwind THEN gs' = e /\ stack' = s
      ELSE gs' = h /\ stack' = Append(s, f)
  BY DEF Call
<1> HIDE DEF e
<1>7. CASE e.unwind
  BY <1>5, <1>6, <1>7
<1>8. CASE ~e.unwind
  <2>1. c.what \in Kinds
    BY DEF CommandType
  <2>2. f \in Frames /\ f.what = c.what /\ f.pc = "enter"
        /\ f.base = Len(e.errors) /\ f.focus = f.base + 1
    <3>1. c.what \in Kinds \cup HelperKinds /\ "enter" \in Places
      BY <2>1 DEF Places
    <3>2. ASSUME NEW k \in Nat
          PROVE  LET n == Frame(c.what, "enter", c, k)
                 IN  n \in Frames /\ n.what = c.what /\ n.pc = "enter"
                     /\ n.base = k /\ n.focus = k + 1
      <4> HIDE DEF f, h
      <4> QED BY <3>1, NewFrame
    <3> QED BY <3>2, <1>4
  <2>3. FrameOK(f, Len(e.errors)) /\ Counts(f) /\ ~Holding(f)
    BY <2>1, <2>2, <1>4, PlainFrameOK DEF Holding, Counts
  <2>4. h \in CallStacks /\ h.errors = e.errors /\ h.nesting = e.nesting + 1
    BY <1>3 DEF CallStacks
  <2>5. h.nesting <= MaxNesting + 2
    <3>1. g.nesting <= MaxNesting + 1
      BY <1>3, <1>4, <1>8, LimitsAssumption
    <3>2. h.nesting = g.nesting + 1
      BY <1>3, <2>4
    <3> HIDE DEF deep, f, h
    <3> QED BY <3>1, <3>2, <1>4, LimitsAssumption
  <2>6. Low(s[Len(s)]) <= f.base
    BY <1>1, <1>3, <1>4, <2>2, LowType DEF FrameOK
  <2>7. h.nesting = e.nesting + (IF Counts(f) THEN 1 ELSE 0)
    BY <2>3, <2>4
  <2> HIDE DEF f, h
  <2>8. StackOK(h, Append(s, f))
    BY <1>5, <2>2, <2>3, <2>4, <2>5, <2>6, <2>7, PushOK
  <2> QED BY <2>8, <1>6, <1>8
<1> QED BY <1>7, <1>8

\* A helper routine comes on top, with a list of its own or with one that its
\* caller gave it.
LEMMA HelperOK ==
  ASSUME NEW g, NEW s, StackOK(g, s), NEW f \in Frames,
         f.what \in HelperKinds, FrameOK(f, Len(g.errors)),
         Low(s[Len(s)]) <= f.base
  PROVE  StackOK(g, Append(s, f))
<1>1. ~Counts(f)
  BY KindsApart
<1>2. g \in CallStacks /\ g.nesting <= MaxNesting + 2 /\ g.nesting \in Int
  BY DEF StackOK, CallStacks
<1> QED BY <1>1, <1>2, PushOK

\* A helper routine whose list is new.
LEMMA NewHelperOK ==
  ASSUME NEW g, NEW s, StackOK(g, s), NEW what \in HelperKinds,
         NEW pc \in Places, what = "handler" => pc # "ran",
         NEW c \in CommandType
  PROVE  StackOK(g, Append(s, Frame(what, pc, c, Len(g.errors))))
<1> DEFINE f == Frame(what, pc, c, Len(g.errors))
<1>1. /\ s[Len(s)] \in Frames /\ FrameOK(s[Len(s)], Len(g.errors))
      /\ Len(g.errors) \in Nat
  BY LastOK
<1>2. f \in Frames /\ f.what = what /\ f.pc = pc /\ f.base = Len(g.errors)
      /\ f.focus = f.base + 1
  BY <1>1, NewFrame
<1>3. FrameOK(f, Len(g.errors))
  BY <1>1, <1>2, PlainFrameOK DEF Holding, HelperKinds
<1>4. Low(s[Len(s)]) <= f.base
  BY <1>1, <1>2 DEF FrameOK
<1> QED BY <1>2, <1>3, <1>4, HelperOK

\* Executable_map::run, with its autofunction.
LEMMA RunOK ==
  ASSUME NEW g, NEW s, StackOK(g, s), NEW c \in CommandType, Run(g, s, c),
         inAuto \in BOOLEAN
  PROVE  StackOK(gs', stack') /\ inAuto' \in BOOLEAN
<1> DEFINE n == ".function_not_found"
           f == Frame("autofunction", "second", c, Len(g.errors))
<1>1. g \in CallStacks /\ n \in Names /\ Len(g.errors) \in Nat
      /\ s[Len(s)] \in Frames /\ FrameOK(s[Len(s)], Len(g.errors))
  BY LastOK, ShellNames DEF ShellExceptions
<1>2. AddError(g, n) \in CallStacks /\ AddError(g, n).nesting = g.nesting
      /\ Len(AddError(g, n).errors) = Len(g.errors) + 1
  BY <1>1, AddErrorType
<1>3. StackOK(AddError(g, n), s)
  BY <1>1, <1>2, GlobalOK, LowType DEF FrameOK
<1>4. Len(AddError(g, n).errors) >= Low(s[Len(s)])
  BY <1>1, <1>2, LowType DEF FrameOK
<1>5. StackOK(AddError(AddError(g, n), n), s)
  <2> DEFINE k == AddError(g, n)
  <2>1. k \in CallStacks /\ StackOK(k, s)
    BY <1>2, <1>3
  <2> HIDE DEF k
  <2>2. AddError(k, n) \in CallStacks /\ AddError(k, n).nesting = k.nesting
        /\ Len(AddError(k, n).errors) = Len(k.errors) + 1
    BY <2>1, <1>1, AddErrorType
  <2>3. Len(k.errors) \in Nat /\ FrameOK(s[Len(s)], Len(k.errors))
    BY <2>1, LastOK
  <2>4. StackOK(AddError(k, n), s)
    BY <2>1, <2>2, <2>3, <1>1, GlobalOK, LowType DEF FrameOK
  <2> QED BY <2>4 DEF k
<1>6. CASE Call(g, s, c) /\ UNCHANGED inAuto
  BY <1>6, CallOK
<1>7. CASE gs' = AddError(g, n) /\ stack' = s /\ UNCHANGED inAuto
  BY <1>7, <1>3
<1>8. CASE inAuto' = TRUE /\ Call(g, Append(s, f), CallOf(".autofunction"))
  <2>1. CallOf(".autofunction") \in CommandType
    BY CommandsTyped, NamesInUse
  <2>2. StackOK(g, Append(s, f))
    <3>1. /\ "autofunction" \in HelperKinds /\ "second" \in Places
          /\ "autofunction" # "handler"
      BY DEF HelperKinds, Places
    <3> QED BY <3>1, NewHelperOK
  <2> HIDE DEF f
  <2> QED BY <2>1, <2>2, <1>8, CallOK
<1>9. CASE gs' = AddError(AddError(g, n), n) /\ stack' = s /\ UNCHANGED inAuto
  BY <1>9, <1>5
<1> QED BY <1>6, <1>7, <1>8, <1>9 DEF Run

-----------------------------------------------------------------------------
\* The running activation.

LEMMA TopOK ==
  ASSUME StackOK(gs, stack)
  PROVE  /\ Top \in Frames /\ FrameOK(Top, Len(gs.errors))
         /\ gs \in CallStacks /\ Len(gs.errors) \in Nat
         /\ Top.cmd \in CommandType /\ Top.stmt \in CommandType
         /\ Top.base \in 0 .. Len(gs.errors) /\ Top.mark \in Nat
         /\ Top.focus \in Nat /\ Top.base < Top.focus /\ Top.prev \in Nat
         /\ Low(Top) \in Nat /\ Top.base <= Low(Top) /\ Low(Top) <= Len(gs.errors)
<1>1. /\ Top \in Frames /\ FrameOK(Top, Len(gs.errors))
      /\ gs \in CallStacks /\ Len(gs.errors) \in Nat
  BY LastOK DEF Top
<1>2. Low(Top) \in Nat /\ Top.base \in Nat
  BY <1>1, LowType
<1>3. /\ Top.cmd \in CommandType /\ Top.stmt \in CommandType
      /\ Top.mark \in Nat /\ Top.focus \in Nat /\ Top.prev \in Nat
  BY <1>1 DEF Frames
<1>4. /\ Top.base < Top.focus /\ Top.base <= Low(Top)
      /\ Low(Top) <= Len(gs.errors)
  BY <1>1 DEF FrameOK
<1> QED BY <1>1, <1>2, <1>3, <1>4

LEMMA SetTopOK ==
  ASSUME StackOK(gs, stack), NEW f \in Frames, f.what = Top.what,
         f.base = Top.base, Counts(f) <=> Counts(Top),
         FrameOK(f, Len(gs.errors)), NEW h \in CallStacks,
         h.nesting = gs.nesting, Len(h.errors) >= Low(f)
  PROVE  StackOK(h, SetTop(f))
<1>1. /\ StackOK(gs, SetTop(f)) /\ Len(SetTop(f)) = Len(stack)
      /\ SetTop(f)[Len(stack)] = f
  BY ReplaceOK DEF SetTop, Top
<1> QED BY <1>1, GlobalOK

\* The routines that hold exceptions for the executables they call.
Holders == {"handler", "try", "collect"}

LEMMA GotoOK ==
  ASSUME StackOK(gs, stack), Top.pc # "signal", NEW pc \in Places,
         pc # "signal",
         Top.what \in Holders => pc \notin {"ran", "caught", "arguments"},
         NEW h \in CallStacks, h.nesting = gs.nesting,
         Len(h.errors) >= Top.base
  PROVE  StackOK(h, Goto(pc))
<1> DEFINE f == [Top EXCEPT !.pc = pc]
<1>1. f \in Frames /\ f.what = Top.what /\ f.base = Top.base /\ f.pc = pc
      /\ f.focus = Top.focus
  BY TopOK DEF Frames
<1>2. ~Holding(f)
  BY <1>1 DEF Holding, Holders
<1>3. Counts(f) <=> Counts(Top)
  BY <1>1 DEF Counts
<1> HIDE DEF f
<1>4. f.base < f.focus /\ f.base <= Len(gs.errors) /\ Len(gs.errors) \in Nat
  BY <1>1, TopOK
<1>5. FrameOK(f, Len(gs.errors)) /\ Low(f) = Top.base
  BY <1>1, <1>2, <1>4, PlainFrameOK
<1> QED BY <1>1, <1>3, <1>5, SetTopOK DEF Goto, f

LEMMA CallingOK ==
  ASSUME StackOK(gs, stack), Top.pc # "signal", NEW pc \in Places,
         pc # "signal",
         Top.what \in Holders => pc \notin {"ran", "caught", "arguments"},
         NEW h \in CallStacks, h.nesting = gs.nesting,
         Len(h.errors) >= Top.base
  PROVE  StackOK(h, Calling(pc))
<1> DEFINE f == [Top EXCEPT !.pc = pc, !.mark = Len(gs.errors)]
<1>1. f \in Frames /\ f.what = Top.what /\ f.base = Top.base /\ f.pc = pc
      /\ f.focus = Top.focus
  BY TopOK DEF Frames
<1>2. ~Holding(f)
  BY <1>1 DEF Holding, Holders
<1>3. Counts(f) <=> Counts(Top)
  BY <1>1 DEF Counts
<1> HIDE DEF f
<1>4. f.base < f.focus /\ f.base <= Len(gs.errors) /\ Len(gs.errors) \in Nat
  BY <1>1, TopOK
<1>5. FrameOK(f, Len(gs.errors)) /\ Low(f) = Top.base
  BY <1>1, <1>2, <1>4, PlainFrameOK
<1> QED BY <1>1, <1>3, <1>5, SetTopOK DEF Calling, f

LEMMA StatementOK ==
  ASSUME StackOK(gs, stack), Top.pc # "signal", Top.what \notin Holders,
         NEW pc \in Places, pc # "signal", NEW c \in CommandType
  PROVE  StackOK(gs, SetTop([Top EXCEPT !.pc = pc, !.stmt = c]))
<1> DEFINE f == [Top EXCEPT !.pc = pc, !.stmt = c]
<1>1. f \in Frames /\ f.what = Top.what /\ f.base = Top.base /\ f.pc = pc
      /\ f.focus = Top.focus
  BY TopOK DEF Frames
<1>2. ~Holding(f)
  BY <1>1 DEF Holding, Holders
<1>3. Counts(f) <=> Counts(Top)
  BY <1>1 DEF Counts
<1> HIDE DEF f
<1>4. f.base < f.focus /\ f.base <= Len(gs.errors) /\ Len(gs.errors) \in Nat
  BY <1>1, TopOK
<1>5. FrameOK(f, Len(gs.errors)) /\ Low(f) = Top.base
  BY <1>1, <1>2, <1>4, PlainFrameOK
<1>6. gs \in CallStacks /\ Len(gs.errors) >= Low(f)
  BY <1>4, <1>5, <1>1, TopOK
<1> QED BY <1>1, <1>3, <1>5, <1>6, SetTopOK DEF f

LEMMA PoppedOK ==
  ASSUME StackOK(gs, stack), Top.what # "main", NEW h \in CallStacks,
         Len(h.errors) >= Top.base,
         h.nesting = gs.nesting - (IF Counts(Top) THEN 1 ELSE 0)
  PROVE  StackOK(h, Popped)
BY PopOK DEF Popped, Top

\* What is on top after a pop leaves the list of the popped activation to it.
LEMMA BelowTop ==
  ASSUME StackOK(gs, stack), Top.what # "main"
  PROVE  Low(Popped[Len(Popped)]) <= Top.base
<1>1. stack \in Seq(Frames) /\ Len(stack) \in Nat /\ Len(stack) > 1
  BY LastOK DEF Top
<1>2. Len(Popped) = Len(stack) - 1 /\ Popped[Len(stack) - 1] = stack[Len(stack) - 1]
  BY <1>1 DEF Popped
<1> QED BY <1>1, <1>2 DEF StackOK, Top

\* An activation gives its level of nesting back before it runs the handler of
\* a signal: it does not count any more.
LEMMA SignalCallOK ==
  ASSUME StackOK(gs, stack), Top.what \in Kinds, Top.pc = "return",
         NEW h \in CallStacks, h.errors = gs.errors,
         h.nesting = gs.nesting - 1
  PROVE  StackOK(h, Calling("signal"))
<1> DEFINE f == [Top EXCEPT !.pc = "signal", !.mark = Len(gs.errors)]
           t == [stack EXCEPT ![Len(stack)] = f]
<1>1. /\ stack \in Seq(Frames) /\ Len(stack) \in Nat \ {0} /\ Len(stack) > 1
      /\ Top = stack[Len(stack)] /\ Counts(Top)
  BY LastOK DEF Top, Counts, Kinds
<1>2. /\ f \in Frames /\ f.what = Top.what /\ f.base = Top.base
      /\ f.pc = "signal" /\ f.focus = Top.focus
  BY TopOK DEF Frames, Places
<1>3. ~Holding(f) /\ ~Counts(f)
  BY <1>2 DEF Holding, Counts
<1> HIDE DEF f
<1>4. StackOK(h, Popped)
  BY <1>1, PoppedOK, TopOK DEF Kinds
<1>5. FrameOK(f, Len(h.errors))
  BY <1>2, <1>3, TopOK, PlainFrameOK
<1>6. Low(Popped[Len(Popped)]) <= f.base
  BY <1>1, <1>2, BelowTop DEF Kinds
<1>7. StackOK(h, Append(Popped, f))
  <2>1. h.nesting \in Int /\ h.nesting <= MaxNesting + 2
    BY <1>4 DEF StackOK, CallStacks
  <2>2. h.nesting = h.nesting + (IF Counts(f) THEN 1 ELSE 0)
    BY <1>3, <2>1
  <2> QED BY <1>2, <1>4, <1>5, <1>6, <2>1, <2>2, PushOK
<1>8. Append(Popped, f) = t
  BY <1>1, <1>2 DEF Popped
<1> QED BY <1>7, <1>8 DEF Calling, SetTop, f

-----------------------------------------------------------------------------
\* The fuel.

LEMMA SpendOK ==
  ASSUME fuel \in 0 .. LineFuel, Spend
  PROVE  fuel' \in 0 .. LineFuel
BY InterpreterAssumption DEF Spend

\* What a step leaves alone keeps its type.
LEMMA RestOK ==
  ASSUME ShellInvariant, StackOK(gs', stack'), UNCHANGED <<gc, inAuto, fuel>>
  PROVE  ShellInvariant'
BY DEF ShellInvariant

\* Flags may be set at will.
LEMMA FlagsOK ==
  ASSUME NEW g \in CallStacks, NEW b \in BOOLEAN, NEW i \in BOOLEAN
  PROVE  /\ [g EXCEPT !.unwind = b] \in CallStacks
         /\ [g EXCEPT !.unwind = b].errors = g.errors
         /\ [g EXCEPT !.unwind = b].nesting = g.nesting
         /\ [g EXCEPT !.inHandler = i] \in CallStacks
         /\ [g EXCEPT !.inHandler = i].errors = g.errors
         /\ [g EXCEPT !.inHandler = i].nesting = g.nesting
         /\ [g EXCEPT !.inHandler = i, !.unwind = b] \in CallStacks
         /\ [g EXCEPT !.inHandler = i, !.unwind = b].errors = g.errors
         /\ [g EXCEPT !.inHandler = i, !.unwind = b].nesting = g.nesting
BY DEF CallStacks

LEMMA FinishOK ==
  ASSUME ShellInvariant, Top.pc # "signal", NEW g \in CallStacks,
         g.nesting = gs.nesting, Len(g.errors) >= Top.base, Finish(g)
  PROVE  ShellInvariant'
<1>1. "return" \in Places /\ "return" # "signal"
      /\ "return" \notin {"ran", "caught", "arguments"}
  BY DEF Places
<1>2. StackOK(g, Goto("return"))
  BY <1>1, GotoOK DEF ShellInvariant
<1> QED BY <1>2, RestOK DEF Finish

-----------------------------------------------------------------------------
\* Executables: Base_executable::operator() and Executable_map::run.
LEMMA ExecutableStep ==
  ASSUME ShellInvariant,
         SecondLookup \/ Return \/ SignalHandled \/ CatchSignal
  PROVE  ShellInvariant'
<1> USE DEF ShellInvariant
<1>0. /\ Top \in Frames /\ gs \in CallStacks /\ Len(gs.errors) \in Nat
      /\ Top.base \in 0 .. Len(gs.errors) /\ Low(Top) <= Len(gs.errors)
      /\ Top.cmd \in CommandType /\ Low(Top) \in Nat
  BY TopOK
<1>1. CASE SecondLookup
  <2>1. Top.what = "autofunction" /\ Top.what # "main" /\ ~Counts(Top)
    BY <1>1 DEF SecondLookup, Counts, Kinds
  <2>2. StackOK(gs, Popped)
    BY <1>0, <2>1, PoppedOK DEF CallStacks
  <2>3. CASE Call(gs, Popped, Top.cmd)
    BY <1>0, <1>1, <2>2, <2>3, CallOK DEF SecondLookup
  <2>4. CASE gs' = AddError(gs, ".function_not_found") /\ stack' = Popped
    <3>1. ".function_not_found" \in Names
      BY ShellNames DEF ShellExceptions
    <3>2. /\ gs' \in CallStacks /\ Len(gs'.errors) = Len(gs.errors) + 1
          /\ gs'.nesting = gs.nesting
      BY <1>0, <2>4, <3>1, AddErrorType
    <3>3. StackOK(gs', Popped)
      BY <1>0, <2>1, <3>2, PoppedOK DEF CallStacks
    <3> QED BY <1>1, <2>4, <3>3 DEF SecondLookup
  <2> QED BY <1>1, <2>3, <2>4 DEF SecondLookup
<1>2. CASE Return
  <2> DEFINE g == [gs EXCEPT !.nesting = @ - 1]
             h == [g EXCEPT !.signal = NoSignal]
  <2>1. Top.what \in Kinds /\ Top.pc = "return" /\ Counts(Top)
        /\ Top.what # "main"
    BY <1>2 DEF Return, Counts, Kinds
  <2>2. /\ g \in CallStacks /\ g.errors = gs.errors
        /\ g.nesting = gs.nesting - 1 /\ g.signal = gs.signal
    BY <1>0 DEF CallStacks
  <2>3. CASE gs' = g /\ stack' = Popped /\ UNCHANGED inAuto
    <3>1. StackOK(g, Popped)
      <4> HIDE DEF g
      <4>1. g.nesting = gs.nesting - (IF Counts(Top) THEN 1 ELSE 0)
        BY <2>1, <2>2
      <4>2. Len(g.errors) >= Top.base
        BY <1>0, <2>2
      <4> QED BY <2>1, <2>2, <4>1, <4>2, PoppedOK
    <3> QED BY <1>2, <2>3, <3>1 DEF Return
  <2>4. CASE Run(h, Calling("signal"), CallOf(g.signal))
    <3>1. h \in CallStacks /\ h.errors = gs.errors /\ h.nesting = gs.nesting - 1
      BY <2>2, NamesInUse DEF CallStacks
    <3>2. CallOf(g.signal) \in CommandType
      BY <2>2, CommandsTyped DEF CallStacks
    <3>3. StackOK(h, Calling("signal"))
      BY <1>0, <2>1, <3>1, SignalCallOK
    <3> QED BY <1>2, <2>4, <3>2, <3>3, RunOK DEF Return
  <2> QED BY <1>2, <2>3, <2>4 DEF Return
<1>3. CASE SignalHandled
  <2>1. Top.what # "main" /\ ~Counts(Top)
    BY <1>3 DEF SignalHandled, Counts, Kinds
  <2>2. StackOK(gs, Popped)
    BY <1>0, <2>1, PoppedOK DEF CallStacks
  <2> QED BY <1>3, <2>2 DEF SignalHandled
<1>4. CASE CatchSignal
  <2>1. PICK s \in Signals : gs' = [gs EXCEPT !.signal = s]
    BY <1>4 DEF CatchSignal
  <2>2. gs' \in CallStacks /\ gs'.errors = gs.errors /\ gs'.nesting = gs.nesting
    BY <1>0, <2>1, NamesInUse DEF CallStacks
  <2>3. StackOK(gs', stack)
    BY <1>0, <2>2, GlobalOK DEF Top
  <2> QED BY <1>4, <2>3, SpendOK DEF CatchSignal
<1> QED BY <1>1, <1>2, <1>3, <1>4

-----------------------------------------------------------------------------
\* Bodies: functions, argument functions and the interpretation of statements.

LEMMA MayOK == \A fault : May(fault) \subseteq BOOLEAN
BY DEF May

\* The routines of Interpreting are no handlers and none of their statements
\* is a signal handler.
LEMMA BodyEndOK ==
  ASSUME Top.what \in Bodies
  PROVE  BodyEnd \in {"unused", "return", "line"}
BY DEF BodyEnd, Bodies

\* A step to another place that leaves all else alone, but for exceptions added.
LEMMA GoesOnOK ==
  ASSUME ShellInvariant, Top.pc # "signal", NEW pc \in Places, pc # "signal",
         Top.what \in Holders => pc \notin {"ran", "caught", "arguments"},
         gs' \in CallStacks, gs'.nesting = gs.nesting,
         Len(gs'.errors) >= Top.base, stack' = Goto(pc),
         gc' \in Conditionals, inAuto' \in BOOLEAN, fuel' \in 0 .. LineFuel
  PROVE  ShellInvariant'
<1>1. StackOK(gs', Goto(pc))
  BY GotoOK DEF ShellInvariant
<1> QED BY <1>1 DEF ShellInvariant

LEMMA BodyStep ==
  ASSUME ShellInvariant,
         \/ EnterFunction \/ BadArguments \/ EnterBlock \/ NextStatement
         \/ Substitute \/ Substituted \/ UndefinedVariable \/ RunStatement
         \/ AfterStatement \/ UnusedVariables
  PROVE  ShellInvariant'
<1>0. /\ Top \in Frames /\ gs \in CallStacks /\ Len(gs.errors) \in Nat
      /\ Top.base \in 0 .. Len(gs.errors) /\ Low(Top) <= Len(gs.errors)
      /\ Top.cmd \in CommandType /\ Low(Top) \in Nat
      /\ Top.stmt \in CommandType
      /\ gc \in Conditionals /\ inAuto \in BOOLEAN /\ fuel \in 0 .. LineFuel
      /\ StackOK(gs, stack)
  BY TopOK DEF ShellInvariant
<1>n. /\ ".bad_args" \in Names /\ ".unused_variable" \in Names
      /\ ".undefined_variable" \in Names /\ ".failed_substitution" \in Names
  BY ShellNames DEF ShellExceptions
<1>b. Top.what \in Bodies => Top.what \notin Holders /\ Top.what # "main"
  BY DEF Bodies, Holders
<1>1. CASE EnterFunction
  <2>1. Top.pc # "signal" /\ Top.what \notin Holders
    BY <1>1 DEF EnterFunction, Holders
  <2>2. CASE gs' = gs /\ stack' = Goto("return")
    <3>1. "return" \in Places /\ "return" # "signal"
      BY DEF Places
    <3> QED BY <1>0, <1>1, <2>1, <2>2, <3>1, GoesOnOK DEF EnterFunction
  <2>3. ASSUME NEW bad \in May("arguments"),
               gs' = AddErrorIf(bad, gs, ".bad_args"),
               stack' = Goto(IF bad THEN "unused" ELSE "statement")
        PROVE  ShellInvariant'
    <3> DEFINE pc == IF bad THEN "unused" ELSE "statement"
    <3>1. pc \in Places /\ pc # "signal"
      BY DEF Places
    <3>2. gs' \in CallStacks /\ Len(gs'.errors) >= Len(gs.errors)
          /\ gs'.nesting = gs.nesting
      <4>1. bad \in BOOLEAN
        BY MayOK
      <4> QED BY <4>1, <2>3, <1>0, <1>n, AddErrorIfType
    <3>3. Len(gs'.errors) >= Top.base
      BY <3>2, <1>0, CallStackErrors
    <3> HIDE DEF pc
    <3>4. stack' = Goto(pc)
      BY <2>3 DEF pc
    <3> QED BY <1>0, <1>1, <2>1, <3>1, <3>2, <3>3, <3>4, GoesOnOK DEF EnterFunction
  <2> QED BY <1>1, <2>2, <2>3 DEF EnterFunction
<1>2. CASE BadArguments
  <2>1. Top.pc # "signal" /\ "return" \in Places /\ "return" # "signal"
        /\ "return" \notin {"ran", "caught", "arguments"}
    BY <1>2 DEF BadArguments, Places
  <2>2. gs' \in CallStacks /\ Len(gs'.errors) = Len(gs.errors) + 1
        /\ gs'.nesting = gs.nesting
    BY <1>2, <1>0, <1>n, AddErrorType DEF BadArguments
  <2>3. Len(gs'.errors) >= Top.base
    BY <2>2, <1>0
  <2>4. /\ stack' = Goto("return") /\ gc' = gc /\ inAuto' = inAuto
        /\ fuel' \in 0 .. LineFuel
    BY <1>0, <1>2, SpendOK DEF BadArguments
  <2> QED BY <1>0, <2>1, <2>2, <2>3, <2>4, GoesOnOK
<1>3. CASE EnterBlock
  <2>1. Top.pc # "signal" /\ "statement" \in Places /\ "statement" # "signal"
        /\ "statement" \notin {"ran", "caught", "arguments"}
    BY <1>3 DEF EnterBlock, Places
  <2> QED BY <1>0, <1>3, <2>1, GoesOnOK DEF EnterBlock
<1>4. CASE NextStatement
  <2>1. Top.pc # "signal" /\ Top.what \notin Holders
        /\ gs' = gs /\ gc' = gc /\ inAuto' = inAuto
    BY <1>4, <1>b DEF NextStatement
  <2>2. CASE stack' = Goto(BodyEnd) /\ UNCHANGED fuel
    <3>1. BodyEnd \in Places /\ BodyEnd # "signal"
      BY <1>4, BodyEndOK DEF NextStatement, Places
    <3> QED BY <1>0, <2>1, <2>2, <3>1, GoesOnOK
  <2>3. ASSUME NEW c \in Commands,
               stack' = SetTop([Top EXCEPT !.pc = "arguments", !.stmt = c]),
               Spend
        PROVE  ShellInvariant'
    <3>1. c \in CommandType /\ "arguments" \in Places /\ "arguments" # "signal"
      BY NamesInUse DEF Places
    <3>2. StackOK(gs, stack')
      BY <1>0, <2>1, <2>3, <3>1, StatementOK
    <3> QED BY <1>0, <2>1, <2>3, <3>2, SpendOK DEF ShellInvariant
  <2> QED BY <1>4, <2>2, <2>3 DEF NextStatement
<1>5. CASE Substitute
  <2> DEFINE g == [gs EXCEPT !.unwind = FALSE]
             n == Frame("substitution", "ran", Argfunction, Len(gs.errors))
             f == [n EXCEPT !.flag = gs.unwind]
  <2>1. g \in CallStacks /\ g.errors = gs.errors /\ g.nesting = gs.nesting
    BY <1>0, FlagsOK
  <2>2. f \in Frames /\ f.what = "substitution" /\ f.base = Len(gs.errors)
        /\ f.focus = f.base + 1
    <3>1. "substitution" \in Kinds \cup HelperKinds /\ "ran" \in Places
      BY DEF HelperKinds, Places
    <3>2. n \in Frames /\ n.what = "substitution" /\ n.base = Len(gs.errors)
          /\ n.focus = n.base + 1
      <4>1. Argfunction \in CommandType
        BY ArgfunctionTyped
      <4>2. Len(gs.errors) \in Nat
        BY <1>0
      <4> QED BY <4>1, <4>2, <3>1, NewFrame
    <3>3. gs.unwind \in BOOLEAN
      BY <1>0 DEF CallStacks
    <3> HIDE DEF n
    <3> QED BY <3>2, <3>3 DEF Frames
  <2> HIDE DEF f
  <2>3. StackOK(g, stack)
    BY <1>0, <2>1, GlobalOK DEF Top
  <2>4. f.what \in HelperKinds /\ ~Holding(f)
    BY <2>2 DEF HelperKinds, Holding
  <2>5. FrameOK(f, Len(g.errors)) /\ Low(stack[Len(stack)]) <= f.base
    BY <1>0, <2>1, <2>2, <2>4, PlainFrameOK DEF Top
  <2>6. StackOK(g, Append(stack, f))
    BY <2>2, <2>3, <2>4, <2>5, HelperOK
  <2>7. Call(g, Append(stack, f), Argfunction)
    BY <1>5 DEF Substitute, f
  <2> HIDE DEF g
  <2>8. StackOK(gs', stack')
    BY <2>6, <2>7, ArgfunctionTyped, CallOK
  <2> QED BY <1>0, <1>5, <2>8, SpendOK DEF ShellInvariant, Substitute
<1>6. CASE Substituted
  <2> DEFINE g == AddErrorIf(gs.unwind, gs, ".failed_substitution")
  <2>1. Top.what # "main" /\ ~Counts(Top) /\ gs.unwind \in BOOLEAN
    BY <1>0, <1>6 DEF Substituted, Counts, Kinds, CallStacks
  <2>2. g \in CallStacks /\ Len(g.errors) >= Len(gs.errors)
        /\ g.nesting = gs.nesting
    BY <1>0, <1>n, <2>1, AddErrorIfType
  <2> HIDE DEF g
  <2>3. (Top.flag \/ g.unwind) \in BOOLEAN
    OBVIOUS
  <2>4. gs' = [g EXCEPT !.unwind = Top.flag \/ g.unwind]
    BY <1>6, <2>2 DEF Substituted, g
  <2>5. gs' \in CallStacks /\ gs'.errors = g.errors /\ gs'.nesting = g.nesting
    BY <2>2, <2>3, <2>4, FlagsOK
  <2>6. Len(gs'.errors) >= Top.base /\ gs'.nesting \in Int
    BY <1>0, <2>2, <2>5, CallStackErrors DEF CallStacks
  <2>7. gs'.nesting = gs.nesting - (IF Counts(Top) THEN 1 ELSE 0)
    BY <2>1, <2>2, <2>5, <2>6
  <2>8. StackOK(gs', Popped)
    BY <1>0, <2>1, <2>5, <2>6, <2>7, PoppedOK
  <2> QED BY <1>6, <2>8, RestOK DEF Substituted
<1>7. CASE UndefinedVariable
  <2>1. PICK unused \in May("unused") :
          gs' = AddError(AddErrorIf(unused /\ Top.what \in Checking, gs,
                                    ".unused_variable"),
                         ".undefined_variable")
    BY <1>7 DEF UndefinedVariable
  <2> DEFINE g == AddErrorIf(unused /\ Top.what \in Checking, gs,
                             ".unused_variable")
  <2>2. g \in CallStacks /\ Len(g.errors) >= Len(gs.errors)
        /\ g.nesting = gs.nesting
    <3>1. (unused /\ Top.what \in Checking) \in BOOLEAN
      OBVIOUS
    <3> QED BY <1>0, <1>n, <3>1, AddErrorIfType
  <2> HIDE DEF g
  <2>3. gs' = AddError(g, ".undefined_variable")
    BY <2>1 DEF g
  <2>4. gs' \in CallStacks /\ Len(gs'.errors) = Len(g.errors) + 1
        /\ gs'.nesting = gs.nesting
    BY <1>n, <2>2, <2>3, AddErrorType
  <2>5. Len(gs'.errors) >= Top.base
    BY <1>0, <2>2, <2>4, CallStackErrors
  <2>6. /\ stack' = Goto("return") /\ gc' = gc /\ inAuto' = inAuto
        /\ fuel' \in 0 .. LineFuel /\ Top.pc # "signal"
    BY <1>0, <1>7, SpendOK DEF UndefinedVariable
  <2>7. "return" \in Places /\ "return" # "signal"
        /\ "return" \notin {"ran", "caught", "arguments"}
    BY DEF Places
  <2> QED BY <1>0, <2>4, <2>5, <2>6, <2>7, GoesOnOK
<1>8. CASE RunStatement
  <2>1. Top.pc # "signal" /\ Top.what \notin Holders
        /\ gc' = gc /\ fuel' = fuel
    BY <1>8, <1>b DEF RunStatement
  <2>2. CASE stack' = Goto(BodyEnd) /\ UNCHANGED <<gs, inAuto>>
    <3>1. BodyEnd \in Places /\ BodyEnd # "signal"
      BY <1>8, BodyEndOK DEF RunStatement, Places
    <3> QED BY <1>0, <2>1, <2>2, <3>1, GoesOnOK
  <2>3. CASE Run(gs, Calling("ran"), Top.stmt)
    <3>1. "ran" \in Places /\ "ran" # "signal" /\ Len(gs.errors) >= Top.base
      BY <1>0 DEF Places
    <3>2. StackOK(gs, Calling("ran"))
      BY <1>0, <2>1, <3>1, CallingOK
    <3>3. StackOK(gs', stack') /\ inAuto' \in BOOLEAN
      BY <1>0, <2>3, <3>2, RunOK
    <3> QED BY <1>0, <2>1, <3>3 DEF ShellInvariant
  <2> QED BY <1>8, <2>2, <2>3 DEF RunStatement
<1>9. CASE AfterStatement
  <2> DEFINE pc == IF gs.unwind THEN BodyEnd ELSE "statement"
  <2>1. Top.pc # "signal" /\ Top.what \notin Holders
        /\ UNCHANGED <<gs, gc, inAuto, fuel>>
    BY <1>9, <1>b DEF AfterStatement
  <2>2. pc \in Places /\ pc # "signal"
    BY <1>9, BodyEndOK DEF AfterStatement, Places
  <2>3. stack' = Goto(pc)
    BY <1>9 DEF AfterStatement
  <2> HIDE DEF pc
  <2> QED BY <1>0, <2>1, <2>2, <2>3, GoesOnOK
<1>10. CASE UnusedVariables
  <2>1. PICK unused \in May("unused") :
          Finish(AddErrorIf(unused, gs, ".unused_variable"))
    BY <1>10 DEF UnusedVariables
  <2> DEFINE g == AddErrorIf(unused, gs, ".unused_variable")
  <2>2. g \in CallStacks /\ Len(g.errors) >= Len(gs.errors)
        /\ g.nesting = gs.nesting
    BY <1>0, <1>n, MayOK, AddErrorIfType
  <2>3. Finish(g) /\ Top.pc # "signal"
    BY <2>1, <1>10 DEF UnusedVariables
  <2> HIDE DEF g
  <2>4. Len(g.errors) >= Top.base
    BY <1>0, <2>2, CallStackErrors
  <2> QED BY <2>2, <2>3, <2>4, FinishOK
<1> QED BY <1>1, <1>2, <1>3, <1>4, <1>5, <1>6, <1>7, <1>8, <1>9, <1>10

-----------------------------------------------------------------------------
\* The routines that run exception handlers.

\* Call_stack::exception_handler starts on a list that belongs to nobody below.
LEMMA StartHandlerOK ==
  ASSUME NEW g, NEW s, StackOK(g, s), NEW base \in 0 .. Len(g.errors),
         Low(s[Len(s)]) <= base, StartHandler(g, s, base)
  PROVE  StackOK(gs', stack')
<1> DEFINE h == [g EXCEPT !.inHandler = TRUE, !.unwind = FALSE]
           f == HandlerFrame(base)
<1>1. g \in CallStacks /\ Len(g.errors) \in Nat /\ s[Len(s)] \in Frames
      /\ FrameOK(s[Len(s)], Len(g.errors))
  BY LastOK
<1>2. h \in CallStacks /\ h.errors = g.errors /\ h.nesting = g.nesting
  BY <1>1, FlagsOK
<1>3. gs' = h /\ stack' = Append(s, f)
  BY DEF StartHandler
<1>4. f \in Frames /\ f.what = "handler" /\ f.pc = "next" /\ f.base = base
      /\ f.focus = f.base + 1
  <2>1. "handler" \in Kinds \cup HelperKinds /\ "next" \in Places
    BY DEF HelperKinds, Places
  <2>2. base \in Nat /\ Argfunction \in CommandType
    BY <1>1, ArgfunctionTyped
  <2>3. f = Frame("handler", "next", Argfunction, base)
    BY DEF HandlerFrame
  <2> HIDE DEF f
  <2>4. Frame("handler", "next", Argfunction, base) \in Frames
    BY <2>1, <2>2, NewFrame
  <2>5. /\ Frame("handler", "next", Argfunction, base).what = "handler"
        /\ Frame("handler", "next", Argfunction, base).pc = "next"
        /\ Frame("handler", "next", Argfunction, base).base = base
        /\ Frame("handler", "next", Argfunction, base).focus = base + 1
    BY <2>1, <2>2, NewFrame
  <2> QED BY <2>3, <2>4, <2>5
<1> HIDE DEF h, f
<1>5. StackOK(h, s)
  BY <1>1, <1>2, GlobalOK DEF FrameOK
<1>6. ~Holding(f) /\ f.what \in HelperKinds
  BY <1>4 DEF Holding, HelperKinds
<1>7. FrameOK(f, Len(h.errors)) /\ Low(s[Len(s)]) <= f.base
  BY <1>1, <1>2, <1>4, <1>6, PlainFrameOK
<1> QED BY <1>3, <1>4, <1>5, <1>6, <1>7, HelperOK

LEMMA HandlerStep ==
  ASSUME ShellInvariant,
         \/ HandleNext \/ HandlerReturned \/ HandlersDone
         \/ RanHandling \/ RanIfExists \/ CaughtOne
  PROVE  ShellInvariant'
<1>0. /\ Top \in Frames /\ gs \in CallStacks /\ Len(gs.errors) \in Nat
      /\ Top.base \in 0 .. Len(gs.errors) /\ FrameOK(Top, Len(gs.errors))
      /\ Top.stmt \in CommandType /\ Top.focus \in Nat /\ Top.base < Top.focus
      /\ gc \in Conditionals /\ inAuto \in BOOLEAN /\ fuel \in 0 .. LineFuel
      /\ StackOK(gs, stack)
  BY TopOK DEF ShellInvariant
<1>1. CASE HandleNext
  <2> DEFINE front == gs.errors[Top.base + 1]
             f == [Top EXCEPT !.pc = "ran", !.prev = gs.count,
                              !.stmt = CallOf(front), !.mark = Len(gs.errors)]
  <2>1. Top.what = "handler" /\ Top.pc = "next" /\ Len(gs.errors) > Top.base
    BY <1>1 DEF HandleNext
  <2>2. front \in Names /\ CallOf(front) \in CommandType
    BY <1>0, <2>1, CallStackErrors, CommandsTyped
  <2>3. CASE gs' = RemoveError(gs, Top.base + 1) /\ UNCHANGED <<inAuto, stack>>
    <3>1. gs.errors # << >> /\ Top.base + 1 \in Nat
      BY <1>0, <2>1
    <3>2. gs' \in CallStacks /\ Len(gs'.errors) = Len(gs.errors) - 1
          /\ gs'.nesting = gs.nesting
      BY <1>0, <2>3, <3>1, RemoveErrorType
    <3>3. Low(Top) = Top.base
      BY <2>1 DEF Low, Holding
    <3>4. Len(gs'.errors) >= Low(Top)
      BY <1>0, <2>1, <3>2, <3>3
    <3>5. StackOK(gs', stack)
      BY <1>0, <3>2, <3>4, GlobalOK DEF Top
    <3> QED BY <1>0, <1>1, <2>3, <3>5 DEF HandleNext, ShellInvariant
  <2>4. CASE Run(gs, SetTop(f), CallOf(front))
    <3>1. /\ f \in Frames /\ f.what = "handler" /\ f.pc = "ran"
          /\ f.base = Top.base /\ f.focus = Top.focus
          /\ f.mark = Len(gs.errors)
      <4>1. "ran" \in Places /\ gs.count \in Nat
        BY <1>0 DEF Places, CallStacks
      <4>2. Len(gs.errors) \in Nat /\ CallOf(front) \in CommandType
        BY <1>0, <2>2
      <4> HIDE DEF front
      <4> QED BY <1>0, <2>1, <4>1, <4>2 DEF Frames
    <3>2. (Counts(f) <=> Counts(Top)) /\ Holding(f)
      BY <2>1, <3>1 DEF Counts, Kinds, Holding
    <3> HIDE DEF f
    <3>3. Low(f) = Len(gs.errors) /\ FrameOK(f, Len(gs.errors))
      BY <1>0, <2>1, <3>1, <3>2 DEF Low, FrameOK
    <3>4. StackOK(gs, SetTop(f))
      BY <1>0, <2>1, <3>1, <3>2, <3>3, SetTopOK
    <3>5. StackOK(gs', stack') /\ inAuto' \in BOOLEAN
      BY <1>0, <2>2, <2>4, <3>4, RunOK
    <3> QED BY <1>0, <1>1, <3>5 DEF HandleNext, ShellInvariant
  <2> QED BY <1>1, <2>3, <2>4 DEF HandleNext
<1>2. CASE HandlerReturned
  <2> DEFINE front == Top.stmt.name
             fails == gs.unwind \/ gs.count > Top.prev
             g == IF fails THEN [gs EXCEPT !.errors = LastToSecond(@, Top.base),
                                           !.unwind = FALSE]
                  ELSE gs
             f == [Top EXCEPT !.pc = "next",
                              !.failed = IF fails THEN @ \cup {front} ELSE @]
  <2>1. Top.what = "handler" /\ Top.pc = "ran"
        /\ gs' = RemoveError(g, Top.base + 1) /\ stack' = SetTop(f)
        /\ UNCHANGED <<gc, inAuto, fuel>>
    BY <1>2 DEF HandlerReturned
  <2>2. g \in CallStacks /\ Len(g.errors) = Len(gs.errors)
        /\ g.nesting = gs.nesting
    <3>1. gs.errors \in Seq(Names) /\ Top.base \in Nat
      BY <1>0, CallStackErrors
    <3>2. /\ LastToSecond(gs.errors, Top.base) \in Seq(Names)
          /\ Len(LastToSecond(gs.errors, Top.base)) = Len(gs.errors)
      BY <3>1, LastToSecondType
    <3> QED BY <1>0, <3>2 DEF CallStacks
  <2>3. Len(gs.errors) > Top.base
    BY <1>0, <2>1, TopOK DEF FrameOK, Low, Holding
  <2>4. front \in Names
    BY <1>0 DEF CommandType
  <2>5. f \in Frames /\ f.what = "handler" /\ f.pc = "next"
        /\ f.base = Top.base /\ f.focus = Top.focus
    BY <1>0, <2>1, <2>4 DEF Frames, Places
  <2> HIDE DEF g, f
  <2>6. gs' \in CallStacks /\ Len(gs'.errors) = Len(gs.errors) - 1
        /\ gs'.nesting = gs.nesting
    <3>1. g.errors # << >> /\ Top.base + 1 \in Nat
      BY <1>0, <2>2, <2>3
    <3> QED BY <2>1, <2>2, <3>1, RemoveErrorType
  <2>7. (Counts(f) <=> Counts(Top)) /\ ~Holding(f)
    BY <2>1, <2>5 DEF Counts, Kinds, Holding
  <2>8. FrameOK(f, Len(gs.errors)) /\ Low(f) = Top.base
    BY <1>0, <2>5, <2>7, PlainFrameOK
  <2>9. Len(gs'.errors) >= Low(f)
    BY <1>0, <2>3, <2>6, <2>8
  <2>10. StackOK(gs', stack')
    BY <1>0, <2>1, <2>5, <2>6, <2>7, <2>8, <2>9, SetTopOK
  <2> QED BY <2>1, <2>10, RestOK
<1>3. CASE HandlersDone
  <2>1. Top.what # "main" /\ ~Counts(Top)
        /\ UNCHANGED <<gc, inAuto, fuel>> /\ stack' = Popped
    BY <1>3 DEF HandlersDone, Counts, Kinds
  <2>2. gs' \in CallStacks /\ gs'.errors = gs.errors /\ gs'.nesting = gs.nesting
    BY <1>0, <1>3 DEF HandlersDone, CallStacks
  <2>3. Len(gs'.errors) >= Top.base
        /\ gs'.nesting = gs.nesting - (IF Counts(Top) THEN 1 ELSE 0)
    BY <1>0, <2>1, <2>2 DEF CallStacks
  <2>4. StackOK(gs', Popped)
    BY <1>0, <2>1, <2>2, <2>3, PoppedOK
  <2> QED BY <2>1, <2>4, RestOK
<1>4. CASE RanHandling
  <2> DEFINE unfinished == Top.what = "base_run" /\ gc.in_if /\ ~gc.thrown
             g == AddErrorIf(unfinished, gs, ".unfinished_if_block")
  <2>1. Top.what # "main" /\ ~Counts(Top) /\ UNCHANGED <<inAuto, fuel>>
    BY <1>4 DEF RanHandling, Counts, Kinds
  <2>2. gc' \in Conditionals
    BY <1>0, <1>4 DEF RanHandling, Conditionals
  <2>3. g \in CallStacks /\ Len(g.errors) >= Len(gs.errors)
        /\ g.nesting = gs.nesting
    <3>1. unfinished \in BOOLEAN /\ ".unfinished_if_block" \in Names
      BY ShellNames DEF ShellExceptions
    <3> QED BY <1>0, <3>1, AddErrorIfType
  <2>4. \/ StartHandler(g, Popped, Top.base)
        \/ gs' = g /\ stack' = Popped
    BY <1>4 DEF RanHandling
  <2> HIDE DEF g
  <2>5. Len(g.errors) >= Top.base /\ Len(g.errors) \in Nat
        /\ g.nesting = gs.nesting - (IF Counts(Top) THEN 1 ELSE 0)
    BY <1>0, <2>1, <2>3, CallStackErrors DEF CallStacks
  <2>6. StackOK(g, Popped)
    BY <1>0, <2>1, <2>3, <2>5, PoppedOK
  <2>7. StackOK(gs', stack')
    <3>1. Top.base \in 0 .. Len(g.errors) /\ Low(Popped[Len(Popped)]) <= Top.base
      BY <1>0, <2>1, <2>5, BelowTop
    <3> QED BY <2>4, <2>6, <3>1, StartHandlerOK
  <2> QED BY <1>0, <2>1, <2>2, <2>7 DEF ShellInvariant
<1>5. CASE RanIfExists
  <2>1. Top.what # "main" /\ ~Counts(Top) /\ UNCHANGED <<gc, inAuto, fuel>>
    BY <1>5 DEF RanIfExists, Counts, Kinds
  <2>2. CASE StartHandler(gs, Popped, Top.base)
    <3>1. StackOK(gs, Popped)
      BY <1>0, <2>1, PoppedOK DEF CallStacks
    <3>2. Low(Popped[Len(Popped)]) <= Top.base
      BY <1>0, <2>1, BelowTop
    <3>3. StackOK(gs', stack')
      BY <1>0, <2>2, <3>1, <3>2, StartHandlerOK
    <3> QED BY <2>1, <3>3, RestOK
  <2>3. CASE gs' = DestroyList(gs, Top.base) /\ stack' = Popped
    <3>1. gs' \in CallStacks /\ Len(gs'.errors) = Top.base
          /\ gs'.nesting = gs.nesting
      BY <1>0, <2>3, DestroyListType
    <3>2. Len(gs'.errors) >= Top.base
          /\ gs'.nesting = gs.nesting - (IF Counts(Top) THEN 1 ELSE 0)
      BY <1>0, <2>1, <3>1 DEF CallStacks
    <3>3. StackOK(gs', Popped)
      BY <1>0, <2>1, <3>1, <3>2, PoppedOK
    <3> QED BY <2>1, <2>3, <3>3, RestOK
  <2> QED BY <1>5, <2>2, <2>3 DEF RanIfExists
<1>6. CASE CaughtOne
  <2>1. Top.what # "main" /\ ~Counts(Top)
        /\ UNCHANGED <<gc, inAuto, fuel>> /\ stack' = Popped
    BY <1>6 DEF CaughtOne, Counts, Kinds
  <2>2. gs' \in CallStacks /\ gs'.errors = gs.errors /\ gs'.nesting = gs.nesting
    BY <1>0, <1>6, FlagsOK DEF CaughtOne
  <2>3. Len(gs'.errors) >= Top.base
        /\ gs'.nesting = gs.nesting - (IF Counts(Top) THEN 1 ELSE 0)
    BY <1>0, <2>1, <2>2 DEF CallStacks
  <2>4. StackOK(gs', Popped)
    BY <1>0, <2>1, <2>2, <2>3, PoppedOK
  <2> QED BY <2>1, <2>4, RestOK
<1> QED BY <1>1, <1>2, <1>3, <1>4, <1>5, <1>6

-----------------------------------------------------------------------------
\* The builtins of control flow.

\* A builtin calls or runs an executable and goes on at pc when it is back.
LEMMA CallFromOK ==
  ASSUME ShellInvariant, Top.pc # "signal", Top.what \notin Holders,
         NEW pc \in Places, pc # "signal", NEW c \in CommandType,
         NEW h \in CallStacks, h.nesting = gs.nesting,
         Len(h.errors) >= Top.base, Call(h, Calling(pc), c)
  PROVE  StackOK(gs', stack')
<1>1. StackOK(h, Calling(pc))
  BY CallingOK DEF ShellInvariant
<1> QED BY <1>1, CallOK

LEMMA RunFromOK ==
  ASSUME ShellInvariant, Top.pc # "signal", Top.what \notin Holders,
         NEW pc \in Places, pc # "signal", NEW c \in CommandType,
         Run(gs, Calling(pc), c)
  PROVE  StackOK(gs', stack') /\ inAuto' \in BOOLEAN
<1>1. gs \in CallStacks /\ Len(gs.errors) >= Top.base
  BY TopOK DEF ShellInvariant
<1>2. StackOK(gs, Calling(pc))
  BY <1>1, CallingOK DEF ShellInvariant
<1> QED BY <1>2, RunOK DEF ShellInvariant

\* The place of a builtin that returns.
LEMMA ReturnPlace ==
  /\ "return" \in Places /\ "return" # "signal"
  /\ "return" \notin {"ran", "caught", "arguments"}
BY DEF Places

LEMMA SimpleStep ==
  ASSUME ShellInvariant,
         Throw \/ Exit \/ Replace \/ Store \/ Stored
  PROVE  ShellInvariant'
<1>0. /\ gs \in CallStacks /\ Len(gs.errors) \in Nat
      /\ Top.base \in 0 .. Len(gs.errors) /\ Top.cmd.name \in Names
      /\ gc \in Conditionals /\ inAuto \in BOOLEAN /\ fuel \in 0 .. LineFuel
  BY TopOK DEF ShellInvariant, CommandType
<1>n. ".not_a_number" \in Names /\ ".not_catching_exception" \in Names
  BY ShellNames DEF ShellExceptions
<1>1. CASE Throw
  <2> DEFINE g == AddError(gs, Top.cmd.name)
  <2>1. Finish(g) /\ Top.pc # "signal"
    BY <1>1 DEF Throw
  <2>2. g \in CallStacks /\ Len(g.errors) = Len(gs.errors) + 1
        /\ g.nesting = gs.nesting
    BY <1>0, AddErrorType
  <2> HIDE DEF g
  <2>3. Len(g.errors) >= Top.base
    BY <1>0, <2>2
  <2> QED BY <2>1, <2>2, <2>3, FinishOK
<1>2. CASE Exit
  <2>1. Top.pc # "signal" /\ stack' = Goto("return") /\ UNCHANGED <<inAuto, fuel>>
    BY <1>2 DEF Exit
  <2>2. CASE gs' = AddError(gs, ".not_a_number") /\ UNCHANGED gc
    <3>1. gs' \in CallStacks /\ Len(gs'.errors) = Len(gs.errors) + 1
          /\ gs'.nesting = gs.nesting
      BY <1>0, <1>n, <2>2, AddErrorType
    <3>2. Len(gs'.errors) >= Top.base
      BY <1>0, <3>1
    <3> QED BY <1>0, <2>1, <2>2, <3>1, <3>2, ReturnPlace, GoesOnOK
  <2>3. CASE /\ gs' = RequestExit(gs)
             /\ gc' = [gc EXCEPT !.thrown = @ \/ gc.in_if]
    <3>1. gs' \in CallStacks /\ gs'.errors = gs.errors /\ gs'.nesting = gs.nesting
      BY <1>0, <2>3, RequestExitType
    <3>2. gc' \in Conditionals
      BY <1>0, <2>3 DEF Conditionals
    <3>3. Len(gs'.errors) >= Top.base
      BY <1>0, <3>1
    <3> QED BY <1>0, <2>1, <3>1, <3>2, <3>3, ReturnPlace, GoesOnOK
  <2> QED BY <1>2, <2>2, <2>3 DEF Exit
<1>3. CASE Replace
  <2>1. PICK g \in {ReplaceError(gs, Top.cmd.name),
                    AddError(gs, ".not_catching_exception")} : Finish(g)
    BY <1>3 DEF Replace
  <2>2. g \in CallStacks /\ Len(g.errors) = Len(gs.errors) + 1
        /\ g.nesting = gs.nesting
    <3>1. CASE g = ReplaceError(gs, Top.cmd.name)
      BY <1>0, <3>1, ReplaceErrorType
    <3>2. CASE g = AddError(gs, ".not_catching_exception")
      BY <1>0, <1>n, <3>2, AddErrorType
    <3> QED BY <3>1, <3>2
  <2>3. Len(g.errors) >= Top.base /\ Top.pc # "signal"
    BY <1>0, <1>3, <2>2 DEF Replace
  <2> QED BY <2>1, <2>2, <2>3, FinishOK
<1>4. CASE Store
  <2>1. Top.pc # "signal" /\ Top.what \notin Holders
        /\ Call(gs, Calling("stored"), Argfunction)
    BY <1>4 DEF Store, Holders
  <2>2. "stored" \in Places /\ "stored" # "signal" /\ Len(gs.errors) >= Top.base
    BY <1>0 DEF Places
  <2>3. StackOK(gs', stack')
    BY <1>0, <2>1, <2>2, ArgfunctionTyped, CallFromOK
  <2> QED BY <1>4, <2>3, RestOK DEF Store
<1>5. CASE Stored
  <2>1. CASE Finish(gs)
    <3>1. Top.pc # "signal" /\ Len(gs.errors) >= Top.base
      BY <1>0, <1>5 DEF Stored
    <3> QED BY <1>0, <2>1, <3>1, FinishOK
  <2>2. ASSUME NEW name \in {".undeclared_variable", ".unused_before_set"},
               Finish(AddError(gs, name))
        PROVE  ShellInvariant'
    <3>1. name \in Names
      BY ShellNames DEF ShellExceptions
    <3>2. Top.pc # "signal"
      BY <1>5 DEF Stored
    <3> DEFINE g == AddError(gs, name)
    <3>3. /\ Finish(g) /\ g \in CallStacks
          /\ Len(g.errors) = Len(gs.errors) + 1 /\ g.nesting = gs.nesting
      BY <1>0, <2>2, <3>1, AddErrorType
    <3> HIDE DEF g
    <3>4. Len(g.errors) >= Top.base
      BY <1>0, <3>3
    <3> QED BY <3>2, <3>3, <3>4, FinishOK
  <2> QED BY <1>5, <2>1, <2>2 DEF Stored
<1> QED BY <1>1, <1>2, <1>3, <1>4, <1>5

\* Call_stack::collect_errors_core, which holds the exceptions of the
\* statements before in its own list.
LEMMA CollectStep ==
  ASSUME ShellInvariant,
         \/ EnterCollect \/ CollectNext \/ CollectExcess \/ CollectEnd
         \/ CollectUndefined \/ CollectRun \/ CollectRan
  PROVE  ShellInvariant'
<1>0. /\ gs \in CallStacks /\ Len(gs.errors) \in Nat /\ Top \in Frames
      /\ Top.base \in 0 .. Len(gs.errors) /\ FrameOK(Top, Len(gs.errors))
      /\ Top.stmt \in CommandType /\ Top.mark \in Nat /\ Top.focus \in Nat
      /\ Top.base < Top.focus /\ Low(Top) <= Len(gs.errors)
      /\ gc \in Conditionals /\ inAuto \in BOOLEAN /\ fuel \in 0 .. LineFuel
      /\ StackOK(gs, stack)
  BY TopOK DEF ShellInvariant
<1>n. ".excessive_exceptions_collected" \in Names /\ ".undefined_variable" \in Names
  BY ShellNames DEF ShellExceptions
<1>p. "next" \in Places /\ "next" # "signal"
      /\ "next" \notin {"ran", "caught", "arguments"}
  BY DEF Places
<1>1. CASE EnterCollect
  <2>1. Top.pc # "signal" /\ stack' = Goto("next") /\ UNCHANGED <<gs, gc, inAuto, fuel>>
    BY <1>1 DEF EnterCollect
  <2>2. Len(gs'.errors) >= Top.base
    BY <1>0, <2>1
  <2> QED BY <1>0, <1>p, <2>1, <2>2, GoesOnOK
<1>2. CASE CollectNext
  <2>1. Top.what = "collect" /\ Top.pc = "next" /\ Spend
        /\ UNCHANGED <<gs, gc, inAuto>>
    BY <1>2 DEF CollectNext
  <2>2. PICK c \in Commands :
          stack' = SetTop([Top EXCEPT !.pc = "arguments", !.stmt = c,
                                      !.mark = Len(gs.errors)])
    BY <1>2 DEF CollectNext
  <2> DEFINE f == [Top EXCEPT !.pc = "arguments", !.stmt = c,
                              !.mark = Len(gs.errors)]
  <2>3. /\ f \in Frames /\ f.what = "collect" /\ f.pc = "arguments"
        /\ f.base = Top.base /\ f.focus = Top.focus /\ f.mark = Len(gs.errors)
    <3>1. c \in CommandType /\ "arguments" \in Places
      BY NamesInUse DEF Places
    <3> QED BY <1>0, <2>1, <3>1 DEF Frames
  <2> HIDE DEF f
  <2>4. (Counts(f) <=> Counts(Top)) /\ Holding(f)
    BY <2>1, <2>3 DEF Counts, Kinds, Holding
  <2>5. Low(f) = Len(gs.errors) /\ FrameOK(f, Len(gs.errors))
    BY <1>0, <2>3, <2>4 DEF Low, FrameOK
  <2>6. StackOK(gs, SetTop(f))
    BY <1>0, <2>1, <2>3, <2>4, <2>5, SetTopOK
  <2>7. stack' = SetTop(f)
    BY <2>2 DEF f
  <2> QED BY <1>0, <2>1, <2>6, <2>7, SpendOK DEF ShellInvariant
<1>3. CASE CollectExcess
  <2> DEFINE n == ".excessive_exceptions_collected"
             g == AddErrorIf(~gs.collectExcess, gs, n)
  <2>1. Top.pc # "signal" /\ stack' = Goto("return") /\ Spend
        /\ gs' = [g EXCEPT !.unwind = TRUE, !.collectExcess = TRUE]
        /\ UNCHANGED <<gc, inAuto>>
    BY <1>3 DEF CollectExcess
  <2>2. g \in CallStacks /\ Len(g.errors) >= Len(gs.errors)
        /\ g.nesting = gs.nesting
    <3>1. (~gs.collectExcess) \in BOOLEAN
      OBVIOUS
    <3> QED BY <1>0, <1>n, <3>1, AddErrorIfType
  <2> HIDE DEF g
  <2>3. gs' \in CallStacks /\ gs'.errors = g.errors /\ gs'.nesting = gs.nesting
    BY <2>1, <2>2 DEF CallStacks
  <2>4. Len(gs'.errors) >= Top.base
    BY <1>0, <2>2, <2>3, CallStackErrors
  <2> QED BY <1>0, <2>1, <2>3, <2>4, ReturnPlace, SpendOK, GoesOnOK
<1>4. CASE CollectEnd
  <2> DEFINE g == [gs EXCEPT !.unwind = @ \/ Len(gs.errors) > Top.base]
  <2>1. Finish(g) /\ Top.pc # "signal"
    BY <1>4 DEF CollectEnd
  <2>2. g \in CallStacks /\ g.errors = gs.errors /\ g.nesting = gs.nesting
    <3>1. (gs.unwind \/ Len(gs.errors) > Top.base) \in BOOLEAN
      OBVIOUS
    <3> QED BY <1>0, <3>1, FlagsOK
  <2> HIDE DEF g
  <2>3. Len(g.errors) >= Top.base
    BY <1>0, <2>2
  <2> QED BY <2>1, <2>2, <2>3, FinishOK
<1>5. CASE CollectUndefined
  <2> DEFINE g == DestroyList(gs, Top.mark)
  <2>1. Top.what = "collect" /\ Top.pc = "arguments" /\ Spend
        /\ gs' = AddError(g, ".undefined_variable") /\ stack' = Goto("return")
        /\ UNCHANGED <<gc, inAuto>>
    BY <1>5 DEF CollectUndefined
  <2>2. Top.base <= Top.mark /\ Top.mark \in 0 .. Len(gs.errors)
    BY <1>0, <2>1 DEF FrameOK, Low, Holding
  <2>3. g \in CallStacks /\ Len(g.errors) = Top.mark /\ g.nesting = gs.nesting
    BY <1>0, <2>2, DestroyListType
  <2> HIDE DEF g
  <2>4. gs' \in CallStacks /\ Len(gs'.errors) = Top.mark + 1
        /\ gs'.nesting = gs.nesting
    BY <1>n, <2>1, <2>3, AddErrorType
  <2>5. Len(gs'.errors) >= Top.base
    BY <1>0, <2>2, <2>4
  <2>6. Top.pc # "signal" /\ gc' = gc /\ inAuto' = inAuto
        /\ fuel' \in 0 .. LineFuel
    BY <1>0, <2>1, SpendOK
  <2> QED BY <1>0, <2>1, <2>4, <2>5, <2>6, ReturnPlace, GoesOnOK
<1>6. CASE CollectRun
  <2> DEFINE f == [Top EXCEPT !.pc = "ran"]
  <2>1. Top.what = "collect" /\ Top.pc = "arguments" /\ UNCHANGED <<gc, fuel>>
    BY <1>6 DEF CollectRun
  <2>2. /\ f \in Frames /\ f.what = "collect" /\ f.pc = "ran"
        /\ f.base = Top.base /\ f.focus = Top.focus /\ f.mark = Top.mark
    BY <1>0, <2>1 DEF Frames, Places
  <2> HIDE DEF f
  <2>3. (Counts(f) <=> Counts(Top)) /\ Holding(f) /\ Holding(Top)
    BY <2>1, <2>2 DEF Counts, Kinds, Holding
  <2>4. Low(f) = Low(Top) /\ FrameOK(f, Len(gs.errors))
    BY <1>0, <2>1, <2>2, <2>3 DEF Low, FrameOK
  <2>5. StackOK(gs, SetTop(f))
    BY <1>0, <2>1, <2>2, <2>3, <2>4, SetTopOK
  <2>6. SetTop(f) = Goto("ran")
    BY DEF f, Goto
  <2>7. CASE stack' = Goto("ran") /\ UNCHANGED <<gs, inAuto>>
    BY <1>0, <2>1, <2>5, <2>6, <2>7 DEF ShellInvariant
  <2>8. CASE Run(gs, Goto("ran"), Top.stmt)
    <3>1. StackOK(gs', stack') /\ inAuto' \in BOOLEAN
      BY <1>0, <2>5, <2>6, <2>8, RunOK
    <3> QED BY <1>0, <2>1, <3>1 DEF ShellInvariant
  <2> QED BY <1>6, <2>7, <2>8 DEF CollectRun
<1>7. CASE CollectRan
  <2>1. Top.pc # "signal" /\ stack' = Goto("next") /\ UNCHANGED <<gc, inAuto, fuel>>
    BY <1>7 DEF CollectRan
  <2>2. PICK stops \in BOOLEAN : gs' = gs \/ gs' = [gs EXCEPT !.unwind = stops]
    BY <1>7 DEF CollectRan
  <2>3. gs' \in CallStacks /\ gs'.errors = gs.errors /\ gs'.nesting = gs.nesting
    BY <1>0, <2>2 DEF CallStacks
  <2>4. Len(gs'.errors) >= Top.base
    BY <1>0, <2>3
  <2> QED BY <1>0, <1>p, <2>1, <2>3, <2>4, GoesOnOK
<1> QED BY <1>1, <1>2, <1>3, <1>4, <1>5, <1>6, <1>7

\* b_try_catch_recursive and catch_blocks: the exception in focus belongs to
\* the list of the activation while its handler runs.
LEMMA CatchStep ==
  ASSUME ShellInvariant,
         Try \/ TryReturned \/ CatchNext \/ CatchReturned \/ CatchExcess \/ CatchDone
  PROVE  ShellInvariant'
<1>0. /\ gs \in CallStacks /\ Len(gs.errors) \in Nat /\ Top \in Frames
      /\ Top.base \in 0 .. Len(gs.errors) /\ FrameOK(Top, Len(gs.errors))
      /\ Top.focus \in Nat /\ Top.base < Top.focus /\ Top.mark \in Nat
      /\ gc \in Conditionals /\ inAuto \in BOOLEAN /\ fuel \in 0 .. LineFuel
      /\ StackOK(gs, stack)
  BY TopOK DEF ShellInvariant
<1>n. ".excessive_exceptions_in_catch" \in Names
  BY ShellNames DEF ShellExceptions
<1>1. CASE Try
  <2>1. Top.what = "try" /\ Top.pc = "enter" /\ UNCHANGED <<gc, inAuto, fuel>>
        /\ Call(gs, Calling("body"), Argfunction)
    BY <1>1 DEF Try
  <2>2. "body" \in Places /\ "body" # "signal"
        /\ "body" \notin {"ran", "caught", "arguments"}
        /\ Len(gs.errors) >= Top.base
    BY <1>0 DEF Places
  <2>3. StackOK(gs, Calling("body"))
    BY <1>0, <2>1, <2>2, CallingOK
  <2>4. StackOK(gs', stack')
    BY <2>1, <2>3, ArgfunctionTyped, CallOK
  <2> QED BY <2>1, <2>4, RestOK
<1>2. CASE TryReturned
  <2> DEFINE pc == IF gs.unwind THEN "catch" ELSE "return"
  <2>1. Top.pc # "signal" /\ stack' = Goto(pc) /\ UNCHANGED <<gs, gc, inAuto, fuel>>
    BY <1>2 DEF TryReturned
  <2>2. pc \in Places /\ pc # "signal" /\ pc \notin {"ran", "caught", "arguments"}
    BY DEF Places
  <2> HIDE DEF pc
  <2>3. Len(gs'.errors) >= Top.base
    BY <1>0, <2>1
  <2> QED BY <1>0, <2>1, <2>2, <2>3, GoesOnOK
<1>3. CASE CatchNext
  <2> DEFINE h == [gs EXCEPT !.inHandler = TRUE, !.unwind = FALSE]
             f == [Top EXCEPT !.pc = "caught", !.focus = FirstCaught,
                              !.prev = gs.count, !.mark = Len(gs.errors)]
             c == CallOf(gs.errors[FirstCaught])
  <2>1. Top.what = "try" /\ Top.pc = "catch" /\ UNCHANGED <<gc, fuel>>
        /\ Caught # {} /\ Run(h, SetTop(f), c)
    BY <1>3 DEF CatchNext
  <2>2. FirstCaught \in Caught
    <3>1. Caught \in SUBSET Nat /\ Caught # {}
      BY <1>0, <2>1 DEF Caught
    <3>2. \E i \in Caught : \A j \in Caught : i <= j
      BY <3>1, LeastNat
    <3> QED BY <3>2 DEF FirstCaught
  <2>3. FirstCaught \in 1 .. Len(gs.errors) /\ Top.focus <= FirstCaught
    BY <1>0, <2>2 DEF Caught
  <2>4. c \in CommandType
    BY <1>0, <2>3, CallStackErrors, CommandsTyped
  <2>5. h \in CallStacks /\ h.errors = gs.errors /\ h.nesting = gs.nesting
    BY <1>0, FlagsOK
  <2>6. /\ f \in Frames /\ f.what = "try" /\ f.pc = "caught"
        /\ f.base = Top.base /\ f.focus = FirstCaught
        /\ f.mark = Len(gs.errors)
    <3>1. "caught" \in Places /\ gs.count \in Nat /\ FirstCaught \in Nat
      BY <1>0, <2>3 DEF Places, CallStacks
    <3> QED BY <1>0, <2>1, <3>1 DEF Frames
  <2> HIDE DEF f, h, c
  <2>7. (Counts(f) <=> Counts(Top)) /\ Holding(f)
    BY <2>1, <2>6 DEF Counts, Kinds, Holding
  <2>8. Low(f) = Len(gs.errors) /\ FrameOK(f, Len(gs.errors))
    BY <1>0, <2>3, <2>6, <2>7 DEF Low, FrameOK
  <2>9. StackOK(h, SetTop(f))
    BY <1>0, <2>1, <2>5, <2>6, <2>7, <2>8, SetTopOK
  <2>10. StackOK(gs', stack') /\ inAuto' \in BOOLEAN
    BY <1>0, <2>1, <2>4, <2>9, RunOK
  <2> QED BY <1>0, <2>1, <2>10 DEF ShellInvariant
<1>4. CASE CatchReturned
  <2> DEFINE g == [gs EXCEPT !.inHandler = FALSE]
             f == [Top EXCEPT !.pc = "catch",
                              !.focus = IF gs.unwind THEN @ + 1 ELSE @,
                              !.dropped = Counted(@ + gs.count - Top.prev)]
  <2>1. Top.what = "try" /\ Top.pc = "caught" /\ UNCHANGED <<gc, inAuto, fuel>>
        /\ gs' = (IF g.unwind THEN g ELSE RemoveError(g, Top.focus))
        /\ stack' = SetTop(f)
    BY <1>4 DEF CatchReturned
  <2>2. g \in CallStacks /\ g.errors = gs.errors /\ g.nesting = gs.nesting
    BY <1>0 DEF CallStacks
  <2>3. Len(gs.errors) > Top.base
    BY <1>0, <2>1 DEF FrameOK, Low, Holding
  <2>4. /\ f \in Frames /\ f.what = "try" /\ f.pc = "catch"
        /\ f.base = Top.base /\ f.base < f.focus
    <3>1. Top.dropped + gs.count - Top.prev \in Int
      BY <1>0 DEF Frames, CallStacks
    <3>2. Counted(Top.dropped + gs.count - Top.prev) \in 0 .. CountLimit - 1
      BY <3>1, CountedType
    <3>3. Counted(Top.dropped + gs.count - Top.prev) \in Nat
      BY <3>2, LimitsAssumption
    <3>4. (IF gs.unwind THEN Top.focus + 1 ELSE Top.focus) \in Nat
          /\ Top.base < (IF gs.unwind THEN Top.focus + 1 ELSE Top.focus)
      BY <1>0
    <3> QED BY <1>0, <2>1, <3>3, <3>4 DEF Frames, Places
  <2> HIDE DEF g, f
  <2>5. gs' \in CallStacks /\ Len(gs'.errors) >= Top.base
        /\ gs'.nesting = gs.nesting
    <3>1. CASE g.unwind
      BY <1>0, <2>1, <2>2, <3>1
    <3>2. CASE ~g.unwind
      <4>1. g.errors # << >>
        BY <1>0, <2>2, <2>3
      <4>2. gs' \in CallStacks /\ Len(gs'.errors) = Len(gs.errors) - 1
            /\ gs'.nesting = gs.nesting
        BY <1>0, <2>1, <2>2, <3>2, <4>1, RemoveErrorType
      <4> QED BY <1>0, <2>3, <4>2
    <3> QED BY <3>1, <3>2
  <2>6. (Counts(f) <=> Counts(Top)) /\ ~Holding(f)
    BY <2>1, <2>4 DEF Counts, Kinds, Holding
  <2>7. FrameOK(f, Len(gs.errors)) /\ Low(f) = Top.base
    BY <1>0, <2>4, <2>6, PlainFrameOK
  <2>8. StackOK(gs', stack')
    BY <1>0, <2>1, <2>4, <2>5, <2>6, <2>7, SetTopOK
  <2> QED BY <2>1, <2>8, RestOK
<1>5. CASE CatchExcess
  <2> DEFINE g == AddErrorIf(~gs.catchExcess, gs, ".excessive_exceptions_in_catch")
             h == [g EXCEPT !.catchExcess = TRUE]
  <2>1. Finish(h) /\ Top.pc # "signal"
    BY <1>5 DEF CatchExcess
  <2>2. g \in CallStacks /\ Len(g.errors) >= Len(gs.errors)
        /\ g.nesting = gs.nesting
    <3>1. (~gs.catchExcess) \in BOOLEAN
      OBVIOUS
    <3> QED BY <1>0, <1>n, <3>1, AddErrorIfType
  <2> HIDE DEF g
  <2>3. h \in CallStacks /\ h.errors = g.errors /\ h.nesting = gs.nesting
    BY <2>2 DEF CallStacks
  <2> HIDE DEF h
  <2>4. Len(h.errors) >= Top.base
    BY <1>0, <2>2, <2>3, CallStackErrors
  <2> QED BY <2>1, <2>3, <2>4, FinishOK
<1>6. CASE CatchDone
  <2> DEFINE g == [gs EXCEPT !.unwind = gs.count > 0 \/ gs.exit,
                             !.inHandler = FALSE]
  <2>1. Finish(g) /\ Top.pc # "signal"
    BY <1>6 DEF CatchDone
  <2>2. g \in CallStacks /\ g.errors = gs.errors /\ g.nesting = gs.nesting
    <3>1. (gs.count > 0 \/ gs.exit) \in BOOLEAN
      OBVIOUS
    <3> QED BY <1>0, <3>1 DEF CallStacks
  <2> HIDE DEF g
  <2>3. Len(g.errors) >= Top.base
    BY <1>0, <2>2
  <2> QED BY <2>1, <2>2, <2>3, FinishOK
<1> QED BY <1>1, <1>2, <1>3, <1>4, <1>5, <1>6

\* Loops: removing .break, .continue and .false from the list of the activation
\* touches no other.
LEMMA RemovedOK ==
  ASSUME ShellInvariant, NEW g \in CallStacks, g.nesting = gs.nesting,
         Len(g.errors) >= Top.base, NEW name
  PROVE  /\ RemoveExceptions(g, Top.base, name) \in CallStacks
         /\ RemoveExceptions(g, Top.base, name).nesting = gs.nesting
         /\ Len(RemoveExceptions(g, Top.base, name).errors) >= Top.base
<1>1. Top.base \in 0 .. Len(g.errors)
  BY TopOK, CallStackErrors DEF ShellInvariant
<1> QED BY <1>1, RemoveExceptionsType

LEMMA ConditionOK ==
  ASSUME NEW c \in Conditions \cup {ThrowOf(".false")}, ChooseCondition(c),
         fuel \in 0 .. LineFuel
  PROVE  c \in CommandType /\ fuel' \in 0 .. LineFuel
<1>1. ThrowOf(".false") \in CommandType
  BY CommandsTyped, ShellNames DEF ShellExceptions
<1>2. c \in CommandType
  BY <1>1, NamesInUse
<1> QED BY <1>2, SpendOK DEF ChooseCondition

\* A stack with only main on it, as at the start and after an abort.
LEMMA FreshOK ==
  ASSUME NEW pc \in Places
  PROVE  StackOK(InitialCallStack, << Frame("main", pc, Argfunction, 0) >>)
<1> DEFINE f == Frame("main", pc, Argfunction, 0)
<1> DEFINE cs == InitialCallStack
<1> DEFINE st == << f >>
<1>1. cs \in CallStacks /\ cs.errors = << >> /\ cs.nesting = 0
  BY NoSignalAssumption, LimitsAssumption DEF InitialCallStack, CallStacks
<1>2. f \in Frames /\ f.what = "main" /\ f.pc = pc /\ f.base = 0
      /\ f.focus = 1
  <2>1. "main" \in Kinds \cup HelperKinds /\ 0 \in Nat
    BY DEF HelperKinds
  <2> QED BY <2>1, ArgfunctionTyped, NewFrame
<1> HIDE DEF f, cs
<1>3. ~Holding(f) /\ ~Counts(f)
  BY <1>2 DEF Holding, Counts, Kinds
<1>4. FrameOK(f, 0)
  BY <1>2, <1>3, PlainFrameOK
<1>5. st \in Seq(Frames) /\ Len(st) = 1 /\ st[1] = f /\ DOMAIN st = 1 .. 1
  BY <1>2
<1> HIDE DEF st
<1>6. NestedIn(st) = {}
  BY <1>3, <1>5 DEF NestedIn
<1>7. Cardinality(NestedIn(st)) = 0
  BY <1>6, FS_EmptySet
<1>8. StackOK(cs, st)
  <2>1. \A i \in 1 .. Len(st) : FrameOK(st[i], Len(cs.errors))
    BY <1>1, <1>4, <1>5
  <2>2. \A i, j \in 1 .. Len(st) : i < j => Low(st[i]) <= st[j].base
    BY <1>5
  <2>3. cs.nesting <= MaxNesting + 2
    BY <1>1, LimitsAssumption
  <2> QED BY <1>1, <1>2, <1>5, <1>7, <2>1, <2>2, <2>3 DEF StackOK
<1> QED BY <1>8 DEF f, cs, st

LEMMA LoopStep ==
  ASSUME ShellInvariant,
         \/ WhileTest \/ WhileTested \/ ForNext \/ ForEnd
         \/ EnterStepwise \/ StepwiseAborts \/ StepwiseNext \/ StepwiseRun
         \/ LoopReturned
  PROVE  ShellInvariant'
<1>0. /\ gs \in CallStacks /\ Len(gs.errors) \in Nat
      /\ Top.base \in 0 .. Len(gs.errors) /\ Len(gs.errors) >= Top.base
      /\ gc \in Conditionals /\ inAuto \in BOOLEAN /\ fuel \in 0 .. LineFuel
  BY TopOK DEF ShellInvariant
<1>p. /\ {"body", "tested", "test", "unused", "return", "arguments"} \subseteq Places
      /\ \A pc \in {"body", "tested", "test", "unused", "return", "arguments"} :
           pc # "signal"
  BY DEF Places
<1>l. Top.what \in Loops => Top.what \notin Holders
  BY DEF Loops, Holders
<1>c. CallOf(".for(body)") \in CommandType /\ Argfunction \in CommandType
  BY CommandsTyped, NamesInUse, ArgfunctionTyped
<1>1. CASE WhileTest
  <2>1. Top.what \notin Holders /\ Top.pc # "signal" /\ gc' = gc
    BY <1>1 DEF WhileTest, Holders
  <2>2. PICK c \in Conditions \cup {ThrowOf(".false")} :
          ChooseCondition(c) /\ Run(gs, Calling("tested"), c)
    BY <1>1 DEF WhileTest
  <2>3. c \in CommandType /\ fuel' \in 0 .. LineFuel
    BY <1>0, <2>2, ConditionOK
  <2>4. StackOK(gs', stack') /\ inAuto' \in BOOLEAN
    BY <1>p, <2>1, <2>2, <2>3, RunFromOK
  <2> QED BY <1>0, <2>1, <2>3, <2>4 DEF ShellInvariant
<1>2. CASE WhileTested
  <2>1. Top.what \notin Holders /\ Top.pc # "signal" /\ UNCHANGED <<gc, inAuto, fuel>>
    BY <1>2 DEF WhileTested, Holders
  <2>2. /\ AfterCondition \in CallStacks /\ AfterCondition.nesting = gs.nesting
        /\ Len(AfterCondition.errors) >= Top.base
    BY <1>0, RemovedOK DEF AfterCondition
  <2>3. CASE Call(AfterCondition, Calling("body"), Argfunction)
    <3>1. StackOK(gs', stack')
      BY <1>c, <1>p, <2>1, <2>2, <2>3, CallFromOK
    <3> QED BY <2>1, <3>1, RestOK
  <2>4. CASE gs' = AfterCondition /\ stack' = Goto("return")
    BY <1>0, <1>p, <2>1, <2>2, <2>4, GoesOnOK
  <2> QED BY <1>2, <2>3, <2>4 DEF WhileTested
<1>3. CASE ForNext
  <2>1. Top.what \notin Holders /\ Top.pc # "signal" /\ Spend
        /\ UNCHANGED <<gc, inAuto>>
        /\ Call(gs, Calling("body"), CallOf(".for(body)"))
    BY <1>3 DEF ForNext, Holders
  <2>2. StackOK(gs', stack')
    BY <1>0, <1>c, <1>p, <2>1, CallFromOK
  <2> QED BY <1>0, <2>1, <2>2, SpendOK DEF ShellInvariant
<1>4. CASE ForEnd
  BY <1>0, <1>4, FinishOK DEF ForEnd
<1>5. CASE EnterStepwise
  <2>1. Top.what \notin Holders /\ Top.pc # "signal" /\ UNCHANGED <<gc, inAuto, fuel>>
    BY <1>5 DEF EnterStepwise, Holders
  <2>2. ASSUME NEW pc \in {"test", "return"}, stack' = Goto(pc), gs' = gs
        PROVE  ShellInvariant'
    <3>1. pc \in Places /\ pc # "signal"
      BY <1>p
    <3> QED BY <1>0, <2>1, <2>2, <3>1, GoesOnOK
  <2>3. ASSUME NEW name \in {".bad_args", ".function_not_found"},
               gs' = AddError(gs, name),
               stack' = Goto(IF name = ".bad_args" THEN "unused" ELSE "return")
        PROVE  ShellInvariant'
    <3> DEFINE pc == IF name = ".bad_args" THEN "unused" ELSE "return"
    <3>1. pc \in Places /\ pc # "signal"
      BY <1>p
    <3>2. name \in Names
      BY ShellNames DEF ShellExceptions
    <3>3. gs' \in CallStacks /\ Len(gs'.errors) = Len(gs.errors) + 1
          /\ gs'.nesting = gs.nesting
      BY <1>0, <2>3, <3>2, AddErrorType
    <3>4. Len(gs'.errors) >= Top.base /\ stack' = Goto(pc)
      BY <1>0, <2>3, <3>3
    <3> HIDE DEF pc
    <3> QED BY <1>0, <2>1, <3>1, <3>3, <3>4, GoesOnOK
  <2> QED BY <1>5, <2>2, <2>3 DEF EnterStepwise
<1>6. CASE StepwiseNext
  <2>1. Top.what \notin Holders /\ Top.pc # "signal" /\ UNCHANGED <<gs, gc, inAuto>>
    BY <1>6 DEF StepwiseNext, Holders
  <2>2. PICK pc \in {"unused", "arguments"} : stack' = Goto(pc)
    BY <1>6 DEF StepwiseNext
  <2>3. fuel' \in 0 .. LineFuel
    BY <1>0, <1>6, SpendOK DEF StepwiseNext
  <2>4. pc \in Places /\ pc # "signal"
    BY <1>p
  <2> QED BY <1>0, <2>1, <2>2, <2>3, <2>4, GoesOnOK
<1>7. CASE StepwiseRun
  <2>1. Top.what \notin Holders /\ Top.pc # "signal" /\ UNCHANGED <<gc, inAuto, fuel>>
    BY <1>7 DEF StepwiseRun, Holders
  <2>2. CASE stack' = Goto("unused") /\ gs' = gs
    BY <1>0, <1>p, <2>1, <2>2, GoesOnOK
  <2>3. CASE Call(gs, Calling("body"), CallOf(".for(body)"))
    <3>1. StackOK(gs', stack')
      BY <1>0, <1>c, <1>p, <2>1, <2>3, CallFromOK
    <3> QED BY <2>1, <3>1, RestOK
  <2> QED BY <1>7, <2>2, <2>3 DEF StepwiseRun
<1>9. CASE StepwiseAborts
  <2>1. "aborted" \in Places
    BY DEF Places
  <2>2. StackOK(gs', stack') /\ inAuto' \in BOOLEAN /\ gc' = gc
    BY <1>9, <2>1, FreshOK DEF StepwiseAborts, Abort
  <2>3. fuel' \in 0 .. LineFuel
    BY <1>0, <1>9, SpendOK DEF StepwiseAborts
  <2> QED BY <1>0, <2>2, <2>3 DEF ShellInvariant
<1>8. CASE LoopReturned
  <2> DEFINE g == RemoveExceptions(gs, Top.base, ".continue")
             h == RemoveExceptions(g, Top.base, ".break")
             end == IF Top.what = "stepwise" THEN "unused" ELSE "return"
             pc == IF Contains(g, Top.base, ".break") \/ h.unwind
                   THEN end ELSE "test"
  <2>1. Top.what \notin Holders /\ Top.pc # "signal" /\ UNCHANGED <<gc, inAuto, fuel>>
        /\ gs' = h /\ stack' = Goto(pc)
    BY <1>8, <1>l DEF LoopReturned
  <2>2. g \in CallStacks /\ g.nesting = gs.nesting /\ Len(g.errors) >= Top.base
    BY <1>0, RemovedOK
  <2>3. pc \in Places /\ pc # "signal"
    BY <1>p
  <2> HIDE DEF g, pc
  <2>4. h \in CallStacks /\ h.nesting = gs.nesting /\ Len(h.errors) >= Top.base
    BY <2>2, RemovedOK
  <2> HIDE DEF h
  <2> QED BY <1>0, <2>1, <2>3, <2>4, GoesOnOK
<1> QED BY <1>1, <1>2, <1>3, <1>4, <1>5, <1>6, <1>7, <1>8, <1>9

\* Conditionals: gc_state stays in its type, and exceptions go into the list of
\* the builtin.
LEMMA IfThrowsOK ==
  ASSUME ShellInvariant, Top.pc # "signal", NEW g \in CallStacks,
         g.nesting = gs.nesting, Len(g.errors) >= Top.base,
         NEW c \in Conditionals, NEW name \in ShellExceptions,
         IfThrows(g, c, name), UNCHANGED <<inAuto, fuel>>
  PROVE  ShellInvariant'
<1>1. /\ inAuto \in BOOLEAN /\ fuel \in 0 .. LineFuel
      /\ Top.base \in Nat /\ Len(g.errors) \in Nat /\ name \in Names
  BY TopOK, CallStackErrors, ShellNames DEF ShellInvariant
<1>2. gs' \in CallStacks /\ Len(gs'.errors) = Len(g.errors) + 1
      /\ gs'.nesting = gs.nesting
  BY <1>1, AddErrorType DEF IfThrows
<1>3. gc' \in Conditionals
  BY DEF IfThrows, Conditionals
<1>4. Len(gs'.errors) >= Top.base /\ stack' = Goto("return")
  BY <1>1, <1>2 DEF IfThrows
<1> QED BY <1>1, <1>2, <1>3, <1>4, ReturnPlace, GoesOnOK

LEMMA IfDoneType ==
  ASSUME NEW c \in Conditionals, IfDone(c)
  PROVE  gc' \in Conditionals
BY DEF IfDone, Conditionals

LEMMA IfStep ==
  ASSUME ShellInvariant, EnterIf \/ IfCore \/ IfTested \/ IfReturned
  PROVE  ShellInvariant'
<1>0. /\ gs \in CallStacks /\ Len(gs.errors) \in Nat
      /\ Top.base \in 0 .. Len(gs.errors) /\ Len(gs.errors) >= Top.base
      /\ gc \in Conditionals /\ inAuto \in BOOLEAN /\ fuel \in 0 .. LineFuel
  BY TopOK DEF ShellInvariant
<1>p. /\ {"body", "tested", "core", "return"} \subseteq Places
      /\ \A pc \in {"body", "tested", "core", "return"} :
           pc # "signal" /\ pc \notin {"ran", "caught", "arguments"}
  BY DEF Places
<1>l. Top.what \in IfKinds => Top.what \notin Holders
  BY DEF IfKinds, Holders
<1>n. {".if_before_else", ".else_without_if", ".bad_if_nest"} \subseteq ShellExceptions
  BY DEF ShellExceptions
<1>1. CASE EnterIf
  <2>1. Top.pc # "signal" /\ Top.what \notin Holders /\ UNCHANGED <<inAuto, fuel>>
    BY <1>1, <1>l DEF EnterIf
  <2>2. CASE IfThrows(gs, gc, ".if_before_else")
    BY <1>0, <1>n, <2>1, <2>2, IfThrowsOK
  <2>3. ASSUME gc' \in Conditionals, gs' = gs,
               NEW pc \in {"core", "return"}, stack' = Goto(pc)
        PROVE  ShellInvariant'
    <3>1. pc \in Places /\ pc # "signal" /\ pc \notin {"ran", "caught", "arguments"}
      BY <1>p
    <3> QED BY <1>0, <2>1, <2>3, <3>1, GoesOnOK
  <2>4. [in_if |-> TRUE, success |-> gc.success /\ ~gc.thrown, thrown |-> FALSE]
          \in Conditionals
    BY <1>0 DEF Conditionals
  <2>5. [gc EXCEPT !.thrown = Top.what # "else"] \in Conditionals
    BY <1>0 DEF Conditionals
  <2>6. IfDone([gc EXCEPT !.thrown = Top.what # "else"]) => gc' \in Conditionals
    BY <2>5, IfDoneType
  <2> QED BY <1>0, <1>1, <2>2, <2>3, <2>4, <2>6 DEF EnterIf
<1>2. CASE IfCore
  <2>1. Top.pc # "signal" /\ Top.what \notin Holders
    BY <1>2, <1>l DEF IfCore
  <2>2. CASE IfThrows(gs, gc, ".else_without_if") /\ UNCHANGED <<inAuto, fuel>>
    BY <1>0, <1>n, <2>1, <2>2, IfThrowsOK
  <2>3. CASE IfDone(gc) /\ gs' = gs /\ stack' = Goto("return")
             /\ UNCHANGED <<inAuto, fuel>>
    BY <1>0, <2>1, <2>3, IfDoneType, ReturnPlace, GoesOnOK
  <2>4. CASE gc' = [gc EXCEPT !.in_if = FALSE]
             /\ Call(gs, Calling("body"), Argfunction) /\ UNCHANGED <<inAuto, fuel>>
    <3>1. StackOK(gs', stack')
      BY <1>0, <1>p, <2>1, <2>4, ArgfunctionTyped, CallFromOK
    <3>2. gc' \in Conditionals
      BY <1>0, <2>4 DEF Conditionals
    <3> QED BY <1>0, <2>4, <3>1, <3>2 DEF ShellInvariant
  <2>5. ASSUME gc' = [gc EXCEPT !.in_if = FALSE],
               NEW c \in Conditions \cup {ThrowOf(".false")},
               ChooseCondition(c), Run(gs, Calling("tested"), c)
        PROVE  ShellInvariant'
    <3>1. c \in CommandType /\ fuel' \in 0 .. LineFuel
      BY <1>0, <2>5, ConditionOK
    <3>2. StackOK(gs', stack') /\ inAuto' \in BOOLEAN
      BY <1>p, <2>1, <2>5, <3>1, RunFromOK
    <3>3. gc' \in Conditionals
      BY <1>0, <2>5 DEF Conditionals
    <3> QED BY <3>1, <3>2, <3>3 DEF ShellInvariant
  <2> QED BY <1>2, <2>2, <2>3, <2>4, <2>5 DEF IfCore
<1>3. CASE IfTested
  <2> DEFINE logic == Top.what # "else_if_not"
             run == logic = ConditionHolds
             g == AfterCondition
             c == [gc EXCEPT !.in_if = FALSE, !.thrown = @ /\ ~gc.in_if]
  <2>1. Top.pc # "signal" /\ Top.what \notin Holders /\ UNCHANGED <<inAuto, fuel>>
    BY <1>3, <1>l DEF IfTested
  <2>2. g \in CallStacks /\ g.nesting = gs.nesting /\ Len(g.errors) >= Top.base
    BY <1>0, RemovedOK DEF AfterCondition
  <2>3. /\ [gc EXCEPT !.in_if = TRUE, !.thrown = TRUE] \in Conditionals
        /\ [gc EXCEPT !.in_if = FALSE, !.thrown = FALSE] \in Conditionals
        /\ c \in Conditionals /\ [c EXCEPT !.in_if = TRUE] \in Conditionals
    BY <1>0 DEF Conditionals
  <2>4. CASE gc' = [gc EXCEPT !.in_if = TRUE, !.thrown = TRUE]
             /\ gs' = g /\ stack' = Goto("return")
    BY <1>0, <2>1, <2>2, <2>3, <2>4, ReturnPlace, GoesOnOK
  <2>5. CASE IfThrows(g, [gc EXCEPT !.in_if = FALSE, !.thrown = FALSE],
                      ".bad_if_nest")
    BY <1>n, <2>1, <2>2, <2>3, <2>5, IfThrowsOK
  <2>6. CASE gc' = c /\ Call(g, Calling("body"), Argfunction)
    <3>1. StackOK(gs', stack')
      BY <1>p, <2>1, <2>2, <2>6, ArgfunctionTyped, CallFromOK
    <3> QED BY <1>0, <2>1, <2>3, <2>6, <3>1 DEF ShellInvariant
  <2>7. CASE gc' = [c EXCEPT !.in_if = TRUE] /\ gs' = g /\ stack' = Goto("return")
    BY <1>0, <2>1, <2>2, <2>3, <2>7, ReturnPlace, GoesOnOK
  <2> HIDE DEF g
  <2> QED BY <1>3, <2>4, <2>5, <2>6, <2>7 DEF IfTested, g
<1>4. CASE IfReturned
  <2>1. Top.pc # "signal" /\ Top.what \notin Holders /\ UNCHANGED <<inAuto, fuel>>
    BY <1>4, <1>l DEF IfReturned
  <2>2. CASE IfThrows(gs, gc, ".bad_if_nest")
    BY <1>0, <1>n, <2>1, <2>2, IfThrowsOK
  <2>3. ASSUME NEW c \in Conditionals, IfDone(c), gs' = gs,
               stack' = Goto("return")
        PROVE  ShellInvariant'
    BY <1>0, <2>1, <2>3, IfDoneType, ReturnPlace, GoesOnOK
  <2>4. /\ [gc EXCEPT !.in_if = TRUE, !.thrown = Top.what # "else"] \in Conditionals
        /\ [in_if |-> TRUE, success |-> TRUE, thrown |-> FALSE] \in Conditionals
    BY <1>0 DEF Conditionals
  <2> QED BY <1>4, <2>2, <2>3, <2>4 DEF IfReturned
<1> QED BY <1>1, <1>2, <1>3, <1>4

-----------------------------------------------------------------------------
\* main and b_source, which read lines.

\* Executable_map::run_handling_exceptions and base_run, on a list that
\* belongs to the caller.
LEMMA RunHandlingOK ==
  ASSUME NEW g, NEW s, StackOK(g, s), NEW what \in {"run_handling", "base_run"},
         NEW base \in 0 .. Len(g.errors), Low(s[Len(s)]) <= base,
         NEW c \in CommandType, RunHandling(g, s, what, base, c),
         inAuto \in BOOLEAN
  PROVE  StackOK(gs', stack') /\ inAuto' \in BOOLEAN
<1> DEFINE n == Frame(what, "ran", c, base)
           f == [n EXCEPT !.mark = Len(g.errors)]
<1>1. Len(g.errors) \in Nat
  BY LastOK
<1>2. /\ n \in Frames /\ n.what = what /\ n.base = base /\ n.focus = base + 1
  <2>1. what \in Kinds \cup HelperKinds /\ "ran" \in Places /\ base \in Nat
    BY <1>1 DEF HelperKinds, Places
  <2> QED BY <2>1, NewFrame
<1> HIDE DEF n
<1>3. f \in Frames /\ f.what = what /\ f.base = base /\ f.focus = base + 1
  BY <1>1, <1>2 DEF Frames
<1>4. RunHandling(g, s, what, base, c) => Run(g, Append(s, f), c)
  BY DEF RunHandling, n
<1> HIDE DEF f
<1>5. f.what \in HelperKinds /\ ~Holding(f)
  BY <1>3 DEF HelperKinds, Holding
<1>6. FrameOK(f, Len(g.errors)) /\ Low(s[Len(s)]) <= f.base
  BY <1>1, <1>3, <1>5, PlainFrameOK
<1>7. StackOK(g, Append(s, f))
  BY <1>3, <1>5, <1>6, HelperOK
<1> QED BY <1>4, <1>7, RunOK

\* Executable_map::run_if_exists
LEMMA RunIfExistsOK ==
  ASSUME NEW g, NEW s, StackOK(g, s), NEW name \in Names,
         RunIfExists(g, s, name)
  PROVE  StackOK(gs', stack')
<1>1. CallOf(name) \in CommandType /\ "run_if_exists" \in HelperKinds
      /\ "ran" \in Places /\ "run_if_exists" # "handler"
  BY CommandsTyped DEF HelperKinds, Places
<1> DEFINE f == Frame("run_if_exists", "ran", CallOf(name), Len(g.errors))
<1>2. StackOK(g, Append(s, f))
  BY <1>1, NewHelperOK
<1>3. Call(g, Append(s, f), CallOf(name)) \/ (gs' = g /\ stack' = s)
  BY DEF RunIfExists
<1> HIDE DEF f
<1> QED BY <1>1, <1>2, <1>3, CallOK

\* Call_stack::catch_one
LEMMA CatchOneOK ==
  ASSUME NEW g, NEW s, StackOK(g, s), NEW c \in CommandType,
         CatchOne(g, s, c), inAuto \in BOOLEAN
  PROVE  StackOK(gs', stack') /\ inAuto' \in BOOLEAN
<1> DEFINE h == [g EXCEPT !.inHandler = TRUE, !.unwind = FALSE]
           f == Frame("catch_one", "ran", c, Len(g.errors))
<1>1. "catch_one" \in HelperKinds /\ "ran" \in Places /\ "catch_one" # "handler"
  BY DEF HelperKinds, Places
<1>2. StackOK(g, Append(s, f))
  BY <1>1, NewHelperOK
<1>3. Run(h, Append(s, f), c)
  BY DEF CatchOne
<1>4. g \in CallStacks
  BY LastOK
<1>5. h \in CallStacks /\ h.errors = g.errors /\ h.nesting = g.nesting
  BY <1>4, FlagsOK
<1> HIDE DEF h, f
<1>6. StackOK(h, Append(s, f))
  <2> DEFINE t == Append(s, f)
  <2>1. StackOK(g, t)
    BY <1>2
  <2> HIDE DEF t
  <2>2. Len(h.errors) >= Low(t[Len(t)])
    BY <1>5, <2>1, LastOK DEF FrameOK
  <2>3. StackOK(h, t)
    BY <1>5, <2>1, <2>2, GlobalOK
  <2> QED BY <2>3 DEF t
<1> QED BY <1>3, <1>6, RunOK

\* The frame of a routine that reads lines goes to another place.
LEMMA ReaderOK ==
  ASSUME StackOK(gs, stack), Top.what \in {"main", "source"},
         Top.pc # "signal", NEW h \in CallStacks, h.nesting = gs.nesting,
         Len(h.errors) >= Top.base, NEW f \in Frames, f.what = Top.what,
         f.base = Top.base, f.focus = Top.focus, f.pc # "signal"
  PROVE  /\ StackOK(h, SetTop(f))
         /\ Low(SetTop(f)[Len(SetTop(f))]) <= Top.base
         /\ Top.base \in 0 .. Len(h.errors)
<1>0. Top \in Frames /\ Len(gs.errors) \in Nat /\ Top.base \in 0 .. Len(gs.errors)
      /\ Top.base < Top.focus
  BY TopOK
<1>2. ~Holding(f)
  BY DEF Holding
<1>3. Counts(f) <=> Counts(Top)
  BY DEF Counts
<1>4. FrameOK(f, Len(gs.errors)) /\ Low(f) = Top.base
  BY <1>0, <1>2, PlainFrameOK
<1>5. StackOK(h, SetTop(f))
  BY <1>3, <1>4, SetTopOK
<1>6. SetTop(f)[Len(SetTop(f))] = f
  BY LastOK DEF SetTop
<1>7. Len(h.errors) \in Nat
  BY CallStackErrors
<1> QED BY <1>0, <1>4, <1>5, <1>6, <1>7

LEMMA ReaderFrame ==
  ASSUME StackOK(gs, stack), NEW pc \in Places
  PROVE  /\ [Top EXCEPT !.pc = pc] \in Frames
         /\ [Top EXCEPT !.pc = pc].what = Top.what
         /\ [Top EXCEPT !.pc = pc].base = Top.base
         /\ [Top EXCEPT !.pc = pc].focus = Top.focus
         /\ [Top EXCEPT !.pc = pc].pc = pc
         /\ [Top EXCEPT !.pc = pc, !.flag = TRUE] \in Frames
         /\ [Top EXCEPT !.pc = pc, !.flag = TRUE].what = Top.what
         /\ [Top EXCEPT !.pc = pc, !.flag = TRUE].base = Top.base
         /\ [Top EXCEPT !.pc = pc, !.flag = TRUE].focus = Top.focus
         /\ [Top EXCEPT !.pc = pc, !.flag = TRUE].pc = pc
BY TopOK DEF Frames

\* The places that the routines reading lines go to.
LEMMA ReaderPlaces ==
  /\ {"after", "arguments", "before", "done", "globals", "got", "line", "more",
      "prompt", "read", "register", "return", "shutdown", "statement",
      "unclosed", "unused"} \subseteq Places
  /\ "run_handling" \in {"run_handling", "base_run"}
  /\ "base_run" \in {"run_handling", "base_run"}
BY DEF Places

LEMMA GetlineStep ==
  ASSUME ShellInvariant,
         \/ GetlineFails \/ GetlineEnd \/ GetlineUnclosed \/ GetlineIncomplete
         \/ GetlineMalformed \/ GetlineComplete
  PROVE  ShellInvariant'
<1>0. /\ gs \in CallStacks /\ Len(gs.errors) \in Nat
      /\ Top.base \in 0 .. Len(gs.errors) /\ Argfunction \in CommandType
      /\ gc \in Conditionals /\ inAuto \in BOOLEAN /\ fuel \in 0 .. LineFuel
      /\ StackOK(gs, stack) /\ RawCommand \in CommandType
  BY TopOK, ArgfunctionTyped, CommandsTyped, NamesInUse DEF ShellInvariant, RawCommand
<1>n. ".unclosed_brace" \in Names /\ ".mismatched_brace" \in Names
  BY ShellNames DEF ShellExceptions
<1>h. ReadingLine => /\ Top.what \in {"main", "source"} /\ Top.pc # "signal"
                     /\ Top.what \notin Holders
  BY DEF ReadingLine, Holders
<1> DEFINE r == Reset(gs, Top.base)
<1>r. r \in CallStacks /\ Len(r.errors) = Top.base /\ r.nesting = gs.nesting
  BY <1>0, ResetType
<1>f. (LineRead => fuel' \in 0 .. LineFuel) /\ (Spend => fuel' \in 0 .. LineFuel)
  BY <1>0, SpendOK DEF LineRead
<1>s. ASSUME ReadingLine, NEW pc \in Places, pc # "signal",
             NEW f \in {[Top EXCEPT !.pc = pc], [Top EXCEPT !.pc = pc, !.flag = TRUE]},
             NEW h \in CallStacks, h.nesting = gs.nesting,
             Len(h.errors) >= Top.base
      PROVE  /\ StackOK(h, SetTop(f))
             /\ Low(SetTop(f)[Len(SetTop(f))]) <= Top.base
             /\ Top.base \in 0 .. Len(h.errors)
  <2>1. /\ f \in Frames /\ f.what = Top.what /\ f.base = Top.base
        /\ f.focus = Top.focus /\ f.pc # "signal"
    <3>1. CASE f = [Top EXCEPT !.pc = pc]
      BY <1>0, <1>s, <3>1, ReaderFrame
    <3>2. CASE f = [Top EXCEPT !.pc = pc, !.flag = TRUE]
      BY <1>0, <1>s, <3>2, ReaderFrame
    <3> QED BY <3>1, <3>2
  <2> QED BY <1>0, <1>h, <1>s, <2>1, ReaderOK
<1> HIDE DEF r
<1>1. CASE GetlineFails
  <2>1. stack' = Goto("got") /\ UNCHANGED <<gs, gc, inAuto, fuel>> /\ ReadingLine
    BY <1>1 DEF GetlineFails
  <2>2. Len(gs'.errors) >= Top.base
    BY <1>0, <2>1
  <2> QED BY <1>0, <1>h, <2>1, <2>2, ReaderPlaces, GoesOnOK
<1>2. CASE GetlineEnd
  <2>0. ReadingLine /\ UNCHANGED <<gc, fuel>>
    BY <1>2 DEF GetlineEnd
  <2>a. Len(r.errors) >= Top.base
    BY <1>0, <1>r
  <2>1. CASE /\ gs' = r
             /\ stack' = SetTop([Top EXCEPT !.pc = "got", !.flag = TRUE])
             /\ UNCHANGED inAuto
    <3>1. StackOK(r, SetTop([Top EXCEPT !.pc = "got", !.flag = TRUE]))
      BY <1>s, <1>r, <2>0, <2>a, ReaderPlaces
    <3> QED BY <1>0, <2>0, <2>1, <3>1 DEF ShellInvariant
  <2>2. CASE RunHandling(r, SetTop([Top EXCEPT !.pc = "unclosed", !.flag = TRUE]),
                         "run_handling", Top.base, RawCommand)
    <3> DEFINE s == SetTop([Top EXCEPT !.pc = "unclosed", !.flag = TRUE])
    <3>1. /\ StackOK(r, s) /\ Low(s[Len(s)]) <= Top.base
          /\ Top.base \in 0 .. Len(r.errors)
      BY <1>s, <1>r, <2>0, <2>a, ReaderPlaces
    <3> HIDE DEF s
    <3>2. RunHandling(r, s, "run_handling", Top.base, RawCommand)
      BY <2>2 DEF s
    <3>3. StackOK(gs', stack') /\ inAuto' \in BOOLEAN
      BY <1>0, <3>1, <3>2, ReaderPlaces, RunHandlingOK
    <3> QED BY <1>0, <2>0, <3>3 DEF ShellInvariant
  <2> QED BY <1>2, <2>1, <2>2 DEF GetlineEnd, r
<1>3. CASE GetlineUnclosed
  <2>1. Top.pc # "signal" /\ gs' = AddError(gs, ".unclosed_brace")
        /\ stack' = Goto("got") /\ UNCHANGED <<gc, inAuto, fuel>>
    BY <1>3 DEF GetlineUnclosed
  <2>2. gs' \in CallStacks /\ Len(gs'.errors) = Len(gs.errors) + 1
        /\ gs'.nesting = gs.nesting
    BY <1>0, <1>n, <2>1, AddErrorType
  <2>3. Len(gs'.errors) >= Top.base
    BY <1>0, <2>2
  <2>4. "got" # "signal" /\ "got" \notin {"ran", "caught", "arguments"}
    OBVIOUS
  <2> QED BY <1>0, <2>1, <2>2, <2>3, <2>4, ReaderPlaces, GoesOnOK
<1>4. CASE GetlineIncomplete
  <2> DEFINE a == AddError(r, ".unclosed_brace")
  <2>1. /\ gs' = RemoveExceptions(a, Top.base, ".unclosed_brace")
        /\ stack' = Goto("more") /\ Spend /\ UNCHANGED <<gc, inAuto>>
        /\ ReadingLine
    BY <1>4 DEF GetlineIncomplete, r
  <2>2. a \in CallStacks /\ Len(a.errors) = Top.base + 1 /\ a.nesting = gs.nesting
    BY <1>n, <1>r, AddErrorType
  <2> HIDE DEF a
  <2>3. Top.base \in 0 .. Len(a.errors)
    BY <1>0, <2>2
  <2>4. gs' \in CallStacks /\ Len(gs'.errors) >= Top.base
        /\ gs'.nesting = gs.nesting
    BY <2>1, <2>2, <2>3, RemoveExceptionsType
  <2>5. fuel' \in 0 .. LineFuel /\ gc' \in Conditionals /\ inAuto' \in BOOLEAN
    BY <1>0, <1>f, <2>1
  <2> QED BY <1>0, <1>h, <2>1, <2>4, <2>5, ReaderPlaces, GoesOnOK
<1>5. CASE GetlineMalformed
  <2> DEFINE a == AddError(r, ".mismatched_brace")
  <2>1. /\ CatchOne(a, Goto("got"), RawCommand)
        /\ LineRead /\ UNCHANGED gc /\ ReadingLine
    BY <1>5 DEF GetlineMalformed, r
  <2>2. a \in CallStacks /\ Len(a.errors) = Top.base + 1 /\ a.nesting = gs.nesting
    BY <1>n, <1>r, AddErrorType
  <2> HIDE DEF a
  <2>3. Len(a.errors) >= Top.base
    BY <1>0, <2>2
  <2>4. StackOK(a, Goto("got"))
    BY <1>s, <2>1, <2>2, <2>3, ReaderPlaces DEF Goto
  <2>5. StackOK(gs', stack') /\ inAuto' \in BOOLEAN
    BY <1>0, <2>1, <2>4, CatchOneOK
  <2> QED BY <1>0, <1>f, <2>1, <2>5 DEF ShellInvariant
<1>6. CASE GetlineComplete
  <2>1. /\ RunHandling(r, Goto("got"), "run_handling", Top.base, RawCommand)
        /\ LineRead /\ UNCHANGED gc /\ ReadingLine
    BY <1>6 DEF GetlineComplete, r
  <2>2. Len(r.errors) >= Top.base
    BY <1>0, <1>r
  <2> DEFINE s == Goto("got")
  <2>3. /\ StackOK(r, s) /\ Low(s[Len(s)]) <= Top.base
        /\ Top.base \in 0 .. Len(r.errors)
    BY <1>s, <1>r, <2>1, <2>2, ReaderPlaces DEF Goto
  <2> HIDE DEF s
  <2>4. RunHandling(r, s, "run_handling", Top.base, RawCommand)
    BY <2>1 DEF s
  <2>5. StackOK(gs', stack') /\ inAuto' \in BOOLEAN
    BY <1>0, <2>3, <2>4, ReaderPlaces, RunHandlingOK
  <2> QED BY <1>0, <1>f, <2>1, <2>5 DEF ShellInvariant
<1> QED BY <1>1, <1>2, <1>3, <1>4, <1>5, <1>6

LEMMA SourceStep ==
  ASSUME ShellInvariant, EnterSource \/ SourceLine \/ SourceGot
  PROVE  ShellInvariant'
<1>0. /\ gs \in CallStacks /\ Len(gs.errors) \in Nat
      /\ Top.base \in 0 .. Len(gs.errors)
      /\ gc \in Conditionals /\ inAuto \in BOOLEAN /\ fuel \in 0 .. LineFuel
  BY TopOK DEF ShellInvariant
<1>p. /\ {"line", "return", "unused", "read", "statement"} \subseteq Places
      /\ {"line", "return", "unused", "read", "statement"} \cap
           {"signal", "ran", "caught", "arguments"} = {}
  BY DEF Places
<1>1. /\ Top.pc # "signal" /\ Top.what \notin Holders
      /\ UNCHANGED <<gc, inAuto, fuel>>
  BY DEF EnterSource, SourceLine, SourceGot, Holders
<1>2. gs' \in CallStacks /\ Len(gs'.errors) >= Top.base /\ gs'.nesting = gs.nesting
  <2>1. CASE gs' = gs
    BY <1>0, <2>1
  <2>2. CASE gs' = AddError(gs, ".file_open_failure")
    <3>1. ".file_open_failure" \in Names
      BY ShellNames DEF ShellExceptions
    <3>2. gs' \in CallStacks /\ Len(gs'.errors) = Len(gs.errors) + 1
          /\ gs'.nesting = gs.nesting
      BY <1>0, <2>2, <3>1, AddErrorType
    <3> QED BY <1>0, <3>2
  <2> QED BY <2>1, <2>2 DEF EnterSource, SourceLine, SourceGot
<1>3. PICK pc \in {"line", "return", "unused", "read", "statement"} :
        stack' = Goto(pc)
  <2>1. CASE EnterSource
    BY <2>1 DEF EnterSource
  <2>2. CASE SourceLine
    BY <2>2 DEF SourceLine
  <2>3. CASE SourceGot
    BY <2>3 DEF SourceGot
  <2> QED BY <2>1, <2>2, <2>3
<1> QED BY <1>0, <1>p, <1>1, <1>2, <1>3, GoesOnOK

LEMMA MainStep ==
  ASSUME ShellInvariant,
         \/ MainInit \/ MainRegister \/ MainPrompt \/ MainGot \/ MainStatement
         \/ MainInterpreted \/ MainRun \/ MainAfter \/ MainShutdown \/ MainGlobals
  PROVE  ShellInvariant'
<1>0. /\ gs \in CallStacks /\ Len(gs.errors) \in Nat /\ Top.stmt \in CommandType
      /\ Top.base \in 0 .. Len(gs.errors) /\ Len(gs.errors) >= Top.base
      /\ gc \in Conditionals /\ inAuto \in BOOLEAN /\ fuel \in 0 .. LineFuel
      /\ StackOK(gs, stack) /\ LineFuel \in 0 .. LineFuel
  BY TopOK, InterpreterAssumption DEF ShellInvariant
<1>c. /\ CallOf(".init") \in CommandType /\ CallOf(".prompt") \in CommandType
      /\ CallOf(".shutdown") \in CommandType
      /\ CallOf(".undefined_variable") \in CommandType
      /\ ".before_command" \in Names /\ ".run_logic" \in Names
      /\ ".after_command" \in Names /\ ".unused_variable" \in Names
  BY CommandsTyped, NamesInUse, ShellNames DEF ShellExceptions
<1>m. /\ Top.what \in {"main", "source"} /\ Top.pc # "signal"
      /\ Top.what = "main" /\ Top.what \notin Holders
  BY DEF MainInit, MainRegister, MainPrompt, MainGot, MainStatement,
         MainInterpreted, MainRun, MainAfter, MainShutdown, MainGlobals, Holders
<1>p. {"after", "arguments", "before", "done", "globals", "prompt", "read",
       "register", "shutdown", "statement"} \subseteq Places \ {"signal"}
  BY DEF Places
<1>g. ASSUME NEW pc \in Places \ {"signal"}
      PROVE  /\ StackOK(gs, Goto(pc))
             /\ Low(Goto(pc)[Len(Goto(pc))]) <= Top.base
  <2>1. /\ [Top EXCEPT !.pc = pc] \in Frames
        /\ [Top EXCEPT !.pc = pc].what = Top.what
        /\ [Top EXCEPT !.pc = pc].base = Top.base
        /\ [Top EXCEPT !.pc = pc].focus = Top.focus
        /\ [Top EXCEPT !.pc = pc].pc # "signal"
    BY <1>0, ReaderFrame
  <2> QED BY <1>0, <1>m, <2>1, ReaderOK DEF Goto
\* Running an executable and handling its exceptions in the list of main.
<1>r. ASSUME NEW pc \in Places \ {"signal"}, NEW c \in CommandType,
             RunHandling(gs, Goto(pc), "base_run", Top.base, c)
      PROVE  StackOK(gs', stack') /\ inAuto' \in BOOLEAN
  <2> DEFINE s == Goto(pc)
  <2>1. StackOK(gs, s) /\ Low(s[Len(s)]) <= Top.base
    BY <1>g
  <2> HIDE DEF s
  <2>2. RunHandling(gs, s, "base_run", Top.base, c)
    BY <1>r DEF s
  <2> QED BY <1>0, <2>1, <2>2, ReaderPlaces, RunHandlingOK
<1>h. ASSUME NEW pc \in Places \ {"signal"}, StartHandler(gs, Goto(pc), Top.base)
      PROVE  StackOK(gs', stack')
  <2> DEFINE s == Goto(pc)
  <2>1. StackOK(gs, s) /\ Low(s[Len(s)]) <= Top.base
    BY <1>g
  <2> HIDE DEF s
  <2>2. StartHandler(gs, s, Top.base)
    BY <1>h DEF s
  <2> QED BY <1>0, <2>1, <2>2, StartHandlerOK
<1>1. CASE MainInit
  <2>1. StackOK(gs', stack') /\ inAuto' \in BOOLEAN
    BY <1>1, <1>c, <1>p, <1>r DEF MainInit
  <2> QED BY <1>0, <1>1, <2>1 DEF MainInit, ShellInvariant
<1>2. CASE MainRegister
  <2>1. StackOK(gs', stack')
    BY <1>2, <1>p, <1>g DEF MainRegister
  <2> QED BY <1>2, <2>1, RestOK DEF MainRegister
<1>3. CASE MainPrompt
  <2>1. StackOK(gs', stack') /\ inAuto' \in BOOLEAN
    <3>1. CASE stack' = Goto("shutdown") /\ UNCHANGED <<gs, inAuto>>
      BY <1>0, <1>p, <1>g, <3>1
    <3>2. CASE RunHandling(gs, Goto("read"), "base_run", Top.base, CallOf(".prompt"))
      BY <1>c, <1>p, <1>r, <3>2
    <3> QED BY <1>3, <3>1, <3>2 DEF MainPrompt
  <2>2. fuel' \in 0 .. LineFuel
    BY <1>0, <1>3 DEF MainPrompt
  <2> QED BY <1>0, <1>3, <2>1, <2>2 DEF MainPrompt, ShellInvariant
<1>4. CASE MainGot
  <2>1. CASE StartHandler(gs, Goto("prompt"), Top.base)
    <3>1. StackOK(gs', stack')
      BY <1>p, <1>h, <2>1
    <3> QED BY <1>4, <3>1, RestOK DEF MainGot
  <2>2. CASE /\ stack' = Goto(IF Fails THEN "shutdown" ELSE "statement")
             /\ UNCHANGED gs
    <3>1. StackOK(gs', stack')
      BY <1>p, <1>g, <2>2
    <3> QED BY <1>4, <3>1, RestOK DEF MainGot
  <2> QED BY <1>4, <2>1, <2>2 DEF MainGot
<1>5. CASE MainStatement
  <2>1. CASE stack' = Goto("prompt") /\ UNCHANGED fuel
    <3>1. StackOK(gs', stack')
      BY <1>5, <1>p, <1>g, <2>1 DEF MainStatement
    <3> QED BY <1>5, <2>1, <3>1, RestOK DEF MainStatement
  <2>2. ASSUME NEW c \in Commands,
               stack' = SetTop([Top EXCEPT !.pc = "arguments", !.stmt = c]),
               Spend
        PROVE  ShellInvariant'
    <3>1. c \in CommandType /\ "arguments" \in Places /\ "arguments" # "signal"
      BY NamesInUse DEF Places
    <3>2. StackOK(gs, stack')
      BY <1>0, <1>m, <2>2, <3>1, StatementOK
    <3> QED BY <1>0, <1>5, <2>2, <3>2, SpendOK DEF MainStatement, ShellInvariant
  <2> QED BY <1>5, <2>1, <2>2 DEF MainStatement
<1>6. CASE MainInterpreted
  <2>1. PICK c \in CommandType :
          RunIfExists(gs, SetTop([Top EXCEPT !.pc = "before", !.stmt = c]),
                      ".before_command")
    BY <1>0, <1>6, <1>c DEF MainInterpreted
  <2> DEFINE s == SetTop([Top EXCEPT !.pc = "before", !.stmt = c])
  <2>2. StackOK(gs, s)
    BY <1>0, <1>m, StatementOK DEF Places
  <2> HIDE DEF s
  <2>3. RunIfExists(gs, s, ".before_command")
    BY <2>1 DEF s
  <2>4. StackOK(gs', stack')
    BY <1>c, <2>2, <2>3, RunIfExistsOK
  <2> QED BY <1>6, <2>4, RestOK DEF MainInterpreted
<1>i. ASSUME NEW pc \in Places \ {"signal"}, NEW name \in Names,
             RunIfExists(gs, Goto(pc), name)
      PROVE  StackOK(gs', stack')
  BY <1>g, <1>i, RunIfExistsOK
<1>7. CASE MainRun
  <2>1. CASE StartHandler(gs, Goto("after"), Top.base) /\ UNCHANGED inAuto
    <3>1. StackOK(gs', stack')
      BY <1>p, <1>h, <2>1
    <3> QED BY <1>7, <2>1, <3>1, RestOK DEF MainRun
  <2>2. CASE RunIfExists(gs, Goto("after"), ".run_logic") /\ UNCHANGED inAuto
    <3>1. StackOK(gs', stack')
      BY <1>c, <1>p, <1>i, <2>2
    <3> QED BY <1>7, <2>2, <3>1, RestOK DEF MainRun
  <2>3. CASE RunHandling(gs, Goto("after"), "base_run", Top.base, Top.stmt)
    <3>1. StackOK(gs', stack') /\ inAuto' \in BOOLEAN
      BY <1>0, <1>p, <1>r, <2>3
    <3> QED BY <1>0, <1>7, <3>1 DEF MainRun, ShellInvariant
  <2> QED BY <1>7, <2>1, <2>2, <2>3 DEF MainRun
<1>8. CASE MainAfter
  <2>1. StackOK(gs', stack')
    BY <1>8, <1>c, <1>p, <1>i DEF MainAfter
  <2> QED BY <1>8, <2>1, RestOK DEF MainAfter
<1>9. CASE MainShutdown
  <2>1. StackOK(gs', stack') /\ inAuto' \in BOOLEAN
    BY <1>9, <1>c, <1>p, <1>r DEF MainShutdown
  <2> QED BY <1>0, <1>9, <2>1 DEF MainShutdown, ShellInvariant
<1>10. CASE MainGlobals
  <2>1. CASE gs' = gs /\ stack' = Goto("done")
    <3>1. StackOK(gs', stack')
      BY <1>p, <1>g, <2>1
    <3> QED BY <1>10, <3>1, RestOK DEF MainGlobals
  <2>2. CASE StartHandler(AddError(gs, ".unused_variable"), Goto("done"),
                          Len(gs.errors))
    <3> DEFINE g == AddError(gs, ".unused_variable")
               s == Goto("done")
    <3>1. g \in CallStacks /\ Len(g.errors) = Len(gs.errors) + 1
          /\ g.nesting = gs.nesting
      BY <1>0, <1>c, AddErrorType
    <3>2. StackOK(gs, s) /\ Low(s[Len(s)]) <= Top.base
      BY <1>p, <1>g
    <3>3. StartHandler(g, s, Len(gs.errors))
      BY <2>2
    <3> HIDE DEF g, s
    <3>4. s[Len(s)] \in Frames /\ Low(s[Len(s)]) \in Nat
      BY <3>2, LastOK, LowType
    <3>5. Len(g.errors) >= Low(s[Len(s)]) /\ Len(gs.errors) \in 0 .. Len(g.errors)
          /\ Low(s[Len(s)]) <= Len(gs.errors)
      BY <1>0, <3>1, <3>2, <3>4
    <3>6. StackOK(g, s)
      BY <3>1, <3>2, <3>5, GlobalOK
    <3>7. StackOK(gs', stack')
      BY <3>3, <3>5, <3>6, StartHandlerOK
    <3> QED BY <1>10, <3>7, RestOK DEF MainGlobals
  <2> QED BY <1>10, <2>1, <2>2 DEF MainGlobals
<1> QED BY <1>1, <1>2, <1>3, <1>4, <1>5, <1>6, <1>7, <1>8, <1>9, <1>10

-----------------------------------------------------------------------------
\* The invariant of the machine.

LEMMA InitOK == Init => ShellInvariant
<1> SUFFICES ASSUME Init PROVE ShellInvariant
  OBVIOUS
<1>1. gs = InitialCallStack /\ fuel = LineFuel
      /\ stack = << Frame("main", "init", Argfunction, 0) >>
      /\ gc \in Conditionals /\ inAuto \in BOOLEAN
  BY DEF Init, Conditionals
<1>2. "init" \in Places
  BY DEF Places
<1>3. StackOK(gs, stack)
  BY <1>1, <1>2, FreshOK
<1> QED BY <1>1, <1>3, InterpreterAssumption DEF ShellInvariant

LEMMA NextOK == ShellInvariant /\ [Next]_vars => ShellInvariant'
<1> SUFFICES ASSUME ShellInvariant, [Next]_vars PROVE ShellInvariant'
  OBVIOUS
<1>1. CASE InterpreterNext
  BY <1>1, ExecutableStep, BodyStep, HandlerStep DEF InterpreterNext
<1>2. CASE ControlFlowNext
  BY <1>2, SimpleStep, CollectStep, CatchStep, LoopStep, IfStep
     DEF ControlFlowNext
<1>3. CASE ShellNext
  BY <1>3, GetlineStep, SourceStep, MainStep DEF ShellNext
<1>4. CASE UNCHANGED vars
  BY <1>4, RestOK DEF vars, ShellInvariant
<1> QED BY <1>1, <1>2, <1>3, <1>4 DEF Next

\* The frames on the C++ stack, the Error_lists that they own and the counter
\* of nested executables always fit together, whatever scripts are run, signals
\* arrive and data are wrong (call_stack.cc, base_executable.cc).
THEOREM ShellInvariantHolds == Spec => []ShellInvariant
BY InitOK, NextOK, PTL DEF Spec

\* Every variable keeps its type: no list loses a member that it does not
\* have, and some activation is always left to run.
THEOREM TypeCorrect == Spec => []TypeOK
<1>1. ShellInvariant => TypeOK
  BY DEF ShellInvariant, StackOK, TypeOK
<1> QED BY <1>1, ShellInvariantHolds, PTL

\* No reset, removal, replacement or return of an executable ever takes an
\* exception from a list that belongs to an activation further out.
THEOREM ListsNestedHolds == Spec => []ListsNested
<1>1. ShellInvariant => ListsNested
  <2> SUFFICES ASSUME ShellInvariant PROVE ListsNested
    OBVIOUS
  <2>1. StackOK(gs, stack) /\ DOMAIN stack = 1 .. Len(stack)
    BY DEF ShellInvariant, StackOK
  <2>2. \A i \in DOMAIN stack :
          stack[i].base <= Low(stack[i]) /\ Low(stack[i]) <= Len(gs.errors)
    BY <2>1 DEF StackOK, FrameOK
  <2>3. \A i, j \in DOMAIN stack : i < j => Low(stack[i]) <= stack[j].base
    BY <2>1 DEF StackOK
  <2> QED BY <2>2, <2>3 DEF ListsNested
<1> QED BY <1>1, ShellInvariantHolds, PTL

\* global_nesting is exactly the number of activations of operator() on the
\* stack, whether they return, unwind, or are left by way of a signal handler.
THEOREM NestingCountedHolds == Spec => []NestingCounted
<1>1. ShellInvariant => NestingCounted
  BY DEF ShellInvariant, StackOK, NestingCounted, Nested
<1> QED BY <1>1, ShellInvariantHolds, PTL

\* However scripts recurse, no more than max_nesting + 2 executables are ever
\* active: the guard in operator() bounds the C++ stack for every max_nesting.
THEOREM NestingBoundedHolds == Spec => []NestingBounded
<1>1. ShellInvariant => NestingBounded
  BY DEF ShellInvariant, StackOK, NestingBounded, Nested
<1> QED BY <1>1, ShellInvariantHolds, PTL

=============================================================================
