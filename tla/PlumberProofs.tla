--------------------------- MODULE PlumberProofs ---------------------------
(***************************************************************************)
(* Proofs about Plumber: until an .exec fails in a substitution, output    *)
(* arrives once, in order and where it belongs, and no pipe is left open,  *)
(* whatever children do and whenever they do it.                           *)
(***************************************************************************)
EXTENDS PlumberProperties, TLAPS

-----------------------------------------------------------------------------
\* The inductive invariant.

Streams == [buffer : Seq(Nat), data : Seq(Nat), writing : BOOLEAN, reading : BOOLEAN]

TypeOK ==
  /\ subs \in Seq(Streams) /\ Level <= MaxLevels
  /\ outbuf \in Seq(Nat) /\ shown \in Seq(Nat)
  /\ fd1 \in Int
  /\ to_close \in Seq(Int) /\ output_handlers \in Seq(Int)
  /\ child \in Children \cup {None}
  /\ pc \in {"script", "wait", "copy", "replaced", "undefined"}
  /\ count \in Nat
  /\ meant \in [0 .. MaxLevels -> SUBSET Nat] /\ pending \in SUBSET Nat

Closed(s) == s.data = << >> /\ ~s.writing /\ ~s.reading

\* Only the innermost substitution has a pipe, which the plumber knows of: it is to
\* be read while somebody may write to it, and a child writes to it if it is there.
Reading == subs # << >> /\ subs[Level].reading
Writing == subs # << >> /\ subs[Level].writing
Pipes ==
  /\ \A k \in DOMAIN subs : k # Level \/ ~Reading => Closed(subs[k])
  /\ output_handlers = IF Reading THEN <<Level>> ELSE << >>
  /\ to_close = IF Writing THEN <<Level>> ELSE << >>
  /\ pc = "script" => child = None /\ ~Reading
  /\ pc = "copy" => ~Writing
  /\ child # None /\ child.pc = "running" =>
       child.fd1 = Innermost /\ (Reading => Level \in child.holds)

\* The last piece has the highest number.
UpTo(n, pieces) == \A p \in pieces : p <= n
InBuffers == (IF child = None THEN {} ELSE Range(child.buf)) \cup Range(outbuf)
Numbered ==
  /\ UpTo(count, Range(shown) \cup InBuffers \cup pending)
  /\ \A k \in DOMAIN subs : UpTo(count, Range(subs[k].buffer) \cup Range(subs[k].data))

\* While there is a child what is in the buffer of the shell was there when it was made.
Doubtful ==
  /\ child # None => Range(outbuf) \subseteq pending
  /\ child # None /\ (child.kind = "binary" \/ child.pc = "done") => child.buf = << >>

\* The pieces of s, and of s before t, are in order, but for those in P.
Sorted(s, P) ==
  \A i, j \in DOMAIN s : i < j /\ s[i] \notin P /\ s[j] \notin P => s[i] < s[j]
Ahead(s, t, P) == \A m \in Range(s) \ P, n \in Range(t) \ P : m < n

\* What has been written is, in this order, in a, b and c.
Holds(a, b, c, written, P) ==
  /\ (Range(a) \cup Range(b) \cup Range(c)) \ P = written \ P
  /\ Sorted(a, P) /\ Sorted(b, P) /\ Sorted(c, P)
  /\ Ahead(a, b, P) /\ Ahead(a, c, P) /\ Ahead(b, c, P)
Terminal == Holds(shown, Unflushed(Screen), outbuf, meant[Screen], pending)
Texts ==
  /\ \A k \in DOMAIN subs :
       Holds(subs[k].buffer, subs[k].data, Unflushed(k), meant[k], pending)
  /\ \A k \in 0 .. MaxLevels : k > Level => meant[k] = {}

Sound ==
  fd1 = Screen /\ TypeOK /\ Pipes /\ Numbered /\ Doubtful /\ Terminal /\ Texts
PlumberInvariant == fd1 = Screen => Sound

-----------------------------------------------------------------------------
\* Sequences of pieces.

LEMMA RangeEmpty == Range(<< >>) = {}
BY DEF Range

LEMMA RangeAppend ==
  ASSUME NEW S, NEW s \in Seq(S), NEW n \in S
  PROVE  Append(s, n) \in Seq(S) /\ Range(Append(s, n)) = Range(s) \cup {n}
<1>1. \A i \in DOMAIN s : i \in DOMAIN Append(s, n) /\ Append(s, n)[i] = s[i]
  OBVIOUS
<1>2. Len(s) + 1 \in DOMAIN Append(s, n) /\ Append(s, n)[Len(s) + 1] = n
  OBVIOUS
<1>3. \A i \in DOMAIN Append(s, n) : i \in DOMAIN s \/ i = Len(s) + 1
  OBVIOUS
<1> QED BY <1>1, <1>2, <1>3 DEF Range

LEMMA RangeConcat ==
  ASSUME NEW S, NEW s \in Seq(S), NEW t \in Seq(S)
  PROVE  s \o t \in Seq(S) /\ Range(s \o t) = Range(s) \cup Range(t)
<1>1. \A i \in DOMAIN s : i \in DOMAIN (s \o t) /\ (s \o t)[i] = s[i]
  OBVIOUS
<1>2. \A i \in DOMAIN t : Len(s) + i \in DOMAIN (s \o t) /\ (s \o t)[Len(s) + i] = t[i]
  OBVIOUS
<1>3. \A i \in DOMAIN (s \o t) :
         \/ i \in DOMAIN s
         \/ i - Len(s) \in DOMAIN t /\ i = Len(s) + (i - Len(s))
  OBVIOUS
<1>4. Range(s \o t) \subseteq Range(s) \cup Range(t)
  BY <1>1, <1>2, <1>3 DEF Range
<1>5. Range(s) \cup Range(t) \subseteq Range(s \o t)
  BY <1>1, <1>2 DEF Range
<1> QED BY <1>4, <1>5

LEMMA SortedAppend ==
  ASSUME NEW P, NEW s \in Seq(Nat), NEW n \in Nat, Sorted(s, P),
         n \in P \/ \A m \in Range(s) \ P : m < n
  PROVE  Sorted(Append(s, n), P)
<1> DEFINE t == Append(s, n)
<1> SUFFICES ASSUME NEW i \in DOMAIN t, NEW j \in DOMAIN t, i < j, t[i] \notin P, t[j] \notin P
             PROVE  t[i] < t[j]
  BY DEF Sorted
<1>4. i \in DOMAIN s /\ j \in 1 .. Len(s) + 1
  OBVIOUS
<1>1. t[i] = s[i] /\ t[i] \in Range(s)
  BY <1>4 DEF Range
<1>2. CASE j \in DOMAIN s
  BY <1>1, <1>2, <1>4 DEF Sorted
<1>3. CASE j = Len(s) + 1
  BY <1>1, <1>3
<1> QED BY <1>2, <1>3, <1>4

LEMMA SortedConcat ==
  ASSUME NEW P, NEW s \in Seq(Nat), NEW t \in Seq(Nat)
  PROVE  Sorted(s \o t, P) <=> Sorted(s, P) /\ Sorted(t, P) /\ Ahead(s, t, P)
<1> DEFINE u == s \o t
<1>1. \A i \in DOMAIN s : i \in DOMAIN u /\ u[i] = s[i]
  OBVIOUS
<1>2. \A i \in DOMAIN t : Len(s) + i \in DOMAIN u /\ u[Len(s) + i] = t[i]
  OBVIOUS
<1>3. \A i \in DOMAIN u :
         \/ i \in DOMAIN s
         \/ i - Len(s) \in DOMAIN t /\ u[i] = t[i - Len(s)]
  OBVIOUS
<1>4. ASSUME Sorted(u, P) PROVE Sorted(s, P)
  BY <1>1, <1>4 DEF Sorted
<1>5. ASSUME Sorted(u, P) PROVE Sorted(t, P)
  <2> SUFFICES ASSUME NEW i \in DOMAIN t, NEW j \in DOMAIN t, i < j,
                      t[i] \notin P, t[j] \notin P
               PROVE  t[i] < t[j]
    BY DEF Sorted
  <2>1. Len(s) + i < Len(s) + j
    OBVIOUS
  <2>2. /\ Len(s) + i \in DOMAIN u /\ u[Len(s) + i] = t[i]
        /\ Len(s) + j \in DOMAIN u /\ u[Len(s) + j] = t[j]
    BY <1>2
  <2> HIDE DEF u
  <2> QED BY <1>5, <2>1, <2>2 DEF Sorted
<1>6. ASSUME Sorted(u, P) PROVE Ahead(s, t, P)
  <2> SUFFICES ASSUME NEW i \in DOMAIN s, NEW j \in DOMAIN t, s[i] \notin P, t[j] \notin P
               PROVE  s[i] < t[j]
    BY DEF Ahead, Range
  <2>1. i < Len(s) + j
    OBVIOUS
  <2> QED BY <1>1, <1>2, <1>6, <2>1 DEF Sorted
<1>7. ASSUME Sorted(s, P), Sorted(t, P), Ahead(s, t, P) PROVE Sorted(u, P)
  <2> SUFFICES ASSUME NEW i \in DOMAIN u, NEW j \in DOMAIN u, i < j,
                      u[i] \notin P, u[j] \notin P
               PROVE  u[i] < u[j]
    BY DEF Sorted
  <2>1. CASE j \in DOMAIN s
    <3>1. i \in DOMAIN s
      BY <2>1
    <3> QED BY <1>1, <1>7, <2>1, <3>1 DEF Sorted
  <2>2. CASE i \notin DOMAIN s
    <3>1. i - Len(s) \in DOMAIN t /\ j - Len(s) \in DOMAIN t /\ i - Len(s) < j - Len(s)
      BY <2>2
    <3>2. u[i] = t[i - Len(s)] /\ u[j] = t[j - Len(s)]
      BY <2>2, <3>1
    <3> QED BY <1>7, <3>1, <3>2 DEF Sorted
  <2>3. CASE i \in DOMAIN s /\ j \notin DOMAIN s
    <3>1. j - Len(s) \in DOMAIN t
      BY <1>3, <2>3
    <3>2. s[i] \in Range(s) /\ t[j - Len(s)] \in Range(t)
      BY <2>3, <3>1 DEF Range
    <3> QED BY <1>1, <1>3, <1>7, <2>3, <3>2 DEF Ahead
  <2> QED BY <2>1, <2>2, <2>3
<1> QED BY <1>4, <1>5, <1>6, <1>7

\* A sequence is what comes up to n and what comes behind.
LEMMA SplitAt ==
  ASSUME NEW S, NEW s \in Seq(S), NEW n \in 1 .. Len(s)
  PROVE  /\ SubSeq(s, 1, n) \in Seq(S) /\ SubSeq(s, n + 1, Len(s)) \in Seq(S)
         /\ s = SubSeq(s, 1, n) \o SubSeq(s, n + 1, Len(s))
<1> DEFINE a == SubSeq(s, 1, n)
           b == SubSeq(s, n + 1, Len(s))
<1>1. a \in Seq(S) /\ b \in Seq(S) /\ Len(a) = n /\ Len(b) = Len(s) - n
  OBVIOUS
<1>2. \A i \in 1 .. Len(a) : a[i] = s[i]
  OBVIOUS
<1>3. \A i \in 1 .. Len(b) : b[i] = s[n + i]
  OBVIOUS
<1>4. a \o b \in Seq(S) /\ Len(a \o b) = Len(s)
  BY <1>1
<1>5. \A i \in 1 .. Len(s) : (a \o b)[i] = s[i]
  <2> TAKE i \in 1 .. Len(s)
  <2>1. CASE i <= n
    BY <1>1, <1>2, <2>1
  <2>2. CASE i > n
    <3>1. i - n \in 1 .. Len(b) /\ (a \o b)[i] = b[i - n]
      BY <1>1, <2>2
    <3>2. n + (i - n) = i
      OBVIOUS
    <3> QED BY <1>3, <3>1, <3>2
  <2> QED BY <2>1, <2>2
<1> QED BY <1>1, <1>4, <1>5

\* The more pieces are excepted the less there is to show.
LEMMA ExceptMore ==
  ASSUME NEW P, NEW Q, P \subseteq Q, NEW s, NEW t
  PROVE  /\ Sorted(s, P) => Sorted(s, Q)
         /\ Ahead(s, t, P) => Ahead(s, t, Q)
BY DEF Sorted, Ahead

\* Nothing, and what is excepted, may come anywhere.
LEMMA AheadEmpty ==
  ASSUME NEW P, NEW s
  PROVE  Ahead(s, << >>, P) /\ Ahead(<< >>, s, P) /\ Sorted(<< >>, P)
BY RangeEmpty DEF Ahead, Sorted

LEMMA Excepted ==
  ASSUME NEW P, NEW s, Range(s) \subseteq P, NEW t
  PROVE  Sorted(s, P) /\ Ahead(s, t, P) /\ Ahead(t, s, P)
BY DEF Sorted, Ahead, Range

-----------------------------------------------------------------------------
\* What is held where.

LEMMA HoldsMore ==
  ASSUME NEW P, NEW Q, P \subseteq Q, NEW a, NEW b, NEW c, NEW m,
         Holds(a, b, c, m, P)
  PROVE  Holds(a, b, c, m, Q)
<1>1. (Range(a) \cup Range(b) \cup Range(c)) \ Q = m \ Q
  BY DEF Holds
<1> QED BY <1>1, ExceptMore DEF Holds

\* One of the three may be replaced by one of which all is excepted.
LEMMA HoldsExcepted ==
  ASSUME NEW P, NEW a, NEW b, NEW c, NEW m, Holds(a, b, c, m, P),
         NEW d, Range(d) \subseteq P
  PROVE  /\ Range(b) \subseteq P => Holds(a, d, c, m, P)
         /\ Range(c) \subseteq P => Holds(a, b, d, m, P)
<1>1. Sorted(d, P) /\ Ahead(a, d, P) /\ Ahead(d, c, P) /\ Ahead(b, d, P)
  BY Excepted
<1>2. Range(b) \subseteq P => (Range(a) \cup Range(d) \cup Range(c)) \ P = m \ P
  BY DEF Holds
<1>3. Range(c) \subseteq P => (Range(a) \cup Range(b) \cup Range(d)) \ P = m \ P
  BY DEF Holds
<1> QED BY <1>1, <1>2, <1>3 DEF Holds

\* A piece with the highest number comes at the end of one of the three, with
\* nothing certain behind it.
LEMMA HoldsAppend ==
  ASSUME NEW P, NEW a \in Seq(Nat), NEW b \in Seq(Nat), NEW c \in Seq(Nat), NEW m,
         NEW n \in Nat, Holds(a, b, c, m, P), n \notin P,
         \A i \in Range(a) \cup Range(b) \cup Range(c) : i < n
  PROVE  /\ Holds(a, b, Append(c, n), m \cup {n}, P)
         /\ Range(c) \subseteq P => Holds(a, Append(b, n), c, m \cup {n}, P)
         /\ Range(b) \cup Range(c) \subseteq P => Holds(Append(a, n), b, c, m \cup {n}, P)
<1>1. ASSUME NEW s \in Seq(Nat), s \in {a, b, c}
      PROVE  Range(Append(s, n)) = Range(s) \cup {n} /\ Sorted(Append(s, n), P)
  <2>1. Sorted(s, P) /\ \A i \in Range(s) : i < n
    BY <1>1 DEF Holds
  <2> QED BY <2>1, RangeAppend, SortedAppend
<1>2. (Range(a) \cup Range(b) \cup Range(c) \cup {n}) \ P = (m \cup {n}) \ P
  BY DEF Holds
<1>3. Holds(a, b, Append(c, n), m \cup {n}, P)
  <2>1. Range(Append(c, n)) = Range(c) \cup {n} /\ Sorted(Append(c, n), P)
    BY <1>1
  <2>2. Ahead(a, Append(c, n), P) /\ Ahead(b, Append(c, n), P)
    BY <2>1 DEF Holds, Ahead
  <2> QED BY <1>2, <2>1, <2>2 DEF Holds
<1>4. ASSUME Range(c) \subseteq P
      PROVE  Holds(a, Append(b, n), c, m \cup {n}, P)
  <2>1. Range(Append(b, n)) = Range(b) \cup {n} /\ Sorted(Append(b, n), P)
    BY <1>1
  <2>2. Ahead(a, Append(b, n), P) /\ Ahead(Append(b, n), c, P)
    BY <1>4, <2>1 DEF Holds, Ahead
  <2> QED BY <1>2, <2>1, <2>2 DEF Holds
<1>5. ASSUME Range(b) \cup Range(c) \subseteq P
      PROVE  Holds(Append(a, n), b, c, m \cup {n}, P)
  <2>1. Range(Append(a, n)) = Range(a) \cup {n} /\ Sorted(Append(a, n), P)
    BY <1>1
  <2>2. Ahead(Append(a, n), b, P) /\ Ahead(Append(a, n), c, P)
    BY <1>5, <2>1 DEF Ahead
  <2> QED BY <1>2, <2>1, <2>2 DEF Holds
<1> QED BY <1>3, <1>4, <1>5

\* What comes first in one of them may move to the end of the one before it.
LEMMA HoldsMoved ==
  ASSUME NEW P, NEW a \in Seq(Nat), NEW b \in Seq(Nat), NEW c \in Seq(Nat), NEW m,
         NEW x \in Seq(Nat), NEW y \in Seq(Nat)
  PROVE  /\ b = x \o y /\ Holds(a, b, c, m, P) => Holds(a \o x, y, c, m, P)
         /\ c = x \o y /\ Holds(a, b, c, m, P) => Holds(a, b \o x, y, m, P)
<1>1. /\ Range(x \o y) = Range(x) \cup Range(y)
      /\ Sorted(x \o y, P) <=> Sorted(x, P) /\ Sorted(y, P) /\ Ahead(x, y, P)
  BY RangeConcat, SortedConcat
<1>2. ASSUME b = x \o y, Holds(a, b, c, m, P)
      PROVE  Holds(a \o x, y, c, m, P)
  <2>1. Sorted(x, P) /\ Sorted(y, P) /\ Ahead(x, y, P) /\ Range(b) = Range(x) \cup Range(y)
    BY <1>1, <1>2 DEF Holds
  <2>2. Ahead(a, x, P) /\ Ahead(a, y, P) /\ Ahead(x, c, P) /\ Ahead(y, c, P)
    BY <1>2, <2>1 DEF Holds, Ahead
  <2>3. Range(a \o x) = Range(a) \cup Range(x) /\ Sorted(a \o x, P)
    BY <1>2, <2>1, <2>2, RangeConcat, SortedConcat DEF Holds
  <2>4. Ahead(a \o x, y, P) /\ Ahead(a \o x, c, P)
    BY <1>2, <2>1, <2>2, <2>3 DEF Holds, Ahead
  <2>5. (Range(a \o x) \cup Range(y) \cup Range(c)) \ P = m \ P
    BY <1>2, <2>1, <2>3 DEF Holds
  <2> QED BY <1>2, <2>1, <2>2, <2>3, <2>4, <2>5 DEF Holds
<1>3. ASSUME c = x \o y, Holds(a, b, c, m, P)
      PROVE  Holds(a, b \o x, y, m, P)
  <2>1. Sorted(x, P) /\ Sorted(y, P) /\ Ahead(x, y, P) /\ Range(c) = Range(x) \cup Range(y)
    BY <1>1, <1>3 DEF Holds
  <2>2. Ahead(a, x, P) /\ Ahead(a, y, P) /\ Ahead(b, x, P) /\ Ahead(b, y, P)
    BY <1>3, <2>1 DEF Holds, Ahead
  <2>3. Range(b \o x) = Range(b) \cup Range(x) /\ Sorted(b \o x, P)
    BY <1>3, <2>1, <2>2, RangeConcat, SortedConcat DEF Holds
  <2>4. Ahead(b \o x, y, P) /\ Ahead(a, b \o x, P)
    BY <1>3, <2>1, <2>2, <2>3 DEF Holds, Ahead
  <2>5. (Range(a) \cup Range(b \o x) \cup Range(y)) \ P = m \ P
    BY <1>3, <2>1, <2>3 DEF Holds
  <2> QED BY <1>3, <2>1, <2>2, <2>3, <2>4, <2>5 DEF Holds
<1> QED BY <1>2, <1>3

LEMMA HoldsSwapped ==
  ASSUME NEW P, NEW a, NEW c, NEW m
  PROVE  Holds(a, << >>, c, m, P) <=> Holds(a, c, << >>, m, P)
BY RangeEmpty, AheadEmpty DEF Holds

LEMMA HoldsNothing ==
  ASSUME NEW P
  PROVE  Holds(<< >>, << >>, << >>, {}, P)
BY RangeEmpty, AheadEmpty DEF Holds

-----------------------------------------------------------------------------
\* Types.

LEMMA RangeType ==
  ASSUME NEW S, NEW s \in Seq(S)
  PROVE  Range(s) \subseteq S
BY DEF Range

LEMMA ChildType ==
  ASSUME TypeOK, NEW kind \in {"binary", "fork", "missing"}, NEW output \in Int,
         NEW streams \in Seq(Streams), NEW n \in Nat
  PROVE  Child(kind, output, streams, n) \in Children
<1>1. DOMAIN streams \subseteq Int
  OBVIOUS
<1> QED BY <1>1 DEF Child, Children, TypeOK

LEMMA Updated ==
  ASSUME NEW S, NEW s \in Seq(S), NEW k \in DOMAIN s, NEW v \in S
  PROVE  /\ [s EXCEPT ![k] = v] \in Seq(S) /\ Len([s EXCEPT ![k] = v]) = Len(s)
         /\ DOMAIN [s EXCEPT ![k] = v] = DOMAIN s /\ [s EXCEPT ![k] = v][k] = v
         /\ \A i \in DOMAIN s : i # k => [s EXCEPT ![k] = v][i] = s[i]
OBVIOUS

LEMMA LastIn ==
  ASSUME NEW S, NEW s \in Seq(S), s # << >>
  PROVE  Len(s) \in DOMAIN s /\ Len(s) \in Nat \ {0} /\ s[Len(s)] \in S
OBVIOUS

LEMMA LevelIn ==
  ASSUME TypeOK, subs # << >>
  PROVE  Level \in DOMAIN subs /\ Level \in Nat \ {0} /\ subs[Level] \in Streams
BY LastIn DEF TypeOK, Level

\* One place of what is meant.
LEMMA MeantType ==
  ASSUME TypeOK
  PROVE  /\ Screen \in 0 .. MaxLevels /\ Screen \notin DOMAIN subs
         /\ DOMAIN subs \subseteq 0 .. MaxLevels /\ Innermost \in 0 .. MaxLevels
         /\ \A k \in 0 .. MaxLevels : meant[k] \in SUBSET Nat
<1>1. MaxLevels \in Nat /\ DOMAIN subs = 1 .. Level /\ Level \in Nat /\ Level <= MaxLevels
  BY BoundsAssumption DEF TypeOK, Level
<1>2. Innermost \in {Level, Screen}
  BY DEF Innermost
<1> QED BY <1>1, <1>2 DEF TypeOK, Screen

LEMMA MeantMore ==
  ASSUME TypeOK, NEW place \in 0 .. MaxLevels, NEW new \in SUBSET Nat,
         meant' = [meant EXCEPT ![place] = meant[place] \cup new]
  PROVE  /\ meant' \in [0 .. MaxLevels -> SUBSET Nat]
         /\ meant'[place] = meant[place] \cup new
         /\ \A k \in 0 .. MaxLevels : k # place => meant'[k] = meant[k]
BY DEF TypeOK

LEMMA PieceFacts ==
  ASSUME TypeOK, Numbered, Piece
  PROVE  /\ count' = count + 1 /\ count' \in Nat /\ count <= count' /\ count' \notin pending
BY DEF TypeOK, Numbered, UpTo, Piece

LEMMA BufferType ==
  ASSUME TypeOK
  PROVE  /\ \A place : Unflushed(place) \in Seq(Nat)
         /\ child # None => child \in Children /\ child.buf \in Seq(Nat)
         /\ InBuffers \subseteq Nat
<1>1. << >> \in Seq(Nat)
  OBVIOUS
<1>2. child # None => child \in Children /\ child.buf \in Seq(Nat)
  BY DEF TypeOK, Children
<1> QED BY <1>1, <1>2, RangeType DEF TypeOK, Unflushed, InBuffers

-----------------------------------------------------------------------------
\* What does not change.

LEMMA PipesSame ==
  ASSUME Pipes, UNCHANGED <<subs, to_close, output_handlers, child, pc>>
  PROVE  Pipes'
BY DEF Pipes, Reading, Writing, Level, Innermost

LEMMA PiecesSame ==
  ASSUME Sound, UNCHANGED <<subs, outbuf, shown, child, meant, pending, count>>
  PROVE  Numbered' /\ Doubtful' /\ Terminal' /\ Texts'
<1>1. Numbered'
  BY DEF Sound, Numbered, InBuffers
<1>2. Doubtful'
  BY DEF Sound, Doubtful
<1>3. Terminal' /\ Texts'
  BY DEF Sound, Terminal, Texts, Unflushed, Level
<1> QED BY <1>1, <1>2, <1>3

\* There are more pieces now.
LEMMA StillNumbered ==
  ASSUME TypeOK, Numbered, NEW n \in Nat, count <= n
  PROVE  /\ UpTo(n, Range(shown) \cup InBuffers \cup pending)
         /\ \A k \in DOMAIN subs : UpTo(n, Range(subs[k].buffer) \cup Range(subs[k].data))
<1> DEFINE More(pieces) == pieces \subseteq Nat /\ UpTo(count, pieces)
<1>1. ASSUME NEW pieces, More(pieces) PROVE UpTo(n, pieces)
  BY <1>1 DEF UpTo, TypeOK
<1>2. More(Range(shown) \cup InBuffers \cup pending)
  BY BufferType, RangeType DEF TypeOK, Numbered
<1>3. ASSUME NEW k \in DOMAIN subs
      PROVE  More(Range(subs[k].buffer) \cup Range(subs[k].data))
  <2>1. subs[k] \in Streams
    BY <1>3 DEF TypeOK
  <2> QED BY <2>1, RangeType DEF Streams, Numbered
<1> HIDE DEF More
<1> QED BY <1>1, <1>2, <1>3

-----------------------------------------------------------------------------
\* The script.

\* Between statements nothing is open.
LEMMA Quiet ==
  ASSUME Sound, pc = "script"
  PROVE  /\ child = None /\ ~Reading /\ ~Writing
         /\ \A place : Unflushed(place) = << >>
         /\ to_close = << >> /\ output_handlers = << >>
         /\ \A k \in DOMAIN subs : Closed(subs[k])
<1>1. child = None /\ ~Reading /\ \A k \in DOMAIN subs : Closed(subs[k])
  BY DEF Sound, Pipes
<1>2. ~Writing
  BY <1>1, LevelIn DEF Sound, Writing, Closed
<1> QED BY <1>1, <1>2 DEF Sound, Pipes, Unflushed

LEMMA StartOK ==
  ASSUME Sound, StartSubstitution
  PROVE  Sound'
<1> USE DEF StartSubstitution, ghostVars
<1>1. NewStream \in Streams /\ Closed(NewStream) /\ NewStream.buffer = << >>
      /\ NewStream.data = << >>
  BY DEF NewStream, Streams, Closed
<1>2. /\ subs \in Seq(Streams) /\ subs' = Append(subs, NewStream)
      /\ Level < MaxLevels /\ Level \in Nat /\ MaxLevels \in Nat
  BY BoundsAssumption DEF Sound, TypeOK, Level
<1>3. /\ subs' \in Seq(Streams) /\ Level' = Level + 1
      /\ Level' \in 0 .. MaxLevels
  BY <1>1, <1>2 DEF Level
<1>4. \A k \in DOMAIN subs' :
        (k \in DOMAIN subs /\ subs'[k] = subs[k]) \/ (k = Level' /\ subs'[k] = NewStream)
  BY <1>2 DEF Level
<1>5. fd1' = Screen /\ TypeOK'
  BY <1>2, <1>3 DEF Sound, TypeOK
<1>6. Pipes'
  <2>1. \A k \in DOMAIN subs' : Closed(subs'[k])
    BY <1>1, <1>4, Quiet
  <2>2. ~Reading' /\ ~Writing'
    BY <2>1, <1>3, LastIn DEF Reading, Writing, Closed, Level
  <2> QED BY <2>1, <2>2, Quiet DEF Pipes
<1>7. Numbered'
  BY <1>1, <1>4, RangeEmpty DEF Sound, Numbered, UpTo, InBuffers
<1>8. Doubtful'
  BY DEF Sound, Doubtful
<1>9. Terminal'
  BY DEF Sound, Terminal, Unflushed
<1>10. Texts'
  <2>1. meant[Level'] = {}
    BY <1>2, <1>3 DEF Sound, Texts
  <2>2. child' = child /\ \A place : Unflushed(place) = << >> /\ Unflushed(place)' = << >>
    BY Quiet DEF Unflushed
  <2>3. \A k \in DOMAIN subs' :
          Holds(subs'[k].buffer, subs'[k].data, Unflushed(k)', meant[k], pending)
    BY <1>1, <1>4, <2>1, <2>2, HoldsNothing DEF Sound, Texts
  <2>4. \A k \in 0 .. MaxLevels : k > Level' => meant[k] = {}
    BY <1>2, <1>3 DEF Sound, Texts
  <2> QED BY <2>3, <2>4 DEF Texts
<1> QED BY <1>5, <1>6, <1>7, <1>8, <1>9, <1>10 DEF Sound

LEMMA Prefix ==
  ASSUME NEW S, NEW s \in Seq(S), NEW n \in 0 .. Len(s)
  PROVE  /\ SubSeq(s, 1, n) \in Seq(S) /\ Len(SubSeq(s, 1, n)) = n
         /\ \A k \in 1 .. n : SubSeq(s, 1, n)[k] = s[k]
<1>1. SubSeq(s, 1, n) \in Seq(S) /\ Len(SubSeq(s, 1, n)) = n
  OBVIOUS
<1>2. \A k \in 1 .. n : SubSeq(s, 1, n)[k] = s[k]
  OBVIOUS
<1> QED BY <1>1, <1>2

LEMMA EndOK ==
  ASSUME Sound, EndSubstitution, fd1' = Screen
  PROVE  Sound'
<1> USE DEF EndSubstitution
<1>1. to_close' = << >> /\ output_handlers' = << >>
  BY Quiet
<1>2. /\ subs \in Seq(Streams) /\ subs # << >> /\ subs' = SubSeq(subs, 1, Len(subs) - 1)
      /\ Level \in 1 .. MaxLevels /\ MaxLevels \in Nat
  BY BoundsAssumption DEF Sound, TypeOK, Front, Level
<1>3. subs' \in Seq(Streams) /\ Level' = Level - 1
      /\ \A k \in 1 .. Level - 1 : subs'[k] = subs[k]
  <2> DEFINE n == Level - 1
  <2>1. n \in 0 .. Len(subs) /\ subs' = SubSeq(subs, 1, n)
    BY <1>2 DEF Level
  <2> HIDE DEF n
  <2>2. subs' \in Seq(Streams) /\ Len(subs') = n /\ \A k \in 1 .. n : subs'[k] = subs[k]
    BY <1>2, <2>1, Prefix
  <2> QED BY <2>2 DEF n, Level
<1>4. \A k \in DOMAIN subs' : k \in DOMAIN subs /\ k < Level /\ subs'[k] = subs[k]
  BY <1>2, <1>3 DEF Level
<1>5. /\ meant' \in [0 .. MaxLevels -> SUBSET Nat] /\ meant'[Level] = {}
      /\ \A k \in 0 .. MaxLevels : k # Level => meant'[k] = meant[k]
  BY <1>2 DEF Sound, TypeOK
<1>6. TypeOK'
  BY <1>1, <1>2, <1>3, <1>5 DEF Sound, TypeOK, Screen
<1>7. Pipes'
  <2>1. \A k \in DOMAIN subs' : Closed(subs'[k])
    BY <1>4, Quiet
  <2>2. ~Reading' /\ ~Writing'
    BY <2>1, <1>3, LastIn DEF Reading, Writing, Closed, Level
  <2> QED BY <2>1, <2>2, <1>1, Quiet DEF Pipes
<1>8. Numbered'
  BY <1>4 DEF Sound, Numbered, UpTo, InBuffers
<1>9. Doubtful'
  BY DEF Sound, Doubtful
<1>10. Terminal'
  <2>1. meant'[Screen] = meant[Screen]
    BY <1>2, <1>5 DEF Screen
  <2> QED BY <2>1 DEF Sound, Terminal, Unflushed
<1>11. Texts'
  <2>1. \A k \in DOMAIN subs' : k \in DOMAIN subs /\ k \in 0 .. MaxLevels /\ k # Level
    BY <1>2, <1>4
  <2>2. \A k \in DOMAIN subs' :
          Holds(subs'[k].buffer, subs'[k].data, Unflushed(k)', meant'[k], pending)
    BY <1>4, <1>5, <2>1 DEF Sound, Texts, Unflushed
  <2>3. \A k \in 0 .. MaxLevels : k > Level' => meant'[k] = {}
    BY <1>2, <1>3, <1>5 DEF Sound, Texts
  <2> QED BY <2>2, <2>3 DEF Texts
<1> QED BY <1>6, <1>7, <1>8, <1>9, <1>10, <1>11 DEF Sound

\* What is delivered to the screen, or to a pipe.
LEMMA Delivered ==
  ASSUME TypeOK, NEW place, place = Screen \/ place \in DOMAIN subs,
         NEW pieces \in Seq(Nat), Deliver(place, pieces)
  PROVE  /\ subs' \in Seq(Streams) /\ Len(subs') = Len(subs) /\ DOMAIN subs' = DOMAIN subs
         /\ shown' \in Seq(Nat)
         /\ place = Screen => shown' = shown \o pieces /\ subs' = subs
         /\ place # Screen => shown' = shown
         /\ \A k \in DOMAIN subs :
              /\ subs'[k].buffer = subs[k].buffer
              /\ subs'[k].writing = subs[k].writing /\ subs'[k].reading = subs[k].reading
              /\ subs'[k].data = IF k = place THEN subs[k].data \o pieces ELSE subs[k].data
<1>1. subs \in Seq(Streams) /\ shown \in Seq(Nat) /\ Screen \notin DOMAIN subs
  BY MeantType DEF TypeOK
<1>2. CASE place = Screen
  <2>1. shown' = shown \o pieces /\ subs' = subs
    BY <1>1, <1>2 DEF Deliver
  <2>2. shown \o pieces \in Seq(Nat)
    BY <1>1
  <2> QED BY <1>1, <1>2, <2>1, <2>2
<1>3. CASE place # Screen
  <2> DEFINE s == subs[place]
             t == [s EXCEPT !.data = s.data \o pieces]
  <2>1. place \in DOMAIN subs /\ s \in Streams /\ s.data \in Seq(Nat)
    <3>1. place \in DOMAIN subs /\ s \in Streams
      BY <1>1, <1>3
    <3> HIDE DEF s
    <3> QED BY <3>1 DEF Streams
  <2>2. subs' = [subs EXCEPT ![place] = t] /\ shown' = shown
    BY <1>3, <2>1 DEF Deliver
  <2>3. s.data \o pieces \in Seq(Nat)
    BY <2>1
  <2> HIDE DEF s
  <2>4. /\ t \in Streams /\ t.buffer = s.buffer /\ t.data = s.data \o pieces
        /\ t.writing = s.writing /\ t.reading = s.reading
    BY <2>1, <2>3 DEF Streams
  <2> HIDE DEF t
  <2>5. /\ subs' \in Seq(Streams) /\ Len(subs') = Len(subs) /\ DOMAIN subs' = DOMAIN subs
        /\ subs'[place] = t
        /\ \A k \in DOMAIN subs : k # place => subs'[k] = subs[k]
    BY <1>1, <2>1, <2>2, <2>4, Updated
  <2> QED BY <1>1, <1>3, <2>2, <2>4, <2>5 DEF s
<1> QED BY <1>2, <1>3

LEMMA WriteOK ==
  ASSUME Sound, NEW flushes \in BOOLEAN, Write(flushes)
  PROVE  Sound'
<1> DEFINE written == Append(outbuf, count')
<1>0. /\ pc = "script" /\ fd1 = Screen /\ TypeOK /\ Piece
      /\ meant' = [meant EXCEPT ![Screen] = meant[Screen] \cup {count'}]
      /\ UNCHANGED <<fd1, to_close, output_handlers, child, pc, pending>>
  BY DEF Write, Sound, Belongs, Piece
<1>1. count' = count + 1 /\ count \in Nat /\ count' \in Nat /\ count <= count' /\ count' \notin pending
  BY <1>0, PieceFacts DEF Sound, TypeOK
<1>2. outbuf \in Seq(Nat) /\ shown \in Seq(Nat) /\ << >> \in Seq(Nat)
  BY <1>0 DEF TypeOK
<1>3. written \in Seq(Nat) /\ Range(written) = Range(outbuf) \cup {count'}
  BY <1>1, <1>2, RangeAppend
<1>4. /\ child = None /\ child' = None
      /\ \A place : Unflushed(place) = << >> /\ Unflushed(place)' = << >>
  BY <1>0, Quiet DEF Unflushed
<1>5. \/ outbuf' = written /\ subs' = subs /\ shown' = shown
      \/ outbuf' = << >> /\ subs' = subs /\ shown' = shown \o written
  <2>1. CASE flushes
    <3>1. outbuf' = << >> /\ Deliver(Screen, written)
      BY <1>0, <2>1 DEF Write
    <3> HIDE DEF written
    <3> QED BY <1>0, <1>3, <3>1, Delivered
  <2>2. CASE ~flushes
    BY <2>2 DEF Write
  <2> QED BY <2>1, <2>2
<1>6. /\ meant' \in [0 .. MaxLevels -> SUBSET Nat]
      /\ meant'[Screen] = meant[Screen] \cup {count'}
      /\ \A k \in 0 .. MaxLevels : k # Screen => meant'[k] = meant[k]
  <2>1. Screen \in 0 .. MaxLevels /\ {count'} \in SUBSET Nat
    BY <1>0, <1>1, MeantType
  <2> QED BY <1>0, <2>1, MeantMore
<1>7. \A p \in Range(shown) \cup Range(outbuf) : p \in Nat /\ p < count'
  <2>1. UpTo(count, Range(shown) \cup Range(outbuf))
    BY DEF Sound, Numbered, InBuffers, UpTo
  <2> QED BY <1>1, <1>2, <2>1, RangeType DEF UpTo
<1>8. Holds(shown, << >>, written, meant'[Screen], pending)
  <2>1. Holds(shown, << >>, outbuf, meant[Screen], pending)
    BY <1>4 DEF Sound, Terminal
  <2>2. \A p \in Range(shown) \cup Range(<< >>) \cup Range(outbuf) : p < count'
    BY <1>7, RangeEmpty
  <2>3. Holds(shown, << >>, Append(outbuf, count'), meant[Screen] \cup {count'}, pending)
    BY <1>1, <1>2, <2>1, <2>2, HoldsAppend
  <2> QED BY <1>6, <2>3
<1> HIDE DEF written
<1>9. /\ outbuf' \in Seq(Nat) /\ shown' \in Seq(Nat)
      /\ Range(outbuf') \cup Range(shown') = Range(outbuf) \cup Range(shown) \cup {count'}
  <2>1. shown \o written \in Seq(Nat) /\ Range(shown \o written) = Range(shown) \cup Range(written)
    BY <1>2, <1>3, RangeConcat
  <2> QED BY <1>2, <1>3, <1>5, <2>1, RangeEmpty
<1>10. Terminal'
  <2>1. Holds(shown, written, << >>, meant'[Screen], pending)
    BY <1>8, HoldsSwapped
  <2>2. Holds(shown \o written, << >>, << >>, meant'[Screen], pending)
    <3>1. written = written \o << >>
      BY <1>3
    <3> QED BY <1>2, <1>3, <2>1, <3>1, HoldsMoved
  <2> QED BY <1>0, <1>4, <1>5, <1>8, <2>2 DEF Terminal
<1>11. Texts'
  <2>1. \A k \in DOMAIN subs : meant'[k] = meant[k]
    BY <1>0, <1>6, MeantType
  <2>2. \A k \in 0 .. MaxLevels : k > Level => meant'[k] = {}
    <3>1. Level \in Nat
      BY <1>0 DEF TypeOK, Level
    <3> QED BY <1>6, <3>1 DEF Sound, Texts, Screen
  <2>3. subs' = subs /\ Level' = Level
    BY <1>5 DEF Level
  <2> QED BY <1>0, <1>4, <2>1, <2>2, <2>3 DEF Sound, Texts
<1>12. Numbered'
  <2>1. /\ UpTo(count', Range(shown) \cup InBuffers \cup pending)
        /\ \A k \in DOMAIN subs : UpTo(count', Range(subs[k].buffer) \cup Range(subs[k].data))
    BY <1>0, <1>1, StillNumbered DEF Sound
  <2>2. InBuffers' = Range(outbuf')
    BY <1>4 DEF InBuffers
  <2>3. UpTo(count', Range(shown') \cup InBuffers' \cup pending)
    BY <1>1, <1>9, <2>1, <2>2 DEF UpTo, InBuffers
  <2> QED BY <1>0, <1>5, <2>1, <2>3 DEF Numbered
<1>13. Doubtful'
  BY <1>4 DEF Doubtful
<1>14. Pipes'
  BY <1>0, <1>5, PipesSame DEF Sound
<1>15. TypeOK'
  BY <1>0, <1>1, <1>5, <1>6, <1>9 DEF TypeOK, Level
<1> QED BY <1>0, <1>10, <1>11, <1>12, <1>13, <1>14, <1>15 DEF Sound

LEMMA WriteTextOK ==
  ASSUME Sound, WriteText
  PROVE  Sound'
<1> DEFINE s == subs[Level]
           t == [s EXCEPT !.buffer = Append(s.buffer, count')]
<1>0. /\ pc = "script" /\ fd1 = Screen /\ TypeOK /\ Piece /\ subs # << >>
      /\ meant' = [meant EXCEPT ![Level] = meant[Level] \cup {count'}]
      /\ subs' = [subs EXCEPT ![Level] = t]
      /\ UNCHANGED <<outbuf, shown, fd1, to_close, output_handlers, child, pc, pending>>
  BY DEF WriteText, Sound, Belongs, Piece
<1>1. count' = count + 1 /\ count \in Nat /\ count' \in Nat /\ count <= count' /\ count' \notin pending
  BY <1>0, PieceFacts DEF Sound, TypeOK
<1>2. /\ Level \in DOMAIN subs /\ Level \in Nat \ {0} /\ Level \in 0 .. MaxLevels
      /\ s \in Streams /\ s.buffer \in Seq(Nat)
  BY <1>0, LevelIn, MeantType DEF Streams
<1>3. Append(s.buffer, count') \in Seq(Nat) /\ Range(Append(s.buffer, count')) = Range(s.buffer) \cup {count'}
  BY <1>1, <1>2, RangeAppend
<1>4. /\ meant' \in [0 .. MaxLevels -> SUBSET Nat]
      /\ meant'[Level] = meant[Level] \cup {count'}
      /\ \A k \in 0 .. MaxLevels : k # Level => meant'[k] = meant[k]
  <2>1. {count'} \in SUBSET Nat
    BY <1>1
  <2> QED BY <1>0, <1>2, <2>1, MeantMore
<1>5. s.data = << >> /\ \A k \in DOMAIN subs : Closed(subs[k])
  BY <1>0, <1>2, Quiet DEF Closed
<1>6. /\ child = None /\ child' = None
      /\ \A place : Unflushed(place) = << >> /\ Unflushed(place)' = << >>
  BY <1>0, Quiet DEF Unflushed
<1> HIDE DEF s
<1>7. /\ t \in Streams /\ t.buffer = Append(s.buffer, count')
      /\ t.data = << >> /\ t.writing = s.writing /\ t.reading = s.reading
  BY <1>2, <1>3, <1>5 DEF Streams
<1> HIDE DEF t
<1>8. /\ subs' \in Seq(Streams) /\ Len(subs') = Len(subs) /\ DOMAIN subs' = DOMAIN subs
      /\ subs'[Level] = t
      /\ \A k \in DOMAIN subs : k # Level => subs'[k] = subs[k]
  BY <1>0, <1>2, <1>7, Updated DEF TypeOK
<1>9. Level' = Level
  BY <1>8 DEF Level
<1>10. TypeOK'
  BY <1>0, <1>1, <1>4, <1>8, <1>9 DEF TypeOK
<1>11. Pipes'
  <2>1. \A k \in DOMAIN subs' : Closed(subs'[k])
    BY <1>5, <1>7, <1>8, <1>2 DEF Closed, s
  <2>2. ~Reading' /\ ~Writing'
    BY <2>1, <1>2, <1>8, <1>9 DEF Reading, Writing, Closed
  <2> QED BY <1>0, <2>1, <2>2, Quiet DEF Pipes
<1>12. Numbered'
  <2>1. /\ UpTo(count', Range(shown) \cup InBuffers \cup pending)
        /\ \A k \in DOMAIN subs : UpTo(count', Range(subs[k].buffer) \cup Range(subs[k].data))
    BY <1>0, <1>1, StillNumbered DEF Sound
  <2>2. InBuffers' = InBuffers
    BY <1>0 DEF InBuffers
  <2>3. UpTo(count', Range(t.buffer) \cup Range(t.data))
    BY <1>1, <1>2, <1>3, <1>5, <1>7, <2>1 DEF UpTo, s
  <2> QED BY <1>0, <1>8, <2>1, <2>2, <2>3 DEF Numbered
<1>13. Doubtful'
  BY <1>6 DEF Doubtful
<1>14. Terminal'
  <2>1. meant'[Screen] = meant[Screen]
    BY <1>0, <1>2, <1>4, MeantType DEF Screen
  <2> QED BY <1>0, <1>6, <2>1 DEF Sound, Terminal
<1>15. Texts'
  <2>1. Holds(t.buffer, t.data, << >>, meant'[Level], pending)
    <3>1. Holds(s.buffer, << >>, << >>, meant[Level], pending)
      BY <1>2, <1>5, <1>6 DEF Sound, Texts, s
    <3>2. \A p \in Range(s.buffer) \cup Range(<< >>) \cup Range(<< >>) : p < count'
      <4>1. UpTo(count, Range(s.buffer)) /\ Range(s.buffer) \subseteq Nat
        BY <1>2, RangeType DEF Sound, Numbered, UpTo, s
      <4> QED BY <1>1, <4>1, RangeEmpty DEF UpTo
    <3>3. << >> \in Seq(Nat) /\ Range(<< >>) \cup Range(<< >>) \subseteq pending
      BY RangeEmpty
    <3>4. Holds(Append(s.buffer, count'), << >>, << >>, meant[Level] \cup {count'}, pending)
      BY <1>1, <1>2, <3>1, <3>2, <3>3, HoldsAppend
    <3> QED BY <1>4, <1>7, <3>4
  <2>2. \A k \in DOMAIN subs : k # Level => meant'[k] = meant[k]
    BY <1>0, <1>4, MeantType
  <2>3. \A k \in 0 .. MaxLevels : k > Level => meant'[k] = {}
    BY <1>2, <1>4 DEF Sound, Texts
  <2> QED BY <1>0, <1>6, <1>8, <1>9, <2>1, <2>2, <2>3 DEF Sound, Texts
<1> QED BY <1>0, <1>10, <1>11, <1>12, <1>13, <1>14, <1>15 DEF Sound

-----------------------------------------------------------------------------
\* Starting a child.

LEMMA Opened ==
  ASSUME Sound, pc = "script", OpenPipe
  PROVE  /\ subs' \in Seq(Streams) /\ Len(subs') = Len(subs) /\ DOMAIN subs' = DOMAIN subs
         /\ Level' = Level
         /\ \A k \in DOMAIN subs :
              /\ subs'[k].buffer = subs[k].buffer /\ subs'[k].data = subs[k].data
              /\ k # Level \/ ~Reading' => Closed(subs'[k])
         /\ output_handlers' = IF Reading' THEN <<Level>> ELSE << >>
         /\ to_close' = IF Writing' THEN <<Level>> ELSE << >>
         /\ Redirected(subs') = Innermost'
<1>1. /\ subs \in Seq(Streams) /\ fd1 = Screen
      /\ ~Writing /\ ~Reading /\ to_close = << >> /\ output_handlers = << >>
      /\ \A k \in DOMAIN subs : Closed(subs[k])
  BY Quiet DEF Sound, TypeOK
<1>2. CASE UNCHANGED <<subs, to_close, output_handlers>>
  <2>1. ~Writing' /\ ~Reading' /\ Level' = Level
    BY <1>1, <1>2 DEF Writing, Reading, Level
  <2>2. Redirected(subs') = Innermost'
    <3>1. CASE subs = << >>
      <4>1. Len(subs) = 0
        BY <3>1
      <4> QED BY <1>1, <1>2, <3>1, <4>1 DEF Redirected, Innermost, Screen
    <3>2. CASE subs # << >>
      <4>1. Closed(subs[Level])
        BY <1>1, <3>2, LevelIn DEF Sound
      <4> QED BY <1>1, <1>2, <3>2, <4>1 DEF Redirected, Innermost, Closed, Level
    <3> QED BY <3>1, <3>2
  <2> QED BY <1>1, <1>2, <2>1, <2>2
<1>3. CASE ~UNCHANGED <<subs, to_close, output_handlers>>
  <2> DEFINE s == subs[Level]
             t == [s EXCEPT !.writing = TRUE, !.reading = TRUE]
  <2>0. /\ subs # << >> /\ subs' = [subs EXCEPT ![Level] = t]
        /\ to_close' = Append(to_close, Level)
        /\ output_handlers' = Append(output_handlers, Level)
    BY <1>3 DEF OpenPipe
  <2>1. Level \in DOMAIN subs /\ Level # Screen /\ s \in Streams
    BY <2>0, LevelIn DEF Sound, Screen
  <2>2. t \in Streams
    <3> HIDE DEF s
    <3> QED BY <2>1 DEF Streams
  <2>3. /\ t.buffer = s.buffer /\ t.data = s.data /\ t.writing /\ t.reading
    BY <2>1 DEF Streams
  <2> HIDE DEF s, t
  <2>5. /\ subs' \in Seq(Streams) /\ Len(subs') = Len(subs) /\ DOMAIN subs' = DOMAIN subs
        /\ subs'[Level] = t
        /\ \A k \in DOMAIN subs : k # Level => subs'[k] = subs[k]
    BY <1>1, <2>0, <2>1, <2>2, Updated
  <2>6. to_close' = <<Level>> /\ output_handlers' = <<Level>>
    BY <1>1, <2>0
  <2>7. Level' = Level /\ subs' # << >>
    BY <2>1, <2>5 DEF Level
  <2>8. Writing' /\ Reading'
    BY <2>3, <2>5, <2>7 DEF Writing, Reading
  <2>9. Redirected(subs') = Level /\ Innermost' = Level
    BY <2>1, <2>3, <2>5, <2>7 DEF Redirected, Innermost, Level
  <2>10. ASSUME NEW k \in DOMAIN subs
        PROVE  /\ subs'[k].buffer = subs[k].buffer /\ subs'[k].data = subs[k].data
               /\ k # Level => Closed(subs'[k])
    BY <1>1, <2>3, <2>5 DEF s
  <2> QED BY <2>5, <2>6, <2>7, <2>8, <2>9, <2>10
<1> QED BY <1>2, <1>3

\* A child may have a copy of the buffer of cout.
LEMMA PiecesCopied ==
  ASSUME Sound, pc = "script",
         DOMAIN subs' = DOMAIN subs, Level' = Level,
         \A k \in DOMAIN subs :
           subs'[k].buffer = subs[k].buffer /\ subs'[k].data = subs[k].data,
         UNCHANGED <<outbuf, shown, count, meant>>,
         pending' \in {pending, pending \cup Range(outbuf)},
         \/ child' = None
         \/ /\ child' \in Children /\ child'.pc = "running"
            /\ child'.buf \in {<< >>, outbuf}
            /\ child'.kind = "binary" => child'.buf = << >>
            /\ pending' = pending \cup Range(outbuf)
  PROVE  Numbered' /\ Doubtful' /\ Terminal' /\ Texts'
<1>1. /\ child = None /\ Range(<< >>) = {} /\ InBuffers = Range(outbuf)
      /\ \A place : Unflushed(place) = << >>
  BY Quiet, RangeEmpty DEF InBuffers
<1>2. /\ \A place : Range(Unflushed(place)') \subseteq pending'
      /\ InBuffers' = Range(outbuf)
  BY <1>1 DEF Unflushed, InBuffers
<1>3. Numbered'
  <2>1. UpTo(count, Range(shown) \cup InBuffers \cup pending')
    BY <1>1 DEF Sound, Numbered, UpTo
  <2> QED BY <1>1, <1>2, <2>1 DEF Sound, Numbered
<1>4. Doubtful'
  <2>1. child' # None => Range(outbuf) \subseteq pending'
    OBVIOUS
  <2>2. child' # None /\ (child'.kind = "binary" \/ child'.pc = "done") => child'.buf = << >>
    OBVIOUS
  <2> QED BY <2>1, <2>2 DEF Doubtful
<1>5. Terminal'
  <2>1. Holds(shown, << >>, outbuf, meant[Screen], pending')
    BY <1>1, HoldsMore DEF Sound, Terminal
  <2>2. Range(<< >>) \subseteq pending'
    BY <1>1
  <2>3. Holds(shown, Unflushed(Screen)', outbuf, meant[Screen], pending')
    BY <1>2, <2>1, <2>2, HoldsExcepted
  <2> QED BY <2>3 DEF Terminal
<1>6. Texts'
  <2>1. ASSUME NEW k \in DOMAIN subs
        PROVE  Holds(subs'[k].buffer, subs'[k].data, Unflushed(k)', meant[k], pending')
    <3>1. Holds(subs[k].buffer, subs[k].data, << >>, meant[k], pending)
      BY <1>1 DEF Sound, Texts
    <3>2. Holds(subs[k].buffer, subs[k].data, << >>, meant[k], pending')
      BY <3>1, HoldsMore
    <3>3. Range(<< >>) \subseteq pending'
      BY <1>1
    <3> QED BY <1>2, <3>2, <3>3, HoldsExcepted
  <2> QED BY <2>1 DEF Sound, Texts
<1> QED BY <1>3, <1>4, <1>5, <1>6

LEMMA RunBinaryOK ==
  ASSUME Sound, NEW kind \in {"binary", "missing"}, NEW n \in Nat, RunBinary(kind, n)
  PROVE  Sound'
<1>1. /\ pc = "script" /\ OpenPipe /\ pc' = "wait"
      /\ child' = Child(kind, Redirected(subs'), subs', n)
      /\ pending' = pending \cup Range(outbuf)
      /\ UNCHANGED <<outbuf, shown, fd1, count, meant>>
  BY DEF RunBinary, Try
<1>2. fd1 = Screen /\ TypeOK
  BY DEF Sound
<1>3. /\ subs' \in Seq(Streams) /\ Len(subs') = Len(subs) /\ DOMAIN subs' = DOMAIN subs
      /\ Level' = Level /\ Redirected(subs') = Innermost'
      /\ \A k \in DOMAIN subs :
           subs'[k].buffer = subs[k].buffer /\ subs'[k].data = subs[k].data
      /\ \A k \in DOMAIN subs : k # Level \/ ~Reading' => Closed(subs'[k])
      /\ output_handlers' = IF Reading' THEN <<Level>> ELSE << >>
      /\ to_close' = IF Writing' THEN <<Level>> ELSE << >>
  BY <1>1, Opened
<1>4. Level \in Nat /\ Innermost' = (IF Reading' THEN Level ELSE Screen) /\ Innermost' \in Int
  BY <1>2, <1>3 DEF TypeOK, Level, Innermost, Reading, Screen
<1>5. /\ child' \in Children /\ child'.kind = kind /\ child'.fd1 = Innermost'
      /\ child'.buf = (IF kind = "binary" THEN << >> ELSE outbuf)
      /\ Innermost' \in child'.holds /\ child'.pc = "running"
  <2>1. child' = Child(kind, Innermost', subs', n)
    BY <1>1, <1>3
  <2>2. child' \in Children
    BY <1>2, <1>3, <1>4, <2>1, ChildType
  <2> QED BY <2>1, <2>2 DEF Child
<1>6. TypeOK'
  <2>1. Range(outbuf) \subseteq Nat
    BY <1>2, RangeType DEF TypeOK
  <2>2. to_close' \in Seq(Int) /\ output_handlers' \in Seq(Int)
    BY <1>3, <1>4
  <2> QED BY <1>1, <1>2, <1>3, <1>5, <2>1, <2>2 DEF TypeOK
<1>7. Pipes'
  BY <1>1, <1>3, <1>4, <1>5 DEF Pipes
<1>8. Numbered' /\ Doubtful' /\ Terminal' /\ Texts'
  BY <1>1, <1>3, <1>5, PiecesCopied
<1> QED BY <1>1, <1>2, <1>6, <1>7, <1>8 DEF Sound

LEMMA RunForkOK ==
  ASSUME Sound, NEW n \in Nat, RunFork(n)
  PROVE  Sound'
<1>1. /\ pc = "script" /\ pc' = "wait"
      /\ child' = Child("fork", fd1, subs, n)
      /\ pending' = pending \cup Range(outbuf)
      /\ UNCHANGED <<subs, outbuf, shown, fd1, to_close, output_handlers, count, meant>>
  BY DEF RunFork, Try
<1>2. fd1 = Screen /\ Screen = 0 /\ TypeOK
  BY DEF Sound, Screen
<1>3. /\ child' \in Children /\ child'.kind = "fork" /\ child'.fd1 = Screen
      /\ child'.buf = outbuf /\ child'.pc = "running"
  <2>1. subs \in Seq(Streams)
    BY <1>2 DEF TypeOK
  <2>2. child' \in Children
    BY <1>1, <1>2, <2>1, ChildType
  <2> QED BY <1>1, <1>2, <2>2 DEF Child
<1>4. Level' = Level /\ ~Reading /\ ~Reading' /\ Innermost' = Screen
  BY <1>1, Quiet DEF Level, Reading, Innermost
<1>5. TypeOK'
  <2>1. Range(outbuf) \subseteq Nat
    BY <1>2, RangeType DEF TypeOK
  <2> QED BY <1>1, <1>2, <1>3, <1>4, <2>1 DEF TypeOK
<1>6. Pipes'
  BY <1>1, <1>3, <1>4, Quiet DEF Pipes, Writing
<1>7. Numbered' /\ Doubtful' /\ Terminal' /\ Texts'
  BY <1>1, <1>3, <1>4, PiecesCopied
<1> QED BY <1>1, <1>2, <1>5, <1>6, <1>7 DEF Sound

LEMMA ForkFailsOK ==
  ASSUME Sound, ForkFails
  PROVE  Sound'
<1>1. /\ pc = "script" /\ OpenPipe /\ pc' = "wait"
      /\ UNCHANGED <<outbuf, shown, fd1, child, count, meant, pending>>
  BY DEF ForkFails, Try, ghostVars
<1>2. fd1 = Screen /\ TypeOK
  BY DEF Sound
<1>3. /\ subs' \in Seq(Streams) /\ Len(subs') = Len(subs) /\ DOMAIN subs' = DOMAIN subs
      /\ Level' = Level /\ child' = None
      /\ \A k \in DOMAIN subs :
           subs'[k].buffer = subs[k].buffer /\ subs'[k].data = subs[k].data
      /\ \A k \in DOMAIN subs : k # Level \/ ~Reading' => Closed(subs'[k])
      /\ output_handlers' = IF Reading' THEN <<Level>> ELSE << >>
      /\ to_close' = IF Writing' THEN <<Level>> ELSE << >>
  BY <1>1, Opened, Quiet
<1>4. TypeOK'
  <2>1. Level \in Int
    BY <1>2 DEF TypeOK, Level
  <2> QED BY <1>1, <1>2, <1>3, <2>1 DEF TypeOK
<1>5. Pipes'
  BY <1>1, <1>3 DEF Pipes
<1>6. Numbered' /\ Doubtful' /\ Terminal' /\ Texts'
  BY <1>1, <1>3, PiecesCopied
<1> QED BY <1>1, <1>2, <1>4, <1>5, <1>6 DEF Sound

\* Its output stays where it was only if there was no pipe to redirect it to.
LEMMA ExecFailsOK ==
  ASSUME Sound, ExecFails, fd1' = Screen
  PROVE  Sound'
<1>1. /\ pc = "script" /\ OpenPipe /\ fd1' = Redirected(subs')
      /\ UNCHANGED <<outbuf, shown, child, pc, count, meant, pending>>
  BY DEF ExecFails, Try, ghostVars
<1>2. /\ ~(subs # << >> /\ subs[Level].writing)
      /\ subs \in Seq(Streams) /\ fd1 = Screen
  BY <1>1, Quiet DEF Sound, TypeOK, Writing
<1>3. UNCHANGED <<subs, to_close, output_handlers, fd1>>
  <2>1. /\ subs' \in Seq(Streams) /\ Len(subs') = Len(subs) /\ Level' = Level
        /\ Redirected(subs') = Innermost'
    BY <1>1, Opened
  <2>2. ~Reading'
    <3>1. subs # << >> => Level # Screen
      BY LevelIn DEF Sound, Screen
    <3> QED BY <1>1, <2>1, <3>1 DEF Innermost, Reading
  <2>3. CASE UNCHANGED <<subs, to_close, output_handlers>>
    BY <1>1, <1>2, <2>3
  <2>4. CASE /\ subs # << >>
             /\ subs' = [subs EXCEPT ![Level] = [subs[Level] EXCEPT !.writing = TRUE,
                                                                    !.reading = TRUE]]
    <3> DEFINE s == subs[Level]
               t == [s EXCEPT !.writing = TRUE, !.reading = TRUE]
    <3>1. s \in Streams /\ Level \in DOMAIN subs /\ subs' = [subs EXCEPT ![Level] = t]
      BY <2>4, LevelIn DEF Sound
    <3> HIDE DEF s
    <3>2. t \in Streams /\ t.reading
      BY <3>1 DEF Streams
    <3> HIDE DEF t
    <3>3. subs'[Level] = t
      BY <1>2, <3>1, <3>2, Updated
    <3>4. subs' # << >>
      BY <1>2, <2>1, <2>4
    <3> QED BY <2>1, <2>2, <3>2, <3>3, <3>4 DEF Reading
  <2> QED BY <1>1, <2>3, <2>4 DEF OpenPipe
<1> QED BY <1>1, <1>3, PipesSame, PiecesSame DEF Sound, TypeOK, Level

LEMMA ExecSucceedsOK ==
  ASSUME Sound, ExecSucceeds
  PROVE  Sound'
<1>1. /\ pc = "script" /\ pc' = "replaced" /\ pending' = pending \cup Range(outbuf)
      /\ UNCHANGED <<subs, outbuf, shown, fd1, to_close, output_handlers, child, count,
                     meant>>
  BY DEF ExecSucceeds, Try
<1>2. TypeOK'
  <2>1. Range(outbuf) \subseteq Nat
    BY RangeType DEF Sound, TypeOK
  <2> QED BY <1>1, <2>1 DEF Sound, TypeOK, Level
<1>3. Pipes'
  BY <1>1, Quiet DEF Pipes, Reading, Writing, Level
<1>4. Level' = Level /\ child' = None
  BY <1>1, Quiet DEF Level
<1>5. Numbered' /\ Doubtful' /\ Terminal' /\ Texts'
  BY <1>1, <1>4, PiecesCopied
<1> QED BY <1>1, <1>2, <1>3, <1>5 DEF Sound

-----------------------------------------------------------------------------
\* Waiting.

LEMMA MappedType ==
  ASSUME NEW S, NEW s \in Seq(S), NEW t, t = [k \in DOMAIN s |-> t[k]],
         \A k \in DOMAIN s : t[k] \in S
  PROVE  t \in Seq(S) /\ Len(t) = Len(s) /\ DOMAIN t = DOMAIN s
OBVIOUS

LEMMA CloseEndsOK ==
  ASSUME Sound, CloseEnds
  PROVE  Sound'
<1>1. /\ pc = "wait" /\ pc' = "copy" /\ to_close' = << >>
      /\ subs' = [k \in DOMAIN subs |->
                    IF k \in Range(to_close) THEN [subs[k] EXCEPT !.writing = FALSE]
                    ELSE subs[k]]
      /\ UNCHANGED <<outbuf, shown, fd1, output_handlers, child, count, meant, pending>>
  BY DEF CloseEnds, ghostVars
<1>2. subs \in Seq(Streams) /\ TypeOK
  BY DEF Sound, TypeOK
<1>3. ASSUME NEW k \in DOMAIN subs
      PROVE  /\ subs'[k] \in Streams
             /\ subs'[k].buffer = subs[k].buffer /\ subs'[k].data = subs[k].data
             /\ subs'[k].reading = subs[k].reading
             /\ subs'[k].writing = IF k \in Range(to_close) THEN FALSE ELSE subs[k].writing
  <2>1. subs[k] \in Streams
    BY <1>2
  <2>2. CASE k \in Range(to_close)
    <3>1. subs'[k] = [subs[k] EXCEPT !.writing = FALSE]
      BY <1>1, <2>2
    <3> QED BY <2>1, <2>2, <3>1 DEF Streams
  <2>3. CASE k \notin Range(to_close)
    <3>1. subs'[k] = subs[k]
      BY <1>1, <2>3
    <3> QED BY <2>1, <2>3, <3>1
  <2> QED BY <2>2, <2>3
<1>4. subs' \in Seq(Streams) /\ Len(subs') = Len(subs) /\ DOMAIN subs' = DOMAIN subs
  BY <1>1, <1>2, <1>3, MappedType
<1>5. TypeOK'
  BY <1>1, <1>2, <1>4 DEF TypeOK, Level
<1>6. Pipes'
  <2>1. Level' = Level /\ (subs' = << >> <=> subs = << >>)
    BY <1>2, <1>4 DEF Level
  <2>2. Reading' <=> Reading
    BY <1>2, <1>3, <2>1, LevelIn DEF Reading
  <2>3. Writing => Level \in Range(to_close)
    <3>1. Writing => to_close = <<Level>>
      BY DEF Sound, Pipes
    <3>2. Level \in Range(<<Level>>)
      BY DEF Range
    <3> QED BY <3>1, <3>2
  <2>4. ~Writing'
    BY <1>2, <1>3, <2>1, <2>3, LevelIn DEF Writing
  <2>5. ASSUME NEW k \in DOMAIN subs', k # Level \/ ~Reading
        PROVE  Closed(subs'[k])
    <3>1. Closed(subs[k])
      BY <1>4, <2>5 DEF Sound, Pipes
    <3> QED BY <1>3, <1>4, <3>1 DEF Closed
  <2>6. Innermost' = Innermost
    BY <2>1, <2>2 DEF Innermost, Reading
  <2> QED BY <1>1, <2>1, <2>2, <2>4, <2>5, <2>6 DEF Sound, Pipes
<1>7. Numbered'
  BY <1>1, <1>3, <1>4 DEF Sound, Numbered, InBuffers
<1>8. Doubtful'
  BY <1>1 DEF Sound, Doubtful
<1>9. Terminal'
  BY <1>1 DEF Sound, Terminal, Unflushed
<1>10. Texts'
  BY <1>1, <1>3, <1>4 DEF Sound, Texts, Unflushed, Level
<1> QED BY <1>1, <1>5, <1>6, <1>7, <1>8, <1>9, <1>10 DEF Sound

LEMMA CloseGoneOK ==
  ASSUME Sound, CloseGone
  PROVE  Sound'
<1>1. /\ pc' = "undefined"
      /\ UNCHANGED <<subs, outbuf, shown, fd1, to_close, output_handlers, child, count,
                     meant, pending>>
  BY DEF CloseGone, ghostVars
<1>2. Pipes'
  BY <1>1 DEF Sound, Pipes, Reading, Writing, Level, Innermost
<1> QED BY <1>1, <1>2, PiecesSame DEF Sound, TypeOK, Level

LEMMA CopyOK ==
  ASSUME Sound, Copy
  PROVE  Sound'
<1> DEFINE s == subs[Level]
<1>1. /\ pc = "copy"
      /\ UNCHANGED <<outbuf, shown, fd1, to_close, child, pc, count, meant, pending>>
  BY DEF Copy, ghostVars
<1>2. Reading /\ output_handlers = <<Level>> /\ Head(output_handlers) = Level
  <2>1. output_handlers # << >>
    BY DEF Copy
  <2>2. output_handlers = IF Reading THEN <<Level>> ELSE << >>
    BY DEF Sound, Pipes
  <2>3. Reading /\ output_handlers = <<Level>>
    BY <2>1, <2>2
  <2> QED BY <2>3
<1>3. /\ Level \in DOMAIN subs /\ s \in Streams /\ subs \in Seq(Streams) /\ subs # << >>
      /\ s.buffer \in Seq(Nat) /\ s.data \in Seq(Nat) /\ s.reading
  <2>1. Level \in DOMAIN subs /\ s \in Streams /\ subs \in Seq(Streams) /\ subs # << >> /\ s.reading
    BY <1>2, LevelIn DEF Reading, Sound, TypeOK
  <2> HIDE DEF s
  <2> QED BY <2>1 DEF Streams
<1>4. /\ Holds(s.buffer, s.data, Unflushed(Level), meant[Level], pending)
      /\ UpTo(count, Range(s.buffer) \cup Range(s.data))
      /\ \A place : Unflushed(place) \in Seq(Nat)
  BY <1>3, BufferType DEF Sound, Texts, Numbered
\* It is enough to look at that stream.
<1>5. ASSUME NEW t \in Streams, subs' = [subs EXCEPT ![Level] = t], t.writing = s.writing,
             Holds(t.buffer, t.data, Unflushed(Level), meant[Level], pending),
             Range(t.buffer) \cup Range(t.data) = Range(s.buffer) \cup Range(s.data),
             output_handlers' = IF t.reading THEN output_handlers ELSE << >>,
             t.reading \/ (Closed(t) /\ ~(child # None /\ child.pc = "running"
                                       /\ child.fd1 = Level))
      PROVE  Sound'
  <2>1. /\ subs' \in Seq(Streams) /\ Len(subs') = Len(subs) /\ DOMAIN subs' = DOMAIN subs
        /\ subs'[Level] = t /\ \A k \in DOMAIN subs : k # Level => subs'[k] = subs[k]
    BY <1>3, <1>5, Updated
  <2>2. Level' = Level /\ subs' # << >>
    BY <1>3, <2>1 DEF Level
  <2>3. (Reading' <=> t.reading) /\ (Writing' <=> Writing)
    BY <1>3, <1>5, <2>1, <2>2 DEF Reading, Writing
  <2>4. TypeOK'
    BY <1>1, <1>2, <1>5, <2>1, <2>2 DEF Sound, TypeOK
  <2>5. Numbered'
    BY <1>1, <1>4, <1>5, <2>1 DEF Sound, Numbered, InBuffers
  <2>6. Doubtful' /\ Terminal'
    BY <1>1 DEF Sound, Doubtful, Terminal, Unflushed
  <2>7. Texts'
    <3>1. \A place : Unflushed(place)' = Unflushed(place)
      BY <1>1 DEF Unflushed
    <3> QED BY <1>1, <1>5, <2>1, <2>2, <3>1 DEF Sound, Texts
  <2>8. Pipes'
    <3>1. CASE t.reading
      <4>1. Innermost' = Innermost
        BY <1>2, <2>2, <2>3, <3>1 DEF Innermost, Reading
      <4> QED BY <1>1, <1>2, <1>5, <2>1, <2>2, <2>3, <3>1, <4>1 DEF Sound, Pipes
    <3>2. CASE ~t.reading
      <4>1. \A k \in DOMAIN subs' : Closed(subs'[k])
        BY <1>5, <2>1, <3>2 DEF Sound, Pipes
      <4>2. ~(child # None /\ child.pc = "running")
        BY <1>2, <1>5, <3>2 DEF Sound, Pipes, Innermost, Reading
      <4> QED BY <1>1, <1>5, <2>3, <3>2, <4>1, <4>2 DEF Sound, Pipes
    <3> QED BY <3>1, <3>2
  <2> QED BY <1>1, <2>4, <2>5, <2>6, <2>7, <2>8 DEF Sound
<1>6. CASE s.data # << >>
  <2>1. PICK n \in 1 .. Len(s.data) :
          /\ subs' = [subs EXCEPT ![Level] =
                        [s EXCEPT !.buffer = s.buffer \o SubSeq(s.data, 1, n),
                                  !.data = SubSeq(s.data, n + 1, Len(s.data))]]
          /\ output_handlers' = Append(Tail(output_handlers), Level)
    BY <1>2, <1>6 DEF Copy
  <2> DEFINE a == SubSeq(s.data, 1, n)
             b == SubSeq(s.data, n + 1, Len(s.data))
             t == [s EXCEPT !.buffer = s.buffer \o a, !.data = b]
  <2>2. a \in Seq(Nat) /\ b \in Seq(Nat) /\ s.data = a \o b
    BY <1>3, SplitAt
  <2>3. subs' = [subs EXCEPT ![Level] = t]
    BY <2>1
  <2>4. output_handlers' = output_handlers
    BY <1>2, <2>1
  <2> HIDE DEF s, a, b
  <2>5. s.buffer \o a \in Seq(Nat) /\ Range(s.buffer \o a) = Range(s.buffer) \cup Range(a)
        /\ Range(s.data) = Range(a) \cup Range(b)
    BY <1>3, <2>2, RangeConcat
  <2>6. /\ t \in Streams /\ t.buffer = s.buffer \o a /\ t.data = b
        /\ t.writing = s.writing /\ t.reading
    BY <1>3, <2>2, <2>5 DEF Streams
  <2> HIDE DEF t
  <2>7. Holds(t.buffer, t.data, Unflushed(Level), meant[Level], pending)
    <3>1. Holds(s.buffer \o a, b, Unflushed(Level), meant[Level], pending)
      <4>1. Unflushed(Level) \in Seq(Nat)
        BY <1>4
      <4>2. Holds(s.buffer, s.data, Unflushed(Level), meant[Level], pending)
        BY <1>4
      <4> QED BY <1>3, <2>2, <4>1, <4>2, HoldsMoved
    <3> QED BY <2>6, <3>1
  <2> QED BY <1>5, <2>3, <2>4, <2>5, <2>6, <2>7
<1>7. CASE s.data = << >>
  <2> DEFINE t == [s EXCEPT !.reading = FALSE]
  <2>1. /\ ~Writers(Level) /\ subs' = [subs EXCEPT ![Level] = t]
        /\ output_handlers' = Tail(output_handlers)
    BY <1>2, <1>7 DEF Copy
  <2>2. output_handlers' = << >>
    BY <1>2, <2>1
  <2>3. /\ ~s.writing
        /\ ~(child # None /\ child.pc = "running" /\ child.fd1 = Level)
    BY <1>2, <2>1 DEF Writers, Sound, Pipes
  <2> HIDE DEF s
  <2>4. /\ t \in Streams /\ t.buffer = s.buffer /\ t.data = s.data
        /\ t.writing = s.writing /\ ~t.reading /\ Closed(t)
    BY <1>3, <1>7, <2>3 DEF Streams, Closed
  <2> HIDE DEF t
  <2> QED BY <1>4, <1>5, <2>1, <2>2, <2>3, <2>4
<1> QED BY <1>6, <1>7

LEMMA ReapOK ==
  ASSUME Sound, Reap
  PROVE  Sound'
<1>1. /\ pc = "copy" /\ output_handlers = << >> /\ child' = None /\ pc' = "script"
      /\ child # None => child.pc = "done"
      /\ UNCHANGED <<subs, outbuf, shown, fd1, to_close, output_handlers, count, meant,
                     pending>>
  BY DEF Reap, ghostVars
<1>2. \A place : Unflushed(place) = << >> /\ Unflushed(place)' = << >>
  BY <1>1 DEF Sound, Doubtful, Unflushed
<1>3. ~Reading
  BY <1>1 DEF Sound, Pipes
<1>4. TypeOK'
  BY <1>1 DEF Sound, TypeOK, Level
<1>5. Pipes'
  BY <1>1, <1>3 DEF Sound, Pipes, Reading, Writing, Level
<1>6. Numbered'
  BY <1>1 DEF Sound, Numbered, InBuffers, UpTo
<1>7. Doubtful'
  BY <1>1 DEF Doubtful
<1>8. Terminal' /\ Texts'
  BY <1>1, <1>2 DEF Sound, Terminal, Texts, Level
<1> QED BY <1>1, <1>4, <1>5, <1>6, <1>7, <1>8 DEF Sound

-----------------------------------------------------------------------------
\* The child.

\* What is known of a child that runs.
LEMMA ChildFacts ==
  ASSUME Sound, pc # "script", child # None, child.pc = "running"
  PROVE  /\ child \in Children /\ child.buf \in Seq(Nat)
         /\ outbuf \in Seq(Nat) /\ Range(outbuf) \subseteq pending
         /\ child.fd1 = Innermost
         /\ child.fd1 = Screen \/ (child.fd1 = Level /\ Level \in DOMAIN subs /\ Level # Screen)
         /\ child.kind = "binary" => child.buf = << >>
<1>1. child \in Children /\ child.buf \in Seq(Nat) /\ outbuf \in Seq(Nat)
  BY BufferType DEF Sound, TypeOK
<1>2. child.fd1 = Innermost
  BY DEF Sound, Pipes
<1>3. Innermost = Screen \/ (Innermost = Level /\ Level \in DOMAIN subs /\ Level # Screen)
  BY LevelIn DEF Sound, Innermost, Screen
<1> QED BY <1>1, <1>2, <1>3 DEF Sound, Doubtful

\* What a child writes goes through its buffer, if it has one (buf): it still has left
\* what has not gone out (out).
ChildGives(out, left, new) ==
  /\ out \in Seq(Nat) /\ left \in Seq(Nat)
  /\ \/ new = {} /\ out \o left = child.buf
     \/ new = {count'} /\ out \o left = Append(child.buf, count')
  /\ Deliver(child.fd1, out) \/ (out = << >> /\ UNCHANGED <<subs, shown>>)
  /\ child' \in Children /\ child'.buf = left
  /\ child'.pc = child.pc /\ child'.kind = child.kind
  /\ child'.fd1 = child.fd1 /\ child'.holds = child.holds
  /\ child.kind = "binary" => left = << >>
  /\ meant' = [meant EXCEPT ![Innermost] = meant[Innermost] \cup new]
  /\ UNCHANGED <<outbuf, fd1, to_close, output_handlers, pc, pending>>

LEMMA ChildGivesOK ==
  ASSUME Sound, pc # "script", child # None, child.pc = "running",
         count' \in {count, count + 1}, NEW out, NEW left, NEW new, ChildGives(out, left, new),
         new # {} => count' = count + 1
  PROVE  Sound'
<1>1. /\ child \in Children /\ child.buf \in Seq(Nat)
      /\ outbuf \in Seq(Nat) /\ Range(outbuf) \subseteq pending
      /\ child.fd1 = Innermost
      /\ child.fd1 = Screen \/ (child.fd1 = Level /\ Level \in DOMAIN subs /\ Level # Screen)
  BY ChildFacts
<1>2. /\ out \in Seq(Nat) /\ left \in Seq(Nat)
      /\ \/ new = {} /\ out \o left = child.buf
         \/ new = {count'} /\ out \o left = Append(child.buf, count')
      /\ child' \in Children /\ child'.buf = left /\ child' # None
      /\ child'.pc = "running" /\ child'.kind = child.kind
      /\ child'.fd1 = child.fd1 /\ child'.holds = child.holds
      /\ child.kind = "binary" => left = << >>
      /\ UNCHANGED <<outbuf, fd1, to_close, output_handlers, pc, pending>>
  BY NoneAssumption DEF ChildGives
<1>3. /\ count \in Nat /\ count' \in Nat /\ count <= count'
      /\ new # {} => count < count' /\ count' \notin pending
  BY DEF Sound, TypeOK, Numbered, UpTo
<1>4. /\ subs' \in Seq(Streams) /\ Len(subs') = Len(subs) /\ DOMAIN subs' = DOMAIN subs
      /\ shown' \in Seq(Nat)
      /\ child.fd1 = Screen => shown' = shown \o out /\ subs' = subs
      /\ child.fd1 # Screen => shown' = shown
      /\ \A k \in DOMAIN subs :
           /\ subs'[k].buffer = subs[k].buffer
           /\ subs'[k].writing = subs[k].writing /\ subs'[k].reading = subs[k].reading
           /\ subs'[k].data = IF k = child.fd1 THEN subs[k].data \o out ELSE subs[k].data
  <2>1. subs \in Seq(Streams) /\ shown \in Seq(Nat) /\ TypeOK
    BY DEF Sound, TypeOK
  <2>2. CASE Deliver(child.fd1, out)
    <3>1. child.fd1 = Screen \/ child.fd1 \in DOMAIN subs
      BY <1>1
    <3>2. out \in Seq(Nat)
      BY <1>2
    <3> QED BY <2>1, <2>2, <3>1, <3>2, Delivered
  <2>3. CASE out = << >> /\ UNCHANGED <<subs, shown>>
    <3>1. shown \o << >> = shown
      BY <2>1
    <3>2. ASSUME NEW k \in DOMAIN subs PROVE subs[k].data \o << >> = subs[k].data
      <4>1. subs[k] \in Streams
        BY <2>1
      <4>2. subs[k].data \in Seq(Nat)
        BY <4>1 DEF Streams
      <4> QED BY <4>2
    <3> QED BY <2>1, <2>3, <3>1, <3>2
  <2> QED BY <2>2, <2>3 DEF ChildGives
<1>5. /\ Innermost \in 0 .. MaxLevels /\ meant' \in [0 .. MaxLevels -> SUBSET Nat]
      /\ meant'[Innermost] = meant[Innermost] \cup new
      /\ \A k \in 0 .. MaxLevels : k # Innermost => meant'[k] = meant[k]
  <2>1. TypeOK /\ Innermost \in 0 .. MaxLevels /\ new \in SUBSET Nat
    BY <1>2, <1>3, MeantType DEF Sound
  <2>2. meant' = [meant EXCEPT ![Innermost] = meant[Innermost] \cup new]
    BY DEF ChildGives
  <2> QED BY <2>1, <2>2, MeantMore
<1>6. /\ Level' = Level /\ (subs' = << >> <=> subs = << >>)
      /\ (Reading' <=> Reading) /\ (Writing' <=> Writing) /\ Innermost' = Innermost
  <2>1. Level' = Level /\ (subs' = << >> <=> subs = << >>) /\ subs \in Seq(Streams)
    BY <1>4 DEF Level, Sound, TypeOK
  <2>2. subs # << >> => Level \in DOMAIN subs
    BY LevelIn DEF Sound
  <2>3. (Reading' <=> Reading) /\ (Writing' <=> Writing)
    BY <1>4, <2>1, <2>2 DEF Reading, Writing
  <2> QED BY <2>1, <2>3 DEF Innermost, Reading
<1>7. TypeOK'
  BY <1>1, <1>2, <1>3, <1>4, <1>5, <1>6 DEF Sound, TypeOK
<1>8. Pipes'
  <2>1. Reading => child.fd1 = Level
    BY <1>1 DEF Reading, Innermost
  <2>2. ASSUME NEW k \in DOMAIN subs, k # Level \/ ~Reading
        PROVE  Closed(subs'[k])
    <3>1. Closed(subs[k])
      BY <2>2 DEF Sound, Pipes
    <3>2. k # child.fd1
      BY <1>1, <2>2, MeantType DEF Sound, Innermost, Reading
    <3> QED BY <1>4, <3>1, <3>2 DEF Closed
  <2> QED BY <1>1, <1>2, <1>4, <1>6, <2>2 DEF Sound, Pipes
<1>9. Doubtful'
  BY <1>1, <1>2 DEF Sound, Doubtful
<1>10. Range(out) \cup Range(left) = Range(child.buf) \cup new
  <2>1. Range(out \o left) = Range(out) \cup Range(left)
    BY <1>2, RangeConcat
  <2>2. count' \in Nat => Range(Append(child.buf, count')) = Range(child.buf) \cup {count'}
    BY <1>1, RangeAppend
  <2> QED BY <1>2, <1>3, <2>1, <2>2
<1>11. Numbered'
  <2>1. /\ UpTo(count', Range(shown) \cup InBuffers \cup pending)
        /\ \A k \in DOMAIN subs : UpTo(count', Range(subs[k].buffer) \cup Range(subs[k].data))
    BY <1>3, StillNumbered DEF Sound
  <2>2. UpTo(count', Range(out) \cup Range(left))
    BY <1>2, <1>3, <1>10, <2>1 DEF UpTo, InBuffers
  <2>3. UpTo(count', Range(shown') \cup InBuffers' \cup pending')
    <3>1. Range(shown') \subseteq Range(shown) \cup Range(out)
      <4>1. shown \in Seq(Nat) /\ out \in Seq(Nat)
        BY <1>2 DEF Sound, TypeOK
      <4>2. Range(shown \o out) = Range(shown) \cup Range(out)
        BY <4>1, RangeConcat
      <4> QED BY <1>1, <1>4, <4>2
    <3>2. InBuffers' = Range(left) \cup Range(outbuf)
      BY <1>2 DEF InBuffers
    <3> QED BY <1>2, <2>1, <2>2, <3>1, <3>2 DEF UpTo, InBuffers
  <2>4. ASSUME NEW k \in DOMAIN subs
        PROVE  UpTo(count', Range(subs'[k].buffer) \cup Range(subs'[k].data))
    <3>1. subs[k] \in Streams
      BY <2>4 DEF Sound, TypeOK
    <3>2. subs[k].data \in Seq(Nat)
      BY <3>1 DEF Streams
    <3>3. Range(subs'[k].data) \subseteq Range(subs[k].data) \cup Range(out)
      BY <1>2, <1>4, <2>4, <3>2, RangeConcat
    <3> QED BY <1>4, <2>1, <2>2, <2>4, <3>3 DEF UpTo
  <2> QED BY <1>4, <2>3, <2>4 DEF Numbered
<1>12. /\ \A place : place # child.fd1 => Unflushed(place) = << >> /\ Unflushed(place)' = << >>
       /\ \A place : place = child.fd1 => Unflushed(place) = child.buf /\ Unflushed(place)' = left
  BY <1>2 DEF Unflushed
\* The new piece comes last.
<1>13. ASSUME NEW a \in Seq(Nat), NEW b \in Seq(Nat), UpTo(count, Range(a) \cup Range(b))
       PROVE  \A p \in Range(a) \cup Range(b) \cup Range(child.buf) \cup Range(outbuf) :
                new # {} => p < count'
  <2>1. UpTo(count, Range(child.buf) \cup Range(outbuf))
    BY DEF Sound, Numbered, UpTo, InBuffers
  <2>2. Range(a) \cup Range(b) \cup Range(child.buf) \cup Range(outbuf) \subseteq Nat
    BY <1>1, <1>13, RangeType
  <2> QED BY <1>3, <1>13, <2>1, <2>2 DEF UpTo
<1>14. CASE child.fd1 = Screen
  <2>1. Holds(shown, child.buf, outbuf, meant[Screen], pending) /\ shown \in Seq(Nat)
    BY <1>12, <1>14 DEF Sound, Terminal, TypeOK
  <2>2. Holds(shown, out \o left, outbuf, meant'[Screen], pending)
    <3>1. CASE new = {}
      BY <1>1, <1>2, <1>5, <1>14, <2>1, <3>1
    <3>2. CASE new = {count'} /\ out \o left = Append(child.buf, count')
      <4>1. \A p \in Range(shown) \cup Range(child.buf) \cup Range(outbuf) : p < count'
        <5>1. << >> \in Seq(Nat) /\ UpTo(count, Range(shown) \cup Range(<< >>))
          BY RangeEmpty DEF Sound, Numbered, UpTo
        <5> QED BY <1>13, <2>1, <3>2, <5>1
      <4>2. count' \in Nat /\ count' \notin pending
        BY <1>3, <3>2
      <4>3. Holds(shown, Append(child.buf, count'), outbuf, meant[Screen] \cup {count'}, pending)
        BY <1>1, <2>1, <4>1, <4>2, HoldsAppend
      <4> QED BY <1>1, <1>5, <1>14, <3>2, <4>3
    <3> QED BY <1>2, <3>1, <3>2
  <2>3. Holds(shown \o out, left, outbuf, meant'[Screen], pending)
    <3>1. out \o left \in Seq(Nat)
      BY <1>2
    <3> QED BY <1>1, <1>2, <2>1, <2>2, <3>1, HoldsMoved
  <2>4. Terminal'
    <3>1. Unflushed(Screen)' = left
      BY <1>12, <1>14
    <3>2. shown' = shown \o out
      BY <1>4, <1>14
    <3> QED BY <1>2, <2>3, <3>1, <3>2 DEF Terminal
  <2>5. Texts'
    <3>1. \A k \in 1 .. MaxLevels : meant'[k] = meant[k]
      BY <1>1, <1>5, <1>14 DEF Screen
    <3>2. \A k \in DOMAIN subs : k \in 0 .. MaxLevels /\ k # Screen
      BY MeantType DEF Sound
    <3>3. \A k \in 0 .. MaxLevels : k > Level => meant'[k] = {}
      <4>1. Level \in Nat
        BY DEF Sound, TypeOK, Level
      <4> QED BY <3>1, <4>1 DEF Sound, Texts
    <3>4. \A k \in DOMAIN subs : Unflushed(k)' = Unflushed(k) /\ meant'[k] = meant[k]
      BY <1>1, <1>5, <1>12, <1>14, <3>2
    <3> QED BY <1>2, <1>4, <1>6, <1>14, <3>3, <3>4 DEF Sound, Texts
  <2> QED BY <1>2, <1>7, <1>8, <1>9, <1>11, <2>4, <2>5 DEF Sound
<1>15. CASE child.fd1 # Screen
  <2> DEFINE s == subs[Level]
  <2>0. child.fd1 = Level /\ Innermost = Level /\ Level \in DOMAIN subs
    BY <1>1, <1>15
  <2>1. /\ Holds(s.buffer, s.data, child.buf, meant[Level], pending)
        /\ UpTo(count, Range(s.buffer) \cup Range(s.data))
        /\ s.buffer \in Seq(Nat) /\ s.data \in Seq(Nat)
    <3>1. /\ Holds(s.buffer, s.data, child.buf, meant[Level], pending)
          /\ UpTo(count, Range(s.buffer) \cup Range(s.data))
          /\ s \in Streams
      <4>1. Unflushed(Level) = child.buf
        BY <1>12, <2>0
      <4>2. Holds(s.buffer, s.data, Unflushed(Level), meant[Level], pending)
        BY <2>0 DEF Sound, Texts
      <4>3. UpTo(count, Range(s.buffer) \cup Range(s.data))
        BY <2>0 DEF Sound, Numbered
      <4>4. s \in Streams
        BY <2>0 DEF Sound, TypeOK
      <4> QED BY <4>1, <4>2, <4>3, <4>4
    <3> HIDE DEF s
    <3> QED BY <3>1 DEF Streams
  <2> HIDE DEF s
  <2>2. Holds(s.buffer, s.data, out \o left, meant'[Level], pending)
    <3>1. CASE new = {}
      BY <1>2, <1>5, <2>0, <2>1, <3>1
    <3>2. CASE new = {count'} /\ out \o left = Append(child.buf, count')
      <4>1. \A p \in Range(s.buffer) \cup Range(s.data) \cup Range(child.buf) : p < count'
        BY <1>13, <2>1, <3>2
      <4>2. count' \in Nat /\ count' \notin pending
        BY <1>3, <3>2
      <4>3. Holds(s.buffer, s.data, Append(child.buf, count'), meant[Level] \cup {count'}, pending)
        BY <1>1, <2>1, <4>1, <4>2, HoldsAppend
      <4> QED BY <1>5, <2>0, <3>2, <4>3
    <3> QED BY <1>2, <3>1, <3>2
  <2>3. Holds(s.buffer, s.data \o out, left, meant'[Level], pending)
    <3>1. out \o left \in Seq(Nat)
      BY <1>2
    <3> QED BY <1>2, <2>1, <2>2, <3>1, HoldsMoved
  <2>4. Terminal'
    <3>1. Screen \in 0 .. MaxLevels /\ meant'[Screen] = meant[Screen]
      BY <1>5, <1>15, <2>0, MeantType DEF Sound
    <3>2. Unflushed(Screen) = << >> /\ Unflushed(Screen)' = << >>
      BY <1>12, <1>15
    <3> QED BY <1>2, <1>4, <1>15, <3>1, <3>2 DEF Sound, Terminal
  <2>5. Texts'
    <3>1. Level \in Nat /\ \A k \in DOMAIN subs : k \in 0 .. MaxLevels
      BY MeantType DEF Sound, TypeOK, Level
    <3>2. ASSUME NEW k \in DOMAIN subs
          PROVE  Holds(subs'[k].buffer, subs'[k].data, Unflushed(k)', meant'[k], pending)
      <4>1. CASE k = Level
        BY <1>4, <1>12, <2>0, <2>3, <4>1 DEF s
      <4>2. CASE k # Level
        <5>1. /\ meant'[k] = meant[k] /\ Unflushed(k) = << >> /\ Unflushed(k)' = << >>
              /\ subs'[k].buffer = subs[k].buffer /\ subs'[k].data = subs[k].data
          BY <1>4, <1>5, <1>12, <2>0, <3>1, <4>2
        <5> QED BY <5>1 DEF Sound, Texts
      <4> QED BY <4>1, <4>2
    <3>3. \A k \in 0 .. MaxLevels : k > Level => meant'[k] = {}
      BY <1>5, <2>0, <3>1 DEF Sound, Texts
    <3> QED BY <1>2, <1>4, <1>6, <3>2, <3>3 DEF Texts
  <2> QED BY <1>2, <1>7, <1>8, <1>9, <1>11, <2>4, <2>5 DEF Sound
<1> QED BY <1>14, <1>15

LEMMA ChildUpdates ==
  ASSUME NEW c \in Children, NEW b \in Seq(Nat), NEW n \in Nat
  PROVE  /\ [c EXCEPT !.left = n] \in Children
         /\ [c EXCEPT !.left = n, !.buf = b] \in Children
         /\ [c EXCEPT !.buf = b] \in Children
<1>1. [c EXCEPT !.left = n] \in Children /\ [c EXCEPT !.left = n, !.buf = b] \in Children
  BY DEF Children
<1>2. [c EXCEPT !.buf = b] \in Children
  BY DEF Children
<1> QED BY <1>1, <1>2

LEMMA ChildDone ==
  ASSUME NEW c \in Children
  PROVE  /\ [c EXCEPT !.pc = "done", !.holds = {}] \in Children
         /\ [c EXCEPT !.pc = "done", !.holds = {}, !.buf = << >>] \in Children
<1>1. [c EXCEPT !.pc = "done", !.holds = {}] \in Children
  BY DEF Children
<1>2. << >> \in Seq(Nat)
  OBVIOUS
<1>3. [c EXCEPT !.pc = "done", !.holds = {}, !.buf = << >>] \in Children
  BY <1>2 DEF Children
<1> QED BY <1>1, <1>3

LEMMA BinaryWritesOK ==
  ASSUME Sound, BinaryWrites
  PROVE  Sound'
<1>1. /\ pc # "script" /\ child # None /\ child.pc = "running" /\ child.kind = "binary"
      /\ child.left > 0 /\ Piece /\ Deliver(child.fd1, <<count'>>)
      /\ child' = [child EXCEPT !.left = child.left - 1]
      /\ meant' = [meant EXCEPT ![Innermost] = meant[Innermost] \cup {count'}]
      /\ UNCHANGED <<outbuf, fd1, to_close, output_handlers, pc, pending>>
  BY DEF BinaryWrites, Running, Belongs, Piece
<1>2. child \in Children /\ child.buf = << >> /\ << >> \in Seq(Nat)
  BY <1>1, ChildFacts
<1>3. count' = count + 1 /\ count' \in Nat
  BY <1>1, PieceFacts DEF Sound
<1>4. /\ <<count'>> \in Seq(Nat)
      /\ <<count'>> \o << >> = Append(child.buf, count')
  BY <1>2, <1>3
<1>5. /\ child' \in Children /\ child'.fd1 = child.fd1 /\ child'.buf = << >>
      /\ child'.kind = child.kind /\ child'.pc = child.pc /\ child'.holds = child.holds
  <2>1. child.left - 1 \in Nat
    BY <1>1, <1>2 DEF Children
  <2>2. child' \in Children
    BY <1>1, <1>2, <2>1, ChildUpdates
  <2>3. /\ child'.fd1 = child.fd1 /\ child'.buf = << >> /\ child'.kind = child.kind
        /\ child'.pc = child.pc /\ child'.holds = child.holds
    BY <1>1, <1>2 DEF Children
  <2> QED BY <2>2, <2>3
<1>6. ChildGives(<<count'>>, << >>, {count'})
  BY <1>1, <1>2, <1>4, <1>5 DEF ChildGives
<1> QED BY <1>1, <1>3, <1>6, ChildGivesOK

LEMMA ChildPrintsOK ==
  ASSUME Sound, NEW flushes \in BOOLEAN, ChildPrints(flushes)
  PROVE  Sound'
<1> DEFINE written == Append(child.buf, count')
           left == IF flushes THEN << >> ELSE written
           out == IF flushes THEN written ELSE << >>
<1>1. /\ pc # "script" /\ child # None /\ child.pc = "running" /\ child.kind # "binary"
      /\ child.left > 0 /\ Piece
      /\ child' = [child EXCEPT !.left = child.left - 1, !.buf = left]
      /\ flushes => Deliver(child.fd1, written)
      /\ ~flushes => UNCHANGED <<subs, shown>>
      /\ meant' = [meant EXCEPT ![Innermost] = meant[Innermost] \cup {count'}]
      /\ UNCHANGED <<outbuf, fd1, to_close, output_handlers, pc, pending>>
  BY DEF ChildPrints, Running, Belongs, Piece
<1>2. child \in Children /\ child.buf \in Seq(Nat)
  BY <1>1, ChildFacts
<1>3. count' = count + 1 /\ count' \in Nat
  BY <1>1, PieceFacts DEF Sound
<1>4. written \in Seq(Nat)
  BY <1>2, <1>3, RangeAppend
<1> HIDE DEF written
<1>5. /\ out \in Seq(Nat) /\ left \in Seq(Nat) /\ out \o left = written
      /\ Deliver(child.fd1, out) \/ (out = << >> /\ UNCHANGED <<subs, shown>>)
  BY <1>1, <1>4
<1> HIDE DEF out, left
<1>6. /\ child' \in Children /\ child'.fd1 = child.fd1 /\ child'.buf = left
      /\ child'.kind = child.kind /\ child'.pc = child.pc /\ child'.holds = child.holds
  <2>1. child.left - 1 \in Nat
    BY <1>1, <1>2 DEF Children
  <2>2. child' \in Children
    BY <1>1, <1>2, <1>5, <2>1, ChildUpdates
  <2>3. /\ child'.fd1 = child.fd1 /\ child'.buf = left /\ child'.kind = child.kind
        /\ child'.pc = child.pc /\ child'.holds = child.holds
    BY <1>1, <1>2 DEF Children
  <2> QED BY <2>2, <2>3
<1>7. ChildGives(out, left, {count'})
  BY <1>1, <1>5, <1>6 DEF ChildGives, written
<1> QED BY <1>1, <1>3, <1>7, ChildGivesOK

LEMMA ForkWritesTextOK ==
  ASSUME Sound, ForkWritesText
  PROVE  Sound'
<1>1. /\ pc # "script" /\ child # None /\ child.pc = "running" /\ child.kind = "fork"
      /\ child.left > 0 /\ Piece
      /\ child' = [child EXCEPT !.left = child.left - 1]
      /\ UNCHANGED <<subs, shown, outbuf, fd1, to_close, output_handlers, pc, meant, pending>>
  BY DEF ForkWritesText, Running, shellVars, ghostVars
<1>2. child \in Children /\ child.buf \in Seq(Nat) /\ << >> \in Seq(Nat)
      /\ << >> \o child.buf = child.buf
  BY <1>1, ChildFacts
<1>3. count' = count + 1
  BY <1>1, PieceFacts DEF Sound
<1>4. /\ child' \in Children /\ child'.fd1 = child.fd1 /\ child'.buf = child.buf
      /\ child'.kind = child.kind /\ child'.pc = child.pc /\ child'.holds = child.holds
  <2>1. child.left - 1 \in Nat
    BY <1>1, <1>2 DEF Children
  <2>2. child' \in Children
    BY <1>1, <1>2, <2>1, ChildUpdates
  <2>3. /\ child'.fd1 = child.fd1 /\ child'.buf = child.buf /\ child'.kind = child.kind
        /\ child'.pc = child.pc /\ child'.holds = child.holds
    BY <1>1, <1>2 DEF Children
  <2> QED BY <2>2, <2>3
<1>5. meant' = [meant EXCEPT ![Innermost] = meant[Innermost] \cup {}]
  BY <1>1, MeantType DEF Sound, TypeOK
<1>6. ChildGives(<< >>, child.buf, {})
  BY <1>1, <1>2, <1>4, <1>5 DEF ChildGives
<1> QED BY <1>1, <1>3, <1>6, ChildGivesOK

LEMMA ChildFlushesOK ==
  ASSUME Sound, ChildFlushes
  PROVE  Sound'
<1>1. /\ pc # "script" /\ child # None /\ child.pc = "running" /\ child.kind # "binary"
      /\ Deliver(child.fd1, child.buf)
      /\ child' = [child EXCEPT !.buf = << >>]
      /\ UNCHANGED <<outbuf, fd1, to_close, output_handlers, pc, count, meant, pending>>
  BY DEF ChildFlushes, Running, ghostVars
<1>2. child \in Children /\ child.buf \in Seq(Nat) /\ << >> \in Seq(Nat)
      /\ child.buf \o << >> = child.buf
  BY <1>1, ChildFacts
<1>3. /\ child' \in Children /\ child'.fd1 = child.fd1 /\ child'.buf = << >>
      /\ child'.kind = child.kind /\ child'.pc = child.pc /\ child'.holds = child.holds
  <2>1. child' \in Children
    BY <1>1, <1>2, ChildUpdates
  <2>2. /\ child'.fd1 = child.fd1 /\ child'.buf = << >> /\ child'.kind = child.kind
        /\ child'.pc = child.pc /\ child'.holds = child.holds
    BY <1>1, <1>2 DEF Children
  <2> QED BY <2>1, <2>2
<1>4. meant' = [meant EXCEPT ![Innermost] = meant[Innermost] \cup {}]
  BY <1>1, MeantType DEF Sound, TypeOK
<1>5. ChildGives(child.buf, << >>, {})
  BY <1>1, <1>2, <1>3, <1>4 DEF ChildGives
<1> QED BY <1>1, <1>5, ChildGivesOK

\* A child ends with an empty buffer, or what is in it is lost.
LEMMA ChildEndsOK ==
  ASSUME Sound, pc # "script", child # None, child.pc = "running",
         child' \in Children, child'.pc = "done", child'.buf = << >>,
         pending' = pending \cup Range(child.buf),
         UNCHANGED <<shown, count, subs, outbuf, fd1, to_close, output_handlers, pc, meant>>
  PROVE  Sound'
<1>1. /\ child.buf \in Seq(Nat) /\ Range(child.buf) \subseteq Nat
      /\ Range(outbuf) \subseteq pending
  BY ChildFacts, RangeType
<1>2. TypeOK'
  BY <1>1 DEF Sound, TypeOK, Level
<1>3. Pipes'
  BY DEF Sound, Pipes, Reading, Writing, Level
<1>4. Numbered'
  <2>1. InBuffers = Range(child.buf) \cup Range(outbuf) /\ InBuffers' \subseteq InBuffers
    BY RangeEmpty DEF InBuffers
  <2>2. UpTo(count, Range(shown) \cup InBuffers' \cup pending')
    BY <2>1 DEF Sound, Numbered, UpTo
  <2> QED BY <2>2 DEF Sound, Numbered
<1>5. Doubtful'
  BY <1>1, NoneAssumption DEF Doubtful
<1>6. \A place : Range(Unflushed(place)) \subseteq pending' /\ Unflushed(place)' = << >>
  BY RangeEmpty DEF Unflushed
<1>7. Range(<< >>) \subseteq pending'
  BY RangeEmpty
<1>8. Terminal'
  <2>1. Holds(shown, Unflushed(Screen), outbuf, meant[Screen], pending')
    BY HoldsMore DEF Sound, Terminal
  <2>2. Range(Unflushed(Screen)) \subseteq pending' /\ Unflushed(Screen)' = << >>
    BY <1>6
  <2>3. Holds(shown, << >>, outbuf, meant[Screen], pending')
    BY <1>7, <2>1, <2>2, HoldsExcepted
  <2> QED BY <2>2, <2>3 DEF Terminal
<1>9. Texts'
  <2>1. ASSUME NEW k \in DOMAIN subs
        PROVE  Holds(subs[k].buffer, subs[k].data, Unflushed(k)', meant[k], pending')
    <3>1. Holds(subs[k].buffer, subs[k].data, Unflushed(k), meant[k], pending)
      BY DEF Sound, Texts
    <3>2. Holds(subs[k].buffer, subs[k].data, Unflushed(k), meant[k], pending')
      BY <3>1, HoldsMore
    <3>3. Range(Unflushed(k)) \subseteq pending' /\ Unflushed(k)' = << >>
      BY <1>6
    <3>4. Holds(subs[k].buffer, subs[k].data, << >>, meant[k], pending')
      BY <1>7, <3>2, <3>3, HoldsExcepted
    <3> QED BY <3>3, <3>4
  <2> QED BY <2>1 DEF Sound, Texts, Level
<1> QED BY <1>2, <1>3, <1>4, <1>5, <1>8, <1>9 DEF Sound

LEMMA ChildExitsOK ==
  ASSUME Sound, ChildExits \/ ChildKilled
  PROVE  Sound'
<1>1. /\ pc # "script" /\ child # None /\ child.pc = "running"
      /\ pending' = pending \cup Range(child.buf)
      /\ child' = IF ChildExits THEN [child EXCEPT !.pc = "done", !.holds = {}]
                  ELSE [child EXCEPT !.pc = "done", !.holds = {}, !.buf = << >>]
      /\ ChildExits => child.buf = << >>
      /\ UNCHANGED <<shown, count, subs, outbuf, fd1, to_close, output_handlers, pc, meant>>
  BY RangeEmpty DEF ChildExits, ChildKilled, Running, shellVars, ghostVars
<1>2. child \in Children
  BY <1>1, ChildFacts
<1>3. child' \in Children
  BY <1>1, <1>2, ChildDone
<1>4. child'.pc = "done" /\ child'.buf = << >>
  BY <1>1, <1>2 DEF Children
<1> QED BY <1>1, <1>3, <1>4, ChildEndsOK

-----------------------------------------------------------------------------
\* The theorems.

\* Descriptor 1 of the shell never comes back to the screen.
LEMMA StaysRedirected ==
  ASSUME Next, fd1' = Screen
  PROVE  fd1 = Screen
<1>1. CASE EndSubstitution
  BY <1>1 DEF EndSubstitution, Screen, Gone
<1>2. CASE ExecFails
  <2>1. Redirected(subs') = fd1 \/ Redirected(subs') # Screen
    BY DEF Redirected
  <2> QED BY <1>2, <2>1 DEF ExecFails
<1>3. CASE ~EndSubstitution /\ ~ExecFails
  <2>1. UNCHANGED fd1
    BY <1>3 DEF Next, Wait, ChildStep, StartSubstitution, Write, WriteText, RunBinary,
         RunFork, ForkFails, ExecSucceeds, CloseEnds, CloseGone, Copy, Reap, BinaryWrites,
         ChildPrints, ForkWritesText, ChildFlushes, ChildExits, ChildKilled, shellVars
  <2> QED BY <2>1
<1> QED BY <1>1, <1>2, <1>3

\* Every process and step keeps the invariant (plumber.cc:19-67).
THEOREM PlumberSound == Spec => []PlumberInvariant
<1>1. Init => PlumberInvariant
  <2> SUFFICES ASSUME Init PROVE Sound
    BY DEF PlumberInvariant
  <2>1. (\A place : Unflushed(place) = << >>) /\ ~Reading /\ ~Writing
    BY DEF Init, Unflushed, Reading, Writing
  <2>2. TypeOK /\ fd1 = Screen
    BY BoundsAssumption DEF Init, TypeOK, Screen, Level
  <2>3. Pipes /\ Numbered /\ Doubtful /\ Texts
    BY <2>1, RangeEmpty DEF Init, Pipes, Numbered, UpTo, InBuffers, Doubtful, Texts
  <2>4. Terminal
    BY <2>1, HoldsNothing, BoundsAssumption DEF Init, Terminal, Screen
  <2> QED BY <2>2, <2>3, <2>4 DEF Sound
<1>2. PlumberInvariant /\ [Next]_vars => PlumberInvariant'
  <2> SUFFICES ASSUME PlumberInvariant, [Next]_vars, fd1' = Screen
               PROVE  Sound'
    BY DEF PlumberInvariant
  <2>1. Sound
    BY StaysRedirected DEF PlumberInvariant, vars
  <2>2. CASE StartSubstitution
    BY <2>1, <2>2, StartOK
  <2>3. CASE EndSubstitution
    BY <2>1, <2>3, EndOK
  <2>4. CASE \E flushes \in BOOLEAN : Write(flushes)
    BY <2>1, <2>4, WriteOK
  <2>5. CASE \E n \in 0 .. MaxPieces - count : RunBinary("binary", n)
    BY <2>1, <2>5, RunBinaryOK DEF Sound, TypeOK
  <2>6. CASE \E n \in 0 .. MaxPieces - count : RunFork(n)
    BY <2>1, <2>6, RunForkOK
  <2>7. CASE \E n \in 0 .. MaxPieces - count : RunBinary("missing", n)
    BY <2>1, <2>7, RunBinaryOK DEF Sound, TypeOK
  <2>8. CASE ForkFails
    BY <2>1, <2>8, ForkFailsOK
  <2>9. CASE ExecFails
    BY <2>1, <2>9, ExecFailsOK
  <2>10. CASE ExecSucceeds
    BY <2>1, <2>10, ExecSucceedsOK
  <2>11. CASE Wait
    BY <2>1, <2>11, CloseEndsOK, CloseGoneOK, CopyOK, ReapOK DEF Wait
  <2>12. CASE ChildStep
    BY <2>1, <2>12, BinaryWritesOK, ChildPrintsOK, ForkWritesTextOK, ChildFlushesOK,
         ChildExitsOK DEF ChildStep
  <2>13. CASE ChildKilled
    BY <2>1, <2>13, ChildExitsOK
  <2>14. CASE UNCHANGED vars
    BY <2>1, <2>14, PipesSame, PiecesSame DEF Sound, TypeOK, Level, vars
  <2>15. CASE WriteText
    BY <2>1, <2>15, WriteTextOK
  <2> QED BY <2>2, <2>3, <2>4, <2>5, <2>6, <2>7, <2>8, <2>9, <2>10, <2>11, <2>12, <2>13,
             <2>14, <2>15 DEF Next
<1> QED BY <1>1, <1>2, PTL DEF Spec

\* Three sequences that hold what is meant, one after the other.
LEMMA HoldsInOrder ==
  ASSUME NEW a \in Seq(Nat), NEW b \in Seq(Nat), NEW c \in Seq(Nat), NEW m,
         Holds(a, b, c, m, pending)
  PROVE  Certain(a \o b \o c) = m \ pending /\ InOrder(a \o b \o c)
<1> DEFINE front == a \o b
<1>1. front \in Seq(Nat) /\ Range(front) = Range(a) \cup Range(b) /\ Sorted(front, pending)
  BY RangeConcat, SortedConcat DEF Holds
<1>2. Ahead(front, c, pending) /\ Sorted(c, pending)
  BY <1>1 DEF Holds, Ahead
<1> DEFINE text == front \o c
<1> HIDE DEF front
<1>3. Range(text) = Range(front) \cup Range(c) /\ Sorted(text, pending)
  BY <1>1, <1>2, RangeConcat, SortedConcat
<1> HIDE DEF text
<1>4. Certain(text) = m \ pending
  BY <1>1, <1>3 DEF Certain, Holds
<1>5. InOrder(text)
  BY <1>3 DEF InOrder, Sorted
<1> QED BY <1>4, <1>5 DEF text, front

\* A substitution's text is what its script wrote, by builtins and by children that got
\* its pipe, each piece once and in order (plumber.cc:29-36, 54-58,
\* substitution_stream.cc:21-50, executable.cc:65-77).
THEOREM SubstitutionExactHolds == Spec => []SubstitutionExact
<1>1. ASSUME PlumberInvariant PROVE SubstitutionExact
  <2> SUFFICES ASSUME fd1 = Screen, NEW k \in DOMAIN subs
               PROVE  LET text == subs[k].buffer \o subs[k].data \o Unflushed(k)
                      IN  Certain(text) = meant[k] \ pending /\ InOrder(text)
    BY DEF SubstitutionExact
  <2>1. Sound /\ TypeOK
    BY <1>1 DEF PlumberInvariant, Sound
  <2>2. Holds(subs[k].buffer, subs[k].data, Unflushed(k), meant[k], pending)
    BY <2>1 DEF Sound, Texts
  <2>3. subs[k] \in Streams
    BY <2>1 DEF TypeOK
  <2>4. subs[k].buffer \in Seq(Nat) /\ subs[k].data \in Seq(Nat) /\ Unflushed(k) \in Seq(Nat)
    BY <2>1, <2>3, BufferType DEF Streams
  <2> QED BY <2>2, <2>4, HoldsInOrder
<1> QED BY <1>1, PlumberSound, PTL

\* The shell shows what was written to it, each piece once and in order
\* (executable.cc:59-81, builtin.cc:227-242, argm.cc:48-52).
THEOREM TerminalExactHolds == Spec => []TerminalExact
<1>1. ASSUME PlumberInvariant PROVE TerminalExact
  <2> SUFFICES ASSUME fd1 = Screen
               PROVE  LET text == shown \o Unflushed(Screen) \o outbuf
                      IN  Certain(text) = meant[Screen] \ pending /\ InOrder(text)
    BY DEF TerminalExact
  <2>1. Sound /\ TypeOK
    BY <1>1 DEF PlumberInvariant, Sound
  <2>2. Holds(shown, Unflushed(Screen), outbuf, meant[Screen], pending)
    BY <2>1 DEF Sound, Terminal
  <2>3. shown \in Seq(Nat) /\ outbuf \in Seq(Nat) /\ Unflushed(Screen) \in Seq(Nat)
    BY <2>1, BufferType DEF TypeOK
  <2> QED BY <2>2, <2>3, HoldsInOrder
<1> QED BY <1>1, PlumberSound, PTL

\* Between statements there is no child and no pipe (plumber.cc:49-67).
THEOREM NothingLeftOpenHolds == Spec => []NothingLeftOpen
<1>1. ASSUME PlumberInvariant PROVE NothingLeftOpen
  BY <1>1, Quiet DEF PlumberInvariant, NothingLeftOpen, Closed
<1> QED BY <1>1, PlumberSound, PTL

=============================================================================
