--------------------------- MODULE HandlingProofs ---------------------------
(***************************************************************************)
(* What a step does to the activations of the stack, from the bottom to    *)
(* the top, and what follows for that which handlers, collectors and       *)
(* base_run are to see to: the counter, the exceptions that are dropped,   *)
(* the limits, the reports that a limit was exceeded, and chains of        *)
(* conditionals.                                                           *)
(***************************************************************************)
EXTENDS FlagProofs

-----------------------------------------------------------------------------
\* What a step does to the frames, from the bottom of the stack to its top.

\* The routine that was on top is still there, or the handlers took its place.
Kept(f, e) ==
  /\ f.what = e.what /\ f.base = e.base
  /\ Collecting(f) => Collecting(e)
  /\ Gathering(f) => Gathering(e) /\ f.mark = e.mark
  /\ f.what = "handler" => f.pc \in {"next", "ran"} \/ f.pc = e.pc
  /\ f.what = "main" /\ f.pc = "arguments" => e.pc \in {"statement", "arguments"}
Handed(f, e) ==
  /\ e.what \in {"run_handling", "base_run", "run_if_exists"}
  /\ f.what = "handler" /\ f.pc = "next" /\ f.base = e.base
\* An executable, the autofunction or a substitution was entered.
Started(f) ==
  /\ f.what \in Kinds \cup {"autofunction", "substitution"}
  /\ Gathering(f) => f.what = "substitution" /\ "substitution" \in Faults
\* main or b_source has called one of the routines that handle exceptions.
HooksDefined == {".before_command", ".after_command"} \cap Defined # {}
Helping(f, e) ==
  /\ e.what \in {"main", "source"} /\ f.what \in Cleaning
  /\ f.what = "handler" => f.pc = "next"
  /\ f.what \in {"handler", "run_handling", "base_run"} =>
       f.base = e.base \/ MainGlobals
  /\ f.what = "run_if_exists" => f.base = 0 \/ HooksDefined
  /\ Gathering(f) => f.mark = e.base \/ f.mark = Len(gs.errors)

LayerAt(t, i) ==
  \/ i < Len(stack) /\ t[i] = stack[i]
  \/ i = Len(stack) /\ (Kept(t[i], Top) \/ Handed(t[i], Top))
  \/ i >= Len(stack) /\ Started(t[i])
  \/ i = Len(stack) + 1 /\ Helping(t[i], Top)
Layered(t) ==
  /\ t \in Seq(Frames) /\ Len(t) >= Len(stack) - 1 /\ Len(t) > 0
  /\ \A i \in 1 .. Len(t) : LayerAt(t, i)

\* What it is before an executable is entered, if one is.
Idle(t, i) ==
  i >= Len(stack) /\ t[i].what \in Kinds => i = Len(stack) /\ t[i].what = Top.what
Laid(t) == Layered(t) /\ \A i \in 1 .. Len(t) : Idle(t, i)
Shaped ==
  \E t : /\ Laid(t)
         /\ \/ stack' = t
            \/ \E g \in CallStacks : \E auto, auto2 :
                 Continues(g, t, auto, gs', stack', auto2)

LEMMA LayersSet ==
  ASSUME ShellInvariant, Rooted(stack), NEW f \in Frames, Kept(f, Top)
  PROVE  Laid(SetTop(f)) /\ Len(SetTop(f)) = Len(stack)
<1> DEFINE t == SetTop(f)
           n == Len(stack)
<1>1. /\ stack \in Seq(Frames) /\ n \in Nat \ {0} /\ t \in Seq(Frames)
      /\ Len(t) = n /\ t[n] = f /\ \A i \in 1 .. n - 1 : t[i] = stack[i]
  BY TopOfOrigins, Replaced DEF SetTop
<1>2. n = Len(stack)
  OBVIOUS
<1> HIDE DEF t, n
<1>3. ASSUME NEW i \in 1 .. n PROVE LayerAt(t, i)
  <2>1. i = n \/ (i \in 1 .. n - 1 /\ i < n)
    BY <1>1
  <2> QED BY <1>1, <1>2, <2>1 DEF LayerAt
<1>4. Len(t) >= Len(stack) - 1 /\ Len(t) > 0
  BY <1>1, <1>2
<1>5. Layered(t) /\ Len(t) = n
  BY <1>1, <1>3, <1>4 DEF Layered
<1>6. ASSUME NEW i \in 1 .. Len(t) PROVE Idle(t, i)
  <2>1. i >= n => i = n
    BY <1>1
  <2> QED BY <1>1, <1>2, <2>1 DEF Idle, Kept
<1> QED BY <1>5, <1>6 DEF t, n, Laid

LEMMA LayersPopped ==
  ASSUME ShellInvariant, Rooted(stack), Top.what # "main"
  PROVE  Laid(Popped) /\ Len(Popped) = Len(stack) - 1
<1> DEFINE t == Popped
           n == Len(stack)
<1>1. /\ stack \in Seq(Frames) /\ n \in Nat /\ n > 1 /\ t \in Seq(Frames)
      /\ Len(t) = n - 1 /\ \A i \in 1 .. n - 1 : t[i] = stack[i]
  BY TopOfOrigins, Shortened
<1>2. n = Len(stack)
  OBVIOUS
<1> HIDE DEF t, n
<1>3. ASSUME NEW i \in 1 .. n - 1 PROVE LayerAt(t, i)
  <2>1. i < n /\ t[i] = stack[i]
    BY <1>1
  <2> QED BY <1>2, <2>1 DEF LayerAt
<1>4. Len(t) >= Len(stack) - 1 /\ Len(t) > 0
  BY <1>1, <1>2
<1>5. Layered(t) /\ Len(t) = n - 1
  BY <1>1, <1>3, <1>4 DEF Layered
<1>6. ASSUME NEW i \in 1 .. Len(t) PROVE Idle(t, i)
  <2>1. ~(i >= n)
    BY <1>1
  <2> QED BY <1>2, <2>1 DEF Idle
<1> QED BY <1>5, <1>6 DEF t, n, Laid

LEMMA LayersPush ==
  ASSUME ShellInvariant, Rooted(stack), NEW t, Layered(t), NEW f \in Frames,
         \/ Started(f)
         \/ Len(t) = Len(stack) /\ Helping(f, Top)
         \/ Len(t) = Len(stack) - 1 /\ Handed(f, Top)
  PROVE  Layered(Append(t, f))
<1> DEFINE u == Append(t, f)
           n == Len(stack)
           m == Len(t)
<1>1. /\ t \in Seq(Frames) /\ Len(t) >= Len(stack) - 1 /\ Len(t) > 0
      /\ \A i \in 1 .. Len(t) : LayerAt(t, i)
  BY DEF Layered
<1>2. /\ u \in Seq(Frames) /\ Len(u) = m + 1 /\ m \in Nat /\ u[m + 1] = f
      /\ \A i \in 1 .. m : u[i] = t[i]
  BY <1>1, Pushed
<1>3. n = Len(stack) /\ n \in Nat \ {0} /\ m >= n - 1
  BY <1>1, TopOfOrigins
<1>4. \/ Started(f)
      \/ m = n /\ Helping(f, Top)
      \/ m = n - 1 /\ Handed(f, Top)
  OBVIOUS
<1>5. \A i \in 1 .. m : LayerAt(t, i)
  BY <1>1
<1> HIDE DEF u, n, m
<1>6. LayerAt(u, m + 1)
  <2>1. CASE Started(f)
    <3>1. m + 1 >= n
      BY <1>2, <1>3
    <3> QED BY <1>2, <1>3, <2>1, <3>1 DEF LayerAt
  <2>2. CASE m = n /\ Helping(f, Top)
    <3>1. m + 1 = n + 1
      BY <2>2
    <3> QED BY <1>2, <1>3, <2>2, <3>1 DEF LayerAt
  <2>3. CASE m = n - 1 /\ Handed(f, Top)
    <3>1. m + 1 = n
      BY <1>2, <1>3, <2>3
    <3> QED BY <1>2, <1>3, <2>3, <3>1 DEF LayerAt
  <2> QED BY <1>4, <2>1, <2>2, <2>3
<1>7. ASSUME NEW i \in 1 .. m PROVE LayerAt(u, i)
  BY <1>2, <1>5, <1>7 DEF LayerAt
<1>8. ASSUME NEW i \in 1 .. Len(u) PROVE LayerAt(u, i)
  <2>1. i \in 1 .. m \/ i = m + 1
    BY <1>2
  <2> QED BY <1>6, <1>7, <2>1
<1>9. Len(u) >= Len(stack) - 1 /\ Len(u) > 0
  BY <1>2, <1>3
<1>10. Layered(u)
  BY <1>2, <1>8, <1>9 DEF Layered
<1> QED BY <1>10 DEF u

LEMMA LaidPush ==
  ASSUME ShellInvariant, Rooted(stack), NEW t, Laid(t), NEW f \in Frames,
         f.what \notin Kinds,
         \/ Started(f)
         \/ Len(t) = Len(stack) /\ Helping(f, Top)
         \/ Len(t) = Len(stack) - 1 /\ Handed(f, Top)
  PROVE  Laid(Append(t, f))
<1> DEFINE u == Append(t, f)
           m == Len(t)
<1>1. t \in Seq(Frames) /\ Layered(t) /\ \A i \in 1 .. m : Idle(t, i)
  BY DEF Laid, Layered
<1>2. Layered(u)
  BY <1>1, LayersPush
<1>3. /\ Len(u) = m + 1 /\ m \in Nat /\ u[m + 1] = f
      /\ \A i \in 1 .. m : u[i] = t[i]
  BY <1>1, Pushed
<1> HIDE DEF u, m
<1>4. ASSUME NEW i \in 1 .. Len(u) PROVE Idle(u, i)
  <2>1. i \in 1 .. m \/ i = m + 1
    BY <1>3
  <2> QED BY <1>1, <1>3, <2>1 DEF Idle
<1>5. Laid(u)
  BY <1>2, <1>4 DEF Laid
<1> QED BY <1>5 DEF u

LEMMA LayersEnter ==
  ASSUME ShellInvariant, Rooted(stack), NEW t, Layered(t),
         NEW h \in CallStacks, NEW c \in Statements
  PROVE  Layered(Entered(t, c, h))
<1> DEFINE f == Frame(c.what, "enter", c, Len(h.errors))
<1>1. f \in Frames /\ f.what \in Kinds /\ f.pc = "enter"
  BY EnteredFrame
<1>2. Entered(t, c, h) = Append(t, f)
  BY DEF Entered
<1> HIDE DEF f
<1>3. Started(f)
  BY <1>1 DEF Started, Gathering, Kinds
<1> QED BY <1>1, <1>2, <1>3, LayersPush

LEMMA LayersSeek ==
  ASSUME ShellInvariant, Rooted(stack), NEW t, Layered(t),
         NEW g \in CallStacks, NEW c \in Statements
  PROVE  Layered(Seeking(t, c, g))
<1> DEFINE f == Frame("autofunction", "second", c, Len(g.errors))
<1>1. f \in Frames /\ f.what = "autofunction"
  BY SeekingFrame
<1>2. Seeking(t, c, g) = Append(t, f)
  BY DEF Seeking
<1> HIDE DEF f
<1>3. Started(f)
  BY <1>1 DEF Started, Gathering
<1> QED BY <1>1, <1>2, <1>3, LayersPush

LEMMA LayersContinue ==
  ASSUME ShellInvariant, Rooted(stack), NEW t, Layered(t),
         NEW g \in CallStacks, NEW h, NEW auto, NEW auto2, NEW u,
         Continues(g, t, auto, h, u, auto2)
  PROVE  Layered(u)
<1>1. h \in CallStacks
  BY DEF Continues, Grows
<1>2. \A c \in Statements :
        /\ Layered(Seeking(t, c, g)) /\ Layered(Entered(t, c, h))
        /\ \A d \in Statements : Layered(Entered(Seeking(t, c, g), d, h))
  BY <1>1, LayersSeek, LayersEnter
<1> QED BY <1>2 DEF Continues

LEMMA ShapedContinue ==
  ASSUME NEW t, Laid(t), NEW g \in CallStacks,
         NEW auto, NEW auto2,
         Continues(g, t, auto, gs', stack', auto2)
  PROVE  Shaped
BY DEF Shaped

LEMMA ShapedSame ==
  ASSUME Laid(stack')
  PROVE  Shaped
BY DEF Shaped

\* The steps of the routines, one by one.
LEMMA LayersGoto ==
  ASSUME ShellInvariant, Rooted(stack), NEW pc \in Places,
         Top.what # "handler", Top.what = "main" => pc # "arguments",
         Top.what = "collect" => pc # "arguments" /\ (pc = "ran" => Collecting(Top))
  PROVE  Laid(Goto(pc)) /\ Len(Goto(pc)) = Len(stack)
<1> DEFINE f == [Top EXCEPT !.pc = pc]
<1>1. Top \in Frames
  BY TopOfOrigins
<1>2. /\ f \in Frames /\ f.what = Top.what /\ f.base = Top.base /\ f.pc = pc
      /\ f.mark = Top.mark
  BY <1>1 DEF Frames
<1>3. Goto(pc) = SetTop(f)
  BY DEF Goto
<1> HIDE DEF f
<1>4. Kept(f, Top)
  BY <1>2 DEF Kept, Collecting, Gathering
<1> QED BY <1>2, <1>3, <1>4, LayersSet

LEMMA LayersSame ==
  ASSUME ShellInvariant, Rooted(stack)
  PROVE  Laid(stack)
<1>1. stack \in Seq(Frames) /\ Len(stack) \in Nat \ {0} /\ Top = stack[Len(stack)]
  BY TopOfOrigins
<1>2. ASSUME NEW i \in 1 .. Len(stack) PROVE LayerAt(stack, i)
  <2>1. i < Len(stack) \/ i = Len(stack)
    BY <1>1
  <2> QED BY <1>1, <2>1 DEF LayerAt, Kept
<1>3. Len(stack) >= Len(stack) - 1 /\ Len(stack) > 0
  BY <1>1
<1>4. ASSUME NEW i \in 1 .. Len(stack) PROVE Idle(stack, i)
  <2>1. i >= Len(stack) => i = Len(stack)
    BY <1>1
  <2> QED BY <1>1, <2>1 DEF Idle
<1> QED BY <1>1, <1>2, <1>3, <1>4 DEF Layered, Laid

LEMMA LayersStart ==
  ASSUME ShellInvariant, Rooted(stack), NEW t, Laid(t), NEW g,
         NEW base \in Nat, StartHandler(g, t, base),
         \/ /\ Len(t) = Len(stack) /\ Top.what \in {"main", "source"}
            /\ base = Top.base \/ MainGlobals
         \/ /\ Len(t) = Len(stack) - 1 /\ base = Top.base
            /\ Top.what \in {"run_handling", "base_run", "run_if_exists"}
  PROVE  Shaped
<1> DEFINE f == HandlerFrame(base)
<1>1. f \in Frames /\ f.what = "handler" /\ f.base = base /\ f.pc = "next"
  BY StartedFrame
<1>2. stack' = Append(t, f)
  BY DEF StartHandler
<1> HIDE DEF f
<1>3. \/ Len(t) = Len(stack) /\ Helping(f, Top)
      \/ Len(t) = Len(stack) - 1 /\ Handed(f, Top)
  BY <1>1 DEF Helping, Handed, Cleaning, Gathering
<1>4. f.what \notin Kinds
  BY <1>1 DEF Kinds
<1>5. Laid(Append(t, f))
  BY <1>1, <1>3, <1>4, LaidPush
<1> QED BY <1>2, <1>5, ShapedSame

LEMMA LayersHandling ==
  ASSUME ShellInvariant, Rooted(stack), NEW t, Laid(t),
         Len(t) = Len(stack), Top.what \in {"main", "source"},
         NEW g \in CallStacks,
         Len(g.errors) = Len(gs.errors) \/ Len(g.errors) = Top.base,
         NEW what \in {"run_handling", "base_run"},
         NEW c \in Statements, RunHandling(g, t, what, Top.base, c)
  PROVE  Shaped
<1> DEFINE f == [Frame(what, "ran", c, Top.base) EXCEPT !.mark = Len(g.errors)]
           u == Append(t, f)
<1>0. Top.base \in Nat /\ Len(g.errors) \in Nat
  BY TopOfOrigins, CallStackErrors DEF Frames
<1>1. /\ f \in Frames /\ f.what = what /\ f.base = Top.base
      /\ f.mark = Len(g.errors)
  BY <1>0, HandlingFrame
<1>2. Run(g, u, c)
  BY DEF RunHandling
<1> HIDE DEF f
<1>3. Helping(f, Top)
  BY <1>1 DEF Helping, Cleaning
<1>4. Laid(u)
  <2>1. f.what \notin Kinds
    BY <1>1 DEF Kinds
  <2> QED BY <1>1, <1>3, <2>1, LaidPush
<1> HIDE DEF u
<1>5. Continues(g, u, inAuto, gs', stack', inAuto')
  BY <1>2, RunContinues
<1> QED BY <1>4, <1>5, ShapedContinue

LEMMA LayersIfExists ==
  ASSUME ShellInvariant, Rooted(stack), NEW t, Laid(t),
         Len(t) = Len(stack), Top.what = "main",
         NEW g \in CallStacks, g.errors = gs.errors, NEW name \in Names,
         name \in Defined => HooksDefined \/ g.errors = << >>,
         RunIfExists(g, t, name)
  PROVE  Shaped
<1> DEFINE c == CallOf(name)
           f == Frame("run_if_exists", "ran", c, Len(g.errors))
           u == Append(t, f)
<1>1. c \in Statements
  BY StatementsTyped
<1>2. CASE name \in Defined
  <2>1. Call(g, u, c)
    BY <1>2 DEF RunIfExists
  <2>2. /\ f \in Frames /\ f.what = "run_if_exists" /\ f.base = Len(g.errors)
        /\ f.mark = Len(g.errors)
    <3> HIDE DEF c
    <3> QED BY <1>1, HelperFrame
  <2> HIDE DEF c, f
  <2>3. Helping(f, Top)
    BY <1>2, <2>2 DEF Helping, Cleaning
  <2>4. Laid(u)
    <3>1. f.what \notin Kinds
      BY <2>2 DEF Kinds
    <3> QED BY <2>2, <2>3, <3>1, LaidPush
  <2> HIDE DEF u
  <2>5. Continues(g, u, inAuto, gs', stack', inAuto)
    BY <1>1, <2>1, CallEffect DEF Continues
  <2> QED BY <2>4, <2>5, ShapedContinue
<1>3. CASE name \notin Defined
  BY <1>3, ShapedSame DEF RunIfExists
<1> QED BY <1>2, <1>3

LEMMA LayersCatchOne ==
  ASSUME ShellInvariant, Rooted(stack), NEW t, Laid(t),
         Len(t) = Len(stack), Top.what \in {"main", "source"},
         NEW g \in CallStacks, NEW c \in Statements, CatchOne(g, t, c)
  PROVE  Shaped
<1> DEFINE f == Frame("catch_one", "ran", c, Len(g.errors))
           u == Append(t, f)
           h == [g EXCEPT !.inHandler = TRUE, !.unwind = FALSE]
<1>1. f \in Frames /\ f.what = "catch_one"
  BY HelperFrame
<1>2. Run(h, u, c) /\ h \in CallStacks
  BY DEF CatchOne, CallStacks
<1> HIDE DEF f, h
<1>3. Helping(f, Top)
  BY <1>1 DEF Helping, Cleaning, Gathering
<1>4. Laid(u)
  <2>1. f.what \notin Kinds
    BY <1>1 DEF Kinds
  <2> QED BY <1>1, <1>3, <2>1, LaidPush
<1> HIDE DEF u
<1>5. Continues(h, u, inAuto, gs', stack', inAuto')
  BY <1>2, RunContinues
<1> QED BY <1>2, <1>4, <1>5, ShapedContinue

LEMMA LayersReturns ==
  ASSUME ShellInvariant, Origins(gs, inAuto, stack),
         \/ SecondLookup \/ Leaves \/ Substituted \/ HandlersDone
         \/ RanHandling \/ RanIfExists \/ CaughtOne
  PROVE  Shaped
<1>1. /\ gs \in CallStacks /\ Rooted(stack)
      /\ Top \in Frames /\ FromScript(Top) /\ Top.base \in Nat
  BY TopOfOrigins DEF Origins, Frames
<1>2. Top.what # "main"
  BY DEF SecondLookup, Leaves, Plain, Substituted, HandlersDone, RanHandling,
         RanIfExists, CaughtOne, Kinds
<1>3. Laid(Popped) /\ Len(Popped) = Len(stack) - 1
  BY <1>1, <1>2, LayersPopped
<1>4. CASE SecondLookup
  <2>1. Top.cmd \in Statements
    BY <1>1 DEF FromScript
  <2>2. \/ Call(gs, Popped, Top.cmd)
        \/ stack' = Popped
    BY <1>4 DEF SecondLookup
  <2>3. CASE Call(gs, Popped, Top.cmd)
    <3>1. Continues(gs, Popped, inAuto, gs', stack', inAuto)
      BY <1>1, <2>1, <2>3, CallEffect DEF Continues
    <3> QED BY <1>1, <1>3, <3>1, ShapedContinue
  <2> QED BY <1>3, <2>2, <2>3, ShapedSame
<1>5. CASE Leaves \/ Substituted \/ HandlersDone \/ CaughtOne
  BY <1>3, <1>5, ShapedSame DEF Leaves, Substituted, HandlersDone, CaughtOne
<1>6. CASE RanHandling
  <2>1. /\ Top.what \in {"run_handling", "base_run", "run_if_exists"}
        /\ \/ stack' = Popped
           \/ \E g : StartHandler(g, Popped, Top.base)
    BY <1>6 DEF RanHandling
  <2> QED BY <1>1, <1>3, <2>1, LayersStart, ShapedSame
<1>7. CASE RanIfExists
  <2>1. /\ Top.what \in {"run_handling", "base_run", "run_if_exists"}
        /\ \/ stack' = Popped
           \/ StartHandler(gs, Popped, Top.base)
    BY <1>7 DEF RanIfExists
  <2> QED BY <1>1, <1>3, <2>1, LayersStart, ShapedSame
<1> QED BY <1>4, <1>5, <1>6, <1>7

LEMMA LayersAdvance ==
  ASSUME ShellInvariant, Origins(gs, inAuto, stack), Advancing
  PROVE  Shaped
<1>1. PICK k \in CallStacks, f \in Frames :
        /\ Grows(gs, k) \/ Pruned(gs, k, Top.base)
        /\ Successor(f, Top) /\ Plain(f)
        /\ Continues(k, [stack EXCEPT ![Len(stack)] = f], inAuto,
                     gs', stack', inAuto')
  BY DEF Advancing, Advances, Top
<1>2. Kept(f, Top)
  BY <1>1 DEF Plain, Successor, Kept, Absorbing, Collecting, Gathering,
               HelperKinds, Kinds
<1>3. Rooted(stack)
  BY DEF Origins
<1>4. Laid(SetTop(f))
  BY <1>1, <1>2, <1>3, LayersSet
<1>5. Continues(k, SetTop(f), inAuto, gs', stack', inAuto')
  BY <1>1 DEF SetTop
<1> QED BY <1>1, <1>3, <1>4, <1>5, ShapedContinue

LEMMA LayersHandler ==
  ASSUME ShellInvariant, ShellInvariant', Origins(gs, inAuto, stack),
         HandleNext \/ HandlerReturned
  PROVE  Shaped
<1>1. /\ Rooted(stack) /\ Top \in Frames /\ Len(gs.errors) \in Nat
      /\ gs \in CallStacks
  BY TopOfOrigins DEF Origins
<1>2. CASE HandleNext /\ gs.errors[Top.base + 1] \in Top.failed
  BY <1>1, <1>2, LayersSame, ShapedSame DEF HandleNext
<1>3. CASE HandleNext /\ gs.errors[Top.base + 1] \notin Top.failed
  <2> DEFINE n == Len(gs.errors)
             front == gs.errors[Top.base + 1]
             c == CallOf(front)
             f == [Top EXCEPT !.pc = "ran", !.prev = gs.count, !.stmt = c,
                              !.mark = n]
  <2>1. /\ Top.what = "handler" /\ n > Top.base /\ Run(gs, SetTop(f), c)
    BY <1>3 DEF HandleNext
  <2>2. front \in Names
    <3>1. Top.base + 1 \in 1 .. n
      BY <1>1, <2>1 DEF Frames
    <3> QED BY <1>1, <3>1, CallStackErrors
  <2>3. n \in Nat /\ c \in Statements /\ gs.count \in Nat
    BY <1>1, <2>2, StatementsTyped, LimitsAssumption DEF CallStacks
  <2> HIDE DEF n, front, c
  <2>4. f \in Frames /\ f.what = Top.what /\ f.pc = "ran" /\ f.base = Top.base
    <3>1. c \in CommandType /\ "ran" \in Places
      BY <2>3, StatementsTyped DEF Places
    <3> QED BY <1>1, <2>3, <3>1 DEF Frames
  <2> HIDE DEF f
  <2>5. Kept(f, Top)
    BY <2>1, <2>4 DEF Kept, Collecting, Gathering
  <2>6. Laid(SetTop(f))
    BY <1>1, <2>4, <2>5, LayersSet
  <2>7. Continues(gs, SetTop(f), inAuto, gs', stack', inAuto')
    BY <1>1, <2>1, <2>3, RunContinues
  <2> QED BY <1>1, <2>6, <2>7, ShapedContinue
<1>4. CASE HandlerReturned
  <2>1. PICK S : /\ Top.what = "handler"
                 /\ stack' = SetTop([Top EXCEPT !.pc = "next", !.failed = S])
    BY <1>4 DEF HandlerReturned
  <2> DEFINE f == [Top EXCEPT !.pc = "next", !.failed = S]
  <2>2. f \in Frames
    BY <2>1, SetFrame
  <2>3. f.what = Top.what /\ f.base = Top.base /\ f.pc = "next"
    BY <1>1 DEF Frames
  <2>4. stack' = SetTop(f)
    BY <2>1
  <2> HIDE DEF f
  <2>5. Kept(f, Top)
    BY <2>1, <2>3 DEF Kept, Collecting, Gathering
  <2> QED BY <1>1, <2>2, <2>4, <2>5, LayersSet, ShapedSame
<1> QED BY <1>2, <1>3, <1>4 DEF HandleNext

\* Other steps of the top routine that only change its own activation.
LEMMA LayersStays ==
  ASSUME ShellInvariant, ShellInvariant', Origins(gs, inAuto, stack),
         NEW f, stack' = SetTop(f), Kept(f, Top)
  PROVE  Shaped
BY SetFrame, LayersSet, ShapedSame DEF Origins

LEMMA LayersOthers ==
  ASSUME ShellInvariant, ShellInvariant', Origins(gs, inAuto, stack),
         Substitute \/ CatchSignal \/ Replace
  PROVE  Shaped
<1>1. /\ Rooted(stack) /\ gs \in CallStacks /\ Len(gs.errors) \in Nat
      /\ gs.unwind \in BOOLEAN /\ Top \in Frames
  BY TopOfOrigins DEF Origins, CallStacks
<1>2. CASE Substitute
  <2> DEFINE f == [Frame("substitution", "ran", Argfunction, Len(gs.errors))
                     EXCEPT !.flag = gs.unwind]
             g == [gs EXCEPT !.unwind = FALSE]
             t == Append(stack, f)
  <2>1. Call(g, t, Argfunction) /\ UNCHANGED inAuto /\ g \in CallStacks
    BY <1>1, <1>2 DEF Substitute, CallStacks
  <2>2. f \in Frames /\ f.what = "substitution"
    BY <1>1, SubstitutionFrame
  <2> HIDE DEF f, g
  <2>3. Started(f) /\ f.what \notin Kinds
    <3>1. "substitution" \in Faults
      BY <1>2 DEF Substitute
    <3> QED BY <2>2, <3>1 DEF Started, Kinds
  <2>4. Laid(t)
    BY <1>1, <2>2, <2>3, LayersSame, LaidPush
  <2> HIDE DEF t
  <2>5. Continues(g, t, inAuto, gs', stack', inAuto')
    BY <2>1, CallContinues, StatementsTyped
  <2> QED BY <1>1, <2>1, <2>4, <2>5, ShapedContinue
<1>3. CASE CatchSignal
  BY <1>1, <1>3, LayersSame, ShapedSame DEF CatchSignal
<1>4. CASE Replace
  BY <1>1, <1>4, ReaderPlaces, LayersGoto, ShapedSame DEF Replace, Finish, Places
<1> QED BY <1>2, <1>3, <1>4

LEMMA LayersCollect ==
  ASSUME ShellInvariant, ShellInvariant', Origins(gs, inAuto, stack),
         \/ EnterCollect \/ CollectExcess \/ CollectEnd
         \/ CollectUndefined \/ CollectRun \/ CollectRan
  PROVE  Shaped
<1>1. /\ Rooted(stack) /\ gs \in CallStacks /\ Top \in Frames
      /\ Top.stmt \in Statements
  BY TopOfOrigins DEF Origins, FromScript
<1>2. {"next", "return", "ran"} \subseteq Places
  BY DEF Places
<1>3. CASE EnterCollect \/ CollectExcess \/ CollectEnd \/ CollectUndefined \/ CollectRan
  <2>1. \/ stack' = Goto("next")
        \/ stack' = Goto("return")
    BY <1>3 DEF EnterCollect, CollectExcess, CollectEnd, CollectUndefined,
                CollectRan, Finish
  <2>2. Top.what = "collect"
    BY <1>3 DEF EnterCollect, CollectExcess, CollectEnd, CollectUndefined,
                CollectRan
  <2> QED BY <1>1, <1>2, <2>1, <2>2, LayersGoto, ShapedSame
<1>4. CASE CollectRun
  <2>1. \/ stack' = Goto("ran")
        \/ Run(gs, Goto("ran"), Top.stmt)
    BY <1>4 DEF CollectRun
  <2>2. Laid(Goto("ran"))
    <3>1. Top.what = "collect" /\ Collecting(Top)
      BY <1>4 DEF CollectRun, Collecting
    <3> QED BY <1>1, <1>2, <3>1, LayersGoto
  <2>3. CASE Run(gs, Goto("ran"), Top.stmt)
    <3>1. Continues(gs, Goto("ran"), inAuto, gs', stack', inAuto')
      BY <1>1, <2>3, RunContinues
    <3> QED BY <1>1, <2>2, <3>1, ShapedContinue
  <2> QED BY <2>1, <2>2, <2>3, ShapedSame
<1> QED BY <1>3, <1>4

LEMMA LayersCatch ==
  ASSUME ShellInvariant, ShellInvariant', Origins(gs, inAuto, stack),
         CatchNext \/ CatchReturned \/ CatchExcess \/ CatchDone
  PROVE  Shaped
<1>1. /\ Rooted(stack) /\ gs \in CallStacks /\ Top \in Frames
      /\ Top.base \in Nat /\ Len(gs.errors) \in Nat
      /\ FrameOK(Top, Len(gs.errors)) /\ Top.focus \in Nat /\ Top.base < Top.focus
  BY TopOfOrigins, TopOK DEF Origins, ShellInvariant, Frames
<1>2. Top.what = "try"
  BY DEF CatchNext, CatchReturned, CatchExcess, CatchDone
<1>3. CASE CatchExcess \/ CatchDone
  <2>1. stack' = Goto("return") /\ "return" \in Places
    BY <1>3 DEF CatchExcess, CatchDone, Finish, Places
  <2> QED BY <1>1, <2>1, <1>2, LayersGoto, ShapedSame
<1>4. CASE CatchReturned
  <2>1. PICK n, m : stack' = SetTop([Top EXCEPT !.pc = "catch", !.focus = n,
                                                !.dropped = m])
    BY <1>4 DEF CatchReturned
  <2> DEFINE f == [Top EXCEPT !.pc = "catch", !.focus = n, !.dropped = m]
  <2>2. f.what = Top.what /\ f.base = Top.base /\ stack' = SetTop(f)
    BY <1>1, <2>1 DEF Frames
  <2> HIDE DEF f
  <2> QED BY <1>2, <2>2, LayersStays DEF Kept, Collecting, Gathering
<1>5. CASE CatchNext
  <2> DEFINE n == Len(gs.errors)
             front == FirstCaught
             c == CallOf(gs.errors[front])
             f == [Top EXCEPT !.pc = "caught", !.focus = front,
                              !.prev = gs.count, !.mark = n]
             g == [gs EXCEPT !.inHandler = TRUE, !.unwind = FALSE]
  <2>1. Caught # {} /\ Run(g, SetTop(f), c)
    BY <1>5 DEF CatchNext
  <2>2. n \in Nat /\ gs.count \in Nat /\ g \in CallStacks
    <3>1. g \in CallStacks
      BY <1>1 DEF CallStacks
    <3>2. gs.count \in 0 .. CountLimit - 1
      BY <1>1 DEF CallStacks
    <3>3. gs.count \in Nat
      BY <3>2, LimitsAssumption
    <3> QED BY <1>1, <3>1, <3>3
  <2>3. front \in Caught /\ Caught \subseteq Top.focus .. n
    <3>1. Caught \in SUBSET Nat
      BY <1>1 DEF Caught
    <3>2. \E m \in Caught : \A k \in Caught : m <= k
      BY <2>1, <3>1, LeastNat
    <3> QED BY <3>2 DEF FirstCaught, Caught
  <2>4. front \in Nat /\ front \in 1 .. n
    BY <1>1, <2>2, <2>3
  <2>5. c \in Statements
    BY <1>1, <2>4, CallStackErrors, StatementsTyped
  <2> HIDE DEF n, front, c, g
  <2>6. f \in Frames /\ f.what = Top.what /\ f.base = Top.base
    BY <1>1, <2>2, <2>4 DEF Frames, Places
  <2> HIDE DEF f
  <2>7. Kept(f, Top)
    BY <1>2, <2>6 DEF Kept, Collecting, Gathering
  <2>8. Laid(SetTop(f))
    BY <1>1, <2>6, <2>7, LayersSet
  <2>9. Continues(g, SetTop(f), inAuto, gs', stack', inAuto')
    BY <2>1, <2>2, <2>5, RunContinues
  <2> QED BY <1>1, <2>2, <2>8, <2>9, ShapedContinue
<1> QED BY <1>3, <1>4, <1>5

LEMMA LayersGetline ==
  ASSUME ShellInvariant, ShellInvariant', Origins(gs, inAuto, stack),
         \/ GetlineFails \/ GetlineEnd \/ GetlineUnclosed \/ GetlineIncomplete
         \/ GetlineMalformed \/ GetlineComplete
  PROVE  Shaped
<1>1. Top.what \in {"main", "source"}
  BY DEF GetlineFails, GetlineEnd, GetlineUnclosed, GetlineIncomplete,
         GetlineMalformed, GetlineComplete, ReadingLine
<1>2. /\ gs \in CallStacks /\ Top.base \in 0 .. Len(gs.errors)
      /\ Top \in Frames /\ Rooted(stack)
  BY <1>1, Reader, ReaderPlaces DEF Origins
<1>3. RawCommand \in Statements /\ "run_handling" \in {"run_handling", "base_run"}
  BY StatementsTyped, NamesInUse DEF RawCommand
<1> DEFINE r == Reset(gs, Top.base)
<1>4. r \in CallStacks /\ Len(r.errors) = Top.base
  <2>1. r \in CallStacks /\ r.errors = SubSeq(gs.errors, 1, Top.base)
    BY <1>2, ResetFields
  <2>2. gs.errors \in Seq(Names)
    BY <1>2 DEF CallStacks
  <2> HIDE DEF r
  <2> QED BY <1>2, <2>1, <2>2
<1>5. {".unclosed_brace", ".mismatched_brace"} \subseteq Names
  BY ShellNames DEF ShellExceptions
<1>6. "got" \in Places /\ "more" \in Places /\ "unclosed" \in Places
  BY ReaderPlaces
<1>7. \A pc \in Places \ {"arguments"} : Laid(Goto(pc)) /\ Len(Goto(pc)) = Len(stack)
  BY <1>1, <1>2, LayersGoto
<1>8. \A f \in Frames :
        (f.what = Top.what /\ f.base = Top.base /\ f.pc # "arguments") =>
        Laid(SetTop(f)) /\ Len(SetTop(f)) = Len(stack)
  BY <1>1, <1>2, LayersSet DEF Kept, Collecting, Gathering
<1> HIDE DEF r
<1>9. CASE GetlineFails
  BY <1>6, <1>7, <1>9, ShapedSame DEF GetlineFails
<1>10. CASE GetlineUnclosed
  BY <1>6, <1>7, <1>10, ShapedSame DEF GetlineUnclosed
<1>11. CASE GetlineIncomplete
  BY <1>6, <1>7, <1>11, ShapedSame DEF GetlineIncomplete
<1>12. CASE GetlineEnd
  <2>1. CASE Top.pc = "read"
    <3> DEFINE f == [Top EXCEPT !.pc = "got", !.flag = TRUE]
    <3>1. stack' = SetTop(f)
      BY <1>12, <2>1 DEF GetlineEnd
    <3>2. f \in Frames /\ f.what = Top.what /\ f.base = Top.base /\ f.pc # "arguments"
      BY <1>2, <1>6 DEF Frames
    <3> HIDE DEF f
    <3> QED BY <1>8, <3>1, <3>2, ShapedSame
  <2>2. CASE Top.pc # "read"
    <3> DEFINE f == [Top EXCEPT !.pc = "unclosed", !.flag = TRUE]
    <3>1. RunHandling(r, SetTop(f), "run_handling", Top.base, RawCommand)
      BY <1>12, <2>2 DEF GetlineEnd, r
    <3>2. f \in Frames /\ f.what = Top.what /\ f.base = Top.base /\ f.pc # "arguments"
      BY <1>2, <1>6 DEF Frames
    <3> HIDE DEF f
    <3>3. Laid(SetTop(f)) /\ Len(SetTop(f)) = Len(stack)
      BY <1>8, <3>2
    <3> QED BY <1>1, <1>2, <1>3, <1>4, <3>1, <3>3, LayersHandling
  <2> QED BY <2>1, <2>2
<1>13. CASE GetlineMalformed
  <2> DEFINE g == AddError(r, ".mismatched_brace")
  <2>1. CatchOne(g, Goto("got"), RawCommand)
    BY <1>13 DEF GetlineMalformed, r
  <2>2. g \in CallStacks
    BY <1>4, <1>5, AddErrorType
  <2> HIDE DEF g
  <2> QED BY <1>1, <1>2, <1>3, <1>6, <1>7, <2>1, <2>2, LayersCatchOne
<1>14. CASE GetlineComplete
  <2>1. RunHandling(r, Goto("got"), "run_handling", Top.base, RawCommand)
    BY <1>14 DEF GetlineComplete, r
  <2> QED BY <1>1, <1>2, <1>3, <1>4, <1>6, <1>7, <2>1, LayersHandling
<1> QED BY <1>9, <1>10, <1>11, <1>12, <1>13, <1>14

LEMMA LayersMain ==
  ASSUME ShellInvariant, ShellInvariant', Origins(gs, inAuto, stack),
         \/ MainInit \/ MainRegister \/ MainPrompt \/ MainGot \/ MainStatement
         \/ MainInterpreted \/ MainRun \/ MainAfter \/ MainShutdown \/ MainGlobals
  PROVE  Shaped
<1>1. Top.what = "main"
  BY DEF MainInit, MainRegister, MainPrompt, MainGot, MainStatement,
         MainInterpreted, MainRun, MainAfter, MainShutdown, MainGlobals
<1>2. /\ gs \in CallStacks /\ Len(gs.errors) \in Nat /\ Top.base \in Nat
      /\ Top \in Frames /\ Top.stmt \in Statements /\ Rooted(stack)
  BY <1>1, Reader, ReaderPlaces DEF Origins
<1>3. \A pc \in Places \ {"arguments"} : Laid(Goto(pc)) /\ Len(Goto(pc)) = Len(stack)
  BY <1>1, <1>2, LayersGoto
<1>4. ASSUME NEW pc \in Places \ {"arguments"}, NEW what \in {"run_handling", "base_run"},
             NEW c \in Statements, RunHandling(gs, Goto(pc), what, Top.base, c)
      PROVE  Shaped
  BY <1>1, <1>2, <1>3, <1>4, LayersHandling
<1>5. ASSUME NEW pc \in Places \ {"arguments"}, NEW name \in Names,
             RunIfExists(gs, Goto(pc), name),
             name \in Defined => HooksDefined \/ gs.errors = << >>
      PROVE  Shaped
  BY <1>1, <1>2, <1>3, <1>5, LayersIfExists
<1>6. ASSUME NEW pc \in Places \ {"arguments"}, NEW base \in Nat, NEW g,
             StartHandler(g, Goto(pc), base), base = Top.base \/ MainGlobals
      PROVE  Shaped
  BY <1>1, <1>2, <1>3, <1>6, LayersStart
<1>7. /\ "base_run" \in {"run_handling", "base_run"}
      /\ {"register", "prompt", "read", "shutdown", "statement", "before",
          "after", "globals", "done"} \subseteq Places \ {"arguments"}
      /\ {"before", "arguments"} \subseteq Places
  BY ReaderPlaces DEF Places
<1>8. \A name \in Names : CallOf(name) \in Statements
  BY StatementsTyped
<1>9. /\ {".init", ".prompt", ".shutdown", ".before_command",
          ".run_logic", ".after_command"} \subseteq Names
      /\ ".undefined_variable" \in Names
  BY NamesInUse, ShellNames DEF ShellExceptions
<1>10. \A name \in {".before_command", ".after_command"} :
         name \in Defined => HooksDefined
  BY DEF HooksDefined
<1>11. CASE MainInit
  BY <1>4, <1>7, <1>8, <1>9, <1>11 DEF MainInit
<1>12. CASE MainRegister
  BY <1>3, <1>7, <1>12, ShapedSame DEF MainRegister
<1>13. CASE MainPrompt
  <2>1. \/ stack' = Goto("shutdown")
        \/ RunHandling(gs, Goto("read"), "base_run", Top.base, CallOf(".prompt"))
    BY <1>13 DEF MainPrompt
  <2> QED BY <1>3, <1>4, <1>7, <1>8, <1>9, <2>1, ShapedSame
<1>14. CASE MainGot
  <2>1. \/ StartHandler(gs, Goto("prompt"), Top.base)
        \/ stack' = Goto("shutdown")
        \/ stack' = Goto("statement")
    BY <1>14 DEF MainGot
  <2> QED BY <1>2, <1>3, <1>6, <1>7, <2>1, ShapedSame
<1>15. CASE MainStatement
  <2>1. CASE stack' = Goto("prompt")
    BY <1>3, <1>7, <2>1, ShapedSame
  <2>2. ASSUME NEW c \in Commands,
               stack' = SetTop([Top EXCEPT !.pc = "arguments", !.stmt = c])
        PROVE  Shaped
    <3> DEFINE f == [Top EXCEPT !.pc = "arguments", !.stmt = c]
    <3>1. /\ f.what = Top.what /\ f.base = Top.base /\ stack' = SetTop(f)
          /\ Top.pc = "statement"
      BY <1>2, <1>15, <2>2 DEF Frames, MainStatement
    <3> HIDE DEF f
    <3> QED BY <1>1, <3>1, LayersStays DEF Kept, Collecting, Gathering
  <2> QED BY <1>15, <2>1, <2>2 DEF MainStatement
<1>16. CASE MainInterpreted
  <2>1. PICK c : /\ c = CallOf(".undefined_variable") \/ c = Top.stmt
                 /\ RunIfExists(gs, SetTop([Top EXCEPT !.pc = "before", !.stmt = c]),
                                ".before_command")
    <3>1. PICK u \in {FALSE} \cup {"undefined" \in Faults} :
            LET c == IF u THEN CallOf(".undefined_variable") ELSE Top.stmt
            IN  RunIfExists(gs, SetTop([Top EXCEPT !.pc = "before", !.stmt = c]),
                            ".before_command")
      BY <1>16 DEF MainInterpreted
    <3> DEFINE c == IF u THEN CallOf(".undefined_variable") ELSE Top.stmt
    <3>2. c = CallOf(".undefined_variable") \/ c = Top.stmt
      OBVIOUS
    <3>3. RunIfExists(gs, SetTop([Top EXCEPT !.pc = "before", !.stmt = c]),
                      ".before_command")
      BY <3>1
    <3> HIDE DEF c
    <3> QED BY <3>2, <3>3
  <2> DEFINE f == [Top EXCEPT !.pc = "before", !.stmt = c]
  <2>2. c \in Statements
    BY <1>2, <1>8, <1>9, <2>1
  <2>3. f \in Frames /\ f.what = Top.what /\ f.base = Top.base /\ f.pc = "before"
    BY <1>2, <1>7, <2>2, StatementsTyped DEF Frames
  <2>4. RunIfExists(gs, SetTop(f), ".before_command")
    BY <2>1
  <2> HIDE DEF f
  <2>5. Laid(SetTop(f)) /\ Len(SetTop(f)) = Len(stack)
    BY <1>1, <1>2, <2>3, LayersSet DEF Kept, Collecting, Gathering
  <2> QED BY <1>1, <1>2, <1>9, <1>10, <2>4, <2>5, LayersIfExists
<1>17. CASE MainRun
  <2>1. \/ StartHandler(gs, Goto("after"), Top.base)
        \/ gs.errors = << >> /\ RunIfExists(gs, Goto("after"), ".run_logic")
        \/ RunHandling(gs, Goto("after"), "base_run", Top.base, Top.stmt)
    BY <1>17 DEF MainRun
  <2> QED BY <1>2, <1>4, <1>5, <1>6, <1>7, <1>9, <2>1
<1>18. CASE MainAfter
  BY <1>5, <1>7, <1>9, <1>10, <1>18 DEF MainAfter
<1>19. CASE MainShutdown
  BY <1>4, <1>7, <1>8, <1>9, <1>19 DEF MainShutdown
<1>20. CASE MainGlobals
  <2> DEFINE g == AddError(gs, ".unused_variable")
  <2>1. \/ StartHandler(g, Goto("done"), Len(gs.errors))
        \/ stack' = Goto("done")
    BY <1>20 DEF MainGlobals
  <2> HIDE DEF g
  <2> QED BY <1>2, <1>3, <1>6, <1>7, <1>20, <2>1, ShapedSame
<1> QED BY <1>11, <1>12, <1>13, <1>14, <1>15, <1>16, <1>17, <1>18, <1>19, <1>20

\* What every step does but those that enter a statement of a collector, or end
\* the process.
LEMMA Shapes ==
  ASSUME ShellInvariant, Origins(gs, inAuto, stack), [Next]_vars,
         ~CollectNext, ~StepwiseAborts
  PROVE  Shaped
<1>1. ShellInvariant' /\ Rooted(stack)
  BY NextOK DEF Origins
<1>2. CASE Advancing
  BY <1>1, <1>2, LayersAdvance
<1>3. CASE Others
  BY <1>1, <1>3, LayersReturns, LayersHandler, LayersOthers, LayersCollect,
     LayersCatch, LayersGetline, LayersMain DEF Others
<1>4. CASE UNCHANGED vars
  BY <1>1, <1>4, LayersSame, ShapedSame DEF vars
<1> QED BY <1>1, <1>2, <1>3, <1>4, StepKinds

LEMMA Layers ==
  ASSUME ShellInvariant, Origins(gs, inAuto, stack), [Next]_vars,
         ~CollectNext, ~StepwiseAborts
  PROVE  Layered(stack')
<1>1. Shaped /\ Rooted(stack)
  BY Shapes DEF Origins
<1> QED BY <1>1, LayersContinue DEF Shaped, Laid

-----------------------------------------------------------------------------
\* Fresh: what a collector does between interpreting and running a statement.

\* What was on the stack is still there, below what was put on it.
Upon(u, t) == Len(u) >= Len(t) /\ \A i \in 1 .. Len(t) : u[i] = t[i]

LEMMA ContinuesOver ==
  ASSUME NEW g, NEW t \in Seq(Frames), NEW auto, NEW h \in CallStacks, NEW u,
         NEW auto2, Continues(g, t, auto, h, u, auto2), g \in CallStacks
  PROVE  Upon(u, t)
<1>1. ASSUME NEW v \in Seq(Frames), NEW c \in Statements
      PROVE  /\ Entered(v, c, h) \in Seq(Frames)
             /\ Len(v) \in Nat /\ Len(Entered(v, c, h)) = Len(v) + 1
             /\ \A i \in 1 .. Len(v) : Entered(v, c, h)[i] = v[i]
  <2> DEFINE f == Frame(c.what, "enter", c, Len(h.errors))
  <2>1. f \in Frames
    BY EnteredFrame
  <2>2. Entered(v, c, h) = Append(v, f)
    BY DEF Entered
  <2> HIDE DEF f
  <2> QED BY <2>1, <2>2, Pushed
<1>2. ASSUME NEW c \in Statements
      PROVE  /\ Seeking(t, c, g) \in Seq(Frames)
             /\ Len(t) \in Nat /\ Len(Seeking(t, c, g)) = Len(t) + 1
             /\ \A i \in 1 .. Len(t) : Seeking(t, c, g)[i] = t[i]
  <2> DEFINE f == Frame("autofunction", "second", c, Len(g.errors))
  <2>1. f \in Frames
    BY SeekingFrame
  <2>2. Seeking(t, c, g) = Append(t, f)
    BY DEF Seeking
  <2> HIDE DEF f
  <2> QED BY <2>1, <2>2, Pushed
<1>3. CASE u = t
  BY <1>3 DEF Upon
<1>4. ASSUME NEW c \in Statements, u = Entered(t, c, h) PROVE Upon(u, t)
  BY <1>1, <1>4 DEF Upon
<1>5. ASSUME NEW c \in Statements, u = Seeking(t, c, g) PROVE Upon(u, t)
  BY <1>2, <1>5 DEF Upon
<1>6. ASSUME NEW c \in Statements, NEW d \in Statements,
             u = Entered(Seeking(t, c, g), d, h)
      PROVE  Upon(u, t)
  <2> DEFINE v == Seeking(t, c, g)
  <2>1. /\ v \in Seq(Frames) /\ Len(t) \in Nat /\ Len(v) = Len(t) + 1
        /\ \A i \in 1 .. Len(t) : v[i] = t[i]
    BY <1>2
  <2>2. u = Entered(v, d, h)
    BY <1>6
  <2> HIDE DEF v
  <2>3. Len(u) = Len(v) + 1 /\ \A i \in 1 .. Len(v) : u[i] = v[i]
    BY <1>1, <2>1, <2>2
  <2> QED BY <2>1, <2>3 DEF Upon
<1> QED BY <1>3, <1>4, <1>5, <1>6 DEF Continues

\* The steps that can be taken there.
LEMMA CollectingSteps ==
  ASSUME ShellInvariant, Origins(gs, inAuto, stack), [Next]_vars,
         Collecting(Top)
  PROVE  CollectUndefined \/ CollectRun \/ Substitute
           \/ (UNCHANGED stack /\ gs'.errors = gs.errors)
<1>1. /\ Rooted(stack) /\ Top.what = "collect" /\ Top.pc = "arguments"
      /\ gs \in CallStacks
  BY TopOfOrigins DEF Origins, Collecting
<1>2. ~Advancing /\ ~Leaves
  BY <1>1 DEF Advancing, Advances, Leaves, Plain, Absorbing, Top
<1>3. /\ ~SecondLookup /\ ~Substituted /\ ~HandlersDone /\ ~RanHandling
      /\ ~RanIfExists /\ ~CaughtOne /\ ~HandleNext /\ ~HandlerReturned
      /\ ~Replace /\ ~StepwiseAborts
  BY <1>1 DEF SecondLookup, Substituted, HandlersDone, RanHandling,
     RanIfExists, CaughtOne, HandleNext, HandlerReturned, Replace, StepwiseAborts
<1>4. /\ ~EnterCollect /\ ~CollectNext /\ ~CollectExcess /\ ~CollectEnd
      /\ ~CollectRan
      /\ ~CatchNext /\ ~CatchReturned /\ ~CatchExcess /\ ~CatchDone
  BY <1>1 DEF EnterCollect, CollectNext, CollectExcess, CollectEnd, CollectRan,
     CatchNext, CatchReturned, CatchExcess, CatchDone
<1>5. /\ ~GetlineFails /\ ~GetlineEnd /\ ~GetlineUnclosed /\ ~GetlineIncomplete
      /\ ~GetlineMalformed /\ ~GetlineComplete
  BY <1>1 DEF GetlineFails, GetlineEnd, GetlineUnclosed, GetlineIncomplete,
     GetlineMalformed, GetlineComplete, ReadingLine
<1>6. /\ ~MainInit /\ ~MainRegister /\ ~MainPrompt /\ ~MainGot /\ ~MainStatement
      /\ ~MainInterpreted /\ ~MainRun /\ ~MainAfter /\ ~MainShutdown /\ ~MainGlobals
  BY <1>1 DEF MainInit, MainRegister, MainPrompt, MainGot, MainStatement,
     MainInterpreted, MainRun, MainAfter, MainShutdown, MainGlobals
<1>7. CatchSignal => UNCHANGED stack /\ gs'.errors = gs.errors
  BY <1>1 DEF CatchSignal, CallStacks
<1>8. UNCHANGED vars => UNCHANGED stack /\ gs'.errors = gs.errors
  BY DEF vars
<1> QED BY <1>1, <1>2, <1>3, <1>4, <1>5, <1>6, <1>7, <1>8, StepKinds DEF Others

LEMMA FreshNext ==
  ASSUME ShellInvariant, Origins(gs, inAuto, stack), Fresh(gs, stack),
         [Next]_vars
  PROVE  Fresh(gs', stack')
<1> DEFINE n == Len(stack)
<1> SUFFICES ASSUME "substitution" \notin Faults, NEW i \in 1 .. Len(stack'),
                    Collecting(stack'[i])
             PROVE  i = Len(stack') /\ stack'[i].mark = Len(gs'.errors)
  BY DEF Fresh
<1>1. /\ stack \in Seq(Frames) /\ n \in Nat \ {0} /\ Top = stack[n]
      /\ Top \in Frames /\ gs \in CallStacks /\ Rooted(stack)
      /\ Top.stmt \in Statements
  BY TopOfOrigins DEF Origins, FromScript
<1>2. \A j \in 1 .. n : Collecting(stack[j]) =>
        j = n /\ stack[j].mark = Len(gs.errors)
  BY DEF Fresh
<1>3. CASE StepwiseAborts
  <2>1. stack' = << Frame("main", "aborted", Argfunction, 0) >>
    BY <1>3 DEF StepwiseAborts, Abort
  <2>2. i = 1 /\ stack'[1].what = "main"
    BY <2>1 DEF Frame
  <2> QED BY <2>2 DEF Collecting
<1>4. CASE CollectNext
  <2>1. PICK c \in Commands :
          stack' = SetTop([Top EXCEPT !.pc = "arguments", !.stmt = c,
                                      !.mark = Len(gs.errors)])
    BY <1>4 DEF CollectNext
  <2> DEFINE f == [Top EXCEPT !.pc = "arguments", !.stmt = c,
                              !.mark = Len(gs.errors)]
  <2>2. f.mark = Len(gs.errors) /\ UNCHANGED gs
    BY <1>1, <1>4 DEF CollectNext, Frames
  <2>3. f \in Frames /\ stack' = SetTop(f)
    BY <2>1, SetFrame, NextOK
  <2> HIDE DEF f
  <2>4. Len(stack') = n /\ stack'[n] = f /\ \A j \in 1 .. n - 1 : stack'[j] = stack[j]
    BY <1>1, <2>3, Replaced DEF SetTop
  <2>5. i = n \/ i \in 1 .. n - 1
    BY <1>1, <2>4
  <2>6. ASSUME i \in 1 .. n - 1 PROVE FALSE
    <3>1. Collecting(stack[i]) /\ i \in 1 .. n /\ i # n
      BY <1>1, <2>4, <2>6
    <3> QED BY <1>2, <3>1
  <2> QED BY <2>2, <2>4, <2>5, <2>6
<1>5. CASE ~StepwiseAborts /\ ~CollectNext
  <2>1. Layered(stack')
    BY <1>5, Layers
  <2>2. LayerAt(stack', i)
    BY <2>1 DEF Layered
  <2>3. ~Started(stack'[i]) /\ ~Helping(stack'[i], Top) /\ ~Handed(stack'[i], Top)
    BY DEF Started, Helping, Handed, Collecting, Gathering, Cleaning
  <2>4. ASSUME i < n, stack'[i] = stack[i] PROVE FALSE
    <3>1. i \in 1 .. n /\ i # n
      BY <1>1, <2>4
    <3> QED BY <1>2, <2>4, <3>1
  <2>5. i = n /\ Kept(stack'[n], Top)
    BY <2>2, <2>3, <2>4 DEF LayerAt
  <2>6. Collecting(Top) /\ Top.mark = Len(gs.errors)
    <3>1. Collecting(Top) /\ n \in 1 .. n
      BY <1>1, <2>5 DEF Kept
    <3> QED BY <1>1, <1>2, <3>1
  <2>7. ~Substitute
    BY DEF Substitute
  <2>8. {"return", "ran"} \subseteq Places
    BY DEF Places
  <2>9. ASSUME NEW pc \in {"return", "ran"}
        PROVE  /\ Goto(pc) \in Seq(Frames) /\ Len(Goto(pc)) = n
               /\ ~Collecting(Goto(pc)[n])
    <3> DEFINE f == [Top EXCEPT !.pc = pc]
    <3>1. f \in Frames /\ f.pc = pc /\ Goto(pc) = SetTop(f)
      BY <1>1, <2>8 DEF Frames, Goto
    <3> HIDE DEF f
    <3>2. SetTop(f) \in Seq(Frames) /\ Len(SetTop(f)) = n /\ SetTop(f)[n] = f
      BY <1>1, <3>1, Replaced DEF SetTop
    <3> QED BY <3>1, <3>2 DEF Collecting
  <2>10. ~CollectUndefined
    <3>1. ASSUME CollectUndefined PROVE stack' = Goto("return")
      BY <3>1 DEF CollectUndefined
    <3> QED BY <2>5, <2>9, <3>1
  <2>11. ~CollectRun
    <3>1. ASSUME CollectRun PROVE FALSE
      <4>1. \/ stack' = Goto("ran")
            \/ Run(gs, Goto("ran"), Top.stmt)
        BY <3>1 DEF CollectRun
      <4>2. CASE stack' = Goto("ran")
        BY <2>5, <2>9, <4>2
      <4>3. CASE Run(gs, Goto("ran"), Top.stmt)
        <5>1. Continues(gs, Goto("ran"), inAuto, gs', stack', inAuto')
          BY <1>1, <4>3, RunContinues
        <5>2. gs' \in CallStacks
          BY <5>1 DEF Continues, Grows
        <5>3. n \in 1 .. Len(Goto("ran")) /\ Goto("ran") \in Seq(Frames)
          BY <1>1, <2>9
        <5>4. stack'[n] = Goto("ran")[n]
          BY <1>1, <5>1, <5>2, <5>3, ContinuesOver DEF Upon
        <5> QED BY <2>5, <2>9, <5>4
      <4> QED BY <4>1, <4>2, <4>3
    <3> QED BY <3>1
  <2>12. UNCHANGED stack /\ gs'.errors = gs.errors
    BY <2>6, <2>7, <2>10, <2>11, CollectingSteps
  <2> QED BY <1>1, <2>5, <2>6, <2>12
<1> QED BY <1>3, <1>4, <1>5

\* Unless arguments run substitutions, nothing happens between the head of a
\* collector's loop and the statement that it runs, or the exception that the
\* interpretation of the statement throws: the list of the statement is empty.
THEOREM FreshHolds ==
  Spec => [](ShellInvariant /\ Origins(gs, inAuto, stack) /\ Fresh(gs, stack))
<1>1. Init => Fresh(gs, stack)
  <2> SUFFICES ASSUME Init PROVE Fresh(gs, stack)
    OBVIOUS
  <2>1. stack = << Frame("main", "init", Argfunction, 0) >>
    BY DEF Init
  <2>2. Len(stack) = 1 /\ stack[1].what = "main"
    BY <2>1 DEF Frame
  <2>3. \A i \in 1 .. Len(stack) : ~Collecting(stack[i])
    BY <2>2 DEF Collecting
  <2> QED BY <2>3 DEF Fresh
<1>2. ShellInvariant /\ Origins(gs, inAuto, stack) /\ Fresh(gs, stack)
      /\ [Next]_vars
      => Fresh(gs, stack)'
  BY FreshNext
<1> QED BY <1>1, <1>2, OriginsHolds, PTL DEF Spec

-----------------------------------------------------------------------------
\* Tidy: what happens to it as the state and the stack change.

LEMMA TidyState ==
  ASSUME NEW g, NEW h, NEW s, Tidy(g, s), Counting(h),
         g.inHandler => h.inHandler
  PROVE  Tidy(h, s)
BY DEF Tidy, TidyAt

\* The counter follows what is added and taken away.
LEMMA CountingKept ==
  ASSUME NEW g, NEW h, NEW b, Grows(g, h) \/ Pruned(g, h, b)
  PROVE  Counting(g) => Counting(h)
<1>1. CASE Grows(g, h)
  BY <1>1 DEF Grows, Counting, CounterOK
<1>2. CASE Pruned(g, h, b)
  BY <1>2 DEF Pruned, Counting, CounterOK
<1> QED BY <1>1, <1>2

LEMMA TidyGrow ==
  ASSUME NEW g, NEW h, NEW b, Grows(g, h) \/ Pruned(g, h, b),
         NEW s, Tidy(g, s)
  PROVE  Tidy(h, s)
<1>1. Counting(h)
  BY CountingKept DEF Tidy
<1>2. g.inHandler => h.inHandler
  BY DEF Grows, Pruned
<1> QED BY <1>1, <1>2, TidyState

LEMMA TidyPush ==
  ASSUME NEW g, NEW s \in Seq(Frames), NEW f \in Frames, Tidy(g, s),
         TidyAt(g, f, Len(s) + 1)
  PROVE  Tidy(g, Append(s, f))
<1> DEFINE t == Append(s, f)
           n == Len(s)
<1>1. /\ Len(t) = n + 1 /\ t[n + 1] = f /\ n \in Nat
      /\ \A i \in 1 .. n : t[i] = s[i]
  BY Pushed
<1>2. /\ \A i \in 1 .. n : TidyAt(g, s[i], i)
      /\ TidyAt(g, f, n + 1) /\ Counting(g)
  BY DEF Tidy
<1> HIDE DEF t, n
<1>3. ASSUME NEW i \in 1 .. n + 1 PROVE TidyAt(g, t[i], i)
  <2>1. i = n + 1 \/ i \in 1 .. n
    BY <1>1
  <2> QED BY <1>1, <1>2, <2>1
<1>4. Tidy(g, t)
  BY <1>1, <1>2, <1>3 DEF Tidy
<1> QED BY <1>4 DEF t

LEMMA TidySet ==
  ASSUME NEW g, NEW s \in Seq(Frames), Len(s) > 0, NEW f \in Frames, Tidy(g, s),
         TidyAt(g, f, Len(s))
  PROVE  Tidy(g, [s EXCEPT ![Len(s)] = f])
<1> DEFINE t == [s EXCEPT ![Len(s)] = f]
           n == Len(s)
<1>1. /\ Len(t) = n /\ t[n] = f /\ n \in Nat
      /\ \A i \in 1 .. n - 1 : t[i] = s[i]
  BY Replaced
<1>2. /\ \A i \in 1 .. n : TidyAt(g, s[i], i)
      /\ TidyAt(g, f, n) /\ Counting(g)
  BY DEF Tidy
<1> HIDE DEF t, n
<1>3. ASSUME NEW i \in 1 .. n PROVE TidyAt(g, t[i], i)
  <2>1. i = n \/ i \in 1 .. n - 1
    BY <1>1
  <2> QED BY <1>1, <1>2, <2>1
<1>4. Tidy(g, t)
  BY <1>1, <1>2, <1>3 DEF Tidy
<1> QED BY <1>4 DEF t

LEMMA TidyPop ==
  ASSUME NEW g, NEW s \in Seq(Frames), Len(s) > 1, Tidy(g, s)
  PROVE  Tidy(g, SubSeq(s, 1, Len(s) - 1))
<1> DEFINE t == SubSeq(s, 1, Len(s) - 1)
           n == Len(s)
<1>1. /\ Len(t) = n - 1 /\ n \in Nat /\ \A i \in 1 .. n - 1 : t[i] = s[i]
  BY Shortened
<1>2. (\A i \in 1 .. n : TidyAt(g, s[i], i)) /\ Counting(g)
  BY DEF Tidy
<1> HIDE DEF t, n
<1>3. ASSUME NEW i \in 1 .. n - 1 PROVE TidyAt(g, t[i], i)
  <2>1. i \in 1 .. n
    BY <1>1
  <2> QED BY <1>1, <1>2, <2>1
<1>4. Tidy(g, t)
  BY <1>1, <1>2, <1>3 DEF Tidy
<1> QED BY <1>4 DEF t

LEMMA PlainTidy ==
  ASSUME NEW g, NEW f, NEW i,
         f.what \in Kinds \cup {"autofunction", "main", "substitution"}
  PROVE  TidyAt(g, f, i)
BY DEF TidyAt, Kinds, Cleaning

\* main alone on the stack.
LEMMA TidyAlone ==
  ASSUME NEW g, Counting(g), NEW s, Len(s) = 1, s[1].what = "main"
  PROVE  Tidy(g, s)
<1>1. \A i \in 1 .. Len(s) : i = 1
  OBVIOUS
<1>2. TidyAt(g, s[1], 1)
  BY PlainTidy
<1> QED BY <1>1, <1>2 DEF Tidy

LEMMA TidyEnter ==
  ASSUME NEW h \in CallStacks, NEW s \in Seq(Frames), Tidy(h, s),
         NEW c \in Statements
  PROVE  Tidy(h, Entered(s, c, h))
<1> DEFINE f == Frame(c.what, "enter", c, Len(h.errors))
<1>1. f \in Frames /\ f.what \in Kinds
  BY EnteredFrame
<1>2. Entered(s, c, h) = Append(s, f)
  BY DEF Entered
<1> HIDE DEF f
<1>3. TidyAt(h, f, Len(s) + 1)
  BY <1>1, PlainTidy
<1> QED BY <1>1, <1>2, <1>3, TidyPush

LEMMA TidyContinue ==
  ASSUME NEW g \in CallStacks, NEW h, NEW auto, NEW auto2,
         NEW s \in Seq(Frames), Len(s) > 0, NEW t, Tidy(g, s),
         Continues(g, s, auto, h, t, auto2)
  PROVE  Tidy(h, t)
<1>1. Grows(g, h) /\ h \in CallStacks
  BY DEF Continues, Grows
<1>2. Tidy(h, s)
  BY <1>1, TidyGrow
<1>3. ASSUME NEW c \in Statements
      PROVE  Tidy(h, Seeking(s, c, g)) /\ Seeking(s, c, g) \in Seq(Frames)
  <2> DEFINE f == Frame("autofunction", "second", c, Len(g.errors))
  <2>1. /\ Seeking(s, c, g) = Append(s, f) /\ f \in Frames
        /\ f.what = "autofunction" /\ Seeking(s, c, g) \in Seq(Frames)
    BY SeekingTyped
  <2> HIDE DEF f
  <2>2. TidyAt(h, f, Len(s) + 1)
    BY <2>1, PlainTidy
  <2>3. Tidy(h, Append(s, f))
    BY <1>2, <2>1, <2>2, TidyPush
  <2> QED BY <2>1, <2>3
<1>4. ASSUME NEW c \in Statements PROVE Tidy(h, Entered(s, c, h))
  BY <1>1, <1>2, TidyEnter
<1>5. ASSUME NEW c \in Statements, NEW d \in Statements
      PROVE  Tidy(h, Entered(Seeking(s, c, g), d, h))
  BY <1>1, <1>3, TidyEnter
<1> QED BY <1>2, <1>3, <1>4, <1>5 DEF Continues

LEMMA TidyAdvance ==
  ASSUME Sound, Tidy(gs, stack), Advancing
  PROVE  Tidy(gs', stack')
<1>1. PICK k \in CallStacks, f \in Frames :
        /\ Grows(gs, k) \/ Pruned(gs, k, Top.base)
        /\ Successor(f, Top) /\ Plain(f)
        /\ Continues(k, [stack EXCEPT ![Len(stack)] = f], inAuto,
                     gs', stack', inAuto')
  BY DEF Advancing, Advances, Top
<1>2. stack \in Seq(Frames) /\ Len(stack) > 0
  BY TopSound
<1>3. Tidy(k, stack)
  BY <1>1, TidyGrow
<1>4. TidyAt(k, f, Len(stack))
  BY <1>1, PlainTidy DEF Plain
<1> DEFINE t == [stack EXCEPT ![Len(stack)] = f]
<1>5. Tidy(k, t)
  BY <1>1, <1>2, <1>3, <1>4, TidySet
<1>6. t \in Seq(Frames) /\ Len(t) > 0
  BY <1>1, <1>2, Replaced
<1>7. Continues(k, t, inAuto, gs', stack', inAuto')
  BY <1>1
<1> HIDE DEF t
<1> QED BY <1>1, <1>5, <1>6, <1>7, TidyContinue

\* Where the routine on top is, and what is left when it comes back.
LEMMA TidyTop ==
  ASSUME Sound, Tidy(gs, stack)
  PROVE  /\ TidyAt(gs, Top, Len(stack)) /\ Counting(gs)
         /\ Top.what # "main" => Tidy(gs, Popped)
         /\ Top.what \in Cleaning =>
              /\ Len(stack) = 2 /\ Popped \in Seq(Frames) /\ Len(Popped) = 1
              /\ Popped[1].what = "main"
<1>1. /\ stack \in Seq(Frames) /\ Len(stack) \in Nat \ {0} /\ Len(stack) > 0
      /\ Top = stack[Len(stack)] /\ Popped = SubSeq(stack, 1, Len(stack) - 1)
      /\ stack[1].what = "main"
  BY TopSound
<1>2. Len(stack) \in 1 .. Len(stack)
  BY <1>1
<1>3. TidyAt(gs, Top, Len(stack)) /\ Counting(gs)
  BY <1>1, <1>2 DEF Tidy
<1>4. ASSUME Top.what # "main"
      PROVE  /\ Tidy(gs, Popped) /\ Popped \in Seq(Frames)
             /\ Len(Popped) = Len(stack) - 1
             /\ \A j \in 1 .. Len(stack) - 1 : Popped[j] = stack[j]
  <2>1. Len(stack) > 1
    BY <1>4, CalledSound
  <2>2. Tidy(gs, Popped)
    BY <1>1, <2>1, TidyPop
  <2> QED BY <1>4, <2>2, CalledBelow
<1>5. ASSUME Top.what \in Cleaning
      PROVE  /\ Len(stack) = 2 /\ Popped \in Seq(Frames) /\ Len(Popped) = 1
             /\ Popped[1].what = "main"
  <2>1. Len(stack) = 2 /\ Top.what # "main"
    BY <1>3, <1>5 DEF TidyAt, Cleaning
  <2>2. /\ Popped \in Seq(Frames) /\ Len(Popped) = 1
        /\ \A j \in 1 .. 1 : Popped[j] = stack[j]
    BY <1>4, <2>1
  <2>3. Popped[1] = stack[1]
    BY <2>2
  <2> QED BY <1>1, <2>1, <2>2, <2>3
<1> QED BY <1>3, <1>4, <1>5
-----------------------------------------------------------------------------
\* Tidy: the routines that were called, and coming back from them.

LEMMA CountingSame ==
  ASSUME NEW g, NEW h, Counting(g), h.errors = g.errors, h.count = g.count,
         h.catchExcess = g.catchExcess
  PROVE  Counting(h)
BY DEF Counting, CounterOK

LEMMA TidyStart ==
  ASSUME NEW h \in CallStacks, Counting(h), NEW s \in Seq(Frames), Len(s) = 1,
         s[1].what = "main", NEW base \in Nat, StartHandler(h, s, base)
  PROVE  Tidy(gs', stack')
<1> DEFINE f == HandlerFrame(base)
           k == [h EXCEPT !.inHandler = TRUE, !.unwind = FALSE]
<1>1. f \in Frames /\ f.what = "handler" /\ f.pc = "next"
  BY StartedFrame
<1>2. stack' = Append(s, f) /\ gs' = k
  BY DEF StartHandler
<1>3. /\ k.inHandler = TRUE /\ k.errors = h.errors /\ k.count = h.count
      /\ k.catchExcess = h.catchExcess /\ k.collectExcess = h.collectExcess
  BY DEF CallStacks
<1> HIDE DEF f, k
<1>4. Tidy(k, s)
  BY <1>3, CountingSame, TidyAlone
<1>5. Len(s) + 1 = 2
  OBVIOUS
<1>6. TidyAt(k, f, 2)
  BY <1>1, <1>3 DEF TidyAt
<1>7. TidyAt(k, f, Len(s) + 1)
  BY <1>5, <1>6
<1> QED BY <1>1, <1>2, <1>4, <1>7, TidyPush

\* Nothing is left in the list of run_if_exists when nothing unwinds.
LEMMA OwnListEmpty ==
  ASSUME Sound, Tidy(gs, stack), Top.what = "run_if_exists", ~gs.unwind
  PROVE  SubSeq(gs.errors, 1, Top.base) = gs.errors
<1>1. /\ Len(stack) = 2 /\ TidyAt(gs, Top, Len(stack))
  BY TidyTop DEF Cleaning
<1>2. Top.mark = Top.base
  BY <1>1 DEF TidyAt
<1>3. /\ Top = stack[2] /\ AccountOnTop(gs, stack) /\ Top.base \in Nat
      /\ Top.base <= Len(gs.errors) /\ gs \in CallStacks
  BY <1>1, TopSound
<1>4. ~Choosing(Top) /\ ~Catching(Top)
  BY DEF Choosing, Between, Catching
<1>5. CalmOK(gs, stack)
  BY <1>3 DEF AccountOnTop
<1>6. ASSUME NEW p \in 1 .. Len(gs.errors) PROVE p <= Top.base
  <2>1. Known(stack, 2, p, gs.errors[p])
    BY <1>1, <1>3, <1>4, <1>5 DEF CalmOK
  <2>2. PICK j \in 2 .. 2 : Answers(stack[j], p, gs.errors[p])
    BY <2>1 DEF Known
  <2>3. j = 2
    OBVIOUS
  <2>4. Answers(Top, p, gs.errors[p])
    BY <1>3, <2>2, <2>3
  <2> QED BY <1>2, <1>4, <2>4 DEF Answers
<1>7. gs.errors \in Seq(Names) /\ Len(gs.errors) \in Nat
  BY <1>3, CallStackErrors
<1>8. Len(gs.errors) = Top.base
  <2> DEFINE n == Len(gs.errors)
  <2>1. n \in Nat /\ Top.base <= n /\ \A p \in 1 .. n : p <= Top.base
    BY <1>3, <1>6, <1>7
  <2> HIDE DEF n
  <2>2. n = 0 \/ n \in 1 .. n
    BY <2>1
  <2>3. n <= Top.base
    BY <1>3, <2>1, <2>2
  <2>4. n = Top.base
    BY <1>3, <2>1, <2>3
  <2> QED BY <2>4 DEF n
<1> QED BY <1>7, <1>8

LEMMA TidyReturns ==
  ASSUME Sound, Tidy(gs, stack),
         SecondLookup \/ Leaves \/ Substituted \/ HandlersDone \/ RanHandling
           \/ RanIfExists \/ CaughtOne
  PROVE  Tidy(gs', stack')
<1>1. /\ gs \in CallStacks /\ Len(gs.errors) \in Nat /\ gs.unwind \in BOOLEAN
      /\ stack \in Seq(Frames) /\ Top \in Frames /\ Top.base \in Nat
  BY TopSound
<1>2. ".failed_substitution" \in Names /\ ".unfinished_if_block" \in Names
  BY ThrownNames
<1>3. /\ Counting(gs) /\ (Top.what # "main" => Tidy(gs, Popped))
      /\ Top.what \in Cleaning =>
           Popped \in Seq(Frames) /\ Len(Popped) = 1 /\ Popped[1].what = "main"
  BY TidyTop
<1>4. ASSUME NEW h, Grows(gs, h), Top.what # "main" PROVE Tidy(h, Popped)
  BY <1>3, <1>4, TidyGrow
<1>5. CASE Leaves
  <2>1. Top.what # "main" /\ Grows(gs, gs') /\ stack' = Popped
    BY <1>5 DEF Leaves, Plain, Kinds
  <2> QED BY <1>4, <2>1
<1>6. CASE HandlersDone
  <2>1. /\ Top.what \in Cleaning /\ stack' = Popped
        /\ gs'.errors = gs.errors /\ gs'.count = gs.count
        /\ gs'.catchExcess = FALSE /\ gs'.collectExcess = FALSE
    BY <1>1, <1>6 DEF HandlersDone, CallStacks, Cleaning
  <2>2. Counting(gs')
    BY <1>3, <2>1 DEF Counting, CounterOK
  <2> QED BY <1>3, <2>1, <2>2, TidyAlone
<1>7. CASE CaughtOne
  <2>1. /\ Top.what \in Cleaning /\ stack' = Popped
        /\ gs'.errors = gs.errors /\ gs'.count = gs.count
        /\ gs'.catchExcess = gs.catchExcess
        /\ gs'.collectExcess = gs.collectExcess
    BY <1>1, <1>7 DEF CaughtOne, CallStacks, Cleaning
  <2>2. Counting(gs')
    BY <1>3, <2>1, CountingSame
  <2> QED BY <1>3, <2>1, <2>2, TidyAlone
<1>8. CASE RanHandling
  <2>1. PICK g : /\ Top.what \in {"run_handling", "base_run"}
                 /\ Grows(gs, g)
                 /\ IF g.unwind THEN StartHandler(g, Popped, Top.base)
                    ELSE gs' = g /\ stack' = Popped
    <3> DEFINE u == Top.what = "base_run" /\ gc.in_if /\ ~gc.thrown
               g == AddErrorIf(u, gs, ".unfinished_if_block")
    <3>1. u \in BOOLEAN
      BY DEF Sound, ShellInvariant, Conditionals
    <3>2. /\ Top.what \in {"run_handling", "base_run"}
          /\ IF g.unwind THEN StartHandler(g, Popped, Top.base)
             ELSE gs' = g /\ stack' = Popped
      BY <1>8 DEF RanHandling
    <3> HIDE DEF u
    <3>3. Grows(gs, g)
      BY <1>1, <1>2, <3>1, AddErrorIfEffect
    <3> HIDE DEF g
    <3> QED BY <3>2, <3>3
  <2>2. Top.what # "main" /\ Top.what \in Cleaning
    BY <2>1 DEF Cleaning
  <2>3. g \in CallStacks /\ Counting(g)
    BY <1>3, <2>1, CountingKept DEF Grows
  <2>4. CASE g.unwind
    BY <1>1, <1>3, <2>1, <2>2, <2>3, <2>4, TidyStart
  <2>5. CASE ~g.unwind
    BY <1>4, <2>1, <2>2, <2>5
  <2> QED BY <2>4, <2>5
<1>9. CASE RanIfExists
  <2>1. /\ Top.what = "run_if_exists" /\ Top.what \in Cleaning
        /\ IF gs.unwind THEN StartHandler(gs, Popped, Top.base)
           ELSE gs' = DestroyList(gs, Top.base) /\ stack' = Popped
    BY <1>9 DEF RanIfExists, Cleaning
  <2>2. CASE gs.unwind
    BY <1>1, <1>3, <2>1, <2>2, TidyStart
  <2>3. CASE ~gs.unwind
    <3>1. /\ gs'.errors = SubSeq(gs.errors, 1, Top.base)
          /\ gs'.count = gs.count /\ gs'.catchExcess = gs.catchExcess
          /\ gs'.collectExcess = gs.collectExcess /\ stack' = Popped
      BY <1>1, <2>1, <2>3 DEF DestroyList, CallStacks
    <3>2. gs'.errors = gs.errors
      BY <2>1, <2>3, <3>1, OwnListEmpty
    <3>3. Counting(gs')
      BY <1>3, <3>1, <3>2, CountingSame
    <3> QED BY <1>3, <2>1, <3>1, <3>3, TidyAlone
  <2> QED BY <2>2, <2>3
<1>10. CASE Substituted
  <2> DEFINE g == AddErrorIf(gs.unwind, gs, ".failed_substitution")
  <2>1. /\ Top.what # "main" /\ stack' = Popped
        /\ gs' = [g EXCEPT !.unwind = Top.flag \/ g.unwind]
    BY <1>10 DEF Substituted
  <2>2. Grows(gs, g)
    BY <1>1, <1>2, AddErrorIfEffect
  <2> HIDE DEF g
  <2>3. Tidy(g, Popped) /\ g \in CallStacks
    BY <1>4, <2>1, <2>2 DEF Grows
  <2>4. /\ gs'.errors = g.errors /\ gs'.count = g.count
        /\ gs'.catchExcess = g.catchExcess /\ gs'.collectExcess = g.collectExcess
        /\ gs'.inHandler = g.inHandler
    BY <2>1, <2>3 DEF CallStacks
  <2>5. Counting(gs')
    BY <2>3, <2>4, CountingSame DEF Tidy
  <2> QED BY <2>1, <2>3, <2>4, <2>5, TidyState
<1>11. CASE SecondLookup
  <2>1. /\ Top.what # "main"
        /\ Call(gs, Popped, Top.cmd)
           \/ (gs' = AddError(gs, ".function_not_found") /\ stack' = Popped)
    BY <1>11 DEF SecondLookup
  <2>2. Top.cmd \in Statements /\ ".function_not_found" \in Names
    BY TopSound, ThrownNames DEF FromScript
  <2>3. CASE gs' = AddError(gs, ".function_not_found") /\ stack' = Popped
    <3>1. Grows(gs, gs')
      BY <1>1, <2>2, <2>3, AddErrorEffect
    <3> QED BY <1>4, <2>1, <2>3, <3>1
  <2>4. CASE Call(gs, Popped, Top.cmd)
    <3>1. Popped \in Seq(Frames)
      BY <2>1, CalledBelow
    <3>2. Grows(gs, gs')
          /\ (stack' = Popped
                \/ (~gs'.unwind /\ stack' = Entered(Popped, Top.cmd, gs')))
      BY <1>1, <2>4, CallEffect
    <3>3. Tidy(gs', Popped) /\ gs' \in CallStacks
      BY <1>4, <2>1, <3>2 DEF Grows
    <3> QED BY <2>2, <3>1, <3>2, <3>3, TidyEnter
  <2> QED BY <2>1, <2>3, <2>4
<1> QED BY <1>5, <1>6, <1>7, <1>8, <1>9, <1>10, <1>11
-----------------------------------------------------------------------------
\* Tidy: substitutions, handlers, collectors and what else may happen.

LEMMA TidyMoved ==
  ASSUME Sound, Tidy(gs, stack), NEW f \in Frames, NEW h, Counting(h),
         gs.inHandler => h.inHandler, TidyAt(h, f, Len(stack))
  PROVE  /\ Tidy(h, SetTop(f)) /\ SetTop(f) \in Seq(Frames)
         /\ Len(SetTop(f)) > 0 /\ Len(SetTop(f)) = Len(stack)
<1>1. stack \in Seq(Frames) /\ Len(stack) > 0
  BY TopSound
<1>2. Tidy(h, stack)
  BY TidyState
<1> QED BY <1>1, <1>2, TidySet, Replaced DEF SetTop

LEMMA TidySubstitute ==
  ASSUME Sound, Tidy(gs, stack), Substitute
  PROVE  Tidy(gs', stack')
<1>1. /\ gs \in CallStacks /\ Len(gs.errors) \in Nat /\ gs.unwind \in BOOLEAN
      /\ stack \in Seq(Frames) /\ Counting(gs)
  BY TopSound, TidyTop
<1> DEFINE f == [Frame("substitution", "ran", Argfunction, Len(gs.errors))
                   EXCEPT !.flag = gs.unwind]
           g == [gs EXCEPT !.unwind = FALSE]
           t == Append(stack, f)
<1>2. /\ Call(g, t, Argfunction) /\ UNCHANGED inAuto
      /\ g \in CallStacks /\ g.errors = gs.errors /\ g.count = gs.count
      /\ g.inHandler = gs.inHandler /\ g.catchExcess = gs.catchExcess
      /\ g.collectExcess = gs.collectExcess
  BY <1>1 DEF Substitute, CallStacks
<1>3. f \in Frames /\ f.what = "substitution"
  BY <1>1, SubstitutionFrame
<1> HIDE DEF f, g
<1>4. Tidy(g, stack)
  BY <1>1, <1>2, CountingSame, TidyState
<1>5. TidyAt(g, f, Len(stack) + 1)
  BY <1>3, PlainTidy
<1>6. Tidy(g, t) /\ t \in Seq(Frames) /\ Len(t) > 0
  BY <1>1, <1>3, <1>4, <1>5, TidyPush, Pushed
<1> HIDE DEF t
<1>7. Continues(g, t, inAuto, gs', stack', inAuto')
  BY <1>2, CallContinues, StatementsTyped
<1> QED BY <1>2, <1>6, <1>7, TidyContinue

\* An exception leaves the list, and is counted out.
LEMMA CountingRemoved ==
  ASSUME NEW g \in CallStacks, Counting(g), NEW i \in Nat, g.errors # << >>
  PROVE  /\ Counting(RemoveError(g, i))
         /\ RemoveError(g, i).inHandler = g.inHandler
<1> DEFINE h == RemoveError(g, i)
           n == Len(g.errors)
<1>1. Len(h.errors) = n - 1 /\ n \in Int
  BY RemoveErrorType, CallStackErrors
<1>2. /\ h.count = Counted(g.count - 1) /\ h.catchExcess = g.catchExcess
      /\ h.collectExcess = g.collectExcess /\ h.inHandler = g.inHandler
  BY DEF RemoveError, CallStacks
<1>3. Counting(g) /\ n = Len(g.errors)
  OBVIOUS
<1> HIDE DEF h, n
<1>4. \A c : c = Counted(n) => Counted(c - 1) = Counted(n - 1)
  BY <1>1, CountedAlong
<1>5. Counting(h)
  BY <1>1, <1>2, <1>3, <1>4 DEF Counting, CounterOK
<1> QED BY <1>2, <1>5 DEF h

LEMMA TidyHandler ==
  ASSUME Sound, Tidy(gs, stack), HandleNext \/ HandlerReturned
  PROVE  Tidy(gs', stack')
<1>1. /\ gs \in CallStacks /\ Len(gs.errors) \in Nat
      /\ gs.errors \in Seq(Names)
      /\ stack \in Seq(Frames) /\ Top \in Frames /\ Top.base \in Nat
      /\ Top.mark \in Nat /\ Top.base <= Len(gs.errors)
  BY TopSound, CallStackErrors
<1>2. Top.what = "handler"
  BY DEF HandleNext, HandlerReturned
<1>3. /\ Counting(gs) /\ gs.inHandler /\ Len(stack) = 2
  BY <1>2, TidyTop DEF TidyAt, Cleaning
<1>4. CASE HandleNext /\ gs.errors[Top.base + 1] \in Top.failed
  <2>1. /\ gs' = RemoveError(gs, Top.base + 1) /\ stack' = stack
        /\ Len(gs.errors) > Top.base
    BY <1>4 DEF HandleNext
  <2>2. gs.errors # << >> /\ Top.base + 1 \in Nat
    BY <1>1, <2>1
  <2>3. Counting(gs') /\ gs'.inHandler = gs.inHandler
    BY <1>1, <1>3, <2>1, <2>2, CountingRemoved
  <2> QED BY <2>1, <2>3, TidyState
<1>5. CASE HandleNext /\ gs.errors[Top.base + 1] \notin Top.failed
  <2> DEFINE n == Len(gs.errors)
             front == gs.errors[Top.base + 1]
             c == CallOf(front)
             f == [Top EXCEPT !.pc = "ran", !.prev = gs.count, !.stmt = c,
                              !.mark = n]
  <2>1. Top.pc = "next" /\ n > Top.base /\ Run(gs, SetTop(f), c)
    BY <1>5 DEF HandleNext
  <2>m. front \notin Top.failed
    BY <1>5
  <2>2. front \in Names
    <3>1. Top.base + 1 \in 1 .. n
      BY <1>1, <2>1
    <3> QED BY <1>1, <3>1, CallStackErrors
  <2>3. /\ n \in Nat /\ c \in Statements /\ gs.count \in Nat
        /\ Faithful => gs.count = Counted(n)
    BY <1>1, <1>3, <2>2, StatementsTyped, LimitsAssumption
       DEF CallStacks, Counting, CounterOK
  <2>n. c.name \notin Top.failed
    BY <2>m DEF CallOf, Command
  <2> HIDE DEF n, front, c
  <2>4. /\ f \in Frames /\ f.what = "handler" /\ f.mark = n
        /\ f.prev = gs.count /\ f.stmt = c /\ f.failed = Top.failed
    <3>1. c \in CommandType /\ "ran" \in Places
      BY <2>3, StatementsTyped DEF Places
    <3> QED BY <1>1, <1>2, <2>3, <3>1 DEF Frames
  <2> HIDE DEF f
  <2>5. TidyAt(gs, f, 2)
    <3>1. f.stmt.name \notin f.failed
      BY <2>n, <2>4
    <3> QED BY <1>3, <2>3, <2>4, <3>1 DEF TidyAt
  <2>6. /\ Tidy(gs, SetTop(f)) /\ SetTop(f) \in Seq(Frames)
        /\ Len(SetTop(f)) > 0
    BY <1>3, <2>4, <2>5, TidyMoved
  <2>7. Continues(gs, SetTop(f), inAuto, gs', stack', inAuto')
    BY <1>1, <2>1, <2>3, RunContinues
  <2> QED BY <1>1, <2>6, <2>7, TidyContinue
<1>6. CASE HandlerReturned
  <2>1. PICK S : stack' = SetTop([Top EXCEPT !.pc = "next", !.failed = S])
    BY <1>6 DEF HandlerReturned
  <2> DEFINE f == [Top EXCEPT !.pc = "next", !.failed = S]
             k == [gs EXCEPT !.errors = LastToSecond(gs.errors, Top.base),
                             !.unwind = FALSE]
  <2>2. f \in Frames
    BY <2>1, SetFrame, NextOK, <1>6 DEF Sound, Next, InterpreterNext
  <2>3. f.what = "handler" /\ f.pc = "next" /\ stack' = SetTop(f)
    BY <1>1, <1>2, <2>1 DEF Frames
  <2> HIDE DEF f
  <2>4. \/ gs' = RemoveError(k, Top.base + 1)
        \/ gs' = RemoveError(gs, Top.base + 1)
    BY <1>6 DEF HandlerReturned
  <2>5. gs.errors # << >>
    <3>1. Top.pc = "ran" /\ ~Choosing(Top) /\ Absorbing(Top)
      BY <1>2, <1>6 DEF HandlerReturned, Choosing, Between, Absorbing, HelperKinds
    <3>2. FrameOK(Top, Len(gs.errors))
      BY TopOK DEF Sound, ShellInvariant
    <3>3. Top.base < Top.mark
      BY <1>2, <3>1, <3>2 DEF FrameOK
    <3>4. Top.mark <= Len(gs.errors)
      BY <1>2, <3>1, CalledSound
    <3> QED BY <1>1, <3>3, <3>4
  <2>6. /\ k \in CallStacks /\ Len(k.errors) = Len(gs.errors)
        /\ k.count = gs.count /\ k.catchExcess = gs.catchExcess
        /\ k.collectExcess = gs.collectExcess /\ k.inHandler = gs.inHandler
    <3> DEFINE e == LastToSecond(gs.errors, Top.base)
    <3>1. e \in Seq(Names) /\ Len(e) = Len(gs.errors)
      BY <1>1, LastToSecondType
    <3>2. k = [gs EXCEPT !.errors = e, !.unwind = FALSE]
      OBVIOUS
    <3> HIDE DEF e, k
    <3> QED BY <1>1, <3>1, <3>2 DEF CallStacks
  <2> HIDE DEF k
  <2>7. k.errors # << >>
    <3>1. Len(gs.errors) # 0
      BY <1>1, <2>5
    <3> QED BY <2>6, <3>1
  <2>8. Counting(k)
    BY <1>3, <2>6 DEF Counting, CounterOK
  <2>9. Top.base + 1 \in Nat
    BY <1>1
  <2>10. Counting(gs') /\ gs'.inHandler = gs.inHandler
    BY <1>1, <1>3, <2>4, <2>5, <2>6, <2>7, <2>8, <2>9, CountingRemoved
  <2>11. TidyAt(gs', f, 2)
    BY <1>3, <2>3, <2>10 DEF TidyAt
  <2> QED BY <1>3, <2>2, <2>3, <2>10, <2>11, TidyMoved
<1> QED BY <1>4, <1>5, <1>6

\* A shell without exceptions has counted none.
LEMMA CountedZero == Counted(0) = 0
<1> DEFINE n == CountLimit
<1>1. n \in Nat \ {0}
  BY LimitsAssumption
<1> HIDE DEF n
<1>2. 0 = n * 0 + 0 /\ 0 \in 0 .. n - 1
  BY <1>1
<1>3. 0 % n = 0
  BY <1>1, <1>2, Remainder
<1> QED BY <1>3 DEF n, Counted

\* An exception joins the list without unwinding, and is counted.
LEMMA CountingReplaced ==
  ASSUME NEW g \in CallStacks, Counting(g), NEW name \in Names
  PROVE  /\ Counting(ReplaceError(g, name))
         /\ ReplaceError(g, name).inHandler = g.inHandler
<1> DEFINE h == ReplaceError(g, name)
           n == Len(g.errors)
<1>1. Len(h.errors) = n + 1 /\ n \in Int
  BY CallStackErrors DEF ReplaceError, CallStacks
<1>2. /\ h.count = Counted(g.count + 1) /\ h.catchExcess = g.catchExcess
      /\ h.collectExcess = g.collectExcess /\ h.inHandler = g.inHandler
  BY DEF ReplaceError, CallStacks
<1>3. Counting(g) /\ n = Len(g.errors)
  OBVIOUS
<1> HIDE DEF h, n
<1>4. \A c : c = Counted(n) => Counted(c + 1) = Counted(n + 1)
  BY <1>1, CountedAlong
<1>5. Counting(h)
  BY <1>1, <1>2, <1>3, <1>4 DEF Counting, CounterOK
<1> QED BY <1>2, <1>5 DEF h

LEMMA TidyReplace ==
  ASSUME Sound, Tidy(gs, stack), Replace
  PROVE  Tidy(gs', stack')
<1>1. /\ gs \in CallStacks /\ Len(gs.errors) \in Nat /\ Top \in Frames
      /\ Origins(gs, inAuto, stack) /\ ShellInvariant /\ Rooted(stack)
      /\ Counting(gs)
  BY TopSound, TidyTop DEF Sound, Origins
<1>2. /\ Top.what = "replace" /\ Top.pc = "enter" /\ UNCHANGED inAuto
      /\ stack' = Goto("return")
      /\ gs' = IF gs.inHandler THEN ReplaceError(gs, Top.cmd.name)
               ELSE AddError(gs, ".not_catching_exception")
  BY DEF Replace, Finish
<1>3. Top.cmd.name \in Names
  BY <1>1 DEF Frames, CommandType
<1>4. AtPlain("return") /\ "return" \in Places /\ Top.what \in Kinds
  <2>1. Top.what \in Kinds /\ "return" \in Places
    BY <1>2 DEF Kinds, Places
  <2> QED BY <1>1, <1>2, <2>1, PlainAt DEF AtPlain
<1>5. CASE ~gs.inHandler
  <2>1. Grows(gs, gs')
    BY <1>1, <1>2, <1>5, ThrownNames, AddErrorEffect
  <2>2. Advancing
    BY <1>2, <1>4, <2>1, AdvanceGoto
  <2> QED BY <2>2, TidyAdvance
<1>6. CASE gs.inHandler
  <2> DEFINE f == [Top EXCEPT !.pc = "return"]
  <2>1. f \in Frames /\ f.what = Top.what /\ Goto("return") = SetTop(f)
    BY <1>1, <1>4, MovedOnly
  <2> HIDE DEF f
  <2>2. TidyAt(gs', f, Len(stack))
    BY <1>4, <2>1, PlainTidy
  <2>3. Counting(gs') /\ gs'.inHandler = gs.inHandler
    BY <1>1, <1>2, <1>3, <1>6, CountingReplaced
  <2> QED BY <1>2, <2>1, <2>2, <2>3, TidyMoved
<1> QED BY <1>5, <1>6

\* A collector takes the list of a statement whose interpretation throws with it.
\* The counter stays right because that list is empty, unless a substitution in
\* the same arguments has failed.
LEMMA UndefinedCounted ==
  ASSUME NEW g \in CallStacks, Counting(g),
         Faithful => SubSeq(g.errors, 1, Len(g.errors)) = g.errors,
         NEW m \in 0 .. Len(g.errors), Faithful => m = Len(g.errors)
  PROVE  /\ Counting(AddError(DestroyList(g, m), ".undefined_variable"))
         /\ AddError(DestroyList(g, m), ".undefined_variable").inHandler
              = g.inHandler
<1> DEFINE d == DestroyList(g, m)
           h == AddError(d, ".undefined_variable")
<1>1. /\ d \in CallStacks /\ d.errors = SubSeq(g.errors, 1, m)
      /\ d.count = g.count /\ d.catchExcess = g.catchExcess
      /\ d.inHandler = g.inHandler
  BY DestroyListType DEF DestroyList, CallStacks
<1>2. Counting(d)
  <2>1. Faithful => d.errors = g.errors
    BY <1>1
  <2> HIDE DEF d
  <2> QED BY <1>1, <2>1 DEF Counting, CounterOK
<1> HIDE DEF d
<1>3. Grows(d, h)
  BY <1>1, ThrownNames, AddErrorEffect
<1>4. h.inHandler = d.inHandler
  BY <1>3 DEF Grows
<1> HIDE DEF h
<1>5. Counting(h)
  BY <1>2, <1>3, CountingKept
<1> QED BY <1>1, <1>4, <1>5 DEF h, d

LEMMA TidyCollect ==
  ASSUME Sound, Tidy(gs, stack), Fresh(gs, stack),
         \/ EnterCollect \/ CollectNext \/ CollectExcess \/ CollectEnd
         \/ CollectUndefined \/ CollectRun \/ CollectRan
  PROVE  Tidy(gs', stack')
<1>1. /\ gs \in CallStacks /\ Top \in Frames /\ FromScript(Top)
      /\ Top.stmt \in Statements /\ Counting(gs) /\ inAuto \in BOOLEAN
      /\ Len(gs.errors) \in Nat
  BY TopSound, TidyTop
<1>2. Top.what = "collect" /\ "collect" \in Kinds \ {"call", "block", "throw"}
  BY DEF EnterCollect, CollectNext, CollectExcess, CollectEnd,
         CollectUndefined, CollectRun, CollectRan, Kinds
<1>3. ~Never("collect")
  BY <1>1, <1>2, NotInScripts
<1>4. ShellInvariant'
  BY NextOK DEF Sound, Next, ControlFlowNext
<1>5. \A h : \A f \in Frames : f.what = "collect" => TidyAt(h, f, Len(stack))
  BY <1>2, PlainTidy
<1>6. ASSUME NEW f, stack' = SetTop(f), f.what = "collect",
             Counting(gs'), gs'.inHandler = gs.inHandler
      PROVE  Tidy(gs', stack')
  <2>1. f \in Frames
    BY <1>4, <1>6, SetFrame DEF Sound
  <2> QED BY <1>5, <1>6, <2>1, TidyMoved
<1>7. ASSUME NEW pc, stack' = Goto(pc), Counting(gs'),
             gs'.inHandler = gs.inHandler
      PROVE  Tidy(gs', stack')
  <2>1. [Top EXCEPT !.pc = pc].what = "collect"
    BY <1>1, <1>2 DEF Frames
  <2> QED BY <1>6, <1>7, <2>1 DEF Goto
<1>8. CASE EnterCollect
  BY <1>1, <1>7, <1>8 DEF EnterCollect
<1>9. CASE CollectNext
  <2>1. PICK c : /\ stack' = SetTop([Top EXCEPT !.pc = "arguments", !.stmt = c,
                                               !.mark = Len(gs.errors)])
                 /\ gs' = gs
    BY <1>9 DEF CollectNext
  <2>2. [Top EXCEPT !.pc = "arguments", !.stmt = c,
                    !.mark = Len(gs.errors)].what = "collect"
    BY <1>1, <1>2 DEF Frames
  <2> QED BY <1>1, <1>6, <2>1, <2>2
<1>10. CASE CollectExcess
  <2> DEFINE g == AddErrorIf(~gs.collectExcess, gs,
                             ".excessive_exceptions_collected")
  <2>1. /\ stack' = Goto("return")
        /\ gs' = [g EXCEPT !.unwind = TRUE, !.collectExcess = TRUE]
    BY <1>10 DEF CollectExcess
  <2>2. Grows(gs, g)
    <3>1. (~gs.collectExcess) \in BOOLEAN
      OBVIOUS
    <3> QED BY <1>1, <3>1, ThrownNames, AddErrorIfEffect
  <2> HIDE DEF g
  <2>3. /\ g \in CallStacks /\ g.inHandler = gs.inHandler /\ Counting(g)
    BY <1>1, <2>2, CountingKept DEF Grows
  <2>4. /\ gs'.errors = g.errors /\ gs'.count = g.count
        /\ gs'.catchExcess = g.catchExcess /\ gs'.inHandler = gs.inHandler
    BY <2>1, <2>3 DEF CallStacks
  <2>5. Counting(gs')
    BY <2>3, <2>4, CountingSame
  <2> QED BY <1>7, <2>1, <2>4, <2>5
<1>11. CASE CollectEnd
  <2>1. /\ gs'.errors = gs.errors /\ gs'.count = gs.count
        /\ gs'.catchExcess = gs.catchExcess /\ gs'.inHandler = gs.inHandler
        /\ stack' = Goto("return")
    BY <1>1, <1>11 DEF CollectEnd, Finish, CallStacks
  <2>2. Counting(gs')
    BY <1>1, <2>1, CountingSame
  <2> QED BY <1>7, <2>1, <2>2
<1>12. CASE CollectUndefined
  <2>1. /\ gs' = AddError(DestroyList(gs, Top.mark), ".undefined_variable")
        /\ stack' = Goto("return") /\ Top.pc = "arguments"
        /\ "undefined" \in Faults
    BY <1>12 DEF CollectUndefined
  <2>2. Top.mark \in 0 .. Len(gs.errors)
    <3>1. FrameOK(Top, Len(gs.errors)) /\ Top.mark \in Nat
      BY <1>1, TopOK DEF Sound, ShellInvariant, Frames
    <3>2. Holding(Top)
      BY <1>2, <2>1 DEF Holding
    <3>3. Top.mark <= Len(gs.errors)
      BY <3>1, <3>2 DEF FrameOK, Low
    <3> QED BY <1>1, <3>1, <3>3
  <2>3. Faithful => Top.mark = Len(gs.errors)
    <3>1. ASSUME Faithful PROVE "substitution" \notin Faults
      BY <1>3, <2>1, <3>1 DEF Faithful
    <3>2. Len(stack) \in 1 .. Len(stack) /\ Top = stack[Len(stack)]
      BY TopSound
    <3>3. Collecting(Top)
      BY <1>2, <2>1 DEF Collecting
    <3> QED BY <3>1, <3>2, <3>3 DEF Fresh
  <2>4. SubSeq(gs.errors, 1, Len(gs.errors)) = gs.errors
    BY <1>1 DEF CallStacks
  <2>5. Counting(gs') /\ gs'.inHandler = gs.inHandler
    BY <1>1, <2>1, <2>2, <2>3, <2>4, UndefinedCounted
  <2> QED BY <1>7, <2>1, <2>5
<1>13. CASE CollectRan
  <2>1. /\ gs'.errors = gs.errors /\ gs'.count = gs.count
        /\ gs'.catchExcess = gs.catchExcess /\ gs'.inHandler = gs.inHandler
        /\ stack' = Goto("next")
    BY <1>1, <1>13 DEF CollectRan, CallStacks
  <2>2. Counting(gs')
    BY <1>1, <2>1, CountingSame
  <2> QED BY <1>7, <2>1, <2>2
<1>14. CASE CollectRun
  <2>1. CASE stack' = Goto("ran") /\ gs' = gs
    BY <1>1, <1>7, <2>1
  <2>2. CASE Run(gs, Goto("ran"), Top.stmt)
    <3> DEFINE f == [Top EXCEPT !.pc = "ran"]
    <3>1. f \in Frames /\ f.what = "collect" /\ Goto("ran") = SetTop(f)
      <4>1. "ran" \in Places
        BY DEF Places
      <4> QED BY <1>2, <4>1, MovedOnly DEF Sound
    <3> HIDE DEF f
    <3>2. /\ Tidy(gs, SetTop(f)) /\ SetTop(f) \in Seq(Frames)
          /\ Len(SetTop(f)) > 0
      <4>1. TidyAt(gs, f, Len(stack)) /\ (gs.inHandler => gs.inHandler)
        BY <1>5, <3>1
      <4> QED BY <1>1, <3>1, <4>1, TidyMoved
    <3>3. Continues(gs, SetTop(f), inAuto, gs', stack', inAuto')
      BY <1>1, <2>2, <3>1, RunContinues
    <3> QED BY <1>1, <3>2, <3>3, TidyContinue
  <2> QED BY <1>14, <2>1, <2>2 DEF CollectRun
<1> QED BY <1>8, <1>9, <1>10, <1>11, <1>12, <1>13, <1>14

LEMMA TidyOthers ==
  ASSUME Sound, Tidy(gs, stack), CatchSignal \/ StepwiseAborts
  PROVE  Tidy(gs', stack')
<1>1. CASE CatchSignal
  <2>1. /\ stack' = stack /\ gs'.errors = gs.errors /\ gs'.count = gs.count
        /\ gs'.catchExcess = gs.catchExcess
        /\ gs'.collectExcess = gs.collectExcess
        /\ gs'.inHandler = gs.inHandler
    BY <1>1, TopSound DEF CatchSignal, CallStacks
  <2>2. Counting(gs')
    BY <2>1, TidyTop, CountingSame
  <2> QED BY <2>1, <2>2, TidyState
<1>2. CASE StepwiseAborts
  <2>1. /\ stack' = << Frame("main", "aborted", Argfunction, 0) >>
        /\ gs' = InitialCallStack
    BY <1>2 DEF StepwiseAborts, Abort
  <2>2. Len(stack') = 1 /\ stack'[1].what = "main"
    BY <2>1 DEF Frame
  <2>3. Counting(InitialCallStack)
    BY CountedZero DEF Counting, CounterOK, InitialCallStack
  <2> QED BY <2>1, <2>2, <2>3, TidyAlone
<1> QED BY <1>1, <1>2


-----------------------------------------------------------------------------
\* Tidy: what main and its reader start.

\* A routine of main's runs an executable.
LEMMA TidyHelper ==
  ASSUME NEW h \in CallStacks, Counting(h), NEW s \in Seq(Frames), Len(s) = 1,
         s[1].what = "main", NEW f \in Frames, TidyAt(h, f, 2),
         NEW auto, NEW auto2, NEW k, NEW t,
         Continues(h, Append(s, f), auto, k, t, auto2)
  PROVE  Tidy(k, t)
<1>1. Tidy(h, s) /\ Len(s) + 1 = 2 /\ s \in Seq(Frames)
  BY TidyAlone
<1>2. TidyAt(h, f, Len(s) + 1)
  <2>1. Len(s) + 1 = 2
    OBVIOUS
  <2> QED BY <2>1
<1>3. Tidy(h, Append(s, f))
  BY <1>1, <1>2, TidyPush
<1>4. Append(s, f) \in Seq(Frames) /\ Len(Append(s, f)) > 0
  BY Pushed
<1> DEFINE u == Append(s, f)
<1>5. u \in Seq(Frames) /\ Len(u) > 0 /\ Tidy(h, u) /\ Continues(h, u, auto, k, t, auto2)
  BY <1>3, <1>4
<1> HIDE DEF u
<1> QED BY <1>5, TidyContinue

LEMMA TidyHandling ==
  ASSUME NEW g \in CallStacks, Counting(g), NEW s \in Seq(Frames), Len(s) = 1,
         s[1].what = "main",
         NEW what \in {"run_handling", "base_run"}, NEW base \in Nat,
         NEW c \in Statements, RunHandling(g, s, what, base, c)
  PROVE  Tidy(gs', stack')
<1> DEFINE f == [Frame(what, "ran", c, base) EXCEPT !.mark = Len(g.errors)]
           t == Append(s, f)
<1>1. f \in Frames /\ f.what = what
  <2>1. Len(g.errors) \in Nat
    BY CallStackErrors
  <2> QED BY <2>1, HandlingFrame
<1>2. Run(g, t, c)
  BY DEF RunHandling
<1> HIDE DEF f
<1>3. TidyAt(g, f, 2)
  BY <1>1 DEF TidyAt
<1>4. Continues(g, t, inAuto, gs', stack', inAuto')
  <2> HIDE DEF t
  <2> QED BY <1>2, RunContinues
<1> QED BY <1>1, <1>3, <1>4, TidyHelper

LEMMA TidyIfExists ==
  ASSUME NEW g \in CallStacks, Counting(g), NEW s \in Seq(Frames), Len(s) = 1,
         s[1].what = "main", NEW name \in Names, RunIfExists(g, s, name)
  PROVE  Tidy(gs', stack')
<1> DEFINE c == CallOf(name)
           f == Frame("run_if_exists", "ran", c, Len(g.errors))
           t == Append(s, f)
<1>1. c \in Statements
  BY StatementsTyped
<1>2. CASE name \in Defined
  <2>1. Call(g, t, c)
    BY <1>2 DEF RunIfExists
  <2>2. f \in Frames /\ f.what = "run_if_exists" /\ f.mark = f.base
    <3> HIDE DEF c
    <3> QED BY <1>1, HelperFrame
  <2> HIDE DEF c, f
  <2>3. Continues(g, t, inAuto, gs', stack', inAuto)
    <3> HIDE DEF t
    <3> QED BY <1>1, <2>1, CallEffect DEF Continues
  <2>4. TidyAt(g, f, 2)
    BY <2>2 DEF TidyAt
  <2> QED BY <2>2, <2>3, <2>4, TidyHelper
<1>3. CASE name \notin Defined
  <2>1. gs' = g /\ stack' = s
    BY <1>3 DEF RunIfExists
  <2> QED BY <2>1, TidyAlone
<1> QED BY <1>2, <1>3

LEMMA TidyCatchOne ==
  ASSUME NEW h \in CallStacks, Counting(h), NEW s \in Seq(Frames), Len(s) = 1,
         s[1].what = "main", NEW c \in Statements, CatchOne(h, s, c)
  PROVE  Tidy(gs', stack')
<1> DEFINE f == Frame("catch_one", "ran", c, Len(h.errors))
           t == Append(s, f)
           k == [h EXCEPT !.inHandler = TRUE, !.unwind = FALSE]
<1>1. /\ f \in Frames /\ f.what = "catch_one"
  BY HelperFrame
<1>2. /\ Run(k, t, c) /\ k \in CallStacks /\ k.errors = h.errors
      /\ k.inHandler = TRUE /\ k.count = h.count
      /\ k.catchExcess = h.catchExcess /\ k.collectExcess = h.collectExcess
  BY DEF CatchOne, CallStacks
<1> HIDE DEF f, k
<1>3. Counting(k)
  BY <1>2, CountingSame
<1>4. TidyAt(k, f, 2)
  BY <1>1, <1>2 DEF TidyAt
<1>5. Continues(k, t, inAuto, gs', stack', inAuto')
  <2> HIDE DEF t
  <2> QED BY <1>2, RunContinues
<1> QED BY <1>1, <1>2, <1>3, <1>4, <1>5, TidyHelper

\* An empty list is an uncounted one.
LEMMA CountingReset ==
  ASSUME NEW g \in CallStacks, Counting(g)
  PROVE  /\ Counting(Reset(g, 0)) /\ Reset(g, 0) \in CallStacks
         /\ Len(Reset(g, 0).errors) = 0
<1>1. 0 \in 0 .. Len(g.errors)
  BY CallStackErrors
<1> DEFINE r == Reset(g, 0)
           n == Len(r.errors)
<1>2. /\ r \in CallStacks /\ r.count = 0
      /\ r.collectExcess = g.collectExcess /\ r.catchExcess = g.catchExcess
  BY <1>1, ResetFields
<1>3. n = 0
  BY <1>1, ResetEffect
<1>4. Counting(g) /\ n = Len(r.errors)
  OBVIOUS
<1> HIDE DEF r, n
<1>5. Counting(r)
  BY <1>2, <1>3, <1>4, CountedZero DEF Counting, CounterOK
<1> QED BY <1>2, <1>3, <1>5 DEF r, n

\* main is alone when it is on top, whatever it notes in its frame.
LEMMA MainAlone ==
  ASSUME Sound, Top.what = "main"
  PROVE  /\ Len(stack) = 1 /\ Top.base = 0 /\ stack[1] = Top
         /\ \A f \in Frames : f.what = "main" =>
              /\ SetTop(f) \in Seq(Frames) /\ Len(SetTop(f)) = 1
              /\ SetTop(f)[1].what = "main"
<1>1. /\ stack \in Seq(Frames) /\ Len(stack) > 0 /\ Top = stack[Len(stack)]
      /\ ShellInvariant /\ Rooted(stack)
  BY TopSound DEF Sound, Origins
<1>2. Len(stack) = 1 /\ Top.base = 0
  BY <1>1, TopOfOrigins
<1>3. ASSUME NEW f \in Frames
      PROVE  /\ SetTop(f) \in Seq(Frames) /\ Len(SetTop(f)) = 1
             /\ SetTop(f)[1] = f
  <2>1. /\ SetTop(f) \in Seq(Frames) /\ Len(SetTop(f)) = Len(stack)
        /\ SetTop(f)[Len(stack)] = f
    BY <1>1, Replaced DEF SetTop
  <2> QED BY <1>2, <2>1
<1> QED BY <1>1, <1>2, <1>3

LEMMA TidyGetline ==
  ASSUME Never("source"), Sound, Tidy(gs, stack),
         \/ GetlineFails \/ GetlineEnd \/ GetlineUnclosed \/ GetlineIncomplete
         \/ GetlineMalformed \/ GetlineComplete
  PROVE  Tidy(gs', stack')
<1>1. /\ gs \in CallStacks /\ Counting(gs) /\ FromScript(Top)
      /\ Top.what \in {"main", "source"}
  BY TopSound, TidyTop
     DEF GetlineFails, GetlineEnd, GetlineUnclosed, GetlineIncomplete,
         GetlineMalformed, GetlineComplete, ReadingLine
<1>2. Top.what = "main"
  <2>1. "source" \in Kinds \ {"call", "block", "throw"}
    BY DEF Kinds
  <2> QED BY <1>1, <2>1, NotInScripts
<1>3. Top.base = 0
  BY <1>2, MainAlone
<1>4. RawCommand \in Statements /\ "run_handling" \in {"run_handling", "base_run"}
  BY StatementsTyped, NamesInUse DEF RawCommand
<1>5. {".unclosed_brace", ".mismatched_brace"} \subseteq Names
  BY ShellNames DEF ShellExceptions
<1>6. "got" \in Places /\ "more" \in Places /\ "unclosed" \in Places /\ TRUE \in BOOLEAN
  BY ReaderPlaces
<1> DEFINE r == Reset(gs, 0)
<1>7. r \in CallStacks /\ Counting(r) /\ Len(r.errors) = 0
  BY <1>1, CountingReset
<1> HIDE DEF r
<1>8. ASSUME NEW pc \in Places
      PROVE  /\ Goto(pc) \in Seq(Frames) /\ Len(Goto(pc)) = 1
             /\ Goto(pc)[1].what = "main"
             /\ SetTop([Top EXCEPT !.pc = pc, !.flag = TRUE]) \in Seq(Frames)
             /\ Len(SetTop([Top EXCEPT !.pc = pc, !.flag = TRUE])) = 1
             /\ SetTop([Top EXCEPT !.pc = pc, !.flag = TRUE])[1].what = "main"
  <2>1. /\ [Top EXCEPT !.pc = pc] \in Frames
        /\ [Top EXCEPT !.pc = pc].what = "main"
        /\ Goto(pc) = SetTop([Top EXCEPT !.pc = pc])
        /\ [Top EXCEPT !.pc = pc, !.flag = TRUE] \in Frames
        /\ [Top EXCEPT !.pc = pc, !.flag = TRUE].what = "main"
    BY <1>2, <1>6, ReaderMoved
  <2> QED BY <1>2, <2>1, MainAlone
<1>9. CASE GetlineEnd
  <2>1. CASE Top.pc = "read"
    <3> DEFINE s == SetTop([Top EXCEPT !.pc = "got", !.flag = TRUE])
    <3>1. gs' = r /\ stack' = s
      BY <1>3, <1>9, <2>1 DEF GetlineEnd, r
    <3>2. Len(s) = 1 /\ s[1].what = "main"
      BY <1>6, <1>8
    <3> HIDE DEF s
    <3> QED BY <1>7, <3>1, <3>2, TidyAlone
  <2>2. CASE Top.pc # "read"
    <3> DEFINE s == SetTop([Top EXCEPT !.pc = "unclosed", !.flag = TRUE])
    <3>1. RunHandling(r, s, "run_handling", 0, RawCommand)
      BY <1>3, <1>9, <2>2 DEF GetlineEnd, r
    <3>2. s \in Seq(Frames) /\ Len(s) = 1 /\ s[1].what = "main"
      BY <1>6, <1>8
    <3> HIDE DEF s
    <3> QED BY <1>4, <1>7, <3>1, <3>2, TidyHandling
  <2> QED BY <2>1, <2>2
<1>10. CASE GetlineComplete
  <2> DEFINE s == Goto("got")
  <2>1. RunHandling(r, s, "run_handling", 0, RawCommand)
    BY <1>3, <1>10 DEF GetlineComplete, r
  <2>2. s \in Seq(Frames) /\ Len(s) = 1 /\ s[1].what = "main"
    BY <1>6, <1>8
  <2> HIDE DEF s
  <2> QED BY <1>4, <1>7, <2>1, <2>2, TidyHandling
<1>11. CASE GetlineMalformed
  <2> DEFINE h == AddError(r, ".mismatched_brace")
  <2>1. CatchOne(h, Goto("got"), RawCommand)
    BY <1>3, <1>11 DEF GetlineMalformed, r
  <2>2. Grows(r, h) /\ h \in CallStacks
    BY <1>5, <1>7, AddErrorEffect DEF Grows
  <2> HIDE DEF h
  <2>3. Counting(h)
    BY <1>7, <2>2, CountingKept
  <2> QED BY <1>4, <1>6, <1>8, <2>1, <2>2, <2>3, TidyCatchOne
<1>12. CASE GetlineIncomplete
  <2> DEFINE g == AddError(r, ".unclosed_brace")
             h == RemoveExceptions(g, 0, ".unclosed_brace")
  <2>1. gs' = h /\ stack' = Goto("more")
    BY <1>3, <1>12 DEF GetlineIncomplete, r
  <2>2. Grows(r, g) /\ g \in CallStacks
    BY <1>5, <1>7, AddErrorEffect DEF Grows
  <2>3. Pruned(g, h, 0)
    <3>1. 0 \in 0 .. Len(g.errors)
      BY <2>2, CallStackErrors
    <3> HIDE DEF g
    <3> QED BY <1>5, <2>2, <3>1, RemoveExceptionsEffect DEF Jumps
  <2> HIDE DEF g, h
  <2>4. Counting(g)
    BY <1>7, <2>2, CountingKept
  <2>5. Counting(h)
    BY <2>3, <2>4, CountingKept
  <2> QED BY <1>6, <1>8, <2>1, <2>5, TidyAlone
<1>13. CASE GetlineFails \/ GetlineUnclosed
  <2>1. /\ stack' = Goto("got")
        /\ gs' = gs \/ gs' = AddError(gs, ".unclosed_brace")
    BY <1>13 DEF GetlineFails, GetlineUnclosed
  <2>2. Grows(gs, gs')
    BY <1>1, <1>5, <2>1, AddErrorEffect, GrowsSelf
  <2>3. Counting(gs')
    BY <1>1, <2>2, CountingKept
  <2> QED BY <1>6, <1>8, <2>1, <2>3, TidyAlone
<1> QED BY <1>9, <1>10, <1>11, <1>12, <1>13

LEMMA TidyAtMain ==
  ASSUME Sound, Tidy(gs, stack),
         \/ MainInit \/ MainRegister \/ MainPrompt \/ MainGot \/ MainStatement
         \/ MainInterpreted \/ MainRun \/ MainAfter \/ MainShutdown \/ MainGlobals
  PROVE  Tidy(gs', stack')
<1>1. Top.what = "main"
  BY DEF MainInit, MainRegister, MainPrompt, MainGot, MainStatement,
         MainInterpreted, MainRun, MainAfter, MainShutdown, MainGlobals
<1>2. /\ gs \in CallStacks /\ Len(gs.errors) \in Nat /\ Counting(gs)
      /\ Top \in Frames /\ Top.stmt \in Statements
  BY TopSound, TidyTop
<1>3. Top.base = 0
  BY <1>1, MainAlone
<1>4. ASSUME NEW pc \in Places
      PROVE  /\ Goto(pc) \in Seq(Frames) /\ Len(Goto(pc)) = 1
             /\ Goto(pc)[1].what = "main"
  <2>1. /\ [Top EXCEPT !.pc = pc] \in Frames
        /\ [Top EXCEPT !.pc = pc].what = "main"
        /\ Goto(pc) = SetTop([Top EXCEPT !.pc = pc])
    BY <1>1, ReaderMoved
  <2> QED BY <1>1, <2>1, MainAlone
<1>5. ASSUME NEW pc \in Places, NEW c \in CommandType
      PROVE  /\ SetTop([Top EXCEPT !.pc = pc, !.stmt = c]) \in Seq(Frames)
             /\ Len(SetTop([Top EXCEPT !.pc = pc, !.stmt = c])) = 1
             /\ SetTop([Top EXCEPT !.pc = pc, !.stmt = c])[1].what = "main"
  <2>1. /\ [Top EXCEPT !.pc = pc, !.stmt = c] \in Frames
        /\ [Top EXCEPT !.pc = pc, !.stmt = c].what = "main"
    BY <1>1, <1>2 DEF Frames
  <2> QED BY <1>1, <2>1, MainAlone
<1>6. /\ "base_run" \in {"run_handling", "base_run"} /\ 0 \in Nat
      /\ {"register", "prompt", "read", "shutdown", "statement", "before",
          "after", "globals", "done", "arguments"} \subseteq Places
  BY ReaderPlaces DEF Places
<1>7. ASSUME NEW pc \in Places, stack' = Goto(pc), gs' = gs
      PROVE  Tidy(gs', stack')
  BY <1>2, <1>4, <1>7, TidyAlone
<1>8. ASSUME NEW pc \in Places, NEW c \in Statements,
             RunHandling(gs, Goto(pc), "base_run", Top.base, c)
      PROVE  Tidy(gs', stack')
  <2> DEFINE s == Goto(pc)
  <2>1. /\ s \in Seq(Frames) /\ Len(s) = 1 /\ s[1].what = "main"
        /\ RunHandling(gs, s, "base_run", 0, c)
    BY <1>3, <1>4, <1>8
  <2> HIDE DEF s
  <2> QED BY <1>2, <1>6, <1>8, <2>1, TidyHandling
<1>9. ASSUME NEW pc \in Places, NEW name \in Names,
             RunIfExists(gs, Goto(pc), name)
      PROVE  Tidy(gs', stack')
  BY <1>2, <1>4, <1>9, TidyIfExists
<1>10. ASSUME NEW pc \in Places, NEW h \in CallStacks, Counting(h),
              NEW base \in Nat, StartHandler(h, Goto(pc), base)
       PROVE  Tidy(gs', stack')
  BY <1>4, <1>10, TidyStart
<1>11. /\ {".init", ".prompt", ".shutdown", ".before_command",
           ".run_logic", ".after_command"} \subseteq Names
       /\ ".unused_variable" \in Names
       /\ ".undefined_variable" \in Names
       /\ \A name \in Names : CallOf(name) \in Statements
  BY NamesInUse, ShellNames, StatementsTyped DEF ShellExceptions
<1>12. CASE MainInit
  <2>1. RunHandling(gs, Goto("register"), "base_run", Top.base, CallOf(".init"))
    BY <1>12 DEF MainInit
  <2> QED BY <1>6, <1>8, <1>11, <2>1
<1>13. CASE MainRegister
  BY <1>6, <1>7, <1>13 DEF MainRegister
<1>14. CASE MainPrompt
  <2>1. \/ stack' = Goto("shutdown") /\ gs' = gs
        \/ RunHandling(gs, Goto("read"), "base_run", Top.base, CallOf(".prompt"))
    BY <1>14 DEF MainPrompt
  <2> QED BY <1>6, <1>7, <1>8, <1>11, <2>1
<1>15. CASE MainGot
  <2>1. \/ StartHandler(gs, Goto("prompt"), 0)
        \/ gs' = gs /\ (stack' = Goto("shutdown") \/ stack' = Goto("statement"))
    BY <1>3, <1>15 DEF MainGot
  <2> QED BY <1>2, <1>6, <1>7, <1>10, <2>1
<1>16. CASE MainStatement
  <2>1. CASE stack' = Goto("prompt") /\ gs' = gs
    BY <1>6, <1>7, <2>1
  <2>2. ASSUME NEW c \in Commands, gs' = gs,
               stack' = SetTop([Top EXCEPT !.pc = "arguments", !.stmt = c])
        PROVE  Tidy(gs', stack')
    <3> DEFINE s == SetTop([Top EXCEPT !.pc = "arguments", !.stmt = c])
    <3>1. c \in CommandType
      BY StatementsTyped
    <3>2. Len(s) = 1 /\ s[1].what = "main"
      BY <1>5, <1>6, <3>1
    <3>3. stack' = s
      BY <2>2
    <3> HIDE DEF s
    <3> QED BY <1>2, <2>2, <3>2, <3>3, TidyAlone
  <2>3. /\ gs' = gs
        /\ \/ stack' = Goto("prompt")
           \/ \E c \in Commands :
                stack' = SetTop([Top EXCEPT !.pc = "arguments", !.stmt = c])
    BY <1>16 DEF MainStatement
  <2> QED BY <2>1, <2>2, <2>3
<1>17. CASE MainInterpreted
  <2>1. PICK c : /\ c = CallOf(".undefined_variable") \/ c = Top.stmt
                 /\ RunIfExists(gs, SetTop([Top EXCEPT !.pc = "before", !.stmt = c]),
                                ".before_command")
    <3>1. PICK u \in {FALSE} \cup {"undefined" \in Faults} :
            LET c == IF u THEN CallOf(".undefined_variable") ELSE Top.stmt
            IN  RunIfExists(gs, SetTop([Top EXCEPT !.pc = "before", !.stmt = c]),
                            ".before_command")
      BY <1>17 DEF MainInterpreted
    <3> DEFINE c == IF u THEN CallOf(".undefined_variable") ELSE Top.stmt
    <3>2. c = CallOf(".undefined_variable") \/ c = Top.stmt
      OBVIOUS
    <3>3. RunIfExists(gs, SetTop([Top EXCEPT !.pc = "before", !.stmt = c]),
                      ".before_command")
      BY <3>1
    <3> HIDE DEF c
    <3> QED BY <3>2, <3>3
  <2> DEFINE s == SetTop([Top EXCEPT !.pc = "before", !.stmt = c])
  <2>2. c \in CommandType /\ RunIfExists(gs, s, ".before_command")
    BY <1>2, <1>11, <2>1, StatementsTyped
  <2>3. s \in Seq(Frames) /\ Len(s) = 1 /\ s[1].what = "main"
    BY <1>5, <1>6, <2>2
  <2> HIDE DEF s
  <2> QED BY <1>2, <1>11, <2>2, <2>3, TidyIfExists
<1>18. CASE MainRun
  <2>1. \/ StartHandler(gs, Goto("after"), 0)
        \/ RunIfExists(gs, Goto("after"), ".run_logic")
        \/ RunHandling(gs, Goto("after"), "base_run", Top.base, Top.stmt)
    BY <1>3, <1>18 DEF MainRun
  <2> QED BY <1>2, <1>6, <1>8, <1>9, <1>10, <1>11, <2>1
<1>19. CASE MainAfter
  <2>1. RunIfExists(gs, Goto("statement"), ".after_command")
    BY <1>19 DEF MainAfter
  <2> QED BY <1>6, <1>9, <1>11, <2>1
<1>20. CASE MainShutdown
  <2>1. RunHandling(gs, Goto("globals"), "base_run", Top.base, CallOf(".shutdown"))
    BY <1>20 DEF MainShutdown
  <2> QED BY <1>6, <1>8, <1>11, <2>1
<1>21. CASE MainGlobals
  <2> DEFINE h == AddError(gs, ".unused_variable")
             base == Len(gs.errors)
  <2>1. Grows(gs, h) /\ h \in CallStacks
    BY <1>2, <1>11, AddErrorEffect DEF Grows
  <2>2. \/ StartHandler(h, Goto("done"), base)
        \/ gs' = gs /\ stack' = Goto("done")
    BY <1>21 DEF MainGlobals
  <2>3. base \in Nat
    BY <1>2
  <2> HIDE DEF h, base
  <2>4. Counting(h)
    BY <1>2, <2>1, CountingKept
  <2> QED BY <1>6, <1>7, <1>10, <2>1, <2>2, <2>3, <2>4
<1> QED BY <1>12, <1>13, <1>14, <1>15, <1>16, <1>17, <1>18, <1>19, <1>20, <1>21

LEMMA TidyNext ==
  ASSUME Never("try"), Never("source"), Sound, Fresh(gs, stack),
         Tidy(gs, stack), [Next]_vars
  PROVE  Tidy(gs', stack')
<1>1. ShellInvariant /\ Rooted(stack) /\ FromScript(Top)
  BY TopSound DEF Sound, Origins
<1>2. Top.what # "try"
  <2>1. "try" \in Kinds \ {"call", "block", "throw"}
    BY DEF Kinds
  <2> QED BY <1>1, <2>1, NotInScripts
<1>3. ~(CatchNext \/ CatchReturned \/ CatchExcess \/ CatchDone)
  BY <1>2 DEF CatchNext, CatchReturned, CatchExcess, CatchDone
<1>4. CASE Advancing
  BY <1>4, TidyAdvance
<1>5. CASE Others
  BY <1>3, <1>5, TidyReturns, TidySubstitute, TidyHandler, TidyReplace,
     TidyCollect, TidyOthers, TidyGetline, TidyAtMain
     DEF Others
<1>6. CASE UNCHANGED vars
  BY <1>6 DEF vars
<1> QED BY <1>1, <1>4, <1>5, <1>6, StepKinds

\* In a shell whose scripts neither catch exceptions themselves nor read other
\* scripts, the flags, the counter and the lists belong together as Tidy says.
THEOREM TidyHolds ==
  ASSUME Never("try"), Never("source")
  PROVE  Spec => [](Sound /\ Tidy(gs, stack))
<1>1. Init => Tidy(gs, stack)
  <2> SUFFICES ASSUME Init PROVE Tidy(gs, stack)
    OBVIOUS
  <2>1. Len(stack) = 1 /\ stack[1].what = "main" /\ gs = InitialCallStack
    BY DEF Init, Frame
  <2>2. Counting(InitialCallStack)
    BY CountedZero DEF Counting, CounterOK, InitialCallStack
  <2> QED BY <2>1, <2>2, TidyAlone
<1>2. Sound /\ Fresh(gs, stack) /\ Tidy(gs, stack) /\ [Next]_vars
        => Tidy(gs, stack)'
  BY TidyNext
<1> QED BY <1>1, <1>2, AccountsHolds, FreshHolds, PTL DEF Spec

\* .replace_exception is admitted wherever a handler runs, whatever the handlers
\* that ran before have done (in_exception_handler_v, set and cleared by
\* exception_handler and catch_one), unless scripts catch exceptions themselves
\* or read other scripts.
THEOREM HandlerFlagCompleteHolds ==
  ASSUME Never("try"), Never("source")
  PROVE  Spec => []HandlerFlagComplete
<1>1. ASSUME Sound, Tidy(gs, stack) PROVE HandlerFlagComplete
  <2> SUFFICES ASSUME HandlerRunning PROVE gs.inHandler
    BY DEF HandlerFlagComplete
  <2>1. PICK i \in 1 .. Len(stack) : Catching(stack[i])
    BY <1>1, TopSound DEF HandlerRunning
  <2>2. FromScript(stack[i])
    BY <1>1 DEF Sound, Origins, Rooted, OriginAt
  <2>3. stack[i].what # "try"
    <3>1. "try" \in Kinds \ {"call", "block", "throw"}
      BY DEF Kinds
    <3> QED BY <2>2, <3>1, NotInScripts
  <2>4. stack[i].what \in {"handler", "catch_one"}
    BY <2>1, <2>3 DEF Catching
  <2> QED BY <1>1, <2>4 DEF Tidy, TidyAt
<1> QED BY <1>1, TidyHolds, PTL

\* current_exception_count is the number of exceptions in the live lists, modulo
\* what the counter can count to, as long as no script catches exceptions itself
\* or reads from another script: add_error, replace_error, erase and pop_front
\* keep it, and so does every list that is destroyed or reset, as it is empty.
\* Collectors are Faithful unless the arguments of one statement can both lose
\* a substitution and throw.
THEOREM CountMatchesHolds ==
  ASSUME Never("try"), Never("source"), Faithful
  PROVE  Spec => []CountMatches
<1>1. ASSUME Tidy(gs, stack) PROVE CountMatches
  BY <1>1 DEF Tidy, Counting, CounterOK, CountMatches
<1> QED BY <1>1, TidyHolds, PTL

\* What the counter counts is what there is while it does not wrap around.
LEMMA CountedExactly ==
  ASSUME NEW n \in Nat, n < CountLimit
  PROVE  Counted(n) = n
<1> DEFINE m == CountLimit
<1>1. m \in Nat \ {0}
  BY LimitsAssumption
<1>2. n = m * 0 + n /\ n \in 0 .. m - 1
  <2>1. n < m
    OBVIOUS
  <2> HIDE DEF m
  <2> QED BY <1>1, <2>1
<1>3. n % m = n
  <2> HIDE DEF m
  <2> QED BY <1>1, <1>2, Remainder
<1> QED BY <1>3 DEF Counted

\* A handler that leaves an exception of its own behind is found to have failed
\* (exception_handler compares current_exception_count with the count before),
\* unless there are so many exceptions that the counter wraps around, a script
\* catches exceptions itself or reads from another script, or a collector takes
\* a list that is not empty with it.
THEOREM FailureNoticedHolds ==
  ASSUME Never("try"), Never("source"), Faithful
  PROVE  Spec => [](Len(gs.errors) < CountLimit => FailureNoticed)
<1>1. ASSUME Sound, Tidy(gs, stack)
      PROVE  Len(gs.errors) < CountLimit => FailureNoticed
  <2> SUFFICES ASSUME Len(gs.errors) < CountLimit, Top.what = "handler",
                      Top.pc = "ran", Len(gs.errors) > Top.mark
               PROVE  gs.count > Top.prev
    BY DEF FailureNoticed
  <2> DEFINE n == Len(gs.errors)
             m == Top.mark
  <2>1. n \in Nat /\ m \in Nat
    BY <1>1, TopSound
  <2>2. gs.count = Counted(n) /\ Top.prev = Counted(m)
    BY <1>1, TidyTop DEF TidyAt, Counting, CounterOK
  <2>3. n < CountLimit /\ m < n
    OBVIOUS
  <2> HIDE DEF n, m
  <2>4. m < CountLimit
    BY <2>1, <2>3, LimitsAssumption
  <2>5. Counted(n) = n /\ Counted(m) = m
    BY <2>1, <2>3, <2>4, CountedExactly
  <2> QED BY <2>2, <2>3, <2>5, <2>1
<1> QED BY <1>1, TidyHolds, PTL

\* The routine that runs handlers is only moved by its own two actions.
LEMMA HandlerActions ==
  ASSUME Sound, Top.what = "handler", [Next]_vars, TurnEnds
  PROVE  HandleNext \/ HandlerReturned
<1>1. /\ stack \in Seq(Frames) /\ Len(stack) \in Nat \ {0}
      /\ Len(Popped) = Len(stack) - 1
  <2>1. Len(stack) > 1
    BY CalledSound
  <2> QED BY <2>1, TopSound, CalledBelow
<1>2. ~HandlersDone
  <2>1. Len(Popped) # Len(stack)
    BY <1>1
  <2> QED BY <2>1 DEF TurnEnds, HandlersDone
<1>3. ~CatchSignal /\ ~UNCHANGED vars
  <2>1. CatchSignal => UNCHANGED stack /\ gs'.errors = gs.errors
    BY TopSound DEF CatchSignal, CallStacks
  <2>2. UNCHANGED vars => UNCHANGED stack /\ gs'.errors = gs.errors
    BY DEF vars
  <2> QED BY <2>1, <2>2 DEF TurnEnds
<1>4. InterpreterNext => \/ HandleNext \/ HandlerReturned \/ HandlersDone
                         \/ CatchSignal
  BY DEF InterpreterNext, SecondLookup, Return, SignalHandled, EnterFunction,
     BadArguments, EnterBlock, NextStatement, Substitute, Substituted,
     UndefinedVariable, RunStatement, AfterStatement, UnusedVariables,
     RanHandling, RanIfExists, CaughtOne, Kinds, Bodies, Interpreting, Checking
<1>5. ~ControlFlowNext
  BY DEF ControlFlowNext, Throw, Exit, Replace, EnterCollect, CollectNext,
     CollectExcess, CollectEnd, CollectUndefined, CollectRun, CollectRan, Try,
     TryReturned, CatchNext, CatchReturned, CatchExcess, CatchDone, WhileTest,
     WhileTested, ForNext, ForEnd, EnterStepwise, StepwiseAborts, StepwiseNext,
     StepwiseRun, LoopReturned, Loops, Store, Stored, EnterIf, IfCore, IfTested,
     IfReturned, IfKinds
<1>6. ~ShellNext
  BY DEF ShellNext, ReadingLine, GetlineFails, GetlineEnd, GetlineUnclosed,
     GetlineIncomplete, GetlineMalformed, GetlineComplete, EnterSource,
     SourceLine, SourceGot, MainInit, MainRegister, MainPrompt, MainGot,
     MainStatement, MainInterpreted, MainRun, MainAfter, MainShutdown,
     MainGlobals
<1> QED BY <1>2, <1>3, <1>4, <1>5, <1>6 DEF Next, Terminated, vars

\* Running an executable leaves the stack as it was or makes it higher.
LEMMA RunDeeper ==
  ASSUME NEW g, NEW s \in Seq(Frames), NEW c, Run(g, s, c)
  PROVE  stack' = s \/ Len(stack') # Len(s)
<1>1. ASSUME NEW S, NEW t \in Seq(S), NEW f
      PROVE  /\ Append(t, f) \in Seq(S \cup {f})
             /\ Len(Append(t, f)) = Len(t) + 1 /\ Len(t) \in Nat
  <2>1. t \in Seq(S \cup {f}) /\ f \in S \cup {f}
    OBVIOUS
  <2> DEFINE T == S \cup {f}
  <2> HIDE DEF T
  <2>2. ASSUME t \in Seq(T), f \in T
        PROVE  /\ Append(t, f) \in Seq(T)
               /\ Len(Append(t, f)) = Len(t) + 1 /\ Len(t) \in Nat
    BY <2>2
  <2> QED BY <2>1, <2>2 DEF T
<1>2. ASSUME NEW S, NEW h, NEW t \in Seq(S), NEW d, Call(h, t, d)
      PROVE  stack' = t \/ (Len(stack') = Len(t) + 1 /\ Len(t) \in Nat)
  BY <1>1, <1>2 DEF Call
<1>3. CASE Call(g, s, c)
  BY <1>2, <1>3
<1>4. ASSUME NEW f, NEW d, Call(g, Append(s, f), d)
      PROVE  stack' = s \/ Len(stack') # Len(s)
  <2> DEFINE t == Append(s, f)
             S == Frames \cup {f}
  <2>1. /\ t \in Seq(S) /\ Len(t) = Len(s) + 1 /\ Len(s) \in Nat
        /\ Call(g, t, d)
    BY <1>1, <1>4
  <2> HIDE DEF t, S
  <2>2. stack' = t \/ Len(stack') = Len(t) + 1
    BY <1>2, <2>1
  <2> QED BY <2>1, <2>2
<1> QED BY <1>3, <1>4 DEF Run

\* Each turn of the loop of exception_handler gets on: it finds one more name
\* whose handler fails, or leaves fewer exceptions than there were when it
\* began (the test after executable_map.run, and what is done when it is met).
\* As in FailureNoticedHolds the counter must not wrap around, no script catches
\* exceptions itself or reads from another script, and no collector takes a list
\* that is not empty with it.
THEOREM HandlersGetOnHolds ==
  ASSUME Never("try"), Never("source"), Faithful
  PROVE  Spec /\ [](Len(gs.errors) < CountLimit) => HandlersGetOn
<1>1. ASSUME Sound, Tidy(gs, stack), Len(gs.errors) < CountLimit,
             Len(gs.errors) < CountLimit => FailureNoticed, [Next]_vars
      PROVE  GetsOn
  <2> SUFFICES ASSUME TurnEnds
               PROVE  LET failed == stack'[Len(stack)].failed
                      IN  /\ Top.failed \subseteq failed
                          /\ failed = Top.failed => Len(gs'.errors) < TurnStart
    BY DEF GetsOn
  <2>1. /\ gs \in CallStacks /\ Len(gs.errors) \in Nat /\ Top \in Frames
        /\ stack \in Seq(Frames) /\ Len(stack) \in Nat \ {0}
        /\ Top = stack[Len(stack)] /\ Top.what = "handler"
        /\ Top.base \in Nat /\ Top.mark \in Nat
    BY <1>1, TopSound DEF TurnEnds, Frames
  <2>2. HandleNext \/ HandlerReturned
    BY <1>1, <2>1, HandlerActions
  <2>3. ASSUME NEW f, stack' = SetTop(f)
        PROVE  stack'[Len(stack)] = f
    BY <2>1, <2>3 DEF SetTop
  <2>4. TidyAt(gs, Top, Len(stack))
    BY <1>1, TidyTop
  <2>5. ASSUME NEW g \in CallStacks, Len(g.errors) = Len(gs.errors),
               gs' = RemoveError(g, Top.base + 1), gs.errors # << >>
        PROVE  Len(gs'.errors) < Len(gs.errors)
    <3>1. gs'.errors = Without(g.errors, Top.base + 1)
      BY <2>5 DEF RemoveError, CallStacks
    <3>2. Len(gs.errors) > 0
      BY <2>1, <2>5
    <3>3. Len(gs'.errors) = Len(gs.errors) - 1
      BY <2>1, <2>5, <3>1, <3>2 DEF Without
    <3> QED BY <2>1, <3>3
  <2>6. CASE HandleNext
    <3> DEFINE front == gs.errors[Top.base + 1]
               f == [Top EXCEPT !.pc = "ran", !.prev = gs.count,
                                !.stmt = CallOf(front), !.mark = Len(gs.errors)]
    <3>1. Top.pc = "next" /\ Len(gs.errors) > Top.base
      BY <2>6 DEF HandleNext
    <3>2. CASE gs' = RemoveError(gs, Top.base + 1) /\ stack' = stack
      <4>1. gs.errors # << >>
        BY <2>1, <3>1
      <4>2. Len(gs'.errors) < TurnStart
        BY <2>1, <2>5, <3>1, <3>2, <4>1 DEF TurnStart
      <4> QED BY <2>1, <3>2, <4>2
    <3>3. ~\E c : Run(gs, SetTop(f), c)
      <4> SUFFICES ASSUME NEW c, Run(gs, SetTop(f), c) PROVE FALSE
        OBVIOUS
      <4>1. f \in Frames /\ f.pc = "ran"
        <5>1. front \in Names /\ "ran" \in Places
          <6>1. Top.base + 1 \in 1 .. Len(gs.errors)
            BY <2>1, <3>1
          <6> QED BY <2>1, <6>1, CallStackErrors DEF Places
        <5>2. CallOf(front) \in CommandType
          BY <5>1, StatementsTyped
        <5>3. gs.count \in Nat
          BY <2>1, LimitsAssumption DEF CallStacks
        <5> HIDE DEF front
        <5> QED BY <2>1, <5>1, <5>2, <5>3 DEF Frames
      <4> HIDE DEF f
      <4>2. /\ SetTop(f) \in Seq(Frames) /\ Len(SetTop(f)) = Len(stack)
            /\ SetTop(f)[Len(stack)] = f
        BY <2>1, <4>1 DEF SetTop
      <4>3. stack' = SetTop(f) \/ Len(stack') # Len(SetTop(f))
        BY <4>2, RunDeeper
      <4> QED BY <4>1, <4>2, <4>3 DEF TurnEnds
    <3> QED BY <2>6, <3>2, <3>3 DEF HandleNext
  <2>7. CASE HandlerReturned
    <3> DEFINE fails == gs.unwind \/ gs.count > Top.prev
               k == [gs EXCEPT !.errors = LastToSecond(gs.errors, Top.base),
                               !.unwind = FALSE]
               f == [Top EXCEPT !.pc = "next",
                       !.failed = IF fails THEN @ \cup {Top.stmt.name} ELSE @]
    <3>1. /\ Top.pc = "ran" /\ stack' = SetTop(f)
          /\ ~fails => gs' = RemoveError(gs, Top.base + 1)
      BY <2>7 DEF HandlerReturned
    <3>2. f.failed = IF fails THEN Top.failed \cup {Top.stmt.name} ELSE Top.failed
      BY <2>1 DEF Frames
    <3>3. stack'[Len(stack)].failed = f.failed
      BY <2>3, <3>1
    <3> HIDE DEF f
    <3>4. Top.stmt.name \notin Top.failed
      BY <2>1, <2>4, <3>1 DEF TidyAt
    <3>5. CASE fails
      BY <3>2, <3>3, <3>4, <3>5
    <3>6. CASE ~fails
      <4>1. Len(gs.errors) <= Top.mark
        BY <1>1, <2>1, <3>1, <3>6 DEF FailureNoticed
      <4>2. gs.errors # << >>
        <5>1. FrameOK(Top, Len(gs.errors))
          BY <1>1, TopOK DEF Sound, ShellInvariant
        <5>2. Top.base < Top.mark /\ Top.mark <= Len(gs.errors)
          BY <2>1, <3>1, <5>1 DEF FrameOK, Low, Holding
        <5> QED BY <2>1, <5>2
      <4>3. Len(gs'.errors) < Len(gs.errors)
        BY <2>1, <2>5, <3>1, <3>6, <4>2
      <4>4. Len(gs'.errors) \in Nat
        <5>1. ShellInvariant'
          BY <1>1, NextOK DEF Sound
        <5> QED BY <5>1, CallStackErrors DEF ShellInvariant, StackOK
      <4>5. Len(gs'.errors) < TurnStart
        BY <2>1, <3>1, <4>1, <4>3, <4>4 DEF TurnStart
      <4> QED BY <3>2, <3>3, <3>6, <4>5
    <3> QED BY <3>5, <3>6
  <2> QED BY <2>2, <2>6, <2>7
<1> QED BY <1>1, TidyHolds, FailureNoticedHolds, PTL DEF Spec, HandlersGetOn

-----------------------------------------------------------------------------
\* What takes exceptions from the lists.

\* No exception is lost, and no excess is remembered that was not before.
Preserves(g, h) ==
  /\ Len(g.errors) <= Len(h.errors)
  /\ \A p \in 1 .. Len(g.errors) : h.errors[p] = g.errors[p]
  /\ h.collectExcess => g.collectExcess

LEMMA PreservesOn ==
  ASSUME NEW g \in CallStacks, NEW h \in CallStacks, NEW k \in CallStacks,
         Preserves(g, h), Preserves(h, k)
  PROVE  Preserves(g, k)
<1>1. /\ Len(g.errors) \in Nat /\ Len(h.errors) \in Nat
      /\ Len(k.errors) \in Nat
  BY CallStackErrors
<1> QED BY <1>1 DEF Preserves

LEMMA GrowsPreserves ==
  ASSUME NEW g, NEW h, Grows(g, h)
  PROVE  Preserves(g, h)
BY DEF Grows, Preserves

\* Only other fields change.
LEMMA SamePreserves ==
  ASSUME NEW g \in CallStacks, NEW h, h.errors = g.errors,
         h.collectExcess => g.collectExcess
  PROVE  Preserves(g, h)
<1>1. Len(g.errors) \in Nat
  BY CallStackErrors
<1> QED BY <1>1 DEF Preserves

\* Calling keeps them.
LEMMA CallKeeps ==
  ASSUME NEW g \in CallStacks, NEW s, NEW c \in Statements,
         Call(g, s, c) \/ Run(g, s, c)
  PROVE  Preserves(g, gs')
<1>1. Grows(g, gs')
  BY CallEffect, RunContinues DEF Continues
<1> QED BY <1>1, GrowsPreserves

LEMMA MainCallsKeep ==
  ASSUME NEW g \in CallStacks, NEW s, NEW what, NEW base, NEW c \in Statements,
         NEW name \in Names,
         \/ RunHandling(g, s, what, base, c)
         \/ RunIfExists(g, s, name)
         \/ StartHandler(g, s, base)
         \/ CatchOne(g, s, c)
  PROVE  Preserves(g, gs')
<1>1. CallOf(name) \in Statements
  BY StatementsTyped
<1>2. CASE RunHandling(g, s, what, base, c)
  BY <1>2, CallKeeps DEF RunHandling
<1>3. CASE RunIfExists(g, s, name)
  <2>1. CASE name \in Defined
    <3> DEFINE t == Append(s, Frame("run_if_exists", "ran", CallOf(name),
                                    Len(g.errors)))
               d == CallOf(name)
    <3>1. Call(g, t, d)
      BY <1>3, <2>1 DEF RunIfExists
    <3>2. d \in Statements
      BY <1>1
    <3> HIDE DEF t, d
    <3> QED BY <3>1, <3>2, CallKeeps
  <2>2. CASE name \notin Defined
    BY <1>3, <2>2, SamePreserves DEF RunIfExists
  <2> QED BY <2>1, <2>2
<1>4. CASE StartHandler(g, s, base)
  <2>1. gs'.errors = g.errors /\ gs'.collectExcess = g.collectExcess
    BY <1>4 DEF StartHandler, CallStacks
  <2> QED BY <2>1, SamePreserves
<1>5. CASE CatchOne(g, s, c)
  <2> DEFINE h == [g EXCEPT !.inHandler = TRUE, !.unwind = FALSE]
             t == Append(s, Frame("catch_one", "ran", c, Len(g.errors)))
  <2>1. Run(h, t, c)
    BY <1>5 DEF CatchOne
  <2>2. /\ h \in CallStacks /\ h.errors = g.errors
        /\ h.collectExcess = g.collectExcess
    BY DEF CallStacks
  <2> HIDE DEF h, t
  <2>3. Preserves(h, gs')
    BY <2>1, <2>2, CallKeeps
  <2> QED BY <2>2, <2>3 DEF Preserves
<1> QED BY <1>2, <1>3, <1>4, <1>5

LEMMA AdvanceKeeps ==
  ASSUME Sound, Advancing, ~Handling
  PROVE  Preserves(gs, gs')
<1>1. PICK k \in CallStacks, f \in Frames :
        /\ Grows(gs, k)
           \/ (Pruned(gs, k, Top.base) /\ Top.what \in Loops \cup IfKinds)
        /\ Continues(k, [stack EXCEPT ![Len(stack)] = f], inAuto,
                     gs', stack', inAuto')
  BY DEF Advancing, Advances, Top
<1>2. Grows(gs, k)
  BY <1>1 DEF Handling
<1>3. Grows(k, gs')
  BY <1>1 DEF Continues
<1> QED BY <1>2, <1>3, GrowsOn, GrowsPreserves

LEMMA ReturnsKeep ==
  ASSUME Sound, Tidy(gs, stack),
         SecondLookup \/ Leaves \/ Substituted \/ HandlersDone \/ RanHandling
           \/ RanIfExists \/ CaughtOne
  PROVE  Preserves(gs, gs')
<1>1. /\ gs \in CallStacks /\ gs.unwind \in BOOLEAN
      /\ Top \in Frames /\ Top.cmd \in Statements /\ Argfunction \in Statements
      /\ NoSignal \in Names
  BY TopSound, StatementsTyped, NoSignalAssumption DEF FromScript
<1>2. /\ ".failed_substitution" \in Names /\ ".unfinished_if_block" \in Names
      /\ ".function_not_found" \in Names
  BY ThrownNames
<1>3. CASE Leaves
  BY <1>3, GrowsPreserves DEF Leaves
<1>4. CASE HandlersDone \/ CaughtOne
  <2>1. /\ gs'.errors = gs.errors
        /\ gs'.collectExcess => gs.collectExcess
    BY <1>1, <1>4 DEF HandlersDone, CaughtOne, CallStacks
  <2> QED BY <1>1, <2>1, SamePreserves
<1>5. CASE RanHandling
  <2> DEFINE u == Top.what = "base_run" /\ gc.in_if /\ ~gc.thrown
             g == AddErrorIf(u, gs, ".unfinished_if_block")
  <2>1. u \in BOOLEAN
    BY DEF Sound, ShellInvariant, Conditionals
  <2>2. StartHandler(g, Popped, Top.base) \/ gs' = g
    BY <1>5 DEF RanHandling
  <2> HIDE DEF u
  <2>3. Grows(gs, g)
    BY <1>1, <1>2, <2>1, AddErrorIfEffect
  <2> HIDE DEF g
  <2>4. gs'.errors = g.errors /\ gs'.collectExcess = g.collectExcess
    BY <2>2, <2>3 DEF StartHandler, Grows, CallStacks
  <2> QED BY <2>3, <2>4 DEF Grows, Preserves
<1>6. CASE RanIfExists
  <2>1. gs'.errors = gs.errors /\ gs'.collectExcess = gs.collectExcess
    <3>1. CASE gs.unwind
      BY <1>1, <1>6, <3>1 DEF RanIfExists, StartHandler, CallStacks
    <3>2. CASE ~gs.unwind
      <4>1. /\ gs'.errors = SubSeq(gs.errors, 1, Top.base)
            /\ gs'.collectExcess = gs.collectExcess
            /\ Top.what = "run_if_exists"
        BY <1>1, <1>6, <3>2 DEF RanIfExists, DestroyList, CallStacks
      <4> QED BY <3>2, <4>1, OwnListEmpty
    <3> QED BY <3>1, <3>2
  <2> QED BY <1>1, <2>1, SamePreserves
<1>7. CASE Substituted
  <2> DEFINE g == AddErrorIf(gs.unwind, gs, ".failed_substitution")
  <2>1. gs' = [g EXCEPT !.unwind = Top.flag \/ g.unwind]
    BY <1>7 DEF Substituted
  <2>2. Grows(gs, g)
    BY <1>1, <1>2, AddErrorIfEffect
  <2> HIDE DEF g
  <2>3. gs'.errors = g.errors /\ gs'.collectExcess = g.collectExcess
    BY <2>1, <2>2 DEF Grows, CallStacks
  <2> QED BY <2>2, <2>3 DEF Grows, Preserves
<1>8. CASE SecondLookup
  <2>1. \/ Call(gs, Popped, Top.cmd)
        \/ gs' = AddError(gs, ".function_not_found")
    BY <1>8 DEF SecondLookup
  <2>2. Grows(gs, AddError(gs, ".function_not_found"))
    BY <1>1, <1>2, AddErrorEffect
  <2> QED BY <1>1, <2>1, <2>2, CallKeeps, GrowsPreserves
<1> QED BY <1>3, <1>4, <1>5, <1>6, <1>7, <1>8

LEMMA OthersKeep ==
  ASSUME Sound, Substitute \/ CatchSignal \/ Replace
  PROVE  Preserves(gs, gs')
<1>1. /\ gs \in CallStacks /\ Top \in Frames
      /\ Argfunction \in Statements /\ ".not_catching_exception" \in Names
  BY TopSound, StatementsTyped, ThrownNames
<1>2. CASE CatchSignal
  <2>1. gs'.errors = gs.errors /\ gs'.collectExcess = gs.collectExcess
    BY <1>1, <1>2 DEF CatchSignal, CallStacks
  <2> QED BY <1>1, <2>1, SamePreserves
<1>3. CASE Replace
  <2>1. gs' = IF gs.inHandler THEN ReplaceError(gs, Top.cmd.name)
              ELSE AddError(gs, ".not_catching_exception")
    BY <1>3 DEF Replace, Finish
  <2>2. gs'.errors = Append(gs.errors, Top.cmd.name)
        \/ gs'.errors = Append(gs.errors, ".not_catching_exception")
    BY <1>1, <2>1 DEF ReplaceError, AddError, CallStacks
  <2>3. gs.errors \in Seq(Names)
    BY <1>1 DEF CallStacks
  <2>4. ASSUME NEW x
        PROVE  /\ Len(gs.errors) <= Len(Append(gs.errors, x))
               /\ \A p \in 1 .. Len(gs.errors) : Append(gs.errors, x)[p] = gs.errors[p]
    BY <2>3
  <2>5. gs'.collectExcess = gs.collectExcess
    BY <1>1, <2>1 DEF ReplaceError, AddError, CallStacks
  <2> QED BY <2>2, <2>4, <2>5 DEF Preserves
<1>4. CASE Substitute
  <2> DEFINE g == [gs EXCEPT !.unwind = FALSE]
             t == Append(stack, [Frame("substitution", "ran", Argfunction,
                                       Len(gs.errors)) EXCEPT !.flag = gs.unwind])
  <2>1. Call(g, t, Argfunction)
    BY <1>4 DEF Substitute
  <2>2. /\ g \in CallStacks /\ g.errors = gs.errors
        /\ g.collectExcess = gs.collectExcess
    BY <1>1 DEF CallStacks
  <2> HIDE DEF g, t
  <2>3. Preserves(g, gs')
    BY <1>1, <2>1, <2>2, CallKeeps
  <2> QED BY <2>2, <2>3 DEF Preserves
<1> QED BY <1>2, <1>3, <1>4

\* Collectors, which remember an excess when they find one.
LEMMA CollectKeeps ==
  ASSUME Faithful, Sound, Fresh(gs, stack),
         \/ EnterCollect \/ CollectNext \/ CollectEnd
         \/ CollectUndefined \/ CollectRun \/ CollectRan
  PROVE  Preserves(gs, gs')
<1>1. /\ gs \in CallStacks /\ Len(gs.errors) \in Nat /\ FromScript(Top)
      /\ Top.stmt \in Statements
  BY TopSound
<1>2. CASE EnterCollect \/ CollectNext \/ CollectEnd \/ CollectRan
  <2>1. gs'.errors = gs.errors /\ gs'.collectExcess = gs.collectExcess
    BY <1>1, <1>2
       DEF EnterCollect, CollectNext, CollectEnd, CollectRan, Finish, CallStacks
  <2> QED BY <1>1, <2>1, SamePreserves
<1>3. CASE CollectRun
  <2>1. gs' = gs \/ Run(gs, Goto("ran"), Top.stmt)
    BY <1>3 DEF CollectRun
  <2> QED BY <1>1, <2>1, CallKeeps, SamePreserves
<1>4. CASE CollectUndefined
  <2> DEFINE d == DestroyList(gs, Top.mark)
  <2>1. /\ gs' = AddError(d, ".undefined_variable")
        /\ Top.what = "collect" /\ Top.pc = "arguments" /\ "undefined" \in Faults
    BY <1>4 DEF CollectUndefined
  <2>2. "substitution" \notin Faults
    <3>1. "collect" \in Kinds \ {"call", "block", "throw"}
      BY DEF Kinds
    <3>2. ~Never("collect")
      BY <1>1, <2>1, <3>1, NotInScripts
    <3> QED BY <2>1, <3>2 DEF Faithful
  <2>3. Top.mark = Len(gs.errors)
    <3>1. Len(stack) \in 1 .. Len(stack) /\ Top = stack[Len(stack)]
      BY TopSound
    <3>2. Collecting(Top)
      BY <2>1 DEF Collecting
    <3> QED BY <2>2, <3>1, <3>2 DEF Fresh
  <2>4. /\ d \in CallStacks /\ d.errors = gs.errors
        /\ d.collectExcess = gs.collectExcess
    <3>1. /\ d \in CallStacks /\ d.collectExcess = gs.collectExcess
          /\ d.errors = SubSeq(gs.errors, 1, Len(gs.errors))
      BY <1>1, <2>3, DestroyListType DEF DestroyList, CallStacks
    <3>2. SubSeq(gs.errors, 1, Len(gs.errors)) = gs.errors
      BY <1>1 DEF CallStacks
    <3> QED BY <3>1, <3>2
  <2> HIDE DEF d
  <2>5. Grows(d, gs')
    BY <2>1, <2>4, ThrownNames, AddErrorEffect
  <2> QED BY <2>4, <2>5 DEF Grows, Preserves
<1> QED BY <1>2, <1>3, <1>4

LEMMA ExcessKeeps ==
  ASSUME Sound, CollectExcess
  PROVE  /\ Len(gs.errors) <= Len(gs'.errors)
         /\ \A p \in 1 .. Len(gs.errors) : gs'.errors[p] = gs.errors[p]
         /\ ~gs.collectExcess =>
              \E p \in 1 .. Len(gs'.errors) : gs'.errors[p] = Excess
<1>1. gs \in CallStacks /\ Len(gs.errors) \in Nat /\ Excess \in Names
  BY TopSound, ThrownNames DEF Excess
<1> DEFINE b == ~gs.collectExcess
           g == AddErrorIf(b, gs, Excess)
<1>2. gs' = [g EXCEPT !.unwind = TRUE, !.collectExcess = TRUE]
  BY DEF CollectExcess, Excess
<1>3. Grows(gs, g)
  <2>1. b \in BOOLEAN
    OBVIOUS
  <2> HIDE DEF b
  <2> QED BY <1>1, <2>1, AddErrorIfEffect
<1>4. b => /\ Len(g.errors) = Len(gs.errors) + 1
           /\ g.errors[Len(gs.errors) + 1] = Excess
  BY <1>1, AddErrorEffect DEF AddErrorIf
<1>5. b => \E p \in 1 .. Len(g.errors) : g.errors[p] = Excess
  BY <1>1, <1>4
<1> HIDE DEF g
<1>6. gs'.errors = g.errors
  BY <1>2, <1>3 DEF Grows, CallStacks
<1> QED BY <1>3, <1>5, <1>6 DEF Grows

LEMMA GetlineKeeps ==
  ASSUME Never("source"), Sound,
         \/ GetlineFails \/ GetlineEnd \/ GetlineUnclosed \/ GetlineIncomplete
         \/ GetlineMalformed \/ GetlineComplete
  PROVE  Preserves(gs, gs')
<1>1. /\ gs \in CallStacks /\ FromScript(Top) /\ Len(gs.errors) \in Nat
      /\ Top.what \in {"main", "source"} /\ Top.pc \in {"read", "more", "unclosed"}
  BY TopSound
     DEF GetlineFails, GetlineEnd, GetlineUnclosed, GetlineIncomplete,
         GetlineMalformed, GetlineComplete, ReadingLine
<1>2. Top.what = "main"
  <2>1. "source" \in Kinds \ {"call", "block", "throw"}
    BY DEF Kinds
  <2> QED BY <1>1, <2>1, NotInScripts
<1>3. Len(stack) = 1 /\ stack[1] = Top /\ stack[1].what = "main" /\ Top.base = 0
  BY <1>2, MainAlone
<1>4. gs.errors = << >>
  <2>1. ~gs.unwind /\ stack[1].pc # "before" /\ Accounts(gs, stack)
    BY <1>1, <1>3, MainQuiet DEF Pending, Sound
  <2> QED BY <1>1, <1>3, <2>1, MainQuiet
<1> DEFINE r == Reset(gs, 0)
<1>5. r \in CallStacks /\ Preserves(gs, r)
  <2>1. 0 \in 0 .. Len(gs.errors)
    BY <1>1
  <2>2. /\ r \in CallStacks /\ r.collectExcess = gs.collectExcess
        /\ r.errors = SubSeq(gs.errors, 1, 0)
    BY <1>1, <2>1, ResetFields
  <2>3. SubSeq(gs.errors, 1, 0) = gs.errors
    BY <1>1, <1>4
  <2> QED BY <1>1, <2>2, <2>3, SamePreserves
<1> HIDE DEF r
<1>6. /\ {".unclosed_brace", ".mismatched_brace"} \subseteq Names
      /\ RawCommand \in Statements
  BY StatementsTyped, NamesInUse, ShellNames DEF ShellExceptions, RawCommand
<1>7. gs' \in CallStacks /\ \A h \in CallStacks :
        Preserves(gs, h) /\ Preserves(h, gs') => Preserves(gs, gs')
  <2>1. gs' \in CallStacks
    BY NextOK DEF Sound, ShellInvariant, StackOK, Next, ShellNext
  <2> QED BY <1>1, <2>1, PreservesOn
<1>8. CASE GetlineFails \/ GetlineUnclosed
  <2>1. gs' = gs \/ gs' = AddError(gs, ".unclosed_brace")
    BY <1>8 DEF GetlineFails, GetlineUnclosed
  <2>2. Grows(gs, gs')
    BY <1>1, <1>6, <2>1, AddErrorEffect, GrowsSelf
  <2> QED BY <2>2, GrowsPreserves
<1>9. CASE GetlineEnd
  <2> DEFINE s == SetTop([Top EXCEPT !.pc = "unclosed", !.flag = TRUE])
  <2>1. gs' = r \/ RunHandling(r, s, "run_handling", 0, RawCommand)
    BY <1>3, <1>9 DEF GetlineEnd, r
  <2> HIDE DEF s
  <2>2. Preserves(r, gs')
    BY <1>5, <1>6, <2>1, MainCallsKeep, SamePreserves
  <2> QED BY <1>5, <1>7, <2>2
<1>10. CASE GetlineComplete
  <2> DEFINE s == Goto("got")
  <2>1. RunHandling(r, s, "run_handling", 0, RawCommand)
    BY <1>3, <1>10 DEF GetlineComplete, r
  <2> HIDE DEF s
  <2>2. Preserves(r, gs')
    BY <1>5, <1>6, <2>1, MainCallsKeep
  <2> QED BY <1>5, <1>7, <2>2
<1>11. CASE GetlineMalformed
  <2> DEFINE h == AddError(r, ".mismatched_brace")
             s == Goto("got")
  <2>1. CatchOne(h, s, RawCommand)
    BY <1>3, <1>11 DEF GetlineMalformed, r
  <2>2. Grows(r, h) /\ h \in CallStacks
    BY <1>5, <1>6, AddErrorEffect DEF Grows
  <2> HIDE DEF h, s
  <2>3. Preserves(gs, h)
    BY <1>1, <1>5, <2>2, GrowsPreserves, PreservesOn
  <2>4. Preserves(h, gs')
    BY <1>6, <2>1, <2>2, MainCallsKeep
  <2> QED BY <1>7, <2>2, <2>3, <2>4
<1>12. CASE GetlineIncomplete
  <2> DEFINE g == AddError(r, ".unclosed_brace")
             h == RemoveExceptions(g, 0, ".unclosed_brace")
  <2>1. gs' = h
    BY <1>3, <1>12 DEF GetlineIncomplete, r
  <2>2. Grows(r, g) /\ g \in CallStacks
    BY <1>5, <1>6, AddErrorEffect DEF Grows
  <2>3. Pruned(g, h, 0)
    <3>1. 0 \in 0 .. Len(g.errors) /\ ".unclosed_brace" \in Jumps
      BY <2>2, CallStackErrors DEF Jumps
    <3> HIDE DEF g
    <3> QED BY <2>2, <3>1, RemoveExceptionsEffect
  <2> HIDE DEF g, h
  <2>4. h.collectExcess => gs.collectExcess
    BY <1>5, <2>2, <2>3 DEF Grows, Pruned, Preserves
  <2>5. Len(gs.errors) = 0 /\ Len(gs'.errors) \in Nat
    BY <1>4, <1>7, CallStackErrors
  <2> QED BY <2>1, <2>4, <2>5 DEF Preserves
<1> QED BY <1>8, <1>9, <1>10, <1>11, <1>12

LEMMA AtMainKeeps ==
  ASSUME Sound,
         \/ MainInit \/ MainRegister \/ MainPrompt \/ MainGot \/ MainStatement
         \/ MainInterpreted \/ MainRun \/ MainAfter \/ MainShutdown \/ MainGlobals
  PROVE  Preserves(gs, gs')
<1>1. gs \in CallStacks /\ Top.stmt \in Statements
  BY TopSound
<1>2. /\ {".init", ".prompt", ".shutdown", ".before_command",
           ".run_logic", ".after_command"} \subseteq Names
      /\ ".unused_variable" \in Names
      /\ \A name \in Names : CallOf(name) \in Statements
  BY NamesInUse, ShellNames, StatementsTyped DEF ShellExceptions
<1>3. ASSUME NEW s, NEW what, NEW base, NEW c \in Statements,
             RunHandling(gs, s, what, base, c)
      PROVE  Preserves(gs, gs')
  BY <1>1, <1>2, <1>3, MainCallsKeep
<1>4. ASSUME NEW s, NEW name \in Names, RunIfExists(gs, s, name)
      PROVE  Preserves(gs, gs')
  BY <1>1, <1>2, <1>4, MainCallsKeep
<1>5. ASSUME NEW h \in CallStacks, NEW s, NEW base, StartHandler(h, s, base)
      PROVE  Preserves(h, gs')
  BY <1>1, <1>2, <1>5, MainCallsKeep
<1>6. CASE gs' = gs
  BY <1>1, <1>6, SamePreserves
<1>7. CASE MainInit \/ MainShutdown
  BY <1>2, <1>3, <1>7 DEF MainInit, MainShutdown
<1>8. CASE MainPrompt
  BY <1>2, <1>3, <1>6, <1>8 DEF MainPrompt
<1>9. CASE MainGot
  BY <1>1, <1>5, <1>6, <1>9 DEF MainGot
<1>10. CASE MainRegister \/ MainStatement
  BY <1>6, <1>10 DEF MainRegister, MainStatement
<1>11. CASE MainInterpreted
  <2>1. PICK u \in {FALSE} \cup {"undefined" \in Faults} :
          LET c == IF u THEN CallOf(".undefined_variable") ELSE Top.stmt
          IN  RunIfExists(gs, SetTop([Top EXCEPT !.pc = "before", !.stmt = c]),
                          ".before_command")
    BY <1>11 DEF MainInterpreted
  <2> DEFINE c == IF u THEN CallOf(".undefined_variable") ELSE Top.stmt
             s == SetTop([Top EXCEPT !.pc = "before", !.stmt = c])
  <2>2. RunIfExists(gs, s, ".before_command")
    BY <2>1
  <2> HIDE DEF s
  <2> QED BY <1>2, <1>4, <2>2
<1>12. CASE MainRun
  <2>1. \/ StartHandler(gs, Goto("after"), Top.base)
        \/ RunIfExists(gs, Goto("after"), ".run_logic")
        \/ RunHandling(gs, Goto("after"), "base_run", Top.base, Top.stmt)
    BY <1>12 DEF MainRun
  <2> QED BY <1>1, <1>2, <1>3, <1>4, <1>5, <2>1
<1>13. CASE MainAfter
  BY <1>2, <1>4, <1>13 DEF MainAfter
<1>14. CASE MainGlobals
  <2> DEFINE h == AddError(gs, ".unused_variable")
             base == Len(gs.errors)
  <2>1. Grows(gs, h) /\ h \in CallStacks
    BY <1>1, <1>2, AddErrorEffect DEF Grows
  <2>2. StartHandler(h, Goto("done"), base) \/ gs' = gs
    BY <1>14 DEF MainGlobals
  <2> HIDE DEF h
  <2>3. CASE StartHandler(h, Goto("done"), base)
    <3>1. Preserves(gs, h)
      BY <2>1, GrowsPreserves
    <3>2. gs'.errors = h.errors /\ gs'.collectExcess = h.collectExcess
      BY <2>1, <2>3 DEF StartHandler, CallStacks
    <3> QED BY <3>1, <3>2 DEF Preserves
  <2> QED BY <1>6, <2>2, <2>3
<1> QED BY <1>7, <1>8, <1>9, <1>10, <1>11, <1>12, <1>13, <1>14

\* Scripts do not catch exceptions themselves.
LEMMA NoCatching ==
  ASSUME Never("try"), Sound
  PROVE  Top.what # "try" /\ ~(CatchNext \/ CatchReturned \/ CatchExcess \/ CatchDone)
<1>1. "try" \in Kinds \ {"call", "block", "throw"}
  BY DEF Kinds
<1>2. Top.what # "try"
  BY <1>1, TopSound, NotInScripts
<1> QED BY <1>2 DEF CatchNext, CatchReturned, CatchExcess, CatchDone

\* All steps but those of the routines that handle exceptions.
LEMMA StepKeeps ==
  ASSUME Never("try"), Never("source"), Faithful, Sound, Fresh(gs, stack),
         Tidy(gs, stack), Others, ~HandleNext, ~HandlerReturned,
         ~StepwiseAborts, ~CollectExcess
  PROVE  Preserves(gs, gs')
BY NoCatching, ReturnsKeep, OthersKeep, CollectKeeps, GetlineKeeps, AtMainKeeps
   DEF Others

\* Exceptions only leave the lists in the hands of a routine that handles them:
\* the loop of exception_handler, or remove_exceptions in a loop or a condition.
\* No list of operator(), run_if_exists or getline is destroyed or reset while it
\* holds any, and none of a collector's while it is Faithful, unless scripts catch
\* exceptions themselves or read other scripts.
THEOREM NothingDroppedHolds ==
  ASSUME Never("try"), Never("source"), Faithful
  PROVE  Spec => NothingDropped
<1>1. Sound /\ Fresh(gs, stack) /\ Tidy(gs, stack) /\ [Next]_vars
        => [Len(gs'.errors) < Len(gs.errors) => Handling]_vars
  <2> SUFFICES ASSUME Sound, Fresh(gs, stack), Tidy(gs, stack), [Next]_vars,
                      ~Handling
               PROVE  ~(Len(gs'.errors) < Len(gs.errors))
    OBVIOUS
  <2>1. ShellInvariant /\ Rooted(stack)
    BY DEF Sound, Origins
  <2>2. ~(HandleNext \/ HandlerReturned \/ StepwiseAborts)
    BY DEF Handling, HandleNext, HandlerReturned, StepwiseAborts, Loops
  <2>3. Len(gs.errors) \in Nat /\ Len(gs'.errors) \in Nat
    <3>1. ShellInvariant'
      BY <2>1, NextOK
    <3> QED BY <2>1, <3>1 DEF ShellInvariant, StackOK, CallStacks
  <2>4. CASE Advancing
    BY <2>3, <2>4, AdvanceKeeps DEF Preserves
  <2>5. CASE Others
    BY <2>2, <2>3, <2>5, StepKeeps, ExcessKeeps DEF Preserves
  <2>6. CASE UNCHANGED vars
    BY <2>3, <2>6 DEF vars
  <2> QED BY <2>1, <2>4, <2>5, <2>6, StepKinds
<1> QED BY <1>1, TidyHolds, FreshHolds, PTL DEF Spec, NothingDropped

-----------------------------------------------------------------------------
\* Remembered: the flag that says that an excess was reported (the member
\* collect_excess_thrown) does not outlive the report and the handlers.

LEMMA ExcessKept ==
  ASSUME NEW g, NEW h, NEW b, Grows(g, h) \/ Pruned(g, h, b),
         NEW p \in 1 .. Len(g.errors), g.errors[p] = Excess
  PROVE  \E q \in 1 .. Len(h.errors) : h.errors[q] = Excess
<1>1. Excess \notin Jumps
  BY DEF Excess, Jumps
<1>2. CASE Pruned(g, h, b)
  <2>1. g.errors[p] \notin Jumps
    BY <1>1
  <2> QED BY <1>2, <2>1 DEF Pruned
<1>3. CASE Grows(g, h)
  <2>1. /\ Len(g.errors) \in Nat /\ Len(h.errors) \in Nat
        /\ Len(g.errors) <= Len(h.errors) /\ h.errors[p] = g.errors[p]
    BY <1>3, CallStackErrors DEF Grows
  <2>2. p \in 1 .. Len(h.errors)
    BY <2>1
  <2> QED BY <2>1, <2>2
<1> QED BY <1>2, <1>3

\* Where the handlers are on top, they are the next to take a step.
LEMMA HandlerSteps ==
  ASSUME ShellInvariant, Origins(gs, inAuto, stack), [Next]_vars,
         Top.what = "handler"
  PROVE  HandleNext \/ HandlerReturned \/ HandlersDone \/ UNCHANGED stack
<1>1. Rooted(stack)
  BY DEF Origins
<1>2. ~Advancing /\ ~Leaves
  <2>1. "handler" \notin Kinds
    BY DEF Kinds
  <2> QED BY <2>1 DEF Advancing, Advances, Leaves, Plain, Absorbing, HelperKinds, Top
<1>3. /\ ~SecondLookup /\ ~Substituted /\ ~RanHandling
      /\ ~RanIfExists /\ ~CaughtOne /\ ~Substitute
      /\ ~Replace /\ ~StepwiseAborts
  BY DEF SecondLookup, Substituted, RanHandling, RanIfExists, CaughtOne,
     Substitute, Interpreting, Bodies, Replace, StepwiseAborts
<1>4. /\ ~EnterCollect /\ ~CollectNext /\ ~CollectExcess /\ ~CollectEnd
      /\ ~CollectUndefined /\ ~CollectRun /\ ~CollectRan
      /\ ~CatchNext /\ ~CatchReturned /\ ~CatchExcess /\ ~CatchDone
  BY DEF EnterCollect, CollectNext, CollectExcess, CollectEnd, CollectUndefined,
     CollectRun, CollectRan, CatchNext, CatchReturned, CatchExcess, CatchDone
<1>5. /\ ~GetlineFails /\ ~GetlineEnd /\ ~GetlineUnclosed /\ ~GetlineIncomplete
      /\ ~GetlineMalformed /\ ~GetlineComplete
  BY DEF GetlineFails, GetlineEnd, GetlineUnclosed, GetlineIncomplete,
     GetlineMalformed, GetlineComplete, ReadingLine
<1>6. /\ ~MainInit /\ ~MainRegister /\ ~MainPrompt /\ ~MainGot /\ ~MainStatement
      /\ ~MainInterpreted /\ ~MainRun /\ ~MainAfter /\ ~MainShutdown /\ ~MainGlobals
  BY DEF MainInit, MainRegister, MainPrompt, MainGot, MainStatement,
     MainInterpreted, MainRun, MainAfter, MainShutdown, MainGlobals
<1>7. CatchSignal => UNCHANGED stack
  BY DEF CatchSignal
<1>8. UNCHANGED vars => UNCHANGED stack
  BY DEF vars
<1> QED BY <1>1, <1>2, <1>3, <1>4, <1>5, <1>6, <1>7, <1>8, StepKinds DEF Others

\* The handlers stay where they are until they are done.
LEMMA HandlersStay ==
  ASSUME ShellInvariant, Origins(gs, inAuto, stack), [Next]_vars,
         ~StepwiseAborts, ~HandlersDone,
         NEW i \in 1 .. Len(stack), stack[i].what = "handler"
  PROVE  \E j \in 1 .. Len(stack') : stack'[j].what = "handler"
<1> DEFINE n == Len(stack)
<1>1. /\ stack \in Seq(Frames) /\ n \in Nat \ {0} /\ Top = stack[n]
      /\ Top \in Frames /\ gs \in CallStacks /\ Rooted(stack)
  BY TopOfOrigins DEF Origins
<1>2. CASE i = n
  <2>1. Top.what = "handler"
    BY <1>1, <1>2
  <2>2. CASE UNCHANGED stack
    BY <2>2
  <2>3. ASSUME NEW f \in Frames, f.what = "handler",
               \/ stack' = SetTop(f)
               \/ \E c \in Statements : Run(gs, SetTop(f), c)
        PROVE  \E j \in 1 .. Len(stack') : stack'[j].what = "handler"
    <3> DEFINE t == SetTop(f)
    <3>1. /\ t \in Seq(Frames) /\ Len(t) = n /\ t[n] = f
      BY <1>1, Replaced DEF SetTop
    <3>2. stack' = t \/ \E c \in Statements : Run(gs, t, c)
      BY <2>3
    <3> HIDE DEF t
    <3>3. CASE stack' = t
      <4>1. n \in 1 .. Len(stack')
        BY <1>1, <3>1, <3>3
      <4> QED BY <2>3, <3>1, <3>3, <4>1
    <3>4. ASSUME NEW c \in Statements, Run(gs, t, c)
          PROVE  \E j \in 1 .. Len(stack') : stack'[j].what = "handler"
      <4>1. Continues(gs, t, inAuto, gs', stack', inAuto')
        BY <1>1, <3>4, RunContinues
      <4>2. gs' \in CallStacks
        BY <4>1 DEF Continues, Grows
      <4>3. n \in 1 .. Len(t)
        BY <1>1, <3>1
      <4>6. Upon(stack', t)
        BY <1>1, <3>1, <4>1, <4>2, ContinuesOver
      <4>4. stack'[n] = f
        BY <3>1, <4>3, <4>6 DEF Upon
      <4>5. n \in 1 .. Len(stack')
        <5>1. Len(stack') >= Len(t)
          BY <4>6 DEF Upon
        <5>2. Len(stack') \in Nat
          BY <1>1, NextOK DEF ShellInvariant, StackOK
        <5> QED BY <1>1, <3>1, <5>1, <5>2
      <4> QED BY <2>3, <4>4, <4>5
    <3> QED BY <3>2, <3>3, <3>4
  <2>4. CASE HandleNext
    <3> DEFINE front == gs.errors[Top.base + 1]
               c == CallOf(front)
               f == [Top EXCEPT !.pc = "ran", !.prev = gs.count, !.stmt = c,
                                !.mark = Len(gs.errors)]
    <3>1. stack' = stack \/ Run(gs, SetTop(f), c)
      BY <2>4 DEF HandleNext
    <3>2. c \in Statements
      <4>1. Top.base + 1 \in 1 .. Len(gs.errors)
        <5>1. Top.base \in Nat /\ Len(gs.errors) \in Nat /\ Len(gs.errors) > Top.base
          BY <1>1, <2>4, CallStackErrors DEF Frames, HandleNext
        <5> QED BY <5>1
      <4>2. front \in Names
        BY <1>1, <4>1, CallStackErrors
      <4> HIDE DEF front
      <4> QED BY <4>2, StatementsTyped
    <3>3. f \in Frames /\ f.what = "handler"
      <4>1. c \in CommandType /\ "ran" \in Places
        BY <3>2, StatementsTyped DEF Places
      <4>2. gs.count \in Nat /\ Len(gs.errors) \in Nat
        BY <1>1, LimitsAssumption, CallStackErrors DEF CallStacks
      <4> HIDE DEF c
      <4> QED BY <1>1, <2>1, <4>1, <4>2 DEF Frames
    <3> HIDE DEF f, c
    <3> QED BY <2>2, <2>3, <3>1, <3>2, <3>3
  <2>5. CASE HandlerReturned
    <3>1. PICK S : stack' = SetTop([Top EXCEPT !.pc = "next", !.failed = S])
      BY <2>5 DEF HandlerReturned
    <3> DEFINE f == [Top EXCEPT !.pc = "next", !.failed = S]
    <3>2. f \in Frames
      BY <3>1, SetFrame, NextOK
    <3>3. f.what = "handler" /\ stack' = SetTop(f)
      BY <1>1, <2>1, <3>1 DEF Frames
    <3> HIDE DEF f
    <3> QED BY <2>3, <3>2, <3>3
  <2> QED BY <2>1, <2>2, <2>4, <2>5, HandlerSteps
<1>3. CASE i < n
  <2>1. CASE CollectNext
    <3>1. PICK c \in Commands :
            stack' = SetTop([Top EXCEPT !.pc = "arguments", !.stmt = c,
                                        !.mark = Len(gs.errors)])
      BY <2>1 DEF CollectNext
    <3> DEFINE f == [Top EXCEPT !.pc = "arguments", !.stmt = c,
                                !.mark = Len(gs.errors)]
    <3>2. f \in Frames /\ stack' = SetTop(f)
      BY <3>1, SetFrame, NextOK
    <3> HIDE DEF f
    <3>3. Len(stack') = n /\ \A j \in 1 .. n - 1 : stack'[j] = stack[j]
      BY <1>1, <3>2, Replaced DEF SetTop
    <3>4. i \in 1 .. n - 1 /\ i \in 1 .. Len(stack')
      BY <1>1, <1>3, <3>3
    <3> QED BY <3>3, <3>4
  <2>2. CASE ~CollectNext
    <3>1. Layered(stack')
      BY <2>2, Layers
    <3>2. i \in 1 .. Len(stack')
      <4>1. Len(stack') >= n - 1 /\ Len(stack') \in Nat
        BY <3>1 DEF Layered
      <4> QED BY <1>1, <1>3, <4>1
    <3>3. LayerAt(stack', i)
      BY <3>1, <3>2 DEF Layered
    <3>4. stack'[i] = stack[i]
      BY <1>1, <1>3, <3>3 DEF LayerAt
    <3> QED BY <3>2, <3>4
  <2> QED BY <2>1, <2>2
<1> QED BY <1>1, <1>2, <1>3

LEMMA RememberedNext ==
  ASSUME Never("try"), Never("source"), Sound, Fresh(gs, stack),
         Tidy(gs, stack), Remembered(gs, stack), [Next]_vars
  PROVE  Remembered(gs', stack')
<1> DEFINE Waiting(g) == \E p \in 1 .. Len(g.errors) : g.errors[p] = Excess
           Handled(s) == \E i \in 1 .. Len(s) : s[i].what = "handler"
<1> SUFFICES ASSUME Faithful, gs'.collectExcess
             PROVE  Handled(stack') \/ Waiting(gs')
  BY DEF Remembered
<1>1. /\ ShellInvariant /\ Origins(gs, inAuto, stack) /\ Rooted(stack)
      /\ gs \in CallStacks /\ Len(gs.errors) \in Nat
  BY TopSound DEF Sound, Origins
<1>2. gs.collectExcess => Handled(stack) \/ Waiting(gs)
  BY DEF Remembered
<1>3. ~StepwiseAborts /\ ~HandlersDone
  <2>1. StepwiseAborts => gs' = InitialCallStack
    BY DEF StepwiseAborts, Abort
  <2>2. ~InitialCallStack.collectExcess
    BY DEF InitialCallStack
  <2>3. HandlersDone => gs'.collectExcess = FALSE
    BY <1>1 DEF HandlersDone, CallStacks
  <2> QED BY <2>1, <2>2, <2>3
<1>4. Handled(stack) => Handled(stack')
  BY <1>1, <1>3, HandlersStay
<1>5. ASSUME Preserves(gs, gs')
      PROVE  gs.collectExcess /\ (Waiting(gs) => Waiting(gs'))
  <2>1. ShellInvariant'
    BY <1>1, NextOK
  <2>2. Len(gs'.errors) \in Nat
    BY <2>1 DEF ShellInvariant, StackOK, CallStacks
  <2> QED BY <1>1, <1>5, <2>2 DEF Preserves
<1>6. CASE Preserves(gs, gs')
  <2> HIDE DEF Waiting, Handled
  <2> QED BY <1>2, <1>4, <1>5, <1>6
<1>7. CASE Advancing
  <2>1. PICK k \in CallStacks, f \in Frames :
          /\ Grows(gs, k) \/ Pruned(gs, k, Top.base)
          /\ Continues(k, [stack EXCEPT ![Len(stack)] = f], inAuto,
                       gs', stack', inAuto')
    BY <1>7 DEF Advancing, Advances, Top
  <2>2. Grows(k, gs')
    BY <2>1 DEF Continues
  <2>3. gs.collectExcess
    BY <2>1, <2>2 DEF Grows, Pruned
  <2>4. Waiting(gs) => Waiting(k)
    BY <2>1, ExcessKept
  <2>5. Waiting(k) => Waiting(gs')
    BY <2>2, ExcessKept
  <2> HIDE DEF Waiting, Handled
  <2> QED BY <1>2, <1>4, <2>3, <2>4, <2>5
<1>8. CASE HandleNext \/ HandlerReturned
  <2>1. Top.what = "handler" /\ Len(stack) \in 1 .. Len(stack) /\ Top = stack[Len(stack)]
    BY <1>8, TopSound DEF HandleNext, HandlerReturned
  <2>2. Handled(stack)
    BY <2>1
  <2> HIDE DEF Waiting, Handled
  <2> QED BY <1>4, <2>2
<1>9. CASE CollectExcess
  <2>1. /\ Len(gs.errors) <= Len(gs'.errors)
        /\ \A p \in 1 .. Len(gs.errors) : gs'.errors[p] = gs.errors[p]
        /\ ~gs.collectExcess => Waiting(gs')
    BY <1>9, ExcessKeeps
  <2>2. ShellInvariant'
    BY <1>1, NextOK
  <2>3. Len(gs'.errors) \in Nat
    BY <2>2 DEF ShellInvariant, StackOK, CallStacks
  <2>4. Waiting(gs) => Waiting(gs')
    BY <1>1, <2>1, <2>3
  <2> HIDE DEF Waiting, Handled
  <2> QED BY <1>2, <1>4, <2>1, <2>4
<1>10. CASE UNCHANGED vars
  BY <1>1, <1>6, <1>10, SamePreserves DEF vars
<1>11. CASE Others /\ ~(HandleNext \/ HandlerReturned \/ CollectExcess)
  BY <1>3, <1>6, <1>11, StepKeeps
<1> HIDE DEF Waiting, Handled
<1> QED BY <1>1, <1>7, <1>8, <1>9, <1>10, <1>11, StepKinds

\* In a shell whose scripts neither catch exceptions themselves nor read other
\* scripts, an excess that is remembered is yet to be handled or being handled.
THEOREM RememberedHolds ==
  ASSUME Never("try"), Never("source")
  PROVE  Spec => [](Sound /\ Tidy(gs, stack) /\ Remembered(gs, stack))
<1>1. Init => Remembered(gs, stack)
  BY DEF Init, Remembered, InitialCallStack
<1>2. Sound /\ Fresh(gs, stack) /\ Tidy(gs, stack) /\ Remembered(gs, stack)
      /\ [Next]_vars
        => Remembered(gs, stack)'
  BY RememberedNext
<1> QED BY <1>1, <1>2, TidyHolds, FreshHolds, PTL DEF Spec

LEMMA SameCallStack ==
  ASSUME NEW g \in CallStacks, NEW h \in CallStacks,
         g.errors = h.errors, g.unwind = h.unwind, g.count = h.count,
         g.inHandler = h.inHandler, g.collectExcess = h.collectExcess,
         g.catchExcess = h.catchExcess, g.nesting = h.nesting,
         g.exit = h.exit, g.signal = h.signal
  PROVE  g = h
BY DEF CallStacks

\* Between two lines nothing of the last one is left (the loop of main): every
\* exception was handled, unwinding is off, no handler is thought to be running,
\* no excess is remembered and every level of nesting was given back, unless
\* scripts catch exceptions themselves or read from other scripts, or a collector
\* takes a list that is not empty with it.
THEOREM PromptCleanHolds ==
  ASSUME Never("try"), Never("source"), Faithful
  PROVE  Spec => []PromptClean
<1>1. ASSUME Sound, Tidy(gs, stack), Remembered(gs, stack) PROVE PromptClean
  <2> SUFFICES ASSUME Top.what = "main", Top.pc = "prompt"
               PROVE  /\ gs = [InitialCallStack EXCEPT !.exit = gs.exit,
                                                       !.signal = gs.signal]
                      /\ ~inAuto
    BY DEF PromptClean, AtPrompt
  <2>1. /\ Len(stack) = 1 /\ stack[1] = Top /\ stack[1].what = "main"
        /\ stack[1].pc = "prompt"
    BY <1>1, MainAlone
  <2>2. /\ gs \in CallStacks /\ ShellInvariant /\ Accounts(gs, stack)
        /\ AutoOK(inAuto, stack) /\ FlagOK(gs, stack) /\ inAuto \in BOOLEAN
    BY <1>1, TopSound DEF Sound, Origins
  <2>3. ~gs.unwind /\ gs.errors = << >>
    <3>1. ~gs.unwind
      BY <2>1, <2>2, MainQuiet DEF Pending
    <3> QED BY <2>1, <2>2, <3>1, MainQuiet
  <2>4. ~inAuto
    <3>1. \A i \in 1 .. Len(stack) : stack[i].what # "autofunction"
      BY <2>1
    <3> QED BY <2>2, <3>1 DEF AutoOK
  <2>5. ~gs.inHandler
    <3>1. ~Between(stack[Len(stack)])
      BY <2>1 DEF Between
    <3>2. \A i \in 1 .. Len(stack) : ~Catching(stack[i])
      BY <2>1 DEF Catching
    <3> QED BY <2>2, <3>1, <3>2 DEF FlagOK
  <2>6. gs.count = 0 /\ ~gs.collectExcess /\ ~gs.catchExcess
    <3>1. gs.count = Counted(0) /\ ~gs.catchExcess
      BY <1>1, <2>3 DEF Tidy, Counting, CounterOK
    <3>2. ~gs.collectExcess
      <4>1. \A i \in 1 .. Len(stack) : stack[i].what # "handler"
        BY <2>1
      <4>2. ~\E p \in 1 .. Len(gs.errors) : gs.errors[p] = Excess
        BY <2>3
      <4> QED BY <1>1, <4>1, <4>2 DEF Remembered
    <3> QED BY <3>1, <3>2, CountedZero
  <2>7. gs.nesting = 0
    <3>1. gs.nesting = Cardinality(NestedIn(stack))
      BY <2>2 DEF ShellInvariant, StackOK
    <3>2. NestedIn(stack) = {}
      <4>1. ~Counts(stack[1])
        BY <2>1 DEF Counts, Kinds
      <4> QED BY <2>1, <2>2, <4>1 DEF NestedIn, ShellInvariant, StackOK
    <3> QED BY <3>1, <3>2, FS_EmptySet
  <2>8. gs = [InitialCallStack EXCEPT !.exit = gs.exit, !.signal = gs.signal]
    <3> DEFINE e == gs.exit
               l == gs.signal
               k == InitialCallStack
               h == [k EXCEPT !.exit = e, !.signal = l]
    <3>1. e \in BOOLEAN /\ l \in Names
      BY <2>2 DEF CallStacks
    <3>2. k \in CallStacks
      BY NoSignalAssumption, LimitsAssumption DEF InitialCallStack, CallStacks
    <3>3. /\ k.errors = << >> /\ k.unwind = FALSE /\ k.count = 0
          /\ k.inHandler = FALSE /\ k.collectExcess = FALSE
          /\ k.catchExcess = FALSE /\ k.nesting = 0
      BY DEF InitialCallStack
    <3> HIDE DEF e, l, k
    <3>4. /\ h \in CallStacks
          /\ h.errors = << >> /\ h.unwind = FALSE /\ h.count = 0
          /\ h.inHandler = FALSE /\ h.collectExcess = FALSE
          /\ h.catchExcess = FALSE /\ h.nesting = 0
          /\ h.exit = e /\ h.signal = l
      BY <3>1, <3>2, <3>3 DEF CallStacks
    <3> HIDE DEF h
    <3>5. /\ gs.errors = h.errors /\ gs.unwind = h.unwind /\ gs.count = h.count
          /\ gs.inHandler = h.inHandler /\ gs.collectExcess = h.collectExcess
          /\ gs.catchExcess = h.catchExcess /\ gs.nesting = h.nesting
          /\ gs.exit = h.exit /\ gs.signal = h.signal
      <4>1. /\ gs.unwind = FALSE /\ gs.inHandler = FALSE
            /\ gs.collectExcess = FALSE /\ gs.catchExcess = FALSE
        BY <2>2, <2>3, <2>5, <2>6 DEF CallStacks
      <4> QED BY <2>3, <2>6, <2>7, <3>4, <4>1 DEF e, l
    <3>6. gs = h
      BY <2>2, <3>4, <3>5, SameCallStack
    <3> QED BY <3>6 DEF h, k, e, l
  <2> QED BY <2>4, <2>8
<1> QED BY <1>1, RememberedHolds, PTL

-----------------------------------------------------------------------------
\* Awake: scripts and main take up a statement only while nothing unwinds.

LEMMA EnteredOver ==
  ASSUME NEW t \in Seq(Frames), NEW c \in Statements, NEW h \in CallStacks
  PROVE  /\ Entered(t, c, h) \in Seq(Frames) /\ Len(t) \in Nat
         /\ Len(Entered(t, c, h)) = Len(t) + 1
         /\ \A i \in 1 .. Len(t) : Entered(t, c, h)[i] = t[i]
<1> DEFINE f == Frame(c.what, "enter", c, Len(h.errors))
<1>1. f \in Frames
  BY EnteredFrame
<1>2. Entered(t, c, h) = Append(t, f)
  BY DEF Entered
<1> HIDE DEF f
<1> QED BY <1>1, <1>2, Pushed

LEMMA SeekingOver ==
  ASSUME NEW t \in Seq(Frames), NEW c \in Statements, NEW g \in CallStacks
  PROVE  /\ Seeking(t, c, g) \in Seq(Frames) /\ Len(t) \in Nat
         /\ Len(Seeking(t, c, g)) = Len(t) + 1
         /\ Seeking(t, c, g)[Len(t) + 1].what = "autofunction"
         /\ \A i \in 1 .. Len(t) : Seeking(t, c, g)[i] = t[i]
<1> DEFINE f == Frame("autofunction", "second", c, Len(g.errors))
<1>1. f \in Frames /\ f.what = "autofunction"
  BY SeekingFrame
<1>2. Seeking(t, c, g) = Append(t, f)
  BY DEF Seeking
<1> HIDE DEF f
<1> QED BY <1>1, <1>2, Pushed

\* No routine is about to take up a statement, nor will be when others return.
Resting(t) == \A i \in 1 .. Len(t) : ~Starting(t[i])

LEMMA AwakeEntered ==
  ASSUME NEW t \in Seq(Frames), Resting(t), NEW c \in Statements,
         NEW h \in CallStacks, ~h.unwind
  PROVE  Awake(h, Entered(t, c, h))
<1> DEFINE u == Entered(t, c, h)
           n == Len(t)
<1>1. Len(u) = n + 1 /\ n \in Nat /\ \A i \in 1 .. n : u[i] = t[i]
  BY EnteredOver
<1>2. \A i \in 1 .. n : ~Starting(t[i])
  BY DEF Resting
<1> HIDE DEF u, n
<1>3. ASSUME NEW i \in 1 .. Len(u), Starting(u[i])
      PROVE  i = Len(u)
  <2>1. i \in 1 .. n \/ i = n + 1
    BY <1>1
  <2> QED BY <1>1, <1>2, <1>3, <2>1
<1>4. Awake(h, u)
  BY <1>3 DEF Awake
<1> QED BY <1>4 DEF u

LEMMA AwakeResting ==
  ASSUME NEW t, Resting(t), NEW h
  PROVE  Awake(h, t)
BY DEF Resting, Awake

LEMMA AwakeContinue ==
  ASSUME NEW g \in CallStacks, NEW t \in Seq(Frames), NEW auto,
         NEW h, NEW u, NEW auto2, Continues(g, t, auto, h, u, auto2),
         Resting(t)
  PROVE  Awake(h, u)
<1>1. h \in CallStacks
  BY DEF Continues, Grows
<1>2. ASSUME NEW c \in Statements
      PROVE  Seeking(t, c, g) \in Seq(Frames) /\ Resting(Seeking(t, c, g))
  <2> DEFINE v == Seeking(t, c, g)
             n == Len(t)
  <2>1. /\ v \in Seq(Frames) /\ n \in Nat /\ Len(v) = n + 1
        /\ v[n + 1].what = "autofunction" /\ \A i \in 1 .. n : v[i] = t[i]
    BY SeekingOver
  <2>2. \A i \in 1 .. n : ~Starting(t[i])
    BY DEF Resting
  <2> HIDE DEF v, n
  <2>3. ~Starting(v[n + 1])
    BY <2>1 DEF Starting, Bodies
  <2>4. ASSUME NEW i \in 1 .. Len(v) PROVE ~Starting(v[i])
    <3>1. i \in 1 .. n \/ i = n + 1
      BY <2>1
    <3> QED BY <2>1, <2>2, <2>3, <3>1
  <2>5. v \in Seq(Frames) /\ Resting(v)
    BY <2>1, <2>4 DEF Resting
  <2> QED BY <2>5 DEF v
<1>3. CASE u = t
  BY <1>3, AwakeResting
<1>4. ASSUME NEW c \in Statements, u = Entered(t, c, h), ~h.unwind
      PROVE  Awake(h, u)
  BY <1>1, <1>4, AwakeEntered
<1>5. ASSUME NEW c \in Statements, u = Seeking(t, c, g) PROVE Awake(h, u)
  BY <1>2, <1>5, AwakeResting
<1>6. ASSUME NEW c \in Statements, NEW d \in Statements,
             u = Entered(Seeking(t, c, g), d, h), ~h.unwind
      PROVE  Awake(h, u)
  BY <1>1, <1>2, <1>6, AwakeEntered
<1> QED BY <1>3, <1>4, <1>5, <1>6 DEF Continues

\* One activation is on top of those that rest.
LEMMA AwakeSet ==
  ASSUME ShellInvariant, Rooted(stack), Awake(gs, stack),
         "substitution" \notin Faults, NEW f \in Frames
  PROVE  /\ SetTop(f) \in Seq(Frames)
         /\ ~Starting(f) => Resting(SetTop(f))
         /\ \A g : ~g.unwind => Awake(g, SetTop(f))
<1> DEFINE t == SetTop(f)
           n == Len(stack)
<1>1. /\ stack \in Seq(Frames) /\ n \in Nat \ {0} /\ t \in Seq(Frames)
      /\ Len(t) = n /\ t[n] = f /\ \A i \in 1 .. n - 1 : t[i] = stack[i]
  BY TopOfOrigins, Replaced DEF SetTop
<1>2. \A i \in 1 .. n : Starting(stack[i]) => i = n
  BY DEF Awake
<1> HIDE DEF t, n
<1>3. ASSUME NEW i \in 1 .. n PROVE i = n \/ ~Starting(t[i])
  <2>1. i = n \/ (i \in 1 .. n - 1 /\ i # n)
    BY <1>1
  <2> QED BY <1>1, <1>2, <2>1
<1>4. ~Starting(f) => Resting(t)
  BY <1>1, <1>3 DEF Resting
<1>5. \A g : ~g.unwind => Awake(g, t)
  BY <1>1, <1>3 DEF Awake
<1> QED BY <1>1, <1>4, <1>5 DEF t

LEMMA AwakePopped ==
  ASSUME ShellInvariant, Rooted(stack), Awake(gs, stack),
         "substitution" \notin Faults, Top.what # "main"
  PROVE  Resting(Popped)
<1> DEFINE t == Popped
           n == Len(stack)
<1>1. /\ stack \in Seq(Frames) /\ n \in Nat /\ n > 1
      /\ Len(t) = n - 1 /\ \A i \in 1 .. n - 1 : t[i] = stack[i]
  BY TopOfOrigins, Shortened
<1>2. \A i \in 1 .. n : Starting(stack[i]) => i = n
  BY DEF Awake
<1> HIDE DEF t, n
<1>3. ASSUME NEW i \in 1 .. n - 1 PROVE ~Starting(t[i])
  <2>1. i \in 1 .. n /\ i # n
    BY <1>1
  <2> QED BY <1>1, <1>2, <2>1
<1>4. Resting(t)
  BY <1>1, <1>3 DEF Resting
<1> QED BY <1>4 DEF t

\* What a script does with its statements and then.
LEMMA BodySteps ==
  ASSUME ShellInvariant, Origins(gs, inAuto, stack), [Next]_vars,
         Top.what \in Bodies \ {"source"}
  PROVE  \/ EnterFunction \/ BadArguments \/ EnterBlock \/ NextStatement
         \/ Substitute \/ UndefinedVariable \/ RunStatement \/ AfterStatement
         \/ UnusedVariables \/ Return \/ SignalHandled
         \/ (UNCHANGED stack /\ gs'.unwind = gs.unwind)
<1>1. Top.what \in {"call", "scope", "block"} /\ gs \in CallStacks
  BY TopOfOrigins DEF Bodies, Origins
<1>2. /\ ~SecondLookup /\ ~Substituted /\ ~HandlersDone /\ ~RanHandling
      /\ ~RanIfExists /\ ~CaughtOne /\ ~HandleNext /\ ~HandlerReturned
  BY <1>1 DEF SecondLookup, Substituted, HandlersDone, RanHandling,
     RanIfExists, CaughtOne, HandleNext, HandlerReturned
<1>3. CatchSignal => UNCHANGED stack /\ gs'.unwind = gs.unwind
  BY <1>1 DEF CatchSignal, CallStacks
<1>4. ~ControlFlowNext
  BY <1>1 DEF ControlFlowNext, Throw, Exit, Replace, EnterCollect, CollectNext,
     CollectExcess, CollectEnd, CollectUndefined, CollectRun, CollectRan, Try,
     TryReturned, CatchNext, CatchReturned, CatchExcess, CatchDone, WhileTest,
     WhileTested, ForNext, ForEnd, EnterStepwise, StepwiseAborts, StepwiseNext,
     StepwiseRun, LoopReturned, Store, Stored, EnterIf, IfCore, IfTested,
     IfReturned, Loops, IfKinds
<1>5. ~ShellNext
  BY <1>1 DEF ShellNext, GetlineFails, GetlineEnd, GetlineUnclosed,
     GetlineIncomplete, GetlineMalformed, GetlineComplete, ReadingLine,
     EnterSource, SourceLine, SourceGot, MainInit, MainRegister, MainPrompt,
     MainGot, MainStatement, MainInterpreted, MainRun, MainAfter, MainShutdown,
     MainGlobals
<1>6. UNCHANGED vars => UNCHANGED stack /\ gs'.unwind = gs.unwind
  BY DEF vars
<1>7. InterpreterNext \/ ControlFlowNext \/ ShellNext \/ UNCHANGED vars
  BY DEF Next
<1> QED BY <1>2, <1>3, <1>4, <1>5, <1>6, <1>7 DEF InterpreterNext

LEMMA AwakeBodies ==
  ASSUME ShellInvariant, ShellInvariant', Origins(gs, inAuto, stack),
         Awake(gs, stack), [Next]_vars, Top.what \in Bodies \ {"source"},
         "substitution" \notin Faults
  PROVE  Awake(gs', stack')
<1>1. /\ stack \in Seq(Frames) /\ Len(stack) \in Nat \ {0} /\ Top \in Frames
      /\ Top = stack[Len(stack)] /\ gs \in CallStacks /\ Rooted(stack)
      /\ FromScript(Top) /\ Top.stmt \in Statements
      /\ Top.what \in {"call", "scope", "block"} /\ Top.what # "main"
  BY TopOfOrigins DEF Origins, FromScript, Bodies
<1>2. Starting(Top) => ~gs.unwind
  <2>1. Len(stack) \in 1 .. Len(stack)
    BY <1>1
  <2> QED BY <1>1, <2>1 DEF Awake
<1>3. {"return", "unused", "statement", "ran", "signal", "arguments"} \subseteq Places
  BY DEF Places
<1>4. ASSUME NEW pc \in {"return", "unused"}, stack' = Goto(pc)
      PROVE  Awake(gs', stack')
  <2> DEFINE f == [Top EXCEPT !.pc = pc]
  <2>1. f \in Frames /\ f.what = Top.what /\ f.pc = pc /\ stack' = SetTop(f)
    BY <1>1, <1>3, <1>4 DEF Frames, Goto
  <2> HIDE DEF f
  <2>2. ~Starting(f)
    BY <1>1, <2>1 DEF Starting
  <2> QED BY <1>1, <2>1, <2>2, AwakeSet, AwakeResting
<1>5. ASSUME ~gs'.unwind, NEW f, stack' = SetTop(f)
      PROVE  Awake(gs', stack')
  BY <1>1, <1>5, SetFrame, AwakeSet
<1>6. ASSUME NEW pc \in {"ran", "signal"}, NEW g \in CallStacks,
             NEW c \in Statements, Run(g, Calling(pc), c)
      PROVE  Awake(gs', stack')
  <2> DEFINE n == Len(gs.errors)
             f == [Top EXCEPT !.pc = pc, !.mark = n]
  <2>1. n \in Nat
    BY <1>1, CallStackErrors
  <2>2. Run(g, SetTop(f), c)
    BY <1>6 DEF Calling
  <2> HIDE DEF n
  <2>3. f \in Frames /\ f.what = Top.what /\ f.pc = pc
    BY <1>1, <1>3, <2>1 DEF Frames
  <2> HIDE DEF f
  <2>4. ~Starting(f)
    BY <1>1, <2>3 DEF Starting
  <2>5. SetTop(f) \in Seq(Frames) /\ Resting(SetTop(f))
    BY <1>1, <2>3, <2>4, AwakeSet
  <2>6. Continues(g, SetTop(f), inAuto, gs', stack', inAuto')
    BY <2>2, RunContinues
  <2> QED BY <2>5, <2>6, AwakeContinue
<1>7. BodyEnd \in {"return", "unused"}
  BY <1>1 DEF BodyEnd
<1>8. CASE EnterFunction
  <2>1. \/ stack' = Goto("return") \/ stack' = Goto("unused")
        \/ /\ stack' = Goto("statement") /\ gs' = gs /\ Top.pc = "enter"
    BY <1>8 DEF EnterFunction, AddErrorIf
  <2>2. CASE stack' = Goto("statement") /\ gs' = gs /\ Top.pc = "enter"
    <3>1. ~gs'.unwind
      BY <1>1, <1>2, <2>2 DEF Starting, Bodies
    <3> QED BY <1>5, <2>2, <3>1 DEF Goto
  <2> QED BY <1>4, <2>1, <2>2
<1>9. CASE BadArguments \/ UndefinedVariable \/ UnusedVariables
  <2>1. stack' = Goto("return")
    BY <1>9 DEF BadArguments, UndefinedVariable, UnusedVariables, Finish
  <2> QED BY <1>4, <2>1
<1>10. CASE EnterBlock
  <2>1. stack' = Goto("statement") /\ gs' = gs /\ Top.pc = "enter"
    BY <1>10 DEF EnterBlock
  <2>2. ~gs'.unwind
    BY <1>1, <1>2, <2>1 DEF Starting, Bodies
  <2> QED BY <1>5, <2>1, <2>2 DEF Goto
<1>11. CASE NextStatement
  <2>1. /\ gs' = gs /\ Top.pc = "statement"
        /\ \/ stack' = Goto(BodyEnd)
           \/ \E f : stack' = SetTop(f)
    BY <1>11 DEF NextStatement
  <2>2. ~gs'.unwind
    BY <1>1, <1>2, <2>1 DEF Starting, Bodies
  <2> QED BY <1>5, <2>1, <2>2 DEF Goto
<1>12. CASE RunStatement
  <2>1. \/ stack' = Goto(BodyEnd)
        \/ Run(gs, Calling("ran"), Top.stmt)
    BY <1>12 DEF RunStatement
  <2> QED BY <1>1, <1>4, <1>6, <1>7, <2>1
<1>13. CASE AfterStatement
  <2>1. \/ stack' = Goto(BodyEnd)
        \/ stack' = Goto("statement") /\ ~gs'.unwind
    BY <1>13 DEF AfterStatement
  <2> QED BY <1>4, <1>5, <1>7, <2>1 DEF Goto
<1>14. CASE stack' = Popped
  BY <1>1, <1>14, AwakePopped, AwakeResting
<1>15. CASE Return
  <2> DEFINE g == [gs EXCEPT !.nesting = @ - 1]
             h == [g EXCEPT !.signal = NoSignal]
  <2>1. \/ stack' = Popped
        \/ Run(h, Calling("signal"), CallOf(g.signal))
    BY <1>15 DEF Return
  <2>2. g \in CallStacks
    <3>1. gs.nesting \in Int
      BY <1>1 DEF CallStacks
    <3>2. gs.nesting - 1 \in Int
      BY <3>1
    <3> QED BY <1>1, <3>2 DEF CallStacks
  <2> HIDE DEF g
  <2>3. h \in CallStacks /\ CallOf(g.signal) \in Statements
    BY <2>2, NamesInUse, StatementsTyped DEF CallStacks
  <2> HIDE DEF h
  <2> QED BY <1>6, <1>14, <2>1, <2>3
<1>16. CASE SignalHandled
  BY <1>14, <1>16 DEF SignalHandled
<1>17. CASE UNCHANGED stack /\ gs'.unwind = gs.unwind
  BY <1>17 DEF Awake
<1>18. ~Substitute
  BY DEF Substitute
<1> QED BY <1>8, <1>9, <1>10, <1>11, <1>12, <1>13, <1>15, <1>16, <1>17, <1>18,
           BodySteps

LEMMA MainCalm ==
  ASSUME Sound, Top.what = "main"
  PROVE  /\ Len(stack) = 1
         /\ gs.unwind => Top.pc \in Pending
         /\ ~gs.unwind /\ gs.errors # << >> => Top.pc = "before"
<1>1. /\ Len(stack) = 1 /\ stack[1] = Top
      /\ AccountOnTop(gs, stack) /\ gs \in CallStacks
  BY MainAlone, TopSound
<1>2. gs.unwind => Top.pc \in Pending
  BY <1>1 DEF AccountOnTop
<1>3. ASSUME ~gs.unwind, gs.errors # << >> PROVE Top.pc = "before"
  <2>1. 1 \in 1 .. Len(gs.errors)
    <3>1. gs.errors \in Seq(Names)
      BY <1>1 DEF CallStacks
    <3> QED BY <1>3, <3>1
  <2>2. \/ Known(stack, 1, 1, gs.errors[1])
        \/ Choosing(Top)
    BY <1>1, <1>3, <2>1 DEF AccountOnTop, CalmOK
  <2>3. ~Choosing(Top)
    BY DEF Choosing, Between
  <2>4. ~(\E j \in 2 .. 1 : Answers(stack[j], 1, gs.errors[1]))
    OBVIOUS
  <2> QED BY <1>1, <2>2, <2>3, <2>4 DEF Known
<1> QED BY <1>1, <1>2, <1>3

\* What main does where it may meet exceptions and where it takes up a statement.
LEMMA MainSteps ==
  ASSUME Top.what = "main", [Next]_vars, gs \in CallStacks,
         Top.pc \in {"statement", "arguments", "before", "got"}
  PROVE  \/ Top.pc = "statement" /\ MainStatement
         \/ Top.pc = "arguments" /\ (MainInterpreted \/ Substitute)
         \/ Top.pc = "before" /\ MainRun
         \/ Top.pc = "got" /\ MainGot
         \/ UNCHANGED stack /\ gs'.unwind = gs.unwind
<1>1. InterpreterNext => Substitute \/ (UNCHANGED stack /\ gs'.unwind = gs.unwind)
  <2>1. CatchSignal => UNCHANGED stack /\ gs'.unwind = gs.unwind
    BY DEF CatchSignal, CallStacks
  <2>2. ~SecondLookup /\ ~Return /\ ~SignalHandled /\ ~EnterFunction
        /\ ~BadArguments /\ ~EnterBlock /\ ~NextStatement /\ ~Substituted
        /\ ~UndefinedVariable /\ ~RunStatement /\ ~AfterStatement
        /\ ~UnusedVariables /\ ~HandleNext /\ ~HandlerReturned /\ ~HandlersDone
        /\ ~RanHandling /\ ~RanIfExists /\ ~CaughtOne
    BY DEF SecondLookup, Return, SignalHandled, EnterFunction, BadArguments,
       EnterBlock, NextStatement, Substituted, UndefinedVariable, RunStatement,
       AfterStatement, UnusedVariables, HandleNext, HandlerReturned,
       HandlersDone, RanHandling, RanIfExists, CaughtOne, Checking, Bodies, Kinds
  <2> QED BY <2>1, <2>2 DEF InterpreterNext
<1>2. ~ControlFlowNext
  BY DEF ControlFlowNext, Throw, Exit, Replace, EnterCollect, CollectNext,
     CollectExcess, CollectEnd, CollectUndefined, CollectRun, CollectRan, Try,
     TryReturned, CatchNext, CatchReturned, CatchExcess, CatchDone, WhileTest,
     WhileTested, ForNext, ForEnd, EnterStepwise, StepwiseAborts, StepwiseNext,
     StepwiseRun, LoopReturned, Store, Stored, EnterIf, IfCore, IfTested,
     IfReturned, Loops, IfKinds
<1>3. ShellNext => \/ Top.pc = "statement" /\ MainStatement
                   \/ Top.pc = "arguments" /\ MainInterpreted
                   \/ Top.pc = "before" /\ MainRun
                   \/ Top.pc = "got" /\ MainGot
  BY DEF ShellNext, GetlineFails, GetlineEnd, GetlineUnclosed,
     GetlineIncomplete, GetlineMalformed, GetlineComplete, ReadingLine,
     EnterSource, SourceLine, SourceGot, MainInit, MainRegister, MainPrompt,
     MainGot, MainStatement, MainInterpreted, MainRun, MainAfter, MainShutdown,
     MainGlobals
<1>4. UNCHANGED vars => UNCHANGED stack /\ gs'.unwind = gs.unwind
  BY DEF vars
<1>5. InterpreterNext \/ ControlFlowNext \/ ShellNext \/ UNCHANGED vars
  BY DEF Next
<1>6. Substitute => Top.pc = "arguments"
  BY DEF Substitute
<1> QED BY <1>1, <1>2, <1>3, <1>4, <1>5, <1>6

LEMMA AwakeMain ==
  ASSUME Sound, ShellInvariant', Awake(gs, stack), [Next]_vars,
         "substitution" \notin Faults,
         Top.what = "main", Top.pc \in {"statement", "arguments"}
  PROVE  Awake(gs', stack')
<1>1. /\ gs \in CallStacks /\ Top \in Frames /\ Top.stmt \in Statements
      /\ ShellInvariant /\ Rooted(stack)
  BY TopSound DEF Sound, Origins
<1>2. CASE Top.pc = "statement" /\ MainStatement
  <2>1. ~gs.unwind /\ gs' = gs
    BY <1>2, MainCalm DEF Pending, MainStatement
  <2>2. \E f : stack' = SetTop(f)
    BY <1>2 DEF MainStatement, Goto
  <2> QED BY <1>1, <2>1, <2>2, SetFrame, AwakeSet
<1>3. CASE MainInterpreted
  <2>1. PICK c \in {CallOf(".undefined_variable"), Top.stmt} :
          RunIfExists(gs, SetTop([Top EXCEPT !.pc = "before", !.stmt = c]),
                      ".before_command")
        /\ UNCHANGED inAuto
    <3>1. PICK undefined \in {FALSE} \cup {"undefined" \in Faults} :
            RunIfExists(gs, SetTop([Top EXCEPT !.pc = "before",
                          !.stmt = IF undefined
                                   THEN CallOf(".undefined_variable")
                                   ELSE Top.stmt]),
                        ".before_command")
            /\ UNCHANGED inAuto
      BY <1>3, Zenon DEF MainInterpreted
    <3>2. CASE undefined = TRUE
      <4>1. RunIfExists(gs, SetTop([Top EXCEPT !.pc = "before",
                                     !.stmt = CallOf(".undefined_variable")]),
                        ".before_command") /\ UNCHANGED inAuto
        BY <3>1, <3>2
      <4> QED BY <4>1
    <3>3. CASE undefined = FALSE
      <4>1. RunIfExists(gs, SetTop([Top EXCEPT !.pc = "before",
                                     !.stmt = Top.stmt]),
                        ".before_command") /\ UNCHANGED inAuto
        BY <3>1, <3>3
      <4> QED BY <4>1
    <3>4. undefined = TRUE \/ undefined = FALSE
      <4>1. undefined = FALSE \/ undefined = ("undefined" \in Faults)
        BY <3>1
      <4>2. ("undefined" \in Faults) \in BOOLEAN
        OBVIOUS
      <4> QED BY <4>1, <4>2
    <3> QED BY <3>2, <3>3, <3>4
  <2> DEFINE f == [Top EXCEPT !.pc = "before", !.stmt = c]
  <2>2. ".undefined_variable" \in Names /\ ".before_command" \in Names
    BY ShellNames, NamesInUse DEF ShellExceptions
  <2>3. CallOf(".undefined_variable") \in Statements /\ CallOf(".before_command") \in Statements
    BY <2>2, StatementsTyped
  <2>4. f \in Frames /\ f.what = "main" /\ f.pc = "before"
    <3>1. c \in CommandType /\ "before" \in Places
      BY <1>1, <2>1, <2>3, StatementsTyped DEF Places
    <3> QED BY <1>1, <3>1 DEF Frames
  <2>5. RunIfExists(gs, SetTop(f), ".before_command")
    BY <2>1 DEF f
  <2> HIDE DEF f
  <2>6. ~Starting(f)
    BY <2>4 DEF Starting, Bodies
  <2>7. SetTop(f) \in Seq(Frames) /\ Resting(SetTop(f))
    BY <1>1, <2>4, <2>6, AwakeSet
  <2> DEFINE t == SetTop(f)
             e == Frame("run_if_exists", "ran", CallOf(".before_command"),
                        Len(gs.errors))
             u == Append(t, e)
  <2>8. CASE ".before_command" \in Defined
    <3>1. Call(gs, u, CallOf(".before_command"))
      BY <2>5, <2>8 DEF RunIfExists
    <3>2. e \in Frames /\ e.what = "run_if_exists"
      BY <1>1, <2>3, HelperFrame
    <3> HIDE DEF e
    <3>3. /\ t \in Seq(Frames) /\ u \in Seq(Frames) /\ Len(t) \in Nat
          /\ Len(u) = Len(t) + 1 /\ u[Len(t) + 1] = e
          /\ \A i \in 1 .. Len(t) : u[i] = t[i] /\ ~Starting(t[i])
      BY <2>7, <3>2, Pushed DEF Resting
    <3>4. ~Starting(e)
      BY <3>2 DEF Starting, Bodies
    <3> HIDE DEF t, u
    <3>5. ASSUME NEW i \in 1 .. Len(u) PROVE ~Starting(u[i])
      <4>1. i \in 1 .. Len(t) \/ i = Len(t) + 1
        BY <3>3
      <4> QED BY <3>3, <3>4, <4>1
    <3>6. Resting(u)
      BY <3>5 DEF Resting
    <3>7. Continues(gs, u, inAuto, gs', stack', inAuto')
      BY <1>1, <2>1, <2>3, <3>1, CallContinues
    <3> QED BY <1>1, <3>3, <3>6, <3>7, AwakeContinue
  <2>9. CASE ".before_command" \notin Defined
    <3>1. stack' = t
      BY <2>5, <2>9 DEF RunIfExists
    <3> QED BY <2>7, <3>1, AwakeResting
  <2> QED BY <2>8, <2>9
<1>4. CASE UNCHANGED stack /\ gs'.unwind = gs.unwind
  BY <1>4 DEF Awake
<1>5. ~Substitute
  BY DEF Substitute
<1> QED BY <1>1, <1>2, <1>3, <1>4, <1>5, MainSteps

\* The other routines take up nothing that a script or main takes up.
LEMMA AwakeLaid ==
  ASSUME Sound, Awake(gs, stack), "substitution" \notin Faults,
         NEW t, Laid(t), Top.what \notin Bodies \ {"source"},
         Top.what = "main" => Top.pc \notin {"statement", "arguments"}
  PROVE  t \in Seq(Frames) /\ Resting(t)
<1>1. Len(stack) \in Nat
  BY TopSound
<1>2. t \in Seq(Frames) /\ \A i \in 1 .. Len(t) : LayerAt(t, i) /\ Idle(t, i)
  BY DEF Laid, Layered
<1>3. ASSUME NEW i \in 1 .. Len(t), Starting(t[i]) PROVE FALSE
  <2>1. CASE i < Len(stack) /\ t[i] = stack[i]
    <3>1. Len(t) \in Nat /\ i \in 1 .. Len(stack) /\ i # Len(stack)
      BY <1>1, <1>2, <2>1
    <3> QED BY <1>3, <2>1, <3>1 DEF Awake
  <2>2. CASE i = Len(stack) /\ (Kept(t[i], Top) \/ Handed(t[i], Top))
    BY <1>3, <2>2 DEF Kept, Handed, Starting, Bodies
  <2>3. CASE i >= Len(stack) /\ Started(t[i])
    <3>1. t[i].what \in Kinds => t[i].what = Top.what
      BY <1>2, <2>3 DEF Idle
    <3> QED BY <1>3, <2>3, <3>1 DEF Started, Starting, Bodies, Kinds
  <2>4. CASE Helping(t[i], Top)
    BY <1>3, <2>4 DEF Helping, Cleaning, Starting, Bodies
  <2> QED BY <1>2, <2>1, <2>2, <2>3, <2>4 DEF LayerAt
<1> QED BY <1>2, <1>3 DEF Resting

LEMMA AwakeNext ==
  ASSUME Sound, ShellInvariant', Awake(gs, stack), [Next]_vars
  PROVE  Awake(gs', stack')
<1> SUFFICES ASSUME "substitution" \notin Faults PROVE Awake(gs', stack')
  BY DEF Awake
<1>1. /\ ShellInvariant /\ Origins(gs, inAuto, stack) /\ Rooted(stack)
      /\ Top \in Frames /\ gs \in CallStacks
  BY TopSound DEF Sound, Origins
<1>2. CASE Top.what \in Bodies \ {"source"}
  BY <1>1, <1>2, AwakeBodies
<1>3. CASE Top.what = "main" /\ Top.pc \in {"statement", "arguments"}
  BY <1>3, AwakeMain
<1>4. CASE StepwiseAborts
  <2>1. PICK c, n : stack' = << Frame("main", "aborted", c, n) >>
    BY <1>4 DEF StepwiseAborts, Abort
  <2>2. ~Starting(Frame("main", "aborted", c, n))
    BY DEF Starting, Frame, Bodies
  <2> QED BY <2>1, <2>2 DEF Awake
<1>5. CASE CollectNext
  <2>1. PICK c : stack' = SetTop([Top EXCEPT !.pc = "arguments", !.stmt = c,
                                            !.mark = Len(gs.errors)])
    BY <1>5 DEF CollectNext
  <2> DEFINE f == [Top EXCEPT !.pc = "arguments", !.stmt = c,
                              !.mark = Len(gs.errors)]
  <2>2. f.what = "collect"
    BY <1>1, <1>5 DEF CollectNext, Frames
  <2>3. stack' = SetTop(f)
    BY <2>1
  <2> HIDE DEF f
  <2>4. f \in Frames /\ ~Starting(f)
    BY <1>1, <2>2, <2>3, SetFrame DEF Starting, Bodies
  <2> QED BY <1>1, <2>3, <2>4, AwakeSet, AwakeResting
<1>6. CASE /\ Top.what \notin Bodies \ {"source"} /\ ~CollectNext
           /\ ~(Top.what = "main" /\ Top.pc \in {"statement", "arguments"})
           /\ ~StepwiseAborts
  <2>1. PICK t : /\ Laid(t)
                 /\ \/ stack' = t
                    \/ \E g \in CallStacks : \E auto, auto2 :
                         Continues(g, t, auto, gs', stack', auto2)
    BY <1>1, <1>6, Shapes DEF Shaped
  <2>2. t \in Seq(Frames) /\ Resting(t)
    BY <1>6, <2>1, AwakeLaid
  <2> QED BY <2>1, <2>2, AwakeResting, AwakeContinue
<1> QED BY <1>2, <1>3, <1>4, <1>5, <1>6

-----------------------------------------------------------------------------
\* Limited: what the routines that absorb exceptions found in the lists.

\* Main has nothing in its list but where it is about to have it handled.
LEMMA MainLoaded ==
  ASSUME Sound, Awake(gs, stack), [Next]_vars, "substitution" \notin Faults,
         Top.what = "main", gs.errors # << >>
  PROVE  \/ \E pc \in Places, base \in Nat : stack' = Append(Goto(pc), HandlerFrame(base))
         \/ UNCHANGED stack
<1>1. /\ gs \in CallStacks /\ Len(stack) = 1 /\ Top = stack[1]
      /\ Top.base \in Nat /\ gs.unwind \in BOOLEAN
  BY TopSound, MainAlone
<1>2. Top.pc = "arguments" => ~gs.unwind
  BY <1>1 DEF Awake, Starting
<1>3. Top.pc \in {"before", "got"}
  BY <1>1, <1>2, MainCalm DEF Pending
<1>4. MainRun => stack' = Append(Goto("after"), HandlerFrame(Top.base))
  BY DEF MainRun, StartHandler
<1>5. MainGot => stack' = Append(Goto("prompt"), HandlerFrame(Top.base))
  BY DEF MainGot, StartHandler
<1>6. {"after", "prompt"} \subseteq Places
  BY DEF Places
<1> QED BY <1>1, <1>3, <1>4, <1>5, <1>6, MainSteps

LEMMA LimitedNext ==
  ASSUME Never("source"), Sound, Tidy(gs, stack), Awake(gs, stack), Limited(stack),
         ShellInvariant', Len(gs.errors) < CountLimit, [Next]_vars
  PROVE  Limited(stack')
<1> SUFFICES ASSUME "substitution" \notin Faults
             PROVE  \A i \in 1 .. Len(stack') : LimitedAt(stack', i)
  BY DEF Limited
<1> DEFINE n == Len(stack)
<1>1. /\ ShellInvariant /\ Origins(gs, inAuto, stack) /\ Rooted(stack)
      /\ stack \in Seq(Frames) /\ n \in Nat \ {0} /\ Top = stack[n]
      /\ Top \in Frames /\ gs \in CallStacks /\ Len(gs.errors) \in Nat
      /\ MaxCollect \in Nat /\ gs.errors \in Seq(Names)
  BY TopSound, LimitsAssumption DEF Sound, Origins, CallStacks
<1>2. \A i \in 1 .. n : LimitedAt(stack, i)
  BY DEF Limited
<1>3. CASE StepwiseAborts
  <2>1. PICK c, m : stack' = << Frame("main", "aborted", c, m) >>
    BY <1>3 DEF StepwiseAborts, Abort
  <2>2. Len(stack') = 1 /\ stack'[1].what = "main"
    BY <2>1 DEF Frame
  <2>3. LimitedAt(stack', 1)
    BY <2>2 DEF LimitedAt, Gathering
  <2> QED BY <2>2, <2>3
<1>4. CASE CollectNext
  <2>1. gs.count <= MaxCollect /\ Top.what = "collect"
    BY <1>4 DEF CollectNext
  <2>2. gs.count = Len(gs.errors)
    BY <1>1, CountedExactly DEF Tidy, Counting, CounterOK, Faithful
  <2>3. PICK c : stack' = SetTop([Top EXCEPT !.pc = "arguments", !.stmt = c,
                                            !.mark = Len(gs.errors)])
    BY <1>4 DEF CollectNext
  <2> DEFINE f == [Top EXCEPT !.pc = "arguments", !.stmt = c,
                              !.mark = Len(gs.errors)]
  <2>4. f.what = "collect" /\ f.mark = Len(gs.errors)
    BY <1>1, <2>1 DEF Frames
  <2>5. stack' = SetTop(f)
    BY <2>3
  <2> HIDE DEF f
  <2>6. /\ Len(stack') = n /\ stack'[n] = f
        /\ \A i \in 1 .. n - 1 : stack'[i] = stack[i]
    BY <1>1, <2>5, SetFrame, Replaced DEF SetTop
  <2> HIDE DEF n
  <2>7. ASSUME NEW i \in 1 .. n PROVE LimitedAt(stack', i)
    <3>1. CASE i = n
      BY <2>1, <2>2, <2>4, <2>6, <3>1 DEF LimitedAt
    <3>2. CASE i \in 1 .. n - 1
      <4>1. \A j \in 1 .. i : stack'[j] = stack[j]
        BY <1>1, <2>6, <3>2
      <4>2. i \in 1 .. i
        BY <1>1
      <4> QED BY <1>2, <4>1, <4>2 DEF LimitedAt
    <3> QED BY <1>1, <3>1, <3>2
  <2> QED BY <2>6, <2>7
<1>5. CASE Top.what = "main" /\ gs.errors # << >>
  <2>1. n = 1
    BY <1>5, MainAlone
  <2>2. CASE UNCHANGED stack
    BY <1>2, <2>2 DEF LimitedAt
  <2>3. CASE \E pc \in Places, base \in Nat : stack' = Append(Goto(pc), HandlerFrame(base))
    <3>1. PICK pc \in Places, base \in Nat : stack' = Append(Goto(pc), HandlerFrame(base))
      BY <2>3
    <3> DEFINE f == [Top EXCEPT !.pc = pc]
               t == Goto(pc)
               h == HandlerFrame(base)
    <3>2. f \in Frames /\ f.what = "main" /\ t = SetTop(f)
      BY <1>1, <1>5 DEF Frames, Goto
    <3>3. h \in Frames /\ h.what = "handler" /\ h.pc = "next"
      BY <3>1, StartedFrame
    <3>8. stack' = Append(t, h)
      BY <3>1
    <3> HIDE DEF f, h
    <3>4. t \in Seq(Frames) /\ Len(t) = 1 /\ t[1] = f
      BY <1>1, <2>1, <3>2, Replaced DEF SetTop
    <3> HIDE DEF t
    <3>5. Len(stack') = 2 /\ stack'[1] = f /\ stack'[2] = h
      <4>1. /\ Len(Append(t, h)) = Len(t) + 1 /\ Append(t, h)[Len(t) + 1] = h
            /\ \A i \in 1 .. Len(t) : Append(t, h)[i] = t[i]
        BY <3>3, <3>4, Pushed
      <4>2. Len(t) + 1 = 2 /\ 1 \in 1 .. Len(t)
        BY <3>4
      <4> QED BY <3>4, <3>8, <4>1, <4>2
    <3>6. LimitedAt(stack', 1) /\ LimitedAt(stack', 2)
      BY <3>2, <3>3, <3>5 DEF LimitedAt, Gathering
    <3> QED BY <3>5, <3>6
  <2> QED BY <1>5, <2>2, <2>3, MainLoaded
<1>6. CASE /\ ~StepwiseAborts /\ ~CollectNext
           /\ ~(Top.what = "main" /\ gs.errors # << >>)
  <2>1. \A i \in 1 .. Len(stack') : LayerAt(stack', i)
    BY <1>1, <1>6, Layers DEF Layered
  <2>2. Len(stack') \in Nat /\ Len(stack') >= n - 1
    BY <1>1, <1>6, Layers DEF Layered
  <2>3. n = Len(stack)
    OBVIOUS
  <2> HIDE DEF n
  <2>4. ASSUME NEW j \in 1 .. n - 1, j \in 1 .. Len(stack')
        PROVE  stack'[j] = stack[j]
    <3>1. j < n /\ j # n /\ j # n + 1 /\ ~(j >= n)
      BY <1>1
    <3> QED BY <2>1, <2>3, <2>4, <3>1 DEF LayerAt
  <2>5. ASSUME NEW i \in 1 .. Len(stack') PROVE LimitedAt(stack', i)
    <3>1. CASE i < n /\ stack'[i] = stack[i]
      <4>1. i \in 1 .. n - 1 /\ i \in 1 .. n /\ i \in 1 .. i
        BY <1>1, <2>2, <3>1
      <4>2. \A j \in 1 .. i : stack'[j] = stack[j]
        BY <1>1, <2>2, <2>4, <4>1
      <4> QED BY <1>2, <4>1, <4>2 DEF LimitedAt
    <3>2. CASE i = n /\ Kept(stack'[i], Top)
      <4>1. n \in 1 .. n /\ LimitedAt(stack, n)
        BY <1>1, <1>2
      <4>2. stack'[i].what = "handler" => stack'[i].pc \in {"next", "ran"}
        BY <1>1, <3>2, <4>1 DEF Kept, LimitedAt
      <4>3. ASSUME Gathering(stack'[i]), \A j \in 1 .. i : ~Catching(stack'[j])
            PROVE  stack'[i].mark <= MaxCollect
        <5>1. Gathering(Top) /\ stack'[i].mark = Top.mark
          BY <3>2, <4>3 DEF Kept
        <5>2. ~Catching(Top)
          BY <5>1 DEF Gathering, Catching
        <5>3. ASSUME NEW j \in 1 .. n PROVE ~Catching(stack[j])
          <6>1. j = n \/ j \in 1 .. n - 1
            BY <1>1
          <6>2. j \in 1 .. Len(stack') /\ j \in 1 .. i
            BY <1>1, <2>2, <3>2
          <6> QED BY <1>1, <2>4, <4>3, <5>2, <6>1, <6>2
        <5> QED BY <1>1, <4>1, <5>1, <5>3 DEF LimitedAt
      <4> QED BY <4>2, <4>3 DEF LimitedAt
    <3>3. CASE i = n /\ Handed(stack'[i], Top)
      BY <3>3 DEF Handed, LimitedAt, Gathering
    <3>4. CASE Started(stack'[i])
      BY <3>4 DEF Started, LimitedAt, Kinds
    <3>5. CASE Helping(stack'[i], Top)
      <4>1. Top.what = "main"
        BY <1>1, <3>5, NotInScripts, TopSound DEF Helping, Kinds
      <4>2. Top.base = 0 /\ Len(gs.errors) = 0
        BY <1>6, <4>1, MainAlone
      <4> QED BY <1>1, <3>5, <4>2 DEF Helping, LimitedAt
    <3> QED BY <2>1, <2>3, <3>1, <3>2, <3>3, <3>4, <3>5 DEF LayerAt
  <2> QED BY <2>5
<1> QED BY <1>3, <1>4, <1>5, <1>6

\* The exceptions that are there while a script runs were there when some
\* routine called it.
LEMMA CollectedWithin ==
  ASSUME Never("try"), Never("source"), "substitution" \notin Faults,
         Sound, Awake(gs, stack), Limited(stack)
  PROVE  CollectedWithinLimit
<1> SUFFICES ASSUME \A i \in DOMAIN stack : ~Catching(stack[i]), Running
             PROVE  Len(gs.errors) <= MaxCollect
  BY DEF CollectedWithinLimit
<1> DEFINE n == Len(stack)
           m == Len(gs.errors)
<1>1. /\ stack \in Seq(Frames) /\ n \in Nat \ {0} /\ Top = stack[n]
      /\ Top \in Frames /\ FromScript(Top) /\ m \in Nat /\ MaxCollect \in Nat
      /\ AccountOnTop(gs, stack) /\ Rooted(stack) /\ \A i \in 1 .. n : stack[i] \in Frames
  BY TopSound, LimitsAssumption DEF Sound, Origins
<1>2. \A i \in 1 .. n : ~Catching(stack[i])
  BY <1>1
<1>3. Top.what \in Bodies \ {"source"} /\ Top.pc \in {"statement", "arguments"}
  BY <1>1, NotInScripts DEF Running, Kinds
<1>4. ~gs.unwind
  <2>1. n \in 1 .. n
    BY <1>1
  <2> QED BY <1>1, <1>3, <2>1 DEF Awake, Starting
<1>5. CASE m = 0
  BY <1>1, <1>5
<1>6. CASE m > 0
  <2>1. m \in 1 .. m
    BY <1>1, <1>6
  <2>2. ~Choosing(Top) /\ n # 1
    <3>1. Top.what \notin {"main", "handler", "collect"}
      BY <1>3 DEF Bodies
    <3> QED BY <1>1, <3>1 DEF Choosing, Between, Rooted
  <2>3. Known(stack, n, m, gs.errors[m])
    BY <1>1, <1>4, <2>1, <2>2 DEF AccountOnTop, CalmOK
  <2>4. PICK j \in 2 .. n : Answers(stack[j], m, gs.errors[m])
    BY <2>2, <2>3 DEF Known
  <2>5. /\ j \in 1 .. n /\ stack[j].mark \in Nat /\ stack[j].what # "main"
        /\ FromScript(stack[j]) /\ OriginAt(stack, j)
    <3>1. j \in 1 .. n /\ j > 1
      BY <1>1
    <3>2. stack[j].mark \in Nat /\ OriginAt(stack, j)
      BY <1>1, <3>1 DEF Rooted, Frames
    <3> QED BY <3>1, <3>2 DEF OriginAt
  <2>6. Absorbing(stack[j]) /\ m <= stack[j].mark
    BY <1>2, <2>4, <2>5 DEF Answers
  <2>7. LimitedAt(stack, j)
    BY <2>5 DEF Limited
  <2>8. stack[j].what # "try"
    BY <2>5, NotInScripts DEF Kinds
  <2>9. ~Choosing(stack[j])
    <3>1. CASE j = n
      BY <1>1, <2>2, <3>1
    <3>2. CASE j # n
      <4>1. j + 1 \in 1 .. n /\ j + 1 > 1 /\ j + 1 - 1 = j
        BY <1>1, <3>2
      <4>2. OriginAt(stack, j + 1)
        BY <1>1, <4>1 DEF Rooted
      <4> QED BY <4>1, <4>2 DEF OriginAt
    <3> QED BY <3>1, <3>2
  <2>10. stack[j].what # "handler"
    BY <1>2, <2>5, <2>7, <2>9 DEF LimitedAt, Choosing, Between, Catching
  <2>11. Gathering(stack[j])
    BY <1>2, <2>5, <2>6, <2>8, <2>10 DEF Absorbing, Gathering, HelperKinds, Catching
  <2>12. \A i \in 1 .. j : ~Catching(stack[i])
    BY <1>1, <1>2
  <2>13. stack[j].mark <= MaxCollect
    BY <2>7, <2>11, <2>12 DEF LimitedAt
  <2> QED BY <1>1, <2>5, <2>6, <2>13
<1> QED BY <1>1, <1>5, <1>6

\* The collectors hold what they are allowed to hold, and what the body of the
\* innermost one throws at once (b_collect_errors_except, builtin.cc:99-126),
\* as long as there are fewer exceptions than the counter can tell apart: in
\* every shell without .try_catch and .source whose arguments run no
\* substitutions.  A substitution runs while exceptions are on their way out.
THEOREM CollectedWithinLimitHolds ==
  ASSUME Never("try"), Never("source"), "substitution" \notin Faults
  PROVE  Spec /\ [](Len(gs.errors) < CountLimit) => []CollectedWithinLimit
<1>1. Spec => [](Sound /\ Tidy(gs, stack))
  BY TidyHolds
<1>2. Spec => []ShellInvariant
  BY ShellInvariantHolds
<1>3. Init => Awake(gs, stack) /\ Limited(stack)
  <2> SUFFICES ASSUME Init PROVE Awake(gs, stack) /\ Limited(stack)
    OBVIOUS
  <2>1. Len(stack) = 1 /\ stack[1].what = "main" /\ stack[1].pc = "init"
    BY DEF Init, Frame
  <2> QED BY <2>1 DEF Awake, Starting, Bodies, Limited, LimitedAt, Gathering
<1>4. /\ Sound /\ Tidy(gs, stack) /\ ShellInvariant' /\ Len(gs.errors) < CountLimit
      /\ Awake(gs, stack) /\ Limited(stack) /\ [Next]_vars
      => (Awake(gs, stack) /\ Limited(stack))'
  BY AwakeNext, LimitedNext
<1>5. Sound /\ Awake(gs, stack) /\ Limited(stack) => CollectedWithinLimit
  BY CollectedWithin
<1> QED BY <1>1, <1>2, <1>3, <1>4, <1>5, PTL DEF Spec

-----------------------------------------------------------------------------
\* What is thrown: a step adds only what the shell or its scripts throw, apart
\* from the two reports, and never doubles what is there.

Spares(e, f) ==
  /\ \A p \in 1 .. Len(f) : f[p] \in Ordinary \/ Among(e, f[p])
  /\ \A x : x \notin Ordinary /\ Once(e, x) => Once(f, x)
Sparing(g, h) ==
  /\ h \in CallStacks /\ Spares(g.errors, h.errors)
  /\ h.collectExcess = g.collectExcess /\ h.catchExcess = g.catchExcess

LEMMA OrdinaryNames ==
  /\ {".bad_args", ".bad_if_nest", ".else_without_if", ".excessive_nesting",
      ".failed_substitution", ".false", ".file_open_failure",
      ".function_not_found", ".if_before_else", ".mismatched_brace",
      ".not_a_number", ".not_catching_exception", ".unclosed_brace",
      ".undeclared_variable", ".undefined_variable", ".unfinished_if_block",
      ".unused_before_set", ".unused_variable"}
       \subseteq Ordinary
  /\ \A c \in Statements : c.what \in {"throw", "replace"} => c.name \in Ordinary
  /\ Ordinary \subseteq Names
<1>1. /\ {".bad_args", ".bad_if_nest", ".else_without_if", ".excessive_nesting",
          ".failed_substitution", ".false", ".file_open_failure",
          ".function_not_found", ".if_before_else", ".mismatched_brace",
          ".not_a_number", ".not_catching_exception", ".unclosed_brace",
          ".undeclared_variable", ".undefined_variable", ".unfinished_if_block",
          ".unused_before_set", ".unused_variable"}
           \subseteq ShellExceptions \ Excesses
  BY DEF ShellExceptions, Excesses, Excess
<1>2. ASSUME NEW c \in Statements, c.what \in {"throw", "replace"}
      PROVE  c.name \in Ordinary
  <2>1. \/ c \in Commands \cup Conditions
        \/ c = ThrowOf(".false")
    BY <1>2 DEF Statements, CallOf, Command, Argfunction, BlockOf
  <2>2. CASE c \in Commands \cup Conditions
    BY <1>2, <2>2 DEF Ordinary
  <2>3. CASE c = ThrowOf(".false")
    <3>1. c.name = ".false"
      BY <2>3 DEF ThrowOf, Command
    <3> QED BY <1>1, <3>1 DEF Ordinary
  <2> QED BY <2>1, <2>2, <2>3
<1>3. \A c \in Commands \cup Conditions : c.name \in Names
  BY StatementsTyped DEF CommandType
<1>4. Ordinary \subseteq Names
  BY <1>3, ShellNames DEF Ordinary
<1> QED BY <1>1, <1>2, <1>4 DEF Ordinary

LEMMA SparesSelf ==
  ASSUME NEW e \in Seq(Names)
  PROVE  Spares(e, e)
BY DEF Spares, Among

LEMMA SparesOn ==
  ASSUME NEW e, NEW f, NEW h, Spares(e, f), Spares(f, h)
  PROVE  Spares(e, h)
<1>1. ASSUME NEW p \in 1 .. Len(h) PROVE h[p] \in Ordinary \/ Among(e, h[p])
  <2>1. h[p] \in Ordinary \/ \E q \in 1 .. Len(f) : f[q] = h[p]
    BY DEF Spares, Among
  <2> QED BY <2>1 DEF Spares
<1>2. ASSUME NEW x, x \notin Ordinary, Once(e, x) PROVE Once(h, x)
  BY <1>2 DEF Spares
<1> QED BY <1>1, <1>2 DEF Spares

LEMMA SparesAppend ==
  ASSUME NEW e \in Seq(Names), NEW name \in Ordinary
  PROVE  Spares(e, Append(e, name))
<1> DEFINE f == Append(e, name)
           n == Len(e)
<1>1. /\ n \in Nat /\ Len(f) = n + 1 /\ f[n + 1] = name
      /\ \A p \in 1 .. n : f[p] = e[p]
  OBVIOUS
<1> HIDE DEF f
<1>2. \A p \in 1 .. n + 1 : p \in 1 .. n \/ p = n + 1
  BY <1>1
<1>3. ASSUME NEW p \in 1 .. Len(f) PROVE f[p] \in Ordinary \/ Among(e, f[p])
  BY <1>1, <1>2 DEF Among
<1>4. ASSUME NEW x, x \notin Ordinary, Once(e, x) PROVE Once(f, x)
  <2> SUFFICES ASSUME NEW p \in 1 .. n + 1, NEW q \in 1 .. n + 1, f[p] = x, f[q] = x
               PROVE  p = q
    BY <1>1 DEF Once
  <2>1. p \in 1 .. n /\ q \in 1 .. n
    BY <1>1, <1>2, <1>4
  <2> QED BY <1>1, <1>4, <2>1 DEF Once
<1>5. Spares(e, f)
  BY <1>3, <1>4 DEF Spares
<1> QED BY <1>5 DEF f


LEMMA SparesFront ==
  ASSUME NEW e \in Seq(Names), NEW n \in 0 .. Len(e)
  PROVE  Spares(e, SubSeq(e, 1, n))
<1> DEFINE f == SubSeq(e, 1, n)
<1>1. Len(f) = n /\ \A p \in 1 .. n : f[p] = e[p] /\ p \in 1 .. Len(e)
  OBVIOUS
<1> HIDE DEF f
<1>2. \A p \in 1 .. Len(f) : Among(e, f[p])
  BY <1>1 DEF Among
<1>3. ASSUME NEW x, Once(e, x) PROVE Once(f, x)
  BY <1>1, <1>3 DEF Once
<1>4. Spares(e, f)
  BY <1>2, <1>3 DEF Spares
<1> QED BY <1>4 DEF f

LEMMA SparesWithout ==
  ASSUME NEW e \in Seq(Names), NEW i \in Nat, e # << >>
  PROVE  Spares(e, Without(e, i))
<1> DEFINE f == Without(e, i)
           n == Len(e)
           from(p) == IF p < i THEN p ELSE p + 1
<1>1. n \in Nat \ {0}
  OBVIOUS
<1>2. Len(f) = n - 1 /\ \A p \in 1 .. n - 1 : f[p] = e[from(p)]
  BY <1>1 DEF Without
<1>3. \A p \in 1 .. n - 1 : from(p) \in 1 .. n
  BY <1>1
<1>4. \A p, q \in 1 .. n - 1 : from(p) = from(q) => p = q
  BY <1>1
<1> HIDE DEF f, from, n
<1>5. \A p \in 1 .. Len(f) : Among(e, f[p])
  BY <1>2, <1>3 DEF Among, n
<1>6. ASSUME NEW x, Once(e, x) PROVE Once(f, x)
  <2> SUFFICES ASSUME NEW p \in 1 .. n - 1, NEW q \in 1 .. n - 1, f[p] = x, f[q] = x
               PROVE  p = q
    BY <1>2 DEF Once
  <2>1. e[from(p)] = x /\ e[from(q)] = x /\ from(p) \in 1 .. n /\ from(q) \in 1 .. n
    BY <1>2, <1>3
  <2>2. from(p) = from(q)
    BY <1>6, <2>1 DEF Once, n
  <2> QED BY <1>4, <2>2
<1>7. Spares(e, f)
  BY <1>5, <1>6 DEF Spares
<1> QED BY <1>7 DEF f

LEMMA SparesMoved ==
  ASSUME NEW e \in Seq(Names), NEW base \in Nat
  PROVE  Spares(e, LastToSecond(e, base))
<1> DEFINE f == LastToSecond(e, base)
           n == Len(e)
           from(p) == IF p <= base + 1 THEN p ELSE IF p = base + 2 THEN n ELSE p - 1
<1>1. n \in Nat
  OBVIOUS
<1>2. Len(f) = n /\ \A p \in 1 .. n : f[p] = e[from(p)]
  BY <1>1 DEF LastToSecond
<1>3. \A p \in 1 .. n : from(p) \in 1 .. n
  BY <1>1
<1>4. \A p, q \in 1 .. n : from(p) = from(q) => p = q
  BY <1>1
<1> HIDE DEF f, from, n
<1>5. \A p \in 1 .. Len(f) : Among(e, f[p])
  BY <1>2, <1>3 DEF Among, n
<1>6. ASSUME NEW x, Once(e, x) PROVE Once(f, x)
  <2> SUFFICES ASSUME NEW p \in 1 .. n, NEW q \in 1 .. n, f[p] = x, f[q] = x
               PROVE  p = q
    BY <1>2 DEF Once
  <2>1. e[from(p)] = x /\ e[from(q)] = x /\ from(p) \in 1 .. n /\ from(q) \in 1 .. n
    BY <1>2, <1>3
  <2>2. from(p) = from(q)
    BY <1>6, <2>1 DEF Once, n
  <2> QED BY <1>4, <2>2
<1>7. Spares(e, f)
  BY <1>5, <1>6 DEF Spares
<1> QED BY <1>7 DEF f

LEMMA SparesRemoved ==
  ASSUME NEW g \in CallStacks, NEW base \in 0 .. Len(g.errors), NEW name
  PROVE  Sparing(g, RemoveExceptions(g, base, name))
<1> DEFINE e == g.errors
           n == Len(e)
           list == SubSeq(e, base + 1, n)
           kept == Remaining(list, name)
           low == SubSeq(e, 1, base)
           f == low \o kept
           h == RemoveExceptions(g, base, name)
<1>1. e \in Seq(Names) /\ n \in Nat /\ base \in Nat /\ base <= n
  BY CallStackErrors
<1>2. /\ list \in Seq(Names) /\ Len(list) = n - base
      /\ \A p \in 1 .. n - base : list[p] = e[base + p]
  BY <1>1
<1>3. low \in Seq(Names) /\ Len(low) = base /\ \A p \in 1 .. base : low[p] = e[p]
  BY <1>1
<1> HIDE DEF list
<1>4a. kept \in Seq(Names)
  BY <1>2, RemainingType
<1>4b. \A x : Once(list, x) => Once(kept, x)
  BY <1>2, RemainingIn
<1>4c. \A i \in 1 .. Len(kept) : \E j \in 1 .. Len(list) : kept[i] = list[j]
  BY <1>2, RemainingMembers
<1>4. /\ kept \in Seq(Names) /\ Len(kept) \in Nat
      /\ \A x : Once(list, x) => Once(kept, x)
      /\ \A i \in 1 .. Len(kept) : \E j \in 1 .. Len(list) : kept[i] = list[j]
  BY <1>4a, <1>4b, <1>4c
<1>5. h \in CallStacks /\ h.errors = f
      /\ h.collectExcess = g.collectExcess /\ h.catchExcess = g.catchExcess
  BY RemoveExceptionsType DEF RemoveExceptions, CallStacks, list
<1> HIDE DEF low, kept, e, n, h
<1>6a. /\ low \in Seq(Names) /\ kept \in Seq(Names) /\ Len(low) = base
  BY <1>3, <1>4
<1>6. /\ Len(f) = base + Len(kept)
      /\ \A p \in 1 .. base : f[p] = low[p]
      /\ \A p \in 1 .. Len(kept) : f[base + p] = kept[p]
  BY <1>1, <1>6a
<1> HIDE DEF f
<1>7. ASSUME NEW p \in 1 .. Len(f)
      PROVE  p \in 1 .. base \/ (p - base \in 1 .. Len(kept) /\ base + (p - base) = p)
  BY <1>1, <1>4, <1>6
<1>8. ASSUME NEW i \in 1 .. Len(kept)
      PROVE  \E j \in base + 1 .. n : kept[i] = e[j]
  <2>1. PICK j \in 1 .. Len(list) : kept[i] = list[j]
    BY <1>4
  <2>2. base + j \in base + 1 .. n /\ list[j] = e[base + j]
    BY <1>1, <1>2
  <2> QED BY <2>1, <2>2
<1>9. ASSUME NEW p \in 1 .. Len(f) PROVE Among(e, f[p])
  <2>1. CASE p \in 1 .. base
    <3>1. p \in 1 .. n /\ f[p] = e[p]
      BY <1>1, <1>3, <1>6, <2>1
    <3> QED BY <3>1 DEF Among, n
  <2>2. CASE p - base \in 1 .. Len(kept) /\ base + (p - base) = p
    <3>1. f[p] = kept[p - base]
      BY <1>6, <2>2
    <3>2. PICK j \in base + 1 .. n : kept[p - base] = e[j]
      BY <1>8, <2>2
    <3>3. j \in 1 .. n
      BY <1>1
    <3> QED BY <3>1, <3>2, <3>3 DEF Among, n
  <2> QED BY <1>7, <2>1, <2>2
<1>10. ASSUME NEW x, Once(e, x) PROVE Once(f, x)
  <2>1. Once(list, x)
    <3> SUFFICES ASSUME NEW p \in 1 .. n - base, NEW q \in 1 .. n - base,
                        list[p] = x, list[q] = x
                 PROVE  p = q
      BY <1>2 DEF Once
    <3>1. base + p \in 1 .. n /\ base + q \in 1 .. n
      BY <1>1
    <3>2. base + p = base + q
      BY <1>2, <1>10, <3>1 DEF Once, n
    <3> QED BY <1>1, <3>2
  <2>2. Once(kept, x)
    BY <1>4, <2>1
  <2>3. ASSUME NEW p \in 1 .. base, NEW q \in 1 .. Len(f), f[p] = x, f[q] = x,
               q \notin 1 .. base
        PROVE  FALSE
    <3>1. q - base \in 1 .. Len(kept) /\ base + (q - base) = q
      BY <1>7, <2>3
    <3>2. PICK j \in base + 1 .. n : kept[q - base] = e[j]
      BY <1>8, <3>1
    <3>3. e[j] = x /\ e[p] = x
      BY <1>3, <1>6, <2>3, <3>1, <3>2
    <3>4. j \in 1 .. n /\ p \in 1 .. n /\ j # p
      BY <1>1, <2>3
    <3> QED BY <1>10, <3>3, <3>4 DEF Once, n
  <2>4. ASSUME NEW p \in 1 .. Len(f), NEW q \in 1 .. Len(f), f[p] = x, f[q] = x
        PROVE  p = q
    <3>1. CASE p \in 1 .. base /\ q \in 1 .. base
      <4>1. e[p] = x /\ e[q] = x /\ p \in 1 .. n /\ q \in 1 .. n
        BY <1>1, <1>3, <1>6, <2>4, <3>1
      <4> QED BY <1>10, <4>1 DEF Once, n
    <3>2. CASE p \notin 1 .. base /\ q \notin 1 .. base
      <4>1. /\ p - base \in 1 .. Len(kept) /\ base + (p - base) = p
            /\ q - base \in 1 .. Len(kept) /\ base + (q - base) = q
        BY <1>7, <3>2
      <4>2. kept[p - base] = x /\ kept[q - base] = x
        BY <1>6, <2>4, <4>1
      <4>3. p - base = q - base
        BY <2>2, <4>1, <4>2 DEF Once
      <4> QED BY <1>1, <4>3
    <3> QED BY <2>3, <2>4, <3>1, <3>2
  <2> QED BY <2>4 DEF Once
<1>11. Spares(e, f)
  BY <1>9, <1>10 DEF Spares
<1> QED BY <1>5, <1>11 DEF Sparing, e, h

\* The operators on global_stack.
LEMMA SparingSelf ==
  ASSUME NEW g \in CallStacks
  PROVE  Sparing(g, g)
BY SparesSelf, CallStackErrors DEF Sparing

LEMMA SparingOn ==
  ASSUME NEW f, NEW g, NEW h, Sparing(f, g), Sparing(g, h)
  PROVE  Sparing(f, h)
BY SparesOn DEF Sparing

LEMMA SparingSame ==
  ASSUME NEW g \in CallStacks, NEW h \in CallStacks, h.errors = g.errors,
         h.collectExcess = g.collectExcess, h.catchExcess = g.catchExcess
  PROVE  Sparing(g, h)
BY SparesSelf, CallStackErrors DEF Sparing

LEMMA SparingAdd ==
  ASSUME NEW g \in CallStacks, NEW name \in Ordinary
  PROVE  Sparing(g, AddError(g, name)) /\ AddError(g, name) \in CallStacks
<1>1. name \in Names /\ g.errors \in Seq(Names)
  BY OrdinaryNames, CallStackErrors
<1>2. AddError(g, name) \in CallStacks
  BY <1>1, AddErrorType
<1>3. /\ AddError(g, name).errors = Append(g.errors, name)
      /\ AddError(g, name).collectExcess = g.collectExcess
      /\ AddError(g, name).catchExcess = g.catchExcess
  BY DEF AddError, CallStacks
<1> QED BY <1>1, <1>2, <1>3, SparesAppend DEF Sparing

LEMMA SparingAddIf ==
  ASSUME NEW g \in CallStacks, NEW name \in Ordinary, NEW b
  PROVE  Sparing(g, AddErrorIf(b, g, name)) /\ AddErrorIf(b, g, name) \in CallStacks
BY SparingAdd, SparingSelf DEF AddErrorIf

LEMMA SparingReplaced ==
  ASSUME NEW g \in CallStacks, NEW name \in Ordinary
  PROVE  Sparing(g, ReplaceError(g, name))
<1>1. name \in Names /\ g.errors \in Seq(Names)
  BY OrdinaryNames, CallStackErrors
<1>2. ReplaceError(g, name) \in CallStacks
  BY <1>1, ReplaceErrorType
<1>3. /\ ReplaceError(g, name).errors = Append(g.errors, name)
      /\ ReplaceError(g, name).collectExcess = g.collectExcess
      /\ ReplaceError(g, name).catchExcess = g.catchExcess
  BY DEF ReplaceError, CallStacks
<1> QED BY <1>1, <1>2, <1>3, SparesAppend DEF Sparing

LEMMA SparingDestroyed ==
  ASSUME NEW g \in CallStacks, NEW base \in 0 .. Len(g.errors)
  PROVE  Sparing(g, DestroyList(g, base)) /\ DestroyList(g, base) \in CallStacks
<1>1. g.errors \in Seq(Names)
  BY CallStackErrors
<1>2. DestroyList(g, base) \in CallStacks
  BY DestroyListType
<1>3. /\ DestroyList(g, base).errors = SubSeq(g.errors, 1, base)
      /\ DestroyList(g, base).collectExcess = g.collectExcess
      /\ DestroyList(g, base).catchExcess = g.catchExcess
  BY DEF DestroyList, CallStacks
<1> QED BY <1>1, <1>2, <1>3, SparesFront DEF Sparing

LEMMA SparingReset ==
  ASSUME NEW g \in CallStacks, NEW base \in 0 .. Len(g.errors)
  PROVE  Sparing(g, Reset(g, base)) /\ Reset(g, base) \in CallStacks
<1>1. Sparing(g, DestroyList(g, base)) /\ DestroyList(g, base) \in CallStacks
  BY SparingDestroyed
<1>2. Reset(g, base) \in CallStacks
  BY ResetType
<1>3. /\ Reset(g, base).errors = DestroyList(g, base).errors
      /\ Reset(g, base).collectExcess = DestroyList(g, base).collectExcess
      /\ Reset(g, base).catchExcess = DestroyList(g, base).catchExcess
  BY <1>1 DEF Reset, CallStacks
<1> QED BY <1>1, <1>2, <1>3, SparingSame, SparingOn

LEMMA SparingErased ==
  ASSUME NEW g \in CallStacks, NEW i \in Nat, g.errors # << >>
  PROVE  Sparing(g, RemoveError(g, i))
<1>1. g.errors \in Seq(Names)
  BY CallStackErrors
<1>2. RemoveError(g, i) \in CallStacks
  BY RemoveErrorType
<1>3. /\ RemoveError(g, i).errors = Without(g.errors, i)
      /\ RemoveError(g, i).collectExcess = g.collectExcess
      /\ RemoveError(g, i).catchExcess = g.catchExcess
  BY DEF RemoveError, CallStacks
<1> QED BY <1>1, <1>2, <1>3, SparesWithout DEF Sparing

LEMMA SparingCall ==
  ASSUME NEW g \in CallStacks, NEW s, NEW c, Call(g, s, c)
  PROVE  Sparing(g, gs')
<1> DEFINE e == AddErrorIf(g.nesting > MaxNesting + 1, g, ".excessive_nesting")
<1>1. Sparing(g, e) /\ e \in CallStacks
  BY OrdinaryNames, SparingAddIf
<1>2. gs' = e \/ gs' = [e EXCEPT !.nesting = @ + 1]
  BY DEF Call
<1> HIDE DEF e
<1>3. CASE gs' = [e EXCEPT !.nesting = @ + 1]
  <2>1. e.nesting + 1 \in Int
    BY <1>1 DEF CallStacks
  <2>2. /\ gs' \in CallStacks /\ gs'.errors = e.errors
        /\ gs'.collectExcess = e.collectExcess /\ gs'.catchExcess = e.catchExcess
    BY <1>1, <1>3, <2>1 DEF CallStacks
  <2> QED BY <1>1, <2>2, SparingSame, SparingOn
<1> QED BY <1>1, <1>2, <1>3

LEMMA SparingRun ==
  ASSUME NEW g \in CallStacks, NEW s, NEW c, Run(g, s, c)
  PROVE  Sparing(g, gs')
<1> DEFINE h == AddError(g, ".function_not_found")
<1>1. Sparing(g, h) /\ h \in CallStacks /\ ".function_not_found" \in Ordinary
  BY OrdinaryNames, SparingAdd
<1>2. Sparing(h, AddError(h, ".function_not_found"))
  BY <1>1, SparingAdd
<1>3. \/ \E t, d : Call(g, t, d)
      \/ gs' = h
      \/ gs' = AddError(h, ".function_not_found")
  BY DEF Run
<1> HIDE DEF h
<1> QED BY <1>1, <1>2, <1>3, SparingCall, SparingOn

LEMMA SparingExit ==
  ASSUME NEW g \in CallStacks
  PROVE  Sparing(g, RequestExit(g))
<1>1. RequestExit(g) \in CallStacks /\ RequestExit(g).errors = g.errors
  BY RequestExitType
<1>2. /\ RequestExit(g).collectExcess = g.collectExcess
      /\ RequestExit(g).catchExcess = g.catchExcess
  BY DEF RequestExit, CallStacks
<1> QED BY <1>1, <1>2, SparingSame

LEMMA SparingStart ==
  ASSUME NEW g \in CallStacks, NEW s, NEW base, StartHandler(g, s, base)
  PROVE  Sparing(g, gs')
<1>1. gs' \in CallStacks /\ gs'.errors = g.errors
      /\ gs'.collectExcess = g.collectExcess /\ gs'.catchExcess = g.catchExcess
  BY DEF StartHandler, CallStacks
<1> QED BY <1>1, SparingSame

LEMMA SparingHandling ==
  ASSUME NEW g \in CallStacks, NEW s, NEW what, NEW base, NEW c,
         RunHandling(g, s, what, base, c)
  PROVE  Sparing(g, gs')
BY SparingRun DEF RunHandling

LEMMA SparingIfExists ==
  ASSUME NEW g \in CallStacks, NEW s, NEW name, RunIfExists(g, s, name)
  PROVE  Sparing(g, gs')
BY SparingCall, SparingSelf DEF RunIfExists

LEMMA SparingCatchOne ==
  ASSUME NEW g \in CallStacks, NEW s, NEW c, CatchOne(g, s, c)
  PROVE  Sparing(g, gs')
<1> DEFINE h == [g EXCEPT !.inHandler = TRUE, !.unwind = FALSE]
<1>1. h \in CallStacks /\ h.errors = g.errors
      /\ h.collectExcess = g.collectExcess /\ h.catchExcess = g.catchExcess
  BY DEF CallStacks
<1>2. \E t : Run(h, t, c)
  BY DEF CatchOne
<1> HIDE DEF h
<1> QED BY <1>1, <1>2, SparingRun, SparingSame, SparingOn

\* The steps, but for those that report or forget that a limit was exceeded.
Reporting == CollectExcess \/ CatchExcess \/ HandlersDone \/ StepwiseAborts

LEMMA SparingFrom ==
  ASSUME ShellInvariant, Origins(gs, inAuto, stack), [Next]_vars
  PROVE  /\ gs \in CallStacks /\ gs' \in CallStacks /\ FromScript(Top)
         /\ Top.base \in 0 .. Len(gs.errors) /\ Len(gs.errors) \in Nat
         /\ Top.focus \in Nat /\ Top.mark \in Nat
         /\ Top.what = "collect" /\ Top.pc = "arguments" => Top.mark \in 0 .. Len(gs.errors)
         /\ Holding(Top) /\ Top.what # "collect" => gs.errors # << >>
<1>1. gs' \in CallStacks
  BY NextOK DEF ShellInvariant, StackOK
<1>2. /\ gs \in CallStacks /\ Len(gs.errors) \in Nat /\ Top \in Frames
      /\ Top.base \in 0 .. Len(gs.errors) /\ FrameOK(Top, Len(gs.errors))
      /\ Top.mark \in Nat /\ Top.focus \in Nat /\ Top.base < Top.focus
      /\ Low(Top) <= Len(gs.errors)
  BY TopOK DEF ShellInvariant
<1>3. FromScript(Top)
  BY TopOfOrigins DEF Origins
<1>4. Top.what = "collect" /\ Top.pc = "arguments" => Top.mark \in 0 .. Len(gs.errors)
  BY <1>2 DEF Low, Holding
<1>5. ASSUME Holding(Top), Top.what # "collect" PROVE gs.errors # << >>
  <2>1. Len(gs.errors) > 0
    BY <1>2, <1>5 DEF Low, Holding, FrameOK
  <2> QED BY <1>2, <2>1
<1> QED BY <1>1, <1>2, <1>3, <1>4, <1>5

\* Steps that leave the lists alone.
LEMMA SparingSilent ==
  ASSUME gs \in CallStacks, gs' \in CallStacks,
         \/ SignalHandled \/ CatchSignal \/ EnterBlock \/ NextStatement
         \/ AfterStatement \/ CaughtOne
         \/ EnterCollect \/ CollectNext \/ CollectEnd \/ CollectRan
         \/ TryReturned \/ CatchDone \/ ForEnd \/ StepwiseNext
         \/ GetlineFails \/ SourceLine \/ SourceGot \/ MainRegister
         \/ MainStatement \/ UNCHANGED vars
  PROVE  Sparing(gs, gs')
<1>1. /\ gs'.errors = gs.errors
      /\ gs'.collectExcess = gs.collectExcess /\ gs'.catchExcess = gs.catchExcess
  <2>1. CASE \/ SignalHandled \/ EnterBlock \/ NextStatement \/ AfterStatement
             \/ EnterCollect \/ CollectNext \/ TryReturned \/ ForEnd \/ StepwiseNext
             \/ GetlineFails \/ SourceLine \/ SourceGot \/ MainRegister
             \/ MainStatement \/ UNCHANGED vars
    BY <2>1 DEF SignalHandled, EnterBlock, NextStatement, AfterStatement,
       EnterCollect, CollectNext, TryReturned, ForEnd, StepwiseNext,
       Finish, GetlineFails, SourceLine, SourceGot, MainRegister, MainStatement,
       vars
  <2>2. CASE CatchSignal \/ CaughtOne \/ CollectEnd \/ CollectRan \/ CatchDone
    BY <2>2 DEF CatchSignal, CaughtOne, CollectEnd, CollectRan, CatchDone, Finish,
       CallStacks
  <2> QED BY <2>1, <2>2
<1> QED BY <1>1, SparingSame

LEMMA SparingExecutables ==
  ASSUME ShellInvariant, Origins(gs, inAuto, stack), [Next]_vars,
         \/ SecondLookup \/ Return \/ EnterFunction \/ BadArguments
         \/ Substitute \/ Substituted \/ UndefinedVariable \/ RunStatement
         \/ UnusedVariables
  PROVE  Sparing(gs, gs')
<1>1. gs \in CallStacks /\ gs' \in CallStacks
  BY SparingFrom
<1>n. /\ ".function_not_found" \in Ordinary /\ ".bad_args" \in Ordinary
      /\ ".failed_substitution" \in Ordinary /\ ".unused_variable" \in Ordinary
      /\ ".undefined_variable" \in Ordinary
  BY OrdinaryNames
<1>2. CASE SecondLookup
  <2>1. Call(gs, Popped, Top.cmd) \/ gs' = AddError(gs, ".function_not_found")
    BY <1>2 DEF SecondLookup
  <2> QED BY <1>1, <1>n, <2>1, SparingCall, SparingAdd
<1>3. CASE Return
  <2> DEFINE g == [gs EXCEPT !.nesting = @ - 1]
             h == [g EXCEPT !.signal = NoSignal]
  <2>1. gs' = g \/ Run(h, Calling("signal"), CallOf(g.signal))
    BY <1>3 DEF Return
  <2>2. g \in CallStacks /\ h \in CallStacks
    <3>1. gs.nesting - 1 \in Int
      BY <1>1 DEF CallStacks
    <3>2. g \in CallStacks
      BY <1>1, <3>1 DEF CallStacks
    <3> HIDE DEF g
    <3>3. h \in CallStacks
      BY <3>2, NamesInUse DEF CallStacks
    <3> QED BY <3>2, <3>3
  <2>3. /\ g.errors = gs.errors /\ h.errors = gs.errors
        /\ g.collectExcess = gs.collectExcess /\ g.catchExcess = gs.catchExcess
        /\ h.collectExcess = gs.collectExcess /\ h.catchExcess = gs.catchExcess
    BY <1>1 DEF CallStacks
  <2> HIDE DEF g, h
  <2>4. Sparing(gs, g) /\ Sparing(gs, h)
    BY <1>1, <2>2, <2>3, SparingSame
  <2> QED BY <2>1, <2>2, <2>4, SparingRun, SparingOn
<1>4. CASE EnterFunction
  <2>1. gs' = gs \/ \E bad : gs' = AddErrorIf(bad, gs, ".bad_args")
    BY <1>4 DEF EnterFunction
  <2> QED BY <1>1, <1>n, <2>1, SparingAddIf, SparingSelf
<1>5. CASE BadArguments
  BY <1>1, <1>n, <1>5, SparingAdd DEF BadArguments
<1>6. CASE Substitute
  <2> DEFINE g == [gs EXCEPT !.unwind = FALSE]
  <2>1. \E t : Call(g, t, Argfunction)
    BY <1>6 DEF Substitute
  <2>2. /\ g \in CallStacks /\ g.errors = gs.errors
        /\ g.collectExcess = gs.collectExcess /\ g.catchExcess = gs.catchExcess
    BY <1>1 DEF CallStacks
  <2> HIDE DEF g
  <2> QED BY <1>1, <2>1, <2>2, SparingSame, SparingCall, SparingOn
<1>7. CASE Substituted
  <2> DEFINE g == AddErrorIf(gs.unwind, gs, ".failed_substitution")
  <2>1. Sparing(gs, g) /\ g \in CallStacks
    BY <1>1, <1>n, SparingAddIf
  <2>2. gs' = [g EXCEPT !.unwind = Top.flag \/ @]
    BY <1>7 DEF Substituted
  <2> HIDE DEF g
  <2>3. /\ gs'.errors = g.errors
        /\ gs'.collectExcess = g.collectExcess /\ gs'.catchExcess = g.catchExcess
    BY <2>1, <2>2 DEF CallStacks
  <2> QED BY <1>1, <2>1, <2>3, SparingSame, SparingOn
<1>8. CASE UndefinedVariable
  <2>1. PICK unused \in May("unused") :
          LET g == AddErrorIf(unused /\ Top.what \in Checking, gs,
                              ".unused_variable")
          IN  gs' = AddError(g, ".undefined_variable")
    BY <1>8 DEF UndefinedVariable
  <2> DEFINE g == AddErrorIf(unused /\ Top.what \in Checking, gs,
                             ".unused_variable")
  <2>2. Sparing(gs, g) /\ g \in CallStacks
    BY <1>1, <1>n, SparingAddIf
  <2>3. gs' = AddError(g, ".undefined_variable")
    BY <2>1
  <2> HIDE DEF g
  <2> QED BY <1>n, <2>2, <2>3, SparingAdd, SparingOn
<1>9. CASE RunStatement
  <2>1. gs' = gs \/ \E s : Run(gs, s, Top.stmt)
    BY <1>9 DEF RunStatement
  <2> QED BY <1>1, <2>1, SparingRun, SparingSelf
<1>10. CASE UnusedVariables
  <2>1. \E unused : gs' = AddErrorIf(unused, gs, ".unused_variable")
    BY <1>10 DEF UnusedVariables, Finish
  <2> QED BY <1>1, <1>n, <2>1, SparingAddIf
<1> QED BY <1>2, <1>3, <1>4, <1>5, <1>6, <1>7, <1>8, <1>9, <1>10

LEMMA SparingHandlers ==
  ASSUME ShellInvariant, Origins(gs, inAuto, stack), [Next]_vars,
         HandleNext \/ HandlerReturned \/ RanHandling \/ RanIfExists
  PROVE  Sparing(gs, gs')
<1>1. /\ gs \in CallStacks /\ gs' \in CallStacks /\ gs.errors \in Seq(Names)
      /\ Top.base \in 0 .. Len(gs.errors) /\ Len(gs.errors) \in Nat
      /\ Top.base \in Nat
  BY SparingFrom, CallStackErrors
<1>n. ".unfinished_if_block" \in Ordinary
  BY OrdinaryNames
<1>2. CASE HandleNext
  <2>1. \/ gs' = gs
        \/ gs' = RemoveError(gs, Top.base + 1)
        \/ \E s, c : Run(gs, s, c)
    BY <1>2 DEF HandleNext
  <2>2. gs.errors # << >> /\ Top.base + 1 \in Nat
    BY <1>1, <1>2 DEF HandleNext
  <2> QED BY <1>1, <2>1, <2>2, SparingRun, SparingErased, SparingSelf
<1>3. CASE HandlerReturned
  <2> DEFINE g == [gs EXCEPT !.errors = LastToSecond(@, Top.base), !.unwind = FALSE]
  <2>1. gs' = RemoveError(gs, Top.base + 1) \/ gs' = RemoveError(g, Top.base + 1)
    BY <1>3 DEF HandlerReturned
  <2>2. gs.errors # << >> /\ Top.base + 1 \in Nat
    BY <1>1, <1>3, SparingFrom DEF HandlerReturned, Holding
  <2>3. /\ LastToSecond(gs.errors, Top.base) \in Seq(Names)
        /\ Len(LastToSecond(gs.errors, Top.base)) = Len(gs.errors)
    BY <1>1, LastToSecondType
  <2>4. /\ g \in CallStacks /\ g.errors = LastToSecond(gs.errors, Top.base)
        /\ g.collectExcess = gs.collectExcess /\ g.catchExcess = gs.catchExcess
    BY <1>1, <2>3 DEF CallStacks
  <2>5. g.errors # << >>
    BY <1>1, <2>2, <2>3, <2>4
  <2> HIDE DEF g
  <2>6. Sparing(gs, g)
    BY <1>1, <2>4, SparesMoved DEF Sparing
  <2>7. Sparing(g, RemoveError(g, Top.base + 1))
    BY <2>2, <2>4, <2>5, SparingErased
  <2> QED BY <1>1, <2>1, <2>2, <2>6, <2>7, SparingErased, SparingOn
<1>4. CASE RanHandling
  <2>1. \E b : LET g == AddErrorIf(b, gs, ".unfinished_if_block")
               IN  gs' = g \/ \E s, base : StartHandler(g, s, base)
    BY <1>4 DEF RanHandling
  <2>2. PICK b : LET g == AddErrorIf(b, gs, ".unfinished_if_block")
                 IN  gs' = g \/ \E s, base : StartHandler(g, s, base)
    BY <2>1
  <2> DEFINE g == AddErrorIf(b, gs, ".unfinished_if_block")
  <2>3. Sparing(gs, g) /\ g \in CallStacks
    BY <1>1, <1>n, SparingAddIf
  <2>4. gs' = g \/ \E s, base : StartHandler(g, s, base)
    BY <2>2
  <2> HIDE DEF g
  <2> QED BY <2>3, <2>4, SparingStart, SparingOn
<1>5. CASE RanIfExists
  <2>1. StartHandler(gs, Popped, Top.base) \/ gs' = DestroyList(gs, Top.base)
    BY <1>5 DEF RanIfExists
  <2> QED BY <1>1, <2>1, SparingStart, SparingDestroyed
<1> QED BY <1>2, <1>3, <1>4, <1>5

LEMMA SparingBuiltins ==
  ASSUME ShellInvariant, Origins(gs, inAuto, stack), [Next]_vars,
         \/ Throw \/ Exit \/ Replace \/ CollectUndefined \/ CollectRun
         \/ Try \/ CatchNext \/ CatchReturned \/ Stored
  PROVE  Sparing(gs, gs')
<1>1. /\ gs \in CallStacks /\ gs' \in CallStacks /\ FromScript(Top)
      /\ Top.what = "collect" /\ Top.pc = "arguments" => Top.mark \in 0 .. Len(gs.errors)
  BY SparingFrom
<1>n. /\ ".not_a_number" \in Ordinary /\ ".not_catching_exception" \in Ordinary
      /\ ".undefined_variable" \in Ordinary
      /\ ".undeclared_variable" \in Ordinary /\ ".unused_before_set" \in Ordinary
      /\ Top.what \in {"throw", "replace"} => Top.cmd.name \in Ordinary
  <2>1. Top.what \in {"throw", "replace"} => Top.cmd.name \in Ordinary
    BY <1>1, OrdinaryNames DEF FromScript, Kinds
  <2> QED BY <2>1, OrdinaryNames
<1>2. CASE Throw
  BY <1>1, <1>2, <1>n, SparingAdd DEF Throw, Finish
<1>3. CASE Exit
  <2>1. gs' = AddError(gs, ".not_a_number") \/ gs' = RequestExit(gs)
    BY <1>3 DEF Exit
  <2> QED BY <1>1, <1>n, <2>1, SparingAdd, SparingExit
<1>4. CASE Replace
  <2>1. \/ gs' = ReplaceError(gs, Top.cmd.name)
        \/ gs' = AddError(gs, ".not_catching_exception")
    BY <1>4 DEF Replace, Finish
  <2>2. Top.cmd.name \in Ordinary
    BY <1>4, <1>n DEF Replace
  <2> QED BY <1>1, <1>n, <2>1, <2>2, SparingAdd, SparingReplaced
<1>5. CASE CollectUndefined
  <2>1. gs' = AddError(DestroyList(gs, Top.mark), ".undefined_variable")
    BY <1>5 DEF CollectUndefined
  <2>2. Top.mark \in 0 .. Len(gs.errors)
    BY <1>1, <1>5 DEF CollectUndefined
  <2>3. Sparing(gs, DestroyList(gs, Top.mark)) /\ DestroyList(gs, Top.mark) \in CallStacks
    BY <1>1, <2>2, SparingDestroyed
  <2> QED BY <1>n, <2>1, <2>3, SparingAdd, SparingOn
<1>6. CASE CollectRun
  <2>1. gs' = gs \/ \E s : Run(gs, s, Top.stmt)
    BY <1>6 DEF CollectRun
  <2> QED BY <1>1, <2>1, SparingRun, SparingSelf
<1>7. CASE Try
  <2>1. \E s, c : Call(gs, s, c)
    BY <1>7 DEF Try
  <2> QED BY <1>1, <2>1, SparingCall
<1>8. CASE CatchNext
  <2> DEFINE g == [gs EXCEPT !.inHandler = TRUE, !.unwind = FALSE]
  <2>1. \E s, c : Run(g, s, c)
    BY <1>8 DEF CatchNext
  <2>2. /\ g \in CallStacks /\ g.errors = gs.errors
        /\ g.collectExcess = gs.collectExcess /\ g.catchExcess = gs.catchExcess
    BY <1>1 DEF CallStacks
  <2> HIDE DEF g
  <2> QED BY <1>1, <2>1, <2>2, SparingSame, SparingRun, SparingOn
<1>9. CASE CatchReturned
  <2> DEFINE g == [gs EXCEPT !.inHandler = FALSE]
  <2>1. gs' = g \/ gs' = RemoveError(g, Top.focus)
    BY <1>9 DEF CatchReturned
  <2>2. /\ g \in CallStacks /\ g.errors = gs.errors
        /\ g.collectExcess = gs.collectExcess /\ g.catchExcess = gs.catchExcess
    BY <1>1 DEF CallStacks
  <2>3. g.errors # << >> /\ Top.focus \in Nat
    BY <1>9, <2>2, SparingFrom DEF CatchReturned, Holding
  <2> HIDE DEF g
  <2>4. Sparing(gs, g)
    BY <1>1, <2>2, SparingSame
  <2>5. Sparing(g, RemoveError(g, Top.focus))
    BY <2>2, <2>3, SparingErased
  <2> QED BY <2>1, <2>4, <2>5, SparingOn
<1>10. CASE Stored
  <2>1. \/ gs' = gs \/ gs' = AddError(gs, ".undeclared_variable")
        \/ gs' = AddError(gs, ".unused_before_set")
    BY <1>10 DEF Stored, Finish
  <2> QED BY <1>1, <1>n, <2>1, SparingAdd, SparingSelf
<1> QED BY <1>2, <1>3, <1>4, <1>5, <1>6, <1>7, <1>8, <1>9, <1>10

\* The exceptions that say how to go on are taken out of the list.
LEMMA SparingTaken ==
  ASSUME NEW g \in CallStacks, NEW base \in 0 .. Len(g.errors), NEW name
  PROVE  /\ RemoveExceptions(g, base, name) \in CallStacks
         /\ Sparing(g, RemoveExceptions(g, base, name))
         /\ base \in 0 .. Len(RemoveExceptions(g, base, name).errors)
<1>1. Sparing(g, RemoveExceptions(g, base, name))
  BY SparesRemoved
<1>2. base <= Len(RemoveExceptions(g, base, name).errors)
  BY RemoveExceptionsType
<1>3. RemoveExceptions(g, base, name).errors \in Seq(Names)
  BY <1>1, CallStackErrors DEF Sparing
<1> QED BY <1>1, <1>2, <1>3 DEF Sparing

LEMMA SparingLoops ==
  ASSUME ShellInvariant, Origins(gs, inAuto, stack), [Next]_vars,
         \/ WhileTest \/ WhileTested \/ ForNext \/ EnterStepwise
         \/ StepwiseRun \/ LoopReturned \/ Store
  PROVE  Sparing(gs, gs')
<1>1. /\ gs \in CallStacks /\ gs' \in CallStacks
      /\ Top.base \in 0 .. Len(gs.errors)
  BY SparingFrom
<1>n. ".bad_args" \in Ordinary /\ ".function_not_found" \in Ordinary
  BY OrdinaryNames
<1>2. CASE WhileTest
  <2>1. \E s, c : Run(gs, s, c)
    BY <1>2 DEF WhileTest
  <2> QED BY <1>1, <2>1, SparingRun
<1>3. CASE WhileTested
  <2> DEFINE h == RemoveExceptions(gs, Top.base, ".false")
  <2>1. gs' = h \/ \E s, c : Call(h, s, c)
    BY <1>3 DEF WhileTested, AfterCondition
  <2>2. Sparing(gs, h) /\ h \in CallStacks
    BY <1>1, SparingTaken
  <2> HIDE DEF h
  <2> QED BY <2>1, <2>2, SparingCall, SparingOn
<1>4. CASE ForNext
  <2>1. \E s, c : Call(gs, s, c)
    BY <1>4 DEF ForNext
  <2> QED BY <1>1, <2>1, SparingCall
<1>5. CASE EnterStepwise
  <2>1. gs' = gs \/ gs' = AddError(gs, ".bad_args") \/ gs' = AddError(gs, ".function_not_found")
    BY <1>5 DEF EnterStepwise
  <2> QED BY <1>1, <1>n, <2>1, SparingAdd, SparingSelf
<1>6. CASE StepwiseRun
  <2>1. gs' = gs \/ \E s, c : Call(gs, s, c)
    BY <1>6 DEF StepwiseRun
  <2> QED BY <1>1, <2>1, SparingCall, SparingSelf
<1>7. CASE LoopReturned
  <2> DEFINE g == RemoveExceptions(gs, Top.base, ".continue")
             h == RemoveExceptions(g, Top.base, ".break")
  <2>1. gs' = h
    BY <1>7 DEF LoopReturned
  <2>2. Sparing(gs, g) /\ g \in CallStacks /\ Top.base \in 0 .. Len(g.errors)
    BY <1>1, SparingTaken
  <2> HIDE DEF g
  <2>3. Sparing(g, h)
    BY <2>2, SparingTaken
  <2> HIDE DEF h
  <2> QED BY <2>1, <2>2, <2>3, SparingOn
<1>8. CASE Store
  <2>1. \E s, c : Call(gs, s, c)
    BY <1>8 DEF Store
  <2> QED BY <1>1, <2>1, SparingCall
<1> QED BY <1>2, <1>3, <1>4, <1>5, <1>6, <1>7, <1>8

LEMMA SparingConditionals ==
  ASSUME ShellInvariant, Origins(gs, inAuto, stack), [Next]_vars,
         EnterIf \/ IfCore \/ IfTested \/ IfReturned
  PROVE  Sparing(gs, gs')
<1>1. /\ gs \in CallStacks /\ gs' \in CallStacks
      /\ Top.base \in 0 .. Len(gs.errors)
  BY SparingFrom
<1>n. /\ ".if_before_else" \in Ordinary /\ ".else_without_if" \in Ordinary
      /\ ".bad_if_nest" \in Ordinary
  BY OrdinaryNames
<1>2. CASE EnterIf
  <2>1. gs' = gs \/ gs' = AddError(gs, ".if_before_else")
    BY <1>2 DEF EnterIf, IfThrows
  <2> QED BY <1>1, <1>n, <2>1, SparingAdd, SparingSelf
<1>3. CASE IfCore
  <2>1. \/ gs' = gs \/ gs' = AddError(gs, ".else_without_if")
        \/ \E s, c : Call(gs, s, c)
        \/ \E s, c : Run(gs, s, c)
    BY <1>3 DEF IfCore, IfThrows
  <2> QED BY <1>1, <1>n, <2>1, SparingAdd, SparingSelf, SparingCall, SparingRun
<1>4. CASE IfTested
  <2> DEFINE h == RemoveExceptions(gs, Top.base, ".false")
  <2>1. \/ gs' = h \/ gs' = AddError(h, ".bad_if_nest")
        \/ \E s, c : Call(h, s, c)
    BY <1>4 DEF IfTested, IfThrows, AfterCondition
  <2>2. Sparing(gs, h) /\ h \in CallStacks
    BY <1>1, SparingTaken
  <2> HIDE DEF h
  <2> QED BY <1>n, <2>1, <2>2, SparingAdd, SparingCall, SparingOn
<1>5. CASE IfReturned
  <2>1. gs' = gs \/ gs' = AddError(gs, ".bad_if_nest")
    BY <1>5 DEF IfReturned, IfThrows
  <2> QED BY <1>1, <1>n, <2>1, SparingAdd, SparingSelf
<1> QED BY <1>2, <1>3, <1>4, <1>5

LEMMA SparingReading ==
  ASSUME ShellInvariant, Origins(gs, inAuto, stack), [Next]_vars,
         \/ GetlineEnd \/ GetlineUnclosed \/ GetlineIncomplete
         \/ GetlineMalformed \/ GetlineComplete \/ EnterSource
  PROVE  Sparing(gs, gs')
<1>1. /\ gs \in CallStacks /\ gs' \in CallStacks
      /\ Top.base \in 0 .. Len(gs.errors)
  BY SparingFrom
<1>n. /\ ".unclosed_brace" \in Ordinary /\ ".mismatched_brace" \in Ordinary
      /\ ".file_open_failure" \in Ordinary
  BY OrdinaryNames
<1> DEFINE r == Reset(gs, Top.base)
<1>2. Sparing(gs, r) /\ r \in CallStacks
  BY <1>1, SparingReset
<1>r. Len(r.errors) = Top.base /\ Top.base \in Nat
  BY <1>1, ResetType
<1>3. CASE GetlineEnd
  <2>1. gs' = r \/ \E s, what, base, c : RunHandling(r, s, what, base, c)
    BY <1>3 DEF GetlineEnd
  <2> HIDE DEF r
  <2> QED BY <1>2, <2>1, SparingHandling, SparingOn
<1>4. CASE GetlineUnclosed
  BY <1>1, <1>4, <1>n, SparingAdd DEF GetlineUnclosed
<1>5. CASE GetlineIncomplete
  <2> DEFINE a == AddError(r, ".unclosed_brace")
  <2>1. gs' = RemoveExceptions(a, Top.base, ".unclosed_brace")
    BY <1>5 DEF GetlineIncomplete
  <2> HIDE DEF r
  <2>2. Sparing(r, a) /\ a \in CallStacks
    BY <1>2, <1>n, SparingAdd
  <2>3. Top.base \in 0 .. Len(a.errors)
    <3>1. ".unclosed_brace" \in Names
      BY <1>n, OrdinaryNames
    <3>2. Len(a.errors) = Len(r.errors) + 1
      BY <1>2, <3>1, AddErrorType
    <3> QED BY <1>r, <3>2
  <2> HIDE DEF a
  <2>4. Sparing(a, gs')
    BY <2>1, <2>2, <2>3, SparingTaken
  <2> QED BY <1>2, <2>2, <2>4, SparingOn
<1>6. CASE GetlineMalformed
  <2> DEFINE a == AddError(r, ".mismatched_brace")
  <2>1. \E s, c : CatchOne(a, s, c)
    BY <1>6 DEF GetlineMalformed
  <2> HIDE DEF r
  <2>2. Sparing(r, a) /\ a \in CallStacks
    BY <1>2, <1>n, SparingAdd
  <2> HIDE DEF a
  <2> QED BY <1>2, <2>1, <2>2, SparingCatchOne, SparingOn
<1>7. CASE GetlineComplete
  <2>1. \E s, what, base, c : RunHandling(r, s, what, base, c)
    BY <1>7 DEF GetlineComplete
  <2> HIDE DEF r
  <2> QED BY <1>2, <2>1, SparingHandling, SparingOn
<1>8. CASE EnterSource
  <2>1. gs' = gs \/ gs' = AddError(gs, ".file_open_failure")
    BY <1>8 DEF EnterSource
  <2> QED BY <1>1, <1>n, <2>1, SparingAdd, SparingSelf
<1> QED BY <1>3, <1>4, <1>5, <1>6, <1>7, <1>8

LEMMA SparingMain ==
  ASSUME ShellInvariant, Origins(gs, inAuto, stack), [Next]_vars,
         \/ MainInit \/ MainPrompt \/ MainGot \/ MainInterpreted
         \/ MainRun \/ MainAfter \/ MainShutdown \/ MainGlobals
  PROVE  Sparing(gs, gs')
<1>1. gs \in CallStacks /\ gs' \in CallStacks
  BY SparingFrom
<1>2. CASE MainGlobals
  <2> DEFINE a == AddError(gs, ".unused_variable")
  <2>1. gs' = gs \/ \E s, base : StartHandler(a, s, base)
    BY <1>2 DEF MainGlobals
  <2>2. Sparing(gs, a) /\ a \in CallStacks
    BY <1>1, OrdinaryNames, SparingAdd
  <2> HIDE DEF a
  <2> QED BY <1>1, <2>1, <2>2, SparingStart, SparingOn, SparingSelf
<1>3. CASE MainInterpreted
  <2>1. \E s, name : RunIfExists(gs, s, name)
    BY <1>3 DEF MainInterpreted
  <2> QED BY <1>1, <2>1, SparingIfExists
<1>4. CASE MainInit \/ MainPrompt \/ MainGot \/ MainRun \/ MainAfter \/ MainShutdown
  <2>1. \/ gs' = gs
        \/ \E s, what, base, c : RunHandling(gs, s, what, base, c)
        \/ \E s, base : StartHandler(gs, s, base)
        \/ \E s, name : RunIfExists(gs, s, name)
    BY <1>4 DEF MainInit, MainPrompt, MainGot, MainRun, MainAfter, MainShutdown
  <2> QED BY <1>1, <2>1, SparingHandling, SparingStart, SparingIfExists, SparingSelf
<1> QED BY <1>2, <1>3, <1>4

LEMMA SparingStep ==
  ASSUME ShellInvariant, Origins(gs, inAuto, stack), [Next]_vars, ~Reporting
  PROVE  Sparing(gs, gs')
<1>1. gs \in CallStacks /\ gs' \in CallStacks
  BY SparingFrom
<1>2. CASE InterpreterNext
  BY <1>1, <1>2, SparingSilent, SparingExecutables, SparingHandlers
     DEF InterpreterNext, Reporting
<1>3. CASE ControlFlowNext
  BY <1>1, <1>3, SparingSilent, SparingBuiltins, SparingLoops, SparingConditionals
     DEF ControlFlowNext, Reporting
<1>4. CASE ShellNext
  BY <1>1, <1>4, SparingSilent, SparingReading, SparingMain DEF ShellNext
<1>5. CASE UNCHANGED vars
  BY <1>1, <1>5, SparingSilent
<1> QED BY <1>2, <1>3, <1>4, <1>5 DEF Next

\* The handlers have all there is before them, but at the end of the shell.
LEMMA LowestNext ==
  ASSUME Never("source"), ~HooksDefined,
         ShellInvariant, Origins(gs, inAuto, stack), Lowest(stack), [Next]_vars
  PROVE  Lowest(stack')
<1> DEFINE n == Len(stack)
<1>1. /\ stack \in Seq(Frames) /\ n \in Nat \ {0} /\ Top = stack[n] /\ Top \in Frames
      /\ FromScript(Top) /\ (Top.what = "main" => n = 1 /\ Top.base = 0)
      /\ (Top.what \in Kinds => n > 2) /\ Rooted(stack)
  BY TopOfOrigins DEF Origins
<1>2. Top.what # "source"
  BY <1>1, NotInScripts DEF Kinds
<1>3. CASE StepwiseAborts
  <2>1. stack' = << Frame("main", "aborted", Argfunction, 0) >>
    BY <1>3 DEF StepwiseAborts, Abort
  <2>2. /\ Len(stack') = 1 /\ stack'[1].what = "main" /\ stack'[1].base = 0
    BY <2>1 DEF Frame
  <2>3. \A i \in 1 .. Len(stack') : LowestAt(stack', i)
    BY <2>2 DEF LowestAt, Cleaning
  <2> QED BY <2>3 DEF Lowest
<1>4. CASE CollectNext
  <2>1. PICK c \in Commands :
          stack' = SetTop([Top EXCEPT !.pc = "arguments", !.stmt = c,
                                      !.mark = Len(gs.errors)])
    BY <1>4 DEF CollectNext
  <2> DEFINE f == [Top EXCEPT !.pc = "arguments", !.stmt = c, !.mark = Len(gs.errors)]
  <2>2. Top.what = "collect" /\ f.what = "collect" /\ n > 2
    BY <1>1, <1>4 DEF CollectNext, Kinds, Frames
  <2>3. stack' = [stack EXCEPT ![n] = f]
    BY <2>1 DEF SetTop
  <2> HIDE DEF f, n
  <2>4. /\ Len(stack') = n /\ stack'[n] = f
        /\ \A i \in 1 .. n : i # n => stack'[i] = stack[i]
    BY <1>1, <2>3 DEF n
  <2>5. ASSUME NEW i \in 1 .. n PROVE LowestAt(stack', i)
    <3>1. stack'[1] = stack[1]
      BY <1>1, <2>2, <2>4
    <3>2. CASE i = n
      BY <2>2, <2>4, <3>2 DEF LowestAt, Cleaning
    <3>3. CASE i # n
      BY <2>4, <2>5, <3>1, <3>3 DEF LowestAt, Lowest, n
    <3> QED BY <3>2, <3>3
  <2> QED BY <2>4, <2>5 DEF Lowest
<1>5. CASE ~CollectNext /\ ~StepwiseAborts
  <2>1. /\ stack' \in Seq(Frames) /\ Len(stack') > 0
        /\ \A i \in 1 .. Len(stack') : LayerAt(stack', i)
    BY <1>5, Layers DEF Layered
  <2>2. n > 1 => stack'[1] = stack[1]
    <3>1. 1 \in 1 .. Len(stack')
      BY <2>1
    <3> QED BY <1>1, <2>1, <3>1 DEF LayerAt
  <2>3. /\ stack[1].what = "main" /\ stack[1].base = 0
    BY <1>1 DEF Rooted
  <2>4. LowestAt(stack, n)
    BY <1>1 DEF Lowest
  <2> HIDE DEF n
  <2>5. ASSUME NEW i \in 1 .. Len(stack') PROVE LowestAt(stack', i)
    <3>0. /\ i \in Nat \ {0} /\ LayerAt(stack', i)
      BY <2>1, <2>5
    <3>1. CASE i < n /\ stack'[i] = stack[i]
      <4>1. LowestAt(stack, i)
        BY <1>1, <3>0, <3>1 DEF Lowest, n
      <4>2. stack'[1] = stack[1]
        BY <1>1, <2>2, <3>0, <3>1
      <4> QED BY <3>1, <4>1, <4>2 DEF LowestAt
    <3>2. CASE i = n /\ Kept(stack'[i], Top)
      <4>1. stack'[i].what = Top.what /\ stack'[i].base = Top.base
        BY <3>2 DEF Kept
      <4>2. CASE n = 1
        BY <1>1, <2>3, <3>2, <4>1, <4>2 DEF LowestAt, Cleaning
      <4>3. CASE n > 1
        BY <1>1, <2>2, <2>4, <3>2, <4>1, <4>3 DEF LowestAt
      <4> QED BY <1>1, <4>2, <4>3
    <3>3. CASE i = n /\ Handed(stack'[i], Top)
      <4>1. /\ Top.what \in {"run_handling", "base_run", "run_if_exists"}
            /\ stack'[i].what = "handler" /\ stack'[i].base = Top.base
        BY <3>3 DEF Handed
      <4>2. n = 2
        BY <1>1, <2>4, <4>1 DEF LowestAt, Cleaning
      <4> QED BY <1>1, <2>2, <2>4, <3>3, <4>1, <4>2 DEF LowestAt, Cleaning
    <3>4. CASE i >= n /\ Started(stack'[i])
      BY <3>4 DEF Started, LowestAt, Cleaning, Kinds
    <3>5. CASE i = n + 1 /\ Helping(stack'[i], Top)
      <4>1. /\ Top.what = "main" /\ stack'[i].what \in Cleaning
            /\ stack'[i].what \in {"handler", "run_handling", "base_run"} =>
                 stack'[i].base = Top.base \/ MainGlobals
            /\ stack'[i].what = "run_if_exists" => stack'[i].base = 0
        BY <1>2, <3>5 DEF Helping
      <4>2. i = 2 /\ Top.base = 0
        BY <1>1, <3>5, <4>1
      <4>3. ASSUME MainGlobals PROVE stack'[1].pc = "done"
        <5> DEFINE f == [Top EXCEPT !.pc = "done"]
                   t == Goto("done")
        <5>1. t = [stack EXCEPT ![n] = f] /\ f \in Frames /\ f.pc = "done"
          BY <1>1 DEF Goto, SetTop, n, Frames, Places
        <5> HIDE DEF f, t
        <5>2. t \in Seq(Frames) /\ Len(t) = n /\ t[n] = f /\ n = 1
          BY <1>1, <4>1, <5>1, Replaced DEF n
        <5>3. stack' = t \/ \E h : stack' = Append(t, h)
          BY <4>3 DEF MainGlobals, StartHandler, t
        <5> QED BY <5>1, <5>2, <5>3
      <4> QED BY <4>1, <4>2, <4>3 DEF LowestAt, Cleaning
    <3> QED BY <3>0, <3>1, <3>2, <3>3, <3>4, <3>5 DEF LayerAt, n
  <2> QED BY <2>5 DEF Lowest
<1> QED BY <1>3, <1>4, <1>5

\* At its end the shell does no more.
LEMMA MainDone ==
  ASSUME ShellInvariant, Origins(gs, inAuto, stack), [Next]_vars,
         Len(stack) = 1, stack[1].pc = "done"
  PROVE  UNCHANGED vars
<1>1. Top = stack[1] /\ Top.what = "main" /\ Top.pc = "done"
  BY TopOfOrigins DEF Origins, Rooted
<1>2. ~InterpreterNext
  BY <1>1 DEF InterpreterNext, SecondLookup, Return, SignalHandled, CatchSignal,
     EnterFunction, BadArguments, EnterBlock, NextStatement, Substitute, Substituted,
     UndefinedVariable, RunStatement, AfterStatement, UnusedVariables, HandleNext,
     HandlerReturned, HandlersDone, RanHandling, RanIfExists, CaughtOne, Kinds,
     Bodies, Interpreting, Checking
<1>3. ~ControlFlowNext
  BY <1>1 DEF ControlFlowNext, Throw, Exit, Replace, EnterCollect, CollectNext,
     CollectExcess, CollectEnd, CollectUndefined, CollectRun, CollectRan, Try,
     TryReturned, CatchNext, CatchReturned, CatchExcess, CatchDone, WhileTest,
     WhileTested, ForNext, ForEnd, EnterStepwise, StepwiseAborts, StepwiseNext,
     StepwiseRun, LoopReturned, Loops, Store, Stored, EnterIf, IfCore, IfTested,
     IfReturned, IfKinds
<1>4. ~ShellNext
  BY <1>1 DEF ShellNext, ReadingLine, GetlineFails, GetlineEnd, GetlineUnclosed,
     GetlineIncomplete, GetlineMalformed, GetlineComplete, EnterSource, SourceLine,
     SourceGot, MainInit, MainRegister, MainPrompt, MainGot, MainStatement,
     MainInterpreted, MainRun, MainAfter, MainShutdown, MainGlobals
<1> QED BY <1>2, <1>3, <1>4 DEF Next

\* One more exception, of a name that is not in the list yet.
LEMMA OnceMore ==
  ASSUME NEW e \in Seq(Names), NEW name, ~Among(e, name)
  PROVE  /\ \A x : Once(e, x) => Once(Append(e, name), x)
         /\ \A x : Among(Append(e, name), x) => x = name \/ Among(e, x)
<1> DEFINE f == Append(e, name)
           n == Len(e)
<1>1. /\ n \in Nat /\ Len(f) = n + 1 /\ f[n + 1] = name
      /\ \A p \in 1 .. n : f[p] = e[p]
  OBVIOUS
<1> HIDE DEF f
<1>2. \A p \in 1 .. n + 1 : p \in 1 .. n \/ p = n + 1
  BY <1>1
<1>3. ASSUME NEW x, Once(e, x) PROVE Once(f, x)
  <2> SUFFICES ASSUME NEW p \in 1 .. n + 1, NEW q \in 1 .. n + 1, f[p] = x, f[q] = x
               PROVE  p = q
    BY <1>1 DEF Once
  <2>1. CASE p = n + 1 \/ q = n + 1
    BY <1>1, <1>2, <2>1 DEF Among
  <2>2. CASE p \in 1 .. n /\ q \in 1 .. n
    BY <1>1, <1>3, <2>2 DEF Once
  <2> QED BY <1>2, <2>1, <2>2
<1>4. ASSUME NEW x, Among(f, x) PROVE x = name \/ Among(e, x)
  BY <1>1, <1>2, <1>4 DEF Among
<1>5. /\ \A x : Once(e, x) => Once(f, x)
      /\ \A x : Among(f, x) => x = name \/ Among(e, x)
  BY <1>3, <1>4
<1> QED BY <1>5 DEF f

\* A report is added by the routine that is the first to meet the excess, and
\* forgotten when no exceptions are left.
LEMMA ReportedNext ==
  ASSUME Never("source"), Excesses \cap Ordinary = {},
         ShellInvariant, Origins(gs, inAuto, stack), Lowest(stack),
         Reported(gs, stack), [Next]_vars
  PROVE  Reported(gs', stack')
<1>1. /\ gs \in CallStacks /\ gs' \in CallStacks /\ gs.errors \in Seq(Names)
  BY SparingFrom, CallStackErrors
<1>2. /\ stack \in Seq(Frames) /\ Len(stack) \in Nat \ {0} /\ Top = stack[Len(stack)]
      /\ (Top.what # "main" => Len(stack) > 1)
      /\ Popped = SubSeq(stack, 1, Len(stack) - 1)
  BY TopOfOrigins DEF Origins
<1>3. \A x \in Excesses : x \notin Ordinary
  OBVIOUS
<1>4. CASE Noted(gs) /\ ~Reporting
  <2>1. Sparing(gs, gs')
    BY <1>4, SparingStep
  <2>2. Singly(gs')
    BY <1>3, <2>1 DEF Sparing, Spares, Singly, Reported
  <2>3. ASSUME NEW x \in Excesses, Among(gs'.errors, x) PROVE Among(gs.errors, x)
    BY <1>3, <2>1, <2>3 DEF Sparing, Spares, Among
  <2>4. Noted(gs')
    BY <1>4, <2>1, <2>3 DEF Noted, Sparing, Excesses
  <2> QED BY <2>2, <2>4 DEF Reported
<1>5. CASE ~Noted(gs)
  <2>1. Len(stack) = 1 /\ stack[1].pc = "done"
    BY <1>5 DEF Reported
  <2>2. UNCHANGED vars
    BY <2>1, MainDone
  <2> QED BY <2>2 DEF Reported, vars
<1>6. CASE Noted(gs) /\ (CollectExcess \/ CatchExcess)
  <2> DEFINE Added(r) ==
               \/ gs'.errors = gs.errors
               \/ ~Among(gs.errors, r) /\ gs'.errors = Append(gs.errors, r)
             Flagged(r) ==
               /\ gs.collectExcess \/ r = Excess => gs'.collectExcess
               /\ gs.catchExcess \/ r = ".excessive_exceptions_in_catch" => gs'.catchExcess
  <2>1. PICK r \in Excesses : Added(r) /\ Flagged(r)
    <3>1. CASE CollectExcess
      <4> DEFINE g == AddErrorIf(~gs.collectExcess, gs, Excess)
      <4>1. gs' = [g EXCEPT !.unwind = TRUE, !.collectExcess = TRUE]
        BY <3>1 DEF CollectExcess, Excess
      <4>2. /\ g \in CallStacks /\ g.catchExcess = gs.catchExcess
            /\ g.errors = IF gs.collectExcess THEN gs.errors ELSE Append(gs.errors, Excess)
        <5>1. Excess \in Names
          BY ThrownNames DEF Excess
        <5>2. AddError(gs, Excess) \in CallStacks
          BY <1>1, <5>1, AddErrorType
        <5> QED BY <1>1, <5>2 DEF AddErrorIf, AddError, CallStacks
      <4> HIDE DEF g
      <4>3. /\ gs'.errors = g.errors /\ gs'.collectExcess = TRUE
            /\ gs'.catchExcess = g.catchExcess
        BY <4>1, <4>2 DEF CallStacks
      <4>4. Excess \in Excesses /\ Excess # ".excessive_exceptions_in_catch"
        BY DEF Excesses, Excess
      <4>5. ~gs.collectExcess => ~Among(gs.errors, Excess)
        BY <1>6 DEF Noted
      <4>6. Added(Excess)
        BY <4>2, <4>3, <4>5
      <4>7. Flagged(Excess)
        BY <4>2, <4>3, <4>4
      <4> HIDE DEF Added, Flagged
      <4> QED BY <4>4, <4>6, <4>7
    <3>2. CASE CatchExcess
      <4> DEFINE r == ".excessive_exceptions_in_catch"
                 g == AddErrorIf(~gs.catchExcess, gs, r)
      <4>1. gs' = [g EXCEPT !.catchExcess = TRUE]
        BY <3>2 DEF CatchExcess, Finish
      <4>2. /\ g \in CallStacks /\ g.collectExcess = gs.collectExcess
            /\ g.errors = IF gs.catchExcess THEN gs.errors ELSE Append(gs.errors, r)
        <5>1. r \in Names
          BY ShellNames DEF ShellExceptions
        <5>2. AddError(gs, r) \in CallStacks
          BY <1>1, <5>1, AddErrorType
        <5> QED BY <1>1, <5>2 DEF AddErrorIf, AddError, CallStacks
      <4> HIDE DEF g
      <4>3. /\ gs'.errors = g.errors /\ gs'.catchExcess = TRUE
            /\ gs'.collectExcess = g.collectExcess
        BY <4>1, <4>2 DEF CallStacks
      <4>4. r \in Excesses /\ r # Excess
        BY DEF Excesses, Excess
      <4>5. ~gs.catchExcess => ~Among(gs.errors, r)
        BY <1>6 DEF Noted
      <4>6. Added(r)
        BY <4>2, <4>3, <4>5
      <4>7. Flagged(r)
        BY <4>2, <4>3, <4>4
      <4> HIDE DEF Added, Flagged
      <4> QED BY <4>4, <4>6, <4>7
    <3> QED BY <1>6, <3>1, <3>2
  <2>2. CASE gs'.errors = gs.errors
    BY <1>6, <2>1, <2>2 DEF Reported, Singly, Noted
  <2>3. CASE ~Among(gs.errors, r) /\ gs'.errors = Append(gs.errors, r)
    <3>1. /\ \A x : Once(gs.errors, x) => Once(gs'.errors, x)
          /\ \A x : Among(gs'.errors, x) => x = r \/ Among(gs.errors, x)
      BY <1>1, <2>3, OnceMore
    <3>2. Singly(gs')
      BY <3>1 DEF Singly, Reported
    <3>3. Noted(gs')
      BY <1>6, <2>1, <3>1 DEF Noted
    <3> QED BY <3>2, <3>3 DEF Reported
  <2> QED BY <2>1, <2>2, <2>3
<1>7. CASE HandlersDone
  <2>1. /\ Top.what = "handler" /\ Len(gs.errors) = Top.base /\ stack' = Popped
        /\ gs'.errors = gs.errors
    BY <1>1, <1>7 DEF HandlersDone, CallStacks
  <2>2. Singly(gs')
    BY <2>1 DEF Singly, Reported
  <2>3. Len(stack) = 2 /\ (Top.base = 0 \/ stack[1].pc = "done")
    <3>1. LowestAt(stack, Len(stack))
      BY <1>2 DEF Lowest
    <3> QED BY <1>2, <2>1, <3>1 DEF LowestAt, Cleaning
  <2>4. CASE Top.base = 0
    <3>1. Len(gs'.errors) = 0
      BY <2>1, <2>4
    <3>2. Noted(gs')
      BY <3>1 DEF Noted, Among
    <3> QED BY <2>2, <3>2 DEF Reported
  <2>5. CASE stack[1].pc = "done"
    <3>1. Len(stack') = 1 /\ stack'[1] = stack[1]
      BY <1>2, <2>1, <2>3
    <3> QED BY <2>2, <2>5, <3>1 DEF Reported
  <2> QED BY <2>3, <2>4, <2>5
<1>8. CASE StepwiseAborts
  <2>1. Len(gs'.errors) = 0
    BY <1>8 DEF StepwiseAborts, Abort, InitialCallStack
  <2> QED BY <2>1 DEF Reported, Singly, Noted, Once, Among
<1> QED BY <1>4, <1>5, <1>6, <1>7, <1>8 DEF Reporting

LEMMA ReportsOnce ==
  ASSUME NEW x, gs.errors \in Seq(Names), Once(gs.errors, x)
  PROVE  Cardinality(Reports(x)) <= 1
<1>1. CASE Reports(x) = {}
  BY <1>1, FS_EmptySet
<1>2. CASE Reports(x) # {}
  <2>1. PICK p : p \in Reports(x)
    BY <1>2
  <2>2. Reports(x) = {p}
    <3>1. \A q \in Reports(x) : q \in 1 .. Len(gs.errors) /\ gs.errors[q] = x
      BY DEF Reports
    <3> QED BY <2>1, <3>1 DEF Once
  <2>3. Cardinality({p}) = 1
    BY FS_Singleton
  <2> QED BY <2>2, <2>3
<1> QED BY <1>1, <1>2

\* The report that a limit was exceeded is in the lists once, however deeply the
\* routines that find it exceeded are nested (collect_errors_core and
\* catch_blocks, with the flags that exception_handler resets when it is done).
\* The handlers that reset the flags must have all there is before them, so there
\* are no scripts and no hooks around a command, and no script throws a report.
THEOREM ExcessReportedOnceHolds ==
  ASSUME Never("source"), ~HooksDefined, Excesses \cap Ordinary = {}
  PROVE  Spec => []ExcessReportedOnce
<1>1. Spec => [](ShellInvariant /\ Origins(gs, inAuto, stack))
  BY OriginsHolds
<1>2. Init => Lowest(stack) /\ Reported(gs, stack)
  <2> SUFFICES ASSUME Init PROVE Lowest(stack) /\ Reported(gs, stack)
    OBVIOUS
  <2>1. Len(stack) = 1 /\ stack[1].what = "main" /\ stack[1].base = 0
    BY DEF Init, Frame
  <2>2. Len(gs.errors) = 0
    BY DEF Init, InitialCallStack
  <2>3. \A i \in 1 .. Len(stack) : LowestAt(stack, i)
    BY <2>1 DEF LowestAt, Cleaning
  <2>4. Lowest(stack)
    BY <2>3 DEF Lowest
  <2>5. Reported(gs, stack)
    BY <2>2 DEF Reported, Singly, Noted, Once, Among
  <2> QED BY <2>4, <2>5
<1>3. /\ ShellInvariant /\ Origins(gs, inAuto, stack)
      /\ Lowest(stack) /\ Reported(gs, stack) /\ [Next]_vars
      => (Lowest(stack) /\ Reported(gs, stack))'
  BY LowestNext, ReportedNext
<1>4. /\ ShellInvariant /\ Lowest(stack) /\ Reported(gs, stack)
      => ExcessReportedOnce
  <2> SUFFICES ASSUME ShellInvariant, Reported(gs, stack) PROVE ExcessReportedOnce
    OBVIOUS
  <2>1. gs.errors \in Seq(Names)
    BY CallStackErrors DEF ShellInvariant, StackOK
  <2>2. \A x \in Excesses : Once(gs.errors, x)
    BY DEF Reported, Singly
  <2> QED BY <2>1, <2>2, ReportsOnce DEF ExcessReportedOnce, Excesses, Excess
<1> QED BY <1>1, <1>2, <1>3, <1>4, PTL DEF Spec

-----------------------------------------------------------------------------
\* Chains of conditionals: all that may leave one open runs below a base_run.

\* The signal that is waiting: nothing but its arrival and the end of an executable
\* changes it.
Signed(g) == "signal" \in DOMAIN g
Waiting(g, h) == Signed(h) /\ h.signal = g.signal

LEMMA WaitingOn ==
  ASSUME NEW f, NEW g, NEW h, Waiting(f, g), Waiting(g, h)
  PROVE  Waiting(f, h)
BY DEF Waiting

LEMMA WaitingSelf ==
  ASSUME NEW g, Signed(g)
  PROVE  Waiting(g, g) /\ Waiting(g, [g EXCEPT !.unwind = FALSE])
         /\ Waiting(g, [g EXCEPT !.inHandler = TRUE, !.unwind = FALSE])
BY DEF Waiting, Signed

LEMMA WaitingAdd ==
  ASSUME NEW g, Signed(g), NEW name
  PROVE  Waiting(g, AddError(g, name)) /\ Waiting(g, ReplaceError(g, name))
BY DEF Waiting, Signed, AddError, ReplaceError

LEMMA WaitingAddIf ==
  ASSUME NEW g, Signed(g), NEW b, NEW name
  PROVE  Waiting(g, AddErrorIf(b, g, name))
BY DEF Waiting, Signed, AddError, AddErrorIf

LEMMA WaitingReset ==
  ASSUME NEW g, Signed(g), NEW base
  PROVE  Waiting(g, DestroyList(g, base)) /\ Waiting(g, Reset(g, base))
BY DEF Waiting, Signed, DestroyList, Reset

LEMMA WaitingErased ==
  ASSUME NEW g, Signed(g), NEW i
  PROVE  Waiting(g, RemoveError(g, i))
BY DEF Waiting, Signed, RemoveError

LEMMA WaitingTaken ==
  ASSUME NEW g, Signed(g), NEW base, NEW name
  PROVE  Waiting(g, RemoveExceptions(g, base, name))
BY DEF Waiting, Signed, RemoveExceptions

LEMMA WaitingExit ==
  ASSUME NEW g, Signed(g)
  PROVE  Waiting(g, RequestExit(g))
BY DEF Waiting, Signed, RequestExit

LEMMA WaitingCall ==
  ASSUME NEW g, Signed(g), NEW s, NEW c, Call(g, s, c)
  PROVE  Waiting(g, gs')
<1> DEFINE e == AddErrorIf(g.nesting > MaxNesting + 1, g, ".excessive_nesting")
<1>1. Waiting(g, e)
  BY WaitingAddIf
<1>2. gs' = e \/ gs' = [e EXCEPT !.nesting = @ + 1]
  BY DEF Call
<1> HIDE DEF e
<1> QED BY <1>1, <1>2 DEF Waiting, Signed

LEMMA WaitingRun ==
  ASSUME NEW g, Signed(g), NEW s, NEW c, Run(g, s, c)
  PROVE  Waiting(g, gs')
<1> DEFINE h == AddError(g, ".function_not_found")
<1>1. Waiting(g, h) /\ Signed(h)
  BY WaitingAdd DEF Waiting
<1>2. Waiting(h, AddError(h, ".function_not_found"))
  BY <1>1, WaitingAdd
<1>3. \/ gs' = h \/ gs' = AddError(h, ".function_not_found")
      \/ \E t, d : Call(g, t, d)
  BY DEF Run
<1> HIDE DEF h
<1> QED BY <1>1, <1>2, <1>3, WaitingCall, WaitingOn

LEMMA WaitingStart ==
  ASSUME NEW g, Signed(g), NEW s, NEW base, StartHandler(g, s, base)
  PROVE  Waiting(g, gs')
BY WaitingSelf DEF StartHandler

LEMMA WaitingHandling ==
  ASSUME NEW g, Signed(g), NEW s, NEW what, NEW base, NEW c,
         RunHandling(g, s, what, base, c)
  PROVE  Waiting(g, gs')
BY WaitingRun DEF RunHandling

LEMMA WaitingIfExists ==
  ASSUME NEW g, Signed(g), NEW s, NEW name, RunIfExists(g, s, name)
  PROVE  Waiting(g, gs')
BY WaitingCall, WaitingSelf DEF RunIfExists

LEMMA WaitingCatchOne ==
  ASSUME NEW g, Signed(g), NEW s, NEW c, CatchOne(g, s, c)
  PROVE  Waiting(g, gs')
<1> DEFINE h == [g EXCEPT !.inHandler = TRUE, !.unwind = FALSE]
<1>1. Waiting(g, h) /\ Signed(h)
  BY WaitingSelf DEF Waiting
<1>2. \E t : Run(h, t, c)
  BY DEF CatchOne
<1> HIDE DEF h
<1> QED BY <1>1, <1>2, WaitingRun, WaitingOn
LEMMA WaitingSilent ==
  ASSUME Signed(gs),
         \/ SignalHandled \/ EnterBlock \/ NextStatement \/ AfterStatement
         \/ CaughtOne \/ HandlersDone
         \/ EnterCollect \/ CollectNext \/ CollectExcess \/ CollectEnd \/ CollectRan
         \/ TryReturned \/ CatchDone \/ CatchExcess
         \/ ForEnd \/ StepwiseNext
         \/ GetlineFails \/ SourceLine \/ SourceGot \/ MainRegister
         \/ MainStatement \/ UNCHANGED vars
  PROVE  Waiting(gs, gs')
<1>1. CASE \/ SignalHandled \/ EnterBlock \/ NextStatement \/ AfterStatement
           \/ EnterCollect \/ CollectNext \/ TryReturned \/ ForEnd \/ StepwiseNext
           \/ GetlineFails \/ SourceLine \/ SourceGot \/ MainRegister
           \/ MainStatement \/ UNCHANGED vars
  <2>1. gs' = gs
    BY <1>1 DEF SignalHandled, EnterBlock, NextStatement, AfterStatement,
       EnterCollect, CollectNext, TryReturned, ForEnd, StepwiseNext,
       Finish, GetlineFails, SourceLine, SourceGot, MainRegister, MainStatement,
       vars
  <2> QED BY <2>1 DEF Waiting
<1>2. CASE CaughtOne \/ HandlersDone \/ CollectEnd \/ CollectRan \/ CatchDone
  BY <1>2 DEF CaughtOne, HandlersDone, CollectEnd, CollectRan, CatchDone, Finish,
     Waiting, Signed
<1>3. CASE CollectExcess
  BY <1>3 DEF CollectExcess, AddErrorIf, AddError, Waiting, Signed
<1>4. CASE CatchExcess
  BY <1>4 DEF CatchExcess, Finish, AddErrorIf, AddError, Waiting, Signed
<1> QED BY <1>1, <1>2, <1>3, <1>4

LEMMA WaitingExecutables ==
  ASSUME Signed(gs),
         \/ SecondLookup \/ EnterFunction \/ BadArguments
         \/ Substitute \/ Substituted \/ UndefinedVariable \/ RunStatement
         \/ UnusedVariables
         \/ HandleNext \/ HandlerReturned \/ RanHandling \/ RanIfExists
  PROVE  Waiting(gs, gs')
<1>1. CASE SecondLookup
  <2>1. Call(gs, Popped, Top.cmd) \/ gs' = AddError(gs, ".function_not_found")
    BY <1>1 DEF SecondLookup
  <2> QED BY <2>1, WaitingCall, WaitingAdd
<1>2. CASE EnterFunction \/ BadArguments \/ UnusedVariables
  <2>1. \/ gs' = gs \/ \E name : gs' = AddError(gs, name)
    BY <1>2 DEF EnterFunction, BadArguments, UnusedVariables, Finish, AddErrorIf
  <2> QED BY <2>1, WaitingSelf, WaitingAdd
<1>3. CASE Substitute
  <2> DEFINE g == [gs EXCEPT !.unwind = FALSE]
  <2>1. \E t : Call(g, t, Argfunction)
    BY <1>3 DEF Substitute
  <2>2. Waiting(gs, g) /\ Signed(g)
    BY WaitingSelf DEF Waiting
  <2> HIDE DEF g
  <2> QED BY <2>1, <2>2, WaitingCall, WaitingOn
<1>4. CASE Substituted
  BY <1>4 DEF Substituted, AddErrorIf, AddError, Waiting, Signed
<1>5. CASE UndefinedVariable
  <2>1. \E b : gs' = AddError(AddErrorIf(b, gs, ".unused_variable"), ".undefined_variable")
    BY <1>5 DEF UndefinedVariable
  <2>2. PICK b : gs' = AddError(AddErrorIf(b, gs, ".unused_variable"), ".undefined_variable")
    BY <2>1
  <2>3. Waiting(gs, AddErrorIf(b, gs, ".unused_variable"))
    BY WaitingAddIf
  <2> QED BY <2>2, <2>3, WaitingAdd, WaitingOn DEF Waiting
<1>6. CASE RunStatement
  <2>1. gs' = gs \/ \E s : Run(gs, s, Top.stmt)
    BY <1>6 DEF RunStatement
  <2> QED BY <2>1, WaitingRun, WaitingSelf
<1>7. CASE HandleNext
  <2>1. \/ gs' = gs \/ gs' = RemoveError(gs, Top.base + 1)
        \/ \E s, c : Run(gs, s, c)
    BY <1>7 DEF HandleNext
  <2> QED BY <2>1, WaitingRun, WaitingSelf, WaitingErased
<1>8. CASE HandlerReturned
  <2> DEFINE g == [gs EXCEPT !.errors = LastToSecond(@, Top.base), !.unwind = FALSE]
  <2>1. gs' = RemoveError(gs, Top.base + 1) \/ gs' = RemoveError(g, Top.base + 1)
    BY <1>8 DEF HandlerReturned
  <2>2. Waiting(gs, g) /\ Signed(g)
    BY DEF Waiting, Signed
  <2> HIDE DEF g
  <2> QED BY <2>1, <2>2, WaitingErased, WaitingOn
<1>9. CASE RanHandling
  <2>1. \E b : LET g == AddErrorIf(b, gs, ".unfinished_if_block")
               IN  gs' = g \/ \E s, base : StartHandler(g, s, base)
    BY <1>9 DEF RanHandling
  <2>2. PICK b : LET g == AddErrorIf(b, gs, ".unfinished_if_block")
                 IN  gs' = g \/ \E s, base : StartHandler(g, s, base)
    BY <2>1
  <2> DEFINE g == AddErrorIf(b, gs, ".unfinished_if_block")
  <2>3. Waiting(gs, g) /\ Signed(g)
    BY WaitingAddIf DEF Waiting
  <2>4. gs' = g \/ \E s, base : StartHandler(g, s, base)
    BY <2>2
  <2> HIDE DEF g
  <2> QED BY <2>3, <2>4, WaitingStart, WaitingOn
<1>10. CASE RanIfExists
  <2>1. StartHandler(gs, Popped, Top.base) \/ gs' = DestroyList(gs, Top.base)
    BY <1>10 DEF RanIfExists
  <2> QED BY <2>1, WaitingStart, WaitingReset
<1> QED BY <1>1, <1>2, <1>3, <1>4, <1>5, <1>6, <1>7, <1>8, <1>9, <1>10

LEMMA WaitingBuiltins ==
  ASSUME Signed(gs),
         \/ Throw \/ Exit \/ Replace \/ CollectUndefined \/ CollectRun
         \/ Try \/ CatchNext \/ CatchReturned
         \/ WhileTest \/ WhileTested \/ ForNext \/ EnterStepwise
         \/ StepwiseRun \/ LoopReturned \/ Store \/ Stored
         \/ EnterIf \/ IfCore \/ IfTested \/ IfReturned
  PROVE  Waiting(gs, gs')
<1>1. CASE Throw \/ Exit \/ Replace \/ EnterStepwise \/ Stored
  <2>1. \/ gs' = gs \/ \E name : gs' = AddError(gs, name)
        \/ gs' = RequestExit(gs) \/ gs' = ReplaceError(gs, Top.cmd.name)
    BY <1>1 DEF Throw, Exit, Replace, EnterStepwise, Stored, Finish
  <2> QED BY <2>1, WaitingSelf, WaitingAdd, WaitingExit
<1>2. CASE CollectUndefined
  <2>1. gs' = AddError(DestroyList(gs, Top.mark), ".undefined_variable")
    BY <1>2 DEF CollectUndefined
  <2>2. Waiting(gs, DestroyList(gs, Top.mark))
    BY WaitingReset
  <2> QED BY <2>1, <2>2, WaitingAdd, WaitingOn DEF Waiting
<1>3. CASE \/ CollectRun \/ Try \/ WhileTest \/ ForNext \/ StepwiseRun \/ Store
  <2>1. gs' = gs \/ (\E s, c : Run(gs, s, c)) \/ (\E s, c : Call(gs, s, c))
    BY <1>3 DEF CollectRun, Try, WhileTest, ForNext, StepwiseRun, Store
  <2> QED BY <2>1, WaitingRun, WaitingCall, WaitingSelf
<1>4. CASE CatchNext
  <2> DEFINE g == [gs EXCEPT !.inHandler = TRUE, !.unwind = FALSE]
  <2>1. \E s, c : Run(g, s, c)
    BY <1>4 DEF CatchNext
  <2>2. Waiting(gs, g) /\ Signed(g)
    BY WaitingSelf DEF Waiting
  <2> HIDE DEF g
  <2> QED BY <2>1, <2>2, WaitingRun, WaitingOn
<1>5. CASE CatchReturned
  <2> DEFINE g == [gs EXCEPT !.inHandler = FALSE]
  <2>1. gs' = g \/ gs' = RemoveError(g, Top.focus)
    BY <1>5 DEF CatchReturned
  <2>2. Waiting(gs, g) /\ Signed(g)
    BY DEF Waiting, Signed
  <2> HIDE DEF g
  <2> QED BY <2>1, <2>2, WaitingErased, WaitingOn
<1>6. CASE WhileTested \/ IfTested
  <2> DEFINE h == RemoveExceptions(gs, Top.base, ".false")
  <2>1. \/ gs' = h \/ gs' = AddError(h, ".bad_if_nest")
        \/ \E s, c : Call(h, s, c)
    BY <1>6 DEF WhileTested, IfTested, IfThrows, AfterCondition
  <2>2. Waiting(gs, h) /\ Signed(h)
    BY WaitingTaken DEF Waiting
  <2> HIDE DEF h
  <2> QED BY <2>1, <2>2, WaitingCall, WaitingAdd, WaitingOn
<1>7. CASE LoopReturned
  <2> DEFINE g == RemoveExceptions(gs, Top.base, ".continue")
  <2>1. gs' = RemoveExceptions(g, Top.base, ".break")
    BY <1>7 DEF LoopReturned
  <2>2. Waiting(gs, g) /\ Signed(g)
    BY WaitingTaken DEF Waiting
  <2> HIDE DEF g
  <2> QED BY <2>1, <2>2, WaitingTaken, WaitingOn
<1>8. CASE EnterIf \/ IfCore \/ IfReturned
  <2>1. \/ gs' = gs \/ \E name : gs' = AddError(gs, name)
        \/ \E s, c : Run(gs, s, c)
        \/ \E s, c : Call(gs, s, c)
    BY <1>8 DEF EnterIf, IfCore, IfReturned, IfThrows
  <2> QED BY <2>1, WaitingRun, WaitingCall, WaitingSelf, WaitingAdd
<1> QED BY <1>1, <1>2, <1>3, <1>4, <1>5, <1>6, <1>7, <1>8

LEMMA WaitingShell ==
  ASSUME Signed(gs),
         \/ GetlineEnd \/ GetlineUnclosed \/ GetlineIncomplete
         \/ GetlineMalformed \/ GetlineComplete \/ EnterSource
         \/ MainInit \/ MainPrompt \/ MainGot \/ MainInterpreted
         \/ MainRun \/ MainAfter \/ MainShutdown \/ MainGlobals
  PROVE  Waiting(gs, gs')
<1> DEFINE r == Reset(gs, Top.base)
<1>1. Waiting(gs, r) /\ Signed(r)
  BY WaitingReset DEF Waiting
<1>2. CASE GetlineUnclosed \/ EnterSource
  <2>1. gs' = gs \/ \E name : gs' = AddError(gs, name)
    BY <1>2 DEF GetlineUnclosed, EnterSource
  <2> QED BY <2>1, WaitingSelf, WaitingAdd
<1>3. CASE GetlineEnd \/ GetlineComplete
  <2>1. gs' = r \/ \E s, what, base, c : RunHandling(r, s, what, base, c)
    BY <1>3 DEF GetlineEnd, GetlineComplete
  <2> HIDE DEF r
  <2> QED BY <1>1, <2>1, WaitingHandling, WaitingOn
<1>4. CASE GetlineIncomplete
  <2> DEFINE a == AddError(r, ".unclosed_brace")
  <2>1. gs' = RemoveExceptions(a, Top.base, ".unclosed_brace")
    BY <1>4 DEF GetlineIncomplete
  <2> HIDE DEF r
  <2>2. Waiting(r, a) /\ Signed(a)
    BY <1>1, WaitingAdd DEF Waiting
  <2> HIDE DEF a
  <2> QED BY <1>1, <2>1, <2>2, WaitingTaken, WaitingOn
<1>5. CASE GetlineMalformed
  <2> DEFINE a == AddError(r, ".mismatched_brace")
  <2>1. \E s, c : CatchOne(a, s, c)
    BY <1>5 DEF GetlineMalformed
  <2> HIDE DEF r
  <2>2. Waiting(r, a) /\ Signed(a)
    BY <1>1, WaitingAdd DEF Waiting
  <2> HIDE DEF a
  <2> QED BY <1>1, <2>1, <2>2, WaitingCatchOne, WaitingOn
<1>6. CASE MainGlobals
  <2> DEFINE a == AddError(gs, ".unused_variable")
  <2>1. gs' = gs \/ \E s, base : StartHandler(a, s, base)
    BY <1>6 DEF MainGlobals
  <2>2. Waiting(gs, a) /\ Signed(a)
    BY WaitingAdd DEF Waiting
  <2> HIDE DEF a
  <2>3. CASE \E s, base : StartHandler(a, s, base)
    BY <2>2, <2>3, WaitingStart, WaitingOn
  <2> QED BY <2>1, <2>3, WaitingSelf
<1>7. CASE \/ MainInit \/ MainPrompt \/ MainGot \/ MainInterpreted \/ MainRun
           \/ MainAfter \/ MainShutdown
  <2>1. \/ gs' = gs
        \/ \E s, what, base, c : RunHandling(gs, s, what, base, c)
        \/ \E s, base : StartHandler(gs, s, base)
        \/ \E s, name : RunIfExists(gs, s, name)
    BY <1>7 DEF MainInit, MainPrompt, MainGot, MainInterpreted, MainRun, MainAfter,
       MainShutdown
  <2> QED BY <2>1, WaitingHandling, WaitingStart, WaitingIfExists, WaitingSelf
<1> QED BY <1>2, <1>3, <1>4, <1>5, <1>6, <1>7

\* Only signals that may arrive are ever waiting.
LEMMA SignalNext ==
  ASSUME ShellInvariant, [Next]_vars, gs.signal \in Signals \cup {NoSignal}
  PROVE  gs'.signal \in Signals \cup {NoSignal}
<1>1. Signed(gs)
  BY DEF ShellInvariant, StackOK, CallStacks, Signed
<1>2. CASE Waiting(gs, gs')
  BY <1>2 DEF Waiting
<1>3. CASE CatchSignal
  BY <1>1, <1>3 DEF CatchSignal, Signed
<1>4. CASE Return
  <2> DEFINE g == [gs EXCEPT !.nesting = @ - 1]
             h == [g EXCEPT !.signal = NoSignal]
  <2>1. gs' = g \/ Run(h, Calling("signal"), CallOf(g.signal))
    BY <1>4 DEF Return
  <2>2. g.signal = gs.signal /\ h.signal = NoSignal /\ Signed(h)
    BY <1>1 DEF Signed
  <2> HIDE DEF g, h
  <2> QED BY <2>1, <2>2, WaitingRun DEF Waiting
<1>5. CASE StepwiseAborts
  BY <1>5 DEF StepwiseAborts, Abort, InitialCallStack
<1>6. CASE InterpreterNext
  BY <1>1, <1>2, <1>3, <1>4, <1>6, WaitingSilent, WaitingExecutables DEF InterpreterNext
<1>7. CASE ControlFlowNext
  BY <1>1, <1>2, <1>5, <1>7, WaitingSilent, WaitingBuiltins DEF ControlFlowNext
<1>8. CASE ShellNext
  BY <1>1, <1>2, <1>8, WaitingSilent, WaitingShell DEF ShellNext
<1>9. CASE UNCHANGED vars
  BY <1>1, <1>2, <1>9, WaitingSilent
<1> QED BY <1>6, <1>7, <1>8, <1>9 DEF Next

\* Nothing else is thrown than what the shell and its scripts throw.
LEMMA NamedNext ==
  ASSUME ShellInvariant, Origins(gs, inAuto, stack), Named(gs), [Next]_vars
  PROVE  Named(gs')
<1> DEFINE All == Ordinary \cup Excesses
<1>1. gs'.signal \in Signals \cup {NoSignal}
  BY SignalNext DEF Named
<1>2. gs \in CallStacks /\ gs.errors \in Seq(Names) /\ Len(gs.errors) \in Nat
  BY SparingFrom, CallStackErrors
<1>3. \A p \in 1 .. Len(gs.errors) : gs.errors[p] \in All
  BY DEF Named
<1> HIDE DEF All
<1>4. ASSUME NEW x \in All, gs'.errors = Append(gs.errors, x)
      PROVE  \A p \in 1 .. Len(gs'.errors) : gs'.errors[p] \in All
  <2> DEFINE n == Len(gs.errors)
             e == gs.errors
  <2>1. /\ Len(Append(e, x)) = n + 1 /\ Append(e, x)[n + 1] = x
        /\ \A p \in 1 .. n : Append(e, x)[p] = e[p]
    BY <1>2
  <2>2. \A p \in 1 .. n + 1 : p \in 1 .. n \/ p = n + 1
    BY <1>2
  <2> QED BY <1>3, <1>4, <2>1, <2>2
<1>5. \A p \in 1 .. Len(gs'.errors) : gs'.errors[p] \in All
  <2>1. CASE ~Reporting
    <3>1. Sparing(gs, gs')
      BY <2>1, SparingStep
    <3>2. \A p \in 1 .. Len(gs'.errors) :
            gs'.errors[p] \in Ordinary \/ Among(gs.errors, gs'.errors[p])
      BY <3>1 DEF Sparing, Spares
    <3> QED BY <1>3, <3>2 DEF Among, All
  <2>2. CASE CollectExcess
    <3>1. gs'.errors = gs.errors \/ gs'.errors = Append(gs.errors, Excess)
      BY <1>2, <2>2 DEF CollectExcess, AddErrorIf, AddError, CallStacks, Excess
    <3>2. Excess \in All
      BY DEF All, Excesses
    <3> QED BY <1>3, <1>4, <3>1, <3>2
  <2>3. CASE CatchExcess
    <3> DEFINE x == ".excessive_exceptions_in_catch"
    <3>1. gs'.errors = gs.errors \/ gs'.errors = Append(gs.errors, x)
      BY <1>2, <2>3 DEF CatchExcess, Finish, AddErrorIf, AddError, CallStacks
    <3>2. x \in All
      BY DEF All, Excesses
    <3> QED BY <1>3, <1>4, <3>1, <3>2
  <2>4. CASE HandlersDone
    BY <1>2, <1>3, <2>4 DEF HandlersDone, CallStacks
  <2>5. CASE StepwiseAborts
    <3>1. Len(gs'.errors) = 0
      BY <2>5 DEF StepwiseAborts, Abort, InitialCallStack
    <3> QED BY <3>1
  <2> QED BY <2>1, <2>2, <2>3, <2>4, <2>5 DEF Reporting
<1> QED BY <1>1, <1>5 DEF Named, All

\* What the stack is made of, as activations come and go.
Orderly(s) == s \in Seq(Frames) /\ Attended(s)
HarmlessAll == \A name \in Unattended : Harmless(name)

LEMMA AttendedPush ==
  ASSUME NEW t, Orderly(t), NEW f \in Frames, Passive(f) \/ LookedAfter(t, Len(t) + 1)
  PROVE  Orderly(Append(t, f))
<1> DEFINE u == Append(t, f)
           m == Len(t)
<1>1. /\ u \in Seq(Frames) /\ Len(u) = m + 1 /\ m \in Nat /\ u[m + 1] = f
      /\ \A i \in 1 .. m : u[i] = t[i]
  BY Pushed DEF Orderly
<1>2. Passive(f) \/ LookedAfter(t, m + 1)
  OBVIOUS
<1>3. \A i \in 1 .. m : AttendedAt(t, i)
  BY DEF Orderly, Attended
<1> HIDE DEF u, m
<1>4. ASSUME NEW i \in 1 .. m + 1, LookedAfter(t, i) PROVE LookedAfter(u, i)
  <2>1. PICK j \in 1 .. i - 1 : t[j].what = "base_run"
    BY <1>4 DEF LookedAfter
  <2>2. j \in 1 .. m
    BY <1>1
  <2> QED BY <1>1, <2>1, <2>2 DEF LookedAfter
<1>5. ASSUME NEW i \in 1 .. m + 1 PROVE AttendedAt(u, i)
  <2>1. i \in 1 .. m \/ i = m + 1
    BY <1>1
  <2>2. CASE i \in 1 .. m
    BY <1>1, <1>3, <1>4, <2>2 DEF AttendedAt
  <2>3. CASE i = m + 1
    BY <1>1, <1>2, <1>4, <2>3 DEF AttendedAt
  <2> QED BY <2>1, <2>2, <2>3
<1>6. Orderly(u)
  BY <1>1, <1>5 DEF Orderly, Attended
<1> QED BY <1>6 DEF u

LEMMA AttendedSet ==
  ASSUME Orderly(stack), Len(stack) \in Nat \ {0}, NEW f \in Frames, Passive(f)
  PROVE  Orderly(SetTop(f)) /\ Len(SetTop(f)) = Len(stack)
<1> DEFINE u == SetTop(f)
           n == Len(stack)
<1>1. /\ u \in Seq(Frames) /\ Len(u) = n /\ n \in Nat \ {0} /\ u[n] = f
      /\ \A i \in 1 .. n - 1 : u[i] = stack[i]
  BY Replaced DEF Orderly, SetTop
<1>3. \A i \in 1 .. n : AttendedAt(stack, i)
  BY DEF Orderly, Attended
<1> HIDE DEF u, n
<1>5. ASSUME NEW i \in 1 .. n PROVE AttendedAt(u, i)
  <2>1. i \in 1 .. n - 1 \/ i = n
    BY <1>1
  <2>2. CASE i \in 1 .. n - 1
    <3>1. \A j \in 1 .. i - 1 : u[j] = stack[j]
      BY <1>1, <2>2
    <3> QED BY <1>1, <1>3, <2>2, <3>1 DEF AttendedAt, LookedAfter
  <2>3. CASE i = n
    BY <1>1, <2>3 DEF AttendedAt
  <2> QED BY <2>1, <2>2, <2>3
<1>6. Orderly(u)
  BY <1>1, <1>5 DEF Orderly, Attended
<1> QED BY <1>1, <1>6 DEF u, n

LEMMA AttendedPop ==
  ASSUME Orderly(stack), Len(stack) > 1
  PROVE  Orderly(Popped)
<1> DEFINE u == Popped
           n == Len(stack)
<1>1. /\ u \in Seq(Frames) /\ Len(u) = n - 1 /\ n \in Nat
      /\ \A i \in 1 .. n - 1 : u[i] = stack[i]
  BY Shortened DEF Orderly, Popped
<1>3. \A i \in 1 .. n : AttendedAt(stack, i)
  BY DEF Orderly, Attended
<1> HIDE DEF u, n
<1>5. ASSUME NEW i \in 1 .. n - 1 PROVE AttendedAt(u, i)
  <2>1. \A j \in 1 .. i - 1 : u[j] = stack[j]
    BY <1>1
  <2> QED BY <1>1, <1>3, <2>1 DEF AttendedAt, LookedAfter
<1>6. Orderly(u)
  BY <1>1, <1>5 DEF Orderly, Attended
<1> QED BY <1>6 DEF u

\* Whatever is put on a stack in which a base_run waits.
LEMMA AttendedOver ==
  ASSUME NEW t, Orderly(t), LookedAfter(t, Len(t) + 1),
         NEW u \in Seq(Frames), Upon(u, t)
  PROVE  Orderly(u)
<1>1. PICK j \in 1 .. Len(t) : t[j].what = "base_run"
  <2>1. Len(t) \in Nat
    BY DEF Orderly
  <2>2. PICK j \in 1 .. Len(t) + 1 - 1 : t[j].what = "base_run"
    BY DEF LookedAfter
  <2> QED BY <2>1, <2>2
<1> DEFINE m == Len(t)
           k == Len(u)
<1>2. /\ m \in Nat /\ k \in Nat /\ k >= m
      /\ \A i \in 1 .. m : u[i] = t[i]
  BY DEF Orderly, Upon
<1>3. \A i \in 1 .. m : AttendedAt(t, i)
  BY DEF Orderly, Attended
<1>4. j \in 1 .. m
  OBVIOUS
<1> HIDE DEF m, k
<1>5. ASSUME NEW i \in 1 .. k PROVE AttendedAt(u, i)
  <2>1. i \in 1 .. m \/ i > m
    BY <1>2
  <2>2. CASE i \in 1 .. m
    <3>1. \A l \in 1 .. i - 1 : u[l] = t[l]
      BY <1>2, <2>2
    <3> QED BY <1>2, <1>3, <2>2, <3>1 DEF AttendedAt, LookedAfter
  <2>3. CASE i > m
    <3>1. j \in 1 .. i - 1 /\ u[j].what = "base_run"
      BY <1>1, <1>2, <1>4, <2>3
    <3> QED BY <3>1 DEF AttendedAt, LookedAfter
  <2> QED BY <2>1, <2>2, <2>3
<1> QED BY <1>5 DEF Orderly, Attended, k

\* The executables that run unattended do nothing, and no others are found.
LEMMA HarmlessCall ==
  ASSUME NEW t, Orderly(t), NEW g \in CallStacks, NEW name \in Quiet,
         name \in Names, Call(g, t, CallOf(name))
  PROVE  Orderly(stack')
<1> DEFINE c == CallOf(name)
           f == Frame(c.what, "enter", c, Len(gs'.errors))
<1>1. stack' = t \/ stack' = Append(t, f)
  BY CallEffect DEF Entered
<1>2. gs' \in CallStacks
  BY CallEffect DEF Grows
<1>3. c \in Statements /\ c.what = "call" /\ c.name = name
  BY StatementsTyped DEF CallOf, Command
<1> HIDE DEF c
<1>4. f \in Frames /\ f.what = "call" /\ f.pc = "enter"
  BY <1>2, <1>3, EnteredFrame
<1>5. f.cmd = c
  BY DEF Frame
<1> HIDE DEF f
<1>6. Passive(f)
  BY <1>3, <1>4, <1>5 DEF Passive
<1> QED BY <1>1, <1>4, <1>6, AttendedPush

LEMMA HarmlessRun ==
  ASSUME HarmlessAll, NEW t, Orderly(t), NEW g \in CallStacks,
         NEW name \in Unattended, name \in Names, Run(g, t, CallOf(name))
  PROVE  Orderly(stack')
<1> DEFINE c == CallOf(name)
<1>1. c.what = "call" /\ c.name = name
  BY DEF CallOf, Command
<1>2. CASE name \in Quiet
  <2>1. name \in Defined
    BY <1>2 DEF Defined
  <2>2. Call(g, t, c)
    BY <1>1, <2>1 DEF Run
  <2> QED BY <1>2, <2>2, HarmlessCall
<1>3. CASE name \notin Defined /\ ".autofunction" \notin Defined
  <2>1. stack' = t
    BY <1>1, <1>3 DEF Run
  <2> QED BY <2>1
<1> QED BY <1>2, <1>3 DEF HarmlessAll, Harmless

LEMMA HarmlessIfExists ==
  ASSUME HarmlessAll, NEW t, Orderly(t), NEW g \in CallStacks,
         NEW name \in Unattended, name \in Names, RunIfExists(g, t, name)
  PROVE  Orderly(stack')
<1> DEFINE c == CallOf(name)
           f == Frame("run_if_exists", "ran", c, Len(g.errors))
<1>1. CASE name \notin Defined
  BY <1>1 DEF RunIfExists
<1>2. CASE name \in Defined
  <2>1. name \in Quiet
    BY <1>2 DEF HarmlessAll, Harmless
  <2>2. Call(g, Append(t, f), c)
    BY <1>2 DEF RunIfExists
  <2>3. c \in Statements
    BY StatementsTyped
  <2>4. f \in Frames /\ f.what = "run_if_exists"
    <3> HIDE DEF c
    <3> QED BY <2>3, HelperFrame
  <2> HIDE DEF f
  <2>5. Orderly(Append(t, f))
    BY <2>4, AttendedPush DEF Passive, Cleaning
  <2> QED BY <2>1, <2>2, <2>5, HarmlessCall
<1> QED BY <1>1, <1>2

LEMMA HarmlessCatchOne ==
  ASSUME HarmlessAll, NEW t, Orderly(t), NEW g \in CallStacks,
         NEW name \in Unattended, name \in Names, CatchOne(g, t, CallOf(name))
  PROVE  Orderly(stack')
<1> DEFINE c == CallOf(name)
           f == Frame("catch_one", "ran", c, Len(g.errors))
           h == [g EXCEPT !.inHandler = TRUE, !.unwind = FALSE]
<1>1. Run(h, Append(t, f), c)
  BY DEF CatchOne
<1>2. h \in CallStacks
  BY DEF CallStacks
<1>3. c \in Statements
  BY StatementsTyped
<1>4. f \in Frames /\ f.what = "catch_one"
  <2> HIDE DEF c
  <2> QED BY <1>3, HelperFrame
<1> HIDE DEF f, h
<1>5. Orderly(Append(t, f))
  BY <1>4, AttendedPush DEF Passive, Cleaning
<1> QED BY <1>1, <1>2, <1>5, HarmlessRun

LEMMA HarmlessHandling ==
  ASSUME HarmlessAll, NEW t, Orderly(t), NEW g \in CallStacks, NEW base \in Nat,
         NEW name \in Unattended, name \in Names,
         RunHandling(g, t, "run_handling", base, CallOf(name))
  PROVE  Orderly(stack')
<1> DEFINE c == CallOf(name)
           f == [Frame("run_handling", "ran", c, base) EXCEPT !.mark = Len(g.errors)]
<1>1. Run(g, Append(t, f), c)
  BY DEF RunHandling
<1>2. c \in Statements /\ Len(g.errors) \in Nat
  BY StatementsTyped, CallStackErrors
<1>3. f \in Frames /\ f.what = "run_handling"
  <2> HIDE DEF c
  <2> QED BY <1>2, HandlingFrame
<1> HIDE DEF f
<1>4. Orderly(Append(t, f))
  BY <1>3, AttendedPush DEF Passive, Cleaning
<1> QED BY <1>1, <1>4, HarmlessRun

\* base_run may run whatever it likes.
LEMMA BaseRunAttended ==
  ASSUME ShellInvariant', NEW t, Orderly(t), NEW g \in CallStacks, NEW base \in Nat,
         NEW c \in Statements, RunHandling(g, t, "base_run", base, c)
  PROVE  Orderly(stack')
<1> DEFINE f == [Frame("base_run", "ran", c, base) EXCEPT !.mark = Len(g.errors)]
           u == Append(t, f)
<1>1. Run(g, u, c)
  BY DEF RunHandling
<1>2. Len(g.errors) \in Nat /\ t \in Seq(Frames)
  BY CallStackErrors DEF Orderly
<1>3. f \in Frames /\ f.what = "base_run"
  BY <1>2, HandlingFrame
<1> HIDE DEF f
<1>4. Orderly(u)
  BY <1>3, AttendedPush DEF Passive, Cleaning
<1>5. Len(u) = Len(t) + 1 /\ Len(t) \in Nat /\ u[Len(t) + 1] = f
  BY <1>2, <1>3, Pushed
<1> HIDE DEF u
<1>6. LookedAfter(u, Len(u) + 1)
  <2>1. Len(t) + 1 \in 1 .. Len(u) + 1 - 1
    BY <1>5
  <2> QED BY <1>3, <1>5, <2>1 DEF LookedAfter
<1>7. Continues(g, u, inAuto, gs', stack', inAuto')
  BY <1>1, RunContinues
<1>8. gs' \in CallStacks /\ stack' \in Seq(Frames)
  BY DEF ShellInvariant, StackOK
<1>9. Upon(stack', u)
  BY <1>4, <1>7, <1>8, ContinuesOver DEF Orderly
<1> QED BY <1>4, <1>6, <1>8, <1>9, AttendedOver

LEMMA StartAttended ==
  ASSUME NEW t, Orderly(t), NEW g, NEW base \in Nat, StartHandler(g, t, base)
  PROVE  Orderly(stack')
<1> DEFINE f == HandlerFrame(base)
<1>1. stack' = Append(t, f)
  BY DEF StartHandler
<1>2. f \in Frames /\ f.what = "handler"
  BY StartedFrame
<1> HIDE DEF f
<1> QED BY <1>1, <1>2, AttendedPush DEF Passive, Cleaning

\* The steps of the activations that run no statements.
RoutineSteps ==
  \/ HandleNext \/ HandlerReturned \/ HandlersDone
  \/ RanHandling \/ RanIfExists \/ CaughtOne
GetlineSteps ==
  \/ GetlineFails \/ GetlineEnd \/ GetlineUnclosed \/ GetlineIncomplete
  \/ GetlineMalformed \/ GetlineComplete
LoopSteps ==
  \/ MainInit \/ MainRegister \/ MainPrompt \/ MainGot \/ MainStatement
  \/ MainInterpreted \/ MainRun \/ MainAfter \/ MainShutdown \/ MainGlobals

LEMMA PassiveSteps ==
  ASSUME "substitution" \notin Faults, Passive(Top), [Next]_vars
  PROVE  \/ CatchSignal \/ UNCHANGED vars
         \/ Top.what = "call" /\ Top.cmd.name \in Quiet
            /\ (EnterFunction \/ Return \/ SignalHandled)
         \/ RoutineSteps
         \/ Top.what = "main" /\ (GetlineSteps \/ LoopSteps)
<1>1. Top.what # "source"
  BY DEF Passive, Cleaning
<1>2. CASE InterpreterNext
  <2>1. CASE Top.what = "call"
    <3>1. Top.cmd.name \in Quiet /\ Top.pc \in {"enter", "return", "signal"}
      BY <2>1 DEF Passive, Cleaning
    <3> QED BY <1>2, <2>1, <3>1 DEF InterpreterNext, SecondLookup,
       BadArguments, EnterBlock, NextStatement, Substitute, Substituted,
       UndefinedVariable, RunStatement, AfterStatement, UnusedVariables,
       RoutineSteps
  <2>2. CASE Top.what # "call"
    <3>1. Top.what \in Cleaning \cup {"main"} /\ Top.what \notin Kinds
      BY <2>2 DEF Passive, Cleaning, Kinds
    <3>2. ~EnterFunction /\ ~Return /\ ~SignalHandled /\ ~BadArguments
      BY <3>1 DEF EnterFunction, Return, SignalHandled, BadArguments, Cleaning
    <3>3. ~SecondLookup /\ ~Substitute /\ ~Substituted
      BY <3>1 DEF SecondLookup, Substitute, Substituted, Cleaning
    <3>4. /\ ~EnterBlock /\ ~NextStatement /\ ~UndefinedVariable /\ ~RunStatement
          /\ ~AfterStatement /\ ~UnusedVariables
      BY <3>1 DEF EnterBlock, NextStatement, UndefinedVariable, RunStatement,
         AfterStatement, UnusedVariables, Bodies, Checking, Cleaning
    <3> QED BY <1>2, <3>2, <3>3, <3>4 DEF InterpreterNext, RoutineSteps
  <2> QED BY <2>1, <2>2
<1>3. ~ControlFlowNext
  <2>1. Top.what \in {"call", "main"} \cup Cleaning
    BY DEF Passive
  <2> QED BY <2>1 DEF ControlFlowNext, Throw, Exit, Replace, EnterCollect,
     CollectNext, CollectExcess, CollectEnd, CollectUndefined, CollectRun, CollectRan,
     Try, TryReturned, CatchNext, CatchReturned, CatchExcess, CatchDone, WhileTest,
     WhileTested, ForNext, ForEnd, EnterStepwise, StepwiseAborts, StepwiseNext,
     StepwiseRun, LoopReturned, Loops, Store, Stored, EnterIf, IfCore, IfTested,
     IfReturned, IfKinds, Cleaning
<1>4. CASE ShellNext
  <2>1. ~EnterSource /\ ~SourceLine /\ ~SourceGot
    BY <1>1 DEF EnterSource, SourceLine, SourceGot
  <2>2. GetlineSteps => Top.what = "main"
    BY <1>1 DEF GetlineSteps, GetlineFails, GetlineEnd, GetlineUnclosed,
       GetlineIncomplete, GetlineMalformed, GetlineComplete, ReadingLine
  <2>3. LoopSteps => Top.what = "main"
    BY DEF LoopSteps, MainInit, MainRegister, MainPrompt, MainGot, MainStatement,
       MainInterpreted, MainRun, MainAfter, MainShutdown, MainGlobals
  <2> QED BY <1>4, <2>1, <2>2, <2>3 DEF ShellNext, GetlineSteps, LoopSteps
<1> QED BY <1>2, <1>3, <1>4 DEF Next

LEMMA AttendedQuiet ==
  ASSUME HarmlessAll, ShellInvariant, Origins(gs, inAuto, stack), Named(gs),
         Orderly(stack), Top.what = "call", Top.cmd.name \in Quiet,
         EnterFunction \/ Return \/ SignalHandled
  PROVE  Orderly(stack') /\ UNCHANGED gc
<1>1. /\ Top \in Frames /\ Len(stack) \in Nat \ {0} /\ Len(stack) > 1
      /\ gs \in CallStacks /\ Len(gs.errors) \in Nat
  <2>1. Top.what # "main"
    OBVIOUS
  <2> QED BY <2>1, TopOfOrigins DEF Origins
<1>2. UNCHANGED gc
  BY DEF EnterFunction, Return, SignalHandled
<1>3. CASE EnterFunction
  <2> DEFINE f == [Top EXCEPT !.pc = "return"]
  <2>1. stack' = SetTop(f)
    BY <1>3 DEF EnterFunction, Goto
  <2>2. /\ f \in Frames /\ f.what = "call" /\ f.cmd = Top.cmd /\ f.pc = "return"
    BY <1>1 DEF Frames, Places
  <2> HIDE DEF f
  <2>3. Passive(f)
    BY <2>2 DEF Passive
  <2> QED BY <1>1, <1>2, <2>1, <2>2, <2>3, AttendedSet
<1>4. CASE SignalHandled
  BY <1>1, <1>2, <1>4, AttendedPop DEF SignalHandled
<1>5. CASE Return
  <2> DEFINE f == [Top EXCEPT !.pc = "signal", !.mark = Len(gs.errors)]
             g == [gs EXCEPT !.nesting = @ - 1]
             h == [g EXCEPT !.signal = NoSignal]
  <2>1. \/ stack' = Popped
        \/ g.signal # NoSignal /\ Run(h, SetTop(f), CallOf(g.signal))
    BY <1>5 DEF Return, Calling
  <2>2. CASE stack' = Popped
    BY <1>1, <1>2, <2>2, AttendedPop
  <2>3. CASE g.signal # NoSignal /\ Run(h, SetTop(f), CallOf(g.signal))
    <3>1. /\ f \in Frames /\ f.what = "call" /\ f.cmd = Top.cmd /\ f.pc = "signal"
      BY <1>1 DEF Frames, Places
    <3>2. g \in CallStacks /\ g.signal = gs.signal
      <4>1. gs.nesting - 1 \in Int
        BY <1>1 DEF CallStacks
      <4> QED BY <1>1, <4>1 DEF CallStacks
    <3> HIDE DEF g, f
    <3>3. h \in CallStacks
      BY <3>2, NamesInUse DEF CallStacks
    <3>4. g.signal \in Unattended /\ g.signal \in Names
      BY <2>3, <3>2, NamesInUse DEF Named, Unattended
    <3> HIDE DEF h
    <3>5. Passive(f)
      BY <3>1 DEF Passive
    <3>6. Orderly(SetTop(f))
      BY <1>1, <3>1, <3>5, AttendedSet
    <3> QED BY <1>2, <2>3, <3>3, <3>4, <3>6, HarmlessRun
  <2> QED BY <2>1, <2>2, <2>3
<1> QED BY <1>3, <1>4, <1>5

LEMMA AttendedHandlers ==
  ASSUME HarmlessAll, ShellInvariant, ShellInvariant', Origins(gs, inAuto, stack),
         Named(gs), Orderly(stack), RoutineSteps
  PROVE  Orderly(stack') /\ (UNCHANGED gc \/ (Top.what = "base_run" /\ Closed(gc')))
<1>1. /\ Top \in Frames /\ Len(stack) \in Nat \ {0} /\ Len(stack) > 1
      /\ gs \in CallStacks /\ Len(gs.errors) \in Nat /\ Top.base \in Nat
  <2>1. Top.what # "main"
    BY DEF RoutineSteps, HandleNext, HandlerReturned, HandlersDone, RanHandling,
       RanIfExists, CaughtOne
  <2> QED BY <2>1, TopOfOrigins DEF Origins, Frames
<1>2. Orderly(Popped)
  BY <1>1, AttendedPop
<1>3. CASE HandlersDone \/ CaughtOne
  BY <1>2, <1>3 DEF HandlersDone, CaughtOne
<1>4. CASE RanIfExists
  <2>1. stack' = Popped \/ StartHandler(gs, Popped, Top.base)
    BY <1>4 DEF RanIfExists
  <2>2. UNCHANGED gc
    BY <1>4 DEF RanIfExists
  <2> QED BY <1>1, <1>2, <2>1, <2>2, StartAttended
<1>5. CASE RanHandling
  <2>1. stack' = Popped \/ \E g : StartHandler(g, Popped, Top.base)
    BY <1>5 DEF RanHandling
  <2>2. UNCHANGED gc \/ (Top.what = "base_run" /\ Closed(gc'))
    <3>1. gc \in Conditionals
      BY DEF ShellInvariant
    <3>2. gc' = [gc EXCEPT !.in_if =
                   @ /\ ~(Top.what = "base_run" /\ gc.in_if /\ ~gc.thrown)]
      BY <1>5 DEF RanHandling
    <3>3. CASE Top.what = "base_run"
      <4>1. gc'.in_if = (gc.in_if /\ ~(gc.in_if /\ ~gc.thrown)) /\ gc'.thrown = gc.thrown
        BY <3>1, <3>2, <3>3 DEF Conditionals
      <4> QED BY <3>3, <4>1 DEF Closed
    <3>4. CASE Top.what # "base_run"
      <4>1. gc' = [gc EXCEPT !.in_if = @]
        BY <3>1, <3>2, <3>4 DEF Conditionals
      <4> QED BY <3>1, <4>1 DEF Conditionals
    <3> QED BY <3>3, <3>4
  <2> QED BY <1>1, <1>2, <2>1, <2>2, StartAttended
<1>6. CASE HandleNext
  <2> DEFINE n == Len(gs.errors)
             front == gs.errors[Top.base + 1]
             f == [Top EXCEPT !.pc = "ran", !.prev = gs.count,
                              !.stmt = CallOf(front), !.mark = n]
  <2>1. \/ stack' = stack
        \/ Run(gs, SetTop(f), CallOf(front))
    BY <1>6 DEF HandleNext
  <2>2. Top.what = "handler" /\ n > Top.base /\ UNCHANGED gc
    BY <1>6 DEF HandleNext
  <2>3. front \in Names /\ front \in Unattended
    <3>1. Top.base + 1 \in 1 .. n
      BY <1>1, <2>2
    <3> QED BY <1>1, <3>1, CallStackErrors DEF Named, Unattended
  <2>4. CallOf(front) \in CommandType /\ gs.count \in Nat
    BY <1>1, <2>3, StatementsTyped, LimitsAssumption DEF CallStacks
  <2> HIDE DEF front, n
  <2>5. f \in Frames /\ f.what = "handler"
    <3>1. n \in Nat
      BY <1>1 DEF n
    <3> QED BY <1>1, <2>2, <2>4, <3>1 DEF Frames, Places
  <2> HIDE DEF f
  <2>6. Orderly(SetTop(f))
    BY <1>1, <2>5, AttendedSet DEF Passive, Cleaning
  <2> QED BY <1>1, <2>1, <2>2, <2>3, <2>6, HarmlessRun
<1>7. CASE HandlerReturned
  <2>1. PICK S : /\ Top.what = "handler" /\ UNCHANGED gc
                 /\ stack' = SetTop([Top EXCEPT !.pc = "next", !.failed = S])
    BY <1>7 DEF HandlerReturned
  <2> DEFINE f == [Top EXCEPT !.pc = "next", !.failed = S]
  <2>2. f \in Frames
    BY <2>1, SetFrame
  <2>3. f.what = "handler" /\ stack' = SetTop(f)
    BY <1>1, <2>1 DEF Frames
  <2> HIDE DEF f
  <2> QED BY <1>1, <2>1, <2>2, <2>3, AttendedSet DEF Passive, Cleaning
<1> QED BY <1>3, <1>4, <1>5, <1>6, <1>7 DEF RoutineSteps

\* main while it reads and between its calls.
LEMMA MainFrames ==
  ASSUME ShellInvariant, Origins(gs, inAuto, stack), Orderly(stack), Top.what = "main"
  PROVE  /\ gs \in CallStacks /\ Len(gs.errors) \in Nat /\ Top \in Frames
         /\ Top.base \in Nat /\ Top.base \in 0 .. Len(gs.errors)
         /\ Top.stmt \in Statements
         /\ \A pc \in Places : Orderly(Goto(pc))
         /\ \A f \in Frames : f.what = "main" => Orderly(SetTop(f))
<1>1. /\ Top \in Frames /\ Len(stack) \in Nat \ {0} /\ gs \in CallStacks
      /\ Len(gs.errors) \in Nat /\ Top.base \in Nat /\ Top.stmt \in Statements
  BY TopOfOrigins DEF Origins, Frames, FromScript
<1>2. Top.base \in 0 .. Len(gs.errors)
  BY TopOK DEF ShellInvariant
<1>3. ASSUME NEW f \in Frames, f.what = "main" PROVE Orderly(SetTop(f))
  BY <1>1, <1>3, AttendedSet DEF Passive
<1>4. ASSUME NEW pc \in Places PROVE Orderly(Goto(pc))
  <2> DEFINE f == [Top EXCEPT !.pc = pc]
  <2>1. f \in Frames /\ f.what = "main" /\ Goto(pc) = SetTop(f)
    BY <1>1 DEF Frames, Goto
  <2> HIDE DEF f
  <2> QED BY <1>3, <2>1
<1> QED BY <1>1, <1>2, <1>3, <1>4

LEMMA AttendedGetline ==
  ASSUME HarmlessAll, ShellInvariant, Origins(gs, inAuto, stack), Orderly(stack),
         Top.what = "main", GetlineSteps
  PROVE  Orderly(stack') /\ UNCHANGED gc
<1>1. /\ gs \in CallStacks /\ Len(gs.errors) \in Nat /\ Top \in Frames
      /\ Top.base \in Nat /\ Top.base \in 0 .. Len(gs.errors)
      /\ \A pc \in Places : Orderly(Goto(pc))
      /\ \A f \in Frames : f.what = "main" => Orderly(SetTop(f))
  BY MainFrames
<1>2. UNCHANGED gc
  BY DEF GetlineSteps, GetlineFails, GetlineEnd, GetlineUnclosed, GetlineIncomplete,
     GetlineMalformed, GetlineComplete
<1>3. /\ ".raw_command" \in Unattended /\ ".raw_command" \in Names
      /\ ".mismatched_brace" \in Names
      /\ RawCommand = CallOf(".raw_command")
  BY NamesInUse, ShellNames DEF Unattended, RawCommand, ShellExceptions
<1>4. "got" \in Places /\ "more" \in Places /\ "unclosed" \in Places
  BY ReaderPlaces
<1> DEFINE r == Reset(gs, Top.base)
<1>5. r \in CallStacks
  BY <1>1, ResetFields
<1>6. CASE GetlineFails \/ GetlineUnclosed \/ GetlineIncomplete
  <2>1. stack' = Goto("got") \/ stack' = Goto("more")
    BY <1>6 DEF GetlineFails, GetlineUnclosed, GetlineIncomplete
  <2> QED BY <1>1, <1>2, <1>4, <2>1
<1>7. CASE GetlineEnd
  <2> DEFINE f1 == [Top EXCEPT !.pc = "got", !.flag = TRUE]
             f2 == [Top EXCEPT !.pc = "unclosed", !.flag = TRUE]
  <2>1. \/ stack' = SetTop(f1)
        \/ RunHandling(r, SetTop(f2), "run_handling", Top.base, RawCommand)
    BY <1>7 DEF GetlineEnd
  <2>2. f1 \in Frames /\ f1.what = "main" /\ f2 \in Frames /\ f2.what = "main"
    BY <1>1, <1>4 DEF Frames
  <2> HIDE DEF f1, f2, r
  <2>3. Orderly(SetTop(f1)) /\ Orderly(SetTop(f2))
    BY <1>1, <2>2
  <2> QED BY <1>1, <1>2, <1>3, <1>5, <2>1, <2>3, HarmlessHandling
<1>8. CASE GetlineMalformed
  <2> DEFINE a == AddError(r, ".mismatched_brace")
  <2>1. CatchOne(a, Goto("got"), RawCommand)
    BY <1>8 DEF GetlineMalformed
  <2> HIDE DEF r
  <2>2. a \in CallStacks
    BY <1>3, <1>5, AddErrorType
  <2> HIDE DEF a
  <2>3. Orderly(Goto("got"))
    BY <1>1, <1>4
  <2> QED BY <1>2, <1>3, <2>1, <2>2, <2>3, HarmlessCatchOne
<1>9. CASE GetlineComplete
  <2>1. RunHandling(r, Goto("got"), "run_handling", Top.base, RawCommand)
    BY <1>9 DEF GetlineComplete
  <2> HIDE DEF r
  <2>2. Orderly(Goto("got"))
    BY <1>1, <1>4
  <2> QED BY <1>1, <1>2, <1>3, <1>5, <2>1, <2>2, HarmlessHandling
<1> QED BY <1>6, <1>7, <1>8, <1>9 DEF GetlineSteps

LEMMA AttendedMain ==
  ASSUME HarmlessAll, ShellInvariant, ShellInvariant', Origins(gs, inAuto, stack),
         Orderly(stack), Top.what = "main", LoopSteps
  PROVE  Orderly(stack') /\ UNCHANGED gc
<1>1. /\ gs \in CallStacks /\ Len(gs.errors) \in Nat /\ Top \in Frames
      /\ Top.base \in Nat /\ Top.stmt \in Statements
      /\ \A pc \in Places : Orderly(Goto(pc))
      /\ \A f \in Frames : f.what = "main" => Orderly(SetTop(f))
  BY MainFrames
<1>2. UNCHANGED gc
  BY DEF LoopSteps, MainInit, MainRegister, MainPrompt, MainGot, MainStatement,
     MainInterpreted, MainRun, MainAfter, MainShutdown, MainGlobals
<1>3. /\ {".before_command", ".run_logic", ".after_command"} \subseteq Unattended
      /\ {".before_command", ".run_logic", ".after_command"} \subseteq Names
      /\ \A name \in {".init", ".prompt", ".shutdown"} : CallOf(name) \in Statements
  BY NamesInUse, StatementsTyped DEF Unattended
<1>4. {"register", "prompt", "read", "shutdown", "statement", "before",
       "after", "globals", "done", "arguments"} \subseteq Places
  BY DEF Places
<1>5. CASE MainInit \/ MainPrompt \/ MainShutdown
  <2>1. \/ \E pc \in Places : stack' = Goto(pc)
        \/ \E pc \in Places, name \in {".init", ".prompt", ".shutdown"} :
             RunHandling(gs, Goto(pc), "base_run", Top.base, CallOf(name))
    BY <1>4, <1>5 DEF MainInit, MainPrompt, MainShutdown
  <2> QED BY <1>1, <1>2, <1>3, <2>1, BaseRunAttended
<1>6. CASE MainRegister
  BY <1>1, <1>2, <1>4, <1>6 DEF MainRegister
<1>7. CASE MainGot
  <2>1. \/ StartHandler(gs, Goto("prompt"), Top.base)
        \/ \E pc \in Places : stack' = Goto(pc)
    BY <1>4, <1>7 DEF MainGot
  <2> QED BY <1>1, <1>2, <1>4, <2>1, StartAttended
<1>8. CASE MainStatement
  <2>1. CASE stack' = Goto("prompt")
    BY <1>1, <1>2, <1>4, <2>1
  <2>2. ASSUME NEW c \in Commands,
               stack' = SetTop([Top EXCEPT !.pc = "arguments", !.stmt = c])
        PROVE  Orderly(stack')
    <3> DEFINE f == [Top EXCEPT !.pc = "arguments", !.stmt = c]
    <3>1. c \in CommandType
      BY InterpreterAssumption
    <3>2. f \in Frames /\ f.what = "main" /\ stack' = SetTop(f)
      BY <1>1, <1>4, <2>2, <3>1 DEF Frames
    <3> HIDE DEF f
    <3> QED BY <1>1, <3>2
  <2> QED BY <1>2, <1>8, <2>1, <2>2 DEF MainStatement
<1>9. CASE MainInterpreted
  <2>1. PICK u \in {FALSE} \cup {"undefined" \in Faults} :
          LET c == IF u THEN CallOf(".undefined_variable") ELSE Top.stmt
          IN  RunIfExists(gs, SetTop([Top EXCEPT !.pc = "before", !.stmt = c]),
                          ".before_command")
    BY <1>9 DEF MainInterpreted
  <2> DEFINE c == IF u THEN CallOf(".undefined_variable") ELSE Top.stmt
             f == [Top EXCEPT !.pc = "before", !.stmt = c]
  <2>2. c \in CommandType
    <3>1. ".undefined_variable" \in Names
      BY ShellNames DEF ShellExceptions
    <3>2. CallOf(".undefined_variable") \in Statements
      BY <3>1, StatementsTyped
    <3> QED BY <1>1, <3>2, StatementsTyped
  <2>3. RunIfExists(gs, SetTop(f), ".before_command")
    BY <2>1
  <2> HIDE DEF c
  <2>4. f \in Frames /\ f.what = "main"
    BY <1>1, <1>4, <2>2 DEF Frames
  <2> HIDE DEF f
  <2>5. Orderly(SetTop(f))
    BY <1>1, <2>4
  <2> QED BY <1>1, <1>2, <1>3, <2>3, <2>5, HarmlessIfExists
<1>10. CASE MainRun
  <2>1. \/ StartHandler(gs, Goto("after"), Top.base)
        \/ RunIfExists(gs, Goto("after"), ".run_logic")
        \/ RunHandling(gs, Goto("after"), "base_run", Top.base, Top.stmt)
    BY <1>10 DEF MainRun
  <2>2. Orderly(Goto("after"))
    BY <1>1, <1>4
  <2> QED BY <1>1, <1>2, <1>3, <2>1, <2>2, StartAttended, HarmlessIfExists, BaseRunAttended
<1>11. CASE MainAfter
  <2>1. RunIfExists(gs, Goto("statement"), ".after_command")
    BY <1>11 DEF MainAfter
  <2> QED BY <1>1, <1>2, <1>3, <1>4, <2>1, HarmlessIfExists
<1>12. CASE MainGlobals
  <2>1. \/ stack' = Goto("done")
        \/ \E g : StartHandler(g, Goto("done"), Len(gs.errors))
    BY <1>12 DEF MainGlobals
  <2> QED BY <1>1, <1>2, <1>4, <2>1, StartAttended
<1> QED BY <1>5, <1>6, <1>7, <1>8, <1>9, <1>10, <1>11, <1>12 DEF LoopSteps

\* Below a base_run that waits, everything may happen.
LEMMA AttendedDeep ==
  ASSUME ShellInvariant, ShellInvariant', Origins(gs, inAuto, stack),
         Orderly(stack), LookedAfter(stack, Len(stack)), [Next]_vars
  PROVE  Orderly(stack') /\ Chained(gc', stack')
<1> DEFINE n == Len(stack)
           t == stack'
           m == Len(stack')
<1>1. /\ stack \in Seq(Frames) /\ n \in Nat \ {0}
      /\ t \in Seq(Frames) /\ m \in Nat /\ \A i \in 1 .. n : AttendedAt(stack, i)
  BY DEF ShellInvariant, StackOK, Orderly, Attended
<1>2. PICK j \in 1 .. n - 1 : stack[j].what = "base_run"
  BY DEF LookedAfter
<1>3. CASE StepwiseAborts
  <2> DEFINE f == Frame("main", "aborted", Argfunction, 0)
  <2>1. t = << f >> /\ f.what = "main" /\ f.pc = "aborted"
    BY <1>3 DEF StepwiseAborts, Abort, Frame
  <2> HIDE DEF f
  <2>2. m = 1 /\ t[1] = f
    BY <2>1
  <2>3. \A i \in 1 .. m : i = 1
    BY <2>2
  <2>4. \A i \in 1 .. m : AttendedAt(t, i)
    BY <2>1, <2>2, <2>3 DEF AttendedAt, Passive
  <2> QED BY <1>1, <2>1, <2>2, <2>4 DEF Orderly, Attended, Chained
<1>4. CASE ~StepwiseAborts
  <2>1. m >= n - 1 /\ \A i \in 1 .. n - 1 : t[i] = stack[i]
    <3>1. CASE CollectNext
      <4>1. PICK f : t = SetTop(f)
        BY <3>1 DEF CollectNext
      <4>2. Len(SetTop(f)) = n /\ \A i \in 1 .. n - 1 : SetTop(f)[i] = stack[i]
        BY <1>1 DEF SetTop
      <4> QED BY <1>1, <4>1, <4>2
    <3>2. CASE ~CollectNext
      <4>1. Layered(t)
        BY <1>4, <3>2, Layers
      <4>2. /\ m >= n - 1
            /\ \A i \in 1 .. m : LayerAt(t, i)
        BY <4>1 DEF Layered
      <4> HIDE DEF t
      <4>3. ASSUME NEW i \in 1 .. n - 1 PROVE t[i] = stack[i]
        <5>1. LayerAt(t, i) /\ i < n /\ ~(i >= n) /\ i # n /\ i # n + 1
          BY <1>1, <4>2
        <5> QED BY <5>1 DEF LayerAt
      <4> QED BY <4>2, <4>3
    <3> QED BY <3>1, <3>2
  <2> HIDE DEF t, m, n
  <2>2. ASSUME NEW i \in 1 .. m PROVE AttendedAt(t, i)
    <3>1. i \in 1 .. n - 1 \/ i >= n
      BY <1>1
    <3>2. CASE i \in 1 .. n - 1
      <4>1. \A l \in 1 .. i - 1 : t[l] = stack[l]
        BY <1>1, <2>1, <3>2
      <4>2. t[i] = stack[i] /\ AttendedAt(stack, i)
        BY <1>1, <2>1, <3>2
      <4> QED BY <4>1, <4>2 DEF AttendedAt, LookedAfter
    <3>3. CASE i >= n
      <4>1. j \in 1 .. i - 1 /\ t[j].what = "base_run"
        BY <1>1, <1>2, <2>1, <3>3
      <4> QED BY <4>1 DEF AttendedAt, LookedAfter
    <3> QED BY <3>1, <3>2, <3>3
  <2>3. ASSUME NEW k, k = m + 1 PROVE LookedAfter(t, k)
    <3>1. j \in 1 .. k - 1 /\ t[j].what = "base_run"
      BY <1>1, <1>2, <2>1, <2>3
    <3> QED BY <3>1 DEF LookedAfter
  <2>4. Orderly(t) /\ LookedAfter(t, m + 1)
    BY <1>1, <2>2, <2>3 DEF Orderly, Attended, m, t
  <2> QED BY <2>4 DEF t, m, Chained
<1> QED BY <1>3, <1>4

\* With no base_run below it, only what runs no statements is on top.
LEMMA AttendedShallow ==
  ASSUME HarmlessAll, "substitution" \notin Faults,
         ShellInvariant, ShellInvariant', Origins(gs, inAuto, stack), Named(gs),
         Orderly(stack), ~LookedAfter(stack, Len(stack)), [Next]_vars
  PROVE  /\ Orderly(stack')
         /\ \/ CatchSignal \/ UNCHANGED vars
            \/ Top.what = "base_run" /\ RanHandling /\ Closed(gc')
            \/ Top.what # "base_run" /\ UNCHANGED gc
<1>2. Passive(Top)
  <2>1. Top = stack[Len(stack)] /\ Len(stack) \in 1 .. Len(stack)
    BY TopOfOrigins DEF Origins
  <2>2. AttendedAt(stack, Len(stack))
    BY <2>1 DEF Orderly, Attended
  <2> QED BY <2>1, <2>2 DEF AttendedAt
<1>3. CASE CatchSignal \/ UNCHANGED vars
  BY <1>3 DEF CatchSignal, vars
<1>4. CASE /\ Top.what = "call" /\ Top.cmd.name \in Quiet
           /\ (EnterFunction \/ Return \/ SignalHandled)
  BY <1>4, AttendedQuiet
<1>5. CASE RoutineSteps
  <2>1. Orderly(stack') /\ (UNCHANGED gc \/ (Top.what = "base_run" /\ Closed(gc')))
    BY <1>5, AttendedHandlers
  <2>2. CASE Top.what = "base_run"
    <3>1. RanHandling
      BY <1>5, <2>2 DEF RoutineSteps, HandleNext, HandlerReturned, HandlersDone,
         RanIfExists, CaughtOne
    <3>2. gc \in Conditionals
      BY DEF ShellInvariant
    <3>3. gc' = [gc EXCEPT !.in_if =
                   @ /\ ~(Top.what = "base_run" /\ gc.in_if /\ ~gc.thrown)]
      BY <3>1 DEF RanHandling
    <3>4. gc'.in_if = (gc.in_if /\ ~(gc.in_if /\ ~gc.thrown)) /\ gc'.thrown = gc.thrown
      BY <2>2, <3>2, <3>3 DEF Conditionals
    <3> QED BY <2>1, <2>2, <3>1, <3>4 DEF Closed
  <2> QED BY <2>1, <2>2
<1>6. CASE Top.what = "main" /\ (GetlineSteps \/ LoopSteps)
  BY <1>6, AttendedGetline, AttendedMain
<1> QED BY <1>2, <1>3, <1>4, <1>5, <1>6, PassiveSteps

\* After std::abort nothing happens any more.
LEMMA MainAborted ==
  ASSUME ShellInvariant, Origins(gs, inAuto, stack), [Next]_vars,
         Len(stack) = 1, stack[1].pc = "aborted"
  PROVE  UNCHANGED vars
<1>1. Top = stack[1] /\ Top.what = "main" /\ Top.pc = "aborted"
  BY TopOfOrigins DEF Origins, Rooted
<1>2. ~InterpreterNext
  BY <1>1 DEF InterpreterNext, SecondLookup, Return, SignalHandled, CatchSignal,
     EnterFunction, BadArguments, EnterBlock, NextStatement, Substitute, Substituted,
     UndefinedVariable, RunStatement, AfterStatement, UnusedVariables, HandleNext,
     HandlerReturned, HandlersDone, RanHandling, RanIfExists, CaughtOne, Kinds,
     Bodies, Interpreting, Checking
<1>3. ~ControlFlowNext
  BY <1>1 DEF ControlFlowNext, Throw, Exit, Replace, EnterCollect, CollectNext,
     CollectExcess, CollectEnd, CollectUndefined, CollectRun, CollectRan, Try,
     TryReturned, CatchNext, CatchReturned, CatchExcess, CatchDone, WhileTest,
     WhileTested, ForNext, ForEnd, EnterStepwise, StepwiseAborts, StepwiseNext,
     StepwiseRun, LoopReturned, Loops, Store, Stored, EnterIf, IfCore, IfTested,
     IfReturned, IfKinds
<1>4. ~ShellNext
  BY <1>1 DEF ShellNext, ReadingLine, GetlineFails, GetlineEnd, GetlineUnclosed,
     GetlineIncomplete, GetlineMalformed, GetlineComplete, EnterSource, SourceLine,
     SourceGot, MainInit, MainRegister, MainPrompt, MainGot, MainStatement,
     MainInterpreted, MainRun, MainAfter, MainShutdown, MainGlobals
<1> QED BY <1>2, <1>3, <1>4 DEF Next

LEMMA ChainedNext ==
  ASSUME HarmlessAll, "substitution" \notin Faults,
         ShellInvariant, ShellInvariant', Origins(gs, inAuto, stack), Named(gs),
         Orderly(stack), Chained(gc, stack), [Next]_vars
  PROVE  Orderly(stack') /\ Chained(gc', stack')
<1>1. CASE LookedAfter(stack, Len(stack))
  BY <1>1, AttendedDeep
<1>2. CASE ~LookedAfter(stack, Len(stack))
  <2>1. /\ Orderly(stack')
        /\ \/ CatchSignal \/ UNCHANGED vars
           \/ Top.what = "base_run" /\ RanHandling /\ Closed(gc')
           \/ Top.what # "base_run" /\ UNCHANGED gc
    BY <1>2, AttendedShallow
  <2>2. CASE CatchSignal \/ UNCHANGED vars
    <3>1. UNCHANGED <<stack, gc>>
      BY <2>2 DEF CatchSignal, vars
    <3> QED BY <2>1, <3>1 DEF Chained
  <2>3. CASE Closed(gc')
    BY <2>1, <2>3 DEF Chained
  <2>4. CASE Top.what # "base_run" /\ UNCHANGED gc
    <3>1. CASE Closed(gc)
      BY <2>1, <2>4, <3>1 DEF Chained, Closed
    <3>2. CASE LookedAfter(stack, Len(stack) + 1)
      <4>1. Top = stack[Len(stack)] /\ Len(stack) \in Nat \ {0}
        BY TopOfOrigins DEF Origins
      <4>2. PICK j \in 1 .. Len(stack) + 1 - 1 : stack[j].what = "base_run"
        BY <3>2 DEF LookedAfter
      <4>3. j = Len(stack) \/ j \in 1 .. Len(stack) - 1
        BY <4>1, <4>2
      <4> QED BY <1>2, <2>4, <4>1, <4>2, <4>3 DEF LookedAfter
    <3>3. CASE Len(stack) = 1 /\ stack[1].pc = "aborted"
      <4>1. UNCHANGED <<stack, gc>>
        BY <3>3, MainAborted DEF vars
      <4> QED BY <2>1, <4>1 DEF Chained
    <3> QED BY <3>1, <3>2, <3>3 DEF Chained
  <2> QED BY <2>1, <2>2, <2>3, <2>4
<1> QED BY <1>1, <1>2

\* The chains of a shell whose hooks and handlers, of exceptions and of signals,
\* do nothing.
Chains == Named(gs) /\ Orderly(stack) /\ Chained(gc, stack)

\* Whatever statements leave chains of .if open, and whatever is thrown in the
\* middle of them, no chain is open when main asks for the next command: in a
\* shell whose hooks and handlers do nothing all of them run below a base_run,
\* and that closes the chain when it is through (base_run, Clear_if in main).
\* The argument functions are run by main itself, before base_run.
THEOREM NoChainLeftOpenHolds ==
  ASSUME \A name \in Unattended : Harmless(name), "substitution" \notin Faults
  PROVE  Spec => []NoChainLeftOpen
<1>1. HarmlessAll
  BY DEF HarmlessAll
<1>2. Init => Chains
  <2> SUFFICES ASSUME Init PROVE Chains
    OBVIOUS
  <2> DEFINE f == Frame("main", "init", Argfunction, 0)
  <2>1. stack = << f >> /\ f.what = "main" /\ f \in Frames
    <3>1. ShellInvariant /\ stack = << f >>
      BY InitOK DEF Init
    <3>2. stack \in Seq(Frames) /\ 1 \in 1 .. Len(stack) /\ stack[1] = f
      <4> HIDE DEF f
      <4> QED BY <3>1 DEF ShellInvariant, StackOK
    <3>3. f \in Frames
      <4> HIDE DEF f
      <4> QED BY <3>2
    <3> QED BY <3>1, <3>3 DEF Frame
  <2> HIDE DEF f
  <2>2. Len(stack) = 1 /\ stack[1] = f /\ stack \in Seq(Frames)
    BY <2>1
  <2>3. \A i \in 1 .. Len(stack) : i = 1
    BY <2>2
  <2>4. Orderly(stack)
    BY <2>1, <2>2, <2>3 DEF Orderly, Attended, AttendedAt, Passive
  <2>5. Named(gs)
    <3>1. gs.errors = << >> /\ gs.signal = NoSignal
      BY DEF Init, InitialCallStack
    <3>2. \A p \in 1 .. Len(gs.errors) : FALSE
      BY <3>1
    <3> QED BY <3>1, <3>2 DEF Named
  <2>6. Chained(gc, stack)
    BY DEF Init, Chained, Closed
  <2> QED BY <2>4, <2>5, <2>6 DEF Chains
<1>3. /\ ShellInvariant /\ Origins(gs, inAuto, stack)
      /\ Chains /\ [Next]_vars
      => Chains'
  <2> SUFFICES ASSUME ShellInvariant, Origins(gs, inAuto, stack), Chains, [Next]_vars
               PROVE  Named(gs') /\ Orderly(stack') /\ Chained(gc', stack')
    BY DEF Chains
  <2>1. ShellInvariant'
    BY NextOK
  <2> QED BY <1>1, <2>1, NamedNext, ChainedNext DEF Chains
<1>4. ASSUME ShellInvariant, Origins(gs, inAuto, stack), Chains
      PROVE  NoChainLeftOpen
  <2> SUFFICES ASSUME Top.what = "main", Top.pc = "prompt"
               PROVE  Closed(gc)
    BY DEF NoChainLeftOpen, AtPrompt, Closed
  <2>1. Len(stack) = 1 /\ stack[1] = Top
    BY <1>4, TopOfOrigins DEF Origins
  <2>2. ~LookedAfter(stack, Len(stack) + 1)
    <3>1. \A j \in 1 .. Len(stack) + 1 - 1 : j = 1
      BY <2>1
    <3> QED BY <2>1, <3>1 DEF LookedAfter
  <2> QED BY <1>4, <2>1, <2>2 DEF Chains, Chained
<1>5. /\ ShellInvariant /\ Origins(gs, inAuto, stack) /\ Chains
      => NoChainLeftOpen
  BY <1>4
<1> QED BY <1>2, <1>3, <1>5, OriginsHolds, PTL DEF Spec

=============================================================================
