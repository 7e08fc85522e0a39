----------------------------- MODULE FlagProofs -----------------------------
(***************************************************************************)
(* Where activations come from, who answers for the exceptions in the      *)
(* lists and why the stack unwinds: these invariants of ShellInvariants    *)
(* are inductive, and what follows from them for the flags.                *)
(***************************************************************************)
EXTENDS ShellProofs

-----------------------------------------------------------------------------
\* The stack as a sequence.

LEMMA Pushed ==
  ASSUME NEW s \in Seq(Frames), NEW f \in Frames
  PROVE  /\ Append(s, f) \in Seq(Frames)
         /\ Len(Append(s, f)) = Len(s) + 1 /\ Len(s) \in Nat
         /\ Append(s, f)[Len(s) + 1] = f
         /\ \A i \in 1 .. Len(s) : Append(s, f)[i] = s[i]
OBVIOUS

LEMMA Replaced ==
  ASSUME NEW s \in Seq(Frames), Len(s) > 0, NEW f \in Frames
  PROVE  /\ [s EXCEPT ![Len(s)] = f] \in Seq(Frames)
         /\ Len([s EXCEPT ![Len(s)] = f]) = Len(s) /\ Len(s) \in Nat
         /\ [s EXCEPT ![Len(s)] = f][Len(s)] = f
         /\ \A i \in 1 .. Len(s) - 1 : [s EXCEPT ![Len(s)] = f][i] = s[i]
OBVIOUS

LEMMA Shortened ==
  ASSUME NEW s \in Seq(Frames), Len(s) > 1
  PROVE  /\ SubSeq(s, 1, Len(s) - 1) \in Seq(Frames)
         /\ Len(SubSeq(s, 1, Len(s) - 1)) = Len(s) - 1 /\ Len(s) \in Nat
         /\ \A i \in 1 .. Len(s) - 1 : SubSeq(s, 1, Len(s) - 1)[i] = s[i]
OBVIOUS

-----------------------------------------------------------------------------
\* What running an executable does to everything that it can change.

Entered(s, c, g) == Append(s, Frame(c.what, "enter", c, Len(g.errors)))
Seeking(s, c, g) ==
  Append(s, Frame("autofunction", "second", c, Len(g.errors)))

Continues(g, s, auto, h, t, auto2) ==
  /\ Grows(g, h)
  /\ \/ t = s /\ auto2 = auto
     \/ ~h.unwind /\ auto2 = auto /\ \E c \in Statements : t = Entered(s, c, h)
     \/ /\ ~auto /\ auto2
        /\ \E c \in Statements :
             \/ t = Seeking(s, c, g)
             \/ /\ ~h.unwind
                /\ \E d \in Statements : t = Entered(Seeking(s, c, g), d, h)

LEMMA StatementsTyped ==
  /\ Statements \subseteq CommandType
  /\ \A c \in Statements : c.what \in Kinds
  /\ \A name \in Names : CallOf(name) \in Statements
  /\ Argfunction \in Statements /\ ThrowOf(".false") \in Statements
  /\ Commands \subseteq Statements /\ Conditions \subseteq Statements
<1>1. ".false" \in Names
  BY ShellNames DEF ShellExceptions
<1>2. Statements \subseteq CommandType
  BY <1>1, NamesInUse, CommandsTyped, ArgfunctionTyped DEF Statements
<1>3. \A c \in Statements : c.what \in Kinds
  BY <1>2 DEF CommandType
<1> QED BY <1>2, <1>3 DEF Statements

\* Base_executable::operator() as the caller sees it.
LEMMA CallEffect ==
  ASSUME NEW g \in CallStacks, NEW s, NEW c, Call(g, s, c)
  PROVE  /\ Grows(g, gs')
         /\ \/ stack' = s
            \/ ~gs'.unwind /\ stack' = Entered(s, c, gs')
<1> DEFINE deep == g.nesting > MaxNesting + 1
           e == AddErrorIf(deep, g, ".excessive_nesting")
<1>1. ".excessive_nesting" \in Names /\ deep \in BOOLEAN
  BY ShellNames DEF ShellExceptions
<1>2. Grows(g, e) /\ e \in CallStacks
  <2> HIDE DEF deep
  <2> QED BY <1>1, AddErrorIfEffect, AddErrorIfType
<1>3. IF e.unwind THEN gs' = e /\ stack' = s
      ELSE /\ gs' = [e EXCEPT !.nesting = @ + 1]
           /\ stack' = Append(s, Frame(c.what, "enter", c, Len(e.errors)))
  BY DEF Call
<1> HIDE DEF e
<1>4. CASE e.unwind
  BY <1>2, <1>3, <1>4
<1>5. CASE ~e.unwind
  <2>1. /\ gs' = [e EXCEPT !.nesting = e.nesting + 1] /\ e.nesting + 1 \in Int
    BY <1>2, <1>3, <1>5 DEF CallStacks
  <2>2. Grows(e, gs') /\ gs'.unwind = e.unwind /\ gs'.errors = e.errors
    BY <1>2, <2>1, NestingEffect DEF CallStacks
  <2>3. Grows(g, gs')
    BY <1>2, <2>2, GrowsOn
  <2> QED BY <1>3, <1>5, <2>2, <2>3 DEF Entered
<1> QED BY <1>4, <1>5

LEMMA CallContinues ==
  ASSUME NEW g \in CallStacks, NEW s, NEW c \in Statements, Call(g, s, c),
         UNCHANGED inAuto
  PROVE  Continues(g, s, inAuto, gs', stack', inAuto')
BY CallEffect DEF Continues

\* Executable_map::run
LEMMA RunContinues ==
  ASSUME NEW g \in CallStacks, NEW s, NEW c \in Statements, Run(g, s, c)
  PROVE  Continues(g, s, inAuto, gs', stack', inAuto')
<1>1. ".function_not_found" \in Names /\ CallOf(".autofunction") \in Statements
  BY ShellNames, StatementsTyped, NamesInUse DEF ShellExceptions
<1>2. CASE Call(g, s, c) /\ UNCHANGED inAuto
  BY <1>2, CallContinues
<1>3. CASE gs' = AddError(g, ".function_not_found") /\ stack' = s
           /\ UNCHANGED inAuto
  BY <1>1, <1>3, AddErrorEffect DEF Continues
<1>4. CASE /\ ~inAuto /\ inAuto' = TRUE
           /\ Call(g, Append(s, Frame("autofunction", "second", c,
                                      Len(g.errors))),
                   CallOf(".autofunction"))
  <2> DEFINE u == Seeking(s, c, g)
             d == CallOf(".autofunction")
  <2>1. Call(g, u, d)
    BY <1>4 DEF Seeking
  <2>2. d \in Statements
    BY <1>1
  <2> HIDE DEF u, d
  <2>3. /\ Grows(g, gs')
        /\ stack' = u \/ (~gs'.unwind /\ stack' = Entered(u, d, gs'))
    BY <2>1, CallEffect
  <2> QED BY <1>4, <2>2, <2>3 DEF Continues, u
<1>5. CASE /\ gs' = AddError(AddError(g, ".function_not_found"),
                             ".function_not_found")
           /\ stack' = s /\ UNCHANGED inAuto
  <2>1. AddError(g, ".function_not_found") \in CallStacks
    BY <1>1, AddErrorType
  <2>2. Grows(g, gs')
    BY <1>1, <1>5, <2>1, AddErrorEffect, GrowsOn
  <2> QED BY <1>5, <2>2 DEF Continues
<1> QED BY <1>2, <1>3, <1>4, <1>5 DEF Run

-----------------------------------------------------------------------------
\* Origins: coming on top, changing and leaving.

LEMMA NewFromScript ==
  ASSUME NEW what \in Kinds \cup HelperKinds, NEW pc \in Places,
         NEW c \in Statements, NEW n \in Nat,
         what \in Kinds => what = c.what
  PROVE  /\ Frame(what, pc, c, n) \in Frames
         /\ FromScript(Frame(what, pc, c, n))
         /\ Frame(what, pc, c, n).what = what /\ Frame(what, pc, c, n).pc = pc
         /\ Frame(what, pc, c, n).base = n /\ Frame(what, pc, c, n).mark = n
         /\ Frame(what, pc, c, n).flag = FALSE
<1>1. c \in CommandType
  BY StatementsTyped
<1>2. /\ Frame(what, pc, c, n) \in Frames
      /\ Frame(what, pc, c, n).what = what /\ Frame(what, pc, c, n).pc = pc
      /\ Frame(what, pc, c, n).base = n /\ Frame(what, pc, c, n).mark = n
  BY <1>1, NewFrame
<1>3. /\ Frame(what, pc, c, n).cmd = c /\ Frame(what, pc, c, n).stmt = c
      /\ Frame(what, pc, c, n).flag = FALSE
  BY DEF Frame
<1> QED BY <1>2, <1>3 DEF FromScript

LEMMA EnteredFrame ==
  ASSUME NEW c \in Statements, NEW g \in CallStacks
  PROVE  /\ Frame(c.what, "enter", c, Len(g.errors)) \in Frames
         /\ FromScript(Frame(c.what, "enter", c, Len(g.errors)))
         /\ Frame(c.what, "enter", c, Len(g.errors)).what = c.what
         /\ Frame(c.what, "enter", c, Len(g.errors)).pc = "enter"
         /\ Frame(c.what, "enter", c, Len(g.errors)).base = Len(g.errors)
         /\ c.what \in Kinds /\ c.what # "main" /\ c.what # "autofunction"
<1>1. /\ c.what \in Kinds /\ "enter" \in Places /\ "main" \notin Kinds
      /\ "autofunction" \notin Kinds
  BY StatementsTyped DEF Places, Kinds
<1>2. ASSUME NEW n \in Nat
      PROVE  /\ Frame(c.what, "enter", c, n) \in Frames
             /\ FromScript(Frame(c.what, "enter", c, n))
  BY <1>1, NewFromScript
<1>3. /\ Frame(c.what, "enter", c, Len(g.errors)).what = c.what
      /\ Frame(c.what, "enter", c, Len(g.errors)).pc = "enter"
      /\ Frame(c.what, "enter", c, Len(g.errors)).base = Len(g.errors)
  BY DEF Frame
<1>4. Len(g.errors) \in Nat
  BY CallStackErrors
<1> QED BY <1>1, <1>2, <1>3, <1>4

LEMMA SeekingFrame ==
  ASSUME NEW c \in Statements, NEW g \in CallStacks
  PROVE  LET f == Frame("autofunction", "second", c, Len(g.errors))
         IN  /\ f \in Frames /\ FromScript(f) /\ f.what = "autofunction"
             /\ f.pc = "second" /\ f.base = Len(g.errors)
<1>1. "second" \in Places /\ "autofunction" \in HelperKinds
      /\ "autofunction" \notin Kinds
  BY DEF Places, HelperKinds, Kinds
<1>2. ASSUME NEW n \in Nat
      PROVE  /\ Frame("autofunction", "second", c, n) \in Frames
             /\ FromScript(Frame("autofunction", "second", c, n))
  BY <1>1, NewFromScript
<1>3. Len(g.errors) \in Nat
  BY CallStackErrors
<1>4. /\ Frame("autofunction", "second", c, Len(g.errors)).what = "autofunction"
      /\ Frame("autofunction", "second", c, Len(g.errors)).pc = "second"
      /\ Frame("autofunction", "second", c, Len(g.errors)).base = Len(g.errors)
  BY DEF Frame
<1> QED BY <1>2, <1>3, <1>4

\* What is on top of an activation makes no difference to it.
LEMMA OriginsBelow ==
  ASSUME NEW s, NEW t, NEW i \in Nat \ {0}, \A j \in 1 .. i : t[j] = s[j],
         OriginAt(s, i)
  PROVE  OriginAt(t, i)
<1>1. t[i] = s[i] /\ (i > 1 => t[i - 1] = s[i - 1])
  OBVIOUS
<1>2. \A j \in 1 .. i - 1 : t[j] = s[j]
  OBVIOUS
<1> QED BY <1>1, <1>2 DEF OriginAt

LEMMA OriginsPush ==
  ASSUME NEW g, NEW h, NEW auto, NEW auto2, NEW s \in Seq(Frames), Len(s) > 0,
         NEW f \in Frames, Origins(g, auto, s), ~Choosing(s[Len(s)]),
         f.what # "main", FromScript(f),
         Len(s) = 1 => f.what \in HelperKinds \ {"autofunction"},
         f.what = "autofunction" => ~auto,
         auto2 <=> auto \/ f.what = "autofunction",
         h.inHandler => g.inHandler \/ Catching(f) \/ Between(f)
  PROVE  Origins(h, auto2, Append(s, f))
<1> DEFINE t == Append(s, f)
<1>1. /\ Len(t) = Len(s) + 1 /\ Len(s) \in Nat \ {0} /\ t[Len(s) + 1] = f
      /\ \A i \in 1 .. Len(s) : t[i] = s[i]
  BY Pushed
<1> HIDE DEF t
<1>2. Rooted(s) /\ AutoOK(auto, s) /\ FlagOK(g, s)
  BY DEF Origins
<1>3. Rooted(t)
  <2>1. ASSUME NEW i \in 1 .. Len(s) PROVE OriginAt(t, i)
    BY <1>1, <1>2, OriginsBelow DEF Rooted
  <2>2. OriginAt(t, Len(s) + 1)
    <3>0. Len(s) \in Nat \ {0}
      BY <1>1
    <3>1. f.what = "autofunction" => \A j \in 1 .. Len(s) : s[j].what # "autofunction"
      BY <1>2 DEF AutoOK
    <3>2. /\ (Len(s) + 1) - 1 = Len(s) /\ (Len(s) + 1 = 2 <=> Len(s) = 1)
          /\ Len(s) \in 1 .. Len(s)
      BY <3>0
    <3>4. t[Len(s) + 1] = f /\ t[Len(s)] = s[Len(s)]
      BY <1>1, <3>2
    <3>3. \A j \in 1 .. Len(s) : f.what = "autofunction" => t[j].what # "autofunction"
      BY <1>1, <3>1
    <3> QED BY <3>2, <3>3, <3>4 DEF OriginAt
  <2> QED BY <1>1, <1>2, <2>1, <2>2 DEF Rooted
<1>4. AutoOK(auto2, t)
  BY <1>1, <1>2 DEF AutoOK
<1>5. FlagOK(h, t)
  <2>1. g.inHandler => \E i \in 1 .. Len(s) : Catching(s[i])
    BY <1>2 DEF FlagOK, Choosing
  <2> QED BY <1>1, <2>1 DEF FlagOK
<1> QED BY <1>3, <1>4, <1>5 DEF Origins, t

LEMMA OriginsSet ==
  ASSUME NEW g, NEW h, NEW auto, NEW s \in Seq(Frames), Len(s) > 0,
         NEW f \in Frames, Origins(g, auto, s), f.what = s[Len(s)].what,
         f.base = s[Len(s)].base, FromScript(f),
         h.inHandler => \/ Catching(f) \/ Between(f)
                        \/ /\ g.inHandler /\ ~Catching(s[Len(s)])
                           /\ ~Between(s[Len(s)])
  PROVE  Origins(h, auto, [s EXCEPT ![Len(s)] = f])
<1> DEFINE t == [s EXCEPT ![Len(s)] = f]
<1>1. /\ Len(t) = Len(s) /\ Len(s) \in Nat \ {0} /\ t[Len(s)] = f
      /\ \A i \in 1 .. Len(s) - 1 : t[i] = s[i]
  BY Replaced
<1> HIDE DEF t
<1>2. Rooted(s) /\ AutoOK(auto, s) /\ FlagOK(g, s)
  BY DEF Origins
<1>3. Rooted(t)
  <2>1. ASSUME NEW i \in 1 .. Len(s) PROVE OriginAt(t, i)
    <3>1. OriginAt(s, i)
      BY <1>2 DEF Rooted
    <3>2. CASE i < Len(s)
      BY <1>1, <3>1, <3>2, OriginsBelow
    <3>3. CASE i = Len(s)
      <4>1. i > 1 => t[i - 1] = s[i - 1]
        BY <1>1, <3>3
      <4>2. \A j \in 1 .. i - 1 : t[j] = s[j]
        BY <1>1, <3>3
      <4> QED BY <1>1, <3>1, <3>3, <4>1, <4>2 DEF OriginAt
    <3> QED BY <1>1, <3>2, <3>3
  <2>2. t[1].what = "main" /\ t[1].base = 0
    BY <1>1, <1>2 DEF Rooted
  <2> QED BY <1>1, <2>1, <2>2 DEF Rooted
<1>4. AutoOK(auto, t)
  <2>1. ASSUME NEW i \in 1 .. Len(s) PROVE t[i].what = s[i].what
    BY <1>1
  <2> QED BY <1>1, <1>2, <2>1 DEF AutoOK
<1>5. FlagOK(h, t)
  <2>1. g.inHandler /\ ~Catching(s[Len(s)]) /\ ~Between(s[Len(s)]) =>
          \E i \in 1 .. Len(s) - 1 : Catching(s[i])
    BY <1>1, <1>2 DEF FlagOK
  <2> QED BY <1>1, <2>1 DEF FlagOK
<1> QED BY <1>3, <1>4, <1>5 DEF Origins, t

LEMMA OriginsPop ==
  ASSUME NEW g, NEW h, NEW auto, NEW auto2, NEW s \in Seq(Frames), Len(s) > 1,
         Origins(g, auto, s),
         auto2 <=> auto /\ s[Len(s)].what # "autofunction",
         h.inHandler => /\ g.inHandler /\ ~Catching(s[Len(s)])
                        /\ ~Between(s[Len(s)])
  PROVE  LET t == SubSeq(s, 1, Len(s) - 1)
         IN  Origins(h, auto2, t) /\ ~Choosing(t[Len(t)])
<1> DEFINE t == SubSeq(s, 1, Len(s) - 1)
<1>1. /\ Len(t) = Len(s) - 1 /\ Len(s) \in Nat /\ Len(s) > 1
      /\ \A i \in 1 .. Len(s) - 1 : t[i] = s[i]
  BY Shortened
<1> HIDE DEF t
<1>2. Rooted(s) /\ AutoOK(auto, s) /\ FlagOK(g, s)
  BY DEF Origins
<1>3. Rooted(t)
  <2>1. ASSUME NEW i \in 1 .. Len(t) PROVE OriginAt(t, i)
    <3>1. OriginAt(s, i) /\ i \in Nat /\ \A j \in 1 .. i : t[j] = s[j]
      BY <1>1, <1>2 DEF Rooted
    <3> QED BY <3>1, OriginsBelow
  <2> QED BY <1>1, <1>2, <2>1 DEF Rooted
<1>4. AutoOK(auto2, t)
  <2>1. s[Len(s)].what = "autofunction" =>
          \A i \in 1 .. Len(s) - 1 : s[i].what # "autofunction"
    BY <1>1, <1>2 DEF Rooted, OriginAt
  <2>2. s[Len(s)].what # "autofunction" =>
          (auto <=> \E i \in 1 .. Len(s) - 1 : s[i].what = "autofunction")
    BY <1>1, <1>2 DEF AutoOK
  <2> QED BY <1>1, <2>1, <2>2 DEF AutoOK
<1>5. FlagOK(h, t)
  <2>1. h.inHandler => \E i \in 1 .. Len(s) - 1 : Catching(s[i])
    BY <1>1, <1>2 DEF FlagOK
  <2> QED BY <1>1, <2>1 DEF FlagOK
<1>6. ~Choosing(t[Len(t)])
  BY <1>1, <1>2 DEF Rooted, OriginAt
<1> QED BY <1>3, <1>4, <1>5, <1>6 DEF Origins, t

LEMMA OriginsContinue ==
  ASSUME NEW g \in CallStacks, NEW h, NEW auto \in BOOLEAN,
         NEW auto2 \in BOOLEAN, NEW s \in Seq(Frames), NEW t,
         Len(s) > 1, Origins(g, auto, s), ~Choosing(s[Len(s)]), Continues(g, s, auto, h, t, auto2)
  PROVE  Origins(h, auto2, t)
<1>1. h \in CallStacks /\ h.inHandler = g.inHandler
      /\ Len(h.errors) \in Nat /\ Len(g.errors) \in Nat
  BY CallStackErrors DEF Continues, Grows
<1>2. Origins(h, auto, s)
  BY <1>1 DEF Origins, FlagOK
<1>3. Len(s) \in Nat /\ "enter" \in Places /\ "second" \in Places
      /\ "autofunction" \in HelperKinds /\ "main" \notin Kinds
      /\ "autofunction" \notin Kinds
  BY DEF Places, HelperKinds, Kinds
<1>4. ASSUME NEW u \in Seq(Frames), NEW b, Origins(h, b, u), Len(u) > 1,
             ~Choosing(u[Len(u)]), NEW c \in Statements
      PROVE  Origins(h, b, Entered(u, c, h))
  <2> DEFINE f == Frame(c.what, "enter", c, Len(h.errors))
  <2>1. c.what \in Kinds /\ c.what # "main" /\ c.what # "autofunction"
    BY EnteredFrame, <1>1
  <2>3. f \in Frames /\ FromScript(f) /\ f.what = c.what
    BY <1>1, EnteredFrame
  <2> HIDE DEF f
  <2>4. Origins(h, b, Append(u, f))
    BY <1>4, <2>1, <2>3, OriginsPush
  <2> QED BY <2>4 DEF Entered, f
<1>5. ASSUME NEW c \in Statements, ~auto, auto2
      PROVE  /\ Seeking(s, c, g) \in Seq(Frames) /\ Len(Seeking(s, c, g)) > 1
             /\ Origins(h, auto2, Seeking(s, c, g))
             /\ ~Choosing(Seeking(s, c, g)[Len(Seeking(s, c, g))])
  <2> DEFINE f == Frame("autofunction", "second", c, Len(g.errors))
  <2>1. f \in Frames /\ FromScript(f) /\ f.what = "autofunction"
    BY SeekingFrame
  <2> HIDE DEF f
  <2>2. Origins(h, auto2, Append(s, f))
    <3>1. auto2 <=> auto \/ f.what = "autofunction"
      BY <1>5, <2>1, Zenon
    <3>2. Len(s) > 0 /\ Len(s) # 1
      BY <1>3
    <3>3. f.what # "main"
      BY <2>1
    <3> QED BY <1>2, <1>5, <2>1, <3>1, <3>2, <3>3, OriginsPush, Zenon
  <2>3. /\ Append(s, f) \in Seq(Frames) /\ Len(Append(s, f)) = Len(s) + 1
        /\ Append(s, f)[Len(s) + 1] = f
    BY <2>1, Pushed
  <2>4. ~Choosing(f)
    BY <2>1 DEF Choosing, Between
  <2>5. Seeking(s, c, g) = Append(s, f)
    BY DEF Seeking, f
  <2>6. Len(Append(s, f)) > 1 /\ Append(s, f)[Len(Append(s, f))] = f
    BY <1>3, <2>3
  <2> QED BY <2>2, <2>3, <2>4, <2>5, <2>6
<1>6. CASE t = s /\ auto2 = auto
  BY <1>2, <1>6
<1>7. ASSUME NEW c \in Statements, t = Entered(s, c, h), auto2 = auto
      PROVE  Origins(h, auto2, t)
  <2> QED BY <1>2, <1>4, <1>7
<1>8. ASSUME NEW c \in Statements, ~auto, auto2,
             \/ t = Seeking(s, c, g)
             \/ \E d \in Statements : t = Entered(Seeking(s, c, g), d, h)
      PROVE  Origins(h, auto2, t)
  <2>1. CASE t = Seeking(s, c, g)
    BY <1>5, <1>8, <2>1
  <2>2. ASSUME NEW d \in Statements, t = Entered(Seeking(s, c, g), d, h)
        PROVE  Origins(h, auto2, t)
    BY <1>4, <1>5, <1>8, <2>2
  <2> QED BY <1>8, <2>1, <2>2
<1> QED BY <1>6, <1>7, <1>8 DEF Continues

-----------------------------------------------------------------------------
\* Most steps belong to an executable that neither absorbs exceptions nor waits
\* between handlers: it may strike exceptions from its own list, goes on to
\* another place and may run an executable.

Plain(f) == f.what \in Kinds /\ ~Absorbing(f) /\ ~Choosing(f)

Successor(f, top) ==
  f \in Frames /\ f.what = top.what /\ f.base = top.base /\ FromScript(f)

Advances(g, s, auto, h, t, auto2) ==
  /\ Plain(s[Len(s)])
  /\ \E k \in CallStacks, f \in Frames :
       /\ \/ Grows(g, k)
          \/ s[Len(s)].what \in Loops \cup IfKinds /\ Pruned(g, k, s[Len(s)].base)
       /\ Successor(f, s[Len(s)]) /\ Plain(f)
       /\ Continues(k, [s EXCEPT ![Len(s)] = f], auto, h, t, auto2)

Advancing == Advances(gs, stack, inAuto, gs', stack', inAuto')

\* To be at another place is to be another frame.
LEMMA PlainGoto ==
  ASSUME NEW top \in Frames, FromScript(top), top.what \in Kinds,
         NEW pc \in Places, NEW c \in Statements, NEW n \in Nat,
         top.what = "collect" => pc \notin {"next", "arguments", "ran"},
         top.what = "try" => pc # "caught"
  PROVE  /\ Plain([top EXCEPT !.pc = pc])
         /\ Successor([top EXCEPT !.pc = pc], top)
         /\ Plain([top EXCEPT !.pc = pc, !.mark = n])
         /\ Successor([top EXCEPT !.pc = pc, !.mark = n], top)
         /\ Plain([top EXCEPT !.pc = pc, !.stmt = c])
         /\ Successor([top EXCEPT !.pc = pc, !.stmt = c], top)
<1>1. c \in CommandType /\ top.what \notin HelperKinds
  BY StatementsTyped DEF Kinds, HelperKinds
<1>2. ASSUME NEW f \in Frames, f.what = top.what, f.pc = pc
      PROVE  Plain(f)
  BY <1>1, <1>2 DEF Plain, Absorbing, Choosing, Between, HelperKinds
<1>3. /\ [top EXCEPT !.pc = pc] \in Frames
      /\ [top EXCEPT !.pc = pc, !.mark = n] \in Frames
      /\ [top EXCEPT !.pc = pc, !.stmt = c] \in Frames
  BY <1>1 DEF Frames
<1>4. /\ [top EXCEPT !.pc = pc].what = top.what
      /\ [top EXCEPT !.pc = pc].pc = pc
      /\ [top EXCEPT !.pc = pc].base = top.base
      /\ [top EXCEPT !.pc = pc].cmd = top.cmd
      /\ [top EXCEPT !.pc = pc].stmt = top.stmt
  BY DEF Frames
<1>5. /\ [top EXCEPT !.pc = pc, !.mark = n].what = top.what
      /\ [top EXCEPT !.pc = pc, !.mark = n].pc = pc
      /\ [top EXCEPT !.pc = pc, !.mark = n].base = top.base
      /\ [top EXCEPT !.pc = pc, !.mark = n].cmd = top.cmd
      /\ [top EXCEPT !.pc = pc, !.mark = n].stmt = top.stmt
  BY DEF Frames
<1>6. /\ [top EXCEPT !.pc = pc, !.stmt = c].what = top.what
      /\ [top EXCEPT !.pc = pc, !.stmt = c].pc = pc
      /\ [top EXCEPT !.pc = pc, !.stmt = c].base = top.base
      /\ [top EXCEPT !.pc = pc, !.stmt = c].cmd = top.cmd
      /\ [top EXCEPT !.pc = pc, !.stmt = c].stmt = c
  BY DEF Frames
<1>7. /\ Plain([top EXCEPT !.pc = pc])
      /\ Plain([top EXCEPT !.pc = pc, !.mark = n])
      /\ Plain([top EXCEPT !.pc = pc, !.stmt = c])
  BY <1>2, <1>3, <1>4, <1>5, <1>6
<1> QED BY <1>3, <1>4, <1>5, <1>6, <1>7 DEF Successor, FromScript

\* The executable on top when it advances.
AtPlain(pc) ==
  /\ ShellInvariant /\ Rooted(stack) /\ Plain(Top) /\ pc \in Places
  /\ Top.what = "collect" => pc \notin {"next", "arguments", "ran"}
  /\ Top.what = "try" => pc # "caught"

LEMMA AtPlainTop ==
  ASSUME NEW pc, AtPlain(pc)
  PROVE  /\ Top \in Frames /\ FromScript(Top) /\ Top.what \in Kinds
         /\ gs \in CallStacks /\ Len(gs.errors) \in Nat
         /\ Argfunction \in Statements
<1>1. Len(stack) \in Nat \ {0}
  BY LastOK DEF AtPlain, ShellInvariant
<1>2. FromScript(Top)
  BY <1>1 DEF AtPlain, Rooted, OriginAt, Top
<1>3. Top \in Frames /\ gs \in CallStacks /\ Len(gs.errors) \in Nat
  BY TopOK DEF AtPlain, ShellInvariant
<1> QED BY <1>2, <1>3, StatementsTyped DEF AtPlain, Plain

LEMMA AdvanceGoto ==
  ASSUME NEW pc, AtPlain(pc), stack' = Goto(pc), UNCHANGED inAuto,
         Grows(gs, gs')
  PROVE  Advancing
<1> DEFINE f == [Top EXCEPT !.pc = pc]
<1>1. Successor(f, Top) /\ Plain(f) /\ f \in Frames
  BY AtPlainTop, PlainGoto DEF AtPlain, Successor
<1>2. stack' = [stack EXCEPT ![Len(stack)] = f] /\ Top = stack[Len(stack)]
  BY DEF Goto, SetTop, Top
<1> HIDE DEF f
<1>3. Continues(gs, [stack EXCEPT ![Len(stack)] = f], inAuto, gs', stack', inAuto')
  BY <1>2 DEF Continues
<1> QED BY <1>1, <1>2, <1>3, AtPlainTop, GrowsSelf DEF Advancing, Advances, AtPlain

\* The body of a script turns to its next statement.
LEMMA AdvanceStatement ==
  ASSUME NEW pc, AtPlain(pc), NEW c \in Statements,
         stack' = SetTop([Top EXCEPT !.pc = pc, !.stmt = c]),
         UNCHANGED <<gs, inAuto>>
  PROVE  Advancing
<1> DEFINE f == [Top EXCEPT !.pc = pc, !.stmt = c]
<1>1. Successor(f, Top) /\ Plain(f) /\ f \in Frames
  BY AtPlainTop, PlainGoto DEF AtPlain, Successor
<1>2. stack' = [stack EXCEPT ![Len(stack)] = f] /\ Top = stack[Len(stack)]
  BY DEF SetTop, Top
<1> HIDE DEF f
<1>3. Grows(gs, gs')
  BY GrowsSelf, AtPlainTop
<1>4. Continues(gs, [stack EXCEPT ![Len(stack)] = f], inAuto, gs', stack', inAuto')
  BY <1>2, <1>3 DEF Continues
<1> QED BY <1>1, <1>2, <1>4, AtPlainTop, GrowsSelf DEF Advancing, Advances, AtPlain

\* It runs an executable, perhaps after striking exceptions from its list.
LEMMA AdvanceRun ==
  ASSUME NEW pc, AtPlain(pc), NEW k \in CallStacks,
         \/ Grows(gs, k)
         \/ Top.what \in Loops \cup IfKinds /\ Pruned(gs, k, Top.base),
         NEW c \in Statements,
         Run(k, Calling(pc), c) \/ (Call(k, Calling(pc), c) /\ UNCHANGED inAuto)
  PROVE  Advancing
<1> DEFINE f == [Top EXCEPT !.pc = pc, !.mark = Len(gs.errors)]
           t == [stack EXCEPT ![Len(stack)] = f]
<1>1. Successor(f, Top) /\ Plain(f) /\ f \in Frames
  <2> DEFINE n == Len(gs.errors)
             e == [Top EXCEPT !.pc = pc, !.mark = n]
  <2>1. n \in Nat
    BY AtPlainTop
  <2> HIDE DEF n
  <2>2. Successor(e, Top) /\ Plain(e) /\ e \in Frames
    BY <2>1, AtPlainTop, PlainGoto DEF AtPlain, Successor
  <2> QED BY <2>2 DEF n
<1>2. Calling(pc) = t /\ Top = stack[Len(stack)]
  BY DEF Calling, SetTop, Top
<1> HIDE DEF f, t
<1>3. Continues(k, t, inAuto, gs', stack', inAuto')
  BY <1>2, RunContinues, CallContinues
<1> QED BY <1>1, <1>2, <1>3 DEF Advancing, Advances, AtPlain, t

\* It is through with its list.
LEMMA AdvancePruned ==
  ASSUME NEW pc, AtPlain(pc), NEW k \in CallStacks,
         \/ Grows(gs, k)
         \/ Top.what \in Loops \cup IfKinds /\ Pruned(gs, k, Top.base),
         Grows(k, gs'),
         stack' = Goto(pc), UNCHANGED inAuto
  PROVE  Advancing
<1> DEFINE f == [Top EXCEPT !.pc = pc]
<1>1. Successor(f, Top) /\ Plain(f) /\ f \in Frames
  BY AtPlainTop, PlainGoto DEF AtPlain, Successor
<1>2. stack' = [stack EXCEPT ![Len(stack)] = f] /\ Top = stack[Len(stack)]
  BY DEF Goto, SetTop, Top
<1> HIDE DEF f
<1>3. Continues(k, [stack EXCEPT ![Len(stack)] = f], inAuto, gs', stack', inAuto')
  BY <1>2 DEF Continues
<1> QED BY <1>1, <1>2, <1>3 DEF Advancing, Advances, AtPlain

-----------------------------------------------------------------------------
\* Which steps advance.

LEMMA PlainAt ==
  ASSUME ShellInvariant, Rooted(stack), Top.what \in Kinds, NEW pc \in Places,
         \/ Top.what \notin {"collect", "try"}
         \/ Top.pc \in {"enter", "return", "body"} /\ pc \in {"return", "body", "catch"}
            /\ (Top.what = "collect" => pc = "return")
  PROVE  AtPlain(pc)
<1>1. Plain(Top)
  BY DEF Plain, Absorbing, Choosing, Between, HelperKinds, Kinds
<1> QED BY <1>1 DEF AtPlain

LEMMA Grown ==
  ASSUME NEW g \in CallStacks
  PROVE  /\ Grows(g, g)
         /\ \A name \in Names : Grows(g, AddError(g, name))
         /\ \A name \in Names : \A cond \in BOOLEAN :
              Grows(g, AddErrorIf(cond, g, name))
BY GrowsSelf, AddErrorEffect, AddErrorIfEffect

LEMMA ThrownNames ==
  /\ ShellExceptions \subseteq Names
  /\ {".bad_args", ".unused_variable", ".undefined_variable", ".not_a_number",
      ".function_not_found", ".failed_substitution", ".if_before_else",
      ".else_without_if", ".bad_if_nest", ".file_open_failure",
      ".excessive_exceptions_collected", ".unfinished_if_block",
      ".unclosed_brace", ".mismatched_brace", ".not_catching_exception",
      ".undeclared_variable", ".unused_before_set"}
       \subseteq ShellExceptions
BY ShellNames DEF ShellExceptions

LEMMA BodiesAdvance ==
  ASSUME ShellInvariant, Rooted(stack),
         \/ EnterFunction \/ BadArguments \/ EnterBlock \/ NextStatement
         \/ UndefinedVariable \/ RunStatement \/ AfterStatement
         \/ UnusedVariables
  PROVE  Advancing
<1>0. /\ Top \in Frames /\ gs \in CallStacks /\ Top.cmd \in CommandType
      /\ Top.stmt \in Statements
  <2>1. Len(stack) \in Nat \ {0}
    BY LastOK DEF ShellInvariant
  <2> QED BY <2>1, TopOK DEF ShellInvariant, Rooted, OriginAt, FromScript, Top
<1>p. {"return", "unused", "statement", "line", "arguments", "ran"} \subseteq Places
  BY DEF Places
<1>b. Bodies \subseteq Kinds /\ Bodies \cap {"collect", "try"} = {}
  BY DEF Bodies, Kinds
<1>e. Top.what \in Bodies => BodyEnd \in {"unused", "return", "line"}
  BY BodyEndOK
<1>1. CASE EnterFunction
  <2>1. Top.what \in Bodies
    BY <1>1 DEF EnterFunction, Bodies
  <2>2. CASE gs' = gs /\ stack' = Goto("return") /\ UNCHANGED inAuto
    BY <1>0, <1>b, <1>p, <2>1, <2>2, PlainAt, Grown, AdvanceGoto
  <2>3. ASSUME NEW bad \in BOOLEAN, gs' = AddErrorIf(bad, gs, ".bad_args"),
               stack' = Goto(IF bad THEN "unused" ELSE "statement"),
               UNCHANGED inAuto
        PROVE  Advancing
    <3> DEFINE pc == IF bad THEN "unused" ELSE "statement"
    <3>1. pc \in Places
      BY <1>p
    <3>2. Grows(gs, gs')
      BY <1>0, <2>3, Grown, ThrownNames
    <3> HIDE DEF pc
    <3>3. AtPlain(pc)
      BY <1>b, <2>1, <3>1, PlainAt
    <3> QED BY <2>3, <3>2, <3>3, AdvanceGoto DEF pc
  <2> QED BY <1>1, <2>2, <2>3, MayOK DEF EnterFunction
<1>2. CASE BadArguments
  <2>1. /\ Top.what \in Kinds /\ Top.pc = "enter" /\ stack' = Goto("return")
        /\ gs' = AddError(gs, ".bad_args") /\ UNCHANGED inAuto
    BY <1>2 DEF BadArguments
  <2>2. AtPlain("return")
    BY <1>p, <2>1, PlainAt
  <2> QED BY <1>0, <2>1, <2>2, Grown, ThrownNames, AdvanceGoto
<1>3. CASE EnterBlock
  <2>1. Top.what \in Bodies /\ stack' = Goto("statement") /\ UNCHANGED <<gs, inAuto>>
    BY <1>3 DEF EnterBlock, Bodies
  <2>2. AtPlain("statement")
    BY <1>b, <1>p, <2>1, PlainAt
  <2> QED BY <1>0, <2>1, <2>2, Grown, AdvanceGoto
<1>4. CASE NextStatement
  <2>1. Top.what \in Bodies /\ UNCHANGED <<gs, inAuto>>
    BY <1>4 DEF NextStatement
  <2>2. CASE stack' = Goto(BodyEnd)
    <3>1. AtPlain(BodyEnd)
      BY <1>b, <1>e, <1>p, <2>1, PlainAt
    <3> QED BY <1>0, <2>1, <2>2, <3>1, Grown, AdvanceGoto
  <2>3. ASSUME NEW c \in Commands,
               stack' = SetTop([Top EXCEPT !.pc = "arguments", !.stmt = c])
        PROVE  Advancing
    <3>1. AtPlain("arguments") /\ c \in Statements
      BY <1>b, <1>p, <2>1, PlainAt, StatementsTyped
    <3> QED BY <2>1, <2>3, <3>1, AdvanceStatement
  <2> QED BY <1>4, <2>2, <2>3 DEF NextStatement
<1>5. CASE UndefinedVariable
  <2>1. Top.what \in Bodies /\ stack' = Goto("return") /\ UNCHANGED inAuto
    BY <1>5 DEF UndefinedVariable
  <2>2. PICK unused \in May("unused") :
          gs' = AddError(AddErrorIf(unused /\ Top.what \in Checking, gs,
                                    ".unused_variable"), ".undefined_variable")
    BY <1>5 DEF UndefinedVariable
  <2>3. Grows(gs, gs')
    <3> DEFINE cond == unused /\ Top.what \in Checking
               g == AddErrorIf(cond, gs, ".unused_variable")
    <3>1. cond \in BOOLEAN
      OBVIOUS
    <3>2. gs' = AddError(g, ".undefined_variable")
      BY <2>2
    <3> HIDE DEF cond
    <3>3. Grows(gs, g)
      BY <1>0, <3>1, Grown, ThrownNames
    <3> HIDE DEF g
    <3>4. g \in CallStacks
      BY <3>3 DEF Grows
    <3>5. Grows(g, gs')
      BY <3>2, <3>4, Grown, ThrownNames
    <3> QED BY <3>3, <3>5, GrowsOn
  <2>4. AtPlain("return")
    BY <1>b, <1>p, <2>1, PlainAt
  <2> QED BY <2>1, <2>3, <2>4, AdvanceGoto
<1>6. CASE RunStatement
  <2>1. Top.what \in Bodies
    BY <1>6 DEF RunStatement
  <2>2. CASE stack' = Goto(BodyEnd) /\ UNCHANGED <<gs, inAuto>>
    <3>1. AtPlain(BodyEnd)
      BY <1>b, <1>e, <1>p, <2>1, PlainAt
    <3> QED BY <1>0, <2>2, <3>1, Grown, AdvanceGoto
  <2>3. CASE Run(gs, Calling("ran"), Top.stmt)
    <3>1. AtPlain("ran")
      BY <1>b, <1>p, <2>1, PlainAt
    <3> QED BY <1>0, <2>3, <3>1, Grown, AdvanceRun
  <2> QED BY <1>6, <2>2, <2>3 DEF RunStatement
<1>7. CASE AfterStatement
  <2> DEFINE pc == IF gs.unwind THEN BodyEnd ELSE "statement"
  <2>1. Top.what \in Bodies /\ UNCHANGED <<gs, inAuto>> /\ stack' = Goto(pc)
    BY <1>7 DEF AfterStatement
  <2>2. pc \in Places
    BY <1>e, <1>p, <2>1
  <2> HIDE DEF pc
  <2>3. AtPlain(pc)
    BY <1>b, <2>1, <2>2, PlainAt
  <2> QED BY <1>0, <2>1, <2>3, Grown, AdvanceGoto
<1>8. CASE UnusedVariables
  <2>1. Top.what \in Checking \cup {"stepwise"}
    BY <1>8 DEF UnusedVariables
  <2>2. PICK unused \in BOOLEAN : Finish(AddErrorIf(unused, gs, ".unused_variable"))
    BY <1>8, MayOK DEF UnusedVariables
  <2>3. /\ gs' = AddErrorIf(unused, gs, ".unused_variable")
        /\ stack' = Goto("return") /\ UNCHANGED inAuto
    BY <2>2 DEF Finish
  <2>4. AtPlain("return")
    BY <1>b, <1>p, <2>1, PlainAt DEF Checking, Kinds
  <2> QED BY <1>0, <2>3, <2>4, Grown, ThrownNames, AdvanceGoto
<1> QED BY <1>1, <1>2, <1>3, <1>4, <1>5, <1>6, <1>7, <1>8

\* What every step of a builtin starts from.
LEMMA BuiltinTop ==
  ASSUME ShellInvariant, Rooted(stack)
  PROVE  /\ Top \in Frames /\ gs \in CallStacks /\ Top.cmd \in CommandType
         /\ Top.cmd.name \in Names
         /\ Top.stmt \in Statements /\ Top.cmd \in Statements
         /\ Top.base \in 0 .. Len(gs.errors)
         /\ Argfunction \in Statements /\ CallOf(".for(body)") \in Statements
         /\ Conditions \cup {ThrowOf(".false")} \subseteq Statements
<1>1. Len(stack) \in Nat \ {0}
  BY LastOK DEF ShellInvariant
<1>2. Top.cmd \in Statements /\ Top.stmt \in Statements
  BY <1>1 DEF Rooted, OriginAt, FromScript, Top
<1>3. /\ Top \in Frames /\ gs \in CallStacks /\ Top.cmd \in CommandType
      /\ Top.base \in 0 .. Len(gs.errors)
  BY TopOK DEF ShellInvariant
<1>4. Top.cmd.name \in Names
  BY <1>3 DEF CommandType
<1> QED BY <1>2, <1>3, <1>4, StatementsTyped, NamesInUse

LEMMA ControlPlaces ==
  /\ {"return", "body", "catch", "test", "tested", "core", "stored", "unused",
      "arguments", "line", "read", "statement", "signal"} \subseteq Places
  /\ {"throw", "exit", "try", "while", "for", "stepwise", "store", "source"}
       \cup IfKinds \subseteq Kinds
  /\ {"collect", "try"} \cap ({"throw", "exit", "while", "for", "stepwise",
                               "store", "source"} \cup IfKinds) = {}
BY DEF Places, Kinds, IfKinds

LEMMA SimpleAdvance ==
  ASSUME ShellInvariant, Rooted(stack),
         Throw \/ Exit \/ Try \/ TryReturned \/ Store \/ Stored
  PROVE  Advancing
<1>1. CASE Throw
  <2>1. /\ Top.what = "throw" /\ stack' = Goto("return") /\ UNCHANGED inAuto
        /\ gs' = AddError(gs, Top.cmd.name)
    BY <1>1 DEF Throw, Finish
  <2>2. AtPlain("return")
    BY <2>1, ControlPlaces, PlainAt
  <2> QED BY <2>1, <2>2, BuiltinTop, Grown, AdvanceGoto
<1>2. CASE Exit
  <2>1. /\ Top.what = "exit" /\ stack' = Goto("return") /\ UNCHANGED inAuto
        /\ gs' = AddError(gs, ".not_a_number") \/ gs' = RequestExit(gs)
    BY <1>2 DEF Exit
  <2>2. AtPlain("return")
    BY <2>1, ControlPlaces, PlainAt
  <2>3. Grows(gs, gs')
    BY <2>1, BuiltinTop, Grown, ThrownNames, RequestExitEffect
  <2> QED BY <2>1, <2>2, <2>3, AdvanceGoto
<1>3. CASE Try
  <2>1. /\ Top.what = "try" /\ Top.pc = "enter" /\ UNCHANGED inAuto
        /\ Call(gs, Calling("body"), Argfunction)
    BY <1>3 DEF Try
  <2>2. AtPlain("body")
    BY <2>1, ControlPlaces, PlainAt
  <2> QED BY <2>1, <2>2, BuiltinTop, Grown, AdvanceRun
<1>4. CASE TryReturned
  <2> DEFINE pc == IF gs.unwind THEN "catch" ELSE "return"
  <2>1. /\ Top.what = "try" /\ Top.pc = "body" /\ UNCHANGED <<gs, inAuto>>
        /\ stack' = Goto(pc)
    BY <1>4 DEF TryReturned
  <2>2. AtPlain("catch") /\ AtPlain("return")
    BY <2>1, ControlPlaces, PlainAt
  <2> HIDE DEF pc
  <2>3. AtPlain(pc)
    BY <2>2 DEF pc
  <2> QED BY <2>1, <2>3, BuiltinTop, Grown, AdvanceGoto
<1>5. CASE Store
  <2>1. /\ Top.what = "store" /\ UNCHANGED inAuto
        /\ Call(gs, Calling("stored"), Argfunction)
    BY <1>5 DEF Store
  <2>2. AtPlain("stored")
    BY <2>1, ControlPlaces, PlainAt
  <2> QED BY <2>1, <2>2, BuiltinTop, Grown, AdvanceRun
<1>6. CASE Stored
  <2>1. /\ Top.what = "store" /\ UNCHANGED inAuto
        /\ stack' = Goto("return")
        /\ \/ gs' = gs
           \/ \E name \in {".undeclared_variable", ".unused_before_set"} :
                gs' = AddError(gs, name)
    BY <1>6 DEF Stored, Finish
  <2>2. AtPlain("return")
    BY <2>1, ControlPlaces, PlainAt
  <2>3. Grows(gs, gs')
    BY <2>1, BuiltinTop, Grown, ThrownNames
  <2> QED BY <2>1, <2>2, <2>3, AdvanceGoto
<1> QED BY <1>1, <1>2, <1>3, <1>4, <1>5, <1>6

\* A condition or the end of a loop strikes exceptions from the list.
LEMMA Struck ==
  ASSUME ShellInvariant, Rooted(stack)
  PROVE  /\ AfterCondition \in CallStacks
         /\ Pruned(gs, AfterCondition, Top.base)
<1>1. ".false" \in Jumps /\ gs \in CallStacks /\ Top.base \in 0 .. Len(gs.errors)
  BY BuiltinTop DEF Jumps
<1>2. Pruned(gs, RemoveExceptions(gs, Top.base, ".false"), Top.base)
  BY <1>1, RemoveExceptionsEffect
<1> QED BY <1>2 DEF AfterCondition, Pruned

LEMMA LoopsAdvance ==
  ASSUME ShellInvariant, Rooted(stack),
         \/ WhileTest \/ WhileTested \/ ForNext \/ ForEnd \/ EnterStepwise
         \/ StepwiseNext \/ StepwiseRun \/ LoopReturned
  PROVE  Advancing
<1>1. CASE WhileTest
  <2>1. Top.what = "while"
    BY <1>1 DEF WhileTest
  <2>2. PICK c \in Conditions \cup {ThrowOf(".false")} : Run(gs, Calling("tested"), c)
    BY <1>1 DEF WhileTest
  <2>3. AtPlain("tested")
    BY <2>1, ControlPlaces, PlainAt
  <2> QED BY <2>2, <2>3, BuiltinTop, Grown, AdvanceRun
<1>2. CASE WhileTested
  <2>1. Top.what = "while" /\ Top.what \in Loops \cup IfKinds /\ UNCHANGED inAuto
    BY <1>2 DEF WhileTested, Loops
  <2>2. AtPlain("body") /\ AtPlain("return")
    BY <2>1, ControlPlaces, PlainAt
  <2>3. CASE Call(AfterCondition, Calling("body"), Argfunction)
    BY <2>1, <2>2, <2>3, Struck, BuiltinTop, AdvanceRun
  <2>4. CASE gs' = AfterCondition /\ stack' = Goto("return")
    BY <2>1, <2>2, <2>4, Struck, Grown, AdvancePruned
  <2> QED BY <1>2, <2>3, <2>4 DEF WhileTested
<1>3. CASE ForNext
  <2>1. /\ Top.what = "for" /\ UNCHANGED inAuto
        /\ Call(gs, Calling("body"), CallOf(".for(body)"))
    BY <1>3 DEF ForNext
  <2>2. AtPlain("body")
    BY <2>1, ControlPlaces, PlainAt
  <2> QED BY <2>1, <2>2, BuiltinTop, Grown, AdvanceRun
<1>4. CASE ForEnd
  <2>1. /\ Top.what = "for" /\ UNCHANGED <<gs, inAuto>>
        /\ stack' = Goto("return")
    BY <1>4 DEF ForEnd, Finish
  <2>2. AtPlain("return")
    BY <2>1, ControlPlaces, PlainAt
  <2> QED BY <2>1, <2>2, BuiltinTop, Grown, AdvanceGoto
<1>5. CASE EnterStepwise
  <2>1. Top.what = "stepwise" /\ UNCHANGED inAuto
    BY <1>5 DEF EnterStepwise
  <2>2. PICK pc \in {"test", "return", "unused"} : stack' = Goto(pc)
    BY <1>5 DEF EnterStepwise
  <2>3. gs' = gs \/ \E name \in {".bad_args", ".function_not_found"} :
                      gs' = AddError(gs, name)
    BY <1>5 DEF EnterStepwise
  <2>4. Grows(gs, gs')
    BY <2>3, BuiltinTop, Grown, ThrownNames
  <2>5. AtPlain(pc)
    BY <2>1, ControlPlaces, PlainAt
  <2> QED BY <2>1, <2>2, <2>4, <2>5, AdvanceGoto
<1>6. CASE StepwiseNext
  <2>1. Top.what = "stepwise" /\ UNCHANGED <<gs, inAuto>>
    BY <1>6 DEF StepwiseNext
  <2>2. PICK pc \in {"unused", "arguments"} : stack' = Goto(pc)
    BY <1>6 DEF StepwiseNext
  <2>3. AtPlain(pc)
    BY <2>1, ControlPlaces, PlainAt
  <2> QED BY <2>1, <2>2, <2>3, BuiltinTop, Grown, AdvanceGoto
<1>7. CASE StepwiseRun
  <2>1. Top.what = "stepwise" /\ UNCHANGED inAuto
    BY <1>7 DEF StepwiseRun
  <2>2. AtPlain("unused") /\ AtPlain("body")
    BY <2>1, ControlPlaces, PlainAt
  <2>3. CASE stack' = Goto("unused") /\ gs' = gs
    BY <2>1, <2>2, <2>3, BuiltinTop, Grown, AdvanceGoto
  <2>4. CASE Call(gs, Calling("body"), CallOf(".for(body)"))
    BY <2>1, <2>2, <2>4, BuiltinTop, Grown, AdvanceRun
  <2> QED BY <1>7, <2>3, <2>4 DEF StepwiseRun
<1>8. CASE LoopReturned
  <2> DEFINE g == RemoveExceptions(gs, Top.base, ".continue")
             h == RemoveExceptions(g, Top.base, ".break")
  <2>1. Top.what \in Loops /\ UNCHANGED inAuto
    BY <1>8 DEF LoopReturned
  <2>2. gs' = h /\ \E pc \in {"unused", "return", "test"} : stack' = Goto(pc)
    BY <1>8 DEF LoopReturned
  <2>3. PICK pc \in {"unused", "return", "test"} : stack' = Goto(pc)
    BY <2>2
  <2>9. {".continue", ".break"} \subseteq Jumps
    BY DEF Jumps
  <2>4. Pruned(gs, g, Top.base)
    BY <2>9, BuiltinTop, RemoveExceptionsEffect
  <2>5. g \in CallStacks /\ Top.base \in 0 .. Len(g.errors) /\ Top.base \in Nat
    BY <2>4, BuiltinTop, CallStackErrors DEF Pruned
  <2> HIDE DEF g
  <2>6. Pruned(g, h, Top.base)
    BY <2>5, <2>9, RemoveExceptionsEffect
  <2> HIDE DEF h
  <2>7. Pruned(gs, h, Top.base) /\ h \in CallStacks
    <3>1. Pruned(gs, h, Top.base)
      BY <2>4, <2>5, <2>6, PrunedOn
    <3> QED BY <3>1 DEF Pruned
  <2>8. AtPlain(pc)
    BY <2>1, ControlPlaces, PlainAt DEF Loops
  <2> QED BY <2>1, <2>2, <2>3, <2>7, <2>8, Grown, AdvancePruned
<1> QED BY <1>1, <1>2, <1>3, <1>4, <1>5, <1>6, <1>7, <1>8

LEMMA IfThrowsGrows ==
  ASSUME NEW g \in CallStacks, NEW c, NEW name \in ShellExceptions,
         IfThrows(g, c, name)
  PROVE  Grows(g, gs') /\ stack' = Goto("return")
BY Grown, ThrownNames DEF IfThrows

LEMMA IfsAdvance ==
  ASSUME ShellInvariant, Rooted(stack),
         EnterIf \/ IfCore \/ IfTested \/ IfReturned
  PROVE  Advancing
<1>1. Top.what \in IfKinds
  BY DEF EnterIf, IfCore, IfTested, IfReturned
<1>2. \A pc \in {"return", "core", "body", "tested"} : AtPlain(pc)
  BY <1>1, ControlPlaces, PlainAt
<1>3. gs \in CallStacks /\ Grows(gs, gs)
  BY BuiltinTop, Grown
<1>4. {".if_before_else", ".else_without_if", ".bad_if_nest"} \subseteq ShellExceptions
  BY ThrownNames
<1>5. ASSUME NEW c, NEW name \in ShellExceptions, IfThrows(gs, c, name),
             UNCHANGED inAuto
      PROVE  Advancing
  BY <1>2, <1>3, <1>5, IfThrowsGrows, AdvanceGoto
<1>6. ASSUME NEW pc \in {"return", "core"}, gs' = gs, stack' = Goto(pc),
             UNCHANGED inAuto
      PROVE  Advancing
  BY <1>2, <1>3, <1>6, AdvanceGoto
<1>7. CASE EnterIf
  BY <1>4, <1>5, <1>6, <1>7 DEF EnterIf
<1>8. CASE IfCore
  <2>1. CASE Call(gs, Calling("body"), Argfunction) /\ UNCHANGED inAuto
    BY <1>2, <1>3, <2>1, BuiltinTop, AdvanceRun
  <2>2. ASSUME NEW c \in Conditions \cup {ThrowOf(".false")},
               Run(gs, Calling("tested"), c)
        PROVE  Advancing
    BY <1>2, <1>3, <2>2, BuiltinTop, AdvanceRun
  <2> QED BY <1>4, <1>5, <1>6, <1>8, <2>1, <2>2 DEF IfCore
<1>9. CASE IfTested
  <2>1. UNCHANGED inAuto /\ Top.what \in Loops \cup IfKinds
    BY <1>1, <1>9 DEF IfTested
  <2>2. CASE gs' = AfterCondition /\ stack' = Goto("return")
    BY <1>2, <2>1, <2>2, Struck, Grown, AdvancePruned
  <2>3. ASSUME NEW c, IfThrows(AfterCondition, c, ".bad_if_nest")
        PROVE  Advancing
    BY <1>2, <1>4, <2>1, <2>3, Struck, IfThrowsGrows, AdvancePruned
  <2>4. CASE Call(AfterCondition, Calling("body"), Argfunction)
    BY <1>2, <2>1, <2>4, Struck, BuiltinTop, AdvanceRun
  <2> QED BY <1>9, <2>2, <2>3, <2>4 DEF IfTested
<1>10. CASE IfReturned
  BY <1>4, <1>5, <1>6, <1>10 DEF IfReturned
<1> QED BY <1>7, <1>8, <1>9, <1>10

LEMMA SourcesAdvance ==
  ASSUME ShellInvariant, Rooted(stack), EnterSource \/ SourceLine \/ SourceGot
  PROVE  Advancing
<1>1. Top.what = "source" /\ UNCHANGED inAuto
  BY DEF EnterSource, SourceLine, SourceGot
<1>2. \A pc \in {"return", "line", "unused", "read", "statement"} : AtPlain(pc)
  BY <1>1, ControlPlaces, PlainAt
<1>3. gs \in CallStacks /\ Grows(gs, gs) /\ ".file_open_failure" \in Names
  BY BuiltinTop, Grown, ThrownNames
<1>4. CASE EnterSource
  <2>1. CASE stack' = Goto("line") /\ gs' = gs
    BY <1>1, <1>2, <1>3, <2>1, AdvanceGoto
  <2>2. CASE stack' = Goto("return") /\ gs' = AddError(gs, ".file_open_failure")
    BY <1>1, <1>2, <1>3, <2>2, Grown, AdvanceGoto
  <2> QED BY <1>4, <2>1, <2>2 DEF EnterSource
<1>5. CASE SourceLine
  <2>1. gs' = gs /\ \E pc \in {"unused", "read"} : stack' = Goto(pc)
    BY <1>5 DEF SourceLine
  <2> QED BY <1>1, <1>2, <1>3, <2>1, AdvanceGoto
<1>6. CASE SourceGot
  <2>1. gs' = gs /\ \E pc \in {"unused", "statement"} : stack' = Goto(pc)
    BY <1>6 DEF SourceGot
  <2> QED BY <1>1, <1>2, <1>3, <2>1, AdvanceGoto
<1> QED BY <1>4, <1>5, <1>6

\* operator() is through: it leaves, or runs the handler of a signal first.
Leaves == Plain(Top) /\ Grows(gs, gs') /\ stack' = Popped /\ UNCHANGED inAuto

LEMMA ReturnLeaves ==
  ASSUME ShellInvariant, Rooted(stack), Return \/ SignalHandled
  PROVE  Advancing \/ Leaves
<1>1. gs \in CallStacks /\ gs.nesting \in Int /\ gs.signal \in Names
  BY BuiltinTop DEF CallStacks
<1>2. Top.what \in Kinds /\ Top.pc \in {"return", "signal"}
  BY DEF Return, SignalHandled
<1>3. Plain(Top) /\ AtPlain("signal")
  <2>1. Plain(Top)
    BY <1>2 DEF Plain, Absorbing, Choosing, Between, HelperKinds, Kinds
  <2>2. "signal" \in Places
    BY ControlPlaces
  <2> QED BY <1>2, <2>1, <2>2 DEF AtPlain
<1>4. CASE SignalHandled
  BY <1>1, <1>3, <1>4, Grown DEF SignalHandled, Leaves
<1>5. CASE Return
  <2> DEFINE g == [gs EXCEPT !.nesting = gs.nesting - 1]
             h == [g EXCEPT !.signal = NoSignal]
  <2>1. Grows(gs, g) /\ g \in CallStacks /\ g.signal = gs.signal
    BY <1>1, NestingEffect DEF CallStacks
  <2>2. IF g.signal = NoSignal
        THEN gs' = g /\ stack' = Popped /\ UNCHANGED inAuto
        ELSE Run(h, Calling("signal"), CallOf(g.signal))
    BY <1>5 DEF Return
  <2> HIDE DEF g
  <2>3. Grows(g, h) /\ h \in CallStacks
    BY <2>1, NamesInUse, SignalEffect DEF CallStacks
  <2> HIDE DEF h
  <2>4. Grows(gs, h)
    BY <2>1, <2>3, GrowsOn
  <2>5. CASE gs' = g /\ stack' = Popped /\ UNCHANGED inAuto
    BY <1>3, <2>1, <2>5 DEF Leaves
  <2>6. CASE Run(h, Calling("signal"), CallOf(g.signal))
    <3>1. CallOf(g.signal) \in Statements
      BY <1>1, <2>1, StatementsTyped
    <3> QED BY <1>3, <2>3, <2>4, <2>6, <3>1, AdvanceRun
  <2> QED BY <2>2, <2>5, <2>6
<1> QED BY <1>4, <1>5

\* The steps that are left are looked at one by one.
Advancers ==
  \/ EnterFunction \/ BadArguments \/ EnterBlock \/ NextStatement
  \/ UndefinedVariable \/ RunStatement \/ AfterStatement \/ UnusedVariables
  \/ Throw \/ Exit \/ Try \/ TryReturned \/ Store \/ Stored
  \/ WhileTest \/ WhileTested \/ ForNext \/ ForEnd \/ EnterStepwise
  \/ StepwiseNext \/ StepwiseRun \/ LoopReturned
  \/ EnterIf \/ IfCore \/ IfTested \/ IfReturned
  \/ EnterSource \/ SourceLine \/ SourceGot

LEMMA Advanced ==
  ASSUME ShellInvariant, Rooted(stack), Advancers
  PROVE  Advancing
BY BodiesAdvance, SimpleAdvance, LoopsAdvance, IfsAdvance, SourcesAdvance
   DEF Advancers

-----------------------------------------------------------------------------
\* Origins holds in every state.

LEMMA TopOfOrigins ==
  ASSUME ShellInvariant, Rooted(stack)
  PROVE  /\ stack \in Seq(Frames) /\ Len(stack) \in Nat \ {0}
         /\ Top = stack[Len(stack)] /\ Top \in Frames /\ FromScript(Top)
         /\ Popped = SubSeq(stack, 1, Len(stack) - 1)
         /\ Top.what # "main" => Len(stack) > 1
         /\ Top.what = "main" => Len(stack) = 1 /\ Top.base = 0
         /\ Top.what \in Kinds \cup {"autofunction"} => Len(stack) > 2
         /\ gs \in CallStacks /\ inAuto \in BOOLEAN /\ Len(gs.errors) \in Nat
<1>1. /\ stack \in Seq(Frames) /\ Len(stack) \in Nat \ {0}
      /\ Top = stack[Len(stack)] /\ Top \in Frames
      /\ Popped = SubSeq(stack, 1, Len(stack) - 1)
      /\ gs \in CallStacks /\ inAuto \in BOOLEAN /\ Len(gs.errors) \in Nat
  BY LastOK, TopOK DEF ShellInvariant, Top, Popped
<1>2. stack[1].what = "main" /\ stack[1].base = 0 /\ OriginAt(stack, Len(stack))
  <2>1. Len(stack) \in 1 .. Len(stack)
    BY <1>1
  <2> QED BY <2>1 DEF Rooted
<1>3. /\ FromScript(Top)
      /\ Len(stack) > 1 => Top.what # "main"
      /\ Len(stack) = 2 => Top.what \in HelperKinds \ {"autofunction"}
  BY <1>1, <1>2 DEF OriginAt
<1>0. Len(stack) \in Nat \ {0}
  BY <1>1
<1> DEFINE n == Len(stack)
<1>4. Len(stack) > 1 \/ Len(stack) = 1
  <2>1. n \in Nat \ {0}
    BY <1>0
  <2> HIDE DEF n
  <2>2. n > 1 \/ n = 1
    BY <2>1
  <2> QED BY <2>2 DEF n
<1>5. Len(stack) = 1 => Top.what = "main" /\ Top.base = 0
  BY <1>1, <1>2
<1>6. \A what \in Kinds \cup {"autofunction"} :
        what # "main" /\ what \notin HelperKinds \ {"autofunction"}
  BY DEF Kinds, HelperKinds
<1>7. Top.what \in Kinds \cup {"autofunction"} => Len(stack) # 1 /\ Len(stack) # 2
  BY <1>3, <1>5, <1>6
<1>8. Top.what \in Kinds \cup {"autofunction"} => Len(stack) > 2
  <2>1. n \in Nat \ {0} /\ (Top.what \in Kinds \cup {"autofunction"} => n # 1 /\ n # 2)
    BY <1>0, <1>7
  <2> HIDE DEF n
  <2>2. n # 1 /\ n # 2 => n > 2
    BY <2>1
  <2> QED BY <2>1, <2>2 DEF n
<1> QED BY <1>1, <1>3, <1>4, <1>5, <1>8

LEMMA OriginsFlags ==
  ASSUME NEW g, NEW h, NEW auto, NEW s, Origins(g, auto, s),
         h.inHandler = g.inHandler
  PROVE  Origins(h, auto, s)
BY DEF Origins, FlagOK

LEMMA OriginsAdvance ==
  ASSUME ShellInvariant, Origins(gs, inAuto, stack), inAuto' \in BOOLEAN,
         Advancing
  PROVE  Origins(gs', inAuto', stack')
<1>1. PICK k \in CallStacks, f \in Frames :
        /\ Grows(gs, k) \/ Pruned(gs, k, Top.base)
        /\ Successor(f, Top) /\ Plain(f)
        /\ Continues(k, [stack EXCEPT ![Len(stack)] = f], inAuto,
                     gs', stack', inAuto')
  BY DEF Advancing, Advances, Top
<1> DEFINE t == [stack EXCEPT ![Len(stack)] = f]
<1>2. Rooted(stack) /\ Plain(Top)
  BY DEF Origins, Advancing, Advances, Top
<1>3. k.inHandler = gs.inHandler
  BY <1>1 DEF Grows, Pruned
<1>4. /\ stack \in Seq(Frames) /\ Len(stack) > 1 /\ Top = stack[Len(stack)]
      /\ Len(stack) \in Nat /\ inAuto \in BOOLEAN
  BY <1>2, TopOfOrigins DEF Plain
<1>5. ~Catching(Top) /\ ~Between(Top) /\ ~Choosing(f)
  BY <1>1, <1>2 DEF Plain, Absorbing, Catching, Between, Choosing, Kinds, HelperKinds
<1>6. Origins(k, inAuto, t)
  BY <1>1, <1>3, <1>4, <1>5, OriginsSet DEF Successor
<1>7. t \in Seq(Frames) /\ Len(t) > 1 /\ ~Choosing(t[Len(t)])
  BY <1>1, <1>4, <1>5, Replaced
<1>8. Continues(k, t, inAuto, gs', stack', inAuto')
  BY <1>1
<1> HIDE DEF t
<1> QED BY <1>4, <1>6, <1>7, <1>8, OriginsContinue

\* The helper routines that come on top of a routine that calls them.
LEMMA HandlingFrame ==
  ASSUME NEW what \in {"run_handling", "base_run"}, NEW c \in Statements,
         NEW base \in Nat, NEW n \in Nat
  PROVE  LET f == [Frame(what, "ran", c, base) EXCEPT !.mark = n]
         IN  /\ f \in Frames /\ FromScript(f) /\ f.what = what
             /\ f.base = base /\ f.mark = n /\ f.pc = "ran"
<1>1. what \in HelperKinds /\ what \notin Kinds /\ "ran" \in Places
  BY DEF HelperKinds, Kinds, Places
<1>2. Frame(what, "ran", c, base) \in Frames /\ FromScript(Frame(what, "ran", c, base))
  BY <1>1, NewFromScript
<1>3. /\ Frame(what, "ran", c, base).what = what
      /\ Frame(what, "ran", c, base).base = base
      /\ Frame(what, "ran", c, base).pc = "ran"
  BY DEF Frame
<1> DEFINE e == Frame(what, "ran", c, base)
<1> HIDE DEF e
<1>4. ASSUME NEW d \in Frames, FromScript(d)
      PROVE  /\ [d EXCEPT !.mark = n] \in Frames
             /\ FromScript([d EXCEPT !.mark = n])
             /\ [d EXCEPT !.mark = n].what = d.what
             /\ [d EXCEPT !.mark = n].base = d.base
             /\ [d EXCEPT !.mark = n].pc = d.pc
             /\ [d EXCEPT !.mark = n].mark = n
  BY <1>4 DEF Frames, FromScript
<1> QED BY <1>2, <1>3, <1>4

LEMMA OriginsHandling ==
  ASSUME NEW g \in CallStacks, NEW s \in Seq(Frames), Len(s) > 0,
         Origins(g, inAuto, s), ~Choosing(s[Len(s)]),
         inAuto \in BOOLEAN, inAuto' \in BOOLEAN,
         NEW what \in {"run_handling", "base_run"}, NEW base \in Nat,
         NEW c \in Statements, RunHandling(g, s, what, base, c)
  PROVE  Origins(gs', inAuto', stack')
<1> DEFINE f == [Frame(what, "ran", c, base) EXCEPT !.mark = Len(g.errors)]
           t == Append(s, f)
<1>1. /\ f \in Frames /\ FromScript(f) /\ f.what = what /\ f.pc = "ran"
  <2>1. Len(g.errors) \in Nat
    BY CallStackErrors
  <2> QED BY <2>1, HandlingFrame
<1>2. Run(g, t, c)
  BY DEF RunHandling
<1> HIDE DEF f
<1>3. /\ f.what \in HelperKinds \ {"autofunction"} /\ f.what # "main"
      /\ f.what # "autofunction" /\ ~Choosing(f)
  BY <1>1 DEF HelperKinds, Choosing, Between
<1>4. Origins(g, inAuto, t)
  BY <1>1, <1>3, OriginsPush
<1>5. t \in Seq(Frames) /\ Len(t) > 1 /\ t[Len(t)] = f
  BY <1>1, Pushed
<1> HIDE DEF t
<1>6. Continues(g, t, inAuto, gs', stack', inAuto')
  BY <1>2, RunContinues
<1> QED BY <1>3, <1>4, <1>5, <1>6, OriginsContinue

\* The other helper routines.
LEMMA HelperFrame ==
  ASSUME NEW what \in {"run_if_exists", "catch_one"}, NEW c \in Statements,
         NEW g \in CallStacks
  PROVE  LET f == Frame(what, "ran", c, Len(g.errors))
         IN  /\ f \in Frames /\ FromScript(f) /\ f.what = what
             /\ f.base = Len(g.errors) /\ f.mark = Len(g.errors)
             /\ f.pc = "ran"
<1>1. what \in HelperKinds /\ what \notin Kinds /\ "ran" \in Places
  BY DEF HelperKinds, Kinds, Places
<1>2. ASSUME NEW n \in Nat
      PROVE  /\ Frame(what, "ran", c, n) \in Frames
             /\ FromScript(Frame(what, "ran", c, n))
  BY <1>1, NewFromScript
<1>3. Len(g.errors) \in Nat
  BY CallStackErrors
<1>4. /\ Frame(what, "ran", c, Len(g.errors)).what = what
      /\ Frame(what, "ran", c, Len(g.errors)).pc = "ran"
      /\ Frame(what, "ran", c, Len(g.errors)).base = Len(g.errors)
      /\ Frame(what, "ran", c, Len(g.errors)).mark = Len(g.errors)
  BY DEF Frame
<1> QED BY <1>2, <1>3, <1>4

LEMMA OriginsIfExists ==
  ASSUME NEW g \in CallStacks, NEW s \in Seq(Frames), Len(s) > 0,
         Origins(g, inAuto, s), ~Choosing(s[Len(s)]),
         inAuto \in BOOLEAN, UNCHANGED inAuto,
         NEW name \in Names, RunIfExists(g, s, name)
  PROVE  Origins(gs', inAuto', stack')
<1> DEFINE c == CallOf(name)
           f == Frame("run_if_exists", "ran", c, Len(g.errors))
           t == Append(s, f)
<1>1. c \in Statements
  BY StatementsTyped
<1>2. CASE name \in Defined
  <2>1. Call(g, t, c)
    BY <1>2 DEF RunIfExists
  <2>2. f \in Frames /\ FromScript(f) /\ f.what = "run_if_exists" /\ f.pc = "ran"
    <3> HIDE DEF c
    <3> QED BY <1>1, HelperFrame
  <2> HIDE DEF c, f
  <2>3. /\ f.what \in HelperKinds \ {"autofunction"} /\ f.what # "main"
        /\ f.what # "autofunction" /\ ~Choosing(f)
    BY <2>2 DEF HelperKinds, Choosing, Between
  <2>4. Origins(g, inAuto, t)
    BY <2>2, <2>3, OriginsPush
  <2>5. /\ t \in Seq(Frames) /\ Len(t) = Len(s) + 1 /\ Len(s) \in Nat
        /\ t[Len(s) + 1] = f
    BY <2>2, Pushed
  <2>6. Len(t) > 1 /\ t[Len(t)] = f
    BY <2>5
  <2> HIDE DEF t
  <2>7. Continues(g, t, inAuto, gs', stack', inAuto')
    BY <1>1, <2>1, CallContinues
  <2> QED BY <2>3, <2>4, <2>5, <2>6, <2>7, OriginsContinue
<1>3. CASE name \notin Defined
  BY <1>3 DEF RunIfExists
<1> QED BY <1>2, <1>3

LEMMA StartedFrame ==
  ASSUME NEW base \in Nat
  PROVE  LET f == HandlerFrame(base)
         IN  /\ f \in Frames /\ FromScript(f) /\ f.what = "handler"
             /\ f.pc = "next" /\ f.base = base
<1>1. "next" \in Places /\ "handler" \in HelperKinds /\ "handler" \notin Kinds
  BY DEF Places, HelperKinds, Kinds
<1>2. ASSUME NEW c \in Statements
      PROVE  /\ Frame("handler", "next", c, base) \in Frames
             /\ FromScript(Frame("handler", "next", c, base))
  BY <1>1, NewFromScript
<1>3. /\ HandlerFrame(base) = Frame("handler", "next", Argfunction, base)
      /\ HandlerFrame(base).what = "handler" /\ HandlerFrame(base).pc = "next"
      /\ HandlerFrame(base).base = base
  BY DEF HandlerFrame, Frame
<1> QED BY <1>2, <1>3, StatementsTyped

LEMMA OriginsStart ==
  ASSUME NEW g, NEW s \in Seq(Frames), Len(s) > 0, NEW auto,
         Origins(g, auto, s), ~Choosing(s[Len(s)]),
         NEW base \in Nat, StartHandler(g, s, base)
  PROVE  Origins(gs', auto, stack')
<1> DEFINE f == HandlerFrame(base)
<1>1. f \in Frames /\ FromScript(f) /\ f.what = "handler" /\ f.pc = "next"
  BY StartedFrame
<1>2. stack' = Append(s, f)
  BY DEF StartHandler
<1> HIDE DEF f
<1>3. /\ f.what \in HelperKinds \ {"autofunction"} /\ f.what # "main"
      /\ f.what # "autofunction" /\ Between(f)
  BY <1>1 DEF HelperKinds, Between
<1> QED BY <1>1, <1>2, <1>3, OriginsPush

LEMMA OriginsCatchOne ==
  ASSUME NEW g \in CallStacks, NEW s \in Seq(Frames), Len(s) > 0,
         Origins(g, inAuto, s), ~Choosing(s[Len(s)]),
         inAuto \in BOOLEAN, inAuto' \in BOOLEAN,
         NEW c \in Statements, CatchOne(g, s, c)
  PROVE  Origins(gs', inAuto', stack')
<1> DEFINE f == Frame("catch_one", "ran", c, Len(g.errors))
           t == Append(s, f)
           h == [g EXCEPT !.inHandler = TRUE, !.unwind = FALSE]
<1>1. f \in Frames /\ FromScript(f) /\ f.what = "catch_one" /\ f.pc = "ran"
  BY HelperFrame
<1>2. Run(h, t, c) /\ h \in CallStacks
  BY DEF CatchOne, CallStacks
<1> HIDE DEF f, h
<1>3. /\ f.what \in HelperKinds \ {"autofunction"} /\ f.what # "main"
      /\ f.what # "autofunction" /\ ~Choosing(f) /\ Catching(f)
  BY <1>1 DEF HelperKinds, Choosing, Between, Catching
<1>4. Origins(h, inAuto, t)
  BY <1>1, <1>3, OriginsPush
<1>5. /\ t \in Seq(Frames) /\ Len(t) = Len(s) + 1 /\ Len(s) \in Nat
      /\ t[Len(s) + 1] = f
  BY <1>1, Pushed
<1>6. Len(t) > 1 /\ t[Len(t)] = f
  BY <1>5
<1> HIDE DEF t
<1>7. Continues(h, t, inAuto, gs', stack', inAuto')
  BY <1>2, RunContinues
<1> QED BY <1>2, <1>3, <1>4, <1>5, <1>6, <1>7, OriginsContinue

\* A routine at another place.
LEMMA SetFrame ==
  ASSUME ShellInvariant, ShellInvariant', NEW f, stack' = SetTop(f)
  PROVE  f \in Frames
<1>1. /\ stack \in Seq(Frames) /\ Len(stack) \in Nat \ {0}
      /\ stack' \in Seq(Frames)
  BY LastOK DEF ShellInvariant, StackOK
<1>2. Len(stack) \in DOMAIN stack /\ DOMAIN stack' = DOMAIN stack
  BY <1>1 DEF SetTop
<1>3. stack'[Len(stack)] = f
  BY <1>2 DEF SetTop
<1>4. stack'[Len(stack)] \in Frames
  BY <1>1, <1>2
<1> QED BY <1>3, <1>4

LEMMA OriginsMoved ==
  ASSUME ShellInvariant, Origins(gs, inAuto, stack), NEW f \in Frames,
         f.what = Top.what, f.base = Top.base, FromScript(f),
         NEW g, g.inHandler => \/ Catching(f) \/ Between(f)
                               \/ /\ gs.inHandler /\ ~Catching(Top)
                                  /\ ~Between(Top)
  PROVE  /\ Origins(g, inAuto, SetTop(f))
         /\ SetTop(f) \in Seq(Frames) /\ Len(SetTop(f)) = Len(stack)
         /\ SetTop(f)[Len(SetTop(f))] = f
<1>1. /\ stack \in Seq(Frames) /\ Len(stack) \in Nat \ {0} /\ Len(stack) > 0
      /\ Top = stack[Len(stack)]
  BY TopOfOrigins DEF Origins
<1> QED BY <1>1, OriginsSet, Replaced DEF SetTop

\* A routine that comes back to the one that called it.
LEMMA OriginsPopped ==
  ASSUME ShellInvariant, Origins(gs, inAuto, stack), Top.what # "main",
         NEW g, NEW auto, auto <=> inAuto /\ Top.what # "autofunction",
         g.inHandler => gs.inHandler /\ ~Catching(Top) /\ ~Between(Top)
  PROVE  /\ Origins(g, auto, Popped)
         /\ Popped \in Seq(Frames) /\ Len(Popped) = Len(stack) - 1
         /\ Len(Popped) > 0
         /\ ~Choosing(Popped[Len(Popped)])
<1>1. /\ stack \in Seq(Frames) /\ Len(stack) \in Nat \ {0} /\ Len(stack) > 1
      /\ Top = stack[Len(stack)]
  BY TopOfOrigins DEF Origins
<1>2. Origins(g, auto, Popped) /\ ~Choosing(Popped[Len(Popped)])
  BY <1>1, OriginsPop DEF Popped
<1>3. Popped \in Seq(Frames) /\ Len(Popped) = Len(stack) - 1
  BY <1>1, Shortened DEF Popped
<1>4. Len(stack) - 1 > 0
  BY <1>1
<1> QED BY <1>2, <1>3, <1>4

\* The steps that come back to the routine that called.
LEMMA OriginsReturns ==
  ASSUME ShellInvariant, ShellInvariant', Origins(gs, inAuto, stack),
         \/ SecondLookup \/ Leaves \/ Substituted \/ HandlersDone
         \/ RanHandling \/ RanIfExists \/ CaughtOne
  PROVE  Origins(gs', inAuto', stack')
<1>1. /\ gs \in CallStacks /\ gs' \in CallStacks
      /\ inAuto \in BOOLEAN /\ inAuto' \in BOOLEAN /\ Rooted(stack)
      /\ Top \in Frames /\ FromScript(Top) /\ Top.base \in Nat
  BY TopOfOrigins, CallStackErrors DEF ShellInvariant, StackOK, Origins, Frames
<1>2. CASE SecondLookup
  <2>1. /\ Top.what = "autofunction" /\ inAuto' = FALSE
        /\ \/ Call(gs, Popped, Top.cmd)
           \/ gs' = AddError(gs, ".function_not_found") /\ stack' = Popped
    BY <1>2 DEF SecondLookup
  <2>2. /\ Origins(gs, inAuto', Popped) /\ ~Choosing(Popped[Len(Popped)])
        /\ Popped \in Seq(Frames) /\ Len(Popped) > 1
    <3>1. Len(stack) > 2 /\ Len(stack) \in Nat /\ Top.what # "main"
      BY <1>1, <2>1, TopOfOrigins
    <3>2. ~Catching(Top) /\ ~Between(Top)
      BY <2>1 DEF Catching, Between
    <3>3. Len(stack) - 1 > 1
      BY <3>1
    <3> QED BY <2>1, <3>1, <3>2, <3>3, OriginsPopped
  <2>3. Top.cmd \in Statements
    BY <1>1 DEF FromScript
  <2>4. Grows(gs, gs') /\ (stack' = Popped \/ (~gs'.unwind /\ stack' = Entered(Popped, Top.cmd, gs')))
    <3>1. CASE Call(gs, Popped, Top.cmd)
      BY <1>1, <3>1, CallEffect
    <3>2. CASE gs' = AddError(gs, ".function_not_found") /\ stack' = Popped
      BY <1>1, <3>2, AddErrorEffect, ShellNames DEF ShellExceptions
    <3> QED BY <2>1, <3>1, <3>2
  <2>5. Continues(gs, Popped, inAuto', gs', stack', inAuto')
    BY <2>3, <2>4 DEF Continues
  <2> QED BY <1>1, <2>2, <2>5, OriginsContinue
<1>3. CASE Leaves
  <2>1. /\ Plain(Top) /\ gs'.inHandler = gs.inHandler /\ stack' = Popped
        /\ inAuto' = inAuto
    BY <1>3 DEF Leaves, Grows
  <2>2. /\ Top.what # "main" /\ Top.what # "autofunction" /\ ~Catching(Top)
        /\ ~Between(Top)
    BY <2>1 DEF Plain, Kinds, Absorbing, Catching, Choosing
  <2> QED BY <1>1, <2>1, <2>2, OriginsPopped
<1>4. CASE Substituted \/ HandlersDone \/ CaughtOne
  <2>1. /\ stack' = Popped /\ inAuto' = inAuto
        /\ Top.what \in {"substitution", "handler", "catch_one"}
    BY <1>4 DEF Substituted, HandlersDone, CaughtOne
  <2>2. gs'.inHandler => gs.inHandler /\ Top.what = "substitution"
    BY <1>1, <1>4 DEF Substituted, HandlersDone, CaughtOne, AddErrorIf, AddError, CallStacks
  <2>3. Top.what = "substitution" => ~Catching(Top) /\ ~Between(Top)
    BY DEF Catching, Between
  <2> QED BY <1>1, <2>1, <2>2, <2>3, OriginsPopped
<1>5. CASE RanHandling
  <2>1. PICK g : /\ Top.what \in {"run_handling", "base_run"}
                 /\ g.inHandler = gs.inHandler /\ inAuto' = inAuto
                 /\ IF g.unwind THEN StartHandler(g, Popped, Top.base)
                    ELSE gs' = g /\ stack' = Popped
    <3> DEFINE u == Top.what = "base_run" /\ gc.in_if /\ ~gc.thrown
               g == AddErrorIf(u, gs, ".unfinished_if_block")
    <3>1. g.inHandler = gs.inHandler
      BY <1>1 DEF AddErrorIf, AddError, CallStacks
    <3>2. /\ Top.what \in {"run_handling", "base_run"} /\ inAuto' = inAuto
          /\ IF g.unwind THEN StartHandler(g, Popped, Top.base)
             ELSE gs' = g /\ stack' = Popped
      BY <1>5 DEF RanHandling
    <3> HIDE DEF g
    <3> QED BY <3>1, <3>2
  <2>2. /\ Origins(g, inAuto, Popped) /\ Popped \in Seq(Frames)
        /\ Len(Popped) > 0 /\ ~Choosing(Popped[Len(Popped)])
    <3>1. /\ Top.what # "main" /\ Top.what # "autofunction" /\ ~Catching(Top)
          /\ ~Between(Top)
      BY <2>1 DEF Catching, Between
    <3> QED BY <2>1, <3>1, OriginsPopped
  <2> QED BY <1>1, <2>1, <2>2, OriginsStart
<1>6. CASE RanIfExists
  <2>1. /\ Top.what = "run_if_exists" /\ inAuto' = inAuto
        /\ IF gs.unwind THEN StartHandler(gs, Popped, Top.base)
           ELSE gs'.inHandler = gs.inHandler /\ stack' = Popped
    BY <1>1, <1>6 DEF RanIfExists, DestroyList, CallStacks
  <2>2. ASSUME NEW g, g.inHandler = gs.inHandler
        PROVE  /\ Origins(g, inAuto, Popped) /\ Popped \in Seq(Frames)
               /\ Len(Popped) > 0 /\ ~Choosing(Popped[Len(Popped)])
    <3>1. /\ Top.what # "main" /\ Top.what # "autofunction" /\ ~Catching(Top)
          /\ ~Between(Top)
      BY <2>1 DEF Catching, Between
    <3> QED BY <2>2, <3>1, OriginsPopped
  <2> QED BY <1>1, <2>1, <2>2, OriginsStart
<1> QED BY <1>2, <1>3, <1>4, <1>5, <1>6

\* A substitution is run on top of the routine that interprets its statement.
LEMMA SubstitutionFrame ==
  ASSUME NEW n \in Nat, NEW b \in BOOLEAN
  PROVE  LET f == [Frame("substitution", "ran", Argfunction, n) EXCEPT !.flag = b]
         IN  /\ f \in Frames /\ FromScript(f) /\ f.what = "substitution"
             /\ f.base = n /\ f.mark = n /\ f.pc = "ran" /\ f.flag = b
<1>1. /\ "substitution" \in HelperKinds /\ "substitution" \notin Kinds
      /\ "ran" \in Places
  BY DEF HelperKinds, Kinds, Places
<1>2. ASSUME NEW c \in Statements
      PROVE  /\ Frame("substitution", "ran", c, n) \in Frames
             /\ FromScript(Frame("substitution", "ran", c, n))
  BY <1>1, NewFromScript
<1>3. ASSUME NEW d \in Frames, FromScript(d)
      PROVE  /\ [d EXCEPT !.flag = b] \in Frames
             /\ FromScript([d EXCEPT !.flag = b])
             /\ [d EXCEPT !.flag = b].what = d.what
             /\ [d EXCEPT !.flag = b].base = d.base
             /\ [d EXCEPT !.flag = b].mark = d.mark
             /\ [d EXCEPT !.flag = b].pc = d.pc
             /\ [d EXCEPT !.flag = b].flag = b
  BY <1>3 DEF Frames, FromScript
<1>4. /\ Frame("substitution", "ran", Argfunction, n).what = "substitution"
      /\ Frame("substitution", "ran", Argfunction, n).base = n
      /\ Frame("substitution", "ran", Argfunction, n).mark = n
      /\ Frame("substitution", "ran", Argfunction, n).pc = "ran"
  BY DEF Frame
<1> QED BY <1>2, <1>3, <1>4, StatementsTyped

LEMMA OriginsSubstitute ==
  ASSUME ShellInvariant, ShellInvariant', Origins(gs, inAuto, stack), Substitute
  PROVE  Origins(gs', inAuto', stack')
<1>1. /\ gs \in CallStacks /\ Len(gs.errors) \in Nat /\ gs.unwind \in BOOLEAN
      /\ inAuto \in BOOLEAN /\ inAuto' \in BOOLEAN
      /\ stack \in Seq(Frames) /\ Len(stack) \in Nat \ {0} /\ Len(stack) > 0
      /\ Top = stack[Len(stack)]
  BY TopOfOrigins DEF ShellInvariant, CallStacks, Origins
<1> DEFINE f == [Frame("substitution", "ran", Argfunction, Len(gs.errors))
                   EXCEPT !.flag = gs.unwind]
           g == [gs EXCEPT !.unwind = FALSE]
           t == Append(stack, f)
<1>2. /\ Call(g, t, Argfunction) /\ UNCHANGED inAuto /\ Top.pc = "arguments"
      /\ g \in CallStacks /\ g.inHandler = gs.inHandler
  BY <1>1 DEF Substitute, CallStacks
<1>3. f \in Frames /\ FromScript(f) /\ f.what = "substitution"
  BY <1>1, SubstitutionFrame
<1> HIDE DEF f, g
<1>4. /\ f.what \in HelperKinds \ {"autofunction"} /\ f.what # "main"
      /\ f.what # "autofunction" /\ ~Choosing(f) /\ ~Choosing(Top)
  BY <1>2, <1>3 DEF HelperKinds, Choosing, Between
<1>5. Origins(g, inAuto, t)
  BY <1>1, <1>2, <1>3, <1>4, OriginsPush
<1>6. /\ t \in Seq(Frames) /\ Len(t) = Len(stack) + 1 /\ t[Len(stack) + 1] = f
  BY <1>3, <1>1, Pushed
<1>7. Len(t) > 1 /\ t[Len(t)] = f
  BY <1>1, <1>6
<1> HIDE DEF t
<1>8. Continues(g, t, inAuto, gs', stack', inAuto')
  BY <1>2, CallContinues, StatementsTyped
<1> QED BY <1>1, <1>2, <1>4, <1>5, <1>6, <1>7, <1>8, OriginsContinue

\* The same statements, at another place.
LEMMA StillFromScript ==
  ASSUME NEW f, NEW top, FromScript(top), f.what = top.what, f.cmd = top.cmd,
         f.stmt \in Statements
  PROVE  FromScript(f)
BY DEF FromScript

LEMMA OriginsHandler ==
  ASSUME ShellInvariant, ShellInvariant', Origins(gs, inAuto, stack),
         HandleNext \/ HandlerReturned
  PROVE  Origins(gs', inAuto', stack')
<1>1. /\ gs \in CallStacks /\ Len(gs.errors) \in Nat
      /\ inAuto \in BOOLEAN /\ inAuto' \in BOOLEAN
      /\ stack \in Seq(Frames) /\ Len(stack) \in Nat \ {0}
      /\ Top = stack[Len(stack)] /\ Top \in Frames /\ FromScript(Top)
      /\ Top.base \in Nat /\ Top.stmt \in Statements
  BY TopOfOrigins DEF ShellInvariant, Origins, Frames, FromScript
<1>2. CASE HandleNext /\ gs.errors[Top.base + 1] \in Top.failed
  <2>1. /\ gs' = RemoveError(gs, Top.base + 1) /\ UNCHANGED <<inAuto, stack>>
    BY <1>2 DEF HandleNext
  <2>2. gs'.inHandler = gs.inHandler
    BY <1>1, <2>1 DEF RemoveError, CallStacks
  <2> QED BY <2>1, <2>2, OriginsFlags
<1>3. CASE HandleNext /\ gs.errors[Top.base + 1] \notin Top.failed
  <2> DEFINE n == Len(gs.errors)
             front == gs.errors[Top.base + 1]
             c == CallOf(front)
             f == [Top EXCEPT !.pc = "ran", !.prev = gs.count, !.stmt = c,
                              !.mark = n]
  <2>1. /\ Top.what = "handler" /\ Top.pc = "next" /\ n > Top.base
        /\ Run(gs, SetTop(f), c)
    BY <1>3 DEF HandleNext
  <2>2. front \in Names
    <3>1. Top.base + 1 \in 1 .. n
      BY <1>1, <2>1
    <3> QED BY <1>1, <3>1, CallStackErrors
  <2>3. n \in Nat /\ c \in Statements /\ gs.count \in Nat
    BY <1>1, <2>2, StatementsTyped, LimitsAssumption DEF CallStacks
  <2> HIDE DEF n, front, c
  <2>4. f \in Frames /\ f.what = "handler" /\ f.pc = "ran" /\ f.base = Top.base
        /\ FromScript(f)
    <3>1. c \in CommandType /\ "ran" \in Places
      BY <2>3, StatementsTyped DEF Places
    <3>2. f \in Frames
      BY <1>1, <2>3, <3>1 DEF Frames
    <3>3. /\ f.what = Top.what /\ f.pc = "ran" /\ f.base = Top.base
          /\ f.cmd = Top.cmd /\ f.stmt = c
      BY <1>1 DEF Frames
    <3> HIDE DEF f
    <3> QED BY <1>1, <2>1, <2>3, <3>2, <3>3, StillFromScript
  <2> HIDE DEF f
  <2>5. Catching(f) /\ ~Choosing(f)
    BY <2>4 DEF Catching, Choosing, Between
  <2>6. /\ Origins(gs, inAuto, SetTop(f)) /\ SetTop(f) \in Seq(Frames)
        /\ Len(SetTop(f)) = Len(stack) /\ SetTop(f)[Len(SetTop(f))] = f
    BY <2>1, <2>4, <2>5, OriginsMoved
  <2>7. Len(stack) > 1
    BY <2>1, TopOfOrigins DEF Origins
  <2>8. Continues(gs, SetTop(f), inAuto, gs', stack', inAuto')
    BY <1>1, <2>1, <2>3, RunContinues
  <2> QED BY <1>1, <2>5, <2>6, <2>7, <2>8, OriginsContinue
<1>4. CASE HandlerReturned
  <2>1. PICK S : /\ Top.what = "handler" /\ UNCHANGED inAuto
                 /\ stack' = SetTop([Top EXCEPT !.pc = "next", !.failed = S])
    BY <1>4 DEF HandlerReturned
  <2> DEFINE f == [Top EXCEPT !.pc = "next", !.failed = S]
  <2>2. f \in Frames
    BY <2>1, SetFrame
  <2>3. /\ f.what = Top.what /\ f.pc = "next" /\ f.base = Top.base
        /\ f.cmd = Top.cmd /\ f.stmt = Top.stmt
    BY <1>1 DEF Frames
  <2> HIDE DEF f
  <2>4. FromScript(f) /\ Between(f)
    BY <1>1, <2>1, <2>3, StillFromScript DEF Between
  <2> QED BY <2>1, <2>2, <2>3, <2>4, OriginsMoved DEF f
<1> QED BY <1>2, <1>3, <1>4 DEF HandleNext

\* Steps that leave the flag alone or lower it, and only go to another place.
LEMMA OriginsStays ==
  ASSUME ShellInvariant, ShellInvariant', Origins(gs, inAuto, stack),
         NEW f, stack' = SetTop(f), UNCHANGED inAuto,
         f.what = Top.what, f.base = Top.base, f.cmd = Top.cmd,
         f.stmt \in Statements,
         gs'.inHandler => \/ Catching(f) \/ Between(f)
                          \/ gs.inHandler /\ ~Catching(Top) /\ ~Between(Top)
  PROVE  Origins(gs', inAuto', stack')
<1>1. f \in Frames
  BY SetFrame
<1>2. FromScript(Top)
  BY TopOfOrigins DEF Origins
<1> QED BY <1>1, <1>2, StillFromScript, OriginsMoved

LEMMA GotoFields ==
  ASSUME NEW top \in Frames, NEW pc
  PROVE  /\ [top EXCEPT !.pc = pc].what = top.what
         /\ [top EXCEPT !.pc = pc].base = top.base
         /\ [top EXCEPT !.pc = pc].cmd = top.cmd
         /\ [top EXCEPT !.pc = pc].stmt = top.stmt
         /\ [top EXCEPT !.pc = pc].mark = top.mark
         /\ [top EXCEPT !.pc = pc].focus = top.focus
         /\ [top EXCEPT !.pc = pc].flag = top.flag
         /\ [top EXCEPT !.pc = pc].pc = pc
BY DEF Frames

LEMMA OriginsSame ==
  ASSUME ShellInvariant, ShellInvariant', Origins(gs, inAuto, stack),
         NEW pc, stack' = Goto(pc), UNCHANGED inAuto,
         ~Catching(Top), ~Between(Top), gs'.inHandler => gs.inHandler
  PROVE  Origins(gs', inAuto', stack')
<1>1. Top \in Frames /\ Top.stmt \in Statements
  BY TopOfOrigins DEF Origins, FromScript
<1> DEFINE f == [Top EXCEPT !.pc = pc]
<1>2. f.what = Top.what /\ f.base = Top.base /\ f.cmd = Top.cmd /\ f.stmt = Top.stmt
  BY <1>1, GotoFields
<1>3. stack' = SetTop(f)
  BY DEF Goto
<1> HIDE DEF f
<1> QED BY <1>1, <1>2, <1>3, OriginsStays

LEMMA OriginsOthers ==
  ASSUME ShellInvariant, ShellInvariant', Origins(gs, inAuto, stack),
         CatchSignal \/ Replace \/ StepwiseAborts
  PROVE  Origins(gs', inAuto', stack')
<1>1. gs \in CallStacks
  BY DEF ShellInvariant, StackOK
<1>2. CASE CatchSignal
  <2>1. UNCHANGED <<inAuto, stack>> /\ gs'.inHandler = gs.inHandler
    BY <1>1, <1>2 DEF CatchSignal, CallStacks
  <2> QED BY <2>1, OriginsFlags
<1>3. CASE Replace
  <2>1. /\ Top.what = "replace" /\ stack' = Goto("return") /\ UNCHANGED inAuto
        /\ gs'.inHandler = gs.inHandler
    BY <1>1, <1>3 DEF Replace, Finish, ReplaceError, AddError, CallStacks
  <2>2. ~Catching(Top) /\ ~Between(Top)
    BY <2>1 DEF Catching, Between
  <2> QED BY <2>1, <2>2, OriginsSame
<1>4. CASE StepwiseAborts
  <2> DEFINE f == Frame("main", "aborted", Argfunction, 0)
  <2>1. stack' = << f >> /\ inAuto' = FALSE /\ gs'.inHandler = FALSE
    BY <1>4 DEF StepwiseAborts, Abort, InitialCallStack
  <2>2. /\ f.what = "main" /\ f.base = 0 /\ f.cmd = Argfunction
        /\ f.stmt = Argfunction
    BY DEF Frame
  <2>3. Argfunction \in Statements /\ "main" \notin Kinds
    BY StatementsTyped DEF Kinds
  <2> HIDE DEF f
  <2>4. FromScript(f)
    BY <2>2, <2>3 DEF FromScript
  <2>5. stack'[1] = f /\ Len(stack') = 1
    BY <2>1
  <2>6. OriginAt(stack', 1)
    BY <2>4, <2>5 DEF OriginAt
  <2> QED BY <2>1, <2>2, <2>5, <2>6 DEF Origins, Rooted, AutoOK, FlagOK
<1> QED BY <1>2, <1>3, <1>4

LEMMA OriginsCollect ==
  ASSUME ShellInvariant, ShellInvariant', Origins(gs, inAuto, stack),
         \/ EnterCollect \/ CollectNext \/ CollectExcess \/ CollectEnd
         \/ CollectUndefined \/ CollectRun \/ CollectRan
  PROVE  Origins(gs', inAuto', stack')
<1>1. /\ gs \in CallStacks /\ Len(gs.errors) \in Nat /\ gs.unwind \in BOOLEAN
      /\ inAuto \in BOOLEAN /\ inAuto' \in BOOLEAN
      /\ stack \in Seq(Frames) /\ Len(stack) \in Nat \ {0}
      /\ Top = stack[Len(stack)] /\ Top \in Frames /\ FromScript(Top)
      /\ Top.base \in Nat /\ Top.stmt \in Statements
  BY TopOfOrigins DEF ShellInvariant, Origins, Frames, FromScript, CallStacks
<1>2. Top.what = "collect"
  BY DEF EnterCollect, CollectNext, CollectExcess, CollectEnd,
         CollectUndefined, CollectRun, CollectRan
<1>3. ~Catching(Top) /\ ~Between(Top)
  BY <1>2 DEF Catching, Between
<1>4. CASE EnterCollect \/ CollectExcess \/ CollectEnd \/ CollectUndefined \/ CollectRan
  <2>1. PICK pc : stack' = Goto(pc) /\ UNCHANGED inAuto
    <3>1. \/ stack' = Goto("next") /\ UNCHANGED inAuto
          \/ stack' = Goto("return") /\ UNCHANGED inAuto
      BY <1>4 DEF EnterCollect, CollectExcess, CollectEnd, CollectUndefined,
                  CollectRan, Finish
    <3> QED BY <3>1
  <2>2. gs'.inHandler = gs.inHandler
    <3>1. CASE EnterCollect
      BY <3>1 DEF EnterCollect
    <3>2. CASE CollectExcess
      BY <1>1, <3>2 DEF CollectExcess, AddErrorIf, AddError, CallStacks
    <3>3. CASE CollectEnd
      BY <1>1, <3>3 DEF CollectEnd, Finish, CallStacks
    <3>4. CASE CollectUndefined
      BY <1>1, <3>4 DEF CollectUndefined, AddError, DestroyList, CallStacks
    <3>5. CASE CollectRan
      BY <1>1, <3>5 DEF CollectRan, CallStacks
    <3> QED BY <1>4, <3>1, <3>2, <3>3, <3>4, <3>5
  <2> QED BY <1>3, <2>1, <2>2, OriginsSame
<1>5. CASE CollectNext
  <2>1. PICK c \in Commands :
          stack' = SetTop([Top EXCEPT !.pc = "arguments", !.stmt = c,
                                      !.mark = Len(gs.errors)])
    BY <1>5 DEF CollectNext
  <2> DEFINE f == [Top EXCEPT !.pc = "arguments", !.stmt = c,
                              !.mark = Len(gs.errors)]
  <2>2. UNCHANGED <<gs, inAuto>> /\ c \in Statements
    BY <1>5, StatementsTyped DEF CollectNext
  <2>3. f.what = Top.what /\ f.base = Top.base /\ f.cmd = Top.cmd /\ f.stmt = c
    BY <1>1 DEF Frames
  <2> HIDE DEF f
  <2> QED BY <1>3, <2>1, <2>2, <2>3, OriginsStays DEF f
<1>6. CASE CollectRun /\ gs.unwind
  <2>1. stack' = Goto("ran") /\ UNCHANGED <<gs, inAuto>>
    BY <1>6 DEF CollectRun
  <2> QED BY <1>3, <2>1, OriginsSame
<1>7. CASE CollectRun /\ ~gs.unwind
  <2> DEFINE f == [Top EXCEPT !.pc = "ran"]
  <2>1. Run(gs, SetTop(f), Top.stmt)
    BY <1>7 DEF CollectRun, Goto
  <2>2. f \in Frames
    BY <1>1 DEF Frames, Places
  <2>3. /\ f.what = Top.what /\ f.base = Top.base /\ f.cmd = Top.cmd
        /\ f.stmt = Top.stmt /\ f.pc = "ran"
    BY <1>1, GotoFields
  <2> HIDE DEF f
  <2>4. FromScript(f) /\ ~Choosing(f)
    BY <1>1, <1>2, <2>3, StillFromScript DEF Choosing, Between
  <2>5. /\ Origins(gs, inAuto, SetTop(f)) /\ SetTop(f) \in Seq(Frames)
        /\ Len(SetTop(f)) = Len(stack) /\ SetTop(f)[Len(SetTop(f))] = f
    BY <1>3, <2>2, <2>3, <2>4, OriginsMoved
  <2>6. Len(stack) > 1
    BY <1>2, TopOfOrigins DEF Origins
  <2>7. Continues(gs, SetTop(f), inAuto, gs', stack', inAuto')
    BY <1>1, <2>1, RunContinues
  <2> QED BY <1>1, <2>4, <2>5, <2>6, <2>7, OriginsContinue
<1> QED BY <1>4, <1>5, <1>6, <1>7

LEMMA OriginsCatch ==
  ASSUME ShellInvariant, ShellInvariant', Origins(gs, inAuto, stack),
         CatchNext \/ CatchReturned \/ CatchExcess \/ CatchDone
  PROVE  Origins(gs', inAuto', stack')
<1>1. /\ gs \in CallStacks /\ Len(gs.errors) \in Nat /\ gs.unwind \in BOOLEAN
      /\ inAuto \in BOOLEAN /\ inAuto' \in BOOLEAN
      /\ stack \in Seq(Frames) /\ Len(stack) \in Nat \ {0}
      /\ Top = stack[Len(stack)] /\ Top \in Frames /\ FromScript(Top)
      /\ Top.base \in Nat /\ Top.stmt \in Statements
      /\ FrameOK(Top, Len(gs.errors)) /\ Top.focus \in Nat /\ Top.base < Top.focus
  BY TopOfOrigins, TopOK DEF ShellInvariant, Origins, Frames, FromScript, CallStacks
<1>2. CASE CatchExcess
  <2>1. /\ Top.what = "try" /\ Top.pc = "catch" /\ stack' = Goto("return")
        /\ UNCHANGED inAuto /\ gs'.inHandler = gs.inHandler
    BY <1>1, <1>2 DEF CatchExcess, Finish, AddErrorIf, AddError, CallStacks
  <2>2. ~Catching(Top) /\ ~Between(Top)
    BY <2>1 DEF Catching, Between
  <2> QED BY <2>1, <2>2, OriginsSame
<1>3. CASE CatchDone
  <2>1. /\ Top.what = "try" /\ Top.pc = "catch" /\ stack' = Goto("return")
        /\ UNCHANGED inAuto /\ gs'.inHandler = FALSE
    BY <1>1, <1>3 DEF CatchDone, Finish, CallStacks
  <2>2. ~Catching(Top) /\ ~Between(Top)
    BY <2>1 DEF Catching, Between
  <2> QED BY <2>1, <2>2, OriginsSame
<1>4. CASE CatchReturned
  <2>1. PICK n, m : stack' = SetTop([Top EXCEPT !.pc = "catch", !.focus = n,
                                                !.dropped = m])
    BY <1>4 DEF CatchReturned
  <2> DEFINE f == [Top EXCEPT !.pc = "catch", !.focus = n, !.dropped = m]
  <2>2. UNCHANGED inAuto
    BY <1>4 DEF CatchReturned
  <2>3. gs'.inHandler = FALSE
    <3> DEFINE g == [gs EXCEPT !.inHandler = FALSE]
    <3>1. g.inHandler = FALSE /\ g \in CallStacks
      BY <1>1 DEF CallStacks
    <3>2. gs' = IF g.unwind THEN g ELSE RemoveError(g, Top.focus)
      BY <1>4 DEF CatchReturned
    <3> HIDE DEF g
    <3>3. RemoveError(g, Top.focus).inHandler = g.inHandler
      BY <3>1 DEF RemoveError, CallStacks
    <3> QED BY <3>1, <3>2, <3>3
  <2>4. f.what = Top.what /\ f.base = Top.base /\ f.cmd = Top.cmd /\ f.stmt = Top.stmt
    BY <1>1 DEF Frames
  <2> HIDE DEF f
  <2> QED BY <1>1, <2>1, <2>2, <2>3, <2>4, OriginsStays DEF f
<1>5. CASE CatchNext
  <2> DEFINE n == Len(gs.errors)
             front == FirstCaught
             c == CallOf(gs.errors[front])
             f == [Top EXCEPT !.pc = "caught", !.focus = front,
                              !.prev = gs.count, !.mark = n]
             g == [gs EXCEPT !.inHandler = TRUE, !.unwind = FALSE]
  <2>1. /\ Top.what = "try" /\ Top.pc = "catch" /\ Caught # {}
        /\ Run(g, SetTop(f), c)
    BY <1>5 DEF CatchNext
  <2>2. n \in Nat /\ gs.count \in Nat /\ g \in CallStacks
    <3>1. g \in CallStacks
      BY <1>1 DEF CallStacks
    <3>2. gs.count \in 0 .. CountLimit - 1
      BY <1>1 DEF CallStacks
    <3>3. gs.count \in Nat
      BY <3>2, LimitsAssumption
    <3> QED BY <1>1, <3>1, <3>3
  <2>3. front \in Caught /\ Caught \subseteq Top.focus .. n
    <3>1. Caught \in SUBSET Nat
      BY <1>1 DEF Caught
    <3>2. \E m \in Caught : \A k \in Caught : m <= k
      BY <2>1, <3>1, LeastNat
    <3> QED BY <3>2 DEF FirstCaught, Caught
  <2>4. front \in Nat /\ front \in 1 .. n
    BY <1>1, <2>2, <2>3
  <2>5. c \in Statements
    BY <1>1, <2>4, CallStackErrors, StatementsTyped
  <2> HIDE DEF n, front, c, g
  <2>6. f \in Frames
    BY <1>1, <2>2, <2>4 DEF Frames, Places
  <2>7. /\ f.what = Top.what /\ f.pc = "caught" /\ f.base = Top.base
        /\ f.cmd = Top.cmd /\ f.stmt = Top.stmt
    BY <1>1 DEF Frames
  <2> HIDE DEF f
  <2>8. FromScript(f) /\ Catching(f) /\ ~Choosing(f)
    BY <1>1, <2>1, <2>7, StillFromScript DEF Catching, Choosing, Between
  <2>9. /\ Origins(g, inAuto, SetTop(f)) /\ SetTop(f) \in Seq(Frames)
        /\ Len(SetTop(f)) = Len(stack) /\ SetTop(f)[Len(SetTop(f))] = f
    BY <2>6, <2>7, <2>8, OriginsMoved
  <2>10. Len(stack) > 1
    BY <2>1, TopOfOrigins DEF Origins
  <2>11. Continues(g, SetTop(f), inAuto, gs', stack', inAuto')
    BY <2>1, <2>2, <2>5, RunContinues
  <2> QED BY <1>1, <2>2, <2>8, <2>9, <2>10, <2>11, OriginsContinue
<1> QED BY <1>2, <1>3, <1>4, <1>5

-----------------------------------------------------------------------------
\* Main and the reader of commands.

\* What holds of a reader: it is at the bottom or a builtin, and never runs a
\* handler itself.
LEMMA Reader ==
  ASSUME ShellInvariant, Origins(gs, inAuto, stack),
         Top.what \in {"main", "source"}, NEW pc \in Places
  PROVE  /\ gs \in CallStacks /\ Len(gs.errors) \in Nat
         /\ Top.base \in Nat /\ Top.base \in 0 .. Len(gs.errors)
         /\ Top \in Frames /\ Top.stmt \in Statements
         /\ inAuto \in BOOLEAN
         /\ ~Catching(Top) /\ ~Between(Top)
         /\ \A g : (g.inHandler = gs.inHandler) =>
              /\ Origins(g, inAuto, Goto(pc))
              /\ Goto(pc) \in Seq(Frames) /\ Len(Goto(pc)) > 0
              /\ ~Choosing(Goto(pc)[Len(Goto(pc))])
<1>1. /\ gs \in CallStacks /\ Len(gs.errors) \in Nat
      /\ Top.base \in 0 .. Len(gs.errors)
      /\ Top \in Frames /\ Top.stmt \in Statements /\ FromScript(Top)
      /\ inAuto \in BOOLEAN /\ Len(stack) > 0
  <2>1. Top.base \in 0 .. Len(gs.errors)
    BY TopOK DEF ShellInvariant
  <2>2. Len(stack) \in Nat \ {0}
    BY TopOfOrigins DEF Origins
  <2> QED BY <2>1, <2>2, TopOfOrigins DEF Origins, FromScript
<1>2. ~Catching(Top) /\ ~Between(Top)
  BY DEF Catching, Between
<1> DEFINE f == [Top EXCEPT !.pc = pc]
<1>3. f \in Frames
  BY <1>1 DEF Frames
<1>4. /\ f.what = Top.what /\ f.base = Top.base /\ f.cmd = Top.cmd
      /\ f.stmt = Top.stmt
  BY <1>1, GotoFields
<1>5. Goto(pc) = SetTop(f)
  BY DEF Goto
<1> HIDE DEF f
<1>6. FromScript(f) /\ ~Choosing(f)
  BY <1>1, <1>4, StillFromScript DEF Choosing, Between
<1>7. ASSUME NEW g, g.inHandler = gs.inHandler
      PROVE  /\ Origins(g, inAuto, SetTop(f))
             /\ SetTop(f) \in Seq(Frames) /\ Len(SetTop(f)) = Len(stack)
             /\ SetTop(f)[Len(SetTop(f))] = f
  BY <1>2, <1>3, <1>4, <1>6, <1>7, OriginsMoved
<1>8. Top.base \in Nat
  BY <1>1
<1> QED BY <1>1, <1>2, <1>5, <1>6, <1>7, <1>8

LEMMA ResetFields ==
  ASSUME NEW g \in CallStacks, NEW base \in 0 .. Len(g.errors)
  PROVE  /\ Reset(g, base) \in CallStacks
         /\ Reset(g, base).inHandler = g.inHandler
         /\ Reset(g, base).exit = g.exit
         /\ Reset(g, base).unwind = FALSE /\ Reset(g, base).count = 0
         /\ Reset(g, base).errors = SubSeq(g.errors, 1, base)
         /\ Reset(g, base).collectExcess = g.collectExcess
         /\ Reset(g, base).catchExcess = g.catchExcess
<1>1. Reset(g, base) \in CallStacks
  BY ResetType
<1>2. /\ DestroyList(g, base).inHandler = g.inHandler
      /\ DestroyList(g, base).exit = g.exit
      /\ DestroyList(g, base).errors = SubSeq(g.errors, 1, base)
      /\ DestroyList(g, base).collectExcess = g.collectExcess
      /\ DestroyList(g, base).catchExcess = g.catchExcess
      /\ DestroyList(g, base) \in CallStacks
  BY DestroyListType DEF DestroyList, CallStacks
<1> QED BY <1>1, <1>2 DEF Reset, CallStacks

LEMMA OriginsGetline ==
  ASSUME ShellInvariant, ShellInvariant', Origins(gs, inAuto, stack),
         \/ GetlineFails \/ GetlineEnd \/ GetlineUnclosed \/ GetlineIncomplete
         \/ GetlineMalformed \/ GetlineComplete
  PROVE  Origins(gs', inAuto', stack')
<1>1. Top.what \in {"main", "source"}
  BY DEF GetlineFails, GetlineEnd, GetlineUnclosed, GetlineIncomplete,
         GetlineMalformed, GetlineComplete, ReadingLine
<1>2. /\ gs \in CallStacks /\ Len(gs.errors) \in Nat
      /\ Top.base \in Nat /\ Top.base \in 0 .. Len(gs.errors)
      /\ Top \in Frames /\ Top.stmt \in Statements
      /\ inAuto \in BOOLEAN /\ inAuto' \in BOOLEAN
      /\ ~Catching(Top) /\ ~Between(Top)
  BY <1>1, Reader, ReaderPlaces DEF ShellInvariant
<1>3. RawCommand \in Statements /\ "run_handling" \in {"run_handling", "base_run"}
  BY StatementsTyped, NamesInUse DEF RawCommand
<1> DEFINE r == Reset(gs, Top.base)
<1>4. r \in CallStacks /\ r.inHandler = gs.inHandler
      /\ Len(r.errors) = Top.base
  BY <1>2, ResetFields, ResetType
<1>5. {".unclosed_brace", ".mismatched_brace"} \subseteq Names
  BY ShellNames DEF ShellExceptions
<1>6. "got" \in Places /\ "more" \in Places /\ "unclosed" \in Places
  BY ReaderPlaces
<1> HIDE DEF r
<1>7. CASE GetlineFails
  BY <1>2, <1>7, OriginsSame DEF GetlineFails
<1>8. CASE GetlineEnd
  <2>1. CASE Top.pc = "read"
    <3> DEFINE f == [Top EXCEPT !.pc = "got", !.flag = TRUE]
    <3>1. gs' = r /\ stack' = SetTop(f) /\ UNCHANGED inAuto
      BY <1>8, <2>1 DEF GetlineEnd, r
    <3>2. f.what = Top.what /\ f.base = Top.base /\ f.cmd = Top.cmd /\ f.stmt = Top.stmt
      BY <1>2 DEF Frames
    <3> HIDE DEF f
    <3> QED BY <1>2, <1>4, <3>1, <3>2, OriginsStays
  <2>2. CASE Top.pc # "read"
    <3> DEFINE f == [Top EXCEPT !.pc = "unclosed", !.flag = TRUE]
    <3>1. RunHandling(r, SetTop(f), "run_handling", Top.base, RawCommand)
      BY <1>8, <2>2 DEF GetlineEnd, r
    <3>2. /\ f \in Frames /\ f.what = Top.what /\ f.base = Top.base
          /\ f.cmd = Top.cmd /\ f.stmt = Top.stmt
      BY <1>2, <1>6 DEF Frames
    <3> HIDE DEF f
    <3>3. FromScript(f) /\ ~Choosing(f)
      BY <1>1, <1>2, <3>2, StillFromScript, TopOfOrigins DEF Choosing, Between, Origins
    <3>4. /\ Origins(r, inAuto, SetTop(f)) /\ SetTop(f) \in Seq(Frames)
          /\ Len(SetTop(f)) = Len(stack) /\ SetTop(f)[Len(SetTop(f))] = f
      BY <1>2, <1>4, <3>2, <3>3, OriginsMoved
    <3>5. Len(stack) > 0
      <4>1. Len(stack) \in Nat \ {0}
        BY TopOfOrigins DEF Origins
      <4> QED BY <4>1
    <3> QED BY <1>2, <1>3, <1>4, <3>1, <3>3, <3>4, <3>5, OriginsHandling
  <2> QED BY <2>1, <2>2
<1>9. CASE GetlineUnclosed
  <2>1. stack' = Goto("got") /\ UNCHANGED inAuto /\ gs'.inHandler = gs.inHandler
    BY <1>2, <1>9 DEF GetlineUnclosed, AddError, CallStacks
  <2> QED BY <1>2, <2>1, OriginsSame
<1>10. CASE GetlineIncomplete
  <2>1. /\ stack' = Goto("more") /\ UNCHANGED inAuto
        /\ gs' = RemoveExceptions(AddError(r, ".unclosed_brace"), Top.base,
                                  ".unclosed_brace")
    BY <1>10 DEF GetlineIncomplete, r
  <2>2. gs'.inHandler = gs.inHandler
    BY <1>4, <2>1 DEF RemoveExceptions, AddError, CallStacks
  <2> QED BY <1>2, <2>1, <2>2, OriginsSame
<1>11. CASE GetlineMalformed
  <2> DEFINE g == AddError(r, ".mismatched_brace")
  <2>1. CatchOne(g, Goto("got"), RawCommand)
    BY <1>11 DEF GetlineMalformed, r
  <2>2. g \in CallStacks /\ g.inHandler = gs.inHandler
    <3>1. g.inHandler = r.inHandler
      BY <1>4 DEF AddError, CallStacks
    <3> QED BY <1>4, <1>5, <3>1, AddErrorType
  <2> HIDE DEF g
  <2>3. /\ Origins(g, inAuto, Goto("got")) /\ Goto("got") \in Seq(Frames)
        /\ Len(Goto("got")) > 0 /\ ~Choosing(Goto("got")[Len(Goto("got"))])
    BY <1>1, <1>6, <2>2, Reader
  <2> QED BY <1>2, <1>3, <2>1, <2>2, <2>3, OriginsCatchOne
<1>12. CASE GetlineComplete
  <2>1. RunHandling(r, Goto("got"), "run_handling", Top.base, RawCommand)
    BY <1>12 DEF GetlineComplete, r
  <2>2. /\ Origins(r, inAuto, Goto("got")) /\ Goto("got") \in Seq(Frames)
        /\ Len(Goto("got")) > 0 /\ ~Choosing(Goto("got")[Len(Goto("got"))])
    BY <1>1, <1>4, <1>6, Reader
  <2> QED BY <1>2, <1>3, <1>4, <2>1, <2>2, OriginsHandling
<1> QED BY <1>7, <1>8, <1>9, <1>10, <1>11, <1>12

LEMMA OriginsMain ==
  ASSUME ShellInvariant, ShellInvariant', Origins(gs, inAuto, stack),
         \/ MainInit \/ MainRegister \/ MainPrompt \/ MainGot \/ MainStatement
         \/ MainInterpreted \/ MainRun \/ MainAfter \/ MainShutdown \/ MainGlobals
  PROVE  Origins(gs', inAuto', stack')
<1>1. Top.what = "main"
  BY DEF MainInit, MainRegister, MainPrompt, MainGot, MainStatement,
         MainInterpreted, MainRun, MainAfter, MainShutdown, MainGlobals
<1>2. /\ gs \in CallStacks /\ Len(gs.errors) \in Nat /\ Top.base \in Nat
      /\ Top \in Frames /\ Top.stmt \in Statements /\ FromScript(Top)
      /\ inAuto \in BOOLEAN /\ inAuto' \in BOOLEAN
      /\ ~Catching(Top) /\ ~Between(Top)
  BY <1>1, Reader, ReaderPlaces, TopOfOrigins DEF ShellInvariant, Origins
<1>3. ASSUME NEW pc \in Places, NEW g, g.inHandler = gs.inHandler
      PROVE  /\ Origins(g, inAuto, Goto(pc))
             /\ Goto(pc) \in Seq(Frames) /\ Len(Goto(pc)) > 0
             /\ ~Choosing(Goto(pc)[Len(Goto(pc))])
  BY <1>1, <1>3, Reader
<1>4. ASSUME NEW pc \in Places, NEW what \in {"run_handling", "base_run"},
             NEW c \in Statements, RunHandling(gs, Goto(pc), what, Top.base, c)
      PROVE  Origins(gs', inAuto', stack')
  BY <1>2, <1>3, <1>4, OriginsHandling
<1>5. ASSUME NEW pc \in Places, NEW name \in Names, UNCHANGED inAuto,
             RunIfExists(gs, Goto(pc), name)
      PROVE  Origins(gs', inAuto', stack')
  BY <1>2, <1>3, <1>5, OriginsIfExists
<1>6. ASSUME NEW pc \in Places, NEW base \in Nat, UNCHANGED inAuto,
             NEW g, g.inHandler = gs.inHandler, StartHandler(g, Goto(pc), base)
      PROVE  Origins(gs', inAuto', stack')
  BY <1>2, <1>3, <1>6, OriginsStart
<1>7. ASSUME NEW pc \in Places, stack' = Goto(pc), UNCHANGED inAuto,
             gs' = gs
      PROVE  Origins(gs', inAuto', stack')
  BY <1>2, <1>7, OriginsSame
<1>8. /\ "base_run" \in {"run_handling", "base_run"}
      /\ {"register", "prompt", "read", "shutdown", "statement", "before",
          "after", "globals", "done"} \subseteq Places
  BY ReaderPlaces DEF Places
<1>9. \A name \in Names : CallOf(name) \in Statements
  BY StatementsTyped
<1>10. /\ {".init", ".prompt", ".shutdown", ".before_command",
           ".run_logic", ".after_command"} \subseteq Names
       /\ ".unused_variable" \in Names
       /\ ".undefined_variable" \in Names
  BY NamesInUse, ShellNames DEF ShellExceptions
<1>11. CASE MainInit
  BY <1>4, <1>8, <1>9, <1>10, <1>11 DEF MainInit
<1>12. CASE MainRegister
  BY <1>7, <1>8, <1>12 DEF MainRegister
<1>13. CASE MainPrompt
  <2>1. \/ stack' = Goto("shutdown") /\ UNCHANGED <<gs, inAuto>>
        \/ RunHandling(gs, Goto("read"), "base_run", Top.base, CallOf(".prompt"))
    BY <1>13 DEF MainPrompt
  <2> QED BY <1>4, <1>7, <1>8, <1>9, <1>10, <2>1
<1>14. CASE MainGot
  <2>1. /\ UNCHANGED inAuto
        /\ \/ StartHandler(gs, Goto("prompt"), Top.base)
           \/ stack' = Goto("shutdown") /\ UNCHANGED gs
           \/ stack' = Goto("statement") /\ UNCHANGED gs
    BY <1>14 DEF MainGot
  <2> QED BY <1>2, <1>6, <1>7, <1>8, <2>1
<1>15. CASE MainStatement
  <2>1. CASE stack' = Goto("prompt")
    BY <1>7, <1>8, <1>15, <2>1 DEF MainStatement
  <2>2. ASSUME NEW c \in Commands,
               stack' = SetTop([Top EXCEPT !.pc = "arguments", !.stmt = c])
        PROVE  Origins(gs', inAuto', stack')
    <3> DEFINE f == [Top EXCEPT !.pc = "arguments", !.stmt = c]
    <3>1. /\ f.what = Top.what /\ f.base = Top.base /\ f.cmd = Top.cmd
          /\ f.stmt = c
      BY <1>2 DEF Frames
    <3>2. c \in Statements /\ UNCHANGED <<gs, inAuto>>
      BY <1>15, StatementsTyped DEF MainStatement
    <3> HIDE DEF f
    <3> QED BY <1>2, <2>2, <3>1, <3>2, OriginsStays DEF f
  <2> QED BY <1>15, <2>1, <2>2 DEF MainStatement
<1>16. CASE MainInterpreted
  <2>1. PICK c : /\ c = CallOf(".undefined_variable") \/ c = Top.stmt
                 /\ RunIfExists(gs, SetTop([Top EXCEPT !.pc = "before", !.stmt = c]),
                                ".before_command")
    <3>1. PICK u \in {FALSE} \cup {"undefined" \in Faults} :
            LET c == IF u THEN CallOf(".undefined_variable") ELSE Top.stmt
            IN  RunIfExists(gs, SetTop([Top EXCEPT !.pc = "before", !.stmt = c]),
                            ".before_command")
      BY <1>16 DEF MainInterpreted
    <3> DEFINE c == IF u THEN CallOf(".undefined_variable") ELSE Top.stmt
    <3>2. c = CallOf(".undefined_variable") \/ c = Top.stmt
      OBVIOUS
    <3>3. RunIfExists(gs, SetTop([Top EXCEPT !.pc = "before", !.stmt = c]),
                      ".before_command")
      BY <3>1
    <3> HIDE DEF c
    <3> QED BY <3>2, <3>3
  <2> DEFINE f == [Top EXCEPT !.pc = "before", !.stmt = c]
  <2>2. c \in Statements /\ UNCHANGED inAuto
    BY <1>2, <1>9, <1>10, <1>16, <2>1 DEF MainInterpreted
  <2>3. f \in Frames /\ f.what = Top.what /\ f.base = Top.base /\ f.cmd = Top.cmd
        /\ f.stmt = c
    BY <1>2, <1>8, <2>2, StatementsTyped DEF Frames
  <2> HIDE DEF f
  <2>4. FromScript(f) /\ ~Choosing(f)
    BY <1>1, <1>2, <2>2, <2>3, StillFromScript DEF Choosing, Between
  <2>5. /\ Origins(gs, inAuto, SetTop(f)) /\ SetTop(f) \in Seq(Frames)
        /\ Len(SetTop(f)) = Len(stack) /\ SetTop(f)[Len(SetTop(f))] = f
    BY <1>2, <2>3, <2>4, OriginsMoved
  <2>6. Len(stack) \in Nat \ {0}
    BY TopOfOrigins DEF Origins
  <2>7. Len(SetTop(f)) > 0 /\ ~Choosing(SetTop(f)[Len(SetTop(f))])
    BY <2>4, <2>5, <2>6
  <2>8. RunIfExists(gs, SetTop(f), ".before_command")
    BY <2>1 DEF f
  <2> QED BY <1>2, <1>10, <2>2, <2>5, <2>7, <2>8, OriginsIfExists
<1>17. CASE MainRun
  <2>1. \/ StartHandler(gs, Goto("after"), Top.base) /\ UNCHANGED inAuto
        \/ RunIfExists(gs, Goto("after"), ".run_logic") /\ UNCHANGED inAuto
        \/ RunHandling(gs, Goto("after"), "base_run", Top.base, Top.stmt)
    BY <1>17 DEF MainRun
  <2> QED BY <1>2, <1>4, <1>5, <1>6, <1>8, <1>10, <2>1
<1>18. CASE MainAfter
  BY <1>5, <1>8, <1>10, <1>18 DEF MainAfter
<1>19. CASE MainShutdown
  BY <1>4, <1>8, <1>9, <1>10, <1>19 DEF MainShutdown
<1>20. CASE MainGlobals
  <2> DEFINE g == AddError(gs, ".unused_variable")
  <2>1. /\ UNCHANGED inAuto
        /\ \/ StartHandler(g, Goto("done"), Len(gs.errors))
           \/ gs' = gs /\ stack' = Goto("done")
    BY <1>20 DEF MainGlobals
  <2>2. g.inHandler = gs.inHandler
    BY <1>2 DEF AddError, CallStacks
  <2> HIDE DEF g
  <2> QED BY <1>2, <1>6, <1>7, <1>8, <2>1, <2>2
<1> QED BY <1>11, <1>12, <1>13, <1>14, <1>15, <1>16, <1>17, <1>18, <1>19, <1>20

\* Every step but Advancers keeps Origins, and so does every step.
Others ==
  \/ SecondLookup \/ Leaves \/ Substituted \/ HandlersDone \/ RanHandling
  \/ RanIfExists \/ CaughtOne \/ Substitute \/ HandleNext \/ HandlerReturned
  \/ CatchSignal \/ Replace \/ StepwiseAborts
  \/ EnterCollect \/ CollectNext \/ CollectExcess \/ CollectEnd
  \/ CollectUndefined \/ CollectRun \/ CollectRan
  \/ CatchNext \/ CatchReturned \/ CatchExcess \/ CatchDone
  \/ GetlineFails \/ GetlineEnd \/ GetlineUnclosed \/ GetlineIncomplete
  \/ GetlineMalformed \/ GetlineComplete
  \/ MainInit \/ MainRegister \/ MainPrompt \/ MainGot \/ MainStatement
  \/ MainInterpreted \/ MainRun \/ MainAfter \/ MainShutdown \/ MainGlobals

LEMMA StepKinds ==
  ASSUME ShellInvariant, Rooted(stack), [Next]_vars
  PROVE  Advancing \/ Others \/ UNCHANGED vars
<1>1. CASE Advancers
  BY <1>1, Advanced
<1>2. CASE Return \/ SignalHandled
  BY <1>2, ReturnLeaves DEF Others
<1>3. CASE InterpreterNext
  BY <1>1, <1>2, <1>3 DEF InterpreterNext, Advancers, Others
<1>4. CASE ControlFlowNext
  BY <1>1, <1>4 DEF ControlFlowNext, Advancers, Others
<1>5. CASE ShellNext
  BY <1>1, <1>5 DEF ShellNext, Advancers, Others
<1> QED BY <1>3, <1>4, <1>5 DEF Next

LEMMA OriginsNext ==
  ASSUME ShellInvariant, Origins(gs, inAuto, stack), [Next]_vars
  PROVE  Origins(gs', inAuto', stack')
<1>1. ShellInvariant' /\ Rooted(stack) /\ inAuto' \in BOOLEAN
  BY NextOK DEF ShellInvariant, Origins
<1>2. CASE Advancing
  BY <1>1, <1>2, OriginsAdvance
<1>3. CASE Others
  BY <1>1, <1>3, OriginsReturns, OriginsSubstitute, OriginsHandler,
     OriginsOthers, OriginsCollect, OriginsCatch, OriginsGetline, OriginsMain
     DEF Others
<1>4. CASE UNCHANGED vars
  BY <1>4 DEF vars, Origins, FlagOK
<1> QED BY <1>1, <1>2, <1>3, <1>4, StepKinds

LEMMA OriginsInit ==
  ASSUME Init
  PROVE  Origins(gs, inAuto, stack)
<1> DEFINE f == Frame("main", "init", Argfunction, 0)
<1>1. stack = << f >> /\ inAuto = FALSE /\ gs.inHandler = FALSE
  BY DEF Init, InitialCallStack
<1>2. /\ f.what = "main" /\ f.base = 0 /\ f.cmd = Argfunction
      /\ f.stmt = Argfunction
  BY DEF Frame
<1>3. Argfunction \in Statements /\ "main" \notin Kinds
  BY StatementsTyped DEF Kinds
<1> HIDE DEF f
<1>4. FromScript(f)
  BY <1>2, <1>3 DEF FromScript
<1>5. stack[1] = f /\ Len(stack) = 1
  BY <1>1
<1>6. OriginAt(stack, 1)
  BY <1>4, <1>5 DEF OriginAt
<1> QED BY <1>1, <1>2, <1>5, <1>6 DEF Origins, Rooted, AutoOK, FlagOK

\* main is always at the bottom and calls executables by way of its helper
\* routines, one autofunction runs at a time, and in_autofunction and
\* in_exception_handler_v are only set where a routine has set them.
THEOREM OriginsHolds == Spec => [](ShellInvariant /\ Origins(gs, inAuto, stack))
<1>1. Init => ShellInvariant /\ Origins(gs, inAuto, stack)
  BY InitOK, OriginsInit
<1>2. /\ ShellInvariant /\ Origins(gs, inAuto, stack)
      /\ [Next]_vars
      => (ShellInvariant /\ Origins(gs, inAuto, stack))'
  BY NextOK, OriginsNext
<1> QED BY <1>1, <1>2, PTL DEF Spec

\* The autofunction is not run to find the autofunction, and in_autofunction
\* says whether it is running, whatever it defines or throws
\* (Executable_map::run).
THEOREM AutofunctionOnceHolds == Spec => []AutofunctionOnce
<1>1. ASSUME ShellInvariant, Origins(gs, inAuto, stack) PROVE AutofunctionOnce
  <2> DEFINE runs == {i \in DOMAIN stack : stack[i].what = "autofunction"}
  <2>1. stack \in Seq(Frames) /\ DOMAIN stack = 1 .. Len(stack)
        /\ Len(stack) \in Nat
    BY <1>1 DEF ShellInvariant, StackOK
  <2>2. \A i, j \in runs : i = j
    <3>1. ASSUME NEW i \in runs, NEW j \in runs, j < i PROVE FALSE
      <4>1. OriginAt(stack, i) /\ i \in 1 .. Len(stack) /\ j \in 1 .. i - 1
        BY <1>1, <2>1, <3>1 DEF Origins, Rooted
      <4> QED BY <3>1, <4>1 DEF OriginAt
    <3>2. runs \subseteq Int
      BY <2>1
    <3> QED BY <3>1, <3>2
  <2>3. inAuto <=> runs # {}
    BY <1>1, <2>1 DEF Origins, AutoOK
  <2> HIDE DEF runs
  <2>4. CASE runs = {}
    BY <2>3, <2>4, FS_EmptySet DEF AutofunctionOnce, runs
  <2>5. CASE runs # {}
    <3>1. PICK i : runs = {i}
      BY <2>2, <2>5
    <3>2. Cardinality(runs) = 1
      BY <3>1, FS_Singleton
    <3> QED BY <2>3, <2>5, <3>2 DEF AutofunctionOnce, runs
  <2> QED BY <2>4, <2>5
<1> QED BY <1>1, OriginsHolds, PTL

\* in_exception_handler_v is only set while a routine runs a handler, or looks
\* for the next: .replace_exception is refused wherever it is not.
THEOREM HandlerFlagSoundHolds == Spec => []HandlerFlagSound
<1>1. ASSUME ShellInvariant, Origins(gs, inAuto, stack) PROVE HandlerFlagSound
  <2>1. stack \in Seq(Frames) /\ DOMAIN stack = 1 .. Len(stack)
    BY <1>1 DEF ShellInvariant, StackOK
  <2> QED BY <1>1, <2>1 DEF Origins, FlagOK, HandlerFlagSound, HandlerRunning,
             Between, Top
<1> QED BY <1>1, OriginsHolds, PTL

-----------------------------------------------------------------------------
\* Accounts: coming on top, changing and leaving.

Rows(g, s) == \A i \in 2 .. Len(s) : AccountAt(g, s, i)

LEMMA KnownSame ==
  ASSUME NEW s, NEW t, NEW k \in Nat \ {0}, \A j \in 1 .. k : t[j] = s[j],
         NEW p, NEW name, Known(s, k, p, name)
  PROVE  Known(t, k, p, name)
<1>1. t[1] = s[1] /\ \A j \in 2 .. k : t[j] = s[j]
  OBVIOUS
<1> QED BY <1>1 DEF Known

LEMMA WithinSame ==
  ASSUME NEW s, NEW t, NEW k \in Nat, \A j \in 1 .. k : t[j] = s[j],
         NEW n, Within(s, k, n)
  PROVE  Within(t, k, n)
<1>1. \A j \in 2 .. k : t[j] = s[j]
  OBVIOUS
<1> QED BY <1>1 DEF Within

LEMMA RowBelow ==
  ASSUME NEW g, NEW h, NEW s, NEW t, NEW i \in Nat, i > 1,
         \A j \in 1 .. i : t[j] = s[j],
         \A p \in 1 .. Found(s[i]) : h.errors[p] = g.errors[p],
         AccountAt(g, s, i)
  PROVE  AccountAt(h, t, i)
<1>1. t[i] = s[i] /\ t[i - 1] = s[i - 1] /\ \A j \in 1 .. i - 1 : t[j] = s[j]
  OBVIOUS
<1>2. i - 1 \in Nat \ {0}
  OBVIOUS
<1>3. Within(t, i - 1, t[i].base)
  BY <1>1, <1>2, WithinSame DEF AccountAt
<1>4. ~Amid(t[i]) => \A p \in 1 .. Found(t[i]) : Known(t, i - 1, p, h.errors[p])
  <2>1. ASSUME ~Amid(s[i]), NEW p \in 1 .. Found(s[i])
        PROVE  Known(t, i - 1, p, g.errors[p])
    BY <1>1, <1>2, <2>1, KnownSame DEF AccountAt
  <2> QED BY <1>1, <2>1
<1> QED BY <1>1, <1>3, <1>4 DEF AccountAt

LEMMA FoundKinds ==
  ASSUME NEW f \in Frames
  PROVE  /\ (Found(f) = f.mark /\ Absorbing(f)) \/ Found(f) = f.base
         /\ f.what \in Kinds \/ Choosing(f) \/ f.what = "catch_one" => Found(f) = f.base
         /\ f.base \in Nat /\ f.mark \in Nat /\ Found(f) \in Nat
BY DEF Found, Absorbing, Choosing, Between, HelperKinds, Kinds, Frames

LEMMA FoundWithin ==
  ASSUME NEW g, NEW s \in Seq(Frames), Len(s) > 0, Rows(g, s)
  PROVE  \A i \in 2 .. Len(s) - 1 : Found(s[i]) <= s[Len(s)].base
<1>1. Len(s) \in Nat
  OBVIOUS
<1>2. ASSUME NEW i \in 2 .. Len(s) - 1 PROVE Found(s[i]) <= s[Len(s)].base
  <2>1. Len(s) \in 2 .. Len(s) /\ i \in 1 .. Len(s)
    BY <1>1, <1>2
  <2>2. AccountAt(g, s, Len(s)) /\ s[i] \in Frames
    BY <2>1 DEF Rows
  <2>3. s[i].base <= s[Len(s)].base
        /\ (Absorbing(s[i]) => s[i].mark <= s[Len(s)].base)
    BY <1>2, <2>2 DEF AccountAt, Within
  <2> QED BY <2>2, <2>3, FoundKinds
<1> QED BY <1>2

\* What the routines on the stack have marked is still there.
LEMMA MarksWithin ==
  ASSUME NEW g, NEW s \in Seq(Frames), Len(s) > 0, Accounts(g, s),
         ~Choosing(s[Len(s)]), Len(g.errors) \in Nat
  PROVE  /\ Within(s, Len(s), Len(g.errors))
         /\ \A i \in 2 .. Len(s) : Found(s[i]) <= Len(g.errors)
<1>1. Len(s) \in Nat /\ s[Len(s)] \in Frames
  OBVIOUS
<1>2. AccountOnTop(g, s) /\ Rows(g, s)
  BY DEF Accounts, Rows
<1>3. s[Len(s)].base <= Len(g.errors) /\ s[Len(s)].base \in Nat
  BY <1>1, <1>2 DEF AccountOnTop, Frames
<1>4. ASSUME NEW i \in 2 .. Len(s)
      PROVE  /\ s[i].base <= Len(g.errors)
             /\ Absorbing(s[i]) => s[i].mark <= Len(g.errors)
  <2>1. CASE i = Len(s)
    BY <1>2, <1>3, <2>1 DEF AccountOnTop
  <2>2. CASE i # Len(s)
    <3>1. i \in 2 .. Len(s) - 1 /\ i \in 1 .. Len(s) /\ Len(s) \in 2 .. Len(s)
      BY <1>1, <2>2
    <3>2. AccountAt(g, s, Len(s)) /\ s[i] \in Frames
      BY <1>2, <3>1 DEF Rows
    <3>3. /\ s[i].base <= s[Len(s)].base /\ s[i].base \in Nat /\ s[i].mark \in Nat
          /\ Absorbing(s[i]) => s[i].mark <= s[Len(s)].base
      BY <3>1, <3>2 DEF AccountAt, Within, Frames
    <3> QED BY <1>3, <3>3
  <2> QED BY <2>1, <2>2
<1>5. ASSUME NEW i \in 2 .. Len(s) PROVE Found(s[i]) <= Len(g.errors)
  <2>1. s[i] \in Frames
    BY <1>1
  <2> QED BY <1>4, <2>1, FoundKinds
<1> QED BY <1>4, <1>5 DEF Within

LEMMA AccountsPush ==
  ASSUME NEW g, NEW h, NEW s \in Seq(Frames), Len(s) > 0, NEW f \in Frames,
         Rows(g, s), Len(h.errors) \in Nat,
         \A i \in 2 .. Len(s) : \A p \in 1 .. Found(s[i]) : h.errors[p] = g.errors[p],
         Absorbing(f) => f.base <= f.mark /\ f.mark <= Len(h.errors),
         f.base <= Len(h.errors), Within(s, Len(s), f.base),
         ~Amid(f) => \A p \in 1 .. Found(f) : Known(s, Len(s), p, h.errors[p]),
         f.what = "substitution" =>
           s[Len(s)].pc = "arguments" /\ (f.flag /\ Len(s) = 1 => f.mark > 0),
         f.what = "catch_one" => s[Len(s)].pc = "got" /\ f.mark > 0,
         Between(f) => ~h.unwind,
         ~h.unwind => \A p \in 1 .. Len(h.errors) :
           \/ Answers(f, p, h.errors[p])
           \/ Len(s) > 1 /\ Known(s, Len(s), p, h.errors[p])
           \/ Choosing(f) /\ p > f.base
  PROVE  Accounts(h, Append(s, f))
<1> DEFINE t == Append(s, f)
<1>1. /\ Len(t) = Len(s) + 1 /\ Len(s) \in Nat \ {0} /\ t[Len(s) + 1] = f
      /\ \A i \in 1 .. Len(s) : t[i] = s[i]
  BY Pushed
<1> HIDE DEF t
<1>2. ASSUME NEW i \in 2 .. Len(s) PROVE AccountAt(h, t, i)
  <2>1. AccountAt(g, s, i) /\ i \in Nat /\ i > 1 /\ \A j \in 1 .. i : t[j] = s[j]
    BY <1>1, <1>2 DEF Rows
  <2> QED BY <1>2, <2>1, RowBelow
<1> DEFINE n == Len(s)
<1>3. /\ n \in Nat \ {0} /\ (n + 1) - 1 = n /\ (n + 1 = 2 <=> n = 1)
      /\ t[n + 1] = f /\ t[n] = s[n] /\ \A j \in 1 .. n : t[j] = s[j]
  <2>1. n \in Nat \ {0} /\ t[n + 1] = f /\ \A j \in 1 .. n : t[j] = s[j]
    BY <1>1
  <2> HIDE DEF n
  <2>2. (n + 1) - 1 = n /\ (n + 1 = 2 <=> n = 1) /\ n \in 1 .. n
    BY <2>1
  <2> QED BY <2>1, <2>2
<1>4. Within(t, n, f.base)
  BY <1>3, WithinSame
<1>5. \A p, name : Known(s, n, p, name) => Known(t, n, p, name)
  BY <1>3, KnownSame
<1>6. AccountAt(h, t, n + 1)
  BY <1>3, <1>4, <1>5 DEF AccountAt
<1>7. \A p, name : n > 1 /\ Known(s, n, p, name) => Known(t, n + 1, p, name)
  BY <1>3 DEF Known
<1>8. \A p, name : Answers(f, p, name) => Known(t, n + 1, p, name)
  <2>1. n + 1 \in 2 .. n + 1
    BY <1>3
  <2> QED BY <1>3, <2>1 DEF Known
<1>9. Len(t) = n + 1 /\ n + 1 # 1 /\ Len(t) # 1 /\ t[Len(t)] = f
  BY <1>1, <1>3
<1>10. CalmOK(h, t)
  BY <1>7, <1>8, <1>9 DEF CalmOK
<1>11. AccountOnTop(h, t)
  BY <1>9, <1>10 DEF AccountOnTop
<1>12. ASSUME NEW i \in 2 .. Len(t) PROVE AccountAt(h, t, i)
  <2>1. i \in 2 .. n \/ i = n + 1
    BY <1>3, <1>9
  <2> QED BY <1>2, <1>6, <2>1
<1> QED BY <1>11, <1>12 DEF Accounts, t

LEMMA AccountsSet ==
  ASSUME NEW g, NEW h, NEW s \in Seq(Frames), Len(s) > 0, NEW f \in Frames,
         Rows(g, s), Len(h.errors) \in Nat, f.base = s[Len(s)].base,
         \A p \in 1 .. f.base : h.errors[p] = g.errors[p],
         f.base <= Len(h.errors),
         Absorbing(f) => f.base <= f.mark,
         Absorbing(f) /\ ~Choosing(f) => f.mark <= Len(h.errors),
         Len(s) > 1 => f.what \in Kinds \/ f.what = "handler",
         Between(f) => ~h.unwind,
         Len(s) = 1 /\ h.unwind => f.pc \in Pending /\ h.errors # << >>,
         ~h.unwind => \A p \in 1 .. Len(h.errors) :
           \/ Len(s) > 1 /\ Answers(f, p, h.errors[p])
           \/ \E j \in 2 .. Len(s) - 1 : Answers(s[j], p, h.errors[p])
           \/ Len(s) = 1 /\ f.pc = "before"
           \/ Choosing(f) /\ p > f.base,
         Len(s) > 1 => Found(s[Len(s)]) = s[Len(s)].base /\ ~Amid(s[Len(s)])
  PROVE  Accounts(h, [s EXCEPT ![Len(s)] = f])
<1> DEFINE t == [s EXCEPT ![Len(s)] = f]
<1>1. /\ Len(t) = Len(s) /\ Len(s) \in Nat \ {0} /\ t[Len(s)] = f
      /\ \A i \in 1 .. Len(s) - 1 : t[i] = s[i]
  BY Replaced
<1> HIDE DEF t
<1> DEFINE n == Len(s)
<1>2. /\ n \in Nat \ {0} /\ Len(t) = n /\ t[n] = f
      /\ \A i \in 1 .. n - 1 : t[i] = s[i]
  BY <1>1
<1>3. ASSUME NEW i \in 2 .. n - 1 PROVE AccountAt(h, t, i)
  <2>1. AccountAt(g, s, i) /\ i \in Nat /\ i > 1 /\ \A j \in 1 .. i : t[j] = s[j]
    BY <1>1, <1>3 DEF Rows
  <2>2. Found(s[i]) <= f.base /\ s[i] \in Frames /\ Found(s[i]) \in Nat /\ f.base \in Nat
    BY <1>3, FoundWithin, FoundKinds
  <2>3. \A p \in 1 .. Found(s[i]) : h.errors[p] = g.errors[p]
    BY <2>2
  <2> QED BY <2>1, <2>3, RowBelow
<1>4. ASSUME n > 1 PROVE AccountAt(h, t, n)
  <2>1. n \in 2 .. n /\ n - 1 \in Nat \ {0} /\ n - 1 \in 1 .. n - 1
    BY <1>2, <1>4
  <2>2. AccountAt(g, s, n)
    BY <2>1 DEF Rows
  <2>3. Within(t, n - 1, f.base)
    BY <1>2, <2>1, <2>2, WithinSame DEF AccountAt
  <2>4. Found(f) = f.base \/ Found(f) = f.mark
    BY DEF Found
  <2>5. f.what # "substitution" /\ f.what # "catch_one" /\ Found(f) = f.base
    BY <1>4 DEF Kinds, Found
  <2>6. ASSUME NEW p \in 1 .. f.base PROVE Known(t, n - 1, p, h.errors[p])
    <3>1. Known(s, n - 1, p, g.errors[p])
      BY <1>4, <2>2, <2>6 DEF AccountAt
    <3>2. Known(t, n - 1, p, g.errors[p])
      BY <1>2, <2>1, <3>1, KnownSame
    <3> QED BY <2>6, <3>2
  <2> QED BY <1>2, <2>3, <2>5, <2>6 DEF AccountAt
<1>5. CalmOK(h, t)
  <2>1. \A p, name : n > 1 /\ Answers(f, p, name) => Known(t, n, p, name)
    BY <1>2 DEF Known
  <2>2. \A p, name : (\E j \in 2 .. n - 1 : Answers(s[j], p, name)) => Known(t, n, p, name)
    <3>1. \A j \in 2 .. n - 1 : j \in 2 .. n /\ t[j] = s[j]
      BY <1>2
    <3> QED BY <3>1 DEF Known
  <2>3. \A p, name : n = 1 /\ f.pc = "before" => Known(t, n, p, name)
    BY <1>2 DEF Known
  <2> QED BY <1>2, <2>1, <2>2, <2>3 DEF CalmOK
<1>6. AccountOnTop(h, t)
  BY <1>2, <1>5 DEF AccountOnTop
<1>7. ASSUME NEW i \in 2 .. Len(t) PROVE AccountAt(h, t, i)
  <2>1. i \in 2 .. n - 1 \/ (i = n /\ n > 1)
    BY <1>2
  <2> QED BY <1>3, <1>4, <2>1
<1> QED BY <1>6, <1>7 DEF Accounts, t

LEMMA AccountsPop ==
  ASSUME NEW g, NEW h, NEW s \in Seq(Frames), Len(s) > 1, Rows(g, s),
         ~Choosing(s[Len(s) - 1]), ~Absorbing(s[1]), s[1].base = 0,
         Len(h.errors) \in Nat, s[Len(s)].base <= Len(h.errors),
         \A p \in 1 .. s[Len(s)].base : h.errors[p] = g.errors[p],
         ~h.unwind => \A p \in 1 .. Len(h.errors) :
                        Known(s, Len(s) - 1, p, h.errors[p]),
         Len(s) = 2 /\ h.unwind => s[1].pc \in Pending /\ h.errors # << >>
  PROVE  Accounts(h, SubSeq(s, 1, Len(s) - 1))
<1> DEFINE t == SubSeq(s, 1, Len(s) - 1)
           n == Len(s) - 1
<1>1. /\ Len(t) = n /\ n \in Nat \ {0} /\ Len(s) \in 2 .. Len(s)
      /\ \A i \in 1 .. n : t[i] = s[i] /\ s[i] \in Frames
      /\ Len(s) = 2 <=> n = 1
  BY Shortened
<1>0. s[Len(s)] \in Frames
  OBVIOUS
<1> HIDE DEF t
<1>2. Within(s, n, s[Len(s)].base) /\ s[Len(s)].base \in Nat
  BY <1>0, <1>1 DEF Rows, AccountAt, Frames
<1>3. ASSUME NEW i \in 2 .. n
      PROVE  s[i].base <= Len(h.errors) /\ (Absorbing(s[i]) => s[i].mark <= Len(h.errors))
  <2>1. s[i] \in Frames
    BY <1>1
  <2>2. s[i].base \in Nat /\ s[i].mark \in Nat
    BY <2>1 DEF Frames
  <2> QED BY <1>2, <1>3, <2>2 DEF Within
<1>4. ASSUME NEW i \in 2 .. Len(t) PROVE AccountAt(h, t, i)
  <2>1. AccountAt(g, s, i) /\ i \in Nat /\ i > 1 /\ \A j \in 1 .. i : t[j] = s[j]
    BY <1>1, <1>4 DEF Rows
  <2>2. i \in 2 .. Len(s) - 1
    BY <1>1, <1>4
  <2>3. Found(s[i]) <= s[Len(s)].base /\ Found(s[i]) \in Nat
    <3>1. s[i] \in Frames
      BY <1>1, <1>4
    <3>2. Found(s[i]) <= s[Len(s)].base
      BY <2>2, FoundWithin
    <3> QED BY <3>1, <3>2, FoundKinds
  <2>4. \A p \in 1 .. Found(s[i]) : h.errors[p] = g.errors[p]
    BY <1>2, <2>3
  <2> QED BY <2>1, <2>4, RowBelow
<1>5. \A p, name : Known(s, n, p, name) => Known(t, n, p, name)
  BY <1>1, KnownSame
<1>6. t[Len(t)] = s[n] /\ t[1] = s[1]
  BY <1>1
<1>7. s[n].base <= Len(h.errors) /\ (Absorbing(s[n]) => s[n].mark <= Len(h.errors))
  <2>1. n = 1 \/ n \in 2 .. n
    BY <1>1
  <2> QED BY <1>3, <2>1
<1>8. CalmOK(h, t)
  BY <1>1, <1>5 DEF CalmOK
<1>9. AccountOnTop(h, t)
  BY <1>1, <1>6, <1>7, <1>8 DEF AccountOnTop, Choosing
<1> QED BY <1>4, <1>9 DEF Accounts, t

LEMMA AnswersAbsorb ==
  ASSUME NEW f, NEW p, NEW name, Answers(f, p, name)
  PROVE  Absorbing(f)
BY DEF Answers, Catching, Absorbing, HelperKinds

\* While nothing unwinds the routines below answer for what an executable finds.
LEMMA KnownPlain ==
  ASSUME NEW g, NEW s \in Seq(Frames), Len(s) > 1, Accounts(g, s), ~g.unwind,
         ~Absorbing(s[Len(s)]), ~Choosing(s[Len(s)]),
         NEW p \in 1 .. Len(g.errors)
  PROVE  \E j \in 2 .. Len(s) - 1 : Answers(s[j], p, g.errors[p])
<1> DEFINE n == Len(s)
<1>1. n \in Nat /\ n > 1
  OBVIOUS
<1>2. Known(s, n, p, g.errors[p])
  BY DEF Accounts, AccountOnTop, CalmOK
<1>3. PICK j \in 2 .. n : Answers(s[j], p, g.errors[p])
  BY <1>1, <1>2 DEF Known
<1>4. j # n
  BY <1>3, AnswersAbsorb
<1>5. j \in 2 .. n - 1
  BY <1>1, <1>3, <1>4
<1> QED BY <1>3, <1>5

LEMMA AccountsGrow ==
  ASSUME NEW g, NEW h, NEW s \in Seq(Frames), Len(s) > 1, Accounts(g, s),
         ~Choosing(s[Len(s)]), Grows(g, h)
  PROVE  Accounts(h, s)
<1>1. /\ Len(g.errors) \in Nat /\ Len(h.errors) \in Nat
      /\ g.unwind \in BOOLEAN /\ h.unwind \in BOOLEAN
      /\ Len(g.errors) <= Len(h.errors)
      /\ \A p \in 1 .. Len(g.errors) : h.errors[p] = g.errors[p]
      /\ g.unwind => h.unwind
      /\ ~h.unwind => Len(h.errors) = Len(g.errors)
  BY CallStackErrors DEF Grows, CallStacks
<1>2. \A i \in 2 .. Len(s) : Found(s[i]) <= Len(g.errors) /\ Found(s[i]) \in Nat
  <2>1. \A i \in 2 .. Len(s) : s[i] \in Frames
    OBVIOUS
  <2>2. Len(s) > 0 /\ Len(s) \in Nat
    OBVIOUS
  <2> QED BY <1>1, <2>1, <2>2, MarksWithin, FoundKinds
<1>3. ASSUME NEW i \in 2 .. Len(s) PROVE AccountAt(h, s, i)
  <2>1. AccountAt(g, s, i) /\ i \in Nat /\ i > 1
    BY <1>3 DEF Accounts
  <2>2. \A p \in 1 .. Found(s[i]) : h.errors[p] = g.errors[p]
    BY <1>1, <1>2, <1>3
  <2> QED BY <2>1, <2>2, RowBelow
<1>4. s[Len(s)] \in Frames /\ Len(s) # 1
  OBVIOUS
<1>5. AccountOnTop(g, s)
  BY DEF Accounts
<1>6. CalmOK(h, s)
  BY <1>1, <1>5 DEF AccountOnTop, CalmOK
<1>7. s[Len(s)].base \in Nat /\ s[Len(s)].mark \in Nat
  BY <1>4 DEF Frames
<1>8. AccountOnTop(h, s)
  BY <1>1, <1>4, <1>5, <1>6, <1>7 DEF AccountOnTop, Choosing
<1> QED BY <1>3, <1>8 DEF Accounts

LEMMA NewPlain ==
  ASSUME NEW f \in Frames, f.what \in Kinds, f.pc = "enter"
  PROVE  Plain(f) /\ ~Amid(f) /\ Found(f) = f.base /\ f.what # "substitution"
         /\ f.what # "catch_one"
BY DEF Plain, Amid, Found, Absorbing, Choosing, Between, Kinds, HelperKinds

LEMMA AccountsEnter ==
  ASSUME NEW h \in CallStacks, NEW u \in Seq(Frames), Len(u) > 1, Accounts(h, u),
         ~Choosing(u[Len(u)]), ~h.unwind, NEW c \in Statements
  PROVE  Accounts(h, Entered(u, c, h))
<1> DEFINE f == Frame(c.what, "enter", c, Len(h.errors))
<1>1. f \in Frames /\ f.what \in Kinds /\ f.pc = "enter" /\ f.base = Len(h.errors)
  BY EnteredFrame
<1>2. Entered(u, c, h) = Append(u, f)
  BY DEF Entered
<1> HIDE DEF f
<1>3. Plain(f) /\ ~Amid(f) /\ Found(f) = f.base /\ f.what # "substitution"
      /\ f.what # "catch_one"
  BY <1>1, NewPlain
<1>4. ~Absorbing(f) /\ ~Between(f)
  BY <1>3 DEF Plain, Choosing
<1>5. Len(h.errors) \in Nat /\ Len(u) > 0 /\ Len(u) \in Nat /\ Len(u) # 1
  BY CallStackErrors
<1>6. Within(u, Len(u), Len(h.errors)) /\ Rows(h, u)
  BY <1>5, MarksWithin DEF Accounts, Rows
<1>7. \A p \in 1 .. Len(h.errors) : Known(u, Len(u), p, h.errors[p])
  BY DEF Accounts, AccountOnTop, CalmOK
<1>8. /\ f.base <= Len(h.errors) /\ Within(u, Len(u), f.base)
      /\ \A p \in 1 .. Found(f) : Known(u, Len(u), p, h.errors[p])
      /\ \A i \in 2 .. Len(u) : \A p \in 1 .. Found(u[i]) : h.errors[p] = h.errors[p]
      /\ Len(u) > 0 /\ Len(h.errors) \in Nat /\ Rows(h, u)
  BY <1>1, <1>3, <1>5, <1>6, <1>7
<1>9. /\ f \in Frames /\ ~Amid(f) /\ f.what # "substitution"
      /\ f.what # "catch_one" /\ ~Absorbing(f) /\ ~Between(f)
  BY <1>1, <1>3, <1>4
<1> QED BY <1>2, <1>7, <1>8, <1>9, AccountsPush

LEMMA SeekingTyped ==
  ASSUME NEW g \in CallStacks, NEW s \in Seq(Frames), Len(s) > 0,
         NEW c \in Statements
  PROVE  LET f == Frame("autofunction", "second", c, Len(g.errors))
         IN  /\ Seeking(s, c, g) = Append(s, f)
             /\ f \in Frames /\ FromScript(f) /\ f.what = "autofunction"
             /\ f.base = Len(g.errors)
             /\ ~Choosing(f) /\ ~Absorbing(f) /\ Amid(f) /\ ~Between(f)
             /\ Seeking(s, c, g) \in Seq(Frames) /\ Len(Seeking(s, c, g)) > 1
             /\ Len(Seeking(s, c, g)) = Len(s) + 1
             /\ Seeking(s, c, g)[Len(Seeking(s, c, g))] = f
<1> DEFINE f == Frame("autofunction", "second", c, Len(g.errors))
<1>1. /\ f \in Frames /\ FromScript(f) /\ f.what = "autofunction"
      /\ f.base = Len(g.errors)
  BY SeekingFrame
<1>2. Seeking(s, c, g) = Append(s, f)
  BY DEF Seeking
<1> HIDE DEF f
<1>3. ~Choosing(f) /\ ~Absorbing(f) /\ Amid(f) /\ ~Between(f)
  BY <1>1 DEF Choosing, Absorbing, Amid, Between, HelperKinds
<1>4. /\ Append(s, f) \in Seq(Frames) /\ Len(Append(s, f)) = Len(s) + 1
      /\ Append(s, f)[Len(s) + 1] = f /\ Len(s) \in Nat
  BY <1>1, Pushed
<1>5. Len(Append(s, f)) > 1 /\ Append(s, f)[Len(Append(s, f))] = f
  BY <1>4
<1> QED BY <1>1, <1>2, <1>3, <1>4, <1>5 DEF f

LEMMA AccountsSeek ==
  ASSUME NEW g \in CallStacks, NEW h, NEW s \in Seq(Frames), Len(s) > 1,
         Accounts(g, s), ~Choosing(s[Len(s)]), Grows(g, h), NEW c \in Statements
  PROVE  Accounts(h, Seeking(s, c, g))
<1> DEFINE f == Frame("autofunction", "second", c, Len(g.errors))
<1>1. /\ f \in Frames /\ f.what = "autofunction" /\ f.base = Len(g.errors)
      /\ ~Choosing(f) /\ ~Absorbing(f) /\ Amid(f) /\ ~Between(f)
      /\ Seeking(s, c, g) = Append(s, f)
  <2>1. Len(s) > 0
    OBVIOUS
  <2> QED BY <2>1, SeekingTyped
<1> HIDE DEF f
<1>2. /\ Len(g.errors) \in Nat /\ Len(h.errors) \in Nat
      /\ Len(g.errors) <= Len(h.errors)
      /\ \A p \in 1 .. Len(g.errors) : h.errors[p] = g.errors[p]
      /\ h.unwind \in BOOLEAN
      /\ ~h.unwind => ~g.unwind /\ Len(h.errors) = Len(g.errors)
  BY CallStackErrors DEF Grows, CallStacks
<1>3. Within(s, Len(s), Len(g.errors)) /\ Rows(g, s)
      /\ \A i \in 2 .. Len(s) : Found(s[i]) <= Len(g.errors)
  <2>1. Len(s) > 0
    OBVIOUS
  <2> QED BY <1>2, <2>1, MarksWithin DEF Accounts, Rows
<1>4. ASSUME NEW i \in 2 .. Len(s), NEW p \in 1 .. Found(s[i])
      PROVE  h.errors[p] = g.errors[p]
  <2>1. s[i] \in Frames
    BY <1>4
  <2>2. Found(s[i]) \in Nat
    BY <2>1, FoundKinds
  <2> QED BY <1>2, <1>3, <1>4, <2>2
<1>5. ~h.unwind => \A p \in 1 .. Len(h.errors) : Known(s, Len(s), p, h.errors[p])
  <2> SUFFICES ASSUME ~h.unwind, NEW p \in 1 .. Len(h.errors)
               PROVE  Known(s, Len(s), p, h.errors[p])
    OBVIOUS
  <2>1. ~g.unwind /\ Len(h.errors) = Len(g.errors)
    BY <1>2
  <2>2. h.errors[p] = g.errors[p]
    BY <1>2, <2>1
  <2>3. Known(s, Len(s), p, g.errors[p])
    BY <2>1 DEF Accounts, AccountOnTop, CalmOK
  <2> QED BY <2>2, <2>3
<1>6. f.what # "substitution" /\ f.what # "catch_one" /\ Len(s) > 0
  BY <1>1
<1> QED BY <1>1, <1>2, <1>3, <1>4, <1>5, <1>6, AccountsPush

LEMMA AccountsContinue ==
  ASSUME NEW g \in CallStacks, NEW h, NEW auto, NEW auto2,
         NEW s \in Seq(Frames), NEW t, Len(s) > 1, Accounts(g, s),
         ~Choosing(s[Len(s)]), Continues(g, s, auto, h, t, auto2)
  PROVE  Accounts(h, t)
<1>1. Grows(g, h) /\ h \in CallStacks
  BY DEF Continues, Grows
<1>2. Accounts(h, s)
  BY <1>1, AccountsGrow
<1>3. ASSUME NEW c \in Statements
      PROVE  /\ Accounts(h, Seeking(s, c, g))
             /\ Seeking(s, c, g) \in Seq(Frames) /\ Len(Seeking(s, c, g)) > 1
             /\ ~Choosing(Seeking(s, c, g)[Len(Seeking(s, c, g))])
  <2>1. Len(s) > 0
    OBVIOUS
  <2> QED BY <1>1, <1>3, <2>1, AccountsSeek, SeekingTyped
<1>4. ASSUME NEW c \in Statements, ~h.unwind PROVE Accounts(h, Entered(s, c, h))
  BY <1>1, <1>2, <1>4, AccountsEnter
<1>5. ASSUME NEW c \in Statements, NEW d \in Statements, ~h.unwind
      PROVE  Accounts(h, Entered(Seeking(s, c, g), d, h))
  BY <1>1, <1>3, <1>5, AccountsEnter
<1> QED BY <1>2, <1>3, <1>4, <1>5 DEF Continues

\* What the invariants say of the routine on top.
Sound == ShellInvariant /\ Origins(gs, inAuto, stack) /\ Accounts(gs, stack)

LEMMA TopSound ==
  ASSUME Sound
  PROVE  /\ stack \in Seq(Frames) /\ Len(stack) \in Nat \ {0} /\ Len(stack) > 0
         /\ Top = stack[Len(stack)] /\ Top \in Frames /\ FromScript(Top)
         /\ Popped = SubSeq(stack, 1, Len(stack) - 1)
         /\ Top.base \in Nat /\ Top.mark \in Nat /\ Top.stmt \in Statements
         /\ gs \in CallStacks /\ Len(gs.errors) \in Nat /\ gs.unwind \in BOOLEAN
         /\ Top.base <= Len(gs.errors) /\ inAuto \in BOOLEAN
         /\ Rows(gs, stack) /\ AccountOnTop(gs, stack)
         /\ ~Absorbing(stack[1]) /\ stack[1].base = 0 /\ stack[1].what = "main"
<1>1. /\ stack \in Seq(Frames) /\ Len(stack) \in Nat \ {0}
      /\ Top = stack[Len(stack)] /\ Top \in Frames /\ FromScript(Top)
      /\ Popped = SubSeq(stack, 1, Len(stack) - 1)
      /\ gs \in CallStacks /\ inAuto \in BOOLEAN /\ Len(gs.errors) \in Nat
  BY TopOfOrigins DEF Sound, Origins
<1>2. Top.base \in Nat /\ Top.mark \in Nat /\ gs.unwind \in BOOLEAN
      /\ Top.stmt \in Statements
  BY <1>1 DEF Frames, CallStacks, FromScript
<1>3. Rows(gs, stack) /\ AccountOnTop(gs, stack)
  BY DEF Sound, Accounts, Rows
<1>4. Top.base <= Len(gs.errors)
  BY <1>1, <1>3 DEF AccountOnTop
<1>5. /\ stack[1].base = 0 /\ stack[1].what = "main"
      /\ ~Absorbing(stack[1])
  BY DEF Sound, Origins, Rooted, Absorbing, HelperKinds
<1>6. Len(stack) > 0
  <2> DEFINE n == Len(stack)
  <2>1. n \in Nat \ {0}
    BY <1>1
  <2> HIDE DEF n
  <2>2. n > 0
    BY <2>1
  <2> QED BY <2>2 DEF n
<1> QED BY <1>1, <1>2, <1>3, <1>4, <1>5, <1>6

\* A routine that was called knows where it came from.
LEMMA CalledSound ==
  ASSUME Sound, Top.what # "main"
  PROVE  /\ Len(stack) > 1 /\ Len(stack) # 1
         /\ Len(stack) - 1 \in Nat \ {0}
         /\ (Len(stack) = 2 <=> Len(stack) - 1 = 1)
         /\ ~Choosing(stack[Len(stack) - 1])
         /\ AccountAt(gs, stack, Len(stack))
         /\ Absorbing(Top) => Top.base <= Top.mark
         /\ Absorbing(Top) /\ ~Choosing(Top) => Top.mark <= Len(gs.errors)
         /\ ~Amid(Top) => \A p \in 1 .. Found(Top) :
                            Known(stack, Len(stack) - 1, p, gs.errors[p])
         /\ Between(Top) => ~gs.unwind
<1>1. /\ Len(stack) > 1 /\ Len(stack) # 1 /\ Len(stack) \in Nat
      /\ Top = stack[Len(stack)]
  BY TopOfOrigins DEF Sound, Origins
<1>2. Len(stack) \in 1 .. Len(stack) /\ Len(stack) \in 2 .. Len(stack)
  BY <1>1
<1>3. OriginAt(stack, Len(stack)) /\ AccountAt(gs, stack, Len(stack))
      /\ AccountOnTop(gs, stack)
  BY <1>2 DEF Sound, Origins, Rooted, Accounts
<1>4. Len(stack) - 1 \in Nat \ {0} /\ (Len(stack) = 2 <=> Len(stack) - 1 = 1)
  BY <1>1
<1>5. ~Choosing(stack[Len(stack) - 1])
  BY <1>1, <1>3 DEF OriginAt
<1> QED BY <1>1, <1>3, <1>4, <1>5 DEF AccountAt, AccountOnTop

LEMMA AccountsAdvance ==
  ASSUME Sound, Advancing
  PROVE  Accounts(gs', stack')
<1>1. PICK k \in CallStacks, f \in Frames :
        /\ Grows(gs, k) \/ Pruned(gs, k, Top.base)
        /\ Successor(f, Top) /\ Plain(f)
        /\ Continues(k, [stack EXCEPT ![Len(stack)] = f], inAuto,
                     gs', stack', inAuto')
  BY DEF Advancing, Advances, Top
<1>2. Plain(Top)
  BY DEF Advancing, Advances, Top
<1>3. /\ stack \in Seq(Frames) /\ Len(stack) > 0 /\ Top = stack[Len(stack)]
      /\ Top.base \in Nat /\ Top.base <= Len(gs.errors) /\ Rows(gs, stack)
      /\ gs.unwind \in BOOLEAN /\ Len(gs.errors) \in Nat /\ Top \in Frames
  BY TopSound
<1>4. /\ Top.what # "main" /\ ~Absorbing(Top) /\ ~Choosing(Top)
      /\ ~Amid(Top) /\ Found(Top) = Top.base
  BY <1>2 DEF Plain, Kinds, Amid, Found
<1>5. /\ f.what \in Kinds /\ ~Absorbing(f) /\ ~Choosing(f) /\ ~Between(f)
      /\ f.base = Top.base
  BY <1>1 DEF Plain, Successor, Choosing
<1>6. Len(stack) > 1 /\ Len(stack) # 1
  BY <1>4, CalledSound
<1>7. /\ Len(k.errors) \in Nat /\ k.unwind \in BOOLEAN
      /\ Top.base <= Len(k.errors)
      /\ \A p \in 1 .. Top.base : k.errors[p] = gs.errors[p]
  <2>1. Len(k.errors) \in Nat /\ k.unwind \in BOOLEAN
    BY CallStackErrors DEF CallStacks
  <2>2. CASE Grows(gs, k)
    BY <1>3, <2>1, <2>2 DEF Grows
  <2>3. CASE Pruned(gs, k, Top.base)
    BY <2>1, <2>3 DEF Pruned
  <2> QED BY <1>1, <2>1, <2>2, <2>3
<1>8. ASSUME ~k.unwind, NEW p \in 1 .. Len(k.errors)
      PROVE  \E j \in 2 .. Len(stack) - 1 : Answers(stack[j], p, k.errors[p])
  <2>1. ASSUME ~gs.unwind, NEW q \in 1 .. Len(gs.errors)
        PROVE  \E j \in 2 .. Len(stack) - 1 : Answers(stack[j], q, gs.errors[q])
    BY <1>3, <1>4, <1>6, <2>1, KnownPlain DEF Sound
  <2>2. CASE Grows(gs, k)
    <3>1. Len(k.errors) = Len(gs.errors) /\ ~gs.unwind
      BY <1>3, <1>7, <1>8, <2>2 DEF Grows
    <3>2. k.errors[p] = gs.errors[p]
      BY <1>8, <2>2, <3>1 DEF Grows
    <3> QED BY <1>8, <2>1, <3>1, <3>2
  <2>3. CASE Pruned(gs, k, Top.base) /\ p <= Top.base
    <3>1. p \in 1 .. Top.base /\ k.errors[p] = gs.errors[p]
      BY <1>3, <1>7, <1>8, <2>3
    <3>2. CASE Len(stack) - 1 = 1
      <4>1. Len(stack) = 2
        BY <1>3, <3>2
      <4>2. Top.what \notin Kinds
        <5>1. Top.what \in Kinds => Len(stack) > 2
          BY TopOfOrigins DEF Sound, Origins
        <5> QED BY <4>1, <5>1
      <4> QED BY <1>2, <4>2 DEF Plain
    <3>3. Known(stack, Len(stack) - 1, p, gs.errors[p])
      BY <1>4, <3>1, CalledSound
    <3> QED BY <3>1, <3>2, <3>3 DEF Known
  <2>4. CASE Pruned(gs, k, Top.base) /\ ~(p <= Top.base)
    <3>1. p \in Top.base + 1 .. Len(k.errors)
      BY <1>3, <1>7, <1>8, <2>4
    <3>2. ~gs.unwind
      BY <1>3, <1>7, <1>8, <2>4, <3>1 DEF Pruned
    <3>3. PICK q \in Top.base + 1 .. Len(gs.errors) : k.errors[p] = gs.errors[q]
      BY <2>4, <3>1 DEF Pruned
    <3>4. q \in 1 .. Len(gs.errors)
      BY <1>3, <3>3
    <3>5. PICK j \in 2 .. Len(stack) - 1 : Answers(stack[j], q, gs.errors[q])
      BY <2>1, <3>2, <3>4
    <3>6. Absorbing(stack[j])
      BY <3>5, AnswersAbsorb
    <3>7. stack[j].mark <= Top.base /\ stack[j].mark \in Nat
      <4>1. Within(stack, Len(stack) - 1, Top.base)
        BY <1>3, <1>4, CalledSound DEF AccountAt
      <4>2. stack[j] \in Frames
        BY <1>3, <3>5
      <4> QED BY <3>5, <3>6, <4>1, <4>2 DEF Within, Frames
    <3>8. stack[j].mark < p /\ ~(q <= stack[j].mark)
      BY <1>3, <3>1, <3>3, <3>7
    <3>9. Answers(stack[j], p, k.errors[p])
      BY <3>3, <3>5, <3>8 DEF Answers
    <3> QED BY <3>5, <3>9
  <2> QED BY <1>1, <2>2, <2>3, <2>4
<1> DEFINE t == [stack EXCEPT ![Len(stack)] = f]
<1>9. Accounts(k, t)
  BY <1>3, <1>4, <1>5, <1>6, <1>7, <1>8, AccountsSet
<1>10. t \in Seq(Frames) /\ Len(t) > 1 /\ ~Choosing(t[Len(t)])
  BY <1>3, <1>5, <1>6, Replaced
<1>11. Continues(k, t, inAuto, gs', stack', inAuto')
  BY <1>1
<1> HIDE DEF t
<1> QED BY <1>9, <1>10, <1>11, AccountsContinue

-----------------------------------------------------------------------------
\* Accounts: main, and the helper routines that come on top.

LEMMA AccountsMain ==
  ASSUME NEW g \in CallStacks, NEW s, Len(s) = 1, s[1].what = "main", s[1].base = 0,
         g.unwind => s[1].pc \in Pending /\ g.errors # << >>,
         ~g.unwind => g.errors = << >> \/ s[1].pc = "before"
  PROVE  Accounts(g, s)
<1>1. Len(g.errors) \in Nat /\ (g.errors = << >> => Len(g.errors) = 0)
  BY CallStackErrors DEF CallStacks
<1>2. ~Absorbing(s[1]) /\ ~Choosing(s[1]) /\ ~Between(s[1])
  BY DEF Absorbing, Choosing, Between, HelperKinds
<1>3. CalmOK(g, s)
  <2>1. \A p \in 1 .. Len(g.errors) : g.errors # << >>
    BY <1>1
  <2> QED BY <2>1 DEF CalmOK, Known
<1>4. \A i \in 2 .. Len(s) : FALSE
  OBVIOUS
<1> QED BY <1>1, <1>2, <1>3, <1>4 DEF Accounts, AccountOnTop

\* What main knows where it does not look for exceptions.
LEMMA MainQuiet ==
  ASSUME NEW g \in CallStacks, NEW s, Len(s) = 1, s[1].what = "main",
         Accounts(g, s)
  PROVE  /\ g.unwind => s[1].pc \in Pending /\ g.errors # << >>
         /\ ~g.unwind /\ s[1].pc # "before" => g.errors = << >>
         /\ ~g.unwind => g.errors = << >> \/ s[1].pc = "before"
<1>1. AccountOnTop(g, s)
  BY DEF Accounts
<1>2. g.unwind => s[1].pc \in Pending /\ g.errors # << >>
  BY <1>1 DEF AccountOnTop
<1>3. ASSUME ~g.unwind, s[1].pc # "before" PROVE g.errors = << >>
  <2>1. \A p \in 1 .. Len(g.errors) : Known(s, 1, p, g.errors[p]) \/ Choosing(s[1])
    BY <1>1, <1>3 DEF AccountOnTop, CalmOK
  <2>2. \A p : ~Known(s, 1, p, g.errors[p])
    BY <1>3 DEF Known
  <2>3. ~Choosing(s[1])
    BY DEF Choosing, Between
  <2>4. \A p \in 1 .. Len(g.errors) : FALSE
    BY <2>1, <2>2, <2>3
  <2>5. Len(g.errors) \in Nat /\ g.errors \in Seq(Names)
    BY CallStackErrors DEF CallStacks
  <2>6. ~(1 <= Len(g.errors))
    BY <2>4, <2>5
  <2> QED BY <2>5, <2>6
<1> QED BY <1>2, <1>3

LEMMA WithinOne ==
  ASSUME NEW s, NEW n
  PROVE  Within(s, 1, n)
BY DEF Within

\* Call_stack::exception_handler comes on top.
LEMMA AccountsStart ==
  ASSUME NEW g, NEW h \in CallStacks, NEW s \in Seq(Frames), Len(s) > 0, Rows(g, s),
         \A i \in 2 .. Len(s) : \A p \in 1 .. Found(s[i]) : h.errors[p] = g.errors[p],
         NEW base \in Nat, base <= Len(h.errors), Within(s, Len(s), base),
         \A p \in 1 .. base : Known(s, Len(s), p, h.errors[p]),
         StartHandler(h, s, base)
  PROVE  Accounts(gs', stack')
<1> DEFINE f == HandlerFrame(base)
           k == [h EXCEPT !.inHandler = TRUE, !.unwind = FALSE]
<1>1. /\ f \in Frames /\ FromScript(f) /\ f.what = "handler" /\ f.pc = "next"
      /\ f.base = base
  BY StartedFrame
<1>2. f.mark = base
  BY DEF HandlerFrame, Frame
<1>3. stack' = Append(s, f) /\ gs' = k
  BY DEF StartHandler
<1>4. k.errors = h.errors /\ k.unwind = FALSE /\ Len(k.errors) \in Nat
  BY CallStackErrors DEF CallStacks
<1> HIDE DEF f, k
<1>5. /\ Absorbing(f) /\ ~Amid(f) /\ Between(f) /\ Choosing(f) /\ Found(f) = f.base
      /\ f.what # "substitution" /\ f.what # "catch_one"
  BY <1>1 DEF Absorbing, Amid, Between, Choosing, Found, HelperKinds
<1>6. \A i \in 2 .. Len(s) : \A p \in 1 .. Found(s[i]) : k.errors[p] = g.errors[p]
  BY <1>4
<1>7. \A p \in 1 .. Found(f) : Known(s, Len(s), p, k.errors[p])
  BY <1>1, <1>4, <1>5
<1>8. f.base <= f.mark /\ f.mark <= Len(k.errors) /\ f.base <= Len(k.errors)
  BY <1>1, <1>2, <1>4
<1>9. \A p \in 1 .. Len(k.errors) :
        Answers(f, p, k.errors[p]) \/ (Choosing(f) /\ p > f.base)
  <2>1. \A p \in 1 .. Len(k.errors) : p <= base \/ p > base
    BY <1>4
  <2> QED BY <1>1, <1>2, <1>5, <2>1 DEF Answers
<1>10. Within(s, Len(s), f.base) /\ ~k.unwind
  BY <1>1, <1>4
<1>11. Accounts(k, Append(s, f))
  BY <1>1, <1>4, <1>5, <1>6, <1>7, <1>8, <1>9, <1>10, AccountsPush
<1> QED BY <1>3, <1>11

\* Executable_map::run_handling_exceptions and base_run.
LEMMA AccountsHandling ==
  ASSUME NEW g \in CallStacks, NEW s \in Seq(Frames), Len(s) > 0,
         Accounts(g, s), ~g.unwind, ~Absorbing(s[Len(s)]), ~Choosing(s[Len(s)]),
         NEW what \in {"run_handling", "base_run"}, NEW base \in Nat,
         base = s[Len(s)].base,
         NEW c \in Statements, RunHandling(g, s, what, base, c)
  PROVE  Accounts(gs', stack')
<1> DEFINE f == [Frame(what, "ran", c, base) EXCEPT !.mark = Len(g.errors)]
           t == Append(s, f)
<1>1. /\ f \in Frames /\ f.what = what /\ f.pc = "ran" /\ f.base = base
      /\ f.mark = Len(g.errors)
  <2>1. Len(g.errors) \in Nat
    BY CallStackErrors
  <2> QED BY <2>1, HandlingFrame
<1>2. Run(g, t, c)
  BY DEF RunHandling
<1> HIDE DEF f
<1>3. /\ Absorbing(f) /\ ~Amid(f) /\ ~Between(f) /\ ~Choosing(f)
      /\ Found(f) = f.mark
      /\ f.what # "substitution" /\ f.what # "catch_one"
  BY <1>1 DEF Absorbing, Amid, Between, Choosing, Found, HelperKinds
<1>4. Len(g.errors) \in Nat /\ AccountOnTop(g, s) /\ Rows(g, s) /\ Len(s) \in Nat
  BY CallStackErrors DEF Accounts, Rows
<1>5. f.base <= Len(g.errors) /\ f.base <= f.mark /\ f.mark <= Len(g.errors)
  BY <1>1, <1>4 DEF AccountOnTop
<1>6. \A p \in 1 .. Len(g.errors) : Known(s, Len(s), p, g.errors[p])
  BY <1>4 DEF AccountOnTop, CalmOK
<1>7. Within(s, Len(s), f.base)
  <2>1. CASE Len(s) = 1
    BY <2>1, WithinOne
  <2>2. CASE Len(s) > 1
    <3>1. AccountAt(g, s, Len(s))
      BY <1>4, <2>2 DEF Rows
    <3>2. Within(s, Len(s) - 1, s[Len(s)].base)
      BY <3>1 DEF AccountAt
    <3>3. \A j \in 2 .. Len(s) : j = Len(s) \/ j \in 2 .. Len(s) - 1
      BY <1>4
    <3>4. \A j \in 2 .. Len(s) - 1 :
            s[j].base <= base /\ (Absorbing(s[j]) => s[j].mark <= base)
      BY <3>2 DEF Within
    <3>5. base <= base /\ s[Len(s)].base = base
      OBVIOUS
    <3>6. \A j \in 2 .. Len(s) :
            s[j].base <= base /\ (Absorbing(s[j]) => s[j].mark <= base)
      BY <3>3, <3>4, <3>5, Zenon
    <3> QED BY <1>1, <3>6 DEF Within
  <2>3. Len(s) = 1 \/ Len(s) > 1
    <3> DEFINE n == Len(s)
    <3>1. n \in Nat /\ n > 0
      BY <1>4
    <3> HIDE DEF n
    <3>2. n = 1 \/ n > 1
      BY <3>1
    <3> QED BY <3>2 DEF n
  <2> QED BY <2>1, <2>2, <2>3
<1>8. \A p \in 1 .. Found(f) : Known(s, Len(s), p, g.errors[p])
  BY <1>1, <1>3, <1>6
<1>9. \A p \in 1 .. Len(g.errors) : Answers(f, p, g.errors[p])
  BY <1>1, <1>3, <1>4 DEF Answers
<1>10. \A i \in 2 .. Len(s) : \A p \in 1 .. Found(s[i]) : g.errors[p] = g.errors[p]
  OBVIOUS
<1>11. Accounts(g, t)
  BY <1>1, <1>3, <1>4, <1>5, <1>7, <1>8, <1>9, <1>10, AccountsPush
<1>12. /\ t \in Seq(Frames) /\ Len(t) = Len(s) + 1 /\ Len(s) \in Nat
       /\ t[Len(s) + 1] = f
  BY <1>1, Pushed
<1>13. Len(t) > 1 /\ t[Len(t)] = f
  BY <1>12
<1> HIDE DEF t
<1>14. Continues(g, t, inAuto, gs', stack', inAuto')
  BY <1>2, RunContinues
<1> QED BY <1>3, <1>11, <1>12, <1>13, <1>14, AccountsContinue

\* Executable_map::run_if_exists, which main calls.
LEMMA AccountsIfExists ==
  ASSUME NEW g \in CallStacks, NEW s \in Seq(Frames), Len(s) = 1,
         s[1].what = "main", Accounts(g, s), UNCHANGED inAuto,
         g.errors = << >> \/ s[1].pc = "before",
         NEW name \in Names, RunIfExists(g, s, name)
  PROVE  Accounts(gs', stack')
<1> DEFINE c == CallOf(name)
           f == Frame("run_if_exists", "ran", c, Len(g.errors))
           t == Append(s, f)
<1>1. c \in Statements
  BY StatementsTyped
<1>2. CASE name \in Defined
  <2>1. Call(g, t, c)
    BY <1>2 DEF RunIfExists
  <2>2. /\ f \in Frames /\ f.what = "run_if_exists" /\ f.pc = "ran"
        /\ f.base = Len(g.errors) /\ f.mark = Len(g.errors)
    <3> HIDE DEF c
    <3> QED BY <1>1, HelperFrame
  <2> HIDE DEF c, f
  <2>3. /\ Absorbing(f) /\ ~Amid(f) /\ ~Between(f) /\ ~Choosing(f)
        /\ Found(f) = f.mark
        /\ f.what # "substitution" /\ f.what # "catch_one"
    BY <2>2 DEF Absorbing, Amid, Between, Choosing, Found, HelperKinds
  <2>4. Len(g.errors) \in Nat /\ (g.errors = << >> => Len(g.errors) = 0)
    BY CallStackErrors
  <2>5. \A p \in 1 .. Len(g.errors) : Known(s, Len(s), p, g.errors[p])
    BY <2>4 DEF Known
  <2>6. \A p \in 1 .. Found(f) : Known(s, Len(s), p, g.errors[p])
    BY <2>2, <2>3, <2>5
  <2>7. \A p \in 1 .. Len(g.errors) : Answers(f, p, g.errors[p])
    BY <2>2, <2>3, <2>4 DEF Answers
  <2>8. /\ f.base <= Len(g.errors) /\ f.base <= f.mark /\ f.mark <= Len(g.errors)
        /\ Within(s, Len(s), f.base) /\ Rows(g, s) /\ Len(s) > 0
        /\ \A i \in 2 .. Len(s) : \A p \in 1 .. Found(s[i]) : g.errors[p] = g.errors[p]
    BY <2>2, <2>4, WithinOne DEF Rows
  <2>9. Accounts(g, t)
    BY <2>2, <2>3, <2>4, <2>6, <2>7, <2>8, AccountsPush
  <2>10. /\ t \in Seq(Frames) /\ Len(t) = Len(s) + 1 /\ Len(s) \in Nat
         /\ t[Len(s) + 1] = f
    BY <2>2, Pushed
  <2>11. Len(t) > 1 /\ t[Len(t)] = f
    BY <2>10
  <2> HIDE DEF t
  <2>12. Continues(g, t, inAuto, gs', stack', inAuto')
    BY <1>1, <2>1, CallContinues
  <2> QED BY <2>3, <2>9, <2>10, <2>11, <2>12, AccountsContinue
<1>3. CASE name \notin Defined
  BY <1>3 DEF RunIfExists
<1> QED BY <1>2, <1>3

\* Call_stack::catch_one
LEMMA AccountsCatchOne ==
  ASSUME NEW g, NEW h \in CallStacks, NEW s \in Seq(Frames), Len(s) > 0, Rows(g, s),
         \A i \in 2 .. Len(s) : \A p \in 1 .. Found(s[i]) : h.errors[p] = g.errors[p],
         Within(s, Len(s), Len(h.errors)), Len(h.errors) > 0,
         s[Len(s)].pc = "got",
         NEW c \in Statements, CatchOne(h, s, c)
  PROVE  Accounts(gs', stack')
<1> DEFINE f == Frame("catch_one", "ran", c, Len(h.errors))
           t == Append(s, f)
           k == [h EXCEPT !.inHandler = TRUE, !.unwind = FALSE]
<1>1. /\ f \in Frames /\ f.what = "catch_one" /\ f.pc = "ran"
      /\ f.base = Len(h.errors) /\ f.mark = Len(h.errors)
  BY HelperFrame
<1>2. Run(k, t, c) /\ k \in CallStacks /\ k.errors = h.errors
      /\ k.unwind = FALSE /\ Len(k.errors) \in Nat
  BY CallStackErrors DEF CatchOne, CallStacks
<1> HIDE DEF f, k
<1>3. /\ Absorbing(f) /\ Amid(f) /\ ~Between(f) /\ ~Choosing(f)
      /\ f.what # "substitution"
  BY <1>1 DEF Absorbing, Amid, Between, Choosing, HelperKinds
<1>4. /\ f.base <= f.mark /\ f.mark <= Len(k.errors) /\ f.base <= Len(k.errors)
      /\ Within(s, Len(s), f.base) /\ f.mark > 0
      /\ \A i \in 2 .. Len(s) : \A p \in 1 .. Found(s[i]) : k.errors[p] = g.errors[p]
  BY <1>1, <1>2
<1>5. \A p \in 1 .. Len(k.errors) : Answers(f, p, k.errors[p])
  BY <1>1, <1>2, <1>3 DEF Answers
<1>6. Accounts(k, t)
  BY <1>1, <1>2, <1>3, <1>4, <1>5, AccountsPush
<1>7. /\ t \in Seq(Frames) /\ Len(t) = Len(s) + 1 /\ Len(s) \in Nat
      /\ t[Len(s) + 1] = f
  BY <1>1, Pushed
<1>8. Len(t) > 1 /\ t[Len(t)] = f
  BY <1>7
<1> HIDE DEF t
<1>9. Continues(k, t, inAuto, gs', stack', inAuto')
  BY <1>2, RunContinues
<1> QED BY <1>2, <1>3, <1>6, <1>7, <1>8, <1>9, AccountsContinue

-----------------------------------------------------------------------------
\* Accounts: coming back to the routine that called.

LEMMA CalledBelow ==
  ASSUME Sound, Top.what # "main"
  PROVE  /\ Popped \in Seq(Frames) /\ Len(Popped) = Len(stack) - 1
         /\ Len(Popped) > 0 /\ ~Choosing(Popped[Len(Popped)])
         /\ \A j \in 1 .. Len(stack) - 1 : Popped[j] = stack[j]
         /\ Rows(gs, Popped) /\ Within(Popped, Len(Popped), Top.base)
         /\ \A i \in 2 .. Len(Popped) :
              Found(Popped[i]) <= Top.base /\ Found(Popped[i]) \in Nat
<1>1. /\ stack \in Seq(Frames) /\ Len(stack) > 0 /\ Rows(gs, stack)
      /\ Top = stack[Len(stack)]
  BY TopSound
<1>2. Len(stack) > 1 /\ Len(stack) - 1 \in Nat \ {0}
      /\ ~Choosing(stack[Len(stack) - 1]) /\ AccountAt(gs, stack, Len(stack))
  BY CalledSound
<1>3. /\ Popped \in Seq(Frames) /\ Len(Popped) = Len(stack) - 1
      /\ \A j \in 1 .. Len(stack) - 1 : Popped[j] = stack[j]
  BY <1>1, <1>2, Shortened DEF Popped
<1>4. Len(Popped) > 0 /\ ~Choosing(Popped[Len(Popped)])
  BY <1>2, <1>3
<1>5. Rows(gs, Popped)
  <2>1. ASSUME NEW i \in 2 .. Len(Popped) PROVE AccountAt(gs, Popped, i)
    <3>1. i \in 2 .. Len(stack) /\ i \in Nat /\ i > 1
          /\ \A j \in 1 .. i : Popped[j] = stack[j]
      BY <1>2, <1>3
    <3>2. AccountAt(gs, stack, i)
      BY <1>1, <3>1 DEF Rows
    <3> QED BY <3>1, <3>2, RowBelow
  <2> QED BY <2>1 DEF Rows
<1>6. Within(Popped, Len(Popped), Top.base)
  <2>1. Within(stack, Len(stack) - 1, Top.base)
    BY <1>1, <1>2 DEF AccountAt
  <2>2. Len(stack) - 1 \in Nat
    BY <1>2
  <2> QED BY <1>3, <2>1, <2>2, WithinSame
<1>7. ASSUME NEW i \in 2 .. Len(Popped)
      PROVE  Found(Popped[i]) <= Top.base /\ Found(Popped[i]) \in Nat
  <2>1. i \in 2 .. Len(stack) - 1 /\ Popped[i] = stack[i] /\ Popped[i] \in Frames
    BY <1>2, <1>3
  <2>2. Found(stack[i]) <= Top.base
    BY <1>1, <2>1, FoundWithin
  <2> QED BY <2>1, <2>2, FoundKinds
<1> QED BY <1>3, <1>4, <1>5, <1>6, <1>7

LEMMA AccountsPopped ==
  ASSUME Sound, Top.what # "main", NEW h,
         Len(h.errors) \in Nat, Top.base <= Len(h.errors),
         \A p \in 1 .. Top.base : h.errors[p] = gs.errors[p],
         ~h.unwind => \A p \in 1 .. Len(h.errors) :
                        Known(stack, Len(stack) - 1, p, h.errors[p]),
         Len(stack) = 2 /\ h.unwind => stack[1].pc \in Pending /\ h.errors # << >>
  PROVE  Accounts(h, Popped)
<1>1. /\ stack \in Seq(Frames) /\ Rows(gs, stack) /\ Top = stack[Len(stack)]
      /\ ~Absorbing(stack[1]) /\ stack[1].base = 0
  BY TopSound
<1>2. Len(stack) > 1 /\ ~Choosing(stack[Len(stack) - 1])
  BY CalledSound
<1> QED BY <1>1, <1>2, AccountsPop DEF Popped

LEMMA PoppedKnown ==
  ASSUME Sound, Top.what # "main", ~gs.unwind, ~Choosing(Top), ~Catching(Top),
         ~Amid(Top), Absorbing(Top) => Found(Top) = Top.mark,
         NEW p \in 1 .. Len(gs.errors)
  PROVE  Known(stack, Len(stack) - 1, p, gs.errors[p])
<1>1. /\ Top = stack[Len(stack)] /\ AccountOnTop(gs, stack) /\ Top.mark \in Nat
      /\ Len(stack) \in Nat
  BY TopSound
<1>2. /\ Len(stack) > 1
      /\ \A q \in 1 .. Found(Top) : Known(stack, Len(stack) - 1, q, gs.errors[q])
  BY CalledSound
<1>3. Known(stack, Len(stack), p, gs.errors[p])
  BY <1>1 DEF AccountOnTop, CalmOK
<1>4. PICK j \in 2 .. Len(stack) : Answers(stack[j], p, gs.errors[p])
  BY <1>2, <1>3 DEF Known
<1>5. CASE j = Len(stack)
  <2>1. Absorbing(Top) /\ p <= Top.mark
    BY <1>1, <1>4, <1>5 DEF Answers
  <2>2. p \in 1 .. Found(Top)
    BY <1>1, <2>1
  <2> QED BY <1>2, <2>2
<1>6. CASE j # Len(stack)
  <2>1. j \in 2 .. Len(stack) - 1
    BY <1>1, <1>4, <1>6
  <2> QED BY <1>4, <2>1 DEF Known
<1> QED BY <1>5, <1>6

\* What it found, it leaves to those that answered for it.
LEMMA FoundKnown ==
  ASSUME Sound, Top.what # "main", ~Amid(Top), NEW p \in 1 .. Top.base
  PROVE  Known(stack, Len(stack) - 1, p, gs.errors[p])
<1>1. Top \in Frames /\ Top.base \in Nat /\ Top.mark \in Nat
  BY TopSound
<1>2. /\ \A q \in 1 .. Found(Top) : Known(stack, Len(stack) - 1, q, gs.errors[q])
      /\ Absorbing(Top) => Top.base <= Top.mark
  BY CalledSound
<1>3. Top.base <= Found(Top) /\ Found(Top) \in Nat
  BY <1>1, <1>2, FoundKinds
<1>4. p \in 1 .. Found(Top)
  BY <1>1, <1>3
<1> QED BY <1>2, <1>4

LEMMA StartPopped ==
  ASSUME Sound, Top.what # "main", ~Amid(Top), NEW h, Grows(gs, h),
         StartHandler(h, Popped, Top.base)
  PROVE  Accounts(gs', stack')
<1>1. /\ Top.base \in Nat /\ Top.base <= Len(gs.errors) /\ Len(gs.errors) \in Nat
  BY TopSound
<1>2. /\ Popped \in Seq(Frames) /\ Len(Popped) > 0 /\ Rows(gs, Popped)
      /\ Within(Popped, Len(Popped), Top.base) /\ Len(Popped) = Len(stack) - 1
      /\ \A j \in 1 .. Len(stack) - 1 : Popped[j] = stack[j]
      /\ \A i \in 2 .. Len(Popped) :
           Found(Popped[i]) <= Top.base /\ Found(Popped[i]) \in Nat
  BY CalledBelow
<1>3. /\ h \in CallStacks /\ Len(h.errors) \in Nat /\ Len(gs.errors) <= Len(h.errors)
      /\ \A p \in 1 .. Len(gs.errors) : h.errors[p] = gs.errors[p]
  BY CallStackErrors DEF Grows
<1>4. \A i \in 2 .. Len(Popped) : \A p \in 1 .. Found(Popped[i]) :
        h.errors[p] = gs.errors[p]
  BY <1>1, <1>2, <1>3
<1>5. ASSUME NEW p \in 1 .. Top.base
      PROVE  Known(Popped, Len(Popped), p, h.errors[p])
  <2>1. Known(stack, Len(stack) - 1, p, gs.errors[p])
    BY FoundKnown
  <2>2. h.errors[p] = gs.errors[p]
    BY <1>1, <1>3
  <2>3. Len(stack) - 1 \in Nat \ {0}
    BY CalledSound
  <2>4. Known(Popped, Len(stack) - 1, p, gs.errors[p])
    BY <1>2, <2>1, <2>3, KnownSame
  <2> QED BY <1>2, <2>2, <2>4
<1>6. Top.base <= Len(h.errors)
  BY <1>1, <1>3
<1> QED BY <1>1, <1>2, <1>3, <1>4, <1>5, <1>6, AccountsStart

LEMMA AccountsReturns ==
  ASSUME Sound,
         \/ SecondLookup \/ Leaves \/ Substituted \/ HandlersDone
         \/ RanHandling \/ RanIfExists \/ CaughtOne
  PROVE  Accounts(gs', stack')
<1>1. /\ gs \in CallStacks /\ Len(gs.errors) \in Nat /\ gs.unwind \in BOOLEAN
      /\ Top \in Frames /\ FromScript(Top) /\ Top.base \in Nat /\ Top.mark \in Nat
      /\ Top.base <= Len(gs.errors) /\ Top = stack[Len(stack)]
      /\ AccountOnTop(gs, stack) /\ Len(stack) \in Nat
  BY TopSound
<1>2. /\ "main" \notin Kinds /\ ".function_not_found" \in Names
      /\ ".failed_substitution" \in Names /\ ".unfinished_if_block" \in Names
  BY ThrownNames DEF Kinds
<1>3. Top.what \in Kinds \cup {"autofunction"} => Len(stack) > 2 /\ Len(stack) # 2
  BY TopOfOrigins DEF Sound, Origins
<1>4. CASE SecondLookup
  <2>1. /\ Top.what = "autofunction" /\ inAuto' = FALSE
        /\ \/ Call(gs, Popped, Top.cmd)
           \/ gs' = AddError(gs, ".function_not_found") /\ stack' = Popped
    BY <1>4 DEF SecondLookup
  <2>2. Top.cmd \in Statements
    BY <1>1 DEF FromScript
  <2>3. Grows(gs, gs') /\ (stack' = Popped \/ (~gs'.unwind /\ stack' = Entered(Popped, Top.cmd, gs')))
    <3>1. CASE Call(gs, Popped, Top.cmd)
      BY <1>1, <3>1, CallEffect
    <3>2. CASE gs' = AddError(gs, ".function_not_found") /\ stack' = Popped
      BY <1>1, <1>2, <3>2, AddErrorEffect
    <3> QED BY <2>1, <3>1, <3>2
  <2>4. Continues(gs, Popped, inAuto', gs', stack', inAuto')
    BY <2>2, <2>3 DEF Continues
  <2>5. /\ Top.what # "main" /\ ~Absorbing(Top) /\ ~Choosing(Top)
    BY <2>1 DEF Absorbing, Choosing, Between, HelperKinds
  <2>6. ASSUME ~gs.unwind, NEW p \in 1 .. Len(gs.errors)
        PROVE  Known(stack, Len(stack) - 1, p, gs.errors[p])
    <3>1. stack \in Seq(Frames) /\ Len(stack) > 1
      BY <2>5, TopSound, CalledSound
    <3>2. \E j \in 2 .. Len(stack) - 1 : Answers(stack[j], p, gs.errors[p])
      BY <1>1, <2>5, <2>6, <3>1, KnownPlain DEF Sound
    <3> QED BY <3>2 DEF Known
  <2>7. Accounts(gs, Popped)
    BY <1>1, <1>3, <2>1, <2>5, <2>6, AccountsPopped
  <2>8. Popped \in Seq(Frames) /\ Len(Popped) > 1 /\ ~Choosing(Popped[Len(Popped)])
    <3>1. Popped \in Seq(Frames) /\ Len(Popped) = Len(stack) - 1
          /\ ~Choosing(Popped[Len(Popped)])
      BY <2>5, CalledBelow
    <3>2. Len(stack) - 1 > 1
      BY <1>1, <1>3, <2>1
    <3> QED BY <3>1, <3>2
  <2> QED BY <1>1, <2>4, <2>7, <2>8, AccountsContinue
<1>5. CASE Leaves
  <2>1. /\ Plain(Top) /\ Grows(gs, gs') /\ stack' = Popped
    BY <1>5 DEF Leaves
  <2>2. /\ Top.what # "main" /\ ~Absorbing(Top) /\ ~Choosing(Top)
        /\ Len(stack) # 2
    BY <1>2, <1>3, <2>1 DEF Plain
  <2>3. /\ Len(gs'.errors) \in Nat /\ gs'.unwind \in BOOLEAN
        /\ Len(gs.errors) <= Len(gs'.errors)
        /\ \A p \in 1 .. Len(gs.errors) : gs'.errors[p] = gs.errors[p]
        /\ ~gs'.unwind => ~gs.unwind /\ Len(gs'.errors) = Len(gs.errors)
    BY <1>1, <2>1, CallStackErrors DEF Grows, CallStacks
  <2>4. ASSUME ~gs'.unwind, NEW p \in 1 .. Len(gs'.errors)
        PROVE  Known(stack, Len(stack) - 1, p, gs'.errors[p])
    <3>1. stack \in Seq(Frames) /\ Len(stack) > 1
      BY <2>2, TopSound, CalledSound
    <3>2. ~gs.unwind /\ p \in 1 .. Len(gs.errors) /\ gs'.errors[p] = gs.errors[p]
      BY <2>3, <2>4
    <3>3. \E j \in 2 .. Len(stack) - 1 : Answers(stack[j], p, gs.errors[p])
      BY <1>1, <2>2, <3>1, <3>2, KnownPlain DEF Sound
    <3> QED BY <3>2, <3>3 DEF Known
  <2>5. Top.base <= Len(gs'.errors)
        /\ \A p \in 1 .. Top.base : gs'.errors[p] = gs.errors[p]
    BY <1>1, <2>3
  <2> QED BY <2>1, <2>2, <2>3, <2>4, <2>5, AccountsPopped
<1>6. CASE Substituted
  <2> DEFINE g == AddErrorIf(gs.unwind, gs, ".failed_substitution")
  <2>1. /\ Top.what = "substitution" /\ stack' = Popped
        /\ gs' = [g EXCEPT !.unwind = Top.flag \/ g.unwind]
    BY <1>6 DEF Substituted
  <2>2. Grows(gs, g) /\ (gs.unwind => Len(g.errors) = Len(gs.errors) + 1)
    <3>1. gs.unwind => Len(g.errors) = Len(gs.errors) + 1
      BY <1>1, <1>2, AddErrorEffect DEF AddErrorIf
    <3>2. Grows(gs, g)
      BY <1>1, <1>2, AddErrorIfEffect
    <3> QED BY <3>1, <3>2
  <2> HIDE DEF g
  <2>3. /\ g \in CallStacks /\ Len(g.errors) \in Nat /\ g.unwind \in BOOLEAN
        /\ Len(gs.errors) <= Len(g.errors)
        /\ \A p \in 1 .. Len(gs.errors) : g.errors[p] = gs.errors[p]
        /\ ~g.unwind => ~gs.unwind /\ Len(g.errors) = Len(gs.errors)
    <3>1. g \in CallStacks /\ (Len(gs.errors) < Len(g.errors) => g.unwind)
          /\ Len(gs.errors) <= Len(g.errors) /\ (gs.unwind => g.unwind)
          /\ \A p \in 1 .. Len(gs.errors) : g.errors[p] = gs.errors[p]
      BY <2>2 DEF Grows
    <3>2. Len(g.errors) \in Nat /\ g.unwind \in BOOLEAN
      BY <3>1, CallStackErrors DEF CallStacks
    <3> QED BY <1>1, <3>1, <3>2
  <2>4. gs'.errors = g.errors /\ gs'.unwind = (Top.flag \/ g.unwind)
        /\ Top.flag \in BOOLEAN
    BY <1>1, <2>1, <2>3 DEF CallStacks, Frames
  <2>5. /\ Top.what # "main" /\ ~Choosing(Top) /\ ~Catching(Top)
        /\ Absorbing(Top) /\ Found(Top) = Top.mark
        /\ (~Top.flag => ~Amid(Top))
    BY <2>1 DEF Choosing, Between, Catching, Amid, Found, Absorbing, HelperKinds
  <2>6. ASSUME ~gs'.unwind, NEW p \in 1 .. Len(gs'.errors)
        PROVE  Known(stack, Len(stack) - 1, p, gs'.errors[p])
    <3>1. /\ ~gs.unwind /\ ~Top.flag /\ p \in 1 .. Len(gs.errors)
          /\ gs'.errors[p] = gs.errors[p]
      BY <2>3, <2>4, <2>6
    <3> QED BY <2>5, <3>1, PoppedKnown
  <2>7. Len(stack) = 2 /\ gs'.unwind => stack[1].pc \in Pending /\ gs'.errors # << >>
    <3>1. AccountAt(gs, stack, Len(stack)) /\ Top.mark <= Len(gs.errors)
      BY <2>5, CalledSound
    <3>2. Len(stack) = 2 => stack[1].pc = "arguments" /\ (Top.flag => Top.mark > 0)
      BY <1>1, <2>1, <3>1 DEF AccountAt
    <3>3. Len(stack) = 2 /\ Top.flag => Len(g.errors) > 0
      BY <1>1, <2>3, <3>1, <3>2
    <3>4. g.unwind => gs.unwind
      BY DEF g, AddErrorIf
    <3>5. Len(stack) = 2 /\ gs'.unwind => Len(g.errors) > 0
      BY <1>1, <2>2, <2>4, <3>3, <3>4
    <3>6. Len(gs'.errors) > 0 => gs'.errors # << >>
      BY <2>3, <2>4
    <3> QED BY <2>4, <3>2, <3>5, <3>6 DEF Pending
  <2>8. /\ Top.base <= Len(gs'.errors) /\ Len(gs'.errors) \in Nat
        /\ \A p \in 1 .. Top.base : gs'.errors[p] = gs.errors[p]
    BY <1>1, <2>3, <2>4
  <2> QED BY <2>1, <2>5, <2>6, <2>7, <2>8, AccountsPopped
<1>7. CASE HandlersDone
  <2>1. /\ Top.what = "handler" /\ Top.pc = "next" /\ Len(gs.errors) = Top.base
        /\ stack' = Popped /\ gs'.errors = gs.errors /\ gs'.unwind = gs.unwind
    BY <1>1, <1>7 DEF HandlersDone, CallStacks
  <2>2. Top.what # "main" /\ ~Amid(Top) /\ Between(Top)
    BY <2>1 DEF Amid, Between
  <2>3. ~gs.unwind
    BY <2>2, CalledSound
  <2>4. \A p \in 1 .. Len(gs.errors) : Known(stack, Len(stack) - 1, p, gs.errors[p])
    BY <2>1, <2>2, FoundKnown
  <2> QED BY <1>1, <2>1, <2>2, <2>3, <2>4, AccountsPopped
<1>8. CASE RanHandling
  <2>1. PICK g : /\ Top.what \in {"run_handling", "base_run"}
                 /\ Grows(gs, g)
                 /\ IF g.unwind THEN StartHandler(g, Popped, Top.base)
                    ELSE gs' = g /\ stack' = Popped
    <3> DEFINE u == Top.what = "base_run" /\ gc.in_if /\ ~gc.thrown
               g == AddErrorIf(u, gs, ".unfinished_if_block")
    <3>1. u \in BOOLEAN
      BY DEF Sound, ShellInvariant, Conditionals
    <3>2. /\ Top.what \in {"run_handling", "base_run"}
          /\ IF g.unwind THEN StartHandler(g, Popped, Top.base)
             ELSE gs' = g /\ stack' = Popped
      BY <1>8 DEF RanHandling
    <3> HIDE DEF u
    <3>3. Grows(gs, g)
      BY <1>1, <1>2, <3>1, AddErrorIfEffect
    <3> HIDE DEF g
    <3> QED BY <3>2, <3>3
  <2>2. /\ Top.what # "main" /\ ~Choosing(Top) /\ ~Catching(Top)
        /\ ~Amid(Top) /\ Found(Top) = Top.mark
    BY <2>1 DEF Choosing, Between, Catching, Amid, Found
  <2>3. CASE g.unwind
    BY <2>1, <2>2, <2>3, StartPopped
  <2>4. CASE ~g.unwind
    <3>1. /\ Len(g.errors) = Len(gs.errors) /\ ~gs.unwind
          /\ \A p \in 1 .. Len(gs.errors) : g.errors[p] = gs.errors[p]
      BY <1>1, <2>1, <2>4, CallStackErrors DEF Grows
    <3>2. \A p \in 1 .. Len(g.errors) : Known(stack, Len(stack) - 1, p, g.errors[p])
      BY <2>2, <3>1, PoppedKnown
    <3>3. \A p \in 1 .. Top.base : g.errors[p] = gs.errors[p]
      BY <1>1, <3>1
    <3> QED BY <1>1, <2>1, <2>2, <2>4, <3>1, <3>2, <3>3, AccountsPopped
  <2> QED BY <2>3, <2>4
<1>9. CASE RanIfExists
  <2>1. /\ Top.what = "run_if_exists"
        /\ IF gs.unwind THEN StartHandler(gs, Popped, Top.base)
           ELSE gs' = DestroyList(gs, Top.base) /\ stack' = Popped
    BY <1>9 DEF RanIfExists
  <2>2. Top.what # "main" /\ ~Amid(Top)
    BY <2>1 DEF Amid
  <2>3. CASE gs.unwind
    BY <1>1, <2>1, <2>2, <2>3, StartPopped, GrowsSelf
  <2>4. CASE ~gs.unwind
    <3>1. /\ gs'.errors = SubSeq(gs.errors, 1, Top.base) /\ gs'.unwind = gs.unwind
          /\ gs.errors \in Seq(Names)
      BY <1>1, <2>1, <2>4 DEF DestroyList, CallStacks
    <3>2. /\ Len(gs'.errors) = Top.base
          /\ \A p \in 1 .. Top.base : gs'.errors[p] = gs.errors[p]
      BY <1>1, <3>1
    <3>3. \A p \in 1 .. Len(gs'.errors) : Known(stack, Len(stack) - 1, p, gs'.errors[p])
      BY <2>2, <3>2, FoundKnown
    <3>4. Top.base <= Len(gs'.errors) /\ Len(gs'.errors) \in Nat /\ ~gs'.unwind
      BY <1>1, <2>4, <3>1, <3>2
    <3>5. Accounts(gs', Popped)
      BY <2>2, <3>2, <3>3, <3>4, AccountsPopped
    <3> QED BY <2>1, <2>4, <3>5
  <2> QED BY <2>3, <2>4
<1>10. CASE CaughtOne
  <2>1. /\ Top.what = "catch_one" /\ stack' = Popped
        /\ gs'.errors = gs.errors /\ gs'.unwind = TRUE
    BY <1>1, <1>10 DEF CaughtOne, CallStacks
  <2>2. Top.what # "main" /\ Absorbing(Top) /\ ~Choosing(Top)
    BY <2>1 DEF Absorbing, Choosing, Between, HelperKinds
  <2>3. AccountAt(gs, stack, Len(stack)) /\ Top.mark <= Len(gs.errors)
    BY <2>2, CalledSound
  <2>4. Len(stack) = 2 => stack[1].pc = "got" /\ Top.mark > 0
    BY <1>1, <2>1, <2>3 DEF AccountAt
  <2>5. Len(stack) = 2 => stack[1].pc \in Pending /\ gs'.errors # << >>
    <3>1. Len(stack) = 2 => Len(gs.errors) > 0
      BY <1>1, <2>3, <2>4
    <3>2. Len(gs.errors) > 0 => gs.errors # << >>
      BY <1>1
    <3> QED BY <2>1, <2>4, <3>1, <3>2 DEF Pending
  <2> QED BY <1>1, <2>1, <2>2, <2>5, AccountsPopped
<1> QED BY <1>4, <1>5, <1>6, <1>7, <1>8, <1>9, <1>10

-----------------------------------------------------------------------------
\* Accounts: substitutions, handlers, collectors and the rest.

\* A routine at another place of its code.
LEMMA AccountsMoved ==
  ASSUME Sound, Top.what # "main", ~Amid(Top), Found(Top) = Top.base,
         NEW h \in CallStacks, NEW f \in Frames, f.base = Top.base,
         f.what \in Kinds \/ f.what = "handler",
         \A p \in 1 .. Top.base : h.errors[p] = gs.errors[p],
         Top.base <= Len(h.errors),
         Absorbing(f) => f.base <= f.mark,
         Absorbing(f) /\ ~Choosing(f) => f.mark <= Len(h.errors),
         Between(f) => ~h.unwind,
         ~h.unwind => \A p \in 1 .. Len(h.errors) :
           \/ Answers(f, p, h.errors[p])
           \/ \E j \in 2 .. Len(stack) - 1 : Answers(stack[j], p, h.errors[p])
           \/ Choosing(f) /\ p > f.base
  PROVE  /\ Accounts(h, SetTop(f)) /\ SetTop(f) \in Seq(Frames)
         /\ Len(SetTop(f)) > 1 /\ SetTop(f)[Len(SetTop(f))] = f
<1>1. /\ stack \in Seq(Frames) /\ Len(stack) > 0 /\ Rows(gs, stack)
      /\ Top = stack[Len(stack)] /\ Len(h.errors) \in Nat
  BY TopSound, CallStackErrors
<1>2. Len(stack) > 1 /\ Len(stack) # 1
  BY CalledSound
<1> DEFINE s == stack
<1>5. /\ f.base = s[Len(s)].base /\ \A p \in 1 .. f.base : h.errors[p] = gs.errors[p]
      /\ f.base <= Len(h.errors)
      /\ Found(s[Len(s)]) = s[Len(s)].base /\ ~Amid(s[Len(s)])
  BY <1>1
<1>6. ~h.unwind => \A p \in 1 .. Len(h.errors) :
        \/ Len(s) > 1 /\ Answers(f, p, h.errors[p])
        \/ \E j \in 2 .. Len(s) - 1 : Answers(s[j], p, h.errors[p])
        \/ Len(s) = 1 /\ f.pc = "before"
        \/ Choosing(f) /\ p > f.base
  BY <1>2
<1>7. s \in Seq(Frames) /\ Len(s) > 0 /\ Rows(gs, s) /\ Len(s) # 1
  BY <1>1, <1>2
<1> HIDE DEF s
<1>8. Accounts(h, [s EXCEPT ![Len(s)] = f])
  BY <1>1, <1>5, <1>6, <1>7, AccountsSet
<1>3. Accounts(h, SetTop(f))
  BY <1>8 DEF SetTop, s
<1>4. /\ SetTop(f) \in Seq(Frames) /\ Len(SetTop(f)) = Len(stack)
      /\ SetTop(f)[Len(stack)] = f
  BY <1>1, Replaced DEF SetTop
<1> QED BY <1>2, <1>3, <1>4

\* What it found is answered for by one of the routines below, if it is called
\* by a routine that was called itself.
LEMMA FoundBelow ==
  ASSUME Sound, Top.what # "main", ~Amid(Top), Len(stack) # 2,
         NEW p \in 1 .. Top.base
  PROVE  \E j \in 2 .. Len(stack) - 1 : Answers(stack[j], p, gs.errors[p])
<1>1. Known(stack, Len(stack) - 1, p, gs.errors[p])
  BY FoundKnown
<1>2. Len(stack) - 1 # 1
  BY CalledSound
<1> QED BY <1>1, <1>2 DEF Known

LEMMA AccountsSubstitute ==
  ASSUME Sound, Substitute
  PROVE  Accounts(gs', stack')
<1>1. /\ gs \in CallStacks /\ Len(gs.errors) \in Nat /\ gs.unwind \in BOOLEAN
      /\ stack \in Seq(Frames) /\ Len(stack) \in Nat \ {0} /\ Len(stack) > 0
      /\ Top = stack[Len(stack)] /\ Rows(gs, stack) /\ AccountOnTop(gs, stack)
  BY TopSound
<1> DEFINE f == [Frame("substitution", "ran", Argfunction, Len(gs.errors))
                   EXCEPT !.flag = gs.unwind]
           g == [gs EXCEPT !.unwind = FALSE]
           t == Append(stack, f)
<1>2. /\ Call(g, t, Argfunction) /\ UNCHANGED inAuto /\ Top.pc = "arguments"
      /\ g \in CallStacks /\ g.errors = gs.errors /\ g.unwind = FALSE
  BY <1>1 DEF Substitute, CallStacks
<1>3. /\ f \in Frames /\ f.what = "substitution" /\ f.base = Len(gs.errors)
      /\ f.mark = Len(gs.errors) /\ f.flag = gs.unwind
  BY <1>1, SubstitutionFrame
<1> HIDE DEF f, g
<1>4. /\ Absorbing(f) /\ ~Between(f) /\ ~Choosing(f) /\ Found(f) = f.mark
      /\ (~Amid(f) => ~f.flag) /\ f.what # "catch_one" /\ ~Choosing(Top)
  BY <1>2, <1>3 DEF Absorbing, HelperKinds, Choosing, Between, Found, Amid
<1>5. /\ Within(stack, Len(stack), Len(gs.errors))
      /\ \A i \in 2 .. Len(stack) : \A p \in 1 .. Found(stack[i]) :
           g.errors[p] = gs.errors[p]
  BY <1>1, <1>2, <1>4, MarksWithin DEF Sound
<1>6. ~gs.unwind => \A p \in 1 .. Len(gs.errors) :
                      Known(stack, Len(stack), p, gs.errors[p])
  BY <1>1, <1>4 DEF AccountOnTop, CalmOK
<1>7. ~Amid(f) => \A p \in 1 .. Found(f) : Known(stack, Len(stack), p, g.errors[p])
  BY <1>2, <1>3, <1>4, <1>6
<1>8. f.flag /\ Len(stack) = 1 => f.mark > 0
  <2>1. Len(stack) = 1 /\ gs.unwind => gs.errors # << >>
    BY <1>1 DEF AccountOnTop
  <2>2. gs.errors # << >> => Len(gs.errors) > 0
    BY <1>1 DEF CallStacks
  <2> QED BY <1>3, <2>1, <2>2
<1>9. \A p \in 1 .. Len(g.errors) : Answers(f, p, g.errors[p])
  BY <1>1, <1>2, <1>3, <1>4 DEF Answers
<1>10. /\ f.base <= f.mark /\ f.mark <= Len(g.errors) /\ f.base <= Len(g.errors)
       /\ Within(stack, Len(stack), f.base) /\ Len(g.errors) \in Nat
       /\ stack[Len(stack)].pc = "arguments"
  BY <1>1, <1>2, <1>3, <1>5
<1>11. Accounts(g, t)
  BY <1>1, <1>3, <1>4, <1>5, <1>7, <1>8, <1>9, <1>10, AccountsPush
<1>12. /\ t \in Seq(Frames) /\ Len(t) = Len(stack) + 1 /\ t[Len(stack) + 1] = f
  BY <1>3, <1>1, Pushed
<1>13. Len(t) > 1 /\ t[Len(t)] = f
  BY <1>1, <1>12
<1> HIDE DEF t
<1>14. Continues(g, t, inAuto, gs', stack', inAuto')
  BY <1>2, CallContinues, StatementsTyped
<1> QED BY <1>2, <1>4, <1>11, <1>12, <1>13, <1>14, AccountsContinue

\* Error_list::pop_front and the like take nothing from the lists below.
LEMMA RemovedFields ==
  ASSUME NEW g \in CallStacks, NEW base \in Nat, base < Len(g.errors)
  PROVE  /\ RemoveError(g, base + 1) \in CallStacks
         /\ RemoveError(g, base + 1).unwind = g.unwind
         /\ Len(RemoveError(g, base + 1).errors) = Len(g.errors) - 1
         /\ base <= Len(RemoveError(g, base + 1).errors)
         /\ \A p \in 1 .. base :
              RemoveError(g, base + 1).errors[p] = g.errors[p]
<1>1. Len(g.errors) \in Nat /\ base + 1 \in 1 .. Len(g.errors)
  BY CallStackErrors
<1>2. /\ RemoveError(g, base + 1) \in CallStacks
      /\ Len(RemoveError(g, base + 1).errors) = Len(g.errors) - 1
  BY <1>1, RemoveErrorType
<1>3. /\ RemoveError(g, base + 1).unwind = g.unwind
      /\ RemoveError(g, base + 1).errors = Without(g.errors, base + 1)
  BY DEF RemoveError, CallStacks
<1>4. \A p \in 1 .. base : Without(g.errors, base + 1)[p] = g.errors[p]
  BY <1>1 DEF Without
<1> QED BY <1>1, <1>2, <1>3, <1>4

LEMMA AccountsHandler ==
  ASSUME Sound, HandleNext \/ HandlerReturned
  PROVE  Accounts(gs', stack')
<1>1. /\ gs \in CallStacks /\ Len(gs.errors) \in Nat /\ gs.unwind \in BOOLEAN
      /\ stack \in Seq(Frames) /\ Len(stack) > 0 /\ Top = stack[Len(stack)]
      /\ Top \in Frames /\ Top.base \in Nat /\ Top.mark \in Nat
      /\ Rows(gs, stack)
  BY TopSound
<1>2. Top.what = "handler" /\ ~Amid(Top) /\ Found(Top) = Top.base
      /\ Top.what # "main" /\ Absorbing(Top)
  BY DEF HandleNext, HandlerReturned, Amid, Found, Absorbing, HelperKinds
<1>3. Top.base <= Top.mark /\ (Between(Top) => ~gs.unwind)
  BY <1>2, CalledSound
<1>4. \A f \in Frames : f.what = "handler" => Absorbing(f)
  BY DEF Absorbing, HelperKinds
<1>5. \A f \in Frames : f.what = "handler" /\ f.pc = "next" => Between(f) /\ Choosing(f)
  BY DEF Choosing, Between
<1>6. CASE HandleNext /\ gs.errors[Top.base + 1] \in Top.failed
  <2>1. /\ gs' = RemoveError(gs, Top.base + 1) /\ UNCHANGED <<inAuto, stack>>
        /\ Top.pc = "next" /\ Top.base < Len(gs.errors)
    BY <1>1, <1>6 DEF HandleNext
  <2>2. /\ gs' \in CallStacks /\ gs'.unwind = gs.unwind
        /\ Top.base <= Len(gs'.errors) /\ Len(gs'.errors) \in Nat
        /\ \A p \in 1 .. Top.base : gs'.errors[p] = gs.errors[p]
    BY <1>1, <2>1, RemovedFields, CallStackErrors
  <2>3. Between(Top) /\ Choosing(Top) /\ ~gs'.unwind
    BY <1>1, <1>2, <1>3, <1>5, <2>1, <2>2
  <2>4. \A p \in 1 .. Len(gs'.errors) :
          Answers(Top, p, gs'.errors[p]) \/ (Choosing(Top) /\ p > Top.base)
    <3>1. \A p \in 1 .. Len(gs'.errors) : p <= Top.mark \/ p > Top.base
      BY <1>1, <1>3, <2>2
    <3> QED BY <1>2, <2>3, <3>1 DEF Answers
  <2>5. Accounts(gs', SetTop(Top))
    BY <1>1, <1>2, <1>3, <2>2, <2>3, <2>4, AccountsMoved
  <2>6. SetTop(Top) = stack
    BY <1>1 DEF SetTop
  <2> QED BY <2>1, <2>5, <2>6
<1>7. CASE HandleNext /\ gs.errors[Top.base + 1] \notin Top.failed
  <2> DEFINE n == Len(gs.errors)
             front == gs.errors[Top.base + 1]
             c == CallOf(front)
             f == [Top EXCEPT !.pc = "ran", !.prev = gs.count, !.stmt = c,
                              !.mark = n]
  <2>1. /\ Top.pc = "next" /\ n > Top.base /\ Run(gs, SetTop(f), c)
    BY <1>7 DEF HandleNext
  <2>2. front \in Names
    <3>1. Top.base + 1 \in 1 .. n
      BY <1>1, <2>1
    <3> QED BY <1>1, <3>1, CallStackErrors
  <2>3. /\ n \in Nat /\ c \in Statements /\ gs.count \in Nat /\ n = Len(gs.errors)
    BY <1>1, <2>2, StatementsTyped, LimitsAssumption DEF CallStacks
  <2> HIDE DEF n, front, c
  <2>4. /\ f \in Frames /\ f.what = "handler" /\ f.pc = "ran"
        /\ f.base = Top.base /\ f.mark = n
    <3>1. c \in CommandType /\ "ran" \in Places
      BY <2>3, StatementsTyped DEF Places
    <3> QED BY <1>1, <1>2, <2>3, <3>1 DEF Frames
  <2> HIDE DEF f
  <2>5. ~Choosing(f) /\ ~Between(f) /\ Absorbing(f)
    BY <1>4, <2>4 DEF Choosing, Between
  <2>6. \A p \in 1 .. n : Answers(f, p, gs.errors[p])
    <3>1. \A p \in 1 .. n : p <= f.mark
      BY <2>3, <2>4
    <3> QED BY <2>5, <3>1 DEF Answers
  <2>7. f.base <= f.mark /\ f.mark <= Len(gs.errors) /\ Top.base <= Len(gs.errors)
    BY <1>1, <2>1, <2>3, <2>4
  <2>8. /\ Accounts(gs, SetTop(f)) /\ SetTop(f) \in Seq(Frames)
        /\ Len(SetTop(f)) > 1 /\ SetTop(f)[Len(SetTop(f))] = f
    BY <1>1, <1>2, <2>3, <2>4, <2>5, <2>6, <2>7, AccountsMoved
  <2>9. Continues(gs, SetTop(f), inAuto, gs', stack', inAuto')
    BY <1>1, <2>1, <2>3, RunContinues
  <2> QED BY <1>1, <2>5, <2>8, <2>9, AccountsContinue
<1>8. CASE HandlerReturned
  <2>1. PICK S : stack' = SetTop([Top EXCEPT !.pc = "next", !.failed = S])
    BY <1>8 DEF HandlerReturned
  <2> DEFINE f == [Top EXCEPT !.pc = "next", !.failed = S]
  <2>2. f \in Frames
    BY <2>1, SetFrame, NextOK, <1>8 DEF Sound, Next, InterpreterNext
  <2>3. /\ f.what = Top.what /\ f.pc = "next" /\ f.base = Top.base
        /\ f.mark = Top.mark
    BY <1>1 DEF Frames
  <2>4. stack' = SetTop(f)
    BY <2>1
  <2> HIDE DEF f
  <2>5. Between(f) /\ Choosing(f) /\ Absorbing(f)
    BY <1>2, <1>4, <1>5, <2>2, <2>3
  <2>6. Top.base < Len(gs.errors) /\ Top.pc = "ran"
    <3>1. FrameOK(Top, Len(gs.errors)) /\ Top.pc = "ran"
      BY <1>8, TopOK DEF HandlerReturned, Sound, ShellInvariant
    <3> QED BY <1>1, <1>2, <3>1 DEF FrameOK, Low, Holding
  <2>7. PICK g : /\ g \in CallStacks /\ ~g.unwind
                 /\ Len(g.errors) = Len(gs.errors)
                 /\ \A p \in 1 .. Top.base : g.errors[p] = gs.errors[p]
                 /\ gs' = RemoveError(g, Top.base + 1)
    <3> DEFINE low == LastToSecond(gs.errors, Top.base)
               k == [gs EXCEPT !.errors = low, !.unwind = FALSE]
    <3>1. \/ gs' = RemoveError(k, Top.base + 1)
          \/ ~gs.unwind /\ gs' = RemoveError(gs, Top.base + 1)
      BY <1>8 DEF HandlerReturned
    <3>2. low \in Seq(Names) /\ Len(low) = Len(gs.errors)
      <4>1. gs.errors \in Seq(Names)
        BY <1>1 DEF CallStacks
      <4> QED BY <1>1, <4>1, LastToSecondType
    <3>3. \A p \in 1 .. Top.base : low[p] = gs.errors[p]
      BY <1>1, <2>6 DEF LastToSecond
    <3> HIDE DEF low
    <3>4. k \in CallStacks /\ ~k.unwind /\ k.errors = low
      BY <1>1, <3>2 DEF CallStacks
    <3> HIDE DEF k
    <3>5. CASE gs' = RemoveError(k, Top.base + 1)
      BY <3>2, <3>3, <3>4, <3>5
    <3>6. CASE ~gs.unwind /\ gs' = RemoveError(gs, Top.base + 1)
      BY <1>1, <3>6
    <3> QED BY <3>1, <3>5, <3>6
  <2>8. /\ gs' \in CallStacks /\ ~gs'.unwind
        /\ Top.base <= Len(gs'.errors) /\ Len(gs'.errors) \in Nat
        /\ \A p \in 1 .. Top.base : gs'.errors[p] = gs.errors[p]
    <3>1. Top.base < Len(g.errors)
      BY <2>6, <2>7
    <3>2. /\ gs' \in CallStacks /\ gs'.unwind = g.unwind
          /\ Top.base <= Len(gs'.errors) /\ Len(gs'.errors) \in Nat
          /\ \A p \in 1 .. Top.base : gs'.errors[p] = g.errors[p]
      BY <1>1, <2>7, <3>1, RemovedFields, CallStackErrors
    <3> QED BY <2>7, <3>2
  <2>9. \A p \in 1 .. Len(gs'.errors) :
          Answers(f, p, gs'.errors[p]) \/ (Choosing(f) /\ p > f.base)
    <3>1. \A p \in 1 .. Len(gs'.errors) : p <= f.mark \/ p > f.base
      BY <1>1, <1>3, <2>3, <2>8
    <3> QED BY <2>5, <3>1 DEF Answers
  <2>10. f.base <= f.mark /\ f.base = Top.base /\ f.what = "handler"
    BY <1>2, <1>3, <2>3
  <2>11. Accounts(gs', SetTop(f))
    BY <1>2, <2>2, <2>5, <2>8, <2>9, <2>10, AccountsMoved
  <2> QED BY <2>4, <2>11
<1> QED BY <1>6, <1>7, <1>8 DEF HandleNext

\* Another place and nothing else.
LEMMA MovedOnly ==
  ASSUME ShellInvariant, Origins(gs, inAuto, stack), NEW pc \in Places
  PROVE  /\ [Top EXCEPT !.pc = pc] \in Frames
         /\ [Top EXCEPT !.pc = pc].what = Top.what
         /\ [Top EXCEPT !.pc = pc].base = Top.base
         /\ [Top EXCEPT !.pc = pc].mark = Top.mark
         /\ [Top EXCEPT !.pc = pc].pc = pc
         /\ Goto(pc) = SetTop([Top EXCEPT !.pc = pc])
<1>1. Top \in Frames
  BY TopOfOrigins DEF Origins
<1>2. [Top EXCEPT !.pc = pc] \in Frames
  BY <1>1 DEF Frames
<1> QED BY <1>1, <1>2, GotoFields DEF Goto

LEMMA AccountsCollect ==
  ASSUME Sound,
         \/ EnterCollect \/ CollectNext \/ CollectExcess \/ CollectEnd
         \/ CollectUndefined \/ CollectRun \/ CollectRan
  PROVE  Accounts(gs', stack')
<1>1. /\ gs \in CallStacks /\ Len(gs.errors) \in Nat /\ gs.unwind \in BOOLEAN
      /\ stack \in Seq(Frames) /\ Len(stack) > 0 /\ Top = stack[Len(stack)]
      /\ Top \in Frames /\ Top.base \in Nat /\ Top.mark \in Nat
      /\ Top.base <= Len(gs.errors) /\ Top.stmt \in Statements
  BY TopSound
<1>2. /\ Top.what = "collect" /\ ~Amid(Top) /\ Found(Top) = Top.base
      /\ Top.what # "main" /\ Top.what \in Kinds
  BY DEF EnterCollect, CollectNext, CollectExcess, CollectEnd, Kinds,
         CollectUndefined, CollectRun, CollectRan, Amid, Found
<1>3. Len(stack) > 1 /\ Len(stack) # 2 /\ (Absorbing(Top) => Top.base <= Top.mark)
  <2> DEFINE n == Len(stack)
  <2>1. n > 2 /\ n \in Nat
    BY <1>2, TopOfOrigins DEF Sound, Origins
  <2>2. Absorbing(Top) => Top.base <= Top.mark
    BY <1>2, CalledSound
  <2> HIDE DEF n
  <2>3. n > 1 /\ n # 2
    BY <2>1
  <2> QED BY <2>2, <2>3 DEF n
<1>4. \A f \in Frames : f.what = "collect" =>
        /\ ~Between(f) /\ ~Catching(f)
        /\ Choosing(f) <=> f.pc = "next"
        /\ Absorbing(f) <=> f.pc \in {"arguments", "ran"}
  BY DEF Between, Catching, Choosing, Absorbing, HelperKinds
<1>5. \A p \in 1 .. Top.base :
        \E j \in 2 .. Len(stack) - 1 : Answers(stack[j], p, gs.errors[p])
  BY <1>2, <1>3, FoundBelow
<1>6. {"next", "arguments", "ran", "return"} \subseteq Places
  BY DEF Places
\* To the next statement, or out with what it found.
<1>7. ASSUME NEW h \in CallStacks, NEW pc \in {"next", "return"}, stack' = Goto(pc),
             \A p \in 1 .. Top.base : h.errors[p] = gs.errors[p],
             Top.base <= Len(h.errors), gs' = h,
             pc = "return" /\ ~h.unwind => Len(h.errors) = Top.base
      PROVE  Accounts(gs', stack')
  <2> DEFINE f == [Top EXCEPT !.pc = pc]
  <2>1. /\ f \in Frames /\ f.what = "collect" /\ f.base = Top.base /\ f.pc = pc
        /\ Goto(pc) = SetTop(f)
    BY <1>2, <1>6, <1>7, MovedOnly DEF Sound
  <2> HIDE DEF f
  <2>2. ~Absorbing(f) /\ ~Between(f) /\ (pc = "next" => Choosing(f))
    BY <1>4, <1>7, <2>1
  <2>3. Len(h.errors) \in Nat
    BY CallStackErrors
  <2>4. ASSUME ~h.unwind, NEW p \in 1 .. Len(h.errors)
        PROVE  \/ \E j \in 2 .. Len(stack) - 1 : Answers(stack[j], p, h.errors[p])
               \/ Choosing(f) /\ p > f.base
    <3>1. CASE p <= Top.base
      <4>1. p \in 1 .. Top.base
        BY <1>1, <2>3, <3>1
      <4> QED BY <1>5, <1>7, <4>1
    <3>2. CASE ~(p <= Top.base)
      <4>1. p > f.base /\ Len(h.errors) # Top.base
        BY <1>1, <2>1, <2>3, <3>2
      <4> QED BY <1>7, <2>2, <2>4, <4>1
    <3> QED BY <3>1, <3>2
  <2>5. Accounts(h, SetTop(f))
    BY <1>2, <1>7, <2>1, <2>2, <2>4, AccountsMoved
  <2> QED BY <1>7, <2>1, <2>5
<1>8. CASE EnterCollect
  <2>1. stack' = Goto("next") /\ gs' = gs
    BY <1>8 DEF EnterCollect
  <2> QED BY <1>1, <1>7, <2>1
<1>9. CASE CollectNext
  <2> DEFINE n == Len(gs.errors)
  <2>1. PICK c \in Commands :
          stack' = SetTop([Top EXCEPT !.pc = "arguments", !.stmt = c, !.mark = n])
    BY <1>9 DEF CollectNext
  <2>2. gs' = gs /\ c \in CommandType /\ n \in Nat
    BY <1>1, <1>9, StatementsTyped DEF CollectNext
  <2>0. n = Len(gs.errors)
    OBVIOUS
  <2> HIDE DEF n
  <2> DEFINE f == [Top EXCEPT !.pc = "arguments", !.stmt = c, !.mark = n]
  <2>3. /\ f \in Frames /\ f.what = Top.what /\ f.base = Top.base /\ f.mark = n
        /\ f.pc = "arguments" /\ stack' = SetTop(f)
    BY <1>1, <1>6, <2>1, <2>2 DEF Frames
  <2> HIDE DEF f
  <2>4. Absorbing(f) /\ ~Between(f)
    BY <1>2, <1>4, <2>3
  <2>5. \A p \in 1 .. n : Answers(f, p, gs.errors[p])
    <3>1. \A p \in 1 .. n : p <= f.mark
      BY <2>2, <2>3
    <3> QED BY <2>4, <3>1 DEF Answers
  <2>6. f.base <= f.mark /\ f.mark <= Len(gs.errors) /\ Top.base <= Len(gs.errors)
    BY <1>1, <2>0, <2>3
  <2>7. Accounts(gs, SetTop(f))
    BY <1>1, <1>2, <2>0, <2>3, <2>4, <2>5, <2>6, AccountsMoved
  <2> QED BY <2>2, <2>3, <2>7
<1>10. CASE CollectExcess
  <2> DEFINE g == AddErrorIf(~gs.collectExcess, gs, ".excessive_exceptions_collected")
  <2>1. stack' = Goto("return") /\ gs' = [g EXCEPT !.unwind = TRUE, !.collectExcess = TRUE]
    BY <1>10 DEF CollectExcess
  <2>2. Grows(gs, g)
    <3> DEFINE b == ~gs.collectExcess
    <3>1. b \in BOOLEAN
      OBVIOUS
    <3> HIDE DEF b
    <3>2. Grows(gs, AddErrorIf(b, gs, ".excessive_exceptions_collected"))
      BY <1>1, <3>1, ThrownNames, AddErrorIfEffect
    <3> QED BY <3>2 DEF b
  <2> HIDE DEF g
  <2>3. /\ g \in CallStacks /\ Len(g.errors) \in Nat /\ Len(gs.errors) <= Len(g.errors)
        /\ \A p \in 1 .. Len(gs.errors) : g.errors[p] = gs.errors[p]
    BY <1>1, <2>2, CallStackErrors DEF Grows
  <2>4. gs' \in CallStacks /\ gs'.unwind /\ gs'.errors = g.errors
    BY <2>1, <2>3 DEF CallStacks
  <2>5. Top.base <= Len(gs'.errors) /\ \A p \in 1 .. Top.base : gs'.errors[p] = gs.errors[p]
    BY <1>1, <2>3, <2>4
  <2> QED BY <1>7, <2>1, <2>4, <2>5
<1>11. CASE CollectEnd
  <2>1. stack' = Goto("return") /\ gs' = [gs EXCEPT !.unwind = gs.unwind \/ Len(gs.errors) > Top.base]
    BY <1>11 DEF CollectEnd, Finish
  <2>2. gs' \in CallStacks /\ gs'.errors = gs.errors
        /\ gs'.unwind = (gs.unwind \/ Len(gs.errors) > Top.base)
    <3>1. (gs.unwind \/ Len(gs.errors) > Top.base) \in BOOLEAN
      OBVIOUS
    <3> QED BY <1>1, <2>1, <3>1 DEF CallStacks
  <2>3. ASSUME ~gs'.unwind PROVE Len(gs'.errors) = Top.base
    <3>1. ~(Len(gs.errors) > Top.base)
      BY <2>2, <2>3, Zenon
    <3>2. Len(gs.errors) = Top.base
      BY <1>1, <3>1
    <3> QED BY <2>2, <3>2
  <2>4. /\ Top.base <= Len(gs'.errors)
        /\ \A p \in 1 .. Top.base : gs'.errors[p] = gs.errors[p]
    BY <1>1, <2>2
  <2> QED BY <1>7, <2>1, <2>2, <2>3, <2>4
<1>12. CASE CollectUndefined
  <2> DEFINE g == DestroyList(gs, Top.mark)
  <2>1. stack' = Goto("return") /\ gs' = AddError(g, ".undefined_variable")
        /\ Top.pc = "arguments"
    BY <1>12 DEF CollectUndefined
  <2>2. Absorbing(Top) /\ ~Choosing(Top)
    BY <1>1, <1>2, <1>4, <2>1
  <2>3. Top.base <= Top.mark /\ Top.mark <= Len(gs.errors)
    BY <1>2, <1>3, <2>2, CalledSound
  <2>4. /\ g \in CallStacks /\ Len(g.errors) = Top.mark
        /\ \A p \in 1 .. Top.mark : g.errors[p] = gs.errors[p]
    <3>1. g \in CallStacks
      BY <1>1, <2>3, DestroyListType
    <3>2. g.errors = SubSeq(gs.errors, 1, Top.mark) /\ gs.errors \in Seq(Names)
      BY <1>1 DEF DestroyList, CallStacks
    <3> QED BY <1>1, <2>3, <3>1, <3>2
  <2> HIDE DEF g
  <2>5. /\ gs' \in CallStacks /\ gs'.unwind
        /\ Len(g.errors) \in Nat /\ Len(g.errors) <= Len(gs'.errors)
        /\ \A p \in 1 .. Len(g.errors) : gs'.errors[p] = g.errors[p]
    <3>1. /\ Grows(g, AddError(g, ".undefined_variable"))
          /\ AddError(g, ".undefined_variable").unwind
      BY <2>4, ThrownNames, AddErrorEffect
    <3> QED BY <2>1, <2>4, <3>1, CallStackErrors DEF Grows
  <2>6. Top.base <= Len(gs'.errors) /\ \A p \in 1 .. Top.base : gs'.errors[p] = gs.errors[p]
    BY <1>1, <2>3, <2>4, <2>5
  <2> QED BY <1>7, <2>1, <2>5, <2>6
<1>13. CASE CollectRun
  <2> DEFINE f == [Top EXCEPT !.pc = "ran"]
  <2>1. /\ \/ gs.unwind /\ stack' = SetTop(f) /\ gs' = gs
           \/ Run(gs, SetTop(f), Top.stmt)
        /\ Top.pc = "arguments"
    BY <1>13 DEF CollectRun, Goto
  <2>2. /\ f \in Frames /\ f.what = "collect" /\ f.base = Top.base /\ f.pc = "ran"
        /\ f.mark = Top.mark
    BY <1>2, <1>6, MovedOnly DEF Sound
  <2> HIDE DEF f
  <2>3. /\ Absorbing(Top) /\ ~Choosing(Top) /\ ~Catching(Top)
        /\ Absorbing(f) /\ ~Choosing(f) /\ ~Catching(f) /\ ~Between(f)
    BY <1>1, <1>2, <1>4, <2>1, <2>2
  <2>4. Top.base <= Top.mark /\ Top.mark <= Len(gs.errors)
    BY <1>2, <1>3, <2>3, CalledSound
  <2>5. ASSUME ~gs.unwind, NEW p \in 1 .. Len(gs.errors)
        PROVE  \/ Answers(f, p, gs.errors[p])
               \/ \E j \in 2 .. Len(stack) - 1 : Answers(stack[j], p, gs.errors[p])
    <3>1. Known(stack, Len(stack), p, gs.errors[p])
      BY <1>1, <2>3, <2>5, TopSound DEF AccountOnTop, CalmOK
    <3>2. PICK j \in 2 .. Len(stack) : Answers(stack[j], p, gs.errors[p])
      BY <1>3, <3>1 DEF Known
    <3>3. CASE j = Len(stack)
      BY <1>1, <2>2, <2>3, <3>2, <3>3 DEF Answers
    <3>4. CASE j # Len(stack)
      <4>1. j \in 2 .. Len(stack) - 1
        BY <3>2, <3>4, TopSound
      <4> QED BY <3>2, <4>1
    <3> QED BY <3>3, <3>4
  <2>6. f.base <= f.mark /\ f.mark <= Len(gs.errors)
    BY <2>2, <2>4
  <2>7. /\ Accounts(gs, SetTop(f)) /\ SetTop(f) \in Seq(Frames)
        /\ Len(SetTop(f)) > 1 /\ SetTop(f)[Len(SetTop(f))] = f
    BY <1>1, <1>2, <2>2, <2>3, <2>5, <2>6, AccountsMoved
  <2>8. CASE Run(gs, SetTop(f), Top.stmt)
    <3>1. Continues(gs, SetTop(f), inAuto, gs', stack', inAuto')
      BY <1>1, <2>8, RunContinues
    <3> QED BY <1>1, <2>3, <2>7, <3>1, AccountsContinue
  <2>9. CASE stack' = SetTop(f) /\ gs' = gs
    BY <2>7, <2>9
  <2> QED BY <2>1, <2>8, <2>9
<1>14. CASE CollectRan
  <2>1. stack' = Goto("next") /\ gs' \in CallStacks /\ gs'.errors = gs.errors
    <3>1. \/ gs' = gs
          \/ \E b \in BOOLEAN : gs' = [gs EXCEPT !.unwind = b]
      <4> DEFINE new == Top.mark + 1 .. Len(gs.errors)
                 b == \E i \in new : Top.cmd.logic = (gs.errors[i] \in Top.cmd.names)
      <4>1. gs' = gs \/ gs' = [gs EXCEPT !.unwind = b]
        BY <1>14 DEF CollectRan
      <4>2. b \in BOOLEAN
        OBVIOUS
      <4> HIDE DEF b
      <4> QED BY <4>1, <4>2
    <3>2. stack' = Goto("next")
      BY <1>14 DEF CollectRan
    <3> QED BY <1>1, <3>1, <3>2 DEF CallStacks
  <2> QED BY <1>1, <1>7, <2>1
<1> QED BY <1>8, <1>9, <1>10, <1>11, <1>12, <1>13, <1>14
-----------------------------------------------------------------------------
\* A statement that no script contains runs nowhere.
LEMMA NotInScripts ==
  ASSUME NEW what \in Kinds \ {"call", "block", "throw"}, Never(what),
         NEW f, FromScript(f)
  PROVE  f.what # what
<1>1. \A c \in Statements : c.what # what
  <2>1. \A name \in Names : CallOf(name).what = "call"
    BY DEF CallOf, Command
  <2>2. Argfunction.what = "block" /\ ThrowOf(".false").what = "throw"
    BY DEF Argfunction, BlockOf, ThrowOf, Command
  <2> QED BY <2>1, <2>2 DEF Statements, Never
<1> QED BY <1>1 DEF FromScript

LEMMA AccountsFlags ==
  ASSUME NEW g, NEW h, NEW s, h.errors = g.errors, h.unwind = g.unwind,
         Accounts(g, s)
  PROVE  Accounts(h, s)
<1>1. AccountOnTop(h, s)
  BY DEF Accounts, AccountOnTop, CalmOK
<1>2. \A i \in 2 .. Len(s) : AccountAt(h, s, i)
  BY DEF Accounts, AccountAt
<1> QED BY <1>1, <1>2 DEF Accounts

\* .replace_exception names an exception of its own.
LEMMA ReplacedName ==
  ASSUME NEW f, FromScript(f), f.what = "replace"
  PROVE  f.cmd.name \in Replacements
<1>1. f.cmd.what = "replace" /\ f.cmd \in Statements
  BY DEF FromScript, Kinds
<1>2. \A name \in Names : CallOf(name).what = "call"
  BY DEF CallOf, Command
<1>3. Argfunction.what = "block" /\ ThrowOf(".false").what = "throw"
  BY DEF Argfunction, BlockOf, ThrowOf, Command
<1>4. f.cmd \in Commands \cup Conditions
  BY <1>1, <1>2, <1>3 DEF Statements
<1> QED BY <1>1, <1>4 DEF Replacements

LEMMA ReplaceErrorEffect ==
  ASSUME NEW g \in CallStacks, NEW name \in Names
  PROVE  /\ ReplaceError(g, name) \in CallStacks
         /\ ReplaceError(g, name).unwind = g.unwind
         /\ ReplaceError(g, name).exit = g.exit
         /\ ReplaceError(g, name).inHandler = g.inHandler
         /\ ReplaceError(g, name).collectExcess = g.collectExcess
         /\ ReplaceError(g, name).catchExcess = g.catchExcess
         /\ ReplaceError(g, name).count = Counted(g.count + 1)
         /\ Len(ReplaceError(g, name).errors) = Len(g.errors) + 1
         /\ \A p \in 1 .. Len(g.errors) :
              ReplaceError(g, name).errors[p] = g.errors[p]
         /\ ReplaceError(g, name).errors[Len(g.errors) + 1] = name
<1> DEFINE h == ReplaceError(g, name)
<1>1. /\ g.errors \in Seq(Names) /\ Len(g.errors) \in Nat /\ g.count \in Int
      /\ h \in CallStacks
  BY ReplaceErrorType DEF CallStacks
<1>2. /\ h.errors = Append(g.errors, name) /\ h.unwind = g.unwind
      /\ h.count = Counted(g.count + 1) /\ h.exit = g.exit
      /\ h.inHandler = g.inHandler /\ h.collectExcess = g.collectExcess
      /\ h.catchExcess = g.catchExcess
  BY DEF ReplaceError, CallStacks
<1> HIDE DEF h
<1>3. /\ Len(h.errors) = Len(g.errors) + 1
      /\ \A p \in 1 .. Len(g.errors) : h.errors[p] = g.errors[p]
      /\ h.errors[Len(g.errors) + 1] = name
  BY <1>1, <1>2
<1> QED BY <1>1, <1>2, <1>3 DEF h

LEMMA AccountsReplace ==
  ASSUME Sound, Replace
  PROVE  Accounts(gs', stack')
<1>1. /\ gs \in CallStacks /\ Len(gs.errors) \in Nat
      /\ stack \in Seq(Frames) /\ Len(stack) > 0 /\ Top = stack[Len(stack)]
      /\ Top \in Frames /\ Top.base \in Nat /\ Top.base <= Len(gs.errors)
      /\ FromScript(Top) /\ Len(stack) \in Nat /\ stack[1].what = "main"
      /\ Accounts(gs, stack) /\ Origins(gs, inAuto, stack) /\ ShellInvariant
      /\ Rooted(stack)
  BY TopSound DEF Sound, Origins
<1>2. /\ Top.what = "replace" /\ Top.pc = "enter" /\ UNCHANGED inAuto
      /\ stack' = Goto("return")
      /\ gs' = IF gs.inHandler THEN ReplaceError(gs, Top.cmd.name)
               ELSE AddError(gs, ".not_catching_exception")
  BY DEF Replace, Finish
<1>3. Top.cmd.name \in Names
  BY <1>1 DEF Frames, CommandType
<1>4. Plain(Top) /\ AtPlain("return") /\ Top.what # "main" /\ Top.what \in Kinds
  <2>1. Top.what \in Kinds /\ "return" \in Places
    BY <1>2 DEF Kinds, Places
  <2> QED BY <1>1, <1>2, <2>1, PlainAt DEF AtPlain
<1>5. CASE ~gs.inHandler
  <2>1. Grows(gs, gs')
    BY <1>1, <1>2, <1>5, ThrownNames, AddErrorEffect
  <2>2. Advancing
    BY <1>2, <1>4, <2>1, AdvanceGoto
  <2> QED BY <2>2, AccountsAdvance
<1>6. CASE gs.inHandler
  <2> DEFINE f == [Top EXCEPT !.pc = "return"]
             name == Top.cmd.name
  <2>1. /\ f \in Frames /\ f.what = "replace" /\ f.base = Top.base
        /\ Goto("return") = SetTop(f) /\ f.pc = "return"
    BY <1>1, <1>2, <1>4, MovedOnly DEF AtPlain
  <2> HIDE DEF f
  <2>2. /\ ~Absorbing(f) /\ ~Choosing(f) /\ ~Between(f) /\ ~Amid(Top)
        /\ Found(Top) = Top.base /\ f.what \in Kinds
    BY <1>2, <2>1 DEF Absorbing, Choosing, Between, Amid, Found, HelperKinds, Kinds
  <2>3. /\ gs' \in CallStacks /\ gs'.unwind = gs.unwind
        /\ Len(gs'.errors) = Len(gs.errors) + 1
        /\ \A p \in 1 .. Len(gs.errors) : gs'.errors[p] = gs.errors[p]
        /\ gs'.errors[Len(gs.errors) + 1] = name
    BY <1>1, <1>2, <1>3, <1>6, ReplaceErrorEffect
  <2>4. PICK i \in 2 .. Len(stack) - 1 : Catching(stack[i])
    <3>1. ~Between(Top) /\ ~Catching(Top)
      BY <1>2 DEF Between, Catching
    <3>2. PICK i \in 1 .. Len(stack) : Catching(stack[i])
      BY <1>1, <1>6, <3>1 DEF Origins, FlagOK
    <3>3. i # 1 /\ i # Len(stack)
      BY <1>1, <3>1, <3>2 DEF Catching
    <3>4. i \in 2 .. Len(stack) - 1
      BY <1>1, <3>3
    <3> QED BY <3>2, <3>4
  <2>5. name \in Replacements
    BY <1>1, <1>2, ReplacedName
  <2>6. Answers(stack[i], Len(gs.errors) + 1, name)
    <3>1. Absorbing(stack[i]) /\ i \in 2 .. Len(stack)
      BY <1>1, <2>4 DEF Catching, Absorbing, HelperKinds
    <3>2. ~Choosing(Top)
      BY <1>4 DEF Plain
    <3>3. stack[i].mark <= Len(gs.errors)
      BY <1>1, <3>1, <3>2, MarksWithin DEF Within
    <3>4. stack[i].mark \in Nat
      <4>1. i \in 1 .. Len(stack)
        BY <1>1, <3>1
      <4>2. stack[i] \in Frames
        BY <1>1, <4>1
      <4> QED BY <4>2 DEF Frames
    <3>5. stack[i].mark < Len(gs.errors) + 1
      BY <1>1, <3>3, <3>4
    <3> QED BY <2>4, <2>5, <3>5 DEF Answers
  <2>7. ASSUME ~gs'.unwind, NEW p \in 1 .. Len(gs'.errors)
        PROVE  \E j \in 2 .. Len(stack) - 1 : Answers(stack[j], p, gs'.errors[p])
    <3>1. p \in 1 .. Len(gs.errors) \/ p = Len(gs.errors) + 1
      BY <1>1, <2>3
    <3>2. CASE p \in 1 .. Len(gs.errors)
      <4>1. ~gs.unwind /\ gs'.errors[p] = gs.errors[p]
        BY <2>3, <2>7, <3>2
      <4>2. Len(stack) > 1 /\ ~Absorbing(Top) /\ ~Choosing(Top)
        BY <1>4, CalledSound DEF Plain
      <4> QED BY <1>1, <3>2, <4>1, <4>2, KnownPlain
    <3>3. CASE p = Len(gs.errors) + 1
      BY <2>3, <2>4, <2>6, <3>3
    <3> QED BY <3>1, <3>2, <3>3
  <2>8. /\ \A p \in 1 .. Top.base : gs'.errors[p] = gs.errors[p]
        /\ Top.base <= Len(gs'.errors)
    BY <1>1, <2>3
  <2>9. Accounts(gs', SetTop(f))
    BY <1>4, <2>1, <2>2, <2>3, <2>7, <2>8, AccountsMoved
  <2> QED BY <1>2, <2>1, <2>9
<1> QED BY <1>5, <1>6

LEMMA AccountsOthers ==
  ASSUME Sound, CatchSignal \/ StepwiseAborts
  PROVE  Accounts(gs', stack')
<1>1. gs \in CallStacks /\ Accounts(gs, stack)
  BY TopSound DEF Sound
<1>2. CASE CatchSignal
  <2>1. stack' = stack /\ gs'.errors = gs.errors /\ gs'.unwind = gs.unwind
    BY <1>1, <1>2 DEF CatchSignal, CallStacks
  <2> QED BY <1>1, <2>1, AccountsFlags
<1>3. CASE StepwiseAborts
  <2> DEFINE f == Frame("main", "aborted", Argfunction, 0)
  <2>1. stack' = << f >> /\ gs' = InitialCallStack
    BY <1>3 DEF StepwiseAborts, Abort
  <2>2. f.what = "main" /\ f.base = 0
    BY DEF Frame
  <2>3. InitialCallStack \in CallStacks
    BY NoSignalAssumption, LimitsAssumption DEF InitialCallStack, CallStacks
  <2>4. InitialCallStack.errors = << >> /\ ~InitialCallStack.unwind
    BY DEF InitialCallStack
  <2> HIDE DEF f
  <2> QED BY <2>1, <2>2, <2>3, <2>4, AccountsMain
<1> QED BY <1>2, <1>3
-----------------------------------------------------------------------------
\* The reader of commands.  The list of its caller is emptied first.
LEMMA ResetEffect ==
  ASSUME NEW g \in CallStacks, NEW base \in 0 .. Len(g.errors)
  PROVE  /\ Reset(g, base) \in CallStacks /\ ~Reset(g, base).unwind
         /\ Len(Reset(g, base).errors) = base
         /\ \A p \in 1 .. base : Reset(g, base).errors[p] = g.errors[p]
<1>1. /\ Reset(g, base) \in CallStacks /\ ~Reset(g, base).unwind
      /\ Reset(g, base).errors = SubSeq(g.errors, 1, base)
  BY ResetFields
<1>2. g.errors \in Seq(Names)
  BY DEF CallStacks
<1> HIDE DEF Reset
<1> QED BY <1>1, <1>2

\* The list that the reader has when nothing is left in it: main and .source go
\* on with what those below answer for.
LEMMA AccountsEmptied ==
  ASSUME Sound, Top.what \in {"main", "source"},
         NEW h \in CallStacks, ~h.unwind, Len(h.errors) = Top.base,
         \A p \in 1 .. Top.base : h.errors[p] = gs.errors[p],
         NEW f \in Frames, f.what = Top.what, f.base = Top.base
  PROVE  /\ Accounts(h, SetTop(f))
         /\ SetTop(f) \in Seq(Frames) /\ Len(SetTop(f)) > 0
         /\ SetTop(f)[Len(SetTop(f))] = f
         /\ ~Absorbing(f) /\ ~Choosing(f)
<1>1. /\ stack \in Seq(Frames) /\ Len(stack) \in Nat /\ Len(stack) > 0
      /\ Top.base \in Nat /\ ShellInvariant /\ Rooted(stack)
  BY TopSound DEF Sound, Origins
<1>2. /\ SetTop(f) \in Seq(Frames) /\ Len(SetTop(f)) = Len(stack)
      /\ SetTop(f)[Len(SetTop(f))] = f
  BY <1>1, Replaced DEF SetTop
<1>3. ~Absorbing(f) /\ ~Choosing(f) /\ ~Between(f) /\ ~Catching(f)
  BY DEF Absorbing, Choosing, Between, Catching, HelperKinds
<1>4. CASE Top.what = "main"
  <2>1. Len(stack) = 1 /\ Top.base = 0
    BY <1>1, <1>4, TopOfOrigins
  <2>2. h.errors = << >>
    <3>1. h.errors \in Seq(Names) /\ Len(h.errors) = 0
      BY <2>1 DEF CallStacks
    <3> QED BY <3>1
  <2>3. Len(SetTop(f)) = 1 /\ SetTop(f)[1] = f
    BY <1>2, <2>1
  <2>4. Accounts(h, SetTop(f))
    BY <1>4, <2>1, <2>2, <2>3, AccountsMain
  <2> QED BY <1>1, <1>2, <1>3, <2>4
<1>5. CASE Top.what = "source"
  <2> DEFINE n == Len(stack)
  <2>1. n > 2 /\ n \in Nat
    BY <1>1, <1>5, TopOfOrigins DEF Kinds
  <2> HIDE DEF n
  <2>2. n # 2
    BY <2>1
  <2>3. Len(stack) # 2
    BY <2>2 DEF n
  <2>4. /\ ~Amid(Top) /\ Found(Top) = Top.base /\ Top.what # "main"
        /\ f.what \in Kinds
    BY <1>5 DEF Amid, Found, Kinds
  <2>5. ASSUME NEW p \in 1 .. Len(h.errors)
        PROVE  \E j \in 2 .. Len(stack) - 1 : Answers(stack[j], p, h.errors[p])
    <3>1. p \in 1 .. Top.base /\ h.errors[p] = gs.errors[p]
      BY <2>5
    <3> QED BY <2>3, <2>4, <3>1, FoundBelow
  <2>6. Top.base <= Len(h.errors)
    BY <1>1
  <2>7. Accounts(h, SetTop(f))
    BY <1>3, <2>4, <2>5, <2>6, AccountsMoved
  <2> QED BY <1>1, <1>2, <1>3, <2>7
<1> QED BY <1>4, <1>5

\* The place of a reader.
LEMMA ReaderMoved ==
  ASSUME Sound, Top.what \in {"main", "source"}, NEW pc \in Places,
         NEW b \in BOOLEAN
  PROVE  /\ [Top EXCEPT !.pc = pc] \in Frames
         /\ [Top EXCEPT !.pc = pc].what = Top.what
         /\ [Top EXCEPT !.pc = pc].base = Top.base
         /\ [Top EXCEPT !.pc = pc].pc = pc
         /\ Goto(pc) = SetTop([Top EXCEPT !.pc = pc])
         /\ [Top EXCEPT !.pc = pc, !.flag = b] \in Frames
         /\ [Top EXCEPT !.pc = pc, !.flag = b].what = Top.what
         /\ [Top EXCEPT !.pc = pc, !.flag = b].base = Top.base
         /\ [Top EXCEPT !.pc = pc, !.flag = b].pc = pc
<1>1. Top \in Frames
  BY TopSound
<1>2. /\ [Top EXCEPT !.pc = pc] \in Frames
      /\ [Top EXCEPT !.pc = pc, !.flag = b] \in Frames
  BY <1>1 DEF Frames
<1>3. /\ [Top EXCEPT !.pc = pc].what = Top.what
      /\ [Top EXCEPT !.pc = pc].base = Top.base
      /\ [Top EXCEPT !.pc = pc].pc = pc
  BY <1>1 DEF Frames
<1>4. /\ [Top EXCEPT !.pc = pc, !.flag = b].what = Top.what
      /\ [Top EXCEPT !.pc = pc, !.flag = b].base = Top.base
      /\ [Top EXCEPT !.pc = pc, !.flag = b].pc = pc
  BY <1>1 DEF Frames
<1> QED BY <1>2, <1>3, <1>4 DEF Goto
LEMMA WithinMore ==
  ASSUME NEW s \in Seq(Frames), NEW n \in Nat, NEW m \in Nat, n <= m,
         Within(s, Len(s), n)
  PROVE  Within(s, Len(s), m)
<1> SUFFICES ASSUME NEW j \in 2 .. Len(s)
             PROVE  s[j].base <= m /\ (Absorbing(s[j]) => s[j].mark <= m)
  BY DEF Within
<1>1. j \in 1 .. Len(s)
  OBVIOUS
<1>2. s[j] \in Frames
  BY <1>1
<1>3. s[j].base \in Nat /\ s[j].mark \in Nat
  BY <1>2 DEF Frames
<1>4. s[j].base <= n /\ (Absorbing(s[j]) => s[j].mark <= n)
  BY DEF Within
<1> QED BY <1>3, <1>4

\* .unclosed_brace comes and goes.
LEMMA IncompleteEffect ==
  ASSUME NEW r \in CallStacks, NEW base \in Nat, Len(r.errors) = base
  PROVE  LET h == RemoveExceptions(AddError(r, ".unclosed_brace"), base,
                                   ".unclosed_brace")
         IN  /\ h \in CallStacks /\ ~h.unwind /\ Len(h.errors) = base
             /\ \A p \in 1 .. base : h.errors[p] = r.errors[p]
<1> DEFINE name == ".unclosed_brace"
           g == AddError(r, name)
           h == RemoveExceptions(g, base, name)
<1>0. name \in Names /\ name \in Jumps
  BY ShellNames DEF ShellExceptions, Jumps
<1> HIDE DEF name
<1>1. /\ g \in CallStacks /\ Len(g.errors) = base + 1
      /\ \A p \in 1 .. base : g.errors[p] = r.errors[p]
      /\ g.errors[base + 1] = name
  BY <1>0, AddErrorEffect DEF Grows
<1> HIDE DEF g
<1>2. base \in 0 .. Len(g.errors)
  BY <1>1
<1>3. /\ Pruned(g, h, base)
      /\ \A p \in base + 1 .. Len(h.errors) : h.errors[p] # name
  BY <1>0, <1>1, <1>2, RemoveExceptionsEffect
<1> HIDE DEF h
<1>4. /\ h \in CallStacks /\ base <= Len(h.errors) /\ Len(h.errors) \in Nat
      /\ \A p \in 1 .. base : h.errors[p] = g.errors[p]
      /\ h.unwind => base < Len(h.errors)
  BY <1>3, CallStackErrors DEF Pruned
<1>5. \A p \in base + 1 .. Len(h.errors) : h.errors[p] = name
  <2> SUFFICES ASSUME NEW p \in base + 1 .. Len(h.errors)
               PROVE  h.errors[p] = name
    OBVIOUS
  <2>1. PICK q \in base + 1 .. Len(g.errors) : h.errors[p] = g.errors[q]
    BY <1>3 DEF Pruned
  <2>2. q = base + 1
    BY <1>1, <2>1
  <2> QED BY <1>1, <2>1, <2>2
<1>6. Len(h.errors) = base
  <2>1. base + 1 \notin base + 1 .. Len(h.errors)
    BY <1>3, <1>5
  <2> QED BY <1>4, <2>1
<1>7. ~h.unwind
  BY <1>4, <1>6
<1> QED BY <1>1, <1>4, <1>6, <1>7 DEF h, g, name

LEMMA AccountsGetline ==
  ASSUME Sound,
         \/ GetlineFails \/ GetlineEnd \/ GetlineUnclosed \/ GetlineIncomplete
         \/ GetlineMalformed \/ GetlineComplete
  PROVE  Accounts(gs', stack')
<1>1. /\ gs \in CallStacks /\ Len(gs.errors) \in Nat
      /\ Top.base \in Nat /\ Top.base \in 0 .. Len(gs.errors)
      /\ stack \in Seq(Frames) /\ Len(stack) > 0 /\ Top = stack[Len(stack)]
      /\ ShellInvariant /\ Rooted(stack) /\ Accounts(gs, stack)
  BY TopSound DEF Sound, Origins
<1>2. Top.what \in {"main", "source"}
  BY DEF GetlineFails, GetlineEnd, GetlineUnclosed, GetlineIncomplete,
         GetlineMalformed, GetlineComplete, ReadingLine
<1>3. RawCommand \in Statements /\ "run_handling" \in {"run_handling", "base_run"}
  BY StatementsTyped, NamesInUse DEF RawCommand
<1>4. {".unclosed_brace", ".mismatched_brace"} \subseteq Names
  BY ShellNames DEF ShellExceptions
<1>5. "got" \in Places /\ "more" \in Places /\ "unclosed" \in Places /\ TRUE \in BOOLEAN
  BY ReaderPlaces
<1> DEFINE r == Reset(gs, Top.base)
<1>6. /\ r \in CallStacks /\ ~r.unwind /\ Len(r.errors) = Top.base
      /\ \A p \in 1 .. Top.base : r.errors[p] = gs.errors[p]
  BY <1>1, ResetEffect
<1> HIDE DEF r
<1>7. ASSUME NEW f \in Frames, f.what = Top.what, f.base = Top.base
      PROVE  /\ Accounts(r, SetTop(f))
             /\ SetTop(f) \in Seq(Frames) /\ Len(SetTop(f)) > 0
             /\ SetTop(f)[Len(SetTop(f))] = f
             /\ ~Absorbing(f) /\ ~Choosing(f)
  BY <1>2, <1>6, <1>7, AccountsEmptied
<1>8. ASSUME NEW f \in Frames, f.what = Top.what, f.base = Top.base,
             RunHandling(r, SetTop(f), "run_handling", Top.base, RawCommand)
      PROVE  Accounts(gs', stack')
  <2>1. /\ Accounts(r, SetTop(f))
        /\ SetTop(f) \in Seq(Frames) /\ Len(SetTop(f)) > 0
        /\ ~Absorbing(SetTop(f)[Len(SetTop(f))])
        /\ ~Choosing(SetTop(f)[Len(SetTop(f))])
        /\ Top.base = SetTop(f)[Len(SetTop(f))].base
    BY <1>7, <1>8
  <2> QED BY <1>1, <1>3, <1>6, <1>8, <2>1, AccountsHandling
<1>9. ASSUME NEW pc \in Places
      PROVE  /\ [Top EXCEPT !.pc = pc] \in Frames
             /\ [Top EXCEPT !.pc = pc].what = Top.what
             /\ [Top EXCEPT !.pc = pc].base = Top.base
             /\ [Top EXCEPT !.pc = pc].pc = pc
             /\ Goto(pc) = SetTop([Top EXCEPT !.pc = pc])
             /\ [Top EXCEPT !.pc = pc, !.flag = TRUE] \in Frames
             /\ [Top EXCEPT !.pc = pc, !.flag = TRUE].what = Top.what
             /\ [Top EXCEPT !.pc = pc, !.flag = TRUE].base = Top.base
  BY <1>2, <1>9, ReaderMoved
<1>10. CASE GetlineEnd
  <2>1. CASE Top.pc = "read"
    <3> DEFINE f == [Top EXCEPT !.pc = "got", !.flag = TRUE]
    <3>1. gs' = r /\ stack' = SetTop(f)
      BY <1>10, <2>1 DEF GetlineEnd, r
    <3>2. f \in Frames /\ f.what = Top.what /\ f.base = Top.base
      BY <1>5, <1>9
    <3> HIDE DEF f
    <3> QED BY <1>7, <3>1, <3>2
  <2>2. CASE Top.pc # "read"
    <3> DEFINE f == [Top EXCEPT !.pc = "unclosed", !.flag = TRUE]
    <3>1. RunHandling(r, SetTop(f), "run_handling", Top.base, RawCommand)
      BY <1>10, <2>2 DEF GetlineEnd, r
    <3>2. f \in Frames /\ f.what = Top.what /\ f.base = Top.base
      BY <1>5, <1>9
    <3> HIDE DEF f
    <3> QED BY <1>8, <3>1, <3>2
  <2> QED BY <2>1, <2>2
<1>11. CASE GetlineComplete
  <2> DEFINE f == [Top EXCEPT !.pc = "got"]
  <2>1. RunHandling(r, Goto("got"), "run_handling", Top.base, RawCommand)
    BY <1>11 DEF GetlineComplete, r
  <2>2. f \in Frames /\ f.what = Top.what /\ f.base = Top.base /\ Goto("got") = SetTop(f)
    BY <1>5, <1>9
  <2> HIDE DEF f
  <2> QED BY <1>8, <2>1, <2>2
<1>12. CASE GetlineIncomplete
  <2> DEFINE f == [Top EXCEPT !.pc = "more"]
             h == RemoveExceptions(AddError(r, ".unclosed_brace"), Top.base,
                                   ".unclosed_brace")
  <2>1. stack' = Goto("more") /\ gs' = h
    BY <1>12 DEF GetlineIncomplete, r
  <2>2. /\ h \in CallStacks /\ ~h.unwind /\ Len(h.errors) = Top.base
        /\ \A p \in 1 .. Top.base : h.errors[p] = r.errors[p]
    BY <1>1, <1>6, IncompleteEffect
  <2>3. f \in Frames /\ f.what = Top.what /\ f.base = Top.base /\ Goto("more") = SetTop(f)
    BY <1>5, <1>9
  <2> HIDE DEF f, h
  <2>4. \A p \in 1 .. Top.base : h.errors[p] = gs.errors[p]
    BY <1>6, <2>2
  <2> QED BY <1>2, <2>1, <2>2, <2>3, <2>4, AccountsEmptied
<1>13. CASE GetlineMalformed
  <2> DEFINE f == [Top EXCEPT !.pc = "got"]
             h == AddError(r, ".mismatched_brace")
             s == SetTop(f)
  <2>1. CatchOne(h, Goto("got"), RawCommand)
    BY <1>13 DEF GetlineMalformed, r
  <2>2. /\ f \in Frames /\ f.what = Top.what /\ f.base = Top.base
        /\ f.pc = "got" /\ Goto("got") = s
    BY <1>5, <1>9
  <2> HIDE DEF f
  <2>3. /\ Accounts(r, s) /\ s \in Seq(Frames) /\ Len(s) > 0
        /\ s[Len(s)] = f /\ ~Absorbing(f) /\ ~Choosing(f)
    BY <1>7, <2>2
  <2>4. /\ h \in CallStacks /\ Len(h.errors) = Len(r.errors) + 1
        /\ \A p \in 1 .. Len(r.errors) : h.errors[p] = r.errors[p]
    BY <1>4, <1>6, AddErrorEffect DEF Grows
  <2> HIDE DEF s, h
  <2>5. /\ Within(s, Len(s), Len(r.errors)) /\ Len(r.errors) \in Nat
        /\ \A i \in 2 .. Len(s) : Found(s[i]) <= Len(r.errors)
    BY <1>1, <1>6, <2>3, MarksWithin
  <2>6. Len(h.errors) \in Nat /\ Len(r.errors) <= Len(h.errors) /\ Len(h.errors) > 0
    BY <2>4, <2>5
  <2>7. Within(s, Len(s), Len(h.errors))
    BY <2>3, <2>5, <2>6, WithinMore
  <2>8. \A i \in 2 .. Len(s) : \A p \in 1 .. Found(s[i]) : h.errors[p] = r.errors[p]
    <3> SUFFICES ASSUME NEW i \in 2 .. Len(s), NEW p \in 1 .. Found(s[i])
                 PROVE  h.errors[p] = r.errors[p]
      OBVIOUS
    <3>1. i \in 1 .. Len(s)
      BY <2>3
    <3>2. s[i] \in Frames
      BY <2>3, <3>1
    <3>3. Found(s[i]) \in Nat /\ Found(s[i]) <= Len(r.errors)
      BY <2>5, <3>2, FoundKinds
    <3>4. p \in 1 .. Len(r.errors)
      BY <2>5, <3>3
    <3> QED BY <2>4, <3>4
  <2>9. Rows(r, s) /\ s[Len(s)].pc = "got"
    BY <2>2, <2>3 DEF Rows, Accounts
  <2> QED BY <1>3, <2>1, <2>2, <2>3, <2>4, <2>6, <2>7, <2>8, <2>9, AccountsCatchOne
<1>14. CASE GetlineFails \/ GetlineUnclosed
  <2>1. /\ stack' = Goto("got") /\ UNCHANGED inAuto
        /\ \/ Top.pc = "read" /\ gs' = gs
           \/ Top.pc = "unclosed" /\ gs' = AddError(gs, ".unclosed_brace")
    BY <1>14 DEF GetlineFails, GetlineUnclosed
  <2>2. Grows(gs, gs') /\ (Top.pc = "unclosed" => gs'.unwind)
    BY <1>1, <1>4, <2>1, AddErrorEffect, GrowsSelf
  <2>3. CASE Top.what = "source"
    <3>1. Top.what \in Kinds /\ Top.what \notin {"collect", "try"}
      BY <2>3 DEF Kinds
    <3>2. AtPlain("got")
      BY <1>1, <1>5, <3>1, PlainAt
    <3>3. Advancing
      BY <2>1, <2>2, <3>2, AdvanceGoto
    <3> QED BY <3>3, AccountsAdvance
  <2>4. CASE Top.what = "main"
    <3> DEFINE f == [Top EXCEPT !.pc = "got"]
    <3>1. Len(stack) = 1 /\ Top.base = 0 /\ stack[1] = Top
      BY <1>1, <2>4, TopOfOrigins
    <3>2. f \in Frames /\ f.what = "main" /\ f.base = 0 /\ f.pc = "got" /\ stack' = SetTop(f)
      BY <1>5, <1>9, <2>1, <2>4, <3>1
    <3> HIDE DEF f
    <3>3. Len(SetTop(f)) = 1 /\ SetTop(f)[1] = f
      BY <1>1, <3>1, <3>2, Replaced DEF SetTop
    <3>4. CASE Top.pc = "read"
      <4>1. ~gs.unwind /\ gs.errors = << >>
        BY <1>1, <2>4, <3>1, <3>4, MainQuiet DEF Pending
      <4>2. gs' = gs
        BY <2>1, <3>4
      <4> QED BY <1>1, <3>2, <3>3, <4>1, <4>2, AccountsMain
    <3>5. CASE Top.pc = "unclosed"
      <4>1. gs' \in CallStacks /\ gs'.unwind /\ gs'.errors # << >>
        <5>1. gs' = AddError(gs, ".unclosed_brace")
          BY <2>1, <3>5
        <5>2. gs' \in CallStacks /\ Len(gs'.errors) = Len(gs.errors) + 1
          BY <1>1, <1>4, <5>1, AddErrorEffect DEF Grows
        <5>3. Len(gs'.errors) # 0
          BY <1>1, <5>2
        <5> QED BY <2>2, <3>5, <5>2, <5>3
      <4> QED BY <3>2, <3>3, <4>1, AccountsMain DEF Pending
    <3> QED BY <2>1, <3>4, <3>5
  <2> QED BY <1>2, <2>3, <2>4
<1> QED BY <1>10, <1>11, <1>12, <1>13, <1>14
\* main, which calls from the bottom of the stack.
LEMMA AccountsAtMain ==
  ASSUME Sound,
         \/ MainInit \/ MainRegister \/ MainPrompt \/ MainGot \/ MainStatement
         \/ MainInterpreted \/ MainRun \/ MainAfter \/ MainShutdown \/ MainGlobals
  PROVE  Accounts(gs', stack')
<1>1. Top.what = "main"
  BY DEF MainInit, MainRegister, MainPrompt, MainGot, MainStatement,
         MainInterpreted, MainRun, MainAfter, MainShutdown, MainGlobals
<1>2. /\ gs \in CallStacks /\ Len(gs.errors) \in Nat
      /\ stack \in Seq(Frames) /\ Len(stack) > 0 /\ Top = stack[Len(stack)]
      /\ ShellInvariant /\ Rooted(stack) /\ Accounts(gs, stack)
      /\ Top \in Frames /\ Top.stmt \in Statements
  BY TopSound DEF Sound, Origins
<1>3. Len(stack) = 1 /\ Top.base = 0 /\ stack[1] = Top
  BY <1>1, <1>2, TopOfOrigins
<1>4. /\ gs.unwind => Top.pc \in Pending /\ gs.errors # << >>
      /\ ~gs.unwind => gs.errors = << >> \/ Top.pc = "before"
  BY <1>1, <1>2, <1>3, MainQuiet
\* What main is when it has gone on.
<1>5. ASSUME NEW f \in Frames, f.what = "main", f.base = 0
      PROVE  /\ SetTop(f) \in Seq(Frames) /\ Len(SetTop(f)) = 1 /\ SetTop(f)[1] = f
             /\ Len(SetTop(f)) > 0 /\ SetTop(f)[Len(SetTop(f))] = f
             /\ ~Absorbing(f) /\ ~Choosing(f)
  <2>1. ~Absorbing(f) /\ ~Choosing(f)
    BY <1>5 DEF Absorbing, Choosing, Between, HelperKinds
  <2>2. /\ SetTop(f) \in Seq(Frames) /\ Len(SetTop(f)) = Len(stack)
        /\ SetTop(f)[Len(stack)] = f
    BY <1>2, Replaced DEF SetTop
  <2> QED BY <1>3, <2>1, <2>2
<1>6. ASSUME NEW f \in Frames, f.what = "main", f.base = 0, ~gs.unwind,
             gs.errors = << >>
      PROVE  Accounts(gs, SetTop(f))
  BY <1>2, <1>5, <1>6, AccountsMain
<1>7. ASSUME NEW pc \in Places
      PROVE  /\ [Top EXCEPT !.pc = pc] \in Frames
             /\ [Top EXCEPT !.pc = pc].what = "main"
             /\ [Top EXCEPT !.pc = pc].base = 0
             /\ Goto(pc) = SetTop([Top EXCEPT !.pc = pc])
  <2>1. FALSE \in BOOLEAN
    OBVIOUS
  <2> QED BY <1>1, <1>3, <1>7, <2>1, ReaderMoved
<1>8. /\ "base_run" \in {"run_handling", "base_run"} /\ 0 \in Nat
      /\ {"register", "prompt", "read", "shutdown", "statement", "before",
          "after", "globals", "done", "arguments"} \subseteq Places
  BY ReaderPlaces DEF Places
<1>9. ASSUME NEW pc \in Places, stack' = Goto(pc), gs' = gs, ~gs.unwind,
             gs.errors = << >>
      PROVE  Accounts(gs', stack')
  BY <1>6, <1>7, <1>9
<1>10. ASSUME NEW pc \in Places, NEW c \in Statements, ~gs.unwind, gs.errors = << >>,
              RunHandling(gs, Goto(pc), "base_run", Top.base, c)
       PROVE  Accounts(gs', stack')
  <2> DEFINE s == Goto(pc)
  <2>1. /\ s \in Seq(Frames) /\ Len(s) > 0 /\ Accounts(gs, s)
        /\ ~Absorbing(s[Len(s)]) /\ ~Choosing(s[Len(s)]) /\ s[Len(s)].base = 0
    <3> DEFINE f == [Top EXCEPT !.pc = pc]
    <3>1. f \in Frames /\ f.what = "main" /\ f.base = 0 /\ s = SetTop(f)
      BY <1>7
    <3> HIDE DEF f, s
    <3> QED BY <1>5, <1>6, <1>10, <3>1
  <2>2. RunHandling(gs, s, "base_run", 0, c)
    BY <1>3, <1>10
  <2> HIDE DEF s
  <2> QED BY <1>2, <1>8, <1>10, <2>1, <2>2, AccountsHandling
<1>11. ASSUME NEW pc \in Places, NEW name \in Names, ~gs.unwind, gs.errors = << >>,
              UNCHANGED inAuto, RunIfExists(gs, Goto(pc), name)
       PROVE  Accounts(gs', stack')
  <2> DEFINE s == Goto(pc)
  <2>1. /\ s \in Seq(Frames) /\ Len(s) = 1 /\ Accounts(gs, s) /\ s[1].what = "main"
    <3> DEFINE f == [Top EXCEPT !.pc = pc]
    <3>1. f \in Frames /\ f.what = "main" /\ f.base = 0 /\ s = SetTop(f)
      BY <1>7
    <3> HIDE DEF f, s
    <3> QED BY <1>5, <1>6, <1>11, <3>1
  <2>2. RunIfExists(gs, s, name)
    BY <1>11
  <2> HIDE DEF s
  <2> QED BY <1>2, <1>11, <2>1, <2>2, AccountsIfExists
<1>12. ASSUME NEW pc \in Places, NEW h \in CallStacks, StartHandler(h, Goto(pc), 0)
       PROVE  Accounts(gs', stack')
  <2> DEFINE s == Goto(pc)
  <2>1. s \in Seq(Frames) /\ Len(s) = 1 /\ Len(s) > 0
    BY <1>5, <1>7
  <2>2. StartHandler(h, s, 0)
    BY <1>12
  <2> HIDE DEF s
  <2>3. /\ Rows(gs, s) /\ Within(s, Len(s), 0)
        /\ \A i \in 2 .. Len(s) : \A p \in 1 .. Found(s[i]) : h.errors[p] = gs.errors[p]
    BY <2>1, WithinOne DEF Rows
  <2>4. 0 <= Len(h.errors)
    BY CallStackErrors
  <2>5. \A p \in 1 .. 0 : Known(s, Len(s), p, h.errors[p])
    OBVIOUS
  <2> QED BY <1>8, <2>1, <2>2, <2>3, <2>4, <2>5, AccountsStart
<1>13. /\ {".init", ".prompt", ".shutdown", ".before_command",
           ".run_logic", ".after_command"} \subseteq Names
       /\ ".unused_variable" \in Names
       /\ ".undefined_variable" \in Names
       /\ \A name \in Names : CallOf(name) \in Statements
  BY NamesInUse, ShellNames, StatementsTyped DEF ShellExceptions
<1>14. Top.pc \notin Pending => ~gs.unwind /\ gs.errors = << >>
  BY <1>4 DEF Pending
<1>15. CASE MainInit
  <2>1. /\ ~gs.unwind /\ gs.errors = << >>
        /\ RunHandling(gs, Goto("register"), "base_run", Top.base, CallOf(".init"))
    BY <1>14, <1>15 DEF MainInit, Pending
  <2> QED BY <1>8, <1>10, <1>13, <2>1
<1>16. CASE MainRegister
  <2>1. ~gs.unwind /\ gs.errors = << >> /\ stack' = Goto("prompt") /\ gs' = gs
    BY <1>14, <1>16 DEF MainRegister, Pending
  <2> QED BY <1>8, <1>9, <2>1
<1>17. CASE MainPrompt
  <2>1. /\ ~gs.unwind /\ gs.errors = << >>
        /\ \/ stack' = Goto("shutdown") /\ gs' = gs
           \/ RunHandling(gs, Goto("read"), "base_run", Top.base, CallOf(".prompt"))
    BY <1>14, <1>17 DEF MainPrompt, Pending
  <2> QED BY <1>8, <1>9, <1>10, <1>13, <2>1
<1>18. CASE MainGot
  <2>1. CASE gs.errors # << >>
    <3>1. StartHandler(gs, Goto("prompt"), 0)
      BY <1>3, <1>18, <2>1 DEF MainGot
    <3> QED BY <1>2, <1>8, <1>12, <3>1
  <2>2. CASE gs.errors = << >>
    <3>1. /\ ~gs.unwind /\ gs' = gs
          /\ stack' = Goto("shutdown") \/ stack' = Goto("statement")
      BY <1>4, <1>18, <2>2 DEF MainGot
    <3> QED BY <1>8, <1>9, <2>2, <3>1
  <2> QED BY <2>1, <2>2
<1>19. CASE MainStatement
  <2>1. ~gs.unwind /\ gs.errors = << >> /\ gs' = gs
    BY <1>14, <1>19 DEF MainStatement, Pending
  <2>2. CASE stack' = Goto("prompt")
    BY <1>8, <1>9, <2>1, <2>2
  <2>3. ASSUME NEW c \in Commands,
               stack' = SetTop([Top EXCEPT !.pc = "arguments", !.stmt = c])
        PROVE  Accounts(gs', stack')
    <3> DEFINE f == [Top EXCEPT !.pc = "arguments", !.stmt = c]
    <3>1. c \in CommandType
      BY StatementsTyped
    <3>2. f \in Frames /\ f.what = "main" /\ f.base = 0
      BY <1>1, <1>2, <1>3, <1>8, <3>1 DEF Frames
    <3> HIDE DEF f
    <3>3. stack' = SetTop(f)
      BY <2>3 DEF f
    <3> QED BY <1>6, <2>1, <3>2, <3>3
  <2>4. \/ stack' = Goto("prompt")
        \/ \E c \in Commands :
             stack' = SetTop([Top EXCEPT !.pc = "arguments", !.stmt = c])
    BY <1>19 DEF MainStatement
  <2> QED BY <2>2, <2>3, <2>4
<1>20. CASE MainInterpreted
  <2>1. PICK c : /\ c = CallOf(".undefined_variable") \/ c = Top.stmt
                 /\ RunIfExists(gs, SetTop([Top EXCEPT !.pc = "before", !.stmt = c]),
                                ".before_command")
    <3>1. PICK u \in {FALSE} \cup {"undefined" \in Faults} :
            LET c == IF u THEN CallOf(".undefined_variable") ELSE Top.stmt
            IN  RunIfExists(gs, SetTop([Top EXCEPT !.pc = "before", !.stmt = c]),
                            ".before_command")
      BY <1>20 DEF MainInterpreted
    <3> DEFINE c == IF u THEN CallOf(".undefined_variable") ELSE Top.stmt
    <3>2. c = CallOf(".undefined_variable") \/ c = Top.stmt
      OBVIOUS
    <3>3. RunIfExists(gs, SetTop([Top EXCEPT !.pc = "before", !.stmt = c]),
                      ".before_command")
      BY <3>1
    <3> HIDE DEF c
    <3> QED BY <3>2, <3>3
  <2> DEFINE f == [Top EXCEPT !.pc = "before", !.stmt = c]
             s == SetTop(f)
  <2>2. c \in CommandType /\ RunIfExists(gs, s, ".before_command")
    BY <1>2, <1>13, <2>1, StatementsTyped
  <2>3. f \in Frames /\ f.what = "main" /\ f.base = 0 /\ f.pc = "before"
    BY <1>1, <1>2, <1>3, <1>8, <2>2 DEF Frames
  <2> HIDE DEF f
  <2>4. s \in Seq(Frames) /\ Len(s) = 1 /\ s[1] = f /\ Len(s) > 0
    BY <1>5, <2>3
  <2> HIDE DEF s
  <2>5. Accounts(gs, s)
    <3>1. gs.unwind => s[1].pc \in Pending /\ gs.errors # << >>
      BY <1>4, <2>3, <2>4 DEF Pending
    <3> QED BY <1>2, <2>3, <2>4, <3>1, AccountsMain
  <2>6. UNCHANGED inAuto
    BY <1>20 DEF MainInterpreted
  <2> QED BY <1>2, <1>13, <2>2, <2>3, <2>4, <2>5, <2>6, AccountsIfExists
<1>21. CASE MainRun
  <2>1. CASE gs.errors # << >>
    <3>1. StartHandler(gs, Goto("after"), 0)
      BY <1>3, <1>21, <2>1 DEF MainRun
    <3> QED BY <1>2, <1>8, <1>12, <3>1
  <2>2. CASE gs.errors = << >>
    <3>1. /\ ~gs.unwind
          /\ \/ RunIfExists(gs, Goto("after"), ".run_logic") /\ UNCHANGED inAuto
             \/ RunHandling(gs, Goto("after"), "base_run", Top.base, Top.stmt)
      BY <1>4, <1>21, <2>2 DEF MainRun
    <3> QED BY <1>2, <1>8, <1>10, <1>11, <1>13, <2>2, <3>1
  <2> QED BY <2>1, <2>2
<1>22. CASE MainAfter
  <2>1. /\ ~gs.unwind /\ gs.errors = << >> /\ UNCHANGED inAuto
        /\ RunIfExists(gs, Goto("statement"), ".after_command")
    BY <1>14, <1>22 DEF MainAfter, Pending
  <2> QED BY <1>8, <1>11, <1>13, <2>1
<1>23. CASE MainShutdown
  <2>1. /\ ~gs.unwind /\ gs.errors = << >>
        /\ RunHandling(gs, Goto("globals"), "base_run", Top.base, CallOf(".shutdown"))
    BY <1>14, <1>23 DEF MainShutdown, Pending
  <2> QED BY <1>8, <1>10, <1>13, <2>1
<1>24. CASE MainGlobals
  <2> DEFINE h == AddError(gs, ".unused_variable")
  <2>1. ~gs.unwind /\ gs.errors = << >> /\ Len(gs.errors) = 0
    BY <1>14, <1>24 DEF MainGlobals, Pending
  <2>2. \/ StartHandler(h, Goto("done"), 0)
        \/ gs' = gs /\ stack' = Goto("done")
    BY <1>24, <2>1 DEF MainGlobals
  <2>3. h \in CallStacks
    BY <1>2, <1>13, AddErrorType
  <2> HIDE DEF h
  <2> QED BY <1>8, <1>9, <1>12, <2>1, <2>2, <2>3
<1> QED BY <1>15, <1>16, <1>17, <1>18, <1>19, <1>20, <1>21, <1>22, <1>23, <1>24
-----------------------------------------------------------------------------
\* Accounts holds in every state of a shell without .try_catch.

LEMMA AccountsNext ==
  ASSUME Never("try"), Sound, [Next]_vars
  PROVE  Accounts(gs', stack')
<1>1. ShellInvariant /\ Rooted(stack) /\ Accounts(gs, stack) /\ FromScript(Top)
  BY TopSound DEF Sound, Origins
<1>2. Top.what # "try"
  <2>1. "try" \in Kinds \ {"call", "block", "throw"}
    BY DEF Kinds
  <2> QED BY <1>1, <2>1, NotInScripts
<1>3. ~(CatchNext \/ CatchReturned \/ CatchExcess \/ CatchDone)
  BY <1>2 DEF CatchNext, CatchReturned, CatchExcess, CatchDone
<1>4. CASE Advancing
  BY <1>4, AccountsAdvance
<1>5. CASE Others
  BY <1>3, <1>5, AccountsReturns, AccountsSubstitute, AccountsHandler,
     AccountsReplace, AccountsOthers, AccountsCollect, AccountsGetline,
     AccountsAtMain
     DEF Others
<1>6. CASE UNCHANGED vars
  BY <1>1, <1>6 DEF vars
<1> QED BY <1>1, <1>4, <1>5, <1>6, StepKinds

LEMMA AccountsInit ==
  ASSUME Init
  PROVE  Accounts(gs, stack)
<1> DEFINE f == Frame("main", "init", Argfunction, 0)
<1>1. stack = << f >> /\ gs = InitialCallStack
  BY DEF Init
<1>2. f.what = "main" /\ f.base = 0
  BY DEF Frame
<1>3. gs \in CallStacks /\ gs.errors = << >> /\ ~gs.unwind
  BY <1>1, NoSignalAssumption, LimitsAssumption DEF InitialCallStack, CallStacks
<1> HIDE DEF f
<1>4. Len(stack) = 1 /\ stack[1] = f
  BY <1>1
<1> QED BY <1>2, <1>3, <1>4, AccountsMain

\* Without .try_catch the routines below answer for every exception while
\* nothing unwinds.
THEOREM AccountsHolds ==
  ASSUME Never("try")
  PROVE  Spec => []Sound
<1>1. Init => Sound
  BY InitOK, OriginsInit, AccountsInit DEF Sound
<1>2. Sound /\ [Next]_vars => Sound'
  <2> SUFFICES ASSUME Sound, [Next]_vars PROVE Sound'
    OBVIOUS
  <2>1. ShellInvariant' /\ Origins(gs', inAuto', stack')
    BY NextOK, OriginsNext DEF Sound
  <2>2. Accounts(gs', stack')
    BY AccountsNext
  <2> QED BY <2>1, <2>2 DEF Sound
<1> QED BY <1>1, <1>2, PTL DEF Spec

LEMMA GreatestIndex ==
  ASSUME NEW n \in Nat, NEW T \in SUBSET (1 .. n), T # {}
  PROVE  \E m \in T : \A k \in T : k <= m
<1> DEFINE D == {n - k : k \in T}
<1>1. D \in SUBSET Nat /\ D # {}
  <2>1. ASSUME NEW k \in T PROVE n - k \in Nat
    BY k \in 1 .. n
  <2> QED BY <2>1
<1>2. PICK d \in D : \A e \in D : d <= e
  BY <1>1, LeastNat
<1>3. PICK m \in T : d = n - m
  BY <1>2
<1>4. ASSUME NEW k \in T PROVE k <= m
  <2>1. n - m <= n - k
    BY <1>2, <1>3
  <2> QED BY <2>1
<1> QED BY <1>4

\* The threshold of the running code is the greatest mark of the routines that
\* absorb its exceptions.
LEMMA ThresholdBounds ==
  ASSUME Sound
  PROVE  /\ Threshold \in Nat
         /\ \A j \in 2 .. Len(stack) : Absorbing(stack[j]) => stack[j].mark <= Threshold
         /\ Threshold = 0 \/ \E j \in 2 .. Len(stack) :
                               Absorbing(stack[j]) /\ Threshold = stack[j].mark
<1>1. /\ stack \in Seq(Frames) /\ Len(stack) \in Nat /\ DOMAIN stack = 1 .. Len(stack)
      /\ ~Absorbing(stack[1]) /\ Rows(gs, stack)
  BY TopSound
<1>2. \A j \in 1 .. Len(stack) : stack[j].mark \in Nat /\ stack[j].base \in Nat
  <2>1. \A j \in 1 .. Len(stack) : stack[j] \in Frames
    BY <1>1
  <2> QED BY <2>1 DEF Frames
<1>3. \A j \in 1 .. Len(stack) : j \in Absorbers => j \in 2 .. Len(stack)
  BY <1>1 DEF Absorbers
<1>4. CASE Absorbers = {}
  <2>1. Threshold = 0
    BY <1>4 DEF Threshold
  <2>2. \A j \in 2 .. Len(stack) : ~Absorbing(stack[j])
    BY <1>1, <1>4 DEF Absorbers
  <2> QED BY <2>1, <2>2
<1>5. CASE Absorbers # {}
  <2> DEFINE m == CHOOSE i \in Absorbers : \A j \in Absorbers : j <= i
  <2>1. m \in Absorbers /\ \A j \in Absorbers : j <= m
    <3>1. Absorbers \in SUBSET (1 .. Len(stack))
      BY <1>1 DEF Absorbers
    <3>2. \E i \in Absorbers : \A j \in Absorbers : j <= i
      BY <1>1, <1>5, <3>1, GreatestIndex
    <3> QED BY <3>2
  <2>2. Threshold = stack[m].mark
    BY <1>5 DEF Threshold
  <2> HIDE DEF m
  <2>3. m \in 2 .. Len(stack) /\ Absorbing(stack[m]) /\ m \in 1 .. Len(stack)
    BY <1>1, <1>3, <2>1 DEF Absorbers
  <2>4. AccountAt(gs, stack, m)
    BY <1>1, <2>3 DEF Rows
  <2>5. ASSUME NEW j \in 2 .. Len(stack), Absorbing(stack[j])
        PROVE  stack[j].mark <= Threshold
    <3>1. j \in 1 .. Len(stack) /\ j \in Absorbers
      BY <1>1, <2>5 DEF Absorbers
    <3>2. j <= m
      BY <2>1, <3>1
    <3>3. CASE j = m
      BY <1>2, <2>2, <2>3, <3>3
    <3>4. CASE j # m
      <4>1. j \in 2 .. m - 1
        BY <2>3, <3>2, <3>4
      <4>2. stack[j].mark <= stack[m].base /\ stack[m].base <= stack[m].mark
        BY <2>3, <2>4, <2>5, <4>1 DEF AccountAt, Within
      <4> QED BY <1>2, <2>2, <2>3, <3>1, <4>2
    <3> QED BY <3>3, <3>4
  <2> QED BY <1>2, <2>2, <2>3, <2>5
<1> QED BY <1>4, <1>5

\* A script only goes on while none of its own exceptions is pending, except
\* those that .replace_exception put aside for the handlers to find
\* (Command_block::execute, with all that switches unwinding off: operator(),
\* exception_handler, evaluate_substitution_core, collect_errors_core,
\* Error_list::reset).
THEOREM NoErrorIgnoredHolds ==
  ASSUME Never("try")
  PROVE  Spec => []NoErrorIgnored
<1>1. ASSUME Sound PROVE NoErrorIgnored
  <2> SUFFICES ASSUME Running, ~gs.unwind,
                      NEW p \in Threshold + 1 .. Len(gs.errors)
               PROVE  gs.errors[p] \in Replacements
    BY DEF NoErrorIgnored
  <2>1. /\ stack \in Seq(Frames) /\ Top = stack[Len(stack)] /\ Top \in Frames
        /\ Accounts(gs, stack) /\ Len(gs.errors) \in Nat /\ Len(stack) \in Nat
    BY <1>1, TopSound DEF Sound
  <2>2. Top.what # "main" /\ ~Absorbing(Top) /\ ~Choosing(Top)
    BY DEF Running, Bodies, Absorbing, Choosing, Between, HelperKinds
  <2>3. Len(stack) > 1
    BY <1>1, <2>2, CalledSound
  <2>4. /\ Threshold \in Nat
        /\ \A j \in 2 .. Len(stack) : Absorbing(stack[j]) => stack[j].mark <= Threshold
    BY <1>1, ThresholdBounds
  <2>5. p \in 1 .. Len(gs.errors) /\ ~(p <= Threshold) /\ p \in Nat
    BY <2>1, <2>4
  <2>6. PICK j \in 2 .. Len(stack) - 1 : Answers(stack[j], p, gs.errors[p])
    BY <2>1, <2>2, <2>3, <2>5, KnownPlain
  <2>7. j \in 2 .. Len(stack) /\ j \in 1 .. Len(stack)
    BY <2>1, <2>6
  <2>8. stack[j].mark \in Nat
    <3>1. stack[j] \in Frames
      BY <2>1, <2>7
    <3> QED BY <3>1 DEF Frames
  <2>9. Absorbing(stack[j]) /\ p <= stack[j].mark => p <= Threshold
    BY <2>4, <2>5, <2>7, <2>8
  <2> QED BY <2>5, <2>6, <2>9 DEF Answers
<1> QED BY <1>1, AccountsHolds, PTL
-----------------------------------------------------------------------------
\* Causes: what it depends on.

CauseAt(g, s, i) ==
  s[i].what = "catch_one" \/ (s[i].what = "substitution" /\ s[i].flag) =>
    Caused(g, s, i - 1, s[i].mark)
CauseRows(g, s) == \A i \in 2 .. Len(s) : CauseAt(g, s, i)

\* Routines that remember that it was unwinding.
Remembers(f) == f.what = "catch_one" \/ (f.what = "substitution" /\ f.flag)

LEMMA CausesParts ==
  ASSUME NEW g, NEW s
  PROVE  /\ Causes(g, s) => CauseRows(g, s)
         /\ Causes(g, s) /\ g.unwind => Caused(g, s, Len(s) - 1, Len(g.errors))
         /\ CauseRows(g, s) /\ (g.unwind => Caused(g, s, Len(s) - 1, Len(g.errors)))
              => Causes(g, s)
BY DEF Causes, CauseRows, CauseAt

LEMMA CausedMore ==
  ASSUME NEW g, NEW h, g.exit => h.exit,
         NEW s \in Seq(Frames), NEW k \in Int, k <= Len(s),
         NEW n \in Nat, NEW m \in Nat, n <= m, Caused(g, s, k, n)
  PROVE  Caused(h, s, k, m)
<1> SUFFICES ASSUME ~h.exit, NEW j \in 2 .. k, Absorbing(s[j])
             PROVE  m > s[j].mark
  BY DEF Caused
<1>1. j \in 1 .. Len(s)
  OBVIOUS
<1>2. s[j] \in Frames
  BY <1>1
<1>3. s[j].mark \in Nat
  BY <1>2 DEF Frames
<1>4. n > s[j].mark
  BY <1>1 DEF Caused
<1> QED BY <1>1, <1>3, <1>4

\* The same routines in another stack.
LEMMA CausedThere ==
  ASSUME NEW h, NEW s, NEW t, NEW k \in Nat, \A j \in 1 .. k : t[j] = s[j],
         NEW n, Caused(h, s, k, n)
  PROVE  Caused(h, t, k, n)
<1>1. \A j \in 2 .. k : t[j] = s[j]
  OBVIOUS
<1> QED BY <1>1 DEF Caused

\* Fewer routines have less to ask for.
LEMMA CausedBelow ==
  ASSUME NEW g, NEW s, NEW k \in Int, NEW l \in Int, l <= k, NEW n,
         Caused(g, s, k, n)
  PROVE  Caused(g, s, l, n)
<1>1. \A j \in 2 .. l : j \in 2 .. k
  OBVIOUS
<1> QED BY <1>1 DEF Caused

LEMMA CauseRowsSame ==
  ASSUME NEW g, NEW h, g.exit => h.exit,
         NEW s \in Seq(Frames), NEW t, CauseRows(g, s),
         NEW k \in Nat, k <= Len(s), \A j \in 1 .. k : t[j] = s[j]
  PROVE  \A i \in 2 .. k : CauseAt(h, t, i)
<1> SUFFICES ASSUME NEW i \in 2 .. k, Remembers(t[i])
             PROVE  Caused(h, t, i - 1, t[i].mark)
  BY DEF CauseAt, Remembers
<1>1. i \in 2 .. Len(s) /\ t[i] = s[i] /\ i \in 1 .. Len(s)
      /\ i - 1 \in Nat /\ i - 1 <= Len(s) /\ \A j \in 1 .. i - 1 : t[j] = s[j]
  OBVIOUS
<1>2. s[i] \in Frames
  BY <1>1
<1>3. s[i].mark \in Nat /\ s[i].mark <= s[i].mark
  BY <1>2 DEF Frames
<1>4. Caused(g, s, i - 1, s[i].mark)
  BY <1>1 DEF CauseRows, CauseAt, Remembers
<1>5. Caused(h, s, i - 1, s[i].mark)
  BY <1>4 DEF Caused
<1>6. Caused(h, t, i - 1, s[i].mark)
  BY <1>1, <1>5, CausedThere
<1> QED BY <1>1, <1>6

LEMMA CausesPush ==
  ASSUME NEW g, NEW h, g.exit => h.exit,
         NEW s \in Seq(Frames), Len(s) > 0, NEW f \in Frames,
         CauseRows(g, s),
         Remembers(f) => Caused(h, s, Len(s), f.mark),
         Len(h.errors) \in Nat,
         h.unwind => Caused(h, s, Len(s), Len(h.errors))
  PROVE  Causes(h, Append(s, f))
<1> DEFINE t == Append(s, f)
           n == Len(s)
<1>1. /\ Len(t) = n + 1 /\ n \in Nat /\ t[n + 1] = f
      /\ \A i \in 1 .. n : t[i] = s[i]
  BY Pushed
<1> HIDE DEF t
<1>2. n <= Len(s) /\ (n + 1) - 1 = n /\ f.mark \in Nat /\ f.mark <= f.mark
  BY <1>1 DEF Frames
<1>3. \A i \in 2 .. n : CauseAt(h, t, i)
  BY <1>1, <1>2, CauseRowsSame
<1>4. Remembers(f) => Caused(h, t, n, f.mark)
  BY <1>1, CausedThere
<1>5. h.unwind => Caused(h, t, n, Len(h.errors))
  <2>1. h.unwind => Caused(h, s, n, Len(h.errors))
    OBVIOUS
  <2> QED BY <1>1, <1>2, <2>1, CausedThere
<1>6. CauseAt(h, t, n + 1)
  BY <1>1, <1>2, <1>4 DEF CauseAt, Remembers
<1> HIDE DEF n
<1>7. \A i \in 2 .. Len(t) : i \in 2 .. n \/ i = n + 1
  BY <1>1
<1>8. CauseRows(h, t)
  BY <1>3, <1>6, <1>7 DEF CauseRows
<1>9. Len(t) - 1 = n
  BY <1>1
<1> QED BY <1>5, <1>8, <1>9, CausesParts DEF t

LEMMA CausesSet ==
  ASSUME NEW g, NEW h, g.exit => h.exit,
         NEW s \in Seq(Frames), Len(s) > 0, NEW f \in Frames,
         CauseRows(g, s), ~Remembers(f),
         Len(h.errors) \in Nat,
         h.unwind => Caused(h, s, Len(s) - 1, Len(h.errors))
  PROVE  Causes(h, [s EXCEPT ![Len(s)] = f])
<1> DEFINE t == [s EXCEPT ![Len(s)] = f]
           n == Len(s)
           k == Len(s) - 1
<1>1. /\ Len(t) = n /\ n \in Nat /\ t[n] = f
      /\ \A i \in 1 .. k : t[i] = s[i]
  BY Replaced
<1>2. k \in Nat /\ k <= Len(s) /\ k = n - 1 /\ n > 0
  BY <1>1
<1> HIDE DEF t, k
<1>3. \A i \in 2 .. k : CauseAt(h, t, i)
  BY <1>1, <1>2, CauseRowsSame
<1>5. h.unwind => Caused(h, t, k, Len(h.errors))
  <2>1. h.unwind => Caused(h, s, k, Len(h.errors))
    BY DEF k
  <2> QED BY <1>1, <1>2, <2>1, CausedThere
<1>6. CauseAt(h, t, n)
  BY <1>1 DEF CauseAt, Remembers
<1> HIDE DEF n
<1>7. \A i \in 2 .. Len(t) : i \in 2 .. k \/ i = n
  BY <1>1, <1>2
<1>8. CauseRows(h, t)
  BY <1>3, <1>6, <1>7 DEF CauseRows
<1>9. Len(t) - 1 = k
  BY <1>1, <1>2
<1> QED BY <1>5, <1>8, <1>9, CausesParts DEF t

LEMMA CausesPop ==
  ASSUME NEW g, NEW h, g.exit => h.exit,
         NEW s \in Seq(Frames), Len(s) > 1, CauseRows(g, s),
         Len(h.errors) \in Nat,
         h.unwind => Caused(h, s, Len(s) - 1, Len(h.errors))
  PROVE  Causes(h, SubSeq(s, 1, Len(s) - 1))
<1> DEFINE t == SubSeq(s, 1, Len(s) - 1)
           k == Len(s) - 1
<1>1. /\ Len(t) = k /\ \A i \in 1 .. k : t[i] = s[i]
  BY Shortened
<1>2. k \in Nat /\ k <= Len(s) /\ k > 0
  BY Shortened
<1> HIDE DEF t, k
<1>3. \A i \in 2 .. k : CauseAt(h, t, i)
  BY <1>1, <1>2, CauseRowsSame
<1>4. h.unwind => Caused(h, t, k, Len(h.errors))
  <2>1. h.unwind => Caused(h, s, k, Len(h.errors))
    BY DEF k
  <2> QED BY <1>1, <1>2, <2>1, CausedThere
<1>5. h.unwind => Caused(h, t, k - 1, Len(h.errors))
  <2>1. k - 1 \in Int /\ k \in Int /\ k - 1 <= k
    BY <1>2
  <2> QED BY <1>4, <2>1, CausedBelow
<1>6. CauseRows(h, t)
  BY <1>1, <1>3 DEF CauseRows
<1>7. Len(t) - 1 = k - 1
  BY <1>1
<1> QED BY <1>5, <1>6, <1>7, CausesParts DEF t

\* What grows while it unwinds has a cause for every routine, unless it was
\* unwinding and the routine on top is one that absorbs.
LEMMA CausedGrown ==
  ASSUME NEW g, NEW h, Grows(g, h), NEW s \in Seq(Frames), Len(s) > 0,
         g.unwind => Caused(g, s, Len(s) - 1, Len(g.errors)),
         Within(s, Len(s), Len(g.errors)), h.unwind
  PROVE  /\ Caused(h, s, Len(s) - 1, Len(h.errors))
         /\ ~g.unwind \/ ~Absorbing(s[Len(s)]) => Caused(h, s, Len(s), Len(h.errors))
<1> DEFINE n == Len(s)
           a == Len(g.errors)
           b == Len(h.errors)
<1>1. /\ n \in Nat /\ n > 0 /\ n <= Len(s) /\ n - 1 \in Int /\ n - 1 <= Len(s)
      /\ a \in Nat /\ b \in Nat /\ a <= b /\ n \in Int /\ n - 1 <= n
  BY CallStackErrors DEF Grows
<1>2. /\ h.unwind => g.unwind \/ h.exit \/ a < b
      /\ g.exit => h.exit
      /\ Within(s, n, a)
      /\ g.unwind => Caused(g, s, n - 1, a)
  BY DEF Grows
<1> HIDE DEF n, a, b
<1>3. CASE h.exit
  BY <1>3 DEF Caused
<1>4. CASE a < b
  <2>1. ASSUME NEW j \in 2 .. n, Absorbing(s[j]) PROVE b > s[j].mark
    <3>1. j \in 1 .. Len(s)
      BY <1>1
    <3>2. s[j] \in Frames
      BY <3>1
    <3>3. s[j].mark \in Nat
      BY <3>2 DEF Frames
    <3>4. s[j].mark <= a
      BY <1>2, <2>1 DEF Within
    <3> QED BY <1>1, <1>4, <3>3, <3>4
  <2>2. Caused(h, s, n, b)
    BY <2>1 DEF Caused
  <2>3. Caused(h, s, n - 1, b)
    BY <1>1, <2>2, CausedBelow
  <2> QED BY <2>2, <2>3 DEF n, b
<1>5. CASE g.unwind
  <2>1. Caused(g, s, n - 1, a)
    BY <1>2, <1>5
  <2>2. Caused(h, s, n - 1, b)
    BY <1>1, <1>2, <2>1, CausedMore
  <2>3. ASSUME ~Absorbing(s[n]) PROVE Caused(h, s, n, b)
    <3>1. \A j \in 2 .. n : j = n \/ j \in 2 .. n - 1
      BY <1>1
    <3> QED BY <2>2, <2>3, <3>1 DEF Caused
  <2> QED BY <1>5, <2>2, <2>3 DEF n, b
<1> QED BY <1>2, <1>3, <1>4, <1>5

LEMMA CausesGrow ==
  ASSUME NEW g, NEW h, Grows(g, h), NEW s \in Seq(Frames), Len(s) > 0,
         Causes(g, s), Within(s, Len(s), Len(g.errors))
  PROVE  Causes(h, s)
<1>1. h.unwind => Caused(h, s, Len(s) - 1, Len(h.errors))
  BY CausesParts, CausedGrown
<1>2. CauseRows(h, s)
  <2> DEFINE k == Len(s)
  <2>1. (g.exit => h.exit) /\ CauseRows(g, s) /\ k \in Nat /\ k <= Len(s)
    BY CausesParts DEF Grows
  <2>2. \A j \in 1 .. k : s[j] = s[j]
    OBVIOUS
  <2>3. \A i \in 2 .. k : CauseAt(h, s, i)
    BY <2>1, <2>2, CauseRowsSame
  <2> QED BY <2>3 DEF CauseRows
<1> QED BY <1>1, <1>2, CausesParts

\* Nothing unwinds when an executable has been entered.
LEMMA CausesEnter ==
  ASSUME NEW h \in CallStacks, NEW s \in Seq(Frames), Len(s) > 0,
         CauseRows(h, s), ~h.unwind, NEW c \in Statements
  PROVE  Causes(h, Entered(s, c, h))
<1> DEFINE f == Frame(c.what, "enter", c, Len(h.errors))
<1>1. f \in Frames /\ f.what \in Kinds
  BY EnteredFrame
<1>2. Entered(s, c, h) = Append(s, f)
  BY DEF Entered
<1> HIDE DEF f
<1>3. ~Remembers(f)
  BY <1>1 DEF Remembers, Kinds
<1>4. Len(h.errors) \in Nat
  BY CallStackErrors
<1> QED BY <1>1, <1>2, <1>3, <1>4, CausesPush

LEMMA CausesContinue ==
  ASSUME NEW g \in CallStacks, NEW h, NEW auto, NEW auto2,
         NEW s \in Seq(Frames), NEW t, Len(s) > 0, Causes(g, s),
         Within(s, Len(s), Len(g.errors)),
         ~g.unwind \/ ~Absorbing(s[Len(s)]), Continues(g, s, auto, h, t, auto2)
  PROVE  Causes(h, t)
<1>1. Grows(g, h) /\ h \in CallStacks /\ (g.exit => h.exit)
      /\ Len(h.errors) \in Nat
  BY CallStackErrors DEF Continues, Grows
<1>2. Causes(h, s) /\ CauseRows(h, s) /\ CauseRows(g, s)
  BY <1>1, CausesGrow, CausesParts
<1>3. h.unwind => Caused(h, s, Len(s), Len(h.errors))
  BY <1>1, CausedGrown, CausesParts
<1>4. ASSUME NEW c \in Statements
      PROVE  /\ Causes(h, Seeking(s, c, g)) /\ Seeking(s, c, g) \in Seq(Frames)
             /\ Len(Seeking(s, c, g)) > 0
  <2> DEFINE f == Frame("autofunction", "second", c, Len(g.errors))
  <2>1. /\ Seeking(s, c, g) = Append(s, f) /\ f \in Frames
        /\ f.what = "autofunction"
        /\ Seeking(s, c, g) \in Seq(Frames) /\ Len(Seeking(s, c, g)) > 1
    BY SeekingTyped
  <2> HIDE DEF f
  <2>2. ~Remembers(f)
    BY <2>1 DEF Remembers
  <2>3. Causes(h, Append(s, f))
    BY <1>1, <1>2, <1>3, <2>1, <2>2, CausesPush
  <2>4. Len(Seeking(s, c, g)) > 0
    <3> DEFINE m == Len(Seeking(s, c, g))
    <3>1. m > 1 /\ m \in Nat
      BY <2>1
    <3> HIDE DEF m
    <3>2. m > 0
      BY <3>1
    <3> QED BY <3>2 DEF m
  <2> QED BY <2>1, <2>3, <2>4
<1>5. ASSUME NEW c \in Statements, ~h.unwind PROVE Causes(h, Entered(s, c, h))
  BY <1>1, <1>2, <1>5, CausesEnter
<1>6. ASSUME NEW c \in Statements, NEW d \in Statements, ~h.unwind
      PROVE  Causes(h, Entered(Seeking(s, c, g), d, h))
  <2>1. CauseRows(h, Seeking(s, c, g))
    BY <1>4, CausesParts
  <2> QED BY <1>1, <1>4, <1>6, <2>1, CausesEnter
<1> QED BY <1>2, <1>4, <1>5, <1>6 DEF Continues

LEMMA CausesAdvance ==
  ASSUME Sound, Causes(gs, stack), Advancing
  PROVE  Causes(gs', stack')
<1>1. PICK k \in CallStacks, f \in Frames :
        /\ Grows(gs, k) \/ Pruned(gs, k, Top.base)
        /\ Successor(f, Top) /\ Plain(f)
        /\ Continues(k, [stack EXCEPT ![Len(stack)] = f], inAuto,
                     gs', stack', inAuto')
  BY DEF Advancing, Advances, Top
<1>2. Plain(Top) /\ Top.what # "main" /\ ~Absorbing(Top) /\ ~Choosing(Top)
      /\ ~Remembers(f) /\ ~Absorbing(f) /\ f.base = Top.base
  BY <1>1 DEF Advancing, Advances, Top, Plain, Kinds, Remembers, Successor
<1>3. /\ stack \in Seq(Frames) /\ Len(stack) > 0 /\ Top = stack[Len(stack)]
      /\ Top.base \in Nat /\ Top.base <= Len(gs.errors)
      /\ gs \in CallStacks /\ Len(gs.errors) \in Nat /\ Len(stack) \in Nat
  BY TopSound
<1>4. Within(stack, Len(stack) - 1, Top.base)
  BY <1>2, <1>3, CalledSound DEF AccountAt
<1>5. Within(stack, Len(stack), Len(gs.errors))
  BY <1>2, <1>3, MarksWithin DEF Sound
<1>6. CauseRows(gs, stack)
      /\ (gs.unwind => Caused(gs, stack, Len(stack) - 1, Len(gs.errors)))
  BY CausesParts
<1>7. /\ Len(k.errors) \in Nat /\ Top.base <= Len(k.errors)
      /\ gs.exit => k.exit
  BY <1>1, <1>3, CallStackErrors DEF Grows, Pruned
<1>8. k.unwind => Caused(k, stack, Len(stack) - 1, Len(k.errors))
  <2>1. CASE Grows(gs, k)
    BY <1>3, <1>5, <1>6, <2>1, CausedGrown
  <2>2. CASE Pruned(gs, k, Top.base) /\ k.unwind
    <3>1. Top.base < Len(k.errors)
      BY <2>2 DEF Pruned
    <3>2. ASSUME NEW j \in 2 .. Len(stack) - 1, Absorbing(stack[j])
          PROVE  Len(k.errors) > stack[j].mark
      <4>1. j \in 1 .. Len(stack)
        BY <1>3, <3>2
      <4>2. stack[j] \in Frames
        BY <1>3, <4>1
      <4>3. stack[j].mark \in Nat
        BY <4>2 DEF Frames
      <4>4. stack[j].mark <= Top.base
        BY <1>4, <3>2 DEF Within
      <4> QED BY <1>3, <1>7, <3>1, <4>3, <4>4
    <3> QED BY <3>2 DEF Caused
  <2> QED BY <1>1, <2>1, <2>2
<1> DEFINE t == [stack EXCEPT ![Len(stack)] = f]
<1>9. Causes(k, t)
  BY <1>1, <1>2, <1>3, <1>6, <1>7, <1>8, CausesSet
<1>10. /\ t \in Seq(Frames) /\ Len(t) = Len(stack) /\ t[Len(stack)] = f
       /\ \A i \in 1 .. Len(stack) - 1 : t[i] = stack[i]
  BY <1>1, <1>3, Replaced
<1>11. Continues(k, t, inAuto, gs', stack', inAuto')
  BY <1>1
<1> HIDE DEF t
<1>12. Len(t) > 0 /\ t[Len(t)] = f
  BY <1>3, <1>10
<1>13. Within(t, Len(t), Len(k.errors))
  <2> SUFFICES ASSUME NEW j \in 2 .. Len(stack)
               PROVE  /\ t[j].base <= Len(k.errors)
                      /\ Absorbing(t[j]) => t[j].mark <= Len(k.errors)
    BY <1>10 DEF Within
  <2>1. CASE j = Len(stack)
    BY <1>2, <1>7, <1>10, <2>1
  <2>2. CASE j # Len(stack)
    <3>1. j \in 2 .. Len(stack) - 1 /\ j \in 1 .. Len(stack) - 1 /\ j \in 1 .. Len(stack)
      BY <1>3, <2>2
    <3>2. t[j] = stack[j] /\ stack[j] \in Frames
      BY <1>3, <1>10, <3>1
    <3>3. stack[j].base \in Nat /\ stack[j].mark \in Nat
      BY <3>2 DEF Frames
    <3>4. /\ stack[j].base <= Top.base
          /\ Absorbing(stack[j]) => stack[j].mark <= Top.base
      BY <1>4, <3>1 DEF Within
    <3> QED BY <1>3, <1>7, <3>2, <3>3, <3>4
  <2> QED BY <2>1, <2>2
<1> QED BY <1>1, <1>2, <1>9, <1>10, <1>11, <1>12, <1>13, CausesContinue

-----------------------------------------------------------------------------
\* Causes: the routines that were called, and coming back from them.

\* Why it unwinds, for the routine on top.
LEMMA CausesTop ==
  ASSUME Sound, Causes(gs, stack)
  PROVE  /\ CauseRows(gs, stack)
         /\ gs.unwind => Caused(gs, stack, Len(stack) - 1, Len(gs.errors))
         /\ Top.what # "main" => Within(stack, Len(stack) - 1, Top.base)
         /\ ~Choosing(Top) => Within(stack, Len(stack), Len(gs.errors))
<1>1. CauseRows(gs, stack)
      /\ (gs.unwind => Caused(gs, stack, Len(stack) - 1, Len(gs.errors)))
  BY CausesParts
<1>2. Top = stack[Len(stack)] /\ stack \in Seq(Frames) /\ Len(stack) > 0
      /\ gs \in CallStacks
  BY TopSound
<1>3. Top.what # "main" => Within(stack, Len(stack) - 1, Top.base)
  BY <1>2, CalledSound DEF AccountAt
<1>4. ~Choosing(Top) => Within(stack, Len(stack), Len(gs.errors))
  BY <1>2, MarksWithin DEF Sound
<1> QED BY <1>1, <1>3, <1>4

LEMMA CausesPopped ==
  ASSUME Sound, Causes(gs, stack), Top.what # "main",
         NEW h, gs.exit => h.exit, Len(h.errors) \in Nat,
         h.unwind => Caused(h, stack, Len(stack) - 1, Len(h.errors))
  PROVE  Causes(h, Popped)
<1>1. stack \in Seq(Frames) /\ Len(stack) > 1
      /\ Popped = SubSeq(stack, 1, Len(stack) - 1)
  BY TopSound, CalledSound
<1>2. CauseRows(gs, stack)
  BY CausesTop
<1> QED BY <1>1, <1>2, CausesPop

LEMMA CausesPoppedRows ==
  ASSUME Sound, Causes(gs, stack), Top.what # "main",
         NEW h, gs.exit => h.exit
  PROVE  CauseRows(h, Popped)
<1> DEFINE k == Len(stack) - 1
           t == Popped
<1>1. /\ stack \in Seq(Frames) /\ k \in Nat /\ k <= Len(stack)
      /\ Len(t) = k /\ \A j \in 1 .. k : t[j] = stack[j]
  <2>1. Len(stack) \in Nat
    BY TopSound
  <2>2. k \in Nat /\ k <= Len(stack)
    BY <2>1, CalledSound
  <2> QED BY <2>2, TopSound, CalledBelow
<1>2. CauseRows(gs, stack)
  BY CausesTop
<1> HIDE DEF k, t
<1>3. \A i \in 2 .. k : CauseAt(h, t, i)
  BY <1>1, <1>2, CauseRowsSame
<1> QED BY <1>1, <1>3 DEF CauseRows, t

LEMMA CausesStart ==
  ASSUME NEW h \in CallStacks, NEW s \in Seq(Frames), Len(s) > 0,
         CauseRows(h, s), NEW base \in Nat, StartHandler(h, s, base)
  PROVE  Causes(gs', stack')
<1> DEFINE f == HandlerFrame(base)
           k == [h EXCEPT !.inHandler = TRUE, !.unwind = FALSE]
<1>1. f \in Frames /\ f.what = "handler"
  BY StartedFrame
<1>2. stack' = Append(s, f) /\ gs' = k
  BY DEF StartHandler
<1>3. k.unwind = FALSE /\ Len(k.errors) \in Nat /\ k.exit = h.exit
  BY CallStackErrors DEF CallStacks
<1> HIDE DEF f, k
<1>4. ~Remembers(f) /\ ~k.unwind
  BY <1>1, <1>3 DEF Remembers
<1>5. Causes(k, Append(s, f))
  BY <1>1, <1>3, <1>4, CausesPush
<1> QED BY <1>2, <1>5

\* A helper routine comes on top and runs an executable.
LEMMA CausesHelper ==
  ASSUME NEW h \in CallStacks, NEW s \in Seq(Frames), Len(s) > 0, ~h.unwind,
         CauseRows(h, s), Within(s, Len(s), Len(h.errors)),
         NEW f \in Frames, Remembers(f) => Caused(h, s, Len(s), f.mark),
         f.base <= Len(h.errors), f.mark <= Len(h.errors),
         NEW auto, NEW auto2, NEW k, NEW t,
         Continues(h, Append(s, f), auto, k, t, auto2)
  PROVE  Causes(k, t)
<1> DEFINE u == Append(s, f)
           n == Len(s)
           m == Len(h.errors)
<1>1. Len(h.errors) \in Nat /\ (h.exit => h.exit)
  BY CallStackErrors
<1>2. Causes(h, u)
  BY <1>1, CausesPush
<1>3. /\ u \in Seq(Frames) /\ Len(u) = n + 1 /\ u[n + 1] = f
      /\ \A j \in 1 .. n : u[j] = s[j]
      /\ n \in Nat
  BY Pushed
<1>4. Continues(h, u, auto, k, t, auto2) /\ Within(s, n, m)
      /\ f.base <= m /\ f.mark <= m
  OBVIOUS
<1> HIDE DEF u, n, m
<1>5. Within(u, n + 1, m)
  <2> SUFFICES ASSUME NEW j \in 2 .. n + 1
               PROVE  /\ u[j].base <= m
                      /\ Absorbing(u[j]) => u[j].mark <= m
    BY DEF Within
  <2>1. CASE j = n + 1
    BY <1>3, <1>4, <2>1
  <2>2. CASE j # n + 1
    <3>1. j \in 2 .. n /\ j \in 1 .. n
      BY <1>3, <2>2
    <3>2. u[j] = s[j]
      BY <1>3, <3>1
    <3> QED BY <1>4, <3>1, <3>2 DEF Within
  <2> QED BY <2>1, <2>2
<1>6. Len(u) > 0 /\ Within(u, Len(u), m)
  BY <1>3, <1>5
<1> QED BY <1>2, <1>3, <1>4, <1>6, CausesContinue DEF m

LEMMA CausesReturns ==
  ASSUME Sound, Causes(gs, stack),
         SecondLookup \/ Leaves \/ Substituted \/ HandlersDone \/ RanHandling
           \/ RanIfExists \/ CaughtOne
  PROVE  Causes(gs', stack')
<1>1. /\ gs \in CallStacks /\ Len(gs.errors) \in Nat /\ gs.unwind \in BOOLEAN
      /\ stack \in Seq(Frames) /\ Len(stack) \in Nat \ {0} /\ Len(stack) > 0
      /\ Top = stack[Len(stack)] /\ Top \in Frames /\ Top.base \in Nat
      /\ Top.mark \in Nat /\ Popped = SubSeq(stack, 1, Len(stack) - 1)
  BY TopSound
<1>2. ".failed_substitution" \in Names /\ ".unfinished_if_block" \in Names
  BY ThrownNames
<1>3. /\ CauseRows(gs, stack)
      /\ gs.unwind => Caused(gs, stack, Len(stack) - 1, Len(gs.errors))
      /\ Top.what # "main" => Within(stack, Len(stack) - 1, Top.base)
      /\ ~Choosing(Top) => Within(stack, Len(stack), Len(gs.errors))
  BY CausesTop
<1>4. Len(stack) - 1 \in Int
  BY <1>1
<1>5. ASSUME NEW h, Grows(gs, h), ~Choosing(Top), Top.what # "main"
      PROVE  Causes(h, Popped)
  <2>1. /\ gs.exit => h.exit
        /\ Len(h.errors) \in Nat
    BY <1>1, <1>5, CallStackErrors DEF Grows
  <2>2. h.unwind => Caused(h, stack, Len(stack) - 1, Len(h.errors))
    BY <1>1, <1>3, <1>5, CausedGrown
  <2> QED BY <1>5, <2>1, <2>2, CausesPopped
<1>6. CASE Leaves
  <2>1. /\ Plain(Top) /\ Grows(gs, gs') /\ stack' = Popped
    BY <1>6 DEF Leaves
  <2>2. /\ Top.what # "main" /\ ~Choosing(Top)
    BY <2>1 DEF Plain, Kinds
  <2> QED BY <1>5, <2>1, <2>2
<1>7. CASE HandlersDone
  <2>1. /\ Top.what = "handler" /\ Top.pc = "next" /\ stack' = Popped
        /\ gs'.errors = gs.errors /\ gs'.unwind = gs.unwind
        /\ gs'.exit = gs.exit
    BY <1>1, <1>7 DEF HandlersDone, CallStacks
  <2>2. Top.what # "main" /\ Between(Top)
    BY <2>1 DEF Between
  <2>3. ~gs'.unwind
    BY <2>1, <2>2, CalledSound
  <2>4. Len(gs'.errors) \in Nat
    BY <1>1, <2>1
  <2> QED BY <2>1, <2>2, <2>3, <2>4, CausesPopped
<1>8. CASE CaughtOne
  <2>1. /\ Top.what = "catch_one" /\ stack' = Popped
        /\ gs'.errors = gs.errors /\ gs'.exit = gs.exit
    BY <1>1, <1>8 DEF CaughtOne, CallStacks
  <2>2. Top.what # "main" /\ Absorbing(Top) /\ ~Choosing(Top)
    BY <2>1 DEF Absorbing, Choosing, Between, HelperKinds
  <2>3. Top.mark <= Len(gs.errors)
    BY <2>2, CalledSound
  <2>4. Len(stack) \in 2 .. Len(stack)
    BY <1>1, <2>2, CalledSound
  <2>5. Caused(gs, stack, Len(stack) - 1, Top.mark)
    BY <1>1, <1>3, <2>1, <2>4 DEF CauseRows, CauseAt
  <2> DEFINE k == Len(stack) - 1
             m == Len(gs.errors)
  <2>6. k \in Nat /\ k <= Len(stack) /\ m \in Nat
    BY <1>1, <2>2, CalledSound
  <2>7. Caused(gs, stack, k, Top.mark) /\ Top.mark <= m
    BY <2>3, <2>5
  <2> HIDE DEF k, m
  <2>8. Caused(gs', stack, k, m)
    BY <1>1, <2>1, <2>6, <2>7, CausedMore
  <2>9. Len(gs'.errors) \in Nat /\ Len(gs'.errors) = m
    BY <1>1, <2>1 DEF m
  <2>10. Caused(gs', stack, Len(stack) - 1, Len(gs'.errors))
    BY <2>8, <2>9 DEF k
  <2> QED BY <2>1, <2>2, <2>9, <2>10, CausesPopped
<1>9. CASE RanHandling
  <2>1. PICK g : /\ Top.what \in {"run_handling", "base_run"}
                 /\ Grows(gs, g)
                 /\ IF g.unwind THEN StartHandler(g, Popped, Top.base)
                    ELSE gs' = g /\ stack' = Popped
    <3> DEFINE u == Top.what = "base_run" /\ gc.in_if /\ ~gc.thrown
               g == AddErrorIf(u, gs, ".unfinished_if_block")
    <3>1. u \in BOOLEAN
      BY DEF Sound, ShellInvariant, Conditionals
    <3>2. /\ Top.what \in {"run_handling", "base_run"}
          /\ IF g.unwind THEN StartHandler(g, Popped, Top.base)
             ELSE gs' = g /\ stack' = Popped
      BY <1>9 DEF RanHandling
    <3> HIDE DEF u
    <3>3. Grows(gs, g)
      BY <1>1, <1>2, <3>1, AddErrorIfEffect
    <3> HIDE DEF g
    <3> QED BY <3>2, <3>3
  <2>2. Top.what # "main" /\ ~Choosing(Top)
    BY <2>1 DEF Choosing, Between
  <2>3. g \in CallStacks /\ (gs.exit => g.exit)
    BY <2>1 DEF Grows
  <2>4. CASE g.unwind
    <3>1. StartHandler(g, Popped, Top.base)
      BY <2>1, <2>4
    <3>2. CauseRows(g, Popped) /\ Popped \in Seq(Frames) /\ Len(Popped) > 0
      BY <2>2, <2>3, CausesPoppedRows, CalledBelow
    <3> QED BY <1>1, <2>3, <3>1, <3>2, CausesStart
  <2>5. CASE ~g.unwind
    BY <1>5, <2>1, <2>2, <2>5
  <2> QED BY <2>4, <2>5
<1>10. CASE RanIfExists
  <2>1. /\ Top.what = "run_if_exists"
        /\ IF gs.unwind THEN StartHandler(gs, Popped, Top.base)
           ELSE gs' = DestroyList(gs, Top.base) /\ stack' = Popped
    BY <1>10 DEF RanIfExists
  <2>2. Top.what # "main" /\ (gs.exit => gs.exit)
    BY <2>1
  <2>3. CASE gs.unwind
    <3>1. StartHandler(gs, Popped, Top.base)
      BY <2>1, <2>3
    <3>2. CauseRows(gs, Popped) /\ Popped \in Seq(Frames) /\ Len(Popped) > 0
      BY <2>2, CausesPoppedRows, CalledBelow
    <3> QED BY <1>1, <3>1, <3>2, CausesStart
  <2>4. CASE ~gs.unwind
    <3>1. /\ gs'.errors = SubSeq(gs.errors, 1, Top.base) /\ gs'.unwind = gs.unwind
          /\ gs.errors \in Seq(Names) /\ gs'.exit = gs.exit /\ stack' = Popped
      BY <1>1, <2>1, <2>4 DEF DestroyList, CallStacks
    <3>2. Top.base <= Len(gs.errors)
      BY TopSound
    <3>3. Len(gs'.errors) \in Nat /\ ~gs'.unwind
      BY <1>1, <2>4, <3>1, <3>2
    <3> QED BY <2>2, <3>1, <3>3, CausesPopped
  <2> QED BY <2>3, <2>4
<1>11. CASE Substituted
  <2> DEFINE g == AddErrorIf(gs.unwind, gs, ".failed_substitution")
  <2>1. /\ Top.what = "substitution" /\ stack' = Popped
        /\ gs' = [g EXCEPT !.unwind = Top.flag \/ g.unwind]
    BY <1>11 DEF Substituted
  <2>2. Grows(gs, g)
    BY <1>1, <1>2, AddErrorIfEffect
  <2> HIDE DEF g
  <2>3. /\ g \in CallStacks /\ Len(g.errors) \in Nat /\ (gs.exit => g.exit)
        /\ Len(gs.errors) <= Len(g.errors)
    BY <1>1, <2>2, CallStackErrors DEF Grows
  <2>4. /\ gs'.errors = g.errors /\ (gs'.unwind => Top.flag \/ g.unwind)
        /\ gs'.exit = g.exit
    BY <2>1, <2>3 DEF CallStacks
  <2>5. Top.what # "main" /\ ~Choosing(Top) /\ Absorbing(Top)
    BY <2>1 DEF Choosing, Between, Absorbing, HelperKinds
  <2> DEFINE k == Len(stack) - 1
             m == Len(gs.errors)
             n == Len(g.errors)
  <2>6. k \in Nat /\ k <= Len(stack) /\ m \in Nat /\ n \in Nat /\ m <= n
    BY <1>1, <2>3, <2>5, CalledSound
  <2>7. g.unwind => Caused(g, stack, k, n)
    BY <1>1, <1>3, <2>2, <2>5, CausedGrown
  <2>8. Top.flag => Caused(gs, stack, k, Top.mark) /\ Top.mark <= m
    <3>1. Top.mark <= Len(gs.errors)
      BY <2>5, CalledSound
    <3>2. Len(stack) \in 2 .. Len(stack)
      BY <1>1, <2>5, CalledSound
    <3> QED BY <1>1, <1>3, <2>1, <3>1, <3>2 DEF CauseRows, CauseAt
  <2> HIDE DEF k, m, n
  <2>9. Top.flag => Top.mark <= n
    BY <1>1, <2>6, <2>8
  <2>10. Top.flag => Caused(g, stack, k, n)
    BY <1>1, <2>3, <2>6, <2>8, <2>9, CausedMore
  <2>11. Caused(g, stack, k, n) => Caused(gs', stack, k, n)
    BY <2>4 DEF Caused
  <2>12. /\ Len(gs'.errors) = n /\ (gs.exit => gs'.exit) /\ Len(gs'.errors) \in Nat
    BY <2>3, <2>4 DEF n
  <2>13. gs'.unwind => Caused(gs', stack, Len(stack) - 1, Len(gs'.errors))
    BY <2>4, <2>7, <2>10, <2>11, <2>12 DEF k
  <2> QED BY <2>1, <2>5, <2>12, <2>13, CausesPopped
<1>12. CASE SecondLookup
  <2>1. /\ Top.what = "autofunction"
        /\ Call(gs, Popped, Top.cmd)
           \/ (gs' = AddError(gs, ".function_not_found") /\ stack' = Popped)
    BY <1>12 DEF SecondLookup
  <2>2. Top.what # "main" /\ ~Choosing(Top) /\ ~Absorbing(Top)
    BY <2>1 DEF Choosing, Between, Absorbing, HelperKinds, Kinds
  <2>3. Top.cmd \in Statements /\ ".function_not_found" \in Names
    BY TopSound, ThrownNames DEF FromScript
  <2>4. CASE gs' = AddError(gs, ".function_not_found") /\ stack' = Popped
    <3>1. Grows(gs, gs')
      BY <1>1, <2>3, <2>4, AddErrorEffect
    <3> QED BY <1>5, <2>2, <2>4, <3>1
  <2>5. CASE Call(gs, Popped, Top.cmd)
    <3>1. /\ Popped \in Seq(Frames) /\ Len(Popped) > 0
          /\ Within(Popped, Len(Popped), Top.base)
      BY <2>2, CalledBelow
    <3>2. Grows(gs, gs')
          /\ (stack' = Popped
                \/ (~gs'.unwind /\ stack' = Entered(Popped, Top.cmd, gs')))
      BY <1>1, <2>5, CallEffect
    <3>3. Causes(gs', Popped) /\ gs' \in CallStacks
      BY <1>5, <2>2, <3>2 DEF Grows
    <3>4. CauseRows(gs', Popped)
      BY <3>3, CausesParts
    <3> QED BY <2>3, <3>1, <3>2, <3>3, <3>4, CausesEnter
  <2> QED BY <2>1, <2>4, <2>5
<1> QED BY <1>6, <1>7, <1>8, <1>9, <1>10, <1>11, <1>12

-----------------------------------------------------------------------------
\* Causes: substitutions, handlers and the readers.

LEMMA CausesCalm ==
  ASSUME NEW g, NEW h, g.exit => h.exit, NEW s \in Seq(Frames), Len(s) > 0,
         CauseRows(g, s), ~h.unwind
  PROVE  Causes(h, s)
<1> DEFINE k == Len(s)
<1>1. (g.exit => h.exit) /\ CauseRows(g, s) /\ k \in Nat /\ k <= Len(s)
  OBVIOUS
<1>2. \A j \in 1 .. k : s[j] = s[j]
  OBVIOUS
<1>3. \A i \in 2 .. k : CauseAt(h, s, i)
  BY <1>1, <1>2, CauseRowsSame
<1>4. CauseRows(h, s)
  BY <1>3 DEF CauseRows
<1> QED BY <1>4, CausesParts

\* What is longer than all the marks.
LEMMA CausedAbove ==
  ASSUME NEW h, NEW s \in Seq(Frames), NEW n \in Nat, NEW m \in Nat, n < m,
         Within(s, Len(s), n)
  PROVE  Caused(h, s, Len(s), m)
<1> SUFFICES ASSUME NEW j \in 2 .. Len(s), Absorbing(s[j])
             PROVE  m > s[j].mark
  BY DEF Caused
<1>1. j \in 1 .. Len(s)
  OBVIOUS
<1>2. s[j] \in Frames
  BY <1>1
<1>3. s[j].mark \in Nat
  BY <1>2 DEF Frames
<1>4. s[j].mark <= n
  BY DEF Within
<1> QED BY <1>3, <1>4

LEMMA WithinSet ==
  ASSUME NEW s \in Seq(Frames), Len(s) > 0, NEW f \in Frames,
         NEW b \in Nat, NEW n \in Nat, b <= n, Within(s, Len(s) - 1, b),
         f.base <= n, Absorbing(f) => f.mark <= n
  PROVE  Within([s EXCEPT ![Len(s)] = f], Len(s), n)
<1> DEFINE t == [s EXCEPT ![Len(s)] = f]
           k == Len(s)
<1>1. /\ t[k] = f /\ k \in Nat /\ \A i \in 1 .. k - 1 : t[i] = s[i]
      /\ k <= Len(s)
  BY Replaced
<1>2. Within(s, k - 1, b)
  OBVIOUS
<1> HIDE DEF t, k
<1> SUFFICES ASSUME NEW j \in 2 .. k
             PROVE  t[j].base <= n /\ (Absorbing(t[j]) => t[j].mark <= n)
  BY DEF Within, t, k
<1>3. CASE j = k
  BY <1>1, <1>3
<1>4. CASE j # k
  <2>1. j \in 2 .. k - 1 /\ j \in 1 .. k - 1 /\ j \in 1 .. Len(s)
    BY <1>1, <1>4
  <2>2. t[j] = s[j] /\ s[j] \in Frames
    BY <1>1, <2>1
  <2>3. s[j].base \in Nat /\ s[j].mark \in Nat
    BY <2>2 DEF Frames
  <2>4. s[j].base <= b /\ (Absorbing(s[j]) => s[j].mark <= b)
    BY <1>2, <2>1 DEF Within
  <2> QED BY <2>2, <2>3, <2>4
<1> QED BY <1>3, <1>4

\* The routine on top at another place, with what it may find next.
LEMMA CausesMoved ==
  ASSUME Sound, Causes(gs, stack), NEW h, gs.exit => h.exit, NEW f \in Frames,
         ~Remembers(f), Len(h.errors) \in Nat,
         h.unwind => Caused(h, stack, Len(stack) - 1, Len(h.errors))
  PROVE  /\ Causes(h, SetTop(f)) /\ SetTop(f) \in Seq(Frames)
         /\ Len(SetTop(f)) > 0 /\ Len(SetTop(f)) = Len(stack)
         /\ SetTop(f)[Len(SetTop(f))] = f
         /\ Top.what # "main" \/ Len(stack) = 1 =>
              (f.base = Top.base /\ Top.base <= Len(h.errors)
                 /\ (Absorbing(f) => f.mark <= Len(h.errors)) =>
               Within(SetTop(f), Len(SetTop(f)), Len(h.errors)))
<1>1. /\ stack \in Seq(Frames) /\ Len(stack) > 0 /\ Len(stack) \in Nat
      /\ Top.base \in Nat
  BY TopSound
<1>2. CauseRows(gs, stack)
      /\ (Top.what # "main" => Within(stack, Len(stack) - 1, Top.base))
  BY CausesTop
<1>3. Causes(h, SetTop(f))
  BY <1>1, <1>2, CausesSet DEF SetTop
<1>4. /\ SetTop(f) \in Seq(Frames) /\ Len(SetTop(f)) = Len(stack)
      /\ SetTop(f)[Len(stack)] = f
  BY <1>1, Replaced DEF SetTop
<1>5. ASSUME Top.what # "main" \/ Len(stack) = 1, f.base = Top.base,
             Top.base <= Len(h.errors), Absorbing(f) => f.mark <= Len(h.errors)
      PROVE  Within(SetTop(f), Len(SetTop(f)), Len(h.errors))
  <2>1. Within(stack, Len(stack) - 1, Top.base)
    <3>1. CASE Top.what # "main"
      BY <1>2, <3>1
    <3>2. CASE Len(stack) = 1
      <4>1. \A j \in 2 .. Len(stack) - 1 : FALSE
        BY <3>2
      <4> QED BY <4>1 DEF Within
    <3> QED BY <1>5, <3>1, <3>2
  <2> DEFINE m == Len(h.errors)
  <2>2. m \in Nat /\ Top.base <= m /\ f.base <= m /\ (Absorbing(f) => f.mark <= m)
    BY <1>5
  <2> HIDE DEF m
  <2>3. Within(SetTop(f), Len(stack), m)
    BY <1>1, <2>1, <2>2, WithinSet DEF SetTop
  <2> QED BY <1>4, <2>3 DEF m
<1> QED BY <1>1, <1>3, <1>4, <1>5

LEMMA CausesSubstitute ==
  ASSUME Never("collect"), Sound, Causes(gs, stack), Substitute
  PROVE  Causes(gs', stack')
<1>1. /\ gs \in CallStacks /\ Len(gs.errors) \in Nat /\ gs.unwind \in BOOLEAN
      /\ stack \in Seq(Frames) /\ Len(stack) \in Nat \ {0} /\ Len(stack) > 0
      /\ Top = stack[Len(stack)] /\ FromScript(Top)
  BY TopSound
<1> DEFINE f == [Frame("substitution", "ran", Argfunction, Len(gs.errors))
                   EXCEPT !.flag = gs.unwind]
           g == [gs EXCEPT !.unwind = FALSE]
           t == Append(stack, f)
<1>2. /\ Call(g, t, Argfunction) /\ UNCHANGED inAuto
      /\ Top.pc = "arguments" /\ Top.what \in Interpreting
      /\ g \in CallStacks /\ g.errors = gs.errors /\ g.unwind = FALSE
      /\ g.exit = gs.exit
  BY <1>1 DEF Substitute, CallStacks
<1>3. /\ f \in Frames /\ f.what = "substitution" /\ f.base = Len(gs.errors)
      /\ f.mark = Len(gs.errors) /\ f.flag = gs.unwind
  BY <1>1, SubstitutionFrame
<1> HIDE DEF f, g
<1>4. ~Choosing(Top) /\ ~Absorbing(Top)
  <2>1. "collect" \in Kinds \ {"call", "block", "throw"}
    BY DEF Kinds
  <2>2. Top.what # "collect"
    BY <1>1, <2>1, NotInScripts
  <2> QED BY <1>2, <2>2 DEF Choosing, Between, Absorbing, Interpreting, Bodies,
                            HelperKinds
<1>5. /\ CauseRows(gs, stack) /\ Within(stack, Len(stack), Len(gs.errors))
      /\ gs.unwind => Caused(gs, stack, Len(stack) - 1, Len(gs.errors))
  BY <1>4, CausesTop
<1>6. Causes(g, stack) /\ CauseRows(g, stack)
  <2>1. gs.exit => g.exit
    BY <1>2
  <2>2. Causes(g, stack)
    BY <1>1, <1>2, <1>5, <2>1, CausesCalm
  <2> QED BY <2>2, CausesParts
<1>7. gs.unwind => Caused(g, stack, Len(stack), Len(gs.errors))
  <2>1. \A j \in 2 .. Len(stack) : j = Len(stack) \/ j \in 2 .. Len(stack) - 1
    BY <1>1
  <2> QED BY <1>1, <1>2, <1>4, <1>5, <2>1 DEF Caused
<1>8. /\ Remembers(f) => Caused(g, stack, Len(stack), f.mark)
      /\ Within(stack, Len(stack), Len(g.errors)) /\ ~g.unwind
      /\ f.base <= Len(g.errors) /\ f.mark <= Len(g.errors)
  BY <1>1, <1>2, <1>3, <1>5, <1>7 DEF Remembers
<1>9. Continues(g, t, inAuto, gs', stack', inAuto')
  <2> HIDE DEF t
  <2> QED BY <1>2, CallContinues, StatementsTyped
<1> QED BY <1>1, <1>2, <1>3, <1>6, <1>8, <1>9, CausesHelper

LEMMA CausesHandler ==
  ASSUME Sound, Causes(gs, stack), HandleNext \/ HandlerReturned
  PROVE  Causes(gs', stack')
<1>1. /\ gs \in CallStacks /\ Len(gs.errors) \in Nat /\ gs.unwind \in BOOLEAN
      /\ stack \in Seq(Frames) /\ Len(stack) > 0 /\ Top = stack[Len(stack)]
      /\ Top \in Frames /\ Top.base \in Nat /\ Top.mark \in Nat
      /\ Top.base <= Len(gs.errors) /\ CauseRows(gs, stack)
  BY TopSound, CausesTop
<1>2. Top.what = "handler" /\ Top.what # "main"
  BY DEF HandleNext, HandlerReturned
<1>3. Between(Top) => ~gs.unwind
  BY <1>2, CalledSound
<1>4. CASE HandleNext /\ gs.errors[Top.base + 1] \in Top.failed
  <2>1. /\ gs' = RemoveError(gs, Top.base + 1) /\ stack' = stack
        /\ Top.pc = "next"
    BY <1>4 DEF HandleNext
  <2>2. ~gs'.unwind /\ gs'.exit = gs.exit
    BY <1>1, <1>2, <1>3, <2>1 DEF Between, RemoveError, CallStacks
  <2> QED BY <1>1, <2>1, <2>2, CausesCalm
<1>5. CASE HandleNext /\ gs.errors[Top.base + 1] \notin Top.failed
  <2> DEFINE n == Len(gs.errors)
             front == gs.errors[Top.base + 1]
             c == CallOf(front)
             f == [Top EXCEPT !.pc = "ran", !.prev = gs.count, !.stmt = c,
                              !.mark = n]
  <2>1. /\ Top.pc = "next" /\ n > Top.base /\ Run(gs, SetTop(f), c)
    BY <1>5 DEF HandleNext
  <2>2. front \in Names
    <3>1. Top.base + 1 \in 1 .. n
      BY <1>1, <2>1
    <3> QED BY <1>1, <3>1, CallStackErrors
  <2>3. /\ n \in Nat /\ c \in Statements /\ gs.count \in Nat /\ n = Len(gs.errors)
    BY <1>1, <2>2, StatementsTyped, LimitsAssumption DEF CallStacks
  <2> HIDE DEF n, front, c
  <2>4. /\ f \in Frames /\ f.what = "handler" /\ f.base = Top.base /\ f.mark = n
    <3>1. c \in CommandType /\ "ran" \in Places
      BY <2>3, StatementsTyped DEF Places
    <3> QED BY <1>1, <1>2, <2>3, <3>1 DEF Frames
  <2> HIDE DEF f
  <2>5. ~Remembers(f) /\ ~gs.unwind /\ (gs.exit => gs.exit)
    BY <1>2, <1>3, <2>1, <2>4 DEF Remembers, Between
  <2>6. f.base = Top.base /\ Top.base <= Len(gs.errors)
        /\ (Absorbing(f) => f.mark <= Len(gs.errors))
    BY <1>1, <2>3, <2>4
  <2>7. /\ Causes(gs, SetTop(f)) /\ SetTop(f) \in Seq(Frames)
        /\ Len(SetTop(f)) > 0
        /\ Within(SetTop(f), Len(SetTop(f)), Len(gs.errors))
    BY <1>1, <1>2, <2>4, <2>5, <2>6, CausesMoved
  <2>8. Continues(gs, SetTop(f), inAuto, gs', stack', inAuto')
    BY <1>1, <2>1, <2>3, RunContinues
  <2> QED BY <1>1, <2>5, <2>7, <2>8, CausesContinue
<1>6. CASE HandlerReturned
  <2>1. PICK S : stack' = SetTop([Top EXCEPT !.pc = "next", !.failed = S])
    BY <1>6 DEF HandlerReturned
  <2> DEFINE f == [Top EXCEPT !.pc = "next", !.failed = S]
  <2>2. f \in Frames
    BY <2>1, SetFrame, NextOK, <1>6 DEF Sound, Next, InterpreterNext
  <2>3. f.what = "handler" /\ stack' = SetTop(f)
    BY <1>1, <1>2, <2>1 DEF Frames
  <2> HIDE DEF f
  <2>4. ~gs'.unwind /\ gs'.exit = gs.exit
    <3> DEFINE k == [gs EXCEPT !.errors = LastToSecond(gs.errors, Top.base),
                               !.unwind = FALSE]
    <3>1. \/ gs' = RemoveError(k, Top.base + 1)
          \/ ~gs.unwind /\ gs' = RemoveError(gs, Top.base + 1)
      BY <1>6 DEF HandlerReturned
    <3>2. ~k.unwind /\ k.exit = gs.exit
      BY <1>1 DEF CallStacks
    <3>3. ASSUME NEW g, NEW i
          PROVE  RemoveError(g, i).unwind = g.unwind /\ RemoveError(g, i).exit = g.exit
      BY DEF RemoveError
    <3> HIDE DEF k
    <3> QED BY <3>1, <3>2, <3>3
  <2>5. Len(gs'.errors) \in Nat
    <3>1. gs' \in CallStacks
      BY NextOK, <1>6 DEF Sound, Next, InterpreterNext, ShellInvariant, StackOK
    <3> QED BY <3>1, CallStackErrors
  <2>6. ~Remembers(f) /\ (gs.exit => gs'.exit)
    BY <2>3, <2>4 DEF Remembers
  <2>7. Causes(gs', SetTop(f))
    BY <2>2, <2>4, <2>5, <2>6, CausesMoved
  <2> QED BY <2>3, <2>7
<1> QED BY <1>4, <1>5, <1>6

LEMMA CausesReplace ==
  ASSUME Sound, Causes(gs, stack), Replace
  PROVE  Causes(gs', stack')
<1>1. /\ gs \in CallStacks /\ Len(gs.errors) \in Nat
      /\ stack \in Seq(Frames) /\ Len(stack) > 0
      /\ Len(stack) \in Nat /\ Top \in Frames
      /\ Origins(gs, inAuto, stack) /\ ShellInvariant /\ Rooted(stack)
  BY TopSound DEF Sound, Origins
<1>2. /\ Top.what = "replace" /\ Top.pc = "enter" /\ UNCHANGED inAuto
      /\ stack' = Goto("return")
      /\ gs' = IF gs.inHandler THEN ReplaceError(gs, Top.cmd.name)
               ELSE AddError(gs, ".not_catching_exception")
  BY DEF Replace, Finish
<1>3. Top.cmd.name \in Names
  BY <1>1 DEF Frames, CommandType
<1>4. AtPlain("return") /\ "return" \in Places
  <2>1. Top.what \in Kinds /\ "return" \in Places
    BY <1>2 DEF Kinds, Places
  <2> QED BY <1>1, <1>2, <2>1, PlainAt DEF AtPlain
<1>5. CASE ~gs.inHandler
  <2>1. Grows(gs, gs')
    BY <1>1, <1>2, <1>5, ThrownNames, AddErrorEffect
  <2>2. Advancing
    BY <1>2, <1>4, <2>1, AdvanceGoto
  <2> QED BY <2>2, CausesAdvance
<1>6. CASE gs.inHandler
  <2> DEFINE f == [Top EXCEPT !.pc = "return"]
             k == Len(stack) - 1
             m == Len(gs.errors)
  <2>1. /\ f \in Frames /\ f.what = "replace" /\ Goto("return") = SetTop(f)
    BY <1>1, <1>2, <1>4, MovedOnly
  <2> HIDE DEF f
  <2>2. ~Remembers(f)
    BY <2>1 DEF Remembers
  <2>3. /\ gs'.unwind = gs.unwind /\ gs'.exit = gs.exit
        /\ Len(gs'.errors) = m + 1
    BY <1>1, <1>2, <1>3, <1>6, ReplaceErrorEffect
  <2>4. /\ k \in Int /\ k <= Len(stack) /\ m \in Nat /\ m + 1 \in Nat /\ m <= m + 1
    BY <1>1
  <2>5. gs.unwind => Caused(gs, stack, k, m)
    BY CausesTop
  <2> HIDE DEF k, m
  <2>6. gs.unwind => Caused(gs', stack, k, m + 1)
    BY <1>1, <2>3, <2>4, <2>5, CausedMore
  <2>7. /\ gs'.unwind => Caused(gs', stack, Len(stack) - 1, Len(gs'.errors))
        /\ Len(gs'.errors) \in Nat /\ (gs.exit => gs'.exit)
    BY <2>3, <2>4, <2>6 DEF k
  <2>8. Causes(gs', SetTop(f))
    BY <2>1, <2>2, <2>7, CausesMoved
  <2> QED BY <1>2, <2>1, <2>8
<1> QED BY <1>5, <1>6

\* main alone on the stack needs no reason.
LEMMA CausesAlone ==
  ASSUME NEW g, NEW s, Len(s) = 1
  PROVE  /\ Causes(g, s) /\ CauseRows(g, s) /\ Within(s, Len(s), Len(g.errors))
         /\ \A n : Caused(g, s, Len(s), n)
<1>1. \A j \in 2 .. Len(s) : FALSE
  OBVIOUS
<1>2. \A j \in 2 .. Len(s) - 1 : FALSE
  OBVIOUS
<1> QED BY <1>1, <1>2 DEF Causes, CauseRows, Caused, Within

LEMMA CausesOthers ==
  ASSUME Sound, Causes(gs, stack), CatchSignal \/ StepwiseAborts
  PROVE  Causes(gs', stack')
<1>1. CASE CatchSignal
  <2>1. /\ stack' = stack /\ gs'.errors = gs.errors /\ gs'.unwind = gs.unwind
        /\ gs'.exit = gs.exit
    BY <1>1, TopSound DEF CatchSignal, CallStacks
  <2> QED BY <2>1 DEF Causes, Caused
<1>2. CASE StepwiseAborts
  <2>1. stack' = << Frame("main", "aborted", Argfunction, 0) >>
    BY <1>2 DEF StepwiseAborts, Abort
  <2>2. Len(stack') = 1
    BY <2>1
  <2> QED BY <2>2, CausesAlone
<1> QED BY <1>1, <1>2

-----------------------------------------------------------------------------
\* Causes: main and the readers, and the theorem.

LEMMA CausesHandling ==
  ASSUME NEW g \in CallStacks, NEW s \in Seq(Frames), Len(s) > 0, ~g.unwind,
         CauseRows(g, s), Within(s, Len(s), Len(g.errors)),
         NEW what \in {"run_handling", "base_run"}, NEW base \in Nat,
         base <= Len(g.errors),
         NEW c \in Statements, RunHandling(g, s, what, base, c)
  PROVE  Causes(gs', stack')
<1> DEFINE f == [Frame(what, "ran", c, base) EXCEPT !.mark = Len(g.errors)]
           t == Append(s, f)
<1>1. f \in Frames /\ f.what = what /\ f.base = base /\ f.mark = Len(g.errors)
  <2>1. Len(g.errors) \in Nat
    BY CallStackErrors
  <2> QED BY <2>1, HandlingFrame
<1>2. Run(g, t, c)
  BY DEF RunHandling
<1> HIDE DEF f
<1>3. ~Remembers(f) /\ f.base <= Len(g.errors) /\ f.mark <= Len(g.errors)
  <2>1. Len(g.errors) \in Nat
    BY CallStackErrors
  <2> QED BY <1>1, <2>1 DEF Remembers
<1>4. Continues(g, t, inAuto, gs', stack', inAuto')
  <2> HIDE DEF t
  <2> QED BY <1>2, RunContinues
<1> QED BY <1>1, <1>3, <1>4, CausesHelper

\* What main calls may find it unwinding.
LEMMA CausesIfExists ==
  ASSUME NEW g \in CallStacks, NEW s \in Seq(Frames), Len(s) = 1,
         NEW name \in Names, RunIfExists(g, s, name)
  PROVE  Causes(gs', stack')
<1> DEFINE c == CallOf(name)
           f == Frame("run_if_exists", "ran", c, Len(g.errors))
           t == Append(s, f)
<1>1. c \in Statements
  BY StatementsTyped
<1>2. CASE name \in Defined
  <2>1. Call(g, t, c)
    BY <1>2 DEF RunIfExists
  <2>2. f \in Frames /\ f.what = "run_if_exists"
    <3> HIDE DEF c
    <3> QED BY <1>1, HelperFrame
  <2> HIDE DEF c, f
  <2>3. /\ Grows(g, gs')
        /\ stack' = t \/ (~gs'.unwind /\ stack' = Entered(t, c, gs'))
    <3> HIDE DEF t
    <3> QED BY <2>1, CallEffect
  <2>4. gs' \in CallStacks /\ Len(gs'.errors) \in Nat /\ (gs'.exit => gs'.exit)
    BY <2>3, CallStackErrors DEF Grows
  <2>5. /\ Len(s) > 0 /\ CauseRows(gs', s) /\ ~Remembers(f)
        /\ Caused(gs', s, Len(s), Len(gs'.errors))
    <3>1. Len(s) > 0 /\ ~Remembers(f)
      BY <2>2 DEF Remembers
    <3>2. CauseRows(gs', s) /\ \A n : Caused(gs', s, Len(s), n)
      BY CausesAlone
    <3> QED BY <3>1, <3>2
  <2>6. Causes(gs', t)
    BY <2>2, <2>4, <2>5, CausesPush
  <2>7. t \in Seq(Frames) /\ Len(t) > 0
    BY <2>2, Pushed
  <2> HIDE DEF t
  <2>8. CauseRows(gs', t)
    BY <2>6, CausesParts
  <2> QED BY <1>1, <2>3, <2>4, <2>6, <2>7, <2>8, CausesEnter
<1>3. CASE name \notin Defined
  BY <1>3, CausesAlone DEF RunIfExists
<1> QED BY <1>2, <1>3

LEMMA CausesCatchOne ==
  ASSUME NEW h \in CallStacks, NEW s \in Seq(Frames), Len(s) > 0,
         CauseRows(h, s), NEW n \in Nat, n < Len(h.errors),
         Within(s, Len(s), n), NEW c \in Statements, CatchOne(h, s, c)
  PROVE  Causes(gs', stack')
<1> DEFINE f == Frame("catch_one", "ran", c, Len(h.errors))
           t == Append(s, f)
           k == [h EXCEPT !.inHandler = TRUE, !.unwind = FALSE]
           m == Len(h.errors)
<1>1. /\ f \in Frames /\ f.base = Len(h.errors) /\ f.mark = Len(h.errors)
  BY HelperFrame
<1>2. /\ Run(k, t, c) /\ k \in CallStacks /\ k.errors = h.errors
      /\ k.unwind = FALSE /\ k.exit = h.exit
  BY DEF CatchOne, CallStacks
<1>3. m \in Nat /\ n < m /\ m = Len(h.errors) /\ n <= m /\ f.mark = m /\ f.base = m
  BY <1>1, CallStackErrors
<1> HIDE DEF f, k, m
<1>4. Caused(k, s, Len(s), m)
  BY <1>3, CausedAbove
<1>5. Within(s, Len(s), m)
  BY <1>3, WithinMore
<1>6. Len(k.errors) = m /\ ~k.unwind /\ (h.exit => k.exit)
  BY <1>2, <1>3
<1>7. CauseRows(k, s)
  <2>1. Causes(k, s)
    BY <1>6, CausesCalm
  <2> QED BY <2>1, CausesParts
<1>8. Continues(k, t, inAuto, gs', stack', inAuto')
  <2> HIDE DEF t
  <2> QED BY <1>2, RunContinues
<1>9. /\ Remembers(f) => Caused(k, s, Len(s), f.mark)
      /\ f.base <= Len(k.errors) /\ f.mark <= Len(k.errors)
      /\ Within(s, Len(s), Len(k.errors))
  BY <1>3, <1>4, <1>5, <1>6
<1> QED BY <1>1, <1>2, <1>6, <1>7, <1>8, <1>9, CausesHelper

LEMMA CausesGetline ==
  ASSUME Sound, Causes(gs, stack),
         \/ GetlineFails \/ GetlineEnd \/ GetlineUnclosed \/ GetlineIncomplete
         \/ GetlineMalformed \/ GetlineComplete
  PROVE  Causes(gs', stack')
<1>1. /\ gs \in CallStacks /\ Len(gs.errors) \in Nat
      /\ Top.base \in Nat /\ Top.base \in 0 .. Len(gs.errors)
      /\ stack \in Seq(Frames) /\ Len(stack) > 0 /\ Top = stack[Len(stack)]
      /\ ShellInvariant /\ Rooted(stack)
  BY TopSound DEF Sound, Origins
<1>2. Top.what \in {"main", "source"}
  BY DEF GetlineFails, GetlineEnd, GetlineUnclosed, GetlineIncomplete,
         GetlineMalformed, GetlineComplete, ReadingLine
<1>3. RawCommand \in Statements /\ "run_handling" \in {"run_handling", "base_run"}
  BY StatementsTyped, NamesInUse DEF RawCommand
<1>4. {".unclosed_brace", ".mismatched_brace"} \subseteq Names
  BY ShellNames DEF ShellExceptions
<1>5. "got" \in Places /\ "more" \in Places /\ "unclosed" \in Places /\ TRUE \in BOOLEAN
  BY ReaderPlaces
<1> DEFINE r == Reset(gs, Top.base)
<1>6. /\ r \in CallStacks /\ ~r.unwind /\ Len(r.errors) = Top.base
      /\ r.exit = gs.exit /\ Len(r.errors) \in Nat /\ (gs.exit => r.exit)
  BY <1>1, ResetEffect, ResetFields
<1> HIDE DEF r
<1>a. Top.what # "main" \/ Len(stack) = 1
  BY <1>1, TopOfOrigins
<1>7. ASSUME NEW f \in Frames, f.what = Top.what, f.base = Top.base
      PROVE  /\ Causes(r, SetTop(f)) /\ CauseRows(r, SetTop(f))
             /\ SetTop(f) \in Seq(Frames) /\ Len(SetTop(f)) > 0
             /\ Within(SetTop(f), Len(SetTop(f)), Len(r.errors))
  <2>1. ~Remembers(f) /\ ~Absorbing(f)
    BY <1>2, <1>7 DEF Remembers, Absorbing, HelperKinds
  <2>2. Top.base <= Len(r.errors)
    BY <1>1, <1>6
  <2>3. /\ Causes(r, SetTop(f))
        /\ SetTop(f) \in Seq(Frames) /\ Len(SetTop(f)) > 0
        /\ Within(SetTop(f), Len(SetTop(f)), Len(r.errors))
    BY <1>6, <1>7, <1>a, <2>1, <2>2, CausesMoved
  <2> QED BY <2>3, CausesParts
<1>8. ASSUME NEW f \in Frames, f.what = Top.what, f.base = Top.base,
             RunHandling(r, SetTop(f), "run_handling", Top.base, RawCommand)
      PROVE  Causes(gs', stack')
  <2>1. Top.base <= Len(r.errors)
    BY <1>1, <1>6
  <2>2. /\ CauseRows(r, SetTop(f))
        /\ SetTop(f) \in Seq(Frames) /\ Len(SetTop(f)) > 0
        /\ Within(SetTop(f), Len(SetTop(f)), Len(r.errors))
    BY <1>7, <1>8
  <2> QED BY <1>1, <1>3, <1>6, <1>8, <2>1, <2>2, CausesHandling
<1>9. ASSUME NEW pc \in Places
      PROVE  /\ [Top EXCEPT !.pc = pc] \in Frames
             /\ [Top EXCEPT !.pc = pc].what = Top.what
             /\ [Top EXCEPT !.pc = pc].base = Top.base
             /\ Goto(pc) = SetTop([Top EXCEPT !.pc = pc])
             /\ [Top EXCEPT !.pc = pc, !.flag = TRUE] \in Frames
             /\ [Top EXCEPT !.pc = pc, !.flag = TRUE].what = Top.what
             /\ [Top EXCEPT !.pc = pc, !.flag = TRUE].base = Top.base
  BY <1>2, <1>9, ReaderMoved
<1>10. CASE GetlineEnd
  <2>1. CASE Top.pc = "read"
    <3> DEFINE f == [Top EXCEPT !.pc = "got", !.flag = TRUE]
    <3>1. gs' = r /\ stack' = SetTop(f)
      BY <1>10, <2>1 DEF GetlineEnd, r
    <3>2. f \in Frames /\ f.what = Top.what /\ f.base = Top.base
      BY <1>5, <1>9
    <3> HIDE DEF f
    <3> QED BY <1>7, <3>1, <3>2
  <2>2. CASE Top.pc # "read"
    <3> DEFINE f == [Top EXCEPT !.pc = "unclosed", !.flag = TRUE]
    <3>1. RunHandling(r, SetTop(f), "run_handling", Top.base, RawCommand)
      BY <1>10, <2>2 DEF GetlineEnd, r
    <3>2. f \in Frames /\ f.what = Top.what /\ f.base = Top.base
      BY <1>5, <1>9
    <3> HIDE DEF f
    <3> QED BY <1>8, <3>1, <3>2
  <2> QED BY <2>1, <2>2
<1>11. CASE GetlineComplete
  <2> DEFINE f == [Top EXCEPT !.pc = "got"]
  <2>1. RunHandling(r, Goto("got"), "run_handling", Top.base, RawCommand)
    BY <1>11 DEF GetlineComplete, r
  <2>2. f \in Frames /\ f.what = Top.what /\ f.base = Top.base /\ Goto("got") = SetTop(f)
    BY <1>5, <1>9
  <2> HIDE DEF f
  <2> QED BY <1>8, <2>1, <2>2
<1>12. CASE GetlineIncomplete
  <2> DEFINE f == [Top EXCEPT !.pc = "more"]
             h == RemoveExceptions(AddError(r, ".unclosed_brace"), Top.base,
                                   ".unclosed_brace")
  <2>1. stack' = Goto("more") /\ gs' = h
    BY <1>12 DEF GetlineIncomplete, r
  <2>2. h \in CallStacks /\ ~h.unwind
    BY <1>1, <1>6, IncompleteEffect
  <2>3. h.exit = r.exit
    BY <1>6 DEF RemoveExceptions, AddError, CallStacks
  <2>4. f \in Frames /\ f.what = Top.what /\ f.base = Top.base /\ Goto("more") = SetTop(f)
    BY <1>5, <1>9
  <2> HIDE DEF f, h
  <2>5. /\ CauseRows(r, SetTop(f))
        /\ SetTop(f) \in Seq(Frames) /\ Len(SetTop(f)) > 0
    BY <1>7, <2>4
  <2>6. Causes(h, SetTop(f))
    BY <2>2, <2>3, <2>5, CausesCalm
  <2> QED BY <2>1, <2>4, <2>6
<1>13. CASE GetlineMalformed
  <2> DEFINE f == [Top EXCEPT !.pc = "got"]
             h == AddError(r, ".mismatched_brace")
             s == SetTop(f)
  <2>1. CatchOne(h, Goto("got"), RawCommand)
    BY <1>13 DEF GetlineMalformed, r
  <2>2. /\ f \in Frames /\ f.what = Top.what /\ f.base = Top.base
        /\ Goto("got") = s
    BY <1>5, <1>9
  <2> HIDE DEF f
  <2>3. /\ CauseRows(r, s) /\ s \in Seq(Frames) /\ Len(s) > 0
        /\ Within(s, Len(s), Len(r.errors))
    BY <1>7, <2>2
  <2>4. h \in CallStacks /\ Len(h.errors) = Len(r.errors) + 1 /\ h.exit = r.exit
    <3>1. h \in CallStacks /\ Len(h.errors) = Len(r.errors) + 1
      BY <1>4, <1>6, AddErrorEffect DEF Grows
    <3>2. h.exit = r.exit
      BY <1>6 DEF AddError, CallStacks
    <3> QED BY <3>1, <3>2
  <2> HIDE DEF s, h
  <2>5. CauseRows(h, s)
    BY <2>3, <2>4 DEF CauseRows, CauseAt, Caused
  <2>6. Len(r.errors) < Len(h.errors)
    BY <1>6, <2>4
  <2> QED BY <1>3, <1>6, <2>1, <2>2, <2>3, <2>4, <2>5, <2>6, CausesCatchOne
<1>14. CASE GetlineFails \/ GetlineUnclosed
  <2>1. /\ stack' = Goto("got") /\ UNCHANGED inAuto
        /\ gs' = gs \/ gs' = AddError(gs, ".unclosed_brace")
    BY <1>14 DEF GetlineFails, GetlineUnclosed
  <2>2. Grows(gs, gs')
    BY <1>1, <1>4, <2>1, AddErrorEffect, GrowsSelf
  <2>3. CASE Top.what = "source"
    <3>1. Top.what \in Kinds /\ Top.what \notin {"collect", "try"}
      BY <2>3 DEF Kinds
    <3>2. AtPlain("got")
      BY <1>1, <1>5, <3>1, PlainAt
    <3>3. Advancing
      BY <2>1, <2>2, <3>2, AdvanceGoto
    <3> QED BY <3>3, CausesAdvance
  <2>4. CASE Top.what = "main"
    <3> DEFINE f == [Top EXCEPT !.pc = "got"]
    <3>1. Len(stack) = 1
      BY <1>a, <2>4
    <3>2. f \in Frames /\ stack' = SetTop(f)
      BY <1>5, <1>9, <2>1
    <3> HIDE DEF f
    <3>3. Len(SetTop(f)) = 1
      BY <1>1, <3>1, <3>2, Replaced DEF SetTop
    <3> QED BY <3>2, <3>3, CausesAlone
  <2> QED BY <1>2, <2>3, <2>4
<1> QED BY <1>10, <1>11, <1>12, <1>13, <1>14

LEMMA CausesAtMain ==
  ASSUME Sound,
         \/ MainInit \/ MainRegister \/ MainPrompt \/ MainGot \/ MainStatement
         \/ MainInterpreted \/ MainRun \/ MainAfter \/ MainShutdown \/ MainGlobals
  PROVE  Causes(gs', stack')
<1>1. Top.what = "main"
  BY DEF MainInit, MainRegister, MainPrompt, MainGot, MainStatement,
         MainInterpreted, MainRun, MainAfter, MainShutdown, MainGlobals
<1>2. /\ gs \in CallStacks /\ Len(gs.errors) \in Nat
      /\ stack \in Seq(Frames) /\ Len(stack) > 0 /\ Top = stack[Len(stack)]
      /\ ShellInvariant /\ Rooted(stack) /\ Accounts(gs, stack)
      /\ Top \in Frames /\ Top.stmt \in Statements
  BY TopSound DEF Sound, Origins
<1>3. Len(stack) = 1 /\ Top.base = 0 /\ stack[1] = Top
  BY <1>1, <1>2, TopOfOrigins
<1>4. gs.unwind => Top.pc \in Pending /\ gs.errors # << >>
  BY <1>1, <1>2, <1>3, MainQuiet
<1>5. ASSUME NEW f \in Frames
      PROVE  /\ SetTop(f) \in Seq(Frames) /\ Len(SetTop(f)) = 1
             /\ Len(SetTop(f)) > 0
  <2>1. SetTop(f) \in Seq(Frames) /\ Len(SetTop(f)) = Len(stack)
    BY <1>2, Replaced DEF SetTop
  <2> QED BY <1>3, <2>1
<1>6. ASSUME NEW pc \in Places
      PROVE  /\ Goto(pc) \in Seq(Frames) /\ Len(Goto(pc)) = 1
             /\ Len(Goto(pc)) > 0
  <2>1. [Top EXCEPT !.pc = pc] \in Frames
    BY <1>2 DEF Frames
  <2> QED BY <1>5, <2>1 DEF Goto
<1>7. /\ "base_run" \in {"run_handling", "base_run"} /\ 0 \in Nat
      /\ {"register", "prompt", "read", "shutdown", "statement", "before",
          "after", "globals", "done", "arguments"} \subseteq Places
  BY ReaderPlaces DEF Places
<1>8. ASSUME NEW pc \in Places, stack' = Goto(pc)
      PROVE  Causes(gs', stack')
  BY <1>6, <1>8, CausesAlone
<1>9. ASSUME NEW pc \in Places, NEW c \in Statements, ~gs.unwind,
             RunHandling(gs, Goto(pc), "base_run", Top.base, c)
      PROVE  Causes(gs', stack')
  <2> DEFINE s == Goto(pc)
  <2>1. /\ s \in Seq(Frames) /\ Len(s) = 1 /\ Len(s) > 0
        /\ RunHandling(gs, s, "base_run", 0, c)
    BY <1>3, <1>6, <1>9
  <2> HIDE DEF s
  <2>2. CauseRows(gs, s) /\ Within(s, Len(s), Len(gs.errors)) /\ 0 <= Len(gs.errors)
    <3>1. CauseRows(gs, s) /\ Within(s, Len(s), Len(gs.errors))
      BY <2>1, CausesAlone
    <3>2. 0 <= Len(gs.errors)
      BY <1>2
    <3> QED BY <3>1, <3>2
  <2> QED BY <1>2, <1>7, <1>9, <2>1, <2>2, CausesHandling
<1>10. ASSUME NEW pc \in Places, NEW name \in Names,
              RunIfExists(gs, Goto(pc), name)
       PROVE  Causes(gs', stack')
  BY <1>2, <1>6, <1>10, CausesIfExists
<1>11. ASSUME NEW pc \in Places, NEW h \in CallStacks, StartHandler(h, Goto(pc), 0)
       PROVE  Causes(gs', stack')
  <2> DEFINE s == Goto(pc)
  <2>1. /\ s \in Seq(Frames) /\ Len(s) = 1 /\ Len(s) > 0
        /\ StartHandler(h, s, 0)
    BY <1>6, <1>11
  <2> HIDE DEF s
  <2>2. CauseRows(h, s)
    BY <2>1, CausesAlone
  <2> QED BY <1>7, <2>1, <2>2, CausesStart
<1>12. /\ {".init", ".prompt", ".shutdown", ".before_command",
           ".run_logic", ".after_command"} \subseteq Names
       /\ ".unused_variable" \in Names
       /\ ".undefined_variable" \in Names
       /\ \A name \in Names : CallOf(name) \in Statements
  BY NamesInUse, ShellNames, StatementsTyped DEF ShellExceptions
<1>13. Top.pc \notin Pending => ~gs.unwind
  BY <1>4
<1>14. CASE MainInit
  <2>1. /\ ~gs.unwind
        /\ RunHandling(gs, Goto("register"), "base_run", Top.base, CallOf(".init"))
    BY <1>13, <1>14 DEF MainInit, Pending
  <2> QED BY <1>7, <1>9, <1>12, <2>1
<1>15. CASE MainRegister
  BY <1>7, <1>8, <1>15 DEF MainRegister
<1>16. CASE MainPrompt
  <2>1. /\ ~gs.unwind
        /\ \/ stack' = Goto("shutdown")
           \/ RunHandling(gs, Goto("read"), "base_run", Top.base, CallOf(".prompt"))
    BY <1>13, <1>16 DEF MainPrompt, Pending
  <2> QED BY <1>7, <1>8, <1>9, <1>12, <2>1
<1>17. CASE MainGot
  <2>1. \/ StartHandler(gs, Goto("prompt"), 0)
        \/ stack' = Goto("shutdown") \/ stack' = Goto("statement")
    BY <1>3, <1>17 DEF MainGot
  <2> QED BY <1>2, <1>7, <1>8, <1>11, <2>1
<1>18. CASE MainStatement
  <2>1. CASE stack' = Goto("prompt")
    BY <1>7, <1>8, <2>1
  <2>2. ASSUME NEW c \in Commands,
               stack' = SetTop([Top EXCEPT !.pc = "arguments", !.stmt = c])
        PROVE  Causes(gs', stack')
    <3>1. c \in CommandType
      BY StatementsTyped
    <3>2. [Top EXCEPT !.pc = "arguments", !.stmt = c] \in Frames
      BY <1>2, <1>7, <3>1 DEF Frames
    <3> QED BY <1>5, <2>2, <3>2, CausesAlone
  <2>3. \/ stack' = Goto("prompt")
        \/ \E c \in Commands :
             stack' = SetTop([Top EXCEPT !.pc = "arguments", !.stmt = c])
    BY <1>18 DEF MainStatement
  <2> QED BY <2>1, <2>2, <2>3
<1>19. CASE MainInterpreted
  <2>1. PICK c : /\ c = CallOf(".undefined_variable") \/ c = Top.stmt
                 /\ RunIfExists(gs, SetTop([Top EXCEPT !.pc = "before", !.stmt = c]),
                                ".before_command")
    <3>1. PICK u \in {FALSE} \cup {"undefined" \in Faults} :
            LET c == IF u THEN CallOf(".undefined_variable") ELSE Top.stmt
            IN  RunIfExists(gs, SetTop([Top EXCEPT !.pc = "before", !.stmt = c]),
                            ".before_command")
      BY <1>19 DEF MainInterpreted
    <3> DEFINE c == IF u THEN CallOf(".undefined_variable") ELSE Top.stmt
    <3>2. c = CallOf(".undefined_variable") \/ c = Top.stmt
      OBVIOUS
    <3>3. RunIfExists(gs, SetTop([Top EXCEPT !.pc = "before", !.stmt = c]),
                      ".before_command")
      BY <3>1
    <3> HIDE DEF c
    <3> QED BY <3>2, <3>3
  <2> DEFINE f == [Top EXCEPT !.pc = "before", !.stmt = c]
             s == SetTop(f)
  <2>2. c \in CommandType /\ RunIfExists(gs, s, ".before_command")
    BY <1>2, <1>12, <2>1, StatementsTyped
  <2>3. f \in Frames
    BY <1>2, <1>7, <2>2 DEF Frames
  <2> HIDE DEF f
  <2>4. s \in Seq(Frames) /\ Len(s) = 1
    BY <1>5, <2>3
  <2> HIDE DEF s
  <2> QED BY <1>2, <1>12, <2>2, <2>4, CausesIfExists
<1>20. CASE MainRun
  <2>1. CASE gs.errors # << >>
    <3>1. StartHandler(gs, Goto("after"), 0)
      BY <1>3, <1>20, <2>1 DEF MainRun
    <3> QED BY <1>2, <1>7, <1>11, <3>1
  <2>2. CASE gs.errors = << >>
    <3>1. /\ ~gs.unwind
          /\ \/ RunIfExists(gs, Goto("after"), ".run_logic")
             \/ RunHandling(gs, Goto("after"), "base_run", Top.base, Top.stmt)
      BY <1>4, <1>20, <2>2 DEF MainRun
    <3> QED BY <1>2, <1>7, <1>9, <1>10, <1>12, <3>1
  <2> QED BY <2>1, <2>2
<1>21. CASE MainAfter
  <2>1. RunIfExists(gs, Goto("statement"), ".after_command")
    BY <1>21 DEF MainAfter
  <2> QED BY <1>7, <1>10, <1>12, <2>1
<1>22. CASE MainShutdown
  <2>1. /\ ~gs.unwind
        /\ RunHandling(gs, Goto("globals"), "base_run", Top.base, CallOf(".shutdown"))
    BY <1>13, <1>22 DEF MainShutdown, Pending
  <2> QED BY <1>7, <1>9, <1>12, <2>1
<1>23. CASE MainGlobals
  <2> DEFINE h == AddError(gs, ".unused_variable")
  <2>1. Len(gs.errors) = 0
    <3>1. ~gs.unwind /\ Top.pc # "before"
      BY <1>13, <1>23 DEF MainGlobals, Pending
    <3>2. gs.errors = << >>
      BY <1>1, <1>2, <1>3, <3>1, MainQuiet
    <3> QED BY <3>2
  <2>2. StartHandler(h, Goto("done"), 0) \/ stack' = Goto("done")
    BY <1>23, <2>1 DEF MainGlobals
  <2>3. h \in CallStacks
    BY <1>2, <1>12, AddErrorType
  <2> HIDE DEF h
  <2> QED BY <1>7, <1>8, <1>11, <2>2, <2>3
<1> QED BY <1>14, <1>15, <1>16, <1>17, <1>18, <1>19, <1>20, <1>21, <1>22, <1>23

LEMMA CausesNext ==
  ASSUME Never("try"), Never("collect"), Sound, Causes(gs, stack), [Next]_vars
  PROVE  Causes(gs', stack')
<1>1. ShellInvariant /\ Rooted(stack) /\ FromScript(Top)
  BY TopSound DEF Sound, Origins
<1>2. Top.what # "try" /\ Top.what # "collect"
  <2>1. "try" \in Kinds \ {"call", "block", "throw"}
        /\ "collect" \in Kinds \ {"call", "block", "throw"}
    BY DEF Kinds
  <2> QED BY <1>1, <2>1, NotInScripts
<1>3. /\ ~(CatchNext \/ CatchReturned \/ CatchExcess \/ CatchDone)
      /\ ~(EnterCollect \/ CollectNext \/ CollectExcess \/ CollectEnd)
      /\ ~(CollectUndefined \/ CollectRun \/ CollectRan)
  BY <1>2 DEF CatchNext, CatchReturned, CatchExcess, CatchDone, EnterCollect,
     CollectNext, CollectExcess, CollectEnd, CollectUndefined, CollectRun,
     CollectRan
<1>4. CASE Advancing
  BY <1>4, CausesAdvance
<1>5. CASE Others
  BY <1>3, <1>5, CausesReturns, CausesSubstitute, CausesHandler,
     CausesReplace, CausesOthers, CausesGetline, CausesAtMain
     DEF Others
<1>6. CASE UNCHANGED vars
  BY <1>6 DEF vars
<1> QED BY <1>1, <1>4, <1>5, <1>6, StepKinds

\* An executable that returns unwinding has thrown, or the shell is to exit:
\* nobody is stopped by the exceptions of somebody else (operator(),
\* catch_one, evaluate_substitution_core, exception_handler), in a shell that
\* neither catches exceptions itself nor collects them.
THEOREM UnwindHasCauseHolds ==
  ASSUME Never("try"), Never("collect")
  PROVE  Spec => []UnwindHasCause
<1>1. Init => Causes(gs, stack)
  <2>1. Init => Len(stack) = 1
    BY DEF Init
  <2> QED BY <2>1, CausesAlone
<1>2. Sound /\ Sound' /\ Causes(gs, stack) /\ [Next]_vars => Causes(gs, stack)'
  BY CausesNext
<1>3. ASSUME Sound, Causes(gs, stack) PROVE UnwindHasCause
  <2> SUFFICES ASSUME Top.what \in Kinds, Top.pc = "return", gs.unwind, ~gs.exit
               PROVE  Len(gs.errors) > Threshold
    BY DEF UnwindHasCause
  <2>1. /\ stack \in Seq(Frames) /\ Top = stack[Len(stack)] /\ Len(stack) \in Nat
        /\ Len(gs.errors) \in Nat /\ Rooted(stack)
    BY <1>3, TopSound DEF Sound, Origins
  <2>2. Top.what # "main" /\ ~Absorbing(Top)
    BY DEF Kinds, Absorbing, HelperKinds
  <2>3. Len(stack) > 2
    BY <1>3, <2>1, TopOfOrigins DEF Sound, Origins
  <2>4. Caused(gs, stack, Len(stack) - 1, Len(gs.errors))
    BY <1>3, CausesTop
  <2>5. \A j \in 2 .. Len(stack) : Absorbing(stack[j]) => Len(gs.errors) > stack[j].mark
    <3>1. \A j \in 2 .. Len(stack) : j = Len(stack) \/ j \in 2 .. Len(stack) - 1
      BY <2>1
    <3> QED BY <2>1, <2>2, <2>4, <3>1 DEF Caused
  <2>6. /\ Threshold \in Nat
        /\ \A j \in 2 .. Len(stack) : Absorbing(stack[j]) => stack[j].mark <= Threshold
        /\ Threshold = 0 \/ \E j \in 2 .. Len(stack) :
                               Absorbing(stack[j]) /\ Threshold = stack[j].mark
    BY <1>3, ThresholdBounds
  <2>7. 2 \in 2 .. Len(stack) /\ 2 \in 1 .. Len(stack)
    BY <2>1, <2>3
  <2>8. Absorbing(stack[2])
    <3>1. OriginAt(stack, 2)
      BY <2>1, <2>7 DEF Rooted
    <3>2. stack[2].what \in HelperKinds \ {"main", "autofunction"}
      BY <3>1 DEF OriginAt
    <3> QED BY <3>2 DEF Absorbing
  <2>9. stack[2].mark \in Nat
    <3>1. stack[2] \in Frames
      BY <2>1, <2>7
    <3> QED BY <3>1 DEF Frames
  <2>10. Len(gs.errors) > stack[2].mark
    BY <2>5, <2>7, <2>8
  <2>11. Len(gs.errors) > 0
    BY <2>1, <2>9, <2>10
  <2> QED BY <2>5, <2>6, <2>11
<1>4. Spec => []Causes(gs, stack)
  BY <1>1, <1>2, AccountsHolds, PTL DEF Spec
<1> QED BY <1>3, <1>4, AccountsHolds, PTL

=============================================================================
