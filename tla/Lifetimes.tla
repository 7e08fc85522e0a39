------------------------------ MODULE Lifetimes ------------------------------
(***************************************************************************)
(* What the shell promises about the life of its executables, without      *)
(* saying how: an executable is there exactly as long as a name stands for *)
(* it or an activation of it is running, and only a name can start one.    *)
(***************************************************************************)
EXTENDS Naturals

CONSTANTS Names, Objects, None

VARIABLES
  named,    \* the executable each name stands for
  active,   \* how many activations of an executable are running
  alive     \* the executables that exist

lifetimeVars == <<named, active, alive>>

Referred(names, runs) ==
  {o \in Objects : (\E n \in Names : names[n] = o) \/ runs[o] > 0}

Init ==
  /\ named \in [Names -> Objects \cup {None}]
  /\ active = [o \in Objects |-> 0]
  /\ alive = Referred(named, active)

\* A new executable takes a name, whether it was free or stood for another.
Bind(n, o) ==
  /\ o \notin alive
  /\ named' = [named EXCEPT ![n] = o]
  /\ UNCHANGED active

Unbind(n) ==
  /\ named[n] # None
  /\ named' = [named EXCEPT ![n] = None]
  /\ UNCHANGED active

Enter(o) ==
  /\ \E n \in Names : named[n] = o
  /\ active' = [active EXCEPT ![o] = @ + 1]
  /\ UNCHANGED named

Leave(o) ==
  /\ active[o] > 0
  /\ active' = [active EXCEPT ![o] = @ - 1]
  /\ UNCHANGED named

Next ==
  /\ \/ \E n \in Names, o \in Objects : Bind(n, o)
     \/ \E n \in Names : Unbind(n)
     \/ \E o \in Objects : Enter(o) \/ Leave(o)
  /\ alive' = Referred(named', active')

Spec == Init /\ [][Next]_lifetimeVars
=============================================================================
