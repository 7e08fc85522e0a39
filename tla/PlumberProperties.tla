------------------------- MODULE PlumberProperties -------------------------
(***************************************************************************)
(* Output arrives once, in order and where it belongs, and nobody waits    *)
(* for ever.  Two things are excepted where they matter: pieces that were  *)
(* in the buffer of cout when a process was made or replaced, of which     *)
(* there are then two copies or none; and a failed .exec, which leaves     *)
(* descriptor 1 of the shell redirected (fd1).                             *)
(***************************************************************************)
EXTENDS Plumber

Certain(pieces) == Range(pieces) \ pending
InOrder(pieces) ==
  \A i, j \in DOMAIN pieces :
    i < j /\ {pieces[i], pieces[j]} \cap pending = {} => pieces[i] < pieces[j]

\* What a child still has in its buffer for a place.
Unflushed(place) == IF child # None /\ child.fd1 = place THEN child.buf ELSE << >>

\* The text of a substitution is what its script has written, by builtins and by
\* children that got its pipe, each piece once and in order: what has been read from
\* the pipe, what is still in it, and what a child has not flushed.  The handlers that
\* the child of a missing binary runs are among them, those that the shell runs are not
\* (plumber.cc:29-36, 54-58, substitution_stream.cc:21-50, executable.cc:65-77).
SubstitutionExact ==
  fd1 = Screen =>
    \A k \in DOMAIN subs :
      LET text == subs[k].buffer \o subs[k].data \o Unflushed(k)
      IN  Certain(text) = meant[k] \ pending /\ InOrder(text)

\* The shell shows what has been written outside substitutions, by handlers inside them
\* and by children for which no pipe could be had, each piece once and in order, except
\* for what it, or a child, has not flushed yet (executable.cc:59-81,
\* builtin.cc:227-242, argm.cc:48-52).
TerminalExact ==
  fd1 = Screen =>
    LET text == shown \o Unflushed(Screen) \o outbuf
    IN  Certain(text) = meant[Screen] \ pending /\ InOrder(text)

\* Between statements all pipes have been read to the end and closed, and there
\* is no child (plumber.cc:49-67): nothing leaks however many binaries a
\* substitution runs.
NothingLeftOpen ==
  pc = "script" /\ fd1 = Screen =>
    /\ child = None
    /\ to_close = << >> /\ output_handlers = << >>
    /\ \A k \in DOMAIN subs :
         subs[k].data = << >> /\ ~subs[k].writing /\ ~subs[k].reading

\* Closing, copying and waiting come to an end, also for a child that writes more
\* than the pipe holds: the shell reads before it waits and has no write end of
\* its own (plumber.cc:50-63).
WaitReturns == pc = "wait" /\ fd1 = Screen ~> pc = "script"

=============================================================================
